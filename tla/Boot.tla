-------------------------------- MODULE Boot --------------------------------
(***************************************************************************)
(* The life of the process: NewServer (server.go) with the migration of    *)
(* fs.go, prepare, ListenAndServe and its goroutines, and the files that   *)
(* survive it, over several starts.                                        *)
(*                                                                         *)
(* A start is one goroutine.  A file is written by os.WriteFile, which     *)
(* empties it first: a crash or an error can leave it as it was or empty.  *)
(* The pairing files are those of controllers; what requests do to them    *)
(* while the server runs is PairingServer, here it is one step.            *)
(*                                                                         *)
(* Identifiers (uuid, key pair) are numbers: a fresh one is larger than    *)
(* any before.  An accessory configuration is a shape, which configHash    *)
(* tells apart, and the values of its characteristics, which it leaves out.*)
(***************************************************************************)
EXTENDS Integers, Sequences

CONSTANTS
    Controller,   \* controllers
    Legacy,       \* controllers with an .entity file of hc, an admin each
    Shape,        \* shapes of the accessories: positive numbers
    Value,        \* values of the characteristics
    VersionMod,   \* 2^16: version is a uint16
    MaxStart,     \* bound on the starts of the process
    MaxHarm       \* bound on writes that fail or are torn by a crash

ASSUME ConstantsAssumption ==
    /\ Legacy \subseteq Controller
    /\ "own" \notin Controller
    /\ Shape \subseteq Nat \ {0}
    /\ VersionMod \in Nat \ {0, 1, 2}
    /\ MaxStart \in Nat /\ MaxHarm \in Nat

VARIABLES
    file,     \* "uuid", "version", "configHash", "schema" and "keypair"; and "own",
              \* the .entity file with the key pair of hc itself
    pairing,  \* the pairing files
    pc,       \* where the start, or ListenAndServe, is
    config,   \* the accessories the host has started this process with
    mem,      \* uuid, version and key of the Server
    todo,     \* .entity files that migrateFromHc has still to read
    ctx,      \* the context of ListenAndServe is cancelled
    dns,      \* the goroutine of the dnssd responder
    closer,   \* the goroutine that closes the http server
    served,   \* what each ListenAndServe has announced
    removed,  \* controllers a request has removed
    starts,   \* starts so far
    fresh,    \* the last identifier that was generated
    harm      \* writes that failed or were torn

vars == <<file, pairing, pc, config, mem, todo, ctx, dns, closer, served,
          removed, starts, fresh, harm>>

disk    == <<file, pairing>>
running == <<ctx, dns, closer>>
history == <<served, removed, starts>>

-----------------------------------------------------------------------------

None  == -1   \* there is no such file
Empty == 0    \* an empty file; also what a version reads as when it is "0"

Key == {"uuid", "version", "configHash", "schema", "keypair", "own"}

Permission == {"user", "admin"}

Entity == Legacy \cup {k \in {"own"} : file[k] # None}

OwnLegacyKey == 1   \* the identifier that hc has left

Config == [shape : Shape, value : Value]

\* Mutant: the values of the characteristics count as well.
HashWithValue(c) == c.shape + (IF c.value = CHOOSE v \in Value : TRUE THEN 0 ELSE 100)

\* configHash deletes every "value" before it hashes.
configHash(c) == c.shape

Off == pc = "off"

\* The file that is being written at each point, if any.
Writes(at) ==
    CASE at = "setSchema"  -> {"schema"}
      [] at = "setUuid"    -> {"uuid"}
      [] at = "setVersion" -> {"version"}
      [] at = "setHash"    -> {"configHash"}
      [] at = "setKey"     -> {"keypair"}
      [] OTHER             -> {}

Goto(to) == pc' = to

Stop ==
    /\ pc' = "off"
    /\ ctx' = FALSE
    /\ dns' = "none"
    /\ closer' = "none"
    /\ todo' = {}
    /\ mem' = [uuid |-> None, version |-> 0, key |-> None]

-----------------------------------------------------------------------------
(* The store *)

Set(k, v) == file' = [file EXCEPT ![k] = v] /\ UNCHANGED <<pairing, harm>>

\* A write that fails: the file is as it was, or empty.
SetFails(k) ==
    /\ harm < MaxHarm
    /\ harm' = harm + 1
    /\ file' \in {file, [file EXCEPT ![k] = Empty]}
    /\ UNCHANGED pairing

-----------------------------------------------------------------------------
(* migrate *)

\* The host creates the server; a schema that cannot be read is "".
Start(c) ==
    /\ Off
    /\ starts < MaxStart
    /\ starts' = starts + 1
    /\ config' = c
    /\ IF file["schema"] \in {None, Empty}
       THEN Goto("migrate") /\ todo' = Entity
       ELSE Goto("uuid") /\ UNCHANGED todo
    /\ UNCHANGED <<disk, mem, running, served, removed, fresh, harm>>

\* One .entity file: the key pair of hc itself, or a controller.
MigrateEntity(e) ==
    /\ pc = "migrate"
    /\ e \in todo
    /\ todo' = todo \ {e}
    /\ IF e \in Controller
       THEN pairing' = [pairing EXCEPT ![e] = "admin"] /\ UNCHANGED file
       ELSE file' = [file EXCEPT !["keypair"] = file[e]] /\ UNCHANGED pairing
    /\ UNCHANGED <<pc, config, mem, running, history, fresh, harm>>

\* Saving one fails: NewServer panics.
MigrateFails(e) ==
    /\ pc = "migrate"
    /\ e \in todo
    /\ harm < MaxHarm
    /\ harm' = harm + 1
    /\ \/ UNCHANGED disk
       \/ e \in Controller /\ pairing' = [pairing EXCEPT ![e] = "torn"]
                           /\ UNCHANGED file
       \/ e \notin Controller /\ file' = [file EXCEPT !["keypair"] = Empty]
                              /\ UNCHANGED pairing
    /\ Stop
    /\ UNCHANGED <<config, history, fresh>>

\* Mutant: the schema is written before the entities are migrated.
MigratedEarly ==
    /\ pc = "migrate"
    /\ Goto("setSchema")
    /\ UNCHANGED <<disk, config, mem, todo, running, history, fresh, harm>>

Migrated ==
    /\ pc = "migrate"
    /\ todo = {}
    /\ Goto("setSchema")
    /\ UNCHANGED <<disk, config, mem, todo, running, history, fresh, harm>>

\* Mutant: the schema is never written.
SetSchemaOmitted ==
    /\ pc = "setSchema"
    /\ Goto("uuid")
    /\ UNCHANGED <<disk, config, mem, todo, running, history, fresh, harm>>

\* The error of this write is ignored.
SetSchema ==
    /\ pc = "setSchema"
    /\ Set("schema", 1) \/ SetFails("schema")
    /\ Goto("uuid")
    /\ UNCHANGED <<config, mem, todo, running, history, fresh>>

-----------------------------------------------------------------------------
(* NewServer *)

GetUuid ==
    /\ pc = "uuid"
    /\ IF file["uuid"] = None
       THEN fresh' = fresh + 1 /\ Goto("setUuid") /\ UNCHANGED mem
       ELSE mem' = [mem EXCEPT !.uuid = file["uuid"]] /\ Goto("version")
            /\ UNCHANGED fresh
    /\ UNCHANGED <<disk, config, todo, running, history, harm>>

\* Mutant: the error of writing the uuid is ignored as well.
SetUuidBestEffort ==
    /\ pc = "setUuid"
    /\ Set("uuid", fresh) \/ SetFails("uuid")
    /\ mem' = [mem EXCEPT !.uuid = fresh]
    /\ Goto("version")
    /\ UNCHANGED <<config, todo, running, history, fresh>>

SetUuid ==
    /\ pc = "setUuid"
    /\ Set("uuid", fresh)
    /\ mem' = [mem EXCEPT !.uuid = fresh]
    /\ Goto("version")
    /\ UNCHANGED <<config, todo, running, history, fresh>>

\* Without an identifier, or a key pair, that is stored the start fails.
SetIdentityFails ==
    /\ pc \in {"setUuid", "setKey"}
    /\ \E k \in Writes(pc) : SetFails(k)
    /\ Stop
    /\ UNCHANGED <<config, history, fresh>>

StoredHash == IF file["configHash"] = Empty THEN None ELSE file["configHash"]

\* Mutant: the version is not kept in 16 bits.
GetVersionWide ==
    /\ pc = "version"
    /\ LET v == IF file["version"] = None THEN 1 ELSE file["version"] IN
       IF StoredHash # configHash(config)
       THEN mem' = [mem EXCEPT !.version = v + 1] /\ Goto("setVersion")
       ELSE mem' = [mem EXCEPT !.version = v] /\ Goto("key")
    /\ UNCHANGED <<disk, config, todo, running, history, fresh, harm>>

\* The stored version, or 1, and the comparison at the end of add.
GetVersion ==
    /\ pc = "version"
    /\ LET v == IF file["version"] = None THEN 1 ELSE file["version"] IN
       IF StoredHash # configHash(config)
       THEN mem' = [mem EXCEPT !.version = (v + 1) % VersionMod] /\ Goto("setVersion")
       ELSE mem' = [mem EXCEPT !.version = v] /\ Goto("key")
    /\ UNCHANGED <<disk, config, todo, running, history, fresh, harm>>

\* The errors of these two writes are ignored.
SetVersion ==
    /\ pc = "setVersion"
    /\ Set("version", mem.version) \/ SetFails("version")
    /\ Goto("setHash")
    /\ UNCHANGED <<config, mem, todo, running, history, fresh>>

SetHash ==
    /\ pc = "setHash"
    /\ Set("configHash", configHash(config)) \/ SetFails("configHash")
    /\ Goto("key")
    /\ UNCHANGED <<config, mem, todo, running, history, fresh>>

-----------------------------------------------------------------------------
(* ListenAndServe *)

\* prepare: a key pair that cannot be read is replaced by a new one.
LoadKeyPair ==
    /\ pc = "key"
    /\ IF file["keypair"] \in {None, Empty}
       THEN fresh' = fresh + 1 /\ Goto("setKey") /\ UNCHANGED mem
       ELSE mem' = [mem EXCEPT !.key = file["keypair"]] /\ Goto("listen")
            /\ UNCHANGED fresh
    /\ UNCHANGED <<disk, config, todo, running, history, harm>>

SaveKeyPair ==
    /\ pc = "setKey"
    /\ Set("keypair", fresh)
    /\ mem' = [mem EXCEPT !.key = fresh]
    /\ Goto("listen")
    /\ UNCHANGED <<config, todo, running, history, fresh>>

\* A pin that is not accepted, an address in use, a responder that fails.
ListenFails ==
    /\ pc = "listen"
    /\ Stop
    /\ UNCHANGED <<disk, config, history, fresh, harm>>

\* The announcement goes out; the responder and the closer have goroutines.
Listen ==
    /\ pc = "listen"
    /\ Goto("serve")
    /\ dns' = "respond"
    /\ closer' = "wait"
    /\ served' = Append(served, [uuid |-> mem.uuid, key |-> mem.key,
                                 version |-> mem.version, shape |-> config.shape])
    /\ UNCHANGED <<disk, config, mem, todo, ctx, removed, starts, fresh, harm>>

\* What requests do to the pairings.
AddPairing(c, p) ==
    /\ pc = "serve"
    /\ pairing' = [pairing EXCEPT ![c] = p]
    /\ removed' = removed \ {c}
    /\ UNCHANGED <<file, pc, config, mem, todo, running, served, starts, fresh, harm>>

RemovePairing(c) ==
    /\ pc = "serve"
    /\ pairing[c] # "none"
    /\ pairing' = [pairing EXCEPT ![c] = "none"]
    /\ removed' = removed \cup {c}
    /\ UNCHANGED <<file, pc, config, mem, todo, running, served, starts, fresh, harm>>

\* The host cancels the context, at any time.
Cancel ==
    /\ pc \in {"serve", "awaitDns", "awaitHttp"}
    /\ ~ctx
    /\ ctx' = TRUE
    /\ UNCHANGED <<disk, pc, config, mem, todo, dns, closer, history, fresh, harm>>

\* Mutant: the end of the responder is lost when nobody waits for it.
DnsStopsUnheard ==
    /\ dns = "respond"
    /\ dns' = IF pc = "awaitDns" THEN "stopped" ELSE "none"
    /\ UNCHANGED <<disk, pc, config, mem, todo, ctx, closer, history, fresh, harm>>

\* The responder ends with the context, or on its own with an error.
DnsStops ==
    /\ dns = "respond"
    /\ dns' = "stopped"
    /\ UNCHANGED <<disk, pc, config, mem, todo, ctx, closer, history, fresh, harm>>

CloserCloses ==
    /\ closer = "wait"
    /\ ctx
    /\ closer' = "closed"
    /\ UNCHANGED <<disk, pc, config, mem, todo, ctx, dns, history, fresh, harm>>

\* Serve returns: the http server was closed, or Accept has failed for good.
ServeReturns ==
    /\ pc = "serve"
    /\ closer = "closed"
    /\ Goto("awaitDns")
    /\ UNCHANGED <<disk, config, mem, todo, running, history, fresh, harm>>

ServeFails ==
    /\ pc = "serve"
    /\ closer = "wait"
    /\ Goto("awaitDns")
    /\ UNCHANGED <<disk, config, mem, todo, running, history, fresh, harm>>

\* <-dnsStop: the goroutine sends on an unbuffered channel.
AwaitDns ==
    /\ pc = "awaitDns"
    /\ dns = "stopped"
    /\ Goto("awaitHttp")
    /\ dns' = "none"
    /\ UNCHANGED <<disk, config, mem, todo, ctx, closer, history, fresh, harm>>

\* <-serverStop, and ListenAndServe returns.
AwaitHttp ==
    /\ pc = "awaitHttp"
    /\ closer = "closed"
    /\ Stop
    /\ UNCHANGED <<disk, config, history, fresh, harm>>

-----------------------------------------------------------------------------
(* Crashes *)

\* The process dies; a file that is being written may be left empty.
Crash ==
    /\ ~Off
    /\ Stop
    /\ \/ UNCHANGED <<disk, harm>>
       \/ /\ harm < MaxHarm
          /\ harm' = harm + 1
          /\ \E k \in Writes(pc) : file' = [file EXCEPT ![k] = Empty]
          /\ UNCHANGED pairing
    /\ UNCHANGED <<config, history, fresh>>

-----------------------------------------------------------------------------

Init ==
    /\ \E own \in {None, OwnLegacyKey} :
          file = [k \in Key |-> IF k = "own" THEN own ELSE None]
    /\ pairing = [c \in Controller |-> "none"]
    /\ pc = "off"
    /\ config \in Config
    /\ mem = [uuid |-> None, version |-> 0, key |-> None]
    /\ todo = {}
    /\ ctx = FALSE /\ dns = "none" /\ closer = "none"
    /\ served = <<>>
    /\ removed = {}
    /\ starts = 0 /\ fresh = 1 /\ harm = 0

NewServer ==
    \/ \E e \in Entity : MigrateEntity(e) \/ MigrateFails(e)
    \/ Migrated \/ SetSchema
    \/ GetUuid \/ SetUuid \/ SetIdentityFails
    \/ GetVersion \/ SetVersion \/ SetHash

Goroutines ==
    DnsStops \/ CloserCloses \/ ServeReturns \/ ServeFails \/ AwaitDns \/ AwaitHttp

ListenAndServe ==
    LoadKeyPair \/ SaveKeyPair \/ Listen \/ ListenFails \/ Goroutines

Next ==
    \/ \E c \in Config : Start(c)
    \/ NewServer
    \/ ListenAndServe
    \/ \E c \in Controller : RemovePairing(c) \/ \E p \in Permission : AddPairing(c, p)
    \/ Cancel
    \/ Crash

Spec == Init /\ [][Next]_vars

\* The Go runtime runs every goroutine that can go on; with the context
\* cancelled the responder and Serve return.
Fairness == WF_vars(Goroutines)

FairSpec == Spec /\ Fairness

-----------------------------------------------------------------------------
(* Properties *)

\* Every variable has its type.
TypeOK ==
    /\ file \in [Key -> Nat \cup {None}]
    /\ file["version"] < VersionMod
    /\ pairing \in [Controller -> Permission \cup {"none", "torn"}]
    /\ pc \in {"off", "migrate", "setSchema", "uuid", "setUuid", "version",
               "setVersion", "setHash", "key", "setKey", "listen", "serve",
               "awaitDns", "awaitHttp"}
    /\ config \in Config
    /\ mem \in [uuid : Nat \cup {None}, version : 0..(VersionMod - 1),
                key : Nat \cup {None}]
    /\ todo \in SUBSET Entity
    /\ ctx \in BOOLEAN
    /\ dns \in {"none", "respond", "stopped"}
    /\ closer \in {"none", "wait", "closed"}
    /\ served \in Seq([uuid : Nat, key : Nat \ {0}, version : Nat, shape : Shape])
    /\ removed \in SUBSET Controller
    /\ starts \in 0..MaxStart
    /\ fresh \in Nat
    /\ harm \in 0..MaxHarm

\* "internal identifier (generated and stored on disk)": what controllers know
\* the accessory by, its uuid and its key, is the same after every restart,
\* wherever earlier starts have crashed and whatever writes have failed.
IdentityKept ==
    \A i, j \in DOMAIN served :
        served[i].uuid = served[j].uuid /\ served[i].key = served[j].key

\* "If the accessory changed from last time, we have to update the version
\* flag", and only then: also when starts crash between the two files, each of
\* which advances the version once more, until it has come all the way around.
VersionTellsChange ==
    harm = 0 /\ starts <= VersionMod =>
        \A i \in 2..Len(served) :
            /\ served[i].shape # served[i - 1].shape
                  => served[i].version # served[i - 1].version
            /\ starts = Len(served) /\ served[i].shape = served[i - 1].shape
                  => served[i].version = served[i - 1].version

\* Once a server runs, the controllers of hc are paired with the key that hc had
\* for itself, whatever has become of earlier attempts to migrate them.
MigrationComplete ==
    pc = "serve" =>
        /\ \A c \in Legacy : pairing[c] \in Permission \/ c \in removed
        /\ \A e \in Entity \ Legacy : mem.key = file[e]

\* A pairing that a request has removed is not there again after a restart, as
\* long as no write has failed: a migration is not repeated over later changes.
RemovedStaysRemoved ==
    harm = 0 => \A c \in removed : pairing[c] = "none"

\* A cancelled context ends ListenAndServe.
CancelStops == ctx ~> Off

=============================================================================
