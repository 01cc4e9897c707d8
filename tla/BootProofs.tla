----------------------------- MODULE BootProofs -----------------------------
(***************************************************************************)
(* Theorems about Boot for every set of controllers and shapes, and every  *)
(* number of starts and of failing writes.                                 *)
(***************************************************************************)
EXTENDS Boot, SequenceTheorems, TLAPS

-----------------------------------------------------------------------------
(* The inductive invariant *)

\* The points of a start before it has a place in served, and those at which
\* the version has not been looked at.
BeforeListen == {"migrate", "setSchema", "uuid", "setUuid", "version",
                 "setVersion", "setHash", "key", "setKey", "listen"}
BeforeVersion == {"migrate", "setSchema", "uuid", "setUuid", "version"}
Listening == {"serve", "awaitDns", "awaitHttp"}
AfterSchema == {"uuid", "setUuid", "version", "setVersion", "setHash", "key", "setKey",
                "listen"} \cup Listening

\* The entities of hc need not be migrated again.
NoMigration == file["schema"] \notin {None, Empty} \/ pc \notin {"off", "migrate"}
Done(e) == NoMigration \/ (pc = "migrate" /\ e \notin todo)

\* The uuid and the key pair of the server are those on disk, where neither is
\* written again once it is there.  A key pair of hc may be migrated repeatedly.
Identity ==
    /\ file["own"] \in {None, OwnLegacyKey} /\ fresh >= 1
    /\ pc = "setUuid" => file["uuid"] = None
    /\ pc = "setKey" => file["keypair"] \in {None, Empty}
    /\ pc \in {"version", "setVersion", "setHash", "key", "setKey", "listen"} \cup Listening
          => mem.uuid = file["uuid"] /\ mem.uuid # None
    /\ pc \in {"listen"} \cup Listening
          => mem.key = file["keypair"] /\ mem.key \notin {None, Empty}
    /\ file["own"] # None /\ Done("own") => file["keypair"] = file["own"]
    /\ \A i \in DOMAIN served :
          /\ served[i].uuid = file["uuid"]
          /\ served[i].key = IF file["own"] = None THEN file["keypair"] ELSE file["own"]

\* The schema is written after the last entity, and then the controllers of hc
\* are paired until a request removes them.
Migration ==
    /\ pc \in {"migrate", "setSchema"} => file["schema"] \in {None, Empty}
    /\ \A c \in Legacy : Done(c) => pairing[c] \in Permission \/ c \in removed
    /\ harm = 0 /\ (removed # {} \/ pc \in AfterSchema)
          => file["schema"] \notin {None, Empty}
    /\ RemovedStaysRemoved

\* The version after n changes.
Advanced(v, n) == IF v + n < VersionMod THEN v + n ELSE v + n - VersionMod

\* How the stored version and hash relate to what was announced last: n starts
\* since then have advanced the version and not come to Listen.
Behind(n) ==
    LET last == served[Len(served)] IN
    /\ file["version"] = Advanced(last.version, n)
    /\ n + Len(served) <= starts
    /\ pc \in BeforeVersion \cup {"setVersion"} => n + Len(served) < starts
    /\ n = 0 => file["configHash"] = last.shape
    /\ pc = "setHash" => n # 0
    /\ (/\ pc \in BeforeListen \ BeforeVersion
        /\ starts = Len(served) + 1
        /\ config.shape = last.shape) => n = 0 /\ pc \notin {"setVersion", "setHash"}

\* A start announces itself once.
Announcements ==
    /\ Len(served) <= starts
    /\ pc \in BeforeListen => Len(served) < starts
    /\ \A i \in DOMAIN served : served[i].version < VersionMod

StoredVersion == IF file["version"] = None THEN 1 ELSE file["version"]

\* What a start has found on disk, and written there.
Stored ==
    /\ file["configHash"] \in Shape \cup {None}
    /\ file["configHash"] # None => file["version"] # None
    /\ pc = "setVersion" => mem.version = Advanced(StoredVersion, 1)
    /\ pc = "setHash" => mem.version = file["version"]
    /\ pc \in {"key", "setKey", "listen"}
          => mem.version = file["version"] /\ file["configHash"] = config.shape

\* What VersionTellsChange says; as long as every start has been announced, but
\* for the one that is under way.
Told ==
    \A i \in 2..Len(served) :
        /\ served[i].shape # served[i - 1].shape
              => served[i].version # served[i - 1].version
        /\ (/\ starts = Len(served) \/ (starts = Len(served) + 1 /\ pc \in BeforeListen)
            /\ served[i].shape = served[i - 1].shape)
              => served[i].version = served[i - 1].version

Versions ==
    /\ Announcements
    /\ harm = 0 => Stored
    /\ harm = 0 /\ starts <= VersionMod =>
          /\ Told
          /\ Len(served) # 0 => \E n \in 0..starts : Behind(n)

IInv == TypeOK /\ Identity /\ Migration /\ Versions

-----------------------------------------------------------------------------
(* Types *)

LEMMA ConstantFacts ==
    /\ Legacy \subseteq Controller /\ "own" \notin Controller
    /\ Shape \subseteq Nat \ {0}
    /\ VersionMod \in Nat /\ VersionMod > 2
    /\ MaxStart \in Nat /\ MaxHarm \in Nat
    /\ None \notin Nat /\ None \in Int /\ None < 0 /\ Empty = 0
    /\ OwnLegacyKey \in Nat /\ OwnLegacyKey # 0
  BY ConstantsAssumption DEF None, Empty, OwnLegacyKey

\* The file that is written at each point.
LEMMA WritesFacts ==
    /\ Writes("setSchema") = {"schema"} /\ Writes("setUuid") = {"uuid"}
    /\ Writes("setVersion") = {"version"} /\ Writes("setHash") = {"configHash"}
    /\ Writes("setKey") = {"keypair"}
    /\ \A at : at \notin {"setSchema", "setUuid", "setVersion", "setHash", "setKey"}
                  => Writes(at) = {}
    /\ \A at : Writes(at) \subseteq Key \ {"own"}
<1>1. /\ Writes("setSchema") = {"schema"} /\ Writes("setUuid") = {"uuid"}
      /\ Writes("setVersion") = {"version"} /\ Writes("setHash") = {"configHash"}
      /\ Writes("setKey") = {"keypair"}
  BY DEF Writes
<1>2. ASSUME NEW at, at \notin {"setSchema", "setUuid", "setVersion", "setHash", "setKey"}
      PROVE  Writes(at) = {}
  BY <1>2 DEF Writes
<1>3. QED
  BY <1>1, <1>2, Zenon DEF Key

LEMMA FileTypes ==
    ASSUME TypeOK
    PROVE  /\ file \in [Key -> Nat \cup {None}] /\ file["version"] < VersionMod
           /\ "own" \in Key /\ "uuid" \in Key /\ "version" \in Key
           /\ "configHash" \in Key /\ "schema" \in Key /\ "keypair" \in Key
  BY DEF TypeOK, Key

\* The writes of a file, those that fail included.
LEMMA SetTypes ==
    ASSUME TypeOK, NEW k \in Key, NEW v \in Nat, k = "version" => v < VersionMod,
           Set(k, v) \/ SetFails(k)
    PROVE  /\ file' \in [Key -> Nat \cup {None}] /\ file'["version"] < VersionMod
           /\ k # "own" => file'["own"] = file["own"]
           /\ harm' \in 0..MaxHarm
           /\ UNCHANGED pairing
<1>a. /\ file \in [Key -> Nat \cup {None}] /\ file["version"] < VersionMod
      /\ "own" \in Key /\ "version" \in Key
  BY FileTypes
<1>b. harm \in 0..MaxHarm
  BY DEF TypeOK
<1>1. ASSUME NEW n \in Nat, k = "version" => n < VersionMod, file' = [file EXCEPT ![k] = n]
      PROVE  /\ file' \in [Key -> Nat \cup {None}] /\ file'["version"] < VersionMod
             /\ k # "own" => file'["own"] = file["own"]
  BY <1>a, <1>1
<1>2. CASE Set(k, v)
  BY <1>1, <1>b, <1>2 DEF Set
<1>3. CASE SetFails(k)
  <2>1. harm' \in 0..MaxHarm /\ UNCHANGED pairing
    BY <1>b, <1>3, ConstantFacts DEF SetFails
  <2>2. UNCHANGED file \/ file' = [file EXCEPT ![k] = Empty]
    BY <1>3 DEF SetFails
  <2>3. Empty \in Nat /\ Empty < VersionMod
    BY ConstantFacts
  <2>4. QED
    BY <1>a, <1>1, <2>1, <2>2, <2>3
<1>4. QED
  BY <1>2, <1>3

LEMMA OwnKept == TypeOK /\ [Next]_vars => file'["own"] = file["own"] /\ Entity' = Entity
<1> SUFFICES ASSUME TypeOK, [Next]_vars PROVE file'["own"] = file["own"]
  BY DEF Entity
<1>a. /\ file \in [Key -> Nat \cup {None}]
      /\ "own" \in Key /\ "uuid" \in Key /\ "version" \in Key
      /\ "configHash" \in Key /\ "schema" \in Key /\ "keypair" \in Key
  BY FileTypes
<1>1. ASSUME NEW k \in Key, k # "own", NEW v, file' = [file EXCEPT ![k] = v]
      PROVE  file'["own"] = file["own"]
  BY <1>a, <1>1
<1>2. CASE UNCHANGED file
  BY <1>2
<1>3. CASE \/ \E c \in Config : Start(c)
           \/ Migrated \/ GetUuid \/ GetVersion
           \/ LoadKeyPair \/ Listen \/ ListenFails \/ Goroutines
           \/ \E c \in Controller : RemovePairing(c) \/ \E p \in Permission : AddPairing(c, p)
           \/ Cancel \/ UNCHANGED vars
  BY <1>2, <1>3, Zenon DEF Start, Migrated, GetUuid, GetVersion, LoadKeyPair, Listen,
     ListenFails, Goroutines, DnsStops, CloserCloses, ServeReturns, ServeFails, AwaitDns,
     AwaitHttp, RemovePairing, AddPairing, Cancel, vars, disk
<1>4. CASE \E e \in Entity : MigrateEntity(e) \/ MigrateFails(e)
  BY <1>a, <1>4 DEF MigrateEntity, MigrateFails, disk
<1>5. CASE SetSchema \/ SetUuid \/ SetVersion \/ SetHash \/ SaveKeyPair
  BY <1>a, <1>5 DEF SetSchema, SetUuid, SetVersion, SetHash, SaveKeyPair, Set, SetFails
<1>6. CASE SetIdentityFails \/ Crash
  <2>1. UNCHANGED file \/ \E k \in Writes(pc) : file' = [file EXCEPT ![k] = Empty]
    BY <1>6 DEF SetIdentityFails, Crash, SetFails, disk
  <2>2. QED
    BY <1>1, <1>2, <2>1, WritesFacts
<1>7. QED
  BY <1>3, <1>4, <1>5, <1>6 DEF Next, NewServer, ListenAndServe


\* Stop leaves nothing running.
LEMMA StopTypes ==
    ASSUME Stop
    PROVE  /\ pc' = "off" /\ ctx' = FALSE /\ dns' = "none" /\ closer' = "none"
           /\ todo' = {}
           /\ mem' \in [uuid : Nat \cup {None}, version : 0..(VersionMod - 1),
                        key : Nat \cup {None}]
<1>1. 0 \in 0..(VersionMod - 1)
  BY ConstantFacts
<1>2. QED
  BY <1>1 DEF Stop

\* What a step that fails or a crash leaves of the files.
LEMMA HarmTypes ==
    ASSUME TypeOK, SetIdentityFails \/ Crash \/ \E e \in Entity : MigrateFails(e)
    PROVE  /\ Stop /\ UNCHANGED <<config, history, fresh>>
           /\ harm' \in 0..MaxHarm
           /\ harm' = 0 => harm = 0 /\ UNCHANGED disk
           /\ file' \in [Key -> Nat \cup {None}] /\ file'["version"] < VersionMod
           /\ file'["own"] = file["own"]
           /\ pairing' \in [Controller -> Permission \cup {"none", "torn"}]
           /\ \/ UNCHANGED file
              \/ \E k \in Writes(pc) : file' = [file EXCEPT ![k] = Empty]
              \/ /\ pc = "migrate" /\ file["own"] # None
                 /\ file' = [file EXCEPT !["keypair"] = Empty]
           /\ \A c \in Controller : pairing'[c] = pairing[c] \/ pc = "migrate"
<1>a. /\ file \in [Key -> Nat \cup {None}] /\ file["version"] < VersionMod
      /\ "own" \in Key /\ "version" \in Key /\ "keypair" \in Key
  BY FileTypes
<1>b. /\ harm \in 0..MaxHarm
      /\ pairing \in [Controller -> Permission \cup {"none", "torn"}]
  BY DEF TypeOK
<1>c. Empty \in Nat /\ Empty < VersionMod /\ MaxHarm \in Nat
  BY ConstantFacts
<1>1. ASSUME NEW k \in Key \ {"own"}, file' = [file EXCEPT ![k] = Empty]
      PROVE  /\ file' \in [Key -> Nat \cup {None}] /\ file'["version"] < VersionMod
             /\ file'["own"] = file["own"]
  BY <1>a, <1>c, <1>1
<1>2. /\ Stop /\ UNCHANGED <<config, history, fresh>>
      /\ \/ UNCHANGED <<disk, harm>>
         \/ harm < MaxHarm /\ harm' = harm + 1
  BY DEF SetIdentityFails, Crash, MigrateFails, SetFails
<1>3. /\ harm' \in 0..MaxHarm
      /\ harm' = 0 => harm = 0 /\ UNCHANGED disk
  BY <1>b, <1>c, <1>2
<1>4. CASE \E e \in Entity : MigrateFails(e)
  <2>1. PICK e \in Entity : MigrateFails(e)
    BY <1>4
  <2>2. /\ pc = "migrate"
        /\ \/ UNCHANGED file
           \/ file["own"] # None /\ file' = [file EXCEPT !["keypair"] = Empty]
    BY <2>1, ConstantFacts DEF MigrateFails, disk, Entity
  <2>3. pairing' \in [Controller -> Permission \cup {"none", "torn"}]
    BY <1>b, <2>1 DEF MigrateFails, disk
  <2>4. QED
    BY <1>a, <1>1, <1>2, <1>3, <2>2, <2>3
<1>5. CASE SetIdentityFails \/ Crash
  <2>1. /\ UNCHANGED pairing
        /\ \/ UNCHANGED file
           \/ \E k \in Writes(pc) : file' = [file EXCEPT ![k] = Empty]
    BY <1>5 DEF SetIdentityFails, Crash, SetFails, disk
  <2>2. /\ file' \in [Key -> Nat \cup {None}] /\ file'["version"] < VersionMod
        /\ file'["own"] = file["own"]
    BY <1>a, <1>1, <2>1, WritesFacts
  <2>3. QED
    BY <1>b, <1>2, <1>3, <2>1, <2>2
<1>6. QED
  BY <1>4, <1>5

\* The next version is one of 16 bits.
LEMMA NextVersion ==
    ASSUME NEW v \in 0..(VersionMod - 1)
    PROVE  (v + 1) % VersionMod = Advanced(v, 1)
<1>1. VersionMod \in Nat /\ VersionMod > 2
  BY ConstantFacts
<1>2. CASE v + 1 < VersionMod
  BY <1>1, <1>2 DEF Advanced
<1>3. CASE v + 1 = VersionMod
  BY <1>1, <1>3 DEF Advanced
<1>4. QED
  BY <1>1, <1>2, <1>3


LEMMA TypeStep == TypeOK /\ Identity /\ [Next]_vars => TypeOK'
<1> SUFFICES ASSUME TypeOK, Identity, [Next]_vars PROVE TypeOK'
  OBVIOUS
<1> USE DEF TypeOK
<1>a. Entity' = Entity
  BY OwnKept
<1>b. file \in [Key -> Nat \cup {None}] /\ file["version"] < VersionMod
      /\ "own" \in Key /\ "uuid" \in Key /\ "version" \in Key
      /\ "configHash" \in Key /\ "schema" \in Key /\ "keypair" \in Key
  BY FileTypes
<1>c. fresh + 1 \in Nat /\ fresh # 0
  BY DEF Identity
<1>1. ASSUME NEW c \in Config, Start(c) PROVE TypeOK'
  <2>1. starts' \in 0..MaxStart /\ todo' \in SUBSET Entity
        /\ pc' \in {"migrate", "uuid"}
    BY <1>1, ConstantFacts DEF Start, Goto
  <2>2. QED
    BY <1>1, <1>a, <2>1 DEF Start, disk, running
<1>2. ASSUME NEW e \in Entity, MigrateEntity(e) PROVE TypeOK'
  <2>1. /\ file' \in [Key -> Nat \cup {None}] /\ file'["version"] < VersionMod
        /\ pairing' \in [Controller -> Permission \cup {"none", "torn"}]
    <3>1. CASE e \in Controller
      BY <1>2, <3>1 DEF MigrateEntity, Permission
    <3>2. CASE e \notin Controller
      <4>1. e = "own" /\ file[e] \in Nat \cup {None}
        BY <1>b, <3>2, ConstantFacts DEF Entity
      <4>2. QED
        BY <1>2, <1>b, <3>2, <4>1 DEF MigrateEntity
    <3>3. QED
      BY <3>1, <3>2
  <2>2. QED
    BY <1>2, <1>a, <2>1 DEF MigrateEntity, running, history
<1>3. CASE SetIdentityFails \/ Crash \/ \E e \in Entity : MigrateFails(e)
  <2>1. /\ UNCHANGED <<config, history, fresh>>
        /\ harm' \in 0..MaxHarm
        /\ file' \in [Key -> Nat \cup {None}] /\ file'["version"] < VersionMod
        /\ pairing' \in [Controller -> Permission \cup {"none", "torn"}]
        /\ pc' = "off" /\ ctx' = FALSE /\ dns' = "none" /\ closer' = "none"
        /\ todo' = {}
        /\ mem' \in [uuid : Nat \cup {None}, version : 0..(VersionMod - 1),
                     key : Nat \cup {None}]
    BY <1>3, HarmTypes, StopTypes
  <2>2. QED
    BY <2>1 DEF history
<1>4. CASE ListenFails \/ AwaitHttp
  <2>1. /\ UNCHANGED <<disk, config, history, fresh, harm>>
        /\ pc' = "off" /\ ctx' = FALSE /\ dns' = "none" /\ closer' = "none"
        /\ todo' = {}
        /\ mem' \in [uuid : Nat \cup {None}, version : 0..(VersionMod - 1),
                     key : Nat \cup {None}]
    BY <1>4, StopTypes DEF ListenFails, AwaitHttp
  <2>2. QED
    BY <2>1 DEF history, disk
<1>5. CASE Migrated
  BY <1>5, <1>a DEF Migrated, Goto, disk, running, history
<1>6. ASSUME NEW k \in Key, NEW v \in Nat, k = "version" => v < VersionMod,
             Set(k, v) \/ SetFails(k),
             UNCHANGED <<config, todo, running, history, fresh>>,
             mem' \in [uuid : Nat \cup {None}, version : 0..(VersionMod - 1),
                       key : Nat \cup {None}],
             pc' \in {"uuid", "version", "setHash", "key", "listen"}
      PROVE  TypeOK'
  <2>1. /\ file' \in [Key -> Nat \cup {None}] /\ file'["version"] < VersionMod
        /\ harm' \in 0..MaxHarm /\ UNCHANGED pairing
    BY <1>6, SetTypes
  <2>2. QED
    BY <1>6, <1>a, <2>1 DEF running, history
<1>7. CASE SetSchema
  BY <1>6, <1>7, <1>b DEF SetSchema, Goto
<1>8. CASE SetUuid
  <2>1. mem' \in [uuid : Nat \cup {None}, version : 0..(VersionMod - 1),
                  key : Nat \cup {None}]
    BY <1>8 DEF SetUuid
  <2>2. QED
    BY <1>6, <1>8, <1>b, <2>1 DEF SetUuid, Goto
<1>9. CASE SetVersion
  <2>1. mem.version \in Nat /\ mem.version < VersionMod
    <3>1. mem.version \in 0..(VersionMod - 1)
      OBVIOUS
    <3>2. QED
      BY <3>1, ConstantFacts
  <2>2. QED
    BY <1>6, <1>9, <1>b, <2>1 DEF SetVersion, Goto
<1>10. CASE SetHash
  <2>1. configHash(config) \in Nat
    BY ConstantFacts DEF configHash, Config
  <2>2. QED
    BY <1>6, <1>10, <1>b, <2>1 DEF SetHash, Goto
<1>11. CASE SaveKeyPair
  <2>1. mem' \in [uuid : Nat \cup {None}, version : 0..(VersionMod - 1),
                  key : Nat \cup {None}]
    BY <1>11 DEF SaveKeyPair
  <2>2. QED
    BY <1>6, <1>11, <1>b, <2>1 DEF SaveKeyPair, Goto
<1>12. ASSUME UNCHANGED <<disk, config, todo, running, history, harm>>,
              mem' \in [uuid : Nat \cup {None}, version : 0..(VersionMod - 1),
                        key : Nat \cup {None}],
              fresh' \in Nat,
              pc' \in {"setUuid", "version", "setVersion", "key", "setKey", "listen"}
       PROVE  TypeOK'
  BY <1>12, <1>a DEF disk, running, history
<1>13. CASE GetUuid
  <2>1. mem' \in [uuid : Nat \cup {None}, version : 0..(VersionMod - 1),
                  key : Nat \cup {None}]
    BY <1>13, <1>b DEF GetUuid
  <2>2. QED
    BY <1>12, <1>13, <1>c, <2>1 DEF GetUuid, Goto
<1>14. CASE GetVersion
  <2> DEFINE v == IF file["version"] = None THEN 1 ELSE file["version"]
  <2>1. v \in 0..(VersionMod - 1)
    BY <1>b, ConstantFacts
  <2>2. (v + 1) % VersionMod \in 0..(VersionMod - 1)
    BY <2>1, NextVersion, ConstantFacts DEF Advanced
  <2>3. \/ mem' = [mem EXCEPT !.version = v] /\ pc' = "key"
        \/ mem' = [mem EXCEPT !.version = (v + 1) % VersionMod] /\ pc' = "setVersion"
    BY <1>14 DEF GetVersion, Goto
  <2> HIDE DEF v
  <2>4. PICK next \in 0..(VersionMod - 1) : mem' = [mem EXCEPT !.version = next]
    BY <2>1, <2>2, <2>3
  <2>5. mem' \in [uuid : Nat \cup {None}, version : 0..(VersionMod - 1),
                  key : Nat \cup {None}]
    BY <2>4
  <2>6. QED
    BY <1>12, <1>14, <2>3, <2>5 DEF GetVersion
<1>15. CASE LoadKeyPair
  <2>1. mem' \in [uuid : Nat \cup {None}, version : 0..(VersionMod - 1),
                  key : Nat \cup {None}]
    BY <1>15, <1>b DEF LoadKeyPair
  <2>2. QED
    BY <1>12, <1>15, <1>c, <2>1 DEF LoadKeyPair, Goto
<1>16. CASE Listen
  <2> DEFINE new == [uuid |-> mem.uuid, key |-> mem.key,
                     version |-> mem.version, shape |-> config.shape]
  <2>1. mem.uuid \in Nat /\ mem.key \in Nat \ {0}
    <3>1. pc = "listen"
      BY <1>16 DEF Listen
    <3>2. mem.uuid # None /\ mem.key \notin {None, Empty}
      BY <3>1 DEF Identity
    <3>3. QED
      BY <3>2, ConstantFacts
  <2>2. mem.version \in Nat /\ config.shape \in Shape
    BY ConstantFacts DEF Config
  <2>3. new \in [uuid : Nat, key : Nat \ {0}, version : Nat, shape : Shape]
    BY <2>1, <2>2
  <2> HIDE DEF new
  <2>4. served' = Append(served, new)
    BY <1>16 DEF Listen, new
  <2>5. served' \in Seq([uuid : Nat, key : Nat \ {0}, version : Nat, shape : Shape])
    BY <2>3, <2>4, AppendProperties
  <2>6. QED
    BY <1>16, <1>a, <2>5 DEF Listen, Goto, disk
<1>17. CASE DnsStops \/ CloserCloses \/ ServeReturns \/ ServeFails \/ AwaitDns \/ Cancel
  BY <1>17, <1>a DEF DnsStops, CloserCloses, ServeReturns, ServeFails, AwaitDns, Cancel,
     Goto, disk, running, history
<1>18. ASSUME NEW c \in Controller,
              RemovePairing(c) \/ \E p \in Permission : AddPairing(c, p)
       PROVE  TypeOK'
  BY <1>18, <1>a DEF RemovePairing, AddPairing, Permission, running
<1>19. CASE UNCHANGED vars
  BY <1>19 DEF vars, Entity
<1>20. QED
  BY <1>1, <1>2, <1>3, <1>4, <1>5, <1>7, <1>8, <1>9, <1>10, <1>11, <1>13, <1>14, <1>15,
     <1>16, <1>17, <1>18, <1>19 DEF Next, NewServer, ListenAndServe, Goroutines


-----------------------------------------------------------------------------
(* The identity *)

\* Steps that leave the files, what was announced and the identifiers alone,
\* and go to a point that needs no more of memory.
LEMMA IdentityUnchanged ==
    ASSUME Identity, UNCHANGED <<file, served, fresh>>,
           pc' = "off" \/ pc' = "migrate" \/ UNCHANGED mem,
           pc' \in {"setUuid", "setKey"} => pc' = pc,
           pc' \in {"version", "setVersion", "setHash", "key", "setKey"}
              => pc \in {"version", "setVersion", "setHash", "key", "setKey"},
           pc' \in {"listen"} \cup Listening => pc \in {"listen"} \cup Listening,
           file["own"] # None /\ Done("own")' => Done("own")
    PROVE  Identity'
BY DEF Identity, Listening


\* No server has run while there is no uuid, or no key pair that is complete.
LEMMA NothingServed ==
    ASSUME TypeOK, Identity,
           \/ file["uuid"] = None
           \/ pc = "setKey"
    PROVE  /\ \A i \in DOMAIN served : FALSE
           /\ pc = "setKey" => file["own"] = None
<1> DEFINE T == [uuid : Nat, key : Nat \ {0}, version : Nat, shape : Shape]
<1>a. /\ \A i \in DOMAIN served : served[i].uuid # None /\ served[i].key \notin {None, Empty}
      /\ OwnLegacyKey \notin {None, Empty}
  <2>1. \A i \in DOMAIN served : served[i].uuid \in Nat /\ served[i].key \in Nat \ {0}
    <3>1. served \in Seq(T)
      BY DEF TypeOK
    <3>2. ASSUME NEW i \in DOMAIN served PROVE served[i] \in T
      <4> HIDE DEF T
      <4>1. QED
        BY <3>1
    <3>3. QED
      BY <3>2
  <2>2. QED
    BY <2>1, ConstantFacts
<1>1. pc = "setKey" => file["keypair"] \in {None, Empty} /\ file["own"] = None
  BY <1>a DEF Identity, Done, NoMigration
<1>2. QED
  BY <1>a, <1>1 DEF Identity

LEMMA IdentityStep == IInv /\ TypeOK' /\ [Next]_vars => Identity'
<1> SUFFICES ASSUME IInv, TypeOK', [Next]_vars PROVE Identity'
  OBVIOUS
<1>a. TypeOK /\ Identity
  BY DEF IInv
<1>b. file \in [Key -> Nat \cup {None}]
      /\ "own" \in Key /\ "uuid" \in Key /\ "version" \in Key
      /\ "configHash" \in Key /\ "schema" \in Key /\ "keypair" \in Key
  BY <1>a, FileTypes
<1>c. fresh \in Nat /\ fresh >= 1
  BY <1>a DEF TypeOK, Identity
<1>d. None \notin Nat /\ Empty = 0 /\ "own" \notin Controller
  BY ConstantFacts
<1>1. ASSUME NEW c \in Config, Start(c) PROVE Identity'
  <2>1. file["own"] # None => "own" \in Entity
    BY DEF Entity
  <2>2. /\ UNCHANGED <<file, served, fresh, mem>>
        /\ pc = "off" /\ pc' \in {"migrate", "uuid"}
        /\ file["own"] # None /\ Done("own")' => Done("own")
    BY <1>1, <2>1 DEF Start, Goto, Off, disk, Done, NoMigration
  <2>3. QED
    BY <1>a, <2>2, IdentityUnchanged DEF Listening
<1>2. ASSUME NEW e \in Entity, MigrateEntity(e) PROVE Identity'
  <2>1. UNCHANGED <<served, fresh, mem>> /\ pc = "migrate" /\ pc' = "migrate"
    BY <1>2 DEF MigrateEntity, history
  <2>2. CASE e \in Controller
    <3>1. UNCHANGED file /\ todo' = todo \ {e} /\ e # "own"
      BY <1>2, <1>d, <2>2 DEF MigrateEntity
    <3>2. Done("own")' => Done("own")
      BY <2>1, <3>1 DEF Done, NoMigration
    <3>3. QED
      BY <1>a, <2>1, <3>1, <3>2, IdentityUnchanged DEF Listening
  <2>3. CASE e \notin Controller
    <3>1. e = "own" /\ file["own"] # None
      BY <2>3, ConstantFacts DEF Entity
    <3>2. file' = [file EXCEPT !["keypair"] = file["own"]]
      BY <1>2, <2>3, <3>1 DEF MigrateEntity
    <3>3. file'["own"] = file["own"] /\ file'["keypair"] = file["own"]
          /\ file'["uuid"] = file["uuid"]
      BY <1>b, <3>2
    <3>4. QED
      BY <1>a, <2>1, <3>1, <3>3 DEF Identity, Listening
  <2>4. QED
    BY <2>2, <2>3
<1>3. CASE SetIdentityFails \/ Crash \/ \E e \in Entity : MigrateFails(e)
  <2>1. /\ UNCHANGED <<served, fresh>> /\ pc' = "off"
        /\ file'["own"] = file["own"]
        /\ \/ UNCHANGED file
           \/ \E k \in Writes(pc) : file' = [file EXCEPT ![k] = Empty]
           \/ /\ pc = "migrate" /\ file["own"] # None
              /\ file' = [file EXCEPT !["keypair"] = Empty]
    BY <1>3, <1>a, HarmTypes, StopTypes DEF history
  <2>2. CASE UNCHANGED file
    <3>1. Done("own")' => Done("own")
      BY <2>1, <2>2 DEF Done, NoMigration
    <3>2. QED
      BY <1>a, <2>1, <2>2, <3>1, IdentityUnchanged DEF Listening
  <2>3. ASSUME NEW k \in Writes(pc), file' = [file EXCEPT ![k] = Empty]
        PROVE  Identity'
    <3>1. \/ pc = "setSchema" /\ k = "schema"
          \/ pc = "setUuid" /\ k = "uuid"
          \/ pc = "setVersion" /\ k = "version"
          \/ pc = "setHash" /\ k = "configHash"
          \/ pc = "setKey" /\ k = "keypair"
      BY WritesFacts
    <3>2. NoMigration
      BY <3>1 DEF NoMigration
    <3>3. k \in {"uuid", "keypair"} => (\A i \in DOMAIN served : FALSE)
      BY <1>a, <3>1, NothingServed DEF Identity
    <3>4. k = "keypair" => file["own"] = None
      BY <1>a, <3>1, NothingServed
    <3>5. file["own"] # None => file["keypair"] = file["own"]
      BY <1>a, <3>2 DEF Identity, Done
    <3>6. \A j \in Key : j # k => file'[j] = file[j]
      BY <1>b, <2>3
    <3>7. file["own"] # None => file'["keypair"] = file'["own"]
      BY <1>b, <2>1, <3>4, <3>5, <3>6
    <3>8. \A i \in DOMAIN served' :
             /\ served'[i].uuid = file'["uuid"]
             /\ served'[i].key = IF file'["own"] = None THEN file'["keypair"] ELSE file'["own"]
      BY <1>a, <1>b, <2>1, <3>3, <3>6 DEF Identity
    <3>9. QED
      BY <1>a, <2>1, <3>7, <3>8 DEF Identity, Listening
  <2>4. CASE /\ pc = "migrate" /\ file["own"] # None
             /\ file' = [file EXCEPT !["keypair"] = Empty]
    <3>1. file["schema"] \in {None, Empty}
      BY <2>4 DEF IInv, Migration
    <3>2. file'["uuid"] = file["uuid"] /\ file'["schema"] = file["schema"]
      BY <1>b, <2>4
    <3>3. ~Done("own")'
      BY <2>1, <3>1, <3>2 DEF Done, NoMigration
    <3>4. QED
      BY <1>a, <2>1, <2>4, <3>2, <3>3 DEF Identity, Listening
  <2>5. QED
    BY <2>1, <2>2, <2>3, <2>4
<1>4. CASE ListenFails \/ AwaitHttp
  <2>1. /\ UNCHANGED <<file, served, fresh>> /\ pc' = "off"
    BY <1>4, StopTypes DEF ListenFails, AwaitHttp, disk, history
  <2>2. Done("own")' => Done("own")
    BY <2>1 DEF Done, NoMigration
  <2>3. QED
    BY <1>a, <2>1, <2>2, IdentityUnchanged DEF Listening
<1>5. CASE Migrated
  <2>1. UNCHANGED <<file, served, fresh, mem>> /\ pc' = "setSchema" /\ Done("own")
    BY <1>5 DEF Migrated, Goto, disk, history, Done
  <2>2. QED
    BY <1>a, <2>1, IdentityUnchanged DEF Listening
\* A file that is not part of the identity.
<1>6. ASSUME NEW k \in {"schema", "version", "configHash"}, NEW v,
             UNCHANGED file \/ file' = [file EXCEPT ![k] = v],
             UNCHANGED <<served, fresh, mem>>, NoMigration,
             \/ pc = "setSchema" /\ pc' = "uuid"
             \/ pc = "setVersion" /\ pc' = "setHash"
             \/ pc = "setHash" /\ pc' = "key"
      PROVE  Identity'
  <2>1. /\ file'["own"] = file["own"] /\ file'["uuid"] = file["uuid"]
        /\ file'["keypair"] = file["keypair"]
    BY <1>b, <1>6
  <2>2. file["own"] # None => file["keypair"] = file["own"]
    BY <1>a, <1>6 DEF Identity, Done
  <2>3. QED
    BY <1>a, <1>6, <2>1, <2>2 DEF Identity, Listening
<1>7. CASE SetSchema
  BY <1>6, <1>7 DEF SetSchema, Set, SetFails, Goto, NoMigration, history
<1>8. CASE SetVersion
  BY <1>6, <1>8 DEF SetVersion, Set, SetFails, Goto, NoMigration, history
<1>9. CASE SetHash
  BY <1>6, <1>9 DEF SetHash, Set, SetFails, Goto, NoMigration, history
<1>10. CASE GetUuid
  <2>1. /\ UNCHANGED <<file, served>> /\ pc = "uuid"
        /\ fresh' >= 1
        /\ \/ file["uuid"] = None /\ pc' = "setUuid"
           \/ mem'.uuid = file["uuid"] /\ file["uuid"] # None /\ pc' = "version"
    BY <1>10, <1>a, <1>c DEF GetUuid, Goto, disk, history, TypeOK
  <2>2. Done("own")
    BY <2>1 DEF Done, NoMigration
  <2>3. QED
    BY <1>a, <2>1, <2>2 DEF Identity, Listening
<1>11. CASE SetUuid
  <2>1. /\ pc = "setUuid" /\ pc' = "version" /\ UNCHANGED <<served, fresh>>
        /\ file' = [file EXCEPT !["uuid"] = fresh] /\ mem'.uuid = fresh
    BY <1>11, <1>a DEF SetUuid, Set, Goto, history, TypeOK
  <2>2. /\ file'["own"] = file["own"] /\ file'["uuid"] = fresh
        /\ file'["keypair"] = file["keypair"] /\ fresh # None
    BY <1>b, <1>c, <1>d, <2>1
  <2>3. \A i \in DOMAIN served : FALSE
    BY <1>a, <2>1, NothingServed DEF Identity
  <2>4. Done("own")
    BY <2>1 DEF Done, NoMigration
  <2>5. QED
    BY <1>a, <2>1, <2>2, <2>3, <2>4 DEF Identity, Listening
<1>12. CASE GetVersion
  <2>1. /\ UNCHANGED <<file, served, fresh>> /\ mem'.uuid = mem.uuid
        /\ pc = "version" /\ pc' \in {"setVersion", "key"}
    BY <1>12, <1>a DEF GetVersion, Goto, disk, history, TypeOK
  <2>2. Done("own")
    BY <2>1 DEF Done, NoMigration
  <2>3. QED
    BY <1>a, <2>1, <2>2 DEF Identity, Listening
<1>13. CASE LoadKeyPair
  <2>1. /\ UNCHANGED <<file, served>> /\ mem'.uuid = mem.uuid
        /\ pc = "key" /\ fresh' >= 1
        /\ \/ file["keypair"] \in {None, Empty} /\ pc' = "setKey"
           \/ /\ file["keypair"] \notin {None, Empty} /\ pc' = "listen"
              /\ mem'.key = file["keypair"]
    BY <1>13, <1>a, <1>c DEF LoadKeyPair, Goto, disk, history, TypeOK
  <2>2. Done("own")
    BY <2>1 DEF Done, NoMigration
  <2>3. QED
    BY <1>a, <2>1, <2>2 DEF Identity, Listening
<1>14. CASE SaveKeyPair
  <2>1. /\ pc = "setKey" /\ pc' = "listen" /\ UNCHANGED <<served, fresh>>
        /\ file' = [file EXCEPT !["keypair"] = fresh]
        /\ mem'.uuid = mem.uuid /\ mem'.key = fresh
    BY <1>14, <1>a DEF SaveKeyPair, Set, Goto, history, TypeOK
  <2>2. /\ file'["own"] = file["own"] /\ file'["uuid"] = file["uuid"]
        /\ file'["keypair"] = fresh /\ fresh # None /\ fresh # Empty
    BY <1>b, <1>c, <1>d, <2>1
  <2>3. file["own"] = None /\ \A i \in DOMAIN served : FALSE
    BY <1>a, <2>1, NothingServed
  <2>4. QED
    BY <1>a, <2>1, <2>2, <2>3 DEF Identity, Listening
<1>15. CASE Listen
  <2> DEFINE new == [uuid |-> mem.uuid, key |-> mem.key,
                     version |-> mem.version, shape |-> config.shape]
             T == [uuid : Nat, key : Nat \ {0}, version : Nat, shape : Shape]
  <2>1. /\ pc = "listen" /\ pc' = "serve" /\ UNCHANGED <<file, fresh, mem>>
        /\ served' = Append(served, new)
    BY <1>15 DEF Listen, Goto, disk
  <2>2. new.uuid = file["uuid"] /\ new.key = file["keypair"]
    BY <1>a, <2>1 DEF Identity
  <2>3. file["own"] # None => file["keypair"] = file["own"]
    BY <1>a, <2>1 DEF Identity, Done, NoMigration
  <2> HIDE DEF new
  <2>4. ASSUME NEW i \in DOMAIN served' PROVE served'[i] = new \/
                                             (i \in DOMAIN served /\ served'[i] = served[i])
    <3>1. served \in Seq(T) /\ served' \in Seq(T)
      BY <1>a DEF TypeOK
    <3>2. QED
      BY <2>1, <2>4, <3>1
  <2>5. QED
    BY <1>a, <2>1, <2>2, <2>3, <2>4 DEF Identity, Listening
<1>16. CASE \/ DnsStops \/ CloserCloses \/ ServeReturns \/ ServeFails \/ AwaitDns \/ Cancel
            \/ \E c \in Controller : RemovePairing(c) \/ \E p \in Permission : AddPairing(c, p)
  <2>1. /\ UNCHANGED <<file, served, fresh, mem, todo>>
        /\ \/ pc' = pc
           \/ pc \in Listening /\ pc' \in Listening
    BY <1>16 DEF DnsStops, CloserCloses, ServeReturns, ServeFails, AwaitDns, Cancel,
       RemovePairing, AddPairing, Goto, disk, history, Listening
  <2>2. Done("own")' => Done("own")
    BY <2>1 DEF Done, NoMigration, Listening
  <2>3. QED
    BY <1>a, <2>1, <2>2, IdentityUnchanged DEF Listening
<1>17. CASE UNCHANGED vars
  BY <1>a, <1>17 DEF vars, Identity, Done, NoMigration
<1>18. QED
  BY <1>1, <1>2, <1>3, <1>4, <1>5, <1>7, <1>8, <1>9, <1>10, <1>11, <1>12, <1>13, <1>14,
     <1>15, <1>16, <1>17 DEF Next, NewServer, ListenAndServe, Goroutines


-----------------------------------------------------------------------------
(* The migration *)

\* Steps that leave the pairings alone and do not end a migration.
LEMMA MigrationUnchanged ==
    ASSUME Migration, UNCHANGED <<pairing, removed>>,
           harm' = 0 => harm = 0,
           pc' \in {"migrate", "setSchema"} \/ file["schema"] \notin {None, Empty}
              => file'["schema"] = file["schema"],
           pc' \in {"migrate", "setSchema"} => file["schema"] \in {None, Empty},
           harm' = 0 /\ pc' \notin {"off", "migrate", "setSchema"} =>
              file'["schema"] \notin {None, Empty},
           \A c \in Legacy : Done(c)' => Done(c)
    PROVE  Migration'
<1>1. harm' = 0 /\ removed' # {} => file'["schema"] \notin {None, Empty}
  BY DEF Migration
<1>2. RemovedStaysRemoved'
  BY DEF Migration, RemovedStaysRemoved
<1>3. QED
  BY <1>1, <1>2 DEF Migration, AfterSchema, Listening

LEMMA MigrationStep == IInv /\ TypeOK' /\ [Next]_vars => Migration'
<1> SUFFICES ASSUME IInv, TypeOK', [Next]_vars PROVE Migration'
  OBVIOUS
<1>a. TypeOK /\ Identity /\ Migration
  BY DEF IInv
<1>b. /\ file \in [Key -> Nat \cup {None}]
      /\ "own" \in Key /\ "uuid" \in Key /\ "version" \in Key
      /\ "configHash" \in Key /\ "schema" \in Key /\ "keypair" \in Key
      /\ pairing \in [Controller -> Permission \cup {"none", "torn"}]
      /\ harm \in Nat
  BY <1>a, FileTypes DEF TypeOK
<1>d. None \notin Nat /\ Empty = 0 /\ "own" \notin Controller /\ Legacy \subseteq Controller
  BY ConstantFacts
<1>1. ASSUME NEW c \in Config, Start(c) PROVE Migration'
  <2>1. /\ UNCHANGED <<file, pairing, removed, harm>>
        /\ pc = "off" /\ pc' \in {"migrate", "uuid"}
        /\ pc' = "migrate" <=> file["schema"] \in {None, Empty}
        /\ pc' = "migrate" => todo' = Entity
    BY <1>1 DEF Start, Goto, Off, disk
  <2>2. \A l \in Legacy : Done(l)' => Done(l)
    BY <2>1 DEF Done, NoMigration, Entity
  <2>3. QED
    BY <1>a, <2>1, <2>2, MigrationUnchanged
<1>2. ASSUME NEW e \in Entity, MigrateEntity(e) PROVE Migration'
  <2>1. /\ UNCHANGED <<removed, harm>> /\ pc = "migrate" /\ pc' = "migrate"
        /\ todo' = todo \ {e}
    BY <1>2 DEF MigrateEntity, history
  <2>2. file["schema"] \in {None, Empty} /\ file'["schema"] = file["schema"]
    BY <1>2, <1>a, <1>b, <2>1 DEF MigrateEntity, Migration
  <2>3. harm # 0 \/ removed = {}
    BY <1>a, <2>1, <2>2 DEF Migration
  <2>4. \A l \in Legacy : /\ pairing'[l] = pairing[l] \/ pairing'[l] = "admin"
                          /\ l = e => pairing'[l] = "admin"
    BY <1>2, <1>b, <1>d DEF MigrateEntity
  <2>5. \A l \in Legacy : l # e /\ Done(l)' => Done(l)
    BY <2>1, <2>2 DEF Done, NoMigration
  <2>6. \A l \in Legacy : Done(l)' => pairing'[l] \in Permission \/ l \in removed
    BY <1>a, <2>4, <2>5 DEF Migration, Permission
  <2>7. QED
    BY <1>a, <2>1, <2>2, <2>3, <2>6 DEF Migration, RemovedStaysRemoved, AfterSchema, Listening
<1>3. CASE SetIdentityFails \/ Crash \/ \E e \in Entity : MigrateFails(e)
  <2>1. /\ UNCHANGED <<removed>> /\ pc' = "off"
        /\ harm' = 0 => harm = 0 /\ UNCHANGED disk
        /\ \/ UNCHANGED file
           \/ \E k \in Writes(pc) : file' = [file EXCEPT ![k] = Empty]
           \/ /\ pc = "migrate" /\ file["own"] # None
              /\ file' = [file EXCEPT !["keypair"] = Empty]
        /\ \A c \in Controller : pairing'[c] = pairing[c] \/ pc = "migrate"
    BY <1>3, <1>a, HarmTypes, StopTypes DEF history
  <2>2. \/ file'["schema"] = file["schema"]
        \/ pc = "setSchema" /\ file'["schema"] = Empty
    BY <1>b, <2>1, WritesFacts
  <2>3. file'["schema"] \notin {None, Empty}
           => file["schema"] \notin {None, Empty} /\ pc # "migrate"
    BY <1>a, <2>2 DEF Migration
  <2>4. \A l \in Legacy : Done(l)' => pairing'[l] \in Permission \/ l \in removed
    BY <1>a, <1>d, <2>1, <2>3 DEF Migration, Done, NoMigration
  <2>5. RemovedStaysRemoved'
    BY <1>a, <2>1 DEF Migration, RemovedStaysRemoved, disk
  <2>6. QED
    BY <1>a, <2>1, <2>4, <2>5 DEF Migration, AfterSchema, Listening, disk
<1>4. CASE ListenFails \/ AwaitHttp
  <2>1. /\ UNCHANGED <<file, pairing, removed, harm>> /\ pc' = "off"
    BY <1>4, StopTypes DEF ListenFails, AwaitHttp, disk, history
  <2>2. \A l \in Legacy : Done(l)' => Done(l)
    BY <2>1 DEF Done, NoMigration
  <2>3. QED
    BY <1>a, <2>1, <2>2, MigrationUnchanged
<1>5. CASE Migrated
  <2>1. /\ UNCHANGED <<file, pairing, removed, harm>>
        /\ pc = "migrate" /\ pc' = "setSchema" /\ todo = {}
    BY <1>5 DEF Migrated, Goto, disk, history
  <2>2. file["schema"] \in {None, Empty} /\ \A l \in Legacy : Done(l)
    BY <1>a, <2>1 DEF Migration, Done
  <2>3. QED
    BY <1>a, <2>1, <2>2, MigrationUnchanged
<1>6. CASE SetSchema
  <2>1. /\ UNCHANGED <<pairing, removed>> /\ pc = "setSchema" /\ pc' = "uuid"
        /\ file'["schema"] = 1 \/ harm' = harm + 1
    BY <1>6, <1>b DEF SetSchema, Set, SetFails, Goto, history
  <2>2. harm' = 0 => file'["schema"] \notin {None, Empty} /\ harm = 0
    BY <1>6, <1>b, <1>d, <2>1 DEF SetSchema, Set, SetFails
  <2>3. file["schema"] \in {None, Empty} /\ \A l \in Legacy : Done(l)
    BY <1>a, <2>1 DEF Migration, Done, NoMigration
  <2>4. QED
    BY <1>a, <2>1, <2>2, <2>3, MigrationUnchanged
\* Steps that write another file, or none, after the migration.
<1>7. ASSUME UNCHANGED <<pairing, removed>>, harm' = 0 => harm = 0,
             file'["schema"] = file["schema"],
             pc \notin {"off", "migrate", "setSchema"},
             pc' \notin {"off", "migrate", "setSchema"}
      PROVE  Migration'
  <2>1. harm = 0 => file["schema"] \notin {None, Empty}
    <3>1. pc \in AfterSchema
      BY <1>a, <1>7 DEF TypeOK, AfterSchema, Listening
    <3>2. QED
      BY <1>a, <3>1 DEF Migration
  <2>2. \A l \in Legacy : Done(l)
    BY <1>7 DEF Done, NoMigration
  <2>3. QED
    BY <1>a, <1>7, <2>1, <2>2, MigrationUnchanged
<1>8. CASE GetUuid \/ GetVersion \/ LoadKeyPair \/ Listen
  BY <1>7, <1>8 DEF GetUuid, GetVersion, LoadKeyPair, Listen, Goto, disk, history
<1>9. CASE SetUuid \/ SetVersion \/ SetHash \/ SaveKeyPair
  <2>1. /\ UNCHANGED <<pairing, removed>> /\ harm' \in {harm, harm + 1}
        /\ pc \in {"setUuid", "setVersion", "setHash", "setKey"}
        /\ pc' \in {"version", "setHash", "key", "listen"}
    BY <1>9 DEF SetUuid, SetVersion, SetHash, SaveKeyPair, Set, SetFails, Goto, history
  <2>2. file'["schema"] = file["schema"]
    BY <1>9, <1>b DEF SetUuid, SetVersion, SetHash, SaveKeyPair, Set, SetFails
  <2>3. harm' = 0 => harm = 0
    BY <1>b, <2>1
  <2>4. QED
    BY <1>7, <2>1, <2>2, <2>3
<1>10. CASE DnsStops \/ CloserCloses \/ ServeReturns \/ ServeFails \/ AwaitDns \/ Cancel
  <2>1. /\ UNCHANGED <<file, pairing, removed, harm, todo>>
        /\ \/ pc' = pc
           \/ pc \in Listening /\ pc' \in Listening
    BY <1>10 DEF DnsStops, CloserCloses, ServeReturns, ServeFails, AwaitDns, Cancel,
       Goto, disk, history, Listening
  <2>2. CASE pc' = pc
    <3>1. UNCHANGED pc
      BY <2>2
    <3>2. QED
      BY <1>a, <2>1, <3>1
         DEF Migration, Done, NoMigration, RemovedStaysRemoved, AfterSchema, Listening
  <2>3. CASE pc \in Listening /\ pc' \in Listening
    BY <1>7, <2>1, <2>3 DEF Listening
  <2>4. QED
    BY <2>1, <2>2, <2>3
<1>11. ASSUME NEW c \in Controller,
              RemovePairing(c) \/ \E p \in Permission : AddPairing(c, p)
       PROVE  Migration'
  <2>1. /\ UNCHANGED <<file, pc, todo, harm>> /\ pc = "serve"
        /\ \A d \in Controller : d # c => pairing'[d] = pairing[d]
                                          /\ (d \in removed' <=> d \in removed)
        /\ \/ pairing'[c] \in Permission /\ c \notin removed'
           \/ pairing'[c] = "none" /\ c \in removed'
    BY <1>11, <1>b DEF RemovePairing, AddPairing
  <2>2. /\ \A l \in Legacy : Done(l)
        /\ harm = 0 => file["schema"] \notin {None, Empty}
    BY <1>a, <2>1 DEF Migration, Done, NoMigration, AfterSchema, Listening
  <2>3. \A l \in Legacy : pairing'[l] \in Permission \/ l \in removed'
    BY <1>a, <1>d, <2>1, <2>2 DEF Migration
  <2>4. RemovedStaysRemoved'
    <3>1. removed' \in SUBSET Controller
      BY DEF TypeOK
    <3>2. QED
      BY <1>a, <2>1, <3>1 DEF Migration, RemovedStaysRemoved
  <2>5. QED
    BY <1>a, <2>1, <2>2, <2>3, <2>4 DEF Migration
<1>12. CASE UNCHANGED vars
  BY <1>a, <1>12 DEF vars, Migration, Done, NoMigration, RemovedStaysRemoved
<1>13. QED
  BY <1>1, <1>2, <1>3, <1>4, <1>5, <1>6, <1>8, <1>9, <1>10, <1>11, <1>12
     DEF Next, NewServer, ListenAndServe, Goroutines


-----------------------------------------------------------------------------
(* The version *)

\* The types that the rest uses.
LEMMA VersionTypes ==
    ASSUME TypeOK
    PROVE  /\ Len(served) \in Nat /\ DOMAIN served = 1..Len(served)
           /\ \A i \in 1..Len(served) :
                 served[i].version \in Nat /\ served[i].shape \in Nat \ {0}
           /\ starts \in Nat /\ harm \in Nat
           /\ file["version"] \in Nat \cup {None} /\ file["version"] < VersionMod
           /\ config.shape \in Shape /\ config.shape \in Nat \ {0}
           /\ mem.version \in Nat /\ mem.version < VersionMod
           /\ StoredVersion \in 0..(VersionMod - 1)
<1> DEFINE T == [uuid : Nat, key : Nat \ {0}, version : Nat, shape : Shape]
<1>1. served \in Seq(T)
  BY DEF TypeOK
<1>2. /\ Len(served) \in Nat /\ DOMAIN served = 1..Len(served)
      /\ \A i \in 1..Len(served) : served[i] \in T
  <2> HIDE DEF T
  <2>1. QED
    BY <1>1
<1>3. \A i \in 1..Len(served) :
         served[i].version \in Nat /\ served[i].shape \in Nat \ {0}
  BY <1>2, ConstantFacts
<1>4. starts \in Nat /\ harm \in Nat
  BY ConstantFacts DEF TypeOK
<1>5. /\ file["version"] \in Nat \cup {None} /\ file["version"] < VersionMod
      /\ StoredVersion \in 0..(VersionMod - 1)
  BY FileTypes, ConstantFacts DEF StoredVersion
<1>6. config.shape \in Shape /\ config.shape \in Nat \ {0}
  BY ConstantFacts DEF TypeOK, Config
<1>7. mem.version \in Nat /\ mem.version < VersionMod
  <2>1. mem.version \in 0..(VersionMod - 1)
    BY DEF TypeOK
  <2>2. QED
    BY <2>1, ConstantFacts
<1>8. QED
  BY <1>2, <1>3, <1>4, <1>5, <1>6, <1>7

\* The version before it comes all the way around.
LEMMA AdvancedFacts ==
    ASSUME NEW v \in Nat, v < VersionMod, NEW n \in Nat, n + 1 < VersionMod
    PROVE  /\ Advanced(v, n) \in Nat
           /\ Advanced(Advanced(v, n), 1) = Advanced(v, n + 1)
           /\ Advanced(v, 0) = v
           /\ n # 0 => Advanced(v, n) # v
BY ConstantFacts DEF Advanced

\* Steps that announce nothing and leave the version and the hash.
LEMMA VersionsUnchanged ==
    ASSUME TypeOK, Versions, UNCHANGED <<served, starts>>,
           harm' = 0 => /\ harm = 0 /\ file'["version"] = file["version"]
                        /\ file'["configHash"] = file["configHash"],
           pc' \in BeforeListen =>
              /\ pc \in BeforeListen /\ UNCHANGED config /\ mem'.version = mem.version
              /\ pc' \in BeforeVersion <=> pc \in BeforeVersion
              /\ pc' \in {"setVersion", "setHash"} => pc' = pc
              /\ pc' \in {"key", "setKey", "listen"} => pc \in {"key", "setKey", "listen"}
    PROVE  Versions'
<1>1. Announcements'
  BY DEF Versions, Announcements
<1>2. harm' = 0 => Stored'
  BY DEF Versions, Stored, StoredVersion, BeforeListen, BeforeVersion
<1>3. ASSUME harm' = 0, starts' <= VersionMod
      PROVE  Told' /\ (Len(served') # 0 => \E n \in 0..starts' : Behind(n)')
  <2>1. Told'
    BY <1>3 DEF Versions, Told
  <2>2. ASSUME NEW n \in 0..starts, Behind(n) PROVE Behind(n)'
    BY <1>3, <2>2 DEF Behind, BeforeListen, BeforeVersion
  <2>3. QED
    BY <1>3, <2>1, <2>2 DEF Versions
<1>4. QED
  BY <1>1, <1>2, <1>3 DEF Versions

LEMMA StartVersions ==
    ASSUME TypeOK, Versions, NEW c \in Config, Start(c)
    PROVE  Versions'
<1>1. /\ pc = "off" /\ pc' \in {"migrate", "uuid"} /\ starts' = starts + 1
      /\ UNCHANGED <<file, served, harm>>
  BY DEF Start, Off, Goto, disk
<1>2. Len(served) \in Nat /\ starts \in Nat /\ VersionMod \in Nat
  BY VersionTypes, ConstantFacts
<1>3. Announcements'
  BY <1>1, <1>2 DEF Versions, Announcements
<1>4. harm' = 0 => Stored'
  BY <1>1 DEF Versions, Stored
<1>5. ASSUME harm' = 0, starts' <= VersionMod
      PROVE  Told' /\ (Len(served') # 0 => \E n \in 0..starts' : Behind(n)')
  <2>1. starts <= VersionMod /\ harm = 0
    BY <1>1, <1>2, <1>5
  <2>2. Told'
    BY <1>1, <1>2, <2>1 DEF Versions, Announcements, Told
  <2>3. ASSUME NEW n \in 0..starts, Behind(n) PROVE n \in 0..starts' /\ Behind(n)'
    BY <1>1, <1>2, <2>3 DEF Behind, BeforeListen, BeforeVersion
  <2>4. QED
    BY <1>1, <2>1, <2>2, <2>3 DEF Versions
<1>6. QED
  BY <1>3, <1>4, <1>5 DEF Versions

LEMMA GetVersionVersions ==
    ASSUME TypeOK, Versions, GetVersion
    PROVE  Versions'
<1>1. /\ pc = "version" /\ UNCHANGED <<file, config, served, starts, harm>>
      /\ IF StoredHash # config.shape
         THEN mem'.version = (StoredVersion + 1) % VersionMod /\ pc' = "setVersion"
         ELSE mem'.version = StoredVersion /\ pc' = "key"
  BY DEF GetVersion, Goto, disk, history, StoredVersion, configHash, TypeOK
<1>2. /\ Len(served) \in Nat /\ starts \in Nat /\ config.shape \in Nat \ {0}
      /\ config.shape # Empty /\ config.shape # None
  BY VersionTypes, ConstantFacts
<1>3. (StoredVersion + 1) % VersionMod = Advanced(StoredVersion, 1)
  BY VersionTypes, NextVersion
<1>4. StoredHash = config.shape <=> file["configHash"] = config.shape
  BY <1>2 DEF StoredHash
<1>5. Announcements'
  BY <1>1 DEF Versions, Announcements, BeforeListen
<1>6. harm' = 0 => Stored'
  BY <1>1, <1>2, <1>3, <1>4 DEF Versions, Stored, StoredVersion
<1>7. ASSUME harm' = 0, starts' <= VersionMod
      PROVE  Told' /\ (Len(served') # 0 => \E n \in 0..starts' : Behind(n)')
  <2>1. Told'
    BY <1>1, <1>7 DEF Versions, Told, BeforeListen
  <2>2. ASSUME NEW n \in 0..starts, Behind(n) PROVE Behind(n)'
    <3>1. n + Len(served) < starts
      BY <1>1, <2>2 DEF Behind, BeforeVersion
    <3>2. starts = Len(served) + 1 => n = 0
      BY <1>2, <3>1
    <3>3. n = 0 => file["configHash"] = served[Len(served)].shape
      BY <2>2 DEF Behind
    <3>4. (starts = Len(served) + 1 /\ config.shape = served[Len(served)].shape)
             => pc' = "key"
      BY <1>1, <1>4, <3>2, <3>3
    <3>5. pc' \in {"setVersion", "key"}
      BY <1>1
    <3>6. QED
      BY <1>1, <2>2, <3>1, <3>2, <3>4, <3>5 DEF Behind
  <2>3. QED
    BY <1>1, <1>7, <2>1, <2>2 DEF Versions
<1>8. QED
  BY <1>5, <1>6, <1>7 DEF Versions

LEMMA SetVersionVersions ==
    ASSUME TypeOK, Versions, SetVersion
    PROVE  Versions'
<1>1. /\ pc = "setVersion" /\ pc' = "setHash" /\ UNCHANGED <<config, mem, served, starts>>
      /\ Set("version", mem.version) \/ SetFails("version")
  BY DEF SetVersion, Goto, history
<1>2. /\ Len(served) \in Nat /\ starts \in Nat /\ harm \in Nat
      /\ mem.version \in Nat /\ mem.version # None
  BY VersionTypes, ConstantFacts
<1>3. harm' = 0 => /\ harm = 0 /\ file'["version"] = mem.version
                   /\ file'["configHash"] = file["configHash"]
  BY <1>1, <1>2, FileTypes DEF Set, SetFails
<1>4. Announcements'
  BY <1>1 DEF Versions, Announcements, BeforeListen
<1>5. harm' = 0 => Stored'
  BY <1>1, <1>2, <1>3 DEF Versions, Stored
<1>6. ASSUME harm' = 0, starts' <= VersionMod
      PROVE  Told' /\ (Len(served') # 0 => \E n \in 0..starts' : Behind(n)')
  <2>1. Told'
    BY <1>1, <1>3, <1>6 DEF Versions, Told, BeforeListen
  <2>2. ASSUME NEW n \in 0..starts, Behind(n), Len(served) # 0
        PROVE  n + 1 \in 0..starts /\ Behind(n + 1)'
    <3> DEFINE last == served[Len(served)]
    <3>1. n + Len(served) < starts
      BY <1>1, <2>2 DEF Behind
    <3>2. n \in Nat /\ n + 1 < VersionMod /\ n + 1 + Len(served) <= starts
      BY <1>1, <1>2, <1>6, <2>2, <3>1, ConstantFacts
    <3>3. last.version \in Nat /\ last.version < VersionMod
      BY <1>2, <2>2, VersionTypes DEF Versions, Announcements
    <3>4. file["version"] = Advanced(last.version, n)
      BY <2>2 DEF Behind
    <3>5. file["version"] # None
      <4>1. Advanced(last.version, n) \in Nat
        BY <3>2, <3>3, ConstantFacts, SMTT(30) DEF Advanced
      <4>2. QED
        BY <3>4, <4>1, ConstantFacts
    <3>6. mem.version = Advanced(file["version"], 1)
      BY <1>1, <1>3, <1>6, <3>5 DEF Versions, Stored, StoredVersion
    <3>7. file'["version"] = Advanced(last.version, n + 1)
      BY <1>3, <1>6, <3>2, <3>3, <3>4, <3>6, AdvancedFacts
    <3>8. ~(starts = Len(served) + 1 /\ config.shape = last.shape)
      BY <1>1, <2>2 DEF Behind, BeforeListen, BeforeVersion
    <3>9. n + 1 # 0 /\ n + 1 \in 0..starts
      BY <1>2, <3>2
    <3>10. QED
      BY <1>1, <3>2, <3>7, <3>8, <3>9 DEF Behind, BeforeVersion
  <2>3. QED
    BY <1>1, <1>3, <1>6, <2>1, <2>2 DEF Versions
<1>7. QED
  BY <1>4, <1>5, <1>6 DEF Versions

LEMMA SetHashVersions ==
    ASSUME TypeOK, Versions, SetHash
    PROVE  Versions'
<1>1. /\ pc = "setHash" /\ pc' = "key" /\ UNCHANGED <<config, mem, served, starts>>
      /\ Set("configHash", config.shape) \/ SetFails("configHash")
  BY DEF SetHash, Goto, history, configHash
<1>2. harm \in Nat /\ mem.version \in Nat /\ mem.version # None /\ config.shape \in Shape
  BY VersionTypes, ConstantFacts
<1>3. harm' = 0 => /\ harm = 0 /\ file'["version"] = file["version"]
                   /\ file'["configHash"] = config.shape
  BY <1>1, <1>2, FileTypes DEF Set, SetFails
<1>4. Announcements'
  BY <1>1 DEF Versions, Announcements, BeforeListen
<1>5. harm' = 0 => Stored'
  BY <1>1, <1>2, <1>3 DEF Versions, Stored
<1>6. ASSUME harm' = 0, starts' <= VersionMod
      PROVE  Told' /\ (Len(served') # 0 => \E n \in 0..starts' : Behind(n)')
  <2>1. Told'
    BY <1>1, <1>3, <1>6 DEF Versions, Told, BeforeListen
  <2>2. ASSUME NEW n \in 0..starts, Behind(n) PROVE Behind(n)'
    BY <1>1, <1>3, <1>6, <2>2 DEF Behind, BeforeListen, BeforeVersion
  <2>3. QED
    BY <1>1, <1>3, <1>6, <2>1, <2>2 DEF Versions
<1>7. QED
  BY <1>4, <1>5, <1>6 DEF Versions

LEMMA ListenVersions ==
    ASSUME TypeOK, Versions, Listen
    PROVE  Versions'
<1> DEFINE new == [uuid |-> mem.uuid, key |-> mem.key,
                   version |-> mem.version, shape |-> config.shape]
           T == [uuid : Nat, key : Nat \ {0}, version : Nat, shape : Shape]
           m == Len(served)
<1>1. /\ pc = "listen" /\ pc' = "serve" /\ UNCHANGED <<file, config, mem, starts, harm>>
      /\ served' = Append(served, new)
  BY DEF Listen, Goto, disk
<1>2. new.version = mem.version /\ new.shape = config.shape
  OBVIOUS
<1> HIDE DEF new
<1>3. /\ m \in Nat /\ starts \in Nat /\ VersionMod \in Nat
      /\ mem.version \in Nat /\ mem.version < VersionMod
      /\ DOMAIN served = 1..m
      /\ \A i \in 1..m : served[i].version \in Nat
  BY VersionTypes, ConstantFacts
<1>4. /\ Len(served') = m + 1 /\ DOMAIN served' = 1 .. m + 1
      /\ \A i \in 1..m : served'[i] = served[i]
      /\ served'[m + 1] = new
  <2>1. served \in Seq(T)
    BY DEF TypeOK
  <2>2. QED
    BY <1>1, <1>3, <2>1
<1> HIDE DEF m
<1>5. m < starts /\ \A i \in 1..m : served[i].version < VersionMod
  BY <1>1, <1>3 DEF Versions, Announcements, BeforeListen, m
<1>6. Announcements'
  <2>1. \A i \in 1 .. m + 1 : served'[i].version < VersionMod
    BY <1>2, <1>3, <1>4, <1>5
  <2>2. QED
    BY <1>1, <1>3, <1>4, <1>5, <2>1 DEF Announcements, BeforeListen
<1>7. harm' = 0 => Stored'
  BY <1>1 DEF Versions, Stored
<1>8. ASSUME harm' = 0, starts' <= VersionMod
      PROVE  Told' /\ (Len(served') # 0 => \E n \in 0..starts' : Behind(n)')
  <2>1. harm = 0 /\ starts <= VersionMod /\ Stored /\ Told
    BY <1>1, <1>8 DEF Versions
  <2>2. file["version"] = new.version /\ file["configHash"] = new.shape
    BY <1>1, <1>2, <2>1 DEF Stored
  <2>3. Behind(0)'
    <3>1. Advanced(new.version, 0) = new.version
      BY <1>2, <1>3, ConstantFacts DEF Advanced
    <3>2. served'[Len(served')] = new /\ 0 + Len(served') <= starts
      BY <1>3, <1>4, <1>5
    <3>3. QED
      BY <1>1, <2>2, <3>1, <3>2 DEF Behind, BeforeVersion, BeforeListen
  <2>4. ASSUME m # 0
        PROVE  /\ new.shape # served[m].shape => new.version # served[m].version
               /\ (starts = m + 1 /\ new.shape = served[m].shape)
                     => new.version = served[m].version
    <3>1. PICK n \in 0..starts : Behind(n)
      BY <2>1, <2>4 DEF Versions, m
    <3>2. /\ new.version = Advanced(served[m].version, n)
          /\ n + m <= starts
          /\ n = 0 => new.shape = served[m].shape
          /\ (starts = m + 1 /\ new.shape = served[m].shape) => n = 0
      BY <1>1, <1>2, <2>2, <3>1 DEF Behind, BeforeListen, BeforeVersion, m
    <3>3. served[m].version \in Nat /\ served[m].version < VersionMod
      BY <1>3, <1>5, <2>4
    <3>4. n \in Nat /\ n < VersionMod
      BY <1>3, <2>1, <2>4, <3>2
    <3>5. n = 0 <=> new.version = served[m].version
      BY <3>2, <3>3, <3>4, ConstantFacts DEF Advanced
    <3>6. QED
      BY <3>2, <3>5
  <2>5. ASSUME NEW i \in 2 .. m + 1
        PROVE  /\ served'[i].shape # served'[i - 1].shape
                     => served'[i].version # served'[i - 1].version
               /\ (starts = m + 1 /\ served'[i].shape = served'[i - 1].shape)
                     => served'[i].version = served'[i - 1].version
    <3>1. CASE i = m + 1
      <4>1. m # 0 /\ i - 1 = m /\ m \in 1..m
        BY <1>3, <3>1
      <4>2. served'[i] = new /\ served'[i - 1] = served[m]
        BY <1>4, <3>1, <4>1
      <4>3. QED
        BY <2>4, <4>1, <4>2
    <3>2. CASE i # m + 1
      <4>1. i \in 2..m /\ i \in 1..m /\ i - 1 \in 1..m
        BY <1>3, <3>2
      <4>2. served'[i] = served[i] /\ served'[i - 1] = served[i - 1]
        BY <1>4, <4>1
      <4>3. pc \in BeforeListen
        BY <1>1 DEF BeforeListen
      <4>4. QED
        BY <2>1, <4>1, <4>2, <4>3 DEF Told, m
    <3>3. QED
      BY <3>1, <3>2
  <2>6. Told'
    BY <1>1, <1>4, <2>5 DEF Told, BeforeListen
  <2>7. 0 \in 0..starts
    BY <1>3
  <2>8. QED
    BY <1>1, <2>3, <2>6, <2>7
<1>9. QED
  BY <1>6, <1>7, <1>8 DEF Versions


LEMMA VersionsStep == IInv /\ TypeOK' /\ [Next]_vars => Versions'
<1> SUFFICES ASSUME IInv, TypeOK', [Next]_vars PROVE Versions'
  OBVIOUS
<1>a. TypeOK /\ Versions
  BY DEF IInv
<1>b. /\ file \in [Key -> Nat \cup {None}]
      /\ "own" \in Key /\ "uuid" \in Key /\ "version" \in Key
      /\ "configHash" \in Key /\ "schema" \in Key /\ "keypair" \in Key
      /\ harm \in Nat
  BY <1>a, FileTypes, VersionTypes
<1>1. ASSUME NEW c \in Config, Start(c) PROVE Versions'
  BY <1>a, <1>1, StartVersions
<1>2. CASE GetVersion \/ SetVersion \/ SetHash \/ Listen
  BY <1>a, <1>2, GetVersionVersions, SetVersionVersions, SetHashVersions, ListenVersions
\* The end of the process, whatever it is.
<1>3. ASSUME UNCHANGED <<served, starts>>, pc' = "off",
             harm' = 0 => harm = 0 /\ UNCHANGED file
      PROVE  Versions'
  BY <1>a, <1>3, VersionsUnchanged DEF BeforeListen
<1>4. CASE SetIdentityFails \/ Crash \/ \E e \in Entity : MigrateFails(e)
  BY <1>a, <1>3, <1>4, HarmTypes, StopTypes DEF history, disk
<1>5. CASE ListenFails \/ AwaitHttp
  BY <1>3, <1>5, StopTypes DEF ListenFails, AwaitHttp, disk, history
\* Steps on the way to the version, and those between the hash and Listen.
<1>6. ASSUME UNCHANGED <<config, served, starts>>, mem'.version = mem.version,
             harm' = 0 => harm = 0,
             file'["version"] = file["version"],
             file'["configHash"] = file["configHash"],
             \/ pc \in BeforeVersion /\ pc' \in BeforeVersion
             \/ pc \in {"key", "setKey"} /\ pc' \in {"setKey", "listen"}
      PROVE  Versions'
  BY <1>a, <1>6, VersionsUnchanged DEF BeforeListen, BeforeVersion
<1>7. ASSUME NEW e \in Entity, MigrateEntity(e) PROVE Versions'
  <2>1. file'["version"] = file["version"] /\ file'["configHash"] = file["configHash"]
    BY <1>7, <1>b DEF MigrateEntity
  <2>2. /\ UNCHANGED <<config, served, starts, mem, harm>>
        /\ pc = "migrate" /\ pc' = "migrate"
    BY <1>7 DEF MigrateEntity, history
  <2>3. QED
    BY <1>6, <2>1, <2>2 DEF BeforeVersion
<1>8. CASE Migrated
  BY <1>6, <1>8 DEF Migrated, Goto, disk, history, BeforeVersion
<1>9. CASE SetSchema
  <2>1. file'["version"] = file["version"] /\ file'["configHash"] = file["configHash"]
    BY <1>9, <1>b DEF SetSchema, Set, SetFails
  <2>2. /\ UNCHANGED <<config, served, starts, mem>> /\ harm' \in {harm, harm + 1}
        /\ pc = "setSchema" /\ pc' = "uuid"
    BY <1>9 DEF SetSchema, Set, SetFails, Goto, history
  <2>3. harm' = 0 => harm = 0
    BY <1>b, <2>2
  <2>4. QED
    BY <1>6, <2>1, <2>2, <2>3 DEF BeforeVersion
<1>10. CASE GetUuid
  <2>1. mem'.version = mem.version
    BY <1>10, <1>a DEF GetUuid, TypeOK
  <2>2. QED
    BY <1>6, <1>10, <2>1 DEF GetUuid, Goto, disk, history, BeforeVersion
<1>11. CASE SetUuid
  <2>1. mem'.version = mem.version
    BY <1>11, <1>a DEF SetUuid, TypeOK
  <2>2. file'["version"] = file["version"] /\ file'["configHash"] = file["configHash"]
    BY <1>11, <1>b DEF SetUuid, Set
  <2>3. QED
    BY <1>6, <1>11, <2>1, <2>2 DEF SetUuid, Set, Goto, history, BeforeVersion
<1>12. CASE LoadKeyPair
  <2>1. mem'.version = mem.version
    BY <1>12, <1>a DEF LoadKeyPair, TypeOK
  <2>2. QED
    BY <1>6, <1>12, <2>1 DEF LoadKeyPair, Goto, disk, history
<1>13. CASE SaveKeyPair
  <2>1. mem'.version = mem.version
    BY <1>13, <1>a DEF SaveKeyPair, TypeOK
  <2>2. file'["version"] = file["version"] /\ file'["configHash"] = file["configHash"]
    BY <1>13, <1>b DEF SaveKeyPair, Set
  <2>3. QED
    BY <1>6, <1>13, <2>1, <2>2 DEF SaveKeyPair, Set, Goto, history
\* While the server runs.
<1>14. ASSUME UNCHANGED <<file, config, mem, served, starts, harm>>,
              pc' = pc \/ (pc \in Listening /\ pc' \in Listening)
       PROVE  Versions'
  BY <1>a, <1>14, VersionsUnchanged DEF BeforeListen, Listening
<1>15. CASE \/ DnsStops \/ CloserCloses \/ ServeReturns \/ ServeFails \/ AwaitDns \/ Cancel
            \/ \E c \in Controller : RemovePairing(c) \/ \E p \in Permission : AddPairing(c, p)
  BY <1>14, <1>15 DEF DnsStops, CloserCloses, ServeReturns, ServeFails, AwaitDns, Cancel,
     RemovePairing, AddPairing, Goto, disk, history, Listening
<1>16. CASE UNCHANGED vars
  BY <1>14, <1>16 DEF vars
<1>17. QED
  BY <1>1, <1>2, <1>4, <1>5, <1>7, <1>8, <1>9, <1>10, <1>11, <1>12, <1>13, <1>15, <1>16
     DEF Next, NewServer, ListenAndServe, Goroutines

-----------------------------------------------------------------------------
(* The invariant *)

LEMMA InitLemma == Init => IInv
<1> SUFFICES ASSUME Init PROVE IInv
  OBVIOUS
<1>1. PICK own \in {None, OwnLegacyKey} :
         file = [k \in Key |-> IF k = "own" THEN own ELSE None]
  BY DEF Init
<1>2. /\ file \in [Key -> Nat \cup {None}] /\ file["own"] = own
      /\ file["uuid"] = None /\ file["version"] = None /\ file["schema"] = None
      /\ file["configHash"] = None /\ file["keypair"] = None
  BY <1>1, ConstantFacts DEF Key
<1>3. /\ served = <<>> /\ Len(served) = 0 /\ DOMAIN served = {}
      /\ pc = "off" /\ starts = 0 /\ harm = 0 /\ fresh = 1 /\ removed = {} /\ todo = {}
  BY DEF Init
<1>4. TypeOK
  <2>1. mem \in [uuid : Nat \cup {None}, version : 0..(VersionMod - 1),
                 key : Nat \cup {None}]
    <3>1. 0 \in 0..(VersionMod - 1)
      BY ConstantFacts
    <3>2. QED
      BY <3>1 DEF Init
  <2>2. starts \in 0..MaxStart /\ harm \in 0..MaxHarm /\ file["version"] < VersionMod
    BY <1>2, <1>3, ConstantFacts
  <2>3. served \in Seq([uuid : Nat, key : Nat \ {0}, version : Nat, shape : Shape])
    BY <1>3
  <2>4. /\ pairing \in [Controller -> Permission \cup {"none", "torn"}]
        /\ config \in Config /\ todo \in SUBSET Entity /\ removed \in SUBSET Controller
        /\ ctx \in BOOLEAN /\ dns = "none" /\ closer = "none" /\ fresh \in Nat
    BY DEF Init
  <2>5. QED
    BY <1>2, <1>3, <2>1, <2>2, <2>3, <2>4 DEF TypeOK
<1>5. Identity
  BY <1>1, <1>2, <1>3 DEF Identity, Done, NoMigration, Listening
<1>6. Migration
  BY <1>2, <1>3 DEF Migration, Done, NoMigration, RemovedStaysRemoved, AfterSchema, Listening
<1>7. Versions
  BY <1>2, <1>3 DEF Versions, Announcements, Stored, Told, BeforeListen
<1>8. QED
  BY <1>4, <1>5, <1>6, <1>7 DEF IInv

LEMMA NextLemma == IInv /\ [Next]_vars => IInv'
<1> SUFFICES ASSUME IInv, [Next]_vars PROVE IInv'
  OBVIOUS
<1>1. TypeOK'
  BY TypeStep DEF IInv
<1>2. QED
  BY <1>1, IdentityStep, MigrationStep, VersionsStep DEF IInv

LEMMA Invariance == Spec => []IInv
  BY InitLemma, NextLemma, PTL DEF Spec

-----------------------------------------------------------------------------
(* Theorems *)

\* Every variable has its type: nothing is announced without a uuid and a key
\* pair, the version keeps to its 16 bits.
THEOREM TypeCorrect == Spec => []TypeOK
<1>1. IInv => TypeOK
  BY DEF IInv
<1>2. QED
  BY <1>1, Invariance, PTL

\* Whatever number of starts crash or fail to write, and however often they
\* migrate, the uuid and the key pair that ListenAndServe announces stay.
THEOREM SameIdentity == Spec => []IdentityKept
<1>1. IInv => IdentityKept
  BY DEF IInv, Identity, IdentityKept
<1>2. QED
  BY <1>1, Invariance, PTL

\* As long as no write fails, the version that is announced tells whether the
\* accessories are those announced before.
THEOREM ChangeAnnounced == Spec => []VersionTellsChange
<1>1. IInv => VersionTellsChange
  BY DEF IInv, Versions, Told, VersionTellsChange
<1>2. QED
  BY <1>1, Invariance, PTL

\* A server that runs has the pairings of hc that no request has removed, and
\* the key pair of hc, though migrateFromHc may have failed before.
THEOREM Migrates == Spec => []MigrationComplete
<1>1. ASSUME IInv PROVE MigrationComplete
  <2>1. ASSUME pc = "serve", NEW e \in Entity \ Legacy PROVE mem.key = file[e]
    <3>1. e = "own" /\ file["own"] # None
      BY <2>1, ConstantFacts DEF Entity
    <3>2. mem.key = file["keypair"] /\ file["keypair"] = file["own"]
      BY <1>1, <2>1, <3>1 DEF IInv, Identity, Done, NoMigration, Listening
    <3>3. QED
      BY <3>1, <3>2
  <2>2. pc = "serve" => \A c \in Legacy : pairing[c] \in Permission \/ c \in removed
    BY <1>1 DEF IInv, Migration, Done, NoMigration
  <2>3. QED
    BY <2>1, <2>2 DEF MigrationComplete
<1>2. QED
  BY <1>1, Invariance, PTL

\* A migration is not repeated once a request has removed a pairing, unless the
\* schema could not be written.
THEOREM NotMigratedAgain == Spec => []RemovedStaysRemoved
<1>1. IInv => RemovedStaysRemoved
  BY DEF IInv, Migration
<1>2. QED
  BY <1>1, Invariance, PTL


=============================================================================
