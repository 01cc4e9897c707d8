--------------------------- MODULE PairingServer ---------------------------
(***************************************************************************)
(* Pairing administration of the HAP server: connections, the session map  *)
(* server.go keeps per remote address, the pairings in the store, and the  *)
(* handlers of /pair-setup, /pair-verify and /pairings.                    *)
(*                                                                         *)
(* net/http runs one goroutine per connection: the requests of one         *)
(* connection are handled one after the other, those of different          *)
(* connections interleave between any two accesses to the session map, to  *)
(* the connection table or to the store.  pc[a] is the point the handler   *)
(* of connection a has reached; "idle" is the serve loop waiting for the   *)
(* next request.  A request that is refused without touching any state     *)
(* is a stuttering step.                                                   *)
(*                                                                         *)
(* A connection is named by its remote address.  An address is accepted    *)
(* again only after its previous connection was closed and forgotten.      *)
(***************************************************************************)
EXTENDS Naturals

CONSTANTS
    Addr,        \* remote addresses of the connections
    Controller,  \* pairing identifiers of the controllers
    MaxFaults    \* bound on store failures and restarts

ASSUME MaxFaultsAssumption == MaxFaults \in Nat

VARIABLES
    tcp,       \* "none", "open", or "closed" (closed, serve loop not ended)
    cons,      \* addresses in the connection table: never taken out again
    sess,      \* Server.sess: what is stored for each address
    store,     \* the pairing files: "none", "torn" (empty) or a permission
    pc,        \* where the handler of each connection is
    req,       \* the locals of that handler
    todo,      \* connections its cleanup loop has still to look at
    names,     \* pairings its deleteAllPairings loop has still to delete
    unlinked,  \* handlers writing to a file that was removed meanwhile
    faults     \* failures so far (bounds the model)

vars == <<tcp, cons, sess, store, pc, req, todo, names, unlinked, faults>>

-----------------------------------------------------------------------------

Permission == {"user", "admin"}

Nobody == "nobody"

SetupMessage == {"M1", "M3", "M5"}

PC == {"idle", "sessions", "step", "truncate", "write", "upgrade", "remove",
       "admins", "closeAll", "list", "wipe", "conns", "closeOwn"}

\* "setup" and "proved" are a pairSetupSession before and after M3 agreed on
\* the encryption key, "verify" is a pairVerifySession, "session" a session.
Session == [kind : {"none", "setup", "proved", "verify", "session"},
            who  : Controller \cup {Nobody},
            perm : Permission]

Request == [op   : SetupMessage \cup {"none", "verify", "add", "delete"},
            who  : Controller \cup {Nobody},
            perm : Permission]

SessionOf(kind, c, p) == [kind |-> kind, who |-> c, perm |-> p]

NoSession == SessionOf("none", Nobody, "user")

NoRequest == [op |-> "none", who |-> Nobody, perm |-> "user"]

-----------------------------------------------------------------------------

\* storer.Pairing returns no error: the file is there and is not empty.
Readable(c) == store[c] \in Permission

\* The scan of the directory by storer.Pairings is one step.
Readables == {c \in Controller : Readable(c)}

IsPaired == Readables # {}

PairedWithAdmin == \E c \in Controller : store[c] = "admin"

IsAuthorized(a) == sess[a].kind = "session"

IsAdmin(a) == IsAuthorized(a) /\ sess[a].perm = "admin"

SetSession(a, s) == sess' = [sess EXCEPT ![a] = s]

\* The serve loop of a can read another request.
Serving(a) == tcp[a] = "open" /\ pc[a] = "idle"

Begin(a, op, c, p, at) ==
    /\ req' = [req EXCEPT ![a] = [op |-> op, who |-> c, perm |-> p]]
    /\ pc' = [pc EXCEPT ![a] = at]

At(a, from) == pc[a] = from

Goto(a, to) == pc' = [pc EXCEPT ![a] = to] /\ UNCHANGED req

\* The handler returns; net/http flushes the buffered response.
Return(a) ==
    /\ pc' = [pc EXCEPT ![a] = "idle"]
    /\ req' = [req EXCEPT ![a] = NoRequest]

\* conn.Close on each of these connections; a second Close changes nothing.
Close(S) ==
    tcp' = [b \in Addr |-> IF b \in S /\ tcp[b] = "open" THEN "closed" ELSE tcp[b]]

\* Removing the file of c: a handler that holds it open writes to a file that
\* has no name any more.
Unlink(c) ==
    /\ store' = [store EXCEPT ![c] = "none"]
    /\ unlinked' = unlinked \cup {b \in Addr : pc[b] = "write" /\ req[b].who = c}

-----------------------------------------------------------------------------
(* Connections *)

Accept(a) ==
    /\ tcp[a] = "none"
    /\ tcp' = [tcp EXCEPT ![a] = "open"]
    /\ cons' = cons \cup {a}
    \* a loop that copied the table earlier holds the previous conn of a
    /\ todo' = [b \in Addr |-> todo[b] \ {a}]
    /\ UNCHANGED <<sess, store, pc, req, names, unlinked, faults>>

PeerClose(a) ==
    /\ tcp[a] = "open"
    /\ tcp' = [tcp EXCEPT ![a] = "closed"]
    /\ UNCHANGED <<cons, sess, store, pc, req, todo, names, unlinked, faults>>

\* Mutant: the connection is forgotten while its handler still runs.
ConnStateClosedEarly(a) ==
    /\ tcp[a] = "closed"
    /\ tcp' = [tcp EXCEPT ![a] = "none"]
    /\ SetSession(a, NoSession)
    /\ UNCHANGED <<cons, store, pc, req, todo, names, unlinked, faults>>

\* Mutant: only a verified session is deleted.
ConnStateClosedKeepsSetup(a) ==
    /\ tcp[a] = "closed"
    /\ At(a, "idle")
    /\ tcp' = [tcp EXCEPT ![a] = "none"]
    /\ SetSession(a, IF IsAuthorized(a) THEN NoSession ELSE sess[a])
    /\ UNCHANGED <<cons, store, pc, req, todo, names, unlinked, faults>>

\* The serve loop ends once the handler has returned: StateClosed.
ConnStateClosed(a) ==
    /\ tcp[a] = "closed"
    /\ At(a, "idle")
    /\ tcp' = [tcp EXCEPT ![a] = "none"]
    /\ SetSession(a, NoSession)
    /\ UNCHANGED <<cons, store, pc, req, todo, names, unlinked, faults>>

-----------------------------------------------------------------------------
(* /pair-setup *)

PairSetup(a, m, c) ==
    /\ Serving(a)
    /\ ~IsPaired
    /\ Begin(a, m, IF m = "M5" THEN c ELSE Nobody, "admin", "sessions")
    /\ UNCHANGED <<tcp, cons, sess, store, todo, names, unlinked, faults>>

\* Mutant: only the message that opens a pair-setup looks at the sessions.
PairSetupSessionsM1(a) ==
    /\ At(a, "sessions")
    /\ IF req[a].op = "M1" => \A b \in Addr \ {a} : sess[b].kind = "none"
       THEN Goto(a, "step")
       ELSE Return(a)
    /\ UNCHANGED <<tcp, cons, sess, store, todo, names, unlinked, faults>>

PairSetupSessions(a) ==
    /\ At(a, "sessions")
    /\ IF \A b \in Addr \ {a} : sess[b].kind = "none"
       THEN Goto(a, "step")
       ELSE Return(a)
    /\ UNCHANGED <<tcp, cons, sess, store, todo, names, unlinked, faults>>

PairSetupM1(a) ==
    /\ At(a, "step")
    /\ req[a].op = "M1"
    /\ SetSession(a, SessionOf("setup", Nobody, "user"))
    /\ Return(a)
    /\ UNCHANGED <<tcp, cons, store, todo, names, unlinked, faults>>

PairSetupM3(a) ==
    /\ At(a, "step")
    /\ req[a].op = "M3"
    /\ sess[a].kind \in {"setup", "proved"}
    /\ SetSession(a, SessionOf("proved", Nobody, "user"))
    /\ Return(a)
    /\ UNCHANGED <<tcp, cons, store, todo, names, unlinked, faults>>

\* M5 asks for a pair-setup session, not for an M3 that succeeded on it.  What
\* the decryption and the signature say of the message is a choice: this step
\* or PairSetupRefuse.
PairSetupM5(a) ==
    /\ At(a, "step")
    /\ req[a].op = "M5"
    /\ sess[a].kind \in {"setup", "proved"}
    /\ Goto(a, "truncate")
    /\ UNCHANGED <<tcp, cons, sess, store, todo, names, unlinked, faults>>

\* A wrong session, proof, key or signature: an error and no change.
PairSetupRefuse(a) ==
    /\ At(a, "step")
    /\ Return(a)
    /\ UNCHANGED <<tcp, cons, sess, store, todo, names, unlinked, faults>>

-----------------------------------------------------------------------------
(* /pair-verify *)

PairVerifyM1(a) ==
    /\ Serving(a)
    /\ SetSession(a, SessionOf("verify", Nobody, "user"))
    /\ UNCHANGED <<tcp, cons, store, pc, req, todo, names, unlinked, faults>>

\* Mutant: the error of st.Pairing is not looked at.
PairVerifyM3Unchecked(a, c) ==
    /\ Serving(a)
    /\ sess[a].kind = "verify"
    /\ Begin(a, "verify", c, store[c], "upgrade")
    /\ UNCHANGED <<tcp, cons, sess, store, todo, names, unlinked, faults>>

\* M3 up to the signature check: the pairing is read here ...
PairVerifyM3(a, c) ==
    /\ Serving(a)
    /\ sess[a].kind = "verify"
    /\ Readable(c)
    /\ Begin(a, "verify", c, store[c], "upgrade")
    /\ UNCHANGED <<tcp, cons, sess, store, todo, names, unlinked, faults>>

\* Mutant: a pairing is all that counts, not its permission.
PairVerifyUpgradeAdmin(a) ==
    /\ At(a, "upgrade")
    /\ SetSession(a, SessionOf("session", req[a].who, "admin"))
    /\ Return(a)
    /\ UNCHANGED <<tcp, cons, store, todo, names, unlinked, faults>>

\* ... and a copy of it goes into the session here.
PairVerifyUpgrade(a) ==
    /\ At(a, "upgrade")
    /\ SetSession(a, SessionOf("session", req[a].who, req[a].perm))
    /\ Return(a)
    /\ UNCHANGED <<tcp, cons, store, todo, names, unlinked, faults>>

-----------------------------------------------------------------------------
(* savePairing: os.WriteFile truncates the file, then writes it *)

\* Mutant: the handler returns before the file is written.
SaveTruncateOnly(a) ==
    /\ At(a, "truncate")
    /\ store' = [store EXCEPT ![req[a].who] = "torn"]
    /\ Return(a)
    /\ UNCHANGED <<tcp, cons, sess, todo, names, unlinked, faults>>

SaveTruncate(a) ==
    /\ At(a, "truncate")
    /\ store' = [store EXCEPT ![req[a].who] = "torn"]
    /\ Goto(a, "write")
    /\ UNCHANGED <<tcp, cons, sess, todo, names, unlinked, faults>>

SaveWrite(a) ==
    /\ At(a, "write")
    /\ store' = IF a \in unlinked THEN store
                ELSE [store EXCEPT ![req[a].who] = req[a].perm]
    /\ unlinked' = unlinked \ {a}
    /\ Return(a)
    /\ UNCHANGED <<tcp, cons, sess, todo, names, faults>>

\* The file system refuses: an error, and a truncated file stays empty.
SaveFail(a) ==
    /\ pc[a] \in {"truncate", "write"}
    /\ faults < MaxFaults
    /\ faults' = faults + 1
    /\ unlinked' = unlinked \ {a}
    /\ Return(a)
    /\ UNCHANGED <<tcp, cons, sess, store, todo, names>>

-----------------------------------------------------------------------------
(* /pairings *)

\* The permission is the one copied into the session by pair-verify.  A
\* request with another public key than the stored one is refused.
AddPairing(a, c, p) ==
    /\ Serving(a)
    /\ IsAdmin(a)
    /\ Begin(a, "add", c, p, "truncate")
    /\ UNCHANGED <<tcp, cons, sess, store, todo, names, unlinked, faults>>

DeletePairing(a, c) ==
    /\ Serving(a)
    /\ IsAdmin(a)
    /\ Readable(c)
    /\ Begin(a, "delete", c, "user", "remove")
    /\ UNCHANGED <<tcp, cons, sess, store, todo, names, unlinked, faults>>

RemoveFile(a) ==
    /\ At(a, "remove")
    /\ store[req[a].who] # "none"
    /\ Unlink(req[a].who)
    /\ Goto(a, "admins")
    /\ UNCHANGED <<tcp, cons, sess, todo, names, faults>>

\* os.Remove of a file that is gone: TlvErrorUnknown.
RemoveFails(a) ==
    /\ At(a, "remove")
    /\ store[req[a].who] = "none"
    /\ Return(a)
    /\ UNCHANGED <<tcp, cons, sess, store, todo, names, unlinked, faults>>

CheckAdmins(a) ==
    /\ At(a, "admins")
    /\ Goto(a, IF PairedWithAdmin THEN "conns" ELSE "closeAll")
    /\ UNCHANGED <<tcp, cons, sess, store, todo, names, unlinked, faults>>

\* The loop reads nothing but the table, so that it is one step.
CloseAll(a) ==
    /\ At(a, "closeAll")
    /\ Close(cons)
    /\ Goto(a, "list")
    /\ UNCHANGED <<cons, sess, store, todo, names, unlinked, faults>>

DeleteAllPairings(a) ==
    \/ /\ At(a, "list")
       /\ names' = [names EXCEPT ![a] = Readables]
       /\ Goto(a, "wipe")
       /\ UNCHANGED <<tcp, cons, sess, store, todo, unlinked, faults>>
    \/ /\ At(a, "wipe")
       /\ \E c \in names[a] :
             /\ Unlink(c)
             /\ names' = [names EXCEPT ![a] = @ \ {c}]
       /\ UNCHANGED <<tcp, cons, sess, pc, req, todo, faults>>
    \/ /\ At(a, "wipe")
       /\ names[a] = {}
       /\ Goto(a, "conns")
       /\ UNCHANGED <<tcp, cons, sess, store, todo, names, unlinked, faults>>

CopyConns(a) ==
    /\ At(a, "conns")
    /\ todo' = [todo EXCEPT ![a] = cons]
    /\ Goto(a, "closeOwn")
    /\ UNCHANGED <<tcp, cons, sess, store, names, unlinked, faults>>

IsSessionOf(b, c) == IsAuthorized(b) /\ sess[b].who = c

\* Mutant: the connection the request came on is left out, as it is when
\* notifications are sent.
CloseOtherController(a) ==
    /\ At(a, "closeOwn")
    /\ \E b \in todo[a] :
          /\ todo' = [todo EXCEPT ![a] = @ \ {b}]
          /\ Close(IF b # a /\ IsSessionOf(b, req[a].who) THEN {b} ELSE {})
    /\ UNCHANGED <<cons, sess, store, pc, req, names, unlinked, faults>>

\* Mutant: the session is taken out of the map together with the connection.
CloseControllerSession(a) ==
    /\ At(a, "closeOwn")
    /\ \E b \in todo[a] :
          /\ todo' = [todo EXCEPT ![a] = @ \ {b}]
          /\ Close(IF IsSessionOf(b, req[a].who) THEN {b} ELSE {})
          /\ SetSession(b, IF IsSessionOf(b, req[a].who) THEN NoSession ELSE sess[b])
    /\ UNCHANGED <<cons, store, pc, req, names, unlinked, faults>>

CloseController(a) ==
    /\ At(a, "closeOwn")
    /\ \E b \in todo[a] :
          /\ todo' = [todo EXCEPT ![a] = @ \ {b}]
          /\ Close(IF IsSessionOf(b, req[a].who) THEN {b} ELSE {})
    /\ UNCHANGED <<cons, sess, store, pc, req, names, unlinked, faults>>

DeletePairingDone(a) ==
    /\ At(a, "closeOwn")
    /\ todo[a] = {}
    /\ Return(a)
    /\ UNCHANGED <<tcp, cons, sess, store, todo, names, unlinked, faults>>

-----------------------------------------------------------------------------

\* The process dies and is started again: only the files survive.
Restart ==
    /\ faults < MaxFaults
    /\ faults' = faults + 1
    /\ tcp' = [a \in Addr |-> "none"]
    /\ cons' = {}
    /\ sess' = [a \in Addr |-> NoSession]
    /\ pc' = [a \in Addr |-> "idle"]
    /\ req' = [a \in Addr |-> NoRequest]
    /\ todo' = [a \in Addr |-> {}]
    /\ names' = [a \in Addr |-> {}]
    /\ unlinked' = {}
    /\ UNCHANGED store

\* A new accessory, or one that was paired before it was started.
Init ==
    /\ tcp = [a \in Addr |-> "none"]
    /\ cons = {}
    /\ sess = [a \in Addr |-> NoSession]
    /\ store \in [Controller -> Permission \cup {"none"}]
    /\ IsPaired => PairedWithAdmin
    /\ pc = [a \in Addr |-> "idle"]
    /\ req = [a \in Addr |-> NoRequest]
    /\ todo = [a \in Addr |-> {}]
    /\ names = [a \in Addr |-> {}]
    /\ unlinked = {}
    /\ faults = 0

\* The steps of a request that was begun.
Handler(a) ==
    \/ PairSetupSessions(a) \/ PairSetupM1(a) \/ PairSetupM3(a)
    \/ PairSetupM5(a) \/ PairSetupRefuse(a)
    \/ PairVerifyUpgrade(a)
    \/ SaveTruncate(a) \/ SaveWrite(a) \/ SaveFail(a)
    \/ RemoveFile(a) \/ RemoveFails(a) \/ CheckAdmins(a) \/ CloseAll(a)
    \/ DeleteAllPairings(a) \/ CopyConns(a) \/ CloseController(a)
    \/ DeletePairingDone(a)

\* A controller sends a request on an idle connection.
Call(a) ==
    \/ \E m \in SetupMessage, c \in Controller : PairSetup(a, m, c)
    \/ PairVerifyM1(a)
    \/ \E c \in Controller : PairVerifyM3(a, c)
    \/ \E c \in Controller, p \in Permission : AddPairing(a, c, p)
    \/ \E c \in Controller : DeletePairing(a, c)

Next ==
    \/ \E a \in Addr : Accept(a) \/ PeerClose(a) \/ ConnStateClosed(a)
    \/ \E a \in Addr : Call(a) \/ Handler(a)
    \/ Restart

\* The Go scheduler runs every goroutine: a handler that can go on does, and
\* the serve loop of a closed connection ends.  Controllers owe nothing.
Fairness == \A a \in Addr : WF_vars(Handler(a)) /\ WF_vars(ConnStateClosed(a))

Spec == Init /\ [][Next]_vars /\ Fairness

-----------------------------------------------------------------------------
(* Properties *)

\* Every variable has its type.
TypeOK ==
    /\ tcp \in [Addr -> {"none", "open", "closed"}]
    /\ cons \in SUBSET Addr
    /\ sess \in [Addr -> Session]
    /\ store \in [Controller -> Permission \cup {"none", "torn"}]
    /\ pc \in [Addr -> PC]
    /\ req \in [Addr -> Request]
    /\ todo \in [Addr -> SUBSET Addr]
    /\ names \in [Addr -> SUBSET Controller]
    /\ unlinked \in SUBSET Addr
    /\ faults \in 0..MaxFaults

\* The M5 of a was accepted and is being saved.
Saving(a) == req[a].op = "M5" /\ pc[a] \in {"truncate", "write"}

\* "pair-setup can only be run by one controller simultaneously": pairSetup
\* looks at the other sessions before it stores its own, so that two M1 that
\* race both get a session, but never do two connections get past M3 or save
\* what they pair, whichever of M3 and M5 each of them sent.
SetupExclusive ==
    \A a, b \in Addr :
        /\ sess[a].kind = "proved" \/ Saving(a)
        /\ sess[b].kind = "proved" \/ Saving(b)
        => a = b

\* A session is in the map only while its connection lives: one that outlived
\* it would keep every other controller from pairing (TlvErrorBusy).
NoOrphanSession ==
    \A a \in Addr : sess[a].kind # "none" => tcp[a] # "none"

\* Between two steps of a /pairings handler, of a saving M5 and of a
\* pair-verify M3, the map holds the session the handler was let in with.
HandlerKeepsSession ==
    \A a \in Addr :
        /\ req[a].op \in {"add", "delete"} => IsAdmin(a)
        /\ req[a].op = "verify" => sess[a].kind = "verify"
        /\ Saving(a) => sess[a].kind \in {"setup", "proved"}

\* The handler of a is writing the file of c, which has its name still.
Writing(a, c) == pc[a] = "write" /\ req[a].who = c /\ a \notin unlinked

\* As long as nothing failed, a pairing file is unreadable only while a
\* handler is about to write it, whoever else truncates, writes or removes it.
TornOnlyWhileWriting ==
    faults = 0 =>
        \A c \in Controller :
            store[c] = "torn" => \E a \in Addr : Writing(a, c)

\* "Close connection of deleted controller": a connection that is verified as
\* c when the pairing of c has just been removed does not stay so.
RemovedControllerDisconnected ==
    \A b \in Addr, c \in Controller :
        (/\ \E a \in Addr : pc[a] = "admins" /\ req[a].who = c
         /\ tcp[b] = "open"
         /\ IsSessionOf(b, c))
        ~> ~(tcp[b] = "open" /\ IsSessionOf(b, c))

\* A closed connection does not block pair-setup for ever: its handler comes
\* to an end and its session leaves the map.
ClosedConnectionForgotten ==
    \A a \in Addr : tcp[a] = "closed" ~> tcp[a] = "none" /\ sess[a] = NoSession

-----------------------------------------------------------------------------
(* The abstract specification that the handlers implement *)

\* Pair-setup has let a through, to the exclusion of the others: a is past M3,
\* or past the session check with an M3 or an M5 that finds its session.
Admitted(a) ==
    \/ sess[a].kind = "proved"
    \/ /\ sess[a].kind = "setup"
       /\ req[a].op \in {"M3", "M5"}
       /\ pc[a] \in {"step", "truncate", "write"}

\* Who has verified itself or is admitted to pair-setup, and who is about to
\* have a session: between the two steps of pair-verify M3.
role ==
    [a \in Addr |->
        IF IsAuthorized(a) THEN sess[a]
        ELSE IF Admitted(a) THEN SessionOf("setup", Nobody, "user") ELSE NoSession]

claim ==
    [a \in Addr |->
        IF At(a, "upgrade") THEN SessionOf("session", req[a].who, req[a].perm) ELSE NoSession]

Registry == INSTANCE PairingRegistry WITH pairing <- store

\* "operation not allowed for non-admin controllers", whoever connects, verifies
\* or pairs meanwhile: every access comes from a pairing that was there, every
\* change from an admin or from the one connection admitted to pair-setup.
ImplementsRegistry == Registry!Spec

-----------------------------------------------------------------------------
(* What a comment says and the interleavings of the code refute *)

Quiescent == \A a \in Addr : pc[a] = "idle"

\* "Close connection of deleted controller": when no request is being handled,
\* no open connection is verified as a controller without a pairing.
NoSessionOfRemovedController ==
    Quiescent => \A b \in Addr, c \in Controller :
        tcp[b] = "open" /\ IsSessionOf(b, c) => store[c] # "none"

=============================================================================
