------------------------ MODULE PairingServerProofs ------------------------
(***************************************************************************)
(* Theorems about PairingServer for every set of addresses and of          *)
(* controllers.                                                            *)
(***************************************************************************)
EXTENDS PairingServer, TLAPS

-----------------------------------------------------------------------------
(* What the operators the actions are built from keep *)

\* Constants of the model have their types.
LEMMA ConstantTypes ==
    /\ NoSession \in Session
    /\ NoRequest \in Request
    /\ "user" \in Permission
    /\ "admin" \in Permission
    /\ Nobody \in Controller \cup {Nobody}
  BY DEF NoSession, NoRequest, Session, Request, SessionOf, Permission

\* A session, or a request, made of typed parts is one.
LEMMA RecordTypes ==
    ASSUME NEW c \in Controller \cup {Nobody}, NEW p \in Permission
    PROVE  /\ \A k \in {"setup", "proved", "verify", "session"} :
                 SessionOf(k, c, p) \in Session
           /\ \A op \in SetupMessage \cup {"verify", "add", "delete"} :
                 [op |-> op, who |-> c, perm |-> p] \in Request
  BY DEF Session, Request, SessionOf

\* Moving a handler on, and ending it, keep the types of its locals.
LEMMA GotoType ==
    ASSUME TypeOK, NEW a \in Addr, NEW to \in PC, Goto(a, to)
    PROVE  pc' \in [Addr -> PC] /\ req' \in [Addr -> Request]
  BY DEF TypeOK, Goto

LEMMA ReturnType ==
    ASSUME TypeOK, NEW a \in Addr, Return(a)
    PROVE  pc' \in [Addr -> PC] /\ req' \in [Addr -> Request]
  BY ConstantTypes DEF TypeOK, Return, PC

LEMMA BeginType ==
    ASSUME TypeOK, NEW a \in Addr,
           NEW op \in SetupMessage \cup {"verify", "add", "delete"},
           NEW c \in Controller \cup {Nobody}, NEW p \in Permission,
           NEW at \in PC, Begin(a, op, c, p, at)
    PROVE  pc' \in [Addr -> PC] /\ req' \in [Addr -> Request]
<1>1. [op |-> op, who |-> c, perm |-> p] \in Request
  BY RecordTypes
<1>2. QED
  BY <1>1 DEF TypeOK, Begin

LEMMA SetSessionType ==
    ASSUME TypeOK, NEW a \in Addr, NEW s \in Session, SetSession(a, s)
    PROVE  sess' \in [Addr -> Session]
  BY DEF TypeOK, SetSession

\* Close takes open connections to closed and leaves the others alone.
LEMMA CloseType ==
    ASSUME TypeOK, NEW S, Close(S)
    PROVE  /\ tcp' \in [Addr -> {"none", "open", "closed"}]
           /\ \A a \in Addr : tcp'[a] = "none" <=> tcp[a] = "none"
  BY DEF TypeOK, Close

LEMMA UnlinkType ==
    ASSUME TypeOK, NEW c, Unlink(c)
    PROVE  /\ store' \in [Controller -> Permission \cup {"none", "torn"}]
           /\ unlinked' \in SUBSET Addr
  BY DEF TypeOK, Unlink

-----------------------------------------------------------------------------
(* Types *)

\* Every step of the server keeps the types.
LEMMA TypeStep == TypeOK /\ [Next]_vars => TypeOK'
<1> SUFFICES ASSUME TypeOK, [Next]_vars PROVE TypeOK'
  OBVIOUS
<1>1. ASSUME NEW a \in Addr, Accept(a) \/ PeerClose(a) PROVE TypeOK'
  BY <1>1 DEF TypeOK, Accept, PeerClose
<1>2. ASSUME NEW a \in Addr, ConnStateClosed(a) PROVE TypeOK'
  BY <1>2, ConstantTypes, SetSessionType DEF TypeOK, ConnStateClosed
<1>3. ASSUME NEW a \in Addr, NEW m \in SetupMessage, NEW c \in Controller,
             PairSetup(a, m, c)
      PROVE  TypeOK'
  <2>1. (IF m = "M5" THEN c ELSE Nobody) \in Controller \cup {Nobody}
    OBVIOUS
  <2>2. "sessions" \in PC
    BY DEF PC
  <2>3. QED
    BY <1>3, <2>1, <2>2, ConstantTypes, BeginType DEF TypeOK, PairSetup
<1>4. ASSUME NEW a \in Addr, PairSetupSessions(a) PROVE TypeOK'
  BY <1>4, GotoType, ReturnType DEF TypeOK, PairSetupSessions, PC
<1>5. ASSUME NEW a \in Addr, PairSetupM1(a) \/ PairSetupM3(a) PROVE TypeOK'
  <2>1. /\ SessionOf("setup", Nobody, "user") \in Session
        /\ SessionOf("proved", Nobody, "user") \in Session
    BY RecordTypes, ConstantTypes
  <2>2. sess' \in [Addr -> Session]
    BY <1>5, <2>1, SetSessionType DEF PairSetupM1, PairSetupM3
  <2>3. QED
    BY <1>5, <2>2, ReturnType DEF TypeOK, PairSetupM1, PairSetupM3
<1>6. ASSUME NEW a \in Addr, PairSetupM5(a) \/ PairSetupRefuse(a) PROVE TypeOK'
  BY <1>6, GotoType, ReturnType DEF TypeOK, PairSetupM5, PairSetupRefuse, PC
<1>7. ASSUME NEW a \in Addr, PairVerifyM1(a) PROVE TypeOK'
  <2>1. SessionOf("verify", Nobody, "user") \in Session
    BY RecordTypes, ConstantTypes
  <2>2. QED
    BY <1>7, <2>1, SetSessionType DEF TypeOK, PairVerifyM1
<1>8. ASSUME NEW a \in Addr, NEW c \in Controller, PairVerifyM3(a, c)
      PROVE  TypeOK'
  <2>1. store[c] \in Permission /\ "upgrade" \in PC
    BY <1>8 DEF PairVerifyM3, Readable, PC
  <2>2. QED
    BY <1>8, <2>1, BeginType DEF TypeOK, PairVerifyM3
<1>9. ASSUME NEW a \in Addr, PairVerifyUpgrade(a) PROVE TypeOK'
  <2>1. SessionOf("session", req[a].who, req[a].perm) \in Session
    BY RecordTypes DEF TypeOK, Request
  <2>2. sess' \in [Addr -> Session]
    BY <1>9, <2>1, SetSessionType DEF PairVerifyUpgrade
  <2>3. QED
    BY <1>9, <2>2, ReturnType DEF TypeOK, PairVerifyUpgrade
<1>10. ASSUME NEW a \in Addr, SaveTruncate(a) PROVE TypeOK'
  BY <1>10, GotoType DEF TypeOK, SaveTruncate, PC
<1>11. ASSUME NEW a \in Addr, SaveWrite(a) PROVE TypeOK'
  <2>1. req[a].perm \in Permission
    BY DEF TypeOK, Request
  <2>2. QED
    BY <1>11, <2>1, ReturnType DEF TypeOK, SaveWrite
<1>12. ASSUME NEW a \in Addr, SaveFail(a) PROVE TypeOK'
  BY <1>12, ReturnType, MaxFaultsAssumption DEF TypeOK, SaveFail
<1>13. ASSUME NEW a \in Addr, NEW c \in Controller, NEW p \in Permission,
              AddPairing(a, c, p)
       PROVE  TypeOK'
  BY <1>13, BeginType DEF TypeOK, AddPairing, PC
<1>14. ASSUME NEW a \in Addr, NEW c \in Controller, DeletePairing(a, c)
       PROVE  TypeOK'
  BY <1>14, BeginType, ConstantTypes DEF TypeOK, DeletePairing, PC
<1>15. ASSUME NEW a \in Addr, RemoveFile(a) PROVE TypeOK'
  BY <1>15, UnlinkType, GotoType DEF TypeOK, RemoveFile, PC
<1>16. ASSUME NEW a \in Addr, RemoveFails(a) \/ DeletePairingDone(a)
       PROVE  TypeOK'
  BY <1>16, ReturnType DEF TypeOK, RemoveFails, DeletePairingDone
<1>17. ASSUME NEW a \in Addr, CheckAdmins(a) \/ CopyConns(a) PROVE TypeOK'
  BY <1>17, GotoType DEF TypeOK, CheckAdmins, CopyConns, PC
<1>18. ASSUME NEW a \in Addr, CloseAll(a) PROVE TypeOK'
  BY <1>18, CloseType, GotoType DEF TypeOK, CloseAll, PC
<1>19. ASSUME NEW a \in Addr, DeleteAllPairings(a) PROVE TypeOK'
  BY <1>19, UnlinkType, GotoType
     DEF TypeOK, DeleteAllPairings, Readables, PC
<1>20. ASSUME NEW a \in Addr, CloseController(a) PROVE TypeOK'
  BY <1>20, CloseType DEF TypeOK, CloseController
<1>21. CASE Restart
  BY <1>21, ConstantTypes, MaxFaultsAssumption DEF TypeOK, Restart, PC
<1>22. CASE UNCHANGED vars
  BY <1>22 DEF TypeOK, vars
<1>23. QED
  BY <1>1, <1>2, <1>3, <1>4, <1>5, <1>6, <1>7, <1>8, <1>9, <1>10, <1>11,
     <1>12, <1>13, <1>14, <1>15, <1>16, <1>17, <1>18, <1>19, <1>20, <1>21,
     <1>22
     DEF Next, Call, Handler

\* The variables have their types in every reachable state.
THEOREM TypeCorrect == Spec => []TypeOK
<1>1. Init => TypeOK
  BY ConstantTypes, MaxFaultsAssumption DEF Init, TypeOK, PC
<1>2. QED
  BY <1>1, TypeStep, PTL DEF Spec

-----------------------------------------------------------------------------
(* A handler keeps the session it was let in with *)

\* What the handler of a is doing tells which request it serves.
Locals(a) ==
    /\ pc[a] = "idle" => req[a].op = "none"
    /\ pc[a] \in {"sessions", "step"} => req[a].op \in SetupMessage
    /\ pc[a] = "upgrade" => req[a].op = "verify"
    /\ pc[a] \in {"truncate", "write"} => req[a].op \in {"M5", "add"}
    /\ pc[a] \in {"remove", "admins", "closeAll", "list", "wipe", "conns",
                  "closeOwn"} => req[a].op = "delete"

\* The part of HandlerKeepsSession about one connection.
KeepsSession(a) ==
    /\ req[a].op \in {"add", "delete"} => IsAdmin(a)
    /\ req[a].op = "verify" => sess[a].kind = "verify"
    /\ Saving(a) => sess[a].kind \in {"setup", "proved"}

\* There is no handler and no session without a connection.
Lives(a) == tcp[a] = "none" => pc[a] = "idle" /\ sess[a].kind = "none"

HandlerInv == \A a \in Addr : Locals(a) /\ KeepsSession(a) /\ Lives(a)

LEMMA HandlerStep == TypeOK /\ HandlerInv /\ [Next]_vars => HandlerInv'
<1> SUFFICES ASSUME TypeOK, HandlerInv, [Next]_vars, NEW b \in Addr
             PROVE  Locals(b)' /\ KeepsSession(b)' /\ Lives(b)'
  BY DEF HandlerInv
<1> DEFINE Goal == Locals(b)' /\ KeepsSession(b)' /\ Lives(b)'
<1>a. Locals(b) /\ KeepsSession(b) /\ Lives(b)
  BY DEF HandlerInv
<1> USE DEF TypeOK, Locals, KeepsSession, Lives, Saving, IsAdmin, IsAuthorized,
            SetSession, SessionOf, NoSession, Goto, Return, NoRequest, At,
            SetupMessage, PC
<1>1. ASSUME NEW a \in Addr, Accept(a) \/ PeerClose(a) \/ ConnStateClosed(a)
      PROVE  Goal
  BY <1>a, <1>1 DEF Accept, PeerClose, ConnStateClosed
<1>2. ASSUME NEW a \in Addr, NEW m \in SetupMessage, NEW c \in Controller,
             PairSetup(a, m, c)
      PROVE  Goal
  BY <1>a, <1>2 DEF PairSetup, Begin, Serving
<1>3. ASSUME NEW a \in Addr, PairSetupSessions(a) PROVE Goal
  BY <1>a, <1>3 DEF PairSetupSessions
<1>4. ASSUME NEW a \in Addr,
             PairSetupM1(a) \/ PairSetupM3(a) \/ PairSetupM5(a) \/ PairSetupRefuse(a)
      PROVE  Goal
  BY <1>a, <1>4 DEF PairSetupM1, PairSetupM3, PairSetupM5, PairSetupRefuse
<1>5. ASSUME NEW a \in Addr, PairVerifyM1(a) PROVE Goal
  BY <1>a, <1>5 DEF PairVerifyM1, Serving
<1>6. ASSUME NEW a \in Addr, PairVerifyUpgrade(a) PROVE Goal
  BY <1>a, <1>6 DEF PairVerifyUpgrade
<1>7. ASSUME NEW a \in Addr, NEW c \in Controller, PairVerifyM3(a, c)
      PROVE  Goal
  BY <1>a, <1>7 DEF PairVerifyM3, Begin, Serving
<1>8. ASSUME NEW a \in Addr, NEW c \in Controller, NEW p \in Permission,
             AddPairing(a, c, p) \/ DeletePairing(a, c)
      PROVE  Goal
  BY <1>a, <1>8 DEF AddPairing, DeletePairing, Begin, Serving
<1>9. ASSUME NEW a \in Addr, SaveTruncate(a) \/ SaveWrite(a) \/ SaveFail(a)
      PROVE  Goal
  BY <1>a, <1>9 DEF SaveTruncate, SaveWrite, SaveFail
<1>10. ASSUME NEW a \in Addr,
              \/ RemoveFile(a) \/ RemoveFails(a) \/ CheckAdmins(a)
              \/ DeleteAllPairings(a) \/ CopyConns(a) \/ DeletePairingDone(a)
       PROVE  Goal
  BY <1>a, <1>10 DEF RemoveFile, RemoveFails, CheckAdmins, DeleteAllPairings,
                     CopyConns, DeletePairingDone
<1>11. ASSUME NEW a \in Addr, CloseAll(a) PROVE Goal
  <2>1. tcp'[b] = "none" <=> tcp[b] = "none"
    BY <1>11, CloseType DEF CloseAll
  <2>2. QED
    BY <1>a, <1>11, <2>1 DEF CloseAll
<1>12. ASSUME NEW a \in Addr, CloseController(a) PROVE Goal
  <2>1. tcp'[b] = "none" <=> tcp[b] = "none"
    BY <1>12, CloseType DEF CloseController
  <2>2. QED
    BY <1>a, <1>12, <2>1 DEF CloseController
<1>13. CASE Restart
  BY <1>13 DEF Restart
<1>14. CASE UNCHANGED vars
  BY <1>a, <1>14 DEF vars
<1>15. QED
  BY <1>1, <1>2, <1>3, <1>4, <1>5, <1>6, <1>7, <1>8, <1>9, <1>10, <1>11,
     <1>12, <1>13, <1>14, ConstantTypes
     DEF Next, Call, Handler

LEMMA HandlerInvariant == Spec => []HandlerInv
<1>1. Init => HandlerInv
  <2> SUFFICES ASSUME Init, NEW a \in Addr
               PROVE  Locals(a) /\ KeepsSession(a) /\ Lives(a)
    BY DEF HandlerInv
  <2>1. pc[a] = "idle" /\ req[a].op = "none" /\ sess[a].kind = "none"
    BY DEF Init, NoSession, NoRequest, SessionOf
  <2>2. QED
    BY <2>1 DEF Locals, KeepsSession, Lives, Saving
<1>2. QED
  BY <1>1, HandlerStep, TypeCorrect, PTL DEF Spec

\* The session a handler was let in with stays in the map until the handler
\* returns: what it looks up later, and the session check of another
\* connection's pair-setup, finds it there.
THEOREM HandlersKeepTheirSession == Spec => []HandlerKeepsSession
<1>1. HandlerInv => HandlerKeepsSession
  BY DEF HandlerInv, KeepsSession, HandlerKeepsSession
<1>2. QED
  BY <1>1, HandlerInvariant, PTL

\* No session outlives its connection, whatever its handler was doing when the
\* connection was closed.
THEOREM SessionsDieWithConnections == Spec => []NoOrphanSession
<1>1. HandlerInv => NoOrphanSession
  BY DEF HandlerInv, Lives, NoOrphanSession
<1>2. QED
  BY <1>1, HandlerInvariant, PTL

-----------------------------------------------------------------------------
(* Pair-setup is exclusive *)

\* The inductive strengthening of SetupExclusive: the later of two connections
\* to reach the session check sees the session of the earlier one.
OneAdmitted == \A a, b \in Addr : Admitted(a) /\ Admitted(b) => a = b

\* A connection is admitted by its session check alone, and only when
\* there is no session of another connection.
LEMMA BecomesAdmitted ==
    ASSUME TypeOK, Next, NEW b \in Addr, Admitted(b)'
    PROVE  \/ Admitted(b)
           \/ /\ UNCHANGED sess
              /\ \A d \in Addr \ {b} : sess[d].kind = "none"
<1> DEFINE Goal == \/ Admitted(b)
                   \/ /\ UNCHANGED sess
                      /\ \A d \in Addr \ {b} : sess[d].kind = "none"
<1> USE DEF TypeOK, Admitted, SetSession, SessionOf, NoSession, Goto, Return,
            NoRequest, At
<1>1. ASSUME NEW a \in Addr, Accept(a) \/ PeerClose(a) \/ ConnStateClosed(a)
      PROVE  Goal
  BY <1>1 DEF Accept, PeerClose, ConnStateClosed
<1>2. ASSUME NEW a \in Addr, NEW m \in SetupMessage, NEW c \in Controller,
             PairSetup(a, m, c)
      PROVE  Goal
  BY <1>2 DEF PairSetup, Begin
<1>3. ASSUME NEW a \in Addr, PairSetupSessions(a) PROVE Goal
  BY <1>3 DEF PairSetupSessions
<1>4. ASSUME NEW a \in Addr,
             PairSetupM1(a) \/ PairSetupM3(a) \/ PairSetupM5(a) \/ PairSetupRefuse(a)
      PROVE  Goal
  BY <1>4 DEF PairSetupM1, PairSetupM3, PairSetupM5, PairSetupRefuse
<1>5. ASSUME NEW a \in Addr, PairVerifyM1(a) \/ PairVerifyUpgrade(a)
      PROVE  Goal
  BY <1>5 DEF PairVerifyM1, PairVerifyUpgrade
<1>6. ASSUME NEW a \in Addr, NEW c \in Controller, NEW p \in Permission,
             PairVerifyM3(a, c) \/ AddPairing(a, c, p) \/ DeletePairing(a, c)
      PROVE  Goal
  BY <1>6 DEF PairVerifyM3, AddPairing, DeletePairing, Begin
<1>7. ASSUME NEW a \in Addr, SaveTruncate(a) \/ SaveWrite(a) \/ SaveFail(a)
      PROVE  Goal
  BY <1>7 DEF SaveTruncate, SaveWrite, SaveFail
<1>8. ASSUME NEW a \in Addr,
             \/ RemoveFile(a) \/ RemoveFails(a) \/ CheckAdmins(a) \/ CloseAll(a)
             \/ DeleteAllPairings(a) \/ CopyConns(a) \/ CloseController(a)
             \/ DeletePairingDone(a)
      PROVE  Goal
  BY <1>8 DEF RemoveFile, RemoveFails, CheckAdmins, CloseAll, DeleteAllPairings,
              CopyConns, CloseController, DeletePairingDone
<1>9. CASE Restart
  BY <1>9 DEF Restart
<1>10. QED
  BY <1>1, <1>2, <1>3, <1>4, <1>5, <1>6, <1>7, <1>8, <1>9, ConstantTypes
     DEF Next, Call, Handler

LEMMA OneAdmittedStep == TypeOK /\ OneAdmitted /\ [Next]_vars => OneAdmitted'
<1> SUFFICES ASSUME TypeOK, OneAdmitted, [Next]_vars,
                    NEW a \in Addr, NEW b \in Addr,
                    Admitted(a)', Admitted(b)', a # b
             PROVE  FALSE
  BY DEF OneAdmitted
<1>1. CASE UNCHANGED vars
  BY <1>1 DEF OneAdmitted, Admitted, vars
<1>2. CASE Next
  <2>1. CASE Admitted(a) /\ Admitted(b)
    BY <2>1 DEF OneAdmitted
  <2>2. CASE ~Admitted(a)
    <3>1. sess'[b].kind = "none"
      BY <1>2, <2>2, BecomesAdmitted
    <3>2. QED
      BY <3>1 DEF Admitted
  <2>3. CASE ~Admitted(b)
    <3>1. sess'[a].kind = "none"
      BY <1>2, <2>3, BecomesAdmitted
    <3>2. QED
      BY <3>1 DEF Admitted
  <2>4. QED
    BY <2>1, <2>2, <2>3
<1>3. QED
  BY <1>1, <1>2

\* However many connections race, and in whatever order each of them sends M1,
\* M3 and M5, at most one gets past M3 of pair-setup or saves what it pairs.
THEOREM SetupIsExclusive == Spec => []SetupExclusive
<1>1. Init => OneAdmitted
  BY DEF Init, OneAdmitted, Admitted, NoSession, SessionOf
<1>2. HandlerInv /\ OneAdmitted => SetupExclusive
  BY DEF HandlerInv, KeepsSession, Saving, OneAdmitted, Admitted, SetupExclusive
<1>3. QED
  BY <1>1, <1>2, OneAdmittedStep, TypeCorrect, HandlerInvariant, PTL DEF Spec

-----------------------------------------------------------------------------
(* A pairing file is unreadable only while a handler writes it *)

\* The inductive strengthening of TornOnlyWhileWriting: only a handler that has
\* truncated its file can have lost it.
WriteInv ==
    /\ \A a \in Addr : a \in unlinked => pc[a] = "write"
    /\ TornOnlyWhileWriting

LEMMA WriteStep == TypeOK /\ WriteInv /\ [Next]_vars => WriteInv'
<1> SUFFICES ASSUME TypeOK, WriteInv, [Next]_vars PROVE WriteInv'
  OBVIOUS
<1> USE DEF TypeOK, WriteInv, TornOnlyWhileWriting, Writing, Goto, Return, At
<1>1. ASSUME NEW a \in Addr, Accept(a) \/ PeerClose(a) \/ ConnStateClosed(a)
      PROVE  WriteInv'
  BY <1>1 DEF Accept, PeerClose, ConnStateClosed
<1>2. ASSUME NEW a \in Addr, NEW m \in SetupMessage, NEW c \in Controller,
             PairSetup(a, m, c)
      PROVE  WriteInv'
  BY <1>2 DEF PairSetup, Begin, Serving
<1>3. ASSUME NEW a \in Addr, PairSetupSessions(a) PROVE WriteInv'
  BY <1>3 DEF PairSetupSessions
<1>4. ASSUME NEW a \in Addr,
             PairSetupM1(a) \/ PairSetupM3(a) \/ PairSetupM5(a) \/ PairSetupRefuse(a)
      PROVE  WriteInv'
  BY <1>4 DEF PairSetupM1, PairSetupM3, PairSetupM5, PairSetupRefuse
<1>5. ASSUME NEW a \in Addr, PairVerifyM1(a) \/ PairVerifyUpgrade(a)
      PROVE  WriteInv'
  BY <1>5 DEF PairVerifyM1, PairVerifyUpgrade
<1>6. ASSUME NEW a \in Addr, NEW c \in Controller, NEW p \in Permission,
             PairVerifyM3(a, c) \/ AddPairing(a, c, p) \/ DeletePairing(a, c)
      PROVE  WriteInv'
  BY <1>6 DEF PairVerifyM3, AddPairing, DeletePairing, Begin, Serving
<1>7. ASSUME NEW a \in Addr, SaveTruncate(a) PROVE WriteInv'
  BY <1>7 DEF SaveTruncate
<1>8. ASSUME NEW a \in Addr, SaveWrite(a) PROVE WriteInv'
  <2>1. req[a].perm \in Permission
    BY DEF Request
  <2>2. QED
    BY <1>8, <2>1 DEF SaveWrite, Permission
<1>9. ASSUME NEW a \in Addr, SaveFail(a) PROVE WriteInv'
  <2>1. faults' # 0
    BY <1>9, MaxFaultsAssumption DEF SaveFail
  <2>2. QED
    BY <1>9, <2>1 DEF SaveFail
<1>10. ASSUME NEW c, Unlink(c), UNCHANGED <<req, faults>>,
              \A b \in Addr : pc[b] = "write" <=> pc'[b] = "write"
       PROVE  WriteInv'
  BY <1>10 DEF Unlink
<1>11. ASSUME NEW a \in Addr, RemoveFile(a) PROVE WriteInv'
  BY <1>10, <1>11 DEF RemoveFile
<1>12. ASSUME NEW a \in Addr, DeleteAllPairings(a) PROVE WriteInv'
  BY <1>10, <1>12 DEF DeleteAllPairings
<1>13. ASSUME NEW a \in Addr,
              \/ RemoveFails(a) \/ CheckAdmins(a) \/ CloseAll(a)
              \/ CopyConns(a) \/ CloseController(a) \/ DeletePairingDone(a)
       PROVE  WriteInv'
  BY <1>13 DEF RemoveFails, CheckAdmins, CloseAll, CopyConns, CloseController,
               DeletePairingDone
<1>14. CASE Restart
  <2>1. faults' # 0
    BY <1>14, MaxFaultsAssumption DEF Restart
  <2>2. QED
    BY <1>14, <2>1 DEF Restart
<1>15. CASE UNCHANGED vars
  BY <1>15 DEF vars
<1>16. QED
  BY <1>1, <1>2, <1>3, <1>4, <1>5, <1>6, <1>7, <1>8, <1>9, <1>11, <1>12,
     <1>13, <1>14, <1>15, ConstantTypes
     DEF Next, Call, Handler

\* Without failures an unreadable pairing is about to become readable again.
THEOREM TornIsTransient == Spec => []TornOnlyWhileWriting
<1>1. Init => WriteInv
  BY DEF Init, WriteInv, TornOnlyWhileWriting, Permission
<1>2. WriteInv => TornOnlyWhileWriting
  BY DEF WriteInv
<1>3. QED
  BY <1>1, <1>2, WriteStep, TypeCorrect, PTL DEF Spec

-----------------------------------------------------------------------------
(* PairingServer implements PairingRegistry: every step of a handler is a  *)
(* step of the registry or changes neither pairings nor roles nor claims.  *)

\* A pair-setup saves the pairing of an admin.
SetupSavesAdmin == \A a \in Addr : req[a].op = "M5" => req[a].perm = "admin"

LEMMA SetupSavesAdminStep ==
    TypeOK /\ SetupSavesAdmin /\ [Next]_vars => SetupSavesAdmin'
<1> SUFFICES ASSUME TypeOK, SetupSavesAdmin, [Next]_vars, NEW b \in Addr,
                    req'[b].op = "M5"
             PROVE  req'[b].perm = "admin"
  BY DEF SetupSavesAdmin
<1> DEFINE Goal == req'[b].perm = "admin"
<1>a. req[b].op = "M5" => req[b].perm = "admin"
  BY DEF SetupSavesAdmin
<1> USE DEF TypeOK, Goto, Return, NoRequest, Begin
<1>1. ASSUME NEW a \in Addr, NEW m \in SetupMessage, NEW c \in Controller,
             PairSetup(a, m, c)
      PROVE  Goal
  BY <1>1, <1>a DEF PairSetup
<1>2. ASSUME NEW a \in Addr, NEW c \in Controller, NEW p \in Permission,
             PairVerifyM3(a, c) \/ AddPairing(a, c, p) \/ DeletePairing(a, c)
      PROVE  Goal
  BY <1>2, <1>a DEF PairVerifyM3, AddPairing, DeletePairing
<1>3. ASSUME NEW a \in Addr,
             \/ PairSetupSessions(a) \/ PairSetupM1(a) \/ PairSetupM3(a)
             \/ PairSetupM5(a) \/ PairSetupRefuse(a) \/ PairVerifyUpgrade(a)
             \/ SaveTruncate(a) \/ SaveWrite(a) \/ SaveFail(a)
      PROVE  Goal
  BY <1>3, <1>a DEF PairSetupSessions, PairSetupM1, PairSetupM3, PairSetupM5,
                    PairSetupRefuse, PairVerifyUpgrade, SaveTruncate, SaveWrite,
                    SaveFail
<1>4. ASSUME NEW a \in Addr,
             \/ RemoveFile(a) \/ RemoveFails(a) \/ CheckAdmins(a) \/ CloseAll(a)
             \/ DeleteAllPairings(a) \/ CopyConns(a) \/ CloseController(a)
             \/ DeletePairingDone(a)
      PROVE  Goal
  BY <1>4, <1>a DEF RemoveFile, RemoveFails, CheckAdmins, CloseAll,
                    DeleteAllPairings, CopyConns, CloseController,
                    DeletePairingDone
<1>5. CASE UNCHANGED req
  BY <1>5, <1>a
<1>6. CASE Restart
  BY <1>6 DEF Restart
<1>7. QED
  BY <1>1, <1>2, <1>3, <1>4, <1>5, <1>6, ConstantTypes
     DEF Next, Call, Handler, Accept, PeerClose, ConnStateClosed, PairVerifyM1, vars

-----------------------------------------------------------------------------
(* The refinement mapping *)

\* What the abstract steps need to know of the concrete state.
RefinementInv == TypeOK /\ HandlerInv /\ OneAdmitted /\ SetupSavesAdmin

\* What a connection does, or what its handler does, touches the session and
\* the handler of no other connection: no role and no claim but its own.
LEMMA OwnRole ==
    ASSUME TypeOK, NEW a \in Addr,
           Accept(a) \/ PeerClose(a) \/ ConnStateClosed(a) \/ Call(a) \/ Handler(a)
    PROVE  /\ role' = [role EXCEPT ![a] = role'[a]]
           /\ claim' = [claim EXCEPT ![a] = claim'[a]]
<1> DEFINE Same == \A b \in Addr \ {a} : /\ sess'[b] = sess[b]
                                         /\ pc'[b] = pc[b]
                                         /\ req'[b] = req[b]
<1> USE DEF TypeOK, SetSession, Goto, Return, Begin
<1>1. ASSUME Accept(a) \/ PeerClose(a) \/ ConnStateClosed(a) PROVE Same
  BY <1>1 DEF Accept, PeerClose, ConnStateClosed
<1>2. ASSUME Call(a) PROVE Same
  BY <1>2 DEF Call, PairSetup, PairVerifyM1, PairVerifyM3, AddPairing, DeletePairing
<1>3. ASSUME Handler(a) PROVE Same
  <2>1. ASSUME \/ PairSetupSessions(a) \/ PairSetupM1(a) \/ PairSetupM3(a)
               \/ PairSetupM5(a) \/ PairSetupRefuse(a) \/ PairVerifyUpgrade(a)
               \/ SaveTruncate(a) \/ SaveWrite(a) \/ SaveFail(a)
        PROVE  Same
    BY <2>1 DEF PairSetupSessions, PairSetupM1, PairSetupM3, PairSetupM5,
                PairSetupRefuse, PairVerifyUpgrade, SaveTruncate, SaveWrite, SaveFail
  <2>2. ASSUME \/ RemoveFile(a) \/ RemoveFails(a) \/ CheckAdmins(a)
               \/ CloseAll(a) \/ DeleteAllPairings(a) \/ CopyConns(a)
               \/ CloseController(a) \/ DeletePairingDone(a)
        PROVE  Same
    BY <2>2 DEF RemoveFile, RemoveFails, CheckAdmins, CloseAll, DeleteAllPairings,
                CopyConns, CloseController, DeletePairingDone
  <2>3. QED
    BY <1>3, <2>1, <2>2 DEF Handler
<1>4. Same
  BY <1>1, <1>2, <1>3
<1>5. \A b \in Addr \ {a} : role'[b] = role[b] /\ claim'[b] = claim[b]
  BY <1>4 DEF role, claim, IsAuthorized, Admitted, At
<1>6. /\ role = [b \in Addr |-> role[b]] /\ role' = [b \in Addr |-> role'[b]]
      /\ claim = [b \in Addr |-> claim[b]] /\ claim' = [b \in Addr |-> claim'[b]]
  BY DEF role, claim
<1>7. QED
  BY <1>5, <1>6

\* The role of one connection.
LEMMA RoleOf ==
    ASSUME NEW a \in Addr
    PROVE  /\ IsAuthorized(a) => role[a] = sess[a]
           /\ ~IsAuthorized(a) /\ Admitted(a)
                 => role[a] = Registry!Role("setup", "nobody", "user")
           /\ ~IsAuthorized(a) /\ ~Admitted(a) => role[a] = Registry!None
           /\ Admitted(a) => ~IsAuthorized(a)
  BY DEF role, IsAuthorized, Admitted, SessionOf, NoSession, Nobody,
         Registry!None, Registry!Role

\* A write or a removal for a request that names no controller is none.
LEMMA OnlyControllers ==
    ASSUME TypeOK, NEW c, c \notin Controller, NEW p
    PROVE  [store EXCEPT ![c] = p] = store
  BY DEF TypeOK

LEMMA AdminMapped ==
    ASSUME NEW a \in Addr
    PROVE  IsAdmin(a) => Registry!IsAdmin(a)
  BY RoleOf DEF IsAdmin, IsAuthorized, Registry!IsAdmin

-----------------------------------------------------------------------------
(* Every step of the server is one of the registry, or none *)

Stutter == UNCHANGED <<store, role, claim>>

\* A step of a that leaves its session alone: the role stays, unless a is
\* admitted to pair-setup by the step or is no longer.
LEMMA SameSession ==
    ASSUME NEW a \in Addr, sess'[a] = sess[a], UNCHANGED store,
           role' = [role EXCEPT ![a] = role'[a]], UNCHANGED claim
    PROVE  /\ (Admitted(a) <=> Admitted(a)') => Stutter
           /\ Admitted(a) /\ ~Admitted(a)' => Registry!Leave(a)
<1>1. IsAuthorized(a)' <=> IsAuthorized(a)
  BY DEF IsAuthorized
<1>2. (Admitted(a) <=> Admitted(a)') => role'[a] = role[a]
  BY <1>1 DEF role
<1>3. role = [b \in Addr |-> role[b]]
  BY DEF role
<1>4. (Admitted(a) <=> Admitted(a)') => UNCHANGED role
  BY <1>2, <1>3
<1>5. Admitted(a) /\ ~Admitted(a)' => role'[a] = Registry!None
  BY <1>1 DEF role, Admitted, IsAuthorized, SessionOf, NoSession, Nobody,
              Registry!None, Registry!Role
<1>6. QED
  BY <1>4, <1>5 DEF Stutter, Registry!Leave

\* Steps that touch neither a pairing, nor a session, nor a pair-verify, and
\* neither admit to pair-setup nor end one.
LEMMA LocalSteps ==
    ASSUME TypeOK, HandlerInv, NEW a \in Addr,
           \/ Accept(a) \/ PeerClose(a)
           \/ \E m \in SetupMessage, c \in Controller : PairSetup(a, m, c)
           \/ PairSetupM5(a)
           \/ \E c \in Controller, p \in Permission : AddPairing(a, c, p)
           \/ \E c \in Controller : DeletePairing(a, c)
           \/ RemoveFails(a) \/ CheckAdmins(a) \/ CloseAll(a)
           \/ CopyConns(a) \/ CloseController(a) \/ DeletePairingDone(a)
    PROVE  Stutter
<1>1. UNCHANGED <<store, sess>>
  BY DEF Accept, PeerClose, PairSetup, PairSetupM5, AddPairing, DeletePairing,
         RemoveFails, CheckAdmins, CloseAll, CopyConns, CloseController,
         DeletePairingDone
<1>2. role' = [role EXCEPT ![a] = role'[a]]
  BY OwnRole DEF Call, Handler
<1>3. \A b \in Addr : /\ pc[b] = "upgrade" <=> pc'[b] = "upgrade"
                      /\ pc[b] = "upgrade" => req'[b] = req[b]
  BY DEF TypeOK, Goto, Return, Begin, At, Serving,
         Accept, PeerClose, PairSetup, PairSetupM5, AddPairing, DeletePairing,
         RemoveFails, CheckAdmins, CloseAll, CopyConns, CloseController,
         DeletePairingDone
<1>4. UNCHANGED claim
  BY <1>3 DEF claim, At
<1>5. Admitted(a) <=> Admitted(a)'
  <2>1. CASE \/ Accept(a) \/ PeerClose(a) \/ CloseController(a)
    BY <2>1 DEF Admitted, Accept, PeerClose, CloseController
  <2>2. CASE \/ \E m \in SetupMessage, c \in Controller : PairSetup(a, m, c)
             \/ PairSetupM5(a)
             \/ \E c \in Controller, p \in Permission : AddPairing(a, c, p)
             \/ \E c \in Controller : DeletePairing(a, c)
    BY <2>2 DEF TypeOK, Admitted, Goto, Begin, At, Serving, PairSetup, PairSetupM5,
                AddPairing, DeletePairing
  <2>3. CASE \/ RemoveFails(a) \/ CheckAdmins(a) \/ CloseAll(a)
             \/ CopyConns(a) \/ DeletePairingDone(a)
    BY <2>3 DEF TypeOK, Admitted, HandlerInv, Locals, Goto, Return, NoRequest, At,
                RemoveFails, CheckAdmins, CloseAll, CopyConns, DeletePairingDone
  <2>4. QED
    BY <2>1, <2>2, <2>3
<1>6. QED
  BY <1>1, <1>2, <1>4, <1>5, SameSession

\* A step after which the session of a is that of no controller takes its role.
LEMMA LeaveSteps ==
    ASSUME TypeOK, HandlerInv, NEW a \in Addr,
           ConnStateClosed(a) \/ PairSetupM1(a) \/ PairVerifyM1(a)
    PROVE  Registry!Leave(a)
<1>1. role' = [role EXCEPT ![a] = role'[a]]
  BY OwnRole DEF Call, Handler
<1>2. sess'[a].kind \in {"none", "setup", "verify"} /\ pc'[a] = "idle"
  BY DEF TypeOK, At, Return, Serving, SetSession, SessionOf, NoSession,
         ConnStateClosed, PairSetupM1, PairVerifyM1
<1>3. role'[a] = Registry!None
  BY <1>2 DEF role, IsAuthorized, Admitted, SessionOf, NoSession, Nobody,
              Registry!None, Registry!Role
<1>4. UNCHANGED claim
  BY DEF TypeOK, claim, At, Return, Serving, ConnStateClosed, PairSetupM1,
         PairVerifyM1
<1>5. QED
  BY <1>1, <1>3, <1>4 DEF Registry!Leave, ConnStateClosed, PairSetupM1, PairVerifyM1

\* The session check admits one connection at a time; what M3 agrees on is no
\* news to the registry; a refusal, or a write that fails, ends an admission
\* that M3 has not made lasting.
LEMMA SetupSteps ==
    ASSUME TypeOK, HandlerInv, NEW a \in Addr,
           PairSetupSessions(a) \/ PairSetupM3(a) \/ PairSetupRefuse(a) \/ SaveFail(a)
    PROVE  Stutter \/ Registry!Admit(a) \/ Registry!Leave(a)
<1>1. role' = [role EXCEPT ![a] = role'[a]]
  BY OwnRole DEF Handler
<1>2. UNCHANGED claim
  BY DEF TypeOK, claim, At, Goto, Return, PairSetupSessions, PairSetupM3,
         PairSetupRefuse, SaveFail
<1>3. UNCHANGED store
  BY DEF PairSetupSessions, PairSetupM3, PairSetupRefuse, SaveFail
<1>4. CASE PairSetupM3(a)
  <2>1. Admitted(a) /\ Admitted(a)'
    BY <1>4 DEF TypeOK, Admitted, At, SetSession, SessionOf, PairSetupM3
  <2>2. role'[a] = role[a]
    BY <2>1 DEF role, Admitted, IsAuthorized
  <2>3. role = [b \in Addr |-> role[b]]
    BY DEF role
  <2>4. QED
    BY <1>1, <1>2, <1>3, <2>2, <2>3 DEF Stutter
<1>5. CASE PairSetupRefuse(a) \/ SaveFail(a)
  <2>1. UNCHANGED sess
    BY <1>5 DEF PairSetupRefuse, SaveFail
  <2>2. Admitted(a)' => Admitted(a)
    BY <1>5, <2>1 DEF TypeOK, Admitted, Return, PairSetupRefuse, SaveFail
  <2>3. QED
    BY <1>1, <1>2, <1>3, <2>1, <2>2, SameSession
<1>6. CASE PairSetupSessions(a)
  <2>1. UNCHANGED sess
    BY <1>6 DEF PairSetupSessions
  <2>2. Admitted(a) => Admitted(a)'
    BY <1>6 DEF Admitted, At, PairSetupSessions
  <2>3. CASE ~Admitted(a) /\ Admitted(a)'
    <3>1. sess[a].kind = "setup" /\ pc'[a] = "step"
      BY <1>6, <2>1, <2>3 DEF TypeOK, Admitted, At, Goto, Return, PairSetupSessions
    <3>2. \A b \in Addr \ {a} : sess[b].kind = "none"
      BY <1>6, <3>1 DEF TypeOK, Goto, Return, PairSetupSessions
    <3>3. \A b \in Addr \ {a} : role[b].kind # "setup"
      BY <3>2 DEF role, IsAuthorized, Admitted, SessionOf, NoSession
    <3>4. role'[a] = Registry!Role("setup", "nobody", "user")
      BY <2>1, <2>3, <3>1 DEF role, IsAuthorized, SessionOf, Nobody, Registry!Role
    <3>5. Registry!Admit(a)
      BY <1>1, <1>2, <1>3, <3>3, <3>4 DEF Registry!Admit
    <3>6. QED
      BY <3>5
  <2>4. QED
    BY <1>1, <1>2, <1>3, <2>1, <2>2, <2>3, SameSession
<1>7. QED
  BY <1>4, <1>5, <1>6

\* A pair-verify reads the pairing in one step and uses what it read in another.
LEMMA VerifySteps ==
    ASSUME TypeOK, NEW a \in Addr
    PROVE  /\ \A c \in Controller : PairVerifyM3(a, c) => Registry!Claim(a, c)
           /\ PairVerifyUpgrade(a) => Registry!Enter(a)
<1>1. ASSUME NEW c \in Controller, PairVerifyM3(a, c)
      PROVE  Registry!Claim(a, c)
  <2>1. claim' = [claim EXCEPT ![a] = Registry!Role("session", c, store[c])]
    BY <1>1 DEF TypeOK, claim, At, Begin, PairVerifyM3, SessionOf, Registry!Role
  <2>2. UNCHANGED role
    <3>1. \A b \in Addr : Admitted(b)' <=> Admitted(b)
      BY <1>1 DEF TypeOK, Admitted, Begin, PairVerifyM3
    <3>2. QED
      BY <1>1, <3>1 DEF role, IsAuthorized, PairVerifyM3
  <2>3. QED
    BY <1>1, <2>1, <2>2 DEF Registry!Claim, Registry!Permission, PairVerifyM3,
                            Readable, Permission
<1>2. ASSUME PairVerifyUpgrade(a) PROVE Registry!Enter(a)
  <2>1. claim[a] = SessionOf("session", req[a].who, req[a].perm)
    BY <1>2 DEF claim, PairVerifyUpgrade, At
  <2>2. claim[a] # Registry!None
    BY <2>1 DEF SessionOf, Registry!None, Registry!Role
  <2>3. role' = [role EXCEPT ![a] = claim[a]]
    <3>1. role' = [role EXCEPT ![a] = role'[a]]
      BY <1>2, OwnRole DEF Handler
    <3>2. role'[a] = claim[a]
      BY <1>2, <2>1 DEF TypeOK, role, IsAuthorized, PairVerifyUpgrade, SetSession,
                        SessionOf
    <3>3. QED
      BY <3>1, <3>2
  <2>4. claim' = [claim EXCEPT ![a] = Registry!None]
    BY <1>2 DEF TypeOK, claim, PairVerifyUpgrade, At, Return, NoSession,
                SessionOf, Nobody, Registry!None, Registry!Role
  <2>5. QED
    BY <1>2, <2>2, <2>3, <2>4 DEF Registry!Enter, PairVerifyUpgrade
<1>3. QED
  BY <1>1, <1>2

\* Who writes a pairing is an admin, or is the one connection admitted to
\* pair-setup and writes the pairing of an admin.
LEMMA WriteSteps ==
    ASSUME TypeOK, HandlerInv, SetupSavesAdmin, NEW a \in Addr,
           SaveTruncate(a) \/ SaveWrite(a)
    PROVE  \/ Stutter \/ Registry!Leave(a)
           \/ \E c \in Controller, p \in Permission \cup {"torn"} :
                 Registry!Write(a, c, p) \/ Registry!Pair(a, c, p)
<1> DEFINE S(p) == store' = [store EXCEPT ![req[a].who] = p]
<1>1. role' = [role EXCEPT ![a] = role'[a]]
  BY OwnRole DEF Handler
<1>2. UNCHANGED claim
  BY DEF TypeOK, claim, At, Goto, Return, SaveTruncate, SaveWrite
<1>3. UNCHANGED sess /\ pc[a] \in {"truncate", "write"}
  BY DEF SaveTruncate, SaveWrite, At
<1>4. UNCHANGED store \/ \E p \in {req[a].perm, "torn"} : S(p)
  BY DEF SaveTruncate, SaveWrite
<1>5. UNCHANGED store \/ req[a].who \in Controller
  BY <1>4, OnlyControllers
<1>6. req[a].perm \in Permission
  BY DEF TypeOK, Request
<1>7. req[a].op \in {"M5", "add"}
  BY <1>3 DEF HandlerInv, Locals
<1>8. CASE req[a].op = "add"
  <2>1. IsAdmin(a)
    BY <1>8 DEF HandlerInv, KeepsSession
  <2>2. Registry!IsAdmin(a)
    BY <2>1, AdminMapped
  <2>3. ~Admitted(a) /\ ~Admitted(a)'
    BY <1>3, <2>1 DEF Admitted, IsAdmin, IsAuthorized
  <2>4. role'[a] = role[a] /\ role = [b \in Addr |-> role[b]]
    BY <1>3, <2>3 DEF role, IsAuthorized
  <2>5. UNCHANGED role
    BY <1>1, <2>4
  <2>6. ASSUME req[a].who \in Controller, NEW p \in {req[a].perm, "torn"}, S(p)
        PROVE  Registry!Write(a, req[a].who, p)
    BY <1>2, <2>2, <2>5, <2>6 DEF Registry!Write
  <2>7. QED
    BY <1>2, <1>4, <1>5, <1>6, <2>5, <2>6 DEF Stutter
<1>9. CASE req[a].op = "M5"
  <2>1. req[a].perm = "admin" /\ Admitted(a)
    BY <1>3, <1>9 DEF SetupSavesAdmin, HandlerInv, KeepsSession, Saving, Admitted
  <2>2. role[a].kind = "setup"
    BY <2>1, RoleOf DEF Registry!Role
  <2>3. role' \in {role, [role EXCEPT ![a] = Registry!None]}
    <3>1. role'[a] \in {role[a], Registry!None}
      BY <1>3, <2>1 DEF role, IsAuthorized, Admitted, SessionOf, NoSession, Nobody,
                        Registry!None, Registry!Role
    <3>2. role = [b \in Addr |-> role[b]]
      BY DEF role
    <3>3. QED
      BY <1>1, <3>1, <3>2
  <2>4. ASSUME req[a].who \in Controller, NEW p \in {req[a].perm, "torn"}, S(p)
        PROVE  Registry!Pair(a, req[a].who, p)
    BY <1>2, <2>1, <2>2, <2>3, <2>4 DEF Registry!Pair
  <2>5. UNCHANGED store => Stutter \/ Registry!Leave(a)
    BY <1>2, <2>3 DEF Stutter, Registry!Leave
  <2>6. QED
    BY <1>4, <1>5, <1>6, <2>4, <2>5
<1>10. QED
  BY <1>7, <1>8, <1>9

\* A pairing is removed for an admin, its own pairing or all of them.
LEMMA RemoveSteps ==
    ASSUME TypeOK, HandlerInv, NEW a \in Addr, RemoveFile(a) \/ DeleteAllPairings(a)
    PROVE  Stutter \/ \E c \in Controller : Registry!Remove(a, c)
<1>1. IsAdmin(a) /\ Registry!IsAdmin(a)
  <2>1. req[a].op = "delete"
    BY DEF HandlerInv, Locals, RemoveFile, DeleteAllPairings, At
  <2>2. QED
    BY <2>1, AdminMapped DEF HandlerInv, KeepsSession
<1>2. UNCHANGED role /\ UNCHANGED claim
  <2>1. UNCHANGED sess
    BY DEF RemoveFile, DeleteAllPairings
  <2>2. role' = [role EXCEPT ![a] = role'[a]] /\ role = [b \in Addr |-> role[b]]
    BY OwnRole DEF Handler, role
  <2>3. role'[a] = role[a]
    BY <1>1, <2>1 DEF role, IsAdmin, IsAuthorized
  <2>4. UNCHANGED claim
    BY DEF TypeOK, claim, At, Goto, RemoveFile, DeleteAllPairings
  <2>5. QED
    BY <2>2, <2>3, <2>4
<1>3. UNCHANGED store \/ \E c : store' = [store EXCEPT ![c] = "none"]
  BY DEF RemoveFile, DeleteAllPairings, Unlink
<1>4. ASSUME NEW c \in Controller, store' = [store EXCEPT ![c] = "none"]
      PROVE  Registry!Remove(a, c)
  BY <1>1, <1>2, <1>4 DEF Registry!Remove
<1>5. QED
  BY <1>2, <1>3, <1>4, OnlyControllers DEF Stutter

\* Every step of a handler is a step of the registry or changes nothing that
\* the registry speaks of.
LEMMA RegistryStep == RefinementInv /\ [Next]_vars => [Registry!Next]_(Registry!vars)
<1> SUFFICES ASSUME RefinementInv, [Next]_vars
             PROVE  Stutter \/ Registry!Next
  BY DEF Stutter, Registry!vars
<1> USE DEF RefinementInv
<1>1. ASSUME NEW a \in Addr, Call(a) PROVE Stutter \/ Registry!Next
  BY <1>1, LocalSteps, LeaveSteps, VerifySteps DEF Call, Registry!Next
<1>2. ASSUME NEW a \in Addr, Accept(a) \/ PeerClose(a) \/ ConnStateClosed(a)
      PROVE  Stutter \/ Registry!Next
  BY <1>2, LocalSteps, LeaveSteps DEF Registry!Next
<1>3. ASSUME NEW a \in Addr, Handler(a) PROVE Stutter \/ Registry!Next
  <2>1. CASE SaveTruncate(a) \/ SaveWrite(a)
    BY <2>1, WriteSteps DEF Registry!Next, Registry!Permission, Permission
  <2>2. CASE RemoveFile(a) \/ DeleteAllPairings(a)
    BY <2>2, RemoveSteps DEF Registry!Next
  <2>3. CASE PairSetupM1(a) \/ PairVerifyUpgrade(a)
    BY <2>3, LeaveSteps, VerifySteps DEF Registry!Next
  <2>4. CASE \/ PairSetupSessions(a) \/ PairSetupM3(a)
             \/ PairSetupRefuse(a) \/ SaveFail(a)
    BY <2>4, SetupSteps DEF Registry!Next
  <2>5. QED
    BY <1>3, <2>1, <2>2, <2>3, <2>4, LocalSteps DEF Handler
<1>4. CASE Restart
  <2>1. Registry!Restart
    BY <1>4 DEF Restart, Registry!Restart, role, claim, At, IsAuthorized, Admitted,
                NoSession, SessionOf, Nobody, Registry!None, Registry!Role
  <2>2. QED
    BY <2>1 DEF Registry!Next
<1>5. CASE UNCHANGED vars
  BY <1>5 DEF vars, Stutter, role, claim, At, IsAuthorized, Admitted
<1>6. QED
  BY <1>1, <1>2, <1>3, <1>4, <1>5 DEF Next

\* Whoever connects, verifies, pairs or is removed meanwhile: every access comes
\* from a pairing that was there, and every change of the pairings from an admin
\* or from the one connection that the session check admits to pair-setup.
THEOREM ServerImplementsRegistry == Spec => ImplementsRegistry
<1>1. Init => RefinementInv
  <2> SUFFICES ASSUME Init PROVE RefinementInv
    OBVIOUS
  <2>1. TypeOK
    BY ConstantTypes, MaxFaultsAssumption DEF Init, TypeOK, PC
  <2>2. \A a \in Addr : /\ pc[a] = "idle" /\ req[a].op = "none"
                        /\ sess[a].kind = "none"
    BY DEF Init, NoSession, NoRequest, SessionOf
  <2>3. QED
    BY <2>1, <2>2 DEF RefinementInv, HandlerInv, Locals, KeepsSession, Lives, Saving,
                      OneAdmitted, Admitted, SetupSavesAdmin
<1>2. Init => Registry!Init
  BY DEF Init, Registry!Init, Registry!Permission, Permission, role, claim, At,
         IsAuthorized, Admitted, NoSession, SessionOf, Nobody, Registry!None, Registry!Role
<1>3. RefinementInv /\ [Next]_vars => RefinementInv'
  BY TypeStep, HandlerStep, OneAdmittedStep, SetupSavesAdminStep DEF RefinementInv
<1>4. QED
  BY <1>1, <1>2, <1>3, RegistryStep, PTL
     DEF Spec, ImplementsRegistry, Registry!Spec

=============================================================================
