----------------------- MODULE CharacteristicsProofs -----------------------
(***************************************************************************)
(* Proofs about Characteristics, for any number of connections, goroutines *)
(* of the host, characteristics and values.                                *)
(***************************************************************************)
EXTENDS Characteristics, TLAPS

-----------------------------------------------------------------------------
(* Types *)

\* The entry an actor works on: setValue has a value, everything else at least
\* a characteristic.
EntryInv ==
    \A t \in Actor :
        /\ pc[t] \in {"read", "set"} => cur[t].new \in Value
        /\ pc[t] \notin {"idle", "entries"} => cur[t].c \in Char

TypeInv == TypeOK /\ EntryInv

LEMMA SetValueReturnsType ==
    ASSUME TypeInv, NEW t \in Actor, SetValueReturns(t), cur[t].c \in Char
    PROVE  /\ pc' \in [Actor -> PC]
           /\ cur' \in [Actor -> Entry]
           /\ EntryInv'
<1>1. pc' \in [Actor -> PC]
  BY DEF SetValueReturns, Goto, TypeInv, TypeOK, PC
<1>2. cur' \in [Actor -> Entry]
  BY DEF SetValueReturns, TypeInv, TypeOK, Entry, NoEntry
<1>3. EntryInv'
  BY DEF SetValueReturns, Goto, TypeInv, TypeOK, EntryInv, Entry, PC
<1>4. QED
  BY <1>1, <1>2, <1>3

LEMMA TypeStep == TypeInv /\ [Next]_vars => TypeInv'
<1> SUFFICES ASSUME TypeInv, [Next]_vars PROVE TypeInv'
  OBVIOUS
<1>a. \A a \in Addr : a \in Actor
  BY DEF Actor
<1>h. \A h \in Host : h \in Actor
  BY DEF Actor
<1>p. \A x \in {"idle", "entries", "read", "set", "notify", "conns", "send",
                "event"} : x \in PC
  BY DEF PC
<1>g. ASSUME NEW t \in Actor, NEW to \in PC, Goto(t, to)
      PROVE  pc' \in [Actor -> PC]
  BY <1>g DEF Goto, TypeInv, TypeOK
<1>1. ASSUME NEW a \in Addr, Connection(a) PROVE TypeInv'
  BY <1>1 DEF Connection, Accept, Verify, PeerClose, ConnStateClosed, Forget,
              TypeInv, TypeOK, EntryInv
<1>2. ASSUME NEW a \in Addr, Prepare(a) \/ DeadlinePasses(a) PROVE TypeInv'
  BY <1>2 DEF Prepare, DeadlinePasses, TypeInv, TypeOK, EntryInv
<1>3. ASSUME NEW a \in Addr, PutBegin(a) PROVE TypeInv'
  BY <1>3, <1>a, <1>p, <1>g DEF PutBegin, Goto, TypeInv, TypeOK, EntryInv
<1>4. ASSUME NEW a \in Addr, PutEntry(a) PROVE TypeInv'
  <2>1. PICK c \in Char, v \in Value \cup {NoValue} :
           /\ cur' = [cur EXCEPT ![a] = [c |-> c, new |-> v]]
           /\ Goto(a, IF v # NoValue /\ InTime(a, c) THEN "read" ELSE "event")
    BY <1>4 DEF PutEntry
  <2>2. pc' \in [Actor -> PC]
    BY <2>1, <1>a, <1>p, <1>g
  <2>3. cur' \in [Actor -> Entry]
    BY <2>1, <1>a DEF TypeInv, TypeOK, Entry
  <2>4. EntryInv'
    BY <2>1, <1>a DEF TypeInv, TypeOK, EntryInv, Goto, Entry
  <2>5. QED
    BY <1>4, <2>2, <2>3, <2>4 DEF PutEntry, TypeInv, TypeOK
<1>5. ASSUME NEW a \in Addr, PutPanics(a) \/ PutEnd(a) PROVE TypeInv'
  <2>1. pc' \in [Actor -> PC]
    BY <1>5, <1>a, <1>p, <1>g DEF PutPanics, PutEnd
  <2>2. EntryInv'
    BY <1>5, <1>a DEF PutPanics, PutEnd, Goto, TypeInv, TypeOK, EntryInv
  <2>3. CASE PutPanics(a)
    BY <2>1, <2>2, <2>3 DEF PutPanics, Forget, TypeInv, TypeOK
  <2>4. CASE PutEnd(a)
    BY <2>1, <2>2, <2>4 DEF PutEnd, TypeInv, TypeOK
  <2>5. QED
    BY <1>5, <2>3, <2>4
<1>6. ASSUME NEW a \in Addr, SetEvent(a) PROVE TypeInv'
  <2>1. pc' \in [Actor -> PC]
    BY <1>6, <1>a, <1>p, <1>g DEF SetEvent
  <2>2. cur' \in [Actor -> Entry] /\ EntryInv'
    BY <1>6, <1>a DEF SetEvent, TypeInv, TypeOK, EntryInv, Goto, Entry, NoEntry
  <2>3. events' \in [Char -> SUBSET Addr] /\ stale' \in [Char -> SUBSET Addr]
    BY <1>6 DEF SetEvent, TypeInv, TypeOK
  <2>4. QED
    BY <1>6, <2>1, <2>2, <2>3 DEF SetEvent, TypeInv, TypeOK
<1>7. ASSUME NEW h \in Host, HostSetValue(h) PROVE TypeInv'
  <2>1. PICK c \in Char, v \in Value : cur' = [cur EXCEPT ![h] = [c |-> c, new |-> v]]
    BY <1>7 DEF HostSetValue
  <2>2. pc' \in [Actor -> PC]
    BY <1>7, <1>h, <1>p, <1>g DEF HostSetValue
  <2>3. cur' \in [Actor -> Entry] /\ EntryInv'
    BY <1>7, <2>1, <1>h DEF HostSetValue, TypeInv, TypeOK, EntryInv, Goto, Entry
  <2>4. QED
    BY <1>7, <2>2, <2>3 DEF HostSetValue, TypeInv, TypeOK
<1>8. ASSUME NEW t \in Actor, ReadOldVal(t) \/ Refuse(t) \/ SendDone(t)
      PROVE  TypeInv'
  <2>1. cur[t].c \in Char
    BY <1>8 DEF ReadOldVal, Refuse, SendDone, TypeInv, EntryInv
  <2>2. CASE SetValueReturns(t)
    BY <1>8, <2>1, <2>2, SetValueReturnsType
       DEF ReadOldVal, Refuse, SendDone, TypeInv, TypeOK
  <2>3. CASE ~SetValueReturns(t)
    <3>1. ReadOldVal(t) /\ Goto(t, "set") /\ UNCHANGED cur
      BY <1>8, <2>3 DEF ReadOldVal, Refuse, SendDone
    <3>2. EntryInv'
      BY <3>1 DEF ReadOldVal, Goto, TypeInv, TypeOK, EntryInv
    <3>3. QED
      BY <3>1, <3>2, <1>p, <1>g DEF ReadOldVal, TypeInv, TypeOK
  <2>4. QED
    BY <2>2, <2>3
<1>9. ASSUME NEW t \in Actor, SetVal(t) PROVE TypeInv'
  <2>1. cur[t].c \in Char /\ cur[t].new \in Value
    BY <1>9 DEF SetVal, TypeInv, EntryInv
  <2>2. pc' \in [Actor -> PC] /\ EntryInv'
    BY <1>9, <2>1, <1>p, <1>g DEF SetVal, Goto, TypeInv, TypeOK, EntryInv
  <2>3. val' \in [Char -> Value] /\ stale' \in [Char -> SUBSET Addr]
    BY <1>9, <2>1 DEF SetVal, TypeInv, TypeOK
  <2>4. QED
    BY <1>9, <2>2, <2>3 DEF SetVal, TypeInv, TypeOK
<1>10. ASSUME NEW t \in Actor, ReadVal(t) \/ CopyConns(t) PROVE TypeInv'
  <2>1. pc' \in [Actor -> PC] /\ EntryInv'
    BY <1>10, <1>p, <1>g DEF ReadVal, CopyConns, Goto, TypeInv, TypeOK, EntryInv
  <2>2. QED
    BY <1>10, <2>1 DEF ReadVal, CopyConns, TypeInv, TypeOK, EntryInv
<1>11. ASSUME NEW t \in Actor, Send(t) PROVE TypeInv'
  BY <1>11 DEF Send, Deliver, TypeInv, TypeOK, EntryInv
<1>12. CASE UNCHANGED vars
  BY <1>12 DEF vars, TypeInv, TypeOK, EntryInv
<1>13. QED
  BY <1>1, <1>2, <1>3, <1>4, <1>5, <1>6, <1>7, <1>8, <1>9, <1>10, <1>11, <1>12
     DEF Next, Put, SetValue

LEMMA TypeInvariant == Spec => []TypeInv
<1>1. Init => TypeInv
  BY DEF Init, TypeInv, TypeOK, EntryInv, Actor, PC, Entry, NoEntry
<1>2. QED
  BY <1>1, TypeStep, PTL DEF Spec

\* The variables have their types in every reachable state.
THEOREM TypeCorrect == Spec => []TypeOK
<1>1. TypeInv => TypeOK
  BY DEF TypeInv
<1>2. QED
  BY <1>1, TypeInvariant, PTL

-----------------------------------------------------------------------------
(* Every change is announced *)

\* Who is to be told has events enabled and a connection that is in the table:
\* the copy a notification makes includes it.
OwedInv ==
    /\ \A c \in Char : \A a \in stale[c] : a \in events[c] /\ Live(a)
    /\ \A a \in Addr : Live(a) => a \in table

LEMMA OwedStep == TypeInv /\ OwedInv /\ [Next]_vars => OwedInv'
<1> SUFFICES ASSUME TypeInv, OwedInv, [Next]_vars PROVE OwedInv'
  OBVIOUS
<1> USE DEF TypeInv, TypeOK, OwedInv, Live, Forget
<1>1. ASSUME NEW a \in Addr, Accept(a) PROVE OwedInv'
  BY <1>1 DEF Accept
<1>2. ASSUME NEW a \in Addr, Verify(a) \/ PeerClose(a) \/ ConnStateClosed(a)
      PROVE  OwedInv'
  BY <1>2 DEF Verify, PeerClose, ConnStateClosed
<1>3. ASSUME NEW a \in Addr,
             \/ Prepare(a) \/ DeadlinePasses(a) \/ PutBegin(a) \/ PutEntry(a)
             \/ PutEnd(a)
      PROVE  OwedInv'
  BY <1>3 DEF Prepare, DeadlinePasses, PutBegin, PutEntry, PutEnd
<1>4. ASSUME NEW a \in Addr, PutPanics(a) PROVE OwedInv'
  BY <1>4 DEF PutPanics
<1>5. ASSUME NEW a \in Addr, SetEvent(a) PROVE OwedInv'
  BY <1>5 DEF SetEvent
<1>6. ASSUME NEW h \in Host, HostSetValue(h) PROVE OwedInv'
  BY <1>6 DEF HostSetValue
<1>7. ASSUME NEW t \in Actor,
             ReadOldVal(t) \/ Refuse(t) \/ ReadVal(t) \/ CopyConns(t) \/ SendDone(t)
      PROVE  OwedInv'
  BY <1>7 DEF ReadOldVal, Refuse, ReadVal, CopyConns, SendDone
<1>8. ASSUME NEW t \in Actor, SetVal(t) PROVE OwedInv'
  BY <1>8 DEF SetVal
<1>9. ASSUME NEW t \in Actor, Send(t) PROVE OwedInv'
  BY <1>9 DEF Send, Deliver
<1>10. CASE UNCHANGED vars
  BY <1>10 DEF vars
<1>11. QED
  BY <1>1, <1>2, <1>3, <1>4, <1>5, <1>6, <1>7, <1>8, <1>9, <1>10
     DEF Next, Connection, Put, SetValue

LEMMA AnnounceStep ==
    TypeInv /\ OwedInv /\ ChangesAnnounced /\ [Next]_vars => ChangesAnnounced'
<1> SUFFICES ASSUME TypeInv, OwedInv, ChangesAnnounced, [Next]_vars,
                    NEW d \in Char, NEW b \in stale'[d]
             PROVE  \E t \in Actor : Announcing(t, d, b)'
  BY DEF ChangesAnnounced
<1> DEFINE Goal == \E t \in Actor : Announcing(t, d, b)'
<1>a. \A a \in Addr : a \in Actor /\ a \notin Host
  BY ActorAssumption DEF Actor
<1>h. \A h \in Host : h \in Actor
  BY DEF Actor
<1>e. b \in stale[d] => \E t \in Actor : Announcing(t, d, b)
  BY DEF ChangesAnnounced
<1>l. b \in stale[d] => b \in events[d] /\ Live(b) /\ b \in table /\ b \in Addr
  BY DEF OwedInv, TypeInv, TypeOK
\* What leaves the announcing actors where they are keeps the promise.
<1>k. ASSUME b \in stale[d], val'[d] = val[d],
             \A t \in Actor : pc[t] \in {"notify", "conns", "send"} =>
                 /\ pc'[t] = pc[t]
                 /\ cur'[t] = cur[t]
                 /\ payload'[t] = payload[t]
                 /\ b \in todo[t] => b \in todo'[t]
      PROVE  Goal
  BY <1>e, <1>k DEF Announcing
<1>1. ASSUME NEW a \in Addr, Connection(a) PROVE Goal
  <2>1. b \in stale[d] /\ UNCHANGED <<val, pc, cur, payload>>
    BY <1>1 DEF Connection, Accept, Verify, PeerClose, ConnStateClosed, Forget
  <2>2. \A t \in Actor : b \in todo[t] => b \in todo'[t]
    <3>1. CASE Accept(a)
      <4>1. b # a
        BY <2>1, <1>l, <3>1 DEF Accept, Live
      <4>2. QED
        BY <3>1, <4>1 DEF Accept
    <3>2. CASE ~Accept(a)
      BY <1>1, <3>2 DEF Connection, Verify, PeerClose, ConnStateClosed
    <3>3. QED
      BY <3>1, <3>2
  <2>3. QED
    BY <1>k, <2>1, <2>2
<1>2. ASSUME NEW a \in Addr, Put(a) PROVE Goal
  <2>1. b \in stale[d] /\ UNCHANGED <<val, payload, todo>>
    BY <1>2 DEF Put, Prepare, DeadlinePasses, PutBegin, PutEntry, PutPanics,
                SetEvent, PutEnd, Forget, TypeInv, TypeOK
  <2>2. \A t \in Actor : pc[t] \in {"notify", "conns", "send"}
           => pc'[t] = pc[t] /\ cur'[t] = cur[t]
    BY <1>2, <1>a DEF Put, Prepare, DeadlinePasses, PutBegin, Authorized, PutEntry,
                PutPanics, SetEvent, PutEnd, Goto, TypeInv, TypeOK
  <2>3. QED
    BY <1>k, <2>1, <2>2
<1>3. ASSUME NEW h \in Host, HostSetValue(h) PROVE Goal
  BY <1>3, <1>h, <1>k DEF HostSetValue, Goto, TypeInv, TypeOK
<1>4. ASSUME NEW t \in Actor, ReadOldVal(t) \/ Refuse(t) PROVE Goal
  BY <1>4, <1>k DEF ReadOldVal, Refuse, SetValueReturns, Goto, TypeInv, TypeOK
<1>5. ASSUME NEW t \in Actor, SetVal(t) PROVE Goal
  <2>1. CASE cur[t].c = d
    <3>1. b # t
      BY <1>5, <2>1 DEF SetVal, TypeInv, TypeOK
    <3>2. Announcing(t, d, b)'
      BY <1>5, <2>1, <3>1 DEF SetVal, Announcing, Goto, TypeInv, TypeOK
    <3>3. QED
      BY <3>2
  <2>2. CASE cur[t].c # d
    BY <1>5, <1>k, <2>2 DEF SetVal, Goto, TypeInv, TypeOK
  <2>3. QED
    BY <2>1, <2>2
<1>6. ASSUME NEW t \in Actor, ReadVal(t) \/ CopyConns(t) PROVE Goal
  <2>1. b \in stale[d] /\ UNCHANGED <<val, cur>>
    BY <1>6 DEF ReadVal, CopyConns
  <2>2. PICK u \in Actor : Announcing(u, d, b)
    BY <1>e, <2>1
  <2>3. Announcing(u, d, b)'
    <3>1. CASE u = t
      BY <1>6, <1>l, <2>1, <2>2, <3>1
         DEF ReadVal, CopyConns, Goto, Announcing, TypeInv, TypeOK
    <3>2. CASE u # t
      BY <1>6, <2>1, <2>2, <3>2
         DEF ReadVal, CopyConns, Goto, Announcing, TypeInv, TypeOK
    <3>3. QED
      BY <3>1, <3>2
  <2>4. QED
    BY <2>3
<1>7. ASSUME NEW t \in Actor, Send(t) PROVE Goal
  <2>1. PICK x \in todo[t] :
           todo' = [todo EXCEPT ![t] = @ \ {x}] /\ Deliver(t, x)
    BY <1>7 DEF Send
  <2>2. b \in stale[d] /\ UNCHANGED <<val, cur, pc, payload>>
    BY <1>7, <2>1 DEF Send, Deliver, TypeInv, TypeOK
  <2>3. PICK u \in Actor : Announcing(u, d, b)
    BY <1>e, <2>2
  <2>4. CASE u = t /\ x = b /\ pc[u] = "send"
    <3>1. Told(t, b) /\ payload[t] = val[d] /\ cur[t].c = d
      BY <1>l, <2>2, <2>3, <2>4 DEF Told, Announcing
    <3>2. b \notin stale'[d]
      BY <2>1, <2>4, <3>1 DEF Deliver, TypeInv, TypeOK
    <3>3. QED
      BY <3>2
  <2>5. CASE ~(u = t /\ x = b /\ pc[u] = "send")
    <3>1. Announcing(u, d, b)'
      BY <2>1, <2>2, <2>3, <2>5 DEF Announcing, TypeInv, TypeOK
    <3>2. QED
      BY <3>1
  <2>6. QED
    BY <2>4, <2>5
<1>8. ASSUME NEW t \in Actor, SendDone(t) PROVE Goal
  <2>1. b \in stale[d] /\ UNCHANGED <<val, todo>>
    BY <1>8 DEF SendDone
  <2>2. PICK u \in Actor : Announcing(u, d, b)
    BY <1>e, <2>1
  <2>3. u # t
    BY <1>8, <2>2 DEF SendDone, Announcing
  <2>4. Announcing(u, d, b)'
    BY <1>8, <2>1, <2>2, <2>3
       DEF SendDone, SetValueReturns, Goto, Announcing, TypeInv, TypeOK
  <2>5. QED
    BY <2>4
<1>9. CASE UNCHANGED vars
  BY <1>9, <1>k DEF vars
<1>10. QED
  BY <1>1, <1>2, <1>3, <1>4, <1>5, <1>6, <1>7, <1>8, <1>9 DEF Next, SetValue

\* However many setters overlap: who has events enabled and has not been told
\* the value since it was set is still going to be told it.
THEOREM EveryChangeIsAnnounced == Spec => []ChangesAnnounced
<1>1. Init => OwedInv /\ ChangesAnnounced
  BY DEF Init, OwedInv, ChangesAnnounced, Live
<1>2. QED
  BY <1>1, OwedStep, AnnounceStep, TypeInvariant, PTL DEF Spec

-----------------------------------------------------------------------------
(* Timed writes *)

\* A preparation that is there has not been used by a PUT that is over.
PreparedInv ==
    /\ TimedWritePrepared
    /\ \A a \in executed : twr[a] = "none"

LEMMA PreparedStep == TypeInv /\ PreparedInv /\ [Next]_vars => PreparedInv'
<1> SUFFICES ASSUME TypeInv, PreparedInv, [Next]_vars PROVE PreparedInv'
  OBVIOUS
<1>a. \A a \in Addr : a \in Actor /\ a \notin Host
  BY ActorAssumption DEF Actor
<1>c. NoChar \notin Timed /\ \A c \in Timed : c \in Char
  BY CharAssumption
<1> USE DEF TypeInv, TypeOK, PreparedInv, TimedWritePrepared
<1>1. ASSUME NEW a \in Addr, Connection(a) PROVE PreparedInv'
  BY <1>1 DEF Connection, Accept, Verify, PeerClose, ConnStateClosed
<1>2. ASSUME NEW a \in Addr, Prepare(a) \/ DeadlinePasses(a) PROVE PreparedInv'
  BY <1>2 DEF Prepare, DeadlinePasses, Authorized
<1>3. ASSUME NEW a \in Addr, PutBegin(a) \/ PutPanics(a) \/ SetEvent(a)
      PROVE  PreparedInv'
  BY <1>3, <1>a DEF PutBegin, PutPanics, SetEvent, Goto
<1>4. ASSUME NEW a \in Addr, PutEntry(a) PROVE PreparedInv'
  BY <1>4, <1>a DEF PutEntry, InTime, Goto
<1>5. ASSUME NEW a \in Addr, PutEnd(a) PROVE PreparedInv'
  BY <1>5, <1>a DEF PutEnd, Goto
<1>6. ASSUME NEW h \in Host, HostSetValue(h) PROVE PreparedInv'
  BY <1>6, <1>a DEF HostSetValue, Goto
<1>7. ASSUME NEW t \in Actor,
             \/ ReadOldVal(t) \/ Refuse(t) \/ SetVal(t) \/ ReadVal(t)
             \/ CopyConns(t) \/ SendDone(t)
      PROVE  PreparedInv'
  BY <1>7, <1>a DEF ReadOldVal, Refuse, SetVal, ReadVal, CopyConns, SendDone,
                    SetValueReturns, Goto
<1>8. ASSUME NEW t \in Actor, Send(t) PROVE PreparedInv'
  BY <1>8 DEF Send
<1>9. CASE UNCHANGED vars
  BY <1>9 DEF vars
<1>10. QED
  BY <1>1, <1>2, <1>3, <1>4, <1>5, <1>6, <1>7, <1>8, <1>9
     DEF Next, Put, SetValue

\* A timed write belongs to a preparation of the same session that no earlier
\* PUT has used.
THEOREM TimedWritesArePrepared == Spec => []TimedWritePrepared
<1>1. Init => PreparedInv
  BY DEF Init, PreparedInv, TimedWritePrepared, Actor
<1>2. PreparedInv => TimedWritePrepared
  BY DEF PreparedInv
<1>3. QED
  BY <1>1, <1>2, PreparedStep, TypeInvariant, PTL DEF Spec

=============================================================================
