-------------------------- MODULE Characteristics --------------------------
(***************************************************************************)
(* Values of characteristics, their subscribers and prepared writes:       *)
(* characteristic/c.go, characteristics.go, notification.go.               *)
(*                                                                         *)
(* An actor is the handler of a connection or a goroutine of the host that *)
(* calls SetValue.  setValue reads the old value and sets the new one in   *)
(* two critical sections; the update function of the server then reads the *)
(* value again, copies the connection table and writes to one connection   *)
(* after the other.  Between any two of these steps others run.            *)
(*                                                                         *)
(* A value stands for one after conversion and clamping.  All of this is   *)
(* in memory.  GET changes nothing.                                        *)
(***************************************************************************)
EXTENDS Naturals

CONSTANTS
    Addr,       \* remote addresses of connections
    Host,       \* goroutines of the host
    Char,       \* characteristics that can be observed
    Timed,      \* those that require a timed write
    Repeating,  \* those with updateOnSameValue
    Value,
    NoValue,    \* a PUT entry without a value
    NoChar

ASSUME ActorAssumption == Addr \cap Host = {}
ASSUME CharAssumption == Timed \subseteq Char /\ NoChar \notin Char
ASSUME ValueAssumption == NoValue \notin Value

VARIABLES
    conn,     \* "none", "open", "verified" (paired and encrypted), "closed"
    table,    \* addresses in the connection table
    events,   \* c.events: the addresses that have events enabled
    val,      \* c.Val
    twr,      \* session.twr: "none", "live" or "late" (past its deadline)
    pc,       \* where each actor is
    cur,      \* the entry it is working on
    good,     \* the PUT of a connection has the pid of its preparation
    payload,  \* the value its notification carries
    todo,     \* connections its notification has still to look at
    stale,    \* subscribers not told the value since it was set
    executed  \* connections whose preparation a complete PUT has used

vars == <<conn, table, events, val, twr, pc, cur, good, payload, todo, stale,
          executed>>

Actor == Addr \cup Host

\* The events flag of an entry is looked at last, and chosen then.
Entry == [c : Char \cup {NoChar}, new : Value \cup {NoValue}]

NoEntry == [c |-> NoChar, new |-> NoValue]

PC == {"idle", "entries", "read", "set", "notify", "conns", "send", "event"}

-----------------------------------------------------------------------------

Live(a) == conn[a] \in {"open", "verified"}

Goto(t, to) == pc' = [pc EXCEPT ![t] = to]

\* setValue returns: a PUT goes on with its entry, SetValue of the host is over.
SetValueReturns(t) ==
    /\ Goto(t, IF t \in Addr THEN "event" ELSE "idle")
    /\ cur' = [cur EXCEPT ![t] = IF t \in Addr THEN [@ EXCEPT !.new = NoValue]
                                 ELSE NoEntry]

\* Nobody owes connection a anything any more.
Forget(a) == stale' = [c \in Char |-> stale[c] \ {a}]

-----------------------------------------------------------------------------
(* Connections; pairing and encryption are the matter of PairingServer *)

Accept(a) ==
    /\ conn[a] = "none"
    /\ conn' = [conn EXCEPT ![a] = "open"]
    /\ table' = table \cup {a}
    \* a loop that copied the table earlier holds the previous conn of a
    /\ todo' = [t \in Actor |-> todo[t] \ {a}]
    /\ UNCHANGED <<events, val, twr, pc, cur, good, payload, stale, executed>>

\* A pair-verify that succeeds puts a new session into the map.
Verify(a) ==
    /\ Live(a)
    /\ pc[a] = "idle"
    /\ conn' = [conn EXCEPT ![a] = "verified"]
    /\ twr' = [twr EXCEPT ![a] = "none"]
    /\ executed' = executed \ {a}
    /\ UNCHANGED <<table, events, val, pc, cur, good, payload, todo, stale>>

PeerClose(a) ==
    /\ Live(a)
    /\ conn' = [conn EXCEPT ![a] = "closed"]
    /\ Forget(a)
    /\ UNCHANGED <<table, events, val, twr, pc, cur, good, payload, todo, executed>>

\* The session goes with its preparation, the subscriptions stay.
ConnStateClosed(a) ==
    /\ conn[a] = "closed"
    /\ pc[a] = "idle"
    /\ conn' = [conn EXCEPT ![a] = "none"]
    /\ twr' = [twr EXCEPT ![a] = "none"]
    /\ executed' = executed \ {a}
    /\ UNCHANGED <<table, events, val, pc, cur, good, payload, todo, stale>>

-----------------------------------------------------------------------------
(* Requests *)

Authorized(a) == conn[a] = "verified" /\ pc[a] = "idle"

Prepare(a) ==
    /\ Authorized(a)
    /\ twr' = [twr EXCEPT ![a] = "live"]
    /\ executed' = executed \ {a}
    /\ UNCHANGED <<conn, table, events, val, pc, cur, good, payload, todo, stale>>

DeadlinePasses(a) ==
    /\ twr[a] = "live"
    /\ twr' = [twr EXCEPT ![a] = "late"]
    /\ UNCHANGED <<conn, table, events, val, pc, cur, good, payload, todo, stale, executed>>

PutBegin(a) ==
    /\ Authorized(a)
    /\ \E g \in BOOLEAN :
          /\ g => twr[a] # "none"
          /\ good' = [good EXCEPT ![a] = g]
    /\ Goto(a, "entries")
    /\ UNCHANGED <<conn, table, events, val, twr, cur, payload, todo, stale, executed>>

\* The checks of a timed write.
InTime(a, c) == c \in Timed => twr[a] = "live" /\ good[a]

\* Mutant: without a preparation there is nothing to check.
PutEntryIfPrepared(a) ==
    /\ pc[a] = "entries"
    /\ \E c \in Char, v \in Value \cup {NoValue} :
          /\ cur' = [cur EXCEPT ![a] = [c |-> c, new |-> v]]
          /\ Goto(a, IF v # NoValue /\ (twr[a] = "none" \/ InTime(a, c))
                     THEN "read" ELSE "event")
    /\ UNCHANGED <<conn, table, events, val, twr, good, payload, todo, stale,
                   executed>>

\* Mutant: an entry without a value sets the value to nil.
PutEntryNil(a) ==
    /\ pc[a] = "entries"
    /\ \E c \in Char, v \in Value \cup {NoValue} :
          /\ c \in Timed => twr[a] # "none"
          /\ cur' = [cur EXCEPT ![a] = [c |-> c, new |-> v]]
          /\ Goto(a, IF InTime(a, c) THEN "read" ELSE "event")
    /\ UNCHANGED <<conn, table, events, val, twr, good, payload, todo, stale,
                   executed>>

\* The next entry of the body.  One that is too late, or has another pid than
\* the preparation, is answered with a status; its events flag is looked at.
PutEntry(a) ==
    /\ pc[a] = "entries"
    /\ \E c \in Char, v \in Value \cup {NoValue} :
          /\ c \in Timed => twr[a] # "none"
          /\ cur' = [cur EXCEPT ![a] = [c |-> c, new |-> v]]
          /\ Goto(a, IF v # NoValue /\ InTime(a, c) THEN "read" ELSE "event")
    /\ UNCHANGED <<conn, table, events, val, twr, good, payload, todo, stale,
                   executed>>

\* timedWr is nil: the handler panics, and net/http closes the connection.
PutPanics(a) ==
    /\ pc[a] = "entries"
    /\ Timed # {}
    /\ twr[a] = "none"
    /\ conn' = [conn EXCEPT ![a] = "closed"]
    /\ Forget(a)
    /\ Goto(a, "idle")
    /\ good' = [good EXCEPT ![a] = FALSE]
    /\ UNCHANGED <<table, events, val, twr, cur, payload, todo, executed>>

SetEvent(a) ==
    /\ pc[a] = "event"
    /\ LET c == cur[a].c
       IN  \/ UNCHANGED <<events, stale>>
           \/ events' = [events EXCEPT ![c] = @ \cup {a}] /\ UNCHANGED stale
           \/ /\ events' = [events EXCEPT ![c] = @ \ {a}]
              /\ stale' = [stale EXCEPT ![c] = @ \ {a}]
    /\ Goto(a, "entries")
    /\ cur' = [cur EXCEPT ![a] = NoEntry]
    /\ UNCHANGED <<conn, table, val, twr, good, payload, todo, executed>>

PutEnd(a) ==
    /\ pc[a] = "entries"
    /\ Goto(a, "idle")
    /\ twr' = [twr EXCEPT ![a] = "none"]
    /\ executed' = IF twr[a] = "none" THEN executed ELSE executed \cup {a}
    /\ good' = [good EXCEPT ![a] = FALSE]
    /\ UNCHANGED <<conn, table, events, val, cur, payload, todo, stale>>

-----------------------------------------------------------------------------
(* setValue *)

HostSetValue(h) ==
    /\ pc[h] = "idle"
    /\ \E c \in Char, v \in Value :
          cur' = [cur EXCEPT ![h] = [c |-> c, new |-> v]]
    /\ Goto(h, "read")
    /\ UNCHANGED <<conn, table, events, val, twr, good, payload, todo, stale, executed>>

\* The first critical section: the old value is compared with the new one.
ReadOldVal(t) ==
    /\ pc[t] = "read"
    /\ IF val[cur[t].c] = cur[t].new /\ cur[t].c \notin Repeating
       THEN SetValueReturns(t)
       ELSE Goto(t, "set") /\ UNCHANGED cur
    /\ UNCHANGED <<conn, table, events, val, twr, good, payload, todo, stale, executed>>

\* Not writable, not a valid value, or refused by SetValueRequestFunc.
Refuse(t) ==
    /\ pc[t] = "set"
    /\ SetValueReturns(t)
    /\ UNCHANGED <<conn, table, events, val, twr, good, payload, todo, stale, executed>>

\* The second critical section.
SetVal(t) ==
    /\ pc[t] = "set"
    /\ LET c == cur[t].c
       IN  /\ val' = [val EXCEPT ![c] = cur[t].new]
           /\ stale' = [stale EXCEPT ![c] = {b \in events[c] : Live(b)} \ {t}]
    /\ Goto(t, "notify")
    /\ UNCHANGED <<conn, table, events, twr, cur, good, payload, todo, executed>>

-----------------------------------------------------------------------------
(* sendNotification *)

\* c.Val is read again, without the lock.
ReadVal(t) ==
    /\ pc[t] = "notify"
    /\ payload' = [payload EXCEPT ![t] = val[cur[t].c]]
    /\ Goto(t, "conns")
    /\ UNCHANGED <<conn, table, events, val, twr, cur, good, todo, stale, executed>>

CopyConns(t) ==
    /\ pc[t] = "conns"
    /\ todo' = [todo EXCEPT ![t] = table]
    /\ Goto(t, "send")
    /\ UNCHANGED <<conn, table, events, val, twr, cur, good, payload, stale, executed>>

\* Connection b gets the notification of t; one that is closed refuses it.
Told(t, b) == b # t /\ b \in events[cur[t].c] /\ Live(b)

Deliver(t, b) ==
    LET c == cur[t].c
    IN  stale' = IF Told(t, b) /\ payload[t] = val[c]
                 THEN [stale EXCEPT ![c] = @ \ {b}]
                 ELSE stale

\* Mutant: the loop ends at the client who updated the value.
SendReturn(t) ==
    /\ pc[t] = "send"
    /\ \E b \in todo[t] :
          /\ todo' = [todo EXCEPT ![t] = IF b = t THEN {} ELSE @ \ {b}]
          /\ Deliver(t, b)
    /\ UNCHANGED <<conn, table, events, val, twr, pc, cur, good, payload, executed>>

Send(t) ==
    /\ pc[t] = "send"
    /\ \E b \in todo[t] :
          /\ todo' = [todo EXCEPT ![t] = @ \ {b}]
          /\ Deliver(t, b)
    /\ UNCHANGED <<conn, table, events, val, twr, pc, cur, good, payload, executed>>

SendDone(t) ==
    /\ pc[t] = "send"
    /\ todo[t] = {}
    /\ SetValueReturns(t)
    /\ payload' = [payload EXCEPT ![t] = NoValue]
    /\ UNCHANGED <<conn, table, events, val, twr, good, todo, stale, executed>>

-----------------------------------------------------------------------------

Init ==
    /\ conn = [a \in Addr |-> "none"]
    /\ table = {}
    /\ events = [c \in Char |-> {}]
    /\ val \in [Char -> Value]
    /\ twr = [a \in Addr |-> "none"]
    /\ pc = [t \in Actor |-> "idle"]
    /\ cur = [t \in Actor |-> NoEntry]
    /\ good = [a \in Addr |-> FALSE]
    /\ payload = [t \in Actor |-> NoValue]
    /\ todo = [t \in Actor |-> {}]
    /\ stale = [c \in Char |-> {}]
    /\ executed = {}

Connection(a) ==
    Accept(a) \/ Verify(a) \/ PeerClose(a) \/ ConnStateClosed(a)

Put(a) ==
    \/ Prepare(a) \/ DeadlinePasses(a) \/ PutBegin(a) \/ PutEntry(a)
    \/ PutPanics(a) \/ SetEvent(a) \/ PutEnd(a)

SetValue(t) ==
    \/ ReadOldVal(t) \/ Refuse(t) \/ SetVal(t)
    \/ ReadVal(t) \/ CopyConns(t) \/ Send(t) \/ SendDone(t)

Next ==
    \/ \E a \in Addr : Connection(a) \/ Put(a)
    \/ \E h \in Host : HostSetValue(h)
    \/ \E t \in Actor : SetValue(t)

Spec == Init /\ [][Next]_vars

-----------------------------------------------------------------------------
(* Properties *)

\* Every variable has its type.
TypeOK ==
    /\ conn \in [Addr -> {"none", "open", "verified", "closed"}]
    /\ table \in SUBSET Addr
    /\ events \in [Char -> SUBSET Addr]
    /\ val \in [Char -> Value]
    /\ twr \in [Addr -> {"none", "live", "late"}]
    /\ pc \in [Actor -> PC]
    /\ cur \in [Actor -> Entry]
    /\ good \in [Addr -> BOOLEAN]
    /\ payload \in [Actor -> Value \cup {NoValue}]
    /\ todo \in [Actor -> SUBSET Addr]
    /\ stale \in [Char -> SUBSET Addr]
    /\ executed \in SUBSET Addr

\* Actor t is going to tell connection a the value that c has now.
Announcing(t, c, a) ==
    /\ cur[t].c = c
    /\ t # a
    /\ \/ pc[t] = "notify"
       \/ pc[t] = "conns" /\ payload[t] = val[c]
       \/ pc[t] = "send" /\ payload[t] = val[c] /\ a \in todo[t]

\* "If the value of a characteristic changes, we notify all connected clients":
\* whoever has events enabled and has not been told the value since it was set,
\* is going to be told it, however many setters overlap.
ChangesAnnounced ==
    \A c \in Char : \A a \in stale[c] : \E t \in Actor : Announcing(t, c, a)

\* A characteristic that requires a timed write is written only by the PUT that
\* follows a preparation in the same session, never by a later one.
TimedWritePrepared ==
    \A a \in Addr :
        pc[a] \in {"read", "set"} /\ cur[a].c \in Timed
            => twr[a] # "none" /\ a \notin executed

-----------------------------------------------------------------------------
(* What comments say and the code refutes *)

\* "the accessory must respond with HAP status error code -70410" to a standard
\* write of such a characteristic: the handler answers.
StandardWriteAnswered == [][\A a \in Addr : ~PutPanics(a)]_vars

=============================================================================
