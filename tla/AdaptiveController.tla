------------------------- MODULE AdaptiveController -------------------------
(***************************************************************************)
(* The Adaptive Lighting controller (adaptive/controller.go): requests     *)
(* that enable and disable a transition, the timer that keeps it going,    *)
(* brightness changes, and the blob the host stores and restores.          *)
(*                                                                         *)
(* A thread is a goroutine: a request handler, a call of the host, or the  *)
(* callback of time.AfterFunc.  What a method does under c.mu is one step; *)
(* what it does outside (the active count, the lamp, the colour            *)
(* temperature characteristic, OnStateChange) is a step of its own.        *)
(*                                                                         *)
(* A transition is a number, given when it is enabled; its curve and times *)
(* are left out but for one thing: whether evaluate still finds a point.   *)
(* The temperatures a tick gives to the lamp and to the characteristic are *)
(* not kept: nothing the controller decides depends on them.               *)
(***************************************************************************)
EXTENDS Integers, FiniteSets

CONSTANTS
    Thread,         \* goroutines that can run at one time
    MaxTransition,  \* bound on the transitions that are enabled
    MaxRestart      \* bound on the restarts of the process

ASSUME BoundsAssumption == MaxTransition \in Nat /\ MaxRestart \in Nat

VARIABLES
    active,    \* c.active: a transition, or 0 for nil
    timer,     \* c.timer: a timer, or 0 for nil
    armed,     \* timers that are running
    stuck,     \* c.mu is held by a goroutine that is gone
    count,     \* value of the active transition count characteristic
    saved,     \* the blob the host stored last: a transition, or 0
    pc,        \* where each goroutine is
    op,        \* what it was started for
    given,     \* transitions enabled so far
    ended,     \* transitions whose curve has no point for now any more
    restarts   \* restarts so far (bounds the model)

vars == <<active, timer, armed, stuck, count, saved, pc, op, given, ended,
          restarts>>

Transition == 0..MaxTransition

\* A running timer, the one c.timer points to and a new one are never more.
Timer == 1..(Cardinality(Thread) + 2)

Op == {"none", "enable", "disable", "timer", "brightness", "restore"}

PC == {"idle", "restore", "countOn", "tick", "drive", "reflect", "arm",
       "disable", "countOff", "notifyOff", "notifyOn", "status"}

-----------------------------------------------------------------------------

Goto(t, from, to) == pc[t] = from /\ pc' = [pc EXCEPT ![t] = to] /\ UNCHANGED op

\* A method that takes c.mu goes on only when it can have it.
LockedGoto(t, from, to) == ~stuck /\ Goto(t, from, to)

Start(t, o, to) ==
    /\ pc[t] = "idle"
    /\ pc' = [pc EXCEPT ![t] = to]
    /\ op' = [op EXCEPT ![t] = o]

Finish(t) ==
    /\ pc' = [pc EXCEPT ![t] = "idle"]
    /\ op' = [op EXCEPT ![t] = "none"]

\* tick and Disable return to whoever called them.
ReturnFromTick(t) ==
    IF op[t] = "enable"
    THEN Goto(t, pc[t], "notifyOn")
    ELSE Finish(t)

\* Requests, and calls of the host, come once Restore has returned.
Serving == \A t \in Thread : op[t] # "restore"

-----------------------------------------------------------------------------
(* Requests and calls *)

\* enable, up to the end of its critical section.  The curve may have no point
\* for now at all, as one of a single entry.
Enable(t) ==
    /\ Serving
    /\ ~stuck
    /\ Start(t, "enable", "countOn")
    /\ given < MaxTransition
    /\ given' = given + 1
    /\ active' = given + 1
    /\ ended' \in {ended, ended \cup {given + 1}}
    /\ UNCHANGED <<timer, armed, stuck, count, saved, restarts>>

CallDisable(t) ==
    /\ Serving
    /\ Start(t, "disable", "disable")
    /\ UNCHANGED <<active, timer, armed, stuck, count, saved, given, ended, restarts>>

\* IsActive, then tick.
HandleBrightnessChanged(t) ==
    /\ Serving
    /\ ~stuck
    /\ active # 0
    /\ Start(t, "brightness", "tick")
    /\ UNCHANGED <<active, timer, armed, stuck, count, saved, given, ended, restarts>>

Restore(t) ==
    /\ LockedGoto(t, "restore", "countOn")
    /\ active' = saved
    /\ UNCHANGED <<timer, armed, stuck, count, saved, given, ended, restarts>>

-----------------------------------------------------------------------------
(* The steps of enable, tick and Disable *)

\* Mutant: every enable counts a transition, a renewed one as well.
SetCountPlusOne(t) ==
    /\ Goto(t, "countOn", "tick")
    /\ count' = count + 1
    /\ UNCHANGED <<active, timer, armed, stuck, saved, given, ended, restarts>>

SetCountOn(t) ==
    /\ Goto(t, "countOn", "tick")
    /\ count' = 1
    /\ UNCHANGED <<active, timer, armed, stuck, saved, given, ended, restarts>>

\* The first critical section of tick.
TickRead(t) ==
    /\ pc[t] = "tick"
    /\ ~stuck
    /\ IF active = 0
       THEN ReturnFromTick(t)
       ELSE Goto(t, "tick", IF active \in ended THEN "disable" ELSE "drive")
    /\ UNCHANGED <<active, timer, armed, stuck, count, saved, given, ended, restarts>>

\* Mutant: tick returns when the host reports an error.
TickDriveOrReturn(t) ==
    /\ \/ Goto(t, "drive", "reflect")
       \/ pc[t] = "drive" /\ ReturnFromTick(t)
    /\ UNCHANGED <<active, timer, armed, stuck, count, saved, given, ended, restarts>>

\* SetColorTemperature of the host; it may fail.
TickDrive(t) ==
    /\ \/ Goto(t, "drive", "reflect")
       \/ Goto(t, "drive", "arm")
    /\ UNCHANGED <<active, timer, armed, stuck, count, saved, given, ended, restarts>>

TickReflect(t) ==
    /\ Goto(t, "reflect", "arm")
    /\ UNCHANGED <<active, timer, armed, stuck, count, saved, given, ended, restarts>>

\* Mutant: the timer of the previous tick is not stopped.
TickArmWithoutStop(t) ==
    /\ pc[t] = "arm"
    /\ ~stuck
    /\ ReturnFromTick(t)
    /\ IF active = 0 THEN UNCHANGED <<timer, armed>>
       ELSE \E x \in Timer \ (armed \cup {timer}) :
               /\ timer' = x
               /\ armed' = armed \cup {x}
    /\ UNCHANGED <<active, stuck, count, saved, given, ended, restarts>>

\* The last critical section of tick: time.AfterFunc starts a new timer.
TickArm(t) ==
    /\ pc[t] = "arm"
    /\ ~stuck
    /\ ReturnFromTick(t)
    /\ IF active = 0 THEN UNCHANGED <<timer, armed>>
       ELSE \E x \in Timer \ (armed \cup {timer}) :
               /\ timer' = x
               /\ armed' = (armed \ {timer}) \cup {x}
    /\ UNCHANGED <<active, stuck, count, saved, given, ended, restarts>>

\* Mutant: the host is not told of a transition that came to its end.
DisableSilently(t) ==
    /\ pc[t] = "disable"
    /\ ~stuck
    /\ armed' = armed \ {timer}
    /\ timer' = 0
    /\ active' = 0
    /\ IF active = 0 \/ op[t] # "disable" THEN ReturnFromTick(t)
       ELSE Goto(t, "disable", "countOff")
    /\ UNCHANGED <<stuck, count, saved, given, ended, restarts>>

Disable(t) ==
    /\ pc[t] = "disable"
    /\ ~stuck
    /\ armed' = armed \ {timer}
    /\ timer' = 0
    /\ active' = 0
    /\ IF active = 0 THEN ReturnFromTick(t)
       ELSE Goto(t, "disable", "countOff")
    /\ UNCHANGED <<stuck, count, saved, given, ended, restarts>>

SetCountOff(t) ==
    /\ Goto(t, "countOff", "notifyOff")
    /\ count' = 0
    /\ UNCHANGED <<active, timer, armed, stuck, saved, given, ended, restarts>>

\* OnStateChange: the host stores what Serialize returns.
Notify(t) ==
    /\ ~stuck
    /\ \/ pc[t] = "notifyOff" /\ ReturnFromTick(t)
       \/ Goto(t, "notifyOn", "status")
    /\ saved' = active
    /\ UNCHANGED <<active, timer, armed, stuck, count, given, ended, restarts>>

\* The response to an enable.  statusLocked dereferences c.active: if it is
\* nil the goroutine panics between Lock and Unlock, net/http recovers it.
Status(t) ==
    /\ pc[t] = "status"
    /\ ~stuck
    /\ stuck' = (active = 0)
    /\ Finish(t)
    /\ UNCHANGED <<active, timer, armed, count, saved, given, ended, restarts>>

-----------------------------------------------------------------------------
(* Time *)

Fire(t) ==
    \E x \in armed :
        /\ armed' = armed \ {x}
        /\ Start(t, "timer", "tick")
        /\ UNCHANGED <<active, timer, stuck, count, saved, given, ended, restarts>>

\* The time passes the last point of a curve.
CurveEnds ==
    /\ \E g \in 1..given \ ended : ended' = ended \cup {g}
    /\ UNCHANGED <<active, timer, armed, stuck, count, saved, pc, op, given, restarts>>

\* The process is started again; the host calls Restore with what it stored.
Restart ==
    /\ restarts < MaxRestart
    /\ restarts' = restarts + 1
    /\ active' = 0
    /\ timer' = 0
    /\ armed' = {}
    /\ stuck' = FALSE
    /\ count' = 0
    /\ IF saved = 0
       THEN /\ pc' = [t \in Thread |-> "idle"]
            /\ op' = [t \in Thread |-> "none"]
       ELSE \E r \in Thread :
               /\ pc' = [t \in Thread |-> IF t = r THEN "restore" ELSE "idle"]
               /\ op' = [t \in Thread |-> IF t = r THEN "restore" ELSE "none"]
    /\ UNCHANGED <<saved, given, ended>>

-----------------------------------------------------------------------------

Init ==
    /\ active = 0
    /\ timer = 0
    /\ armed = {}
    /\ stuck = FALSE
    /\ count = 0
    /\ saved = 0
    /\ pc = [t \in Thread |-> "idle"]
    /\ op = [t \in Thread |-> "none"]
    /\ given = 0
    /\ ended = {}
    /\ restarts = 0

\* What a goroutine does once it runs.
Step(t) ==
    \/ Restore(t) \/ SetCountOn(t) \/ TickRead(t) \/ TickDrive(t)
    \/ TickReflect(t) \/ TickArm(t) \/ Disable(t) \/ SetCountOff(t)
    \/ Notify(t) \/ Status(t)

Next ==
    \/ \E t \in Thread : Enable(t) \/ CallDisable(t) \/ HandleBrightnessChanged(t)
    \/ \E t \in Thread : Step(t) \/ Fire(t)
    \/ CurveEnds
    \/ Restart

Spec == Init /\ [][Next]_vars

-----------------------------------------------------------------------------
(* Properties *)

\* Every variable has its type.
TypeOK ==
    /\ active \in Transition
    /\ timer \in Timer \cup {0}
    /\ armed \in SUBSET Timer
    /\ stuck \in BOOLEAN
    /\ count \in {0, 1}
    /\ saved \in Transition
    /\ pc \in [Thread -> PC]
    /\ op \in [Thread -> Op]
    /\ given \in Transition
    /\ ended \in SUBSET Transition
    /\ restarts \in 0..MaxRestart

\* Every running timer is the one Disable would stop, and it runs for a
\* transition: no tick is scheduled behind the controller's back.
NoLeakedTimer == \A x \in armed : x = timer /\ active # 0

\* A goroutine that has still to arm the timer, or to disable.
Ticking(t) == pc[t] \in {"countOn", "tick", "drive", "reflect", "arm", "disable"}

\* A transition that is on never stops silently: the timer is running, or a
\* goroutine is on its way to start it (or to switch the transition off).
ActiveIsScheduled == active # 0 => armed # {} \/ \E t \in Thread : Ticking(t)

\* A goroutine has changed c.active and has still to call OnStateChange.
Notifying(t) ==
    \/ pc[t] \in {"countOff", "notifyOff", "notifyOn"}
    \/ op[t] = "enable" /\ pc[t] # "status"

\* "The host re-persists Serialize() output": what is stored is what is
\* running, unless a call of OnStateChange is still to come.
SavedIsCurrent ==
    Serving => saved = active \/ \E t \in Thread : Notifying(t)

-----------------------------------------------------------------------------
(* What comments say and the code refutes *)

\* statusLocked: "Caller must hold c.mu and c.active must be non-nil".
StatusOnlyWhenActive ==
    [][\A t \in Thread : Status(t) => active # 0]_vars

=============================================================================
