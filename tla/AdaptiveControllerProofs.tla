---------------------- MODULE AdaptiveControllerProofs ----------------------
(***************************************************************************)
(* Proofs about AdaptiveController, for any number of goroutines,          *)
(* transitions and restarts: the variables keep their types, every running *)
(* timer is the one Disable stops, a transition that is on stays           *)
(* scheduled, and the host's blob is current.                              *)
(***************************************************************************)
EXTENDS AdaptiveController, TLAPS

-----------------------------------------------------------------------------
(* Types *)

LEMMA ConstantTypes == MaxTransition \in Nat /\ MaxRestart \in Nat
  BY BoundsAssumption

\* The local effect of the helpers, on typed variables.
LEMMA GotoType ==
    ASSUME TypeOK, NEW t \in Thread, NEW from \in PC, NEW to \in PC,
           Goto(t, from, to)
    PROVE  pc' \in [Thread -> PC] /\ op' \in [Thread -> Op]
  BY DEF Goto, TypeOK

LEMMA StartType ==
    ASSUME TypeOK, NEW t \in Thread, NEW o \in Op, NEW to \in PC, Start(t, o, to)
    PROVE  pc' \in [Thread -> PC] /\ op' \in [Thread -> Op]
  BY DEF Start, TypeOK

LEMMA FinishType ==
    ASSUME TypeOK, NEW t \in Thread, Finish(t)
    PROVE  /\ pc' \in [Thread -> PC]
           /\ op' \in [Thread -> Op]
  BY DEF Finish, TypeOK, PC, Op

LEMMA ReturnType ==
    ASSUME TypeOK, NEW t \in Thread, ReturnFromTick(t)
    PROVE  /\ pc' \in [Thread -> PC]
           /\ op' \in [Thread -> Op]
  BY FinishType DEF ReturnFromTick, Goto, TypeOK, PC

LEMMA TypeStep == TypeOK /\ [Next]_vars => TypeOK'
<1> SUFFICES ASSUME TypeOK, [Next]_vars PROVE TypeOK'
  OBVIOUS
<1>p. /\ \A x \in {"idle", "restore", "countOn", "tick", "drive", "reflect",
                   "arm", "disable", "countOff", "notifyOff", "notifyOn",
                   "status"} : x \in PC
      /\ \A x \in {"none", "enable", "disable", "timer", "brightness",
                   "restore"} : x \in Op
  BY DEF PC, Op
<1>t. 0 \in Transition /\ \A x \in Transition : x \in Int
  BY ConstantTypes DEF Transition
<1>1. ASSUME NEW t \in Thread, Enable(t) PROVE TypeOK'
  <2>1. given + 1 \in Transition
    BY <1>1, ConstantTypes DEF Enable, TypeOK, Transition
  <2>2. pc' \in [Thread -> PC] /\ op' \in [Thread -> Op]
    BY <1>1, <1>p, StartType DEF Enable
  <2>3. QED
    BY <1>1, <2>1, <2>2 DEF Enable, TypeOK
<1>2. ASSUME NEW t \in Thread, CallDisable(t) \/ HandleBrightnessChanged(t)
      PROVE  TypeOK'
  <2>1. pc' \in [Thread -> PC] /\ op' \in [Thread -> Op]
    BY <1>2, <1>p, StartType DEF CallDisable, HandleBrightnessChanged
  <2>2. QED
    BY <1>2, <2>1 DEF CallDisable, HandleBrightnessChanged, TypeOK
<1>3. ASSUME NEW t \in Thread, Restore(t) \/ SetCountOn(t) PROVE TypeOK'
  <2>1. pc' \in [Thread -> PC] /\ op' \in [Thread -> Op]
    BY <1>3, <1>p, GotoType DEF Restore, SetCountOn, LockedGoto
  <2>2. QED
    BY <1>3, <2>1 DEF Restore, SetCountOn, TypeOK
<1>4. ASSUME NEW t \in Thread, TickRead(t) PROVE TypeOK'
  <2>1. /\ pc' \in [Thread -> PC]
        /\ op' \in [Thread -> Op]
    <3>1. CASE active = 0
      BY <1>4, <3>1, ReturnType DEF TickRead
    <3>2. CASE active # 0
      <4>1. \E to \in {"disable", "drive"} : Goto(t, "tick", to)
        BY <1>4, <3>2 DEF TickRead
      <4>2. pc' \in [Thread -> PC] /\ op' \in [Thread -> Op]
        BY <4>1, <1>p, GotoType
      <4>3. QED
        BY <1>4, <3>2, <4>2 DEF TickRead, TypeOK
    <3>3. QED
      BY <3>1, <3>2
  <2>2. QED
    BY <1>4, <2>1 DEF TickRead, TypeOK
<1>5. ASSUME NEW t \in Thread, TickDrive(t) \/ TickReflect(t) PROVE TypeOK'
  <2>1. pc' \in [Thread -> PC] /\ op' \in [Thread -> Op]
    BY <1>5, <1>p, GotoType DEF TickDrive, TickReflect
  <2>2. QED
    BY <1>5, <2>1 DEF TickDrive, TickReflect, TypeOK
<1>6. ASSUME NEW t \in Thread, TickArm(t) PROVE TypeOK'
  BY <1>6, ReturnType DEF TickArm, TypeOK
<1>7. ASSUME NEW t \in Thread, Disable(t) PROVE TypeOK'
  <2>1. /\ pc' \in [Thread -> PC]
        /\ op' \in [Thread -> Op]
    BY <1>7, <1>p, ReturnType, GotoType DEF Disable, TypeOK
  <2>2. QED
    BY <1>7, <1>t, <2>1 DEF Disable, TypeOK
<1>8. ASSUME NEW t \in Thread, SetCountOff(t) PROVE TypeOK'
  BY <1>8, <1>p, GotoType DEF SetCountOff, TypeOK
<1>9. ASSUME NEW t \in Thread, Notify(t) PROVE TypeOK'
  <2>1. /\ pc' \in [Thread -> PC]
        /\ op' \in [Thread -> Op]
    BY <1>9, <1>p, ReturnType, GotoType DEF Notify, TypeOK
  <2>2. QED
    BY <1>9, <2>1 DEF Notify, TypeOK
<1>10. ASSUME NEW t \in Thread, Status(t) PROVE TypeOK'
  BY <1>10, FinishType DEF Status, TypeOK
<1>11. ASSUME NEW t \in Thread, Fire(t) PROVE TypeOK'
  <2>1. pc' \in [Thread -> PC] /\ op' \in [Thread -> Op]
    BY <1>11, <1>p, StartType DEF Fire
  <2>2. QED
    BY <1>11, <2>1 DEF Fire, TypeOK
<1>12. CASE CurveEnds
  <2>1. 1..given \subseteq Transition
    BY ConstantTypes DEF TypeOK, Transition
  <2>2. QED
    BY <1>12, <2>1 DEF CurveEnds, TypeOK
<1>13. CASE Restart
  <2>1. pc' \in [Thread -> PC] /\ op' \in [Thread -> Op]
    BY <1>13, <1>p DEF Restart
  <2>2. restarts' \in 0..MaxRestart
    BY <1>13, ConstantTypes DEF Restart, TypeOK
  <2>3. QED
    BY <1>13, <1>t, <2>1, <2>2 DEF Restart, TypeOK
<1>14. CASE UNCHANGED vars
  BY <1>14 DEF vars, TypeOK
<1>15. QED
  BY <1>1, <1>2, <1>3, <1>4, <1>5, <1>6, <1>7, <1>8, <1>9, <1>10, <1>11,
     <1>12, <1>13, <1>14 DEF Next, Step

\* The variables have their types in every reachable state.
THEOREM TypeCorrect == Spec => []TypeOK
<1>1. Init => TypeOK
  <2>1. 0 \in Transition /\ 0 \in 0..MaxRestart
    BY ConstantTypes DEF Transition
  <2>2. "idle" \in PC /\ "none" \in Op
    BY DEF PC, Op
  <2>3. QED
    BY <2>1, <2>2 DEF Init, TypeOK
<1>2. QED
  BY <1>1, TypeStep, PTL DEF Spec

-----------------------------------------------------------------------------
(* Restore runs alone *)

\* Until Restore has returned no timer runs and every other goroutine is idle,
\* and what was restored is what the host has stored.
RestoreAlone ==
    \A t \in Thread :
        op[t] = "restore" =>
            /\ armed = {}
            /\ \A u \in Thread \ {t} : pc[u] = "idle" /\ op[u] = "none"
            /\ pc[t] \in {"countOn", "tick", "drive", "reflect", "arm", "disable"}
                  => saved = active

\* Locals of a goroutine: idle ones serve no call, and Restore is one.
Locals ==
    \A t \in Thread :
        /\ pc[t] = "idle" => op[t] = "none"
        /\ pc[t] = "restore" => op[t] = "restore"
        /\ op[t] = "restore" => pc[t] \notin {"notifyOn", "status"}
        /\ pc[t] \in {"notifyOn", "status"} => op[t] = "enable"

RestoreInv == RestoreAlone /\ Locals

LEMMA RestoreStep == TypeOK /\ RestoreInv /\ [Next]_vars => RestoreInv'
<1> SUFFICES ASSUME TypeOK, RestoreInv, [Next]_vars PROVE RestoreInv'
  OBVIOUS
<1> USE DEF TypeOK, RestoreInv, RestoreAlone, Locals, Goto, LockedGoto, Start,
            Finish, ReturnFromTick, Serving
<1>1. ASSUME NEW t \in Thread,
             Enable(t) \/ CallDisable(t) \/ HandleBrightnessChanged(t)
      PROVE  RestoreInv'
  BY <1>1 DEF Enable, CallDisable, HandleBrightnessChanged
<1>2. ASSUME NEW t \in Thread, Restore(t) PROVE RestoreInv'
  BY <1>2 DEF Restore
<1>3. ASSUME NEW t \in Thread, SetCountOn(t) \/ SetCountOff(t)
      PROVE  RestoreInv'
  BY <1>3 DEF SetCountOn, SetCountOff
<1>4. ASSUME NEW t \in Thread, TickRead(t) PROVE RestoreInv'
  BY <1>4 DEF TickRead
<1>5. ASSUME NEW t \in Thread, TickDrive(t) \/ TickReflect(t) PROVE RestoreInv'
  BY <1>5 DEF TickDrive, TickReflect
<1>6. ASSUME NEW t \in Thread, TickArm(t) PROVE RestoreInv'
  BY <1>6 DEF TickArm
<1>7. ASSUME NEW t \in Thread, Disable(t) PROVE RestoreInv'
  BY <1>7 DEF Disable
<1>8. ASSUME NEW t \in Thread, Notify(t) PROVE RestoreInv'
  BY <1>8 DEF Notify
<1>9. ASSUME NEW t \in Thread, Status(t) PROVE RestoreInv'
  BY <1>9 DEF Status
<1>10. ASSUME NEW t \in Thread, Fire(t) PROVE RestoreInv'
  BY <1>10 DEF Fire
<1>11. CASE CurveEnds
  BY <1>11 DEF CurveEnds
<1>12. CASE Restart
  BY <1>12 DEF Restart
<1>13. CASE UNCHANGED vars
  BY <1>13 DEF vars
<1>14. QED
  BY <1>1, <1>2, <1>3, <1>4, <1>5, <1>6, <1>7, <1>8, <1>9, <1>10, <1>11,
     <1>12, <1>13 DEF Next, Step

LEMMA RestoreInvariant == Spec => []RestoreInv
<1>1. Init => RestoreInv
  BY DEF Init, RestoreInv, RestoreAlone, Locals
<1>2. QED
  BY <1>1, RestoreStep, TypeCorrect, PTL DEF Spec

-----------------------------------------------------------------------------
(* Timers *)

LEMMA TimerStep ==
    TypeOK /\ RestoreInv /\ NoLeakedTimer /\ [Next]_vars => NoLeakedTimer'
<1> SUFFICES ASSUME TypeOK, RestoreInv, NoLeakedTimer, [Next]_vars
             PROVE  NoLeakedTimer'
  OBVIOUS
<1> USE DEF NoLeakedTimer
<1>1. ASSUME NEW t \in Thread, Enable(t) PROVE NoLeakedTimer'
  <2>1. active' # 0
    BY <1>1, ConstantTypes DEF Enable, TypeOK, Transition
  <2>2. QED
    BY <1>1, <2>1 DEF Enable
<1>2. ASSUME NEW t \in Thread, Restore(t) PROVE NoLeakedTimer'
  <2>1. armed = {}
    BY <1>2 DEF Restore, LockedGoto, Goto, RestoreInv, RestoreAlone, Locals
  <2>2. QED
    BY <1>2, <2>1 DEF Restore
<1>3. ASSUME NEW t \in Thread,
             \/ CallDisable(t) \/ HandleBrightnessChanged(t) \/ SetCountOn(t)
             \/ TickRead(t) \/ TickDrive(t) \/ TickReflect(t) \/ SetCountOff(t)
             \/ Notify(t) \/ Status(t)
      PROVE  NoLeakedTimer'
  BY <1>3 DEF CallDisable, HandleBrightnessChanged, SetCountOn, TickRead,
              TickDrive, TickReflect, SetCountOff, Notify, Status
<1>4. ASSUME NEW t \in Thread, TickArm(t) PROVE NoLeakedTimer'
  BY <1>4 DEF TickArm
<1>5. ASSUME NEW t \in Thread, Disable(t) PROVE NoLeakedTimer'
  BY <1>5 DEF Disable
<1>6. ASSUME NEW t \in Thread, Fire(t) PROVE NoLeakedTimer'
  BY <1>6 DEF Fire
<1>7. CASE CurveEnds
  BY <1>7 DEF CurveEnds
<1>8. CASE Restart
  BY <1>8 DEF Restart
<1>9. CASE UNCHANGED vars
  BY <1>9 DEF vars
<1>10. QED
  BY <1>1, <1>2, <1>3, <1>4, <1>5, <1>6, <1>7, <1>8, <1>9 DEF Next, Step

\* However ticks, enables and Disable interleave, no timer runs that c.timer
\* does not point to, and none without a transition.
THEOREM NoTimerLeaks == Spec => []NoLeakedTimer
<1>1. Init => NoLeakedTimer
  BY DEF Init, NoLeakedTimer
<1>2. QED
  BY <1>1, TimerStep, RestoreInvariant, TypeCorrect, PTL DEF Spec

-----------------------------------------------------------------------------
(* A transition that is on stays scheduled *)

LEMMA ScheduledStep ==
    TypeOK /\ ActiveIsScheduled /\ [Next]_vars => ActiveIsScheduled'
<1> SUFFICES ASSUME TypeOK, ActiveIsScheduled, [Next]_vars
             PROVE  ActiveIsScheduled'
  OBVIOUS
<1> USE DEF TypeOK, ActiveIsScheduled, Ticking, Goto, LockedGoto, Start, Finish,
            ReturnFromTick
\* A step of t that leaves the rest alone and itself keeps ticking, if it did.
<1>0. ASSUME NEW t \in Thread, UNCHANGED <<active, armed>>,
             \A u \in Thread \ {t} : pc'[u] = pc[u],
             Ticking(t) => Ticking(t)' \/ active = 0
      PROVE  ActiveIsScheduled'
  BY <1>0
<1>1. ASSUME NEW t \in Thread, Enable(t) PROVE ActiveIsScheduled'
  BY <1>1 DEF Enable
<1>2. ASSUME NEW t \in Thread, Restore(t) PROVE ActiveIsScheduled'
  BY <1>2 DEF Restore
<1>3. ASSUME NEW t \in Thread, CallDisable(t) \/ HandleBrightnessChanged(t)
      PROVE  ActiveIsScheduled'
  BY <1>0, <1>3 DEF CallDisable, HandleBrightnessChanged
<1>4. ASSUME NEW t \in Thread, SetCountOn(t) \/ TickDrive(t) \/ TickReflect(t)
      PROVE  ActiveIsScheduled'
  BY <1>0, <1>4 DEF SetCountOn, TickDrive, TickReflect
<1>5. ASSUME NEW t \in Thread, TickRead(t) PROVE ActiveIsScheduled'
  BY <1>0, <1>5 DEF TickRead
<1>6. ASSUME NEW t \in Thread, TickArm(t) PROVE ActiveIsScheduled'
  BY <1>6 DEF TickArm
<1>7. ASSUME NEW t \in Thread, Disable(t) PROVE ActiveIsScheduled'
  BY <1>7 DEF Disable
<1>8. ASSUME NEW t \in Thread, SetCountOff(t) \/ Notify(t) \/ Status(t)
      PROVE  ActiveIsScheduled'
  BY <1>0, <1>8 DEF SetCountOff, Notify, Status
<1>9. ASSUME NEW t \in Thread, Fire(t) PROVE ActiveIsScheduled'
  BY <1>9 DEF Fire
<1>10. CASE CurveEnds
  BY <1>10 DEF CurveEnds
<1>11. CASE Restart
  BY <1>11 DEF Restart
<1>12. CASE UNCHANGED vars
  BY <1>12 DEF vars
<1>13. QED
  BY <1>1, <1>2, <1>3, <1>4, <1>5, <1>6, <1>7, <1>8, <1>9, <1>10, <1>11, <1>12
     DEF Next, Step

\* A transition that is on has a running timer, or a goroutine that is on its
\* way to start one or to switch the transition off.
THEOREM ActiveStaysScheduled == Spec => []ActiveIsScheduled
<1>1. Init => ActiveIsScheduled
  BY DEF Init, ActiveIsScheduled
<1>2. QED
  BY <1>1, ScheduledStep, TypeCorrect, PTL DEF Spec

-----------------------------------------------------------------------------
(* The stored blob is current *)

LEMMA SavedStep ==
    TypeOK /\ RestoreInv /\ SavedIsCurrent /\ [Next]_vars => SavedIsCurrent'
<1> SUFFICES ASSUME TypeOK, RestoreInv, SavedIsCurrent, [Next]_vars
             PROVE  SavedIsCurrent'
  OBVIOUS
<1> USE DEF TypeOK, SavedIsCurrent, Notifying, Serving, Goto, LockedGoto, Start,
            Finish, ReturnFromTick
<1>1. ASSUME NEW t \in Thread,
             Enable(t) \/ CallDisable(t) \/ HandleBrightnessChanged(t)
      PROVE  SavedIsCurrent'
  BY <1>1 DEF Enable, CallDisable, HandleBrightnessChanged, RestoreInv, Locals
<1>2. ASSUME NEW t \in Thread, Restore(t) PROVE SavedIsCurrent'
  BY <1>2 DEF Restore, RestoreInv, Locals
<1>3. ASSUME NEW t \in Thread, SetCountOn(t) \/ SetCountOff(t)
      PROVE  SavedIsCurrent'
  BY <1>3 DEF SetCountOn, SetCountOff
<1>4. ASSUME NEW t \in Thread, TickRead(t) PROVE SavedIsCurrent'
  BY <1>4 DEF TickRead, RestoreInv, RestoreAlone, Locals
<1>5. ASSUME NEW t \in Thread, TickDrive(t) \/ TickReflect(t)
      PROVE  SavedIsCurrent'
  BY <1>5 DEF TickDrive, TickReflect
<1>6. ASSUME NEW t \in Thread, TickArm(t) PROVE SavedIsCurrent'
  <2>1. /\ pc[t] = "arm"
        /\ UNCHANGED <<active, saved>>
        /\ ReturnFromTick(t)
    BY <1>6 DEF TickArm
  <2>2. CASE op[t] = "restore"
    BY <2>1, <2>2 DEF RestoreInv, RestoreAlone
  <2>3. CASE op[t] # "restore"
    BY <2>1, <2>3
  <2>4. QED
    BY <2>2, <2>3
<1>7. ASSUME NEW t \in Thread, Disable(t) PROVE SavedIsCurrent'
  BY <1>7 DEF Disable, RestoreInv, RestoreAlone, Locals
<1>8. ASSUME NEW t \in Thread, Notify(t) PROVE SavedIsCurrent'
  BY <1>8 DEF Notify
<1>9. ASSUME NEW t \in Thread, Status(t) PROVE SavedIsCurrent'
  BY <1>9 DEF Status, RestoreInv, Locals
<1>10. ASSUME NEW t \in Thread, Fire(t) PROVE SavedIsCurrent'
  BY <1>10 DEF Fire, RestoreInv, Locals
<1>11. CASE CurveEnds
  BY <1>11 DEF CurveEnds
<1>12. CASE Restart
  BY <1>12 DEF Restart
<1>13. CASE UNCHANGED vars
  BY <1>13 DEF vars
<1>14. QED
  BY <1>1, <1>2, <1>3, <1>4, <1>5, <1>6, <1>7, <1>8, <1>9, <1>10, <1>11,
     <1>12, <1>13 DEF Next, Step

\* What the host stored is the transition that is on, or a goroutine is on its
\* way to tell it; a restart therefore resumes what was announced last.
THEOREM SavedStaysCurrent == Spec => []SavedIsCurrent
<1>1. Init => SavedIsCurrent
  BY DEF Init, SavedIsCurrent
<1>2. QED
  BY <1>1, SavedStep, RestoreInvariant, TypeCorrect, PTL DEF Spec

=============================================================================
