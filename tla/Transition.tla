----------------------------- MODULE Transition -----------------------------
(***************************************************************************)
(* What Adaptive Lighting does with its curve (adaptive/tlv.go and the     *)
(* conversions of adaptive/controller.go): the transition that a request   *)
(* asks for, its time, and the responses.  When that is done, and by whom, *)
(* is AdaptiveController.                                                  *)
(***************************************************************************)
EXTENDS Messages, Curve

CONSTANTS
    HapEpoch,   \* 2001-01-01 in the milliseconds of the host's clock
    MinMired,   \* MinValue and MaxValue of the ColorTemperature
    MaxMired

ASSUME MiredAssumption == MinMired \in Nat /\ MaxMired \in Nat /\ MinMired <= MaxMired
ASSUME EpochAssumption == HapEpoch \in Int

-----------------------------------------------------------------------------
clampCT(mired) == Clamp(mired, MinMired, MaxMired)

-----------------------------------------------------------------------------
(* Requests and responses: the structures of Messages *)

startTimeMillis(buf) ==
    LET from[i \in 1..9] ==
            IF i = 9 THEN 0 ELSE (IF i <= Len(buf) THEN buf[i] ELSE 0) + Base * from[i + 1]
    IN HapEpoch + from[1]

\* Mutant: the offset of a transition is taken for the time it holds.
PointsSwapped(entries) ==
    [i \in DOMAIN entries |->
        [temperature |-> entries[i][2], factor |-> entries[i][1],
         transitionTime |-> entries[i][4], duration |-> entries[i][3]]]

Points(entries) ==
    [i \in DOMAIN entries |->
        [temperature |-> entries[i][2], factor |-> entries[i][1],
         transitionTime |-> entries[i][3], duration |-> entries[i][4]]]

\* The transition that enable makes active.
enable(config, now) ==
    LET start == startTimeMillis(config[2][2]) IN
    [iid        |-> config[1],
     parameters |-> config[2],
     start      |-> start,
     timeOffset |-> now - start,
     curve      |-> Points(config[4][1]),
     adjustment |-> config[4][2],
     range      |-> config[4][3],
     interval   |-> IF config[5] <= 0 THEN 60000 ELSE config[5],
     threshold  |-> config[6]]

\* The time in its curve, for tick and for responses.
Offset(at, now) == now - at.timeOffset - at.start

\* What handleControlWrite does with a payload.
command(b) ==
    LET w == Unmarshal(b, controlWrite) IN
    CASE w.err # "none" -> "invalid"
      [] w.err = "none" /\ w.v[2] # <<>> ->
            IF w.v[2][1][3] # 1 \/ w.v[2][1][4][1] = <<>> THEN "disable" ELSE "enable"
      [] OTHER -> IF w.v[1] # <<>> THEN "read" ELSE "nothing"

buildStatusResponse(at, now) ==
    Marshal(statusResponse,
            <<<<at.iid, at.parameters, Max({0, Offset(at, now)})>>>>)

\* buildControlReadValue
readValue(at) ==
    LET entry(p) == <<p.factor, p.temperature, p.transitionTime, p.duration>> IN
    Marshal(readResponse,
        <<<<at.iid, at.parameters, 1,
            <<[i \in DOMAIN at.curve |-> entry(at.curve[i])], at.adjustment, at.range>>,
            at.interval, at.threshold>>>>)

-----------------------------------------------------------------------------
(* What they promise *)

\* Only an update with the flag and a curve enables, and one that is sent as
\* meant: the transition that runs is what a read gives back, with the status
\* of its own time, however the clocks of the two sides differ.
RunsAsRequested(config, now, later) ==
    LET request == Marshal(controlWrite, <<<<>>, <<config>>>>)
        received == Unmarshal(request, controlWrite)
        asked == config[3] = 1 /\ config[4][1] # <<>>
        at == enable(received.v[2][1], now)
        answer == Unmarshal(readValue(at), readResponse)
        status == Unmarshal(buildStatusResponse(at, later), statusResponse)
        sent(a) == <<a[1], a[2], a[4], a[5], a[6]>>
    IN /\ command(request) = (IF asked THEN "enable" ELSE "disable")
       /\ received.err = "none"
       /\ asked =>
            /\ answer.err = "none"
            /\ sent(answer.v[1]) =
                   sent([config EXCEPT ![5] = IF @ = 0 THEN 60000 ELSE @])
            /\ status.err = "none"
            /\ status.v[1] = <<config[1], config[2], Max({0, later - now})>>

=============================================================================
