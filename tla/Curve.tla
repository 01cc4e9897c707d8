------------------------------- MODULE Curve -------------------------------
(***************************************************************************)
(* The temperature of an Adaptive Lighting curve at a point in time        *)
(* (adaptive/curve.go).  A curve is a sequence of points, of which each is *)
(* reached by a transition and then held.  Times are milliseconds,         *)
(* temperatures whole mired.  The code interpolates with float64; here the *)
(* quotient is exact, and only rounded as in math.Round.                   *)
(***************************************************************************)
EXTENDS Integers, Sequences, FiniteSetsExt

Point == [temperature : Int, factor : Int, transitionTime : Nat, duration : Nat]

\* The mired that 0/0 converts to: the smallest int, or 0, by the architecture.
NaN == {-1000000, 0}

\* math.Round: half away from zero.
Round(n, d) == IF n >= 0 THEN (2 * n + d) \div (2 * d) ELSE -((2 * (-n) + d) \div (2 * d))

Clamp(v, low, high) == IF v < low THEN low ELSE IF v > high THEN high ELSE v

\* When point i is reached: its transition comes after the hold of the one before.
ReachedAt(curve, i) ==
    LET reached[n \in DOMAIN curve] ==
            IF n = 1 THEN curve[1].transitionTime
            ELSE reached[n - 1] + curve[n - 1].duration + curve[n].transitionTime
    IN reached[i]

\* Mutant: a segment ends where its hold ends.
HoldSegments(curve, offset) ==
    {i \in 1..(Len(curve) - 1) :
        offset >= ReachedAt(curve, i) /\ offset <= ReachedAt(curve, i) + curve[i].duration}

\* Segments that the offset is in, its end included.
Segments(curve, offset) ==
    {i \in 1..(Len(curve) - 1) :
        /\ offset >= ReachedAt(curve, i)
        /\ offset <= ReachedAt(curve, i) + curve[i].duration + curve[i + 1].transitionTime}

\* Mutant: the time since the point was reached, with its hold, is interpolated.
InterpolateFromReached(lower, upper, since, b) ==
    LET d == upper.transitionTime
        between(x, y) == x * d + (y - x) * since
    IN IF d = 0 THEN NaN
       ELSE {Round(between(lower.temperature, upper.temperature)
                     + between(lower.factor, upper.factor) * b, d)}

\* Between two points, for the time since the lower one was reached.
Interpolate(lower, upper, since, b) ==
    LET d == upper.transitionTime
        between(x, y) == x * d + (y - x) * (since - lower.duration)
    IN IF d = 0 THEN NaN
       ELSE {Round(between(lower.temperature, upper.temperature)
                     + between(lower.factor, upper.factor) * b, d)}

\* The temperatures evaluate can return; none when it returns false.
evaluate(curve, offset, brightness, range) ==
    IF Segments(curve, offset) = {} THEN {}
    ELSE LET i == Min(Segments(curve, offset))
             since == offset - ReachedAt(curve, i)
             b == Clamp(brightness, range[1], range[2])
         IN IF curve[i].duration > 0 /\ since <= curve[i].duration
            THEN {curve[i].temperature + curve[i].factor * b}
            ELSE Interpolate(curve[i], curve[i + 1], since, b)

-----------------------------------------------------------------------------
(* What it promises *)

\* There is a temperature from when the first point is reached until the last
\* one is, and at no other time.
Covers(curve, offset) ==
    evaluate(curve, offset, 0, <<0, 0>>) # {}
        <=> /\ Len(curve) >= 2
            /\ offset \in ReachedAt(curve, 1)..ReachedAt(curve, Len(curve))

\* A temperature lies between those of the points; and a point that takes time
\* to reach has its own when it is reached.  A pair of points at one time, with
\* nothing between them, is left out: there the code divides zero by zero.
Interpolates(curve, offset, brightness, range) ==
    LET b == Clamp(brightness, range[1], range[2])
        at(i) == curve[i].temperature + curve[i].factor * b
        mired == evaluate(curve, offset, brightness, range)
    IN (\A i \in 1..(Len(curve) - 1) : curve[i].duration + curve[i + 1].transitionTime > 0) =>
        /\ \A m \in mired :
              m \in Min({at(i) : i \in DOMAIN curve})..Max({at(i) : i \in DOMAIN curve})
        /\ \A i \in 2..Len(curve) :
              curve[i].transitionTime > 0 /\ offset = ReachedAt(curve, i) => mired = {at(i)}

=============================================================================
