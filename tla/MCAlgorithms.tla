---------------------------- MODULE MCAlgorithms ----------------------------
(***************************************************************************)
(* The algorithms that have no state of their own, on bounded inputs: each *)
(* step chooses an input, the invariants say what the algorithm promises   *)
(* for it.                                                                 *)
(***************************************************************************)
EXTENDS Transition, Algorithms

Bytes(n) == [i \in 1..n |-> i % 7]

\* Lengths around the end of a fragment.
Lengths == {1, Fragment - 1, Fragment, Fragment + 1, 2 * Fragment, 2 * Fragment + 1}

Numbers(kind) ==
    CASE kind = "bool" -> {0, 1}
      [] Width[kind] = 1 -> {0, 1, 255}
      [] kind \in {"uint16", "uint32", "uint64", "float32"} -> {0, 1, 255, 256, 65535}
      [] OTHER -> {-32768, -129, -1, 0, 1, 255, 32767}

RECURSIVE Default(_)
Default(S) ==
    [i \in DOMAIN S |->
        LET f == S[i] IN
        CASE f.kind \in Number            -> 1
          [] f.kind = "bytes"             -> Bytes(2)
          [] f.kind = "pointer"           -> <<>>
          [] f.kind = "struct"            -> Default(f.of)
          [] f.kind \in {"list", "inline"} -> <<Default(f.of)>>]

\* Structures that differ in one place of each level from the default.
RECURSIVE Structures(_)
Structures(S) ==
    LET lists(f) ==
            {<<>>} \cup {<<x>> : x \in Structures(f.of)}
              \cup {<<x, Default(f.of)>> : x \in Structures(f.of)}
              \cup {<<Default(f.of), x>> : x \in Structures(f.of)}
              \cup {<<x, x, Default(f.of)>> : x \in Structures(f.of)}
        values(f) ==
            CASE f.kind \in Number            -> Numbers(f.kind)
              [] f.kind = "bytes"             -> {Bytes(n) : n \in Lengths \cup {0}}
              [] f.kind = "pointer"           -> {<<>>} \cup Structures(f.of)
              [] f.kind = "struct"            -> Structures(f.of)
              [] f.kind \in {"list", "inline"} -> lists(f)
    IN UNION {{[Default(S) EXCEPT ![i] = x] : x \in values(S[i])} : i \in DOMAIN S}

Types ==
    <<pairSetupPayload, pairSetupM2Payload, pairSetupM4Payload, pairSetupM6EncryptedPayload,
      pairSetupM6Payload, pairVerifyPayload, pairVerifyM1Tlv, pairVerifyM1Response,
      pairingsRequest, pairingPayload, tlv8Error, supportedConfig, controlWrite,
      statusResponse, readResponse, AudioStreamConfiguration, VideoStreamConfiguration,
      Configuration, SetupEndpoints, SetupEndpointsResponse, StreamConfiguration,
      StreamingStatus>>

Structure ==
    \E t \in DOMAIN Types : \E v \in Structures(Types[t]) :
        input' = [of |-> "structure", type |-> Types[t], value |-> v]

Announced ==
    \/ input' = [of |-> "structure", type |-> AudioStreamConfiguration,
                 value |-> DefaultAudioStreamConfiguration]
    \/ input' = [of |-> "structure", type |-> VideoStreamConfiguration,
                 value |-> DefaultVideoStreamConfiguration]

Narrow ==
    \E p \in NumberTypes : \E n \in Numbers(p[1]) \cap Numbers(p[2]) :
        input' = [of |-> "number", from |-> p[1], to |-> p[2], number |-> n]

\* A value of any length, a list, and a tag that is a delimiter's.
Written ==
    \E n, m \in Lengths, k \in {1, Fragment}, tags \in {<<1, 0, 6>>, <<0, 6, 1>>} :
        input' = [of |-> "items", tags |-> tags,
                  lists |-> <<<<Bytes(n)>>, <<Bytes(m), Bytes(k), Bytes(2)>>, <<Bytes(1)>>>>]

\* Types whose fields can be sent in another order; an item with tag 99.
Flat == {pairVerifyM1Response, pairingsRequest, SetupEndpointsResponse, transitionParameters}

Orders(n) == {[i \in 1..n |-> n + 1 - i], [i \in 1..n |-> (i % n) + 1],
              [i \in 1..n |-> IF i = 1 THEN n ELSE IF i = n THEN 1 ELSE i]}

Reordered ==
    \E S \in Flat : \E v \in Structures(S), order \in Orders(Len(S)), unknown \in {<<>>, Item(99, <<0, 0>>)} :
        input' = [of |-> "order", type |-> S, value |-> v, order |-> order, unknown |-> unknown]

Curves ==
    [1..2 -> [temperature : {200, 300}, factor : {0, -1}, transitionTime : {0, 3}, duration : {0, 2}]]
      \cup [1..3 -> [temperature : {200, 300}, factor : {-1}, transitionTime : {1, 3}, duration : {0, 2}]]
      \cup [1..1 -> [temperature : {200}, factor : {0}, transitionTime : {0}, duration : {2}]]

Evaluated ==
    \E c \in Curves, offset \in -1..14, brightness \in {5, 50} :
        input' = [of |-> "curve", curve |-> c, offset |-> offset, brightness |-> brightness]

\* The start time is eight bytes, three of them in use.
Requested ==
    \E c \in Structures(valueTransitionConfig) : \E enabled \in {0, 1}, now, later \in {100, 107} :
        /\ Carried(valueTransitionConfig, c)
        /\ input' = [of |-> "request", now |-> now, later |-> later,
                     config |-> [c EXCEPT ![2][2] = <<3, 0, 1, 0, 0, 0, 0, 0>>, ![3] = enabled]]

\* Two accessories of up to two items, or one of three; for the next start the
\* host adds an item to one, or another accessory.
Accessories(most) ==
    [id : {0, 1, 2}, name : {"A", ""}, items : UNION {[1..n -> {0, 1, 3}] : n \in 0..most}]

Larger(as) ==
    {[as EXCEPT ![k].items = Append(@, 0)] : k \in DOMAIN as}
      \cup {Append(as, [id |-> 0, name |-> "A", items |-> <<0>>])}

Numbering ==
    \E as \in [1..1 -> Accessories(3)] \cup [1..2 -> Accessories(2)] : \E larger \in Larger(as) :
        input' = [of |-> "accessories", accessories |-> as, larger |-> larger]

-----------------------------------------------------------------------------

Init == input = [of |-> "nothing"]

Next ==
    /\ input = [of |-> "nothing"]
    /\ Numbering \/ Reordered \/ Narrow \/ Written \/ Structure \/ Announced \/ Evaluated \/ Requested

Spec == Init /\ [][Next]_input

-----------------------------------------------------------------------------

\* Fields are found whatever their order and among others that are unknown, as
\* the map of reader.go suggests.
FieldsByTag ==
    input.of = "order" =>
        ReadsUnordered(input.type, input.value, input.order, input.unknown)

\* What Marshal writes, Unmarshal reads back, for the structures the program
\* uses and with values around the length of a fragment.
RoundTrip == input.of = "structure" => ReadsBack(input.type, input.value)

\* A transition is enabled and answered for as it was requested.
TransitionAsRequested ==
    input.of = "request" => RunsAsRequested(input.config, input.now, input.later)

=============================================================================
