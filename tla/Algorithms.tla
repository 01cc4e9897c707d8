----------------------------- MODULE Algorithms -----------------------------
(***************************************************************************)
(* What the algorithms without state of their own promise for an input:    *)
(* the curve of Adaptive Lighting, the identifiers of accessories, and the *)
(* items of TLV8.  MCAlgorithms chooses inputs within bounds, and adds the *)
(* structures that are made of items.                                      *)
(***************************************************************************)
EXTENDS Curve, Identifiers, Items

VARIABLE input

\* The inputs of evaluate and add.
CurveInput == [of : {"curve"}, curve : Seq(Point), offset : Int, brightness : Int]

AccessoriesInput(Names) ==
    LET Accessory == [id : Nat, name : Names, items : Seq(Nat)]
    IN [of : {"accessories"}, accessories : Seq(Accessory), larger : Seq(Accessory)]

\* Values to write: one of any length for each tag, which others of up to a
\* fragment may follow as a list.
ItemsInput ==
    {i \in [of : {"items"}, lists : Seq(Seq(Seq(Byte))), tags : Seq(Byte)] :
        /\ DOMAIN i.tags = DOMAIN i.lists /\ IsInjective(i.tags)
        /\ \A k \in DOMAIN i.lists :
              /\ i.lists[k] # <<>>
              /\ \A j \in DOMAIN i.lists[k] :
                    i.lists[k][j] # <<>> /\ (j > 1 => Len(i.lists[k][j]) <= Fragment)}

\* The types a number is sent and read as; those it is read as are not narrower.
Unsigned == {"uint8", "uint16", "uint32", "uint64"}

NumberTypes ==
    {p \in Unsigned \X Unsigned \cup Signed \X Signed \cup {<<"bool", "bool">>, <<"float32", "float32">>} :
        Sent(p[1]) <= Width[p[2]]}

\* The numbers that fit in what is sent of a type.
Sendable(kind) ==
    LET power[i \in 0..8] == IF i = 0 THEN 1 ELSE Base * power[i - 1]
        half == (Base \div 2) * power[Sent(kind) - 1]
    IN CASE kind = "bool"      -> {0, 1}
         [] kind \in Signed    -> (-half)..(half - 1)
         [] OTHER              -> 0..(power[Sent(kind)] - 1)

NumberInput ==
    {i \in [of : {"number"}, from : Number, to : Number, number : Int] :
        <<i.from, i.to>> \in NumberTypes /\ i.number \in Sendable(i.from)}

-----------------------------------------------------------------------------

\* "ok is false when offset is past the end of the curve": there is a
\* temperature exactly between the first and the last point.
CurveCovered == input.of = "curve" => Covers(input.curve, input.offset)

\* A curve runs through its points and never leaves their range.
CurveInterpolates ==
    input.of = "curve" =>
        Interpolates(input.curve, input.offset, input.brightness, <<10, 100>>)

\* "every accessory has a unique id, which must not change between system
\* restarts": nor do those of services and characteristics.
IdentifiersKept ==
    input.of = "accessories" => Identifies(input.accessories, input.larger)

\* What the writer makes of values, in as many items as they take, the reader
\* puts together again, each to its tag and its place in a list.
ItemsReadBack == input.of = "items" => ReadsItems(input.lists, input.tags)

\* A number that was sent in fewer bytes than its field has is the same.
NarrowNumbers == input.of = "number" => ReadsNarrow(input.from, input.to, input.number)

=============================================================================
