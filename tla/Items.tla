------------------------------- MODULE Items -------------------------------
(***************************************************************************)
(* The items of TLV8: how tlv8/writer.go writes values as items of a tag,  *)
(* a length and bytes, and how tlv8/reader.go reads them into the values   *)
(* of each tag, its buckets.  A byte is a number below Base, which makes a *)
(* difference to lengths and to numbers of more than one byte only.        *)
(***************************************************************************)
EXTENDS Integers, Sequences, SequencesExt

CONSTANTS
    Fragment,   \* the longest value of one item: 255
    Base        \* the number of different bytes: 256

ASSUME FragmentAssumption == Fragment \in Nat /\ Fragment >= 8
ASSUME BaseAssumption == Base \in Nat /\ Base > Fragment /\ Base % 2 = 0

Byte == 0..(Base - 1)

\* The bytes of each type of number, and the types that have a sign.
Width == [uint8 |-> 1, bool |-> 1, uint16 |-> 2, int16 |-> 2, uint32 |-> 4,
          int32 |-> 4, float32 |-> 4, uint64 |-> 8, int64 |-> 8]

Number   == DOMAIN Width
Signed   == {"int16", "int32", "int64"}

-----------------------------------------------------------------------------
(* writer.go *)

\* Two's complement, the low byte first.
LittleEndian(n, width) ==
    LET high[i \in 1..width] == IF i = 1 THEN n ELSE high[i - 1] \div Base
    IN [i \in 1..width |-> high[i] % Base]

Item(tag, value) == <<tag, Len(value)>> \o value

\* Mutant: the elements of a list follow each other directly.
NoDelimiter == <<>>

Delimiter == <<0, 0>>

\* A value in as many items as it takes; nothing at all for an empty one.
writeBytes(tag, value) ==
    LET fragments == (Len(value) + Fragment - 1) \div Fragment
        End(i) == IF i = fragments THEN Len(value) ELSE i * Fragment
    IN FlattenSeq([i \in 1..fragments |->
           Item(tag, SubSeq(value, (i - 1) * Fragment + 1, End(i)))])

\* Every number has its width, but writeInt64 writes four bytes of the eight.
Sent(kind) == IF kind = "int64" THEN 4 ELSE Width[kind]

writeNumber(tag, kind, n) == Item(tag, LittleEndian(n, Sent(kind)))

\* The elements of a list (encoder.go): a delimiter separates them.
writeList(tag, list) ==
    FlattenSeq([i \in DOMAIN list |->
        (IF i > 1 THEN Delimiter ELSE <<>>) \o writeBytes(tag, list[i])])

-----------------------------------------------------------------------------
(* reader.go: the values of each tag, in buckets *)

NoBuckets == [t \in {} |-> <<>>]

\* Mutant: every item opens a bucket.
PutApart(h, tag, value, afterDelimiter) ==
    IF value = <<>> THEN h
    ELSE IF tag \notin DOMAIN h THEN [t \in DOMAIN h \cup {tag} |-> IF t = tag THEN <<value>> ELSE h[t]]
    ELSE [h EXCEPT ![tag] = Append(@, value)]

\* Mutant: tags are expected in ascending order.
PutAscending(h, tag, value, afterDelimiter) ==
    IF value = <<>> \/ \E t \in DOMAIN h : t > tag THEN h
    ELSE IF tag \notin DOMAIN h THEN [t \in DOMAIN h \cup {tag} |-> IF t = tag THEN <<value>> ELSE h[t]]
    ELSE IF afterDelimiter THEN [h EXCEPT ![tag] = Append(@, value)]
    ELSE [h EXCEPT ![tag] = <<@[1] \o value>>]

\* An item right after a delimiter opens another bucket of its tag; any other
\* one continues the first bucket, which is then the only one.
Put(h, tag, value, afterDelimiter) ==
    IF value = <<>> THEN h
    ELSE IF tag \notin DOMAIN h THEN [t \in DOMAIN h \cup {tag} |-> IF t = tag THEN <<value>> ELSE h[t]]
    ELSE IF afterDelimiter THEN [h EXCEPT ![tag] = Append(@, value)]
    ELSE [h EXCEPT ![tag] = <<@[1] \o value>>]

\* The items from byte p on, and how the reader ends.
itemsFrom(b, p) ==
    LET End(err) == [err |-> err, items |-> <<>>]
        from[q \in 1..(Len(b) + 1)] ==
            IF q = Len(b) + 1 THEN End("none")
            ELSE IF q = Len(b) \/ (q = Len(b) - 1 /\ b[q + 1] > 0) THEN End("EOF")
            ELSE IF q + 1 + b[q + 1] > Len(b) THEN End("unexpectedEOF")
            ELSE LET rest == from[q + 2 + b[q + 1]]
                 IN [rest EXCEPT !.items =
                        <<[tag |-> b[q], value |-> SubSeq(b, q + 2, q + 1 + b[q + 1])]>> \o @]
    IN from[p]

buckets(items) ==
    LET afterDelimiter(i) == i > 1 /\ items[i - 1].tag = 0 /\ items[i - 1].value = <<>>
        h[i \in 0..Len(items)] ==
            IF i = 0 THEN NoBuckets
            ELSE Put(h[i - 1], items[i].tag, items[i].value, afterDelimiter(i))
    IN h[Len(items)]

read(b) ==
    LET r == itemsFrom(b, 1)
    IN IF b = <<>> \/ r.err # "none" THEN [err |-> r.err, h |-> NoBuckets]
       ELSE [err |-> "none", h |-> buckets(r.items)]

\* The first bucket of a tag, and what is left.
hasBytes(h, tag) == tag \in DOMAIN h

readBytes(h, tag) == h[tag][1]

pop(h, tag) ==
    IF Len(h[tag]) > 1 THEN [h EXCEPT ![tag] = Tail(@)]
    ELSE [t \in DOMAIN h \ {tag} |-> h[t]]

\* Mutant: a narrow number takes the sign of its highest byte.
NumberExtended(kind, b) ==
    LET width == Max({1} \cup {w \in {2, 4, 8} : w <= Width[kind] /\ w <= Len(b)})
        signed == (kind \in Signed \/ width < Width[kind]) /\ 2 * b[width] >= Base
        from[i \in 1..width] ==
            IF i = width THEN (IF signed THEN b[i] - Base ELSE b[i])
            ELSE b[i] + Base * from[i + 1]
    IN IF kind = "bool" THEN (IF b[1] = 1 THEN 1 ELSE 0) ELSE from[1]

\* Fewer bytes than the field has are read as the widest number they hold; a
\* single byte has no sign.
number(kind, b) ==
    LET width == Max({1} \cup {w \in {2, 4, 8} : w <= Width[kind] /\ w <= Len(b)})
        signed == kind \in Signed /\ width > 1 /\ 2 * b[width] >= Base
        from[i \in 1..width] ==
            IF i = width THEN (IF signed THEN b[i] - Base ELSE b[i])
            ELSE b[i] + Base * from[i + 1]
    IN IF kind = "bool" THEN (IF b[1] = 1 THEN 1 ELSE 0) ELSE from[1]

-----------------------------------------------------------------------------
(* What they promise *)

\* Values of each tag, one or a list, are read as they were written: however
\* long a value is, if it is the first of its tag; and one fragment otherwise.
ReadsItems(lists, tags) ==
    LET b == FlattenSeq([i \in DOMAIN lists |-> writeList(tags[i], lists[i])])
    IN /\ read(b).err = "none"
       /\ DOMAIN read(b).h = Range(tags)
       /\ \A i \in DOMAIN lists : read(b).h[tags[i]] = lists[i]

\* A number in fewer bytes than the field has is the same number.
ReadsNarrow(from, to, n) ==
    LET d == read(writeNumber(1, from, n))
    IN d.err = "none" /\ number(to, readBytes(d.h, 1)) = n

=============================================================================
