-------------------------------- MODULE Tlv8 --------------------------------
(***************************************************************************)
(* The TLV8 codec (tlv8/): encoder.go writes a structure as items,         *)
(* decoder.go turns the items of a reader into a structure again.          *)
(*                                                                         *)
(* A structure type is a sequence of fields, a structure the sequence of   *)
(* their values: a number, a sequence of bytes (strings too), a structure, *)
(* or a sequence of structures; a nil pointer is <<>>.  A float32 is the   *)
(* number that its bits make.                                              *)
(*                                                                         *)
(* These are functions of finite data for TLC to evaluate; they recur over *)
(* nested structures.                                                      *)
(***************************************************************************)
EXTENDS Items

-----------------------------------------------------------------------------
(* Structure types *)

Field(tag, kind)  == [tag |-> tag, kind |-> kind, optional |-> FALSE, of |-> <<>>]
Struct(tag, S)    == [Field(tag, "struct") EXCEPT !.of = S]
Pointer(tag, S)   == [Field(tag, "pointer") EXCEPT !.of = S]
List(tag, S)      == [Field(tag, "list") EXCEPT !.of = S]
Inline(S)         == [Field(0, "inline") EXCEPT !.of = S]   \* the tag "-"
Optional(f)       == [f EXCEPT !.optional = TRUE]

RECURSIVE Zero(_)
Zero(S) ==
    [i \in DOMAIN S |->
        IF S[i].kind \in Number THEN 0
        ELSE IF S[i].kind = "struct" THEN Zero(S[i].of) ELSE <<>>]

-----------------------------------------------------------------------------
(* encoder.go *)

RECURSIVE structPayload(_, _)
structPayload(S, v) ==
    LET elements(f, list) ==
            LET payloads == [i \in DOMAIN list |-> structPayload(f.of, list[i])]
            IN IF f.kind = "list" THEN writeList(f.tag, payloads)
               ELSE FlattenSeq([i \in DOMAIN list |->
                        (IF i > 1 THEN Delimiter ELSE <<>>) \o payloads[i]])
        payload(f, x) ==
            CASE f.kind \in Number                -> writeNumber(f.tag, f.kind, x)
              [] f.kind = "bytes"                 -> writeBytes(f.tag, x)
              [] f.kind \in {"list", "inline"}    -> elements(f, x)
              [] f.kind = "pointer" /\ x = <<>>   -> <<>>
              [] OTHER -> writeBytes(f.tag, structPayload(f.of, x))
    IN FlattenSeq([i \in DOMAIN S |-> payload(S[i], v[i])])

-----------------------------------------------------------------------------
(* decoder.go *)

Decoded(err, h, v) == [err |-> err, h |-> h, v |-> v]

RECURSIVE decode(_, _, _, _), decodeList(_, _, _)

\* Fields from the i-th on.  A number or bytes that are not there are an error
\* unless the field is optional; a structure that is not there, or that lacks
\* one of its own, stays as it is.
decode(h, S, i, v) ==
    IF i > Len(S) THEN Decoded("none", h, v)
    ELSE
    LET f == S[i]
        skip(rest) == decode(rest, S, i + 1, v)
        set(x, rest) == decode(rest, S, i + 1, [v EXCEPT ![i] = x])
    IN
    CASE f.kind \in {"list", "inline"} ->
            LET r == decodeList(h, f, <<>>)
            IN IF r.err = "none" THEN set(r.v, r.h) ELSE Decoded(r.err, r.h, v)
      [] f.kind \notin {"list", "inline"} /\ ~hasBytes(h, f.tag) ->
            IF f.optional \/ f.kind \in {"struct", "pointer"}
            THEN skip(h) ELSE Decoded("EOF", h, v)
      [] f.kind \in {"struct", "pointer"} /\ hasBytes(h, f.tag) ->
            LET d == read(readBytes(h, f.tag))
                r == IF d.err # "none" THEN Decoded(d.err, h, v)
                     ELSE decode(d.h, f.of, 1, Zero(f.of))
            IN CASE r.err = "none" -> set(r.v, pop(h, f.tag))
                 [] r.err = "EOF"  -> skip(pop(h, f.tag))
                 [] OTHER          -> Decoded(r.err, pop(h, f.tag), v)
      [] f.kind = "bytes" /\ hasBytes(h, f.tag) ->
            set(readBytes(h, f.tag), pop(h, f.tag))
      [] f.kind \in Number /\ hasBytes(h, f.tag) ->
            IF f.kind = "float32" /\ Len(readBytes(h, f.tag)) < 4
            THEN Decoded("panic", h, v)
            ELSE set(number(f.kind, readBytes(h, f.tag)), pop(h, f.tag))

\* The elements of a list: one bucket each, or inline among the fields.  Bytes
\* that are no items end the list; an element that lacks a field is still one.
decodeList(h, f, list) ==
    LET zero == Zero(f.of)
        inline == f.kind = "inline"
        d == IF inline THEN [err |-> "none", h |-> h] ELSE read(readBytes(h, f.tag))
        r == decode(d.h, f.of, 1, zero)
        rest == IF inline THEN r.h ELSE pop(h, f.tag)
        longer == IF r.err \in {"none", "EOF"} THEN Append(list, r.v) ELSE list
    IN
    IF ~inline /\ ~hasBytes(h, f.tag) THEN Decoded("none", h, list)
    ELSE IF ~inline /\ d.err # "none" THEN Decoded("none", rest, list)
    ELSE IF inline /\ r.err = "EOF" THEN Decoded("none", rest, list)
    ELSE IF DOMAIN rest = {} THEN Decoded("none", rest, longer)
    ELSE IF r.err # "none" THEN Decoded(r.err, rest, list)
    ELSE decodeList(rest, f, longer)

-----------------------------------------------------------------------------
(* marshal.go, unmarshal.go *)

Marshal(S, v) == structPayload(S, v)

Unmarshal(b, S) ==
    LET d == read(b)
    IN IF d.err # "none" THEN Decoded(d.err, d.h, Zero(S))
       ELSE decode(d.h, S, 1, Zero(S))

-----------------------------------------------------------------------------
(* What the codec promises *)

\* The structures that the codec can carry: a required value is not empty, an
\* int64 fits in the four bytes that are written, an element of a list but the
\* first is one fragment, and elements inline have one field.
RECURSIVE Carried(_, _)
Carried(S, v) ==
    \A i \in DOMAIN S :
        LET f == S[i]  x == v[i] IN
        CASE f.kind = "bytes"   -> f.optional \/ x # <<>>
          [] f.kind = "int64"   -> x \div Base^3 \in -(Base \div 2)..(Base \div 2 - 1)
          [] f.kind = "struct"  -> Carried(f.of, x)
          [] f.kind = "pointer" -> x = <<>> \/ (Carried(f.of, x) /\ Marshal(f.of, x) # <<>>)
          [] f.kind \in {"list", "inline"} ->
                /\ \A j \in DOMAIN x :
                      /\ Carried(f.of, x[j])
                      /\ Len(Marshal(f.of, x[j])) \in 1..(IF j = 1 THEN 100 * Fragment ELSE Fragment)
                /\ f.kind = "inline" => Len(x) <= 1 \/ Len(f.of) = 1
          [] OTHER -> TRUE

\* What is written is read back.
ReadsBack(S, v) ==
    Carried(S, v) =>
        LET r == Unmarshal(Marshal(S, v), S) IN r.err = "none" /\ r.v = v

\* Fields are found in any order, and among others that are not known.
ReadsUnordered(S, v, order, unknown) ==
    LET b == FlattenSeq([i \in DOMAIN S |-> Marshal(<<S[order[i]]>>, <<v[order[i]]>>)])
    IN Carried(S, v) =>
        LET r == Unmarshal(unknown \o b, S) IN r.err = "none" /\ r.v = v

=============================================================================
