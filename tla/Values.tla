------------------------------- MODULE Values -------------------------------
(***************************************************************************)
(* A characteristic, and what becomes of a value that is written to it:    *)
(* characteristic/c.go and the typed wrappers (int.go, float.go, bool.go,  *)
(* string.go, bytes.go).                                                   *)
(*                                                                         *)
(* A value is a Go interface{}: its dynamic type and a number.  A float64  *)
(* counts ten-thousandths; a bool is 0 or 1; the numbers of strings, of    *)
(* []byte and of the lists and maps of JSON only tell them apart, 0 is the *)
(* empty one.                                                              *)
(***************************************************************************)
EXTENDS Integers, FiniteSetsExt

\* What the library xiam/to may make of a value that is no number of its own:
\* the ints for "uint64", the values for "float64" and for "bool".
CONSTANT Parsed(_, _)

Value(type, v) == [type |-> type, v |-> v]

AnyValue ==
    [type : {"nil", "int", "uint64", "float64", "NaN", "bool", "string", "bytes", "list", "map"},
     v : Int]

nil == Value("nil", 0)

One == 10000   \* the float64 1

NaN      == Value("NaN", 0)   \* the float64 that is equal to none
Infinity == 2147483647        \* the float64s +Inf and -Inf, by their size

\* What json.Marshal has a text for.
Encodable(x) == x \notin {NaN, Value("float64", Infinity), Value("float64", -Infinity)}

Truncate(n) == IF n >= 0 THEN n \div One ELSE -((-n) \div One)   \* towards zero

-----------------------------------------------------------------------------
(* Characteristics *)

Read              == {"pr"}
Write             == {"pw"}
ReadWrite         == {"pr", "pw"}
ReadNotify        == {"pr", "ev"}
ReadWriteNotify   == {"pr", "pw", "ev"}
ReadWriteResponse == {"pr", "pw", "wr"}

IntFormat == {"uint8", "uint16", "uint32", "int32"}

TextFormat == {"string", "data", "tlv8"}

Formats == IntFormat \cup {"uint64", "float", "bool"} \cup TextFormat

\* min and max are empty, or hold the one limit; valid holds the valid values,
\* range the ends of their range.  The function that answers a read, if there
\* is one, is the host's or one that always answers nil.
New(go, type, format, permissions) ==
    [go |-> go, type |-> type, format |-> format, permissions |-> permissions,
     min |-> {}, max |-> {}, valid |-> {}, range |-> {},
     updateOnSameValue |-> FALSE, valueRequest |-> "none", val |-> nil]

Characteristic ==
    [go : {"int", "float64", "bool", "string", "bytes"}, type : STRING, format : Formats,
     permissions : SUBSET STRING, min : SUBSET Int, max : SUBSET Int, valid : SUBSET Int,
     range : SUBSET Int, updateOnSameValue : BOOLEAN, valueRequest : {"none", "nil", "host"},
     val : AnyValue]

NewInt(type, format, permissions)   == New("int", type, format, permissions)
NewFloat(type, permissions)         == New("float64", type, "float", permissions)
NewBool(type, permissions)          == New("bool", type, "bool", permissions)
NewString(type, permissions)        == New("string", type, "string", permissions)
NewBytes(type, format, permissions) == New("bytes", type, format, permissions)

AtLeast(c, min)       == [c EXCEPT !.min = {min}]
Between(c, min, max)  == [c EXCEPT !.min = {min}, !.max = {max}]
Valid(c, values)      == [c EXCEPT !.valid = values]
InRange(c, low, high) == [c EXCEPT !.range = {low, high}]
Repeating(c)          == [c EXCEPT !.updateOnSameValue = TRUE]
Answering(c, who)     == [c EXCEPT !.valueRequest = who]

IsReadable(c)         == "pr" \in c.permissions
IsWritable(c)         == "pw" \in c.permissions
RequiresTimedWrite(c) == "tw" \in c.permissions
IsObservable(c)       == "ev" \in c.permissions
IsWriteResponse(c)    == "wr" \in c.permissions

-----------------------------------------------------------------------------
(* setValue *)

\* uint64 of a negative float64 is up to the processor: amd64 wraps it around,
\* and int makes the number of it again; arm64 has 0.  Of an int it is exact.
Uint64(x) ==
    CASE x.type = "float64" -> IF x.v < 0 THEN {Truncate(x.v), 0} ELSE {Truncate(x.v)}
      [] x.type \in {"int", "bool"} -> {x.v}
      [] OTHER -> Parsed("uint64", x)

Float64(x) ==
    CASE x.type = "float64" \/ x = NaN -> {x}
      [] x.type \in {"int", "bool"} -> {Value("float64", x.v * One)}
      [] OTHER -> Parsed("float64", x)

\* Only the number 1 is true.
Bool(x) ==
    CASE x.type = "bool" -> {x}
      [] x.type = "float64" -> {Value("bool", IF x.v = One THEN 1 ELSE 0)}
      [] OTHER -> Parsed("bool", x)

\* The type of the format.  Where that is a text, any value is taken as it is.
convert(c, x) ==
    CASE c.format = "float"     -> Float64(x)
      [] c.format \in IntFormat -> {Value("int", n) : n \in Uint64(x)}
      [] c.format = "uint64"    -> {Value("uint64", n) : n \in Uint64(x)}
      [] c.format = "bool"      -> Bool(x)
      [] c.format \in TextFormat -> {x}

Limited(c, x) == c.format \in IntFormat \cup {"float"} /\ x # NaN

\* Mutant: the upper limit is not one.
ClampBelow(c, x) == IF Limited(c, x) THEN [x EXCEPT !.v = Max({@} \cup c.min)] ELSE x

\* Within min and max: a NaN is neither below nor above.
clamp(c, x) ==
    IF Limited(c, x) THEN [x EXCEPT !.v = Min({Max({@} \cup c.min)} \cup c.max)] ELSE x

validVal(c, x) ==
    x.type = "int" =>
        IF c.valid # {} THEN x.v \in c.valid
        ELSE c.range # {} => x.v \in Min(c.range)..Max(c.range)

\* What SetValueRequestFunc of the host answers: a status and, perhaps, a value.
Host(status, value) == [status |-> status, value |-> value]

NoHost == Host(0, nil)

Outcome(status, response, val) == [status |-> status, response |-> response, val |-> val]

\* The same value is ignored; a NaN is not the same as itself.
Ignored(c, x) == x = c.val /\ x # NaN /\ ~c.updateOnSameValue

\* Mutant: the value is updated before the host has agreed.
SetBeforeHost(c, x, host) ==
    {LET new == clamp(c, y) IN
     IF Ignored(c, new) THEN Outcome(0, nil, c.val)
     ELSE IF ~validVal(c, new) THEN Outcome(-70410, nil, c.val)
     ELSE Outcome(host.status, IF host.value # nil THEN host.value ELSE y, new)
     : y \in convert(c, x)}

\* Outcomes for a value of a request, or of the host itself, which is not asked
\* then (NoHost).  The response is the value before it is clamped.
setValue(c, x, host) ==
    {LET new == clamp(c, y) IN
     IF Ignored(c, new) THEN Outcome(0, nil, c.val)
     ELSE IF ~validVal(c, new) THEN Outcome(-70410, nil, c.val)
     ELSE IF host.status # 0 THEN Outcome(host.status, host.value, c.val)
     ELSE Outcome(0, IF host.value # nil THEN host.value ELSE y, new)
     : y \in convert(c, x)}

\* setValue takes a uint64 for an int, and compares with the stored value: Go
\* panics on both, the second for two lists or two maps.
Panics(c, x) ==
    \/ c.format = "uint64"
    \/ c.format \in TextFormat /\ x.type \in {"list", "map"} /\ x.type = c.val.type

SetValueRequest(c, x, host) ==
    IF IsWritable(c) THEN setValue(c, x, host) ELSE {Outcome(-70404, x, c.val)}

\* Of the typed wrappers: the value has the type of the wrapper; bytes become
\* their base64 text.
Typed(c, v) == Value(IF c.go = "bytes" THEN "string" ELSE c.go, v)

SetValue(c, v) == setValue(c, Typed(c, v), NoHost)

\* The typed functions of the host take a value for one of the wrapper's type,
\* and panic on another.
HasTypeOf(c, x) == x.type = Typed(c, 0).type \/ (x = NaN /\ c.go = "float64")

\* The values that a write of a request leaves when it panics: the stored one,
\* where setValue itself does or the host is asked with a value of another type;
\* the new one, where the host is told of it, or of the old one, of another type.
LeftByPanic(c, x) ==
    IF Panics(c, x) THEN {c.val}
    ELSE LET new == {o.val : o \in setValue(c, x, NoHost)} \ {c.val}
             mistyped == {n \in new : ~HasTypeOf(c, n)}
         IN mistyped \cup (IF mistyped # {} THEN {c.val} ELSE {})
                     \cup (IF HasTypeOf(c, c.val) THEN {} ELSE new)

\* A built-in characteristic starts with the value that SetValue leaves, or
\* with one that is assigned as it is.
Starts(c, v) == [c EXCEPT !.val = (CHOOSE o \in SetValue(c, v) : TRUE).val]
Holds(c, x)  == [c EXCEPT !.val = x]

\* The status and the value that a read has.
ValueRequest(c, host) ==
    IF ~IsReadable(c) THEN Host(-70405, nil)
    ELSE CASE c.valueRequest = "none" -> Host(0, c.val)
           [] c.valueRequest = "nil"  -> Host(0, nil)
           [] c.valueRequest = "host" -> host

-----------------------------------------------------------------------------
(* What they promise *)

\* The value is within the limits, and valid.
Accepts(c) ==
    /\ \A m \in c.min : c.val.v >= m
    /\ \A m \in c.max : c.val.v <= m
    /\ c.val.type = "int" =>
          /\ c.valid # {} => c.val.v \in c.valid
          /\ c.valid = {} /\ c.range # {} => c.val.v \in Min(c.range)..Max(c.range)

=============================================================================
