---------------------------- MODULE AccessProofs ----------------------------
(***************************************************************************)
(* Proofs about Access, for any accessories, requests and values.          *)
(***************************************************************************)
EXTENDS Access, IdentifiersProofs

-----------------------------------------------------------------------------
(* What becomes of a value *)

LEMMA MaxWith ==
    ASSUME NEW a \in Int, NEW S \in SUBSET Int, \A m, n \in S : m = n
    PROVE  /\ Max({a} \cup S) \in {a} \cup S
           /\ \A m \in {a} \cup S : Max({a} \cup S) >= m
<1> DEFINE T == {a} \cup S
<1>1. \E x \in T : \A y \in T : x >= y
  <2>1. CASE \E m \in S : m >= a
    BY <2>1
  <2>2. CASE \A m \in S : a >= m
    BY <2>2
  <2> QED
    BY <2>1, <2>2
<1> HIDE DEF T
<1>2. Max(T) \in T /\ \A y \in T : Max(T) >= y
  BY <1>1, Zenon DEF Max
<1> QED
  BY <1>2 DEF T

LEMMA MinWith ==
    ASSUME NEW a \in Int, NEW S \in SUBSET Int, \A m, n \in S : m = n
    PROVE  /\ Min({a} \cup S) \in {a} \cup S
           /\ \A m \in {a} \cup S : Min({a} \cup S) <= m
<1> DEFINE T == {a} \cup S
<1>1. \E x \in T : \A y \in T : x =< y
  <2>1. CASE \E m \in S : m <= a
    BY <2>1
  <2>2. CASE \A m \in S : a <= m
    BY <2>2
  <2> QED
    BY <2>1, <2>2
<1> HIDE DEF T
<1>2. Min(T) \in T /\ \A y \in T : Min(T) =< y
  BY <1>1, Zenon DEF Min
<1> QED
  BY <1>2 DEF T

\* clamp keeps the type, and leaves a number within both limits.
LEMMA Clamped ==
    ASSUME NEW c, WellFormed(c), NEW x \in AnyValue
    PROVE  /\ clamp(c, x) \in AnyValue
           /\ clamp(c, x).type = x.type
           /\ ~Limited(c, x) => clamp(c, x) = x
           /\ Limited(c, x) => /\ \A m \in c.min : clamp(c, x).v >= m
                               /\ \A m \in c.max : clamp(c, x).v <= m
<1>0. CASE ~Limited(c, x)
  BY <1>0, Zenon DEF clamp
<1> SUFFICES ASSUME Limited(c, x)
             PROVE  /\ clamp(c, x) \in AnyValue
                    /\ clamp(c, x).type = x.type
                    /\ \A m \in c.min : clamp(c, x).v >= m
                    /\ \A m \in c.max : clamp(c, x).v <= m
  BY <1>0, Zenon
<1> DEFINE low  == Max({x.v} \cup c.min)
           both == Min({low} \cup c.max)
<1>1. /\ c.min \in SUBSET Int /\ \A m, n \in c.min : m = n
      /\ c.max \in SUBSET Int /\ \A m, n \in c.max : m = n
      /\ \A m \in c.min, n \in c.max : m <= n
  BY DEF WellFormed, Characteristic
<1>2. x.v \in Int
  BY DEF AnyValue
<1>3. low \in {x.v} \cup c.min /\ \A m \in {x.v} \cup c.min : low >= m
  BY <1>1, <1>2, MaxWith, Zenon
<1>4. low \in Int
  BY <1>1, <1>2, <1>3
<1>5. both \in {low} \cup c.max /\ \A m \in {low} \cup c.max : both <= m
  <2> HIDE DEF low
  <2> QED
    BY <1>1, <1>4, MinWith, Zenon
<1>6. clamp(c, x) = [x EXCEPT !.v = both]
  BY Zenon DEF clamp
<1> HIDE DEF low, both
<1>7. both \in Int /\ (\A m \in c.min : both >= m) /\ \A m \in c.max : both <= m
  BY <1>1, <1>3, <1>4, <1>5
<1>8. /\ clamp(c, x) \in AnyValue
      /\ clamp(c, x).type = x.type
      /\ clamp(c, x).v = both
  BY <1>6, <1>7 DEF AnyValue
<1> QED
  BY <1>7, <1>8, Zenon

\* A value that the controller or the host may write to c, and what xiam/to
\* makes of it where convert asks for that.
Fits(c, x) ==
    /\ x \in AnyValue
    /\ \/ x.type = c.go
       \/ /\ Parsed("uint64", x) \subseteq Int
          /\ Parsed("float64", x) \subseteq {y \in AnyValue : y.type = "float64" \/ y = NaN}
          /\ Parsed("bool", x) \subseteq {Value("bool", 0), Value("bool", 1)}
       \/ c.format \in TextFormat

LEMMA Truncated ==
    ASSUME NEW n \in Int PROVE Truncate(n) \in Int
BY DEF Truncate, One

LEMMA Typing ==
    ASSUME NEW c, WellFormed(c)
    PROVE  /\ c \in Characteristic /\ c.val \in AnyValue
           /\ c.go \in {"int", "float64", "bool", "string", "bytes"}
           /\ c.format \in IntFormat \cup {"uint64", "float", "bool"} \cup TextFormat
           /\ (c.go = "int") <=> (c.format \in IntFormat \cup {"uint64"})
           /\ (c.go = "float64") <=> (c.format = "float")
           /\ (c.go = "bool") <=> (c.format = "bool")
           /\ Typed(c, 0).type = IF c.go = "bytes" THEN "string" ELSE c.go
BY DEF WellFormed, Characteristic, Formats, Typed, Value

\* What convert makes of it has the type that Value() asserts, except where that
\* is a text, which is taken as it is.
LEMMA Converted ==
    ASSUME NEW c, WellFormed(c), NEW x, Fits(c, x), NEW y \in convert(c, x)
    PROVE  /\ y \in AnyValue
           /\ c.format \notin TextFormat \cup {"uint64"} => HasTypeOf(c, y)
<1>1. x \in AnyValue /\ x.v \in Int
  BY DEF Fits, AnyValue
<1>2. /\ c.format \in IntFormat \cup {"uint64", "float", "bool"} \cup TextFormat
      /\ (c.go = "int") <=> (c.format \in IntFormat \cup {"uint64"})
      /\ (c.go = "float64") <=> (c.format = "float")
      /\ (c.go = "bool") <=> (c.format = "bool")
      /\ Typed(c, 0).type = IF c.go = "bytes" THEN "string" ELSE c.go
  BY Typing, Zenon
<1>3. c.format \notin TextFormat =>
        /\ x.type # c.go => Parsed("uint64", x) \subseteq Int
        /\ x.type # c.go =>
              Parsed("float64", x) \subseteq {z \in AnyValue : z.type = "float64" \/ z = NaN}
        /\ x.type # c.go => Parsed("bool", x) \subseteq {Value("bool", 0), Value("bool", 1)}
  BY Zenon DEF Fits
<1>4. CASE c.format = "float"
  <2>1. convert(c, x) = Float64(x)
    BY <1>4 DEF convert, IntFormat, TextFormat
  <2>2. y \in {z \in AnyValue : z.type = "float64" \/ z = NaN}
    <3>1. CASE x.type = "float64"
      BY <1>1, <2>1, <3>1 DEF Float64
    <3>2. CASE x = NaN
      BY <1>1, <2>1, <3>2 DEF Float64, NaN, Value
    <3>3. CASE x.type \in {"int", "bool"}
      <4>1. y = Value("float64", x.v * One)
        BY <2>1, <3>3 DEF Float64, NaN, Value
      <4> QED
        BY <1>1, <4>1 DEF Value, AnyValue, One
    <3>4. CASE x.type \notin {"int", "bool", "float64"} /\ x # NaN
      <4>1. y \in Parsed("float64", x)
        BY <2>1, <3>4 DEF Float64
      <4> QED
        BY <1>2, <1>3, <1>4, <3>4, <4>1 DEF TextFormat
    <3> QED
      BY <3>1, <3>2, <3>3, <3>4
  <2> QED
    BY <1>2, <1>4, <2>2 DEF HasTypeOf
<1>5. ASSUME c.format \in IntFormat \cup {"uint64"}, NEW n \in Uint64(x)
      PROVE  n \in Int
  <2>1. c.format \notin TextFormat
    BY <1>5 DEF IntFormat, TextFormat
  <2>2. c.go = "int"
    BY <1>2, <1>5
  <2>3. CASE x.type = "float64"
    BY <1>1, <1>5, <2>3, Truncated DEF Uint64
  <2>4. CASE x.type \in {"int", "bool"}
    BY <1>1, <1>5, <2>4 DEF Uint64
  <2>5. CASE x.type \notin {"int", "bool", "float64"}
    <3>1. n \in Parsed("uint64", x)
      BY <1>5, <2>5 DEF Uint64
    <3> QED
      BY <1>3, <2>1, <2>2, <2>5, <3>1
  <2> QED
    BY <2>3, <2>4, <2>5
<1>6. CASE c.format \in IntFormat
  <2>1. PICK n \in Uint64(x) : y = Value("int", n)
    <3>1. c.format # "float"
      BY <1>6 DEF IntFormat
    <3>2. c.format \notin {"uint64", "bool"} \cup TextFormat
      BY <1>6 DEF IntFormat, TextFormat
    <3>3. convert(c, x) = {Value("int", k) : k \in Uint64(x)}
      BY <1>6, <3>1, <3>2 DEF convert
    <3> QED
      BY <3>3, Zenon
  <2>2. n \in Int
    BY <1>5, <1>6
  <2> QED
    BY <1>2, <1>6, <2>1, <2>2 DEF Value, AnyValue, HasTypeOf
<1>7. CASE c.format = "uint64"
  <2>1. PICK n \in Uint64(x) : y = Value("uint64", n)
    <3>1. convert(c, x) = {Value("uint64", k) : k \in Uint64(x)}
      BY <1>7 DEF convert, IntFormat, TextFormat
    <3> QED
      BY <3>1, Zenon
  <2>2. n \in Int
    BY <1>5, <1>7
  <2> QED
    BY <1>7, <2>1, <2>2 DEF Value, AnyValue
<1>8. CASE c.format = "bool"
  <2>1. convert(c, x) = Bool(x)
    BY <1>8 DEF convert, IntFormat, TextFormat
  <2>2. y \in AnyValue /\ y.type = "bool"
    <3>1. CASE x.type = "bool"
      BY <1>1, <2>1, <3>1 DEF Bool
    <3>2. CASE x.type = "float64"
      <4>1. y \in {Value("bool", 0), Value("bool", 1)}
        BY <2>1, <3>2 DEF Bool
      <4> QED
        BY <4>1 DEF Value, AnyValue
    <3>3. CASE x.type \notin {"bool", "float64"}
      <4>1. y \in Parsed("bool", x)
        BY <2>1, <3>3 DEF Bool
      <4>2. y \in {Value("bool", 0), Value("bool", 1)}
        BY <1>2, <1>3, <1>8, <3>3, <4>1 DEF TextFormat
      <4> QED
        BY <4>2 DEF Value, AnyValue
    <3> QED
      BY <3>1, <3>2, <3>3
  <2> QED
    BY <1>2, <1>8, <2>2 DEF HasTypeOf
<1>9. CASE c.format \in TextFormat
  <2>1. convert(c, x) = {x}
    BY <1>9 DEF convert, IntFormat, TextFormat
  <2> QED
    BY <1>1, <1>9, <2>1
<1> QED
  BY <1>2, <1>4, <1>6, <1>7, <1>8, <1>9

-----------------------------------------------------------------------------
(* setValue *)

\* What an outcome o of writing x to c may be.
Refusal(c, o) == o.status \notin {0, NoStatus} /\ o.val = c.val

Success(c, x, o) ==
    /\ o.status = 0
    /\ \E y \in convert(c, x) :
          /\ o.val = clamp(c, y)
          /\ o.val = c.val \/ validVal(c, o.val)

\* The outcome for the converted value y.
OutcomeOf(c, y, host) ==
    LET new == clamp(c, y) IN
    IF Ignored(c, new) THEN Outcome(0, nil, c.val)
    ELSE IF ~validVal(c, new) THEN Outcome(-70410, nil, c.val)
    ELSE IF host.status # 0 THEN Outcome(host.status, host.value, c.val)
    ELSE Outcome(0, IF host.value # nil THEN host.value ELSE y, new)

\* A written value is refused and the stored one stays, or it is converted,
\* limited, and valid or the one that was stored.
LEMMA SetOutcome ==
    ASSUME NEW c, NEW x, NEW host, host.status # NoStatus,
           NEW o \in setValue(c, x, host)
    PROVE  Refusal(c, o) \/ Success(c, x, o)
<1>1. PICK y \in convert(c, x) : o = OutcomeOf(c, y, host)
  <2>1. setValue(c, x, host) = {OutcomeOf(c, y, host) : y \in convert(c, x)}
    BY DEF setValue, OutcomeOf
  <2> QED
    BY <2>1, Zenon
<1> DEFINE new == clamp(c, y)
<1>2. CASE Ignored(c, new)
  <2>1. o = Outcome(0, nil, c.val)
    BY <1>1, <1>2 DEF OutcomeOf
  <2>2. o.status = 0 /\ o.val = c.val /\ new = c.val
    BY <1>2, <2>1 DEF Outcome, Ignored
  <2> QED
    BY <2>2, Zenon DEF Success
<1>3. CASE ~Ignored(c, new) /\ ~validVal(c, new)
  <2>1. o = Outcome(-70410, nil, c.val)
    BY <1>1, <1>3 DEF OutcomeOf
  <2>2. o.status = -70410 /\ o.val = c.val
    BY <2>1 DEF Outcome
  <2> QED
    BY <2>2 DEF Refusal, NoStatus
<1>4. CASE ~Ignored(c, new) /\ validVal(c, new) /\ host.status # 0
  <2>1. o = Outcome(host.status, host.value, c.val)
    BY <1>1, <1>4 DEF OutcomeOf
  <2>2. o.status = host.status /\ o.val = c.val
    BY <2>1 DEF Outcome
  <2> QED
    BY <1>4, <2>2, Zenon DEF Refusal
<1>5. CASE ~Ignored(c, new) /\ validVal(c, new) /\ ~(host.status # 0)
  <2> DEFINE response == IF host.value # nil THEN host.value ELSE y
  <2>1. o = Outcome(0, response, new)
    BY <1>1, <1>5 DEF OutcomeOf
  <2> HIDE DEF response
  <2>2. o.status = 0 /\ o.val = new
    BY <2>1 DEF Outcome
  <2> QED
    BY <1>5, <2>2, Zenon DEF Success
<1> QED
  BY <1>2, <1>3, <1>4, <1>5, Zenon

\* A number or a bool has a value that could have been written, or NaN.
Accepted(c) ==
    c.format \notin TextFormat =>
        /\ HasTypeOf(c, c.val)
        /\ c.val # NaN => Accepts(c)

With(c, v) == [c EXCEPT !.val = v]

LEMMA WithFields ==
    ASSUME NEW c \in Characteristic, NEW v \in AnyValue
    PROVE  /\ With(c, v) \in Characteristic
           /\ With(c, v).val = v
           /\ With(c, v).go = c.go /\ With(c, v).format = c.format
           /\ With(c, v).permissions = c.permissions
           /\ With(c, v).min = c.min /\ With(c, v).max = c.max
           /\ With(c, v).valid = c.valid /\ With(c, v).range = c.range
BY DEF With, Characteristic

\* Whatever a write does, the characteristic stays well-formed, and a value that
\* is new to it is accepted.
LEMMA WriteAccepted ==
    ASSUME NEW c, WellFormed(c), NEW x, NEW o,
           o.val = c.val \/ (Fits(c, x) /\ c.format # "uint64" /\ Success(c, x, o))
    PROVE  /\ o.val \in AnyValue
           /\ WellFormed(With(c, o.val))
           /\ o.val # c.val => Accepted(With(c, o.val))
<1>1. c \in Characteristic /\ c.val \in AnyValue
  BY Typing
<1>2. CASE o.val = c.val
  <2>1. With(c, o.val) = c
    BY <1>1, <1>2 DEF With, Characteristic
  <2> QED
    BY <1>1, <1>2, <2>1
<1>3. CASE o.val # c.val
  <2>1. PICK y \in convert(c, x) : o.val = clamp(c, y) /\ validVal(c, o.val)
    BY <1>3, Zenon DEF Success
  <2>2. y \in AnyValue /\ (c.format \notin TextFormat => HasTypeOf(c, y))
    <3>1. Fits(c, x) /\ c.format # "uint64"
      BY <1>3
    <3> QED
      BY <2>1, <3>1, Converted
  <2>3. /\ o.val \in AnyValue
        /\ o.val.type = y.type
        /\ ~Limited(c, y) => o.val = y
        /\ Limited(c, y) => /\ \A m \in c.min : o.val.v >= m
                            /\ \A m \in c.max : o.val.v <= m
    BY <2>1, <2>2, Clamped, Zenon
  <2> DEFINE d == With(c, o.val)
  <2>4. /\ d \in Characteristic
        /\ d.val = o.val
        /\ d.go = c.go /\ d.format = c.format /\ d.permissions = c.permissions
        /\ d.min = c.min /\ d.max = c.max /\ d.valid = c.valid /\ d.range = c.range
    BY <1>1, <2>3, WithFields, Zenon
  <2> HIDE DEF d
  <2>5. WellFormed(d)
    BY <2>4, Zenon DEF WellFormed
  <2>6. ASSUME c.format \notin TextFormat PROVE HasTypeOf(d, d.val)
    <3>1. y = NaN => o.val = NaN
      BY <2>3 DEF Limited
    <3> QED
      BY <2>2, <2>3, <2>4, <2>6, <3>1 DEF HasTypeOf, Typed, Value
  <2>7. ASSUME c.format \notin TextFormat, o.val # NaN PROVE Accepts(d)
    <3>1. y # NaN
      BY <2>3, <2>7 DEF Limited
    <3>2. CASE Limited(c, y)
      BY <2>1, <2>3, <2>4, <3>2, Zenon DEF Accepts, validVal
    <3>3. CASE ~Limited(c, y)
      <4>1. c.format = "bool"
        <5>1. c.format # "uint64"
          BY <1>3
        <5> QED
          BY <2>7, <3>1, <3>3, <5>1, Typing DEF Limited
      <4>2. c.min = {} /\ c.max = {}
        BY <4>1, Typing DEF WellFormed
      <4> QED
        BY <2>1, <2>4, <4>2 DEF Accepts, validVal
    <3> QED
      BY <3>2, <3>3
  <2> QED
    BY <2>3, <2>4, <2>5, <2>6, <2>7, Zenon DEF Accepted, d
<1> QED
  BY <1>2, <1>3


-----------------------------------------------------------------------------
(* The characteristics at the start *)

\* An accessory of the host's without any id is number 1, its items 1, 2, ...
LEMMA NumbersInOrder ==
    ASSUME NEW T, NEW items \in Seq(T)
    PROVE  Numbers(items).id = 1 /\ Numbers(items).items = [i \in DOMAIN items |-> i]
<1> DEFINE zeros == [i \in DOMAIN items |-> 0]
           a     == [id |-> 0, name |-> "A", items |-> zeros]
           as    == <<a>>
<1>1. zeros \in Ids /\ DOMAIN zeros = DOMAIN items /\ \A i \in DOMAIN zeros : zeros[i] = 0
  <2>1. Len(items) \in Nat /\ DOMAIN items = 1..Len(items)
    BY DomainOfSeq
  <2>2. [i \in 1..Len(items) |-> 0] \in Seq(Nat)
    BY <2>1
  <2> QED
    BY <2>1, <2>2 DEF Ids
<1> HIDE DEF zeros
<1>2. a.id = 0 /\ a.name = "A" /\ a.items = zeros
  OBVIOUS
<1>3. a \in [id : Nat, name : {"A"}, items : Ids]
  <2>1. 0 \in Nat
    OBVIOUS
  <2> QED
    BY <1>1, <2>1, Zenon
<1>4. as \in AccessoryList({"A"}) /\ DOMAIN as = {1} /\ as[1] = a
  <2> DEFINE A == [id : Nat, name : {"A"}, items : Ids]
  <2>1. a \in A
    BY <1>3
  <2> HIDE DEF A, a
  <2>2. as \in Seq(A) /\ DOMAIN as = {1} /\ as[1] = a
    BY <2>1
  <2> QED
    BY <2>2, Zenon DEF A, AccessoryList
<1>5. Numbered(zeros) = [i \in DOMAIN items |-> i]
  <2>1. \A i \in DOMAIN zeros : Numbered(zeros)[i] = i
    BY <1>1, NumberedInOrder, Zenon
  <2>2. DOMAIN Numbered(zeros) = DOMAIN items
    BY <1>1 DEF Numbered
  <2>3. Numbered(zeros) = [i \in DOMAIN Numbered(zeros) |-> Numbered(zeros)[i]]
    BY DEF Numbered
  <2> QED
    BY <1>1, <2>1, <2>2, <2>3
<1>6. ~Refused(a)
  <2>1. Duplicate(Numbered(zeros)) = {}
    <3>1. Len(items) \in Nat /\ DOMAIN items = 1..Len(items)
      BY DomainOfSeq
    <3> QED
      BY <1>5, <3>1 DEF Duplicate
  <2> QED
    BY <1>2, <2>1 DEF Refused
<1> HIDE DEF a, as
<1>7. ~add(as).err
  <2>1. {k \in DOMAIN as : Refused(as[k])} = {}
    BY <1>4, <1>6
  <2>2. add(as).err = ({k \in DOMAIN as : Refused(as[k])} # {})
    BY FieldsOfAdd, Zenon DEF add
  <2> QED
    BY <2>1, <2>2, Zenon
<1>8. 1 \in DOMAIN as
  BY <1>4
<1>9. /\ add(as).as[1].id = Numbered([j \in DOMAIN as |-> as[j].id])[1]
      /\ add(as).as[1].items = Numbered(as[1].items)
  BY <1>4, <1>7, <1>8, AllNumbered, Zenon
<1>10. Numbered([j \in DOMAIN as |-> as[j].id])[1] = 1
  <2> DEFINE ids == [j \in DOMAIN as |-> as[j].id]
  <2>1. ids \in Ids /\ DOMAIN ids = DOMAIN as
    BY <1>4, IdsOf, Zenon
  <2>2. \A j \in DOMAIN ids : ids[j] = 0
    BY <1>2, <1>4
  <2> HIDE DEF ids
  <2> QED
    BY <1>8, <2>1, <2>2, NumberedInOrder, Zenon DEF ids
<1>11. Numbers(items) = add(as).as[1]
  BY DEF Numbers, as, a, zeros
<1> QED
  BY <1>2, <1>4, <1>5, <1>9, <1>10, <1>11, Zenon

\* The characteristics of an accessory by address are its own.
LEMMA AddressesOf ==
    ASSUME NEW services \in Databases
    PROVE  /\ DOMAIN Addresses(services) \subseteq {1} \X (Nat \ {0})
           /\ Addresses(services) \in [DOMAIN Addresses(services) -> Characteristic]
           /\ \A id \in DOMAIN Addresses(services) : WellFormed(Addresses(services)[id])
<1> DEFINE items == ItemsOf(services)
           a     == Numbers(items)
           At(i) == <<a.id, a.items[i]>>
           chars == {i \in DOMAIN items : items[i] # nil}
<1>1. /\ items \in Seq({nil} \cup Characteristic)
      /\ \A i \in chars : WellFormed(items[i])
  BY DatabasesAssumption, Zenon
<1>2. Len(items) \in Nat /\ DOMAIN items = 1..Len(items)
  BY <1>1, DomainOfSeq, Zenon
<1>3. a.id = 1 /\ a.items = [i \in DOMAIN items |-> i]
  BY <1>1, NumbersInOrder, Zenon
<1>4. \A i \in chars : At(i) = <<1, i>> /\ i \in Nat \ {0}
  BY <1>2, <1>3
<1>5. Addresses(services) =
        [id \in {At(i) : i \in chars} |-> items[CHOOSE i \in chars : At(i) = id]]
  BY DEF Addresses
<1> HIDE DEF items, a
<1>6. \A i \in chars : WellFormed(items[i]) /\ items[i] \in Characteristic
  BY <1>1, Zenon DEF WellFormed
<1> HIDE DEF At, chars
<1>7. ASSUME NEW id \in {At(i) : i \in chars}
      PROVE  \E i \in chars : Addresses(services)[id] = items[i]
  <2>1. \E i \in chars : At(i) = id
    BY <1>7, Zenon
  <2>2. (CHOOSE i \in chars : At(i) = id) \in chars
    BY <2>1, Zenon
  <2> QED
    BY <1>5, <1>7, <2>2, Zenon
<1>8. DOMAIN Addresses(services) = {At(i) : i \in chars}
  BY <1>5, Zenon
<1>9. \A id \in DOMAIN Addresses(services) :
          WellFormed(Addresses(services)[id]) /\ Addresses(services)[id] \in Characteristic
  BY <1>6, <1>7, <1>8, Zenon
<1>10. DOMAIN Addresses(services) \subseteq {1} \X (Nat \ {0})
  BY <1>4, <1>8
<1>11. Addresses(services) \in [DOMAIN Addresses(services) -> Characteristic]
  BY <1>5, <1>8, <1>9, Zenon
<1> QED
  BY <1>9, <1>10, <1>11


-----------------------------------------------------------------------------
(* An entry of a PUT *)

\* What becomes of the value x of an entry: refused, written, or nothing to do.
LEMMA PutOutcome ==
    ASSUME NEW c, NEW x, NEW host \in Writes, NEW o \in Written(c, x, host)
    PROVE  \/ Refusal(c, o)
           \/ x = nil /\ o.status = 0 /\ o.val = c.val
           \/ Sets(c, x) /\ Success(c, x, o)
<1>1. CASE ~InTime(c)
  <2>1. o = Outcome(-70410, nil, c.val)
    BY <1>1 DEF Written
  <2> QED
    BY <2>1 DEF Outcome, Refusal, NoStatus
<1>2. CASE InTime(c) /\ x = nil
  <2>1. o = Outcome(0, nil, c.val)
    BY <1>2 DEF Written
  <2>2. o.status = 0 /\ o.val = c.val
    BY <2>1 DEF Outcome
  <2> QED
    BY <1>2, <2>2
<1>3. CASE InTime(c) /\ x # nil /\ ~IsWritable(c)
  <2>1. o = Outcome(-70404, x, c.val)
    BY <1>3 DEF SetValueRequest, Written
  <2> QED
    BY <2>1 DEF Outcome, Refusal, NoStatus
<1>4. CASE InTime(c) /\ x # nil /\ IsWritable(c)
  <2>1. o \in setValue(c, x, host)
    <3>1. o \in SetValueRequest(c, x, host)
      BY <1>4 DEF Written
    <3>2. SetValueRequest(c, x, host) = setValue(c, x, host)
      BY <1>4 DEF SetValueRequest
    <3> QED
      BY <3>1, <3>2
  <2>2. host.status # NoStatus
    BY HostAssumption DEF NoStatus
  <2>3. Refusal(c, o) \/ Success(c, x, o)
    BY <2>1, <2>2, SetOutcome
  <2> QED
    BY <1>4, <2>3 DEF Sets
<1> QED
  BY <1>1, <1>2, <1>3, <1>4

LEMMA Repeated ==
    ASSUME NEW a, NEW s \in {<<>>, <<a>>}, NEW t \in {<<>>, <<a>>}
    PROVE  /\ \A i \in DOMAIN (s \o t) : (s \o t)[i] = a
           /\ s # <<>> \/ t # <<>> => \E i \in DOMAIN (s \o t) : (s \o t)[i] = a
<1>1. s \in Seq({a}) /\ t \in Seq({a})
  <2>1. <<>> \in Seq({a})
    OBVIOUS
  <2>2. <<a>> \in Seq({a})
    OBVIOUS
  <2> QED
    BY <2>1, <2>2
<1>2. s \o t \in Seq({a}) /\ Len(s \o t) = Len(s) + Len(t)
  BY <1>1
<1>3. \A i \in DOMAIN (s \o t) : (s \o t)[i] = a
  BY <1>2, MemberOfSeq
<1>4. s # <<>> \/ t # <<>> => Len(s \o t) >= 1
  BY <1>2
<1>5. DOMAIN (s \o t) = 1..Len(s \o t)
  BY <1>2
<1> QED
  BY <1>3, <1>4, <1>5

\* The answers to an entry tell of a refusal, and of events that cannot be set;
\* any other error is a refusal.
OfEvents(a) == a.status = -70406

LEMMA AnswersTell ==
    ASSUME NEW id, NEW c, NEW o, NEW ev, NEW r \in BOOLEAN
    PROVE  /\ o.status \notin {0, NoStatus} \/ (ev # "none" /\ ~IsObservable(c))
                => \E i \in DOMAIN Answers(id, c, o, ev, r) : Failed(Answers(id, c, o, ev, r)[i])
           /\ \A i \in DOMAIN Answers(id, c, o, ev, r) :
                 LET a == Answers(id, c, o, ev, r)[i]
                 IN Failed(a) /\ ~OfEvents(a) => o.status \notin {0, NoStatus}
<1> DEFINE told         == (r \/ IsWriteResponse(c)) /\ o.response # nil
           unobservable == ev # "none" /\ ~IsObservable(c)
           status       == IF unobservable THEN -70406
                           ELSE IF o.status # 0 \/ (told /\ IsWriteResponse(c)) THEN o.status
                           ELSE NoStatus
           value        == IF told THEN o.response ELSE nil
           answer       == Answer(id, status, value)
           once         == answer.status # NoStatus \/ answer.value # nil
           all          == Answers(id, c, o, ev, r)
           first        == IF unobservable THEN <<answer>> ELSE <<>>
           second       == IF once THEN <<answer>> ELSE <<>>
<1>1. all = first \o second
  BY DEF Answers
<1>2. status = IF unobservable THEN -70406
               ELSE IF o.status # 0 \/ (told /\ IsWriteResponse(c)) THEN o.status
               ELSE NoStatus
  OBVIOUS
<1> HIDE DEF told, status, value
<1>3. answer.status = status
  BY DEF Answer
<1> HIDE DEF answer, unobservable, all
<1>4. /\ first \in {<<>>, <<answer>>} /\ second \in {<<>>, <<answer>>}
      /\ (unobservable \/ status # NoStatus) => first # <<>> \/ second # <<>>
  BY <1>3
<1> HIDE DEF once, first, second
<1>5. /\ \A i \in DOMAIN all : all[i] = answer
      /\ (unobservable \/ status # NoStatus) => \E i \in DOMAIN all : all[i] = answer
  BY <1>1, <1>4, Repeated, Zenon
<1>6. o.status \notin {0, NoStatus} \/ unobservable
          => Failed(answer) /\ (unobservable \/ status # NoStatus)
  BY <1>2, <1>3 DEF Failed, NoStatus
<1>7. Failed(answer) /\ answer.status # -70406 => o.status \notin {0, NoStatus}
  BY <1>2, <1>3 DEF Failed, NoStatus
<1>8. o.status \notin {0, NoStatus} \/ unobservable => \E i \in DOMAIN all : Failed(all[i])
  BY <1>5, <1>6
<1>9. \A i \in DOMAIN all :
          Failed(all[i]) /\ all[i].status # -70406 => o.status \notin {0, NoStatus}
  BY <1>5, <1>7
<1> QED
  BY <1>8, <1>9 DEF all, unobservable, OfEvents


-----------------------------------------------------------------------------
(* The inductive invariant *)

\* The characteristics are those of the start, and well-formed.
Kept ==
    /\ cs \in [DOMAIN cs -> Characteristic]
    /\ \A id \in DOMAIN cs : WellFormed(cs[id])
    /\ \E services \in Databases : DOMAIN cs = DOMAIN Addresses(services)

\* What TypeOK says of the rest.
Control ==
    /\ DOMAIN cs \subseteq {1} \X (Nat \ {0})
    /\ events \subseteq DOMAIN cs
    /\ twr \in {"none", "live", "late"}
    /\ req \in {"idle", "get", "put"}
    /\ good \in BOOLEAN
    /\ count \in 0..MaxEntries
    /\ last.id \in DOMAIN cs \cup {<<0, 0>>}
    /\ res.request \in {"none", "get", "put", "accessories", "closed", "empty"}

\* Only a PUT has a last entry, of a characteristic there is.
LastOfPut ==
    /\ req # "put" => last = NoEntry
    /\ last # NoEntry => last.id \in DOMAIN cs

AnyAnswer == [id : Nat \X Nat, status : Int, value : AnyValue]

\* An answer of a GET is an error, or it is of what can be read.
Readable(chars, a) == Failed(a) \/ (a.id \in DOMAIN chars /\ IsReadable(chars[a.id]))

Getting ==
    req = "get" =>
        /\ arr \in Seq(AnyAnswer)
        /\ \A i \in DOMAIN arr : arr[i].status # 0 /\ Readable(cs, arr[i])

IInv ==
    /\ TypeOK
    /\ Kept
    /\ LastOfPut
    /\ NoSilentFailure
    /\ Getting
    /\ GetTellsAll

LEMMA TypeOKParts == TypeOK <=> Control /\ cs \in [DOMAIN cs -> Characteristic]
BY DEF TypeOK, Control

LEMMA InitIInv == Init => IInv
<1> SUFFICES ASSUME Init PROVE IInv
  OBVIOUS
<1>1. PICK services \in Databases : cs = Addresses(services)
  BY DEF Init
<1>2. Kept /\ DOMAIN cs \subseteq {1} \X (Nat \ {0})
  BY <1>1, AddressesOf, Zenon DEF Kept
<1>3. /\ events = {} /\ twr = "none" /\ req = "idle" /\ good = FALSE /\ count = 0
      /\ last = NoEntry /\ res = NoResponse
  BY DEF Init
<1>4. last.id = <<0, 0>> /\ res.request = "none"
  BY <1>3 DEF NoEntry, NoResponse, Response
<1>5. TypeOK
  <2>1. count \in 0..MaxEntries
    BY <1>3, MaxEntriesAssumption
  <2>2. good \in BOOLEAN
    BY <1>3, Zenon
  <2>3. /\ events \subseteq DOMAIN cs /\ twr \in {"none", "live", "late"}
        /\ req \in {"idle", "get", "put"}
        /\ res.request \in {"none", "get", "put", "accessories", "closed", "empty"}
    BY <1>3, <1>4
  <2>4. last.id \in DOMAIN cs \cup {<<0, 0>>}
    BY <1>4, Zenon
  <2> QED
    BY <1>2, <2>1, <2>2, <2>3, <2>4, Zenon DEF TypeOK, Kept
<1>6. LastOfPut /\ NoSilentFailure /\ Getting
  BY <1>3 DEF LastOfPut, NoSilentFailure, Getting
<1>7. GetTellsAll
  BY <1>4 DEF GetTellsAll
<1> QED
  BY <1>2, <1>5, <1>6, <1>7 DEF IInv

-----------------------------------------------------------------------------
(* What a step does to the characteristics *)

\* What is new to a characteristic is accepted.
Accepting == \A j \in DOMAIN cs : cs'[j] # cs[j] => Accepted(cs'[j])

\* It writes one of them.
WritesTo(id, x, o) ==
    /\ id \in DOMAIN cs
    /\ \/ o.val = cs[id].val
       \/ Fits(cs[id], x) /\ cs[id].format # "uint64" /\ Success(cs[id], x, o)
    /\ Store(id, o.val)

LEMMA WriteKeeps ==
    ASSUME Kept, NEW id, NEW x, NEW o, WritesTo(id, x, o)
    PROVE  /\ Kept'
           /\ Accepting
           /\ DOMAIN cs' = DOMAIN cs
           /\ \A j \in DOMAIN cs : cs'[j].permissions = cs[j].permissions
           /\ cs'[id].val = o.val
           /\ cs'[id].format = cs[id].format
           /\ cs'[id].min = cs[id].min /\ cs'[id].max = cs[id].max
           /\ o.val = cs[id].val => cs' = cs
<1>1. /\ id \in DOMAIN cs /\ WellFormed(cs[id]) /\ cs[id] \in Characteristic
      /\ cs' = [cs EXCEPT ![id] = With(cs[id], o.val)]
  BY Zenon DEF Kept, WritesTo, Store, With
<1>2. /\ o.val \in AnyValue
      /\ WellFormed(With(cs[id], o.val))
      /\ o.val # cs[id].val => Accepted(With(cs[id], o.val))
  BY <1>1, WriteAccepted, Zenon DEF WritesTo
<1>3. /\ With(cs[id], o.val) \in Characteristic
      /\ With(cs[id], o.val).permissions = cs[id].permissions
      /\ With(cs[id], o.val).val = o.val
      /\ With(cs[id], o.val).format = cs[id].format
      /\ With(cs[id], o.val).min = cs[id].min
      /\ With(cs[id], o.val).max = cs[id].max
  BY <1>1, <1>2, WithFields, Zenon
<1> DEFINE d == With(cs[id], o.val)
<1>4. o.val = cs[id].val => d = cs[id]
  BY <1>1 DEF With, Characteristic
<1> HIDE DEF d
<1>5. cs \in [DOMAIN cs -> Characteristic] /\ cs' = [cs EXCEPT ![id] = d]
  BY <1>1 DEF Kept, d
<1>6. /\ DOMAIN cs' = DOMAIN cs
      /\ cs'[id] = d
      /\ \A j \in DOMAIN cs : j # id => cs'[j] = cs[j]
  BY <1>1, <1>5
<1>7. d = cs[id] => cs' = cs
  BY <1>1, <1>5
<1>8. \A j \in DOMAIN cs : cs'[j].permissions = cs[j].permissions
  BY <1>3, <1>6 DEF d
<1>9. Kept'
  <2>1. cs' \in [DOMAIN cs' -> Characteristic]
    BY <1>3, <1>5, <1>6 DEF d
  <2>2. \A j \in DOMAIN cs' : WellFormed(cs'[j])
    BY <1>2, <1>6, Zenon DEF Kept, d
  <2> QED
    BY <1>6, <2>1, <2>2, Zenon DEF Kept
<1>10. Accepting
  <2>1. SUFFICES ASSUME NEW j \in DOMAIN cs, cs'[j] # cs[j]
                 PROVE  Accepted(cs'[j])
    BY Zenon DEF Accepting
  <2>2. j = id /\ o.val # cs[id].val
    BY <1>4, <1>6, <1>7, <2>1
  <2> QED
    BY <1>2, <1>6, <2>2, Zenon DEF d
<1> QED
  BY <1>3, <1>4, <1>6, <1>7, <1>8, <1>9, <1>10 DEF d

LEMMA SameKeeps ==
    ASSUME Kept, UNCHANGED cs
    PROVE  Kept' /\ Accepting
BY DEF Kept, Accepting

\* What is written to a characteristic fits it.
LEMMA InputFits ==
    ASSUME Kept, NEW id \in DOMAIN cs, NEW x \in Inputs(cs[id].format)
    PROVE  Fits(cs[id], x)
<1>1. cs[id].format \in Formats
  BY DEF Kept, Characteristic
<1> QED
  BY <1>1, InputsAssumption, Zenon DEF Fits

\* setValue of the host: what is left is the stored value, or a new one.
LEMMA UnaskedWrites ==
    ASSUME Kept, NEW id \in DOMAIN cs, NEW x, Fits(cs[id], x), ~Panics(cs[id], x),
           NEW o \in setValue(cs[id], x, NoHost), Store(id, o.val)
    PROVE  WritesTo(id, x, o)
<1>1. NoHost.status # NoStatus
  BY DEF NoHost, Host, NoStatus
<1>2. Refusal(cs[id], o) \/ Success(cs[id], x, o)
  BY <1>1, SetOutcome, Zenon
<1>3. cs[id].format # "uint64"
  BY Zenon DEF Panics
<1> QED
  BY <1>2, <1>3, Zenon DEF WritesTo, Refusal

\* The host writes a value of the type of the wrapper.
LEMMA HostWrites ==
    ASSUME Kept, HostSetValue
    PROVE  \E id, x, o : WritesTo(id, x, o)
<1> DEFINE Number(id, x) ==
               IF cs[id].go = "int" /\ x.type = "float64" THEN Truncate(x.v) ELSE x.v
<1>1. PICK id \in DOMAIN cs : \E x \in Inputs(cs[id].format) :
          /\ ~Panics(cs[id], Typed(cs[id], Number(id, x)))
          /\ \E o \in SetValue(cs[id], Number(id, x)) : Store(id, o.val)
  BY Zenon DEF HostSetValue
<1>2. PICK x \in Inputs(cs[id].format) :
          /\ ~Panics(cs[id], Typed(cs[id], Number(id, x)))
          /\ \E o \in SetValue(cs[id], Number(id, x)) : Store(id, o.val)
  BY <1>1
<1> DEFINE c == cs[id]
           v == Number(id, x)
<1>3. PICK o \in SetValue(c, v) : Store(id, o.val)
  BY <1>2
<1>4. WellFormed(c)
  BY DEF Kept
<1>5. x.v \in Int
  BY InputFits DEF Fits, AnyValue
<1>6. v \in Int
  BY <1>5, Truncated
<1> HIDE DEF Number
<1> HIDE DEF c, v
<1>7. Fits(c, Typed(c, v))
  <2>1. /\ c.format \in IntFormat \cup {"uint64", "float", "bool"} \cup TextFormat
        /\ (c.go = "int") <=> (c.format \in IntFormat \cup {"uint64"})
        /\ (c.go = "float64") <=> (c.format = "float")
        /\ (c.go = "bool") <=> (c.format = "bool")
        /\ c.go \in {"int", "float64", "bool", "string", "bytes"}
    BY <1>4, Typing, Zenon
  <2> QED
    BY <1>6, <2>1 DEF Fits, Typed, Value, AnyValue
<1>8. ~Panics(c, Typed(c, v)) /\ o \in setValue(c, Typed(c, v), NoHost)
  BY <1>2, <1>3, Zenon DEF SetValue, c, v
<1> QED
  BY <1>3, <1>7, <1>8, UnaskedWrites, Zenon DEF c

\* A panic leaves the stored value, or one that setValue has stored.
LEMMA PanicWrites ==
    ASSUME Kept, PutPanics
    PROVE  UNCHANGED cs \/ \E id, x, o : WritesTo(id, x, o)
<1>1. PICK id \in DOMAIN cs :
          \/ UNCHANGED cs
          \/ \E x \in Inputs(cs[id].format) : \E v \in LeftByPanic(cs[id], x) : Store(id, v)
  BY Zenon DEF PutPanics
<1>2. SUFFICES ASSUME NEW x \in Inputs(cs[id].format), NEW v \in LeftByPanic(cs[id], x), Store(id, v)
               PROVE  \E o : WritesTo(id, x, o)
  BY <1>1, Zenon
<1>3. CASE v = cs[id].val
  <2>1. WritesTo(id, x, [val |-> v])
    BY <1>2, <1>3 DEF WritesTo
  <2> QED
    BY <2>1, Zenon
<1>4. CASE v # cs[id].val
  <2>1. ~Panics(cs[id], x)
    BY <1>4, Zenon DEF LeftByPanic
  <2> DEFINE new == {o.val : o \in setValue(cs[id], x, NoHost)} \ {cs[id].val}
  <2>2. v \in new
    <3> DEFINE mistyped == {n \in new : ~HasTypeOf(cs[id], n)}
    <3>1. LeftByPanic(cs[id], x) =
              mistyped \cup (IF mistyped # {} THEN {cs[id].val} ELSE {})
                       \cup (IF HasTypeOf(cs[id], cs[id].val) THEN {} ELSE new)
      BY <2>1, Zenon DEF LeftByPanic
    <3> HIDE DEF new
    <3> QED
      BY <1>2, <1>4, <3>1
  <2>3. PICK o \in setValue(cs[id], x, NoHost) : v = o.val
    BY <2>2
  <2>4. WritesTo(id, x, o)
    BY <1>2, <2>1, <2>3, InputFits, UnaskedWrites, Zenon
  <2> QED
    BY <2>4, Zenon
<1> QED
  BY <1>3, <1>4


\* An entry for the address id: the value x becomes o, events are set to ev.
Entry(id, x, ev, r, o) ==
    /\ id \in DOMAIN cs
    /\ ev \in {"none", "on", "off"}
    /\ r \in BOOLEAN
    /\ \/ Refusal(cs[id], o)
       \/ x = nil /\ o.status = 0 /\ o.val = cs[id].val
       \/ x # nil /\ Fits(cs[id], x) /\ cs[id].format # "uint64" /\ Success(cs[id], x, o)
    /\ Store(id, o.val)
    /\ last' = [id |-> id, x |-> x, ev |-> ev, answers |-> Answers(id, cs[id], o, ev, r)]
    /\ events' = Subscriptions(id, ev)

LEMMA PutIsEntry ==
    ASSUME Kept, PutEntry
    PROVE  \E id, x, ev, r, o : Entry(id, x, ev, r, o)
<1>1. PICK id \in Addressed(DOMAIN cs) \cap DOMAIN cs :
         \E x \in Inputs(cs[id].format) \cup {nil}, ev \in {"none", "on", "off"},
            r \in BOOLEAN, host \in Writes :
         /\ RequiresTimedWrite(cs[id]) => twr # "none"
         /\ Sets(cs[id], x) => ~Panics(cs[id], x)
         /\ \E o \in Written(cs[id], x, host) :
               /\ Store(id, o.val)
               /\ arr' = arr \o Answers(id, cs[id], o, ev, r)
               /\ last' = [id |-> id, x |-> x, ev |-> ev,
                           answers |-> Answers(id, cs[id], o, ev, r)]
         /\ events' = Subscriptions(id, ev)
  BY Zenon DEF PutEntry
<1>2. PICK x \in Inputs(cs[id].format) \cup {nil}, ev \in {"none", "on", "off"},
            r \in BOOLEAN, host \in Writes :
         /\ RequiresTimedWrite(cs[id]) => twr # "none"
         /\ Sets(cs[id], x) => ~Panics(cs[id], x)
         /\ \E o \in Written(cs[id], x, host) :
               /\ Store(id, o.val)
               /\ arr' = arr \o Answers(id, cs[id], o, ev, r)
               /\ last' = [id |-> id, x |-> x, ev |-> ev,
                           answers |-> Answers(id, cs[id], o, ev, r)]
         /\ events' = Subscriptions(id, ev)
  BY <1>1, Zenon
<1>3. PICK o \in Written(cs[id], x, host) :
               /\ Store(id, o.val)
               /\ arr' = arr \o Answers(id, cs[id], o, ev, r)
               /\ last' = [id |-> id, x |-> x, ev |-> ev,
                           answers |-> Answers(id, cs[id], o, ev, r)]
  BY <1>2, Zenon
<1>4. \/ Refusal(cs[id], o)
      \/ x = nil /\ o.status = 0 /\ o.val = cs[id].val
      \/ x # nil /\ cs[id].format # "uint64" /\ Success(cs[id], x, o)
  <2>1. \/ Refusal(cs[id], o)
        \/ x = nil /\ o.status = 0 /\ o.val = cs[id].val
        \/ Sets(cs[id], x) /\ Success(cs[id], x, o)
    BY PutOutcome, Zenon
  <2> QED
    BY <1>2, <2>1, Zenon DEF Sets, Panics
<1>5. x # nil => Fits(cs[id], x)
  BY InputFits
<1>6. Entry(id, x, ev, r, o)
  BY <1>2, <1>3, <1>4, <1>5, Zenon DEF Entry
<1> QED
  BY <1>6, Zenon

LEMMA EntryWrites ==
    ASSUME NEW id, NEW x, NEW ev, NEW r, NEW o, Entry(id, x, ev, r, o)
    PROVE  WritesTo(id, x, o)
BY DEF Entry, WritesTo, Refusal

\* Every step keeps the addresses and the permissions, and accepts what it stores.
LEMMA NextKeeps ==
    ASSUME Kept, [Next]_vars
    PROVE  /\ Kept'
           /\ Accepting
           /\ DOMAIN cs' = DOMAIN cs
           /\ \A j \in DOMAIN cs : cs'[j].permissions = cs[j].permissions
<1>1. CASE HostSetValue
  BY <1>1, HostWrites, WriteKeeps, Zenon
<1>2. CASE PutEntry
  BY <1>2, PutIsEntry, EntryWrites, WriteKeeps, Zenon
<1>3. CASE PutPanics
  <2>1. CASE UNCHANGED cs
    BY <2>1, SameKeeps, Zenon
  <2>2. CASE \E id, x, o : WritesTo(id, x, o)
    BY <2>2, WriteKeeps, Zenon
  <2> QED
    BY <1>3, <2>1, <2>2, PanicWrites, Zenon
<1>4. CASE ~HostSetValue /\ ~PutEntry /\ ~PutPanics
  <2>1. UNCHANGED cs
    <3>1. CASE GetBegin
      BY <3>1, Zenon DEF GetBegin
    <3>2. CASE GetEntry
      BY <3>2, Zenon DEF GetEntry
    <3>3. CASE GetEnd
      BY <3>3, Zenon DEF GetEnd
    <3>4. CASE GetAccessories
      BY <3>4, Zenon DEF GetAccessories
    <3>5. CASE Prepare
      BY <3>5, Zenon DEF Prepare
    <3>6. CASE DeadlinePasses
      BY <3>6, Zenon DEF DeadlinePasses
    <3>7. CASE PutBegin
      BY <3>7, Zenon DEF PutBegin
    <3>8. CASE PutMissing
      BY <3>8 DEF PutMissing
    <3>9. CASE PutEnd
      BY <3>9, Zenon DEF PutEnd
    <3>10. CASE UNCHANGED vars
      BY <3>10, Zenon DEF vars
    <3> QED
      BY <1>4, <3>1, <3>2, <3>3, <3>4, <3>5, <3>6, <3>7, <3>8, <3>9, <3>10, Zenon DEF Next
  <2> QED
    BY <2>1, SameKeeps, Zenon
<1> QED
  BY <1>1, <1>2, <1>3, <1>4

-----------------------------------------------------------------------------
(* What a step does to the rest *)

\* All other steps leave the last entry and its effect alone, or forget it.
Ordinary ==
    /\ events' \in {{}, events}
    /\ count' \in {0, count} \/ (count < MaxEntries /\ count' = count + 1)
    /\ twr' \in {twr, "none", "live", "late"}
    /\ req' \in {req, "idle", "get", "put"}
    /\ good' \in {good} \cup BOOLEAN
    /\ last' \in {last, NoEntry}
    /\ req' # "put" => req # "put" \/ last' = NoEntry
    /\ last' = NoEntry \/ req # "put" \/ (cs' = cs /\ events' = events)
    /\ \/ res' = res
       \/ \E request \in {"none", "get", "put", "accessories", "closed", "empty"} :
             \E code, answers : res' = Response(request, code, answers)

\* Of a request that is answered: the answer goes out, or an empty one.
LEMMA Answered ==
    ASSUME NEW r
    PROVE  Sent(r) = r \/ Sent(r) = Response("empty", 200, <<>>)
BY Zenon DEF Sent

LEMMA Responds ==
    ASSUME NEW q \in {"none", "get", "put", "accessories", "closed", "empty"}, NEW n, NEW all,
           res' = Sent(Response(q, n, all))
    PROVE  \E request \in {"none", "get", "put", "accessories", "closed", "empty"} :
               \E code, answers : res' = Response(request, code, answers)
<1>1. res' = Response(q, n, all) \/ res' = Response("empty", 200, <<>>)
  BY Answered, Zenon
<1> QED
  BY <1>1

LEMMA OthersOrdinary ==
    ASSUME [Next]_vars, ~PutEntry
    PROVE  Ordinary
<1>1. CASE GetBegin
  BY <1>1, Zenon DEF Ordinary, GetBegin, Begin, NoResponse, Idle
<1>2. CASE GetEntry
  BY <1>2, Zenon DEF Ordinary, GetEntry, NextEntry
<1>3. CASE GetEnd
  <2>1. \/ res' = Sent(Response("get", 207, Explicit(arr)))
        \/ res' = Sent(Response("get", 200, arr))
    BY <1>3, Zenon DEF GetEnd, End
  <2>2. \E request \in {"none", "get", "put", "accessories", "closed", "empty"} :
            \E code, answers : res' = Response(request, code, answers)
    BY <2>1, Responds
  <2> QED
    BY <1>3, <2>2, Zenon DEF Ordinary, GetEnd, End
<1>4. CASE GetAccessories
  <2>1. PICK answers : res' = Sent(Response("accessories", 200, answers))
    BY <1>4, Zenon DEF GetAccessories
  <2>2. \E request \in {"none", "get", "put", "accessories", "closed", "empty"} :
            \E code, a : res' = Response(request, code, a)
    BY <2>1, Responds
  <2>3. Idle /\ UNCHANGED <<cs, events, twr, req, good, count, arr, last>>
    BY <1>4, Zenon DEF GetAccessories
  <2> QED
    BY <2>2, <2>3, Zenon DEF Ordinary, Idle
<1>5. CASE Prepare
  BY <1>5, Zenon DEF Ordinary, Prepare, Idle
<1>6. CASE DeadlinePasses
  BY <1>6, Zenon DEF Ordinary, DeadlinePasses
<1>7. CASE PutBegin
  BY <1>7, Zenon DEF Ordinary, PutBegin, Begin, NoResponse, Idle
<1>8. CASE PutMissing
  <2>1. UNCHANGED <<cs, events, twr, req, good, res>> /\ NextEntry /\ last' = NoEntry
    BY <1>8 DEF PutMissing
  <2> QED
    BY <2>1, Zenon DEF Ordinary, NextEntry
<1>9. CASE PutPanics
  BY <1>9, Zenon DEF Ordinary, PutPanics, End
<1>10. CASE PutEnd
  <2>1. \/ res' = Sent(Response("put", 204, <<>>))
        \/ res' = Sent(Response("put", 207, arr))
    BY <1>10, Zenon DEF PutEnd, End
  <2>2. \E request \in {"none", "get", "put", "accessories", "closed", "empty"} :
            \E code, answers : res' = Response(request, code, answers)
    BY <2>1, Responds
  <2> QED
    BY <1>10, <2>2, Zenon DEF Ordinary, PutEnd, End
<1>11. CASE HostSetValue
  BY <1>11, Zenon DEF Ordinary, HostSetValue, Idle
<1>12. CASE UNCHANGED vars
  BY <1>12, Zenon DEF Ordinary, vars
<1> QED
  BY <1>1, <1>2, <1>3, <1>4, <1>5, <1>6, <1>7, <1>8, <1>9, <1>10, <1>11, <1>12, Zenon DEF Next

LEMMA NextControl ==
    ASSUME Control, Kept, [Next]_vars
    PROVE  Control'
<1>1. DOMAIN cs' = DOMAIN cs
  BY NextKeeps, Zenon
<1>2. CASE PutEntry
  <2>1. PICK id, x, ev, r, o : Entry(id, x, ev, r, o)
    BY <1>2, PutIsEntry, Zenon
  <2>2. id \in DOMAIN cs /\ last'.id = id
    BY <2>1 DEF Entry
  <2>3. events' \subseteq DOMAIN cs
    BY <2>1 DEF Entry, Control, Subscriptions
  <2>4. count' \in 0..MaxEntries
    BY <1>2, MaxEntriesAssumption DEF PutEntry, NextEntry, Control
  <2>5. UNCHANGED <<twr, req, good, res>>
    BY <1>2, Zenon DEF PutEntry
  <2> QED
    BY <1>1, <2>2, <2>3, <2>4, <2>5, Zenon DEF Control
<1>3. CASE ~PutEntry
  <2>1. Ordinary
    BY <1>3, OthersOrdinary, Zenon
  <2>2. count' \in 0..MaxEntries
    BY <2>1, MaxEntriesAssumption DEF Ordinary, Control
  <2>3. events' \subseteq DOMAIN cs /\ good' \in BOOLEAN
    BY <2>1, Zenon DEF Ordinary, Control
  <2>4. twr' \in {"none", "live", "late"} /\ req' \in {"idle", "get", "put"}
    BY <2>1 DEF Ordinary, Control
  <2>5. last'.id \in DOMAIN cs \cup {<<0, 0>>}
    <3>1. NoEntry.id = <<0, 0>>
      BY DEF NoEntry
    <3> QED
      BY <2>1, <3>1, Zenon DEF Ordinary, Control
  <2>6. res'.request \in {"none", "get", "put", "accessories", "closed", "empty"}
    <3>1. CASE res' = res
      BY <3>1, Zenon DEF Control
    <3>2. CASE \E request \in {"none", "get", "put", "accessories", "closed", "empty"} :
                  \E code, answers : res' = Response(request, code, answers)
      <4>1. PICK request \in {"none", "get", "put", "accessories", "closed", "empty"} :
                \E code, answers : res' = Response(request, code, answers)
        BY <3>2, Zenon
      <4>2. res'.request = request
        BY <4>1 DEF Response
      <4> QED
        BY <4>2
    <3> QED
      BY <2>1, <3>1, <3>2, Zenon DEF Ordinary
  <2> QED
    BY <1>1, <2>2, <2>3, <2>4, <2>5, <2>6, Zenon DEF Control
<1> QED
  BY <1>2, <1>3


\* What is answered comes from the steps of a GET.
Responding ==
    /\ req' = "get" => arr' = <<>> \/ GetEntry \/ (req = "get" /\ arr' = arr)
    /\ res' = res \/ res'.request # "get" \/ GetEnd

LEMMA NextResponding ==
    ASSUME [Next]_vars
    PROVE  Responding
<1> USE DEF Responding
<1>0. NoResponse.request # "get"
  BY DEF NoResponse, Response
<1>1. CASE GetBegin
  BY <1>1, <1>0 DEF GetBegin, Begin
<1>2. CASE GetEntry
  BY <1>2, Zenon DEF GetEntry
<1>3. CASE GetEnd
  BY <1>3 DEF GetEnd, End
<1>4. CASE GetAccessories
  <2>1. Idle /\ req' = req /\ arr' = arr
    BY <1>4, Zenon DEF GetAccessories
  <2>2. PICK answers : res' = Sent(Response("accessories", 200, answers))
    BY <1>4, Zenon DEF GetAccessories
  <2>3. res'.request # "get"
    BY <2>2, Answered DEF Response
  <2> QED
    BY <2>1, <2>3 DEF Idle
<1>5. CASE Prepare
  BY <1>5, Zenon DEF Prepare
<1>6. CASE DeadlinePasses
  BY <1>6, Zenon DEF DeadlinePasses
<1>7. CASE PutBegin
  BY <1>7, <1>0 DEF PutBegin, Begin
<1>8. CASE PutMissing
  <2>1. req = "put" /\ UNCHANGED <<req, res>>
    BY <1>8 DEF PutMissing
  <2> QED
    BY <2>1
<1>9. CASE PutEntry
  <2>1. req = "put" /\ UNCHANGED <<req, res>>
    BY <1>9, Zenon DEF PutEntry
  <2> QED
    BY <2>1
<1>10. CASE PutPanics
  <2>1. req' = "idle" /\ res' = Response("closed", 0, <<>>)
    BY <1>10, Zenon DEF PutPanics, End
  <2> QED
    BY <2>1 DEF Response
<1>11. CASE PutEnd
  <2>1. /\ req' = "idle"
        /\ res' = Sent(Response("put", 204, <<>>)) \/ res' = Sent(Response("put", 207, arr))
    BY <1>11, Zenon DEF PutEnd, End
  <2> QED
    BY <2>1, Answered DEF Response
<1>12. CASE HostSetValue
  BY <1>12, Zenon DEF HostSetValue
<1>13. CASE UNCHANGED vars
  BY <1>13, Zenon DEF vars
<1> QED
  BY <1>1, <1>2, <1>3, <1>4, <1>5, <1>6, <1>7, <1>8, <1>9, <1>10, <1>11, <1>12, <1>13, Zenon DEF Next


-----------------------------------------------------------------------------
(* Each part is kept *)

LEMMA NextLastOfPut ==
    ASSUME LastOfPut, Kept, [Next]_vars
    PROVE  LastOfPut'
<1>1. DOMAIN cs' = DOMAIN cs
  BY NextKeeps, Zenon
<1>2. CASE PutEntry
  <2>1. PICK id, x, ev, r, o : Entry(id, x, ev, r, o)
    BY <1>2, PutIsEntry, Zenon
  <2>2. id \in DOMAIN cs /\ last'.id = id
    BY <2>1 DEF Entry
  <2>3. req' = "put"
    BY <1>2, Zenon DEF PutEntry
  <2> QED
    BY <1>1, <2>2, <2>3 DEF LastOfPut
<1>3. CASE ~PutEntry
  <2>1. Ordinary
    BY <1>3, OthersOrdinary, Zenon
  <2>2. last' \in {last, NoEntry} /\ (req' # "put" => req # "put" \/ last' = NoEntry)
    BY <2>1, Zenon DEF Ordinary
  <2>3. NoEntry' = NoEntry
    BY DEF NoEntry
  <2> QED
    BY <1>1, <2>2, <2>3 DEF LastOfPut
<1> QED
  BY <1>2, <1>3

\* An entry without an error has its effect.
LEMMA EntryNotSilent ==
    ASSUME Kept, NEW id, NEW x, NEW ev, NEW r, NEW o, Entry(id, x, ev, r, o)
    PROVE  NoSilentFailure'
<1> DEFINE answers == Answers(id, cs[id], o, ev, r)
           failed(s) == \E i \in DOMAIN s : Failed(s[i])
<1>1. last'.id = id /\ last'.x = x /\ last'.ev = ev /\ last'.answers = answers
  <2>1. last' = [id |-> id, x |-> x, ev |-> ev, answers |-> answers]
    BY Zenon DEF Entry
  <2> HIDE DEF answers
  <2> QED
    BY <2>1
<1>2. /\ cs'[id].val = o.val /\ cs'[id].format = cs[id].format
      /\ cs'[id].min = cs[id].min /\ cs'[id].max = cs[id].max
  <2>1. WritesTo(id, x, o)
    BY EntryWrites, Zenon
  <2> QED
    BY <2>1, WriteKeeps, Zenon
<1>3. r \in BOOLEAN /\ ev \in {"none", "on", "off"}
  BY Zenon DEF Entry
<1>4. o.status \notin {0, NoStatus} \/ (ev # "none" /\ ~IsObservable(cs[id])) => failed(answers)
  BY <1>3, AnswersTell, Zenon
<1> HIDE DEF answers
<1> SUFFICES ASSUME ~failed(answers)
             PROVE  /\ x # nil => \E y \in convert(cs'[id], x) : cs'[id].val = clamp(cs'[id], y)
                    /\ ev # "none" => (id \in events' <=> ev = "on")
  BY <1>1, Zenon DEF NoSilentFailure, Failed
<1>5. o.status \in {0, NoStatus} /\ (ev # "none" => IsObservable(cs[id]))
  BY <1>4, Zenon
<1>6. ASSUME x # nil
      PROVE  \E y \in convert(cs'[id], x) : cs'[id].val = clamp(cs'[id], y)
  <2>1. Success(cs[id], x, o)
    BY <1>5, <1>6, Zenon DEF Entry, Refusal
  <2>2. PICK y \in convert(cs[id], x) : o.val = clamp(cs[id], y)
    BY <2>1, Zenon DEF Success
  <2>3. convert(cs'[id], x) = convert(cs[id], x)
    BY <1>2, Zenon DEF convert
  <2>4. clamp(cs'[id], y) = clamp(cs[id], y)
    BY <1>2, Zenon DEF clamp, Limited
  <2> QED
    BY <1>2, <2>2, <2>3, <2>4, Zenon
<1>7. ASSUME ev # "none" PROVE id \in events' <=> ev = "on"
  <2>1. events' = Subscriptions(id, ev)
    BY Zenon DEF Entry
  <2> QED
    BY <1>3, <1>5, <1>7, <2>1 DEF Subscriptions
<1> QED
  BY <1>6, <1>7

LEMMA NextNoSilentFailure ==
    ASSUME NoSilentFailure, LastOfPut, Kept, [Next]_vars
    PROVE  NoSilentFailure'
<1>1. CASE PutEntry
  BY <1>1, PutIsEntry, EntryNotSilent, Zenon
<1>2. CASE ~PutEntry
  <2>1. Ordinary
    BY <1>2, OthersOrdinary, Zenon
  <2>2. CASE last' = NoEntry
    BY <2>2, Zenon DEF NoSilentFailure, NoEntry
  <2>3. CASE last' = last /\ last # NoEntry
    <3>1. cs' = cs /\ events' = events
      BY <2>1, <2>3, Zenon DEF Ordinary, LastOfPut
    <3> QED
      BY <2>3, <3>1, Zenon DEF NoSilentFailure
  <2> QED
    BY <2>1, <2>2, <2>3, Zenon DEF Ordinary
<1> QED
  BY <1>1, <1>2

\* What a GET answers for an address.
LEMMA GetAnswerReadable ==
    ASSUME Kept, NEW id \in Addressed(DOMAIN cs), NEW host \in Reads
    PROVE  /\ GetAnswer(id, host) \in AnyAnswer
           /\ GetAnswer(id, host).status # 0
           /\ Readable(cs, GetAnswer(id, host))
<1>1. id \in Nat \X Nat
  BY DatabasesAssumption, Zenon DEF Kept
<1>2. nil \in AnyValue
  BY DEF nil, Value, AnyValue
<1> DEFINE v == ValueRequest(cs[id], host)
<1>3. CASE id \notin DOMAIN cs
  <2>1. GetAnswer(id, host) = Answer(id, -70402, nil)
    BY <1>3 DEF GetAnswer
  <2> QED
    BY <1>1, <1>2, <2>1 DEF Answer, AnyAnswer, Readable, Failed, NoStatus
<1>4. CASE id \in DOMAIN cs
  <2>1. cs[id] \in Characteristic /\ cs[id].val \in AnyValue
    BY <1>4 DEF Kept, Characteristic
  <2>2. host \in [status : Int, value : AnyValue] /\ host.status <= 0
    BY HostAssumption
  <2>3. v \in {Host(-70405, nil), Host(0, cs[id].val), Host(0, nil), host}
    BY <2>1 DEF ValueRequest, Characteristic
  <2>4. v \in [status : Int, value : AnyValue] /\ v.status <= 0
    BY <1>2, <2>1, <2>2, <2>3 DEF Host
  <2>5. v.status = 0 => IsReadable(cs[id])
    BY DEF ValueRequest, Host
  <2> HIDE DEF v
  <2>6. CASE v.status # 0
    <3>1. GetAnswer(id, host) = Answer(id, v.status, nil)
      BY <1>4, <2>6 DEF GetAnswer, v
    <3> QED
      BY <1>1, <1>2, <2>4, <2>6, <3>1 DEF Answer, AnyAnswer, Readable, Failed, NoStatus
  <2>7. CASE v.status = 0
    <3>1. GetAnswer(id, host) = Answer(id, NoStatus, v.value)
      BY <1>4, <2>7 DEF GetAnswer, v
    <3>2. v.value \in AnyValue
      BY <2>4
    <3>3. /\ GetAnswer(id, host) \in AnyAnswer
          /\ GetAnswer(id, host).status = NoStatus
          /\ GetAnswer(id, host).id = id
      BY <1>1, <3>1, <3>2 DEF Answer, AnyAnswer, NoStatus
    <3> QED
      BY <1>4, <2>5, <2>7, <3>3 DEF Readable, NoStatus
  <2> QED
    BY <2>6, <2>7
<1> QED
  BY <1>3, <1>4

LEMMA NextGetting ==
    ASSUME Getting, Kept, [Next]_vars
    PROVE  Getting'
<1>1. /\ DOMAIN cs' = DOMAIN cs
      /\ \A j \in DOMAIN cs : cs'[j].permissions = cs[j].permissions
  BY NextKeeps, Zenon
<1>2. \A a : Readable(cs, a) => Readable(cs', a)
  BY <1>1 DEF Readable, Failed, NoStatus, IsReadable
<1>3. SUFFICES ASSUME req' = "get"
               PROVE  /\ arr' \in Seq(AnyAnswer)
                      /\ \A i \in DOMAIN arr' : arr'[i].status # 0 /\ Readable(cs', arr'[i])
  BY Zenon DEF Getting, AnyAnswer, AnyValue
<1>4. CASE arr' = <<>>
  BY <1>4
<1>5. CASE GetEntry
  <2>1. PICK id \in Addressed(DOMAIN cs), host \in Reads : arr' = Append(arr, GetAnswer(id, host))
    BY <1>5, Zenon DEF GetEntry
  <2>2. req = "get"
    BY <1>5, Zenon DEF GetEntry
  <2>3. /\ GetAnswer(id, host) \in AnyAnswer
        /\ GetAnswer(id, host).status # 0
        /\ Readable(cs, GetAnswer(id, host))
    BY GetAnswerReadable, Zenon
  <2> DEFINE a == GetAnswer(id, host)
  <2>4. arr \in Seq(AnyAnswer) /\ \A i \in DOMAIN arr : arr[i].status # 0 /\ Readable(cs, arr[i])
    BY <2>2, Zenon DEF Getting
  <2>5. /\ arr' \in Seq(AnyAnswer)
        /\ \A i \in DOMAIN arr' : arr'[i] = a \/ \E j \in DOMAIN arr : arr'[i] = arr[j]
    <3> HIDE DEF a
    <3> QED
      BY <2>1, <2>3, <2>4 DEF a
  <2>6. \A i \in DOMAIN arr' : arr'[i].status # 0 /\ Readable(cs, arr'[i])
    <3> HIDE DEF a
    <3>1. a.status # 0 /\ Readable(cs, a)
      BY <2>3 DEF a
    <3> QED
      BY <2>4, <2>5, <3>1
  <2> QED
    BY <1>2, <2>5, <2>6, Zenon
<1>6. CASE req = "get" /\ arr' = arr
  BY <1>2, <1>6 DEF Getting
<1> QED
  BY <1>3, <1>4, <1>5, <1>6, NextResponding, Zenon DEF Responding


\* The statuses of a finished GET are explicit when one of them is an error.
LEMMA EndTellsAll ==
    ASSUME Getting, Kept, GetEnd
    PROVE  GetTellsAll'
<1>1. /\ arr \in Seq(AnyAnswer)
      /\ \A i \in DOMAIN arr : arr[i].status # 0 /\ Readable(cs, arr[i])
  <2>1. req = "get"
    BY Zenon DEF GetEnd
  <2> QED
    BY <2>1, Zenon DEF Getting
<1>2. cs' = cs
  BY DEF GetEnd
<1> DEFINE error == \E i \in DOMAIN arr : arr[i].status # NoStatus
           told  == IF error THEN Response("get", 207, Explicit(arr)) ELSE Response("get", 200, arr)
<1>3. res' = Sent(told)
  BY DEF GetEnd, End
<1>4. \A i \in DOMAIN arr : arr[i] \in AnyAnswer
  <2>1. arr \in Seq(AnyAnswer)
    BY <1>1
  <2> QED
    BY <2>1
<1>5. CASE res' = told /\ error
  <2>1. res'.code = 207 /\ res'.answers = Explicit(arr)
    BY <1>5 DEF Response
  <2>2. /\ DOMAIN Explicit(arr) = DOMAIN arr
        /\ \A i \in DOMAIN arr :
              /\ Explicit(arr)[i].id = arr[i].id
              /\ Explicit(arr)[i].status = IF arr[i].status = NoStatus THEN 0 ELSE arr[i].status
    BY <1>4 DEF Explicit, AnyAnswer
  <2>3. \A i \in DOMAIN arr :
            Explicit(arr)[i].status # NoStatus /\ Readable(cs, Explicit(arr)[i])
    BY <1>1, <2>2 DEF NoStatus, Readable, Failed
  <2>4. PICK i \in DOMAIN arr : arr[i].status # NoStatus
    BY <1>5
  <2>5. Failed(Explicit(arr)[i])
    BY <1>1, <2>2, <2>4 DEF Failed
  <2>6. /\ \E a \in Range(Explicit(arr)) : Failed(a)
        /\ \A a \in Range(Explicit(arr)) : a.status # NoStatus /\ Readable(cs, a)
    BY <2>2, <2>3, <2>4, <2>5, Zenon DEF Range
  <2> QED
    BY <1>2, <2>1, <2>6, Zenon DEF GetTellsAll, Readable
<1>6. CASE res' = told /\ ~error
  <2>1. res'.code = 200 /\ res'.answers = arr
    BY <1>6 DEF Response
  <2>2. \A a \in Range(arr) : a.status = NoStatus /\ ~Failed(a) /\ Readable(cs, a)
    BY <1>1, <1>6 DEF Range, Failed
  <2> QED
    BY <1>2, <2>1, <2>2, Zenon DEF GetTellsAll, Readable
<1>7. CASE res' = Response("empty", 200, <<>>)
  BY <1>7 DEF GetTellsAll, Response
<1> HIDE DEF told
<1> QED
  BY <1>3, <1>5, <1>6, <1>7, Answered, Zenon

LEMMA NextGetTellsAll ==
    ASSUME GetTellsAll, Getting, Kept, [Next]_vars
    PROVE  GetTellsAll'
<1>1. /\ DOMAIN cs' = DOMAIN cs
      /\ \A j \in DOMAIN cs : cs'[j].permissions = cs[j].permissions
  BY NextKeeps, Zenon
<1>2. \A j \in DOMAIN cs : IsReadable(cs[j]) => IsReadable(cs'[j])
  BY <1>1, Zenon DEF IsReadable
<1>3. CASE res' = res
  BY <1>1, <1>2, <1>3, Zenon DEF GetTellsAll
<1>4. CASE res'.request # "get"
  BY <1>4, Zenon DEF GetTellsAll
<1>5. CASE GetEnd
  BY <1>5, EndTellsAll, Zenon
<1> QED
  BY <1>3, <1>4, <1>5, NextResponding, Zenon DEF Responding

LEMMA NextIInv ==
    ASSUME IInv, [Next]_vars
    PROVE  IInv'
<1>1. Control /\ Kept /\ LastOfPut /\ NoSilentFailure /\ Getting /\ GetTellsAll
  BY TypeOKParts, Zenon DEF IInv
<1>2. Kept' /\ Control'
  BY <1>1, NextKeeps, NextControl, Zenon
<1>3. TypeOK'
  <2>1. TypeOK' <=> Control' /\ (cs \in [DOMAIN cs -> Characteristic])'
    BY TypeOKParts, PTL
  <2> QED
    BY <1>2, <2>1, Zenon DEF Kept
<1>4. LastOfPut' /\ NoSilentFailure' /\ Getting' /\ GetTellsAll'
  BY <1>1, NextLastOfPut, NextNoSilentFailure, NextGetting, NextGetTellsAll, Zenon
<1> QED
  BY <1>2, <1>3, <1>4, Zenon DEF IInv

\* An error that is not about events is a refusal, and a refusal keeps the value.
LEMMA NextRefused ==
    ASSUME Kept, [Next]_vars
    PROVE  \A i \in DOMAIN last'.answers :
              last' # last /\ Failed(last'.answers[i]) /\ last'.answers[i].status # -70406
                  => cs' = cs
<1>1. CASE PutEntry
  <2>1. PICK id, x, ev, r, o : Entry(id, x, ev, r, o)
    BY <1>1, PutIsEntry, Zenon
  <2> DEFINE answers == Answers(id, cs[id], o, ev, r)
  <2>2. last'.answers = answers
    <3>1. last' = [id |-> id, x |-> x, ev |-> ev, answers |-> answers]
      BY <2>1, Zenon DEF Entry
    <3> HIDE DEF answers
    <3> QED
      BY <3>1
  <2>3. r \in BOOLEAN
    BY <2>1, Zenon DEF Entry
  <2>4. \A i \in DOMAIN answers :
            Failed(answers[i]) /\ ~OfEvents(answers[i]) => o.status \notin {0, NoStatus}
    BY <2>3, AnswersTell, Zenon
  <2>5. WritesTo(id, x, o)
    BY <2>1, EntryWrites, Zenon
  <2>6. o.val = cs[id].val => cs' = cs
    BY <2>5, WriteKeeps
  <2>7. o.status \notin {0, NoStatus} => o.val = cs[id].val
    <3>1. \/ Refusal(cs[id], o)
          \/ o.status = 0
      BY <2>1, Zenon DEF Entry, Success
    <3> QED
      BY <3>1, Zenon DEF Refusal
  <2> HIDE DEF answers
  <2> QED
    BY <2>2, <2>4, <2>6, <2>7 DEF OfEvents
<1>2. CASE ~PutEntry
  <2>1. last' = last \/ last' = NoEntry
    BY <1>2, OthersOrdinary, Zenon DEF Ordinary
  <2>2. DOMAIN NoEntry.answers = {}
    BY DEF NoEntry
  <2> QED
    BY <2>1, <2>2
<1> QED
  BY <1>1, <1>2

-----------------------------------------------------------------------------
(* The theorems *)

LEMMA Invariance == Spec => []IInv
<1>1. IInv /\ [Next]_vars => IInv'
  BY NextIInv
<1> QED
  BY InitIInv, <1>1, PTL DEF Spec

\* The variables have their types, and the identifiers are those of add.
THEOREM TypeCorrect == Spec => []TypeOK
<1>1. IInv => TypeOK
  BY DEF IInv
<1> QED
  BY Invariance, <1>1, PTL

\* A value that setValue stores in a number or a bool could have been written:
\* whatever controllers and host send, and whatever was there before, it has its
\* type, its limits, and is valid; or it is NaN.
THEOREM StoresAccepted == Spec => StoredIsAccepted
<1>1. Kept /\ [Next]_vars =>
          [\A id \in DOMAIN cs :
              cs'[id] # cs[id] /\ cs'[id].format \notin TextFormat =>
                  /\ HasTypeOf(cs'[id], cs'[id].val)
                  /\ cs'[id].val # NaN => Accepts(cs'[id])]_vars
  BY NextKeeps, Zenon DEF Accepting, Accepted
<1>2. IInv => Kept
  BY DEF IInv
<1> QED
  BY Invariance, <1>1, <1>2, PTL DEF Spec, StoredIsAccepted

\* What a PUT answers no error for has happened, value and events.
THEOREM FailureTold == Spec => []NoSilentFailure
<1>1. IInv => NoSilentFailure
  BY DEF IInv
<1> QED
  BY Invariance, <1>1, PTL

\* A GET tells the status of all that it was asked for, or that all is well.
THEOREM StatusTold == Spec => []GetTellsAll
<1>1. IInv => GetTellsAll
  BY DEF IInv
<1> QED
  BY Invariance, <1>1, PTL

\* A write that is answered with an error of its own leaves all values as they
\* are.
THEOREM RefusedWithoutEffect == Spec => RefusedKeepsValue
<1>1. IInv /\ [Next]_vars =>
          [\A i \in DOMAIN last'.answers :
              last' # last /\ Failed(last'.answers[i]) /\ last'.answers[i].status # -70406
                  => cs' = cs]_vars
  BY NextRefused DEF IInv
<1> QED
  BY Invariance, <1>1, PTL DEF Spec, RefusedKeepsValue

=============================================================================
