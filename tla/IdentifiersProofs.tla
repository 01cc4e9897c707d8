------------------------- MODULE IdentifiersProofs -------------------------
(***************************************************************************)
(* What Server.add promises about identifiers, for every list of           *)
(* accessories: they are unique, and an accessory, a service or a          *)
(* characteristic that is added at the end takes none away.                *)
(***************************************************************************)
EXTENDS Identifiers, FiniteSetTheorems, TLAPS

Ids == Seq(Nat)

\* Accessories, with whatever names.
AccessoryList(Names) == Seq([id : Nat, name : Names, items : Ids])

\* The list is longer, or some accessories have more items, at the end.
Prolongs(more, ids) ==
    DOMAIN ids \subseteq DOMAIN more /\ \A i \in DOMAIN ids : more[i] = ids[i]

Enlarges(larger, as) ==
    /\ DOMAIN as \subseteq DOMAIN larger
    /\ \A k \in DOMAIN as :
          larger[k].id = as[k].id /\ Prolongs(larger[k].items, as[k].items)

-----------------------------------------------------------------------------

\* A number that is given is never 0.
LEMMA NumberedPositive ==
    ASSUME NEW ids \in Ids, NEW i \in DOMAIN ids
    PROVE  Numbered(ids)[i] \in Nat \ {0}
<1> DEFINE S == {j \in 1..i : ids[j] = 0}
<1>1. i \in Nat /\ i \in 1..i /\ ids[i] \in Nat
  BY DEF Ids
<1>2. IsFiniteSet(S)
  <2>1. IsFiniteSet(1..i)
    BY <1>1, FS_Interval
  <2>2. S \in SUBSET (1..i)
    OBVIOUS
  <2> QED
    BY <2>1, <2>2, FS_Subset, Zenon
<1>3. Cardinality(S) \in Nat
  BY <1>2, FS_CardinalityType
<1>4. ids[i] = 0 => Cardinality(S) # 0
  <2> SUFFICES ASSUME ids[i] = 0 PROVE Cardinality(S) # 0
    OBVIOUS
  <2>1. i \in S
    BY <1>1
  <2> QED
    BY <1>2, <2>1, FS_EmptySet
<1>5. Numbered(ids)[i] = IF ids[i] # 0 THEN ids[i] ELSE Cardinality(S)
  BY DEF Numbered
<1> QED
  BY <1>1, <1>3, <1>4, <1>5

\* A number depends on what comes before it only.
LEMMA NumberedKept ==
    ASSUME NEW ids \in Ids, NEW more \in Ids, Prolongs(more, ids)
    PROVE  Prolongs(Numbered(more), Numbered(ids))
<1>1. DOMAIN Numbered(ids) = DOMAIN ids /\ DOMAIN Numbered(more) = DOMAIN more
  BY DEF Numbered
<1>2. ASSUME NEW i \in DOMAIN ids PROVE Numbered(more)[i] = Numbered(ids)[i]
  <2>1. 1..i \subseteq DOMAIN ids
    BY DEF Ids
  <2>2. \A j \in 1..i : more[j] = ids[j]
    BY <2>1 DEF Prolongs
  <2>3. {j \in 1..i : more[j] = 0} = {j \in 1..i : ids[j] = 0}
    BY <2>2
  <2>4. i \in DOMAIN more /\ more[i] = ids[i]
    BY DEF Prolongs
  <2> QED
    BY <2>3, <2>4 DEF Numbered
<1> QED
  BY <1>1, <1>2 DEF Prolongs

\* Where the host has chosen nothing, the numbers are 1, 2, ...
LEMMA NumberedInOrder ==
    ASSUME NEW ids \in Ids, \A j \in DOMAIN ids : ids[j] = 0, NEW i \in DOMAIN ids
    PROVE  Numbered(ids)[i] = i
<1>1. i \in Nat /\ 1 <= i /\ 1..i \subseteq DOMAIN ids
  BY DEF Ids
<1>2. {j \in 1..i : ids[j] = 0} = 1..i
  BY <1>1
<1>3. Cardinality(1..i) = i
  BY <1>1, FS_Interval
<1> QED
  BY <1>2, <1>3 DEF Numbered

LEMMA NoDuplicateInjective ==
    ASSUME NEW ids, NEW n \in Nat, DOMAIN ids = 1..n, Duplicate(ids) = {}
    PROVE  IsInjective(ids)
<1> SUFFICES ASSUME NEW a \in 1..n, NEW b \in 1..n, ids[a] = ids[b] PROVE a = b
  BY DEF IsInjective
<1>1. ~(a < b)
  <2>1. a < b => a \in 1..(b - 1)
    OBVIOUS
  <2> QED
    BY <2>1 DEF Duplicate
<1>2. ~(b < a)
  <2>1. b < a => b \in 1..(a - 1)
    OBVIOUS
  <2> QED
    BY <2>1 DEF Duplicate
<1> QED
  BY <1>1, <1>2

LEMMA MemberOfSeq ==
    ASSUME NEW T, NEW s \in Seq(T), NEW k \in DOMAIN s
    PROVE  s[k] \in T
OBVIOUS

LEMMA DomainOfSeq ==
    ASSUME NEW T, NEW s \in Seq(T)
    PROVE  Len(s) \in Nat /\ DOMAIN s = 1..Len(s)
OBVIOUS

\* The two fields of what add answers.
LEMMA FieldsOfAdd ==
    ASSUME NEW r, NEW e, NEW s, r = [err |-> e, as |-> s]
    PROVE  r.err = e /\ r.as = s
BY Zenon

\* When nothing is refused, every accessory and every item is numbered.
LEMMA AllNumbered ==
    ASSUME NEW Names, NEW as \in AccessoryList(Names), ~add(as).err, NEW k \in DOMAIN as
    PROVE  /\ DOMAIN add(as).as = DOMAIN as
           /\ ~Refused(as[k])
           /\ add(as).as[k].id = Numbered([j \in DOMAIN as |-> as[j].id])[k]
           /\ add(as).as[k].items = Numbered(as[k].items)
<1> DEFINE aids == Numbered([j \in DOMAIN as |-> as[j].id])
           bad  == {j \in DOMAIN as : Refused(as[j])}
           reached(j) == \A b \in bad : j < b \/ (j = b /\ as[b].name # "")
<1>1. add(as) = [err |-> bad # {},
                 as  |-> [j \in DOMAIN as |->
                            IF reached(j) THEN [as[j] EXCEPT !.id = aids[j], !.items = Items(@)]
                            ELSE as[j]]]
  BY Zenon DEF add
<1>2. bad = {}
  <2>1. add(as).err = (bad # {})
    BY <1>1, FieldsOfAdd, Zenon
  <2> QED
    BY <2>1, Zenon
<1>3. ~Refused(as[k])
  BY <1>2
<1>4. as[k] \in [id : Nat, name : Names, items : Ids]
  <2> DEFINE A == [id : Nat, name : Names, items : Ids]
  <2>1. as \in Seq(A)
    BY DEF AccessoryList
  <2> HIDE DEF A
  <2>2. as[k] \in A
    BY <2>1, MemberOfSeq, Zenon
  <2> QED
    BY <2>2 DEF A
<1>5. add(as).as = [j \in DOMAIN as |->
                       [as[j] EXCEPT !.id = aids[j], !.items = Items(@)]]
  <2>1. \A j \in DOMAIN as : reached(j)
    BY <1>2
  <2>2. add(as).as = [j \in DOMAIN as |->
                         IF reached(j) THEN [as[j] EXCEPT !.id = aids[j], !.items = Items(@)]
                         ELSE as[j]]
    BY <1>1, FieldsOfAdd, Zenon
  <2> HIDE DEF aids, reached
  <2> QED
    BY <2>1, <2>2
<1>6. add(as).as[k].id = aids[k] /\ add(as).as[k].items = Items(as[k].items)
  <2> HIDE DEF aids, bad, reached
  <2> QED
    BY <1>4, <1>5
<1>7. Items(as[k].items) = Numbered(as[k].items)
  <2>1. Duplicate(Numbered(as[k].items)) = {}
    BY <1>3 DEF Refused
  <2> QED
    BY <2>1 DEF Items, Numbered
<1> QED
  BY <1>3, <1>5, <1>6, <1>7

LEMMA IdsOf ==
    ASSUME NEW Names, NEW as \in AccessoryList(Names)
    PROVE  /\ [k \in DOMAIN as |-> as[k].id] \in Ids
           /\ DOMAIN [k \in DOMAIN as |-> as[k].id] = DOMAIN as
           /\ \A k \in DOMAIN as : as[k].id \in Nat /\ as[k].items \in Ids
<1> DEFINE A == [id : Nat, name : Names, items : Ids]
<1>1. as \in Seq(A)
  BY DEF AccessoryList
<1>2. \A k \in DOMAIN as : as[k] \in A
  <2> HIDE DEF A
  <2> QED
    BY <1>1, MemberOfSeq, Zenon
<1>3. \A k \in DOMAIN as : as[k].id \in Nat /\ as[k].items \in Ids
  BY <1>2
<1>4. Len(as) \in Nat /\ DOMAIN as = 1..Len(as)
  BY <1>1, DomainOfSeq, Zenon
<1>5. [k \in DOMAIN as |-> as[k].id] \in Ids
  <2> DEFINE n == Len(as)
             id(k) == as[k].id
  <2>1. n \in Nat /\ \A k \in 1..n : id(k) \in Nat
    BY <1>3, <1>4, Zenon
  <2>2. [k \in 1..n |-> id(k)] \in Seq(Nat)
    <3> HIDE DEF n, id
    <3> QED
      BY <2>1
  <2> QED
    BY <1>4, <2>2, Zenon DEF Ids
<1> QED
  BY <1>3, <1>5

\* "every accessory has a unique id, which must not change between system
\* restarts" (README.md): of any list that add accepts, all the accessories of
\* which have a unique id of the host's, or none has one, the accessories are
\* numbered uniquely; so are the services and characteristics of each; and
\* each keeps its number when more come after it.
THEOREM IdentifiersStable ==
    ASSUME NEW Names, NEW as \in AccessoryList(Names), NEW larger \in AccessoryList(Names),
            Enlarges(larger, as)
    PROVE  Identifies(as, larger)
<1> DEFINE aids == [k \in DOMAIN as |-> as[k].id]
           chosen == {k \in DOMAIN as : as[k].id # 0}
<1> SUFFICES ASSUME ~add(as).err
             PROVE  /\ chosen \in {{}, DOMAIN as} /\ IsInjective([k \in chosen |-> as[k].id])
                         => IsInjective([k \in DOMAIN as |-> add(as).as[k].id])
                    /\ \A k \in DOMAIN as : /\ IsInjective(add(as).as[k].items)
                                            /\ 0 \notin Range(add(as).as[k].items)
                    /\ ~add(larger).err => Keeps(add(as).as, add(larger).as)
  BY Zenon DEF Identifies
<1>1. /\ DOMAIN add(as).as = DOMAIN as
      /\ \A k \in DOMAIN as : /\ ~Refused(as[k])
                              /\ add(as).as[k].id = Numbered(aids)[k]
                              /\ add(as).as[k].items = Numbered(as[k].items)
  <2>1. \A k \in DOMAIN as : /\ ~Refused(as[k])
                             /\ add(as).as[k].id = Numbered(aids)[k]
                             /\ add(as).as[k].items = Numbered(as[k].items)
    BY AllNumbered, Zenon
  <2>2. DOMAIN add(as).as = DOMAIN as
    BY FieldsOfAdd, Zenon DEF add
  <2> QED
    BY <2>1, <2>2, Zenon
<1>2. /\ aids \in Ids /\ DOMAIN aids = DOMAIN as
      /\ \A k \in DOMAIN as : as[k].id \in Nat /\ as[k].items \in Ids
  BY IdsOf, Zenon
<1>3. ASSUME chosen \in {{}, DOMAIN as}, IsInjective([k \in chosen |-> as[k].id])
      PROVE  IsInjective([k \in DOMAIN as |-> add(as).as[k].id])
  <2>1. CASE chosen = {}
    <3>1. \A k \in DOMAIN aids : aids[k] = 0
      BY <1>2, <2>1
    <3>2. \A k \in DOMAIN as : Numbered(aids)[k] = k
      BY <1>2, <3>1, NumberedInOrder, Zenon
    <3>3. \A k \in DOMAIN as : add(as).as[k].id = k
      BY <1>1, <3>2, Zenon
    <3> QED
      BY <3>3 DEF IsInjective
  <2>2. CASE chosen = DOMAIN as
    <3>1. \A k \in DOMAIN as : add(as).as[k].id = as[k].id
      BY <1>1, <1>2, <2>2 DEF Numbered
    <3> QED
      BY <3>1, <1>3, <2>2 DEF IsInjective
  <2> QED
    BY <1>3, <2>1, <2>2
<1>4. ASSUME NEW k \in DOMAIN as
      PROVE  IsInjective(add(as).as[k].items) /\ 0 \notin Range(add(as).as[k].items)
  <2> DEFINE items == as[k].items
  <2>1. items \in Ids /\ Duplicate(Numbered(items)) = {}
    BY <1>1, <1>2, Zenon DEF Refused
  <2>2. add(as).as[k].items = Numbered(items)
    BY <1>1
  <2> HIDE DEF items
  <2>3. DOMAIN Numbered(items) = 1..Len(items) /\ Len(items) \in Nat
    BY <2>1 DEF Numbered, Ids
  <2>4. IsInjective(Numbered(items))
    BY <2>1, <2>3, NoDuplicateInjective, Zenon
  <2>5. \A i \in DOMAIN items : Numbered(items)[i] # 0
    BY <2>1, NumberedPositive
  <2>6. DOMAIN Numbered(items) = DOMAIN items
    BY DEF Numbered
  <2> QED
    BY <2>2, <2>4, <2>5, <2>6 DEF Range
<1>5. ASSUME ~add(larger).err PROVE Keeps(add(as).as, add(larger).as)
  <2> DEFINE more == [k \in DOMAIN larger |-> larger[k].id]
  <2>1. \A k \in DOMAIN larger : /\ add(larger).as[k].id = Numbered(more)[k]
                                 /\ add(larger).as[k].items = Numbered(larger[k].items)
    BY <1>5, AllNumbered, Zenon
  <2>2. /\ more \in Ids /\ DOMAIN more = DOMAIN larger
        /\ \A k \in DOMAIN larger : larger[k].items \in Ids
    BY IdsOf, Zenon
  <2>3. Prolongs(more, aids)
    BY <1>2, <2>2 DEF Enlarges, Prolongs
  <2>4. \A k \in DOMAIN as : Numbered(more)[k] = Numbered(aids)[k]
    <3>1. Prolongs(Numbered(more), Numbered(aids))
      BY <1>2, <2>2, <2>3, NumberedKept, Zenon
    <3>2. DOMAIN Numbered(aids) = DOMAIN as
      BY <1>2 DEF Numbered
    <3> QED
      BY <3>1, <3>2 DEF Prolongs
  <2>5. ASSUME NEW k \in DOMAIN as
        PROVE  \A i \in DOMAIN Numbered(as[k].items) :
                   Numbered(larger[k].items)[i] = Numbered(as[k].items)[i]
    <3>1. k \in DOMAIN larger /\ Prolongs(larger[k].items, as[k].items)
      BY DEF Enlarges
    <3>2. Prolongs(Numbered(larger[k].items), Numbered(as[k].items))
      BY <1>2, <2>2, <3>1, NumberedKept, Zenon
    <3> QED
      BY <3>2 DEF Prolongs
  <2>6. DOMAIN as \subseteq DOMAIN larger
    BY DEF Enlarges
  <2> SUFFICES ASSUME NEW k \in DOMAIN as
               PROVE  /\ add(larger).as[k].id = add(as).as[k].id
                      /\ \A i \in DOMAIN add(as).as[k].items :
                            add(larger).as[k].items[i] = add(as).as[k].items[i]
    BY <1>1, Zenon DEF Keeps
  <2>7. /\ add(as).as[k].id = Numbered(aids)[k]
        /\ add(as).as[k].items = Numbered(as[k].items)
        /\ add(larger).as[k].id = Numbered(more)[k]
        /\ add(larger).as[k].items = Numbered(larger[k].items)
    BY <1>1, <2>1, <2>6
  <2>8. \A i \in DOMAIN Numbered(as[k].items) :
            Numbered(larger[k].items)[i] = Numbered(as[k].items)[i]
    BY <2>5
  <2> QED
    BY <2>4, <2>7, <2>8
<1> QED
  BY <1>3, <1>4, <1>5

=============================================================================
