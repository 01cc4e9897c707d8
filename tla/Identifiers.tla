---------------------------- MODULE Identifiers ----------------------------
(***************************************************************************)
(* The identifiers that Server.add (server.go) gives to accessories, and   *)
(* to the services and characteristics of each.  An Id of 0 is one that    *)
(* the host has not chosen.  Services and characteristics share one number *)
(* range: the items of an accessory are its services, each followed by its *)
(* characteristics.                                                        *)
(***************************************************************************)
EXTENDS Integers, Sequences, Functions, FiniteSetsExt

\* Mutant: the first number is 0.
NumberedFromZero(ids) ==
    [i \in DOMAIN ids |->
        IF ids[i] # 0 THEN ids[i] ELSE Cardinality({j \in 1..(i - 1) : ids[j] = 0})]

\* The numbers 1, 2, ... for those that have none.
Numbered(ids) ==
    [i \in DOMAIN ids |->
        IF ids[i] # 0 THEN ids[i] ELSE Cardinality({j \in 1..i : ids[j] = 0})]

\* Mutant: only neighbours are compared.
NeighbourDuplicate(ids) == {i \in DOMAIN ids : i > 1 /\ ids[i - 1] = ids[i]}

\* The items whose number is taken by one before them.
Duplicate(ids) == {i \in DOMAIN ids : \E j \in 1..(i - 1) : ids[j] = ids[i]}

\* The items after a duplicate get no number any more.
Items(items) ==
    LET ids == Numbered(items) IN
    [i \in DOMAIN items |->
        IF \E d \in Duplicate(ids) : d < i THEN items[i] ELSE ids[i]]

Refused(a) == a.name = "" \/ Duplicate(Numbered(a.items)) # {}

\* The accessories after add, which stops at the first it refuses: one without
\* a name gets no id, one with a duplicate does.
add(as) ==
    LET aids == Numbered([k \in DOMAIN as |-> as[k].id])
        bad == {k \in DOMAIN as : Refused(as[k])}
        reached(k) == \A b \in bad : k < b \/ (k = b /\ as[b].name # "")
    IN [err |-> bad # {},
        as  |-> [k \in DOMAIN as |->
                    IF reached(k) THEN [as[k] EXCEPT !.id = aids[k], !.items = Items(@)] ELSE as[k]]]

-----------------------------------------------------------------------------
(* What they promise *)

\* Everything that was there before has the identifiers it had.
Keeps(before, after) ==
    \A k \in DOMAIN before :
        /\ after[k].id = before[k].id
        /\ \A i \in DOMAIN before[k].items : after[k].items[i] = before[k].items[i]

\* The identifiers are unique, and what is added at the end, to the list or to
\* an accessory, leaves those of the rest as they were on the last start.  The
\* host has chosen all ids of the accessories, or none.
Identifies(as, larger) ==
    LET r == add(as)  s == add(larger)
        chosen == {k \in DOMAIN as : as[k].id # 0}
    IN ~r.err =>
        /\ chosen \in {{}, DOMAIN as} /\ IsInjective([k \in chosen |-> as[k].id])
              => IsInjective([k \in DOMAIN as |-> r.as[k].id])
        /\ \A k \in DOMAIN as : IsInjective(r.as[k].items) /\ 0 \notin Range(r.as[k].items)
        /\ ~s.err => Keeps(r.as, s.as)

=============================================================================
