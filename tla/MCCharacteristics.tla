------------------------- MODULE MCCharacteristics --------------------------
(* Characteristics for TLC. *)
EXTENDS Characteristics, TLC

\* Connections, goroutines and values are treated alike.
MCSymmetry == Permutations(Addr) \cup Permutations(Host) \cup Permutations(Value)

=============================================================================
