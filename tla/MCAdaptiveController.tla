----------------------- MODULE MCAdaptiveController ------------------------
(* AdaptiveController for TLC.                                              *)
EXTENDS AdaptiveController, TLC

\* Goroutines are alike (sound for invariants and action properties).
MCSymmetry == Permutations(Thread)

=============================================================================
