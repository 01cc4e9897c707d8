-------------------------- MODULE MCPairingServer --------------------------
(* PairingServer for TLC: the .cfg files name the connections, controllers. *)
EXTENDS PairingServer, TLC

\* Every address and every controller is treated alike.  For invariants and
\* action properties only: symmetry is not sound for liveness.
MCSymmetry == Permutations(Addr) \cup Permutations(Controller)

=============================================================================
