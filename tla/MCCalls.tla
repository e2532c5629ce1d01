------------------------------ MODULE MCCalls -------------------------------
(* Calls for TLC: friends are alike. *)
EXTENDS Calls, TLC

Symmetry == Permutations(Friends)

=============================================================================
