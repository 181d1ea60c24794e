------------------------------ MODULE MCEgress ------------------------------
(* Small instances of Egress for TLC. *)
EXTENDS Egress, TLC

Symmetry == Permutations(Flows) \cup Permutations(Proxies)

=============================================================================
