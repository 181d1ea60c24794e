---------------------------- MODULE MCMonitoring ----------------------------
(* Symmetry of the visitors, for the run of Monitoring.                    *)
EXTENDS Monitoring, TLC

VisitorSymmetry == Permutations(Visitors)

=============================================================================
