--------------------------- MODULE MCControlPlane ---------------------------
(* Small instances of ControlPlane for TLC. *)
EXTENDS ControlPlane, TLC

\* Aliases other than HostAlias, user names, credentials and configurations are
\* compared and stored, never told apart.
Symmetry ==
    Permutations(Aliases \ {HostAlias}) \cup Permutations(Users)
        \cup Permutations(Creds) \cup Permutations(Confs)

=============================================================================
