--------------------------- MODULE MCHTTPGateway ---------------------------
(* Small instances of HTTPGateway for TLC. *)
EXTENDS HTTPGateway, TLC

\* Two requests a minute, one at a time; one request a minute, two at a time.
MCPolicies == {[rpm |-> 2, max |-> 1], [rpm |-> 1, max |-> 2]}

Symmetry == Permutations(Requests) \cup Permutations(Creds)

=============================================================================
