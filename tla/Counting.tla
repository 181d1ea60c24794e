------------------------------ MODULE Counting ------------------------------
(***************************************************************************)
(* How a count of holders follows the states of the holders.  The slots of *)
(* the gateways (Handler.requests, Server.connections, Server.sessions)    *)
(* and the counters of the LLM limiters are compared with such counts.     *)
(***************************************************************************)
EXTENDS Integers, FiniteSets, FiniteSetTheorems, TLAPS

\* The members of S whose state is one of those in which they hold something.
Holders(S, state, holding) == {x \in S : state[x] \in holding}

\* Finitely many members have finitely many holders.
LEMMA HoldersFinite ==
    ASSUME NEW S, IsFiniteSet(S), NEW state, NEW holding
    PROVE  IsFiniteSet(Holders(S, state, holding)) /\ Cardinality(Holders(S, state, holding)) \in Nat
BY FS_Subset, FS_CardinalityType DEF Holders

\* One member changes its state: it begins to hold, stops holding, or neither.
LEMMA HoldersFollow ==
    ASSUME NEW S, IsFiniteSet(S), NEW holding, NEW old, NEW new,
           NEW x \in S, \A y \in S \ {x} : new[y] = old[y]
    PROVE  /\ old[x] \notin holding /\ new[x] \in holding =>
                Cardinality(Holders(S, new, holding)) = Cardinality(Holders(S, old, holding)) + 1
           /\ old[x] \in holding /\ new[x] \notin holding =>
                /\ Cardinality(Holders(S, old, holding)) > 0
                /\ Cardinality(Holders(S, new, holding)) = Cardinality(Holders(S, old, holding)) - 1
           /\ (old[x] \in holding <=> new[x] \in holding) =>
                Holders(S, new, holding) = Holders(S, old, holding)
<1> DEFINE H == Holders(S, old, holding)
<1>1. IsFiniteSet(H) /\ Cardinality(H) \in Nat
  BY HoldersFinite
<1>2. CASE old[x] \notin holding /\ new[x] \in holding
  <2>1. Holders(S, new, holding) = H \cup {x} /\ x \notin H
    BY <1>2 DEF Holders
  <2> QED BY <1>1, <1>2, <2>1, FS_AddElement
<1>3. CASE old[x] \in holding /\ new[x] \notin holding
  <2>1. Holders(S, new, holding) = H \ {x} /\ x \in H
    BY <1>3 DEF Holders
  <2>2. Cardinality(H \ {x}) = Cardinality(H) - 1 /\ Cardinality(H \ {x}) \in Nat
    BY <1>1, <2>1, FS_RemoveElement, FS_CardinalityType
  <2> QED BY <1>1, <1>3, <2>1, <2>2
<1>4. CASE old[x] \in holding <=> new[x] \in holding
  BY <1>4 DEF Holders
<1> QED BY <1>2, <1>3, <1>4

\* Nobody holds anything: the count is zero.
LEMMA NoHolders ==
    ASSUME NEW S, NEW state, NEW holding, \A x \in S : state[x] \notin holding
    PROVE  Cardinality(Holders(S, state, holding)) = 0
<1>1. Holders(S, state, holding) = {}
  BY DEF Holders
<1> QED BY <1>1, FS_EmptySet

=============================================================================
