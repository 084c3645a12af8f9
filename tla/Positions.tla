----------------------------- MODULE Positions -----------------------------
(***************************************************************************)
(* The list comprehension [x for x in xs if ...]: what stands in xs at the *)
(* positions S that satisfy the condition, in increasing order.            *)
(***************************************************************************)
EXTENDS Integers, FiniteSets

Rank(S, i) == Cardinality({k \in S : k <= i})
Ascending(S) == [j \in 1..Cardinality(S) |-> CHOOSE i \in S : Rank(S, i) = j]
Picked(xs, S) == LET at == Ascending(S) IN [j \in DOMAIN at |-> xs[at[j]]]

============================================================================
