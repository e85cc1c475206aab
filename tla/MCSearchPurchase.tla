-------------------------- MODULE MCSearchPurchase --------------------------
(***************************************************************************)
(* Small instances of SearchPurchase.                                      *)
(***************************************************************************)
EXTENDS SearchMetrics, TLC

CONSTANTS r1, r2, p1, p2, c1, c2, j1, q1

OneJob == [r \in Requests |-> j1]
OneQuery == [r \in Requests |-> q1]
BudgetOfTwo == [j \in Jobs |-> 2]

Interchangeable == Permutations({p1, p2}) \cup Permutations({r1, r2}) \cup Permutations(Calls)
=============================================================================
