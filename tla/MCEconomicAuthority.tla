------------------------- MODULE MCEconomicAuthority -------------------------
(***************************************************************************)
(* Small instances of EconomicAuthority.                                   *)
(***************************************************************************)
EXTENDS EconomicAuthority, TLC

CONSTANTS r, a, b, e1, e2, v1, v2, o1, o2

SmallAmounts == {-1, 1, 2}

OneDollar == {1}

\* Two callers revoke for different reasons.
TwoReasons == [v \in Revokes |-> IF v = v1 THEN o1 ELSE o2]

\* The delegations, and the events, are interchangeable.
Interchangeable == Permutations({r, a, b}) \cup Permutations({e1, e2})
=============================================================================
