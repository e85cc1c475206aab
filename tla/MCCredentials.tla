--------------------------- MODULE MCCredentials ---------------------------
(***************************************************************************)
(* Credentials on a session with a chain of two children: the first may be *)
(* given every scope or fewer, the second every scope.                     *)
(***************************************************************************)
EXTENDS Credentials

CONSTANTS n, a, b

AllScopes == {"reserve", "grant", "settle", "revoke"}
Few       == {"reserve", "settle"}
Chain     == {<<n, a, AllScopes>>, <<n, a, Few>>, <<a, b, AllScopes>>}
=============================================================================
