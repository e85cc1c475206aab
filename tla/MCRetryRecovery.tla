--------------------------- MODULE MCRetryRecovery ---------------------------
(***************************************************************************)
(* Small instances of RetryRecovery.  Cases do not interact, so one case   *)
(* with several calls about it is the interesting instance.                *)
(***************************************************************************)
EXTENDS RetryRecoveryProofs

CONSTANTS w1

AllAboutOneCase == [c \in Calls |-> w1]
=============================================================================
