------------------------------ MODULE MCHosted ------------------------------
(***************************************************************************)
(* Small instances of Hosted.                                              *)
(***************************************************************************)
EXTENDS HostedReport, TLC

CONSTANTS w1, k1, k2, q1, q2, b1, s1, t1, t2, op, w2

Interchangeable == Permutations({k1, k2}) \cup Permutations({q1, q2})
=============================================================================
