------------------------------ MODULE MCDevUdp ------------------------------
(***************************************************************************)
(* Instances of DevUdp for TLC.                                            *)
(***************************************************************************)
EXTENDS DevUdp, TLC

CONSTANTS s1, s2, d1, x1, r1, r2, l1, l2

ReqSymmetry == Permutations(Reqs) \cup Permutations(Sess) \cup Permutations(Logouts)
=============================================================================
