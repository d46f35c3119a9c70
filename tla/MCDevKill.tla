----------------------------- MODULE MCDevKill -----------------------------
(***************************************************************************)
(* Instances of DevKill for TLC.                                           *)
(***************************************************************************)
EXTENDS DevKill, TLC

CONSTANTS s1, s2, s3, s4, d1, d2

SessSymmetry == Permutations(Sess) \cup Permutations(Devs)
=============================================================================
