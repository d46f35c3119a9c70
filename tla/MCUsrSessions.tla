--------------------------- MODULE MCUsrSessions ---------------------------
(***************************************************************************)
(* Instances of UsrSessions for TLC.                                       *)
(***************************************************************************)
EXTENDS UsrSessions, TLC

CONSTANTS c1, c2, c3, h1, h2, p1, p2, m1, m2

ConnSymmetry == Permutations(Conns) \cup Permutations(Hosts)
=============================================================================
