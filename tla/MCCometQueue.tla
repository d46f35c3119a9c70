---------------------------- MODULE MCCometQueue ----------------------------
(***************************************************************************)
(* Instances of CometQueue for TLC: comets u1 and u2 serve UDP, w1 TCP.    *)
(***************************************************************************)
EXTENDS CometQueue

CONSTANTS u1, u2, w1, n1, n2, n3, n4, n5

Kinds == [x \in Comets |-> IF x = w1 THEN "2" ELSE "1"]
=============================================================================
