----------------------------- MODULE MCDelivery -----------------------------
(***************************************************************************)
(* Instance of Delivery for TLC: texts that are empty, leave a cipher      *)
(* block open, fill it together with the session id (so that padding adds  *)
(* a block), and are as long as the length field allows; notices to one    *)
(* user and to two, about one to three devices; one pushing goroutine      *)
(* beside the reader and the closer, request counts around 0 and around    *)
(* the wrap of the counter, one other comet of each kind, a receiver that  *)
(* logs in to and out of one comet, and two goroutines of the push server, *)
(* which are alike.                                                        *)
(***************************************************************************)
EXTENDS Delivery

TextA == <<[len |-> 3, val |-> "a"]>>
TextB == <<[len |-> 8, val |-> "b"]>>
TextC == <<[len |-> 65527, val |-> "c"]>>
MCTexts == {<<>>, TextA, TextB, TextC}
MCReceivers == {<<"u1">>, <<"u1", "u2">>}

Symmetry == Permutations(Handlers)
=============================================================================
