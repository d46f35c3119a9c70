----------------------------- MODULE FifoQueue -----------------------------
(***************************************************************************)
(* What the proxy's queue of comets (common/queue.go) promises: a sequence *)
(* of values to which Put appends and from which Remove takes a value that *)
(* Contains reported, leaving the order of the others as it is.            *)
(***************************************************************************)
EXTENDS Naturals, Sequences

CONSTANT Values

VARIABLE items

Put(v) == items' = Append(items, v)

Remove(i) == items' = SubSeq(items, 1, i - 1) \o SubSeq(items, i + 1, Len(items))

Init == items = <<>>

Next ==
    \/ \E v \in Values : Put(v)
    \/ \E i \in 1..Len(items) : Remove(i)

Spec == Init /\ [][Next]_items
=============================================================================
