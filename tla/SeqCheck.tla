------------------------------ MODULE SeqCheck ------------------------------
(***************************************************************************)
(* The check of request numbers, DevSession.VerifyPack (devsess.go), as    *)
(* opcode03 and opcode05 (devop.go) apply it to the requests of a device.  *)
(*                                                                         *)
(* A device numbers its requests with a 16-bit counter.  Over UDP each     *)
(* datagram is handled by a goroutine of its own and VerifyPack takes no   *)
(* lock: it compares the number with ridx, and then stores it.  The link   *)
(* (external) loses, reorders and duplicates datagrams.                    *)
(*                                                                         *)
(* The model counts requests without wrapping; the number a request        *)
(* carries is its count modulo 2^16.                                       *)
(***************************************************************************)
EXTENDS Naturals, FiniteSets

CONSTANTS
    Starts,         \* counts at which the exploration of a session begins
    MaxRequests,    \* bound: requests sent
    MaxDeliveries   \* bound: deliveries, duplicates included

ASSUME SeqCheckAssumption ==
    /\ Starts \subseteq Nat
    /\ MaxRequests \in Nat /\ MaxDeliveries \in Nat

VARIABLES
    base,       \* the count at which this exploration began
    ridx,       \* DevSession.ridx
    storing,    \* calls that passed the comparison and have not stored yet:
                \* <<request, number of the delivery>>
    handled,    \* number of deliveries
    latest,     \* the latest request delivered
    passed,     \* for each request, how often VerifyPack accepted it
    refused,    \* requests VerifyPack has refused
    orderly,    \* history: no late, repeated or overlapping delivery, no long gap
    overlapped, \* history: two calls of VerifyPack have overlapped
    wrapped     \* history: a number below ridx has been accepted
seqVars == <<base, ridx, storing, handled, latest, passed, refused,
             orderly, overlapped, wrapped>>

Width == 65536
Number_Unbounded(n) == n
Number(n) == n % Width

\* The two cases of the switch in VerifyPack.
AcceptsNumber_NoWrap(packNum, r) == packNum > r
AcceptsNumber_OrEqual(packNum, r) ==
    \/ packNum >= r
    \/ packNum < r /\ packNum < 10 /\ r > 65530
AcceptsNumber(packNum, r) ==
    \/ packNum > r
    \/ packNum < r /\ packNum < 10 /\ r > 65530

MaxGap == 4     \* lost requests in a row that VerifyPack puts up with

SeqInit ==
    /\ base \in Starts
    /\ ridx = Number(base)
    /\ storing = {} /\ handled = 0 /\ latest = base
    /\ passed = [n \in 1..MaxRequests |-> 0] /\ refused = {}
    /\ orderly = TRUE /\ overlapped = FALSE /\ wrapped = FALSE

\* A delivery, and the comparison.  The link delivers any request at any time,
\* any number of times: one that is never delivered is lost.
Compare(n) ==
    /\ handled < MaxDeliveries
    /\ handled' = handled + 1
    /\ latest' = IF n > latest THEN n ELSE latest
    /\ orderly' = (orderly /\ n > latest /\ n <= latest + 1 + MaxGap /\ storing = {})
    /\ overlapped' = (overlapped \/ storing # {})
    /\ IF AcceptsNumber(Number(n), ridx)
       THEN storing' = storing \cup {<<n, handled>>} /\ UNCHANGED refused
       ELSE refused' = refused \cup {n} /\ UNCHANGED storing
    /\ UNCHANGED <<base, ridx, passed, wrapped>>

\* s.ridx = packNum
Store(call) ==
    /\ call \in storing
    /\ ridx' = Number(call[1])
    /\ wrapped' = (wrapped \/ Number(call[1]) < ridx)
    /\ storing' = storing \ {call}
    /\ passed' = [passed EXCEPT ![call[1] - base] = @ + 1]
    /\ UNCHANGED <<base, handled, latest, refused, orderly, overlapped>>

SeqNext ==
    \/ \E n \in base + 1 .. base + MaxRequests : Compare(n)
    \/ \E call \in storing : Store(call)

SeqSpec == SeqInit /\ [][SeqNext]_seqVars

-----------------------------------------------------------------------------
(* Properties.                                                             *)

(***************************************************************************)
(* VerifyPack never refuses a request of a device whose requests arrive in *)
(* order, one at a time, with at most four lost in a row, across the wrap  *)
(* of the counter too.  (With five lost, 65531 to 65535, the session       *)
(* refuses every number until the counter comes back to 65531.)            *)
(***************************************************************************)
InOrderAccepted == orderly => refused = {}

(***************************************************************************)
(* No request is accepted twice, unless two calls of VerifyPack overlapped *)
(* (UDP handles datagrams concurrently) or the counter has wrapped (an old *)
(* number is then above ridx again).                                       *)
(***************************************************************************)
AcceptedOnce ==
    ~overlapped /\ ~wrapped => \A i \in DOMAIN passed : passed[i] <= 1
=============================================================================
