----------------------------- MODULE TcpFraming -----------------------------
(***************************************************************************)
(* Framing on a device's TCP connection (octopus/srv/ws.go): tcpWriter     *)
(* puts the flag bytes and a length before each message, readFrame looks   *)
(* for the flag bytes and skips what is not a frame.                       *)
(*                                                                         *)
(* A byte of the flag is its position in it (its bytes are all different), *)
(* 0 is any byte not in the flag; the length field of message i and each   *)
(* byte of its payload are bytes of their own.  The flag has FlagLen bytes *)
(* here (8 in the code), a payload two.                                    *)
(***************************************************************************)
EXTENDS Naturals, Sequences, SequencesExt

CONSTANTS
    FlagLen,        \* length of FRAMEFLAG
    MaxMsgs,        \* bound: messages the device sends
    MaxStray        \* bound: stray bytes on the connection

\* Too few stray bytes for a whole flag among them.
ASSUME FlagLenAssumption ==
    /\ FlagLen \in Nat /\ FlagLen > 1
    /\ MaxMsgs \in Nat /\ MaxStray \in Nat /\ MaxStray < FlagLen

VARIABLES
    stream,     \* bytes on the connection that readFrame has not read
    msgsSent,   \* messages sent
    strays,     \* stray bytes sent
    head,       \* readFrame's head, or <<>> before ReadFull
    returned,   \* messages readFrame has returned
    unlucky     \* history: a short read, or the first byte of a flag skipped
tcpVars == <<stream, msgsSent, strays, head, returned, unlucky>>

FRAMEFLAG == [i \in 1..FlagLen |-> i]
Length(m) == FlagLen + 10 * m
Payload(m) == <<Length(m) + 1, Length(m) + 2>>

\* tcpWriter (the device frames its messages the same way).
Framed(m) == FRAMEFLAG \o <<Length(m)>> \o Payload(m)

TcpInit ==
    /\ stream = <<>> /\ msgsSent = 0 /\ strays = 0
    /\ head = <<>> /\ returned = <<>> /\ unlucky = FALSE

DeviceSends ==
    /\ msgsSent < MaxMsgs
    /\ msgsSent' = msgsSent + 1
    /\ stream' = stream \o Framed(msgsSent + 1)
    /\ UNCHANGED <<strays, head, returned, unlucky>>

\* External: a byte that belongs to no frame, possibly one of the flag's.
Stray(b) ==
    /\ strays < MaxStray
    /\ strays' = strays + 1
    /\ stream' = Append(stream, b)
    /\ UNCHANGED <<msgsSent, head, returned, unlucky>>

\* io.ReadFull(c, head)
ReadHead ==
    /\ head = <<>> /\ Len(stream) >= FlagLen
    /\ head' = SubSeq(stream, 1, FlagLen)
    /\ stream' = SubSeq(stream, FlagLen + 1, Len(stream))
    /\ UNCHANGED <<msgsSent, strays, returned, unlucky>>

Mismatches_ButLast == {i \in 1..(FlagLen - 1) : head[i] # FRAMEFLAG[i]}
Mismatches == {i \in 1..FlagLen : head[i] # FRAMEFLAG[i]}
FirstMismatch == CHOOSE i \in Mismatches : \A j \in Mismatches : i <= j

\* How many bytes are skipped, and asked for, after a mismatch at position i.
Skipped_OneMore(i) == IF i < FlagLen THEN i + 1 ELSE i
Skipped(i) == i
(***************************************************************************)
(* A mismatch at i: head[1..i] is dropped, and as many bytes are asked for *)
(* by one c.Read, which returns at least one of those that have arrived.   *)
(* The rest of the buffer stays zero.                                      *)
(***************************************************************************)
Resync(n) ==
    /\ head # <<>> /\ Mismatches # {}
    /\ LET i == FirstMismatch
           k == Skipped(i)
       IN  /\ n \in 1..k /\ n <= Len(stream)
           /\ head' = SubSeq(head, k + 1, FlagLen)
                        \o SubSeq(stream, 1, n)
                        \o [j \in 1..(k - n) |-> 0]
           /\ stream' = SubSeq(stream, n + 1, Len(stream))
           /\ unlucky' = (unlucky \/ n < k \/ head[i] = FRAMEFLAG[1])
    /\ UNCHANGED <<msgsSent, strays, returned>>

\* The flag is whole: length and payload, by ReadFull.
Complete(m) ==
    Len(stream) >= 3 /\ SubSeq(stream, 1, 3) = <<Length(m)>> \o Payload(m)

ReadFrame(m) ==
    /\ head # <<>> /\ Mismatches = {}
    /\ Complete(m)
    /\ stream' = SubSeq(stream, 4, Len(stream))
    /\ returned' = Append(returned, m)
    /\ head' = <<>>
    /\ UNCHANGED <<msgsSent, strays, unlucky>>

TcpNext ==
    \/ DeviceSends
    \/ \E b \in 0..FlagLen : Stray(b)
    \/ ReadHead
    \/ \E n \in 1..FlagLen : Resync(n)
    \/ \E m \in 1..MaxMsgs : ReadFrame(m)

TcpSpec == TcpInit /\ [][TcpNext]_tcpVars

-----------------------------------------------------------------------------
(* Properties.                                                             *)

(***************************************************************************)
(* Whatever stray bytes and short reads there are, readFrame returns       *)
(* messages of the device only, in order and none twice, and waits for the *)
(* rest of no message that was not sent (it finds no flag where none is).  *)
(***************************************************************************)
ReturnedInOrder ==
    /\ \A i \in DOMAIN returned :
        /\ returned[i] \in 1..msgsSent
        /\ i > 1 => returned[i - 1] < returned[i]
    /\ head # <<>> /\ Mismatches = {} => \E m \in 1..msgsSent : Complete(m)

(***************************************************************************)
(* readFrame loses no message unless one c.Read was short (its missing     *)
(* bytes count as zeros) or the byte that ended a partial match was itself *)
(* the first of a flag: else every message sent is returned or is still    *)
(* ahead, whole, in head and stream.                                       *)
(***************************************************************************)
NothingLost ==
    ~unlucky =>
        LET ahead == head \o stream
        IN  \A m \in 1..msgsSent :
                \/ m \in Range(returned)
                \/ \E i \in DOMAIN ahead : /\ Len(ahead) >= i + FlagLen + 2
                                           /\ SubSeq(ahead, i, i + FlagLen + 2) = Framed(m)
=============================================================================
