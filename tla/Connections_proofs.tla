------------------------- MODULE Connections_proofs -------------------------
(***************************************************************************)
(* Proofs about the two kinds of connection a comet serves: the check of   *)
(* request numbers on a device's (SeqCheck), for any bounds; on a phone's  *)
(* websocket connection (WsConn), that the goroutines that write never mix *)
(* their frames, that Receive returns the phone's messages and that pings  *)
(* are answered, for any number of pushing goroutines and any frames of    *)
(* the phone; and on a device's TCP connection (TcpFraming), what          *)
(* readFrame returns and what it loses, for a flag of any length greater   *)
(* than one, any number of messages, any short reads, and any stray bytes  *)
(* fewer than the flag has.                                                *)
(***************************************************************************)
EXTENDS SeqCheck, WsConn, TcpFraming, SequenceTheorems, WellFoundedInduction, TLAPS

-----------------------------------------------------------------------------
(* SeqCheck: the numbers of a device's requests.                           *)

SeqTypeOK ==
    /\ base \in Nat /\ ridx \in 0..(Width - 1)
    /\ storing \subseteq (base + 1 .. base + MaxRequests) \X Nat
    /\ handled \in Nat
    /\ passed \in [1..MaxRequests -> Nat]
    /\ overlapped \in BOOLEAN /\ wrapped \in BOOLEAN

\* While calls do not overlap there is one at a time, and ridx is still what
\* its number was compared with.
OneCall ==
    ~overlapped => \A c \in storing : /\ \A d \in storing : c = d
                                      /\ AcceptsNumber(Number(c[1]), ridx)

\* While the counter has not wrapped, ridx is at least the number of every
\* request accepted, and none was accepted twice.
PassedBelow ==
    ~overlapped /\ ~wrapped =>
        \A i \in 1..MaxRequests : /\ passed[i] <= 1
                                  /\ passed[i] = 1 => Number(base + i) <= ridx

SeqInv == SeqTypeOK /\ OneCall /\ PassedBelow

(***************************************************************************)
(* The number a request carries fits in 16 bits.                           *)
(***************************************************************************)
LEMMA NumberFits ==
    ASSUME NEW n \in Nat
    PROVE  Number(n) \in Nat /\ Number(n) \in 0..(Width - 1)
BY SMTT(30) DEF Number, Width

(***************************************************************************)
(* The invariant holds at the start of a session.                          *)
(***************************************************************************)
LEMMA SeqInvInit == SeqInit => SeqInv
<1> SUFFICES ASSUME SeqInit PROVE SeqInv
  OBVIOUS
<1>1. base \in Nat /\ ridx = Number(base)
  BY SeqCheckAssumption DEF SeqInit
<1>2. ridx \in 0..(Width - 1)
  BY <1>1, NumberFits
<1>3. SeqTypeOK
  BY <1>1, <1>2 DEF SeqInit, SeqTypeOK
<1>4. OneCall /\ PassedBelow
  BY DEF SeqInit, OneCall, PassedBelow
<1> QED
  BY <1>3, <1>4 DEF SeqInv

(***************************************************************************)
(* The comparison keeps the invariant.                                     *)
(***************************************************************************)
LEMMA CompareKeepsInv ==
    ASSUME SeqInv, NEW n \in base + 1 .. base + MaxRequests, Compare(n)
    PROVE  SeqInv'
<1> USE SeqCheckAssumption
<1>1. SeqTypeOK /\ OneCall /\ PassedBelow
  BY DEF SeqInv
<1>2. /\ UNCHANGED <<base, ridx, passed, wrapped>>
      /\ handled' = handled + 1
      /\ overlapped' = (overlapped \/ storing # {})
      /\ \/ /\ AcceptsNumber(Number(n), ridx)
            /\ storing' = storing \cup {<<n, handled>>}
         \/ storing' = storing
  BY DEF Compare
<1>3. SeqTypeOK'
  <2>1. storing' \subseteq (base + 1 .. base + MaxRequests) \X Nat
    BY <1>1, <1>2 DEF SeqTypeOK
  <2> QED
    BY <1>1, <1>2, <2>1 DEF SeqTypeOK
<1>4. OneCall'
  <2> SUFFICES ASSUME ~overlapped'
               PROVE  \A c \in storing' : /\ \A d \in storing' : c = d
                                          /\ AcceptsNumber(Number(c[1]), ridx)'
    BY DEF OneCall
  <2>1. storing = {}
    BY <1>2
  <2>2. CASE storing' = storing
    BY <2>1, <2>2
  <2>3. CASE AcceptsNumber(Number(n), ridx) /\ storing' = storing \cup {<<n, handled>>}
    BY <2>1, <2>3, <1>2
  <2> QED
    BY <1>2, <2>2, <2>3
<1>5. PassedBelow'
  BY <1>1, <1>2 DEF PassedBelow
<1> QED
  BY <1>3, <1>4, <1>5 DEF SeqInv

(***************************************************************************)
(* So does the assignment: a number that passed the comparison is above    *)
(* ridx, hence above those of all requests accepted, or the counter wraps. *)
(***************************************************************************)
LEMMA StoreKeepsInv ==
    ASSUME SeqInv, NEW call \in storing, Store(call)
    PROVE  SeqInv'
<1> USE SeqCheckAssumption
<1> DEFINE n == call[1]
<1>1. SeqTypeOK /\ OneCall /\ PassedBelow
  BY DEF SeqInv
<1>2. /\ UNCHANGED <<base, handled, overlapped>>
      /\ ridx' = Number(n)
      /\ wrapped' = (wrapped \/ Number(n) < ridx)
      /\ storing' = storing \ {call}
      /\ passed' = [passed EXCEPT ![n - base] = @ + 1]
  BY DEF Store
<1>3. /\ base \in Nat /\ n \in base + 1 .. base + MaxRequests
      /\ n - base \in 1..MaxRequests /\ n \in Nat
  BY <1>1, SMTT(30) DEF SeqTypeOK
<1> HIDE DEF n
<1>4. Number(n) \in 0..(Width - 1) /\ Number(n) \in Nat /\ ridx \in Nat
  <2>1. Number(n) \in 0..(Width - 1) /\ Number(n) \in Nat
    BY <1>3, NumberFits
  <2>2. ridx \in Nat
    BY <1>1, SMTT(30) DEF SeqTypeOK, Width
  <2> QED
    BY <2>1, <2>2
<1>5. SeqTypeOK'
  BY <1>1, <1>2, <1>3, <1>4, SMTT(30) DEF SeqTypeOK
<1>6. OneCall'
  BY <1>1, <1>2 DEF OneCall
<1>7. PassedBelow'
  <2> SUFFICES ASSUME ~overlapped', ~wrapped', NEW i \in 1..MaxRequests
               PROVE  /\ passed'[i] <= 1
                      /\ passed'[i] = 1 => Number(base + i) <= ridx'
    BY <1>2 DEF PassedBelow
  <2>1. ~overlapped /\ ~wrapped /\ ~(Number(n) < ridx)
    BY <1>2
  <2>2. ridx < Number(n)
    BY <1>1, <1>2, <1>4, <2>1 DEF OneCall, AcceptsNumber, n
  <2>3. \A j \in 1..MaxRequests : /\ passed[j] <= 1 /\ passed[j] \in Nat
                                  /\ passed[j] = 1 => Number(base + j) <= ridx
    BY <1>1, <2>1 DEF PassedBelow, SeqTypeOK
  <2>4. Number(base + i) \in Nat
    <3>1. base + i \in Nat
      BY <1>3
    <3> QED
      BY <3>1, NumberFits
  <2>5. CASE i = n - base
    <3>1. base + i = n
      BY <1>3, <2>5
    <3>2. passed[i] = 0
      BY <1>4, <2>2, <2>3, <2>4, <3>1
    <3>3. passed'[i] = 1
      BY <1>1, <1>2, <2>5, <3>2 DEF SeqTypeOK
    <3> QED
      BY <1>2, <1>4, <3>1, <3>3
  <2>6. CASE i # n - base
    <3>1. passed'[i] = passed[i]
      BY <1>1, <1>2, <2>6 DEF SeqTypeOK
    <3> QED
      BY <1>2, <1>4, <2>2, <2>3, <2>4, <3>1
  <2> QED
    BY <2>5, <2>6
<1> QED
  BY <1>5, <1>6, <1>7 DEF SeqInv

(***************************************************************************)
(* Every step keeps the invariant.                                         *)
(***************************************************************************)
LEMMA SeqInvStep == SeqInv /\ [SeqNext]_seqVars => SeqInv'
<1> SUFFICES ASSUME SeqInv, [SeqNext]_seqVars PROVE SeqInv'
  OBVIOUS
<1>1. ASSUME NEW n \in base + 1 .. base + MaxRequests, Compare(n) PROVE SeqInv'
  BY <1>1, CompareKeepsInv
<1>2. ASSUME NEW call \in storing, Store(call) PROVE SeqInv'
  BY <1>2, StoreKeepsInv
<1>3. CASE UNCHANGED seqVars
  BY <1>3 DEF seqVars, SeqInv, SeqTypeOK, OneCall, PassedBelow
<1> QED
  BY <1>1, <1>2, <1>3 DEF SeqNext

(***************************************************************************)
(* VerifyPack (devsess.go) accepts no request twice as long as its calls   *)
(* do not overlap and no number below ridx has been accepted.              *)
(***************************************************************************)
THEOREM AcceptedOnceAlways == SeqSpec => []AcceptedOnce
<1>1. SeqInv /\ [SeqNext]_seqVars => SeqInv'
  BY SeqInvStep
<1>2. SeqInv => AcceptedOnce
  BY DEF SeqInv, SeqTypeOK, PassedBelow, AcceptedOnce
<1> QED
  BY SeqInvInit, <1>1, <1>2, PTL DEF SeqSpec

-----------------------------------------------------------------------------
(* Requests in order.                                                      *)

\* While deliveries are orderly, ridx is the number of the latest one, or is
\* about to be; it is then that a call compares it with the next.
InOrder ==
    /\ latest \in Nat
    /\ orderly => /\ refused = {}
                  /\ storing = {} => ridx = Number(latest)
                  /\ \A c \in storing : c[1] = latest

(***************************************************************************)
(* The switch in VerifyPack accepts the successor of a request, and any of *)
(* the next four, also across the wrap: 65531 is the lowest number whose   *)
(* fifth successor wraps.                                                  *)
(***************************************************************************)
LEMMA NextNumberAccepted ==
    ASSUME NEW a \in Nat, NEW n \in Nat, n > a, n <= a + 1 + MaxGap
    PROVE  AcceptsNumber(Number(n), Number(a))
<1>1. n <= a + 5
  BY DEF MaxGap
<1>2. \/ n % 65536 > a % 65536
      \/ n % 65536 < a % 65536 /\ n % 65536 < 10 /\ a % 65536 > 65530
  BY <1>1
<1> QED
  BY <1>2 DEF AcceptsNumber, Number, Width

(***************************************************************************)
(* A step keeps InOrder: an orderly delivery meets no call under way.      *)
(***************************************************************************)
LEMMA InOrderStep ==
    ASSUME SeqTypeOK, InOrder, [SeqNext]_seqVars
    PROVE  InOrder'
<1>1. ASSUME NEW n \in base + 1 .. base + MaxRequests, Compare(n)
      PROVE  InOrder'
  <2>1. n \in Nat /\ latest \in Nat
    BY SeqCheckAssumption DEF SeqTypeOK, InOrder
  <2>2. latest' \in Nat
    BY <1>1, <2>1 DEF Compare
  <2>3. ASSUME orderly'
        PROVE  /\ refused' = {}
               /\ storing' = {} => ridx' = Number(latest')
               /\ \A c \in storing' : c[1] = latest'
    <3>1. orderly /\ n > latest /\ n <= latest + 1 + MaxGap /\ storing = {}
      BY <1>1, <2>3 DEF Compare
    <3>2. ridx = Number(latest) /\ refused = {}
      BY <3>1 DEF InOrder
    <3>3. AcceptsNumber(Number(n), ridx)
      BY <2>1, <3>1, <3>2, NextNumberAccepted
    <3>4. storing' = storing \cup {<<n, handled>>} /\ refused' = refused /\ latest' = n
      BY <1>1, <3>1, <3>3 DEF Compare
    <3>5. storing' = {<<n, handled>>} /\ <<n, handled>>[1] = n
      BY <3>1, <3>4
    <3>6. storing' # {} /\ \A c \in storing' : c[1] = n
      BY <3>5
    <3> QED
      BY <3>2, <3>4, <3>6
  <2> QED
    BY <2>2, <2>3 DEF InOrder
<1>2. ASSUME NEW call \in storing, Store(call)
      PROVE  InOrder'
  <2>1. /\ ridx' = Number(call[1]) /\ storing' = storing \ {call}
        /\ UNCHANGED <<latest, refused, orderly>>
    BY <1>2 DEF Store
  <2> QED
    BY <2>1, <1>2 DEF InOrder
<1>3. CASE UNCHANGED seqVars
  BY <1>3 DEF seqVars, InOrder
<1> QED
  BY <1>1, <1>2, <1>3 DEF SeqNext

(***************************************************************************)
(* VerifyPack (devsess.go) refuses no request of a device whose requests   *)
(* arrive in order, one at a time, with at most four lost in a row,        *)
(* wherever its counter stands and however often it has wrapped.           *)
(***************************************************************************)
THEOREM InOrderAcceptedAlways == SeqSpec => []InOrderAccepted
<1>1. SeqInit => InOrder
  BY SeqCheckAssumption DEF SeqInit, InOrder
<1>2. SeqInv /\ [SeqNext]_seqVars => SeqInv'
  BY SeqInvStep
<1>3. SeqInv => SeqTypeOK
  BY DEF SeqInv
<1>4. SeqTypeOK /\ InOrder /\ [SeqNext]_seqVars => InOrder'
  BY InOrderStep
<1>5. InOrder => InOrderAccepted
  BY DEF InOrder, InOrderAccepted
<1> QED
  BY SeqInvInit, <1>1, <1>2, <1>3, <1>4, <1>5, PTL DEF SeqSpec

-----------------------------------------------------------------------------
(* WsConn: the frames written to a phone.                                  *)

Frames == [type : FrameTypes, val : Nat]
Kinds == {"", "text", "binary", "close", "pong"}     \* of frames written
Jobs == [at : {"none", "lock", "header", "payload", "done"}, type : Kinds,
         val : Nat]
Pieces == [by : Writers, part : {"header", "payload"}, type : Kinds, val : Nat]

WriteTypes ==
    /\ inbox \in Seq(Frames) /\ sentIn \in Seq(Frames)
    /\ job \in [Writers -> Jobs]
    /\ wio \in Writers \cup {Free}
    /\ out \in Seq(Pieces)

\* Who writes holds the lock, and who holds the lock writes.
LockHeld == \A w \in Writers : job[w].at \in {"header", "payload"} <=> wio = w

\* The reader writes nothing while it waits in Receive.
ReaderReads == reader \in {"handshake", "read"} => job[Reader].at = "none"

\* The last piece written is the header of the frame under way, if there is one.
HeaderLast ==
    \A w \in Writers : job[w].at = "payload" =>
        Len(out) > 0 /\ out[Len(out)] = Piece(w, "header")
PayloadLast ==
    (\A w \in Writers : job[w].at # "payload") =>
        out = <<>> \/ out[Len(out)].part = "payload"

WsInv ==
    /\ WriteTypes /\ LockHeld /\ ReaderReads
    /\ HeaderLast /\ PayloadLast /\ FramesWhole

(***************************************************************************)
(* The lock is not a goroutine, and the pushers are not the reader.        *)
(***************************************************************************)
LEMMA WriterNames ==
    /\ Free \notin Writers /\ Reader \in Writers /\ Closer \in Writers
    /\ Reader \notin Pushers /\ Closer # Reader /\ Pushers \subseteq Writers
BY WsConnAssumption DEF Writers, Reader, Closer, Free

(***************************************************************************)
(* A job that begins is a job.                                             *)
(***************************************************************************)
LEMMA JobTypes ==
    /\ NoJob \in Jobs /\ NoJob.at = "none"
    /\ \A t \in Kinds, v \in Nat : Writing(t, v) \in Jobs /\ Writing(t, v).at = "lock"
BY DEF NoJob, Writing, Jobs, Kinds

(***************************************************************************)
(* The invariant holds before the handshake.                               *)
(***************************************************************************)
LEMMA WsInvInit == WsInit => WsInv
<1> SUFFICES ASSUME WsInit PROVE WsInv
  OBVIOUS
<1>1. inbox = <<>> /\ sentIn = <<>> /\ out = <<>> /\ wio = Free
  BY DEF WsInit
<1>2. \A w \in Writers : job[w].at = "none"
  BY JobTypes DEF WsInit
<1>3. WriteTypes
  <2>1. \A S : <<>> \in Seq(S)
    OBVIOUS
  <2> QED
    BY <1>1, <2>1, JobTypes DEF WsInit, WriteTypes
<1>4. LockHeld
  BY <1>1, <1>2, WriterNames DEF LockHeld
<1>5. ReaderReads
  BY <1>2, WriterNames DEF ReaderReads
<1>6. HeaderLast /\ PayloadLast
  BY <1>1, <1>2 DEF HeaderLast, PayloadLast
<1>7. FramesWhole
  BY <1>1 DEF FramesWhole
<1> QED
  BY <1>3, <1>4, <1>5, <1>6, <1>7 DEF WsInv

(***************************************************************************)
(* A step in which one goroutine outside a write takes up a job, or none   *)
(* does, keeps the invariant: nothing is written and the lock stays.       *)
(***************************************************************************)
LEMMA JobBegins ==
    ASSUME WsInv, UNCHANGED <<wio, out>>,
           inbox' \in Seq(Frames), sentIn' \in Seq(Frames),
           NEW w \in Writers, NEW j \in Jobs,
           job' = [job EXCEPT ![w] = j],
           job[w].at \notin {"header", "payload"},
           j.at \notin {"header", "payload"},
           ReaderReads'
    PROVE  WsInv'
<1>1. WriteTypes /\ LockHeld /\ HeaderLast /\ PayloadLast /\ FramesWhole
  BY DEF WsInv
<1>2. WriteTypes'
  BY <1>1 DEF WriteTypes
<1>3. /\ job'[w] = j
      /\ \A v \in Writers : v # w => job'[v] = job[v]
  BY <1>1 DEF WriteTypes
<1>4. LockHeld'
  BY <1>1, <1>3 DEF LockHeld
<1>5. HeaderLast'
  BY <1>1, <1>3 DEF HeaderLast, Piece
<1>6. PayloadLast'
  BY <1>1, <1>3 DEF PayloadLast
<1>7. FramesWhole'
  BY <1>1 DEF FramesWhole
<1> QED
  BY <1>2, <1>4, <1>5, <1>6, <1>7 DEF WsInv

(***************************************************************************)
(* A step that starts no job and writes nothing keeps the invariant.       *)
(***************************************************************************)
LEMMA NothingWritten ==
    ASSUME WsInv, UNCHANGED <<wio, out, job>>,
           inbox' \in Seq(Frames), sentIn' \in Seq(Frames), ReaderReads'
    PROVE  WsInv'
BY DEF WsInv, WriteTypes, LockHeld, HeaderLast, PayloadLast, FramesWhole, Piece

(***************************************************************************)
(* The phone, the network and the handshake.                               *)
(***************************************************************************)
LEMMA OutsideSteps ==
    ASSUME WsInv,
           \/ \E t \in FrameTypes : PhoneSends(t)
           \/ \E how \in {"clean", "cut"} : PhoneEnds(how)
           \/ Breaks
           \/ \E req \in Request : serveWebSocket(req)
           \/ HandlerReturns
           \/ UNCHANGED wsVars
    PROVE  WsInv'
<1>1. WriteTypes /\ ReaderReads
  BY DEF WsInv
<1>2. ASSUME NEW t \in FrameTypes, PhoneSends(t) PROVE WsInv'
  <2> DEFINE f == [type |-> t, val |-> Len(sentIn) + 1]
  <2>1. f \in Frames
    BY <1>1 DEF Frames, WriteTypes
  <2>2. inbox' = Append(inbox, f) /\ sentIn' = Append(sentIn, f)
        /\ UNCHANGED <<wio, out, job, reader>>
    BY <1>2 DEF PhoneSends
  <2> HIDE DEF f
  <2>3. inbox' \in Seq(Frames) /\ sentIn' \in Seq(Frames)
    BY <1>1, <2>1, <2>2 DEF WriteTypes
  <2>4. ReaderReads'
    BY <1>1, <2>2 DEF ReaderReads
  <2> QED
    BY <2>2, <2>3, <2>4, NothingWritten
<1>3. ASSUME \/ \E how \in {"clean", "cut"} : PhoneEnds(how)
             \/ Breaks \/ HandlerReturns \/ UNCHANGED wsVars
             \/ \E req \in Request : serveWebSocket(req)
      PROVE WsInv'
  <2>1. UNCHANGED <<wio, out, job, inbox, sentIn>>
    BY <1>3 DEF PhoneEnds, Breaks, HandlerReturns, serveWebSocket, wsVars
  <2>2. \/ reader' = reader \/ reader' = "done"
        \/ reader = "handshake"
    BY <1>3 DEF PhoneEnds, Breaks, HandlerReturns, serveWebSocket, wsVars
  <2>3. ReaderReads'
    BY <1>1, <2>1, <2>2 DEF ReaderReads
  <2> QED
    BY <1>1, <2>1, <2>3, NothingWritten DEF WriteTypes
<1> QED
  BY <1>2, <1>3

(***************************************************************************)
(* Receive: the reader has no job, and leaves Receive with the one it      *)
(* takes up.                                                               *)
(***************************************************************************)
LEMMA ReceiveSteps ==
    ASSUME WsInv, ReceiveMessage \/ ReceivePing \/ ReceiveFails
    PROVE  WsInv'
<1>1. WriteTypes /\ ReaderReads
  BY DEF WsInv
<1>2. reader = "read" /\ UNCHANGED <<wio, out, sentIn>>
  BY DEF ReceiveMessage, ReceivePing, ReceiveFails
<1>3. job[Reader].at = "none"
  BY <1>1, <1>2 DEF ReaderReads
<1>4. inbox' \in Seq(Frames) /\ sentIn' \in Seq(Frames)
  <2>1. inbox' = inbox \/ (inbox # <<>> /\ inbox' = Tail(inbox))
    BY DEF ReceiveMessage, ReceivePing, ReceiveFails
  <2> QED
    BY <1>1, <1>2, <2>1 DEF WriteTypes
<1>5. inbox # <<>> => Head(inbox).val \in Nat
  <2>1. inbox # <<>> => Head(inbox) \in Frames
    BY <1>1 DEF WriteTypes
  <2> QED
    BY <2>1 DEF Frames
<1>6. CASE job' = job /\ reader' = reader
  BY <1>1, <1>2, <1>4, <1>6, NothingWritten DEF ReaderReads
<1>7. ASSUME NEW j \in Jobs, j.at = "lock", job' = [job EXCEPT ![Reader] = j],
             reader' \in {"replying", "logout", "ponging"}
      PROVE  WsInv'
  <2>1. ReaderReads'
    BY <1>7 DEF ReaderReads
  <2> QED
    BY <1>2, <1>3, <1>4, <1>7, <2>1, JobBegins, WriterNames
<1>8. \/ job' = job /\ reader' = reader
      \/ \E t \in {"text", "close", "pong"}, v \in Nat :
            /\ job' = [job EXCEPT ![Reader] = Writing(t, v)]
            /\ reader' \in {"replying", "logout", "ponging"}
  BY <1>5 DEF ReceiveMessage, ReceivePing, ReceiveFails, PongTo
<1> QED
  <2>1. ASSUME NEW t \in {"text", "close", "pong"}, NEW v \in Nat,
               job' = [job EXCEPT ![Reader] = Writing(t, v)],
               reader' \in {"replying", "logout", "ponging"}
        PROVE  WsInv'
    <3>1. Writing(t, v) \in Jobs /\ Writing(t, v).at = "lock"
      BY JobTypes DEF Kinds
    <3> QED
      BY <1>7, <2>1, <3>1
  <2> QED
    BY <1>6, <1>8, <2>1

(***************************************************************************)
(* A goroutine that begins a write, and one that takes wio.                *)
(***************************************************************************)
LEMMA StartWriteStep ==
    ASSUME WsInv, NEW w \in Writers, w # Reader, NEW type \in Kinds,
           StartWrite(w, type)
    PROVE  WsInv'
<1>1. /\ job[w].at = "none" /\ job' = [job EXCEPT ![w] = Writing(type, 0)]
      /\ UNCHANGED <<wio, out, inbox, sentIn, reader>>
  BY DEF StartWrite
<1>2. WriteTypes /\ ReaderReads
  BY DEF WsInv
<1>3. Writing(type, 0) \in Jobs /\ Writing(type, 0).at = "lock"
  BY JobTypes
<1>4. ReaderReads'
  BY <1>1, <1>2, WriterNames DEF ReaderReads, WriteTypes
<1>5. inbox' \in Seq(Frames) /\ sentIn' \in Seq(Frames)
  BY <1>1, <1>2 DEF WriteTypes
<1> QED
  BY <1>1, <1>3, <1>4, <1>5, JobBegins

\* wio is taken.
LEMMA LockStep ==
    ASSUME WsInv, NEW w \in Writers, Lock(w)
    PROVE  WsInv'
<1>1. WriteTypes /\ LockHeld /\ ReaderReads /\ HeaderLast /\ PayloadLast /\ FramesWhole
  BY DEF WsInv
<1>2. /\ job[w].at = "lock" /\ wio = Free /\ wio' = w
      /\ job' = [job EXCEPT ![w].at = "header"]
      /\ UNCHANGED <<inbox, sentIn, reader, out>>
  BY DEF Lock, MayEnter
<1>3. WriteTypes'
  BY <1>1, <1>2 DEF WriteTypes, Jobs
<1>4. /\ job'[w].at = "header"
      /\ \A v \in Writers : v # w => job'[v] = job[v]
  BY <1>1, <1>2 DEF WriteTypes, Jobs
<1>5. \A v \in Writers : job[v].at \notin {"header", "payload"}
  BY <1>1, <1>2, WriterNames DEF LockHeld
<1>6. LockHeld'
  BY <1>2, <1>4, <1>5 DEF LockHeld
<1>7. ReaderReads'
  BY <1>1, <1>2, <1>4, WriterNames DEF ReaderReads
<1>8. \A v \in Writers : job'[v].at # "payload"
  BY <1>4, <1>5
<1>9. HeaderLast' /\ PayloadLast'
  BY <1>1, <1>2, <1>5, <1>8 DEF HeaderLast, PayloadLast
<1>10. FramesWhole'
  BY <1>1, <1>2 DEF FramesWhole
<1> QED
  BY <1>3, <1>6, <1>7, <1>9, <1>10 DEF WsInv

(***************************************************************************)
(* The header: wio keeps everyone else out, so the last piece was a        *)
(* payload.                                                                *)
(***************************************************************************)
LEMMA WriteHeaderStep ==
    ASSUME WsInv, NEW w \in Writers, WriteHeader(w)
    PROVE  WsInv'
<1>1. WriteTypes /\ LockHeld /\ ReaderReads /\ HeaderLast /\ PayloadLast /\ FramesWhole
  BY DEF WsInv
<1> DEFINE p == Piece(w, "header")
<1>2. /\ job[w].at = "header" /\ out' = Append(out, p)
      /\ job' = [job EXCEPT ![w].at = "payload"]
      /\ UNCHANGED <<inbox, sentIn, reader, wio>>
  BY DEF WriteHeader
<1>3. job[w] \in Jobs
  BY <1>1 DEF WriteTypes
<1>4. p \in Pieces /\ p.part = "header"
  BY <1>3 DEF Piece, Pieces, Jobs
<1>5. /\ job'[w].at = "payload" /\ job'[w].type = job[w].type
      /\ job'[w].val = job[w].val
      /\ \A v \in Writers : v # w => job'[v] = job[v]
  BY <1>1, <1>2 DEF WriteTypes, Jobs
<1>6. Piece(w, "header")' = p
  BY <1>5 DEF Piece
<1>7. wio = w /\ \A v \in Writers : job[v].at # "payload"
  BY <1>1, <1>2 DEF LockHeld
<1> HIDE DEF p
<1>8. WriteTypes'
  <2>1. out' \in Seq(Pieces)
    BY <1>1, <1>2, <1>4 DEF WriteTypes
  <2>2. job' \in [Writers -> Jobs]
    BY <1>1, <1>2 DEF WriteTypes, Jobs
  <2> QED
    BY <1>1, <1>2, <2>1, <2>2 DEF WriteTypes
<1>9. LockHeld'
  BY <1>1, <1>2, <1>5, <1>7 DEF LockHeld
<1>10. ReaderReads'
  BY <1>1, <1>2, <1>5, WriterNames DEF ReaderReads
<1>11. /\ Len(out') = Len(out) + 1 /\ out'[Len(out')] = p
       /\ Len(out) \in Nat /\ DOMAIN out = 1..Len(out)
       /\ DOMAIN out' = 1..(Len(out) + 1)
       /\ \A i \in 1..Len(out) : out'[i] = out[i]
  BY <1>1, <1>2, <1>4 DEF WriteTypes
<1>12. HeaderLast'
  <2> SUFFICES ASSUME NEW v \in Writers, job'[v].at = "payload"
               PROVE  Len(out') > 0 /\ out'[Len(out')] = Piece(v, "header")'
    BY DEF HeaderLast
  <2>1. v = w
    BY <1>5, <1>7
  <2> QED
    BY <1>6, <1>11, <2>1
<1>13. PayloadLast'
  BY <1>5 DEF PayloadLast
<1>14. FramesWhole'
  <2> SUFFICES ASSUME NEW i \in 1..(Len(out) + 1)
               PROVE  IF out'[i].part = "header"
                      THEN i < Len(out') => out'[i + 1] = [out'[i] EXCEPT !.part = "payload"]
                      ELSE i > 1 /\ out'[i - 1] = [out'[i] EXCEPT !.part = "header"]
    BY <1>11 DEF FramesWhole
  <2>1. CASE i = Len(out) + 1
    BY <1>4, <1>11, <2>1
  <2>2. CASE i = Len(out)
    <3>1. out[i].part = "payload"
      BY <1>1, <1>7, <1>11, <2>2 DEF PayloadLast
    <3>2. i \in DOMAIN out /\ out[i].part # "header"
      BY <1>11, <2>2, <3>1
    <3>3. i > 1 /\ out[i - 1] = [out[i] EXCEPT !.part = "header"]
      BY <1>1, <3>2 DEF FramesWhole
    <3>4. out'[i] = out[i] /\ out'[i - 1] = out[i - 1]
      BY <1>11, <2>2, <3>3
    <3> QED
      BY <3>1, <3>3, <3>4
  <2>3. CASE i < Len(out)
    <3>1. i \in 1..Len(out) /\ i + 1 \in 1..Len(out) /\ (i > 1 => i - 1 \in 1..Len(out))
      BY <1>11, <2>3
    <3>2. IF out[i].part = "header"
          THEN out[i + 1] = [out[i] EXCEPT !.part = "payload"]
          ELSE i > 1 /\ out[i - 1] = [out[i] EXCEPT !.part = "header"]
      BY <1>1, <1>11, <2>3, <3>1 DEF FramesWhole
    <3> QED
      BY <1>11, <3>1, <3>2
  <2> QED
    BY <1>11, <2>1, <2>2, <2>3
<1> QED
  BY <1>8, <1>9, <1>10, <1>12, <1>13, <1>14 DEF WsInv

(***************************************************************************)
(* The payload: the last piece is the header of the same frame.            *)
(***************************************************************************)
LEMMA WritePayloadStep ==
    ASSUME WsInv, NEW w \in Writers, WritePayload(w)
    PROVE  WsInv'
<1>1. WriteTypes /\ LockHeld /\ ReaderReads /\ HeaderLast /\ PayloadLast /\ FramesWhole
  BY DEF WsInv
<1> DEFINE p == Piece(w, "payload")
<1>2. /\ job[w].at = "payload" /\ out' = Append(out, p) /\ wio' = Free
      /\ UNCHANGED <<inbox, sentIn>>
  BY DEF WritePayload
<1>3. PICK j \in Jobs : /\ job' = [job EXCEPT ![w] = j]
                        /\ j.at \notin {"header", "payload"}
                        /\ IF w = Reader
                           THEN reader' \in {"handshake", "read"} => j.at = "none"
                           ELSE reader' = reader
  <2>1. CASE w # Reader
    <3> DEFINE j == [job[w] EXCEPT !.at = "done"]
    <3>1. job' = [job EXCEPT ![w].at = "done"] /\ reader' = reader
      BY <2>1 DEF WritePayload
    <3>2. j \in Jobs /\ j.at = "done"
      BY <1>1 DEF WriteTypes, Jobs
    <3>3. job' = [job EXCEPT ![w] = j]
      BY <1>1, <3>1 DEF WriteTypes
    <3> QED
      BY <2>1, <3>1, <3>2, <3>3
  <2>2. CASE w = Reader
    <3> DEFINE again == reader = "ponging" /\ (broken \/ conn = "closed")
    <3>1. /\ job' = [job EXCEPT ![w] = IF again THEN Writing("close", 0) ELSE NoJob]
          /\ reader' = CASE again -> "logout"
                         [] reader = "logout" -> "return"
                         [] OTHER -> "read"
      BY <2>2 DEF WritePayload
    <3>2. CASE again
      <4>1. reader' = "logout"
        BY <3>1, <3>2
      <4>2. Writing("close", 0) \in Jobs /\ Writing("close", 0).at = "lock"
        BY JobTypes DEF Kinds
      <4> QED
        BY <2>2, <3>1, <3>2, <4>1, <4>2
    <3>3. CASE ~again
      BY <2>2, <3>1, <3>3, JobTypes
    <3> QED
      BY <3>2, <3>3
  <2> QED
    BY <2>1, <2>2
<1>4. job[w] \in Jobs
  BY <1>1 DEF WriteTypes
<1>5. p \in Pieces /\ p.part = "payload"
  BY <1>4 DEF Piece, Pieces, Jobs
<1>6. job'[w] = j /\ \A v \in Writers : v # w => job'[v] = job[v]
  BY <1>1, <1>3 DEF WriteTypes
<1>7. wio = w /\ \A v \in Writers : v # w => job[v].at \notin {"header", "payload"}
  BY <1>1, <1>2 DEF LockHeld
<1>8. Len(out) > 0 /\ out[Len(out)] = Piece(w, "header")
  BY <1>1, <1>2 DEF HeaderLast
<1>9. /\ Piece(w, "header") = [p EXCEPT !.part = "header"]
      /\ p = [Piece(w, "header") EXCEPT !.part = "payload"]
      /\ Piece(w, "header").part = "header"
  BY DEF Piece
<1> HIDE DEF p
<1>10. WriteTypes'
  <2>1. out' \in Seq(Pieces)
    BY <1>1, <1>2, <1>5 DEF WriteTypes
  <2> QED
    BY <1>1, <1>2, <1>3, <2>1 DEF WriteTypes
<1>11. \A v \in Writers : job'[v].at \notin {"header", "payload"}
  BY <1>3, <1>6, <1>7
<1>12. LockHeld'
  BY <1>2, <1>11, WriterNames DEF LockHeld
<1>13. ReaderReads'
  BY <1>1, <1>3, <1>6, WriterNames DEF ReaderReads
<1>14. /\ Len(out') = Len(out) + 1 /\ out'[Len(out')] = p
       /\ Len(out) \in Nat /\ Len(out) > 0 /\ DOMAIN out = 1..Len(out)
       /\ DOMAIN out' = 1..(Len(out) + 1)
       /\ \A i \in 1..Len(out) : out'[i] = out[i]
  BY <1>1, <1>2, <1>5, <1>8 DEF WriteTypes
<1>15. HeaderLast' /\ PayloadLast'
  BY <1>5, <1>11, <1>14 DEF HeaderLast, PayloadLast
<1>16. FramesWhole'
  <2> SUFFICES ASSUME NEW i \in 1..(Len(out) + 1)
               PROVE  IF out'[i].part = "header"
                      THEN i < Len(out') => out'[i + 1] = [out'[i] EXCEPT !.part = "payload"]
                      ELSE i > 1 /\ out'[i - 1] = [out'[i] EXCEPT !.part = "header"]
    BY <1>14 DEF FramesWhole
  <2>1. CASE i = Len(out) + 1
    <3>1. i > 1 /\ i - 1 \in 1..Len(out) /\ i - 1 = Len(out) /\ i = Len(out')
      BY <1>14, <2>1
    <3>2. out'[i - 1] = Piece(w, "header") /\ out'[i] = p
      BY <1>8, <1>14, <3>1
    <3> QED
      BY <1>5, <1>9, <3>1, <3>2
  <2>2. CASE i = Len(out)
    <3>1. i \in 1..Len(out) /\ i + 1 = Len(out')
      BY <1>14, <2>2
    <3>2. out'[i] = Piece(w, "header") /\ out'[i + 1] = p
      BY <1>8, <1>14, <2>2, <3>1
    <3> QED
      BY <1>9, <3>2
  <2>3. CASE i < Len(out)
    <3>1. i \in 1..Len(out) /\ i + 1 \in 1..Len(out) /\ (i > 1 => i - 1 \in 1..Len(out))
      BY <1>14, <2>3
    <3>2. IF out[i].part = "header"
          THEN out[i + 1] = [out[i] EXCEPT !.part = "payload"]
          ELSE i > 1 /\ out[i - 1] = [out[i] EXCEPT !.part = "header"]
      BY <1>1, <1>14, <2>3, <3>1 DEF FramesWhole
    <3> QED
      BY <1>14, <3>1, <3>2
  <2> QED
    BY <1>14, <2>1, <2>2, <2>3
<1> QED
  BY <1>10, <1>12, <1>13, <1>15, <1>16 DEF WsInv

\* Every step keeps the invariant.
LEMMA WsInvStep == WsInv /\ [WsNext]_wsVars => WsInv'
<1> SUFFICES ASSUME WsInv, [WsNext]_wsVars PROVE WsInv'
  OBVIOUS
<1>1. ASSUME NEW w \in Pushers, StartWrite(w, "binary") PROVE WsInv'
  BY <1>1, StartWriteStep, WriterNames DEF Kinds
<1>2. ASSUME StartWrite(Closer, "close") PROVE WsInv'
  BY <1>2, StartWriteStep, WriterNames DEF Kinds
<1>3. ASSUME NEW w \in Writers, Lock(w) \/ WriteHeader(w) \/ WritePayload(w)
      PROVE  WsInv'
  BY <1>3, LockStep, WriteHeaderStep, WritePayloadStep
<1>4. ASSUME ReceiveMessage \/ ReceivePing \/ ReceiveFails PROVE WsInv'
  BY <1>4, ReceiveSteps
<1> QED
  BY <1>1, <1>2, <1>3, <1>4, OutsideSteps DEF WsNext

(***************************************************************************)
(* The frames that concurrent goroutines write to one phone are never      *)
(* mixed: Conn.Write, Codec.Send, WritePong and WriteClose (hybi.go,       *)
(* websocket.go) all write header and payload under wio.                   *)
(***************************************************************************)
THEOREM FramesWholeAlways == WsSpec => []FramesWhole
<1>1. WsInv => FramesWhole
  BY DEF WsInv
<1> QED
  BY WsInvInit, WsInvStep, <1>1, PTL DEF WsSpec

-----------------------------------------------------------------------------
(* WsConn: the frames read from a phone.                                   *)

\* A sequence.
LEMMA SeqFacts ==
    ASSUME NEW S, NEW q \in Seq(S)
    PROVE  Len(q) \in Nat /\ DOMAIN q = 1..Len(q) /\ \A i \in 1..Len(q) : q[i] \in S
OBVIOUS

\* A sequence and the same with one more element.
LEMMA OneMore ==
    ASSUME NEW S, NEW q \in Seq(S), NEW e \in S, NEW t, t = Append(q, e)
    PROVE  /\ t \in Seq(S) /\ Len(t) = Len(q) + 1 /\ DOMAIN t = 1..(Len(q) + 1)
           /\ t[Len(q) + 1] = e /\ \A i \in 1..Len(q) : t[i] = q[i]
OBVIOUS

\* How many of the phone's frames the reader has read.
ReadCount == Len(sentIn) - Len(inbox)

\* Frames are numbered, and those not read yet are the last ones.
Unread ==
    /\ ReadCount \in Nat
    /\ \A k \in 1..Len(sentIn) : sentIn[k].val = k
    /\ \A i \in 1..Len(inbox) : inbox[i] = sentIn[ReadCount + i]

Messages == [val : Nat, whole : BOOLEAN, type : DataTypes \cup {""}]

\* A message in which the connection ended is the last there will be.
CutLast ==
    \A i \in DOMAIN received :
        received[i].whole \/ (eof = "cut" /\ i = Len(received) /\ inbox = <<>>)

\* Every data frame that was read was returned, and nothing else was.
EachReturned ==
    /\ \A i \in DOMAIN received : /\ received[i].val \in 1..ReadCount
                                 /\ sentIn[received[i].val].type \in DataTypes
    /\ \A k \in 1..ReadCount :
        sentIn[k].type \in DataTypes => \E i \in DOMAIN received : received[i].val = k

Ascending == \A i, j \in DOMAIN received : i < j => received[i].val < received[j].val

\* What Receive has returned.
Returned ==
    /\ received \in Seq(Messages) /\ lastType \in DataTypes \cup {""}
    /\ EachReturned /\ Ascending /\ CutLast

Pongs == {i \in DOMAIN out : out[i].type = "pong" /\ out[i].part = "payload"}

\* Only the reader answers pings, and only while it is at it.
PongJobs ==
    /\ \A w \in Writers : w # Reader => job[w].type # "pong"
    /\ reader # "ponging" => job[Reader].type # "pong"
    /\ reader = "ponging" =>
        /\ ReadCount > 0 /\ sentIn[ReadCount].type = "ping"
        /\ job[Reader].type = "pong" /\ job[Reader].val = ReadCount

\* Whether the k-th frame is a ping that was answered: not while it is being
\* answered.
Answered(k) == sentIn[k].type = "ping" /\ ~(reader = "ponging" /\ k = ReadCount)

\* The pongs that were written: one for each ping that was answered, in order.
Ponged ==
    /\ \A i \in Pongs : out[i].val \in 1..ReadCount /\ Answered(out[i].val)
    /\ \A k \in 1..ReadCount : Answered(k) => \E i \in Pongs : out[i].val = k
    /\ \A i, j \in Pongs : i < j => out[i].val < out[j].val

ReadInv == WsInv /\ Unread /\ Returned /\ PongJobs /\ Ponged

\* What the invariant says of the properties.
LEMMA ReadInvShows == ASSUME ReadInv PROVE ReceivedInOrder /\ PongBeforeNextMessage
<1>1. ReceivedInOrder
  <2>1. {received[i].val : i \in DOMAIN received} =
        {k \in ReadSoFar : sentIn[k].type \in DataTypes}
    BY DEF ReadInv, Returned, EachReturned, ReadSoFar, ReadCount
  <2>2. \A i, j \in DOMAIN received : i < j => received[i].val < received[j].val
    BY DEF ReadInv, Returned, Ascending
  <2>3. \A i \in DOMAIN received :
            received[i].whole \/ (eof = "cut" /\ i = Len(received))
    BY DEF ReadInv, Returned, CutLast
  <2> QED
    BY <2>1, <2>2, <2>3 DEF ReceivedInOrder
<1>2. PongBeforeNextMessage
  <2> SUFFICES ASSUME reader = "read"
               PROVE  /\ {out[i].val : i \in Pongs} = {k \in ReadSoFar : sentIn[k].type = "ping"}
                      /\ \A i, j \in Pongs : i < j => out[i].val < out[j].val
    BY DEF PongBeforeNextMessage, Pongs
  <2>1. /\ \A i \in Pongs : out[i].val \in ReadSoFar /\ sentIn[out[i].val].type = "ping"
        /\ \A k \in ReadSoFar : sentIn[k].type = "ping" => \E i \in Pongs : out[i].val = k
    BY DEF ReadInv, Ponged, Answered, ReadSoFar, ReadCount
  <2>2. \A i, j \in Pongs : i < j => out[i].val < out[j].val
    BY DEF ReadInv, Ponged
  <2> QED
    BY <2>1, <2>2
<1> QED
  BY <1>1, <1>2

(***************************************************************************)
(* Before the handshake nothing was sent, read or written.                 *)
(***************************************************************************)
LEMMA ReadInvInit == ASSUME WsInit PROVE ReadInv
<1>1. /\ inbox = <<>> /\ sentIn = <<>> /\ out = <<>> /\ received = <<>> /\ lastType = ""
      /\ reader = "handshake" /\ job = [w \in Writers |-> NoJob]
  BY DEF WsInit
<1>2. /\ Len(sentIn) = 0 /\ Len(inbox) = 0 /\ ReadCount = 0
      /\ DOMAIN out = {} /\ DOMAIN received = {}
  <2>1. \A q : q = <<>> => Len(q) = 0 /\ DOMAIN q = {}
    OBVIOUS
  <2>2. Len(sentIn) = 0 /\ Len(inbox) = 0 /\ DOMAIN out = {} /\ DOMAIN received = {}
    BY <1>1, <2>1
  <2> QED
    BY <2>2 DEF ReadCount
<1>3. Unread
  BY <1>2 DEF Unread
<1>4. Returned
  <2>1. EachReturned /\ Ascending /\ CutLast
    BY <1>2 DEF EachReturned, Ascending, CutLast
  <2>2. <<>> \in Seq(Messages)
    OBVIOUS
  <2> QED
    BY <1>1, <2>1, <2>2 DEF Returned
<1>5. PongJobs
  BY <1>1, WriterNames DEF PongJobs, NoJob
<1>6. Ponged
  <2>1. Pongs = {}
    BY <1>2 DEF Pongs
  <2> QED
    BY <1>2, <2>1 DEF Ponged
<1> QED
  BY WsInvInit, <1>3, <1>4, <1>5, <1>6 DEF ReadInv

(***************************************************************************)
(* Receive takes the first frame that was not read yet.                    *)
(***************************************************************************)
LEMMA ReadAdvances ==
    ASSUME WriteTypes, Unread, inbox # <<>>, inbox' = Tail(inbox), sentIn' = sentIn
    PROVE  /\ Unread' /\ ReadCount' = ReadCount + 1 /\ ReadCount + 1 \in 1..Len(sentIn)
           /\ Head(inbox) = sentIn[ReadCount + 1] /\ Head(inbox).val = ReadCount + 1
           /\ Head(inbox) \in Frames
           /\ ReadCount + 1 = Len(sentIn) => inbox' = <<>>
<1> PICK n, b, s : n = ReadCount /\ b = Len(inbox) /\ s = Len(sentIn)
  OBVIOUS
<1>1. /\ inbox \in Seq(Frames) /\ b \in Nat /\ b >= 1 /\ s \in Nat
      /\ inbox' \in Seq(Frames) /\ Len(inbox') = b - 1
      /\ \A i \in 1..(b - 1) : inbox'[i] = inbox[i + 1]
      /\ Head(inbox) = inbox[1] /\ Head(inbox) \in Frames
  BY DEF WriteTypes
<1>2. n \in Nat /\ n = s - b /\ Len(sentIn') = s
  BY DEF Unread, ReadCount
<1>3. /\ \A k \in 1..s : sentIn[k].val = k
      /\ \A i \in 1..b : inbox[i] = sentIn[n + i]
  BY DEF Unread
<1>4. ReadCount' = n + 1 /\ n + 1 \in 1..s /\ 1 \in 1..b
  BY <1>1, <1>2 DEF ReadCount
<1>5. Head(inbox) = sentIn[n + 1] /\ Head(inbox).val = n + 1
  BY <1>1, <1>3, <1>4
<1>6. ASSUME NEW i \in 1..(b - 1) PROVE inbox'[i] = sentIn[(n + 1) + i]
  <2>1. i + 1 \in 1..b /\ n + (i + 1) = (n + 1) + i
    BY <1>1, <1>2
  <2> QED
    BY <1>1, <1>3, <2>1
<1>7. Unread'
  <2>1. n + 1 \in Nat
    BY <1>2
  <2> QED
    BY <1>1, <1>2, <1>3, <1>4, <1>6, <2>1 DEF Unread
<1>8. n + 1 = s => inbox' = <<>>
  <2>1. n + 1 = s => b - 1 = 0
    BY <1>1, <1>2
  <2> QED
    BY <1>1, <2>1
<1> QED
  BY <1>1, <1>4, <1>5, <1>7, <1>8

(***************************************************************************)
(* The other steps read nothing.                                           *)
(***************************************************************************)
LEMMA ReadStays ==
    ASSUME WriteTypes, Unread,
           UNCHANGED <<inbox, sentIn>> \/ \E t \in FrameTypes : PhoneSends(t)
    PROVE  /\ Unread' /\ ReadCount' = ReadCount
           /\ \A k \in 1..ReadCount : sentIn'[k] = sentIn[k]
<1>1. CASE UNCHANGED <<inbox, sentIn>>
  BY <1>1 DEF Unread, ReadCount
<1>2. ASSUME NEW t \in FrameTypes, PhoneSends(t) 
      PROVE  Unread' /\ ReadCount' = ReadCount /\ \A k \in 1..ReadCount : sentIn'[k] = sentIn[k]
  <2> DEFINE n == ReadCount
             b == Len(inbox)
             s == Len(sentIn)
             f == [type |-> t, val |-> s + 1]
  <2>1. /\ inbox \in Seq(Frames) /\ sentIn \in Seq(Frames) /\ b \in Nat /\ s \in Nat
        /\ f \in Frames /\ f.val = s + 1
    BY DEF WriteTypes, Frames
  <2>2. n \in Nat /\ n = s - b
    BY DEF Unread, ReadCount
  <2>3. inbox' = Append(inbox, f) /\ sentIn' = Append(sentIn, f)
    BY <1>2 DEF PhoneSends
  <2> HIDE DEF f
  <2>4. /\ Len(inbox') = b + 1 /\ inbox'[b + 1] = f /\ \A i \in 1..b : inbox'[i] = inbox[i]
        /\ Len(sentIn') = s + 1 /\ sentIn'[s + 1] = f /\ \A k \in 1..s : sentIn'[k] = sentIn[k]
    BY <2>1, <2>3
  <2>5. ReadCount' = n
    BY <2>1, <2>2, <2>4 DEF ReadCount
  <2>6. /\ \A k \in 1..s : sentIn[k].val = k
        /\ \A i \in 1..b : inbox[i] = sentIn[n + i]
    BY DEF Unread
  <2> HIDE DEF n, b, s
  <2>7. ASSUME NEW k \in 1..(s + 1) PROVE sentIn'[k].val = k
    <3>1. k \in 1..s \/ k = s + 1
      BY <2>1
    <3> QED
      BY <2>1, <2>4, <2>6, <3>1
  <2>8. ASSUME NEW i \in 1..(b + 1) PROVE inbox'[i] = sentIn'[n + i]
    <3>1. CASE i = b + 1
      <4>1. n + i = s + 1
        BY <2>1, <2>2, <3>1
      <4> QED
        BY <2>4, <3>1, <4>1
    <3>2. CASE i # b + 1
      <4>1. i \in 1..b /\ n + i \in 1..s
        BY <2>1, <2>2, <3>2
      <4> QED
        BY <2>4, <2>6, <4>1
    <3> QED
      BY <3>1, <3>2
  <2>9. \A k \in 1..n : sentIn'[k] = sentIn[k]
    <3>1. \A k \in 1..n : k \in 1..s
      BY <2>1, <2>2
    <3> QED
      BY <2>4, <3>1
  <2> QED
    BY <2>2, <2>4, <2>5, <2>7, <2>8, <2>9 DEF Unread, n
<1> QED
  BY <1>1, <1>2

\* The steps that read nothing.
Elsewhere ==
    \/ \E t \in FrameTypes : PhoneSends(t)
    \/ \E how \in {"clean", "cut"} : PhoneEnds(how)
    \/ Breaks \/ HandlerReturns \/ ReceiveFails \/ UNCHANGED wsVars
    \/ \E req \in Request : serveWebSocket(req)
    \/ \E w \in Pushers : StartWrite(w, "binary")
    \/ StartWrite(Closer, "close")
    \/ \E w \in Writers : Lock(w) \/ WriteHeader(w) \/ WritePayload(w)

(***************************************************************************)
(* They return no message, and a message that was cut stays the last.      *)
(***************************************************************************)
LEMMA ReturnedElsewhere == ASSUME ReadInv, Elsewhere PROVE Unread' /\ Returned'
<1>1. WriteTypes /\ Unread /\ Returned
  BY DEF ReadInv, WsInv
<1>2. UNCHANGED <<inbox, sentIn>> \/ \E t \in FrameTypes : PhoneSends(t)
  BY DEF Elsewhere, PhoneEnds, Breaks, HandlerReturns, ReceiveFails, wsVars, serveWebSocket,
         StartWrite, Lock, WriteHeader, WritePayload
<1>3. /\ Unread' /\ ReadCount' = ReadCount
      /\ \A k \in 1..ReadCount : sentIn'[k] = sentIn[k]
  BY <1>1, <1>2, ReadStays
<1>4. /\ received' = received /\ lastType' = lastType
      /\ eof = "cut" => eof' = "cut" /\ inbox' = inbox
  BY DEF Elsewhere, PhoneSends, PhoneEnds, Breaks, HandlerReturns, ReceiveFails, wsVars,
         serveWebSocket, StartWrite, Lock, WriteHeader, WritePayload
<1>5. CutLast'
  <2>1. CutLast
    BY <1>1 DEF Returned
  <2> QED
    BY <1>4, <2>1 DEF CutLast
<1>6. EachReturned'
  <2>1. EachReturned
    BY <1>1 DEF Returned
  <2> QED
    BY <1>3, <1>4, <2>1 DEF EachReturned, DataTypes
<1>7. Ascending'
  <2>1. Ascending
    BY <1>1 DEF Returned
  <2> QED
    BY <1>4, <2>1 DEF Ascending
<1>8. received' \in Seq(Messages) /\ (lastType \in DataTypes \cup {""})'
  BY <1>1, <1>4 DEF Returned, DataTypes
<1> QED
  BY <1>3, <1>5, <1>6, <1>7, <1>8 DEF Returned, Messages

(***************************************************************************)
(* Receive of a ping returns no message, Receive of a message returns it.  *)
(***************************************************************************)
LEMMA ReturnedHere == ASSUME ReadInv, ReceivePing \/ ReceiveMessage PROVE Unread' /\ Returned'
<1>1. WriteTypes /\ Unread /\ EachReturned /\ Ascending /\ CutLast
  BY DEF ReadInv, WsInv, Returned
<1>n. PICK n, f : n = ReadCount /\ f = Head(inbox)
  OBVIOUS
<1>2. inbox # <<>> /\ inbox' = Tail(inbox) /\ sentIn' = sentIn /\ eof' = eof
  BY DEF ReceivePing, ReceiveMessage
<1>3. /\ Unread' /\ ReadCount' = n + 1 /\ n + 1 \in 1..Len(sentIn)
      /\ f = sentIn[n + 1] /\ f.val = n + 1 /\ f \in Frames
      /\ n + 1 = Len(sentIn) => inbox' = <<>>
  BY <1>1, <1>2, <1>n, ReadAdvances
<1>4. received \in Seq(Messages) /\ lastType \in DataTypes \cup {""}
  BY DEF ReadInv, Returned
<1>r. PICK r \in Nat : r = Len(received) /\ DOMAIN received = 1..r
  BY <1>4, SeqFacts
<1>5. n \in Nat
  BY <1>1, <1>n DEF Unread
<1>6. /\ \A i \in 1..r : received[i].val \in 1..n /\ sentIn[received[i].val].type \in DataTypes
      /\ \A k \in 1..n : sentIn[k].type \in DataTypes => \E i \in 1..r : received[i].val = k
      /\ \A i, j \in 1..r : i < j => received[i].val < received[j].val
  BY <1>1, <1>n, <1>r DEF EachReturned, Ascending
<1>7. \A i \in 1..r : received[i].whole
  BY <1>1, <1>2, <1>r DEF CutLast
<1>8. \A k \in 1..(n + 1) : k \in 1..n \/ k = n + 1
  BY <1>5
<1>9. n + 1 \in 1..(n + 1) /\ \A k \in 1..n : k \in 1..(n + 1)
  BY <1>5
<1>10. CASE ReceivePing
  <2>1. received' = received /\ lastType' = lastType /\ f.type = "ping"
    BY <1>n, <1>10 DEF ReceivePing
  <2>2. EachReturned'
    BY <1>2, <1>3, <1>5, <1>6, <1>r, <1>8, <1>9, <2>1 DEF EachReturned, DataTypes
  <2>3. CutLast'
    BY <1>r, <1>7, <2>1 DEF CutLast
  <2>4. Ascending'
    BY <1>1, <2>1 DEF Ascending
  <2>5. received' \in Seq(Messages) /\ (lastType \in DataTypes \cup {""})'
    BY <1>4, <2>1 DEF DataTypes
  <2> QED
    BY <1>3, <2>2, <2>3, <2>4, <2>5 DEF Returned, Messages
<1>11. CASE ReceiveMessage
  <2>1. /\ received' = Append(received, [val |-> f.val, whole |-> ~Cut(f), type |-> TypeOf(f)])
        /\ lastType' = TypeOf(f) /\ f.type \in DataTypes
    BY <1>n, <1>11 DEF ReceiveMessage, GivenToHandler
  <2>2. TypeOf(f) \in DataTypes \cup {""}
    BY <1>4, <2>1 DEF TypeOf
  <2>3. PICK m \in Messages : /\ received' = Append(received, m) /\ m.val = n + 1
                              /\ Cut(f) \/ m.whole
    <3>1. n + 1 \in Nat
      BY <1>5
    <3>2. CASE Cut(f)
      <4> DEFINE m == [val |-> n + 1, whole |-> FALSE, type |-> TypeOf(f)]
      <4>1. received' = Append(received, m)
        BY <1>3, <2>1, <3>2
      <4>2. m \in Messages
        BY <2>2, <3>1 DEF Messages
      <4> QED
        BY <3>2, <4>1, <4>2
    <3>3. CASE ~Cut(f)
      <4> DEFINE m == [val |-> n + 1, whole |-> TRUE, type |-> TypeOf(f)]
      <4>1. received' = Append(received, m)
        BY <1>3, <2>1, <3>3
      <4>2. m \in Messages
        BY <2>2, <3>1 DEF Messages
      <4> QED
        BY <4>1, <4>2
    <3> QED
      BY <3>2, <3>3
  <2>4. Cut(f) => eof' = "cut" /\ inbox' = <<>>
    BY <1>2, <1>3 DEF Cut
  <2>5. /\ received' \in Seq(Messages) /\ Len(received') = r + 1 /\ DOMAIN received' = 1..(r + 1)
        /\ received'[r + 1] = m /\ \A i \in 1..r : received'[i] = received[i]
    <3>1. m \in Messages /\ received' = Append(received, m)
      BY <2>3
    <3> QED
      <4>1. received \in Seq(Messages)
        BY <1>4
      <4>2. /\ received' \in Seq(Messages) /\ Len(received') = Len(received) + 1
            /\ DOMAIN received' = 1..(Len(received) + 1)
            /\ received'[Len(received) + 1] = m
            /\ \A i \in 1..Len(received) : received'[i] = received[i]
        BY <3>1, <4>1, OneMore
      <4> QED
        BY <1>r, <4>2
  <2>6. \A i \in 1..(r + 1) : i \in 1..r \/ i = r + 1
    BY <1>5
  <2>7. r + 1 \in 1..(r + 1) /\ \A i \in 1..r : i \in 1..(r + 1)
    BY <1>5
  <2>8. EachReturned'
    <3>1. ASSUME NEW i \in 1..(r + 1)
          PROVE  received'[i].val \in 1..(n + 1) /\ sentIn[received'[i].val].type \in DataTypes
      BY <1>3, <1>6, <1>9, <2>1, <2>3, <2>5, <2>6
    <3>2. ASSUME NEW k \in 1..(n + 1), sentIn[k].type \in DataTypes
          PROVE  \E i \in 1..(r + 1) : received'[i].val = k
      <4>1. CASE k \in 1..n
        BY <1>6, <2>5, <2>7, <3>2, <4>1
      <4>2. CASE k = n + 1
        BY <2>3, <2>5, <2>7, <4>2
      <4> QED
        BY <1>8, <4>1, <4>2
    <3> QED
      BY <1>2, <1>3, <2>5, <3>1, <3>2 DEF EachReturned, DataTypes
  <2>9. Ascending'
    <3> SUFFICES ASSUME NEW i \in 1..(r + 1), NEW j \in 1..(r + 1), i < j
                 PROVE  received'[i].val < received'[j].val
      BY <2>5 DEF Ascending
    <3>1. i \in 1..r
      BY <1>5
    <3>2. CASE j \in 1..r
      BY <1>6, <2>5, <3>1, <3>2
    <3>3. CASE j = r + 1
      <4>1. received'[i].val \in 1..n /\ received'[j].val = n + 1
        BY <1>6, <2>3, <2>5, <3>1, <3>3
      <4> QED
        BY <1>5, <4>1
    <3> QED
      BY <2>6, <3>2, <3>3
  <2>10. CutLast'
    BY <1>7, <2>3, <2>4, <2>5, <2>6 DEF CutLast
  <2>11. (lastType \in DataTypes \cup {""})'
    BY <2>1, <2>2 DEF DataTypes
  <2> QED
    BY <1>3, <2>5, <2>8, <2>9, <2>10, <2>11 DEF Returned, Messages
<1> QED
  BY <1>10, <1>11

-----------------------------------------------------------------------------
(* WsConn: the pings that the reader answers.                              *)

(***************************************************************************)
(* The jobs of the writers after a step of one of them: only ReceivePing   *)
(* starts a pong.                                                          *)
(***************************************************************************)
LEMMA NoPongStarts ==
    ASSUME WriteTypes, PongJobs, NEW w \in Writers, NEW j \in Jobs, j.type # "pong",
           job' = [job EXCEPT ![w] = j],
           w = Reader => reader' # "ponging",
           w # Reader => reader' = reader /\ ReadCount' = ReadCount
                         /\ (reader = "ponging" => sentIn'[ReadCount] = sentIn[ReadCount])
    PROVE  PongJobs'
<1>1. job'[w] = j /\ \A v \in Writers : v # w => job'[v] = job[v]
  BY DEF WriteTypes
<1>2. Reader \in Writers
  BY WriterNames
<1>3. CASE w = Reader
  BY <1>1, <1>2, <1>3 DEF PongJobs
<1>4. CASE w # Reader
  BY <1>1, <1>2, <1>4 DEF PongJobs
<1> QED
  BY <1>3, <1>4

(***************************************************************************)
(* A step that leaves what was written, what was read and whether a ping   *)
(* is being answered leaves the pongs.                                     *)
(***************************************************************************)
LEMMA PongedStays ==
    ASSUME Ponged, out' = out, ReadCount' = ReadCount,
           \A k \in 1..ReadCount : sentIn'[k] = sentIn[k],
           reader' = "ponging" <=> reader = "ponging"
    PROVE  Ponged'
<1>1. Pongs' = Pongs
  BY DEF Pongs
<1>2. \A k \in 1..ReadCount : Answered(k)' <=> Answered(k)
  BY DEF Answered
<1> QED
  BY <1>1, <1>2 DEF Ponged

(***************************************************************************)
(* A piece that is no pong's payload changes nothing either.               *)
(***************************************************************************)
LEMMA PongsAfter ==
    ASSUME WriteTypes, NEW p \in Pieces, out' = Append(out, p)
    PROVE  /\ \A i \in Pongs : i \in 1..Len(out) /\ i \in Pongs' /\ out'[i] = out[i]
           /\ \A i \in Pongs' : i \in Pongs \/ i = Len(out) + 1
           /\ Len(out) \in Nat /\ out'[Len(out) + 1] = p
           /\ Len(out) + 1 \in Pongs' <=> (p.type = "pong" /\ p.part = "payload")
<1>1. /\ Len(out) \in Nat /\ DOMAIN out = 1..Len(out)
      /\ DOMAIN out' = 1..(Len(out) + 1) /\ out'[Len(out) + 1] = p
      /\ \A i \in 1..Len(out) : out'[i] = out[i]
  BY SeqFacts, OneMore DEF WriteTypes
<1>2. /\ \A i \in 1..(Len(out) + 1) : i \in 1..Len(out) \/ i = Len(out) + 1
      /\ \A i \in 1..Len(out) : i \in 1..(Len(out) + 1)
      /\ Len(out) + 1 \in 1..(Len(out) + 1)
  BY <1>1
<1> QED
  BY <1>1, <1>2 DEF Pongs

(***************************************************************************)
(* A step that changes neither what is being written nor what was read     *)
(* keeps the reader at its pong, or away from pongs.                       *)
(***************************************************************************)
LEMMA PongJobsStay ==
    ASSUME PongJobs, ReadCount' = ReadCount,
           reader = "ponging" => sentIn'[ReadCount] = sentIn[ReadCount],
           \A v \in Writers : job'[v].type = job[v].type /\ job'[v].val = job[v].val,
           reader' = reader \/ (reader # "ponging" /\ reader' # "ponging")
    PROVE  PongJobs'
<1>1. Reader \in Writers
  BY WriterNames
<1>2. CASE reader' = reader
  BY <1>1, <1>2 DEF PongJobs
<1>3. CASE reader # "ponging" /\ reader' # "ponging"
  BY <1>1, <1>3 DEF PongJobs
<1> QED
  BY <1>2, <1>3

(***************************************************************************)
(* The steps that write nothing leave the pongs.                           *)
(***************************************************************************)
LEMMA PongedElsewhere ==
    ASSUME ReadInv, Elsewhere, out' = out PROVE Ponged'
<1>1. WriteTypes /\ Unread /\ Ponged
  BY DEF ReadInv, WsInv
<1>2. UNCHANGED <<inbox, sentIn>> \/ \E t \in FrameTypes : PhoneSends(t)
  BY DEF Elsewhere, PhoneEnds, Breaks, HandlerReturns, ReceiveFails, wsVars, serveWebSocket,
         StartWrite, Lock, WriteHeader, WritePayload
<1>3. /\ ReadCount' = ReadCount
      /\ \A k \in 1..ReadCount : sentIn'[k] = sentIn[k]
  BY <1>1, <1>2, ReadStays
<1>4. ~ \E w \in Writers : WriteHeader(w) \/ WritePayload(w)
  <2>1. ASSUME NEW w \in Writers, NEW part PROVE out # Append(out, Piece(w, part))
    <3>1. out \in Seq(Pieces)
      BY <1>1 DEF WriteTypes
    <3>2. Len(out) \in Nat /\ Len(Append(out, Piece(w, part))) = Len(out) + 1
      BY <3>1
    <3> QED
      BY <3>2
  <2> QED
    BY <2>1 DEF WriteHeader, WritePayload
<1>5. reader' = "ponging" <=> reader = "ponging"
  BY <1>4 DEF Elsewhere, PhoneSends, PhoneEnds, Breaks, HandlerReturns, ReceiveFails, wsVars,
              serveWebSocket, StartWrite, Lock
<1> QED
  BY <1>1, <1>3, <1>5, PongedStays

(***************************************************************************)
(* Receive: the frame that is read is no ping, or the reader goes on to    *)
(* answer it.                                                              *)
(***************************************************************************)
LEMMA PongedReceive == ASSUME ReadInv, ReceivePing \/ ReceiveMessage PROVE Ponged' /\ PongJobs'
<1>1. WriteTypes /\ Unread /\ Ponged /\ PongJobs
  BY DEF ReadInv, WsInv
<1>n. PICK n, f : n = ReadCount /\ f = Head(inbox)
  OBVIOUS
<1>2. /\ inbox # <<>> /\ inbox' = Tail(inbox) /\ sentIn' = sentIn /\ out' = out
      /\ reader = "read"
  BY DEF ReceivePing, ReceiveMessage
<1>3. /\ ReadCount' = n + 1 /\ f = sentIn[n + 1] /\ f.val = n + 1
  BY <1>1, <1>2, <1>n, ReadAdvances
<1>4. n \in Nat
  BY <1>1, <1>n DEF Unread
<1>5. /\ \A k \in 1..(n + 1) : k \in 1..n \/ k = n + 1
      /\ \A k \in 1..n : k \in 1..(n + 1) /\ k # n + 1
      /\ n + 1 > 0
  BY <1>4
<1>6. Pongs' = Pongs
  BY <1>2 DEF Pongs
<1>7. /\ \A i \in Pongs : out[i].val \in 1..n /\ sentIn[out[i].val].type = "ping"
      /\ \A k \in 1..n : sentIn[k].type = "ping" => \E i \in Pongs : out[i].val = k
      /\ \A i, j \in Pongs : i < j => out[i].val < out[j].val
  BY <1>1, <1>2, <1>n DEF Ponged, Answered
<1>8. job \in [Writers -> Jobs] /\ Reader \in Writers
  BY <1>1, WriterNames DEF WriteTypes
<1>9. CASE ReceivePing
  <2>1. /\ f.type = "ping" /\ reader' = "ponging"
        /\ job' = [job EXCEPT ![Reader] = [at |-> "lock", type |-> "pong", val |-> n + 1]]
    BY <1>n, <1>3, <1>9 DEF ReceivePing, PongTo, Writing
  <2>2. /\ job'[Reader].type = "pong" /\ job'[Reader].val = n + 1
        /\ \A v \in Writers : v # Reader => job'[v] = job[v]
    BY <1>8, <2>1
  <2>3. PongJobs'
    BY <1>1, <1>2, <1>3, <1>5, <2>1, <2>2 DEF PongJobs
  <2>4. \A k \in 1..(n + 1) : Answered(k)' <=> sentIn[k].type = "ping" /\ k # n + 1
    BY <1>2, <1>3, <2>1 DEF Answered
  <2>5. Ponged'
    BY <1>2, <1>3, <1>5, <1>6, <1>7, <2>4 DEF Ponged
  <2> QED
    BY <2>3, <2>5
<1>10. CASE ReceiveMessage
  <2>1. f.type # "ping"
    BY <1>n, <1>10 DEF ReceiveMessage, GivenToHandler, DataTypes
  <2>2. reader' # "ponging"
    BY <1>2, <1>10 DEF ReceiveMessage
  <2>3. PongJobs'
    <3>1. CASE UNCHANGED <<reader, job>>
      BY <1>1, <1>2, <3>1 DEF PongJobs
    <3>2. CASE job' = [job EXCEPT ![Reader] = Writing("text", n + 1)]
      <4>1. Writing("text", n + 1) \in Jobs /\ Writing("text", n + 1).type # "pong"
        BY <1>4 DEF Writing, Jobs, Kinds
      <4> QED
        BY <1>1, <1>8, <2>2, <3>2, <4>1, NoPongStarts
    <3>3. CASE job' = [job EXCEPT ![Reader] = Writing("close", 0)]
      <4>1. Writing("close", 0) \in Jobs /\ Writing("close", 0).type # "pong"
        BY DEF Writing, Jobs, Kinds
      <4> QED
        BY <1>1, <1>8, <2>2, <3>3, <4>1, NoPongStarts
    <3> QED
      BY <1>n, <1>3, <1>10, <3>1, <3>2, <3>3 DEF ReceiveMessage
  <2>4. \A k \in 1..(n + 1) : Answered(k)' <=> sentIn[k].type = "ping"
    BY <1>2, <2>2 DEF Answered
  <2>5. Ponged'
    BY <1>2, <1>3, <1>5, <1>6, <1>7, <2>1, <2>4 DEF Ponged
  <2> QED
    BY <2>3, <2>5
<1> QED
  BY <1>9, <1>10

(***************************************************************************)
(* What WriteHeader and WritePayload write: the payload of a pong is       *)
(* written by the reader, and then the ping is answered.                   *)
(***************************************************************************)
LEMMA PongedWrite ==
    ASSUME ReadInv, NEW w \in Writers, WriteHeader(w) \/ WritePayload(w)
    PROVE  Ponged'
<1>1. WriteTypes /\ Unread /\ Ponged /\ PongJobs
  BY DEF ReadInv, WsInv
<1>2. /\ sentIn' = sentIn /\ inbox' = inbox /\ ReadCount' = ReadCount /\ ReadCount \in Nat
      /\ job[w] \in Jobs
  BY <1>1 DEF WriteHeader, WritePayload, ReadCount, WriteTypes, Unread
<1>3. PICK part \in {"header", "payload"} :
         /\ out' = Append(out, Piece(w, part))
         /\ part = "header" => reader' = reader
         /\ part = "payload" => WritePayload(w)
  BY DEF WriteHeader, WritePayload
<1>p. PICK p, n, l : p = Piece(w, part) /\ n = ReadCount /\ l = Len(out) + 1
  OBVIOUS
<1>4. /\ p \in Pieces /\ p.part = part /\ p.type = job[w].type /\ p.val = job[w].val
      /\ out' = Append(out, p)
  BY <1>2, <1>3, <1>p DEF Piece, Pieces, Jobs
<1>5. /\ \A i \in Pongs : i \in 1..Len(out) /\ i \in Pongs' /\ out'[i] = out[i]
      /\ \A i \in Pongs' : i \in Pongs \/ i = l
      /\ Len(out) \in Nat /\ out'[l] = p
      /\ l \in Pongs' <=> (p.type = "pong" /\ p.part = "payload")
  BY <1>1, <1>4, <1>p, PongsAfter
<1>6. \A i \in Pongs : i < l /\ l # i /\ ~(l < i)
  BY <1>5, <1>p
<1>7. /\ \A i \in Pongs : out[i].val \in 1..n /\ Answered(out[i].val)
      /\ \A k \in 1..n : Answered(k) => \E i \in Pongs : out[i].val = k
      /\ \A i, j \in Pongs : i < j => out[i].val < out[j].val
  BY <1>1, <1>p DEF Ponged
<1>8. CASE p.type = "pong" /\ part = "payload"
  <2>1. w = Reader /\ reader = "ponging" /\ n > 0 /\ sentIn[n].type = "ping" /\ p.val = n
    BY <1>1, <1>4, <1>8, <1>p DEF PongJobs
  <2>2. reader' # "ponging"
    BY <1>3, <1>8, <2>1 DEF WritePayload
  <2>3. n \in 1..n /\ l \in Pongs' /\ out'[l].val = n
    BY <1>2, <1>4, <1>5, <1>8, <1>p, <2>1
  <2>4. /\ \A k \in 1..n : Answered(k)' <=> sentIn[k].type = "ping"
        /\ \A k \in 1..n : Answered(k) <=> sentIn[k].type = "ping" /\ k # n
    BY <1>2, <1>p, <2>1, <2>2 DEF Answered
  <2>5. \A i \in Pongs : out[i].val < n
    <3> SUFFICES ASSUME NEW i \in Pongs PROVE out[i].val < n
      OBVIOUS
    <3>1. out[i].val \in 1..n /\ out[i].val # n
      BY <1>7, <2>4
    <3> QED
      BY <1>2, <1>p, <3>1
  <2>6. \A i \in Pongs' : out'[i].val \in 1..n /\ sentIn[out'[i].val].type = "ping"
    BY <1>5, <1>7, <2>1, <2>3, <2>4
  <2>7. \A k \in 1..n : Answered(k)' => \E i \in Pongs' : out'[i].val = k
    BY <1>5, <1>7, <2>3, <2>4
  <2>8. \A i, j \in Pongs' : i < j => out'[i].val < out'[j].val
    <3> SUFFICES ASSUME NEW i \in Pongs', NEW j \in Pongs', i < j
                 PROVE  out'[i].val < out'[j].val
      OBVIOUS
    <3>1. i \in Pongs
      BY <1>5, <1>6, <1>p
    <3>2. CASE j \in Pongs
      BY <1>5, <1>7, <3>1, <3>2
    <3>3. CASE j = l
      BY <1>5, <2>3, <2>5, <3>1, <3>3
    <3> QED
      BY <1>5, <3>2, <3>3
  <2> QED
    BY <1>2, <1>p, <2>2, <2>6, <2>7, <2>8 DEF Ponged, Answered
<1>9. CASE ~(p.type = "pong" /\ part = "payload")
  <2>1. Pongs' = Pongs
    BY <1>4, <1>5, <1>9
  <2>2. reader' = "ponging" <=> reader = "ponging"
    <3>1. CASE part = "header"
      BY <1>3, <3>1
    <3>2. CASE part = "payload"
      <4>1. CASE w # Reader
        BY <1>3, <3>2, <4>1 DEF WritePayload
      <4>2. CASE w = Reader
        <5>1. reader # "ponging"
          BY <1>1, <1>4, <1>9, <3>2, <4>2 DEF PongJobs
        <5> QED
          BY <1>3, <3>2, <4>2, <5>1 DEF WritePayload
      <4> QED
        BY <4>1, <4>2
    <3> QED
      BY <1>3, <3>1, <3>2
  <2>3. \A k \in 1..n : Answered(k)' <=> Answered(k)
    BY <1>2, <2>2 DEF Answered
  <2> QED
    BY <1>2, <1>5, <1>7, <1>p, <2>1, <2>3 DEF Ponged
<1> QED
  BY <1>8, <1>9

(***************************************************************************)
(* The steps that read nothing begin no pong, and only the reader ends     *)
(* one.                                                                    *)
(***************************************************************************)
LEMMA PongJobsElsewhere == ASSUME ReadInv, Elsewhere PROVE PongJobs'
<1>1. WriteTypes /\ Unread /\ PongJobs /\ job \in [Writers -> Jobs]
  BY DEF ReadInv, WsInv, WriteTypes
<1>2. UNCHANGED <<inbox, sentIn>> \/ \E t \in FrameTypes : PhoneSends(t)
  BY DEF Elsewhere, PhoneEnds, Breaks, HandlerReturns, ReceiveFails, wsVars, serveWebSocket,
         StartWrite, Lock, WriteHeader, WritePayload
<1>3. /\ ReadCount' = ReadCount
      /\ \A k \in 1..ReadCount : sentIn'[k] = sentIn[k]
  BY <1>1, <1>2, ReadStays
<1>4. reader = "ponging" => sentIn'[ReadCount] = sentIn[ReadCount]
  <2>1. reader = "ponging" => ReadCount \in 1..ReadCount
    BY <1>1 DEF Unread, PongJobs
  <2> QED
    BY <1>3, <2>1
<1>5. Reader \in Writers /\ Closer \in Writers /\ Closer # Reader
      /\ Pushers \subseteq Writers /\ Reader \notin Pushers
  BY WriterNames
<1>6. CASE job' = job
  <2>1. reader' = reader \/ (reader # "ponging" /\ reader' # "ponging")
    <3>1. ASSUME NEW w \in Writers, Lock(w) \/ WriteHeader(w) PROVE reader' = reader
      BY <3>1 DEF Lock, WriteHeader
    <3>2. ASSUME NEW w \in Writers, WritePayload(w) PROVE FALSE
      <4>1. CASE w # Reader
        <5>1. job' = [job EXCEPT ![w].at = "done"] /\ job[w].at = "payload"
          BY <3>2, <4>1 DEF WritePayload
        <5>2. job'[w].at = "done"
          BY <1>1, <5>1 DEF Jobs
        <5> QED
          BY <1>6, <5>1, <5>2
      <4>2. CASE w = Reader
        <5>1. PICK j \in {Writing("close", 0), NoJob} : job' = [job EXCEPT ![w] = j]
          BY <3>2, <4>2 DEF WritePayload
        <5>2. j.at # "payload"
          <6>1. Writing("close", 0).at # "payload" /\ NoJob.at # "payload"
            BY DEF Writing, NoJob
          <6> QED
            BY <5>1, <6>1
        <5>3. job[w].at = "payload" /\ job'[w] = j
          BY <1>1, <3>2, <5>1 DEF WritePayload
        <5> QED
          BY <1>6, <5>2, <5>3
      <4> QED
        BY <4>1, <4>2
    <3> QED
      BY <3>1, <3>2 DEF Elsewhere, PhoneSends, PhoneEnds, Breaks, HandlerReturns, ReceiveFails,
                        wsVars, serveWebSocket, StartWrite
  <2> QED
    BY <1>1, <1>3, <1>4, <1>6, <2>1, PongJobsStay
<1>7. ASSUME ReceiveFails PROVE PongJobs'
  <2>1. Writing("close", 0) \in Jobs /\ Writing("close", 0).type # "pong"
    BY DEF Writing, Jobs, Kinds
  <2>2. job' = [job EXCEPT ![Reader] = Writing("close", 0)] /\ reader' # "ponging"
    BY <1>7 DEF ReceiveFails
  <2> QED
    BY <1>1, <1>5, <2>1, <2>2, NoPongStarts
<1>8. ASSUME NEW w \in Writers, w # Reader, NEW t \in {"binary", "close"}, StartWrite(w, t)
      PROVE  PongJobs'
  <2>1. Writing(t, 0) \in Jobs /\ Writing(t, 0).type # "pong"
    BY DEF Writing, Jobs, Kinds
  <2>2. job' = [job EXCEPT ![w] = Writing(t, 0)] /\ reader' = reader
    BY <1>8 DEF StartWrite
  <2> QED
    BY <1>1, <1>3, <1>4, <1>8, <2>1, <2>2, NoPongStarts
<1>9. ASSUME NEW w \in Writers, Lock(w) \/ WriteHeader(w) \/ (w # Reader /\ WritePayload(w))
      PROVE  PongJobs'
  <2>1. PICK at : job' = [job EXCEPT ![w].at = at] /\ reader' = reader
    BY <1>9 DEF Lock, WriteHeader, WritePayload
  <2>2. \A v \in Writers : job'[v].type = job[v].type /\ job'[v].val = job[v].val
    BY <1>1, <2>1 DEF Jobs
  <2> QED
    BY <1>1, <1>3, <1>4, <2>1, <2>2, PongJobsStay
<1>10. ASSUME WritePayload(Reader) PROVE PongJobs'
  <2>1. PICK j \in {Writing("close", 0), NoJob} : job' = [job EXCEPT ![Reader] = j]
    BY <1>10 DEF WritePayload
  <2>2. j \in Jobs /\ j.type # "pong"
    <3>1. Writing("close", 0) \in Jobs /\ Writing("close", 0).type # "pong"
      BY DEF Writing, Jobs, Kinds
    <3>2. NoJob \in Jobs /\ NoJob.type # "pong"
      BY DEF NoJob, Jobs, Kinds
    <3> QED
      BY <2>1, <3>1, <3>2
  <2>3. reader' # "ponging"
    BY <1>10 DEF WritePayload
  <2> QED
    BY <1>1, <1>5, <2>1, <2>2, <2>3, NoPongStarts
<1>11. CASE job' # job
  <2>1. \/ ReceiveFails
        \/ \E w \in Pushers : StartWrite(w, "binary")
        \/ StartWrite(Closer, "close")
        \/ \E w \in Writers : Lock(w) \/ WriteHeader(w) \/ WritePayload(w)
    BY <1>11 DEF Elsewhere, PhoneSends, PhoneEnds, Breaks, HandlerReturns, wsVars, serveWebSocket
  <2> QED
    BY <1>5, <1>7, <1>8, <1>9, <1>10, <2>1
<1> QED
  BY <1>6, <1>11

(***************************************************************************)
(* Every step keeps the invariant of reading and answering.                *)
(***************************************************************************)
LEMMA ReadInvStep == ReadInv /\ [WsNext]_wsVars => ReadInv'
<1> SUFFICES ASSUME ReadInv, [WsNext]_wsVars PROVE ReadInv'
  OBVIOUS
<1>1. WsInv'
  BY WsInvStep DEF ReadInv
<1>2. CASE ReceivePing \/ ReceiveMessage
  BY <1>1, <1>2, ReturnedHere, PongedReceive DEF ReadInv
<1>3. CASE Elsewhere
  <2>1. ASSUME \E w \in Writers : WriteHeader(w) \/ WritePayload(w) PROVE Ponged'
    BY <2>1, PongedWrite
  <2>2. ASSUME ~ \E w \in Writers : WriteHeader(w) \/ WritePayload(w) PROVE Ponged'
    <3>1. out' = out
      BY <1>3, <2>2 DEF Elsewhere, PhoneSends, PhoneEnds, Breaks, HandlerReturns, ReceiveFails,
                        wsVars, serveWebSocket, StartWrite, Lock
    <3> QED
      BY <1>3, <3>1, PongedElsewhere
  <2>3. Ponged'
    BY <2>1, <2>2
  <2> QED
    BY <1>1, <1>3, <2>3, ReturnedElsewhere, PongJobsElsewhere DEF ReadInv
<1>4. Elsewhere \/ ReceivePing \/ ReceiveMessage
  BY DEF WsNext, Elsewhere
<1> QED
  BY <1>2, <1>3, <1>4

(***************************************************************************)
(* Receive (websocket.go, HandleFrame of hybi.go) returns each data frame  *)
(* of the phone once and in order, whole unless the connection ended in it. *)
(***************************************************************************)
THEOREM ReceivedInOrderAlways == WsSpec => []ReceivedInOrder
<1>1. ReadInv => ReceivedInOrder
  BY ReadInvShows
<1>2. WsInit => ReadInv
  BY ReadInvInit
<1> QED
  BY <1>1, <1>2, ReadInvStep, PTL DEF WsSpec

(***************************************************************************)
(* Every ping is answered once, and before the phone's next message is     *)
(* handed over: HandleFrame (hybi.go) writes the pong before Receive reads *)
(* the next frame.                                                         *)
(***************************************************************************)
THEOREM PongBeforeNextMessageAlways == WsSpec => []PongBeforeNextMessage
<1>1. ReadInv => PongBeforeNextMessage
  BY ReadInvShows
<1>2. WsInit => ReadInv
  BY ReadInvInit
<1> QED
  BY <1>1, <1>2, ReadInvStep, PTL DEF WsSpec

-----------------------------------------------------------------------------
(* TcpFraming: the frames read from a device.                              *)

(***************************************************************************)
(* The invariant (TcpInv) is about the bytes readFrame has still before    *)
(* it, head and then stream.  A flag among them begins a frame of a        *)
(* message not yet returned, and the frames are in the order of sending.   *)
(* A step can make a new flag only where bytes meet that were not written  *)
(* together: behind the last frame, where at most the stray bytes are      *)
(* bytes of a flag, so that they never complete one; and in head after a   *)
(* short read, where a zero keeps the two sides apart.                     *)
(***************************************************************************)

\* What readFrame has not given away yet.
BytesAhead == head \o stream

\* A flag at position i of the bytes a, and a whole frame of message m there.
FlagAt(a, i) ==
    i + FlagLen <= Len(a) + 1 /\ \A j \in 0..(FlagLen - 1) : a[i + j] = j + 1
WholeAt(a, i, m) ==
    /\ FlagAt(a, i) /\ i + FlagLen + 2 <= Len(a)
    /\ a[i + FlagLen] = Length(m) /\ a[i + (FlagLen + 1)] = Length(m) + 1
    /\ a[i + (FlagLen + 2)] = Length(m) + 2

\* A flag begins a whole frame, of a message sent and later than those in R.
FlagsAreFrames(a, n, R) ==
    \A i \in 1..Len(a) :
        FlagAt(a, i) => \E m \in 1..n : WholeAt(a, i, m) /\ \A r \in R : r < m

\* The frames are in order.
FramesAscend(a) ==
    \A i, k \in 1..Len(a) :
        i < k /\ FlagAt(a, i) /\ FlagAt(a, k) => a[i + FlagLen] < a[k + FlagLen]

\* Bytes of a flag at the end are stray bytes: a frame ends with other bytes.
StrayEnd(a, n) ==
    \A i \in 1..Len(a) :
        (\A l \in i..Len(a) : a[l] \in 1..FlagLen) => Len(a) - i + 1 <= n

InStream(a, n, t, R) == FlagsAreFrames(a, n, R) /\ FramesAscend(a) /\ StrayEnd(a, t)

\* Every message sent has been returned or is there.
AllThere(a, n, R) == \A m \in 1..n : m \in R \/ \E i \in 1..Len(a) : WholeAt(a, i, m)

Got == {returned[i] : i \in DOMAIN returned}

TcpTypes ==
    /\ head \in Seq(Nat) /\ Len(head) \in {0, FlagLen} /\ stream \in Seq(Nat)
    /\ msgsSent \in Nat /\ strays \in 0..MaxStray
    /\ returned \in Seq(Nat)

GotInOrder ==
    \A i \in DOMAIN returned :
        returned[i] \in 1..msgsSent /\ (i > 1 => returned[i - 1] < returned[i])

TcpInv ==
    /\ TcpTypes /\ GotInOrder
    /\ InStream(BytesAhead, msgsSent, strays, Got)
    /\ ~unlucky => AllThere(BytesAhead, msgsSent, Got)

\* A flag begins with its first byte.
LEMMA FlagBegins ==
    ASSUME NEW a, NEW i \in Nat, FlagAt(a, i)
    PROVE  a[i] = 1 /\ \A j \in 0..(FlagLen - 1) : a[i + j] = j + 1
<1>1. \A j \in 0..(FlagLen - 1) : a[i + j] = j + 1
  BY DEF FlagAt
<1>2. 0 \in 0..(FlagLen - 1) /\ i + 0 = i /\ 0 + 1 = 1
  BY FlagLenAssumption
<1>3. a[i + 0] = 0 + 1
  BY <1>1, <1>2
<1> QED
  BY <1>1, <1>2, <1>3

(***************************************************************************)
(* Where two sequences hold the same bytes, they hold the same flags and   *)
(* frames.                                                                 *)
(***************************************************************************)
LEMMA SameFlag ==
    ASSUME NEW a \in Seq(Nat), NEW b \in Seq(Nat), NEW i \in Nat, NEW k \in Nat,
           i + FlagLen <= Len(a) + 1, k + FlagLen <= Len(b) + 1,
           \A j \in 0..(FlagLen - 1) : a[i + j] = b[k + j]
    PROVE  FlagAt(a, i) <=> FlagAt(b, k)
BY DEF FlagAt

\* The same for a whole frame.
LEMMA SameFrame ==
    ASSUME NEW a \in Seq(Nat), NEW b \in Seq(Nat), NEW i \in Nat, NEW k \in Nat,
           i + FlagLen + 2 <= Len(a), k + FlagLen + 2 <= Len(b),
           \A j \in 0..(FlagLen + 2) : a[i + j] = b[k + j],
           NEW m
    PROVE  WholeAt(a, i, m) <=> WholeAt(b, k, m)
<1>1. FlagLen \in Nat /\ Len(a) \in Nat /\ Len(b) \in Nat
  BY FlagLenAssumption
<1>2. /\ i + FlagLen <= Len(a) + 1 /\ k + FlagLen <= Len(b) + 1
      /\ \A j \in 0..(FlagLen - 1) : j \in 0..(FlagLen + 2)
      /\ FlagLen \in 0..(FlagLen + 2) /\ FlagLen + 1 \in 0..(FlagLen + 2)
      /\ FlagLen + 2 \in 0..(FlagLen + 2)
  BY <1>1
<1>3. FlagAt(a, i) <=> FlagAt(b, k)
  BY <1>2, SameFlag
<1>4. /\ a[i + FlagLen] = b[k + FlagLen] /\ a[i + (FlagLen + 1)] = b[k + (FlagLen + 1)]
      /\ a[i + (FlagLen + 2)] = b[k + (FlagLen + 2)]
  BY <1>2
<1> QED
  BY <1>3, <1>4 DEF WholeAt

(***************************************************************************)
(* Bytes are dropped or zeroed at the beginning: from position c on, b is  *)
(* what a is d bytes later, and no flag of b begins before.                *)
(***************************************************************************)
IsShifted(a, b, c, d) ==
    Len(a) = Len(b) + d /\ \A i \in (c + 1)..Len(b) : b[i] = a[i + d]
NoFlagUpTo(b, c) ==
    /\ \A i \in 1..Len(b) : FlagAt(b, i) => i > c
    /\ c > 0 => c <= Len(b) /\ b[c] = 0

\* Flags and frames are where they were, d bytes earlier.
LEMMA ShiftedAt ==
    ASSUME NEW a \in Seq(Nat), NEW b \in Seq(Nat), NEW c \in Nat, NEW d \in Nat,
           IsShifted(a, b, c, d),
           NEW i \in (c + 1)..Len(b)
    PROVE  /\ i + d \in 1..Len(a) /\ b[i] = a[i + d]
           /\ FlagAt(b, i) <=> FlagAt(a, i + d)
           /\ \A m : WholeAt(b, i, m) <=> WholeAt(a, i + d, m)
<1>0. Len(a) = Len(b) + d /\ \A k \in (c + 1)..Len(b) : b[k] = a[k + d]
  BY DEF IsShifted
<1>1. /\ FlagLen \in Nat /\ FlagLen > 1 /\ Len(a) \in Nat /\ Len(b) \in Nat /\ i \in Nat
      /\ i + d \in Nat /\ Len(a) = Len(b) + d
  BY <1>0, FlagLenAssumption
<1>2. i + d \in 1..Len(a) /\ b[i] = a[i + d]
  BY <1>0, <1>1, SMTT(30)
<1>3. FlagAt(b, i) <=> FlagAt(a, i + d)
  <2>1. CASE i + FlagLen <= Len(b) + 1
    <3>1. (i + d) + FlagLen <= Len(a) + 1
      BY <1>1, <2>1
    <3>2. ASSUME NEW j \in 0..(FlagLen - 1) PROVE b[i + j] = a[(i + d) + j]
      <4>1. i + j \in (c + 1)..Len(b) /\ (i + j) + d = (i + d) + j
        BY <1>1, <2>1
      <4> QED
        BY <1>0, <4>1
    <3> QED
      BY <1>1, <2>1, <3>1, <3>2, SameFlag
  <2>2. CASE ~(i + FlagLen <= Len(b) + 1)
    <3>1. ~((i + d) + FlagLen <= Len(a) + 1)
      BY <1>1, <2>2
    <3> QED
      BY <2>2, <3>1 DEF FlagAt
  <2> QED
    BY <2>1, <2>2
<1>4. ASSUME NEW m PROVE WholeAt(b, i, m) <=> WholeAt(a, i + d, m)
  <2>1. CASE i + FlagLen + 2 <= Len(b)
    <3>1. (i + d) + FlagLen + 2 <= Len(a)
      BY <1>1, <2>1
    <3>2. ASSUME NEW j \in 0..(FlagLen + 2) PROVE b[i + j] = a[(i + d) + j]
      <4>1. i + j \in (c + 1)..Len(b) /\ (i + j) + d = (i + d) + j
        BY <1>1, <2>1
      <4> QED
        BY <1>0, <4>1
    <3> QED
      BY <1>1, <2>1, <3>1, <3>2, SameFrame
  <2>2. CASE ~(i + FlagLen + 2 <= Len(b))
    <3>1. ~((i + d) + FlagLen + 2 <= Len(a))
      BY <1>1, <2>2
    <3> QED
      BY <2>2, <3>1 DEF WholeAt
  <2> QED
    BY <2>1, <2>2
<1> QED
  BY <1>2, <1>3, <1>4

\* So the bytes left satisfy what all of them did.
LEMMA Shifted ==
    ASSUME NEW a \in Seq(Nat), NEW b \in Seq(Nat), NEW c \in Nat, NEW d \in Nat,
           IsShifted(a, b, c, d),
           NoFlagUpTo(b, c),
           NEW n \in Nat, NEW t \in Nat, NEW R, InStream(a, n, t, R)
    PROVE  InStream(b, n, t, R)
<1>0. \A i \in (c + 1)..Len(b) : b[i] = a[i + d]
  BY DEF IsShifted
<1>1. /\ FlagLen \in Nat /\ FlagLen > 1 /\ Len(a) \in Nat /\ Len(b) \in Nat
      /\ Len(a) = Len(b) + d
  BY FlagLenAssumption DEF IsShifted
<1>2. FlagsAreFrames(a, n, R) /\ FramesAscend(a) /\ StrayEnd(a, t)
  BY DEF InStream
<1>3. ASSUME NEW i \in 1..Len(b), FlagAt(b, i)
      PROVE  i \in (c + 1)..Len(b)
  BY <1>1, <1>3 DEF NoFlagUpTo
<1>4. FlagsAreFrames(b, n, R)
  <2> SUFFICES ASSUME NEW i \in 1..Len(b), FlagAt(b, i)
               PROVE  \E m \in 1..n : WholeAt(b, i, m) /\ \A r \in R : r < m
    BY DEF FlagsAreFrames
  <2>1. /\ i + d \in 1..Len(a) /\ FlagAt(a, i + d)
        /\ \A m : WholeAt(b, i, m) <=> WholeAt(a, i + d, m)
    BY <1>3, ShiftedAt
  <2>2. \E m \in 1..n : WholeAt(a, i + d, m) /\ \A r \in R : r < m
    BY <1>2, <2>1 DEF FlagsAreFrames
  <2> QED
    BY <2>1, <2>2
<1>5. FramesAscend(b)
  <2> SUFFICES ASSUME NEW i \in 1..Len(b), NEW k \in 1..Len(b), i < k, FlagAt(b, i), FlagAt(b, k)
               PROVE  b[i + FlagLen] < b[k + FlagLen]
    BY DEF FramesAscend
  <2>0. i \in (c + 1)..Len(b) /\ k \in (c + 1)..Len(b)
    BY <1>3
  <2>1. /\ i + d \in 1..Len(a) /\ FlagAt(a, i + d) /\ k + d \in 1..Len(a) /\ FlagAt(a, k + d)
        /\ i + d < k + d
    <3>1. i + d \in 1..Len(a) /\ FlagAt(a, i + d)
      BY <2>0, ShiftedAt
    <3>2. k + d \in 1..Len(a) /\ FlagAt(a, k + d)
      BY <2>0, ShiftedAt
    <3>3. i + d < k + d
      BY <2>0
    <3> QED
      BY <3>1, <3>2, <3>3
  <2>2. a[(i + d) + FlagLen] < a[(k + d) + FlagLen]
    BY <1>2, <2>1 DEF FramesAscend
  <2>3. PICK m : WholeAt(a, k + d, m)
    BY <1>2, <2>1 DEF FlagsAreFrames
  <2>4. (k + d) + FlagLen + 2 <= Len(a)
    BY <2>3 DEF WholeAt
  <2>5. /\ i + FlagLen \in (c + 1)..Len(b) /\ (i + FlagLen) + d = (i + d) + FlagLen
        /\ k + FlagLen \in (c + 1)..Len(b) /\ (k + FlagLen) + d = (k + d) + FlagLen
    <3>1. k + FlagLen \in (c + 1)..Len(b) /\ (k + FlagLen) + d = (k + d) + FlagLen
      <4>1. ASSUME NEW x \in Nat, NEW f \in Nat, NEW l \in Nat, x >= c + 1,
                   (x + d) + f + 2 <= l + d
            PROVE  x + f \in (c + 1)..l /\ (x + f) + d = (x + d) + f
        BY <4>1
      <4>2. k \in Nat /\ k >= c + 1 /\ (k + d) + FlagLen + 2 <= Len(b) + d
        BY <1>1, <2>0, <2>4
      <4> QED
        BY <1>1, <4>1, <4>2
    <3>2. i + FlagLen < k + FlagLen /\ i + FlagLen >= c + 1 /\ i + FlagLen \in Nat
      BY <1>1, <2>0
    <3>3. i + FlagLen \in (c + 1)..Len(b) /\ (i + FlagLen) + d = (i + d) + FlagLen
      BY <1>1, <2>0, <3>1, <3>2
    <3> QED
      BY <3>1, <3>3
  <2> QED
    BY <1>0, <2>2, <2>5
<1>6. StrayEnd(b, t)
  <2> SUFFICES ASSUME NEW i \in 1..Len(b), \A l \in i..Len(b) : b[l] \in 1..FlagLen
               PROVE  Len(b) - i + 1 <= t
    BY DEF StrayEnd
  <2>1. i \in (c + 1)..Len(b)
    <3>1. CASE i <= c
      <4>1. c \in i..Len(b) /\ b[c] = 0
        BY <1>1, <3>1 DEF NoFlagUpTo
      <4> QED
        BY <1>1, <4>1, SMTT(30)
    <3> QED
      BY <1>1, <3>1
  <2>2. ASSUME NEW l \in (i + d)..Len(a) PROVE a[l] \in 1..FlagLen
    <3>1. l - d \in i..Len(b) /\ l - d \in (c + 1)..Len(b) /\ (l - d) + d = l
      BY <1>1, <2>1
    <3> QED
      BY <1>0, <3>1
  <2>3. i + d \in 1..Len(a) /\ Len(a) - (i + d) + 1 = Len(b) - i + 1
    BY <1>1
  <2> QED
    BY <1>2, <2>2, <2>3 DEF StrayEnd
<1> QED
  BY <1>4, <1>5, <1>6 DEF InStream

\* The bytes of a frame.
IsFrame(f, m) ==
    /\ f \in Seq(Nat) /\ Len(f) = FlagLen + 3
    /\ \A j \in 0..(FlagLen - 1) : f[1 + j] = j + 1
    /\ f[FlagLen + 1] = Length(m) /\ f[FlagLen + 2] = Length(m) + 1
    /\ f[FlagLen + 3] = Length(m) + 2

(***************************************************************************)
(* b is a with the frame of the next message behind it.                    *)
(***************************************************************************)
FrameAdded(a, b, m) ==
    /\ Len(b) = Len(a) + FlagLen + 3 /\ \A i \in 1..Len(a) : b[i] = a[i]
    /\ \A j \in 0..(FlagLen - 1) : b[Len(a) + 1 + j] = j + 1
    /\ b[Len(a) + 1 + FlagLen] = Length(m)
    /\ b[Len(a) + 1 + (FlagLen + 1)] = Length(m) + 1
    /\ b[Len(a) + 1 + (FlagLen + 2)] = Length(m) + 2

\* What a held is still there.
LEMMA KeptAt ==
    ASSUME NEW a \in Seq(Nat), NEW b \in Seq(Nat), Len(b) >= Len(a),
           \A i \in 1..Len(a) : b[i] = a[i], NEW i \in 1..Len(a)
    PROVE  /\ i + FlagLen <= Len(a) + 1 => (FlagAt(b, i) <=> FlagAt(a, i))
           /\ \A m : WholeAt(a, i, m) => WholeAt(b, i, m)
<1>1. /\ FlagLen \in Nat /\ FlagLen > 1 /\ Len(a) \in Nat /\ Len(b) \in Nat /\ i \in Nat
  BY FlagLenAssumption
<1>2. ASSUME i + FlagLen <= Len(a) + 1 PROVE FlagAt(b, i) <=> FlagAt(a, i)
  <2>1. \A j \in 0..(FlagLen - 1) : b[i + j] = a[i + j]
    <3>1. \A j \in 0..(FlagLen - 1) : i + j \in 1..Len(a)
      BY <1>1, <1>2
    <3> QED
      BY <3>1
  <2>2. i + FlagLen <= Len(b) + 1
    BY <1>1, <1>2
  <2> QED
    BY <1>1, <1>2, <2>1, <2>2, SameFlag
<1>3. ASSUME NEW m, WholeAt(a, i, m) PROVE WholeAt(b, i, m)
  <2>1. i + FlagLen + 2 <= Len(a)
    BY <1>3 DEF WholeAt
  <2>2. \A j \in 0..(FlagLen + 2) : a[i + j] = b[i + j]
    <3>1. \A j \in 0..(FlagLen + 2) : i + j \in 1..Len(a)
      BY <1>1, <2>1
    <3> QED
      BY <3>1
  <2>3. i + FlagLen + 2 <= Len(b)
    BY <1>1, <2>1
  <2> QED
    BY <1>1, <1>3, <2>1, <2>2, <2>3, SameFrame
<1> QED
  BY <1>2, <1>3

(***************************************************************************)
(* The flags are the old ones and the new frame's: none begins in what was *)
(* there and ends in the new frame, or inside the new frame.               *)
(***************************************************************************)
LEMMA FlagsWithFrame ==
    ASSUME NEW a \in Seq(Nat), NEW b \in Seq(Nat), NEW m \in Nat, FrameAdded(a, b, m),
           NEW i \in 1..Len(b), FlagAt(b, i)
    PROVE  i = Len(a) + 1 \/ (i \in 1..Len(a) /\ FlagAt(a, i))
<1> PICK e \in Nat : e = Len(a) + 1
  OBVIOUS
<1>1. /\ FlagLen \in Nat /\ FlagLen > 1 /\ Len(a) \in Nat /\ Len(b) \in Nat /\ i \in Nat
      /\ Len(b) = Len(a) + FlagLen + 3
  BY FlagLenAssumption DEF FrameAdded
<1>2. \A j \in 0..(FlagLen - 1) : b[i + j] = j + 1
  BY DEF FlagAt
<1>3. /\ \A j \in 0..(FlagLen - 1) : b[e + j] = j + 1
      /\ b[e + FlagLen] = Length(m) /\ b[e + (FlagLen + 1)] = Length(m) + 1
      /\ b[e + (FlagLen + 2)] = Length(m) + 2
  BY DEF FrameAdded
<1>4. Length(m) \in Nat /\ Length(m) >= FlagLen
  BY <1>1 DEF Length
<1>5. CASE i + FlagLen <= Len(a) + 1
  <2>1. i \in 1..Len(a)
    BY <1>1, <1>5
  <2>2. Len(b) >= Len(a) /\ \A k \in 1..Len(a) : b[k] = a[k]
    BY <1>1, SMTT(30) DEF FrameAdded
  <2>3. FlagAt(b, i) <=> FlagAt(a, i)
    BY <1>5, <2>1, <2>2, KeptAt
  <2> QED
    BY <2>1, <2>3
<1>6. CASE i < e /\ e < i + FlagLen
  <2>1. e - i \in 0..(FlagLen - 1) /\ i + (e - i) = e /\ 0 \in 0..(FlagLen - 1) /\ e + 0 = e
    BY <1>1, <1>6, SMTT(30)
  <2>2. b[i + (e - i)] = (e - i) + 1 /\ b[e + 0] = 0 + 1
    BY <1>2, <1>3, <2>1
  <2>3. (e - i) + 1 = 0 + 1
    BY <2>1, <2>2
  <2> QED
    BY <1>1, <1>6, <2>3
<1>7. CASE i > e
  <2>1. 0 \in 0..(FlagLen - 1) /\ i + 0 = i
    BY <1>1
  <2>2. b[i] = 1
    BY <1>2, <2>1
  <2>3. PICK k \in Nat : k = i - e /\ k > 0 /\ e + k = i
    <3>1. i - e \in Nat /\ i - e > 0 /\ e + (i - e) = i
      BY <1>1, <1>7
    <3> QED
      BY <3>1
  <2>4. k <= FlagLen + 2
    BY <1>1, <2>3
  <2>5. CASE k < FlagLen
    <3>1. k \in 0..(FlagLen - 1)
      BY <1>1, <2>3, <2>5
    <3>2. b[i] = k + 1
      BY <1>3, <2>3, <3>1
    <3> QED
      BY <2>2, <2>3, <3>2
  <2>6. CASE k >= FlagLen
    <3>1. k = FlagLen \/ k = FlagLen + 1 \/ k = FlagLen + 2
      <4>1. ASSUME NEW x \in Nat, NEW y \in Nat, x >= y, x <= y + 2
            PROVE  x = y \/ x = y + 1 \/ x = y + 2
        BY <4>1
      <4> QED
        BY <1>1, <2>4, <2>6, <4>1
    <3>2. b[i] \in {Length(m), Length(m) + 1, Length(m) + 2}
      BY <1>3, <2>3, <3>1
    <3> QED
      BY <1>1, <1>4, <2>2, <3>2, SMTT(30)
  <2> QED
    BY <1>1, <2>3, <2>5, <2>6
<1> QED
  BY <1>1, <1>5, <1>6, <1>7

\* The frame of the next message keeps the invariant.
LEMMA AddFrame ==
    ASSUME NEW a \in Seq(Nat), NEW b \in Seq(Nat), NEW n \in Nat, FrameAdded(a, b, n + 1),
           NEW t \in Nat, NEW R, R \subseteq 1..n, InStream(a, n, t, R)
    PROVE  InStream(b, n + 1, t, R) /\ (AllThere(a, n, R) => AllThere(b, n + 1, R))
<1> PICK e \in Nat : e = Len(a) + 1
  OBVIOUS
<1>1. /\ FlagLen \in Nat /\ FlagLen > 1 /\ Len(a) \in Nat /\ Len(b) \in Nat
      /\ Len(b) = Len(a) + FlagLen + 3 /\ e \in 1..Len(b) /\ n + 1 \in Nat
  BY FlagLenAssumption, SMTT(30) DEF FrameAdded
<1>2. FlagsAreFrames(a, n, R) /\ FramesAscend(a) /\ StrayEnd(a, t)
  BY DEF InStream
<1>3. WholeAt(b, e, n + 1)
  BY <1>1 DEF WholeAt, FlagAt, FrameAdded
<1>4. /\ \A i \in 1..Len(a) : \A m : WholeAt(a, i, m) => WholeAt(b, i, m)
      /\ \A i \in 1..Len(a) : i \in 1..Len(b)
  <2>1. Len(b) >= Len(a) /\ \A k \in 1..Len(a) : b[k] = a[k]
    BY <1>1, SMTT(30) DEF FrameAdded
  <2>2. ASSUME NEW i \in 1..Len(a) PROVE i \in 1..Len(b)
    BY <1>1
  <2>3. ASSUME NEW i \in 1..Len(a), NEW m, WholeAt(a, i, m) PROVE WholeAt(b, i, m)
    BY <2>1, <2>3, KeptAt
  <2> QED
    BY <2>2, <2>3
<1>5. ASSUME NEW i \in 1..Len(a), FlagAt(a, i)
      PROVE  \E m \in 1..n : WholeAt(b, i, m) /\ (\A r \in R : r < m)
  BY <1>2, <1>4, <1>5 DEF FlagsAreFrames
<1>6. \A m \in 1..n : m \in 1..(n + 1) /\ m < n + 1
  OBVIOUS
<1>7. n + 1 \in 1..(n + 1)
  OBVIOUS
<1>8. FlagsAreFrames(b, n + 1, R)
  <2> SUFFICES ASSUME NEW i \in 1..Len(b), FlagAt(b, i)
               PROVE  \E m \in 1..(n + 1) : WholeAt(b, i, m) /\ \A r \in R : r < m
    BY DEF FlagsAreFrames
  <2>1. CASE i = e
    BY <1>3, <1>6, <1>7, <2>1
  <2>2. CASE i \in 1..Len(a) /\ FlagAt(a, i)
    BY <1>5, <1>6, <2>2
  <2> QED
    BY <1>1, <2>1, <2>2, FlagsWithFrame
<1>9. FramesAscend(b)
  <2> SUFFICES ASSUME NEW i \in 1..Len(b), NEW k \in 1..Len(b), i < k, FlagAt(b, i), FlagAt(b, k)
               PROVE  b[i + FlagLen] < b[k + FlagLen]
    BY DEF FramesAscend
  <2>1. i = e \/ (i \in 1..Len(a) /\ FlagAt(a, i))
    BY <1>1, FlagsWithFrame
  <2>2. k = e \/ (k \in 1..Len(a) /\ FlagAt(a, k))
    BY <1>1, FlagsWithFrame
  <2>3. i \in 1..Len(a) /\ FlagAt(a, i)
    BY <1>1, <2>1, <2>2
  <2>4. PICK m \in 1..n : WholeAt(a, i, m)
    BY <1>2, <2>3 DEF FlagsAreFrames
  <2>5. b[i + FlagLen] = a[i + FlagLen] /\ a[i + FlagLen] = Length(m)
    <3>1. a[i + FlagLen] = Length(m) /\ i + FlagLen + 2 <= Len(a)
      BY <2>4 DEF WholeAt
    <3>2. i + FlagLen \in 1..Len(a)
      BY <1>1, <3>1
    <3> QED
      BY <3>1, <3>2 DEF FrameAdded
  <2>6. CASE k = e
    <3>1. b[k + FlagLen] = Length(n + 1)
      BY <1>3, <2>6 DEF WholeAt
    <3>2. Length(m) < Length(n + 1)
      BY <1>1 DEF Length
    <3> QED
      BY <2>5, <3>1, <3>2
  <2>7. CASE k \in 1..Len(a) /\ FlagAt(a, k)
    <3>1. a[i + FlagLen] < a[k + FlagLen]
      BY <1>2, <2>3, <2>7 DEF FramesAscend
    <3>2. \E mm \in 1..n : WholeAt(a, k, mm)
      BY <1>2, <2>7 DEF FlagsAreFrames
    <3>3. k + FlagLen + 2 <= Len(a)
      BY <3>2 DEF WholeAt
    <3>4. k + FlagLen \in 1..Len(a)
      BY <1>1, <3>3
    <3> QED
      BY <2>5, <3>1, <3>4 DEF FrameAdded
  <2> QED
    BY <2>2, <2>6, <2>7
<1>10. StrayEnd(b, t)
  <2>1. e + (FlagLen + 2) = Len(b) /\ Length(n + 1) \in Nat /\ Length(n + 1) >= FlagLen
    BY <1>1 DEF Length
  <2>2. b[Len(b)] = Length(n + 1) + 2
    BY <1>3, <2>1 DEF WholeAt
  <2>3. b[Len(b)] \notin 1..FlagLen
    BY <1>1, <2>1, <2>2
  <2>4. \A i \in 1..Len(b) : Len(b) \in i..Len(b)
    BY <1>1
  <2> QED
    BY <2>3, <2>4 DEF StrayEnd
<1>11. AllThere(a, n, R) => AllThere(b, n + 1, R)
  <2> SUFFICES ASSUME AllThere(a, n, R), NEW m \in 1..(n + 1)
               PROVE  m \in R \/ \E i \in 1..Len(b) : WholeAt(b, i, m)
    BY DEF AllThere
  <2>1. CASE m = n + 1
    BY <1>1, <1>3, <2>1
  <2>2. CASE m \in 1..n
    BY <1>4, <2>2 DEF AllThere
  <2> QED
    BY <2>1, <2>2
<1> QED
  BY <1>8, <1>9, <1>10, <1>11 DEF InStream

(***************************************************************************)
(* A stray byte completes no flag: there are too few of them.              *)
(***************************************************************************)
LEMMA AddByte ==
    ASSUME NEW a \in Seq(Nat), NEW x \in Nat, NEW b, b = Append(a, x), NEW n \in Nat, NEW t \in Nat,
           t + 1 < FlagLen, NEW R, InStream(a, n, t, R)
    PROVE  InStream(b, n, t + 1, R) /\ (AllThere(a, n, R) => AllThere(b, n, R))
<1>1. /\ FlagLen \in Nat /\ FlagLen > 1 /\ Len(a) \in Nat /\ Len(b) = Len(a) + 1
      /\ b \in Seq(Nat) /\ Len(b) >= Len(a) /\ \A k \in 1..Len(a) : b[k] = a[k]
  BY FlagLenAssumption
<1>2. FlagsAreFrames(a, n, R) /\ FramesAscend(a) /\ StrayEnd(a, t)
  BY DEF InStream
<1>3. /\ \A i \in 1..Len(a) : \A m : WholeAt(a, i, m) => WholeAt(b, i, m)
      /\ \A i \in 1..Len(a) : i \in 1..Len(b)
  <2>1. ASSUME NEW i \in 1..Len(a) PROVE i \in 1..Len(b)
    BY <1>1
  <2>2. ASSUME NEW i \in 1..Len(a), NEW m, WholeAt(a, i, m) PROVE WholeAt(b, i, m)
    BY <1>1, <2>2, KeptAt
  <2> QED
    BY <2>1, <2>2
<1>4. ASSUME NEW i \in 1..Len(b), FlagAt(b, i)
      PROVE  i \in 1..Len(a) /\ FlagAt(a, i)
  <2>1. i + FlagLen <= Len(b) + 1 /\ \A j \in 0..(FlagLen - 1) : b[i + j] = j + 1
    BY <1>4 DEF FlagAt
  <2>2. i \in 1..Len(a)
    BY <1>1, <2>1
  <2>3. CASE i + FlagLen <= Len(a) + 1
    BY <1>1, <1>4, <2>2, <2>3, KeptAt
  <2>4. CASE i + FlagLen = Len(a) + 2
    <3>1. ASSUME NEW l \in i..Len(a) PROVE a[l] \in 1..FlagLen
      <4>1. l \in 1..Len(a) /\ l - i \in 0..(FlagLen - 1) /\ i + (l - i) = l
        BY <1>1, <2>2, <2>4
      <4>2. a[l] = (l - i) + 1
        BY <1>1, <2>1, <4>1
      <4> QED
        BY <1>1, <4>1, <4>2
    <3>2. Len(a) - i + 1 <= t
      BY <1>2, <2>2, <3>1 DEF StrayEnd
    <3> QED
      BY <1>1, <2>4, <3>2
  <2>5. i + FlagLen <= Len(a) + 1 \/ i + FlagLen = Len(a) + 2
    <3>1. i + FlagLen \in Nat /\ i + FlagLen <= (Len(a) + 1) + 1
      BY <1>1, <2>1, <2>2
    <3> QED
      BY <1>1, <3>1, SMTT(30)
  <2> QED
    BY <2>3, <2>4, <2>5
<1>5. FlagsAreFrames(b, n, R)
  <2> SUFFICES ASSUME NEW i \in 1..Len(b), FlagAt(b, i)
               PROVE  \E m \in 1..n : WholeAt(b, i, m) /\ \A r \in R : r < m
    BY DEF FlagsAreFrames
  <2>1. i \in 1..Len(a) /\ FlagAt(a, i)
    BY <1>4
  <2> QED
    BY <1>2, <1>3, <2>1 DEF FlagsAreFrames
<1>6. FramesAscend(b)
  <2> SUFFICES ASSUME NEW i \in 1..Len(b), NEW k \in 1..Len(b), i < k, FlagAt(b, i), FlagAt(b, k)
               PROVE  b[i + FlagLen] < b[k + FlagLen]
    BY DEF FramesAscend
  <2>1. i \in 1..Len(a) /\ FlagAt(a, i) /\ k \in 1..Len(a) /\ FlagAt(a, k)
    BY <1>4
  <2>2. a[i + FlagLen] < a[k + FlagLen]
    BY <1>2, <2>1 DEF FramesAscend
  <2>3. (\E m \in 1..n : WholeAt(a, i, m)) /\ (\E m \in 1..n : WholeAt(a, k, m))
    BY <1>2, <2>1 DEF FlagsAreFrames
  <2>4. i + FlagLen + 2 <= Len(a) /\ k + FlagLen + 2 <= Len(a)
    BY <2>3 DEF WholeAt
  <2>5. i + FlagLen \in 1..Len(a) /\ k + FlagLen \in 1..Len(a)
    BY <1>1, <2>1, <2>4, SMTT(30)
  <2> QED
    BY <1>1, <2>2, <2>5
<1>7. StrayEnd(b, t + 1)
  <2> SUFFICES ASSUME NEW i \in 1..Len(b), \A l \in i..Len(b) : b[l] \in 1..FlagLen
               PROVE  Len(b) - i + 1 <= t + 1
    BY DEF StrayEnd
  <2>1. CASE i = Len(a) + 1
    BY <1>1, <2>1
  <2>2. CASE i \in 1..Len(a)
    <3>1. ASSUME NEW l \in i..Len(a) PROVE a[l] \in 1..FlagLen
      <4>1. l \in i..Len(b) /\ l \in 1..Len(a)
        BY <1>1, <2>2
      <4> QED
        BY <1>1, <4>1
    <3>2. Len(a) - i + 1 <= t
      BY <1>2, <2>2, <3>1 DEF StrayEnd
    <3> QED
      BY <1>1, <2>2, <3>2
  <2> QED
    BY <1>1, <2>1, <2>2
<1>8. AllThere(a, n, R) => AllThere(b, n, R)
  BY <1>3 DEF AllThere
<1> QED
  BY <1>5, <1>6, <1>7, <1>8 DEF InStream

(***************************************************************************)
(* The first frame is taken away and its message returned: those that      *)
(* follow are of later messages, and no other frame began inside it.       *)
(***************************************************************************)
LEMMA TakeFrame ==
    ASSUME NEW a \in Seq(Nat), NEW b \in Seq(Nat), IsShifted(a, b, 0, FlagLen + 3),
           NEW m \in Nat, WholeAt(a, 1, m),
           NEW n \in Nat, NEW t \in Nat, NEW R, InStream(a, n, t, R)
    PROVE  /\ InStream(b, n, t, R \cup {m})
           /\ AllThere(a, n, R) => AllThere(b, n, R \cup {m})
<1> PICK d \in Nat : d = FlagLen + 3
  BY FlagLenAssumption
<1>1. /\ FlagLen \in Nat /\ FlagLen > 1 /\ Len(a) \in Nat /\ Len(b) \in Nat
      /\ Len(a) = Len(b) + d /\ IsShifted(a, b, 0, d) /\ \A i \in 1..Len(b) : i > 0
  <2>1. FlagLen \in Nat /\ FlagLen > 1 /\ Len(a) \in Nat /\ Len(b) \in Nat
    BY FlagLenAssumption
  <2>2. IsShifted(a, b, 0, d)
    OBVIOUS
  <2>3. Len(a) = Len(b) + d
    BY <2>2 DEF IsShifted
  <2>4. \A i \in 1..Len(b) : i > 0
    BY <2>1
  <2> QED
    BY <2>1, <2>2, <2>3, <2>4
<1>2. FlagsAreFrames(a, n, R) /\ FramesAscend(a) /\ StrayEnd(a, t)
  BY DEF InStream
<1>3. InStream(b, n, t, R)
  <2>1. NoFlagUpTo(b, 0)
    BY <1>1 DEF NoFlagUpTo
  <2> QED
    BY <1>1, <2>1, Shifted
<1>4. /\ FlagAt(a, 1) /\ 1 \in 1..Len(a) /\ a[1 + FlagLen] = Length(m)
      /\ a[1 + (FlagLen + 1)] = Length(m) + 1 /\ a[1 + (FlagLen + 2)] = Length(m) + 2
  BY <1>1 DEF WholeAt
<1>5. ASSUME NEW i \in 1..Len(b)
      PROVE  /\ i + d \in 1..Len(a)
             /\ FlagAt(b, i) <=> FlagAt(a, i + d)
             /\ \A k : WholeAt(b, i, k) <=> WholeAt(a, i + d, k)
  <2>1. i \in (0 + 1)..Len(b)
    BY <1>1
  <2> QED
    BY <1>1, <2>1, ShiftedAt, SMTT(30)
<1>6. ASSUME NEW i \in 1..Len(a), NEW k \in 1..n, i > 1, FlagAt(a, i), WholeAt(a, i, k)
      PROVE  m < k
  <2>1. a[1 + FlagLen] < a[i + FlagLen]
    BY <1>2, <1>4, <1>6 DEF FramesAscend
  <2>2. Length(m) < Length(k)
    BY <1>4, <1>6, <2>1 DEF WholeAt
  <2> QED
    BY <1>1, <2>2 DEF Length
<1>7. FlagsAreFrames(b, n, R \cup {m})
  <2> SUFFICES ASSUME NEW i \in 1..Len(b), FlagAt(b, i)
               PROVE  \E k \in 1..n : WholeAt(b, i, k) /\ \A r \in R \cup {m} : r < k
    BY DEF FlagsAreFrames
  <2>1. PICK k \in 1..n : WholeAt(b, i, k) /\ \A r \in R : r < k
    BY <1>3 DEF InStream, FlagsAreFrames
  <2>2. i + d \in 1..Len(a) /\ FlagAt(a, i + d) /\ WholeAt(a, i + d, k) /\ i + d > 1
    BY <1>1, <1>5, <2>1
  <2>3. m < k
    BY <1>6, <2>2
  <2> QED
    BY <2>1, <2>3
<1>8. ASSUME AllThere(a, n, R), NEW k \in 1..n
      PROVE  k \in R \cup {m} \/ \E i \in 1..Len(b) : WholeAt(b, i, k)
  <2> SUFFICES ASSUME k \notin R \cup {m} PROVE \E i \in 1..Len(b) : WholeAt(b, i, k)
    OBVIOUS
  <2>1. PICK p \in 1..Len(a) : WholeAt(a, p, k)
    BY <1>8 DEF AllThere
  <2>2. p # 1
    BY <1>1, <1>4, <2>1 DEF WholeAt, Length
  <2>3. a[p] = 1
    <3>1. FlagAt(a, p)
      BY <2>1 DEF WholeAt
    <3> QED
      BY <1>1, <3>1, FlagBegins
  <2>4. ~(p <= FlagLen)
    <3> SUFFICES ASSUME p <= FlagLen PROVE FALSE
      OBVIOUS
    <3>1. p - 1 \in 0..(FlagLen - 1) /\ 1 + (p - 1) = p /\ (p - 1) + 1 = p
      BY <1>1, <2>2
    <3>2. a[p] = p
      BY <1>4, <3>1 DEF FlagAt
    <3> QED
      BY <2>2, <2>3, <3>2
  <2>5. p > d
    <3>1. Length(m) \in Nat /\ Length(m) > 0 /\ (m > 0 => Length(m) > 1)
      BY <1>1 DEF Length
    <3>2. p # 1 + FlagLen
      BY <1>1, <1>4, <2>3, <3>1 DEF Length
    <3>3. p # 1 + (FlagLen + 1) /\ p # 1 + (FlagLen + 2)
      <4>1. Length(m) + 1 # 1 /\ Length(m) + 2 # 1
        BY <3>1, SMTT(30)
      <4>2. a[1 + (FlagLen + 1)] # 1 /\ a[1 + (FlagLen + 2)] # 1
        BY <1>4, <4>1
      <4> QED
        BY <2>3, <4>2, Zenon
    <3>4. ASSUME NEW x \in Nat, NEW f \in Nat, ~(x <= f), x # 1 + f, x # 1 + (f + 1), x # 1 + (f + 2)
          PROVE  x > f + 3
      BY <3>4
    <3>5. p > FlagLen + 3
      BY <1>1, <2>4, <3>2, <3>3, <3>4
    <3> QED
      BY <3>5
  <2>6. p - d \in 1..Len(b) /\ (p - d) + d = p
    BY <1>1, <2>5
  <2>7. WholeAt(b, p - d, k)
    BY <1>5, <2>1, <2>6
  <2> QED
    BY <2>6, <2>7
<1> QED
  BY <1>3, <1>7, <1>8 DEF InStream, AllThere

(***************************************************************************)
(* After a partial match the first k bytes are skipped: no frame begins    *)
(* among them.                                                             *)
(***************************************************************************)
LEMMA SkipBytes ==
    ASSUME NEW a \in Seq(Nat), NEW b \in Seq(Nat), NEW k \in 1..FlagLen, IsShifted(a, b, 0, k),
           \A i \in 1..(k - 1) : a[i] = i, a[k] # k, a[k] # 1,
           NEW n \in Nat, NEW R, AllThere(a, n, R)
    PROVE  AllThere(b, n, R)
<1>1. /\ FlagLen \in Nat /\ FlagLen > 1 /\ Len(a) \in Nat /\ Len(b) \in Nat /\ k \in Nat
      /\ Len(a) = Len(b) + k
  BY FlagLenAssumption DEF IsShifted
<1> SUFFICES ASSUME NEW m \in 1..n, m \notin R
             PROVE  \E i \in 1..Len(b) : WholeAt(b, i, m)
  BY DEF AllThere
<1>2. PICK p \in 1..Len(a) : WholeAt(a, p, m)
  BY DEF AllThere
<1>3. /\ a[p] = 1 /\ \A j \in 0..(FlagLen - 1) : a[p + j] = j + 1
  <2>1. FlagAt(a, p)
    BY <1>2 DEF WholeAt
  <2> QED
    BY <1>1, <2>1, FlagBegins, SMTT(30)
<1>4. p > k
  <2> SUFFICES ASSUME p <= k PROVE FALSE
    BY <1>1
  <2>1. CASE p = 1
    <3>1. k - 1 \in 0..(FlagLen - 1) /\ p + (k - 1) = k /\ (k - 1) + 1 = k
      BY <1>1, <2>1
    <3> QED
      BY <1>3, <3>1
  <2>2. CASE p # 1 /\ p < k
    <3>1. p \in 1..(k - 1)
      BY <1>1, <2>2
    <3> QED
      BY <1>3, <2>2, <3>1
  <2>3. CASE p = k
    BY <1>3, <2>3
  <2> QED
    BY <1>1, <2>1, <2>2, <2>3
<1>5. p - k \in 1..Len(b) /\ p - k \in (0 + 1)..Len(b) /\ (p - k) + k = p
  BY <1>1, <1>4
<1>6. \A x : WholeAt(b, p - k, x) <=> WholeAt(a, (p - k) + k, x)
  BY <1>1, <1>5, ShiftedAt
<1> QED
  BY <1>2, <1>5, <1>6

(***************************************************************************)
(* What tcpWriter writes.                                                  *)
(***************************************************************************)
LEMMA FlagBytes ==
    FRAMEFLAG \in Seq(Nat) /\ Len(FRAMEFLAG) = FlagLen /\ \A i \in 1..FlagLen : FRAMEFLAG[i] = i
<1>1. FlagLen \in Nat
  BY FlagLenAssumption
<1>2. FRAMEFLAG \in [1..FlagLen -> Nat]
  BY <1>1 DEF FRAMEFLAG
<1>3. FRAMEFLAG \in Seq(Nat)
  BY <1>1, <1>2, SeqDef
<1>4. Len(FRAMEFLAG) = FlagLen
  <2>1. DOMAIN FRAMEFLAG = 1..FlagLen
    BY <1>2
  <2>2. Len(FRAMEFLAG) \in Nat /\ DOMAIN FRAMEFLAG = 1..Len(FRAMEFLAG)
    BY <1>3
  <2> QED
    BY <1>1, <2>1, <2>2
<1> QED
  BY <1>3, <1>4 DEF FRAMEFLAG

\* Its bytes, one by one.
LEMMA FramedBytes == ASSUME NEW m \in Nat PROVE IsFrame(Framed(m), m)
<1>1. FlagLen \in Nat /\ FlagLen > 1 /\ Length(m) \in Nat
  BY FlagLenAssumption DEF Length
<1> PICK l : l = Length(m)
  OBVIOUS
<1> PICK c : c = FRAMEFLAG
  OBVIOUS
<1>2. /\ c \in Seq(Nat) /\ Len(c) = FlagLen /\ l \in Nat
      /\ \A i \in 1..FlagLen : c[i] = i
  BY <1>1, FlagBytes
<1>3. PICK u : u = c \o <<l>>
  OBVIOUS
<1>4. /\ u \in Seq(Nat) /\ Len(u) = FlagLen + 1 /\ u[FlagLen + 1] = l
      /\ \A i \in 1..FlagLen : u[i] = c[i]
  BY <1>1, <1>2, <1>3
<1>5. PICK v : v = u \o <<l + 1, l + 2>>
  OBVIOUS
<1>6. /\ v \in Seq(Nat) /\ Len(v) = FlagLen + 3
      /\ v[FlagLen + 2] = l + 1 /\ v[FlagLen + 3] = l + 2
      /\ \A i \in 1..(FlagLen + 1) : v[i] = u[i]
  BY <1>1, <1>2, <1>4, <1>5, SMTT(30)
<1>7. v = Framed(m)
  BY <1>3, <1>5 DEF Framed, Payload
<1>8. \A j \in 0..(FlagLen - 1) : v[1 + j] = j + 1
  <2> SUFFICES ASSUME NEW j \in 0..(FlagLen - 1) PROVE v[1 + j] = j + 1
    OBVIOUS
  <2>1. 1 + j \in 1..FlagLen /\ 1 + j \in 1..(FlagLen + 1) /\ 1 + j = j + 1
    BY <1>1
  <2> QED
    BY <1>2, <1>4, <1>6, <2>1
<1>9. FlagLen + 1 \in 1..(FlagLen + 1)
  BY <1>1
<1> QED
  BY <1>4, <1>6, <1>7, <1>8, <1>9 DEF IsFrame

\* A part of a sequence.
LEMMA Slice ==
    ASSUME NEW a \in Seq(Nat), NEW i \in Nat, NEW j \in Nat, i >= 1, j <= Len(a), i <= j + 1,
           NEW q, q = SubSeq(a, i, j)
    PROVE  /\ q \in Seq(Nat) /\ Len(q) = (j + 1) - i
           /\ \A k \in 1..((j + 1) - i) : q[k] = a[k + (i - 1)]
<1>1. \A k \in i..j : a[k] \in Nat
  <2>1. \A k \in i..j : k \in 1..Len(a)
    OBVIOUS
  <2> QED
    BY <2>1
<1>2. /\ q \in Seq(Nat) /\ Len(q) = IF i <= j THEN j - i + 1 ELSE 0
      /\ \A k \in 1..(j - i + 1) : q[k] = a[i + k - 1]
  <2>1. i \in Int /\ j \in Int
    OBVIOUS
  <2>2. /\ SubSeq(a, i, j) \in Seq(Nat) /\ Len(SubSeq(a, i, j)) = IF i <= j THEN j - i + 1 ELSE 0
        /\ \A k \in 1..(j - i + 1) : SubSeq(a, i, j)[k] = a[i + k - 1]
    BY <1>1, <2>1, SubSeqProperties
  <2> QED
    BY <2>2, Zenon
<1>3. /\ (j + 1) - i = j - i + 1 /\ (~(i <= j) => (j + 1) - i = 0)
      /\ \A k \in Int : i + k - 1 = k + (i - 1)
  OBVIOUS
<1>4. Len(q) = (j + 1) - i
  BY <1>2, <1>3
<1>5. ASSUME NEW k \in 1..((j + 1) - i) PROVE q[k] = a[k + (i - 1)]
  <2>1. k \in 1..(j - i + 1) /\ k \in Int
    BY <1>3
  <2> QED
    BY <1>2, <1>3, <2>1, Zenon
<1> QED
  BY <1>2, <1>4, <1>5, Zenon

\* Two sequences, one behind the other.
LEMMA Joined ==
    ASSUME NEW p \in Seq(Nat), NEW q \in Seq(Nat), NEW r, r = p \o q
    PROVE  /\ r \in Seq(Nat) /\ Len(r) = Len(p) + Len(q)
           /\ \A i \in 1..Len(p) : r[i] = p[i]
           /\ \A i \in 1..Len(q) : r[Len(p) + i] = q[i]
<1>1. Len(p) \in Nat /\ Len(q) \in Nat
  OBVIOUS
<1>2. /\ r \in Seq(Nat) /\ Len(r) = Len(p) + Len(q)
      /\ \A i \in 1..(Len(p) + Len(q)) : r[i] = IF i <= Len(p) THEN p[i] ELSE q[i - Len(p)]
  BY ConcatProperties
<1>3. ASSUME NEW i \in 1..Len(p) PROVE r[i] = p[i]
  <2>1. i \in 1..(Len(p) + Len(q)) /\ i <= Len(p)
    BY <1>1
  <2> QED
    BY <1>2, <2>1
<1>4. ASSUME NEW i \in 1..Len(q) PROVE r[Len(p) + i] = q[i]
  <2>1. /\ Len(p) + i \in 1..(Len(p) + Len(q)) /\ ~(Len(p) + i <= Len(p))
        /\ (Len(p) + i) - Len(p) = i
    BY <1>1
  <2> QED
    BY <1>2, <2>1
<1> QED
  BY <1>2, <1>3, <1>4

(***************************************************************************)
(* A whole frame among the bytes is what tcpWriter wrote.                  *)
(***************************************************************************)
LEMMA WholeIsFramed ==
    ASSUME NEW a \in Seq(Nat), NEW i \in 1..Len(a), NEW m \in Nat, WholeAt(a, i, m)
    PROVE  Len(a) >= i + FlagLen + 2 /\ SubSeq(a, i, i + FlagLen + 2) = Framed(m)
<1> PICK f : f = Framed(m)
  OBVIOUS
<1>1. FlagLen \in Nat /\ FlagLen > 1 /\ Len(a) \in Nat /\ i \in Nat /\ IsFrame(f, m)
  BY FlagLenAssumption, FramedBytes
<1>2. /\ i + FlagLen + 2 <= Len(a) /\ \A j \in 0..(FlagLen - 1) : a[i + j] = j + 1
      /\ a[i + FlagLen] = Length(m) /\ a[i + (FlagLen + 1)] = Length(m) + 1
      /\ a[i + (FlagLen + 2)] = Length(m) + 2
  BY DEF WholeAt, FlagAt
<1> PICK q : q = SubSeq(a, i, i + FlagLen + 2)
  OBVIOUS
<1>3. /\ q \in Seq(Nat) /\ Len(q) = FlagLen + 3
      /\ \A k \in 1..(FlagLen + 3) : q[k] = a[i + (k - 1)]
  <2> PICK j \in Nat : j = i + FlagLen + 2
    BY <1>1
  <2>1. /\ j <= Len(a) /\ i >= 1 /\ i <= j + 1 /\ (j + 1) - i = FlagLen + 3
        /\ \A k \in 1..(FlagLen + 3) : k + (i - 1) = i + (k - 1)
    BY <1>1, <1>2
  <2>2. /\ q \in Seq(Nat) /\ Len(q) = (j + 1) - i
        /\ \A k \in 1..((j + 1) - i) : q[k] = a[k + (i - 1)]
    <3>1. i \in Nat /\ i >= 1 /\ j <= Len(a) /\ i <= j + 1 /\ q = SubSeq(a, i, j)
      BY <1>1, <2>1
    <3> QED
      BY <3>1, Slice, SMTT(60)
  <2> QED
    BY <2>1, <2>2
<1>4. ASSUME NEW k \in 1..(FlagLen + 3) PROVE q[k] = f[k]
  <2>1. CASE k <= FlagLen
    <3>1. k - 1 \in 0..(FlagLen - 1) /\ 1 + (k - 1) = k
      BY <1>1, <2>1
    <3>2. q[k] = (k - 1) + 1
      BY <1>2, <1>3, <3>1
    <3>3. f[1 + (k - 1)] = (k - 1) + 1
      BY <1>1, <3>1 DEF IsFrame
    <3> QED
      BY <3>1, <3>2, <3>3
  <2>2. CASE k = FlagLen + 1
    <3>1. k - 1 = FlagLen
      BY <1>1, <2>2
    <3> QED
      BY <1>1, <1>2, <1>3, <2>2, <3>1 DEF IsFrame
  <2>3. CASE k = FlagLen + 2
    <3>1. k - 1 = FlagLen + 1
      BY <1>1, <2>3
    <3> QED
      BY <1>1, <1>2, <1>3, <2>3, <3>1 DEF IsFrame
  <2>4. CASE k = FlagLen + 3
    <3>1. k - 1 = FlagLen + 2
      BY <1>1, <2>4
    <3> QED
      BY <1>1, <1>2, <1>3, <2>4, <3>1 DEF IsFrame
  <2>5. k <= FlagLen \/ k = FlagLen + 1 \/ k = FlagLen + 2 \/ k = FlagLen + 3
    BY <1>1
  <2> QED
    BY <2>1, <2>2, <2>3, <2>4, <2>5
<1>5. q = f
  <2>1. f \in Seq(Nat) /\ Len(f) = FlagLen + 3
    BY <1>1 DEF IsFrame
  <2> QED
    BY <1>3, <1>4, <2>1, SeqEqual
<1> QED
  BY <1>1, <1>2, <1>5

\* \o is associative.
LEMMA Behind ==
    ASSUME NEW h \in Seq(Nat), NEW q \in Seq(Nat), NEW f \in Seq(Nat)
    PROVE  h \o (q \o f) = (h \o q) \o f
BY ConcatAssociative

(***************************************************************************)
(* A frame behind the bytes ahead.                                         *)
(***************************************************************************)
LEMMA FrameBehind ==
    ASSUME NEW h \in Seq(Nat), NEW q \in Seq(Nat), NEW m \in Nat
    PROVE  /\ h \o q \in Seq(Nat) /\ q \o Framed(m) \in Seq(Nat)
           /\ h \o (q \o Framed(m)) \in Seq(Nat)
           /\ FrameAdded(h \o q, h \o (q \o Framed(m)), m)
<1> PICK f, a, b : f = Framed(m) /\ a = h \o q /\ b = h \o (q \o f)
  OBVIOUS
<1>1. FlagLen \in Nat /\ FlagLen > 1 /\ IsFrame(f, m)
  BY FlagLenAssumption, FramedBytes
<1>2. f \in Seq(Nat) /\ Len(f) = FlagLen + 3 /\ a \in Seq(Nat) /\ q \o f \in Seq(Nat)
  BY <1>1 DEF IsFrame
<1>3. b = a \o f
  <2>1. f \in Seq(Nat)
    BY <1>2
  <2>2. h \o (q \o f) = (h \o q) \o f
    BY <2>1, Behind
  <2>3. b = h \o (q \o f) /\ a = h \o q
    OBVIOUS
  <2> QED
    BY <2>2, <2>3, Zenon
<1>4. /\ b \in Seq(Nat) /\ Len(b) = Len(a) + (FlagLen + 3) /\ Len(a) \in Nat
      /\ \A i \in 1..Len(a) : b[i] = a[i]
      /\ \A k \in 1..(FlagLen + 3) : b[Len(a) + k] = f[k]
  <2>1. /\ a \o f \in Seq(Nat) /\ Len(a \o f) = Len(a) + Len(f)
        /\ \A i \in 1..(Len(a) + Len(f)) :
             (a \o f)[i] = IF i <= Len(a) THEN a[i] ELSE f[i - Len(a)]
    BY <1>2, ConcatProperties
  <2>2. Len(a) \in Nat
    BY <1>2
  <2>3. ASSUME NEW i \in 1..Len(a) PROVE b[i] = a[i]
    <3>1. i \in 1..(Len(a) + Len(f)) /\ i <= Len(a)
      BY <1>1, <1>2, <2>2
    <3> QED
      BY <1>3, <2>1, <3>1
  <2>4. ASSUME NEW k \in 1..(FlagLen + 3) PROVE b[Len(a) + k] = f[k]
    <3>1. /\ Len(a) + k \in 1..(Len(a) + Len(f)) /\ ~(Len(a) + k <= Len(a))
          /\ (Len(a) + k) - Len(a) = k
      BY <1>1, <1>2, <2>2
    <3> QED
      BY <1>3, <2>1, <3>1
  <2> QED
    BY <1>2, <1>3, <2>1, <2>2, <2>3, <2>4
<1>5. ASSUME NEW j \in 0..(FlagLen - 1) PROVE b[Len(a) + 1 + j] = j + 1
  <2>1. 1 + j \in 1..(FlagLen + 3) /\ Len(a) + (1 + j) = Len(a) + 1 + j
    BY <1>1, <1>4
  <2> QED
    BY <1>1, <1>4, <2>1 DEF IsFrame
<1>6. /\ b[Len(a) + 1 + FlagLen] = Length(m)
      /\ b[Len(a) + 1 + (FlagLen + 1)] = Length(m) + 1
      /\ b[Len(a) + 1 + (FlagLen + 2)] = Length(m) + 2
  <2>1. /\ Len(a) + (FlagLen + 1) = Len(a) + 1 + FlagLen
        /\ Len(a) + (FlagLen + 2) = Len(a) + 1 + (FlagLen + 1)
        /\ Len(a) + (FlagLen + 3) = Len(a) + 1 + (FlagLen + 2)
        /\ FlagLen + 1 \in 1..(FlagLen + 3) /\ FlagLen + 2 \in 1..(FlagLen + 3)
        /\ FlagLen + 3 \in 1..(FlagLen + 3)
    BY <1>1, <1>4
  <2> QED
    BY <1>1, <1>4, <2>1 DEF IsFrame
<1>7. Len(b) = Len(a) + FlagLen + 3
  BY <1>1, <1>4
<1>8. FrameAdded(a, b, m)
  BY <1>4, <1>5, <1>6, <1>7 DEF FrameAdded
<1> QED
  BY <1>2, <1>4, <1>8

(***************************************************************************)
(* A byte behind the bytes ahead.                                          *)
(***************************************************************************)
LEMMA ByteBehind ==
    ASSUME NEW h \in Seq(Nat), NEW q \in Seq(Nat), NEW x \in Nat
    PROVE  /\ h \o q \in Seq(Nat) /\ Append(q, x) \in Seq(Nat)
           /\ h \o Append(q, x) = Append(h \o q, x)
<1> PICK a, b, c : a = h \o q /\ b = h \o Append(q, x) /\ c = Append(a, x)
  OBVIOUS
<1>1. a \in Seq(Nat) /\ Append(q, x) \in Seq(Nat)
  OBVIOUS
<1>2. b \in Seq(Nat) /\ c \in Seq(Nat)
  BY <1>1
<1>3. Append(q, x) = q \o <<x>> /\ Append(a, x) = a \o <<x>> /\ <<x>> \in Seq(Nat)
  BY <1>1
<1> QED
  BY <1>1, <1>3, ConcatAssociative

(***************************************************************************)
(* io.ReadFull moves bytes from the connection to head.                    *)
(***************************************************************************)
LEMMA HeadMoved ==
    ASSUME NEW q \in Seq(Nat), Len(q) >= FlagLen,
           NEW h, h = SubSeq(q, 1, FlagLen), NEW r, r = SubSeq(q, FlagLen + 1, Len(q))
    PROVE  h \in Seq(Nat) /\ Len(h) = FlagLen /\ r \in Seq(Nat) /\ h \o r = <<>> \o q
<1>1. FlagLen \in Nat /\ Len(q) \in Nat /\ (FlagLen + 1) - 1 = FlagLen
  BY FlagLenAssumption
<1>2. /\ h \in Seq(Nat) /\ Len(h) = FlagLen
      /\ \A k \in 1..FlagLen : h[k] = q[k]
  <2>1. /\ h \in Seq(Nat) /\ Len(h) = (FlagLen + 1) - 1
        /\ \A k \in 1..((FlagLen + 1) - 1) : h[k] = q[k + (1 - 1)]
    BY <1>1, Slice
  <2>2. \A k \in 1..FlagLen : k + (1 - 1) = k
    BY <1>1
  <2> QED
    BY <1>1, <2>1, <2>2
<1>3. /\ r \in Seq(Nat) /\ Len(r) = Len(q) - FlagLen
      /\ \A k \in 1..(Len(q) - FlagLen) : r[k] = q[k + FlagLen]
  <2>1. FlagLen + 1 \in Nat /\ FlagLen + 1 >= 1 /\ FlagLen + 1 <= Len(q) + 1
    BY <1>1
  <2>2. /\ r \in Seq(Nat) /\ Len(r) = (Len(q) + 1) - (FlagLen + 1)
        /\ \A k \in 1..((Len(q) + 1) - (FlagLen + 1)) : r[k] = q[k + ((FlagLen + 1) - 1)]
    BY <1>1, <2>1, Slice
  <2>3. (Len(q) + 1) - (FlagLen + 1) = Len(q) - FlagLen /\ (FlagLen + 1) - 1 = FlagLen
    BY <1>1
  <2> QED
    BY <2>2, <2>3
<1>4. /\ h \o r \in Seq(Nat) /\ Len(h \o r) = Len(h) + Len(r)
      /\ \A i \in 1..(Len(h) + Len(r)) :
            (h \o r)[i] = IF i <= Len(h) THEN h[i] ELSE r[i - Len(h)]
  <2>1. h \in Seq(Nat) /\ r \in Seq(Nat)
    BY <1>2, <1>3
  <2> QED
    BY <2>1, ConcatProperties, ZenonT(30)
<1>5. Len(h) + Len(r) = Len(q)
  <2>1. Len(h) = FlagLen /\ Len(r) = Len(q) - FlagLen
    BY <1>2, <1>3, Zenon
  <2>2. ASSUME NEW x \in Nat, NEW y \in Nat PROVE x + (y - x) = y
    OBVIOUS
  <2>3. FlagLen + (Len(q) - FlagLen) = Len(q)
    BY <1>1, <2>2, Zenon
  <2> QED
    BY <2>1, <2>3, Zenon
<1>6. ASSUME NEW i \in 1..Len(q) PROVE (h \o r)[i] = q[i]
  <2>1. CASE i <= FlagLen
    <3>1. i \in 1..FlagLen
      BY <1>1, <2>1
    <3> QED
      BY <1>2, <1>4, <1>5, <2>1, <3>1
  <2>2. CASE ~(i <= FlagLen)
    <3>1. i - FlagLen \in 1..(Len(q) - FlagLen) /\ (i - FlagLen) + FlagLen = i
      BY <1>1, <2>2
    <3> QED
      BY <1>2, <1>3, <1>4, <1>5, <2>2, <3>1, ZenonT(60)
  <2> QED
    BY <2>1, <2>2
<1>7. h \o r = q
  BY <1>4, <1>5, <1>6, SeqEqual
<1>8. <<>> \o q = q
  BY ConcatEmptySeq
<1> QED
  BY <1>2, <1>3, <1>7, <1>8

(***************************************************************************)
(* One turn of readFrame's loop: k bytes of head are dropped and n of the  *)
(* connection taken; the rest of head is zeros.                            *)
(***************************************************************************)
Joins(r, p, q) ==
    /\ r \in Seq(Nat) /\ Len(r) = Len(p) + Len(q)
    /\ \A i \in 1..Len(p) : r[i] = p[i]
    /\ \A i \in 1..Len(q) : r[Len(p) + i] = q[i]
IsSlice(u, s, d, l) == u \in Seq(Nat) /\ Len(u) = l /\ \A i \in 1..l : u[i] = s[i + d]
IsZeros(z, l) == z \in Seq(Nat) /\ Len(z) = l /\ \A i \in 1..l : z[i] = 0
IsRefilled(g, h, q, F, k, n) ==
    /\ g \in Seq(Nat) /\ Len(g) = F
    /\ \A i \in 1..(F - k) : g[i] = h[i + k]
    /\ \A i \in 1..n : g[(F - k) + i] = q[i]
    /\ \A i \in 1..(k - n) : g[((F - k) + n) + i] = 0

\* What \o gives.
LEMMA JoinsConcat ==
    ASSUME NEW p \in Seq(Nat), NEW q \in Seq(Nat) PROVE Joins(p \o q, p, q)
<1> PICK r : r = p \o q
  OBVIOUS
<1>1. Joins(r, p, q)
  BY Joined DEF Joins
<1> QED
  BY <1>1

\* What SubSeq gives.
LEMMA SliceOf ==
    ASSUME NEW s \in Seq(Nat), NEW d \in Nat, NEW e \in Nat, d <= e, e <= Len(s)
    PROVE  IsSlice(SubSeq(s, d + 1, e), s, d, e - d)
<1> PICK u : u = SubSeq(s, d + 1, e)
  OBVIOUS
<1>1. d + 1 \in Nat /\ d + 1 >= 1 /\ d + 1 <= e + 1
  OBVIOUS
<1>2. /\ u \in Seq(Nat) /\ Len(u) = (e + 1) - (d + 1)
      /\ \A i \in 1..((e + 1) - (d + 1)) : u[i] = s[i + ((d + 1) - 1)]
  BY <1>1, Slice
<1>3. (e + 1) - (d + 1) = e - d /\ (d + 1) - 1 = d
  OBVIOUS
<1>4. IsSlice(u, s, d, e - d)
  BY <1>2, <1>3 DEF IsSlice
<1> QED
  BY <1>4

\* The part of the buffer c.Read did not fill.
LEMMA ZerosOf == ASSUME NEW l \in Nat PROVE IsZeros([j \in 1..l |-> 0], l)
<1> PICK z : z = [j \in 1..l |-> 0]
  OBVIOUS
<1>1. z \in [1..l -> Nat] /\ DOMAIN z = 1..l /\ \A i \in 1..l : z[i] = 0
  OBVIOUS
<1>2. z \in Seq(Nat)
  BY <1>1, SeqDef
<1>3. Len(z) \in Nat /\ DOMAIN z = 1..Len(z)
  BY <1>2
<1>4. Len(z) = l
  BY <1>1, <1>3
<1> QED
  BY <1>1, <1>2, <1>4 DEF IsZeros

\* The bytes of the new head.
LEMMA RefilledBytes ==
    ASSUME NEW F \in Nat, NEW k \in Nat, NEW n \in Nat, n <= k, k <= F,
           NEW h, NEW q, NEW u, NEW v, NEW z, NEW w, NEW g,
           IsSlice(u, h, k, F - k), IsSlice(v, q, 0, n), IsZeros(z, k - n),
           Joins(w, u, v), Joins(g, w, z)
    PROVE  IsRefilled(g, h, q, F, k, n)
<1> PICK x \in Nat, y \in Nat : x = F - k /\ y = k - n
  OBVIOUS
<1>1. x + n \in Nat /\ (x + n) + y = F
  OBVIOUS
<1>2. Len(u) = x /\ Len(v) = n /\ Len(z) = y
  BY DEF IsSlice, IsZeros
<1>3. /\ Len(w) = x + n /\ \A i \in 1..x : w[i] = u[i]
      /\ \A i \in 1..n : w[x + i] = v[i]
  BY <1>2 DEF Joins
<1>4. /\ g \in Seq(Nat) /\ Len(g) = (x + n) + y
      /\ \A i \in 1..(x + n) : g[i] = w[i]
      /\ \A i \in 1..y : g[(x + n) + i] = z[i]
  BY <1>2, <1>3 DEF Joins
<1>5. ASSUME NEW i \in 1..x PROVE g[i] = h[i + k]
  <2>1. i \in 1..(x + n)
    OBVIOUS
  <2>2. u[i] = h[i + k]
    BY DEF IsSlice
  <2> QED
    BY <1>3, <1>4, <2>1, <2>2
<1>6. ASSUME NEW i \in 1..n PROVE g[x + i] = q[i]
  <2>1. x + i \in 1..(x + n) /\ i + 0 = i
    OBVIOUS
  <2>2. v[i] = q[i + 0]
    BY DEF IsSlice
  <2> QED
    BY <1>3, <1>4, <2>1, <2>2
<1>7. ASSUME NEW i \in 1..y PROVE g[(x + n) + i] = 0
  <2>1. z[i] = 0
    BY DEF IsZeros
  <2> QED
    BY <1>4, <2>1
<1> QED
  BY <1>1, <1>4, <1>5, <1>6, <1>7 DEF IsRefilled

\* With short reads or not, the bytes behind head are those n later.
LEMMA BehindHead ==
    ASSUME NEW F \in Nat, NEW k \in Nat, NEW n \in Nat, n <= k, k <= F,
           NEW h, NEW q \in Seq(Nat), NEW g, NEW r, NEW a, NEW b, n <= Len(q), Len(h) = F,
           IsRefilled(g, h, q, F, k, n), IsSlice(r, q, n, Len(q) - n),
           Joins(a, h, q), Joins(b, g, r)
    PROVE  IsShifted(a, b, F, n)
<1> PICK l \in Nat, y \in Nat : l = Len(q) /\ y = l - n
  OBVIOUS
<1>1. Len(g) = F /\ Len(r) = y
  BY DEF IsRefilled, IsSlice
<1>2. Len(a) = F + l /\ \A i \in 1..l : a[F + i] = q[i]
  BY DEF Joins
<1>3. Len(b) = F + y /\ \A i \in 1..y : b[F + i] = r[i]
  BY <1>1 DEF Joins
<1>4. ASSUME NEW i \in (F + 1)..(F + y) PROVE b[i] = a[i + n]
  <2> PICK j \in 1..y : i = F + j
    <3>1. i - F \in 1..y /\ F + (i - F) = i
      OBVIOUS
    <3> QED
      BY <3>1
  <2>1. j + n \in 1..l /\ F + (j + n) = i + n
    OBVIOUS
  <2>2. r[j] = q[j + n]
    BY DEF IsSlice
  <2> QED
    BY <1>2, <1>3, <2>1, <2>2
<1>5. F + l = (F + y) + n
  OBVIOUS
<1> QED
  BY <1>2, <1>3, <1>4, <1>5 DEF IsShifted

\* When all bytes asked for have come, everything is k bytes later.
LEMMA RefilledWhole ==
    ASSUME NEW F \in Nat, NEW k \in Nat, k <= F,
           NEW h, NEW q \in Seq(Nat), NEW g, NEW r, NEW a, NEW b, k <= Len(q), Len(h) = F,
           IsRefilled(g, h, q, F, k, k), IsSlice(r, q, k, Len(q) - k),
           Joins(a, h, q), Joins(b, g, r)
    PROVE  IsShifted(a, b, 0, k)
<1>0. IsShifted(a, b, F, k)
  BY BehindHead
<1> PICK x \in Nat : x = F - k
  OBVIOUS
<1> PICK l \in Nat : l = Len(q)
  OBVIOUS
<1>1. Len(g) = F /\ (\A i \in 1..x : g[i] = h[i + k]) /\ \A i \in 1..k : g[x + i] = q[i]
  BY DEF IsRefilled
<1>2. /\ Len(a) = F + l /\ \A i \in 1..F : a[i] = h[i]
      /\ \A i \in 1..l : a[F + i] = q[i]
  BY DEF Joins
<1>3. \A i \in 1..F : b[i] = g[i]
  BY <1>1 DEF Joins
<1>4. Len(b) \in Nat
  BY DEF Joins
<1>5. ASSUME NEW i \in (0 + 1)..Len(b) PROVE b[i] = a[i + k]
  <2>1. CASE i > F
    <3>1. i \in (F + 1)..Len(b)
      BY <1>4, <2>1
    <3> QED
      BY <1>0, <3>1 DEF IsShifted
  <2>2. CASE i <= x
    <3>1. i \in 1..x /\ i \in 1..F /\ i + k \in 1..F
      BY <1>4, <2>2
    <3> QED
      BY <1>1, <1>2, <1>3, <3>1
  <2>3. CASE i > x /\ i <= F
    <3>1. i \in 1..F /\ i - x \in 1..k /\ i - x \in 1..l /\ x + (i - x) = i /\ F + (i - x) = i + k
      BY <1>4, <2>3
    <3>2. g[x + (i - x)] = q[i - x] /\ a[F + (i - x)] = q[i - x]
      BY <1>1, <1>2, <3>1
    <3> QED
      BY <1>3, <3>1, <3>2
  <2> QED
    BY <1>4, <2>1, <2>2, <2>3
<1>6. Len(a) = Len(b) + k
  BY <1>0 DEF IsShifted
<1> QED
  BY <1>5, <1>6 DEF IsShifted

\* After a short read head ends with a zero: no flag begins in it.
LEMMA RefilledShort ==
    ASSUME NEW k \in 1..FlagLen, NEW n \in Nat, n < k,
           NEW h, NEW q, NEW g, NEW r, NEW b \in Seq(Nat),
           IsRefilled(g, h, q, FlagLen, k, n), Joins(b, g, r), r \in Seq(Nat)
    PROVE  NoFlagUpTo(b, FlagLen)
<1> PICK F \in Nat : F = FlagLen /\ F > 1
  BY FlagLenAssumption
<1> PICK x \in Nat, y \in Nat : x = (F - k) + n /\ y = k - n /\ y > 0 /\ x + y = F
  <2>1. (F - k) + n \in Nat /\ k - n \in Nat /\ k - n > 0 /\ ((F - k) + n) + (k - n) = F
    OBVIOUS
  <2> QED
    BY <2>1
<1>1. Len(g) = F /\ \A i \in 1..y : g[x + i] = 0
  BY DEF IsRefilled
<1>2. /\ Len(b) = F + Len(r) /\ Len(r) \in Nat /\ \A i \in 1..F : b[i] = g[i]
  BY <1>1 DEF Joins
<1>3. b[F] = 0 /\ F <= Len(b)
  <2>1. y \in 1..y /\ F \in 1..F /\ F <= F + Len(r)
    BY <1>2
  <2> QED
    BY <1>1, <1>2, <2>1
<1>4. ASSUME NEW i \in 1..Len(b), FlagAt(b, i) PROVE i > F
  <2> SUFFICES ASSUME i <= F PROVE FALSE
    BY <1>2
  <2>1. F - i \in 0..(FlagLen - 1) /\ i + (F - i) = F /\ i \in Nat /\ (F - i) + 1 > 0
    BY <1>2
  <2>2. \A j \in 0..(FlagLen - 1) : b[i + j] = j + 1
    BY <1>4 DEF FlagAt
  <2>3. b[i + (F - i)] = (F - i) + 1
    BY <2>1, <2>2
  <2>4. b[F] = (F - i) + 1
    BY <2>1, <2>3
  <2> QED
    BY <1>3, <2>1, <2>4
<1>5. \A i \in 1..Len(b) : FlagAt(b, i) => i > FlagLen
  BY <1>4
<1>6. b[FlagLen] = 0 /\ FlagLen <= Len(b)
  BY <1>3
<1> QED
  BY <1>5, <1>6 DEF NoFlagUpTo

\* The new head and the rest of the connection.
RefillOf(g, h, q, k, n) ==
    g = SubSeq(h, k + 1, FlagLen) \o SubSeq(q, 1, n) \o [j \in 1..(k - n) |-> 0]
RestOf(r, q, n) == r = SubSeq(q, n + 1, Len(q))

\* They are those of Resync.
LEMMA Resynced ==
    ASSUME NEW h \in Seq(Nat), Len(h) = FlagLen, NEW q \in Seq(Nat),
           NEW k \in 1..FlagLen, NEW n \in 1..k, n <= Len(q),
           NEW g, RefillOf(g, h, q, k, n), NEW r, RestOf(r, q, n)
    PROVE  /\ IsRefilled(g, h, q, FlagLen, k, n) /\ IsSlice(r, q, n, Len(q) - n)
           /\ g \in Seq(Nat) /\ Len(g) = FlagLen /\ r \in Seq(Nat)
<1>1. /\ FlagLen \in Nat /\ k \in Nat /\ n \in Nat /\ n <= k /\ k <= FlagLen /\ Len(q) \in Nat
      /\ k - n \in Nat
  BY FlagLenAssumption
<1>2. PICK u : u = SubSeq(h, k + 1, FlagLen)
  OBVIOUS
<1>3. PICK v : v = SubSeq(q, 1, n)
  OBVIOUS
<1>4. PICK z : z = [j \in 1..(k - n) |-> 0]
  OBVIOUS
<1>5. PICK w : w = u \o v
  OBVIOUS
<1>6. g = w \o z
  BY <1>2, <1>3, <1>4, <1>5 DEF RefillOf
<1>7. IsSlice(u, h, k, FlagLen - k)
  <2>1. FlagLen <= Len(h)
    BY <1>1
  <2> QED
    BY <1>1, <1>2, <2>1, SliceOf
<1>8. IsSlice(v, q, 0, n)
  <2>1. 0 + 1 = 1 /\ n - 0 = n /\ 0 \in Nat /\ 0 <= n
    BY <1>1
  <2>2. IsSlice(SubSeq(q, 0 + 1, n), q, 0, n - 0)
    BY <1>1, <2>1, SliceOf
  <2> QED
    BY <1>3, <2>1, <2>2
<1>9. IsZeros(z, k - n)
  BY <1>1, <1>4, ZerosOf
<1>10. u \in Seq(Nat) /\ v \in Seq(Nat) /\ z \in Seq(Nat)
  BY <1>7, <1>8, <1>9 DEF IsSlice, IsZeros
<1>11. Joins(w, u, v)
  BY <1>5, <1>10, JoinsConcat
<1>12. Joins(g, w, z)
  <2>1. w \in Seq(Nat)
    BY <1>11 DEF Joins
  <2> QED
    BY <1>6, <1>10, <2>1, JoinsConcat
<1>13. IsRefilled(g, h, q, FlagLen, k, n)
  BY <1>1, <1>7, <1>8, <1>9, <1>11, <1>12, RefilledBytes
<1>14. IsSlice(r, q, n, Len(q) - n)
  BY <1>1, SliceOf DEF RestOf
<1> QED
  BY <1>13, <1>14 DEF IsRefilled, IsSlice

\* The flag before what has not been read.
LEMMA FlagInHead ==
    ASSUME NEW h \in Seq(Nat), Len(h) = FlagLen, NEW q \in Seq(Nat), NEW a, a = h \o q,
           \A i \in 1..FlagLen : h[i] = i
    PROVE  FlagAt(a, 1) /\ 1 \in 1..Len(a)
<1>1. FlagLen \in Nat /\ FlagLen > 1 /\ Len(q) \in Nat
  BY FlagLenAssumption
<1>2. Len(a) = FlagLen + Len(q) /\ \A i \in 1..FlagLen : a[i] = h[i]
  BY JoinsConcat DEF Joins
<1>3. ASSUME NEW j \in 0..(FlagLen - 1) PROVE a[1 + j] = j + 1
  <2>1. 1 + j \in 1..FlagLen /\ 1 + j = j + 1
    BY <1>1
  <2> QED
    BY <1>2, <2>1
<1>4. 1 + FlagLen <= Len(a) + 1 /\ 1 \in 1..Len(a)
  BY <1>1, <1>2
<1> QED
  BY <1>3, <1>4 DEF FlagAt

(***************************************************************************)
(* Behind the flag, Complete says what WholeAt does.                       *)
(***************************************************************************)
LEMMA CompleteIsWhole ==
    ASSUME head \in Seq(Nat), Len(head) = FlagLen, stream \in Seq(Nat),
           FlagAt(BytesAhead, 1), NEW m \in Nat
    PROVE  Complete(m) <=> WholeAt(BytesAhead, 1, m)
<1>1. FlagLen \in Nat /\ FlagLen > 1 /\ Len(stream) \in Nat /\ Length(m) \in Nat
  BY FlagLenAssumption DEF Length
<1>2. PICK a : a = BytesAhead
  OBVIOUS
<1>3. /\ Len(a) = FlagLen + Len(stream)
      /\ \A i \in 1..Len(stream) : a[FlagLen + i] = stream[i]
  BY <1>2, JoinsConcat DEF Joins, BytesAhead
<1>4. PICK p : p = <<Length(m)>> \o Payload(m)
  OBVIOUS
<1>5. /\ p \in Seq(Nat) /\ Len(p) = 3
      /\ p[1] = Length(m) /\ p[2] = Length(m) + 1 /\ p[3] = Length(m) + 2
  <2>1. PICK l \in Nat : l = Length(m)
    BY <1>1
  <2>2. p = <<l>> \o <<l + 1, l + 2>>
    BY <1>4, <2>1 DEF Payload
  <2>3. p \in Seq(Nat) /\ Len(p) = 3 /\ p[1] = l /\ p[2] = l + 1 /\ p[3] = l + 2
    BY <2>2
  <2> QED
    BY <2>1, <2>3
<1>6. WholeAt(a, 1, m) <=> /\ 1 + FlagLen + 2 <= Len(a)
                           /\ a[1 + FlagLen] = Length(m)
                           /\ a[1 + (FlagLen + 1)] = Length(m) + 1
                           /\ a[1 + (FlagLen + 2)] = Length(m) + 2
  BY <1>2 DEF WholeAt
<1>7. 1 + FlagLen + 2 <= Len(a) <=> Len(stream) >= 3
  BY <1>1, <1>3
<1>8. CASE Len(stream) >= 3
  <2>1. /\ 1 \in 1..Len(stream) /\ 2 \in 1..Len(stream) /\ 3 \in 1..Len(stream)
        /\ FlagLen + 1 = 1 + FlagLen /\ FlagLen + 2 = 1 + (FlagLen + 1)
        /\ FlagLen + 3 = 1 + (FlagLen + 2)
    <3>1. PICK l \in Nat : l = Len(stream)
      BY <1>1
    <3>2. 1 \in 1..l /\ 2 \in 1..l /\ 3 \in 1..l
      BY <1>8, <3>1
    <3>3. ASSUME NEW f \in Nat PROVE f + 1 = 1 + f /\ f + 2 = 1 + (f + 1) /\ f + 3 = 1 + (f + 2)
      BY <3>3
    <3> QED
      BY <1>1, <3>1, <3>2, <3>3
  <2>2. /\ a[1 + FlagLen] = stream[1] /\ a[1 + (FlagLen + 1)] = stream[2]
        /\ a[1 + (FlagLen + 2)] = stream[3]
    BY <1>3, <2>1
  <2>3. PICK u : u = SubSeq(stream, 1, 3)
    OBVIOUS
  <2>4. /\ u \in Seq(Nat) /\ Len(u) = 3 /\ u[1] = stream[1] /\ u[2] = stream[2] /\ u[3] = stream[3]
    <3>1. IsSlice(SubSeq(stream, 0 + 1, 3), stream, 0, 3 - 0)
      BY <1>1, <1>8, SliceOf
    <3>2. 0 + 1 = 1 /\ 3 - 0 = 3
      OBVIOUS
    <3>3. IsSlice(u, stream, 0, 3)
      BY <2>3, <3>1, <3>2
    <3>4. 1 + 0 = 1 /\ 2 + 0 = 2 /\ 3 + 0 = 3 /\ 1 \in 1..3 /\ 2 \in 1..3 /\ 3 \in 1..3
      OBVIOUS
    <3>5. u \in Seq(Nat) /\ Len(u) = 3 /\ \A i \in 1..3 : u[i] = stream[i + 0]
      BY <3>3 DEF IsSlice
    <3> QED
      BY <3>4, <3>5
  <2>5. u = p <=> u[1] = p[1] /\ u[2] = p[2] /\ u[3] = p[3]
    <3>1. ASSUME u[1] = p[1] /\ u[2] = p[2] /\ u[3] = p[3] PROVE u = p
      <4>1. \A i \in 1..3 : i = 1 \/ i = 2 \/ i = 3
        OBVIOUS
      <4>2. \A i \in 1..3 : u[i] = p[i]
        BY <3>1, <4>1
      <4> QED
        BY <1>5, <2>4, <4>2, SeqEqual
    <3> QED
      BY <3>1
  <2>6. Complete(m) <=> u = p
    BY <1>4, <1>8, <2>3 DEF Complete
  <2> QED
    BY <1>2, <1>5, <1>6, <1>7, <1>8, <2>2, <2>4, <2>5, <2>6
<1>9. CASE ~(Len(stream) >= 3)
  BY <1>2, <1>6, <1>7, <1>9 DEF Complete
<1> QED
  BY <1>8, <1>9

\* The byte that ends the match is the first that differs from the flag.
LEMMA FirstOfMismatches ==
    ASSUME Mismatches # {}
    PROVE  /\ FirstMismatch \in 1..FlagLen /\ head[FirstMismatch] # FirstMismatch
           /\ \A j \in 1..(FirstMismatch - 1) : head[j] = j
<1> DEFINE Less == {ss \in Nat \X Nat : ss[1] < ss[2]}
<1>1. FlagLen \in Nat /\ Mismatches \subseteq 1..FlagLen /\ Mismatches \subseteq Nat
  BY FlagLenAssumption DEF Mismatches
<1>2. IsWellFoundedOn(Less, Nat)
  BY NatLessThanWellFounded DEF Less, OpToRel
<1>3. \E x \in Mismatches : \A y \in Mismatches : ~(<<y, x>> \in Less)
  <2> HIDE DEF Less
  <2> QED
    BY <1>1, <1>2, WFMin
<1>4. \E x \in Mismatches : \A y \in Mismatches : x <= y
  <2>1. PICK x \in Mismatches : \A y \in Mismatches : ~(<<y, x>> \in Less)
    BY <1>3
  <2>2. ASSUME NEW y \in Mismatches PROVE x <= y
    <3>1. x \in Nat /\ y \in Nat
      BY <1>1
    <3>2. ~(<<y, x>> \in Less)
      BY <2>1
    <3> QED
      BY <3>1, <3>2
  <2> QED
    BY <2>2
<1> HIDE DEF Less
<1>5. FirstMismatch \in Mismatches /\ \A y \in Mismatches : FirstMismatch <= y
  BY <1>4 DEF FirstMismatch
<1>6. \A i \in 1..FlagLen : FRAMEFLAG[i] = i
  BY FlagBytes
<1>7. FirstMismatch \in 1..FlagLen /\ head[FirstMismatch] # FirstMismatch
  BY <1>5, <1>6 DEF Mismatches
<1>8. ASSUME NEW j \in 1..(FirstMismatch - 1) PROVE head[j] = j
  <2>1. j \in 1..FlagLen /\ ~(FirstMismatch <= j)
    BY <1>1, <1>7
  <2>2. j \notin Mismatches
    BY <1>5, <2>1
  <2> QED
    BY <1>6, <2>1, <2>2 DEF Mismatches
<1> QED
  BY <1>7, <1>8

-----------------------------------------------------------------------------
(* TcpFraming: the steps.                                                  *)

\* Only messages sent are returned.
LEMMA GotBounds == ASSUME TcpInv PROVE Got \subseteq 1..msgsSent
BY DEF TcpInv, GotInOrder, Got

\* The device sends a message.
LEMMA DeviceSendsKeeps == ASSUME TcpInv, DeviceSends PROVE TcpInv'
<1>1. /\ head \in Seq(Nat) /\ stream \in Seq(Nat) /\ msgsSent \in Nat /\ strays \in Nat
      /\ msgsSent + 1 \in Nat
  BY FlagLenAssumption DEF TcpInv, TcpTypes
<1>2. /\ msgsSent' = msgsSent + 1 /\ stream' = stream \o Framed(msgsSent + 1)
      /\ UNCHANGED <<strays, head, returned, unlucky>>
  BY DEF DeviceSends
<1>3. PICK a, b : a = head \o stream /\ b = head \o (stream \o Framed(msgsSent + 1))
  OBVIOUS
<1>4. /\ a \in Seq(Nat) /\ b \in Seq(Nat) /\ stream \o Framed(msgsSent + 1) \in Seq(Nat)
      /\ FrameAdded(a, b, msgsSent + 1)
  BY <1>1, <1>3, FrameBehind
<1>5. BytesAhead = a /\ BytesAhead' = b /\ Got' = Got
  BY <1>2, <1>3 DEF BytesAhead, Got
<1>6. /\ InStream(b, msgsSent + 1, strays, Got)
      /\ AllThere(a, msgsSent, Got) => AllThere(b, msgsSent + 1, Got)
  <2>1. Got \subseteq 1..msgsSent /\ InStream(a, msgsSent, strays, Got)
    BY <1>5, GotBounds DEF TcpInv
  <2> QED
    BY <1>1, <1>4, <2>1, AddFrame
<1>7. TcpTypes'
  BY <1>1, <1>2, <1>4 DEF TcpInv, TcpTypes
<1>8. GotInOrder'
  <2>1. \A x \in 1..msgsSent : x \in 1..(msgsSent + 1)
    BY <1>1
  <2> QED
    BY <1>2, <2>1 DEF TcpInv, GotInOrder
<1>9. InStream(BytesAhead, msgsSent, strays, Got)'
  BY <1>2, <1>5, <1>6
<1>10. (~unlucky => AllThere(BytesAhead, msgsSent, Got))'
  BY <1>2, <1>5, <1>6 DEF TcpInv
<1> QED
  BY <1>7, <1>8, <1>9, <1>10 DEF TcpInv

\* A stray byte arrives.
LEMMA StrayKeeps == ASSUME TcpInv, NEW x \in 0..FlagLen, Stray(x) PROVE TcpInv'
<1>1. /\ head \in Seq(Nat) /\ stream \in Seq(Nat) /\ msgsSent \in Nat /\ strays \in Nat
      /\ x \in Nat
  BY FlagLenAssumption DEF TcpInv, TcpTypes
<1>2. /\ strays < MaxStray /\ strays' = strays + 1 /\ stream' = Append(stream, x)
      /\ UNCHANGED <<msgsSent, head, returned, unlucky>>
  BY DEF Stray
<1>3. strays + 1 < FlagLen /\ strays + 1 \in 0..MaxStray
  BY <1>1, <1>2, FlagLenAssumption
<1>4. PICK a, b : a = head \o stream /\ b = head \o Append(stream, x)
  OBVIOUS
<1>5. a \in Seq(Nat) /\ Append(stream, x) \in Seq(Nat) /\ b = Append(a, x)
  BY <1>1, <1>4, ByteBehind
<1>6. BytesAhead = a /\ BytesAhead' = b /\ Got' = Got
  BY <1>2, <1>4 DEF BytesAhead, Got
<1>7. /\ InStream(b, msgsSent, strays + 1, Got)
      /\ AllThere(a, msgsSent, Got) => AllThere(b, msgsSent, Got)
  <2>1. InStream(a, msgsSent, strays, Got)
    BY <1>6 DEF TcpInv
  <2> QED
    BY <1>1, <1>3, <1>5, <2>1, AddByte
<1>8. TcpTypes'
  BY <1>1, <1>2, <1>3, <1>5 DEF TcpInv, TcpTypes
<1>9. GotInOrder'
  BY <1>2 DEF TcpInv, GotInOrder
<1>10. InStream(BytesAhead, msgsSent, strays, Got)'
  BY <1>2, <1>6, <1>7
<1>11. (~unlucky => AllThere(BytesAhead, msgsSent, Got))'
  BY <1>2, <1>6, <1>7 DEF TcpInv
<1> QED
  BY <1>8, <1>9, <1>10, <1>11 DEF TcpInv

\* io.ReadFull fills head.
LEMMA ReadHeadKeeps == ASSUME TcpInv, ReadHead PROVE TcpInv'
<1>1. stream \in Seq(Nat)
  BY DEF TcpInv, TcpTypes
<1>2. /\ head = <<>> /\ Len(stream) >= FlagLen
      /\ head' = SubSeq(stream, 1, FlagLen) /\ stream' = SubSeq(stream, FlagLen + 1, Len(stream))
      /\ UNCHANGED <<msgsSent, strays, returned, unlucky>>
  BY DEF ReadHead
<1>3. PICK g, r : /\ g = SubSeq(stream, 1, FlagLen)
                  /\ r = SubSeq(stream, FlagLen + 1, Len(stream))
  OBVIOUS
<1>4. g \in Seq(Nat) /\ Len(g) = FlagLen /\ r \in Seq(Nat) /\ g \o r = <<>> \o stream
  BY <1>1, <1>2, <1>3, HeadMoved
<1>5. BytesAhead' = BytesAhead /\ Got' = Got
  BY <1>2, <1>3, <1>4 DEF BytesAhead, Got
<1>6. TcpTypes'
  BY <1>2, <1>3, <1>4 DEF TcpInv, TcpTypes
<1>7. GotInOrder'
  BY <1>2 DEF TcpInv, GotInOrder
<1>8. InStream(BytesAhead, msgsSent, strays, Got)'
  BY <1>2, <1>5 DEF TcpInv
<1>9. (~unlucky => AllThere(BytesAhead, msgsSent, Got))'
  BY <1>2, <1>5 DEF TcpInv
<1> QED
  BY <1>6, <1>7, <1>8, <1>9 DEF TcpInv

\* A mismatch.
LEMMA ResyncKeeps == ASSUME TcpInv, NEW n \in 1..FlagLen, Resync(n) PROVE TcpInv'
<1>1. /\ head \in Seq(Nat) /\ stream \in Seq(Nat) /\ msgsSent \in Nat /\ strays \in Nat
      /\ FlagLen \in Nat /\ FlagLen > 1
  BY FlagLenAssumption DEF TcpInv, TcpTypes
<1>2. PICK k : k = FirstMismatch
  OBVIOUS
<1>3. /\ k \in 1..FlagLen /\ head[k] # k /\ \A j \in 1..(k - 1) : head[j] = j
  <2>1. Mismatches # {}
    BY DEF Resync
  <2> QED
    BY <1>2, <2>1, FirstOfMismatches
<1>4. Len(head) = FlagLen
  <2>1. head # <<>> /\ Len(head) \in {0, FlagLen}
    BY DEF Resync, TcpInv, TcpTypes
  <2> QED
    BY <1>1, <2>1, EmptySeq
<1>5. /\ n \in 1..k /\ n <= Len(stream)
      /\ head' = SubSeq(head, k + 1, FlagLen) \o SubSeq(stream, 1, n) \o [j \in 1..(k - n) |-> 0]
      /\ stream' = SubSeq(stream, n + 1, Len(stream))
      /\ unlucky' = (unlucky \/ n < k \/ head[k] = FRAMEFLAG[1])
      /\ UNCHANGED <<msgsSent, strays, returned>>
  BY <1>2 DEF Resync, Skipped
<1>6. PICK g, r : g = head' /\ r = stream'
  OBVIOUS
<1>7. /\ IsRefilled(g, head, stream, FlagLen, k, n) /\ IsSlice(r, stream, n, Len(stream) - n)
      /\ g \in Seq(Nat) /\ Len(g) = FlagLen /\ r \in Seq(Nat)
  <2>1. RefillOf(g, head, stream, k, n)
    BY <1>5, <1>6, Zenon DEF RefillOf
  <2>2. RestOf(r, stream, n)
    BY <1>5, <1>6, Zenon DEF RestOf
  <2>3. k \in 1..FlagLen /\ n \in 1..k /\ n <= Len(stream)
    BY <1>3, <1>5, Zenon
  <2>4. head \in Seq(Nat) /\ stream \in Seq(Nat)
    BY <1>1
  <2> QED
    BY <1>4, <2>1, <2>2, <2>3, <2>4, Resynced
<1>8. PICK a, b : a = head \o stream /\ b = g \o r
  OBVIOUS
<1>9. Joins(a, head, stream) /\ Joins(b, g, r)
  BY <1>1, <1>7, <1>8, JoinsConcat
<1>10. a \in Seq(Nat) /\ b \in Seq(Nat)
  BY <1>9 DEF Joins
<1>11. BytesAhead = a /\ BytesAhead' = b /\ Got' = Got
  BY <1>5, <1>6, <1>8 DEF BytesAhead, Got
<1>12. InStream(a, msgsSent, strays, Got)
  BY <1>11 DEF TcpInv
<1>13. k \in Nat /\ n \in Nat /\ n <= k /\ k <= FlagLen
  BY <1>1, <1>3, <1>5
<1>14. CASE n < k
  <2>1. IsShifted(a, b, FlagLen, n)
    BY <1>1, <1>4, <1>5, <1>7, <1>9, <1>13, BehindHead
  <2>2. NoFlagUpTo(b, FlagLen)
    BY <1>3, <1>7, <1>9, <1>10, <1>13, <1>14, RefilledShort
  <2>3. InStream(b, msgsSent, strays, Got)
    BY <1>1, <1>10, <1>12, <1>13, <2>1, <2>2, Shifted
  <2>4. unlucky'
    BY <1>5, <1>14
  <2> QED
    BY <1>5, <1>6, <1>7, <1>11, <2>3, <2>4 DEF TcpInv, TcpTypes, GotInOrder
<1>15. CASE n = k
  <2>1. IsShifted(a, b, 0, k)
    <3>1. /\ IsRefilled(g, head, stream, FlagLen, k, k) /\ IsSlice(r, stream, k, Len(stream) - k)
          /\ k <= Len(stream)
      BY <1>5, <1>7, <1>15
    <3> QED
      BY <1>1, <1>4, <1>9, <1>13, <3>1, RefilledWhole
  <2>2. NoFlagUpTo(b, 0)
    <3>1. \A i \in 1..Len(b) : i > 0
      OBVIOUS
    <3> QED
      BY <3>1 DEF NoFlagUpTo
  <2>3. InStream(b, msgsSent, strays, Got)
    BY <1>1, <1>10, <1>12, <1>13, <2>1, <2>2, Shifted
  <2>4. ASSUME ~unlucky' PROVE AllThere(b, msgsSent, Got)
    <3>1. ~unlucky /\ head[k] # FRAMEFLAG[1]
      BY <1>5, <2>4
    <3>2. FRAMEFLAG[1] = 1
      BY <1>1, FlagBytes
    <3>3. \A i \in 1..FlagLen : a[i] = head[i]
      BY <1>4, <1>9 DEF Joins
    <3>4. a[k] # k /\ a[k] # 1
      BY <1>3, <3>1, <3>2, <3>3
    <3>5. \A i \in 1..(k - 1) : a[i] = i
      <4>1. \A i \in 1..(k - 1) : i \in 1..FlagLen
        BY <1>1, <1>13
      <4> QED
        BY <1>3, <3>3, <4>1
    <3>6. AllThere(a, msgsSent, Got)
      BY <1>11, <3>1 DEF TcpInv
    <3> QED
      BY <1>1, <1>3, <1>10, <2>1, <3>4, <3>5, <3>6, SkipBytes
  <2> QED
    BY <1>5, <1>6, <1>7, <1>11, <2>3, <2>4 DEF TcpInv, TcpTypes, GotInOrder
<1> QED
  BY <1>13, <1>14, <1>15

\* The flag in head is followed by a message sent, later than those returned.
LEMMA NextFrame ==
    ASSUME TcpInv, head # <<>>, Mismatches = {}
    PROVE  /\ Len(head) = FlagLen /\ FlagAt(BytesAhead, 1)
           /\ \E m \in 1..msgsSent : WholeAt(BytesAhead, 1, m) /\ \A r \in Got : r < m
<1>1. head \in Seq(Nat) /\ stream \in Seq(Nat) /\ FlagLen \in Nat
  BY FlagLenAssumption DEF TcpInv, TcpTypes
<1>2. Len(head) = FlagLen
  <2>1. Len(head) \in {0, FlagLen}
    BY DEF TcpInv, TcpTypes
  <2> QED
    BY <1>1, <2>1, EmptySeq
<1>3. \A i \in 1..FlagLen : head[i] = i
  <2>1. \A i \in 1..FlagLen : FRAMEFLAG[i] = i
    BY FlagBytes
  <2> QED
    BY <2>1 DEF Mismatches
<1>4. FlagAt(BytesAhead, 1) /\ 1 \in 1..Len(BytesAhead)
  BY <1>1, <1>2, <1>3, FlagInHead DEF BytesAhead
<1>5. FlagsAreFrames(BytesAhead, msgsSent, Got)
  BY DEF TcpInv, InStream
<1> QED
  BY <1>2, <1>4, <1>5 DEF FlagsAreFrames

\* Two messages have different lengths here: the frame tells them apart.
LEMMA WholeOfOne ==
    ASSUME NEW a, NEW i, NEW m \in Nat, NEW k \in Nat, WholeAt(a, i, m), WholeAt(a, i, k)
    PROVE  m = k
<1>1. Length(m) = Length(k)
  BY DEF WholeAt
<1> QED
  BY <1>1, FlagLenAssumption DEF Length

\* readFrame returns a message.
LEMMA ReadFrameKeeps == ASSUME TcpInv, NEW m \in 1..MaxMsgs, ReadFrame(m) PROVE TcpInv'
<1>1. /\ head \in Seq(Nat) /\ stream \in Seq(Nat) /\ msgsSent \in Nat /\ strays \in Nat
      /\ FlagLen \in Nat /\ FlagLen > 1 /\ m \in Nat /\ returned \in Seq(Nat)
  BY FlagLenAssumption DEF TcpInv, TcpTypes
<1>2. /\ head # <<>> /\ Mismatches = {} /\ Complete(m) /\ Len(stream) >= 3
      /\ stream' = SubSeq(stream, 4, Len(stream)) /\ returned' = Append(returned, m)
      /\ head' = <<>> /\ UNCHANGED <<msgsSent, strays, unlucky>>
  BY DEF ReadFrame, Complete
<1>3. Len(head) = FlagLen /\ FlagAt(BytesAhead, 1)
  BY <1>2, NextFrame
<1>4. WholeAt(BytesAhead, 1, m)
  BY <1>1, <1>2, <1>3, CompleteIsWhole
<1>5. m \in 1..msgsSent /\ \A r \in Got : r < m
  <2>1. PICK k \in 1..msgsSent : WholeAt(BytesAhead, 1, k) /\ \A r \in Got : r < k
    BY <1>2, NextFrame
  <2>2. k \in Nat
    BY <1>1
  <2>3. m = k
    BY <1>1, <1>4, <2>1, <2>2, WholeOfOne
  <2> QED
    BY <2>1, <2>3
<1>6. PICK a, r : a = head \o stream /\ r = SubSeq(stream, 4, Len(stream))
  OBVIOUS
<1>7. IsSlice(r, stream, 3, Len(stream) - 3)
  <2>1. 3 + 1 = 4 /\ 3 <= Len(stream) /\ Len(stream) \in Nat /\ Len(stream) <= Len(stream)
    BY <1>1, <1>2
  <2>2. IsSlice(SubSeq(stream, 3 + 1, Len(stream)), stream, 3, Len(stream) - 3)
    BY <1>1, <2>1, SliceOf
  <2> QED
    BY <1>6, <2>1, <2>2
<1>8. Joins(a, head, stream) /\ a \in Seq(Nat) /\ r \in Seq(Nat)
  BY <1>1, <1>6, <1>7, JoinsConcat, SMTT(30) DEF Joins, IsSlice
<1>9. IsShifted(a, r, 0, FlagLen + 3)
  <2>1. /\ Len(a) = FlagLen + Len(stream)
        /\ \A i \in 1..Len(stream) : a[FlagLen + i] = stream[i]
    BY <1>3, <1>8 DEF Joins
  <2>2. Len(r) = Len(stream) - 3 /\ \A i \in 1..(Len(stream) - 3) : r[i] = stream[i + 3]
    BY <1>7 DEF IsSlice
  <2>3. PICK l \in Nat : l = Len(stream)
    BY <1>1
  <2>4. Len(a) = Len(r) + (FlagLen + 3)
    BY <1>1, <2>1, <2>2, <2>3
  <2>5. ASSUME NEW i \in (0 + 1)..Len(r) PROVE r[i] = a[i + (FlagLen + 3)]
    <3>1. /\ i \in 1..(l - 3) /\ i + 3 \in 1..l /\ FlagLen + (i + 3) = i + (FlagLen + 3)
      BY <1>1, <1>2, <2>2, <2>3
    <3> QED
      BY <2>1, <2>2, <2>3, <3>1
  <2> QED
    BY <2>4, <2>5 DEF IsShifted
<1>10. BytesAhead = a /\ BytesAhead' = r
  <2>1. <<>> \o r = r
    BY <1>8, ConcatEmptySeq
  <2> QED
    BY <1>2, <1>6, <2>1 DEF BytesAhead
<1>11. /\ returned' \in Seq(Nat) /\ Len(returned') = Len(returned) + 1 /\ Len(returned) \in Nat
       /\ DOMAIN returned = 1..Len(returned) /\ DOMAIN returned' = 1..(Len(returned) + 1)
       /\ \A i \in 1..Len(returned) : returned'[i] = returned[i]
       /\ returned'[Len(returned) + 1] = m
  <2>1. PICK s2 : s2 = Append(returned, m)
    OBVIOUS
  <2>2. /\ s2 \in Seq(Nat) /\ Len(s2) = Len(returned) + 1 /\ Len(returned) \in Nat
        /\ \A i \in 1..Len(returned) : s2[i] = returned[i]
        /\ s2[Len(returned) + 1] = m
    BY <1>1, <2>1, AppendProperties
  <2>3. DOMAIN returned = 1..Len(returned) /\ DOMAIN s2 = 1..Len(s2)
    BY <1>1, <2>2
  <2> QED
    BY <1>2, <2>1, <2>2, <2>3
<1>12. Got' = Got \cup {m}
  <2>1. \A i \in DOMAIN returned' : returned'[i] \in Got \cup {m}
    <3>1. \A i \in DOMAIN returned' : i \in 1..Len(returned) \/ i = Len(returned) + 1
      BY <1>11
    <3> QED
      BY <1>11, <3>1 DEF Got
  <2>2. \A i \in DOMAIN returned : i \in DOMAIN returned' /\ returned'[i] = returned[i]
    BY <1>11
  <2>3. Len(returned) + 1 \in DOMAIN returned'
    BY <1>11
  <2>4. Got' = {returned'[i] : i \in DOMAIN returned'}
    BY DEF Got
  <2> QED
    BY <1>11, <2>1, <2>2, <2>3, <2>4 DEF Got
<1>13. /\ InStream(r, msgsSent, strays, Got \cup {m})
       /\ AllThere(a, msgsSent, Got) => AllThere(r, msgsSent, Got \cup {m})
  <2>1. InStream(a, msgsSent, strays, Got) /\ WholeAt(a, 1, m)
    BY <1>4, <1>10 DEF TcpInv
  <2> QED
    BY <1>1, <1>8, <1>9, <2>1, TakeFrame
<1>14. TcpTypes'
  <2>1. head' \in Seq(Nat) /\ Len(head') = 0
    BY <1>2
  <2>2. stream' \in Seq(Nat)
    BY <1>2, <1>6, <1>8
  <2> QED
    BY <1>2, <1>11, <2>1, <2>2 DEF TcpInv, TcpTypes
<1>15. GotInOrder'
  <2> SUFFICES ASSUME NEW i \in DOMAIN returned'
               PROVE  /\ returned'[i] \in 1..msgsSent
                      /\ i > 1 => returned'[i - 1] < returned'[i]
    BY <1>2 DEF GotInOrder
  <2>1. CASE i \in 1..Len(returned)
    <3>1. i > 1 => i - 1 \in 1..Len(returned)
      <4>1. Len(returned) \in Nat
        BY <1>11
      <4> QED
        BY <2>1, <4>1
    <3> QED
      BY <1>11, <2>1, <3>1 DEF TcpInv, GotInOrder
  <2>2. CASE i = Len(returned) + 1
    <3>1. i > 1 => i - 1 \in 1..Len(returned)
      BY <1>11, <2>2
    <3>2. i > 1 => returned'[i - 1] \in Got
      BY <1>11, <3>1 DEF Got
    <3> QED
      BY <1>5, <1>11, <2>2, <3>2
  <2> QED
    BY <1>11, <2>1, <2>2
<1>16. InStream(BytesAhead, msgsSent, strays, Got)'
  BY <1>2, <1>10, <1>12, <1>13
<1>17. (~unlucky => AllThere(BytesAhead, msgsSent, Got))'
  BY <1>2, <1>10, <1>12, <1>13 DEF TcpInv
<1> QED
  BY <1>14, <1>15, <1>16, <1>17 DEF TcpInv

\* A new connection.
LEMMA TcpInvInit == TcpInit => TcpInv
<1> SUFFICES ASSUME TcpInit PROVE TcpInv
  OBVIOUS
<1>1. /\ stream = <<>> /\ msgsSent = 0 /\ strays = 0 /\ head = <<>> /\ returned = <<>>
      /\ <<>> \in Seq(Nat) /\ Len(<<>>) = 0 /\ FlagLen \in Nat
  BY FlagLenAssumption DEF TcpInit
<1>2. BytesAhead = <<>> /\ 1..0 = {} /\ DOMAIN returned = {}
  BY <1>1, ConcatEmptySeq DEF BytesAhead
<1>3. TcpTypes
  BY <1>1, FlagLenAssumption DEF TcpTypes
<1>4. GotInOrder
  BY <1>2 DEF GotInOrder
<1>5. InStream(BytesAhead, msgsSent, strays, Got)
  BY <1>1, <1>2 DEF InStream, FlagsAreFrames, FramesAscend, StrayEnd
<1>6. AllThere(BytesAhead, msgsSent, Got)
  BY <1>1, <1>2 DEF AllThere
<1> QED
  BY <1>3, <1>4, <1>5, <1>6 DEF TcpInv

\* Every step keeps the invariant.
LEMMA TcpInvStep == TcpInv /\ [TcpNext]_tcpVars => TcpInv'
<1> SUFFICES ASSUME TcpInv, [TcpNext]_tcpVars PROVE TcpInv'
  OBVIOUS
<1>1. CASE DeviceSends
  BY <1>1, DeviceSendsKeeps
<1>2. ASSUME NEW x \in 0..FlagLen, Stray(x) PROVE TcpInv'
  BY <1>2, StrayKeeps
<1>3. CASE ReadHead
  BY <1>3, ReadHeadKeeps
<1>4. ASSUME NEW n \in 1..FlagLen, Resync(n) PROVE TcpInv'
  BY <1>4, ResyncKeeps
<1>5. ASSUME NEW m \in 1..MaxMsgs, ReadFrame(m) PROVE TcpInv'
  BY <1>5, ReadFrameKeeps
<1>6. CASE UNCHANGED tcpVars
  <2>1. BytesAhead' = BytesAhead /\ Got' = Got
    BY <1>6 DEF tcpVars, BytesAhead, Got
  <2> QED
    BY <1>6, <2>1 DEF tcpVars, TcpInv, TcpTypes, GotInOrder
<1> QED
  BY <1>1, <1>2, <1>3, <1>4, <1>5, <1>6 DEF TcpNext

\* It holds in every state.
LEMMA TcpInvAlways == TcpSpec => []TcpInv
BY TcpInvInit, TcpInvStep, PTL DEF TcpSpec

(***************************************************************************)
(* readFrame returns messages of the device only, in order and none twice, *)
(* and finds no flag where no frame is: for any length of the flag, any    *)
(* number of messages and fewer stray bytes than the flag has.             *)
(***************************************************************************)
THEOREM ReturnedInOrderAlways == TcpSpec => []ReturnedInOrder
<1>1. ASSUME TcpInv PROVE ReturnedInOrder
  <2>1. ASSUME head # <<>>, Mismatches = {} PROVE \E m \in 1..msgsSent : Complete(m)
    <3>1. /\ Len(head) = FlagLen /\ FlagAt(BytesAhead, 1)
          /\ \E m \in 1..msgsSent : WholeAt(BytesAhead, 1, m)
      BY <1>1, <2>1, NextFrame
    <3>2. head \in Seq(Nat) /\ stream \in Seq(Nat) /\ \A m \in 1..msgsSent : m \in Nat
      BY <1>1 DEF TcpInv, TcpTypes
    <3> QED
      BY <3>1, <3>2, CompleteIsWhole
  <2> QED
    BY <1>1, <2>1 DEF TcpInv, GotInOrder, ReturnedInOrder
<1> QED
  BY <1>1, TcpInvAlways, PTL

(***************************************************************************)
(* readFrame loses no message unless a read was short or the byte that     *)
(* ended a partial match began a flag: every other message sent has been   *)
(* returned or is whole in head and stream.                                *)
(***************************************************************************)
THEOREM NothingLostAlways == TcpSpec => []NothingLost
<1>1. ASSUME TcpInv PROVE NothingLost
  <2> SUFFICES ASSUME ~unlucky, NEW m \in 1..msgsSent, m \notin Range(returned)
               PROVE  \E i \in DOMAIN (head \o stream) :
                          /\ Len(head \o stream) >= i + FlagLen + 2
                          /\ SubSeq(head \o stream, i, i + FlagLen + 2) = Framed(m)
    BY DEF NothingLost
  <2>1. PICK a : a = head \o stream
    OBVIOUS
  <2>2. a \in Seq(Nat) /\ DOMAIN a = 1..Len(a) /\ m \in Nat
    <3>1. head \in Seq(Nat) /\ stream \in Seq(Nat) /\ msgsSent \in Nat
      BY <1>1 DEF TcpInv, TcpTypes
    <3> QED
      BY <2>1, <3>1
  <2>3. m \notin Got
    BY DEF Got, Range
  <2>4. PICK i \in 1..Len(a) : WholeAt(a, i, m)
    <3>1. AllThere(a, msgsSent, Got)
      BY <1>1, <2>1 DEF TcpInv, BytesAhead
    <3> QED
      BY <2>3, <3>1 DEF AllThere
  <2>5. Len(a) >= i + FlagLen + 2 /\ SubSeq(a, i, i + FlagLen + 2) = Framed(m)
    BY <2>2, <2>4, WholeIsFramed
  <2> QED
    BY <2>1, <2>2, <2>4, <2>5
<1> QED
  BY <1>1, TcpInvAlways, PTL
=============================================================================
