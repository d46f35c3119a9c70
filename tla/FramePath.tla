----------------------------- MODULE FramePath -----------------------------
(***************************************************************************)
(* The path of one frame between a phone and a device.                     *)
(*                                                                         *)
(* The sender encodes it with its own secret; the comet it is connected to *)
(* (mws.go: the read loop of a phone, devop.go: opcode03 and opcode05 of a *)
(* device) decodes it and, opcode 5, encodes it again in clear; Forward    *)
(* carries it to the comet of the receiver, whose PushMsg (ms.go,          *)
(* devsess.go) encodes it with the receiver's secret.  A frame of opcode 3 *)
(* is carried as it came.  The link of the sender may damage the frame.    *)
(*                                                                         *)
(* Beside it, the notices that a device comet sends to the users of a      *)
(* device (rds.go Push...MsgToUsers, sentinel.go NotifyBindedIdChanged):   *)
(* one Msg, encoded once for every receiver.                               *)
(*                                                                         *)
(* Phones and devices are not part of the repository: they are taken to    *)
(* use the same codec.  Routing is in module Forwarding, the number check  *)
(* of requests in module SeqCheck.                                         *)
(***************************************************************************)
EXTENDS MsgCodec, FiniteSets

CONSTANTS
    Contents,       \* what a block of bytes may hold
    Texts,          \* the texts of the messages
    Times,          \* times in the header of the sender's frame; 0: none yet
    Seqs,           \* numbers in the header of the sender's frame
    Receivers       \* the lists of users that notices go to

\* Runs of bytes, as sequences of blocks.
TextBlocks == [len : Nat, val : Contents]

\* A text, with the session id and the padding before it is encrypted, fits
\* the 16 bits of DHLength.
ASSUME TextsAssumption ==
    \A t \in Texts : t \in Seq(TextBlocks) /\ Bytes(t) + 8 < 65536
ASSUME ReceiversAssumption == Receivers \subseteq Seq(STRING)

VARIABLES
    way,        \* who sends which opcode over which kind of comet
    stage,      \* where the frame is
    sent,       \* the text the sender meant
    link,       \* the frame on the sender's link
    damaged,    \* the link has altered the frame
    relayed,    \* the frame that Forward carries
    arrived,    \* the frame the receiver reads
    got,        \* what the receiver decoded
    queue,      \* notices still to be encoded
    shared,     \* the Msg that all notices of one call share
    notices     \* the notices the phones have read
pathVars == <<way, stage, sent, link, damaged, relayed, arrived, got,
              queue, shared, notices>>

None == "none"
PhoneKey == "kp"
DevKey == "kd"
Keys == {PhoneKey, DevKey, NoKey}
Sid == [len |-> 8, val |-> "sid"]       \* the device's session id
Altered == <<[len |-> 3, val |-> "altered"]>>

FromPhone == {"phone3", "phone5"}
FromDev == {"udp3", "udp5", "tcp3", "tcp5"}
Opcode3 == {"phone3", "udp3", "tcp3"}

PathInit ==
    /\ way = None /\ stage = "idle" /\ sent = <<>> /\ damaged = FALSE
    /\ link = None /\ relayed = None /\ arrived = None /\ got = None
    /\ queue = <<>> /\ shared = None /\ notices = <<>>

noticeVars == <<queue, shared, notices>>

-----------------------------------------------------------------------------
(* The sender and its link (external).                                     *)

Sender(w) == IF w \in FromPhone THEN "u1" ELSE "dev"
Receiver(w) == IF w \in FromPhone THEN "dev" ELSE "u1"
SenderKey(w) == IF w \in FromPhone THEN PhoneKey ELSE DevKey
ReceiverKey(w) == IF w \in FromPhone THEN DevKey ELSE PhoneKey

\* An opcode 3 frame wraps a whole frame behind its guid.
Wrap(w, mask, inner) ==
    LET bare == [opcode |-> 3, mask |-> mask, seq |-> 4, time |-> 6, veil |-> 0,
                 dst |-> Receiver(w), src |-> Sender(w),
                 guid |-> Encrypt(<<Sid>>, RandomKeyGet(4, Sender(w), 6, SenderKey(w))),
                 level |-> 0, dhlen |-> 0, headCheck |-> <<>>, check |-> <<>>,
                 body |-> inner]
    IN  Toggle(bare)

Send(w, mask, level, seq, time, text) ==
    /\ stage = "idle"
    /\ way' = w /\ sent' = text /\ stage' = "link"
    /\ LET m == NewMsg(IF w \in Opcode3 THEN 2 ELSE 5, mask, level, seq, time,
                       Sender(w), Receiver(w), SenderKey(w), Sid, text)
           f == Msg2Binary(m).frame
       IN  /\ Encodes(m)
           /\ link' = IF w \in Opcode3 THEN Wrap(w, mask, f) ELSE f
    /\ UNCHANGED <<damaged, relayed, arrived, got, noticeVars>>

\* A damaged address, length, checksum or body.
Damage(f, kind) ==
    CASE kind = "addr" -> [f EXCEPT !.dst = "u2"]
      [] kind = "len" -> [f EXCEPT !.body.len = @ - 1]
      [] kind = "check" -> [f EXCEPT !.check = Altered]
      [] kind = "body" /\ f.level = 0 ->
            [f EXCEPT !.body.data = <<Head(@)>> \o Altered]
      [] kind = "body" /\ f.level # 0 -> [f EXCEPT !.body.key = <<"broken">>]

LinkDamages(kind) ==
    /\ stage = "link" /\ ~damaged /\ way \notin Opcode3
    /\ link' = Damage(link, kind) /\ link' # link
    /\ damaged' = TRUE
    /\ UNCHANGED <<way, stage, sent, relayed, arrived, got, noticeVars>>

-----------------------------------------------------------------------------
(* The sender's comet.                                                     *)

\* What the comets do with a decoded opcode 5 message: DHKeyLevel = 0 and
\* Msg2Binary, with the fields that Binary2Msg left in the Msg.
InClear(r) ==
    Msg2Binary(NewMsg(r.opcode, r.mask, 0, r.seq, r.time, r.src, r.dst, NoKey,
                      IF r.sess = Nil THEN ZeroSess ELSE r.sess, r.text)).frame

\* mws.go: an opcode 5 frame that does not decode ends the connection.
PhoneAccepts_Ignored(r) == TRUE
PhoneAccepts(r) == ~r.err

PhoneOpcode5 ==
    /\ stage = "link" /\ way = "phone5"
    /\ \E r \in Binary2Msg(link, PhoneKey) :
        IF PhoneAccepts(r)
        THEN stage' = "relayed" /\ relayed' = InClear(r)
        ELSE stage' = "closed" /\ UNCHANGED relayed
    /\ UNCHANGED <<way, sent, link, damaged, arrived, got, noticeVars>>

\* opcode05 ignores the error of Binary2Msg; over UDP the session id that was
\* decoded must be that of a session (Byte2Sess).
FindsSession(r) == way = "tcp5" \/ r.sess = Sid

DevOpcode05 ==
    /\ stage = "link" /\ way \in {"udp5", "tcp5"}
    /\ \E r \in Binary2Msg(link, DevKey) :
        IF FindsSession(r)
        THEN stage' = "relayed" /\ relayed' = InClear(r)
        ELSE stage' = "refused" /\ UNCHANGED relayed
    /\ UNCHANGED <<way, sent, link, damaged, arrived, got, noticeVars>>

\* mws.go, opcode 3: the frame has been decoded in place and is sent on.
PhoneOpcode3 ==
    /\ stage = "link" /\ way = "phone3"
    /\ relayed' = FrameHeader(link).frame
    /\ stage' = "relayed"
    /\ UNCHANGED <<way, sent, link, damaged, arrived, got, noticeVars>>

\* opcode03: Header on the frame, FrameHeader on the one it carries.
DevOpcode03 ==
    /\ stage = "link" /\ way \in {"udp3", "tcp3"}
    /\ LET r == Header(link, DevKey)
           inner == FrameHeader(link.body)
       IN  IF way = "udp3" /\ r.guid # <<Sid>>
           THEN stage' = "refused" /\ UNCHANGED relayed
           ELSE /\ stage' = "relayed"
                /\ relayed' = [r.frame EXCEPT !.body = inner.frame]
    /\ UNCHANGED <<way, sent, link, damaged, arrived, got, noticeVars>>

-----------------------------------------------------------------------------
(* The receiver's comet and the receiver.                                  *)

\* PushMsg of both pools: an opcode 5 frame is encoded again with the
\* session's secret; for a device the address becomes its MAC.
WithSecret(r, mz, dst) ==
    Msg2Binary(NewMsg(5, TRUE, 3, r.seq, r.time, r.src, dst, mz, r.sess, r.text)).frame

UsrPushMsg(mz) ==
    /\ stage = "relayed" /\ way \in FromDev
    /\ \E r \in IF relayed.opcode = 5 /\ mz # NoKey
                THEN Binary2Msg(relayed, NoKey) ELSE {FrameHeader(relayed)} :
        arrived' = IF r.opcode = 5 /\ mz # NoKey
                   THEN WithSecret(r, mz, r.dst) ELSE r.frame
    /\ stage' = "arrived"
    /\ UNCHANGED <<way, sent, link, damaged, relayed, got, noticeVars>>

\* A device without secret, or a sub-device whose MAC is not known, is skipped.
DevPushMsg(mz, macKnown) ==
    /\ stage = "relayed" /\ way \in FromPhone
    /\ \E r \in IF relayed.opcode = 5
                THEN Binary2Msg(relayed, NoKey) ELSE {FrameHeader(relayed)} :
        CASE r.opcode = 5 /\ macKnown /\ mz # NoKey ->
                arrived' = WithSecret(r, mz, "mac") /\ stage' = "arrived"
          [] r.opcode = 5 /\ (~macKnown \/ mz = NoKey) ->
                stage' = "refused" /\ UNCHANGED arrived
          [] r.opcode # 5 -> arrived' = r.frame /\ stage' = "arrived"
    /\ UNCHANGED <<way, sent, link, damaged, relayed, got, noticeVars>>

\* External: the receiver decodes what it reads.
Receive ==
    /\ stage = "arrived"
    /\ got' \in IF way \in Opcode3
                THEN Binary2Msg(arrived.body, SenderKey(way))
                ELSE Binary2Msg(arrived, ReceiverKey(way))
    /\ stage' = "done"
    /\ UNCHANGED <<way, sent, link, damaged, relayed, arrived, noticeVars>>

-----------------------------------------------------------------------------
(* Notices.                                                                *)

NoticeMsg == NewMsg(2, TRUE, 0, 0, 5, 0, 0, NoKey, ZeroSess, <<>>)
Entry(u, text) == [dst |-> u, text |-> text]

\* PushDevOnlineMsgToUsers, PushSubDevOnOfflineMsgToUsers and
\* NotifyBindedIdChanged: the same text for every user.
PushOneText(us, text) ==
    /\ stage = "idle" /\ us # <<>>
    /\ queue' = [i \in DOMAIN us |-> Entry(us[i], text)]
    /\ shared' = NoticeMsg /\ way' = "notice" /\ stage' = "notice"
    /\ UNCHANGED <<sent, link, damaged, relayed, arrived, got, notices>>

\* PushDevOfflineMsgToUsers: for every user, the text of each device of the
\* session, in the order in which Go happens to range over the map sess.devs.
Ranges(texts) ==
    {o \in [1..Cardinality(texts) -> texts] :
        \A t \in texts : \E i \in 1..Cardinality(texts) : o[i] = t}

PushDevOfflineMsgToUsers(us, texts) ==
    /\ stage = "idle" /\ us # <<>>
    /\ \E told \in [DOMAIN us -> Ranges(texts)] :
        LET n == Cardinality(texts)
        IN  queue' = [k \in 1..(Len(us) * n) |->
                        LET i == ((k - 1) \div n) + 1
                            j == ((k - 1) % n) + 1
                        IN  Entry(us[i], told[i][j])]
    /\ shared' = NoticeMsg /\ way' = "notice" /\ stage' = "notice"
    /\ UNCHANGED <<sent, link, damaged, relayed, arrived, got, notices>>

\* One turn of those loops: FHDstId and Text are set, the shared Msg is
\* encoded and forwarded; the phone's comet hands opcode 2 on as it is.
ForwardNotice ==
    /\ stage = "notice" /\ queue # <<>>
    /\ LET n == Head(queue)
           e == Msg2Binary([shared EXCEPT !.dst = n.dst, !.text = n.text])
       IN  \E r \in Binary2Msg(e.frame, NoKey) :
            /\ shared' = e.msg
            /\ notices' = Append(notices, [want |-> n, got |-> r])
    /\ queue' = Tail(queue)
    /\ UNCHANGED <<way, stage, sent, link, damaged, relayed, arrived, got>>

PathNext ==
    \/ \E w \in FromPhone \cup FromDev, mask \in BOOLEAN, level \in {0, 1, 3},
          seq \in Seqs, time \in Times, text \in Texts :
            Send(w, mask, level, seq, time, text)
    \/ \E kind \in {"addr", "len", "check", "body"} : LinkDamages(kind)
    \/ PhoneOpcode5
    \/ DevOpcode05
    \/ PhoneOpcode3
    \/ DevOpcode03
    \/ \E mz \in {PhoneKey, NoKey} : UsrPushMsg(mz)
    \/ \E mz \in {DevKey, NoKey}, macKnown \in BOOLEAN : DevPushMsg(mz, macKnown)
    \/ Receive
    \/ \E us \in Receivers, text \in Texts \ {<<>>} : PushOneText(us, text)
    \/ \E us \in Receivers, texts \in SUBSET (Texts \ {<<>>}) :
        /\ IsFiniteSet(texts) /\ texts # {}
        /\ PushDevOfflineMsgToUsers(us, texts)
    \/ ForwardNotice

PathSpec == PathInit /\ [][PathNext]_pathVars

-----------------------------------------------------------------------------
(* Properties.                                                             *)

(***************************************************************************)
(* A frame that the sender's link leaves alone passes the sender's comet   *)
(* and decodes at the receiver to the text that was meant and the sender's *)
(* address, whatever the key levels, masks and secrets on the way (three   *)
(* encodings and decodings by Msg2Binary and Binary2Msg for opcode 5, four *)
(* readings in place for opcode 3).                                        *)
(***************************************************************************)
EndToEnd ==
    ~damaged =>
        /\ stage # "closed" /\ ~(stage = "refused" /\ way \in FromDev)
        /\ stage = "done" =>
            /\ ~got.err
            /\ got.text = sent
            /\ got.src = Sender(way)

(***************************************************************************)
(* What a damaged frame can become.  From a phone: nothing, for mws.go     *)
(* ends the connection when Binary2Msg fails.  From a device over UDP:     *)
(* nothing but an empty text, for opcode05 ignores the error and only the  *)
(* session id stops the frame.  (Over TCP, opcode05 passes on whatever     *)
(* Binary2Msg left in the message.)                                        *)
(***************************************************************************)
NothingForged ==
    stage = "done" /\ damaged /\ ~got.err =>
        /\ way # "phone5"
        /\ way = "udp5" => got.text = <<>>

(***************************************************************************)
(* Of the notices that one call encodes with the same Msg, the first       *)
(* decodes to its text and any later one is refused by its body checksum:  *)
(* m.datacrc still holds the earlier ones.  No phone ever accepts a notice *)
(* with another text than the one meant for it.                            *)
(***************************************************************************)
NoticeAsMeant ==
    \A i \in DOMAIN notices :
        LET n == notices[i]
        IN  /\ i = 1 <=> ~n.got.err
            /\ ~n.got.err => n.got.text = n.want.text /\ n.got.dst = n.want.dst
=============================================================================
