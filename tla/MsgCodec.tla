------------------------------ MODULE MsgCodec ------------------------------
(***************************************************************************)
(* The message codec of octopus/msgs/msg.go, with the block padding of     *)
(* octopus/common/aes/aes.go and the checksum of octopus/common/common.go, *)
(* as operators on records.                                                *)
(*                                                                         *)
(* Bytes are abstracted to what the code tells apart.  A run of bytes is a *)
(* sequence of blocks [len, val], so that lengths are real; a checksum is  *)
(* the sequence it was computed from (the 8-bit CRC is taken never to      *)
(* collide: one altered frame in 256 passes it in reality);                *)
(* a cipher text is its plain text together with its key; the derived key  *)
(* is the tuple it is derived from.  The masked bytes of a frame are its   *)
(* fields, and how often MaskContent was applied to them (modulo 2).       *)
(***************************************************************************)
EXTENDS Naturals, Sequences

NoKey == "nil"          \* MZ nil: the session has no secret
Clear == "clear"        \* the "key" of a body that is not encrypted
Garbled == "garbled"    \* what is read from bytes that are (still) masked
Nil == <<>>             \* a nil []byte
ZeroSess == [len |-> 8, val |-> "zero"]     \* DHSessionId left at zero
Noise == [len |-> 7, val |-> "noise"]       \* nonsense short enough to be kept
Now == 9                \* what the clock gives when FHTime is 0

\* The length of a run of bytes.
Bytes(data) ==
    LET upTo[i \in 0..Len(data)] == IF i = 0 THEN 0 ELSE upTo[i - 1] + data[i].len
    IN  upTo[Len(data)]

\* octopus/common/common.go Crc
Crc(data) == data

\* RandomKeyGet, and the XOR with MZ that levels 3 and the guid add to it.
RandomKeyGet(seq, src, time, mz) == <<seq, src, time, mz>>

\* aes.Encrypt: PKCS5 padding to whole blocks of 16, always at least one byte.
Encrypt(data, key) ==
    [key |-> key, data |-> data, len |-> 16 * ((Bytes(data) \div 16) + 1)]

(***************************************************************************)
(* aes.Decrypt: with the right key, the plain text.  Nonsense decrypts to  *)
(* nonsense, of which PKCS5UnPadding refuses some and returns the rest.    *)
(***************************************************************************)
Decrypt(cipher, key) == IF cipher.key = key THEN cipher.data ELSE <<Noise>>

NewMsg(opcode, mask, level, seq, time, src, dst, mz, sess, text) ==
    [opcode |-> opcode, mask |-> mask, level |-> level, seq |-> seq,
     time |-> time, src |-> src, dst |-> dst, mz |-> mz, guid |-> Nil,
     sess |-> sess, text |-> text, datacrc |-> <<>>]

(***************************************************************************)
(* MaskContent XORs bytes [8:32] (opcode 3: [8:40]) with the time bytes:   *)
(* doing it twice does nothing.  The masked bytes are the two addresses    *)
(* and, opcode 3, the guid, or else the data header.                       *)
(***************************************************************************)
MaskContent(f) == [f EXCEPT !.veil = 1 - @]
Toggle(f) == IF f.mask THEN MaskContent(f) ELSE f
Seen(f, v) == IF f.veil = 0 THEN v ELSE Garbled
HeadSeen(f, v) == IF f.opcode = 3 THEN v ELSE Seen(f, v)

HeadBytes(f) ==
    <<f.opcode, f.mask, f.seq, f.time, f.dst, f.src, f.guid, f.level, f.dhlen>>

\* The accumulated bytes the checksum is taken of: Msg2Binary appends to
\* m.datacrc, and nothing ever empties it.
DataCrc(m) == m.datacrc \o <<m.sess>> \o m.text

\* The body that Msg2Binary writes behind the data header, per key level.
BodyOf_SendsDataCrc(m, datacrc, key) ==
    IF m.level = 0
    THEN [key |-> Clear, data |-> datacrc, len |-> Bytes(datacrc)]
    ELSE Encrypt(datacrc, key)
BodyOf(m, datacrc, key) ==
    IF m.level = 0
    THEN [key |-> Clear, data |-> <<m.sess>> \o m.text,
          len |-> 8 + Bytes(m.text)]
    ELSE Encrypt(datacrc, key)

KeyFor(m, time) ==
    RandomKeyGet(m.seq, m.src, time, IF m.level = 3 THEN m.mz ELSE NoKey)

(***************************************************************************)
(* Msg2Binary succeeds at levels 0, 1 and (with a secret) 3; level 2 is    *)
(* reserved and yields no bytes.  The result is the frame and the message  *)
(* with the fields the call leaves changed.                                *)
(***************************************************************************)
Encodes(m) == m.level \in {0, 1} \/ (m.level = 3 /\ m.mz # NoKey)

Msg2Binary(m) ==
    LET time == IF m.time = 0 THEN Now ELSE m.time
        crc == DataCrc(m)
        key == KeyFor(m, time)
        body == BodyOf(m, crc, key)
        bare == [opcode |-> m.opcode, mask |-> m.mask, seq |-> m.seq,
                 time |-> time, veil |-> 0, dst |-> m.dst, src |-> m.src,
                 guid |-> IF m.opcode = 3 /\ m.level = 3 /\ m.guid # Nil
                          THEN Encrypt(m.guid, key) ELSE Nil,
                 level |-> m.level, dhlen |-> (body.len - 8) % 65536,
                 headCheck |-> <<>>, check |-> Crc(crc), body |-> body]
        checked == [bare EXCEPT !.headCheck = Crc(HeadBytes(bare))]
    IN  [msg |-> [m EXCEPT !.time = time, !.datacrc = crc],
         frame |-> Toggle(checked)]

(***************************************************************************)
(* What a decoder leaves in its Msg.  The callers that ignore the error go *)
(* on with these fields, so they are part of the result.  "frame" is Final *)
(* after the call: masked content is unmasked, and masked again on return. *)
(***************************************************************************)
Read_NoRemask(f, err, sess, text) ==
    LET u == Toggle(f)
    IN  [err |-> err, opcode |-> f.opcode, mask |-> f.mask, seq |-> f.seq,
         time |-> f.time, dst |-> Seen(u, u.dst), src |-> Seen(u, u.src),
         level |-> HeadSeen(u, u.level), sess |-> sess, text |-> text,
         guid |-> Nil, frame |-> u]
Read(f, err, sess, text) ==
    LET u == Toggle(f)
    IN  [err |-> err, opcode |-> f.opcode, mask |-> f.mask, seq |-> f.seq,
         time |-> f.time, dst |-> Seen(u, u.dst), src |-> Seen(u, u.src),
         level |-> HeadSeen(u, u.level), sess |-> sess, text |-> text,
         guid |-> Nil, frame |-> Toggle(u)]

\* FrameHeader: the addresses only.
FrameHeader(f) == Read(f, f.opcode \notin {1, 2, 3, 5}, Nil, <<>>)

(***************************************************************************)
(* Header: the addresses and, opcode 3, the guid decrypted with the        *)
(* session's secret; a guid that does not decrypt is nil.                  *)
(***************************************************************************)
Header(f, mz) ==
    LET r == FrameHeader(f)
        u == Toggle(f)
        key == RandomKeyGet(f.seq, r.src, f.time, mz)
    IN  IF f.opcode # 3 THEN r
        ELSE IF mz = NoKey THEN [r EXCEPT !.err = TRUE]
        ELSE IF u.veil = 0 /\ u.guid # Nil /\ u.guid.key = key
             THEN [r EXCEPT !.guid = u.guid.data] ELSE r

\* The header of the frame is whole: length and header checksum agree.
HeaderWhole(f) ==
    LET u == Toggle(f)
    IN  /\ f.opcode \in {1, 2, 3, 5}
        /\ u.veil = 0 \/ f.opcode = 3      \* else the header is nonsense
        /\ u.dhlen = u.body.len - 8
        /\ u.headCheck = Crc(HeadBytes(u))

BodyChecks(f, data) == f.check = Crc(data)

(***************************************************************************)
(* Binary2Msg, as the set of its possible results (a cipher text under     *)
(* another key decrypts to anything: with fewer than 8 bytes left the code *)
(* returns an error but keeps them as the text).                           *)
(***************************************************************************)
Binary2Msg(f, mz) ==
    LET key == RandomKeyGet(f.seq, f.src, f.time,
                            IF f.level = 3 THEN mz ELSE NoKey)
        data == Decrypt(f.body, key)
        noise == data = <<Noise>>
    IN  IF ~HeaderWhole(f) THEN {Read(f, TRUE, Nil, <<>>)}
        ELSE CASE f.level = 0 ->
                    {IF BodyChecks(f, f.body.data)
                     THEN Read(f, FALSE, Head(f.body.data), Tail(f.body.data))
                     ELSE Read(f, TRUE, Head(f.body.data), <<>>)}
               [] f.level = 2 -> {Read(f, FALSE, Nil, <<>>)}
               [] f.level = 3 /\ mz = NoKey -> {Read(f, TRUE, Nil, <<>>)}
               [] noise /\ (f.level = 1 \/ (f.level = 3 /\ mz # NoKey)) ->
                    {Read(f, TRUE, Nil, <<>>), Read(f, TRUE, Nil, <<Noise>>)}
               [] OTHER ->
                    {IF BodyChecks(f, data)
                     THEN Read(f, FALSE, Head(data), Tail(data))
                     ELSE Read(f, TRUE, Nil, <<>>)}
=============================================================================
