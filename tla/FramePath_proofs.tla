-------------------------- MODULE FramePath_proofs --------------------------
(***************************************************************************)
(* Proofs about the message codec and the path of a frame, for any texts   *)
(* that the length field can hold, any times and numbers in the header,    *)
(* any key levels, masks and lists of receivers.                           *)
(*                                                                         *)
(* Frames are described by what decodes them: Carries(f, mz, sess, text)   *)
(* says that f is whole and holds the session id and the text for the      *)
(* secret mz.  Msg2Binary makes such frames, Binary2Msg reads them and     *)
(* leaves them such frames, and a damaged frame is refused by the checks   *)
(* of Binary2Msg.  The invariant (PathInv) says for each stage of the path *)
(* for whom the frame carries which text; that of the notices (NoticeInv), *)
(* that the message they share has collected bytes once one was encoded.   *)
(***************************************************************************)
EXTENDS FramePath, SequenceTheorems, FiniteSetTheorems, WellFoundedInduction, TLAPS

-----------------------------------------------------------------------------
(* The length of a run of bytes.                                           *)

Block == [len : Nat, val : Contents \cup {"sid", "zero", "altered"}]

\* The recursion of Bytes: f holds the lengths of the beginnings of data.
IsLengths(data, f) ==
    f = [i \in 0..Len(data) |-> IF i = 0 THEN 0 ELSE f[i - 1] + data[i].len]

\* A set of numbers that is not empty has a least one.
LEMMA LeastNumber ==
    ASSUME NEW S \in SUBSET Nat, S # {}
    PROVE  \E x \in S : \A y \in S : ~(y < x)
<1> DEFINE Less == {ss \in Nat \X Nat : ss[1] < ss[2]}
<1>1. IsWellFoundedOn(Less, Nat)
  BY NatLessThanWellFounded DEF Less, OpToRel
<1>2. \E x \in S : \A y \in S : ~(<<y, x>> \in Less)
  BY <1>1, WFMin
<1>3. PICK x \in S : \A y \in S : ~(<<y, x>> \in Less)
  BY <1>2
<1>4. \A y \in S : <<y, x>> \in Nat \X Nat /\ <<y, x>>[1] = y /\ <<y, x>>[2] = x
  OBVIOUS
<1> QED
  BY <1>3, <1>4

\* A set of numbers that holds 0 and, below n, with k also k + 1, holds all
\* numbers up to n.  (What an induction shows, said of sets.)
LEMMA Ascends ==
    ASSUME NEW P \in SUBSET Nat, 0 \in P, NEW n \in Nat,
           \A k \in 0..(n - 1) : k \in P => k + 1 \in P
    PROVE  \A k \in 0..n : k \in P
<1> DEFINE Bad == {k \in 0..n : k \notin P}
<1> SUFFICES ASSUME Bad # {} PROVE FALSE
  OBVIOUS
<1>1. Bad \in SUBSET Nat
  OBVIOUS
<1>2. PICK x \in Bad : \A y \in Bad : ~(y < x)
  BY <1>1, LeastNumber
<1>3. x \in 0..n /\ x # 0 /\ x \notin P
  OBVIOUS
<1>4. x - 1 \in 0..(n - 1) /\ x - 1 \in 0..n /\ x - 1 < x /\ (x - 1) + 1 = x
  BY <1>3
<1>5. x - 1 \in P
  BY <1>2, <1>4
<1> QED
  BY <1>3, <1>4, <1>5

\* The lengths exist: for a prefix of every length.
LEMMA LengthsExist ==
    ASSUME NEW data \in Seq(Block) PROVE \E f : IsLengths(data, f)
<1> DEFINE Rec(n, f) == f = [i \in 0..n |-> IF i = 0 THEN 0 ELSE f[i - 1] + data[i].len]
           P == {n \in 0..Len(data) : \E f : Rec(n, f)}
           N == Len(data)
<1>0. N \in Nat
  OBVIOUS
<1>1. 0 \in P
  <2>1. Rec(0, [i \in 0..0 |-> 0])
    OBVIOUS
  <2>2. \E f : Rec(0, f)
    <3> HIDE DEF Rec
    <3> QED
      BY <2>1
  <2> QED
    BY <1>0, <2>2
<1>2. ASSUME NEW k \in 0..(N - 1), k \in P PROVE k + 1 \in P
  <2>1. PICK f : Rec(k, f)
    BY <1>2
  <2> DEFINE g == [i \in 0..(k + 1) |-> IF i = k + 1 THEN f[k] + data[k + 1].len ELSE f[i]]
  <2>2. \A i \in 0..k : f[i] = IF i = 0 THEN 0 ELSE f[i - 1] + data[i].len
    BY <2>1
  <2>3. \A i \in 0..(k + 1) : g[i] = IF i = 0 THEN 0 ELSE g[i - 1] + data[i].len
    <3>1. ASSUME NEW i \in 0..(k + 1) PROVE g[i] = IF i = 0 THEN 0 ELSE g[i - 1] + data[i].len
      <4>1. CASE i = k + 1
        <5>1. k \in 0..(k + 1) /\ k # k + 1 /\ i - 1 = k /\ i # 0
          BY <1>0, <4>1
        <5> QED
          BY <4>1, <5>1
      <4>2. CASE i # k + 1
        <5>1. i \in 0..k /\ (i # 0 => i - 1 \in 0..(k + 1) /\ i - 1 # k + 1)
          BY <4>2
        <5> QED
          BY <2>2, <4>2, <5>1
      <4> QED
        BY <4>1, <4>2
    <3> QED
      BY <3>1
  <2>4. Rec(k + 1, g)
    <3> DEFINE h == [i \in 0..(k + 1) |-> IF i = 0 THEN 0 ELSE g[i - 1] + data[i].len]
    <3>1. DOMAIN g = 0..(k + 1) /\ g = [i \in 0..(k + 1) |-> g[i]]
      OBVIOUS
    <3> HIDE DEF g
    <3>2. \A i \in 0..(k + 1) : h[i] = g[i]
      BY <2>3
    <3>3. h = [i \in 0..(k + 1) |-> h[i]]
      OBVIOUS
    <3> HIDE DEF h
    <3>4. g = h
      BY <3>1, <3>2, <3>3
    <3> QED
      BY <3>4 DEF h
  <2>5. \E ff : Rec(k + 1, ff)
    <3> HIDE DEF Rec, g
    <3> QED
      BY <2>4
  <2>6. k + 1 \in 0..Len(data)
    BY <1>0
  <2> QED
    BY <2>5, <2>6
<1>3. N \in P
  <2> HIDE DEF P
  <2>1. P \in SUBSET Nat /\ N \in 0..N
    BY <1>0 DEF P
  <2> HIDE DEF N
  <2>2. \A k \in 0..(N - 1) : k \in P => k + 1 \in P
    BY <1>2
  <2>3. \A k \in 0..N : k \in P
    BY <1>0, <1>1, <2>1, <2>2, Ascends
  <2> QED
    BY <2>1, <2>3
<1> QED
  BY <1>3 DEF IsLengths

\* Bytes is the last of them.
LEMMA BytesIs ==
    ASSUME NEW data \in Seq(Block)
    PROVE  \E f : IsLengths(data, f) /\ Bytes(data) = f[Len(data)]
<1> DEFINE f == CHOOSE g : g = [i \in 0..Len(data) |-> IF i = 0 THEN 0 ELSE g[i - 1] + data[i].len]
<1>1. IsLengths(data, f)
  <2>1. \E g : g = [i \in 0..Len(data) |-> IF i = 0 THEN 0 ELSE g[i - 1] + data[i].len]
    BY LengthsExist DEF IsLengths
  <2> QED
    BY <2>1, Zenon DEF IsLengths
<1>2. Bytes(data) = f[Len(data)]
  BY Zenon DEF Bytes
<1> QED
  BY <1>1, <1>2, Zenon

\* What the recursion says of each position.
LEMMA LengthsAt ==
    ASSUME NEW data \in Seq(Block), NEW f, IsLengths(data, f)
    PROVE  /\ f[0] = 0
           /\ \A i \in 0..Len(data) : f[i] \in Nat
           /\ \A i \in 1..Len(data) : f[i] = f[i - 1] + data[i].len
<1> DEFINE N == Len(data)
<1>0. N \in Nat /\ \A i \in 1..N : data[i].len \in Nat
  <2>1. N \in Nat /\ \A i \in 1..N : data[i] \in Block
    OBVIOUS
  <2> QED
    BY <2>1 DEF Block
<1>1. \A i \in 0..N : f[i] = IF i = 0 THEN 0 ELSE f[i - 1] + data[i].len
  BY DEF IsLengths
<1> HIDE DEF N
<1>2. f[0] = 0
  BY <1>0, <1>1
<1>3. \A i \in 1..N : f[i] = f[i - 1] + data[i].len
  BY <1>0, <1>1
<1>4. \A i \in 0..N : f[i] \in Nat
  <2> DEFINE P == {i \in Nat : f[i] \in Nat}
  <2>1. 0 \in P
    BY <1>2
  <2>2. ASSUME NEW k \in 0..(N - 1), k \in P PROVE k + 1 \in P
    <3>1. k + 1 \in 1..N /\ (k + 1) - 1 = k /\ k + 1 \in Nat
      BY <1>0
    <3>2. f[k + 1] = f[k] + data[k + 1].len
      BY <1>3, <3>1
    <3> QED
      BY <1>0, <2>2, <3>1, <3>2
  <2> HIDE DEF P
  <2>3. P \in SUBSET Nat
    BY DEF P
  <2>4. \A k \in 0..N : k \in P
    BY <1>0, <2>1, <2>2, <2>3, Ascends
  <2> QED
    BY <2>4 DEF P
<1> QED
  BY <1>2, <1>3, <1>4 DEF N

\* The length of a block and what follows it.
LEMMA BytesOfCons ==
    ASSUME NEW s \in Block, NEW t \in Seq(Block)
    PROVE  /\ Bytes(t) \in Nat
           /\ Bytes(<<s>> \o t) = s.len + Bytes(t)
<1> DEFINE d == <<s>> \o t
           N == Len(t)
<1>1. /\ d \in Seq(Block) /\ N \in Nat /\ Len(d) = N + 1 /\ d[1] = s
      /\ \A i \in 1..N : d[i + 1] = t[i]
  OBVIOUS
<1>2. PICK f : IsLengths(t, f) /\ Bytes(t) = f[N]
  BY BytesIs
<1>3. PICK g : IsLengths(d, g) /\ Bytes(d) = g[N + 1]
  BY <1>1, BytesIs
<1>4. s.len \in Nat
  BY DEF Block
<1> HIDE DEF d
<1>5. /\ f[0] = 0 /\ \A i \in 0..N : f[i] \in Nat
      /\ \A i \in 1..N : f[i] = f[i - 1] + t[i].len
  BY <1>2, LengthsAt
<1>6. /\ g[0] = 0 /\ \A i \in 0..(N + 1) : g[i] \in Nat
      /\ \A i \in 1..(N + 1) : g[i] = g[i - 1] + d[i].len
  BY <1>1, <1>3, LengthsAt
<1> HIDE DEF N
<1>7. \A i \in 1..N : t[i].len \in Nat
  <2>1. \A i \in 1..N : t[i] \in Block
    BY DEF N
  <2> QED
    BY <2>1 DEF Block
<1>8. \A i \in 0..N : g[i + 1] = s.len + f[i]
  <2> DEFINE P == {i \in Nat : g[i + 1] = s.len + f[i]}
  <2>1. 0 \in P
    <3>1. 1 \in 1..(N + 1) /\ 1 - 1 = 0 /\ 0 + 1 = 1
      BY <1>1
    <3>2. g[1] = g[0] + d[1].len
      BY <1>6, <3>1
    <3> QED
      BY <1>1, <1>4, <1>5, <1>6, <3>1, <3>2
  <2>2. ASSUME NEW k \in 0..(N - 1), k \in P PROVE k + 1 \in P
    <3>1. /\ k + 1 \in 1..N /\ (k + 1) + 1 \in 1..(N + 1) /\ (k + 1) - 1 = k
          /\ ((k + 1) + 1) - 1 = k + 1 /\ k + 1 \in Nat /\ k \in 0..N
      BY <1>1
    <3>2. g[(k + 1) + 1] = g[k + 1] + d[(k + 1) + 1].len
      BY <1>6, <3>1
    <3>3. f[k + 1] = f[k] + t[k + 1].len
      BY <1>5, <3>1
    <3>4. d[(k + 1) + 1] = t[k + 1]
      BY <1>1, <3>1
    <3>5. f[k] \in Nat /\ t[k + 1].len \in Nat
      BY <1>5, <1>7, <3>1
    <3>6. g[k + 1] = s.len + f[k]
      BY <2>2
    <3>7. g[(k + 1) + 1] = s.len + f[k + 1]
      BY <1>4, <3>2, <3>3, <3>4, <3>5, <3>6
    <3> QED
      BY <3>1, <3>7
  <2> HIDE DEF P
  <2>3. P \in SUBSET Nat
    BY DEF P
  <2>4. \A k \in 0..N : k \in P
    BY <1>1, <2>1, <2>2, <2>3, Ascends
  <2> QED
    BY <2>4 DEF P
<1>9. N \in 0..N
  BY <1>1
<1>10. g[N + 1] = s.len + f[N]
  BY <1>8, <1>9
<1> QED
  BY <1>2, <1>3, <1>5, <1>9, <1>10 DEF d

-----------------------------------------------------------------------------
(* The codec.                                                              *)

FrameShape(f) ==
    f = [opcode |-> f.opcode, mask |-> f.mask, seq |-> f.seq, time |-> f.time,
         veil |-> f.veil, dst |-> f.dst, src |-> f.src, guid |-> f.guid,
         level |-> f.level, dhlen |-> f.dhlen, headCheck |-> f.headCheck,
         check |-> f.check, body |-> f.body]
BodyShape(b) == b = [key |-> b.key, data |-> b.data, len |-> b.len] /\ b.len \in Nat

\* The fields of a frame that MaskContent leaves as they are.
SameFields(f, g) ==
    /\ f.opcode = g.opcode /\ f.mask = g.mask /\ f.seq = g.seq /\ f.time = g.time
    /\ f.dst = g.dst /\ f.src = g.src /\ f.guid = g.guid /\ f.level = g.level
    /\ f.dhlen = g.dhlen /\ f.headCheck = g.headCheck /\ f.check = g.check
    /\ f.body = g.body

\* As a frame is on the wire: masked if its mask bit says so.
OnWire(f) == FrameShape(f) /\ f.mask \in BOOLEAN /\ f.veil = IF f.mask THEN 1 ELSE 0

\* Reading a frame on the wire, MaskContent lays it open; the second time it
\* is as it was.
LEMMA ToggleFrame ==
    ASSUME NEW f, OnWire(f)
    PROVE  /\ FrameShape(Toggle(f)) /\ SameFields(Toggle(f), f) /\ Toggle(f).veil = 0
           /\ OnWire(Toggle(Toggle(f))) /\ SameFields(Toggle(Toggle(f)), f)
<1> DEFINE u == Toggle(f)
           v == Toggle(u)
<1>1. FrameShape(u) /\ SameFields(u, f) /\ u.veil = 0
  BY DEF OnWire, FrameShape, SameFields, Toggle, MaskContent
<1>2. u.mask = f.mask /\ f.mask \in BOOLEAN
  BY <1>1 DEF SameFields, OnWire
<1> HIDE DEF u
<1>3. FrameShape(v) /\ SameFields(v, u) /\ v.veil = IF f.mask THEN 1 ELSE 0
  BY <1>1, <1>2 DEF FrameShape, SameFields, Toggle, MaskContent
<1> HIDE DEF v
<1>4. OnWire(v) /\ SameFields(v, f)
  BY <1>1, <1>2, <1>3 DEF OnWire, SameFields
<1> QED
  BY <1>1, <1>4 DEF u, v

\* A whole frame, with the session id sess and the text, for the secret mz.
Keyed(f, mz) ==
    /\ f.level \in {0, 1, 3} /\ (f.level = 3 => mz # NoKey)
    /\ f.level # 0 => f.body.key = RandomKeyGet(f.seq, f.src, f.time,
                                               IF f.level = 3 THEN mz ELSE NoKey)
Whole(f, mz, sess, text) ==
    /\ OnWire(f) /\ BodyShape(f.body) /\ f.opcode \in {2, 5} /\ Keyed(f, mz)
    /\ f.dhlen = f.body.len - 8 /\ f.headCheck = HeadBytes(f)
    /\ f.body.data = <<sess>> \o text
Carries(f, mz, sess, text) == Whole(f, mz, sess, text) /\ f.check = <<sess>> \o text

\* A session id is eight bytes, a text has a length the header can hold.
Fits(text) == text \in Seq(Block) /\ Bytes(text) + 8 < 65536
IsSess(sess) == sess \in Block /\ sess.len = 8

\* What Msg2Binary writes is whole; its checksum is that of all the bytes the
\* message has collected.
LEMMA EncodeWhole ==
    ASSUME NEW m, Encodes(m), m.opcode \in {2, 5}, m.mask \in BOOLEAN,
           IsSess(m.sess), Fits(m.text),
           m.level = 0 \/ m.datacrc = <<>>
    PROVE  LET f == Msg2Binary(m).frame
           IN  /\ Whole(f, m.mz, m.sess, m.text)
               /\ f.check = m.datacrc \o <<m.sess>> \o m.text
               /\ f.opcode = m.opcode /\ f.src = m.src /\ f.dst = m.dst
               /\ f.level = m.level
<1> DEFINE time == IF m.time = 0 THEN Now ELSE m.time
           crc == DataCrc(m)
           key == KeyFor(m, time)
           body == BodyOf(m, crc, key)
           guid == IF m.opcode = 3 /\ m.level = 3 /\ m.guid # Nil
                   THEN Encrypt(m.guid, key) ELSE Nil
           bare == [opcode |-> m.opcode, mask |-> m.mask, seq |-> m.seq,
                    time |-> time, veil |-> 0, dst |-> m.dst, src |-> m.src,
                    guid |-> guid, level |-> m.level, dhlen |-> (body.len - 8) % 65536,
                    headCheck |-> <<>>, check |-> Crc(crc), body |-> body]
           checked == [bare EXCEPT !.headCheck = Crc(HeadBytes(bare))]
           f == Toggle(checked)
<1>1. Msg2Binary(m).frame = f
  BY DEF Msg2Binary
<1>2. /\ BodyShape(body) /\ body.data = <<m.sess>> \o m.text
      /\ (body.len - 8) % 65536 = body.len - 8
      /\ m.level # 0 => body.key = key
  <2>1. /\ Bytes(m.text) \in Nat /\ Bytes(<<m.sess>> \o m.text) = 8 + Bytes(m.text)
        /\ Bytes(m.text) + 8 < 65536
    BY BytesOfCons DEF Fits, IsSess
  <2> DEFINE B == Bytes(m.text)
  <2>2. CASE m.level = 0
    <3>1. body = [key |-> Clear, data |-> <<m.sess>> \o m.text, len |-> 8 + B]
      BY <2>2 DEF BodyOf
    <3> HIDE DEF body, B
    <3>2. body.len = 8 + B /\ B \in Nat /\ B < 65536
      BY <2>1, <3>1 DEF B
    <3>3. (body.len - 8) % 65536 = body.len - 8
      BY <3>2
    <3> QED
      BY <2>2, <3>1, <3>2, <3>3 DEF BodyShape
  <2>3. CASE m.level # 0
    <3>1. crc = <<m.sess>> \o m.text
      <4>1. m.datacrc = <<>> /\ <<m.sess>> \in Seq(Block)
        BY <2>3 DEF IsSess
      <4> QED
        BY <4>1 DEF DataCrc
    <3>2. body = [key |-> key, data |-> <<m.sess>> \o m.text,
                  len |-> 16 * (((8 + B) \div 16) + 1)]
      <4> HIDE DEF key, crc
      <4>1. body = [key |-> key, data |-> crc, len |-> 16 * ((Bytes(crc) \div 16) + 1)]
        BY <2>3 DEF BodyOf, Encrypt
      <4>2. Bytes(crc) = 8 + B
        BY <2>1, <3>1
      <4> HIDE DEF body, B
      <4> QED
        BY <3>1, <4>1, <4>2, Zenon
    <3> HIDE DEF body, B, key
    <3>3. /\ body.len = 16 * (((8 + B) \div 16) + 1) /\ B \in Nat /\ B + 8 < 65536
      BY <2>1, <3>2 DEF B
    <3>4. body.len \in Nat /\ body.len >= 8 /\ body.len - 8 < 65536
      BY <3>3
    <3>5. (body.len - 8) % 65536 = body.len - 8
      BY <3>4
    <3> QED
      BY <2>3, <3>2, <3>4, <3>5 DEF BodyShape
  <2> QED
    BY <2>2, <2>3
<1> HIDE DEF body, key, guid, time, crc
<1>3. FrameShape(checked)
  BY DEF FrameShape
<1>4. /\ checked.opcode = m.opcode /\ checked.mask = m.mask /\ checked.seq = m.seq
      /\ checked.time = time /\ checked.veil = 0 /\ checked.dst = m.dst
      /\ checked.src = m.src /\ checked.guid = guid /\ checked.level = m.level
      /\ checked.dhlen = (body.len - 8) % 65536 /\ checked.check = crc
      /\ checked.body = body /\ checked.headCheck = HeadBytes(bare)
  BY DEF Crc
<1>5. HeadBytes(bare) = HeadBytes(checked)
  BY <1>4 DEF HeadBytes
<1> HIDE DEF checked, bare
<1>6. OnWire(f) /\ SameFields(f, checked)
  BY <1>3, <1>4 DEF FrameShape, SameFields, OnWire, Toggle, MaskContent
<1> HIDE DEF f
<1>7. f.headCheck = HeadBytes(f)
  BY <1>4, <1>5, <1>6 DEF SameFields, HeadBytes
<1>8. Keyed(f, m.mz)
  BY <1>2, <1>4, <1>6 DEF Keyed, SameFields, Encodes, KeyFor, key
<1>9. Whole(f, m.mz, m.sess, m.text)
  BY <1>2, <1>4, <1>6, <1>7, <1>8 DEF Whole, SameFields
<1> QED
  BY <1>1, <1>4, <1>6, <1>9 DEF SameFields, crc, DataCrc

\* What a decoder says of a frame, beside the error.
ReadAs(r, f, sess, text) ==
    /\ r.opcode = f.opcode /\ r.mask = f.mask /\ r.seq = f.seq /\ r.time = f.time
    /\ r.src = f.src /\ r.dst = f.dst /\ r.sess = sess /\ r.text = text
    /\ r.frame = Toggle(Toggle(f))

LEMMA ReadFields ==
    ASSUME NEW f, OnWire(f), NEW sess, NEW text
    PROVE  /\ ReadAs(Read(f, TRUE, sess, text), f, sess, text)
           /\ ReadAs(Read(f, FALSE, sess, text), f, sess, text)
           /\ Read(f, TRUE, sess, text).err /\ ~Read(f, FALSE, sess, text).err
<1>1. Toggle(f).veil = 0 /\ Toggle(f).src = f.src /\ Toggle(f).dst = f.dst
  BY ToggleFrame DEF SameFields
<1>2. Seen(Toggle(f), Toggle(f).src) = f.src /\ Seen(Toggle(f), Toggle(f).dst) = f.dst
  BY <1>1 DEF Seen
<1>3. ReadAs(Read(f, TRUE, sess, text), f, sess, text)
  BY <1>2 DEF Read, ReadAs
<1>4. ReadAs(Read(f, FALSE, sess, text), f, sess, text)
  BY <1>2 DEF Read, ReadAs
<1>5. Read(f, TRUE, sess, text).err = TRUE /\ Read(f, FALSE, sess, text).err = FALSE
  BY DEF Read
<1> QED
  BY <1>3, <1>4, <1>5

\* A session id and a text are never taken for nonsense, and can be told apart.
LEMMA ContentParts ==
    ASSUME NEW sess, NEW text, IsSess(sess), text \in Seq(Block)
    PROVE  LET c == <<sess>> \o text
           IN  /\ c \in Seq(Block) /\ Head(c) = sess /\ Tail(c) = text /\ c # <<Noise>>
               /\ c # <<>> /\ c # Altered
<1> DEFINE c == <<sess>> \o text
<1>1. sess \in Block /\ sess.len = 8
  BY DEF IsSess
<1>2. c \in Seq(Block) /\ c # <<>> /\ c[1] = sess /\ Head(c) = sess
  BY <1>1
<1>3. Tail(c) = text
  BY <1>1
<1> HIDE DEF c
<1>4. c # <<Noise>>
  <2>1. <<Noise>>[1] = Noise /\ Noise.len = 7
    BY DEF Noise
  <2> QED
    BY <1>1, <1>2, <2>1
<1>5. c # Altered
  <2>1. Altered[1].len = 3
    BY DEF Altered
  <2> QED
    BY <1>1, <1>2, <2>1
<1> QED
  BY <1>2, <1>3, <1>4, <1>5 DEF c

\* A whole frame passes the checks of the header.
LEMMA WholeHeader ==
    ASSUME NEW f, NEW mz, NEW sess, NEW text, Whole(f, mz, sess, text)
    PROVE  HeaderWhole(f)
<1> DEFINE u == Toggle(f)
<1>1. SameFields(u, f) /\ u.veil = 0
  BY ToggleFrame DEF Whole
<1> HIDE DEF u
<1>2. HeadBytes(u) = HeadBytes(f)
  BY <1>1 DEF SameFields, HeadBytes
<1>3. /\ f.opcode \in {1, 2, 3, 5} /\ u.dhlen = u.body.len - 8 /\ u.headCheck = HeadBytes(u)
  BY <1>1, <1>2 DEF SameFields, Whole
<1> QED
  BY <1>1, <1>3 DEF HeaderWhole, Crc, u

(***************************************************************************)
(* Binary2Msg of a whole frame: if the checksum is that of its content,    *)
(* the session id and the text; else an error.                             *)
(***************************************************************************)
LEMMA DecodeWhole ==
    ASSUME NEW f, NEW mz, NEW sess, NEW text, Whole(f, mz, sess, text),
           IsSess(sess), text \in Seq(Block)
    PROVE  /\ f.check = <<sess>> \o text =>
                    Binary2Msg(f, mz) = {Read(f, FALSE, sess, text)}
           /\ f.check # <<sess>> \o text =>
                    \/ Binary2Msg(f, mz) = {Read(f, TRUE, sess, <<>>)}
                    \/ Binary2Msg(f, mz) = {Read(f, TRUE, Nil, <<>>)}
<1> DEFINE c == <<sess>> \o text
           key == RandomKeyGet(f.seq, f.src, f.time, IF f.level = 3 THEN mz ELSE NoKey)
           data == Decrypt(f.body, key)
<1>1. HeaderWhole(f)
  BY WholeHeader
<1>2. Head(c) = sess /\ Tail(c) = text /\ c # <<Noise>>
  BY ContentParts
<1>3. f.body.data = c /\ f.level \in {0, 1, 3} /\ (f.level = 3 => mz # NoKey)
  BY DEF Whole, Keyed
<1>4. f.level # 0 => data = c
  BY <1>3 DEF Whole, Keyed, Decrypt
<1> HIDE DEF c, data
<1>5. CASE f.level = 0
  <2>1. Binary2Msg(f, mz) = {IF BodyChecks(f, f.body.data)
                             THEN Read(f, FALSE, Head(f.body.data), Tail(f.body.data))
                             ELSE Read(f, TRUE, Head(f.body.data), <<>>)}
    BY <1>1, <1>5 DEF Binary2Msg
  <2> QED
    BY <1>2, <1>3, <2>1 DEF BodyChecks, Crc, c
<1>6. CASE f.level # 0
  <2>1. Binary2Msg(f, mz) = {IF BodyChecks(f, data)
                             THEN Read(f, FALSE, Head(data), Tail(data))
                             ELSE Read(f, TRUE, Nil, <<>>)}
    <3>1. /\ f.level # 2 /\ ~(f.level = 3 /\ mz = NoKey) /\ data # <<Noise>>
          /\ f.level # 0
      BY <1>2, <1>3, <1>4, <1>6
    <3> QED
      BY <1>1, <3>1 DEF Binary2Msg, data
  <2> QED
    BY <1>2, <1>4, <1>6, <2>1 DEF BodyChecks, Crc, c
<1> QED
  BY <1>5, <1>6

-----------------------------------------------------------------------------
(* The path.                                                               *)

PathTypes ==
    /\ stage \in {"idle", "link", "relayed", "arrived", "done", "closed",
                  "refused", "notice"}
    /\ way \in FromPhone \cup FromDev \cup {"notice", None}
    /\ damaged \in BOOLEAN /\ sent \in Texts \cup {<<>>}
    /\ stage \in {"link", "relayed", "arrived", "done", "closed", "refused"} =>
            way \in FromPhone \cup FromDev /\ (damaged => way \notin Opcode3)
    /\ stage = "idle" => ~damaged

\* A frame of opcode 3 with a text from w: the inner frame carries the text,
\* the guid is the session id for the sender's secret.
Wrapped(f, w, text) ==
    /\ OnWire(f) /\ f.opcode = 3 /\ f.src = Sender(w)
    /\ f.guid = Encrypt(<<Sid>>, RandomKeyGet(f.seq, f.src, f.time, SenderKey(w)))
    /\ Carries(f.body, SenderKey(w), Sid, text) /\ f.body.src = Sender(w)

\* A frame of opcode 5, for the secret mz: it carries the text, or none if it
\* was damaged.
Left(dam, text) == IF dam THEN <<>> ELSE text
Plain(f, mz, w, dam, text) ==
    Carries(f, mz, Sid, Left(dam, text)) /\ f.opcode = 5 /\ (~dam => f.src = Sender(w))

\* What the sender's comet makes of a damaged frame: an error, and no text
\* where there is a session id.
Refused(f, mz) ==
    \A r \in Binary2Msg(f, mz) :
        r.err /\ r.opcode = 5 /\ r.mask \in BOOLEAN /\ (r.sess = Sid => r.text = <<>>)

AtLink ==
    stage = "link" =>
        IF damaged THEN Refused(link, SenderKey(way))
        ELSE IF way \in Opcode3 THEN Wrapped(link, way, sent)
        ELSE Plain(link, SenderKey(way), way, FALSE, sent) /\ link.dst = Receiver(way)

\* Beyond the sender's comet, a damaged frame came over UDP, or over TCP,
\* where nothing stops it.
Unstopped == damaged /\ way = "tcp5"
Passed == damaged => way = "udp5"
AtRelay ==
    stage = "relayed" =>
        IF way \in Opcode3 THEN Wrapped(relayed, way, sent)
        ELSE \/ Unstopped
             \/ /\ Passed /\ relayed.level = 0
                /\ Plain(relayed, NoKey, way, damaged, sent)
AtReceiver ==
    stage = "arrived" =>
        IF way \in Opcode3 THEN Wrapped(arrived, way, sent)
        ELSE Unstopped \/ (Passed /\ Plain(arrived, ReceiverKey(way), way, damaged, sent))
AtEnd ==
    /\ stage = "done" => Unstopped \/ (Passed /\ got.text = Left(damaged, sent))
    /\ EndToEnd

PathInv == PathTypes /\ AtLink /\ AtRelay /\ AtReceiver /\ AtEnd

\* The message that the notices share has collected the bytes of those that
\* were sent.
MsgShape(m) ==
    m = [opcode |-> m.opcode, mask |-> m.mask, level |-> m.level, seq |-> m.seq,
         time |-> m.time, src |-> m.src, dst |-> m.dst, mz |-> m.mz, guid |-> m.guid,
         sess |-> m.sess, text |-> m.text, datacrc |-> m.datacrc]
Entries == [dst : STRING, text : Texts]
SharedMsg ==
    /\ MsgShape(shared) /\ shared.opcode = 2 /\ shared.mask \in BOOLEAN /\ shared.level = 0
    /\ shared.sess = ZeroSess /\ shared.datacrc \in Seq(Block)
    /\ shared.datacrc = <<>> <=> notices = <<>>

NoticeInv ==
    /\ stage # "notice" => notices = <<>>
    /\ stage = "notice" => queue \in Seq(Entries) /\ SharedMsg
    /\ \E S : notices \in Seq(S)
    /\ NoticeAsMeant

\* The texts, the empty one too, can be encoded.
LEMMA TextsFit == Fits(<<>>) /\ \A t \in Texts : Fits(t)
<1>1. Fits(<<>>)
  <2>1. <<>> \in Seq(Block) /\ Len(<<>>) = 0
    OBVIOUS
  <2>2. PICK f : IsLengths(<<>>, f) /\ Bytes(<<>>) = f[Len(<<>>)]
    BY <2>1, BytesIs
  <2>3. f[0] = 0
    BY <2>1, <2>2, LengthsAt
  <2> QED
    BY <2>1, <2>2, <2>3 DEF Fits
<1>2. \A t \in Texts : Fits(t)
  <2>1. TextBlocks \subseteq Block
    BY DEF Block, TextBlocks
  <2>2. \A t \in Texts : t \in Seq(TextBlocks) /\ Bytes(t) + 8 < 65536
    BY TextsAssumption
  <2>3. ASSUME NEW t \in Seq(TextBlocks) PROVE t \in Seq(Block)
    <3>1. Len(t) \in Nat /\ t \in [1..Len(t) -> TextBlocks]
      OBVIOUS
    <3>2. t \in [1..Len(t) -> Block]
      BY <2>1, <3>1
    <3> QED
      BY <3>1, <3>2, SeqDef
  <2> QED
    BY <2>2, <2>3 DEF Fits
<1> QED
  BY <1>1, <1>2

\* The session ids and keys of the model.
LEMMA Names ==
    /\ IsSess(Sid) /\ IsSess(ZeroSess) /\ Nil # Sid
    /\ \A w : SenderKey(w) # NoKey /\ ReceiverKey(w) # NoKey
<1>1. IsSess(Sid) /\ IsSess(ZeroSess)
  <2>1. Sid \in Block /\ ZeroSess \in Block
    BY DEF Sid, ZeroSess, Block
  <2>2. Sid.len = 8 /\ ZeroSess.len = 8
    BY DEF Sid, ZeroSess
  <2> QED
    BY <2>1, <2>2 DEF IsSess
<1>2. Nil # Sid
  <2>1. DOMAIN Sid = {"len", "val"} /\ DOMAIN Nil = {}
    BY DEF Sid, Nil
  <2> QED
    BY <2>1
<1>3. \A w : SenderKey(w) # NoKey /\ ReceiverKey(w) # NoKey
  BY DEF SenderKey, ReceiverKey, NoKey, PhoneKey, DevKey
<1> QED
  BY <1>1, <1>2, <1>3

\* A message made by NewMsg, encoded.
LEMMA EncodeNew ==
    ASSUME NEW opcode \in {2, 5}, NEW mask \in BOOLEAN, NEW level \in {0, 1, 3}, NEW seq,
           NEW time, NEW src, NEW dst, NEW mz, NEW sess, NEW text,
           level = 3 => mz # NoKey, IsSess(sess), Fits(text)
    PROVE  LET f == Msg2Binary(NewMsg(opcode, mask, level, seq, time, src, dst, mz,
                                      sess, text)).frame
           IN  /\ Carries(f, mz, sess, text)
               /\ f.opcode = opcode /\ f.src = src /\ f.dst = dst /\ f.level = level
<1> DEFINE m == NewMsg(opcode, mask, level, seq, time, src, dst, mz, sess, text)
           f == Msg2Binary(m).frame
<1>1. /\ m.opcode = opcode /\ m.mask = mask /\ m.level = level /\ m.src = src
      /\ m.dst = dst /\ m.mz = mz /\ m.sess = sess /\ m.text = text /\ m.datacrc = <<>>
  BY DEF NewMsg
<1> HIDE DEF m
<1>2. Encodes(m)
  BY <1>1 DEF Encodes
<1>3. /\ Whole(f, m.mz, m.sess, m.text) /\ f.check = m.datacrc \o <<m.sess>> \o m.text
      /\ f.opcode = m.opcode /\ f.src = m.src /\ f.dst = m.dst /\ f.level = m.level
  BY <1>1, <1>2, EncodeWhole
<1> HIDE DEF f
<1>4. <<>> \o <<sess>> \o text = <<sess>> \o text
  BY DEF IsSess, Fits
<1>5. Carries(f, mz, sess, text)
  BY <1>1, <1>3, <1>4 DEF Carries
<1> QED
  BY <1>1, <1>3, <1>5 DEF f, m

\* A frame that carries a text, decoded with its secret.
LEMMA DecodeCarried ==
    ASSUME NEW f, NEW mz, NEW sess, NEW text, Carries(f, mz, sess, text),
           IsSess(sess), Fits(text), NEW r \in Binary2Msg(f, mz)
    PROVE  /\ ~r.err /\ r.opcode = f.opcode /\ r.mask \in BOOLEAN /\ r.src = f.src
           /\ r.dst = f.dst /\ r.sess = sess /\ r.text = text
<1>1. r = Read(f, FALSE, sess, text)
  <2>1. Whole(f, mz, sess, text) /\ f.check = <<sess>> \o text /\ text \in Seq(Block)
    BY DEF Carries, Fits
  <2>2. Binary2Msg(f, mz) = {Read(f, FALSE, sess, text)}
    BY <2>1, DecodeWhole
  <2> QED
    BY <2>2
<1>2. OnWire(f) /\ f.mask \in BOOLEAN
  BY DEF Carries, Whole, OnWire
<1>3. ~r.err /\ ReadAs(r, f, sess, text)
  BY <1>1, <1>2, ReadFields
<1> QED
  BY <1>2, <1>3 DEF ReadAs

\* Reading a frame in place leaves it as it was.
LEMMA ReadAgain ==
    ASSUME NEW f, NEW g, OnWire(f), OnWire(g), SameFields(g, f)
    PROVE  /\ \A mz, sess, text : Carries(f, mz, sess, text) => Carries(g, mz, sess, text)
           /\ \A w, text : Wrapped(f, w, text) => Wrapped(g, w, text)
           /\ \A mz, w, dam, text : Plain(f, mz, w, dam, text) => Plain(g, mz, w, dam, text)
<1>1. HeadBytes(f) = HeadBytes(g)
  BY DEF SameFields, HeadBytes
<1>2. ASSUME NEW mz, NEW sess, NEW text, Carries(f, mz, sess, text)
      PROVE  Carries(g, mz, sess, text)
  BY <1>1, <1>2 DEF Carries, Whole, Keyed, SameFields
<1>3. ASSUME NEW w, NEW text, Wrapped(f, w, text) PROVE Wrapped(g, w, text)
  BY <1>3 DEF Wrapped, SameFields
<1>4. ASSUME NEW mz, NEW w, NEW dam, NEW text, Plain(f, mz, w, dam, text)
      PROVE  Plain(g, mz, w, dam, text)
  <2>1. Carries(g, mz, Sid, Left(dam, text))
    BY <1>2, <1>4 DEF Plain
  <2> QED
    BY <1>4, <2>1 DEF Plain, SameFields
<1> QED
  BY <1>2, <1>3, <1>4

\* What FrameHeader and Header leave in Final.
LEMMA HeaderKeeps ==
    ASSUME NEW f, OnWire(f)
    PROVE  /\ FrameHeader(f).frame = Toggle(Toggle(f)) /\ FrameHeader(f).opcode = f.opcode
           /\ OnWire(Toggle(Toggle(f))) /\ SameFields(Toggle(Toggle(f)), f)
<1>1. FrameHeader(f).frame = Toggle(Toggle(f)) /\ FrameHeader(f).opcode = f.opcode
  BY DEF FrameHeader, Read
<1> QED
  BY <1>1, ToggleFrame

\* A frame in clear can be read whatever the secret.
LEMMA ClearForAll ==
    ASSUME NEW f, f.level = 0, NEW w, NEW dam, NEW text, Plain(f, NoKey, w, dam, text), NEW mz
    PROVE  Plain(f, mz, w, dam, text)
BY DEF Plain, Carries, Whole, Keyed

\* A frame of opcode 5 that is read with its secret.
LEMMA DecodePlain ==
    ASSUME NEW f, NEW mz, NEW w, NEW dam \in BOOLEAN, NEW text \in Texts \cup {<<>>},
           Plain(f, mz, w, dam, text), NEW r \in Binary2Msg(f, mz)
    PROVE  /\ ~r.err /\ r.opcode = 5 /\ r.mask \in BOOLEAN /\ r.sess = Sid
           /\ r.text = Left(dam, text) /\ Fits(r.text) /\ (~dam => r.src = Sender(w))
<1>1. Fits(Left(dam, text))
  BY TextsFit DEF Left
<1>2. Carries(f, mz, Sid, Left(dam, text)) /\ f.opcode = 5 /\ (~dam => f.src = Sender(w))
  BY DEF Plain
<1> QED
  BY <1>1, <1>2, DecodeCarried, Names

\* The comets' two ways to encode it again.
LEMMA EncodeAgain ==
    ASSUME NEW r, r.opcode = 5, r.mask \in BOOLEAN, r.sess = Sid, Fits(r.text),
           NEW w, NEW dam, NEW text, r.text = Left(dam, text), ~dam => r.src = Sender(w)
    PROVE  /\ Plain(InClear(r), NoKey, w, dam, text) /\ InClear(r).level = 0
           /\ \A mz, dst : mz # NoKey => Plain(WithSecret(r, mz, dst), mz, w, dam, text)
<1>1. r.sess # Nil /\ IsSess(r.sess)
  BY Names
<1>2. /\ Carries(InClear(r), NoKey, Sid, r.text) /\ InClear(r).opcode = 5
      /\ InClear(r).src = r.src /\ InClear(r).level = 0
  <2>1. InClear(r) = Msg2Binary(NewMsg(5, r.mask, 0, r.seq, r.time, r.src, r.dst, NoKey,
                                       Sid, r.text)).frame
    BY <1>1 DEF InClear
  <2> QED
    BY <1>1, <2>1, EncodeNew
<1>3. ASSUME NEW mz, NEW dst, mz # NoKey
      PROVE  /\ Carries(WithSecret(r, mz, dst), mz, Sid, r.text)
             /\ WithSecret(r, mz, dst).opcode = 5 /\ WithSecret(r, mz, dst).src = r.src
  <2>0. PICK mask \in BOOLEAN : mask = TRUE
    OBVIOUS
  <2>1. WithSecret(r, mz, dst) = Msg2Binary(NewMsg(5, mask, 3, r.seq, r.time, r.src, dst, mz,
                                                   Sid, r.text)).frame
    BY <2>0 DEF WithSecret
  <2> QED
    BY <1>1, <1>3, <2>1, EncodeNew
<1> QED
  BY <1>2, <1>3 DEF Plain

(***************************************************************************)
(* The sender's comet refuses a frame that was damaged: an address or a    *)
(* length does not agree with the header, a checksum or a text not with    *)
(* the other, and a cipher text that was changed is nonsense.              *)
(***************************************************************************)
LEMMA DamageRefused ==
    ASSUME NEW f, NEW w, NEW mz, NEW text \in Texts \cup {<<>>},
           Plain(f, mz, w, FALSE, text), f.dst = Receiver(w),
           NEW kind \in {"addr", "len", "check", "body"}, Damage(f, kind) # f
    PROVE  Refused(Damage(f, kind), mz)
<1> DEFINE g == Damage(f, kind)
           c == <<Sid>> \o text
<1>1. /\ OnWire(f) /\ FrameShape(f) /\ f.mask \in BOOLEAN /\ f.opcode = 5 /\ BodyShape(f.body)
      /\ f.body.data = c /\ f.check = c /\ f.dhlen = f.body.len - 8
      /\ f.headCheck = HeadBytes(f) /\ Keyed(f, mz) /\ f.body.len \in Nat
      /\ Whole(f, mz, Sid, text)
  BY DEF Plain, Carries, Whole, OnWire, Left, BodyShape
<1>2. text \in Seq(Block) /\ IsSess(Sid) /\ Nil # Sid
  <2>1. Fits(text)
    BY TextsFit
  <2> QED
    BY <2>1, Names DEF Fits
<1>3. c # <<Noise>> /\ Head(c) = Sid /\ c # Altered
  BY <1>2, ContentParts
<1> HIDE DEF c
\* Whatever is read with an error and without a text, or without a session id.
<1>4. ASSUME NEW h, OnWire(h), h.opcode = 5, NEW txt,
             \/ Binary2Msg(h, mz) = {Read(h, TRUE, Nil, <<>>)}
             \/ Binary2Msg(h, mz) = {Read(h, TRUE, Sid, <<>>)}
             \/ Binary2Msg(h, mz) = {Read(h, TRUE, Nil, <<>>), Read(h, TRUE, Nil, txt)}
      PROVE  Refused(h, mz)
  <2> SUFFICES ASSUME NEW r \in Binary2Msg(h, mz)
               PROVE  /\ r.err /\ r.opcode = 5 /\ r.mask \in BOOLEAN
                      /\ r.sess = Sid => r.text = <<>>
    BY DEF Refused
  <2>1. \/ r = Read(h, TRUE, Nil, <<>>) \/ r = Read(h, TRUE, Sid, <<>>)
        \/ r = Read(h, TRUE, Nil, txt)
    BY <1>4
  <2>2. h.mask \in BOOLEAN
    BY <1>4 DEF OnWire
  <2>3. CASE r = Read(h, TRUE, Nil, <<>>)
    <3>1. r.err /\ ReadAs(r, h, Nil, <<>>)
      BY <1>4, <2>3, ReadFields
    <3> QED
      BY <1>2, <1>4, <2>2, <3>1 DEF ReadAs
  <2>4. CASE r = Read(h, TRUE, Sid, <<>>)
    <3>1. r.err /\ ReadAs(r, h, Sid, <<>>)
      BY <1>4, <2>4, ReadFields
    <3> QED
      BY <1>4, <2>2, <3>1 DEF ReadAs
  <2>5. CASE r = Read(h, TRUE, Nil, txt)
    <3>1. r.err /\ ReadAs(r, h, Nil, txt)
      BY <1>4, <2>5, ReadFields
    <3> QED
      BY <1>2, <1>4, <2>2, <3>1 DEF ReadAs
  <2> QED
    BY <2>1, <2>3, <2>4, <2>5
<1>5. CASE kind = "addr"
  <2>1. g = [f EXCEPT !.dst = "u2"]
    BY <1>5 DEF Damage
  <2> HIDE DEF g
  <2>2. /\ OnWire(g) /\ g.opcode = 5 /\ g.dst = "u2" /\ g.headCheck = HeadBytes(f)
    BY <1>1, <2>1 DEF OnWire, FrameShape
  <2>3. f.dst # "u2"
    BY DEF Receiver
  <2>4. HeadBytes(f) # HeadBytes(g)
    BY <2>2, <2>3 DEF HeadBytes
  <2>5. Toggle(g).headCheck = g.headCheck /\ HeadBytes(Toggle(g)) = HeadBytes(g)
    BY <2>2, ToggleFrame DEF SameFields, HeadBytes
  <2>6. ~HeaderWhole(g)
    BY <2>2, <2>4, <2>5 DEF HeaderWhole, Crc
  <2>7. Binary2Msg(g, mz) = {Read(g, TRUE, Nil, <<>>)}
    BY <2>6 DEF Binary2Msg
  <2>8. Refused(g, mz)
    BY <1>4, <2>2, <2>7
  <2> QED
    BY <2>8 DEF g
<1>6. CASE kind = "len"
  <2>1. g = [f EXCEPT !.body.len = @ - 1]
    BY <1>6 DEF Damage
  <2> HIDE DEF g
  <2>2. OnWire(g) /\ g.opcode = 5 /\ g.body.len = f.body.len - 1 /\ g.dhlen = f.body.len - 8
    BY <1>1, <2>1 DEF OnWire, FrameShape, BodyShape
  <2>3. Toggle(g).dhlen = g.dhlen /\ Toggle(g).body = g.body
    BY <2>2, ToggleFrame DEF SameFields
  <2>4. g.dhlen # g.body.len - 8
    BY <1>1, <2>2
  <2>5. ~HeaderWhole(g)
    BY <2>3, <2>4 DEF HeaderWhole
  <2>6. Binary2Msg(g, mz) = {Read(g, TRUE, Nil, <<>>)}
    BY <2>5 DEF Binary2Msg
  <2>7. Refused(g, mz)
    BY <1>4, <2>2, <2>6
  <2> QED
    BY <2>7 DEF g
<1>7. CASE kind = "check"
  <2>1. g = [f EXCEPT !.check = Altered]
    BY <1>7 DEF Damage
  <2> HIDE DEF g
  <2>2. /\ OnWire(g) /\ g.opcode = 5 /\ g.check = Altered /\ g.body = f.body
        /\ g.dhlen = f.dhlen /\ g.headCheck = f.headCheck /\ g.level = f.level
        /\ g.seq = f.seq /\ g.src = f.src /\ g.time = f.time
        /\ HeadBytes(g) = HeadBytes(f)
    BY <1>1, <2>1 DEF OnWire, FrameShape, HeadBytes
  <2>3. Whole(g, mz, Sid, text)
    BY <1>1, <2>2 DEF Whole, Keyed
  <2>4. \/ Binary2Msg(g, mz) = {Read(g, TRUE, Sid, <<>>)}
        \/ Binary2Msg(g, mz) = {Read(g, TRUE, Nil, <<>>)}
    <3>1. g.check # <<Sid>> \o text
      BY <1>3, <2>2 DEF c
    <3> QED
      BY <1>2, <2>3, <3>1, DecodeWhole
  <2>5. Refused(g, mz)
    BY <1>4, <2>2, <2>4
  <2> QED
    BY <2>5 DEF g
<1>8. CASE kind = "body" /\ f.level = 0
  <2>1. g = [f EXCEPT !.body.data = <<Head(@)>> \o Altered]
    BY <1>8 DEF Damage
  <2>2. g # f
    OBVIOUS
  <2> HIDE DEF g
  <2> DEFINE d == <<Sid>> \o Altered
  <2>3. g = [f EXCEPT !.body = [f.body EXCEPT !.data = d]]
    BY <1>1, <1>3, <2>1
  <2> HIDE DEF d
  <2>4. /\ OnWire(g) /\ g.opcode = 5 /\ g.check = c /\ BodyShape(g.body)
        /\ g.body.data = d /\ g.body.len = f.body.len
        /\ g.dhlen = f.dhlen /\ g.headCheck = f.headCheck /\ g.level = f.level
        /\ HeadBytes(g) = HeadBytes(f)
    BY <1>1, <2>3 DEF OnWire, FrameShape, HeadBytes, BodyShape
  <2>5. d # c
    <3> SUFFICES ASSUME d = c PROVE g = f
      BY <2>2
    <3>1. [f.body EXCEPT !.data = d] = f.body
      BY <1>1 DEF BodyShape
    <3> QED
      BY <1>1, <2>3, <3>1 DEF FrameShape
  <2>6. Whole(g, mz, Sid, Altered)
    BY <1>1, <1>8, <2>4 DEF Whole, Keyed, d
  <2>7. Altered \in Seq(Block)
    BY DEF Altered, Block
  <2>8. \/ Binary2Msg(g, mz) = {Read(g, TRUE, Sid, <<>>)}
        \/ Binary2Msg(g, mz) = {Read(g, TRUE, Nil, <<>>)}
    <3>1. g.check # <<Sid>> \o Altered
      BY <2>4, <2>5 DEF d
    <3> QED
      BY <1>2, <2>6, <2>7, <3>1, DecodeWhole
  <2>9. Refused(g, mz)
    BY <1>4, <2>4, <2>8
  <2> QED
    BY <2>9 DEF g
<1>9. CASE kind = "body" /\ f.level # 0
  <2>1. g = [f EXCEPT !.body.key = <<"broken">>]
    BY <1>9 DEF Damage
  <2> HIDE DEF g
  <2> DEFINE key == RandomKeyGet(g.seq, g.src, g.time, IF g.level = 3 THEN mz ELSE NoKey)
             data == Decrypt(g.body, key)
  <2>2. /\ OnWire(g) /\ g.opcode = 5 /\ g.body.key = <<"broken">> /\ g.body.len = f.body.len
        /\ g.dhlen = f.dhlen /\ g.headCheck = f.headCheck /\ g.level = f.level
        /\ HeadBytes(g) = HeadBytes(f)
    BY <1>1, <2>1 DEF OnWire, FrameShape, HeadBytes, BodyShape
  <2>3. HeaderWhole(g)
    <3>1. SameFields(Toggle(g), g) /\ Toggle(g).veil = 0
      BY <2>2, ToggleFrame
    <3>2. HeadBytes(Toggle(g)) = HeadBytes(g)
      BY <3>1 DEF SameFields, HeadBytes
    <3> QED
      BY <1>1, <2>2, <3>1, <3>2 DEF HeaderWhole, Crc, SameFields
  <2>4. key # <<"broken">>
    <3>1. Len(key) = 4 /\ Len(<<"broken">>) = 1
      BY DEF RandomKeyGet
    <3> QED
      BY <3>1, SMTT(30)
  <2>5. data = <<Noise>>
    BY <2>2, <2>4 DEF Decrypt
  <2>6. g.level \in {1, 3} /\ (g.level = 3 => mz # NoKey)
    BY <1>1, <1>9, <2>2 DEF Keyed
  <2>7. Binary2Msg(g, mz) = {Read(g, TRUE, Nil, <<>>), Read(g, TRUE, Nil, <<Noise>>)}
    <3>1. /\ g.level # 0 /\ g.level # 2 /\ ~(g.level = 3 /\ mz = NoKey)
          /\ g.level = 1 \/ (g.level = 3 /\ mz # NoKey)
      BY <2>6
    <3> HIDE DEF data
    <3> QED
      BY <2>3, <2>5, <3>1 DEF Binary2Msg, data
  <2>8. Refused(g, mz)
    BY <1>4, <2>2, <2>7
  <2> QED
    BY <2>8 DEF g
<1> QED
  BY <1>5, <1>6, <1>7, <1>8, <1>9

-----------------------------------------------------------------------------
(* The steps.                                                              *)

\* The types; a frame is damaged only on the link, and not one of opcode 3.
LEMMA PathTypesStep == ASSUME PathTypes, [PathNext]_pathVars PROVE PathTypes'
<1> USE DEF PathTypes
<1>1. ASSUME NEW w \in FromPhone \cup FromDev, NEW mask \in BOOLEAN, NEW level \in {0, 1, 3},
             NEW seq \in Seqs, NEW time \in Times, NEW text \in Texts,
             Send(w, mask, level, seq, time, text)
      PROVE  PathTypes'
  <2>1. way' = w /\ sent' = text /\ stage' = "link" /\ damaged' = damaged /\ stage = "idle"
    BY <1>1 DEF Send
  <2> QED
    BY <2>1
<1>2. ASSUME NEW kind, LinkDamages(kind) PROVE PathTypes'
  BY <1>2 DEF LinkDamages
<1>3. ASSUME PhoneOpcode5 \/ DevOpcode05 \/ PhoneOpcode3 \/ DevOpcode03 PROVE PathTypes'
  <2>1. /\ UNCHANGED <<way, sent, damaged>> /\ stage = "link"
        /\ stage' \in {"relayed", "closed", "refused"}
    BY <1>3, Zenon DEF PhoneOpcode5, DevOpcode05, PhoneOpcode3, DevOpcode03
  <2> QED
    BY <2>1
<1>4. ASSUME NEW mz, UsrPushMsg(mz) PROVE PathTypes'
  BY <1>4 DEF UsrPushMsg
<1>5. ASSUME NEW mz, NEW macKnown \in BOOLEAN, DevPushMsg(mz, macKnown) PROVE PathTypes'
  <2>1. UNCHANGED <<way, sent, damaged>> /\ stage = "relayed"
    BY <1>5 DEF DevPushMsg
  <2>2. PICK r : CASE r.opcode = 5 /\ macKnown /\ mz # NoKey ->
                        arrived' = WithSecret(r, mz, "mac") /\ stage' = "arrived"
                   [] r.opcode = 5 /\ (~macKnown \/ mz = NoKey) ->
                        stage' = "refused" /\ UNCHANGED arrived
                   [] r.opcode # 5 -> arrived' = r.frame /\ stage' = "arrived"
    BY <1>5, Zenon DEF DevPushMsg
  <2>3. stage' \in {"arrived", "refused"}
    BY <2>2
  <2> QED
    BY <2>1, <2>3
<1>6. CASE Receive
  BY <1>6 DEF Receive
<1>7. ASSUME NEW us, NEW text, PushOneText(us, text) PROVE PathTypes'
  BY <1>7 DEF PushOneText
<1>8. ASSUME NEW us, NEW texts, PushDevOfflineMsgToUsers(us, texts) PROVE PathTypes'
  BY <1>8 DEF PushDevOfflineMsgToUsers
<1>9. CASE ForwardNotice
  BY <1>9 DEF ForwardNotice
<1>10. CASE UNCHANGED pathVars
  BY <1>10 DEF pathVars
<1> QED
  BY <1>1, <1>2, <1>3, <1>4, <1>5, <1>6, <1>7, <1>8, <1>9, <1>10, Zenon DEF PathNext

\* What a step leaves to show, by the stage it leads to.
LEMMA ByStage ==
    ASSUME PathTypes'
    PROVE  /\ stage' \in {"idle", "notice"} => PathInv'
           /\ stage' = "link" /\ AtLink' => PathInv'
           /\ stage' = "relayed" /\ AtRelay' => PathInv'
           /\ stage' = "arrived" /\ AtReceiver' => PathInv'
           /\ stage' \in {"done", "closed", "refused"} /\ AtEnd' => PathInv'
BY DEF PathInv, AtLink, AtRelay, AtReceiver, AtEnd, EndToEnd

\* Send: what the sender encodes carries its text.
LEMMA SendStep ==
    ASSUME PathInv, PathTypes', NEW w \in FromPhone \cup FromDev, NEW mask \in BOOLEAN,
           NEW level \in {0, 1, 3}, NEW seq, NEW time, NEW text \in Texts,
           Send(w, mask, level, seq, time, text)
    PROVE  PathInv'
<1> DEFINE m == NewMsg(IF w \in Opcode3 THEN 2 ELSE 5, mask, level, seq, time,
                       Sender(w), Receiver(w), SenderKey(w), Sid, text)
           f == Msg2Binary(m).frame
<1>1. /\ stage = "idle" /\ way' = w /\ sent' = text /\ stage' = "link" /\ damaged' = damaged
      /\ link' = IF w \in Opcode3 THEN Wrap(w, mask, f) ELSE f
  BY DEF Send
<1>2. ~damaged'
  BY <1>1 DEF PathInv, PathTypes
<1>3. /\ Carries(f, SenderKey(w), Sid, text)
      /\ f.opcode = (IF w \in Opcode3 THEN 2 ELSE 5) /\ f.src = Sender(w) /\ f.dst = Receiver(w)
  <2>1. Fits(text) /\ IsSess(Sid) /\ SenderKey(w) # NoKey
    BY TextsFit, Names
  <2>2. (IF w \in Opcode3 THEN 2 ELSE 5) \in {2, 5}
    OBVIOUS
  <2> QED
    BY <2>1, <2>2, EncodeNew
<1> HIDE DEF f
<1>4. CASE w \in Opcode3
  <2> DEFINE g == Wrap(w, mask, f)
             guid == Encrypt(<<Sid>>, RandomKeyGet(4, Sender(w), 6, SenderKey(w)))
             bare == [opcode |-> 3, mask |-> mask, seq |-> 4, time |-> 6, veil |-> 0,
                      dst |-> Receiver(w), src |-> Sender(w), guid |-> guid,
                      level |-> 0, dhlen |-> 0, headCheck |-> <<>>, check |-> <<>>,
                      body |-> f]
  <2>1. g = Toggle(bare)
    BY DEF Wrap
  <2> HIDE DEF guid, g
  <2>2. /\ OnWire(g) /\ g.opcode = 3 /\ g.src = Sender(w) /\ g.guid = guid /\ g.body = f
        /\ g.seq = 4 /\ g.time = 6
    BY <2>1 DEF OnWire, FrameShape, Toggle, MaskContent
  <2>3. Wrapped(g, w, text)
    BY <1>3, <2>2 DEF Wrapped, guid
  <2>4. AtLink'
    BY <1>1, <1>2, <1>4, <2>3 DEF AtLink, g
  <2> QED
    BY <1>1, <2>4, ByStage
<1>5. CASE w \notin Opcode3
  <2>1. Plain(f, SenderKey(w), w, FALSE, text)
    BY <1>3, <1>5 DEF Plain, Left
  <2>2. AtLink'
    BY <1>1, <1>2, <1>3, <1>5, <2>1 DEF AtLink
  <2> QED
    BY <1>1, <2>2, ByStage
<1> QED
  BY <1>4, <1>5

\* The link damages a frame of opcode 5.
LEMMA LinkDamagesStep ==
    ASSUME PathInv, PathTypes', NEW kind \in {"addr", "len", "check", "body"}, LinkDamages(kind)
    PROVE  PathInv'
<1>1. /\ stage = "link" /\ stage' = "link" /\ ~damaged /\ damaged' = TRUE /\ way' = way
      /\ way \notin Opcode3 /\ link' = Damage(link, kind) /\ link' # link /\ sent' = sent
  BY DEF LinkDamages
<1>2. /\ Plain(link, SenderKey(way), way, FALSE, sent) /\ link.dst = Receiver(way)
      /\ sent \in Texts \cup {<<>>}
  BY <1>1 DEF PathInv, AtLink, PathTypes
<1>3. Refused(link', SenderKey(way))
  BY <1>1, <1>2, DamageRefused
<1>4. AtLink'
  BY <1>1, <1>3 DEF AtLink
<1> QED
  BY <1>1, <1>4, ByStage

\* mws.go: a damaged frame ends the connection, another is sent on in clear.
LEMMA PhoneOpcode5Step == ASSUME PathInv, PathTypes', PhoneOpcode5 PROVE PathInv'
<1>1. /\ stage = "link" /\ way = "phone5" /\ way' = way /\ sent' = sent /\ damaged' = damaged
      /\ damaged \in BOOLEAN /\ sent \in Texts \cup {<<>>}
  BY DEF PhoneOpcode5, PathInv, PathTypes
<1>2. SenderKey(way) = PhoneKey /\ way \notin Opcode3
  BY <1>1 DEF SenderKey, FromPhone, Opcode3
<1>3. PICK r \in Binary2Msg(link, PhoneKey) :
        IF ~r.err THEN stage' = "relayed" /\ relayed' = InClear(r) ELSE stage' = "closed"
  BY Zenon DEF PhoneOpcode5, PhoneAccepts
<1>4. CASE damaged
  <2>1. r.err
    BY <1>1, <1>2, <1>4 DEF PathInv, AtLink, Refused
  <2>2. AtEnd'
    BY <1>1, <1>3, <1>4, <2>1 DEF AtEnd, EndToEnd
  <2> QED
    BY <1>3, <2>1, <2>2, ByStage
<1>5. CASE ~damaged
  <2>1. Plain(link, PhoneKey, way, FALSE, sent)
    BY <1>1, <1>2, <1>5 DEF PathInv, AtLink
  <2>2. Plain(link, PhoneKey, way, damaged, sent)
    BY <1>1, <1>5, <2>1 DEF Plain, Left
  <2>3. /\ ~r.err /\ r.opcode = 5 /\ r.mask \in BOOLEAN /\ r.sess = Sid
        /\ r.text = Left(damaged, sent) /\ Fits(r.text) /\ (~damaged => r.src = Sender(way))
    BY <1>1, <2>2, DecodePlain
  <2>4. Plain(InClear(r), NoKey, way, damaged, sent) /\ InClear(r).level = 0
    BY <2>3, EncodeAgain
  <2>5. AtRelay'
    BY <1>1, <1>2, <1>3, <1>5, <2>3, <2>4 DEF AtRelay, Passed
  <2> QED
    BY <1>3, <2>3, <2>5, ByStage
<1> QED
  BY <1>1, <1>4, <1>5

\* opcode05: over UDP a damaged frame goes on without its text at most.
LEMMA DevOpcode05Step == ASSUME PathInv, PathTypes', DevOpcode05 PROVE PathInv'
<1>1. /\ stage = "link" /\ way \in {"udp5", "tcp5"} /\ way' = way /\ sent' = sent
      /\ damaged' = damaged /\ damaged \in BOOLEAN /\ sent \in Texts \cup {<<>>}
  BY DEF DevOpcode05, PathInv, PathTypes
<1>2. SenderKey(way) = DevKey /\ way \notin Opcode3
  BY <1>1 DEF SenderKey, FromPhone, Opcode3
<1>3. PICK r \in Binary2Msg(link, DevKey) :
        IF FindsSession(r)
        THEN stage' = "relayed" /\ relayed' = InClear(r) ELSE stage' = "refused"
  BY Zenon DEF DevOpcode05
<1>4. CASE damaged
  <2>1. r.opcode = 5 /\ r.mask \in BOOLEAN /\ (r.sess = Sid => r.text = <<>>)
    BY <1>1, <1>2, <1>4 DEF PathInv, AtLink, Refused
  <2>2. CASE stage' = "refused"
    <3>1. AtEnd'
      BY <1>1, <1>4, <2>2 DEF AtEnd, EndToEnd
    <3> QED
      BY <2>2, <3>1, ByStage
  <2>3. CASE stage' = "relayed" /\ way = "tcp5"
    <3>1. AtRelay'
      BY <1>1, <1>2, <1>4, <2>3 DEF AtRelay, Unstopped
    <3> QED
      BY <2>3, <3>1, ByStage
  <2>4. CASE stage' = "relayed" /\ way = "udp5"
    <3>1. r.sess = Sid /\ relayed' = InClear(r)
      BY <1>3, <2>4 DEF FindsSession
    <3>2. r.text = Left(damaged, sent) /\ Fits(r.text)
      BY <1>4, <2>1, <3>1, TextsFit DEF Left
    <3>3. Plain(InClear(r), NoKey, way, damaged, sent) /\ InClear(r).level = 0
      BY <1>4, <2>1, <3>1, <3>2, EncodeAgain
    <3>4. AtRelay'
      BY <1>1, <1>2, <2>4, <3>1, <3>3 DEF AtRelay, Passed
    <3> QED
      BY <2>4, <3>4, ByStage
  <2> QED
    BY <1>1, <1>3, <2>2, <2>3, <2>4
<1>5. CASE ~damaged
  <2>1. Plain(link, DevKey, way, FALSE, sent)
    BY <1>1, <1>2, <1>5 DEF PathInv, AtLink
  <2>2. Plain(link, DevKey, way, damaged, sent)
    BY <1>1, <1>5, <2>1 DEF Plain, Left
  <2>3. /\ r.opcode = 5 /\ r.mask \in BOOLEAN /\ r.sess = Sid
        /\ r.text = Left(damaged, sent) /\ Fits(r.text) /\ (~damaged => r.src = Sender(way))
    BY <1>1, <2>2, DecodePlain
  <2>4. Plain(InClear(r), NoKey, way, damaged, sent) /\ InClear(r).level = 0
    BY <2>3, EncodeAgain
  <2>5. stage' = "relayed" /\ relayed' = InClear(r)
    BY <1>3, <2>3 DEF FindsSession
  <2>6. AtRelay'
    BY <1>1, <1>2, <1>5, <2>4, <2>5 DEF AtRelay, Passed
  <2> QED
    BY <2>5, <2>6, ByStage
<1> QED
  BY <1>1, <1>4, <1>5

\* mws.go: a frame of opcode 3 is sent on as it came.
LEMMA PhoneOpcode3Step == ASSUME PathInv, PathTypes', PhoneOpcode3 PROVE PathInv'
<1>1. /\ stage = "link" /\ way = "phone3" /\ way' = way /\ sent' = sent
      /\ stage' = "relayed" /\ relayed' = FrameHeader(link).frame
  BY DEF PhoneOpcode3
<1>2. way \in Opcode3 /\ ~damaged
  BY <1>1 DEF PathInv, PathTypes, Opcode3
<1>3. Wrapped(link, way, sent) /\ OnWire(link)
  BY <1>1, <1>2 DEF PathInv, AtLink, Wrapped
<1>4. Wrapped(relayed', way, sent)
  BY <1>1, <1>3, HeaderKeeps, ReadAgain
<1>5. AtRelay'
  BY <1>1, <1>2, <1>4 DEF AtRelay
<1> QED
  BY <1>1, <1>5, ByStage

\* opcode03: the guid is that of the session, and the inner frame stays whole.
LEMMA DevOpcode03Step == ASSUME PathInv, PathTypes', DevOpcode03 PROVE PathInv'
<1> DEFINE r == Header(link, DevKey)
           inner == FrameHeader(link.body)
           u == Toggle(link)
           v == Toggle(u)
<1>1. /\ stage = "link" /\ way \in {"udp3", "tcp3"} /\ way' = way /\ sent' = sent
      /\ IF way = "udp3" /\ r.guid # <<Sid>>
         THEN stage' = "refused"
         ELSE stage' = "relayed" /\ relayed' = [r.frame EXCEPT !.body = inner.frame]
  BY Zenon DEF DevOpcode03
<1>2. way \in Opcode3 /\ ~damaged /\ SenderKey(way) = DevKey
  BY <1>1 DEF PathInv, PathTypes, Opcode3, SenderKey, FromPhone
<1>3. Wrapped(link, way, sent)
  BY <1>1, <1>2 DEF PathInv, AtLink
<1>4. /\ OnWire(link) /\ link.opcode = 3 /\ OnWire(link.body)
      /\ link.guid = Encrypt(<<Sid>>, RandomKeyGet(link.seq, link.src, link.time, DevKey))
  BY <1>2, <1>3 DEF Wrapped, Carries, Whole
<1>5. /\ FrameShape(u) /\ SameFields(u, link) /\ u.veil = 0 /\ OnWire(v) /\ SameFields(v, link)
  BY <1>4, ToggleFrame
<1> HIDE DEF u, v
<1>6. r.guid = <<Sid>> /\ r.frame = v
  <2> DEFINE q == FrameHeader(link)
             key == RandomKeyGet(link.seq, q.src, link.time, DevKey)
  <2>1. /\ q.src = link.src /\ q.frame = v /\ q.guid = Nil
        /\ "guid" \in DOMAIN q /\ \A x : [q EXCEPT !.guid = x].guid = x
        /\ \A x : [q EXCEPT !.guid = x].frame = v
    BY <1>5 DEF FrameHeader, Read, Seen, SameFields, u, v
  <2>2. u.guid = [key |-> key, data |-> <<Sid>>, len |-> u.guid.len]
    BY <1>4, <1>5, <2>1 DEF Encrypt, SameFields
  <2> HIDE DEF q, key
  <2>3. u.guid.key = key /\ u.guid.data = <<Sid>>
    BY <2>2
  <2>4. u.guid # Nil
    <3>1. "key" \in DOMAIN u.guid /\ DOMAIN Nil = {}
      BY <2>2 DEF Nil
    <3> QED
      BY <3>1
  <2>5. DevKey # NoKey
    BY DEF DevKey, NoKey
  <2>6. r = [q EXCEPT !.guid = <<Sid>>]
    BY <1>4, <1>5, <2>3, <2>4, <2>5 DEF Header, q, key, u
  <2> HIDE DEF r
  <2> QED
    BY <2>1, <2>6
<1>7. inner.frame = Toggle(Toggle(link.body))
  BY <1>4, HeaderKeeps
<1> HIDE DEF r, inner
<1> DEFINE w == Toggle(Toggle(link.body))
<1>8. OnWire(w) /\ SameFields(w, link.body)
  BY <1>4, ToggleFrame
<1> HIDE DEF w
<1>9. stage' = "relayed" /\ relayed' = [v EXCEPT !.body = w]
  BY <1>1, <1>6, <1>7 DEF w
<1>10. Wrapped(relayed', way, sent)
  <2>1. Carries(w, SenderKey(way), Sid, sent) /\ w.src = Sender(way)
    BY <1>3, <1>4, <1>8, ReadAgain DEF Wrapped, SameFields
  <2>2. /\ OnWire(relayed') /\ relayed'.body = w /\ relayed'.opcode = v.opcode
        /\ relayed'.src = v.src /\ relayed'.guid = v.guid /\ relayed'.seq = v.seq
        /\ relayed'.time = v.time
    BY <1>5, <1>9 DEF OnWire, FrameShape
  <2> QED
    BY <1>3, <1>5, <2>1, <2>2 DEF Wrapped, SameFields
<1>11. AtRelay'
  BY <1>1, <1>2, <1>9, <1>10 DEF AtRelay
<1> QED
  BY <1>9, <1>11, ByStage

\* PushMsg for a phone: with its secret, or as it is.
LEMMA UsrPushMsgStep ==
    ASSUME PathInv, PathTypes', NEW mz \in {PhoneKey, NoKey}, UsrPushMsg(mz)
    PROVE  PathInv'
<1>1. /\ stage = "relayed" /\ way \in FromDev /\ stage' = "arrived" /\ way' = way /\ sent' = sent
      /\ damaged' = damaged /\ damaged \in BOOLEAN /\ sent \in Texts \cup {<<>>}
  BY DEF UsrPushMsg, PathInv, PathTypes
<1>2. PICK r \in IF relayed.opcode = 5 /\ mz # NoKey
                 THEN Binary2Msg(relayed, NoKey) ELSE {FrameHeader(relayed)} :
        arrived' = IF r.opcode = 5 /\ mz # NoKey THEN WithSecret(r, mz, r.dst) ELSE r.frame
  BY Zenon DEF UsrPushMsg
<1>3. ReceiverKey(way) = PhoneKey /\ PhoneKey # NoKey
  BY <1>1 DEF ReceiverKey, FromDev, FromPhone, PhoneKey, NoKey
<1>4. CASE way \in Opcode3
  <2>1. Wrapped(relayed, way, sent) /\ OnWire(relayed) /\ relayed.opcode = 3
    BY <1>1, <1>4 DEF PathInv, AtRelay, Wrapped
  <2>2. arrived' = Toggle(Toggle(relayed))
    BY <1>2, <2>1, HeaderKeeps
  <2>3. Wrapped(arrived', way, sent)
    BY <2>1, <2>2, HeaderKeeps, ReadAgain
  <2>4. AtReceiver'
    BY <1>1, <1>4, <2>3 DEF AtReceiver
  <2> QED
    BY <1>1, <2>4, ByStage
<1>5. CASE way \notin Opcode3 /\ Unstopped
  <2>1. AtReceiver'
    BY <1>1, <1>5 DEF AtReceiver, Unstopped
  <2> QED
    BY <1>1, <2>1, ByStage
<1>6. CASE way \notin Opcode3 /\ ~Unstopped
  <2>1. /\ Passed /\ relayed.level = 0 /\ Plain(relayed, NoKey, way, damaged, sent)
        /\ relayed.opcode = 5 /\ OnWire(relayed)
    BY <1>1, <1>6 DEF PathInv, AtRelay, Plain, Carries, Whole
  <2>2. Plain(arrived', PhoneKey, way, damaged, sent)
    <3>1. CASE mz = NoKey
      <4>1. arrived' = Toggle(Toggle(relayed))
        BY <1>2, <2>1, <3>1, HeaderKeeps
      <4>2. Plain(relayed, PhoneKey, way, damaged, sent)
        BY <2>1, ClearForAll
      <4> QED
        BY <2>1, <4>1, <4>2, HeaderKeeps, ReadAgain
    <3>2. CASE mz # NoKey
      <4>1. r \in Binary2Msg(relayed, NoKey)
        BY <1>2, <2>1, <3>2
      <4>2. /\ r.opcode = 5 /\ r.mask \in BOOLEAN /\ r.sess = Sid
            /\ r.text = Left(damaged, sent) /\ Fits(r.text) /\ (~damaged => r.src = Sender(way))
        <5>1. damaged \in BOOLEAN /\ sent \in Texts \cup {<<>>}
          BY <1>1
        <5>2. Plain(relayed, NoKey, way, damaged, sent)
          BY <2>1
        <5> QED
          BY <4>1, <5>1, <5>2, DecodePlain
      <4>3. Plain(WithSecret(r, mz, r.dst), mz, way, damaged, sent)
        BY <3>2, <4>2, EncodeAgain
      <4> QED
        BY <1>2, <3>2, <4>2, <4>3
    <3> QED
      BY <3>1, <3>2
  <2>3. AtReceiver'
    BY <1>1, <1>3, <1>6, <2>1, <2>2 DEF AtReceiver, Passed
  <2> QED
    BY <1>1, <2>3, ByStage
<1> QED
  BY <1>4, <1>5, <1>6

\* PushMsg for a device: with its secret, or not at all.
LEMMA DevPushMsgStep ==
    ASSUME PathInv, PathTypes', NEW mz \in {DevKey, NoKey}, NEW macKnown \in BOOLEAN,
           DevPushMsg(mz, macKnown)
    PROVE  PathInv'
<1>1. /\ stage = "relayed" /\ way \in FromPhone /\ way' = way /\ sent' = sent
      /\ damaged' = damaged /\ damaged \in BOOLEAN /\ sent \in Texts \cup {<<>>}
  BY DEF DevPushMsg, PathInv, PathTypes
<1>2. PICK r \in IF relayed.opcode = 5
                 THEN Binary2Msg(relayed, NoKey) ELSE {FrameHeader(relayed)} :
        CASE r.opcode = 5 /\ macKnown /\ mz # NoKey ->
                arrived' = WithSecret(r, mz, "mac") /\ stage' = "arrived"
          [] r.opcode = 5 /\ (~macKnown \/ mz = NoKey) ->
                stage' = "refused" /\ UNCHANGED arrived
          [] r.opcode # 5 -> arrived' = r.frame /\ stage' = "arrived"
  BY Zenon DEF DevPushMsg
<1>3. /\ ReceiverKey(way) = DevKey /\ way \notin FromDev
      /\ way # "tcp5" /\ way # "udp5"
  BY <1>1 DEF ReceiverKey, FromDev, FromPhone
<1>4. ~damaged
  BY <1>1, <1>3 DEF PathInv, AtRelay, PathTypes, Unstopped, Passed
<1>5. CASE way \in Opcode3
  <2>1. Wrapped(relayed, way, sent) /\ OnWire(relayed) /\ relayed.opcode = 3
    BY <1>1, <1>5 DEF PathInv, AtRelay, Wrapped
  <2>2. r = FrameHeader(relayed) /\ r.opcode # 5
    BY <1>2, <2>1, HeaderKeeps
  <2>3. arrived' = r.frame /\ stage' = "arrived"
    BY <1>2, <2>2
  <2>4. Wrapped(arrived', way, sent)
    BY <2>1, <2>2, <2>3, HeaderKeeps, ReadAgain
  <2>5. AtReceiver'
    BY <1>1, <1>5, <2>4 DEF AtReceiver
  <2> QED
    BY <2>3, <2>5, ByStage
<1>6. CASE way \notin Opcode3
  <2>1. Plain(relayed, NoKey, way, damaged, sent) /\ relayed.opcode = 5
    BY <1>1, <1>4, <1>6 DEF PathInv, AtRelay, Plain, Unstopped
  <2>2. r \in Binary2Msg(relayed, NoKey)
    BY <1>2, <2>1
  <2>3. /\ r.opcode = 5 /\ r.mask \in BOOLEAN /\ r.sess = Sid
        /\ r.text = Left(damaged, sent) /\ Fits(r.text) /\ (~damaged => r.src = Sender(way))
    <3>1. damaged \in BOOLEAN /\ sent \in Texts \cup {<<>>}
      BY <1>1
    <3>2. Plain(relayed, NoKey, way, damaged, sent)
      BY <2>1
    <3> QED
      BY <2>2, <3>1, <3>2, DecodePlain
  <2>4. CASE macKnown /\ mz # NoKey
    <3>1. arrived' = WithSecret(r, mz, "mac") /\ stage' = "arrived"
      BY <1>2, <2>3, <2>4
    <3>2. Plain(arrived', mz, way, damaged, sent) /\ mz = ReceiverKey(way)
      BY <1>3, <2>3, <2>4, <3>1, EncodeAgain
    <3>3. AtReceiver'
      BY <1>1, <1>4, <1>6, <3>1, <3>2 DEF AtReceiver, Passed
    <3> QED
      BY <3>1, <3>3, ByStage
  <2>5. CASE ~(macKnown /\ mz # NoKey)
    <3>1. stage' = "refused"
      BY <1>2, <2>3, <2>5
    <3>2. AtEnd'
      BY <1>1, <1>3, <3>1 DEF AtEnd, EndToEnd
    <3> QED
      BY <3>1, <3>2, ByStage
  <2> QED
    BY <2>4, <2>5
<1> QED
  BY <1>5, <1>6

\* The receiver decodes the frame.
LEMMA ReceiveStep == ASSUME PathInv, PathTypes', Receive PROVE PathInv'
<1>1. /\ stage = "arrived" /\ stage' = "done" /\ way' = way /\ sent' = sent
      /\ damaged' = damaged /\ damaged \in BOOLEAN /\ sent \in Texts \cup {<<>>}
      /\ damaged => way \notin Opcode3
  BY DEF Receive, PathInv, PathTypes
<1>2. AtEnd'
  <2>1. CASE way \in Opcode3
    <3>1. got' \in Binary2Msg(arrived.body, SenderKey(way))
      BY <2>1 DEF Receive
    <3>2. Wrapped(arrived, way, sent)
      BY <1>1, <2>1 DEF PathInv, AtReceiver
    <3>3. Carries(arrived.body, SenderKey(way), Sid, sent) /\ arrived.body.src = Sender(way)
      BY <3>2 DEF Wrapped
    <3>4. Fits(sent) /\ IsSess(Sid)
      BY <1>1, TextsFit, Names
    <3>5. ~got'.err /\ got'.text = sent /\ got'.src = Sender(way)
      BY <3>1, <3>3, <3>4, DecodeCarried
    <3> QED
      BY <1>1, <2>1, <3>5 DEF AtEnd, EndToEnd, Passed, Left
  <2>2. CASE way \notin Opcode3 /\ Unstopped
    BY <1>1, <2>2 DEF AtEnd, EndToEnd, Unstopped
  <2>3. CASE way \notin Opcode3 /\ ~Unstopped
    <3>1. got' \in Binary2Msg(arrived, ReceiverKey(way))
      BY <2>3 DEF Receive
    <3>2. Passed /\ Plain(arrived, ReceiverKey(way), way, damaged, sent)
      BY <1>1, <2>3 DEF PathInv, AtReceiver
    <3>3. /\ ~got'.err /\ got'.text = Left(damaged, sent)
          /\ ~damaged => got'.src = Sender(way)
      <4>1. damaged \in BOOLEAN /\ sent \in Texts \cup {<<>>}
        BY <1>1
      <4>2. Plain(arrived, ReceiverKey(way), way, damaged, sent)
        BY <3>2
      <4> QED
        BY <3>1, <4>1, <4>2, DecodePlain
    <3> QED
      BY <1>1, <3>2, <3>3 DEF AtEnd, EndToEnd, Passed, Left
  <2> QED
    BY <2>1, <2>2, <2>3
<1> QED
  BY <1>1, <1>2, ByStage

\* The whole of PathInv; what is not about the frame leaves it alone.
LEMMA PathInvStep == ASSUME PathInv, [PathNext]_pathVars PROVE PathInv'
<1>0. PathTypes'
  BY PathTypesStep DEF PathInv
<1>1. ASSUME NEW us, NEW text, PushOneText(us, text) PROVE PathInv'
  <2>1. stage' = "notice"
    BY <1>1 DEF PushOneText
  <2> QED
    BY <1>0, <2>1, ByStage
<1>2. ASSUME NEW us, NEW texts, PushDevOfflineMsgToUsers(us, texts) PROVE PathInv'
  <2>1. stage' = "notice"
    BY <1>2 DEF PushDevOfflineMsgToUsers
  <2> QED
    BY <1>0, <2>1, ByStage
<1>3. CASE ForwardNotice
  <2>1. stage' = "notice"
    BY <1>3 DEF ForwardNotice
  <2> QED
    BY <1>0, <2>1, ByStage
<1>4. CASE UNCHANGED pathVars
  <2>1. /\ way' = way /\ stage' = stage /\ sent' = sent /\ link' = link /\ damaged' = damaged
        /\ relayed' = relayed /\ arrived' = arrived /\ got' = got
    BY <1>4 DEF pathVars
  <2> QED
    BY <1>0, <2>1 DEF PathInv, AtLink, AtRelay, AtReceiver, AtEnd, EndToEnd, Unstopped, Passed
<1> QED
  BY <1>0, <1>1, <1>2, <1>3, <1>4, SendStep, LinkDamagesStep, PhoneOpcode5Step,
     DevOpcode05Step, PhoneOpcode3Step, DevOpcode03Step, UsrPushMsgStep, DevPushMsgStep,
     ReceiveStep, Zenon DEF PathNext

-----------------------------------------------------------------------------
(* Notices.                                                                *)

\* The message before the first notice.
LEMMA NoticeMsgShared ==
    ASSUME shared' = NoticeMsg, notices' = <<>> PROVE SharedMsg'
<1> DEFINE m == NoticeMsg
<1>1. /\ MsgShape(m) /\ m.opcode = 2 /\ m.mask \in BOOLEAN /\ m.level = 0 /\ m.sess = ZeroSess
      /\ m.datacrc = <<>>
  BY DEF NoticeMsg, NewMsg, MsgShape
<1>2. <<>> \in Seq(Block)
  OBVIOUS
<1> HIDE DEF m
<1>3. shared' = m
  BY DEF m
<1> QED
  BY <1>1, <1>2, <1>3 DEF SharedMsg

\* The loops over users and devices: for each of n users, one of d texts.
LEMMA Positions ==
    ASSUME NEW n \in Nat, NEW d \in Nat \ {0}, NEW k \in 1..(n * d)
    PROVE  ((k - 1) \div d) + 1 \in 1..n /\ ((k - 1) % d) + 1 \in 1..d
<1> DEFINE q == (k - 1) \div d
           r == (k - 1) % d
<1>1. n * d \in Nat /\ k - 1 \in Nat /\ k - 1 < n * d
  OBVIOUS
<1>2. q \in Nat /\ r \in 0..(d - 1) /\ k - 1 = d * q + r
  BY <1>1
<1> HIDE DEF q, r
<1>3. q < n
  <2> SUFFICES ASSUME q >= n PROVE FALSE
    BY <1>2
  <2>1. d * q >= d * n
    BY <1>2
  <2>2. d * n = n * d /\ d * q \in Nat /\ r \in Nat
    BY <1>2
  <2> QED
    BY <1>1, <1>2, <2>1, <2>2
<1> QED
  BY <1>2, <1>3 DEF q, r

\* Both kinds of loops queue entries.
LEMMA PushStep ==
    ASSUME NoticeInv, NEW us \in Receivers,
           \/ \E text \in Texts : PushOneText(us, text)
           \/ \E texts \in SUBSET Texts :
                IsFiniteSet(texts) /\ texts # {} /\ PushDevOfflineMsgToUsers(us, texts)
    PROVE  NoticeInv'
<1>1. /\ stage = "idle" /\ stage' = "notice" /\ shared' = NoticeMsg /\ notices' = notices
  BY DEF PushOneText, PushDevOfflineMsgToUsers
<1>2. notices' = <<>>
  BY <1>1 DEF NoticeInv
<1>3. us \in Seq(STRING) /\ Len(us) \in Nat /\ DOMAIN us = 1..Len(us)
  BY ReceiversAssumption
<1>4. queue' \in Seq(Entries)
  <2>1. ASSUME NEW text \in Texts, PushOneText(us, text) PROVE queue' \in Seq(Entries)
    <3>1. queue' = [i \in 1..Len(us) |-> Entry(us[i], text)]
      BY <1>3, <2>1 DEF PushOneText
    <3>2. \A i \in 1..Len(us) : Entry(us[i], text) \in Entries
      BY <1>3 DEF Entry, Entries
    <3> QED
      BY <1>3, <3>1, <3>2
  <2>2. ASSUME NEW texts \in SUBSET Texts, IsFiniteSet(texts), texts # {},
               PushDevOfflineMsgToUsers(us, texts)
        PROVE  queue' \in Seq(Entries)
    <3> DEFINE d == Cardinality(texts)
               At(told, k) == Entry(us[((k - 1) \div d) + 1],
                                    told[((k - 1) \div d) + 1][((k - 1) % d) + 1])
    <3>1. d \in Nat \ {0}
      BY <2>2, FS_CardinalityType, FS_EmptySet
    <3>2. PICK told \in [DOMAIN us -> Ranges(texts)] :
            queue' = [k \in 1..(Len(us) * d) |-> At(told, k)]
      BY <2>2 DEF PushDevOfflineMsgToUsers
    <3> HIDE DEF d
    <3>3. Len(us) * d \in Nat
      BY <1>3, <3>1
    <3>4. ASSUME NEW k \in 1..(Len(us) * d) PROVE At(told, k) \in Entries
      <4> DEFINE i == ((k - 1) \div d) + 1
                 j == ((k - 1) % d) + 1
      <4>1. i \in 1..Len(us) /\ j \in 1..d
        BY <1>3, <3>1, Positions
      <4> HIDE DEF i, j
      <4>2. told[i] \in [1..d -> texts]
        BY <1>3, <4>1 DEF Ranges, d
      <4>3. us[i] \in STRING /\ told[i][j] \in Texts
        BY <1>3, <4>1, <4>2
      <4>4. Entry(us[i], told[i][j]) \in Entries
        BY <4>3 DEF Entry, Entries
      <4> QED
        BY <4>4 DEF i, j
    <3> HIDE DEF At
    <3> QED
      BY <3>2, <3>3, <3>4
  <2> QED
    BY <2>1, <2>2
<1>5. SharedMsg'
  BY <1>1, <1>2, NoticeMsgShared
<1>6. (\E S : notices \in Seq(S))'
  BY <1>1 DEF NoticeInv
<1>7. NoticeAsMeant'
  BY <1>2 DEF NoticeAsMeant
<1> QED
  BY <1>1, <1>4, <1>5, <1>6, <1>7 DEF NoticeInv

(***************************************************************************)
(* A turn of the loops: the first notice is decoded; a later one has the   *)
(* checksum of more bytes than it holds.                                   *)
(***************************************************************************)
LEMMA ForwardNoticeStep == ASSUME NoticeInv, ForwardNotice PROVE NoticeInv'
<1> DEFINE n == Head(queue)
           m == [shared EXCEPT !.dst = n.dst, !.text = n.text]
           e == Msg2Binary(m)
           f == e.frame
           body == <<ZeroSess>> \o n.text
<1>1. /\ stage = "notice" /\ stage' = "notice" /\ queue # <<>> /\ queue' = Tail(queue)
      /\ queue \in Seq(Entries) /\ SharedMsg
  BY DEF ForwardNotice, NoticeInv
<1>2. PICK r \in Binary2Msg(f, NoKey) :
        shared' = e.msg /\ notices' = Append(notices, [want |-> n, got |-> r])
  BY DEF ForwardNotice
<1>3. n \in Entries /\ queue' \in Seq(Entries)
  BY <1>1
<1>4. n.text \in Texts /\ Fits(n.text)
  BY <1>3, TextsFit DEF Entries
<1> HIDE DEF n
<1>5. /\ MsgShape(m) /\ m.opcode = 2 /\ m.mask \in BOOLEAN /\ m.level = 0 /\ m.sess = ZeroSess
      /\ m.datacrc = shared.datacrc /\ m.dst = n.dst /\ m.text = n.text
  <2> DEFINE p == [shared EXCEPT !.dst = n.dst]
  <2>1. m = [p EXCEPT !.text = n.text]
    OBVIOUS
  <2>2. /\ MsgShape(shared) /\ shared.opcode = 2 /\ shared.mask \in BOOLEAN /\ shared.level = 0
        /\ shared.sess = ZeroSess
    BY <1>1 DEF SharedMsg
  <2>3. /\ MsgShape(p) /\ p.opcode = 2 /\ p.mask \in BOOLEAN /\ p.level = 0 /\ p.sess = ZeroSess
        /\ p.datacrc = shared.datacrc /\ p.dst = n.dst
    BY <2>2 DEF MsgShape
  <2> HIDE DEF p, m
  <2> QED
    BY <2>1, <2>3 DEF MsgShape
<1> HIDE DEF m
<1>6. /\ Whole(f, m.mz, ZeroSess, n.text) /\ f.dst = n.dst /\ f.level = 0
      /\ f.check = m.datacrc \o <<ZeroSess>> \o n.text
  BY <1>4, <1>5, EncodeWhole, Names DEF Encodes
<1>7. /\ e.msg.opcode = 2 /\ e.msg.mask \in BOOLEAN /\ e.msg.level = 0 /\ e.msg.sess = ZeroSess
      /\ e.msg.datacrc = m.datacrc \o <<ZeroSess>> \o n.text /\ MsgShape(e.msg)
  <2> DEFINE time == IF m.time = 0 THEN Now ELSE m.time
             crc == DataCrc(m)
  <2>1. e.msg = [m EXCEPT !.time = time, !.datacrc = crc]
    BY DEF Msg2Binary
  <2>2. crc = m.datacrc \o <<ZeroSess>> \o n.text
    BY <1>5 DEF DataCrc
  <2> HIDE DEF time, crc, e
  <2> QED
    BY <1>5, <2>1, <2>2 DEF MsgShape
<1> HIDE DEF f, e
<1>8. /\ m.datacrc \in Seq(Block) /\ ZeroSess \in Block /\ n.text \in Seq(Block)
      /\ m.datacrc = <<>> <=> notices = <<>>
  BY <1>1, <1>4, <1>5, Names DEF SharedMsg, Fits, IsSess
<1>9. /\ m.datacrc \o <<ZeroSess>> \o n.text \in Seq(Block)
      /\ m.datacrc \o <<ZeroSess>> \o n.text # <<>>
      /\ m.datacrc = <<>> <=> f.check = body
  <2> DEFINE all == m.datacrc \o <<ZeroSess>> \o n.text
  <2>1. /\ <<ZeroSess>> \in Seq(Block) /\ body \in Seq(Block) /\ Len(body) = 1 + Len(n.text)
        /\ Len(all) = Len(m.datacrc) + 1 + Len(n.text) /\ all \in Seq(Block)
        /\ Len(m.datacrc) \in Nat /\ Len(n.text) \in Nat
    BY <1>8
  <2>2. m.datacrc = <<>> => all = body
    BY <1>8, <2>1
  <2>3. m.datacrc # <<>> => Len(m.datacrc) # 0
    BY <1>8
  <2>4. f.check = all
    BY <1>6
  <2> HIDE DEF body, all
  <2>5. Len(all) # 0 /\ (m.datacrc # <<>> => Len(all) # Len(body))
    <3>1. \A x, y \in Nat : x + 1 + y # 0 /\ (x # 0 => x + 1 + y # 1 + y)
      OBVIOUS
    <3>2. /\ Len(all) = Len(m.datacrc) + 1 + Len(n.text) /\ Len(body) = 1 + Len(n.text)
          /\ Len(m.datacrc) \in Nat /\ Len(n.text) \in Nat
      BY <2>1, Zenon
    <3> QED
      BY <2>3, <3>1, <3>2, Zenon
  <2>6. all # <<>> /\ (m.datacrc # <<>> => all # body)
    <3>1. Len(<<>>) = 0
      OBVIOUS
    <3> QED
      BY <2>5, <3>1, Zenon
  <2>7. all \in Seq(Block) /\ all # <<>> /\ (m.datacrc = <<>> <=> f.check = body)
    BY <2>1, <2>2, <2>4, <2>6, Zenon
  <2> QED
    BY <2>7 DEF all
<1>10. /\ r.err <=> notices # <<>>
       /\ notices = <<>> => r.text = n.text /\ r.dst = n.dst
  <2>1. Whole(f, NoKey, ZeroSess, n.text) /\ OnWire(f)
    BY <1>6 DEF Whole, Keyed
  <2>2. IsSess(ZeroSess)
    BY Names
  <2>3. CASE notices = <<>>
    <3>0. f.check = <<ZeroSess>> \o n.text
      BY <1>8, <1>9, <2>3
    <3>1. Binary2Msg(f, NoKey) = {Read(f, FALSE, ZeroSess, n.text)}
      BY <1>8, <2>1, <2>2, <3>0, DecodeWhole
    <3>2. r = Read(f, FALSE, ZeroSess, n.text)
      BY <1>2, <3>1
    <3>3. ~r.err /\ ReadAs(r, f, ZeroSess, n.text)
      BY <2>1, <3>2, ReadFields
    <3> QED
      BY <1>6, <2>3, <3>3 DEF ReadAs
  <2>4. CASE notices # <<>>
    <3>1. \/ Binary2Msg(f, NoKey) = {Read(f, TRUE, ZeroSess, <<>>)}
          \/ Binary2Msg(f, NoKey) = {Read(f, TRUE, Nil, <<>>)}
      BY <1>8, <1>9, <2>1, <2>2, <2>4, DecodeWhole
    <3>2. r = Read(f, TRUE, ZeroSess, <<>>) \/ r = Read(f, TRUE, Nil, <<>>)
      BY <1>2, <3>1
    <3>3. r.err
      BY <2>1, <3>2, ReadFields
    <3> QED
      BY <2>4, <3>3
  <2> QED
    BY <2>3, <2>4
<1> DEFINE x == [want |-> n, got |-> r]
<1>11. x.want = n /\ x.got = r /\ notices' = Append(notices, x)
  BY <1>2
<1> HIDE DEF x
<1>12. PICK S : notices \in Seq(S)
  BY DEF NoticeInv
<1>13. /\ notices \in Seq(S \cup {x}) /\ Len(notices) \in Nat
       /\ notices' \in Seq(S \cup {x}) /\ Len(notices') = Len(notices) + 1
       /\ DOMAIN notices' = 1..(Len(notices) + 1) /\ DOMAIN notices = 1..Len(notices)
       /\ notices'[Len(notices) + 1] = x
       /\ \A i \in 1..Len(notices) : notices'[i] = notices[i]
  <2>1. notices \in [1..Len(notices) -> S \cup {x}] /\ Len(notices) \in Nat
    BY <1>12
  <2>2. notices \in Seq(S \cup {x})
    BY <2>1, SeqDef
  <2> QED
    BY <1>11, <2>2
<1>14. NoticeAsMeant'
  <2>1. ASSUME NEW i \in 1..(Len(notices) + 1)
        PROVE  LET z == notices'[i]
               IN  /\ i = 1 <=> ~z.got.err
                   /\ ~z.got.err => z.got.text = z.want.text /\ z.got.dst = z.want.dst
    <3>1. CASE i \in 1..Len(notices)
      BY <1>13, <3>1 DEF NoticeInv, NoticeAsMeant
    <3>2. CASE i = Len(notices) + 1
      <4>1. i = 1 <=> notices = <<>>
        BY <1>12, <3>2
      <4>2. notices'[i] = x
        BY <1>13, <3>2
      <4> QED
        BY <1>10, <1>11, <4>1, <4>2
    <3> QED
      BY <1>13, <3>1, <3>2
  <2> QED
    BY <1>13, <2>1 DEF NoticeAsMeant
<1>15. SharedMsg'
  <2>1. notices' # <<>>
    BY <1>13
  <2> QED
    BY <1>2, <1>7, <1>9, <2>1 DEF SharedMsg
<1> QED
  BY <1>1, <1>3, <1>13, <1>14, <1>15 DEF NoticeInv

\* Every step: those of the frame leave the notices alone.
LEMMA NoticeInvStep == ASSUME NoticeInv, [PathNext]_pathVars PROVE NoticeInv'
<1>1. ASSUME stage # "notice", stage' # "notice", UNCHANGED noticeVars PROVE NoticeInv'
  <2>1. notices' = notices
    BY <1>1 DEF noticeVars
  <2> QED
    BY <1>1, <2>1 DEF NoticeInv, NoticeAsMeant
<1>2. ASSUME NEW w, NEW mask, NEW level, NEW seq, NEW time, NEW text,
             Send(w, mask, level, seq, time, text)
      PROVE  NoticeInv'
  <2>1. stage = "idle" /\ stage' = "link" /\ UNCHANGED noticeVars
    BY <1>2 DEF Send
  <2> QED
    BY <1>1, <2>1
<1>3. ASSUME NEW kind, LinkDamages(kind) PROVE NoticeInv'
  <2>1. stage = "link" /\ stage' = "link" /\ UNCHANGED noticeVars
    BY <1>3 DEF LinkDamages
  <2> QED
    BY <1>1, <2>1
<1>4. ASSUME PhoneOpcode5 \/ DevOpcode05 \/ PhoneOpcode3 \/ DevOpcode03 PROVE NoticeInv'
  <2>1. stage = "link" /\ stage' \in {"relayed", "closed", "refused"} /\ UNCHANGED noticeVars
    BY <1>4, Zenon DEF PhoneOpcode5, DevOpcode05, PhoneOpcode3, DevOpcode03
  <2> QED
    BY <1>1, <2>1
<1>5. ASSUME NEW mz, UsrPushMsg(mz) PROVE NoticeInv'
  <2>1. stage = "relayed" /\ stage' = "arrived" /\ UNCHANGED noticeVars
    BY <1>5 DEF UsrPushMsg
  <2> QED
    BY <1>1, <2>1
<1>6. ASSUME NEW mz, NEW macKnown \in BOOLEAN, DevPushMsg(mz, macKnown) PROVE NoticeInv'
  <2>1. stage = "relayed" /\ UNCHANGED noticeVars
    BY <1>6 DEF DevPushMsg
  <2>2. PICK r : CASE r.opcode = 5 /\ macKnown /\ mz # NoKey ->
                        arrived' = WithSecret(r, mz, "mac") /\ stage' = "arrived"
                   [] r.opcode = 5 /\ (~macKnown \/ mz = NoKey) ->
                        stage' = "refused" /\ UNCHANGED arrived
                   [] r.opcode # 5 -> arrived' = r.frame /\ stage' = "arrived"
    BY <1>6, Zenon DEF DevPushMsg
  <2>3. stage' \in {"arrived", "refused"}
    BY <2>2
  <2> QED
    BY <1>1, <2>1, <2>3
<1>7. CASE Receive
  <2>1. stage = "arrived" /\ stage' = "done" /\ UNCHANGED noticeVars
    BY <1>7 DEF Receive
  <2> QED
    BY <1>1, <2>1
<1>8. ASSUME NEW us \in Receivers, NEW text \in Texts, PushOneText(us, text) PROVE NoticeInv'
  BY <1>8, PushStep
<1>9. ASSUME NEW us \in Receivers, NEW texts \in SUBSET Texts, IsFiniteSet(texts), texts # {},
             PushDevOfflineMsgToUsers(us, texts)
      PROVE  NoticeInv'
  BY <1>9, PushStep
<1>10. CASE ForwardNotice
  BY <1>10, ForwardNoticeStep
<1>11. CASE UNCHANGED pathVars
  <2>1. stage' = stage /\ queue' = queue /\ shared' = shared /\ notices' = notices
    BY <1>11 DEF pathVars
  <2> QED
    BY <2>1 DEF NoticeInv, NoticeAsMeant, SharedMsg
<1>12. \A texts \in SUBSET (Texts \ {<<>>}) : texts \in SUBSET Texts
  OBVIOUS
<1> QED
  BY <1>2, <1>3, <1>4, <1>5, <1>6, <1>7, <1>8, <1>9, <1>10, <1>11, <1>12, Zenon DEF PathNext

-----------------------------------------------------------------------------
(* Theorems.                                                               *)

(***************************************************************************)
(* Binary2Msg undoes Msg2Binary: a message of opcode 2 or 5 that is        *)
(* encoded at any key level decodes under the same secret, without error,  *)
(* to its session id, its text and its addresses, whether masked or not.   *)
(***************************************************************************)
THEOREM RoundTrip ==
    ASSUME NEW opcode \in {2, 5}, NEW mask \in BOOLEAN, NEW level \in {0, 1, 3}, NEW seq,
           NEW time, NEW src, NEW dst, NEW mz, NEW sess, NEW text \in Texts \cup {<<>>},
           level = 3 => mz # NoKey, IsSess(sess),
           NEW r \in Binary2Msg(Msg2Binary(NewMsg(opcode, mask, level, seq, time, src, dst,
                                                  mz, sess, text)).frame, mz)
    PROVE  /\ ~r.err /\ r.sess = sess /\ r.text = text
           /\ r.opcode = opcode /\ r.src = src /\ r.dst = dst
<1> DEFINE f == Msg2Binary(NewMsg(opcode, mask, level, seq, time, src, dst, mz, sess,
                                  text)).frame
<1>1. Fits(text)
  BY TextsFit
<1>2. Carries(f, mz, sess, text) /\ f.opcode = opcode /\ f.src = src /\ f.dst = dst
  BY <1>1, EncodeNew
<1> HIDE DEF f
<1>3. r \in Binary2Msg(f, mz)
  BY DEF f
<1> QED
  BY <1>1, <1>2, <1>3, DecodeCarried

\* The two invariants.
LEMMA PathInvsAlways == PathSpec => [](PathInv /\ NoticeInv)
<1>1. PathInit => PathInv /\ NoticeInv
  <2> SUFFICES ASSUME PathInit PROVE PathInv /\ NoticeInv
    OBVIOUS
  <2>1. /\ stage = "idle" /\ way = None /\ sent = <<>> /\ damaged = FALSE /\ notices = <<>>
    BY DEF PathInit
  <2>2. PathInv
    BY <2>1 DEF PathInv, PathTypes, AtLink, AtRelay, AtReceiver, AtEnd, EndToEnd
  <2>3. notices \in Seq({})
    BY <2>1
  <2>4. \E S : notices \in Seq(S)
    BY <2>3
  <2>5. NoticeInv
    BY <2>1, <2>4 DEF NoticeInv, NoticeAsMeant
  <2> QED
    BY <2>2, <2>5
<1>2. PathInv /\ NoticeInv /\ [PathNext]_pathVars => PathInv' /\ NoticeInv'
  BY PathInvStep, NoticeInvStep
<1> QED
  BY <1>1, <1>2, PTL DEF PathSpec

(***************************************************************************)
(* A frame that is not damaged passes the sender's comet and reaches the   *)
(* receiver, if at all, as what was meant: through Msg2Binary, Binary2Msg, *)
(* opcode03, opcode05 and both PushMsg, for all texts, times and numbers.  *)
(***************************************************************************)
THEOREM EndToEndAlways == PathSpec => []EndToEnd
<1>1. PathInv /\ NoticeInv => EndToEnd
  BY DEF PathInv, AtEnd
<1> QED
  BY <1>1, PathInvsAlways, PTL

(***************************************************************************)
(* A damaged frame of a phone, or of a device over UDP, never reaches the  *)
(* receiver with another text: the checks of Binary2Msg, the end of the    *)
(* connection (mws.go) or the session id (opcode05) stop it.               *)
(***************************************************************************)
THEOREM NothingForgedAlways == PathSpec => []NothingForged
<1>1. PathInv /\ NoticeInv => NothingForged
  BY DEF PathInv, AtEnd, NothingForged, Unstopped, Passed, Left
<1> QED
  BY <1>1, PathInvsAlways, PTL

(***************************************************************************)
(* Of the notices that one call sends with the same Msg, exactly the first *)
(* is accepted, for any lists of users and devices: m.datacrc keeps the    *)
(* bytes of the earlier ones (rds.go Push...MsgToUsers).                   *)
(***************************************************************************)
THEOREM NoticeAsMeantAlways == PathSpec => []NoticeAsMeant
<1>1. PathInv /\ NoticeInv => NoticeAsMeant
  BY DEF NoticeInv
<1> QED
  BY <1>1, PathInvsAlways, PTL
=============================================================================
