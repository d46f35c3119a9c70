-------------------------- MODULE Delivery_proofs --------------------------
(***************************************************************************)
(* Proofs about Delivery and the layers in it that find the receiver: that *)
(* a behaviour of Delivery is a behaviour of every layer; that a bound id  *)
(* is reached and an undisturbed list of bindings agrees with Redis, for   *)
(* any finite set of ids and any number of bindings and messages; that the *)
(* route is current once everything published has been handled and a       *)
(* Forward that is judged reaches its comet, for any comets, handlers and  *)
(* numbers of logins and restarts; and the types of all layers.  The last  *)
(* theorem puts these together with those about the other layers, from     *)
(* FramePath_proofs, Connections_proofs and SentinelTable_proofs.          *)
(***************************************************************************)
EXTENDS Delivery, FramePath_proofs, Connections_proofs, SentinelTable_proofs,
        FiniteSetTheorems, SequenceTheorems, TLAPS

-----------------------------------------------------------------------------
(* The layers.                                                             *)

\* A step of Delivery is one of the layer or leaves it alone.
LEMMA LayerSteps ==
    ASSUME [Next]_vars
    PROVE  /\ [PathNext]_pathVars
           /\ [SeqNext]_seqVars /\ [WsNext]_wsVars /\ [TcpNext]_tcpVars
           /\ [BindNext]_bindVars /\ [TableNext]_tableVars /\ [ForwardNext]_forwardVars
BY DEF Next, vars

(***************************************************************************)
(* A behaviour of Delivery is a behaviour of each layer: what is proved of *)
(* the layers holds of the composition.                                    *)
(***************************************************************************)
THEOREM LayersImplemented ==
    Spec => /\ PathSpec /\ SeqSpec /\ WsSpec /\ TcpSpec
            /\ BindSpec /\ TableSpec /\ ForwardSpec
<1>1. Init => PathInit /\ SeqInit /\ WsInit /\ TcpInit /\ BindInit /\ TableInit /\ ForwardInit
  BY DEF Init
<1> QED
  BY <1>1, LayerSteps, PTL
  DEF Spec, PathSpec, SeqSpec, WsSpec, TcpSpec, BindSpec, TableSpec, ForwardSpec

-----------------------------------------------------------------------------
(* Bindings: a bound id is reached.                                        *)

\* Between the answer of Redis and its use, an answer that is not empty names
\* the receiver, if the receiver was bound when the call began.
AnswerNames == call = "read" /\ wasBound /\ answer.set # {} => answer.ok /\ to \in answer.set

\* Every step of the service, the notices, the login and the call.
LEMMA ReachedStep ==
    ASSUME AnswerNames, BoundIsReached, [BindNext]_bindVars
    PROVE  AnswerNames' /\ BoundIsReached'
<1> USE DEF AnswerNames, BoundIsReached
<1>1. ASSUME NEW id \in Ids, NEW kin \in BOOLEAN, Rebind(id, kin)
      PROVE  AnswerNames' /\ BoundIsReached'
  BY <1>1 DEF Rebind
<1>2. ASSUME NEW id \in Ids, CalcDestIds(id) PROVE AnswerNames' /\ BoundIsReached'
  <2>1. /\ to' = id /\ wasBound' = (id \in bound)
        /\ \/ call' = "read" /\ answer' \in Answers
           \/ call' = "over" /\ refusedTo' = (id \notin Range(ids)) /\ id \in Range(ids)
    BY <1>2 DEF CalcDestIds, Reloads
  <2>2. CASE call' = "read" /\ answer' \in Answers
    <3>1. CASE answer' = [ok |-> side = "usr" \/ bound # {}, set |-> bound]
      <4>1. answer'.set = bound /\ (answer'.ok = (side = "usr" \/ bound # {}))
        BY <3>1
      <4> QED
        BY <2>1, <2>2, <4>1
    <3>2. CASE answer' = [ok |-> side = "usr", set |-> {}]
      BY <2>2, <3>2
    <3> QED
      BY <2>2, <3>1, <3>2 DEF Answers
  <2>3. CASE call' = "over" /\ refusedTo' = (id \notin Range(ids)) /\ id \in Range(ids)
    BY <2>3
  <2> QED
    BY <2>1, <2>2, <2>3
<1>3. CASE Reload
  BY <1>3 DEF Reload
<1>4. CASE ReturnDest
  BY <1>4 DEF ReturnDest
<1>5. CASE UNCHANGED callVars
  BY <1>5 DEF callVars
<1>6. ASSUME HandleDeviceUsers \/ ReadAtLogin \/ LoadAtLogin \/ EnterPoolOf
      PROVE  UNCHANGED callVars
  BY <1>6 DEF HandleDeviceUsers, ReadAtLogin, LoadAtLogin, EnterPoolOf
<1>7. ASSUME NEW n, StartUpdateIds(n) PROVE UNCHANGED callVars
  BY <1>7 DEF StartUpdateIds
<1>8. ASSUME NEW u, UpdateIds(u) PROVE UNCHANGED callVars
  BY <1>8 DEF UpdateIds
<1>9. ASSUME UNCHANGED bindVars PROVE UNCHANGED callVars
  BY <1>9 DEF bindVars, callVars
<1> QED
  BY <1>1, <1>2, <1>3, <1>4, <1>5, <1>6, <1>7, <1>8, <1>9 DEF BindNext

\* A message to an id that is bound throughout is not refused, however the
\* notices, the load and the call interleave: calcDestIds reads Redis again.
THEOREM BoundIsReachedAlways == BindSpec => []BoundIsReached
<1>1. BindInit => AnswerNames /\ BoundIsReached
  BY DEF BindInit, AnswerNames, BoundIsReached
<1>2. (AnswerNames /\ BoundIsReached) /\ [BindNext]_bindVars
        => (AnswerNames /\ BoundIsReached)'
  BY ReachedStep
<1> QED
  BY <1>1, <1>2, PTL DEF BindSpec

-----------------------------------------------------------------------------
(* The list.  What was published and has not reached the list is a set of  *)
(* notices, each with its number.                                          *)

Notes == [n : Nat, id : Ids, bind : BOOLEAN, kin : BOOLEAN]
Noted == Range(outbox) \cup pend \cup {u.note : u \in upd}

\* o is the first, the last of the notices N about its id; o and p follow
\* each other.
IsFirst(o, N) == \A q \in N : q.id = o.id => o.n <= q.n
IsLast(o, N) == \A q \in N : q.id = o.id => q.n <= o.n
Follow(o, p, N) ==
    /\ o.id = p.id /\ o.n < p.n
    /\ \A q \in N : q.id = o.id => q.n <= o.n \/ p.n <= q.n

\* The notices about an id bind and unbind in turn, and the last one has left
\* the id as Redis has it, b.
Alternate(N, b) ==
    /\ \A o, p \in N : Follow(o, p, N) => (o.bind <=> ~p.bind)
    /\ \A o \in N : IsLast(o, N) => (o.bind <=> o.id \in b)

\* The ids R of the list are those bound before the first of the notices: all
\* of them, or, as long as the list is not loaded, none but them.
View(N, b, R, at) ==
    /\ \A o \in N : IsFirst(o, N) =>
        (o.id \in R => ~o.bind) /\ (at = "done" /\ ~o.bind => o.id \in R)
    /\ \A id \in Ids : (\A o \in N : o.id # id) =>
        (id \in R => id \in b) /\ (at = "done" /\ id \in b => id \in R)

Types ==
    /\ bound \subseteq Ids /\ count \in Nat /\ ids \in Seq(Ids)
    /\ outbox \in Seq(Notes) /\ pend \subseteq Notes /\ \A u \in upd : u.note \in Notes
    /\ load \in {"todo", "read", "done"}

\* The order of the notices: those whose UpdateIds has read the list before
\* those whose goroutine waits, before those to be published.
OutOrder(ob, c) ==
    /\ \A i \in DOMAIN ob : ob[i].n < c /\ ~ob[i].kin
    /\ \A i, j \in DOMAIN ob : i < j => ob[i].n < ob[j].n
PendOrder(pd, ob, c) ==
    /\ \A p \in pd : p.n < c /\ ~p.kin /\ \A i \in DOMAIN ob : p.n < ob[i].n
    /\ \A p, r \in pd : p.n = r.n => p = r
UpdOrder(up, pd, ob, c, L) ==
    /\ \A u \in up : /\ u.note.n < c /\ u.snap = L
                     /\ \A p \in pd : u.note.n < p.n
                     /\ \A i \in DOMAIN ob : u.note.n < ob[i].n
    /\ \A u, v \in up : u = v
NotesInOrder(ob, pd, up, c, L) ==
    OutOrder(ob, c) /\ PendOrder(pd, ob, c) /\ UpdOrder(up, pd, ob, c, L)
Order == NotesInOrder(outbox, pend, upd, count, ids)

\* What was read from Redis is still so when it is put into the list.
Fresh ==
    /\ Reading => ~Outstanding
    /\ load = "read" => loaded.set = bound
    /\ call = "read" => answer.set = bound

Listed ==
    /\ IsInjective(ids)
    /\ ~inPool /\ load = "todo" => ids = <<>>
    /\ upd # {} \/ call = "read" => inPool
    /\ Alternate(Noted, bound)
    /\ View(Noted, bound, Range(ids), load)

Good == Types /\ Order /\ Fresh /\ Listed
IInv == ~disturbed => Good

\* SetToSeq lists a finite set, each element once.
LEMMA SetToSeqLists ==
    ASSUME NEW S, IsFiniteSet(S)
    PROVE  SetToSeq(S) \in Seq(S) /\ IsInjective(SetToSeq(S)) /\ Range(SetToSeq(S)) = S
<1> DEFINE n == Cardinality(S)
           f == SetToSeq(S)
<1>1. n \in Nat /\ ExistsBijection(1..n, S)
  BY FS_CardinalityType
<1>2. \E g \in [1..n -> S] : IsInjective(g)
  BY <1>1 DEF ExistsBijection, Bijection, Injection
<1>3. f \in [1..n -> S] /\ IsInjective(f)
  BY <1>2 DEF SetToSeq
<1> HIDE DEF f
<1>4. f \in Injection(1..n, S)
  BY <1>3 DEF Injection
<1>5. IsFiniteSet(1..n) /\ Cardinality(1..n) = n
  BY <1>1, FS_Interval
<1>6. f \in Surjection(1..n, S)
  BY <1>4, <1>5, FS_Injection
<1>7. f \in Seq(S)
  BY <1>1, <1>3
<1>8. Range(f) = S
  BY <1>3, <1>6 DEF Range, Surjection
<1> QED
  BY <1>3, <1>7, <1>8 DEF f

\* Unbinding takes the id out of a list that has no id twice.
LEMMA WithoutTakesOut ==
    ASSUME NEW L \in Seq(Ids), IsInjective(L), NEW id
    PROVE  /\ Without(L, id) \in Seq(Ids) /\ IsInjective(Without(L, id))
           /\ Range(Without(L, id)) = Range(L) \ {id}
<1>1. CASE id \notin Range(L)
  BY <1>1 DEF Without
<1>2. CASE id \in Range(L)
  <2> DEFINE First(i) == L[i] = id /\ \A j \in 1..(i - 1) : L[j] # id
             k == CHOOSE i \in DOMAIN L : First(i)
             n == Len(L)
             M == [L EXCEPT ![k] = L[Len(L)]]
             W == SubSeq(M, 1, Len(L) - 1)
  <2>1. DOMAIN L = 1..n /\ n \in Nat /\ \A i, j \in 1..n : L[i] = L[j] => i = j
    BY DEF IsInjective
  <2>2. \E i \in DOMAIN L : First(i)
    <3>1. PICK i \in 1..n : L[i] = id
      BY <1>2, <2>1 DEF Range
    <3>2. \A j \in 1..(i - 1) : L[j] # id
      BY <2>1, <3>1
    <3> QED
      BY <2>1, <3>1, <3>2
  <2>3. k \in DOMAIN L /\ First(k)
    BY <2>2
  <2>4. Without(L, id) = W
    BY <1>2 DEF Without
  <2> HIDE DEF k
  <2>5. k \in 1..n /\ L[k] = id /\ n >= 1
    BY <2>1, <2>3
  <2>6. M \in Seq(Ids) /\ Len(M) = n /\ \A i \in 1..n : M[i] = IF i = k THEN L[n] ELSE L[i]
    BY <2>1, <2>5
  <2> HIDE DEF M
  <2>7. /\ W \in Seq(Ids) /\ DOMAIN W = 1..(n - 1)
        /\ \A i \in 1..(n - 1) : W[i] = M[i]
    BY <2>1, <2>5, <2>6
  <2> HIDE DEF W, n
  <2>8. \A i \in 1..(n - 1) : W[i] = IF i = k THEN L[n] ELSE L[i]
    BY <2>1, <2>5, <2>6, <2>7
  <2>9. IsInjective(W)
    BY <2>1, <2>5, <2>7, <2>8 DEF IsInjective
  <2>10. ASSUME NEW x \in Range(W) PROVE x \in Range(L) \ {id}
    BY <2>1, <2>5, <2>7, <2>8 DEF Range
  <2>11. ASSUME NEW x \in Range(L), x # id PROVE x \in Range(W)
    <3>1. PICK i \in 1..n : L[i] = x
      BY <2>1 DEF Range
    <3>2. CASE i = n
      <4>1. k # n /\ k \in 1..(n - 1)
        BY <2>1, <2>5, <2>11, <3>1, <3>2
      <4> QED
        BY <2>7, <2>8, <3>1, <3>2, <4>1 DEF Range
    <3>3. CASE i # n
      <4>1. i \in 1..(n - 1) /\ i # k
        BY <2>1, <2>5, <2>11, <3>1, <3>3
      <4> QED
        BY <2>7, <2>8, <3>1, <4>1 DEF Range
    <3> QED
      BY <3>2, <3>3
  <2> QED
    BY <2>4, <2>7, <2>9, <2>10, <2>11
<1> QED
  BY <1>1, <1>2

\* Binding adds the id to a list that does not have it.
LEMMA AppendPutsIn ==
    ASSUME NEW L \in Seq(Ids), IsInjective(L), NEW id \in Ids, id \notin Range(L)
    PROVE  /\ Append(L, id) \in Seq(Ids) /\ IsInjective(Append(L, id))
           /\ Range(Append(L, id)) = Range(L) \cup {id}
<1> DEFINE n == Len(L)
           W == Append(L, id)
<1>1. DOMAIN L = 1..n /\ n \in Nat
  OBVIOUS
<1>2. /\ W \in Seq(Ids) /\ DOMAIN W = 1..(n + 1)
      /\ W[n + 1] = id /\ \A i \in 1..n : W[i] = L[i]
  BY <1>1
<1> HIDE DEF W, n
<1>3. \A i \in 1..(n + 1) : i = n + 1 \/ i \in 1..n
  BY <1>1
<1>4. \A i \in 1..n : W[i] # id
  BY <1>1, <1>2 DEF Range
<1>5. IsInjective(W)
  BY <1>1, <1>2, <1>3, <1>4 DEF IsInjective
<1>6. Range(W) = Range(L) \cup {id}
  <2>1. \A i \in 1..n : i \in 1..(n + 1)
    BY <1>1
  <2>2. n + 1 \in 1..(n + 1)
    BY <1>1
  <2> QED
    BY <1>1, <1>2, <1>3, <2>1, <2>2 DEF Range
<1> QED
  BY <1>2, <1>5, <1>6 DEF W

\* A binding or unbinding: a notice with the next number.
LEMMA NoteAdded ==
    ASSUME NEW N, NEW b, NEW b2, NEW R, NEW at, NEW c \in Nat, NEW m,
           \A o \in N : o.n \in Nat /\ o.n < c,
           m.n = c, m.id \in Ids, m.bind <=> m.id \notin b, m.bind <=> m.id \in b2,
           \A id : id # m.id => (id \in b2 <=> id \in b),
           Alternate(N, b), View(N, b, R, at)
    PROVE  Alternate(N \cup {m}, b2) /\ View(N \cup {m}, b2, R, at)
<1>1. ASSUME NEW o \in N \cup {m}, NEW p \in N \cup {m}, Follow(o, p, N \cup {m})
      PROVE  o.bind <=> ~p.bind
  <2>1. o \in N
    BY <1>1 DEF Follow
  <2>2. CASE p \in N
    BY <1>1, <2>1, <2>2 DEF Follow, Alternate
  <2>3. CASE p = m
    <3>1. IsLast(o, N)
      BY <1>1, <2>3 DEF Follow, IsLast
    <3> QED
      BY <1>1, <2>1, <2>3, <3>1 DEF Follow, Alternate
  <2> QED
    BY <2>2, <2>3
<1>2. ASSUME NEW o \in N \cup {m}, IsLast(o, N \cup {m}) PROVE o.bind <=> o.id \in b2
  <2>1. CASE o = m
    BY <2>1
  <2>2. CASE o \in N
    <3>1. o.id # m.id
      BY <1>2, <2>2 DEF IsLast
    <3>2. IsLast(o, N)
      BY <1>2 DEF IsLast
    <3> QED
      BY <2>2, <3>1, <3>2 DEF Alternate
  <2> QED
    BY <2>1, <2>2
<1>3. ASSUME NEW o \in N \cup {m}, IsFirst(o, N \cup {m})
      PROVE  (o.id \in R => ~o.bind) /\ (at = "done" /\ ~o.bind => o.id \in R)
  <2>1. CASE o \in N
    BY <1>3, <2>1 DEF IsFirst, View
  <2>2. CASE o = m
    <3>1. \A q \in N : q.id # m.id
      BY <1>3, <2>2 DEF IsFirst
    <3> QED
      BY <2>2, <3>1 DEF View
  <2> QED
    BY <2>1, <2>2
<1>4. ASSUME NEW id \in Ids, \A o \in N \cup {m} : o.id # id
      PROVE  (id \in R => id \in b2) /\ (at = "done" /\ id \in b2 => id \in R)
  BY <1>4 DEF View
<1> QED
  BY <1>1, <1>2, <1>3, <1>4 DEF Alternate, View

\* The oldest notice is gone.
LEMMA NoteGone ==
    ASSUME NEW N, NEW b, NEW o \in N, \A q \in N : q.n \in Nat,
           \A q \in N : q # o => o.n < q.n, Alternate(N, b)
    PROVE  Alternate(N \ {o}, b)
<1>1. ASSUME NEW p \in N \ {o}, NEW q \in N \ {o}, Follow(p, q, N \ {o})
      PROVE  p.bind <=> ~q.bind
  <2>1. Follow(p, q, N)
    BY <1>1 DEF Follow
  <2> QED
    BY <2>1 DEF Alternate
<1>2. ASSUME NEW p \in N \ {o}, IsLast(p, N \ {o}) PROVE p.bind <=> p.id \in b
  <2>1. IsLast(p, N)
    BY <1>2 DEF IsLast
  <2> QED
    BY <2>1 DEF Alternate
<1> QED
  BY <1>1, <1>2 DEF Alternate

\* The oldest notice is applied to the list.
LEMMA NoteApplied ==
    ASSUME NEW N, NEW b, NEW R, NEW R2, NEW at, NEW o \in N, \A q \in N : q.n \in Nat,
           \A q \in N : q # o => o.n < q.n,
           R2 = IF o.bind THEN R \cup {o.id} ELSE R \ {o.id},
           Alternate(N, b), View(N, b, R, at)
    PROVE  View(N \ {o}, b, R2, at)
<1>1. ASSUME NEW p \in N \ {o}, IsFirst(p, N \ {o})
      PROVE  (p.id \in R2 => ~p.bind) /\ (at = "done" /\ ~p.bind => p.id \in R2)
  <2>1. CASE p.id # o.id
    <3>1. IsFirst(p, N)
      BY <1>1, <2>1 DEF IsFirst
    <3> QED
      BY <2>1, <3>1 DEF View
  <2>2. CASE p.id = o.id
    <3>1. Follow(o, p, N)
      BY <1>1, <2>2 DEF IsFirst, Follow
    <3>2. o.bind <=> ~p.bind
      BY <3>1 DEF Alternate
    <3> QED
      BY <2>2, <3>2
  <2> QED
    BY <2>1, <2>2
<1>2. ASSUME NEW id \in Ids, \A q \in N \ {o} : q.id # id
      PROVE  (id \in R2 => id \in b) /\ (at = "done" /\ id \in b => id \in R2)
  <2>1. CASE id # o.id
    BY <1>2, <2>1 DEF View
  <2>2. CASE id = o.id
    <3>1. IsLast(o, N)
      BY <1>2, <2>2 DEF IsLast
    <3>2. o.bind <=> id \in b
      BY <2>2, <3>1 DEF Alternate
    <3> QED
      BY <2>2, <3>2
  <2> QED
    BY <2>1, <2>2
<1> QED
  BY <1>1, <1>2 DEF View

\* What the notices are, wherever they are.
LEMMA NotedFacts ==
    ASSUME Types, Order
    PROVE  \A o \in Noted : o \in Notes /\ o.n \in Nat /\ o.id \in Ids /\ o.n < count
<1>1. \A o \in Notes : o.n \in Nat /\ o.id \in Ids
  BY DEF Notes
<1>2. \A o \in Range(outbox) : o \in Notes /\ o.n < count
  BY DEF Types, Order, NotesInOrder, OutOrder, Range
<1>3. \A o \in pend : o \in Notes /\ o.n < count
  BY DEF Types, Order, NotesInOrder, PendOrder
<1>4. \A u \in upd : u.note \in Notes /\ u.note.n < count
  BY DEF Types, Order, NotesInOrder, UpdOrder
<1> QED
  BY <1>1, <1>2, <1>3, <1>4 DEF Noted

\* The service binds or unbinds.
LEMMA RebindStep ==
    ASSUME Good, NEW id \in Ids, NEW kin \in BOOLEAN, Rebind(id, kin), ~disturbed'
    PROVE  Good'
<1> USE DEF Good
<1> DEFINE m == [n |-> count, id |-> id, bind |-> id \notin bound, kin |-> kin]
           q == Append(outbox, m)
<1>1. /\ count' = count + 1 /\ outbox' = q /\ ~kin /\ ~Reading
      /\ bound' = IF id \notin bound THEN bound \cup {id} ELSE bound \ {id}
      /\ UNCHANGED <<pend, upd, inPool, load, loaded, ids, call, answer>>
  BY DEF Rebind
<1>2. m \in Notes /\ m.n = count /\ m.id = id /\ ~m.kin /\ (m.bind <=> id \notin bound)
  <2>0. count \in Nat
    BY DEF Types
  <2>1. CASE id \in bound
    <3>1. m = [n |-> count, id |-> id, bind |-> FALSE, kin |-> FALSE]
      BY <1>1, <2>1
    <3> QED
      BY <2>0, <2>1, <3>1 DEF Notes
  <2>2. CASE id \notin bound
    <3>1. m = [n |-> count, id |-> id, bind |-> TRUE, kin |-> FALSE]
      BY <1>1, <2>2
    <3> QED
      BY <2>0, <2>2, <3>1 DEF Notes
  <2> QED
    BY <2>1, <2>2
<1> HIDE DEF m
<1>3. count \in Nat /\ outbox \in Seq(Notes) /\ Len(outbox) \in Nat
  BY DEF Types
<1>4. /\ q \in Seq(Notes) /\ DOMAIN q = 1..(Len(outbox) + 1)
      /\ q[Len(outbox) + 1] = m /\ \A i \in 1..Len(outbox) : q[i] = outbox[i]
  BY <1>2, <1>3
<1> HIDE DEF q
<1>5. \A i \in DOMAIN q :
        \/ i \in DOMAIN outbox /\ q[i] = outbox[i]
        \/ i = Len(outbox) + 1 /\ q[i] = m
  BY <1>3, <1>4
<1>6. DOMAIN outbox = 1..Len(outbox) /\ \A i \in DOMAIN outbox : outbox[i].n \in Nat
  <2>1. \A o \in Notes : o.n \in Nat
    BY DEF Notes
  <2> QED
    BY <1>3, <2>1
<1>7. Range(q) = Range(outbox) \cup {m}
  <2>1. \A i \in DOMAIN outbox : i \in DOMAIN q
    BY <1>3, <1>4
  <2>2. Len(outbox) + 1 \in DOMAIN q
    BY <1>3, <1>4
  <2> QED
    BY <1>4, <1>5, <1>6, <2>1, <2>2 DEF Range
<1>8. Noted' = Noted \cup {m}
  BY <1>1, <1>7 DEF Noted
<1>9. Types'
  BY <1>1, <1>3, <1>4 DEF Types
<1>10. Order'
  <2>1. \A o \in pend : o.n < count /\ o.n \in Nat
    BY NotedFacts DEF Noted
  <2>2. \A u \in upd : u.note.n < count /\ u.note.n \in Nat
    BY NotedFacts DEF Noted
  <2>3. OutOrder(q, count + 1)
    <3>1. \A i \in DOMAIN q : q[i].n < count + 1 /\ ~q[i].kin
      BY <1>2, <1>3, <1>5, <1>6 DEF Order, NotesInOrder, OutOrder
    <3>2. ASSUME NEW i \in DOMAIN q, NEW j \in DOMAIN q, i < j PROVE q[i].n < q[j].n
      <4>1. i \in DOMAIN outbox /\ q[i] = outbox[i]
        BY <1>3, <1>4, <1>5, <3>2
      <4>2. outbox[i].n < count
        BY <4>1 DEF Order, NotesInOrder, OutOrder
      <4> QED
        BY <1>2, <1>5, <3>2, <4>1, <4>2 DEF Order, NotesInOrder, OutOrder
    <3> QED
      BY <3>1, <3>2 DEF OutOrder
  <2>4. PendOrder(pend, q, count + 1)
    BY <1>2, <1>3, <1>5, <2>1 DEF Order, NotesInOrder, PendOrder
  <2>5. UpdOrder(upd, pend, q, count + 1, ids)
    BY <1>2, <1>3, <1>5, <2>2 DEF Order, NotesInOrder, UpdOrder
  <2> QED
    BY <1>1, <2>3, <2>4, <2>5 DEF Order, NotesInOrder
<1>11. Fresh'
  BY <1>1 DEF Fresh, Reading
<1>12. Listed'
  <2>1. \A o \in Noted : o.n \in Nat /\ o.n < count
    BY NotedFacts
  <2>2. \A x : x # id => (x \in bound' <=> x \in bound)
    BY <1>1
  <2>3. id \in bound' <=> id \notin bound
    BY <1>1
  <2>4. Alternate(Noted \cup {m}, bound') /\ View(Noted \cup {m}, bound', Range(ids), load)
    BY <1>2, <1>3, <2>1, <2>2, <2>3, NoteAdded DEF Listed
  <2> QED
    BY <1>1, <1>8, <2>4 DEF Listed
<1> QED
  BY <1>9, <1>10, <1>11, <1>12

\* HandleDeviceUsers starts a goroutine for the next notice.
LEMMA HandleStep ==
    ASSUME Good, HandleDeviceUsers PROVE Good'
<1> USE DEF Good
<1> DEFINE h == Head(outbox)
           t == Tail(outbox)
<1>1. /\ outbox # <<>> /\ pend' = pend \cup {h} /\ outbox' = t
      /\ UNCHANGED <<bound, upd, count, inPool, load, loaded, ids, call, answer>>
  BY DEF HandleDeviceUsers, callVars
<1>2. outbox \in Seq(Notes) /\ Len(outbox) \in Nat /\ Len(outbox) >= 1
  BY <1>1 DEF Types
<1>3. h \in Notes /\ h = outbox[1] /\ 1 \in DOMAIN outbox
  BY <1>1, <1>2
<1>4. /\ t \in Seq(Notes) /\ DOMAIN t = 1..(Len(outbox) - 1)
      /\ \A i \in 1..(Len(outbox) - 1) : t[i] = outbox[i + 1]
  BY <1>1, <1>2
<1> HIDE DEF h, t
<1>5. \A i \in DOMAIN t : i \in Nat /\ i + 1 \in DOMAIN outbox /\ 1 < i + 1 /\ t[i] = outbox[i + 1]
  BY <1>2, <1>4
<1>6. \A i \in DOMAIN outbox : i # 1 => i - 1 \in DOMAIN t /\ t[i - 1] = outbox[i]
  BY <1>2, <1>4
<1>7. Range(outbox) = Range(t) \cup {h}
  BY <1>3, <1>5, <1>6 DEF Range
<1>8. Noted' = Noted
  BY <1>1, <1>7 DEF Noted
<1>9. \A o \in Notes : o.n \in Nat
  BY DEF Notes
<1>10. Types'
  BY <1>1, <1>3, <1>4 DEF Types
<1>11. Order'
  <2>1. OutOrder(t, count)
    <3>1. \A i \in DOMAIN t : t[i].n < count /\ ~t[i].kin
      BY <1>5 DEF Order, NotesInOrder, OutOrder
    <3>2. ASSUME NEW i \in DOMAIN t, NEW j \in DOMAIN t, i < j PROVE t[i].n < t[j].n
      <4>1. i + 1 < j + 1
        BY <1>5, <3>2
      <4> QED
        BY <1>5, <4>1 DEF Order, NotesInOrder, OutOrder
    <3> QED
      BY <3>1, <3>2 DEF OutOrder
  <2>2. PendOrder(pend \cup {h}, t, count)
    <3>1. ASSUME NEW p \in pend \cup {h}
          PROVE  p.n < count /\ ~p.kin /\ \A i \in DOMAIN t : p.n < t[i].n
      <4>1. CASE p \in pend
        BY <1>5, <4>1 DEF Order, NotesInOrder, PendOrder
      <4>2. CASE p = h
        BY <1>3, <1>5, <4>2 DEF Order, NotesInOrder, OutOrder
      <4> QED
        BY <4>1, <4>2
    <3>2. ASSUME NEW p \in pend, p.n = h.n PROVE FALSE
      <4>1. p.n < h.n
        BY <1>3 DEF Order, NotesInOrder, PendOrder
      <4> QED
        BY <1>3, <1>9, <3>2, <4>1
    <3>3. \A p, r \in pend : p.n = r.n => p = r
      BY DEF Order, NotesInOrder, PendOrder
    <3>4. \A p, r \in pend \cup {h} : p.n = r.n => p = r
      BY <3>2, <3>3
    <3> QED
      BY <3>1, <3>4 DEF PendOrder
  <2>3. UpdOrder(upd, pend \cup {h}, t, count, ids)
    BY <1>3, <1>5 DEF Order, NotesInOrder, UpdOrder
  <2> QED
    BY <1>1, <2>1, <2>2, <2>3 DEF Order, NotesInOrder
<1>12. Fresh'
  BY <1>1 DEF Fresh, Reading, Outstanding
<1>13. Listed'
  BY <1>1, <1>8 DEF Listed
<1> QED
  BY <1>10, <1>11, <1>12, <1>13

\* UpdateIds begins: it reads the list, or finds no session.
LEMMA StartStep ==
    ASSUME Good, NEW n \in pend, StartUpdateIds(n), ~disturbed' PROVE Good'
<1> USE DEF Good
<1>1. /\ pend' = pend \ {n} /\ upd = {} /\ \A o \in pend : ~(o.n < n.n)
      /\ inPool \/ load = "todo"
      /\ upd' = IF inPool /\ ~n.kin THEN upd \cup {[note |-> n, snap |-> ids]} ELSE upd
      /\ UNCHANGED <<bound, outbox, count, inPool, load, loaded, ids, call, answer>>
  BY DEF StartUpdateIds, callVars, redisVars
<1>2. \A o \in Noted : o \in Notes /\ o.n \in Nat
  BY NotedFacts
<1>3. n \in Noted /\ \A o \in pend : o \in Noted
  BY DEF Noted
<1>4. \A o \in pend : o # n => n.n < o.n
  BY <1>1, <1>2, <1>3 DEF Order, NotesInOrder, PendOrder
<1>5. /\ ~n.kin /\ n.n < count
      /\ \A i \in DOMAIN outbox : n.n < outbox[i].n
  BY DEF Order, NotesInOrder, PendOrder
<1>6. n \notin Range(outbox)
  BY <1>2, <1>3, <1>5 DEF Range
<1>7. Fresh'
  BY <1>1 DEF Fresh, Reading, Outstanding
<1>8. OutOrder(outbox, count) /\ PendOrder(pend \ {n}, outbox, count)
  BY DEF Order, NotesInOrder, PendOrder
<1>9. CASE inPool
  <2> DEFINE u == [note |-> n, snap |-> ids]
  <2>1. upd' = {u} /\ u.note = n /\ u.snap = ids
    BY <1>1, <1>5, <1>9
  <2> HIDE DEF u
  <2>2. Noted' = Noted
    BY <1>1, <2>1 DEF Noted
  <2>3. UpdOrder({u}, pend \ {n}, outbox, count, ids)
    BY <1>4, <1>5, <2>1 DEF UpdOrder
  <2>4. Order'
    BY <1>1, <1>8, <2>1, <2>3 DEF Order, NotesInOrder
  <2>5. Types'
    BY <1>1, <1>2, <1>3, <2>1 DEF Types
  <2>6. Listed'
    BY <1>1, <1>9, <2>2 DEF Listed
  <2> QED
    BY <1>7, <2>4, <2>5, <2>6
<1>10. CASE ~inPool
  <2>1. upd' = {} /\ load = "todo" /\ ids = <<>>
    BY <1>1, <1>10 DEF Listed
  <2>2. Noted' = Noted \ {n}
    BY <1>1, <1>6, <2>1 DEF Noted
  <2>3. UpdOrder({}, pend \ {n}, outbox, count, ids)
    BY DEF UpdOrder
  <2>4. Order'
    BY <1>1, <1>8, <2>1, <2>3 DEF Order, NotesInOrder
  <2>5. Types'
    BY <1>1, <2>1 DEF Types
  <2>6. \A o \in Noted : o # n => n.n < o.n
    BY <1>1, <1>4, <1>5 DEF Noted, Range
  <2>7. Alternate(Noted \ {n}, bound)
    BY <1>2, <1>3, <2>6, NoteGone DEF Listed
  <2>8. Range(ids) = {}
    BY <2>1 DEF Range
  <2>9. View(Noted \ {n}, bound, {}, "todo")
    BY DEF View
  <2>10. Listed'
    BY <1>1, <1>10, <2>1, <2>2, <2>7, <2>8, <2>9 DEF Listed
  <2> QED
    BY <1>7, <2>4, <2>5, <2>10
<1> QED
  BY <1>9, <1>10

\* UpdateIds ends: the list is changed as the notice says.
LEMMA UpdateStep ==
    ASSUME Good, NEW u \in upd, UpdateIds(u), ~disturbed' PROVE Good'
<1> USE DEF Good
<1> DEFINE o == u.note
<1>1. /\ upd' = upd \ {u} /\ u.snap = ids
      /\ ids' = IF o.bind THEN Append(ids, o.id) ELSE Without(ids, o.id)
      /\ UNCHANGED <<bound, outbox, count, pend, inPool, load, loaded, call, answer>>
  BY DEF UpdateIds, callVars, redisVars
<1>2. \A p \in Noted : p \in Notes /\ p.n \in Nat /\ p.id \in Ids
  BY NotedFacts
<1>3. o \in Noted
  BY DEF Noted
<1>4. upd = {u} /\ upd' = {}
  BY <1>1 DEF Order, NotesInOrder, UpdOrder
<1>5. /\ \A p \in pend : o.n < p.n
      /\ \A i \in DOMAIN outbox : o.n < outbox[i].n
  BY DEF Order, NotesInOrder, UpdOrder
<1>6. Range(outbox) \subseteq Noted /\ pend \subseteq Noted
  BY DEF Noted
<1>7. o \notin pend /\ o \notin Range(outbox)
  BY <1>2, <1>3, <1>5, <1>6 DEF Range
<1>8. Noted = Range(outbox) \cup pend \cup {o}
  BY <1>4 DEF Noted
<1>9. Noted' = Noted \ {o}
  BY <1>1, <1>4, <1>7, <1>8 DEF Noted
<1>10. \A p \in Noted : p # o => o.n < p.n
  BY <1>5, <1>8 DEF Range
<1>11. ids \in Seq(Ids) /\ IsInjective(ids) /\ o.id \in Ids
  BY <1>2, <1>3 DEF Types, Listed
<1>12. o.bind => o.id \notin Range(ids)
  <2>1. IsFirst(o, Noted)
    BY <1>2, <1>3, <1>10 DEF IsFirst
  <2> QED
    BY <1>3, <2>1 DEF Listed, View
<1> HIDE DEF o
<1>13. /\ ids' \in Seq(Ids) /\ IsInjective(ids')
       /\ Range(ids') = IF o.bind THEN Range(ids) \cup {o.id} ELSE Range(ids) \ {o.id}
  <2>1. CASE o.bind
    BY <1>1, <1>11, <1>12, <2>1, AppendPutsIn
  <2>2. CASE ~o.bind
    BY <1>1, <1>11, <2>2, WithoutTakesOut
  <2> QED
    BY <2>1, <2>2
<1>14. Alternate(Noted \ {o}, bound)
  BY <1>2, <1>3, <1>10, NoteGone DEF Listed
<1>15. View(Noted \ {o}, bound, Range(ids'), load)
  BY <1>2, <1>3, <1>10, <1>13, NoteApplied DEF Listed
<1>16. inPool /\ ~Reading
  BY <1>4 DEF Listed, Fresh, Outstanding
<1>17. Types'
  BY <1>1, <1>4, <1>13 DEF Types
<1>18. Order'
  <2>1. UpdOrder({}, pend, outbox, count, ids')
    BY DEF UpdOrder
  <2> QED
    BY <1>1, <1>4, <2>1 DEF Order, NotesInOrder
<1>19. Fresh'
  BY <1>1, <1>16 DEF Fresh, Reading
<1>20. Listed'
  BY <1>1, <1>9, <1>13, <1>14, <1>15, <1>16 DEF Listed
<1> QED
  BY <1>17, <1>18, <1>19, <1>20

\* Nothing is outstanding: a list of the bound ids agrees.
LEMMA FreshList ==
    ASSUME Types, ~Outstanding, NEW L, NEW at, Range(L) = bound
    PROVE  /\ Noted = {} /\ View(Noted, bound, Range(L), at)
<1>1. Noted = {}
  <2>1. outbox = <<>> /\ pend = {} /\ upd = {}
    BY DEF Outstanding
  <2>2. Range(outbox) = {}
    BY <2>1 DEF Range
  <2> QED
    BY <2>1, <2>2 DEF Noted
<1> QED
  BY <1>1 DEF View

\* The list is replaced, with nothing outstanding.
LEMMA ReplaceStep ==
    ASSUME Good, ~Outstanding,
           load' \in {"todo", "read", "done"}, load' = "todo" => inPool,
           call' = "read" => call = "read", load' = "read" => load = "read",
           ids' \in Seq(Ids), IsInjective(ids'), Range(ids') = bound,
           UNCHANGED <<bound, outbox, pend, upd, count, inPool, loaded, answer>>
    PROVE  Good'
<1> USE DEF Good
<1>1. upd = {} /\ ~Outstanding'
  BY DEF Outstanding
<1>2. Noted = {} /\ View(Noted, bound, Range(ids'), load')
  BY FreshList
<1>3. Noted' = Noted
  BY DEF Noted
<1>4. Types'
  BY <1>1 DEF Types
<1>5. Order'
  <2>1. UpdOrder({}, pend, outbox, count, ids')
    BY DEF UpdOrder
  <2> QED
    BY <1>1, <2>1 DEF Order, NotesInOrder
<1>6. Fresh'
  BY <1>1 DEF Fresh
<1>7. Alternate(Noted, bound)
  BY DEF Listed
<1>8. Listed'
  BY <1>1, <1>2, <1>3, <1>7 DEF Listed
<1> QED
  BY <1>4, <1>5, <1>6, <1>8

\* The list, Redis and the notices are left alone.
LEMMA KeepStep ==
    ASSUME Good, UNCHANGED <<bound, outbox, pend, upd, count, ids>>,
           load' \in {"todo", "read", "done"}, load' = "done" <=> load = "done",
           ~inPool' /\ load' = "todo" => ~inPool /\ load = "todo",
           inPool => inPool', call' = "read" => inPool', Fresh'
    PROVE  Good'
<1> USE DEF Good
<1>1. Noted' = Noted
  BY DEF Noted
<1>2. Types' /\ Order'
  BY DEF Types, Order
<1>3. View(Noted, bound, Range(ids), load')
  BY DEF Listed, View
<1>4. Listed'
  BY <1>1, <1>3 DEF Listed
<1> QED
  BY <1>2, <1>4

\* Every step keeps the invariant, or disturbs the list.
LEMMA IInvStep ==
    ASSUME IInv, [BindNext]_bindVars PROVE IInv'
<1> SUFFICES ASSUME ~disturbed' PROVE Good'
  BY DEF IInv
<1>0. ASSUME ~disturbed PROVE Good
  BY <1>0 DEF IInv
<1>1. ASSUME NEW id \in Ids, NEW kin \in BOOLEAN, Rebind(id, kin) PROVE Good'
  <2>1. ~disturbed
    BY <1>1 DEF Rebind
  <2> QED
    BY <1>0, <1>1, <2>1, RebindStep
<1>2. CASE HandleDeviceUsers
  <2>1. ~disturbed
    BY <1>2 DEF HandleDeviceUsers
  <2> QED
    BY <1>0, <1>2, <2>1, HandleStep
<1>3. ASSUME NEW n \in pend, StartUpdateIds(n) PROVE Good'
  <2>1. ~disturbed
    BY <1>3 DEF StartUpdateIds
  <2> QED
    BY <1>0, <1>3, <2>1, StartStep
<1>4. ASSUME NEW u \in upd, UpdateIds(u) PROVE Good'
  <2>1. ~disturbed
    BY <1>4 DEF UpdateIds
  <2> QED
    BY <1>0, <1>4, <2>1, UpdateStep
<1>5. CASE ReadAtLogin
  <2>1. /\ ~disturbed /\ ~Outstanding /\ load = "todo" /\ load' = "read" /\ loaded'.set = bound
        /\ UNCHANGED <<bound, outbox, pend, upd, count, ids, inPool, call, answer>>
    BY <1>5 DEF ReadAtLogin, callVars, redisVars
  <2>2. Good /\ Fresh /\ Listed
    BY <1>0, <2>1 DEF Good
  <2>3. Fresh'
    BY <2>1, <2>2 DEF Fresh, Reading, Outstanding
  <2>4. call' = "read" => inPool'
    BY <2>1, <2>2 DEF Listed
  <2> QED
    BY <2>1, <2>2, <2>3, <2>4, KeepStep
<1>6. CASE LoadAtLogin
  <2>1. /\ ~disturbed /\ load = "read" /\ load' = "done"
        /\ ids' = IF side = "dev" /\ loaded.set = {} THEN ids ELSE SetToSeq(loaded.set)
        /\ UNCHANGED <<bound, outbox, pend, upd, count, inPool, loaded, call, answer>>
    BY <1>6 DEF LoadAtLogin, callVars, redisVars
  <2>2. Good /\ Types /\ Fresh /\ Listed
    BY <1>0, <2>1 DEF Good
  <2>3. ~Outstanding /\ loaded.set = bound /\ bound \subseteq Ids /\ ids \in Seq(Ids)
    BY <2>1, <2>2 DEF Fresh, Reading, Types
  <2>4. ids' \in Seq(Ids) /\ IsInjective(ids') /\ Range(ids') = bound
    <3>1. CASE ids' = ids /\ bound = {}
      <4>1. Noted = {}
        <5>1. {} \subseteq Ids /\ Range(<<>>) = {}
          BY DEF Range
        <5> QED
          BY <2>2, <2>3, <3>1, <5>1, FreshList
      <4>2. Range(ids) \subseteq Ids
        BY <2>3 DEF Range
      <4>3. \A id \in Ids : id \in Range(ids) => id \in bound
        BY <2>2, <4>1 DEF Listed, View
      <4> QED
        BY <2>2, <2>3, <3>1, <4>2, <4>3 DEF Listed
    <3>2. CASE ids' = SetToSeq(bound)
      <4>1. IsFiniteSet(bound)
        BY <2>3, BindAssumption, FS_Subset
      <4>2. Seq(bound) \subseteq Seq(Ids)
        BY <2>3
      <4> QED
        BY <3>2, <4>1, <4>2, SetToSeqLists
    <3> QED
      BY <2>1, <2>3, <3>1, <3>2
  <2> QED
    BY <2>1, <2>2, <2>3, <2>4, ReplaceStep
<1>7. CASE EnterPoolOf
  <2>1. /\ ~disturbed /\ ~inPool /\ inPool'
        /\ UNCHANGED <<bound, outbox, pend, upd, count, ids, load, loaded, call, answer>>
    BY <1>7 DEF EnterPoolOf, callVars, redisVars
  <2>2. Good /\ Types /\ Fresh
    BY <1>0, <2>1 DEF Good
  <2>3. Fresh'
    BY <2>1, <2>2 DEF Fresh, Reading, Outstanding
  <2> QED
    BY <2>1, <2>2, <2>3, KeepStep DEF Types
<1>8. ASSUME NEW id \in Ids, CalcDestIds(id) PROVE Good'
  <2>1. /\ ~disturbed /\ load = "done" /\ inPool
        /\ \/ call' = "read" /\ ~Outstanding /\ answer'.set = bound
           \/ call' = "over"
        /\ UNCHANGED <<bound, outbox, pend, upd, count, ids, inPool, load, loaded>>
    BY <1>8 DEF CalcDestIds, redisVars
  <2>2. Good /\ Types /\ Fresh
    BY <1>0, <2>1 DEF Good
  <2>3. Fresh'
    BY <2>1, <2>2 DEF Fresh, Reading, Outstanding
  <2> QED
    BY <2>1, <2>2, <2>3, KeepStep
<1>9. CASE Reload
  <2>1. /\ ~disturbed /\ call = "read" /\ call' = "over"
        /\ ids' = IF answer.ok THEN SetToSeq(answer.set) ELSE ids
        /\ UNCHANGED <<bound, outbox, pend, upd, count, inPool, load, loaded, answer>>
    BY <1>9 DEF Reload, redisVars
  <2>2. Good /\ Types /\ Fresh /\ Listed
    BY <1>0, <2>1 DEF Good
  <2>3. ~Outstanding /\ answer.set = bound /\ bound \subseteq Ids /\ inPool
    BY <2>1, <2>2 DEF Fresh, Reading, Types, Listed
  <2>4. CASE ids' = ids
    <3>1. Fresh'
      BY <2>1, <2>2 DEF Fresh, Reading, Outstanding
    <3> QED
      BY <2>1, <2>2, <2>4, <3>1, KeepStep DEF Types
  <2>5. CASE ids' = SetToSeq(bound)
    <3>1. IsFiniteSet(bound)
      BY <2>3, BindAssumption, FS_Subset
    <3>2. Seq(bound) \subseteq Seq(Ids)
      BY <2>3
    <3>3. ids' \in Seq(Ids) /\ IsInjective(ids') /\ Range(ids') = bound
      BY <2>5, <3>1, <3>2, SetToSeqLists
    <3> QED
      BY <2>1, <2>2, <2>3, <3>3, ReplaceStep DEF Types
  <2> QED
    BY <2>1, <2>3, <2>4, <2>5
<1>10. CASE ReturnDest
  <2>1. /\ ~disturbed /\ call' = "idle"
        /\ UNCHANGED <<bound, outbox, pend, upd, count, ids, inPool, load, loaded>>
    BY <1>10 DEF ReturnDest, redisVars
  <2>2. Good /\ Types /\ Fresh
    BY <1>0, <2>1 DEF Good
  <2>3. Fresh'
    BY <2>1, <2>2 DEF Fresh, Reading, Outstanding
  <2> QED
    BY <2>1, <2>2, <2>3, KeepStep DEF Types
<1>11. CASE UNCHANGED bindVars
  <2>1. /\ ~disturbed
        /\ UNCHANGED <<bound, outbox, pend, upd, count, ids, inPool, load, loaded, call, answer>>
    BY <1>11 DEF bindVars
  <2>2. Good /\ Types /\ Fresh /\ Listed
    BY <1>0, <2>1 DEF Good
  <2>3. Fresh'
    BY <2>1, <2>2 DEF Fresh, Reading, Outstanding
  <2>4. call' = "read" => inPool'
    BY <2>1, <2>2 DEF Listed
  <2> QED
    BY <2>1, <2>2, <2>3, <2>4, KeepStep DEF Types
<1> QED
  BY <1>1, <1>2, <1>3, <1>4, <1>5, <1>6, <1>7, <1>8, <1>9, <1>10, <1>11 DEF BindNext

\* A list that was not disturbed holds the bound ids, each once, whenever no
\* notice is outstanding: UpdateIds has applied them all, in order.
THEOREM BindingsAgreeAlways == BindSpec => []BindingsAgree
<1>1. BindInit => IInv
  <2> SUFFICES ASSUME BindInit PROVE Good
    BY DEF IInv
  <2>1. /\ outbox = <<>> /\ ids = <<>> /\ pend = {} /\ upd = {} /\ count = 0
        /\ bound \subseteq Ids /\ load = "todo" /\ call = "idle" /\ ~inPool
    BY DEF BindInit
  <2>2. Range(<<>>) = {} /\ IsInjective(<<>>) /\ DOMAIN <<>> = {}
    BY DEF Range, IsInjective
  <2>3. Types
    BY <2>1 DEF Types
  <2>4. Order
    BY <2>1, <2>2 DEF Order, NotesInOrder, OutOrder, PendOrder, UpdOrder
  <2>5. Fresh
    BY <2>1 DEF Fresh, Reading
  <2>6. Noted = {}
    BY <2>1, <2>2 DEF Noted
  <2>7. Listed
    BY <2>1, <2>2, <2>6 DEF Listed, Alternate, View
  <2> QED
    BY <2>3, <2>4, <2>5, <2>7 DEF Good
<1>2. IInv /\ [BindNext]_bindVars => IInv'
  BY IInvStep
<1>3. IInv => BindingsAgree
  <2> SUFFICES ASSUME IInv, load = "done", ~Outstanding, ~disturbed
               PROVE  /\ Range(ids) = bound
                      /\ \A i, j \in DOMAIN ids : ids[i] = ids[j] => i = j
    BY DEF BindingsAgree
  <2>1. Types /\ Listed
    BY DEF IInv, Good
  <2>2. Noted = {}
    <3>1. outbox = <<>> /\ pend = {} /\ upd = {} /\ Range(<<>>) = {}
      BY DEF Outstanding, Range
    <3> QED
      BY <3>1 DEF Noted
  <2>3. Range(ids) \subseteq Ids /\ bound \subseteq Ids
    BY <2>1 DEF Types, Range
  <2>4. \A id \in Ids : id \in Range(ids) <=> id \in bound
    BY <2>1, <2>2 DEF Listed, View
  <2>5. IsInjective(ids)
    BY <2>1 DEF Listed
  <2> QED
    BY <2>3, <2>4, <2>5 DEF IsInjective
<1> QED
  BY <1>1, <1>2, <1>3, PTL DEF BindSpec

-----------------------------------------------------------------------------
(* Forwarding: the routes and the connections to other comets.             *)

Places == Sinks \cup {Nowhere}
ConStates == {"absent", "nil", "closed", "stale", "ok"}
Inside == {"write", "close", "dial", "again"}
Ats == {"idle", "send", "over"} \cup Inside
ForwardJobs == [at : Ats, dev : BOOLEAN, sends : Nat, fair : BOOLEAN, to : Places]
Results == [fair : BOOLEAN, reached : BOOLEAN]

RouteTypes ==
    /\ home \in Places /\ route \in Places
    /\ onoff \in Seq(Places)
    /\ loading \in {"before", "keyed", "reading", "done"}

LinkTypes ==
    /\ con \in [Sinks -> ConStates]
    /\ fwd \in [Handlers -> ForwardJobs]
    /\ last \in [Handlers -> Results]

(***************************************************************************)
(* What was published and not handled ends with where the receiver is.     *)
(* When there is nothing, the table says so already, or the load, which    *)
(* has not begun or has the receiver's hash still to read, will say so.    *)
(***************************************************************************)
RouteWillBeCurrent ==
    ~missed /\ ~swapped =>
        /\ Len(onoff) > 0 => onoff[Len(onoff)] = home
        /\ Len(onoff) = 0 =>
            \/ route = home
            \/ loading = "before" /\ route = Nowhere
            \/ loading \in {"keyed", "reading"} /\ route = Nowhere /\ home \in toRead

\* A handler inside Forward has a comet; as long as it is judged the connection
\* is not of an earlier life before the first write, and good before the second.
Repairing ==
    \A h \in Handlers :
        /\ fwd[h].at \in Inside => fwd[h].to \in Sinks
        /\ fwd[h].fair /\ fwd[h].at = "write" => con[fwd[h].to] # "stale"
        /\ fwd[h].fair /\ fwd[h].at = "again" => con[fwd[h].to] = "ok"

RouteInv == RouteTypes /\ RouteWillBeCurrent
LinkInv == LinkTypes /\ Repairing /\ ForwardReaches

\* A login or logout: the message is the last in the channel, or it is missed, or
\* the load has not begun.
LEMMA MovesStep ==
    ASSUME RouteInv, NEW dest \in Places, Moves(dest) PROVE RouteInv'
<1> USE ForwardAssumption DEF RouteInv, RouteTypes, RouteWillBeCurrent
<1>1. CASE sub = "on"
  <2> DEFINE q == Append(onoff, dest)
  <2>1. q \in Seq(Places) /\ Len(q) > 0 /\ q[Len(q)] = dest
    OBVIOUS
  <2>2. onoff' = q /\ home' = dest /\ UNCHANGED <<missed, swapped, loading, route>>
    BY <1>1 DEF Moves
  <2> HIDE DEF q
  <2> QED
    BY <2>1, <2>2
<1>2. CASE sub # "on"
  <2>1. /\ missed' = (missed \/ loading # "before" \/ route # Nowhere \/ onoff # <<>>)
        /\ home' = dest /\ UNCHANGED <<onoff, swapped, loading, route>>
    BY <1>2 DEF Moves
  <2>2. CASE missed'
    BY <2>1, <2>2
  <2>3. CASE ~missed'
    <3>1. loading = "before" /\ route = Nowhere /\ onoff = <<>>
      BY <2>1, <2>3
    <3>2. Len(onoff) = 0
      BY <3>1
    <3> QED
      BY <2>1, <3>1, <3>2
  <2> QED
    BY <2>2, <2>3
<1> QED
  BY <1>1, <1>2

\* A sequence without its first element.
LEMMA RestOfSeq ==
    ASSUME NEW S, NEW s \in Seq(S), Len(s) >= 1
    PROVE  LET b == SubSeq(s, 2, Len(s))
           IN  /\ b \in Seq(S) /\ Len(b) = Len(s) - 1
               /\ Len(b) > 0 => b[Len(b)] = s[Len(s)]
<1> DEFINE b == SubSeq(s, 2, Len(s))
<1>1. /\ Len(s) \in Nat /\ Len(s) >= 1 /\ Len(s) \in Int /\ 2 \in Int
      /\ \A k \in 2..Len(s) : s[k] \in S
  OBVIOUS
<1>2. /\ b \in Seq(S) /\ Len(b) = IF 2 <= Len(s) THEN Len(s) - 2 + 1 ELSE 0
      /\ \A k \in 1..(Len(s) - 2 + 1) : b[k] = s[2 + k - 1]
  BY <1>1, SubSeqProperties
<1> HIDE DEF b
<1>3. Len(b) = Len(s) - 1
  <2>1. PICK n \in Nat : n = Len(s) /\ n >= 1
    BY <1>1
  <2>2. Len(b) = IF 2 <= n THEN n - 2 + 1 ELSE 0
    BY <1>2, <2>1
  <2>3. Len(b) = n - 1
    BY <2>1, <2>2
  <2> QED
    BY <2>1, <2>3
<1>4. Len(b) > 0 => b[Len(b)] = s[Len(s)]
  BY <1>1, <1>2, <1>3
<1> QED
  BY <1>2, <1>3, <1>4 DEF b

\* handleOnOff, applied to the first message or to any other.
LEMMA HandleOnOffStep ==
    ASSUME RouteInv, NEW i, handleOnOff(i) PROVE RouteInv'
<1> USE DEF RouteInv, RouteTypes, RouteWillBeCurrent
<1> DEFINE q == SubSeq(onoff, 1, i - 1) \o SubSeq(onoff, i + 1, Len(onoff))
<1>1. /\ i \in 1..Len(onoff) /\ Len(onoff) \in Nat
      /\ onoff' = q /\ route' = onoff[i] /\ swapped' = (swapped \/ i # 1)
      /\ UNCHANGED <<home, loading, toRead, missed>>
  BY DEF handleOnOff, RouteAfter
<1>2. q \in Seq(Places) /\ onoff[i] \in Places
  BY <1>1
<1>3. ASSUME i = 1
      PROVE  /\ Len(q) = Len(onoff) - 1
             /\ Len(q) > 0 => q[Len(q)] = onoff[Len(onoff)]
  <2> DEFINE a == SubSeq(onoff, 1, i - 1)
             b == SubSeq(onoff, i + 1, Len(onoff))
  <2>1. a \in Seq(Places) /\ Len(a) = 0
    BY <1>1, <1>3
  <2>2. /\ b \in Seq(Places) /\ Len(b) = Len(onoff) - 1
        /\ Len(b) > 0 => b[Len(b)] = onoff[Len(onoff)]
    <3>1. i + 1 = 2 /\ Len(onoff) >= 1
      BY <1>1, <1>3
    <3>2. b = SubSeq(onoff, 2, Len(onoff))
      BY <3>1
    <3> HIDE DEF b
    <3> QED
      BY <1>1, <3>1, <3>2, RestOfSeq
  <2>3. q = a \o b
    OBVIOUS
  <2> HIDE DEF a, b, q
  <2>4. Len(q) = Len(b) /\ (Len(b) > 0 => q[Len(b)] = b[Len(b)])
    BY <1>1, <2>1, <2>2, <2>3
  <2> QED
    BY <2>2, <2>4
<1> HIDE DEF q
<1>4. RouteTypes'
  BY <1>1, <1>2
<1>5. CASE i = 1
  <2>1. Len(q) = 0 => onoff[i] = onoff[Len(onoff)]
    <3>1. Len(q) = Len(onoff) - 1
      BY <1>3, <1>5
    <3>2. Len(onoff) \in Nat
      BY <1>1
    <3>3. Len(q) = 0 => i = Len(onoff)
      BY <1>5, <3>1, <3>2
    <3> QED
      BY <3>3
  <2>2. Len(onoff) > 0 /\ Len(q) \in Nat
    BY <1>1, <1>2
  <2>3. ASSUME ~missed', ~swapped'
        PROVE  onoff[Len(onoff)] = home
    BY <1>1, <2>2, <2>3
  <2>4. RouteWillBeCurrent'
    <3>1. CASE Len(q) = 0
      BY <1>1, <2>1, <2>3, <3>1
    <3>2. CASE Len(q) > 0
      BY <1>1, <1>3, <1>5, <2>3, <3>2
    <3> QED
      BY <2>2, <3>1, <3>2
  <2> QED
    BY <1>4, <2>4
<1>6. CASE i # 1
  BY <1>1, <1>4, <1>6
<1> QED
  BY <1>5, <1>6

\* The routes: every step of the load, the subscription and the handlers.
LEMMA RouteStep ==
    ASSUME RouteInv, [ForwardNext]_forwardVars PROVE RouteInv'
<1> USE ForwardAssumption DEF RouteInv, RouteTypes, RouteWillBeCurrent
<1>1. ASSUME NEW dest \in Places, Moves(dest) PROVE RouteInv'
  BY <1>1, MovesStep
<1>2. ASSUME NEW i \in 1..MaxMoves, handleOnOff(i) PROVE RouteInv'
  BY <1>2, HandleOnOffStep
<1>3. CASE SubBreaks
  <2>1. CASE UNCHANGED <<onoff, missed>>
    BY <1>3, <2>1 DEF SubBreaks
  <2>2. CASE onoff # <<>> /\ missed' = TRUE /\ onoff' = SubSeq(onoff, 1, Len(onoff) - 1)
    <3>1. onoff' \in Seq(Places)
      BY <2>2
    <3> QED
      BY <1>3, <2>2, <3>1 DEF SubBreaks
  <2> QED
    BY <1>3, <2>1, <2>2 DEF SubBreaks
<1>4. CASE LoadKeys
  BY <1>4 DEF LoadKeys, Places
<1>5. CASE LoadLocks
  BY <1>5 DEF LoadLocks
<1>6. ASSUME NEW c \in Sinks, LoadUsers(c) PROVE RouteInv'
  BY <1>6 DEF LoadUsers, Places
<1>7. CASE LoadEnds
  BY <1>7 DEF LoadEnds
<1>8. CASE UNCHANGED <<home, loading, toRead, onoff, route, missed, swapped>>
  BY <1>8
<1>9. ASSUME NEW c \in Sinks, CometEnds(c) \/ CometStarts(c) \/ EntryChanges(c)
      PROVE  UNCHANGED <<home, loading, toRead, onoff, route, missed, swapped>>
  BY <1>9 DEF CometEnds, CometStarts, EntryChanges, routeVars
<1>10. ASSUME Sub PROVE UNCHANGED <<home, loading, toRead, onoff, route, missed, swapped>>
  BY <1>10 DEF Sub
<1>11. ASSUME NEW h \in Handlers,
              CometForward(h) \/ Lookup(h) \/ Write(h) \/ CloseCon(h) \/ Dial(h)
               \/ WriteAgain(h) \/ NextAttempt(h)
       PROVE  UNCHANGED <<home, loading, toRead, onoff, route, missed, swapped>>
  BY <1>11 DEF CometForward, Lookup, Write, CloseCon, Dial, WriteAgain, NextAttempt, routeVars
<1>12. ASSUME NEW h \in Handlers, NEW dev \in BOOLEAN, Handle(h, dev)
       PROVE  UNCHANGED <<home, loading, toRead, onoff, route, missed, swapped>>
  BY <1>12 DEF Handle, routeVars
<1> QED
  BY <1>1, <1>2, <1>3, <1>4, <1>5, <1>6, <1>7, <1>8, <1>9, <1>10, <1>11, <1>12
  DEF ForwardNext, forwardVars, routeVars, Places

\* Once loaded, and with every message handled, the route is where Redis has the
\* receiver, for every interleaving of the load, the subscription and the moves.
THEOREM RouteIsCurrentAlways == ForwardSpec => []RouteIsCurrent
<1>1. ForwardInit => RouteInv
  <2> SUFFICES ASSUME ForwardInit PROVE RouteInv
    OBVIOUS
  <2>1. onoff \in Seq(Places) /\ Len(onoff) = 0
    BY DEF ForwardInit
  <2> QED
    BY <2>1 DEF ForwardInit, RouteInv, RouteTypes, RouteWillBeCurrent, Places
<1>2. RouteInv /\ [ForwardNext]_forwardVars => RouteInv'
  BY RouteStep
<1>3. RouteInv => RouteIsCurrent
  <2>1. Len(<<>>) = 0
    OBVIOUS
  <2> QED
    BY <2>1 DEF RouteInv, RouteWillBeCurrent, RouteIsCurrent
<1> QED
  BY <1>1, <1>2, <1>3, PTL DEF ForwardSpec

\* A handler moves on: the rest of its job stays.
LEMMA JobAt ==
    ASSUME NEW j \in ForwardJobs, NEW a \in Ats
    PROVE  /\ [j EXCEPT !.at = a] \in ForwardJobs /\ [j EXCEPT !.at = a].at = a
           /\ [j EXCEPT !.at = a].fair = j.fair /\ [j EXCEPT !.at = a].to = j.to
  BY DEF ForwardJobs

\* A handler is no longer judged.
LEMMA JobUnfair ==
    ASSUME NEW j \in ForwardJobs
    PROVE  /\ [j EXCEPT !.fair = FALSE] \in ForwardJobs /\ [j EXCEPT !.fair = FALSE].at = j.at
           /\ [j EXCEPT !.fair = FALSE].fair = FALSE /\ [j EXCEPT !.fair = FALSE].to = j.to
  BY DEF ForwardJobs

\* One job begins, or begins its next attempt.
LEMMA ForwardBegins ==
    ASSUME NEW dev \in BOOLEAN, NEW n \in Nat
    PROVE  /\ Idle \in ForwardJobs /\ Idle.at = "idle" /\ Idle.fair = FALSE
           /\ [Idle EXCEPT !.at = "send", !.dev = dev] \in ForwardJobs
           /\ [Idle EXCEPT !.at = "send", !.dev = dev].at = "send"
           /\ [Idle EXCEPT !.at = "send", !.dev = dev, !.sends = n] \in ForwardJobs
           /\ [Idle EXCEPT !.at = "send", !.dev = dev, !.sends = n].at = "send"
  BY DEF ForwardJobs, Idle, Ats, Places

\* CloseCon and Dial: the handler moves on, the others that have the same comet
\* are no longer judged.
LEMMA RepairsJobs ==
    ASSUME LinkTypes, NEW h \in Handlers, NEW a \in Ats, fwd' = Repairs(h, a)
    PROVE  /\ fwd' \in [Handlers -> ForwardJobs]
           /\ fwd'[h].at = a /\ fwd'[h].fair = fwd[h].fair /\ fwd'[h].to = fwd[h].to
           /\ \A g \in Handlers : g # h =>
                /\ fwd'[g].at = fwd[g].at /\ fwd'[g].to = fwd[g].to
                /\ fwd'[g].fair => fwd[g].fair /\ fwd[g].to # fwd[h].to
<1>1. fwd \in [Handlers -> ForwardJobs]
  BY DEF LinkTypes
<1>2. fwd'[h] = [fwd[h] EXCEPT !.at = a]
  BY DEF Repairs
<1>3. /\ fwd'[h] \in ForwardJobs
      /\ fwd'[h].at = a /\ fwd'[h].fair = fwd[h].fair /\ fwd'[h].to = fwd[h].to
  BY <1>1, <1>2, JobAt
<1>4. ASSUME NEW g \in Handlers, g # h
      PROVE  /\ fwd'[g] \in ForwardJobs
             /\ fwd'[g].at = fwd[g].at /\ fwd'[g].to = fwd[g].to
             /\ fwd'[g].fair => fwd[g].fair /\ fwd[g].to # fwd[h].to
  <2>1. fwd'[g] = IF fwd[g].to = fwd[h].to THEN [fwd[g] EXCEPT !.fair = FALSE] ELSE fwd[g]
    BY <1>4 DEF Repairs
  <2>2. fwd[g] \in ForwardJobs
    BY <1>1
  <2>3. CASE fwd[g].to = fwd[h].to
    <3>1. fwd'[g] = [fwd[g] EXCEPT !.fair = FALSE]
      BY <2>1, <2>3
    <3> QED
      BY <2>2, <3>1, JobUnfair
  <2> QED
    BY <2>1, <2>2, <2>3
<1>5. fwd' \in [Handlers -> ForwardJobs]
  BY <1>3, <1>4 DEF Repairs
<1> QED
  BY <1>3, <1>4, <1>5

\* A handler moves on and nobody else is concerned.
LEMMA MovesOn ==
    ASSUME LinkTypes, NEW h \in Handlers, NEW j \in ForwardJobs, fwd' = [fwd EXCEPT ![h] = j]
    PROVE  /\ fwd' \in [Handlers -> ForwardJobs] /\ fwd'[h] = j
           /\ \A g \in Handlers : g # h => fwd'[g] = fwd[g]
  BY DEF LinkTypes

\* What a Forward that ends leaves behind.
LEMMA ResultOf ==
    ASSUME LinkTypes, ForwardReaches, NEW h \in Handlers, NEW f \in BOOLEAN, NEW r \in BOOLEAN,
           f => r, last' = [last EXCEPT ![h] = [fair |-> f, reached |-> r]]
    PROVE  last' \in [Handlers -> Results] /\ ForwardReaches'
<1>1. last \in [Handlers -> Results] /\ [fair |-> f, reached |-> r] \in Results
  BY DEF LinkTypes, Results
<1>2. \A g \in Handlers : g # h => last'[g] = last[g]
  BY <1>1
<1>3. last'[h] = [fair |-> f, reached |-> r]
  BY <1>1
<1>4. last'[h].fair => last'[h].reached
  BY <1>3
<1> QED
  BY <1>1, <1>2, <1>4 DEF ForwardReaches

\* Forward: every step of the handlers, and of the comets and the table that they
\* share.
LEMMA LinkStep ==
    ASSUME RouteTypes, LinkInv, [ForwardNext]_forwardVars PROVE LinkInv'
<1> USE ForwardAssumption DEF LinkInv
<1>0. /\ con \in [Sinks -> ConStates] /\ fwd \in [Handlers -> ForwardJobs]
      /\ last \in [Handlers -> Results] /\ route \in Places
      /\ \A j \in ForwardJobs : j.at \in Ats /\ j.fair \in BOOLEAN /\ j.to \in Places /\ j.sends \in Nat
  BY DEF LinkTypes, RouteTypes, ForwardJobs
<1>1. ASSUME NEW c \in Sinks, CometEnds(c) PROVE LinkInv'
  <2>1. ASSUME NEW h \in Handlers
        PROVE  /\ fwd'[h] \in ForwardJobs /\ fwd'[h].at = fwd[h].at /\ fwd'[h].to = fwd[h].to
               /\ fwd'[h].fair => fwd[h].fair /\ fwd[h].to # c
    <3>1. fwd'[h] = IF fwd[h].to = c THEN [fwd[h] EXCEPT !.fair = FALSE] ELSE fwd[h]
      BY <1>1 DEF CometEnds, Judged
    <3>2. fwd[h] \in ForwardJobs
      BY <1>0
    <3>3. CASE fwd[h].to = c
      <4>1. fwd'[h] = [fwd[h] EXCEPT !.fair = FALSE]
        BY <3>1, <3>3
      <4> QED
        BY <3>2, <4>1, JobUnfair
    <3> QED
      BY <3>1, <3>2, <3>3
  <2>2. fwd' \in [Handlers -> ForwardJobs]
    BY <1>1, <2>1 DEF CometEnds, Judged
  <2>3. con' \in [Sinks -> ConStates] /\ \A k \in Sinks : k # c => con'[k] = con[k]
    BY <1>0, <1>1 DEF CometEnds, ConStates
  <2>4. Repairing'
    <3> SUFFICES ASSUME NEW h \in Handlers
        PROVE  /\ fwd'[h].at \in Inside => fwd'[h].to \in Sinks
               /\ fwd'[h].fair /\ fwd'[h].at = "write" => con'[fwd'[h].to] # "stale"
               /\ fwd'[h].fair /\ fwd'[h].at = "again" => con'[fwd'[h].to] = "ok"
      BY DEF Repairing
    <3>1. /\ fwd[h].at \in Inside => fwd[h].to \in Sinks
          /\ fwd[h].fair /\ fwd[h].at = "write" => con[fwd[h].to] # "stale"
          /\ fwd[h].fair /\ fwd[h].at = "again" => con[fwd[h].to] = "ok"
      BY DEF Repairing
    <3>2. /\ fwd'[h].at = fwd[h].at /\ fwd'[h].to = fwd[h].to
          /\ fwd'[h].fair => fwd[h].fair /\ fwd[h].to # c
      BY <2>1
    <3>3. ASSUME fwd'[h].fair, fwd[h].at \in Inside
          PROVE  fwd[h].fair /\ con'[fwd'[h].to] = con[fwd[h].to]
      BY <2>3, <3>1, <3>2, <3>3
    <3> QED
      BY <3>1, <3>2, <3>3 DEF Inside
  <2>5. UNCHANGED last
    BY <1>1 DEF CometEnds
  <2> QED
    BY <1>0, <2>2, <2>3, <2>4, <2>5 DEF LinkTypes, ForwardReaches
<1>2. ASSUME NEW c \in Sinks, EntryChanges(c) PROVE LinkInv'
  <2>1. con' \in [Sinks -> ConStates] /\ UNCHANGED <<fwd, last>>
    BY <1>0, <1>2 DEF EntryChanges, ConStates
  <2>2. \A h \in Handlers : fwd[h].at \notin Inside
    BY <1>2 DEF EntryChanges, MuFree, Sharing, Inside
  <2> QED
    BY <1>0, <2>1, <2>2 DEF LinkTypes, Repairing, ForwardReaches, Inside
<1>3. ASSUME NEW h \in Handlers, CometForward(h) PROVE LinkInv'
  <2>1. UNCHANGED fwd /\ \A g \in Handlers : fwd[g].at \notin Inside
    BY <1>3 DEF CometForward, MuFree, Sharing, Inside
  <2>2. con' \in [Sinks -> ConStates]
    BY <1>0, <1>3 DEF CometForward, ConStates
  <2>3. Repairing'
    BY <2>1 DEF Repairing, Inside
  <2>4. \E f, r \in BOOLEAN :
          (f => r) /\ last' = [last EXCEPT ![h] = [fair |-> f, reached |-> r]]
    <3>1. CASE last' = [last EXCEPT ![h] = NoResult]
      BY <3>1 DEF NoResult
    <3>2. CASE last' = [last EXCEPT ![h] = [fair |-> route \in alive,
                                           reached |-> con[route] = "ok" \/ Repeats(route)]]
      <4> DEFINE f == route \in alive
                 r == con[route] = "ok" \/ Repeats(route)
      <4>1. f \in BOOLEAN /\ r \in BOOLEAN /\ (f => r)
        BY DEF Repeats
      <4> QED
        BY <3>2, <4>1
    <3> QED
      BY <1>3, <3>1, <3>2 DEF CometForward
  <2>5. last' \in [Handlers -> Results] /\ ForwardReaches'
    BY <2>4, ResultOf
  <2> QED
    BY <1>0, <2>1, <2>2, <2>3, <2>5 DEF LinkTypes
<1>4. ASSUME NEW h \in Handlers, Lookup(h) PROVE LinkInv'
  <2>1. UNCHANGED <<con, last>>
    BY <1>4 DEF Lookup
  <2>2. CASE Known
    <3> DEFINE j == [fwd[h] EXCEPT !.at = "write", !.to = route,
                                   !.fair = route \in alive /\ con[route] # "stale"]
    <3>1. fwd' = [fwd EXCEPT ![h] = j]
      BY <1>4, <2>2 DEF Lookup
    <3>2. route \in Sinks
      BY <1>0, <2>2 DEF Known, Places
    <3>3. j \in ForwardJobs /\ j.at = "write" /\ j.to = route /\ (j.fair => con[route] # "stale")
      <4>1. fwd[h] \in ForwardJobs /\ route \in Places
        BY <1>0
      <4>2. CASE route \in alive /\ con[route] # "stale"
        <5>1. j = [fwd[h] EXCEPT !.at = "write", !.to = route, !.fair = TRUE]
          BY <4>2
        <5> QED
          BY <4>1, <4>2, <5>1 DEF ForwardJobs, Ats, Inside
      <4>3. CASE ~(route \in alive /\ con[route] # "stale")
        <5>1. j = [fwd[h] EXCEPT !.at = "write", !.to = route, !.fair = FALSE]
          BY <4>3
        <5> QED
          BY <4>1, <5>1 DEF ForwardJobs, Ats, Inside
      <4> QED
        BY <4>2, <4>3
    <3> HIDE DEF j
    <3>4. Repairing' /\ fwd' \in [Handlers -> ForwardJobs]
      BY <2>1, <3>1, <3>2, <3>3, MovesOn DEF Repairing
    <3> QED
      BY <1>0, <2>1, <3>4 DEF LinkTypes, ForwardReaches
  <2>3. CASE ~Known
    <3> DEFINE j == [fwd[h] EXCEPT !.at = "over"]
    <3>1. fwd' = [fwd EXCEPT ![h] = j]
      BY <1>4, <2>3 DEF Lookup
    <3>2. j \in ForwardJobs /\ j.at = "over"
      BY <1>0, JobAt DEF Ats
    <3> HIDE DEF j
    <3>3. Repairing' /\ fwd' \in [Handlers -> ForwardJobs]
      BY <2>1, <3>1, <3>2, MovesOn DEF Repairing, Inside
    <3> QED
      BY <1>0, <2>1, <3>3 DEF LinkTypes, ForwardReaches
  <2> QED
    BY <2>2, <2>3
<1>5. ASSUME NEW h \in Handlers, NEW r \in BOOLEAN, Ends(h, r), fwd[h].fair => r, UNCHANGED con
      PROVE  LinkInv'
  <2> DEFINE j == [fwd[h] EXCEPT !.at = "over"]
  <2>1. fwd' = [fwd EXCEPT ![h] = j]
    BY <1>0, <1>5 DEF Ends
  <2>2. j \in ForwardJobs /\ j.at = "over"
    BY <1>0, JobAt, ZenonT(60) DEF Ats
  <2> HIDE DEF j
  <2>3. Repairing' /\ fwd' \in [Handlers -> ForwardJobs]
    BY <1>5, <2>1, <2>2, MovesOn DEF Repairing, Inside
  <2>4. fwd[h].fair \in BOOLEAN
    BY <1>0
  <2>5. last' \in [Handlers -> Results] /\ ForwardReaches'
    BY <1>5, <2>4, ResultOf DEF Ends
  <2> QED
    BY <1>0, <1>5, <2>3, <2>5 DEF LinkTypes
<1>6. ASSUME NEW h \in Handlers, Write(h) PROVE LinkInv'
  <2>1. fwd[h].at = "write" /\ fwd[h].to \in Sinks /\ UNCHANGED con
    BY <1>6 DEF Write, Repairing, Inside
  <2>2. CASE con[fwd[h].to] \in {"ok", "stale"} /\ Ends(h, con[fwd[h].to] = "ok")
    <3>1. fwd[h].fair => con[fwd[h].to] = "ok"
      BY <2>1, <2>2 DEF Repairing
    <3>2. (con[fwd[h].to] = "ok") \in BOOLEAN
      OBVIOUS
    <3> QED
      BY <1>5, <2>1, <2>2, <3>1, <3>2
  <2>3. CASE fwd' = [fwd EXCEPT ![h].at = "close"] /\ UNCHANGED last
    <3> DEFINE j == [fwd[h] EXCEPT !.at = "close"]
    <3>1. fwd' = [fwd EXCEPT ![h] = j]
      BY <1>0, <2>3
    <3>2. j \in ForwardJobs /\ j.at = "close" /\ j.to = fwd[h].to
      <4>1. fwd[h] \in ForwardJobs /\ "close" \in Ats
        BY <1>0 DEF Ats, Inside
      <4> QED
        BY <4>1, JobAt
    <3> HIDE DEF j
    <3>3. Repairing' /\ fwd' \in [Handlers -> ForwardJobs]
      BY <2>1, <3>1, <3>2, MovesOn DEF Repairing, Inside
    <3> QED
      BY <1>0, <2>1, <2>3, <3>3 DEF LinkTypes, ForwardReaches
  <2> QED
    BY <1>6, <2>2, <2>3 DEF Write
<1>7. ASSUME NEW h \in Handlers, CloseCon(h) PROVE LinkInv'
  <2>1. /\ fwd[h].at = "close" /\ fwd[h].to \in Sinks /\ "dial" \in Ats
        /\ fwd' = Repairs(h, "dial") /\ UNCHANGED last
    BY <1>7 DEF CloseCon, Repairing, Inside, Ats
  <2>2. con' \in [Sinks -> ConStates] /\ \A k \in Sinks : k # fwd[h].to => con'[k] = con[k]
    BY <1>0, <1>7 DEF CloseCon, ConStates
  <2>3. Repairing' /\ fwd' \in [Handlers -> ForwardJobs]
    BY <2>1, <2>2, RepairsJobs DEF Repairing, Inside
  <2> QED
    BY <1>0, <2>1, <2>2, <2>3 DEF LinkTypes, ForwardReaches
<1>8. ASSUME NEW h \in Handlers, Dial(h) PROVE LinkInv'
  <2>1. fwd[h].at = "dial" /\ fwd[h].to \in Sinks /\ "again" \in Ats /\ "over" \in Ats
    BY <1>8 DEF Dial, Repairing, Inside, Ats
  <2>2. CASE fwd[h].to \in alive
    <3>1. /\ con' = [con EXCEPT ![fwd[h].to] = "ok"]
          /\ fwd' = Repairs(h, "again") /\ UNCHANGED last
      BY <1>8, <2>2 DEF Dial
    <3>2. /\ con' \in [Sinks -> ConStates] /\ con'[fwd[h].to] = "ok"
          /\ \A k \in Sinks : k # fwd[h].to => con'[k] = con[k]
      BY <1>0, <2>1, <3>1 DEF ConStates
    <3>3. Repairing' /\ fwd' \in [Handlers -> ForwardJobs]
      BY <2>1, <3>1, <3>2, RepairsJobs DEF Repairing, Inside
    <3> QED
      BY <1>0, <3>1, <3>2, <3>3 DEF LinkTypes, ForwardReaches
  <2>3. CASE fwd[h].to \notin alive
    <3>1. /\ con' = [con EXCEPT ![fwd[h].to] = "nil"]
          /\ fwd' = Repairs(h, "over")
          /\ last' = [last EXCEPT ![h] = [fair |-> FALSE, reached |-> FALSE]]
      BY <1>8, <2>3 DEF Dial, NoResult
    <3>2. /\ con' \in [Sinks -> ConStates]
          /\ \A k \in Sinks : k # fwd[h].to => con'[k] = con[k]
      BY <1>0, <2>1, <3>1 DEF ConStates
    <3>3. Repairing' /\ fwd' \in [Handlers -> ForwardJobs]
      BY <2>1, <3>1, <3>2, RepairsJobs DEF Repairing, Inside
    <3>4. last' \in [Handlers -> Results] /\ ForwardReaches'
      BY <3>1, ResultOf
    <3> QED
      BY <3>2, <3>3, <3>4 DEF LinkTypes
  <2> QED
    BY <2>2, <2>3
<1>9. ASSUME NEW h \in Handlers, WriteAgain(h) PROVE LinkInv'
  <2>1. /\ fwd[h].fair => con[fwd[h].to] = "ok"
        /\ Ends(h, con[fwd[h].to] = "ok") /\ UNCHANGED con
    BY <1>9 DEF WriteAgain, Repairing
  <2>2. (con[fwd[h].to] = "ok") \in BOOLEAN
    OBVIOUS
  <2> QED
    BY <1>5, <2>1, <2>2
<1>10. ASSUME NEW h \in Handlers, NextAttempt(h) PROVE LinkInv'
  <2>1. UNCHANGED con /\ last' = [last EXCEPT ![h] = [fair |-> FALSE, reached |-> FALSE]]
    BY <1>10 DEF NextAttempt, NoResult
  <2>2. last' \in [Handlers -> Results] /\ ForwardReaches'
    BY <2>1, ResultOf
  <2>3. \E j \in ForwardJobs : j.at \in {"idle", "send"} /\ fwd' = [fwd EXCEPT ![h] = j]
    <3>1. fwd[h].sends + 1 \in Nat
      BY <1>0
    <3>2. CASE fwd' = [fwd EXCEPT ![h] = Idle]
      BY <3>2, ForwardBegins
    <3>3. CASE fwd' = [fwd EXCEPT ![h] = [Idle EXCEPT !.at = "send", !.dev = TRUE,
                                                       !.sends = fwd[h].sends + 1]]
      BY <3>1, <3>3, ForwardBegins
    <3> QED
      BY <1>10, <3>2, <3>3 DEF NextAttempt
  <2>4. Repairing' /\ fwd' \in [Handlers -> ForwardJobs]
    BY <2>1, <2>3, MovesOn, ZenonT(60) DEF Repairing, Inside
  <2> QED
    BY <1>0, <2>1, <2>2, <2>4 DEF LinkTypes
<1>11. ASSUME NEW h \in Handlers, NEW dev \in BOOLEAN, Handle(h, dev) PROVE LinkInv'
  <2>1. UNCHANGED <<con, last>>
    BY <1>11 DEF Handle
  <2>2. \E j \in ForwardJobs : j.at = "send" /\ fwd' = [fwd EXCEPT ![h] = j]
    BY <1>11, ForwardBegins DEF Handle
  <2>3. Repairing' /\ fwd' \in [Handlers -> ForwardJobs]
    BY <2>1, <2>2, MovesOn, ZenonT(60) DEF Repairing, Inside
  <2> QED
    BY <1>0, <2>1, <2>3 DEF LinkTypes, ForwardReaches
<1>12. CASE UNCHANGED <<con, fwd, last>>
  BY <1>12 DEF LinkTypes, Repairing, ForwardReaches
<1>13. ASSUME NEW c \in Sinks, CometStarts(c) \/ LoadUsers(c)
       PROVE  UNCHANGED <<con, fwd, last>>
  BY <1>13 DEF CometStarts, LoadUsers
<1>14. ASSUME NEW dest \in Sinks \cup {Nowhere}, Moves(dest) PROVE UNCHANGED <<con, fwd, last>>
  BY <1>14 DEF Moves
<1>15. ASSUME NEW i \in 1..MaxMoves, handleOnOff(i) PROVE UNCHANGED <<con, fwd, last>>
  BY <1>15 DEF handleOnOff
<1>16. ASSUME Sub \/ SubBreaks \/ LoadKeys \/ LoadLocks \/ LoadEnds
       PROVE  UNCHANGED <<con, fwd, last>>
  BY <1>16 DEF Sub, SubBreaks, LoadKeys, LoadLocks, LoadEnds
<1> QED
  BY <1>1, <1>2, <1>3, <1>4, <1>6, <1>7, <1>8, <1>9, <1>10, <1>11, <1>12, <1>13, <1>14,
     <1>15, <1>16
  DEF ForwardNext, forwardVars

\* The invariants of routes and connections.
LEMMA ForwardInvAlways == ForwardSpec => [](RouteInv /\ LinkInv)
<1>1. ForwardInit => RouteInv /\ LinkInv
  <2> SUFFICES ASSUME ForwardInit PROVE RouteInv /\ LinkInv
    OBVIOUS
  <2>1. onoff \in Seq(Places) /\ Len(onoff) = 0
    BY DEF ForwardInit
  <2>2. RouteInv
    BY <2>1 DEF ForwardInit, RouteInv, RouteTypes, RouteWillBeCurrent, Places
  <2>3. LinkInv
    <3>1. Idle \in ForwardJobs /\ Idle.at = "idle"
      BY ForwardBegins
    <3>2. NoResult \in Results /\ ~NoResult.fair
      BY DEF NoResult, Results
    <3>3. fwd \in [Handlers -> ForwardJobs] /\ \A h \in Handlers : fwd[h].at = "idle"
      BY <3>1 DEF ForwardInit
    <3>4. last \in [Handlers -> Results] /\ ForwardReaches
      BY <3>2 DEF ForwardInit, ForwardReaches
    <3>5. con \in [Sinks -> ConStates]
      BY DEF ForwardInit, ConStates
    <3> QED
      BY <3>3, <3>4, <3>5 DEF LinkInv, LinkTypes, Repairing, Inside
  <2> QED
    BY <2>2, <2>3
<1>2. (RouteInv /\ LinkInv) /\ [ForwardNext]_forwardVars => (RouteInv /\ LinkInv)'
  BY RouteStep, LinkStep DEF RouteInv
<1> QED
  BY <1>1, <1>2, PTL DEF ForwardSpec

\* A judged Forward reaches its comet, however many handlers of the push server
\* share the lock while they repair connections, and whenever comets restart.
THEOREM ForwardReachesAlways == ForwardSpec => []ForwardReaches
<1>1. RouteInv /\ LinkInv => ForwardReaches
  BY DEF LinkInv
<1> QED
  BY <1>1, ForwardInvAlways, PTL

-----------------------------------------------------------------------------
(* The type invariant.                                                     *)

\* A delivery is accepted once at most: what was stored and what is being
\* stored are no more than what was delivered.
SeqCounts ==
    /\ base \in Starts /\ handled \in 0..MaxDeliveries
    /\ IsFiniteSet(storing) /\ passed \in [1..MaxRequests -> Nat]
    /\ \A n \in 1..MaxRequests : passed[n] + Cardinality(storing) <= handled

\* Each delivery adds one call at most, and each call one to its request.
LEMMA SeqCountsStep == ASSUME SeqTypeOK, SeqCounts, [SeqNext]_seqVars PROVE SeqCounts'
<1> USE SeqCheckAssumption
<1>0. /\ base \in Starts /\ handled \in Nat /\ handled <= MaxDeliveries
      /\ IsFiniteSet(storing) /\ Cardinality(storing) \in Nat
      /\ passed \in [1..MaxRequests -> Nat]
      /\ \A n \in 1..MaxRequests : passed[n] \in Nat /\ passed[n] + Cardinality(storing) <= handled
  BY FS_CardinalityType DEF SeqCounts
<1>1. ASSUME NEW n \in base + 1 .. base + MaxRequests, Compare(n) PROVE SeqCounts'
  <2>1. /\ handled < MaxDeliveries /\ handled' = handled + 1 /\ UNCHANGED <<base, passed>>
        /\ storing' = storing \/ storing' = storing \cup {<<n, handled>>}
    BY <1>1 DEF Compare
  <2>2. /\ IsFiniteSet(storing') /\ Cardinality(storing') \in Nat
        /\ Cardinality(storing') <= Cardinality(storing) + 1
    <3>1. CASE storing' = storing
      BY <1>0, <3>1
    <3>2. CASE storing' = storing \cup {<<n, handled>>}
      <4>1. /\ IsFiniteSet(storing')
            /\ \/ Cardinality(storing') = Cardinality(storing)
               \/ Cardinality(storing') = Cardinality(storing) + 1
        BY <1>0, <3>2, FS_AddElement
      <4> QED
        BY <1>0, <4>1
    <3> QED
      BY <2>1, <3>1, <3>2
  <2>3. ASSUME NEW k \in 1..MaxRequests PROVE passed'[k] + Cardinality(storing') <= handled'
    <3>1. passed[k] \in Nat /\ passed[k] + Cardinality(storing) <= handled /\ passed'[k] = passed[k]
      BY <1>0, <2>1
    <3> QED
      BY <1>0, <2>1, <2>2, <3>1
  <2>4. base' \in Starts /\ handled' \in 0..MaxDeliveries /\ passed' \in [1..MaxRequests -> Nat]
    BY <1>0, <2>1
  <2> QED
    BY <2>2, <2>3, <2>4 DEF SeqCounts
<1>2. ASSUME NEW c \in storing, Store(c) PROVE SeqCounts'
  <2> DEFINE i == c[1] - base
  <2>1. /\ storing' = storing \ {c} /\ UNCHANGED <<base, handled>>
        /\ passed' = [passed EXCEPT ![i] = @ + 1]
    BY <1>2 DEF Store
  <2>2. IsFiniteSet(storing') /\ Cardinality(storing') = Cardinality(storing) - 1
    BY <1>0, <2>1, FS_RemoveElement
  <2> HIDE DEF i
  <2>3. passed' \in [1..MaxRequests -> Nat]
    <3>1. ASSUME NEW k \in 1..MaxRequests PROVE passed'[k] \in Nat
      <4>1. passed[k] \in Nat /\ passed'[k] \in {passed[k], passed[k] + 1}
        BY <1>0, <2>1
      <4> QED
        BY <4>1
    <3> QED
      BY <1>0, <2>1, <3>1
  <2>4. ASSUME NEW k \in 1..MaxRequests PROVE passed'[k] + Cardinality(storing') <= handled'
    <3>1. passed[k] \in Nat /\ passed[k] + Cardinality(storing) <= handled
      BY <1>0
    <3>2. passed'[k] = passed[k] \/ passed'[k] = passed[k] + 1
      BY <1>0, <2>1
    <3> QED
      BY <1>0, <2>1, <2>2, <3>1, <3>2
  <2>5. base' \in Starts /\ handled' \in 0..MaxDeliveries
    BY <1>0, <2>1
  <2> QED
    BY <2>2, <2>3, <2>4, <2>5 DEF SeqCounts
<1>3. CASE UNCHANGED seqVars
  BY <1>3 DEF seqVars, SeqCounts
<1> QED
  BY <1>1, <1>2, <1>3 DEF SeqNext

\* What SeqCounts says of the type.
LEMMA SeqRanges ==
    ASSUME SeqCounts PROVE passed \in [1..MaxRequests -> 0..MaxDeliveries]
<1>1. /\ Cardinality(storing) \in Nat /\ handled \in Nat /\ handled <= MaxDeliveries
      /\ passed \in [1..MaxRequests -> Nat] /\ MaxDeliveries \in Nat
  BY SeqCheckAssumption, FS_CardinalityType DEF SeqCounts
<1>2. ASSUME NEW n \in 1..MaxRequests PROVE passed[n] \in 0..MaxDeliveries
  <2>1. passed[n] \in Nat /\ passed[n] + Cardinality(storing) <= handled
    BY <1>1 DEF SeqCounts
  <2> QED
    BY <1>1, <2>1
<1> QED
  BY <1>1, <1>2

WsStates ==
    /\ conn \in {"new", "open", "rejected", "closed"}
    /\ eof \in {"no", "clean", "cut"} /\ broken \in BOOLEAN
    /\ reader \in {"handshake", "read", "replying", "ponging", "logout",
                   "return", "done"}

\* The connection and its reader.
LEMMA WsStatesStep == ASSUME WsStates, [WsNext]_wsVars PROVE WsStates'
<1> USE DEF WsStates
<1>1. ASSUME NEW t, PhoneSends(t) PROVE WsStates'
  BY <1>1 DEF PhoneSends
<1>2. ASSUME NEW how \in {"clean", "cut"}, PhoneEnds(how) PROVE WsStates'
  BY <1>2 DEF PhoneEnds
<1>3. CASE Breaks
  BY <1>3 DEF Breaks
<1>4. ASSUME NEW req, serveWebSocket(req) PROVE WsStates'
  BY <1>4, Zenon DEF serveWebSocket
<1>5. ASSUME ReceiveMessage \/ ReceivePing \/ ReceiveFails PROVE WsStates'
  <2>1. /\ UNCHANGED <<conn, broken, eof>>
        /\ reader' = reader \/ reader' \in {"replying", "ponging", "logout"}
    BY <1>5, Zenon DEF ReceiveMessage, ReceivePing, ReceiveFails
  <2> QED
    BY <2>1
<1>6. ASSUME NEW w, NEW t, StartWrite(w, t) PROVE WsStates'
  BY <1>6 DEF StartWrite
<1>7. ASSUME NEW w, Lock(w) \/ WriteHeader(w) PROVE WsStates'
  BY <1>7 DEF Lock, WriteHeader
<1>8. ASSUME NEW w, WritePayload(w) PROVE WsStates'
  <2>1. /\ UNCHANGED <<broken, eof>>
        /\ conn' = conn \/ conn' = "closed"
        /\ reader' = reader \/ reader' \in {"logout", "return", "read"}
    BY <1>8 DEF WritePayload
  <2> QED
    BY <2>1
<1>9. CASE HandlerReturns
  BY <1>9 DEF HandlerReturns
<1>10. CASE UNCHANGED wsVars
  BY <1>10 DEF wsVars
<1> QED
  BY <1>1, <1>2, <1>3, <1>4, <1>5, <1>6, <1>7, <1>8, <1>9, <1>10, Zenon DEF WsNext

TcpCount == msgsSent \in 0..MaxMsgs

\* The device's messages.
LEMMA TcpCountStep == ASSUME TcpCount, [TcpNext]_tcpVars PROVE TcpCount'
<1>1. CASE DeviceSends
  <2>1. msgsSent < MaxMsgs /\ msgsSent' = msgsSent + 1
    BY <1>1 DEF DeviceSends
  <2> QED
    BY <2>1, FlagLenAssumption DEF TcpCount
<1>2. ASSUME [TcpNext]_tcpVars, ~DeviceSends PROVE msgsSent' = msgsSent
  BY <1>2 DEF TcpNext, Stray, ReadHead, Resync, ReadFrame, tcpVars
<1> QED
  BY <1>1, <1>2 DEF TcpCount

\* The lists and what they are made of; also when the list was disturbed.
BindTypes ==
    /\ ids \in Seq(Ids) /\ bound \subseteq Ids
    /\ load \in {"todo", "read", "done"} /\ call \in {"idle", "read", "over"}
    /\ loaded.set \subseteq Ids /\ answer.set \subseteq Ids
    /\ outbox \in Seq(Notes) /\ pend \subseteq Notes /\ count \in Nat
    /\ \A u \in upd : u.note \in Notes /\ u.snap \in Seq(Ids)

\* Unbinding leaves a list of ids.
LEMMA WithoutType ==
    ASSUME NEW list \in Seq(Ids), NEW id PROVE Without(list, id) \in Seq(Ids)
<1>1. CASE id \notin Range(list)
  BY <1>1 DEF Without
<1>2. CASE id \in Range(list)
  <2>1. PICK k : Without(list, id) = SubSeq([list EXCEPT ![k] = list[Len(list)]], 1, Len(list) - 1)
    BY <1>2 DEF Without
  <2>2. /\ Len(list) \in Nat /\ Len(list) >= 1 /\ list[Len(list)] \in Ids
    <3>1. list # <<>>
      BY <1>2 DEF Range
    <3> QED
      BY <3>1
  <2>3. PICK f : f = [list EXCEPT ![k] = list[Len(list)]]
    OBVIOUS
  <2>4. f \in Seq(Ids) /\ Len(f) = Len(list)
    <3>1. list \in [1..Len(list) -> Ids]
      OBVIOUS
    <3>2. f \in [1..Len(list) -> Ids]
      BY <2>2, <2>3, <3>1
    <3> QED
      BY <2>2, <3>2
  <2>5. \A i \in 1..(Len(list) - 1) : f[i] \in Ids
    BY <2>2, <2>4
  <2>6. SubSeq(f, 1, Len(list) - 1) \in Seq(Ids)
    BY <2>2, <2>4, <2>5, SubSeqProperties
  <2> QED
    BY <2>1, <2>3, <2>6
<1> QED
  BY <1>1, <1>2

\* A list made of an answer of Redis.
LEMMA ListType == ASSUME NEW S \in SUBSET Ids PROVE SetToSeq(S) \in Seq(Ids)
<1>1. IsFiniteSet(S)
  BY BindAssumption, FS_Subset
<1>2. SetToSeq(S) \in Seq(S)
  BY <1>1, SetToSeqLists
<1>3. Seq(S) \subseteq Seq(Ids)
  OBVIOUS
<1> QED
  BY <1>2, <1>3

\* The service, the notices, the login and the call.
LEMMA BindTypesStep == ASSUME BindTypes, [BindNext]_bindVars PROVE BindTypes'
<1> USE DEF BindTypes
<1>1. ASSUME NEW id \in Ids, NEW kin \in BOOLEAN, Rebind(id, kin) PROVE BindTypes'
  <2> DEFINE o == [n |-> count, id |-> id, bind |-> id \notin bound, kin |-> kin]
  <2>1. /\ count' = count + 1 /\ bound' \subseteq Ids /\ outbox' = Append(outbox, o)
        /\ UNCHANGED <<pend, upd, load, loaded, ids, call, answer>>
    BY <1>1 DEF Rebind
  <2>2. o \in Notes
    BY DEF Notes
  <2> HIDE DEF o
  <2> QED
    BY <2>1, <2>2
<1>2. CASE HandleDeviceUsers
  <2>1. Head(outbox) \in Notes /\ Tail(outbox) \in Seq(Notes)
    BY <1>2 DEF HandleDeviceUsers
  <2> QED
    BY <1>2, <2>1 DEF HandleDeviceUsers, callVars
<1>3. ASSUME NEW n \in pend, StartUpdateIds(n) PROVE BindTypes'
  <2>1. /\ pend' \subseteq pend /\ UNCHANGED <<bound, outbox, count, load, loaded, ids, call, answer>>
        /\ upd' = upd \/ upd' = upd \cup {[note |-> n, snap |-> ids]}
    BY <1>3 DEF StartUpdateIds, redisVars, callVars
  <2>2. ASSUME NEW u \in upd' PROVE u.note \in Notes /\ u.snap \in Seq(Ids)
    BY <2>1
  <2> QED
    BY <2>1, <2>2
<1>4. ASSUME NEW u \in upd, UpdateIds(u) PROVE BindTypes'
  <2>1. /\ upd' \subseteq upd /\ UNCHANGED <<bound, outbox, count, pend, load, loaded, call, answer>>
        /\ ids' = IF u.note.bind THEN Append(u.snap, u.note.id) ELSE Without(u.snap, u.note.id)
    BY <1>4 DEF UpdateIds, redisVars, callVars
  <2>2. u.snap \in Seq(Ids) /\ u.note.id \in Ids
    BY DEF Notes
  <2>3. ids' \in Seq(Ids)
    BY <2>1, <2>2, WithoutType
  <2> QED
    BY <2>1, <2>3
<1>5. CASE ReadAtLogin
  <2>1. /\ loaded' \in Answers /\ load' = "read"
        /\ UNCHANGED <<bound, outbox, count, pend, upd, ids, call, answer>>
    BY <1>5 DEF ReadAtLogin, redisVars, callVars
  <2>2. loaded'.set \subseteq Ids
    BY <2>1 DEF Answers
  <2> QED
    BY <2>1, <2>2
<1>6. CASE LoadAtLogin
  <2>1. /\ ids' = ids \/ ids' = SetToSeq(loaded.set)
        /\ load' = "done" /\ UNCHANGED <<bound, outbox, count, pend, upd, loaded, call, answer>>
    BY <1>6 DEF LoadAtLogin, redisVars, callVars
  <2> QED
    BY <2>1, ListType
<1>7. CASE EnterPoolOf
  BY <1>7 DEF EnterPoolOf, redisVars, callVars
<1>8. ASSUME NEW id \in Ids, CalcDestIds(id) PROVE BindTypes'
  <2>1. /\ UNCHANGED <<bound, outbox, count, pend, upd, load, loaded, ids>>
        /\ call' \in {"read", "over"} /\ (answer' = answer \/ answer' \in Answers)
    BY <1>8 DEF CalcDestIds, redisVars
  <2>2. answer'.set \subseteq Ids
    BY <2>1 DEF Answers
  <2> QED
    BY <2>1, <2>2
<1>9. CASE Reload
  <2>1. /\ ids' = ids \/ ids' = SetToSeq(answer.set)
        /\ call' = "over" /\ UNCHANGED <<bound, outbox, count, pend, upd, load, loaded, answer>>
    BY <1>9 DEF Reload, redisVars
  <2> QED
    BY <2>1, ListType
<1>10. CASE ReturnDest
  <2>1. /\ call' = "idle" /\ answer' = NoAnswer
        /\ UNCHANGED <<bound, outbox, count, pend, upd, load, loaded, ids>>
    BY <1>10 DEF ReturnDest, redisVars
  <2> QED
    BY <2>1 DEF NoAnswer
<1>11. CASE UNCHANGED bindVars
  BY <1>11 DEF bindVars
<1> QED
  BY <1>1, <1>2, <1>3, <1>4, <1>5, <1>6, <1>7, <1>8, <1>9, <1>10, <1>11 DEF BindNext

\* What the invariant of SentinelTable does not say.
TableTypes ==
    /\ listening \subseteq Peers /\ watching \subseteq Paths
    /\ created \in Nat /\ cometPath \subseteq 1..created

\* The comets, ZooKeeper, the comet and the push server.
LEMMA TableTypesStep == ASSUME TInv, TableTypes, [TableNext]_tableVars PROVE TableTypes'
<1> USE DEF TableTypes
<1>1. ASSUME NEW c \in Peers, PeerStarts(c) \/ PeerStops(c) \/ NodeChanges(c) PROVE TableTypes'
  BY <1>1 DEF PeerStarts, PeerStops, NodeChanges, cometVars
<1>2. ASSUME NEW t \in Paths, WatchFires(t) PROVE TableTypes'
  BY <1>2 DEF WatchFires
<1>3. CASE SessionBegins \/ SessionLost \/ SessionExpires
  BY <1>3 DEF SessionBegins, SessionLost, SessionExpires
<1>4. CASE ListChildren
  <2>1. host = "comet" /\ todo # <<>> /\ todo \in Seq(Paths)
    BY <1>4 DEF ListChildren, TInv, CometInv, CometTypes
  <2>2. Head(todo) \in Paths
    BY <2>1
  <2> QED
    BY <1>4, <2>2 DEF ListChildren
<1>5. CASE ListFails \/ GetNodeDataFails \/ UpdateTable
  BY <1>5 DEF ListFails, GetNodeDataFails, UpdateTable
<1>6. CASE onConnStatus \/ Reports \/ LoopHandles \/ CreateFails
  BY <1>6 DEF onConnStatus, Reports, LoopHandles, CreateFails, zkVars
<1>7. CASE LoopRegisters
  <2>1. /\ UNCHANGED <<listening, watching>>
        /\ \/ UNCHANGED <<created, cometPath>>
           \/ created' = created + 1 /\ cometPath' = cometPath \cup {created'}
    BY <1>7 DEF LoopRegisters
  <2>2. CASE UNCHANGED <<created, cometPath>>
    BY <2>1, <2>2
  <2>3. CASE created' = created + 1 /\ cometPath' = cometPath \cup {created'}
    <3>1. created \in Nat /\ \A i \in cometPath : i \in 1..created
      OBVIOUS
    <3>2. ASSUME NEW i \in cometPath' PROVE i \in 1..(created + 1)
      <4>1. i \in 1..created \/ i = created + 1
        BY <2>3, <3>1
      <4> QED
        BY <3>1, <4>1
    <3>3. created' \in Nat /\ cometPath' \subseteq 1..created'
      BY <2>3, <3>1, <3>2
    <3> QED
      BY <2>1, <3>3
  <2> QED
    BY <2>1, <2>2, <2>3
<1>8. ASSUME NEW t \in Paths, PushChildrenW(t) PROVE TableTypes'
  BY <1>8 DEF PushChildrenW, cometVars
<1>9. ASSUME NEW t \in Paths, PushChildrenWFails(t) \/ GetNodeData(t) \/ PushUpdate(t)
      PROVE  UNCHANGED <<listening, watching, created, cometPath>>
  BY <1>9 DEF PushChildrenWFails, GetNodeData, PushUpdate, cometVars
<1>10. ASSUME NEW t \in Paths, CheckErr(t) \/ UseAddr(t) \/ Await(t) \/ Wake(t)
       PROVE  UNCHANGED <<listening, watching, created, cometPath>>
  BY <1>10 DEF CheckErr, UseAddr, Await, Wake, zkVars, cometVars
<1>11. ASSUME UNCHANGED tableVars PROVE UNCHANGED <<listening, watching, created, cometPath>>
  BY <1>11 DEF tableVars, zkVars, cometVars
<1> QED
  BY <1>1, <1>2, <1>3, <1>4, <1>5, <1>6, <1>7, <1>8, <1>9, <1>10, <1>11
  DEF TableNext, ZkNext, CometNext, PushNext


(***************************************************************************)
(* Every variable of the layers keeps its type, for all constants: no      *)
(* connection, reader, writer, list, table or route is ever in a state     *)
(* that the handlers do not know, and no counter exceeds its bound.        *)
(***************************************************************************)
THEOREM DeliveryTypeCorrect == Spec => []DeliveryTypeOK
<1>1. Init => SeqCounts /\ WsStates /\ TcpCount /\ BindTypes /\ TableTypes
  <2> SUFFICES ASSUME Init
               PROVE  SeqCounts /\ WsStates /\ TcpCount /\ BindTypes /\ TableTypes
    OBVIOUS
  <2>1. SeqCounts
    <3>1. /\ base \in Starts /\ storing = {} /\ handled = 0
          /\ passed = [n \in 1..MaxRequests |-> 0]
      BY DEF Init, SeqInit
    <3>2. IsFiniteSet(storing) /\ Cardinality(storing) = 0
      BY <3>1, FS_EmptySet
    <3> QED
      BY <3>1, <3>2, SeqCheckAssumption DEF SeqCounts
  <2>2. WsStates
    BY DEF Init, WsInit, WsStates
  <2>3. TcpCount
    BY FlagLenAssumption DEF Init, TcpInit, TcpCount
  <2>4. BindTypes
    BY DEF Init, BindInit, BindTypes, NoAnswer
  <2>5. TableTypes
    BY DEF Init, TableInit, TableTypes
  <2> QED
    BY <2>1, <2>2, <2>3, <2>4, <2>5
<1>2. SeqInv /\ SeqCounts /\ [Next]_vars => SeqCounts'
  BY LayerSteps, SeqCountsStep DEF SeqInv
<1>3. WsStates /\ [Next]_vars => WsStates'
  BY LayerSteps, WsStatesStep
<1>4. TcpCount /\ [Next]_vars => TcpCount'
  BY LayerSteps, TcpCountStep
<1>5. BindTypes /\ [Next]_vars => BindTypes'
  BY LayerSteps, BindTypesStep
<1>6. TInv /\ TableTypes /\ [Next]_vars => TableTypes'
  BY LayerSteps, TableTypesStep
<1>7. SeqSpec => []SeqInv
  BY SeqInvInit, SeqInvStep, PTL DEF SeqSpec
<1>8. WsSpec => []WsInv
  BY WsInvInit, WsInvStep, PTL DEF WsSpec
<1>9. ASSUME PathInv, SeqInv, SeqCounts, WsInv, WsStates, TcpInv, TcpCount, BindTypes,
              TInv, TableTypes, RouteInv, LinkInv
       PROVE  DeliveryTypeOK
  <2>1. ridx \in 0..(Width - 1)
    BY <1>9 DEF SeqInv, SeqTypeOK
  <2>2. base \in Starts /\ handled \in 0..MaxDeliveries
    BY <1>9 DEF SeqCounts
  <2>3. passed \in [1..MaxRequests -> 0..MaxDeliveries]
    BY <1>9, SeqRanges
  <2>4. wio \in Writers \cup {Free} /\ job \in [Writers -> Jobs]
    BY <1>9 DEF WsInv, WriteTypes
  <2>5. \A w \in Writers : job[w].at \in {"none", "lock", "header", "payload", "done"}
    BY <2>4 DEF Jobs
  <2>6. Len(head) \in {0, FlagLen} /\ msgsSent \in 0..MaxMsgs
    BY <1>9 DEF TcpInv, TcpTypes, TcpCount
  <2>7. Range(ids) \subseteq Ids /\ bound \subseteq Ids
    <3>1. \A i \in DOMAIN ids : ids[i] \in Ids
      BY <1>9 DEF BindTypes
    <3> QED
      BY <1>9, <3>1 DEF BindTypes, Range
  <2>8. load \in {"todo", "read", "done"} /\ call \in {"idle", "read", "over"}
    BY <1>9 DEF BindTypes
  <2>9. /\ zkNodes \subseteq Peers /\ listening \subseteq Peers
        /\ tab \in [Peers -> Paths \cup {NoEntry}] /\ watching \subseteq Paths
        /\ dirty \subseteq watching /\ cometPath \subseteq 1..created
    BY <1>9 DEF TInv, Base, TableTypes
  <2>10. /\ route \in Sinks \cup {Nowhere} /\ home \in Sinks \cup {Nowhere}
         /\ con \in [Sinks -> {"absent", "nil", "closed", "stale", "ok"}]
    BY <1>9 DEF RouteInv, RouteTypes, LinkInv, LinkTypes, Places, ConStates
  <2> QED
    BY <1>9, <2>1, <2>2, <2>3, <2>4, <2>5, <2>6, <2>7, <2>8, <2>9, <2>10, Zenon
    DEF DeliveryTypeOK, PathInv, PathTypes, WsStates
<1> QED
  BY <1>1, <1>2, <1>3, <1>4, <1>5, <1>6, <1>7, <1>8, <1>9, LayersImplemented,
     PathInvsAlways, TcpInvAlways, TInvAlways, ForwardInvAlways, PTL DEF Spec

-----------------------------------------------------------------------------
(* The composition.                                                        *)

(***************************************************************************)
(* In Delivery, the properties of the layers hold together: what was sent  *)
(* is what is decoded, frames stay whole and in order on both kinds of     *)
(* connection, requests are accepted once, a bound receiver is not         *)
(* refused, the lists, the table of comets and the route follow their      *)
(* sources, and a Forward reaches the comet.                               *)
(***************************************************************************)
THEOREM DeliveryCorrect ==
    Spec => [](/\ EndToEnd /\ NothingForged /\ NoticeAsMeant
               /\ FramesWhole /\ ReceivedInOrder /\ PongBeforeNextMessage
               /\ ReturnedInOrder /\ NothingLost
               /\ InOrderAccepted /\ AcceptedOnce
               /\ BoundIsReached /\ BindingsAgree
               /\ TableFollowsZk /\ RegisteredAndReporting
               /\ RouteIsCurrent /\ ForwardReaches)
BY LayersImplemented, EndToEndAlways, NothingForgedAlways, NoticeAsMeantAlways,
   FramesWholeAlways, ReceivedInOrderAlways, PongBeforeNextMessageAlways,
   ReturnedInOrderAlways, NothingLostAlways, InOrderAcceptedAlways, AcceptedOnceAlways,
   BoundIsReachedAlways, BindingsAgreeAlways, TableFollowsZkAlways,
   RegisteredAndReportingAlways, RouteIsCurrentAlways, ForwardReachesAlways, PTL
=============================================================================
