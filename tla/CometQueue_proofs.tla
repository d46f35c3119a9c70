------------------------- MODULE CometQueue_proofs -------------------------
(***************************************************************************)
(* Proofs about CometQueue, for any comets and any finite number of list   *)
(* nodes: the linked list stays well linked, holds each comet once and, at *)
(* the end of a round, the comets that were read; and it implements the    *)
(* sequence of FifoQueue.                                                  *)
(***************************************************************************)
EXTENDS CometQueue, FiniteSetTheorems, SequenceTheorems, TLAPS

-----------------------------------------------------------------------------
(* Sequences of nodes, and of values.                                      *)

\* L without its k-th element: what Remove of FifoQueue leaves.
Removed(L, k) == SubSeq(L, 1, k - 1) \o SubSeq(L, k + 1, Len(L))

\* The elements before the k-th keep their places, those after it move up.
LEMMA RemovedElements ==
    ASSUME NEW S, NEW L \in Seq(S), NEW k \in 1..Len(L)
    PROVE  /\ Removed(L, k) \in Seq(S) /\ Len(Removed(L, k)) = Len(L) - 1
           /\ \A i \in 1..(Len(L) - 1) : Removed(L, k)[i] = IF i < k THEN L[i] ELSE L[i + 1]
<1> DEFINE n == Len(L)
           a == SubSeq(L, 1, k - 1)
           b == SubSeq(L, k + 1, n)
<1>1. n \in Nat /\ k \in Nat /\ 1 <= k /\ k <= n /\ \A i \in 1..n : L[i] \in S
  OBVIOUS
<1> HIDE DEF n
<1>2. a \in Seq(S) /\ Len(a) = k - 1 /\ \A i \in 1..(k - 1) : a[i] = L[i]
  <2>1. 1 \in Int /\ k - 1 \in Int /\ \A i \in 1..(k - 1) : L[i] \in S
    BY <1>1
  <2>2. /\ a \in Seq(S) /\ Len(a) = IF 1 <= k - 1 THEN k - 1 - 1 + 1 ELSE 0
        /\ \A i \in 1..(k - 1 - 1 + 1) : a[i] = L[1 + i - 1]
    BY <2>1, SubSeqProperties
  <2> HIDE DEF a
  <2> QED
    BY <1>1, <2>2
<1>3. b \in Seq(S) /\ Len(b) = n - k /\ \A i \in 1..(n - k) : b[i] = L[k + i]
  <2>1. k + 1 \in Int /\ n \in Int /\ \A i \in (k + 1)..n : L[i] \in S
    BY <1>1
  <2>2. /\ b \in Seq(S) /\ Len(b) = IF k + 1 <= n THEN n - (k + 1) + 1 ELSE 0
        /\ \A i \in 1..(n - (k + 1) + 1) : b[i] = L[k + 1 + i - 1]
    BY <2>1, SubSeqProperties
  <2> HIDE DEF b
  <2> QED
    BY <1>1, <2>2
<1>4. Removed(L, k) = a \o b
  BY DEF Removed, n
<1> HIDE DEF a, b
<1>5. /\ a \o b \in Seq(S) /\ Len(a \o b) = Len(a) + Len(b)
      /\ \A i \in 1..(Len(a) + Len(b)) : (a \o b)[i] = IF i <= Len(a) THEN a[i] ELSE b[i - Len(a)]
  BY <1>2, <1>3, ConcatProperties
<1>6. Len(a) + Len(b) = n - 1
  BY <1>1, <1>2, <1>3
<1>7. ASSUME NEW i \in 1..(n - 1) PROVE (a \o b)[i] = IF i < k THEN L[i] ELSE L[i + 1]
  <2>1. CASE i < k
    <3>1. i \in 1..(k - 1) /\ i <= Len(a) /\ i \in 1..(Len(a) + Len(b))
      BY <1>1, <1>2, <1>6, <2>1
    <3> QED
      BY <1>2, <1>5, <2>1, <3>1
  <2>2. CASE ~(i < k)
    <3>1. /\ ~(i <= Len(a)) /\ i \in 1..(Len(a) + Len(b)) /\ i - Len(a) \in 1..(n - k)
          /\ k + (i - Len(a)) = i + 1
      BY <1>1, <1>2, <1>6, <2>2
    <3> QED
      BY <1>3, <1>5, <2>2, <3>1, SMTT(30)
  <2> QED
    BY <2>1, <2>2
<1> QED
  BY <1>4, <1>5, <1>6, <1>7 DEF n

-----------------------------------------------------------------------------
(* The list that a chain of nodes represents.                              *)

\* List, as a function of the pointers.
ListOf(nx, h) ==
    LET after == [l \in Link |-> IF l = None THEN None ELSE nx[l]]
        node[i \in 1..Cardinality(Nodes)] == IF i = 1 THEN h ELSE after[node[i - 1]]
        seen == {i \in 1..Cardinality(Nodes) : node[i] # None}
    IN  SubSeq(node, 1, Cardinality(seen))

\* L are the nodes that lie on the way from h along nx.
Chain(L, nx, h) ==
    /\ L \in Seq(Nodes)
    /\ h = IF Len(L) = 0 THEN None ELSE L[1]
    /\ \A i \in 1..Len(L) : nx[L[i]] = IF i = Len(L) THEN None ELSE L[i + 1]
    /\ \A i, j \in 1..Len(L) : L[i] = L[j] => i = j

\* The way back along pv, from tl.
Back(L, pv, tl) ==
    /\ tl = IF Len(L) = 0 THEN None ELSE L[Len(L)]
    /\ \A i \in 1..Len(L) : pv[L[i]] = IF i = 1 THEN None ELSE L[i - 1]

\* A chain has no more nodes than there are.
LEMMA ChainFits ==
    ASSUME NEW L, NEW nx, NEW h, Chain(L, nx, h)
    PROVE  Len(L) \in Nat /\ Len(L) <= Cardinality(Nodes) /\ Cardinality(Nodes) \in Nat
<1>1. L \in [1..Len(L) -> Nodes] /\ Len(L) \in Nat /\ DOMAIN L = 1..Len(L)
  BY DEF Chain
<1>2. L \in Injection(1..Len(L), Nodes)
  BY <1>1 DEF Chain, Injection, IsInjective
<1>3. IsFiniteSet(1..Len(L)) /\ Cardinality(1..Len(L)) = Len(L)
  <2>1. \A n \in Nat : IsFiniteSet(1..n) /\ Cardinality(1..n) = n
    BY FS_Interval
  <2> QED
    BY <1>1, <2>1
<1> QED
  BY <1>1, <1>2, <1>3, NodesAssumption, FS_Injection, FS_CardinalityType

\* The loops over the list see the nodes of the chain, all of them and in order.
LEMMA ListIsChain ==
    ASSUME NEW L, NEW nx, NEW h, Chain(L, nx, h) PROVE ListOf(nx, h) = L
<1> DEFINE N == Cardinality(Nodes)
           n == Len(L)
           after == [l \in Link |-> IF l = None THEN None ELSE nx[l]]
           Eq(f) == f = [i \in 1..N |-> IF i = 1 THEN h ELSE after[f[i - 1]]]
           node == CHOOSE f : Eq(f)
           g == [i \in 1..N |-> IF i <= n THEN L[i] ELSE None]
           seen == {i \in 1..N : node[i] # None}
<1>1. /\ n \in Nat /\ N \in Nat /\ n <= N /\ None \notin Nodes
      /\ \A i \in 1..n : L[i] \in Nodes
  BY ChainFits, NoneAssumption DEF Chain
<1> HIDE DEF N
<1>2. \A i \in 1..n : after[L[i]] = IF i = n THEN None ELSE L[i + 1]
  BY <1>1 DEF Chain, Link
<1>3. after[None] = None
  BY DEF Link
<1>4. h = IF n = 0 THEN None ELSE L[1]
  BY DEF Chain
<1> HIDE DEF after, n
<1>5. Eq(g)
  <2>1. ASSUME NEW i \in 1..N PROVE g[i] = IF i = 1 THEN h ELSE after[g[i - 1]]
    <3>1. CASE i = 1
      BY <1>1, <1>4, <3>1
    <3>2. CASE i # 1 /\ i <= n
      <4>1. i - 1 \in 1..N /\ i - 1 \in 1..n /\ i - 1 # n /\ (i - 1) + 1 = i
        BY <1>1, <3>2
      <4>2. g[i - 1] = L[i - 1]
        BY <4>1
      <4> QED
        BY <1>2, <3>2, <4>1, <4>2
    <3>3. CASE i # 1 /\ i = n + 1
      <4>1. n \in 1..n /\ i - 1 = n /\ n \in 1..N /\ ~(i <= n)
        BY <1>1, <3>3
      <4>2. g[i - 1] = L[n]
        BY <4>1
      <4> QED
        BY <1>2, <3>3, <4>1, <4>2
    <3>4. CASE i # 1 /\ i > n + 1
      <4>1. i - 1 \in 1..N /\ ~(i - 1 <= n) /\ ~(i <= n)
        BY <1>1, <3>4
      <4> QED
        BY <1>3, <3>4, <4>1
    <3> QED
      BY <1>1, <3>1, <3>2, <3>3, <3>4
  <2> QED
    BY <2>1
<1>6. Eq(node)
  <2> HIDE DEF Eq
  <2> QED
    BY <1>5, Zenon
<1> HIDE DEF node
<1>7. \A i \in 1..N : node[i] = IF i = 1 THEN h ELSE after[node[i - 1]]
  BY <1>6
<1>8. \A i \in 1..N : g[i] = IF i = 1 THEN h ELSE after[g[i - 1]]
  BY <1>5
<1> HIDE DEF g
<1>9. \A i \in 1..N : node[i] = g[i]
  <2> DEFINE Bad == {i \in 1..N : node[i] # g[i]}
             Less == {ss \in Nat \X Nat : ss[1] < ss[2]}
  <2> SUFFICES ASSUME Bad # {} PROVE FALSE
    OBVIOUS
  <2>1. IsWellFoundedOn(Less, Nat)
    BY NatLessThanWellFounded DEF Less, OpToRel
  <2>2. \E x \in Bad : \A y \in Bad : ~(<<y, x>> \in Less)
    <3>1. Bad \subseteq Nat
      BY <1>1
    <3> HIDE DEF Bad, Less
    <3> QED
      BY <2>1, <3>1, WFMin
  <2>3. PICK x \in Bad : \A y \in Bad : ~(<<y, x>> \in Less)
    BY <2>2
  <2>4. x # 1
    BY <1>7, <1>8
  <2>5. x - 1 \in 1..N /\ <<x - 1, x>> \in Less
    BY <1>1, <2>4
  <2>6. node[x - 1] = g[x - 1]
    BY <2>3, <2>5
  <2> QED
    BY <1>7, <1>8, <2>4, <2>6
<1>10. node = g
  <2>1. DOMAIN node = 1..N
    BY <1>6
  <2>2. node = [i \in 1..N |-> node[i]]
    BY <1>6
  <2>3. g = [i \in 1..N |-> g[i]]
    BY DEF g
  <2> QED
    BY <1>9, <2>2, <2>3
<1>11. seen = 1..n /\ Cardinality(seen) = n
  <2>1. seen = 1..n
    BY <1>1, <1>10 DEF g
  <2>2. Cardinality(1..n) = n
    BY <1>1, FS_Interval
  <2> QED
    BY <2>1, <2>2
<1>12. SubSeq(g, 1, n) = L
  <2>1. 1 \in Int /\ n \in Int /\ \A i \in 1..n : g[i] = L[i] /\ g[i] \in Nodes
    BY <1>1 DEF g
  <2>2. /\ SubSeq(g, 1, n) \in Seq(Nodes)
        /\ Len(SubSeq(g, 1, n)) = IF 1 <= n THEN n - 1 + 1 ELSE 0
        /\ \A i \in 1..(n - 1 + 1) : SubSeq(g, 1, n)[i] = g[1 + i - 1]
    BY <2>1, SubSeqProperties
  <2> DEFINE M == SubSeq(g, 1, n)
  <2>3. M \in Seq(Nodes) /\ Len(M) = n /\ \A i \in 1..n : M[i] = L[i]
    BY <1>1, <2>1, <2>2
  <2>4. L \in Seq(Nodes) /\ Len(L) = n
    BY DEF Chain, n
  <2> HIDE DEF M
  <2>5. M = L
    BY <2>3, <2>4
  <2> QED
    BY <2>5 DEF M
<1>13. ListOf(nx, h) = SubSeq(node, 1, Cardinality(seen))
  BY Zenon DEF ListOf, node, after, N
<1> QED
  BY <1>10, <1>11, <1>12, <1>13

-----------------------------------------------------------------------------
(* Put and Remove, on the chain.                                           *)

\* linkLast of a node that is not in the chain and leads nowhere.
LEMMA PutChain ==
    ASSUME NEW L, NEW nx \in [Nodes -> Link], NEW pv \in [Nodes -> Link], NEW h, NEW tl,
           Chain(L, nx, h), Back(L, pv, tl),
           NEW n \in Nodes, \A i \in 1..Len(L) : L[i] # n, nx[n] = None
    PROVE  /\ Chain(Append(L, n), IF h = None THEN nx ELSE [nx EXCEPT ![tl] = n],
                    IF h = None THEN n ELSE h)
           /\ Back(Append(L, n), [pv EXCEPT ![n] = tl], n)
<1> DEFINE M == Append(L, n)
           k == Len(L)
           nx2 == IF h = None THEN nx ELSE [nx EXCEPT ![tl] = n]
           pv2 == [pv EXCEPT ![n] = tl]
<1>1. /\ k \in Nat /\ M \in Seq(Nodes) /\ Len(M) = k + 1 /\ M[k + 1] = n
      /\ \A i \in 1..k : M[i] = L[i] /\ L[i] \in Nodes /\ L[i] # n
  BY DEF Chain
<1>2. \A i \in 1..(k + 1) : i \in 1..k \/ i = k + 1
  BY <1>1
<1>3. /\ h = IF k = 0 THEN None ELSE L[1]
      /\ tl = IF k = 0 THEN None ELSE L[k]
      /\ \A i \in 1..k : nx[L[i]] = IF i = k THEN None ELSE L[i + 1]
      /\ \A i, j \in 1..k : L[i] = L[j] => i = j
      /\ \A i \in 1..k : pv[L[i]] = IF i = 1 THEN None ELSE L[i - 1]
  BY DEF Chain, Back
<1>4. tl \in Link /\ (h = None <=> k = 0) /\ None \notin Nodes
  BY <1>1, <1>3, NoneAssumption DEF Link
<1> HIDE DEF M, k
<1>5. nx2[n] = None
  BY <1>1, <1>3, <1>4
<1>6. ASSUME NEW i \in 1..k PROVE nx2[L[i]] = IF i = k THEN n ELSE L[i + 1]
  <2>1. k # 0 /\ h # None /\ tl = L[k] /\ k \in 1..k
    BY <1>1, <1>3, <1>4
  <2>2. nx2 = [nx EXCEPT ![L[k]] = n]
    BY <2>1
  <2>3. CASE i = k
    BY <1>1, <2>2, <2>3
  <2>4. CASE i # k
    <3>1. L[i] # L[k]
      BY <1>3, <2>1, <2>4
    <3> QED
      BY <1>1, <1>3, <2>2, <2>4, <3>1
  <2> QED
    BY <2>3, <2>4
<1>7. pv2[n] = tl /\ \A i \in 1..k : pv2[L[i]] = pv[L[i]]
  BY <1>1
<1> HIDE DEF nx2, pv2
<1>8. ASSUME NEW i \in 1..(k + 1) PROVE nx2[M[i]] = IF i = k + 1 THEN None ELSE M[i + 1]
  <2>1. CASE i = k + 1
    BY <1>1, <1>5, <2>1
  <2>2. CASE i \in 1..k
    <3>1. i # k + 1 /\ (i # k => i + 1 \in 1..k) /\ nx2[M[i]] = IF i = k THEN n ELSE L[i + 1]
      BY <1>1, <1>6, <2>2
    <3> QED
      BY <1>1, <3>1
  <2> QED
    BY <1>2, <2>1, <2>2
<1>9. ASSUME NEW i \in 1..(k + 1), NEW j \in 1..(k + 1), M[i] = M[j] PROVE i = j
  BY <1>1, <1>2, <1>3, <1>9
<1>10. ASSUME NEW i \in 1..(k + 1) PROVE pv2[M[i]] = IF i = 1 THEN None ELSE M[i - 1]
  <2>1. CASE i = k + 1
    <3>1. CASE k = 0
      BY <1>1, <1>3, <1>7, <2>1, <3>1
    <3>2. CASE k # 0
      <4>1. i # 1 /\ i - 1 = k /\ k \in 1..k
        BY <1>1, <2>1, <3>2
      <4> QED
        BY <1>1, <1>3, <1>7, <2>1, <3>2, <4>1
    <3> QED
      BY <3>1, <3>2
  <2>2. CASE i \in 1..k
    <3>1. pv2[M[i]] = IF i = 1 THEN None ELSE L[i - 1]
      BY <1>1, <1>3, <1>7, <2>2
    <3>2. i # 1 => i - 1 \in 1..k
      BY <1>1, <2>2
    <3> QED
      BY <1>1, <3>1, <3>2
  <2> QED
    BY <1>2, <2>1, <2>2
<1>11. (IF h = None THEN n ELSE h) = M[1]
  <2>1. CASE k = 0
    BY <1>1, <1>4, <2>1
  <2>2. CASE k # 0
    <3>1. 1 \in 1..k
      BY <1>1, <2>2
    <3> QED
      BY <1>1, <1>3, <1>4, <2>2, <3>1
  <2> QED
    BY <2>1, <2>2
<1>12. k + 1 # 0
  BY <1>1
<1>13. Chain(M, nx2, IF h = None THEN n ELSE h)
  BY <1>1, <1>8, <1>9, <1>11, <1>12 DEF Chain
<1>14. Back(M, pv2, n)
  BY <1>1, <1>10, <1>12 DEF Back
<1> QED
  BY <1>13, <1>14 DEF M, nx2, pv2

\* The neighbours of the k-th node of L lead to each other, and head and tail
\* move on.
Bridges(L, k, nx, pv, h, tl, nx2, pv2, h2, tl2) ==
    /\ h2 = IF k # 1 THEN h ELSE IF Len(L) = 1 THEN None ELSE L[2]
    /\ tl2 = IF k # Len(L) THEN tl ELSE IF Len(L) = 1 THEN None ELSE L[Len(L) - 1]
    /\ \A i \in 1..Len(L) : i # k => nx2[L[i]] = IF i = k - 1 THEN nx[L[k]] ELSE nx[L[i]]
    /\ \A i \in 1..Len(L) : i # k => pv2[L[i]] = IF i = k + 1 THEN pv[L[k]] ELSE pv[L[i]]

\* Then that node is taken out.
LEMMA RemoveChain ==
    ASSUME NEW L, NEW nx, NEW pv, NEW h, NEW tl, Chain(L, nx, h), Back(L, pv, tl),
           NEW k \in 1..Len(L), NEW nx2, NEW pv2, NEW h2, NEW tl2,
           Bridges(L, k, nx, pv, h, tl, nx2, pv2, h2, tl2)
    PROVE  Chain(Removed(L, k), nx2, h2) /\ Back(Removed(L, k), pv2, tl2)
<1> DEFINE M == Removed(L, k)
           n == Len(L)
<1>1. L \in Seq(Nodes) /\ n \in Nat /\ n >= 1 /\ k \in 1..n
  BY DEF Chain
<1>2. /\ M \in Seq(Nodes) /\ Len(M) = n - 1
      /\ \A i \in 1..(n - 1) : M[i] = IF i < k THEN L[i] ELSE L[i + 1]
  BY <1>1, RemovedElements
<1>3. /\ h = IF n = 0 THEN None ELSE L[1]
      /\ tl = IF n = 0 THEN None ELSE L[n]
      /\ \A i \in 1..n : nx[L[i]] = IF i = n THEN None ELSE L[i + 1]
      /\ \A i, j \in 1..n : L[i] = L[j] => i = j
      /\ \A i \in 1..n : pv[L[i]] = IF i = 1 THEN None ELSE L[i - 1]
  BY DEF Chain, Back
<1>4. /\ h2 = IF k # 1 THEN h ELSE IF n = 1 THEN None ELSE L[2]
      /\ tl2 = IF k # n THEN tl ELSE IF n = 1 THEN None ELSE L[n - 1]
      /\ \A i \in 1..n : i # k => nx2[L[i]] = IF i = k - 1 THEN nx[L[k]] ELSE nx[L[i]]
      /\ \A i \in 1..n : i # k => pv2[L[i]] = IF i = k + 1 THEN pv[L[k]] ELSE pv[L[i]]
  BY DEF Bridges
<1> HIDE DEF M, n
<1>5. ASSUME NEW i \in 1..(n - 1), NEW j \in 1..(n - 1), M[i] = M[j] PROVE i = j
  <2> DEFINE p == IF i < k THEN i ELSE i + 1
             q == IF j < k THEN j ELSE j + 1
  <2>1. p \in 1..n /\ q \in 1..n
    BY <1>1
  <2>2. M[i] = L[p] /\ M[j] = L[q]
    BY <1>2
  <2> HIDE DEF p, q
  <2>3. L[p] = L[q]
    BY <1>5, <2>2
  <2>4. \A x, y \in 1..n : L[x] = L[y] => x = y
    BY <1>3
  <2>5. p = q
    BY <2>1, <2>3, <2>4
  <2> QED
    BY <1>1, <2>5 DEF p, q
<1>6. ASSUME NEW i \in 1..(n - 1) PROVE nx2[M[i]] = IF i = n - 1 THEN None ELSE M[i + 1]
  <2>1. CASE i < k - 1
    <3>1. /\ i \in 1..n /\ i # k /\ i # k - 1 /\ i # n /\ i # n - 1 /\ i < k
          /\ i + 1 \in 1..(n - 1) /\ i + 1 < k
      BY <1>1, <2>1
    <3> QED
      BY <1>2, <1>3, <1>4, <3>1
  <2>2. CASE i = k - 1
    <3>1. i \in 1..n /\ i # k /\ i < k /\ k \in 1..n /\ ~(i + 1 < k) /\ (i + 1) + 1 = k + 1
      BY <1>1, <2>2
    <3>2. M[i] = L[i] /\ nx2[L[i]] = nx[L[k]] /\ nx[L[k]] = IF k = n THEN None ELSE L[k + 1]
      BY <1>2, <1>3, <1>4, <2>2, <3>1
    <3>3. k = n <=> i = n - 1
      BY <1>1, <2>2
    <3>4. k # n => i + 1 \in 1..(n - 1)
      BY <1>1, <2>2
    <3>5. k # n => M[i + 1] = L[k + 1]
      BY <1>2, <2>2, <3>1, <3>4
    <3> QED
      BY <3>2, <3>3, <3>5
  <2>3. CASE i >= k
    <3>1. i + 1 \in 1..n /\ i + 1 # k /\ i + 1 # k - 1 /\ ~(i < k)
      BY <1>1, <2>3
    <3>2. M[i] = L[i + 1] /\ nx2[L[i + 1]] = IF i + 1 = n THEN None ELSE L[(i + 1) + 1]
      BY <1>2, <1>3, <1>4, <3>1
    <3>3. i + 1 = n <=> i = n - 1
      BY <1>1
    <3>4. i # n - 1 => i + 1 \in 1..(n - 1) /\ ~(i + 1 < k)
      BY <1>1, <2>3
    <3>5. i # n - 1 => M[i + 1] = L[(i + 1) + 1]
      BY <1>2, <3>4
    <3> QED
      BY <3>2, <3>3, <3>5
  <2> QED
    BY <1>1, <2>1, <2>2, <2>3
<1>7. ASSUME NEW i \in 1..(n - 1) PROVE pv2[M[i]] = IF i = 1 THEN None ELSE M[i - 1]
  <2>1. CASE i < k
    <3>1. i \in 1..n /\ i # k /\ i # k + 1
      BY <1>1, <2>1
    <3>2. M[i] = L[i] /\ pv2[L[i]] = IF i = 1 THEN None ELSE L[i - 1]
      BY <1>2, <1>3, <1>4, <2>1, <3>1
    <3>3. i # 1 => i - 1 \in 1..(n - 1) /\ i - 1 < k
      BY <1>1, <2>1
    <3>4. i # 1 => M[i - 1] = L[i - 1]
      BY <1>2, <3>3
    <3> QED
      BY <3>2, <3>4
  <2>2. CASE i = k
    <3>1. i + 1 \in 1..n /\ i + 1 # k /\ i + 1 = k + 1 /\ k \in 1..n /\ ~(i < k)
      BY <1>1, <2>2
    <3>2. M[i] = L[i + 1] /\ pv2[L[i + 1]] = pv[L[k]] /\ pv[L[k]] = IF k = 1 THEN None ELSE L[k - 1]
      BY <1>2, <1>3, <1>4, <3>1
    <3>3. i # 1 => i - 1 \in 1..(n - 1) /\ i - 1 < k
      BY <1>1, <2>2
    <3>4. i # 1 => M[i - 1] = L[k - 1]
      BY <1>2, <2>2, <3>3
    <3> QED
      BY <2>2, <3>2, <3>4
  <2>3. CASE i > k
    <3>1. i + 1 \in 1..n /\ i + 1 # k /\ i + 1 # k + 1 /\ i + 1 # 1 /\ i # 1 /\ ~(i < k) /\ (i + 1) - 1 = i
      BY <1>1, <2>3
    <3>2. M[i] = L[i + 1] /\ pv2[L[i + 1]] = L[i]
      BY <1>2, <1>3, <1>4, <3>1
    <3>3. i - 1 \in 1..(n - 1) /\ ~(i - 1 < k) /\ (i - 1) + 1 = i
      BY <1>1, <2>3
    <3>4. M[i - 1] = L[i]
      BY <1>2, <3>3
    <3> QED
      BY <3>1, <3>2, <3>4
  <2> QED
    BY <1>1, <2>1, <2>2, <2>3
<1>8. h2 = IF n - 1 = 0 THEN None ELSE M[1]
  <2>1. CASE n = 1
    BY <1>1, <1>4, <2>1
  <2>2. CASE n # 1
    <3>1. 1 \in 1..(n - 1) /\ n # 0 /\ n - 1 # 0 /\ (k # 1 => 1 < k)
      BY <1>1, <2>2
    <3> QED
      BY <1>2, <1>3, <1>4, <2>2, <3>1
  <2> QED
    BY <2>1, <2>2
<1>9. tl2 = IF n - 1 = 0 THEN None ELSE M[n - 1]
  <2>1. CASE n = 1
    BY <1>1, <1>4, <2>1
  <2>2. CASE n # 1
    <3>1. /\ n - 1 \in 1..(n - 1) /\ n # 0 /\ n - 1 # 0 /\ (k = n => n - 1 < k)
          /\ (k # n => ~(n - 1 < k)) /\ (n - 1) + 1 = n
      BY <1>1, <2>2
    <3> QED
      BY <1>2, <1>3, <1>4, <2>2, <3>1
  <2> QED
    BY <2>1, <2>2
<1>10. Chain(M, nx2, h2)
  BY <1>2, <1>5, <1>6, <1>8 DEF Chain
<1>11. Back(M, pv2, tl2)
  BY <1>2, <1>7, <1>9 DEF Back
<1> QED
  BY <1>10, <1>11 DEF M

-----------------------------------------------------------------------------
(* The invariant.                                                          *)

Vals(L, val) == {val[L[i]] : i \in 1..Len(L)}

\* The pointers make a chain of the nodes L, whose values are different comets.
Holds(L) ==
    /\ Chain(L, next, head) /\ Back(L, prev, tail) /\ count = Len(L)
    /\ \A i \in 1..Len(L) : L[i] \in used /\ value[L[i]] \in Comets
    /\ \A i, j \in 1..Len(L) : value[L[i]] = value[L[j]] => i = j

\* How the values E of the list and the comets that were read compare, in each
\* part of a round.
Round(E) ==
    /\ upc = "visit" => preRetrain \subseteq E
    /\ upc = "remove" => preRetrain \subseteq E /\ total = E \ preRetrain
    /\ upc = "wait" => E = preRetrain

ListTypes ==
    /\ used \subseteq Nodes
    /\ prev \in [Nodes -> Link] /\ next \in [Nodes -> Link]
    /\ value \in [Nodes -> Comets \cup {None}]
    /\ head \in Link /\ tail \in Link /\ count \in 0..Cardinality(Nodes)

\* A node that was not allocated leads nowhere.
Blank == \A n \in Nodes : n \notin used => next[n] = None

QInv ==
    /\ TypeOK /\ Blank
    /\ spc = "advance" => cursor # None
    /\ \E L : Holds(L) /\ Round(Vals(L, value))

\* What the model's operators make of a chain.
LEMMA OfChain ==
    ASSUME NEW L, Chain(L, next, head)
    PROVE  /\ List = L /\ Elements = Vals(L, value)
           /\ Items = [i \in 1..Len(L) |-> value[L[i]]]
<1>1. List = ListOf(next, head)
  BY DEF List, ListOf
<1>2. List = L
  BY <1>1, ListIsChain
<1> QED
  BY <1>2 DEF Elements, Items, Vals

\* The same after a step.
LEMMA OfChainPrimed ==
    ASSUME NEW L, Chain(L, next', head')
    PROVE  /\ List' = L /\ Elements' = Vals(L, value')
           /\ Items' = [i \in 1..Len(L) |-> value'[L[i]]]
<1>1. List' = ListOf(next', head')
  BY DEF List, ListOf
<1>2. List' = L
  BY <1>1, ListIsChain
<1> QED
  BY <1>2 DEF Elements, Items, Vals

\* unlink of a node of the chain, be it the first, the last or another one.
LEMMA UnlinkStep ==
    ASSUME TypeOK, NEW L, Holds(L), NEW k \in 1..Len(L), Unlink(L[k])
    PROVE  /\ Chain(Removed(L, k), next', head') /\ Back(Removed(L, k), prev', tail')
           /\ value' = [value EXCEPT ![L[k]] = None] /\ count' = count - 1 /\ used' = used
           /\ next' \in [Nodes -> Link] /\ prev' \in [Nodes -> Link]
           /\ head' \in Link /\ tail' \in Link
           /\ \A m \in Nodes : m \notin used => next'[m] = next[m]
<1> DEFINE n == Len(L)
           x == L[k]
<1>1. /\ n \in Nat /\ n >= 1 /\ k \in 1..n /\ \A i \in 1..n : L[i] \in Nodes /\ L[i] \in used
      /\ head = IF n = 0 THEN None ELSE L[1]
      /\ tail = IF n = 0 THEN None ELSE L[n]
      /\ \A i \in 1..n : next[L[i]] = IF i = n THEN None ELSE L[i + 1]
      /\ \A i \in 1..n : prev[L[i]] = IF i = 1 THEN None ELSE L[i - 1]
  BY DEF Holds, Chain, Back
<1>2. \A i, j \in 1..n : L[i] = L[j] => i = j
  BY DEF Holds, Chain
<1>3. Chain(L, next, head) /\ Back(L, prev, tail)
  BY DEF Holds
<1>4. /\ None \notin Nodes /\ None \in Link /\ \A m \in Nodes : m \in Link
      /\ next \in [Nodes -> Link] /\ prev \in [Nodes -> Link]
      /\ head \in Link /\ tail \in Link /\ UNCHANGED used
  BY NoneAssumption DEF TypeOK, Link, Unlink
<1> HIDE DEF n
<1>5. CASE prev[x] = None /\ UnlinkFirst
  <2>1. k = 1 /\ head = x /\ 1 \in 1..n /\ n # 0
    <3>1. k # 1 => k - 1 \in 1..n
      BY <1>1
    <3>2. k = 1
      BY <1>1, <1>4, <1>5, <3>1
    <3> QED
      BY <1>1, <3>2
  <2>2. /\ value' = [value EXCEPT ![x] = None] /\ next' = [next EXCEPT ![x] = x]
        /\ head' = next[x] /\ count' = count - 1
        /\ \/ next[x] = None /\ tail' = None /\ prev' = prev
           \/ next[x] # None /\ prev' = [prev EXCEPT ![next[x]] = None] /\ tail' = tail
    BY <1>5, <2>1 DEF UnlinkFirst
  <2>3. next[x] = IF n = 1 THEN None ELSE L[2]
    BY <1>1, <2>1
  <2>4. n # 1 => 2 \in 1..n
    BY <1>1
  <2>5. /\ next' \in [Nodes -> Link] /\ prev' \in [Nodes -> Link]
        /\ head' \in Link /\ tail' \in Link
    BY <1>1, <1>4, <2>1, <2>2
  <2>6. /\ head' = IF k # 1 THEN head ELSE IF n = 1 THEN None ELSE L[2]
        /\ tail' = IF k # n THEN tail ELSE IF n = 1 THEN None ELSE L[n - 1]
    BY <1>1, <1>4, <2>1, <2>2, <2>3, <2>4
  <2>7. ASSUME NEW i \in 1..n, i # k
        PROVE  next'[L[i]] = IF i = k - 1 THEN next[L[k]] ELSE next[L[i]]
    <3>1. L[i] # x /\ i # k - 1
      BY <1>1, <1>2, <2>1, <2>7
    <3> QED
      BY <1>1, <1>4, <2>2, <3>1
  <2>8. ASSUME NEW i \in 1..n, i # k
        PROVE  prev'[L[i]] = IF i = k + 1 THEN prev[L[k]] ELSE prev[L[i]]
    <3>1. n # 1 /\ next[x] = L[2] /\ next[x] # None /\ k + 1 = 2
      BY <1>1, <1>4, <2>1, <2>3, <2>4, <2>8
    <3>2. prev' = [prev EXCEPT ![L[2]] = None]
      BY <2>2, <3>1
    <3>3. L[i] = L[2] <=> i = 2
      BY <1>2, <2>4, <3>1
    <3> QED
      BY <1>1, <1>4, <1>5, <2>4, <3>1, <3>2, <3>3
  <2>9. \A m \in Nodes : m \notin used => next'[m] = next[m]
    BY <1>1, <1>4, <2>2
  <2>10. Chain(Removed(L, k), next', head') /\ Back(Removed(L, k), prev', tail')
    <3>1. Bridges(L, k, next, prev, head, tail, next', prev', head', tail')
      BY <2>6, <2>7, <2>8 DEF Bridges, n
    <3> QED
      BY <1>3, <3>1, RemoveChain
  <2> QED
    BY <1>4, <2>2, <2>5, <2>9, <2>10
<1>6. CASE prev[x] # None /\ next[x] = None /\ UnlinkLast
  <2>1. k = n /\ k # 1 /\ tail = x /\ n # 0 /\ n # 1 /\ n - 1 \in 1..n /\ prev[x] = L[n - 1]
    <3>1. k # n => k + 1 \in 1..n
      BY <1>1
    <3>2. k = n
      BY <1>1, <1>4, <1>6, <3>1
    <3>3. k # 1
      BY <1>1, <1>6
    <3> QED
      BY <1>1, <3>2, <3>3
  <2>2. /\ value' = [value EXCEPT ![x] = None] /\ prev' = [prev EXCEPT ![x] = x]
        /\ tail' = L[n - 1] /\ next' = [next EXCEPT ![L[n - 1]] = None]
        /\ head' = head /\ count' = count - 1
    BY <1>6, <2>1 DEF UnlinkLast
  <2>3. /\ next' \in [Nodes -> Link] /\ prev' \in [Nodes -> Link]
        /\ head' \in Link /\ tail' \in Link
    BY <1>1, <1>4, <2>1, <2>2
  <2>4. /\ head' = IF k # 1 THEN head ELSE IF n = 1 THEN None ELSE L[2]
        /\ tail' = IF k # n THEN tail ELSE IF n = 1 THEN None ELSE L[n - 1]
    BY <2>1, <2>2
  <2>5. ASSUME NEW i \in 1..n, i # k
        PROVE  next'[L[i]] = IF i = k - 1 THEN next[L[k]] ELSE next[L[i]]
    <3>1. L[i] = L[n - 1] <=> i = k - 1
      BY <1>2, <2>1
    <3> QED
      BY <1>1, <1>4, <1>6, <2>1, <2>2, <3>1
  <2>6. ASSUME NEW i \in 1..n, i # k
        PROVE  prev'[L[i]] = IF i = k + 1 THEN prev[L[k]] ELSE prev[L[i]]
    <3>1. L[i] # x /\ i # k + 1
      BY <1>1, <1>2, <2>1, <2>6
    <3> QED
      BY <1>1, <1>4, <2>2, <3>1
  <2>7. \A m \in Nodes : m \notin used => next'[m] = next[m]
    BY <1>1, <1>4, <2>1, <2>2
  <2>8. Chain(Removed(L, k), next', head') /\ Back(Removed(L, k), prev', tail')
    <3>1. Bridges(L, k, next, prev, head, tail, next', prev', head', tail')
      BY <2>4, <2>5, <2>6 DEF Bridges, n
    <3> QED
      BY <1>3, <3>1, RemoveChain
  <2> QED
    BY <1>4, <2>2, <2>3, <2>7, <2>8
<1>7. CASE prev[x] # None /\ next[x] # None /\ UnlinkInner(x)
  <2>1. /\ k # 1 /\ k # n /\ k - 1 \in 1..n /\ k + 1 \in 1..n
        /\ prev[x] = L[k - 1] /\ next[x] = L[k + 1]
    <3>1. k # 1 /\ k # n
      BY <1>1, <1>7
    <3>2. k - 1 \in 1..n /\ k + 1 \in 1..n
      BY <1>1, <3>1
    <3> QED
      BY <1>1, <3>1, <3>2
  <2>2. /\ value' = [value EXCEPT ![x] = None] /\ prev' = [prev EXCEPT ![L[k + 1]] = L[k - 1]]
        /\ next' = [next EXCEPT ![L[k - 1]] = L[k + 1]]
        /\ tail' = tail /\ head' = head /\ count' = count - 1
    BY <1>7, <2>1 DEF UnlinkInner
  <2>3. /\ next' \in [Nodes -> Link] /\ prev' \in [Nodes -> Link]
        /\ head' \in Link /\ tail' \in Link
    BY <1>1, <1>4, <2>1, <2>2
  <2>4. /\ head' = IF k # 1 THEN head ELSE IF n = 1 THEN None ELSE L[2]
        /\ tail' = IF k # n THEN tail ELSE IF n = 1 THEN None ELSE L[n - 1]
    BY <2>1, <2>2
  <2>5. ASSUME NEW i \in 1..n, i # k
        PROVE  next'[L[i]] = IF i = k - 1 THEN next[L[k]] ELSE next[L[i]]
    <3>1. L[i] = L[k - 1] <=> i = k - 1
      BY <1>2, <2>1
    <3> QED
      BY <1>1, <1>4, <2>1, <2>2, <3>1
  <2>6. ASSUME NEW i \in 1..n, i # k
        PROVE  prev'[L[i]] = IF i = k + 1 THEN prev[L[k]] ELSE prev[L[i]]
    <3>1. L[i] = L[k + 1] <=> i = k + 1
      BY <1>2, <2>1
    <3> QED
      BY <1>1, <1>4, <2>1, <2>2, <3>1
  <2>7. \A m \in Nodes : m \notin used => next'[m] = next[m]
    BY <1>1, <1>4, <2>1, <2>2
  <2>8. Chain(Removed(L, k), next', head') /\ Back(Removed(L, k), prev', tail')
    <3>1. Bridges(L, k, next, prev, head, tail, next', prev', head', tail')
      BY <2>4, <2>5, <2>6 DEF Bridges, n
    <3> QED
      BY <1>3, <3>1, RemoveChain
  <2> QED
    BY <1>4, <2>2, <2>3, <2>7, <2>8
<1> QED
  BY <1>5, <1>6, <1>7 DEF Unlink

\* The values of a chain in their order, what Items makes of it.
Values(L, val) == [i \in 1..Len(L) |-> val[L[i]]]

\* Put of a comet that is not in the list, as the last one.
LEMMA PutStep ==
    ASSUME TypeOK, Blank, NEW L, Holds(L), NEW c \in Comets, c \notin Vals(L, value),
           NEW n \in Nodes, n \notin used, LinkLast(n, c)
    PROVE  /\ ListTypes' /\ Blank'
           /\ \E M : /\ Holds(M)' /\ Vals(M, value') = Vals(L, value) \cup {c}
                     /\ Values(M, value') = Append(Values(L, value), c)
<1> DEFINE M == Append(L, n)
           k == Len(L)
<1>1. n \in Nodes /\ n \notin used
  OBVIOUS
<1>2. /\ used' = used \cup {n} /\ value' = [value EXCEPT ![n] = c]
      /\ prev' = [prev EXCEPT ![n] = tail] /\ tail' = n /\ count' = count + 1
      /\ next' = IF head = None THEN next ELSE [next EXCEPT ![tail] = n]
      /\ head' = IF head = None THEN n ELSE head
  BY DEF LinkLast
<1>3. /\ k \in Nat /\ \A i \in 1..k : L[i] \in Nodes /\ L[i] \in used /\ L[i] # n
      /\ L \in Seq(Nodes) /\ count = k
      /\ head = IF k = 0 THEN None ELSE L[1]
      /\ tail = IF k = 0 THEN None ELSE L[k]
  BY <1>1 DEF Holds, Chain, Back
<1>4. /\ Chain(L, next, head) /\ Back(L, prev, tail) /\ next[n] = None
      /\ next \in [Nodes -> Link] /\ prev \in [Nodes -> Link]
      /\ value \in [Nodes -> Comets \cup {None}] /\ used \subseteq Nodes
      /\ head \in Link /\ tail \in Link
  BY <1>1 DEF Holds, TypeOK, Blank
<1>5. Chain(M, next', head') /\ Back(M, prev', tail')
  <2>1. \A i \in 1..Len(L) : L[i] # n
    BY <1>3
  <2> QED
    BY <1>1, <1>2, <1>4, <2>1, PutChain
<1>6. M \in Seq(Nodes) /\ Len(M) = k + 1 /\ M[k + 1] = n /\ \A i \in 1..k : M[i] = L[i]
  BY <1>1, <1>3
<1>7. k + 1 <= Cardinality(Nodes) /\ Cardinality(Nodes) \in Nat
  BY <1>5, <1>6, ChainFits
<1> HIDE DEF M, k
<1>8. \A i \in 1..(k + 1) : i \in 1..k \/ i = k + 1
  BY <1>3
<1>9. \A i \in 1..k : value'[M[i]] = value[L[i]] /\ value[L[i]] \in Comets /\ value[L[i]] # c
  <2>1. \A i \in 1..k : value[L[i]] \in Comets /\ value[L[i]] # c
    BY DEF Holds, Vals, k
  <2> QED
    BY <1>2, <1>3, <1>4, <1>6, <2>1
<1>10. value'[M[k + 1]] = c
  BY <1>1, <1>2, <1>4, <1>6
<1>11. k + 1 \in 1..(k + 1) /\ \A i \in 1..k : i \in 1..(k + 1)
  BY <1>3
<1>12. Vals(M, value') = Vals(L, value) \cup {c}
  <2>1. Vals(M, value') = {value'[M[i]] : i \in 1..(k + 1)}
    BY <1>6 DEF Vals
  <2>2. Vals(L, value) = {value[L[i]] : i \in 1..k}
    BY DEF Vals, k
  <2> QED
    BY <1>8, <1>9, <1>10, <1>11, <2>1, <2>2
<1>13. Values(M, value') = Append(Values(L, value), c)
  <2> DEFINE a == Values(L, value)
             b == Values(M, value')
  <2>1. a = [i \in 1..k |-> value[L[i]]]
    BY DEF Values, k
  <2>2. b = [i \in 1..(k + 1) |-> value'[M[i]]]
    BY <1>6 DEF Values
  <2> HIDE DEF a, b
  <2>3. a \in Seq(Comets) /\ Len(a) = k /\ \A i \in 1..k : a[i] = value[L[i]]
    BY <1>3, <1>9, <2>1
  <2>4. /\ Append(a, c) \in Seq(Comets) /\ Len(Append(a, c)) = k + 1
        /\ Append(a, c)[k + 1] = c /\ \A i \in 1..k : Append(a, c)[i] = a[i]
    BY <2>3
  <2>5. \A i \in 1..(k + 1) : b[i] = Append(a, c)[i] /\ b[i] \in Comets
    BY <1>8, <1>9, <1>10, <2>2, <2>3, <2>4
  <2>6. b \in Seq(Comets) /\ Len(b) = k + 1
    BY <1>3, <2>2, <2>5, SMTT(30)
  <2>7. b = Append(a, c)
    BY <2>4, <2>5, <2>6
  <2> QED
    BY <2>7 DEF a, b
<1>14. Holds(M)'
  <2>1. \A i \in 1..Len(M) : M[i] \in used' /\ value'[M[i]] \in Comets
    BY <1>2, <1>3, <1>6, <1>8, <1>9, <1>10, SMTT(30)
  <2>2. \A i, j \in 1..k : value[L[i]] = value[L[j]] => i = j
    BY DEF Holds, k
  <2>3. \A i, j \in 1..Len(M) : value'[M[i]] = value'[M[j]] => i = j
    BY <1>6, <1>8, <1>9, <1>10, <2>2
  <2>4. count' = Len(M)
    BY <1>2, <1>3, <1>6
  <2> QED
    BY <1>5, <2>1, <2>3, <2>4 DEF Holds
<1>15. ListTypes'
  <2>1. n \in Link /\ \A m \in Nodes : m \in Link
    BY <1>1 DEF Link
  <2>2. count' \in 0..Cardinality(Nodes)
    BY <1>2, <1>3, <1>7
  <2>3. /\ prev' \in [Nodes -> Link] /\ next' \in [Nodes -> Link]
        /\ value' \in [Nodes -> Comets \cup {None}] /\ used' \subseteq Nodes
        /\ head' \in Link /\ tail' \in Link
    BY <1>1, <1>2, <1>4, <2>1
  <2> QED
    BY <2>2, <2>3 DEF ListTypes
<1>16. Blank'
  <2> SUFFICES ASSUME NEW m \in Nodes, m \notin used' PROVE next'[m] = None
    BY DEF Blank
  <2>1. next[m] = None /\ m \notin used
    BY <1>2 DEF Blank
  <2>2. head # None => m # tail
    <3>1. head # None => k \in 1..k /\ k # 0
      BY <1>3
    <3> QED
      BY <1>3, <2>1, <3>1
  <2> QED
    BY <1>2, <1>4, <2>1, <2>2
<1> QED
  BY <1>12, <1>13, <1>14, <1>15, <1>16

\* Remove of a comet that is in the list.
LEMMA RemoveStep ==
    ASSUME TypeOK, Blank, NEW L, Holds(L), NEW k \in 1..Len(L), Unlink(L[k])
    PROVE  /\ ListTypes' /\ Blank'
           /\ \E M : /\ Holds(M)' /\ Vals(M, value') = Vals(L, value) \ {value[L[k]]}
                     /\ Values(M, value') = Removed(Values(L, value), k)
<1> DEFINE M == Removed(L, k)
           n == Len(L)
<1>1. /\ n \in Nat /\ k \in 1..n /\ L \in Seq(Nodes) /\ count = n
      /\ \A i \in 1..n : L[i] \in Nodes /\ L[i] \in used /\ value[L[i]] \in Comets
      /\ \A i, j \in 1..n : L[i] = L[j] => i = j
  BY DEF Holds, Chain
<1>2. \A i, j \in 1..n : value[L[i]] = value[L[j]] => i = j
  BY DEF Holds
<1>3. /\ Chain(M, next', head') /\ Back(M, prev', tail')
      /\ value' = [value EXCEPT ![L[k]] = None] /\ count' = count - 1 /\ used' = used
      /\ next' \in [Nodes -> Link] /\ prev' \in [Nodes -> Link]
      /\ head' \in Link /\ tail' \in Link
      /\ \A m \in Nodes : m \notin used => next'[m] = next[m]
  BY UnlinkStep
<1>4. /\ M \in Seq(Nodes) /\ Len(M) = n - 1
      /\ \A i \in 1..(n - 1) : M[i] = IF i < k THEN L[i] ELSE L[i + 1]
  BY <1>1, RemovedElements
<1>5. n <= Cardinality(Nodes) /\ Cardinality(Nodes) \in Nat
  BY ChainFits DEF Holds
<1>6. value \in [Nodes -> Comets \cup {None}] /\ used \subseteq Nodes
  BY DEF TypeOK
<1> HIDE DEF M, n
<1> DEFINE At(i) == IF i < k THEN i ELSE i + 1
<1>7. ASSUME NEW i \in 1..(n - 1)
      PROVE  At(i) \in 1..n /\ At(i) # k /\ M[i] = L[At(i)]
  <2>1. At(i) \in 1..n /\ At(i) # k
    BY <1>1
  <2>2. M[i] = L[At(i)]
    BY <1>4
  <2> QED
    BY <2>1, <2>2
<1>8. ASSUME NEW i \in 1..(n - 1), NEW j \in 1..(n - 1), At(i) = At(j) PROVE i = j
  BY <1>1, <1>8
<1>9. ASSUME NEW p \in 1..n, p # k PROVE \E i \in 1..(n - 1) : At(i) = p
  <2>1. CASE p < k
    <3>1. p \in 1..(n - 1)
      BY <1>1, <2>1
    <3> QED
      BY <2>1, <3>1
  <2>2. CASE p > k
    <3>1. p - 1 \in 1..(n - 1) /\ ~(p - 1 < k) /\ (p - 1) + 1 = p
      BY <1>1, <2>2
    <3> QED
      BY <3>1
  <2> QED
    BY <1>1, <1>9, <2>1, <2>2
<1> HIDE DEF At
<1>10. ASSUME NEW i \in 1..(n - 1)
       PROVE  value'[M[i]] = value[L[At(i)]] /\ M[i] \in used' /\ value'[M[i]] \in Comets
  <2>1. L[At(i)] # L[k]
    BY <1>1, <1>7
  <2> QED
    BY <1>1, <1>3, <1>6, <1>7, <2>1
<1>11. Vals(M, value') = Vals(L, value) \ {value[L[k]]}
  <2>1. Vals(M, value') = {value'[M[i]] : i \in 1..(n - 1)}
    BY <1>4 DEF Vals
  <2>2. Vals(L, value) = {value[L[i]] : i \in 1..n}
    BY DEF Vals, n
  <2>3. ASSUME NEW i \in 1..(n - 1)
        PROVE  value'[M[i]] \in Vals(L, value) /\ value'[M[i]] # value[L[k]]
    BY <1>1, <1>2, <1>7, <1>10, <2>2, SMTT(30)
  <2>4. ASSUME NEW p \in 1..n, value[L[p]] # value[L[k]] PROVE value[L[p]] \in Vals(M, value')
    <3>1. PICK i \in 1..(n - 1) : At(i) = p
      BY <1>9, <2>4
    <3> QED
      BY <1>10, <2>1, <3>1
  <2> QED
    BY <2>1, <2>2, <2>3, <2>4
<1>12. Values(M, value') = Removed(Values(L, value), k)
  <2> DEFINE a == Values(L, value)
             b == Values(M, value')
  <2>1. a = [i \in 1..n |-> value[L[i]]]
    BY DEF Values, n
  <2>2. b = [i \in 1..(n - 1) |-> value'[M[i]]]
    BY <1>4 DEF Values
  <2> HIDE DEF a, b
  <2>3. a \in Seq(Comets) /\ Len(a) = n /\ \A i \in 1..n : a[i] = value[L[i]]
    BY <1>1, <2>1
  <2>4. /\ Removed(a, k) \in Seq(Comets) /\ Len(Removed(a, k)) = n - 1
        /\ \A i \in 1..(n - 1) : Removed(a, k)[i] = IF i < k THEN a[i] ELSE a[i + 1]
    <3>1. k \in 1..Len(a)
      BY <1>1, <2>3
    <3> QED
      BY <2>3, <3>1, RemovedElements
  <2>5. ASSUME NEW i \in 1..(n - 1) PROVE b[i] = Removed(a, k)[i] /\ b[i] \in Comets
    <3>1. b[i] = value[L[At(i)]] /\ b[i] \in Comets
      BY <1>10, <2>2
    <3>2. Removed(a, k)[i] = a[At(i)]
      BY <2>4 DEF At
    <3> QED
      BY <1>7, <2>3, <3>1, <3>2
  <2>6. b \in Seq(Comets) /\ Len(b) = n - 1
    <3>1. n - 1 \in Nat
      BY <1>1
    <3> QED
      BY <2>2, <2>5, <3>1
  <2>7. b = Removed(a, k)
    BY <2>4, <2>5, <2>6
  <2> QED
    BY <2>7 DEF a, b
<1>13. Holds(M)'
  <2>1. \A i \in 1..Len(M) : M[i] \in used' /\ value'[M[i]] \in Comets
    BY <1>4, <1>10
  <2>2. ASSUME NEW i \in 1..(n - 1), NEW j \in 1..(n - 1), value'[M[i]] = value'[M[j]]
        PROVE  i = j
    <3>1. value[L[At(i)]] = value[L[At(j)]]
      BY <1>10, <2>2
    <3>2. At(i) = At(j)
      BY <1>2, <1>7, <3>1
    <3> QED
      BY <1>8, <3>2
  <2>3. count' = Len(M)
    BY <1>1, <1>3, <1>4
  <2> QED
    BY <1>3, <1>4, <2>1, <2>2, <2>3 DEF Holds
<1>14. ListTypes'
  <2>1. count' \in 0..Cardinality(Nodes)
    BY <1>1, <1>3, <1>5
  <2>2. value' \in [Nodes -> Comets \cup {None}]
    BY <1>3, <1>6
  <2> QED
    BY <1>3, <1>6, <2>1, <2>2 DEF ListTypes
<1>15. Blank'
  BY <1>3 DEF Blank
<1> QED
  BY <1>11, <1>12, <1>13, <1>14, <1>15

-----------------------------------------------------------------------------
(* The steps.                                                              *)

\* The steps that leave the list alone: its types, its chain and its items.
LEMMA ListUnchanged ==
    ASSUME TypeOK, Blank, NEW L, Holds(L), UNCHANGED listVars
    PROVE  ListTypes' /\ Blank' /\ Holds(L)' /\ Vals(L, value') = Vals(L, value) /\ Items' = Items
<1>1. /\ used' = used /\ prev' = prev /\ next' = next /\ value' = value
      /\ head' = head /\ tail' = tail /\ count' = count
  BY DEF listVars
<1>2. ListTypes'
  BY <1>1 DEF TypeOK, ListTypes
<1>3. Blank' /\ Holds(L)' /\ Vals(L, value') = Vals(L, value)
  BY <1>1 DEF Blank, Holds
<1>4. Chain(L, next, head) /\ Chain(L, next', head')
  BY <1>1 DEF Holds
<1> QED
  BY <1>1, <1>2, <1>3, <1>4, OfChain, OfChainPrimed

\* What the step of either goroutine keeps of the types of the other state.
OtherTypes ==
    /\ children \subseteq Comets
    /\ changes \in 0..MaxChanges
    /\ fired \in BOOLEAN
    /\ upc \in {"watch", "visit", "retrain", "remove", "wait"}
    /\ zkNodes \subseteq Comets
    /\ preRetrain \subseteq Comets
    /\ total \subseteq Comets
    /\ cursor \in Link
    /\ spc \in {"read", "again", "advance", "choose"}
    /\ t \in Types \cup {Other, None}
    /\ o \in Comets \cup {None}
    /\ spc = "advance" => cursor # None

\* The invariant, put together from its parts.
LEMMA Together ==
    ASSUME ListTypes', OtherTypes', Blank', NEW M, Holds(M)', Round(Vals(M, value))'
    PROVE  QInv'
<1>1. TypeOK' /\ (spc = "advance" => cursor # None)'
  BY DEF TypeOK, ListTypes, OtherTypes
<1>2. (\E L : Holds(L) /\ Round(Vals(L, value)))'
  OBVIOUS
<1> QED
  BY <1>1, <1>2 DEF QInv

\* ZooKeeper and the steps of the goroutines that do not touch the list keep
\* the types.
LEMMA OtherTypesKept ==
    ASSUME TypeOK, spc = "advance" => cursor # None, NEW L, Holds(L),
           \/ \E c \in Comets : Register(c) \/ VisitChild(c) \/ SkipChild(c) \/ Remove(c)
           \/ ChildrenW \/ Retrain \/ EndRound \/ AwaitEvent
           \/ ReadRequest \/ NextValue \/ NextAdvance \/ Answer
    PROVE  OtherTypes'
<1>1. /\ OtherTypes /\ next \in [Nodes -> Link] /\ head \in Link
      /\ value \in [Nodes -> Comets \cup {None}] /\ MaxChanges \in Nat
  BY MaxChangesAssumption DEF TypeOK, OtherTypes
<1>2. ASSUME NEW c \in Comets, Register(c) PROVE OtherTypes'
  BY <1>1, <1>2 DEF OtherTypes, Register, updVars, srvVars
<1>3. ASSUME NEW c \in Comets, VisitChild(c) \/ SkipChild(c) PROVE OtherTypes'
  BY <1>1, <1>3 DEF OtherTypes, VisitChild, SkipChild, zkVars, srvVars
<1>4. ASSUME NEW c \in Comets, Remove(c) PROVE OtherTypes'
  <2>1. total' = total \ {c} /\ UNCHANGED <<zkVars, upc, zkNodes, preRetrain, cursor, srvVars>>
    BY <1>4 DEF Remove
  <2> QED
    BY <1>1, <2>1 DEF OtherTypes, zkVars, srvVars
<1>5. CASE ChildrenW \/ EndRound \/ AwaitEvent
  BY <1>1, <1>5 DEF OtherTypes, ChildrenW, EndRound, AwaitEvent, zkVars, srvVars
<1>6. CASE Retrain
  <2>1. Elements \subseteq Comets
    <3>1. Elements = Vals(L, value)
      BY OfChain DEF Holds
    <3> QED
      BY <3>1 DEF Vals, Holds
  <2>2. /\ upc' = "remove" /\ total' \subseteq Comets
        /\ UNCHANGED <<zkVars, zkNodes, preRetrain, cursor, srvVars>>
    BY <1>6, <2>1 DEF Retrain
  <2> QED
    BY <1>1, <2>2 DEF OtherTypes, zkVars, srvVars
<1>7. CASE ReadRequest
  BY <1>1, <1>7 DEF OtherTypes, ReadRequest, zkVars, updVars
<1>8. CASE NextValue
  <2>1. cursor \in Nodes => value[cursor] \in Comets \cup {None}
    BY <1>1
  <2>2. head \in Nodes => value[head] \in Comets \cup {None}
    BY <1>1
  <2>3. /\ cursor' \in Link /\ o' \in Comets \cup {None} /\ spc' \in {"choose", "advance"}
        /\ spc' = "advance" => cursor' # None
    BY <1>1, <1>8, <2>1, <2>2 DEF NextValue, Link, OtherTypes
  <2> QED
    BY <1>1, <1>8, <2>3 DEF NextValue, OtherTypes, zkVars, updVars
<1>9. CASE NextAdvance
  <2>1. cursor \in Nodes
    BY <1>1, <1>9 DEF NextAdvance, OtherTypes, Link
  <2> QED
    BY <1>1, <1>9, <2>1 DEF NextAdvance, OtherTypes, zkVars, updVars
<1>10. CASE Answer
  BY <1>1, <1>10 DEF Answer, OtherTypes, zkVars, updVars
<1> QED
  BY <1>2, <1>3, <1>4, <1>5, <1>6, <1>7, <1>8, <1>9, <1>10

\* A step of the queue's promise, or none.
FifoStep == UNCHANGED Items \/ Fifo!Next

\* Every step keeps the invariant, and is one of the promised sequence.
LEMMA StepKept ==
    ASSUME QInv, [Next]_vars
    PROVE  QInv' /\ FifoStep
<1>1. /\ TypeOK /\ Blank /\ (spc = "advance" => cursor # None)
      /\ \E L : Holds(L) /\ Round(Vals(L, value))
  BY DEF QInv
<1>2. PICK L : Holds(L) /\ Round(Vals(L, value))
  BY <1>1
<1>3. Chain(L, next, head) /\ List = L /\ Elements = Vals(L, value) /\ Items = Values(L, value)
  <2>1. Chain(L, next, head)
    BY <1>2 DEF Holds
  <2> QED
    BY <2>1, OfChain DEF Values
<1>4. ASSUME UNCHANGED listVars, OtherTypes', Round(Vals(L, value))' PROVE QInv' /\ FifoStep
  <2>1. ListTypes' /\ Blank' /\ Holds(L)' /\ Items' = Items
    BY <1>1, <1>2, <1>4, ListUnchanged
  <2> QED
    BY <1>4, <2>1, Together DEF FifoStep
<1>5. ASSUME UNCHANGED listVars PROVE Vals(L, value') = Vals(L, value)
  BY <1>5 DEF listVars
<1>6. CASE \/ \E c \in Comets : Register(c)
           \/ ReadRequest \/ NextValue \/ NextAdvance \/ Answer
  <2>1. UNCHANGED listVars /\ UNCHANGED updVars
    BY <1>6 DEF Register, ReadRequest, NextValue, NextAdvance, Answer
  <2>2. OtherTypes'
    BY <1>1, <1>2, <1>6, OtherTypesKept
  <2>3. Round(Vals(L, value))'
    BY <1>2, <1>5, <2>1 DEF Round, updVars
  <2> QED
    BY <1>4, <2>1, <2>2, <2>3
<1>7. CASE ChildrenW \/ EndRound \/ AwaitEvent \/ Retrain
  <2>1. UNCHANGED listVars
    BY <1>7 DEF ChildrenW, EndRound, AwaitEvent, Retrain
  <2>2. OtherTypes'
    BY <1>1, <1>2, <1>7, OtherTypesKept
  <2>3. Vals(L, value') = Vals(L, value)
    BY <1>5, <2>1
  <2>4. CASE ChildrenW
    <3>1. upc' = "visit" /\ preRetrain' = {}
      BY <2>4 DEF ChildrenW
    <3> QED
      BY <1>4, <2>1, <2>2, <3>1 DEF Round
  <2>5. CASE AwaitEvent
    <3>1. upc' = "watch"
      BY <2>5 DEF AwaitEvent
    <3> QED
      BY <1>4, <2>1, <2>2, <3>1 DEF Round
  <2>6. CASE EndRound
    <3>1. upc = "remove" /\ total = {} /\ upc' = "wait" /\ preRetrain' = preRetrain
      BY <2>6 DEF EndRound
    <3>2. Vals(L, value) = preRetrain
      BY <1>2, <3>1 DEF Round
    <3>3. Vals(L, value') = preRetrain'
      BY <2>3, <3>1, <3>2
    <3> QED
      BY <1>4, <2>1, <2>2, <3>1, <3>3 DEF Round
  <2>7. CASE Retrain
    <3>1. /\ upc = "visit" /\ upc' = "remove" /\ total' = Vals(L, value) \ preRetrain
          /\ preRetrain' = preRetrain
      BY <1>3, <2>7 DEF Retrain
    <3>2. preRetrain' \subseteq Vals(L, value') /\ total' = Vals(L, value') \ preRetrain'
      BY <1>2, <2>3, <3>1 DEF Round
    <3> QED
      BY <1>4, <2>1, <2>2, <3>1, <3>2 DEF Round
  <2> QED
    BY <1>7, <2>4, <2>5, <2>6, <2>7
<1>8. ASSUME NEW c \in Comets, SkipChild(c) PROVE QInv' /\ FifoStep
  <2>1. UNCHANGED listVars /\ upc' = upc /\ preRetrain' = preRetrain /\ total' = total
    BY <1>8 DEF SkipChild
  <2>2. OtherTypes'
    BY <1>1, <1>2, <1>8, OtherTypesKept
  <2>3. Round(Vals(L, value))'
    BY <1>2, <1>5, <2>1 DEF Round
  <2> QED
    BY <1>4, <2>1, <2>2, <2>3
<1>9. ASSUME NEW c \in Comets, VisitChild(c) PROVE QInv' /\ FifoStep
  <2>1. /\ upc = "visit" /\ upc' = "visit" /\ preRetrain' = preRetrain \cup {c}
        /\ preRetrain \subseteq Vals(L, value)
    BY <1>2, <1>9 DEF VisitChild, Round
  <2>2. OtherTypes'
    BY <1>1, <1>2, <1>9, OtherTypesKept
  <2>3. CASE c \in Vals(L, value)
    <3>1. UNCHANGED listVars
      BY <1>3, <1>9, <2>3 DEF VisitChild, InList
    <3>2. preRetrain' \subseteq Vals(L, value')
      BY <1>5, <2>1, <2>3, <3>1
    <3> QED
      BY <1>4, <2>1, <2>2, <3>1, <3>2 DEF Round
  <2>4. CASE c \notin Vals(L, value)
    <3>1. PICK n : n = CHOOSE m \in Nodes : m \notin used
      OBVIOUS
    <3>2. used # Nodes /\ LinkLast(n, c)
      BY <1>3, <1>9, <2>4, <3>1 DEF VisitChild, InList
    <3>3. n \in Nodes /\ n \notin used
      BY <1>1, <3>1, <3>2 DEF TypeOK
    <3>4. /\ ListTypes' /\ Blank'
          /\ \E M : /\ Holds(M)' /\ Vals(M, value') = Vals(L, value) \cup {c}
                    /\ Values(M, value') = Append(Values(L, value), c)
      BY <1>1, <1>2, <2>4, <3>2, <3>3, PutStep
    <3>5. PICK M : /\ Holds(M)' /\ Vals(M, value') = Vals(L, value) \cup {c}
                   /\ Values(M, value') = Append(Values(L, value), c)
      BY <3>4
    <3>6. Round(Vals(M, value))'
      BY <2>1, <3>5 DEF Round
    <3>7. Items' = Values(M, value')
      <4>1. Chain(M, next', head')
        BY <3>5 DEF Holds
      <4> QED
        BY <4>1, OfChainPrimed DEF Values
    <3>8. Fifo!Put(c)
      BY <1>3, <3>5, <3>7 DEF Fifo!Put
    <3> QED
      BY <2>2, <3>4, <3>5, <3>6, <3>8, Together DEF FifoStep, Fifo!Next
  <2> QED
    BY <2>3, <2>4
<1>10. ASSUME NEW c \in Comets, Remove(c) PROVE QInv' /\ FifoStep
  <2>1. /\ upc = "remove" /\ upc' = "remove" /\ preRetrain' = preRetrain
        /\ c \in total /\ total' = total \ {c}
        /\ preRetrain \subseteq Vals(L, value) /\ total = Vals(L, value) \ preRetrain
    BY <1>2, <1>10 DEF Remove, Round
  <2>2. OtherTypes'
    BY <1>1, <1>2, <1>10, OtherTypesKept
  <2> DEFINE First(i) == value[L[i]] = c /\ \A j \in 1..(i - 1) : value[L[j]] # c
  <2>3. PICK k : k = CHOOSE i \in 1..Len(L) : First(i)
    OBVIOUS
  <2>4. Unlink(L[k])
    BY <1>3, <1>10, <2>3 DEF Remove
  <2>5. k \in 1..Len(L) /\ value[L[k]] = c
    <3>1. PICK p \in 1..Len(L) : value[L[p]] = c
      BY <2>1 DEF Vals
    <3>2. Len(L) \in Nat /\ \A i, j \in 1..Len(L) : value[L[i]] = value[L[j]] => i = j
      BY <1>2 DEF Holds, Chain
    <3>3. First(p)
      BY <3>1, <3>2
    <3>4. \E i \in 1..Len(L) : First(i)
      BY <3>1, <3>3
    <3>5. k \in 1..Len(L) /\ First(k)
      BY <2>3, <3>4
    <3> QED
      BY <3>5
  <2>6. /\ ListTypes' /\ Blank'
        /\ \E M : /\ Holds(M)' /\ Vals(M, value') = Vals(L, value) \ {value[L[k]]}
                  /\ Values(M, value') = Removed(Values(L, value), k)
    BY <1>1, <1>2, <2>4, <2>5, RemoveStep
  <2>7. PICK M : /\ Holds(M)' /\ Vals(M, value') = Vals(L, value) \ {value[L[k]]}
                 /\ Values(M, value') = Removed(Values(L, value), k)
    BY <2>6
  <2>8. Round(Vals(M, value))'
    <3>1. Vals(M, value') = Vals(L, value) \ {c}
      BY <2>5, <2>7
    <3>2. preRetrain' \subseteq Vals(M, value') /\ total' = Vals(M, value') \ preRetrain'
      BY <2>1, <3>1
    <3> QED
      BY <2>1, <3>2 DEF Round
  <2>9. Items' = Values(M, value')
    <3>1. Chain(M, next', head')
      BY <2>7 DEF Holds
    <3> QED
      BY <3>1, OfChainPrimed DEF Values
  <2>10. Fifo!Remove(k) /\ k \in 1..Len(Items)
    <3>1. Len(Items) = Len(L)
      <4>1. Len(L) \in Nat
        BY <1>3 DEF Chain
      <4> QED
        BY <1>3, <4>1 DEF Values
    <3> QED
      BY <1>3, <2>5, <2>7, <2>9, <3>1 DEF Fifo!Remove, Removed
  <2> QED
    BY <2>2, <2>6, <2>7, <2>8, <2>10, Together DEF FifoStep, Fifo!Next
<1>11. CASE UNCHANGED vars
  <2>1. /\ UNCHANGED listVars /\ UNCHANGED updVars /\ UNCHANGED zkVars /\ UNCHANGED srvVars
        /\ cursor' = cursor
    BY <1>11 DEF vars
  <2>2. OtherTypes'
    BY <1>1, <2>1 DEF TypeOK, OtherTypes, updVars, zkVars, srvVars
  <2>3. Round(Vals(L, value))'
    BY <1>2, <1>5, <2>1 DEF Round, updVars
  <2> QED
    BY <1>4, <2>1, <2>2, <2>3
<1> QED
  BY <1>6, <1>7, <1>8, <1>9, <1>10, <1>11 DEF Next, Update, Serve

\* The empty list, and no step taken.
LEMMA InitKept ==
    ASSUME Init PROVE QInv /\ Items = <<>>
<1> DEFINE L == <<>>
<1>1. L \in Seq(Nodes) /\ Len(L) = 0 /\ 1..Len(L) = {}
  OBVIOUS
<1>2. Chain(L, next, head) /\ Back(L, prev, tail) /\ Holds(L)
  BY <1>1 DEF Init, Chain, Back, Holds
<1>3. Round(Vals(L, value))
  BY DEF Init, Round
<1>4. Cardinality(Nodes) \in Nat
  BY NodesAssumption, FS_CardinalityType
<1>5. TypeOK
  <2>1. changes \in 0..MaxChanges /\ count \in 0..Cardinality(Nodes)
    BY <1>4, MaxChangesAssumption DEF Init
  <2>2. /\ None \in Link /\ prev \in [Nodes -> Link] /\ next \in [Nodes -> Link]
        /\ value \in [Nodes -> Comets \cup {None}]
    BY DEF Init, Link
  <2> QED
    BY <2>1, <2>2 DEF Init, TypeOK
<1>6. Blank /\ (spc = "advance" => cursor # None)
  BY DEF Init, Blank
<1>7. Items = <<>>
  BY <1>1, <1>2, OfChain
<1> QED
  BY <1>2, <1>3, <1>5, <1>6, <1>7 DEF QInv

-----------------------------------------------------------------------------
(* The theorems.                                                           *)

\* The inductive invariant, from which the theorems follow.
LEMMA QInvAlways == Spec => []QInv
<1>1. Init => QInv
  BY InitKept
<1>2. QInv /\ [Next]_vars => QInv'
  BY StepKept
<1> QED
  BY <1>1, <1>2, PTL DEF Spec

\* The types: every pointer leads to a node or nowhere, and count is never
\* below zero or above the nodes there are (UnlinkFirst, UnlinkLast and unlink
\* of common/queue.go subtract one without a test).
THEOREM TypeCorrect == Spec => []TypeOK
<1>1. QInv => TypeOK
  BY DEF QInv
<1> QED
  BY <1>1, QInvAlways, PTL

\* linkLast, unlinkFirst, unlinkLast and unlink (common/queue.go) keep the list
\* doubly linked, for any number of comets and in any order of calls.
THEOREM WellLinkedAlways == Spec => []WellLinked
<1>1. ASSUME QInv PROVE WellLinked
  <2>1. PICK L : Holds(L)
    BY <1>1 DEF QInv
  <2>2. List = L /\ L \in Seq(Nodes) /\ Len(L) \in Nat /\ Len(L) = count
    <3>1. Chain(L, next, head)
      BY <2>1 DEF Holds
    <3> QED
      BY <2>1, <3>1, OfChain DEF Holds, Chain
  <2> DEFINE n == Len(L)
  <2>3. /\ head = IF n = 0 THEN None ELSE L[1]
        /\ tail = IF n = 0 THEN None ELSE L[n]
        /\ \A i \in 1..n : next[L[i]] = IF i = n THEN None ELSE L[i + 1]
        /\ \A i \in 1..n : prev[L[i]] = IF i = 1 THEN None ELSE L[i - 1]
    BY <2>1 DEF Holds, Chain, Back
  <2>4. \A i, j \in 1..n : L[i] = L[j] => i = j
    BY <2>1 DEF Holds, Chain
  <2>5. None \notin Nodes /\ \A i \in 1..n : L[i] \in Nodes
    BY <2>2, NoneAssumption
  <2>6. L # <<>> => n # 0
    BY <2>2
  <2> HIDE DEF n
  <2>7. n \in Nat
    BY <2>2 DEF n
  <2>8. n # 0 => 1 \in 1..n /\ n \in 1..n
    BY <2>7
  <2>9. head = None <=> tail = None
    BY <2>3, <2>5, <2>8
  <2>10. L # <<>> => L[n] = tail /\ next[tail] = None
    BY <2>3, <2>6, <2>8
  <2> QED
    BY <2>2, <2>3, <2>4, <2>9, <2>10 DEF WellLinked, n
<1> QED
  BY <1>1, QInvAlways, PTL

\* No comet is in the queue twice: updatingCometQue asks Contains before Put.
THEOREM EachCometOnceAlways == Spec => []EachCometOnce
<1>1. ASSUME QInv PROVE EachCometOnce
  <2>1. PICK L : Holds(L)
    BY <1>1 DEF QInv
  <2>2. Items = [i \in 1..Len(L) |-> value[L[i]]]
    BY <2>1, OfChain DEF Holds
  <2>3. Len(L) \in Nat /\ \A i, j \in 1..Len(L) : value[L[i]] = value[L[j]] => i = j
    BY <2>1 DEF Holds, Chain
  <2>4. Len(Items) = Len(L)
    BY <2>2, <2>3
  <2> QED
    BY <2>2, <2>3, <2>4 DEF EachCometOnce
<1> QED
  BY <1>1, QInvAlways, PTL

\* After a round of updatingCometQue the queue holds what the round read.
THEOREM QueueIsWhatWasReadAlways == Spec => []QueueIsWhatWasRead
<1>1. ASSUME QInv PROVE QueueIsWhatWasRead
  <2>1. PICK L : Holds(L) /\ Round(Vals(L, value))
    BY <1>1 DEF QInv
  <2>2. Elements = Vals(L, value)
    BY <2>1, OfChain DEF Holds
  <2> QED
    BY <2>1, <2>2 DEF QueueIsWhatWasRead, Round
<1> QED
  BY <1>1, QInvAlways, PTL

\* The linked list of common/queue.go implements the sequence that Put and
\* Remove promise (FifoQueue): it starts empty, and every step appends a
\* comet, takes one out, or leaves the order as it is.
THEOREM ImplementsFifoHolds == Spec => ImplementsFifo
<1>1. Init => Fifo!Init
  BY InitKept DEF Fifo!Init
<1>2. QInv /\ [Next]_vars => [Fifo!Next]_Items
  BY StepKept DEF FifoStep
<1> QED
  BY <1>1, <1>2, QInvAlways, PTL DEF Spec, ImplementsFifo, Fifo!Spec
=============================================================================
