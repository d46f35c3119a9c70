------------------------ MODULE SentinelTable_proofs ------------------------
(***************************************************************************)
(* Proofs about SentinelTable, for any comets and any number of changes    *)
(* and faults: the table of sentinels follows ZooKeeper, and a comet that  *)
(* has a session is registered.                                            *)
(***************************************************************************)
EXTENDS SentinelTable, SequenceTheorems, TLAPS

-----------------------------------------------------------------------------
(* Sequences of events and of paths.                                       *)

Has(s, x) == \E i \in DOMAIN s : s[i] = x

\* The last event that is not one of a path is "has".
EndsInHas(s) ==
    \E i \in DOMAIN s : s[i] = "has" /\ \A j \in DOMAIN s : j > i => s[j] \in Paths

\* What an event appended to the session channel adds.
LEMMA AppendHas ==
    ASSUME NEW S, NEW s \in Seq(S), NEW e \in S
    PROVE  /\ Append(s, e) \in Seq(S)
           /\ \A x : Has(Append(s, e), x) <=> Has(s, x) \/ x = e
           /\ e = "has" => EndsInHas(Append(s, e))
           /\ e \in Paths /\ EndsInHas(s) => EndsInHas(Append(s, e))
<1> DEFINE a == Append(s, e)
           n == Len(s)
<1>1. /\ n \in Nat /\ a \in Seq(S) /\ Len(a) = n + 1 /\ a[n + 1] = e
      /\ DOMAIN s = 1..n /\ DOMAIN a = 1..(n + 1) /\ \A i \in 1..n : a[i] = s[i]
  OBVIOUS
<1> HIDE DEF a, n
<1>2. /\ n + 1 \in 1..(n + 1) /\ \A i \in 1..n : i \in 1..(n + 1) /\ i # n + 1
      /\ \A i \in 1..(n + 1) : i \in 1..n \/ i = n + 1
      /\ \A i \in 1..(n + 1) : ~(i > n + 1)
  BY <1>1
<1>3. ASSUME NEW x PROVE Has(a, x) <=> Has(s, x) \/ x = e
  BY <1>1, <1>2 DEF Has
<1>4. ASSUME e = "has" PROVE EndsInHas(a)
  BY <1>1, <1>2, <1>4 DEF EndsInHas
<1>5. ASSUME e \in Paths, EndsInHas(s) PROVE EndsInHas(a)
  <2>1. PICK i \in 1..n : s[i] = "has" /\ \A j \in 1..n : j > i => s[j] \in Paths
    BY <1>1, <1>5 DEF EndsInHas
  <2>2. a[i] = "has" /\ i \in 1..(n + 1)
    BY <1>1, <1>2, <2>1
  <2>3. ASSUME NEW j \in 1..(n + 1), j > i PROVE a[j] \in Paths
    BY <1>1, <1>2, <1>5, <2>1, <2>3
  <2> QED
    BY <1>1, <2>2, <2>3 DEF EndsInHas
<1> QED
  BY <1>1, <1>3, <1>4, <1>5 DEF a

\* What taking the first event from the channel leaves.
LEMMA TailHas ==
    ASSUME NEW S, NEW s \in Seq(S), s # <<>>
    PROVE  /\ Tail(s) \in Seq(S) /\ Head(s) \in S
           /\ \A x : Has(s, x) <=> Has(Tail(s), x) \/ x = Head(s)
           /\ EndsInHas(s) => \/ EndsInHas(Tail(s))
                              \/ Head(s) = "has" /\ \A x : Has(Tail(s), x) => x \in Paths
<1> DEFINE b == Tail(s)
           n == Len(s)
<1>1. /\ n \in Nat /\ n >= 1 /\ b \in Seq(S) /\ Len(b) = n - 1 /\ Head(s) = s[1] /\ s[1] \in S
      /\ DOMAIN s = 1..n /\ DOMAIN b = 1..(n - 1) /\ \A i \in 1..(n - 1) : b[i] = s[i + 1]
  OBVIOUS
<1> HIDE DEF b, n
<1>2. /\ 1 \in 1..n /\ \A i \in 1..(n - 1) : i + 1 \in 1..n
      /\ \A i \in 1..n : i = 1 \/ (i - 1 \in 1..(n - 1) /\ (i - 1) + 1 = i)
  BY <1>1
<1>3. ASSUME NEW x PROVE Has(s, x) <=> Has(b, x) \/ x = Head(s)
  <2>1. ASSUME Has(s, x) PROVE Has(b, x) \/ x = Head(s)
    <3>1. PICK i \in 1..n : s[i] = x
      BY <1>1, <2>1 DEF Has
    <3>2. CASE i = 1
      BY <1>1, <3>1, <3>2
    <3>3. CASE i # 1
      <4>1. i - 1 \in 1..(n - 1) /\ b[i - 1] = s[i]
        BY <1>1, <1>2, <3>3
      <4> QED
        BY <1>1, <3>1, <4>1 DEF Has
    <3> QED
      BY <3>2, <3>3
  <2>2. ASSUME Has(b, x) \/ x = Head(s) PROVE Has(s, x)
    BY <1>1, <1>2, <2>2 DEF Has
  <2> QED
    BY <2>1, <2>2
<1>4. ASSUME EndsInHas(s), ~EndsInHas(b)
      PROVE  Head(s) = "has" /\ \A x : Has(b, x) => x \in Paths
  <2>1. PICK i \in 1..n : s[i] = "has" /\ \A j \in 1..n : j > i => s[j] \in Paths
    BY <1>1, <1>4 DEF EndsInHas
  <2>2. CASE i # 1
    <3>1. i - 1 \in 1..(n - 1) /\ b[i - 1] = "has"
      BY <1>1, <1>2, <2>1, <2>2
    <3>2. ASSUME NEW j \in 1..(n - 1), j > i - 1 PROVE b[j] \in Paths
      <4>1. j + 1 \in 1..n /\ j + 1 > i
        BY <1>1, <3>2
      <4> QED
        BY <1>1, <2>1, <4>1
    <3> QED
      BY <1>1, <1>4, <3>1, <3>2 DEF EndsInHas
  <2>3. CASE i = 1
    <3>1. ASSUME NEW j \in 1..(n - 1) PROVE b[j] \in Paths
      <4>1. j + 1 \in 1..n /\ j + 1 > i
        BY <1>1, <2>3
      <4> QED
        BY <1>1, <2>1, <4>1
    <3> QED
      BY <1>1, <2>1, <2>3, <3>1 DEF Has
  <2> QED
    BY <2>2, <2>3
<1> QED
  BY <1>1, <1>3, <1>4 DEF b

\* What loop has to do after one path is done.
LEMMA DoneIsTail ==
    ASSUME NEW s \in Seq(Paths), s # <<>> PROVE SubSeq(s, 2, Len(s)) = Tail(s)
<1> DEFINE b == Tail(s)
           d == SubSeq(s, 2, Len(s))
           n == Len(s)
<1>1. /\ n \in Nat /\ n >= 1 /\ b \in Seq(Paths) /\ Len(b) = n - 1
      /\ \A i \in 1..(n - 1) : b[i] = s[i + 1]
  OBVIOUS
<1>2. d \in Seq(Paths) /\ Len(d) = n - 1 /\ \A i \in 1..(n - 1) : d[i] = s[i + 1]
  <2>1. 2 \in Int /\ n \in Int /\ \A i \in 2..n : s[i] \in Paths
    BY <1>1
  <2>2. /\ d \in Seq(Paths) /\ Len(d) = IF 2 <= n THEN n - 2 + 1 ELSE 0
        /\ \A i \in 1..(n - 2 + 1) : d[i] = s[2 + i - 1]
    BY <2>1, SubSeqProperties
  <2> HIDE DEF d, b, n
  <2>3. Len(d) = n - 1
    BY <1>1, <2>2
  <2>4. ASSUME NEW i \in 1..(n - 1) PROVE d[i] = s[i + 1]
    <3>1. i \in 1..(n - 2 + 1) /\ 2 + i - 1 = i + 1
      BY <1>1
    <3> QED
      BY <2>2, <3>1
  <2> QED
    BY <2>2, <2>3, <2>4
<1> HIDE DEF b, d, n
<1>3. b = d
  BY <1>1, <1>2
<1> QED
  BY <1>3 DEF b, d, n

-----------------------------------------------------------------------------
(* The invariant.                                                          *)

States == {"has", "lost", "expired"}
Kind(t) == {c \in Peers : PathOf(c) = t}
Tabled(t) == {c \in Peers : tab[c] = t}

\* The set S is what the nodes of path t are, and a change would be seen.
Sound(t, S) ==
    \/ t \in excuse
    \/ t \in dirty
    \/ t \in watching /\ S = At(t)

Base ==
    /\ host \in {"comet", "push"}
    /\ zkNodes \subseteq Peers /\ dirty \subseteq watching
    /\ tab \in [Peers -> Paths \cup {NoEntry}]

\* An entry has the Type of the path it was listed under.
TabKinds == \A c \in Peers : tab[c] # NoEntry => tab[c] = PathOf(c)

CometTypes ==
    /\ events \in Seq(Paths \cup States)
    /\ cb \in Paths \cup States \cup {Quiet} /\ report \in Paths \cup States \cup {Quiet}
    /\ todo \in Seq(Paths)
    /\ \/ listed = Unlisted
       \/ todo # <<>> /\ \E S \in SUBSET Kind(Head(todo)) : listed = [some |-> TRUE, set |-> S]

\* The paths that loop has yet to list.
Ahead == IF listed = Unlisted THEN todo ELSE Done

Awaited(t) == cb = t \/ report = t \/ Has(events, t) \/ Has(Ahead, t)

\* The nodes that the table has for path t once the listing is used.
Foreseen(t) == IF listed # Unlisted /\ Head(todo) = t THEN listed.set ELSE Tabled(t)

CometFollows == \A t \in Paths : Awaited(t) \/ Sound(t, Foreseen(t))

\* The comet has a node to report to, or a Create failed.
Settled == cometPath # {} \/ "own" \in excuse

\* A comet that has a session registers, or has done so.
Registers ==
    session = "has" =>
        \/ EndsInHas(events)
        \/ /\ zkConnOk /\ \A e \in States : ~Has(events, e)
           /\ \/ cb = "has"
              \/ /\ cb \notin States
                 /\ \/ report = "has"
                    \/ report \notin States /\ Settled

\* The nodes to report to are there, or the news that they went is on its way.
Reporting ==
    cometPath \subseteq own \/ cb = "expired" \/ report = "expired" \/ Has(events, "expired")

CometInv == CometTypes /\ TabKinds /\ CometFollows /\ Registers /\ Reporting

Chan == [path : Paths \cup {"-"}, fired : BOOLEAN]

PushTypes ==
    /\ pc \in [Paths -> InRound \cup {"list", "wait"}]
    /\ watch \in Chan /\ ref \in [Paths -> Chan]
    /\ nodes \in [path : Paths, set : SUBSET Peers] /\ err \in BOOLEAN
    /\ left \in [Paths -> [path : Paths, set : SUBSET Peers]]
    /\ leaves \in [Paths -> SUBSET Peers]
    /\ addr = NoAddr \/ addr \in [of : Peers, short : BOOLEAN]

\* The rounds of the two goroutines do not overlap.
Alone == \A t \in Paths : pc[t] \in InRound => pc[Other(t)] \notin InRound

\* The nodes that goroutine t has listed, less those whose data it did not get.
NodesInHand(t) ==
    CASE pc[t] = "check" -> nodes.set
      [] pc[t] = "get" -> left[t].set \cup leaves[t]
      [] pc[t] = "use" -> left[t].set \cup leaves[t] \cup (IF err THEN {} ELSE {addr.of})
      [] OTHER -> Tabled(t)

\* Goroutine t is in a round whose listing succeeded.
Lists(t) == ~panicked /\ pc[t] \in InRound /\ ~(pc[t] = "check" /\ err)

PushFollows(t) ==
    /\ pc[t] = "wait" => ref[t].path = t /\ (ref[t].fired \/ Sound(t, Tabled(t)))
    /\ Lists(t) => /\ watch.path = t /\ (watch.fired \/ Sound(t, NodesInHand(t)))
                   /\ NodesInHand(t) \subseteq Kind(t)
                   /\ pc[t] = "check" => nodes.path = t
                   /\ pc[t] \in {"get", "use"} => left[t].path = t

PushInv == ~mixed => TabKinds /\ Alone /\ \A t \in Paths : PushFollows(t)

TInv ==
    /\ Base
    /\ host = "comet" => CometInv
    /\ host = "push" => PushTypes /\ PushInv

-----------------------------------------------------------------------------
(* What the invariant says of the properties.                              *)

\* A table that is sound, or will be, follows ZooKeeper.
LEMMA InvFollows == ASSUME TInv PROVE TableFollowsZk
<1> SUFFICES ASSUME host = "comet" \/ ~mixed, NEW t \in Paths PROVE Follows(t)
  BY DEF TableFollowsZk
<1>1. CASE host = "comet"
  <2>1. CometTypes /\ (Awaited(t) \/ Sound(t, Foreseen(t)))
    BY <1>1 DEF TInv, CometInv, CometFollows
  <2>2. ASSUME todo # <<>>, Has(Done, t) PROVE Has(todo, t)
    BY <2>1, <2>2, DoneIsTail, TailHas DEF CometTypes, Done
  <2>3. CASE Awaited(t)
    <3>1. Has(Ahead, t) => Has(todo, t)
      BY <2>1, <2>2 DEF Ahead, CometTypes
    <3> QED
      BY <1>1, <2>3, <3>1 DEF Awaited, Follows, Coming, Has
  <2>4. CASE Sound(t, Foreseen(t))
    <3>1. CASE Foreseen(t) = Tabled(t)
      BY <2>4, <3>1 DEF Sound, Follows, Coming, Tabled
    <3>2. CASE listed # Unlisted /\ Head(todo) = t
      <4>1. todo \in Seq(Paths) /\ todo # <<>>
        BY <2>1, <3>2 DEF CometTypes
      <4>2. Has(todo, t)
        BY <3>2, <4>1, TailHas
      <4> QED
        BY <1>1, <4>2 DEF Follows, Coming, Has
    <3> QED
      BY <3>1, <3>2 DEF Foreseen
  <2> QED
    BY <2>1, <2>3, <2>4
<1>2. CASE host = "push"
  <2>1. PushFollows(t)
    BY <1>2 DEF TInv, PushInv
  <2> QED
    BY <1>2, <2>1 DEF PushFollows, Sound, Follows, Coming, Tabled
<1> QED
  BY <1>1, <1>2 DEF TInv, Base

\* A comet that has handled all events is registered and reports.
LEMMA InvRegistered == ASSUME TInv PROVE RegisteredAndReporting
<1> SUFFICES ASSUME host = "comet", session = "has", events = <<>>, cb = Quiet, report = Quiet
             PROVE  Settled /\ cometPath \subseteq own
  BY DEF RegisteredAndReporting, Settled
<1>1. \A x : ~Has(events, x)
  BY DEF Has
<1>2. ~EndsInHas(events)
  BY DEF EndsInHas
<1>3. Quiet # "has" /\ Quiet # "expired" /\ Registers /\ Reporting
  BY DEF TInv, CometInv, Quiet
<1> QED
  BY <1>1, <1>2, <1>3 DEF Registers, Reporting

-----------------------------------------------------------------------------
(* The steps of the other comets and of ZooKeeper.                         *)

\* PathOf gives a path, and At only lists nodes of its path.
LEMMA PathFacts ==
    /\ \A c : PathOf(c) \in Paths
    /\ NoEntry \notin Paths /\ Quiet \notin Paths /\ Quiet \notin States
    /\ "own" \notin Paths /\ "-" \notin Paths
    /\ \A t \in Paths : t \notin States /\ Other(t) \in Paths /\ Other(t) # t
    /\ \A t, u \in Paths : t # u => Other(u) = t
  BY DEF PathOf, Paths, NoEntry, Quiet, States, Other

\* A change of a node is seen through the watch, or nobody relied on it.
LEMMA NodeSound ==
    ASSUME NEW c \in Peers, NodeChanges(c), NEW t \in Paths, NEW S, Sound(t, S)
    PROVE  Sound(t, S)'
<1>1. /\ zkNodes' = zkNodes \cup {c} \/ zkNodes' = zkNodes \ {c}
      /\ dirty' = dirty \cup (watching \cap {PathOf(c)})
      /\ watching' = watching /\ excuse' = excuse
  BY DEF NodeChanges, Dirtied
<1>2. CASE t = PathOf(c)
  BY <1>1, <1>2 DEF Sound
<1>3. CASE t # PathOf(c)
  <2>1. At(t)' = At(t)
    BY <1>1, <1>3 DEF At, PathOf
  <2> QED
    BY <1>1, <2>1 DEF Sound
<1> QED
  BY <1>2, <1>3

\* Base is kept by every step.
LEMMA BaseKept == ASSUME TInv, [TableNext]_tableVars PROVE Base'
<1> USE DEF TInv
<1>1. ASSUME NEW lvs, NEW t \in Paths, tab' = Updated(lvs, t)
      PROVE  tab' \in [Peers -> Paths \cup {NoEntry}]
  BY <1>1 DEF Updated, Base
<1>2. ASSUME NEW c \in Peers, PeerStarts(c) \/ PeerStops(c) PROVE Base'
  BY <1>2 DEF PeerStarts, PeerStops, Base
<1>3. ASSUME NEW c \in Peers, NodeChanges(c) PROVE Base'
  BY <1>3 DEF NodeChanges, Dirtied, Base
<1>4. ASSUME NEW t \in Paths, WatchFires(t) PROVE Base'
  BY <1>4 DEF WatchFires, Base
<1>5. CASE SessionBegins \/ SessionLost \/ SessionExpires
  BY <1>5 DEF SessionBegins, SessionLost, SessionExpires, Base
<1>6. CASE ListChildren \/ ListFails \/ GetNodeDataFails
  BY <1>6 DEF ListChildren, ListFails, GetNodeDataFails, Base
<1>7. CASE UpdateTable
  <2>1. /\ tab' = Updated(listed.set, Head(todo))
        /\ UNCHANGED <<host, zkNodes, dirty, watching>>
    BY <1>7 DEF UpdateTable, update
  <2>2. todo # <<>> /\ todo \in Seq(Paths)
    BY <1>7 DEF UpdateTable, CometInv, CometTypes, Unlisted
  <2>3. Head(todo) \in Paths
    BY <2>2
  <2> QED
    BY <1>1, <2>1, <2>3 DEF Base
<1>8. CASE onConnStatus \/ Reports \/ LoopHandles
  BY <1>8 DEF onConnStatus, Reports, LoopHandles, zkVars, Base
<1>9. CASE LoopRegisters \/ CreateFails
  BY <1>9 DEF LoopRegisters, CreateFails, Dirtied, Base
<1>10. ASSUME NEW t \in Paths, PushChildrenW(t) \/ PushChildrenWFails(t) PROVE Base'
  BY <1>10 DEF PushChildrenW, PushChildrenWFails, Base
<1>11. ASSUME NEW t \in Paths, CheckErr(t) \/ UseAddr(t) \/ Await(t) \/ Wake(t) PROVE Base'
  BY <1>11 DEF CheckErr, UseAddr, Await, Wake, zkVars, Base
<1>12. ASSUME NEW t \in Paths, GetNodeData(t) PROVE Base'
  BY <1>12 DEF GetNodeData, Base
<1>13. ASSUME NEW t \in Paths, PushUpdate(t) PROVE Base'
  <2>1. tab' = Updated(leaves[t], t) /\ UNCHANGED <<host, zkNodes, dirty, watching>>
    BY <1>13 DEF PushUpdate, update
  <2> QED
    BY <1>1, <2>1 DEF Base
<1>14. CASE UNCHANGED tableVars
  BY <1>14 DEF tableVars, zkVars, Base
<1> QED
  BY <1>2, <1>3, <1>4, <1>5, <1>6, <1>7, <1>8, <1>9, <1>10, <1>11, <1>12, <1>13, <1>14
     DEF TableNext, ZkNext, CometNext, PushNext


\* What loop knows of the paths, as long as neither it nor the table moves.
LEMMA LoopFrame ==
    ASSUME UNCHANGED <<todo, listed>>
    PROVE  /\ Ahead' = Ahead
           /\ UNCHANGED tab => \A t : Foreseen(t)' = Foreseen(t)
           /\ UNCHANGED <<events, cb, report>> => \A t : Awaited(t) => Awaited(t)'
<1>1. Ahead' = Ahead
  BY DEF Ahead, Done
<1>2. UNCHANGED tab => \A t : Foreseen(t)' = Foreseen(t)
  BY DEF Foreseen, Tabled
<1> QED
  BY <1>1, <1>2 DEF Awaited

\* ZooKeeper's steps keep the comet's invariant.
LEMMA CometZk == ASSUME TInv, host = "comet", ZkNext PROVE CometInv'
<1>1. Base /\ CometTypes /\ TabKinds /\ CometFollows /\ Registers /\ Reporting
  BY DEF TInv, CometInv
<1>2. ASSUME UNCHANGED <<cb, report, todo, listed, tab>>, events' \in Seq(Paths \cup States)
      PROVE  CometTypes' /\ TabKinds'
  BY <1>1, <1>2 DEF CometTypes, TabKinds
<1>3. ASSUME NEW c \in Peers, PeerStarts(c) \/ PeerStops(c) PROVE CometInv'
  <2>1. UNCHANGED <<zkNodes, session, watching, dirty, tab, excuse, events, cb, report, zkConnOk,
                    todo, listed, own, created, cometPath>>
    BY <1>3 DEF PeerStarts, PeerStops, cometVars
  <2>2. CometTypes' /\ TabKinds'
    BY <1>1, <1>2, <2>1 DEF CometTypes
  <2>3. ASSUME NEW t \in Paths PROVE (Awaited(t) \/ Sound(t, Foreseen(t)))'
    BY <1>1, <2>1, LoopFrame DEF CometFollows, Sound, At
  <2>4. Registers' /\ Reporting'
    BY <1>1, <2>1 DEF Registers, Reporting, Settled
  <2> QED
    BY <2>2, <2>3, <2>4 DEF CometInv, CometFollows
<1>4. ASSUME NEW c \in Peers, NodeChanges(c) PROVE CometInv'
  <2>1. UNCHANGED <<session, watching, tab, excuse, events, cb, report, zkConnOk,
                    todo, listed, own, created, cometPath>>
    BY <1>4 DEF NodeChanges, cometVars
  <2>2. CometTypes' /\ TabKinds'
    BY <1>1, <1>2, <2>1 DEF CometTypes
  <2>3. ASSUME NEW t \in Paths PROVE (Awaited(t) \/ Sound(t, Foreseen(t)))'
    <3>1. CASE Awaited(t)
      BY <2>1, <3>1, LoopFrame
    <3>2. CASE Sound(t, Foreseen(t))
      <4>1. PICK S : S = Foreseen(t)
        OBVIOUS
      <4>2. Sound(t, S)'
        BY <1>4, <3>2, <4>1, NodeSound
      <4>3. Foreseen(t)' = S
        BY <2>1, <4>1, LoopFrame
      <4> QED
        BY <4>2, <4>3
    <3> QED
      BY <1>1, <3>1, <3>2 DEF CometFollows
  <2>4. Registers' /\ Reporting'
    BY <1>1, <2>1 DEF Registers, Reporting, Settled
  <2> QED
    BY <2>2, <2>3, <2>4 DEF CometInv, CometFollows
<1>5. ASSUME NEW e \in Paths \cup States, events' = Append(events, e),
             UNCHANGED <<cb, report, todo, listed, tab>>
      PROVE  /\ CometTypes' /\ TabKinds'
             /\ \A t \in Paths : Foreseen(t)' = Foreseen(t) /\ (Awaited(t) \/ t = e => Awaited(t)')
             /\ \A x : Has(events', x) <=> Has(events, x) \/ x = e
             /\ e = "has" => EndsInHas(events')
             /\ e \in Paths /\ EndsInHas(events) => EndsInHas(events')
  <2>1. events \in Seq(Paths \cup States)
    BY <1>1 DEF CometTypes
  <2>2. /\ events' \in Seq(Paths \cup States)
        /\ \A x : Has(events', x) <=> Has(events, x) \/ x = e
        /\ e = "has" => EndsInHas(events')
        /\ e \in Paths /\ EndsInHas(events) => EndsInHas(events')
    BY <1>5, <2>1, AppendHas
  <2>3. Ahead' = Ahead /\ \A t : Foreseen(t)' = Foreseen(t)
    BY <1>5, LoopFrame
  <2> QED
    BY <1>2, <1>5, <2>2, <2>3 DEF Awaited
<1>6. ASSUME NEW u \in Paths, WatchFires(u) PROVE CometInv'
  <2>1. /\ events' = Append(events, u) /\ watching' = watching \ {u} /\ dirty' = dirty \ {u}
        /\ UNCHANGED <<zkNodes, session, tab, excuse, cb, report, zkConnOk, todo, listed, own,
                       created, cometPath>>
    BY <1>6 DEF WatchFires, Tell
  <2>2. /\ CometTypes' /\ TabKinds'
        /\ \A t \in Paths : Foreseen(t)' = Foreseen(t) /\ (Awaited(t) \/ t = u => Awaited(t)')
        /\ \A x : Has(events', x) <=> Has(events, x) \/ x = u
        /\ EndsInHas(events) => EndsInHas(events')
    BY <1>5, <2>1
  <2>3. ASSUME NEW t \in Paths PROVE (Awaited(t) \/ Sound(t, Foreseen(t)))'
    BY <1>1, <2>1, <2>2 DEF CometFollows, Sound, At
  <2>4. Registers' /\ Reporting'
    BY <1>1, <2>1, <2>2, PathFacts DEF Registers, Reporting, Settled
  <2> QED
    BY <2>2, <2>3, <2>4 DEF CometInv, CometFollows
<1>7. CASE SessionBegins \/ SessionLost
  <2>1. PICK e \in {"has", "lost"} :
          /\ events' = Append(events, e) /\ session' = e
          /\ UNCHANGED <<zkNodes, watching, dirty, tab, excuse, cb, report, zkConnOk, todo, listed,
                         own, created, cometPath>>
    BY <1>7 DEF SessionBegins, SessionLost, Tell
  <2>2. /\ CometTypes' /\ TabKinds'
        /\ \A t \in Paths : Foreseen(t)' = Foreseen(t) /\ (Awaited(t) => Awaited(t)')
        /\ \A x : Has(events', x) <=> Has(events, x) \/ x = e
        /\ e = "has" => EndsInHas(events')
    BY <1>5, <2>1 DEF States
  <2>3. ASSUME NEW t \in Paths PROVE (Awaited(t) \/ Sound(t, Foreseen(t)))'
    BY <1>1, <2>1, <2>2 DEF CometFollows, Sound, At
  <2>4. Registers' /\ Reporting'
    BY <1>1, <2>1, <2>2 DEF Registers, Reporting
  <2> QED
    BY <2>2, <2>3, <2>4 DEF CometInv, CometFollows
<1>8. CASE SessionExpires
  <2>1. /\ events' = Append(events, "expired") /\ session' = "none" /\ excuse' = Paths
        /\ UNCHANGED <<tab, cb, report, todo, listed>>
    BY <1>8 DEF SessionExpires, Tell
  <2>2. CometTypes' /\ TabKinds' /\ Has(events', "expired")
    BY <1>5, <2>1 DEF States
  <2>3. CometFollows'
    BY <2>1 DEF CometFollows, Sound
  <2>4. Registers' /\ Reporting'
    BY <2>1, <2>2 DEF Registers, Reporting
  <2> QED
    BY <2>2, <2>3, <2>4 DEF CometInv
<1> QED
  BY <1>3, <1>4, <1>6, <1>7, <1>8 DEF ZkNext


-----------------------------------------------------------------------------
(* The comet's steps.                                                      *)

\* update enters all that was listed and dials, and removes all else.
LEMMA UpdateTabs ==
    ASSUME Base, TabKinds, NEW u \in Paths, NEW S \in SUBSET Kind(u), update(S, u)
    PROVE  /\ TabKinds'
           /\ \A t \in Paths : t # u => Tabled(t)' = Tabled(t) /\ (t \in excuse => t \in excuse')
           /\ u \in excuse => u \in excuse'
           /\ u \in excuse' \/ Tabled(u)' = S
<1>1. /\ tab' = [c \in Peers |->
                  CASE c \in S /\ tab[c] = NoEntry -> IF c \in listening THEN u ELSE NoEntry
                    [] c \notin S /\ tab[c] = u -> NoEntry
                    [] OTHER -> tab[c]]
      /\ excuse' = IF \E c \in S : tab[c] = NoEntry /\ c \notin listening
                   THEN excuse \cup {u} ELSE excuse
  BY DEF update, Updated
<1>2. u # NoEntry /\ \A c \in S : c \in Peers /\ PathOf(c) = u
  BY PathFacts DEF Kind
<1>3. ASSUME NEW c \in Peers
      PROVE  /\ c \in S /\ tab[c] = NoEntry => tab'[c] = IF c \in listening THEN u ELSE NoEntry
             /\ c \in S /\ tab[c] # NoEntry => tab'[c] = tab[c] /\ tab[c] = u
             /\ c \notin S => tab'[c] = IF tab[c] = u THEN NoEntry ELSE tab[c]
  BY <1>1, <1>2 DEF TabKinds
<1>4. TabKinds'
  <2> SUFFICES ASSUME NEW c \in Peers, tab'[c] # NoEntry PROVE tab'[c] = PathOf(c)
    BY DEF TabKinds, PathOf
  <2> QED
    BY <1>2, <1>3 DEF TabKinds
<1>5. ASSUME NEW t \in Paths, t # u PROVE Tabled(t)' = Tabled(t)
  <2>1. ASSUME NEW c \in Peers PROVE tab'[c] = t <=> tab[c] = t
    BY <1>2, <1>3, <1>5, PathFacts
  <2> QED
    BY <2>1 DEF Tabled, Peers
<1>6. ASSUME u \notin excuse' PROVE Tabled(u)' = S
  <2>1. \A c \in S : tab[c] = NoEntry => c \in listening
    BY <1>1, <1>6
  <2>2. ASSUME NEW c \in Peers PROVE tab'[c] = u <=> c \in S
    BY <1>2, <1>3, <2>1
  <2>3. Tabled(u)' = {c \in Peers : tab'[c] = u}
    BY DEF Tabled, Peers
  <2> QED
    BY <1>2, <2>2, <2>3
<1> QED
  BY <1>1, <1>4, <1>5, <1>6

\* The steps of updateMob and updateDev.
LEMMA CometLists ==
    ASSUME TInv, host = "comet", ListChildren \/ ListFails \/ GetNodeDataFails \/ UpdateTable
    PROVE  CometInv'
<1>1. Base /\ CometTypes /\ TabKinds /\ CometFollows /\ Registers /\ Reporting
  BY DEF TInv, CometInv
<1> DEFINE h == Head(todo)
<1>2. todo # <<>> /\ todo \in Seq(Paths)
  BY <1>1 DEF ListChildren, ListFails, GetNodeDataFails, UpdateTable, CometTypes, Unlisted
<1>3. /\ h \in Paths /\ Done \in Seq(Paths)
      /\ \A x : Has(todo, x) <=> Has(Done, x) \/ x = h
  <2>1. /\ Tail(todo) \in Seq(Paths) /\ Head(todo) \in Paths
        /\ \A x : Has(todo, x) <=> Has(Tail(todo), x) \/ x = Head(todo)
    BY <1>2, TailHas
  <2>2. Done = Tail(todo)
    BY <1>2, DoneIsTail DEF Done
  <2> QED
    BY <2>1, <2>2, Zenon
<1>4. UNCHANGED <<zkNodes, session, events, cb, report, zkConnOk, own, created, cometPath>>
  BY DEF ListChildren, ListFails, GetNodeDataFails, UpdateTable, update
<1>5. Reporting'
  BY <1>1, <1>4 DEF Reporting
<1>6. ASSUME "own" \in excuse => "own" \in excuse' PROVE Registers'
  BY <1>1, <1>4, <1>6 DEF Registers, Settled
<1>7. \A t \in Paths : At(t)' = At(t)
  BY <1>4 DEF At, PathOf
<1>8. ASSUME NEW t \in Paths, t # h, Tabled(t)' = Tabled(t),
             t \in excuse => t \in excuse', t \in dirty => t \in dirty',
             t \in watching => t \in watching',
             Has(Ahead, t) => Has(Ahead, t)', Foreseen(t)' = Tabled(t)'
      PROVE  (Awaited(t) \/ Sound(t, Foreseen(t)))'
  <2>1. Foreseen(t) = Tabled(t)
    BY <1>8 DEF Foreseen
  <2> QED
    BY <1>1, <1>4, <1>7, <1>8, <2>1 DEF CometFollows, Awaited, Sound
<1>9. CASE listed = Unlisted
  <2>1. ~UpdateTable /\ ~GetNodeDataFails
    BY <1>9 DEF UpdateTable, GetNodeDataFails, Unlisted
  <2>2. Ahead = todo
    BY <1>9 DEF Ahead
  <2>3. CASE ListChildren
    <3>1. /\ listed' = [some |-> TRUE, set |-> At(h)] /\ watching' = watching \cup {h}
          /\ dirty' = dirty \ {h} /\ excuse' = excuse \ {h} /\ todo' = todo /\ tab' = tab
      BY <2>3 DEF ListChildren
    <3>2. listed' # Unlisted
      BY <3>1 DEF Unlisted
    <3>3. Ahead' = Done /\ \A t : Foreseen(t)' = IF h = t THEN At(h) ELSE Tabled(t)'
      BY <3>1, <3>2 DEF Ahead, Done, Foreseen
    <3>4. \A t : Tabled(t)' = Tabled(t)
      BY <3>1 DEF Tabled, Peers
    <3>5. CometTypes'
      <4>1. At(h) \in SUBSET Kind(Head(todo'))
        BY <1>1, <3>1 DEF At, Kind, Base
      <4> QED
        BY <1>1, <1>2, <1>4, <3>1, <4>1 DEF CometTypes, Kind, Peers, PathOf
    <3>6. ASSUME NEW t \in Paths PROVE (Awaited(t) \/ Sound(t, Foreseen(t)))'
      <4>1. CASE t = h
        BY <1>7, <3>1, <3>3, <4>1 DEF Sound
      <4>2. CASE t # h
        BY <1>3, <1>8, <2>2, <3>1, <3>3, <3>4, <4>2
      <4> QED
        BY <4>1, <4>2
    <3>7. TabKinds' /\ Registers'
      BY <1>1, <1>3, <1>6, <3>1, PathFacts DEF TabKinds, PathOf, Peers
    <3> QED
      BY <1>5, <3>5, <3>6, <3>7 DEF CometInv, CometFollows
  <2>4. CASE ListFails
    <3>1. /\ todo' = Done /\ excuse' = excuse \cup {h}
          /\ UNCHANGED <<listed, watching, dirty, tab>>
      BY <2>4 DEF ListFails
    <3>2. Ahead' = Done /\ \A t : Foreseen(t)' = Tabled(t)' /\ Tabled(t)' = Tabled(t)
      BY <1>9, <3>1 DEF Ahead, Foreseen, Tabled, Peers, Unlisted
    <3>3. CometTypes' /\ TabKinds' /\ Registers'
      BY <1>1, <1>3, <1>4, <1>6, <1>9, <3>1 DEF CometTypes, TabKinds, Unlisted
    <3>4. ASSUME NEW t \in Paths PROVE (Awaited(t) \/ Sound(t, Foreseen(t)))'
      <4>1. CASE t = h
        BY <3>1, <4>1 DEF Sound
      <4>2. CASE t # h
        BY <1>3, <1>8, <2>2, <3>1, <3>2, <4>2
      <4> QED
        BY <4>1, <4>2
    <3> QED
      BY <1>5, <3>3, <3>4 DEF CometInv, CometFollows
  <2> QED
    BY <2>1, <2>3, <2>4
<1>10. CASE listed # Unlisted
  <2>1. PICK S \in SUBSET Kind(h) : listed = [some |-> TRUE, set |-> S]
    BY <1>1, <1>10 DEF CometTypes
  <2>2. ~ListChildren /\ ~ListFails /\ listed.set = S
    BY <2>1 DEF ListChildren, ListFails
  <2>3. todo' = Done /\ listed' = Unlisted /\ UNCHANGED <<watching, dirty>>
    BY <2>2 DEF GetNodeDataFails, UpdateTable
  <2>4. Ahead = Done /\ Ahead' = Done /\ Foreseen(h) = S
    BY <1>10, <2>2, <2>3 DEF Ahead, Foreseen
  <2>5. \A t : Foreseen(t)' = Tabled(t)'
    BY <2>3 DEF Foreseen
  <2>6. CometTypes'
    BY <1>1, <1>3, <1>4, <2>3 DEF CometTypes
  <2>7. CASE GetNodeDataFails
    <3>1. /\ tab' = tab /\ excuse \subseteq excuse'
          /\ h \in excuse' \/ ~(S \subseteq zkNodes)
      BY <2>2, <2>7 DEF GetNodeDataFails
    <3>2. \A t : Tabled(t)' = Tabled(t)
      BY <3>1 DEF Tabled, Peers
    <3>3. ASSUME NEW t \in Paths PROVE (Awaited(t) \/ Sound(t, Foreseen(t)))'
      <4>1. CASE t = h
        <5>1. CASE h \in excuse'
          BY <4>1, <5>1 DEF Sound
        <5>2. CASE ~(S \subseteq zkNodes)
          <6>1. S # At(h)
            BY <5>2 DEF At
          <6>2. Awaited(h) \/ h \in excuse \/ h \in dirty
            BY <1>1, <1>3, <2>4, <6>1 DEF CometFollows, Sound
          <6> QED
            BY <1>4, <2>3, <2>4, <3>1, <4>1, <6>2 DEF Awaited, Sound
        <5> QED
          BY <3>1, <5>1, <5>2
      <4>2. CASE t # h
        BY <1>8, <2>3, <2>4, <2>5, <3>1, <3>2, <4>2
      <4> QED
        BY <4>1, <4>2
    <3>4. TabKinds' /\ Registers'
      BY <1>1, <1>6, <3>1 DEF TabKinds, PathOf, Peers
    <3> QED
      BY <1>5, <2>6, <3>3, <3>4 DEF CometInv, CometFollows
  <2>8. CASE UpdateTable
    <3>1. PICK g : g = h
      OBVIOUS
    <3>2. g \in Paths /\ S \in SUBSET Kind(g) /\ update(S, g)
      BY <1>3, <2>2, <2>8, <3>1 DEF UpdateTable
    <3>3. /\ TabKinds'
          /\ \A t \in Paths : t # g => Tabled(t)' = Tabled(t) /\ (t \in excuse => t \in excuse')
          /\ g \in excuse => g \in excuse'
          /\ g \in excuse' \/ Tabled(g)' = S
      BY <1>1, <3>2, UpdateTabs
    <3>4. Registers'
      BY <1>6, <3>2 DEF update
    <3>5. ASSUME NEW t \in Paths PROVE (Awaited(t) \/ Sound(t, Foreseen(t)))'
      <4>1. CASE t = g
        <5>1. Awaited(g) \/ Sound(g, S)
          BY <1>1, <2>4, <3>1, <3>2 DEF CometFollows
        <5>2. Awaited(g) => Awaited(g)'
          BY <1>4, <2>4 DEF Awaited
        <5>3. Sound(g, S) => Sound(g, Foreseen(g))'
          BY <1>7, <2>3, <2>5, <3>2, <3>3 DEF Sound
        <5> QED
          BY <4>1, <5>1, <5>2, <5>3
      <4>2. CASE t # g
        BY <1>8, <2>3, <2>4, <2>5, <3>1, <3>3, <4>2
      <4> QED
        BY <4>1, <4>2
    <3> QED
      BY <1>5, <2>6, <3>3, <3>4, <3>5 DEF CometInv, CometFollows
  <2> QED
    BY <2>2, <2>7, <2>8
<1> QED
  BY <1>9, <1>10

\* onConnStatus and loop hand the events on.
LEMMA CometEvents ==
    ASSUME TInv, host = "comet",
           onConnStatus \/ Reports \/ LoopHandles \/ LoopRegisters \/ CreateFails
    PROVE  CometInv'
<1>1. Base /\ CometTypes /\ TabKinds /\ CometFollows /\ Registers /\ Reporting
  BY DEF TInv, CometInv
<1>2. UNCHANGED <<zkNodes, session, watching, tab, listed>>
  BY DEF onConnStatus, Reports, LoopHandles, LoopRegisters, CreateFails, zkVars
<1>3. TabKinds'
  BY <1>1, <1>2 DEF TabKinds, PathOf, Peers
<1>4. \A t : Tabled(t)' = Tabled(t) /\ At(t)' = At(t)
  BY <1>2 DEF Tabled, At, Peers, PathOf
<1>5. \A t \in Paths : t # Quiet /\ t \notin States
  BY PathFacts
<1>6. Quiet \notin States /\ Quiet \notin Paths
  BY PathFacts
<1>7. CASE onConnStatus
  <2>1. /\ cb = Quiet /\ events # <<>> /\ cb' = Head(events) /\ events' = Tail(events)
        /\ zkConnOk' = IF Head(events) \in Paths THEN zkConnOk ELSE Head(events) = "has"
        /\ UNCHANGED <<dirty, excuse, report, todo, own, created, cometPath>>
    BY <1>7 DEF onConnStatus, zkVars, OkAfter
  <2>2. /\ events' \in Seq(Paths \cup States) /\ cb' \in Paths \cup States
        /\ \A x : Has(events, x) <=> Has(events', x) \/ x = cb'
        /\ EndsInHas(events) => \/ EndsInHas(events')
                                \/ cb' = "has" /\ \A x : Has(events', x) => x \in Paths
    BY <1>1, <2>1, TailHas DEF CometTypes
  <2>3. CometTypes'
    BY <1>1, <1>2, <2>1, <2>2 DEF CometTypes
  <2>4. ASSUME NEW t \in Paths PROVE (Awaited(t) \/ Sound(t, Foreseen(t)))'
    <3>1. Ahead' = Ahead /\ Foreseen(t)' = Foreseen(t)
      BY <1>2, <2>1, LoopFrame
    <3>2. Awaited(t) => Awaited(t)'
      BY <1>5, <2>1, <2>2, <3>1 DEF Awaited
    <3> QED
      BY <1>1, <1>2, <1>4, <2>1, <3>1, <3>2 DEF CometFollows, Sound
  <2>5. Reporting'
    BY <1>1, <1>6, <2>1, <2>2 DEF Reporting, States
  <2>6. Registers'
    <3>1. CASE session # "has"
      BY <1>2, <3>1 DEF Registers
    <3>2. CASE EndsInHas(events')
      BY <3>2 DEF Registers
    <3>3. CASE cb' = "has" /\ \A x : Has(events', x) => x \in Paths
      <4>1. zkConnOk'
        BY <1>5, <2>1, <3>3 DEF States
      <4> QED
        BY <1>5, <3>3, <4>1 DEF Registers
    <3>4. CASE session = "has" /\ ~EndsInHas(events)
      <4>1. /\ zkConnOk /\ \A e \in States : ~Has(events, e)
            /\ \/ report = "has"
               \/ report \notin States /\ Settled
        BY <1>1, <1>6, <2>1, <3>4 DEF Registers, States
      <4>2. cb' \notin States /\ \A e \in States : ~Has(events', e)
        BY <2>2, <4>1
      <4>3. zkConnOk'
        BY <2>1, <2>2, <4>1, <4>2
      <4> QED
        BY <2>1, <4>1, <4>2, <4>3 DEF Registers, Settled
    <3> QED
      BY <2>2, <3>1, <3>2, <3>3, <3>4
  <2> QED
    BY <1>3, <2>3, <2>4, <2>5, <2>6 DEF CometInv, CometFollows
<1>8. CASE Reports
  <2>1. /\ cb # Quiet /\ report = Quiet /\ report' = cb /\ cb' = Quiet
        /\ UNCHANGED <<dirty, excuse, events, zkConnOk, todo, own, created, cometPath>>
    BY <1>8 DEF Reports, zkVars
  <2>2. CometTypes'
    BY <1>1, <1>2, <2>1 DEF CometTypes
  <2>3. ASSUME NEW t \in Paths PROVE (Awaited(t) \/ Sound(t, Foreseen(t)))'
    <3>1. Ahead' = Ahead /\ Foreseen(t)' = Foreseen(t)
      BY <1>2, <2>1, LoopFrame
    <3>2. Awaited(t) => Awaited(t)'
      BY <1>5, <2>1, <3>1 DEF Awaited
    <3> QED
      BY <1>1, <1>2, <1>4, <2>1, <3>1, <3>2 DEF CometFollows, Sound
  <2>4. Reporting'
    BY <1>1, <1>6, <2>1 DEF Reporting, States
  <2>5. Registers'
    BY <1>1, <1>2, <1>6, <2>1 DEF Registers, Settled, States
  <2> QED
    BY <1>3, <2>2, <2>3, <2>4, <2>5 DEF CometInv, CometFollows
<1>9. CASE LoopHandles
  <2>1. /\ todo = <<>> /\ report # Quiet /\ report # "has" /\ report' = Quiet
        /\ todo' = IF report \in Paths THEN <<report>> ELSE <<>>
        /\ cometPath' = IF report \in {"lost", "expired"} THEN {} ELSE cometPath
        /\ UNCHANGED <<dirty, excuse, events, cb, zkConnOk, own, created>>
    BY <1>9 DEF LoopHandles, zkVars, Forgets
  <2>2. listed = Unlisted
    BY <1>1, <2>1 DEF CometTypes
  <2>3. Ahead' = todo' /\ \A t : Foreseen(t)' = Foreseen(t)
    BY <1>2, <1>4, <2>2 DEF Ahead, Foreseen
  <2>4. CometTypes'
    BY <1>1, <1>2, <2>1, <2>2 DEF CometTypes
  <2>5. report \in Paths => Has(todo', report)
    BY <2>1 DEF Has
  <2>6. \A x : ~Has(Ahead, x)
    BY <2>1, <2>2 DEF Has, Ahead
  <2>7. ASSUME NEW t \in Paths PROVE (Awaited(t) \/ Sound(t, Foreseen(t)))'
    <3>1. Awaited(t) => Awaited(t)'
      BY <2>1, <2>3, <2>5, <2>6 DEF Awaited
    <3> QED
      BY <1>1, <1>2, <1>4, <2>1, <2>3, <3>1 DEF CometFollows, Sound
  <2>8. Reporting'
    BY <1>1, <2>1 DEF Reporting
  <2>9. Registers'
    BY <1>1, <1>2, <1>6, <2>1 DEF Registers, Settled, States
  <2> QED
    BY <1>3, <2>4, <2>7, <2>8, <2>9 DEF CometInv, CometFollows
<1>10. CASE LoopRegisters \/ CreateFails
  <2>1. /\ todo = <<>> /\ report = "has" /\ report' = Quiet
        /\ dirty \subseteq dirty' /\ \A t \in Paths : t \in excuse => t \in excuse'
        /\ UNCHANGED <<events, cb, zkConnOk, todo>>
    BY <1>10, PathFacts DEF LoopRegisters, CreateFails, Dirtied
  <2>2. CometTypes'
    BY <1>1, <1>2, <2>1 DEF CometTypes
  <2>3. ASSUME NEW t \in Paths PROVE (Awaited(t) \/ Sound(t, Foreseen(t)))'
    <3>1. Ahead' = Ahead /\ Foreseen(t)' = Foreseen(t)
      BY <1>2, <2>1, LoopFrame
    <3>2. Awaited(t) => Awaited(t)'
      BY <1>5, <2>1, <3>1 DEF Awaited, States
    <3> QED
      BY <1>1, <1>2, <1>4, <2>1, <3>1, <3>2 DEF CometFollows, Sound
  <2>4. \/ UNCHANGED <<own, cometPath>>
        \/ \E x : own' = own \cup {x} /\ cometPath' = cometPath \cup {x}
    BY <1>10 DEF LoopRegisters, CreateFails
  <2>5. Reporting'
    BY <1>1, <1>6, <2>1, <2>4 DEF Reporting, States
  <2>6. zkConnOk /\ session = "has" => Settled'
    BY <1>10 DEF LoopRegisters, CreateFails, MayCreate, Settled
  <2>7. Registers'
    BY <1>1, <1>2, <1>6, <2>1, <2>6 DEF Registers
  <2> QED
    BY <1>3, <2>2, <2>3, <2>5, <2>7 DEF CometInv, CometFollows
<1> QED
  BY <1>7, <1>8, <1>9, <1>10


-----------------------------------------------------------------------------
(* The push server's steps.                                                *)

\* The channel of a watch on one of ts fires, another stays as it is.
LEMMA FiredChan ==
    ASSUME NEW ch \in Chan, NEW ts
    PROVE  /\ Fired(ch, ts) \in Chan /\ Fired(ch, ts).path = ch.path
           /\ ch.fired => Fired(ch, ts).fired
           /\ ch.path \in ts => Fired(ch, ts).fired
<1>1. CASE ch.path \in ts
  <2>1. Fired(ch, ts) = [ch EXCEPT !.fired = TRUE]
    BY <1>1 DEF Fired
  <2> QED
    BY <2>1 DEF Chan
<1>2. CASE ch.path \notin ts
  BY <1>2 DEF Fired
<1> QED
  BY <1>1, <1>2

\* A step of ZooKeeper keeps what goroutine t relies on, or fires its channel.
LEMMA PushFrame ==
    ASSUME NEW t \in Paths, PushFollows(t),
           pc'[t] = pc[t], UNCHANGED <<nodes, err, addr, left, leaves, panicked, tab>>,
           watch'.path = watch.path, watch.fired => watch'.fired,
           ref'[t].path = ref[t].path, ref[t].fired => ref'[t].fired,
           \A S : Sound(t, S) => \/ Sound(t, S)'
                                 \/ /\ watch.path = t => watch'.fired
                                    /\ ref[t].path = t => ref'[t].fired
    PROVE  PushFollows(t)'
<1>1. Tabled(t)' = Tabled(t) /\ Kind(t)' = Kind(t)
  BY DEF Tabled, Kind, Peers, PathOf
<1>2. NodesInHand(t)' = NodesInHand(t)
  BY <1>1 DEF NodesInHand
<1>3. Lists(t)' = Lists(t)
  BY DEF Lists, InRound
<1>4. PICK S, R : S = Tabled(t) /\ R = NodesInHand(t)
  OBVIOUS
<1>5. ASSUME pc'[t] = "wait" PROVE ref'[t].path = t /\ (ref'[t].fired \/ Sound(t, S)')
  BY <1>4, <1>5 DEF PushFollows
<1>6. ASSUME Lists(t)
      PROVE  watch'.path = t /\ (watch'.fired \/ Sound(t, R)')
  BY <1>4, <1>6 DEF PushFollows
<1>7. pc'[t] = "wait" => ref'[t].path = t /\ (ref'[t].fired \/ Sound(t, Tabled(t))')
  BY <1>1, <1>4, <1>5 DEF Sound
<1>8. Lists(t)' => /\ watch'.path = t /\ (watch'.fired \/ Sound(t, NodesInHand(t))')
                   /\ NodesInHand(t)' \subseteq Kind(t)'
                   /\ pc'[t] = "check" => nodes'.path = t
                   /\ pc'[t] \in {"get", "use"} => left'[t].path = t
  BY <1>1, <1>2, <1>3, <1>4, <1>6 DEF Sound, PushFollows
<1> QED
  BY <1>7, <1>8 DEF PushFollows

\* ZooKeeper's steps keep the push server's invariant.
LEMMA PushZk == ASSUME TInv, host = "push", ZkNext PROVE PushTypes' /\ PushInv'
<1>1. Base /\ PushTypes /\ PushInv
  BY DEF TInv
<1>2. /\ UNCHANGED <<pc, nodes, err, addr, left, leaves, panicked, mixed, tab>>
      /\ excuse' = excuse
  BY DEF ZkNext, PeerStarts, PeerStops, NodeChanges, WatchFires, SessionBegins, SessionLost,
         SessionExpires, pushVars
<1>3. ASSUME watch' \in Chan, ref' \in [Paths -> Chan],
             ~mixed => \A t \in Paths : PushFollows(t)'
      PROVE  PushTypes' /\ PushInv'
  <2>1. PushTypes'
    BY <1>1, <1>2, <1>3 DEF PushTypes, InRound, NoAddr
  <2>2. ~mixed => TabKinds' /\ Alone'
    BY <1>1, <1>2 DEF PushInv, TabKinds, Alone, InRound, Other, Peers, PathOf
  <2> QED
    BY <1>2, <1>3, <2>1, <2>2 DEF PushInv
<1>4. watch \in Chan /\ ref \in [Paths -> Chan] /\ dirty \subseteq watching
  BY <1>1 DEF PushTypes, Base
<1>5. ASSUME NEW c \in Peers, PeerStarts(c) \/ PeerStops(c) PROVE PushTypes' /\ PushInv'
  <2>1. UNCHANGED <<watch, ref, zkNodes, dirty, watching>>
    BY <1>5 DEF PeerStarts, PeerStops, pushVars
  <2>2. ASSUME NEW t, NEW S, Sound(t, S) PROVE Sound(t, S)'
    BY <1>2, <2>1, <2>2 DEF Sound, At, PathOf
  <2>3. ASSUME ~mixed, NEW t \in Paths PROVE PushFollows(t)'
    BY <1>1, <1>2, <2>1, <2>2, <2>3, PushFrame DEF PushInv
  <2> QED
    BY <1>3, <1>4, <2>1, <2>3
<1>6. ASSUME NEW c \in Peers, NodeChanges(c) PROVE PushTypes' /\ PushInv'
  <2>1. UNCHANGED <<watch, ref>>
    BY <1>6 DEF NodeChanges, pushVars
  <2>2. ASSUME NEW t \in Paths, NEW S, Sound(t, S) PROVE Sound(t, S)'
    BY <1>6, <2>2, NodeSound
  <2>3. ASSUME ~mixed, NEW t \in Paths PROVE PushFollows(t)'
    BY <1>1, <1>2, <2>1, <2>2, <2>3, PushFrame DEF PushInv
  <2> QED
    BY <1>3, <1>4, <2>1, <2>3
<1>7. CASE SessionBegins \/ SessionLost
  <2>1. UNCHANGED <<watch, ref, zkNodes, dirty, watching>>
    BY <1>7 DEF SessionBegins, SessionLost, pushVars
  <2>2. ASSUME NEW t, NEW S, Sound(t, S) PROVE Sound(t, S)'
    BY <1>2, <2>1, <2>2 DEF Sound, At, PathOf
  <2>3. ASSUME ~mixed, NEW t \in Paths PROVE PushFollows(t)'
    BY <1>1, <1>2, <2>1, <2>2, <2>3, PushFrame DEF PushInv
  <2> QED
    BY <1>3, <1>4, <2>1, <2>3
<1>8. ASSUME NEW ts, watch' = Fired(watch, ts), ref' = [u \in Paths |-> Fired(ref[u], ts)],
             zkNodes' = zkNodes, \A t \in Paths : t \notin ts =>
                                    /\ t \in dirty => t \in dirty'
                                    /\ t \in watching => t \in watching'
      PROVE  PushTypes' /\ PushInv'
  <2>1. /\ watch' \in Chan /\ watch'.path = watch.path
        /\ watch.fired => watch'.fired
        /\ watch.path \in ts => watch'.fired
    BY <1>4, <1>8, FiredChan
  <2>2. ASSUME NEW t \in Paths
        PROVE  /\ ref'[t] \in Chan /\ ref'[t].path = ref[t].path
               /\ ref[t].fired => ref'[t].fired
               /\ ref[t].path \in ts => ref'[t].fired
    <3>1. ref'[t] = Fired(ref[t], ts) /\ ref[t] \in Chan
      BY <1>4, <1>8
    <3> QED
      BY <3>1, FiredChan
  <2>3. ref' \in [Paths -> Chan]
    BY <1>8, <2>2
  <2>4. ASSUME NEW t \in Paths, NEW S, Sound(t, S)
        PROVE  \/ Sound(t, S)'
               \/ /\ watch.path = t => watch'.fired
                  /\ ref[t].path = t => ref'[t].fired
    <3>1. CASE t \in ts
      BY <2>1, <2>2, <3>1
    <3>2. CASE t \notin ts
      BY <1>2, <1>8, <2>4, <3>2 DEF Sound, At, PathOf
    <3> QED
      BY <3>1, <3>2
  <2>5. ASSUME ~mixed, NEW t \in Paths PROVE PushFollows(t)'
    BY <1>1, <1>2, <2>1, <2>2, <2>4, <2>5, PushFrame DEF PushInv
  <2> QED
    BY <1>3, <2>1, <2>3, <2>5
<1>9. ASSUME NEW u \in Paths, WatchFires(u) PROVE PushTypes' /\ PushInv'
  <2>1. /\ watch' = Fired(watch, {u}) /\ ref' = [v \in Paths |-> Fired(ref[v], {u})]
        /\ zkNodes' = zkNodes /\ watching' = watching \ {u} /\ dirty' = dirty \ {u}
    BY <1>9 DEF WatchFires
  <2> QED
    BY <1>8, <2>1
<1>10. CASE SessionExpires
  <2>1. /\ watch' = Fired(watch, watching) /\ ref' = [v \in Paths |-> Fired(ref[v], watching)]
        /\ zkNodes' = zkNodes
    BY <1>10 DEF SessionExpires
  <2> QED
    BY <1>4, <1>8, <2>1
<1> QED
  BY <1>5, <1>6, <1>7, <1>9, <1>10 DEF ZkNext


\* What goroutine t relies on, while the other one takes a step.
LEMMA PushOther ==
    ASSUME NEW t \in Paths, PushFollows(t), pc[t] \notin InRound, pc'[t] = pc[t],
           ref'[t] = ref[t], Tabled(t)' = Tabled(t), zkNodes' = zkNodes,
           t \in excuse => t \in excuse', t \in dirty => t \in dirty',
           t \in watching => t \in watching'
    PROVE  PushFollows(t)'
<1>1. ~Lists(t)'
  BY DEF Lists, InRound
<1>2. Sound(t, Tabled(t)) => Sound(t, Tabled(t))'
  BY DEF Sound, At, PathOf
<1> QED
  BY <1>1, <1>2 DEF PushFollows

\* The steps of the two goroutines keep the types.
LEMMA PushTypesKept ==
    ASSUME Base, PushTypes, NEW u \in Paths,
           \/ PushChildrenW(u) \/ PushChildrenWFails(u) \/ CheckErr(u) \/ GetNodeData(u)
           \/ UseAddr(u) \/ PushUpdate(u) \/ Await(u) \/ Wake(u)
    PROVE  PushTypes'
<1>1. \A t : At(t) \subseteq Peers
  BY DEF At, Base
<1>2. \A v \in InRound \cup {"list", "wait"} :
          [pc EXCEPT ![u] = v] \in [Paths -> InRound \cup {"list", "wait"}]
  BY DEF PushTypes
<1>3. /\ "check" \in InRound /\ "get" \in InRound /\ "use" \in InRound /\ "await" \in InRound
      /\ NoChan \in Chan /\ [path |-> u, fired |-> FALSE] \in Chan
  BY DEF InRound, NoChan, Chan
<1>4. CASE PushChildrenW(u)
  <2>1. nodes' = [path |-> u, set |-> At(u)] /\ watch' = [path |-> u, fired |-> FALSE]
    BY <1>4 DEF PushChildrenW
  <2>2. nodes' \in [path : Paths, set : SUBSET Peers] /\ watch' \in Chan
    BY <1>1, <1>3, <2>1
  <2>3. pc' \in [Paths -> InRound \cup {"list", "wait"}] /\ err' \in BOOLEAN
    BY <1>2, <1>3, <1>4 DEF PushChildrenW, Goes
  <2> QED
    BY <1>4, <2>2, <2>3 DEF PushChildrenW, PushTypes, NoAddr
<1>5. CASE PushChildrenWFails(u)
  <2>1. nodes' = [path |-> u, set |-> {}] /\ watch' = NoChan
    BY <1>5 DEF PushChildrenWFails
  <2>2. nodes' \in [path : Paths, set : SUBSET Peers] /\ watch' \in Chan
    BY <1>3, <2>1
  <2>3. pc' \in [Paths -> InRound \cup {"list", "wait"}] /\ err' \in BOOLEAN
    BY <1>2, <1>3, <1>5 DEF PushChildrenWFails, Goes
  <2> QED
    BY <1>5, <2>2, <2>3 DEF PushChildrenWFails, PushTypes, NoAddr
<1>6. CASE CheckErr(u)
  <2>1. pc' \in [Paths -> InRound \cup {"list", "wait"}]
    BY <1>2, <1>3, <1>6 DEF CheckErr, Goes
  <2>2. /\ left' \in [Paths -> [path : Paths, set : SUBSET Peers]]
        /\ leaves' \in [Paths -> SUBSET Peers]
    BY <1>6 DEF CheckErr, PushTypes
  <2> QED
    BY <1>6, <2>1, <2>2 DEF CheckErr, PushTypes, NoAddr
<1>7. CASE GetNodeData(u)
  <2>1. pc' \in [Paths -> InRound \cup {"list", "wait"}]
    BY <1>2, <1>3, <1>7 DEF GetNodeData, Goes
  <2>2. PICK c \in left[u].set : left' = [left EXCEPT ![u].set = @ \ {c}]
    BY <1>7 DEF GetNodeData
  <2>3. left' \in [Paths -> [path : Paths, set : SUBSET Peers]]
    BY <2>2 DEF PushTypes
  <2>4. /\ err' \in BOOLEAN
        /\ \/ addr' = NoAddr
           \/ \E d \in Peers : addr' = [of |-> d, short |-> FALSE]
    BY <1>1, <1>7 DEF GetNodeData, Base
  <2>5. addr' = NoAddr \/ addr' \in [of : Peers, short : BOOLEAN]
    <3>1. \A d \in Peers : [of |-> d, short |-> FALSE] \in [of : Peers, short : BOOLEAN]
      OBVIOUS
    <3> QED
      BY <2>4, <3>1
  <2> QED
    BY <1>7, <2>1, <2>3, <2>4, <2>5 DEF GetNodeData, PushTypes, NoAddr
<1>8. CASE UseAddr(u)
  <2>1. pc' \in [Paths -> InRound \cup {"list", "wait"}]
    BY <1>2, <1>3, <1>8 DEF UseAddr, Goes
  <2>2. \/ UNCHANGED <<addr, leaves>>
        \/ /\ addr # NoAddr /\ leaves' = [leaves EXCEPT ![u] = @ \cup {addr.of}]
           /\ addr' = addr \/ addr' = [addr EXCEPT !.short = TRUE]
    BY <1>8 DEF UseAddr
  <2>3. CASE UNCHANGED <<addr, leaves>>
    BY <1>8, <2>1, <2>3 DEF UseAddr, PushTypes, NoAddr
  <2>4. CASE ~UNCHANGED <<addr, leaves>>
    <3>1. addr \in [of : Peers, short : BOOLEAN]
      BY <2>2, <2>4 DEF PushTypes
    <3>2. addr.of \in Peers /\ [addr EXCEPT !.short = TRUE] \in [of : Peers, short : BOOLEAN]
      BY <3>1
    <3>3. leaves' \in [Paths -> SUBSET Peers]
      BY <2>2, <2>4, <3>2 DEF PushTypes
    <3>4. addr' \in [of : Peers, short : BOOLEAN]
      BY <2>2, <2>4, <3>1, <3>2
    <3> QED
      BY <1>8, <2>1, <3>3, <3>4 DEF UseAddr, PushTypes
  <2> QED
    BY <2>3, <2>4
<1>9. CASE PushUpdate(u) \/ Wake(u)
  <2>1. pc' \in [Paths -> InRound \cup {"list", "wait"}]
    BY <1>2, <1>3, <1>9 DEF PushUpdate, Wake, Goes
  <2> QED
    BY <1>9, <2>1 DEF PushUpdate, Wake, PushTypes, NoAddr
<1>10. CASE Await(u)
  <2>1. pc' \in [Paths -> InRound \cup {"list", "wait"}]
    BY <1>2, <1>10 DEF Await, Goes
  <2>2. ref' \in [Paths -> Chan]
    BY <1>10 DEF Await, PushTypes
  <2> QED
    BY <1>10, <2>1, <2>2 DEF Await, PushTypes, NoAddr
<1> QED
  BY <1>4, <1>5, <1>6, <1>7, <1>8, <1>9, <1>10

\* The steps of the two goroutines keep the push server's invariant.
LEMMA PushOwn == ASSUME TInv, PushNext PROVE host = "push" /\ PushTypes' /\ PushInv'
<1>1. PICK u \in Paths :
        \/ PushChildrenW(u) \/ PushChildrenWFails(u) \/ CheckErr(u) \/ GetNodeData(u)
        \/ UseAddr(u) \/ PushUpdate(u) \/ Await(u) \/ Wake(u)
  BY DEF PushNext
<1>2. host = "push" /\ ~panicked /\ UNCHANGED zkNodes
  BY <1>1 DEF PushChildrenW, PushChildrenWFails, CheckErr, GetNodeData, UseAddr, PushUpdate,
              Await, Wake, Runs, zkVars
<1>3. mixed => mixed'
  <2>1. CASE PushChildrenW(u) \/ PushChildrenWFails(u)
    BY <2>1 DEF PushChildrenW, PushChildrenWFails
  <2>2. CASE ~(PushChildrenW(u) \/ PushChildrenWFails(u))
    BY <1>1, <2>2 DEF CheckErr, GetNodeData, UseAddr, PushUpdate, Await, Wake
  <2> QED
    BY <2>1, <2>2
<1>4. Base /\ PushTypes /\ PushInv
  BY <1>2 DEF TInv
<1>5. PushTypes'
  BY <1>1, <1>4, PushTypesKept
<1> SUFFICES ASSUME ~mixed' PROVE TabKinds' /\ Alone' /\ \A t \in Paths : PushFollows(t)'
  BY <1>2, <1>5 DEF PushInv
<1>6. ~mixed /\ TabKinds /\ Alone /\ PushFollows(u)
  BY <1>3, <1>4 DEF PushInv
<1> DEFINE w == Other(u)
<1>7. w \in Paths /\ w # u /\ Other(w) = u /\ \A t \in Paths : t = u \/ t = w
  BY DEF Other, Paths
<1>8. PushFollows(w)
  BY <1>3, <1>4, <1>7 DEF PushInv
<1>9. pc'[w] = pc[w] /\ pc \in [Paths -> InRound \cup {"list", "wait"}]
  BY <1>1, <1>4, <1>7, ZenonT(60)
  DEF PushChildrenW, PushChildrenWFails, CheckErr, GetNodeData, UseAddr, PushUpdate, Await, Wake,
      Goes, PushTypes
<1>10. ASSUME PushFollows(u)', PushFollows(w)', TabKinds', pc[w] \notin InRound
       PROVE  TabKinds' /\ Alone' /\ \A t \in Paths : PushFollows(t)'
  BY <1>7, <1>9, <1>10 DEF Alone, Other, InRound
<1>11. ASSUME ~Wake(u), ref'[w] = ref[w], Tabled(w)' = Tabled(w), w \in excuse => w \in excuse',
              dirty \ {u} \subseteq dirty', watching \subseteq watching'
       PROVE  pc[w] \notin InRound /\ PushFollows(w)'
  <2>1. pc[w] \notin InRound
    <3>1. CASE PushChildrenW(u) \/ PushChildrenWFails(u)
      BY <3>1 DEF PushChildrenW, PushChildrenWFails
    <3>2. CASE ~(PushChildrenW(u) \/ PushChildrenWFails(u))
      <4>1. pc[u] \in InRound
        BY <1>1, <1>11, <3>2 DEF CheckErr, GetNodeData, UseAddr, PushUpdate, Await, Runs, InRound
      <4> QED
        BY <1>6, <1>7, <4>1 DEF Alone
    <3> QED
      BY <3>1, <3>2
  <2> QED
    BY <1>2, <1>7, <1>8, <1>9, <1>11, <2>1, PushOther
<1>12. ASSUME tab' = tab PROVE TabKinds' /\ \A t : Tabled(t)' = Tabled(t)
  BY <1>6, <1>12 DEF TabKinds, Tabled, Peers, PathOf
<1>13. At(u)' = At(u) /\ Kind(u)' = Kind(u)
  BY <1>2 DEF At, Kind, PathOf, Peers
<1>14. CASE PushChildrenW(u)
  <2>1. /\ nodes' = [path |-> u, set |-> At(u)] /\ watch' = [path |-> u, fired |-> FALSE]
        /\ watching' = watching \cup {u} /\ dirty' = dirty \ {u} /\ excuse' = excuse \ {u}
        /\ pc' = [pc EXCEPT ![u] = "check"] /\ tab' = tab /\ ref' = ref
    BY <1>14 DEF PushChildrenW, Goes
  <2>2. pc'[u] = "check"
    BY <1>9, <2>1
  <2>3. NodesInHand(u)' = At(u) /\ At(u) \subseteq Kind(u)
    BY <1>4, <2>1, <2>2 DEF NodesInHand, At, Kind, Base
  <2>4. Sound(u, NodesInHand(u))'
    BY <1>13, <2>1, <2>3 DEF Sound
  <2>5. PushFollows(u)'
    BY <1>13, <2>1, <2>2, <2>3, <2>4 DEF PushFollows
  <2>6. ~Wake(u)
    BY <2>2, <1>9 DEF Wake, Goes
  <2> QED
    BY <1>7, <1>10, <1>11, <1>12, <2>1, <2>5, <2>6
<1>15. CASE PushChildrenWFails(u)
  <2>1. /\ err' = TRUE /\ pc' = [pc EXCEPT ![u] = "check"]
        /\ UNCHANGED <<tab, ref, dirty, watching, excuse>>
    BY <1>15 DEF PushChildrenWFails, Goes
  <2>2. pc'[u] = "check"
    BY <1>9, <2>1
  <2>3. PushFollows(u)'
    BY <2>1, <2>2 DEF PushFollows, Lists
  <2>4. ~Wake(u)
    BY <2>2, <1>9 DEF Wake, Goes
  <2> QED
    BY <1>10, <1>11, <1>12, <2>1, <2>3, <2>4
<1>16. ASSUME pc[u] \in InRound, Lists(u), UNCHANGED <<watch, dirty, watching, excuse, tab>>,
              pc'[u] \in {"get", "use"}, left'[u].path = u, NodesInHand(u)' = NodesInHand(u)
       PROVE  PushFollows(u)'
  <2>1. /\ watch.path = u /\ (watch.fired \/ Sound(u, NodesInHand(u)))
        /\ NodesInHand(u) \subseteq Kind(u)
    BY <1>6, <1>16 DEF PushFollows
  <2>2. Sound(u, NodesInHand(u)) => Sound(u, NodesInHand(u))'
    BY <1>13, <1>16 DEF Sound
  <2> QED
    BY <1>13, <1>16, <2>1, <2>2 DEF PushFollows
<1>17. CASE CheckErr(u)
  <2>1. pc[u] = "check" /\ UNCHANGED <<tab, ref, dirty, watching, excuse, watch>>
    BY <1>17 DEF CheckErr, Runs, zkVars
  <2>2. ~Wake(u)
    BY <2>1 DEF Wake, Runs
  <2>3. CASE err
    <3>1. pc'[u] = "list"
      BY <1>9, <1>17, <2>3 DEF CheckErr, Goes
    <3>2. PushFollows(u)'
      BY <3>1 DEF PushFollows, Lists, InRound
    <3> QED
      BY <1>10, <1>11, <1>12, <2>1, <2>2, <3>2
  <2>4. CASE ~err
    <3>1. pc'[u] = "get" /\ left'[u] = nodes /\ leaves'[u] = {}
      BY <1>4, <1>9, <1>17, <2>4 DEF CheckErr, Goes, PushTypes
    <3>2. Lists(u) /\ pc[u] \in InRound
      BY <1>2, <2>1, <2>4 DEF Lists, InRound
    <3>3. NodesInHand(u)' = NodesInHand(u)
      BY <2>1, <3>1 DEF NodesInHand
    <3>4. left'[u].path = u
      BY <1>6, <2>1, <3>1, <3>2 DEF PushFollows
    <3>5. PushFollows(u)'
      BY <1>16, <2>1, <3>1, <3>2, <3>3, <3>4
    <3> QED
      BY <1>10, <1>11, <1>12, <2>1, <2>2, <3>5
  <2> QED
    BY <2>3, <2>4
<1>18. CASE GetNodeData(u)
  <2>1. /\ pc[u] = "get" /\ pc'[u] = "use"
        /\ UNCHANGED <<tab, ref, dirty, watching, watch, leaves, panicked>>
    BY <1>9, <1>18 DEF GetNodeData, Runs, Goes
  <2>2. Lists(u) /\ ~Wake(u)
    BY <1>2, <2>1 DEF Lists, InRound, Wake, Runs
  <2>3. /\ watch.path = u /\ (watch.fired \/ Sound(u, left[u].set \cup leaves[u]))
        /\ left[u].set \cup leaves[u] \subseteq Kind(u) /\ left[u].path = u
    BY <1>6, <2>1, <2>2 DEF PushFollows, NodesInHand
  <2>4. PICK c \in left[u].set :
          /\ left' = [left EXCEPT ![u].set = @ \ {c}]
          /\ \/ c \in zkNodes /\ addr' = [of |-> c, short |-> FALSE] /\ err' = FALSE /\ excuse' = excuse
             \/ c \notin zkNodes /\ err' = TRUE /\ excuse' = excuse
             \/ err' = TRUE /\ excuse' = excuse \cup {u}
    BY <1>18, <2>3, ZenonT(60) DEF GetNodeData
  <2>5. left'[u].path = u /\ left'[u].set = left[u].set \ {c}
    BY <1>4, <2>3, <2>4 DEF PushTypes
  <2>6. NodesInHand(u)' = (left[u].set \ {c}) \cup leaves[u] \cup (IF err' THEN {} ELSE {addr'.of})
    BY <2>1, <2>5 DEF NodesInHand
  <2>7. CASE c \in zkNodes /\ addr' = [of |-> c, short |-> FALSE] /\ err' = FALSE /\ excuse' = excuse
    <3>1. NodesInHand(u)' = left[u].set \cup leaves[u]
      BY <2>4, <2>6, <2>7
    <3>2. Sound(u, left[u].set \cup leaves[u]) => Sound(u, NodesInHand(u))'
      BY <1>13, <2>1, <2>7, <3>1 DEF Sound
    <3>3. PushFollows(u)'
      BY <1>13, <2>1, <2>3, <2>5, <3>1, <3>2 DEF PushFollows
    <3> QED
      BY <1>10, <1>11, <1>12, <2>1, <2>2, <2>7, <3>3
  <2>8. CASE err' = TRUE /\ (u \in excuse' \/ c \notin zkNodes) /\ excuse \subseteq excuse'
    <3>1. NodesInHand(u)' = (left[u].set \ {c}) \cup leaves[u]
      BY <2>6, <2>8
    <3>2. c \notin zkNodes => left[u].set \cup leaves[u] # At(u)
      BY <2>4 DEF At
    <3>3. Sound(u, left[u].set \cup leaves[u]) => Sound(u, NodesInHand(u))'
      BY <2>1, <2>8, <3>2 DEF Sound
    <3>4. PushFollows(u)'
      BY <1>13, <2>1, <2>3, <2>5, <3>1, <3>3 DEF PushFollows
    <3> QED
      BY <1>10, <1>11, <1>12, <2>1, <2>2, <2>8, <3>4
  <2> QED
    BY <2>4, <2>7, <2>8
<1>19. CASE UseAddr(u)
  <2>1. /\ pc[u] = "use" /\ pc'[u] = "get"
        /\ UNCHANGED <<tab, ref, dirty, watching, excuse, watch, left, err>>
    BY <1>9, <1>19 DEF UseAddr, Runs, Goes, zkVars
  <2>2. Lists(u) /\ pc[u] \in InRound /\ ~Wake(u)
    BY <1>2, <2>1 DEF Lists, InRound, Wake, Runs
  <2>3. left'[u].path = u
    BY <1>6, <2>1, <2>2 DEF PushFollows
  <2>4. \/ panicked'
        \/ err /\ leaves' = leaves
        \/ ~err /\ leaves' = [leaves EXCEPT ![u] = @ \cup {addr.of}]
    BY <1>19 DEF UseAddr
  <2>5. CASE panicked'
    <3>1. PushFollows(u)'
      BY <2>1, <2>5 DEF PushFollows, Lists
    <3> QED
      BY <1>10, <1>11, <1>12, <2>1, <2>2, <3>1
  <2>6. CASE \/ err /\ leaves' = leaves
             \/ ~err /\ leaves' = [leaves EXCEPT ![u] = @ \cup {addr.of}]
    <3>1. NodesInHand(u)' = left[u].set \cup leaves'[u]
      BY <2>1 DEF NodesInHand
    <3>2. leaves'[u] = leaves[u] \cup (IF err THEN {} ELSE {addr.of})
      BY <1>4, <2>6 DEF PushTypes
    <3>3. NodesInHand(u) = left[u].set \cup leaves[u] \cup (IF err THEN {} ELSE {addr.of})
      BY <2>1 DEF NodesInHand
    <3>4. NodesInHand(u)' = NodesInHand(u)
      BY <3>1, <3>2, <3>3
    <3>5. PushFollows(u)'
      BY <1>16, <2>1, <2>2, <2>3, <3>4
    <3> QED
      BY <1>10, <1>11, <1>12, <2>1, <2>2, <3>5
  <2> QED
    BY <2>4, <2>5, <2>6
<1>20. CASE PushUpdate(u)
  <2>1. /\ pc[u] = "get" /\ left[u].set = {} /\ pc'[u] = "await" /\ update(leaves[u], u)
        /\ UNCHANGED <<ref, dirty, watching, watch>>
    BY <1>9, <1>20 DEF PushUpdate, Runs, Goes
  <2>2. Lists(u) /\ ~Wake(u)
    BY <1>2, <2>1 DEF Lists, InRound, Wake, Runs
  <2>3. watch.path = u /\ (watch.fired \/ Sound(u, leaves[u])) /\ leaves[u] \subseteq Kind(u)
    BY <1>6, <2>1, <2>2 DEF PushFollows, NodesInHand
  <2>4. PICK S \in SUBSET Kind(u) : S = leaves[u]
    BY <2>3
  <2>5. /\ TabKinds'
        /\ \A t \in Paths : t # u => Tabled(t)' = Tabled(t) /\ (t \in excuse => t \in excuse')
        /\ u \in excuse => u \in excuse'
        /\ u \in excuse' \/ Tabled(u)' = S
    BY <1>4, <1>6, <2>1, <2>4, UpdateTabs
  <2>6. NodesInHand(u)' = Tabled(u)'
    BY <2>1 DEF NodesInHand
  <2>7. Sound(u, S) => Sound(u, Tabled(u))'
    BY <1>13, <2>1, <2>5 DEF Sound
  <2>8. Tabled(u)' \subseteq Kind(u)'
    BY <2>5, PathFacts DEF Tabled, Kind, TabKinds
  <2>9. PushFollows(u)'
    BY <2>1, <2>3, <2>4, <2>6, <2>7, <2>8 DEF PushFollows, Sound
  <2> QED
    BY <1>7, <1>10, <1>11, <2>1, <2>2, <2>5, <2>9
<1>21. CASE Await(u)
  <2>1. /\ pc[u] = "await" /\ pc'[u] = "wait" /\ ref' = [ref EXCEPT ![u] = watch]
        /\ UNCHANGED <<tab, dirty, watching, excuse, watch>>
    BY <1>9, <1>21 DEF Await, Runs, Goes, zkVars
  <2>2. Lists(u) /\ ~Wake(u)
    BY <1>2, <2>1 DEF Lists, InRound, Wake, Runs
  <2>3. watch.path = u /\ (watch.fired \/ Sound(u, Tabled(u)))
    BY <1>6, <2>1, <2>2 DEF PushFollows, NodesInHand
  <2>4. ref'[u] = watch /\ ref'[w] = ref[w]
    BY <1>4, <1>7, <2>1 DEF PushTypes
  <2>5. Sound(u, Tabled(u)) => Sound(u, Tabled(u))'
    BY <1>12, <1>13, <2>1 DEF Sound
  <2>6. PushFollows(u)'
    BY <2>1, <2>3, <2>4, <2>5 DEF PushFollows, Lists, InRound
  <2> QED
    BY <1>10, <1>11, <1>12, <2>1, <2>2, <2>4, <2>6
<1>22. CASE Wake(u)
  <2>1. /\ pc'[u] = "list"
        /\ UNCHANGED <<zkVars, nodes, watch, err, addr, left, leaves, ref, panicked>>
    BY <1>9, <1>22 DEF Wake, Goes
  <2>2. UNCHANGED <<tab, dirty, watching, excuse>>
    BY <2>1 DEF zkVars
  <2>3. \A S : Sound(w, S) => Sound(w, S)'
    BY <1>2, <2>2 DEF Sound, At, PathOf
  <2>4. PushFollows(w)'
    BY <1>7, <1>8, <1>9, <2>1, <2>2, <2>3, PushFrame
  <2>5. PushFollows(u)'
    BY <2>1 DEF PushFollows, Lists, InRound
  <2>6. Alone'
    BY <1>6, <1>7, <1>9, <2>1 DEF Alone, Other, InRound
  <2> QED
    BY <1>7, <1>12, <2>2, <2>4, <2>5, <2>6
<1> QED
  BY <1>1, <1>14, <1>15, <1>17, <1>18, <1>19, <1>20, <1>21, <1>22

-----------------------------------------------------------------------------
(* The theorems.                                                           *)

\* The inductive invariant, from which the theorems follow.
LEMMA TInvAlways == TableSpec => []TInv
<1>1. ASSUME TableInit PROVE TInv
  <2>1. Base
    BY <1>1, HostsAssumption DEF TableInit, Base
  <2>2. \A c \in Peers : tab[c] = NoEntry
    BY <1>1 DEF TableInit
  <2>3. CometTypes
    BY <1>1 DEF TableInit, CometTypes, Paths
  <2>4. CometFollows
    <3>1. todo = <<"ws", "udp">> /\ listed = Unlisted
      BY <1>1 DEF TableInit
    <3>2. \A t \in Paths : Has(Ahead, t)
      BY <3>1 DEF Ahead, Has, Paths
    <3> QED
      BY <3>2 DEF CometFollows, Awaited
  <2>5. Registers /\ Reporting /\ TabKinds
    BY <1>1, <2>2 DEF TableInit, Registers, Reporting, TabKinds
  <2>6. PushTypes
    <3>1. NoChan \in Chan /\ nodes \in [path : Paths, set : SUBSET Peers]
      BY <1>1 DEF TableInit, NoChan, Chan, Paths
    <3>2. \A t \in Paths : [path |-> t, set |-> {}] \in [path : Paths, set : SUBSET Peers]
      OBVIOUS
    <3>3. left \in [Paths -> [path : Paths, set : SUBSET Peers]]
      BY <1>1, <3>2 DEF TableInit
    <3> QED
      BY <1>1, <3>1, <3>3 DEF TableInit, PushTypes
  <2>7. Alone /\ \A t \in Paths : PushFollows(t)
    BY <1>1 DEF TableInit, Alone, PushFollows, Lists, InRound, Paths, Other
  <2> QED
    BY <2>1, <2>3, <2>4, <2>5, <2>6, <2>7 DEF TInv, CometInv, PushInv
<1>2. ASSUME TInv, [TableNext]_tableVars PROVE TInv'
  <2>1. Base'
    BY <1>2, BaseKept
  <2>2. host' = host /\ host \in {"comet", "push"}
    BY <1>2 DEF TInv, Base, TableNext, ZkNext, PeerStarts, PeerStops, NodeChanges, WatchFires,
                SessionBegins, SessionLost, SessionExpires, CometNext, ListChildren, ListFails,
                GetNodeDataFails, UpdateTable, onConnStatus, Reports, LoopHandles, LoopRegisters,
                CreateFails, PushNext, PushChildrenW, PushChildrenWFails, CheckErr, GetNodeData,
                UseAddr, PushUpdate, Await, Wake, tableVars, zkVars
  <2>3. CASE ZkNext
    BY <1>2, <2>1, <2>2, <2>3, CometZk, PushZk DEF TInv
  <2>4. CASE CometNext
    <3>1. host = "comet"
      BY <2>4 DEF CometNext, ListChildren, ListFails, GetNodeDataFails, UpdateTable, onConnStatus,
                  Reports, LoopHandles, LoopRegisters, CreateFails
    <3>2. CometInv'
      BY <1>2, <2>4, <3>1, CometLists, CometEvents DEF CometNext
    <3> QED
      BY <2>1, <2>2, <3>1, <3>2 DEF TInv
  <2>5. CASE PushNext
    BY <1>2, <2>1, <2>2, <2>5, PushOwn DEF TInv
  <2>6. CASE UNCHANGED tableVars
    <3> USE <2>6 DEF tableVars, zkVars, cometVars, pushVars
    <3>1. CometInv => CometInv'
      BY DEF CometInv, CometTypes, TabKinds, CometFollows, Registers, Reporting, Awaited, Ahead,
             Sound, Foreseen, Settled, Done, At, Tabled
    <3>2. PushTypes => PushTypes'
      BY DEF PushTypes
    <3>3. PushInv => PushInv'
      BY DEF PushInv, TabKinds, Alone, PushFollows, Lists, NodesInHand, Sound, At, Tabled
    <3> QED
      BY <1>2, <2>1, <3>1, <3>2, <3>3 DEF TInv
  <2> QED
    BY <1>2, <2>3, <2>4, <2>5, <2>6 DEF TableNext
<1> QED
  BY <1>1, <1>2, PTL DEF TableSpec

\* The table of sentinels follows ZooKeeper: in a comet (updateMob, updateDev,
\* loop of octopus/srv/zoo.go) always, in the push server (InitZK of
\* octopus/push/zoo.go) as long as the rounds of its two goroutines, which
\* share their variables, have not overlapped.
THEOREM TableFollowsZkAlways == TableSpec => []TableFollowsZk
  BY TInvAlways, InvFollows, PTL

\* A comet that has handled all that its ZooKeeper session told it has a node,
\* unless Create failed, and reports its load only to nodes that exist (loop
\* and onConnStatus of octopus/srv/zoo.go).
THEOREM RegisteredAndReportingAlways == TableSpec => []RegisteredAndReporting
  BY TInvAlways, InvRegistered, PTL
=============================================================================
