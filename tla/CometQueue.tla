----------------------------- MODULE CometQueue -----------------------------
(***************************************************************************)
(* The proxy: devices ask it over UDP for a comet, and it hands out the    *)
(* comets registered in ZooKeeper in turn.                                 *)
(*                                                                         *)
(* Two goroutines share gQueue, a doubly linked list (common/queue.go):    *)
(* UdpCometStat reads the registered comets, adds the new ones and removes *)
(* the ones that are gone (updatingCometQue, Put, Contains, Retrain,       *)
(* Remove), under the list's lock; RunLoop serves one request at a time    *)
(* with ChooseAUDPServer, whose Next moves a cursor along the list under a *)
(* lock of its own, so it runs between and beside the other's steps.       *)
(*                                                                         *)
(* A comet stands for its url, TypeOf for the url's scheme.  Left out: the *)
(* packets, their checksums, Poll (never called), and Put's wait for room  *)
(* in a queue whose capacity is 2^64 - 1.                                  *)
(***************************************************************************)
EXTENDS Naturals, Sequences, FiniteSets

CONSTANTS
    Comets,         \* comets that may register
    Types,          \* "1" (udp) and "2" (tcp): a comet's kind, a request's t
    TypeOf,         \* the kind of each comet
    Nodes,          \* list nodes that may be allocated
    MaxChanges,     \* bound on the changes of the registrations
    None            \* nil

ASSUME TypeAssumption == TypeOf \in [Comets -> Types]
ASSUME NoneAssumption == None \notin Nodes /\ None \notin Comets /\ None \notin Types
ASSUME MaxChangesAssumption == MaxChanges \in Nat
ASSUME NodesAssumption == IsFiniteSet(Nodes)

VARIABLES
    children,   \* ZooKeeper: the children of the comets' root
    changes,    \* how often they changed
    fired,      \* they changed since ChildrenW: its event is there
    upc,        \* where UdpCometStat is
    zkNodes,    \* the children still to be visited in this round
    preRetrain, \* the urls to keep
    total,      \* Retrain: the values to remove
    used,       \* nodes allocated so far
    prev, next, value,
    head, tail, count, cursor,
    spc,        \* where RunLoop is
    t,          \* the type asked for
    o           \* what Next returns

zkVars == <<children, changes, fired>>
updVars == <<upc, zkNodes, preRetrain, total>>
listVars == <<used, prev, next, value, head, tail, count>>
srvVars == <<spc, t, o>>
vars == <<zkVars, updVars, listVars, cursor, srvVars>>

\* A type that is neither udp nor tcp, in a request.
Other == "other"

Link == Nodes \cup {None}

TypeOK ==
    /\ children \subseteq Comets
    /\ changes \in 0..MaxChanges
    /\ fired \in BOOLEAN
    /\ upc \in {"watch", "visit", "retrain", "remove", "wait"}
    /\ zkNodes \subseteq Comets
    /\ preRetrain \subseteq Comets
    /\ total \subseteq Comets
    /\ used \subseteq Nodes
    /\ prev \in [Nodes -> Link] /\ next \in [Nodes -> Link]
    /\ value \in [Nodes -> Comets \cup {None}]
    /\ head \in Link /\ tail \in Link /\ cursor \in Link
    /\ count \in 0..Cardinality(Nodes)
    /\ spc \in {"read", "again", "advance", "choose"}
    /\ t \in Types \cup {Other, None}
    /\ o \in Comets \cup {None}

Init ==
    /\ children \in SUBSET Comets
    /\ changes = 0 /\ fired = FALSE
    /\ upc = "watch" /\ zkNodes = {} /\ preRetrain = {} /\ total = {}
    /\ used = {}
    /\ prev = [n \in Nodes |-> None]
    /\ next = [n \in Nodes |-> None]
    /\ value = [n \in Nodes |-> None]
    /\ head = None /\ tail = None /\ cursor = None
    /\ count = 0
    /\ spc = "read" /\ t = None /\ o = None

-----------------------------------------------------------------------------
(* The list                                                                *)

\* The nodes that the loops "for p := head; p != nil; p = p.next" see, at most
\* as many as there are.
List ==
    LET after == [l \in Link |-> IF l = None THEN None ELSE next[l]]
        node[i \in 1..Cardinality(Nodes)] == IF i = 1 THEN head ELSE after[node[i - 1]]
        seen == {i \in 1..Cardinality(Nodes) : node[i] # None}
    IN  SubSeq(node, 1, Cardinality(seen))
Items == LET l == List IN [i \in 1..Len(l) |-> value[l[i]]]
Elements == LET l == List IN {value[l[i]] : i \in 1..Len(l)}
InList(v) == v \in Elements

\* linkLast of a new node.
LinkLast(n, v) ==
    /\ used' = used \cup {n}
    /\ value' = [value EXCEPT ![n] = v]
    /\ prev' = [prev EXCEPT ![n] = tail]
    /\ tail' = n
    /\ IF head = None THEN head' = n /\ UNCHANGED next
                      ELSE next' = [next EXCEPT ![tail] = n] /\ UNCHANGED head
    /\ count' = count + 1

\* unlinkFirst: f.next = f "to help GC".
UnlinkFirst ==
    LET n == next[head] IN
    /\ value' = [value EXCEPT ![head] = None]
    /\ next' = [next EXCEPT ![head] = head]
    /\ head' = n
    /\ IF n = None THEN tail' = None /\ UNCHANGED prev
                   ELSE prev' = [prev EXCEPT ![n] = None] /\ UNCHANGED tail
    /\ count' = count - 1

\* Variant of UnlinkLast: the new last node still leads to the old one.
UnlinkLast_KeepNext ==
    LET p == prev[tail] IN
    /\ value' = [value EXCEPT ![tail] = None]
    /\ prev' = [prev EXCEPT ![tail] = tail]
    /\ tail' = p
    /\ UNCHANGED <<next, head>>
    /\ count' = count - 1

\* unlinkLast, which unlink only calls when there is a node before the last.
UnlinkLast ==
    LET p == prev[tail] IN
    /\ value' = [value EXCEPT ![tail] = None]
    /\ prev' = [prev EXCEPT ![tail] = tail]
    /\ tail' = p
    /\ next' = [next EXCEPT ![p] = None]
    /\ UNCHANGED head
    /\ count' = count - 1

\* Variant of UnlinkInner: the node after x keeps x as its predecessor.
UnlinkInner_KeepPrev(x) ==
    /\ next' = [next EXCEPT ![prev[x]] = next[x]]
    /\ value' = [value EXCEPT ![x] = None]
    /\ UNCHANGED <<prev, head, tail>>
    /\ count' = count - 1

\* unlink of a node between two others.
UnlinkInner(x) ==
    /\ next' = [next EXCEPT ![prev[x]] = next[x]]
    /\ prev' = [prev EXCEPT ![next[x]] = prev[x]]
    /\ value' = [value EXCEPT ![x] = None]
    /\ UNCHANGED <<head, tail>>
    /\ count' = count - 1

Unlink(x) ==
    /\ \/ prev[x] = None /\ UnlinkFirst
       \/ prev[x] # None /\ next[x] = None /\ UnlinkLast
       \/ prev[x] # None /\ next[x] # None /\ UnlinkInner(x)
    /\ UNCHANGED used

-----------------------------------------------------------------------------
(* ZooKeeper, and UdpCometStat                                             *)

\* A comet registers, or its session ends.
Register(c) ==
    /\ changes < MaxChanges
    /\ changes' = changes + 1
    /\ children' = IF c \in children THEN children \ {c} ELSE children \cup {c}
    /\ fired' = TRUE
    /\ UNCHANGED <<updVars, listVars, cursor, srvVars>>

\* ChildrenW: the children, and a watch for their next change.  (On an error
\* it sleeps and tries again.)
ChildrenW ==
    /\ upc = "watch" /\ upc' = "visit"
    /\ zkNodes' = children
    /\ fired' = FALSE
    /\ preRetrain' = {}
    /\ UNCHANGED <<children, changes, total, listVars, cursor, srvVars>>

\* Variant of VisitChild: Put without Contains.
VisitChild_NoContains(c) ==
    /\ upc = "visit" /\ c \in zkNodes
    /\ zkNodes' = zkNodes \ {c}
    /\ preRetrain' = preRetrain \cup {c}
    /\ used # Nodes
    /\ LinkLast(CHOOSE n \in Nodes : n \notin used, c)
    /\ UNCHANGED <<zkVars, upc, total, cursor, srvVars>>

\* One child: GetNodeData, then Contains and Put of its url, each under the
\* list's lock; only this goroutine changes the list.
VisitChild(c) ==
    /\ upc = "visit" /\ c \in zkNodes
    /\ zkNodes' = zkNodes \ {c}
    /\ preRetrain' = preRetrain \cup {c}
    /\ IF InList(c)
       THEN UNCHANGED listVars
       ELSE used # Nodes /\ LinkLast(CHOOSE n \in Nodes : n \notin used, c)
    /\ UNCHANGED <<zkVars, upc, total, cursor, srvVars>>

\* Variant of SkipChild: the url of the skipped child, nil, is to be kept.
SkipChild_KeepNil(c) ==
    /\ upc = "visit" /\ c \in zkNodes
    /\ zkNodes' = zkNodes \ {c}
    /\ preRetrain' = preRetrain \cup {None}
    /\ UNCHANGED <<zkVars, upc, total, listVars, cursor, srvVars>>

\* GetNodeData fails (the comet is gone by now, or ZooKeeper did not answer),
\* or the node has not the seven items of a comet: the child is skipped.
SkipChild(c) ==
    /\ upc = "visit" /\ c \in zkNodes
    /\ zkNodes' = zkNodes \ {c}
    /\ UNCHANGED <<zkVars, upc, preRetrain, total, listVars, cursor, srvVars>>

\* Variant of Retrain: what was visited is removed as well.
Retrain_All ==
    /\ upc = "visit" /\ zkNodes = {} /\ upc' = "remove"
    /\ total' = Elements
    /\ UNCHANGED <<zkVars, zkNodes, preRetrain, listVars, cursor, srvVars>>

\* Retrain: the values in the list that are not to be kept ...
Retrain ==
    /\ upc = "visit" /\ zkNodes = {} /\ upc' = "remove"
    /\ total' = Elements \ preRetrain
    /\ UNCHANGED <<zkVars, zkNodes, preRetrain, listVars, cursor, srvVars>>

\* ... are removed, in the order of a Go map: any.
Remove(v) ==
    /\ upc = "remove" /\ v \in total
    /\ total' = total \ {v}
    /\ LET l == List
           first == CHOOSE i \in 1..Len(l) :
                        value[l[i]] = v /\ \A j \in 1..(i - 1) : value[l[j]] # v
       IN  Unlink(l[first])
    /\ UNCHANGED <<zkVars, upc, zkNodes, preRetrain, cursor, srvVars>>

EndRound ==
    /\ upc = "remove" /\ total = {} /\ upc' = "wait"
    /\ UNCHANGED <<zkVars, zkNodes, preRetrain, total, listVars, cursor, srvVars>>

\* <-event.
AwaitEvent ==
    /\ upc = "wait" /\ fired /\ upc' = "watch"
    /\ UNCHANGED <<zkVars, zkNodes, preRetrain, total, listVars, cursor, srvVars>>

-----------------------------------------------------------------------------
(* RunLoop                                                                 *)

\* A request of a device.
ReadRequest ==
    /\ spc = "read" /\ spc' = "again"
    /\ t' \in Types \cup {Other}
    /\ UNCHANGED <<zkVars, updVars, listVars, cursor, o>>

\* Next: start over at the head if the cursor has run off the list; read ...
NextValue ==
    LET c == IF cursor = None THEN head ELSE cursor IN
    /\ spc = "again"
    /\ cursor' = c
    /\ \/ c = None /\ o' = None /\ spc' = "choose"
       \/ c # None /\ o' = value[c] /\ spc' = "advance"
    /\ UNCHANGED <<zkVars, updVars, listVars, t>>

\* ... and advance.  The list may have changed in between.
NextAdvance ==
    /\ spc = "advance" /\ spc' = "choose"
    /\ cursor' = next[cursor]
    /\ UNCHANGED <<zkVars, updVars, listVars, t, o>>

\* A comet of the type asked for is sent to the device, a request of another
\* type is dropped; otherwise again.
Answer ==
    LET fits == o \in {c \in Comets : TypeOf[c] = t} IN
    /\ spc = "choose"
    /\ \/ (fits \/ t = Other) /\ spc' = "read" /\ t' = None
       \/ ~fits /\ t # Other /\ spc' = "again" /\ UNCHANGED t
    /\ o' = None
    /\ UNCHANGED <<zkVars, updVars, listVars, cursor>>

-----------------------------------------------------------------------------

Update ==
    \/ ChildrenW \/ Retrain \/ EndRound \/ AwaitEvent
    \/ \E c \in Comets : VisitChild(c) \/ SkipChild(c) \/ Remove(c)

Serve == NextValue \/ NextAdvance \/ Answer

Next ==
    \/ \E c \in Comets : Register(c)
    \/ Update
    \/ ReadRequest \/ Serve

\* Both goroutines run; no device and no comet is obliged to do anything.
Fairness == WF_vars(Update) /\ WF_vars(Serve)

Spec == Init /\ [][Next]_vars /\ Fairness

-----------------------------------------------------------------------------
(* Properties                                                              *)

\* The list stays a doubly linked list through every sequence of Put and
\* Remove at its ends and inside: it ends in tail, is the same backwards, has
\* no node twice, and count is its length (the queue's limit relies on it).
WellLinked ==
    LET l == List IN
    /\ Len(l) = count
    /\ head = None <=> tail = None
    /\ \A i, j \in 1..Len(l) : i # j => l[i] # l[j]
    /\ \A i \in 1..Len(l) : prev[l[i]] = IF i = 1 THEN None ELSE l[i - 1]
    /\ l # <<>> => l[Len(l)] = tail /\ next[tail] = None

\* Each comet is in the queue at most once, so it gets its share of devices
\* and no more, and Remove removes it for good.
EachCometOnce ==
    LET q == Items IN \A i, j \in 1..Len(q) : i # j => q[i] # q[j]

\* When a round of updatingCometQue is over the queue holds exactly the comets
\* it read: Put, Contains, Retrain and Remove together leave no removed comet
\* behind and lose none.
QueueIsWhatWasRead ==
    upc = "wait" => Elements = preRetrain

\* The linked list implements the sequence that Put and Remove promise.
Fifo == INSTANCE FifoQueue WITH items <- Items, Values <- Comets
ImplementsFifo == Fifo!Spec

\* "Don't mess with x's links.  They may still be in use by an iterator."
\* (common/queue.go:123): the iterator goes on, so a request for which there is
\* a comet of its type in the queue is answered.
RequestIsAnswered ==
    \A k \in Types :
        (t = k) ~> (t = None \/ ~\E c \in Comets : TypeOf[c] = k /\ InList(c))
=============================================================================
