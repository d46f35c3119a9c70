---------------------------- MODULE SentinelTable ----------------------------
(***************************************************************************)
(* The table of sentinels: how a comet (octopus/srv/zoo.go, sentinel.go)   *)
(* and the push server (octopus/push/zoo.go, sentinel.go) follow, through  *)
(* ZooKeeper, which comets there are, and how a comet registers itself.    *)
(*                                                                         *)
(* A comet has one goroutine, loop, that takes the events of the session   *)
(* from zkReportCh and lists a path again when one of them names it.  The  *)
(* push server has a goroutine for each path, which waits on the channel   *)
(* of its watch; the two share the variables nodes, watch, err and addr.   *)
(*                                                                         *)
(* The ZooKeeper client is external: a watch fires once, after a change    *)
(* and while there is a session; the end of a session drops the watches,   *)
(* fires their channels (push), and puts no event with a path on the       *)
(* session channel (comet).                                                *)
(***************************************************************************)
EXTENDS Naturals, Sequences, FiniteSets

CONSTANTS
    Hosts,          \* whose table: subset of {"comet", "push"}
    WsComets,       \* the other comets for phones
    UdpComets,      \* the other comets for devices
    MaxChanges,     \* bound: starts, stops and registrations of comets
    MaxFaults       \* bound: failed calls and lost sessions

ASSUME HostsAssumption == Hosts \subseteq {"comet", "push"}

VARIABLES
    host,       \* "comet" or "push"
    listening,  \* comets whose process accepts connections
    zkNodes,    \* comets that have a node in ZooKeeper
    changes,    \* starts, stops and (un)registrations so far
    faults,     \* failed calls and lost sessions so far
    session,    \* the ZooKeeper session: "none", "has" or "lost"
    watching,   \* paths with a watch set at the server
    dirty,      \* watched paths that have changed since
    tab,        \* SentinelMgr.sentinels: the Type of each entry, or NoEntry
    excuse,     \* history: paths whose last listing or dialling failed, and
                \* "own" if creating the own node did
    \* the comet
    events,     \* the client's session channel
    cb,         \* the event that onConnStatus is about to report, or Quiet
    report,     \* zkReportCh, of capacity 1
    zkConnOk,
    todo,       \* what loop does now: paths to update, in order
    listed,     \* the nodes of updateMob or updateDev, or Unlisted
    own,        \* the comet's own nodes in ZooKeeper
    created,    \* number of own nodes created
    cometPath,  \* own nodes that loop reports the load to
    \* the push server
    pc,         \* where each of the two goroutines is
    nodes, watch, err, addr,    \* the variables they share
    left,       \* nodes still to be read by each
    leaves,     \* what each has read
    ref,        \* the channel each waits on
    mixed,      \* history: rounds of the two goroutines have overlapped
    panicked    \* index out of range: the process is over
zkVars == <<host, listening, zkNodes, changes, faults, session, watching,
            dirty, tab, excuse>>
cometVars == <<events, cb, report, zkConnOk, todo, listed, own, created, cometPath>>
pushVars == <<pc, nodes, watch, err, addr, left, leaves, ref, mixed, panicked>>
tableVars == <<zkVars, cometVars, pushVars>>

Paths == {"ws", "udp"}
Peers == WsComets \cup UdpComets
PathOf(c) == IF c \in WsComets THEN "ws" ELSE "udp"
At(t) == {c \in zkNodes : PathOf(c) = t}
Other(t) == IF t = "ws" THEN "udp" ELSE "ws"
NoEntry == "-"
Quiet == "quiet"
Unlisted == [some |-> FALSE, set |-> {}]
NoAddr == [of |-> "-", short |-> FALSE]
NoChan == [path |-> "-", fired |-> FALSE]

TableInit ==
    /\ host \in Hosts
    /\ listening = {} /\ zkNodes = {} /\ changes = 0 /\ faults = 0
    /\ session = "none" /\ watching = {} /\ dirty = {}
    /\ tab = [c \in Peers |-> NoEntry] /\ excuse = {}
    /\ events = <<>> /\ cb = Quiet /\ report = Quiet /\ zkConnOk = FALSE
    /\ todo = <<"ws", "udp">>       \* loop begins with updateMob, updateDev
    /\ listed = Unlisted /\ own = {} /\ created = 0 /\ cometPath = {}
    /\ pc = [t \in Paths |-> "list"]
    /\ nodes = [path |-> "ws", set |-> {}] /\ watch = NoChan
    /\ err = FALSE /\ addr = NoAddr
    /\ left = [t \in Paths |-> [path |-> t, set |-> {}]]
    /\ leaves = [t \in Paths |-> {}] /\ ref = [t \in Paths |-> NoChan]
    /\ mixed = FALSE /\ panicked = FALSE

-----------------------------------------------------------------------------
(* The other comets and the ZooKeeper client (external).                   *)

PeerStarts(c) ==
    /\ changes < MaxChanges /\ c \notin listening
    /\ changes' = changes + 1 /\ listening' = listening \cup {c}
    /\ UNCHANGED <<host, zkNodes, faults, session, watching, dirty, tab, excuse,
                   cometVars, pushVars>>

PeerStops(c) ==
    /\ changes < MaxChanges /\ c \in listening
    /\ changes' = changes + 1 /\ listening' = listening \ {c}
    /\ UNCHANGED <<host, zkNodes, faults, session, watching, dirty, tab, excuse,
                   cometVars, pushVars>>

Dirtied(t) == dirty \cup (watching \cap {t})

\* A comet that listens registers; the node of one that stopped expires.
NodeChanges(c) ==
    /\ changes < MaxChanges /\ changes' = changes + 1
    /\ \/ c \in listening \ zkNodes /\ zkNodes' = zkNodes \cup {c}
       \/ c \in zkNodes \ listening /\ zkNodes' = zkNodes \ {c}
    /\ dirty' = Dirtied(PathOf(c))
    /\ UNCHANGED <<host, listening, faults, session, watching, tab, excuse,
                   cometVars, pushVars>>

Tell(e) == IF host = "comet" THEN Append(events, e) ELSE events
Fired(ch, ts) == IF ch.path \in ts THEN [ch EXCEPT !.fired = TRUE] ELSE ch

WatchFires(t) ==
    /\ session = "has" /\ t \in dirty
    /\ watching' = watching \ {t} /\ dirty' = dirty \ {t}
    /\ events' = Tell(t)
    /\ watch' = Fired(watch, {t})
    /\ ref' = [u \in Paths |-> Fired(ref[u], {t})]
    /\ UNCHANGED <<host, listening, zkNodes, changes, faults, session, tab, excuse,
                   cb, report, zkConnOk, todo, listed, own, created, cometPath,
                   pc, nodes, err, addr, left, leaves, mixed, panicked>>

SessionBegins ==
    /\ session # "has"
    /\ session' = "has" /\ events' = Tell("has")
    /\ UNCHANGED <<host, listening, zkNodes, changes, faults, watching, dirty, tab,
                   excuse, cb, report, zkConnOk, todo, listed, own, created,
                   cometPath, pushVars>>

SessionLost ==
    /\ session = "has" /\ faults < MaxFaults
    /\ session' = "lost" /\ faults' = faults + 1 /\ events' = Tell("lost")
    /\ UNCHANGED <<host, listening, zkNodes, changes, watching, dirty, tab, excuse,
                   cb, report, zkConnOk, todo, listed, own, created, cometPath,
                   pushVars>>

\* The comet's own nodes go, and the watches: it has nothing to wake it.
SessionExpires ==
    /\ session = "lost"
    /\ session' = "none" /\ events' = Tell("expired")
    /\ own' = {} /\ watching' = {} /\ dirty' = {}
    /\ excuse' = IF host = "comet" THEN Paths ELSE excuse
    /\ watch' = Fired(watch, watching)
    /\ ref' = [u \in Paths |-> Fired(ref[u], watching)]
    /\ UNCHANGED <<host, listening, zkNodes, changes, faults, tab, cb, report,
                   zkConnOk, todo, listed, created, cometPath, pc, nodes, err,
                   addr, left, leaves, mixed, panicked>>

ZkNext ==
    \/ \E c \in Peers : PeerStarts(c) \/ PeerStops(c) \/ NodeChanges(c)
    \/ \E t \in Paths : WatchFires(t)
    \/ SessionBegins \/ SessionLost \/ SessionExpires

-----------------------------------------------------------------------------
(* SentinelMgr.update, the same in both programs: what is not in the table *)
(* is dialled and entered with the Type of the listing, entries of that    *)
(* Type that were not listed are removed.                                  *)

Updated_KeepsGone(lvs, t) ==
    [c \in Peers |->
        IF c \in lvs /\ tab[c] = NoEntry /\ c \in listening THEN t ELSE tab[c]]
Updated(lvs, t) ==
    [c \in Peers |->
        CASE c \in lvs /\ tab[c] = NoEntry ->
                IF c \in listening THEN t ELSE NoEntry
          [] c \notin lvs /\ tab[c] = t -> NoEntry
          [] OTHER -> tab[c]]

\* A failed dial is not tried again before the path changes.
update(lvs, t) ==
    /\ tab' = Updated(lvs, t)
    /\ excuse' = IF \E c \in lvs : tab[c] = NoEntry /\ c \notin listening
                 THEN excuse \cup {t} ELSE excuse

-----------------------------------------------------------------------------
(* The comet.                                                              *)

Done == SubSeq(todo, 2, Len(todo))
Fault == faults < MaxFaults /\ faults' = faults + 1

\* updateMob, updateDev: ChildrenW lists the nodes and sets the watch ...
ListChildren ==
    /\ host = "comet" /\ todo # <<>> /\ ~listed.some
    /\ session = "has"
    /\ listed' = [some |-> TRUE, set |-> At(Head(todo))]
    /\ watching' = watching \cup {Head(todo)}
    /\ dirty' = dirty \ {Head(todo)} /\ excuse' = excuse \ {Head(todo)}
    /\ UNCHANGED <<host, listening, zkNodes, changes, faults, session, tab,
                   events, cb, report, zkConnOk, todo, own, created, cometPath,
                   pushVars>>

\* ... or fails, and the function returns: no watch is set.
ListFails ==
    /\ host = "comet" /\ todo # <<>> /\ ~listed.some
    /\ Fault
    /\ todo' = Done /\ excuse' = excuse \cup {Head(todo)}
    /\ UNCHANGED <<host, listening, zkNodes, changes, session, watching, dirty, tab,
                   events, cb, report, zkConnOk, listed, own, created, cometPath,
                   pushVars>>

\* GetNodeData fails for a node: return without update.
GetNodeDataFails ==
    /\ host = "comet" /\ listed.some
    /\ \/ ~(listed.set \subseteq zkNodes) /\ UNCHANGED <<faults, excuse>>
       \/ Fault /\ excuse' = excuse \cup {Head(todo)}
    /\ todo' = Done /\ listed' = Unlisted
    /\ UNCHANGED <<host, listening, zkNodes, changes, session, watching, dirty, tab,
                   events, cb, report, zkConnOk, own, created, cometPath, pushVars>>

UpdateTable ==
    /\ host = "comet" /\ listed.some
    /\ update(listed.set, Head(todo))
    /\ todo' = Done /\ listed' = Unlisted
    /\ UNCHANGED <<host, listening, zkNodes, changes, faults, session, watching, dirty,
                   events, cb, report, zkConnOk, own, created, cometPath, pushVars>>

\* onConnStatus notes the state of the session, then waits for zkReportCh.
OkAfter(e) == IF e \in Paths THEN zkConnOk ELSE e = "has"

onConnStatus ==
    /\ host = "comet" /\ cb = Quiet /\ events # <<>>
    /\ cb' = Head(events) /\ events' = Tail(events)
    /\ zkConnOk' = OkAfter(Head(events))
    /\ UNCHANGED <<zkVars, report, todo, listed, own, created, cometPath, pushVars>>

Reports ==
    /\ host = "comet" /\ cb # Quiet /\ report = Quiet
    /\ report' = cb /\ cb' = Quiet
    /\ UNCHANGED <<zkVars, events, zkConnOk, todo, listed, own, created, cometPath,
                   pushVars>>

Forgets_Never(e) == FALSE
Forgets(e) == e \in {"lost", "expired"}

\* loop takes an event of a path, or one that ends the session.
LoopHandles ==
    /\ host = "comet" /\ todo = <<>> /\ report \notin {Quiet, "has"}
    /\ todo' = IF report \in Paths THEN <<report>> ELSE <<>>
    /\ cometPath' = IF Forgets(report) THEN {} ELSE cometPath
    /\ report' = Quiet
    /\ UNCHANGED <<zkVars, events, cb, zkConnOk, listed, own, created, pushVars>>

\* StateHasSession: one more node for this comet, unless the session was lost
\* again.  The comet is under /WsComet: its own watch sees the new node.
MayCreate == zkConnOk /\ session = "has"

LoopRegisters ==
    /\ host = "comet" /\ todo = <<>> /\ report = "has"
    /\ report' = Quiet
    /\ IF MayCreate
       THEN /\ created' = created + 1
            /\ own' = own \cup {created'}
            /\ cometPath' = cometPath \cup {created'}
            /\ dirty' = Dirtied("ws") /\ excuse' = excuse \ {"own"}
       ELSE UNCHANGED <<created, own, cometPath, dirty, excuse>>
    /\ UNCHANGED <<host, listening, zkNodes, changes, faults, session, watching, tab,
                   events, cb, zkConnOk, todo, listed, pushVars>>

\* zkConn.Create fails: it is not tried again in this session.
CreateFails ==
    /\ host = "comet" /\ todo = <<>> /\ report = "has" /\ MayCreate
    /\ Fault
    /\ report' = Quiet /\ excuse' = excuse \cup {"own"}
    /\ UNCHANGED <<host, listening, zkNodes, changes, session, watching, dirty, tab,
                   events, cb, zkConnOk, todo, listed, own, created, cometPath,
                   pushVars>>

CometNext ==
    \/ ListChildren \/ ListFails \/ GetNodeDataFails \/ UpdateTable
    \/ onConnStatus \/ Reports \/ LoopHandles \/ LoopRegisters
    \/ CreateFails

-----------------------------------------------------------------------------
(* The push server: the two goroutines of InitZK.                          *)

Runs(t, at) == host = "push" /\ ~panicked /\ pc[t] = at
Goes(t, at) == pc' = [pc EXCEPT ![t] = at]
InRound == {"check", "get", "use", "await"}

\* nodes, _, watch, err = zkConn.ChildrenW(path)
PushChildrenW(t) ==
    /\ Runs(t, "list") /\ session = "has"
    /\ nodes' = [path |-> t, set |-> At(t)]
    /\ watch' = [path |-> t, fired |-> FALSE] /\ err' = FALSE
    /\ watching' = watching \cup {t} /\ dirty' = dirty \ {t}
    /\ excuse' = excuse \ {t}
    /\ mixed' = (mixed \/ pc[Other(t)] \in InRound)
    /\ Goes(t, "check")
    /\ UNCHANGED <<host, listening, zkNodes, changes, faults, session, tab,
                   cometVars, addr, left, leaves, ref, panicked>>

PushChildrenWFails(t) ==
    /\ Runs(t, "list") /\ Fault
    /\ nodes' = [path |-> t, set |-> {}] /\ watch' = NoChan /\ err' = TRUE
    /\ mixed' = (mixed \/ pc[Other(t)] \in InRound)
    /\ Goes(t, "check")
    /\ UNCHANGED <<host, listening, zkNodes, changes, session, watching, dirty, tab,
                   excuse, cometVars, addr, left, leaves, ref, panicked>>

\* if err != nil { Sleep; continue }, and the range over nodes.
CheckErr(t) ==
    /\ Runs(t, "check")
    /\ IF err THEN Goes(t, "list") /\ UNCHANGED <<left, leaves>>
       ELSE /\ Goes(t, "get")
            /\ left' = [left EXCEPT ![t] = nodes]
            /\ leaves' = [leaves EXCEPT ![t] = {}]
    /\ UNCHANGED <<zkVars, cometVars, nodes, watch, err, addr, ref, mixed, panicked>>

(***************************************************************************)
(* addr, err = zk.GetNodeData(zkConn, path + node).  Nodes are named by a  *)
(* number: one that was listed under the other path does not exist under   *)
(* this one, or is any node of this path.                                  *)
(***************************************************************************)
GetNodeData(t) ==
    /\ Runs(t, "get") /\ left[t].set # {}
    /\ \E c \in left[t].set :
        /\ left' = [left EXCEPT ![t].set = @ \ {c}]
        /\ \/ \E d \in IF left[t].path = t THEN {c} \cap zkNodes ELSE At(t) :
                /\ addr' = [of |-> d, short |-> FALSE] /\ err' = FALSE
                /\ UNCHANGED <<faults, excuse>>
           \/ /\ left[t].path # t \/ c \notin zkNodes
              /\ addr' = NoAddr /\ err' = TRUE
              /\ UNCHANGED <<faults, excuse>>
           \/ /\ Fault /\ excuse' = excuse \cup {t}
              /\ addr' = NoAddr /\ err' = TRUE
    /\ Goes(t, "use")
    /\ UNCHANGED <<host, listening, zkNodes, changes, session, watching, dirty, tab,
                   cometVars, nodes, watch, leaves, ref, mixed, panicked>>

\* Split(addr, ",")[5] panics on the short form that the first goroutine
\* leaves in addr (and on the empty string).
UseAddr(t) ==
    /\ Runs(t, "use")
    /\ Goes(t, "get")
    /\ CASE err -> UNCHANGED <<addr, leaves, panicked>>
         [] ~err /\ (addr.short \/ addr = NoAddr) ->
                panicked' = TRUE /\ UNCHANGED <<addr, leaves>>
         [] ~err /\ ~addr.short /\ addr # NoAddr ->
                /\ leaves' = [leaves EXCEPT ![t] = @ \cup {addr.of}]
                /\ addr' = IF t = "ws" THEN [addr EXCEPT !.short = TRUE] ELSE addr
                /\ UNCHANGED panicked
    /\ UNCHANGED <<zkVars, cometVars, nodes, watch, err, left, ref, mixed>>

PushUpdate(t) ==
    /\ Runs(t, "get") /\ left[t].set = {}
    /\ update(leaves[t], t)
    /\ Goes(t, "await")
    /\ UNCHANGED <<host, listening, zkNodes, changes, faults, session, watching, dirty,
                   cometVars, nodes, watch, err, addr, left, leaves, ref, mixed,
                   panicked>>

\* <-watch: the channel that the variable holds now ...
Await(t) ==
    /\ Runs(t, "await")
    /\ ref' = [ref EXCEPT ![t] = watch]
    /\ Goes(t, "wait")
    /\ UNCHANGED <<zkVars, cometVars, nodes, watch, err, addr, left, leaves, mixed,
                   panicked>>

\* ... until it fires.
Wake(t) ==
    /\ Runs(t, "wait") /\ ref[t].fired
    /\ Goes(t, "list")
    /\ UNCHANGED <<zkVars, cometVars, nodes, watch, err, addr, left, leaves, ref, mixed,
                   panicked>>

PushNext ==
    \E t \in Paths :
        \/ PushChildrenW(t) \/ PushChildrenWFails(t) \/ CheckErr(t) \/ GetNodeData(t)
        \/ UseAddr(t) \/ PushUpdate(t) \/ Await(t) \/ Wake(t)

TableNext == ZkNext \/ CometNext \/ PushNext

TableSpec == TableInit /\ [][TableNext]_tableVars

-----------------------------------------------------------------------------
(* Properties.                                                             *)

\* Something is under way that will make the host list path t (again).
Coming(t) ==
    \/ t \in dirty
    \/ /\ host = "comet"
       /\ \/ cb = t \/ report = t
          \/ \E i \in DOMAIN events : events[i] = t
          \/ \E i \in DOMAIN todo : todo[i] = t
    \/ /\ host = "push"
       /\ pc[t] # "wait" \/ ref[t].fired

Follows(t) ==
    \/ t \in excuse
    \/ {c \in Peers : tab[c] = t} = At(t)
    \/ Coming(t)

(***************************************************************************)
(* The table of sentinels lists the comets that are registered, or the     *)
(* host has yet to handle a change, in a comet (updateMob and updateDev    *)
(* from loop) and, as long as the rounds of its two goroutines have not    *)
(* overlapped, in the push server.  Excepted are paths whose last listing  *)
(* failed or a dial of which failed, which the code does not try again,    *)
(* and in a comet a session that expired, after which it never lists the   *)
(* comets again.                                                           *)
(***************************************************************************)
TableFollowsZk ==
    host = "comet" \/ ~mixed => \A t \in Paths : Follows(t)

(***************************************************************************)
(* A comet that has a session, and has handled all that the session told   *)
(* it, has a node in ZooKeeper (unless Create failed, which is not tried   *)
(* again), and every node that loop reports its load to (cometPath)        *)
(* exists.  It may have a second node: each StateHasSession creates one,   *)
(* also when the connection came back within the session.                  *)
(***************************************************************************)
RegisteredAndReporting ==
    host = "comet" /\ session = "has" /\ events = <<>> /\ cb = Quiet
        /\ report = Quiet =>
        /\ cometPath # {} \/ "own" \in excuse
        /\ cometPath \subseteq own

(***************************************************************************)
(* The push server notices a change of either path: "Watching %s"          *)
(* (push/zoo.go).  A path that its table does not follow is being listed,  *)
(* or the goroutine that lists it waits for a channel that will wake it.   *)
(***************************************************************************)
EachPathIsWatched ==
    host = "push" /\ ~panicked => \A t \in Paths : Follows(t)
=============================================================================
