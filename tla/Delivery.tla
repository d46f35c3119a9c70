------------------------------ MODULE Delivery ------------------------------
(***************************************************************************)
(* What a message passes on its way from one client to another: websocket  *)
(* frames (WsConn), frames on a device's TCP connection (TcpFraming), the  *)
(* message codec and the relays that apply it (FramePath), the check of    *)
(* request numbers (SeqCheck), the list of ids the sender is bound to      *)
(* (Bindings), the table of comets (SentinelTable) and the route to the    *)
(* receiver's comet (Forwarding).                                          *)
(*                                                                         *)
(* The layers share no state in the code: each hands a value to the next.  *)
(* Their interleavings add nothing, so one behaviour explores one layer.   *)
(***************************************************************************)
EXTENDS FramePath, SeqCheck, WsConn, TcpFraming, Bindings, SentinelTable,
        Forwarding

VARIABLE layer      \* the layer that this behaviour explores

Layers == {"path", "seq", "ws", "tcp", "bind", "table", "forward"}

\* A layer that is not explored stays in one of its initial states.
Init ==
    /\ layer \in Layers
    /\ PathInit /\ SeqInit /\ WsInit /\ TcpInit /\ BindInit /\ TableInit /\ ForwardInit
    /\ layer # "seq" => \A b \in Starts : base <= b
    /\ layer # "bind" => side = "usr" /\ bound = {}
    /\ layer # "table" => host = "comet"
    /\ layer # "forward" => sender = "comet" /\ home = Nowhere

Next ==
    \/ /\ layer = "path" /\ PathNext
       /\ UNCHANGED <<layer, seqVars, wsVars, tcpVars, bindVars, tableVars, forwardVars>>
    \/ /\ layer = "seq" /\ SeqNext
       /\ UNCHANGED <<layer, pathVars, wsVars, tcpVars, bindVars, tableVars, forwardVars>>
    \/ /\ layer = "ws" /\ WsNext
       /\ UNCHANGED <<layer, pathVars, seqVars, tcpVars, bindVars, tableVars, forwardVars>>
    \/ /\ layer = "tcp" /\ TcpNext
       /\ UNCHANGED <<layer, pathVars, seqVars, wsVars, bindVars, tableVars, forwardVars>>
    \/ /\ layer = "bind" /\ BindNext
       /\ UNCHANGED <<layer, pathVars, seqVars, wsVars, tcpVars, tableVars, forwardVars>>
    \/ /\ layer = "table" /\ TableNext
       /\ UNCHANGED <<layer, pathVars, seqVars, wsVars, tcpVars, bindVars, forwardVars>>
    \/ /\ layer = "forward" /\ ForwardNext
       /\ UNCHANGED <<layer, pathVars, seqVars, wsVars, tcpVars, bindVars, tableVars>>

vars == <<layer, pathVars, seqVars, wsVars, tcpVars, bindVars, tableVars, forwardVars>>

Spec == Init /\ [][Next]_vars

(***************************************************************************)
(* Type invariant: what the layers' variables range over.                  *)
(***************************************************************************)
DeliveryTypeOK ==
    /\ stage \in {"idle", "link", "relayed", "arrived", "done", "closed",
                  "refused", "notice"}
    /\ way \in FromPhone \cup FromDev \cup {"notice", None}
    /\ damaged \in BOOLEAN /\ sent \in Texts \cup {<<>>}
    /\ ridx \in 0..(Width - 1) /\ base \in Starts /\ handled \in 0..MaxDeliveries
    /\ passed \in [1..MaxRequests -> 0..MaxDeliveries]
    /\ conn \in {"new", "open", "rejected", "closed"}
    /\ eof \in {"no", "clean", "cut"} /\ broken \in BOOLEAN
    /\ reader \in {"handshake", "read", "replying", "ponging", "logout",
                   "return", "done"}
    /\ wio \in Writers \cup {Free}
    /\ \A w \in Writers :
        job[w].at \in {"none", "lock", "header", "payload", "done"}
    /\ Len(head) \in {0, FlagLen} /\ msgsSent \in 0..MaxMsgs
    /\ Range(ids) \subseteq Ids /\ bound \subseteq Ids
    /\ load \in {"todo", "read", "done"} /\ call \in {"idle", "read", "over"}
    /\ zkNodes \subseteq Peers /\ listening \subseteq Peers
    /\ tab \in [Peers -> Paths \cup {NoEntry}] /\ watching \subseteq Paths
    /\ dirty \subseteq watching /\ cometPath \subseteq 1..created
    /\ route \in Sinks \cup {Nowhere} /\ home \in Sinks \cup {Nowhere}
    /\ con \in [Sinks -> {"absent", "nil", "closed", "stale", "ok"}]
=============================================================================
