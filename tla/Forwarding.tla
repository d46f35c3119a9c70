----------------------------- MODULE Forwarding -----------------------------
(***************************************************************************)
(* SentinelMgr.Forward and the routes it follows, in a comet               *)
(* (octopus/srv/sentinel.go, rds.go) and in the push server                *)
(* (octopus/push/sentinel.go, rds.go).                                     *)
(*                                                                         *)
(* Both learn from Redis which comet a user or device is on: all at once   *)
(* when they start (InitUsr2Sentinel), then from the OnOff channel.  A     *)
(* comet loads, then subscribes, and handles OnOff messages one by one;    *)
(* the push server subscribes in a goroutine while it loads, and handles   *)
(* every message, OnOff or to be forwarded, in a goroutine of its own.     *)
(* A comet forwards under the exclusive lock of the table, the push server *)
(* under the shared one.                                                   *)
(*                                                                         *)
(* One receiver is followed.  Which comets the table lists is the subject  *)
(* of SentinelTable: here entries come and go as they may.                 *)
(***************************************************************************)
EXTENDS Naturals, Sequences, FiniteSets

CONSTANTS
    Senders,        \* whose Forward: subset of {"comet", "push"}
    Sinks,          \* the comets the receiver may be on
    Handlers,       \* goroutines of the push server
    Attempts,       \* how often handleDevCommonMsg forwards (5 in the code)
    MaxMoves,       \* bound: logins and logouts of the receiver
    MaxDowns        \* bound: ends and restarts of comets

VARIABLES
    sender,     \* "comet" or "push"
    alive,      \* comets whose process accepts connections
    downs,      \* ends and restarts so far
    con,        \* the sentinel's connection to each comet: "absent" (no entry),
                \* "nil", "closed", "stale" (the comet has ended since) or "ok"
    home,       \* the comet whose hash in Redis lists the receiver, or Nowhere
    moves,      \* logins and logouts so far
    sub,        \* the subscription: "off" or "on"
    loading,    \* InitUsr2Sentinel: "before", "keyed", "reading" or "done"
    toRead,     \* hashes InitUsr2Sentinel has still to read
    onoff,      \* OnOff messages that are not handled yet
    route,      \* usr2sentinel of the receiver, or Nowhere
    missed,     \* history: a message was published with no subscription, and
                \* not before the first of the messages and the load
    swapped,    \* history: OnOff messages were handled out of order
    fwd,        \* for each handler, its message and where it is
    last        \* for each handler, what became of the Forward it has ended
routeVars == <<home, moves, sub, loading, toRead, onoff, route, missed, swapped>>
linkVars == <<sender, alive, downs>>
forwardVars == <<linkVars, con, routeVars, fwd, last>>

Nowhere == "nowhere"
Idle == [at |-> "idle", dev |-> FALSE, sends |-> 0, fair |-> FALSE, to |-> Nowhere]
NoResult == [fair |-> FALSE, reached |-> FALSE]

ASSUME ForwardAssumption == Senders \subseteq {"comet", "push"} /\ Nowhere \notin Sinks

ForwardInit ==
    /\ sender \in Senders
    /\ alive = Sinks /\ downs = 0 /\ con = [c \in Sinks |-> "absent"]
    /\ home \in Sinks \cup {Nowhere} /\ moves = 0
    /\ sub = "off" /\ loading = "before" /\ toRead = {}
    /\ onoff = <<>> /\ route = Nowhere /\ missed = FALSE /\ swapped = FALSE
    /\ fwd = [h \in Handlers |-> Idle] /\ last = [h \in Handlers |-> NoResult]

\* mu: handlers inside Forward share it; who changes the table needs it alone.
Sharing == {h \in Handlers : fwd[h].at \in {"write", "close", "dial", "again"}}
MuFree == Sharing = {} /\ loading # "reading"

-----------------------------------------------------------------------------
(* The comets, the scripts that log the receiver in and out, the           *)
(* subscription (external).                                                *)

\* A Forward is judged only if its comet lives through it.
Judged(c) == [h \in Handlers |->
    IF fwd[h].to = c THEN [fwd[h] EXCEPT !.fair = FALSE] ELSE fwd[h]]

CometEnds(c) ==
    /\ downs < MaxDowns /\ c \in alive
    /\ downs' = downs + 1 /\ alive' = alive \ {c}
    /\ con' = [con EXCEPT ![c] = IF @ = "ok" THEN "stale" ELSE @]
    /\ fwd' = Judged(c)
    /\ UNCHANGED <<sender, routeVars, last>>

CometStarts(c) ==
    /\ downs < MaxDowns /\ c \notin alive
    /\ downs' = downs + 1 /\ alive' = alive \cup {c}
    /\ UNCHANGED <<sender, con, routeVars, fwd, last>>

\* Login and Logout publish what they have changed.
Moves(to) ==
    /\ moves < MaxMoves /\ moves' = moves + 1
    /\ to # home /\ (home = Nowhere \/ to = Nowhere)
    /\ home' = to
    /\ IF sub = "on" THEN onoff' = Append(onoff, to) /\ UNCHANGED missed
       ELSE /\ missed' = (missed \/ loading # "before" \/ route # Nowhere
                                  \/ onoff # <<>>)
            /\ UNCHANGED onoff
    /\ UNCHANGED <<linkVars, con, sub, loading, toRead, route, swapped, fwd, last>>

-----------------------------------------------------------------------------
(* Routes.                                                                 *)

\* InitRedix of a comet calls Sub after InitUsr2Sentinel; main of the push
\* server calls it before, but it subscribes in a goroutine.
MaySubscribe == sender = "comet" => loading = "done"

Sub ==
    /\ sub = "off" /\ MaySubscribe
    /\ sub' = "on"
    /\ UNCHANGED <<linkVars, con, home, moves, loading, toRead, onoff, route, missed,
                   swapped, fwd, last>>

\* The connection fails, perhaps with a message in it; Sub begins again.
SubBreaks ==
    /\ sub = "on" /\ sub' = "off"
    /\ \/ UNCHANGED <<onoff, missed>>
       \/ /\ onoff # <<>> /\ missed' = TRUE
          /\ onoff' = SubSeq(onoff, 1, Len(onoff) - 1)
    /\ UNCHANGED <<linkVars, con, home, moves, loading, toRead, route, swapped,
                   fwd, last>>

\* InitUsr2Sentinel: the keys, then, with mu, the users of each.
LoadKeys ==
    /\ loading = "before"
    /\ loading' = "keyed" /\ toRead' = Sinks \cap {home}
    /\ UNCHANGED <<linkVars, con, home, moves, sub, onoff, route, missed, swapped,
                   fwd, last>>

LoadLocks ==
    /\ loading = "keyed" /\ Sharing = {}
    /\ loading' = "reading"
    /\ UNCHANGED <<linkVars, con, home, moves, sub, toRead, onoff, route, missed,
                   swapped, fwd, last>>

LoadUsers(c) ==
    /\ loading = "reading" /\ c \in toRead
    /\ toRead' = toRead \ {c}
    /\ route' = IF home = c THEN c ELSE route
    /\ UNCHANGED <<linkVars, con, home, moves, sub, loading, onoff, missed, swapped,
                   fwd, last>>

LoadEnds ==
    /\ loading = "reading" /\ toRead = {}
    /\ loading' = "done"
    /\ UNCHANGED <<linkVars, con, home, moves, sub, toRead, onoff, route, missed,
                   swapped, fwd, last>>

\* "1": the route is set, "0": it is deleted, whatever it was.
RouteAfter_OffKept(m) == IF m = Nowhere THEN route ELSE m
RouteAfter(m) == m

handleOnOff(i) ==
    /\ MuFree /\ i \in DOMAIN onoff
    /\ sender = "comet" => i = 1
    /\ route' = RouteAfter(onoff[i])
    /\ swapped' = (swapped \/ i # 1)
    /\ onoff' = SubSeq(onoff, 1, i - 1) \o SubSeq(onoff, i + 1, Len(onoff))
    /\ UNCHANGED <<linkVars, con, home, moves, sub, loading, toRead, missed, fwd, last>>

\* update (SentinelTable) dials a new entry or removes one.
EntryChanges(c) ==
    /\ MuFree
    /\ \/ con[c] = "absent" /\ c \in alive /\ con' = [con EXCEPT ![c] = "ok"]
       \/ con[c] # "absent" /\ con' = [con EXCEPT ![c] = "absent"]
    /\ UNCHANGED <<linkVars, routeVars, fwd, last>>

Known == route # Nowhere /\ con[route] # "absent"

-----------------------------------------------------------------------------
(* Forward in a comet: the write is repeated as long as it fails and the   *)
(* comet can be dialled.  With a stale connection the first write may seem *)
(* to succeed.                                                             *)

Repeats_Not(c) == FALSE
Repeats(c) == c \in alive

CometForward(h) ==
    /\ sender = "comet" /\ MuFree /\ Known
    /\ LET c == route
           writes == con[c] = "ok"
       IN  \/ /\ con[c] = "stale"
              /\ last' = [last EXCEPT ![h] = NoResult]
              /\ UNCHANGED con
           \/ /\ last' = [last EXCEPT ![h] = [fair |-> c \in alive,
                                              reached |-> writes \/ Repeats(c)]]
              /\ con' = IF writes THEN con
                        ELSE [con EXCEPT ![c] = IF c \in alive THEN "ok" ELSE "nil"]
    /\ UNCHANGED <<linkVars, routeVars, fwd>>

-----------------------------------------------------------------------------
(* The push server: handleCommonMsg and handleDevCommonMsg.                *)

\* doesExsist; handleCommonMsg gives up at the first receiver not found, so
\* also when another one before ours is not.
Handle(h, dev) ==
    /\ sender = "push" /\ fwd[h] = Idle /\ loading # "reading"
    /\ Known
    /\ fwd' = [fwd EXCEPT ![h] = [Idle EXCEPT !.at = "send", !.dev = dev]]
    /\ UNCHANGED <<linkVars, con, routeVars, last>>

\* Forward: RLock and the look-up.
Lookup(h) ==
    /\ fwd[h].at = "send" /\ loading # "reading"
    /\ fwd' = [fwd EXCEPT ![h] =
                IF Known THEN [@ EXCEPT !.at = "write", !.to = route,
                                        !.fair = route \in alive /\ con[route] # "stale"]
                ELSE [@ EXCEPT !.at = "over"]]
    /\ UNCHANGED <<linkVars, con, routeVars, last>>

Ends(h, reached) ==
    /\ fwd' = [fwd EXCEPT ![h].at = "over"]
    /\ last' = [last EXCEPT ![h] = [fair |-> fwd[h].fair, reached |-> reached]]

Write(h) ==
    /\ fwd[h].at = "write"
    /\ \/ con[fwd[h].to] \in {"ok", "stale"} /\ Ends(h, con[fwd[h].to] = "ok")
       \/ /\ con[fwd[h].to] # "ok"
          /\ fwd' = [fwd EXCEPT ![h].at = "close"] /\ UNCHANGED last
    /\ UNCHANGED <<linkVars, con, routeVars>>

\* Another handler that repairs the same sentinel spoils the judgement.
Repairs(h, at) == [g \in Handlers |->
    IF g = h THEN [fwd[h] EXCEPT !.at = at]
    ELSE IF fwd[g].to = fwd[h].to THEN [fwd[g] EXCEPT !.fair = FALSE] ELSE fwd[g]]

CloseCon(h) ==
    /\ fwd[h].at = "close"
    /\ con' = [con EXCEPT ![fwd[h].to] = IF @ = "nil" THEN @ ELSE "closed"]
    /\ fwd' = Repairs(h, "dial")
    /\ UNCHANGED <<linkVars, routeVars, last>>

Dial(h) ==
    /\ fwd[h].at = "dial"
    /\ LET c == fwd[h].to
       IN  IF c \in alive
           THEN /\ con' = [con EXCEPT ![c] = "ok"] /\ fwd' = Repairs(h, "again")
                /\ UNCHANGED last
           ELSE /\ con' = [con EXCEPT ![c] = "nil"]
                /\ fwd' = Repairs(h, "over")
                /\ last' = [last EXCEPT ![h] = NoResult]
    /\ UNCHANGED <<linkVars, routeVars>>

WriteAgain(h) ==
    /\ fwd[h].at = "again"
    /\ Ends(h, con[fwd[h].to] = "ok")
    /\ UNCHANGED <<linkVars, con, routeVars>>

\* del answers 1 when the device has confirmed, as an int64 that v == 1
\* compares with an int: the loop is never left early.
Confirmed == FALSE

NextAttempt(h) ==
    /\ fwd[h].at = "over"
    /\ fwd' = [fwd EXCEPT ![h] =
                IF fwd[h].dev /\ ~Confirmed /\ fwd[h].sends + 1 < Attempts
                THEN [Idle EXCEPT !.at = "send", !.dev = TRUE, !.sends = fwd[h].sends + 1]
                ELSE Idle]
    /\ last' = [last EXCEPT ![h] = NoResult]
    /\ UNCHANGED <<linkVars, con, routeVars>>

ForwardNext ==
    \/ \E c \in Sinks : CometEnds(c) \/ CometStarts(c) \/ LoadUsers(c) \/ EntryChanges(c)
    \/ \E to \in Sinks \cup {Nowhere} : Moves(to)
    \/ Sub \/ SubBreaks \/ LoadKeys \/ LoadLocks \/ LoadEnds
    \/ \E i \in 1..MaxMoves : handleOnOff(i)
    \/ \E h \in Handlers :
        \/ CometForward(h) \/ Lookup(h) \/ Write(h) \/ CloseCon(h) \/ Dial(h)
        \/ WriteAgain(h) \/ NextAttempt(h)
        \/ \E dev \in BOOLEAN : Handle(h, dev)

ForwardSpec == ForwardInit /\ [][ForwardNext]_forwardVars

-----------------------------------------------------------------------------
(* Properties.                                                             *)

(***************************************************************************)
(* Once loaded, and with every OnOff message handled, the route is the     *)
(* comet that Redis lists for the receiver, unless a message was published *)
(* with no subscription (between InitUsr2Sentinel and Sub of a comet,      *)
(* while Sub sleeps) or the push server handled two out of order.          *)
(***************************************************************************)
RouteIsCurrent ==
    loading = "done" /\ onoff = <<>> /\ ~missed /\ ~swapped => route = home

(***************************************************************************)
(* A Forward that finds an entry for its comet reaches it, if the comet    *)
(* lives throughout and the connection did not belong to an earlier life   *)
(* of it: a closed or nil connection is repaired and the message written   *)
(* again.  In the push server, where handlers share the lock, unless two   *)
(* of them repaired the connection at the same time: one closes what the   *)
(* other has just dialled.                                                 *)
(***************************************************************************)
ForwardReaches == \A h \in Handlers : last[h].fair => last[h].reached
=============================================================================
