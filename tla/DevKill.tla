------------------------------ MODULE DevKill ------------------------------
(***************************************************************************)
(* Devices over TCP (the comet's "dw" mode): busiDeal, the first login of  *)
(* a connection's device in onLogin, devLogout, and the hand-over between  *)
(* an old and a new connection of the same device.                         *)
(*                                                                         *)
(* A new login that finds a session of its device in the pool sends a kill *)
(* event on that session's killchan and waits on its own syncchan.  A      *)
(* goroutine per session listens on killchan: it records the killer and    *)
(* closes the connection, so that busiDeal's read fails and its deferred   *)
(* devLogout removes the session and answers on the killer's syncchan.     *)
(*                                                                         *)
(* A device has one mac, so Macs and MacSid are keyed by the device.  Left *)
(* out: sub-devices, the requests served after the login, and the          *)
(* notifications to users, none of which touch this state.                 *)
(***************************************************************************)
EXTENDS Naturals, Sequences

CONSTANTS
    Sess,       \* TCP connections, each with its DevSession
    Devs,       \* devices
    ChanCap,    \* capacity of killchan and syncchan (10 in the code)
    NoSess, NoDev

ASSUME NullAssumption == NoSess \notin Sess /\ NoDev \notin Devs
ASSUME CapAssumption == ChanCap \in Nat \ {0}

VARIABLES
    pc,         \* where busiDeal is
    devId,      \* sess.devId
    preSess,    \* onLogin: the session found in the pool
    killchan,   \* kill events sent to a session: who sent them
    syncchan,   \* answers waiting on a session's syncchan
    killer,     \* sess.killer
    closed,     \* sess.client was closed by this comet
    beKilled,   \* sess.beKilled
    Sesses, Macs, Sids,     \* the pool
    online,     \* Redis: the devices this comet is listed for
    devlk       \* the session whose devLogout holds Devlk

vars == <<pc, devId, preSess, killchan, syncchan, killer, closed, beKilled,
          Sesses, Macs, Sids, online, devlk>>

PCs == {"accept", "lookup", "kill", "wait", "register", "enter",
        "serve", "logout", "final", "done"}

TypeOK ==
    /\ pc \in [Sess -> PCs]
    /\ devId \in [Sess -> Devs \cup {NoDev}]
    /\ preSess \in [Sess -> Sess \cup {NoSess}]
    /\ killchan \in [Sess -> Seq(Sess)]
    /\ syncchan \in [Sess -> 0..ChanCap]
    /\ killer \in [Sess -> Sess \cup {NoSess}]
    /\ closed \in [Sess -> BOOLEAN]
    /\ beKilled \in [Sess -> BOOLEAN]
    /\ Sesses \in [Devs -> Sess \cup {NoSess}]
    /\ Macs \in [Devs -> Sess \cup {NoSess}]
    /\ Sids \subseteq Sess
    /\ online \subseteq Devs
    /\ devlk \in Sess \cup {NoSess}

Init ==
    /\ pc = [s \in Sess |-> "accept"]
    /\ devId = [s \in Sess |-> NoDev]
    /\ preSess = [s \in Sess |-> NoSess]
    /\ killchan = [s \in Sess |-> <<>>]
    /\ syncchan = [s \in Sess |-> 0]
    /\ killer = [s \in Sess |-> NoSess]
    /\ closed = [s \in Sess |-> FALSE]
    /\ beKilled = [s \in Sess |-> FALSE]
    /\ Sesses = [d \in Devs |-> NoSess]
    /\ Macs = [d \in Devs |-> NoSess]
    /\ Sids = {}
    /\ online = {}
    /\ devlk = NoSess

Goto(s, from, to) == pc[s] = from /\ pc' = [pc EXCEPT ![s] = to]

\* A critical section of Devlk that is one step.
DevlkFree == devlk = NoSess

-----------------------------------------------------------------------------
(* busiDeal and onLogin                                                    *)

\* The login request arrives and the HTTP service accepts it: devId is set,
\* the killchan listener is started.
LoginAccepted(s) ==
    /\ Goto(s, "accept", "lookup")
    /\ \E d \in Devs : devId' = [devId EXCEPT ![s] = d]
    /\ UNCHANGED <<preSess, killchan, syncchan, killer, closed, beKilled,
                   Sesses, Macs, Sids, online, devlk>>

\* The connection ends before a login: devLogout goes straight to final.
EndBeforeLogin(s) ==
    /\ Goto(s, "accept", "done")
    /\ UNCHANGED <<devId, preSess, killchan, syncchan, killer, closed, beKilled,
                   Sesses, Macs, Sids, online, devlk>>

\* if preSess, ok := DevSessions.Sesses[id], under Devlk.
LookupPreSess(s) ==
    /\ pc[s] = "lookup" /\ DevlkFree
    /\ \/ Sesses[devId[s]] # NoSess /\ Goto(s, "lookup", "kill")
       \/ Sesses[devId[s]] = NoSess /\ Goto(s, "lookup", "register")
    /\ preSess' = [preSess EXCEPT ![s] = Sesses[devId[s]]]
    /\ UNCHANGED <<devId, killchan, syncchan, killer, closed, beKilled,
                   Sesses, Macs, Sids, online, devlk>>

\* Variant of SendKillEvent: the login does not wait for the answer.
SendKillEvent_NoWait(s) ==
    /\ Goto(s, "kill", "register")
    /\ Len(killchan[preSess[s]]) < ChanCap
    /\ killchan' = [killchan EXCEPT ![preSess[s]] = Append(@, s)]
    /\ UNCHANGED <<devId, preSess, syncchan, killer, closed, beKilled,
                   Sesses, Macs, Sids, online, devlk>>

\* preSess.killchan <- kickevent.
SendKillEvent(s) ==
    /\ Goto(s, "kill", "wait")
    /\ Len(killchan[preSess[s]]) < ChanCap
    /\ killchan' = [killchan EXCEPT ![preSess[s]] = Append(@, s)]
    /\ UNCHANGED <<devId, preSess, syncchan, killer, closed, beKilled,
                   Sesses, Macs, Sids, online, devlk>>

\* Variant of AwaitSync: the receive does not wait.
AwaitSync_NoWait(s) ==
    /\ Goto(s, "wait", "register")
    /\ syncchan' = [syncchan EXCEPT ![s] = @ - 1]
    /\ UNCHANGED <<devId, preSess, killchan, killer, closed, beKilled,
                   Sesses, Macs, Sids, online, devlk>>

\* <-sess.syncchan.
AwaitSync(s) ==
    /\ Goto(s, "wait", "register")
    /\ syncchan[s] > 0
    /\ syncchan' = [syncchan EXCEPT ![s] = @ - 1]
    /\ UNCHANGED <<devId, preSess, killchan, killer, closed, beKilled,
                   Sesses, Macs, Sids, online, devlk>>

\* Sids, Macs and MacSid, under Devlk.
Register(s) ==
    /\ Goto(s, "register", "enter") /\ DevlkFree
    /\ Sids' = Sids \cup {s}
    /\ Macs' = [Macs EXCEPT ![devId[s]] = s]
    /\ UNCHANGED <<devId, preSess, killchan, syncchan, killer, closed, beKilled,
                   Sesses, online, devlk>>

\* Sesses and the Redis login, under Devlk once more.
EnterPool(s) ==
    /\ Goto(s, "enter", "serve") /\ DevlkFree
    /\ Sesses' = [Sesses EXCEPT ![devId[s]] = s]
    /\ online' = online \cup {devId[s]}
    /\ UNCHANGED <<devId, preSess, killchan, syncchan, killer, closed, beKilled,
                   Macs, Sids, devlk>>

\* readFrame fails: connection closed here or there, or the read deadline.
ReadError(s) ==
    /\ Goto(s, "serve", "logout")
    /\ UNCHANGED <<devId, preSess, killchan, syncchan, killer, closed, beKilled,
                   Sesses, Macs, Sids, online, devlk>>

-----------------------------------------------------------------------------
(* The killchan listener, and the kill that comes from another comet       *)

\* Variant of Listen: the killer is recorded, the connection left alone.
Listen_NoClose(s) ==
    /\ killchan[s] # <<>>
    /\ killer' = [killer EXCEPT ![s] = Head(killchan[s])]
    /\ killchan' = [killchan EXCEPT ![s] = Tail(@)]
    /\ UNCHANGED <<pc, devId, preSess, syncchan, closed, beKilled,
                   Sesses, Macs, Sids, online, devlk>>

\* The goroutine started by onLogin; it outlives the session.
Listen(s) ==
    /\ killchan[s] # <<>>
    /\ killer' = [killer EXCEPT ![s] = Head(killchan[s])]
    /\ closed' = [closed EXCEPT ![s] = TRUE]
    /\ killchan' = [killchan EXCEPT ![s] = Tail(@)]
    /\ UNCHANGED <<pc, devId, preSess, syncchan, beKilled,
                   Sesses, Macs, Sids, online, devlk>>

\* NewDevSessChannel: the device has logged in on another comet.
NewDevSess(d) ==
    /\ Macs[d] # NoSess
    /\ beKilled' = [beKilled EXCEPT ![Macs[d]] = TRUE]
    /\ closed' = [closed EXCEPT ![Macs[d]] = TRUE]
    /\ UNCHANGED <<pc, devId, preSess, killchan, syncchan, killer,
                   Sesses, Macs, Sids, online, devlk>>

-----------------------------------------------------------------------------
(* devLogout: Devlk is held to its end                                     *)

\* Variant of RemoveFromPool: the session stays under its device's id.
RemoveFromPool_KeepSess(s) ==
    LET d == devId[s] IN
    /\ Goto(s, "logout", "final") /\ DevlkFree
    /\ devlk' = s
    /\ Sids' = Sids \ {s}
    /\ Macs' = [Macs EXCEPT ![d] = NoSess]
    /\ online' = IF beKilled[s] THEN online ELSE online \ {d}
    /\ UNCHANGED <<devId, preSess, killchan, syncchan, killer, closed, beKilled, Sesses>>

\* The deletions are by key, whoever holds the key; no Redis logout when the
\* device moved to another comet.
RemoveFromPool(s) ==
    LET d == devId[s] IN
    /\ Goto(s, "logout", "final") /\ DevlkFree
    /\ devlk' = s
    /\ Sesses' = [Sesses EXCEPT ![d] = NoSess]
    /\ Sids' = Sids \ {s}
    /\ Macs' = [Macs EXCEPT ![d] = NoSess]
    /\ online' = IF beKilled[s] THEN online ELSE online \ {d}
    /\ UNCHANGED <<devId, preSess, killchan, syncchan, killer, closed, beKilled>>

\* final: answer the killer, if one was recorded by now, and release Devlk.
AnswerKiller(s) ==
    /\ Goto(s, "final", "done")
    /\ \/ killer[s] = NoSess /\ UNCHANGED syncchan
       \/ /\ killer[s] # NoSess
          /\ syncchan[killer[s]] < ChanCap
          /\ syncchan' = [syncchan EXCEPT ![killer[s]] = @ + 1]
    /\ devlk' = NoSess
    /\ UNCHANGED <<devId, preSess, killchan, killer, closed, beKilled,
                   Sesses, Macs, Sids, online>>

-----------------------------------------------------------------------------

Step(s) ==
    \/ LookupPreSess(s) \/ SendKillEvent(s) \/ AwaitSync(s) \/ Register(s)
    \/ EnterPool(s) \/ RemoveFromPool(s) \/ AnswerKiller(s)

Next ==
    \/ \E s \in Sess :
        \/ LoginAccepted(s) \/ EndBeforeLogin(s) \/ Step(s)
        \/ ReadError(s) \/ Listen(s)
    \/ \E d \in Devs : NewDevSess(d)

\* Goroutines that can run do run, a contended Devlk is eventually granted to
\* each waiter (sync.RWMutex is fair to writers), a read on a closed connection
\* returns.
Fairness ==
    \A s \in Sess :
        /\ SF_vars(Step(s))
        /\ WF_vars(Listen(s))
        /\ WF_vars(closed[s] /\ ReadError(s))

Spec == Init /\ [][Next]_vars /\ Fairness

-----------------------------------------------------------------------------
(* Properties                                                              *)

\* devLogout deletes by key, so a session must never be left behind under its
\* device's id: a login that killed it would wait on it forever.  What the
\* pool holds for a device is a session of that device whose devLogout has
\* not yet run, however logins, kills and logouts overlap.
PoolHoldsLiveSessions ==
    \A d \in Devs : Sesses[d] # NoSess =>
        devId[Sesses[d]] = d /\ pc[Sesses[d]] \in {"serve", "logout"}

\* The point of syncchan: a login that found an earlier session registers the
\* device only when that session's devLogout is over, so the deletions by key
\* of the one cannot hit the entries of the other.
HandOver ==
    \A s \in Sess :
        /\ preSess[s] # NoSess
        /\ pc[s] \in {"register", "enter", "serve", "logout", "final", "done"}
        => pc[preSess[s]] = "done"

\* A session that was sent a kill event ends.
KilledSessionEnds ==
    \A s \in Sess : killchan[s] # <<>> ~> pc[s] = "done"

\* "Watch for repeated logins of the device" (devbusi.go:183): a repeated login
\* that waits for the session it kills is answered.
RepeatedLoginProceeds ==
    \A s \in Sess : pc[s] = "wait" ~> pc[s] # "wait"
=============================================================================
