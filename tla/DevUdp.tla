------------------------------- MODULE DevUdp -------------------------------
(***************************************************************************)
(* Devices over UDP: the session pool of a UDP comet and the goroutines    *)
(* that work on it.  Every datagram is handled by a goroutine of its own   *)
(* (RunLoop, Process, handle, opcode02): onSess, onLogin, onSL, onLogout   *)
(* and the heartbeat; every logged in session has a timer whose expiry     *)
(* runs devLogout; messages from other comets make the sentinel and the    *)
(* pub/sub goroutines displace sessions and sub-devices.                   *)
(*                                                                         *)
(* Two locks: Devlk for the pool and, per session, stateLock for its       *)
(* sub-devices.  A main device is known by its mac, so Macs and MacSid are *)
(* keyed by the device; a session's devs and macs are each other's inverse *)
(* and are the one set devs.  Left out: payloads, counters, logging, the   *)
(* notifications to users, and the sequence check of VerifyPack.           *)
(***************************************************************************)
EXTENDS Naturals, FiniteSets

CONSTANTS
    Sess,       \* sessions that onSess may create
    Mains,      \* main devices
    Subs,       \* sub-devices
    Reqs,       \* goroutines handling datagrams (and 0xc7 kills)
    MaxTimers,  \* bound on the timers that are ever made
    Logouts,    \* goroutines that run devLogout for expired timers
    NoSess, NoDev, Free

ASSUME NullAssumption ==
    NoSess \notin Sess /\ NoDev \notin Mains \cup Subs /\ Free \notin Reqs \cup Logouts
ASSUME KindAssumption == Mains \cap Subs = {} /\ Reqs \cap Logouts = {}
ASSUME TimersAssumption == MaxTimers \in Nat \ {0}

VARIABLES
    rpc,        \* where a request goroutine is
    rs,         \* its session
    rdev,       \* the device or sub-device it is about
    rother,     \* onLogin: the other session the sub-device is found in
    made,       \* the sessions made by onSess
    mac,        \* sess.mac
    devId,      \* sess.devId
    devs,       \* sess.devs and sess.macs
    beKilled,   \* sess.beKilled
    ntimers,    \* how many timers assignOffline gave a session; offlineEvent is the last
    armed,      \* the timers of a session that are armed
    lpc, ls,    \* where a devLogout is, and its session
    Sids, Macs, Sesses,     \* the pool
    online,     \* Redis: the devices this comet is listed for
    leaving,    \* sub-devices whose Logout was started by ZiDevOnline and has not run
    devlk,      \* who holds Devlk
    stateLock   \* who holds a session's stateLock

reqVars == <<rpc, rs, rdev, rother>>
sessVars == <<made, mac, devId, beKilled>>
timerVars == <<ntimers, armed>>
logoutVars == <<lpc, ls>>
poolVars == <<Sids, Macs, Sesses>>
redisVars == <<online, leaving>>
vars == <<reqVars, sessVars, devs, timerVars, logoutVars, poolVars, redisVars, devlk, stateLock>>

Timers == 1..MaxTimers
Threads == Reqs \cup Logouts

ReqPCs == {"idle", "newsess", "post", "enter", "arm",
           "find", "evict", "evict_pool", "state", "sub_pool", "sub_done", "update"}
LogoutPCs == {"idle", "offline_msg", "devlk", "remove"}

TypeOK ==
    /\ rpc \in [Reqs -> ReqPCs]
    /\ rs \in [Reqs -> Sess \cup {NoSess}]
    /\ rdev \in [Reqs -> Mains \cup Subs \cup {NoDev}]
    /\ rother \in [Reqs -> Sess \cup {NoSess}]
    /\ made \subseteq Sess
    /\ mac \in [Sess -> Mains \cup {NoDev}]
    /\ devId \in [Sess -> Mains \cup {NoDev}]
    /\ devs \in [Sess -> SUBSET Subs]
    /\ beKilled \in [Sess -> BOOLEAN]
    /\ ntimers \in [Sess -> 0..MaxTimers]
    /\ armed \in [Sess -> SUBSET Timers]
    /\ lpc \in [Logouts -> LogoutPCs]
    /\ ls \in [Logouts -> Sess \cup {NoSess}]
    /\ Sids \subseteq Sess
    /\ Macs \in [Mains -> Sess \cup {NoSess}]
    /\ Sesses \in [Mains \cup Subs -> Sess \cup {NoSess}]
    /\ online \subseteq Mains \cup Subs
    /\ leaving \subseteq Subs
    /\ devlk \in Threads \cup {Free}
    /\ stateLock \in [Sess -> Threads \cup {Free}]

Init ==
    /\ rpc = [r \in Reqs |-> "idle"]
    /\ rs = [r \in Reqs |-> NoSess]
    /\ rdev = [r \in Reqs |-> NoDev]
    /\ rother = [r \in Reqs |-> NoSess]
    /\ made = {}
    /\ mac = [s \in Sess |-> NoDev]
    /\ devId = [s \in Sess |-> NoDev]
    /\ devs = [s \in Sess |-> {}]
    /\ beKilled = [s \in Sess |-> FALSE]
    /\ ntimers = [s \in Sess |-> 0]
    /\ armed = [s \in Sess |-> {}]
    /\ lpc = [l \in Logouts |-> "idle"]
    /\ ls = [l \in Logouts |-> NoSess]
    /\ Sids = {}
    /\ Macs = [d \in Mains |-> NoSess]
    /\ Sesses = [d \in Mains \cup Subs |-> NoSess]
    /\ online = {}
    /\ leaving = {}
    /\ devlk = Free
    /\ stateLock = [s \in Sess |-> Free]

Goto(r, from, to) == rpc[r] = from /\ rpc' = [rpc EXCEPT ![r] = to]

\* A goroutine ends: its locals are forgotten.
Return(r) ==
    /\ rpc' = [rpc EXCEPT ![r] = "idle"]
    /\ rs' = [rs EXCEPT ![r] = NoSess]
    /\ rdev' = [rdev EXCEPT ![r] = NoDev]
    /\ rother' = [rother EXCEPT ![r] = NoSess]

-----------------------------------------------------------------------------
(* onSess                                                                  *)

\* The unlocked look into Macs: a known mac gets its session's sid again.
OnSess(r, d) ==
    /\ rpc[r] = "idle" /\ Macs[d] = NoSess
    /\ Goto(r, "idle", "newsess")
    /\ rdev' = [rdev EXCEPT ![r] = d]
    /\ UNCHANGED <<rs, rother, sessVars, devs, timerVars, logoutVars, poolVars, redisVars, devlk, stateLock>>

\* newDevSession and DevSessions.add, under Devlk.
AddSess(r) ==
    /\ rpc[r] = "newsess" /\ devlk = Free
    /\ \E s \in Sess \ made :
        /\ made' = made \cup {s}
        /\ mac' = [mac EXCEPT ![s] = rdev[r]]
        /\ Sids' = Sids \cup {s}
        /\ Macs' = [Macs EXCEPT ![rdev[r]] = s]
    /\ Return(r)
    /\ UNCHANGED <<devId, beKilled, devs, timerVars, logoutVars, Sesses, redisVars, devlk, stateLock>>

-----------------------------------------------------------------------------
(* onLogin of the main device                                              *)

\* Byte2Sess finds the session by its sid.  A device already logged in gets
\* the cached answer; a first login goes to the HTTP service.
OnLogin(r, s) ==
    /\ rpc[r] = "idle" /\ s \in Sids
    /\ rs' = [rs EXCEPT ![r] = s]
    /\ \/ devId[s] = NoDev /\ Goto(r, "idle", "post")
       \/ devId[s] # NoDev /\ Goto(r, "idle", "update")
    /\ UNCHANGED <<rdev, rother, sessVars, devs, timerVars, logoutVars, poolVars, redisVars, devlk, stateLock>>

\* The HTTP service answers: the login fails, or devId is assigned.
HttpAnswer(r) ==
    /\ \/ Goto(r, "post", "update") /\ UNCHANGED devId
       \/ /\ Goto(r, "post", "enter")
          /\ devId' = [devId EXCEPT ![rs[r]] = mac[rs[r]]]
    /\ UNCHANGED <<rs, rdev, rother, made, mac, beKilled, devs, timerVars, logoutVars,
                   poolVars, redisVars, devlk, stateLock>>

\* Sesses and the Redis login, under Devlk.
EnterPool(r) ==
    LET s == rs[r] IN
    /\ Goto(r, "enter", "arm") /\ devlk = Free
    /\ Sesses' = [Sesses EXCEPT ![devId[s]] = s]
    /\ online' = online \cup {devId[s]}
    /\ UNCHANGED <<rs, rdev, rother, sessVars, devs, timerVars, logoutVars, Sids, Macs, devlk, stateLock, leaving>>

\* assignOffline: a new timer, which offlineEvent now names.
AssignOffline(r) ==
    LET s == rs[r] IN
    /\ Goto(r, "arm", "update")
    /\ Cardinality({p \in Sess \X Timers : p[2] <= ntimers[p[1]]}) < MaxTimers
    /\ ntimers' = [ntimers EXCEPT ![s] = @ + 1]
    /\ armed' = [armed EXCEPT ![s] = @ \cup {ntimers[s] + 1}]
    /\ UNCHANGED <<rs, rdev, rother, sessVars, devs, logoutVars, poolVars, redisVars, devlk, stateLock>>

\* handle: sess.Update resets offlineEvent, if there is one, fired or not.
Rearm(s) ==
    armed' = [armed EXCEPT ![s] = IF ntimers[s] = 0 THEN @ ELSE @ \cup {ntimers[s]}]

\* Variant of Update: the timer is left as it is.
Update_NoReset(r) ==
    /\ rpc[r] = "update"
    /\ Return(r)
    /\ UNCHANGED <<sessVars, devs, timerVars, logoutVars, poolVars, redisVars, devlk, stateLock>>

Update(r) ==
    /\ rpc[r] = "update"
    /\ Rearm(rs[r])
    /\ Return(r)
    /\ UNCHANGED <<sessVars, devs, ntimers, logoutVars, poolVars, redisVars, devlk, stateLock>>

\* A heartbeat, or any other request that only updates the session.
OnHeartBeat(r, s) ==
    /\ s \in Sids /\ devId[s] # NoDev
    /\ Goto(r, "idle", "update")
    /\ rs' = [rs EXCEPT ![r] = s]
    /\ UNCHANGED <<rdev, rother, sessVars, devs, timerVars, logoutVars, poolVars, redisVars, devlk, stateLock>>

-----------------------------------------------------------------------------
(* Sub-devices: onLogin for a sub-device, onSL, onLogout                   *)

\* onLogin first looks, unlocked, for another session of the sub-device;
\* onSL does not.
OnSubLogin(r, s, x) ==
    /\ s \in Sids /\ devId[s] # NoDev
    /\ Goto(r, "idle", "find")
    /\ rs' = [rs EXCEPT ![r] = s]
    /\ rdev' = [rdev EXCEPT ![r] = x]
    /\ UNCHANGED <<rother, sessVars, devs, timerVars, logoutVars, poolVars, redisVars, devlk, stateLock>>

OnSL(r, s, x) ==
    /\ s \in Sids /\ devId[s] # NoDev
    /\ Goto(r, "idle", "state")
    /\ rs' = [rs EXCEPT ![r] = s]
    /\ rdev' = [rdev EXCEPT ![r] = x]
    /\ UNCHANGED <<rother, sessVars, devs, timerVars, logoutVars, poolVars, redisVars, devlk, stateLock>>

FindSubSess(r) ==
    LET other == Sesses[rdev[r]] IN
    /\ rpc[r] = "find"
    /\ \/ other \in {NoSess, rs[r]} /\ Goto(r, "find", "state") /\ UNCHANGED rother
       \/ /\ other \notin {NoSess, rs[r]}
          /\ Goto(r, "find", "evict")
          /\ rother' = [rother EXCEPT ![r] = other]
    /\ UNCHANGED <<rs, rdev, sessVars, devs, timerVars, logoutVars, poolVars, redisVars, devlk, stateLock>>

\* subdevlogout is over: onLogin goes on, the sentinel's goroutine returns.
Evicted(r) ==
    \/ rs[r] = NoSess /\ Return(r)
    \/ /\ rs[r] # NoSess
       /\ rpc' = [rpc EXCEPT ![r] = "state"]
       /\ rother' = [rother EXCEPT ![r] = NoSess]
       /\ UNCHANGED <<rs, rdev>>

\* subdevlogout(other, x): stateLock of the other session ...
EvictSub(r) ==
    LET o == rother[r] IN
    /\ rpc[r] = "evict" /\ stateLock[o] = Free
    /\ \/ /\ rdev[r] \in devs[o]
          /\ Goto(r, "evict", "evict_pool")
          /\ stateLock' = [stateLock EXCEPT ![o] = r]
          /\ devs' = [devs EXCEPT ![o] = @ \ {rdev[r]}]
          /\ online' = online \ {rdev[r]}
          /\ UNCHANGED <<rs, rdev, rother>>
       \/ /\ rdev[r] \notin devs[o]
          /\ Evicted(r)
          /\ UNCHANGED <<stateLock, devs, online>>
    /\ UNCHANGED <<sessVars, timerVars, logoutVars, poolVars, devlk, leaving>>

\* ... and, inside it, Devlk.
EvictSubFromPool(r) ==
    /\ rpc[r] = "evict_pool" /\ devlk = Free
    /\ Evicted(r)
    /\ Sesses' = [Sesses EXCEPT ![rdev[r]] = NoSess]
    /\ stateLock' = [stateLock EXCEPT ![rother[r]] = Free]
    /\ UNCHANGED <<sessVars, devs, timerVars, logoutVars, Sids, Macs, redisVars, devlk>>

\* sess.stateLock; a sub-device already there is a redundant login.  The lock
\* is kept through the announcement and its 300 ms pause.
LockState(r) ==
    LET s == rs[r] IN
    /\ rpc[r] = "state" /\ stateLock[s] = Free
    /\ \/ /\ rdev[r] \notin devs[s]
          /\ Goto(r, "state", "sub_pool")
          /\ stateLock' = [stateLock EXCEPT ![s] = r]
          /\ devs' = [devs EXCEPT ![s] = @ \cup {rdev[r]}]
       \/ /\ rdev[r] \in devs[s]
          /\ Goto(r, "state", "update")
          /\ UNCHANGED <<stateLock, devs>>
    /\ UNCHANGED <<rs, rdev, rother, sessVars, timerVars, logoutVars, poolVars, redisVars, devlk>>

\* Devlk inside stateLock, to enter the sub-device into the pool ...
SubEnterPool(r) ==
    /\ Goto(r, "sub_pool", "sub_done") /\ devlk = Free
    /\ Sesses' = [Sesses EXCEPT ![rdev[r]] = rs[r]]
    /\ UNCHANGED <<rs, rdev, rother, sessVars, devs, timerVars, logoutVars, Sids, Macs, redisVars, devlk, stateLock>>

\* ... then the Redis login; stateLock is released.
SubLoginDone(r) ==
    /\ Goto(r, "sub_done", "update")
    /\ online' = online \cup {rdev[r]}
    /\ stateLock' = [stateLock EXCEPT ![rs[r]] = Free]
    /\ UNCHANGED <<rs, rdev, rother, sessVars, devs, timerVars, logoutVars, poolVars, devlk, leaving>>

\* Variant of OnLogout: no Redis logout.
OnLogout_KeepOnline(r, s, x) ==
    /\ s \in Sids /\ devId[s] # NoDev /\ stateLock[s] = Free
    /\ Goto(r, "idle", "update")
    /\ rs' = [rs EXCEPT ![r] = s]
    /\ devs' = [devs EXCEPT ![s] = @ \ {x}]
    /\ UNCHANGED <<rdev, rother, sessVars, timerVars, logoutVars, poolVars, redisVars, devlk, stateLock>>

\* onLogout: the sub-device leaves its session and Redis, and stays in Sesses.
OnLogout(r, s, x) ==
    /\ s \in Sids /\ devId[s] # NoDev /\ stateLock[s] = Free
    /\ Goto(r, "idle", "update")
    /\ rs' = [rs EXCEPT ![r] = s]
    /\ devs' = [devs EXCEPT ![s] = @ \ {x}]
    /\ online' = IF x \in devs[s] THEN online \ {x} ELSE online
    /\ UNCHANGED <<rdev, rother, sessVars, timerVars, logoutVars, poolVars, devlk, stateLock, leaving>>

-----------------------------------------------------------------------------
(* Messages from other comets                                              *)

\* 0xc7 for a main device: offlineEvent.Reset(0).
KillMain(d) ==
    LET s == Sesses[d] IN
    /\ s # NoSess /\ ntimers[s] > 0
    /\ Rearm(s)
    /\ UNCHANGED <<reqVars, sessVars, devs, ntimers, logoutVars, poolVars, redisVars, devlk, stateLock>>

\* 0xc7 for a sub-device: subdevlogout, by the sentinel's goroutine.
KillSub(r, x) ==
    /\ Sesses[x] # NoSess
    /\ Goto(r, "idle", "evict")
    /\ rdev' = [rdev EXCEPT ![r] = x]
    /\ rother' = [rother EXCEPT ![r] = Sesses[x]]
    /\ UNCHANGED <<rs, sessVars, devs, timerVars, logoutVars, poolVars, redisVars, devlk, stateLock>>

\* NewDevSessChannel: the device has a session on another comet.
NewDevSess(d) ==
    LET s == Macs[d] IN
    /\ s # NoSess
    /\ beKilled' = [beKilled EXCEPT ![s] = TRUE]
    /\ Rearm(s)
    /\ UNCHANGED <<reqVars, made, mac, devId, devs, ntimers, logoutVars, poolVars, redisVars, devlk, stateLock>>

\* ZiDevOnlineChannel: the sub-device has logged in on another comet.  The
\* Redis logout is left to a goroutine of its own.
ZiDevOnline(x) ==
    LET s == Sesses[x] IN
    /\ s # NoSess /\ stateLock[s] = Free /\ x \in devs[s]
    /\ devs' = [devs EXCEPT ![s] = @ \ {x}]
    /\ leaving' = leaving \cup {x}
    /\ UNCHANGED <<reqVars, sessVars, timerVars, logoutVars, poolVars, online, devlk, stateLock>>

ZiDevLogout(x) ==
    /\ x \in leaving
    /\ leaving' = leaving \ {x}
    /\ online' = online \ {x}
    /\ UNCHANGED <<reqVars, sessVars, devs, timerVars, logoutVars, poolVars, devlk, stateLock>>

-----------------------------------------------------------------------------
(* The timer and devLogout                                                 *)

LogoutGoto(l, from, to) == lpc[l] = from /\ lpc' = [lpc EXCEPT ![l] = to]

\* time.AfterFunc runs devLogout in a goroutine of its own; a timer that was
\* reset meanwhile can start another one for the same session.
Expire(s, i, l) ==
    /\ i \in armed[s]
    /\ LogoutGoto(l, "idle", "offline_msg")
    /\ ls' = [ls EXCEPT ![l] = s]
    /\ armed' = [armed EXCEPT ![s] = @ \ {i}]
    /\ UNCHANGED <<reqVars, sessVars, devs, ntimers, poolVars, redisVars, devlk, stateLock>>

\* Variant of PushDevOffline: the main device, listed among the sub-devices for
\* the announcement, is not taken off the list again.
PushDevOffline_KeepMain(l) ==
    /\ LogoutGoto(l, "offline_msg", "devlk")
    /\ devs' = [devs EXCEPT ![ls[l]] = @ \cup {devId[ls[l]]}]
    /\ UNCHANGED <<reqVars, sessVars, timerVars, ls, poolVars, redisVars, devlk, stateLock>>

\* PushDevOfflineMsgToUsers: without bound users it returns at once, else it
\* takes stateLock and gives it back.
PushDevOffline(l) ==
    /\ LogoutGoto(l, "offline_msg", "devlk")
    /\ UNCHANGED <<reqVars, sessVars, devs, timerVars, ls, poolVars, redisVars, devlk, stateLock>>

LogoutLock(l) ==
    /\ LogoutGoto(l, "devlk", "remove") /\ devlk = Free
    /\ devlk' = l
    /\ UNCHANGED <<reqVars, sessVars, devs, timerVars, ls, poolVars, redisVars, stateLock>>

\* A variant of LogoutRemove: the pool keeps the mac of the session.
LogoutRemove_KeepMac(l) ==
    LET s == ls[l]
        gone == devs[s] \cup {devId[s]} IN
    /\ lpc[l] = "remove" /\ stateLock[s] = Free
    /\ LogoutGoto(l, "remove", "idle")
    /\ ls' = [ls EXCEPT ![l] = NoSess]
    /\ devs' = [devs EXCEPT ![s] = {}]
    /\ Sesses' = [d \in Mains \cup Subs |-> IF d \in gone THEN NoSess ELSE Sesses[d]]
    /\ Sids' = Sids \ {s}
    /\ online' = online \ (devs[s] \cup IF beKilled[s] THEN {} ELSE {devId[s]})
    /\ devlk' = Free
    /\ UNCHANGED <<reqVars, sessVars, timerVars, Macs, leaving, stateLock>>

\* stateLock inside Devlk: the sub-devices, then the session, by key; no Redis
\* logout of the main device when it moved to another comet.
LogoutRemove(l) ==
    LET s == ls[l]
        gone == devs[s] \cup {devId[s]} IN
    /\ lpc[l] = "remove" /\ stateLock[s] = Free
    /\ LogoutGoto(l, "remove", "idle")
    /\ ls' = [ls EXCEPT ![l] = NoSess]
    /\ devs' = [devs EXCEPT ![s] = {}]
    /\ Sesses' = [d \in Mains \cup Subs |-> IF d \in gone THEN NoSess ELSE Sesses[d]]
    /\ Sids' = Sids \ {s}
    /\ Macs' = [Macs EXCEPT ![mac[s]] = NoSess]
    /\ online' = online \ (devs[s] \cup IF beKilled[s] THEN {} ELSE {devId[s]})
    /\ devlk' = Free
    /\ UNCHANGED <<reqVars, sessVars, timerVars, leaving, stateLock>>

-----------------------------------------------------------------------------

ReqStep(r) ==
    \/ AddSess(r) \/ HttpAnswer(r) \/ EnterPool(r) \/ AssignOffline(r) \/ Update(r)
    \/ FindSubSess(r) \/ EvictSub(r) \/ EvictSubFromPool(r)
    \/ LockState(r) \/ SubEnterPool(r) \/ SubLoginDone(r)

LogoutStep(l) == PushDevOffline(l) \/ LogoutLock(l) \/ LogoutRemove(l)

Next ==
    \/ \E r \in Reqs :
        \/ ReqStep(r)
        \/ \E d \in Mains : OnSess(r, d)
        \/ \E s \in Sess : OnLogin(r, s) \/ OnHeartBeat(r, s)
        \/ \E s \in Sess, x \in Subs : OnSubLogin(r, s, x) \/ OnSL(r, s, x) \/ OnLogout(r, s, x)
        \/ \E x \in Subs : KillSub(r, x)
    \/ \E d \in Mains : KillMain(d) \/ NewDevSess(d)
    \/ \E x \in Subs : ZiDevOnline(x) \/ ZiDevLogout(x)
    \/ \E l \in Logouts :
        \/ LogoutStep(l)
        \/ \E s \in Sess, i \in Timers : Expire(s, i, l)

\* Goroutines that can run do run and a contended lock is granted in turn; no
\* device is obliged to send anything and no timer to expire.
Fairness ==
    /\ \A r \in Reqs : SF_vars(ReqStep(r))
    /\ \A l \in Logouts : SF_vars(LogoutStep(l))

Spec == Init /\ [][Next]_vars /\ Fairness

-----------------------------------------------------------------------------
(* Properties                                                              *)

\* What the pool or Redis messages can still reach a session by.
Held(s) ==
    \/ s \in Sids /\ devId[s] # NoDev
    \/ \E d \in Mains : Sesses[d] = s
    \/ devs[s] # {}

\* No session is leaked: one that has logged in and that the pool still knows,
\* or that still holds a sub-device, has an armed timer, a devLogout under way
\* or a request in progress (which ends by resetting the timer) - also when a
\* request that was let in before devLogout finishes after it.
HeldSessionIsTimed ==
    \A s \in Sess : Held(s) =>
        \/ armed[s] # {}
        \/ \E l \in Logouts : ls[l] = s
        \/ \E r \in Reqs : rs[r] = s

\* onSess answers a known mac with that session's sid and nothing else ever
\* replaces the session, so the device would be locked out for good if Macs
\* led to a session that Byte2Sess no longer finds.
MacLeadsToLiveSession ==
    \A d \in Mains : Macs[d] # NoSess => Macs[d] \in Sids

\* No ghost devices: what Redis lists as online on this comet is held by a
\* session - a sub-device by one that has it, a main device by one that is not
\* yet logged out - except a sub-device whose logout is on its way, or a main
\* device that moved to another comet, whose entry that comet has taken over.
OnlineDeviceIsHeld ==
    /\ \A x \in online \cap Subs : x \in leaving \/ \E s \in Sess : x \in devs[s]
    /\ \A d \in online \cap Mains :
        \E s \in Sess : devId[s] = d /\ (Held(s) \/ beKilled[s] \/ \E r \in Reqs : rs[r] = s)

\* The expiry time of a client's UDP port (cpm/main.go:58): once a session's
\* timer has expired, the session leaves the pool.
ExpiredSessionLeaves ==
    \A s \in Sess, l \in Logouts : ls[l] = s ~> s \notin Sids
=============================================================================
