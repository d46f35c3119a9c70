--------------------------- MODULE DevUdp_proofs ---------------------------
(***************************************************************************)
(* Proofs about DevUdp, for any sessions, devices and goroutines: the      *)
(* types, that no session which still holds something is left without a    *)
(* timer, that a known mac leads to a live session, and that every device  *)
(* Redis lists is held by a session.                                       *)
(*                                                                         *)
(* The invariant says what a goroutine may rely on between its locked      *)
(* parts: its registers are filled, devId once assigned is the session's   *)
(* mac for good, the holder of a stateLock is the one goroutine that has   *)
(* the session's sub-devices in its hands, and a session logged in without *)
(* a timer has a login on its way to assignOffline.                        *)
(***************************************************************************)
EXTENDS DevUdp, FiniteSetTheorems, TLAPS

MainPCs == {"enter", "arm"}
SubPCs == {"find", "state", "sub_pool", "sub_done"}
EvictPCs == {"evict", "evict_pool"}

\* The locals of a request goroutine at each of its steps.
Registers ==
    \A r \in Reqs :
        /\ rpc[r] \in {"idle", "newsess"} => rs[r] = NoSess
        /\ rpc[r] = "newsess" => rdev[r] \in Mains
        /\ rpc[r] \in SubPCs \cup EvictPCs => rdev[r] \in Subs
        /\ rpc[r] \in {"post", "update"} \cup MainPCs \cup SubPCs => rs[r] \in made
        /\ rpc[r] \in MainPCs \cup SubPCs => devId[rs[r]] # NoDev
        /\ rpc[r] \in EvictPCs =>
            /\ rother[r] \in Sess
            /\ rs[r] # NoSess => rs[r] \in made /\ devId[rs[r]] # NoDev

\* A session's mac and, once it has logged in, its devId are one main device.
Identity ==
    /\ Sids \subseteq made
    /\ \A s \in made : mac[s] \in Mains /\ devId[s] \in {NoDev, mac[s]}
    /\ \A s \in Sess \ made : devId[s] = NoDev

\* The pool's maps lead to sessions of the device they are keyed by; nothing is
\* kept for a session that has not logged in.
PoolEntries ==
    /\ \A d \in Mains : Macs[d] # NoSess => mac[Macs[d]] = d /\ Macs[d] \in Sids
    /\ \A d \in Mains : Sesses[d] # NoSess => devId[Sesses[d]] = d
    /\ \A s \in Sess : devs[s] # {} => devId[s] # NoDev

\* Who holds a stateLock, and what the holder may rely on.
Locks ==
    \A r \in Reqs :
        /\ rpc[r] \in {"sub_pool", "sub_done"} =>
            stateLock[rs[r]] = r /\ rdev[r] \in devs[rs[r]]
        /\ rpc[r] = "evict_pool" => stateLock[rother[r]] = r

\* A devLogout has its session until it ends.
LogoutRegisters ==
    \A l \in Logouts : lpc[l] = "idle" <=> ls[l] = NoSess

\* A session logged in without ever having had a timer will get one.
TimerToCome ==
    \A s \in Sess : devId[s] # NoDev /\ ntimers[s] = 0 =>
        \E r \in Reqs : rs[r] = s /\ rpc[r] \in MainPCs

\* Redis lists a main device for a session that the pool leads to, or for one
\* that moved to another comet.
MainOnline ==
    \A d \in online \cap Mains :
        \E s \in Sess : devId[s] = d /\ (beKilled[s] \/ Sesses[d] = s)

\* Redis lists a sub-device for a session that has it, or its logout is due.
SubOnline ==
    \A x \in online \cap Subs : x \in leaving \/ \E s \in Sess : x \in devs[s]

TimersMade == {p \in Sess \X Timers : p[2] <= ntimers[p[1]]}

IInv ==
    /\ TypeOK
    /\ IsFiniteSet(TimersMade)
    /\ Registers
    /\ Identity
    /\ PoolEntries
    /\ Locks
    /\ LogoutRegisters
    /\ TimerToCome
    /\ HeldSessionIsTimed
    /\ MainOnline
    /\ SubOnline

\* assignOffline's guard bounds the timers of every single session.
LEMMA TimersBound ==
    ASSUME ntimers \in [Sess -> 0..MaxTimers], IsFiniteSet(TimersMade),
           Cardinality(TimersMade) < MaxTimers, NEW s \in Sess
    PROVE  ntimers[s] < MaxTimers
<1> USE TimersAssumption
<1> SUFFICES ASSUME ntimers[s] = MaxTimers PROVE FALSE
  OBVIOUS
<1> DEFINE f == [i \in Timers |-> <<s, i>>]
<1>1. f \in Injection(Timers, TimersMade)
  BY DEF TimersMade, Timers, Injection, IsInjective
<1>2. Cardinality(Timers) = MaxTimers
  BY FS_Interval DEF Timers
<1>3. Cardinality(Timers) <= Cardinality(TimersMade)
  BY <1>1, FS_Injection
<1>4. Cardinality(TimersMade) \in Nat
  BY FS_CardinalityType
<1> QED
  BY <1>2, <1>3, <1>4

\* A new timer is one more pair: the timers ever made stay finitely many.
LEMMA TimersMadeStep ==
    ASSUME IInv, [Next]_vars PROVE IsFiniteSet(TimersMade)'
<1> USE DEF IInv, reqVars, sessVars, timerVars, logoutVars, poolVars, redisVars
<1>1. ASSUME NEW r \in Reqs, AssignOffline(r) PROVE IsFiniteSet(TimersMade)'
  <2>1. rs[r] \in Sess /\ ntimers \in [Sess -> 0..MaxTimers]
    BY <1>1 DEF AssignOffline, Goto, TypeOK, Registers, MainPCs
  <2>2. TimersMade' \subseteq TimersMade \cup {<<rs[r], ntimers[rs[r]] + 1>>}
    BY <1>1, <2>1, TimersAssumption DEF AssignOffline, TimersMade, Timers
  <2> QED
    BY <2>2, FS_AddElement, FS_Subset
<1>2. CASE UNCHANGED ntimers
  BY <1>2 DEF TimersMade
<1>3. ASSUME NEW r \in Reqs,
             AddSess(r) \/ HttpAnswer(r) \/ EnterPool(r) \/ Update(r)
              \/ FindSubSess(r) \/ EvictSub(r) \/ EvictSubFromPool(r) \/ LockState(r)
              \/ SubEnterPool(r) \/ SubLoginDone(r)
      PROVE  UNCHANGED ntimers
  BY <1>3 DEF AddSess, HttpAnswer, EnterPool, Update, FindSubSess, EvictSub,
       EvictSubFromPool, LockState, SubEnterPool, SubLoginDone
<1>4. ASSUME NEW r \in Reqs, NEW d \in Mains, OnSess(r, d) PROVE UNCHANGED ntimers
  BY <1>4 DEF OnSess
<1>5. ASSUME NEW r \in Reqs, NEW s \in Sess, OnLogin(r, s) \/ OnHeartBeat(r, s)
      PROVE  UNCHANGED ntimers
  BY <1>5 DEF OnLogin, OnHeartBeat
<1>6. ASSUME NEW r \in Reqs, NEW s \in Sess, NEW x \in Subs,
             OnSubLogin(r, s, x) \/ OnSL(r, s, x) \/ OnLogout(r, s, x)
      PROVE  UNCHANGED ntimers
  BY <1>6 DEF OnSubLogin, OnSL, OnLogout
<1>7. ASSUME NEW r \in Reqs, NEW x \in Subs, KillSub(r, x) PROVE UNCHANGED ntimers
  BY <1>7 DEF KillSub
<1>8. ASSUME NEW d \in Mains, KillMain(d) \/ NewDevSess(d) PROVE UNCHANGED ntimers
  BY <1>8 DEF KillMain, NewDevSess
<1>9. ASSUME NEW x \in Subs, ZiDevOnline(x) \/ ZiDevLogout(x) PROVE UNCHANGED ntimers
  BY <1>9 DEF ZiDevOnline, ZiDevLogout
<1>10. ASSUME NEW l \in Logouts, PushDevOffline(l) \/ LogoutLock(l) \/ LogoutRemove(l)
      PROVE  UNCHANGED ntimers
  BY <1>10 DEF PushDevOffline, LogoutLock, LogoutRemove
<1>11. ASSUME NEW s \in Sess, NEW i \in Timers, NEW l \in Logouts, Expire(s, i, l)
      PROVE  UNCHANGED ntimers
  BY <1>11, SMTT(30) DEF Expire
<1> QED
  BY <1>1, <1>2, <1>3, <1>4, <1>5, <1>6, <1>7, <1>8, <1>9, <1>10, <1>11
  DEF Next, ReqStep, LogoutStep, vars

\* The types; AssignOffline rests on TimersBound.
LEMMA TypesStep == ASSUME IInv, [Next]_vars PROVE TypeOK'
<1> USE NullAssumption, KindAssumption, TimersAssumption
    DEF IInv, TypeOK, Registers, MainPCs, SubPCs, EvictPCs, Identity, LogoutRegisters,
        ReqPCs, LogoutPCs, Timers, Threads, reqVars, sessVars, timerVars, logoutVars,
        poolVars, redisVars, Goto, Return
<1>1. ASSUME NEW r \in Reqs, AddSess(r) PROVE TypeOK'
  BY <1>1 DEF AddSess
<1>2. ASSUME NEW r \in Reqs, HttpAnswer(r) PROVE TypeOK'
  BY <1>2 DEF HttpAnswer
<1>3. ASSUME NEW r \in Reqs, EnterPool(r) PROVE TypeOK'
  BY <1>3 DEF EnterPool
<1>4. ASSUME NEW r \in Reqs, AssignOffline(r) PROVE TypeOK'
  <2>1. rs[r] \in Sess
    BY <1>4 DEF AssignOffline
  <2>2. ntimers[rs[r]] \in 0..MaxTimers /\ ntimers[rs[r]] < MaxTimers
    BY <1>4, <2>1, TimersBound DEF AssignOffline, TimersMade
  <2>3. ntimers' \in [Sess -> 0..MaxTimers] /\ armed' \in [Sess -> SUBSET Timers]
    BY <1>4, <2>1, <2>2 DEF AssignOffline
  <2> QED
    BY <1>4, <2>3 DEF AssignOffline
<1>5. ASSUME NEW r \in Reqs, Update(r) PROVE TypeOK'
  BY <1>5 DEF Update, Rearm
<1>6. ASSUME NEW r \in Reqs, FindSubSess(r) PROVE TypeOK'
  BY <1>6, SMTT(30) DEF FindSubSess
<1>7. ASSUME NEW r \in Reqs, EvictSub(r) PROVE TypeOK'
  BY <1>7, SMTT(30) DEF EvictSub, Evicted
<1>8. ASSUME NEW r \in Reqs, EvictSubFromPool(r) PROVE TypeOK'
  BY <1>8, SMTT(30) DEF EvictSubFromPool, Evicted
<1>9. ASSUME NEW r \in Reqs, LockState(r) PROVE TypeOK'
  <2>1. rs[r] \in Sess /\ rdev[r] \in Subs
    BY <1>9 DEF LockState
  <2>2. devs' \in [Sess -> SUBSET Subs]
    BY <1>9, <2>1 DEF LockState
  <2>3. stateLock' \in [Sess -> Threads \cup {Free}]
    BY <1>9, <2>1 DEF LockState
  <2>4. rpc' \in [Reqs -> ReqPCs]
    BY <1>9 DEF LockState
  <2> QED
    BY <1>9, <2>2, <2>3, <2>4 DEF LockState
<1>10. ASSUME NEW r \in Reqs, SubEnterPool(r) PROVE TypeOK'
  BY <1>10 DEF SubEnterPool
<1>11. ASSUME NEW r \in Reqs, SubLoginDone(r) PROVE TypeOK'
  BY <1>11 DEF SubLoginDone
<1>12. ASSUME NEW r \in Reqs, NEW d \in Mains, OnSess(r, d) PROVE TypeOK'
  BY <1>12 DEF OnSess
<1>13. ASSUME NEW r \in Reqs, NEW s \in Sess, OnLogin(r, s) PROVE TypeOK'
  BY <1>13 DEF OnLogin
<1>14. ASSUME NEW r \in Reqs, NEW s \in Sess, OnHeartBeat(r, s) PROVE TypeOK'
  BY <1>14 DEF OnHeartBeat
<1>15. ASSUME NEW r \in Reqs, NEW s \in Sess, NEW x \in Subs, OnSubLogin(r, s, x)
      PROVE  TypeOK'
  BY <1>15 DEF OnSubLogin
<1>16. ASSUME NEW r \in Reqs, NEW s \in Sess, NEW x \in Subs, OnSL(r, s, x) PROVE TypeOK'
  BY <1>16 DEF OnSL
<1>17. ASSUME NEW r \in Reqs, NEW s \in Sess, NEW x \in Subs, OnLogout(r, s, x)
      PROVE  TypeOK'
  BY <1>17 DEF OnLogout
<1>18. ASSUME NEW r \in Reqs, NEW x \in Subs, KillSub(r, x) PROVE TypeOK'
  BY <1>18 DEF KillSub
<1>19. ASSUME NEW d \in Mains, KillMain(d) PROVE TypeOK'
  BY <1>19 DEF KillMain, Rearm
<1>20. ASSUME NEW d \in Mains, NewDevSess(d) PROVE TypeOK'
  BY <1>20 DEF NewDevSess, Rearm
<1>21. ASSUME NEW x \in Subs, ZiDevOnline(x) PROVE TypeOK'
  BY <1>21 DEF ZiDevOnline
<1>22. ASSUME NEW x \in Subs, ZiDevLogout(x) PROVE TypeOK'
  BY <1>22 DEF ZiDevLogout
<1>23. ASSUME NEW l \in Logouts, PushDevOffline(l) PROVE TypeOK'
  BY <1>23 DEF PushDevOffline, LogoutGoto
<1>24. ASSUME NEW l \in Logouts, LogoutLock(l) PROVE TypeOK'
  BY <1>24 DEF LogoutLock, LogoutGoto
<1>25. ASSUME NEW l \in Logouts, LogoutRemove(l) PROVE TypeOK'
  BY <1>25 DEF LogoutRemove, LogoutGoto
<1>26. ASSUME NEW s \in Sess, NEW i \in Timers, NEW l \in Logouts, Expire(s, i, l)
      PROVE  TypeOK'
  BY <1>26 DEF Expire, LogoutGoto
<1>27. CASE UNCHANGED <<reqVars, sessVars, devs, timerVars, logoutVars,
                       poolVars, redisVars, devlk, stateLock>>
  BY <1>27
<1> QED
  BY <1>1, <1>2, <1>3, <1>4, <1>5, <1>6, <1>7, <1>8, <1>9, <1>10, <1>11, <1>12, <1>13,
     <1>14, <1>15, <1>16, <1>17, <1>18, <1>19, <1>20, <1>21, <1>22, <1>23, <1>24, <1>25,
     <1>26, <1>27
  DEF Next, ReqStep, LogoutStep, vars

\* The locals of the request goroutines.
LEMMA RegistersStep == ASSUME IInv, [Next]_vars PROVE Registers'
<1> USE NullAssumption, KindAssumption, TimersAssumption
    DEF IInv, TypeOK, Registers, MainPCs, SubPCs, EvictPCs, Identity, reqVars, sessVars,
        timerVars, logoutVars, poolVars, redisVars, Goto, Return
<1>1. ASSUME NEW r \in Reqs, AddSess(r) PROVE Registers'
  BY <1>1 DEF AddSess
<1>2. ASSUME NEW r \in Reqs, HttpAnswer(r) PROVE Registers'
  BY <1>2 DEF HttpAnswer
<1>3. ASSUME NEW r \in Reqs, EnterPool(r) PROVE Registers'
  BY <1>3 DEF EnterPool
<1>4. ASSUME NEW r \in Reqs, AssignOffline(r) PROVE Registers'
  BY <1>4 DEF AssignOffline
<1>5. ASSUME NEW r \in Reqs, Update(r) PROVE Registers'
  BY <1>5 DEF Update, Rearm
<1>6. ASSUME NEW r \in Reqs, FindSubSess(r) PROVE Registers'
  BY <1>6 DEF FindSubSess
<1>7. ASSUME NEW r \in Reqs, EvictSub(r) PROVE Registers'
  BY <1>7 DEF EvictSub, Evicted
<1>8. ASSUME NEW r \in Reqs, EvictSubFromPool(r) PROVE Registers'
  BY <1>8 DEF EvictSubFromPool, Evicted
<1>9. ASSUME NEW r \in Reqs, LockState(r) PROVE Registers'
  BY <1>9 DEF LockState
<1>10. ASSUME NEW r \in Reqs, SubEnterPool(r) PROVE Registers'
  BY <1>10 DEF SubEnterPool
<1>11. ASSUME NEW r \in Reqs, SubLoginDone(r) PROVE Registers'
  BY <1>11 DEF SubLoginDone
<1>12. ASSUME NEW r \in Reqs, NEW d \in Mains, OnSess(r, d) PROVE Registers'
  BY <1>12 DEF OnSess
<1>13. ASSUME NEW r \in Reqs, NEW s \in Sess, OnLogin(r, s) PROVE Registers'
  BY <1>13 DEF OnLogin
<1>14. ASSUME NEW r \in Reqs, NEW s \in Sess, OnHeartBeat(r, s) PROVE Registers'
  BY <1>14 DEF OnHeartBeat
<1>15. ASSUME NEW r \in Reqs, NEW s \in Sess, NEW x \in Subs, OnSubLogin(r, s, x)
      PROVE  Registers'
  BY <1>15 DEF OnSubLogin
<1>16. ASSUME NEW r \in Reqs, NEW s \in Sess, NEW x \in Subs, OnSL(r, s, x)
      PROVE  Registers'
  BY <1>16 DEF OnSL
<1>17. ASSUME NEW r \in Reqs, NEW s \in Sess, NEW x \in Subs, OnLogout(r, s, x)
      PROVE  Registers'
  BY <1>17 DEF OnLogout
<1>18. ASSUME NEW r \in Reqs, NEW x \in Subs, KillSub(r, x) PROVE Registers'
  BY <1>18 DEF KillSub
<1>19. CASE UNCHANGED <<reqVars, made, devId>>
  BY <1>19
<1>20. ASSUME NEW d \in Mains, KillMain(d) \/ NewDevSess(d)
      PROVE  UNCHANGED <<reqVars, made, devId>>
  BY <1>20 DEF KillMain, NewDevSess
<1>21. ASSUME NEW x \in Subs, ZiDevOnline(x) \/ ZiDevLogout(x)
      PROVE  UNCHANGED <<reqVars, made, devId>>
  BY <1>21 DEF ZiDevOnline, ZiDevLogout
<1>22. ASSUME NEW l \in Logouts, PushDevOffline(l) \/ LogoutLock(l) \/ LogoutRemove(l)
      PROVE  UNCHANGED <<reqVars, made, devId>>
  BY <1>22 DEF PushDevOffline, LogoutLock, LogoutRemove
<1>23. ASSUME NEW s \in Sess, NEW i \in Timers, NEW l \in Logouts, Expire(s, i, l)
      PROVE  UNCHANGED <<reqVars, made, devId>>
  BY <1>23 DEF Expire
<1> QED
  BY <1>1, <1>2, <1>3, <1>4, <1>5, <1>6, <1>7, <1>8, <1>9, <1>10, <1>11, <1>12, <1>13,
     <1>14, <1>15, <1>16, <1>17, <1>18, <1>19, <1>20, <1>21, <1>22, <1>23
  DEF Next, ReqStep, LogoutStep, vars

\* mac and devId: HttpAnswer assigns what a second login would assign again.
LEMMA IdentityStep == ASSUME IInv, [Next]_vars PROVE Identity'
<1> USE NullAssumption, KindAssumption, TimersAssumption
    DEF IInv, TypeOK, Registers, MainPCs, SubPCs, EvictPCs, Identity, reqVars, sessVars,
        timerVars, logoutVars, poolVars, redisVars, Goto, Return
<1>1. ASSUME NEW r \in Reqs, AddSess(r) PROVE Identity'
  BY <1>1 DEF AddSess
<1>2. ASSUME NEW r \in Reqs, HttpAnswer(r) PROVE Identity'
  BY <1>2 DEF HttpAnswer
<1>3. ASSUME NEW l \in Logouts, LogoutRemove(l) PROVE Identity'
  BY <1>3 DEF LogoutRemove, LogoutGoto
<1>4. CASE UNCHANGED <<made, mac, devId, Sids>>
  BY <1>4
<1>5. ASSUME NEW r \in Reqs,
             EnterPool(r) \/ AssignOffline(r) \/ Update(r) \/ FindSubSess(r)
              \/ EvictSub(r) \/ EvictSubFromPool(r) \/ LockState(r) \/ SubEnterPool(r)
              \/ SubLoginDone(r)
      PROVE  UNCHANGED <<made, mac, devId, Sids>>
  BY <1>5 DEF EnterPool, AssignOffline, Update, FindSubSess, EvictSub, EvictSubFromPool,
       LockState, SubEnterPool, SubLoginDone
<1>6. ASSUME NEW r \in Reqs, NEW d \in Mains, OnSess(r, d)
      PROVE  UNCHANGED <<made, mac, devId, Sids>>
  BY <1>6 DEF OnSess
<1>7. ASSUME NEW r \in Reqs, NEW s \in Sess, OnLogin(r, s) \/ OnHeartBeat(r, s)
      PROVE  UNCHANGED <<made, mac, devId, Sids>>
  BY <1>7 DEF OnLogin, OnHeartBeat
<1>8. ASSUME NEW r \in Reqs, NEW s \in Sess, NEW x \in Subs,
             OnSubLogin(r, s, x) \/ OnSL(r, s, x) \/ OnLogout(r, s, x)
      PROVE  UNCHANGED <<made, mac, devId, Sids>>
  BY <1>8 DEF OnSubLogin, OnSL, OnLogout
<1>9. ASSUME NEW r \in Reqs, NEW x \in Subs, KillSub(r, x)
      PROVE  UNCHANGED <<made, mac, devId, Sids>>
  BY <1>9 DEF KillSub
<1>10. ASSUME NEW d \in Mains, KillMain(d) \/ NewDevSess(d)
      PROVE  UNCHANGED <<made, mac, devId, Sids>>
  BY <1>10 DEF KillMain, NewDevSess
<1>11. ASSUME NEW x \in Subs, ZiDevOnline(x) \/ ZiDevLogout(x)
      PROVE  UNCHANGED <<made, mac, devId, Sids>>
  BY <1>11 DEF ZiDevOnline, ZiDevLogout
<1>12. ASSUME NEW l \in Logouts, PushDevOffline(l) \/ LogoutLock(l)
      PROVE  UNCHANGED <<made, mac, devId, Sids>>
  BY <1>12 DEF PushDevOffline, LogoutLock
<1>13. ASSUME NEW s \in Sess, NEW i \in Timers, NEW l \in Logouts, Expire(s, i, l)
      PROVE  UNCHANGED <<made, mac, devId, Sids>>
  BY <1>13 DEF Expire
<1> QED
  BY <1>1, <1>2, <1>3, <1>4, <1>5, <1>6, <1>7, <1>8, <1>9, <1>10, <1>11, <1>12, <1>13
  DEF Next, ReqStep, LogoutStep, vars

\* The pool: devLogout deletes by mac and devId, and leaves no entry of its session.
LEMMA PoolEntriesStep == ASSUME IInv, [Next]_vars PROVE PoolEntries'
<1> USE NullAssumption, KindAssumption, TimersAssumption
    DEF IInv, TypeOK, Registers, MainPCs, SubPCs, EvictPCs, Identity, PoolEntries,
        reqVars, sessVars, timerVars, logoutVars, poolVars, redisVars, Goto, Return
<1>1. ASSUME NEW r \in Reqs, AddSess(r) PROVE PoolEntries'
  BY <1>1 DEF AddSess
<1>2. ASSUME NEW r \in Reqs, HttpAnswer(r) PROVE PoolEntries'
  BY <1>2 DEF HttpAnswer
<1>3. ASSUME NEW r \in Reqs, EnterPool(r) PROVE PoolEntries'
  BY <1>3 DEF EnterPool
<1>4. ASSUME NEW r \in Reqs, EvictSub(r) PROVE PoolEntries'
  BY <1>4 DEF EvictSub, Evicted
<1>5. ASSUME NEW r \in Reqs, EvictSubFromPool(r) PROVE PoolEntries'
  BY <1>5 DEF EvictSubFromPool, Evicted
<1>6. ASSUME NEW r \in Reqs, LockState(r) PROVE PoolEntries'
  BY <1>6 DEF LockState
<1>7. ASSUME NEW r \in Reqs, SubEnterPool(r) PROVE PoolEntries'
  BY <1>7 DEF SubEnterPool
<1>8. ASSUME NEW r \in Reqs, NEW s \in Sess, NEW x \in Subs, OnLogout(r, s, x)
      PROVE  PoolEntries'
  BY <1>8 DEF OnLogout
<1>9. ASSUME NEW x \in Subs, ZiDevOnline(x) PROVE PoolEntries'
  BY <1>9 DEF ZiDevOnline
<1>10. ASSUME NEW l \in Logouts, LogoutRemove(l) PROVE PoolEntries'
  BY <1>10 DEF LogoutRemove, LogoutGoto
<1>11. CASE UNCHANGED <<mac, devId, devs, poolVars>>
  BY <1>11
<1>12. ASSUME NEW r \in Reqs,
             AssignOffline(r) \/ Update(r) \/ FindSubSess(r) \/ SubLoginDone(r)
      PROVE  UNCHANGED <<mac, devId, devs, poolVars>>
  BY <1>12 DEF AssignOffline, Update, FindSubSess, SubLoginDone
<1>13. ASSUME NEW r \in Reqs, NEW d \in Mains, OnSess(r, d)
      PROVE  UNCHANGED <<mac, devId, devs, poolVars>>
  BY <1>13 DEF OnSess
<1>14. ASSUME NEW r \in Reqs, NEW s \in Sess, OnLogin(r, s) \/ OnHeartBeat(r, s)
      PROVE  UNCHANGED <<mac, devId, devs, poolVars>>
  BY <1>14 DEF OnLogin, OnHeartBeat
<1>15. ASSUME NEW r \in Reqs, NEW s \in Sess, NEW x \in Subs,
             OnSubLogin(r, s, x) \/ OnSL(r, s, x)
      PROVE  UNCHANGED <<mac, devId, devs, poolVars>>
  BY <1>15 DEF OnSubLogin, OnSL
<1>16. ASSUME NEW r \in Reqs, NEW x \in Subs, KillSub(r, x)
      PROVE  UNCHANGED <<mac, devId, devs, poolVars>>
  BY <1>16 DEF KillSub
<1>17. ASSUME NEW d \in Mains, KillMain(d) \/ NewDevSess(d)
      PROVE  UNCHANGED <<mac, devId, devs, poolVars>>
  BY <1>17 DEF KillMain, NewDevSess
<1>18. ASSUME NEW x \in Subs, ZiDevLogout(x)
      PROVE  UNCHANGED <<mac, devId, devs, poolVars>>
  BY <1>18 DEF ZiDevLogout
<1>19. ASSUME NEW l \in Logouts, PushDevOffline(l) \/ LogoutLock(l)
      PROVE  UNCHANGED <<mac, devId, devs, poolVars>>
  BY <1>19 DEF PushDevOffline, LogoutLock
<1>20. ASSUME NEW s \in Sess, NEW i \in Timers, NEW l \in Logouts, Expire(s, i, l)
      PROVE  UNCHANGED <<mac, devId, devs, poolVars>>
  BY <1>20 DEF Expire
<1> QED
  BY <1>1, <1>2, <1>3, <1>4, <1>5, <1>6, <1>7, <1>8, <1>9, <1>10, <1>11, <1>12, <1>13,
     <1>14, <1>15, <1>16, <1>17, <1>18, <1>19, <1>20
  DEF Next, ReqStep, LogoutStep, vars

\* stateLock: whoever takes a sub-device away waits for it.
LEMMA LocksStep == ASSUME IInv, [Next]_vars PROVE Locks'
<1> USE NullAssumption, KindAssumption, TimersAssumption
    DEF IInv, TypeOK, Registers, MainPCs, SubPCs, EvictPCs, Locks, reqVars, sessVars,
        timerVars, logoutVars, poolVars, redisVars, Goto, Return
<1>1. ASSUME NEW r \in Reqs, AddSess(r) PROVE Locks'
  BY <1>1 DEF AddSess
<1>2. ASSUME NEW r \in Reqs, HttpAnswer(r) PROVE Locks'
  BY <1>2 DEF HttpAnswer
<1>3. ASSUME NEW r \in Reqs, EnterPool(r) PROVE Locks'
  BY <1>3 DEF EnterPool
<1>4. ASSUME NEW r \in Reqs, AssignOffline(r) PROVE Locks'
  BY <1>4 DEF AssignOffline
<1>5. ASSUME NEW r \in Reqs, Update(r) PROVE Locks'
  BY <1>5 DEF Update, Rearm
<1>6. ASSUME NEW r \in Reqs, FindSubSess(r) PROVE Locks'
  BY <1>6 DEF FindSubSess
<1>7. ASSUME NEW r \in Reqs, EvictSub(r) PROVE Locks'
  BY <1>7 DEF EvictSub, Evicted
<1>8. ASSUME NEW r \in Reqs, EvictSubFromPool(r) PROVE Locks'
  BY <1>8 DEF EvictSubFromPool, Evicted
<1>9. ASSUME NEW r \in Reqs, LockState(r) PROVE Locks'
  BY <1>9 DEF LockState
<1>10. ASSUME NEW r \in Reqs, SubEnterPool(r) PROVE Locks'
  BY <1>10 DEF SubEnterPool
<1>11. ASSUME NEW r \in Reqs, SubLoginDone(r) PROVE Locks'
  BY <1>11 DEF SubLoginDone
<1>12. ASSUME NEW r \in Reqs, NEW d \in Mains, OnSess(r, d) PROVE Locks'
  BY <1>12 DEF OnSess
<1>13. ASSUME NEW r \in Reqs, NEW s \in Sess, OnLogin(r, s) PROVE Locks'
  BY <1>13 DEF OnLogin
<1>14. ASSUME NEW r \in Reqs, NEW s \in Sess, OnHeartBeat(r, s) PROVE Locks'
  BY <1>14 DEF OnHeartBeat
<1>15. ASSUME NEW r \in Reqs, NEW s \in Sess, NEW x \in Subs, OnSubLogin(r, s, x)
      PROVE  Locks'
  BY <1>15 DEF OnSubLogin
<1>16. ASSUME NEW r \in Reqs, NEW s \in Sess, NEW x \in Subs, OnSL(r, s, x) PROVE Locks'
  BY <1>16 DEF OnSL
<1>17. ASSUME NEW r \in Reqs, NEW s \in Sess, NEW x \in Subs, OnLogout(r, s, x)
      PROVE  Locks'
  BY <1>17 DEF OnLogout
<1>18. ASSUME NEW r \in Reqs, NEW x \in Subs, KillSub(r, x) PROVE Locks'
  BY <1>18 DEF KillSub
<1>19. ASSUME NEW x \in Subs, ZiDevOnline(x) PROVE Locks'
  BY <1>19 DEF ZiDevOnline
<1>20. ASSUME NEW l \in Logouts, LogoutRemove(l) PROVE Locks'
  BY <1>20 DEF LogoutRemove, LogoutGoto
<1>21. CASE UNCHANGED <<reqVars, devs, stateLock>>
  BY <1>21
<1>22. ASSUME NEW d \in Mains, KillMain(d) \/ NewDevSess(d)
      PROVE  UNCHANGED <<reqVars, devs, stateLock>>
  BY <1>22 DEF KillMain, NewDevSess
<1>23. ASSUME NEW x \in Subs, ZiDevLogout(x) PROVE UNCHANGED <<reqVars, devs, stateLock>>
  BY <1>23 DEF ZiDevLogout
<1>24. ASSUME NEW l \in Logouts, PushDevOffline(l) \/ LogoutLock(l)
      PROVE  UNCHANGED <<reqVars, devs, stateLock>>
  BY <1>24 DEF PushDevOffline, LogoutLock
<1>25. ASSUME NEW s \in Sess, NEW i \in Timers, NEW l \in Logouts, Expire(s, i, l)
      PROVE  UNCHANGED <<reqVars, devs, stateLock>>
  BY <1>25 DEF Expire
<1> QED
  BY <1>1, <1>2, <1>3, <1>4, <1>5, <1>6, <1>7, <1>8, <1>9, <1>10, <1>11, <1>12, <1>13,
     <1>14, <1>15, <1>16, <1>17, <1>18, <1>19, <1>20, <1>21, <1>22, <1>23, <1>24, <1>25
  DEF Next, ReqStep, LogoutStep, vars

\* A devLogout has its session from the expiry to its last step.
LEMMA LogoutRegistersStep == ASSUME IInv, [Next]_vars PROVE LogoutRegisters'
<1> USE NullAssumption, KindAssumption, TimersAssumption
    DEF IInv, TypeOK, LogoutPCs, LogoutRegisters, reqVars, sessVars, timerVars,
        logoutVars, poolVars, redisVars
<1>1. ASSUME NEW l \in Logouts, PushDevOffline(l) PROVE LogoutRegisters'
  BY <1>1 DEF PushDevOffline, LogoutGoto
<1>2. ASSUME NEW l \in Logouts, LogoutLock(l) PROVE LogoutRegisters'
  BY <1>2 DEF LogoutLock, LogoutGoto
<1>3. ASSUME NEW l \in Logouts, LogoutRemove(l) PROVE LogoutRegisters'
  BY <1>3 DEF LogoutRemove, LogoutGoto
<1>4. ASSUME NEW s \in Sess, NEW i \in Timers, NEW l \in Logouts, Expire(s, i, l)
      PROVE  LogoutRegisters'
  BY <1>4 DEF Expire, LogoutGoto
<1>5. CASE UNCHANGED <<lpc, ls>>
  BY <1>5
<1>6. ASSUME NEW r \in Reqs,
             AddSess(r) \/ HttpAnswer(r) \/ EnterPool(r) \/ AssignOffline(r)
              \/ Update(r) \/ FindSubSess(r) \/ EvictSub(r) \/ EvictSubFromPool(r)
              \/ LockState(r) \/ SubEnterPool(r) \/ SubLoginDone(r)
      PROVE  UNCHANGED <<lpc, ls>>
  BY <1>6 DEF AddSess, HttpAnswer, EnterPool, AssignOffline, Update, FindSubSess,
       EvictSub, EvictSubFromPool, LockState, SubEnterPool, SubLoginDone
<1>7. ASSUME NEW r \in Reqs, NEW d \in Mains, OnSess(r, d) PROVE UNCHANGED <<lpc, ls>>
  BY <1>7 DEF OnSess
<1>8. ASSUME NEW r \in Reqs, NEW s \in Sess, OnLogin(r, s) \/ OnHeartBeat(r, s)
      PROVE  UNCHANGED <<lpc, ls>>
  BY <1>8 DEF OnLogin, OnHeartBeat
<1>9. ASSUME NEW r \in Reqs, NEW s \in Sess, NEW x \in Subs,
             OnSubLogin(r, s, x) \/ OnSL(r, s, x) \/ OnLogout(r, s, x)
      PROVE  UNCHANGED <<lpc, ls>>
  BY <1>9 DEF OnSubLogin, OnSL, OnLogout
<1>10. ASSUME NEW r \in Reqs, NEW x \in Subs, KillSub(r, x) PROVE UNCHANGED <<lpc, ls>>
  BY <1>10 DEF KillSub
<1>11. ASSUME NEW d \in Mains, KillMain(d) \/ NewDevSess(d) PROVE UNCHANGED <<lpc, ls>>
  BY <1>11 DEF KillMain, NewDevSess
<1>12. ASSUME NEW x \in Subs, ZiDevOnline(x) \/ ZiDevLogout(x) PROVE UNCHANGED <<lpc, ls>>
  BY <1>12 DEF ZiDevOnline, ZiDevLogout
<1> QED
  BY <1>1, <1>2, <1>3, <1>4, <1>5, <1>6, <1>7, <1>8, <1>9, <1>10, <1>11, <1>12
  DEF Next, ReqStep, LogoutStep, vars

\* Only a login on its way to assignOffline leaves a logged in session untimed.
LEMMA TimerToComeStep == ASSUME IInv, [Next]_vars PROVE TimerToCome'
<1> USE NullAssumption, KindAssumption, TimersAssumption
    DEF IInv, TypeOK, Registers, MainPCs, SubPCs, EvictPCs, Identity, TimerToCome,
        reqVars, sessVars, timerVars, logoutVars, poolVars, redisVars, Goto, Return
<1>1. ASSUME NEW r \in Reqs, AddSess(r) PROVE TimerToCome'
  BY <1>1 DEF AddSess
<1>2. ASSUME NEW r \in Reqs, HttpAnswer(r) PROVE TimerToCome'
  BY <1>2 DEF HttpAnswer
<1>3. ASSUME NEW r \in Reqs, EnterPool(r) PROVE TimerToCome'
  BY <1>3 DEF EnterPool
<1>4. ASSUME NEW r \in Reqs, AssignOffline(r) PROVE TimerToCome'
  BY <1>4 DEF AssignOffline
<1>5. ASSUME NEW r \in Reqs, Update(r) PROVE TimerToCome'
  BY <1>5 DEF Update, Rearm
<1>6. ASSUME NEW r \in Reqs, FindSubSess(r) PROVE TimerToCome'
  BY <1>6 DEF FindSubSess
<1>7. ASSUME NEW r \in Reqs, EvictSub(r) PROVE TimerToCome'
  BY <1>7 DEF EvictSub, Evicted
<1>8. ASSUME NEW r \in Reqs, EvictSubFromPool(r) PROVE TimerToCome'
  BY <1>8 DEF EvictSubFromPool, Evicted
<1>9. ASSUME NEW r \in Reqs, LockState(r) PROVE TimerToCome'
  BY <1>9 DEF LockState
<1>10. ASSUME NEW r \in Reqs, SubEnterPool(r) PROVE TimerToCome'
  BY <1>10 DEF SubEnterPool
<1>11. ASSUME NEW r \in Reqs, SubLoginDone(r) PROVE TimerToCome'
  BY <1>11 DEF SubLoginDone
<1>12. ASSUME NEW r \in Reqs, NEW d \in Mains, OnSess(r, d) PROVE TimerToCome'
  BY <1>12 DEF OnSess
<1>13. ASSUME NEW r \in Reqs, NEW s \in Sess, OnLogin(r, s) PROVE TimerToCome'
  BY <1>13 DEF OnLogin
<1>14. ASSUME NEW r \in Reqs, NEW s \in Sess, OnHeartBeat(r, s) PROVE TimerToCome'
  BY <1>14 DEF OnHeartBeat
<1>15. ASSUME NEW r \in Reqs, NEW s \in Sess, NEW x \in Subs, OnSubLogin(r, s, x)
      PROVE  TimerToCome'
  BY <1>15 DEF OnSubLogin
<1>16. ASSUME NEW r \in Reqs, NEW s \in Sess, NEW x \in Subs, OnSL(r, s, x)
      PROVE  TimerToCome'
  BY <1>16 DEF OnSL
<1>17. ASSUME NEW r \in Reqs, NEW s \in Sess, NEW x \in Subs, OnLogout(r, s, x)
      PROVE  TimerToCome'
  BY <1>17 DEF OnLogout
<1>18. ASSUME NEW r \in Reqs, NEW x \in Subs, KillSub(r, x) PROVE TimerToCome'
  BY <1>18 DEF KillSub
<1>19. CASE UNCHANGED <<reqVars, devId, ntimers>>
  BY <1>19
<1>20. ASSUME NEW d \in Mains, KillMain(d) \/ NewDevSess(d)
      PROVE  UNCHANGED <<reqVars, devId, ntimers>>
  BY <1>20 DEF KillMain, NewDevSess
<1>21. ASSUME NEW x \in Subs, ZiDevOnline(x) \/ ZiDevLogout(x)
      PROVE  UNCHANGED <<reqVars, devId, ntimers>>
  BY <1>21 DEF ZiDevOnline, ZiDevLogout
<1>22. ASSUME NEW l \in Logouts, PushDevOffline(l) \/ LogoutLock(l) \/ LogoutRemove(l)
      PROVE  UNCHANGED <<reqVars, devId, ntimers>>
  BY <1>22 DEF PushDevOffline, LogoutLock, LogoutRemove
<1>23. ASSUME NEW s \in Sess, NEW i \in Timers, NEW l \in Logouts, Expire(s, i, l)
      PROVE  UNCHANGED <<reqVars, devId, ntimers>>
  BY <1>23 DEF Expire
<1> QED
  BY <1>1, <1>2, <1>3, <1>4, <1>5, <1>6, <1>7, <1>8, <1>9, <1>10, <1>11, <1>12, <1>13,
     <1>14, <1>15, <1>16, <1>17, <1>18, <1>19, <1>20, <1>21, <1>22, <1>23
  DEF Next, ReqStep, LogoutStep, vars

\* The timer of a held session: a request that ends resets it, devLogout empties the
\* session it ends for.
LEMMA HeldStep == ASSUME IInv, [Next]_vars PROVE HeldSessionIsTimed'
<1> USE NullAssumption, KindAssumption, TimersAssumption
    DEF IInv, TypeOK, Registers, MainPCs, SubPCs, EvictPCs, Identity, PoolEntries,
        LogoutRegisters, TimerToCome, HeldSessionIsTimed, Held, reqVars, sessVars,
        timerVars, logoutVars, poolVars, redisVars, Goto, Return
<1>1. ASSUME NEW r \in Reqs, AddSess(r) PROVE HeldSessionIsTimed'
  BY <1>1, SMTT(30) DEF AddSess
<1>2. ASSUME NEW r \in Reqs, HttpAnswer(r) PROVE HeldSessionIsTimed'
  BY <1>2 DEF HttpAnswer
<1>3. ASSUME NEW r \in Reqs, EnterPool(r) PROVE HeldSessionIsTimed'
  BY <1>3 DEF EnterPool
<1>4. ASSUME NEW r \in Reqs, AssignOffline(r) PROVE HeldSessionIsTimed'
  BY <1>4 DEF AssignOffline
<1>5. ASSUME NEW r \in Reqs, Update(r) PROVE HeldSessionIsTimed'
  <2> SUFFICES ASSUME NEW s \in Sess, Held(s)'
               PROVE  \/ armed'[s] # {}
                      \/ \E l \in Logouts : ls'[l] = s
                      \/ \E q \in Reqs : rs'[q] = s
    OBVIOUS
  <2>1. Held(s) /\ devId[s] # NoDev
    BY <1>5 DEF Update
  <2>2. CASE s # rs[r]
    BY <1>5, <2>1, <2>2 DEF Update, Rearm
  <2>3. CASE s = rs[r] /\ ntimers[s] # 0
    BY <1>5, <2>3 DEF Update, Rearm
  <2>4. CASE ntimers[s] = 0
    <3>1. PICK q \in Reqs : rs[q] = s /\ rpc[q] \in MainPCs
      BY <2>1, <2>4
    <3>2. q # r
      BY <1>5, <3>1 DEF Update
    <3> QED
      BY <1>5, <3>1, <3>2 DEF Update
  <2> QED
    BY <2>2, <2>3, <2>4
<1>6. ASSUME NEW r \in Reqs, FindSubSess(r) PROVE HeldSessionIsTimed'
  BY <1>6 DEF FindSubSess
<1>7. ASSUME NEW r \in Reqs, EvictSub(r) PROVE HeldSessionIsTimed'
  BY <1>7 DEF EvictSub, Evicted
<1>8. ASSUME NEW r \in Reqs, EvictSubFromPool(r) PROVE HeldSessionIsTimed'
  BY <1>8 DEF EvictSubFromPool, Evicted
<1>9. ASSUME NEW r \in Reqs, LockState(r) PROVE HeldSessionIsTimed'
  BY <1>9 DEF LockState
<1>10. ASSUME NEW r \in Reqs, SubEnterPool(r) PROVE HeldSessionIsTimed'
  BY <1>10 DEF SubEnterPool
<1>11. ASSUME NEW r \in Reqs, SubLoginDone(r) PROVE HeldSessionIsTimed'
  BY <1>11 DEF SubLoginDone
<1>12. ASSUME NEW r \in Reqs, NEW d \in Mains, OnSess(r, d) PROVE HeldSessionIsTimed'
  BY <1>12 DEF OnSess
<1>13. ASSUME NEW r \in Reqs, NEW s \in Sess, OnLogin(r, s) PROVE HeldSessionIsTimed'
  BY <1>13 DEF OnLogin
<1>14. ASSUME NEW r \in Reqs, NEW s \in Sess, OnHeartBeat(r, s) PROVE HeldSessionIsTimed'
  BY <1>14 DEF OnHeartBeat
<1>15. ASSUME NEW r \in Reqs, NEW s \in Sess, NEW x \in Subs, OnSubLogin(r, s, x)
      PROVE  HeldSessionIsTimed'
  BY <1>15 DEF OnSubLogin
<1>16. ASSUME NEW r \in Reqs, NEW s \in Sess, NEW x \in Subs, OnSL(r, s, x)
      PROVE  HeldSessionIsTimed'
  BY <1>16 DEF OnSL
<1>17. ASSUME NEW r \in Reqs, NEW s \in Sess, NEW x \in Subs, OnLogout(r, s, x)
      PROVE  HeldSessionIsTimed'
  BY <1>17 DEF OnLogout
<1>18. ASSUME NEW r \in Reqs, NEW x \in Subs, KillSub(r, x) PROVE HeldSessionIsTimed'
  BY <1>18 DEF KillSub
<1>19. ASSUME NEW d \in Mains, KillMain(d) PROVE HeldSessionIsTimed'
  BY <1>19 DEF KillMain, Rearm
<1>20. ASSUME NEW d \in Mains, NewDevSess(d) PROVE HeldSessionIsTimed'
  BY <1>20 DEF NewDevSess, Rearm
<1>21. ASSUME NEW x \in Subs, ZiDevOnline(x) PROVE HeldSessionIsTimed'
  BY <1>21 DEF ZiDevOnline
<1>22. ASSUME NEW x \in Subs, ZiDevLogout(x) PROVE HeldSessionIsTimed'
  BY <1>22 DEF ZiDevLogout
<1>23. ASSUME NEW l \in Logouts, PushDevOffline(l) PROVE HeldSessionIsTimed'
  BY <1>23 DEF PushDevOffline, LogoutGoto
<1>24. ASSUME NEW l \in Logouts, LogoutRemove(l) PROVE HeldSessionIsTimed'
  BY <1>24 DEF LogoutRemove, LogoutGoto
<1>25. ASSUME NEW s \in Sess, NEW i \in Timers, NEW l \in Logouts, Expire(s, i, l)
      PROVE  HeldSessionIsTimed'
  BY <1>25 DEF Expire, LogoutGoto
<1>26. CASE UNCHANGED <<reqVars, devId, devs, armed, ls, Sids, Sesses>>
  BY <1>26
<1>27. ASSUME NEW l \in Logouts, LogoutLock(l)
      PROVE  UNCHANGED <<reqVars, devId, devs, armed, ls, Sids, Sesses>>
  BY <1>27 DEF LogoutLock
<1> QED
  BY ZenonT(60), <1>1, <1>2, <1>3, <1>4, <1>5, <1>6, <1>7, <1>8, <1>9, <1>10, <1>11, <1>12, <1>13,
     <1>14, <1>15, <1>16, <1>17, <1>18, <1>19, <1>20, <1>21, <1>22, <1>23, <1>24, <1>25,
     <1>26, <1>27
  DEF Next, ReqStep, LogoutStep, vars

\* Redis and the sessions: devLogout takes a main device off the pool and off Redis,
\* unless another comet has it.
LEMMA OnlineStep == ASSUME IInv, [Next]_vars PROVE (MainOnline /\ SubOnline)'
<1> USE NullAssumption, KindAssumption, TimersAssumption
    DEF IInv, TypeOK, Registers, MainPCs, SubPCs, EvictPCs, Identity, PoolEntries, Locks,
        LogoutRegisters, MainOnline, SubOnline, reqVars, sessVars, timerVars, logoutVars,
        poolVars, redisVars, Goto, Return
<1>1. ASSUME NEW r \in Reqs, HttpAnswer(r) PROVE (MainOnline /\ SubOnline)'
  BY <1>1 DEF HttpAnswer
<1>2. ASSUME NEW r \in Reqs, EnterPool(r) PROVE (MainOnline /\ SubOnline)'
  BY <1>2 DEF EnterPool
<1>3. ASSUME NEW r \in Reqs, EvictSub(r) PROVE (MainOnline /\ SubOnline)'
  BY <1>3 DEF EvictSub, Evicted
<1>4. ASSUME NEW r \in Reqs, EvictSubFromPool(r) PROVE (MainOnline /\ SubOnline)'
  BY <1>4 DEF EvictSubFromPool, Evicted
<1>5. ASSUME NEW r \in Reqs, LockState(r) PROVE (MainOnline /\ SubOnline)'
  BY <1>5 DEF LockState
<1>6. ASSUME NEW r \in Reqs, SubEnterPool(r) PROVE (MainOnline /\ SubOnline)'
  BY <1>6 DEF SubEnterPool
<1>7. ASSUME NEW r \in Reqs, SubLoginDone(r) PROVE (MainOnline /\ SubOnline)'
  BY <1>7 DEF SubLoginDone
<1>8. ASSUME NEW r \in Reqs, NEW s \in Sess, NEW x \in Subs, OnLogout(r, s, x)
      PROVE  (MainOnline /\ SubOnline)'
  BY <1>8 DEF OnLogout
<1>9. ASSUME NEW d \in Mains, NewDevSess(d) PROVE (MainOnline /\ SubOnline)'
  BY <1>9 DEF NewDevSess, Rearm
<1>10. ASSUME NEW x \in Subs, ZiDevOnline(x) PROVE (MainOnline /\ SubOnline)'
  BY <1>10 DEF ZiDevOnline
<1>11. ASSUME NEW x \in Subs, ZiDevLogout(x) PROVE (MainOnline /\ SubOnline)'
  BY <1>11 DEF ZiDevLogout
<1>12. ASSUME NEW l \in Logouts, LogoutRemove(l) PROVE (MainOnline /\ SubOnline)'
  <2>1. ls[l] \in Sess /\ devs[ls[l]] \subseteq Subs
    BY <1>12 DEF LogoutRemove
  <2>2. MainOnline'
    BY <1>12, <2>1 DEF LogoutRemove
  <2>3. SubOnline'
    BY <1>12, <2>1 DEF LogoutRemove
  <2> QED
    BY <2>2, <2>3
<1>13. CASE UNCHANGED <<devId, devs, beKilled, Sesses, redisVars>>
  BY <1>13
<1>14. ASSUME NEW r \in Reqs,
             AddSess(r) \/ AssignOffline(r) \/ Update(r) \/ FindSubSess(r)
      PROVE  UNCHANGED <<devId, devs, beKilled, Sesses, redisVars>>
  BY <1>14 DEF AddSess, AssignOffline, Update, FindSubSess
<1>15. ASSUME NEW r \in Reqs, NEW d \in Mains, OnSess(r, d)
      PROVE  UNCHANGED <<devId, devs, beKilled, Sesses, redisVars>>
  BY <1>15 DEF OnSess
<1>16. ASSUME NEW r \in Reqs, NEW s \in Sess, OnLogin(r, s) \/ OnHeartBeat(r, s)
      PROVE  UNCHANGED <<devId, devs, beKilled, Sesses, redisVars>>
  BY <1>16 DEF OnLogin, OnHeartBeat
<1>17. ASSUME NEW r \in Reqs, NEW s \in Sess, NEW x \in Subs,
             OnSubLogin(r, s, x) \/ OnSL(r, s, x)
      PROVE  UNCHANGED <<devId, devs, beKilled, Sesses, redisVars>>
  BY <1>17 DEF OnSubLogin, OnSL
<1>18. ASSUME NEW r \in Reqs, NEW x \in Subs, KillSub(r, x)
      PROVE  UNCHANGED <<devId, devs, beKilled, Sesses, redisVars>>
  BY <1>18 DEF KillSub
<1>19. ASSUME NEW d \in Mains, KillMain(d)
      PROVE  UNCHANGED <<devId, devs, beKilled, Sesses, redisVars>>
  BY <1>19 DEF KillMain
<1>20. ASSUME NEW l \in Logouts, PushDevOffline(l) \/ LogoutLock(l)
      PROVE  UNCHANGED <<devId, devs, beKilled, Sesses, redisVars>>
  BY <1>20 DEF PushDevOffline, LogoutLock
<1>21. ASSUME NEW s \in Sess, NEW i \in Timers, NEW l \in Logouts, Expire(s, i, l)
      PROVE  UNCHANGED <<devId, devs, beKilled, Sesses, redisVars>>
  BY <1>21 DEF Expire
<1> QED
  BY <1>1, <1>2, <1>3, <1>4, <1>5, <1>6, <1>7, <1>8, <1>9, <1>10, <1>11, <1>12, <1>13,
     <1>14, <1>15, <1>16, <1>17, <1>18, <1>19, <1>20, <1>21
  DEF Next, ReqStep, LogoutStep, vars

\* The invariant holds initially.
LEMMA InitInv == Init => IInv
<1> SUFFICES ASSUME Init PROVE IInv
  OBVIOUS
<1> USE NullAssumption, KindAssumption, TimersAssumption DEF Init
<1>1. TypeOK
  BY DEF TypeOK, ReqPCs, LogoutPCs, Threads, Timers
<1>2. IsFiniteSet(TimersMade)
  <2>1. TimersMade = {}
    BY DEF TimersMade, Timers
  <2> QED
    BY <2>1, FS_EmptySet
<1>3. Registers /\ Locks
  BY DEF Registers, Locks, MainPCs, SubPCs, EvictPCs
<1>4. Identity /\ PoolEntries /\ LogoutRegisters /\ TimerToCome
  BY DEF Identity, PoolEntries, LogoutRegisters, TimerToCome
<1>5. HeldSessionIsTimed
  BY DEF HeldSessionIsTimed, Held
<1>6. MainOnline /\ SubOnline
  BY DEF MainOnline, SubOnline
<1> QED
  BY <1>1, <1>2, <1>3, <1>4, <1>5, <1>6 DEF IInv

\* Every step of a request, of a devLogout, of a timer and of the messages from
\* other comets keeps it.
LEMMA NextInv == IInv /\ [Next]_vars => IInv'
  BY TypesStep, TimersMadeStep, RegistersStep, IdentityStep, PoolEntriesStep, LocksStep,
     LogoutRegistersStep, TimerToComeStep, HeldStep, OnlineStep
  DEF IInv

\* For any sessions, devices and goroutines, whatever the order of their steps.
LEMMA Invariant == Spec => []IInv
  BY InitInv, NextInv, PTL DEF Spec

\* TypeOK holds in every behaviour: among others, assignOffline's guard keeps the
\* timers of each session within the bound, and the sub-device maps never hold a
\* main device, although PushDevOfflineMsgToUsers enters one for a moment.
THEOREM TypeCorrect == Spec => []TypeOK
<1>1. IInv => TypeOK
  BY DEF IInv
<1> QED
  BY <1>1, Invariant, PTL

\* No session leaks: a request that was let in before devLogout and finishes after
\* it leaves no session in the pool, or with sub-devices, without a timer.
THEOREM HeldSessionIsTimedAlways == Spec => []HeldSessionIsTimed
<1>1. IInv => HeldSessionIsTimed
  BY DEF IInv
<1> QED
  BY <1>1, Invariant, PTL

\* A device is never locked out by its own mac: Macs leads to sessions that
\* Byte2Sess finds, also when two onSess for one mac ran at once.
THEOREM MacLeadsToLiveSessionAlways == Spec => []MacLeadsToLiveSession
<1>1. IInv => MacLeadsToLiveSession
  BY DEF IInv, PoolEntries, MacLeadsToLiveSession
<1> QED
  BY <1>1, Invariant, PTL

\* No ghost devices: whatever order logins, logouts, evictions and expiries come
\* in, a device that Redis lists is held by a session or on its way out.
THEOREM OnlineDeviceIsHeldAlways == Spec => []OnlineDeviceIsHeld
<1>1. IInv => OnlineDeviceIsHeld
  BY DEF IInv, MainOnline, SubOnline, OnlineDeviceIsHeld, Held
<1> QED
  BY <1>1, Invariant, PTL

=============================================================================
