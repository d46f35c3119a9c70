------------------------- MODULE UsrSessions_proofs -------------------------
(***************************************************************************)
(* Proofs about UsrSessions: type correctness, that the pool keeps the     *)
(* latest session of a user, that an open session is reachable, that no    *)
(* route dangles before a comet restarts, and that an offline message is   *)
(* never in two places.                                                    *)
(***************************************************************************)
EXTENDS UsrSessions, FiniteSetTheorems, WellFoundedInduction, TLAPS

Started == Early \ {"idle"}

\* Until AddSession nobody else can see a session: its uid is its user.
EarlyUid ==
    \A c \in Conns : pc[c] \in Started =>
        HostOf(c) \in Hosts /\ UserOf(c) \in Users /\ uid[c] = UserOf(c)

\* From AddSession on its uid is its user, or -1.
AddedUid ==
    \A c \in Conns : InPool(c) =>
        HostOf(c) \in Hosts /\ UserOf(c) \in Users /\ uid[c] \in {UserOf(c), Displaced}

\* ForceUserOffline only ever holds a session that was added.
VictimWasAdded ==
    \A c \in Conns : pc[c] \in {"kick", "close"} =>
        st[c] \in Conns /\ pc[st[c]] \notin Early

\* What the pool holds for a user is a session that was added for that user.
PoolEntries ==
    \A h \in Hosts, u \in Users : Sesses[h][u] # NoConn =>
        /\ HostOf(Sesses[h][u]) = h
        /\ UserOf(Sesses[h][u]) = u
        /\ pc[Sesses[h][u]] \notin Early

\* The registers hold what the next step needs.
Registers ==
    \A c \in Conns :
        /\ pc[c] = "lua" => arg[c] \in Users \cup {Displaced}
        /\ pc[c] \in {"send", "repush"} => hand[c] \in Msgs

IInv ==
    /\ TypeOK
    /\ EarlyUid /\ AddedUid /\ VictimWasAdded /\ PoolEntries /\ Registers
    /\ PoolKeepsLatest /\ OpenSessionIsReachable

\* Publish appends a well-formed message to the subscribers' channels.
LEMMA PublishTypes ==
    ASSUME BusTypes, NEW u \in Users, NEW h \in Hosts, NEW on \in BOOLEAN, Publish(u, h, on)
    PROVE  onoff' \in [Hosts -> Seq(OnOffMsg)]
<1> DEFINE m == [user |-> u, host |-> h, on |-> on]
<1>1. m \in OnOffMsg
  BY DEF OnOffMsg
<1>2. \A g \in Hosts : Append(onoff[g], m) \in Seq(OnOffMsg) /\ onoff[g] \in Seq(OnOffMsg)
  BY <1>1 DEF BusTypes
<1> QED
  BY <1>2 DEF Publish

\* The login script keeps the types of the Redis keys and of the channel.
LEMMA ScriptOnlineTypes ==
    ASSUME RedisTypes, BusTypes, NEW h \in Hosts, NEW u \in Users, NEW m \in Mobiles \cup {NoMobile},
           ScriptOnline(h, u, m)
    PROVE  /\ cnt' \in [Hosts -> [Users -> Nat]]
           /\ mId' \in [Users -> Mobiles \cup {NoMobile}]
           /\ mSrv' \in Bindings
           /\ onoff' \in [Hosts -> Seq(OnOffMsg)]
<1>1. onoff' \in [Hosts -> Seq(OnOffMsg)]
  BY PublishTypes DEF ScriptOnline, BusTypes
<1>2. cnt' \in [Hosts -> [Users -> Nat]]
  BY DEF ScriptOnline, RedisTypes
<1>3. mId' \in [Users -> Mobiles \cup {NoMobile}] /\ mSrv' \in Bindings
  BY DEF ScriptOnline, RedisTypes, Bindings
<1> QED
  BY <1>1, <1>2, <1>3

\* So does the logout script, for a user and for uid -1.
LEMMA ScriptOfflineTypes ==
    ASSUME RedisTypes, BusTypes, NEW h \in Hosts, NEW u \in Users \cup {Displaced},
           ScriptOffline(h, u)
    PROVE  /\ cnt' \in [Hosts -> [Users -> Nat]]
           /\ mId' \in [Users -> Mobiles \cup {NoMobile}]
           /\ mSrv' \in Bindings
           /\ onoff' \in [Hosts -> Seq(OnOffMsg)]
<1>1. CASE u = Displaced
  BY <1>1 DEF ScriptOffline, RedisTypes, BusTypes, redisVars
<1>2. CASE u # Displaced
  <2>1. u \in Users
    BY <1>2
  <2>2. onoff' \in [Hosts -> Seq(OnOffMsg)]
    BY <1>2, <2>1, PublishTypes DEF ScriptOffline
  <2>3. cnt' \in [Hosts -> [Users -> Nat]]
    <3>1. cnt' = [cnt EXCEPT ![h][u] = 0]
      BY <1>2 DEF ScriptOffline
    <3> QED
      BY <2>1, <3>1 DEF RedisTypes
  <2>4. mId' \in [Users -> Mobiles \cup {NoMobile}] /\ mSrv' \in Bindings
    BY <1>2, <2>1 DEF ScriptOffline, RedisTypes, Bindings
  <2> QED
    BY <2>2, <2>3, <2>4
<1> QED
  BY <1>1, <1>2

\* A session that has not been added looks its user up in its comet's pool: it
\* finds nothing, or a session that was added.
LEMMA Lookup ==
    ASSUME IInv, NEW c \in Conns, pc[c] \in Started
    PROVE  /\ HostOf(c) \in Hosts /\ uid[c] \in Users
           /\ Sesses[HostOf(c)][uid[c]] \in Conns \cup {NoConn}
           /\ Sesses[HostOf(c)][uid[c]] # NoConn => pc[Sesses[HostOf(c)][uid[c]]] \notin Early
<1>1. HostOf(c) \in Hosts /\ uid[c] \in Users
  BY DEF IInv, EarlyUid
<1>2. Sesses[HostOf(c)][uid[c]] \in Conns \cup {NoConn}
  BY <1>1 DEF IInv, TypeOK, ConnTypes
<1>3. Sesses[HostOf(c)][uid[c]] # NoConn => pc[Sesses[HostOf(c)][uid[c]]] \notin Early
  BY <1>1 DEF IInv, PoolEntries
<1> QED
  BY <1>1, <1>2, <1>3

\* The goroutines' registers and the pools keep their types.
LEMMA ConnTypesStep ==
    ASSUME IInv, [Next]_vars PROVE ConnTypes'
<1> USE UsersAssumption, NullsAssumption, MaxCrashAssumption
    DEF IInv, TypeOK, ConnTypes, RedisTypes, Goto, HostOf, UserOf, InPool, Early,
        Added, PCs, Started, Displaced, EarlyUid, AddedUid, VictimWasAdded, Registers,
        connVars
<1>0. ASSUME NEW c \in Conns, AuthError(c)
      PROVE  ConnTypes'
  BY <1>0 DEF AuthError
<1>1. ASSUME NEW c \in Conns, Authenticate(c) PROVE ConnTypes'
  BY <1>1 DEF Authenticate
<1>2. ASSUME NEW c \in Conns, ReadMobileId(c) PROVE ConnTypes'
  BY <1>2 DEF ReadMobileId
<1>3. ASSUME NEW c \in Conns, FindSession(c) PROVE ConnTypes'
  <2> DEFINE s == Sesses[HostOf(c)][uid[c]]
  <2>1. pc[c] = "find"
    BY <1>3 DEF FindSession
  <2>3. s \in Conns \cup {NoConn}
    BY <2>1, Lookup
  <2> HIDE DEF s
  <2>4. CASE s = NoConn /\ pc' = [pc EXCEPT ![c] = "login"] /\ st' = [st EXCEPT ![c] = s]
    BY <1>3, <2>1, <2>4 DEF FindSession
  <2>5. CASE s # NoConn /\ pc' = [pc EXCEPT ![c] = "kick"] /\ st' = [st EXCEPT ![c] = s]
    BY <1>3, <2>1, <2>3, <2>5 DEF FindSession
  <2>6. CASE s # NoConn /\ pc' = [pc EXCEPT ![c] = "close"] /\ st' = [st EXCEPT ![c] = s]
    BY <1>3, <2>1, <2>3, <2>6 DEF FindSession
  <2> QED
    BY <1>3, <2>4, <2>5, <2>6 DEF FindSession, s
<1>4. ASSUME NEW c \in Conns, DisplaceSession(c) PROVE ConnTypes'
  BY <1>4 DEF DisplaceSession
<1>5. ASSUME NEW c \in Conns, CloseDisplaced(c) PROVE ConnTypes'
  BY <1>5 DEF CloseDisplaced
<1>6. ASSUME NEW c \in Conns, Login(c) PROVE ConnTypes'
  BY <1>6 DEF Login, ScriptOnline, Publish
<1>7. ASSUME NEW c \in Conns, LoginError(c) PROVE ConnTypes'
  BY <1>7 DEF LoginError, ScriptOnline, Publish
<1>8. ASSUME NEW c \in Conns, AddSession(c) PROVE ConnTypes'
  BY <1>8 DEF AddSession
<1>9. ASSUME NEW c \in Conns, SendAckLoginOK(c) PROVE ConnTypes'
  BY <1>9 DEF SendAckLoginOK
<1>10. ASSUME NEW c \in Conns, PopOfflineMsg(c) PROVE ConnTypes'
  <2>1. CASE pc' = [pc EXCEPT ![c] = "send"] /\ pc[c] = "drain" /\ msgq[uid[c]] # <<>>
             /\ hand' = [hand EXCEPT ![c] = Head(msgq[uid[c]])]
             /\ msgq' = [msgq EXCEPT ![uid[c]] = Tail(msgq[uid[c]])]
    <3>1. uid[c] \in Users \cup {Displaced} /\ msgq[uid[c]] \in Seq(Msgs)
      BY <2>1 DEF RedisTypes
    <3>2. Head(msgq[uid[c]]) \in Msgs /\ Tail(msgq[uid[c]]) \in Seq(Msgs)
      BY <3>1, <2>1
    <3> QED
      BY <1>10, <2>1, <3>1, <3>2 DEF PopOfflineMsg
  <2>2. CASE pc' = [pc EXCEPT ![c] = "read"] /\ pc[c] = "drain" /\ UNCHANGED <<hand, msgq>>
    BY <1>10, <2>2 DEF PopOfflineMsg
  <2> QED
    BY <1>10, <2>1, <2>2 DEF PopOfflineMsg
<1>11. ASSUME NEW c \in Conns, SendOfflineMsg(c) PROVE ConnTypes'
  BY <1>11, ZenonT(60) DEF SendOfflineMsg
<1>12. ASSUME NEW c \in Conns, PushOfflineMsg(c) PROVE ConnTypes'
  BY <1>12 DEF PushOfflineMsg
<1>13. ASSUME NEW c \in Conns, LogoutCheck(c) PROVE ConnTypes'
  BY <1>13 DEF LogoutCheck
<1>14. ASSUME NEW c \in Conns, LogoutArg(c) PROVE ConnTypes'
  BY <1>14 DEF LogoutArg
<1>15. ASSUME NEW c \in Conns, Logout(c) PROVE ConnTypes'
  BY <1>15 DEF Logout, ScriptOffline, Publish
<1>16. ASSUME NEW c \in Conns, RemoveSession(c) PROVE ConnTypes'
  BY <1>16 DEF RemoveSession
<1>17. ASSUME NEW c \in Conns, ReadError(c) PROVE ConnTypes'
  BY <1>17 DEF ReadError
<1>18. ASSUME NEW h \in Hosts, NEW u \in Users, OffliningUsr(h, u) PROVE ConnTypes'
  BY <1>18 DEF OffliningUsr
<1>19. ASSUME NEW h \in Hosts, Crash(h) PROVE ConnTypes'
  BY <1>19 DEF Crash
<1>20. CASE UNCHANGED <<pc, connVars, Sesses>>
  BY <1>20
<1> QED
  BY <1>0, <1>1, <1>2, <1>3, <1>4, <1>5, <1>6, <1>7, <1>8, <1>9, <1>10, <1>11, <1>12, <1>13,
      <1>14, <1>15, <1>16, <1>17, <1>18, <1>19, <1>20
  DEF Next, Step, vars, connVars, redisVars, busVars, StoreOfflineMsg, HandleOnOff,
      InitUsr2Sentinel, ClearRedis

\* What is in Redis keeps its type.
LEMMA RedisTypesStep ==
    ASSUME IInv, [Next]_vars PROVE RedisTypes'
<1> USE UsersAssumption, NullsAssumption, MaxCrashAssumption
    DEF IInv, TypeOK, ConnTypes, RedisTypes, Bindings, Goto, HostOf, UserOf, InPool,
        Early, Added, PCs, Started, Displaced, EarlyUid, AddedUid, Registers,
        redisVars
<1>1. ASSUME NEW c \in Conns, Login(c) PROVE RedisTypes'
  <2>1. HostOf(c) \in Hosts /\ uid[c] \in Users /\ login[c].mobile \in Mobiles \cup {NoMobile}
    BY <1>1 DEF Login
  <2>2. CASE ScriptOnline(HostOf(c), uid[c], login[c].mobile)
    BY <1>1, <2>1, <2>2, ScriptOnlineTypes DEF Login
  <2>3. CASE UNCHANGED <<redisVars, onoff>>
    BY <1>1, <2>3 DEF Login
  <2> QED
    BY <1>1, <2>2, <2>3 DEF Login
<1>2. ASSUME NEW c \in Conns, LoginError(c) PROVE RedisTypes'
  <2>1. HostOf(c) \in Hosts /\ uid[c] \in Users /\ login[c].mobile \in Mobiles \cup {NoMobile}
    BY <1>2 DEF LoginError
  <2>2. CASE ScriptOnline(HostOf(c), uid[c], login[c].mobile)
    BY <1>2, <2>1, <2>2, ScriptOnlineTypes DEF LoginError
  <2>3. CASE UNCHANGED <<redisVars, onoff>>
    BY <1>2, <2>3 DEF LoginError
  <2> QED
    BY <1>2, <2>2, <2>3 DEF LoginError
<1>3. ASSUME NEW c \in Conns, Logout(c) PROVE RedisTypes'
  <2>1. HostOf(c) \in Hosts /\ arg[c] \in Users \cup {Displaced}
    BY <1>3 DEF Logout
  <2>2. CASE ScriptOffline(HostOf(c), arg[c])
    BY <1>3, <2>1, <2>2, ScriptOfflineTypes DEF Logout
  <2>3. CASE UNCHANGED <<redisVars, onoff>>
    BY <1>3, <2>3 DEF Logout
  <2> QED
    BY <1>3, <2>2, <2>3 DEF Logout
<1>4. ASSUME NEW c \in Conns, PopOfflineMsg(c) PROVE RedisTypes'
  <2>1. CASE pc' = [pc EXCEPT ![c] = "send"] /\ pc[c] = "drain" /\ msgq[uid[c]] # <<>>
             /\ hand' = [hand EXCEPT ![c] = Head(msgq[uid[c]])]
             /\ msgq' = [msgq EXCEPT ![uid[c]] = Tail(msgq[uid[c]])]
    <3>1. uid[c] \in Users \cup {Displaced} /\ msgq[uid[c]] \in Seq(Msgs)
      BY <2>1 DEF RedisTypes
    <3>2. Head(msgq[uid[c]]) \in Msgs /\ Tail(msgq[uid[c]]) \in Seq(Msgs)
      BY <3>1, <2>1
    <3> QED
      BY <1>4, <2>1, <3>1, <3>2 DEF PopOfflineMsg
  <2>2. CASE pc' = [pc EXCEPT ![c] = "read"] /\ pc[c] = "drain" /\ UNCHANGED <<hand, msgq>>
    BY <1>4, <2>2 DEF PopOfflineMsg
  <2> QED
    BY <1>4, <2>1, <2>2 DEF PopOfflineMsg
<1>5. ASSUME NEW c \in Conns, SendOfflineMsg(c) PROVE RedisTypes'
  BY <1>5 DEF SendOfflineMsg
<1>6. ASSUME NEW c \in Conns, PushOfflineMsg(c) PROVE RedisTypes'
  <2>1. uid[c] \in Users \cup {Displaced} /\ msgq[uid[c]] \in Seq(Msgs) /\ hand[c] \in Msgs
    BY <1>6 DEF PushOfflineMsg
  <2>2. Append(msgq[uid[c]], hand[c]) \in Seq(Msgs)
    BY <2>1
  <2> QED
    BY <1>6, <2>1, <2>2 DEF PushOfflineMsg
<1>7. ASSUME NEW u \in Users, NEW m \in Msgs, StoreOfflineMsg(u, m) PROVE RedisTypes'
  BY <1>7 DEF StoreOfflineMsg
<1>8. ASSUME NEW h \in Hosts, ClearRedis(h) PROVE RedisTypes'
  BY <1>8 DEF ClearRedis
<1>9. CASE UNCHANGED <<redisVars, msgq, sent>>
  BY <1>9, SMTT(30)
<1> QED
  BY <1>1, <1>2, <1>3, <1>4, <1>5, <1>6, <1>7, <1>8, <1>9, ZenonT(60)
  DEF Next, Step, AuthError, vars, connVars, redisVars, busVars, Authenticate, ReadMobileId,
      FindSession, DisplaceSession, CloseDisplaced, AddSession, SendAckLoginOK,
      LogoutCheck, LogoutArg, RemoveSession, ReadError, OffliningUsr, HandleOnOff,
      Crash, InitUsr2Sentinel

\* The OnOff channel and the comets' tables keep their types.
LEMMA BusTypesStep ==
    ASSUME IInv, [Next]_vars PROVE BusTypes'
<1> USE UsersAssumption, NullsAssumption, MaxCrashAssumption
    DEF IInv, TypeOK, ConnTypes, RedisTypes, BusTypes, Bindings, OnOffMsg, Goto,
        HostOf, UserOf, InPool, Early, Added, PCs, Started, Displaced, EarlyUid,
        AddedUid, Registers, redisVars, busVars
<1>1. ASSUME NEW c \in Conns, Login(c) PROVE BusTypes'
  <2>1. HostOf(c) \in Hosts /\ uid[c] \in Users /\ login[c].mobile \in Mobiles \cup {NoMobile}
    BY <1>1 DEF Login
  <2>2. CASE ScriptOnline(HostOf(c), uid[c], login[c].mobile)
    BY <1>1, <2>1, <2>2, ScriptOnlineTypes DEF Login
  <2>3. CASE UNCHANGED <<redisVars, onoff>>
    BY <1>1, <2>3 DEF Login
  <2> QED
    BY <1>1, <2>2, <2>3 DEF Login
<1>2. ASSUME NEW c \in Conns, LoginError(c) PROVE BusTypes'
  <2>1. HostOf(c) \in Hosts /\ uid[c] \in Users /\ login[c].mobile \in Mobiles \cup {NoMobile}
    BY <1>2 DEF LoginError
  <2>2. CASE ScriptOnline(HostOf(c), uid[c], login[c].mobile)
    BY <1>2, <2>1, <2>2, ScriptOnlineTypes DEF LoginError
  <2>3. CASE UNCHANGED <<redisVars, onoff>>
    BY <1>2, <2>3 DEF LoginError
  <2> QED
    BY <1>2, <2>2, <2>3 DEF LoginError
<1>3. ASSUME NEW c \in Conns, Logout(c) PROVE BusTypes'
  <2>1. HostOf(c) \in Hosts /\ arg[c] \in Users \cup {Displaced}
    BY <1>3 DEF Logout
  <2>2. CASE ScriptOffline(HostOf(c), arg[c])
    BY <1>3, <2>1, <2>2, ScriptOfflineTypes DEF Logout
  <2>3. CASE UNCHANGED <<redisVars, onoff>>
    BY <1>3, <2>3 DEF Logout
  <2> QED
    BY <1>3, <2>2, <2>3 DEF Logout
<1>4. ASSUME NEW h \in Hosts, HandleOnOff(h) PROVE BusTypes'
  <2>1. Head(onoff[h]) \in OnOffMsg /\ Tail(onoff[h]) \in Seq(OnOffMsg)
    <3>1. onoff[h] \in Seq(OnOffMsg) /\ onoff[h] # <<>>
      BY <1>4 DEF HandleOnOff, BusTypes
    <3> HIDE DEF OnOffMsg
    <3> QED
      BY <3>1
  <2>2. /\ Head(onoff[h]).user \in Users
        /\ (IF Head(onoff[h]).on THEN Head(onoff[h]).host ELSE NoHost) \in Hosts \cup {NoHost}
    BY <2>1 DEF OnOffMsg
  <2>3. onoff' \in [Hosts -> Seq(OnOffMsg)]
    <3> HIDE DEF OnOffMsg
    <3> QED
      BY <1>4, <2>1 DEF HandleOnOff
  <2>4. usr2sentinel' \in [Hosts -> Bindings]
    <3> HIDE DEF OnOffMsg
    <3> QED
      BY <1>4, <2>2 DEF HandleOnOff
  <2> QED
    BY <1>4, <2>3, <2>4 DEF HandleOnOff
<1>5. ASSUME NEW h \in Hosts, Crash(h) PROVE BusTypes'
  <2> HIDE DEF OnOffMsg
  <2>1. onoff' \in [Hosts -> Seq(OnOffMsg)]
    <3>1. << >> \in Seq(OnOffMsg)
      OBVIOUS
    <3> QED
      BY <1>5, <3>1 DEF Crash
  <2>2. usr2sentinel' \in [Hosts -> Bindings]
    BY <1>5 DEF Crash
  <2>3. up' \in [Hosts -> {"up", "down", "booting"}] /\ crashes' \in Nat
    BY <1>5 DEF Crash
  <2> QED
    BY <2>1, <2>2, <2>3
<1>6. ASSUME NEW h \in Hosts, InitUsr2Sentinel(h) PROVE BusTypes'
  <2> HIDE DEF OnOffMsg
  <2>1. usr2sentinel' \in [Hosts -> Bindings]
    BY <1>6 DEF InitUsr2Sentinel
  <2>2. up' \in [Hosts -> {"up", "down", "booting"}]
    BY <1>6 DEF InitUsr2Sentinel
  <2> QED
    BY <1>6, <2>1, <2>2 DEF InitUsr2Sentinel
<1>7. ASSUME NEW h \in Hosts, ClearRedis(h) PROVE BusTypes'
  BY <1>7 DEF ClearRedis
<1>8. CASE UNCHANGED <<up, onoff, usr2sentinel, crashes>>
  BY <1>8
<1> QED
  BY <1>1, <1>2, <1>3, <1>4, <1>5, <1>6, <1>7, <1>8, ZenonT(60)
  DEF Next, Step, AuthError, vars, connVars, redisVars, busVars, Authenticate, ReadMobileId,
      FindSession, DisplaceSession, CloseDisplaced, AddSession, SendAckLoginOK,
      PopOfflineMsg, SendOfflineMsg, PushOfflineMsg, LogoutCheck, LogoutArg,
      RemoveSession, ReadError, OffliningUsr, StoreOfflineMsg

\* A session's uid is its user's, or -1 once it was added.
LEMMA UidStep ==
    ASSUME IInv, [Next]_vars PROVE (EarlyUid /\ AddedUid)'
<1> USE UsersAssumption, NullsAssumption, MaxCrashAssumption
    DEF IInv, TypeOK, ConnTypes, Goto, HostOf, UserOf, InPool, Early, Added, PCs,
        Started, Displaced, EarlyUid, AddedUid, VictimWasAdded, PoolEntries,
        Registers, connVars
<1>0. ASSUME NEW c \in Conns, AuthError(c)
      PROVE  (EarlyUid /\ AddedUid)'
  BY <1>0 DEF AuthError
<1>1. ASSUME NEW c \in Conns, Authenticate(c) PROVE (EarlyUid /\ AddedUid)'
  BY <1>1 DEF Authenticate
<1>2. ASSUME NEW c \in Conns, ReadMobileId(c) PROVE (EarlyUid /\ AddedUid)'
  BY <1>2 DEF ReadMobileId
<1>3. ASSUME NEW c \in Conns, FindSession(c) PROVE (EarlyUid /\ AddedUid)'
  BY <1>3 DEF FindSession
<1>4. ASSUME NEW c \in Conns, DisplaceSession(c) PROVE (EarlyUid /\ AddedUid)'
  BY <1>4 DEF DisplaceSession
<1>5. ASSUME NEW c \in Conns, CloseDisplaced(c) PROVE (EarlyUid /\ AddedUid)'
  BY <1>5 DEF CloseDisplaced
<1>6. ASSUME NEW c \in Conns, Login(c) PROVE (EarlyUid /\ AddedUid)'
  BY <1>6 DEF Login, ScriptOnline, Publish
<1>7. ASSUME NEW c \in Conns, LoginError(c) PROVE (EarlyUid /\ AddedUid)'
  BY <1>7 DEF LoginError, ScriptOnline, Publish
<1>8. ASSUME NEW c \in Conns, AddSession(c) PROVE (EarlyUid /\ AddedUid)'
  <2>1. HostOf(c) \in Hosts /\ uid[c] \in Users /\ pc[c] = "add"
    BY <1>8 DEF AddSession
  <2>2. ASSUME NEW d \in Conns, d = Sesses[HostOf(c)][uid[c]]
        PROVE  pc[d] \notin Early
    BY <2>1, <2>2
  <2>3. EarlyUid'
    BY <1>8, <2>1, <2>2 DEF AddSession
  <2>4. AddedUid'
    BY <1>8, <2>1, <2>2 DEF AddSession
  <2> QED
    BY <2>3, <2>4
<1>9. ASSUME NEW c \in Conns, SendAckLoginOK(c) PROVE (EarlyUid /\ AddedUid)'
  BY <1>9 DEF SendAckLoginOK
<1>10. ASSUME NEW c \in Conns, PopOfflineMsg(c) PROVE (EarlyUid /\ AddedUid)'
  BY <1>10 DEF PopOfflineMsg
<1>11. ASSUME NEW c \in Conns, SendOfflineMsg(c) PROVE (EarlyUid /\ AddedUid)'
  BY <1>11, SMTT(30) DEF SendOfflineMsg
<1>12. ASSUME NEW c \in Conns, PushOfflineMsg(c) PROVE (EarlyUid /\ AddedUid)'
  BY <1>12 DEF PushOfflineMsg
<1>13. ASSUME NEW c \in Conns, LogoutCheck(c) PROVE (EarlyUid /\ AddedUid)'
  BY <1>13 DEF LogoutCheck
<1>14. ASSUME NEW c \in Conns, LogoutArg(c) PROVE (EarlyUid /\ AddedUid)'
  BY <1>14 DEF LogoutArg
<1>15. ASSUME NEW c \in Conns, Logout(c) PROVE (EarlyUid /\ AddedUid)'
  BY <1>15 DEF Logout, ScriptOffline, Publish
<1>16. ASSUME NEW c \in Conns, RemoveSession(c) PROVE (EarlyUid /\ AddedUid)'
  BY <1>16 DEF RemoveSession
<1>17. ASSUME NEW c \in Conns, ReadError(c) PROVE (EarlyUid /\ AddedUid)'
  BY <1>17 DEF ReadError
<1>18. ASSUME NEW h \in Hosts, NEW u \in Users, OffliningUsr(h, u)
      PROVE  (EarlyUid /\ AddedUid)'
  BY <1>18 DEF OffliningUsr
<1>19. ASSUME NEW h \in Hosts, Crash(h) PROVE (EarlyUid /\ AddedUid)'
  BY <1>19 DEF Crash
<1>20. CASE UNCHANGED <<pc, connVars, Sesses>>
  BY <1>20, SMTT(30)
<1> QED
  BY <1>0, <1>1, <1>2, <1>3, <1>4, <1>5, <1>6, <1>7, <1>8, <1>9, <1>10, <1>11, <1>12, <1>13,
      <1>14, <1>15, <1>16, <1>17, <1>18, <1>19, <1>20
  DEF Next, Step, vars, connVars, redisVars, busVars, StoreOfflineMsg, HandleOnOff,
      InitUsr2Sentinel, ClearRedis

\* ForceUserOffline holds added sessions; the registers are filled.
LEMMA RegistersStep ==
    ASSUME IInv, [Next]_vars PROVE (VictimWasAdded /\ Registers)'
<1> USE UsersAssumption, NullsAssumption, MaxCrashAssumption
    DEF IInv, TypeOK, ConnTypes, Goto, HostOf, UserOf, InPool, Early, Added, PCs,
        Started, Displaced, EarlyUid, AddedUid, VictimWasAdded, PoolEntries,
        Registers, connVars
<1>0. ASSUME NEW c \in Conns, AuthError(c)
      PROVE  (VictimWasAdded /\ Registers)'
  BY <1>0 DEF AuthError
<1>1. ASSUME NEW c \in Conns, Authenticate(c) PROVE (VictimWasAdded /\ Registers)'
  BY <1>1 DEF Authenticate
<1>2. ASSUME NEW c \in Conns, ReadMobileId(c) PROVE (VictimWasAdded /\ Registers)'
  BY <1>2, SMTT(30) DEF ReadMobileId
<1>3. ASSUME NEW c \in Conns, FindSession(c) PROVE (VictimWasAdded /\ Registers)'
  <2> DEFINE s == Sesses[HostOf(c)][uid[c]]
  <2>1. pc[c] = "find"
    BY <1>3 DEF FindSession
  <2>3. s \in Conns \cup {NoConn} /\ (s # NoConn => pc[s] \notin Early)
    BY <2>1, Lookup, SMTT(30)
  <2> HIDE DEF s
  <2>4. CASE s = NoConn /\ pc' = [pc EXCEPT ![c] = "login"] /\ st' = [st EXCEPT ![c] = s]
    BY <1>3, <2>1, <2>4, SMTT(30) DEF FindSession
  <2>5. CASE s # NoConn /\ pc' = [pc EXCEPT ![c] = "kick"] /\ st' = [st EXCEPT ![c] = s]
    BY <1>3, <2>1, <2>3, <2>5, SMTT(30) DEF FindSession
  <2>6. CASE s # NoConn /\ pc' = [pc EXCEPT ![c] = "close"] /\ st' = [st EXCEPT ![c] = s]
    BY <1>3, <2>1, <2>3, <2>6, SMTT(30) DEF FindSession
  <2> QED
    BY <1>3, <2>4, <2>5, <2>6 DEF FindSession, s
<1>4. ASSUME NEW c \in Conns, DisplaceSession(c) PROVE (VictimWasAdded /\ Registers)'
  BY <1>4 DEF DisplaceSession
<1>5. ASSUME NEW c \in Conns, CloseDisplaced(c) PROVE (VictimWasAdded /\ Registers)'
  BY <1>5 DEF CloseDisplaced
<1>6. ASSUME NEW c \in Conns, Login(c) PROVE (VictimWasAdded /\ Registers)'
  BY <1>6 DEF Login, ScriptOnline, Publish
<1>7. ASSUME NEW c \in Conns, LoginError(c) PROVE (VictimWasAdded /\ Registers)'
  BY <1>7 DEF LoginError, ScriptOnline, Publish
<1>8. ASSUME NEW c \in Conns, AddSession(c) PROVE (VictimWasAdded /\ Registers)'
  BY <1>8 DEF AddSession
<1>9. ASSUME NEW c \in Conns, SendAckLoginOK(c) PROVE (VictimWasAdded /\ Registers)'
  BY <1>9 DEF SendAckLoginOK
<1>10. ASSUME NEW c \in Conns, PopOfflineMsg(c) PROVE (VictimWasAdded /\ Registers)'
  <2>1. CASE pc' = [pc EXCEPT ![c] = "send"] /\ pc[c] = "drain" /\ msgq[uid[c]] # <<>>
             /\ hand' = [hand EXCEPT ![c] = Head(msgq[uid[c]])]
             /\ msgq' = [msgq EXCEPT ![uid[c]] = Tail(msgq[uid[c]])]
    <3>1. uid[c] \in Users \cup {Displaced} /\ msgq[uid[c]] \in Seq(Msgs)
      BY <2>1, ZenonT(60) DEF RedisTypes
    <3>2. Head(msgq[uid[c]]) \in Msgs /\ Tail(msgq[uid[c]]) \in Seq(Msgs)
      BY <3>1, <2>1
    <3> QED
      BY <1>10, <2>1, <3>1, <3>2 DEF PopOfflineMsg
  <2>2. CASE pc' = [pc EXCEPT ![c] = "read"] /\ pc[c] = "drain" /\ UNCHANGED <<hand, msgq>>
    BY <1>10, <2>2 DEF PopOfflineMsg
  <2> QED
    BY <1>10, <2>1, <2>2 DEF PopOfflineMsg
<1>11. ASSUME NEW c \in Conns, SendOfflineMsg(c) PROVE (VictimWasAdded /\ Registers)'
  BY <1>11 DEF SendOfflineMsg
<1>12. ASSUME NEW c \in Conns, PushOfflineMsg(c) PROVE (VictimWasAdded /\ Registers)'
  BY <1>12 DEF PushOfflineMsg
<1>13. ASSUME NEW c \in Conns, LogoutCheck(c) PROVE (VictimWasAdded /\ Registers)'
  BY <1>13 DEF LogoutCheck
<1>14. ASSUME NEW c \in Conns, LogoutArg(c) PROVE (VictimWasAdded /\ Registers)'
  BY <1>14 DEF LogoutArg
<1>15. ASSUME NEW c \in Conns, Logout(c) PROVE (VictimWasAdded /\ Registers)'
  BY <1>15 DEF Logout, ScriptOffline, Publish
<1>16. ASSUME NEW c \in Conns, RemoveSession(c) PROVE (VictimWasAdded /\ Registers)'
  BY <1>16 DEF RemoveSession
<1>17. ASSUME NEW c \in Conns, ReadError(c) PROVE (VictimWasAdded /\ Registers)'
  BY <1>17 DEF ReadError
<1>18. ASSUME NEW h \in Hosts, NEW u \in Users, OffliningUsr(h, u)
      PROVE  (VictimWasAdded /\ Registers)'
  BY <1>18 DEF OffliningUsr
<1>19. ASSUME NEW h \in Hosts, Crash(h) PROVE (VictimWasAdded /\ Registers)'
  BY <1>19 DEF Crash
<1>20. CASE UNCHANGED <<pc, connVars, Sesses>>
  BY <1>20
<1> QED
  BY <1>0, <1>1, <1>2, <1>3, <1>4, <1>5, <1>6, <1>7, <1>8, <1>9, <1>10, <1>11, <1>12, <1>13,
      <1>14, <1>15, <1>16, <1>17, <1>18, <1>19, <1>20
  DEF Next, Step, vars, connVars, redisVars, busVars, StoreOfflineMsg, HandleOnOff,
      InitUsr2Sentinel, ClearRedis

\* The heart of the argument: the pool's entries, and who is in the pool.
LEMMA PoolStep ==
    ASSUME IInv, [Next]_vars
      PROVE  (PoolEntries /\ PoolKeepsLatest /\ OpenSessionIsReachable)'
<1> USE UsersAssumption, NullsAssumption, MaxCrashAssumption
    DEF IInv, TypeOK, ConnTypes, Goto, HostOf, UserOf, InPool, Early, Added, PCs,
        Started, Displaced, EarlyUid, AddedUid, VictimWasAdded, PoolEntries,
        Registers, connVars, PoolKeepsLatest, OpenSessionIsReachable
<1>0. ASSUME NEW c \in Conns, AuthError(c)
      PROVE  (PoolEntries /\ PoolKeepsLatest /\ OpenSessionIsReachable)'
  BY <1>0 DEF AuthError
<1>1. ASSUME NEW c \in Conns, Authenticate(c)
      PROVE  (PoolEntries /\ PoolKeepsLatest /\ OpenSessionIsReachable)'
  BY <1>1 DEF Authenticate
<1>2. ASSUME NEW c \in Conns, ReadMobileId(c)
      PROVE  (PoolEntries /\ PoolKeepsLatest /\ OpenSessionIsReachable)'
  BY <1>2 DEF ReadMobileId
<1>3. ASSUME NEW c \in Conns, FindSession(c)
      PROVE  (PoolEntries /\ PoolKeepsLatest /\ OpenSessionIsReachable)'
  BY <1>3 DEF FindSession
<1>4. ASSUME NEW c \in Conns, DisplaceSession(c)
      PROVE  (PoolEntries /\ PoolKeepsLatest /\ OpenSessionIsReachable)'
  BY <1>4 DEF DisplaceSession
<1>5. ASSUME NEW c \in Conns, CloseDisplaced(c)
      PROVE  (PoolEntries /\ PoolKeepsLatest /\ OpenSessionIsReachable)'
  BY <1>5 DEF CloseDisplaced
<1>6. ASSUME NEW c \in Conns, Login(c)
      PROVE  (PoolEntries /\ PoolKeepsLatest /\ OpenSessionIsReachable)'
  BY <1>6 DEF Login, ScriptOnline, Publish
<1>7. ASSUME NEW c \in Conns, LoginError(c)
      PROVE  (PoolEntries /\ PoolKeepsLatest /\ OpenSessionIsReachable)'
  BY <1>7, SMTT(30) DEF LoginError, ScriptOnline, Publish
<1>8. ASSUME NEW c \in Conns, AddSession(c)
      PROVE  (PoolEntries /\ PoolKeepsLatest /\ OpenSessionIsReachable)'
  BY <1>8, SMTT(30) DEF AddSession
<1>9. ASSUME NEW c \in Conns, SendAckLoginOK(c)
      PROVE  (PoolEntries /\ PoolKeepsLatest /\ OpenSessionIsReachable)'
  BY <1>9 DEF SendAckLoginOK
<1>10. ASSUME NEW c \in Conns, PopOfflineMsg(c)
      PROVE  (PoolEntries /\ PoolKeepsLatest /\ OpenSessionIsReachable)'
  BY <1>10 DEF PopOfflineMsg
<1>11. ASSUME NEW c \in Conns, SendOfflineMsg(c)
      PROVE  (PoolEntries /\ PoolKeepsLatest /\ OpenSessionIsReachable)'
  BY <1>11 DEF SendOfflineMsg
<1>12. ASSUME NEW c \in Conns, PushOfflineMsg(c)
      PROVE  (PoolEntries /\ PoolKeepsLatest /\ OpenSessionIsReachable)'
  BY <1>12 DEF PushOfflineMsg
<1>13. ASSUME NEW c \in Conns, LogoutCheck(c)
      PROVE  (PoolEntries /\ PoolKeepsLatest /\ OpenSessionIsReachable)'
  BY <1>13 DEF LogoutCheck
<1>14. ASSUME NEW c \in Conns, LogoutArg(c)
      PROVE  (PoolEntries /\ PoolKeepsLatest /\ OpenSessionIsReachable)'
  BY <1>14 DEF LogoutArg
<1>15. ASSUME NEW c \in Conns, Logout(c)
      PROVE  (PoolEntries /\ PoolKeepsLatest /\ OpenSessionIsReachable)'
  BY <1>15, SMTT(30) DEF Logout, ScriptOffline, Publish
<1>16. ASSUME NEW c \in Conns, RemoveSession(c)
      PROVE  (PoolEntries /\ PoolKeepsLatest /\ OpenSessionIsReachable)'
  BY <1>16, SMTT(30) DEF RemoveSession
<1>17. ASSUME NEW c \in Conns, ReadError(c)
      PROVE  (PoolEntries /\ PoolKeepsLatest /\ OpenSessionIsReachable)'
  BY <1>17 DEF ReadError
<1>18. ASSUME NEW h \in Hosts, NEW u \in Users, OffliningUsr(h, u)
      PROVE  (PoolEntries /\ PoolKeepsLatest /\ OpenSessionIsReachable)'
  BY <1>18 DEF OffliningUsr
<1>19. ASSUME NEW h \in Hosts, Crash(h)
      PROVE  (PoolEntries /\ PoolKeepsLatest /\ OpenSessionIsReachable)'
  BY <1>19 DEF Crash
<1>20. CASE UNCHANGED <<pc, connVars, Sesses>>
  BY <1>20
<1> QED
  BY <1>0, <1>1, <1>2, <1>3, <1>4, <1>5, <1>6, <1>7, <1>8, <1>9, <1>10, <1>11, <1>12, <1>13,
      <1>14, <1>15, <1>16, <1>17, <1>18, <1>19, <1>20
  DEF Next, Step, vars, connVars, redisVars, busVars, StoreOfflineMsg, HandleOnOff,
      InitUsr2Sentinel, ClearRedis

\* The invariant holds initially.
LEMMA InitInv == Init => IInv
<1> SUFFICES ASSUME Init PROVE IInv
  OBVIOUS
<1> USE UsersAssumption, NullsAssumption, MaxCrashAssumption DEF Init
<1>1. ConnTypes
  BY DEF ConnTypes, PCs, Early, Added
<1>2. RedisTypes /\ BusTypes
  BY DEF RedisTypes, BusTypes, Bindings
<1>3. EarlyUid /\ AddedUid /\ VictimWasAdded /\ Registers
  BY DEF EarlyUid, AddedUid, VictimWasAdded, Registers, Started, Early, Added, InPool
<1>4. PoolEntries /\ PoolKeepsLatest /\ OpenSessionIsReachable
  BY DEF PoolEntries, PoolKeepsLatest, OpenSessionIsReachable, InPool, Added
<1> QED
  BY <1>1, <1>2, <1>3, <1>4 DEF IInv, TypeOK

\* Every step of every goroutine, of the comet and of its environment keeps it.
LEMMA NextInv == IInv /\ [Next]_vars => IInv'
  BY ConnTypesStep, RedisTypesStep, BusTypesStep, UidStep, RegistersStep, PoolStep
  DEF IInv, TypeOK

\* For any connections, comets, users and messages, and any number of crashes.
LEMMA Invariant == Spec => []IInv
  BY InitInv, NextInv, PTL DEF Spec

\* TypeOK holds in every behaviour: the uids that reach the Lua scripts, the
\* offline lists and the OnOff channel are users' or -1.
THEOREM TypeCorrect == Spec => []TypeOK
<1>1. IInv => TypeOK
  BY DEF IInv
<1> QED
  BY <1>1, Invariant, PTL

\* The comment at ms.go:98 is right for every interleaving: RemoveSession never
\* deletes the session of a later login.
THEOREM PoolKeepsLatestAlways == Spec => []PoolKeepsLatest
<1>1. IInv => PoolKeepsLatest
  BY DEF IInv
<1> QED
  BY <1>1, Invariant, PTL

\* An open session is the one its comet's pool holds for its user.
THEOREM OpenSessionIsReachableAlways == Spec => []OpenSessionIsReachable
<1>1. IInv => OpenSessionIsReachable
  BY DEF IInv
<1> QED
  BY <1>1, Invariant, PTL

-----------------------------------------------------------------------------
(* NoDanglingRoute.  FinalRoute is read off a channel and a table entry by *)
(* a constant operator, so that the three things that happen to a channel  *)
(* (a publication about the user, one about another, the head handled) are *)
(* facts about sequences.                                                  *)

\* The order of the naturals, as a relation.
Less == {ss \in Nat \X Nat : ss[1] < ss[2]}

\* A non-empty set of naturals has a least element.
LEMMA LeastNat ==
    ASSUME NEW T \in SUBSET Nat, T # {}
    PROVE  \E x \in T : \A y \in T : x <= y
<1>1. IsWellFoundedOn(Less, Nat)
  BY NatLessThanWellFounded DEF Less, OpToRel
<1>2. PICK x \in T : \A y \in T : <<y, x>> \notin Less
  BY <1>1, WFMin
<1>3. ASSUME NEW y \in T, y < x PROVE FALSE
  <2>1. <<y, x>> \in Less
    BY <1>3 DEF Less
  <2> QED
    BY <2>1, <1>2
<1> QED
  BY <1>3

\* A bounded one has a greatest.
LEMMA GreatestNat ==
    ASSUME NEW n \in Nat, NEW T \in SUBSET (0..n), T # {}
    PROVE  \E x \in T : \A y \in T : y <= x
<1> DEFINE S == {n - y : y \in T}
<1>1. S \in SUBSET Nat
  OBVIOUS
<1>2. S # {}
  OBVIOUS
<1>3. PICK z \in S : \A y \in S : z <= y
  BY <1>1, <1>2, LeastNat
<1>4. PICK x \in T : z = n - x
  OBVIOUS
<1>5. \A y \in T : n - y \in S
  OBVIOUS
<1> HIDE DEF S
<1> QED
  BY <1>3, <1>4, <1>5

RouteAfter(q, route, u) ==
    LET mine == {i \in DOMAIN q : q[i].user = u}
        last == q[CHOOSE i \in mine : \A j \in mine : j <= i]
    IN  IF mine = {} THEN route
        ELSE IF last.on THEN last.host ELSE NoHost

\* k is the last message about u.
LastAbout(q, u, k) ==
    /\ k \in DOMAIN q
    /\ q[k].user = u
    /\ \A j \in DOMAIN q : q[j].user = u => j <= k

\* The last message about the user decides.
LEMMA RouteOfLast ==
    ASSUME NEW q \in Seq(OnOffMsg), NEW route, NEW u, NEW k, LastAbout(q, u, k)
    PROVE  RouteAfter(q, route, u) = IF q[k].on THEN q[k].host ELSE NoHost
<1> USE DEF LastAbout
<1> DEFINE mine == {i \in DOMAIN q : q[i].user = u}
<1>1. k \in mine /\ \A j \in mine : j <= k
  OBVIOUS
<1>2. (CHOOSE i \in mine : \A j \in mine : j <= i) = k
  <2>1. DOMAIN q \subseteq Nat
    OBVIOUS
  <2>2. \A i \in mine : (\A j \in mine : j <= i) => i = k
    BY <1>1, <2>1
  <2> HIDE DEF mine
  <2> QED
    BY <1>1, <2>2
<1> QED
  BY <1>1, <1>2 DEF RouteAfter

\* Without one the table does.
LEMMA RouteOfNone ==
    ASSUME NEW q \in Seq(OnOffMsg), NEW route, NEW u, \A i \in DOMAIN q : q[i].user # u
    PROVE  RouteAfter(q, route, u) = route
<1>1. {i \in DOMAIN q : q[i].user = u} = {}
  OBVIOUS
<1> QED
  BY <1>1 DEF RouteAfter

\* There is a last message about the user, or there is none.
LEMMA LastOrNone ==
    ASSUME NEW q \in Seq(OnOffMsg), NEW u
    PROVE  (\A i \in DOMAIN q : q[i].user # u) \/ \E k : LastAbout(q, u, k)
<1> DEFINE mine == {i \in DOMAIN q : q[i].user = u}
<1>1. Len(q) \in Nat /\ mine \in SUBSET (0..Len(q))
  OBVIOUS
<1>2. CASE mine = {}
  BY <1>2
<1>3. CASE mine # {}
  <2>1. PICK k \in mine : \A j \in mine : j <= k
    <3> HIDE DEF mine
    <3> QED
      BY <1>1, <1>3, GreatestNat
  <2>2. LastAbout(q, u, k)
    BY <2>1 DEF LastAbout
  <2> QED
    BY <2>2
<1> QED
  BY <1>2, <1>3

\* A route is a comet or none.
LEMMA RouteType ==
    ASSUME NEW q \in Seq(OnOffMsg), NEW route \in Hosts \cup {NoHost}, NEW u
    PROVE  RouteAfter(q, route, u) \in Hosts \cup {NoHost}
<1>1. CASE \A i \in DOMAIN q : q[i].user # u
  BY <1>1, RouteOfNone
<1>2. ASSUME NEW k, LastAbout(q, u, k) PROVE RouteAfter(q, route, u) \in Hosts \cup {NoHost}
  <2>1. q[k] \in OnOffMsg
    BY <1>2 DEF LastAbout
  <2> QED
    BY <1>2, <2>1, RouteOfLast DEF OnOffMsg
<1> QED
  BY <1>1, <1>2, LastOrNone

\* What is published about a user decides the route of that user and of no other.
LEMMA RouteAppend ==
    ASSUME NEW q \in Seq(OnOffMsg), NEW route, NEW m \in OnOffMsg, NEW u
    PROVE  RouteAfter(Append(q, m), route, u) =
             IF m.user = u THEN (IF m.on THEN m.host ELSE NoHost) ELSE RouteAfter(q, route, u)
<1> DEFINE a == Append(q, m)
<1>1. /\ a \in Seq(OnOffMsg)
      /\ DOMAIN q = 1..Len(q) /\ Len(q) \in Nat
      /\ DOMAIN a = 1..(Len(q) + 1)
      /\ a[Len(q) + 1] = m
      /\ \A i \in DOMAIN q : a[i] = q[i]
  OBVIOUS
<1> HIDE DEF a
<1>2. CASE m.user = u
  <2>1. LastAbout(a, u, Len(q) + 1)
    BY <1>1, <1>2 DEF LastAbout
  <2>2. RouteAfter(a, route, u) = IF a[Len(q) + 1].on THEN a[Len(q) + 1].host ELSE NoHost
    BY <1>1, <2>1, RouteOfLast
  <2> QED
    BY <1>1, <1>2, <2>2 DEF a
<1>3. CASE m.user # u
  <2>1. CASE \A i \in DOMAIN q : q[i].user # u
    <3>1. \A i \in DOMAIN a : a[i].user # u
      BY <1>1, <1>3, <2>1
    <3>2. RouteAfter(a, route, u) = route /\ RouteAfter(q, route, u) = route
      BY <1>1, <2>1, <3>1, RouteOfNone
    <3> QED
      BY <1>3, <3>2 DEF a
  <2>2. ASSUME NEW k, LastAbout(q, u, k)
        PROVE  RouteAfter(a, route, u) = RouteAfter(q, route, u)
    <3>1. LastAbout(a, u, k) /\ a[k] = q[k]
      BY <1>1, <1>3, <2>2 DEF LastAbout
    <3> QED
      BY <1>1, <2>2, <3>1, RouteOfLast
  <2> QED
    BY <1>3, <2>1, <2>2, LastOrNone DEF a
<1> QED
  BY <1>2, <1>3

\* handleOnOff, applied to the head, changes no route that was to come.
LEMMA RouteTail ==
    ASSUME NEW q \in Seq(OnOffMsg), q # <<>>, NEW route, NEW u
    PROVE  RouteAfter(Tail(q),
                      IF Head(q).user = u THEN (IF Head(q).on THEN Head(q).host ELSE NoHost)
                                          ELSE route, u)
             = RouteAfter(q, route, u)
<1> DEFINE t == Tail(q)
           new == IF Head(q).user = u THEN (IF Head(q).on THEN Head(q).host ELSE NoHost)
                                      ELSE route
<1>1. /\ t \in Seq(OnOffMsg)
      /\ Len(q) \in Nat \ {0} /\ DOMAIN q = 1..Len(q)
      /\ DOMAIN t = 1..(Len(q) - 1)
      /\ Head(q) = q[1]
      /\ \A i \in DOMAIN t : t[i] = q[i + 1]
  OBVIOUS
<1> HIDE DEF t
<1>2. CASE \A i \in DOMAIN q : q[i].user # u
  <2>1. \A i \in DOMAIN t : t[i].user # u
    BY <1>1, <1>2
  <2>2. q[1].user # u
    BY <1>1, <1>2
  <2>3. RouteAfter(t, route, u) = route /\ RouteAfter(q, route, u) = route
    BY <1>1, <1>2, <2>1, RouteOfNone
  <2> QED
    BY <1>1, <2>2, <2>3 DEF t
<1>3. ASSUME NEW k, LastAbout(q, u, k)
      PROVE  RouteAfter(t, new, u) = RouteAfter(q, route, u)
  <2>1. k \in 1..Len(q)
    BY <1>1, <1>3 DEF LastAbout
  <2>2. CASE k = 1
    <3>1. \A i \in DOMAIN t : t[i].user # u
      BY <1>1, <1>3, <2>2 DEF LastAbout
    <3>2. new = IF q[1].on THEN q[1].host ELSE NoHost
      BY <1>1, <1>3, <2>2 DEF LastAbout
    <3> HIDE DEF new
    <3>3. RouteAfter(t, new, u) = new
      BY <1>1, <3>1, RouteOfNone
    <3>4. RouteAfter(q, route, u) = IF q[1].on THEN q[1].host ELSE NoHost
      BY <1>3, <2>2, RouteOfLast
    <3> QED
      BY <3>2, <3>3, <3>4
  <2>3. CASE k # 1
    <3>1. k - 1 \in DOMAIN t /\ t[k - 1] = q[k]
      BY <1>1, <2>1, <2>3
    <3>2. ASSUME NEW j \in DOMAIN t, t[j].user = u PROVE j <= k - 1
      <4>1. j + 1 \in DOMAIN q /\ q[j + 1].user = u
        BY <1>1, <3>2
      <4> QED
        BY <1>1, <1>3, <2>1, <4>1 DEF LastAbout
    <3>3. LastAbout(t, u, k - 1)
      BY <1>3, <3>1, <3>2 DEF LastAbout
    <3> HIDE DEF new
    <3>4. RouteAfter(t, new, u) = IF t[k - 1].on THEN t[k - 1].host ELSE NoHost
      BY <1>1, <3>3, RouteOfLast
    <3>5. RouteAfter(q, route, u) = IF q[k].on THEN q[k].host ELSE NoHost
      BY <1>3, RouteOfLast
    <3> QED
      BY <3>1, <3>4, <3>5
  <2> QED
    BY <2>2, <2>3
<1> QED
  BY <1>2, <1>3, LastOrNone DEF t

\* FinalRoute is RouteAfter of the channel and the table.
LEMMA FinalRouteIs ==
    ASSUME NEW h, NEW u
    PROVE  /\ FinalRoute(h, u) = RouteAfter(onoff[h], usr2sentinel[h][u], u)
           /\ FinalRoute(h, u)' = RouteAfter(onoff'[h], usr2sentinel'[h][u], u)
  BY DEF FinalRoute, RouteAfter

\* Until the first crash every comet is subscribed.
AllUp == crashes = 0 => \A h \in Hosts : up[h] = "up"

RInv == IInv /\ AllUp /\ NoDanglingRoute

\* A route is a comet or none.
LEMMA FinalRouteInTable ==
    ASSUME BusTypes, NEW g \in Hosts, NEW v \in Users
    PROVE  FinalRoute(g, v) \in Hosts \cup {NoHost}
<1>1. onoff[g] \in Seq(OnOffMsg) /\ usr2sentinel[g][v] \in Hosts \cup {NoHost}
  BY DEF BusTypes, Bindings
<1>2. RouteAfter(onoff[g], usr2sentinel[g][v], v) \in Hosts \cup {NoHost}
  BY <1>1, RouteType
<1> QED
  BY <1>2, FinalRouteIs

\* A publication decides the route of its user, and of no other.
LEMMA RoutePublished ==
    ASSUME BusTypes, NEW g \in Hosts, NEW m \in OnOffMsg, onoff'[g] = Append(onoff[g], m),
           UNCHANGED usr2sentinel, NEW v \in Users
    PROVE  FinalRoute(g, v)' = IF m.user = v THEN (IF m.on THEN m.host ELSE NoHost)
                               ELSE FinalRoute(g, v)
<1>1. onoff[g] \in Seq(OnOffMsg)
  BY DEF BusTypes
<1>2. RouteAfter(Append(onoff[g], m), usr2sentinel[g][v], v) =
        IF m.user = v THEN (IF m.on THEN m.host ELSE NoHost)
        ELSE RouteAfter(onoff[g], usr2sentinel[g][v], v)
  BY <1>1, RouteAppend
<1> QED
  BY <1>2, FinalRouteIs

\* _scriptOnline: the comet a login is published for counts the user; a login that
\* is not published moves no route.
LEMMA ScriptOnlineRoutes ==
    ASSUME RedisTypes, BusTypes, \A g \in Hosts : up[g] = "up",
           \A g \in Hosts, v \in Users : FinalRoute(g, v) # NoHost => cnt[FinalRoute(g, v)][v] > 0,
           NEW h \in Hosts, NEW u \in Users, NEW m, ScriptOnline(h, u, m), UNCHANGED usr2sentinel,
           NEW g \in Hosts, NEW v \in Users, FinalRoute(g, v)' # NoHost
    PROVE  cnt'[FinalRoute(g, v)'][v] > 0
<1>1. /\ FinalRoute(g, v) \in Hosts \cup {NoHost}
      /\ FinalRoute(g, v) # NoHost => cnt[FinalRoute(g, v)][v] > 0
  BY FinalRouteInTable
<1>2. cnt' = [cnt EXCEPT ![h][u] = @ + 1] /\ cnt \in [Hosts -> [Users -> Nat]]
  BY DEF ScriptOnline, RedisTypes
<1>3. \A k \in Hosts : cnt[k][v] > 0 => cnt'[k][v] > 0
  BY <1>2
<1>4. cnt'[h][u] > 0
  BY <1>2
<1>5. CASE cnt[h][u] = 0
  <2> DEFINE n == [user |-> u, host |-> h, on |-> TRUE]
  <2>1. n \in OnOffMsg /\ onoff'[g] = Append(onoff[g], n)
    BY <1>5 DEF ScriptOnline, Publish, OnOffMsg
  <2>2. FinalRoute(g, v)' = IF n.user = v THEN (IF n.on THEN n.host ELSE NoHost)
                            ELSE FinalRoute(g, v)
    BY <2>1, RoutePublished
  <2>3. FinalRoute(g, v)' = IF v = u THEN h ELSE FinalRoute(g, v)
    BY <2>2
  <2> QED
    BY <1>1, <1>3, <1>4, <2>3
<1>6. CASE cnt[h][u] # 0
  <2>1. FinalRoute(g, v)' = FinalRoute(g, v)
    BY <1>6, FinalRouteIs DEF ScriptOnline
  <2> QED
    BY <1>1, <1>3, <2>1
<1> QED
  BY <1>5, <1>6

\* _scriptOffline: the count is deleted and no table keeps a route for the user.
LEMMA ScriptOfflineRoutes ==
    ASSUME RedisTypes, BusTypes, \A g \in Hosts : up[g] = "up",
           \A g \in Hosts, v \in Users : FinalRoute(g, v) # NoHost => cnt[FinalRoute(g, v)][v] > 0,
           NEW h \in Hosts, NEW u \in Users \cup {Displaced}, ScriptOffline(h, u),
           UNCHANGED usr2sentinel,
           NEW g \in Hosts, NEW v \in Users, FinalRoute(g, v)' # NoHost
    PROVE  cnt'[FinalRoute(g, v)'][v] > 0
<1>1. /\ FinalRoute(g, v) \in Hosts \cup {NoHost}
      /\ FinalRoute(g, v) # NoHost => cnt[FinalRoute(g, v)][v] > 0
  BY FinalRouteInTable
<1>2. CASE u = Displaced
  <2>1. UNCHANGED <<cnt, onoff>>
    BY <1>2 DEF ScriptOffline, redisVars
  <2>2. FinalRoute(g, v)' = FinalRoute(g, v)
    BY <2>1, FinalRouteIs
  <2> QED
    BY <2>1, <2>2
<1>3. CASE u # Displaced
  <2> DEFINE n == [user |-> u, host |-> h, on |-> FALSE]
  <2>1. u \in Users /\ cnt' = [cnt EXCEPT ![h][u] = 0]
    BY <1>3 DEF ScriptOffline
  <2>2. n \in OnOffMsg /\ onoff'[g] = Append(onoff[g], n)
    BY <1>3, <2>1 DEF ScriptOffline, Publish, OnOffMsg
  <2>3. FinalRoute(g, v)' = IF n.user = v THEN (IF n.on THEN n.host ELSE NoHost)
                            ELSE FinalRoute(g, v)
    BY <2>2, RoutePublished
  <2>4. FinalRoute(g, v)' = IF v = u THEN NoHost ELSE FinalRoute(g, v)
    BY <2>3
  <2>5. v # u => \A k \in Hosts : cnt'[k][v] = cnt[k][v]
    BY <2>1 DEF RedisTypes
  <2> QED
    BY <1>1, <2>4, <2>5
<1> QED
  BY <1>2, <1>3

\* Every step keeps the routes, until a comet crashes.
LEMMA RouteStep ==
    ASSUME RInv, [Next]_vars PROVE (AllUp /\ NoDanglingRoute)'
<1> USE UsersAssumption, NullsAssumption, MaxCrashAssumption DEF RInv, AllUp, NoDanglingRoute
<1>0. /\ RedisTypes /\ BusTypes /\ crashes \in Nat
      /\ \A c \in Conns : pc[c] = "login" => HostOf(c) \in Hosts /\ uid[c] \in Users
      /\ \A c \in Conns : pc[c] = "lua" => HostOf(c) \in Hosts /\ arg[c] \in Users \cup {Displaced}
  BY DEF IInv, TypeOK, BusTypes, EarlyUid, AddedUid, Registers, Started, Early, Added, InPool
<1>1. ASSUME NEW c \in Conns, Login(c) PROVE (AllUp /\ NoDanglingRoute)'
  <2>1. /\ HostOf(c) \in Hosts /\ uid[c] \in Users
        /\ ScriptOnline(HostOf(c), uid[c], login[c].mobile)
        /\ UNCHANGED <<up, usr2sentinel, crashes>>
    BY <1>0, <1>1 DEF Login, Goto
  <2> QED
    BY <1>0, <2>1, ScriptOnlineRoutes
<1>2. ASSUME NEW c \in Conns, LoginError(c) PROVE (AllUp /\ NoDanglingRoute)'
  <2>1. /\ HostOf(c) \in Hosts /\ uid[c] \in Users
        /\ UNCHANGED <<up, usr2sentinel, crashes>>
    BY <1>0, <1>2 DEF LoginError, Goto
  <2>2. CASE ScriptOnline(HostOf(c), uid[c], login[c].mobile)
    BY <1>0, <2>1, <2>2, ScriptOnlineRoutes
  <2>3. CASE UNCHANGED <<redisVars, onoff>>
    BY <2>1, <2>3, FinalRouteIs DEF redisVars
  <2> QED
    BY <1>2, <2>2, <2>3 DEF LoginError
<1>3. ASSUME NEW c \in Conns, Logout(c) PROVE (AllUp /\ NoDanglingRoute)'
  <2>1. /\ HostOf(c) \in Hosts /\ arg[c] \in Users \cup {Displaced}
        /\ UNCHANGED <<up, usr2sentinel, crashes>>
    BY <1>0, <1>3 DEF Logout, Goto
  <2>2. CASE ScriptOffline(HostOf(c), arg[c])
    BY <1>0, <2>1, <2>2, ScriptOfflineRoutes
  <2>3. CASE UNCHANGED <<redisVars, onoff>>
    BY <2>1, <2>3, FinalRouteIs DEF redisVars
  <2> QED
    BY <1>3, <2>2, <2>3 DEF Logout
<1>4. ASSUME NEW h \in Hosts, HandleOnOff(h) PROVE (AllUp /\ NoDanglingRoute)'
  <2>1. /\ onoff[h] \in Seq(OnOffMsg) /\ onoff[h] # <<>>
        /\ usr2sentinel \in [Hosts -> Bindings] /\ onoff \in [Hosts -> Seq(OnOffMsg)]
        /\ UNCHANGED <<cnt, up, crashes>>
    BY <1>0, <1>4 DEF HandleOnOff, BusTypes, redisVars
  <2> DEFINE m == Head(onoff[h])
  <2>2. /\ onoff' = [onoff EXCEPT ![h] = Tail(@)]
        /\ usr2sentinel' = [usr2sentinel EXCEPT ![h][m.user] = IF m.on THEN m.host ELSE NoHost]
    BY <1>4 DEF HandleOnOff
  <2>3. ASSUME NEW g \in Hosts, NEW v \in Users PROVE FinalRoute(g, v)' = FinalRoute(g, v)
    <3>1. CASE g # h
      <4>1. onoff'[g] = onoff[g] /\ usr2sentinel'[g] = usr2sentinel[g]
        BY <2>1, <2>2, <3>1
      <4> QED
        BY <4>1, FinalRouteIs
    <3>2. CASE g = h
      <4>1. m.user \in Users
        <5>1. m \in OnOffMsg
          BY <2>1
        <5> QED
          BY <5>1 DEF OnOffMsg
      <4>2. onoff'[h] = Tail(onoff[h])
        BY <2>1, <2>2
      <4>3. usr2sentinel'[h][v] =
              IF m.user = v THEN (IF m.on THEN m.host ELSE NoHost) ELSE usr2sentinel[h][v]
        <5> HIDE DEF m
        <5> QED
          BY <2>1, <2>2, <4>1 DEF Bindings
      <4>4. RouteAfter(onoff'[h], usr2sentinel'[h][v], v)
              = RouteAfter(onoff[h], usr2sentinel[h][v], v)
        BY <2>1, <4>2, <4>3, RouteTail
      <4> QED
        BY <3>2, <4>4, FinalRouteIs
    <3> QED
      BY <3>1, <3>2
  <2> QED
    BY <2>1, <2>3
<1>5. ASSUME NEW h \in Hosts, Crash(h) PROVE (AllUp /\ NoDanglingRoute)'
  BY <1>0, <1>5 DEF Crash
<1>6. ASSUME NEW h \in Hosts, InitUsr2Sentinel(h) \/ ClearRedis(h)
      PROVE  (AllUp /\ NoDanglingRoute)'
  BY <1>6 DEF InitUsr2Sentinel, ClearRedis
<1>7. CASE UNCHANGED <<cnt, up, onoff, usr2sentinel, crashes>>
  <2>1. \A g \in Hosts, v \in Users : FinalRoute(g, v)' = FinalRoute(g, v)
    BY <1>7, FinalRouteIs
  <2> QED
    BY <1>7, <2>1
<1>8. ASSUME NEW c \in Conns,
             Authenticate(c) \/ AuthError(c) \/ ReadMobileId(c) \/ FindSession(c)
              \/ DisplaceSession(c) \/ CloseDisplaced(c) \/ AddSession(c) \/ ReadError(c)
      PROVE  UNCHANGED <<cnt, up, onoff, usr2sentinel, crashes>>
  BY <1>8 DEF Authenticate, AuthError, ReadMobileId, FindSession, DisplaceSession,
       CloseDisplaced, AddSession, ReadError, redisVars, busVars
<1>9. ASSUME NEW c \in Conns,
             SendAckLoginOK(c) \/ PopOfflineMsg(c) \/ SendOfflineMsg(c)
              \/ PushOfflineMsg(c) \/ LogoutCheck(c) \/ LogoutArg(c) \/ RemoveSession(c)
      PROVE  UNCHANGED <<cnt, up, onoff, usr2sentinel, crashes>>
  BY <1>9 DEF SendAckLoginOK, PopOfflineMsg, SendOfflineMsg, PushOfflineMsg, LogoutCheck,
       LogoutArg, RemoveSession, redisVars, busVars
<1>10. ASSUME NEW h \in Hosts, NEW u \in Users, OffliningUsr(h, u)
       PROVE  UNCHANGED <<cnt, up, onoff, usr2sentinel, crashes>>
  BY <1>10 DEF OffliningUsr, redisVars, busVars
<1>11. ASSUME NEW u \in Users, NEW m \in Msgs, StoreOfflineMsg(u, m)
       PROVE  UNCHANGED <<cnt, up, onoff, usr2sentinel, crashes>>
  BY <1>11 DEF StoreOfflineMsg, redisVars, busVars
<1> QED
  BY <1>1, <1>2, <1>3, <1>4, <1>5, <1>6, <1>7, <1>8, <1>9, <1>10, <1>11
  DEF Next, Step, vars, redisVars, busVars

\* As long as no comet restarts, every route leads to a comet that counts the user,
\* for any comets and users and any interleaving of logins, logouts and handleOnOff.
THEOREM NoDanglingRouteAlways == Spec => []NoDanglingRoute
<1>1. Init => RInv
  <2> SUFFICES ASSUME Init PROVE AllUp /\ NoDanglingRoute
    BY InitInv DEF RInv
  <2>1. ASSUME NEW h \in Hosts, NEW u \in Users PROVE FinalRoute(h, u) = NoHost
    <3>1. onoff[h] = <<>> /\ usr2sentinel[h][u] = NoHost
      BY DEF Init
    <3>2. <<>> \in Seq(OnOffMsg) /\ \A i \in DOMAIN <<>> : <<>>[i].user # u
      OBVIOUS
    <3>3. RouteAfter(<<>>, NoHost, u) = NoHost
      BY <3>2, RouteOfNone, ZenonT(60)
    <3> QED
      BY <3>1, <3>3, FinalRouteIs
  <2> QED
    BY <2>1 DEF Init, AllUp, NoDanglingRoute
<1>2. RInv /\ [Next]_vars => RInv'
  BY NextInv, RouteStep DEF RInv
<1>3. RInv => NoDanglingRoute
  BY DEF RInv
<1> QED
  BY <1>1, <1>2, <1>3, PTL DEF Spec

-----------------------------------------------------------------------------
(* OfflineMsgNeverTwice, from a form of it without cardinalities.          *)

Lists == Users \cup {Displaced}

\* No message is twice in the lists ...
OneList ==
    \A u \in Lists, v \in Lists : \A i \in DOMAIN msgq[u], j \in DOMAIN msgq[v] :
        msgq[u][i] = msgq[v][j] => u = v /\ i = j

\* ... in two goroutines' hands, or on two phones ...
OneHand == \A c, d \in Conns : hand[c] = hand[d] /\ hand[c] # NoMsg => c = d

OnePhone == \A m \in Msgs : \A c, d \in Conns : <<m, c>> \in sent /\ <<m, d>> \in sent => c = d

\* ... or in places of two kinds.
Apart ==
    /\ \A u \in Lists, c \in Conns : \A i \in DOMAIN msgq[u] :
        msgq[u][i] # hand[c] /\ <<msgq[u][i], c>> \notin sent
    /\ \A c, d \in Conns : <<hand[c], d>> \notin sent

OnePlace == OneList /\ OneHand /\ OnePhone /\ Apart

\* A message that is nowhere may be appended to a list.
LEMMA AppendOnce ==
    ASSUME RedisTypes, OneList, NEW u \in Lists, NEW m \in Msgs,
           \A v \in Lists : \A i \in DOMAIN msgq[v] : msgq[v][i] # m,
           msgq' = [msgq EXCEPT ![u] = Append(@, m)]
    PROVE  /\ OneList'
           /\ \A v \in Lists : \A i \in DOMAIN msgq'[v] :
                msgq'[v][i] = m \/ (i \in DOMAIN msgq[v] /\ msgq'[v][i] = msgq[v][i])
<1>1. msgq \in [Lists -> Seq(Msgs)]
  BY DEF RedisTypes, Lists
<1>2. /\ msgq'[u] = Append(msgq[u], m)
      /\ \A v \in Lists : v # u => msgq'[v] = msgq[v]
  BY <1>1
<1>3. /\ \A v \in Lists : DOMAIN msgq[v] = 1..Len(msgq[v]) /\ Len(msgq[v]) \in Nat
      /\ DOMAIN msgq'[u] = 1..(Len(msgq[u]) + 1)
      /\ msgq'[u][Len(msgq[u]) + 1] = m
      /\ \A i \in DOMAIN msgq[u] : msgq'[u][i] = msgq[u][i]
  BY <1>1, <1>2
<1>4. \A v \in Lists : \A i \in DOMAIN msgq'[v] :
        \/ v = u /\ i = Len(msgq[u]) + 1 /\ msgq'[v][i] = m
        \/ i \in DOMAIN msgq[v] /\ msgq'[v][i] = msgq[v][i]
  BY <1>2, <1>3
<1>5. OneList'
  BY <1>4 DEF OneList
<1> QED
  BY <1>4, <1>5

\* lpop: what stays was there before, one place further on.
LEMMA PopOnce ==
    ASSUME RedisTypes, OneList, NEW u \in Lists, msgq[u] # <<>>,
           msgq' = [msgq EXCEPT ![u] = Tail(msgq[u])]
    PROVE  /\ OneList'
           /\ 1 \in DOMAIN msgq[u] /\ Head(msgq[u]) = msgq[u][1] /\ Head(msgq[u]) \in Msgs
           /\ \A v \in Lists : \A i \in DOMAIN msgq'[v] :
                /\ msgq'[v][i] # Head(msgq[u])
                /\ \E j \in DOMAIN msgq[v] : msgq'[v][i] = msgq[v][j]
<1>1. msgq \in [Lists -> Seq(Msgs)]
  BY DEF RedisTypes, Lists
<1>2. /\ msgq'[u] = Tail(msgq[u])
      /\ \A v \in Lists : v # u => msgq'[v] = msgq[v]
  BY <1>1
<1>3. /\ \A v \in Lists : DOMAIN msgq[v] = 1..Len(msgq[v]) /\ Len(msgq[v]) \in Nat
      /\ Len(msgq[u]) > 0
      /\ Head(msgq[u]) = msgq[u][1] /\ Head(msgq[u]) \in Msgs
      /\ DOMAIN msgq'[u] = 1..(Len(msgq[u]) - 1)
      /\ \A i \in DOMAIN msgq'[u] : msgq'[u][i] = msgq[u][i + 1]
  BY <1>1, <1>2
<1> DEFINE was(v, i) == IF v = u THEN i + 1 ELSE i
<1>4. \A v \in Lists : \A i \in DOMAIN msgq'[v] :
        was(v, i) \in DOMAIN msgq[v] /\ msgq'[v][i] = msgq[v][was(v, i)]
          /\ (v = u => was(v, i) # 1)
  BY <1>2, <1>3
<1>5. \A v \in Lists : \A i, j \in DOMAIN msgq'[v] : was(v, i) = was(v, j) => i = j
  BY <1>2, <1>3
<1> HIDE DEF was
<1>6. OneList'
  BY <1>4, <1>5 DEF OneList
<1>7. 1 \in DOMAIN msgq[u]
  BY <1>3
<1>8. \A v \in Lists : \A i \in DOMAIN msgq'[v] : msgq'[v][i] # Head(msgq[u])
  BY <1>3, <1>4, <1>7 DEF OneList
<1> QED
  BY <1>3, <1>4, <1>6, <1>7, <1>8

\* Every step leaves a message in one place at most.
LEMMA OnePlaceStep ==
    ASSUME IInv, OnePlace, [Next]_vars PROVE OnePlace'
<1> USE NullsAssumption
<1>0. /\ RedisTypes /\ hand \in [Conns -> Msgs \cup {NoMsg}]
      /\ \A c \in Conns : pc[c] \in {"drain", "repush"} => uid[c] \in Lists
      /\ \A c \in Conns : pc[c] \in {"send", "repush"} => hand[c] \in Msgs
  BY DEF IInv, TypeOK, ConnTypes, AddedUid, Registers, Added, InPool, Lists
<1>1. ASSUME NEW c \in Conns, PopOfflineMsg(c) PROVE OnePlace'
  <2>1. pc[c] = "drain" /\ uid[c] \in Lists /\ UNCHANGED sent
    BY <1>0, <1>1 DEF PopOfflineMsg, Goto
  <2>2. CASE /\ msgq[uid[c]] # <<>>
             /\ hand' = [hand EXCEPT ![c] = Head(msgq[uid[c]])]
             /\ msgq' = [msgq EXCEPT ![uid[c]] = Tail(msgq[uid[c]])]
    <3> DEFINE m == Head(msgq[uid[c]])
    <3>1. /\ OneList'
          /\ 1 \in DOMAIN msgq[uid[c]] /\ m = msgq[uid[c]][1] /\ m \in Msgs
          /\ \A v \in Lists : \A i \in DOMAIN msgq'[v] :
              msgq'[v][i] # m /\ \E j \in DOMAIN msgq[v] : msgq'[v][i] = msgq[v][j]
      BY <1>0, <2>1, <2>2, PopOnce DEF OnePlace
    <3>2. \A d \in Conns : hand[d] # m /\ <<m, d>> \notin sent
      BY <2>1, <3>1 DEF OnePlace, Apart
    <3>3. hand' = [hand EXCEPT ![c] = m]
      BY <2>2
    <3> HIDE DEF m
    <3>4. OneHand' /\ OnePhone'
      BY <1>0, <2>1, <3>2, <3>3 DEF OnePlace, OneHand, OnePhone
    <3>5. Apart'
      BY <1>0, <2>1, <3>1, <3>2, <3>3, SMTT(30) DEF OnePlace, Apart
    <3> QED
      BY <3>1, <3>4, <3>5 DEF OnePlace
  <2>3. CASE UNCHANGED <<hand, msgq>>
    BY <2>1, <2>3 DEF OnePlace, OneList, OneHand, OnePhone, Apart
  <2> QED
    BY <1>1, <2>2, <2>3 DEF PopOfflineMsg
<1>2. ASSUME NEW c \in Conns, SendOfflineMsg(c) PROVE OnePlace'
  <2>1. pc[c] = "send" /\ hand[c] \in Msgs /\ UNCHANGED msgq
    BY <1>0, <1>2 DEF SendOfflineMsg, Goto
  <2>2. CASE sent' = sent \cup {<<hand[c], c>>} /\ hand' = [hand EXCEPT ![c] = NoMsg]
    <3>1. \A d \in Conns : d # c => hand[d] # hand[c]
      BY <1>0, <2>1 DEF OnePlace, OneHand
    <3>2. OneList' /\ OneHand' /\ OnePhone'
      BY <1>0, <2>1, <2>2 DEF OnePlace, OneList, OneHand, OnePhone, Apart
    <3>3. \A u \in Lists : \A i \in DOMAIN msgq[u] : msgq[u][i] \in Msgs
      BY <1>0 DEF RedisTypes, Lists
    <3>4. \A d \in Conns : <<NoMsg, d>> \notin sent'
      BY <1>0, <2>1, <2>2 DEF RedisTypes
    <3>5. Apart'
      BY <1>0, <2>1, <2>2, <3>1, <3>3, <3>4 DEF OnePlace, Apart
    <3> QED
      BY <3>2, <3>5 DEF OnePlace
  <2>3. CASE UNCHANGED <<sent, hand>>
    BY <2>1, <2>3 DEF OnePlace, OneList, OneHand, OnePhone, Apart
  <2> QED
    BY <1>2, <2>2, <2>3 DEF SendOfflineMsg
<1>3. ASSUME NEW c \in Conns, PushOfflineMsg(c) PROVE OnePlace'
  <2>1. /\ uid[c] \in Lists /\ hand[c] \in Msgs /\ UNCHANGED sent
        /\ msgq' = [msgq EXCEPT ![uid[c]] = Append(@, hand[c])]
        /\ hand' = [hand EXCEPT ![c] = NoMsg]
    BY <1>0, <1>3 DEF PushOfflineMsg, Goto
  <2>2. /\ OneList'
        /\ \A v \in Lists : \A i \in DOMAIN msgq'[v] :
            msgq'[v][i] = hand[c] \/ (i \in DOMAIN msgq[v] /\ msgq'[v][i] = msgq[v][i])
    <3>1. \A v \in Lists : \A i \in DOMAIN msgq[v] : msgq[v][i] # hand[c]
      BY DEF OnePlace, Apart
    <3> QED
      BY <1>0, <2>1, <3>1, AppendOnce DEF OnePlace
  <2>3. \A d \in Conns : d # c => hand[d] # hand[c]
    BY <1>0, <2>1 DEF OnePlace, OneHand
  <2>4. OneHand' /\ OnePhone'
    BY <1>0, <2>1 DEF OnePlace, OneHand, OnePhone
  <2>5. \A u \in Lists : \A i \in DOMAIN msgq[u] : msgq[u][i] \in Msgs
    BY <1>0 DEF RedisTypes, Lists
  <2>6. \A d \in Conns : <<NoMsg, d>> \notin sent
    BY <1>0 DEF RedisTypes
  <2>7. Apart'
    BY <1>0, <2>1, <2>2, <2>3, <2>5, <2>6 DEF OnePlace, Apart
  <2> QED
    BY <2>2, <2>4, <2>7 DEF OnePlace
<1>4. ASSUME NEW u \in Users, NEW m \in Msgs, StoreOfflineMsg(u, m) PROVE OnePlace'
  <2>1. /\ msgq' = [msgq EXCEPT ![u] = Append(@, m)]
        /\ \A d \in Conns : hand[d] # m /\ <<m, d>> \notin sent
        /\ UNCHANGED <<hand, sent>>
    BY <1>4 DEF StoreOfflineMsg, connVars
  <2>2. \A v \in Lists : \A i \in DOMAIN msgq[v] : msgq[v][i] # m
    BY <1>0, <1>4 DEF StoreOfflineMsg, RedisTypes, Lists
  <2>3. /\ OneList'
        /\ \A v \in Lists : \A i \in DOMAIN msgq'[v] :
            msgq'[v][i] = m \/ (i \in DOMAIN msgq[v] /\ msgq'[v][i] = msgq[v][i])
    BY <1>0, <2>1, <2>2, AppendOnce, ZenonT(60) DEF OnePlace, Lists
  <2>4. OneHand' /\ OnePhone' /\ Apart'
    BY <2>1, <2>3 DEF OnePlace, OneHand, OnePhone, Apart
  <2> QED
    BY <2>3, <2>4 DEF OnePlace
<1>5. CASE UNCHANGED <<msgq, hand, sent>>
  BY <1>5 DEF OnePlace, OneList, OneHand, OnePhone, Apart
<1>6. ASSUME NEW c \in Conns,
             Authenticate(c) \/ AuthError(c) \/ ReadMobileId(c) \/ FindSession(c)
              \/ DisplaceSession(c) \/ CloseDisplaced(c) \/ Login(c) \/ LoginError(c)
      PROVE  UNCHANGED <<msgq, hand, sent>>
  BY <1>6 DEF Authenticate, AuthError, ReadMobileId, FindSession, DisplaceSession,
       CloseDisplaced, Login, LoginError, connVars
<1>7. ASSUME NEW c \in Conns,
             AddSession(c) \/ SendAckLoginOK(c) \/ LogoutCheck(c) \/ LogoutArg(c)
              \/ Logout(c) \/ RemoveSession(c) \/ ReadError(c)
      PROVE  UNCHANGED <<msgq, hand, sent>>
  BY <1>7 DEF AddSession, SendAckLoginOK, LogoutCheck, LogoutArg, Logout, RemoveSession,
       ReadError, connVars
<1>8. ASSUME NEW h \in Hosts, NEW u \in Users, OffliningUsr(h, u)
      PROVE  UNCHANGED <<msgq, hand, sent>>
  BY <1>8 DEF OffliningUsr
<1>9. ASSUME NEW h \in Hosts,
             HandleOnOff(h) \/ Crash(h) \/ InitUsr2Sentinel(h) \/ ClearRedis(h)
      PROVE  UNCHANGED <<msgq, hand, sent>>
  BY <1>9 DEF HandleOnOff, Crash, InitUsr2Sentinel, ClearRedis, connVars
<1> QED
  BY <1>1, <1>2, <1>3, <1>4, <1>5, <1>6, <1>7, <1>8, <1>9 DEF Next, Step, vars, connVars

\* A set with no two elements has at most one.
LEMMA AtMostOne ==
    ASSUME NEW S, \A x, y \in S : x = y
    PROVE  (S = {} /\ Cardinality(S) = 0) \/ (S # {} /\ Cardinality(S) = 1)
<1>1. CASE S = {}
  BY <1>1, FS_EmptySet
<1>2. ASSUME NEW x \in S PROVE S # {} /\ Cardinality(S) = 1
  <2>1. S = {x}
    OBVIOUS
  <2> QED
    BY <2>1, FS_Singleton
<1> QED
  BY <1>1, <1>2

\* In one place: the lists, hands and phones a message is in number at most one.
LEMMA OnePlaceCounts ==
    ASSUME IInv, OnePlace PROVE OfflineMsgNeverTwice
<1> SUFFICES ASSUME NEW m \in Msgs
             PROVE  LET lists == {p \in (Users \cup {Displaced}) \X (1..Cardinality(Msgs)) :
                                   p[2] <= Len(msgq[p[1]]) /\ msgq[p[1]][p[2]] = m}
                        hands == {c \in Conns : hand[c] = m}
                        phones == {c \in Conns : <<m, c>> \in sent}
                    IN  Cardinality(lists) + Cardinality(hands) + Cardinality(phones) <= 1
  BY DEF OfflineMsgNeverTwice
<1> DEFINE lists == {p \in (Users \cup {Displaced}) \X (1..Cardinality(Msgs)) :
                      p[2] <= Len(msgq[p[1]]) /\ msgq[p[1]][p[2]] = m}
           hands == {c \in Conns : hand[c] = m}
           phones == {c \in Conns : <<m, c>> \in sent}
<1>0. msgq \in [Lists -> Seq(Msgs)] /\ m # NoMsg
  BY NullsAssumption DEF IInv, TypeOK, RedisTypes, Lists
<1>1. \A p \in lists : /\ p[1] \in Lists /\ p[2] \in DOMAIN msgq[p[1]] /\ msgq[p[1]][p[2]] = m
                       /\ p = <<p[1], p[2]>>
  BY <1>0 DEF Lists
<1>2. \A p, q \in lists : p = q
  <2> SUFFICES ASSUME NEW p \in lists, NEW q \in lists PROVE p = q
    OBVIOUS
  <2>1. p[1] = q[1] /\ p[2] = q[2]
    <3> HIDE DEF lists
    <3> QED
      BY <1>1 DEF OnePlace, OneList
  <2> HIDE DEF lists
  <2> QED
    BY <1>1, <2>1
<1>3. \A c, d \in hands : c = d
  BY <1>0 DEF OnePlace, OneHand
<1>4. \A c, d \in phones : c = d
  BY DEF OnePlace, OnePhone
<1>5. /\ lists = {} \/ (hands = {} /\ phones = {})
      /\ hands = {} \/ phones = {}
  <2>1. ASSUME NEW p \in lists, NEW c \in Conns PROVE hand[c] # m /\ <<m, c>> \notin sent
    <3> HIDE DEF lists
    <3> QED
      BY <1>1 DEF OnePlace, Apart
  <2>2. \A c \in hands, d \in phones : FALSE
    BY DEF OnePlace, Apart
  <2> QED
    BY <2>1, <2>2
<1> HIDE DEF lists, hands, phones
<1>6. /\ (lists = {} /\ Cardinality(lists) = 0) \/ (lists # {} /\ Cardinality(lists) = 1)
      /\ (hands = {} /\ Cardinality(hands) = 0) \/ (hands # {} /\ Cardinality(hands) = 1)
      /\ (phones = {} /\ Cardinality(phones) = 0) \/ (phones # {} /\ Cardinality(phones) = 1)
  BY <1>2, <1>3, <1>4, AtMostOne
<1>7. Cardinality(lists) + Cardinality(hands) + Cardinality(phones) <= 1
  BY <1>5, <1>6
<1> QED
  BY <1>7 DEF lists, hands, phones

\* An offline message is never shown twice, for any number of sessions that pop,
\* fail to send and push back, and of comets that crash meanwhile.
THEOREM OfflineMsgNeverTwiceAlways == Spec => []OfflineMsgNeverTwice
<1>1. Init => IInv /\ OnePlace
  <2>1. ASSUME Init PROVE OnePlace
    BY <2>1 DEF Init, OnePlace, OneList, OneHand, OnePhone, Apart, Lists
  <2> QED
    BY <2>1, InitInv
<1>2. (IInv /\ OnePlace) /\ [Next]_vars => (IInv /\ OnePlace)'
  BY NextInv, OnePlaceStep
<1>3. IInv /\ OnePlace => OfflineMsgNeverTwice
  BY OnePlaceCounts
<1> QED
  BY <1>1, <1>2, <1>3, PTL DEF Spec

=============================================================================
