--------------------------- MODULE DevKill_proofs ---------------------------
(***************************************************************************)
(* Proofs about DevKill: type correctness, that the pool holds only live   *)
(* sessions, and the hand-over.                                            *)
(***************************************************************************)
EXTENDS DevKill, TLAPS

\* From the login on a session knows its device.
Identified ==
    \A s \in Sess : pc[s] \notin {"accept", "done"} => devId[s] \in Devs

\* preSess is set by the lookup, and by nothing else.
PreSessSet ==
    \A s \in Sess :
        /\ pc[s] \in {"accept", "lookup"} => preSess[s] = NoSess
        /\ pc[s] \in {"kill", "wait"} => preSess[s] \in Sess

\* A kill event lies in the killchan of the session its sender found.
EventsAddressed ==
    \A v \in Sess : \A i \in 1..Len(killchan[v]) : preSess[killchan[v][i]] = v

\* So a recorded killer found the session that recorded it.
KillersAddressed ==
    \A v \in Sess : killer[v] # NoSess => preSess[killer[v]] = v

\* An answer means that the session found is done.
AnswersMeanDone ==
    \A s \in Sess : syncchan[s] > 0 => preSess[s] \in Sess /\ pc[preSess[s]] = "done"

IInv ==
    /\ TypeOK
    /\ Identified /\ PreSessSet
    /\ EventsAddressed /\ KillersAddressed /\ AnswersMeanDone
    /\ PoolHoldsLiveSessions /\ HandOver

\* What the lookup does, for either of its outcomes.
LEMMA LookupEffect ==
    ASSUME IInv, NEW s \in Sess, LookupPreSess(s)
    PROVE  /\ pc[s] = "lookup" /\ devId[s] \in Devs /\ preSess[s] = NoSess
           /\ UNCHANGED <<devId, killchan, syncchan, killer, Sesses>>
           /\ preSess' = [preSess EXCEPT ![s] = Sesses[devId[s]]]
           /\ \/ Sesses[devId[s]] \in Sess /\ pc' = [pc EXCEPT ![s] = "kill"]
              \/ Sesses[devId[s]] = NoSess /\ pc' = [pc EXCEPT ![s] = "register"]
<1>1. pc[s] = "lookup" /\ devId[s] \in Devs /\ preSess[s] = NoSess
  BY DEF LookupPreSess, IInv, Identified, PreSessSet
<1>2. Sesses[devId[s]] \in Sess \cup {NoSess}
  BY <1>1 DEF IInv, TypeOK
<1> QED
  BY <1>1, <1>2 DEF LookupPreSess, Goto

\* What the listener does.
LEMMA ListenEffect ==
    ASSUME IInv, NEW s \in Sess, Listen(s)
    PROVE  /\ UNCHANGED <<pc, devId, preSess, syncchan, Sesses>>
           /\ killchan[s] \in Seq(Sess) /\ killchan[s] # <<>>
           /\ killer' = [killer EXCEPT ![s] = Head(killchan[s])]
           /\ killchan' = [killchan EXCEPT ![s] = Tail(@)]
  BY DEF Listen, IInv, TypeOK

\* Every action keeps the types.
LEMMA TypeStep ==
    ASSUME IInv, [Next]_vars PROVE TypeOK'
<1> USE NullAssumption, CapAssumption
    DEF IInv, TypeOK, Goto, PCs, Identified, PreSessSet, KillersAddressed, PoolHoldsLiveSessions
<1>1. ASSUME NEW s \in Sess, LoginAccepted(s)
      PROVE  TypeOK'
  BY <1>1 DEF LoginAccepted
<1>2. ASSUME NEW s \in Sess, EndBeforeLogin(s)
      PROVE  TypeOK'
  BY <1>2 DEF EndBeforeLogin
<1>3. ASSUME NEW s \in Sess, LookupPreSess(s)
      PROVE  TypeOK'
  BY <1>3, ZenonT(60) DEF LookupPreSess, DevlkFree
<1>4. ASSUME NEW s \in Sess, SendKillEvent(s)
      PROVE  TypeOK'
  BY <1>4 DEF SendKillEvent
<1>5. ASSUME NEW s \in Sess, AwaitSync(s)
      PROVE  TypeOK'
  BY <1>5 DEF AwaitSync
<1>6. ASSUME NEW s \in Sess, Register(s)
      PROVE  TypeOK'
  BY <1>6 DEF Register, DevlkFree
<1>7. ASSUME NEW s \in Sess, EnterPool(s)
      PROVE  TypeOK'
  BY <1>7, ZenonT(60) DEF EnterPool, DevlkFree
<1>8. ASSUME NEW s \in Sess, RemoveFromPool(s)
      PROVE  TypeOK'
  BY <1>8 DEF RemoveFromPool, DevlkFree
<1>9. ASSUME NEW s \in Sess, AnswerKiller(s)
      PROVE  TypeOK'
  <2>1. CASE killer[s] = NoSess /\ UNCHANGED syncchan
    BY <1>9, <2>1 DEF AnswerKiller
  <2>2. CASE /\ killer[s] # NoSess
             /\ syncchan[killer[s]] < ChanCap
             /\ syncchan' = [syncchan EXCEPT ![killer[s]] = @ + 1]
    <3>1. killer[s] \in Sess /\ syncchan[killer[s]] \in 0..ChanCap 
      BY <2>2
    <3>2. syncchan[killer[s]] + 1 \in 0..ChanCap
      BY <2>2, <3>1
    <3> QED
      BY <1>9, <2>2, <3>1, <3>2 DEF AnswerKiller
  <2> QED
    BY <1>9, <2>1, <2>2 DEF AnswerKiller
<1>10. ASSUME NEW s \in Sess, ReadError(s)
      PROVE  TypeOK'
  BY <1>10 DEF ReadError
<1>11. ASSUME NEW s \in Sess, Listen(s)
      PROVE  TypeOK'
  BY <1>11, SMTT(30) DEF Listen
<1>12. ASSUME NEW d \in Devs, NewDevSess(d)
      PROVE  TypeOK'
  BY <1>12 DEF NewDevSess
<1>13. CASE UNCHANGED vars
  BY <1>13 DEF vars
<1> QED
  BY <1>1, <1>2, <1>3, <1>4, <1>5, <1>6, <1>7, <1>8, <1>9, <1>10, <1>11, <1>12, <1>13 DEF Next, Step

\* ... and the simple facts about the registers.
LEMMA RegistersStep ==
    ASSUME IInv, [Next]_vars PROVE (Identified /\ PreSessSet)'
<1> USE NullAssumption, CapAssumption
    DEF IInv, TypeOK, Goto, PCs, Identified, PreSessSet
<1>1. ASSUME NEW s \in Sess, LoginAccepted(s)
      PROVE  (Identified /\ PreSessSet)'
  BY <1>1 DEF LoginAccepted
<1>2. ASSUME NEW s \in Sess, EndBeforeLogin(s)
      PROVE  (Identified /\ PreSessSet)'
  BY <1>2 DEF EndBeforeLogin
<1>3. ASSUME NEW s \in Sess, LookupPreSess(s)
      PROVE  (Identified /\ PreSessSet)'
  <2>1. /\ pc[s] = "lookup" /\ devId[s] \in Devs /\ devId' = devId
        /\ preSess' = [preSess EXCEPT ![s] = Sesses[devId[s]]]
        /\ \/ Sesses[devId[s]] \in Sess /\ pc' = [pc EXCEPT ![s] = "kill"]
           \/ Sesses[devId[s]] = NoSess /\ pc' = [pc EXCEPT ![s] = "register"]
    BY <1>3, LookupEffect
  <2>2. CASE Sesses[devId[s]] \in Sess /\ pc' = [pc EXCEPT ![s] = "kill"]
    BY <2>1, <2>2
  <2>3. CASE Sesses[devId[s]] = NoSess /\ pc' = [pc EXCEPT ![s] = "register"]
    BY <2>1, <2>3
  <2> QED
    BY <2>1, <2>2, <2>3
<1>4. ASSUME NEW s \in Sess, SendKillEvent(s)
      PROVE  (Identified /\ PreSessSet)'
  BY <1>4 DEF SendKillEvent
<1>5. ASSUME NEW s \in Sess, AwaitSync(s)
      PROVE  (Identified /\ PreSessSet)'
  BY <1>5 DEF AwaitSync
<1>6. ASSUME NEW s \in Sess, Register(s)
      PROVE  (Identified /\ PreSessSet)'
  BY <1>6 DEF Register, DevlkFree
<1>7. ASSUME NEW s \in Sess, EnterPool(s)
      PROVE  (Identified /\ PreSessSet)'
  BY <1>7 DEF EnterPool, DevlkFree
<1>8. ASSUME NEW s \in Sess, RemoveFromPool(s)
      PROVE  (Identified /\ PreSessSet)'
  BY <1>8 DEF RemoveFromPool, DevlkFree
<1>9. ASSUME NEW s \in Sess, AnswerKiller(s)
      PROVE  (Identified /\ PreSessSet)'
  BY <1>9 DEF AnswerKiller
<1>10. ASSUME NEW s \in Sess, ReadError(s)
      PROVE  (Identified /\ PreSessSet)'
  BY <1>10 DEF ReadError
<1>11. ASSUME NEW s \in Sess, Listen(s)
      PROVE  (Identified /\ PreSessSet)'
  BY <1>11 DEF Listen
<1>12. ASSUME NEW d \in Devs, NewDevSess(d)
      PROVE  (Identified /\ PreSessSet)'
  BY <1>12 DEF NewDevSess
<1>13. CASE UNCHANGED vars
  BY <1>13 DEF vars
<1> QED
  BY <1>1, <1>2, <1>3, <1>4, <1>5, <1>6, <1>7, <1>8, <1>9, <1>10, <1>11, <1>12, <1>13 DEF Next, Step

\* ... and the pool.
LEMMA PoolStep ==
    ASSUME IInv, [Next]_vars PROVE PoolHoldsLiveSessions'
<1> USE NullAssumption, CapAssumption
    DEF IInv, TypeOK, Goto, PCs, Identified, PreSessSet, PoolHoldsLiveSessions
<1>1. ASSUME NEW s \in Sess, LoginAccepted(s)
      PROVE  PoolHoldsLiveSessions'
  BY <1>1 DEF LoginAccepted
<1>2. ASSUME NEW s \in Sess, EndBeforeLogin(s)
      PROVE  PoolHoldsLiveSessions'
  BY <1>2 DEF EndBeforeLogin
<1>3. ASSUME NEW s \in Sess, LookupPreSess(s)
      PROVE  PoolHoldsLiveSessions'
  <2>1. UNCHANGED <<Sesses, devId>> /\ pc[s] = "lookup"
    BY <1>3 DEF LookupPreSess
  <2>2. pc' = [pc EXCEPT ![s] = "kill"] \/ pc' = [pc EXCEPT ![s] = "register"]
    BY <1>3 DEF LookupPreSess
  <2>3. ASSUME NEW d \in Devs, Sesses[d] # NoSess
        PROVE  /\ devId[Sesses[d]] = d /\ pc[Sesses[d]] \in {"serve", "logout"}
               /\ pc'[Sesses[d]] = pc[Sesses[d]]
    <3>1. Sesses[d] \in Sess /\ devId[Sesses[d]] = d /\ pc[Sesses[d]] \in {"serve", "logout"}
      BY <2>3
    <3> QED
      BY <2>1, <2>2, <3>1
  <2> QED
    BY <2>1, <2>3
<1>4. ASSUME NEW s \in Sess, SendKillEvent(s)
      PROVE  PoolHoldsLiveSessions'
  BY <1>4 DEF SendKillEvent
<1>5. ASSUME NEW s \in Sess, AwaitSync(s)
      PROVE  PoolHoldsLiveSessions'
  BY <1>5 DEF AwaitSync
<1>6. ASSUME NEW s \in Sess, Register(s)
      PROVE  PoolHoldsLiveSessions'
  BY <1>6 DEF Register, DevlkFree
<1>7. ASSUME NEW s \in Sess, EnterPool(s)
      PROVE  PoolHoldsLiveSessions'
  BY <1>7 DEF EnterPool, DevlkFree
<1>8. ASSUME NEW s \in Sess, RemoveFromPool(s)
      PROVE  PoolHoldsLiveSessions'
  BY <1>8 DEF RemoveFromPool, DevlkFree
<1>9. ASSUME NEW s \in Sess, AnswerKiller(s)
      PROVE  PoolHoldsLiveSessions'
  BY <1>9 DEF AnswerKiller
<1>10. ASSUME NEW s \in Sess, ReadError(s)
      PROVE  PoolHoldsLiveSessions'
  BY <1>10 DEF ReadError
<1>11. ASSUME NEW s \in Sess, Listen(s)
      PROVE  PoolHoldsLiveSessions'
  BY <1>11 DEF Listen
<1>12. ASSUME NEW d \in Devs, NewDevSess(d)
      PROVE  PoolHoldsLiveSessions'
  BY <1>12 DEF NewDevSess
<1>13. CASE UNCHANGED vars
  BY <1>13 DEF vars
<1> QED
  BY <1>1, <1>2, <1>3, <1>4, <1>5, <1>6, <1>7, <1>8, <1>9, <1>10, <1>11, <1>12, <1>13 DEF Next, Step

\* ... and who sent which event to whom.
LEMMA EventsStep ==
    ASSUME IInv, [Next]_vars PROVE (EventsAddressed /\ KillersAddressed)'
<1> USE NullAssumption, CapAssumption
    DEF IInv, TypeOK, Goto, PCs, Identified, PreSessSet, EventsAddressed, KillersAddressed
<1>1. ASSUME NEW s \in Sess, LoginAccepted(s)
      PROVE  (EventsAddressed /\ KillersAddressed)'
  BY <1>1 DEF LoginAccepted
<1>2. ASSUME NEW s \in Sess, EndBeforeLogin(s)
      PROVE  (EventsAddressed /\ KillersAddressed)'
  BY <1>2 DEF EndBeforeLogin
<1>3. ASSUME NEW s \in Sess, LookupPreSess(s)
      PROVE  (EventsAddressed /\ KillersAddressed)'
  <2>1. /\ preSess[s] = NoSess /\ UNCHANGED <<killchan, killer>>
        /\ preSess' = [preSess EXCEPT ![s] = Sesses[devId[s]]]
    BY <1>3, LookupEffect
  <2>2. \A t \in Sess : preSess[t] # NoSess => preSess'[t] = preSess[t]
    BY <2>1
  <2>3. EventsAddressed'
    BY <2>1, <2>2
  <2>4. KillersAddressed'
    BY <2>1, <2>2
  <2> QED
    BY <2>3, <2>4
<1>4. ASSUME NEW s \in Sess, SendKillEvent(s)
      PROVE  (EventsAddressed /\ KillersAddressed)'
  BY <1>4, SMTT(30) DEF SendKillEvent
<1>5. ASSUME NEW s \in Sess, AwaitSync(s)
      PROVE  (EventsAddressed /\ KillersAddressed)'
  BY <1>5 DEF AwaitSync
<1>6. ASSUME NEW s \in Sess, Register(s)
      PROVE  (EventsAddressed /\ KillersAddressed)'
  BY <1>6 DEF Register, DevlkFree
<1>7. ASSUME NEW s \in Sess, EnterPool(s)
      PROVE  (EventsAddressed /\ KillersAddressed)'
  BY <1>7 DEF EnterPool, DevlkFree
<1>8. ASSUME NEW s \in Sess, RemoveFromPool(s)
      PROVE  (EventsAddressed /\ KillersAddressed)'
  BY <1>8 DEF RemoveFromPool, DevlkFree
<1>9. ASSUME NEW s \in Sess, AnswerKiller(s)
      PROVE  (EventsAddressed /\ KillersAddressed)'
  BY <1>9 DEF AnswerKiller
<1>10. ASSUME NEW s \in Sess, ReadError(s)
      PROVE  (EventsAddressed /\ KillersAddressed)'
  BY <1>10 DEF ReadError
<1>11. ASSUME NEW s \in Sess, Listen(s)
      PROVE  (EventsAddressed /\ KillersAddressed)'
  <2>1. /\ preSess' = preSess
        /\ killchan[s] \in Seq(Sess) /\ killchan[s] # <<>>
        /\ killer' = [killer EXCEPT ![s] = Head(killchan[s])]
        /\ killchan' = [killchan EXCEPT ![s] = Tail(@)]
    BY <1>11, ListenEffect
  <2>2. preSess[Head(killchan[s])] = s
    BY <2>1
  <2>3. KillersAddressed'
    BY <2>1, <2>2
  <2>4. \A i \in 1..Len(Tail(killchan[s])) :
            i + 1 \in 1..Len(killchan[s]) /\ Tail(killchan[s])[i] = killchan[s][i + 1]
    BY <2>1
  <2>5. \A i \in 1..Len(Tail(killchan[s])) : preSess[Tail(killchan[s])[i]] = s
    BY <2>4
  <2>6. EventsAddressed'
    BY <2>1, <2>5
  <2> QED
    BY <2>3, <2>6
<1>12. ASSUME NEW d \in Devs, NewDevSess(d)
      PROVE  (EventsAddressed /\ KillersAddressed)'
  BY <1>12 DEF NewDevSess
<1>13. CASE UNCHANGED vars
  BY <1>13 DEF vars
<1> QED
  BY <1>1, <1>2, <1>3, <1>4, <1>5, <1>6, <1>7, <1>8, <1>9, <1>10, <1>11, <1>12, <1>13 DEF Next, Step

\* ... and what an answer means.
LEMMA HandOverStep ==
    ASSUME IInv, [Next]_vars PROVE (AnswersMeanDone /\ HandOver)'
<1> USE NullAssumption, CapAssumption
    DEF IInv, TypeOK, Goto, PCs, Identified, PreSessSet, KillersAddressed, AnswersMeanDone, HandOver
<1>1. ASSUME NEW s \in Sess, LoginAccepted(s)
      PROVE  (AnswersMeanDone /\ HandOver)'
  BY <1>1 DEF LoginAccepted
<1>2. ASSUME NEW s \in Sess, EndBeforeLogin(s)
      PROVE  (AnswersMeanDone /\ HandOver)'
  BY <1>2 DEF EndBeforeLogin
<1>3. ASSUME NEW s \in Sess, LookupPreSess(s)
      PROVE  (AnswersMeanDone /\ HandOver)'
  <2>1. /\ pc[s] = "lookup" /\ preSess[s] = NoSess /\ syncchan' = syncchan
        /\ preSess' = [preSess EXCEPT ![s] = Sesses[devId[s]]]
        /\ \/ Sesses[devId[s]] \in Sess /\ pc' = [pc EXCEPT ![s] = "kill"]
           \/ Sesses[devId[s]] = NoSess /\ pc' = [pc EXCEPT ![s] = "register"]
    BY <1>3, LookupEffect
  <2>2. CASE Sesses[devId[s]] \in Sess /\ pc' = [pc EXCEPT ![s] = "kill"]
    BY <2>1, <2>2
  <2>3. CASE Sesses[devId[s]] = NoSess /\ pc' = [pc EXCEPT ![s] = "register"]
    BY <2>1, <2>3
  <2> QED
    BY <2>1, <2>2, <2>3
<1>4. ASSUME NEW s \in Sess, SendKillEvent(s)
      PROVE  (AnswersMeanDone /\ HandOver)'
  BY <1>4 DEF SendKillEvent
<1>5. ASSUME NEW s \in Sess, AwaitSync(s)
      PROVE  (AnswersMeanDone /\ HandOver)'
  BY <1>5 DEF AwaitSync
<1>6. ASSUME NEW s \in Sess, Register(s)
      PROVE  (AnswersMeanDone /\ HandOver)'
  BY <1>6 DEF Register, DevlkFree
<1>7. ASSUME NEW s \in Sess, EnterPool(s)
      PROVE  (AnswersMeanDone /\ HandOver)'
  BY <1>7 DEF EnterPool, DevlkFree
<1>8. ASSUME NEW s \in Sess, RemoveFromPool(s)
      PROVE  (AnswersMeanDone /\ HandOver)'
  BY <1>8 DEF RemoveFromPool, DevlkFree
<1>9. ASSUME NEW s \in Sess, AnswerKiller(s)
      PROVE  (AnswersMeanDone /\ HandOver)'
  <2>1. CASE killer[s] = NoSess /\ UNCHANGED syncchan
    BY <1>9, <2>1 DEF AnswerKiller
  <2>2. CASE /\ killer[s] # NoSess
             /\ syncchan[killer[s]] < ChanCap
             /\ syncchan' = [syncchan EXCEPT ![killer[s]] = @ + 1]
    <3>1. killer[s] \in Sess /\ syncchan[killer[s]] \in 0..ChanCap /\ preSess[killer[s]] = s
      BY <2>2
    <3>2. syncchan[killer[s]] + 1 \in 0..ChanCap
      BY <2>2, <3>1
    <3>3. pc' = [pc EXCEPT ![s] = "done"] /\ UNCHANGED preSess /\ pc[s] = "final"
      BY <1>9 DEF AnswerKiller
    <3>4. \A t \in Sess : pc[t] = "done" => pc'[t] = "done"
      BY <3>3
    <3>5. AnswersMeanDone'
      BY <2>2, <3>1, <3>3, <3>4
    <3>6. HandOver'
      BY <3>3, <3>4
    <3> QED
      BY <1>9, <2>2, <3>1, <3>2, <3>5, <3>6 DEF AnswerKiller
  <2> QED
    BY <1>9, <2>1, <2>2 DEF AnswerKiller
<1>10. ASSUME NEW s \in Sess, ReadError(s)
      PROVE  (AnswersMeanDone /\ HandOver)'
  BY <1>10 DEF ReadError
<1>11. ASSUME NEW s \in Sess, Listen(s)
      PROVE  (AnswersMeanDone /\ HandOver)'
  BY <1>11 DEF Listen
<1>12. ASSUME NEW d \in Devs, NewDevSess(d)
      PROVE  (AnswersMeanDone /\ HandOver)'
  BY <1>12 DEF NewDevSess
<1>13. CASE UNCHANGED vars
  BY <1>13 DEF vars
<1> QED
  BY <1>1, <1>2, <1>3, <1>4, <1>5, <1>6, <1>7, <1>8, <1>9, <1>10, <1>11, <1>12, <1>13 DEF Next, Step

\* The invariant holds initially.
LEMMA InitInv == Init => IInv
  BY NullAssumption, CapAssumption
  DEF Init, IInv, TypeOK, PCs, Identified, PreSessSet, EventsAddressed,
      KillersAddressed, AnswersMeanDone, PoolHoldsLiveSessions, HandOver

\* For any sessions, devices and channel capacity.
LEMMA Invariant == Spec => []IInv
<1>1. IInv /\ [Next]_vars => IInv'
  BY TypeStep, RegistersStep, PoolStep, EventsStep, HandOverStep DEF IInv
<1> QED
  BY <1>1, InitInv, PTL DEF Spec

\* TypeOK: in particular no syncchan ever exceeds its capacity.
THEOREM TypeCorrect == Spec => []TypeOK
<1>1. IInv => TypeOK
  BY DEF IInv
<1> QED
  BY <1>1, Invariant, PTL

\* Deleting by key never leaves an ended session in the pool.
THEOREM PoolHoldsLiveSessionsAlways == Spec => []PoolHoldsLiveSessions
<1>1. IInv => PoolHoldsLiveSessions
  BY DEF IInv
<1> QED
  BY <1>1, Invariant, PTL

\* A repeated login enters the pool only after the devLogout of the session it
\* killed is over.
THEOREM HandOverAlways == Spec => []HandOver
<1>1. IInv => HandOver
  BY DEF IInv
<1> QED
  BY <1>1, Invariant, PTL
=============================================================================
