---------------------------- MODULE UsrSessions ----------------------------
(***************************************************************************)
(* The websocket comet's user sessions: mwh and logout (mws.go), the       *)
(* session pool (ms.go), and what they do to Redis (rds.go): the Lua       *)
(* scripts behind Login and Logout, ForceUserOffline, the offline message  *)
(* lists and the OnOff channel from which every comet keeps usr2sentinel,  *)
(* its table of where each user is.                                        *)
(*                                                                         *)
(* Each websocket connection runs mwh in a goroutine of its own.  Only     *)
(* AddSession and RemoveSession hold onlinedMu; the pool's other readers   *)
(* and every write of s.uid outside AddSession are unlocked, so the model  *)
(* gives each such access a step of its own.  A connection that ends is    *)
(* never reused: a client that comes back is another member of Conns.      *)
(*                                                                         *)
(* Left out: counters and logging, the binding lists (s.devs), and what    *)
(* the read loop does with a frame; none of it touches this state.         *)
(***************************************************************************)
EXTENDS Integers, Sequences, FiniteSets

CONSTANTS
    Conns,      \* websocket connections
    Hosts,      \* comets, named by their sentinel address
    Users,      \* user ids; devices have negative ids
    Mobiles,    \* the phones' mobileID
    Msgs,       \* messages stored for users who are away
    MaxCrash,   \* bound on the number of comet crashes
    NoConn, NoHost, NoMobile, NoMsg

ASSUME UsersAssumption == Users \subseteq Nat \ {0}
ASSUME NullsAssumption ==
    /\ NoConn \notin Conns /\ NoHost \notin Hosts
    /\ NoMobile \notin Mobiles /\ NoMsg \notin Msgs
ASSUME MaxCrashAssumption == MaxCrash \in Nat

VARIABLES
    pc,         \* where each connection's goroutine is
    login,      \* what it authenticated as: comet, user, mobileID
    uid,        \* s.uid: 0, the user, or -1 once another login displaced it
    open,       \* the server's end of the websocket is not closed
    seen,       \* ForceUserOffline: the m:id it read
    st,         \* ForceUserOffline: the session it found in the pool
    arg,        \* logout: the uid it passed to Logout
    hand,       \* the offline message popped and not yet sent
    Sesses,     \* each comet's pool
    cnt,        \* Redis Host:<comet>, the login count of each user
    mId,        \* Redis m:id
    mSrv,       \* Redis m:srv
    msgq,       \* Redis msg:<uid>
    sent,       \* messages handed to a connection, with that connection
    up,         \* a comet's life: up, down, or booting
    onoff,      \* OnOff messages published and not yet handled, per comet
    usr2sentinel,
    crashes

connVars == <<login, uid, open, seen, st, arg, hand>>
redisVars == <<cnt, mId, mSrv>>
busVars == <<up, onoff, usr2sentinel, crashes>>
vars == <<pc, connVars, Sesses, redisVars, msgq, sent, busVars>>

Displaced == -1

\* Before AddSession, and from AddSession until RemoveSession (or the end).
Early == {"idle", "hget", "find", "kick", "close", "login", "add"}
Added == {"ack", "drain", "send", "repush", "read", "logout", "arg", "lua", "remove"}
PCs == Early \cup Added \cup {"done"}

InPool(c) == pc[c] \in Added
HostOf(c) == login[c].host
UserOf(c) == login[c].user

OnOffMsg == [user : Users, host : Hosts, on : BOOLEAN]
Bindings == [Users -> Hosts \cup {NoHost}]

ConnTypes ==
    /\ pc \in [Conns -> PCs]
    /\ login \in [Conns -> [host : Hosts \cup {NoHost},
                            user : Users \cup {0},
                            mobile : Mobiles \cup {NoMobile}]]
    /\ uid \in [Conns -> Users \cup {0, Displaced}]
    /\ open \in [Conns -> BOOLEAN]
    /\ seen \in [Conns -> Mobiles \cup {NoMobile}]
    /\ st \in [Conns -> Conns \cup {NoConn}]
    /\ arg \in [Conns -> Users \cup {0, Displaced}]
    /\ hand \in [Conns -> Msgs \cup {NoMsg}]
    /\ Sesses \in [Hosts -> [Users -> Conns \cup {NoConn}]]

RedisTypes ==
    /\ cnt \in [Hosts -> [Users -> Nat]]
    /\ mId \in [Users -> Mobiles \cup {NoMobile}]
    /\ mSrv \in Bindings
    /\ msgq \in [Users \cup {Displaced} -> Seq(Msgs)]
    /\ sent \subseteq Msgs \X Conns

BusTypes ==
    /\ up \in [Hosts -> {"up", "down", "booting"}]
    /\ onoff \in [Hosts -> Seq(OnOffMsg)]
    /\ usr2sentinel \in [Hosts -> Bindings]
    /\ crashes \in Nat

\* Every variable keeps its type: in particular no uid other than a user's, 0
\* or -1 ever reaches the scripts, the lists or the OnOff channel.
TypeOK == ConnTypes /\ RedisTypes /\ BusTypes

Init ==
    /\ pc = [c \in Conns |-> "idle"]
    /\ login = [c \in Conns |-> [host |-> NoHost, user |-> 0, mobile |-> NoMobile]]
    /\ uid = [c \in Conns |-> 0]
    /\ open = [c \in Conns |-> FALSE]
    /\ seen = [c \in Conns |-> NoMobile]
    /\ st = [c \in Conns |-> NoConn]
    /\ arg = [c \in Conns |-> 0]
    /\ hand = [c \in Conns |-> NoMsg]
    /\ Sesses = [h \in Hosts |-> [u \in Users |-> NoConn]]
    /\ cnt = [h \in Hosts |-> [u \in Users |-> 0]]
    /\ mId = [u \in Users |-> NoMobile]
    /\ mSrv = [u \in Users |-> NoHost]
    /\ msgq = [u \in Users \cup {Displaced} |-> <<>>]
    /\ sent = {}
    /\ up = [h \in Hosts |-> "up"]
    /\ onoff = [h \in Hosts |-> <<>>]
    /\ usr2sentinel = [h \in Hosts |-> [u \in Users |-> NoHost]]
    /\ crashes = 0

Goto(c, from, to) == pc[c] = from /\ pc' = [pc EXCEPT ![c] = to]

\* Redis delivers a publication to the comets subscribed at that moment.
Publish(u, h, on) ==
    onoff' = [g \in Hosts |->
                IF up[g] = "up" THEN Append(onoff[g], [user |-> u, host |-> h, on |-> on])
                                ELSE onoff[g]]

-----------------------------------------------------------------------------
(* mwh, up to the login                                                    *)

\* The first frame arrives and authenticates a user (new or old protocol).
Authenticate(c) ==
    /\ Goto(c, "idle", "hget")
    /\ \E h \in Hosts, u \in Users, m \in Mobiles :
        /\ up[h] = "up"
        /\ login' = [login EXCEPT ![c] = [host |-> h, user |-> u, mobile |-> m]]
        /\ uid' = [uid EXCEPT ![c] = u]
    /\ open' = [open EXCEPT ![c] = TRUE]
    /\ UNCHANGED <<seen, st, arg, hand, Sesses, redisVars, msgq, sent, busVars>>

\* It does not authenticate (bad frame, wrong token, no answer from the
\* authentication service): mwh closes the websocket and returns.
AuthError(c) ==
    /\ Goto(c, "idle", "done")
    /\ UNCHANGED <<connVars, Sesses, redisVars, msgq, sent, busVars>>

\* ForceUserOffline: hget m:id.
ReadMobileId(c) ==
    /\ Goto(c, "hget", "find")
    /\ seen' = [seen EXCEPT ![c] = mId[uid[c]]]
    /\ UNCHANGED <<login, uid, open, st, arg, hand, Sesses, redisVars, msgq, sent, busVars>>

\* ForceUserOffline: the unlocked lookup in this comet's pool.  When there is
\* no session here it may forward a one-byte notice to another comet, where
\* PushMsg only writes it to the user's websocket.
FindSession(c) ==
    LET s == Sesses[HostOf(c)][uid[c]] IN
    /\ pc[c] = "find"
    /\ \/ s = NoConn /\ Goto(c, "find", "login")
       \/ s # NoConn /\ seen[c] # NoMobile /\ Goto(c, "find", "kick")
       \/ s # NoConn /\ seen[c] = NoMobile /\ Goto(c, "find", "close")
    /\ st' = [st EXCEPT ![c] = s]
    /\ UNCHANGED <<login, uid, open, seen, arg, hand, Sesses, redisVars, msgq, sent, busVars>>

\* Variant of DisplaceSession: the uid is negated, as a device's would be.
DisplaceSession_Negate(c) ==
    /\ Goto(c, "kick", "close")
    /\ uid' = [uid EXCEPT ![st[c]] = -uid[st[c]]]
    /\ UNCHANGED <<login, open, seen, st, arg, hand, Sesses, redisVars, msgq, sent, busVars>>

\* ForceUserOffline: st.uid = -1 ...
DisplaceSession(c) ==
    /\ Goto(c, "kick", "close")
    /\ uid' = [uid EXCEPT ![st[c]] = Displaced]
    /\ UNCHANGED <<login, open, seen, st, arg, hand, Sesses, redisVars, msgq, sent, busVars>>

\* ... then st.ws.Close().
CloseDisplaced(c) ==
    /\ Goto(c, "close", "login")
    /\ open' = [open EXCEPT ![st[c]] = FALSE]
    /\ UNCHANGED <<login, uid, seen, st, arg, hand, Sesses, redisVars, msgq, sent, busVars>>

\* What _scriptOnline does, atomically in Redis: count the login, publish it
\* only when it is the first one on this comet, record comet and phone.
ScriptOnline(h, u, m) ==
    /\ cnt' = [cnt EXCEPT ![h][u] = @ + 1]
    /\ IF cnt[h][u] = 0 THEN Publish(u, h, TRUE) ELSE UNCHANGED onoff
    /\ mSrv' = [mSrv EXCEPT ![u] = h]
    /\ mId' = [mId EXCEPT ![u] = m]

Login(c) ==
    /\ Goto(c, "login", "add")
    /\ ScriptOnline(HostOf(c), uid[c], login[c].mobile)
    /\ UNCHANGED <<connVars, Sesses, msgq, sent, up, usr2sentinel, crashes>>

\* Login reports an error: mwh closes the websocket and returns, whether the
\* script ran and its reply was lost, or it never ran.
LoginError(c) ==
    /\ Goto(c, "login", "done")
    /\ \/ ScriptOnline(HostOf(c), uid[c], login[c].mobile)
       \/ UNCHANGED <<redisVars, onoff>>
    /\ open' = [open EXCEPT ![c] = FALSE]
    /\ UNCHANGED <<login, uid, seen, st, arg, hand, Sesses, msgq, sent,
                   up, usr2sentinel, crashes>>

\* Variants of AddSession: the earlier session keeps its uid, or its websocket.
AddSession_KeepUid(c) ==
    LET h == HostOf(c)
        another == Sesses[h][uid[c]]
    IN  /\ Goto(c, "add", "ack")
        /\ open' = [d \in Conns |-> IF d = another THEN FALSE ELSE open[d]]
        /\ Sesses' = [Sesses EXCEPT ![h][uid[c]] = c]
        /\ UNCHANGED <<login, uid, seen, st, arg, hand, redisVars, msgq, sent, busVars>>

AddSession_KeepOpen(c) ==
    LET h == HostOf(c)
        another == Sesses[h][uid[c]]
    IN  /\ Goto(c, "add", "ack")
        /\ uid' = [d \in Conns |-> IF d = another THEN Displaced ELSE uid[d]]
        /\ Sesses' = [Sesses EXCEPT ![h][uid[c]] = c]
        /\ UNCHANGED <<login, open, seen, st, arg, hand, redisVars, msgq, sent, busVars>>

\* AddSession, under onlinedMu: an earlier session of the user is closed and
\* marked -1, so that its RemoveSession does not delete this one.
AddSession(c) ==
    LET h == HostOf(c)
        another == Sesses[h][uid[c]]
    IN  /\ Goto(c, "add", "ack")
        /\ open' = [d \in Conns |-> IF d = another THEN FALSE ELSE open[d]]
        /\ uid' = [d \in Conns |-> IF d = another THEN Displaced ELSE uid[d]]
        /\ Sesses' = [Sesses EXCEPT ![h][uid[c]] = c]
        /\ UNCHANGED <<login, seen, st, arg, hand, redisVars, msgq, sent, busVars>>

-----------------------------------------------------------------------------
(* mwh, after AddSession.  A send on a closed websocket fails; one on an   *)
(* open websocket may fail too, when the peer is gone.                     *)

SendAckLoginOK(c) ==
    /\ \/ open[c] /\ Goto(c, "ack", "drain")
       \/ Goto(c, "ack", "logout")
    /\ UNCHANGED <<connVars, Sesses, redisVars, msgq, sent, busVars>>

\* Variant of PopOfflineMsg: the message is read and left in the list.
PopOfflineMsg_Peek(c) ==
    LET q == msgq[uid[c]] IN
    /\ \/ /\ Goto(c, "drain", "send")
          /\ q # <<>>
          /\ hand' = [hand EXCEPT ![c] = Head(q)]
       \/ /\ Goto(c, "drain", "read")
          /\ q = <<>>
          /\ UNCHANGED hand
    /\ UNCHANGED <<login, uid, open, seen, st, arg, Sesses, redisVars, msgq, sent, busVars>>

\* popOfflineMsg(s.uid): lpop; nil ends the loop.
PopOfflineMsg(c) ==
    LET q == msgq[uid[c]] IN
    /\ \/ /\ Goto(c, "drain", "send")
          /\ q # <<>>
          /\ hand' = [hand EXCEPT ![c] = Head(q)]
          /\ msgq' = [msgq EXCEPT ![uid[c]] = Tail(q)]
       \/ /\ Goto(c, "drain", "read")
          /\ q = <<>>
          /\ UNCHANGED <<hand, msgq>>
    /\ UNCHANGED <<login, uid, open, seen, st, arg, Sesses, redisVars, sent, busVars>>

SendOfflineMsg(c) ==
    /\ \/ /\ open[c]
          /\ Goto(c, "send", "drain")
          /\ sent' = sent \cup {<<hand[c], c>>}
          /\ hand' = [hand EXCEPT ![c] = NoMsg]
       \/ /\ Goto(c, "send", "repush")
          /\ UNCHANGED <<sent, hand>>
    /\ UNCHANGED <<login, uid, open, seen, st, arg, Sesses, redisVars, msgq, busVars>>

\* The send failed: pushOfflineMsg(s.uid, msg), rpush under the uid as it is now.
PushOfflineMsg(c) ==
    /\ Goto(c, "repush", "logout")
    /\ msgq' = [msgq EXCEPT ![uid[c]] = Append(@, hand[c])]
    /\ hand' = [hand EXCEPT ![c] = NoMsg]
    /\ UNCHANGED <<login, uid, open, seen, st, arg, Sesses, redisVars, sent, busVars>>

\* The read loop ends: closed websocket, peer gone, read timeout, bad frame.
ReadError(c) ==
    /\ Goto(c, "read", "logout")
    /\ UNCHANGED <<connVars, Sesses, redisVars, msgq, sent, busVars>>

-----------------------------------------------------------------------------
(* logout, deferred from AddSession on                                     *)

\* if s.uid > 0.  Otherwise mwh returns, which closes the connection.
LogoutCheck(c) ==
    /\ Goto(c, "logout", IF uid[c] > 0 THEN "arg" ELSE "done")
    /\ open' = [open EXCEPT ![c] = IF uid[c] > 0 THEN @ ELSE FALSE]
    /\ UNCHANGED <<login, uid, seen, st, arg, hand, Sesses, redisVars, msgq, sent, busVars>>

\* Logout(s.uid, ...) reads s.uid again for its argument ...
LogoutArg(c) ==
    /\ Goto(c, "arg", "lua")
    /\ arg' = [arg EXCEPT ![c] = uid[c]]
    /\ UNCHANGED <<login, uid, open, seen, st, hand, Sesses, redisVars, msgq, sent, busVars>>

\* Variant of ScriptOffline: the logout is not published.
ScriptOffline_Silent(h, u) ==
    IF u = Displaced THEN UNCHANGED <<redisVars, onoff>>
    ELSE /\ cnt' = [cnt EXCEPT ![h][u] = 0]
         /\ mSrv' = [mSrv EXCEPT ![u] = NoHost]
         /\ mId' = [mId EXCEPT ![u] = NoMobile]
         /\ UNCHANGED onoff

\* What _scriptOffline does for a user; for uid -1 there is nothing to delete
\* and the publication concerns no user.
ScriptOffline(h, u) ==
    IF u = Displaced THEN UNCHANGED <<redisVars, onoff>>
    ELSE /\ cnt' = [cnt EXCEPT ![h][u] = 0]
         /\ Publish(u, h, FALSE)
         /\ mSrv' = [mSrv EXCEPT ![u] = NoHost]
         /\ mId' = [mId EXCEPT ![u] = NoMobile]

\* ... and runs the script; an error is only logged.
Logout(c) ==
    /\ Goto(c, "lua", "remove")
    /\ \/ ScriptOffline(HostOf(c), arg[c])
       \/ UNCHANGED <<redisVars, onoff>>
    /\ UNCHANGED <<connVars, Sesses, msgq, sent, up, usr2sentinel, crashes>>

\* RemoveSession, under onlinedMu: delete(Sesses, s.uid), s.uid read once more.
RemoveSession(c) ==
    /\ Goto(c, "remove", "done")
    /\ open' = [open EXCEPT ![c] = FALSE]
    /\ Sesses' = IF uid[c] \in Users
                 THEN [Sesses EXCEPT ![HostOf(c)][uid[c]] = NoConn]
                 ELSE Sesses
    /\ UNCHANGED <<login, uid, seen, st, arg, hand, redisVars, msgq, sent, busVars>>

-----------------------------------------------------------------------------
(* The rest of the comet, and its environment                              *)

\* OffliningUsr, when the user's password was changed: the unlocked lookup,
\* then the Close of what it found.  Until it leaves the pool a session is
\* the only one the lookup can find, so the two are one step.
OffliningUsr(h, u) ==
    /\ up[h] = "up" /\ Sesses[h][u] # NoConn
    /\ open' = [open EXCEPT ![Sesses[h][u]] = FALSE]
    /\ UNCHANGED <<pc, login, uid, seen, st, arg, hand, Sesses, redisVars, msgq, sent, busVars>>

\* Another service stores a message for a user (rpush msg:<uid>), each once.
StoreOfflineMsg(u, m) ==
    /\ \A v \in Users \cup {Displaced} : \A i \in 1..Len(msgq[v]) : msgq[v][i] # m
    /\ \A c \in Conns : hand[c] # m /\ <<m, c>> \notin sent
    /\ msgq' = [msgq EXCEPT ![u] = Append(@, m)]
    /\ UNCHANGED <<pc, connVars, Sesses, redisVars, sent, busVars>>

\* handleOnOff, in publication order; an "off" deletes whatever the host was.
HandleOnOff(h) ==
    /\ up[h] = "up" /\ onoff[h] # <<>>
    /\ LET m == Head(onoff[h]) IN
        usr2sentinel' = [usr2sentinel EXCEPT ![h][m.user] = IF m.on THEN m.host ELSE NoHost]
    /\ onoff' = [onoff EXCEPT ![h] = Tail(@)]
    /\ UNCHANGED <<pc, connVars, Sesses, redisVars, msgq, sent, up, crashes>>

\* The comet's process dies: its connections, pool and table are gone, what
\* Redis holds about it stays.  A message in a goroutine's hands is lost.
Crash(h) ==
    /\ up[h] = "up" /\ crashes < MaxCrash
    /\ crashes' = crashes + 1
    /\ up' = [up EXCEPT ![h] = "down"]
    /\ pc' = [c \in Conns |-> IF HostOf(c) = h THEN "done" ELSE pc[c]]
    /\ open' = [c \in Conns |-> IF HostOf(c) = h THEN FALSE ELSE open[c]]
    /\ Sesses' = [Sesses EXCEPT ![h] = [u \in Users |-> NoConn]]
    /\ onoff' = [onoff EXCEPT ![h] = <<>>]
    /\ usr2sentinel' = [usr2sentinel EXCEPT ![h] = [u \in Users |-> NoHost]]
    /\ UNCHANGED <<login, uid, seen, st, arg, hand, redisVars, msgq, sent>>

\* InitUsr2Sentinel: the table is loaded from every Host:* key, in any order.
InitUsr2Sentinel(h) ==
    /\ up[h] = "down"
    /\ up' = [up EXCEPT ![h] = "booting"]
    /\ \E t \in Bindings :
        /\ \A u \in Users :
            IF \E g \in Hosts : cnt[g][u] > 0
            THEN t[u] # NoHost /\ cnt[t[u]][u] > 0
            ELSE t[u] = NoHost
        /\ usr2sentinel' = [usr2sentinel EXCEPT ![h] = t]
    /\ UNCHANGED <<pc, connVars, Sesses, redisVars, msgq, sent, onoff, crashes>>

\* Sub and ClearRedis: del Host:<comet>, publish "0|<comet>|0", which makes
\* handleOnOff delete user 0 and so concerns no user.
ClearRedis(h) ==
    /\ up[h] = "booting"
    /\ up' = [up EXCEPT ![h] = "up"]
    /\ cnt' = [cnt EXCEPT ![h] = [u \in Users |-> 0]]
    /\ UNCHANGED <<pc, connVars, Sesses, mId, mSrv, msgq, sent, onoff, usr2sentinel, crashes>>

-----------------------------------------------------------------------------

\* One step of a connection's goroutine once it has begun.
Step(c) ==
    \/ ReadMobileId(c) \/ FindSession(c) \/ DisplaceSession(c) \/ CloseDisplaced(c)
    \/ Login(c) \/ LoginError(c) \/ AddSession(c)
    \/ SendAckLoginOK(c) \/ PopOfflineMsg(c) \/ SendOfflineMsg(c) \/ PushOfflineMsg(c)
    \/ LogoutCheck(c) \/ LogoutArg(c) \/ Logout(c) \/ RemoveSession(c)

Next ==
    \/ \E c \in Conns : Authenticate(c) \/ AuthError(c) \/ Step(c) \/ ReadError(c)
    \/ \E h \in Hosts, u \in Users : OffliningUsr(h, u)
    \/ \E u \in Users, m \in Msgs : StoreOfflineMsg(u, m)
    \/ \E h \in Hosts : HandleOnOff(h) \/ Crash(h) \/ InitUsr2Sentinel(h) \/ ClearRedis(h)

\* The Go scheduler runs every goroutine that can run; a read on a closed
\* websocket returns at once.  Nothing obliges a client to come, a peer to go,
\* an administrator to act or a comet to crash.
Fairness ==
    /\ \A c \in Conns : WF_vars(Step(c)) /\ WF_vars(~open[c] /\ ReadError(c))
    /\ \A h \in Hosts : WF_vars(HandleOnOff(h)) /\ WF_vars(InitUsr2Sentinel(h) \/ ClearRedis(h))

Spec == Init /\ [][Next]_vars /\ Fairness

-----------------------------------------------------------------------------
(* Properties                                                              *)

\* AddSession marks the session it replaces "so that RemoveSession does not
\* delete the one that logged in later" (ms.go:98).  Through every unlocked
\* write of s.uid and every second read of it in logout: a session that still
\* carries its user is the one its comet's pool holds for that user, so what
\* its RemoveSession deletes is always its own entry.
PoolKeepsLatest ==
    \A c \in Conns :
        InPool(c) /\ uid[c] \in Users => Sesses[HostOf(c)][uid[c]] = c

\* A session whose websocket is open can be reached: it is what PushMsg,
\* OffliningUsr and ForceUserOffline find for its user.  Hence a comet never
\* has two open sessions of one user, whatever logins and logouts overlap.
OpenSessionIsReachable ==
    \A c \in Conns :
        InPool(c) /\ open[c] => Sesses[HostOf(c)][UserOf(c)] = c

\* A session that is not, or no longer, the one the pool holds for its user
\* does not linger, though nothing can reach it to end it: its Close makes its
\* own read loop fail, and its goroutine ends.
DisplacedSessionEnds ==
    \A c \in Conns :
        (InPool(c) /\ Sesses[HostOf(c)][UserOf(c)] # c) ~> pc[c] = "done"

\* What a comet's table says of a user once it has handled what was published.
FinalRoute(h, u) ==
    LET mine == {i \in DOMAIN onoff[h] : onoff[h][i].user = u}
        last == onoff[h][CHOOSE i \in mine : \A j \in mine : j <= i]
    IN  IF mine = {} THEN usr2sentinel[h][u]
        ELSE IF last.on THEN last.host ELSE NoHost

\* As long as no comet restarts, the table never sends a user's messages to a
\* comet that Redis does not list the user on, although the scripts publish a
\* login only when the count goes to 1, delete the count whatever it was, and
\* handleOnOff ignores the host of an "off".
NoDanglingRoute ==
    crashes = 0 =>
        \A h \in Hosts, u \in Users :
            FinalRoute(h, u) # NoHost => cnt[FinalRoute(h, u)][u] > 0

\* An offline message is never in two places (a list, a goroutine's hands, a
\* phone), so it is never shown twice, however pops, failed sends and pushes
\* back by several sessions of the user overlap.
OfflineMsgNeverTwice ==
    \A m \in Msgs :
        LET lists == {p \in (Users \cup {Displaced}) \X (1..Cardinality(Msgs)) :
                        p[2] <= Len(msgq[p[1]]) /\ msgq[p[1]][p[2]] = m}
            hands == {c \in Conns : hand[c] = m}
            phones == {c \in Conns : <<m, c>> \in sent}
        IN  Cardinality(lists) + Cardinality(hands) + Cardinality(phones) <= 1

\* "When the send fails the message is put back into the offline list"
\* (mws.go:282): the list of the user it was for, and no other.
OfflineMsgReturns == msgq[Displaced] = <<>>

\* Login and Logout "run the Lua, update the table of users and comets"
\* (rds.go:265): a user with a session in its read loop, not displaced and
\* with an open websocket, is in that table.
OnlineUserIsMapped ==
    \A c \in Conns :
        pc[c] = "read" /\ open[c] /\ uid[c] \in Users
            => cnt[HostOf(c)][uid[c]] > 0
=============================================================================
