------------------------------ MODULE Bindings ------------------------------
(***************************************************************************)
(* The list of bound ids that a session keeps: the devices of a user       *)
(* (octopus/srv/ms.go) or the users of a device (devsess.go), against the  *)
(* bindings in Redis (rds.go).                                             *)
(*                                                                         *)
(* A service that is not part of the repository changes Redis and then     *)
(* publishes a notice; HandleDeviceUsers starts a goroutine for each,      *)
(* whose UpdateIds edits the list.  The list is loaded at login, and again *)
(* when a message goes to an id that is not in it (calcDestIds), without a *)
(* lock.  Members of a family share their bindings, but a notice names one *)
(* user only.                                                              *)
(***************************************************************************)
EXTENDS Naturals, Sequences, SequencesExt

CONSTANTS
    Sides,          \* whose session: subset of {"usr", "dev"}
    Ids,            \* ids that can be bound to the session
    MaxBindings,    \* bound: bindings and unbindings
    MaxSends        \* bound: messages the session sends

VARIABLES
    side,       \* "usr" or "dev"
    bound,      \* the ids bound in Redis
    outbox,     \* notices still to be published, oldest first
    pend,       \* notices whose goroutine has not begun
    upd,        \* UpdateIds calls that have read the list
    count,      \* bindings and unbindings so far
    inPool,     \* the session is in the pool
    load,       \* loading at login: "todo", "read" or "done"
    loaded,     \* what was read
    ids,        \* UsrSession.devs, DevSession.users
    call,       \* calcDestIds: "idle", "read" (Redis has answered) or "over"
    answer,     \* what Redis answered
    to,         \* the receiver that calcDestIds was called for
    refusedTo,  \* calcDestIds returned nobody
    wasBound,   \* history: the receiver was bound throughout the call
    sends,      \* calls of calcDestIds so far
    disturbed   \* history: see Disturbs
bindVars == <<side, bound, outbox, pend, upd, count, inPool, load, loaded, ids,
              call, answer, to, refusedTo, wasBound, sends, disturbed>>
redisVars == <<side, bound, outbox, count>>
callVars == <<call, answer, to, refusedTo, wasBound, sends>>

NoId == "no id"
NoAnswer == [ok |-> FALSE, set |-> {}]

ASSUME BindAssumption == IsFiniteSet(Ids)     \* a Redis set or hash

BindInit ==
    /\ side \in Sides /\ bound \in SUBSET Ids
    /\ outbox = <<>> /\ pend = {} /\ upd = {} /\ count = 0
    /\ inPool = FALSE /\ load = "todo" /\ loaded = NoAnswer /\ ids = <<>>
    /\ call = "idle" /\ answer = NoAnswer /\ to = NoId /\ refusedTo = FALSE
    /\ wasBound = FALSE /\ sends = 0 /\ disturbed = FALSE

\* A notice is on its way: Redis is ahead of the list.
Outstanding == outbox # <<>> \/ pend # {} \/ upd # {}
Reading == load = "read" \/ call = "read"

-----------------------------------------------------------------------------
(* The service that binds devices (external).                              *)

\* kin: the binding of another member of the family, whom the notice names.
Rebind(id, kin) ==
    /\ count < MaxBindings /\ count' = count + 1
    /\ LET bind == id \notin bound
       IN  /\ bound' = IF bind THEN bound \cup {id} ELSE bound \ {id}
           /\ outbox' = Append(outbox, [n |-> count, id |-> id, bind |-> bind,
                                        kin |-> kin])
    /\ wasBound' = (wasBound /\ id # to)
    /\ disturbed' = (disturbed \/ kin \/ Reading)
    /\ UNCHANGED <<side, pend, upd, inPool, load, loaded, ids, call, answer, to,
                   refusedTo, sends>>

-----------------------------------------------------------------------------
(* Notices.                                                                *)

HandleDeviceUsers ==
    /\ outbox # <<>>
    /\ pend' = pend \cup {Head(outbox)} /\ outbox' = Tail(outbox)
    /\ UNCHANGED <<side, bound, upd, count, inPool, load, loaded, ids, callVars,
                   disturbed>>

\* UpdateIds: the session of the user (device) named, or nothing.  The pool of
\* users is locked, that of devices is not.
StartUpdateIds(n) ==
    /\ n \in pend
    /\ side = "usr" => upd = {}
    /\ pend' = pend \ {n}
    /\ IF inPool /\ ~n.kin
       THEN upd' = upd \cup {[note |-> n, snap |-> ids]}
       ELSE UNCHANGED upd
    /\ disturbed' = \/ disturbed
                    \/ upd # {} \/ \E o \in pend : o.n < n.n
                    \/ ~inPool /\ load # "todo"
    /\ UNCHANGED <<redisVars, inPool, load, loaded, ids, callVars>>

\* Binding appends; unbinding puts the last in the place of the first match.
Without_CutsLast(list, id) ==
    IF id \in Range(list) THEN SubSeq(list, 1, Len(list) - 1) ELSE list
Without(list, id) ==
    IF id \notin Range(list) THEN list
    ELSE LET k == CHOOSE i \in DOMAIN list :
                    list[i] = id /\ \A j \in 1..(i - 1) : list[j] # id
         IN  SubSeq([list EXCEPT ![k] = list[Len(list)]], 1, Len(list) - 1)

UpdateIds(u) ==
    /\ u \in upd
    /\ upd' = upd \ {u}
    /\ ids' = IF u.note.bind THEN Append(u.snap, u.note.id)
              ELSE Without(u.snap, u.note.id)
    /\ disturbed' = (disturbed \/ u.snap # ids)
    /\ UNCHANGED <<redisVars, pend, inPool, load, loaded, callVars>>

-----------------------------------------------------------------------------
(* The session.                                                            *)

\* GetDevByUsr ignores the errors of Redis and answers "none"; GetUsersByDev
\* reports them, and also that the device has no user.
Answers == {[ok |-> side = "usr" \/ bound # {}, set |-> bound],
            [ok |-> side = "usr", set |-> {}]}

\* mwh loads before AddSession, onLogin after the entry into Sesses.
ReadAtLogin ==
    /\ load = "todo" /\ (side = "dev" => inPool)
    /\ loaded' \in Answers /\ load' = "read"
    /\ disturbed' = (disturbed \/ Outstanding \/ loaded'.set # bound)
    /\ UNCHANGED <<redisVars, pend, upd, inPool, ids, callVars>>

\* onLogin keeps the list when nothing was read.
LoadAtLogin ==
    /\ load = "read" /\ load' = "done"
    /\ ids' = IF side = "dev" /\ loaded.set = {} THEN ids ELSE SetToSeq(loaded.set)
    /\ disturbed' = (disturbed \/ upd # {})
    /\ UNCHANGED <<redisVars, pend, upd, inPool, loaded, callVars>>

EnterPoolOf ==
    /\ ~inPool /\ (side = "usr" => load = "done")
    /\ inPool' = TRUE
    /\ UNCHANGED <<redisVars, pend, upd, load, loaded, ids, callVars, disturbed>>

\* calcDestIds, CalcDestIds: an id in the list is taken as bound; for another
\* one the bindings are read again.
Reloads_Never(id) == FALSE
Reloads(id) == id \notin Range(ids)

CalcDestIds(id) ==
    /\ load = "done" /\ inPool /\ call = "idle" /\ sends < MaxSends
    /\ sends' = sends + 1 /\ to' = id /\ wasBound' = (id \in bound)
    /\ IF Reloads(id)
       THEN /\ answer' \in Answers /\ call' = "read" /\ UNCHANGED refusedTo
            /\ disturbed' = (disturbed \/ Outstanding \/ answer'.set # bound)
       ELSE /\ refusedTo' = (id \notin Range(ids)) /\ call' = "over"
            /\ UNCHANGED <<answer, disturbed>>
    /\ UNCHANGED <<redisVars, pend, upd, inPool, load, loaded, ids>>

Reload ==
    /\ call = "read" /\ call' = "over"
    /\ ids' = IF answer.ok THEN SetToSeq(answer.set) ELSE ids
    /\ refusedTo' = (~answer.ok \/ to \notin answer.set)
    /\ disturbed' = (disturbed \/ upd # {})
    /\ wasBound' = (wasBound /\ answer.set # {})   \* Redis did not fail
    /\ UNCHANGED <<redisVars, pend, upd, inPool, load, loaded, answer, to, sends>>

ReturnDest ==
    /\ call = "over"
    /\ call' = "idle" /\ to' = NoId /\ refusedTo' = FALSE /\ wasBound' = FALSE
    /\ answer' = NoAnswer
    /\ UNCHANGED <<redisVars, pend, upd, inPool, load, loaded, ids, sends, disturbed>>

BindNext ==
    \/ \E id \in Ids, kin \in BOOLEAN : Rebind(id, kin)
    \/ HandleDeviceUsers
    \/ \E n \in pend : StartUpdateIds(n)
    \/ \E u \in upd : UpdateIds(u)
    \/ ReadAtLogin \/ LoadAtLogin \/ EnterPoolOf
    \/ \E id \in Ids : CalcDestIds(id)
    \/ Reload \/ ReturnDest

BindSpec == BindInit /\ [][BindNext]_bindVars

-----------------------------------------------------------------------------
(* Properties.                                                             *)

(***************************************************************************)
(* A list that UpdateIds has kept up to date holds the bound ids, each     *)
(* once, when no notice is outstanding, unless it was disturbed: a notice  *)
(* overtook an earlier one or met a concurrent change of the list, came    *)
(* between the load and the entry into the pool, or named a relative; or   *)
(* the list was read from Redis while a notice was outstanding (the id is  *)
(* then appended a second time and unbinding removes one copy only) or     *)
(* Redis failed.                                                           *)
(***************************************************************************)
BindingsAgree ==
    load = "done" /\ inPool /\ ~Outstanding /\ ~Reading /\ ~disturbed =>
        /\ Range(ids) = bound
        /\ \A i, j \in DOMAIN ids : ids[i] = ids[j] => i = j

(***************************************************************************)
(* A message to an id that is bound throughout is not refused, whatever    *)
(* happened to the list: calcDestIds reads the bindings again before it    *)
(* gives up (unless Redis then fails).                                     *)
(***************************************************************************)
BoundIsReached == call = "over" /\ wasBound => ~refusedTo
=============================================================================
