------------------------------- MODULE WsConn -------------------------------
(***************************************************************************)
(* One websocket connection of a phone (cloud-base/websocket as the comets *)
(* use it): the handshake, the goroutine that reads (mwh's loop), those    *)
(* that push messages, and one that closes the connection.                 *)
(*                                                                         *)
(* The reader answers pings from inside Receive, so every goroutine        *)
(* writes; wio is the lock that keeps their frames apart.  A frame is      *)
(* written as header and payload.  Length fields, masking keys and the     *)
(* text of the handshake are left out; the comets' server does not insist  *)
(* on masked frames (MustMask is false).                                   *)
(***************************************************************************)
EXTENDS Naturals, Sequences, SequencesExt

CONSTANTS
    Pushers,        \* goroutines that push one message each
    MaxFrames       \* bound: frames the phone sends

VARIABLES
    conn,       \* "new", "open", "rejected" or "closed" (rwc.Close)
    broken,     \* the connection no longer carries what is written
    inbox,      \* frames the phone has sent and the reader has not read
    sentIn,     \* history: all frames the phone has sent
    eof,        \* the phone has ended the connection: "no", "clean" or "cut"
                \* (in the middle of the last frame)
    reader,     \* where the reading goroutine is
    lastType,   \* handler.payloadType
    received,   \* messages that Receive has returned
    wio,        \* holder of the write lock, or Free
    job,        \* for each goroutine, the frame it is writing and how far
    out         \* what has been written: headers and payloads
wsVars == <<conn, broken, inbox, sentIn, eof, reader, lastType, received,
            wio, job, out>>

Reader == "reader"
Closer == "closer"
Writers == Pushers \cup {Reader, Closer}
Free == "free"
DataTypes == {"text", "binary", "continuation"}
FrameTypes == DataTypes \cup {"close", "ping", "pong"}

\* The names of the other goroutines and of the free lock are not pushers'.
ASSUME WsConnAssumption == Pushers \cap {Reader, Closer, Free} = {}

NoJob == [at |-> "none", type |-> "", val |-> 0]
Writing(type, val) == [at |-> "lock", type |-> type, val |-> val]

WsInit ==
    /\ conn = "new" /\ broken = FALSE
    /\ inbox = <<>> /\ sentIn = <<>> /\ eof = "no"
    /\ reader = "handshake" /\ lastType = "" /\ received = <<>>
    /\ wio = Free /\ job = [w \in Writers |-> NoJob] /\ out = <<>>

-----------------------------------------------------------------------------
(* The phone and the network (external).                                   *)

PhoneSends(type) ==
    /\ conn # "rejected" /\ eof = "no" /\ Len(sentIn) < MaxFrames
    /\ LET f == [type |-> type, val |-> Len(sentIn) + 1]
       IN  inbox' = Append(inbox, f) /\ sentIn' = Append(sentIn, f)
    /\ UNCHANGED <<conn, broken, eof, reader, lastType, received, wio, job, out>>

PhoneEnds(how) ==
    /\ eof = "no" /\ conn = "open"
    /\ how = "cut" => inbox # <<>>
    /\ eof' = how
    /\ UNCHANGED <<conn, broken, inbox, sentIn, reader, lastType, received,
                   wio, job, out>>

Breaks ==
    /\ conn = "open" /\ ~broken
    /\ broken' = TRUE
    /\ UNCHANGED <<conn, inbox, sentIn, eof, reader, lastType, received, wio,
                   job, out>>

-----------------------------------------------------------------------------
(* serveWebSocket, newServerConn, ReadHandshake, AcceptHandshake.          *)

\* What ReadHandshake looks at; the comet's Handshake keeps one protocol.
Request == [get : BOOLEAN, upgrade : BOOLEAN, key : BOOLEAN, v13 : BOOLEAN,
            uri : BOOLEAN, protocols : 0..2]

Acceptable(req) == req.get /\ req.upgrade /\ req.key /\ req.v13 /\ req.uri
Chosen(req) == IF req.protocols > 0 THEN 1 ELSE 0   \* config.Protocol[:1]

serveWebSocket(req) ==
    /\ reader = "handshake" /\ conn = "new"
    /\ IF Acceptable(req) /\ Chosen(req) <= 1
       THEN conn' = "open" /\ reader' = "read"
       ELSE conn' = "rejected" /\ reader' = "done"
    /\ UNCHANGED <<broken, inbox, sentIn, eof, lastType, received, wio, job, out>>

-----------------------------------------------------------------------------
(* Receive.                                                                *)

\* Only the last frame of a connection that ended inside it is incomplete.
Cut(f) == eof = "cut" /\ f.val = Len(sentIn)

\* HandleFrame: whether Receive returns the frame's payload.
GivenToHandler_Ping(f) == f.type \in DataTypes \cup {"ping"}
GivenToHandler(f) == f.type \in DataTypes

TypeOf(f) == IF f.type = "continuation" THEN lastType ELSE f.type

\* Receive returns what ReadAll could read of the frame's payload: the end of
\* the connection is not an error to ReadAll.
ReceiveMessage ==
    /\ reader = "read" /\ conn = "open" /\ inbox # <<>>
    /\ LET f == Head(inbox)
       IN  /\ GivenToHandler(f)
           /\ received' = Append(received, [val |-> f.val, whole |-> ~Cut(f),
                                            type |-> TypeOf(f)])
           /\ lastType' = TypeOf(f)
           /\ \/ UNCHANGED <<reader, job>>
              \/ \* the one-byte message "p": mwh answers with "P"
                 /\ reader' = "replying"
                 /\ job' = [job EXCEPT ![Reader] = Writing("text", f.val)]
              \/ \* any other short message, or a bad one of opcode 5
                 /\ reader' = "logout"
                 /\ job' = [job EXCEPT ![Reader] = Writing("close", 0)]
    /\ inbox' = Tail(inbox)
    /\ UNCHANGED <<conn, broken, sentIn, eof, wio, out>>

\* A ping is answered by the reader itself, with the ping's payload.
PongTo_Empty(f) == Writing("pong", 0)
PongTo(f) == Writing("pong", f.val)

ReceivePing ==
    /\ reader = "read" /\ conn = "open" /\ inbox # <<>>
    /\ Head(inbox).type = "ping" /\ ~GivenToHandler(Head(inbox))
    /\ reader' = "ponging"
    /\ job' = [job EXCEPT ![Reader] = PongTo(Head(inbox))]
    /\ inbox' = Tail(inbox)
    /\ UNCHANGED <<conn, broken, sentIn, eof, lastType, received, wio, out>>

\* A close frame (EOF), a pong (ErrNotImplemented), the end of the connection
\* (also inside a frame's header) or an error end mwh's loop; logout closes the session's connection.
ReceiveFails ==
    /\ reader = "read"
    /\ \/ inbox # <<>> /\ Head(inbox).type \in {"close", "pong"}
       \/ inbox # <<>> /\ Cut(Head(inbox))
       \/ inbox = <<>> /\ eof # "no"
       \/ conn = "closed" \/ broken
    /\ reader' = "logout"
    /\ job' = [job EXCEPT ![Reader] = Writing("close", 0)]
    /\ UNCHANGED <<conn, broken, inbox, sentIn, eof, lastType, received, wio, out>>

-----------------------------------------------------------------------------
(* Write, Send, WritePong and WriteClose: wio.Lock, header, payload, flush, *)
(* Unlock.                                                                  *)

StartWrite(w, type) ==
    /\ conn \in {"open", "closed"} /\ job[w].at = "none"
    /\ job' = [job EXCEPT ![w] = Writing(type, 0)]
    /\ UNCHANGED <<conn, broken, inbox, sentIn, eof, reader, lastType, received,
                   wio, out>>

MayEnter_PongUnlocked(w) == wio = Free \/ job[w].type = "pong"
MayEnter(w) == wio = Free

Lock(w) ==
    /\ job[w].at = "lock" /\ MayEnter(w)
    /\ wio' = w
    /\ job' = [job EXCEPT ![w].at = "header"]
    /\ UNCHANGED <<conn, broken, inbox, sentIn, eof, reader, lastType, received, out>>

Piece(w, part) == [by |-> w, part |-> part, type |-> job[w].type, val |-> job[w].val]

WriteHeader(w) ==
    /\ job[w].at = "header"
    /\ out' = Append(out, Piece(w, "header"))
    /\ job' = [job EXCEPT ![w].at = "payload"]
    /\ UNCHANGED <<conn, broken, inbox, sentIn, eof, reader, lastType, received, wio>>

(***************************************************************************)
(* The payload, Flush, which fails on a broken or closed connection, and   *)
(* Unlock.  What follows depends on the caller: Conn.Close closes the      *)
(* connection only when the close frame was written; the reader goes on to *)
(* its next Receive, unless the pong failed.                               *)
(***************************************************************************)
WritePayload(w) ==
    LET fails == broken \/ conn = "closed"
    IN  /\ job[w].at = "payload"
        /\ out' = Append(out, Piece(w, "payload"))
        /\ wio' = Free
        /\ conn' = IF job[w].type = "close" /\ ~fails THEN "closed" ELSE conn
        /\ IF w # Reader
           THEN job' = [job EXCEPT ![w].at = "done"] /\ UNCHANGED reader
           ELSE /\ job' = [job EXCEPT ![w] = IF reader = "ponging" /\ fails
                                             THEN Writing("close", 0) ELSE NoJob]
                /\ reader' = CASE reader = "ponging" /\ fails -> "logout"
                               [] reader = "logout" -> "return"
                               [] OTHER -> "read"
        /\ UNCHANGED <<broken, inbox, sentIn, eof, lastType, received>>

\* mwh returns to serveWebSocket, whose deferred rwc.Close runs.
HandlerReturns ==
    /\ reader = "return"
    /\ reader' = "done" /\ conn' = "closed"
    /\ UNCHANGED <<broken, inbox, sentIn, eof, lastType, received, wio, job, out>>

WsNext ==
    \/ \E t \in FrameTypes : PhoneSends(t)
    \/ \E how \in {"clean", "cut"} : PhoneEnds(how)
    \/ Breaks
    \/ \E req \in Request : serveWebSocket(req)
    \/ ReceiveMessage
    \/ ReceivePing
    \/ ReceiveFails
    \/ \E w \in Pushers : StartWrite(w, "binary")
    \/ StartWrite(Closer, "close")
    \/ \E w \in Writers : Lock(w) \/ WriteHeader(w) \/ WritePayload(w)
    \/ HandlerReturns

WsSpec == WsInit /\ [][WsNext]_wsVars

-----------------------------------------------------------------------------
(* Properties.                                                             *)

(***************************************************************************)
(* The frames that concurrent goroutines write to one phone are never      *)
(* mixed: every header is followed by the payload of the same frame        *)
(* (Conn.Write, Codec.Send, WritePong and WriteClose all hold wio).        *)
(***************************************************************************)
FramesWhole ==
    \A i \in DOMAIN out :
        IF out[i].part = "header"
        THEN i < Len(out) => out[i + 1] = [out[i] EXCEPT !.part = "payload"]
        ELSE i > 1 /\ out[i - 1] = [out[i] EXCEPT !.part = "header"]

\* The numbers of the frames that the reader has read: val is a frame's number.
ReadSoFar == 1..(Len(sentIn) - Len(inbox))

(***************************************************************************)
(* Receive returns the data frames of the phone, each once and in order,   *)
(* up to the frame that ends the loop, and each whole, except one in which *)
(* the connection ended: ReadAll takes that end for the end of the frame,  *)
(* and mwh is given a truncated message.                                   *)
(***************************************************************************)
ReceivedInOrder ==
    /\ {received[i].val : i \in DOMAIN received} =
       {k \in ReadSoFar : sentIn[k].type \in DataTypes}
    /\ \A i, j \in DOMAIN received : i < j => received[i].val < received[j].val
    /\ \A i \in DOMAIN received :
        received[i].whole \/ (eof = "cut" /\ i = Len(received))

(***************************************************************************)
(* A ping is answered once, and before the phone's next message is handed  *)
(* to mwh: whenever the reader is about to read, every ping read so far    *)
(* has its pong written, in order.                                         *)
(***************************************************************************)
PongBeforeNextMessage ==
    LET pongs == {i \in DOMAIN out : out[i].type = "pong" /\ out[i].part = "payload"}
    IN  reader = "read" =>
            /\ {out[i].val : i \in pongs} = {k \in ReadSoFar : sentIn[k].type = "ping"}
            /\ \A i, j \in pongs : i < j => out[i].val < out[j].val
=============================================================================
