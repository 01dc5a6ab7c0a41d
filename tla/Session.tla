------------------------------- MODULE Session -------------------------------
(***************************************************************************)
(* A SockJS session a kite has dialed (package sockjsclient), over XHR     *)
(* polling (xhr.go) or a websocket (sockjsclient.go).                      *)
(*                                                                         *)
(* Processes: the reader (readLoop calling Recv until it fails), the       *)
(* sender (sendHub calling Send), Close, and the peer, which is external:  *)
(* it answers a poll, or writes frames to the websocket, as it likes.      *)
(***************************************************************************)
EXTENDS Naturals, Sequences, SequencesExt

CONSTANT MaxMessages   \* bound: messages the peer sends

ASSUME SessionAssumption == MaxMessages \in Nat

VARIABLES
    transport,   \* "xhr" or "websocket"
    sent,        \* messages the peer has sent: 1..sent
    outbox,      \* those it still has to put into a frame
    wire,        \* frames on their way (over XHR the response to a poll)
    lost,        \* history: messages of responses that were given up on
    reader,      \* where Recv is; "failed": it has returned an error
    messages,    \* messages of a frame that Recv has yet to return
    received,    \* history: what Recv has returned
    sender,      \* where Send is; "late": it began on a session closed before
    state,       \* "active", or sockjs.SessionClosed (setState)
    closed,      \* websocket: the closed flag; the connection is closed too
    abort,       \* XHR: the tokens in x.abort
    called       \* history: Close has been called

peerVars == <<sent, outbox, wire, lost>>
recvVars == <<reader, messages, received>>
closeVars == <<state, closed, abort>>
vars == <<transport, peerVars, recvVars, sender, closeVars, called>>

Messages == 1..MaxMessages
Frame(t, ms) == [type |-> t, messages |-> ms]
FrameTypes == {"o", "a", "m", "h", "c", "invalid", "timeout", "notFound", "error"}

TypeOK ==
    /\ transport \in {"xhr", "websocket"}
    /\ sent \in 0..MaxMessages /\ lost \subseteq Messages
    /\ outbox \in Seq(Messages) /\ messages \in Seq(Messages) /\ received \in Seq(Messages)
    /\ wire \in Seq([type : FrameTypes, messages : Seq(Messages)])
    /\ reader \in {"idle", "wait", "body", "failed"}
    /\ sender \in {"idle", "posting", "late"}
    /\ state \in {"active", "closed"} /\ closed \in BOOLEAN /\ abort \in 0..1
    /\ called \in BOOLEAN

(* DialXHR has read the open frame; DialWebsocket leaves that to Recv. *)
Init ==
    /\ transport \in {"xhr", "websocket"}
    /\ sent = 0 /\ outbox = <<>> /\ lost = {}
    /\ wire = IF transport = "xhr" THEN <<>> ELSE <<Frame("o", <<>>)>>
    /\ reader = "idle" /\ messages = <<>> /\ received = <<>>
    /\ sender = "idle"
    /\ state = "active" /\ closed = FALSE /\ abort = 0
    /\ called = FALSE

-----------------------------------------------------------------------------
(* The peer (external). *)

Produce ==
    /\ sent < MaxMessages
    /\ sent' = sent + 1 /\ outbox' = Append(outbox, sent + 1)
    /\ UNCHANGED <<transport, wire, lost, recvVars, sender, closeVars, called>>

CanWrite ==
    IF transport = "xhr" THEN reader = "wait" /\ wire = <<>>
                         ELSE ~closed /\ Len(wire) < 2

(* What it holds goes out as an array, or one message by itself. *)
WriteMessages ==
    /\ CanWrite /\ outbox # <<>>
    /\ \/ wire' = Append(wire, Frame("a", outbox)) /\ outbox' = <<>>
       \/ wire' = Append(wire, Frame("m", <<Head(outbox)>>)) /\ outbox' = Tail(outbox)
    /\ UNCHANGED <<transport, sent, lost, recvVars, sender, closeVars, called>>

WriteOther(t) ==
    /\ CanWrite
    /\ t \in {"h", "c", "invalid"} \cup (IF transport = "xhr" THEN {"notFound", "error", "timeout"} ELSE {})
    /\ wire' = Append(wire, Frame(t, <<>>))
    /\ UNCHANGED <<transport, sent, outbox, lost, recvVars, sender, closeVars, called>>

(* A poll of a session the server no longer knows opens a new one; what    *)
(* the old one held is gone.                                               *)
Reopen ==
    /\ transport = "xhr" /\ CanWrite
    /\ wire' = Append(wire, Frame("o", <<>>))
    /\ outbox' = <<>> /\ lost' = lost \cup ToSet(outbox)
    /\ UNCHANGED <<transport, sent, recvVars, sender, closeVars, called>>

(* The headers of a response arrive and its body does not, in time. *)
SlowBody ==
    /\ transport = "xhr" /\ CanWrite /\ outbox # <<>>
    /\ wire' = Append(wire, Frame("timeout", outbox))
    /\ outbox' = <<>>
    /\ UNCHANGED <<transport, sent, lost, recvVars, sender, closeVars, called>>

-----------------------------------------------------------------------------
(* Recv. *)

IsClosed == IF transport = "xhr" THEN state = "closed" ELSE closed

(* Mutant: the message that is returned stays in the buffer of a frame     *)
(* with more than one.                                                     *)
ReturnFirstAndKeep(buffer) ==
    /\ received' = Append(received, Head(buffer))
    /\ messages' = IF Len(buffer) > 1 THEN buffer ELSE <<>>
    /\ reader' = "idle"

ReturnFirst(buffer) ==
    /\ received' = Append(received, Head(buffer))
    /\ messages' = Tail(buffer)
    /\ reader' = "idle"

RecvBuffered ==
    /\ reader = "idle" /\ messages # <<>>
    /\ ReturnFirst(messages)
    /\ UNCHANGED <<transport, peerVars, sender, closeVars, called>>

RecvClosed ==
    /\ reader = "idle" /\ messages = <<>> /\ IsClosed
    /\ reader' = "failed"
    /\ UNCHANGED <<transport, peerVars, messages, received, sender, closeVars, called>>

(* A poll is posted, or ReadMessage called. *)
RecvWaits ==
    /\ reader = "idle" /\ messages = <<>> /\ ~IsClosed
    /\ reader' = "wait"
    /\ UNCHANGED <<transport, peerVars, messages, received, sender, closeVars, called>>

RecvAborted ==
    /\ transport = "xhr" /\ reader = "wait" /\ abort = 1
    /\ reader' = "failed" /\ abort' = 0
    /\ UNCHANGED <<transport, peerVars, messages, received, sender, state, closed, called>>

ReadFails ==
    /\ transport = "websocket" /\ reader = "wait" /\ closed
    /\ reader' = "failed"
    /\ UNCHANGED <<transport, peerVars, messages, received, sender, closeVars, called>>

(* The poll is answered: Recv leaves its select, and with it x.abort, for  *)
(* handleResp.                                                             *)
RecvResponse ==
    /\ transport = "xhr" /\ reader = "wait" /\ wire # <<>>
    /\ reader' = "body"
    /\ UNCHANGED <<transport, peerVars, messages, received, sender, closeVars, called>>

(* A frame is read, in full where Recv decodes it. *)
Arrived(types) ==
    /\ reader = (IF transport = "xhr" THEN "body" ELSE "wait")
    /\ wire # <<>> /\ Head(wire).type \in types
    /\ wire' = Tail(wire)

(* Frames "a" and "m". *)
RecvMessages ==
    /\ Arrived({"a", "m"})
    /\ ReturnFirst(messages \o Head(wire).messages)
    /\ UNCHANGED <<transport, sent, outbox, lost, sender, closeVars, called>>

(* Frames "o" and "h", and ErrPollTimeout: Recv goes on.  Over a websocket *)
(* it first looks whether the session has been closed.                     *)
RecvAgain ==
    /\ Arrived({"o", "h", "timeout"})
    /\ lost' = lost \cup ToSet(Head(wire).messages)
    /\ reader' = IF transport = "xhr" THEN "wait" ELSE "idle"
    /\ state' = IF Head(wire).type = "o" THEN "active" ELSE state
    /\ UNCHANGED <<transport, sent, outbox, messages, received, sender, closed, abort, called>>

(* Frame "c". *)
RecvCloseFrame ==
    /\ Arrived({"c"})
    /\ reader' = "failed" /\ state' = "closed"
    /\ UNCHANGED <<transport, sent, outbox, lost, messages, received, sender,
                   closed, abort, called>>

(* A 404 to the poll: the session closes itself. *)
RecvNotFound ==
    /\ Arrived({"notFound"})
    /\ reader' = "failed" /\ state' = "closed" /\ abort' = 1
    /\ UNCHANGED <<transport, sent, outbox, lost, messages, received, sender,
                   closed, called>>

RecvInvalid ==
    /\ Arrived({"invalid", "error"})
    /\ reader' = "failed"
    /\ UNCHANGED <<transport, sent, outbox, lost, messages, received, sender,
                   closeVars, called>>

-----------------------------------------------------------------------------
(* Send and Close. *)

(* Send; on a closed session it returns ErrSessionClosed instead. *)
SendPosts ==
    /\ sender = "idle" /\ ~IsClosed
    /\ sender' = IF called THEN "late" ELSE "posting"
    /\ UNCHANGED <<transport, peerVars, recvVars, closeVars, called>>

SendDone ==
    /\ sender # "idle"
    /\ sender' = "idle"
    /\ UNCHANGED <<transport, peerVars, recvVars, closeVars, called>>

(* A 404 to xhr_send: the session closes itself. *)
SendNotFound ==
    /\ transport = "xhr" /\ sender # "idle"
    /\ sender' = "idle" /\ state' = "closed" /\ abort' = 1
    /\ UNCHANGED <<transport, peerVars, recvVars, closed, called>>

(* Mutant: Close only marks an XHR session. *)
CloseXHRMarks ==
    /\ state' = "closed"
    /\ UNCHANGED abort

(* setState, and a send to x.abort that does not block. *)
CloseXHR ==
    /\ state' = "closed"
    /\ abort' = 1

(* Over a websocket the flag (compare-and-swap), then the connection. *)
Close ==
    /\ called' = TRUE
    /\ IF transport = "xhr"
         THEN CloseXHR /\ UNCHANGED closed
         ELSE closed' = TRUE /\ UNCHANGED <<state, abort>>
    /\ UNCHANGED <<transport, peerVars, recvVars, sender>>

-----------------------------------------------------------------------------
Recv ==
    \/ RecvBuffered \/ RecvClosed \/ RecvWaits \/ ReadFails \/ RecvResponse
    \/ RecvMessages \/ RecvAgain \/ RecvCloseFrame \/ RecvNotFound \/ RecvInvalid

(* Recv is in a Decode of handleResp, which nothing bounds: not x.abort,   *)
(* nor the timeout, which is for the first byte of a response only.        *)
Decoding ==
    /\ transport = "xhr" /\ reader = "body"
    /\ Head(wire).type \in {"a", "m", "c"}

Next ==
    \/ Produce \/ WriteMessages \/ Reopen \/ SlowBody
    \/ \E t \in FrameTypes : WriteOther(t)
    \/ Recv \/ RecvAborted
    \/ SendPosts \/ SendDone \/ SendNotFound
    \/ Close

Spec == Init /\ [][Next]_vars

(* The reader runs; the select of Recv chooses at random, so that it does  *)
(* not pass over the abort channel for ever.  The peer owes nothing, not   *)
(* even the rest of a response it has begun.                               *)
Fairness == WF_vars(~Decoding /\ Recv) /\ SF_vars(RecvAborted)

FairSpec == Spec /\ Fairness

-----------------------------------------------------------------------------
(* Both transports implement the stream: Recv returns what the peer sent,  *)
(* in order and at most once, but for messages a timed-out response or a   *)
(* session the server had dropped took along.                              *)
Promise == INSTANCE Stream WITH sent <- sent, lost <- lost, received <- received
ImplementsStream == Promise!Spec

(* Close ends the reader, unless the peer leaves a response it has begun   *)
(* unfinished for ever: a poll nobody answers, a blocked ReadMessage, a    *)
(* session the server reopens or any number of answers in between do not   *)
(* keep readLoop, and with it the client, from finishing.                  *)
CloseEndsReader == <>[]Decoding \/ (called ~> reader = "failed")

(* The same of any peer, which the Decodes of xhr.go:210-249 do not keep.  *)
CloseAlwaysEndsReader == called ~> reader = "failed"

(* "ErrSessionClosed is returned by Send/Recv methods when calling them    *)
(* after the session got closed" (sockjsclient.go): no Send that began     *)
(* after Close reaches the peer.                                           *)
ClosedRefusesSend == sender # "late"
=============================================================================
