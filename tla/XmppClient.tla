------------------------------ MODULE XmppClient ------------------------------
(***************************************************************************)
(* One XMPP client, pkg/client/xmpp/client.go, with the CWMP behaviour of  *)
(* pkg/behavior/xmpp_cwmp.go, the only one that supports it: the stream,   *)
(* the flags, the answers to connection requests, and Disconnect with the  *)
(* goroutine and the timeout it stops the stream manager with.             *)
(*                                                                         *)
(* The library (gosrc.io/xmpp) is modelled from how the client uses it:    *)
(* its stream manager connects in Run, reconnects when the stream ends     *)
(* while its event handler is installed, and calls postConnect each time;  *)
(* Stop removes the handler and closes the stream.                         *)
(***************************************************************************)
EXTENDS Integers, Sequences

CONSTANTS
    Requests,        \* the IQ stanzas the server may send, each at most once
    NoID,            \* the ID of a stanza without one
    MaxInbox,        \* QueueSize: what the queue holds, if it is all of this client
    MaxLosses        \* bound: streams lost

\* What handlePacket, OnMessage and handleConnectionRequest look at.
IQ == [type : {"get", "set", "result", "error"},
       body : {"ConnectionRequest", "garbled", "other"},
       authentic : BOOLEAN]

ASSUME XmppAssumption ==
    /\ \A r \in Requests : [type |-> r.type, body |-> r.body, authentic |-> r.authentic] \in IQ
    /\ \A r, s \in Requests : r.id = s.id => r = s \/ r.id = NoID
    /\ {MaxInbox, MaxLosses} \subseteq Nat

VARIABLES
    isConnected,     \* Client.isConnected
    isShuttingDown,  \* Client.isShuttingDown
    isReceiving,     \* Client.isReceiving
    stream,          \* the library's stream: "none" before the first, "up", "down"
    dialer,          \* the library's goroutine that brings it up, if there is one
    posting,         \* goroutines about to run postConnect
    hasHandler,      \* the stream manager's event handler is installed
    mainPc,          \* Connect, then Stop and Disconnect, as they concern this client
    wasConnected,    \* Disconnect's local variable
    stopper,         \* Disconnect's goroutine, in StreamManager.Stop
    fate,            \* what has become of each request
    inbox,           \* the requests whose answers wait for the worker
    informs,         \* the requests an Inform was started for
    sent,            \* the answers written to the stream
    resumed,         \* history: the end of a stream has started a resume loop
    losses           \* bound counter: streams lost

flags      == <<isConnected, isShuttingDown, isReceiving>>
streamVars == <<stream, dialer, posting, hasHandler, resumed, losses>>
stopVars   == <<mainPc, wasConnected, stopper>>
talkVars   == <<fate, inbox, informs, sent>>
vars       == <<flags, streamVars, stopVars, talkVars>>

TypeOK ==
    /\ {isConnected, isShuttingDown, isReceiving, hasHandler, wasConnected} \subseteq BOOLEAN
    /\ stream \in {"none", "up", "down"}
    /\ dialer \in {"none", "run", "dial", "resume"}
    /\ posting \in Nat
    /\ mainPc \in {"connect", "failed", "running", "cancelled", "draining", "disconnect",
                   "select", "force", "stopped"}
    /\ stopper \in {"none", "unset", "close", "done"}
    /\ fate \in [Requests -> {"unsent", "handling", "ignored", "queued", "dropped", "failed",
                              "answered"}]
    /\ inbox \in Seq(Requests)
    /\ informs \subseteq Requests
    /\ sent \in Seq([id : {r.id : r \in Requests}, to : {r.from : r \in Requests},
                     type : {"result", "error"}])
    /\ resumed \in BOOLEAN
    /\ losses \in 0..MaxLosses

Init ==
    /\ isConnected = FALSE
    /\ isShuttingDown = FALSE
    /\ isReceiving = TRUE
    /\ stream = "none"
    /\ dialer = "none"
    /\ posting = 0
    /\ hasHandler = FALSE
    /\ mainPc = "connect"
    /\ wasConnected = FALSE
    /\ stopper = "none"
    /\ fate = [r \in Requests |-> "unsent"]
    /\ inbox = <<>>
    /\ informs = {}
    /\ sent = <<>>
    /\ resumed = FALSE
    /\ losses = 0

-----------------------------------------------------------------------------
(* Connect, and the stream manager it starts.                              *)

\* Connect returns when the goroutine of Run is started.
ConnectOK ==
    /\ mainPc = "connect"
    /\ mainPc' = "running"
    /\ dialer' = "run"
    /\ UNCHANGED <<flags, stream, posting, hasHandler, resumed, losses, wasConnected, stopper, talkVars>>

\* The library refuses the configuration.
ConnectFails ==
    /\ mainPc = "connect"
    /\ mainPc' = "failed"
    /\ UNCHANGED <<flags, streamVars, wasConnected, stopper, talkVars>>

\* Run installs its event handler and dials.
RunStarts ==
    /\ dialer = "run"
    /\ dialer' = "dial"
    /\ hasHandler' = TRUE
    /\ UNCHANGED <<flags, stream, posting, resumed, losses, stopVars, talkVars>>

StreamUp ==
    /\ dialer \in {"dial", "resume"}
    /\ dialer' = "none"
    /\ stream' = "up"
    /\ posting' = posting + 1
    /\ UNCHANGED <<flags, hasHandler, resumed, losses, stopVars, talkVars>>

\* Run returns the error of its dial: nobody dials again.
RunFails ==
    /\ dialer = "dial"
    /\ dialer' = "none"
    /\ isConnected' = (isConnected /\ isShuttingDown)
    /\ UNCHANGED <<isShuttingDown, isReceiving, stream, posting, hasHandler, resumed, losses, stopVars,
                   talkVars>>

\* The resume loop meets a permanent error.
ResumeFails ==
    /\ dialer = "resume"
    /\ dialer' = "none"
    /\ UNCHANGED <<flags, stream, posting, hasHandler, resumed, losses, stopVars, talkVars>>

\* The stream ends: the event makes an installed handler resume it.
StreamEnds ==
    /\ stream' = "down"
    /\ dialer' = IF hasHandler THEN "resume" ELSE "none"
    /\ resumed' = (resumed \/ hasHandler)

StreamLost ==
    /\ stream = "up"
    /\ losses < MaxLosses
    /\ losses' = losses + 1
    /\ StreamEnds
    /\ UNCHANGED <<flags, posting, hasHandler, stopVars, talkVars>>

\* The library's Disconnect.
CloseStream ==
    IF stream = "up" THEN StreamEnds ELSE UNCHANGED <<stream, dialer, resumed>>

\* Mutant: a new stream makes the client receive again.
PostConnectReceives ==
    /\ posting > 0
    /\ posting' = posting - 1
    /\ isConnected' = TRUE
    /\ isReceiving' = TRUE
    /\ UNCHANGED <<isShuttingDown, stream, dialer, hasHandler, resumed, losses, stopVars, talkVars>>
\* postConnect.  CWMP's OnConnect returns no actions.
PostConnect ==
    /\ posting > 0
    /\ posting' = posting - 1
    /\ isConnected' = TRUE
    /\ UNCHANGED <<isShuttingDown, isReceiving, stream, dialer, hasHandler, resumed, losses, stopVars,
                   talkVars>>

-----------------------------------------------------------------------------
(* A connection request and its answer.                                    *)

IsConnectionRequest(r) == r.type = "get" /\ r.body = "ConnectionRequest"

Answer(r) == [id |-> r.id, to |-> r.from, type |-> IF r.authentic THEN "result" ELSE "error"]

\* handlePacket up to the behaviour's callback.
HandlePacket(r) ==
    /\ stream = "up"
    /\ fate[r] = "unsent"
    /\ fate' = [fate EXCEPT ![r] =
                   IF isReceiving /\ r.type \notin {"result", "error"} THEN "handling" ELSE "ignored"]
    /\ UNCHANGED <<flags, streamVars, stopVars, inbox, informs, sent>>

\* OnMessage has no answer to it.
OnMessageIgnores(r) ==
    /\ fate[r] = "handling"
    /\ ~IsConnectionRequest(r)
    /\ fate' = [fate EXCEPT ![r] = "ignored"]
    /\ UNCHANGED <<flags, streamVars, stopVars, inbox, informs, sent>>

\* The queue is open; to submit after that kills the process (see Engine).
Open == mainPc \in {"running", "cancelled", "draining"}

\* handleConnectionRequest: the goroutine that sends the Inform, and the
\* answer, which the engine takes, or drops if the queue is full, be it of
\* other clients' actions.
OnConnectionRequest(r) ==
    /\ fate[r] = "handling"
    /\ IsConnectionRequest(r)
    /\ Open
    /\ informs' = informs \union (IF r.authentic THEN {r} ELSE {})
    /\ \/ Len(inbox) < MaxInbox /\ inbox' = Append(inbox, r) /\ fate' = [fate EXCEPT ![r] = "queued"]
       \/ UNCHANGED inbox /\ fate' = [fate EXCEPT ![r] = "dropped"]
    /\ UNCHANGED <<flags, streamVars, stopVars, sent>>

\* Mutant: an answer that was written stays in the queue.
SendOKStays ==
    /\ inbox # <<>>
    /\ Head(inbox).id # NoID
    /\ stream = "up"
    /\ sent' = Append(sent, Answer(Head(inbox)))
    /\ UNCHANGED <<flags, streamVars, stopVars, fate, inbox, informs>>
\* Send and sendIQ, called by the worker: an IQ needs an ID, and a stream.
SendOK ==
    /\ inbox # <<>>
    /\ Head(inbox).id # NoID
    /\ stream = "up"
    /\ sent' = Append(sent, Answer(Head(inbox)))
    /\ fate' = [fate EXCEPT ![Head(inbox)] = "answered"]
    /\ inbox' = Tail(inbox)
    /\ UNCHANGED <<flags, streamVars, stopVars, informs>>

\* The engine's context is cancelled.
Cancelled == mainPc \in {"cancelled", "draining"}

\* Mutant: an answer that could not be written stays in the queue.
SendFailsStays ==
    /\ inbox # <<>>
    /\ Head(inbox).id = NoID \/ stream # "up" \/ Cancelled
    /\ fate' = [fate EXCEPT ![Head(inbox)] = "failed"]
    /\ UNCHANGED <<flags, streamVars, stopVars, inbox, informs, sent>>
\* An answer without an ID, or without a stream; and once Stop has cancelled
\* the context, the limiter of sends, if there is one, lets none through.
SendFails ==
    /\ inbox # <<>>
    /\ Head(inbox).id = NoID \/ stream # "up" \/ Cancelled
    /\ fate' = [fate EXCEPT ![Head(inbox)] = "failed"]
    /\ inbox' = Tail(inbox)
    /\ UNCHANGED <<flags, streamVars, stopVars, informs, sent>>

-----------------------------------------------------------------------------
(* Stop.                                                                   *)

StopCancels ==
    /\ mainPc = "running"
    /\ mainPc' = "cancelled"
    /\ UNCHANGED <<flags, streamVars, wasConnected, stopper, talkVars>>

StopReceiving ==
    /\ mainPc = "cancelled"
    /\ mainPc' = "draining"
    /\ isReceiving' = FALSE
    /\ UNCHANGED <<isConnected, isShuttingDown, streamVars, wasConnected, stopper, talkVars>>

\* Mutant: Stop does not wait for the worker.
StopHurries ==
    /\ mainPc = "draining"
    /\ mainPc' = "disconnect"
    /\ UNCHANGED <<flags, streamVars, wasConnected, stopper, talkVars>>
\* The queue is closed and its worker has drained it.
StopWaits ==
    /\ mainPc = "draining"
    /\ inbox = <<>>
    /\ mainPc' = "disconnect"
    /\ UNCHANGED <<flags, streamVars, wasConnected, stopper, talkVars>>

\* Disconnect's critical section, and the goroutine for the stream manager.
DisconnectBegins ==
    /\ mainPc = "disconnect"
    /\ isShuttingDown' = TRUE
    /\ wasConnected' = isConnected
    /\ isConnected' = FALSE
    /\ IF isConnected
       THEN mainPc' = "select" /\ stopper' = "unset"
       ELSE mainPc' = "force" /\ UNCHANGED stopper
    /\ UNCHANGED <<isReceiving, streamVars, talkVars>>

\* Mutant: only the stream is closed.
UnsetHandlerForgotten ==
    /\ stopper = "unset"
    /\ stopper' = "close"
    /\ UNCHANGED <<flags, streamVars, mainPc, wasConnected, talkVars>>
\* StreamManager.Stop: first the handler is removed ...
UnsetHandler ==
    /\ stopper = "unset"
    /\ stopper' = "close"
    /\ hasHandler' = FALSE
    /\ UNCHANGED <<flags, stream, dialer, posting, resumed, losses, mainPc, wasConnected, talkVars>>

\* ... then the stream is closed, which waits for the server's answer.
StopCloses ==
    /\ stopper = "close"
    /\ stopper' = "done"
    /\ CloseStream
    /\ UNCHANGED <<flags, posting, hasHandler, losses, mainPc, wasConnected, talkVars>>

ManagerStopped ==
    /\ mainPc = "select"
    /\ stopper = "done"
    /\ mainPc' = "force"
    /\ UNCHANGED <<flags, streamVars, wasConnected, stopper, talkVars>>

\* Mutant: only the stream manager's end is waited for.
StopWithoutTimeout ==
    /\ mainPc = "select"
    /\ stopper = "done"
    /\ mainPc' = "force"
    /\ UNCHANGED <<flags, streamVars, wasConnected, stopper, talkVars>>
\* Five seconds are over; removing the handler takes no time.
StopTimesOut ==
    /\ mainPc = "select"
    /\ stopper = "close"
    /\ mainPc' = "force"
    /\ UNCHANGED <<flags, streamVars, wasConnected, stopper, talkVars>>

\* The library's Disconnect, which waits for the server in the same way.
DisconnectCloses ==
    /\ mainPc = "force"
    /\ mainPc' = "stopped"
    /\ CloseStream
    /\ UNCHANGED <<flags, posting, hasHandler, losses, wasConnected, stopper, talkVars>>

-----------------------------------------------------------------------------
DialStep == RunStarts \/ StreamUp \/ RunFails \/ ResumeFails
HandlerStep(r) == OnMessageIgnores(r) \/ OnConnectionRequest(r)
WorkerStep == SendOK \/ SendFails
DisconnectStep == StopWaits \/ DisconnectBegins \/ ManagerStopped \/ StopTimesOut
CloseStep == StopCloses \/ DisconnectCloses

Next ==
    \/ ConnectOK \/ ConnectFails
    \/ DialStep \/ StreamLost \/ PostConnect
    \/ \E r \in Requests : HandlePacket(r) \/ HandlerStep(r)
    \/ WorkerStep
    \/ StopCancels \/ StopReceiving \/ DisconnectStep \/ UnsetHandler \/ CloseStep
    \/ mainPc \in {"failed", "stopped"} /\ UNCHANGED vars

Spec == Init /\ [][Next]_vars

\* Goroutines are scheduled and the timer fires.  Nothing is assumed of dials
\* nor of the server: a close of a stream that is up, be it the one in
\* StreamManager.Stop or the one of Disconnect, may wait for it for ever;
\* only without a stream is there nobody to wait for.
FairSpec ==
    /\ Spec
    /\ WF_vars(RunStarts) /\ WF_vars(PostConnect)
    /\ \A r \in Requests : WF_vars(HandlerStep(r))
    /\ WF_vars(WorkerStep)
    /\ WF_vars(StopReceiving \/ DisconnectStep)
    /\ WF_vars(UnsetHandler)
    /\ WF_vars(stream # "up" /\ StopCloses)
    /\ WF_vars(stream # "up" /\ DisconnectCloses)
-----------------------------------------------------------------------------
\* The stream and the goroutine that brings it up.
StreamInv ==
    /\ stream = "up" => dialer = "none"
    /\ dialer \in {"run", "dial"} => stream = "none"
    /\ dialer = "resume" => stream = "down" /\ resumed
    /\ stream = "none" => posting = 0 /\ ~isConnected
    /\ mainPc \in {"connect", "failed"} => stream = "none" /\ dialer = "none"

\* Disconnect and the goroutine that it waits for; who has ended the stream
\* of a client that never lost one.
StopInv ==
    /\ stopper # "none" => wasConnected /\ mainPc \in {"select", "force", "stopped"}
    /\ mainPc = "select" => wasConnected
    /\ wasConnected /\ mainPc \in {"force", "stopped"} => stopper \in {"close", "done"}
    /\ stopper \in {"close", "done"} => ~hasHandler
    /\ wasConnected => stream # "none"
    /\ losses = 0 =>
           /\ resumed => mainPc = "stopped" /\ ~wasConnected
           /\ stream = "down" => stopper = "done" \/ mainPc = "stopped"

\* Each request is in one place, and treated as it deserves.
TalkInv ==
    /\ \A i, j \in DOMAIN inbox : inbox[i] = inbox[j] => i = j
    /\ \A r \in Requests : fate[r] = "queued" <=> \E i \in DOMAIN inbox : inbox[i] = r
    /\ \A r \in Requests :
           fate[r] \in {"queued", "dropped", "failed", "answered"} =>
               IsConnectionRequest(r) /\ (r.authentic <=> r \in informs)
    /\ \A r \in informs : fate[r] \in {"queued", "dropped", "failed", "answered"}
    /\ ~Open => inbox = <<>>

\* The server gets at most one answer to each connection request, to its
\* sender, under its ID, and no answer to anything else; the answer is a
\* result if an Inform was started for the request, and an error if not.
AnsweredOnce ==
    /\ \A i, j \in DOMAIN sent : sent[i].id = sent[j].id => i = j
    /\ \A i \in DOMAIN sent : \E r \in Requests :
           /\ IsConnectionRequest(r) /\ fate[r] = "answered"
           /\ sent[i] = [id |-> r.id, to |-> r.from,
                          type |-> IF r \in informs THEN "result" ELSE "error"]

\* A client whose stream was up when it was told to disconnect, and which
\* never lost one, has no stream afterwards and nobody brings it up, even if
\* the stream manager did not stop in time.
StaysClosed ==
    mainPc = "stopped" /\ wasConnected /\ losses = 0
        => stream = "down" /\ dialer = "none"

\* What every step keeps: the types, the stream, Disconnect, the requests.
IInv == TypeOK /\ StreamInv /\ StopInv /\ TalkInv /\ AnsweredOnce /\ StaysClosed

-----------------------------------------------------------------------------
(* Properties.                                                             *)

\* Only a request with the configured credentials makes the device inform.
InformsAuthentic == \A r \in informs : IsConnectionRequest(r) /\ r.authentic

\* Disconnect ends, or waits for the server in its own close of the stream:
\* for ever only if the stream is up from some time on, and the server never
\* answers.  The stream manager, which waits in the same way, never holds it.
DisconnectEnds ==
    mainPc = "disconnect" ~> (mainPc = "stopped" \/ [](mainPc = "force" /\ stream = "up"))

\* A connection request is answered, or its answer is lost for want of room,
\* of an ID or of a stream, unless Stop closes the queue before.
RequestsSettled ==
    \A r \in Requests :
        fate[r] = "handling" ~> fate[r] \in {"ignored", "dropped", "failed", "answered"} \/ ~Open

\* The stream as the engine sees it: "down" while it may come up again.
LinkState ==
    CASE stream = "none" -> "none"
      [] stream = "up" -> "up"
      [] stream = "down" -> IF dialer = "resume" THEN "down" ELSE "closed"

Link == INSTANCE ClientLink WITH link <- LinkState, receiving <- isReceiving, lost <- resumed

\* The client is what the engine's model takes a client for; but its link is
\* still "none" when Connect returns.
LinkSpec == Link!Spec
=============================================================================
