------------------------------ MODULE MqttClient ------------------------------
(***************************************************************************)
(* One MQTT client, pkg/client/mqtt/client.go: its subscription list, its  *)
(* flags, its reconnect loop, with the goroutines that run in it.  These   *)
(* are the worker that executes the client's actions one after the other   *)
(* (Engine proves that it is the only one), the library's callbacks, a     *)
(* reconnect loop for each lost connection, and Stop.                      *)
(*                                                                         *)
(* The library and the broker are modelled from how the client uses them,  *)
(* with the options it leaves at their defaults: clean sessions, so that   *)
(* the broker forgets the subscriptions of a lost connection, and the      *)
(* library's own reconnection, next to the client's loop.                  *)
(***************************************************************************)
EXTENDS Integers, Sequences, FiniteSets

CONSTANTS
    Topics,          \* topics
    Ops,             \* the actions that ticks and messages may cause
    OnConnectOps,    \* the actions the behaviour returns on a connection
    MaxInbox,        \* bound: actions that wait for the worker
    MaxLosses,       \* bound: connections lost
    MaxOps           \* bound: actions submitted for ticks and messages

Op == [kind : {"subscribe", "unsubscribe"}, topic : Topics]
        \cup [kind : {"send"}, qos : 0..2]
        \cup [kind : {"disconnect"}]

ASSUME ClientAssumption ==
    /\ Ops \subseteq Op
    /\ OnConnectOps \in Seq(Op)
    /\ {MaxInbox, MaxLosses, MaxOps} \subseteq Nat

VARIABLES
    subscriptions,   \* Client.subscriptions: the topics, in order
    isShuttingDown,  \* Client.isShuttingDown
    isReceiving,     \* Client.isReceiving
    stopClosed,      \* the channel Client.stopReconnect is closed
    panicked,        \* it was closed a second time
    status,          \* the library's connection
    broker,          \* the topics the broker holds for the session
    callbacks,       \* OnConnect callbacks that have still to submit
    inbox,           \* actions for the worker; it executes the first
    wpc,             \* where the worker is in that action
    token,           \* the library's token that the worker waits for
    loops,           \* loops[i]: where the handler of the i-th loss is
    losses,          \* connections lost so far
    mainPc,          \* Connect, then Stop, as they concern this client
    submitted,       \* bound counter: actions submitted
    torn             \* history: the topics that the session did not have when they
                     \* were listed: lost before, or refused without an error

clientVars  == <<subscriptions, isShuttingDown, isReceiving, stopClosed, panicked>>
libraryVars == <<status, broker, callbacks, token>>
workVars    == <<inbox, wpc, submitted>>
loopVars    == <<loops, losses>>
vars == <<clientVars, libraryVars, workVars, loopVars, mainPc, torn>>

Listed == {subscriptions[i] : i \in 1..Len(subscriptions)}

TypeOK ==
    /\ subscriptions \in Seq(Topics)
    /\ isShuttingDown \in BOOLEAN
    /\ isReceiving \in BOOLEAN
    /\ stopClosed \in BOOLEAN
    /\ panicked \in BOOLEAN
    /\ status \in {"none", "connected", "reconnecting", "disconnected"}
    /\ broker \subseteq Topics
    /\ callbacks \in Nat
    /\ token \in {"none", "pending", "ok", "error"}
    /\ inbox \in Seq(Op)
    /\ wpc # "idle" => inbox # <<>>
    /\ token # "none" <=> wpc = "wait"
    /\ wpc \in {"idle", "request", "wait", "shut", "test", "close", "quit"}
    /\ loops \in [1..MaxLosses -> {"off", "lost", "select", "wait", "dial", "done"}]
    /\ losses \in 0..MaxLosses
    /\ mainPc \in {"connect", "failed", "running", "cancelled", "stopping", "shut", "test", "close",
                   "quit", "stopped"}
    /\ submitted \in 0..MaxOps
    /\ torn \subseteq Topics

Init ==
    /\ subscriptions = <<>>
    /\ isShuttingDown = FALSE
    /\ isReceiving = TRUE
    /\ stopClosed = FALSE
    /\ panicked = FALSE
    /\ status = "none"
    /\ broker = {}
    /\ callbacks = 0
    /\ token = "none"
    /\ inbox = <<>>
    /\ wpc = "idle"
    /\ loops = [i \in 1..MaxLosses |-> "off"]
    /\ losses = 0
    /\ mainPc = "connect"
    /\ submitted = 0
    /\ torn = {}

-----------------------------------------------------------------------------
(* The library and the broker.                                             *)

\* A connection is up, with a new session: OnConnect is called.
Connected ==
    /\ status' = "connected"
    /\ broker' = {}
    /\ callbacks' = callbacks + 1

\* Connect's token carries no error.
ConnectOK ==
    /\ mainPc = "connect"
    /\ mainPc' = "running"
    /\ Connected
    /\ UNCHANGED <<clientVars, token, workVars, loopVars, torn>>

ConnectFails ==
    /\ mainPc = "connect"
    /\ mainPc' = "failed"
    /\ UNCHANGED <<clientVars, libraryVars, workVars, loopVars, torn>>

\* The library fails the tokens of subscribe and unsubscribe, keeps those of
\* publish, starts to reconnect and calls the connection-lost handler.
LinkLost ==
    /\ status = "connected"
    /\ losses < MaxLosses
    /\ losses' = losses + 1
    /\ loops' = [loops EXCEPT ![losses + 1] = "lost"]
    /\ status' = "reconnecting"
    /\ broker' = {}
    /\ token' = IF token = "pending" /\ Head(inbox).kind # "send" THEN "error" ELSE token
    /\ UNCHANGED <<clientVars, callbacks, workVars, mainPc, torn>>

LibraryReconnects ==
    /\ status = "reconnecting"
    /\ Connected
    /\ UNCHANGED <<clientVars, token, workVars, loopVars, mainPc, torn>>

\* The broker acknowledges the request: a topic is subscribed from here on.
BrokerAcks ==
    /\ token = "pending"
    /\ status = "connected"
    /\ token' = "ok"
    /\ broker' = CASE Head(inbox).kind = "subscribe" -> broker \cup {Head(inbox).topic}
                   [] Head(inbox).kind = "unsubscribe" -> broker \ {Head(inbox).topic}
                   [] OTHER -> broker
    /\ UNCHANGED <<clientVars, status, callbacks, workVars, loopVars, mainPc, torn>>

\* The broker refuses a subscription.  The client looks at the token's error
\* and at nothing else; whether the library reports a refusal there is open.
BrokerRefuses ==
    /\ token = "pending"
    /\ status = "connected"
    /\ Head(inbox).kind = "subscribe"
    /\ token' \in {"error", "ok"}
    /\ UNCHANGED <<clientVars, status, broker, callbacks, workVars, loopVars, mainPc, torn>>

\* Disconnect of the library: no token is pending when it is called.
LibraryDisconnects ==
    /\ status' = "disconnected"
    /\ broker' = {}
    /\ UNCHANGED <<callbacks, token>>

-----------------------------------------------------------------------------
(* The callbacks, and the ticks of the engine.                             *)

\* The engine takes the actions, or drops them all when the queue, which the
\* client shares with others, is full.
Submit(ops) ==
    \/ Len(inbox) + Len(ops) <= MaxInbox /\ inbox' = inbox \o ops
    \/ UNCHANGED inbox

\* Until Stop has closed the queue.
Open == mainPc \in {"running", "cancelled", "stopping"}

\* Mutant: a connection begins to receive again.
OnConnectReceives ==
    /\ Open
    /\ callbacks > 0
    /\ callbacks' = callbacks - 1
    /\ Submit(OnConnectOps)
    /\ isReceiving' = TRUE
    /\ UNCHANGED <<subscriptions, isShuttingDown, stopClosed, panicked, status, broker,
                   token, wpc, submitted, loopVars, mainPc, torn>>

OnConnect ==
    /\ Open
    /\ callbacks > 0
    /\ callbacks' = callbacks - 1
    /\ Submit(OnConnectOps)
    /\ UNCHANGED <<clientVars, status, broker, token, wpc, submitted, loopVars, mainPc, torn>>

\* A tick reaches a client that is connected: the library says so of one
\* that is reconnecting too.
OnTick ==
    /\ Open
    /\ status \in {"connected", "reconnecting"}
    /\ submitted < MaxOps
    /\ submitted' = submitted + 1
    /\ \E op \in Ops : Submit(<<op>>)
    /\ UNCHANGED <<clientVars, libraryVars, wpc, loopVars, mainPc, torn>>

\* A message reaches the behaviour while the client receives.
OnMessage ==
    /\ Open
    /\ status = "connected" /\ broker # {}
    /\ isReceiving
    /\ submitted < MaxOps
    /\ submitted' = submitted + 1
    /\ \E op \in Ops : Submit(<<op>>)
    /\ UNCHANGED <<clientVars, libraryVars, wpc, loopVars, mainPc, torn>>

\* Mutant: the list survives the connection.
HandleLossKeepsList(i) ==
    /\ loops[i] = "lost"
    /\ loops' = [loops EXCEPT ![i] = IF isShuttingDown THEN "done" ELSE "select"]
    /\ UNCHANGED <<clientVars, libraryVars, workVars, losses, mainPc, torn>>

\* The connection-lost handler, under the lock: a client that is shutting
\* down lets go, another one forgets its subscriptions and reconnects.
HandleLoss(i) ==
    /\ loops[i] = "lost"
    /\ IF isShuttingDown
       THEN /\ loops' = [loops EXCEPT ![i] = "done"]
            /\ UNCHANGED <<subscriptions, torn>>
       ELSE /\ loops' = [loops EXCEPT ![i] = "select"]
            /\ subscriptions' = <<>>
            /\ torn' = {}
    /\ UNCHANGED <<isShuttingDown, isReceiving, stopClosed, panicked, libraryVars, workVars,
                   losses, mainPc>>

-----------------------------------------------------------------------------
(* reconnect: a loop around a select and a dial.                           *)

\* The timer of the select is a new one: a closed channel wins.
EnterSelect(i) ==
    /\ loops[i] = "select"
    /\ loops' = [loops EXCEPT ![i] = IF stopClosed THEN "done" ELSE "wait"]
    /\ UNCHANGED <<clientVars, libraryVars, workVars, losses, mainPc, torn>>

Cancelled(i) ==
    /\ loops[i] = "wait"
    /\ stopClosed
    /\ loops' = [loops EXCEPT ![i] = "done"]
    /\ UNCHANGED <<clientVars, libraryVars, workVars, losses, mainPc, torn>>

\* When both are ready the select may take either.
BackoffOver(i) ==
    /\ loops[i] = "wait"
    /\ loops' = [loops EXCEPT ![i] = "dial"]
    /\ UNCHANGED <<clientVars, libraryVars, workVars, losses, mainPc, torn>>

\* The library has a connection or is about to have one: it says yes.
DialInVain(i) ==
    /\ loops[i] = "dial"
    /\ status # "disconnected"
    /\ loops' = [loops EXCEPT ![i] = "done"]
    /\ UNCHANGED <<clientVars, libraryVars, workVars, losses, mainPc, torn>>

\* Disconnect came between the select and the dial: the client is back.
DialOK(i) ==
    /\ loops[i] = "dial"
    /\ status = "disconnected"
    /\ loops' = [loops EXCEPT ![i] = "done"]
    /\ Connected
    /\ UNCHANGED <<clientVars, token, workVars, losses, mainPc, torn>>

DialFails(i) ==
    /\ loops[i] = "dial"
    /\ status = "disconnected"
    /\ loops' = [loops EXCEPT ![i] = "select"]
    /\ UNCHANGED <<clientVars, libraryVars, workVars, losses, mainPc, torn>>

LoopStep(i) ==
    \/ HandleLoss(i) \/ EnterSelect(i) \/ Cancelled(i) \/ BackoffOver(i)
    \/ DialInVain(i) \/ DialOK(i) \/ DialFails(i)

-----------------------------------------------------------------------------
(* The worker: Subscribe, Unsubscribe, Send.                               *)

Executing(kind) == inbox # <<>> /\ Head(inbox).kind = kind
\* Mutant: the token of the action is not reset.
FinishKeepsToken == inbox' = Tail(inbox) /\ wpc' = "idle" /\ UNCHANGED token

\* The action is over: the worker takes the next one.
Finish == inbox' = Tail(inbox) /\ wpc' = "idle" /\ token' = "none"

\* Subscribe first looks for the topic, under the lock, and lets go of it.
AlreadySubscribed ==
    /\ wpc = "idle"
    /\ Executing("subscribe")
    /\ Head(inbox).topic \in Listed
    /\ Finish
    /\ UNCHANGED <<clientVars, status, broker, callbacks, submitted, loopVars, mainPc, torn>>

\* Once Stop has cancelled the context, the limiter of the action's kind, if
\* there is one, lets none through.
LimiterRefuses ==
    /\ wpc = "idle"
    /\ inbox # <<>>
    /\ ~Executing("unsubscribe")
    /\ mainPc \in {"cancelled", "stopping"}
    /\ Finish
    /\ UNCHANGED <<clientVars, status, broker, callbacks, submitted, loopVars, mainPc, torn>>

\* Mutant: the list is not looked at.
BeginUnchecked ==
    /\ wpc = "idle"
    /\ inbox # <<>>
    /\ ~Executing("disconnect")
    /\ wpc' = "request"
    /\ UNCHANGED <<clientVars, libraryVars, inbox, submitted, loopVars, mainPc, torn>>

Begin ==
    /\ wpc = "idle"
    /\ inbox # <<>>
    /\ ~Executing("disconnect")
    /\ Executing("subscribe") => Head(inbox).topic \notin Listed
    /\ wpc' = "request"
    /\ UNCHANGED <<clientVars, libraryVars, inbox, submitted, loopVars, mainPc, torn>>

\* The library answers with a token.  A publish of QoS 0 is over at once,
\* one of QoS 1 or 2 is kept until the broker acknowledges it, over a lost
\* connection too; subscribe and unsubscribe need a connection.
Answers ==
    CASE status = "disconnected" -> {"error"}
      [] Executing("send") /\ Head(inbox).qos = 0 -> {"ok", "error"}
      [] Executing("send") \/ status = "connected" -> {"pending"}
      [] OTHER -> {"error"}

Request ==
    /\ wpc = "request"
    /\ wpc' = "wait"
    /\ token' \in Answers
    /\ UNCHANGED <<clientVars, status, broker, callbacks, inbox, submitted, loopVars, mainPc,
                   torn>>

Fails ==
    /\ wpc = "wait"
    /\ token = "error"
    /\ Finish
    /\ UNCHANGED <<clientVars, status, broker, callbacks, submitted, loopVars, mainPc, torn>>

\* Mutant: the topic is not put on the list.
SubscribeNotListed ==
    /\ wpc = "wait"
    /\ token = "ok"
    /\ Executing("subscribe")
    /\ Finish
    /\ UNCHANGED <<clientVars, status, broker, callbacks, submitted, loopVars, mainPc, torn>>

\* Under the lock again; the session may have gone since the answer, or the
\* answer was a refusal.
SubscribeLists ==
    /\ wpc = "wait"
    /\ token = "ok"
    /\ Executing("subscribe")
    /\ subscriptions' = Append(subscriptions, Head(inbox).topic)
    /\ torn' = IF Head(inbox).topic \in broker THEN torn ELSE torn \cup {Head(inbox).topic}
    /\ Finish
    /\ UNCHANGED <<isShuttingDown, isReceiving, stopClosed, panicked, status, broker,
                   callbacks, submitted, loopVars, mainPc>>

\* The first entry of that topic is taken out.
UnsubscribeUnlists ==
    /\ wpc = "wait"
    /\ token = "ok"
    /\ Executing("unsubscribe")
    /\ \/ /\ Head(inbox).topic \notin Listed
          /\ UNCHANGED subscriptions
       \/ \E i \in 1..Len(subscriptions) :
            /\ subscriptions[i] = Head(inbox).topic
            /\ \A j \in 1..(i - 1) : subscriptions[j] # Head(inbox).topic
            /\ subscriptions' = SubSeq(subscriptions, 1, i - 1)
                                \o SubSeq(subscriptions, i + 1, Len(subscriptions))
    /\ torn' = torn \ {Head(inbox).topic}
    /\ Finish
    /\ UNCHANGED <<isShuttingDown, isReceiving, stopClosed, panicked, status, broker,
                   callbacks, submitted, loopVars, mainPc>>

SendReturns ==
    /\ wpc = "wait"
    /\ token = "ok"
    /\ Executing("send")
    /\ Finish
    /\ UNCHANGED <<clientVars, status, broker, callbacks, submitted, loopVars, mainPc, torn>>

-----------------------------------------------------------------------------
(* Disconnect, in the worker and in Stop: the flag, a test of the channel  *)
(* and its closing, then the library's call.                               *)

SetShuttingDown ==
    /\ isShuttingDown' = TRUE
    /\ UNCHANGED <<subscriptions, isReceiving, stopClosed, panicked>>

\* Mutant: the flag alone is to stop the loop.
CloseStopNever == UNCHANGED clientVars

\* Closing a closed channel panics.
CloseStop ==
    /\ stopClosed' = TRUE
    /\ panicked' = stopClosed
    /\ UNCHANGED <<subscriptions, isShuttingDown, isReceiving>>

WorkerDisconnects ==
    \/ /\ wpc = "idle" /\ Executing("disconnect")
       /\ wpc' = "shut"
       /\ UNCHANGED <<clientVars, libraryVars, inbox>>
    \/ /\ wpc = "shut"
       /\ wpc' = "test"
       /\ SetShuttingDown
       /\ UNCHANGED <<libraryVars, inbox>>
    \/ /\ wpc = "test"
       /\ wpc' = IF stopClosed THEN "quit" ELSE "close"
       /\ UNCHANGED <<clientVars, libraryVars, inbox>>
    \/ /\ wpc = "close"
       /\ wpc' = "quit"
       /\ CloseStop
       /\ UNCHANGED <<libraryVars, inbox>>
    \/ /\ wpc = "quit"
       /\ wpc' = "idle"
       /\ inbox' = Tail(inbox)
       /\ LibraryDisconnects
       /\ UNCHANGED clientVars

WorkerDisconnect ==
    /\ WorkerDisconnects
    /\ UNCHANGED <<submitted, loopVars, mainPc, torn>>

StopCancels ==
    /\ mainPc = "running"
    /\ mainPc' = "cancelled"
    /\ UNCHANGED <<clientVars, libraryVars, workVars, loopVars, torn>>

StopReceiving ==
    /\ mainPc = "cancelled"
    /\ mainPc' = "stopping"
    /\ isReceiving' = FALSE
    /\ UNCHANGED <<subscriptions, isShuttingDown, stopClosed, panicked, libraryVars, workVars,
                   loopVars, torn>>

\* Mutant: Stop does not wait for the workers.
StopHurries ==
    /\ mainPc = "stopping"
    /\ mainPc' = "shut"
    /\ UNCHANGED <<clientVars, libraryVars, workVars, loopVars, torn>>

\* wg.Wait: the queue is closed and its worker has drained it.
StopWaits ==
    /\ mainPc = "stopping"
    /\ inbox = <<>>
    /\ mainPc' = "shut"
    /\ UNCHANGED <<clientVars, libraryVars, workVars, loopVars, torn>>

StopDisconnects ==
    /\ \/ mainPc = "shut" /\ mainPc' = "test" /\ SetShuttingDown /\ UNCHANGED libraryVars
       \/ /\ mainPc = "test" /\ mainPc' = IF stopClosed THEN "quit" ELSE "close"
          /\ UNCHANGED <<clientVars, libraryVars>>
       \/ mainPc = "close" /\ mainPc' = "quit" /\ CloseStop /\ UNCHANGED libraryVars
       \/ mainPc = "quit" /\ mainPc' = "stopped" /\ LibraryDisconnects /\ UNCHANGED clientVars
    /\ UNCHANGED <<workVars, loopVars, torn>>

-----------------------------------------------------------------------------
WorkerStep ==
    \/ AlreadySubscribed \/ LimiterRefuses \/ Begin \/ Request \/ Fails
    \/ SubscribeLists \/ UnsubscribeUnlists \/ SendReturns \/ WorkerDisconnect

LibraryStep == LinkLost \/ LibraryReconnects \/ BrokerAcks \/ BrokerRefuses

Next ==
    \/ ConnectOK \/ ConnectFails \/ LibraryStep
    \/ OnConnect \/ OnTick \/ OnMessage
    \/ WorkerStep
    \/ \E i \in 1..MaxLosses : LoopStep(i)
    \/ StopCancels \/ StopReceiving \/ StopWaits \/ StopDisconnects
    \/ mainPc \in {"failed", "stopped"} /\ UNCHANGED vars

Spec == Init /\ [][Next]_vars

\* Goroutines are scheduled, timers fire, a dial succeeds or fails, and a
\* broker that is connected answers.  Whether a connection that was lost ever
\* comes back, whether anybody submits an action, whether Stop is called, is
\* left open.
FairSpec ==
    /\ Spec
    /\ \A i \in 1..MaxLosses : WF_vars(LoopStep(i))
    /\ WF_vars(WorkerStep)
    /\ WF_vars(BrokerAcks \/ BrokerRefuses)
    /\ WF_vars(StopReceiving \/ StopWaits \/ StopDisconnects)

-----------------------------------------------------------------------------
(* The inductive invariant, in named parts.                                *)

Lost(i) == loops[i] = "lost"
Asking(kind) == wpc \in {"request", "wait"} /\ Executing(kind)
Answered(kind) == token = "ok" /\ Executing(kind)

\* The list and the topic that the worker subscribes to: the list names no
\* topic twice, and the topic that it did not name is still not on it.
ListInv ==
    /\ \A i, j \in 1..Len(subscriptions) : subscriptions[i] = subscriptions[j] => i = j
    /\ Asking("subscribe") => Head(inbox).topic \notin Listed
    /\ status = "none" => subscriptions = <<>> /\ token = "none"

\* The library's side: there is a session while there is a connection, and
\* an answered unsubscribe has had its effect on it, or has outlived it.
SessionInv ==
    /\ status # "connected" => broker = {}
    /\ Answered("unsubscribe") => Head(inbox).topic \notin broker
    /\ \A i \in 1..MaxLosses : i > losses => loops[i] = "off"

\* Who may close stopReconnect: the worker while it has an action, Stop once
\* the worker has none; each after it found the channel open.
CloseInv ==
    /\ ~Open => inbox = <<>>
    /\ wpc = "close" \/ mainPc = "close" => ~stopClosed
    /\ ~panicked

\* Whoever calls the library's Disconnect has set the flag before.
ShutInv ==
    /\ wpc \in {"test", "close", "quit"} => isShuttingDown
    /\ mainPc \in {"test", "close", "quit", "stopped"} => isShuttingDown
    /\ status = "disconnected" => isShuttingDown
    /\ status = "none" => mainPc \in {"connect", "failed"}
    /\ mainPc \in {"connect", "failed"} => status = "none" /\ callbacks = 0

\* What the list claims of the session, see NothingStale.
ClaimInv ==
    /\ (~isShuttingDown /\ \A i \in 1..MaxLosses : ~Lost(i)) =>
            Listed \subseteq broker \cup torn
                \cup (IF Answered("unsubscribe") THEN {Head(inbox).topic} ELSE {})
    /\ losses = 0 =>
            broker \subseteq Listed
                \cup (IF Answered("subscribe") THEN {Head(inbox).topic} ELSE {})

IInv == TypeOK /\ ListInv /\ SessionInv /\ CloseInv /\ ShutInv /\ ClaimInv

-----------------------------------------------------------------------------
(* Properties.                                                             *)

\* The list names no topic twice, although Subscribe looks for the topic and
\* appends it in two critical sections: no second worker is in between.
ListedOnce ==
    \A i, j \in 1..Len(subscriptions) : subscriptions[i] = subscriptions[j] => i = j

\* The topics on the list are the broker's, so that a topic is not skipped
\* that ought to be subscribed again: while a client is connected, and has
\* seen the loss of its former connections, the list claims nothing that the
\* session does not have, but for a topic that it did not have when it was
\* listed (torn): its subscription was answered before a loss, or refused and
\* the library did not say so.
NothingStale ==
    (status = "connected" /\ ~isShuttingDown /\ \A i \in 1..MaxLosses : ~Lost(i))
        => Listed \subseteq broker \cup torn
             \cup (IF Answered("unsubscribe") THEN {Head(inbox).topic} ELSE {})

\* ... and on a connection that was never lost every topic of the session is
\* on the list once the worker has left Subscribe.
NothingForgotten ==
    (status = "connected" /\ losses = 0)
        => broker \subseteq Listed
             \cup (IF Answered("subscribe") THEN {Head(inbox).topic} ELSE {})

\* stopReconnect is closed once: the unguarded test in Disconnect is never
\* passed by a worker's action and by Stop together.
NoDoubleClose == ~panicked

\* Disconnect, once it has set the flag, ends every reconnect loop, wherever
\* the loop is.
LoopsEnd == isShuttingDown ~> \A i \in 1..MaxLosses : loops[i] \in {"off", "done"}

\* The connection as the engine sees it.
LinkState ==
    CASE status = "none" -> "none"
      [] status = "connected" -> "up"
      [] status = "reconnecting" -> "down"
      [] status = "disconnected" -> IF losses > 0 THEN "down" ELSE "closed"

Link == INSTANCE ClientLink WITH link <- LinkState, receiving <- isReceiving, lost <- losses > 0

\* The client is what the engine's model takes it for: it never receives
\* again after StopReceiving, and comes back from Disconnect only when it had
\* lost a connection before.
LinkSpec == Link!Spec

\* "Press Ctrl+C to stop": Stop disconnects the client in the end.
StopDisconnectsClient == mainPc = "stopping" ~> mainPc = "stopped"
=============================================================================
