------------------------------ MODULE WorkerPool ------------------------------
(***************************************************************************)
(* The action queues and the worker pool of pkg/engine/engine.go:          *)
(* SubmitActions, queueIndex, startWorkerPool, executeActions and          *)
(* executeAction, with the two steps of Stop that act on them (cancelling  *)
(* the context and closing the queues).                                    *)
(*                                                                         *)
(* Every client object is routed to one queue by the hash of its ID and    *)
(* every queue is drained by one worker goroutine.  A batch is known by    *)
(* its position in the history variable accepted, and that position is     *)
(* what a queue carries.  What Execute does to the client is not modelled  *)
(* here: it returns, fails or panics.  Engine composes this module with    *)
(* the clients and the life cycle.                                         *)
(***************************************************************************)
EXTENDS Integers, Sequences, FiniteSets

CONSTANTS
    Clients,         \* client objects
    Hash,            \* Hash[c]: FNV-32a of the ID of c
    WorkerCount,     \* Engine.workerCount
    QueueSize,       \* Engine.queueSize
    Batches,         \* the action lists callers submit: sequences of kinds
    LimitedKinds,    \* the kinds whose rate limiter is configured
    MaxAccepted      \* bound: batches accepted in a behaviour

\* The types executeAction switches on.
Kinds == {"send", "subscribe", "unsubscribe", "disconnect"}

\* ActionWithContext as a queue carries it: no list in a queue is empty.
NonEmptyBatches == Batches \ {<<>>}
ActionWithContext == [client : Clients, actions : NonEmptyBatches]

\* UnsubscribeAction has no limiter.
ASSUME PoolAssumption ==
    /\ Hash \in [Clients -> Nat]
    /\ WorkerCount \in Nat \ {0}
    /\ QueueSize \in Nat \ {0}
    /\ Batches \subseteq Seq(Kinds)
    /\ LimitedKinds \subseteq Kinds \ {"unsubscribe"}
    /\ MaxAccepted \in Nat

Workers == 0..(WorkerCount - 1)

VARIABLES
    queues,          \* queues[w]: actionQueues[w], the batches waiting
    closedCount,     \* the queues Stop has closed: those below closedCount
    cancelled,       \* e.ctx is done
    wpc,             \* where each worker goroutine is
    current,         \* the batch each worker executes, 0 if none
    pos,             \* index of the action it is at
    processedCount,  \* Engine.processedCount
    msgCount,        \* Engine.msgCount
    messagesFailed,  \* the metric incremented for a failed action
    crashed,         \* a goroutine panicked and nothing recovered it
    accepted,        \* history: the batches put on a queue, in that order
    done,            \* history: the batches whose worker has left them
    abandoned        \* history: the actions a recovered panic cut off

workerVars  == <<wpc, current, pos>>
counterVars == <<processedCount, msgCount, messagesFailed>>
historyVars == <<accepted, done, abandoned>>
vars == <<queues, closedCount, cancelled, wpc, current, pos, processedCount,
          msgCount, messagesFailed, crashed, accepted, done, abandoned>>

\* Mutant: batches are dealt out round robin instead of by hash.
queueIndexRoundRobin(c) == (Hash[c] + Len(accepted)) % WorkerCount

queueIndex(c) == Hash[c] % WorkerCount

Busy(w) == wpc[w] \in {"ready", "limiter", "execute"}
Actions(w) == accepted[current[w]].actions
Action(w) == Actions(w)[pos[w]]

TypeOK ==
    /\ queues \in [Workers -> Seq(Nat)]
    /\ closedCount \in 0..WorkerCount
    /\ cancelled \in BOOLEAN
    /\ wpc \in [Workers -> {"idle", "ready", "limiter", "execute", "exited"}]
    /\ current \in [Workers -> Nat]
    /\ pos \in [Workers -> Nat]
    /\ processedCount \in Nat
    /\ msgCount \in Nat
    /\ messagesFailed \in Nat
    /\ crashed \in BOOLEAN
    /\ accepted \in Seq(ActionWithContext)
    /\ done \subseteq Nat
    /\ abandoned \in Nat

Init ==
    /\ queues = [w \in Workers |-> <<>>]
    /\ closedCount = 0
    /\ cancelled = FALSE
    /\ wpc = [w \in Workers |-> "idle"]
    /\ current = [w \in Workers |-> 0]
    /\ pos = [w \in Workers |-> 0]
    /\ processedCount = 0
    /\ msgCount = 0
    /\ messagesFailed = 0
    /\ crashed = FALSE
    /\ accepted = <<>>
    /\ done = {}
    /\ abandoned = 0

-----------------------------------------------------------------------------
(* SubmitActions: a select with a default branch, so it never blocks.      *)

\* Mutant: the batch goes to the front of the queue.
EnqueueFront(c, acts) ==
    /\ closedCount <= queueIndex(c)
    /\ Len(queues[queueIndex(c)]) < QueueSize
    /\ Len(accepted) < MaxAccepted
    /\ accepted' = Append(accepted, [client |-> c, actions |-> acts])
    /\ queues' = [queues EXCEPT ![queueIndex(c)] = <<Len(accepted) + 1>> \o @]
    /\ UNCHANGED <<closedCount, cancelled, workerVars, counterVars, crashed,
                   done, abandoned>>

\* There is room: the batch goes to the end of the queue of its client.
Enqueue(c, acts) ==
    /\ closedCount <= queueIndex(c)
    /\ Len(queues[queueIndex(c)]) < QueueSize
    /\ Len(accepted) < MaxAccepted
    /\ accepted' = Append(accepted, [client |-> c, actions |-> acts])
    /\ queues' = [queues EXCEPT ![queueIndex(c)] = Append(@, Len(accepted) + 1)]
    /\ UNCHANGED <<closedCount, cancelled, workerVars, counterVars, crashed,
                   done, abandoned>>

\* Mutant: a full queue makes room by dropping its oldest batch.
DropOldest(c) ==
    /\ closedCount <= queueIndex(c)
    /\ Len(queues[queueIndex(c)]) = QueueSize
    /\ queues' = [queues EXCEPT ![queueIndex(c)] = Tail(@)]
    /\ UNCHANGED <<closedCount, cancelled, workerVars, counterVars, crashed,
                   historyVars>>

\* The queue is full: the whole batch is dropped with a warning.
Drop(c) ==
    /\ closedCount <= queueIndex(c)
    /\ Len(queues[queueIndex(c)]) = QueueSize
    /\ UNCHANGED vars

\* A send on a closed channel panics, in a select with a default too.  No
\* caller of SubmitActions recovers: the process ends.
SendOnClosed(c) ==
    /\ queueIndex(c) < closedCount
    /\ crashed' = TRUE
    /\ UNCHANGED <<queues, closedCount, cancelled, workerVars, counterVars,
                   historyVars>>

\* An empty list returns at once.
SubmitActions(c, acts) ==
    /\ acts # <<>>
    /\ Enqueue(c, acts) \/ Drop(c) \/ SendOnClosed(c)

-----------------------------------------------------------------------------
(* The two steps of Stop that act on the pool.                             *)

Cancel ==
    /\ ~cancelled
    /\ cancelled' = TRUE
    /\ UNCHANGED <<queues, closedCount, workerVars, counterVars, crashed,
                   historyVars>>

\* The loop of Stop closes the queues one by one, in order.
CloseQueue ==
    /\ cancelled
    /\ closedCount < WorkerCount
    /\ closedCount' = closedCount + 1
    /\ UNCHANGED <<queues, cancelled, workerVars, counterVars, crashed,
                   historyVars>>

-----------------------------------------------------------------------------
(* The worker goroutine: for item := range queue { executeActions(item) }. *)

\* Mutant: the worker takes the youngest batch.
DequeueNewest(w) ==
    /\ wpc[w] = "idle"
    /\ queues[w] # <<>>
    /\ queues' = [queues EXCEPT ![w] = SubSeq(@, 1, Len(@) - 1)]
    /\ current' = [current EXCEPT ![w] = queues[w][Len(queues[w])]]
    /\ pos' = [pos EXCEPT ![w] = 1]
    /\ wpc' = [wpc EXCEPT ![w] = "ready"]
    /\ UNCHANGED <<closedCount, cancelled, counterVars, crashed, historyVars>>

\* A closed channel still delivers what it holds.
Dequeue(w) ==
    /\ wpc[w] = "idle"
    /\ queues[w] # <<>>
    /\ queues' = [queues EXCEPT ![w] = Tail(@)]
    /\ current' = [current EXCEPT ![w] = Head(queues[w])]
    /\ pos' = [pos EXCEPT ![w] = 1]
    /\ wpc' = [wpc EXCEPT ![w] = "ready"]
    /\ UNCHANGED <<closedCount, cancelled, counterVars, crashed, historyVars>>

\* Mutant: the worker leaves as soon as its queue is closed.
WorkerExitAtOnce(w) ==
    /\ wpc[w] = "idle"
    /\ w < closedCount
    /\ wpc' = [wpc EXCEPT ![w] = "exited"]
    /\ UNCHANGED <<queues, closedCount, cancelled, current, pos, counterVars,
                   crashed, historyVars>>

\* The range loop ends when the channel is closed and empty.
WorkerExit(w) ==
    /\ wpc[w] = "idle"
    /\ queues[w] = <<>>
    /\ w < closedCount
    /\ wpc' = [wpc EXCEPT ![w] = "exited"]
    /\ UNCHANGED <<queues, closedCount, cancelled, current, pos, counterVars,
                   crashed, historyVars>>

\* The worker leaves its batch and returns to the range statement.
Leave(w) ==
    /\ done' = done \cup {current[w]}
    /\ current' = [current EXCEPT ![w] = 0]
    /\ pos' = [pos EXCEPT ![w] = 0]
    /\ wpc' = [wpc EXCEPT ![w] = "idle"]

\* executeAction has returned: count the action and go to the next one.
Processed(w) ==
    /\ processedCount' = processedCount + 1
    /\ IF pos[w] = Len(Actions(w))
       THEN Leave(w)
       ELSE /\ pos' = [pos EXCEPT ![w] = @ + 1]
            /\ wpc' = [wpc EXCEPT ![w] = "ready"]
            /\ UNCHANGED <<current, done>>

\* An action that no limiter holds back is executed at once.
StartUnlimited(w) ==
    /\ wpc[w] = "ready"
    /\ Action(w) \notin LimitedKinds
    /\ wpc' = [wpc EXCEPT ![w] = "execute"]
    /\ UNCHANGED <<queues, closedCount, cancelled, current, pos, counterVars,
                   crashed, historyVars>>

\* limiter.Wait looks at the context first, then waits for a token.
WaitLimiter(w) ==
    /\ wpc[w] = "ready"
    /\ Action(w) \in LimitedKinds
    /\ ~cancelled
    /\ wpc' = [wpc EXCEPT ![w] = "limiter"]
    /\ UNCHANGED <<queues, closedCount, cancelled, current, pos, counterVars,
                   crashed, historyVars>>

\* The token's timer fires; it may win over a context done meanwhile.
LimiterGrant(w) ==
    /\ wpc[w] = "limiter"
    /\ wpc' = [wpc EXCEPT ![w] = "execute"]
    /\ UNCHANGED <<queues, closedCount, cancelled, current, pos, counterVars,
                   crashed, historyVars>>

\* Wait returns ctx.Err(): the action is not executed, but it is counted.
LimiterError(w) ==
    /\ wpc[w] \in {"ready", "limiter"}
    /\ Action(w) \in LimitedKinds
    /\ cancelled
    /\ Processed(w)
    /\ UNCHANGED <<queues, closedCount, cancelled, msgCount, messagesFailed,
                   crashed, accepted, abandoned>>

\* Execute returned nil: a send is counted as published.
ExecuteOK(w) ==
    /\ wpc[w] = "execute"
    /\ msgCount' = IF Action(w) = "send" THEN msgCount + 1 ELSE msgCount
    /\ Processed(w)
    /\ UNCHANGED <<queues, closedCount, cancelled, messagesFailed, crashed,
                   accepted, abandoned>>

\* Mutant: an error ends the batch.
ExecuteErrorEnds(w) ==
    /\ wpc[w] = "execute"
    /\ messagesFailed' = messagesFailed + 1
    /\ processedCount' = processedCount + 1
    /\ Leave(w)
    /\ UNCHANGED <<queues, closedCount, cancelled, msgCount, crashed, accepted,
                   abandoned>>

\* Execute returned an error: the batch goes on with its next action.
ExecuteError(w) ==
    /\ wpc[w] = "execute"
    /\ messagesFailed' = messagesFailed + 1
    /\ Processed(w)
    /\ UNCHANGED <<queues, closedCount, cancelled, msgCount, crashed, accepted,
                   abandoned>>

\* Mutant: recover is outside of the loop, a panic ends the worker.
ExecutePanicKills(w) ==
    /\ wpc[w] = "execute"
    /\ abandoned' = abandoned + Len(Actions(w)) - pos[w] + 1
    /\ done' = done \cup {current[w]}
    /\ current' = [current EXCEPT ![w] = 0]
    /\ pos' = [pos EXCEPT ![w] = 0]
    /\ wpc' = [wpc EXCEPT ![w] = "exited"]
    /\ UNCHANGED <<queues, closedCount, cancelled, counterVars, crashed,
                   accepted>>

\* Execute panicked: the rest of the batch is lost, the worker is not.
ExecutePanics(w) ==
    /\ wpc[w] = "execute"
    /\ abandoned' = abandoned + Len(Actions(w)) - pos[w] + 1
    /\ Leave(w)
    /\ UNCHANGED <<queues, closedCount, cancelled, counterVars, crashed,
                   accepted>>

ExecuteReturns(w) == ExecuteOK(w) \/ ExecuteError(w) \/ ExecutePanics(w)

\* What a worker does on its own, without waiting for a client.
WorkerStep(w) ==
    \/ Dequeue(w) \/ WorkerExit(w)
    \/ StartUnlimited(w) \/ WaitLimiter(w) \/ LimiterGrant(w) \/ LimiterError(w)

AllExited == \A w \in Workers : wpc[w] = "exited"

\* Nothing can happen any more, and that is no deadlock.
Stopped == (crashed \/ AllExited) /\ UNCHANGED vars

Next ==
    \/ /\ ~crashed
       /\ \/ \E c \in Clients, acts \in Batches : SubmitActions(c, acts)
          \/ Cancel
          \/ CloseQueue
          \/ \E w \in Workers : WorkerStep(w) \/ ExecuteReturns(w)
    \/ Stopped

Spec == Init /\ [][Next]_vars

\* Goroutines are scheduled and a token bucket refills: a worker that can go
\* on does.  Nothing says that a call into a client ever returns.
FairSpec == Spec /\ \A w \in Workers : WF_vars(~crashed /\ WorkerStep(w))

-----------------------------------------------------------------------------
(* The inductive invariant, in named parts.                                *)

Submitted == 1..Len(accepted)
Queued(w) == {queues[w][i] : i \in 1..Len(queues[w])}
Outstanding(w) == Queued(w) \cup (IF Busy(w) THEN {current[w]} ELSE {})

\* Routing: worker w only ever holds batches whose client hashes to w.
Routed ==
    \A w \in Workers : \A n \in Outstanding(w) :
        n \in Submitted /\ queueIndex(accepted[n].client) = w

\* A queue holds its batches in order of acceptance, and they are younger
\* than the one its worker executes.
Ordered ==
    \A w \in Workers :
        /\ \A i, j \in 1..Len(queues[w]) : i < j => queues[w][i] < queues[w][j]
        /\ Busy(w) => \A n \in Queued(w) : current[w] < n

\* No accepted batch is lost or served twice: it is done, or else waiting or
\* in service at the worker of its client.
NothingLost ==
    /\ done \subseteq Submitted
    /\ \A w \in Workers : Outstanding(w) \cap done = {}
    /\ \A n \in Submitted \ done : n \in Outstanding(queueIndex(accepted[n].client))

\* A worker that executes is inside its batch, one that does not has none,
\* and one that exited found its queue closed and empty.
WorkersSane ==
    \A w \in Workers :
        /\ Busy(w) => current[w] \in Submitted /\ pos[w] \in 1..Len(Actions(w))
        /\ ~Busy(w) => current[w] = 0
        /\ wpc[w] = "limiter" => Action(w) \in LimitedKinds
        /\ wpc[w] = "exited" => w < closedCount /\ queues[w] = <<>>
        /\ Len(queues[w]) <= QueueSize

\* FIFO per client: a batch is in service, or has been, only when every
\* older batch of the same client object has been left.  With NothingLost
\* this makes two batches of one client never run at the same time, what the
\* sharding by hash is for ("sequential execution per client").
ServedInOrder ==
    \A n \in done \cup {current[w] : w \in {v \in Workers : Busy(v)}} :
        \A m \in Submitted :
            m < n /\ accepted[m].client = accepted[n].client => m \in done

IInv == TypeOK /\ Routed /\ Ordered /\ NothingLost /\ WorkersSane /\ ServedInOrder

-----------------------------------------------------------------------------
(* Properties.                                                             *)

\* Two workers never execute actions of clients with the same ID at once:
\* the clients' methods are not written for it (Disconnect closes a channel
\* after an unguarded check, Subscribe appends after its own check).
SequentialPerClient ==
    \A v, w \in Workers :
        /\ Busy(v) /\ Busy(w)
        /\ Hash[accepted[current[v]].client] = Hash[accepted[current[w]].client]
        => v = w

\* Stop waits for the workers: when they have all gone, every batch that was
\* accepted before its queue was closed has been served, none is left in a
\* closed channel.
DrainedOnExit == AllExited => done = Submitted

\* The actions, by batch and place, that lie behind the workers: those of the
\* batches they have left, and those before the one each is at.
LeftBehind ==
    (UNION {{n} \X (1..Len(accepted[n].actions)) : n \in done})
        \cup (UNION {{current[w]} \X (1..(pos[w] - 1)) : w \in {v \in Workers : Busy(v)}})

\* ProcessedCount counts each action of each accepted batch exactly once,
\* whether it succeeded, failed or was given up by its limiter, except for
\* those a recovered panic cut off.
ActionsAccounted == processedCount + abandoned = Cardinality(LeftBehind)

\* A slow client holds up its own worker only: as long as the actions its own
\* worker executes return, every accepted batch of a client is served, even
\* when an action of another worker blocks for ever.
Served ==
    \A c \in Clients :
        ([]<>(wpc[queueIndex(c)] # "execute")) =>
            \A n \in 1..MaxAccepted :
                (n \in Submitted /\ accepted[n].client = c)
                    ~> (n \in done \/ crashed)

\* The batch of c that some worker has in hand.
Serving(c) ==
    {current[w] : w \in {v \in Workers :
                           Busy(v) /\ accepted[current[v]].client = c}}

Mail == INSTANCE Mailbox WITH
            Client  <- Clients,
            Payload <- NonEmptyBatches,
            serving <- [c \in Clients |-> Serving(c)]

\* The pool implements one mailbox per client object: however clients share
\* queues and workers, each is served as if it had both for itself.
MailboxSpec == Mail!Spec
=============================================================================
