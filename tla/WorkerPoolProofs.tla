--------------------------- MODULE WorkerPoolProofs ---------------------------
(***************************************************************************)
(* Proofs about WorkerPool for every set of clients, hash, number of       *)
(* workers, queue size and set of batches: the type invariant, the         *)
(* inductive invariant, the safety properties that follow from it and the  *)
(* refinement of Mailbox.                                                  *)
(***************************************************************************)
EXTENDS WorkerPool, FiniteSetTheorems, TLAPS

-----------------------------------------------------------------------------
(* Facts about sequences and about the constants.                          *)

\* Append keeps the elements a queue or the history has, and adds one.
LEMMA AppendFacts ==
    ASSUME NEW S, NEW s \in Seq(S), NEW e \in S
    PROVE  /\ Append(s, e) \in Seq(S)
           /\ Len(Append(s, e)) = Len(s) + 1
           /\ \A i \in 1..Len(s) : Append(s, e)[i] = s[i]
           /\ Append(s, e)[Len(s) + 1] = e
OBVIOUS

\* Receiving from a channel takes its head and moves the rest up.
LEMMA TailFacts ==
    ASSUME NEW S, NEW s \in Seq(S), s # <<>>
    PROVE  /\ Head(s) = s[1]
           /\ Head(s) \in S
           /\ Tail(s) \in Seq(S)
           /\ Len(s) \in Nat \ {0}
           /\ Len(Tail(s)) = Len(s) - 1
           /\ \A i \in 1..Len(Tail(s)) : Tail(s)[i] = s[i + 1]
OBVIOUS

\* Every client object is routed to one of the workers.
LEMMA QueueIndexType == \A c \in Clients : queueIndex(c) \in Workers
BY PoolAssumption DEF queueIndex, Workers

\* Every batch has an action to execute.
LEMMA BatchFacts ==
    \A b \in NonEmptyBatches : b \in Seq(Kinds) /\ Len(b) \in Nat \ {0}
<1> SUFFICES ASSUME NEW b \in NonEmptyBatches
             PROVE  b \in Seq(Kinds) /\ Len(b) \in Nat \ {0}
    OBVIOUS
<1>1. b \in Seq(Kinds) /\ b # <<>>
    BY PoolAssumption DEF NonEmptyBatches
<1> QED
    BY <1>1

\* Every accepted batch has a client, routed to a worker, and actions.
LEMMA AcceptedFacts ==
    ASSUME TypeOK, NEW n \in Submitted
    PROVE  /\ accepted[n] \in ActionWithContext
           /\ accepted[n].client \in Clients
           /\ accepted[n].actions \in NonEmptyBatches
           /\ queueIndex(accepted[n].client) \in Workers
           /\ n \in Nat
<1>1. accepted[n] \in ActionWithContext /\ n \in Nat
    BY DEF TypeOK, Submitted
<1>2. accepted[n].client \in Clients /\ accepted[n].actions \in NonEmptyBatches
    BY <1>1 DEF ActionWithContext
<1> QED
    BY <1>1, <1>2, QueueIndexType

-----------------------------------------------------------------------------
(* Type correctness.                                                       *)

LEMMA TypeInit == Init => TypeOK
<1> SUFFICES ASSUME Init PROVE TypeOK
    OBVIOUS
<1>1. /\ queues \in [Workers -> Seq(Nat)]
      /\ accepted \in Seq(ActionWithContext)
    BY DEF Init
<1>2. 0 \in 0..WorkerCount
    BY PoolAssumption
<1> QED
    BY <1>1, <1>2 DEF Init, TypeOK

LEMMA TypeEnqueue ==
    ASSUME TypeOK, NEW c \in Clients, NEW acts \in NonEmptyBatches, Enqueue(c, acts)
    PROVE  TypeOK'
<1>1. queueIndex(c) \in Workers
    BY QueueIndexType
<1>2. accepted' \in Seq(ActionWithContext)
    <2>1. [client |-> c, actions |-> acts] \in ActionWithContext
        BY DEF ActionWithContext
    <2> QED
        BY <2>1, AppendFacts DEF TypeOK, Enqueue
<1>3. Len(accepted) + 1 \in Nat
    BY DEF TypeOK
<1>4. queues' \in [Workers -> Seq(Nat)]
    BY <1>1, <1>3, AppendFacts DEF TypeOK, Enqueue
<1> QED
    BY <1>2, <1>4 DEF TypeOK, Enqueue, workerVars, counterVars

LEMMA TypeDequeue ==
    ASSUME TypeOK, NEW w \in Workers, Dequeue(w)
    PROVE  TypeOK'
<1>1. /\ Head(queues[w]) \in Nat
      /\ Tail(queues[w]) \in Seq(Nat)
    BY TailFacts DEF TypeOK, Dequeue
<1> QED
    BY <1>1 DEF TypeOK, Dequeue, counterVars, historyVars

LEMMA TypeProcessed ==
    ASSUME TypeOK, NEW w \in Workers, Processed(w)
    PROVE  /\ processedCount' \in Nat
           /\ wpc' \in [Workers -> {"idle", "ready", "limiter", "execute", "exited"}]
           /\ current' \in [Workers -> Nat]
           /\ pos' \in [Workers -> Nat]
           /\ done' \subseteq Nat
<1>1. processedCount' \in Nat
    BY DEF TypeOK, Processed
<1>2. CASE pos[w] = Len(Actions(w))
    <2>1. Leave(w)
        BY <1>2 DEF Processed
    <2> QED
        BY <1>1, <2>1 DEF TypeOK, Leave
<1>3. CASE pos[w] # Len(Actions(w))
    <2>1. /\ pos' = [pos EXCEPT ![w] = @ + 1]
          /\ wpc' = [wpc EXCEPT ![w] = "ready"]
          /\ UNCHANGED <<current, done>>
        BY <1>3 DEF Processed
    <2> QED
        BY <1>1, <2>1 DEF TypeOK
<1> QED
    BY <1>2, <1>3

LEMMA TypeNext == TypeOK /\ WorkersSane /\ [Next]_vars => TypeOK'
<1> SUFFICES ASSUME TypeOK, WorkersSane, [Next]_vars
             PROVE  TypeOK'
    OBVIOUS
<1>1. ASSUME NEW c \in Clients, NEW acts \in Batches, SubmitActions(c, acts)
      PROVE  TypeOK'
    <2>1. CASE Enqueue(c, acts)
        BY <1>1, <2>1, TypeEnqueue DEF SubmitActions, NonEmptyBatches
    <2>2. CASE Drop(c)
        BY <2>2 DEF Drop, TypeOK, vars
    <2>3. CASE SendOnClosed(c)
        BY <2>3 DEF SendOnClosed, TypeOK, workerVars, counterVars, historyVars
    <2> QED
        BY <1>1, <2>1, <2>2, <2>3 DEF SubmitActions
<1>2. CASE Cancel
    BY <1>2 DEF Cancel, TypeOK, workerVars, counterVars, historyVars
<1>3. CASE CloseQueue
    BY <1>3, PoolAssumption DEF CloseQueue, TypeOK, workerVars, counterVars, historyVars
<1>4. ASSUME NEW w \in Workers, WorkerStep(w)
      PROVE  TypeOK'
    <2>1. CASE Dequeue(w)
        BY <2>1, TypeDequeue
    <2>2. CASE WorkerExit(w)
        BY <2>2 DEF WorkerExit, TypeOK, counterVars, historyVars
    <2>3. CASE StartUnlimited(w)
        BY <2>3 DEF StartUnlimited, TypeOK, counterVars, historyVars
    <2>4. CASE WaitLimiter(w)
        BY <2>4 DEF WaitLimiter, TypeOK, counterVars, historyVars
    <2>5. CASE LimiterGrant(w)
        BY <2>5 DEF LimiterGrant, TypeOK, counterVars, historyVars
    <2>6. CASE LimiterError(w)
        <3>1. Processed(w)
            BY <2>6 DEF LimiterError
        <3> QED
            BY <2>6, <3>1, TypeProcessed DEF LimiterError, TypeOK
    <2> QED
        BY <1>4, <2>1, <2>2, <2>3, <2>4, <2>5, <2>6 DEF WorkerStep
<1>5. ASSUME NEW w \in Workers, ExecuteReturns(w)
      PROVE  TypeOK'
    <2>1. CASE ExecuteOK(w)
        <3>1. Processed(w)
            BY <2>1 DEF ExecuteOK
        <3> QED
            BY <2>1, <3>1, TypeProcessed DEF ExecuteOK, TypeOK
    <2>2. CASE ExecuteError(w)
        <3>1. Processed(w)
            BY <2>2 DEF ExecuteError
        <3> QED
            BY <2>2, <3>1, TypeProcessed DEF ExecuteError, TypeOK
    <2>3. CASE ExecutePanics(w)
        <3>1. /\ current[w] \in Submitted
              /\ pos[w] \in 1..Len(Actions(w))
            BY <2>3 DEF ExecutePanics, WorkersSane, Busy
        <3>2. accepted[current[w]].actions \in NonEmptyBatches
            BY <3>1, AcceptedFacts
        <3>3. Len(Actions(w)) \in Nat
            BY <3>2, BatchFacts DEF Actions
        <3>4. abandoned' \in Nat
            BY <2>3, <3>1, <3>3 DEF ExecutePanics, TypeOK
        <3> QED
            BY <2>3, <3>4 DEF ExecutePanics, Leave, TypeOK, counterVars
    <2> QED
        BY <1>5, <2>1, <2>2, <2>3 DEF ExecuteReturns
<1>6. CASE UNCHANGED vars
    BY <1>6 DEF TypeOK, vars
<1> QED
    BY <1>1, <1>2, <1>3, <1>4, <1>5, <1>6 DEF Next, Stopped

-----------------------------------------------------------------------------
(* The inductive invariant.  One lemma per way a step acts on the batches: *)
(* a step that moves none, one that leaves, receives or accepts a batch.   *)

PoolInv == Routed /\ Ordered /\ NothingLost /\ WorkersSane /\ ServedInOrder

\* Where the batches are: in the queue or in the hands of the worker.
LEMMA OutstandingFacts ==
    ASSUME NEW w \in Workers
    PROVE  /\ \A n : n \in Queued(w) <=> \E i \in 1..Len(queues[w]) : n = queues[w][i]
           /\ \A n : n \in Outstanding(w)
                       <=> n \in Queued(w) \/ (Busy(w) /\ n = current[w])
BY DEF Queued, Outstanding

\* A step that moves no batch keeps the invariant if it leaves positions and
\* exits as WorkersSane wants them.
LEMMA QuietInv ==
    ASSUME TypeOK, TypeOK', PoolInv,
           UNCHANGED <<queues, current, accepted, done>>,
           \A v \in Workers : Busy(v)' <=> Busy(v),
           \A v \in Workers : Busy(v) => pos'[v] \in 1..Len(Actions(v)),
           \A v \in Workers : wpc'[v] = "limiter" => Action(v)' \in LimitedKinds,
           \A v \in Workers : wpc'[v] = "exited" => v < closedCount' /\ queues[v] = <<>>
    PROVE  PoolInv'
<1>1. /\ Submitted' = Submitted
      /\ \A v \in Workers : Queued(v)' = Queued(v)
      /\ \A v \in Workers : Outstanding(v)' = Outstanding(v)
      /\ \A v \in Workers : Actions(v)' = Actions(v)
      /\ \A n : queueIndex(accepted[n].client)' = queueIndex(accepted[n].client)
    BY DEF Submitted, Queued, Outstanding, Actions, queueIndex
<1>2. Routed'
    BY <1>1 DEF PoolInv, Routed
<1>3. Ordered'
    BY <1>1 DEF PoolInv, Ordered
<1>4. NothingLost'
    BY <1>1, AcceptedFacts DEF PoolInv, NothingLost
<1>5. WorkersSane'
    BY <1>1 DEF PoolInv, WorkersSane
<1>6. ServedInOrder'
    BY <1>1 DEF PoolInv, ServedInOrder
<1> QED
    BY <1>2, <1>3, <1>4, <1>5, <1>6 DEF PoolInv

\* A worker that leaves its batch.
LEMMA LeaveInv ==
    ASSUME TypeOK, TypeOK', PoolInv, NEW w \in Workers, Busy(w), Leave(w),
           UNCHANGED <<queues, accepted, closedCount>>
    PROVE  PoolInv'
<1>1. /\ Submitted' = Submitted
      /\ \A v \in Workers : Queued(v)' = Queued(v)
      /\ \A n : queueIndex(accepted[n].client)' = queueIndex(accepted[n].client)
    BY DEF Submitted, Queued, queueIndex
<1>2. ~Busy(w)'
    BY DEF Leave, Busy, TypeOK
<1>3. \A v \in Workers \ {w} : /\ Busy(v)' <=> Busy(v)
                               /\ wpc'[v] = wpc[v]
                               /\ current'[v] = current[v]
                               /\ pos'[v] = pos[v]
    BY DEF Leave, Busy, TypeOK
<1>4. /\ Outstanding(w)' = Queued(w)
      /\ \A v \in Workers \ {w} : Outstanding(v)' = Outstanding(v)
    BY <1>1, <1>2, <1>3 DEF Outstanding
<1>5. /\ current[w] \in Outstanding(w)
      /\ current[w] \in Submitted
      /\ current[w] \notin Queued(w)
      /\ \A v \in Workers \ {w} : current[w] \notin Outstanding(v)
    <2>1. current[w] \in Outstanding(w)
        BY DEF Outstanding
    <2>2. current[w] \in Submitted /\ queueIndex(accepted[current[w]].client) = w
        BY <2>1 DEF PoolInv, Routed
    <2>3. \A n \in Queued(w) : current[w] < n
        BY DEF PoolInv, Ordered
    <2>4. current[w] \notin Queued(w)
        BY <2>2, <2>3 DEF Submitted
    <2> QED
        BY <2>1, <2>2, <2>4 DEF PoolInv, Routed
<1>6. done' = done \cup {current[w]}
    BY DEF Leave
<1>7. Routed'
    BY <1>1, <1>4 DEF PoolInv, Routed, Outstanding
<1>8. Ordered'
    BY <1>1, <1>2, <1>3 DEF PoolInv, Ordered
<1>9. NothingLost'
    <2>1. done' \subseteq Submitted'
        BY <1>1, <1>5, <1>6 DEF PoolInv, NothingLost
    <2>2. ASSUME NEW v \in Workers
          PROVE  Outstanding(v)' \cap done' = {}
        BY <1>4, <1>5, <1>6 DEF PoolInv, NothingLost, Outstanding
    <2>3. ASSUME NEW n \in Submitted, n \notin done, n # current[w]
          PROVE  n \in Outstanding(queueIndex(accepted[n].client))'
        <3>1. n \in Outstanding(queueIndex(accepted[n].client))
            BY <2>3 DEF PoolInv, NothingLost
        <3>2. queueIndex(accepted[n].client) \in Workers
            BY AcceptedFacts
        <3>3. CASE queueIndex(accepted[n].client) = w
            BY <1>1, <1>4, <2>3, <3>1, <3>3 DEF Outstanding
        <3>4. CASE queueIndex(accepted[n].client) # w
            BY <1>1, <1>4, <3>1, <3>2, <3>4
        <3> QED
            BY <3>3, <3>4
    <2> QED
        BY <1>1, <1>6, <2>1, <2>2, <2>3 DEF NothingLost
<1>10. WorkersSane'
    <2>1. ASSUME NEW v \in Workers, v # w
          PROVE  Actions(v)' = Actions(v)
        BY <1>3, <2>1 DEF Actions
    <2>2. current'[w] = 0 /\ wpc'[w] = "idle"
        BY DEF Leave, TypeOK
    <2> QED
        BY <1>1, <1>2, <1>3, <2>1, <2>2 DEF PoolInv, WorkersSane, Action
<1>11. ServedInOrder'
    BY <1>1, <1>2, <1>3, <1>6 DEF PoolInv, ServedInOrder
<1> QED
    BY <1>7, <1>8, <1>9, <1>10, <1>11 DEF PoolInv

\* A worker that receives the oldest batch of its queue.
LEMMA DequeueInv ==
    ASSUME TypeOK, TypeOK', PoolInv, NEW w \in Workers, Dequeue(w)
    PROVE  PoolInv'
<1> DEFINE h == Head(queues[w])
<1>1. /\ Submitted' = Submitted
      /\ \A v \in Workers \ {w} : Queued(v)' = Queued(v)
      /\ \A n : queueIndex(accepted[n].client)' = queueIndex(accepted[n].client)
      /\ UNCHANGED <<accepted, done, closedCount>>
    BY DEF Submitted, Queued, queueIndex, Dequeue, TypeOK, historyVars
<1>2. /\ ~Busy(w)
      /\ Busy(w)'
      /\ current'[w] = h
      /\ pos'[w] = 1
      /\ wpc'[w] = "ready"
    BY DEF Dequeue, Busy, TypeOK
<1>3. \A v \in Workers \ {w} : /\ Busy(v)' <=> Busy(v)
                               /\ wpc'[v] = wpc[v]
                               /\ current'[v] = current[v]
                               /\ pos'[v] = pos[v]
                               /\ queues'[v] = queues[v]
    BY DEF Dequeue, Busy, TypeOK
<1>4. /\ queues[w] \in Seq(Nat)
      /\ Len(queues[w]) \in Nat \ {0}
      /\ h = queues[w][1]
      /\ h \in Nat
      /\ queues'[w] = Tail(queues[w])
      /\ Len(queues'[w]) = Len(queues[w]) - 1
      /\ \A i \in 1..Len(queues'[w]) : queues'[w][i] = queues[w][i + 1]
    <2>1. queues[w] \in Seq(Nat) /\ queues[w] # <<>> /\ queues'[w] = Tail(queues[w])
        BY DEF Dequeue, TypeOK
    <2> QED
        BY <2>1, TailFacts
<1>5. Queued(w) = {h} \cup Queued(w)'
    <2>1. ASSUME NEW i \in 1..Len(queues[w])
          PROVE  queues[w][i] = h \/ queues[w][i] \in Queued(w)'
        <3>1. CASE i = 1
            BY <1>4, <3>1
        <3>2. CASE i # 1
            <4>1. i - 1 \in 1..Len(queues'[w]) /\ queues'[w][i - 1] = queues[w][i]
                BY <1>4, <3>2
            <4> QED
                BY <4>1 DEF Queued
        <3> QED
            BY <3>1, <3>2
    <2>2. ASSUME NEW i \in 1..Len(queues'[w])
          PROVE  queues'[w][i] \in Queued(w)
        <3>1. i + 1 \in 1..Len(queues[w]) /\ queues'[w][i] = queues[w][i + 1]
            BY <1>4
        <3> QED
            BY <3>1 DEF Queued
    <2>3. h \in Queued(w)
        BY <1>4 DEF Queued
    <2> QED
        BY <2>1, <2>2, <2>3 DEF Queued
<1>6. \A v \in Workers : Outstanding(v)' = Outstanding(v)
    BY <1>1, <1>2, <1>3, <1>5 DEF Outstanding
<1>7. Routed'
    BY <1>1, <1>6 DEF PoolInv, Routed
<1>8. Ordered'
    <2>1. \A i, j \in 1..Len(queues[w]) : i < j => queues[w][i] < queues[w][j]
        BY DEF PoolInv, Ordered
    <2>2. ASSUME NEW i \in 1..Len(queues'[w]), NEW j \in 1..Len(queues'[w]), i < j
          PROVE  queues'[w][i] < queues'[w][j]
        BY <1>4, <2>1, <2>2
    <2>3. ASSUME NEW n \in Queued(w)'
          PROVE  h < n
        <3>1. PICK i \in 1..Len(queues'[w]) : n = queues'[w][i]
            BY DEF Queued
        <3>2. i + 1 \in 1..Len(queues[w]) /\ n = queues[w][i + 1]
            BY <1>4, <3>1
        <3> QED
            BY <1>4, <2>1, <3>2
    <2>4. ASSUME NEW v \in Workers, v # w
          PROVE  /\ \A i, j \in 1..Len(queues'[v]) : i < j => queues'[v][i] < queues'[v][j]
                 /\ Busy(v)' => \A n \in Queued(v)' : current'[v] < n
        BY <1>1, <1>3, <2>4 DEF PoolInv, Ordered
    <2> QED
        BY <1>2, <2>2, <2>3, <2>4 DEF Ordered
<1>9. NothingLost'
    BY <1>1, <1>6, AcceptedFacts DEF PoolInv, NothingLost
<1>10. h \in Submitted /\ queueIndex(accepted[h].client) = w
    BY <1>5 DEF PoolInv, Routed, Outstanding
<1>11. WorkersSane'
    <2>1. /\ Actions(w)' = accepted[h].actions
          /\ Len(accepted[h].actions) \in Nat \ {0}
        BY <1>1, <1>2, <1>10, AcceptedFacts, BatchFacts DEF Actions
    <2>2. ASSUME NEW v \in Workers, v # w
          PROVE  Actions(v)' = Actions(v) /\ Action(v)' = Action(v)
        BY <1>1, <1>3, <2>2 DEF Actions, Action
    <2>3. Len(queues[w]) <= QueueSize /\ QueueSize \in Nat
        BY PoolAssumption DEF PoolInv, WorkersSane
    <2>4. /\ Busy(w)' => current'[w] \in Submitted' /\ pos'[w] \in 1..Len(Actions(w)')
          /\ ~Busy(w)' => current'[w] = 0
          /\ wpc'[w] # "limiter"
          /\ wpc'[w] # "exited"
          /\ Len(queues'[w]) <= QueueSize
        BY <1>1, <1>2, <1>4, <1>10, <2>1, <2>3
    <2> QED
        BY <1>1, <1>3, <2>2, <2>4 DEF PoolInv, WorkersSane
<1>12. ServedInOrder'
    <2>1. ASSUME NEW m \in Submitted, m < h, accepted[m].client = accepted[h].client
          PROVE  m \in done
        <3>1. SUFFICES ASSUME m \notin done PROVE FALSE
            OBVIOUS
        <3>2. m \in Outstanding(w)
            BY <1>10, <2>1, <3>1 DEF PoolInv, NothingLost
        <3>3. PICK i \in 1..Len(queues[w]) : m = queues[w][i]
            BY <1>2, <3>2 DEF Outstanding, Queued
        <3>4. h <= m
            BY <1>4, <3>3 DEF PoolInv, Ordered
        <3> QED
            BY <1>4, <2>1, <3>4 DEF Submitted
    <2> QED
        BY <1>1, <1>2, <1>3, <2>1 DEF PoolInv, ServedInOrder
<1> QED
    BY <1>7, <1>8, <1>9, <1>11, <1>12 DEF PoolInv

\* A batch that is accepted becomes the youngest of its queue.
LEMMA EnqueueInv ==
    ASSUME TypeOK, TypeOK', PoolInv, NEW c \in Clients,
           NEW acts \in NonEmptyBatches, Enqueue(c, acts)
    PROVE  PoolInv'
<1> DEFINE q == queueIndex(c)
           n == Len(accepted) + 1
<1>1. /\ q \in Workers
      /\ n \in Nat
      /\ queues[q] \in Seq(Nat)
    BY QueueIndexType DEF TypeOK
<1>2. /\ Submitted' = Submitted \cup {n}
      /\ \A m \in Submitted : accepted'[m] = accepted[m]
      /\ accepted'[n].client = c
      /\ \A m \in Submitted : m < n
      /\ Submitted \subseteq Nat
    <2>1. [client |-> c, actions |-> acts] \in ActionWithContext
        BY DEF ActionWithContext
    <2>2. /\ Len(accepted') = Len(accepted) + 1
          /\ \A m \in 1..Len(accepted) : accepted'[m] = accepted[m]
          /\ accepted'[n] = [client |-> c, actions |-> acts]
        BY <2>1, AppendFacts DEF Enqueue, TypeOK
    <2>3. Len(accepted) \in Nat
        BY DEF TypeOK
    <2> QED
        BY <2>2, <2>3 DEF Submitted
<1>3. /\ Len(queues'[q]) = Len(queues[q]) + 1
      /\ Len(queues[q]) \in Nat
      /\ \A i \in 1..Len(queues[q]) : queues'[q][i] = queues[q][i]
      /\ queues'[q][Len(queues[q]) + 1] = n
    <2>1. queues'[q] = Append(queues[q], n)
        BY <1>1 DEF Enqueue, TypeOK
    <2> QED
        BY <1>1, <2>1, AppendFacts
<1>4. \A v \in Workers \ {q} : queues'[v] = queues[v]
    BY <1>1 DEF Enqueue, TypeOK
<1>5. /\ UNCHANGED <<wpc, current, pos, done, closedCount>>
      /\ \A v \in Workers : Busy(v)' <=> Busy(v)
    BY DEF Enqueue, workerVars, Busy
<1>6. /\ Queued(q)' = Queued(q) \cup {n}
      /\ \A v \in Workers \ {q} : Queued(v)' = Queued(v)
    BY <1>3, <1>4 DEF Queued
<1>7. /\ Outstanding(q)' = Outstanding(q) \cup {n}
      /\ \A v \in Workers \ {q} : Outstanding(v)' = Outstanding(v)
    BY <1>1, <1>5, <1>6 DEF Outstanding
<1>8. \A v \in Workers : Outstanding(v) \subseteq Submitted
    BY DEF PoolInv, Routed
<1>9. Routed'
    <2>1. ASSUME NEW v \in Workers, NEW m \in Outstanding(v)'
          PROVE  m \in Submitted' /\ queueIndex(accepted'[m].client) = v
        BY <1>2, <1>7, <2>1 DEF PoolInv, Routed
    <2> QED
        BY <2>1 DEF Routed, queueIndex
<1>10. Ordered'
    <2>1. ASSUME NEW i \in 1..Len(queues'[q]), NEW j \in 1..Len(queues'[q]), i < j
          PROVE  queues'[q][i] < queues'[q][j]
        <3>1. i \in 1..Len(queues[q]) /\ queues'[q][i] = queues[q][i]
            BY <1>3, <2>1
        <3>2. CASE j \in 1..Len(queues[q])
            BY <1>1, <1>3, <2>1, <3>1, <3>2 DEF PoolInv, Ordered
        <3>3. CASE j = Len(queues[q]) + 1
            <4>1. queues[q][i] \in Submitted
                BY <1>1, <1>8, <3>1 DEF Outstanding, Queued
            <4> QED
                BY <1>2, <1>3, <3>1, <3>3, <4>1
        <3> QED
            BY <1>3, <3>2, <3>3
    <2>2. ASSUME NEW v \in Workers, Busy(v), NEW m \in Queued(v)'
          PROVE  current[v] < m
        <3>1. CASE v = q /\ m = n
            BY <1>2, <2>2, <3>1 DEF PoolInv, WorkersSane
        <3>2. CASE ~(v = q /\ m = n)
            BY <1>6, <2>2, <3>2 DEF PoolInv, Ordered
        <3> QED
            BY <3>1, <3>2
    <2>3. ASSUME NEW v \in Workers, v # q
          PROVE  \A i, j \in 1..Len(queues'[v]) : i < j => queues'[v][i] < queues'[v][j]
        BY <1>4, <2>3 DEF PoolInv, Ordered
    <2> QED
        BY <1>5, <2>1, <2>2, <2>3 DEF Ordered
<1>11. NothingLost'
    <2>1. done' \subseteq Submitted'
        BY <1>2, <1>5 DEF PoolInv, NothingLost
    <2>2. n \notin done
        BY <1>2 DEF PoolInv, NothingLost
    <2>3. ASSUME NEW v \in Workers
          PROVE  Outstanding(v)' \cap done' = {}
        BY <1>5, <1>7, <2>2 DEF PoolInv, NothingLost
    <2>4. ASSUME NEW m \in Submitted', m \notin done
          PROVE  \E v \in Workers : /\ v = queueIndex(accepted'[m].client)
                                    /\ m \in Outstanding(v)'
        <3>1. CASE m = n
            BY <1>1, <1>2, <1>7, <3>1
        <3>2. CASE m # n
            <4>1. m \in Submitted /\ accepted'[m] = accepted[m]
                BY <1>2, <2>4, <3>2
            <4>2. m \in Outstanding(queueIndex(accepted[m].client))
                BY <2>4, <4>1 DEF PoolInv, NothingLost
            <4>3. queueIndex(accepted[m].client) \in Workers
                BY <4>1, AcceptedFacts
            <4> QED
                BY <1>7, <4>1, <4>2, <4>3
        <3> QED
            BY <3>1, <3>2
    <2>5. ASSUME NEW m \in Submitted', m \notin done
          PROVE  (m \in Outstanding(queueIndex(accepted[m].client)))'
        <3>1. PICK v \in Workers : /\ v = queueIndex(accepted'[m].client)
                                   /\ m \in Outstanding(v)'
            BY <2>4, <2>5
        <3>2. v = queueIndex(accepted[m].client)'
            BY <3>1 DEF queueIndex
        <3> QED
            BY <3>1, <3>2
    <2> QED
        BY <1>5, <2>1, <2>3, <2>5 DEF NothingLost
<1>12. WorkersSane'
    <2>1. ASSUME NEW v \in Workers, Busy(v)
          PROVE  Actions(v)' = Actions(v) /\ Action(v)' = Action(v)
        BY <1>2, <1>5, <2>1 DEF PoolInv, WorkersSane, Actions, Action
    <2>2. Len(queues'[q]) <= QueueSize
        BY <1>3, PoolAssumption DEF Enqueue
    <2>3. ASSUME NEW v \in Workers, wpc[v] = "exited"
          PROVE  v < closedCount /\ queues'[v] = <<>>
        <3>1. v < closedCount
            BY <2>3 DEF PoolInv, WorkersSane
        <3>2. v # q
            BY <1>1, <3>1, PoolAssumption DEF Enqueue, TypeOK, Workers
        <3> QED
            BY <1>4, <2>3, <3>1, <3>2 DEF PoolInv, WorkersSane
    <2>4. ASSUME NEW v \in Workers
          PROVE  Len(queues'[v]) <= QueueSize
        BY <1>4, <2>2 DEF PoolInv, WorkersSane
    <2>5. ASSUME NEW v \in Workers, wpc[v] = "limiter"
          PROVE  Action(v)' \in LimitedKinds
        BY <2>1, <2>5 DEF PoolInv, WorkersSane, Busy
    <2> QED
        BY <1>2, <1>5, <2>1, <2>3, <2>4, <2>5 DEF PoolInv, WorkersSane
<1>13. ServedInOrder'
    <2>1. ASSUME NEW k \in done \cup {current[w] : w \in {v \in Workers : Busy(v)}}
          PROVE  k \in Submitted
        BY DEF PoolInv, NothingLost, WorkersSane
    <2>2. ASSUME NEW k \in done \cup {current[w] : w \in {v \in Workers : Busy(v)}},
                 NEW m \in Submitted', m < k, accepted'[m].client = accepted'[k].client
          PROVE  m \in done
        <3>1. m \in Submitted
            <4>1. k \in Nat /\ k < n
                BY <1>2, <2>1
            <4>2. m # n
                BY <1>1, <2>2, <4>1
            <4> QED
                BY <1>2, <4>2
        <3> QED
            BY <1>2, <2>1, <2>2, <3>1 DEF PoolInv, ServedInOrder
    <2> QED
        BY <1>5, <2>2 DEF ServedInOrder
<1> QED
    BY <1>9, <1>10, <1>11, <1>12, <1>13 DEF PoolInv

\* executeAction has returned: the worker goes on or leaves its batch.
LEMMA ProcessedInv ==
    ASSUME TypeOK, TypeOK', PoolInv, NEW w \in Workers, Busy(w), Processed(w),
           UNCHANGED <<queues, accepted, closedCount>>
    PROVE  PoolInv'
<1>1. CASE pos[w] = Len(Actions(w))
    <2>1. Leave(w)
        BY <1>1 DEF Processed
    <2> QED
        BY <2>1, LeaveInv
<1>2. CASE pos[w] # Len(Actions(w))
    <2>1. /\ pos' = [pos EXCEPT ![w] = @ + 1]
          /\ wpc' = [wpc EXCEPT ![w] = "ready"]
          /\ UNCHANGED <<current, done>>
        BY <1>2 DEF Processed
    <2>2. \A v \in Workers : Busy(v)' <=> Busy(v)
        BY <2>1 DEF Busy, TypeOK
    <2>3. ASSUME NEW v \in Workers, Busy(v)
          PROVE  pos'[v] \in 1..Len(Actions(v))
        <3>1. /\ current[v] \in Submitted
              /\ pos[v] \in 1..Len(Actions(v))
            BY <2>3 DEF PoolInv, WorkersSane
        <3>2. Len(Actions(v)) \in Nat
            BY <3>1, AcceptedFacts, BatchFacts DEF Actions
        <3> QED
            BY <1>2, <2>1, <3>1, <3>2 DEF TypeOK
    <2>4. ASSUME NEW v \in Workers, wpc'[v] = "limiter"
          PROVE  Action(v)' \in LimitedKinds
        <3>1. v # w /\ wpc[v] = "limiter" /\ pos'[v] = pos[v]
            BY <2>1, <2>4 DEF TypeOK
        <3>2. Action(v)' = Action(v)
            BY <2>1, <3>1 DEF Action, Actions
        <3> QED
            BY <3>1, <3>2 DEF PoolInv, WorkersSane
    <2>5. ASSUME NEW v \in Workers, wpc'[v] = "exited"
          PROVE  v < closedCount' /\ queues[v] = <<>>
        BY <2>1, <2>5 DEF PoolInv, WorkersSane, TypeOK
    <2> QED
        BY <2>1, <2>2, <2>3, <2>4, <2>5, QuietInv
<1> QED
    BY <1>1, <1>2

\* Every step of the pool keeps the invariant.
LEMMA PoolInvNext == TypeOK /\ TypeOK' /\ PoolInv /\ [Next]_vars => PoolInv'
<1> SUFFICES ASSUME TypeOK, TypeOK', PoolInv, [Next]_vars
             PROVE  PoolInv'
    OBVIOUS
<1>q. ASSUME UNCHANGED <<queues, current, pos, accepted, done, wpc>>,
             closedCount' = closedCount \/ closedCount' = closedCount + 1
      PROVE  PoolInv'
    <2>1. \A v \in Workers : Busy(v)' <=> Busy(v)
        BY <1>q DEF Busy
    <2>2. \A v \in Workers : Busy(v) => pos'[v] \in 1..Len(Actions(v))
        BY <1>q DEF PoolInv, WorkersSane
    <2>3. \A v \in Workers : wpc'[v] = "limiter" => Action(v)' \in LimitedKinds
        BY <1>q DEF PoolInv, WorkersSane, Action, Actions
    <2>4. \A v \in Workers : wpc'[v] = "exited" => v < closedCount' /\ queues[v] = <<>>
        BY <1>q DEF PoolInv, WorkersSane, TypeOK, Workers
    <2> QED
        BY <1>q, <2>1, <2>2, <2>3, <2>4, QuietInv
\* A worker that changes its place only, on an action that allows the place.
<1>p. ASSUME NEW w \in Workers, NEW place,
             UNCHANGED <<queues, current, pos, accepted, done, closedCount>>,
             wpc' = [wpc EXCEPT ![w] = place],
             \/ Busy(w) /\ place \in {"limiter", "execute"}
             \/ ~Busy(w) /\ place = "exited",
             place = "limiter" => Action(w) \in LimitedKinds,
             place = "exited" => w < closedCount /\ queues[w] = <<>>
      PROVE  PoolInv'
    <2>1. \A v \in Workers : wpc'[v] = IF v = w THEN place ELSE wpc[v]
        BY <1>p DEF TypeOK
    <2>2. \A v \in Workers : Busy(v)' <=> Busy(v)
        BY <1>p, <2>1 DEF Busy
    <2>3. \A v \in Workers : Busy(v) => pos'[v] \in 1..Len(Actions(v))
        BY <1>p DEF PoolInv, WorkersSane
    <2>4. \A v \in Workers : wpc'[v] = "limiter" => Action(v)' \in LimitedKinds
        BY <1>p, <2>1 DEF PoolInv, WorkersSane, Action, Actions
    <2>5. \A v \in Workers : wpc'[v] = "exited" => v < closedCount' /\ queues[v] = <<>>
        BY <1>p, <2>1 DEF PoolInv, WorkersSane
    <2> QED
        BY <1>p, <2>2, <2>3, <2>4, <2>5, QuietInv
<1>1. ASSUME NEW c \in Clients, NEW acts \in Batches, SubmitActions(c, acts)
      PROVE  PoolInv'
    <2>1. CASE Enqueue(c, acts)
        BY <1>1, <2>1, EnqueueInv DEF SubmitActions, NonEmptyBatches
    <2>2. CASE Drop(c)
        BY <1>q, <2>2 DEF Drop, vars
    <2>3. CASE SendOnClosed(c)
        BY <1>q, <2>3 DEF SendOnClosed, workerVars, historyVars
    <2> QED
        BY <1>1, <2>1, <2>2, <2>3 DEF SubmitActions
<1>2. CASE Cancel
    BY <1>q, <1>2 DEF Cancel, workerVars, historyVars
<1>3. CASE CloseQueue
    BY <1>q, <1>3 DEF CloseQueue, workerVars, historyVars
<1>4. ASSUME NEW w \in Workers, WorkerStep(w)
      PROVE  PoolInv'
    <2>1. CASE Dequeue(w)
        BY <2>1, DequeueInv
    <2>2. CASE WorkerExit(w)
        BY <1>p, <2>2 DEF WorkerExit, Busy, historyVars
    <2>3. CASE StartUnlimited(w)
        <3>1. /\ UNCHANGED <<queues, current, pos, accepted, done, closedCount>>
              /\ wpc' = [wpc EXCEPT ![w] = "execute"]
              /\ Busy(w)
            BY <2>3 DEF StartUnlimited, Busy, historyVars
        <3> QED
            BY <1>p, <2>3, <3>1
    <2>4. CASE WaitLimiter(w)
        <3>1. /\ UNCHANGED <<queues, current, pos, accepted, done, closedCount>>
              /\ wpc' = [wpc EXCEPT ![w] = "limiter"]
              /\ Busy(w)
            BY <2>4 DEF WaitLimiter, Busy, historyVars
        <3> QED
            BY <1>p, <2>4, <3>1 DEF WaitLimiter
    <2>5. CASE LimiterGrant(w)
        <3>1. /\ UNCHANGED <<queues, current, pos, accepted, done, closedCount>>
              /\ wpc' = [wpc EXCEPT ![w] = "execute"]
              /\ Busy(w)
            BY <2>5 DEF LimiterGrant, Busy, historyVars
        <3> QED
            BY <1>p, <2>5, <3>1
    <2>6. CASE LimiterError(w)
        BY <2>6, ProcessedInv DEF LimiterError, Busy
    <2> QED
        BY <1>4, <2>1, <2>2, <2>3, <2>4, <2>5, <2>6 DEF WorkerStep
<1>5. ASSUME NEW w \in Workers, ExecuteReturns(w)
      PROVE  PoolInv'
    <2>1. CASE ExecuteOK(w)
        BY <2>1, ProcessedInv DEF ExecuteOK, Busy
    <2>2. CASE ExecuteError(w)
        BY <2>2, ProcessedInv DEF ExecuteError, Busy
    <2>3. CASE ExecutePanics(w)
        BY <2>3, LeaveInv DEF ExecutePanics, Busy
    <2> QED
        BY <1>5, <2>1, <2>2, <2>3 DEF ExecuteReturns
<1>6. CASE UNCHANGED vars
    BY <1>q, <1>6 DEF vars
<1> QED
    BY <1>1, <1>2, <1>3, <1>4, <1>5, <1>6 DEF Next, Stopped

LEMMA PoolInvInit == Init => PoolInv
<1> SUFFICES ASSUME Init PROVE PoolInv
    OBVIOUS
<1>1. /\ Submitted = {}
      /\ \A w \in Workers : queues[w] = <<>> /\ Len(queues[w]) = 0
      /\ \A w \in Workers : ~Busy(w) /\ current[w] = 0 /\ wpc[w] = "idle"
      /\ done = {}
    BY DEF Init, Submitted, Busy
<1>2. \A w \in Workers : Outstanding(w) = {} /\ Queued(w) = {}
    BY <1>1 DEF Outstanding, Queued
<1>3. Routed /\ NothingLost
    BY <1>1, <1>2 DEF Routed, NothingLost
<1>4. Ordered
    BY <1>1, <1>2 DEF Ordered
<1>5. WorkersSane
    BY <1>1, PoolAssumption DEF WorkersSane
<1>6. ServedInOrder
    BY <1>1 DEF ServedInOrder
<1> QED
    BY <1>3, <1>4, <1>5, <1>6 DEF PoolInv

-----------------------------------------------------------------------------
(* The theorems.                                                           *)

\* The inductive invariant of the pool holds in every behaviour, for every
\* number of clients, workers and batches and every hash: routing, order,
\* no batch lost and FIFO service of each client.
THEOREM Invariance == Spec => []IInv
<1>1. Init => IInv
    BY TypeInit, PoolInvInit DEF IInv, PoolInv
<1>2. IInv /\ [Next]_vars => IInv'
    BY TypeNext, PoolInvNext DEF IInv, PoolInv
<1> QED
    BY <1>1, <1>2, PTL DEF Spec

\* Every variable keeps its type.
THEOREM TypeCorrect == Spec => []TypeOK
<1>1. IInv => TypeOK
    BY DEF IInv
<1> QED
    BY <1>1, Invariance, PTL

\* Two actions of clients with one ID never overlap, whatever the pool size.
THEOREM Sequential == Spec => []SequentialPerClient
<1>1. IInv => SequentialPerClient
    <2> SUFFICES ASSUME IInv, NEW v \in Workers, NEW w \in Workers, Busy(v), Busy(w),
                        Hash[accepted[current[v]].client] = Hash[accepted[current[w]].client]
                 PROVE  v = w
        BY DEF SequentialPerClient
    <2>1. /\ queueIndex(accepted[current[v]].client) = v
          /\ queueIndex(accepted[current[w]].client) = w
        BY DEF IInv, Routed, Outstanding
    <2> QED
        BY <2>1 DEF queueIndex
<1> QED
    BY <1>1, Invariance, PTL

\* Each client object is served first in, first out.
THEOREM Fifo == Spec => []ServedInOrder
<1>1. IInv => ServedInOrder
    BY DEF IInv
<1> QED
    BY <1>1, Invariance, PTL

\* When wg.Wait lets Stop continue, every accepted batch has been served.
THEOREM Drained == Spec => []DrainedOnExit
<1>1. IInv => DrainedOnExit
    <2> SUFFICES ASSUME IInv, AllExited
                 PROVE  done = Submitted
        BY DEF DrainedOnExit
    <2>1. \A w \in Workers : ~Busy(w) /\ queues[w] = <<>>
        BY DEF AllExited, Busy, IInv, WorkersSane
    <2>2. \A w \in Workers : Outstanding(w) = {}
        BY <2>1 DEF Outstanding, Queued
    <2>3. \A n \in Submitted : queueIndex(accepted[n].client) \in Workers
        BY AcceptedFacts DEF IInv
    <2> QED
        BY <2>2, <2>3 DEF IInv, NothingLost
<1> QED
    BY <1>1, Invariance, PTL

-----------------------------------------------------------------------------
(* The count of the actions.  The invariant also says that there are       *)
(* finitely many, without which Cardinality says nothing.                  *)

AccountInv ==
    /\ IsFiniteSet(LeftBehind)
    /\ Cardinality(LeftBehind) = processedCount + abandoned

\* Which actions lie behind the workers.
Behind(a) ==
    \/ \E n \in done : \E k \in 1..Len(accepted[n].actions) : a = <<n, k>>
    \/ \E w \in Workers : Busy(w) /\ \E k \in 1..(pos[w] - 1) : a = <<current[w], k>>

LEMMA BehindFacts == \A a : a \in LeftBehind <=> Behind(a)
<1> TAKE a
<1>1. ASSUME NEW n, NEW S
      PROVE  a \in {n} \X S <=> \E k \in S : a = <<n, k>>
    OBVIOUS
<1>2. a \in UNION {{n} \X (1..Len(accepted[n].actions)) : n \in done}
          <=> \E n \in done : \E k \in 1..Len(accepted[n].actions) : a = <<n, k>>
  <2>1. ASSUME NEW n
        PROVE  a \in {n} \X (1..Len(accepted[n].actions))
                   <=> \E k \in 1..Len(accepted[n].actions) : a = <<n, k>>
      BY <1>1
  <2> QED
      BY <2>1
<1>3. a \in UNION {{current[w]} \X (1..(pos[w] - 1)) : w \in {v \in Workers : Busy(v)}}
          <=> \E w \in Workers : Busy(w) /\ \E k \in 1..(pos[w] - 1) : a = <<current[w], k>>
  <2>1. ASSUME NEW w
        PROVE  a \in {current[w]} \X (1..(pos[w] - 1))
                   <=> \E k \in 1..(pos[w] - 1) : a = <<current[w], k>>
      BY <1>1
  <2> QED
      BY <2>1
<1>4. a \in LeftBehind
          <=> \/ a \in UNION {{n} \X (1..Len(accepted[n].actions)) : n \in done}
              \/ a \in UNION {{current[w]} \X (1..(pos[w] - 1)) : w \in {v \in Workers : Busy(v)}}
    BY DEF LeftBehind
<1> QED
    BY <1>2, <1>3, <1>4 DEF Behind

LEMMA BehindFactsAfter == \A a : a \in LeftBehind' <=> Behind(a)'
<1>1. (\A a : a \in LeftBehind <=> Behind(a))'
    BY BehindFacts, PTL
<1> QED
    BY <1>1

\* No two workers have one batch in hand, and none has one that is done.
LEMMA InHandOnce ==
    ASSUME TypeOK, PoolInv, NEW w \in Workers, Busy(w)
    PROVE  /\ current[w] \notin done
           /\ \A v \in Workers : Busy(v) /\ current[v] = current[w] => v = w
BY DEF PoolInv, NothingLost, Routed, Outstanding

\* A step that moves no worker, however many batches it accepts.
LEMMA AccountSame ==
    ASSUME TypeOK, PoolInv, AccountInv,
           \A n \in Submitted : accepted'[n] = accepted[n],
           UNCHANGED <<processedCount, abandoned, done>>,
           \A v \in Workers : /\ Busy(v)' <=> Busy(v)
                              /\ Busy(v) => current'[v] = current[v] /\ pos'[v] = pos[v]
    PROVE  AccountInv'
<1>1. \A n \in done : accepted'[n] = accepted[n]
    BY DEF PoolInv, NothingLost
<1>2. \A a : a \in LeftBehind' <=>
          \/ \E n \in done' : \E k \in 1..Len(accepted'[n].actions) : a = <<n, k>>
          \/ \E w \in Workers : Busy(w)' /\ \E k \in 1..(pos'[w] - 1) : a = <<current'[w], k>>
    BY BehindFactsAfter DEF Behind
<1>3. LeftBehind' = LeftBehind
  <2>1. \A a : a \in LeftBehind' <=> a \in LeftBehind
      BY <1>1, <1>2, BehindFacts DEF Behind
  <2> QED
      BY <2>1
<1> QED
    BY <1>3 DEF AccountInv

\* What lies behind when worker w alone has gone on from its place.
LEMMA GoneOn ==
    ASSUME TypeOK, TypeOK', PoolInv, NEW w \in Workers, Busy(w), accepted' = accepted,
           \A v \in Workers \ {w} : /\ Busy(v)' <=> Busy(v)
                                    /\ current'[v] = current[v] /\ pos'[v] = pos[v],
           NEW last \in Int, pos[w] - 1 <= last,
           \/ Leave(w) /\ last = Len(Actions(w))
           \/ UNCHANGED <<current, done>> /\ Busy(w)' /\ pos'[w] = last + 1
    PROVE  LeftBehind' = LeftBehind \cup ({current[w]} \X (pos[w]..last))
<1> DEFINE c == current[w]
           p == pos[w]
<1>0. /\ \A v \in Workers : Busy(v)' <=> wpc'[v] \in {"ready", "limiter", "execute"}
      /\ p \in Nat \ {0}
  <2>1. p \in 1..Len(Actions(w)) /\ p \in Nat
      BY DEF PoolInv, WorkersSane, TypeOK
  <2> QED
      BY <2>1 DEF Busy
<1>1. \A a : a \in LeftBehind' <=>
          \/ \E n \in done' : \E k \in 1..Len(accepted[n].actions) : a = <<n, k>>
          \/ \E v \in Workers : Busy(v)' /\ \E k \in 1..(pos'[v] - 1) : a = <<current'[v], k>>
    BY BehindFactsAfter DEF Behind
<1>2. \A a : a \in {c} \X (p..last) <=> \E k \in p..last : a = <<c, k>>
    OBVIOUS
<1>3. \A k : k \in 1..last <=> k \in 1..(p - 1) \/ k \in p..last
    BY <1>0
<1>4. CASE Leave(w) /\ last = Len(Actions(w))
  <2>1. ~Busy(w)' /\ done' = done \cup {c}
      BY <1>0, <1>4 DEF Leave, TypeOK
  <2>2. 1..Len(accepted[c].actions) = 1..last
      BY <1>4 DEF Actions
  <2> HIDE DEF c, p
  <2>3. \A a : a \in LeftBehind' <=>
            \/ \E n \in done : \E k \in 1..Len(accepted[n].actions) : a = <<n, k>>
            \/ \E k \in 1..last : a = <<c, k>>
            \/ \E v \in Workers \ {w} : Busy(v) /\ \E k \in 1..(pos[v] - 1) : a = <<current[v], k>>
      BY <1>1, <2>1, <2>2
  <2>4. \A a : a \in LeftBehind <=>
            \/ \E n \in done : \E k \in 1..Len(accepted[n].actions) : a = <<n, k>>
            \/ \E k \in 1..(p - 1) : a = <<c, k>>
            \/ \E v \in Workers \ {w} : Busy(v) /\ \E k \in 1..(pos[v] - 1) : a = <<current[v], k>>
      BY BehindFacts DEF Behind, c, p
  <2>5. \A a : a \in LeftBehind' <=> a \in LeftBehind \/ a \in {c} \X (p..last)
      BY <1>2, <1>3, <2>3, <2>4
  <2> QED
      BY <2>5 DEF c, p
<1>5. CASE UNCHANGED <<current, done>> /\ Busy(w)' /\ pos'[w] = last + 1
  <2>1. 1..(pos'[w] - 1) = 1..last
      BY <1>5
  <2> HIDE DEF c, p
  <2>2. \A a : a \in LeftBehind' <=>
            \/ \E n \in done : \E k \in 1..Len(accepted[n].actions) : a = <<n, k>>
            \/ \E k \in 1..last : a = <<c, k>>
            \/ \E v \in Workers \ {w} : Busy(v) /\ \E k \in 1..(pos[v] - 1) : a = <<current[v], k>>
      BY <1>1, <1>5, <2>1 DEF c
  <2>3. \A a : a \in LeftBehind <=>
            \/ \E n \in done : \E k \in 1..Len(accepted[n].actions) : a = <<n, k>>
            \/ \E k \in 1..(p - 1) : a = <<c, k>>
            \/ \E v \in Workers \ {w} : Busy(v) /\ \E k \in 1..(pos[v] - 1) : a = <<current[v], k>>
      BY BehindFacts DEF Behind, c, p
  <2>4. \A a : a \in LeftBehind' <=> a \in LeftBehind \/ a \in {c} \X (p..last)
      BY <1>2, <1>3, <2>2, <2>3
  <2> QED
      BY <2>4 DEF c, p
<1> QED
    BY <1>4, <1>5

LEMMA ColumnCount ==
    ASSUME NEW c, NEW a \in Int, NEW b \in Int, a - 1 <= b
    PROVE  IsFiniteSet({c} \X (a..b)) /\ Cardinality({c} \X (a..b)) = b - a + 1
<1>1. /\ IsFiniteSet(a..b)
      /\ Cardinality(a..b) = IF a > b THEN 0 ELSE b - a + 1
    BY FS_Interval
<1>2. IsFiniteSet({c}) /\ Cardinality({c}) = 1
    BY FS_Singleton
<1>3. IsFiniteSet({c} \X (a..b)) /\ Cardinality({c} \X (a..b)) = 1 * Cardinality(a..b)
    BY <1>1, <1>2, FS_Product
<1> QED
    BY <1>1, <1>3

\* Each of the actions the worker has gone on over is new among those.
LEMMA OverIsNew ==
    ASSUME TypeOK, PoolInv, NEW w \in Workers, Busy(w), NEW last
    PROVE  LeftBehind \cap ({current[w]} \X (pos[w]..last)) = {}
<1> SUFFICES ASSUME NEW k \in pos[w]..last, <<current[w], k>> \in LeftBehind
             PROVE  FALSE
    OBVIOUS
<1>1. current[w] \notin done /\ pos[w] \in Nat
    BY InHandOnce DEF TypeOK
<1>2. PICK v \in Workers : Busy(v) /\ \E j \in 1..(pos[v] - 1) : <<current[w], k>> = <<current[v], j>>
    BY <1>1, BehindFacts DEF Behind
<1>3. v = w
    BY <1>2, InHandOnce
<1> QED
    BY <1>1, <1>2, <1>3

LEMMA GoneOnCounted ==
    ASSUME TypeOK, TypeOK', PoolInv, AccountInv, NEW w \in Workers, Busy(w), accepted' = accepted,
           \A v \in Workers \ {w} : /\ Busy(v)' <=> Busy(v)
                                    /\ current'[v] = current[v] /\ pos'[v] = pos[v],
           NEW last \in Int, pos[w] - 1 <= last,
           \/ Leave(w) /\ last = Len(Actions(w))
           \/ UNCHANGED <<current, done>> /\ Busy(w)' /\ pos'[w] = last + 1
    PROVE  /\ IsFiniteSet(LeftBehind')
           /\ Cardinality(LeftBehind') = processedCount + abandoned + last - pos[w] + 1
<1>1. pos[w] \in Int /\ processedCount \in Nat /\ abandoned \in Nat
    BY DEF TypeOK
<1>2. PICK over : over = {current[w]} \X (pos[w]..last)
    OBVIOUS
<1>3. IsFiniteSet(over) /\ Cardinality(over) = last - pos[w] + 1
    BY <1>1, <1>2, ColumnCount
<1>4. Cardinality(LeftBehind \cap over) = 0
    BY <1>2, OverIsNew, FS_EmptySet
<1>5. LeftBehind' = LeftBehind \cup over
    BY <1>2, GoneOn
<1>6. IsFiniteSet(LeftBehind) /\ Cardinality(LeftBehind) = processedCount + abandoned
    BY DEF AccountInv
<1>7. /\ IsFiniteSet(LeftBehind \cup over)
      /\ Cardinality(LeftBehind \cup over) = Cardinality(LeftBehind) + Cardinality(over) - Cardinality(LeftBehind \cap over)
    BY <1>3, <1>6, FS_Union
<1> QED
    BY <1>1, <1>3, <1>4, <1>5, <1>6, <1>7

\* Processed goes on over the action the worker is at.
LEMMA ProcessedAccount ==
    ASSUME TypeOK, TypeOK', PoolInv, AccountInv, NEW w \in Workers, Busy(w), Processed(w),
           UNCHANGED <<accepted, abandoned>>
    PROVE  AccountInv'
<1>1. pos[w] \in Nat \ {0} /\ pos[w] - 1 <= pos[w] /\ processedCount \in Nat /\ abandoned \in Nat
    BY DEF PoolInv, WorkersSane, TypeOK
<1>2. \A v \in Workers \ {w} : /\ Busy(v)' <=> Busy(v)
                               /\ current'[v] = current[v] /\ pos'[v] = pos[v]
    BY DEF Processed, Leave, Busy, TypeOK
<1>3. \/ Leave(w) /\ pos[w] = Len(Actions(w))
      \/ UNCHANGED <<current, done>> /\ Busy(w)' /\ pos'[w] = pos[w] + 1
    BY DEF Processed, Busy, TypeOK
<1>5. /\ IsFiniteSet(LeftBehind')
      /\ Cardinality(LeftBehind') = processedCount + abandoned + pos[w] - pos[w] + 1
    BY <1>1, <1>2, <1>3, GoneOnCounted
<1> QED
    BY <1>1, <1>5 DEF AccountInv, Processed

\* A panic goes on over all that is left of the batch.
LEMMA PanicAccount ==
    ASSUME TypeOK, TypeOK', PoolInv, AccountInv, NEW w \in Workers, ExecutePanics(w)
    PROVE  AccountInv'
<1> DEFINE last == Len(Actions(w))
<1>1. Busy(w) /\ Leave(w) /\ UNCHANGED <<accepted, processedCount>>
    BY DEF ExecutePanics, Busy, counterVars
<1>2. /\ last \in Nat /\ pos[w] \in Nat \ {0} /\ pos[w] - 1 <= last
      /\ processedCount \in Nat /\ abandoned \in Nat
  <2>1. current[w] \in Submitted /\ pos[w] \in 1..last
      BY <1>1 DEF PoolInv, WorkersSane
  <2>2. last \in Nat
      BY <2>1, AcceptedFacts, BatchFacts DEF Actions
  <2> QED
      BY <2>1, <2>2 DEF TypeOK
<1>3. \A v \in Workers \ {w} : /\ Busy(v)' <=> Busy(v)
                               /\ current'[v] = current[v] /\ pos'[v] = pos[v]
    BY <1>1 DEF Leave, Busy, TypeOK
<1>5. /\ IsFiniteSet(LeftBehind')
      /\ Cardinality(LeftBehind') = processedCount + abandoned + last - pos[w] + 1
    BY <1>1, <1>2, <1>3, GoneOnCounted
<1>6. abandoned' = abandoned + last - pos[w] + 1
    BY DEF ExecutePanics
<1> QED
    BY <1>1, <1>2, <1>5, <1>6 DEF AccountInv

LEMMA AccountNext == IInv /\ IInv' /\ AccountInv /\ [Next]_vars => AccountInv'
<1> SUFFICES ASSUME TypeOK, TypeOK', PoolInv, AccountInv, [Next]_vars
             PROVE  AccountInv'
    BY DEF IInv, PoolInv
<1>q. ASSUME UNCHANGED <<processedCount, abandoned, accepted, done, current, pos>>,
             \A v \in Workers : Busy(v)' <=> Busy(v)
      PROVE  AccountInv'
    BY <1>q, AccountSame
<1>1. ASSUME NEW c \in Clients, NEW acts \in Batches, SubmitActions(c, acts)
      PROVE  AccountInv'
  <2>1. CASE Enqueue(c, acts)
    <3>1. [client |-> c, actions |-> acts] \in ActionWithContext
        BY <1>1 DEF SubmitActions, NonEmptyBatches, ActionWithContext
    <3>2. \A n \in Submitted : accepted'[n] = accepted[n]
        BY <2>1, <3>1, AppendFacts DEF Enqueue, TypeOK, Submitted
    <3>3. /\ UNCHANGED <<processedCount, abandoned, done, current, pos, wpc>>
          /\ \A v \in Workers : Busy(v)' <=> Busy(v)
        BY <2>1 DEF Enqueue, workerVars, counterVars, Busy
    <3> QED
        BY <3>2, <3>3, AccountSame
  <2>2. CASE Drop(c)
      BY <2>2, <1>q DEF Drop, vars, Busy
  <2>3. CASE SendOnClosed(c)
      BY <2>3, <1>q DEF SendOnClosed, workerVars, counterVars, historyVars, Busy
  <2> QED
      BY <1>1, <2>1, <2>2, <2>3 DEF SubmitActions
<1>2. CASE Cancel \/ CloseQueue
    BY <1>2, <1>q DEF Cancel, CloseQueue, workerVars, counterVars, historyVars, Busy
<1>3. ASSUME NEW w \in Workers, WorkerStep(w)
      PROVE  AccountInv'
  <2>1. CASE Dequeue(w)
    <3>1. /\ UNCHANGED <<processedCount, abandoned, done, accepted>>
          /\ ~Busy(w) /\ Busy(w)' /\ pos'[w] = 1
          /\ \A v \in Workers \ {w} : /\ Busy(v)' <=> Busy(v)
                                      /\ current'[v] = current[v] /\ pos'[v] = pos[v]
        BY <2>1 DEF Dequeue, counterVars, historyVars, Busy, TypeOK
    <3>2. \A a : Behind(a)' <=> Behind(a)
        BY <3>1 DEF Behind
    <3>3. LeftBehind' = LeftBehind
      <4>1. \A a : a \in LeftBehind' <=> a \in LeftBehind
          BY <3>2, BehindFacts, BehindFactsAfter
      <4> QED
          BY <4>1
    <3> QED
        BY <3>1, <3>3 DEF AccountInv
  <2>2. CASE WorkerExit(w)
    <3>1. \A v \in Workers : Busy(v)' <=> Busy(v)
        BY <2>2 DEF WorkerExit, Busy, TypeOK
    <3> QED
        BY <2>2, <3>1, <1>q DEF WorkerExit, counterVars, historyVars
  <2>3. CASE StartUnlimited(w) \/ WaitLimiter(w) \/ LimiterGrant(w)
    <3>1. /\ UNCHANGED <<processedCount, abandoned, accepted, done, current, pos>>
          /\ Busy(w) /\ wpc' \in {[wpc EXCEPT ![w] = "execute"], [wpc EXCEPT ![w] = "limiter"]}
        BY <2>3 DEF StartUnlimited, WaitLimiter, LimiterGrant, counterVars, historyVars, Busy
    <3>2. \A v \in Workers : Busy(v)' <=> Busy(v)
        BY <3>1 DEF Busy, TypeOK
    <3> QED
        BY <3>1, <3>2, <1>q
  <2>4. CASE LimiterError(w)
      BY <2>4, ProcessedAccount DEF LimiterError, Busy
  <2> QED
      BY <1>3, <2>1, <2>2, <2>3, <2>4 DEF WorkerStep
<1>4. ASSUME NEW w \in Workers, ExecuteReturns(w)
      PROVE  AccountInv'
  <2>1. CASE ExecuteOK(w) \/ ExecuteError(w)
      BY <2>1, ProcessedAccount DEF ExecuteOK, ExecuteError, Busy
  <2>2. CASE ExecutePanics(w)
      BY <2>2, PanicAccount
  <2> QED
      BY <1>4, <2>1, <2>2 DEF ExecuteReturns
<1>5. CASE UNCHANGED vars
    BY <1>5, <1>q DEF vars, Busy
<1> QED
    BY <1>1, <1>2, <1>3, <1>4, <1>5 DEF Next, Stopped

\* However many clients, workers and batches there are and however long the
\* lists, whatever fails, panics or is cancelled, each action a worker has
\* left behind is counted exactly once.
THEOREM Accounted == Spec => []ActionsAccounted
<1>1. Init => AccountInv
  <2> SUFFICES ASSUME Init PROVE AccountInv
      OBVIOUS
  <2>1. \A a : ~Behind(a)
      BY DEF Init, Behind, Busy
  <2>2. LeftBehind = {}
      BY <2>1, BehindFacts
  <2> QED
      BY <2>2, FS_EmptySet DEF Init, AccountInv
<1>2. Spec => []AccountInv
    BY <1>1, Invariance, AccountNext, PTL DEF Spec
<1>3. AccountInv => ActionsAccounted
    BY DEF AccountInv, ActionsAccounted
<1> QED
    BY <1>2, <1>3, PTL

-----------------------------------------------------------------------------
(* The pool implements Mailbox.                                            *)

\* Only the worker of its queue can serve a client.
LEMMA ServingFacts ==
    ASSUME PoolInv, NEW c \in Clients
    PROVE  \A w \in Workers :
             Busy(w) /\ accepted[current[w]].client = c
               => w = queueIndex(c) /\ Serving(c) = {current[w]}
<1> SUFFICES ASSUME NEW w \in Workers, Busy(w), accepted[current[w]].client = c
             PROVE  w = queueIndex(c) /\ Serving(c) = {current[w]}
    OBVIOUS
<1>1. \A v \in Workers : Busy(v) /\ accepted[current[v]].client = c => v = queueIndex(c)
    BY DEF PoolInv, Routed, Outstanding
<1> QED
    BY <1>1 DEF Serving

\* A step that neither accepts a batch nor changes who executes what is a
\* stuttering step of Mailbox.
LEMMA QuietRefines ==
    ASSUME UNCHANGED <<accepted, done, current>>,
           \A v \in Workers : Busy(v)' <=> Busy(v)
    PROVE  UNCHANGED Mail!vars
<1>1. \A c \in Clients : Serving(c)' = Serving(c)
    BY DEF Serving
<1> QED
    BY <1>1 DEF Mail!vars

\* Accepting a batch is Accept.
LEMMA EnqueueRefines ==
    ASSUME TypeOK, PoolInv, NEW c \in Clients, NEW acts \in NonEmptyBatches,
           Enqueue(c, acts)
    PROVE  Mail!Accept(c, acts)
<1>1. accepted' = Append(accepted, [client |-> c, actions |-> acts]) /\ done' = done
    BY DEF Enqueue
<1>2. \A m \in Submitted : accepted'[m] = accepted[m]
    <2>1. [client |-> c, actions |-> acts] \in ActionWithContext
        BY DEF ActionWithContext
    <2> QED
        BY <1>1, <2>1, AppendFacts DEF TypeOK, Submitted
<1>3. \A v \in Workers : /\ Busy(v)' <=> Busy(v)
                         /\ current'[v] = current[v]
                         /\ Busy(v) => accepted'[current[v]] = accepted[current[v]]
    BY <1>2 DEF Enqueue, workerVars, Busy, PoolInv, WorkersSane
<1>4. \A d \in Clients : Serving(d)' = Serving(d)
    BY <1>3 DEF Serving
<1> QED
    BY <1>1, <1>4 DEF Mail!Accept

\* Receiving from the queue is Begin, for the client of the batch received.
LEMMA DequeueRefines ==
    ASSUME TypeOK, TypeOK', PoolInv, PoolInv', NEW w \in Workers, Dequeue(w)
    PROVE  \E c \in Clients : Mail!Begin(c)
<1> DEFINE h == Head(queues[w])
           c == accepted[h].client
<1>1. /\ UNCHANGED <<accepted, done>>
      /\ ~Busy(w)
      /\ Busy(w)'
      /\ current'[w] = h
      /\ \A v \in Workers \ {w} : (Busy(v)' <=> Busy(v)) /\ current'[v] = current[v]
    BY DEF Dequeue, Busy, TypeOK, historyVars
<1>2. /\ h = queues[w][1]
      /\ 1 \in 1..Len(queues[w])
      /\ Len(queues[w]) \in Nat
    BY TailFacts DEF Dequeue, TypeOK
<1>3. h \in Queued(w) /\ h \in Outstanding(w)
    BY <1>2 DEF Queued, Outstanding
<1>4. h \in Submitted /\ queueIndex(c) = w
    BY <1>3 DEF PoolInv, Routed
<1>5. c \in Clients
    BY <1>4, AcceptedFacts
<1>6. Serving(c) = {}
    BY <1>1, <1>4, <1>5, ServingFacts DEF Serving
<1>7. h \in Submitted \ (Serving(c) \cup done)
    BY <1>3, <1>4, <1>6 DEF PoolInv, NothingLost
<1>8. ASSUME NEW m \in Submitted, accepted[m].client = c, m \notin done
      PROVE  h <= m
    <2>1. m \in Outstanding(w)
        BY <1>4, <1>8 DEF PoolInv, NothingLost
    <2>2. PICK i \in 1..Len(queues[w]) : m = queues[w][i]
        BY <1>1, <2>1 DEF Outstanding, Queued
    <2>3. i > 1 => h < m
        BY <1>2, <2>2 DEF PoolInv, Ordered
    <2> QED
        BY <1>2, <1>4, <1>8, <2>2, <2>3 DEF Submitted
<1>9. ASSUME NEW d \in Clients, d = c
      PROVE  Serving(d)' = {h}
    <2>1. accepted'[current'[w]].client = d
        BY <1>1, <1>9
    <2>2. \A v \in Workers : Busy(v)' /\ accepted'[current'[v]].client = d => v = w
        <3>1. \A v \in Workers \ {w} : ~(Busy(v) /\ accepted[current[v]].client = d)
            BY <1>4, <1>5, <1>9, ServingFacts
        <3> QED
            BY <1>1, <3>1
    <2> QED
        BY <1>1, <2>1, <2>2 DEF Serving
<1>10. \A d \in Clients : d # c => Serving(d)' = Serving(d)
    BY <1>1 DEF Serving
<1>11. [d \in Clients |-> Serving(d)'] = [[d \in Clients |-> Serving(d)] EXCEPT ![c] = {h}]
    BY <1>5, <1>9, <1>10
<1>12. h \in Mail!Waiting(c) /\ \A m \in Mail!Waiting(c) : h <= m
    BY <1>4, <1>5, <1>7, <1>8 DEF Mail!Waiting, Submitted
<1>13. Mail!Begin(c)
    BY <1>1, <1>5, <1>6, <1>11, <1>12 DEF Mail!Begin
<1> QED
    BY <1>5, <1>13

\* Leaving a batch is End, for its client.
LEMMA LeaveRefines ==
    ASSUME TypeOK, PoolInv, NEW w \in Workers, Busy(w), Leave(w), accepted' = accepted
    PROVE  \E c \in Clients : Mail!End(c)
<1> DEFINE c == accepted[current[w]].client
<1>1. /\ ~Busy(w)'
      /\ done' = done \cup {current[w]}
      /\ \A v \in Workers \ {w} : (Busy(v)' <=> Busy(v)) /\ current'[v] = current[v]
    BY DEF Leave, Busy, TypeOK
<1>2. c \in Clients
    BY AcceptedFacts DEF PoolInv, WorkersSane
<1>3. Serving(c) = {current[w]}
    BY <1>2, ServingFacts
<1>4. ASSUME NEW d \in Clients, d = c
      PROVE  Serving(d)' = {}
    <2>1. ASSUME NEW v \in Workers, Busy(v)', accepted'[current'[v]].client = d
          PROVE  FALSE
        <3>1. v # w /\ Busy(v) /\ accepted[current[v]].client = c
            BY <1>1, <1>4, <2>1
        <3>2. v = queueIndex(c) /\ w = queueIndex(c)
            BY <1>2, <3>1, ServingFacts
        <3> QED
            BY <3>1, <3>2
    <2> QED
        BY <2>1 DEF Serving
<1>5. \A d \in Clients : d # c => Serving(d)' = Serving(d)
    BY <1>1 DEF Serving
<1>6. [d \in Clients |-> Serving(d)'] = [[d \in Clients |-> Serving(d)] EXCEPT ![c] = {}]
    BY <1>2, <1>4, <1>5
<1>7. Mail!End(c)
    BY <1>1, <1>2, <1>3, <1>6 DEF Mail!End
<1> QED
    BY <1>2, <1>7

\* Counting an action is a stuttering step, or End for the last of its batch.
LEMMA ProcessedRefines ==
    ASSUME TypeOK, PoolInv, NEW w \in Workers, Busy(w), Processed(w), accepted' = accepted
    PROVE  (\E c \in Clients : Mail!End(c)) \/ UNCHANGED Mail!vars
<1>1. CASE pos[w] = Len(Actions(w))
    BY <1>1, LeaveRefines DEF Processed
<1>2. CASE pos[w] # Len(Actions(w))
    <2>1. UNCHANGED <<current, done>> /\ wpc' = [wpc EXCEPT ![w] = "ready"]
        BY <1>2 DEF Processed
    <2>2. \A v \in Workers : Busy(v)' <=> Busy(v)
        BY <2>1 DEF Busy, TypeOK
    <2> QED
        BY <2>1, <2>2, QuietRefines
<1> QED
    BY <1>1, <1>2

\* The worker pool implements one mailbox per client object.
THEOREM Refinement == Spec => MailboxSpec
<1>1. Init => Mail!Init
    <2> SUFFICES ASSUME Init PROVE Mail!Init
        OBVIOUS
    <2>1. \A c \in Clients : Serving(c) = {}
        BY DEF Init, Serving, Busy
    <2> QED
        BY <2>1 DEF Init, Mail!Init
<1>2. IInv /\ IInv' /\ [Next]_vars => [Mail!Next]_Mail!vars
    <2> SUFFICES ASSUME TypeOK, TypeOK', PoolInv, PoolInv', [Next]_vars
                 PROVE  Mail!Next \/ UNCHANGED Mail!vars
        BY DEF IInv, PoolInv
    <2>q. ASSUME UNCHANGED <<accepted, done, current, wpc>>
          PROVE  UNCHANGED Mail!vars
        <3>1. \A v \in Workers : Busy(v)' <=> Busy(v)
            BY <2>q DEF Busy
        <3> QED
            BY <2>q, <3>1, QuietRefines
    <2>p. ASSUME NEW w \in Workers, NEW place, UNCHANGED <<accepted, done, current>>,
                 wpc' = [wpc EXCEPT ![w] = place],
                 \/ Busy(w) /\ place \in {"limiter", "execute"}
                 \/ ~Busy(w) /\ place = "exited"
          PROVE  UNCHANGED Mail!vars
        <3>1. \A v \in Workers : Busy(v)' <=> Busy(v)
            BY <2>p DEF Busy, TypeOK
        <3> QED
            BY <2>p, <3>1, QuietRefines
    <2>1. ASSUME NEW c \in Clients, NEW acts \in Batches, SubmitActions(c, acts)
          PROVE  Mail!Next \/ UNCHANGED Mail!vars
        <3>1. CASE Enqueue(c, acts)
            <4>1. acts \in NonEmptyBatches
                BY <2>1 DEF SubmitActions, NonEmptyBatches
            <4> QED
                BY <3>1, <4>1, EnqueueRefines DEF Mail!Next
        <3>2. CASE Drop(c)
            BY <2>q, <3>2 DEF Drop, vars
        <3>3. CASE SendOnClosed(c)
            BY <2>q, <3>3 DEF SendOnClosed, workerVars, historyVars
        <3> QED
            BY <2>1, <3>1, <3>2, <3>3 DEF SubmitActions
    <2>2. CASE Cancel
        BY <2>q, <2>2 DEF Cancel, workerVars, historyVars
    <2>3. CASE CloseQueue
        BY <2>q, <2>3 DEF CloseQueue, workerVars, historyVars
    <2>4. ASSUME NEW w \in Workers, WorkerStep(w)
          PROVE  Mail!Next \/ UNCHANGED Mail!vars
        <3>1. CASE Dequeue(w)
            BY <3>1, DequeueRefines DEF Mail!Next
        <3>2. CASE WorkerExit(w)
            <4>1. /\ UNCHANGED <<accepted, done, current>>
                  /\ wpc' = [wpc EXCEPT ![w] = "exited"]
                  /\ ~Busy(w)
                BY <3>2 DEF WorkerExit, Busy, historyVars
            <4> QED
                BY <2>p, <4>1
        <3>3. CASE StartUnlimited(w) \/ LimiterGrant(w)
            <4>1. /\ UNCHANGED <<accepted, done, current>>
                  /\ wpc' = [wpc EXCEPT ![w] = "execute"]
                  /\ Busy(w)
                BY <3>3 DEF StartUnlimited, LimiterGrant, Busy, historyVars
            <4> QED
                BY <2>p, <4>1
        <3>4. CASE WaitLimiter(w)
            <4>1. /\ UNCHANGED <<accepted, done, current>>
                  /\ wpc' = [wpc EXCEPT ![w] = "limiter"]
                  /\ Busy(w)
                BY <3>4 DEF WaitLimiter, Busy, historyVars
            <4> QED
                BY <2>p, <4>1
        <3>5. CASE LimiterError(w)
            BY <3>5, ProcessedRefines DEF LimiterError, Busy, Mail!Next
        <3> QED
            BY <2>4, <3>1, <3>2, <3>3, <3>4, <3>5 DEF WorkerStep
    <2>5. ASSUME NEW w \in Workers, ExecuteReturns(w)
          PROVE  Mail!Next \/ UNCHANGED Mail!vars
        <3>1. CASE ExecuteOK(w)
            BY <3>1, ProcessedRefines DEF ExecuteOK, Busy, Mail!Next
        <3>2. CASE ExecuteError(w)
            BY <3>2, ProcessedRefines DEF ExecuteError, Busy, Mail!Next
        <3>3. CASE ExecutePanics(w)
            BY <3>3, LeaveRefines DEF ExecutePanics, Busy, Mail!Next
        <3> QED
            BY <2>5, <3>1, <3>2, <3>3 DEF ExecuteReturns
    <2>6. CASE UNCHANGED vars
        BY <2>q, <2>6 DEF vars
    <2> QED
        BY <2>1, <2>2, <2>3, <2>4, <2>5, <2>6 DEF Next, Stopped
<1> QED
    BY <1>1, <1>2, Invariance, PTL DEF Spec, MailboxSpec, Mail!Spec
=============================================================================
