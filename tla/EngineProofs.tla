----------------------------- MODULE EngineProofs -----------------------------
(***************************************************************************)
(* Proofs about Engine: it uses its worker pool as WorkerPool says, so     *)
(* that what is proved of the pool holds of the engine, and what its life  *)
(* cycle guarantees while it runs and when it stops.                       *)
(***************************************************************************)
EXTENDS Engine, WorkerPoolProofs

-----------------------------------------------------------------------------
(* The engine is a user of its pool.                                       *)

\* Every step of the engine is a step of the pool or leaves the pool alone.
LEMMA PoolStep == LifeTypeOK /\ [EngineNext]_engineVars => [Next]_vars
<1> SUFFICES ASSUME LifeTypeOK, [EngineNext]_engineVars
             PROVE  Next \/ UNCHANGED vars
    OBVIOUS
<1>1. CASE Alive /\ MainStep
    <2>1. CASE StopClosesQueue
        BY <1>1, <2>1 DEF StopClosesQueue, Next, Alive, Crashed
    <2> QED
        BY <1>1, <2>1 DEF MainStep, ConnectAllReturns, StartTicker, StopGlobalTicker,
                          StopAllClients, StopWaits, StopDisconnects, StopReturns
<1>2. CASE Alive /\ StopCancels
    BY <1>2 DEF StopCancels, Next, Alive, Crashed
<1>3. CASE TickerStep \/ TickerFires
    BY <1>3 DEF TickerStep, TickerSelects, TickerPanics, TickerDone, BroadcastTick, TickerFires
<1>4. ASSUME NEW c \in Clients,
             ConnectStep(c) \/ MessageArrives(c) \/ LinkLost(c) \/ Reconnected(c)
      PROVE  UNCHANGED vars
    BY <1>4 DEF ConnectStep, ConnectOK, ConnectFails, PoolAdd, IncConnection,
                MessageArrives, LinkLost, Reconnected
<1>5. ASSUME Alive, NEW h \in handlers, HandlerSubmits(h)
      PROVE  Next \/ UNCHANGED vars
    <2>1. h.client \in Clients
        BY DEF LifeTypeOK, Handler
    <2> QED
        BY <1>5, <2>1 DEF HandlerSubmits, Next, Alive, Crashed
<1>6. ASSUME Alive, NEW w \in Workers, WorkerRuns(w) \/ WorkerReturns(w)
      PROVE  Next
    <2>1. WorkerStep(w) \/ ExecuteReturns(w)
        BY <1>6 DEF WorkerRuns, WorkerReturns, WorkerCalls, WorkerDisconnects, ExecuteReturns
    <2> QED
        BY <1>6, <2>1 DEF Next, Alive, Crashed
<1>7. CASE UNCHANGED engineVars
    BY <1>7 DEF engineVars
<1> QED
    BY <1>1, <1>2, <1>3, <1>4, <1>5, <1>6, <1>7 DEF EngineNext

-----------------------------------------------------------------------------
(* Type correctness.                                                       *)

LEMMA HandlerTypes ==
    ASSUME EngineAssumption, NEW c \in Clients
    PROVE  OnConnect(c) \in Handler /\ OnMessage(c) \in Handler
BY DEF OnConnect, OnMessage, Handler, EngineAssumption

LEMMA DisconnectTypes ==
    ASSUME LifeTypeOK, NEW c \in Clients, Disconnect(c)
    PROVE  /\ link' \in [Clients -> {"none", "up", "down", "closed"}]
           /\ isReceiving' \in [Clients -> BOOLEAN]
           /\ isShuttingDown' \in [Clients -> BOOLEAN]
           /\ active' \in Int
BY DEF LifeTypeOK, Disconnect

LEMMA LifeTypeInit == EngineInit => LifeTypeOK
BY EngineAssumption DEF EngineInit, LifeTypeOK

LEMMA LifeTypeNext ==
    TypeOK /\ WorkersSane /\ LifeTypeOK /\ [EngineNext]_engineVars => LifeTypeOK'
<1> SUFFICES ASSUME TypeOK, WorkersSane, LifeTypeOK, [EngineNext]_engineVars
             PROVE  LifeTypeOK'
    OBVIOUS
<1> USE EngineAssumption
<1>1. CASE MainStep
    <2>1. CASE ConnectAllReturns
        BY <2>1 DEF ConnectAllReturns, LifeTypeOK, clientVars, tickerVars, boundVars
    <2>2. CASE StartTicker
        BY <2>2 DEF StartTicker, LifeTypeOK, clientVars, boundVars
    <2>3. CASE StopGlobalTicker
        BY <2>3 DEF StopGlobalTicker, LifeTypeOK, clientVars, boundVars
    <2>4. CASE StopAllClients
        BY <2>4 DEF StopAllClients, LifeTypeOK, tickerVars, boundVars
    <2>5. CASE StopClosesQueue
        BY <2>5 DEF StopClosesQueue, LifeTypeOK, clientVars, tickerVars, boundVars
    <2>6. CASE StopWaits
        BY <2>6 DEF StopWaits, LifeTypeOK, clientVars, tickerVars, boundVars
    <2>7. ASSUME NEW c \in Clients, StopDisconnects(c)
          PROVE  LifeTypeOK'
        <3>1. Disconnect(c)
            BY <2>7 DEF StopDisconnects
        <3> QED
            BY <2>7, <3>1, DisconnectTypes
            DEF StopDisconnects, LifeTypeOK, tickerVars, boundVars
    <2>8. CASE StopReturns
        BY <2>8 DEF StopReturns, LifeTypeOK, clientVars, tickerVars, boundVars
    <2> QED
        BY <1>1, <2>1, <2>2, <2>3, <2>4, <2>5, <2>6, <2>7, <2>8 DEF MainStep
<1>2. CASE StopCancels
    BY <1>2 DEF StopCancels, LifeTypeOK, clientVars, tickerVars, boundVars
<1>3. CASE TickerStep
    <2>1. CASE TickerSelects
        BY <2>1 DEF TickerSelects, LifeTypeOK, clientVars, boundVars, lifeVars
    <2>2. CASE TickerPanics
        BY <2>2 DEF TickerPanics, LifeTypeOK, clientVars, boundVars, lifeVars
    <2>3. CASE TickerDone
        BY <2>3 DEF TickerDone, LifeTypeOK, clientVars, boundVars, lifeVars
    <2>4. CASE BroadcastTick
        <3>1. \A c \in Clients : OnTick(c, globalTick) \in Handler
            BY DEF OnTick, Handler, LifeTypeOK
        <3>2. PICK reconnecting \in SUBSET {c \in pool : link[c] = "down"} :
                handlers' = handlers \cup
                  {OnTick(c, globalTick) : c \in {d \in pool : link[d] = "up"} \cup reconnecting}
            BY <2>4 DEF BroadcastTick
        <3>3. handlers' \subseteq Handler
            BY <3>1, <3>2 DEF LifeTypeOK
        <3> QED
            BY <2>4, <3>3 DEF BroadcastTick, LifeTypeOK, clientVars, boundVars, lifeVars
    <2> QED
        BY <1>3, <2>1, <2>2, <2>3, <2>4 DEF TickerStep
<1>4. CASE TickerFires
    BY <1>4 DEF TickerFires, LifeTypeOK, clientVars, boundVars, lifeVars
<1>5. ASSUME NEW c \in Clients, ConnectStep(c)
      PROVE  LifeTypeOK'
    <2>1. CASE ConnectOK(c)
        BY <2>1, HandlerTypes DEF ConnectOK, LifeTypeOK, tickerVars, boundVars
    <2>2. CASE ConnectFails(c)
        BY <2>2 DEF ConnectFails, LifeTypeOK, clientVars, tickerVars, boundVars
    <2>3. CASE PoolAdd(c)
        BY <2>3 DEF PoolAdd, LifeTypeOK, clientVars, tickerVars, boundVars
    <2>4. CASE IncConnection(c)
        BY <2>4 DEF IncConnection, LifeTypeOK, tickerVars, boundVars
    <2> QED
        BY <1>5, <2>1, <2>2, <2>3, <2>4 DEF ConnectStep
<1>6. ASSUME NEW c \in Clients, MessageArrives(c) \/ LinkLost(c) \/ Reconnected(c)
      PROVE  LifeTypeOK'
    <2>1. CASE MessageArrives(c)
        BY <2>1, HandlerTypes DEF MessageArrives, LifeTypeOK, clientVars, tickerVars, lifeVars
    <2>2. CASE LinkLost(c)
        BY <2>2 DEF LinkLost, LifeTypeOK, tickerVars, lifeVars
    <2>3. CASE Reconnected(c)
        BY <2>3, HandlerTypes DEF Reconnected, LifeTypeOK, tickerVars, boundVars, lifeVars
    <2> QED
        BY <1>6, <2>1, <2>2, <2>3
<1>7. ASSUME NEW h \in handlers, HandlerSubmits(h)
      PROVE  LifeTypeOK'
    BY <1>7 DEF HandlerSubmits, LifeTypeOK, clientVars, tickerVars, boundVars, lifeVars
<1>8. ASSUME NEW w \in Workers, WorkerRuns(w) \/ WorkerReturns(w)
      PROVE  LifeTypeOK'
    <2>1. CASE WorkerRuns(w)
        BY <2>1 DEF WorkerRuns, LifeTypeOK, clientVars, tickerVars, boundVars, lifeVars
    <2>2. CASE WorkerCalls(w)
        BY <2>2 DEF WorkerCalls, LifeTypeOK, clientVars, tickerVars, boundVars, lifeVars
    <2>3. CASE WorkerDisconnects(w)
        <3>1. accepted[current[w]].client \in Clients
            BY <2>3, AcceptedFacts DEF WorkerDisconnects, WorkersSane, Busy
        <3>2. Disconnect(accepted[current[w]].client)
            BY <2>3 DEF WorkerDisconnects
        <3> QED
            BY <2>3, <3>1, <3>2, DisconnectTypes
            DEF WorkerDisconnects, LifeTypeOK, tickerVars, boundVars, lifeVars
    <2> QED
        BY <1>8, <2>1, <2>2, <2>3 DEF WorkerReturns
<1>9. CASE UNCHANGED engineVars
    BY <1>9 DEF engineVars, LifeTypeOK, clientVars, tickerVars, boundVars, lifeVars
<1> QED
    BY <1>1, <1>2, <1>3, <1>4, <1>5, <1>6, <1>7, <1>8, <1>9 DEF EngineNext

-----------------------------------------------------------------------------
(* The life cycle.                                                         *)

LEMMA LifeInvInit == EngineInit => LifeInv
BY DEF EngineInit, Init, LifeInv, TickerGuarded, QueuesGuarded, Connected, Starting, PastWait

\* Only a submission crashes the pool, on a queue that is closed; only Stop
\* closes queues; a worker that has exited stays so.
LEMMA PoolStepEffect ==
    ASSUME TypeOK, [Next]_vars
    PROVE  /\ crashed' => crashed \/ closedCount > 0
           /\ AllExited => AllExited'
<1>1. ASSUME NEW c \in Clients, NEW acts \in Batches, SubmitActions(c, acts)
      PROVE  /\ crashed' => crashed \/ closedCount > 0
             /\ AllExited => AllExited'
    <2>1. CASE SendOnClosed(c)
        <3>1. queueIndex(c) \in Nat /\ queueIndex(c) < closedCount
            BY <2>1, QueueIndexType DEF SendOnClosed, Workers
        <3> QED
            BY <2>1, <3>1 DEF SendOnClosed, TypeOK, workerVars, AllExited
    <2>2. CASE Enqueue(c, acts) \/ Drop(c)
        BY <2>2 DEF Enqueue, Drop, vars, workerVars, AllExited
    <2> QED
        BY <1>1, <2>1, <2>2 DEF SubmitActions
<1>2. CASE Cancel \/ CloseQueue
    BY <1>2 DEF Cancel, CloseQueue, workerVars, AllExited
<1>3. ASSUME NEW w \in Workers, WorkerStep(w) \/ ExecuteReturns(w)
      PROVE  /\ crashed' = crashed
             /\ ~AllExited
    BY <1>3 DEF WorkerStep, Dequeue, WorkerExit, StartUnlimited, WaitLimiter, LimiterGrant,
                LimiterError, ExecuteReturns, ExecuteOK, ExecuteError, ExecutePanics, AllExited
<1>4. CASE UNCHANGED vars
    BY <1>4 DEF vars, AllExited
<1> QED
    BY <1>1, <1>2, <1>3, <1>4 DEF Next, Stopped

\* The pool's closedCount moves in StopClosesQueue only.
LEMMA ClosedByStop ==
    ASSUME [EngineNext]_engineVars
    PROVE  closedCount' = closedCount \/ (mainPc = "closeQueues" /\ StopClosesQueue)
<1>1. ASSUME NEW w \in Workers, WorkerRuns(w) \/ WorkerReturns(w)
      PROVE  closedCount' = closedCount
    BY <1>1 DEF WorkerRuns, WorkerReturns, WorkerCalls, WorkerDisconnects, WorkerStep, Dequeue,
                WorkerExit, StartUnlimited, WaitLimiter, LimiterGrant, LimiterError,
                ExecuteOK, ExecuteError, ExecutePanics
<1>2. ASSUME NEW h \in handlers, HandlerSubmits(h)
      PROVE  closedCount' = closedCount
    BY <1>2 DEF HandlerSubmits, SubmitActions, Enqueue, Drop, SendOnClosed, vars
<1>3. CASE MainStep
    BY <1>3 DEF MainStep, ConnectAllReturns, StartTicker, StopGlobalTicker, StopAllClients,
                StopClosesQueue, StopWaits, StopDisconnects, StopReturns, vars
<1>4. CASE StopCancels
    BY <1>4 DEF StopCancels, Cancel
<1>5. CASE TickerStep \/ TickerFires
    BY <1>5 DEF TickerStep, TickerSelects, TickerPanics, TickerDone, BroadcastTick,
                TickerFires, vars
<1>6. ASSUME NEW c \in Clients,
             ConnectStep(c) \/ MessageArrives(c) \/ LinkLost(c) \/ Reconnected(c)
      PROVE  closedCount' = closedCount
    BY <1>6 DEF ConnectStep, ConnectOK, ConnectFails, PoolAdd, IncConnection,
                MessageArrives, LinkLost, Reconnected, vars
<1>7. CASE UNCHANGED engineVars
    BY <1>7 DEF engineVars, vars
<1> QED
    BY <1>1, <1>2, <1>3, <1>4, <1>5, <1>6, <1>7 DEF EngineNext

\* A step of the main goroutine, or of another one that leaves mainPc alone.
LEMMA LifeStep ==
    ASSUME [EngineNext]_engineVars
    PROVE  \/ Alive /\ (MainStep \/ StopCancels)
           \/ Alive /\ (TickerStep \/ TickerFires)
           \/ /\ UNCHANGED <<mainPc, globalTicker, tickerPc, todo, pool>>
              /\ conn' = conn \/ \E c \in Clients : ConnectFails(c) \/ ConnectOK(c)
           \/ /\ UNCHANGED <<mainPc, globalTicker, tickerPc, todo>>
              /\ \E c \in Clients : PoolAdd(c) \/ IncConnection(c)
<1>1. ASSUME NEW c \in Clients,
             ConnectStep(c) \/ MessageArrives(c) \/ LinkLost(c) \/ Reconnected(c)
      PROVE  \/ /\ UNCHANGED <<mainPc, globalTicker, tickerPc, todo, pool>>
                /\ conn' = conn \/ ConnectFails(c) \/ ConnectOK(c)
             \/ /\ UNCHANGED <<mainPc, globalTicker, tickerPc, todo>>
                /\ PoolAdd(c) \/ IncConnection(c)
    BY <1>1 DEF ConnectStep, ConnectOK, ConnectFails, PoolAdd, IncConnection,
                MessageArrives, LinkLost, Reconnected, tickerVars, lifeVars
<1>2. ASSUME NEW h \in handlers, HandlerSubmits(h)
      PROVE  UNCHANGED <<mainPc, globalTicker, tickerPc, todo, pool, conn>>
    BY <1>2 DEF HandlerSubmits, tickerVars, lifeVars
<1>3. ASSUME NEW w \in Workers, WorkerRuns(w) \/ WorkerReturns(w)
      PROVE  UNCHANGED <<mainPc, globalTicker, tickerPc, todo, pool, conn>>
    BY <1>3 DEF WorkerRuns, WorkerReturns, WorkerCalls, WorkerDisconnects, tickerVars, lifeVars
<1>4. CASE UNCHANGED engineVars
    BY <1>4 DEF engineVars, tickerVars, lifeVars
<1> QED
    BY <1>1, <1>2, <1>3, <1>4 DEF EngineNext

LEMMA LifeInvNext ==
    TypeOK /\ LifeTypeOK /\ LifeInv /\ [EngineNext]_engineVars /\ [Next]_vars => LifeInv'
<1> SUFFICES ASSUME TypeOK, LifeTypeOK, LifeInv, [EngineNext]_engineVars, [Next]_vars
             PROVE  LifeInv'
    OBVIOUS
<1> USE DEF LifeInv
<1>1. /\ crashed' => crashed \/ closedCount > 0
      /\ AllExited => AllExited'
    BY PoolStepEffect
<1>2. closedCount' = closedCount \/ (mainPc = "closeQueues" /\ StopClosesQueue)
    BY ClosedByStop
<1>3. CASE Alive /\ (MainStep \/ StopCancels)
    <2>1. ~crashed /\ tickerPc # "panicked" /\ mainPc # "stopped"
        BY <1>3 DEF Alive, Crashed
    <2>2. CASE ConnectAllReturns
        BY <1>1, <1>2, <2>1, <2>2 DEF ConnectAllReturns, TickerGuarded, QueuesGuarded, Connected,
                           Starting, PastWait, tickerVars, vars
    <2>3. CASE StartTicker
        BY <2>1, <2>3 DEF StartTicker, TickerGuarded, QueuesGuarded, Connected,
                           Starting, PastWait, vars
    <2>4. CASE StopGlobalTicker
        BY <2>1, <2>4 DEF StopGlobalTicker, TickerGuarded, QueuesGuarded, Connected,
                           Starting, PastWait, vars
    <2>5. CASE StopAllClients
        BY <2>1, <2>5 DEF StopAllClients, TickerGuarded, QueuesGuarded, Connected,
                           Starting, PastWait, tickerVars, vars
    <2>6. CASE StopClosesQueue
        BY <1>1, <2>1, <2>6 DEF StopClosesQueue, CloseQueue, TypeOK, TickerGuarded,
                           QueuesGuarded, Connected, Starting, PastWait, tickerVars
    <2>7. CASE StopWaits
        BY <1>1, <2>1, <2>7 DEF StopWaits, TickerGuarded, QueuesGuarded, Connected,
                           Starting, PastWait, tickerVars, vars
    <2>8. ASSUME NEW c \in Clients, StopDisconnects(c)
          PROVE  LifeInv'
        BY <1>1, <2>1, <2>8 DEF StopDisconnects, TickerGuarded, QueuesGuarded, Connected,
                           Starting, PastWait, tickerVars, vars
    <2>9. CASE StopReturns
        BY <1>1, <2>1, <2>9 DEF StopReturns, TickerGuarded, QueuesGuarded, Connected,
                           Starting, PastWait, tickerVars, vars
    <2>10. CASE StopCancels
        BY <2>1, <2>10 DEF StopCancels, Cancel, TickerGuarded, QueuesGuarded, Connected,
                           Starting, PastWait, tickerVars
    <2> QED
        BY <1>3, <2>2, <2>3, <2>4, <2>5, <2>6, <2>7, <2>8, <2>9, <2>10 DEF MainStep
<1>4. CASE Alive /\ (TickerStep \/ TickerFires)
    <2>1. ~crashed /\ tickerPc # "panicked" /\ mainPc # "stopped"
        BY <1>4 DEF Alive, Crashed
    <2>2. UNCHANGED <<vars, mainPc, conn, globalTicker>>
        BY <1>4 DEF TickerStep, TickerSelects, TickerPanics, TickerDone, BroadcastTick,
                    TickerFires, lifeVars
    <2>3. /\ tickerPc \in {"loop", "select", "broadcast"}
          /\ tickerPc' \in {"loop", "select", "broadcast", "exited", "panicked"}
          /\ tickerPc' = "panicked" => globalTicker = "nil"
        BY <1>4 DEF TickerStep, TickerSelects, TickerPanics, TickerDone, BroadcastTick,
                    TickerFires
    <2>4. mainPc \in {"running", "stopTicker", "stopClients", "closeQueues", "wait"}
        BY <2>3 DEF LifeTypeOK, TickerGuarded, Starting, PastWait
    <2>5. TickerGuarded'
        BY <2>2, <2>3, <2>4 DEF TickerGuarded, Starting, PastWait
    <2>6. QueuesGuarded'
        BY <2>1, <2>2, <2>3, <2>4 DEF QueuesGuarded, TickerGuarded, PastWait, vars
    <2> QED
        BY <2>2, <2>5, <2>6 DEF Connected
<1>5. ASSUME UNCHANGED <<mainPc, globalTicker, tickerPc>>,
             conn' = conn \/ \E c \in Clients : ConnectStep(c)
      PROVE  LifeInv'
    <2>1. TickerGuarded'
        BY <1>5 DEF TickerGuarded, Starting, PastWait
    <2>2. \/ closedCount' = closedCount
          \/ closedCount' = closedCount + 1 /\ mainPc = "closeQueues"
        BY <1>2 DEF StopClosesQueue, CloseQueue
    <2>3. closedCount \in Nat
        BY PoolAssumption DEF TypeOK
    <2>4. mainPc # "stopped" \/ crashed' = crashed
        BY DEF EngineNext, Alive, engineVars, vars
    <2>5. QueuesGuarded'
        BY <1>1, <1>5, <2>2, <2>3, <2>4 DEF QueuesGuarded, PastWait
    <2>6. Connected'
        BY <1>5 DEF Connected, LifeTypeOK, ConnectStep, ConnectOK, ConnectFails, PoolAdd,
                    IncConnection
    <2> QED
        BY <2>1, <2>5, <2>6
<1> QED
    BY <1>3, <1>4, <1>5, LifeStep DEF ConnectStep

-----------------------------------------------------------------------------
(* The theorems.                                                           *)

\* The pool's invariant, the types and the life cycle's invariant hold in
\* every behaviour of the engine.
THEOREM EngineInvariance == EngineSpec => []EngineIInv
<1>1. EngineInit => EngineIInv
    BY TypeInit, PoolInvInit, LifeTypeInit, LifeInvInit DEF EngineIInv, EngineInit, IInv, PoolInv
<1>2. EngineIInv /\ [EngineNext]_engineVars => EngineIInv'
    <2> SUFFICES ASSUME EngineIInv, [EngineNext]_engineVars
                 PROVE  EngineIInv'
        OBVIOUS
    <2>1. TypeOK /\ PoolInv /\ LifeTypeOK /\ LifeInv /\ WorkersSane
        BY DEF EngineIInv, IInv, PoolInv
    <2>2. [Next]_vars
        BY <2>1, PoolStep
    <2>3. IInv'
        BY <2>1, <2>2, TypeNext, PoolInvNext DEF IInv, PoolInv
    <2> QED
        BY <2>1, <2>2, <2>3, LifeTypeNext, LifeInvNext DEF EngineIInv
<1> QED
    BY <1>1, <1>2, PTL DEF EngineSpec

\* Every variable of the engine keeps its type.
THEOREM EngineTypeCorrect == EngineSpec => []EngineTypeOK
<1>1. EngineIInv => EngineTypeOK
    BY DEF EngineIInv, IInv, EngineTypeOK
<1> QED
    BY <1>1, EngineInvariance, PTL

\* The engine drives its worker pool as WorkerPool allows, so that every
\* property of the pool is one of the engine.
THEOREM EngineUsesPool == EngineSpec => PoolSpec
<1>1. EngineInit => Init
    BY DEF EngineInit
<1>2. EngineIInv /\ [EngineNext]_engineVars => [Next]_vars
    BY PoolStep DEF EngineIInv
<1> QED
    BY <1>1, <1>2, EngineInvariance, PTL DEF EngineSpec, PoolSpec, Spec

\* Through its pool, the engine gives every client object a mailbox.
THEOREM EngineServesMailboxes == EngineSpec => MailboxSpec
BY EngineUsesPool, Refinement, PTL DEF PoolSpec

\* The engine never runs two actions of clients with one ID at once.
THEOREM EngineSequential == EngineSpec => []SequentialPerClient
BY EngineUsesPool, Sequential, PTL DEF PoolSpec

\* In the engine too each action is counted once, whatever a client does.
THEOREM EngineAccounted == EngineSpec => []ActionsAccounted
BY EngineUsesPool, Accounted, PTL DEF PoolSpec

\* The life cycle's invariant holds.
THEOREM LifeCycle == EngineSpec => []LifeInv
<1>1. EngineIInv => LifeInv
    BY DEF EngineIInv
<1> QED
    BY <1>1, EngineInvariance, PTL

\* A running engine is not crashed by the order of its goroutines.
THEOREM NoCrashWhileRunning == EngineSpec => []CrashOnlyWhileStopping
<1>1. EngineIInv => CrashOnlyWhileStopping
    BY DEF EngineIInv, LifeInv, QueuesGuarded, CrashOnlyWhileStopping, Crashed
<1> QED
    BY <1>1, EngineInvariance, PTL

\* No worker is inside a client when Stop disconnects the clients.
THEOREM DisconnectsAlone == EngineSpec => []DisconnectAlone
<1>1. EngineIInv => DisconnectAlone
    BY DEF EngineIInv, LifeInv, QueuesGuarded, IInv, WorkersSane, AllExited, Busy,
           DisconnectAlone
<1> QED
    BY <1>1, EngineInvariance, PTL

\* Stop has drained the queues when it disconnects the clients.
THEOREM StopDrained == EngineSpec => []StopDrains
<1>1. EngineIInv /\ DrainedOnExit => StopDrains
    BY DEF EngineIInv, LifeInv, QueuesGuarded, DrainedOnExit, StopDrains
<1>2. EngineSpec => []DrainedOnExit
    BY EngineUsesPool, Drained, PTL DEF PoolSpec
<1> QED
    BY <1>1, <1>2, EngineInvariance, PTL

-----------------------------------------------------------------------------
(* The connection pool reaches every client, if no two have one ID.        *)

DistinctIDs == \A c, d \in Clients : ID[c] = ID[d] => c = d

\* Until Stop empties the pool, a client that connectAll added is in it.
PooledInv == mainPc # "stopped" => \A c \in Clients : conn[c] \in {"added", "done"} => c \in pool

\* A client is told to disconnect before DisconnectAll forgets it.
DisconnectedInv ==
    /\ PastWait => \A c \in Clients : conn[c] = "done" => c \in todo \/ isShuttingDown[c]
    /\ mainPc = "stopped" => todo = {}

LEMMA PooledNext ==
    ASSUME DistinctIDs, LifeTypeOK, LifeInv, PooledInv, [EngineNext]_engineVars
    PROVE  PooledInv'
<1>1. CASE Alive /\ (MainStep \/ StopCancels)
    BY <1>1 DEF MainStep, StopCancels, ConnectAllReturns, StartTicker, StopGlobalTicker,
                StopAllClients, StopClosesQueue, StopWaits, StopDisconnects, StopReturns,
                PooledInv, LifeTypeOK, Alive
<1>2. CASE Alive /\ (TickerStep \/ TickerFires)
    BY <1>2 DEF TickerStep, TickerSelects, TickerPanics, TickerDone, BroadcastTick,
                TickerFires, lifeVars, PooledInv
<1>3. CASE /\ UNCHANGED <<mainPc, globalTicker, tickerPc, todo, pool>>
           /\ conn' = conn \/ \E c \in Clients : ConnectFails(c) \/ ConnectOK(c)
    BY <1>3 DEF ConnectFails, ConnectOK, PooledInv, LifeTypeOK
<1>4. ASSUME NEW c \in Clients, PoolAdd(c), UNCHANGED mainPc
      PROVE  PooledInv'
    <2>1. \A d \in pool \cup {c} : d \in pool'
        BY <1>4 DEF PoolAdd, DistinctIDs, LifeTypeOK
    <2> QED
        BY <1>4, <2>1 DEF PoolAdd, PooledInv, LifeTypeOK
<1>5. ASSUME NEW c \in Clients, IncConnection(c), UNCHANGED mainPc
      PROVE  PooledInv'
    BY <1>5 DEF IncConnection, PooledInv, LifeTypeOK
<1> QED
    BY <1>1, <1>2, <1>3, <1>4, <1>5, LifeStep

\* A client that was told to disconnect remembers it.
LEMMA ShuttingDownStays ==
    ASSUME TypeOK, WorkersSane, LifeTypeOK, [EngineNext]_engineVars
    PROVE  \A c \in Clients : isShuttingDown[c] => isShuttingDown'[c]
<1>1. ASSUME NEW d \in Clients, Disconnect(d)
      PROVE  \A c \in Clients : isShuttingDown[c] => isShuttingDown'[c]
    BY <1>1 DEF Disconnect, LifeTypeOK
<1>2. ASSUME NEW w \in Workers, WorkerReturns(w)
      PROVE  \A c \in Clients : isShuttingDown[c] => isShuttingDown'[c]
    <2>1. CASE WorkerDisconnects(w)
        <3>1. accepted[current[w]].client \in Clients
            BY <2>1, AcceptedFacts DEF WorkerDisconnects, WorkersSane, Busy
        <3> QED
            BY <1>1, <2>1, <3>1 DEF WorkerDisconnects
    <2>2. CASE WorkerCalls(w)
        BY <2>2 DEF WorkerCalls, clientVars
    <2> QED
        BY <1>2, <2>1, <2>2 DEF WorkerReturns
<1>3. ASSUME NEW w \in Workers, WorkerRuns(w)
      PROVE  UNCHANGED isShuttingDown
    BY <1>3 DEF WorkerRuns, clientVars
<1>4. CASE MainStep
    BY <1>1, <1>4 DEF MainStep, ConnectAllReturns, StartTicker, StopGlobalTicker,
                StopAllClients, StopClosesQueue, StopWaits, StopDisconnects, StopReturns,
                clientVars
<1>5. CASE StopCancels \/ TickerStep \/ TickerFires
    BY <1>5 DEF StopCancels, TickerStep, TickerSelects, TickerPanics, TickerDone,
                BroadcastTick, TickerFires, clientVars
<1>6. ASSUME NEW c \in Clients,
             ConnectStep(c) \/ MessageArrives(c) \/ LinkLost(c) \/ Reconnected(c)
      PROVE  UNCHANGED isShuttingDown
    BY <1>6 DEF ConnectStep, ConnectOK, ConnectFails, PoolAdd, IncConnection,
                MessageArrives, LinkLost, Reconnected, clientVars
<1>7. ASSUME NEW h \in handlers, HandlerSubmits(h)
      PROVE  UNCHANGED isShuttingDown
    BY <1>7 DEF HandlerSubmits, clientVars
<1>8. CASE UNCHANGED engineVars
    BY <1>8 DEF engineVars, clientVars
<1> QED
    BY <1>2, <1>3, <1>4, <1>5, <1>6, <1>7, <1>8 DEF EngineNext

LEMMA DisconnectedNext ==
    ASSUME TypeOK, WorkersSane, LifeTypeOK, LifeInv, PooledInv, DisconnectedInv,
           [EngineNext]_engineVars
    PROVE  DisconnectedInv'
<1>1. \A c \in Clients : isShuttingDown[c] => isShuttingDown'[c]
    BY ShuttingDownStays
<1>2. CASE Alive /\ (MainStep \/ StopCancels)
    <2>1. mainPc # "stopped"
        BY <1>2 DEF Alive
    <2>2. CASE StopWaits
        BY <2>1, <2>2 DEF StopWaits, PooledInv, DisconnectedInv, PastWait
    <2>3. ASSUME NEW d \in Clients, StopDisconnects(d)
          PROVE  DisconnectedInv'
        <3>1. isShuttingDown'[d] /\ mainPc' = "disconnectAll" /\ PastWait
              /\ todo' = todo \ {d} /\ conn' = conn
            BY <2>3 DEF StopDisconnects, Disconnect, LifeTypeOK, PastWait
        <3> QED
            BY <1>1, <3>1 DEF DisconnectedInv
    <2>4. CASE StopReturns
        BY <1>1, <2>4 DEF StopReturns, DisconnectedInv, PastWait
    <2>5. CASE ConnectAllReturns \/ StartTicker \/ StopGlobalTicker \/ StopAllClients
                 \/ StopClosesQueue \/ StopCancels
        <3>1. ~PastWait'
            BY <2>5 DEF ConnectAllReturns, StartTicker, StopGlobalTicker, StopAllClients,
                        StopClosesQueue, StopCancels, PastWait
        <3> QED
            BY <3>1 DEF DisconnectedInv, PastWait
    <2> QED
        BY <1>2, <2>2, <2>3, <2>4, <2>5 DEF MainStep
<1>3. CASE Alive /\ (TickerStep \/ TickerFires)
    BY <1>1, <1>3 DEF TickerStep, TickerSelects, TickerPanics, TickerDone, BroadcastTick,
                TickerFires, lifeVars, DisconnectedInv, PastWait
<1>4. ASSUME UNCHANGED <<mainPc, todo>>,
             conn' = conn \/ \E c \in Clients : ConnectStep(c)
      PROVE  DisconnectedInv'
    <2>1. CASE PastWait
        <3>1. \A c \in Clients : conn[c] \in {"done", "failed"}
            BY <2>1 DEF LifeInv, Connected, PastWait
        <3>2. conn' = conn
            BY <1>4, <3>1 DEF ConnectStep, ConnectOK, ConnectFails, PoolAdd, IncConnection
        <3> QED
            BY <1>1, <1>4, <2>1, <3>2 DEF DisconnectedInv, PastWait
    <2>2. CASE ~PastWait
        BY <1>4, <2>2 DEF DisconnectedInv, PastWait
    <2> QED
        BY <2>1, <2>2
<1> QED
    BY <1>2, <1>3, <1>4, LifeStep DEF ConnectStep

\* With distinct IDs, the pool holds every connected client while the engine
\* runs, and Stop tells each of them to disconnect.
THEOREM ClientsReached ==
    ASSUME DistinctIDs
    PROVE  EngineSpec => [](EveryClientPooled /\ EveryClientDisconnected)
<1>1. EngineInit => PooledInv /\ DisconnectedInv
    BY DEF EngineInit, PooledInv, DisconnectedInv, PastWait
<1>2. EngineIInv /\ PooledInv /\ DisconnectedInv /\ [EngineNext]_engineVars
        => PooledInv' /\ DisconnectedInv'
    BY PooledNext, DisconnectedNext DEF EngineIInv, IInv
<1>3. PooledInv /\ DisconnectedInv => EveryClientPooled /\ EveryClientDisconnected
    BY DEF PooledInv, DisconnectedInv, PastWait, EveryClientPooled, EveryClientDisconnected
<1> QED
    BY <1>1, <1>2, <1>3, EngineInvariance, PTL DEF EngineSpec

\* The same of the pool alone.
THEOREM ClientsPooled ==
    ASSUME DistinctIDs
    PROVE  EngineSpec => []EveryClientPooled
BY ClientsReached, PTL

-----------------------------------------------------------------------------
(* The engine uses each client as ClientLink says.                         *)

Opened(c) == link[c] # "none"

\* Whoever may act on a client has it from a goroutine that connected it.
LinkInv ==
    /\ \A c \in Clients : conn[c] = "connecting" => ~Opened(c)
    /\ \A c \in Clients : conn[c] = "connected" => Opened(c)
    /\ \A c \in pool \cup todo : Opened(c)
    /\ \A h \in handlers : Opened(h.client)
    /\ \A n \in Submitted : Opened(accepted[n].client)

LinkVars(c) == <<link[c], isReceiving[c], losses[c]>>
EveryLink == \A c \in Clients : Link(c)!Next \/ UNCHANGED LinkVars(c)

\* Disconnect of a client that was opened is the one of its link.
LEMMA LinkDisconnects ==
    ASSUME LifeTypeOK, NEW c \in Clients, Opened(c), Disconnect(c), UNCHANGED losses
    PROVE  EveryLink /\ \A d \in Clients : Opened(d) <=> Opened(d)'
<1>1. ASSUME NEW d \in Clients
      PROVE  (Link(d)!Next \/ UNCHANGED LinkVars(d)) /\ (Opened(d) <=> Opened(d)')
  <2>1. CASE d = c
    <3>1. /\ UNCHANGED <<isReceiving[c], losses[c]>> /\ link[c] # "none"
          /\ link'[c] = "closed" \/ (losses[c] > 0 /\ link'[c] = "down")
        BY DEF Disconnect, LifeTypeOK, Opened
    <3>2. Link(c)!Disconnect
        BY <3>1 DEF Link!Disconnect
    <3> QED
        BY <2>1, <3>1, <3>2 DEF Link!Next, Opened
  <2>2. CASE d # c
      BY <2>2 DEF Disconnect, LifeTypeOK, LinkVars, Opened
  <2> QED
      BY <2>1, <2>2
<1> QED
    BY <1>1 DEF EveryLink

\* Only ConnectOK opens a link for the first time, and none is forgotten.
OpensOnly == \A c \in Clients : ConnectOK(c) \/ (Opened(c) <=> Opened(c)')

\* What a step of the engine does to the links.
LEMMA LinkStep ==
    ASSUME TypeOK, WorkersSane, LifeTypeOK, LinkInv, [EngineNext]_engineVars
    PROVE  EveryLink /\ OpensOnly
<1>1. ASSUME UNCHANGED <<link, isReceiving, losses>>
      PROVE  EveryLink /\ OpensOnly
    BY <1>1 DEF EveryLink, LinkVars, OpensOnly, Opened
<1>2. ASSUME NEW c \in Clients, ConnectStep(c) \/ LinkLost(c) \/ Reconnected(c) \/ MessageArrives(c)
      PROVE  EveryLink /\ OpensOnly
  <2>1. CASE ConnectOK(c)
    <3>1. /\ link[c] = "none" /\ link' = [link EXCEPT ![c] = "up"]
          /\ UNCHANGED <<isReceiving, losses>>
        BY <2>1 DEF ConnectOK, LinkInv, Opened, boundVars
    <3>2. Link(c)!Open
        BY <3>1 DEF Link!Open, LifeTypeOK
    <3> QED
        BY <2>1, <3>1, <3>2 DEF Link!Next, EveryLink, LinkVars, OpensOnly, Opened, LifeTypeOK
  <2>2. CASE LinkLost(c)
    <3>1. /\ link[c] = "up" /\ link' = [link EXCEPT ![c] = "down"]
          /\ losses' = [losses EXCEPT ![c] = @ + 1] /\ UNCHANGED isReceiving
        BY <2>2 DEF LinkLost
    <3>2. losses[c] \in Nat /\ losses'[c] = losses[c] + 1
        BY <3>1 DEF LifeTypeOK
    <3>3. losses'[c] > 0
        BY <3>2
    <3>4. Link(c)!Lose
        BY <3>1, <3>3 DEF Link!Lose, LifeTypeOK
    <3> QED
        BY <3>1, <3>4 DEF Link!Next, EveryLink, LinkVars, OpensOnly, Opened, LifeTypeOK
  <2>3. CASE Reconnected(c)
    <3>1. /\ link[c] = "down" /\ link' = [link EXCEPT ![c] = "up"]
          /\ UNCHANGED <<isReceiving, losses>>
        BY <2>3 DEF Reconnected, boundVars
    <3>2. Link(c)!Reopen
        BY <3>1 DEF Link!Reopen, LifeTypeOK
    <3> QED
        BY <3>1, <3>2 DEF Link!Next, EveryLink, LinkVars, OpensOnly, Opened, LifeTypeOK
  <2>4. CASE MessageArrives(c) \/ ConnectFails(c) \/ PoolAdd(c) \/ IncConnection(c)
    <3>1. UNCHANGED <<link, isReceiving, losses>>
        BY <2>4 DEF MessageArrives, ConnectFails, PoolAdd, IncConnection, clientVars, boundVars
    <3> QED
        BY <1>1, <3>1
  <2> QED
      BY <1>2, <2>1, <2>2, <2>3, <2>4 DEF ConnectStep
<1>3. ASSUME NEW c \in Clients, StopDisconnects(c)
      PROVE  EveryLink /\ OpensOnly
  <2>1. Opened(c) /\ Disconnect(c) /\ UNCHANGED losses
      BY <1>3 DEF StopDisconnects, LinkInv, boundVars
  <2> QED
      BY <2>1, LinkDisconnects DEF OpensOnly
<1>4. CASE StopAllClients
  <2>1. /\ isReceiving' = [c \in Clients |-> isReceiving[c] /\ c \notin pool]
        /\ UNCHANGED <<link, losses>>
      BY <1>4 DEF StopAllClients, boundVars
  <2>2. ASSUME NEW c \in Clients
        PROVE  Link(c)!Next \/ UNCHANGED LinkVars(c)
    <3>1. CASE c \in pool
        BY <2>1, <3>1 DEF Link!Next, Link!StopReceiving
    <3>2. CASE c \notin pool
        BY <2>1, <3>2 DEF LinkVars, LifeTypeOK
    <3> QED
        BY <3>1, <3>2
  <2> QED
      BY <2>1, <2>2 DEF EveryLink, OpensOnly, Opened
<1>5. ASSUME NEW w \in Workers, WorkerDisconnects(w)
      PROVE  EveryLink /\ OpensOnly
  <2>1. current[w] \in Submitted
      BY <1>5 DEF WorkerDisconnects, WorkersSane, Busy
  <2>2. accepted[current[w]].client \in Clients /\ Opened(accepted[current[w]].client)
      BY <2>1, AcceptedFacts DEF LinkInv
  <2>3. Disconnect(accepted[current[w]].client) /\ UNCHANGED losses
      BY <1>5 DEF WorkerDisconnects, boundVars
  <2> QED
      BY <2>2, <2>3, LinkDisconnects DEF OpensOnly
<1>6. CASE \/ ConnectAllReturns \/ StartTicker \/ StopGlobalTicker \/ StopClosesQueue \/ StopWaits
           \/ StopReturns \/ StopCancels \/ TickerStep \/ TickerFires
           \/ \E h \in handlers : HandlerSubmits(h)
           \/ \E w \in Workers : WorkerRuns(w) \/ WorkerCalls(w)
           \/ UNCHANGED engineVars
  <2>1. UNCHANGED <<link, isReceiving, losses>>
      BY <1>6 DEF ConnectAllReturns, StartTicker, StopGlobalTicker, StopClosesQueue, StopWaits,
                  StopReturns, StopCancels, TickerStep, TickerSelects, TickerPanics, TickerDone,
                  BroadcastTick, TickerFires, HandlerSubmits, WorkerRuns, WorkerCalls, clientVars,
                  boundVars, engineVars
  <2> QED
      BY <1>1, <2>1
<1> QED
    BY <1>2, <1>3, <1>4, <1>5, <1>6 DEF EngineNext, MainStep, WorkerReturns

\* Only a submission, of a handler of the client, is accepted.
LEMMA AcceptedStep ==
    ASSUME TypeOK, LifeTypeOK, LinkInv, [EngineNext]_engineVars
    PROVE  \A n \in Submitted' : \E c \in Clients : accepted'[n].client = c /\ Opened(c)
<1>1. ASSUME UNCHANGED accepted
      PROVE  \A n \in Submitted' : \E c \in Clients : accepted'[n].client = c /\ Opened(c)
    BY <1>1, AcceptedFacts DEF LinkInv, Submitted
<1>2. ASSUME NEW h \in handlers, HandlerSubmits(h)
      PROVE  \A n \in Submitted' : \E c \in Clients : accepted'[n].client = c /\ Opened(c)
  <2>1. CASE \E acts \in Batches : Enqueue(h.client, acts)
    <3>1. PICK acts : accepted' = Append(accepted, [client |-> h.client, actions |-> acts])
        BY <2>1 DEF Enqueue
    <3>2. accepted \in Seq(ActionWithContext) /\ Len(accepted) \in Nat
        BY DEF TypeOK
    <3>3. Submitted' = 1..(Len(accepted) + 1)
        BY <3>1, <3>2 DEF Submitted
    <3>4. \A n \in Submitted : accepted'[n] = accepted[n]
        BY <3>1, <3>2 DEF Submitted
    <3>5. accepted'[Len(accepted) + 1].client = h.client
        BY <3>1, <3>2
    <3>6. h.client \in Clients /\ Opened(h.client)
        BY DEF LifeTypeOK, Handler, LinkInv
    <3>7. \A n \in Submitted' : n \in Submitted \/ n = Len(accepted) + 1
        BY <3>2, <3>3 DEF Submitted
    <3> QED
        BY <3>4, <3>5, <3>6, <3>7, AcceptedFacts DEF LinkInv
  <2>2. CASE UNCHANGED accepted
      BY <1>1, <2>2
  <2>3. UNCHANGED accepted \/ \E acts \in Batches : Enqueue(h.client, acts)
      BY <1>2 DEF HandlerSubmits, SubmitActions, SendOnClosed, Drop, vars, historyVars
  <2> QED
      BY <2>1, <2>2, <2>3
<1>3. CASE MainStep \/ StopCancels \/ TickerStep \/ TickerFires \/ UNCHANGED engineVars
  <2>1. UNCHANGED accepted
      BY <1>3 DEF MainStep, ConnectAllReturns, StartTicker, StopGlobalTicker, StopAllClients,
                  StopClosesQueue, CloseQueue, StopWaits, StopDisconnects, StopReturns, StopCancels,
                  Cancel, TickerStep, TickerSelects, TickerPanics, TickerDone, BroadcastTick,
                  TickerFires, engineVars, vars, historyVars
  <2> QED
      BY <1>1, <2>1
<1>4. ASSUME NEW c \in Clients,
             ConnectStep(c) \/ MessageArrives(c) \/ LinkLost(c) \/ Reconnected(c)
      PROVE  UNCHANGED accepted
    BY <1>4 DEF ConnectStep, ConnectOK, ConnectFails, PoolAdd, IncConnection, MessageArrives,
                LinkLost, Reconnected, vars, historyVars
<1>5. ASSUME NEW w \in Workers, WorkerRuns(w) \/ WorkerReturns(w)
      PROVE  UNCHANGED accepted
    BY <1>5 DEF WorkerRuns, WorkerReturns, WorkerCalls, WorkerDisconnects, WorkerStep, Dequeue,
                WorkerExit, StartUnlimited, WaitLimiter, LimiterGrant, LimiterError, ExecuteOK,
                ExecuteError, ExecutePanics, historyVars, counterVars
<1> QED
    BY <1>1, <1>2, <1>3, <1>4, <1>5 DEF EngineNext

LEMMA LinkInvNext ==
    ASSUME TypeOK, WorkersSane, LifeTypeOK, LinkInv, [EngineNext]_engineVars
    PROVE  LinkInv'
<1>1. EveryLink /\ OpensOnly
    BY LinkStep
<1>2. \A c \in Clients : Opened(c) => Opened(c)'
    BY <1>1 DEF OpensOnly, ConnectOK, Opened, LifeTypeOK
<1>3. (\A n \in Submitted : Opened(accepted[n].client))'
  <2> SUFFICES ASSUME NEW n \in Submitted'
               PROVE  Opened(accepted[n].client)'
      OBVIOUS
  <2>1. PICK c \in Clients : accepted'[n].client = c /\ Opened(c)
      BY AcceptedStep
  <2>2. Opened(c)'
      BY <1>2, <2>1
  <2> QED
      BY <2>1, <2>2 DEF Opened
<1>4. (\A c \in Clients : conn[c] = "connecting" => ~Opened(c))'
  <2>1. \A c \in Clients : conn'[c] = "connecting" => conn[c] = "connecting" /\ ~ConnectOK(c)
    <3>1. conn' = conn \/ \E c \in Clients : ConnectStep(c)
        BY LifeStep DEF ConnectStep, MainStep, ConnectAllReturns, StartTicker, StopGlobalTicker,
                    StopAllClients, StopClosesQueue, StopWaits, StopDisconnects, StopReturns, StopCancels,
                    TickerStep, TickerSelects, TickerPanics, TickerDone, BroadcastTick, TickerFires, lifeVars
    <3> QED
        BY <3>1 DEF ConnectStep, ConnectOK, ConnectFails, PoolAdd, IncConnection, LifeTypeOK
  <2> QED
      BY <1>1, <2>1 DEF OpensOnly, LinkInv
<1>5. (\A c \in Clients : conn[c] = "connected" => Opened(c))'
  <2>1. \A c \in Clients : conn'[c] = "connected" => conn[c] = "connected" \/ ConnectOK(c)
    <3>1. conn' = conn \/ \E c \in Clients : ConnectStep(c)
        BY LifeStep DEF ConnectStep, MainStep, ConnectAllReturns, StartTicker, StopGlobalTicker,
                    StopAllClients, StopClosesQueue, StopWaits, StopDisconnects, StopReturns, StopCancels,
                    TickerStep, TickerSelects, TickerPanics, TickerDone, BroadcastTick, TickerFires, lifeVars
    <3> QED
        BY <3>1 DEF ConnectStep, ConnectOK, ConnectFails, PoolAdd, IncConnection, LifeTypeOK
  <2>2. \A c \in Clients : ConnectOK(c) => Opened(c)'
      BY DEF ConnectOK, Opened, LifeTypeOK
  <2> QED
      BY <1>2, <2>1, <2>2 DEF LinkInv
<1>6. (\A c \in pool \cup todo : Opened(c))'
  <2>1. \A c \in pool' \cup todo' : c \in pool \cup todo \/ (c \in Clients /\ conn[c] = "connected")
    <3>1. CASE MainStep \/ StopCancels \/ TickerStep \/ TickerFires
        BY <3>1 DEF MainStep, ConnectAllReturns, StartTicker, StopGlobalTicker, StopAllClients,
                    StopClosesQueue, StopWaits, StopDisconnects, StopReturns, StopCancels, TickerStep,
                    TickerSelects, TickerPanics, TickerDone, BroadcastTick, TickerFires, lifeVars
    <3>2. CASE \E c \in Clients : PoolAdd(c) \/ IncConnection(c)
        BY <3>2 DEF PoolAdd, IncConnection
    <3> QED
        BY <3>1, <3>2, LifeStep
  <2>2. pool \subseteq Clients /\ todo \subseteq Clients
      BY DEF LifeTypeOK
  <2> QED
      BY <1>2, <2>1, <2>2 DEF LinkInv
<1>7. (\A h \in handlers : Opened(h.client))'
  <2>1. \A h \in handlers' : \/ h \in handlers
                             \/ h.client \in Clients /\ (ConnectOK(h.client) \/ Opened(h.client))
    <3>1. ASSUME NEW c \in Clients,
                 ConnectStep(c) \/ MessageArrives(c) \/ LinkLost(c) \/ Reconnected(c)
          PROVE  \A h \in handlers' : \/ h \in handlers
                                      \/ h.client = c /\ (ConnectOK(c) \/ Opened(c))
        BY <3>1 DEF ConnectStep, ConnectOK, ConnectFails, PoolAdd, IncConnection, MessageArrives,
                    LinkLost, Reconnected, OnConnect, OnMessage, Opened, lifeVars
    <3>2. CASE BroadcastTick
      <4>1. PICK reconnecting \in SUBSET {c \in pool : link[c] = "down"} :
                handlers' = handlers \cup
                  {OnTick(c, globalTick) : c \in {d \in pool : link[d] = "up"} \cup reconnecting}
          BY <3>2 DEF BroadcastTick
      <4>2. \A c \in pool : OnTick(c, globalTick).client = c /\ c \in Clients /\ Opened(c)
          BY DEF OnTick, LinkInv, LifeTypeOK
      <4> QED
          BY <4>1, <4>2
    <3>3. CASE \/ MainStep \/ StopCancels \/ TickerSelects \/ TickerPanics \/ TickerDone \/ TickerFires
               \/ \E h \in handlers : HandlerSubmits(h)
               \/ \E w \in Workers : WorkerRuns(w) \/ WorkerReturns(w)
               \/ UNCHANGED engineVars
      <4>1. handlers' \subseteq handlers
          BY <3>3 DEF MainStep, ConnectAllReturns, StartTicker, StopGlobalTicker, StopAllClients,
                      StopClosesQueue, StopWaits, StopDisconnects, StopReturns, StopCancels,
                      TickerSelects, TickerPanics, TickerDone, TickerFires, HandlerSubmits, WorkerRuns,
                      WorkerReturns, WorkerCalls, WorkerDisconnects, engineVars
      <4> QED
          BY <4>1
    <3> QED
        BY <3>1, <3>2, <3>3 DEF EngineNext, TickerStep
  <2>2. \A c \in Clients : ConnectOK(c) => Opened(c)'
      BY DEF ConnectOK, Opened, LifeTypeOK
  <2>3. \A h \in handlers : h.client \in Clients
      BY DEF LifeTypeOK, Handler
  <2> QED
      BY <1>2, <2>1, <2>2, <2>3 DEF LinkInv
<1> QED
    BY <1>3, <1>4, <1>5, <1>6, <1>7 DEF LinkInv

LEMMA LinksInitially == EngineInit => LinkInv /\ \A c \in Clients : Link(c)!Init
<1> SUFFICES ASSUME EngineInit
             PROVE  LinkInv /\ \A c \in Clients : Link(c)!Init
    OBVIOUS
<1>1. Submitted = {}
    BY DEF EngineInit, Init, Submitted
<1>2. LinkInv
    BY <1>1 DEF EngineInit, LinkInv, Opened
<1>3. \A c \in Clients : losses[c] = 0
    BY DEF EngineInit
<1>4. \A c \in Clients : link[c] = "none" /\ isReceiving[c] = TRUE
    BY DEF EngineInit
<1>5. ASSUME NEW c \in Clients
      PROVE  Link(c)!Init
  <2>1. (losses[c] > 0) = FALSE
    <3>1. losses[c] = 0
        BY <1>3
    <3>2. ~(0 > 0)
        OBVIOUS
    <3> QED
        BY <3>1, <3>2
  <2> QED
      BY <1>4, <2>1 DEF Link!Init
<1> QED
    BY <1>2, <1>5

\* The engine uses each client as ClientLink allows, for any number of
\* clients, workers, ticks and losses, whether or not clients share an ID:
\* what MqttClient implements is what the engine relies on.
THEOREM EngineUsesLinks == EngineSpec => LinksSpec
<1>1. EngineIInv => TypeOK /\ WorkersSane /\ LifeTypeOK
    BY DEF EngineIInv, IInv
<1>2. EngineIInv /\ LinkInv /\ [EngineNext]_engineVars => LinkInv'
    BY <1>1, LinkInvNext
<1>3. EngineIInv /\ LinkInv /\ [EngineNext]_engineVars
        => [\A c \in Clients : Link(c)!Next \/ UNCHANGED <<link[c], isReceiving[c], losses[c]>>
           ]_<<link, isReceiving, losses>>
  <2> SUFFICES ASSUME EngineIInv, LinkInv, [EngineNext]_engineVars
               PROVE  \A c \in Clients : Link(c)!Next \/ UNCHANGED <<link[c], isReceiving[c], losses[c]>>
      OBVIOUS
  <2> QED
      BY <1>1, LinkStep DEF EveryLink, LinkVars
<1>4. EngineSpec => []LinkInv
    BY <1>2, LinksInitially, EngineInvariance, PTL DEF EngineSpec
<1> QED
    BY <1>3, <1>4, LinksInitially, EngineInvariance, PTL DEF EngineSpec, LinksSpec
=============================================================================
