-------------------------------- MODULE Engine --------------------------------
(***************************************************************************)
(* The life cycle of the engine around its worker pool: Run and Stop of    *)
(* pkg/engine/engine.go as main.go calls them, connectAll, the global      *)
(* ticker, the connection pool of pkg/connector, and the goroutines that   *)
(* hand actions to SubmitActions: the (re)connect and message handlers of  *)
(* a client and the goroutine of each client for each tick.                *)
(*                                                                         *)
(* The worker pool is WorkerPool: each step of this module takes a step of *)
(* the pool or leaves it alone.  A client is what the engine sees of it:   *)
(* its link, whether it still receives, whether it was told to disconnect. *)
(***************************************************************************)
EXTENDS WorkerPool

CONSTANTS
    ID,              \* ID[c]: the client ID of the client object c
    MaxTicks,        \* bound: ticks of the global ticker
    MaxMessages,     \* bound: messages delivered to a handler
    MaxLosses        \* bound: connections each client loses

\* The hash is a hash of the ID.  Client objects may share an ID.
ASSUME EngineAssumption ==
    /\ \A c, d \in Clients : ID[c] = ID[d] => Hash[c] = Hash[d]
    /\ IsFiniteSet(Clients)
    /\ {MaxTicks, MaxMessages} \subseteq Nat
    /\ MaxLosses \in [Clients -> Nat]

VARIABLES
    mainPc,          \* where the main goroutine is, in Run and then in Stop
    conn,            \* where connectAll's goroutine for each client is
    link,            \* the connection of each client, as its library sees it
    isReceiving,     \* Client.isReceiving
    isShuttingDown,  \* Client.isShuttingDown: Disconnect was called
    pool,            \* the clients ConnectionPool holds, one for an ID
    active,          \* the gauge conn_conductor_connections_active
    globalTicker,    \* Engine.globalTicker: "nil" or "live"
    tickerPc,        \* where the ticker goroutine is
    globalTick,      \* Engine.globalTick
    handlers,        \* goroutines in a behaviour's callback, about to submit
    todo,            \* the clients DisconnectAll has still to disconnect
    messages,        \* bound counter: messages delivered
    losses           \* the connections each client has lost

clientVars == <<link, isReceiving, isShuttingDown, active>>
tickerVars == <<globalTicker, tickerPc, globalTick>>
boundVars  == <<messages, losses>>
lifeVars   == <<mainPc, conn, pool, todo>>
engineVars == <<vars, clientVars, tickerVars, boundVars, lifeVars, handlers>>

\* tick is 0 but for a goroutine of broadcastTimerTick.
Handler == [client : Clients, source : {"connect", "message", "tick"}, tick : 0..MaxTicks]
OnConnect(c) == [client |-> c, source |-> "connect", tick |-> 0]
OnMessage(c) == [client |-> c, source |-> "message", tick |-> 0]
OnTick(c, n) == [client |-> c, source |-> "tick", tick |-> n]

\* The types of what the pool does not own.
LifeTypeOK ==
    /\ mainPc \in {"connectAll", "startTicker", "running", "stopTicker", "stopClients",
                   "closeQueues", "wait", "disconnectAll", "stopped"}
    /\ conn \in [Clients -> {"connecting", "connected", "added", "done", "failed"}]
    /\ link \in [Clients -> {"none", "up", "down", "closed"}]
    /\ isReceiving \in [Clients -> BOOLEAN]
    /\ isShuttingDown \in [Clients -> BOOLEAN]
    /\ pool \subseteq Clients
    /\ active \in Int
    /\ globalTicker \in {"nil", "live"}
    /\ tickerPc \in {"off", "loop", "select", "broadcast", "exited", "panicked"}
    /\ globalTick \in 0..MaxTicks
    /\ handlers \subseteq Handler
    /\ todo \subseteq Clients
    /\ messages \in 0..MaxMessages
    /\ losses \in [Clients -> Nat]

EngineTypeOK == TypeOK /\ LifeTypeOK

\* Run has made the pool and started the workers.
EngineInit ==
    /\ Init
    /\ mainPc = "connectAll"
    /\ conn = [c \in Clients |-> "connecting"]
    /\ link = [c \in Clients |-> "none"]
    /\ isReceiving = [c \in Clients |-> TRUE]
    /\ isShuttingDown = [c \in Clients |-> FALSE]
    /\ pool = {}
    /\ active = 0
    /\ globalTicker = "nil"
    /\ tickerPc = "off"
    /\ globalTick = 0
    /\ handlers = {}
    /\ todo = {}
    /\ messages = 0
    /\ losses = [c \in Clients |-> 0]

-----------------------------------------------------------------------------
(* connectAll: one goroutine per client.                                   *)

\* The library runs OnConnect in a goroutine of its own, which may submit
\* before Connect returns and before the client is in the pool.
ConnectOK(c) ==
    /\ conn[c] = "connecting"
    /\ conn' = [conn EXCEPT ![c] = "connected"]
    /\ link' = [link EXCEPT ![c] = "up"]
    /\ handlers' = handlers \cup {OnConnect(c)}
    /\ UNCHANGED <<vars, isReceiving, isShuttingDown, active, tickerVars, boundVars,
                   mainPc, pool, todo>>

ConnectFails(c) ==
    /\ conn[c] = "connecting"
    /\ conn' = [conn EXCEPT ![c] = "failed"]
    /\ UNCHANGED <<vars, clientVars, tickerVars, boundVars, mainPc, pool, todo, handlers>>

\* Mutant: Add makes the map anew.
PoolAddFresh(c) ==
    /\ conn[c] = "connected"
    /\ conn' = [conn EXCEPT ![c] = "added"]
    /\ pool' = {c}
    /\ UNCHANGED <<vars, clientVars, tickerVars, boundVars, mainPc, todo, handlers>>

\* ConnectionPool.Add writes a map keyed by ID: it replaces an earlier client.
PoolAdd(c) ==
    /\ conn[c] = "connected"
    /\ conn' = [conn EXCEPT ![c] = "added"]
    /\ pool' = {d \in pool : ID[d] # ID[c]} \cup {c}
    /\ UNCHANGED <<vars, clientVars, tickerVars, boundVars, mainPc, todo, handlers>>

IncConnection(c) ==
    /\ conn[c] = "added"
    /\ conn' = [conn EXCEPT ![c] = "done"]
    /\ active' = active + 1
    /\ UNCHANGED <<vars, link, isReceiving, isShuttingDown, tickerVars, boundVars,
                   mainPc, pool, todo, handlers>>

\* connectWg.Wait.
ConnectAllReturns ==
    /\ mainPc = "connectAll"
    /\ \A c \in Clients : conn[c] \in {"done", "failed"}
    /\ mainPc' = "startTicker"
    /\ UNCHANGED <<vars, clientVars, tickerVars, boundVars, conn, pool, todo, handlers>>

-----------------------------------------------------------------------------
(* The clients.                                                            *)

\* A message arrives; the handler has seen isReceiving and calls OnMessage.
\* The library delivers the messages of one client one after the other.
MessageArrives(c) ==
    /\ link[c] = "up"
    /\ isReceiving[c]
    /\ messages < MaxMessages
    /\ OnMessage(c) \notin handlers
    /\ handlers' = handlers \cup {OnMessage(c)}
    /\ messages' = messages + 1
    /\ UNCHANGED <<vars, clientVars, tickerVars, losses, lifeVars>>

LinkLost(c) ==
    /\ link[c] = "up"
    /\ losses[c] < MaxLosses[c]
    /\ link' = [link EXCEPT ![c] = "down"]
    /\ losses' = [losses EXCEPT ![c] = @ + 1]
    /\ UNCHANGED <<vars, isReceiving, isShuttingDown, active, tickerVars, messages,
                   lifeVars, handlers>>

\* Mutant: a client that is connected again receives again.
ReconnectedReceives(c) ==
    /\ link[c] = "down"
    /\ link' = [link EXCEPT ![c] = "up"]
    /\ handlers' = handlers \cup {OnConnect(c)}
    /\ isReceiving' = [isReceiving EXCEPT ![c] = TRUE]
    /\ UNCHANGED <<vars, isShuttingDown, active, tickerVars, boundVars, lifeVars>>

\* The library or the client's own loop is connected again: OnConnect runs,
\* whatever isReceiving and isShuttingDown say.
Reconnected(c) ==
    /\ link[c] = "down"
    /\ link' = [link EXCEPT ![c] = "up"]
    /\ handlers' = handlers \cup {OnConnect(c)}
    /\ UNCHANGED <<vars, isReceiving, isShuttingDown, active, tickerVars, boundVars,
                   lifeVars>>

\* A callback returns its actions and the goroutine hands them over.
HandlerSubmits(h) ==
    /\ handlers' = handlers \ {h}
    /\ \/ \E acts \in Batches : SubmitActions(h.client, acts)
       \/ UNCHANGED vars
    /\ UNCHANGED <<clientVars, tickerVars, boundVars, lifeVars>>

\* Disconnect.  It has no memory: each call decrements the gauge.  Once a
\* connection was lost a reconnect loop may be past its select, about to
\* dial: MqttClient shows how.
Disconnect(c) ==
    /\ isShuttingDown' = [isShuttingDown EXCEPT ![c] = TRUE]
    /\ active' = active - 1
    /\ \/ link' = [link EXCEPT ![c] = "closed"]
       \/ losses[c] > 0 /\ link' = [link EXCEPT ![c] = "down"]
    /\ UNCHANGED isReceiving

-----------------------------------------------------------------------------
(* The workers, with what Execute does to the client.                      *)

WorkerRuns(w) ==
    /\ WorkerStep(w)
    /\ UNCHANGED <<clientVars, tickerVars, boundVars, lifeVars, handlers>>

\* Send, Subscribe and Unsubscribe fail once the link is closed.
WorkerCalls(w) ==
    /\ Action(w) # "disconnect"
    /\ \/ ExecuteOK(w) /\ link[accepted[current[w]].client] # "closed"
       \/ ExecuteError(w)
       \/ ExecutePanics(w)
    /\ UNCHANGED <<clientVars, tickerVars, boundVars, lifeVars, handlers>>

\* Disconnect always returns nil.
WorkerDisconnects(w) ==
    /\ wpc[w] = "execute"
    /\ Action(w) = "disconnect"
    /\ ExecuteOK(w)
    /\ Disconnect(accepted[current[w]].client)
    /\ UNCHANGED <<tickerVars, boundVars, lifeVars, handlers>>

WorkerReturns(w) == Busy(w) /\ (WorkerCalls(w) \/ WorkerDisconnects(w))

-----------------------------------------------------------------------------
(* The global ticker.                                                      *)

\* Mutant: the goroutine starts before the ticker is assigned.
StartTickerLate ==
    /\ mainPc = "startTicker"
    /\ mainPc' = "running"
    /\ tickerPc' = "loop"
    /\ UNCHANGED <<vars, clientVars, globalTicker, globalTick, boundVars, conn, pool, todo,
                   handlers>>

StartTicker ==
    /\ mainPc = "startTicker"
    /\ mainPc' = "running"
    /\ globalTicker' = "live"
    /\ tickerPc' = "loop"
    /\ UNCHANGED <<vars, clientVars, globalTick, boundVars, conn, pool, todo, handlers>>

\* Entering the select evaluates e.globalTicker.C, each time round.
TickerSelects ==
    /\ tickerPc = "loop"
    /\ globalTicker = "live"
    /\ tickerPc' = "select"
    /\ UNCHANGED <<vars, clientVars, globalTicker, globalTick, boundVars, lifeVars, handlers>>

\* stopGlobalTicker has set the pointer to nil: the goroutine panics.
TickerPanics ==
    /\ tickerPc = "loop"
    /\ globalTicker = "nil"
    /\ tickerPc' = "panicked"
    /\ UNCHANGED <<vars, clientVars, globalTicker, globalTick, boundVars, lifeVars, handlers>>

\* No tick is delivered once Stop of the ticker has returned; between cancel
\* and that, select may take either.
TickerFires ==
    /\ tickerPc = "select"
    /\ globalTicker = "live"
    /\ globalTick < MaxTicks
    /\ globalTick' = globalTick + 1
    /\ tickerPc' = "broadcast"
    /\ UNCHANGED <<vars, clientVars, globalTicker, boundVars, lifeVars, handlers>>

TickerDone ==
    /\ tickerPc = "select"
    /\ cancelled
    /\ tickerPc' = "exited"
    /\ UNCHANGED <<vars, clientVars, globalTicker, globalTick, boundVars, lifeVars, handlers>>

\* A goroutine that nobody waits for, for each pooled client that says it is
\* connected: the library may say so of a client that is reconnecting.
BroadcastTick ==
    /\ tickerPc = "broadcast"
    /\ \E reconnecting \in SUBSET {c \in pool : link[c] = "down"} :
         handlers' = handlers \cup
            {OnTick(c, globalTick) : c \in {d \in pool : link[d] = "up"} \cup reconnecting}
    /\ tickerPc' = "loop"
    /\ UNCHANGED <<vars, clientVars, globalTicker, globalTick, boundVars, lifeVars>>

-----------------------------------------------------------------------------
(* Stop, on a signal that main.go waits for after Run has returned.        *)

StopCancels ==
    /\ mainPc = "running"
    /\ Cancel
    /\ mainPc' = "stopTicker"
    /\ UNCHANGED <<clientVars, tickerVars, boundVars, conn, pool, todo, handlers>>

StopGlobalTicker ==
    /\ mainPc = "stopTicker"
    /\ globalTicker' = "nil"
    /\ mainPc' = "stopClients"
    /\ UNCHANGED <<vars, clientVars, tickerPc, globalTick, boundVars, conn, pool, todo,
                   handlers>>

StopAllClients ==
    /\ mainPc = "stopClients"
    /\ isReceiving' = [c \in Clients |-> isReceiving[c] /\ c \notin pool]
    /\ mainPc' = "closeQueues"
    /\ UNCHANGED <<vars, link, isShuttingDown, active, tickerVars, boundVars, conn, pool,
                   todo, handlers>>

\* Mutant: closing a queue discards what it holds.
StopDiscardsQueue ==
    /\ mainPc = "closeQueues"
    /\ closedCount < WorkerCount
    /\ closedCount' = closedCount + 1
    /\ queues' = [queues EXCEPT ![closedCount] = <<>>]
    /\ mainPc' = IF closedCount' = WorkerCount THEN "wait" ELSE mainPc
    /\ UNCHANGED <<cancelled, workerVars, counterVars, crashed, historyVars, clientVars,
                   tickerVars, boundVars, conn, pool, todo, handlers>>

\* Mutant: the loop misses the last queue.
StopMissesQueue ==
    /\ mainPc = "closeQueues"
    /\ CloseQueue
    /\ mainPc' = IF closedCount' = WorkerCount - 1 THEN "wait" ELSE mainPc
    /\ UNCHANGED <<clientVars, tickerVars, boundVars, conn, pool, todo, handlers>>

StopClosesQueue ==
    /\ mainPc = "closeQueues"
    /\ CloseQueue
    /\ mainPc' = IF closedCount' = WorkerCount THEN "wait" ELSE mainPc
    /\ UNCHANGED <<clientVars, tickerVars, boundVars, conn, pool, todo, handlers>>

\* Mutant: wg counts the ticker goroutine only.
StopWaitsForTicker ==
    /\ mainPc = "wait"
    /\ tickerPc = "exited"
    /\ mainPc' = "disconnectAll"
    /\ todo' = pool
    /\ UNCHANGED <<vars, clientVars, tickerVars, boundVars, conn, pool, handlers>>

\* wg counts the workers and the ticker goroutine, not the handlers.
StopWaits ==
    /\ mainPc = "wait"
    /\ AllExited
    /\ tickerPc = "exited"
    /\ mainPc' = "disconnectAll"
    /\ todo' = pool
    /\ UNCHANGED <<vars, clientVars, tickerVars, boundVars, conn, pool, handlers>>

StopDisconnects(c) ==
    /\ mainPc = "disconnectAll"
    /\ c \in todo
    /\ todo' = todo \ {c}
    /\ Disconnect(c)
    /\ UNCHANGED <<vars, tickerVars, boundVars, mainPc, conn, pool, handlers>>

\* Mutant: DisconnectAll starts the calls and does not wait for them.
StopReturnsEarly ==
    /\ mainPc = "disconnectAll"
    /\ pool' = {}
    /\ mainPc' = "stopped"
    /\ UNCHANGED <<vars, clientVars, tickerVars, boundVars, conn, todo, handlers>>

StopReturns ==
    /\ mainPc = "disconnectAll"
    /\ todo = {}
    /\ pool' = {}
    /\ mainPc' = "stopped"
    /\ UNCHANGED <<vars, clientVars, tickerVars, boundVars, conn, todo, handlers>>

-----------------------------------------------------------------------------
MainStep ==
    \/ ConnectAllReturns \/ StartTicker
    \/ StopGlobalTicker \/ StopAllClients \/ StopClosesQueue \/ StopWaits
    \/ (\E c \in Clients : StopDisconnects(c)) \/ StopReturns

ConnectStep(c) == ConnectOK(c) \/ ConnectFails(c) \/ PoolAdd(c) \/ IncConnection(c)

TickerStep == TickerSelects \/ TickerPanics \/ TickerDone \/ BroadcastTick

\* The process runs until main returns or a goroutine panics.
Crashed == crashed \/ tickerPc = "panicked"
Alive == ~Crashed /\ mainPc # "stopped"

EngineNext ==
    \/ /\ Alive
       /\ \/ MainStep
          \/ StopCancels
          \/ TickerStep
          \/ TickerFires
          \/ \E c \in Clients : ConnectStep(c) \/ MessageArrives(c) \/ LinkLost(c) \/ Reconnected(c)
          \/ \E h \in handlers : HandlerSubmits(h)
          \/ \E w \in Workers : WorkerRuns(w) \/ WorkerReturns(w)
    \/ ~Alive /\ UNCHANGED engineVars

EngineSpec == EngineInit /\ [][EngineNext]_engineVars

\* Goroutines are scheduled and callbacks of a behaviour return.  Neither a
\* signal nor a message nor a reconnection has to come, and a call into a
\* client need not return.
EngineFairSpec ==
    /\ EngineSpec
    /\ WF_engineVars(Alive /\ MainStep)
    /\ WF_engineVars(Alive /\ TickerStep)
    /\ \A c \in Clients : WF_engineVars(Alive /\ ConnectStep(c))
    /\ \A w \in Workers : WF_engineVars(Alive /\ WorkerRuns(w))

-----------------------------------------------------------------------------
(* The inductive invariant: what holds at each place of the main goroutine *)
(* and of the ticker goroutine.                                            *)

Starting == mainPc \in {"connectAll", "startTicker"}
PastWait == mainPc \in {"disconnectAll", "stopped"}

\* The pointer to the ticker is set while the ticker goroutine needs it to
\* be, that is until Stop takes it away.
TickerGuarded ==
    /\ Starting => tickerPc = "off"
    /\ mainPc \in {"running", "stopTicker"} => globalTicker = "live"
    /\ PastWait => tickerPc = "exited"

\* A queue is closed only by Stop, and the workers have gone before the
\* clients are disconnected.
QueuesGuarded ==
    /\ closedCount > 0 => mainPc \in {"closeQueues", "wait", "disconnectAll", "stopped"}
    /\ crashed => closedCount > 0 /\ mainPc # "stopped"
    /\ tickerPc = "panicked" => mainPc \in {"stopClients", "closeQueues", "wait"}
    /\ PastWait => AllExited

\* After Run no goroutine of connectAll is left.
Connected == mainPc # "connectAll" => \A c \in Clients : conn[c] \in {"done", "failed"}

LifeInv == TickerGuarded /\ QueuesGuarded /\ Connected

\* With the pool's invariant, the engine's: the order of Run and of Stop
\* keeps the ticker, the queues and the connecting goroutines apart.
EngineIInv == IInv /\ LifeTypeOK /\ LifeInv

-----------------------------------------------------------------------------
(* Properties.                                                             *)

\* The process dies of a closed queue or a nil ticker only once Stop is at
\* work: no order of handlers, ticks and workers crashes a running engine.
CrashOnlyWhileStopping ==
    Crashed => mainPc \in {"stopClients", "closeQueues", "wait", "disconnectAll"}

\* Disconnect of a client is never called by a worker while Stop is
\* disconnecting clients: it closes stopReconnect after an unguarded test,
\* and two calls at once may close it twice.
DisconnectAlone ==
    PastWait => \A w \in Workers : ~Busy(w) /\ queues[w] = <<>>

\* The total Stop logs is final: when it disconnects the clients every batch
\* ever accepted has been served.
StopDrains == PastWait => done = Submitted

\* When Run has connected the clients, the pool, through which ticks, the
\* end of receiving and the disconnection reach them, holds each of them.
\* It takes IDs that are all different.
EveryClientPooled ==
    mainPc \in {"running", "stopTicker", "stopClients", "closeQueues", "wait"} =>
        \A c \in Clients : conn[c] = "done" => c \in pool

\* Stop "disconnects all clients": when it returns, each client object that
\* connected has been told to.
EveryClientDisconnected ==
    mainPc = "stopped" =>
        \A c \in Clients : conn[c] = "done" => isShuttingDown[c]

\* The engine uses its pool as WorkerPool describes it: it closes queues in
\* order, once, after the context is cancelled, and leaves the rest alone.
PoolSpec == Spec

Link(c) == INSTANCE ClientLink WITH
               link <- link[c], receiving <- isReceiving[c], lost <- losses[c] > 0

\* The engine uses each of its clients as MqttClient implements it: it opens
\* a link once, expects it back only from a client that has lost one, and
\* never makes a client receive again.
LinksSpec ==
    /\ \A c \in Clients : Link(c)!Init
    /\ [][\A c \in Clients : Link(c)!Next \/ UNCHANGED <<link[c], isReceiving[c], losses[c]>>
         ]_<<link, isReceiving, losses>>

\* Stop, once begun, returns (or the process dies): no worker, ticker or
\* queue keeps it waiting as long as the calls into the clients return.
StopEnds ==
    (\A w \in Workers : []<>(wpc[w] # "execute")) =>
        (mainPc = "stopTicker" ~> ~Alive)

\* What the program says of itself, and does not keep.

\* "Simulator stopped successfully" is logged after every Stop: no callback
\* in flight is killed by a send on a queue that Stop has closed.
NoSendOnClosedQueue == ~crashed

\* ... and the ticker goroutine that Stop waits for ends, it does not panic.
TickerNeverPanics == tickerPc # "panicked"

=============================================================================
