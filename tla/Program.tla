------------------------------- MODULE Program -------------------------------
(***************************************************************************)
(* The program from its configuration to its exit: main of                 *)
(* cmd/conn-conductor, LoadConfig, the metrics server, the behaviour,      *)
(* NewEngine with its rate limiters, the clients it connects, and what     *)
(* they ask of their libraries because of the configuration.               *)
(*                                                                         *)
(* The engine is seen from outside: WorkerPool and Engine show that each   *)
(* client has a mailbox, todo[i], that is worked off in order, and that a  *)
(* list of actions may be dropped whole; MqttClient and XmppClient show    *)
(* how a call may fail.                                                    *)
(***************************************************************************)
EXTENDS Behaviors, Inform

CONSTANTS
    Configs,             \* what the configuration file may say
    IQs,                 \* the IQs the server may send to a CWMP client
    MaxMessages,         \* bound: messages to all clients
    MaxTicks,            \* bound: ticks of the global ticker
    MaxLosses            \* bound: connections lost by all clients

ASSUME ProgramAssumption ==
    /\ {MaxMessages, MaxTicks, MaxLosses} \subseteq Nat
    /\ \A c \in Configs :
           /\ {"connections", "mode", "clientID", "prefix", "custom", "rates",
               "onConnect", "onMessage", "onTimer"} \subseteq DOMAIN c
           /\ {c.onConnect, c.onMessage, c.onTimer} \subseteq Entries
           /\ \A k \in DOMAIN c.rates : c.rates[k].rate \in Int /\ c.rates[k].burst \in Int
           /\ c.custom.eventCodes \in Seq(STRING)

VARIABLES
    main,                \* where the main goroutine is
    config,              \* the configuration, with its defaults once loaded
    behavior,            \* the mode of the behaviour
    factory,             \* the connector factory
    limiters,            \* the burst of each limiter there is
    server,              \* the metrics server
    scraping,            \* a request of the metrics server is being answered
    signalled,           \* a signal was received
    link,                \* the connection of each client
    pool,                \* Engine.pool: the clients it holds, one for each ID
    todo,                \* the actions each client has still to execute
    calls,               \* history: what each client asked of its library
    refused,             \* history: a limiter gave up before Stop
    asked,               \* history: the connection requests received
    tick,                \* Engine.globalTick
    messages, losses     \* bound counters

setupVars  == <<config, behavior, factory, limiters>>
serverVars == <<server, scraping>>
clientVars == <<link, pool, todo, calls, refused, asked, messages, losses>>
vars == <<main, setupVars, serverVars, signalled, clientVars, tick, informVars>>

Starting == {"load", "metrics", "behavior", "engine", "connect", "notify"}
Stopping == {"shutdown", "cancel", "close", "drain", "disconnect", "exit"}
Working  == {"connect", "notify", "wait", "shutdown", "cancel", "close", "drain"}

Cancelled == main \in {"close", "drain", "disconnect", "exit"}

Init ==
    /\ main = "load"
    /\ config \in Configs
    /\ behavior = "none"
    /\ factory = "none"
    /\ limiters = [kind \in {} |-> 0]
    /\ server = "none"
    /\ scraping = FALSE
    /\ signalled = FALSE
    /\ link = [i \in Fleet |-> "none"]
    /\ pool = {}
    /\ todo = [i \in Fleet |-> <<>>]
    /\ calls = [i \in Fleet |-> <<>>]
    /\ refused = FALSE
    /\ asked = {}
    /\ tick = 0
    /\ messages = 0
    /\ losses = 0
    /\ InformInit

-----------------------------------------------------------------------------
(* LoadConfig.                                                             *)

Validated(entries, kinds) ==
    \A i \in DOMAIN entries : \A j \in DOMAIN entries[i].parts :
        LET p == entries[i].parts[j]
        IN  p.kind \in kinds => p.target # "" /\ p.qos \in 0..2

\* Mutant: the entries for messages are not validated.
ValidNoMessages(c) ==
    /\ c.connections >= 1
    /\ Validated(c.onConnect, {"subscribe", "send"})
    /\ Validated(c.onTimer, {"send"})
\* The subscriptions of a timer are not looked at.
Valid(c) ==
    /\ c.connections >= 1
    /\ Validated(c.onConnect, {"subscribe", "send"})
    /\ Validated(c.onTimer, {"send"})
    /\ Validated(c.onMessage, {"subscribe", "send"})

\* Naming the broker alone may or may not have its own fields validated: that
\* is the validator's.
LoadConfig ==
    /\ main = "load"
    /\ \/ /\ Valid(config)
          /\ config' = [config EXCEPT !.mode = IF @ = "" THEN "declarative" ELSE @]
          /\ main' = "metrics"
       \/ /\ ~Valid(config) \/ ~config.brokerOK
          /\ main' = "failed"
          /\ UNCHANGED config
    /\ UNCHANGED <<behavior, factory, limiters, serverVars, signalled, clientVars, tick, informVars>>

-----------------------------------------------------------------------------
(* The metrics server.                                                     *)

StartServer ==
    /\ main = "metrics"
    /\ main' = "behavior"
    /\ server' = IF config.metrics THEN "starting" ELSE "none"
    /\ UNCHANGED <<setupVars, scraping, signalled, clientVars, tick, informVars>>

\* ListenAndServe in its goroutine; its error is logged and that is all.
ServerListens ==
    /\ server = "starting"
    /\ server' \in {"listening", "failed"}
    /\ UNCHANGED <<main, setupVars, scraping, signalled, clientVars, tick, informVars>>

ScrapeBegins ==
    /\ server = "listening"
    /\ scraping' = TRUE
    /\ UNCHANGED <<main, setupVars, server, signalled, clientVars, tick, informVars>>

ScrapeEnds ==
    /\ scraping
    /\ scraping' = FALSE
    /\ UNCHANGED <<main, setupVars, server, signalled, clientVars, tick, informVars>>

-----------------------------------------------------------------------------
(* The behaviour and the engine.                                           *)

MakeBehavior ==
    /\ main = "behavior"
    /\ main' = "engine"
    /\ behavior' = NewBehavior(config.mode)
    /\ IF behavior' = "xmpp_cwmp"
       THEN InformConfigured(config.custom.eventCodes)
       ELSE UNCHANGED informVars
    /\ UNCHANGED <<config, factory, limiters, serverVars, signalled, clientVars, tick>>

\* Mutant: a burst that is not set stays zero.
BurstAsSet(kind, r) == r.burst
Burst(kind, r) ==
    CASE r.burst > 0          -> r.burst
      [] kind = "subscribe"   -> 1
      [] OTHER                -> r.rate

\* initRateLimiters; enable_rate_limit is not asked.
Limiters(rates) ==
    [kind \in {k \in DOMAIN rates : rates[k].rate > 0} |-> Burst(kind, rates[kind])]

\* Mutant: the behaviour is not asked which connectors it supports.
ConnectorNamed == config.connector \in {"mqtt", "xmpp"}
ConnectorOK ==
    /\ config.connector \in {"mqtt", "xmpp"}
    /\ config.connector \in SupportedConnectors(behavior)

NewEngine ==
    /\ main = "engine"
    /\ IF ConnectorOK
       THEN /\ factory' = config.connector
            /\ limiters' = Limiters(config.rates)
            /\ main' = "connect"
       ELSE main' = "failed" /\ UNCHANGED <<factory, limiters>>
    /\ UNCHANGED <<config, behavior, serverVars, signalled, clientVars, tick, informVars>>

-----------------------------------------------------------------------------
(* The clients.                                                            *)

Clients == {i \in Fleet : i <= config.connections}

\* GenerateClientID.
ClientID(i) ==
    IF config.clientID # "" THEN <<config.clientID>> ELSE <<config.prefix, i>>

\* ConnectionPool.Add: a client replaces the one that has the same ID.
PoolAdd(i) == pool' = {j \in pool : ClientID(j) # ClientID(i)} \cup {i}

\* SubmitActions: a list is taken whole or dropped whole.  Once the queues
\* are closed it kills the process (see Engine); that end is left out, and a
\* handler that is in flight then submits nothing.
Submit(i, list) ==
    \/ UNCHANGED todo
    \/ main # "drain" /\ todo' = [todo EXCEPT ![i] = @ \o list]

OnConnectLists ==
    CASE behavior = "declarative" -> Rendered(config.onConnect)
      [] behavior = "mqtt_usp"    -> {UspOnConnect(config.custom)}
      [] behavior = "xmpp_cwmp"   -> {<<>>}

\* connectAll's goroutine of a client: an XMPP client has no stream when
\* Connect returns.  Nobody reads the pool before all of them have returned.
Connect(i) ==
    /\ main = "connect"
    /\ link[i] = "none"
    /\ IF "connect" \in DOMAIN limiters /\ limiters["connect"] < 1
       THEN link' = [link EXCEPT ![i] = "failed"] /\ refused' = TRUE /\ UNCHANGED pool
       ELSE /\ \/ link' = [link EXCEPT ![i] = "opening"] /\ PoolAdd(i)
               \/ link' = [link EXCEPT ![i] = "failed"] /\ UNCHANGED pool
            /\ UNCHANGED refused
    /\ UNCHANGED <<main, setupVars, serverVars, signalled, todo, calls, asked, messages, losses,
                   tick, informVars>>

\* The first connection of a client, or the next: its handler submits what
\* OnConnect returns.
LinkUp(i) ==
    /\ main \in Working
    /\ link[i] \in {"opening", "lost"}
    /\ link' = [link EXCEPT ![i] = "up"]
    /\ \E list \in OnConnectLists : Submit(i, list)
    /\ UNCHANGED <<main, setupVars, serverVars, signalled, pool, calls, refused, asked, messages, losses,
                   tick, informVars>>

LinkLost(i) ==
    /\ main \in Working
    /\ link[i] = "up"
    /\ losses < MaxLosses
    /\ losses' = losses + 1
    /\ link' = [link EXCEPT ![i] = "lost"]
    /\ UNCHANGED <<main, setupVars, serverVars, signalled, pool, todo, calls, refused, asked, messages,
                   tick, informVars>>

\* Run of an XMPP stream manager returns an error.
RunFails(i) ==
    /\ factory = "xmpp"
    /\ link[i] = "opening"
    /\ link' = [link EXCEPT ![i] = "failed"]
    /\ UNCHANGED <<main, setupVars, serverVars, signalled, pool, todo, calls, refused, asked, messages,
                   losses, tick, informVars>>

\* StopAllClients tells the clients of the pool to stop receiving.
Receives(i) ==
    /\ main \in Working
    /\ main = "drain" => i \notin pool
    /\ link[i] = "up"
    /\ messages < MaxMessages

\* OnMessage of USP parses the record, or fails to, and has no answer to it.
UspReceives == behavior = "mqtt_usp" /\ UNCHANGED todo

MessageArrives(i) ==
    /\ Receives(i)
    /\ messages' = messages + 1
    /\ \/ behavior = "declarative" /\ \E list \in Rendered(config.onMessage) : Submit(i, list)
       \/ UspReceives
    /\ UNCHANGED <<main, setupVars, serverVars, signalled, link, pool, calls, refused, asked, losses,
                   tick, informVars>>

\* OnMessage of CWMP, for an IQ that is a connection request.
ConnectionRequest(i, iq) ==
    /\ Receives(i)
    /\ behavior = "xmpp_cwmp"
    /\ messages' = messages + 1
    /\ asked' = asked \cup {<<i, iq>>}
    /\ StartInforms(IF iq.authentic THEN {i} ELSE {}, 0)
    /\ Submit(i, <<CwmpAnswer(iq)>>)
    /\ UNCHANGED <<main, setupVars, serverVars, signalled, link, pool, calls, refused, losses, tick>>

\* Mutant: a client that has lost its stream does not count.
IsConnectedNow(i) == link[i] = "up"
\* An XMPP client that has lost its stream counts as connected, an MQTT client
\* may be told of a loss late; its handler may run after Connect has returned.
IsConnected(i) == link[i] \in {"up", "lost"} \/ (factory = "mqtt" /\ link[i] = "opening")

\* The ticker broadcasts: OnTick of each client of the pool that says it is
\* connected.
Tick ==
    /\ main \in {"notify", "wait", "shutdown", "cancel", "close"}
    /\ tick < MaxTicks
    /\ tick' = tick + 1
    /\ LET present  == {i \in pool : IsConnected(i)}
           interval == IF config.custom.interval <= 0 THEN 300 ELSE config.custom.interval
       IN  CASE behavior = "declarative" ->
                    /\ \E list \in [present -> Rendered(TimerEntries(config.onTimer, tick + 1)) \cup {<<>>}] :
                           todo' = [i \in Fleet |-> IF i \in present THEN todo[i] \o list[i] ELSE todo[i]]
                    /\ UNCHANGED informVars
             [] behavior = "mqtt_usp" -> UNCHANGED <<todo, informVars>>
             [] behavior = "xmpp_cwmp" ->
                    /\ UNCHANGED todo
                    /\ IF (tick + 1) % interval = 0
                       THEN StartInforms(present, tick + 1)
                       ELSE UNCHANGED informVars
    /\ UNCHANGED <<main, setupVars, serverVars, signalled, link, pool, calls, refused, asked, messages, losses>>

\* What the client of an action makes of it.
CallsOf(i, action) ==
    IF factory = "mqtt" THEN MqttCalls(action) ELSE XmppCalls(ClientID(i), action)

\* A client whose connection was lost may be about to dial again (see Engine).
Disconnect(i) ==
    \/ link' = [link EXCEPT ![i] = "closed"]
    \/ losses > 0 /\ link' = [link EXCEPT ![i] = "lost"]

\* executeAction: a limiter without burst gives up, and after cancellation
\* each of them does.
Execute(i) ==
    /\ main \in Working
    /\ todo[i] # <<>>
    /\ todo' = [todo EXCEPT ![i] = Tail(@)]
    /\ LET action  == Head(todo[i])
           limited == action.kind \in DOMAIN limiters
       IN  IF limited /\ (Cancelled \/ limiters[action.kind] < 1)
           THEN /\ refused' = (refused \/ ~Cancelled)
                /\ UNCHANGED <<calls, link>>
           ELSE /\ calls' = [calls EXCEPT ![i] = @ \o CallsOf(i, action)]
                /\ IF action.kind = "disconnect" THEN Disconnect(i) ELSE UNCHANGED link
                /\ UNCHANGED refused
    /\ UNCHANGED <<main, setupVars, serverVars, signalled, pool, asked, messages, losses, tick,
                   informVars>>

\* sendInformHTTP, in goroutines nobody waits for.
InformStep(g) ==
    /\ main \notin {"failed", "killed", "exit"}
    /\ PostInform(g, config.custom.acsURL)
    /\ UNCHANGED <<main, setupVars, serverVars, signalled, clientVars, tick>>

-----------------------------------------------------------------------------
(* Run returns, and then a signal ends the program.                        *)

RunReturns ==
    /\ main = "connect"
    /\ \A i \in Clients : link[i] # "none"
    /\ main' = "notify"
    /\ UNCHANGED <<setupVars, serverVars, signalled, clientVars, tick, informVars>>

Notify ==
    /\ main = "notify"
    /\ main' = "wait"
    /\ UNCHANGED <<setupVars, serverVars, signalled, clientVars, tick, informVars>>

\* Before signal.Notify a signal kills the process; after it, a signal is
\* kept, and the ones after the first change nothing.
Signal ==
    \/ /\ main \in Starting
       /\ main' = "killed"
       /\ UNCHANGED signalled
    \/ /\ main = "wait" /\ ~signalled
       /\ signalled' = TRUE
       /\ UNCHANGED main

SignalArrives ==
    /\ Signal
    /\ UNCHANGED <<setupVars, serverVars, clientVars, tick, informVars>>

\* Shutdown closes the listener, also of a server that has yet to listen.
StopBegins ==
    /\ main = "wait" /\ signalled
    /\ IF server = "none"
       THEN main' = "cancel" /\ UNCHANGED server
       ELSE main' = "shutdown" /\ server' = "closed"
    /\ UNCHANGED <<setupVars, scraping, signalled, clientVars, tick, informVars>>

\* Mutant: Shutdown has a context without a deadline.
ShutdownPatient ==
    /\ main = "shutdown"
    /\ ~scraping
    /\ main' = "cancel"
    /\ UNCHANGED <<setupVars, serverVars, signalled, clientVars, tick, informVars>>
\* Shutdown waits for the requests in progress, or for five seconds.
ShutdownReturns ==
    /\ main = "shutdown"
    /\ main' = "cancel"
    /\ UNCHANGED <<setupVars, serverVars, signalled, clientVars, tick, informVars>>

StopCancels ==
    /\ main = "cancel"
    /\ main' = "close"
    /\ UNCHANGED <<setupVars, serverVars, signalled, clientVars, tick, informVars>>

StopCloses ==
    /\ main = "close"
    /\ main' = "drain"
    /\ UNCHANGED <<setupVars, serverVars, signalled, clientVars, tick, informVars>>

StopWaits ==
    /\ main = "drain"
    /\ \A i \in Fleet : todo[i] = <<>>
    /\ main' = "disconnect"
    /\ UNCHANGED <<setupVars, serverVars, signalled, clientVars, tick, informVars>>

\* DisconnectAll: the clients of the pool, which is empty then.
StopDisconnects ==
    /\ main = "disconnect"
    /\ main' = "exit"
    /\ link' = [i \in Fleet |-> IF i \in pool /\ link[i] # "failed" THEN "closed" ELSE link[i]]
    /\ pool' = {}
    /\ UNCHANGED <<setupVars, serverVars, signalled, todo, calls, refused, asked, messages, losses,
                   tick, informVars>>

-----------------------------------------------------------------------------
MainStep ==
    \/ LoadConfig \/ StartServer \/ MakeBehavior \/ NewEngine \/ RunReturns \/ Notify
    \/ StopBegins \/ ShutdownReturns \/ StopCancels \/ StopCloses \/ StopWaits \/ StopDisconnects

Next ==
    \/ MainStep
    \/ SignalArrives
    \/ main \notin {"failed", "killed", "exit"} /\ (ServerListens \/ ScrapeBegins \/ ScrapeEnds)
    \/ Tick
    \/ \E i \in Clients :
           \/ Connect(i) \/ LinkUp(i) \/ LinkLost(i) \/ RunFails(i) \/ MessageArrives(i) \/ Execute(i)
           \/ \E iq \in IQs : ConnectionRequest(i, iq)
    \/ \E g \in sending : InformStep(g)
    \/ main \in {"failed", "killed", "exit"} /\ UNCHANGED vars

Spec == Init /\ [][Next]_vars

\* Goroutines are scheduled, timers fire and the calls into the clients return
\* (MqttClient and XmppClient show the ones that may not).  No signal has to come, no server
\* has to answer, no scrape has to end.  Each of these steps is taken a bounded
\* number of times, so none is left out.
FairSpec ==
    /\ Spec
    /\ WF_vars(MainStep)
    /\ WF_vars(Tick)
    /\ WF_vars(\E i \in Clients : Connect(i) \/ Execute(i))
    /\ WF_vars(\E g \in sending : InformStep(g))
-----------------------------------------------------------------------------
(* Properties.                                                             *)

\* A behaviour returns only actions that the client of the configured
\* connector can carry out, whatever mode was asked for, but for the answer
\* to a connection request without an ID: what the registry falls back to,
\* what NewEngine accepts and what the clients parse fit together.
ActionsSpeak ==
    \A i \in Fleet : \A k \in DOMAIN todo[i] :
        CallsOf(i, todo[i][k]) = <<>> =>
            behavior = "xmpp_cwmp" /\ StringAt(todo[i][k].metadata, "id") = ""

Parts(entries) == UNION {Range(e.parts) : e \in Range(entries)}
Asks(p, call) ==
    /\ p.target = call.target
    /\ p.qos = call.qos
    /\ \/ p.kind = "subscribe" /\ call.op = "subscribe"
       \/ p.kind = "send" /\ call.op = "publish" /\ p.retain = call.retain

\* What a declarative client asks of the broker is what the configuration
\* says of that topic, QoS and retain flag included, and a QoS there is:
\* through validation, metadata and the client's parsing.  A subscription of
\* a timer is not validated.
WireValid ==
    factory = "mqtt" /\ behavior = "declarative" =>
        \A i \in Fleet : \A k \in DOMAIN calls[i] :
            calls[i][k].op \in {"subscribe", "publish"} =>
                \/ /\ calls[i][k].qos \in 0..2
                   /\ \E p \in Parts(config.onConnect \o config.onMessage \o config.onTimer) :
                          Asks(p, calls[i][k])
                \/ \E p \in Parts(config.onTimer) : p.kind = "subscribe" /\ Asks(p, calls[i][k])

\* No limiter gives up an action or a connection before Stop, however its
\* burst is configured.
NoneRefused == ~refused

\* Until Stop cancels the limiters, a client that publishes a boot event has
\* asked, since its program started, for the topic under which the agent that
\* the record names is answered, over lost connections and dropped lists.
BootAnswerable ==
    behavior = "mqtt_usp" /\ ~Cancelled =>
        \A i \in Fleet : \A k \in DOMAIN calls[i] :
            calls[i][k].op = "publish" =>
                \E j \in 1..(k - 1) :
                    /\ calls[i][j].op = "subscribe"
                    /\ calls[i][j].target =
                           FormatTopic(UspSettings(config.custom).agentTopicFmt,
                                       calls[i][k].payload.value.fromID)

\* Every stanza of a CWMP client answers a request that this client received:
\* it goes to who asked, from the client's own JID, under the request's ID.
AnswersReachAsker ==
    factory = "xmpp" =>
        \A i \in Fleet : \A k \in DOMAIN calls[i] :
            \E q \in asked :
                /\ q[1] = i
                /\ calls[i][k] = [kind |-> "iq", to |-> q[2].from, from |-> ClientID(i), id |-> q[2].id,
                                   type |-> IF q[2].authentic THEN "result" ELSE "error"]

\* An Inform lists the configured event codes and then the one code of its
\* own cause, however many goroutines build theirs from the same list.
InformSaysWhy ==
    \A p \in posted : p.events = config.custom.eventCodes \o <<Code(p.tick)>>

\* A CWMP client that the pool holds once Run has returned and that has been
\* connected informs at every later multiple of the interval, also while its
\* stream is lost, unless the program ends.  One that another client with the
\* same ID has replaced does not (see PoolHoldsAll).
PeriodicOnTime ==
    \A i \in Fleet, n \in 1..MaxTicks :
        (/\ behavior = "xmpp_cwmp" /\ config.custom.acsURL = "good"
         /\ config.custom.interval > 0 /\ n % config.custom.interval = 0
         /\ main \in {"notify", "wait"} /\ i \in pool
         /\ link[i] \in {"up", "lost"} /\ tick < n)
        ~> (\/ \E p \in posted : p.client = i /\ p.tick = n
            \/ main \in Stopping \cup {"killed"})

\* After a signal the program exits, whoever is still reading its metrics.
SignalEnds == signalled ~> main = "exit"
=============================================================================
