# A verification development for conn-conductor

conn-conductor simulates fleets of devices: it opens many MQTT or XMPP
connections, reacts to connections, messages and a one-second tick with actions
(send, subscribe, unsubscribe, disconnect), and executes them on a pool of
workers. This directory holds TLA+ modules translated from its Go source, the
TLC configurations that model-check them, and TLAPS proofs of the theorems that
matter most. `PROJECT.json` maps each definition to the lines it stands for.

## 1. Inventory

Concurrency is goroutines: one per worker, one for the ticker, one per client
for each tick, one per client while connecting, the callback goroutines of the
protocol libraries, and `main`.

| Component | State | Operations | Interacts with | What is hard |
|---|---|---|---|---|
| Action queues and worker pool (`pkg/engine/engine.go` 166-262) | one bounded channel per worker, counters | `SubmitActions`, `executeActions`, `executeAction` | callbacks submit, workers call into clients | order and exclusion per client rest on hashing to one queue; overflow drops; panics, errors, limiters after cancellation |
| Engine life cycle (`engine.go` 264-392, `cmd/conn-conductor/main.go`) | `pool`, `globalTicker`, `globalTick`, `ctx`, `wg` | `Run`, `connectAll`, `startGlobalTicker`, `broadcastTimerTick`, `stopGlobalTicker`, `Stop` | everything | `Stop` closes queues and clears the ticker under goroutines that it does not wait for |
| Connection pool (`pkg/connector/pool.go`) | a map from client ID to client | `Add`, `All`, `StopAllClients`, `DisconnectAll` (`Remove` has no caller) | engine | clients sharing an ID replace each other |
| MQTT client (`pkg/client/mqtt/client.go`) | `subscriptions`, `isShuttingDown`, `isReceiving`, `stopReconnect`, the library's client | `Connect`, its three callbacks, `reconnect`, `Subscribe`, `Unsubscribe`, `Send`, `Disconnect` | behaviour, engine, paho | locks released around network calls, a reconnect loop next to the library's own |
| XMPP client (`pkg/client/xmpp/client.go`) | `isConnected`, `isShuttingDown`, `isReceiving`, stream manager, stanza counter | `Connect`, `handlePacket`, `Send*`, `Disconnect` | behaviour, engine, gosrc.io/xmpp | `Connect` returns before the stream is up; `Disconnect` with a timeout; a dialogue whose answers wait in a queue |
| Behaviours (`pkg/behavior`) | read-only configuration | `OnConnect`, `OnMessage`, `OnTick` | clients, template engine, ACS over HTTP | one behaviour serves all clients, so its callbacks run at once; an entry fails half-way |
| Action metadata (`pkg/action/*/metadata.go`) | none | maps to records and back | clients, behaviours | conversions with defaults |
| Configuration, registry, factories (`pkg/config/config.go`, `pkg/behavior/registry.go`, `pkg/connector/factory.go`) | none | load, defaults, validation, choice of behaviour and client | `main`, engine | what validation lets through, what the registry falls back to |
| Rate limiters (`engine.go` 128-164) | a limiter for each kind | made from the configuration | `connectAll`, workers | defaults of the bursts, cancellation |
| Informs (`pkg/behavior/xmpp_cwmp.go` 124-137, 163-167, 214-256) | one `InformConfig` for all clients | periodic, or for a connection request, a goroutine each | ACS over HTTP | copies that share a slice's array |
| Program (`cmd/conn-conductor/main.go`, `pkg/metrics`) | the metrics server, the signal channel | load, start, run, signal, stop | everything | signals at every moment, a shutdown that waits for readers |
| Template engine (`pkg/config/template.go`) | cache, pool of generators | `ExecuteTemplate` | declarative behaviour | generators are not safe for concurrent use |
| Credential generator (`pkg/generator`) | none | IDs from an index, or one static ID | engine | distinctness |
| Metrics, logging, CWMP messages, USP protobuf | counters, writers | `StartServer`, `Stop` | `main` | formatting and I/O, but for the server |

What makes each correct:

- *Worker pool*: an accepted batch is served exactly once, the batches of a
  client one at a time and in the order of acceptance; a slow, failing or
  panicking action harms its own batch, or at most its own queue; the counters
  account for each action.
- *Life cycle*: every connected client is in the pool and is disconnected by
  `Stop`; `Stop` ends; it first lets the workers drain their queues, and nothing
  it takes away is used after that.
- *Connection pool*: holds each connected client.
- *Clients*: the subscription list describes the broker's; after `Disconnect`
  no connection comes back; the gauge is a count.
- *Template engine*: no generator is used by two goroutines at once.
- *Configuration to wire*: what is configured, validated and accepted is what the
  clients ask of their libraries; a behaviour and a client that are put together
  understand each other; no limiter refuses for ever.
- *Dialogues*: an answer goes to who asked; a device that announces itself can be
  answered; an Inform names its own cause and comes on time.
- *Program*: after a signal it ends, whoever reads its metrics.

## 2. Plan

1. `Mailbox`, `WorkerPool` and its proofs, `Engine` and its proofs: **done**.
2. `MqttClient` and its proofs, with `ClientLink` as the specification it
   implements and `Engine` relies on: **done**.
3. `XmppClient`, the client with the connection-request dialogue of CWMP, and its
   proofs: **done**. It implements `ClientLink` too.
4. `TemplateCache` and `Declarative`, the behaviour that calls it, and their
   proofs: **done**.
5. `Metadata` with its proofs, `Behaviors`, `Inform`, and `Program`, which composes
   them from the configuration to the exit, with its proofs: **done**.
6. The engine's side of `ClientLink` (`EngineUsesLinks`) and `ClientsPooled`: **done**.

Left: `Engine` takes the link to be up when `Connect` returns, which is true of MQTT
only. `Program`, which sees the engine from outside, opens the link of an XMPP
client later, or never; a refinement of `Program` by `Engine` with one of the
clients would need the three models in one state space.

## 3. Modules

### Mailbox
What the engine promises to a caller of `SubmitActions`: one mailbox per client
object; accepted batches are served once, one at a time per client, in order.
`Begin(c)` takes the oldest waiting batch of `c`, `End(c)` marks it done.
Refusing a batch is a stuttering step.

### WorkerPool (`MCWorkerPool`, `WorkerPoolProofs`)
`queues[w]` is `actionQueues[w]`, `wpc[w]`, `current[w]`, `pos[w]` are the program
counter and locals of worker `w`, `closedCount` the number of queues `Stop` has
closed, `cancelled` the context. A batch is its position in the history
variable `accepted`; `done` and `abandoned` are history too.
`Enqueue`/`Drop`/`SendOnClosed` are the outcomes of the `select` in
`SubmitActions`; `Dequeue`/`WorkerExit` the range statement;
`StartUnlimited`, `WaitLimiter`, `LimiterGrant`, `LimiterError` the switch of
`executeAction`; `ExecuteOK`, `ExecuteError`, `ExecutePanics` the three ways in
which `Execute` ends. `Execute` takes effect at the step that returns, with any
number of other steps between its start and its end. `IF` a limiter's `Wait`
fails, the action is skipped yet counted, as in the code.

### Engine (`MCEngine`, `EngineProofs`)
Extends `WorkerPool`. `mainPc` is the main goroutine in `Run` and `Stop`; `conn[c]`
the goroutine of `connectAll`; `tickerPc` the ticker goroutine; `handlers` the
goroutines that are inside a callback of the behaviour and will submit its
actions. `pool` is the connection pool as the set of client objects it holds:
`PoolAdd` removes the ones with the same `ID`. `Disconnect(c)` is the client's
operation, called by a worker (`WorkerDisconnects`) and by `Stop`
(`StopDisconnects`). A step that panics in a goroutine without `recover` ends the
process (`Alive`).

Modelling decisions a reader should know of:

- `QueueSize > 0` and `WorkerCount > 0`: the options ignore other values.
- The message handler of one client runs one message at a time (the MQTT
  library's order-matters default), so `handlers` is a set without duplicates;
  two pending connect callbacks of one client merge, which loses no behaviour
  the properties could tell apart, since each may submit any list.
- A client that has lost a connection before may have a dial in flight when
  `Disconnect` is called: its link may stay `down` and come up again.
  `LinksSpec` says that this is all the engine expects of its clients
  (`ClientLink`), and `MqttClient` shows that the MQTT client is like that.
- `Stop` is called after `Run` has returned, as `main.go` does, so the connect
  limiter's wait cannot be cancelled and has no error step.
- The Go version of `go.mod` delivers no tick after `Ticker.Stop`.

### ClientLink
The connection of one client, as small as the engine needs it: opened once, lost
and opened again, closed by a disconnection, or left `down` by one when a
connection had been lost before; `receiving`, once off, stays off. `Engine` uses
one for each client (`LinksSpec`), `MqttClient` and `XmppClient` implement it
(`LinkSpec`).

### MqttClient (`MCMqttClient`, `MqttClientProofs`)
One MQTT client. `subscriptions`, `isShuttingDown`, `isReceiving` are its fields,
`stopClosed` says that `stopReconnect` is closed and `panicked` that it was closed
again. `inbox` is what the queue of its worker holds of its actions, `wpc` and
`token` are the worker inside an action; `loops[i]` is the connection-lost handler of
the i-th loss and the `reconnect` loop it ends in; `mainPc` is `Connect` and then
`Stop`. A critical section under `mu` is one action, what happens
between two of them interleaves: `Begin`, `Request`, the token and `SubscribeLists` are
the steps of `Subscribe`; the flag, the test, the closing and the library's
call those of `Disconnect`.

- One worker serves all actions of a client, one after the other: this is what
  `SequentialPerClient` proves of the pool, so it is built in here.
- `status`, `broker`, `token` are the library and the broker, modelled from the
  options the client sets: clean sessions (a new connection has no subscriptions,
  and the client's own list is all there is), automatic reconnection left on
  (so that the `reconnect` loop runs beside it and mostly finds that the
  library says yes, `DialInVain`), connection retries left off.
- A publish of QoS 0 is over when it is written; one of QoS 1 or 2 is kept over a
  lost connection, while pending subscribe and unsubscribe tokens fail then.
- Whether the library reports a subscription that the broker refuses in the token's
  error, the only thing the client looks at (`client.go:234`), is left open: after
  `BrokerRefuses` the token may carry one or not.
- `torn` is history: the topics that the session did not have when the client listed
  them. Either the broker granted the subscription before a loss and the client listed
  it after having handled that loss, or the broker refused it and the token did not say
  so. The client believes in them and the broker does not know them; `AlreadySubscribed`
  then skips the subscription that `OnConnect` asks for. `NothingStale` states that
  there is no other way for the list to claim too much while every loss has been
  handled. It does not speak of the time between a reconnection by the library and a
  handler that is late: an `OnConnect` of that time finds its topics listed and skips
  them, and the handler then empties the list.
- `StopCancels` is the cancellation of the context: from then on the limiter of the
  action's kind, if there is one, makes the worker skip it (`LimiterRefuses`).
- `isInitialConnect` is written and never read; it is left out.

### TemplateCache, Declarative (`MCDeclarative`, `DeclarativeProofs`)
`TemplateCache` is `ExecuteTemplate`: `pc[g]` is where goroutine `g` is in it, `rng[g]`
the generator it took, `cache[s]` the generator the stored template of text `s` is
bound to, `private[g]` the one that `g`'s own template or copy is bound to. A
caller that stores its template executes the stored object, so from `Store` on it
has none of its own; `Drawing(g)` is the generator a caller's functions draw from.
Each critical section under `templateCacheMu` is one action; parsing, copying and
executing lie between them. `sync.Pool` may hand out a generator that was put
back or make one: any generator that nobody holds.

`Declarative` extends it with the callbacks, as the loop of `actionsToCommonActions`:
`entry[g]` is the entry that `g` has come to, `field[g]` the field of it by its place in
`FieldOrder`, the code's order, `rendered[g]` how many texts of the field are done and
`result[g]` the actions so far. `PassBy` goes past a field that is not set and an entry
that is not due, `RenderFails` is the `continue` after an error, `Emit` the `append`. An
entry is a function from the kinds of action it has to their texts. A text is a value that parses or not and executes
or not; what it expands to, and the metadata of the action, are abstracted.

### XmppClient (`MCXmppClient`, `XmppClientProofs`)
One XMPP client and the only behaviour that supports it, CWMP. `isConnected`,
`isShuttingDown`, `isReceiving` are its fields; `stream`, `dialer` and `hasHandler` are the
library: its stream, the goroutine that brings it up (`Run`'s first dial or the resume
loop) and the stream manager's event handler; `posting` counts the goroutines about
to run `postConnect`. `mainPc` is `Connect` and then `Stop`, `stopper` the goroutine in
which `Disconnect` calls `StreamManager.Stop`. `fate[r]` says what has become of the
request `r`, `inbox` what the queue of the client's worker holds, `informs` the requests
an Inform was started for, `sent` the answers on the stream.

- What the client relies on of the library is assumed: `Run` installs the event
  handler before it dials; the end of a stream makes an installed handler resume
  it; `Stop` first removes the handler, then closes the stream and waits for the
  server; the library's `Disconnect` closes the stream in the same way. Neither close
  has to end while there is a stream. A resume loop may give up.
- So the five-second timeout bounds the wait for the stream manager (`client.go:426-431`), but
  not the client's own close after it (`client.go:434-436`). `DisconnectEnds` states what the
  timeout achieves: `Disconnect` ends, or waits for ever in that second close for a server
  that never ends the stream; it never waits for ever for the stream manager.
- The library is assumed to hand the payload of a connection request to the client as
  `IQ.Payload`, which is all `Payload()` looks at (`client.go:86-95`). Nothing in the
  repository registers the request's XML name with the library; where the library
  keeps what it does not know elsewhere, each request is one with the body `other`,
  which the model treats too.
- Requests that are not well-formed are ignored (`garbled`); answers without an
  ID are refused by `ParseStanzaMetadata`, and after `StopCancels` the limiter of sends
  may refuse any (`SendFails`).
- `Disconnect` decides by `isConnected`, and the stream is up before `postConnect`
  sets it. In that window the stream manager is not stopped, so the stream that
  `Disconnect` closes is resumed: `resumed` is what `ClientLink` calls `lost`, and
  `StaysClosed` is about clients whose `isConnected` was set. `LinkSpec` permits that
  resume, as it permits a link that was lost to come up again.
- `isConnected` is not cleared when a stream is lost, so the engine's ticker goes on
  giving ticks to such a client (`engine.go:337`); CWMP submits nothing on a tick, so
  ticks are in `Program` and not here.
- A client whose first dial fails is never dialled again, and has been counted as a
  connection all the same (`RunFails`, `engine.go:299`).

### Metadata (`BehaviorsProofs`)
The conversions of `pkg/action/mqtt/metadata.go` and `pkg/action/xmpp/metadata.go` as
operators. A `map[string]any` is a function from keys to values with their Go type;
an `int` that becomes a `byte` is taken modulo 256, a `float64` is counted in halves,
so that its truncation and the ends of its range are seen; `strconv.Atoi` is the
constant `Numeral`. The behaviours' side, `ToMap`, and the clients', `Parse`, meet here.

### Behaviors, Inform, Program (`MCProgram`, `BehaviorsProofs`, `ProgramProofs`)
`Behaviors` holds what the behaviours answer, as lists of actions with target, payload
and metadata, and what a client makes of each action (`MqttCalls`, `XmppCalls`).
`Rendered` is all that can become of an entry, some text of which may fail to be
rendered: `Declarative` shows how. `Part` and `Entries` are the Go types of the configured
actions, whose QoS is any byte: what validation lets through is in `Program`. `Inform` holds the Informs of all clients:
`eventCodes` is the array behind `informConfig.EventCodes`, `codes` the length of the
slice, a member of `sending` a goroutine with its own slice (`own`) or with one that shares
the array, `posted` what was handed to the HTTP client.

`Program` extends both. `main` is the main goroutine, from `load` to `exit`, or
`failed` (a logged error exit), or `killed` (a signal before `signal.Notify`). `link[i]` is the
connection of client `i`, `pool` the clients that the connection pool holds, one for each ID, `todo[i]` the actions it has still to execute, `calls[i]`
what it asked of its library. The engine is seen from outside, as what `WorkerPool` and
`Engine` are shown to implement: a list is accepted whole or dropped, and the lists
of a client are worked off in order.

- A list that is submitted after the queues are closed kills the process; that is
  in `Engine` and the end of it is left out here. Between `StopCancels` and `StopCloses`
  handlers that were in flight when the clients stopped receiving may still submit.
- With a static ID a client that connects replaces in `pool` the one before it (`PoolAdd`). The
  one replaced keeps its connection and its queue, but gets no tick, is not told to stop
  receiving and is not disconnected: `Tick`, `Receives` and `StopDisconnects` ask `pool`. So
  `PeriodicOnTime` is about the clients in the pool, and the finding `static_id` about the
  others.
- A call into a client may fail; `calls` has what was asked. A worker that hangs in
  a call is in `MqttClient` (`stop_hangs`), and a `Disconnect` that does in `XmppClient`, so
  `SignalEnds` is about the rest of the program: the metrics server, the limiters, the
  queues.
- A format of a USP topic is its text and how many `%s` it has, because `Sprintf` marks the
  ones without an operand.
- `PostInform` ends at the HTTP client. Whether the server answers has no effect on
  the program but for the goroutine that waits.
- The limiter of an action that is drained after `cancel` refuses it, so a boot event may
  then go out although its subscription was refused: `BootAnswerable` speaks of the
  time before, and `NoneRefused` too.
- `BootAnswerable` looks at what a client has asked for since its program started. It
  does not see whether the broker granted the subscription, nor whether it belongs to the
  session in which the boot event goes out.

What was met in reading and is not a finding of section 6, because no run states it:
`README.md:282-283` documents the modes `custom` and `usp`, which the registry does not
have, so that they fall back to the declarative behaviour (`registry.go:22-26`, and
`ActionsSpeak` says that this is at least consistent); `enable_rate_limit` is never
read; the tags of a subscription (`config.go:80-81`) are not checked for timers, which
is the exception in `WireValid`; a bare keepalive such as the README's `60` is 60
nanoseconds and passes `min=5`; `Press Ctrl+C to stop.` is logged before `signal.Notify`, and
a second Ctrl+C is swallowed, so that a hung `Stop` cannot be interrupted; all
clients of a USP fleet share one agent ID and hence one topic.

## 4. Runs

| Run | Configuration | Shows |
|---|---|---|
| `pool` | `MCWorkerPool.cfg` | the inductive invariant `IInv`, `SequentialPerClient`, `ServedInOrder`, `DrainedOnExit`, `ActionsAccounted`, refinement of `Mailbox`; `Served`: a batch is served whatever happens in another queue |
| `engine` | `MCEngine.cfg` | the inductive invariant `EngineIInv`, `CrashOnlyWhileStopping`, `DisconnectAlone`, `StopDrains`, `EveryClientPooled`, `EveryClientDisconnected`, refinement of `WorkerPool`, `LinksSpec` |
| `engine_live` | `EngineLive.cfg` | `StopEnds` |
| `mqtt` | `MCMqttClient.cfg` | `IInv`, `ListedOnce`, `NothingStale`, `NothingForgotten`, `NoDoubleClose`, `LoopsEnd`, refinement of `ClientLink` |
| `declarative` | `MCDeclarative.cfg` | `GeneratorsApart`, `CacheStable`, `CallbackReturns` |
| `xmpp` | `MCXmppClient.cfg` | `AnsweredOnce`, `StaysClosed`, `DisconnectEnds`, `RequestsSettled`, the inductive invariant `IInv`, refinement of `ClientLink` |
| `program` | `MCProgram.cfg` | `ActionsSpeak`, `WireValid`, `NoneRefused`, `BootAnswerable`, `AnswersReachAsker`, `InformSaysWhy`, `PeriodicOnTime`, `SignalEnds` |
| `stop_hangs` | `StopHangs.cfg` | a finding of section 6 |
| `closed_queue`, `nil_ticker`, `gauge`, `static_id` | `ClosedQueue.cfg`, ... | the findings of section 6 |

Bounds. `pool`: three clients, two of which share a queue, on two workers, so
that clients both compete and run in parallel; queues of two, so that a queue
can be empty, partly full and full; three accepted batches of up to two
actions, so that a client can have one batch in service and two waiting, and so that
each order of two clients in one queue occurs. `engine`: two clients, one
batch kind, one tick, one message, and a loss of the first client's connection,
which together are enough for a
handler of each source to be in flight at each place of `Stop`. The other
counters are bounded by these (`MaxAccepted`, `MaxTicks`, `MaxMessages`,
`MaxLosses`), and the theorems hold for every value of them. `mqtt`: one topic,
because topics do not interact but through the order of the list (the theorems
hold for any set); a connection submits a subscription and a publish of QoS 1;
two actions for ticks or messages and two losses, so that a loss can be
handled after the library is connected again, two loops can run at once, and a
topic can be subscribed, refused, unsubscribed and torn.
`xmpp`: two losses, so that a resumed stream can be lost again and `postConnect` of the
old one be late; a queue of two, which can be full for one of three connection
requests (it may also be full of other clients' actions at any time), which have the right credentials, wrong ones, and no ID; one that cannot be
parsed. `declarative`: two callbacks at a time, which
is what a race for one text needs; three generators, so that one put back and one
never used can be handed out; one text of each sort, in entries that fail at
their first, a middle and their last action; six ticks, the period of the timers
of 2 and 3. `program`: an ordinary configuration for each behaviour and variations
in one or two respects: each way in which validation refuses, all modes the
README or the registry names with all connectors, bursts that are negative, zero and
positive, topic formats with none, one and two `%s`, intervals of one and two ticks or the
default. Two CWMP clients, so that two goroutines build their Informs at once, with IDs
of their own and with one static ID; one message, two ticks and one lost connection for all clients, because what a callback
submits does not depend on earlier ones, so one of each can meet at every place of
`main`. That no answer goes to the requester of another request (`AnswersReachAsker`) is
therefore shown by the theorem only.

Fairness. A worker that can go on does (goroutines are scheduled, a token
bucket refills): weak fairness of each worker's own steps, of `Stop`'s steps, of
the connect and ticker goroutines. There is no fairness on `Execute`, on signals,
messages or reconnections, because nothing in the code bounds them: `Served`
speaks of queues whose client calls return, `StopEnds` assumes that calls do.
A single blocked call keeps `Stop` waiting for ever, and that is how the code is
(`stop_hangs`). In `MqttClient` goroutines are scheduled, timers of the `reconnect`
loop fire, a dial ends one way or the other and a broker that is connected
answers; whether the library ever has a connection again is left open. In
`XmppClient` goroutines are scheduled and the five-second timer fires; nothing is
assumed of dials nor of the server: a close of a stream that is up, the one in
`StreamManager.Stop` as well as the one in `Disconnect`, need never end, and only
without a stream it does. In
`Program` goroutines are scheduled, the ticker and the five-second timer of the
shutdown fire, and calls into the clients return; no signal has to come, no connection to come up
and no scrape to end.

## 5. Proofs

`WorkerPoolProofs` proves `Spec => []IInv` and from it `TypeCorrect`, `Sequential`,
`Fifo`, `Drained` and `Refinement`. `SequentialPerClient` is not inductive: two
batches of a client are kept apart because every outstanding batch is held by
the worker its client hashes to (`Routed`), queues are sorted and younger than
what is in service (`Ordered`), and a batch is in exactly one place
(`NothingLost`, `WorkersSane`). `IInv` is the conjunction of these. The
proof treats the actions in groups by what they disturb: `QuietInv` (steps that
touch neither queues nor history), `EnqueueInv`, `DequeueInv`, `LeaveInv`,
`ProcessedInv`. `Refinement` maps `serving[c]` to the batch of `c` that its worker is
executing; `Begin` is enabled because that batch is the oldest not done.
`Accounted` (`ActionsAccounted`) needs no induction over the accepted batches: `LeftBehind`
is the set of the actions that lie behind the workers, by batch and place. An action
that is over adds the one pair its worker was at (`GoneOnCounted`), a panic the rest of its batch (`PanicAccount`), whose
number is what `abandoned` grows by, and no two workers are at one pair because a
batch is in one place (`InHandOnce`). `EngineAccounted` carries it over to the engine.

`EngineProofs` reuses it: each step of the engine is a step of the pool or a
stutter (`EngineUsesPool`), so every theorem of the pool holds of the engine. `LifeInv`
adds what holds at each place of `Run`, `Stop` and the ticker, from which follow
`NoCrashWhileRunning`, `DisconnectsAlone` and `StopDrained`. `ClientsReached` takes as
an assumption that the IDs differ; the run `static_id` shows that it is needed.

`MqttClientProofs` proves `Spec => []IInv` for any topics, actions and bounds. Its parts are
what each property lacks to be inductive: `ListInv` adds to `ListedOnce` that the topic
being subscribed to is still not on the list (`Asking`), `SessionInv` that an answered
unsubscribe has had its effect on the session, `CloseInv` that Stop's call
comes when the worker has no action left, `ShutInv` that the library is disconnected
only with the flag set, so that `ClaimInv`, which relates list and session, says
nothing of a client that dials after its disconnection. `FrameFacts` is the lemma for the
many steps that leave these alone; `ListFacts` and `UnlistFacts` say what appending
and removing do to the list. `ImplementsLink` is the refinement of `ClientLink`.

`DeclarativeProofs` proves that generators are exclusive and stored templates immutable
for any number of callers (`GeneratorsExclusive`, `CacheImmutable`). Exclusion is not
inductive: a caller may execute the stored object itself, so the invariant says
that the one who does is the one that bound it, and that a copy is bound to its
caller's generator, which no other caller holds. `DeclarativeUsesTemplates` carries this
over to the behaviour. `CallbacksKeepPromises` (`CallbackReturns`) rests on `LoopInv`: at every moment
the result of a callback is what the entries behind its cursor promise, followed by
what the fields behind it promise of the entry it is at (`ResultInv`), no text behind the cursor of
this entry is one that cannot be rendered (`TextInv`), and the cursor is in range
(`CursorInv`). `TemplateInv` says that the outcome a caller comes back with is that of the text at
its cursor. `LoopInv` was checked with TLC on the instance of the run before it was proved.

`XmppClientProofs` proves `Spec => []IInv` for any requests, queue and number of losses.
`AnsweredOnce` needs to know that a request is in one place (`TalkInv`: what is queued
is queued once, and was treated as its credentials deserve), `StaysClosed` that who
waits in `Disconnect` has a goroutine that has removed the handler by the time the wait
ends, and that only a stream with a handler is resumed (`StopInv`, `StreamInv`).
`TalkFrame` and `StreamFrame` separate the two halves of the invariant: no step of the
one disturbs the other. `ImplementsLink` is the refinement of `ClientLink`.

`EngineUsesLinks` proves that `Engine` uses each client as `ClientLink` allows, so that
the two refinements of `ClientLink` by the clients are what the engine's theorems rest on;
`LinkInv` adds that whatever may act on a client (the pool, a handler, an accepted batch)
is there only once the client's link was opened. `ClientsPooled` is `EveryClientPooled` for
distinct IDs.

`FlattenProofs` has what these proofs use of the library's `FlattenSeq`, which it defines
by recursion. The library's induction theorems take an operator; `Induction` states the
same of a set of numbers and follows from the well-foundedness of `<`. With it
come that `FlattenSeq` exists and is unique (`FlattenExists`, `FlattenUnique`), its type,
and that one more list at the end is one more concatenation (`FlattenNext`).

`BehaviorsProofs` proves that what a behaviour puts into a map is what the client reads
from it, for any values, that a QoS fits a byte and that an accepted priority is one of
`int8`. `PartIsCalled` composes the two sides: the request of the MQTT client for an action is
what the entry of the configuration says. `RenderedType`: whatever texts fail, a list has only
actions of its entries.

`ProgramProofs` uses them. `LimitersNeverRefuse` rests on `SetupInv` (each limiter there is
has a positive burst). `InformsNameTheirCause` needs that the
slice fills its array, so that each `append` copies (`InformInv`). `StanzasAnswerRequests`
needs that every action in a CWMP client's queue is the answer to a request of this
client (`AnswersInv`). `BootAfterSubscription` needs to know of the queue what it
claims of the calls: each boot event has a subscription ahead of it, in the queue or
already asked for (`BootInv`, and `Led`, with the lemmas for appending a list,
which the lists of `OnConnect` do, and for removing the head, which a worker does).
`StepCases` splits the steps by what they touch. `WireIsConfigured` (`WireValid`) has two parts:
once the configuration is loaded, it has passed validation (`ValidInv`); and every
action that a declarative client still has to execute is that of a configured part,
and every call the request for one (`DeclInv`), by `RenderedType` and `PartIsCalled`.
`NoActionIsMute` (`ActionsSpeak`) adds that the behaviour a connector is put together with is
one whose actions its client parses (`ConnectorInv`): the declarative and the USP
behaviour with MQTT, CWMP with XMPP.

The assumptions are `PoolAssumption`, `EngineAssumption`, `ClientAssumption`,
`XmppAssumption`,
`TemplateAssumption`, `DeclarativeAssumption`, `MetadataAssumption` and
`ProgramAssumption`; TLC evaluates them.

Every safety invariant and action property that a passing run checks is also a theorem.
Only model-checked: the liveness properties (`Served`, `StopEnds`, `LoopsEnd`,
`DisconnectEnds`, `RequestsSettled`, `PeriodicOnTime`, `SignalEnds`), which the prover does not
reach. The properties of the violation runs are false of the code and have a
counterexample instead.

## 6. Findings

- **closed_queue** (`engine.go:178`). `Stop` closes the queues while callbacks are in
  flight; a send on a closed channel panics even in a `select` with a `default`,
  nothing recovers it, and the process dies in `Stop`.
- **nil_ticker** (`engine.go:323`). The ticker goroutine evaluates
  `e.globalTicker.C` anew each time round; `stopGlobalTicker` has set the pointer
  to `nil` without waiting for it.
- **gauge** (`client/mqtt/client.go:309`). A client disconnected by an action stays in
  the pool and is disconnected again by `Stop`: the gauge of active connections
  goes below zero.
- **static_id** (`connector/pool.go:22`). With a static client ID the pool keeps
  one client; `Stop` never disconnects the others, nor do they get ticks.
- **stop_hangs** (`client/mqtt/client.go:279`). `Send` waits for the token of a publish
  without timeout. With QoS 1 or 2 the library keeps it while it reconnects, so
  when the broker goes away and stays away, the worker, and `Stop` that waits for
  it, wait for ever, and no client is disconnected.

`CrashOnlyWhileStopping` (proved) is the other side of the first two: no order of
handlers, ticks and workers crashes an engine before `Stop` has begun.

## 7. Not modelled

- *USP's generated protobuf code* (7147 of about 10450 lines): accessors and descriptors
  of data types, without behaviour of the program's own. The record that the USP
  behaviour builds is modelled by its fields. For this reason most lines of
  the repository have no definition that stands for them.
- *Logging*: formatting and output that nothing reads back.
- *CWMP's XML types* and the forced parameters of an Inform: copied from the
  configuration. The exchange with the ACS after the request is handed to the HTTP
  client, of which only the log tells.
- *Real time*: rates and back-off are steps that may happen.
- *Received XMPP messages and presences*, which CWMP ignores, and presences to
  send, which the client does not implement.
- *User names, passwords, TLS options, log levels*: handed through to the libraries.
- *`ConnectionPool.Remove`, `Get`*: without a caller.
