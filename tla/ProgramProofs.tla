---------------------------- MODULE ProgramProofs ----------------------------
(***************************************************************************)
(* Proofs about Program: for every configuration, number of clients and    *)
(* server, no limiter gives up before Stop, each Inform names its own      *)
(* cause, each stanza of a CWMP client answers a request it received, no   *)
(* boot event goes out before the subscription for its answers, what a     *)
(* declarative client asks of the broker is what the configuration says,   *)
(* and a client can carry out every action it is given.                    *)
(***************************************************************************)
EXTENDS Program, BehaviorsProofs, TLAPS

Fields == {"connections", "mode", "clientID", "prefix", "custom", "rates",
           "onConnect", "onMessage", "onTimer"}

\* The configured codes and those of the causes.
AnyCode == STRING \cup {"CONNECTION_REQUEST", "PERIODIC"}

ConfigOK(c) ==
    /\ Fields \subseteq DOMAIN c
    /\ {c.onConnect, c.onMessage, c.onTimer} \subseteq Entries
    /\ \A k \in DOMAIN c.rates : c.rates[k].rate \in Int /\ c.rates[k].burst \in Int
    /\ c.custom.eventCodes \in Seq(AnyCode)

Unbuilt == {"load", "metrics", "behavior"}

\* How far the start has come, and the limiters it has made.
SetupInv ==
    /\ ConfigOK(config)
    /\ \A k \in DOMAIN limiters : limiters[k] \in Nat \ {0}
    /\ main \in Unbuilt => behavior = "none"
    /\ main \notin Unbuilt \cup {"failed", "killed"} => behavior \in BuiltIn
    /\ NoneRefused

\* The array of the event codes has no room, so each goroutine has its own.
InformInv ==
    /\ behavior # "xmpp_cwmp" => sending = {} /\ posted = {}
    /\ behavior = "xmpp_cwmp" =>
           eventCodes = config.custom.eventCodes /\ codes = Len(config.custom.eventCodes)
    /\ \A g \in sending : g.own = config.custom.eventCodes \o <<Code(g.tick)>>
    /\ InformSaysWhy

USE DEF NoneRefused, InformSaysWhy

-----------------------------------------------------------------------------
\* A limiter that is made has a burst.
LEMMA LimitersLetThrough ==
    ASSUME NEW rates, \A k \in DOMAIN rates : rates[k].rate \in Int /\ rates[k].burst \in Int,
           NEW k \in DOMAIN Limiters(rates)
    PROVE  Limiters(rates)[k] \in Nat \ {0}
<1>1. k \in DOMAIN rates /\ rates[k].rate > 0 /\ Limiters(rates)[k] = Burst(k, rates[k])
    BY DEF Limiters
<1> QED
    BY <1>1 DEF Burst

\* A slice without room is copied whole by append.
LEMMA FullSlice ==
    ASSUME NEW S, NEW s \in Seq(S), NEW x \in S
    PROVE  SubSeq(s, 1, Len(s)) \o <<x>> = s \o <<x>> /\ s \o <<x>> # <<>>
<1>1. SubSeq(s, 1, Len(s)) = s
    BY SubSeqFull
<1>2. Append(s, x) = s \o <<x>>
    BY AppendIsConcat
<1>3. Append(s, x) # <<>>
    BY AppendProperties
<1> QED
    BY <1>1, <1>2, <1>3

LEMMA CodeIsString == ASSUME NEW n PROVE Code(n) \in AnyCode
BY DEF Code, AnyCode

\* The other variables do not matter to the invariants.
SetupVars == <<main, config, behavior, limiters, refused>>
LEMMA SetupStutters == SetupInv /\ UNCHANGED SetupVars => SetupInv'
BY DEF SetupInv, SetupVars

LEMMA InformStutters == InformInv /\ UNCHANGED <<behavior, config, informVars>> => InformInv'
BY DEF InformInv, informVars

LEMMA SetupInitially == Init => SetupInv
<1> SUFFICES ASSUME Init PROVE SetupInv
    OBVIOUS
<1>1. ConfigOK(config)
  <2>1. \A s \in Seq(STRING) : s \in Seq(AnyCode)
      BY SeqMonotonic DEF AnyCode
  <2> QED
      BY <2>1, ProgramAssumption DEF Init, ConfigOK, Fields
<1> QED
    BY <1>1 DEF Init, SetupInv, Unbuilt

\* Every step keeps the setup.
LEMMA SetupStep == SetupInv /\ [Next]_vars => SetupInv'
<1> SUFFICES ASSUME SetupInv, [Next]_vars PROVE SetupInv'
    OBVIOUS
<1> USE DEF Unbuilt
<1>1. CASE LoadConfig
  <2>1. ConfigOK(config')
      BY <1>1 DEF LoadConfig, SetupInv, ConfigOK, Fields
  <2> QED
      BY <1>1, <2>1 DEF LoadConfig, SetupInv, ConfigOK, clientVars
<1>2. CASE StartServer
    BY <1>2 DEF StartServer, SetupInv, setupVars, clientVars, ConfigOK
<1>3. CASE MakeBehavior
    BY <1>3 DEF MakeBehavior, SetupInv, NewBehavior, BuiltIn, clientVars, ConfigOK
<1>4. CASE NewEngine
  <2>1. \A k \in DOMAIN limiters' : limiters'[k] \in Nat \ {0}
      BY <1>4, LimitersLetThrough DEF NewEngine, SetupInv, ConfigOK
  <2> QED
      BY <1>4, <2>1 DEF NewEngine, SetupInv, ConfigOK, clientVars
<1>5. CASE MainStep /\ ~(LoadConfig \/ StartServer \/ MakeBehavior \/ NewEngine)
  <2>1. UNCHANGED <<config, behavior, limiters, refused>> /\ main' \notin Unbuilt /\ main \notin Unbuilt \cup {"failed", "killed"}
      BY <1>5 DEF MainStep, RunReturns, Notify, StopBegins, ShutdownReturns, StopCancels, StopCloses,
                  StopWaits, StopDisconnects, setupVars, clientVars
  <2> QED
      BY <2>1 DEF SetupInv, ConfigOK
<1>6. CASE SignalArrives
    BY <1>6 DEF SignalArrives, Signal, SetupInv, ConfigOK, setupVars, clientVars
<1>7. CASE \E i \in Clients : Connect(i) \/ Execute(i)
  <2>1. UNCHANGED <<main, config, behavior, limiters>>
      BY <1>7 DEF Connect, Execute, setupVars
  <2>2. ~refused'
    <3>1. PICK i \in Clients : Connect(i) \/ Execute(i)
        BY <1>7
    <3>2. CASE Connect(i)
        BY <3>2 DEF Connect, SetupInv
    <3>3. CASE Execute(i)
      <4> DEFINE kind == Head(todo[i]).kind
      <4>1. kind \in DOMAIN limiters => ~(limiters[kind] < 1)
          BY DEF SetupInv
      <4>2. ~refused
          BY DEF SetupInv
      <4> QED
          BY <3>3, <4>1, <4>2, Zenon DEF Execute
    <3> QED
        BY <3>1, <3>2, <3>3
  <2> QED
      BY <2>1, <2>2 DEF SetupInv, ConfigOK
<1>8. CASE \/ main \notin {"failed", "killed", "exit"} /\ (ServerListens \/ ScrapeBegins \/ ScrapeEnds)
           \/ Tick
           \/ \E i \in Clients :
                  \/ LinkUp(i) \/ LinkLost(i) \/ RunFails(i) \/ MessageArrives(i)
                  \/ \E iq \in IQs : ConnectionRequest(i, iq)
           \/ \E g \in sending : InformStep(g)
           \/ UNCHANGED vars
  <2>1. UNCHANGED SetupVars
      BY <1>8 DEF ServerListens, ScrapeBegins, ScrapeEnds, Tick, LinkUp, LinkLost, RunFails,
                  MessageArrives, ConnectionRequest, InformStep, SetupVars, setupVars, clientVars, vars
  <2> QED
      BY <2>1, SetupStutters
<1> QED
    BY <1>1, <1>2, <1>3, <1>4, <1>5, <1>6, <1>7, <1>8 DEF Next

\* No limiter gives up before Stop, whatever rates and bursts are configured.
THEOREM LimitersNeverRefuse == Spec => []NoneRefused
<1>1. Spec => []SetupInv
    BY SetupInitially, SetupStep, PTL DEF Spec
<1>2. SetupInv => NoneRefused
    BY DEF SetupInv
<1> QED
    BY <1>1, <1>2, PTL

-----------------------------------------------------------------------------
LEMMA InformInitially == Init => InformInv
BY DEF Init, InformInit, InformInv

\* Starting Informs, for whichever clients and cause.
LEMMA InformsStarted ==
    ASSUME SetupInv, InformInv, behavior = "xmpp_cwmp", NEW clients, NEW n,
           StartInforms(clients, n), UNCHANGED <<behavior, config>>
    PROVE  InformInv'
<1> DEFINE list == config.custom.eventCodes
<1>0. list \in Seq(AnyCode)
    BY DEF SetupInv, ConfigOK
<1>1. Len(list) \in Nat
    BY <1>0, LenProperties
<1>2. eventCodes = list /\ codes = Len(list)
    BY DEF InformInv
<1>3. ~(codes < Len(eventCodes))
    BY <1>1, <1>2
<1>4. SubSeq(eventCodes, 1, codes) \o <<Code(n)>> = list \o <<Code(n)>>
    BY <1>0, <1>2, FullSlice, CodeIsString
<1>5. UNCHANGED <<eventCodes, codes, posted>>
    BY <1>3 DEF StartInforms
<1>6. \A g \in sending' : g \in sending \/ (g.tick = n /\ g.own = list \o <<Code(n)>>)
  <2>1. sending' = sending \cup {[client |-> c, tick |-> n, own |-> list \o <<Code(n)>>] : c \in clients}
      BY <1>3, <1>4 DEF StartInforms
  <2> QED
      BY <2>1
<1> QED
    BY <1>5, <1>6 DEF InformInv

\* Every step keeps what the Informs say.
LEMMA InformStepKeeps == SetupInv /\ InformInv /\ [Next]_vars => InformInv'
<1> SUFFICES ASSUME SetupInv, InformInv, [Next]_vars PROVE InformInv'
    OBVIOUS
<1>1. CASE LoadConfig
  <2>1. UNCHANGED <<behavior, informVars>> /\ behavior = "none"
      BY <1>1 DEF LoadConfig, SetupInv, Unbuilt
  <2> QED
      BY <2>1 DEF InformInv, informVars
<1>2. CASE MakeBehavior
  <2>1. sending = {} /\ posted = {} /\ UNCHANGED <<config, sending, posted>>
      BY <1>2 DEF MakeBehavior, SetupInv, Unbuilt, InformInv, InformConfigured, informVars
  <2>2. behavior' = "xmpp_cwmp" =>
            eventCodes' = config.custom.eventCodes /\ codes' = Len(config.custom.eventCodes)
      BY <1>2 DEF MakeBehavior, InformConfigured, Decoded
  <2> QED
      BY <2>1, <2>2 DEF InformInv
<1>3. CASE Tick
  <2>1. behavior \in BuiltIn /\ UNCHANGED <<behavior, config>>
      BY <1>3 DEF Tick, SetupInv, Unbuilt, setupVars
  <2>2. CASE behavior = "xmpp_cwmp"
    <3>1. UNCHANGED informVars \/ \E clients : StartInforms(clients, tick + 1)
        BY <1>3, <2>2 DEF Tick
    <3> QED
        BY <2>1, <2>2, <3>1, InformsStarted, InformStutters
  <2>3. CASE behavior # "xmpp_cwmp"
    <3>1. UNCHANGED informVars
        BY <1>3, <2>1, <2>3 DEF Tick, BuiltIn
    <3> QED
        BY <2>1, <3>1, InformStutters
  <2> QED
      BY <2>2, <2>3
<1>4. ASSUME NEW i \in Clients, NEW iq \in IQs, ConnectionRequest(i, iq)
      PROVE  InformInv'
    BY <1>4, InformsStarted DEF ConnectionRequest, setupVars
<1>5. ASSUME NEW g \in sending, InformStep(g)
      PROVE  InformInv'
  <2>1. behavior = "xmpp_cwmp" /\ UNCHANGED <<behavior, config, eventCodes, codes>>
      BY <1>5 DEF InformStep, InformInv, PostInform, setupVars
  <2>2. g.own = config.custom.eventCodes \o <<Code(g.tick)>>
      BY DEF InformInv
  <2>3. g.own # <<>>
      BY <2>2, FullSlice, CodeIsString DEF SetupInv, ConfigOK
  <2>4. Codes(g) = config.custom.eventCodes \o <<Code(g.tick)>>
      BY <2>2, <2>3 DEF Codes
  <2>5. sending' \subseteq sending
      BY <1>5 DEF InformStep, PostInform
  <2>6. \A p \in posted' : p \in posted \/ (p.tick = g.tick /\ p.events = Codes(g))
      BY <1>5 DEF InformStep, PostInform
  <2> QED
      BY <2>1, <2>4, <2>5, <2>6 DEF InformInv
<1>6. CASE \/ MainStep /\ ~LoadConfig /\ ~MakeBehavior
           \/ SignalArrives
           \/ main \notin {"failed", "killed", "exit"} /\ (ServerListens \/ ScrapeBegins \/ ScrapeEnds)
           \/ \E i \in Clients :
                  Connect(i) \/ LinkUp(i) \/ LinkLost(i) \/ RunFails(i) \/ MessageArrives(i) \/ Execute(i)
           \/ UNCHANGED vars
  <2>1. UNCHANGED <<behavior, config, informVars>>
    <3>1. CASE MainStep /\ ~LoadConfig /\ ~MakeBehavior
        BY <3>1 DEF MainStep, StartServer, NewEngine, RunReturns, Notify, StopBegins, ShutdownReturns,
                    StopCancels, StopCloses, StopWaits, StopDisconnects, setupVars
    <3>2. CASE SignalArrives \/ ServerListens \/ ScrapeBegins \/ ScrapeEnds
        BY <3>2 DEF SignalArrives, ServerListens, ScrapeBegins, ScrapeEnds, setupVars
    <3>4. CASE \E i \in Clients :
                   Connect(i) \/ LinkUp(i) \/ LinkLost(i) \/ RunFails(i) \/ MessageArrives(i) \/ Execute(i)
        BY <3>4 DEF Connect, LinkUp, LinkLost, RunFails, MessageArrives, Execute, setupVars
    <3>3. CASE UNCHANGED vars
        BY <3>3 DEF vars, setupVars
    <3> QED
        BY <1>6, <3>1, <3>2, <3>3, <3>4
  <2> QED
      BY <2>1, InformStutters
<1> QED
    BY <1>1, <1>2, <1>3, <1>4, <1>5, <1>6 DEF Next

\* Each Inform lists the configured codes and then its own cause, for any
\* list of codes, any number of clients and any order of the goroutines.
THEOREM InformsNameTheirCause == Spec => []InformSaysWhy
<1>1. Spec => []SetupInv
    BY SetupInitially, SetupStep, PTL DEF Spec
<1>2. Spec => []InformInv
    BY <1>1, InformInitially, InformStepKeeps, PTL DEF Spec
<1>3. InformInv => InformSaysWhy
    BY DEF InformInv
<1> QED
    BY <1>2, <1>3, PTL

-----------------------------------------------------------------------------
(* The connector fits the behaviour, and nothing is done before it is made. *)

Early == {"load", "metrics", "behavior", "engine"}
Over  == {"failed", "killed"}

Idle == \A i \in Fleet : todo[i] = <<>> /\ calls[i] = <<>>

ConnectorInv ==
    /\ DOMAIN todo = Fleet /\ DOMAIN calls = Fleet
    /\ main \in Early => factory = "none"
    /\ main \notin Early \cup Over => factory # "none"
    /\ factory # "none" => factory \in SupportedConnectors(behavior) /\ behavior \in BuiltIn
    /\ factory = "none" => Idle

\* The steps that change neither what there is to do nor what was done.
Aside ==
    \/ MainStep /\ ~(LoadConfig \/ MakeBehavior \/ NewEngine)
    \/ SignalArrives
    \/ main \notin {"failed", "killed", "exit"} /\ (ServerListens \/ ScrapeBegins \/ ScrapeEnds)
    \/ \E i \in Clients : Connect(i) \/ LinkLost(i) \/ RunFails(i)
    \/ \E g \in sending : InformStep(g)
    \/ UNCHANGED vars

Submitting ==
    \/ Tick
    \/ \E i \in Clients :
           LinkUp(i) \/ MessageArrives(i) \/ \E iq \in IQs : ConnectionRequest(i, iq)

LEMMA StepCases ==
    [Next]_vars => \/ Aside \/ Submitting \/ LoadConfig \/ MakeBehavior \/ NewEngine
                   \/ \E i \in Clients : Execute(i)
BY DEF Next, MainStep, Aside, Submitting

LEMMA AsideLeaves ==
    ASSUME Aside
    PROVE  /\ UNCHANGED <<config, behavior, factory, limiters, todo, calls, asked>>
           /\ main' \in Early => main \in Early
           /\ main = "load" => main' \in {"load"} \cup Over
           /\ main' \notin Early \cup Over => main \notin Early \cup Over \/ main' = main
           /\ Cancelled => Cancelled'
<1> USE DEF Early, Over, Cancelled
<1>1. CASE MainStep /\ ~(LoadConfig \/ MakeBehavior \/ NewEngine)
    BY <1>1 DEF MainStep, StartServer, RunReturns, Notify, StopBegins, ShutdownReturns, StopCancels,
                StopCloses, StopWaits, StopDisconnects, setupVars, clientVars
<1>2. CASE SignalArrives
    BY <1>2 DEF SignalArrives, Signal, Starting, setupVars, clientVars
<1>3. CASE ServerListens \/ ScrapeBegins \/ ScrapeEnds
    BY <1>3 DEF ServerListens, ScrapeBegins, ScrapeEnds, setupVars, clientVars
<1>4. CASE \E i \in Clients : Connect(i) \/ LinkLost(i) \/ RunFails(i)
    BY <1>4 DEF Connect, LinkLost, RunFails, setupVars
<1>5. CASE \E g \in sending : InformStep(g)
    BY <1>5 DEF InformStep, setupVars, clientVars
<1>6. CASE UNCHANGED vars
    BY <1>6 DEF vars, setupVars, clientVars
<1> QED
    BY <1>1, <1>2, <1>3, <1>4, <1>5, <1>6 DEF Aside

LEMMA SubmittingLeaves ==
    ASSUME Submitting
    PROVE  /\ UNCHANGED <<main, config, behavior, factory, limiters, calls>>
           /\ main \notin Early \cup Over
BY DEF Submitting, Tick, LinkUp, MessageArrives, ConnectionRequest, Receives, Working, Early, Over,
       setupVars

\* The lists a step of the behaviour leaves.
LEMMA TicksSubmit ==
    ASSUME SetupInv, Tick
    PROVE  \/ UNCHANGED todo
           \/ /\ behavior = "declarative"
              /\ \E list : todo' = [i \in Fleet |-> list[i]]
<1>1. behavior \in {"declarative", "mqtt_usp", "xmpp_cwmp"}
    BY DEF Tick, SetupInv, Unbuilt, BuiltIn
<1>2. CASE behavior = "declarative"
  <2>1. PICK present, list :
            todo' = [i \in Fleet |-> IF i \in present THEN todo[i] \o list[i] ELSE todo[i]]
      BY <1>2 DEF Tick
  <2>2. todo' = [i \in Fleet |-> todo'[i]]
      BY <2>1
  <2> QED
      BY <1>2, <2>2
<1>3. CASE behavior = "mqtt_usp" \/ behavior = "xmpp_cwmp"
    BY <1>3 DEF Tick
<1> QED
    BY <1>1, <1>2, <1>3

LEMMA ConnectorInitially == Init => ConnectorInv
BY DEF Init, ConnectorInv, Idle, Early, Over

LEMMA ConnectorStep == ConnectorInv /\ SetupInv /\ [Next]_vars => ConnectorInv'
<1> SUFFICES ASSUME ConnectorInv, SetupInv, [Next]_vars PROVE ConnectorInv'
    OBVIOUS
<1>1. CASE Aside
    BY <1>1, AsideLeaves DEF ConnectorInv, Idle
<1>2. CASE Submitting
  <2>1. DOMAIN todo' = Fleet
    <3>1. CASE Tick
        BY <3>1, TicksSubmit DEF ConnectorInv
    <3>2. CASE ~Tick
        BY <1>2, <3>2 DEF Submitting, LinkUp, MessageArrives, UspReceives, ConnectionRequest, Submit, ConnectorInv
    <3> QED
        BY <3>1, <3>2
  <2> QED
      BY <1>2, <2>1, SubmittingLeaves DEF ConnectorInv, Idle
<1>3. CASE LoadConfig \/ MakeBehavior
    BY <1>3 DEF LoadConfig, MakeBehavior, ConnectorInv, Idle, Early, Over, clientVars
<1>4. CASE NewEngine
  <2>1. UNCHANGED <<behavior, todo, calls>> /\ main = "engine" /\ factory = "none"
      BY <1>4 DEF NewEngine, ConnectorInv, Early, clientVars
  <2>2. CASE ConnectorOK
      BY <1>4, <2>1, <2>2 DEF NewEngine, ConnectorOK, ConnectorInv, SetupInv, Unbuilt, Idle, Early, Over
  <2>3. CASE ~ConnectorOK
      BY <1>4, <2>1, <2>3 DEF NewEngine, ConnectorInv, Idle, Early, Over
  <2> QED
      BY <2>2, <2>3
<1>5. CASE \E i \in Clients : Execute(i)
  <2>1. UNCHANGED <<main, behavior, factory>> /\ main \notin Early \cup Over
      BY <1>5 DEF Execute, setupVars, Working, Early, Over
  <2>2. DOMAIN todo' = Fleet /\ DOMAIN calls' = Fleet
      BY <1>5 DEF Execute, ConnectorInv
  <2> QED
      BY <2>1, <2>2 DEF ConnectorInv
<1> QED
    BY <1>1, <1>2, <1>3, <1>4, <1>5, StepCases

-----------------------------------------------------------------------------
(* CWMP: what a client has to send, and what it sent, answers the requests  *)
(* it received.                                                             *)

Requests(i) == {iq \in IQs : <<i, iq>> \in asked}
Answers(i)  == {CwmpAnswer(iq) : iq \in Requests(i)}
Stanza(i, iq) ==
    IQStanza(iq.from, ClientID(i), IF iq.authentic THEN "result" ELSE "error", iq.id)
Stanzas(i) == {Stanza(i, iq) : iq \in Requests(i)}

AnswersInv ==
    factory = "xmpp" =>
        \A i \in Fleet : todo[i] \in Seq(Answers(i)) /\ calls[i] \in Seq(Stanzas(i))

\* An answer becomes the stanza to who asked, or nothing.
LEMMA AnswerBecomesStanza ==
    ASSUME NEW i, NEW iq, factory = "xmpp"
    PROVE  CallsOf(i, CwmpAnswer(iq)) \in {<<>>, <<Stanza(i, iq)>>}
<1> DEFINE type == IF iq.authentic THEN "result" ELSE "error"
           md == AnswerMap(iq.id, iq.from, type)
<1>1. CwmpAnswer(iq) = Action("send", iq.from, Nothing, md)
    BY DEF CwmpAnswer, IQMap, StringMap, StringAt, Has, Val
<1>2. /\ StanzaOK(md) <=> iq.id # ""
      /\ iq.id # "" => Written(ClientID(i), iq.from, ParseStanza(iq.from, md), "generated") = Stanza(i, iq)
  <2>1. /\ StanzaOK(md) <=> iq.id # ""
        /\ iq.id # "" => Written(ClientID(i), iq.from, ParseStanza(iq.from, md), "generated") =
                              IQStanza(iq.from, ClientID(i), type, iq.id)
      BY AnswerIsWritten
  <2> QED
      BY <2>1 DEF Stanza
<1> HIDE DEF md
<1>3. CallsOf(i, CwmpAnswer(iq)) = XmppCalls(ClientID(i), Action("send", iq.from, Nothing, md))
    BY <1>1 DEF CallsOf
<1> QED
    BY <1>2, <1>3 DEF XmppCalls, Action

\* More requests leave the answers to the others.
LEMMA MoreAnswers ==
    ASSUME AnswersInv, asked \subseteq asked', UNCHANGED <<config, calls>>, factory = "xmpp",
           \A i \in Fleet : todo'[i] \in Seq(Answers(i)')
    PROVE  AnswersInv'
<1>1. ASSUME NEW i \in Fleet
      PROVE  calls'[i] \in Seq(Stanzas(i)')
  <2>1. Requests(i) \subseteq Requests(i)' /\ ClientID(i)' = ClientID(i)
      BY DEF Requests, ClientID
  <2>2. Stanzas(i) \subseteq Stanzas(i)'
      BY <2>1 DEF Stanzas, Stanza
  <2> QED
      BY <2>2, SeqMonotonic DEF AnswersInv
<1> QED
    BY <1>1 DEF AnswersInv

LEMMA AnswersInitially == Init => AnswersInv
BY DEF Init, AnswersInv

LEMMA AnswersStep == SetupInv /\ ConnectorInv /\ AnswersInv /\ [Next]_vars => AnswersInv'
<1> SUFFICES ASSUME SetupInv, ConnectorInv, AnswersInv, [Next]_vars PROVE AnswersInv'
    OBVIOUS
<1>1. CASE Aside
  <2>1. UNCHANGED <<config, factory, todo, calls, asked>>
      BY <1>1, AsideLeaves
  <2> QED
      BY <2>1 DEF AnswersInv, Answers, Stanzas, Stanza, Requests, ClientID
<1>2. CASE LoadConfig \/ MakeBehavior
    BY <1>2 DEF LoadConfig, MakeBehavior, ConnectorInv, Early, AnswersInv
<1>3. CASE NewEngine
  <2>1. UNCHANGED <<todo, calls>> /\ Idle
      BY <1>3 DEF NewEngine, ConnectorInv, Early, clientVars
  <2> QED
      BY <2>1, EmptySeq DEF AnswersInv, Idle
<1>4. CASE Submitting /\ factory = "xmpp"
  <2>1. /\ UNCHANGED <<config, factory, calls>> /\ behavior = "xmpp_cwmp" /\ DOMAIN todo = Fleet
        /\ behavior # "declarative"
      BY <1>4, SubmittingLeaves DEF ConnectorInv, SupportedConnectors
  <2>2. \A i \in Fleet : todo[i] \in Seq(Answers(i))
      BY <1>4 DEF AnswersInv
  <2>3. CASE Tick
    <3>1. UNCHANGED <<todo, asked>>
        BY <2>1, <2>3, TicksSubmit DEF Tick
    <3>2. \A i \in Fleet : todo'[i] \in Seq(Answers(i)')
        BY <2>2, <3>1 DEF Answers, Requests
    <3> QED
        BY <1>4, <2>1, <3>1, <3>2, MoreAnswers
  <2>4. ASSUME NEW i \in Clients, LinkUp(i)
        PROVE  AnswersInv'
    <3>1. UNCHANGED asked /\ (UNCHANGED todo \/ todo' = [todo EXCEPT ![i] = @ \o <<>>])
        BY <2>1, <2>4 DEF LinkUp, OnConnectLists, Submit
    <3>2. \A j \in Fleet : todo'[j] \in Seq(Answers(j)')
        BY <2>1, <2>2, <3>1, ConcatEmptySeq DEF Answers, Requests
    <3> QED
        BY <1>4, <2>1, <3>1, <3>2, MoreAnswers
  <2>5. ASSUME NEW i \in Clients, NEW iq \in IQs, ConnectionRequest(i, iq)
        PROVE  AnswersInv'
    <3>1. /\ asked' = asked \cup {<<i, iq>>}
          /\ UNCHANGED todo \/ todo' = [todo EXCEPT ![i] = @ \o <<CwmpAnswer(iq)>>]
        BY <2>5 DEF ConnectionRequest, Submit
    <3>2. \A j \in Fleet : Answers(j) \subseteq Answers(j)' /\ todo[j] \in Seq(Answers(j)')
      <4>1. \A j \in Fleet : Answers(j) \subseteq Answers(j)'
          BY <3>1 DEF Answers, Requests
      <4> QED
          BY <4>1, <2>2, SeqMonotonic
    <3>3. CwmpAnswer(iq) \in Answers(i)'
        BY <3>1 DEF Answers, Requests
    <3>4. i \in Fleet
        BY DEF Clients
    <3>5. todo[i] \o <<CwmpAnswer(iq)>> \in Seq(Answers(i)')
        BY <3>2, <3>3, <3>4, AppendProperties, AppendIsConcat
    <3>6. \A j \in Fleet : todo'[j] \in Seq(Answers(j)')
        BY <2>1, <3>1, <3>2, <3>5
    <3> QED
        BY <1>4, <2>1, <3>1, <3>6, MoreAnswers
  <2> QED
      BY <1>4, <2>1, <2>3, <2>4, <2>5 DEF Submitting, MessageArrives, UspReceives
<1>5. CASE Submitting /\ factory # "xmpp"
    BY <1>5, SubmittingLeaves DEF AnswersInv
<1>6. ASSUME NEW i \in Clients, Execute(i)
      PROVE  AnswersInv'
  <2>1. UNCHANGED <<config, factory, asked>> /\ i \in Fleet /\ todo[i] # <<>>
      BY <1>6 DEF Execute, setupVars, Clients
  <2>2. \A j : Answers(j)' = Answers(j) /\ Stanzas(j)' = Stanzas(j)
      BY <2>1 DEF Answers, Stanzas, Stanza, Requests, ClientID
  <2>3. CASE factory = "xmpp"
    <3>1. \A j \in Fleet : todo[j] \in Seq(Answers(j)) /\ calls[j] \in Seq(Stanzas(j))
        BY <2>3 DEF AnswersInv
    <3>2. Head(todo[i]) \in Answers(i) /\ Tail(todo[i]) \in Seq(Answers(i))
        BY <2>1, <3>1, HeadTailProperties
    <3>3. PICK iq \in Requests(i) : Head(todo[i]) = CwmpAnswer(iq)
        BY <3>2 DEF Answers
    <3>4. CallsOf(i, Head(todo[i])) \in {<<>>, <<Stanza(i, iq)>>} /\ Stanza(i, iq) \in Stanzas(i)
        BY <2>3, <3>3, AnswerBecomesStanza DEF Stanzas
    <3>5. calls[i] \o CallsOf(i, Head(todo[i])) \in Seq(Stanzas(i))
      <4>1. calls[i] \o <<Stanza(i, iq)>> \in Seq(Stanzas(i))
          BY <2>1, <3>1, <3>4, AppendProperties, AppendIsConcat
      <4>2. calls[i] \o <<>> \in Seq(Stanzas(i))
          BY <2>1, <3>1, ConcatEmptySeq
      <4> QED
          BY <3>4, <4>1, <4>2
    <3>6. /\ todo' = [todo EXCEPT ![i] = Tail(todo[i])]
          /\ calls' = [calls EXCEPT ![i] = calls[i] \o CallsOf(i, Head(todo[i]))] \/ calls' = calls
        BY <1>6 DEF Execute
    <3> QED
        BY <2>2, <3>1, <3>2, <3>5, <3>6 DEF AnswersInv, ConnectorInv
  <2> QED
      BY <2>1, <2>3 DEF AnswersInv
<1> QED
    BY <1>1, <1>2, <1>3, <1>4, <1>5, <1>6, StepCases

\* For every set of requests, list of configurations and number of clients,
\* each stanza answers a request its client received, to who asked.
THEOREM StanzasAnswerRequests == Spec => []AnswersReachAsker
<1>1. Spec => []SetupInv
    BY SetupInitially, SetupStep, PTL DEF Spec
<1>2. Spec => []ConnectorInv
    BY <1>1, ConnectorInitially, ConnectorStep, PTL DEF Spec
<1>3. Spec => []AnswersInv
    BY <1>1, <1>2, AnswersInitially, AnswersStep, PTL DEF Spec
<1>4. AnswersInv => AnswersReachAsker
  <2> SUFFICES ASSUME AnswersInv, factory = "xmpp", NEW i \in Fleet, NEW k \in DOMAIN calls[i]
               PROVE  \E q \in asked :
                          /\ q[1] = i
                          /\ calls[i][k] = [kind |-> "iq", to |-> q[2].from, from |-> ClientID(i),
                                            id |-> q[2].id,
                                            type |-> IF q[2].authentic THEN "result" ELSE "error"]
      BY DEF AnswersReachAsker
  <2>1. calls[i] \in Seq(Stanzas(i))
      BY DEF AnswersInv
  <2>2. calls[i][k] \in Stanzas(i)
      BY <2>1, LenProperties, ElementOfSeq
  <2>3. PICK iq \in Requests(i) : calls[i][k] = Stanza(i, iq)
      BY <2>2 DEF Stanzas
  <2>4. <<i, iq>> \in asked /\ <<i, iq>>[1] = i /\ <<i, iq>>[2] = iq
      BY DEF Requests
  <2> QED
      BY <2>3, <2>4 DEF Stanza, IQStanza
<1> QED
    BY <1>3, <1>4, PTL

-----------------------------------------------------------------------------
(* USP: a boot event and the subscription for its answers.                  *)

Sub  == UspOnConnect(config.custom)[1]
Boot == UspOnConnect(config.custom)[2]
AgentTopic ==
    LET s == UspSettings(config.custom) IN FormatTopic(s.agentTopicFmt, s.agentID)
SubCall == Call("subscribe", AgentTopic, 1, FALSE, Nothing)
BootCall == Call("publish", Boot.target, 1, FALSE, Boot.payload)

\* Each b in the sequence comes after an a, unless something else led to it.
Led(s, led, a, b) == \A k \in DOMAIN s : s[k] = b => led \/ \E j \in 1..(k - 1) : s[j] = a

Subscribed(i) == \E j \in DOMAIN calls[i] : calls[i][j] = SubCall

Usp == factory = "mqtt" /\ behavior = "mqtt_usp"

BootInv ==
    Usp => /\ \A i \in Fleet : todo[i] \in Seq({Sub, Boot}) /\ calls[i] \in Seq({SubCall, BootCall})
           /\ ~Cancelled =>
                  \A i \in Fleet : /\ Led(todo[i], Subscribed(i), Sub, Boot)
                                   /\ Led(calls[i], FALSE, SubCall, BootCall)

LEMMA LedEmpty == ASSUME NEW led, NEW a, NEW b PROVE Led(<<>>, led, a, b)
BY DEF Led

LEMMA LedConcat ==
    ASSUME NEW S, NEW s \in Seq(S), NEW t \in Seq(S), NEW led \in BOOLEAN, NEW a, NEW b,
           Led(s, led, a, b), Led(t, led, a, b)
    PROVE  Led(s \o t, led, a, b)
<1> SUFFICES ASSUME NEW k \in DOMAIN (s \o t), (s \o t)[k] = b, ~led
             PROVE  \E j \in 1..(k - 1) : (s \o t)[j] = a
    BY DEF Led
<1>1. /\ Len(s) \in Nat /\ Len(t) \in Nat /\ DOMAIN s = 1..Len(s) /\ DOMAIN t = 1..Len(t)
      /\ DOMAIN (s \o t) = 1..(Len(s) + Len(t))
      /\ \A j \in 1..(Len(s) + Len(t)) : (s \o t)[j] = IF j <= Len(s) THEN s[j] ELSE t[j - Len(s)]
    BY ConcatProperties, LenProperties
<1>2. CASE k <= Len(s)
  <2>1. k \in DOMAIN s /\ s[k] = b
      BY <1>1, <1>2
  <2>2. PICK j \in 1..(k - 1) : s[j] = a
      BY <2>1 DEF Led
  <2> QED
      BY <1>1, <1>2, <2>2
<1>3. CASE k > Len(s)
  <2>1. k - Len(s) \in DOMAIN t /\ t[k - Len(s)] = b
      BY <1>1, <1>3
  <2>2. PICK j \in 1..(k - Len(s) - 1) : t[j] = a
      BY <2>1 DEF Led
  <2>3. j + Len(s) \in 1..(k - 1) /\ (s \o t)[j + Len(s)] = a
      BY <1>1, <1>3, <2>1, <2>2
  <2> QED
      BY <2>3
<1> QED
    BY <1>1, <1>2, <1>3

\* When the head has been dealt with, it or something else led to the rest.
LEMMA LedTail ==
    ASSUME NEW S, NEW s \in Seq(S), s # <<>>, NEW led \in BOOLEAN, NEW led2 \in BOOLEAN,
           NEW a, NEW b, Led(s, led, a, b), led => led2, Head(s) = a => led2
    PROVE  Led(Tail(s), led2, a, b)
<1> SUFFICES ASSUME NEW k \in DOMAIN Tail(s), Tail(s)[k] = b, ~led2
             PROVE  \E j \in 1..(k - 1) : Tail(s)[j] = a
    BY DEF Led
<1>1. /\ Len(s) \in Nat \ {0} /\ DOMAIN s = 1..Len(s) /\ Len(Tail(s)) = Len(s) - 1
      /\ DOMAIN Tail(s) = 1..(Len(s) - 1)
      /\ \A j \in 1..(Len(s) - 1) : Tail(s)[j] = s[j + 1]
      /\ Head(s) = s[1]
    BY HeadTailProperties, LenProperties, EmptySeq
<1>2. k + 1 \in DOMAIN s /\ s[k + 1] = b
    BY <1>1
<1>3. PICK j \in 1..k : s[j] = a
    BY <1>1, <1>2 DEF Led
<1>4. j # 1
    BY <1>1, <1>3
<1>5. j - 1 \in 1..(k - 1) /\ Tail(s)[j - 1] = a
    BY <1>1, <1>3, <1>4
<1> QED
    BY <1>5

\* What the two actions are to the client, and that they differ.
LEMMA UspActions ==
    ASSUME factory = "mqtt"
    PROVE  /\ UspOnConnect(config.custom) = <<Sub, Boot>>
           /\ Sub # Boot /\ SubCall # BootCall
           /\ \A i : CallsOf(i, Sub) = <<SubCall>> /\ CallsOf(i, Boot) = <<BootCall>>
           /\ Sub.kind = "subscribe" /\ Boot.kind = "send"
<1>1. /\ UspOnConnect(config.custom) = <<Sub, Boot>>
      /\ Sub = Action("subscribe", AgentTopic, Nothing, SubscribeMap([qos |-> 1]))
      /\ \E target, record :
             Boot = Action("send", target, Val("bytes", record), PublishMap([qos |-> 1, retain |-> FALSE]))
    BY DEF UspOnConnect, Sub, Boot, AgentTopic
<1>2. /\ Boot.kind = "send" /\ Boot.payload.type = "bytes"
      /\ Boot.metadata = PublishMap([qos |-> 1, retain |-> FALSE])
      /\ ParsePublish(Boot.metadata) = [qos |-> 1, retain |-> FALSE]
  <2>1. ParsePublish(PublishMap([qos |-> 1, retain |-> FALSE])) = [qos |-> 1, retain |-> FALSE]
    <3>1. [qos |-> 1, retain |-> FALSE] \in [qos : Byte, retain : BOOLEAN]
        BY DEF Byte
    <3> QED
        BY <3>1, PublishRoundTrip, Zenon
  <2> HIDE DEF Boot
  <2> QED
      BY <1>1, <2>1 DEF Action, Val
<1>3. /\ Sub.kind = "subscribe" /\ Sub.target = AgentTopic
      /\ ParseSubscribe(Sub.metadata) = [qos |-> 1]
  <2>1. ParseSubscribe(SubscribeMap([qos |-> 1])) = [qos |-> 1]
      BY SubscribeRoundTrip DEF Byte
  <2> HIDE DEF Sub
  <2> QED
      BY <1>1, <2>1 DEF Action
<1>4. SubCall # BootCall
    BY DEF SubCall, BootCall, Call
<1>5. MqttCalls(Sub) = <<SubCall>>
  <2>1. ParseSubscribe(Sub.metadata).qos = 1 /\ Sub.kind # "send"
      BY <1>3
  <2> QED
      BY <1>3, <2>1, Zenon DEF MqttCalls, SubCall
<1>6. MqttCalls(Boot) = <<BootCall>>
  <2>1. /\ ParsePublish(Boot.metadata).qos = 1 /\ ParsePublish(Boot.metadata).retain = FALSE
        /\ HasBytes(Boot)
      BY <1>2 DEF HasBytes
  <2> QED
      BY <1>2, <2>1, Zenon DEF MqttCalls, BootCall
<1> QED
    BY <1>1, <1>2, <1>3, <1>4, <1>5, <1>6 DEF CallsOf

LEMMA BootInitially == Init => BootInv
BY DEF Init, BootInv, Usp

\* What OnConnect returns can be added anywhere.
LEMMA PairLed ==
    ASSUME NEW a, NEW b, a # b, NEW led \in BOOLEAN
    PROVE  <<a, b>> \in Seq({a, b}) /\ Led(<<a, b>>, led, a, b)
<1>1. DOMAIN <<a, b>> = {1, 2} /\ <<a, b>>[1] = a /\ <<a, b>>[2] = b
    OBVIOUS
<1> QED
    BY <1>1 DEF Led

LEMMA BootStep == SetupInv /\ ConnectorInv /\ BootInv /\ [Next]_vars => BootInv'
<1> SUFFICES ASSUME SetupInv, ConnectorInv, BootInv, [Next]_vars PROVE BootInv'
    OBVIOUS
<1> DEFINE Same == Sub' = Sub /\ Boot' = Boot /\ SubCall' = SubCall /\ BootCall' = BootCall
<1>0. ASSUME UNCHANGED config PROVE Same
    BY <1>0 DEF Sub, Boot, SubCall, BootCall, AgentTopic
<1>1. CASE Aside
  <2>1. UNCHANGED <<config, factory, behavior, todo, calls>> /\ (Cancelled => Cancelled')
      BY <1>1, AsideLeaves
  <2>2. Same
      BY <2>1, <1>0
  <2> QED
      BY <2>1, <2>2 DEF BootInv, Usp, Subscribed
<1>2. CASE LoadConfig \/ MakeBehavior
    BY <1>2 DEF LoadConfig, MakeBehavior, ConnectorInv, Early, BootInv, Usp
<1>3. CASE NewEngine
  <2>1. UNCHANGED <<todo, calls>> /\ Idle
      BY <1>3 DEF NewEngine, ConnectorInv, Early, clientVars
  <2> QED
      BY <2>1, EmptySeq, LedEmpty DEF BootInv, Idle
<1>4. CASE Submitting /\ Usp
  <2>1. /\ UNCHANGED <<main, config, behavior, factory, calls>> /\ behavior = "mqtt_usp"
        /\ DOMAIN todo = Fleet
      BY <1>4, SubmittingLeaves DEF ConnectorInv, Usp
  <2>2. Same /\ Cancelled' = Cancelled /\ \A i : Subscribed(i)' = Subscribed(i)
      BY <2>1, <1>0 DEF Subscribed, Cancelled
  <2>3. CASE UNCHANGED todo
      BY <2>1, <2>2, <2>3 DEF BootInv, Usp
  <2>4. ASSUME NEW i \in Clients, LinkUp(i), todo' # todo
        PROVE  BootInv'
    <3>1. todo' = [todo EXCEPT ![i] = @ \o UspOnConnect(config.custom)] /\ i \in Fleet
        BY <2>1, <2>4 DEF LinkUp, OnConnectLists, Submit, Clients
    <3>2. UspOnConnect(config.custom) = <<Sub, Boot>> /\ Sub # Boot
        BY <1>4, UspActions DEF Usp
    <3>3. /\ todo[i] \o <<Sub, Boot>> \in Seq({Sub, Boot})
          /\ ~Cancelled => Led(todo[i] \o <<Sub, Boot>>, Subscribed(i), Sub, Boot)
      <4>1. <<Sub, Boot>> \in Seq({Sub, Boot}) /\ Led(<<Sub, Boot>>, Subscribed(i), Sub, Boot)
          BY <3>2, PairLed DEF Subscribed
      <4>2. todo[i] \in Seq({Sub, Boot}) /\ (~Cancelled => Led(todo[i], Subscribed(i), Sub, Boot))
          BY <1>4, <3>1 DEF BootInv
      <4>3. Subscribed(i) \in BOOLEAN
          BY DEF Subscribed
      <4> QED
          BY <4>1, <4>2, <4>3, ConcatProperties, LedConcat
    <3>4. \A j \in Fleet : todo'[j] = IF j = i THEN todo[i] \o <<Sub, Boot>> ELSE todo[j]
        BY <2>1, <3>1, <3>2
    <3> QED
        BY <1>4, <2>1, <2>2, <3>3, <3>4 DEF BootInv, Usp
  <2>5. todo' = todo \/ \E i \in Clients : LinkUp(i)
    <3>1. Tick => UNCHANGED todo
        BY <2>1, TicksSubmit
    <3> QED
        BY <1>4, <2>1, <3>1 DEF Submitting, MessageArrives, UspReceives, ConnectionRequest
  <2> QED
      BY <2>3, <2>4, <2>5
<1>5. CASE Submitting /\ ~Usp
    BY <1>5, SubmittingLeaves DEF BootInv, Usp
<1>6. ASSUME NEW i \in Clients, Execute(i), Usp
      PROVE  BootInv'
  <2> DEFINE action == Head(todo[i])
  <2>1. /\ UNCHANGED <<main, config, factory, behavior>> /\ i \in Fleet /\ todo[i] # <<>>
        /\ DOMAIN todo = Fleet /\ DOMAIN calls = Fleet
        /\ todo' = [todo EXCEPT ![i] = Tail(@)]
      BY <1>6 DEF Execute, setupVars, Clients, ConnectorInv
  <2>2. Same /\ Cancelled' = Cancelled /\ Usp'
      BY <1>6, <2>1, <1>0 DEF Cancelled, Usp
  <2>3. /\ \A j \in Fleet : todo[j] \in Seq({Sub, Boot}) /\ calls[j] \in Seq({SubCall, BootCall})
        /\ ~Cancelled => \A j \in Fleet : /\ Led(todo[j], Subscribed(j), Sub, Boot)
                                          /\ Led(calls[j], FALSE, SubCall, BootCall)
      BY <1>6 DEF BootInv
  <2>4. action \in {Sub, Boot} /\ Tail(todo[i]) \in Seq({Sub, Boot})
      BY <2>1, <2>3, HeadTailProperties
  <2>5. /\ Sub # Boot /\ SubCall # BootCall
        /\ CallsOf(i, Sub) = <<SubCall>> /\ CallsOf(i, Boot) = <<BootCall>>
      BY <1>6, UspActions DEF Usp
  <2>6. PICK call \in {SubCall, BootCall} :
            CallsOf(i, action) = <<call>> /\ (call = SubCall <=> action = Sub)
      BY <2>4, <2>5
  <2>7. /\ \/ calls' = calls /\ Cancelled
           \/ calls' = [calls EXCEPT ![i] = @ \o <<call>>]
    <3>1. action.kind \in DOMAIN limiters => ~(limiters[action.kind] < 1)
        BY DEF SetupInv
    <3> QED
        BY <1>6, <2>6, <3>1, Zenon DEF Execute
  <2>8. CASE calls' = calls /\ Cancelled
      BY <2>1, <2>2, <2>3, <2>4, <2>8 DEF BootInv
  <2>9. CASE calls' = [calls EXCEPT ![i] = @ \o <<call>>]
    <3>1. calls[i] \in Seq({SubCall, BootCall}) /\ todo[i] \in Seq({Sub, Boot})
        BY <2>1, <2>3
    <3>2. /\ calls'[i] = Append(calls[i], call) /\ calls'[i] \in Seq({SubCall, BootCall})
          /\ Len(calls[i]) \in Nat /\ DOMAIN calls[i] = 1..Len(calls[i])
          /\ DOMAIN calls'[i] = 1..(Len(calls[i]) + 1)
          /\ \A k \in 1..Len(calls[i]) : calls'[i][k] = calls[i][k]
          /\ calls'[i][Len(calls[i]) + 1] = call
        BY <2>1, <2>9, <3>1, AppendProperties, AppendIsConcat, LenProperties
    <3>3. /\ Subscribed(i) => Subscribed(i)'
          /\ call = SubCall => Subscribed(i)'
        BY <2>2, <3>2 DEF Subscribed
    <3>4. ASSUME ~Cancelled
          PROVE  /\ Led(Tail(todo[i]), Subscribed(i)', Sub, Boot)
                 /\ Led(calls'[i], FALSE, SubCall, BootCall)
      <4>1. Led(todo[i], Subscribed(i), Sub, Boot) /\ Led(calls[i], FALSE, SubCall, BootCall)
          BY <2>1, <2>3, <3>4
      <4>2. Subscribed(i) \in BOOLEAN /\ Subscribed(i)' \in BOOLEAN
          BY DEF Subscribed
      <4>3. Led(Tail(todo[i]), Subscribed(i)', Sub, Boot)
          BY <2>1, <2>6, <3>1, <3>3, <4>1, <4>2, LedTail
      <4>4. call = BootCall => Subscribed(i)
        <5>1. todo[i][1] = action /\ 1 \in DOMAIN todo[i]
            BY <2>1, <3>1, LenProperties, EmptySeq
        <5>2. action = Boot => Subscribed(i)
            BY <4>1, <5>1 DEF Led
        <5> QED
            BY <2>4, <2>5, <2>6, <5>2
      <4>5. Led(calls'[i], FALSE, SubCall, BootCall)
        <5> SUFFICES ASSUME NEW k \in 1..(Len(calls[i]) + 1), calls'[i][k] = BootCall
                     PROVE  \E j \in 1..(k - 1) : calls'[i][j] = SubCall
            BY <3>2 DEF Led
        <5>1. CASE k <= Len(calls[i])
          <6>1. PICK j \in 1..(k - 1) : calls[i][j] = SubCall
              BY <3>2, <4>1, <5>1 DEF Led
          <6> QED
              BY <3>2, <5>1, <6>1
        <5>2. CASE k = Len(calls[i]) + 1
          <6>1. PICK j \in 1..Len(calls[i]) : calls[i][j] = SubCall
              BY <3>2, <4>4, <5>2 DEF Subscribed
          <6> QED
              BY <3>2, <5>2, <6>1
        <5> QED
            BY <3>2, <5>1, <5>2
      <4> QED
          BY <4>3, <4>5
    <3>5. \A j \in Fleet : j # i => calls'[j] = calls[j] /\ todo'[j] = todo[j] /\ Subscribed(j)' = Subscribed(j)
        BY <2>1, <2>2, <2>9 DEF Subscribed
    <3>6. todo'[i] = Tail(todo[i])
        BY <2>1
    <3>7. ASSUME NEW j \in Fleet
          PROVE  /\ todo'[j] \in Seq({Sub, Boot}) /\ calls'[j] \in Seq({SubCall, BootCall})
                 /\ ~Cancelled => /\ Led(todo'[j], Subscribed(j)', Sub, Boot)
                                  /\ Led(calls'[j], FALSE, SubCall, BootCall)
      <4>1. CASE j = i
          BY <2>4, <3>2, <3>4, <3>6, <4>1
      <4>2. CASE j # i
          BY <2>3, <3>5, <4>2
      <4> QED
          BY <4>1, <4>2
    <3> QED
        BY <2>2, <3>7 DEF BootInv
  <2> QED
      BY <2>7, <2>8, <2>9
<1>7. ASSUME NEW i \in Clients, Execute(i), ~Usp
      PROVE  BootInv'
    BY <1>7 DEF Execute, setupVars, BootInv, Usp
<1> QED
    BY <1>1, <1>2, <1>3, <1>4, <1>5, <1>6, <1>7, StepCases

\* However a fleet is configured and limited, and whichever connections and
\* lists are lost, no client publishes a boot event before it subscribed.
THEOREM BootAfterSubscription == Spec => []BootAnswerable
<1>1. Spec => []SetupInv
    BY SetupInitially, SetupStep, PTL DEF Spec
<1>2. Spec => []ConnectorInv
    BY <1>1, ConnectorInitially, ConnectorStep, PTL DEF Spec
<1>3. Spec => []BootInv
    BY <1>1, <1>2, BootInitially, BootStep, PTL DEF Spec
<1>4. ConnectorInv /\ BootInv => BootAnswerable
  <2> SUFFICES ASSUME ConnectorInv, BootInv, behavior = "mqtt_usp", ~Cancelled,
                      NEW i \in Fleet, NEW k \in DOMAIN calls[i], calls[i][k].op = "publish"
               PROVE  \E j \in 1..(k - 1) :
                          /\ calls[i][j].op = "subscribe"
                          /\ calls[i][j].target =
                                 FormatTopic(UspSettings(config.custom).agentTopicFmt,
                                             calls[i][k].payload.value.fromID)
      BY DEF BootAnswerable
  <2>1. factory \in {"none", "mqtt"}
      BY DEF ConnectorInv, SupportedConnectors
  <2>2. CASE factory = "none"
      BY <2>2 DEF ConnectorInv, Idle
  <2>3. CASE factory = "mqtt"
    <3>1. calls[i] \in Seq({SubCall, BootCall}) /\ Led(calls[i], FALSE, SubCall, BootCall)
        BY <2>3 DEF BootInv, Usp
    <3>2. calls[i][k] \in {SubCall, BootCall}
        BY <3>1, LenProperties, ElementOfSeq
    <3>3. SubCall.op = "subscribe" /\ SubCall.target = AgentTopic
        BY DEF SubCall, Call
    <3>4. calls[i][k] = BootCall
        BY <3>2, <3>3
    <3>5. PICK j \in 1..(k - 1) : calls[i][j] = SubCall
        BY <3>1, <3>4 DEF Led
    <3>6. BootCall.payload.value.fromID = UspSettings(config.custom).agentID
        BY DEF BootCall, Call, Boot, UspOnConnect, Action, Val, BootRecord
    <3> QED
        BY <3>3, <3>4, <3>5, <3>6 DEF AgentTopic
  <2> QED
      BY <2>1, <2>2, <2>3
<1> QED
    BY <1>2, <1>3, <1>4, PTL

-----------------------------------------------------------------------------
(* The declarative behaviour: what a client has to do, and what it asked of *)
(* the broker, comes from the parts of a configuration that was validated.  *)

ValidInv ==
    main \notin {"load"} \cup Over \/ factory # "none" => Valid(config)

LEMMA ValidInitially == Init => ValidInv
BY DEF Init, ValidInv

\* Validation looks at fields that no default is filled into.
LEMMA DefaultsStayValid ==
    ASSUME NEW c, Fields \subseteq DOMAIN c, NEW mode
    PROVE  Valid([c EXCEPT !.mode = mode]) <=> Valid(c)
<1>1. /\ [c EXCEPT !.mode = mode].connections = c.connections
      /\ [c EXCEPT !.mode = mode].onConnect = c.onConnect
      /\ [c EXCEPT !.mode = mode].onTimer = c.onTimer
      /\ [c EXCEPT !.mode = mode].onMessage = c.onMessage
    BY DEF Fields
<1> QED
    BY <1>1, Zenon DEF Valid

LEMMA ValidStep == SetupInv /\ ConnectorInv /\ ValidInv /\ [Next]_vars => ValidInv'
<1> SUFFICES ASSUME SetupInv, ConnectorInv, ValidInv, [Next]_vars PROVE ValidInv'
    OBVIOUS
<1>1. CASE Aside
    BY <1>1, AsideLeaves DEF ValidInv, Early, Over
<1>2. CASE Submitting
    BY <1>2, SubmittingLeaves DEF ValidInv
<1>3. CASE LoadConfig
  <2>1. factory' = "none" /\ (main' = "failed" \/ Valid(config'))
      <3>1. Valid(config) => Valid([config EXCEPT !.mode = IF @ = "" THEN "declarative" ELSE @])
          BY DefaultsStayValid DEF SetupInv, ConfigOK
      <3> QED
          BY <1>3, <3>1 DEF LoadConfig, ConnectorInv, Early
  <2> QED
      BY <2>1 DEF ValidInv, Over
<1>4. CASE MakeBehavior \/ NewEngine
  <2>1. UNCHANGED config /\ main \in {"behavior", "engine"}
      BY <1>4 DEF MakeBehavior, NewEngine
  <2> QED
      BY <2>1 DEF ValidInv, Over
<1>5. CASE \E i \in Clients : Execute(i)
    BY <1>5 DEF Execute, setupVars, ValidInv
<1> QED
    BY <1>1, <1>2, <1>3, <1>4, <1>5, StepCases

Configured  == Parts(config.onConnect \o config.onMessage \o config.onTimer)
DeclActions == {PartAction(p) : p \in Configured}
DeclCalls   == {PartCall(p) : p \in Configured}

Declares == factory = "mqtt" /\ behavior = "declarative"

DeclInv ==
    Declares => \A i \in Fleet : todo[i] \in Seq(DeclActions) /\ calls[i] \in Seq(DeclCalls)

\* The parts of entries, and the entries they are in.
LEMMA PartsOf ==
    ASSUME NEW a \in Entries
    PROVE  /\ Parts(a) \subseteq Part
           /\ \A i \in DOMAIN a : a[i].parts \in Seq(Parts(a))
           /\ \A p \in Parts(a) : \E i \in DOMAIN a : \E j \in DOMAIN a[i].parts : p = a[i].parts[j]
<1>1. \A i \in DOMAIN a : a[i].parts \in Seq(Part)
  <2>1. \A i \in DOMAIN a : a[i] \in [parts : Seq(Part), interval : Int]
      BY LenProperties, ElementOfSeq DEF Entries
  <2> QED
      BY <2>1
<1>2. \A p : p \in Parts(a) <=> \E i \in DOMAIN a : \E j \in DOMAIN a[i].parts : p = a[i].parts[j]
    BY DEF Parts, Range
<1>3. ASSUME NEW i \in DOMAIN a
      PROVE  a[i].parts \in Seq(Parts(a)) /\ \A j \in DOMAIN a[i].parts : a[i].parts[j] \in Part
  <2> DEFINE s == a[i].parts
  <2>1. s \in Seq(Part) /\ \A j \in DOMAIN s : s[j] \in Parts(a)
      BY <1>1, <1>2
  <2> HIDE DEF s
  <2>2. /\ Len(s) \in Nat /\ DOMAIN s = 1..Len(s) /\ s = [j \in 1..Len(s) |-> s[j]]
        /\ \A j \in DOMAIN s : s[j] \in Part
      BY <2>1, LenProperties, ElementOfSeq
  <2>3. s \in [1..Len(s) -> Parts(a)]
      BY <2>1, <2>2
  <2>4. s \in Seq(Parts(a))
      BY <2>2, <2>3
  <2> QED
      BY <2>2, <2>4 DEF s
<1> QED
    BY <1>2, <1>3

\* The configured parts are those of the three lists.
LEMMA ConfiguredParts ==
    ASSUME ConfigOK(config)
    PROVE  /\ Configured = Parts(config.onConnect) \cup Parts(config.onMessage) \cup Parts(config.onTimer)
           /\ Configured \subseteq Part
<1>1. /\ config.onConnect \in Entries /\ config.onMessage \in Entries /\ config.onTimer \in Entries
      /\ config.onConnect \o config.onMessage \in Entries
    BY ConcatProperties DEF ConfigOK, Entries
<1>2. Range(config.onConnect \o config.onMessage \o config.onTimer) =
          Range(config.onConnect) \cup Range(config.onMessage) \cup Range(config.onTimer)
  <2>1. Range(config.onConnect \o config.onMessage) = Range(config.onConnect) \cup Range(config.onMessage)
      BY <1>1, RangeConcatenation DEF Entries
  <2> DEFINE both == config.onConnect \o config.onMessage
  <2>2. both \in Entries
      BY <1>1
  <2> HIDE DEF both
  <2>3. Range(both \o config.onTimer) = Range(both) \cup Range(config.onTimer)
      BY <1>1, <2>2, RangeConcatenation DEF Entries
  <2> QED
      BY <2>1, <2>3 DEF both
<1>3. Configured = Parts(config.onConnect) \cup Parts(config.onMessage) \cup Parts(config.onTimer)
    BY <1>2 DEF Configured, Parts
<1> QED
    BY <1>1, <1>3, PartsOf

\* What the behaviour may submit.
LEMMA DeclOffers ==
    ASSUME ConfigOK(config)
    PROVE  /\ Rendered(config.onConnect) \cup Rendered(config.onMessage) \subseteq Seq(DeclActions)
           /\ \A n : Rendered(TimerEntries(config.onTimer, n)) \subseteq Seq(DeclActions)
<1>1. ASSUME NEW a \in {config.onConnect, config.onMessage, config.onTimer}
      PROVE  a \in Entries /\ \A i \in DOMAIN a : a[i].parts \in Seq(Configured)
  <2>1. a \in Entries /\ Parts(a) \subseteq Configured
      BY ConfiguredParts DEF ConfigOK
  <2> QED
      BY <2>1, PartsOf, SeqMonotonic
<1>2. ASSUME NEW a, a \in Entries, \A i \in DOMAIN a : a[i].parts \in Seq(Configured)
      PROVE  Len(a) \in Nat /\ DOMAIN a = 1..Len(a)
    BY <1>2, LenProperties DEF Entries
<1>3. ASSUME NEW a, a \in {config.onConnect, config.onMessage}
      PROVE  Rendered(a) \subseteq Seq(DeclActions)
  <2>1. a \in Entries /\ \A i \in DOMAIN a : a[i].parts \in Seq(Configured)
      BY <1>1, <1>3
  <2>2. Len(a) \in Nat /\ DOMAIN a = 1..Len(a)
      BY <1>2, <2>1
  <2> QED
      BY <2>1, <2>2, RenderedType DEF DeclActions
<1>4. ASSUME NEW n
      PROVE  Rendered(TimerEntries(config.onTimer, n)) \subseteq Seq(DeclActions)
  <2> DEFINE a == TimerEntries(config.onTimer, n)
  <2>1. config.onTimer \in Entries /\ \A i \in DOMAIN config.onTimer : config.onTimer[i].parts \in Seq(Configured)
      BY <1>1
  <2>2. DOMAIN a = DOMAIN config.onTimer /\ \A i \in DOMAIN config.onTimer : a[i].parts \in Seq(Configured)
      BY <2>1, TimerParts
  <2>3. Len(config.onTimer) \in Nat /\ DOMAIN config.onTimer = 1..Len(config.onTimer)
      BY <1>2, <2>1
  <2> HIDE DEF a
  <2>4. Rendered(a) \subseteq Seq(DeclActions)
      BY <2>2, <2>3, RenderedType DEF DeclActions
  <2> QED
      BY <2>4 DEF a
<1> QED
    BY <1>3, <1>4

LEMMA DeclInitially == Init => DeclInv
BY DEF Init, DeclInv, Declares

LEMMA DeclStep == SetupInv /\ ConnectorInv /\ DeclInv /\ [Next]_vars => DeclInv'
<1> SUFFICES ASSUME SetupInv, ConnectorInv, DeclInv, [Next]_vars PROVE DeclInv'
    OBVIOUS
<1>0. ASSUME UNCHANGED config
      PROVE  DeclActions' = DeclActions /\ DeclCalls' = DeclCalls
    BY <1>0 DEF DeclActions, DeclCalls, Configured
<1>1. CASE Aside
    BY <1>0, <1>1, AsideLeaves DEF DeclInv, Declares
<1>2. CASE LoadConfig \/ MakeBehavior
    BY <1>2 DEF LoadConfig, MakeBehavior, ConnectorInv, Early, DeclInv, Declares
<1>3. CASE NewEngine
  <2>1. UNCHANGED <<todo, calls>> /\ Idle
      BY <1>3 DEF NewEngine, ConnectorInv, Early, clientVars
  <2> QED
      BY <2>1, EmptySeq DEF DeclInv, Idle
<1>4. CASE Submitting /\ Declares
  <2>1. UNCHANGED <<config, behavior, factory, calls>> /\ behavior = "declarative" /\ DOMAIN todo = Fleet
      BY <1>4, SubmittingLeaves DEF ConnectorInv, Declares
  <2>2. \A i \in Fleet : todo[i] \in Seq(DeclActions) /\ calls[i] \in Seq(DeclCalls)
      BY <1>4 DEF DeclInv
  <2>3. /\ Rendered(config.onConnect) \cup Rendered(config.onMessage) \subseteq Seq(DeclActions)
        /\ Rendered(TimerEntries(config.onTimer, tick + 1)) \cup {<<>>} \subseteq Seq(DeclActions)
      BY DeclOffers, EmptySeq DEF SetupInv
  <2>4. ASSUME NEW i \in Clients, NEW list \in Seq(DeclActions), Submit(i, list)
        PROVE  \A j \in Fleet : todo'[j] \in Seq(DeclActions)
    <3>1. i \in Fleet /\ todo[i] \o list \in Seq(DeclActions)
        BY <2>2, ConcatProperties DEF Clients
    <3>2. todo' = todo \/ todo' = [todo EXCEPT ![i] = todo[i] \o list]
        BY <2>4 DEF Submit
    <3> QED
        BY <2>1, <2>2, <3>1, <3>2
  <2>5. \A j \in Fleet : todo'[j] \in Seq(DeclActions)
    <3>1. CASE Tick
      <4> DEFINE present == {i \in pool : IsConnected(i)}
      <4>1. PICK list \in [present -> Rendered(TimerEntries(config.onTimer, tick + 1)) \cup {<<>>}] :
                todo' = [i \in Fleet |-> IF i \in present THEN todo[i] \o list[i] ELSE todo[i]]
          BY <2>1, <3>1 DEF Tick
      <4>2. \A i \in present : list[i] \in Seq(DeclActions)
          BY <2>3
      <4> QED
          BY <2>2, <4>1, <4>2, ConcatProperties
    <3>2. ASSUME NEW i \in Clients, LinkUp(i)
          PROVE  \A j \in Fleet : todo'[j] \in Seq(DeclActions)
      <4>1. \E list \in Rendered(config.onConnect) : Submit(i, list)
          BY <2>1, <3>2 DEF LinkUp, OnConnectLists
      <4> QED
          BY <2>2, <2>3, <2>4, <4>1
    <3>3. ASSUME NEW i \in Clients, MessageArrives(i)
          PROVE  \A j \in Fleet : todo'[j] \in Seq(DeclActions)
      <4>1. \E list \in Rendered(config.onMessage) : Submit(i, list)
          BY <2>1, <3>3 DEF MessageArrives, UspReceives
      <4> QED
          BY <2>3, <2>4, <4>1
    <3>4. ASSUME NEW i \in Clients, NEW iq \in IQs, ConnectionRequest(i, iq)
          PROVE  FALSE
        BY <2>1, <3>4 DEF ConnectionRequest
    <3> QED
        BY <1>4, <3>1, <3>2, <3>3, <3>4 DEF Submitting
  <2> QED
      BY <1>0, <2>1, <2>2, <2>5 DEF DeclInv
<1>5. CASE Submitting /\ ~Declares
    BY <1>5, SubmittingLeaves DEF DeclInv, Declares
<1>6. ASSUME NEW i \in Clients, Execute(i)
      PROVE  DeclInv'
  <2> DEFINE action == Head(todo[i])
  <2>1. /\ UNCHANGED <<config, factory, behavior>> /\ i \in Fleet /\ todo[i] # <<>>
        /\ DOMAIN todo = Fleet /\ DOMAIN calls = Fleet
        /\ todo' = [todo EXCEPT ![i] = Tail(todo[i])]
        /\ calls' = [calls EXCEPT ![i] = calls[i] \o CallsOf(i, action)] \/ calls' = calls
      BY <1>6 DEF Execute, setupVars, Clients, ConnectorInv
  <2>2. CASE Declares
    <3>1. \A j \in Fleet : todo[j] \in Seq(DeclActions) /\ calls[j] \in Seq(DeclCalls)
        BY <2>2 DEF DeclInv
    <3>2. action \in DeclActions /\ Tail(todo[i]) \in Seq(DeclActions)
        BY <2>1, <3>1, HeadTailProperties
    <3>3. PICK p \in Configured : action = PartAction(p)
        BY <3>2 DEF DeclActions
    <3>4. PICK call \in DeclCalls : CallsOf(i, action) = <<call>>
      <4>1. p \in Part
          BY ConfiguredParts DEF SetupInv
      <4> QED
          BY <2>2, <3>3, <4>1, PartIsCalled DEF CallsOf, Declares, DeclCalls
    <3>5. calls[i] \o CallsOf(i, action) \in Seq(DeclCalls)
      <4>1. calls[i] \in Seq(DeclCalls)
          BY <2>1, <3>1
      <4>2. calls[i] \o <<call>> \in Seq(DeclCalls)
          BY <4>1, ConcatProperties
      <4> QED
          BY <3>4, <4>2
    <3> HIDE DEF action
    <3>6. \A j \in Fleet : todo'[j] \in Seq(DeclActions) /\ calls'[j] \in Seq(DeclCalls)
        BY <2>1, <3>1, <3>2, <3>5
    <3> QED
        BY <1>0, <2>1, <3>6 DEF DeclInv
  <2>3. CASE ~Declares
      BY <2>1, <2>3 DEF DeclInv, Declares
  <2> QED
      BY <2>2, <2>3
<1> QED
    BY <1>1, <1>2, <1>3, <1>4, <1>5, <1>6, StepCases

\* A part that was validated, or a subscription of a timer.
LEMMA PartsValid ==
    ASSUME ConfigOK(config), Valid(config), NEW p \in Configured, p.kind \in {"subscribe", "send"}
    PROVE  p.qos \in 0..2 \/ (p \in Parts(config.onTimer) /\ p.kind = "subscribe")
<1>1. ASSUME NEW a \in Entries, NEW kinds, Validated(a, kinds), p \in Parts(a), p.kind \in kinds
      PROVE  p.qos \in 0..2
    BY <1>1, PartsOf DEF Validated
<1> QED
    BY <1>1, ConfiguredParts DEF Valid, ConfigOK

\* For every configuration, what a declarative client asks of the broker is
\* what the configuration says, and of a quality that MQTT has.
THEOREM WireIsConfigured == Spec => []WireValid
<1>1. Spec => []SetupInv
    BY SetupInitially, SetupStep, PTL DEF Spec
<1>2. Spec => []ConnectorInv
    BY <1>1, ConnectorInitially, ConnectorStep, PTL DEF Spec
<1>3. Spec => []ValidInv
    BY <1>1, <1>2, ValidInitially, ValidStep, PTL DEF Spec
<1>4. Spec => []DeclInv
    BY <1>1, <1>2, DeclInitially, DeclStep, PTL DEF Spec
<1>5. SetupInv /\ ValidInv /\ DeclInv => WireValid
  <2> SUFFICES ASSUME SetupInv, ValidInv, DeclInv, Declares, NEW i \in Fleet, NEW k \in DOMAIN calls[i],
                      calls[i][k].op \in {"subscribe", "publish"}
               PROVE  \/ /\ calls[i][k].qos \in 0..2
                         /\ \E p \in Configured : Asks(p, calls[i][k])
                      \/ \E p \in Parts(config.onTimer) : p.kind = "subscribe" /\ Asks(p, calls[i][k])
      BY DEF WireValid, Declares, Configured
  <2>1. calls[i][k] \in DeclCalls
      BY LenProperties, ElementOfSeq DEF DeclInv
  <2>2. PICK p \in Configured : calls[i][k] = PartCall(p)
      BY <2>1 DEF DeclCalls
  <2>3. p \in Part
      BY ConfiguredParts DEF SetupInv
  <2>4. PartCall(p).op \in {"subscribe", "publish"}
      BY <2>2
  <2>5. /\ p.kind \in {"subscribe", "send"} /\ PartCall(p).qos = p.qos /\ Asks(p, PartCall(p))
      BY <2>3, <2>4 DEF PartCall, Call, Asks, Part
  <2>6. Valid(config) /\ ConfigOK(config)
      BY DEF ValidInv, Declares, SetupInv
  <2>7. p.qos \in 0..2 \/ (p \in Parts(config.onTimer) /\ p.kind = "subscribe")
      BY <2>5, <2>6, PartsValid
  <2> QED
      BY <2>2, <2>5, <2>7
<1> QED
    BY <1>1, <1>3, <1>4, <1>5, PTL

-----------------------------------------------------------------------------
(* Whatever the mode, a client can carry out what its behaviour returns.    *)

\* Only an answer without an ID is none to an XMPP client.
LEMMA AnswerSpeaks ==
    ASSUME NEW i, NEW iq, factory = "xmpp", CallsOf(i, CwmpAnswer(iq)) = <<>>
    PROVE  StringAt(CwmpAnswer(iq).metadata, "id") = ""
<1> DEFINE type == IF iq.authentic THEN "result" ELSE "error"
           md == AnswerMap(iq.id, iq.from, type)
<1>1. CwmpAnswer(iq) = Action("send", iq.from, Nothing, md)
    BY DEF CwmpAnswer, IQMap, StringMap, StringAt, Has, Val
<1>2. StringAt(md, "id") = iq.id
    BY DEF AnswerMap, StringMap, StringAt, Has, Val
<1>3. Kind(md) = "iq"
    BY DEF AnswerMap, StringMap, StringAt, Has, Val, Kind
<1>4. StanzaOK(md) <=> iq.id # ""
    BY AnswerIsWritten
<1> HIDE DEF md
<1>5. ParseStanza(iq.from, md)["kind"] = "iq"
    BY <1>3 DEF ParseStanza, ParseIQ, Base, IQKeys, BaseKeys, Kind
<1>6. CallsOf(i, CwmpAnswer(iq)) = XmppCalls(ClientID(i), Action("send", iq.from, Nothing, md))
    BY <1>1 DEF CallsOf
<1>7. StanzaOK(md) => CallsOf(i, CwmpAnswer(iq)) # <<>>
    BY <1>5, <1>6 DEF XmppCalls, Action
<1>8. CwmpAnswer(iq).metadata = md
    BY <1>1 DEF Action
<1> QED
    BY <1>2, <1>4, <1>7, <1>8

\* For every configuration that loads, with whatever mode and connector, a
\* client is given no action that it cannot carry out, but for the answer to
\* a request without an ID.
THEOREM NoActionIsMute == Spec => []ActionsSpeak
<1>1. Spec => []SetupInv
    BY SetupInitially, SetupStep, PTL DEF Spec
<1>2. Spec => []ConnectorInv
    BY <1>1, ConnectorInitially, ConnectorStep, PTL DEF Spec
<1>3. Spec => []AnswersInv
    BY <1>1, <1>2, AnswersInitially, AnswersStep, PTL DEF Spec
<1>4. Spec => []BootInv
    BY <1>1, <1>2, BootInitially, BootStep, PTL DEF Spec
<1>5. Spec => []DeclInv
    BY <1>1, <1>2, DeclInitially, DeclStep, PTL DEF Spec
<1>6. SetupInv /\ ConnectorInv /\ AnswersInv /\ BootInv /\ DeclInv => ActionsSpeak
  <2> SUFFICES ASSUME SetupInv, ConnectorInv, AnswersInv, BootInv, DeclInv,
                      NEW i \in Fleet, NEW k \in DOMAIN todo[i], CallsOf(i, todo[i][k]) = <<>>
               PROVE  behavior = "xmpp_cwmp" /\ StringAt(todo[i][k].metadata, "id") = ""
      BY DEF ActionsSpeak
  <2>1. \/ factory = "none" \/ Declares \/ Usp \/ (factory = "xmpp" /\ behavior = "xmpp_cwmp")
    <3>1. factory # "none" => factory \in SupportedConnectors(behavior) /\ behavior \in BuiltIn
        BY DEF ConnectorInv
    <3> QED
        BY <3>1 DEF SupportedConnectors, BuiltIn, Declares, Usp
  <2>2. factory # "none"
      BY DEF ConnectorInv, Idle
  <2>3. ~Declares
    <3> SUFFICES ASSUME Declares PROVE FALSE
        OBVIOUS
    <3>1. todo[i][k] \in DeclActions
        BY LenProperties, ElementOfSeq DEF DeclInv
    <3>2. PICK p \in Configured : todo[i][k] = PartAction(p)
        BY <3>1 DEF DeclActions
    <3>3. p \in Part
        BY ConfiguredParts DEF SetupInv
    <3>4. CallsOf(i, todo[i][k]) = <<PartCall(p)>>
        BY <3>2, <3>3, PartIsCalled DEF CallsOf, Declares
    <3>5. <<PartCall(p)>> # <<>>
        OBVIOUS
    <3> QED
        BY <3>4, <3>5
  <2>4. ~Usp
    <3> SUFFICES ASSUME Usp PROVE FALSE
        OBVIOUS
    <3>1. todo[i][k] \in {Sub, Boot}
        BY LenProperties, ElementOfSeq DEF BootInv
    <3>2. CallsOf(i, todo[i][k]) \in {<<SubCall>>, <<BootCall>>}
        BY <3>1, UspActions DEF Usp
    <3> QED
        BY <3>2
  <2>5. factory = "xmpp" /\ behavior = "xmpp_cwmp"
      BY <2>1, <2>2, <2>3, <2>4
  <2>6. todo[i][k] \in Answers(i)
      BY <2>5, LenProperties, ElementOfSeq DEF AnswersInv
  <2>7. PICK iq \in IQs : todo[i][k] = CwmpAnswer(iq)
      BY <2>6 DEF Answers, Requests
  <2> QED
      BY <2>5, <2>7, AnswerSpeaks
<1> QED
    BY <1>1, <1>2, <1>3, <1>4, <1>5, <1>6, PTL
=============================================================================
