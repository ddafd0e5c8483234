------------------------------- MODULE MCProgram -------------------------------
(***************************************************************************)
(* An instance of Program for TLC: three ordinary configurations, one for  *)
(* each behaviour, and variations of them in one or two respects.          *)
(***************************************************************************)
EXTENDS Program, TLC

Entry(parts, interval) == [parts |-> parts, interval |-> interval]
Subscribe(target, qos) == [kind |-> "subscribe", target |-> target, qos |-> qos, retain |-> FALSE]
Send(target, qos, retain) == [kind |-> "send", target |-> target, qos |-> qos, retain |-> retain]
Unsubscribe(target) == [kind |-> "unsubscribe", target |-> target, qos |-> 0, retain |-> FALSE]
Disconnects == [kind |-> "disconnect", target |-> "", qos |-> 0, retain |-> FALSE]

Unlimited == [rate |-> 0, burst |-> 0]
NoFormat == [text |-> "", verbs |-> 0]
NoCustom == [agentID |-> "", controllerID |-> "", controllerTopicFmt |-> NoFormat,
             agentTopicFmt |-> NoFormat, acsURL |-> "", interval |-> 0, eventCodes |-> <<>>]
UspCustom == [NoCustom EXCEPT !.agentID = "device",
                              !.agentTopicFmt = [text |-> "zlr/device/%s", verbs |-> 1],
                              !.controllerTopicFmt = [text |-> "zlr/controller", verbs |-> 0]]
CwmpCustom == [NoCustom EXCEPT !.acsURL = "good", !.interval = 1, !.eventCodes = <<"1 BOOT">>]

Declared ==
    [connections |-> 1, brokerOK |-> TRUE, connector |-> "mqtt", mode |-> "declarative",
     clientID |-> "", prefix |-> "device",
     rates |-> [kind \in {"connect", "subscribe", "send", "disconnect"} |-> Unlimited],
     metrics |-> FALSE, custom |-> NoCustom,
     onConnect |-> <<Entry(<<Subscribe("t", 1), Send("a", 2, TRUE)>>, 0)>>,
     onMessage |-> <<Entry(<<Send("b", 0, FALSE), Unsubscribe("t")>>, 0), Entry(<<Disconnects>>, 0)>>,
     onTimer |-> <<Entry(<<Send("c", 1, FALSE)>>, 2)>>]

Short == [Declared EXCEPT !.onMessage = <<>>, !.onTimer = <<Entry(<<Disconnects>>, 2)>>]
NoEntries == [Declared EXCEPT !.onConnect = <<>>, !.onMessage = <<>>, !.onTimer = <<>>]
Usp  == [NoEntries EXCEPT !.mode = "mqtt_usp", !.custom = UspCustom]
Cwmp == [NoEntries EXCEPT !.mode = "xmpp_cwmp", !.connector = "xmpp", !.connections = 2,
                          !.prefix = "cpe", !.custom = CwmpCustom]

\* What LoadConfig is to refuse.
Wrong ==
    {[Short EXCEPT !.connections = 0],
     [Short EXCEPT !.brokerOK = FALSE],
     [Short EXCEPT !.onConnect = <<Entry(<<Subscribe("", 1)>>, 0)>>],
     [Short EXCEPT !.onMessage = <<Entry(<<Send("b", 3, FALSE)>>, 0)>>],
     [Short EXCEPT !.onTimer = <<Entry(<<Send("c", 3, FALSE)>>, 1)>>]}

\* Modes and connectors: those there are, those the README names, none.
Modes ==
    {[c EXCEPT !.mode = mode, !.connector = connector, !.connections = 1] :
        c \in {Short, Usp, Cwmp}, mode \in {"declarative", "mqtt_usp", "xmpp_cwmp", "usp", ""},
        connector \in {"mqtt", "xmpp", ""}}

Rates ==
    {[c EXCEPT !.rates = [kind \in DOMAIN c.rates |-> [rate |-> 5, burst |-> burst]]] :
        c \in {Short, Usp}, burst \in {-1, 0, 2}}

Others ==
    {[Short EXCEPT !.onTimer = <<Entry(<<Subscribe("s", 3)>>, 0)>>],
     [Usp EXCEPT !.custom = NoCustom],
     [Usp EXCEPT !.custom.agentTopicFmt.verbs = 2, !.metrics = TRUE],
     [Cwmp EXCEPT !.clientID = "cpe", !.custom.interval = 2],
     [Cwmp EXCEPT !.custom.acsURL = "bad"],
     [Cwmp EXCEPT !.custom.interval = 2, !.custom.eventCodes = <<>>, !.connections = 1],
     [Cwmp EXCEPT !.custom.interval = 0, !.connections = 1]}

MCConfigs == {Declared, Usp, Cwmp} \cup Wrong \cup Modes \cup Rates \cup Others

MCIQs ==
    {[type |-> "get", from |-> "acs", to |-> "cpe", id |-> "1", authentic |-> TRUE],
     [type |-> "get", from |-> "other", to |-> "cpe", id |-> "2", authentic |-> FALSE],
     [type |-> "get", from |-> "acs", to |-> "cpe", id |-> "", authentic |-> FALSE]}

MCNumeral == ("1" :> 1)
MCFleet == 1..2
=============================================================================
