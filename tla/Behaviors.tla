------------------------------ MODULE Behaviors ------------------------------
(***************************************************************************)
(* What the behaviours of pkg/behavior answer: the registry, the actions   *)
(* of the declarative, the USP and the CWMP behaviour, and what they pass  *)
(* to the clients.  Declarative shows how the texts of an entry are        *)
(* rendered, and XmppClient how a connection request is dealt with; here   *)
(* an action is what its client gets to see: target, payload, metadata.    *)
(*                                                                         *)
(* An entry of the configuration has its actions, in the order of the      *)
(* struct's fields, and an interval.                                       *)
(***************************************************************************)
EXTENDS Metadata, SequencesExt

Action(kind, target, payload, metadata) ==
    [kind |-> kind, target |-> target, payload |-> payload, metadata |-> metadata]
Nothing    == Val("nil", "")
NoMetadata == [key \in {} |-> Nothing]

-----------------------------------------------------------------------------
(* The registry.                                                           *)

BuiltIn == {"declarative", "mqtt_usp", "xmpp_cwmp"}

\* A mode that nobody registered is taken for the declarative one.
NewBehavior(mode) == IF mode \in BuiltIn THEN mode ELSE "declarative"

SupportedConnectors(behavior) == IF behavior = "xmpp_cwmp" THEN {"xmpp"} ELSE {"mqtt"}

-----------------------------------------------------------------------------
(* The declarative behaviour.                                              *)

\* A QoS is a Go byte, and may be one that MQTT does not have.
Part == [kind : {"subscribe", "unsubscribe", "send", "disconnect"},
         target : STRING, qos : 0..255, retain : BOOLEAN]
Entries == Seq([parts : Seq(Part), interval : Int])

PartAction(p) ==
    CASE p.kind = "subscribe" ->
             Action("subscribe", p.target, Nothing, SubscribeMap([qos |-> p.qos]))
      [] p.kind = "send" ->
             Action("send", p.target, Val("string", p.target),
                    PublishMap([qos |-> p.qos, retain |-> p.retain]))
      [] OTHER -> Action(p.kind, p.target, Nothing, NoMetadata)

\* What can become of entries: an entry ends at a text that cannot be
\* rendered, the entries after it do not.
Rendered(entries) ==
    {FlattenSeq([i \in DOMAIN entries |->
                    [j \in 1..cut[i] |-> PartAction(entries[i].parts[j])]]) :
        cut \in {f \in [DOMAIN entries -> 0..4] :
                    \A i \in DOMAIN entries : f[i] <= Len(entries[i].parts)}}

\* Of an entry that is not due, OnTick does nothing.
TimerEntries(onTimer, tick) ==
    [i \in DOMAIN onTimer |->
        LET interval == IF onTimer[i].interval <= 0 THEN 1 ELSE onTimer[i].interval
        IN  IF tick % interval = 0 THEN onTimer[i] ELSE [onTimer[i] EXCEPT !.parts = <<>>]]

-----------------------------------------------------------------------------
(* USP.  A format is its text and how many %s it has; a topic is what      *)
(* Sprintf makes of it, which marks the %s that have no operand.           *)

FormatTopic(format, id) ==
    [text |-> format.text,
     id |-> IF format.verbs > 0 THEN id ELSE "",
     missing |-> IF format.verbs > 0 THEN format.verbs - 1 ELSE 0]

Given(s, default) == IF s = "" THEN default ELSE s
GivenFormat(format, default) ==
    IF format.text = "" THEN [text |-> default, verbs |-> 1] ELSE format

\* NewUSPBehavior; what does not decode is as if it were not there.
UspSettings(custom) ==
    [agentID            |-> Given(custom.agentID, "defaultAgentID"),
     controllerID       |-> Given(custom.controllerID, "defaultControllerID"),
     controllerTopicFmt |-> GivenFormat(custom.controllerTopicFmt, "/usp/%s/Controller"),
     agentTopicFmt      |-> GivenFormat(custom.agentTopicFmt, "/usp/%s/Agent")]

BootEvent == [msgType |-> "NOTIFY", sendResp |-> TRUE, objPath |-> "Device.", eventName |-> "Boot!"]

\* The record that carries the boot event, in plain text, without a session.
BootRecord(s) ==
    [version |-> "1.5", toID |-> s.controllerID, fromID |-> s.agentID,
     originatorID |-> s.agentID, destinationID |-> s.controllerID,
     security |-> "PLAINTEXT", payload |-> BootEvent]

\* Mutant: the boot event goes first.
UspOnConnectBootFirst(custom) ==
    LET s == UspSettings(custom)
    IN  << Action("send", FormatTopic(s.controllerTopicFmt, s.controllerID),
                  Val("bytes", BootRecord(s)), PublishMap([qos |-> 1, retain |-> FALSE])),
           Action("subscribe", FormatTopic(s.agentTopicFmt, s.agentID), Nothing,
                  SubscribeMap([qos |-> 1])) >>
\* What a configuration gives decodes and marshals.
UspOnConnect(custom) ==
    LET s == UspSettings(custom)
    IN  << Action("subscribe", FormatTopic(s.agentTopicFmt, s.agentID), Nothing,
                  SubscribeMap([qos |-> 1])),
           Action("send", FormatTopic(s.controllerTopicFmt, s.controllerID),
                  Val("bytes", BootRecord(s)), PublishMap([qos |-> 1, retain |-> FALSE])) >>

-----------------------------------------------------------------------------
(* CWMP.                                                                   *)

\* iqAdapter's map of a stanza from the server.
IQMap(iq) ==
    StringMap([kind |-> "iq", from |-> iq.from, to |-> iq.to, id |-> iq.id, type |-> iq.type])

\* Mutant: the answer goes to the device itself.
CwmpAnswerToSelf(iq) ==
    LET md == IQMap(iq)
        target == StringAt(md, "to")
    IN  Action("send", target, Nothing,
               AnswerMap(StringAt(md, "id"), target, IF iq.authentic THEN "result" ELSE "error"))
CwmpAnswer(iq) ==
    LET md == IQMap(iq)
        target == StringAt(md, "from")
    IN  Action("send", target, Nothing,
               AnswerMap(StringAt(md, "id"), target, IF iq.authentic THEN "result" ELSE "error"))

-----------------------------------------------------------------------------
(* What a client makes of an action.                                       *)

Call(op, target, qos, retain, payload) ==
    [op |-> op, target |-> target, qos |-> qos, retain |-> retain, payload |-> payload]

HasBytes(action) == action.payload.type \in {"bytes", "string"}

\* The requests of the MQTT client to its library; of a topic it has listed
\* Subscribe makes none (see MqttClient).
MqttCalls(action) ==
    CASE action.kind = "send" ->
             LET m == ParsePublish(action.metadata)
             IN  IF HasBytes(action)
                 THEN <<Call("publish", action.target, m.qos, m.retain, action.payload)>>
                 ELSE <<>>
      [] action.kind = "subscribe" ->
             <<Call("subscribe", action.target, ParseSubscribe(action.metadata).qos, FALSE, Nothing)>>
      [] OTHER -> <<Call(action.kind, action.target, 0, FALSE, Nothing)>>

\* The stanzas the XMPP client sends; Subscribe and Unsubscribe do nothing.
XmppCalls(jid, action) ==
    IF action.kind # "send" \/ ~StanzaOK(action.metadata)
    THEN <<>>
    ELSE LET m == ParseStanza(action.target, action.metadata)
         IN  IF m["kind"] = "iq" \/ (m["kind"] = "message" /\ HasBytes(action))
             THEN <<Written(jid, action.target, m, "generated")>>
             ELSE <<>>
=============================================================================
