--------------------------- MODULE BehaviorsProofs ---------------------------
(***************************************************************************)
(* What the operators of Metadata and Behaviors return, for every value:   *)
(* what the conversions of the metadata keep, that the actions that can    *)
(* become of entries are those of the entries' parts, and that the client  *)
(* makes of each the one request that its part asks for.                   *)
(***************************************************************************)
EXTENDS Behaviors, FlattenProofs

Byte == 0..255
Int8 == -128..127

\* What a behaviour says of a publication reaches the client as it was said.
THEOREM PublishRoundTrip ==
    \A m \in [qos : Byte, retain : BOOLEAN] : ParsePublish(PublishMap(m)) = m
BY DEF ParsePublish, PublishMap, QoSOf, Has, Val

\* So does what it says of a subscription.
THEOREM SubscribeRoundTrip ==
    \A m \in [qos : Byte] : ParseSubscribe(SubscribeMap(m)) = m
BY DEF ParseSubscribe, SubscribeMap, QoSOf, Has, Val

\* The topic and QoS of a message reach the behaviour.
THEOREM MessageRoundTrip ==
    ASSUME NEW String
    PROVE  \A m \in [topic : String, qos : Byte] : ParseMQTTMessage(MQTTMessageMap(m)) = m
BY DEF ParseMQTTMessage, MQTTMessageMap, QoSOf, StringAt, Has, Val

\* Whatever the map says, the QoS the library is given fits a byte.
THEOREM QoSIsByte ==
    ASSUME NEW md, "qos" \in DOMAIN md,
           md["qos"].type = "byte" => md["qos"].value \in Byte,
           md["qos"].type = "int" => md["qos"].value \in Int
    PROVE  QoSOf(md) \in Byte
BY DEF QoSOf, Has, Byte

-----------------------------------------------------------------------------
(* XMPP.                                                                   *)

\* What a struct says, the target standing in for a missing recipient.
Addressed(target, m) == IF m["to"] # "" THEN m ELSE [m EXCEPT !["to"] = target]

LEMMA StringMapFacts ==
    ASSUME NEW S, NEW keys, NEW m \in [keys -> S], NEW k \in keys
    PROVE  Has(StringMap(m), k, "string") /\ StringAt(StringMap(m), k) = m[k]
BY DEF StringMap, Val, Has, StringAt

\* A message is read back from its map.
THEOREM StanzaMessageRoundTrip ==
    ASSUME NEW S, NEW target, NEW m \in [MessageKeys -> S], m["kind"] = "message"
    PROVE  /\ StanzaOK(StringMap(m))
           /\ ParseStanza(target, StringMap(m)) = Addressed(target, m)
<1>1. \A k \in MessageKeys : Has(StringMap(m), k, "string") /\ StringAt(StringMap(m), k) = m[k]
    BY StringMapFacts
<1>2. Kind(StringMap(m)) = "message"
    BY <1>1 DEF Kind, MessageKeys, BaseKeys
<1>3. ParseMessage(target, StringMap(m)) = Addressed(target, m)
    BY <1>1 DEF ParseMessage, Base, To, Addressed, MessageKeys, BaseKeys
<1> QED
    BY <1>1, <1>2, <1>3 DEF StanzaOK, ParseStanza, MessageKeys

\* An IQ is read back from its map, but refused if it has no ID.
THEOREM StanzaIQRoundTrip ==
    ASSUME NEW S, NEW target, NEW m \in [IQKeys -> S], m["kind"] = "iq"
    PROVE  /\ StanzaOK(StringMap(m)) <=> m["id"] # ""
           /\ ParseStanza(target, StringMap(m)) = Addressed(target, m)
<1>1. \A k \in IQKeys : Has(StringMap(m), k, "string") /\ StringAt(StringMap(m), k) = m[k]
    BY StringMapFacts
<1>2. Kind(StringMap(m)) = "iq"
    BY <1>1 DEF Kind, IQKeys, BaseKeys
<1>3. ParseIQ(target, StringMap(m)) = Addressed(target, m)
    BY <1>1 DEF ParseIQ, Base, To, Addressed, IQKeys, BaseKeys
<1> QED
    BY <1>1, <1>2, <1>3 DEF StanzaOK, ParseStanza, IQKeys, BaseKeys

\* A presence is read back from its map, with its priority.
THEOREM StanzaPresenceRoundTrip ==
    ASSUME NEW S, NEW target, NEW m \in [PresenceKeys -> S \cup Int8],
           m["kind"] = "presence", m["priority"] \in Int8
    PROVE  /\ StanzaOK(PresenceMap(m))
           /\ ParseStanza(target, PresenceMap(m)) = Addressed(target, m)
<1> DEFINE md == PresenceMap(m)
<1>1. \A k \in PresenceKeys \ {"priority"} : StringAt(md, k) = m[k]
    BY DEF PresenceMap, Val, StringAt, Has
<1>2. /\ PriorityIs(md, "int8")
      /\ ~PriorityIs(md, "int") /\ ~PriorityIs(md, "float64") /\ ~PriorityIs(md, "string")
      /\ md["priority"].value = m["priority"]
    BY DEF PresenceMap, Val, Has, PriorityIs, PresenceKeys
<1>3. Kind(md) = "presence"
    BY <1>1 DEF Kind, PresenceKeys, BaseKeys
<1>4. PriorityOK(md) /\ Priority(md) = m["priority"]
    BY <1>2 DEF PriorityOK, Priority
<1>5. ParsePresence(target, md) = Addressed(target, m)
    <2> HIDE DEF md
    <2>1. "to" \in PresenceKeys /\ "priority" \in PresenceKeys
        BY DEF PresenceKeys, BaseKeys
    <2>2. DOMAIN ParsePresence(target, md) = PresenceKeys
        BY DEF ParsePresence, Base
    <2>3. ASSUME NEW k \in PresenceKeys
          PROVE  ParsePresence(target, md)[k] = Addressed(target, m)[k]
        BY <1>1, <1>4, <2>1 DEF ParsePresence, Base, To, Addressed
    <2>4. Addressed(target, m) = [k \in PresenceKeys |-> Addressed(target, m)[k]]
        BY <2>1 DEF Addressed
    <2>5. ParsePresence(target, md) = [k \in PresenceKeys |-> ParsePresence(target, md)[k]]
        BY DEF ParsePresence, Base
    <2> QED
        BY <2>3, <2>4, <2>5
<1> QED
    BY <1>3, <1>4, <1>5 DEF StanzaOK, ParseStanza

\* Whatever number the map has, of whatever type, a presence that is not
\* refused has a priority of eight bits.
THEOREM PriorityInRange ==
    ASSUME NEW md, PriorityOK(md),
           PriorityIs(md, "int8") => md["priority"].value \in Int8
    PROVE  Priority(md) \in Int8
BY MetadataAssumption DEF Priority, PriorityOK, PriorityIs, Has, Truncate, Int8

IQStanza(to, from, type, id) == [kind |-> "iq", to |-> to, from |-> from, type |-> type, id |-> id]

\* The answer of the CWMP behaviour to a request with an ID is written as an
\* IQ to its sender under its ID; without an ID nothing can be written.
THEOREM AnswerIsWritten ==
    ASSUME NEW jid, NEW generated, NEW id, NEW from, NEW type
    PROVE  /\ StanzaOK(AnswerMap(id, from, type)) <=> id # ""
           /\ id # "" =>
                  Written(jid, from, ParseStanza(from, AnswerMap(id, from, type)), generated) =
                      IQStanza(from, jid, type, id)
<1> DEFINE m == [kind |-> "iq", from |-> "", to |-> from, id |-> id, type |-> type]
           S == {"iq", "", from, id, type}
<1>1. m \in [IQKeys -> S] /\ m["kind"] = "iq" /\ m["id"] = id /\ m["type"] = type
    <2>1. DOMAIN m = IQKeys
        BY DEF IQKeys, BaseKeys
    <2>2. /\ m["kind"] = "iq" /\ m["from"] = "" /\ m["to"] = from /\ m["id"] = id
          /\ m["type"] = type
        OBVIOUS
    <2>3. m = [k \in DOMAIN m |-> m[k]]
        OBVIOUS
    <2>4. \A k \in IQKeys : m[k] \in S
        BY <2>2 DEF IQKeys, BaseKeys
    <2> HIDE DEF m
    <2> QED
        BY <2>1, <2>2, <2>3, <2>4
<1>2. AnswerMap(id, from, type) = StringMap(m)
    BY DEF AnswerMap
<1> HIDE DEF m, S
<1>3. /\ StanzaOK(StringMap(m)) <=> id # ""
      /\ ParseStanza(from, StringMap(m)) = Addressed(from, m)
    BY <1>1, StanzaIQRoundTrip
<1>4. /\ Addressed(from, m)["kind"] = "iq" /\ Addressed(from, m)["id"] = id
      /\ Addressed(from, m)["type"] = type
    BY <1>1 DEF Addressed, IQKeys, BaseKeys
<1> QED
    BY <1>2, <1>3, <1>4 DEF Written, IQStanza

-----------------------------------------------------------------------------
(* The declarative behaviour.                                              *)

\* The request of the MQTT client for an action that a part asks for.
PartCall(p) ==
    CASE p.kind = "subscribe" -> Call("subscribe", p.target, p.qos, FALSE, Nothing)
      [] p.kind = "send" -> Call("publish", p.target, p.qos, p.retain, Val("string", p.target))
      [] OTHER -> Call(p.kind, p.target, 0, FALSE, Nothing)

\* Through the metadata and back, each part is one request of the client.
THEOREM PartIsCalled ==
    ASSUME NEW p \in Part
    PROVE  MqttCalls(PartAction(p)) = <<PartCall(p)>>
<1>1. /\ p.kind \in {"subscribe", "unsubscribe", "send", "disconnect"}
      /\ p.qos \in Byte /\ p.retain \in BOOLEAN
    BY DEF Part, Byte
<1>2. CASE p.kind = "subscribe"
  <2>1. PartAction(p) = Action("subscribe", p.target, Nothing, SubscribeMap([qos |-> p.qos]))
      BY <1>2, Zenon DEF PartAction
  <2>2. ParseSubscribe(SubscribeMap([qos |-> p.qos])) = [qos |-> p.qos]
    <3>1. [qos |-> p.qos] \in [qos : Byte]
        BY <1>1
    <3> QED
        BY <3>1, SubscribeRoundTrip, Zenon
  <2>3. /\ PartAction(p).kind = "subscribe" /\ PartAction(p).target = p.target
        /\ PartAction(p).metadata = SubscribeMap([qos |-> p.qos])
      BY <2>1 DEF Action
  <2>4. ParseSubscribe(PartAction(p).metadata).qos = p.qos
      BY <2>2, <2>3
  <2>5. PartCall(p) = Call("subscribe", p.target, p.qos, FALSE, Nothing)
      BY <1>2, Zenon DEF PartCall
  <2>6. PartAction(p).kind # "send"
      BY <2>3
  <2> QED
      BY <2>3, <2>4, <2>5, <2>6, Zenon DEF MqttCalls
<1>3. CASE p.kind = "send"
  <2> DEFINE m == [qos |-> p.qos, retain |-> p.retain]
  <2>0. p.kind # "subscribe"
      BY <1>3
  <2>1. PartAction(p) = Action("send", p.target, Val("string", p.target), PublishMap(m))
      BY <1>3, <2>0, Zenon DEF PartAction
  <2>2. ParsePublish(PublishMap(m)) = m
    <3>1. m \in [qos : Byte, retain : BOOLEAN]
        BY <1>1
    <3> QED
        BY <3>1, PublishRoundTrip, Zenon
  <2>3. m.qos = p.qos /\ m.retain = p.retain
      OBVIOUS
  <2> HIDE DEF m
  <2>4. /\ PartAction(p).kind = "send" /\ PartAction(p).target = p.target
        /\ PartAction(p).payload = Val("string", p.target) /\ HasBytes(PartAction(p))
        /\ PartAction(p).metadata = PublishMap(m)
      BY <2>1 DEF Action, HasBytes, Val
  <2>5. ParsePublish(PartAction(p).metadata).qos = p.qos /\ ParsePublish(PartAction(p).metadata).retain = p.retain
      BY <2>2, <2>3, <2>4
  <2>6. PartCall(p) = Call("publish", p.target, p.qos, p.retain, Val("string", p.target))
      BY <1>3, <2>0, Zenon DEF PartCall
  <2> QED
      BY <2>4, <2>5, <2>6, Zenon DEF MqttCalls
<1>4. CASE p.kind \notin {"subscribe", "send"}
  <2>1. PartAction(p) = Action(p.kind, p.target, Nothing, NoMetadata)
      BY <1>4, Zenon DEF PartAction
  <2>2. PartAction(p).kind = p.kind /\ PartAction(p).target = p.target
      BY <2>1 DEF Action
  <2>3. PartCall(p) = Call(p.kind, p.target, 0, FALSE, Nothing)
      BY <1>4, Zenon DEF PartCall
  <2> QED
      BY <1>4, <2>2, <2>3, Zenon DEF MqttCalls
<1> QED
    BY <1>2, <1>3, <1>4

\* Whatever text cannot be rendered, the actions of entries are those of
\* their parts.
THEOREM RenderedType ==
    ASSUME NEW S, NEW entries, NEW n \in Nat, DOMAIN entries = 1..n,
           \A i \in 1..n : entries[i].parts \in Seq(S)
    PROVE  Rendered(entries) \subseteq Seq({PartAction(p) : p \in S})
<1> DEFINE A == {PartAction(p) : p \in S}
<1> SUFFICES ASSUME NEW cut \in [1..n -> 0..4], \A i \in 1..n : cut[i] <= Len(entries[i].parts)
             PROVE  FlattenSeq([i \in 1..n |-> [j \in 1..cut[i] |-> PartAction(entries[i].parts[j])]])
                        \in Seq(A)
    BY DEF Rendered
<1> DEFINE seqs == [i \in 1..n |-> [j \in 1..cut[i] |-> PartAction(entries[i].parts[j])]]
<1>1. ASSUME NEW i \in 1..n
      PROVE  seqs[i] \in Seq(A)
  <2>1. /\ cut[i] \in Nat /\ Len(entries[i].parts) \in Nat /\ cut[i] <= Len(entries[i].parts)
        /\ \A j \in 1..Len(entries[i].parts) : entries[i].parts[j] \in S
      OBVIOUS
  <2>2. \A j \in 1..cut[i] : PartAction(entries[i].parts[j]) \in A
      BY <2>1
  <2>3. [j \in 1..cut[i] |-> PartAction(entries[i].parts[j])] \in [1..cut[i] -> A]
      BY <2>2
  <2> QED
      BY <2>1, <2>3
<1>2. seqs \in Seq(Seq(A))
  <2>1. \A i \in 1..n : seqs[i] \in Seq(A)
      BY <1>1
  <2>2. seqs = [i \in 1..n |-> seqs[i]]
      OBVIOUS
  <2> HIDE DEF seqs
  <2>3. seqs \in [1..n -> Seq(A)]
      BY <2>1, <2>2
  <2> HIDE DEF A
  <2> QED
      BY <2>3
<1> HIDE DEF seqs, A
<1>3. FlattenSeq(seqs) \in Seq(A)
    BY <1>2, FlattenType
<1> QED
    BY <1>3, Zenon DEF seqs

\* On a tick no part is due that the configuration does not have.
LEMMA TimerParts ==
    ASSUME NEW onTimer \in Entries, NEW tick,
           NEW S, \A i \in DOMAIN onTimer : onTimer[i].parts \in Seq(S)
    PROVE  /\ DOMAIN TimerEntries(onTimer, tick) = DOMAIN onTimer
           /\ \A i \in DOMAIN onTimer : TimerEntries(onTimer, tick)[i].parts \in Seq(S)
<1>1. \A i \in DOMAIN onTimer : onTimer[i] \in [parts : Seq(Part), interval : Int]
    BY LenProperties, ElementOfSeq DEF Entries
<1>2. ASSUME NEW i \in DOMAIN onTimer
      PROVE  TimerEntries(onTimer, tick)[i].parts \in {onTimer[i].parts, <<>>}
    BY <1>1 DEF TimerEntries
<1>3. <<>> \in Seq(S)
    BY EmptySeq
<1>4. \A i \in DOMAIN onTimer : TimerEntries(onTimer, tick)[i].parts \in Seq(S)
    BY <1>2, <1>3
<1>5. DOMAIN TimerEntries(onTimer, tick) = DOMAIN onTimer
    BY DEF TimerEntries
<1> QED
    BY <1>4, <1>5
=============================================================================
