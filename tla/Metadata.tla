------------------------------- MODULE Metadata -------------------------------
(***************************************************************************)
(* The metadata of actions and messages: pkg/action/mqtt/metadata.go,      *)
(* pkg/action/xmpp/metadata.go, and what the XMPP client writes from it.   *)
(*                                                                         *)
(* A map[string]any is a function from the keys it has to values with      *)
(* their Go type.  A float64 is counted in halves, which tells apart what  *)
(* the conversion to int8 cuts off and where the range ends.               *)
(***************************************************************************)
EXTENDS Integers

CONSTANT Numeral     \* Numeral[s]: what strconv.Atoi makes of s, where it does

ASSUME MetadataAssumption == \A s \in DOMAIN Numeral : Numeral[s] \in Int

Val(type, value) == [type |-> type, value |-> value]

\* md[key].(type) succeeds.
Has(md, key, type) == key \in DOMAIN md /\ md[key].type = type

StringAt(md, key) == IF Has(md, key, "string") THEN md[key].value ELSE ""

-----------------------------------------------------------------------------
(* MQTT.                                                                   *)

\* An int is cut to a byte; any other type counts as absent.
QoSOf(md) ==
    CASE Has(md, "qos", "byte") -> md["qos"].value
      [] Has(md, "qos", "int")  -> md["qos"].value % 256
      [] OTHER                  -> 0

ParsePublish(md) ==
    [qos |-> QoSOf(md), retain |-> Has(md, "retain", "bool") /\ md["retain"].value]

ParseSubscribe(md) == [qos |-> QoSOf(md)]

ParseMQTTMessage(md) == [topic |-> StringAt(md, "topic"), qos |-> QoSOf(md)]

PublishMap(m) == [qos |-> Val("byte", m.qos), retain |-> Val("bool", m.retain)]
SubscribeMap(m) == [qos |-> Val("byte", m.qos)]
MQTTMessageMap(m) == [topic |-> Val("string", m.topic), qos |-> Val("byte", m.qos)]

-----------------------------------------------------------------------------
(* XMPP.  A struct is a function from the keys of its fields, those of the *)
(* embedded XMPPBaseMetadata among them.                                   *)

BaseKeys     == {"kind", "from", "to", "id"}
MessageKeys  == BaseKeys \cup {"type", "subject", "thread", "lang"}
IQKeys       == BaseKeys \cup {"type"}
PresenceKeys == BaseKeys \cup {"type", "show", "status", "priority"}

Kind(md) == StringAt(md, "kind")

\* The target stands in for a recipient that the map does not name.
To(target, md) == IF StringAt(md, "to") # "" THEN StringAt(md, "to") ELSE target

\* int8 of a float64, counted in halves: towards zero.
Truncate(halves) == IF halves >= 0 THEN halves \div 2 ELSE -((-halves) \div 2)

PriorityIs(md, type) == Has(md, "priority", type)

PriorityOK(md) ==
    /\ PriorityIs(md, "int")     => md["priority"].value \in -128..127
    /\ PriorityIs(md, "float64") => md["priority"].value \in -256..254
    /\ PriorityIs(md, "string")  => /\ md["priority"].value \in DOMAIN Numeral
                                    /\ Numeral[md["priority"].value] \in -128..127

Priority(md) ==
    CASE PriorityIs(md, "int8") \/ PriorityIs(md, "int") -> md["priority"].value
      [] PriorityIs(md, "float64") -> Truncate(md["priority"].value)
      [] PriorityIs(md, "string")  -> Numeral[md["priority"].value]
      [] OTHER                     -> 0

\* ParseStanzaMetadata returns no error.
StanzaOK(md) ==
    CASE Kind(md) = "message"  -> Has(md, "type", "string")
      [] Kind(md) = "iq"       -> Has(md, "type", "string") /\ StringAt(md, "id") # ""
      [] Kind(md) = "presence" -> PriorityOK(md)
      [] OTHER                 -> FALSE

Base(target, md, keys) ==
    [k \in keys |-> IF k = "to" THEN To(target, md) ELSE StringAt(md, k)]

ParseMessage(target, md)  == Base(target, md, MessageKeys)
ParseIQ(target, md)       == Base(target, md, IQKeys)
ParsePresence(target, md) == [Base(target, md, PresenceKeys) EXCEPT !["priority"] = Priority(md)]

ParseStanza(target, md) ==
    CASE Kind(md) = "message"  -> ParseMessage(target, md)
      [] Kind(md) = "iq"       -> ParseIQ(target, md)
      [] Kind(md) = "presence" -> ParsePresence(target, md)

StringMap(m)   == [k \in DOMAIN m |-> Val("string", m[k])]
PresenceMap(m) == [k \in DOMAIN m |-> Val(IF k = "priority" THEN "int8" ELSE "string", m[k])]

-----------------------------------------------------------------------------
(* What Client.Send of the XMPP client writes: the stanza goes to the      *)
(* target, whatever "to" says.  Presences are not sent.                    *)

\* generated is the ID that generateStanzaID would return.
Written(jid, target, m, generated) ==
    [kind |-> m["kind"],
     to   |-> target,
     from |-> jid,
     type |-> m["type"],
     id   |-> IF m["id"] = "" THEN generated ELSE m["id"]]

\* The answer of the CWMP behaviour to a connection request.
AnswerMap(id, target, type) ==
    StringMap([kind |-> "iq", from |-> "", to |-> target, id |-> id, type |-> type])
=============================================================================
