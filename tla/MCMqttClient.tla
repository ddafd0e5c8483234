----------------------------- MODULE MCMqttClient -----------------------------
(***************************************************************************)
(* An instance of MqttClient for TLC: one topic that connections, ticks    *)
(* and messages subscribe, unsubscribe and publish to.                     *)
(***************************************************************************)
EXTENDS MqttClient

CONSTANTS t

MCTopics == {t}
Subscribe == [kind |-> "subscribe", topic |-> t]
Unsubscribe == [kind |-> "unsubscribe", topic |-> t]
Send(q) == [kind |-> "send", qos |-> q]
MCOnConnectOps == <<Subscribe, Send(1)>>
MCOps == {Subscribe, Unsubscribe, Send(0), [kind |-> "disconnect"]}
=============================================================================
