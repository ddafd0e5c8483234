----------------------------- MODULE ClientLink -----------------------------
(***************************************************************************)
(* What the engine may rely on of the connection of one client, whatever   *)
(* library and locks are behind it.  Engine uses one for each client and   *)
(* MqttClient implements it.                                               *)
(*                                                                         *)
(* A client that is told to disconnect closes its link; but once a         *)
(* connection has been lost, somebody may be about to dial, and the link   *)
(* is then down rather than closed: it may come up again.                  *)
(***************************************************************************)
VARIABLES link,        \* "none", "up", "down" or "closed"
          receiving,   \* messages are handed to the behaviour
          lost         \* a connection of this client has been lost

vars == <<link, receiving, lost>>

Init == link = "none" /\ receiving = TRUE /\ lost = FALSE

Open == link = "none" /\ link' = "up" /\ UNCHANGED <<receiving, lost>>

Lose == link = "up" /\ link' = "down" /\ lost' = TRUE /\ UNCHANGED receiving

Reopen == link = "down" /\ link' = "up" /\ UNCHANGED <<receiving, lost>>

\* It never receives again, not even when the link comes up again.
StopReceiving == receiving' = FALSE /\ UNCHANGED <<link, lost>>

Disconnect ==
    /\ link # "none"
    /\ link' \in {"closed"} \cup (IF lost THEN {"down"} ELSE {})
    /\ UNCHANGED <<receiving, lost>>

Next == Open \/ Lose \/ Reopen \/ StopReceiving \/ Disconnect

Spec == Init /\ [][Next]_vars
=============================================================================
