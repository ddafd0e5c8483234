------------------------------- MODULE MCEngine -------------------------------
(***************************************************************************)
(* Instances of Engine for TLC: two client objects, two workers.           *)
(***************************************************************************)
EXTENDS Engine, TLC

CONSTANTS a, b

MCClients == {a, b}
MCHash == (a :> 4) @@ (b :> 7)
MCID == (a :> 1) @@ (b :> 2)
MCLosses == (a :> 1) @@ (b :> 0)
MCBatches == {<<"disconnect">>}
MCLimitedKinds == {"disconnect"}

\* The smaller instance for liveness: one client, and a worker without any.
LiveClients == {a}
LiveHash == (a :> 3)
LiveID == (a :> 1)
LiveLosses == (a :> 1)
LiveBatches == {<<"disconnect", "send">>}

\* A static client_id in the credentials: every index generates the same ID.
StaticHash == (a :> 4) @@ (b :> 4)
StaticID == (a :> 1) @@ (b :> 1)
=============================================================================
