----------------------------- MODULE MCXmppClient -----------------------------
(***************************************************************************)
(* An instance of XmppClient for TLC: connection requests with the right   *)
(* and with wrong credentials and without an ID, and one that is garbled.  *)
(***************************************************************************)
EXTENDS XmppClient

CONSTANTS acs, id1, id2, id3

Request(id, body, authentic) ==
    [id |-> id, from |-> acs, type |-> "get", body |-> body, authentic |-> authentic]
MCRequests ==
    {Request(id1, "ConnectionRequest", TRUE), Request(id2, "ConnectionRequest", FALSE),
     Request(NoID, "ConnectionRequest", TRUE), Request(id3, "garbled", TRUE)}
=============================================================================
