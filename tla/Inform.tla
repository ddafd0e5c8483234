-------------------------------- MODULE Inform --------------------------------
(***************************************************************************)
(* The Informs of the CWMP behaviour, pkg/behavior/xmpp_cwmp.go: one       *)
(* behaviour serves all clients, so goroutines of many clients build their *)
(* Informs at once from copies of one InformConfig.  A copy shares the     *)
(* array behind EventCodes, to which each appends the code of its cause.   *)
(***************************************************************************)
EXTENDS Integers, Sequences

CONSTANT Fleet       \* the clients, by index

VARIABLES
    eventCodes,      \* the array behind informConfig.EventCodes ...
    codes,           \* ... and how many of its cells the slice has
    sending,         \* the goroutines that have an Inform to send
    posted           \* history: the Informs handed to the HTTP client

informVars == <<eventCodes, codes, sending, posted>>

\* cause: the tick of a periodic Inform, or 0 for a connection request.
Code(tick) == IF tick = 0 THEN "CONNECTION_REQUEST" ELSE "PERIODIC"

\* Mutant: the array has room for one more code.
DecodedRoomy(list) == Append(list, "")
\* mapstructure makes an array of the length of the list.
Decoded(list) == list

InformInit ==
    /\ eventCodes = <<>>
    /\ codes = 0
    /\ sending = {}
    /\ posted = {}

\* NewCWMPBehavior.
InformConfigured(list) ==
    /\ eventCodes' = Decoded(list)
    /\ codes' = Len(list)
    /\ UNCHANGED <<sending, posted>>

\* append writes behind the slice if the array has a cell there, and copies
\* the slice if not.
StartInforms(clients, tick) ==
    LET room == codes < Len(eventCodes)
        own  == IF room THEN <<>> ELSE SubSeq(eventCodes, 1, codes) \o <<Code(tick)>>
    IN  /\ eventCodes' = IF room /\ clients # {}
                         THEN [eventCodes EXCEPT ![codes + 1] = Code(tick)]
                         ELSE eventCodes
        /\ sending' = sending \cup {[client |-> c, tick |-> tick, own |-> own] : c \in clients}
        /\ UNCHANGED <<codes, posted>>

\* The codes a goroutine's slice has now.
Codes(g) == IF g.own # <<>> THEN g.own ELSE SubSeq(eventCodes, 1, codes + 1)

\* BuildStandardInform: an event for each code.  Without a URL, or with one
\* that is none, nothing is sent.  What the server answers, if it ever does,
\* is only logged.
PostInform(g, acsURL) ==
    /\ sending' = sending \ {g}
    /\ posted' = IF acsURL = "good"
                 THEN posted \cup {[client |-> g.client, tick |-> g.tick, events |-> Codes(g)]}
                 ELSE posted
    /\ UNCHANGED <<eventCodes, codes>>
=============================================================================
