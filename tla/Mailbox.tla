------------------------------- MODULE Mailbox -------------------------------
(***************************************************************************)
(* What the engine promises to whoever hands it actions: every client      *)
(* object has a mailbox; a batch that is accepted is served exactly once,  *)
(* the batches of one client are served one at a time and in the order in  *)
(* which they were accepted, whatever the other clients' batches do.  How  *)
(* mailboxes share queues and workers is the business of WorkerPool, which *)
(* implements this specification.                                          *)
(*                                                                         *)
(* A batch is known by its position in accepted.  The specification has no *)
(* fairness: a batch in service may block for ever on a client.            *)
(***************************************************************************)
EXTENDS Integers, Sequences

CONSTANTS Client,    \* the client objects
          Payload    \* what a batch carries

VARIABLES accepted,  \* every batch ever accepted, in order of acceptance
          serving,   \* serving[c]: the batch of c in service, at most one
          done       \* the batches whose service has ended

vars == <<accepted, serving, done>>

Waiting(c) == {n \in 1..Len(accepted) : accepted[n].client = c}
                \ (serving[c] \cup done)

TypeOK == /\ accepted \in Seq([client : Client, actions : Payload])
          /\ serving \in [Client -> SUBSET Nat]
          /\ done \subseteq Nat

Init == /\ accepted = <<>>
        /\ serving = [c \in Client |-> {}]
        /\ done = {}

\* A batch that is refused leaves no trace: that is a stuttering step.
Accept(c, p) ==
    /\ accepted' = Append(accepted, [client |-> c, actions |-> p])
    /\ UNCHANGED <<serving, done>>

\* The oldest waiting batch of c goes into service.
Begin(c) ==
    /\ serving[c] = {}
    /\ \E n \in Waiting(c) :
         /\ \A m \in Waiting(c) : n <= m
         /\ serving' = [serving EXCEPT ![c] = {n}]
    /\ UNCHANGED <<accepted, done>>

End(c) ==
    /\ serving[c] # {}
    /\ done' = done \cup serving[c]
    /\ serving' = [serving EXCEPT ![c] = {}]
    /\ UNCHANGED accepted

Next == \E c \in Client : Begin(c) \/ End(c) \/ \E p \in Payload : Accept(c, p)

Spec == Init /\ [][Next]_vars
=============================================================================
