--------------------------- MODULE XmppClientProofs ---------------------------
(***************************************************************************)
(* Theorems about XmppClient, for any requests, queue and losses.          *)
(***************************************************************************)
EXTENDS XmppClient, SequenceTheorems, TLAPS

-----------------------------------------------------------------------------
(* Facts about sequences.                                                  *)

\* The entries of a sequence with one more at its end.
LEMMA AppendFacts ==
    ASSUME NEW S, NEW s \in Seq(S), NEW x \in S
    PROVE  /\ Append(s, x) \in Seq(S)
           /\ DOMAIN s = 1..Len(s)
           /\ DOMAIN Append(s, x) = 1..(Len(s) + 1)
           /\ \A i \in 1..Len(s) : Append(s, x)[i] = s[i]
           /\ Append(s, x)[Len(s) + 1] = x
OBVIOUS

\* The entries of a sequence without its first.
LEMMA TailFacts ==
    ASSUME NEW S, NEW s \in Seq(S), s # <<>>
    PROVE  /\ Head(s) \in S /\ Head(s) = s[1]
           /\ Tail(s) \in Seq(S)
           /\ DOMAIN s = 1..Len(s) /\ Len(s) >= 1
           /\ DOMAIN Tail(s) = 1..(Len(s) - 1)
           /\ \A i \in 1..(Len(s) - 1) : Tail(s)[i] = s[i + 1]
OBVIOUS

-----------------------------------------------------------------------------
(* What a step leaves alone.                                               *)

Streams == <<isConnected, hasHandler, mainPc, stream, dialer, posting, wasConnected, stopper,
             resumed, losses>>

\* A step of the dialogue says nothing about the stream.
LEMMA StreamFrame ==
    ASSUME StreamInv, StopInv, StaysClosed, UNCHANGED Streams
    PROVE  StreamInv' /\ StopInv' /\ StaysClosed'
BY DEF StreamInv, StopInv, StaysClosed, Streams

\* A step that does not open the queue again says nothing about the dialogue.
LEMMA TalkFrame ==
    ASSUME TalkInv, AnsweredOnce, UNCHANGED talkVars, Open' \/ ~Open \/ inbox = <<>>
    PROVE  TalkInv' /\ AnsweredOnce'
BY DEF TalkInv, AnsweredOnce, talkVars

\* The types of the dialogue's variables.
TalkTypes ==
    /\ fate' \in [Requests -> {"unsent", "handling", "ignored", "queued", "dropped", "failed",
                               "answered"}]
    /\ inbox' \in Seq(Requests)
    /\ informs' \subseteq Requests
    /\ sent' \in Seq([id : {r.id : r \in Requests}, to : {r.from : r \in Requests},
                      type : {"result", "error"}])
\* They hold after a step that leaves the dialogue alone.
LEMMA TalkTypesKept == TypeOK /\ UNCHANGED talkVars => TalkTypes
BY DEF TypeOK, talkVars, TalkTypes

-----------------------------------------------------------------------------
(* The stream and Disconnect.                                              *)

\* The steps of the library and of postConnect.
LibraryStep == RunStarts \/ StreamUp \/ RunFails \/ ResumeFails \/ StreamLost \/ PostConnect

\* They keep the invariant.
LEMMA LibraryKeeps ==
    ASSUME IInv, LibraryStep
    PROVE  IInv'
<1> USE DEF IInv, LibraryStep
<1>1. TalkInv' /\ AnsweredOnce'
    BY TalkFrame DEF RunStarts, StreamUp, RunFails, ResumeFails, StreamLost, PostConnect, stopVars,
                     Open
<1>2. TalkTypes
    BY TalkTypesKept DEF RunStarts, StreamUp, RunFails, ResumeFails, StreamLost, PostConnect
<1>3. CASE RunStarts
    BY <1>1, <1>2, <1>3
    DEF RunStarts, TypeOK, StreamInv, StopInv, StaysClosed, TalkTypes, flags, stopVars
<1>4. CASE StreamUp
    BY <1>1, <1>2, <1>4
    DEF StreamUp, TypeOK, StreamInv, StopInv, StaysClosed, TalkTypes, flags, stopVars
<1>5. CASE RunFails
    BY <1>1, <1>2, <1>5
    DEF RunFails, TypeOK, StreamInv, StopInv, StaysClosed, TalkTypes, stopVars
<1>6. CASE ResumeFails
    BY <1>1, <1>2, <1>6
    DEF ResumeFails, TypeOK, StreamInv, StopInv, StaysClosed, TalkTypes, flags, stopVars
<1>7. CASE StreamLost
    <2>1. losses \in Nat /\ losses' # 0 /\ losses' \in 0..MaxLosses
        BY <1>7, XmppAssumption DEF StreamLost, TypeOK
    <2> QED BY <1>1, <1>2, <1>7, <2>1
            DEF StreamLost, StreamEnds, TypeOK, StreamInv, StopInv, StaysClosed, TalkTypes, flags,
                stopVars
<1>8. CASE PostConnect
    BY <1>1, <1>2, <1>8
    DEF PostConnect, TypeOK, StreamInv, StopInv, StaysClosed, TalkTypes, stopVars
<1> QED BY <1>3, <1>4, <1>5, <1>6, <1>7, <1>8

\* The steps of Connect, of Stop and of Disconnect with its goroutine.
MainSteps ==
    \/ ConnectOK \/ ConnectFails \/ StopCancels \/ StopReceiving
    \/ DisconnectStep \/ UnsetHandler \/ CloseStep

\* They keep the invariant.
LEMMA MainKeeps ==
    ASSUME IInv, MainSteps
    PROVE  IInv'
<1> USE DEF IInv, MainSteps, DisconnectStep, CloseStep
<1>1. TalkInv' /\ AnsweredOnce'
    <2>1. UNCHANGED talkVars
        BY DEF ConnectOK, ConnectFails, StopCancels, StopReceiving, StopWaits, DisconnectBegins, UnsetHandler,
               StopCloses, ManagerStopped, StopTimesOut, DisconnectCloses
    <2>2. Open' \/ ~Open \/ inbox = <<>>
        BY DEF ConnectOK, ConnectFails, StopCancels, StopReceiving, StopWaits, DisconnectBegins, UnsetHandler,
               StopCloses, ManagerStopped, StopTimesOut, DisconnectCloses, Open
    <2> QED BY <2>1, <2>2, TalkFrame
<1>2. TalkTypes
    BY TalkTypesKept
    DEF ConnectOK, ConnectFails, StopCancels, StopReceiving, StopWaits, DisconnectBegins, UnsetHandler,
        StopCloses, ManagerStopped, StopTimesOut, DisconnectCloses
<1> USE DEF TypeOK, StreamInv, StopInv, StaysClosed, TalkTypes, flags, streamVars
<1>3. CASE ConnectOK BY <1>1, <1>2, <1>3 DEF ConnectOK
<1>4. CASE ConnectFails BY <1>1, <1>2, <1>4 DEF ConnectFails
<1>13. CASE StopCancels BY <1>1, <1>2, <1>13 DEF StopCancels
<1>5. CASE StopReceiving BY <1>1, <1>2, <1>5 DEF StopReceiving
<1>6. CASE StopWaits BY <1>1, <1>2, <1>6 DEF StopWaits
<1>7. CASE DisconnectBegins BY <1>1, <1>2, <1>7 DEF DisconnectBegins
<1>8. CASE UnsetHandler BY <1>1, <1>2, <1>8 DEF UnsetHandler
<1>9. CASE StopCloses BY <1>1, <1>2, <1>9 DEF StopCloses, CloseStream, StreamEnds
<1>10. CASE ManagerStopped BY <1>1, <1>2, <1>10 DEF ManagerStopped
<1>11. CASE StopTimesOut BY <1>1, <1>2, <1>11 DEF StopTimesOut
<1>12. CASE DisconnectCloses BY <1>1, <1>2, <1>12 DEF DisconnectCloses, CloseStream, StreamEnds
<1> QED BY <1>3, <1>4, <1>5, <1>6, <1>7, <1>8, <1>9, <1>10, <1>11, <1>12, <1>13

-----------------------------------------------------------------------------
(* The dialogue.                                                           *)

\* The steps of a request and of its answer leave the stream alone.
TalkStep ==
    \/ \E r \in Requests : HandlePacket(r) \/ HandlerStep(r)
    \/ WorkerStep

\* They keep the conjuncts about it.
LEMMA TalkStreams ==
    ASSUME IInv, TalkStep
    PROVE  StreamInv' /\ StopInv' /\ StaysClosed'
<1>1. UNCHANGED Streams
    BY DEF TalkStep, HandlerStep, WorkerStep, HandlePacket, OnMessageIgnores, OnConnectionRequest,
           SendOK, SendFails, Streams, flags, streamVars, stopVars
<1> QED BY <1>1, StreamFrame DEF IInv

\* A request that becomes "handling" or "ignored" was in no other place.
LEMMA HandleKeeps ==
    ASSUME IInv, NEW r \in Requests, HandlePacket(r) \/ OnMessageIgnores(r)
    PROVE  TypeOK' /\ TalkInv' /\ AnsweredOnce'
<1> USE DEF IInv
<1>1. PICK f \in {"handling", "ignored"} : fate' = [fate EXCEPT ![r] = f]
    BY DEF HandlePacket, OnMessageIgnores
<1>2. /\ fate[r] \in {"unsent", "handling"}
      /\ UNCHANGED <<flags, streamVars, stopVars, inbox, informs, sent>>
    BY DEF HandlePacket, OnMessageIgnores
<1>3. TypeOK'
    BY <1>1, <1>2 DEF TypeOK, flags, streamVars, stopVars
<1>4. /\ fate'[r] \in {"handling", "ignored"}
      /\ \A s \in Requests : s # r => fate'[s] = fate[s]
    BY <1>1 DEF TypeOK
<1>5. TalkInv'
    BY <1>2, <1>4 DEF TypeOK, TalkInv, Open, stopVars
<1>6. AnsweredOnce'
    BY <1>2, <1>4 DEF TypeOK, AnsweredOnce
<1> QED BY <1>3, <1>5, <1>6

\* A connection request is put in the queue, or dropped.
LEMMA RequestKeeps ==
    ASSUME IInv, NEW r \in Requests, OnConnectionRequest(r)
    PROVE  TypeOK' /\ TalkInv' /\ AnsweredOnce'
<1> USE DEF IInv
<1>1. /\ fate[r] = "handling" /\ IsConnectionRequest(r) /\ Open
      /\ UNCHANGED <<flags, streamVars, stopVars, sent>>
    BY DEF OnConnectionRequest
<1>2. /\ \A s \in Requests : s # r => (fate'[s] = fate[s] /\ (s \in informs' <=> s \in informs))
      /\ fate'[r] \in {"queued", "dropped"}
      /\ r.authentic <=> r \in informs'
      /\ informs' \subseteq Requests
      /\ informs' \subseteq informs \union {r}
    <2>1. r \notin informs
        BY <1>1 DEF TalkInv
    <2> QED BY <2>1, XmppAssumption DEF OnConnectionRequest, TypeOK, IQ
<1>3. /\ inbox' \in Seq(Requests)
      /\ fate' \in [Requests -> {"unsent", "handling", "ignored", "queued", "dropped", "failed",
                                 "answered"}]
    <2>1. inbox \in Seq(Requests) => Append(inbox, r) \in Seq(Requests)
        BY AppendFacts
    <2>2. CASE inbox' = Append(inbox, r) /\ fate' = [fate EXCEPT ![r] = "queued"]
        BY <2>1, <2>2 DEF TypeOK
    <2>3. CASE UNCHANGED inbox /\ fate' = [fate EXCEPT ![r] = "dropped"]
        BY <2>3 DEF TypeOK
    <2> QED BY <2>2, <2>3 DEF OnConnectionRequest
<1>4. TypeOK'
    BY <1>1, <1>2, <1>3 DEF TypeOK, flags, streamVars, stopVars
<1>5. /\ \A i, j \in DOMAIN inbox' : inbox'[i] = inbox'[j] => i = j
      /\ \A s \in Requests : fate'[s] = "queued" <=> \E i \in DOMAIN inbox' : inbox'[i] = s
    <2>1. \A i \in DOMAIN inbox : inbox[i] # r
        BY <1>1 DEF TalkInv
    <2>2. CASE inbox' = Append(inbox, r) /\ fate'[r] = "queued"
        <3>1. /\ DOMAIN inbox = 1..Len(inbox) /\ DOMAIN inbox' = 1..(Len(inbox) + 1)
              /\ Len(inbox) \in Nat
              /\ \A i \in 1..Len(inbox) : inbox'[i] = inbox[i]
              /\ inbox'[Len(inbox) + 1] = r
            BY <2>2, AppendFacts DEF TypeOK
        <3>2. \A i \in DOMAIN inbox' : i \in DOMAIN inbox \/ i = Len(inbox) + 1
            BY <3>1
        <3>3. \A i, j \in DOMAIN inbox' : inbox'[i] = inbox'[j] => i = j
            BY <2>1, <3>1, <3>2 DEF TalkInv
        <3>4. Len(inbox) + 1 \in DOMAIN inbox' /\ DOMAIN inbox \subseteq DOMAIN inbox'
            BY <3>1
        <3>5. ASSUME NEW s \in Requests
              PROVE  fate'[s] = "queued" <=> \E i \in DOMAIN inbox' : inbox'[i] = s
            <4>1. CASE s = r
                BY <2>2, <3>1, <3>4, <4>1, Zenon
            <4>2. CASE s # r
                <5>1. fate'[s] = "queued" <=> \E i \in DOMAIN inbox : inbox[i] = s
                    BY <1>2, <4>2 DEF TalkInv
                <5>2. (\E i \in DOMAIN inbox' : inbox'[i] = s) <=> \E i \in DOMAIN inbox : inbox[i] = s
                    BY <3>1, <3>2, <3>4, <4>2, Zenon
                <5> QED BY <5>1, <5>2
            <4> QED BY <4>1, <4>2
        <3> QED BY <3>3, <3>5
    <2>3. CASE UNCHANGED inbox /\ fate'[r] = "dropped"
        BY <1>2, <2>1, <2>3 DEF TalkInv
    <2> QED BY <2>2, <2>3 DEF OnConnectionRequest, TypeOK
<1>6. TalkInv'
    <2>1. \A s \in Requests :
             fate'[s] \in {"queued", "dropped", "failed", "answered"} =>
                 IsConnectionRequest(s) /\ (s.authentic <=> s \in informs')
        BY <1>1, <1>2 DEF TalkInv
    <2>2. \A s \in informs' : fate'[s] \in {"queued", "dropped", "failed", "answered"}
        BY <1>2 DEF TalkInv, TypeOK
    <2>3. Open'
        BY <1>1 DEF Open, stopVars
    <2> QED BY <1>5, <2>1, <2>2, <2>3 DEF TalkInv
<1>7. AnsweredOnce'
    BY <1>1, <1>2 DEF AnsweredOnce
<1> QED BY <1>4, <1>6, <1>7

\* The worker takes the first answer, and writes it or fails.
LEMMA SendKeeps ==
    ASSUME IInv, WorkerStep
    PROVE  TypeOK' /\ TalkInv' /\ AnsweredOnce'
<1> USE DEF IInv
<1> DEFINE r == Head(inbox)
<1>1. /\ inbox # <<>> /\ inbox' = Tail(inbox)
      /\ UNCHANGED <<flags, streamVars, stopVars, informs>>
    BY DEF WorkerStep, SendOK, SendFails
<1>2. /\ r \in Requests /\ r = inbox[1]
      /\ inbox' \in Seq(Requests)
      /\ DOMAIN inbox = 1..Len(inbox) /\ Len(inbox) \in Nat /\ Len(inbox) >= 1
      /\ DOMAIN inbox' = 1..(Len(inbox) - 1)
      /\ \A i \in 1..(Len(inbox) - 1) : inbox'[i] = inbox[i + 1]
    BY <1>1, TailFacts DEF TypeOK
<1> HIDE DEF r
<1>3. fate[r] = "queued" /\ IsConnectionRequest(r) /\ (r.authentic <=> r \in informs)
    BY <1>2 DEF TalkInv
<1>4. PICK f \in {"answered", "failed"} :
          /\ fate' = [fate EXCEPT ![r] = f]
          /\ \/ f = "answered" /\ r.id # NoID /\ sent' = Append(sent, Answer(r))
             \/ f = "failed" /\ UNCHANGED sent
    BY DEF WorkerStep, SendOK, SendFails, r
<1>5. fate'[r] = f /\ \A s \in Requests : s # r => fate'[s] = fate[s]
    BY <1>2, <1>4 DEF TypeOK
<1> DEFINE Answers == [id : {s.id : s \in Requests}, to : {s.from : s \in Requests},
                       type : {"result", "error"}]
<1>6. Answer(r) \in Answers /\ sent \in Seq(Answers)
    BY <1>2 DEF Answer, TypeOK
<1>7. sent' \in Seq(Answers)
    <2> HIDE DEF Answers
    <2> QED BY <1>4, <1>6, AppendFacts
<1>8. TypeOK'
    BY <1>1, <1>2, <1>4, <1>7 DEF TypeOK, flags, streamVars, stopVars
<1>9. TalkInv'
    <2>1. \A i \in DOMAIN inbox' : i \in Nat /\ i >= 1 /\ i + 1 \in DOMAIN inbox /\ inbox'[i] = inbox[i + 1]
        BY <1>2
    <2>2. \A i, j \in DOMAIN inbox' : inbox'[i] = inbox'[j] => i = j
        BY <2>1 DEF TalkInv
    <2>3. ASSUME NEW s \in Requests
          PROVE  fate'[s] = "queued" <=> \E i \in DOMAIN inbox' : inbox'[i] = s
        <3>1. CASE s = r
            <4>1. 1 \in DOMAIN inbox
                BY <1>2
            <4>2. \A i \in DOMAIN inbox' : inbox'[i] # r
                BY <1>2, <2>1, <4>1 DEF TalkInv
            <4> QED BY <1>5, <3>1, <4>2
        <3>2. CASE s # r
            <4>1. fate'[s] = "queued" <=> \E i \in DOMAIN inbox : inbox[i] = s
                BY <1>5, <3>2 DEF TalkInv
            <4>2. ASSUME NEW i \in DOMAIN inbox, inbox[i] = s
                  PROVE  \E k \in DOMAIN inbox' : inbox'[k] = s
                <5>1. i # 1
                    BY <1>2, <3>2, <4>2
                <5>2. i - 1 \in DOMAIN inbox' /\ (i - 1) + 1 = i
                    BY <1>2, <5>1
                <5> QED BY <2>1, <4>2, <5>2
            <4>3. ASSUME NEW k \in DOMAIN inbox', inbox'[k] = s
                  PROVE  \E i \in DOMAIN inbox : inbox[i] = s
                BY <2>1, <4>3
            <4> QED BY <4>1, <4>2, <4>3
        <3> QED BY <3>1, <3>2
    <2>4. \A s \in Requests :
             fate'[s] \in {"queued", "dropped", "failed", "answered"} =>
                 IsConnectionRequest(s) /\ (s.authentic <=> s \in informs')
        BY <1>1, <1>3, <1>5 DEF TalkInv
    <2>5. \A s \in informs' : fate'[s] \in {"queued", "dropped", "failed", "answered"}
        BY <1>1, <1>5 DEF TalkInv, TypeOK
    <2>7. Open
        BY <1>1 DEF TalkInv
    <2>8. Open'
        BY <1>1, <2>7 DEF Open, stopVars
    <2> QED BY <2>2, <2>3, <2>4, <2>5, <2>8 DEF TalkInv
<1>10. AnsweredOnce'
    <2>1. \A i \in DOMAIN sent : \E s \in Requests :
              /\ IsConnectionRequest(s) /\ fate'[s] = "answered" /\ fate[s] = "answered"
              /\ sent[i] = [id |-> s.id, to |-> s.from,
                             type |-> IF s \in informs' THEN "result" ELSE "error"]
        BY <1>1, <1>3, <1>5 DEF AnsweredOnce
    <2>2. CASE f = "failed"
        BY <1>4, <2>1, <2>2 DEF AnsweredOnce
    <2>3. CASE f = "answered"
        <3> DEFINE n == Len(sent)
        <3>1. r.id # NoID /\ sent' = Append(sent, Answer(r))
            BY <1>4, <2>3
        <3>2. /\ n \in Nat
              /\ DOMAIN sent = 1..n /\ DOMAIN sent' = 1..(n + 1)
              /\ \A i \in 1..n : sent'[i] = sent[i]
              /\ sent'[n + 1] = Answer(r)
            <4> HIDE DEF Answers
            <4> QED BY <1>6, <3>1, AppendFacts
        <3> HIDE DEF n
        <3>3. \A i \in DOMAIN sent' : i \in DOMAIN sent \/ i = n + 1
            BY <3>2
        <3>4. \A i \in DOMAIN sent : sent'[i] = sent[i] /\ sent'[i].id # r.id
            <4> SUFFICES ASSUME NEW i \in DOMAIN sent
                         PROVE  sent'[i] = sent[i] /\ sent'[i].id # r.id
                OBVIOUS
            <4>1. PICK s \in Requests : fate[s] = "answered" /\ sent[i].id = s.id
                BY <2>1
            <4>2. s # r
                BY <1>3, <4>1
            <4>3. s.id # r.id
                BY <1>2, <3>1, <4>2, XmppAssumption
            <4> QED BY <3>2, <4>1, <4>3
        <3>5. sent'[n + 1] = [id |-> r.id, to |-> r.from,
                               type |-> IF r \in informs' THEN "result" ELSE "error"]
            BY <1>1, <1>3, <3>2 DEF Answer
        <3>6. \A i, j \in DOMAIN sent' : sent'[i].id = sent'[j].id => i = j
            <4>1. sent'[n + 1].id = r.id
                BY <3>5
            <4>2. \A i, j \in DOMAIN sent : sent[i].id = sent[j].id => i = j
                BY DEF AnsweredOnce
            <4> QED BY <3>3, <3>4, <4>1, <4>2, Zenon
        <3>7. ASSUME NEW i \in DOMAIN sent'
              PROVE  \E s \in Requests :
                        /\ IsConnectionRequest(s) /\ fate'[s] = "answered"
                        /\ sent'[i] = [id |-> s.id, to |-> s.from,
                                        type |-> IF s \in informs' THEN "result" ELSE "error"]
            <4>1. CASE i = n + 1
                BY <1>2, <1>3, <1>5, <2>3, <3>5, <4>1
            <4>2. CASE i \in DOMAIN sent
                BY <2>1, <3>4, <4>2, Zenon
            <4> QED BY <3>3, <4>1, <4>2
        <3> QED BY <3>6, <3>7 DEF AnsweredOnce
    <2> QED BY <2>2, <2>3
<1> QED BY <1>8, <1>9, <1>10

-----------------------------------------------------------------------------
(* The invariant and what follows.                                         *)

\* The initial state satisfies the invariant.
LEMMA IInvInit == Init => IInv
<1> SUFFICES ASSUME Init PROVE IInv
    OBVIOUS
<1>1. TypeOK
    <2>1. losses \in 0..MaxLosses /\ posting \in Nat
        BY XmppAssumption DEF Init
    <2>2. /\ inbox \in Seq(Requests) /\ informs \subseteq Requests
          /\ sent \in Seq([id : {r.id : r \in Requests}, to : {r.from : r \in Requests},
                           type : {"result", "error"}])
        BY DEF Init
    <2>3. fate \in [Requests -> {"unsent", "handling", "ignored", "queued", "dropped", "failed",
                                 "answered"}]
        BY DEF Init
    <2> QED BY <2>1, <2>2, <2>3 DEF Init, TypeOK
<1>2. StreamInv /\ StopInv /\ StaysClosed
    BY DEF Init, StreamInv, StopInv, StaysClosed
<1>3. TalkInv /\ AnsweredOnce
    BY DEF Init, TalkInv, AnsweredOnce
<1> QED BY <1>1, <1>2, <1>3 DEF IInv

\* Every step keeps the invariant.
LEMMA IInvNext == IInv /\ [Next]_vars => IInv'
<1> SUFFICES ASSUME IInv, [Next]_vars PROVE IInv'
    OBVIOUS
<1>1. CASE LibraryStep
    BY <1>1, LibraryKeeps
<1>2. CASE MainSteps
    BY <1>2, MainKeeps
<1>3. CASE TalkStep
    BY <1>3, TalkStreams, HandleKeeps, RequestKeeps, SendKeeps DEF TalkStep, HandlerStep, IInv
<1>4. CASE UNCHANGED vars
    <2>1. TypeOK'
        BY <1>4 DEF IInv, TypeOK, vars, flags, streamVars, stopVars, talkVars
    <2>2. StreamInv' /\ StopInv' /\ StaysClosed'
        BY <1>4, StreamFrame DEF IInv, vars, flags, streamVars, stopVars, Streams
    <2>3. TalkInv' /\ AnsweredOnce'
        BY <1>4, TalkFrame DEF IInv, vars, stopVars, Open
    <2> QED BY <2>1, <2>2, <2>3 DEF IInv
<1> QED BY <1>1, <1>2, <1>3, <1>4 DEF Next, LibraryStep, MainSteps, TalkStep, DialStep

\* The invariant holds of every behaviour of the client: the types, the
\* stream and who brings it up, Disconnect and its goroutine, the requests.
THEOREM Invariance == Spec => []IInv
<1> QED BY IInvInit, IInvNext, PTL DEF Spec

\* No connection request is answered twice, and the kind of the answer says
\* whether an Inform was started (xmpp_cwmp.go:146-170, client.go:365-399).
THEOREM OneAnswer == Spec => []AnsweredOnce
<1>1. IInv => AnsweredOnce
    BY DEF IInv
<1> QED BY <1>1, Invariance, PTL

\* Only authentic requests make the device inform (xmpp_cwmp.go:158-167).
THEOREM OnlyAuthenticInforms == Spec => []InformsAuthentic
<1>1. IInv => InformsAuthentic
    BY DEF IInv, TypeOK, TalkInv, InformsAuthentic
<1> QED BY <1>1, Invariance, PTL

\* A stream that was never lost is not brought up again once Disconnect has
\* returned, however its wait ended (client.go:412-432).
THEOREM ClosedForGood == Spec => []StaysClosed
<1>1. IInv => StaysClosed
    BY DEF IInv
<1> QED BY <1>1, Invariance, PTL

-----------------------------------------------------------------------------
(* The client implements the link that the engine relies on.               *)

LinkStep == Link!Next \/ UNCHANGED Link!vars

\* A step that leaves the stream, its dialer and receiving alone.
LEMMA LinkFrame ==
    ASSUME UNCHANGED <<stream, dialer, isReceiving, resumed>>
    PROVE  LinkStep
BY DEF LinkStep, Link!vars, LinkState

\* The end of a stream loses the link if it is resumed, and closes it if not.
LEMMA LinkEnds ==
    ASSUME stream = "up", StreamEnds, UNCHANGED isReceiving, hasHandler \in BOOLEAN,
           resumed \in BOOLEAN
    PROVE  LinkStep
<1>1. LinkState = "up"
    BY DEF LinkState
<1>2. CASE hasHandler
    <2>1. LinkState' = "down" /\ resumed' = TRUE
        BY <1>2 DEF StreamEnds, LinkState
    <2> QED BY <1>1, <2>1 DEF LinkStep, Link!Next, Link!Lose
<1>3. CASE ~hasHandler
    <2>1. LinkState' = "closed" /\ resumed' = resumed
        BY <1>3 DEF StreamEnds, LinkState
    <2> QED BY <1>1, <2>1 DEF LinkStep, Link!Next, Link!Disconnect
<1> QED BY <1>2, <1>3

\* Each step of the client is a step of its link, or a stutter.
LEMMA LinkNext == IInv /\ [Next]_vars => LinkStep
<1> SUFFICES ASSUME IInv, [Next]_vars PROVE LinkStep
    OBVIOUS
<1> USE DEF flags, streamVars, stopVars
<1>0. TypeOK /\ StreamInv
    BY DEF IInv
<1>1. CASE RunStarts
    BY <1>0, <1>1 DEF RunStarts, StreamInv, LinkState, LinkStep, Link!vars
<1>2. CASE StreamUp
    <2>1. CASE dialer = "dial"
        <3>1. LinkState = "none" /\ LinkState' = "up"
            BY <1>0, <1>2, <2>1 DEF StreamUp, StreamInv, LinkState
        <3> QED BY <1>2, <3>1 DEF StreamUp, LinkStep, Link!Next, Link!Open
    <2>2. CASE dialer = "resume"
        <3>1. LinkState = "down" /\ LinkState' = "up"
            BY <1>0, <1>2, <2>2 DEF StreamUp, StreamInv, LinkState
        <3> QED BY <1>2, <3>1 DEF StreamUp, LinkStep, Link!Next, Link!Reopen
    <2> QED BY <1>2, <2>1, <2>2 DEF StreamUp
<1>3. CASE RunFails
    BY <1>0, <1>3 DEF RunFails, StreamInv, LinkState, LinkStep, Link!vars
<1>4. CASE ResumeFails
    <2>1. LinkState = "down" /\ LinkState' = "closed"
        BY <1>0, <1>4 DEF ResumeFails, StreamInv, LinkState
    <2> QED BY <1>4, <2>1 DEF ResumeFails, LinkStep, Link!Next, Link!Disconnect
<1>5. CASE StreamLost
    BY <1>0, <1>5, LinkEnds DEF StreamLost, TypeOK
<1>6. CASE PostConnect \/ ConnectFails
    BY <1>6, LinkFrame DEF PostConnect, ConnectFails
<1>7. CASE ConnectOK
    BY <1>0, <1>7 DEF ConnectOK, StreamInv, LinkState, LinkStep, Link!vars
<1>8. CASE TalkStep
    BY <1>8, LinkFrame
    DEF TalkStep, HandlerStep, WorkerStep, HandlePacket, OnMessageIgnores, OnConnectionRequest,
        SendOK, SendFails
<1>9. CASE StopReceiving
    <2>1. UNCHANGED LinkState
        BY <1>9 DEF StopReceiving, LinkState
    <2> QED BY <1>9, <2>1 DEF StopReceiving, LinkStep, Link!Next, Link!StopReceiving
<1>10. CASE StopCloses \/ DisconnectCloses
    <2>1. CASE stream = "up"
        BY <1>0, <1>10, <2>1, LinkEnds DEF StopCloses, DisconnectCloses, CloseStream, TypeOK
    <2>2. CASE stream # "up"
        BY <1>10, <2>2, LinkFrame DEF StopCloses, DisconnectCloses, CloseStream
    <2> QED BY <2>1, <2>2
<1>11. CASE StopCancels \/ StopWaits \/ DisconnectBegins \/ UnsetHandler \/ ManagerStopped \/ StopTimesOut
    BY <1>11, LinkFrame
    DEF StopCancels, StopWaits, DisconnectBegins, UnsetHandler, ManagerStopped, StopTimesOut
<1>12. CASE UNCHANGED vars
    BY <1>12, LinkFrame DEF vars
<1> QED BY <1>1, <1>2, <1>3, <1>4, <1>5, <1>6, <1>7, <1>8, <1>9, <1>10, <1>11, <1>12
        DEF Next, DialStep, TalkStep, DisconnectStep, CloseStep

\* The client implements ClientLink (client.go:174-228 and 412-432).
THEOREM ImplementsLink == Spec => LinkSpec
<1>1. Init => Link!Init
    BY DEF Init, Link!Init, LinkState
<1>2. IInv /\ [Next]_vars => [Link!Next]_(Link!vars)
    BY LinkNext DEF LinkStep
<1> QED BY <1>1, <1>2, Invariance, PTL DEF Spec, LinkSpec, Link!Spec
=============================================================================
