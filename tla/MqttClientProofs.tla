--------------------------- MODULE MqttClientProofs ---------------------------
(***************************************************************************)
(* Theorems about MqttClient, for any topics, actions and bounds.          *)
(***************************************************************************)
EXTENDS MqttClient, SequenceTheorems, TLAPS

-----------------------------------------------------------------------------
(* Facts about sequences.                                                  *)

\* Submitting actions leaves the one in progress at the head.
LEMMA ConcatFacts ==
    ASSUME NEW S, NEW s \in Seq(S), NEW t \in Seq(S)
    PROVE  /\ s \o t \in Seq(S)
           /\ s # <<>> => s \o t # <<>> /\ Head(s \o t) = Head(s)
           /\ s = <<>> => s \o t = t
OBVIOUS

\* The entries of two sequences put together.
LEMMA JoinFacts ==
    ASSUME NEW S, NEW s \in Seq(S), NEW t \in Seq(S)
    PROVE  /\ s \o t \in Seq(S)
           /\ Len(s \o t) = Len(s) + Len(t)
           /\ \A j \in 1..Len(s) : (s \o t)[j] = s[j]
           /\ \A j \in 1..Len(t) : (s \o t)[Len(s) + j] = t[j]
OBVIOUS

\* Taking out an entry leaves the others in their order.
LEMMA RemoveFacts ==
    ASSUME NEW S, NEW s \in Seq(S), NEW i \in 1..Len(s)
    PROVE  LET r == SubSeq(s, 1, i - 1) \o SubSeq(s, i + 1, Len(s))
           IN  /\ r \in Seq(S)
               /\ Len(r) = Len(s) - 1
               /\ \A j \in 1..Len(r) : r[j] = s[IF j < i THEN j ELSE j + 1]
<1> DEFINE front == SubSeq(s, 1, i - 1)
           back  == SubSeq(s, i + 1, Len(s))
           r     == front \o back
<1>1. i \in Nat /\ Len(s) \in Nat /\ 1 <= i /\ i <= Len(s)
    OBVIOUS
<1>2. \A j \in 1..Len(s) : s[j] \in S
    OBVIOUS
<1>3. /\ front \in Seq(S)
      /\ Len(front) = i - 1
      /\ \A j \in 1..(i - 1) : front[j] = s[j]
    BY <1>1, <1>2, SubSeqProperties
<1>4. /\ back \in Seq(S)
      /\ Len(back) = Len(s) - i
      /\ \A j \in 1..(Len(s) - i) : back[j] = s[i + j]
    BY <1>1, <1>2, SubSeqProperties
<1> HIDE DEF front, back
<1>5. front \in Seq(S) /\ back \in Seq(S)
    BY <1>3, <1>4
<1>6. /\ r \in Seq(S)
      /\ Len(r) = Len(front) + Len(back)
      /\ \A j \in 1..Len(front) : r[j] = front[j]
      /\ \A j \in 1..Len(back) : r[Len(front) + j] = back[j]
    BY <1>5, JoinFacts
<1> HIDE DEF r
<1>7. Len(r) = Len(s) - 1
    BY <1>1, <1>3, <1>4, <1>6
<1>8. ASSUME NEW j \in 1..Len(r)
      PROVE  r[j] = s[IF j < i THEN j ELSE j + 1]
    <2>1. CASE j < i
        <3>1. j \in 1..Len(front) /\ j \in 1..(i - 1)
            BY <1>1, <1>3, <1>7, <2>1
        <3> QED BY <1>3, <1>6, <2>1, <3>1
    <2>2. CASE ~(j < i)
        <3>1. PICK k \in Int : j = k + (i - 1)
            BY <1>1, <1>7
        <3>2. k \in 1..(Len(s) - i) /\ i + k = j + 1
            BY <1>1, <1>7, <2>2, <3>1
        <3>3. k \in 1..Len(back) /\ Len(front) + k = j
            BY <1>1, <1>3, <1>4, <3>1, <3>2
        <3>4. r[Len(front) + k] = back[k] /\ back[k] = s[i + k]
            BY <1>4, <1>6, <3>2, <3>3, Zenon
        <3> QED BY <2>2, <3>2, <3>3, <3>4, Zenon
    <2> QED BY <2>1, <2>2
<1> QED BY <1>6, <1>7, <1>8 DEF r, front, back

\* An entry that is put on the list is the only one that is new.
LEMMA AppendListed ==
    ASSUME NEW S, NEW s \in Seq(S), NEW x \in S
    PROVE  /\ Append(s, x) \in Seq(S)
           /\ Len(Append(s, x)) = Len(s) + 1
           /\ \A j \in 1..Len(s) : Append(s, x)[j] = s[j]
           /\ Append(s, x)[Len(s) + 1] = x
OBVIOUS

-----------------------------------------------------------------------------
(* Types.                                                                  *)

\* The action the worker is at is an action.
LEMMA HeadType ==
    ASSUME TypeOK, inbox # <<>>
    PROVE  Head(inbox) \in Op
BY DEF TypeOK

\* An action in progress, of a kind that has a topic.
LEMMA TopicType ==
    ASSUME TypeOK, NEW kind \in {"subscribe", "unsubscribe"}, Executing(kind)
    PROVE  Head(inbox).topic \in Topics
BY HeadType DEF Executing, Op

\* The initial state has the types.
LEMMA TypeInit == Init => TypeOK
<1>1. MaxLosses \in Nat /\ MaxOps \in Nat
    BY ClientAssumption
<1>2. ASSUME Init PROVE loops \in [1..MaxLosses -> {"off", "lost", "select", "wait", "dial", "done"}]
    BY <1>2 DEF Init
<1> SUFFICES ASSUME Init PROVE TypeOK
    OBVIOUS
<1>3. subscriptions \in Seq(Topics) /\ inbox \in Seq(Op) /\ broker \subseteq Topics
    BY DEF Init
<1>4. callbacks \in Nat /\ losses \in 0..MaxLosses /\ submitted \in 0..MaxOps
    BY <1>1 DEF Init
<1>5. /\ isShuttingDown \in BOOLEAN /\ isReceiving \in BOOLEAN
      /\ stopClosed \in BOOLEAN /\ panicked \in BOOLEAN
      /\ torn \subseteq Topics
    BY DEF Init
<1>6. /\ wpc # "idle" => inbox # <<>>
      /\ token # "none" <=> wpc = "wait"
      /\ wpc \in {"idle", "request", "wait", "shut", "test", "close", "quit"}
      /\ token \in {"none", "pending", "ok", "error"}
    BY DEF Init
<1>7. /\ status \in {"none", "connected", "reconnecting", "disconnected"}
      /\ mainPc \in {"connect", "failed", "running", "cancelled", "stopping", "shut", "test", "close",
                     "quit", "stopped"}
    BY DEF Init
<1> QED BY <1>2, <1>3, <1>4, <1>5, <1>6, <1>7 DEF TypeOK

\* Submit keeps the inbox a sequence of actions, with the same head.
LEMMA SubmitFacts ==
    ASSUME TypeOK, NEW ops \in Seq(Op), Submit(ops)
    PROVE  /\ inbox' \in Seq(Op)
           /\ inbox # <<>> => inbox' # <<>> /\ Head(inbox') = Head(inbox)
<1>1. inbox \in Seq(Op)
    BY DEF TypeOK
<1>2. CASE inbox' = inbox \o ops
    BY <1>1, <1>2, ConcatFacts
<1>3. CASE UNCHANGED inbox
    BY <1>1, <1>3
<1> QED BY <1>2, <1>3 DEF Submit

\* The actions of the library keep the types.
LEMMA TypeLibrary ==
    ASSUME TypeOK, ConnectOK \/ ConnectFails \/ LibraryStep
    PROVE  TypeOK'
<1>1. CASE ConnectOK
    BY <1>1 DEF TypeOK, ConnectOK, Connected, clientVars, workVars, loopVars
<1>2. CASE ConnectFails
    BY <1>2 DEF TypeOK, ConnectFails, clientVars, libraryVars, workVars, loopVars
<1>3. CASE LinkLost
    BY <1>3, ClientAssumption
    DEF TypeOK, LinkLost, clientVars, workVars
<1>4. CASE LibraryReconnects
    BY <1>4 DEF TypeOK, LibraryReconnects, Connected, clientVars, workVars, loopVars
<1>5. CASE BrokerAcks
    <2>1. inbox # <<>>
        BY <1>5 DEF TypeOK, BrokerAcks
    <2>2. Head(inbox).kind \in {"subscribe", "unsubscribe"} => Head(inbox).topic \in Topics
        BY <2>1, HeadType DEF Op
    <2>3. broker' \subseteq Topics
        <3>1. CASE Head(inbox).kind = "subscribe"
            BY <1>5, <2>2, <3>1 DEF TypeOK, BrokerAcks
        <3>2. CASE Head(inbox).kind = "unsubscribe"
            BY <1>5, <2>2, <3>2 DEF TypeOK, BrokerAcks
        <3>3. CASE Head(inbox).kind \notin {"subscribe", "unsubscribe"}
            BY <1>5, <3>3 DEF TypeOK, BrokerAcks
        <3> QED BY <3>1, <3>2, <3>3
    <2> QED
        BY <1>5, <2>3 DEF TypeOK, BrokerAcks, clientVars, workVars, loopVars
<1>6. CASE BrokerRefuses
    BY <1>6 DEF TypeOK, BrokerRefuses, clientVars, workVars, loopVars
<1> QED BY <1>1, <1>2, <1>3, <1>4, <1>5, <1>6 DEF LibraryStep

\* Callbacks, ticks and messages keep the types.
LEMMA TypeCallbacks ==
    ASSUME TypeOK, OnConnect \/ OnTick \/ OnMessage
    PROVE  TypeOK'
<1>1. CASE OnConnect
    <2>1. inbox' \in Seq(Op) /\ (inbox # <<>> => inbox' # <<>>)
        BY <1>1, ClientAssumption, SubmitFacts DEF OnConnect
    <2> QED BY <1>1, <2>1 DEF TypeOK, OnConnect, clientVars, loopVars
<1>2. CASE OnTick
    <2>1. inbox' \in Seq(Op) /\ (inbox # <<>> => inbox' # <<>>)
        <3>1. PICK op \in Ops : Submit(<<op>>) BY <1>2 DEF OnTick
        <3>2. op \in Op /\ <<op>> \in Seq(Op) BY ClientAssumption
        <3> QED BY <3>1, <3>2, SubmitFacts
    <2> QED BY <1>2, <2>1, ClientAssumption
            DEF TypeOK, OnTick, clientVars, libraryVars, loopVars
<1>3. CASE OnMessage
    <2>1. inbox' \in Seq(Op) /\ (inbox # <<>> => inbox' # <<>>)
        <3>1. PICK op \in Ops : Submit(<<op>>) BY <1>3 DEF OnMessage
        <3>2. op \in Op /\ <<op>> \in Seq(Op) BY ClientAssumption
        <3> QED BY <3>1, <3>2, SubmitFacts
    <2> QED BY <1>3, <2>1, ClientAssumption
            DEF TypeOK, OnMessage, clientVars, libraryVars, loopVars
<1> QED BY <1>1, <1>2, <1>3

\* The reconnect loops keep the types.
LEMMA TypeLoops ==
    ASSUME TypeOK, NEW i \in 1..MaxLosses, LoopStep(i)
    PROVE  TypeOK'
<1> USE DEF TypeOK, clientVars, libraryVars, workVars
<1>1. CASE HandleLoss(i)
    <2>1. subscriptions' \in Seq(Topics) /\ torn' \subseteq Topics
        <3>1. <<>> \in Seq(Topics) /\ {} \subseteq Topics
            OBVIOUS
        <3>2. CASE isShuttingDown BY <1>1, <3>2 DEF HandleLoss
        <3>3. CASE ~isShuttingDown BY <1>1, <3>1, <3>3 DEF HandleLoss
        <3> QED BY <3>2, <3>3
    <2>2. loops' \in [1..MaxLosses -> {"off", "lost", "select", "wait", "dial", "done"}]
        BY <1>1 DEF HandleLoss
    <2> QED BY <1>1, <2>1, <2>2 DEF HandleLoss
<1>2. CASE EnterSelect(i) BY <1>2 DEF EnterSelect
<1>3. CASE Cancelled(i) BY <1>3 DEF Cancelled
<1>4. CASE BackoffOver(i) BY <1>4 DEF BackoffOver
<1>5. CASE DialInVain(i) BY <1>5 DEF DialInVain
<1>6. CASE DialOK(i) BY <1>6 DEF DialOK, Connected
<1>7. CASE DialFails(i) BY <1>7 DEF DialFails
<1> QED BY <1>1, <1>2, <1>3, <1>4, <1>5, <1>6, <1>7 DEF LoopStep

\* The worker keeps the types.
LEMMA TypeWorker ==
    ASSUME TypeOK, WorkerStep
    PROVE  TypeOK'
<1>0. inbox # <<>> => Tail(inbox) \in Seq(Op)
    BY DEF TypeOK
<1> USE DEF TypeOK, clientVars, libraryVars, loopVars
<1>1. CASE AlreadySubscribed \/ LimiterRefuses
    BY <1>0, <1>1 DEF AlreadySubscribed, LimiterRefuses, Finish, Executing
<1>2. CASE Begin BY <1>2 DEF Begin
<1>3. CASE Request
    <2>1. token' \in {"pending", "ok", "error"}
        BY <1>3 DEF Request, Answers
    <2> QED BY <1>3, <2>1 DEF Request
<1>4. CASE Fails BY <1>0, <1>4 DEF Fails, Finish
<1>5. CASE SubscribeLists
    <2>1. Head(inbox).topic \in Topics
        BY <1>5, TopicType DEF SubscribeLists
    <2>2. subscriptions' \in Seq(Topics) /\ torn' \subseteq Topics
        BY <1>5, <2>1 DEF SubscribeLists
    <2> QED BY <1>0, <1>5, <2>2 DEF SubscribeLists, Finish
<1>6. CASE UnsubscribeUnlists
    <2>1. subscriptions' \in Seq(Topics)
        <3>1. CASE UNCHANGED subscriptions
            BY <3>1
        <3>2. ASSUME NEW i \in 1..Len(subscriptions),
                     subscriptions' = SubSeq(subscriptions, 1, i - 1)
                                \o SubSeq(subscriptions, i + 1, Len(subscriptions))
              PROVE  subscriptions' \in Seq(Topics)
            <4>1. subscriptions \in Seq(Topics)
                OBVIOUS
            <4> QED BY <3>2, <4>1, RemoveFacts
        <3> QED BY <1>6, <3>1, <3>2 DEF UnsubscribeUnlists
    <2>2. torn' \subseteq Topics
        BY <1>6 DEF UnsubscribeUnlists
    <2> QED BY <1>0, <1>6, <2>1, <2>2 DEF UnsubscribeUnlists, Finish
<1>7. CASE SendReturns BY <1>0, <1>7 DEF SendReturns, Finish
<1>8. CASE WorkerDisconnect
    <2> USE DEF SetShuttingDown, CloseStop, LibraryDisconnects, Executing
    <2>1. CASE wpc = "idle" BY <1>8, <2>1 DEF WorkerDisconnect, WorkerDisconnects
    <2>2. CASE wpc = "shut" BY <1>8, <2>2 DEF WorkerDisconnect, WorkerDisconnects
    <2>3. CASE wpc = "test" BY <1>8, <2>3 DEF WorkerDisconnect, WorkerDisconnects
    <2>4. CASE wpc = "close" BY <1>8, <2>4 DEF WorkerDisconnect, WorkerDisconnects
    <2>5. CASE wpc = "quit" BY <1>0, <1>8, <2>5 DEF WorkerDisconnect, WorkerDisconnects
    <2> QED BY <1>8, <2>1, <2>2, <2>3, <2>4, <2>5
            DEF WorkerDisconnect, WorkerDisconnects
<1> QED BY <1>1, <1>2, <1>3, <1>4, <1>5, <1>6, <1>7, <1>8 DEF WorkerStep

\* Stop keeps the types.
LEMMA TypeStop ==
    ASSUME TypeOK, StopCancels \/ StopReceiving \/ StopWaits \/ StopDisconnects
    PROVE  TypeOK'
<1> USE DEF TypeOK, clientVars, libraryVars, workVars, loopVars
<1>1. CASE StopReceiving BY <1>1 DEF StopReceiving
<1>2. CASE StopCancels \/ StopWaits BY <1>2 DEF StopCancels, StopWaits
<1>3. CASE StopDisconnects
    BY <1>3 DEF StopDisconnects, SetShuttingDown, CloseStop, LibraryDisconnects
<1> QED BY <1>1, <1>2, <1>3

\* Every step keeps the types.
LEMMA TypeNext == TypeOK /\ [Next]_vars => TypeOK'
<1> SUFFICES ASSUME TypeOK, [Next]_vars PROVE TypeOK'
    OBVIOUS
<1>1. CASE UNCHANGED vars
    BY <1>1 DEF TypeOK, vars, clientVars, libraryVars, workVars, loopVars
<1> QED BY <1>1, TypeLibrary, TypeCallbacks, TypeLoops, TypeWorker, TypeStop DEF Next

-----------------------------------------------------------------------------
(* Who disconnects: stopReconnect is closed once.                          *)

\* A worker that does anything has an action, which Stop waits for.
LEMMA WorkerBusy ==
    ASSUME TypeOK, CloseInv, WorkerStep
    PROVE  inbox # <<>> /\ Open
BY DEF TypeOK, CloseInv, WorkerStep, AlreadySubscribed, LimiterRefuses, Begin, Request, Fails, SubscribeLists,
       UnsubscribeUnlists, SendReturns, WorkerDisconnect, WorkerDisconnects, Executing

\* A goroutine that closes stopReconnect has found it open, and the worker
\* is done with its actions before Stop looks.
LEMMA CloseNext ==
    ASSUME TypeOK, CloseInv, Next
    PROVE  CloseInv'
<1> USE DEF CloseInv, Open, clientVars, libraryVars, workVars, loopVars
<1>1. CASE ConnectOK \/ ConnectFails \/ LibraryStep
    BY <1>1 DEF ConnectOK, ConnectFails, LibraryStep, LinkLost, LibraryReconnects, BrokerAcks,
                BrokerRefuses
<1>2. CASE OnConnect \/ OnTick \/ OnMessage
    BY <1>2 DEF OnConnect, OnTick, OnMessage, Open
<1>3. CASE WorkerStep
    <2>1. inbox # <<>> /\ Open
        BY <1>3, WorkerBusy
    <2>2. CASE AlreadySubscribed \/ LimiterRefuses BY <2>1, <2>2 DEF AlreadySubscribed, LimiterRefuses, Finish
    <2>3. CASE Begin BY <2>1, <2>3 DEF Begin
    <2>4. CASE Request BY <2>1, <2>4 DEF Request
    <2>5. CASE Fails BY <2>1, <2>5 DEF Fails, Finish
    <2>6. CASE SubscribeLists BY <2>1, <2>6 DEF SubscribeLists, Finish
    <2>7. CASE UnsubscribeUnlists BY <2>1, <2>7 DEF UnsubscribeUnlists, Finish
    <2>8. CASE SendReturns BY <2>1, <2>8 DEF SendReturns, Finish
    <2>9. CASE WorkerDisconnect
        BY <2>1, <2>9 DEF WorkerDisconnect, WorkerDisconnects, SetShuttingDown, CloseStop
    <2> QED BY <1>3, <2>2, <2>3, <2>4, <2>5, <2>6, <2>7, <2>8, <2>9 DEF WorkerStep
<1>4. CASE \E i \in 1..MaxLosses : LoopStep(i)
    BY <1>4 DEF LoopStep, HandleLoss, EnterSelect, Cancelled, BackoffOver, DialInVain, DialOK,
                DialFails
<1>5. CASE StopCancels \/ StopReceiving \/ StopWaits \/ StopDisconnects
    BY <1>5 DEF TypeOK, StopCancels, StopReceiving, StopWaits, StopDisconnects, SetShuttingDown, CloseStop
<1>6. CASE UNCHANGED vars
    BY <1>6 DEF vars
<1> QED BY <1>1, <1>2, <1>3, <1>4, <1>5, <1>6 DEF Next

\* The library's Disconnect is called with the flag set, and the link's
\* states follow Connect.
LEMMA ShutNext ==
    ASSUME TypeOK, CloseInv, ShutInv, Next
    PROVE  ShutInv'
<1> USE DEF ShutInv, Open, clientVars, libraryVars, workVars, loopVars
<1>1. CASE ConnectOK \/ ConnectFails \/ LibraryStep
    BY <1>1 DEF TypeOK, ConnectOK, ConnectFails, LibraryStep, LinkLost, LibraryReconnects,
                BrokerAcks, BrokerRefuses, Connected
<1>2. CASE OnConnect \/ OnTick \/ OnMessage
    BY <1>2 DEF OnConnect, OnTick, OnMessage, Open
<1>3. CASE WorkerStep
    <2>1. inbox # <<>> /\ Open
        BY <1>3, WorkerBusy
    <2>2. CASE AlreadySubscribed \/ LimiterRefuses BY <2>1, <2>2 DEF AlreadySubscribed, LimiterRefuses, Finish
    <2>3. CASE Begin BY <2>1, <2>3 DEF Begin
    <2>4. CASE Request BY <2>1, <2>4 DEF Request
    <2>5. CASE Fails BY <2>1, <2>5 DEF Fails, Finish
    <2>6. CASE SubscribeLists BY <2>1, <2>6 DEF SubscribeLists, Finish
    <2>7. CASE UnsubscribeUnlists BY <2>1, <2>7 DEF UnsubscribeUnlists, Finish
    <2>8. CASE SendReturns BY <2>1, <2>8 DEF SendReturns, Finish
    <2>9. CASE WorkerDisconnect
        BY <2>1, <2>9 DEF WorkerDisconnect, WorkerDisconnects, SetShuttingDown, CloseStop,
                          LibraryDisconnects
    <2> QED BY <1>3, <2>2, <2>3, <2>4, <2>5, <2>6, <2>7, <2>8, <2>9 DEF WorkerStep
<1>4. CASE \E i \in 1..MaxLosses : LoopStep(i)
    BY <1>4 DEF LoopStep, HandleLoss, EnterSelect, Cancelled, BackoffOver, DialInVain, DialOK,
                DialFails, Connected
<1>5. CASE StopCancels \/ StopReceiving \/ StopWaits \/ StopDisconnects
    BY <1>5 DEF TypeOK, CloseInv, StopCancels, StopReceiving, StopWaits, StopDisconnects, SetShuttingDown,
                CloseStop, LibraryDisconnects
<1>6. CASE UNCHANGED vars
    BY <1>6 DEF vars
<1> QED BY <1>1, <1>2, <1>3, <1>4, <1>5, <1>6 DEF Next

-----------------------------------------------------------------------------
(* The list and the session.                                               *)

\* What relates the list, the session and the action in progress.
SInv == ListInv /\ SessionInv /\ ClaimInv

\* SInv depends on the list, on the session, on the action in progress and
\* on the losses that have still to be handled.
LEMMA FrameFacts ==
    ASSUME TypeOK, SInv,
           UNCHANGED <<subscriptions, status, broker, token, torn, losses>>,
           wpc' \in {"request", "wait"} => wpc' = wpc,
           token # "none" \/ wpc' \in {"request", "wait"}
                => inbox' # <<>> /\ Head(inbox') = Head(inbox),
           isShuttingDown => isShuttingDown',
           \A i \in 1..MaxLosses :
                /\ isShuttingDown' \/ (loops'[i] = "lost" <=> loops[i] = "lost")
                /\ loops[i] = "off" => loops'[i] = "off"
    PROVE  SInv'
<1>1. /\ Asking("subscribe")' => Asking("subscribe") /\ Head(inbox') = Head(inbox)
      /\ \A kind : Answered(kind)' => Answered(kind) /\ Head(inbox') = Head(inbox)
    BY DEF TypeOK, Asking, Answered, Executing
<1>2. \A kind : Answered(kind) => Answered(kind)' /\ Head(inbox') = Head(inbox)
    BY DEF TypeOK, Answered, Executing
<1>3. ListInv'
    BY <1>1 DEF SInv, ListInv, Listed
<1>4. SessionInv'
    BY <1>1 DEF SInv, SessionInv
<1>5. ClaimInv'
    BY <1>1, <1>2 DEF SInv, ClaimInv, Lost, Listed
<1> QED BY <1>3, <1>4, <1>5 DEF SInv

\* A topic is put on the list.
LEMMA ListFacts ==
    ASSUME TypeOK, SInv, SubscribeLists
    PROVE  /\ Listed' = Listed \cup {Head(inbox).topic}
           /\ \A i, j \in 1..Len(subscriptions') : subscriptions'[i] = subscriptions'[j] => i = j
<1> DEFINE x == Head(inbox).topic
           n == Len(subscriptions)
<1>1. subscriptions \in Seq(Topics) /\ x \in Topics
    BY TopicType DEF TypeOK, SubscribeLists
<1>2. x \notin Listed
    BY DEF TypeOK, SInv, ListInv, Asking, SubscribeLists
<1>3. subscriptions' = Append(subscriptions, x)
    BY DEF SubscribeLists
<1> HIDE DEF x
<1>4. /\ n \in Nat /\ Len(subscriptions') = n + 1
      /\ \A j \in 1..n : subscriptions'[j] = subscriptions[j]
      /\ subscriptions'[n + 1] = x
    BY <1>1, <1>3, AppendListed
<1>5. Listed' = Listed \cup {x}
    BY <1>4 DEF Listed
<1>6. ASSUME NEW i \in 1..Len(subscriptions'), NEW j \in 1..Len(subscriptions'),
             subscriptions'[i] = subscriptions'[j]
      PROVE  i = j
    <2>1. CASE i \in 1..n /\ j \in 1..n
        BY <1>4, <1>6, <2>1 DEF SInv, ListInv
    <2>2. CASE i = n + 1 /\ j = n + 1
        BY <2>2
    <2>3. CASE i \in 1..n /\ j = n + 1
        BY <1>2, <1>4, <1>6, <2>3 DEF Listed
    <2>4. CASE i = n + 1 /\ j \in 1..n
        BY <1>2, <1>4, <1>6, <2>4 DEF Listed
    <2> QED BY <1>4, <2>1, <2>2, <2>3, <2>4
<1> QED BY <1>5, <1>6 DEF x

\* A topic is taken off the list: it was on it once.
LEMMA UnlistFacts ==
    ASSUME TypeOK, SInv, UnsubscribeUnlists
    PROVE  /\ Listed' = Listed \ {Head(inbox).topic}
           /\ \A i, j \in 1..Len(subscriptions') : subscriptions'[i] = subscriptions'[j] => i = j
<1> DEFINE x == Head(inbox).topic
<1>1. CASE x \notin Listed /\ UNCHANGED subscriptions
    BY <1>1 DEF Listed, SInv, ListInv
<1>2. ASSUME NEW k \in 1..Len(subscriptions),
             subscriptions[k] = x,
             subscriptions' = SubSeq(subscriptions, 1, k - 1)
                                \o SubSeq(subscriptions, k + 1, Len(subscriptions))
      PROVE  /\ Listed' = Listed \ {x}
             /\ \A i, j \in 1..Len(subscriptions') :
                    subscriptions'[i] = subscriptions'[j] => i = j
    <2> DEFINE at(j) == IF j < k THEN j ELSE j + 1
    <2>1. subscriptions \in Seq(Topics) /\ Len(subscriptions) \in Nat
        BY DEF TypeOK
    <2>2. /\ Len(subscriptions') = Len(subscriptions) - 1
          /\ \A j \in 1..Len(subscriptions') : subscriptions'[j] = subscriptions[at(j)]
        BY <1>2, <2>1, RemoveFacts
    <2>3. \A j \in 1..Len(subscriptions') : at(j) \in 1..Len(subscriptions) /\ at(j) # k
        BY <2>1, <2>2
    <2>4. \A i, j \in 1..Len(subscriptions') : at(i) = at(j) => i = j
        BY <2>1, <2>2
    <2>5. ASSUME NEW i \in 1..Len(subscriptions), i # k
          PROVE  \E j \in 1..Len(subscriptions') : i = at(j)
        <3>1. CASE i < k
            BY <2>1, <2>2, <2>5, <3>1
        <3>2. CASE i > k
            <4>1. i - 1 \in 1..Len(subscriptions') /\ at(i - 1) = i
                BY <2>1, <2>2, <2>5, <3>2
            <4> QED BY <4>1
        <3> QED BY <2>1, <2>5, <3>1, <3>2
    <2>6. \A i, j \in 1..Len(subscriptions) : subscriptions[i] = subscriptions[j] => i = j
        BY DEF SInv, ListInv
    <2> HIDE DEF at
    <2>7. \A i, j \in 1..Len(subscriptions') : subscriptions'[i] = subscriptions'[j] => i = j
        BY <2>2, <2>3, <2>4, <2>6, Zenon
    <2>8. Listed' \subseteq Listed \ {x}
        <3>1. ASSUME NEW j \in 1..Len(subscriptions')
              PROVE  subscriptions'[j] \in Listed \ {x}
            BY <1>2, <2>2, <2>3, <2>6, <3>1, Zenon DEF Listed
        <3> QED BY <3>1, Zenon DEF Listed
    <2>9. Listed \ {x} \subseteq Listed'
        <3>1. ASSUME NEW i \in 1..Len(subscriptions), subscriptions[i] # x
              PROVE  subscriptions[i] \in Listed'
            <4>1. PICK j \in 1..Len(subscriptions') : i = at(j)
                BY <1>2, <2>5, <3>1
            <4> QED BY <2>2, <4>1, Zenon DEF Listed
        <3> QED BY <3>1, Zenon DEF Listed
    <2> QED BY <2>7, <2>8, <2>9
<1> QED BY <1>1, <1>2 DEF UnsubscribeUnlists

\* The library and the broker keep the list and the session together.
LEMMA SessionLibrary ==
    ASSUME TypeOK, ShutInv, SInv, ConnectOK \/ ConnectFails \/ LibraryStep
    PROVE  SInv'
<1> USE DEF SInv, clientVars, libraryVars, workVars, loopVars
<1>1. CASE ConnectOK
    BY <1>1 DEF TypeOK, ShutInv, ListInv, SessionInv, ClaimInv, ConnectOK, Connected, Asking,
                Answered, Executing, Lost, Listed
<1>2. CASE ConnectFails
    BY <1>2, FrameFacts DEF TypeOK, ConnectFails
<1>3. CASE LinkLost
    <2>1. ListInv'
        BY <1>3 DEF ListInv, LinkLost, Asking, Executing, Listed
    <2>2. SessionInv'
        <3>1. losses \in Nat /\ losses' = losses + 1
            BY <1>3, ClientAssumption DEF TypeOK, LinkLost
        <3>2. \A i \in 1..MaxLosses : i > losses' => loops'[i] = "off"
            BY <1>3, <3>1, ClientAssumption DEF TypeOK, SessionInv, LinkLost
        <3> QED BY <1>3, <3>2 DEF SessionInv, LinkLost, Answered, Executing
    <2>3. ClaimInv'
        <3>1. losses + 1 \in 1..MaxLosses /\ losses' # 0 /\ loops'[losses + 1] = "lost"
            BY <1>3, ClientAssumption DEF TypeOK, LinkLost
        <3> QED BY <3>1 DEF ClaimInv, Lost
    <2> QED BY <2>1, <2>2, <2>3
<1>4. CASE LibraryReconnects
    BY <1>4 DEF TypeOK, ListInv, SessionInv, ClaimInv, LibraryReconnects, Connected, Asking,
                Answered, Executing, Lost, Listed
<1>5. CASE BrokerAcks
    <2>1. UNCHANGED <<subscriptions, isShuttingDown, status, inbox, wpc, loops, losses, torn>>
        BY <1>5 DEF BrokerAcks
    <2>2. token = "pending" /\ token' = "ok" /\ inbox # <<>>
        BY <1>5 DEF TypeOK, BrokerAcks
    <2>3. ListInv'
        BY <1>5, <2>1 DEF ListInv, BrokerAcks, Asking, Executing, Listed, ShutInv
    <2>4. CASE Head(inbox).kind = "subscribe"
        <3>1. broker' = broker \cup {Head(inbox).topic}
            BY <1>5, <2>4 DEF BrokerAcks
        <3> QED BY <1>5, <2>1, <2>2, <2>3, <2>4, <3>1
                DEF BrokerAcks, SessionInv, ClaimInv, Answered, Executing, Lost, Listed
    <2>5. CASE Head(inbox).kind = "unsubscribe"
        <3>1. broker' = broker \ {Head(inbox).topic}
            BY <1>5, <2>5 DEF BrokerAcks
        <3> QED BY <1>5, <2>1, <2>2, <2>3, <2>5, <3>1
                DEF BrokerAcks, SessionInv, ClaimInv, Answered, Executing, Lost, Listed
    <2>6. CASE Head(inbox).kind \notin {"subscribe", "unsubscribe"}
        <3>1. broker' = broker
            BY <1>5, <2>6 DEF BrokerAcks
        <3> QED BY <1>5, <2>1, <2>2, <2>3, <2>6, <3>1
                DEF BrokerAcks, SessionInv, ClaimInv, Answered, Executing, Lost, Listed
    <2> QED BY <2>4, <2>5, <2>6
<1>6. CASE BrokerRefuses
    BY <1>6 DEF ListInv, SessionInv, ClaimInv, BrokerRefuses, Asking, Answered, Executing, Lost,
                Listed
<1> QED BY <1>1, <1>2, <1>3, <1>4, <1>5, <1>6 DEF LibraryStep

\* Callbacks, ticks and messages submit actions behind the one in progress.
LEMMA SessionCallbacks ==
    ASSUME TypeOK, SInv, OnConnect \/ OnTick \/ OnMessage
    PROVE  SInv'
<1>1. inbox # <<>> => inbox' # <<>> /\ Head(inbox') = Head(inbox)
    <2>1. CASE OnConnect
        BY <2>1, ClientAssumption, SubmitFacts DEF OnConnect
    <2>2. CASE OnTick \/ OnMessage
        <3>1. PICK op \in Ops : Submit(<<op>>) BY <2>2 DEF OnTick, OnMessage
        <3>2. op \in Op /\ <<op>> \in Seq(Op) BY ClientAssumption
        <3> QED BY <3>1, <3>2, SubmitFacts
    <2> QED BY <2>1, <2>2
<1>2. /\ UNCHANGED <<subscriptions, status, broker, token, torn, losses>>
      /\ UNCHANGED <<isShuttingDown, wpc, loops>>
    BY DEF OnConnect, OnTick, OnMessage, clientVars, libraryVars, loopVars
<1>3. token # "none" \/ wpc' \in {"request", "wait"} => inbox # <<>>
    BY <1>2 DEF TypeOK
<1> QED BY <1>1, <1>2, <1>3, FrameFacts

\* A loss is handled by forgetting the list; a dial finds an empty session.
LEMMA SessionLoops ==
    ASSUME TypeOK, ShutInv, SInv, NEW i \in 1..MaxLosses, LoopStep(i)
    PROVE  SInv'
<1> USE DEF clientVars, libraryVars, workVars
<1>1. CASE HandleLoss(i)
    <2>1. CASE isShuttingDown
        BY <1>1, <2>1, FrameFacts DEF HandleLoss, TypeOK
    <2>2. CASE ~isShuttingDown
        <3>1. subscriptions' = <<>> /\ Listed' = {}
            BY <1>1, <2>2 DEF HandleLoss, Listed
        <3>2. losses # 0
            BY <1>1, ClientAssumption DEF HandleLoss, TypeOK, SInv, SessionInv
        <3>3. ListInv'
            BY <1>1, <3>1 DEF HandleLoss, SInv, ListInv, Asking, Executing
        <3>4. SessionInv'
            BY <1>1, <2>2 DEF HandleLoss, TypeOK, SInv, SessionInv, Answered, Executing
        <3>5. ClaimInv'
            BY <1>1, <3>1, <3>2 DEF HandleLoss, ClaimInv
        <3> QED BY <3>3, <3>4, <3>5 DEF SInv
    <2> QED BY <2>1, <2>2
<1>2. CASE EnterSelect(i) BY <1>2, FrameFacts DEF EnterSelect, TypeOK
<1>3. CASE Cancelled(i) BY <1>3, FrameFacts DEF Cancelled, TypeOK
<1>4. CASE BackoffOver(i) BY <1>4, FrameFacts DEF BackoffOver, TypeOK
<1>5. CASE DialInVain(i) BY <1>5, FrameFacts DEF DialInVain, TypeOK
<1>6. CASE DialOK(i)
    <2>1. isShuttingDown /\ isShuttingDown' /\ broker' = {}
        BY <1>6 DEF DialOK, Connected, ShutInv
    <2> QED BY <1>6, <2>1
            DEF DialOK, Connected, TypeOK, SInv, ListInv, SessionInv, ClaimInv, Asking, Answered,
                Executing, Listed
<1>7. CASE DialFails(i) BY <1>7, FrameFacts DEF DialFails, TypeOK
<1> QED BY <1>1, <1>2, <1>3, <1>4, <1>5, <1>6, <1>7 DEF LoopStep

\* The worker lists what the broker has granted.
LEMMA SessionWorker ==
    ASSUME TypeOK, CloseInv, ShutInv, SInv, WorkerStep
    PROVE  SInv'
<1> USE DEF clientVars, libraryVars, loopVars
<1>0. status # "none"
    BY WorkerBusy DEF ShutInv, Open
<1>1. CASE AlreadySubscribed \/ LimiterRefuses
    BY <1>1, FrameFacts DEF AlreadySubscribed, LimiterRefuses, Finish, TypeOK
<1>2. CASE Begin
    <2>1. /\ UNCHANGED <<subscriptions, isShuttingDown, status, broker, token, torn, inbox, loops,
                         losses>>
          /\ token # "ok"
          /\ Executing("subscribe") => Head(inbox).topic \notin Listed
        BY <1>2 DEF Begin, TypeOK
    <2>2. Executing("subscribe")' = Executing("subscribe") /\ Listed' = Listed
        BY <2>1 DEF Executing, Listed
    <2> QED BY <2>1, <2>2 DEF SInv, ListInv, SessionInv, ClaimInv, Asking, Answered, Lost
<1>3. CASE Request
    <2>1. token = "none" /\ ~(Executing("send") /\ token' = "none")
        BY <1>3 DEF Request, TypeOK, Answers
    <2>2. token' = "ok" => Executing("send")
        BY <1>3 DEF Request, Answers
    <2> QED BY <1>0, <1>3, <2>1, <2>2
            DEF Request, SInv, ListInv, SessionInv, ClaimInv, Asking, Answered, Executing, Lost,
                Listed
<1>4. CASE Fails
    BY <1>0, <1>4 DEF Fails, Finish, SInv, ListInv, SessionInv, ClaimInv, Asking, Answered, Lost,
                      Listed
<1>5. CASE SubscribeLists
    <2>1. Executing("subscribe") /\ ~Executing("unsubscribe")
        BY <1>5 DEF SubscribeLists, Executing
    <2> QED BY <1>0, <1>5, <2>1, ListFacts
            DEF SubscribeLists, Finish, SInv, ListInv, SessionInv, ClaimInv, Asking, Answered, Lost
<1>6. CASE UnsubscribeUnlists
    <2>1. Answered("unsubscribe") /\ ~Executing("subscribe")
        BY <1>6 DEF UnsubscribeUnlists, Answered, Executing
    <2> QED BY <1>0, <1>6, <2>1, UnlistFacts
            DEF UnsubscribeUnlists, Finish, SInv, ListInv, SessionInv, ClaimInv, Asking, Answered,
                Lost
<1>7. CASE SendReturns
    <2>1. ~Executing("subscribe") /\ ~Executing("unsubscribe")
        BY <1>7 DEF SendReturns, Executing
    <2> QED BY <1>0, <1>7, <2>1
            DEF SendReturns, Finish, SInv, ListInv, SessionInv, ClaimInv, Asking, Answered, Lost,
                Listed
<1>8. CASE WorkerDisconnect
    <2> USE DEF WorkerDisconnect, WorkerDisconnects, SetShuttingDown, CloseStop
    <2>1. CASE wpc \in {"idle", "shut", "test", "close"}
        BY <1>8, <2>1, FrameFacts DEF TypeOK
    <2>2. CASE wpc = "quit"
        <3>1. isShuttingDown /\ isShuttingDown' /\ broker' = {} /\ token' = "none"
            BY <1>8, <2>2 DEF LibraryDisconnects, ShutInv, TypeOK
        <3> QED BY <1>8, <2>2, <3>1
                DEF LibraryDisconnects, SInv, ListInv, SessionInv, ClaimInv, Asking, Answered,
                    Listed
    <2> QED BY <1>8, <2>1, <2>2
<1> QED BY <1>1, <1>2, <1>3, <1>4, <1>5, <1>6, <1>7, <1>8 DEF WorkerStep

\* Stop disconnects with the flag set.
LEMMA SessionStop ==
    ASSUME TypeOK, CloseInv, ShutInv, SInv, StopCancels \/ StopReceiving \/ StopWaits \/ StopDisconnects
    PROVE  SInv'
<1> USE DEF clientVars, libraryVars, workVars, loopVars
<1>1. CASE StopReceiving BY <1>1, FrameFacts DEF StopReceiving, TypeOK
<1>2. CASE StopCancels \/ StopWaits BY <1>2, FrameFacts DEF StopCancels, StopWaits, TypeOK
<1>3. CASE StopDisconnects
    <2> USE DEF StopDisconnects, SetShuttingDown, CloseStop
    <2>1. CASE mainPc \in {"shut", "test", "close"}
        BY <1>3, <2>1, FrameFacts DEF TypeOK
    <2>2. CASE mainPc = "quit"
        <3>1. isShuttingDown /\ isShuttingDown' /\ broker' = {} /\ inbox = <<>> /\ token' = "none"
            BY <1>3, <2>2 DEF LibraryDisconnects, ShutInv, CloseInv, Open, TypeOK
        <3> QED BY <1>3, <2>2, <3>1
                DEF LibraryDisconnects, SInv, ListInv, SessionInv, ClaimInv, Asking, Answered,
                    Executing, Listed
    <2> QED BY <1>3, <2>1, <2>2
<1> QED BY <1>1, <1>2, <1>3

-----------------------------------------------------------------------------
(* The invariant and what follows.                                         *)

\* The initial state satisfies the invariant.
LEMMA IInvInit == Init => IInv
<1> SUFFICES ASSUME Init PROVE IInv
    OBVIOUS
<1>1. TypeOK
    BY TypeInit
<1>2. ListInv /\ SessionInv
    BY DEF Init, ListInv, SessionInv, Asking, Answered, Executing, Listed
<1>3. CloseInv /\ ShutInv
    BY DEF Init, CloseInv, Open, ShutInv
<1>4. ClaimInv
    BY DEF Init, ClaimInv, Listed
<1> QED BY <1>1, <1>2, <1>3, <1>4 DEF IInv

\* Every step keeps the invariant.
LEMMA IInvNext == IInv /\ [Next]_vars => IInv'
<1> SUFFICES ASSUME IInv, [Next]_vars PROVE IInv'
    OBVIOUS
<1>1. TypeOK /\ CloseInv /\ ShutInv /\ SInv
    BY DEF IInv, SInv
<1>2. TypeOK'
    BY <1>1, TypeNext
<1>3. CASE UNCHANGED vars
    <2>1. SInv'
        BY <1>1, <1>3, FrameFacts
        DEF TypeOK, vars, clientVars, libraryVars, workVars, loopVars
    <2>2. CloseInv' /\ ShutInv'
        BY <1>1, <1>3 DEF CloseInv, Open, ShutInv, vars, clientVars, libraryVars, workVars, loopVars
    <2> QED BY <1>2, <2>1, <2>2 DEF IInv, SInv
<1>4. CASE Next
    <2>1. CloseInv' /\ ShutInv'
        BY <1>1, <1>4, CloseNext, ShutNext
    <2>2. SInv'
        BY <1>1, <1>3, <1>4, SessionLibrary, SessionCallbacks, SessionLoops, SessionWorker,
           SessionStop, FrameFacts
        DEF Next, IInv, SInv
    <2> QED BY <1>2, <2>1, <2>2 DEF IInv, SInv
<1> QED BY <1>3, <1>4

\* The invariant holds of every behaviour of the client: the types, the list,
\* the session, who closes stopReconnect and what the list claims.
THEOREM Invariance == Spec => []IInv
<1> QED BY IInvInit, IInvNext, PTL DEF Spec

\* Subscribe never lists a topic twice (client.go:221-244).
THEOREM NoDuplicates == Spec => []ListedOnce
<1>1. IInv => ListedOnce
    BY DEF IInv, ListInv, ListedOnce
<1> QED BY <1>1, Invariance, PTL

\* While the client is connected and has seen its losses, no topic is listed
\* that the session does not have, but for the torn ones (client.go:109-120).
THEOREM ListMeansSession == Spec => []NothingStale
<1>1. IInv => NothingStale
    BY DEF IInv, ClaimInv, NothingStale
<1> QED BY <1>1, Invariance, PTL

\* On a connection that was never lost, the list has every topic of the
\* session (client.go:221-263).
THEOREM SessionMeansList == Spec => []NothingForgotten
<1>1. IInv => NothingForgotten
    BY DEF IInv, ClaimInv, NothingForgotten
<1> QED BY <1>1, Invariance, PTL

\* Disconnect never closes stopReconnect a second time (client.go:301-308).
THEOREM ClosedOnce == Spec => []NoDoubleClose
<1>1. IInv => NoDoubleClose
    BY DEF IInv, CloseInv, NoDoubleClose
<1> QED BY <1>1, Invariance, PTL

-----------------------------------------------------------------------------
(* The client implements the link that the engine relies on.               *)

LinkStep == Link!Next \/ UNCHANGED Link!vars

\* A step that changes neither the connection nor receiving is a stutter.
LEMMA LinkFrame ==
    ASSUME UNCHANGED <<status, isReceiving, losses>>
    PROVE  LinkStep
BY DEF LinkStep, Link!vars, LinkState

\* A disconnection closes the link, or leaves it down after a loss.
LEMMA LinkCloses ==
    ASSUME TypeOK, status # "none", LibraryDisconnects, UNCHANGED <<isReceiving, losses>>
    PROVE  LinkStep
<1>1. losses \in Nat
    BY ClientAssumption DEF TypeOK
<1>2. LinkState # "none" /\ LinkState' \in {"closed"} \cup (IF losses > 0 THEN {"down"} ELSE {})
    BY <1>1 DEF TypeOK, LibraryDisconnects, LinkState
<1>3. UNCHANGED <<isReceiving, losses > 0>>
    OBVIOUS
<1> QED BY <1>2, <1>3 DEF LinkStep, Link!Next, Link!Disconnect

\* Each step of the client is a step of its link, or a stutter.
LEMMA LinkNext == IInv /\ [Next]_vars => LinkStep
<1> SUFFICES ASSUME IInv, [Next]_vars PROVE LinkStep
    OBVIOUS
<1> USE DEF clientVars, libraryVars, workVars, loopVars
<1>0. /\ TypeOK /\ CloseInv /\ ShutInv /\ SessionInv
      /\ losses \in Nat
    BY ClientAssumption DEF IInv, TypeOK
<1>1. CASE ConnectOK
    BY <1>0, <1>1 DEF ConnectOK, Connected, ShutInv, LinkState, LinkStep, Link!Next, Link!Open
<1>2. CASE ConnectFails \/ BrokerAcks \/ BrokerRefuses
    BY <1>2, LinkFrame DEF ConnectFails, BrokerAcks, BrokerRefuses
<1>3. CASE LinkLost
    <2>1. LinkState = "up" /\ LinkState' = "down" /\ (losses > 0)' = TRUE
        BY <1>0, <1>3 DEF LinkLost, LinkState
    <2> QED BY <1>3, <2>1 DEF LinkLost, LinkStep, Link!Next, Link!Lose
<1>4. CASE LibraryReconnects
    <2>1. LinkState = "down" /\ LinkState' = "up" /\ UNCHANGED <<isReceiving, losses > 0>>
        BY <1>4 DEF LibraryReconnects, Connected, LinkState
    <2> QED BY <2>1 DEF LinkStep, Link!Next, Link!Reopen
<1>5. CASE OnConnect \/ OnTick \/ OnMessage
    BY <1>5, LinkFrame DEF OnConnect, OnTick, OnMessage
<1>6. CASE WorkerStep
    <2>1. CASE WorkerDisconnect
        <3>1. status # "none"
            BY <1>0, <1>6, WorkerBusy DEF ShutInv, Open
        <3>2. CASE wpc # "quit"
            BY <2>1, <3>2, LinkFrame
            DEF WorkerDisconnect, WorkerDisconnects, SetShuttingDown, CloseStop
        <3>3. CASE wpc = "quit"
            BY <1>0, <2>1, <3>1, <3>3, LinkCloses DEF WorkerDisconnect, WorkerDisconnects
        <3> QED BY <3>2, <3>3
    <2>2. CASE ~WorkerDisconnect
        BY <1>6, <2>2, LinkFrame
        DEF WorkerStep, AlreadySubscribed, LimiterRefuses, Begin, Request, Fails, SubscribeLists,
            UnsubscribeUnlists, SendReturns
    <2> QED BY <2>1, <2>2
<1>7. ASSUME NEW i \in 1..MaxLosses, LoopStep(i)
      PROVE  LinkStep
    <2>1. CASE DialOK(i)
        <3>1. losses > 0
            BY <1>0, <2>1, ClientAssumption DEF DialOK, SessionInv
        <3>2. LinkState = "down" /\ LinkState' = "up" /\ UNCHANGED <<isReceiving, losses > 0>>
            BY <2>1, <3>1 DEF DialOK, Connected, LinkState
        <3> QED BY <3>2 DEF LinkStep, Link!Next, Link!Reopen
    <2>2. CASE ~DialOK(i)
        BY <1>7, <2>2, LinkFrame
        DEF LoopStep, HandleLoss, EnterSelect, Cancelled, BackoffOver, DialInVain, DialFails
    <2> QED BY <2>1, <2>2
<1>8. CASE StopReceiving
    <2>1. UNCHANGED LinkState
        BY <1>8 DEF StopReceiving, LinkState
    <2> QED BY <1>8, <2>1 DEF StopReceiving, LinkStep, Link!Next, Link!StopReceiving
<1>9. CASE StopCancels \/ StopWaits
    BY <1>9, LinkFrame DEF StopCancels, StopWaits
<1>10. CASE StopDisconnects
    <2>1. CASE mainPc # "quit"
        BY <1>10, <2>1, LinkFrame DEF StopDisconnects, SetShuttingDown, CloseStop
    <2>2. CASE mainPc = "quit"
        BY <1>0, <1>10, <2>2, LinkCloses DEF StopDisconnects, ShutInv
    <2> QED BY <2>1, <2>2
<1>11. CASE UNCHANGED vars
    BY <1>11, LinkFrame DEF vars
<1> QED BY <1>1, <1>2, <1>3, <1>4, <1>5, <1>6, <1>7, <1>8, <1>9, <1>10, <1>11
        DEF Next, LibraryStep

\* The client implements ClientLink: it is what Engine takes its clients for
\* (client.go:93-147, 195-219 and 296-311).
THEOREM ImplementsLink == Spec => LinkSpec
<1>1. Init => Link!Init
    BY DEF Init, Link!Init, LinkState
<1>2. IInv /\ [Next]_vars => [Link!Next]_(Link!vars)
    BY LinkNext DEF LinkStep
<1> QED BY <1>1, <1>2, Invariance, PTL DEF Spec, LinkSpec, Link!Spec
=============================================================================
