-------------------------- MODULE DeclarativeProofs --------------------------
(***************************************************************************)
(* What holds of the template cache for any number of callers, texts and   *)
(* generators, and of the declarative behaviour that calls it: what a      *)
(* callback returns depends on its entries alone.                          *)
(***************************************************************************)
EXTENDS Declarative, FlattenProofs

\* A step of the cache, whoever's it is.
LEMMA TemplateInductive == TemplateInv /\ [TemplateNext]_templateVars => TemplateInv'
<1> SUFFICES ASSUME TemplateInv, [TemplateNext]_templateVars PROVE TemplateInv'
    OBVIOUS
<1> USE TemplateAssumption
<1>1. CASE UNCHANGED templateVars
  BY <1>1 DEF TemplateInv, TemplateTypeOK, templateVars, InCall, Executing
<1>2. ASSUME NEW g \in Callers, NEW s \in Texts, Call(g, s) PROVE TemplateInv'
  BY <1>2 DEF Call, Goto, TemplateInv, TemplateTypeOK, InCall, Executing
<1>3. ASSUME NEW g \in Callers, LookUp(g) PROVE TemplateInv'
  BY <1>3 DEF LookUp, Goto, TemplateInv, TemplateTypeOK, InCall, Executing
<1>4. ASSUME NEW g \in Callers, Clone(g) PROVE TemplateInv'
  BY <1>4 DEF Clone, Goto, TemplateInv, TemplateTypeOK, InCall, Executing
<1>5. ASSUME NEW g \in Callers, ParseFails(g) \/ Execute(g) PROVE TemplateInv'
  <2>1. /\ pc[g] \in {"parse", "execute"} /\ UNCHANGED cache
        /\ \E o \in {"ok", "error"} : PutAndReturn(g, o)
    BY <1>5 DEF ParseFails, Execute
  <2> QED BY <2>1 DEF PutAndReturn, Goto, TemplateInv, TemplateTypeOK, InCall, Executing
<1>6. ASSUME NEW g \in Callers, Parse(g) PROVE TemplateInv'
  BY <1>6 DEF Parse, Goto, TemplateInv, TemplateTypeOK, InCall, Executing
<1>7. ASSUME NEW g \in Callers, Store(g) PROVE TemplateInv'
  <2>1. CASE cache[text[g]] = None
    BY <1>7, <2>1 DEF Store, Goto, TemplateInv, TemplateTypeOK, InCall, Executing
  <2>2. CASE cache[text[g]] # None
    BY <1>7, <2>2 DEF Store, Goto, TemplateInv, TemplateTypeOK, InCall, Executing
  <2> QED BY <2>1, <2>2
<1>8. ASSUME NEW g \in Callers, Resume(g) PROVE TemplateInv'
  BY <1>8 DEF Resume, Goto, TemplateInv, TemplateTypeOK, InCall, Executing
<1> QED BY <1>1, <1>2, <1>3, <1>4, <1>5, <1>6, <1>7, <1>8 DEF TemplateNext, TemplateStep

(***************************************************************************)
(* The cache's invariant: a caller has a generator of its own from Get to  *)
(* Put, and what it executes is bound to that one (template.go 46-97).     *)
(***************************************************************************)
THEOREM TemplateInvariance == TemplateSpec => []TemplateInv
<1>1. TemplateInit => TemplateInv
  BY TemplateAssumption DEF TemplateInit, TemplateInv, TemplateTypeOK, InCall, Executing
<1> QED BY <1>1, TemplateInductive, PTL DEF TemplateSpec

\* The invariant is about the generators that are drawn from.
LEMMA DrawsOwn == TemplateInv => \A g \in Executing : Drawing(g) = rng[g]
  BY DEF TemplateInv, Executing, Drawing

LEMMA InvApart == TemplateInv => GeneratorsApart
<1> SUFFICES ASSUME TemplateInv PROVE GeneratorsApart
    OBVIOUS
<1>1. \A g \in Executing : Drawing(g) = rng[g] /\ g \in Callers /\ InCall(g)
  BY DrawsOwn DEF Executing, InCall
<1> QED BY <1>1 DEF GeneratorsApart, TemplateInv

(***************************************************************************)
(* No two goroutines ever draw from one generator, and none draws from one *)
(* that rngPool could hand out (template.go 51-52, 72-79, 86-93).          *)
(***************************************************************************)
THEOREM GeneratorsExclusive == TemplateSpec => []GeneratorsApart
BY TemplateInvariance, InvApart, PTL

(***************************************************************************)
(* A stored template stays as it is (template.go 86-94).                   *)
(***************************************************************************)
THEOREM CacheImmutable == TemplateSpec => CacheStable
<1>1. TemplateInv /\ [TemplateNext]_templateVars
        => [\A s \in Texts : cache[s] # None => cache'[s] = cache[s]]_cache
  <2> SUFFICES ASSUME TemplateInv, [TemplateNext]_templateVars, cache' # cache
               PROVE  \A s \in Texts : cache[s] # None => cache'[s] = cache[s]
      OBVIOUS
  <2>1. PICK g \in Callers : Store(g) /\ cache[text[g]] = None
    BY DEF TemplateNext, TemplateStep, Call, LookUp, Clone, ParseFails, Parse, Store, Execute, Resume, templateVars
  <2> QED BY <2>1 DEF Store, TemplateInv, TemplateTypeOK
<1> QED BY <1>1, TemplateInvariance, PTL DEF TemplateSpec, CacheStable
-----------------------------------------------------------------------------
(***************************************************************************)
(* Each step of a callback is a step of the template cache or leaves it    *)
(* alone (mqtt_declarative.go 84-142).                                     *)
(***************************************************************************)
THEOREM DeclarativeUsesTemplates == Spec => UsesTemplates
<1>1. Init => TemplateInit
  BY DEF Init
<1>2. [Next]_declarativeVars => [TemplateNext]_templateVars
  <2> SUFFICES ASSUME [Next]_declarativeVars PROVE [TemplateNext]_templateVars
      OBVIOUS
  <2>1. ASSUME NEW g \in Callers, Render(g) PROVE TemplateNext
    BY <2>1 DEF Render, TemplateNext
  <2>2. ASSUME NEW g \in Callers, RenderOK(g) \/ RenderFails(g) PROVE TemplateNext
    BY <2>2 DEF RenderOK, RenderFails, TemplateNext
  <2>3. ASSUME NEW g \in Callers, TemplateStep(g) PROVE TemplateNext
    BY <2>3 DEF TemplateNext
  <2> QED
    BY <2>1, <2>2, <2>3 DEF Next, Begin, PassBy, RenderEmpty, Emit, Return, declarativeVars
<1> QED BY <1>1, <1>2, PTL DEF Spec, TemplateSpec, UsesTemplates

(***************************************************************************)
(* The callbacks of a declarative behaviour therefore share no generator.  *)
(***************************************************************************)
THEOREM DeclarativeExclusive == Spec => []GeneratorsApart
BY DeclarativeUsesTemplates, GeneratorsExclusive DEF UsesTemplates

-----------------------------------------------------------------------------
(* What a callback returns.                                                *)

\* What a callback has returned so far: the promises of the entries and of
\* the fields that it has behind it.
Progress(g) ==
    FlattenSeq(FirstOf(PromisedEntries(event[g]), entry[g] - 1))
        \o (IF InLoop(g) THEN FlattenSeq(FirstOf(PromisedFields(Current(g)), field[g] - 1)) ELSE <<>>)

\* Where a callback is in its loop.
CursorInv(g) ==
    /\ event[g] \in Events \union {None}
    /\ entry[g] \in Nat \ {0} /\ field[g] \in 1..4 /\ rendered[g] \in Nat
    /\ event[g] = None => entry[g] = 1
    /\ event[g] # None => entry[g] <= Len(EntriesFor(event[g])) + 1
    /\ ~InLoop(g) => field[g] = 1
    /\ InLoop(g) /\ Passed(event[g], Current(g)) => field[g] = 1
    /\ rendered[g] > 0 => HasField(g) /\ rendered[g] <= Len(Current(g).does[Kind(g)])

\* No text behind it was broken, and the one it is rendering is the next.
TextInv(g) ==
    /\ InLoop(g) => ~BreaksBy(Current(g), field[g] - 1)
    /\ \A n \in 1..rendered[g] : ~Broken(Current(g).does[Kind(g)][n])
    /\ pc[g] # "idle" => HasText(g)
    /\ InCall(g) => text[g] = NextText(g)
    /\ pc[g] = "execute" => text[g] \notin Malformed
    /\ outcome[g] # "none" => pc[g] = "returned" /\ (outcome[g] = "error" <=> Broken(NextText(g)))

ResultInv(g) == result[g] = IF event[g] = None THEN <<>> ELSE Progress(g)

LoopInv ==
    /\ DOMAIN event = Callers /\ DOMAIN entry = Callers /\ DOMAIN field = Callers
    /\ DOMAIN rendered = Callers /\ DOMAIN result = Callers
    /\ \A g \in Callers : CursorInv(g) /\ TextInv(g) /\ ResultInv(g)

\* What holds of the configured entries.
Acts == [kind : {"subscribe", "send", "unsubscribe", "disconnect"}, texts : Seq(Texts \union {Empty})]

LEMMA EntriesAre ==
    ASSUME NEW e \in Events
    PROVE  /\ Len(EntriesFor(e)) \in Nat /\ DOMAIN EntriesFor(e) = 1..Len(EntriesFor(e))
           /\ \A i \in 1..Len(EntriesFor(e)) : EntryOK(EntriesFor(e)[i])
<1>1. EntriesFor(e) \in {OnConnect, OnMessage, OnTimer}
    BY DEF Events, Event, EntriesFor
<1> DEFINE as == EntriesFor(e)
<1>2. as \in Seq(Range(as)) /\ \A a \in Range(as) : EntryOK(a)
    BY <1>1, DeclarativeAssumption
<1> HIDE DEF as
<1>3. Len(as) \in Nat /\ DOMAIN as = 1..Len(as) /\ \A i \in DOMAIN as : EntryOK(as[i])
    BY <1>2, LenProperties DEF Range
<1> QED
    BY <1>3 DEF as

LEMMA FieldsAre ==
    /\ DOMAIN FieldOrder = 1..4 /\ Len(FieldOrder) = 4
    /\ \A j \in 1..4 : FieldOrder[j] \in {"subscribe", "send", "unsubscribe", "disconnect"}
BY DEF FieldOrder

\* The code's remainder and the divisor of the property.
LEMMA DueIsNotPassed ==
    ASSUME NEW e \in Events, NEW a, EntryOK(a)
    PROVE  Due(e, a) <=> ~Passed(e, a)
<1>1. CASE e.source # "tick"
    BY <1>1 DEF Due, Passed
<1>2. CASE e.source = "tick"
  <2> DEFINE n == e.tick
             i == a.interval
  <2>1. n \in Nat \ {0} /\ i \in Int
      BY <1>2, DeclarativeAssumption DEF Events, Event, EntryOK
  <2> HIDE DEF n, i
  <2>2. CASE i <= 1
    <3>1. n % 1 = 0
        BY <2>1
    <3>2. (IF i <= 0 THEN 1 ELSE i) = 1
        BY <2>1, <2>2
    <3> QED
        BY <1>2, <2>2, <3>1, <3>2 DEF Due, Passed, Interval, n, i
  <2>3. CASE i > 1
    <3>1. (IF i <= 0 THEN 1 ELSE i) = i /\ ~(i <= 1) /\ i \in Nat \ {0}
        BY <2>1, <2>3
    <3>2. n = i * (n \div i) + (n % i) /\ n \div i \in Nat
        BY <2>1, <3>1
    <3>3. ASSUME n % i = 0
          PROVE  \E k \in 1..n : k * i = n
      <4>1. n \div i # 0
          BY <2>1, <3>1, <3>2, <3>3
      <4>2. n \div i <= n
          BY <3>1, <3>2, <3>3
      <4>3. n \div i \in 1..n /\ (n \div i) * i = n
          BY <2>1, <3>1, <3>2, <3>3, <4>1, <4>2
      <4> QED
          BY <4>3
    <3>4. ASSUME NEW k \in 1..n, k * i = n
          PROVE  n % i = 0
      <4>1. k \in Nat
          BY <2>1
      <4>2. (k * i) % i = 0
          BY <3>1, <4>1
      <4> QED
          BY <3>4, <4>2
    <3>5. (\E k \in 1..n : k * i = n) <=> n % i = 0
        BY <3>3, <3>4
    <3> QED
        BY <1>2, <3>1, <3>5 DEF Due, Passed, Interval, n, i
  <2> QED
      BY <2>1, <2>2, <2>3
<1> QED
    BY <1>1, <1>2

\* The promises are sequences of actions.
LEMMA PromisesType ==
    /\ \A a : EntryOK(a) => PromisedFields(a) \in Seq(Seq(Acts)) /\ Len(PromisedFields(a)) = 4
    /\ \A e \in Events : /\ PromisedEntries(e) \in Seq(Seq(Acts))
                         /\ Len(PromisedEntries(e)) = Len(EntriesFor(e))
<1>1. ASSUME NEW a, EntryOK(a)
      PROVE  PromisedFields(a) \in Seq(Seq(Acts)) /\ Len(PromisedFields(a)) = 4
  <2>1. DOMAIN PromisedFields(a) = 1..4
      BY FieldsAre DEF PromisedFields
  <2>2. ASSUME NEW j \in 1..4
        PROVE  PromisedFields(a)[j] \in Seq(Acts)
    <3>1. CASE FieldOrder[j] \in DOMAIN a.does /\ ~BreaksBy(a, j)
      <4>1. PromisedFields(a)[j] = <<Action(a, FieldOrder[j])>>
          BY <3>1, FieldsAre DEF PromisedFields
      <4>2. Action(a, FieldOrder[j]) \in Acts
          BY <1>1, <3>1, FieldsAre DEF Action, Acts, EntryOK
      <4> QED
          BY <4>1, <4>2
    <3>2. CASE ~(FieldOrder[j] \in DOMAIN a.does /\ ~BreaksBy(a, j))
      <4>1. PromisedFields(a)[j] = <<>>
          BY <3>2, FieldsAre DEF PromisedFields
      <4> QED
          BY <4>1, EmptySeq
    <3> QED
        BY <3>1, <3>2
  <2> DEFINE pf == PromisedFields(a)
  <2>3. pf = [j \in 1..4 |-> pf[j]] /\ \A j \in 1..4 : pf[j] \in Seq(Acts)
      BY <2>1, <2>2 DEF PromisedFields
  <2> HIDE DEF pf
  <2>4. PICK n \in Nat : n = 4
      OBVIOUS
  <2>5. pf \in [1..n -> Seq(Acts)]
      BY <2>3, <2>4
  <2>6. pf \in Seq(Seq(Acts)) /\ Len(pf) = n
      BY <2>5
  <2> QED
      BY <2>4, <2>6 DEF pf
<1>2. ASSUME NEW e \in Events
      PROVE  /\ PromisedEntries(e) \in Seq(Seq(Acts))
             /\ Len(PromisedEntries(e)) = Len(EntriesFor(e))
  <2> DEFINE n == Len(EntriesFor(e))
             pe == PromisedEntries(e)
  <2>1. n \in Nat /\ DOMAIN pe = 1..n /\ pe = [i \in 1..n |-> pe[i]]
      BY EntriesAre DEF PromisedEntries
  <2>2. ASSUME NEW i \in 1..n
        PROVE  pe[i] \in Seq(Acts)
    <3>1. EntryOK(EntriesFor(e)[i]) /\ i \in DOMAIN EntriesFor(e)
        BY EntriesAre
    <3>2. pe[i] \in {Promised(EntriesFor(e)[i]), <<>>}
        BY <3>1 DEF PromisedEntries
    <3>3. Promised(EntriesFor(e)[i]) \in Seq(Acts)
        BY <1>1, <3>1, FlattenType DEF Promised
    <3> QED
        BY <3>2, <3>3, EmptySeq
  <2> HIDE DEF n, pe
  <2>3. pe \in [1..n -> Seq(Acts)]
      BY <2>1, <2>2
  <2>4. pe \in Seq(Seq(Acts)) /\ Len(pe) = n
      BY <2>1, <2>3
  <2> QED
      BY <2>4 DEF n, pe
<1> QED
    BY <1>1, <1>2

\* Who has no part in a step is left where it is.
Untouched(h) ==
    /\ event'[h] = event[h] /\ entry'[h] = entry[h] /\ field'[h] = field[h]
    /\ rendered'[h] = rendered[h] /\ result'[h] = result[h]
Same(h) == pc'[h] = pc[h] /\ text'[h] = text[h] /\ outcome'[h] = outcome[h]

LEMMA UntouchedKeeps ==
    ASSUME NEW h, Untouched(h), CursorInv(h), ResultInv(h)
    PROVE  /\ CursorInv(h)' /\ ResultInv(h)'
           /\ InLoop(h)' = InLoop(h) /\ HasField(h)' = HasField(h) /\ HasText(h)' = HasText(h)
           /\ Current(h)' = Current(h) /\ Kind(h)' = Kind(h) /\ NextText(h)' = NextText(h)
<1>1. /\ InLoop(h)' = InLoop(h) /\ Current(h)' = Current(h) /\ Kind(h)' = Kind(h)
    BY DEF Untouched, InLoop, Current, Kind
<1>2. HasField(h)' = HasField(h)
    BY <1>1 DEF HasField, Untouched
<1>3. HasText(h)' = HasText(h) /\ NextText(h)' = NextText(h)
    BY <1>1, <1>2 DEF HasText, NextText, Untouched
<1>4. CursorInv(h)'
    BY <1>1, <1>2 DEF CursorInv, Untouched
<1>5. Progress(h)' = Progress(h)
    BY <1>1 DEF Progress, Untouched
<1> QED
    BY <1>1, <1>2, <1>3, <1>4, <1>5 DEF ResultInv, Untouched

LEMMA SameKeeps ==
    ASSUME NEW h, Untouched(h), Same(h), CursorInv(h), ResultInv(h), TextInv(h)
    PROVE  CursorInv(h)' /\ ResultInv(h)' /\ TextInv(h)'
<1>1. /\ CursorInv(h)' /\ ResultInv(h)'
      /\ InLoop(h)' = InLoop(h) /\ HasText(h)' = HasText(h)
      /\ Current(h)' = Current(h) /\ Kind(h)' = Kind(h) /\ NextText(h)' = NextText(h)
    BY UntouchedKeeps
<1>2. TextInv(h)'
    BY <1>1 DEF TextInv, Same, Untouched, InCall
<1> QED
    BY <1>1, <1>2

\* A step inside ExecuteTemplate goes on with the text it was given, and
\* returns an error if that is broken.
LEMMA TemplateKeeps ==
    ASSUME TemplateInv, NEW g \in Callers, TemplateStep(g), Untouched(g),
           CursorInv(g), ResultInv(g), TextInv(g)
    PROVE  CursorInv(g)' /\ ResultInv(g)' /\ TextInv(g)'
<1> USE TemplateAssumption
<1>1. /\ CursorInv(g)' /\ ResultInv(g)'
      /\ InLoop(g)' = InLoop(g) /\ HasText(g)' = HasText(g)
      /\ Current(g)' = Current(g) /\ Kind(g)' = Kind(g) /\ NextText(g)' = NextText(g)
    BY UntouchedKeeps
<1>2. /\ pc[g] \in {"look", "clone", "parse", "store", "execute"} /\ pc' = [pc EXCEPT ![g] = pc'[g]]
      /\ pc[g] \in {"clone", "store", "execute"} => text[g] \notin Malformed
      /\ outcome[g] = "none" /\ text[g] = NextText(g) /\ HasText(g)
  <2>1. pc[g] \in {"look", "clone", "parse", "store", "execute"} /\ pc' = [pc EXCEPT ![g] = pc'[g]]
      BY DEF TemplateStep, LookUp, Clone, ParseFails, Parse, Store, Execute, PutAndReturn, Goto,
             TemplateInv, TemplateTypeOK
  <2> QED
      BY <2>1 DEF TextInv, TemplateInv, TemplateTypeOK, InCall
<1>3. CASE LookUp(g) \/ Clone(g) \/ Parse(g) \/ Store(g)
  <2>1. /\ UNCHANGED <<text, outcome>> /\ pc'[g] \in {"clone", "parse", "store", "execute"}
        /\ pc'[g] = "execute" => pc[g] \in {"clone", "store"}
      BY <1>3 DEF LookUp, Clone, Parse, Store, Goto, TemplateInv, TemplateTypeOK
  <2> QED
      BY <1>1, <1>2, <2>1 DEF TextInv, Untouched, InCall
<1>4. CASE ParseFails(g) \/ Execute(g)
  <2>1. /\ pc'[g] = "returned" /\ outcome'[g] \in {"ok", "error"}
        /\ outcome'[g] = "error" <=> Broken(NextText(g))
      BY <1>2, <1>4 DEF ParseFails, Execute, PutAndReturn, Goto, TemplateInv, TemplateTypeOK, Broken
  <2> QED
      BY <1>1, <1>2, <2>1 DEF TextInv, Untouched, InCall
<1> QED
    BY <1>3, <1>4 DEF TemplateStep

\* One text more.
LEMMA RenderedKeeps ==
    ASSUME NEW g \in Callers, HasText(g), CursorInv(g), ResultInv(g), TextInv(g),
           ~Broken(NextText(g)), rendered'[g] = rendered[g] + 1,
           event'[g] = event[g], entry'[g] = entry[g], field'[g] = field[g], result'[g] = result[g],
           pc'[g] = "idle", outcome'[g] = "none"
    PROVE  CursorInv(g)' /\ ResultInv(g)' /\ TextInv(g)'
<1>1. InLoop(g)' = InLoop(g) /\ Current(g)' = Current(g) /\ Kind(g)' = Kind(g)
    BY DEF InLoop, Current, Kind
<1>2. HasField(g)' = HasField(g)
    BY <1>1 DEF HasField
<1>3. Progress(g)' = Progress(g)
    BY <1>1 DEF Progress
<1>4. CursorInv(g)'
  <2>1. HasField(g) /\ rendered[g] < Len(Current(g).does[Kind(g)]) /\ rendered[g] \in Nat
      BY DEF HasText, CursorInv
  <2> DEFINE len == Len(Current(g).does[Kind(g)])
  <2>2. len \in Nat
    <3>1. Kind(g) \in DOMAIN Current(g).does /\ EntryOK(Current(g))
        BY <2>1, EntriesAre DEF HasField, InLoop, CursorInv, Current
    <3> QED
        BY <3>1, LenProperties DEF EntryOK
  <2> HIDE DEF len
  <2>3. rendered[g] + 1 <= len
      BY <2>1, <2>2 DEF len
  <2> QED
      BY <1>1, <1>2, <2>1, <2>3 DEF CursorInv, len
<1>5. TextInv(g)'
  <2>1. \A n \in 1..(rendered[g] + 1) : ~Broken(Current(g).does[Kind(g)][n])
    <3>1. \A n \in 1..rendered[g] : ~Broken(Current(g).does[Kind(g)][n])
        BY DEF TextInv
    <3>2. \A n \in 1..(rendered[g] + 1) : n \in 1..rendered[g] \/ n = rendered[g] + 1
        BY DEF CursorInv
    <3> QED
        BY <3>1, <3>2 DEF NextText
  <2> QED
      BY <1>1, <2>1 DEF TextInv, InCall
<1> QED
    BY <1>3, <1>4, <1>5 DEF ResultInv

\* An entry is behind the callback when its promise has been added.
LEMMA EntryDone ==
    ASSUME NEW g \in Callers, InLoop(g), LoopInv, event'[g] = event[g], NextEntry(g),
           result'[g] = FlattenSeq(FirstOf(PromisedEntries(event[g]), entry[g] - 1))
                            \o PromisedEntries(event[g])[entry[g]],
           pc'[g] = "idle", outcome'[g] = "none"
    PROVE  CursorInv(g)' /\ ResultInv(g)' /\ TextInv(g)'
<1> DEFINE e == event[g]
           n == entry[g]
<1>1. /\ e \in Events /\ n \in Nat \ {0} /\ n <= Len(EntriesFor(e)) /\ Len(EntriesFor(e)) \in Nat
      /\ e # None
  <2>1. CursorInv(g)
      BY DEF LoopInv
  <2> QED
      BY <2>1, EntriesAre DEF CursorInv, InLoop
<1>2. entry'[g] = n + 1 /\ field'[g] = 1 /\ rendered'[g] = 0
    BY DEF NextEntry, LoopInv
<1>3. CursorInv(g)'
  <2>1. event'[g] = e
      OBVIOUS
  <2> HIDE DEF e, n
  <2> QED
      BY <1>1, <1>2, <2>1 DEF CursorInv
<1>4. TextInv(g)'
    BY <1>2 DEF TextInv, BreaksBy, InCall
<1>5. result'[g] = FlattenSeq(FirstOf(PromisedEntries(e), n))
                   /\ FlattenSeq(FirstOf(PromisedEntries(e), n)) \in Seq(Acts)
  <2>1. PromisedEntries(e) \in Seq(Seq(Acts)) /\ Len(PromisedEntries(e)) = Len(EntriesFor(e))
      BY <1>1, PromisesType
  <2> DEFINE k == n - 1
  <2>2. k \in 0..(Len(PromisedEntries(e)) - 1) /\ n \in 0..Len(PromisedEntries(e)) /\ n = k + 1
      BY <1>1, <2>1
  <2>3. result'[g] = FlattenSeq(FirstOf(PromisedEntries(e), k)) \o PromisedEntries(e)[n]
      OBVIOUS
  <2> HIDE DEF e, n, k
  <2>4. FlattenSeq(FirstOf(PromisedEntries(e), k + 1)) =
            FlattenSeq(FirstOf(PromisedEntries(e), k)) \o PromisedEntries(e)[k + 1]
      BY <2>1, <2>2, FlattenNext
  <2>5. FlattenSeq(FirstOf(PromisedEntries(e), n)) \in Seq(Acts)
      BY <2>1, <2>2, FirstOfType
  <2> QED
      BY <2>2, <2>3, <2>4, <2>5
<1>6. InLoop(g)' => FlattenSeq(FirstOf(PromisedFields(Current(g)'), field'[g] - 1)) = <<>>
  <2>1. FirstOf(PromisedFields(Current(g)'), 0) = <<>> /\ Len(<<>>) = 0
      BY DEF FirstOf
  <2>2. FlattenSeq(<<>>) = <<>>
      BY <2>1 DEF FlattenSeq
  <2> QED
      BY <1>2, <2>1, <2>2
<1>7. Progress(g)' = result'[g]
  <2>1. event'[g] = e /\ entry'[g] - 1 = n
      BY <1>1, <1>2
  <2>2. result'[g] \o <<>> = result'[g]
      BY <1>5, ConcatEmptySeq
  <2>3. FlattenSeq(FirstOf(PromisedEntries(event'[g]), entry'[g] - 1)) = result'[g]
      BY <1>5, <2>1
  <2> QED
      BY <1>6, <2>2, <2>3 DEF Progress
<1>8. event'[g] # None
    BY <1>1
<1> QED
    BY <1>3, <1>4, <1>7, <1>8 DEF ResultInv

\* A field is behind the callback when its promise has been added.
LEMMA FieldDone ==
    ASSUME NEW g \in Callers, InLoop(g), ~Passed(event[g], Current(g)), LoopInv,
           event'[g] = event[g], NextField(g),
           result'[g] = result[g] \o PromisedFields(Current(g))[field[g]],
           ~BreaksBy(Current(g), field[g]),
           pc'[g] = "idle", outcome'[g] = "none"
    PROVE  CursorInv(g)' /\ ResultInv(g)' /\ TextInv(g)'
<1> DEFINE e == event[g]
           n == entry[g]
           f == field[g]
           pe == PromisedEntries(e)
           pf == PromisedFields(Current(g))
<1>1. /\ e \in Events /\ n \in Nat \ {0} /\ n <= Len(EntriesFor(e)) /\ Len(EntriesFor(e)) \in Nat
      /\ e # None /\ f \in 1..4 /\ EntryOK(Current(g)) /\ Current(g) = EntriesFor(e)[n]
      /\ DOMAIN EntriesFor(e) = 1..Len(EntriesFor(e))
  <2>1. CursorInv(g)
      BY DEF LoopInv
  <2> QED
      BY <2>1, EntriesAre DEF CursorInv, InLoop, Current
<1>2. pf \in Seq(Seq(Acts)) /\ Len(pf) = 4
    BY <1>1, PromisesType
<1>3. pe \in Seq(Seq(Acts)) /\ Len(pe) = Len(EntriesFor(e))
    BY <1>1, PromisesType
<1>4. Due(e, Current(g))
    BY <1>1, DueIsNotPassed
<1>5. pe[n] = FlattenSeq(pf)
    BY <1>1, <1>4 DEF PromisedEntries, Promised
<1>6. result[g] = FlattenSeq(FirstOf(pe, n - 1)) \o FlattenSeq(FirstOf(pf, f - 1))
    BY <1>1 DEF LoopInv, ResultInv, Progress
<1> HIDE DEF pe, pf
<1>7. result'[g] = FlattenSeq(FirstOf(pe, n - 1)) \o FlattenSeq(FirstOf(pf, f))
  <2> DEFINE k == f - 1
             l == n - 1
  <2>1. /\ k \in 0..(Len(pf) - 1) /\ k \in 0..Len(pf) /\ k + 1 = f /\ f \in 1..Len(pf)
        /\ l \in 0..Len(pe)
      BY <1>1, <1>2, <1>3
  <2>2. result[g] = FlattenSeq(FirstOf(pe, l)) \o FlattenSeq(FirstOf(pf, k))
      BY <1>6
  <2>3. result'[g] = result[g] \o pf[f]
      BY DEF pf
  <2> HIDE DEF k, l, f
  <2>4. FlattenSeq(FirstOf(pf, f)) = FlattenSeq(FirstOf(pf, k)) \o pf[f]
      BY <1>2, <2>1, FlattenNext
  <2>5. /\ FlattenSeq(FirstOf(pe, l)) \in Seq(Acts) /\ FlattenSeq(FirstOf(pf, k)) \in Seq(Acts)
        /\ pf[f] \in Seq(Acts)
      BY <1>2, <1>3, <2>1, FirstOfType, ElementOfSeq
  <2>6. (FlattenSeq(FirstOf(pe, l)) \o FlattenSeq(FirstOf(pf, k))) \o pf[f] =
            FlattenSeq(FirstOf(pe, l)) \o (FlattenSeq(FirstOf(pf, k)) \o pf[f])
    <3>1. \A s, t, u \in Seq(Acts) : (s \o t) \o u = s \o (t \o u)
        BY ConcatAssociative
    <3> QED
        BY <2>5, <3>1, Zenon
  <2>7. result'[g] = FlattenSeq(FirstOf(pe, l)) \o FlattenSeq(FirstOf(pf, f))
      BY <2>2, <2>3, <2>4, <2>6
  <2> QED
      BY <2>7 DEF l
<1>8. CASE f = 4
  <2>1. NextEntry(g)
      BY <1>8, FieldsAre DEF NextField
  <2>2. FirstOf(pf, 4) = pf
    <3>1. Len(pf) \in 0..Len(pf)
        BY <1>2
    <3> QED
        BY <1>2, <3>1, FirstOfType
  <2>3. result'[g] = FlattenSeq(FirstOf(pe, n - 1)) \o pe[n]
      BY <1>5, <1>7, <1>8, <2>2
  <2> QED
      BY <2>1, <2>3, EntryDone DEF pe
<1>9. CASE f # 4
  <2>1. entry'[g] = n /\ field'[g] = f + 1 /\ rendered'[g] = 0 /\ event'[g] = e
      BY <1>9, FieldsAre DEF NextField, LoopInv
  <2>2. InLoop(g)' /\ Current(g)' = Current(g)
      BY <2>1 DEF InLoop, Current
  <2>3. CursorInv(g)'
      BY <1>1, <1>9, <2>1, <2>2 DEF CursorInv
  <2>4. TextInv(g)'
      BY <1>1, <2>1, <2>2 DEF TextInv, InCall
  <2>5. Progress(g)' = FlattenSeq(FirstOf(pe, n - 1)) \o FlattenSeq(FirstOf(pf, f))
    <3>1. field'[g] - 1 = f
        BY <1>1, <2>1
    <3> QED
        BY <2>1, <2>2, <3>1 DEF Progress, pe, pf
  <2>6. ResultInv(g)'
      BY <1>1, <1>7, <2>1, <2>5 DEF ResultInv
  <2> QED
      BY <2>3, <2>4, <2>6
<1> QED
    BY <1>8, <1>9

\* What is known of a callback in its loop.
LEMMA LoopFacts ==
    ASSUME NEW g \in Callers, InLoop(g), CursorInv(g), ResultInv(g)
    PROVE  /\ event[g] \in Events /\ event[g] # None /\ entry[g] \in 1..Len(EntriesFor(event[g]))
           /\ field[g] \in 1..4 /\ EntryOK(Current(g)) /\ Current(g) = EntriesFor(event[g])[entry[g]]
           /\ DOMAIN EntriesFor(event[g]) = 1..Len(EntriesFor(event[g]))
           /\ PromisedFields(Current(g)) \in Seq(Seq(Acts)) /\ Len(PromisedFields(Current(g))) = 4
           /\ result[g] = FlattenSeq(FirstOf(PromisedEntries(event[g]), entry[g] - 1))
                              \o FlattenSeq(FirstOf(PromisedFields(Current(g)), field[g] - 1))
           /\ result[g] \in Seq(Acts)
<1>1. /\ event[g] \in Events /\ event[g] # None /\ entry[g] \in 1..Len(EntriesFor(event[g]))
      /\ field[g] \in 1..4 /\ EntryOK(Current(g)) /\ Current(g) = EntriesFor(event[g])[entry[g]]
      /\ DOMAIN EntriesFor(event[g]) = 1..Len(EntriesFor(event[g]))
    BY EntriesAre DEF CursorInv, InLoop, Current
<1> DEFINE pe == PromisedEntries(event[g])
           pf == PromisedFields(Current(g))
           l == entry[g] - 1
           k == field[g] - 1
<1>2. pf \in Seq(Seq(Acts)) /\ Len(pf) = 4
    BY <1>1, PromisesType
<1>3. pe \in Seq(Seq(Acts)) /\ Len(pe) = Len(EntriesFor(event[g]))
    BY <1>1, PromisesType
<1>4. result[g] = FlattenSeq(FirstOf(pe, l)) \o FlattenSeq(FirstOf(pf, k))
    BY <1>1 DEF ResultInv, Progress
<1>5. l \in 0..Len(pe) /\ k \in 0..Len(pf)
    BY <1>1, <1>2, <1>3
<1> HIDE DEF pe, pf, l, k
<1>6. FlattenSeq(FirstOf(pe, l)) \in Seq(Acts) /\ FlattenSeq(FirstOf(pf, k)) \in Seq(Acts)
    BY <1>2, <1>3, <1>5, FirstOfType
<1>7. result[g] \in Seq(Acts)
    BY <1>4, <1>6, ConcatProperties
<1> QED
    BY <1>1, <1>2, <1>4, <1>7 DEF pe, pf, l, k

\* A callback outside ExecuteTemplate has no outcome.
LEMMA OutsideNoOutcome ==
    ASSUME TemplateInv, NEW g \in Callers, TextInv(g), ~HasText(g)
    PROVE  pc[g] = "idle" /\ outcome[g] = "none"
BY DEF TextInv

\* Nothing was broken before this field, and it is not.
LEMMA BreaksLater ==
    ASSUME NEW a, NEW f \in 1..4, ~BreaksBy(a, f - 1),
           FieldOrder[f] \in DOMAIN a.does =>
               \A n \in DOMAIN a.does[FieldOrder[f]] : ~Broken(a.does[FieldOrder[f]][n])
    PROVE  ~BreaksBy(a, f)
<1>1. \A i \in 1..f : i \in 1..(f - 1) \/ i = f
    OBVIOUS
<1> QED
    BY <1>1 DEF BreaksBy

LEMMA PassByKeeps ==
    ASSUME TemplateInv, LoopInv, NEW g \in Callers, PassBy(g)
    PROVE  CursorInv(g)' /\ ResultInv(g)' /\ TextInv(g)'
<1>1. CursorInv(g) /\ ResultInv(g) /\ TextInv(g) /\ InLoop(g) /\ ~HasField(g)
    BY DEF LoopInv, PassBy
<1>2. pc'[g] = "idle" /\ outcome'[g] = "none" /\ event'[g] = event[g] /\ result'[g] = result[g]
    BY <1>1, OutsideNoOutcome DEF HasText, PassBy, templateVars
<1>3. /\ event[g] \in Events /\ entry[g] \in 1..Len(EntriesFor(event[g]))
      /\ field[g] \in 1..4 /\ EntryOK(Current(g)) /\ Current(g) = EntriesFor(event[g])[entry[g]]
      /\ DOMAIN EntriesFor(event[g]) = 1..Len(EntriesFor(event[g]))
      /\ result[g] = FlattenSeq(FirstOf(PromisedEntries(event[g]), entry[g] - 1))
                         \o FlattenSeq(FirstOf(PromisedFields(Current(g)), field[g] - 1))
      /\ result[g] \in Seq(Acts)
    BY <1>1, LoopFacts
<1>4. CASE Passed(event[g], Current(g))
  <2>1. NextEntry(g)
      BY <1>4 DEF PassBy
  <2>2. PromisedEntries(event[g])[entry[g]] = <<>>
      BY <1>3, <1>4, DueIsNotPassed DEF PromisedEntries
  <2>3. FlattenSeq(FirstOf(PromisedFields(Current(g)), field[g] - 1)) = <<>>
    <3>1. field[g] - 1 = 0
        BY <1>1, <1>4 DEF CursorInv
    <3>2. FirstOf(PromisedFields(Current(g)), 0) = <<>> /\ Len(<<>>) = 0
        BY DEF FirstOf
    <3>3. FlattenSeq(<<>>) = <<>>
        BY <3>2 DEF FlattenSeq
    <3> QED
        BY <3>1, <3>2, <3>3
  <2>4. result'[g] = FlattenSeq(FirstOf(PromisedEntries(event[g]), entry[g] - 1))
                         \o PromisedEntries(event[g])[entry[g]]
      BY <1>2, <1>3, <2>2, <2>3, Zenon
  <2> QED
      BY <1>1, <1>2, <2>1, <2>4, EntryDone
<1>5. CASE ~Passed(event[g], Current(g))
  <2>1. NextField(g) /\ Kind(g) \notin DOMAIN Current(g).does
      BY <1>1, <1>5 DEF PassBy, HasField
  <2>2. PromisedFields(Current(g))[field[g]] = <<>>
      BY <1>3, <2>1, FieldsAre DEF PromisedFields, Kind
  <2>3. result'[g] = result[g] \o PromisedFields(Current(g))[field[g]]
      BY <1>2, <1>3, <2>2, ConcatEmptySeq
  <2>4. ~BreaksBy(Current(g), field[g])
      BY <1>1, <1>3, <2>1, BreaksLater DEF TextInv, Kind
  <2> QED
      BY <1>1, <1>2, <1>5, <2>1, <2>3, <2>4, FieldDone
<1> QED
    BY <1>4, <1>5

LEMMA EmitKeeps ==
    ASSUME TemplateInv, LoopInv, NEW g \in Callers, Emit(g)
    PROVE  CursorInv(g)' /\ ResultInv(g)' /\ TextInv(g)'
<1>1. CursorInv(g) /\ ResultInv(g) /\ TextInv(g) /\ InLoop(g) /\ HasField(g) /\ ~HasText(g)
    BY DEF LoopInv, Emit, HasField
<1>2. /\ pc'[g] = "idle" /\ outcome'[g] = "none" /\ event'[g] = event[g] /\ NextField(g)
      /\ result'[g] = Append(result[g], Action(Current(g), Kind(g)))
    BY <1>1, OutsideNoOutcome DEF Emit, templateVars, LoopInv
<1>3. /\ field[g] \in 1..4 /\ EntryOK(Current(g)) /\ result[g] \in Seq(Acts)
    BY <1>1, LoopFacts
<1>4. ~Passed(event[g], Current(g)) /\ Kind(g) \in DOMAIN Current(g).does
    BY <1>1 DEF HasField
<1>5. \A n \in DOMAIN Current(g).does[Kind(g)] : ~Broken(Current(g).does[Kind(g)][n])
  <2> DEFINE texts == Current(g).does[Kind(g)]
  <2>1. Len(texts) \in Nat /\ DOMAIN texts = 1..Len(texts)
      BY <1>3, <1>4, LenProperties DEF EntryOK
  <2>2. /\ rendered[g] \in Nat /\ ~(rendered[g] < Len(texts))
        /\ \A n \in 1..rendered[g] : ~Broken(texts[n])
      BY <1>1 DEF CursorInv, TextInv, HasText
  <2> HIDE DEF texts
  <2>3. \A n \in DOMAIN texts : n \in 1..rendered[g]
      BY <2>1, <2>2
  <2> QED
      BY <2>2, <2>3 DEF texts
<1>6. ~BreaksBy(Current(g), field[g])
    BY <1>1, <1>3, <1>5, BreaksLater DEF TextInv, Kind
<1>7. PromisedFields(Current(g))[field[g]] = <<Action(Current(g), Kind(g))>>
    BY <1>3, <1>4, <1>6, FieldsAre DEF PromisedFields, Kind
<1>8. result'[g] = result[g] \o PromisedFields(Current(g))[field[g]]
  <2>1. Action(Current(g), Kind(g)) \in Acts
      BY <1>3, <1>4, FieldsAre DEF Action, Acts, EntryOK, Kind
  <2>2. \A s \in Seq(Acts), x \in Acts : Append(s, x) = s \o <<x>>
      BY AppendIsConcat
  <2> QED
      BY <1>2, <1>3, <1>7, <2>1, <2>2, Zenon
<1> QED
    BY <1>1, <1>2, <1>4, <1>6, <1>8, FieldDone

LEMMA RenderFailsKeeps ==
    ASSUME TemplateInv, LoopInv, NEW g \in Callers, RenderFails(g)
    PROVE  CursorInv(g)' /\ ResultInv(g)' /\ TextInv(g)'
<1>1. /\ CursorInv(g) /\ ResultInv(g) /\ TextInv(g)
      /\ pc'[g] = "idle" /\ outcome'[g] = "none" /\ event'[g] = event[g] /\ result'[g] = result[g]
      /\ NextEntry(g) /\ outcome[g] = "error"
    BY DEF LoopInv, RenderFails, Resume, Goto, TemplateInv, TemplateTypeOK
<1>2. HasText(g) /\ Broken(NextText(g)) /\ InLoop(g) /\ HasField(g)
    BY <1>1 DEF TextInv, HasText, HasField
<1> DEFINE e == event[g]
           n == entry[g]
           pf == PromisedFields(Current(g))
<1>3. /\ e \in Events /\ n \in 1..Len(EntriesFor(e)) /\ DOMAIN EntriesFor(e) = 1..Len(EntriesFor(e))
      /\ field[g] \in 1..4 /\ EntryOK(Current(g)) /\ Current(g) = EntriesFor(e)[n]
      /\ pf \in Seq(Seq(Acts)) /\ Len(pf) = 4
      /\ result[g] = FlattenSeq(FirstOf(PromisedEntries(e), n - 1)) \o FlattenSeq(FirstOf(pf, field[g] - 1))
    BY <1>1, <1>2, LoopFacts
<1>4. ASSUME NEW j \in field[g]..4
      PROVE  pf[j] = <<>>
  <2>1. Kind(g) \in DOMAIN Current(g).does /\ rendered[g] + 1 \in DOMAIN Current(g).does[Kind(g)]
    <3>1. Kind(g) \in DOMAIN Current(g).does
        BY <1>2 DEF HasField
    <3>2. Current(g).does[Kind(g)] \in Seq(Texts \union {Empty})
        BY <1>3, <3>1 DEF EntryOK
    <3>3. rendered[g] < Len(Current(g).does[Kind(g)]) /\ rendered[g] \in Nat
        BY <1>1, <1>2 DEF HasText, CursorInv
    <3> QED
        BY <3>1, <3>2, <3>3, LenProperties
  <2>2. BreaksBy(Current(g), j)
    <3>1. field[g] \in 1..j
        BY <1>3
    <3> QED
        BY <1>2, <2>1, <3>1 DEF BreaksBy, Kind, NextText
  <2>3. j \in 1..4
      BY <1>3
  <2> QED
      BY <2>2, <2>3, FieldsAre DEF PromisedFields
<1>5. FlattenSeq(pf) = FlattenSeq(FirstOf(pf, field[g] - 1))
  <2> DEFINE k == field[g] - 1
  <2>1. k \in 0..Len(pf) /\ \A i \in (k + 1)..Len(pf) : pf[i] = <<>>
      BY <1>3, <1>4
  <2> HIDE DEF k, pf
  <2>2. FlattenSeq(pf) = FlattenSeq(FirstOf(pf, k))
      BY <1>3, <2>1, FlattenEmptyRest
  <2> QED
      BY <2>2 DEF k
<1>6. PromisedEntries(e)[n] = FlattenSeq(pf)
  <2>1. Due(e, Current(g))
      BY <1>2, <1>3, DueIsNotPassed DEF HasField
  <2> QED
      BY <1>3, <2>1 DEF PromisedEntries, Promised
<1>7. result'[g] = FlattenSeq(FirstOf(PromisedEntries(e), n - 1)) \o PromisedEntries(e)[n]
    BY <1>1, <1>3, <1>5, <1>6, Zenon
<1> QED
    BY <1>1, <1>2, <1>7, EntryDone

\* A callback that begins, or returns, has nothing behind it.
LEMMA BeginKeeps ==
    ASSUME TemplateInv, LoopInv, NEW g \in Callers, NEW e \in Events, Begin(g, e)
    PROVE  CursorInv(g)' /\ ResultInv(g)' /\ TextInv(g)'
<1>1. CursorInv(g) /\ ResultInv(g) /\ TextInv(g) /\ event[g] = None /\ ~InLoop(g)
    BY DEF LoopInv, Begin, InLoop
<1>2. /\ entry[g] = 1 /\ field[g] = 1 /\ rendered[g] = 0 /\ result[g] = <<>>
      /\ pc[g] = "idle" /\ outcome[g] = "none"
    BY <1>1 DEF CursorInv, ResultInv, TextInv, HasField, HasText
<1>3. /\ event'[g] = e /\ entry'[g] = 1 /\ field'[g] = 1 /\ rendered'[g] = 0 /\ result'[g] = <<>>
      /\ pc'[g] = "idle" /\ outcome'[g] = "none" /\ e # None
    BY <1>2, DeclarativeAssumption DEF Begin, LoopInv, cursorVars, templateVars
<1>4. CursorInv(g)'
    BY <1>3, EntriesAre DEF CursorInv
<1>5. TextInv(g)'
    BY <1>3 DEF TextInv, BreaksBy, InCall
<1>6. \A seqs : FlattenSeq(FirstOf(seqs, 0)) = <<>>
  <2>1. \A seqs : FirstOf(seqs, 0) = <<>> /\ Len(<<>>) = 0
      BY DEF FirstOf
  <2>2. FlattenSeq(<<>>) = <<>>
      BY <2>1 DEF FlattenSeq
  <2> QED
      BY <2>1, <2>2
<1>7. Progress(g)' = <<>>
  <2>1. entry'[g] - 1 = 0 /\ field'[g] - 1 = 0
      BY <1>3
  <2>2. <<>> \o <<>> = <<>>
      BY ConcatEmptySeq, EmptySeq
  <2> QED
      BY <1>6, <2>1, <2>2 DEF Progress
<1> QED
    BY <1>3, <1>4, <1>5, <1>7 DEF ResultInv

LEMMA ReturnKeeps ==
    ASSUME TemplateInv, LoopInv, NEW g \in Callers, Return(g)
    PROVE  CursorInv(g)' /\ ResultInv(g)' /\ TextInv(g)'
<1>1. CursorInv(g) /\ TextInv(g) /\ ~InLoop(g) /\ ~HasText(g)
    BY DEF LoopInv, Return, Done, HasText, HasField
<1>2. field[g] = 1 /\ rendered[g] = 0 /\ pc[g] = "idle" /\ outcome[g] = "none"
    BY <1>1, OutsideNoOutcome DEF CursorInv, HasField
<1>3. /\ event'[g] = None /\ entry'[g] = 1 /\ field'[g] = 1 /\ rendered'[g] = 0 /\ result'[g] = <<>>
      /\ pc'[g] = "idle" /\ outcome'[g] = "none"
    BY <1>2 DEF Return, LoopInv, templateVars
<1> QED
    BY <1>3 DEF CursorInv, TextInv, ResultInv, InLoop, InCall

\* A text is handed to ExecuteTemplate.
LEMMA RenderKeeps ==
    ASSUME TemplateInv, LoopInv, NEW g \in Callers, Render(g)
    PROVE  CursorInv(g)' /\ ResultInv(g)' /\ TextInv(g)'
<1>1. /\ Untouched(g) /\ pc[g] = "idle" /\ pc'[g] = "look" /\ text'[g] = NextText(g)
      /\ outcome'[g] = outcome[g] /\ HasText(g)
    BY DEF Render, Call, Goto, Untouched, behaviorVars, cursorVars, TemplateInv, TemplateTypeOK
<1>2. CursorInv(g) /\ ResultInv(g) /\ TextInv(g)
    BY DEF LoopInv
<1>3. /\ CursorInv(g)' /\ ResultInv(g)'
      /\ InLoop(g)' = InLoop(g) /\ HasText(g)' = HasText(g)
      /\ Current(g)' = Current(g) /\ Kind(g)' = Kind(g) /\ NextText(g)' = NextText(g)
    BY <1>1, <1>2, UntouchedKeeps
<1>4. TextInv(g)'
    BY <1>1, <1>2, <1>3 DEF TextInv, Untouched, InCall
<1> QED
    BY <1>3, <1>4

LEMMA NextTextKeeps ==
    ASSUME TemplateInv, LoopInv, NEW g \in Callers, RenderEmpty(g) \/ RenderOK(g)
    PROVE  CursorInv(g)' /\ ResultInv(g)' /\ TextInv(g)'
<1>1. CursorInv(g) /\ ResultInv(g) /\ TextInv(g)
    BY DEF LoopInv
<1>2. /\ rendered'[g] = rendered[g] + 1 /\ event'[g] = event[g] /\ entry'[g] = entry[g]
      /\ field'[g] = field[g] /\ result'[g] = result[g]
    BY DEF RenderEmpty, RenderOK, LoopInv
<1>3. HasText(g) /\ ~Broken(NextText(g)) /\ pc'[g] = "idle" /\ outcome'[g] = "none"
  <2>1. CASE RenderEmpty(g)
      BY <1>1, <2>1, TemplateAssumption, DeclarativeAssumption DEF RenderEmpty, Broken, templateVars, TextInv
  <2>2. CASE RenderOK(g)
      BY <1>1, <2>2 DEF RenderOK, Resume, Goto, TextInv, TemplateInv, TemplateTypeOK
  <2> QED
      BY <2>1, <2>2
<1> QED
    BY <1>1, <1>2, <1>3, RenderedKeeps

\* Every step keeps each callback's place and what it has returned so far.
LEMMA LoopInductive == TemplateInv /\ LoopInv /\ [Next]_declarativeVars => LoopInv'
<1> SUFFICES ASSUME TemplateInv, LoopInv, [Next]_declarativeVars PROVE LoopInv'
    OBVIOUS
<1>1. CASE UNCHANGED declarativeVars
  <2>1. \A h \in Callers : Untouched(h) /\ Same(h)
      BY <1>1 DEF declarativeVars, behaviorVars, cursorVars, templateVars, Untouched, Same
  <2>2. \A h \in Callers : CursorInv(h)' /\ ResultInv(h)' /\ TextInv(h)'
      BY <2>1, SameKeeps DEF LoopInv
  <2> QED
      BY <1>1, <2>2 DEF LoopInv, declarativeVars, behaviorVars, cursorVars
<1>2. ASSUME NEW g \in Callers,
             \/ \E e \in Events : Begin(g, e)
             \/ PassBy(g) \/ RenderEmpty(g) \/ Render(g)
             \/ TemplateStep(g) /\ UNCHANGED behaviorVars
             \/ RenderOK(g) \/ RenderFails(g) \/ Emit(g) \/ Return(g)
      PROVE  LoopInv'
  <2> USE DEF cursorVars, behaviorVars, templateVars, LoopInv, NextField, NextEntry
  <2>1. /\ DOMAIN event' = Callers /\ DOMAIN entry' = Callers /\ DOMAIN field' = Callers
        /\ DOMAIN rendered' = Callers /\ DOMAIN result' = Callers
      BY <1>2 DEF Begin, PassBy, RenderEmpty, Render, RenderOK, RenderFails, Emit, Return
  <2>2. \A h \in Callers \ {g} : Untouched(h)
      BY <1>2 DEF Begin, PassBy, RenderEmpty, Render, RenderOK, RenderFails, Emit, Return, Untouched
  <2>3. \A h \in Callers \ {g} : Same(h)
    <3>1. CASE TemplateStep(g)
        BY <3>1 DEF TemplateStep, LookUp, Clone, ParseFails, Parse, Store, Execute, PutAndReturn, Goto,
                    TemplateInv, TemplateTypeOK, Same
    <3>2. CASE RenderOK(g) \/ RenderFails(g) \/ Render(g)
        BY <3>2 DEF RenderOK, RenderFails, Render, Resume, Call, Goto, TemplateInv, TemplateTypeOK, Same
    <3>3. CASE (\E e \in Events : Begin(g, e)) \/ PassBy(g) \/ RenderEmpty(g) \/ Emit(g) \/ Return(g)
        BY <3>3 DEF Begin, PassBy, RenderEmpty, Emit, Return, Same
    <3> QED
        BY <1>2, <3>1, <3>2, <3>3
  <2>4. CursorInv(g)' /\ ResultInv(g)' /\ TextInv(g)'
    <3>1. CASE TemplateStep(g) /\ UNCHANGED behaviorVars
        BY <3>1, TemplateKeeps DEF Untouched
    <3> QED
        BY <1>2, <3>1, BeginKeeps, PassByKeeps, NextTextKeeps, RenderKeeps, RenderFailsKeeps, EmitKeeps,
           ReturnKeeps
  <2>5. \A h \in Callers \ {g} : CursorInv(h)' /\ ResultInv(h)' /\ TextInv(h)'
      BY <2>2, <2>3, SameKeeps
  <2> QED
      BY <2>1, <2>4, <2>5
<1> QED
    BY <1>1, <1>2 DEF Next

LEMMA LoopInitially == Init => LoopInv
BY DEF Init, TemplateInit, LoopInv, CursorInv, TextInv, ResultInv, InLoop, HasField, InCall

\* A callback whose loop is over has all its promises behind it.
LEMMA LoopReturns == LoopInv => CallbackReturns
<1> SUFFICES ASSUME LoopInv, NEW g \in Callers, Done(g)
             PROVE  result[g] = FlattenSeq(PromisedEntries(event[g]))
    BY DEF CallbackReturns
<1> DEFINE pe == PromisedEntries(event[g])
           n == entry[g] - 1
<1>1. /\ event[g] \in Events /\ event[g] # None /\ ~InLoop(g) /\ n = Len(EntriesFor(event[g])) /\ n \in Nat
      /\ result[g] = Progress(g)
    BY EntriesAre DEF LoopInv, CursorInv, ResultInv, Done, InLoop
<1>2. pe \in Seq(Seq(Acts)) /\ Len(pe) = n
    BY <1>1, PromisesType
<1>3. result[g] = FlattenSeq(FirstOf(pe, n)) \o <<>>
    BY <1>1 DEF Progress
<1> HIDE DEF pe, n
<1>4. n \in 0..Len(pe)
    BY <1>1, <1>2
<1>5. FirstOf(pe, n) = pe
    BY <1>2, <1>4, FirstOfType
<1>6. FlattenSeq(pe) \in Seq(Acts)
    BY <1>2, FlattenType
<1>7. result[g] = FlattenSeq(pe)
    BY <1>3, <1>5, <1>6, ConcatEmptySeq
<1> QED
    BY <1>7 DEF pe

(***************************************************************************)
(* However many callbacks run at once, and whatever entries are configured, *)
(* each returns what its entries promise (mqtt_declarative.go 49-142).     *)
(***************************************************************************)
THEOREM CallbacksKeepPromises == Spec => []CallbackReturns
<1>1. Spec => []TemplateInv
  <2>1. Spec => TemplateSpec
      BY DeclarativeUsesTemplates DEF UsesTemplates
  <2> QED
      BY <2>1, TemplateInvariance, PTL
<1>2. Spec => []LoopInv
    BY <1>1, LoopInitially, LoopInductive, PTL DEF Spec
<1> QED
    BY <1>2, LoopReturns, PTL
=============================================================================
