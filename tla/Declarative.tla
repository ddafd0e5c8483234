----------------------------- MODULE Declarative -----------------------------
(***************************************************************************)
(* The declarative behaviour of pkg/behavior/mqtt_declarative.go: OnConnect, *)
(* OnMessage and OnTick turn the entries of the configuration into         *)
(* actions, rendering each text with ExecuteTemplate.  One behaviour       *)
(* serves all clients, so the callbacks of many clients run at once, and   *)
(* meet in the template cache: the callers of TemplateCache are these      *)
(* callbacks.                                                              *)
(*                                                                         *)
(* An entry is [does |-> a function from the kinds of action it has to the *)
(* texts each renders, in order, interval |-> an integer].                 *)
(***************************************************************************)
EXTENDS TemplateCache, Integers, SequencesExt

CONSTANTS
    OnConnect, OnMessage, OnTimer,   \* the configured entries, sequences
    Empty,                           \* the empty text
    MaxTicks                         \* bound: ticks 1..MaxTicks of the engine

\* The fields of an entry in the order in which the code looks at them.
FieldOrder == <<"subscribe", "send", "unsubscribe", "disconnect">>
Event(source, n) == [source |-> source, tick |-> n]
Events == {Event("connect", 0), Event("message", 0)} \union {Event("tick", n) : n \in 1..MaxTicks}

EntryOK(a) ==
    /\ DOMAIN a.does \subseteq Range(FieldOrder)
    /\ \A k \in DOMAIN a.does : a.does[k] \in Seq(Texts \union {Empty})
    /\ a.interval \in Int

ASSUME DeclarativeAssumption ==
    /\ Empty \notin Texts \union {None}
    /\ MaxTicks \in Nat
    /\ None \notin Events
    /\ \A as \in {OnConnect, OnMessage, OnTimer} :
           as \in Seq(Range(as)) /\ \A a \in Range(as) : EntryOK(a)

VARIABLES
    event,      \* what each caller's callback was called for, or None
    entry,      \* the entry its loop has come to ...
    field,      \* ... and the field of that entry, by its place in FieldOrder
    rendered,   \* how many texts of that field are rendered
    result      \* the actions it will return

cursorVars == <<entry, field, rendered>>
behaviorVars == <<event, cursorVars, result>>
declarativeVars == <<templateVars, behaviorVars>>

\* An interval that is not positive counts as 1.
Interval(a) == IF a.interval <= 0 THEN 1 ELSE a.interval

\* The entries that a callback goes through, and those it passes over.
EntriesFor(e) ==
    CASE e.source = "connect" -> OnConnect
      [] e.source = "message" -> OnMessage
      [] e.source = "tick" -> OnTimer
Passed(e, a) == e.source = "tick" /\ e.tick % Interval(a) # 0

Init ==
    /\ TemplateInit
    /\ event = [g \in Callers |-> None]
    /\ entry = [g \in Callers |-> 1]
    /\ field = [g \in Callers |-> 1]
    /\ rendered = [g \in Callers |-> 0]
    /\ result = [g \in Callers |-> <<>>]

\* A callback begins, in the goroutine of a client or of a tick.
Begin(g, e) ==
    /\ event[g] = None
    /\ event' = [event EXCEPT ![g] = e]
    /\ UNCHANGED <<cursorVars, result, templateVars>>

\* The entry and the field that the callback is at, if it is at one.
InLoop(g) == event[g] # None /\ entry[g] <= Len(EntriesFor(event[g]))
Current(g) == EntriesFor(event[g])[entry[g]]
Kind(g) == FieldOrder[field[g]]
HasField(g) == InLoop(g) /\ ~Passed(event[g], Current(g)) /\ Kind(g) \in DOMAIN Current(g).does

NextEntry(g) ==
    /\ entry' = [entry EXCEPT ![g] = @ + 1]
    /\ field' = [field EXCEPT ![g] = 1]
    /\ rendered' = [rendered EXCEPT ![g] = 0]
NextField(g) ==
    IF field[g] = Len(FieldOrder)
    THEN NextEntry(g)
    ELSE /\ field' = [field EXCEPT ![g] = @ + 1]
         /\ rendered' = [rendered EXCEPT ![g] = 0]
         /\ UNCHANGED entry

\* A field that the entry does not have, or an entry that is not due.
PassBy(g) ==
    /\ InLoop(g) /\ ~HasField(g)
    /\ IF Passed(event[g], Current(g)) THEN NextEntry(g) ELSE NextField(g)
    /\ UNCHANGED <<event, result, templateVars>>

\* The next text of the field, if it has one left.
HasText(g) == HasField(g) /\ rendered[g] < Len(Current(g).does[Kind(g)])
NextText(g) == Current(g).does[Kind(g)][rendered[g] + 1]

\* ExecuteTemplate returns the empty text at once.
RenderEmpty(g) ==
    /\ pc[g] = "idle" /\ HasText(g)
    /\ NextText(g) = Empty
    /\ rendered' = [rendered EXCEPT ![g] = @ + 1]
    /\ UNCHANGED <<event, entry, field, result, templateVars>>

Render(g) ==
    /\ HasText(g)
    /\ NextText(g) \in Texts
    /\ Call(g, NextText(g))
    /\ UNCHANGED behaviorVars

RenderOK(g) ==
    /\ outcome[g] = "ok"
    /\ Resume(g)
    /\ rendered' = [rendered EXCEPT ![g] = @ + 1]
    /\ UNCHANGED <<event, entry, field, result>>

\* Mutant: an error ends the callback with what it has.
RenderFailsReturn(g) ==
    /\ outcome[g] = "error"
    /\ Resume(g)
    /\ entry' = [entry EXCEPT ![g] = Len(EntriesFor(event[g])) + 1]
    /\ field' = [field EXCEPT ![g] = 1]
    /\ rendered' = [rendered EXCEPT ![g] = 0]
    /\ UNCHANGED <<event, result>>
\* An error is logged and leaves the entry: what it has appended stays, the
\* rest of it is skipped.
RenderFails(g) ==
    /\ outcome[g] = "error"
    /\ Resume(g)
    /\ NextEntry(g)
    /\ UNCHANGED <<event, result>>

\* All texts of the field are rendered: append its action.
Action(a, kind) == [kind |-> kind, texts |-> a.does[kind]]
Emit(g) ==
    /\ HasField(g) /\ ~HasText(g)
    /\ result' = [result EXCEPT ![g] = Append(@, Action(Current(g), Kind(g)))]
    /\ NextField(g)
    /\ UNCHANGED <<event, templateVars>>

\* The callback returns its actions, and another may begin.
Done(g) == event[g] # None /\ ~InLoop(g)
Return(g) ==
    /\ Done(g)
    /\ event' = [event EXCEPT ![g] = None]
    /\ entry' = [entry EXCEPT ![g] = 1]
    /\ result' = [result EXCEPT ![g] = <<>>]
    /\ UNCHANGED <<field, rendered, templateVars>>

Next ==
    \E g \in Callers :
        \/ \E e \in Events : Begin(g, e)
        \/ PassBy(g)
        \/ RenderEmpty(g)
        \/ Render(g)
        \/ TemplateStep(g) /\ UNCHANGED behaviorVars
        \/ RenderOK(g)
        \/ RenderFails(g)
        \/ Emit(g)
        \/ Return(g)

Spec == Init /\ [][Next]_declarativeVars

\* What the callbacks make of the template cache.
UsesTemplates == TemplateSpec
-----------------------------------------------------------------------------
\* Whether a text cannot be rendered, and whether an entry has such a text in
\* one of its first j fields.
Broken(s) == s \in Malformed \union Failing
BreaksBy(a, j) ==
    \E i \in 1..j : FieldOrder[i] \in DOMAIN a.does
                    /\ \E n \in DOMAIN a.does[FieldOrder[i]] : Broken(a.does[FieldOrder[i]][n])

\* The actions of an entry that come before the first such text.
PromisedFields(a) ==
    [j \in DOMAIN FieldOrder |->
        IF FieldOrder[j] \in DOMAIN a.does /\ ~BreaksBy(a, j)
        THEN <<Action(a, FieldOrder[j])>>
        ELSE <<>>]
Promised(a) == FlattenSeq(PromisedFields(a))

\* The entries for tick n are those whose interval divides n.
Due(e, a) == e.source = "tick" => a.interval <= 1 \/ \E k \in 1..e.tick : k * a.interval = e.tick

PromisedEntries(e) ==
    LET as == EntriesFor(e)
    IN  [i \in DOMAIN as |-> IF Due(e, as[i]) THEN Promised(as[i]) ELSE <<>>]

(***************************************************************************)
(* A callback returns what it would return alone, however many others run  *)
(* beside it: the actions of the event's entries in the configured order,  *)
(* where a text that cannot be rendered costs its own entry the actions    *)
(* from there on and costs the other entries nothing.                      *)
(***************************************************************************)
CallbackReturns == \A g \in Callers : Done(g) => result[g] = FlattenSeq(PromisedEntries(event[g]))
=============================================================================
