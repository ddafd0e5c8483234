---------------------------- MODULE TemplateCache ----------------------------
(***************************************************************************)
(* ExecuteTemplate of pkg/config/template.go, called by any number of      *)
(* goroutines.  A template draws random numbers from the generator its     *)
(* functions are bound to; generators come from rngPool and are not safe   *)
(* for concurrent use.  A parsed template is kept in templateCache, which  *)
(* is locked for each look and not over the parse in between.  The one     *)
(* whose template is stored executes the stored object itself; every       *)
(* other caller executes a copy that it has bound to its own generator.    *)
(***************************************************************************)
CONSTANTS
    Callers,     \* goroutines that call ExecuteTemplate
    Texts,       \* the texts of templates, but for the empty one
    Malformed,   \* those that do not parse
    Failing,     \* those that parse, and whose execution returns an error
    Generators,  \* bound: the random generators rngPool can hand out or make
    None

ASSUME TemplateAssumption ==
    /\ Malformed \subseteq Texts
    /\ Failing \subseteq Texts
    /\ None \notin Generators \union Texts

VARIABLES
    cache,    \* templateCache: the generator the stored template is bound to
    out,      \* the generators that Get handed out and Put has not taken back
    pc,       \* where each caller is in ExecuteTemplate
    text,     \* tmpl
    rng,      \* rng
    private,  \* the generator of the caller's own template or copy; None when
              \* it has none, or has put it in the cache
    outcome   \* what its last call returned

templateVars == <<cache, out, pc, text, rng, private, outcome>>

TemplateTypeOK ==
    /\ cache \in [Texts -> Generators \union {None}]
    /\ out \subseteq Generators
    /\ pc \in [Callers -> {"idle", "look", "clone", "parse", "store", "execute", "returned"}]
    /\ text \in [Callers -> Texts \union {None}]
    /\ rng \in [Callers -> Generators \union {None}]
    /\ private \in [Callers -> Generators \union {None}]
    /\ outcome \in [Callers -> {"none", "ok", "error"}]

TemplateInit ==
    /\ cache = [s \in Texts |-> None]
    /\ out = {}
    /\ pc = [g \in Callers |-> "idle"]
    /\ text = [g \in Callers |-> None]
    /\ rng = [g \in Callers |-> None]
    /\ private = [g \in Callers |-> None]
    /\ outcome = [g \in Callers |-> "none"]

Goto(g, l) == pc' = [pc EXCEPT ![g] = l]

\* A text that is not empty: take a generator.  The pool may give one that
\* was put back or make a new one.
Call(g, s) ==
    /\ pc[g] = "idle"
    /\ \E r \in Generators \ out :
           /\ out' = out \union {r}
           /\ rng' = [rng EXCEPT ![g] = r]
    /\ text' = [text EXCEPT ![g] = s]
    /\ Goto(g, "look")
    /\ UNCHANGED <<cache, private, outcome>>

\* The deferred Put, and the return.
PutAndReturn(g, o) ==
    /\ out' = out \ {rng[g]}
    /\ text' = [text EXCEPT ![g] = None]
    /\ rng' = [rng EXCEPT ![g] = None]
    /\ private' = [private EXCEPT ![g] = None]
    /\ outcome' = [outcome EXCEPT ![g] = o]
    /\ Goto(g, "returned")

\* The first look into the cache.
LookUp(g) ==
    /\ pc[g] = "look"
    /\ Goto(g, IF cache[text[g]] = None THEN "parse" ELSE "clone")
    /\ UNCHANGED <<cache, out, text, rng, private, outcome>>

\* Mutant: the functions of the stored template are replaced, not a copy's.
CloneInPlace(g) ==
    /\ pc[g] = "clone"
    /\ cache' = [cache EXCEPT ![text[g]] = rng[g]]
    /\ Goto(g, "execute")
    /\ UNCHANGED <<out, text, rng, private, outcome>>
\* Mutant: the copy keeps the functions of the stored template.
CloneUnbound(g) ==
    /\ pc[g] = "clone"
    /\ private' = [private EXCEPT ![g] = cache[text[g]]]
    /\ Goto(g, "execute")
    /\ UNCHANGED <<cache, out, text, rng, outcome>>
\* Outside the lock: a copy of the stored template, bound to the caller's
\* generator.
Clone(g) ==
    /\ pc[g] = "clone"
    /\ private' = [private EXCEPT ![g] = rng[g]]
    /\ Goto(g, "execute")
    /\ UNCHANGED <<cache, out, text, rng, outcome>>

ParseFails(g) ==
    /\ pc[g] = "parse"
    /\ text[g] \in Malformed
    /\ PutAndReturn(g, "error")
    /\ UNCHANGED cache

Parse(g) ==
    /\ pc[g] = "parse"
    /\ text[g] \notin Malformed
    /\ private' = [private EXCEPT ![g] = rng[g]]
    /\ Goto(g, "store")
    /\ UNCHANGED <<cache, out, text, rng, outcome>>

\* The second look: store the template, whose object the caller then shares
\* with the cache, unless another caller was first.
Store(g) ==
    /\ pc[g] = "store"
    /\ private' = [private EXCEPT ![g] = None]
    /\ IF cache[text[g]] = None
       THEN /\ cache' = [cache EXCEPT ![text[g]] = private[g]]
            /\ Goto(g, "execute")
       ELSE /\ Goto(g, "clone")
            /\ UNCHANGED cache
    /\ UNCHANGED <<out, text, rng, outcome>>

\* Execution, and its error if a function panics or a field is missing.
Execute(g) ==
    /\ pc[g] = "execute"
    /\ PutAndReturn(g, IF text[g] \in Failing THEN "error" ELSE "ok")
    /\ UNCHANGED cache

\* The caller goes on.
Resume(g) ==
    /\ pc[g] = "returned"
    /\ Goto(g, "idle")
    /\ outcome' = [outcome EXCEPT ![g] = "none"]
    /\ UNCHANGED <<cache, out, text, rng, private>>

\* A step inside ExecuteTemplate.
TemplateStep(g) ==
    \/ LookUp(g)
    \/ Clone(g)
    \/ ParseFails(g)
    \/ Parse(g)
    \/ Store(g)
    \/ Execute(g)

TemplateNext ==
    \E g \in Callers :
        \/ \E s \in Texts : Call(g, s)
        \/ TemplateStep(g)
        \/ Resume(g)

TemplateSpec == TemplateInit /\ [][TemplateNext]_templateVars
-----------------------------------------------------------------------------
\* The callers that may be drawing numbers, and the generator each draws from.
Executing == {g \in Callers : pc[g] = "execute"}
Drawing(g) == IF private[g] = None THEN cache[text[g]] ELSE private[g]

(***************************************************************************)
(* No generator is used by two goroutines at once, nor used while rngPool  *)
(* could hand it to another: each draws from the one it took, whoever      *)
(* parsed the template it executes.                                        *)
(***************************************************************************)
GeneratorsApart ==
    /\ \A g \in Executing : Drawing(g) \in out
    /\ \A g, h \in Executing : g # h => Drawing(g) # Drawing(h)

(***************************************************************************)
(* A stored template is never changed or replaced: others copy it without  *)
(* the lock.                                                               *)
(***************************************************************************)
CacheStable ==
    [][\A s \in Texts : cache[s] # None => cache'[s] = cache[s]]_cache

\* What holds between the callers, the cache and the generators.
InCall(g) == pc[g] \in {"look", "clone", "parse", "store", "execute"}
TemplateInv ==
    /\ TemplateTypeOK
    \* A caller holds a generator of its own, and a text, from Call to Put.
    /\ \A g \in Callers : InCall(g) => rng[g] \in out /\ text[g] \in Texts
    /\ \A g, h \in Callers : InCall(g) /\ InCall(h) /\ rng[g] = rng[h] => g = h
    \* Its private template is bound to that generator.
    /\ \A g \in Callers : private[g] # None => InCall(g) /\ private[g] = rng[g]
    \* Between its two looks the template is parsed and not yet in the cache.
    /\ \A g \in Callers : pc[g] = "store" => private[g] # None /\ text[g] \notin Malformed
    \* One caller at most executes a stored template itself: it bound it.
    /\ \A g \in Executing : private[g] = None => cache[text[g]] = rng[g]
    \* What is stored parses.
    /\ \A g \in Callers : pc[g] = "clone" => cache[text[g]] # None
    /\ \A s \in Malformed : cache[s] = None
=============================================================================
