----------------------------- MODULE MCDeclarative -----------------------------
(***************************************************************************)
(* An instance of Declarative for TLC: a text that renders, one that does  *)
(* not parse and one whose execution fails, in entries of several actions. *)
(***************************************************************************)
EXTENDS Declarative

CONSTANTS good, bad, fails

MCTexts == {good, bad, fails}
MCMalformed == {bad}
MCFailing == {fails}

Entry(does, n) == [does |-> does, interval |-> n]
MCOnConnect ==
    <<Entry([subscribe |-> <<good>>, send |-> <<good, bad>>, disconnect |-> <<>>], 0),
      Entry([send |-> <<good, Empty>>, unsubscribe |-> <<fails>>], 0)>>
MCOnMessage == <<Entry([send |-> <<good, good>>, disconnect |-> <<>>], 0)>>
MCOnTimer ==
    <<Entry([send |-> <<fails, good>>], -1),
      Entry([unsubscribe |-> <<good>>], 2),
      Entry([subscribe |-> <<bad>>, unsubscribe |-> <<good>>], 3)>>
=============================================================================
