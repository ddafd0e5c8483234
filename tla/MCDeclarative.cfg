SPECIFICATION Spec
CONSTANTS
    good = good
    bad = bad
    fails = fails
    None = None
    Empty = Empty
    Callers = {g1, g2}
    Generators = {r1, r2, r3}
    Texts <- MCTexts
    Malformed <- MCMalformed
    Failing <- MCFailing
    OnConnect <- MCOnConnect
    OnMessage <- MCOnMessage
    OnTimer <- MCOnTimer
    MaxTicks = 6
INVARIANTS GeneratorsApart CallbackReturns
PROPERTIES CacheStable
