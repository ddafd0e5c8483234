SPECIFICATION FairSpec
CONSTANTS
    Numeral <- MCNumeral
    Fleet <- MCFleet
    Configs <- MCConfigs
    IQs <- MCIQs
    MaxMessages = 1
    MaxTicks = 2
    MaxLosses = 1
INVARIANTS ActionsSpeak WireValid NoneRefused BootAnswerable AnswersReachAsker InformSaysWhy
PROPERTIES PeriodicOnTime SignalEnds
