\* One daemon, two ordinary accounts and an API key; percentages at the edges.
SPECIFICATION Spec
CONSTANTS
    Threshold = 80
    Hysteresis = 10
    MinUsage = 75
    ExpiryDays = 3
    NoExpiry = 99
    Daemons = {d1}
    Slots = {1, 2, 3}
    Keys = {3}
    Levels = {70, 75, 80}
    CreditSets <- SomeCredits
    PolicyValues = {"expiring", "exhausted", "always"}
    StrategyValues = {"best", "next-available"}
    CooldownTime = 2
    UnhealthyTicks = 2
    MaxAge = 1
    MaxSwaps = 1
INVARIANTS
    TypeOK
    CooldownPauses
    FailuresAreConsecutive
    HysteresisHolds
    NoSpendOnAGuess
    KeysComeLast
