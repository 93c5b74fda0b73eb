\* Two daemons, two ordinary accounts, no credits.
SPECIFICATION Spec
CONSTANTS
    Threshold = 80
    Hysteresis = 10
    MinUsage = 75
    ExpiryDays = 3
    NoExpiry = 99
    Daemons = {d1, d2}
    Slots = {1, 2}
    Keys = {}
    Levels = {70, 80}
    CreditSets <- NoCredits
    PolicyValues = {"never"}
    StrategyValues = {"best"}
    CooldownTime = 2
    UnhealthyTicks = 2
    MaxAge = 1
    MaxSwaps = 0
SYMMETRY DaemonSymmetry
INVARIANT CooldownPauses
