\* Two daemons, a cap of one, three attempts; a day is two ticks of the clock.
SPECIFICATION Spec
CONSTANTS
    Daemons = {d1, d2}
    Attempts = {a1, a2, a3}
    Cap = 1
    Day = 2
    Retention = 2
    Bound = 1
    MaxClock = 2
    MaxDamage = 1
    NoAttempt = NoAttempt
SYMMETRY Symmetry
INVARIANTS
    TypeOK
    SpendOnRecord
    OvershootBounded
    RefusalEnds
PROPERTIES
    GrantWithinCap
    SettledIsFinal
