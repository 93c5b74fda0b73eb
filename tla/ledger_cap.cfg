\* The daily cap as the docs state it, with two daemons and a cap of one.
SPECIFICATION Spec
CONSTANTS
    Daemons = {d1, d2}
    Attempts = {a1, a2, a3}
    Cap = 1
    Day = 2
    Retention = 2
    Bound = 1
    MaxClock = 2
    MaxDamage = 0
    NoAttempt = NoAttempt

INVARIANT DailyCap
