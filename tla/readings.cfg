\* Two accounts, one of them without an id, two slots, two commands.
SPECIFICATION Spec
CONSTANTS
    Commands = {c1, c2}
    plain = plain
    nameless = nameless
    Accounts = {plain, nameless}
    Anonymous = {nameless}
    Names <- SomeNames
    Slots = {1, 2}
    Enrolled <- SomeEnrolled
    MaxCredits = 1
    MaxChanges = 1
    NoAccount = NoAccount
SYMMETRY Symmetry
INVARIANTS
    TypeOK
    ShownIsOwn
    ResetIsSeen
PROPERTIES
    SpentAsDecided
CHECK_DEADLOCK FALSE
