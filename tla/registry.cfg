\* Two entries in two slots, two commands, two mapped directories, two faults.
SPECIFICATION Spec
CONSTANTS
    Commands = {c1, c2}
    Entries = {a, b}
    Slots = {1, 2}
    Dirs = {d1, d2}
    MaxFaults = 2
    NoOne = NoOne
SYMMETRY Symmetry
INVARIANTS
    TypeOK
    RegistryLoads
PROPERTIES
    CredentialsSurvive
    ImplementsTable
