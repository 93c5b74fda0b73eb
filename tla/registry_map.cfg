\* What a directory mapping promises, without any fault.
SPECIFICATION Spec
CONSTANTS
    Commands = {c1, c2}
    Entries = {a, b}
    Slots = {1, 2}
    Dirs = {d}
    MaxFaults = 0
    NoOne = NoOne
SYMMETRY Symmetry
INVARIANT MappingPromise
