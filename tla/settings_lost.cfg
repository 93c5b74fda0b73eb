\* The same, without edits by hand.
SPECIFICATION Spec
CONSTANTS
    policy = policy
    days = days
    threshold = threshold
    reset = reset
    autoswitch = autoswitch
    Commands = {p1, p2}
    Keys = {policy, days, threshold}
    Groups = {reset, autoswitch}
    GroupOf <- Sections
    Values = {v1}
    Absent = Absent
    Bad = Bad
    ByHand <- Plausible
    MaxEdits = 0
SYMMETRY CommandSymmetry
INVARIANT ChangesSurvive
