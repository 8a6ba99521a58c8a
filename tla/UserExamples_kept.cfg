CONSTANTS
    Slots = {s1, s2}
    Users = {ana, root}
    Admins = {root}
    Ids = {e1, e2}
    Names = {map}
    NoDef = NoDef
    NoUser = NoUser
    Free = Free
    MaxExamples = 1
    MaxEdits = 2
    MaxTokens = 1
    MaxFaults = 1
SPECIFICATION Spec
SYMMETRY Symmetry
INVARIANTS TypeOK FilesBackDefinition ApprovedAtRest LinkKept
CHECK_DEADLOCK FALSE
