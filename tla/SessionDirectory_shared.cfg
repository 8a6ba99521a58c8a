CONSTANTS
    t1 = t1
    t2 = t2
    t3 = t3
    Turns <- MCTurns
    Convs = {a}
    Files = {"map"}
    NoOne = NoOne
    MaxEdits = 2
    Mishaps = {"crash"}
    MaxMishaps = 1
SPECIFICATION Spec
INVARIANT OneRunPerDirectory
CHECK_DEADLOCK FALSE
