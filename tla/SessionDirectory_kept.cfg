CONSTANTS
    t1 = t1
    t2 = t2
    t3 = t3
    Turns <- MCTurns
    Convs = {a}
    Files = {"map"}
    NoOne = NoOne
    MaxEdits = 2
    Mishaps = {"crash", "outlive", "overrun", "expiry"}
    MaxMishaps = 2
SPECIFICATION Spec
SYMMETRY Symmetry
INVARIANTS TypeOK Exclusive NeverWithheld
PROPERTY SentOnce
CHECK_DEADLOCK FALSE
