CONSTANTS
    Threads = {x, y}
    Models = {m, n}
    MaxMoves = 2
    MaxFaults = 1
    MaxRestarts = 1
    MaxChanges = 1
    Workers = 1
SPECIFICATION Spec
INVARIANTS TypesOK RestartKeepsSide
PROPERTIES SettlesOnSide VerdictsRefresh
CHECK_DEADLOCK FALSE
