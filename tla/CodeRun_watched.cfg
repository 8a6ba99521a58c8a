CONSTANTS
    Modes = {"off", "observe", "interrupt"}
    Timeout = 2
    Grace = 0
    ReviewAfter = 0
    Floor = 1
    MaxTime = 2
    Setups <- MCSetups
    Calls = {1, 2}
    Args = {"roads"}
    What <- MCWhat
    Kind <- MCKind
    Size <- MCSize
    Maps <- MCMaps
    NoCall = 0
    MaxCalls = 1
    MaxFetches = 1
    MaxRaw = 1
    MaxBytes = 1
    Region <- MCRegion
    Page = 2
    MaxTiles = 10
    FeatureCap = 3
SPECIFICATION BridgeSpec
INVARIANTS StopJustified NoneLeft AnswersOnRecord CompleteMeansAll LateAreRefused
PROPERTIES RunEnds KeepsCalls
CHECK_DEADLOCK FALSE
