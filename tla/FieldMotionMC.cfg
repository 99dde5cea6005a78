SPECIFICATION FairSpec
CONSTANTS
    LastBody = 1
    Far = 5
    Yard = {0, 1, 2}
    Stride = 1
    Reach = 1
    Short = 2
    Rung = 2
    FullTurn = 4
    StepLimit = 5
    MaxSteps = 3
    AnimLast <- AnimLasts
    OpsPerTurn = 2
    MaxDepth = 2
    MaxAsks = 1
    MayBlock = {1}
    Maps <- MapsHere
    Names = {"walk", "meet", "fix", "jump", "climb", "turn", "face", "shift", "play", "loop", "part", "lock", "swap"}
INVARIANTS MoveOwned EndsWhereAsked
PROPERTIES OrdersEnd
