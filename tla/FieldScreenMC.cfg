SPECIFICATION FairSpec
CONSTANTS
    pc = pc
    npc = npc
    none = none
    a = a
    b = b
    Scripts = {a, b}
    Models = {pc, npc}
    Player = pc
    NoModel = none
    Rolls = {100, 255}
    FadeEnd = 3
    MaxMaps = 2
    Plans <- PlansHere
INVARIANT StepsAreCounted
PROPERTIES CameraStands ScriptsEnd ShakeRests
CHECK_DEADLOCK FALSE
