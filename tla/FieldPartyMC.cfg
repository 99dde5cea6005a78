CONSTANTS
    NumEntities = 4
    NumScripts = 7
    NumChars = 3
    MaxAddr = 140
    Drivers = {0, 1}
    Directions = {"ask", "halt", "preq", "prqew", "prtye", "retto", "swap"}
    Parties = {"two", "back"}
    Map <- Given
    Image <- Images
SPECIFICATION Spec
INVARIANTS MainKept LockHasHolder
PROPERTIES FrozenIsLet WalkKept
