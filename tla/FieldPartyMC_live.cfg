CONSTANTS
    NumEntities = 4
    NumScripts = 7
    NumChars = 3
    MaxAddr = 140
    Drivers = {0}
    Directions = {"reqew"}
    Parties = {"two"}
    Map <- Given
    Image <- Images
SPECIFICATION LiveSpec
PROPERTIES EveryWaitAnswered GatheringEnds
