CONSTANTS
    NumEntities = 3
    NumScripts = 7
    NumChars = 1
    MaxAddr = 84
    Kinds0 = {"REQ", "REQSW", "REQEW"}
    Kinds1 = {"REQSW", "REQEW"}
    Levels0 = {1, 2}
    Levels1 = {1, 2, 3}
    Triggers = {"none", "talk target", "talk director", "line"}
    Map <- Given
    Image <- Images
SPECIFICATION Spec
INVARIANTS NoLostWakeup WaitOwner
PROPERTY StackSpec
