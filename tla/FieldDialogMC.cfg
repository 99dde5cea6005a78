CONSTANTS
    NumEntities = 2
    NumWindows = 2
    Message = {"long", "timed", "rows", "short"}
    Text <- Texts
    Plan <- PlansHere
    CountSize = 8
    Rows = 2
    ScrollSteps = 2
    FastStep = 2
    PauseTime = 1
    Undefined = {FALSE, TRUE}
    MaxDepth = 2
    MaxTalks = 1
    Names = {"share", "mode", "own", "reset"}
SPECIFICATION LiveSpec
INVARIANTS OwnerPolls
PROPERTIES WindowKept ReadToEnd WindowsClose
