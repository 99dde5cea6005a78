CONSTANTS
    NumEntities = 2
    Map = {10, 11, 20, 30}
    World = {20}
    Big = {30}
    Movie = {100}
    NoMap = 999
    Plan <- PlansHere
    Names = {"screens", "movies", "ahead", "locked", "free", "walk"}
SPECIFICATION LiveSpec
INVARIANT MapShown
PROPERTIES MovieKept OwnCommandServed CommandsEnd
