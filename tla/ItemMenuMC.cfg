SPECIFICATION Spec
CONSTANTS
    Ids <- MCIds
    Places = 5
    Cap = 2
    Amounts = {0, 1}
    Depth = 3
    NameOrder <- MCNameOrder
    Flagged <- MCFlagged
    Modes = {"type", "name", "most", "least", "field", "battle"}
    Kinds <- MCKinds
    Worth <- MCWorth
    Pockets = 2
    Loot = 2
    LastChar = 2
    Basic <- MCBasic
    Heroes = {0}
    Seen = {0, 1}
    PerGear = 2
    Slots <- MCSlots
    Aside = 1
    Plans <- MCPlans
    None = None
INVARIANTS Arranged
PROPERTIES BagSpec ArrangeEnds PiecesKept TakesBest
