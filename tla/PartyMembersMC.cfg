SPECIFICATION Spec
CONSTANTS
    NumChars = 4
    Owner <- Owners
    Pool = {hp}
    MaxPoints = 1
    Full = 1
    Half = 3
    Amounts <- Changes
    GilTop = 7
    Gils = {1, 5}
    Triples <- Demands
    Listed = {2}
    Plans <- AllPlans
INVARIANTS
    OnceEach
PROPERTIES
    CopiesAgree
    LeaderKept
    OnlyTheirs
