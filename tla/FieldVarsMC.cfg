SPECIFICATION Spec
CONSTANTS
    Bits = 3
    Base = 8
    Root = 2
    Page = 2
    RandomTable <- Table
    Programs <- ProgramsHere
    Kinds = {"sums", "products", "bits", "words", "caps", "quotients", "halves", "numbers", "strays", "search", "random", "tests"}
PROPERTIES NeverWraps OneVariable FoundIsFirst
CHECK_DEADLOCK FALSE
