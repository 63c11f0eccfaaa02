CONSTANTS
    Desks = {d1}
    Phones = {p1, p2}
    Sources = {s1}
    MaxTokens = 1
    CodeTtl = 1
    TokenTtl = 2
    Window = 2
    ClaimLimit = 1
    MaxCodes = 2
    MaxClock = 5
SPECIFICATION Spec
SYMMETRY Alike
INVARIANTS CodePairsOnce CeilingHolds
 
CHECK_DEADLOCK FALSE
