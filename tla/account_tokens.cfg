SPECIFICATION Spec
CONSTANTS
    t1 = t1
    t2 = t2
    Token = {t1, t2}
    Writer = {w1, w2}
    Listing <- MCListing
    MaxId = 3
    Nil = Nil
INVARIANTS TypeOK DefaultsBounded SerialTokens
PROPERTIES SavedIsStored
