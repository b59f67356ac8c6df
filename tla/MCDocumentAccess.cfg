SPECIFICATION FairSpec
CONSTANTS
    d1 = d1
    d2 = d2
    p1 = p1
    p2 = p2
    q = q
    stray = stray
    law = law
    NoDoc = nodoc
    Docs <- MCDocs
    Tables <- MCTables
    MaxChanges = 2
    DotSegments = {d2}
    Cap = 2
    MaxSize = 3
    MaxKills = 1
    FamilyPoints <- MCFamily
    LawPoints = {law}
    DocOf <- MCDocOf
    Labellings <- MCLabellings
    TopK = 3
INVARIANTS
    FileWasOpen
    PassagesWereOpen
    AllOrNoneOfDocument
    ConnectionsClosed
    OrderlyEndIsWhole
PROPERTIES
    FileEnds
