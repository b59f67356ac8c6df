\* Two documents, every kind of file, two changes and one failing call.
SPECIFICATION FairSpec
CONSTANTS
    Missing = Missing
    Odd = Odd
    Blank = Blank
    Garbage = Garbage
    Absent = Absent
    NoPoint = NoPoint
    NotRead = NotRead
    letter = letter
    tax = tax
    hash = hash
    one = one
    two = two
    TaxNames = {tax}
    Documents = {1, 2}
    Files <- MCFiles
    Models = {m1, m2}
    m1 = m1
    m2 = m2
    BatchSize = 1
    GuardMin = 1
    MaxChanges = 2
    MaxFaults = 1
INVARIANTS HandledIsExact ConsentFailsClosed
PROPERTIES NeverNone SweepKeepsMost CatchesUp
