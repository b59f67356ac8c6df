\* One document that turns out to be a tax return, and one failing call.
SPECIFICATION Spec
CONSTANTS
    Missing = Missing
    Odd = Odd
    Blank = Blank
    Garbage = Garbage
    Absent = Absent
    NoPoint = NoPoint
    NotRead = NotRead
    letter = letter
    tax = tax
    hash = hash
    one = one
    two = two
    TaxNames = {tax}
    Documents = {1}
    Files <- MCMixed
    Models = {m1, m2}
    m1 = m1
    m2 = m2
    BatchSize = 1
    GuardMin = 1
    MaxChanges = 2
    MaxFaults = 1
INVARIANT UnreadableTaxGone
