\* One list that shifts by an item between two pages.
SPECIFICATION Spec
CONSTANTS
    a = a
    b = b
    c = c
    junk = junk
    huge = huge
    bad = bad
    entities = entities
    documents = documents
    holdings = holdings
    Nobody = Nobody
    Services = {documents}
    Connected = {documents}
    Paged = {documents}
    Bare = {}
    Untotalled = {}
    Overflowing = {}
    Skipping = {documents}
    Getting = {}
    Items = {a, b, c}
    Malformed = {}
    Junk = {}
    Huge = {}
    Lists <- MCShifted
    PageSize = 1
    MaxPages = 3
    MaxRetries = 1
    MaxRuns = 2
    MaxChanges = 1
    MaxFaults = 1
PROPERTY NeverPartial
