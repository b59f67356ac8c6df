\* Two services; the list of one can change while it is read, the other has no total.
SPECIFICATION FairSpec
CONSTANTS
    a = a
    b = b
    c = c
    junk = junk
    huge = huge
    bad = bad
    entities = entities
    documents = documents
    holdings = holdings
    Nobody = Nobody
    Services = {entities, documents}
    Connected = {entities, documents}
    Paged = {entities, documents}
    Bare = {documents}
    Untotalled = {documents}
    Overflowing = {entities}
    Skipping = {documents}
    Getting = {entities}
    Items = {a, b, huge, bad}
    Malformed = {bad}
    Junk = {}
    Huge = {huge}
    Lists <- MCLists
    PageSize = 1
    MaxPages = 2
    MaxRetries = 1
    MaxRuns = 2
    MaxChanges = 1
    MaxFaults = 1
INVARIANTS LogTellsCache
PROPERTIES NeverBackwards SteadyWhole WholeOrUntouched LockFreed StopCompletes
