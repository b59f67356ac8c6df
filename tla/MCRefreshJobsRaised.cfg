\* An item that is not an object among the entities; holdings are not connected.
SPECIFICATION Spec
CONSTANTS
    a = a
    b = b
    c = c
    junk = junk
    huge = huge
    bad = bad
    entities = entities
    documents = documents
    holdings = holdings
    Nobody = Nobody
    Services = {entities, holdings}
    Connected = {entities}
    Paged = {entities}
    Bare = {holdings}
    Untotalled = {}
    Overflowing = {}
    Skipping = {}
    Getting = {entities}
    Items = {a, b, junk}
    Malformed = {}
    Junk = {junk}
    Huge = {}
    Lists <- MCRaised
    PageSize = 1
    MaxPages = 2
    MaxRetries = 1
    MaxRuns = 2
    MaxChanges = 1
    MaxFaults = 1
PROPERTY EveryErrorRecorded
