SPECIFICATION FairSpec
CONSTANTS
    EmbedBatch = 2
    MaxAttempts = 2
    MaxDelay = 2
    RetryAfters = {0, 3}
    Texts = {"a", "b", "c", "d"}
    Short = "short"
    Subtopics = {1, 2, 3, 4, 5}
    Garbage = Garbage
    KnowledgeBases <- MCKnowledgeBases
    Blank = "blank"
    NoPoint = NoPoint
    UpsertBatch = 2
    GuardMin = 2
INVARIANTS RepairNotRefused
PROPERTIES ExitTells KeptStayFindable RunKeepsMost RunEnds CatchesUp
CHECK_DEADLOCK FALSE
