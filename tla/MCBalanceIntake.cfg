SPECIFICATION Spec
CONSTANTS
    AllGroups = {"fo-admin", "fo-viewer"}
    SettingsRead <- MCSettings
    NoKey = NoKey
    MinSecret = 2
    MinKey = 2
    Calls <- MCCalls
    Lifetime = 2
    Leeway = 2
    MaxSkew = 1
    MaxTransit = 1
    MaxNow = 5
    Posts <- MCPosts
    Blank = Blank
    NoLength = NoLength
    NotInt = NotInt
    Garbage = Garbage
    Nothing = Nothing
    Cap = 2
    MaxChunk = 2
    MaxRows = 2
INVARIANTS
    GenuineServed
    HandlersGuarded
    KeyBeforeBody
    AnswerTells
PROPERTIES
    RevokedInTime
CHECK_DEADLOCK FALSE
