\* Two users at one slot; the first can post twice.
SPECIFICATION Spec
CONSTANTS
    u1 = u1
    u2 = u2
    r1 = r1
    r2 = r2
    r3 = r3
    Nobody = Nobody
    Users = {u1, u2}
    Requests = {r1, r2, r3}
    UserOf <- MCUserOf
    Minute = 2
    Hour = 5
    Abandoned = 3
    SweepInterval = 2
    PerMinute = 1
    PerHour = 2
    ChatSlots = 1
    WorkTime = 1
    MaxTime = 5
INVARIANTS OneInFlight WorkWithinQuota WaitExact SlotsAccounted
SYMMETRY MCPosts
