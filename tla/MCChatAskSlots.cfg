\* The first user posts twice; the first post stalls while it is read.
SPECIFICATION Spec
CONSTANTS
    u1 = u1
    u2 = u2
    r1 = r1
    r2 = r2
    r3 = r3
    Nobody = Nobody
    Users = {u1, u2}
    Requests = {r1, r2, r3}
    UserOf <- MCUserOf
    Minute = 2
    Hour = 4
    Abandoned = 3
    SweepInterval = 2
    PerMinute = 1
    PerHour = 2
    ChatSlots = 2
    WorkTime = 1
    MaxTime = 5
INVARIANT OneModelSlotEach
