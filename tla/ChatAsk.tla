------------------------------- MODULE ChatAsk -------------------------------
(***************************************************************************)
(* Questions to the chat panel: the per-user limiter (app/chat/limits.py), *)
(* the steps of one question (app/routes/chat.py, app/chat/service.py) and *)
(* the two slots of the model service (app/chat/client.py).  Everything    *)
(* runs on one event loop, so a step ends where the code awaits.  A        *)
(* question can stall while its form is read and can be cancelled at every *)
(* await.                                                                  *)
(***************************************************************************)
EXTENDS Integers, FiniteSets, FiniteSetsExt

CONSTANTS
    Users,
    Requests, UserOf,          \* a request is one post of a user at a time
    Nobody,
    Minute, Hour, Abandoned,   \* 60, 3600 and 300 seconds
    SweepInterval,             \* 60 seconds
    PerMinute, PerHour,        \* the quotas
    ChatSlots,                 \* 2 in the code
    WorkTime,                  \* the search (50 s at worst) and the model (30 s)
    MaxTime                    \* bound: the clock

ASSUME ChatAssumption ==
    /\ UserOf \in [Requests -> Users] /\ Nobody \notin Requests
    /\ Minute \in Nat \ {0} /\ Hour \in Nat /\ Abandoned \in Nat \ {0}
    /\ Minute <= Hour
    /\ SweepInterval \in Nat
    /\ PerMinute \in Nat \ {0} /\ PerHour \in Nat /\ PerMinute <= PerHour
    /\ ChatSlots \in Nat \ {0} /\ WorkTime \in Nat
    /\ MaxTime \in Nat

VARIABLES
    now,
    asked,      \* _asked: the stamps of each user's counted questions
    active,     \* _active: the ticket of each user's question in flight
    lastSweep,  \* _last_sweep
    question,   \* where each request is, the stamp of its ticket, and when its
                \* work began
    free,       \* free slots of the model semaphore
    counted,    \* auxiliary: all stamps ever counted, without the refunded ones
    worked      \* auxiliary: stamps of the questions that reached the search

limiterVars == <<asked, active, lastSweep>>
vars == <<now, limiterVars, question, free, counted, worked>>

\* A deque of stamps is in the order of their times, which never decrease, so it
\* is the set of them; nth tells equal times of a user apart.
Times  == 0 .. MaxTime
Stamps == [at : Times, nth : Nat]
NoStamp == [at |-> 0, nth |-> 0]
Idle    == [pc |-> "idle", stamp |-> NoStamp, working |-> 0]

\* The states of a question that awaits something.
Steps == {"reading", "preparing", "searching", "waiting", "model"}
Running(r) == question[r].pc \in Steps

NoTicket  == [request |-> Nobody, started |-> 0]
Ticket(r) == [request |-> r, started |-> question[r].stamp.at]

Init ==
    /\ now = 0
    /\ asked = [u \in Users |-> {}]
    /\ active = [u \in Users |-> NoTicket]
    /\ lastSweep = 0
    /\ question = [r \in Requests |-> Idle]
    /\ free = ChatSlots
    /\ counted = [u \in Users |-> {}]
    /\ worked = [u \in Users |-> {}]

-----------------------------------------------------------------------------
(***************************************************************************)
(* The limiter.                                                            *)
(***************************************************************************)

Since(stamps, time)          == {s \in stamps : s.at >= time}
Within(stamps, time, window) == {s \in stamps : s.at > time - window}

\* The time of the limit-th newest stamp.
Blocker(stamps, limit) ==
    CHOOSE time \in Times :
        /\ Cardinality(Since(stamps, time)) >= limit
        /\ Cardinality(Since(stamps, time + 1)) < limit

\* How long until that stamp leaves the window; 0 when there are fewer.
WaitFor(stamps, time, window, limit) ==
    IF Cardinality(Within(stamps, time, window)) < limit THEN 0
    ELSE Blocker(Within(stamps, time, window), limit) + window - time

\* Mutated form: the quota that clears first decides.
FirstToClear(stamps, time) ==
    LET minute == WaitFor(stamps, time, Minute, PerMinute)
        hour   == WaitFor(stamps, time, Hour, PerHour)
    IN IF minute > 0 /\ hour > 0 THEN Min({minute, hour}) ELSE Max({minute, hour})

\* _over_quota: 0 when a question may be asked, otherwise retry_after.
RetryAfter(stamps, time) ==
    Max({WaitFor(stamps, time, Minute, PerMinute), WaitFor(stamps, time, Hour, PerHour)})

IsAbandoned(ticket) == now - ticket.started >= Abandoned
SweepDue == now - lastSweep >= SweepInterval

\* _sweep: abandoned tickets and stamps of more than an hour ago are dropped.
SweptActive ==
    IF SweepDue THEN [u \in Users |-> IF IsAbandoned(active[u]) THEN NoTicket
                                                                ELSE active[u]]
    ELSE active
SweptAsked ==
    IF SweepDue THEN [u \in Users |-> Within(asked[u], now, Hour)] ELSE asked

Sweep == lastSweep' = IF SweepDue THEN now ELSE lastSweep

InFlight(u) ==
    /\ SweptActive[u].request # Nobody
    /\ ~IsAbandoned(SweptActive[u])

Kept(u) == Within(SweptAsked[u], now, Hour)

\* A stamp of this moment that no other counted question of the user has.
NewStamp(u) ==
    [at  |-> now,
     nth |-> CHOOSE n \in 0 .. Cardinality(counted[u]) : \A s \in counted[u] : s.nth # n]

\* acquire hands out a ticket: the question counts from now on.
Acquire(r) ==
    /\ question[r].pc = "idle"
    /\ ~InFlight(UserOf[r])
    /\ RetryAfter(Kept(UserOf[r]), now) = 0
    /\ asked' = [SweptAsked EXCEPT
                    ![UserOf[r]] = Kept(UserOf[r]) \cup {NewStamp(UserOf[r])}]
    /\ active' = [SweptActive EXCEPT ![UserOf[r]] = [request |-> r, started |-> now]]
    /\ question' = [question EXCEPT ![r] = [Idle EXCEPT !.pc = "reading",
                                                       !.stamp = NewStamp(UserOf[r])]]
    /\ counted' = [counted EXCEPT ![UserOf[r]] = @ \cup {NewStamp(UserOf[r])}]
    /\ Sweep
    /\ UNCHANGED <<now, free, worked>>

\* acquire refuses: 429 and nothing recorded.
Refuse(r) ==
    /\ question[r].pc = "idle"
    /\ \/ InFlight(UserOf[r]) /\ asked' = SweptAsked
       \/ /\ ~InFlight(UserOf[r])
          /\ RetryAfter(Kept(UserOf[r]), now) > 0
          /\ asked' = [SweptAsked EXCEPT ![UserOf[r]] = Kept(UserOf[r])]
    /\ active' = SweptActive
    /\ Sweep
    /\ UNCHANGED <<now, question, free, counted, worked>>

\* Mutated form: whoever ends frees the user's slot.
ReleaseByKey(r) == active' = [active EXCEPT ![UserOf[r]] = NoTicket]

\* release: only the ticket that holds the slot gives it back.
Release(r) ==
    active' = IF active[UserOf[r]] = Ticket(r)
              THEN [active EXCEPT ![UserOf[r]] = NoTicket]
              ELSE active

\* refund: the stamp is taken out of the quota.
Refund(r) ==
    /\ asked' = [asked EXCEPT ![UserOf[r]] = @ \ {question[r].stamp}]
    /\ counted' = [counted EXCEPT ![UserOf[r]] = @ \ {question[r].stamp}]

-----------------------------------------------------------------------------
(***************************************************************************)
(* The steps of one question.                                              *)
(***************************************************************************)

Goto(r, label) == question' = [question EXCEPT ![r].pc = label]
Leave(r) == question' = [question EXCEPT ![r] = Idle] /\ Release(r)

\* Refused before any work: no connection, a blank or long question, too many
\* pictures or fields, a body over the cap.
Reject(r) ==
    /\ question[r].pc = "reading"
    /\ Refund(r)
    /\ Leave(r)
    /\ UNCHANGED <<now, lastSweep, free, worked>>

\* The form is read and passes its checks.
ReadForm(r) ==
    /\ question[r].pc = "reading"
    /\ question' = [question EXCEPT ![r].pc = "preparing", ![r].working = now]
    /\ UNCHANGED <<now, limiterVars, free, counted, worked>>

\* The instructions are loaded and the picture decoded; the search begins.
Prepare(r) ==
    /\ question[r].pc = "preparing"
    /\ Goto(r, "searching")
    /\ worked' = [worked EXCEPT ![UserOf[r]] = @ \cup {question[r].stamp}]
    /\ UNCHANGED <<now, limiterVars, free, counted>>

\* The search answers, its hits are checked against the cache, the balance table
\* is read and the prompt put together: awaits that touch no shared state here.
Gather(r) ==
    /\ question[r].pc = "searching"
    /\ Goto(r, "waiting")
    /\ UNCHANGED <<now, limiterVars, free, counted, worked>>

\* Mutated form: a question that failed in the search is refunded too.
FailRefunded(r) ==
    /\ question[r].pc = "searching"
    /\ Refund(r)
    /\ Leave(r)
    /\ UNCHANGED <<now, lastSweep, free, worked>>

\* The instructions or the picture cannot be read: one sentence for the page,
\* before the search.
FailToPrepare(r) ==
    /\ question[r].pc = "preparing"
    /\ Leave(r)
    /\ UNCHANGED <<now, asked, lastSweep, free, counted, worked>>

\* Search off or down, or a database error: the same.
Fail(r) ==
    /\ question[r].pc = "searching"
    /\ Leave(r)
    /\ UNCHANGED <<now, asked, lastSweep, free, counted, worked>>

TakeSlot(r) ==
    /\ question[r].pc = "waiting"
    /\ free > 0
    /\ free' = free - 1
    /\ Goto(r, "model")
    /\ UNCHANGED <<now, limiterVars, counted, worked>>

\* The model answers, fails or times out.
Answer(r) ==
    /\ question[r].pc = "model"
    /\ free' = free + 1
    /\ Leave(r)
    /\ UNCHANGED <<now, asked, lastSweep, counted, worked>>

\* The timeout covers the wait for a slot.
TimeOutWaiting(r) ==
    /\ question[r].pc = "waiting"
    /\ Leave(r)
    /\ UNCHANGED <<now, asked, lastSweep, free, counted, worked>>

\* Mutated form: a cancelled call keeps its slot.
CancelKeepsSlot(r) ==
    /\ Running(r)
    /\ Leave(r)
    /\ UNCHANGED <<now, asked, lastSweep, free, counted, worked>>

\* The client goes away or the task is cancelled: every context manager closes,
\* and the question stays counted.
Cancel(r) ==
    /\ Running(r)
    /\ free' = IF question[r].pc = "model" THEN free + 1 ELSE free
    /\ Leave(r)
    /\ UNCHANGED <<now, asked, lastSweep, counted, worked>>

\* Time passes.  The search and the call of the model, its wait for a slot
\* included, have timeouts; reading the form has none.
Tick ==
    /\ now < MaxTime
    /\ \A r \in Requests : question[r].pc \in Steps \ {"reading"}
                             => now - question[r].working < WorkTime
    /\ now' = now + 1
    /\ UNCHANGED <<limiterVars, question, free, counted, worked>>

Next ==
    \/ \E r \in Requests :
        \/ Acquire(r) \/ Refuse(r)
        \/ Reject(r) \/ ReadForm(r) \/ Prepare(r) \/ FailToPrepare(r)
        \/ Gather(r) \/ Fail(r) \/ TakeSlot(r) \/ Answer(r) \/ TimeOutWaiting(r)
        \/ Cancel(r)
    \/ Tick

Spec == Init /\ [][Next]_vars

-----------------------------------------------------------------------------
Places    == Steps \cup {"idle"}
Questions == [pc : Places, stamp : Stamps, working : Times]
Tickets   == [request : Requests \cup {Nobody}, started : Times]

\* Every variable has its type.
TypeOK ==
    /\ now \in Times
    /\ asked \in [Users -> SUBSET Stamps]
    /\ active \in [Users -> Tickets]
    /\ lastSweep \in Times
    /\ question \in [Requests -> Questions]
    /\ free \in 0 .. ChatSlots
    /\ counted \in [Users -> SUBSET Stamps]
    /\ worked \in [Users -> SUBSET Stamps]

\* One question in flight per user: of two that run, the older has been running
\* for the abandonment time, also when an abandoned one ends after the next one
\* has begun (ChatLimiter.acquire, release's identity test).
OneInFlight ==
    \A r, s \in Requests :
        (/\ r # s /\ UserOf[r] = UserOf[s]
         /\ Running(r) /\ Running(s))
            => \/ IsAbandoned(Ticket(r))
               \/ IsAbandoned(Ticket(s))

InWindow(stamps, first, window) ==
    Cardinality({s \in stamps : first <= s.at /\ s.at < first + window})

\* The quotas hold over every window of time, whatever was pruned, swept and
\* refunded in between: no more of a user's questions reach the search
\* (_over_quota, _sweep, refund).
WorkWithinQuota ==
    \A u \in Users, first \in Times :
        /\ InWindow(worked[u], first, Minute) <= PerMinute
        /\ InWindow(worked[u], first, Hour) <= PerHour

\* The wait a refusal names is exact: a moment earlier the quota still refuses,
\* at that moment it does not (the Retry-After of a 429).
WaitExactFor(stamps, wait) ==
    wait > 0 => /\ RetryAfter(stamps, now + wait) = 0
                /\ \A time \in now .. now + wait - 1 : RetryAfter(stamps, time) > 0

WaitExact == \A u \in Users : WaitExactFor(Kept(u), RetryAfter(Kept(u), now))

\* No slot of the model service is lost or invented by a failure, a timeout or a
\* cancellation (CHAT_GATE, ChatClient._post).
SlotsAccounted ==
    free + Cardinality({r \in Requests : question[r].pc = "model"}) = ChatSlots

\* What the runbook says of it: "one person can have only one question in flight
\* at a time, always, so nobody can hold both model slots".
OneModelSlotEach ==
    \A r, s \in Requests :
        (r # s /\ question[r].pc = "model" /\ question[s].pc = "model")
            => UserOf[r] # UserOf[s]
=============================================================================
