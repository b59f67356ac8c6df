---------------------------- MODULE BalanceStore ----------------------------
(***************************************************************************)
(* Account balances: the intake writes, the midday snapshot and the daily  *)
(* history (app/scheduler.py, app/balances.py).  Deliveries run on worker  *)
(* threads and the snapshot job on the scheduler's pool; each takes its    *)
(* clock readings first, then waits for the one write lock, then runs one  *)
(* SQLite transaction on its own connection.                               *)
(*                                                                         *)
(* Time is counted in ticks, TicksPerDay of them to a local day.  A        *)
(* delivery is a function that gives every account its value in cents, or  *)
(* NoValue where the delivery has no row for it.                           *)
(***************************************************************************)
EXTENDS Integers

CONSTANTS
    Accounts, Providers,
    ProviderOf,       \* the text of an account id before its first colon
    Values, NoValue,  \* amounts in cents, and the absence of one
    Requests,         \* intake requests that can be in flight at once
    Snapshot,         \* the daily snapshot job
    Nobody,           \* holds the write lock when nobody does
    DeliveryChoices,  \* the deliveries the collector may send
    TicksPerDay, MaxTime,
    MaxDeliveries,    \* bound: deliveries sent in a behaviour
    MaxFaults         \* bound: database errors and process stops

ASSUME ConstantsAssumption ==
    /\ ProviderOf \in [Accounts -> Providers]
    /\ NoValue \notin Values
    /\ Snapshot \notin Requests
    /\ Nobody \notin Requests \cup {Snapshot}
    /\ DeliveryChoices \subseteq [Accounts -> Values \cup {NoValue}]
    /\ TicksPerDay \in Nat \ {0}
    /\ MaxTime \in Nat

VARIABLES
    now,              \* ticks of the clock
    up,               \* is the process running?
    accountBalances,  \* table account_balances, as committed
    balancesDaily,    \* table balances_daily, as committed
    refreshLog,       \* newest refresh_log status of each service
    writeLock,        \* holder of _WRITE_LOCK
    snapshotDue,      \* the scheduler has the snapshot job to start
    pc,               \* where each task is
    rows,             \* the delivery a task carries
    fetchedAt,        \* the fetched_at a task has taken
    today,            \* the local date a task has taken
    work,             \* the open transaction's view of the two tables
    sent, faults,     \* counters for the bounds
    delivered,        \* auxiliary: the delivery each provider's rows are from
    lastDay           \* auxiliary: the day of the newest committed write

clockVars == <<now, up, snapshotDue>>
tables    == <<accountBalances, balancesDaily, delivered, lastDay>>
taskVars  == <<rows, fetchedAt, today>>
vars      == <<clockVars, tables, taskVars, refreshLog, writeLock, pc, work,
               sent, faults>>

Tasks    == Requests \cup {Snapshot}
Services == {"balances", "balances-daily"}

Times    == 0 .. MaxTime
DayOf(t) == t \div TicksPerDay
Days     == {DayOf(t) : t \in Times}
NoDay    == -1
IsNoon(t) == t % TicksPerDay = TicksPerDay \div 2

Row        == [value : Values \cup {NoValue}, fetched : Times]
NoRow      == [value |-> NoValue, fetched |-> 0]
NoRows     == [a \in Accounts |-> NoValue]
NoDelivery == [rows |-> NoRows, fetched |-> 0, day |-> NoDay]

Balances == [Accounts -> Row]
History  == [Days -> [Accounts -> Values \cup {NoValue}]]
NoTables == [balances |-> [a \in Accounts |-> NoRow],
             daily    |-> [d \in Days |-> NoRows]]

-----------------------------------------------------------------------------
(***************************************************************************)
(* The statements of a transaction, as operators on the two tables.        *)
(***************************************************************************)

\* BalanceDelivery.providers: the providers with at least one row.
ProvidersIn(delivery) ==
    {ProviderOf[a] : a \in {b \in Accounts : delivery[b] # NoValue}}

\* Mutated form: rows are stored without a fetched_at.
UnstampedRow(value, fetched) == [value |-> value, fetched |-> NoDay]

StoredRow(value, fetched) ==
    IF value = NoValue THEN NoRow ELSE [value |-> value, fetched |-> fetched]

\* Every provider in the delivery loses its rows, then the delivery's rows
\* are inserted.  Other providers keep theirs.
ReplaceBalances(balances, delivery, fetched) ==
    [a \in Accounts |->
        IF ProviderOf[a] \in ProvidersIn(delivery)
        THEN StoredRow(delivery[a], fetched)
        ELSE balances[a]]

\* Mutated form: the day's rows are left alone.
DropNothing(daily, balances, day, delivery) == daily

\* The day's rows of the delivery's providers whose account is not stored.
DropUnreported(daily, balances, day, delivery) ==
    [daily EXCEPT ![day] =
        [a \in Accounts |->
            IF /\ ProviderOf[a] \in ProvidersIn(delivery)
               /\ balances[a].value = NoValue
            THEN NoValue ELSE daily[day][a]]]

\* Mutated form: ON CONFLICT DO NOTHING, so the first value of a day stays.
SnapshotFirst(daily, balances, day) ==
    [daily EXCEPT ![day] =
        [a \in Accounts |->
            IF daily[day][a] # NoValue THEN daily[day][a]
                                       ELSE balances[a].value]]

\* One upsert per stored account; nothing is deleted.
SnapshotDaily(daily, balances, day) ==
    [daily EXCEPT ![day] =
        [a \in Accounts |->
            IF balances[a].value # NoValue THEN balances[a].value
                                           ELSE daily[day][a]]]

\* The stored rows after a task's statements: a delivery replaces, the snapshot
\* job only copies.
StoredBy(t) ==
    IF t = Snapshot THEN accountBalances
    ELSE ReplaceBalances(accountBalances, rows[t], fetchedAt[t])

\* The history before the copy: a delivery first corrects the day.
KeptBy(t, day) ==
    IF t = Snapshot THEN balancesDaily
    ELSE DropUnreported(balancesDaily, StoredBy(t), day, rows[t])

Written(t, day) ==
    [balances |-> StoredBy(t),
     daily    |-> SnapshotDaily(KeptBy(t, day), StoredBy(t), day)]

-----------------------------------------------------------------------------
Init ==
    /\ now = 0
    /\ up = TRUE
    /\ accountBalances = NoTables.balances
    /\ balancesDaily = NoTables.daily
    /\ refreshLog = [s \in Services |-> "none"]
    /\ writeLock = Nobody
    /\ snapshotDue = TRUE           \* next_run_time is the start time
    /\ pc = [t \in Tasks |-> "idle"]
    /\ rows = [t \in Tasks |-> NoRows]
    /\ fetchedAt = [t \in Tasks |-> 0]
    /\ today = [t \in Tasks |-> 0]
    /\ work = [t \in Tasks |-> NoTables]
    /\ sent = 0
    /\ faults = 0
    /\ delivered = [p \in Providers |-> NoDelivery]
    /\ lastDay = NoDay

Goto(t, label) == pc' = [pc EXCEPT ![t] = label]

\* The intake accepted a delivery and a worker thread took its two clock
\* readings, fetched_at and the local date (one step: nothing relates them).
StoreDelivery(r, delivery) ==
    /\ up
    /\ pc[r] = "idle"
    /\ sent < MaxDeliveries
    /\ sent' = sent + 1
    /\ rows' = [rows EXCEPT ![r] = delivery]
    /\ fetchedAt' = [fetchedAt EXCEPT ![r] = now]
    /\ today' = [today EXCEPT ![r] = DayOf(now)]
    /\ Goto(r, "waiting")
    /\ UNCHANGED <<clockVars, tables, refreshLog, writeLock, work, faults>>

\* Mutated form: the job gives up when the write lock is held.
StartSnapshotIfFree ==
    /\ up
    /\ snapshotDue
    /\ snapshotDue' = FALSE
    /\ IF pc[Snapshot] = "idle" /\ writeLock = Nobody
       THEN /\ today' = [today EXCEPT ![Snapshot] = DayOf(now)]
            /\ Goto(Snapshot, "waiting")
       ELSE UNCHANGED <<today, pc>>
    /\ UNCHANGED <<now, up, tables, rows, fetchedAt, refreshLog, writeLock,
                   work, sent, faults>>

\* The scheduler starts the snapshot job; a run still going keeps its service
\* lock (and max_instances is 1), so this run is skipped.
StartSnapshot ==
    /\ up
    /\ snapshotDue
    /\ snapshotDue' = FALSE
    /\ IF pc[Snapshot] = "idle"
       THEN /\ today' = [today EXCEPT ![Snapshot] = DayOf(now)]
            /\ Goto(Snapshot, "waiting")
       ELSE UNCHANGED <<today, pc>>
    /\ UNCHANGED <<now, up, tables, rows, fetchedAt, refreshLog, writeLock,
                   work, sent, faults>>

\* Mutated form: two tasks can be inside at once.
WriteWithoutLock(t) ==
    /\ pc[t] = "waiting"
    /\ writeLock' = t
    /\ work' = [work EXCEPT ![t] = Written(t, today[t])]
    /\ Goto(t, "commit")
    /\ UNCHANGED <<clockVars, tables, taskVars, refreshLog, sent, faults>>

\* Mutated form: the date is the one the process started on.
WriteStartDay(t) ==
    /\ pc[t] = "waiting"
    /\ writeLock = Nobody
    /\ writeLock' = t
    /\ work' = [work EXCEPT ![t] = Written(t, 0)]
    /\ Goto(t, "commit")
    /\ UNCHANGED <<clockVars, tables, taskVars, refreshLog, sent, faults>>

\* with _WRITE_LOCK: a connection is opened and the statements run in its
\* transaction, on what is committed now.
Write(t) ==
    /\ pc[t] = "waiting"
    /\ writeLock = Nobody
    /\ writeLock' = t
    /\ work' = [work EXCEPT ![t] = Written(t, today[t])]
    /\ Goto(t, "commit")
    /\ UNCHANGED <<clockVars, tables, taskVars, refreshLog, sent, faults>>

\* The transaction commits, the connection closes and the lock is released.
Commit(t) ==
    /\ pc[t] = "commit"
    /\ accountBalances' = work[t].balances
    /\ balancesDaily' = work[t].daily
    /\ writeLock' = Nobody
    /\ work' = [work EXCEPT ![t] = NoTables]
    /\ Goto(t, "success")
    /\ delivered' = [p \in Providers |->
                        IF p \in ProvidersIn(rows[t])
                        THEN [rows    |-> rows[t],
                              fetched |-> fetchedAt[t],
                              day     |-> today[t]]
                        ELSE delivered[p]]
    /\ lastDay' = today[t]
    /\ UNCHANGED <<clockVars, taskVars, refreshLog, sent, faults>>

\* sqlite3.Error from the connection, a statement or the commit: the
\* transaction is rolled back and the lock released.
Rollback(t) ==
    /\ pc[t] = "commit"
    /\ faults < MaxFaults
    /\ faults' = faults + 1
    /\ writeLock' = Nobody
    /\ work' = [work EXCEPT ![t] = NoTables]
    /\ Goto(t, "error")
    /\ UNCHANGED <<clockVars, tables, taskVars, refreshLog, sent>>

Finish(t) ==
    /\ Goto(t, "idle")
    /\ rows' = [rows EXCEPT ![t] = NoRows]
    /\ fetchedAt' = [fetchedAt EXCEPT ![t] = 0]
    /\ today' = [today EXCEPT ![t] = 0]

\* _record, outside the lock and on a connection of its own, then the reply.
\* Its own sqlite3.Error is logged and the log row is lost.
Record(t) ==
    /\ pc[t] \in {"success", "error"}
    /\ LET service == IF t = Snapshot THEN "balances-daily" ELSE "balances"
       IN \/ /\ refreshLog' = [refreshLog EXCEPT ![service] = pc[t]]
             /\ faults' = faults
          \/ /\ faults < MaxFaults
             /\ faults' = faults + 1
             /\ UNCHANGED refreshLog
    /\ Finish(t)
    /\ UNCHANGED <<clockVars, tables, writeLock, work, sent>>

\* The process stops: threads, locks and open transactions are gone.
Stop ==
    /\ up
    /\ faults < MaxFaults
    /\ faults' = faults + 1
    /\ up' = FALSE
    /\ snapshotDue' = FALSE
    /\ writeLock' = Nobody
    /\ pc' = [t \in Tasks |-> "idle"]
    /\ rows' = [t \in Tasks |-> NoRows]
    /\ fetchedAt' = [t \in Tasks |-> 0]
    /\ today' = [t \in Tasks |-> 0]
    /\ work' = [t \in Tasks |-> NoTables]
    /\ UNCHANGED <<now, tables, refreshLog, sent>>

\* build_scheduler at startup: the job's next_run_time is now.
Start ==
    /\ ~up
    /\ up' = TRUE
    /\ snapshotDue' = TRUE
    /\ UNCHANGED <<now, tables, taskVars, refreshLog, writeLock, pc, work, sent,
                   faults>>

\* Time passes; at midday the cron trigger makes the snapshot due.  A due job
\* starts within a tick: its misfire grace is one hour.
Tick ==
    /\ now < MaxTime
    /\ up => ~snapshotDue
    /\ now' = now + 1
    /\ snapshotDue' = (up /\ IsNoon(now + 1))
    /\ UNCHANGED <<up, tables, taskVars, refreshLog, writeLock, pc, work, sent,
                   faults>>

Progress(t) == Write(t) \/ Commit(t) \/ Record(t)

Next ==
    \/ \E r \in Requests, delivery \in DeliveryChoices : StoreDelivery(r, delivery)
    \/ StartSnapshot
    \/ \E t \in Tasks : Progress(t) \/ Rollback(t)
    \/ Stop
    \/ Start
    \/ Tick

Spec == Init /\ [][Next]_vars

\* Threads run: a task that can take its next step takes it, and the pool
\* starts a due job.  Nothing makes a delivery arrive, the clock reach the next
\* tick or the process stop.
Fairness ==
    /\ WF_vars(StartSnapshot)
    /\ \A t \in Tasks : WF_vars(Progress(t))

FairSpec == Spec /\ Fairness

-----------------------------------------------------------------------------
Labels == {"idle", "waiting", "commit", "success", "error"}

\* Every variable has its type.
TypeOK ==
    /\ now \in Times
    /\ up \in BOOLEAN
    /\ snapshotDue \in BOOLEAN
    /\ accountBalances \in Balances
    /\ balancesDaily \in History
    /\ refreshLog \in [Services -> {"none", "success", "error"}]
    /\ writeLock \in Tasks \cup {Nobody}
    /\ pc \in [Tasks -> Labels]
    /\ rows \in [Tasks -> [Accounts -> Values \cup {NoValue}]]
    /\ fetchedAt \in [Tasks -> Times]
    /\ today \in [Tasks -> Days]
    /\ work \in [Tasks -> [balances : Balances, daily : History]]
    /\ sent \in Nat
    /\ faults \in Nat
    /\ delivered \in [Providers -> [rows    : [Accounts -> Values \cup {NoValue}],
                                    fetched : Times,
                                    day     : Days \cup {NoDay}]]
    /\ lastDay \in Days \cup {NoDay}

\* What is stored for a provider is exactly one delivery, whole: every row of
\* the last one committed with its fetched_at, and no row of any other, however
\* deliveries, snapshots, errors and stops interleave (replace_balances).
ProviderWhole ==
    \A a \in Accounts :
        LET d == delivered[ProviderOf[a]]
        IN accountBalances[a] = StoredRow(d.rows[a], d.fetched)

\* The history of the day a provider's rows were delivered under agrees with the
\* stored rows, account by account: a swapped account is gone from that day and
\* a changed value is the new one (drop_unreported_from_day, snapshot_daily).
DeliveryDayAgrees ==
    \A a \in Accounts :
        LET d == delivered[ProviderOf[a]].day
        IN d # NoDay => balancesDaily[d][a] = accountBalances[a].value

\* The day written last covers every stored account, also those of a provider
\* that has gone silent (snapshot_daily).
LastDayComplete ==
    \A a \in Accounts :
        (lastDay # NoDay /\ accountBalances[a].value # NoValue)
            => balancesDaily[lastDay][a] = accountBalances[a].value

\* A day that is over is history: its rows change only through a write that took
\* its date on that day and is still running.
PastDaysFrozen ==
    [][\A d \in Days :
          (/\ d < DayOf(now)
           /\ \A t \in Tasks : pc[t] \in {"waiting", "commit"} => today[t] # d)
              => balancesDaily'[d] = balancesDaily[d]]_vars

\* The midday job leaves no day out: an account stored when the job falls due
\* (and its last run is over) gets a row in that day's history, unless a delivery
\* drops the account first or something fails (DAILY_SNAPSHOT_TIME,
\* snapshot_balances_daily).
DayCovered ==
    \A d \in Days, a \in Accounts :
        (/\ DayOf(now) = d /\ IsNoon(now)
         /\ snapshotDue /\ pc[Snapshot] = "idle"
         /\ accountBalances[a].value # NoValue)
            ~> \/ balancesDaily[d][a] # NoValue
               \/ accountBalances[a].value = NoValue
               \/ faults > 0

\* What the schema and drop_unreported_from_day say of the history: "Past days
\* are never deleted; only the current day's rows are corrected".
PastDaysNeverDeleted ==
    [][\A d \in Days, a \in Accounts :
          (d < DayOf(now) /\ balancesDaily[d][a] # NoValue)
              => balancesDaily'[d][a] # NoValue]_vars

=============================================================================
