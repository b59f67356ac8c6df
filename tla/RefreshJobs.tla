----------------------------- MODULE RefreshJobs -----------------------------
(***************************************************************************)
(* The refresh jobs (app/scheduler.py, the lifespan of app/main.py and the *)
(* manual triggers of app/routes/admin.py).  A job takes its service's     *)
(* lock without waiting, reads its backend page by page with one budget of *)
(* retries for rate limits, takes the write lock, replaces the dataset in  *)
(* one transaction and records the outcome.  A service can be run by the   *)
(* scheduler and by an administrator at the same time, the backend can     *)
(* change between two pages, and the process can stop or be killed.        *)
(***************************************************************************)
EXTENDS Integers, Sequences, SequencesExt

CONSTANTS
    Services,   \* one dataset for each
    Connected,  \* services whose backend has a URL in the environment
    Paged,      \* services whose backend answers {items, total} pages
    Bare,       \* services whose backend answers a bare list; some may do either
    Untotalled, \* those of them whose pages carry no total
    Overflowing,  \* those of them whose total can be a number without end (1e999)
    Skipping,   \* writers that skip an unusable item (documents)
    Getting,    \* writers that call item.get before anything else (entities)
    Items, Malformed, Junk,  \* Malformed: no usable fields; Junk: not an object
    Huge,       \* an integer of theirs does not fit a column of SQLite
    Lists,      \* the lists each service's backend may serve
    Nobody,
    PageSize, MaxPages, MaxRetries,  \* 100, 50 and 3 in the code
    MaxRuns,    \* bound: runs started
    MaxChanges, \* bound: changes of a backend's list
    MaxFaults   \* bound: database errors and kills

ASSUME RefreshAssumption ==
    /\ Connected \cup Paged \cup Bare \cup Skipping \cup Getting \subseteq Services
    /\ Untotalled \cup Overflowing \subseteq Paged
    /\ Malformed \cup Junk \cup Huge \subseteq Items
    /\ Malformed \cap Junk = {} /\ Huge \cap (Malformed \cup Junk) = {}
    /\ \A s \in Services : Lists[s] \subseteq Seq(Items)
    /\ Nobody \notin Items \cup Services \X {"scheduled", "manual"}
    /\ PageSize \in Nat \ {0} /\ MaxPages \in Nat \ {0} /\ MaxRetries \in Nat

VARIABLES
    phase,        \* "up", "draining" (no new requests), "stopping", "down"
    due,          \* services the scheduler has a run to start for
    serviceLock,  \* holder of each service's lock
    writeLock,    \* holder of _WRITE_LOCK
    task,         \* the refresh each task is in
    cached,       \* the rows of each dataset, as committed
    log,          \* newest refresh_log row of each service
    backend,      \* the list each backend serves now
    runs, changes, faults,  \* counters; runs also numbers the runs
    served,       \* auxiliary: items served throughout a task's fetch
    steady,       \* auxiliary: no change of the list during that fetch
    cachedRun,    \* auxiliary: the run whose rows are cached
    unlogged      \* auxiliary: services whose newest outcome has no log row

auxVars == <<served, steady>>
vars == <<phase, due, serviceLock, writeLock, task, cached, log, backend, runs,
          changes, faults, auxVars, cachedRun, unlogged>>

Tasks        == Services \X {"scheduled", "manual"}
Service(t)   == t[1]
Scheduled(s) == <<s, "scheduled">>
Manual(s)    == <<s, "manual">>
Usable       == Items \ (Malformed \cup Junk)

Idle  == [pc |-> "idle", items |-> <<>>, total |-> 0, page |-> 1, left |-> 0,
          run |-> 0]
NoLog == [status |-> "none", run |-> 0]

\* What the backends may serve, a list each.
Backends ==
    {lists \in [Services -> UNION {Lists[s] : s \in Services}] :
        \A s \in Services : lists[s] \in Lists[s]}

Init ==
    /\ phase = "up"
    /\ due = Services               \* every job runs once at startup
    /\ serviceLock = [s \in Services |-> Nobody]
    /\ writeLock = Nobody
    /\ task = [t \in Tasks |-> Idle]
    /\ cached = [s \in Services |-> {}]
    /\ log = [s \in Services |-> NoLog]
    /\ backend \in Backends
    /\ runs = 0 /\ changes = 0 /\ faults = 0
    /\ served = [t \in Tasks |-> {}]
    /\ steady = [t \in Tasks |-> TRUE]
    /\ cachedRun = [s \in Services |-> 0]
    /\ unlogged = {}

-----------------------------------------------------------------------------
(***************************************************************************)
(* Starting a run.                                                         *)
(***************************************************************************)

\* Mutated form: a run starts beside one that is still going.
RunBeside(t) ==
    /\ serviceLock' = [serviceLock EXCEPT ![Service(t)] = t]
    /\ task' = [task EXCEPT ![t] = [Idle EXCEPT !.pc = "request",
                                                !.left = MaxRetries,
                                                !.run = runs + 1]]
    /\ runs' = runs + 1
    /\ served' = [served EXCEPT ![t] = ToSet(backend[Service(t)])]
    /\ steady' = [steady EXCEPT ![t] = TRUE]

\* _run_refresh: without a URL, or with the lock held, there is no run; otherwise
\* the first page is asked for.  (A URL without a key stops the process before it
\* serves: check_backends.)
RunRefresh(t) ==
    IF Service(t) \notin Connected \/ serviceLock[Service(t)] # Nobody
    THEN UNCHANGED <<serviceLock, task, runs, auxVars>>
    ELSE /\ serviceLock' = [serviceLock EXCEPT ![Service(t)] = t]
         /\ task' = [task EXCEPT ![t] = [Idle EXCEPT !.pc = "request",
                                                     !.left = MaxRetries,
                                                     !.run = runs + 1]]
         /\ runs' = runs + 1
         /\ served' = [served EXCEPT ![t] = ToSet(backend[Service(t)])]
         /\ steady' = [steady EXCEPT ![t] = TRUE]

rest == <<writeLock, cached, log, backend, changes, faults, cachedRun, unlogged>>

\* The scheduler starts a due job; max_instances is 1.
StartScheduled(s) ==
    /\ phase \in {"up", "draining"}
    /\ s \in due
    /\ runs < MaxRuns
    /\ due' = due \ {s}
    /\ IF task[Scheduled(s)].pc = "idle" THEN RunRefresh(Scheduled(s))
       ELSE UNCHANGED <<serviceLock, task, runs, auxVars>>
    /\ UNCHANGED <<phase, rest>>

\* An administrator's trigger, run after its 202 was sent.
TriggerRefresh(s) ==
    /\ phase = "up"
    /\ runs < MaxRuns
    /\ task[Manual(s)].pc = "idle"
    /\ RunRefresh(Manual(s))
    /\ UNCHANGED <<phase, due, rest>>

\* The interval trigger fires; a run still waiting is coalesced with it.
IntervalFires(s) ==
    /\ phase \in {"up", "draining"}
    /\ runs < MaxRuns
    /\ due' = due \cup {s}
    /\ UNCHANGED <<phase, serviceLock, task, runs, auxVars, rest>>

\* The scheduler was late by more than the grace of one second.
Misfire(s) ==
    /\ s \in due
    /\ due' = due \ {s}
    /\ UNCHANGED <<phase, serviceLock, task, runs, auxVars, rest>>

-----------------------------------------------------------------------------
(***************************************************************************)
(* Reading the backend.                                                    *)
(***************************************************************************)

PageOf(list, n) ==
    SubSeq(list, (n - 1) * PageSize + 1, Min({n * PageSize, Len(list)}))

fetchRest == <<phase, due, serviceLock, runs, auxVars, rest>>

Become(t, job) == task' = [task EXCEPT ![t] = job]

\* A run whose fetch is over: with the items to write, or with only an outcome
\* to record.
Read(job)         == [Idle EXCEPT !.pc = "write", !.run = job.run, !.items = job.items]
Ended(job, label) == [Idle EXCEPT !.pc = label, !.run = job.run]

\* Mutated form: a rate limit is retried for ever.
LimitedUnbudgeted(t) ==
    /\ task[t].pc = "request"
    /\ Become(t, [task[t] EXCEPT !.pc = "sleep"])
    /\ UNCHANGED fetchRest

\* 429: wait and ask again while the refresh has retries left.
Limited(t) ==
    /\ task[t].pc = "request"
    /\ Become(t, IF task[t].left > 0
                 THEN [task[t] EXCEPT !.pc = "sleep", !.left = @ - 1]
                 ELSE Ended(task[t], "failed"))
    /\ UNCHANGED fetchRest

\* _sleep: the wait is over, however long it was.
WaitOver(t) ==
    /\ task[t].pc = "sleep"
    /\ phase # "stopping"
    /\ Become(t, [task[t] EXCEPT !.pc = "request"])
    /\ UNCHANGED fetchRest

\* Mutated form: the wait is one on a clock, which a stop does not cut short.
WakeDeaf(t) ==
    /\ task[t].pc = "sleep"
    /\ phase = "stopping"
    /\ Become(t, task[t])
    /\ UNCHANGED fetchRest

\* _sleep: a requested shutdown ends the wait at once, with an error.
Wake(t) ==
    /\ task[t].pc = "sleep"
    /\ phase = "stopping"
    /\ Become(t, Ended(task[t], "failed"))
    /\ UNCHANGED fetchRest

\* A transport or HTTP error, a timeout, or a body of another shape.  Of all that
\* a body can be, int() of an infinite total alone raises what the job does not
\* catch: OverflowError.
Unanswered(t) ==
    /\ task[t].pc = "request"
    /\ \/ Become(t, Ended(task[t], "failed"))
       \/ /\ Service(t) \in Overflowing /\ task[t].page = 1
          /\ Become(t, Ended(task[t], "raised"))
    /\ UNCHANGED fetchRest

\* A bare list: every item must convert to an object.
BareList(t) ==
    /\ task[t].pc = "request"
    /\ Service(t) \in Bare /\ task[t].page = 1
    /\ Become(t, IF ToSet(backend[Service(t)]) \cap Junk # {}
                 THEN Ended(task[t], "failed")
                 ELSE Read([task[t] EXCEPT !.items = backend[Service(t)]]))
    /\ UNCHANGED fetchRest

\* Mutated form: whatever was read before an empty page is used.
AfterPageLenient(job) ==
    IF Len(job.items) >= job.total \/ job.page = MaxPages
    THEN Read(job)
    ELSE [job EXCEPT !.page = @ + 1]

\* After a page: enough items, too many pages, or on to the next one.
AfterPage(job) ==
    IF Len(job.items) >= job.total THEN Read(job)
    ELSE IF job.page = MaxPages THEN Ended(job, "failed")
    ELSE [job EXCEPT !.page = @ + 1]

\* The total that the first page gives, or the number of its own items.
TotalOf(s, list) == IF s \in Untotalled THEN Len(PageOf(list, 1)) ELSE Len(list)

\* A job of a service with its next page of that list.
WithPage(s, job, list) ==
    [job EXCEPT !.items = @ \o PageOf(list, job.page),
                !.total = IF job.page = 1 THEN TotalOf(s, list) ELSE @]

\* A page of {items, total}; an empty one after the first is an error.
Page(t) ==
    /\ task[t].pc = "request"
    /\ Service(t) \in Paged
    /\ Become(t, IF task[t].page > 1 /\ PageOf(backend[Service(t)], task[t].page) = <<>>
                 THEN Ended(task[t], "failed")
                 ELSE AfterPage(WithPage(Service(t), task[t], backend[Service(t)])))
    /\ UNCHANGED fetchRest

Reading(s) == {t \in Tasks : Service(t) = s /\ task[t].pc \in {"request", "sleep"}}

\* The backend's list changes; nothing keeps it still between two pages.
Change(s) ==
    /\ changes < MaxChanges
    /\ changes' = changes + 1
    /\ \E list \in Lists[s] :
        /\ list # backend[s]
        /\ backend' = [backend EXCEPT ![s] = list]
        /\ served' = [t \in Tasks |-> IF t \in Reading(s)
                                      THEN served[t] \cap ToSet(list)
                                      ELSE served[t]]
        /\ steady' = [t \in Tasks |-> steady[t] /\ t \notin Reading(s)]
    /\ UNCHANGED <<phase, due, serviceLock, writeLock, task, cached, log, runs,
                   faults, cachedRun, unlogged>>

-----------------------------------------------------------------------------
(***************************************************************************)
(* Writing and recording.                                                  *)
(***************************************************************************)

HasDuplicate(items) == ~IsInjective(items)

\* The items a writer gets past.  The one that skips makes text of every number.
Passes(s) == IF s \in Skipping THEN Items ELSE Usable \ Huge

\* What the writers do not catch: AttributeError, of item.get where the item is
\* not an object, and OverflowError, of an integer too large for SQLite.
Uncaught(s) == IF s \in Skipping THEN {} ELSE Huge \cup IF s \in Getting THEN Junk ELSE {}

\* The first item that cannot be inserted raises one of these.
Escapes(t) ==
    \E n \in 1 .. Len(task[t].items) :
        /\ task[t].items[n] \in Uncaught(Service(t))
        /\ \A m \in 1 .. n - 1 : task[t].items[m] \in Passes(Service(t))
        /\ ~HasDuplicate(SubSeq(task[t].items, 1, n - 1))

\* The insert of every item goes through: bad items and repeated ids are
\* skipped by one writer and raise in the others.
Storable(t) ==
    \/ Service(t) \in Skipping
    \/ /\ ToSet(task[t].items) \subseteq Passes(Service(t))
       /\ ~HasDuplicate(task[t].items)

writeRest == <<phase, due, serviceLock, log, backend, runs, changes, auxVars, unlogged>>

\* with _WRITE_LOCK: delete and inserts, in a transaction still open.
Write(t) ==
    /\ task[t].pc = "write"
    /\ writeLock = Nobody
    /\ writeLock' = t
    /\ Become(t, [task[t] EXCEPT !.pc = "commit"])
    /\ UNCHANGED <<writeRest, cached, faults, cachedRun>>

Commit(t) ==
    /\ task[t].pc = "commit"
    /\ Storable(t)
    /\ cached' = [cached EXCEPT ![Service(t)] = ToSet(task[t].items) \cap Usable]
    /\ cachedRun' = [cachedRun EXCEPT ![Service(t)] = task[t].run]
    /\ writeLock' = Nobody
    /\ Become(t, Ended(task[t], "success"))
    /\ UNCHANGED <<writeRest, faults>>

\* Mutated form: the delete was committed before the inserts.
AbortBlank(t) ==
    /\ task[t].pc = "commit"
    /\ ~Storable(t)
    /\ faults' = faults
    /\ cached' = [cached EXCEPT ![Service(t)] = {}]
    /\ writeLock' = Nobody
    /\ Become(t, Ended(task[t], IF Escapes(t) THEN "raised" ELSE "failed"))
    /\ UNCHANGED <<writeRest, cachedRun>>

\* A bad item, a repeated id or a database error: the rows stay as they were.
Abort(t) ==
    /\ task[t].pc = "commit"
    /\ \/ ~Storable(t) /\ faults' = faults
       \/ Storable(t) /\ faults < MaxFaults /\ faults' = faults + 1
    /\ writeLock' = Nobody
    /\ Become(t, Ended(task[t], IF Escapes(t) THEN "raised" ELSE "failed"))
    /\ UNCHANGED <<writeRest, cached, cachedRun>>

endRest == <<phase, due, writeLock, cached, backend, runs, changes, cachedRun>>

Release(t) ==
    /\ serviceLock' = [serviceLock EXCEPT ![Service(t)] = Nobody]
    /\ task' = [task EXCEPT ![t] = Idle]
    /\ served' = [served EXCEPT ![t] = {}]
    /\ steady' = [steady EXCEPT ![t] = TRUE]

\* Mutated form: an error falls through to the success row.
RecordFallsThrough(t) ==
    /\ task[t].pc \in {"success", "failed"}
    /\ log' = [log EXCEPT ![Service(t)] = [status |-> "success",
                                          run    |-> task[t].run]]
    /\ unlogged' = unlogged \ {Service(t)}
    /\ Release(t)
    /\ UNCHANGED <<endRest, faults>>

\* The row of refresh_log for a run that is over.
Outcome(job) == [status |-> IF job.pc = "success" THEN "success" ELSE "error",
                 run    |-> job.run]

\* _record on its own connection, then the service lock is released.  Its own
\* database error is logged and the row is lost.
Record(t) ==
    /\ task[t].pc \in {"success", "failed"}
    /\ \/ /\ log' = [log EXCEPT ![Service(t)] = Outcome(task[t])]
          /\ unlogged' = unlogged \ {Service(t)}
          /\ faults' = faults
       \/ /\ faults < MaxFaults
          /\ faults' = faults + 1
          /\ unlogged' = unlogged \cup {Service(t)}
          /\ UNCHANGED log
    /\ Release(t)
    /\ UNCHANGED endRest

\* The exception leaves _refresh_once; only the finally clause runs.
Raise(t) ==
    /\ task[t].pc = "raised"
    /\ unlogged' = unlogged \cup {Service(t)}
    /\ Release(t)
    /\ UNCHANGED <<endRest, log, faults>>

-----------------------------------------------------------------------------
(***************************************************************************)
(* The process.                                                            *)
(***************************************************************************)

locks == <<serviceLock, writeLock, task, auxVars>>
stored == <<cached, log, backend, runs, changes, cachedRun>>

\* A stop signal: no new requests, those being served run to their end.
Drain ==
    /\ phase = "up"
    /\ phase' = "draining"
    /\ UNCHANGED <<due, locks, stored, faults, unlogged>>

\* The lifespan ends: request_shutdown, then the scheduler without waiting.
Shutdown ==
    /\ phase = "draining"
    /\ \A s \in Services : task[Manual(s)].pc = "idle"
    /\ phase' = "stopping"
    /\ due' = {}
    /\ UNCHANGED <<locks, stored, faults, unlogged>>

\* The pool's threads have ended.
Exit ==
    /\ phase = "stopping"
    /\ \A t \in Tasks : task[t].pc = "idle"
    /\ phase' = "down"
    /\ UNCHANGED <<due, locks, stored, faults, unlogged>>

\* The container is killed: threads, locks and the open transaction are gone.
Kill ==
    /\ phase # "down"
    /\ faults < MaxFaults
    /\ faults' = faults + 1
    /\ phase' = "down"
    /\ due' = {}
    /\ serviceLock' = [s \in Services |-> Nobody]
    /\ writeLock' = Nobody
    /\ task' = [t \in Tasks |-> Idle]
    /\ served' = [t \in Tasks |-> {}]
    /\ steady' = [t \in Tasks |-> TRUE]
    /\ unlogged' = unlogged \cup {s \in Services : serviceLock[s] # Nobody}
    /\ UNCHANGED stored

\* lifespan: a new scheduler, every job due, and the flag cleared.
Start ==
    /\ phase = "down"
    /\ phase' = "up"
    /\ due' = Services
    /\ UNCHANGED <<locks, stored, faults, unlogged>>

Progress(t) ==
    \/ Limited(t) \/ Wake(t) \/ Unanswered(t) \/ BareList(t) \/ Page(t)
    \/ Write(t) \/ Commit(t) \/ Abort(t) \/ Record(t) \/ Raise(t)

Next ==
    \/ \E s \in Services : \/ StartScheduled(s) \/ TriggerRefresh(s)
                           \/ IntervalFires(s) \/ Misfire(s) \/ Change(s)
    \/ \E t \in Tasks : Progress(t) \/ WaitOver(t)
    \/ Drain \/ Shutdown \/ Exit \/ Kill \/ Start

Spec == Init /\ [][Next]_vars

\* A started thread runs, a request ends (every phase of it has a timeout), a stop
\* wakes who sleeps, and a stopping process goes on stopping.  Nothing else is
\* sure to happen, and here not even that a wait on a rate limit runs out.
FairSpec ==
    /\ Spec
    /\ \A t \in Tasks : WF_vars(Progress(t))
    /\ WF_vars(Shutdown)
    /\ WF_vars(Exit)

-----------------------------------------------------------------------------
Labels == {"idle", "request", "sleep", "write", "commit", "success", "failed",
           "raised"}
Jobs == [pc : Labels, items : Seq(Items), total : Nat, page : 1 .. MaxPages,
         left : 0 .. MaxRetries, run : Nat]

\* Every variable has its type.
TypeOK ==
    /\ phase \in {"up", "draining", "stopping", "down"}
    /\ due \subseteq Services
    /\ serviceLock \in [Services -> Tasks \cup {Nobody}]
    /\ writeLock \in Tasks \cup {Nobody}
    /\ task \in [Tasks -> Jobs]
    /\ cached \in [Services -> SUBSET Usable]
    /\ log \in [Services -> [status : {"none", "success", "error"}, run : Nat]]
    /\ backend \in Backends
    /\ runs \in Nat /\ changes \in Nat /\ faults \in Nat
    /\ served \in [Tasks -> SUBSET Items]
    /\ steady \in [Tasks -> BOOLEAN]
    /\ cachedRun \in [Services -> Nat]
    /\ unlogged \subseteq Services

\* A dataset never goes back to an older fetch, whoever runs its job: the service
\* lock spans the fetch and the write (_run_refresh).
NeverBackwards ==
    [][\A s \in Services : cachedRun'[s] >= cachedRun[s]]_vars

\* The newest refresh_log row tells what is cached: it says success exactly when
\* the cached rows are from the run it names, however runs, skips and kills
\* interleave (_refresh_once records under the service lock).
LogTellsCache ==
    \A s \in Services \ unlogged :
        (\A t \in Tasks : Service(t) = s => task[t].pc # "success")
            => /\ log[s].status = "success" => cachedRun[s] = log[s].run
               /\ log[s].status = "error" => cachedRun[s] < log[s].run

\* When the backend's list does not change during a fetch, the commit stores
\* exactly that list's usable items: no page is missed, read twice or cut off by
\* rate limits, errors or the limits on pages (_get_items, _get_json).  A backend
\* whose pages carry no total is read as having one page, and is left out.
SteadyWhole ==
    [][\A t \in Tasks :
          (/\ task[t].pc = "commit" /\ task'[t].pc = "success"
           /\ steady[t] /\ Service(t) \notin Untotalled)
              => cached'[Service(t)] = served[t] \cap Usable]_vars

\* A wait runs out, since Event.wait has a timeout.
TimersEnd == \A t \in Tasks : WF_vars(WaitOver(t))

\* A service is never locked for good: a run that began ends, or the process does
\* (the retry budget, the page limit, the finally clauses of _run_refresh and of
\* the transaction).
LockFreed ==
    TimersEnd =>
        \A s \in Services : serviceLock[s] # Nobody ~> serviceLock[s] = Nobody

\* Once shutdown is requested the process ends, and no wait on a rate limit has to
\* run out for it: request_shutdown wakes whoever sleeps, and nobody who waits for
\* the write lock is left without it.
StopCompletes == phase = "stopping" ~> phase = "down"

\* The dataset each service has in hand, for the abstract specification.
Fetched == [s \in Services |->
    IF \E t \in Tasks : Service(t) = s /\ task[t].pc \in {"write", "commit"}
    THEN ToSet(task[CHOOSE t \in Tasks :
                        Service(t) = s /\ task[t].pc \in {"write", "commit"}].items)
    ELSE {Nobody}]

Cache == INSTANCE DatasetCache WITH fetched <- Fetched, Nothing <- {Nobody}

\* The jobs implement the promise: datasets are replaced whole or not at all.
WholeOrUntouched == Cache!Spec

\* What _get_items says of itself: "a partial set is never returned", so an item
\* the backend served throughout the fetch is in the set that is stored.
NeverPartial ==
    [][\A t \in Tasks :
          (task[t].pc = "commit" /\ task'[t].pc = "success")
              => served[t] \cap Usable \subseteq cached'[Service(t)]]_vars

\* What the module says of its jobs: "every job catches transport, HTTP, and
\* payload errors and records status='error' instead of raising".
EveryErrorRecorded ==
    [][\A t \in Tasks :
          (task[t].pc # "idle" /\ task'[t].pc = "idle" /\ faults' = faults)
              => log'[Service(t)].run = task[t].run]_vars
=============================================================================
