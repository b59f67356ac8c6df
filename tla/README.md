# Verification of the family office portal

This directory is a TLA+ model of the portal in `src/app`: modules that follow
its code, TLC configurations that check them on small instances, and theorems
checked by the TLA+ proof system. `PROJECT.json` gives, for every definition,
the lines of the code it stands for, and for every run, what it checks.

## 1. The system

The portal is one FastAPI process (one uvicorn worker) over one SQLite file.
Pages never call a backend. Scheduled jobs pull datasets into the file, a
collector posts account balances to it, and pages read it. Beside the web
process, two scheduled commands keep a Qdrant collection in step with files that
a document pipeline writes; the chat panel searches that collection.

| Component | State it keeps | Operations | Interacts by |
|---|---|---|---|
| Balances and history (`balances.py`, `scheduler.py` 780-870) | tables `account_balances`, `balances_daily`, `refresh_log` | intake of a delivery, midday snapshot | `_WRITE_LOCK`, SQLite transactions, worker threads |
| Balance pages (`cache.py`, `routes/_context.py`, `chat/balances.py`) | none | several reads for one page or for one answer of the chat | reads the tables while deliveries commit |
| Refresh jobs (`scheduler.py` 160-780, `main.py`, `routes/admin.py`) | one cached table for each service, `refresh_log`, a lock for each service, the stop event | scheduled and manual refresh, start, stop | backends over HTTP, `_WRITE_LOCK`, APScheduler's pool, background tasks |
| Chat question (`chat/limits.py`, `routes/chat.py`, `chat/service.py`, `chat/client.py`) | quotas, tickets in flight, two model slots, all in memory | ask | event loop; search threads, model service |
| Document index (`retrieval/indexer.py`, `qdrant_store.py`, `chunk_sets.py`) | the points of the collection | one run over all files | pipeline's files, Qdrant calls, embedding service |
| Tax-law index (`retrieval/tax_law.py`) | points of another collection | one run over one file | as above |
| Embedding client, search (`retrieval/embeddings.py`, `search.py`) | connection pools | embed, search | retries; reads the collection |
| Documents (`routes/documents.py`, `document_files.py`) | an open upstream file for each request | list, search, preview, download | cache, then a streamed file |
| Identity (`middleware/authentik.py`, `main.py`) | settings, read at startup | judge a request by its token and path | Authentik's outpost, the proxy's mount, the router |
| Intake route (`routes/balances.py`, `models.py`) | none | check the key, the size and the content of a delivery | the one route without an identity; the store in a worker thread |
| Configuration, templates, health, scripts | none | | |

### What is hard, and what makes each component correct

* **Balances.** Deliveries and the snapshot run on different threads; each takes
  its clock readings, waits for the write lock, then runs several statements in
  a transaction that can fail, while midnight passes and the process stops. It
  is correct when the stored rows of a provider are one whole delivery, the
  history of a day agrees with what was stored under it, the last day covers
  every account, days that are over do not change, and no day is left out.
* **Balance pages.** Each read is a statement of its own. A page must not put
  together what was never true: "none reported" beside accounts that just
  arrived, a time newer than that of a provider that has gone silent, or, in the
  chat, a total that was never shown.
* **Refresh jobs.** The same job can be started by the scheduler and by an
  administrator; a fetch is many requests, the backend's list changes between
  them, a 429 puts the thread to sleep with the lock held, the write and its log
  row are two transactions, and a stop must reach every sleeping thread. It is
  correct when datasets are replaced whole or not at all, never by an older
  fetch, the log tells what is cached, and locks and the process are released.
* **Chat question.** A question is a chain of awaits and can stall, fail, time
  out or be cancelled at each. It is correct when a user has one question in
  flight, quotas hold over every window, the wait told to the browser is exact,
  and no slot is lost.
* **Document index.** A run is many calls to another service; any can be
  refused, be lost, or be the last before the process ends, and files change
  meanwhile. It is correct when a document that was handled has exactly the
  points of its file, one that may be an unconsented tax return has none, a
  document stays findable while it is rewritten, a missing mount deletes next to
  nothing, the exit status tells the truth and the collection catches up.
* **Documents and search.** A document is hidden by its row in the cache and by a
  label on each of its points, two copies of different age that change while a
  request goes on; a file is passed through from another service to a browser,
  and either can fail, fall silent or leave at any byte. It is correct when a
  Viewer gets nothing that was not open during the request, the passages of one
  document are decided alike, every exit closes what was opened, a body that was
  cut never looks whole, and a transfer ends.
* **Tax-law index and embedding client.** One file, embedded whole before the
  first write, then written in batches with the old points deleted last. It is
  correct when a run that ends anywhere is finished by the next, a subtopic
  stays findable meanwhile, a truncated file does not delete the collection, a
  refusal never hits the repair itself, vectors stand with their own texts, and
  a service that always asks for one more attempt does not keep the command.
* **Identity and intake.** A token outlives the groups it names and is judged by
  another host's clock; the middleware judges a path that the router may read
  differently; the intake has a key in place of an identity. It is correct when
  revocation is bounded, no genuine request is refused, no handler is reached
  without its role, the key comes before the body, and the answer of the intake
  tells what was stored.

`PROJECT.json` lists each hazard with its line and the properties that cover it,
or why none does.

## 2. The modules

| Module | Models | How it corresponds |
|---|---|---|
| `BalanceStore` | both writers of the balance tables | A task is a thread: `StoreDelivery` and `StartSnapshot` take the clock readings; `Write` takes the lock and runs the statements on what is committed, `Commit` and `Rollback` end the transaction and free the lock, `Record` writes the log row on its own connection. The statements are operators with the names of the functions (`ReplaceBalances`, `DropUnreported`, `SnapshotDaily`). `Tick` moves the clock and makes the snapshot due at noon; `Stop` and `Start` are the process. |
| `BalancePages` | `portfolio_accounts`, `read_balance_table`, the total of `balances_summary` | Extends `BalanceStore` with one reader, one step for each statement it runs; `Beside` is any step of the writers. `askew` remembers the two events after which the chat's total need not be one that was shown. |
| `RefreshJobs` | jobs, triggers, life cycle | A task is a job of a service, started by the scheduler or by hand. `StartScheduled` and `TriggerRefresh` try the service lock; `Limited`, `Unanswered`, `BareList` and `Page` are the endings of one request, `WaitOver` and `Wake` those of a wait on a rate limit, by its timer and by a stop; `Write`, `Commit`, `Abort`, `Record` and `Raise` end a run. `Drain`, `Shutdown`, `Exit`, `Kill` and `Start` are the process; `Change` is the backend. |
| `DatasetCache` | what a cached dataset promises | The abstract specification: fetch a set, replace the rows by it, give it up, crash. `RefreshJobs` implements it. |
| `ChatAsk` | limiter and one question | `Acquire` and `Refuse` are the limiter; the steps of a question end where the code awaits; each way out goes through `Release` and, where the code does, `Refund`. |
| `ChunkSets` | the meaning of a chunk-set file | One operator for each `_resolve_` function, over the values a set and its chunks give or leave out. |
| `DocIndex` | a run of the indexer and the collection | Reading a file and deciding what to do is one step (`Unreadable`, `Skip`, `Withdraw`, `Embed`), each call that changes the collection another (`Delete`, `Upsert` for a batch, `Prune`, `Remove`); `Refused` fails one document, `Stopped` ends the run, each with the call under way applied or not. A point holds what it was built from, which is also its digest. |
| `Embeddings` | the embedding client | `Answered`, `HoldOff`, `GiveUp` are the endings of one request of a batch, `Again` the end of a wait; a body is any sequence of labelled vectors, `Usable` and `VectorsOf` are `parse_response`. |
| `TaxLawIndex` | a run over the knowledge base | Extends `Embeddings`. `ReadFile` to `Delete` are the calls of a run in their order; `CallFails` is a call of the collection that fails and may have taken effect, `Kill` the end of the process between two calls. `calm` says when the services answer. |
| `Identity` | settings, tokens, the middleware | `Tick`, `StepClock`, `ChangeGroups`, `SignIn`, `Forward` and `Direct` are the world around the portal, `Judge` is the middleware. A path is the sequence of its segments. |
| `BalanceIntake` | the intake route | Extends `Identity`: a request that is passed to the intake is `Receive`d; each check is a step, a chunk of the body is a step, and `Leave` is the client. |
| `VisibleDocuments` | the documents table and who may see a row | `GetDocument` is the query of `get_document`; `Refresh` replaces the table as `_write_documents` does. `request` is the one that is served, with, as history, the documents that were open at some moment of it. |
| `FileProxy` | a preview or download | A step ends where the code awaits. `CheckFile` is the check in the cache and the settings; `SendFails`, `SendAnswers` and `CloseUnsent` are `open_upstream`; `SendStart`, `ReadChunk`, `ReadEnd`, `ReadFails`, `PassChunk` and `SendLast` the body; `TimeLimit`, `Disconnect` and `Kill` what can end it at any await; `CloseResponse` and `CloseClient` are `aclose`, from wherever it is called. |
| `Passages` | the passages of a question | `Build`, `Embed`, `QueryFamily`, `QueryLaw`, `SearchFails` and `CloseSearcher` are `_search` and `SearchService._run`; `Check` is one turn of the loop of `visible_results`, `Use` what follows it; `Reindex` is the index run of another process. |
| `DocumentAccess` | both, beside refreshes | Composes the two over one table. They are the two readers of the rule, so one specification states what it promises. |
| `BalanceStoreProofs`, `BalancePagesProofs` | | Theorems about `BalanceStore`, and about its readers on top of them. |
| `RefreshJobsProofs` | | Theorems about `RefreshJobs`, and that it implements `DatasetCache`. |
| `ChatAskProofs` | | Theorems about `ChatAsk`. |
| `DocIndexProofs` | | Theorems about `DocIndex` with `ChunkSets`. |
| `TaxLawIndexProofs` | | Theorems about `TaxLawIndex` with `Embeddings`. |
| `DocumentAccessProofs`, `BalanceIntakeProofs` | | Theorems about `DocumentAccess`, and about `BalanceIntake` with `Identity`. |
| `MC*` | | Small instances for TLC. |

A definition marked as a mutated form is what a plausible mistake in that
function would be. It is not part of the model: it stands there to show that the
property named with it in `PROJECT.json` would notice.

### What is abstracted

Amounts, items, texts and hashes are members of small sets. Clocks are counted
in ticks. The `_now()` and `local_today()` readings of a delivery are one step,
because nothing relates them. A refresh item is usable, malformed, not an
object, or one with an integer that fits no column of SQLite; the fields it
carries are left out. A service without a URL starts no run; one with a URL and
no key stops the process when `main` is imported (`check_backends`), so the
branch of `_run_refresh` for it is never taken by a process that serves, and is
left out. A dataset is the set of its usable
items. A digest is taken not to collide. Calls of the document index that only
read the collection are merged with the decision they lead to: nothing else
writes the collection during a run.

In `DocumentAccess` one request is served at a time: requests read the tables and
share nothing else. The bytes of a file are counted in units, and a length that
`_declared_length` does not accept is one value above every size. The transport
is assumed to tell a body that broke off from one that is over: a declared length
or chunks do, but a body that ends only with its connection does not, and
`aiter_bytes` (`document_files.py` 228) would then end in order on a part of the
file. `OrderlyEndIsWhole` is about a service that frames its bodies. The scores of
hits are left out, so any choice of `top_k` of them is possible, and the query
filter is not trusted, so that what `_drop_confidential` adds to it shows. A
direct `task.cancel()` inside the client's own close, or while a worker thread of
the search is waited for, is not modelled; cancel scopes are.

In `BalancePages` one reader is followed at a time, since readers share nothing.
In `TaxLawIndex` a vector is the text it was made from, so that a vector with
another text shows; what the service does with a text is not modelled. A wait
between two requests has a length, but no clock: it ends. In `Identity` the
signature, issuer, audience and claims of a token are one mark, "broken", and one
request is followed at a time; a genuine request takes at most `MaxTransit`, and
the two clocks are at most `MaxSkew` apart, which together are within the leeway:
the assumption the code states at `JWT_LEEWAY_SECONDS`. In `BalanceIntake` the
form of a row's fields is one mark, and rows are kept as they came; a declared
length is a size, nothing usable, or one that `isdigit()` accepts and `int()`
refuses.

## 3. The runs

| Run | Checks | Instance and bounds |
|---|---|---|
| `balances` | `TypeOK`, `ProviderWhole`, `DeliveryDayAgrees`, `LastDayComplete`, `PortfolioTrue`, `QuotedTotalWasTrue`, `PastDaysFrozen`, `DayCovered` | one thread of intake and the snapshot job, one provider with an account in USD and one that is not, another with one account; deliveries that swap, change and drop accounts; one midnight, two deliveries, one fault, one reader |
| `refresh_jobs` | `LogTellsCache`, `NeverBackwards`, `SteadyWhole`, `WholeOrUntouched`, `LockFreed`, `StopCompletes` | `entities`, paged with one item a page and at most two pages, with an integer too large to store, lists that go on beyond the last page and a total that can be infinite; `documents`, a bare list or one page without a total, with an item the writer skips; two runs, one retry, one change, one fault. A service without a URL is in the instance of `refresh_unrecorded` |
| `chat_ask` | `OneInFlight`, `WorkWithinQuota`, `WaitExact`, `SlotsAccounted` | two users, three posts (the two of one user are interchangeable), one slot, a minute of 2 ticks and an hour of 5, abandoned after 3, a clock of 5 ticks |
| `doc_index` | `HandledIsExact`, `ConsentFailsClosed`, `NeverNone`, `SweepKeepsMost`, `CatchesUp` | two documents, seven kinds of file and no file, two models, a batch of one point, a guard of one, two changes, one failing call |
| `tax_law` | `RepairNotRefused`, `ExitTells`, `KeptStayFindable`, `RunKeepsMost`, `RunEnds`, `CatchesUp` | five subtopics; files that add, drop, reword, blank and repeat them; batches of two, two attempts, a guard of two; any number of failures, kills and changes of the file |
| `identity` | `RevokedInTime`, `GenuineServed`, `HandlersGuarded`, `KeyBeforeBody`, `AnswerTells` | two groups, a token of 2 ticks, a leeway of 2, clocks one tick apart, a portal at the root without an intake key and one below a mount with a key, a request of each kind, deliveries that break each rule, a cap of two units |
| `document_access` | `FileWasOpen`, `PassagesWereOpen`, `AllOrNoneOfDocument`, `ConnectionsClosed`, `OrderlyEndIsWhole`, `FileEnds` | two documents, one with a dot segment for an id; a document with two points, one with one, a point of none, a point of the law; three labellings; two changes under a request; a cap of 2 units and files of up to 3; one cancellation past a shield |
| five `violation` runs | one property each | see the findings |

Why these bounds are enough for the cases that matter: two deliveries are the
least with which one provider's rows are replaced twice or while another's stay,
and the least that a reader of three statements can have between its first and
its last; one midnight is all that a date taken early can miss. The run has one
thread of intake: that any number of them is safe for the store and for its
readers is proved (section 4). Two runs of a job are one that overtakes
another. Windows of two and five ticks, a quota of one and of two let each of the
two quotas be the one that decides. A batch of one point leaves a document
mixed after one lost call, and the change before it and the change after it are
the two that are needed for the mixture to matter. A guard of one makes the
orphan guard decide with two documents. Four subtopics of which three go are
refused, of which two go are not, and two batches of two let a run end with half
of them written. A file one unit above the cap is refused by its length or,
without one, cut; two changes under a request hide a document and open it again,
between two hits of it. A token of two ticks is used, forwarded late and used
once more within the leeway, and five ticks hold its whole life and the leeway
after it. All bounds are constants (`MaxTime`,
`MaxDeliveries`, `MaxFaults`, `MaxRuns`, `MaxChanges`, `MaxSize`, `MaxKills`,
`MaxNow`)
and appear only in the
guards of the actions they limit.

`CHECK_DEADLOCK FALSE` is set where the clock has an end or the counts do: the
behaviour then stops only because a bound is reached.

### Fairness

* `BalanceStore`, `BalancePages` (`DayCovered`): weak fairness of `StartSnapshot`,
  since the pool starts a due job, and of each task's next step, since threads run. The clock
  does not pass a due job by: its misfire grace is an hour, which is within one
  tick. Nothing is assumed of deliveries, the clock or a stop.
* `RefreshJobs` (`FairSpec`): weak fairness of each started job, because a
  request has timeouts and a stop wakes who sleeps, and of `Shutdown` and `Exit`,
  because a process that is stopping goes on. That a draining process comes to its
  stop follows, since manual runs end. `FairSpec` says nothing of the timers:
  under it no wait on a rate limit need ever run out, so `StopCompletes` rests on
  the wake. `LockFreed` has the timers for its premise (`TimersEnd`, weak fairness
  of `WaitOver`). Faults, triggers and the backend are left free.
* `DocIndex` (`CatchesUp`): weak fairness of `StartRun`, because the indexer is a
  scheduled command, and of the run's steps. Faults and changes are bounded,
  which states "once calls stop failing and files stop changing".
* `TaxLawIndex` (`RunEnds`, `CatchesUp`): weak fairness of `ReadFile`, because the
  indexer is a scheduled command, and of the steps of a run, each of which has a
  timeout. Nothing makes the services answer: `RunEnds` holds when they never
  do, and `CatchesUp` assumes that at last they do and that the file stays.
* `DocumentAccess` (`FileEnds`): weak fairness of the check, of an answer or a
  failure of the document service, of the time limit, and of each close. The
  answer is an assumption about the service: the timeout before the headers is
  one on each connect, read and write (`document_files.py` 449), so headers that
  came a byte at a time could take longer than any bound, and the time limit only
  begins after them. Nothing is assumed of the browser, nor that the
  service ever sends a byte: the time limit alone must end the transfer.

### Findings

Each is a run that finds a statement of the repository violated.

* `balance_store_past_days`: a delivery that takes its date before midnight and
  the lock after it corrects, and deletes, rows of the day before.
* `refresh_shifted_page`: a list that shifts between two pages gives a full count
  with an item missing, and the dataset is replaced by it.
* `refresh_unrecorded`: an item of the entities list that is not an object ends
  the job with an exception and no log row.
* `chat_both_slots`: a user whose first question was abandoned while its form was
  read can hold both model slots.
* `doc_index_mixed`: after an interrupted rewrite of a letter as a tax return, an
  unreadable file leaves the points of the tax return, because the one point
  that is looked at decides for all.

Six more were met without a run of their own. A picture that cannot be read is
counted in the quota, where the limiter's comment says such a question is
refunded. When the last account in USD leaves, `MAX(date)` of the chat's balance
table is an older day and its total is quoted. And when that account leaves
between the two statements of `_daily_totals`, the minimum of no rows raises an
error that the question does not catch. These two are in `BalancePages`
(`LatestDay`, `Raised`) and are what `askew` excludes from `QuotedTotalWasTrue`.
A page whose answer has no total is taken for the only one, so that a longer list
is stored in part, as a success (`TotalOf`; `SteadyWhole` leaves such services
out). An integer that SQLite cannot hold, or an infinite total, raises
`OverflowError`, which is not caught either: no log row, as in
`refresh_unrecorded` (`Uncaught`, `Overflowing`). And the intake answers 500 to a
declared length that `isdigit()` accepts and `int()` does not, where the server
lets such a header through (`NotInt`).

## 4. The proofs

Every safety invariant and every action property that a passing run checks is
also a theorem, for every value of the constants that the modules' assumptions
allow: any sets of accounts, users, services, documents and files, any clock,
any length of a list, any size of a page or a batch, any guard, any number of
failures. So is the refinement of `DatasetCache`. The bounds that only keep the
runs finite (`MaxTime`, `MaxRuns`, `MaxFaults`, `MaxChanges` and so on) are
arbitrary naturals in the theorems. A proof is one inductive invariant (`IInv`,
`PagesInv` for the readers of the balances), one lemma for each kind of step, and
a theorem for each property. The part of an invariant that a property needs is
named for what the code relies on. Each invariant was checked by TLC on the
instance of its run before it was proved.

`BalanceStoreProofs` proves, for any finite or infinite sets of accounts,
providers, requests and deliveries and any length of the day, under
`ConstantsAssumption` only:

* `TypeCorrect`: `Spec => []TypeOK`;
* `StoredIsOneDelivery`, `HistoryAgrees`, `LastDayCovers`: the three safety
  invariants of the store;
* `PastIsFrozen`: its action property.

None of the three invariants is inductive. A commit stores what its transaction
wrote, so it must be known that this is still what the statements would make of
the committed tables. The inductive invariant `IInv` adds what the code relies on:

* `LockHeld`: a task with an open transaction holds the write lock, so there is
  one at most;
* `WorkCurrent`: an open transaction is what its statements make of the tables
  as they are committed now; it holds because no other commit comes in between;
* `SnapshotEmpty`: the snapshot job carries no delivery, so its commit replaces
  no provider.

`CommitBalances` and `CommitHistory` then say what a commit does to one account
and to one day, and each invariant follows by cases on whose rows were replaced.
The proof of a step has one case for each action; only `Write`, `Commit` and
`Rollback` need more than the definitions.

`BalancePagesProofs` extends it: the invariant of the readers stands on that of the
writers, and the theorems hold with any number of threads of intake.

* `PortfolioIsTrue` needs `PortfolioSoFar`: a commit never empties the table
  (`RowsStay`), and the time that was read is that of the oldest provider then
  listed. With two deliveries of one provider that commit in the inverse order of
  their clock readings, the rows of a provider can go back in time between the
  two reads, so that the time shown is newer than its rows: a statement about the
  rows of the second read is no invariant, though one thread of intake never
  breaks it. The property is about the last deliveries at the moment the list
  was read (`page.sent`), which is what the page can promise.
* `QuotedWasTrue` needs `LastDayIsHome` (the history of the day written last is
  what Home shows, and no later day has rows) and `ChatSoFar` (what each of the
  three statements has in hand is of a total seen since the first). `askew`
  excludes the two events after which `LastDayIsHome` fails.

`RefreshJobsProofs` proves three properties of the run `refresh_jobs` and that
`RefreshJobs` implements `DatasetCache` (`Implementation`). None is inductive.
`IInv` adds:

* `ServiceLocks`, `WriteLocks`: who is past its start holds the lock of its
  service, who has a transaction open holds the write lock, and nobody else does;
* `RunOrder`: runs are numbered as they take the lock, so that an uncommitted run
  is newer than what is cached. `Backwards` follows from it, and with
  `LogTellsCache` itself, `LogTells`;
* `SteadyReads`: how far a fetch of a list that has not changed has come, page by
  page (`ReadSoFar`), and that at its end it has the whole list (`ReadAll`).
  `Whole` follows.

In `Implementation` each action maps to one of `DatasetCache` or to a stutter:
the fetched set is that of the items in hand, and a commit replaces the rows by
it as a whole.

`ChatAskProofs` proves the four invariants of the run `chat_ask`:

* `TicketHeld` (a running question holds its user's ticket unless it is abandoned)
  gives `OneAtATime`. It survives the identity test of `release`, which frees only
  the ticket that the question itself holds;
* `StampsKept` (the deque has every counted stamp of the last hour, whatever was
  swept), `StampsOfRunning` (a running question is counted, under a stamp of its
  own, until it is refunded) and `QuotaKept` (every window holds at most the
  quota of counted stamps) give `WithinQuota`. A window that ends now is judged by
  `acquire`; for an older one no stamp is added;
* `BlockerFound` and `WaitForExact` are what `ExactWait` rests on: the stamp that
  decides is the quota-th newest, and it is found by taking the least of a set of
  times, so that no induction is needed;
* `SlotsCounted` (free slots and open calls make up all of them) is
  `NoSlotLost`, on each way a question can end.

`DocIndexProofs` proves the two invariants and the two action properties of the
run `doc_index`:

* `PointsInPlace` (a point sits where its own set has a text), without which
  `_is_unchanged`, which compares a count and a digest, could take a document for
  complete that has a point too many in one place and one too few in another.
  `HandledExactly` is where this is used: as many points as the set has texts,
  all of them of that set, in place, are all its points (a count of a part equals
  that of the whole);
* `BatchesUp` (the batches that went up are in place) and `ReadingFits` (what was
  read says which calls are made) give the rest of it, and `AlwaysSomething`: a
  prune leaves at least one point of the new set;
* `Handled` also says that a document without points stays so after the run, and
  with `ConsentClosed` the fail-closed rules of `ChunkSets` reach the collection;
* `SweepInBounds` (what a sweep deletes is of what the guard weighed) gives
  `SweepsKeepMost`.

`TaxLawIndexProofs` proves the invariant and the three action properties of the
run `tax_law`, and that no wait is longer than the cap:

* `VectorsInOrder`: the vectors that came and the texts still to send, one after
  the other, are the texts of the file. `UsableIsComplete` is the lemma about
  `parse_response`: a body that passes its checks has each text's vector at its
  place, in whatever order the entries came. With it, `ExitIsTold` speaks of
  vectors as well as texts;
* `UntouchedSoFar`, `PassedTheGuard`, `UpSoFar`: nothing is written before the
  guard; what it lets a run delete was there when the run began and is not of the
  file; the batches that went up are those of the file, what the file has and
  what it has not are otherwise untouched. They give `NeverLost` and `MostIsKept`;
* `GuardStaysPassed`: of a file that passed the guard, no write of its run makes
  the guard refuse it (`GuardAgain`: stale points only get fewer, kept ones only
  more). `InterruptedIsRepaired` follows. It is kept when a run is cut short or
  another file is refused, so it is about the file that passed last, not about
  the last run;
* `NthExists`: the subtopics with content are as many as their places, by the
  pigeonhole principle in place of an induction.

`DocumentAccessProofs` proves the five invariants of its run, its type invariant
and that the cap is kept (`CapHolds`), for any documents,
points, labellings, cap, size of file and number of changes and cancellations,
under the assumptions of the modules it extends (`TablesAssumption`,
`ProxyAssumption`, `PassagesAssumption`). The properties speak of the end of a
request, the invariant `IInv` of every point of it, in four parts:

* `RequestInv`: what is open now is among what was open during the request;
* `FileInv`: where the bytes are (`BytesCounted`: what was read is what was
  handed on and the chunk in hand, until an interruption), that an outcome is
  known only when nothing but closing is left (`EndKnown`), and which steps have
  a client (`FileClosed`);
* `AskInv`: what the check has done with the hits it has seen (`HitsDecided`:
  kept exactly when the one look at their document found it open) and that all
  it found was labelled open (`HitsOpen`);
* `OneKind`: which of the two is served.

`FileWasOpen` is a part of it as it stands.

`FileStep` and `AskStep` show that each half keeps its own part, `FileFrame` and
`QuestionFrame` that it leaves the other's alone except at its two ends, and
`NextInv` puts them together.

`BalanceIntakeProofs` proves the five properties of the run `identity`, and types,
for any groups, settings, mounts, calls and deliveries, any life of a token, and
any leeway that covers the skew and the way (`IdentityAssumption`,
`IntakeAssumption`). The invariant `IInv` adds to the properties:

* `ClockInv` and `Sound`: `lastIn` never goes back, so a token that names only
  groups its owner was in when it was issued keeps doing so;
* `SentInv`: a genuine request left with a token that was alive, at most
  `MaxTransit` ago. With `VerifiedInTime`, which is where the leeway is weighed
  against the skew and the way, it is what `GenuineAreServed` needs;
* `BytesTaken` and `StoredAtEnd`: no byte before the key, nothing stored and
  nothing answered before the end.

`RoutedPath` and `HandlerOf` say that the middleware judges the path the router
runs, and what each handler tells of it; `JudgedGuarded` follows by cases of the
judgement. `RevocationIsBounded` is an action property: the only step that gives
a request a role is `Judge`, and the token it judges is sound and not long
expired.

### What is only model-checked, and why

* Liveness: `DayCovered`, `LockFreed`, `StopCompletes`, `CatchesUp` (twice),
  `RunEnds` and `FileEnds`. Fairness and `ENABLED` are out of the prover's reach.
* The five findings, which are runs.
* What a definition computes by recursion over data, for every input. No module
  declares a recursive operator, and the proofs do without such facts: where the
  least of a set is needed it comes from the well-foundedness of the naturals.
* That a wait between two requests is not negative. The doubling of the delay is a
  power of two, the provers know no fact about powers, and the type has only the
  cap.

## 5. What is left

Proofs: what makes the liveness properties true is in reach where it is safety.
Of `RefreshJobs`, that whoever sleeps after a stop has the stop to wake it; of
`TaxLawIndex`, a measure of a run that every step of it lowers, with the attempts
left for a batch (`AttemptsLeft` is a part of the invariant already); of
`FileProxy`, that each state of a transfer whose limit has passed has a close to
take. And of `BalanceStore` and `BalancePages`, what exactly can be said with a
delivery that commits after a newer one.

### Not modelled, and why

Templates, wording, logging, the prompt, images and the rendering of answers are
layout or pure conversion. Of the settings that `Identity` does not have, a
backend's URL and key are checked when `main` is imported, and the process ends
when they are wrong; the jobs and the intake call `load_settings` again for each
call, on an environment that stays what it was (a wrong pair found then would be
logged and recorded, not raised). Pages that read one table in one
statement (trend, breakdown, manual marks, entities, lists of documents) see one
committed state and add nothing to what is proved or checked of the writers. Two
overlapping runs of one indexer are ruled out by the schedule, not by the code;
the modules have one run at a time for that reason. The vectors
and their similarity are the collection's. Qdrant, the
backends, the model service, the embedding service and the pipeline are modelled
from how the code uses them: an answer, a refusal, silence, or a change of what
they serve.
