-------------------------- MODULE RefreshJobsProofs --------------------------
(***************************************************************************)
(* Theorems about RefreshJobs, for any services, items, lists, page sizes, *)
(* retry budgets and bounds.                                               *)
(***************************************************************************)
EXTENDS RefreshJobs, TLAPS

-----------------------------------------------------------------------------
(***************************************************************************)
(* The inductive invariant, in parts.                                      *)
(***************************************************************************)
\* A task that is past its start holds its service's lock, and no other does.
ServiceLocks ==
    \A t \in Tasks : task[t].pc # "idle" <=> serviceLock[Service(t)] = t

\* The transaction that is open is the holder's of the write lock.
WriteLocks == \A t \in Tasks : task[t].pc = "commit" <=> writeLock = t

\* Runs are numbered as they start, and a run that has not committed is newer
\* than the rows of its service.
RunOrder ==
    /\ \A s \in Services : cachedRun[s] <= runs
    /\ \A t \in Tasks :
        /\ task[t].run <= runs
        /\ task[t].pc \in Labels \ {"idle", "success"} =>
              cachedRun[Service(t)] < task[t].run
        /\ task[t].pc = "success" => cachedRun[Service(t)] = task[t].run

\* A fetch whose list has not changed, of a backend that tells its total, has
\* read that list from its front.
ReadSoFar(job, list, set) ==
    job.pc \in {"request", "sleep"} =>
        /\ set = ToSet(list)
        /\ Len(job.items) = (job.page - 1) * PageSize
        /\ Len(job.items) <= Len(list)
        /\ \A n \in 1 .. Len(job.items) : job.items[n] = list[n]
        /\ job.page # 1 => job.total = Len(list)

\* ... and when it is over, it has all of it in hand.
ReadAll(job, set) == job.pc \in {"write", "commit"} => ToSet(job.items) = set

Steady(t) == steady[t] /\ Service(t) \notin Untotalled

SteadyReads ==
    \A t \in Tasks : Steady(t) =>
        /\ ReadSoFar(task[t], backend[Service(t)], served[t])
        /\ ReadAll(task[t], served[t])

IInv ==
    /\ TypeOK
    /\ ServiceLocks
    /\ WriteLocks
    /\ RunOrder
    /\ SteadyReads
    /\ LogTellsCache

-----------------------------------------------------------------------------
(***************************************************************************)
(* Facts about the operators.                                              *)
(***************************************************************************)
\* An idle task's record.
LEMMA IdleType ==
  /\ Idle \in Jobs
  /\ Idle.pc = "idle" /\ Idle.items = <<>> /\ Idle.page = 1 /\ Idle.run = 0
<1>1. <<>> \in Seq(Items)
  OBVIOUS
<1>2. "idle" \in Labels
  BY DEF Labels
<1>. QED
  BY <1>1, <1>2, RefreshAssumption DEF Idle, Jobs

\* A run whose fetch is over with the items to write.
LEMMA ReadJob ==
  ASSUME NEW job \in Jobs
  PROVE  /\ Read(job) \in Jobs
         /\ Read(job).pc = "write"
         /\ Read(job).run = job.run
         /\ Read(job).items = job.items
<1>1. ASSUME NEW j, j = Read(job)
      PROVE  j = [pc |-> "write", items |-> job.items, total |-> 0, page |-> 1,
                  left |-> 0, run |-> job.run]
  BY <1>1 DEF Read, Idle, Jobs
<1>2. "write" \in Labels /\ 0 \in Nat /\ 1 \in 1 .. MaxPages /\ 0 \in 0 .. MaxRetries
  BY RefreshAssumption DEF Labels
<1>3. job.items \in Seq(Items) /\ job.run \in Nat
  BY DEF Jobs
<1>. QED
  BY <1>1, <1>2, <1>3 DEF Jobs

\* A run with only its outcome left to record.
LEMMA EndedJob ==
  ASSUME NEW job \in Jobs, NEW label \in Labels
  PROVE  /\ Ended(job, label) \in Jobs
         /\ Ended(job, label).pc = label
         /\ Ended(job, label).run = job.run
<1>1. ASSUME NEW j, j = Ended(job, label)
      PROVE  j = [pc |-> label, items |-> <<>>, total |-> 0, page |-> 1,
                  left |-> 0, run |-> job.run]
  BY <1>1 DEF Ended, Idle, Jobs
<1>2. 0 \in Nat /\ 1 \in 1 .. MaxPages /\ 0 \in 0 .. MaxRetries
  BY RefreshAssumption
<1>3. <<>> \in Seq(Items)
  OBVIOUS
<1>4. job.run \in Nat
  BY DEF Jobs
<1>5. ASSUME NEW run \in Nat, NEW j,
             j = [pc |-> label, items |-> <<>>, total |-> 0, page |-> 1,
                  left |-> 0, run |-> run]
      PROVE  j \in Jobs /\ j.pc = label /\ j.run = run
  BY ONLY <1>2, <1>3, <1>5, label \in Labels DEF Jobs
<1>. QED
  BY <1>1, <1>4, <1>5

\* A run that begins: its first request, with the whole budget of retries.
LEMMA BegunJob ==
  ASSUME NEW n \in Nat,
         NEW job, job = [Idle EXCEPT !.pc = "request", !.left = MaxRetries, !.run = n]
  PROVE  /\ job \in Jobs
         /\ job.pc = "request" /\ job.run = n
         /\ job.items = <<>> /\ job.page = 1
<1>1. job = [pc |-> "request", items |-> <<>>, total |-> 0, page |-> 1,
             left |-> MaxRetries, run |-> n]
  BY DEF Idle
<1>2. "request" \in Labels
  BY DEF Labels
<1>3. <<>> \in Seq(Items)
  OBVIOUS
<1>4. MaxRetries \in Nat /\ MaxPages \in Nat \ {0}
  BY RefreshAssumption
<1>5. job \in Jobs
  BY ONLY <1>1, <1>2, <1>3, <1>4, n \in Nat DEF Jobs
<1>. QED
  BY ONLY <1>1, <1>5

\* The smaller of two numbers.
LEMMA MinOfTwo ==
  ASSUME NEW m \in Int, NEW n \in Int
  PROVE  Min({m, n}) = IF m <= n THEN m ELSE n
<1>1. \E x \in {m, n} : \A y \in {m, n} : x <= y
  OBVIOUS
<1>2. /\ Min({m, n}) \in {m, n}
      /\ \A y \in {m, n} : Min({m, n}) <= y
  BY <1>1 DEF Min
<1>. QED
  BY <1>2

\* A page is a stretch of the list.
LEMMA PageOfType ==
  ASSUME NEW list \in Seq(Items), NEW n \in Nat \ {0}
  PROVE  PageOf(list, n) \in Seq(Items)
<1> DEFINE from == (n - 1) * PageSize + 1
           upto == Min({n * PageSize, Len(list)})
<1>1. n * PageSize \in Nat /\ (n - 1) * PageSize \in Nat
  BY RefreshAssumption
<1>2. from \in Nat \ {0} /\ upto \in Int /\ upto <= Len(list)
  BY <1>1, MinOfTwo
<1>3. PageOf(list, n) = SubSeq(list, from, upto)
  BY DEF PageOf
<1> HIDE DEF from, upto
<1>. QED
  BY <1>2, <1>3

\* ... and when the pages before it are within the list, it goes on from them.
LEMMA PageOfIs ==
  ASSUME NEW list \in Seq(Items), NEW n \in Nat \ {0},
         (n - 1) * PageSize <= Len(list)
  PROVE  /\ Len(PageOf(list, n)) = IF n * PageSize <= Len(list)
                                   THEN PageSize ELSE Len(list) - (n - 1) * PageSize
         /\ \A i \in 1 .. Len(PageOf(list, n)) :
               PageOf(list, n)[i] = list[(n - 1) * PageSize + i]
<1> DEFINE before == (n - 1) * PageSize
           upto == Min({n * PageSize, Len(list)})
<1>1. /\ before \in Nat /\ before <= Len(list)
      /\ n * PageSize = before + PageSize /\ PageSize \in Nat \ {0}
  BY RefreshAssumption
<1>2. upto = IF before + PageSize <= Len(list) THEN before + PageSize ELSE Len(list)
  BY <1>1, MinOfTwo
<1>3. PageOf(list, n) = SubSeq(list, before + 1, upto)
  BY DEF PageOf
<1> HIDE DEF before, upto
<1>4. /\ Len(PageOf(list, n)) = upto - before
      /\ \A i \in 1 .. upto - before : PageOf(list, n)[i] = list[before + i]
  BY <1>1, <1>2, <1>3
<1>5. /\ Len(PageOf(list, n)) = IF before + PageSize <= Len(list)
                                THEN PageSize ELSE Len(list) - before
      /\ \A i \in 1 .. Len(PageOf(list, n)) : PageOf(list, n)[i] = list[before + i]
  BY <1>1, <1>2, <1>4
<1>. QED
  BY <1>1, <1>5 DEF before

\* A job with a page more: its list is longer by the page.
LEMMA WithPageJob ==
  ASSUME NEW s, NEW job \in Jobs, NEW list \in Seq(Items)
  PROVE  /\ WithPage(s, job, list) \in Jobs
         /\ WithPage(s, job, list).pc = job.pc
         /\ WithPage(s, job, list).run = job.run
         /\ WithPage(s, job, list).page = job.page
         /\ WithPage(s, job, list).items = job.items \o PageOf(list, job.page)
         /\ WithPage(s, job, list).total =
              IF job.page = 1 THEN TotalOf(s, list) ELSE job.total
<1> DEFINE items == job.items \o PageOf(list, job.page)
           total == IF job.page = 1 THEN TotalOf(s, list) ELSE job.total
<1>1. job.page \in Nat \ {0} /\ job.total \in Nat /\ job.items \in Seq(Items)
  BY RefreshAssumption DEF Jobs
<1>2. items \in Seq(Items)
  BY <1>1, PageOfType
<1>3. total \in Nat
  <2>1. PageOf(list, 1) \in Seq(Items)
    BY PageOfType
  <2>2. Len(PageOf(list, 1)) \in Nat /\ Len(list) \in Nat
    BY <2>1
  <2>. QED
    BY <1>1, <2>2 DEF TotalOf
<1>4. WithPage(s, job, list) = [job EXCEPT !.items = items, !.total = total]
  BY DEF WithPage
<1> HIDE DEF items, total
<1>5. ASSUME NEW j, j = [job EXCEPT !.items = items, !.total = total]
      PROVE  /\ j \in Jobs
             /\ j.pc = job.pc /\ j.run = job.run /\ j.page = job.page
             /\ j.items = items /\ j.total = total
  BY ONLY <1>2, <1>3, <1>5, job \in Jobs DEF Jobs
<1>. QED
  BY <1>4, <1>5 DEF items, total

\* What comes after a page: a run that goes on, has all of it, or has failed.
LEMMA AfterPageJob ==
  ASSUME NEW job \in Jobs
  PROVE  /\ AfterPage(job) \in Jobs
         /\ AfterPage(job).run = job.run
         /\ AfterPage(job).pc \in {job.pc, "write", "failed"}
         /\ AfterPage(job).pc \notin {"write", "failed"} =>
               /\ Len(job.items) < job.total
               /\ AfterPage(job).items = job.items
               /\ AfterPage(job).page = job.page + 1
               /\ AfterPage(job).total = job.total
         /\ AfterPage(job).pc = "write" /\ job.pc # "write" =>
               /\ Len(job.items) >= job.total
               /\ AfterPage(job).items = job.items
<1>1. CASE Len(job.items) >= job.total
  BY <1>1, ReadJob DEF AfterPage
<1>2. CASE Len(job.items) < job.total /\ job.page = MaxPages
  <2>1. "failed" \in Labels
    BY DEF Labels
  <2>2. AfterPage(job) = Ended(job, "failed")
    BY <1>2 DEF AfterPage, Jobs
  <2>. QED
    BY <2>1, <2>2, EndedJob
<1>3. CASE Len(job.items) < job.total /\ job.page # MaxPages
  <2>1. AfterPage(job) = [job EXCEPT !.page = job.page + 1]
    BY <1>3 DEF AfterPage, Jobs
  <2>2. job.page + 1 \in 1 .. MaxPages
    BY <1>3, RefreshAssumption DEF Jobs
  <2>3. ASSUME NEW j, j = [job EXCEPT !.page = job.page + 1]
        PROVE  /\ j \in Jobs
               /\ j.pc = job.pc /\ j.run = job.run /\ j.items = job.items
               /\ j.page = job.page + 1 /\ j.total = job.total
    BY ONLY <2>2, <2>3, job \in Jobs DEF Jobs
  <2>. QED
    BY <1>3, <2>1, <2>3
<1>4. Len(job.items) \in Nat /\ job.total \in Nat
  BY DEF Jobs
<1>. QED
  BY <1>1, <1>2, <1>3, <1>4

-----------------------------------------------------------------------------
(***************************************************************************)
(* What a step of a fetch does, whichever it is.                           *)
(***************************************************************************)
\* A service's list is a sequence of items.
LEMMA BackendType ==
  ASSUME TypeOK, NEW s \in Services
  PROVE  backend[s] \in Seq(Items)
BY RefreshAssumption DEF TypeOK, Backends

\* A page more of a list that has not changed: the front of it that was read is
\* longer, or is all of it.
LEMMA PageReads ==
  ASSUME NEW job \in Jobs, job.pc = "request", NEW list \in Seq(Items), NEW set,
         NEW s, s \notin Untotalled, ReadSoFar(job, list, set)
  PROVE  LET next == AfterPage(WithPage(s, job, list))
         IN ReadSoFar(next, list, set) /\ ReadAll(next, set)
<1> DEFINE more == WithPage(s, job, list)
           next == AfterPage(more)
           batch == PageOf(list, job.page)
           before == (job.page - 1) * PageSize
<1>1. /\ job.page \in Nat \ {0} /\ job.page <= MaxPages
      /\ job.items \in Seq(Items) /\ job.total \in Nat
  BY RefreshAssumption DEF Jobs
<1>2. /\ set = ToSet(list)
      /\ Len(job.items) = before /\ before <= Len(list)
      /\ \A n \in 1 .. Len(job.items) : job.items[n] = list[n]
      /\ job.page # 1 => job.total = Len(list)
  BY DEF ReadSoFar
<1>3. /\ more \in Jobs /\ more.pc = "request" /\ more.page = job.page
      /\ more.items = job.items \o batch
      /\ more.total = Len(list)
  <2>1. /\ more \in Jobs /\ more.pc = job.pc /\ more.page = job.page
        /\ more.items = job.items \o batch
        /\ more.total = IF job.page = 1 THEN TotalOf(s, list) ELSE job.total
    BY WithPageJob
  <2>2. TotalOf(s, list) = Len(list)
    BY DEF TotalOf
  <2>. QED
    BY ONLY <1>2, <2>1, <2>2, job.pc = "request"
<1>4. /\ batch \in Seq(Items)
      /\ Len(batch) = IF job.page * PageSize <= Len(list)
                      THEN PageSize ELSE Len(list) - before
      /\ \A i \in 1 .. Len(batch) : batch[i] = list[before + i]
  BY <1>1, <1>2, PageOfIs, PageOfType
<1>5. /\ before \in Nat /\ Len(list) \in Nat /\ PageSize \in Nat
      /\ job.page * PageSize = before + PageSize
      /\ ((job.page + 1) - 1) * PageSize = job.page * PageSize
  <2>1. PageSize \in Nat /\ Len(list) \in Nat
    BY RefreshAssumption
  <2>2. (job.page + 1) - 1 = job.page
    BY <1>1
  <2>3. \A p \in Nat \ {0}, k \in Nat :
           (p - 1) * k \in Nat /\ p * k = (p - 1) * k + k
    OBVIOUS
  <2>. QED
    BY <1>1, <2>1, <2>2, <2>3
<1>6. /\ next \in Jobs /\ next.pc \in {"request", "write", "failed"}
      /\ next.pc = "request" =>
            /\ Len(more.items) < Len(list)
            /\ next.items = more.items /\ next.page = job.page + 1
            /\ next.total = Len(list)
      /\ next.pc = "write" => Len(more.items) >= Len(list) /\ next.items = more.items
  BY <1>3, AfterPageJob
<1> HIDE DEF more, next, batch, before
<1>7. /\ more.items \in Seq(Items)
      /\ Len(more.items) = before + Len(batch)
      /\ Len(more.items) <= Len(list)
  <2>1. more.items \in Seq(Items) /\ Len(more.items) = Len(job.items) + Len(batch)
    <3>1. \A a, b \in Seq(Items) :
             a \o b \in Seq(Items) /\ Len(a \o b) = Len(a) + Len(b)
      OBVIOUS
    <3>. QED
      BY <1>1, <1>3, <1>4, <3>1
  <2>2. Len(batch) <= Len(list) - before
    BY <1>1, <1>4, <1>5
  <2>3. Len(batch) \in Nat
    BY <1>4
  <2>. QED
    BY <1>2, <1>5, <2>1, <2>2, <2>3
<1>8. \A n \in 1 .. Len(more.items) : more.items[n] = list[n]
  <2> SUFFICES ASSUME NEW n \in 1 .. Len(more.items) PROVE more.items[n] = list[n]
    OBVIOUS
  <2>1. CASE n <= before
    BY <1>1, <1>2, <1>3, <1>4, <1>7, <2>1
  <2>2. CASE n > before
    <3>1. \A a, b \in Seq(Items), m \in Nat :
             m \in 1 .. Len(a) + Len(b) /\ m > Len(a) => (a \o b)[m] = b[m - Len(a)]
      OBVIOUS
    <3>2. n \in Nat /\ n \in 1 .. Len(job.items) + Len(batch) /\ n > Len(job.items)
      BY <1>2, <1>7, <2>2
    <3>3. more.items[n] = batch[n - before]
      <4>1. job.items \in Seq(Items) /\ batch \in Seq(Items)
        BY <1>1, <1>4
      <4>2. (job.items \o batch)[n] = batch[n - Len(job.items)]
        BY ONLY <3>1, <3>2, <4>1
      <4>. QED
        BY <1>2, <1>3, <4>2
    <3>4. n - before \in 1 .. Len(batch)
      BY <1>4, <1>5, <1>7, <2>2
    <3>5. batch[n - before] = list[before + (n - before)]
      BY <1>4, <3>4
    <3>6. before + (n - before) = n
      BY <1>5, <1>7
    <3>. QED
      BY <3>3, <3>5, <3>6
  <2>. QED
    BY <1>5, <1>7, <2>1, <2>2
<1>9. ReadSoFar(next, list, set)
  <2> SUFFICES ASSUME next.pc = "request"
               PROVE  /\ set = ToSet(list)
                      /\ Len(next.items) = (next.page - 1) * PageSize
                      /\ Len(next.items) <= Len(list)
                      /\ \A n \in 1 .. Len(next.items) : next.items[n] = list[n]
                      /\ next.page # 1 => next.total = Len(list)
    BY <1>6 DEF ReadSoFar
  <2>1. Len(batch) = PageSize
    BY <1>4, <1>5, <1>6, <1>7
  <2>2. Len(next.items) = (next.page - 1) * PageSize
    BY <1>1, <1>5, <1>6, <1>7, <2>1
  <2>. QED
    BY <1>2, <1>6, <1>7, <1>8, <2>2
<1>10. ReadAll(next, set)
  <2> SUFFICES ASSUME next.pc = "write" PROVE ToSet(next.items) = set
    BY <1>6 DEF ReadAll
  <2>1. next.items = list
    BY <1>5, <1>6, <1>7, <1>8
  <2>. QED
    BY <1>2, <2>1
<1>. QED
  BY <1>9, <1>10 DEF next, more

Fetching(t) ==
    \/ Limited(t) \/ WaitOver(t) \/ Wake(t) \/ Unanswered(t) \/ BareList(t) \/ Page(t)

\* The job a step of a fetch leaves behind.
FetchesTo(t, job) ==
    /\ job \in Jobs
    /\ task[t].pc \in {"request", "sleep"}
    /\ job.pc \in {"request", "sleep", "write", "failed", "raised"}
    /\ job.run = task[t].run
    /\ Service(t) \notin Untotalled /\ ReadSoFar(task[t], backend[Service(t)], served[t]) =>
          /\ ReadSoFar(job, backend[Service(t)], served[t])
          /\ ReadAll(job, served[t])
    /\ Become(t, job)
    /\ UNCHANGED fetchRest

\* Every step of a fetch is of that form.
LEMMA FetchingStep ==
  ASSUME TypeOK, NEW t \in Tasks, Fetching(t)
  PROVE  \E job : FetchesTo(t, job)
<1> DEFINE list == backend[Service(t)]
<1>1. task[t] \in Jobs /\ Service(t) \in Services
  BY DEF TypeOK, Tasks, Service
<1>2. list \in Seq(Items)
  BY <1>1, BackendType
<1>3. {"failed", "raised", "sleep", "request"} \subseteq Labels
  BY DEF Labels
<1>4. ASSUME NEW label \in {"failed", "raised"}, Become(t, Ended(task[t], label)),
             task[t].pc \in {"request", "sleep"}, UNCHANGED fetchRest
      PROVE  FetchesTo(t, Ended(task[t], label))
  <2>1. /\ Ended(task[t], label) \in Jobs
        /\ Ended(task[t], label).pc = label
        /\ Ended(task[t], label).run = task[t].run
    BY <1>1, <1>3, EndedJob
  <2>. QED
    BY <1>4, <2>1 DEF FetchesTo, ReadSoFar, ReadAll
<1>5. ASSUME Become(t, Ended(task[t], "failed")), task[t].pc \in {"request", "sleep"},
             UNCHANGED fetchRest
      PROVE  FetchesTo(t, Ended(task[t], "failed"))
  BY <1>4, <1>5
<1> HIDE DEF list
<1>6. CASE Limited(t)
  <2>1. CASE task[t].left > 0
    <3>1. Become(t, [task[t] EXCEPT !.pc = "sleep", !.left = task[t].left - 1])
      BY <1>6, <2>1 DEF Limited
    <3>2. task[t].left - 1 \in 0 .. MaxRetries
      BY <1>1, <2>1, RefreshAssumption DEF Jobs
    <3> DEFINE left == task[t].left - 1
               sleeping == "sleep"
    <3>3. PICK j : j = [task[t] EXCEPT !.pc = sleeping, !.left = left]
      OBVIOUS
    <3> HIDE DEF left, sleeping
    <3>4. /\ j \in Jobs
          /\ j.pc = sleeping /\ j.run = task[t].run /\ j.items = task[t].items
          /\ j.page = task[t].page /\ j.total = task[t].total
      <4>1. left \in 0 .. MaxRetries /\ sleeping \in Labels
        BY <1>3, <3>2 DEF left, sleeping
      <4>. QED
        BY ONLY <1>1, <3>3, <4>1 DEF Jobs
    <3> USE DEF left, sleeping
    <3>5. /\ j \in Jobs
          /\ j.pc = "sleep" /\ j.run = task[t].run /\ j.items = task[t].items
          /\ j.page = task[t].page /\ j.total = task[t].total
      BY <3>4
    <3>6. FetchesTo(t, j)
      BY <1>6, <3>1, <3>3, <3>5 DEF FetchesTo, Limited, ReadSoFar, ReadAll
    <3>. QED
      BY <3>6
  <2>2. CASE ~(task[t].left > 0)
    BY <1>5, <1>6, <2>2 DEF Limited
  <2>. QED
    BY <2>1, <2>2
<1>7. CASE WaitOver(t)
  <2>1. PICK j : j = [task[t] EXCEPT !.pc = "request"]
    OBVIOUS
  <2>2. ASSUME NEW label \in Labels, j = [task[t] EXCEPT !.pc = label]
        PROVE  /\ j \in Jobs
               /\ j.pc = label /\ j.run = task[t].run /\ j.items = task[t].items
               /\ j.page = task[t].page /\ j.total = task[t].total
    BY ONLY <1>1, <2>2 DEF Jobs
  <2>3. /\ j \in Jobs
        /\ j.pc = "request" /\ j.run = task[t].run /\ j.items = task[t].items
        /\ j.page = task[t].page /\ j.total = task[t].total
    BY <1>3, <2>1, <2>2
  <2>4. FetchesTo(t, j)
    BY <1>7, <2>1, <2>3 DEF FetchesTo, WaitOver, ReadSoFar, ReadAll
  <2>. QED
    BY <2>4
<1>8. CASE Wake(t) \/ Unanswered(t)
  BY <1>4, <1>8 DEF Wake, Unanswered
<1>9. CASE BareList(t)
  <2>1. CASE ToSet(list) \cap Junk # {}
    BY <1>5, <1>9, <2>1 DEF BareList, list
  <2>2. CASE ToSet(list) \cap Junk = {}
    <3>1. PICK j : j = [task[t] EXCEPT !.items = list]
      OBVIOUS
    <3>2. j \in Jobs /\ j.items = list /\ j.run = task[t].run
      BY ONLY <1>1, <1>2, <3>1 DEF Jobs
    <3>3. Read(j) \in Jobs /\ Read(j).pc = "write" /\ Read(j).run = task[t].run
          /\ Read(j).items = list
      BY <3>2, ReadJob
    <3>4. Become(t, Read(j)) /\ task[t].pc = "request" /\ UNCHANGED fetchRest
      BY <1>9, <2>2, <3>1 DEF BareList, list
    <3>5. FetchesTo(t, Read(j))
      BY <3>3, <3>4 DEF FetchesTo, ReadSoFar, ReadAll, list
    <3>. QED
      BY <3>5
  <2>. QED
    BY <2>1, <2>2
<1>10. CASE Page(t)
  <2>1. CASE task[t].page > 1 /\ PageOf(list, task[t].page) = <<>>
    BY <1>5, <1>10, <2>1 DEF Page, list
  <2>2. CASE ~(task[t].page > 1 /\ PageOf(list, task[t].page) = <<>>)
    <3> DEFINE more == WithPage(Service(t), task[t], list)
               j == AfterPage(more)
    <3>1. Become(t, j) /\ task[t].pc = "request" /\ UNCHANGED fetchRest
      BY <1>10, <2>2 DEF Page, list
    <3>2. more \in Jobs /\ more.pc = "request" /\ more.run = task[t].run
      <4>1. more \in Jobs /\ more.pc = task[t].pc /\ more.run = task[t].run
        BY ONLY <1>1, <1>2, WithPageJob, ZenonT(30)
      <4>. QED
        BY ONLY <3>1, <4>1
    <3>3. j \in Jobs /\ j.run = task[t].run /\ j.pc \in {"request", "write", "failed"}
      BY <3>2, AfterPageJob
    <3>4. Service(t) \notin Untotalled /\ ReadSoFar(task[t], list, served[t]) =>
             ReadSoFar(j, list, served[t]) /\ ReadAll(j, served[t])
      BY <1>1, <1>2, <3>1, PageReads
    <3>5. FetchesTo(t, j)
      BY <3>1, <3>3, <3>4 DEF FetchesTo, list
    <3>. QED
      BY <3>5
  <2>. QED
    BY <2>1, <2>2
<1>. QED
  BY <1>6, <1>7, <1>8, <1>9, <1>10 DEF Fetching

-----------------------------------------------------------------------------
(***************************************************************************)
(* What a step does to the jobs: one of nine kinds.                        *)
(***************************************************************************)
\* A run begins: its backend is connected and its service's lock was free.
Begins(t) ==
    /\ Service(t) \in Connected
    /\ serviceLock[Service(t)] = Nobody
    /\ RunRefresh(t)
    /\ UNCHANGED rest

Ends(t) == Record(t) \/ Raise(t)

\* Neither the jobs nor what they store change.
Rests == UNCHANGED <<locks, stored, unlogged>>

\* Every step is of one of these kinds.
LEMMA StepKinds ==
  ASSUME TypeOK, [Next]_vars
  PROVE  \/ \E t \in Tasks : Begins(t)
         \/ \E t \in Tasks : \E job : FetchesTo(t, job)
         \/ \E t \in Tasks : Write(t) \/ Commit(t) \/ Abort(t) \/ Ends(t)
         \/ \E s \in Services : Change(s)
         \/ Kill
         \/ Rests
<1> USE DEF rest, auxVars
<1>1. ASSUME NEW t \in Tasks, RunRefresh(t), UNCHANGED rest
      PROVE  Begins(t) \/ Rests
  BY <1>1 DEF Begins, Rests, RunRefresh, locks, stored
<1>2. ASSUME NEW s \in Services, StartScheduled(s)
      PROVE  Begins(Scheduled(s)) \/ Rests
  <2>1. Scheduled(s) \in Tasks
    BY DEF Scheduled, Tasks
  <2>2. CASE task[Scheduled(s)].pc = "idle"
    BY <1>1, <1>2, <2>1, <2>2 DEF StartScheduled
  <2>3. CASE task[Scheduled(s)].pc # "idle"
    BY <1>2, <2>3 DEF StartScheduled, Rests, locks, stored
  <2>. QED
    BY <2>2, <2>3
<1>3. ASSUME NEW s \in Services, TriggerRefresh(s)
      PROVE  Begins(Manual(s)) \/ Rests
  <2>1. Manual(s) \in Tasks
    BY DEF Manual, Tasks
  <2>. QED
    BY <1>1, <1>3, <2>1 DEF TriggerRefresh
<1>4. ASSUME NEW s \in Services, IntervalFires(s) \/ Misfire(s)
      PROVE  Rests
  BY <1>4 DEF IntervalFires, Misfire, Rests, locks, stored
<1>5. ASSUME Drain \/ Shutdown \/ Exit \/ Start
      PROVE  Rests
  BY <1>5 DEF Drain, Shutdown, Exit, Start, Rests, locks, stored
<1>6. ASSUME UNCHANGED vars
      PROVE  Rests
  BY <1>6 DEF vars, Rests, locks, stored
<1>7. \A s \in Services : Scheduled(s) \in Tasks /\ Manual(s) \in Tasks
  BY DEF Scheduled, Manual, Tasks
<1>8. ASSUME NEW t \in Tasks, Progress(t) \/ WaitOver(t)
      PROVE  \/ \E job : FetchesTo(t, job)
             \/ Write(t) \/ Commit(t) \/ Abort(t) \/ Ends(t)
  BY <1>8, FetchingStep DEF Progress, Fetching, Ends
<1>. QED
  BY <1>2, <1>3, <1>4, <1>5, <1>6, <1>7, <1>8 DEF Next

\* The service lock of a task, and its record, when the task becomes another job.
LEMMA BecomeTask ==
  ASSUME TypeOK, NEW t \in Tasks, NEW job, Become(t, job)
  PROVE  \A u \in Tasks : task'[u] = IF u = t THEN job ELSE task[u]
BY DEF TypeOK, Become

\* A service's lock is its own.
LEMMA TaskService == \A t \in Tasks : Service(t) \in Services /\ t # Nobody
BY RefreshAssumption DEF Tasks, Service

\* The run that has committed, or failed to.
LEMMA WrittenJob ==
  ASSUME TypeOK, NEW t \in Tasks, NEW label \in Labels
  PROVE  /\ Ended(task[t], label) \in Jobs
         /\ Ended(task[t], label).pc = label
         /\ Ended(task[t], label).run = task[t].run
BY EndedJob DEF TypeOK

\* The job that waits for its commit has the items and the run it had.
LEMMA WritingJob ==
  ASSUME TypeOK, NEW t \in Tasks, Write(t)
  PROVE  \E job \in Jobs : /\ Become(t, job)
                           /\ job.pc = "commit" /\ job.run = task[t].run
                           /\ job.items = task[t].items
<1> DEFINE writing == "commit"
<1>1. task[t] \in Jobs
  BY DEF TypeOK
<1>2. writing \in Labels
  BY DEF Labels
<1>3. PICK job : job = [task[t] EXCEPT !.pc = writing]
  OBVIOUS
<1>4. Become(t, job)
  BY <1>3 DEF Write
<1> HIDE DEF writing
<1>5. job \in Jobs /\ job.pc = writing /\ job.run = task[t].run
      /\ job.items = task[t].items
  BY ONLY <1>1, <1>2, <1>3 DEF Jobs
<1>. QED
  BY <1>4, <1>5 DEF writing

-----------------------------------------------------------------------------
(***************************************************************************)
(* Type correctness.                                                       *)
(***************************************************************************)
\* The initial states have their types.
LEMMA InitTypeOK == Init => TypeOK
  BY IdleType, RefreshAssumption DEF Init, TypeOK, NoLog

\* What the process keeps of its own.
LEMMA ProcessType ==
  ASSUME TypeOK, [Next]_vars
  PROVE  /\ phase' \in {"up", "draining", "stopping", "down"}
         /\ due' \subseteq Services
         /\ changes' \in Nat /\ faults' \in Nat
<1> USE DEF TypeOK, rest, fetchRest, writeRest, endRest, locks, stored, auxVars
<1>1. ASSUME NEW s \in Services, StartScheduled(s)
      PROVE  UNCHANGED <<phase, changes, faults>> /\ due' \subseteq due
  BY <1>1 DEF StartScheduled
<1>2. ASSUME NEW s \in Services, TriggerRefresh(s)
      PROVE  UNCHANGED <<phase, changes, faults, due>>
  BY <1>2 DEF TriggerRefresh
<1>3. ASSUME NEW s \in Services, IntervalFires(s) \/ Misfire(s)
      PROVE  UNCHANGED <<phase, changes, faults>> /\ due' \subseteq Services
  BY <1>3 DEF IntervalFires, Misfire
<1>4. ASSUME NEW s \in Services, Change(s)
      PROVE  UNCHANGED <<phase, due, faults>> /\ changes' = changes + 1
  BY <1>4 DEF Change
<1>5. ASSUME NEW t \in Tasks, Fetching(t)
      PROVE  UNCHANGED <<phase, due, changes, faults>>
  BY <1>5 DEF Fetching, Limited, WaitOver, Wake, Unanswered, BareList, Page
<1>6. ASSUME NEW t \in Tasks, Write(t) \/ Commit(t) \/ Abort(t)
      PROVE  UNCHANGED <<phase, due, changes>> /\ faults' \in Nat
  BY <1>6 DEF Write, Commit, Abort
<1>7. ASSUME NEW t \in Tasks, Record(t) \/ Raise(t)
      PROVE  UNCHANGED <<phase, due, changes>> /\ faults' \in Nat
  BY <1>7 DEF Record, Raise
<1>8. ASSUME Drain \/ Shutdown \/ Exit \/ Start \/ Kill
      PROVE  /\ phase' \in {"up", "draining", "stopping", "down"}
             /\ due' \subseteq Services /\ changes' = changes /\ faults' \in Nat
  BY <1>8 DEF Drain, Shutdown, Exit, Start, Kill
<1>9. CASE UNCHANGED vars
  BY <1>9 DEF vars
<1>. QED
  BY <1>1, <1>2, <1>3, <1>4, <1>5, <1>6, <1>7, <1>8, <1>9 DEF Next, Progress, Fetching

\* The items of a sequence of items.
LEMMA ItemsOf == \A list \in Seq(Items) : ToSet(list) \subseteq Items
BY DEF ToSet

\* Everything else keeps its type, whatever the kind of step.
LEMMA TypeStep == TypeOK /\ [Next]_vars => TypeOK'
<1> SUFFICES ASSUME TypeOK, [Next]_vars PROVE TypeOK'
  OBVIOUS
<1> DEFINE JobsTyped ==
              /\ serviceLock' \in [Services -> Tasks \cup {Nobody}]
              /\ writeLock' \in Tasks \cup {Nobody}
              /\ task' \in [Tasks -> Jobs]
              /\ served' \in [Tasks -> SUBSET Items]
              /\ steady' \in [Tasks -> BOOLEAN]
           StoreTyped ==
              /\ cached' \in [Services -> SUBSET Usable]
              /\ log' \in [Services -> [status : {"none", "success", "error"},
                                        run : Nat]]
              /\ backend' \in Backends
              /\ runs' \in Nat
              /\ cachedRun' \in [Services -> Nat]
              /\ unlogged' \subseteq Services
<1>1. ASSUME NEW t \in Tasks, Begins(t)
      PROVE  JobsTyped /\ StoreTyped
  <2>1. Service(t) \in Services
    BY TaskService
  <2>2. ToSet(backend[Service(t)]) \subseteq Items
    BY <2>1, BackendType, ItemsOf
  <2>3. runs + 1 \in Nat
    BY DEF TypeOK
  <2>4. [Idle EXCEPT !.pc = "request", !.left = MaxRetries, !.run = runs + 1] \in Jobs
    BY <2>3, BegunJob
  <2>. QED
    BY <1>1, <2>1, <2>2, <2>3, <2>4 DEF TypeOK, Begins, RunRefresh, rest
<1>2. ASSUME NEW t \in Tasks, NEW job, FetchesTo(t, job)
      PROVE  JobsTyped /\ StoreTyped
  BY <1>2 DEF TypeOK, FetchesTo, Become, fetchRest, rest, auxVars
<1>3. ASSUME NEW t \in Tasks, Write(t)
      PROVE  JobsTyped /\ StoreTyped
  <2>1. task' \in [Tasks -> Jobs]
    BY <1>3, WritingJob DEF TypeOK, Become
  <2>. QED
    BY <1>3, <2>1 DEF TypeOK, Write, writeRest, auxVars
<1>4. ASSUME NEW t \in Tasks, Commit(t)
      PROVE  JobsTyped /\ StoreTyped
  <2>1. "success" \in Labels
    BY DEF Labels
  <2>2. task' \in [Tasks -> Jobs]
    BY <1>4, <2>1, WrittenJob DEF TypeOK, Commit, Become
  <2>3. /\ Service(t) \in Services
        /\ ToSet(task[t].items) \cap Usable \subseteq Usable
        /\ task[t].run \in Nat
    BY TaskService DEF TypeOK, Jobs
  <2>. QED
    BY <1>4, <2>2, <2>3 DEF TypeOK, Commit, writeRest, auxVars
<1>5. ASSUME NEW t \in Tasks, Abort(t)
      PROVE  JobsTyped /\ StoreTyped
  <2>1. "raised" \in Labels /\ "failed" \in Labels
    BY DEF Labels
  <2>2. task' \in [Tasks -> Jobs]
    BY <1>5, <2>1, WrittenJob DEF TypeOK, Abort, Become
  <2>. QED
    BY <1>5, <2>2 DEF TypeOK, Abort, writeRest, auxVars
<1>6. ASSUME NEW t \in Tasks, Ends(t)
      PROVE  JobsTyped /\ StoreTyped
  <2>1. Service(t) \in Services
    BY TaskService
  <2>2. JobsTyped
    <3>1. Release(t) /\ writeLock' = writeLock
      BY <1>6 DEF Ends, Record, Raise, endRest
    <3>. QED
      BY <2>1, <3>1, IdleType DEF TypeOK, Release
  <2>3. Outcome(task[t]) \in [status : {"none", "success", "error"}, run : Nat]
    BY DEF TypeOK, Outcome, Jobs
  <2>4. StoreTyped
    BY <1>6, <2>1, <2>3 DEF TypeOK, Ends, Record, Raise, endRest
  <2>. QED
    BY <2>2, <2>4
<1>7. ASSUME NEW s \in Services, Change(s)
      PROVE  JobsTyped /\ StoreTyped
  <2>1. PICK list \in Lists[s] : backend' = [backend EXCEPT ![s] = list]
    BY <1>7 DEF Change
  <2>2. backend' \in Backends
    BY <2>1 DEF TypeOK, Backends
  <2>3. served' \in [Tasks -> SUBSET Items] /\ steady' \in [Tasks -> BOOLEAN]
    BY <1>7 DEF TypeOK, Change
  <2>. QED
    BY <1>7, <2>2, <2>3 DEF TypeOK, Change
<1>8. ASSUME Kill
      PROVE  JobsTyped /\ StoreTyped
  BY <1>8, IdleType DEF TypeOK, Kill, stored
<1>9. ASSUME Rests
      PROVE  JobsTyped /\ StoreTyped
  BY <1>9 DEF TypeOK, Rests, locks, stored, auxVars
<1>10. JobsTyped /\ StoreTyped
  BY <1>1, <1>2, <1>3, <1>4, <1>5, <1>6, <1>7, <1>8, <1>9, StepKinds
<1>. QED
  BY <1>10, ProcessType DEF TypeOK

\* Every variable keeps its type.
THEOREM TypeCorrect == Spec => []TypeOK
<1>. QED
  BY InitTypeOK, TypeStep, PTL DEF Spec


-----------------------------------------------------------------------------
(***************************************************************************)
(* The locks.                                                              *)
(***************************************************************************)
\* At the start every lock is free and every task idle.
LEMMA InitLocks == Init => ServiceLocks /\ WriteLocks
  BY TaskService, IdleType DEF Init, ServiceLocks, WriteLocks

\* A run that begins becomes the only job of its service.
LEMMA BegunTask ==
  ASSUME TypeOK, NEW t \in Tasks, Begins(t)
  PROVE  \E job \in Jobs : /\ Become(t, job)
                           /\ job.pc = "request" /\ job.run = runs + 1
                           /\ job.items = <<>> /\ job.page = 1
<1>1. PICK job : job = [Idle EXCEPT !.pc = "request", !.left = MaxRetries,
                                    !.run = runs + 1]
  OBVIOUS
<1>2. runs + 1 \in Nat
  BY DEF TypeOK
<1>3. /\ job \in Jobs /\ job.pc = "request" /\ job.run = runs + 1
      /\ job.items = <<>> /\ job.page = 1
  BY <1>1, <1>2, BegunJob
<1>4. Become(t, job)
  BY <1>1 DEF Begins, RunRefresh, Become
<1>. QED
  BY <1>3, <1>4

\* Whoever works on a service holds its lock, and only the one that commits holds
\* the write lock, after every step.
LEMMA LocksStep ==
  TypeOK /\ ServiceLocks /\ WriteLocks /\ [Next]_vars => ServiceLocks' /\ WriteLocks'
<1> SUFFICES ASSUME TypeOK, ServiceLocks, WriteLocks, [Next]_vars
             PROVE  ServiceLocks' /\ WriteLocks'
  OBVIOUS
<1> USE DEF ServiceLocks, WriteLocks
<1>1. ASSUME NEW t \in Tasks, NEW job, Become(t, job),
             job.pc # "idle", task[t].pc # "idle", UNCHANGED serviceLock
      PROVE  ServiceLocks'
  BY <1>1, BecomeTask
<1>2. ASSUME NEW t \in Tasks, NEW job, Become(t, job),
             job.pc # "commit", task[t].pc # "commit", UNCHANGED writeLock
      PROVE  WriteLocks'
  BY <1>2, BecomeTask
<1>3. ASSUME NEW t \in Tasks, Begins(t)
      PROVE  ServiceLocks' /\ WriteLocks'
  <2>1. PICK job \in Jobs : Become(t, job) /\ job.pc = "request"
    BY <1>3, BegunTask
  <2>2. /\ serviceLock[Service(t)] = Nobody
        /\ serviceLock' = [serviceLock EXCEPT ![Service(t)] = t]
        /\ writeLock' = writeLock
    BY <1>3 DEF Begins, RunRefresh, rest
  <2>3. \A u \in Tasks : Service(u) = Service(t) => task[u].pc = "idle"
    BY <2>2, TaskService
  <2>4. \A s \in Services : serviceLock'[s] = IF s = Service(t) THEN t ELSE serviceLock[s]
    BY <2>2, TaskService DEF TypeOK
  <2>5. ServiceLocks'
    BY <2>1, <2>3, <2>4, BecomeTask, TaskService
  <2>6. WriteLocks'
    BY <1>2, <2>1, <2>2, <2>3
  <2>. QED
    BY <2>5, <2>6
<1>4. ASSUME NEW t \in Tasks, NEW job, FetchesTo(t, job)
      PROVE  ServiceLocks' /\ WriteLocks'
  BY <1>1, <1>2, <1>4 DEF FetchesTo, fetchRest, rest
<1>5. ASSUME NEW t \in Tasks, Write(t)
      PROVE  ServiceLocks' /\ WriteLocks'
  <2>1. PICK job \in Jobs : Become(t, job) /\ job.pc = "commit"
    BY <1>5, WritingJob
  <2>2. ServiceLocks'
    BY <1>1, <1>5, <2>1 DEF Write, writeRest
  <2>3. WriteLocks'
    BY <1>5, <2>1, BecomeTask, TaskService DEF Write
  <2>. QED
    BY <2>2, <2>3
<1>6. ASSUME NEW t \in Tasks, Commit(t) \/ Abort(t)
      PROVE  ServiceLocks' /\ WriteLocks'
  <2>1. \E job \in Jobs : Become(t, job) /\ job.pc \in {"success", "failed", "raised"}
    BY <1>6, WrittenJob DEF Commit, Abort, Labels
  <2>2. ServiceLocks'
    BY <1>1, <1>6, <2>1 DEF Commit, Abort, writeRest
  <2>3. WriteLocks'
    BY <1>6, <2>1, BecomeTask, TaskService DEF Commit, Abort
  <2>. QED
    BY <2>2, <2>3
<1>7. ASSUME NEW t \in Tasks, Ends(t)
      PROVE  ServiceLocks' /\ WriteLocks'
  <2>1. /\ task[t].pc \notin {"idle", "commit"}
        /\ Become(t, Idle)
        /\ serviceLock' = [serviceLock EXCEPT ![Service(t)] = Nobody]
        /\ writeLock' = writeLock
    BY <1>7 DEF Ends, Record, Raise, Release, endRest, Become
  <2>2. \A u \in Tasks : Service(u) = Service(t) /\ u # t => task[u].pc = "idle"
    BY <2>1
  <2>3. \A s \in Services :
           serviceLock'[s] = IF s = Service(t) THEN Nobody ELSE serviceLock[s]
    BY <2>1, TaskService DEF TypeOK
  <2>4. ServiceLocks'
    BY <2>1, <2>2, <2>3, BecomeTask, TaskService, IdleType
  <2>5. WriteLocks'
    BY <1>2, <2>1, IdleType
  <2>. QED
    BY <2>4, <2>5
<1>8. ASSUME NEW s \in Services, Change(s)
      PROVE  ServiceLocks' /\ WriteLocks'
  BY <1>8 DEF Change
<1>9. ASSUME Kill
      PROVE  ServiceLocks' /\ WriteLocks'
  BY <1>9, TaskService, IdleType DEF Kill
<1>10. ASSUME Rests
      PROVE  ServiceLocks' /\ WriteLocks'
  BY <1>10 DEF Rests, locks
<1>. QED
  BY <1>3, <1>4, <1>5, <1>6, <1>7, <1>8, <1>9, <1>10, StepKinds

\* So two tasks never work on one service.
LEMMA OneAtWork ==
  ASSUME ServiceLocks,
         NEW t \in Tasks, NEW u \in Tasks, Service(t) = Service(u),
         task[t].pc # "idle", task[u].pc # "idle"
  PROVE  t = u
BY DEF ServiceLocks

-----------------------------------------------------------------------------
(***************************************************************************)
(* The order of the runs, and the log.                                     *)
(***************************************************************************)
\* At the start nothing has run.
LEMMA InitOrder == Init => RunOrder /\ LogTellsCache
  BY TaskService, IdleType DEF Init, RunOrder, LogTellsCache, NoLog

\* What a run may do to the order while it is not committing.
LEMMA OrderFrame ==
  ASSUME TypeOK, RunOrder, NEW t \in Tasks, NEW job \in Jobs, Become(t, job),
         job.run = task[t].run, UNCHANGED <<cachedRun, runs>>,
         job.pc \in Labels \ {"success"}, task[t].pc \in Labels \ {"idle", "success"}
  PROVE  RunOrder'
<1>1. /\ cachedRun[Service(t)] < job.run
      /\ job.run <= runs
  BY DEF RunOrder
<1>2. \A u \in Tasks : task'[u] = IF u = t THEN job ELSE task[u]
  BY BecomeTask
<1>. QED
  BY <1>1, <1>2 DEF RunOrder

\* A run is numbered above all before it, and commits above the rows it replaces.
LEMMA OrderStep ==
  TypeOK /\ ServiceLocks /\ RunOrder /\ [Next]_vars => RunOrder'
<1> SUFFICES ASSUME TypeOK, ServiceLocks, RunOrder, [Next]_vars
             PROVE  RunOrder'
  OBVIOUS
<1>1. /\ runs \in Nat
      /\ \A t \in Tasks : task[t].run \in Nat /\ task[t].pc \in Labels
      /\ \A s \in Services : cachedRun[s] \in Nat
  BY DEF TypeOK, Jobs
<1>2. ASSUME NEW t \in Tasks, Begins(t)
      PROVE  RunOrder'
  <2>1. PICK job \in Jobs : Become(t, job) /\ job.pc = "request" /\ job.run = runs + 1
    BY <1>2, BegunTask
  <2>2. runs' = runs + 1 /\ cachedRun' = cachedRun
    BY <1>2 DEF Begins, RunRefresh, rest
  <2>3. \A u \in Tasks : task'[u] = IF u = t THEN job ELSE task[u]
    BY <2>1, BecomeTask
  <2>. QED
    BY <1>1, <2>1, <2>2, <2>3, TaskService DEF RunOrder
<1>3. ASSUME NEW t \in Tasks, NEW job, FetchesTo(t, job)
      PROVE  RunOrder'
  <2>1. /\ job \in Jobs /\ Become(t, job) /\ job.run = task[t].run
        /\ UNCHANGED <<cachedRun, runs>>
        /\ job.pc \in Labels \ {"success"}
        /\ task[t].pc \in Labels \ {"idle", "success"}
    BY <1>3 DEF FetchesTo, fetchRest, rest, Labels
  <2>. QED
    BY <2>1, OrderFrame
<1>4. ASSUME NEW t \in Tasks, Write(t)
      PROVE  RunOrder'
  <2>1. PICK job \in Jobs : Become(t, job) /\ job.pc = "commit" /\ job.run = task[t].run
    BY <1>4, WritingJob
  <2>2. /\ UNCHANGED <<cachedRun, runs>>
        /\ job.pc \in Labels \ {"success"}
        /\ task[t].pc \in Labels \ {"idle", "success"}
    BY <1>4, <2>1 DEF Write, writeRest, Labels
  <2>. QED
    BY <2>1, <2>2, OrderFrame
<1>5. ASSUME NEW t \in Tasks, Abort(t)
      PROVE  RunOrder'
  <2>1. "raised" \in Labels /\ "failed" \in Labels
    BY DEF Labels
  <2>2. PICK job \in Jobs : /\ Become(t, job) /\ job.run = task[t].run
                           /\ job.pc \in {"raised", "failed"}
    BY <1>5, <2>1, WrittenJob DEF Abort
  <2>3. /\ UNCHANGED <<cachedRun, runs>>
        /\ job.pc \in Labels \ {"success"}
        /\ task[t].pc \in Labels \ {"idle", "success"}
    BY <1>5, <2>2 DEF Abort, writeRest, Labels
  <2>. QED
    BY <2>2, <2>3, OrderFrame
<1>6. ASSUME NEW t \in Tasks, Commit(t)
      PROVE  RunOrder'
  <2> DEFINE job == Ended(task[t], "success")
  <2>1. job.pc = "success" /\ job.run = task[t].run
    BY WrittenJob DEF Labels
  <2>2. /\ Become(t, job) /\ task[t].pc = "commit" /\ runs' = runs
        /\ cachedRun' = [cachedRun EXCEPT ![Service(t)] = task[t].run]
    BY <1>6 DEF Commit, writeRest
  <2> HIDE DEF job
  <2>3. \A u \in Tasks : task'[u] = IF u = t THEN job ELSE task[u]
    BY <2>2, BecomeTask
  <2>4. \A s \in Services :
           cachedRun'[s] = IF s = Service(t) THEN task[t].run ELSE cachedRun[s]
    BY <2>2 DEF TypeOK
  <2>5. \A u \in Tasks : u # t /\ Service(u) = Service(t) => task[u].pc = "idle"
    BY <2>2, OneAtWork
  <2>6. \A u \in Tasks :
           /\ task'[u].run <= runs'
           /\ task'[u].pc \in Labels \ {"idle", "success"} =>
                 cachedRun'[Service(u)] < task'[u].run
           /\ task'[u].pc = "success" => cachedRun'[Service(u)] = task'[u].run
    BY <2>1, <2>2, <2>3, <2>4, <2>5, TaskService DEF RunOrder
  <2>7. \A s \in Services : cachedRun'[s] <= runs'
    BY <2>2, <2>4 DEF RunOrder
  <2>. QED
    BY <2>6, <2>7 DEF RunOrder
<1>7. ASSUME NEW t \in Tasks, Ends(t)
      PROVE  RunOrder'
  <2>1. Become(t, Idle) /\ UNCHANGED <<cachedRun, runs>>
    BY <1>7 DEF Ends, Record, Raise, Release, endRest, Become
  <2>2. \A u \in Tasks : task'[u] = IF u = t THEN Idle ELSE task[u]
    BY <2>1, BecomeTask
  <2>. QED
    BY <1>1, <2>1, <2>2, IdleType DEF RunOrder
<1>8. ASSUME NEW s \in Services, Change(s)
      PROVE  RunOrder'
  BY <1>8 DEF Change, RunOrder
<1>9. ASSUME Kill
      PROVE  RunOrder'
  BY <1>1, <1>9, IdleType DEF Kill, stored, RunOrder
<1>10. ASSUME Rests
      PROVE  RunOrder'
  BY <1>10 DEF Rests, locks, stored, RunOrder
<1>. QED
  BY <1>2, <1>3, <1>4, <1>5, <1>6, <1>7, <1>8, <1>9, <1>10, StepKinds


\* The log is right where neither a row nor a dataset changes and no committed run
\* goes unrecorded.
LEMMA LogFrame ==
  ASSUME LogTellsCache, UNCHANGED <<log, cachedRun>>, unlogged \subseteq unlogged',
         \A t \in Tasks :
            task[t].pc = "success" =>
               task'[t].pc = "success" \/ Service(t) \in unlogged'
  PROVE  LogTellsCache'
BY DEF LogTellsCache

\* Every way the newest row or the rows themselves change leaves the two in
\* agreement, or the service marked as having lost its row.
LEMMA LogStep ==
  TypeOK /\ ServiceLocks /\ RunOrder /\ LogTellsCache /\ [Next]_vars => LogTellsCache'
<1> SUFFICES ASSUME TypeOK, ServiceLocks, RunOrder, LogTellsCache, [Next]_vars
             PROVE  LogTellsCache'
  OBVIOUS
<1>1. ASSUME NEW t \in Tasks, NEW job, Become(t, job), task[t].pc # "success",
             UNCHANGED <<log, cachedRun, unlogged>>
      PROVE  LogTellsCache'
  BY <1>1, BecomeTask, LogFrame
<1>2. ASSUME NEW t \in Tasks, Begins(t)
      PROVE  LogTellsCache'
  <2>1. PICK job \in Jobs : Become(t, job)
    BY <1>2, BegunTask
  <2>2. task[t].pc = "idle" /\ UNCHANGED <<log, cachedRun, unlogged>>
    BY <1>2, TaskService DEF Begins, rest, ServiceLocks
  <2>. QED
    BY <1>1, <2>1, <2>2
<1>3. ASSUME NEW t \in Tasks, NEW job, FetchesTo(t, job)
      PROVE  LogTellsCache'
  BY <1>1, <1>3 DEF FetchesTo, fetchRest, rest
<1>4. ASSUME NEW t \in Tasks, Write(t) \/ Abort(t)
      PROVE  LogTellsCache'
  BY <1>1, <1>4 DEF Write, Abort, writeRest
<1>5. ASSUME NEW t \in Tasks, Commit(t)
      PROVE  LogTellsCache'
  <2> DEFINE job == Ended(task[t], "success")
  <2>1. job.pc = "success"
    BY WrittenJob DEF Labels
  <2>2. /\ Become(t, job) /\ UNCHANGED <<log, unlogged>>
        /\ cachedRun' = [cachedRun EXCEPT ![Service(t)] = task[t].run]
    BY <1>5 DEF Commit, writeRest
  <2> HIDE DEF job
  <2>3. \A u \in Tasks : task'[u] = IF u = t THEN job ELSE task[u]
    BY <2>2, BecomeTask
  <2>4. task'[t].pc = "success"
    BY <2>1, <2>3
  <2>5. task[t].pc # "success"
    BY <1>5 DEF Commit
  <2>6. \A u \in Tasks : task[u].pc = "success" => task'[u].pc = "success"
    BY <2>3, <2>5
  <2>7. \A s \in Services : s # Service(t) => cachedRun'[s] = cachedRun[s]
    BY <2>2 DEF TypeOK
  <2>. QED
    BY <2>2, <2>4, <2>6, <2>7 DEF LogTellsCache
<1>6. ASSUME NEW t \in Tasks, Record(t) \/ Raise(t)
      PROVE  LogTellsCache'
  <2>1. /\ Become(t, Idle) /\ cachedRun' = cachedRun
        /\ task[t].pc \in {"success", "failed", "raised"}
    BY <1>6 DEF Record, Raise, Release, endRest, Become
  <2>2. \A u \in Tasks : task'[u] = IF u = t THEN Idle ELSE task[u]
    BY <2>1, BecomeTask
  <2>3. CASE log' = log /\ unlogged' = unlogged \cup {Service(t)}
    BY <2>1, <2>2, <2>3, LogFrame
  <2>4. CASE /\ task[t].pc \in {"success", "failed"}
             /\ log' = [log EXCEPT ![Service(t)] = Outcome(task[t])]
             /\ unlogged' = unlogged \ {Service(t)}
    <3>1. /\ task[t].pc = "success" => cachedRun[Service(t)] = task[t].run
          /\ task[t].pc = "failed" => cachedRun[Service(t)] < task[t].run
      BY DEF RunOrder, Labels
    <3>2. \A s \in Services :
             log'[s] = IF s = Service(t) THEN Outcome(task[t]) ELSE log[s]
      BY <2>4, TaskService DEF TypeOK
    <3>3. /\ Outcome(task[t]).run = task[t].run
          /\ Outcome(task[t]).status = "success" => task[t].pc = "success"
          /\ Outcome(task[t]).status = "error" => task[t].pc = "failed"
      BY <2>4 DEF Outcome
    <3>4. \A u \in Tasks : Service(u) # Service(t) => task'[u] = task[u]
      BY <2>2
    <3>. QED
      BY <2>1, <2>4, <3>1, <3>2, <3>3, <3>4 DEF LogTellsCache
  <2>. QED
    BY <1>6, <2>3, <2>4 DEF Record, Raise
<1>7. ASSUME NEW s \in Services, Change(s)
      PROVE  LogTellsCache'
  BY <1>7 DEF Change, LogTellsCache
<1>8. ASSUME Kill
      PROVE  LogTellsCache'
  <2>1. UNCHANGED <<log, cachedRun>> /\ unlogged \subseteq unlogged'
    BY <1>8 DEF Kill, stored
  <2>2. \A t \in Tasks : task[t].pc = "success" => serviceLock[Service(t)] = t
    BY DEF ServiceLocks
  <2>3. \A t \in Tasks : task[t].pc = "success" => Service(t) \in unlogged'
    BY <1>8, <2>2, TaskService DEF Kill
  <2>. QED
    BY <2>1, <2>3, LogFrame
<1>9. ASSUME Rests
      PROVE  LogTellsCache'
  BY <1>9 DEF Rests, locks, stored, LogTellsCache
<1>. QED
  BY <1>2, <1>3, <1>4, <1>5, <1>6, <1>7, <1>8, <1>9, StepKinds DEF Ends

-----------------------------------------------------------------------------
(***************************************************************************)
(* What a fetch has read of a list that has not changed.                   *)
(***************************************************************************)
\* At the start nothing is being read.
LEMMA InitReads == Init => SteadyReads
  BY IdleType DEF Init, SteadyReads, ReadSoFar, ReadAll

\* Nothing is said of a job that neither reads nor writes.
LEMMA NothingRead ==
  ASSUME NEW job, job.pc \notin {"request", "sleep", "write", "commit"},
         NEW list, NEW set
  PROVE  ReadSoFar(job, list, set) /\ ReadAll(job, set)
BY DEF ReadSoFar, ReadAll

\* Whatever a task becomes, the others have read what they had.
LEMMA ReadsFrame ==
  ASSUME TypeOK, SteadyReads, NEW t \in Tasks, NEW job, Become(t, job),
         UNCHANGED <<served, steady, backend>>,
         Steady(t) => /\ ReadSoFar(job, backend[Service(t)], served[t])
                      /\ ReadAll(job, served[t])
  PROVE  SteadyReads'
<1>1. \A u \in Tasks : task'[u] = IF u = t THEN job ELSE task[u]
  BY BecomeTask
<1>2. \A u \in Tasks : Steady(u) =>
         /\ ReadSoFar(task'[u], backend[Service(u)], served[u])
         /\ ReadAll(task'[u], served[u])
  BY <1>1 DEF SteadyReads
<1>. QED
  BY <1>2 DEF SteadyReads, Steady, ReadSoFar, ReadAll

\* A run begins with nothing read and a fetch goes on from what it has; a change of
\* the list marks those that read it.
LEMMA ReadsStep == TypeOK /\ SteadyReads /\ [Next]_vars => SteadyReads'
<1> SUFFICES ASSUME TypeOK, SteadyReads, [Next]_vars PROVE SteadyReads'
  OBVIOUS
<1>1. ASSUME NEW t \in Tasks, Begins(t)
      PROVE  SteadyReads'
  <2> DEFINE list == backend[Service(t)]
  <2>1. PICK job \in Jobs : /\ Become(t, job) /\ job.pc = "request"
                            /\ job.items = <<>> /\ job.page = 1
    BY <1>1, BegunTask
  <2>2. /\ served' = [served EXCEPT ![t] = ToSet(list)]
        /\ steady' = [steady EXCEPT ![t] = TRUE]
        /\ backend' = backend
    BY <1>1 DEF Begins, RunRefresh, rest
  <2>3. /\ task'[t] = job /\ served'[t] = ToSet(list)
        /\ \A u \in Tasks : u # t =>
              task'[u] = task[u] /\ served'[u] = served[u] /\ steady'[u] = steady[u]
    BY <2>1, <2>2, BecomeTask DEF TypeOK
  <2>4. /\ ReadSoFar(job, list, ToSet(list))
        /\ ReadAll(job, ToSet(list))
    <3>1. list \in Seq(Items)
      BY BackendType, TaskService
    <3>2. Len(job.items) = (job.page - 1) * PageSize /\ Len(job.items) <= Len(list)
      BY <2>1, <3>1, RefreshAssumption
    <3>. QED
      BY <2>1, <3>2 DEF ReadSoFar, ReadAll
  <2>5. \A u \in Tasks : Steady(u)' =>
           /\ ReadSoFar(task'[u], backend'[Service(u)], served'[u])
           /\ ReadAll(task'[u], served'[u])
    BY <2>2, <2>3, <2>4 DEF SteadyReads, Steady
  <2>. QED
    BY <2>5 DEF SteadyReads, ReadSoFar, ReadAll
<1>2. ASSUME NEW t \in Tasks, NEW job, FetchesTo(t, job)
      PROVE  SteadyReads'
  <2>1. Become(t, job) /\ UNCHANGED <<served, steady, backend>>
    BY <1>2 DEF FetchesTo, fetchRest, rest, auxVars
  <2>2. Steady(t) => /\ ReadSoFar(job, backend[Service(t)], served[t])
                     /\ ReadAll(job, served[t])
    BY <1>2 DEF FetchesTo, SteadyReads, Steady
  <2>. QED
    BY <2>1, <2>2, ReadsFrame
<1>3. ASSUME NEW t \in Tasks, Write(t)
      PROVE  SteadyReads'
  <2>1. PICK job \in Jobs : /\ Become(t, job) /\ job.pc = "commit"
                            /\ job.items = task[t].items
    BY <1>3, WritingJob
  <2>2. task[t].pc = "write" /\ UNCHANGED <<served, steady, backend>>
    BY <1>3 DEF Write, writeRest, auxVars
  <2>3. Steady(t) => /\ ReadSoFar(job, backend[Service(t)], served[t])
                     /\ ReadAll(job, served[t])
    BY <2>1, <2>2 DEF SteadyReads, ReadSoFar, ReadAll
  <2>. QED
    BY <2>1, <2>2, <2>3, ReadsFrame
<1>4. ASSUME NEW t \in Tasks, Commit(t) \/ Abort(t)
      PROVE  SteadyReads'
  <2>1. \E job \in Jobs : Become(t, job) /\ job.pc \in {"success", "failed", "raised"}
    BY <1>4, WrittenJob DEF Commit, Abort, Labels
  <2>2. UNCHANGED <<served, steady, backend>>
    BY <1>4 DEF Commit, Abort, writeRest, auxVars
  <2>. QED
    BY <2>1, <2>2, NothingRead, ReadsFrame
<1>5. ASSUME NEW t \in Tasks, Ends(t)
      PROVE  SteadyReads'
  <2>1. /\ Become(t, Idle)
        /\ served' = [served EXCEPT ![t] = {}]
        /\ steady' = [steady EXCEPT ![t] = TRUE]
        /\ backend' = backend
    BY <1>5 DEF Ends, Record, Raise, Release, endRest, Become
  <2>2. /\ task'[t] = Idle
        /\ \A u \in Tasks : u # t => task'[u] = task[u] /\ served'[u] = served[u]
    BY <2>1, BecomeTask DEF TypeOK
  <2>3. \A u \in Tasks : u # t => (Steady(u)' <=> Steady(u))
    BY <2>1 DEF TypeOK, Steady
  <2>4. \A u \in Tasks : Steady(u)' =>
           /\ ReadSoFar(task'[u], backend'[Service(u)], served'[u])
           /\ ReadAll(task'[u], served'[u])
    <3> SUFFICES ASSUME NEW u \in Tasks, Steady(u)'
                 PROVE  /\ ReadSoFar(task'[u], backend'[Service(u)], served'[u])
                        /\ ReadAll(task'[u], served'[u])
      OBVIOUS
    <3>1. CASE u = t
      <4>1. task'[u] = Idle
        BY <2>2, <3>1
      <4>. QED
        BY <4>1, IdleType, NothingRead
    <3>2. CASE u # t
      <4>1. /\ Steady(u) /\ task'[u] = task[u] /\ served'[u] = served[u]
            /\ backend' = backend
        BY <2>1, <2>2, <2>3, <3>2
      <4>2. /\ ReadSoFar(task[u], backend[Service(u)], served[u])
            /\ ReadAll(task[u], served[u])
        BY <4>1 DEF SteadyReads
      <4>. QED
        BY <4>1, <4>2
    <3>. QED
      BY <3>1, <3>2
  <2>. QED
    BY <2>4 DEF SteadyReads, ReadSoFar, ReadAll
<1>6. ASSUME NEW s \in Services, Change(s)
      PROVE  SteadyReads'
  <2>1. PICK list \in Lists[s] : backend' = [backend EXCEPT ![s] = list]
    BY <1>6 DEF Change
  <2>2. /\ steady' = [t \in Tasks |-> steady[t] /\ t \notin Reading(s)]
        /\ \A t \in Tasks \ Reading(s) : served'[t] = served[t]
        /\ task' = task
    BY <1>6 DEF Change
  <2>3. \A t \in Tasks : Steady(t)' =>
           /\ ReadSoFar(task'[t], backend'[Service(t)], served'[t])
           /\ ReadAll(task'[t], served'[t])
    <3> SUFFICES ASSUME NEW t \in Tasks, Steady(t)'
                 PROVE  /\ ReadSoFar(task[t], backend'[Service(t)], served[t])
                        /\ ReadAll(task[t], served[t])
      BY <2>2 DEF Steady
    <3>1. Steady(t) /\ t \notin Reading(s)
      BY <2>2 DEF Steady
    <3>2. ReadSoFar(task[t], backend[Service(t)], served[t]) /\ ReadAll(task[t], served[t])
      BY <3>1 DEF SteadyReads
    <3>3. CASE Service(t) = s
      BY <3>1, <3>2, <3>3 DEF Reading, ReadSoFar
    <3>4. CASE Service(t) # s
      BY <2>1, <3>2, <3>4, TaskService DEF TypeOK, Backends
    <3>. QED
      BY <3>3, <3>4
  <2>. QED
    BY <2>3 DEF SteadyReads, ReadSoFar, ReadAll
<1>7. ASSUME Kill
      PROVE  SteadyReads'
  <2>1. \A t \in Tasks : task'[t] = Idle
    BY <1>7 DEF Kill
  <2>2. \A t \in Tasks :
           /\ ReadSoFar(task'[t], backend'[Service(t)], served'[t])
           /\ ReadAll(task'[t], served'[t])
    BY <2>1, IdleType, NothingRead
  <2>. QED
    BY <2>2 DEF SteadyReads, ReadSoFar, ReadAll
<1>8. ASSUME Rests
      PROVE  SteadyReads'
  BY <1>8 DEF Rests, locks, stored, auxVars, SteadyReads, Steady, ReadSoFar, ReadAll
<1>. QED
  BY <1>1, <1>2, <1>3, <1>4, <1>5, <1>6, <1>7, <1>8, StepKinds


-----------------------------------------------------------------------------
(***************************************************************************)
(* The theorems.                                                           *)
(***************************************************************************)
\* The inductive invariant holds at the start.
LEMMA InitInv == Init => IInv
  BY InitTypeOK, InitLocks, InitOrder, InitReads DEF IInv

\* ... and every step keeps it.
LEMMA StepInv == IInv /\ [Next]_vars => IInv'
  BY TypeStep, LocksStep, OrderStep, LogStep, ReadsStep DEF IInv

\* It holds in every behaviour of the jobs.
THEOREM Invariance == Spec => []IInv
<1>. QED
  BY InitInv, StepInv, PTL DEF Spec

\* The newest row of refresh_log tells which run's rows are cached.
THEOREM LogTells == Spec => []LogTellsCache
<1>1. IInv => LogTellsCache
  BY DEF IInv
<1>. QED
  BY <1>1, Invariance, PTL

\* No dataset goes back to the rows of an older fetch.
THEOREM Backwards == Spec => NeverBackwards
<1>1. IInv /\ [Next]_vars => [\A s \in Services : cachedRun'[s] >= cachedRun[s]]_vars
  <2> SUFFICES ASSUME IInv, [Next]_vars, NEW s \in Services
               PROVE  cachedRun'[s] >= cachedRun[s]
    OBVIOUS
  <2>1. TypeOK /\ RunOrder
    BY DEF IInv
  <2>2. cachedRun[s] \in Nat
    BY <2>1 DEF TypeOK
  <2>3. ASSUME NEW t \in Tasks, Commit(t)
        PROVE  cachedRun'[s] >= cachedRun[s]
    <3>1. /\ cachedRun' = [cachedRun EXCEPT ![Service(t)] = task[t].run]
          /\ task[t].pc = "commit"
      BY <2>3 DEF Commit
    <3>2. cachedRun[Service(t)] < task[t].run /\ task[t].run \in Nat
      BY <2>1, <3>1 DEF RunOrder, TypeOK, Jobs, Labels
    <3>. QED
      BY <2>1, <2>2, <3>1, <3>2 DEF TypeOK
  <2>4. ASSUME cachedRun' = cachedRun
        PROVE  cachedRun'[s] >= cachedRun[s]
    BY <2>2, <2>4
  <2>5. (\E t \in Tasks : Commit(t)) \/ cachedRun' = cachedRun
    BY <2>1, StepKinds
       DEF Begins, FetchesTo, Write, Abort, Ends, Record, Raise, Change, Kill, Rests,
           rest, fetchRest, writeRest, endRest, stored
  <2>. QED
    BY <2>3, <2>4, <2>5
<1>. QED
  BY <1>1, Invariance, PTL DEF Spec, NeverBackwards

\* What is committed after a fetch during which the list did not change is that
\* list, all of it.
THEOREM Whole == Spec => SteadyWhole
<1>1. IInv /\ [Next]_vars =>
         [\A t \in Tasks :
             (/\ task[t].pc = "commit" /\ task'[t].pc = "success"
              /\ steady[t] /\ Service(t) \notin Untotalled)
                 => cached'[Service(t)] = served[t] \cap Usable]_vars
  <2> SUFFICES ASSUME IInv, [Next]_vars, NEW t \in Tasks,
                      task[t].pc = "commit", task'[t].pc = "success",
                      steady[t], Service(t) \notin Untotalled
               PROVE  cached'[Service(t)] = served[t] \cap Usable
    OBVIOUS
  <2>1. TypeOK /\ SteadyReads
    BY DEF IInv
  <2>2. ToSet(task[t].items) = served[t]
    BY <2>1 DEF SteadyReads, Steady, ReadAll
  <2>3. ASSUME NEW u \in Tasks, NEW job, Become(u, job), job.pc # "success"
        PROVE  FALSE
    BY <2>1, <2>3, BecomeTask
  <2>4. ~\E u \in Tasks : Begins(u) \/ Write(u)
    BY <2>1, <2>3, BegunTask, WritingJob
  <2>5. ~\E u \in Tasks : \E job : FetchesTo(u, job)
    BY <2>3 DEF FetchesTo
  <2>6. ~\E u \in Tasks : Abort(u)
    <3>1. "raised" \in Labels /\ "failed" \in Labels
      BY DEF Labels
    <3>. QED
      BY <2>1, <2>3, <3>1, WrittenJob DEF Abort
  <2>7. ~\E u \in Tasks : Ends(u)
    BY <2>3, IdleType DEF Ends, Record, Raise, Release, Become
  <2>8. ~((\E s \in Services : Change(s)) \/ Rests)
    BY DEF Change, Rests, locks
  <2>9. ~Kill
    BY IdleType DEF Kill
  <2>10. PICK u \in Tasks : Commit(u)
    BY <2>1, <2>4, <2>5, <2>6, <2>7, <2>8, <2>9, StepKinds
  <2>11. u = t
    <3>1. Become(u, Ended(task[u], "success"))
      BY <2>10 DEF Commit
    <3>2. u # t => task'[t] = task[t]
      BY <2>1, <3>1, BecomeTask
    <3>. QED
      BY <3>2
  <2>12. cached' = [cached EXCEPT ![Service(t)] = ToSet(task[t].items) \cap Usable]
    BY <2>10, <2>11 DEF Commit
  <2>. QED
    BY <2>1, <2>2, <2>12, TaskService DEF TypeOK
<1>. QED
  BY <1>1, Invariance, PTL DEF Spec, SteadyWhole

-----------------------------------------------------------------------------
(***************************************************************************)
(* The jobs implement DatasetCache.                                        *)
(***************************************************************************)
InHand(t) == task[t].pc \in {"write", "commit"}

HandHolds ==
    ServiceLocks => \A t \in Tasks : InHand(t) =>
                       Fetched[Service(t)] = ToSet(task[t].items)

HandEmpty ==
    \A s \in Services : (\A t \in Tasks : Service(t) = s => ~InHand(t))
                            => Fetched[s] = {Nobody}

\* A service has in hand what its one task at work has read.
LEMMA FetchedBy == HandHolds
<1> SUFFICES ASSUME ServiceLocks, NEW t \in Tasks, InHand(t)
             PROVE  Fetched[Service(t)] = ToSet(task[t].items)
  BY DEF HandHolds
<1> DEFINE held(u) == Service(u) = Service(t) /\ task[u].pc \in {"write", "commit"}
<1>1. \A u \in Tasks : held(u) <=> u = t
  BY OneAtWork DEF InHand
<1>2. (CHOOSE u \in Tasks : held(u)) = t
  BY <1>1
<1>3. Service(t) \in Services
  BY TaskService
<1>. QED
  BY <1>1, <1>2, <1>3 DEF Fetched

\* ... or nothing.
LEMMA FetchedByNone == HandEmpty
BY DEF HandEmpty, Fetched, InHand

\* Both hold after a step as well.
LEMMA FetchedAfter == HandHolds' /\ HandEmpty'
BY FetchedBy, FetchedByNone, PTL

\* Nothing is not a set of items.
LEMMA NothingIsNoSet == ASSUME NEW list \in Seq(Items) PROVE ToSet(list) # {Nobody}
BY ItemsOf, RefreshAssumption

\* A service whose tasks hold what they held has in hand what it had.
LEMMA FetchedSame ==
  ASSUME ServiceLocks, ServiceLocks', NEW s \in Services,
         \A t \in Tasks : Service(t) = s =>
            /\ InHand(t)' <=> InHand(t)
            /\ InHand(t) => task'[t].items = task[t].items
  PROVE  Fetched'[s] = Fetched[s]
<1>1. CASE \E t \in Tasks : Service(t) = s /\ InHand(t)
  <2>1. PICK t \in Tasks : Service(t) = s /\ InHand(t)
    BY <1>1
  <2>2. Fetched[s] = ToSet(task[t].items)
    BY <2>1, FetchedBy DEF HandHolds
  <2>3. InHand(t)' /\ task'[t].items = task[t].items
    BY <2>1
  <2>4. Fetched'[s] = ToSet(task'[t].items)
    BY <2>1, <2>3, FetchedAfter DEF HandHolds
  <2>. QED
    BY <2>2, <2>3, <2>4
<1>2. CASE \A t \in Tasks : Service(t) = s => ~InHand(t)
  <2>1. \A t \in Tasks : Service(t) = s => ~InHand(t)'
    BY <1>2
  <2>2. Fetched[s] = {Nobody}
    BY <1>2, FetchedByNone DEF HandEmpty
  <2>3. Fetched'[s] = {Nobody}
    BY <2>1, FetchedAfter DEF HandEmpty
  <2>. QED
    BY <2>2, <2>3
<1>. QED
  BY <1>1, <1>2


\* What is in hand is known service by service.
LEMMA FetchedIs ==
  /\ Fetched = [s \in Services |-> Fetched[s]]
  /\ Fetched' = [s \in Services |-> Fetched'[s]]
BY DEF Fetched

\* Nothing else is in hand after a step of a task that holds what it held.
LEMMA HandFrame ==
  ASSUME ServiceLocks, ServiceLocks',
         \A t \in Tasks : /\ InHand(t)' <=> InHand(t)
                          /\ InHand(t) => task'[t].items = task[t].items
  PROVE  Fetched' = Fetched
<1>1. \A s \in Services : Fetched'[s] = Fetched[s]
  BY FetchedSame
<1>. QED
  BY <1>1, FetchedIs

\* What a service has in hand when its task at work becomes another job.
LEMMA HandChange ==
  ASSUME TypeOK, ServiceLocks, ServiceLocks', NEW t \in Tasks, NEW job, Become(t, job),
         task[t].pc # "idle", job.pc # "idle"
  PROVE  /\ job.pc \in {"write", "commit"} =>
               Fetched' = [Fetched EXCEPT ![Service(t)] = ToSet(job.items)]
         /\ job.pc \notin {"write", "commit"} =>
               Fetched' = [Fetched EXCEPT ![Service(t)] = {Nobody}]
<1>1. \A u \in Tasks : task'[u] = IF u = t THEN job ELSE task[u]
  BY BecomeTask
<1>2. ASSUME NEW s \in Services, s # Service(t)
      PROVE  Fetched'[s] = Fetched[s]
  <2>1. \A u \in Tasks : Service(u) = s => task'[u] = task[u]
    BY <1>1, <1>2
  <2>. QED
    BY <2>1, FetchedSame DEF InHand
<1>3. Service(t) \in Services
  BY TaskService
<1>4. ASSUME job.pc \in {"write", "commit"}
      PROVE  Fetched'[Service(t)] = ToSet(job.items)
  <2>1. InHand(t)' /\ task'[t].items = job.items
    BY <1>1, <1>4 DEF InHand
  <2>. QED
    BY <2>1, FetchedAfter DEF HandHolds
<1>5. ASSUME job.pc \notin {"write", "commit"}
      PROVE  Fetched'[Service(t)] = {Nobody}
  <2>1. \A u \in Tasks : Service(u) = Service(t) /\ u # t => task[u].pc = "idle"
    BY OneAtWork
  <2>2. \A u \in Tasks : Service(u) = Service(t) => ~InHand(u)'
    BY <1>1, <1>5, <2>1 DEF InHand
  <2>. QED
    BY <1>3, <2>2, FetchedAfter DEF HandEmpty
<1>6. \A f, g, x : /\ f = [s \in Services |-> f[s]]
                   /\ g = [s \in Services |-> g[s]]
                   /\ \A s \in Services : g[s] = IF s = Service(t) THEN x ELSE f[s]
                   => g = [f EXCEPT ![Service(t)] = x]
  OBVIOUS
<1>. QED
  BY <1>2, <1>3, <1>4, <1>5, <1>6, FetchedIs

\* Every step of the jobs is one of DatasetCache, or changes nothing of it.
LEMMA CacheStep == IInv /\ IInv' /\ [Next]_vars => [Cache!Next]_(Cache!vars)
<1> SUFFICES ASSUME IInv, IInv', [Next]_vars PROVE [Cache!Next]_(Cache!vars)
  OBVIOUS
<1>1. TypeOK /\ ServiceLocks /\ ServiceLocks'
  BY DEF IInv
<1>2. ASSUME cached' = cached, Fetched' = Fetched
      PROVE  [Cache!Next]_(Cache!vars)
  BY <1>2 DEF Cache!vars
<1>3. ASSUME NEW s \in Services, Cache!Fetch(s) \/ Cache!Replace(s) \/ Cache!Abandon(s)
      PROVE  [Cache!Next]_(Cache!vars)
  BY <1>3 DEF Cache!Next
<1>4. ASSUME NEW t \in Tasks, Begins(t)
      PROVE  [Cache!Next]_(Cache!vars)
  <2>1. PICK job \in Jobs : Become(t, job) /\ job.pc = "request"
    BY <1>1, <1>4, BegunTask
  <2>2. task[t].pc = "idle" /\ cached' = cached
    BY <1>1, <1>4, TaskService DEF Begins, rest, ServiceLocks
  <2>3. Fetched' = Fetched
    BY <1>1, <2>1, <2>2, BecomeTask, HandFrame DEF InHand
  <2>. QED
    BY <1>2, <2>2, <2>3
<1>5. ASSUME NEW t \in Tasks, NEW job, FetchesTo(t, job)
      PROVE  [Cache!Next]_(Cache!vars)
  <2>1. /\ Become(t, job) /\ job \in Jobs /\ cached' = cached
        /\ task[t].pc \in {"request", "sleep"}
        /\ job.pc \in {"request", "sleep", "write", "failed", "raised"}
    BY <1>5 DEF FetchesTo, fetchRest, rest
  <2>2. CASE job.pc # "write"
    <3>1. Fetched' = Fetched
      BY <1>1, <2>1, <2>2, BecomeTask, HandFrame DEF InHand
    <3>. QED
      BY <1>2, <2>1, <3>1
  <2>3. CASE job.pc = "write"
    <3>1. \A u \in Tasks : Service(u) = Service(t) => ~InHand(u)
      BY <1>1, <2>1, OneAtWork DEF InHand
    <3>2. Service(t) \in Services /\ Fetched[Service(t)] = {Nobody}
      BY <3>1, TaskService, FetchedByNone DEF HandEmpty
    <3>3. Fetched' = [Fetched EXCEPT ![Service(t)] = ToSet(job.items)]
      BY <1>1, <2>1, <2>3, HandChange
    <3>4. ToSet(job.items) \in SUBSET Items
      BY <2>1, ItemsOf DEF Jobs
    <3>5. Fetched'[Service(t)] = ToSet(job.items)
      BY <3>2, <3>3 DEF Fetched
    <3>6. Fetched' = [Fetched EXCEPT ![Service(t)] = Fetched'[Service(t)]]
      BY ONLY <3>3, <3>5
    <3>7. Fetched'[Service(t)] \in SUBSET Items
      BY ONLY <3>4, <3>5
    <3>8. Cache!Fetch(Service(t))
      BY <2>1, <3>2, <3>6, <3>7 DEF Cache!Fetch
    <3>. QED
      BY <1>3, <3>2, <3>8
  <2>. QED
    BY <2>2, <2>3
<1>6. ASSUME NEW t \in Tasks, Write(t)
      PROVE  [Cache!Next]_(Cache!vars)
  <2>1. PICK job \in Jobs : /\ Become(t, job) /\ job.pc = "commit"
                            /\ job.items = task[t].items
    BY <1>1, <1>6, WritingJob
  <2>2. task[t].pc = "write" /\ cached' = cached
    BY <1>6 DEF Write
  <2>3. Fetched' = Fetched
    BY <1>1, <2>1, <2>2, BecomeTask, HandFrame DEF InHand
  <2>. QED
    BY <1>2, <2>2, <2>3
<1>7. ASSUME NEW t \in Tasks, task[t].pc = "commit"
      PROVE  /\ Service(t) \in Services
             /\ Fetched[Service(t)] = ToSet(task[t].items)
             /\ Fetched[Service(t)] # {Nobody}
  <2>1. Fetched[Service(t)] = ToSet(task[t].items)
    BY <1>1, <1>7, FetchedBy DEF HandHolds, InHand
  <2>2. task[t].items \in Seq(Items)
    BY <1>1 DEF TypeOK, Jobs
  <2>. QED
    BY <2>1, <2>2, NothingIsNoSet, TaskService
<1>8. ASSUME NEW t \in Tasks, Commit(t)
      PROVE  [Cache!Next]_(Cache!vars)
  <2>1. /\ task[t].pc = "commit" /\ Become(t, Ended(task[t], "success"))
        /\ cached' = [cached EXCEPT ![Service(t)] = ToSet(task[t].items) \cap Usable]
    BY <1>8 DEF Commit
  <2>2. Ended(task[t], "success").pc = "success"
    BY <1>1, WrittenJob DEF Labels
  <2>3. Fetched' = [Fetched EXCEPT ![Service(t)] = {Nobody}]
    BY <1>1, <2>1, <2>2, HandChange
  <2>4. Cache!Replace(Service(t))
    BY <1>7, <2>1, <2>3 DEF Cache!Replace
  <2>. QED
    BY <1>3, <1>7, <2>1, <2>4
<1>9. ASSUME NEW t \in Tasks, Abort(t)
      PROVE  [Cache!Next]_(Cache!vars)
  <2>1. PICK label \in {"raised", "failed"} :
           /\ task[t].pc = "commit" /\ Become(t, Ended(task[t], label))
           /\ cached' = cached
    BY <1>9 DEF Abort
  <2>2. Ended(task[t], label).pc = label
    BY <1>1, WrittenJob DEF Labels
  <2>3. Fetched' = [Fetched EXCEPT ![Service(t)] = {Nobody}]
    BY <1>1, <2>1, <2>2, HandChange
  <2>4. Cache!Abandon(Service(t))
    BY <1>7, <2>1, <2>3 DEF Cache!Abandon
  <2>. QED
    BY <1>3, <1>7, <2>1, <2>4
<1>10. ASSUME NEW t \in Tasks, Ends(t)
      PROVE  [Cache!Next]_(Cache!vars)
  <2>1. /\ Become(t, Idle) /\ cached' = cached
        /\ task[t].pc \in {"success", "failed", "raised"}
    BY <1>10 DEF Ends, Record, Raise, Release, endRest, Become
  <2>2. Fetched' = Fetched
    BY <1>1, <2>1, BecomeTask, IdleType, HandFrame DEF InHand
  <2>. QED
    BY <1>2, <2>1, <2>2
<1>11. ASSUME task' = task, cached' = cached
      PROVE  [Cache!Next]_(Cache!vars)
  <2>1. Fetched' = Fetched
    BY <1>1, <1>11, HandFrame DEF InHand
  <2>. QED
    BY <1>2, <1>11, <2>1
<1>12. ASSUME Kill
      PROVE  [Cache!Next]_(Cache!vars)
  <2>1. \A t \in Tasks : ~InHand(t)'
    BY <1>12, IdleType DEF Kill, InHand
  <2>2. \A s \in Services : Fetched'[s] = {Nobody}
    BY <2>1, FetchedAfter DEF HandEmpty
  <2>3. Fetched' = [s \in Services |-> {Nobody}]
    BY <2>2, FetchedIs
  <2>4. Cache!Crash
    BY <1>12, <2>3 DEF Cache!Crash, Kill, stored
  <2>. QED
    BY <2>4 DEF Cache!Next
<1>. QED
  BY <1>1, <1>4, <1>5, <1>6, <1>8, <1>9, <1>10, <1>11, <1>12, StepKinds
     DEF Change, Rests, locks, stored

\* The jobs implement the promise of DatasetCache: a dataset is replaced by the
\* whole set that was fetched, at once, or stays as it is.
THEOREM Implementation == Spec => WholeOrUntouched
<1>1. Init => Cache!Init
  <2> SUFFICES ASSUME Init PROVE Cache!Init
    OBVIOUS
  <2>1. \A t \in Tasks : ~InHand(t)
    BY IdleType DEF Init, InHand
  <2>2. \A s \in Services : Fetched[s] = {Nobody}
    BY <2>1, FetchedByNone DEF HandEmpty
  <2>3. Fetched = [s \in Services |-> {Nobody}]
    BY <2>2, FetchedIs
  <2>. QED
    BY <2>3 DEF Init, Cache!Init
<1>. QED
  BY <1>1, CacheStep, Invariance, PTL DEF Spec, WholeOrUntouched, Cache!Spec


=============================================================================
