---------------------------- MODULE ChatAskProofs ----------------------------
(***************************************************************************)
(* Theorems about ChatAsk, for any users, posts, quotas, windows, number   *)
(* of slots and bound of the clock.                                        *)
(***************************************************************************)
EXTENDS ChatAsk, FiniteSetTheorems, WellFoundedInduction, TLAPS

-----------------------------------------------------------------------------
(***************************************************************************)
(* The inductive invariant, in parts.                                      *)
(***************************************************************************)
\* A question that runs holds its user's ticket, unless it is abandoned.
TicketHeld ==
    \A r \in Requests :
        Running(r) => \/ active[UserOf[r]] = Ticket(r)
                      \/ IsAbandoned(Ticket(r))

\* The deque has every counted stamp of the last hour.
StampsKept ==
    \A u \in Users :
        /\ IsFiniteSet(counted[u])
        /\ asked[u] \subseteq counted[u]
        /\ worked[u] \subseteq counted[u]
        /\ \A s \in counted[u] : s.at <= now
        /\ \A s \in counted[u] \ asked[u] : s.at <= now - Hour

\* A question that runs is counted, under a stamp of its own.
StampsOfRunning ==
    \A r \in Requests : Running(r) =>
        /\ question[r].stamp \in counted[UserOf[r]]
        /\ question[r].pc \in {"reading", "preparing"} =>
              question[r].stamp \notin worked[UserOf[r]]
        /\ \A q \in Requests \ {r} :
              Running(q) /\ UserOf[q] = UserOf[r]
                  => question[q].stamp # question[r].stamp

\* Every window holds no more counted questions than its quota.
QuotaKept ==
    \A u \in Users, first \in Times :
        /\ InWindow(counted[u], first, Minute) <= PerMinute
        /\ InWindow(counted[u], first, Hour) <= PerHour

Calls == {r \in Requests : question[r].pc = "model"}

\* The slots that are free and the calls that are open are all the slots.
SlotsCounted ==
    /\ IsFiniteSet(Calls)
    /\ free + Cardinality(Calls) = ChatSlots

IInv ==
    /\ TypeOK
    /\ TicketHeld
    /\ StampsKept
    /\ StampsOfRunning
    /\ QuotaKept
    /\ SlotsCounted

-----------------------------------------------------------------------------
(***************************************************************************)
(* Facts about sets of numbers and of stamps.                              *)
(***************************************************************************)
\* A set of naturals has a least member.
LEMMA Least ==
  ASSUME NEW T \in SUBSET Nat, T # {}
  PROVE  \E x \in T : \A y \in T : x <= y
<1> DEFINE R == {ss \in Nat \X Nat : ss[1] < ss[2]}
<1>1. IsWellFoundedOn(R, Nat)
  BY NatLessThanWellFounded DEF OpToRel
<1>2. PICK x \in T : \A y \in T : <<y, x>> \notin R
  BY <1>1, WFMin
<1>3. \A y \in T : ~(y < x)
  BY <1>2
<1>. QED
  BY <1>3

\* The larger of two numbers.
LEMMA MaxOfTwo ==
  ASSUME NEW m \in Int, NEW n \in Int
  PROVE  /\ Max({m, n}) \in {m, n}
         /\ Max({m, n}) >= m /\ Max({m, n}) >= n
<1>1. \E x \in {m, n} : \A y \in {m, n} : x >= y
  OBVIOUS
<1>. QED
  BY <1>1 DEF Max

\* A part of a finite set is no larger.
LEMMA PartOf ==
  ASSUME NEW S, NEW T, IsFiniteSet(T), S \subseteq T
  PROVE  /\ IsFiniteSet(S)
         /\ Cardinality(S) \in Nat /\ Cardinality(T) \in Nat
         /\ Cardinality(S) <= Cardinality(T)
  BY FS_Subset, FS_CardinalityType

\* Of a finite set of stamps at least limit many, the limit-th newest exists: as
\* many are at or after its time, and fewer after.
LEMMA BlockerFound ==
  ASSUME NEW S \in SUBSET Stamps, IsFiniteSet(S), NEW limit \in Nat \ {0},
         Cardinality(S) >= limit
  PROVE  /\ Blocker(S, limit) \in Times
         /\ Cardinality(Since(S, Blocker(S, limit))) >= limit
         /\ Cardinality(Since(S, Blocker(S, limit) + 1)) < limit
<1> DEFINE Few == {t \in Nat : Cardinality(Since(S, t)) < limit}
<1>1. \A t \in Nat : IsFiniteSet(Since(S, t)) /\ Cardinality(Since(S, t)) \in Nat
  BY PartOf DEF Since
<1>2. MaxTime \in Nat
  BY ChatAssumption
<1>3. Since(S, MaxTime + 1) = {}
  BY <1>2 DEF Since, Stamps, Times
<1>4. MaxTime + 1 \in Few
  BY <1>2, <1>3, FS_EmptySet
<1>5. PICK m \in Few : \A y \in Few : m <= y
  BY <1>4, Least
<1>6. Since(S, 0) = S
  BY DEF Since, Stamps, Times
<1>7. m # 0
  BY <1>1, <1>6
<1>8. m - 1 \in Nat /\ m - 1 \notin Few /\ m - 1 \in Times
  BY <1>2, <1>4, <1>5, <1>7 DEF Times
<1>9. m = (m - 1) + 1
  BY <1>8
<1>10. \E time \in Times : /\ Cardinality(Since(S, time)) >= limit
                           /\ Cardinality(Since(S, time + 1)) < limit
  BY <1>1, <1>8, <1>9
<1>. QED
  BY <1>10 DEF Blocker

\* The wait of one quota: none exactly when fewer than the limit are in the
\* window, and exact when there is one.
LEMMA WaitForExact ==
  ASSUME NEW S \in SUBSET Stamps, IsFiniteSet(S), NEW time \in Nat,
         NEW window \in Nat, NEW limit \in Nat \ {0}
  PROVE  /\ WaitFor(S, time, window, limit) \in Nat
         /\ WaitFor(S, time, window, limit) = 0
                <=> Cardinality(Within(S, time, window)) < limit
         /\ \A t \in Nat : t >= time =>
                ( WaitFor(S, t, window, limit) = 0
                     <=> t >= time + WaitFor(S, time, window, limit) )
<1> DEFINE In(t) == Within(S, t, window)
           b == Blocker(In(time), limit)
<1>1. \A t \in Nat : /\ In(t) \in SUBSET Stamps /\ IsFiniteSet(In(t))
                     /\ Cardinality(In(t)) \in Nat
  BY PartOf DEF Within
<1>2. \A t \in Nat : Cardinality(In(t)) >= limit =>
        /\ Blocker(In(t), limit) \in Times
        /\ Cardinality(Since(In(t), Blocker(In(t), limit))) >= limit
        /\ Cardinality(Since(In(t), Blocker(In(t), limit) + 1)) < limit
  BY <1>1, BlockerFound
<1>3. ASSUME NEW t \in Nat, Cardinality(In(t)) >= limit
      PROVE  /\ WaitFor(S, t, window, limit) = Blocker(In(t), limit) + window - t
             /\ WaitFor(S, t, window, limit) \in Nat \ {0}
  <2> DEFINE c == Blocker(In(t), limit)
  <2>1. c \in Nat
    BY <1>2, <1>3 DEF Times
  <2>2. /\ Cardinality(Since(In(t), c)) >= limit
        /\ Cardinality(Since(In(t), c + 1)) < limit
        /\ Cardinality(Since(In(t), c + 1)) \in Nat
    <3>1. Since(In(t), c + 1) \subseteq In(t)
      BY DEF Since
    <3>. QED
      BY <1>1, <1>2, <1>3, <3>1, PartOf
  <2>3. ~(Since(In(t), c) \subseteq Since(In(t), c + 1))
    <3>1. Since(In(t), c + 1) \subseteq Since(In(t), c)
      BY <1>1, <2>1 DEF Since, Stamps, Times
    <3>2. Since(In(t), c) # Since(In(t), c + 1)
      BY <2>2
    <3>. QED
      BY <3>1, <3>2
  <2>4. PICK s \in In(t) : s.at >= c /\ ~(s.at >= c + 1)
    BY <2>3 DEF Since
  <2>5. s.at \in Nat /\ s.at > t - window
    BY <1>1 DEF Within, Stamps, Times
  <2>6. c > t - window
    BY <2>1, <2>4, <2>5
  <2>7. WaitFor(S, t, window, limit) = c + window - t
    BY <1>1, <1>3 DEF WaitFor
  <2>. QED
    BY <2>1, <2>6, <2>7
<1>4. ASSUME NEW t \in Nat, Cardinality(In(t)) < limit
      PROVE  WaitFor(S, t, window, limit) = 0
  BY <1>4 DEF WaitFor
<1>5. ASSUME NEW t \in Nat
      PROVE  /\ WaitFor(S, t, window, limit) \in Nat
             /\ WaitFor(S, t, window, limit) = 0 <=> Cardinality(In(t)) < limit
  <2>1. Cardinality(In(t)) < limit \/ Cardinality(In(t)) >= limit
    BY <1>1
  <2>. QED
    BY <1>1, <1>3, <1>4, <2>1
<1>6. ASSUME NEW t \in Nat, t >= time, Cardinality(In(time)) < limit
      PROVE  Cardinality(In(t)) < limit
  <2>1. In(t) \subseteq In(time)
    BY <1>6 DEF Within, Stamps, Times
  <2>2. Cardinality(In(t)) <= Cardinality(In(time))
    BY <1>1, <2>1, PartOf
  <2>. QED
    BY <1>1, <1>6, <2>2
<1>7. ASSUME NEW t \in Nat, t >= time, Cardinality(In(time)) >= limit
      PROVE  Cardinality(In(t)) < limit <=> t >= b + window
  <2>1. b \in Nat
    BY <1>2, <1>7 DEF Times
  <2>2. \A n \in Nat : IsFiniteSet(Since(In(time), n))
                       /\ Cardinality(Since(In(time), n)) \in Nat
    BY <1>1, PartOf DEF Since
  <2>3. CASE t >= b + window
    <3>1. In(t) \subseteq Since(In(time), b + 1)
      BY <1>7, <2>1, <2>3 DEF Within, Since, Stamps, Times
    <3>2. Cardinality(In(t)) <= Cardinality(Since(In(time), b + 1))
      BY <2>1, <2>2, <3>1, PartOf
    <3>. QED
      BY <1>1, <1>2, <1>7, <2>1, <2>2, <2>3, <3>2
  <2>4. CASE t < b + window
    <3>1. Since(In(time), b) \subseteq In(t)
      BY <1>7, <2>1, <2>4 DEF Within, Since, Stamps, Times
    <3>2. Cardinality(Since(In(time), b)) <= Cardinality(In(t))
      BY <1>1, <3>1, PartOf
    <3>. QED
      BY <1>1, <1>2, <1>7, <2>1, <2>2, <2>4, <3>2
  <2>. QED
    BY <2>1, <2>3, <2>4
<1>8. ASSUME NEW t \in Nat, t >= time
      PROVE  WaitFor(S, t, window, limit) = 0
                  <=> t >= time + WaitFor(S, time, window, limit)
  <2>1. CASE Cardinality(In(time)) < limit
    <3>1. WaitFor(S, time, window, limit) = 0
      BY <1>4, <2>1
    <3>. QED
      BY <1>4, <1>6, <1>8, <2>1, <3>1
  <2>2. CASE Cardinality(In(time)) >= limit
    <3>1. b \in Nat
      BY <1>2, <2>2 DEF Times
    <3>2. time + WaitFor(S, time, window, limit) = b + window
      BY <1>3, <2>2, <3>1
    <3>. QED
      BY <1>5, <1>7, <1>8, <2>2, <3>2
  <2>. QED
    BY <1>1, <2>1, <2>2
<1>. QED
  BY <1>5, <1>8

\* Both quotas at once.
LEMMA RetryAfterExact ==
  ASSUME NEW S \in SUBSET Stamps, IsFiniteSet(S), NEW time \in Nat
  PROVE  /\ RetryAfter(S, time) \in Nat
         /\ RetryAfter(S, time) = 0 =>
                /\ Cardinality(Within(S, time, Minute)) < PerMinute
                /\ Cardinality(Within(S, time, Hour)) < PerHour
         /\ \A t \in Nat : t >= time =>
                ( RetryAfter(S, t) = 0 <=> t >= time + RetryAfter(S, time) )
<1>1. /\ Minute \in Nat /\ Hour \in Nat
      /\ PerMinute \in Nat \ {0} /\ PerHour \in Nat \ {0}
  BY ChatAssumption
<1> DEFINE M(t) == WaitFor(S, t, Minute, PerMinute)
           H(t) == WaitFor(S, t, Hour, PerHour)
<1>2. \A t \in Nat : M(t) \in Nat /\ H(t) \in Nat
  BY <1>1, WaitForExact
<1>3. /\ M(time) = 0 <=> Cardinality(Within(S, time, Minute)) < PerMinute
      /\ H(time) = 0 <=> Cardinality(Within(S, time, Hour)) < PerHour
  BY <1>1, WaitForExact
<1>4. \A t \in Nat : t >= time => /\ M(t) = 0 <=> t >= time + M(time)
                                  /\ H(t) = 0 <=> t >= time + H(time)
  BY <1>1, WaitForExact
<1>5. \A t \in Nat : RetryAfter(S, t) = Max({M(t), H(t)})
  BY DEF RetryAfter
<1>6. \A t \in Nat : /\ RetryAfter(S, t) \in {M(t), H(t)}
                     /\ RetryAfter(S, t) >= M(t) /\ RetryAfter(S, t) >= H(t)
  <2>1. \A m, n \in Int : /\ Max({m, n}) \in {m, n}
                          /\ Max({m, n}) >= m /\ Max({m, n}) >= n
    BY MaxOfTwo
  <2> HIDE DEF M, H
  <2>2. SUFFICES ASSUME NEW t \in Nat
                 PROVE  /\ RetryAfter(S, t) \in {M(t), H(t)}
                        /\ RetryAfter(S, t) >= M(t) /\ RetryAfter(S, t) >= H(t)
    OBVIOUS
  <2>3. M(t) \in Int /\ H(t) \in Int
    BY <1>2
  <2>4. /\ Max({M(t), H(t)}) \in {M(t), H(t)}
        /\ Max({M(t), H(t)}) >= M(t) /\ Max({M(t), H(t)}) >= H(t)
    BY <2>1, <2>3
  <2>. QED
    BY <1>5, <2>4
<1> HIDE DEF M, H
<1>7. \A t \in Nat : /\ RetryAfter(S, t) \in Nat
                     /\ RetryAfter(S, t) = 0 <=> M(t) = 0 /\ H(t) = 0
  BY <1>2, <1>6
<1>8. \A t \in Nat : t >= time =>
         ( RetryAfter(S, t) = 0 <=> t >= time + RetryAfter(S, time) )
  BY <1>2, <1>4, <1>6, <1>7
<1>. QED
  BY <1>3, <1>7, <1>8


\* A number that no stamp of the set has.
LEMMA FreshNumber ==
  ASSUME NEW S \in SUBSET Stamps, IsFiniteSet(S)
  PROVE  \E n \in 0 .. Cardinality(S) : \A s \in S : s.nth # n
<1> DEFINE C == Cardinality(S)
           f == [n \in 0 .. C |-> CHOOSE s \in S : s.nth = n]
<1>1. C \in Nat
  BY FS_CardinalityType
<1>2. IsFiniteSet(0 .. C) /\ Cardinality(S) < Cardinality(0 .. C)
  BY <1>1, FS_Interval
<1>3. ASSUME \A n \in 0 .. C : \E s \in S : s.nth = n
      PROVE  FALSE
  <2>1. \A n \in 0 .. C : f[n] \in S /\ f[n].nth = n
    BY <1>3
  <2>2. f \in [0 .. C -> S]
    BY <2>1
  <2> HIDE DEF f, C
  <2>3. \E m, n \in 0 .. C : m # n /\ f[m] = f[n]
    BY ONLY <1>2, <2>2, IsFiniteSet(S), FS_PigeonHole
  <2>. QED
    BY <2>1, <2>3
<1>. QED
  BY <1>3

\* The new stamp is one that is not counted yet, of this moment.
LEMMA NewStampFresh ==
  ASSUME TypeOK, NEW u \in Users, IsFiniteSet(counted[u])
  PROVE  /\ NewStamp(u) \in Stamps
         /\ NewStamp(u).at = now
         /\ NewStamp(u) \notin counted[u]
<1>1. counted[u] \in SUBSET Stamps /\ now \in Times
  BY DEF TypeOK
<1>2. PICK n \in 0 .. Cardinality(counted[u]) :
         /\ NewStamp(u) = [at |-> now, nth |-> n]
         /\ \A s \in counted[u] : s.nth # n
  BY <1>1, FreshNumber DEF NewStamp
<1>3. n \in Nat
  BY FS_CardinalityType
<1>. QED
  BY <1>1, <1>2, <1>3 DEF Stamps


-----------------------------------------------------------------------------
(***************************************************************************)
(* The steps, by what they do.                                             *)
(***************************************************************************)
\* A question goes on: it is counted under the same stamp.
Moves(r, job) ==
    /\ Running(r)
    /\ question[r].pc # "model"
    /\ question' = [question EXCEPT ![r] = job]
    /\ job.pc \in Steps
    /\ job.stamp = question[r].stamp
    /\ \/ /\ worked' = worked
          /\ job.pc \in {"reading", "preparing"} => question[r].pc = "reading"
       \/ /\ worked' = [worked EXCEPT ![UserOf[r]] = @ \cup {question[r].stamp}]
          /\ job.pc \notin {"reading", "preparing"}
    /\ job.pc = "model" => free > 0
    /\ free' = IF job.pc = "model" THEN free - 1 ELSE free
    /\ UNCHANGED <<now, limiterVars, counted>>

\* A question ends: refunded when its form was not read, otherwise counted.
Ends(r) ==
    /\ Running(r)
    /\ Leave(r)
    /\ \/ question[r].pc = "reading" /\ Refund(r)
       \/ UNCHANGED <<asked, counted>>
    /\ free' = IF question[r].pc = "model" THEN free + 1 ELSE free
    /\ UNCHANGED <<now, lastSweep, worked>>

\* Every step is one of these.
LEMMA StepKinds ==
  ASSUME TypeOK, [Next]_vars
  PROVE  \/ \E r \in Requests : Acquire(r)
         \/ \E r \in Requests : Refuse(r)
         \/ \E r \in Requests, job \in Questions : Moves(r, job)
         \/ \E r \in Requests : Ends(r)
         \/ Tick
         \/ UNCHANGED vars
<1> DEFINE Kinds == \/ \E r \in Requests : Acquire(r)
                    \/ \E r \in Requests : Refuse(r)
                    \/ \E r \in Requests, job \in Questions : Moves(r, job)
                    \/ \E r \in Requests : Ends(r)
                    \/ Tick
                    \/ UNCHANGED vars
<1>1. \A r \in Requests : question[r] \in Questions
  BY DEF TypeOK
<1>2. /\ {"reading", "preparing", "searching", "waiting", "model"} = Steps
      /\ Steps \subseteq Places
  BY DEF Steps, Places
<1>3. \A label \in Steps, job \in Questions :
        /\ [job EXCEPT !.pc = label] \in Questions
        /\ [job EXCEPT !.pc = label].pc = label
        /\ [job EXCEPT !.pc = label].stamp = job.stamp
  BY <1>2 DEF Questions
<1>4. ASSUME NEW r \in Requests, Reject(r) PROVE Kinds
  <2>1. Ends(r)
    BY <1>2, <1>4 DEF Reject, Ends, Running, Refund, Leave
  <2>. QED
    BY <2>1
<1>5. ASSUME NEW r \in Requests, ReadForm(r) PROVE Kinds
  <2> DEFINE job == [question[r] EXCEPT !.pc = "preparing", !.working = now]
  <2>1. /\ job \in Questions /\ job.pc = "preparing"
        /\ job.stamp = question[r].stamp
    <3>1. "preparing" \in Places /\ now \in Times
      BY <1>2 DEF TypeOK
    <3>. QED
      BY <1>1, <3>1 DEF Questions
  <2>2. question' = [question EXCEPT ![r] = job]
    BY <1>5 DEF ReadForm, TypeOK
  <2>3. Moves(r, job)
    <3> HIDE DEF job
    <3>. QED
      BY <1>2, <1>5, <2>1, <2>2 DEF ReadForm, Moves, Running, limiterVars
  <2>. QED
    BY <2>1, <2>3
<1>6. ASSUME NEW r \in Requests, Prepare(r) PROVE Kinds
  <2> DEFINE job == [question[r] EXCEPT !.pc = "searching"]
  <2>1. /\ job \in Questions /\ job.pc = "searching"
        /\ job.stamp = question[r].stamp
    BY <1>1, <1>2, <1>3
  <2>2. question' = [question EXCEPT ![r] = job]
    BY <1>6 DEF Prepare, Goto, TypeOK
  <2>3. Moves(r, job)
    <3> HIDE DEF job
    <3>. QED
      BY <1>2, <1>6, <2>1, <2>2 DEF Prepare, Moves, Running, limiterVars
  <2>. QED
    BY <2>1, <2>3
<1>7. ASSUME NEW r \in Requests, Gather(r) PROVE Kinds
  <2> DEFINE job == [question[r] EXCEPT !.pc = "waiting"]
  <2>1. /\ job \in Questions /\ job.pc = "waiting"
        /\ job.stamp = question[r].stamp
    BY <1>1, <1>2, <1>3
  <2>2. question' = [question EXCEPT ![r] = job]
    BY <1>7 DEF Gather, Goto, TypeOK
  <2>3. Moves(r, job)
    <3> HIDE DEF job
    <3>. QED
      BY <1>2, <1>7, <2>1, <2>2 DEF Gather, Moves, Running, limiterVars
  <2>. QED
    BY <2>1, <2>3
<1>8. ASSUME NEW r \in Requests, TakeSlot(r) PROVE Kinds
  <2> DEFINE job == [question[r] EXCEPT !.pc = "model"]
  <2>1. /\ job \in Questions /\ job.pc = "model"
        /\ job.stamp = question[r].stamp
    BY <1>1, <1>2, <1>3
  <2>2. question' = [question EXCEPT ![r] = job]
    BY <1>8 DEF TakeSlot, Goto, TypeOK
  <2>3. Moves(r, job)
    <3> HIDE DEF job
    <3>. QED
      BY <1>2, <1>8, <2>1, <2>2 DEF TakeSlot, Moves, Running, limiterVars
  <2>. QED
    BY <2>1, <2>3
<1>9. ASSUME NEW r \in Requests,
             Fail(r) \/ FailToPrepare(r) \/ TimeOutWaiting(r) \/ Answer(r) \/ Cancel(r)
      PROVE  Kinds
  <2>1. Ends(r)
    BY <1>2, <1>9
    DEF Fail, FailToPrepare, TimeOutWaiting, Answer, Cancel, Ends, Running, Leave
  <2>. QED
    BY <2>1
<1> HIDE DEF Kinds
<1>10. Kinds
  <2>1. CASE Next
    BY <1>4, <1>5, <1>6, <1>7, <1>8, <1>9, <2>1 DEF Next, Kinds
  <2>2. CASE UNCHANGED vars
    BY <2>2 DEF Kinds
  <2>. QED
    BY <2>1, <2>2
<1>. QED
  BY <1>10 DEF Kinds

\* What the sweep leaves: the tickets that are not abandoned, and every stamp of
\* the last hour.
LEMMA SweptFacts ==
  ASSUME TypeOK
  PROVE  /\ SweptAsked \in [Users -> SUBSET Stamps]
         /\ SweptActive \in [Users -> Tickets]
         /\ \A u \in Users :
              /\ SweptAsked[u] \subseteq asked[u]
              /\ \A s \in asked[u] : s.at > now - Hour => s \in SweptAsked[u]
              /\ Kept(u) = Within(asked[u], now, Hour)
              /\ \/ SweptActive[u] = active[u]
                 \/ IsAbandoned(active[u]) /\ SweptActive[u] = NoTicket
<1>1. NoTicket \in Tickets
  BY ChatAssumption DEF NoTicket, Tickets, Times
<1>2. \A u \in Users : active[u] \in Tickets /\ asked[u] \in SUBSET Stamps
  BY DEF TypeOK
<1>3. CASE SweepDue
  BY <1>1, <1>2, <1>3 DEF SweptAsked, SweptActive, Kept, Within
<1>4. CASE ~SweepDue
  BY <1>2, <1>4 DEF SweptAsked, SweptActive, Kept, Within, TypeOK
<1>. QED
  BY <1>3, <1>4


-----------------------------------------------------------------------------
(***************************************************************************)
(* Each part of the invariant is kept.                                     *)
(***************************************************************************)
\* The record of a question that was just accepted.
LEMMA NewQuestion ==
  ASSUME NEW x \in Stamps,
         NEW job, job = [Idle EXCEPT !.pc = "reading", !.stamp = x]
  PROVE  /\ job \in Questions
         /\ job.pc = "reading" /\ job.stamp = x
<1>1. job = [pc |-> "reading", stamp |-> x, working |-> 0]
  BY DEF Idle
<1>2. "reading" \in Places /\ 0 \in Times
  BY ChatAssumption DEF Places, Steps, Times
<1>. QED
  BY ONLY <1>1, <1>2, x \in Stamps DEF Questions

\* The record of a request that has no question.
LEMMA NoQuestion == Idle \in Questions /\ Idle.pc = "idle" /\ "idle" \notin Steps
<1>1. "idle" \in Places /\ 0 \in Times
  BY ChatAssumption DEF Places, Times
<1>2. NoStamp \in Stamps
  BY <1>1 DEF NoStamp, Stamps
<1>. QED
  BY <1>1, <1>2 DEF Idle, Questions, Steps

\* What Acquire does, with the new stamp named.
LEMMA AcquireFacts ==
  ASSUME IInv, NEW r \in Requests, Acquire(r)
  PROVE  \E x \in Stamps, job \in Questions :
           /\ x.at = now /\ x \notin counted[UserOf[r]]
           /\ job.pc = "reading" /\ job.stamp = x
           /\ ~Running(r)
           /\ asked' = [SweptAsked EXCEPT ![UserOf[r]] = Kept(UserOf[r]) \cup {x}]
           /\ active' = [SweptActive EXCEPT ![UserOf[r]] =
                            [request |-> r, started |-> now]]
           /\ question' = [question EXCEPT ![r] = job]
           /\ counted' = [counted EXCEPT ![UserOf[r]] = @ \cup {x}]
           /\ Sweep
           /\ UNCHANGED <<now, free, worked>>
<1>1. UserOf[r] \in Users
  BY ChatAssumption
<1>2. IsFiniteSet(counted[UserOf[r]])
  BY <1>1 DEF IInv, StampsKept
<1>3. PICK x \in Stamps : /\ x = NewStamp(UserOf[r])
                          /\ x.at = now
                          /\ x \notin counted[UserOf[r]]
  BY <1>1, <1>2, NewStampFresh DEF IInv
<1>4. PICK job : job = [Idle EXCEPT !.pc = "reading", !.stamp = x]
  OBVIOUS
<1>5. job \in Questions /\ job.pc = "reading" /\ job.stamp = x
  BY <1>4, NewQuestion
<1>6. ~Running(r)
  BY DEF Acquire, Running, Steps
<1>. QED
  BY <1>3, <1>4, <1>5, <1>6 DEF Acquire

\* The types are kept.
LEMMA TypeStep ==
  ASSUME IInv, [Next]_vars
  PROVE  TypeOK'
<1>. USE DEF TypeOK
<1>0. /\ TypeOK
      /\ \A r \in Requests : UserOf[r] \in Users
      /\ now \in Nat
  BY ChatAssumption DEF IInv, Times
<1>1. lastSweep' \in Times
  BY <1>0, StepKinds
  DEF Acquire, Refuse, Sweep, Moves, Ends, Tick, vars, limiterVars
<1>2. ASSUME NEW r \in Requests, Acquire(r) PROVE TypeOK'
  <2>1. [request |-> r, started |-> now] \in Tickets
    BY <1>0 DEF Tickets
  <2>2. Kept(UserOf[r]) \in SUBSET Stamps
    BY <1>0, SweptFacts DEF Within
  <2>. QED
    BY <1>0, <1>1, <1>2, <2>1, <2>2, AcquireFacts, SweptFacts
<1>3. ASSUME NEW r \in Requests, Refuse(r) PROVE TypeOK'
  <2>1. Kept(UserOf[r]) \in SUBSET Stamps
    BY <1>0, SweptFacts DEF Within
  <2>2. asked' \in [Users -> SUBSET Stamps]
    BY <1>0, <1>3, <2>1, SweptFacts DEF Refuse
  <2>. QED
    BY <1>0, <1>1, <1>3, <2>2, SweptFacts DEF Refuse
<1>4. ASSUME NEW r \in Requests, NEW job \in Questions, Moves(r, job) PROVE TypeOK'
  <2>1. question[r].stamp \in Stamps
    BY <1>0 DEF Questions
  <2>2. worked' \in [Users -> SUBSET Stamps]
    BY <1>0, <1>4, <2>1 DEF Moves
  <2>3. free' \in 0 .. ChatSlots
    BY <1>0, <1>4, ChatAssumption DEF Moves
  <2>. QED
    BY <1>0, <1>4, <2>2, <2>3 DEF Moves, limiterVars
<1>5. ASSUME NEW r \in Requests, Ends(r) PROVE TypeOK'
  <2>1. NoTicket \in Tickets
    BY ChatAssumption DEF NoTicket, Tickets, Times
  <2>2. active' \in [Users -> Tickets]
    BY <1>0, <1>5, <2>1 DEF Ends, Leave, Release
  <2>3. question' \in [Requests -> Questions]
    BY <1>0, <1>5, NoQuestion DEF Ends, Leave
  <2>4. /\ asked' \in [Users -> SUBSET Stamps]
        /\ counted' \in [Users -> SUBSET Stamps]
    BY <1>0, <1>5 DEF Ends, Refund
  <2>5. free' \in 0 .. ChatSlots
    <3>1. CASE question[r].pc = "model"
      <4>1. r \in Calls /\ IsFiniteSet(Calls)
        BY <3>1 DEF Calls, IInv, SlotsCounted
      <4>2. Cardinality(Calls) \in Nat /\ Cardinality(Calls) # 0
        BY <4>1, FS_CardinalityType, FS_EmptySet
      <4>3. free + 1 \in 0 .. ChatSlots
        BY <1>0, <4>2, ChatAssumption DEF IInv, SlotsCounted
      <4>. QED
        BY <1>5, <3>1, <4>3 DEF Ends
    <3>2. CASE question[r].pc # "model"
      BY <1>0, <1>5, <3>2 DEF Ends
    <3>. QED
      BY <3>1, <3>2
  <2>. QED
    BY <1>0, <1>1, <1>5, <2>2, <2>3, <2>4, <2>5 DEF Ends
<1>6. CASE Tick
  BY <1>0, <1>6, ChatAssumption DEF Tick, limiterVars, Times
<1>7. CASE UNCHANGED vars
  BY <1>0, <1>7 DEF vars, limiterVars
<1>. QED
  BY <1>0, <1>2, <1>3, <1>4, <1>5, <1>6, <1>7, StepKinds


\* A ticket that is abandoned stays so.
LEMMA StaysAbandoned ==
  ASSUME TypeOK, TypeOK', now' >= now, NEW r \in Requests,
         question'[r].stamp = question[r].stamp, IsAbandoned(Ticket(r))
  PROVE  IsAbandoned(Ticket(r))'
<1>1. /\ now \in Nat /\ now' \in Nat /\ Abandoned \in Nat
      /\ question[r].stamp.at \in Nat
  BY ChatAssumption DEF TypeOK, Times, Questions, Stamps
<1>. QED
  BY <1>1 DEF IsAbandoned, Ticket

\* The tickets are held.
LEMMA TicketStep ==
  ASSUME IInv, TypeOK', [Next]_vars
  PROVE  TicketHeld'
<1>0. /\ TypeOK /\ TicketHeld
      /\ \A r \in Requests : UserOf[r] \in Users /\ r # Nobody
      /\ now \in Nat
      /\ active \in [Users -> Tickets]
      /\ question \in [Requests -> Questions]
  BY ChatAssumption DEF IInv, TypeOK, Times
<1>1. ASSUME NEW q \in Requests, Running(q), now' >= now,
             question'[q] = question[q],
             \/ active'[UserOf[q]] = active[UserOf[q]]
             \/ IsAbandoned(active[UserOf[q]])
             \/ active[UserOf[q]] # Ticket(q)
      PROVE  active'[UserOf[q]] = Ticket(q)' \/ IsAbandoned(Ticket(q))'
  <2>1. Ticket(q)' = Ticket(q)
    BY <1>1 DEF Ticket
  <2>2. active[UserOf[q]] = Ticket(q) \/ IsAbandoned(Ticket(q))
    BY <1>0, <1>1 DEF TicketHeld
  <2>. QED
    BY <1>0, <1>1, <2>1, <2>2, StaysAbandoned
<1>2. ASSUME NEW r \in Requests, Acquire(r), NEW q \in Requests, Running(q)'
      PROVE  active'[UserOf[q]] = Ticket(q)' \/ IsAbandoned(Ticket(q))'
  <2> DEFINE u == UserOf[q]
  <2>1. PICK x \in Stamps, job \in Questions :
           /\ x.at = now
           /\ job.pc = "reading" /\ job.stamp = x
           /\ active' = [SweptActive EXCEPT ![UserOf[r]] =
                            [request |-> r, started |-> now]]
           /\ question' = [question EXCEPT ![r] = job]
           /\ now' = now
    BY <1>2, AcquireFacts
  <2>2. CASE q = r
    <3>1. active'[u] = [request |-> r, started |-> now]
      BY <1>0, <2>1, <2>2, SweptFacts
    <3>2. question'[r] = job
      BY <1>0, <2>1
    <3>. QED
      BY <2>1, <2>2, <3>1, <3>2 DEF Ticket
  <2>3. CASE q # r
    <3>1. question'[q] = question[q] /\ Running(q)
      BY <1>0, <1>2, <2>1, <2>3 DEF Running
    <3>2. CASE u = UserOf[r]
      <4>1. ~InFlight(u)
        BY <1>2, <3>2 DEF Acquire
      <4>2. SweptActive[u].request = Nobody \/ IsAbandoned(SweptActive[u])
        BY <4>1 DEF InFlight
      <4>3. SweptActive[u] = active[u] \/ IsAbandoned(active[u])
        BY <1>0, SweptFacts
      <4>4. active[u] # Ticket(q) \/ IsAbandoned(active[u])
        BY <1>0, <4>2, <4>3 DEF Ticket
      <4>. QED
        BY <1>0, <1>1, <2>1, <3>1, <4>4
    <3>3. CASE u # UserOf[r]
      <4>1. active'[u] = SweptActive[u]
        BY <1>0, <2>1, <3>3, SweptFacts
      <4>2. active'[u] = active[u] \/ IsAbandoned(active[u])
        BY <1>0, <4>1, SweptFacts
      <4>. QED
        BY <1>0, <1>1, <2>1, <3>1, <4>2
    <3>. QED
      BY <3>2, <3>3
  <2>. QED
    BY <2>2, <2>3
<1>3. ASSUME NEW r \in Requests, Refuse(r), NEW q \in Requests, Running(q)'
      PROVE  active'[UserOf[q]] = Ticket(q)' \/ IsAbandoned(Ticket(q))'
  <2>1. /\ question'[q] = question[q] /\ Running(q) /\ now' >= now
        /\ active'[UserOf[q]] = SweptActive[UserOf[q]]
    BY <1>0, <1>3 DEF Refuse, Running
  <2>2. active'[UserOf[q]] = active[UserOf[q]] \/ IsAbandoned(active[UserOf[q]])
    BY <1>0, <2>1, SweptFacts
  <2>. QED
    BY <1>1, <2>1, <2>2
<1>4. ASSUME NEW r \in Requests, NEW job \in Questions, Moves(r, job),
             NEW q \in Requests, Running(q)'
      PROVE  active'[UserOf[q]] = Ticket(q)' \/ IsAbandoned(Ticket(q))'
  <2>1. /\ Running(r) /\ question' = [question EXCEPT ![r] = job]
        /\ job.stamp = question[r].stamp
        /\ now' = now /\ active' = active
    BY <1>4 DEF Moves, limiterVars
  <2>2. question'[q].stamp = question[q].stamp /\ Running(q)
    BY <1>0, <1>4, <2>1 DEF Running
  <2>3. Ticket(q)' = Ticket(q)
    BY <2>2 DEF Ticket
  <2>. QED
    BY <1>0, <2>1, <2>2, <2>3 DEF TicketHeld, IsAbandoned
<1>5. ASSUME NEW r \in Requests, Ends(r), NEW q \in Requests, Running(q)'
      PROVE  active'[UserOf[q]] = Ticket(q)' \/ IsAbandoned(Ticket(q))'
  <2>1. /\ question' = [question EXCEPT ![r] = Idle]
        /\ Release(r) /\ now' = now
    BY <1>5 DEF Ends, Leave
  <2>2. q # r
    BY <1>0, <1>5, <2>1, NoQuestion DEF Running
  <2>3. question'[q] = question[q] /\ Running(q)
    BY <1>0, <1>5, <2>1, <2>2 DEF Running
  <2>4. Ticket(r) # Ticket(q)
    BY <2>2 DEF Ticket
  <2>5. active'[UserOf[q]] = active[UserOf[q]] \/ active[UserOf[q]] # Ticket(q)
    BY <1>0, <2>1, <2>4 DEF Release
  <2>. QED
    BY <1>0, <1>1, <2>1, <2>3, <2>5
<1>6. ASSUME Tick \/ UNCHANGED vars, NEW q \in Requests, Running(q)'
      PROVE  active'[UserOf[q]] = Ticket(q)' \/ IsAbandoned(Ticket(q))'
  <2>1. /\ question'[q] = question[q] /\ Running(q) /\ now' >= now
        /\ active'[UserOf[q]] = active[UserOf[q]]
    BY <1>0, <1>6 DEF Tick, vars, limiterVars, Running
  <2>. QED
    BY <1>1, <2>1
<1>. QED
  BY <1>0, <1>2, <1>3, <1>4, <1>5, <1>6, StepKinds DEF TicketHeld


\* The deque keeps every counted stamp of the last hour.
LEMMA StampsStep ==
  ASSUME IInv, TypeOK', [Next]_vars
  PROVE  StampsKept'
<1>0. /\ TypeOK /\ StampsKept
      /\ \A r \in Requests : UserOf[r] \in Users
      /\ now \in Nat /\ Hour \in Nat
      /\ asked \in [Users -> SUBSET Stamps]
      /\ counted \in [Users -> SUBSET Stamps]
      /\ worked \in [Users -> SUBSET Stamps]
      /\ \A x \in Stamps : x.at \in Nat
  BY ChatAssumption DEF IInv, TypeOK, Times, Stamps
<1>1. \A u \in Users : \A x : /\ IsFiniteSet(counted[u] \cup {x})
                              /\ IsFiniteSet(counted[u] \ {x})
  BY <1>0, FS_AddElement, FS_RemoveElement DEF StampsKept
<1>2. \A u \in Users : /\ Kept(u) \subseteq asked[u]
                       /\ \A s \in asked[u] : s.at > now - Hour => s \in Kept(u)
  BY <1>0, SweptFacts DEF Within
<1>3. ASSUME NEW r \in Requests, Acquire(r) PROVE StampsKept'
  <2>1. PICK x \in Stamps :
           /\ x.at = now
           /\ asked' = [SweptAsked EXCEPT ![UserOf[r]] = Kept(UserOf[r]) \cup {x}]
           /\ counted' = [counted EXCEPT ![UserOf[r]] = @ \cup {x}]
           /\ now' = now /\ worked' = worked
    BY <1>3, AcquireFacts
  <2>2. ASSUME NEW u \in Users
        PROVE  /\ IsFiniteSet(counted'[u])
               /\ asked'[u] \subseteq counted'[u]
               /\ worked'[u] \subseteq counted'[u]
               /\ \A s \in counted'[u] : s.at <= now
               /\ \A s \in counted'[u] \ asked'[u] : s.at <= now - Hour
    <3>1. CASE u = UserOf[r]
      <4>1. asked'[u] = Kept(u) \cup {x} /\ counted'[u] = counted[u] \cup {x}
        BY <1>0, <2>1, <3>1, SweptFacts
      <4>2. /\ IsFiniteSet(counted'[u])
            /\ worked'[u] \subseteq counted'[u]
        BY <1>0, <1>1, <2>1, <4>1 DEF StampsKept
      <4>3. asked'[u] \subseteq counted'[u] /\ \A s \in counted'[u] : s.at <= now
        BY <1>0, <1>2, <2>1, <4>1 DEF StampsKept
      <4>4. ASSUME NEW s \in counted'[u] \ asked'[u] PROVE s.at <= now - Hour
        <5>1. s \in counted[u] /\ s \notin Kept(u)
          BY <4>1, <4>4
        <5>2. s \in asked[u] => ~(s.at > now - Hour)
          BY <1>2, <5>1
        <5>3. s.at \in Nat
          BY <1>0, <5>1
        <5>. QED
          BY <1>0, <5>1, <5>2, <5>3 DEF StampsKept
      <4>. QED
        BY <4>2, <4>3, <4>4
    <3>2. CASE u # UserOf[r]
      <4>1. asked'[u] = SweptAsked[u] /\ counted'[u] = counted[u]
        BY <1>0, <2>1, <3>2, SweptFacts
      <4>2. ASSUME NEW s \in counted'[u] \ asked'[u] PROVE s.at <= now - Hour
        <5>1. s \in counted[u] /\ s \notin SweptAsked[u]
          BY <4>1, <4>2
        <5>2. s \in asked[u] => ~(s.at > now - Hour)
          BY <1>0, <5>1, SweptFacts
        <5>3. s.at \in Nat
          BY <1>0, <5>1
        <5>. QED
          BY <1>0, <5>1, <5>2, <5>3 DEF StampsKept
      <4>3. asked'[u] \subseteq asked[u]
        BY <1>0, <4>1, SweptFacts
      <4>. QED
        BY <1>0, <2>1, <4>1, <4>2, <4>3 DEF StampsKept
    <3>. QED
      BY <3>1, <3>2
  <2>. QED
    BY <2>1, <2>2 DEF StampsKept
<1>4. ASSUME NEW r \in Requests, Refuse(r) PROVE StampsKept'
  <2>1. /\ \A u \in Users : asked'[u] = SweptAsked[u] \/ asked'[u] = Kept(u)
        /\ counted' = counted /\ worked' = worked /\ now' = now
    BY <1>0, <1>4, SweptFacts DEF Refuse
  <2>2. \A u \in Users : /\ asked'[u] \subseteq asked[u]
                         /\ \A s \in asked[u] : s.at > now - Hour => s \in asked'[u]
    BY <1>0, <1>2, <2>1, SweptFacts
  <2>. QED
    BY <1>0, <2>1, <2>2 DEF StampsKept
<1>5. ASSUME NEW r \in Requests, NEW job \in Questions, Moves(r, job)
      PROVE  StampsKept'
  <2>1. asked' = asked /\ counted' = counted /\ now' = now
    BY <1>5 DEF Moves, limiterVars
  <2>2. question[r].stamp \in counted[UserOf[r]]
    BY <1>5 DEF IInv, StampsOfRunning, Moves
  <2>3. \A u \in Users : worked'[u] \subseteq counted[u]
    BY <1>0, <1>5, <2>2 DEF Moves, StampsKept
  <2>. QED
    BY <1>0, <2>1, <2>3 DEF StampsKept
<1>6. ASSUME NEW r \in Requests, Ends(r) PROVE StampsKept'
  <2>1. now' = now /\ worked' = worked
    BY <1>6 DEF Ends
  <2>2. CASE UNCHANGED <<asked, counted>>
    BY <1>0, <2>1, <2>2 DEF StampsKept
  <2>3. CASE question[r].pc = "reading" /\ Refund(r)
    <3>1. question[r].stamp \notin worked[UserOf[r]]
      BY <1>6, <2>3 DEF IInv, StampsOfRunning, Ends
    <3>2. ASSUME NEW u \in Users
          PROVE  /\ IsFiniteSet(counted'[u])
                 /\ asked'[u] \subseteq counted'[u]
                 /\ worked[u] \subseteq counted'[u]
                 /\ \A s \in counted'[u] : s.at <= now
                 /\ \A s \in counted'[u] \ asked'[u] : s.at <= now - Hour
      <4>1. CASE u = UserOf[r]
        <5>1. /\ asked'[u] = asked[u] \ {question[r].stamp}
              /\ counted'[u] = counted[u] \ {question[r].stamp}
          BY <1>0, <2>3, <4>1 DEF Refund
        <5>2. IsFiniteSet(counted'[u])
          BY <1>1, <5>1
        <5>. QED
          BY <1>0, <3>1, <4>1, <5>1, <5>2 DEF StampsKept
      <4>2. CASE u # UserOf[r]
        <5>1. asked'[u] = asked[u] /\ counted'[u] = counted[u]
          BY <1>0, <2>3, <4>2 DEF Refund
        <5>. QED
          BY <1>0, <5>1 DEF StampsKept
      <4>. QED
        BY <4>1, <4>2
    <3>. QED
      BY <2>1, <3>2 DEF StampsKept
  <2>. QED
    BY <1>6, <2>2, <2>3 DEF Ends
<1>7. CASE Tick
  <2>1. /\ now' = now + 1
        /\ asked' = asked /\ counted' = counted /\ worked' = worked
    BY <1>7 DEF Tick, limiterVars
  <2>2. \A u \in Users : \A s \in counted[u] : s.at \in Nat
    BY <1>0
  <2>. QED
    BY <1>0, <2>1, <2>2 DEF StampsKept
<1>8. CASE UNCHANGED vars
  BY <1>0, <1>8 DEF StampsKept, vars, limiterVars
<1>. QED
  BY <1>0, <1>3, <1>4, <1>5, <1>6, <1>7, <1>8, StepKinds

\* A question that runs is counted under a stamp of its own.
LEMMA RunningStep ==
  ASSUME IInv, [Next]_vars
  PROVE  StampsOfRunning'
<1> DEFINE Own(r) ==
        /\ question[r].stamp \in counted[UserOf[r]]
        /\ question[r].pc \in {"reading", "preparing"} =>
              question[r].stamp \notin worked[UserOf[r]]
        /\ \A q \in Requests \ {r} :
              Running(q) /\ UserOf[q] = UserOf[r]
                  => question[q].stamp # question[r].stamp
<1>0. /\ TypeOK /\ StampsKept
      /\ \A r \in Requests : UserOf[r] \in Users
      /\ \A r \in Requests : Running(r) => Own(r)
      /\ question \in [Requests -> Questions]
      /\ counted \in [Users -> SUBSET Stamps]
      /\ worked \in [Users -> SUBSET Stamps]
  BY ChatAssumption DEF IInv, TypeOK, StampsOfRunning
<1>1. ASSUME NEW r \in Requests, Acquire(r), NEW q \in Requests, Running(q)'
      PROVE  Own(q)'
  <2>1. PICK x \in Stamps, job \in Questions :
           /\ x \notin counted[UserOf[r]]
           /\ job.stamp = x
           /\ question' = [question EXCEPT ![r] = job]
           /\ counted' = [counted EXCEPT ![UserOf[r]] = @ \cup {x}]
           /\ worked' = worked
    BY <1>1, AcquireFacts
  <2>2. /\ question'[r] = job
        /\ \A p \in Requests \ {r} : /\ question'[p] = question[p]
                                     /\ Running(p)' <=> Running(p)
    BY <1>0, <2>1 DEF Running
  <2>3. /\ counted'[UserOf[r]] = counted[UserOf[r]] \cup {x}
        /\ \A u \in Users : counted[u] \subseteq counted'[u]
    BY <1>0, <2>1
  <2>4. x \notin worked[UserOf[r]]
    BY <1>0, <2>1 DEF StampsKept
  <2>5. \A p \in Requests \ {r} :
          Running(p) /\ UserOf[p] = UserOf[r] => question[p].stamp # x
    BY <1>0, <2>1
  <2>6. CASE q = r
    BY <2>1, <2>2, <2>3, <2>4, <2>5, <2>6
  <2>7. CASE q # r
    <3>1. question'[q] = question[q] /\ Running(q)
      BY <1>1, <2>2, <2>7
    <3>2. question'[q].stamp \in counted'[UserOf[q]]
      BY <1>0, <2>3, <3>1
    <3>3. question'[q].pc \in {"reading", "preparing"} =>
            question'[q].stamp \notin worked'[UserOf[q]]
      BY <1>0, <2>1, <3>1
    <3>4. ASSUME NEW p \in Requests \ {q}, Running(p)', UserOf[p] = UserOf[q]
          PROVE  question'[p].stamp # question'[q].stamp
      BY <1>0, <2>1, <2>2, <2>5, <2>7, <3>1, <3>4
    <3>. QED
      BY <3>2, <3>3, <3>4
  <2>. QED
    BY <2>6, <2>7
<1>2. ASSUME NEW r \in Requests, NEW job \in Questions, Moves(r, job),
             NEW q \in Requests, Running(q)'
      PROVE  Own(q)'
  <2>1. /\ Running(r) /\ question' = [question EXCEPT ![r] = job]
        /\ job.stamp = question[r].stamp
        /\ counted' = counted
    BY <1>2 DEF Moves
  <2>2. \A p \in Requests : /\ question'[p].stamp = question[p].stamp
                            /\ Running(p)' => Running(p)
    BY <1>0, <2>1 DEF Running
  <2>3. ASSUME question'[q].pc \in {"reading", "preparing"}
        PROVE  question[q].stamp \notin worked'[UserOf[q]]
    <3>1. CASE q = r
      <4>1. question'[r] = job
        BY <1>0, <2>1
      <4>2. worked' = worked /\ question[r].pc = "reading"
        BY <1>2, <2>3, <3>1, <4>1 DEF Moves
      <4>. QED
        BY <1>0, <2>1, <3>1, <4>2
    <3>2. CASE q # r
      <4>1. question'[q] = question[q] /\ Running(q)
        BY <1>0, <1>2, <2>1, <2>2, <3>2
      <4>2. question[q].stamp \notin worked[UserOf[q]]
        BY <1>0, <2>3, <4>1
      <4>3. UserOf[q] = UserOf[r] => question[q].stamp # question[r].stamp
        BY <1>0, <2>1, <3>2, <4>1
      <4>. QED
        BY <1>0, <1>2, <4>2, <4>3 DEF Moves
    <3>. QED
      BY <3>1, <3>2
  <2>. QED
    BY <1>0, <1>2, <2>1, <2>2, <2>3
<1>3. ASSUME NEW r \in Requests, Ends(r), NEW q \in Requests, Running(q)'
      PROVE  Own(q)'
  <2>1. question' = [question EXCEPT ![r] = Idle] /\ worked' = worked
    BY <1>3 DEF Ends, Leave
  <2>2. ~Running(r)'
    BY <1>0, <2>1, NoQuestion DEF Running
  <2>3. \A p \in Requests : Running(p)' => /\ Running(p) /\ p # r
                                           /\ question'[p] = question[p]
    BY <1>0, <2>1, <2>2 DEF Running
  <2>4. question[q].stamp \in counted'[UserOf[q]]
    <3>1. question[q].stamp \in counted[UserOf[q]]
      BY <1>0, <1>3, <2>3
    <3>2. UserOf[q] = UserOf[r] => question[q].stamp # question[r].stamp
      BY <1>0, <1>3, <2>3 DEF Ends
    <3>. QED
      BY <1>0, <1>3, <3>1, <3>2 DEF Ends, Refund
  <2>. QED
    BY <1>0, <1>3, <2>1, <2>3, <2>4
<1>4. ASSUME NEW q \in Requests, Running(q)',
             (\E r \in Requests : Refuse(r)) \/ Tick \/ UNCHANGED vars
      PROVE  Own(q)'
  <2>1. question' = question /\ counted' = counted /\ worked' = worked
    BY <1>4 DEF Refuse, Tick, vars
  <2>. QED
    BY <1>0, <1>4, <2>1 DEF Running
<1>5. ASSUME NEW q \in Requests, Running(q)' PROVE Own(q)'
  <2> HIDE DEF Own
  <2>. QED
    BY <1>0, <1>1, <1>2, <1>3, <1>4, <1>5, StepKinds
<1>. QED
  BY <1>5 DEF StampsOfRunning


\* A window with room for one more stays within the quota when a stamp of this
\* moment is added: what it holds is of the last window, and not forgotten.
LEMMA RoomForOne ==
  ASSUME TypeOK, StampsKept, NEW u \in Users, NEW x \in Stamps, x.at = now,
         NEW window \in Nat, window <= Hour, NEW limit \in Nat,
         NEW first \in Times,
         InWindow(counted[u], first, window) <= limit,
         Cardinality(Within(Kept(u), now, window)) < limit
  PROVE  InWindow(counted[u] \cup {x}, first, window) <= limit
<1> DEFINE In(S) == {s \in S : first <= s.at /\ s.at < first + window}
<1>1. /\ now \in Nat /\ Hour \in Nat /\ first \in Nat
      /\ counted[u] \in SUBSET Stamps /\ IsFiniteSet(counted[u])
      /\ \A s \in counted[u] : s.at \in Nat
  BY ChatAssumption DEF TypeOK, StampsKept, Times, Stamps
<1>2. IsFiniteSet(In(counted[u])) /\ Cardinality(In(counted[u])) \in Nat
  BY <1>1, PartOf
<1>3. CASE x \in In({x})
  <2>1. first <= now /\ now < first + window
    BY <1>3
  <2>2. Kept(u) = Within(asked[u], now, Hour)
    BY SweptFacts
  <2>3. In(counted[u]) \subseteq Within(Kept(u), now, window)
    <3>1. SUFFICES ASSUME NEW s \in In(counted[u])
                   PROVE  s \in Within(Kept(u), now, window)
      OBVIOUS
    <3>2. s \in counted[u] /\ s.at \in Nat /\ s.at > now - window /\ s.at > now - Hour
      BY <1>1, <2>1
    <3>3. s \in asked[u]
      BY <1>1, <3>2 DEF StampsKept
    <3>. QED
      BY <2>2, <3>2, <3>3 DEF Within
  <2>4. IsFiniteSet(Within(Kept(u), now, window))
    <3>1. Within(Kept(u), now, window) \subseteq counted[u]
      BY <2>2 DEF Within, StampsKept
    <3>. QED
      BY <1>1, <3>1, FS_Subset
  <2>5. /\ Cardinality(Within(Kept(u), now, window)) \in Nat
        /\ Cardinality(In(counted[u])) <= Cardinality(Within(Kept(u), now, window))
    BY <2>3, <2>4, PartOf
  <2>6. In(counted[u] \cup {x}) = In(counted[u]) \cup {x}
    BY <1>3
  <2>7. Cardinality(In(counted[u] \cup {x})) <= Cardinality(In(counted[u])) + 1
    <3> HIDE DEF In
    <3>1. Cardinality(In(counted[u]) \cup {x}) =
            IF x \in In(counted[u]) THEN Cardinality(In(counted[u]))
                                    ELSE Cardinality(In(counted[u])) + 1
      BY <1>2, FS_AddElement
    <3>2. \A n \in Nat : \A m : (m = n \/ m = n + 1) => m <= n + 1
      OBVIOUS
    <3>3. \/ Cardinality(In(counted[u]) \cup {x}) = Cardinality(In(counted[u]))
          \/ Cardinality(In(counted[u]) \cup {x}) = Cardinality(In(counted[u])) + 1
      BY <3>1
    <3>. QED
      BY <1>2, <2>6, <3>2, <3>3, Zenon
  <2>8. Cardinality(In(counted[u] \cup {x})) \in Nat
    <3> HIDE DEF In
    <3>. QED
      BY <1>2, <2>6, FS_AddElement, FS_CardinalityType
  <2>9. InWindow(counted[u] \cup {x}, first, window) = Cardinality(In(counted[u] \cup {x}))
    BY DEF InWindow
  <2> HIDE DEF In
  <2>. QED
    BY <1>2, <2>5, <2>7, <2>8, <2>9
<1>4. CASE x \notin In({x})
  <2>1. In(counted[u] \cup {x}) = In(counted[u])
    BY <1>4
  <2>. QED
    BY <2>1 DEF InWindow
<1>. QED
  BY <1>3, <1>4

\* Fewer stamps are no more in any window.
LEMMA FewerInWindow ==
  ASSUME NEW S, NEW T, IsFiniteSet(T), S \subseteq T, NEW first, NEW window
  PROVE  /\ InWindow(S, first, window) \in Nat /\ InWindow(T, first, window) \in Nat
         /\ InWindow(S, first, window) <= InWindow(T, first, window)
<1> DEFINE In(U) == {s \in U : first <= s.at /\ s.at < first + window}
<1>1. In(S) \subseteq In(T) /\ In(T) \subseteq T
  OBVIOUS
<1>2. IsFiniteSet(In(T))
  BY <1>1, FS_Subset
<1>3. InWindow(S, first, window) = Cardinality(In(S))
      /\ InWindow(T, first, window) = Cardinality(In(T))
  BY DEF InWindow
<1> HIDE DEF In
<1>. QED
  BY <1>1, <1>2, <1>3, PartOf

\* The quotas are kept.
LEMMA QuotaStep ==
  ASSUME IInv, [Next]_vars
  PROVE  QuotaKept'
<1>0. /\ TypeOK /\ StampsKept /\ QuotaKept
      /\ \A r \in Requests : UserOf[r] \in Users
      /\ counted \in [Users -> SUBSET Stamps]
      /\ \A u \in Users : IsFiniteSet(counted[u])
      /\ Minute \in Nat /\ Hour \in Nat /\ Minute <= Hour
      /\ PerMinute \in Nat /\ PerHour \in Nat
  BY ChatAssumption DEF IInv, TypeOK, StampsKept
<1>1. ASSUME NEW r \in Requests, Acquire(r) PROVE QuotaKept'
  <2> DEFINE v == UserOf[r]
  <2>1. PICK x \in Stamps :
           /\ x.at = now
           /\ counted' = [counted EXCEPT ![v] = @ \cup {x}]
    BY <1>1, AcquireFacts
  <2>2. Kept(v) \in SUBSET Stamps /\ IsFiniteSet(Kept(v)) /\ now \in Nat
    <3>1. Kept(v) \subseteq asked[v] /\ asked[v] \subseteq counted[v]
          /\ IsFiniteSet(counted[v]) /\ counted[v] \in SUBSET Stamps
      BY <1>0, SweptFacts DEF Within, StampsKept
    <3>. QED
      BY <1>0, <3>1, FS_Subset DEF TypeOK, Times
  <2>3. /\ Cardinality(Within(Kept(v), now, Minute)) < PerMinute
        /\ Cardinality(Within(Kept(v), now, Hour)) < PerHour
    BY <1>1, <2>2, RetryAfterExact DEF Acquire
  <2>4. ASSUME NEW u \in Users, NEW first \in Times
        PROVE  /\ InWindow(counted'[u], first, Minute) <= PerMinute
               /\ InWindow(counted'[u], first, Hour) <= PerHour
    <3>1. /\ InWindow(counted[u], first, Minute) <= PerMinute
          /\ InWindow(counted[u], first, Hour) <= PerHour
      BY <1>0 DEF QuotaKept
    <3>2. CASE u = v
      <4>1. counted'[v] = counted[v] \cup {x}
        BY <1>0, <2>1
      <4>2. InWindow(counted[v] \cup {x}, first, Minute) <= PerMinute
        BY <1>0, <2>1, <2>3, <3>1, <3>2, RoomForOne
      <4>3. InWindow(counted[v] \cup {x}, first, Hour) <= PerHour
        BY <1>0, <2>1, <2>3, <3>1, <3>2, RoomForOne
      <4>. QED
        BY <3>2, <4>1, <4>2, <4>3
    <3>3. CASE u # v
      BY <1>0, <2>1, <3>1, <3>3
    <3>. QED
      BY <3>2, <3>3
  <2>. QED
    BY <2>4 DEF QuotaKept
<1>2. ASSUME \A u \in Users : counted'[u] \subseteq counted[u]
      PROVE  QuotaKept'
  <2>1. ASSUME NEW u \in Users, NEW first \in Times
        PROVE  /\ InWindow(counted'[u], first, Minute) <= PerMinute
               /\ InWindow(counted'[u], first, Hour) <= PerHour
    <3>1. /\ InWindow(counted[u], first, Minute) <= PerMinute
          /\ InWindow(counted[u], first, Hour) <= PerHour
      BY <1>0 DEF QuotaKept
    <3>2. \A window : /\ InWindow(counted'[u], first, window) \in Nat
                      /\ InWindow(counted[u], first, window) \in Nat
                      /\ InWindow(counted'[u], first, window)
                            <= InWindow(counted[u], first, window)
      BY <1>0, <1>2, FewerInWindow
    <3>. QED
      BY <1>0, <3>1, <3>2
  <2>. QED
    BY <2>1 DEF QuotaKept
<1>3. \/ \E r \in Requests : Acquire(r)
      \/ \A u \in Users : counted'[u] \subseteq counted[u]
  BY <1>0, StepKinds DEF Refuse, Moves, Ends, Refund, Tick, vars
<1>. QED
  BY <1>1, <1>2, <1>3

\* The slots are counted.
LEMMA SlotsStep ==
  ASSUME IInv, [Next]_vars
  PROVE  SlotsCounted'
<1>0. /\ TypeOK /\ IsFiniteSet(Calls) /\ Cardinality(Calls) \in Nat
      /\ question \in [Requests -> Questions]
      /\ free \in Int /\ ChatSlots \in Int
      /\ free + Cardinality(Calls) = ChatSlots
  BY ChatAssumption, FS_CardinalityType DEF IInv, SlotsCounted, TypeOK
<1>1. ASSUME free' = free, Calls' = Calls PROVE SlotsCounted'
  BY <1>0, <1>1 DEF SlotsCounted
<1>2. ASSUME NEW r \in Requests, Acquire(r) PROVE SlotsCounted'
  <2>1. PICK job \in Questions : /\ job.pc = "reading" /\ ~Running(r)
                                 /\ question' = [question EXCEPT ![r] = job]
                                 /\ free' = free
    BY <1>2, AcquireFacts
  <2>2. Calls' = Calls
    BY <1>0, <2>1 DEF Calls, Running, Steps
  <2>. QED
    BY <1>1, <2>1, <2>2
<1>3. ASSUME NEW r \in Requests, NEW job \in Questions, Moves(r, job)
      PROVE  SlotsCounted'
  <2>1. CASE job.pc = "model"
    <3>1. Calls' = Calls \cup {r} /\ r \notin Calls
      BY <1>0, <1>3, <2>1 DEF Moves, Calls
    <3>2. free' = free - 1
      BY <1>3, <2>1 DEF Moves
    <3>. QED
      <4>1. IsFiniteSet(Calls') /\ Cardinality(Calls') = Cardinality(Calls) + 1
        BY <1>0, <3>1, FS_AddElement
      <4>2. free' + Cardinality(Calls') = ChatSlots
        BY <1>0, <3>2, <4>1
      <4>. QED
        BY <4>1, <4>2 DEF SlotsCounted
  <2>2. CASE job.pc # "model"
    <3>1. Calls' = Calls /\ free' = free
      BY <1>0, <1>3, <2>2 DEF Moves, Calls
    <3>. QED
      BY <1>1, <3>1
  <2>. QED
    BY <2>1, <2>2
<1>4. ASSUME NEW r \in Requests, Ends(r) PROVE SlotsCounted'
  <2>1. CASE question[r].pc = "model"
    <3>1. Calls' = Calls \ {r} /\ r \in Calls
      BY <1>0, <1>4, <2>1, NoQuestion DEF Ends, Leave, Calls
    <3>2. free' = free + 1
      BY <1>4, <2>1 DEF Ends
    <3>. QED
      <4>1. IsFiniteSet(Calls') /\ Cardinality(Calls') = Cardinality(Calls) - 1
        BY <1>0, <3>1, FS_RemoveElement
      <4>2. free' + Cardinality(Calls') = ChatSlots
        BY <1>0, <3>2, <4>1
      <4>. QED
        BY <4>1, <4>2 DEF SlotsCounted
  <2>2. CASE question[r].pc # "model"
    <3>1. Calls' = Calls /\ free' = free
      BY <1>0, <1>4, <2>2, NoQuestion DEF Ends, Leave, Calls
    <3>. QED
      BY <1>1, <3>1
  <2>. QED
    BY <2>1, <2>2
<1>5. ASSUME (\E r \in Requests : Refuse(r)) \/ Tick \/ UNCHANGED vars
      PROVE  SlotsCounted'
  <2>1. free' = free /\ question' = question
    BY <1>5 DEF Refuse, Tick, vars
  <2>. QED
    BY <1>1, <2>1 DEF Calls
<1>. QED
  BY <1>0, <1>2, <1>3, <1>4, <1>5, StepKinds


-----------------------------------------------------------------------------
(***************************************************************************)
(* The theorems.                                                           *)
(***************************************************************************)
\* Nothing is asked yet, and every slot is free.
LEMMA InitInv == Init => IInv
<1>. SUFFICES ASSUME Init PROVE IInv
  OBVIOUS
<1>1. /\ 0 \in Times /\ Hour \in Nat /\ ChatSlots \in Nat
      /\ PerMinute \in Nat /\ PerHour \in Nat
      /\ \A r \in Requests : UserOf[r] \in Users
  BY ChatAssumption DEF Times
<1>2. NoTicket \in Tickets
  BY <1>1 DEF NoTicket, Tickets
<1>3. TypeOK
  BY <1>1, <1>2, NoQuestion DEF Init, TypeOK
<1>4. \A r \in Requests : ~Running(r) /\ question[r].pc # "model"
  BY NoQuestion DEF Init, Running, Idle
<1>5. TicketHeld /\ StampsOfRunning
  BY <1>4 DEF TicketHeld, StampsOfRunning
<1>6. StampsKept
  BY FS_EmptySet DEF Init, StampsKept
<1>7. QuotaKept
  <2>1. ASSUME NEW first, NEW window PROVE InWindow({}, first, window) = 0
    <3>1. {s \in {} : first <= s.at /\ s.at < first + window} = {}
      OBVIOUS
    <3>. QED
      BY <3>1, FS_EmptySet DEF InWindow
  <2>. QED
    BY <1>1, <2>1 DEF Init, QuotaKept
<1>8. SlotsCounted
  <2>1. Calls = {}
    BY <1>4 DEF Calls
  <2>. QED
    BY <1>1, <2>1, FS_EmptySet DEF Init, SlotsCounted
<1>. QED
  BY <1>3, <1>5, <1>6, <1>7, <1>8 DEF IInv

\* The invariant holds in every reachable state.
THEOREM Invariance == Spec => []IInv
<1>1. IInv /\ [Next]_vars => IInv'
  BY TypeStep, TicketStep, StampsStep, RunningStep, QuotaStep, SlotsStep DEF IInv
<1>. QED
  BY <1>1, InitInv, PTL DEF Spec

\* Every variable keeps its type: no slot beyond the model service's, no stamp
\* of a time to come.
THEOREM TypeCorrect == Spec => []TypeOK
<1>1. IInv => TypeOK
  BY DEF IInv
<1>. QED
  BY <1>1, Invariance, PTL

\* Of two questions of one user that run, one has run for the abandonment time.
THEOREM OneAtATime == Spec => []OneInFlight
<1>1. IInv => OneInFlight
  <2>. SUFFICES ASSUME IInv, NEW r \in Requests, NEW s \in Requests, r # s,
                       UserOf[r] = UserOf[s], Running(r), Running(s)
                PROVE  IsAbandoned(Ticket(r)) \/ IsAbandoned(Ticket(s))
    BY DEF OneInFlight
  <2>1. Ticket(r) # Ticket(s)
    BY DEF Ticket
  <2>. QED
    BY <2>1 DEF IInv, TicketHeld
<1>. QED
  BY <1>1, Invariance, PTL

\* In no window of time do more of a user's questions reach the search than the
\* quota of that window.
THEOREM WithinQuota == Spec => []WorkWithinQuota
<1>1. IInv => WorkWithinQuota
  <2>. SUFFICES ASSUME IInv, NEW u \in Users, NEW first \in Times
                PROVE  /\ InWindow(worked[u], first, Minute) <= PerMinute
                       /\ InWindow(worked[u], first, Hour) <= PerHour
    BY DEF WorkWithinQuota
  <2>1. worked[u] \subseteq counted[u] /\ IsFiniteSet(counted[u])
    BY DEF IInv, StampsKept
  <2>2. \A window : /\ InWindow(worked[u], first, window) \in Nat
                    /\ InWindow(counted[u], first, window) \in Nat
                    /\ InWindow(worked[u], first, window)
                          <= InWindow(counted[u], first, window)
    BY <2>1, FewerInWindow
  <2>3. /\ InWindow(counted[u], first, Minute) <= PerMinute
        /\ InWindow(counted[u], first, Hour) <= PerHour
    BY DEF IInv, QuotaKept
  <2>4. PerMinute \in Nat /\ PerHour \in Nat
    BY ChatAssumption
  <2>. QED
    BY <2>2, <2>3, <2>4
<1>. QED
  BY <1>1, Invariance, PTL

\* The wait of a refusal is exact.
THEOREM ExactWait == Spec => []WaitExact
<1>1. IInv => WaitExact
  <2>. SUFFICES ASSUME IInv, NEW u \in Users
                PROVE  WaitExactFor(Kept(u), RetryAfter(Kept(u), now))
    BY DEF WaitExact
  <2>1. Kept(u) \in SUBSET Stamps /\ IsFiniteSet(Kept(u)) /\ now \in Nat
    <3>1. Kept(u) \subseteq asked[u] /\ asked[u] \subseteq counted[u]
          /\ IsFiniteSet(counted[u]) /\ counted[u] \in SUBSET Stamps
      BY SweptFacts DEF Within, StampsKept, IInv, TypeOK
    <3>. QED
      BY <3>1, FS_Subset DEF IInv, TypeOK, Times
  <2> DEFINE wait == RetryAfter(Kept(u), now)
  <2>2. wait \in Nat
    BY <2>1, RetryAfterExact
  <2>3. \A t \in Nat : t >= now =>
          /\ RetryAfter(Kept(u), t) \in Nat
          /\ RetryAfter(Kept(u), t) = 0 <=> t >= now + wait
    BY <2>1, RetryAfterExact
  <2> HIDE DEF wait
  <2>4. RetryAfter(Kept(u), now + wait) = 0
    BY <2>1, <2>2, <2>3
  <2>5. ASSUME NEW t \in now .. now + wait - 1 PROVE RetryAfter(Kept(u), t) > 0
    <3>1. t \in Nat /\ t >= now /\ ~(t >= now + wait)
      BY <2>1, <2>2
    <3>. QED
      BY <2>3, <3>1
  <2>. QED
    BY <2>4, <2>5 DEF WaitExactFor, wait
<1>. QED
  BY <1>1, Invariance, PTL

\* No slot of the model service is lost or invented.
THEOREM NoSlotLost == Spec => []SlotsAccounted
<1>1. IInv => SlotsAccounted
  BY DEF IInv, SlotsCounted, Calls, SlotsAccounted
<1>. QED
  BY <1>1, Invariance, PTL

=============================================================================
