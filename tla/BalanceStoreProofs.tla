-------------------------- MODULE BalanceStoreProofs --------------------------
(***************************************************************************)
(* Theorems about BalanceStore, for any accounts, providers, values,       *)
(* number of concurrent requests and bounds.                               *)
(***************************************************************************)
EXTENDS BalanceStore, TLAPS

\* Only the holder of the write lock has a transaction open.
LockHeld == \A t \in Tasks : pc[t] = "commit" => writeLock = t

\* An open transaction is what its statements make of the committed tables: no
\* other commit came in between.
WorkCurrent == \A t \in Tasks : pc[t] = "commit" => work[t] = Written(t, today[t])

\* The snapshot job carries no delivery.
SnapshotEmpty == rows[Snapshot] = NoRows

IInv ==
    /\ TypeOK
    /\ LockHeld
    /\ WorkCurrent
    /\ SnapshotEmpty
    /\ ProviderWhole
    /\ DeliveryDayAgrees
    /\ LastDayComplete

-----------------------------------------------------------------------------
\* Times and dates that the clock can show.
LEMMA ClockFacts ==
    /\ 0 \in Times
    /\ \A t \in Times : DayOf(t) \in Days
  BY ConstantsAssumption DEF Times, Days

LEMMA NoRowsType == NoRows \in [Accounts -> Values \cup {NoValue}]
  BY DEF NoRows

LEMMA StoredRowType ==
    ASSUME NEW v \in Values \cup {NoValue}, NEW f \in Times
    PROVE  StoredRow(v, f) \in Row
  BY ClockFacts DEF StoredRow, Row, NoRow

LEMMA NoTablesType == NoTables \in [balances : Balances, daily : History]
<1>1. NoRow \in Row
  BY ClockFacts DEF Row, NoRow
<1>2. QED
  BY <1>1, NoRowsType DEF NoTables, Balances, History

\* The statements of a transaction keep the tables' types.
LEMMA ReplaceType ==
    ASSUME NEW b \in Balances,
           NEW delivery \in [Accounts -> Values \cup {NoValue}],
           NEW f \in Times
    PROVE  ReplaceBalances(b, delivery, f) \in Balances
  BY StoredRowType DEF ReplaceBalances, Balances

LEMMA DropType ==
    ASSUME NEW h \in History, NEW b \in Balances, NEW d \in Days,
           NEW delivery \in [Accounts -> Values \cup {NoValue}]
    PROVE  DropUnreported(h, b, d, delivery) \in History
  BY DEF DropUnreported, History

LEMMA SnapshotType ==
    ASSUME NEW h \in History, NEW b \in Balances, NEW d \in Days
    PROVE  SnapshotDaily(h, b, d) \in History
  BY DEF SnapshotDaily, History, Balances, Row

\* A transaction's result has the tables' types.
LEMMA WrittenType ==
    ASSUME TypeOK, NEW t \in Tasks, NEW d \in Days
    PROVE  Written(t, d) \in [balances : Balances, daily : History]
<1>1. StoredBy(t) \in Balances
  BY ReplaceType DEF TypeOK, StoredBy
<1>2. KeptBy(t, d) \in History
  BY <1>1, DropType DEF TypeOK, KeptBy
<1>3. SnapshotDaily(KeptBy(t, d), StoredBy(t), d) \in History
  BY <1>1, <1>2, SnapshotType
<1>4. QED
  BY <1>1, <1>3 DEF Written

-----------------------------------------------------------------------------
LEMMA InitInv == Init => IInv
<1> SUFFICES ASSUME Init PROVE IInv
  OBVIOUS
<1>1. TypeOK
  <2>1. NoTables.balances \in Balances /\ NoTables.daily \in History
    BY NoTablesType
  <2>2. NoDelivery \in [rows    : [Accounts -> Values \cup {NoValue}],
                        fetched : Times, day : Days \cup {NoDay}]
    BY ClockFacts, NoRowsType DEF NoDelivery
  <2>3. 0 \in Days
    BY ClockFacts, ConstantsAssumption DEF Days, DayOf, Times
  <2>4. QED
    BY <2>1, <2>2, <2>3, ClockFacts, NoRowsType, NoTablesType
       DEF Init, TypeOK, Labels
<1>2. ProviderWhole
  BY ConstantsAssumption
     DEF Init, ProviderWhole, NoTables, NoDelivery, StoredRow, NoRows
<1>3. DeliveryDayAgrees
  BY ConstantsAssumption DEF Init, DeliveryDayAgrees, NoDelivery
<1>4. LastDayComplete
  BY DEF Init, LastDayComplete
<1>5. LockHeld /\ WorkCurrent /\ SnapshotEmpty
  BY DEF Init, LockHeld, WorkCurrent, SnapshotEmpty, Tasks
<1>6. QED
  BY <1>1, <1>2, <1>3, <1>4, <1>5 DEF IInv

-----------------------------------------------------------------------------
(***************************************************************************)
(* Type correctness.                                                       *)
(***************************************************************************)
LEMMA TypeStep == TypeOK /\ [Next]_vars => TypeOK'
<1> SUFFICES ASSUME TypeOK, [Next]_vars PROVE TypeOK'
  OBVIOUS
<1> USE DEF TypeOK, clockVars, tables, taskVars, Goto, Labels
<1>0. Snapshot \in Tasks
  BY DEF Tasks
<1>1. ASSUME NEW r \in Requests, NEW delivery \in DeliveryChoices,
             StoreDelivery(r, delivery)
      PROVE  TypeOK'
  BY <1>1, ClockFacts, ConstantsAssumption DEF StoreDelivery, Tasks
<1>2. CASE StartSnapshot
  BY <1>0, <1>2, ClockFacts DEF StartSnapshot
<1>3. ASSUME NEW t \in Tasks, Write(t) PROVE TypeOK'
  <2>1. Written(t, today[t]) \in [balances : Balances, daily : History]
    BY WrittenType
  <2>2. QED
    BY <1>3, <2>1 DEF Write
<1>4. ASSUME NEW t \in Tasks, Commit(t) PROVE TypeOK'
  <2>1. delivered' \in [Providers -> [rows    : [Accounts -> Values \cup {NoValue}],
                                      fetched : Times,
                                      day     : Days \cup {NoDay}]]
    BY <1>4 DEF Commit
  <2>2. QED
    BY <1>4, <2>1, NoTablesType DEF Commit
<1>5. ASSUME NEW t \in Tasks, Rollback(t) PROVE TypeOK'
  BY <1>5, NoTablesType DEF Rollback
<1>6. ASSUME NEW t \in Tasks, Record(t) PROVE TypeOK'
  <2>1. 0 \in Days
    BY ClockFacts, ConstantsAssumption DEF Days, DayOf, Times
  <2>2. rows' \in [Tasks -> [Accounts -> Values \cup {NoValue}]]
        /\ fetchedAt' \in [Tasks -> Times] /\ today' \in [Tasks -> Days]
        /\ pc' \in [Tasks -> Labels]
    BY <1>6, <2>1, ClockFacts, NoRowsType DEF Record, Finish
  <2>3. refreshLog' \in [Services -> {"none", "success", "error"}] /\ faults' \in Nat
    BY <1>6 DEF Record, Services
  <2>4. QED
    BY <1>6, <2>2, <2>3 DEF Record
<1>7. CASE Stop
  <2>1. 0 \in Days
    BY ClockFacts, ConstantsAssumption DEF Days, DayOf, Times
  <2>2. /\ rows' \in [Tasks -> [Accounts -> Values \cup {NoValue}]]
        /\ fetchedAt' \in [Tasks -> Times]
        /\ today' \in [Tasks -> Days]
    BY <1>7, <2>1, ClockFacts, NoRowsType DEF Stop
  <2>3. /\ work' \in [Tasks -> [balances : Balances, daily : History]]
        /\ pc' \in [Tasks -> Labels]
    BY <1>7, NoTablesType DEF Stop
  <2>4. /\ up' \in BOOLEAN /\ snapshotDue' \in BOOLEAN
        /\ writeLock' \in Tasks \cup {Nobody}
    BY <1>7, Zenon DEF Stop
  <2>5. /\ now' \in Times /\ sent' \in Nat /\ faults' \in Nat
        /\ accountBalances' \in Balances /\ balancesDaily' \in History
        /\ refreshLog' \in [Services -> {"none", "success", "error"}]
        /\ delivered' \in [Providers -> [rows    : [Accounts -> Values \cup {NoValue}],
                                         fetched : Times,
                                         day     : Days \cup {NoDay}]]
        /\ lastDay' \in Days \cup {NoDay}
    BY <1>7 DEF Stop
  <2>6. QED
    BY <2>2, <2>3, <2>4, <2>5
<1>8. CASE Start
  BY <1>8 DEF Start
<1>9. CASE Tick
  BY <1>9, ConstantsAssumption DEF Tick, Times, IsNoon
<1>10. CASE UNCHANGED vars
  BY <1>10 DEF vars
<1>11. QED
  BY <1>1, <1>2, <1>3, <1>4, <1>5, <1>6, <1>7, <1>8, <1>9, <1>10
     DEF Next, Progress

\* Every reachable state is well typed.
THEOREM TypeCorrect == Spec => []TypeOK
<1>1. Init => TypeOK
  BY InitInv DEF IInv
<1>2. QED
  BY <1>1, TypeStep, PTL DEF Spec

-----------------------------------------------------------------------------
(***************************************************************************)
(* The transactions.                                                       *)
(***************************************************************************)

\* What a commit makes of the stored balances.
LEMMA CommitBalances ==
    ASSUME TypeOK, WorkCurrent, SnapshotEmpty, NEW t \in Tasks, Commit(t),
           NEW a \in Accounts
    PROVE  accountBalances'[a] =
               IF ProviderOf[a] \in ProvidersIn(rows[t])
               THEN StoredRow(rows[t][a], fetchedAt[t])
               ELSE accountBalances[a]
<1>1. work[t] = Written(t, today[t])
  BY DEF Commit, WorkCurrent
<1>2. accountBalances' = StoredBy(t)
  BY <1>1 DEF Commit, Written
<1>3. CASE t = Snapshot
  <2>1. ProvidersIn(rows[t]) = {}
    BY <1>3 DEF SnapshotEmpty, ProvidersIn, NoRows
  <2>2. QED
    BY <1>2, <1>3, <2>1 DEF StoredBy
<1>4. CASE t # Snapshot
  BY <1>2, <1>4 DEF StoredBy, ReplaceBalances
<1>5. QED
  BY <1>3, <1>4

\* What a commit makes of the history: of the day it is for, the stored values,
\* with the unreported accounts of the delivery's providers dropped.
LEMMA CommitHistory ==
    ASSUME TypeOK, WorkCurrent, SnapshotEmpty, NEW t \in Tasks, Commit(t)
    PROVE  /\ \A d \in Days : d # today[t] => balancesDaily'[d] = balancesDaily[d]
           /\ \A a \in Accounts :
                balancesDaily'[today[t]][a] =
                    IF accountBalances'[a].value # NoValue THEN accountBalances'[a].value
                    ELSE IF ProviderOf[a] \in ProvidersIn(rows[t]) THEN NoValue
                    ELSE balancesDaily[today[t]][a]
<1>1. today[t] \in Days
  BY DEF TypeOK
<1>2. /\ accountBalances' = StoredBy(t)
      /\ balancesDaily' = SnapshotDaily(KeptBy(t, today[t]), StoredBy(t), today[t])
  <2>1. work[t] = Written(t, today[t])
    BY DEF Commit, WorkCurrent
  <2>2. QED
    BY <2>1 DEF Commit, Written
<1>3. StoredBy(t) \in Balances
  BY ReplaceType DEF TypeOK, StoredBy
<1>4. KeptBy(t, today[t]) \in History
  BY <1>1, <1>3, DropType DEF TypeOK, KeptBy
<1>5. /\ \A d \in Days : d # today[t] => KeptBy(t, today[t])[d] = balancesDaily[d]
      /\ \A a \in Accounts :
           StoredBy(t)[a].value = NoValue =>
             KeptBy(t, today[t])[today[t]][a] =
               IF ProviderOf[a] \in ProvidersIn(rows[t]) THEN NoValue
               ELSE balancesDaily[today[t]][a]
  <2>1. CASE t = Snapshot
    <3>1. ProvidersIn(rows[t]) = {}
      BY <2>1 DEF SnapshotEmpty, ProvidersIn, NoRows
    <3>2. QED
      BY <2>1, <3>1 DEF KeptBy
  <2>2. CASE t # Snapshot
    BY <1>1, <2>2 DEF KeptBy, DropUnreported, TypeOK, History
  <2>3. QED
    BY <2>1, <2>2
<1>6. \A d \in Days : d # today[t] => balancesDaily'[d] = balancesDaily[d]
  BY <1>1, <1>2, <1>4, <1>5 DEF SnapshotDaily, History
<1>7. \A a \in Accounts :
        balancesDaily'[today[t]][a] =
          IF StoredBy(t)[a].value # NoValue THEN StoredBy(t)[a].value
          ELSE KeptBy(t, today[t])[today[t]][a]
  BY <1>1, <1>2, <1>4 DEF SnapshotDaily, History
<1>8. QED
  BY <1>2, <1>5, <1>6, <1>7

-----------------------------------------------------------------------------
(***************************************************************************)
(* The write lock keeps a transaction's view current.                      *)
(***************************************************************************)

\* A task's result does not change while the tables and what it carries do not.
LEMMA SameWritten ==
    ASSUME NEW u \in Tasks,
           UNCHANGED <<accountBalances, balancesDaily>>,
           rows'[u] = rows[u], fetchedAt'[u] = fetchedAt[u], today'[u] = today[u]
    PROVE  Written(u, today[u])' = Written(u, today[u])
  BY DEF Written, StoredBy, KeptBy

LEMMA LockStep ==
    TypeOK /\ LockHeld /\ WorkCurrent /\ SnapshotEmpty /\ [Next]_vars
        => LockHeld' /\ WorkCurrent' /\ SnapshotEmpty'
<1> SUFFICES ASSUME TypeOK, LockHeld, WorkCurrent, SnapshotEmpty, [Next]_vars
             PROVE  LockHeld' /\ WorkCurrent' /\ SnapshotEmpty'
  OBVIOUS
<1> USE DEF clockVars, tables, taskVars, Goto
<1>0. Snapshot \in Tasks /\ Nobody \notin Tasks
  BY ConstantsAssumption DEF Tasks
<1>1. ASSUME NEW r \in Requests, NEW delivery \in DeliveryChoices,
             StoreDelivery(r, delivery)
      PROVE  LockHeld' /\ WorkCurrent' /\ SnapshotEmpty'
  <2>1. r \in Tasks /\ r # Snapshot
    BY ConstantsAssumption DEF Tasks
  <2>2. LockHeld' /\ SnapshotEmpty'
    BY <1>1, <2>1 DEF StoreDelivery, TypeOK, LockHeld, SnapshotEmpty, NoRows
  <2>3. ASSUME NEW u \in Tasks, pc'[u] = "commit"
        PROVE  work'[u] = Written(u, today[u])'
    <3>1. u # r /\ pc[u] = "commit"
      BY <1>1, <2>1, <2>3 DEF StoreDelivery, TypeOK
    <3>2. Written(u, today[u])' = Written(u, today[u])
      BY <1>1, <2>1, <3>1, SameWritten DEF StoreDelivery, TypeOK
    <3>3. QED
      BY <1>1, <3>1, <3>2 DEF StoreDelivery, WorkCurrent
  <2>4. QED
    BY <2>2, <2>3 DEF WorkCurrent
<1>2. CASE StartSnapshot
  <2>1. LockHeld' /\ SnapshotEmpty'
    BY <1>0, <1>2 DEF StartSnapshot, TypeOK, LockHeld, SnapshotEmpty, NoRows
  <2>2. ASSUME NEW u \in Tasks, pc'[u] = "commit"
        PROVE  work'[u] = Written(u, today[u])'
    <3>1. pc[u] = "commit" /\ today'[u] = today[u]
      BY <1>0, <1>2, <2>2 DEF StartSnapshot, TypeOK
    <3>2. Written(u, today[u])' = Written(u, today[u])
      BY <1>2, <3>1, SameWritten DEF StartSnapshot
    <3>3. QED
      BY <1>2, <3>1, <3>2 DEF StartSnapshot, WorkCurrent
  <2>3. QED
    BY <2>1, <2>2 DEF WorkCurrent
<1>3. ASSUME NEW t \in Tasks, Write(t)
      PROVE  LockHeld' /\ WorkCurrent' /\ SnapshotEmpty'
  <2>1. \A u \in Tasks : pc'[u] = "commit" => u = t
    BY <1>0, <1>3 DEF Write, TypeOK, LockHeld
  <2>2. LockHeld' /\ SnapshotEmpty'
    BY <1>3, <2>1 DEF Write, LockHeld, SnapshotEmpty, NoRows
  <2>3. Written(t, today[t])' = Written(t, today[t])
    BY <1>3, SameWritten DEF Write
  <2>4. work'[t] = Written(t, today[t])'
    BY <1>3, <2>3 DEF Write, TypeOK
  <2>5. QED
    BY <2>1, <2>2, <2>4 DEF WorkCurrent
<1>4. ASSUME NEW t \in Tasks, Commit(t) \/ Rollback(t)
      PROVE  LockHeld' /\ WorkCurrent' /\ SnapshotEmpty'
  <2>1. \A u \in Tasks : pc'[u] # "commit"
    BY <1>4 DEF Commit, Rollback, TypeOK, LockHeld
  <2>2. QED
    BY <1>4, <2>1 DEF Commit, Rollback, LockHeld, WorkCurrent, SnapshotEmpty, NoRows
<1>5. ASSUME NEW t \in Tasks, Record(t)
      PROVE  LockHeld' /\ WorkCurrent' /\ SnapshotEmpty'
  <2>1. LockHeld' /\ SnapshotEmpty'
    BY <1>0, <1>5 DEF Record, Finish, TypeOK, LockHeld, SnapshotEmpty, NoRows
  <2>2. ASSUME NEW u \in Tasks, pc'[u] = "commit"
        PROVE  work'[u] = Written(u, today[u])'
    <3>1. u # t /\ pc[u] = "commit"
      BY <1>5, <2>2 DEF Record, Finish, TypeOK
    <3>2. Written(u, today[u])' = Written(u, today[u])
      BY <1>5, <3>1, SameWritten DEF Record, Finish, TypeOK
    <3>3. QED
      BY <1>5, <3>1, <3>2 DEF Record, WorkCurrent
  <2>3. QED
    BY <2>1, <2>2 DEF WorkCurrent
<1>6. CASE Stop
  BY <1>0, <1>6 DEF Stop, LockHeld, WorkCurrent, SnapshotEmpty, NoRows
<1>7. CASE Start \/ Tick \/ UNCHANGED vars
  <2>1. UNCHANGED <<accountBalances, balancesDaily, rows, fetchedAt, today, pc,
                    work, writeLock>>
    BY <1>7 DEF Start, Tick, vars
  <2>2. \A u \in Tasks : Written(u, today[u])' = Written(u, today[u])
    BY <2>1, SameWritten
  <2>3. QED
    BY <2>1, <2>2 DEF LockHeld, WorkCurrent, SnapshotEmpty, NoRows
<1>8. QED
  BY <1>1, <1>2, <1>3, <1>4, <1>5, <1>6, <1>7 DEF Next, Progress

-----------------------------------------------------------------------------
(***************************************************************************)
(* The stored rows and the history.                                        *)
(***************************************************************************)
LEMMA CommitKeeps ==
    ASSUME IInv, NEW t \in Tasks, Commit(t)
    PROVE  ProviderWhole' /\ DeliveryDayAgrees' /\ LastDayComplete'
<1> USE DEF IInv
<1>1. today[t] \in Days /\ \A a \in Accounts : ProviderOf[a] \in Providers
  BY ConstantsAssumption DEF TypeOK
<1>2. \A p \in Providers :
        delivered'[p] = IF p \in ProvidersIn(rows[t])
                        THEN [rows |-> rows[t], fetched |-> fetchedAt[t], day |-> today[t]]
                        ELSE delivered[p]
  BY DEF Commit
<1>3. ProviderWhole'
  <2> SUFFICES ASSUME NEW a \in Accounts
               PROVE  accountBalances'[a]
                        = StoredRow(delivered'[ProviderOf[a]].rows[a],
                                    delivered'[ProviderOf[a]].fetched)
    BY DEF ProviderWhole, StoredRow, NoRow
  <2>1. accountBalances'[a] = IF ProviderOf[a] \in ProvidersIn(rows[t])
                              THEN StoredRow(rows[t][a], fetchedAt[t])
                              ELSE accountBalances[a]
    BY CommitBalances
  <2>2. QED
    BY <1>1, <1>2, <2>1 DEF ProviderWhole
<1>4. DeliveryDayAgrees'
  <2> SUFFICES ASSUME NEW a \in Accounts, delivered'[ProviderOf[a]].day # NoDay
               PROVE  balancesDaily'[delivered'[ProviderOf[a]].day][a]
                        = accountBalances'[a].value
    BY DEF DeliveryDayAgrees, NoDay
  <2>1. CASE ProviderOf[a] \in ProvidersIn(rows[t])
    <3>1. delivered'[ProviderOf[a]].day = today[t]
      BY <1>1, <1>2, <2>1
    <3>2. balancesDaily'[today[t]][a] =
            IF accountBalances'[a].value # NoValue THEN accountBalances'[a].value
            ELSE NoValue
      BY <2>1, CommitHistory
    <3>3. QED
      BY <3>1, <3>2
  <2>2. CASE ProviderOf[a] \notin ProvidersIn(rows[t])
    <3>1. delivered'[ProviderOf[a]] = delivered[ProviderOf[a]]
      BY <1>1, <1>2, <2>2
    <3>2. accountBalances'[a] = accountBalances[a]
      BY <2>2, CommitBalances
    <3>3. balancesDaily[delivered[ProviderOf[a]].day][a] = accountBalances[a].value
      BY <3>1 DEF DeliveryDayAgrees
    <3>4. delivered[ProviderOf[a]].day \in Days
      BY <1>1, <3>1 DEF TypeOK
    <3>5. CASE delivered[ProviderOf[a]].day = today[t]
      <4>1. balancesDaily'[today[t]][a] =
              IF accountBalances'[a].value # NoValue THEN accountBalances'[a].value
              ELSE balancesDaily[today[t]][a]
        BY <2>2, CommitHistory
      <4>2. QED
        BY <3>1, <3>2, <3>3, <3>5, <4>1
    <3>6. CASE delivered[ProviderOf[a]].day # today[t]
      BY <3>1, <3>2, <3>3, <3>4, <3>6, CommitHistory
    <3>7. QED
      BY <3>5, <3>6
  <2>3. QED
    BY <2>1, <2>2
<1>5. LastDayComplete'
  <2>1. lastDay' = today[t]
    BY DEF Commit
  <2>2. QED
    BY <2>1, CommitHistory DEF LastDayComplete
<1>6. QED
  BY <1>3, <1>4, <1>5

LEMMA InductiveStep == IInv /\ [Next]_vars => IInv'
<1> SUFFICES ASSUME IInv, [Next]_vars PROVE IInv'
  OBVIOUS
<1>1. TypeOK' /\ LockHeld' /\ WorkCurrent' /\ SnapshotEmpty'
  BY TypeStep, LockStep DEF IInv
<1>2. ProviderWhole' /\ DeliveryDayAgrees' /\ LastDayComplete'
  <2>1. ASSUME NEW t \in Tasks, Commit(t)
        PROVE  ProviderWhole' /\ DeliveryDayAgrees' /\ LastDayComplete'
    BY <2>1, CommitKeeps
  <2>2. CASE UNCHANGED tables
    BY <2>2 DEF IInv, tables, ProviderWhole, DeliveryDayAgrees, LastDayComplete,
                StoredRow, NoRow
  <2>3. UNCHANGED tables \/ \E t \in Tasks : Commit(t)
    BY DEF Next, vars, Progress, StoreDelivery, StartSnapshot, Write, Rollback,
           Record, Stop, Start, Tick
  <2>4. QED
    BY <2>1, <2>2, <2>3
<1>3. QED
  BY <1>1, <1>2 DEF IInv

\* What is stored for a provider is always one whole delivery.
THEOREM StoredIsOneDelivery == Spec => []ProviderWhole
<1>1. IInv => ProviderWhole
  BY DEF IInv
<1>2. QED
  BY <1>1, InitInv, InductiveStep, PTL DEF Spec

\* The history of each provider's delivery day agrees with its stored rows.
THEOREM HistoryAgrees == Spec => []DeliveryDayAgrees
<1>1. IInv => DeliveryDayAgrees
  BY DEF IInv
<1>2. QED
  BY <1>1, InitInv, InductiveStep, PTL DEF Spec

\* The day written last covers every stored account.
THEOREM LastDayCovers == Spec => []LastDayComplete
<1>1. IInv => LastDayComplete
  BY DEF IInv
<1>2. QED
  BY <1>1, InitInv, InductiveStep, PTL DEF Spec

\* A day that is over changes only through a write that began on it.
THEOREM PastIsFrozen == Spec => PastDaysFrozen
<1>1. IInv /\ [Next]_vars =>
        [\A d \in Days :
            (/\ d < DayOf(now)
             /\ \A t \in Tasks : pc[t] \in {"waiting", "commit"} => today[t] # d)
                => balancesDaily'[d] = balancesDaily[d]]_vars
  <2> SUFFICES ASSUME IInv, [Next]_vars, NEW d \in Days,
                      \A t \in Tasks : pc[t] \in {"waiting", "commit"} => today[t] # d
               PROVE  balancesDaily'[d] = balancesDaily[d]
    OBVIOUS
  <2>1. ASSUME NEW t \in Tasks, Commit(t)
        PROVE  balancesDaily'[d] = balancesDaily[d]
    <3>1. today[t] # d
      BY <2>1 DEF Commit
    <3>2. QED
      BY <2>1, <3>1, CommitHistory DEF IInv
  <2>2. CASE UNCHANGED tables
    BY <2>2 DEF tables
  <2>3. UNCHANGED tables \/ \E t \in Tasks : Commit(t)
    BY DEF Next, vars, Progress, StoreDelivery, StartSnapshot, Write, Rollback,
           Record, Stop, Start, Tick
  <2>4. QED
    BY <2>1, <2>2, <2>3
<1>2. QED
  BY <1>1, InitInv, InductiveStep, PTL DEF Spec, PastDaysFrozen
=============================================================================
