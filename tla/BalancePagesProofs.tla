-------------------------- MODULE BalancePagesProofs --------------------------
(***************************************************************************)
(* Theorems about BalancePages, over the invariant of BalanceStoreProofs:  *)
(* for any accounts, providers, values, number of concurrent deliveries    *)
(* and bounds.                                                             *)
(***************************************************************************)
EXTENDS BalancePages, BalanceStoreProofs, WellFoundedInduction

-----------------------------------------------------------------------------
(***************************************************************************)
(* The inductive invariant of the readers, in parts.                       *)
(***************************************************************************)
Amounts == [Accounts -> Values \cup {NoValue}]
Totals  == {Total(values) : values \in Amounts}

\* What a reader can have in hand.
Pages ==
    [kind : {"none", "portfolio", "chat"}, reads : 0 .. 3,
     delivered : BOOLEAN, accounts : SUBSET PortfolioAccounts,
     updated : Times \cup {NoTime}, present : BOOLEAN,
     sent : [Providers -> Times],
     values : Amounts, day : Days \cup {NoDay},
     quoted : Totals \cup {Raised}, seen : SUBSET Totals]

PageTyped ==
    /\ page \in Pages
    /\ page.kind = "none" => page = NoPage
    /\ page.kind = "portfolio" => page.reads \in {1, 2}
    /\ page.kind = "chat" => page.reads \in {1, 2, 3}
    /\ askew \in BOOLEAN

\* The history of the day written last is what Home shows, no later day has any
\* rows, and an account in USD has been stored if one is in the history.
LastDayIsHome ==
    ~askew =>
        /\ ValuesOf(accountBalances)
             = IF lastDay = NoDay THEN NoRows ELSE balancesDaily[lastDay]
        /\ \A d \in Days : d > lastDay => balancesDaily[d] = NoRows
        /\ HomeTotal(accountBalances) = NoTotal
             => \A d \in Days : Total(balancesDaily[d]) = NoTotal

\* Once there are rows there always are, and a listed account is no older than
\* the page says.
PortfolioSoFar ==
    page.kind = "portfolio" =>
        /\ page.delivered => HasBalances(accountBalances)
        /\ page.reads = 2 =>
              /\ page.delivered => page.present
              /\ \A a \in page.accounts : page.updated <= page.sent[ProviderOf[a]]

\* The total of what the chat is about to quote is one that was seen.
ChatSoFar ==
    page.kind = "chat" =>
        /\ page.reads < 3 => HomeTotal(accountBalances) \in page.seen
        /\ page.reads = 1 => Total(page.values) \in page.seen
        /\ page.reads = 2 => page.day \in Days
        /\ (page.reads = 2 /\ ~askew) =>
              /\ page.day <= lastDay
              /\ Total(balancesDaily[page.day]) # NoTotal
              /\ Total(balancesDaily[page.day]) \in page.seen
        /\ (page.reads = 3 /\ ~askew) => page.quoted \in page.seen

PagesInv ==
    /\ IInv
    /\ PageTyped
    /\ LastDayIsHome
    /\ PortfolioSoFar
    /\ ChatSoFar

-----------------------------------------------------------------------------
(***************************************************************************)
(* Facts about days, totals and deliveries.                                *)
(***************************************************************************)
\* A set of naturals has a least member.
LEMMA Least ==
  ASSUME NEW T \in SUBSET Nat, T # {}
  PROVE  \E x \in T : \A y \in T : x <= y
<1> DEFINE R == {ss \in Nat \X Nat : ss[1] < ss[2]}
<1>1. IsWellFoundedOn(R, Nat)
  BY NatLessThanWellFounded DEF OpToRel
<1>2. PICK x \in T : \A y \in T : <<y, x>> \notin R
  BY <1>1, WFMin
<1>3. \A y \in T : ~(y < x)
  BY <1>2
<1>. QED
  BY <1>3

\* Days are numbered from 0.
LEMMA DaysFrom0 == Days \subseteq Nat
<1>1. SUFFICES ASSUME NEW t \in Times PROVE t \div TicksPerDay \in Nat
  BY DEF Days, DayOf
<1>2. t \in Nat /\ TicksPerDay \in Nat /\ TicksPerDay > 0
  BY ConstantsAssumption DEF Times
<1>. QED
  BY <1>2

\* No rows, no total.
LEMMA NoRowsNoTotal == Total(NoRows) = NoTotal
<1>1. {a \in UsdAccounts : NoRows[a] # NoValue} = {}
  BY PagesAssumption DEF NoRows
<1>. QED
  BY <1>1 DEF Total

\* The stored values, as a row of the history.
LEMMA ValuesType ==
  ASSUME NEW balances \in Balances
  PROVE  ValuesOf(balances) \in Amounts /\ HomeTotal(balances) \in Totals
<1>1. ValuesOf(balances) \in Amounts
  BY DEF Balances, Row, ValuesOf, Amounts
<1>. QED
  BY <1>1 DEF HomeTotal, Totals

\* A step of the writers commits a transaction or leaves the tables alone.
LEMMA CommitOrNot ==
  ASSUME [Next]_vars
  PROVE  UNCHANGED tables \/ \E t \in Tasks : Commit(t)
  BY DEF Next, vars, Progress, StoreDelivery, StartSnapshot, Write, Rollback,
         Record, Stop, Start, Tick, tables

\* A delivery of a provider has a row of it, so a commit never empties the table.
LEMMA RowsStay ==
  ASSUME IInv, [Next]_vars, HasBalances(accountBalances)
  PROVE  HasBalances(accountBalances')
<1>1. PICK a \in Accounts : accountBalances[a].value # NoValue
  BY DEF HasBalances, Stored
<1>2. ASSUME NEW t \in Tasks, Commit(t)
      PROVE  \E b \in Accounts : accountBalances'[b].value # NoValue
  <2>1. \A b \in Accounts :
          accountBalances'[b] = IF ProviderOf[b] \in ProvidersIn(rows[t])
                                THEN StoredRow(rows[t][b], fetchedAt[t])
                                ELSE accountBalances[b]
    BY <1>2, CommitBalances DEF IInv
  <2>2. CASE ProviderOf[a] \in ProvidersIn(rows[t])
    <3>1. PICK b \in Accounts : rows[t][b] # NoValue /\ ProviderOf[b] = ProviderOf[a]
      BY <2>2 DEF ProvidersIn
    <3>2. accountBalances'[b] = StoredRow(rows[t][b], fetchedAt[t])
      BY <2>1, <2>2, <3>1
    <3>. QED
      BY <3>1, <3>2 DEF StoredRow
  <2>3. CASE ProviderOf[a] \notin ProvidersIn(rows[t])
    BY <1>1, <2>1, <2>3
  <2>. QED
    BY <2>2, <2>3
<1>3. CASE UNCHANGED tables
  BY <1>1, <1>3 DEF tables, HasBalances, Stored
<1>4. CASE \E t \in Tasks : Commit(t)
  BY <1>2, <1>4 DEF HasBalances, Stored
<1>. QED
  BY <1>3, <1>4, CommitOrNot

-----------------------------------------------------------------------------
(***************************************************************************)
(* The writers' steps.                                                     *)
(***************************************************************************)
\* A commit that is not askew leaves the day it wrote as what Home shows.
LEMMA CommitIsHome ==
  ASSUME PagesInv, NEW t \in Tasks, Commit(t), Beside, ~askew'
  PROVE  /\ lastDay' \in Days /\ lastDay' >= lastDay
         /\ ValuesOf(accountBalances') = balancesDaily'[lastDay']
         /\ \A d \in Days : d # lastDay' => balancesDaily'[d] = balancesDaily[d]
         /\ HomeTotal(accountBalances') = NoTotal
              => HomeTotal(accountBalances) = NoTotal
<1>1. /\ TypeOK /\ WorkCurrent /\ SnapshotEmpty /\ LastDayIsHome
      /\ balancesDaily' \in History /\ accountBalances' \in Balances
  BY TypeStep DEF PagesInv, IInv, Beside, TypeOK
<1>2. /\ lastDay' = today[t] /\ today[t] \in Days
      /\ lastDay \in Days \cup {NoDay}
  BY <1>1 DEF Commit, TypeOK
<1>3. /\ ~askew
      /\ ~(lastDay' < lastDay)
      /\ HomeTotal(accountBalances') = NoTotal => HomeTotal(accountBalances) = NoTotal
  BY DEF Beside
<1>4. /\ lastDay' \in Int /\ lastDay \in Int /\ today[t] \in Int
  <2>1. \A d \in Days \cup {NoDay} : d \in Int
    BY DaysFrom0 DEF NoDay
  <2>. QED
    BY <1>2, <1>3, <2>1, Zenon
<1>5. lastDay' >= lastDay
  BY <1>3, <1>4
<1>6. ASSUME NEW a \in Accounts
      PROVE  balancesDaily'[lastDay'][a] = accountBalances'[a].value
  <2>1. balancesDaily'[today[t]][a] =
          IF accountBalances'[a].value # NoValue THEN accountBalances'[a].value
          ELSE IF ProviderOf[a] \in ProvidersIn(rows[t]) THEN NoValue
          ELSE balancesDaily[today[t]][a]
    BY <1>1, CommitHistory
  <2>2. CASE /\ accountBalances'[a].value = NoValue
             /\ ProviderOf[a] \notin ProvidersIn(rows[t])
    <3>1. accountBalances'[a] = accountBalances[a]
      BY <1>1, <2>2, CommitBalances
    <3>2. CASE today[t] = lastDay
      <4>1. ValuesOf(accountBalances) = balancesDaily[lastDay]
        BY <1>2, <1>1, <1>3, <3>2, DaysFrom0 DEF LastDayIsHome, NoDay
      <4>2. balancesDaily[lastDay][a] = accountBalances[a].value
        BY <4>1 DEF ValuesOf
      <4>. QED
        BY <1>2, <2>1, <2>2, <3>1, <3>2, <4>2
    <3>3. CASE today[t] # lastDay
      <4>1. today[t] > lastDay
        BY <1>2, <1>4, <1>5, <3>3
      <4>2. balancesDaily[today[t]] = NoRows
        BY <1>1, <1>2, <1>3, <4>1 DEF LastDayIsHome
      <4>. QED
        BY <1>2, <2>1, <2>2, <4>2 DEF NoRows
    <3>. QED
      BY <3>2, <3>3
  <2>. QED
    BY <1>2, <2>1, <2>2
<1>7. balancesDaily'[lastDay'] \in Amounts
  BY <1>1, <1>2 DEF History, Amounts
<1>8. ValuesOf(accountBalances') = balancesDaily'[lastDay']
  BY <1>6, <1>7 DEF ValuesOf, Amounts
<1>9. \A d \in Days : d # lastDay' => balancesDaily'[d] = balancesDaily[d]
  BY <1>1, <1>2, CommitHistory
<1>. QED
  BY <1>2, <1>3, <1>5, <1>8, <1>9

-----------------------------------------------------------------------------
(***************************************************************************)
(* The readers' steps.                                                     *)
(***************************************************************************)
\* A reader that has read nothing.
LEMMA NoPageFacts ==
  /\ NoPage.kind = "none" /\ NoPage.reads = 0 /\ NoPage.delivered = FALSE
  /\ NoPage \in Pages
<1>1. NoTimes \in [Providers -> Times]
  BY ClockFacts DEF NoTimes
<1>2. NoRows \in Amounts
  BY NoRowsType DEF Amounts
<1>3. NoTotal \in Totals
  BY <1>2, NoRowsNoTotal DEF Totals
<1>. QED
  BY <1>1, <1>2, <1>3 DEF NoPage, Pages

\* What a read adds to what a reader has in hand.
LEMMA PageWith ==
  ASSUME NEW p \in Pages, NEW n \in 0 .. 3, NEW k \in {"none", "portfolio", "chat"},
         NEW j
  PROVE  /\ \A b \in BOOLEAN :
              j = [p EXCEPT !.kind = k, !.reads = n, !.delivered = b] => j \in Pages
         /\ \A b \in BOOLEAN, l \in SUBSET PortfolioAccounts,
               u \in Times \cup {NoTime}, s \in [Providers -> Times] :
              j = [p EXCEPT !.kind = k, !.reads = n, !.accounts = l, !.updated = u,
                            !.present = b, !.sent = s] => j \in Pages
         /\ \A v \in Amounts, s \in SUBSET Totals :
              j = [p EXCEPT !.kind = k, !.reads = n, !.values = v, !.seen = s]
                => j \in Pages
         /\ \A q \in Totals \cup {Raised} :
              j = [p EXCEPT !.reads = n, !.quoted = q] => j \in Pages
         /\ \A d \in Days \cup {NoDay} :
              j = [p EXCEPT !.reads = n, !.day = d] => j \in Pages
         /\ \A s \in SUBSET Totals : j = [p EXCEPT !.seen = s] => j \in Pages
<1>1. ASSUME NEW b \in BOOLEAN,
             j = [p EXCEPT !.kind = k, !.reads = n, !.delivered = b]
      PROVE  j \in Pages
  BY <1>1 DEF Pages
<1>2. ASSUME NEW b \in BOOLEAN, NEW l \in SUBSET PortfolioAccounts,
             NEW u \in Times \cup {NoTime}, NEW s \in [Providers -> Times],
             j = [p EXCEPT !.kind = k, !.reads = n, !.accounts = l, !.updated = u,
                           !.present = b, !.sent = s]
      PROVE  j \in Pages
  BY <1>2 DEF Pages
<1>3. ASSUME NEW v \in Amounts, NEW s \in SUBSET Totals,
             j = [p EXCEPT !.kind = k, !.reads = n, !.values = v, !.seen = s]
      PROVE  j \in Pages
  BY <1>3 DEF Pages
<1>4. ASSUME NEW q \in Totals \cup {Raised}, j = [p EXCEPT !.reads = n, !.quoted = q]
      PROVE  j \in Pages
  BY <1>4 DEF Pages
<1>5. ASSUME NEW d \in Days \cup {NoDay}, j = [p EXCEPT !.reads = n, !.day = d]
      PROVE  j \in Pages
  BY <1>5 DEF Pages
<1>6. ASSUME NEW s \in SUBSET Totals, j = [p EXCEPT !.seen = s]
      PROVE  j \in Pages
  BY <1>6 DEF Pages
<1>. QED
  BY <1>1, <1>2, <1>3, <1>4, <1>5, <1>6

\* The time of the list: that of its least recent account.
LEMMA UpdatedFacts ==
  ASSUME TypeOK
  PROVE  /\ Updated(accountBalances) \in Times \cup {NoTime}
         /\ \A a \in ListedAccounts(accountBalances) :
               Updated(accountBalances) <= accountBalances[a].fetched
<1> DEFINE ages == {accountBalances[a].fetched : a \in ListedAccounts(accountBalances)}
<1>1. ListedAccounts(accountBalances) \subseteq Accounts
  BY DEF ListedAccounts, Stored
<1>2. ages \subseteq Times
  BY <1>1 DEF TypeOK, Balances, Row
<1>3. Times \subseteq Nat
  BY DEF Times
<1>4. CASE ListedAccounts(accountBalances) = {}
  BY <1>4 DEF Updated
<1>5. CASE ListedAccounts(accountBalances) # {}
  <2>1. \E x \in ages : \A y \in ages : x <= y
    BY <1>2, <1>3, <1>5, Least
  <2>2. Min(ages) \in ages /\ \A y \in ages : Min(ages) <= y
    BY <2>1 DEF Min
  <2>3. Updated(accountBalances) = Min(ages)
    BY <1>5 DEF Updated
  <2>. QED
    BY <1>2, <2>2, <2>3
<1>. QED
  BY <1>4, <1>5

\* Of a row that is stored, the time is that of its provider's last delivery.
LEMMA StoredAge ==
  ASSUME IInv, NEW a \in Stored(accountBalances)
  PROVE  accountBalances[a].fetched = TimesDelivered[ProviderOf[a]]
<1>1. a \in Accounts /\ ProviderOf[a] \in Providers /\ accountBalances[a].value # NoValue
  BY ConstantsAssumption DEF Stored
<1>2. accountBalances[a] = StoredRow(delivered[ProviderOf[a]].rows[a],
                                     delivered[ProviderOf[a]].fetched)
  BY <1>1 DEF IInv, ProviderWhole
<1>3. accountBalances[a].fetched = delivered[ProviderOf[a]].fetched
  BY <1>1, <1>2 DEF StoredRow, NoRow
<1>. QED
  BY <1>1, <1>3 DEF TimesDelivered

\* The page's reads keep the types and what is said of it.
LEMMA PortfolioStep ==
  ASSUME PagesInv, PortfolioRead
  PROVE  PageTyped' /\ PortfolioSoFar' /\ page'.kind = "portfolio"
<1>0. /\ TypeOK /\ PageTyped /\ askew' = askew
      /\ accountBalances' = accountBalances
  BY DEF PagesInv, IInv, PortfolioRead, vars, tables
<1>1. HasBalances(accountBalances) \in BOOLEAN
  BY DEF HasBalances
<1>2. CASE page.kind = "none"
  <2>1. page' = [page EXCEPT !.kind = "portfolio", !.reads = @ + 1,
                             !.delivered = HasBalances(accountBalances)]
    BY <1>0, <1>2, NoPageFacts DEF PortfolioRead, ReadOrder, PageTyped
  <2>2. page.reads = 0
    BY <1>0, <1>2, NoPageFacts DEF PageTyped
  <2>3. /\ page'.kind = "portfolio" /\ page'.reads = 1
        /\ page'.delivered <=> HasBalances(accountBalances)
    BY <1>0, <2>1, <2>2 DEF PageTyped, Pages
  <2>4. page' \in Pages
    <3>1. /\ page \in Pages /\ 1 \in 0 .. 3
          /\ "portfolio" \in {"none", "portfolio", "chat"}
      BY <1>0 DEF PageTyped
    <3>2. page' = [page EXCEPT !.kind = "portfolio", !.reads = 1,
                               !.delivered = HasBalances(accountBalances)]
      BY <2>1, <2>2
    <3>. QED
      BY ONLY <1>1, <3>1, <3>2, PageWith
  <2>5. PageTyped'
    BY <1>0, <2>3, <2>4 DEF PageTyped
  <2>6. PortfolioSoFar'
    BY <1>0, <2>3 DEF PortfolioSoFar
  <2>. QED
    BY <2>3, <2>5, <2>6
<1>3. CASE page.kind # "none"
  <2>1. page.kind = "portfolio" /\ page.reads = 1
    BY <1>0, <1>3 DEF PortfolioRead, PageTyped, Pages
  <2>2. page' = [page EXCEPT !.kind = "portfolio", !.reads = @ + 1,
                             !.accounts = ListedAccounts(accountBalances),
                             !.updated = Updated(accountBalances),
                             !.present = HasBalances(accountBalances),
                             !.sent = TimesDelivered]
    BY <1>0, <1>3, <2>1 DEF PortfolioRead, ReadOrder
  <2>3. /\ page'.kind = "portfolio" /\ page'.reads = 2
        /\ page'.delivered = page.delivered
        /\ page'.present = HasBalances(accountBalances)
        /\ page'.accounts = ListedAccounts(accountBalances)
        /\ page'.updated = Updated(accountBalances)
        /\ page'.sent = TimesDelivered
    BY <1>0, <2>1, <2>2 DEF PageTyped, Pages
  <2>4. TimesDelivered \in [Providers -> Times]
    BY <1>0 DEF TypeOK, TimesDelivered
  <2>5. ListedAccounts(accountBalances) \in SUBSET PortfolioAccounts
    BY DEF ListedAccounts
  <2>6. PageTyped'
    <3>1. /\ page \in Pages /\ 2 \in 0 .. 3
          /\ "portfolio" \in {"none", "portfolio", "chat"}
      BY <1>0 DEF PageTyped
    <3>2. Updated(accountBalances) \in Times \cup {NoTime}
      BY <1>0, UpdatedFacts
    <3>3. page' = [page EXCEPT !.kind = "portfolio", !.reads = 2,
                               !.accounts = ListedAccounts(accountBalances),
                               !.updated = Updated(accountBalances),
                               !.present = HasBalances(accountBalances),
                               !.sent = TimesDelivered]
      BY <2>1, <2>2
    <3>4. page' \in Pages
      BY ONLY <1>1, <2>4, <2>5, <3>1, <3>2, <3>3, PageWith
    <3>. QED
      BY <1>0, <2>3, <3>4 DEF PageTyped
  <2>7. \A a \in page'.accounts : page'.updated <= page'.sent[ProviderOf[a]]
    <3>1. ListedAccounts(accountBalances) \subseteq Stored(accountBalances)
      BY DEF ListedAccounts
    <3>. QED
      BY <1>0, <2>3, <3>1, UpdatedFacts, StoredAge DEF PagesInv
  <2>8. page.delivered => HasBalances(accountBalances)
    BY <2>1 DEF PagesInv, PortfolioSoFar
  <2>9. PortfolioSoFar'
    BY <1>0, <2>3, <2>7, <2>8 DEF PortfolioSoFar
  <2>. QED
    BY <2>3, <2>6, <2>9
<1>. QED
  BY <1>2, <1>3


\* A bounded set of naturals has a greatest member.
LEMMA Greatest ==
  ASSUME NEW T \in SUBSET Nat, T # {}, NEW N \in Nat, \A y \in T : y <= N
  PROVE  \E x \in T : \A y \in T : x >= y
<1> DEFINE U == {n \in Nat : \A y \in T : y <= n}
<1>1. PICK m \in U : \A n \in U : m <= n
  <2>1. N \in U
    OBVIOUS
  <2>. QED
    BY <2>1, Least
<1>2. m \in T
  <2>1. ASSUME m \notin T PROVE FALSE
    <3>1. \A y \in T : y < m
      BY <1>1, <2>1
    <3>2. m - 1 \in U
      <4>1. PICK y \in T : y \in Nat
        OBVIOUS
      <4>2. m \in Nat /\ y < m
        BY <1>1, <3>1
      <4>3. m - 1 \in Nat
        BY <4>1, <4>2
      <4>. QED
        BY <3>1, <4>2, <4>3
    <3>. QED
      BY <1>1, <3>2
  <2>. QED
    BY <2>1
<1>. QED
  BY <1>1, <1>2

\* The last day of the history with an account in USD.
LEMMA LatestDayFacts ==
  /\ LatestDay \in Days \cup {NoDay}
  /\ LatestDay = NoDay \/ LatestDay \in DaysWithTotal
  /\ LatestDay = NoDay <=> DaysWithTotal = {}
  /\ \A d \in DaysWithTotal : d <= LatestDay
<1>1. \A d \in Days : d \in Nat /\ d <= MaxTime
  <2>1. \A t \in Times : t \in Nat /\ t \div TicksPerDay <= t
    BY ConstantsAssumption DEF Times
  <2>2. \A t \in Times : DayOf(t) \in Nat /\ DayOf(t) <= MaxTime
    BY <2>1, ConstantsAssumption, DaysFrom0 DEF Times, DayOf, Days
  <2>. QED
    BY <2>2 DEF Days
<1>2. CASE DaysWithTotal = {}
  BY <1>2 DEF LatestDay
<1>3. CASE DaysWithTotal # {}
  <2>1. \E x \in DaysWithTotal : \A y \in DaysWithTotal : x >= y
    <3>1. DaysWithTotal \in SUBSET Nat /\ \A y \in DaysWithTotal : y <= MaxTime
      BY <1>1 DEF DaysWithTotal
    <3>2. MaxTime \in Nat
      BY ConstantsAssumption
    <3>. QED
      BY <1>3, <3>1, <3>2, Greatest
  <2>2. LatestDay = Max(DaysWithTotal)
    BY <1>3 DEF LatestDay
  <2>3. LatestDay \in DaysWithTotal /\ \A d \in DaysWithTotal : LatestDay >= d
    BY <2>1, <2>2 DEF Max
  <2>4. \A d \in Days : d # NoDay
    BY <1>1 DEF NoDay
  <2>5. DaysWithTotal \subseteq Days
    BY DEF DaysWithTotal
  <2>. QED
    BY <1>1, <1>3, <2>3, <2>4, <2>5
<1>. QED
  BY <1>2, <1>3

\* Unless askew, that is the day written last, and its total what Home shows.
LEMMA LatestIsLast ==
  ASSUME PagesInv, ~askew, LatestDay # NoDay
  PROVE  /\ LatestDay \in Days /\ LatestDay = lastDay
         /\ Total(balancesDaily[LatestDay]) = HomeTotal(accountBalances)
         /\ Total(balancesDaily[LatestDay]) # NoTotal
<1>1. LatestDay \in DaysWithTotal /\ LatestDay \in Days
  BY LatestDayFacts DEF DaysWithTotal
<1>2. /\ lastDay \in Days \cup {NoDay}
      /\ ValuesOf(accountBalances)
           = IF lastDay = NoDay THEN NoRows ELSE balancesDaily[lastDay]
      /\ \A d \in Days : d > lastDay => balancesDaily[d] = NoRows
      /\ HomeTotal(accountBalances) = NoTotal
           => \A d \in Days : Total(balancesDaily[d]) = NoTotal
  BY DEF PagesInv, IInv, TypeOK, LastDayIsHome
<1>3. Total(balancesDaily[LatestDay]) # NoTotal
  BY <1>1 DEF DaysWithTotal
<1>4. HomeTotal(accountBalances) # NoTotal
  BY <1>1, <1>2, <1>3
<1>5. /\ lastDay # NoDay
      /\ Total(balancesDaily[lastDay]) = HomeTotal(accountBalances)
  BY <1>2, <1>4, NoRowsNoTotal DEF HomeTotal
<1>6. lastDay \in DaysWithTotal
  BY <1>2, <1>4, <1>5 DEF DaysWithTotal
<1>7. lastDay <= LatestDay
  BY <1>6, LatestDayFacts
<1>8. ~(LatestDay > lastDay)
  BY <1>1, <1>2, <1>3, NoRowsNoTotal
<1>9. LatestDay = lastDay
  <2>1. LatestDay \in Nat /\ lastDay \in Nat
    BY <1>1, <1>6, DaysFrom0 DEF DaysWithTotal
  <2>. QED
    BY <1>7, <1>8, <2>1
<1>. QED
  BY <1>1, <1>3, <1>5, <1>9

\* The first statement of the chat's table.
LEMMA ChatAccountsStep ==
  ASSUME PagesInv, ChatReadsAccounts
  PROVE  PageTyped' /\ ChatSoFar' /\ page'.kind = "chat"
<1> DEFINE home == HomeTotal(accountBalances)
           values == ValuesOf(accountBalances)
<1>0. /\ TypeOK /\ PageTyped /\ askew' = askew
      /\ accountBalances' = accountBalances /\ balancesDaily' = balancesDaily
      /\ lastDay' = lastDay
  BY DEF PagesInv, IInv, ChatReadsAccounts, vars, tables
<1>1. values \in Amounts /\ home \in Totals /\ home = Total(values)
  BY <1>0, ValuesType DEF HomeTotal, TypeOK
<1>2. /\ NoPage \in Pages /\ 1 \in 0 .. 3
      /\ "chat" \in {"none", "portfolio", "chat"}
  BY NoPageFacts
<1>3. page' = [NoPage EXCEPT !.kind = "chat", !.reads = 1,
                             !.values = values, !.seen = {home}]
  BY DEF ChatReadsAccounts
<1> HIDE DEF home, values
<1>4. page' \in Pages
  <2>1. {home} \in SUBSET Totals
    BY <1>1
  <2>. QED
    BY ONLY <1>1, <1>2, <1>3, <2>1, PageWith
<1>5. /\ page'.kind = "chat" /\ page'.reads = 1
      /\ page'.values = values /\ page'.seen = {home}
  BY <1>2, <1>3 DEF Pages
<1>6. PageTyped'
  BY <1>0, <1>4, <1>5 DEF PageTyped
<1>7. ChatSoFar'
  BY <1>0, <1>1, <1>5 DEF ChatSoFar, home
<1>. QED
  BY <1>5, <1>6, <1>7

\* The second: the last day, or the totals of the accounts.
LEMMA ChatDayStep ==
  ASSUME PagesInv, ChatReadsDay
  PROVE  PageTyped' /\ ChatSoFar' /\ page'.kind = "chat"
<1>0. /\ TypeOK /\ PageTyped /\ ChatSoFar /\ askew' = askew
      /\ accountBalances' = accountBalances /\ balancesDaily' = balancesDaily
      /\ lastDay' = lastDay
      /\ page \in Pages /\ page.kind = "chat" /\ page.reads = 1
  BY DEF PagesInv, IInv, ChatReadsDay, vars, tables, PageTyped
<1>1. 2 \in 0 .. 3 /\ 3 \in 0 .. 3
  OBVIOUS
<1>2. HomeTotal(accountBalances) \in page.seen /\ Total(page.values) \in page.seen
  BY <1>0 DEF ChatSoFar
<1>3. CASE LatestDay = NoDay
  <2>1. page' = [page EXCEPT !.reads = 3, !.quoted = Total(page.values)]
    BY <1>3 DEF ChatReadsDay
  <2>2. Total(page.values) \in Totals \cup {Raised}
    BY <1>0 DEF Pages, Totals
  <2>3. page' \in Pages
    <3>1. ASSUME NEW q, q = Total(page.values) PROVE page' \in Pages
      BY ONLY <1>0, <1>1, <2>1, <2>2, <3>1, PageWith,
              "chat" \in {"none", "portfolio", "chat"}
    <3>. QED
      BY <3>1
  <2>4. /\ page'.kind = "chat" /\ page'.reads = 3 /\ page'.seen = page.seen
        /\ page'.quoted = Total(page.values)
    BY <1>0, <2>1 DEF Pages
  <2>5. PageTyped'
    BY <1>0, <2>3, <2>4 DEF PageTyped
  <2>6. ChatSoFar'
    BY <1>2, <2>4 DEF ChatSoFar
  <2>. QED
    BY <2>4, <2>5, <2>6
<1>4. CASE LatestDay # NoDay
  <2>1. page' = [page EXCEPT !.reads = 2, !.day = LatestDay]
    BY <1>4 DEF ChatReadsDay
  <2>2. LatestDay \in Days \cup {NoDay}
    BY LatestDayFacts
  <2>3. page' \in Pages
    BY ONLY <1>0, <1>1, <2>1, <2>2, PageWith,
            "chat" \in {"none", "portfolio", "chat"}
  <2>4. /\ page'.kind = "chat" /\ page'.reads = 2 /\ page'.seen = page.seen
        /\ page'.day = LatestDay
    BY <1>0, <2>1 DEF Pages
  <2>5. PageTyped'
    BY <1>0, <2>3, <2>4 DEF PageTyped
  <2>6. ASSUME ~askew
        PROVE  /\ LatestDay <= lastDay
               /\ Total(balancesDaily[LatestDay]) # NoTotal
               /\ Total(balancesDaily[LatestDay]) \in page.seen
    <3>1. /\ LatestDay \in Nat /\ LatestDay = lastDay
          /\ Total(balancesDaily[LatestDay]) = HomeTotal(accountBalances)
          /\ Total(balancesDaily[LatestDay]) # NoTotal
      BY <1>4, <2>6, LatestIsLast, DaysFrom0
    <3>. QED
      BY <1>2, <3>1
  <2>7. ChatSoFar'
    <3>1. LatestDay \in Days
      BY <1>4, LatestDayFacts DEF DaysWithTotal
    <3>. QED
      BY <1>0, <1>2, <2>4, <2>6, <3>1 DEF ChatSoFar
  <2>. QED
    BY <2>4, <2>5, <2>7
<1>. QED
  BY <1>3, <1>4

\* The third: the total of that day.
LEMMA ChatTotalsStep ==
  ASSUME PagesInv, ChatReadsTotals
  PROVE  PageTyped' /\ ChatSoFar' /\ page'.kind = "chat"
<1> DEFINE total == Total(balancesDaily[page.day])
<1>0. /\ TypeOK /\ PageTyped /\ ChatSoFar /\ askew' = askew
      /\ page \in Pages /\ page.kind = "chat" /\ page.reads = 2
  BY DEF PagesInv, IInv, ChatReadsTotals, PageTyped
<1>1. PICK q : q = IF total = NoTotal THEN Raised ELSE total
  OBVIOUS
<1>2. page' = [page EXCEPT !.reads = 3, !.quoted = q]
  BY <1>1 DEF ChatReadsTotals
<1>3. q \in Totals \cup {Raised}
  <2>1. page.day \in Days
    BY <1>0 DEF ChatSoFar
  <2>2. balancesDaily[page.day] \in Amounts
    BY <1>0, <2>1 DEF TypeOK, History, Amounts
  <2>3. total \in Totals
    BY <2>2 DEF Totals
  <2>. QED
    BY <1>1, <2>3
<1> HIDE DEF total
<1>4. page' \in Pages
  <2>1. 3 \in 0 .. 3 /\ page \in Pages /\ "chat" \in {"none", "portfolio", "chat"}
    BY <1>0
  <2>. QED
    BY ONLY <1>2, <1>3, <2>1, PageWith
<1>5. /\ page'.kind = "chat" /\ page'.reads = 3 /\ page'.seen = page.seen
      /\ page'.quoted = q
  BY <1>0, <1>2 DEF Pages
<1>6. PageTyped'
  BY <1>0, <1>4, <1>5 DEF PageTyped
<1>7. ~askew => q \in page.seen
  BY <1>0, <1>1 DEF ChatSoFar, total
<1>8. ChatSoFar'
  BY <1>0, <1>5, <1>7 DEF ChatSoFar
<1>. QED
  BY <1>5, <1>6, <1>8


-----------------------------------------------------------------------------
(***************************************************************************)
(* The invariant is kept.                                                  *)
(***************************************************************************)
\* The day written last stays what Home shows.
LEMMA LastDayStep ==
  ASSUME PagesInv, Beside, ~askew'
  PROVE  LastDayIsHome'
<1>0. /\ ~askew /\ LastDayIsHome /\ [Next]_vars
      /\ lastDay \in Days \cup {NoDay}
  BY DEF PagesInv, IInv, TypeOK, Beside
<1>1. ASSUME NEW t \in Tasks, Commit(t) PROVE LastDayIsHome'
  <2>1. /\ lastDay' \in Days /\ lastDay' >= lastDay
        /\ ValuesOf(accountBalances') = balancesDaily'[lastDay']
        /\ \A d \in Days : d # lastDay' => balancesDaily'[d] = balancesDaily[d]
        /\ HomeTotal(accountBalances') = NoTotal
             => HomeTotal(accountBalances) = NoTotal
    BY <1>1, CommitIsHome
  <2>2. \A d \in Days : d \in Nat /\ d # NoDay
    BY DaysFrom0 DEF NoDay
  <2>3. lastDay \in Int /\ lastDay' \in Int
    BY <1>0, <2>1, <2>2 DEF NoDay
  <2>4. ValuesOf(accountBalances)'
          = IF lastDay' = NoDay THEN NoRows ELSE balancesDaily'[lastDay']
    BY <2>1, <2>2
  <2>5. ASSUME NEW d \in Days, d > lastDay' PROVE balancesDaily'[d] = NoRows
    <3>1. d # lastDay' /\ d > lastDay
      BY <2>1, <2>2, <2>3, <2>5
    <3>. QED
      BY <1>0, <2>1, <3>1 DEF LastDayIsHome
  <2>6. ASSUME HomeTotal(accountBalances') = NoTotal, NEW d \in Days
        PROVE  Total(balancesDaily'[d]) = NoTotal
    <3>1. CASE d = lastDay'
      <4>1. Total(balancesDaily'[d]) = HomeTotal(accountBalances')
        BY <2>1, <3>1 DEF HomeTotal
      <4>. QED
        BY <2>6, <4>1
    <3>2. CASE d # lastDay'
      BY <1>0, <2>1, <2>6, <3>2 DEF LastDayIsHome
    <3>. QED
      BY <3>1, <3>2
  <2>. QED
    BY <2>4, <2>5, <2>6 DEF LastDayIsHome
<1>2. CASE UNCHANGED tables
  BY <1>0, <1>2 DEF LastDayIsHome, tables
<1>. QED
  BY <1>0, <1>1, <1>2, CommitOrNot

\* A reader goes on while the writers work.
LEMMA ReaderStep ==
  ASSUME PagesInv, Beside
  PROVE  PageTyped' /\ PortfolioSoFar' /\ ChatSoFar'
<1> DEFINE home == HomeTotal(accountBalances)
<1>0. /\ [Next]_vars /\ IInv /\ PageTyped /\ PortfolioSoFar /\ ChatSoFar
      /\ page \in Pages /\ askew' \in BOOLEAN
      /\ ~askew' => ~askew
      /\ \A d \in Days : d \in Nat
  BY DaysFrom0 DEF PagesInv, Beside, PageTyped
<1>1. home' \in Totals
  <2>1. TypeOK'
    BY <1>0, InductiveStep DEF IInv
  <2>. QED
    BY <2>1, ValuesType DEF TypeOK
<1>2. CASE ~(page.kind = "chat" /\ page.reads < 3)
  <2>1. page' = page
    BY <1>2 DEF Beside
  <2>2. PageTyped'
    BY <1>0, <2>1 DEF PageTyped
  <2>3. PortfolioSoFar'
    BY <1>0, <2>1, RowsStay DEF PortfolioSoFar
  <2>4. page.kind = "chat" => page.reads = 3
    BY <1>0, <1>2 DEF PageTyped
  <2>5. ChatSoFar'
    BY <1>0, <2>1, <2>4 DEF ChatSoFar
  <2>. QED
    BY <2>2, <2>3, <2>5
<1>3. CASE page.kind = "chat" /\ page.reads < 3
  <2>1. page' = [page EXCEPT !.seen = page.seen \cup {home'}]
    BY <1>3 DEF Beside
  <2>2. page.seen \cup {home'} \in SUBSET Totals
    BY <1>0, <1>1 DEF Pages
  <2> HIDE DEF home
  <2>3. page' \in Pages
    <3>1. /\ page \in Pages /\ 0 \in 0 .. 3
          /\ "chat" \in {"none", "portfolio", "chat"}
      BY <1>0
    <3>2. PICK seen : seen = page.seen \cup {home'}
      OBVIOUS
    <3>3. seen \in SUBSET Totals
      BY ONLY <2>2, <3>2
    <3>4. page' = [page EXCEPT !.seen = seen]
      BY ONLY <2>1, <3>2
    <3>5. [page EXCEPT !.seen = seen] \in Pages
      BY ONLY <3>1, <3>3, PageWith
    <3>. QED
      BY ONLY <3>4, <3>5
  <2>4. /\ page'.kind = "chat" /\ page'.reads = page.reads
        /\ page'.values = page.values /\ page'.day = page.day
        /\ page'.seen = page.seen \cup {home'}
    BY <1>0, <1>3, <2>1 DEF Pages
  <2>5. PageTyped'
    BY <1>0, <1>3, <2>3, <2>4 DEF PageTyped
  <2>6. PortfolioSoFar'
    BY <2>4 DEF PortfolioSoFar
  <2>7. ASSUME page.reads = 2, ~askew'
        PROVE  /\ page.day <= lastDay'
               /\ Total(balancesDaily'[page.day]) # NoTotal
               /\ Total(balancesDaily'[page.day]) \in page'.seen
    <3>1. /\ page.day \in Days /\ page.day <= lastDay
          /\ Total(balancesDaily[page.day]) # NoTotal
          /\ Total(balancesDaily[page.day]) \in page.seen
      BY <1>0, <1>3, <2>7 DEF ChatSoFar
    <3>2. CASE UNCHANGED tables
      BY <2>4, <3>1, <3>2 DEF tables
    <3>3. ASSUME NEW t \in Tasks, Commit(t)
          PROVE  /\ page.day <= lastDay'
                 /\ Total(balancesDaily'[page.day]) # NoTotal
                 /\ Total(balancesDaily'[page.day]) \in page'.seen
      <4>1. /\ lastDay' \in Days /\ lastDay' >= lastDay
            /\ ValuesOf(accountBalances') = balancesDaily'[lastDay']
            /\ \A d \in Days : d # lastDay' => balancesDaily'[d] = balancesDaily[d]
            /\ home' = NoTotal => home = NoTotal
        BY <2>7, <3>3, CommitIsHome DEF home
      <4>2. lastDay \in Int /\ lastDay' \in Int /\ page.day \in Int
        BY <1>0, <3>1, <4>1 DEF IInv, TypeOK, NoDay
      <4>3. page.day <= lastDay'
        BY <3>1, <4>1, <4>2
      <4>4. home # NoTotal
        BY <1>0, <2>7, <3>1 DEF PagesInv, LastDayIsHome, home
      <4>5. CASE page.day = lastDay'
        <5>1. Total(balancesDaily'[page.day]) = home'
          BY <4>1, <4>5 DEF HomeTotal, home
        <5>. QED
          BY <2>4, <4>1, <4>3, <4>4, <5>1
      <4>6. CASE page.day # lastDay'
        BY <2>4, <3>1, <4>1, <4>3, <4>6
      <4>. QED
        BY <4>5, <4>6
    <3>. QED
      BY <1>0, <3>2, <3>3, CommitOrNot
  <2>8. ChatSoFar'
    <3>1. page.reads \in {1, 2}
      BY <1>0, <1>3 DEF PageTyped
    <3>. QED
      BY <1>0, <1>3, <2>4, <2>7, <3>1 DEF ChatSoFar, home
  <2>. QED
    BY <2>5, <2>6, <2>8
<1>. QED
  BY <1>2, <1>3

\* Every step of writers and readers keeps the invariant.
LEMMA PagesStep ==
  ASSUME PagesInv, [PageNext]_allVars
  PROVE  PagesInv'
<1>0. IInv /\ PageTyped /\ LastDayIsHome /\ PortfolioSoFar /\ ChatSoFar
  BY DEF PagesInv
<1>1. [Next]_vars
  BY DEF PageNext, Beside, PortfolioRead, ChatReadsAccounts, ChatReadsDay,
         ChatReadsTotals, EndPage, allVars
<1>2. IInv'
  BY <1>0, <1>1, InductiveStep
<1>3. CASE Beside
  BY <1>2, <1>3, LastDayStep, ReaderStep DEF PagesInv, LastDayIsHome
<1>4. ASSUME UNCHANGED <<vars, askew>> PROVE LastDayIsHome'
  BY <1>0, <1>4 DEF LastDayIsHome, vars, tables
<1>5. CASE PortfolioRead
  <2>1. PageTyped' /\ PortfolioSoFar' /\ page'.kind = "portfolio"
    BY <1>5, PortfolioStep
  <2>2. ChatSoFar'
    BY <2>1 DEF ChatSoFar
  <2>3. UNCHANGED <<vars, askew>>
    BY <1>5 DEF PortfolioRead
  <2>. QED
    BY <1>2, <1>4, <2>1, <2>2, <2>3 DEF PagesInv
<1>6. CASE ChatReadsAccounts \/ ChatReadsDay \/ ChatReadsTotals
  <2>1. PageTyped' /\ ChatSoFar' /\ page'.kind = "chat"
    BY <1>6, ChatAccountsStep, ChatDayStep, ChatTotalsStep
  <2>2. PortfolioSoFar'
    BY <2>1 DEF PortfolioSoFar
  <2>3. UNCHANGED <<vars, askew>>
    BY <1>6 DEF ChatReadsAccounts, ChatReadsDay, ChatReadsTotals
  <2>. QED
    BY <1>2, <1>4, <2>1, <2>2, <2>3 DEF PagesInv
<1>7. CASE EndPage
  <2>1. page' = NoPage /\ UNCHANGED <<vars, askew>>
    BY <1>7 DEF EndPage
  <2>2. PageTyped'
    BY <1>0, <2>1, NoPageFacts DEF PageTyped
  <2>3. PortfolioSoFar' /\ ChatSoFar'
    BY <2>1, NoPageFacts DEF PortfolioSoFar, ChatSoFar
  <2>. QED
    BY <1>2, <1>4, <2>1, <2>2, <2>3 DEF PagesInv
<1>8. CASE UNCHANGED allVars
  <2>1. page' = page /\ UNCHANGED <<vars, askew>>
    BY <1>8 DEF allVars
  <2>2. PageTyped'
    BY <1>0, <2>1 DEF PageTyped
  <2>3. accountBalances' = accountBalances /\ balancesDaily' = balancesDaily
        /\ lastDay' = lastDay
    BY <2>1 DEF vars, tables
  <2>4. PortfolioSoFar' /\ ChatSoFar'
    BY <1>0, <2>1, <2>3 DEF PortfolioSoFar, ChatSoFar
  <2>. QED
    BY <1>2, <1>4, <2>1, <2>2, <2>4 DEF PagesInv
<1>. QED
  BY <1>3, <1>5, <1>6, <1>7, <1>8 DEF PageNext

\* Nothing is stored and nothing read yet.
LEMMA PagesInit == PageInit => PagesInv
<1>. SUFFICES ASSUME PageInit PROVE PagesInv
  OBVIOUS
<1>1. /\ IInv /\ page = NoPage /\ askew = FALSE
      /\ lastDay = NoDay
      /\ accountBalances = [a \in Accounts |-> NoRow]
      /\ balancesDaily = [d \in Days |-> NoRows]
  BY InitInv DEF PageInit, Init, NoTables
<1>2. PageTyped
  BY <1>1, NoPageFacts DEF PageTyped
<1>3. PortfolioSoFar /\ ChatSoFar
  BY <1>1, NoPageFacts DEF PortfolioSoFar, ChatSoFar
<1>4. ValuesOf(accountBalances) = NoRows
  BY <1>1 DEF ValuesOf, NoRows, NoRow
<1>5. LastDayIsHome
  BY <1>1, <1>4, NoRowsNoTotal DEF LastDayIsHome
<1>. QED
  BY <1>1, <1>2, <1>3, <1>5 DEF PagesInv

\* The invariant holds in every reachable state of writers and readers.
THEOREM ReadersInvariance == PageSpec => []PagesInv
<1>. QED
  BY PagesInit, PagesStep, PTL DEF PageSpec

\* The Portfolio page never says that no account is reported beside accounts
\* that just arrived, and never claims to be newer than a provider it lists.
THEOREM PortfolioIsTrue == PageSpec => []PortfolioTrue
<1>1. PagesInv => PortfolioTrue
  BY DEF PagesInv, PortfolioSoFar, PortfolioTrue
<1>. QED
  BY <1>1, ReadersInvariance, PTL

\* The total the chat quotes is one Home would have shown while it was reading.
THEOREM QuotedWasTrue == PageSpec => []QuotedTotalWasTrue
<1>1. PagesInv => QuotedTotalWasTrue
  BY DEF PagesInv, ChatSoFar, QuotedTotalWasTrue
<1>. QED
  BY <1>1, ReadersInvariance, PTL

=============================================================================
