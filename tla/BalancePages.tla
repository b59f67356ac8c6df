---------------------------- MODULE BalancePages ----------------------------
(***************************************************************************)
(* Two readers of the balance tables, beside the writers of BalanceStore:  *)
(* the Portfolio page, and the balance table that the chat quotes.  Every  *)
(* statement they run sees what is committed when it runs, so what they    *)
(* show is put together from reads with other tasks' commits between them  *)
(* (app/routes/_context.py, app/cache.py, app/chat/balances.py).           *)
(***************************************************************************)
EXTENDS BalanceStore, FiniteSetsExt

CONSTANTS
    PortfolioAccounts, \* accounts in a Portfolio category and in USD
    UsdAccounts        \* accounts in USD

ASSUME PagesAssumption ==
    /\ UsdAccounts \subseteq Accounts
    /\ PortfolioAccounts \subseteq UsdAccounts

VARIABLES
    page,  \* the page or table being read; readers share nothing, so one at a
           \* time is enough
    askew  \* auxiliary: has a write been dated before a day already written, or
           \* taken away the last account in USD?

allVars == <<vars, page, askew>>

NoTime  == -1
NoTotal == -1
Raised  == -2

Stored(balances) == {a \in Accounts : balances[a].value # NoValue}
ValuesOf(balances) == [a \in Accounts |-> balances[a].value]

\* The total of the accounts in USD that have a value, or none.
Total(values) ==
    LET usd == {a \in UsdAccounts : values[a] # NoValue}
    IN IF usd = {} THEN NoTotal ELSE MapThenSumSet(LAMBDA a : values[a], usd)

\* balances_summary: the total that Home and Finances show.
HomeTotal(balances) == Total(ValuesOf(balances))

NoTimes == [p \in Providers |-> 0]
TimesDelivered == [p \in Providers |-> delivered[p].fetched]

\* What a reader has read so far.  Auxiliary: "present", were there rows when
\* the list was read, and "sent", the time of each provider's delivery then;
\* "seen", what Home would have shown since the first read.
NoPage == [kind |-> "none", reads |-> 0,
           delivered |-> FALSE, accounts |-> {}, updated |-> NoTime,
           present |-> FALSE, sent |-> NoTimes,
           values |-> NoRows, day |-> NoDay, quoted |-> NoTotal, seen |-> {}]

PageInit == Init /\ page = NoPage /\ askew = FALSE

-----------------------------------------------------------------------------
(***************************************************************************)
(* The Portfolio page.                                                     *)
(***************************************************************************)
HasBalances(balances) == Stored(balances) # {}
ListedAccounts(balances) == Stored(balances) \cap PortfolioAccounts

\* The least recent of the listed accounts' times.
Updated(balances) ==
    IF ListedAccounts(balances) = {} THEN NoTime
    ELSE Min({balances[a].fetched : a \in ListedAccounts(balances)})

\* Mutated form: the list is read before has_balances.
ListFirst == <<"list", "delivered">>

\* The order of portfolio_accounts' reads.
ReadOrder == <<"delivered", "list">>

\* portfolio_accounts: one of its reads, each on its own connection.
PortfolioRead ==
    /\ up
    /\ page.kind = "none" \/ (page.kind = "portfolio" /\ page.reads < 2)
    /\ page' =
         IF ReadOrder[page.reads + 1] = "delivered"
         THEN [page EXCEPT !.kind = "portfolio", !.reads = @ + 1,
                           !.delivered = HasBalances(accountBalances)]
         ELSE [page EXCEPT !.kind = "portfolio", !.reads = @ + 1,
                           !.accounts = ListedAccounts(accountBalances),
                           !.updated = Updated(accountBalances),
                           !.present = HasBalances(accountBalances),
                           !.sent = TimesDelivered]
    /\ UNCHANGED <<vars, askew>>

-----------------------------------------------------------------------------
(***************************************************************************)
(* The chat's balance table: one connection, three statements, and no      *)
(* transaction around them.                                                *)
(***************************************************************************)

\* _accounts
ChatReadsAccounts ==
    /\ up
    /\ page.kind = "none"
    /\ page' = [NoPage EXCEPT !.kind = "chat", !.reads = 1,
                              !.values = ValuesOf(accountBalances),
                              !.seen = {HomeTotal(accountBalances)}]
    /\ UNCHANGED <<vars, askew>>

DaysWithTotal == {d \in Days : Total(balancesDaily[d]) # NoTotal}

\* Mutated form: MIN(date).
FirstDay == IF DaysWithTotal = {} THEN NoDay ELSE Min(DaysWithTotal)

\* MAX(date) of the rows in USD.
LatestDay == IF DaysWithTotal = {} THEN NoDay ELSE Max(DaysWithTotal)

\* _daily_totals, first statement.  Without a day the totals are those of the
\* accounts that were read (_totals_from_accounts).
ChatReadsDay ==
    /\ up
    /\ page.kind = "chat" /\ page.reads = 1
    /\ page' = IF LatestDay = NoDay
               THEN [page EXCEPT !.reads = 3, !.quoted = Total(page.values)]
               ELSE [page EXCEPT !.reads = 2, !.day = LatestDay]
    /\ UNCHANGED <<vars, askew>>

\* _daily_totals, second statement; the min() of no row raises.
ChatReadsTotals ==
    /\ up
    /\ page.kind = "chat" /\ page.reads = 2
    /\ page' = [page EXCEPT !.reads = 3,
                            !.quoted = IF Total(balancesDaily[page.day]) = NoTotal
                                       THEN Raised ELSE Total(balancesDaily[page.day])]
    /\ UNCHANGED <<vars, askew>>

-----------------------------------------------------------------------------
\* What was read has been used, or was lost with the process.
EndPage ==
    /\ page.kind # "none"
    /\ ~up \/ page.reads = IF page.kind = "chat" THEN 3 ELSE 2
    /\ page' = NoPage
    /\ UNCHANGED <<vars, askew>>

\* A step of the writers, as a reader that goes on meets it.
Beside ==
    /\ Next
    /\ page' = IF page.kind = "chat" /\ page.reads < 3
               THEN [page EXCEPT !.seen = @ \cup {HomeTotal(accountBalances')}]
               ELSE page
    /\ askew' = \/ askew
                \/ lastDay' < lastDay
                \/ /\ HomeTotal(accountBalances') = NoTotal
                   /\ HomeTotal(accountBalances) # NoTotal

PageNext ==
    \/ Beside
    \/ PortfolioRead
    \/ ChatReadsAccounts \/ ChatReadsDay \/ ChatReadsTotals
    \/ EndPage

PageSpec == PageInit /\ [][PageNext]_allVars

\* The writers' fairness; nothing is assumed of the readers.
FairPageSpec == PageSpec /\ Fairness

-----------------------------------------------------------------------------
\* The Portfolio page says that no account is reported only when there were
\* rows of other accounts at the moment it read an empty list, never beside
\* accounts that just arrived; and the time it shows is no newer than what was
\* then the last delivery of any provider it lists, so one that has gone silent
\* ages the whole list (portfolio_accounts).
PortfolioTrue ==
    (page.kind = "portfolio" /\ page.reads = 2) =>
        /\ (page.delivered /\ page.accounts = {}) => page.present
        /\ \A a \in page.accounts : page.updated <= page.sent[ProviderOf[a]]

\* The total that the chat quotes is one that Home would have shown at some
\* moment while the chat was reading: deliveries, the snapshot job and midnight
\* between its three statements never make it the total of no moment.  It can be
\* only where a write was dated before a day already written, or the last account
\* in USD went away (read_balance_table: "the two agree").
QuotedTotalWasTrue ==
    (page.kind = "chat" /\ page.reads = 3 /\ ~askew) => page.quoted \in page.seen
=============================================================================
