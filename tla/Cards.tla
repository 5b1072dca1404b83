------------------------------- MODULE Cards -------------------------------
(***************************************************************************)
(* What the cards of the dashboard, the analytics, the wallets and the     *)
(* administrators' pages say of a query: that it is loading, has failed,   *)
(* has no rows, or has these rows.  A chart's query is keyed by a range.   *)
(* Some hooks look at r.ok, others take the body of a refusal for rows.    *)
(***************************************************************************)
EXTENDS QueryCache, Integers

CONSTANTS
    NoData,
    Ranges,         \* the keys that the calendar can pick
    FirstRange,     \* the one that is set when the page opens
    MaxChanges      \* bound: rows changed, expired, focuses, picks and
                    \* losses of the network together

CardsAssumption ==
    /\ FirstRange \in Ranges /\ MaxChanges \in Nat
    /\ NoData \notin [of: Ranges, rows: {"none", "some", "refusal"}]

VARIABLES
    rows,       \* on the server: range -> "none" or "some"
    cache,      \* range -> entry; an answer says which range it is of
    onScreen,   \* the page with the cards is shown
    range,      \* dateRange of the page
    last,       \* the range whose data the hook showed last
    dialog,     \* the dialog that the page has opened
    checks,     \* the hook behind the cards looks at r.ok
    online,     \* what the browser says of the network
    paused,     \* the ranges whose fetch waits for the network
    changes

pageVars == <<onScreen, range, last, dialog>>
netVars == <<online, paused>>
vars == <<rows, cache, pageVars, checks, netVars, changes>>

Dialogs == {"none", "send", "send_again", "statements", "deposit"}
Answers == [of: Ranges, rows: {"none", "some", "refusal"}]

TypeOK ==
    /\ rows \in [Ranges -> {"none", "some"}]
    /\ cache \in [Ranges -> EntryOver(Answers \cup {NoData})]
    /\ onScreen \in BOOLEAN
    /\ range \in Ranges /\ last \in Ranges \cup {NoData}
    /\ dialog \in Dialogs
    /\ checks \in BOOLEAN /\ online \in BOOLEAN /\ paused \subseteq Ranges
    /\ changes \in Nat

Init ==
    /\ rows \in [Ranges -> {"none", "some"}]
    /\ cache = [r \in Ranges |-> NoEntry(NoData)]
    /\ onScreen = FALSE
    /\ range = FirstRange /\ last = NoData
    /\ dialog = "none"
    /\ checks \in BOOLEAN /\ online = TRUE /\ paused = {}
    /\ changes = 0

-----------------------------------------------------------------------------
(* What useQuery returns: without, and with placeholderData                *)

ResultOver(data) ==
    [data |-> data, isError |-> cache[range].error,
     isPending |-> data = NoData /\ ~cache[range].error,
     isFetching |-> ~Idle(cache[range]) /\ range \notin paused]

Result == ResultOver(cache[range].data)
KeptResult == ResultOver(Shown(cache, range, last, NoData))

IsLoading(q) == q.isPending /\ q.isFetching

\* !(data ?? []).length: the body of a refusal has no length either.
HasNone(q) == q.data = NoData \/ q.data.rows \in {"none", "refusal"}

-----------------------------------------------------------------------------
(* The cards *)

\* The order of the checks in the cards that have an empty state.
ErrorCardFirst(q) ==
    CASE q.isError -> "error"
      [] ~q.isError /\ q.isPending -> "skeleton"
      [] OTHER -> IF HasNone(q) THEN "empty" ELSE "rows"

RecentTransactions == ErrorCardFirst(Result)
RecentActivity == ErrorCardFirst(Result)
SavingsSection == ErrorCardFirst(Result)
StatisticsDonut == ErrorCardFirst(Result)
CategoryPieChart == ErrorCardFirst(Result)
MonthlySpendChart == ErrorCardFirst(KeptResult)
BalanceChart == ErrorCardFirst(KeptResult)

\* Regression: a skeleton whenever there is no data, even after an error.
StatCardsWithoutError == IF Result.data = NoData THEN "skeleton" ELSE "rows"

\* Without an empty state.  A refusal is no array: map throws, and the error
\* page of the root route takes the place of the dashboard.
StatCards ==
    CASE Result.isError -> "error"
      [] ~Result.isError /\ Result.isPending -> "skeleton"
      [] OTHER -> IF Result.data.rows = "refusal" THEN "broken" ELSE "rows"

WalletCard ==
    CASE Result.isError -> "error"
      [] ~Result.isError /\ Result.isPending -> "skeleton"
      [] OTHER -> IF HasNone(Result) THEN "blank" ELSE "rows"

MoneyFlowChart ==
    CASE KeptResult.isError -> "error"
      [] ~KeptResult.isError /\ KeptResult.isPending -> "skeleton"
      [] OTHER -> IF KeptResult.isFetching THEN "dimmed" ELSE "rows"

\* data: accounts = []: a query that failed, or waits for the network, looks
\* like one without accounts.
CardLists ==
    IF IsLoading(Result) THEN "skeleton" ELSE IF HasNone(Result) THEN "empty" ELSE "rows"
CurrencyTable == CardLists

\* The figures of the last 30 days: there, or a skeleton.
StatsRow == IF Result.data = NoData THEN "skeleton" ELSE "rows"

\* The list of users has its error above the table, which is then left out.
UsersTable ==
    CASE Result.data = NoData -> IF Result.isError THEN "error" ELSE "skeleton"
      [] OTHER -> IF HasNone(Result) THEN "empty" ELSE "rows"

RootAccessCheck ==
    CASE IsLoading(Result) -> "skeleton"
      [] ~IsLoading(Result) /\ Result.isError -> "error"
      [] OTHER -> IF Result.data = NoData THEN "blank" ELSE "rows"

MyRoles ==
    CASE IsLoading(Result) -> "skeleton"
      [] Result.data # NoData -> IF HasNone(Result) THEN "empty" ELSE "rows"
      [] OTHER -> "blank"

AllRoleGrants == RootAccessCheck

-----------------------------------------------------------------------------
(* The page *)

\* networkMode "online": a fetch that begins (sends) offline is paused.
Fetch(r, e, sends) ==
    /\ cache' = [cache EXCEPT ![r] = e]
    /\ paused' = IF sends /\ ~online THEN paused \cup {r} ELSE paused
    /\ UNCHANGED <<checks, online>>

Mount(r) == Fetch(r, MountQuery(cache[r], NoData), cache[r].stale /\ Idle(cache[r]))

Enter ==
    /\ ~onScreen
    /\ onScreen' = TRUE
    /\ range' = FirstRange
    /\ Mount(FirstRange)
    /\ last' = IF cache[FirstRange].data # NoData THEN FirstRange ELSE NoData
    /\ UNCHANGED <<rows, dialog, changes>>

Leave ==
    /\ onScreen /\ dialog = "none"
    /\ onScreen' = FALSE
    /\ last' = NoData
    /\ UNCHANGED <<rows, cache, range, dialog, checks, netVars, changes>>

\* The calendar calls onSelect with a range, whole or half.
SelectRange(r) ==
    /\ onScreen /\ dialog = "none" /\ r # range /\ changes < MaxChanges
    /\ range' = r
    /\ Mount(r)
    /\ last' = IF cache[r].data # NoData THEN r ELSE last
    /\ changes' = changes + 1
    /\ UNCHANGED <<rows, onScreen, dialog>>

\* The buttons of WalletActions and QuickTransfer, and the quick links.
OpenDialog(d) ==
    /\ onScreen /\ dialog = "none" /\ d # "none"
    /\ d = "send_again" => RecentActivity = "rows"
    /\ dialog' = d
    /\ UNCHANGED <<rows, cache, onScreen, range, last, checks, netVars, changes>>

\* The dialogs' onClose.
CloseDialog ==
    /\ dialog # "none"
    /\ dialog' = "none"
    /\ UNCHANGED <<rows, cache, onScreen, range, last, checks, netVars, changes>>

-----------------------------------------------------------------------------
(* Queries *)

Answer(r) == [of |-> r, rows |-> rows[r]]

ReadRows(r) ==
    /\ cache[r].fetch = "sent" /\ r \notin paused
    /\ cache' = [cache EXCEPT ![r] = Read(@, Answer(r))]
    /\ UNCHANGED <<rows, pageVars, checks, netVars, changes>>

\* Regression: no hook looks at r.ok.
RefuseUnchecked(r) ==
    /\ cache[r].fetch = "sent" /\ r \notin paused
    /\ cache' = [cache EXCEPT ![r] = Read(@, [of |-> r, rows |-> "refusal"])]
    /\ UNCHANGED <<rows, pageVars, checks, netVars, changes>>

\* The request is refused, with a body that can be parsed.  A hook that looks
\* at r.ok throws instead, as all do when there is no such body: FailRows.
RefuseRows(r) ==
    /\ cache[r].fetch = "sent" /\ r \notin paused
    /\ ~checks
    /\ cache' = [cache EXCEPT ![r] = Read(@, [of |-> r, rows |-> "refusal"])]
    /\ UNCHANGED <<rows, pageVars, checks, netVars, changes>>

ArriveRows(r) ==
    /\ cache[r].fetch = "read"
    /\ cache' = [cache EXCEPT ![r] = Arrive(@, NoData)]
    /\ last' = IF onScreen /\ r = range THEN r ELSE last
    /\ UNCHANGED <<rows, onScreen, range, dialog, checks, netVars, changes>>

\* The last attempt fails.
FailRows(r) ==
    /\ ~Idle(cache[r]) /\ r \notin paused
    /\ cache' = [cache EXCEPT ![r] = Fail(@, NoData)]
    /\ UNCHANGED <<rows, pageVars, checks, netVars, changes>>

Ends(r) == ArriveRows(r) \/ FailRows(r)

\* "Retry" of the error card: refetch, which drops a fetch in flight if there
\* is data.
Retry ==
    /\ onScreen /\ Result.isError
    /\ IF Result.data = NoData
       THEN Fetch(range, Start(cache[range], NoData), Idle(cache[range]))
       ELSE Fetch(range, Restart(cache[range], NoData), TRUE)
    /\ UNCHANGED <<rows, pageVars, changes>>

Focus ==
    /\ onScreen /\ changes < MaxChanges
    /\ Fetch(range, Start(cache[range], NoData), Idle(cache[range]))
    /\ changes' = changes + 1
    /\ UNCHANGED <<rows, pageVars>>

\* staleTime passes.
Expire(r) ==
    /\ ~cache[r].stale /\ changes < MaxChanges
    /\ cache' = [cache EXCEPT ![r].stale = TRUE]
    /\ changes' = changes + 1
    /\ UNCHANGED <<rows, pageVars, checks, netVars>>

\* Another page, or another browser, adds the first row or deletes the last.
RowsChange(r) ==
    /\ changes < MaxChanges
    /\ rows' = [rows EXCEPT ![r] = IF @ = "none" THEN "some" ELSE "none"]
    /\ changes' = changes + 1
    /\ UNCHANGED <<cache, pageVars, checks, netVars>>

-----------------------------------------------------------------------------
(* The network *)

GoOffline ==
    /\ online /\ changes < MaxChanges
    /\ online' = FALSE
    /\ changes' = changes + 1
    /\ UNCHANGED <<rows, cache, pageVars, checks, paused>>

\* An attempt fails offline: the next one waits for the network.  A query that
\* no component uses any more is not tried again, and fails.
Pause ==
    /\ onScreen /\ ~online /\ ~Idle(cache[range]) /\ range \notin paused
    /\ cache' = [cache EXCEPT ![range].fetch = "sent", ![range].got = NoData]
    /\ paused' = paused \cup {range}
    /\ UNCHANGED <<rows, pageVars, checks, online, changes>>

\* Paused fetches go on, and refetchOnReconnect fetches what is stale.
GoOnline ==
    /\ ~online
    /\ online' = TRUE /\ paused' = {}
    /\ cache' = IF onScreen THEN [cache EXCEPT ![range] = MountQuery(@, NoData)]
                            ELSE cache
    /\ UNCHANGED <<rows, pageVars, checks, changes>>

Next ==
    \/ Enter \/ Leave \/ CloseDialog \/ Retry \/ Focus
    \/ GoOffline \/ Pause \/ GoOnline
    \/ \E d \in Dialogs : OpenDialog(d)
    \/ \E r \in Ranges : \/ SelectRange(r) \/ ReadRows(r) \/ RefuseRows(r) \/ Ends(r)
                         \/ Expire(r) \/ RowsChange(r)

Spec == Init /\ [][Next]_vars

\* The server answers, or the browser gives the request up.
FairSpec ==
    Spec /\ \A r \in Ranges : WF_vars(ReadRows(r)) /\ WF_vars(Ends(r))

-----------------------------------------------------------------------------
(* Properties *)

Charts == {MoneyFlowChart, MonthlySpendChart, BalanceChart}

AnsweredNone(r) == cache[r].data = [of |-> r, rows |-> "none"]

\* A card whose hook looks at r.ok says that there is nothing only because the
\* server said so for what it shows: neither a failure, a refusal nor a fetch
\* that is under way or waits for the network is taken for an empty list.  Two
\* charts say it of the range in the calendar once nothing is fetched for it.
EmptyIsAnswered ==
    checks /\ onScreen =>
        /\ "empty" \in {RecentActivity, CategoryPieChart, UsersTable, MyRoles}
               => AnsweredNone(range)
        /\ Idle(cache[range]) /\ "empty" \in Charts => AnsweredNone(range)

\* The money flow that is drawn in full colour is that of the range in the
\* label above it, unless its fetch waits for the network; the charts that dim
\* nothing are of their range once nothing is fetched for it.
UndimmedIsOfRange ==
    onScreen =>
        /\ MoneyFlowChart = "rows" /\ range \notin paused => KeptResult.data.of = range
        /\ Idle(cache[range]) /\ "rows" \in Charts => KeptResult.data.of = range

\* A skeleton gives way to rows, an empty state or an error, or the network is
\* lost: a fetch that waits for it keeps its skeleton.
SkeletonEnds ==
    onScreen /\ "skeleton" \in {StatCards, RecentTransactions, MoneyFlowChart, WalletCard}
        ~> \/ ~onScreen \/ ~online
           \/ "skeleton" \notin {StatCards, RecentTransactions, MoneyFlowChart, WalletCard}

-----------------------------------------------------------------------------
(* Known not to hold; see the README *)

\* "No transactions yet", "No savings goals yet" and "No spending data yet" are
\* said of a user who has none.
NothingYetIsAnswered ==
    onScreen /\ "empty" \in {RecentTransactions, SavingsSection, StatisticsDonut}
        => AnsweredNone(range)

\* What the money flow draws in full colour is always of the range in its label.
FullColourIsOfRange == onScreen /\ MoneyFlowChart = "rows" => KeptResult.data.of = range

\* "No transactions in this period." is said of the period in the calendar.
EmptyPeriodIsAnswered ==
    onScreen /\ "empty" \in {MonthlySpendChart, BalanceChart} => AnsweredNone(range)

\* "No cards yet" and "No currencies" are said of a user who has no account.
NoCardsMeansNone == onScreen /\ CardLists = "empty" => AnsweredNone(range)
=============================================================================
