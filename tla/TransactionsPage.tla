-------------------------- MODULE TransactionsPage --------------------------
(***************************************************************************)
(* The transactions page: a paged list that new transactions enter at the  *)
(* top, a search box that filters the rows of one page, and a panel.       *)
(* Transactions are numbers; the newest has the largest.                   *)
(***************************************************************************)
EXTENDS QueryCache, Rows

CONSTANTS
    None,
    InitialTotal,   \* transactions of the user at first
    MaxTotal,       \* bound: transactions of the user
    PerPage,        \* 20 in the code
    Searches,       \* sets of transactions that a search text can match
    MaxFocus        \* bound: times the window is focused

TransactionsAssumption ==
    /\ InitialTotal \in 0..MaxTotal /\ MaxTotal \in Nat
    /\ None \notin Nat \cup [of: Nat, total: Nat, rows: Seq(Int)]
    /\ PerPage \in Nat \ {0} /\ MaxFocus \in Nat

VARIABLES
    total,      \* transactions of the user on the server
    cache,      \* page -> entry of the transactions query
    page, last, \* the page of the URL, and the one shown before
    search,     \* None while the box is empty
    selected,   \* the row in the panel
    focuses

vars == <<total, cache, page, last, search, selected, focuses>>
viewVars == <<page, last, search, selected>>

Transactions == 1..MaxTotal
TotalPagesFor(n) == IF n = 0 THEN 1 ELSE (n + PerPage - 1) \div PerPage
Pages == 1..TotalPagesFor(MaxTotal)
SmallerOf(a, b) == IF a < b THEN a ELSE b

\* GET /api/transactions: a page of the rows, newest first, and their number.
\* (Both are read at once here; the server reads them on two connections.)
Listing(p) ==
    LET skipped == (p - 1) * PerPage
    IN [of |-> p, total |-> total,
        rows |-> [k \in 1..SmallerOf(PerPage, total - skipped) |-> total - skipped - k + 1]]

Answers == [of: Pages, total: 0..MaxTotal, rows: Seq(Transactions)]

TypeOK ==
    /\ total \in 0..MaxTotal
    /\ cache \in [Pages -> EntryOver({None} \cup Answers)]
    /\ page \in Pages /\ last \in Pages \cup {None}
    /\ search \in Searches \cup {None}
    /\ selected \in Transactions \cup {None}
    /\ focuses \in Nat

Init ==
    /\ total = InitialTotal
    /\ cache = [p \in Pages |-> IF p = 1 THEN MountQuery(NoEntry(None), None)
                                ELSE NoEntry(None)]
    /\ page = 1 /\ last = None /\ search = None /\ selected = None
    /\ focuses = 0

-----------------------------------------------------------------------------
(* What the page shows *)

Data == Shown(cache, page, last, None)
Rows == IF Data = None THEN <<>> ELSE Data.rows
Matches(t) == search = None \/ t \in search
Filtered == Kept(Rows, {k \in DOMAIN Rows : Matches(Rows[k])})
TotalPages == IF Data = None THEN 1 ELSE TotalPagesFor(Data.total)

IsFetching == ~Idle(cache[page])
IsLoading == Data = None /\ IsFetching

PagerShown == ~IsLoading /\ TotalPages > 1

\* Regression: the pager does not say "Loading..." in place of its label.
LabelAlways == PagerShown

\* "Page <page> of <n>"
PageLabelShown == PagerShown /\ ~IsFetching

SelectedIndex ==
    IF ~\E k \in DOMAIN Filtered : Filtered[k] = selected THEN 0
    ELSE CHOOSE k \in DOMAIN Filtered : Filtered[k] = selected

-----------------------------------------------------------------------------
(* What the user does *)

GoToPage(p) ==
    /\ PagerShown /\ p # page /\ p \in 1..TotalPages
    /\ page' = p /\ last' = LastShown(cache, page, last, None)
    /\ selected' = None
    /\ cache' = [cache EXCEPT ![p] = MountQuery(@, None)]
    /\ UNCHANGED <<total, search, focuses>>

SetSearch(s) ==
    /\ search' = s
    /\ UNCHANGED <<total, cache, page, last, selected, focuses>>

Select(t) ==
    /\ selected' = t
    /\ UNCHANGED <<total, cache, page, last, search, focuses>>

SelectRow(k) == k \in DOMAIN Filtered /\ Select(Filtered[k])
Close == selected # None /\ Select(None)

\* A transaction that is not among the rows any more has no previous row, but
\* the first row is its next one.
OnPrev == selected # None /\ SelectedIndex > 1 /\ Select(Filtered[SelectedIndex - 1])
OnNext ==
    selected # None /\ SelectedIndex < Len(Filtered) /\ Select(Filtered[SelectedIndex + 1])

-----------------------------------------------------------------------------
(* The query *)

NewTransaction ==
    /\ total < MaxTotal
    /\ total' = total + 1
    /\ UNCHANGED <<cache, viewVars, focuses>>

\* The window is focused, or the user moved money: the page is fetched again
\* and the others are stale.
Refresh ==
    /\ focuses < MaxFocus
    /\ focuses' = focuses + 1
    /\ cache' = [p \in Pages |-> Invalidate(cache[p], p = page, None)]
    /\ UNCHANGED <<total, viewVars>>

FetchTransactions(p) ==
    /\ cache[p].fetch = "sent"
    /\ cache' = [cache EXCEPT ![p] = Read(@, Listing(p))]
    /\ UNCHANGED <<total, viewVars, focuses>>

FetchEnds(p) ==
    /\ \/ cache[p].fetch = "read" /\ cache' = [cache EXCEPT ![p] = Arrive(@, None)]
       \/ ~Idle(cache[p]) /\ cache' = [cache EXCEPT ![p] = Fail(@, None)]
    /\ UNCHANGED <<total, viewVars, focuses>>

Next ==
    \/ \E p \in Pages : GoToPage(p) \/ FetchTransactions(p) \/ FetchEnds(p)
    \/ \E s \in Searches \cup {None} : SetSearch(s)
    \/ \E k \in 1..PerPage : SelectRow(k)
    \/ Close \/ OnPrev \/ OnNext
    \/ NewTransaction \/ Refresh

Spec == Init /\ [][Next]_vars

-----------------------------------------------------------------------------
(* Properties *)

\* When the pager says "Page p of n", the rows are those of page p, although
\* the rows of another page stand in while a page loads.
PageLabelTruthful == PageLabelShown => Data.of = page

-----------------------------------------------------------------------------
(* Known not to hold; see the README *)

\* The search box finds a transaction of the user if one matches.
SearchFindsAll ==
    /\ search # None /\ Data # None /\ ~IsFetching
    /\ search \cap 1..Data.total # {}
    => Filtered # <<>>
=============================================================================
