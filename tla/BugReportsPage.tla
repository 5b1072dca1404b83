--------------------------- MODULE BugReportsPage ---------------------------
(***************************************************************************)
(* The administrators' list of bug reports: paged and filtered by the      *)
(* server, which learns the total from the first row of the page, and a    *)
(* button that deletes every report.  Reports are numbers, newest last.    *)
(***************************************************************************)
EXTENDS QueryCache, Rows, SequencesExt

CONSTANTS
    None,
    InitialReports, \* reports at first: 1..InitialReports
    MaxReports,     \* bound: reports ever made
    PerPage,        \* PER_PAGE, 20 in the code
    Filters,        \* the sets of reports that a search or a type selects
    MaxElsewhere    \* bound: deletions by another administrator

Reports == 1..MaxReports
All == Reports
Views == Filters \cup {All}

BugReportsAssumption ==
    /\ InitialReports \in 0..MaxReports /\ MaxReports \in Nat
    /\ None \notin Nat \cup [rows: Seq(Nat), total: Nat]
    /\ PerPage \in Nat \ {0} /\ MaxElsewhere \in Nat
    /\ \A F \in Filters : F \subseteq Reports

VARIABLES
    reports,    \* on the server
    newest,     \* the last one made
    cache,      \* filter and page -> entry of the query
    page, filter,
    deleting,   \* deleteAll: "idle", "sent", "done" (deleted)
    deleteError,
    elsewhere,  \* deletions by another administrator
    cleared,    \* the newest report that the last deletion removed
    owed,       \* the same, of the last deletion that the user was told of
    overtaken   \* filter and page -> what of it was read before that deletion

vars == <<reports, newest, cache, page, filter, deleting, deleteError, elsewhere, cleared,
          owed, overtaken>>
historyVars == <<cleared, owed, overtaken>>

MaxPage == IF MaxReports = 0 THEN 1 ELSE (MaxReports + PerPage - 1) \div PerPage
Keys == Views \X (1..MaxPage)
Key == <<filter, page>>

\* GET /api/bugreports: past the end there is no first row, and the total is 0.
Listing(k) ==
    LET matching == Reverse(InOrder(reports \cap k[1]))
        rows == Slice(matching, k[2], PerPage)
    IN [rows |-> rows, total |-> IF rows = <<>> THEN 0 ELSE Len(matching)]

Answers == [rows: Seq(Reports), total: 0..MaxReports]

TypeOK ==
    /\ reports \subseteq 1..newest /\ newest \in Reports \cup {0}
    /\ cache \in [Keys -> EntryOver({None} \cup Answers)]
    /\ page \in 1..MaxPage /\ filter \in Views
    /\ deleting \in {"idle", "sent", "done"} /\ deleteError \in BOOLEAN
    /\ elsewhere \in Nat /\ cleared \in Nat /\ owed \in Nat
    /\ overtaken \in [Keys -> Overtaking]

Init ==
    /\ reports = 1..InitialReports /\ newest = InitialReports
    /\ page = 1 /\ filter = All
    /\ cache = [k \in Keys |-> IF k = <<All, 1>> THEN MountQuery(NoEntry(None), None)
                               ELSE NoEntry(None)]
    /\ deleting = "idle" /\ deleteError = FALSE
    /\ elsewhere = 0 /\ cleared = 0 /\ owed = 0
    /\ overtaken = [k \in Keys |-> "no"]

-----------------------------------------------------------------------------
(* What the page shows.  No rows stand in while a page loads. *)

Data == cache[Key].data
Rows == IF Data = None THEN <<>> ELSE Data.rows
TotalPages == IF Data = None THEN 0 ELSE (Data.total + PerPage - 1) \div PerPage

PagerShown == TotalPages > 1
Loading == Data = None /\ ~cache[Key].error

\* "No bug reports."
SaysNoReports == Data # None /\ Rows = <<>>

Show(f, p) ==
    /\ filter' = f /\ page' = p
    /\ cache' = [cache EXCEPT ![<<f, p>>] = MountQuery(@, None)]
    /\ UNCHANGED <<reports, newest, deleting, deleteError, elsewhere, historyVars>>

-----------------------------------------------------------------------------
(* Filters and pages *)

\* Regression: another filter keeps the page.
FilterKeepsPage(f) == f # filter /\ Show(f, page)

\* handleSearch, handleType
SetFilter(f) == f # filter /\ Show(f, 1)

Previous == PagerShown /\ page > 1 /\ Show(filter, page - 1)

NextPage == PagerShown /\ page < TotalPages /\ Show(filter, page + 1)

-----------------------------------------------------------------------------
(* The query *)

FetchBugReports(k) ==
    /\ cache[k].fetch = "sent"
    /\ cache' = [cache EXCEPT ![k] = Read(@, Listing(k))]
    /\ UNCHANGED <<reports, newest, page, filter, deleting, deleteError, elsewhere, historyVars>>

FetchEnds(k) ==
    /\ \/ /\ cache[k].fetch = "read" /\ cache' = [cache EXCEPT ![k] = Arrive(@, None)]
          /\ overtaken' = [overtaken EXCEPT ![k] = OvertakenOnArrive(@)]
       \/ /\ ~Idle(cache[k]) /\ cache' = [cache EXCEPT ![k] = Fail(@, None)]
          /\ overtaken' = [overtaken EXCEPT ![k] = OvertakenOnFail(@)]
    /\ UNCHANGED <<reports, newest, page, filter, deleting, deleteError, elsewhere,
                   cleared, owed>>

\* A new report, or somebody else's deletion; the window is focused after it.
Focused == cache' = [cache EXCEPT ![Key] = Start(@, None)]

CreateBugReport ==
    /\ newest < MaxReports
    /\ newest' = newest + 1
    /\ reports' = reports \cup {newest'}
    /\ Focused
    /\ UNCHANGED <<page, filter, deleting, deleteError, elsewhere, historyVars>>

DeletedElsewhere ==
    /\ elsewhere < MaxElsewhere
    /\ elsewhere' = elsewhere + 1
    /\ reports' = {}
    /\ Focused
    /\ UNCHANGED <<newest, page, filter, deleting, deleteError, historyVars>>

-----------------------------------------------------------------------------
(* deleteAll *)

\* The button waits for rows, of this page and this filter.
DeleteAll ==
    /\ deleting = "idle" /\ Rows # <<>>
    /\ deleting' = "sent" /\ deleteError' = FALSE
    /\ UNCHANGED <<reports, newest, cache, page, filter, elsewhere, historyVars>>

DeleteAllBugReports ==
    /\ deleting = "sent"
    /\ reports' = {}
    /\ deleting' = "done"
    /\ cleared' = newest
    /\ UNCHANGED <<newest, cache, page, filter, deleteError, elsewhere, owed, overtaken>>

\* Every list is stale, the one on the screen is fetched; then page 1 is shown.
\* From here on every list owes the user the deletion.
Deleted ==
    /\ deleting = "done"
    /\ deleting' = "idle"
    /\ page' = 1
    /\ LET stale == [k \in Keys |-> Invalidate(cache[k], k = Key, None)]
       IN cache' = [stale EXCEPT ![<<filter, 1>>] = MountQuery(@, None)]
    /\ owed' = cleared
    /\ overtaken' =
          [k \in Keys |->
              OvertakenOnInvalidate(overtaken[k], cache[k], k = Key,
                                    \E i \in DOMAIN cache[k].got.rows :
                                        cache[k].got.rows[i] <= owed', None)]
    /\ UNCHANGED <<reports, newest, filter, deleteError, elsewhere, cleared>>

DeleteFails ==
    /\ deleting # "idle"
    /\ deleting' = "idle" /\ deleteError' = TRUE
    /\ UNCHANGED <<reports, newest, cache, page, filter, elsewhere, historyVars>>

Next ==
    \/ \E f \in Views : SetFilter(f)
    \/ Previous \/ NextPage
    \/ \E k \in Keys : FetchBugReports(k) \/ FetchEnds(k)
    \/ CreateBugReport \/ DeletedElsewhere
    \/ DeleteAll \/ DeleteAllBugReports \/ Deleted \/ DeleteFails

Spec == Init /\ [][Next]_vars

-----------------------------------------------------------------------------
(* Properties *)

\* Nobody gets past the last page, unless reports were deleted under the page.
WithinPages ==
    page > 1 /\ cleared = 0 /\ elsewhere = 0 /\ Data # None => Rows # <<>>

\* A list at rest shows only reports made after the deletion that the user was
\* told of, whatever was filtered, paged, fetched or reported since, unless it
\* could not be fetched again or its answer was overtaken by the deletion.
DeletedAreGone ==
    /\ Idle(cache[Key]) /\ ~cache[Key].error /\ overtaken[Key] # "data"
           => \A i \in DOMAIN Rows : Rows[i] > owed
    /\ \A k \in Keys : cache[k].fetch = "read" /\ overtaken[k] # "answer"
           => \A i \in DOMAIN cache[k].got.rows : cache[k].got.rows[i] > owed

-----------------------------------------------------------------------------
(* Known not to hold; see the README *)

\* A list at rest shows no report that the user was told is deleted.
DeletedNeverShown ==
    Idle(cache[Key]) /\ ~cache[Key].error => \A i \in DOMAIN Rows : Rows[i] > owed

\* "No bug reports." is said when none match: an answer that the server would
\* give again, up to date as it is, does not claim it of a page past the end.
NoReportsMeansNone ==
    SaysNoReports /\ Data = Listing(Key) => reports \cap filter = {}
=============================================================================
