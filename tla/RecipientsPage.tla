--------------------------- MODULE RecipientsPage ---------------------------
(***************************************************************************)
(* The recipients page: a paged list with a search box, a delete button    *)
(* per row that asks for confirmation, and a dialog that adds a recipient. *)
(* Recipients are numbers in the order the server lists them.              *)
(***************************************************************************)
EXTENDS QueryCache, Rows, SequencesExt

CONSTANTS
    None,
    InitiallySaved, \* the user's recipients
    Fresh,          \* the ones that can be added
    PerPage,        \* 20 in the code
    Searches        \* the sets of recipients that a search text can match

RecipientsAssumption ==
    /\ InitiallySaved \cup Fresh \subseteq Nat
    /\ IsFiniteSet(InitiallySaved \cup Fresh)
    /\ None \notin Nat \cup [rows: Seq(Nat), total: Nat]
    /\ PerPage \in Nat \ {0}

Recipients == InitiallySaved \cup Fresh

VARIABLES
    saved,      \* the rows on the server
    cache,      \* page number -> entry of the recipients query
    page,       \* the page of the URL
    last,       \* the page shown last, whose rows fill in while this one loads
    search,     \* None while the box is empty
    confirming, \* rows whose delete button asks for confirmation
    deletes,    \* row -> "idle", "sent", "done" (deleted)
    create,     \* the dialog: "closed", "open", "sent", "done" (saved)
    asked,      \* rows on the screen whose own delete button was pressed, and whose
                \* question is still open
    gone,       \* rows whose deletion the user was told of
    overtaken   \* page number -> what of it was read before such a deletion

vars == <<saved, cache, page, last, search, confirming, deletes, create,
          asked, gone, overtaken>>
serverVars == <<saved, deletes, create>>
pageVars == <<page, last, search>>
buttonVars == <<confirming, asked>>
historyVars == <<gone, overtaken>>

\* total_pages of an answer, and the pages that can be asked for: at least one.
TotalPagesFor(n) == IF n = 0 THEN 1 ELSE (n + PerPage - 1) \div PerPage
Pages == 1..TotalPagesFor(Cardinality(Recipients))

\* GET /api/recipients: one page of the rows, and how many there are.
Listing(S, p) == [rows |-> Slice(InOrder(S), p, PerPage), total |-> Cardinality(S)]

Listings == {Listing(S, p) : S \in SUBSET Recipients, p \in Pages} \cup {None}

TypeOK ==
    /\ saved \subseteq Recipients
    /\ cache \in [Pages -> EntryOver(Listings)]
    /\ page \in Pages /\ last \in Pages \cup {None}
    /\ search \in Searches \cup {None}
    /\ confirming \subseteq Recipients /\ asked \subseteq Recipients
    /\ gone \subseteq Recipients /\ overtaken \in [Pages -> Overtaking]
    /\ deletes \in [Recipients -> {"idle", "sent", "done"}]
    /\ create \in {"closed", "open", "sent", "done"}

Init ==
    /\ saved = InitiallySaved
    /\ cache = [p \in Pages |-> IF p = 1 THEN MountQuery(NoEntry(None), None)
                                ELSE NoEntry(None)]
    /\ page = 1 /\ last = None
    /\ search = None
    /\ confirming = {} /\ asked = {}
    /\ gone = {} /\ overtaken = [p \in Pages |-> "no"]
    /\ deletes = [r \in Recipients |-> "idle"]
    /\ create = "closed"

-----------------------------------------------------------------------------
(* What the page shows *)

Data == Shown(cache, page, last, None)

Rows == IF Data = None THEN <<>> ELSE Data.rows
Matches(r) == search = None \/ r \in search
Displayed == Kept(Rows, {k \in DOMAIN Rows : Matches(Rows[k])})
TotalPages == IF Data = None THEN 1 ELSE TotalPagesFor(Data.total)

\* isLoading: the skeleton rows.
IsLoading == Data = None /\ ~Idle(cache[page])

\* "No recipients yet. Add your first one!"
SaysNoneYet == ~IsLoading /\ Displayed = <<>> /\ search = None

PagerShown == ~IsLoading /\ TotalPages > 1

\* Regression: React keeps the state of a row by its position.
RerenderByIndex ==
    /\ confirming' = {Displayed'[i] :
                        i \in {j \in DOMAIN Displayed : Displayed[j] \in confirming}
                              \cap DOMAIN Displayed'}
    /\ asked' = asked \cap ToSet(Displayed')

\* A row keeps its state as long as it is on the screen: key={r.unid}.
Rerender ==
    LET shown == ToSet(Displayed')
    IN confirming' = confirming \cap shown /\ asked' = asked \cap shown

-----------------------------------------------------------------------------
(* Paging and searching *)

\* Regression: "Next" goes one page further than it should.
GoToPageOneAhead(p) ==
    /\ PagerShown /\ p # page /\ p \in 1..TotalPages
    /\ page' = p + 1
    /\ confirming' = {} /\ asked' = {}
    /\ UNCHANGED <<serverVars, cache, last, search, historyVars>>

GoToPage(p) ==
    /\ PagerShown /\ p # page /\ p \in 1..TotalPages
    /\ last' = LastShown(cache, page, last, None)
    /\ page' = p
    /\ cache' = [cache EXCEPT ![p] = MountQuery(@, None)]
    /\ UNCHANGED <<serverVars, search, historyVars>>
    /\ Rerender

Search(s) ==
    /\ search' = s
    /\ UNCHANGED <<serverVars, cache, page, last, historyVars>>
    /\ Rerender

ListRecipients(p) ==
    /\ cache[p].fetch = "sent"
    /\ cache' = [cache EXCEPT ![p] = Read(@, Listing(saved, p))]
    /\ UNCHANGED <<serverVars, pageVars, buttonVars, historyVars>>

FetchEnds(p) ==
    /\ \/ /\ cache[p].fetch = "read" /\ cache' = [cache EXCEPT ![p] = Arrive(@, None)]
          /\ overtaken' = [overtaken EXCEPT ![p] = OvertakenOnArrive(@)]
       \/ /\ ~Idle(cache[p]) /\ cache' = [cache EXCEPT ![p] = Fail(@, None)]
          /\ overtaken' = [overtaken EXCEPT ![p] = OvertakenOnFail(@)]
    /\ UNCHANGED <<serverVars, pageVars, gone>>
    /\ Rerender

\* onSuccess of both hooks: every page is stale, the one on the screen is
\* fetched again.  An answer that goes on may bring rows that the user was told
\* are gone.
InvalidateRecipients(told) ==
    /\ cache' = [p \in Pages |-> Invalidate(cache[p], p = page, None)]
    /\ overtaken' =
          [p \in Pages |->
              OvertakenOnInvalidate(overtaken[p], cache[p], p = page,
                                    told \cap ToSet(cache[p].got.rows) # {}, None)]

-----------------------------------------------------------------------------
(* DeleteButton *)

AskToDelete(r) ==
    /\ r \in ToSet(Displayed) \ confirming
    /\ confirming' = confirming \cup {r} /\ asked' = asked \cup {r}
    /\ UNCHANGED <<serverVars, cache, pageVars, historyVars>>

CloseQuestion(r) == confirming' = confirming \ {r} /\ asked' = asked \ {r}

\* "Cancel" is there while the request is in flight, too; it recalls nothing.
CancelDelete(r) ==
    /\ r \in confirming
    /\ CloseQuestion(r)
    /\ UNCHANGED <<serverVars, cache, pageVars, historyVars>>

\* A second request for the row, from a button mounted since, deletes nothing.
HandleDelete(r) ==
    /\ r \in confirming /\ deletes[r] = "idle"
    /\ deletes' = [deletes EXCEPT ![r] = "sent"]
    /\ asked' = asked \ {r}
    /\ UNCHANGED <<saved, create, cache, pageVars, confirming, historyVars>>

DeleteRecipient(r) ==
    /\ deletes[r] = "sent"
    /\ saved' = saved \ {r}
    /\ deletes' = [deletes EXCEPT ![r] = "done"]
    /\ UNCHANGED <<create, cache, pageVars, buttonVars, historyVars>>

\* Regression: useDeleteRecipient leaves the list alone.
DeletedUnrefreshed(r) ==
    /\ deletes[r] = "done"
    /\ deletes' = [deletes EXCEPT ![r] = "idle"]
    /\ CloseQuestion(r)
    /\ gone' = gone \cup {r}
    /\ UNCHANGED <<saved, create, cache, pageVars, overtaken>>

Deleted(r) ==
    /\ deletes[r] = "done"
    /\ deletes' = [deletes EXCEPT ![r] = "idle"]
    /\ CloseQuestion(r)
    /\ gone' = gone \cup {r}
    /\ InvalidateRecipients(gone')
    /\ UNCHANGED <<saved, create, pageVars>>

\* A refusal, or no answer: the row may be gone all the same.
DeleteFails(r) ==
    /\ deletes[r] # "idle"
    /\ deletes' = [deletes EXCEPT ![r] = "idle"]
    /\ CloseQuestion(r)
    /\ UNCHANGED <<saved, create, cache, pageVars, historyVars>>

-----------------------------------------------------------------------------
(* CreateRecipientModal.  "sent" and "done" stand for a dialog that is closed *)
(* meanwhile, too; bounds: it is opened again when its request is over, and   *)
(* only as long as the instance has a recipient left to add.                  *)

OpenCreate ==
    /\ create = "closed" /\ ~(Fresh \subseteq saved \cup gone)
    /\ create' = "open"
    /\ UNCHANGED <<saved, deletes, cache, pageVars, buttonVars, historyVars>>

CloseCreate ==
    /\ create = "open"
    /\ create' = "closed"
    /\ UNCHANGED <<saved, deletes, cache, pageVars, buttonVars, historyVars>>

SubmitCreate ==
    /\ create = "open"
    /\ create' = "sent"
    /\ UNCHANGED <<saved, deletes, cache, pageVars, buttonVars, historyVars>>

\* The server gives an identifier once: no answer knows the one it gives.
CreateRecipient(r) ==
    /\ create = "sent" /\ r \in Fresh \ saved
    /\ deletes[r] = "idle" /\ r \notin gone
    /\ \A p \in Pages : \A e \in {cache[p].data, cache[p].got} :
          e # None => r \notin ToSet(e.rows)
    /\ saved' = saved \cup {r}
    /\ create' = "done"
    /\ UNCHANGED <<deletes, cache, pageVars, buttonVars, historyVars>>

Created ==
    /\ create = "done"
    /\ InvalidateRecipients({})
    /\ create' = "closed"
    /\ UNCHANGED <<saved, deletes, pageVars, buttonVars, gone>>

\* An error leaves the dialog open with what was typed, unless it was closed.
CreateFails ==
    /\ create \in {"sent", "done"}
    /\ create' \in {"open", "closed"}
    /\ UNCHANGED <<saved, deletes, cache, pageVars, buttonVars, historyVars>>

Next ==
    \/ \E p \in Pages : GoToPage(p) \/ ListRecipients(p) \/ FetchEnds(p)
    \/ \E s \in Searches \cup {None} : Search(s)
    \/ \E r \in Recipients :
           \/ AskToDelete(r) \/ CancelDelete(r) \/ HandleDelete(r)
           \/ DeleteRecipient(r) \/ Deleted(r) \/ DeleteFails(r) \/ CreateRecipient(r)
    \/ OpenCreate \/ CloseCreate \/ SubmitCreate \/ Created \/ CreateFails

Spec == Init /\ [][Next]_vars

-----------------------------------------------------------------------------
(* Properties *)

\* Rows move up, down and away while questions are open; still a deletion is only
\* sent for a row whose own button was pressed since it is on the screen, once for
\* each press, and never after "Cancel"; and only such a request removes a row.
OnlyAskedDeleted ==
    [][\A r \in Recipients :
           /\ deletes[r] = "idle" /\ deletes'[r] # "idle" => r \in asked
           /\ r \in saved \ saved' => deletes[r] = "sent"]_vars

\* A list at rest has no row that the user was told is gone, whatever was searched
\* for and paged through since, unless it could not be fetched again or its answer
\* was overtaken: under way when the user was told, and its page was not on the
\* screen or had nothing to show yet.
DeletedIsGone ==
    /\ Idle(cache[page]) /\ ~cache[page].error /\ overtaken[page] # "data"
           => gone \cap ToSet(Rows) = {}
    /\ \A p \in Pages : cache[p].fetch = "read" /\ overtaken[p] # "answer"
                           => gone \cap ToSet(cache[p].got.rows) = {}

-----------------------------------------------------------------------------
(* Known not to hold; see the README *)

\* A list at rest has no row that the user was told is gone.
DeletedNeverShown ==
    Idle(cache[page]) /\ ~cache[page].error => gone \cap ToSet(Rows) = {}

\* "No recipients yet. Add your first one!" is said to a user who has none.
NoneYetMeansNone == SaysNoneYet => saved = {}
=============================================================================
