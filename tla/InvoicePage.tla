----------------------------- MODULE InvoicePage -----------------------------
(***************************************************************************)
(* The invoices page: a paged list and a panel that shows a copy of one    *)
(* row and advances or pays the invoice.  The panel has no key: Previous,  *)
(* Next and a click on another row give the same panel another invoice, so *)
(* that its pay form, its account and its requests live on.                *)
(***************************************************************************)
EXTENDS QueryCache, Rows, SequencesExt

CONSTANTS
    None,
    InvoicesOn,     \* page -> its invoices, as a sequence
    InitialStatus,  \* invoice -> status; "absent" until it is created
    Accounts,
    Searches,       \* sets of invoices that a search text can match
    MaxPanels,      \* bound: times a panel is opened
    MaxRequests     \* bound: requests of the panels and of another window

Pages == DOMAIN InvoicesOn
Invoices == UNION {ToSet(InvoicesOn[p]) : p \in Pages}
Statuses == {"draft", "sent", "paid", "overdue", "cancelled"}
Row == [id: Invoices, status: Statuses]

InvoicePageAssumption ==
    /\ 1 \in Pages /\ \A p \in Pages : InvoicesOn[p] \in Seq(Invoices)
    /\ InitialStatus \in [Invoices -> Statuses \cup {"absent"}]
    /\ None \notin Invoices \cup Accounts /\ None \notin Statuses
    /\ None \notin Seq(Row)
    /\ MaxPanels \in Nat /\ MaxRequests \in Nat

VARIABLES
    status,     \* on the server
    cache,      \* page -> entry of the invoices query
    page,
    last,       \* the page shown before, whose rows stand in while this one loads
    search,     \* None while the box is empty
    selected,   \* the row the panel shows, as it was when it was selected
    panel,      \* how many panels were opened; the last one may be open
    showPayForm, payAccount,
    calls,      \* the requests of all panels, in order
    create,     \* the dialog: "closed", "open", "sent", "done"
    outside

vars == <<status, cache, page, last, search, selected, panel, showPayForm, payAccount,
          calls, create, outside>>
panelVars == <<selected, panel, showPayForm, payAccount>>
pageVars == <<page, last, search>>
serverVars == <<status, calls, create, outside>>

Listing(p) ==
    LET listed == {k \in DOMAIN InvoicesOn[p] : status[InvoicesOn[p][k]] # "absent"}
        ids == Kept(InvoicesOn[p], listed)
    IN [k \in DOMAIN ids |-> [id |-> ids[k], status |-> status[ids[k]]]]

Call == [panel: Nat, invoice: Invoices, to: Statuses, pays: BOOLEAN,
         phase: {"sent", "done", "over"}]

TypeOK ==
    /\ status \in [Invoices -> Statuses \cup {"absent"}]
    /\ cache \in [Pages -> EntryOver({None} \cup Seq(Row))]
    /\ page \in Pages /\ last \in Pages \cup {None} /\ search \in Searches \cup {None}
    /\ selected \in Row \cup {None}
    /\ panel \in Nat /\ showPayForm \in BOOLEAN /\ payAccount \in Accounts \cup {None}
    /\ calls \in Seq(Call)
    /\ create \in {"closed", "open", "sent", "done"}
    /\ outside \in Nat

Init ==
    /\ status = InitialStatus
    /\ cache = [p \in Pages |-> IF p = 1 THEN MountQuery(NoEntry(None), None)
                                ELSE NoEntry(None)]
    /\ page = 1 /\ last = None /\ search = None
    /\ selected = None /\ panel = 0
    /\ showPayForm = FALSE /\ payAccount = None
    /\ calls = <<>>
    /\ create = "closed"
    /\ outside = 0

-----------------------------------------------------------------------------
(* The list *)

Matches(row) == search = None \/ row.id \in search
Data == Shown(cache, page, last, None)
Rows == IF Data = None THEN <<>> ELSE Data
Displayed == Kept(Rows, {k \in DOMAIN Rows : Matches(Rows[k])})

\* filtered.findIndex, counted from one: zero when the row is not shown.
SelectedIndex ==
    IF selected = None \/ ~\E k \in DOMAIN Displayed : Displayed[k].id = selected.id THEN 0
    ELSE CHOOSE k \in DOMAIN Displayed : Displayed[k].id = selected.id

SetSearch(s) ==
    /\ search' = s
    /\ UNCHANGED <<serverVars, cache, page, last, panelVars>>

\* The panel is unmounted, and its state goes with it.
ClosePanel ==
    /\ selected' = None
    /\ showPayForm' = FALSE /\ payAccount' = None
    /\ UNCHANGED panel

GoToPage(p) ==
    /\ p # page /\ Data # None
    /\ ClosePanel
    /\ page' = p /\ last' = LastShown(cache, page, last, None)
    /\ cache' = [cache EXCEPT ![p] = MountQuery(@, None)]
    /\ UNCHANGED <<serverVars, search>>

FetchInvoices(p) ==
    /\ cache[p].fetch = "sent"
    /\ cache' = [cache EXCEPT ![p] = Read(@, Listing(p))]
    /\ UNCHANGED <<serverVars, pageVars, panelVars>>

FetchEnds(p) ==
    /\ \/ cache[p].fetch = "read" /\ cache' = [cache EXCEPT ![p] = Arrive(@, None)]
       \/ ~Idle(cache[p]) /\ cache' = [cache EXCEPT ![p] = Fail(@, None)]
    /\ UNCHANGED <<serverVars, pageVars, panelVars>>

InvalidateInvoices == cache' = [p \in Pages |-> Invalidate(cache[p], p = page, None)]

-----------------------------------------------------------------------------
(* The panel *)

Open == selected # None

\* A click on a row opens the panel, or gives the open one another invoice.
SelectRow(k) ==
    /\ k \in DOMAIN Displayed /\ Displayed[k] # selected
    /\ Open \/ panel < MaxPanels
    /\ selected' = Displayed[k]
    /\ panel' = IF Open THEN panel ELSE panel + 1
    /\ UNCHANGED <<serverVars, cache, pageVars, showPayForm, payAccount>>

CloseDetail == Open /\ ClosePanel /\ UNCHANGED <<serverVars, cache, pageVars>>

OnPrev ==
    /\ Open /\ SelectedIndex > 1
    /\ selected' = Displayed[SelectedIndex - 1]
    /\ UNCHANGED <<serverVars, cache, pageVars, panel, showPayForm, payAccount>>

\* An invoice that the search hides has the first row as its next one.
OnNext ==
    /\ Open /\ SelectedIndex < Len(Displayed)
    /\ selected' = Displayed[SelectedIndex + 1]
    /\ UNCHANGED <<serverVars, cache, pageVars, panel, showPayForm, payAccount>>

\* STATUS_NEXT
StatusNext ==
    [draft |-> "sent", sent |-> "paid", overdue |-> "paid", paid |-> None,
     cancelled |-> None]
NextStatus == IF Open THEN StatusNext[selected.status] ELSE None
IsPaying == NextStatus = "paid"

InFlight(c) == calls[c].phase # "over"
Mine(c) == Open /\ calls[c].panel = panel

\* Regression: the buttons only wait for a change of status.
StatusPending == \E c \in DOMAIN calls : Mine(c) /\ InFlight(c) /\ ~calls[c].pays

\* statusPending || payPending
IsPending == \E c \in DOMAIN calls : Mine(c) /\ InFlight(c)

Post(pays) ==
    /\ Len(calls) + outside < MaxRequests
    /\ calls' = Append(calls, [panel |-> panel, invoice |-> selected.id,
                               to |-> NextStatus, pays |-> pays, phase |-> "sent"])
    /\ UNCHANGED <<status, create, outside, cache, pageVars, panelVars>>

\* "Mark as sent": the only status that is not a payment.
HandleAdvance == NextStatus # None /\ ~IsPaying /\ ~IsPending /\ Post(FALSE)

ShowPayForm(shown) ==
    /\ IsPaying /\ ~IsPending /\ showPayForm # shown
    /\ showPayForm' = shown
    /\ UNCHANGED <<serverVars, cache, pageVars, selected, panel, payAccount>>

ChooseAccount(a) ==
    /\ IsPaying /\ showPayForm
    /\ payAccount' = a
    /\ UNCHANGED <<serverVars, cache, pageVars, selected, panel, showPayForm>>

HandlePay ==
    /\ IsPaying /\ showPayForm /\ ~IsPending
    /\ payAccount # None
    /\ Post(TRUE)

-----------------------------------------------------------------------------
(* The requests *)

\* PATCH sets any status; a payment needs an invoice that was sent.
Execute(c) ==
    /\ calls[c].phase = "sent"
    /\ calls[c].pays => status[calls[c].invoice] \in {"sent", "overdue"}
    /\ status' = [status EXCEPT ![calls[c].invoice] = calls[c].to]
    /\ calls' = [calls EXCEPT ![c].phase = "done"]
    /\ UNCHANGED <<create, outside, cache, pageVars, panelVars>>

\* The list is refreshed; the panel keeps its copy, and only its form closes.
Succeed(c) ==
    /\ calls[c].phase = "done"
    /\ calls' = [calls EXCEPT ![c].phase = "over"]
    /\ InvalidateInvoices
    /\ showPayForm' = (showPayForm /\ ~(Mine(c) /\ calls[c].pays))
    /\ UNCHANGED <<status, create, outside, pageVars, selected, panel, payAccount>>

\* A refusal, or no answer.
FailCall(c) ==
    /\ InFlight(c)
    /\ calls' = [calls EXCEPT ![c].phase = "over"]
    /\ UNCHANGED <<status, create, outside, cache, pageVars, panelVars>>

\* The same page in another window, which shows the invoice as it is.
Outside(i) ==
    /\ Len(calls) + outside < MaxRequests
    /\ status[i] \in {"draft", "sent", "overdue"}
    /\ status' = [status EXCEPT ![i] = StatusNext[@]]
    /\ outside' = outside + 1
    /\ UNCHANGED <<calls, create, cache, pageVars, panelVars>>

-----------------------------------------------------------------------------
(* CreateInvoiceModal.  "sent" and "done" stand for a dialog that is closed  *)
(* meanwhile, too; bounds: it is opened again when its request is over, and  *)
(* only as long as the instance has an invoice to create.                   *)

OpenCreate ==
    /\ create = "closed" /\ \E i \in Invoices : status[i] = "absent"
    /\ create' = "open"
    /\ UNCHANGED <<status, calls, outside, cache, pageVars, panelVars>>

\* The form is sent if it names a recipient and a positive amount.
SubmitCreate ==
    /\ create = "open"
    /\ create' = "sent"
    /\ UNCHANGED <<status, calls, outside, cache, pageVars, panelVars>>

CreateInvoice(i) ==
    /\ create = "sent" /\ status[i] = "absent"
    /\ status' = [status EXCEPT ![i] = "draft"]
    /\ create' = "done"
    /\ UNCHANGED <<calls, outside, cache, pageVars, panelVars>>

Created ==
    /\ create = "done"
    /\ create' = "closed"
    /\ InvalidateInvoices
    /\ UNCHANGED <<status, calls, outside, pageVars, panelVars>>

\* An error leaves the dialog open with what was typed, unless it was closed.
CreateFails ==
    /\ create \in {"sent", "done"}
    /\ create' \in {"open", "closed"}
    /\ UNCHANGED <<status, calls, outside, cache, pageVars, panelVars>>

CloseCreate ==
    /\ create = "open"
    /\ create' = "closed"
    /\ UNCHANGED <<status, calls, outside, cache, pageVars, panelVars>>

Next ==
    \/ \E s \in Searches \cup {None} : SetSearch(s)
    \/ \E p \in Pages : GoToPage(p) \/ FetchInvoices(p) \/ FetchEnds(p)
    \/ \E k \in 1..Cardinality(Invoices) : SelectRow(k)
    \/ CloseDetail \/ OnPrev \/ OnNext
    \/ HandleAdvance \/ HandlePay
    \/ \E shown \in BOOLEAN : ShowPayForm(shown)
    \/ \E a \in Accounts \cup {None} : ChooseAccount(a)
    \/ \E c \in DOMAIN calls : Execute(c) \/ Succeed(c) \/ FailCall(c)
    \/ \E i \in Invoices : Outside(i) \/ CreateInvoice(i)
    \/ OpenCreate \/ SubmitCreate \/ Created \/ CreateFails \/ CloseCreate

Spec == Init /\ [][Next]_vars

-----------------------------------------------------------------------------
(* Properties *)

\* One panel has one request in flight, whatever invoice it shows meanwhile:
\* nobody pays an invoice twice by pressing the buttons of one panel.
OneRequestPerPanel ==
    \A c, d \in DOMAIN calls :
        InFlight(c) /\ InFlight(d) /\ calls[c].panel = calls[d].panel => c = d

-----------------------------------------------------------------------------
(* Known not to hold; see the README *)

\* A status only changes along STATUS_NEXT, as far as this page changes it: an
\* invoice that is paid stays paid.
StatusFollowsTable ==
    [][\A i \in Invoices :
           status'[i] # status[i] /\ status[i] # "absent"
               => status'[i] = StatusNext[status[i]]]_vars
=============================================================================
