------------------------------- MODULE Lists -------------------------------
(***************************************************************************)
(* The lists side by side: the savings goals on the server, and the pages  *)
(* of recipients, transactions, bug reports and invoices, each with a      *)
(* cache, a server and dialogs of its own.  They share no state, so a      *)
(* behaviour is about one of them (part).                                  *)
(***************************************************************************)
EXTENDS SavingsGoals, Sequences

CONSTANTS
    Parts,          \* which of the lists
    InitiallySaved, Fresh, RecipientsPerPage, RecipientSearches,
    InitialTotal, MaxTotal, TransactionsPerPage, TransactionSearches, MaxFocus,
    InitialReports, MaxReports, ReportsPerPage, Filters, MaxElsewhere,
    InvoicesOn, InitialStatus, PayAccounts, InvoiceSearches, MaxPanels, MaxRequests

VARIABLES
    part,
    saved, recipientCache, recipientPage, recipientLast, recipientSearch,
    confirming, deletes, addition, asked, gone, recipientOvertaken,
    total, transactionCache, transactionPage, transactionLast, transactionSearch,
    transaction, focuses,
    reports, newest, reportCache, reportPage, filter, deleting, deleteError,
    elsewhere, cleared, owed, reportOvertaken,
    status, invoiceCache, invoicePage, invoiceLast, invoiceSearch, selected, panel,
    showPayForm, payAccount, calls, create, outside

Recipient == INSTANCE RecipientsPage WITH
    PerPage <- RecipientsPerPage, Searches <- RecipientSearches,
    cache <- recipientCache, page <- recipientPage, last <- recipientLast,
    search <- recipientSearch, create <- addition, overtaken <- recipientOvertaken

Transaction == INSTANCE TransactionsPage WITH
    PerPage <- TransactionsPerPage, Searches <- TransactionSearches,
    cache <- transactionCache, page <- transactionPage, last <- transactionLast,
    search <- transactionSearch, selected <- transaction

Report == INSTANCE BugReportsPage WITH
    PerPage <- ReportsPerPage, cache <- reportCache, page <- reportPage,
    overtaken <- reportOvertaken

Invoice == INSTANCE InvoicePage WITH
    Accounts <- PayAccounts, Searches <- InvoiceSearches,
    cache <- invoiceCache, page <- invoicePage, last <- invoiceLast,
    search <- invoiceSearch

ASSUME ListsAssumption ==
    /\ Recipient!RecipientsAssumption /\ Transaction!TransactionsAssumption
    /\ Report!BugReportsAssumption /\ Invoice!InvoicePageAssumption

recipientVars == <<saved, recipientCache, recipientPage, recipientLast,
                   recipientSearch, confirming, deletes, addition, asked, gone,
                   recipientOvertaken>>
transactionVars == <<total, transactionCache, transactionPage, transactionLast,
                     transactionSearch, transaction, focuses>>
reportVars == <<reports, newest, reportCache, reportPage, filter, deleting,
                deleteError, elsewhere, cleared, owed, reportOvertaken>>
invoiceVars == <<status, invoiceCache, invoicePage, invoiceLast, invoiceSearch,
                 selected, panel, showPayForm, payAccount, calls, create, outside>>
listsVars == <<part, vars, recipientVars, transactionVars, reportVars, invoiceVars>>

ListsInit ==
    /\ part \in Parts
    /\ Init /\ Recipient!Init /\ Transaction!Init /\ Report!Init /\ Invoice!Init
    /\ part # "goals" => \A g \in Goals : goal[g] = None

ListsNext ==
    \/ /\ part = "goals" /\ Next
       /\ UNCHANGED <<part, recipientVars, transactionVars, reportVars, invoiceVars>>
    \/ /\ part = "recipients" /\ Recipient!Next
       /\ UNCHANGED <<part, vars, transactionVars, reportVars, invoiceVars>>
    \/ /\ part = "transactions" /\ Transaction!Next
       /\ UNCHANGED <<part, vars, recipientVars, reportVars, invoiceVars>>
    \/ /\ part = "reports" /\ Report!Next
       /\ UNCHANGED <<part, vars, recipientVars, transactionVars, invoiceVars>>
    \/ /\ part = "invoices" /\ Invoice!Next
       /\ UNCHANGED <<part, vars, recipientVars, transactionVars, reportVars>>

ListsSpec == ListsInit /\ [][ListsNext]_listsVars

-----------------------------------------------------------------------------
(* The properties of the other modules, each stated there *)

\* Every amount, page number, selection and cached answer is one that the code
\* can have there.
ListsTyped ==
    /\ TypeOK /\ Recipient!TypeOK /\ Transaction!TypeOK /\ Report!TypeOK /\ Invoice!TypeOK

OnlyAskedDeleted == Recipient!OnlyAskedDeleted
PageLabelTruthful == Transaction!PageLabelTruthful
WithinPages == Report!WithinPages
OneRequestPerPanel == Invoice!OneRequestPerPanel

\* What the user was told is deleted, a recipient or all bug reports at once, is on
\* no list at rest, but for answers that were overtaken.
DeletedIsGone == Recipient!DeletedIsGone /\ Report!DeletedAreGone
=============================================================================
