SPECIFICATION ListsSpec
CONSTANTS
  None = None
  Parts = {"goals", "recipients", "transactions", "reports", "invoices"}
  Requests = {r1, r2, r3}
  Users = {ann, bob}
  Goals = {g1}
  Amounts = {1500, 3500}
  MaxAmount = 1000
  BalanceCap = 3000
  InitiallySaved = {1} Fresh = {2} RecipientsPerPage = 1 RecipientSearches = {{1}}
  InitialTotal = 3 MaxTotal = 4 TransactionsPerPage = 2
  TransactionSearches = {{1}, {2, 4}} MaxFocus = 1
  InitialReports = 1 MaxReports = 2 ReportsPerPage = 1 Filters = {{1}} MaxElsewhere = 1
  InvoicesOn <- MCInvoicesOn
  InitialStatus <- MCInitialStatus
  PayAccounts = {acc1} InvoiceSearches = {{1}} MaxPanels = 1 MaxRequests = 2
INVARIANTS ListsTyped DeletionAnswersHold PageLabelTruthful WithinPages OneRequestPerPanel DeletedIsGone
PROPERTIES OnlyAskedDeleted
