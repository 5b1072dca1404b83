# Retail banking: TLA+ verification

This directory models the retail banking application of this repository. On the
server side: what the Rust backend (`src/backend`) does to accounts, ledger,
invoices and recipients when many requests run at once, statements fail, handlers
are dropped and answers get lost. On the browser side (`src/frontend`): the
dialogs, forms, lists, cards, the session and the query cache, whose requests are
answered late, out of order, or not at all while the user goes on clicking. TLC
checks small instances of all of it; TLAPS proves every safety invariant, every action
property and the refinement that the runs check, for every instance.

## The system

A React application (`frontend`, also wrapped by a Tauri shell) talks JSON over
HTTP to one axum server. The server keeps no state between requests other than
a pool of five Postgres connections (`backend/src/main.rs:31`); everything
shared is in the database. Requests interact through that database (row locks,
committed rows) and through the pool. The browser keeps one TanStack Query cache;
components interact through it (mutations invalidate what queries show) and
through the session cookie.

| Component | State | Operations | What makes it correct | Modules |
|---|---|---|---|---|
| transfers | accounts, transactions, ledger entries | `POST /api/transfers` | no debit beyond the funds; both sides or neither; both books agree | `Transfers` |
| deposits | the same | `POST /api/deposits` | both books agree | `Deposits` |
| invoices | invoices, accounts, transactions | create, set status, pay | debit and "paid" together; only payable invoices are paid | `Invoices`, `InvoicePage` |
| recipients | recipients | list, create, delete | a transfer to one saw it exist; only what was asked for is deleted, and it leaves the screen | `Recipients`, `RecipientsPage` |
| ledger and cache | `accounts.balance`, `ledger_entries`, view `account_balances` | `check_balance_drift()` | no drift | `Database`, `Bank` |
| pool and database | connections, locks, uncommitted writes | begin, lock, commit, roll back | every request ends and gives back what it holds | `Database` |
| authentication, roles | cookies, the route's user, the query "me" | sign-in, sign-out, the check of every navigation | a page has the user it names; sign-in ends | `Session` |
| data hooks | query cache, invalidations | queries, mutations | what counts as fresh contains every acknowledged write, unless its answer was overtaken | `QueryCache`, `DataHooks` |
| send-money dialog | two forms, a confirmation, transfers in flight | edit, submit, confirm, close | one transfer at a time, never to its own source; a late answer closes nothing else | `SendMoney` |
| deposit dialog | one form for three sources | edit, change source, post | cash is called cash, nothing else is | `DepositForm` |
| transactions page | cache, page, search, panel | page, search, select | the label is of the rows that are shown | `TransactionsPage` |
| statements | period, requests, toasts, inbox | download, e-mail | a mail reported as sent was accepted | `Statements` |
| profile | row, query, form, picture | save, upload, remove | a save keeps the picture | `ProfilePage` |
| bug reports | reporter window, spawned inserts, rows | report, list, filter, delete all | recording an error ends within ten rows; the pager stays within the pages | `ErrorReports`, `BugReportsPage` |
| cards and figures | queries of dashboard, wallet, analytics | load, change range, refetch; sums, pager, checksum | "empty" was answered as empty where the hook looks at the status; sums add up | `Cards`, `Figures` |
| savings goals | goals, each of one owner | create, update, delete | a refused deletion is worded truthfully; one deletion succeeds, for good | `SavingsGoals` |
| desktop shell, deployment, seeds | none; scripts | wrap, migrate | the seeds leave cache and ledger equal | none |

Hard behaviours on the server: requests interleave at every statement; opposite
transfers deadlock; handlers read an invoice before they open the transaction
that uses it; an early `return` answers at once and leaves the rollback of the
dropped sqlx transaction to later; a handler's future is dropped when its client
goes away; COMMIT may succeed although nobody learns of it; the two books round
amounts to different digits; five connections serve everyone. In the browser:
a fetch answers with what it read before a write; a dialog is closed, and opened
again, over its request; a form's fields outlive the choice they belonged to; a
component keeps its state while it shows another row; a session ends between a
check and the page it admits; an error handler that fails is an error again.
PROJECT.json lists each at its line, with the properties that would notice.

## Modules

    Money               amounts, rounding, overflow of NUMERIC columns
      Database          tables, row locks, private writes, pool, faults
        Transfers, Deposits, Invoices, Recipients     one handler each
          Bank          composition, fairness, properties, refinement, IInv
      SavingsGoals      single statements on one table
    AtomicBank          abstract specification: every request in one step

    QueryCache          the life of one cache entry
      DataHooks         queries, mutations and invalidations
      Session           sign-in, guards, sign-out
      Cards             loading, failed, empty, filled
      ProfilePage
      RecipientsPage, TransactionsPage, BugReportsPage, InvoicePage
                        over Rows: sorting, slicing and filtering of rows
    SendMoney           the transfer dialog
    DepositForm, Statements, ErrorReports, Figures

    Lists = SavingsGoals + RecipientsPage, TransactionsPage, BugReportsPage, InvoicePage
    Forms = SendMoney + DepositForm, Statements, ProfilePage, Figures
    Shell = Session + Cards, ErrorReports
    MCBank, MCLists, MCForms        what a .cfg cannot write of an instance

    SumProofs           sums, folds, remainders: lemmas without a model
    BankProofs          the server; BankLedgerProofs (over SumProofs): its books
    ListsProofs, FormsProofs (over SumProofs), DataHooksProofs
    ShellProofs         over SumProofs and QueryCacheProofs, the operations on an entry

`Lists`, `Forms` and `Shell` put components side by side. The components share no
state, so a behaviour is about one of them (`part`) while the variables of the
others keep their initial values; nothing is gained by interleaving them. Each
names the assumptions of its components, and the properties that its run checks.

### Server

**Requests and statements.** A request is one handler run. `pc[r]` is the
statement its handler issues next, `req[r]` the body together with the
authenticated user, `resp[r]` the answer ("none" before there is one).
A statement is one action; the postings UPDATE account / INSERT transaction /
INSERT ledger entry run back to back under the account's lock and no other
request can see between them, so `Post` is one action. What a failure in the
middle of the three does (everything is rolled back) is what `StatementError`
and `PostOverflow` do.

**Database.** `balance` is `accounts.balance`, `ledger` the view
`account_balances`, `txrows` the committed `transactions`. `lock` maps an
account or invoice row to the transaction that holds it (`FOR UPDATE` or
UPDATE). `work[r]` holds a transaction's uncommitted writes, published by
`Commit`. A request that returns early has its answer and moves to "rollback",
still holding locks and connection, until `Rollback` runs: sqlx queues the
ROLLBACK of a dropped transaction. Postgres runs at READ COMMITTED: a locking
SELECT that waited sees the row as last committed.

**Faults.** `Faults` says which a run allows: "statement" (any statement or
COMMIT reports an error), "abandon" (the handler is dropped between two
statements; a crash of the server is this for all requests, as it keeps no
state), "answer" (the effect happened but the client is told of an error).
Running out of connections, deadlock aborts and numeric overflow are always
possible where the state allows them.

**Money.** The unit is 0.00001, so that values exist which NUMERIC(15,2) and
NUMERIC(19,4) must round. `BalanceCap` stands for the largest NUMERIC(15,2) and
`MaxAmount` for 1 000 000. `validate_amount` does not look at the scale, and
neither does `ValidAmount`.

**Initial states.** Cache and ledger agree, as migration 10001 leaves them;
balances may be negative, as the seeds' are for some accounts.

**AtomicBank** promises every request in one step between arrival and answer,
with no locks, connections or statements. Two facts are promised of an earlier
moment only: that a paid invoice was payable, and that a transfer's saved
recipient existed (`Observe`): the code reads both without a lock.
`Bank!ImplementsAtomicBank` is its specification under the mapping `Seen`.

**SavingsGoals** shares no row and no lock with the rest. Its statements are
auto-committed, so each is one action; `goal` are the rows, `given` the user an
identifier was ever given to. A DELETE that found no goal of its caller asks in a
second statement (`Exists`) whether there is one, while others go on creating,
updating and deleting. The targets and amounts that bodies name are validated by
nothing but their columns.

### Browser

**The cache entry** (`QueryCache`). TanStack Query is not in the repository and is
modelled from how the hooks use it: an entry has `data`, the state of its one
`fetch` ("idle", "sent", "read" when the server has looked but the answer is still
under way), `got` (what it will bring), `stale`, and `error`. A second reader joins
a fetch under way; an invalidation marks the entry stale and, when the query is on
the screen, fetches again, dropping the answer under way unless there is no data
yet; a failure leaves the data. Each page module says what its server's `data` is.
So an invalidation does not recall the answer of a query that is not on the screen, or
has no data yet (`GoesOn`), and that answer makes the entry fresh. When it was read
before an acknowledged write it is *overtaken*: a history variable marks the answer
(`"answer"`), then the data it brings (`"data"`), until the next invalidation or the
next answer. The properties on fresh entries exclude what is overtaken and nothing
else; without that exclusion they do not hold, see below.

**Rows** (`Rows`). ORDER BY, LIMIT/OFFSET and `filter` as the pages use them, defined
by what they return, not with the library's SelectSeq and SortSeq, whose recursion
a proof cannot look into.

**Data hooks** (`DataHooks`). A resource is its version number, so that "contains
this write" is a comparison. A mutation is sent, takes effect, and is acknowledged
(then the hook's `onSuccess` invalidates what it names) or its answer is lost.
`Touches` is what the server's handler writes, `Invalidates` what the hook of that
mutation invalidates; `owed[k]` is the newest version of `k` that a write was
acknowledged for, whether `k` is on the screen, in the cache or nowhere, and is never
reset. Keys of lists with parameters are one key each: invalidation is by prefix.

**Dialogs and forms.** State is what `useState`, the form library and the mutation
hold; one action per event handler. Text is what the code can tell apart: an IBAN
is its length and whether its checksum is right, a name stands for who bears it.
`SendMoney` numbers the openings of its dialog: each has blank state, but the
requests of the earlier ones still answer. `Unmounted` is what closing does.
`DepositForm` keeps name and IBAN while the source changes. `ProfilePage` captures
the profile before the `await` of the compression and sends it after (`reading`).
`Statements` is two forms over one server, a renderer and a mail service, each of
which can fail after it was reached.

**Pages.** Lists are cached per page number; `last` is what `keepPreviousData`
leaves on the screen while another page loads. The delete button of a row
(`confirming`), the panel of an invoice (`selected`, `panel`, `showPayForm`) and a
transaction's panel are component state that survives the arrival of other rows,
as React keeps a component with the same place and key. Histories beside the state:
`asked` are the rows whose own button was pressed and whose question is still open;
`gone` and `owed` what the user was told is deleted, for every page of the list and
for good; `overtaken`, per page and filter, as above.

**Cards.** One query keyed by a range stands for each of the dashboard's. `checks` says
whether the hook behind the card looks at `r.ok`: most do (use-money-flow.ts:39) and
throw; use-savings.ts:14, use-donut-stats.ts:13, use-recent-transactions.ts:16 and
use-stat-cards.ts:15 do not, and `RefuseRows` makes the body of a refusal their data,
which has no `length`. `online` and `paused` are the network as TanStack Query's
default networkMode sees it: a fetch that would begin offline, or whose attempt failed
offline, waits, and is neither an error nor `isFetching`. The other modules have the
network's failures (a request fails) but not this waiting.

**Session.** `nav` is the navigation under way: `asked` while `beforeLoad` waits
for the server, `read` once the server has looked at the cookie. The sign-in form
posts, then awaits the refetch of "me", then navigates. The cookie changes with
the answer of sign-in and sign-out, and vanishes when the session expires, between
any two steps. A request carries the cookie that is there when it is read. A refused
sign-out leaves the cookie (`LogoutAnswered`): the handler does not look at the answer
(nav-user.tsx:34) and forgets the user all the same.

**ErrorReports.** A failed request is reported twice (by the cache's `onError` and by
that of a dialog still open), unless an equal report was made within 30 seconds;
the server's tracing layer spawns an insert for each event of level ERROR. One request
causes up to four (`LoggedByRequest`): one of the handler, one more when a PDF does not
compile (pdf.rs:108), "response failed" of the TraceLayer for a 5xx, and "very slow
request" after three seconds (main.rs:93). `RequestLogged` is a request that the
browser does not report, retried or only slow. The POST of a report is a request
like any other: recorded but slow it logs once, failed up to three times.

**Figures** has no behaviour: a state is one input, and the code's computation is
compared with a reference definition of what it is meant to compute. Loops of the
code are folds whose step has a name (`Written`, `WithDay`, `WithAccount`). Amounts
are whole numbers here and floating point in the browser, whose rounding of sums is
not modelled.

Operators introduced by a comment "Regression:" are not part of the model:
each is the definition beside it with a plausible mistake, to confirm that a
property notices. PROJECT.json's "mutants" pairs them.

## Runs

| Run | Module | Checks | Shows |
|---|---|---|---|
| transfers | MCBank | DriftFree, TransferAtomic, AnswerMatchesEffect, NoOverdraft, ImplementsAtomicBank | transfers race, deadlock, fail, and stay atomic and covered |
| invoices | MCBank | TypeOK, StatementAddsUp, PaymentMarksPaid, ImplementsAtomicBank | payments against status changes, deposits, overflow |
| rounding | MCBank | DriftBounded, LedgerConserves, IInv | fractional cents and ticks in requests of every kind; the invariant of the proofs |
| liveness | MCBank | EveryRequestEnds | no request waits for ever |
| forms | MCForms | FormsTyped, NeverToItself, PendingOnScreen, ClosedByOwnAnswer, CashNamedCash, SentMeansDelivered, SaveKeepsPicture, ChecksumIsRemainder, PagerLeadsEverywhere, FiguresAddUp | dialogs, forms and pure computations |
| lists | MCLists | ListsTyped, DeletionAnswersHold, OnlyAskedDeleted, DeletedIsGone, PageLabelTruthful, WithinPages, OneRequestPerPanel | savings goals, and paged lists while rows come and go: nothing is deleted unasked, and what was deleted is gone |
| hooks | DataHooks | TypeOK, FreshIncludesAcknowledged, AcknowledgedIsShown | fresh entries miss no acknowledged write unless overtaken, and it is shown in the end |
| shell | Shell | ShellTyped, UserIsThere, ShellNamesSession, SubmitIsAnswered, CardsTruthful, SkeletonEnds, RecordingEnds | guards, sign-in, cards under refusals and loss of the network, error reports |
| drift_by_payment | MCBank | NoDrift (violated) | a payment writes no ledger entry |
| paid_twice | MCBank | PaidOnlyIfPayable (violated) | one invoice, two debits |
| label | MCForms | LabelNamesPayee (violated) | the question names one, the money goes to another |
| sent_twice | MCForms | DebitedOnce (violated) | a lost answer and a second debit |

### Bounds, and why they are enough

**MCBank**: alice owns two open accounts (0.03, 0.01) and a closed one, bob one at
-0.01; one sent invoice, one free invoice id; a recipient each. 14 bodies in
"transfers" (pool of 3, all faults), 17 in "invoices" (pool of 2, all faults), 13
of every kind in "rounding" (pool of 2, all faults), 8 in "liveness" (pool of 2,
dropped handlers). Three requests in each: a waiting cycle needs two and a third
to get in its way; a stale check needs a reader and a writer; a pool of two is
exhausted by two holders and one that queues. Every request serves one body from
the whole set, so all combinations of kinds and orders occur. Amounts of one to
five cents make every comparison (funds, cap, minimum) go both ways. `MaxAmount`
and `BalanceCap` keep the numbers small; no state constraint is used, and deadlock
is checked: the only stuttering end state is `Finished`.

**MCForms**: two dialogs and two transfers, so that the answer of one meets the
other; two accounts, one of which cannot afford the one amount; a recipient with
an IBAN and one without. Two deposits; two statements over two days from two
places, so that one overtakes the other; three details (one all null), one
picture, two requests and one focus, so that a save and an upload overlap once.
The checksum is computed in chunks of four digits instead of nine (TLC's integers
have 32 bits) over all strings of up to six of the digits 0, 1 and 9: a second
chunk that is short, begins with zeros, or follows a remainder of one digit. The
pager has up to twelve pages: both ellipses, either, and none.

**MCLists**: recipients one per page, one saved and one to add: pages appear and
disappear. The dialogs that create a recipient or an invoice open only while the
instance has one left to create, and a recipient that was deleted is not created
again, as identifiers are given once. Three transactions, then four, two per page: the second page fills
while it is looked at. One report, then two, one per page, and a filter that only
the first passes. Two pages of invoices, among them one sent, one absent, one paid.

The savings goals: three requests (a deletion, one that runs between its two
statements, and a third), two users, one goal that is there from the start or not,
and two amounts: one that is rounded, one that then overflows its column. Goals
share nothing, so a second one would only multiply the behaviours.

**DataHooks**: the queries "accounts" and "invoices" and the mutations pay (writes
both) and status (writes one), two writes per resource, one focus or expiry: a
write before, during and after a fetch.

**Shell**: two users of whom one is root; one focus, stale query or end of a session besides
any number of navigations, sign-ins and sign-outs; two ranges and three changes
(rows, ranges, focus, expiry and losses of the network together), so that a range is
left and come back to and the network lost on the way; two errors with one message,
each with all the events that it can cause.

Deadlock is not checked for Forms and Shell, where the bounds on openings,
requests, changes or errors end a behaviour.

### Findings

* **A payment drifts the books** (`invoices/handler.rs:199`): cache and
  ledger differ by the amount, and the accounts list, which shows the ledger's
  balance (`accounts/db.rs:18`), still shows the money that the funds check no
  longer sees. Run drift_by_payment.
* **An invoice can be paid twice** (`invoices/handler.rs:139`, `:228`): the
  status check is outside the transaction and the UPDATE has no condition. Run
  paid_twice.
* **The confirmation can name the wrong payee** (`send-money-modal.tsx:227`): the
  name that was typed last, while the request carries the recipient that was
  selected before. Run label.
* **A transfer whose answer was lost is debited again** (`use-transfers.ts:9`) when
  it is confirmed again: nothing in the request tells the two apart. Run sent_twice.

`DriftFree` and `DriftBounded` say what holds of the drift nevertheless: whole-cent
transfers and deposits never drift, and otherwise (`transfers/model.rs:10` accepts
any scale) the drift is the payments plus at most half a cent and half a tick per
row.

### Known not to hold

These were seen while modelling. No run is spent on them, since they happen along a
direct path that the line shows by itself; each name is that of the property, in
the component's module, that the code does not keep.

* `DestinationNamed` (`send-money-modal.tsx:218`). A transfer to a payee typed by
  hand, or prefilled from the button titled "Send money" (page-recipients.tsx:390,
  which passes no unid), is posted with to_recipient_unid, to_account_unid and
  recipient_iban all null; transfers/db.rs:59 turns every such request down.
  src/spec/tasks.md:32 promises "Quick Transfer form: recipient selector, amount
  input, Send Money button".
* `FormAgreesWithServer` (`deposit-modal.tsx:141`). The form validates the IBAN
  without blanks up to 34 characters (send-money-schema.ts:10) but posts it as
  typed, in groups of four; deposits/model.rs:38 says "length(min = 15, max = 34)"
  and counts the blanks, so an IBAN of 28 characters or more that the form called
  valid is turned down.
* `TotalIsInItsCurrency` (`page-wallets.tsx:115`). totalBalance adds the balances
  of all accounts whatever their currency and line 170 prints the sum as USD. The
  same page converts between currencies (page-wallets.tsx:331), and
  src/spec/tasks.md:48 asks for "Currency table: USD, EUR, GBP with balances", one
  line for each currency.
* `NoneYetMeansNone` (`page-recipients.tsx:351`). The error of the query is never
  looked at: a failed request leaves no data and the table says "No recipients
  yet. Add your first one!" (likewise page-invoices.tsx:720). src/spec/tasks.md:72
  asks for "proper loading skeletons + error states on all pages".
* `StatusFollowsTable` (`page-invoices.tsx:207`). The panel keeps the row as it
  was when selected: opened on a draft that is meanwhile sent and paid from
  elsewhere, its button still PATCHes status "sent", which invoices/handler.rs:251
  writes unconditionally. STATUS_NEXT (page-invoices.tsx:54) says "paid: null":
  nothing follows paid.
* `SearchFindsAll` (`page-transactions.tsx:173`). The search filters the rows of
  the page that is loaded; the backend has no search parameter.
  src/spec/tasks.md:73 says "Transactions page: wire real paginated data, search
  filter hits backend".
* `FailedMeansNotSent` (`transactions/handler.rs:176`). When the mail service
  accepted the mail but its answer was lost, send() is an error and the handler
  answers 502 "email service unavailable" (transactions/handler.rs:188); the
  browser says "Email sending failed" (hooks/use-statement-export.ts:28) and a
  retry mails the statement again.
* `NoReportsMeansNone` (`bugreports/handler.rs:69`). The total is read from the
  first row of the page, so a page past the end answers total 0 and the view says
  "No bug reports." (page-dashboard-bugreports.tsx:226) without a pager, while
  reports remain on the first page.
* `UploadKeepsDetails` (`page-account-details.tsx:209`). When the profile did not
  load, profileToRequest(undefined) is all null and the upsert writes every
  column: uploading a picture erases the names and the address. The toast at
  page-account-details.tsx:212 says "Profile picture updated".
* `SavedStaysSaved` (`page-account-details.tsx:209`). The profile captured before
  the await of compressImage is sent after it: details saved in between are put
  back to what they were. The toast at page-account-details.tsx:189 had said
  "Profile saved!".
* `RefusedAsTheServer` (`permissions.ts:6`). ListAll is granted to root only, so
  an admin is kept from the users page. The comment at permissions.ts:4 says
  "Mirrors Rust: UserPermission enum implementing Permission trait" and the route
  (auth/handler.rs:190) is commented "GET /api/dashboard/users — admin or root
  only.".
* `AccountsAreTheUsers` (`components/nav-user.tsx:35`). Logging out overwrites
  only the `me` entry; the other entries stay in the cache and are fresh for their
  staleTime (hooks/data/use-accounts.ts:18), so the next user sees the accounts of
  the previous one. The test tests/accounts.rs:91 is named
  "list_accounts_isolates_by_user". Nor is the answer looked at (line 34): after a
  refused sign-out the cookie is still there while the shell forgets the user.
* `FreshIsComplete` (`use-transfers.ts:44`). A list can count as fresh, for its
  staleTime, although it misses a write that was acknowledged. The first fetch of a
  page reads, the payment is acknowledged, the answer arrives: the invalidation joins
  a first fetch and recalls nothing. Or a fetch reads, its page is left, the payment is
  acknowledged, the late answer makes the entry fresh, and the page, when it is opened
  again, shows it without a fetch.
* `DeletedNeverShown` (`use-recipients.ts:68`, `page-dashboard-bugreports.tsx:140`). In the
  same way a deleted row comes back, at rest: page 2 is fetched again and has read, the
  user goes to page 1, is told of the deletion, and goes back after the answer arrived.
* `NothingYetIsAnswered` (`use-savings.ts:14`, `use-donut-stats.ts:13`,
  `use-recent-transactions.ts:16`). These hooks do not look at `r.ok`: a refusal with a
  JSON body is an object without `length`, and the cards say "No savings goals yet", "No
  spending data yet" and "No transactions yet" (page-dashboard.tsx:239). With
  `use-stat-cards.ts:15` the object has no `map`, and the whole page gives way to the
  error component of the root route ("broken" in `StatCards`).
* `FullColourIsOfRange` (`page-dashboard.tsx:122`). Offline, the fetch of a newly chosen
  range waits, so `isFetching` is false, and the chart of the range before is drawn in
  full colour under the new label.
* `EmptyPeriodIsAnswered` (`src/routes/dashboard/analytics.tsx:99`). With
  keepPreviousData (hooks/data/use-money-flow.ts:43) an empty range stays on
  screen while the next one loads, and the cards, which show their skeleton only
  while isLoading, say of the new range "No transactions in this period." (lines
  99 and 234). src/spec/tasks.md:72 asks for "proper loading skeletons + error
  states on all pages".
* `NoCardsMeansNone` (`page-wallets.tsx:113`). The accounts default to [] and the
  error is never looked at: a failed request says "No cards yet" (line 186) and
  "No currencies" (line 315). src/spec/tasks.md:72 asks for "proper loading
  skeletons + error states on all pages".

## Fairness

`Bank!FairSpec` asks weak fairness of each request's own next step (the tokio runtime
polls every handler; the clean-up of a dropped transaction runs; Postgres grants
a free lock) and of the deadlock abort (Postgres looks for deadlocks after
`deadlock_timeout`). Nothing is asked of clients, faults or the pool's timeout.
Weak fairness suffices because a waiting request stays enabled once nobody else
competes, and every request runs a bounded number of statements; the number of
requests is finite in the runs, so a stream of newcomers that starves a waiter
for ever is outside the model. Postgres and sqlx queue waiters in order, which
the model does not need.

The browser's specifications (`DataHooks`, `Session`, `Cards`, `ErrorReports`) ask
weak fairness of two things: that the server reads a request that was sent (and, in
`Cards`, does not wait for the network), and
that a request ends, by its answer or because the browser gives up (a failure is
always among the possible ends). `fetch` promises to settle, and so does the
code's await of it. The spawned insert of `BugReportLayer` runs and ends, as tokio
polls it. Nothing is asked of users, of the window's focus, or of success: that a
skeleton ends or a sign-in is answered holds also if every request fails.
`AcknowledgedIsShown` promises the data only as long as the entry is not left
with an error, since a failed refetch is not repeated without end, and as its answer was
not overtaken. `SkeletonEnds` promises nothing while the network is lost, which nobody
promises to bring back: a fetch that waits for it keeps its skeleton. The other
components have no liveness property: whether they go on is up to the user.

## Proofs

All theorems hold for every value of the constants under the named assumptions of
the modules (`MoneyAssumption`, `DatabaseAssumption`, `AccountsAssumption`,
`SavingsAssumption`, `HooksAssumption`, `SessionAssumption`, and `ListsAssumption`,
`FormsAssumption`, `ShellAssumption`, which collect those of the components), without
the bounds of the runs: of a bound only `\in Nat` is assumed. The assumptions say
that initial values lie in their sets, that pages have at least one row, that
"nothing" is not one of the values it stands beside, and that accounts, recipients
and messages are finitely many. TLC evaluates them in every run.

| Module | Theorem | States |
|---|---|---|
| BankProofs | `InductiveInvariant`, `TypeCorrect` | `Spec => []IInv`, `Spec => []TypeOK` |
| | `DebitsAreCovered` | `Spec => NoOverdraft` |
| | `EffectsInvariant`, `ExactnessInvariant` | `Spec => []EffectInv`, `Spec => []ExactInv` |
| | `BothRowsOrNone`, `AnswersAreTrue` | `Spec => []TransferAtomic`, `Spec => []AnswerMatchesEffect` |
| | `DebitMarksInvoice` | `Spec => PaymentMarksPaid` |
| | `HandlersAreAtomic` | `Spec => ImplementsAtomicBank` |
| BankLedgerProofs | `StatementsAddUp` | `Spec => []StatementAddsUp` |
| | `LedgerMatchesCache`, `DriftStaysBounded` | `Spec => []DriftFree`, `Spec => []DriftBounded` |
| | `LedgerIsConserved` | `Spec => []LedgerConserves` |
| ListsProofs | `TypeCorrect`, `DeletionsAnswered` | `Spec => []TypeOK`, `Spec => []DeletionAnswersHold` (SavingsGoals) |
| | `ListsAreTyped` | `ListsSpec => []ListsTyped` |
| | `DeletionsAreAskedFor` | `ListsSpec => OnlyAskedDeleted` |
| | `DeletedLeavesScreen`, `LabelIsTruthful`, `PagesStayWithinReports`, `PanelsWait` | `DeletedIsGone`, `PageLabelTruthful`, `WithinPages`, `OneRequestPerPanel`, always |
| FormsProofs | `FormsAreTyped` | `FormsSpec => []FormsTyped` |
| | `SentElsewhere`, `WaitsOnScreen`, `LateAnswerClosesNothing` | `NeverToItself`, `PendingOnScreen`, `ClosedByOwnAnswer` |
| | `CashIsNamedCash`, `SentIsDelivered`, `SavesKeepPicture` | `CashNamedCash`, `SentMeansDelivered`, `SaveKeepsPicture` |
| | `ChecksumsAreRemainders`, `PagersLeadEverywhere`, `FiguresAreSums` | `ChecksumIsRemainder`, `PagerLeadsEverywhere`, `FiguresAddUp` |
| DataHooksProofs | `TypeCorrect`, `FreshIsNew` | `TypeOK`, `FreshIncludesAcknowledged` |
| ShellProofs | `ShellIsTyped` | `ShellSpec => []ShellTyped` |
| | `GuardedPagesHaveUsers`, `ShellIsCurrent`, `CardsAreTruthful` | `UserIsThere`, `ShellNamesSession`, `CardsTruthful` |

Each closes with PTL over an initial step, a step per action and the implication.
`Forms`, `Lists` and `Shell` first split a step of the composition into a step or a
stutter of each component (`FormsSteps`, `ListsSteps`, `ShellSteps`).

### Debits are covered

`NoOverdraft` is not inductive. That a debit is covered was checked two or
more statements earlier, so the invariant carries the check along:

* `Vetted`: the body passed validation (the amount is positive, the two
  accounts differ).
* `Funded`: from the funds check to the debit the request holds the lock of
  the source row, has not yet changed its balance, and the balance still
  covers the amount (`Covered`).
* `Unwritten`, `WritesGuarded`: an uncommitted change exists only under its
  row's lock, is in whole cents, fits the column, and lowers no balance to
  below zero. So a commit by one request leaves the balances that others rely
  on alone, and its own debits are covered.
* `Loaded`: a payment past its status check is of an invoice that exists,
  whose amount is whole cents and not negative.
* Balances are whole cents. This is what makes rounding harmless: a balance of
  whole cents that covers an amount covers the rounded amount too.

The proof goes through lemmas about the shared statements (what `LockAccount`,
`Post`, `Commit`, `Abort` preserve), one per action for the handlers, and
closes with PTL. Rounding is handled by arithmetic lemmas on
`HalfAwayFromZero`.

### What a request leaves behind

`EffectInv` adds to `IInv` what each request has inserted at each statement
(`Inserted`) and what its client was told (`Told`). A commit publishes `work[r]`
as a whole, so atomicity is a statement about `work[r]` at "commit": it holds both
rows of an own transfer, or the paid mark of a payment with its debit, because the
statements before put them there in order. The answers follow as rows by `r` exist
only once it is "done", and a refusal is given only where nothing was inserted or
will be published. `OthersAlone` is the frame: one request's step says nothing of
another's rows, since a row names its request.

### The handlers implement AtomicBank

`AtomicBank` computes a balance from the committed balance of the moment; the code
computed it at an earlier `UPDATE`. `ExactInv` says why both agree:

* `BooksExact`: from its first posting to COMMIT a transaction holds exactly the
  writes of its request: on the accounts posted to so far (`Posted`), the rounded new
  balance over the balance committed *now*, the ledger entry and one row; elsewhere
  nothing. It survives other requests' steps because those accounts are locked
  (`OthersExact`).
* `Permitted`: the ownership and funds checks that lie behind a statement hold still
  at COMMIT. Owners never change; funds are covered as the source stays locked until
  the end, longer than `Funded` needs for `NoOverdraft`.

Each step is then one of AtomicBank's or a stutter (`Simulated`): beginning, locking,
posting, marking and cleaning up are invisible; a passed look-up outside the lock is
`Observe`; a refusal or a fault is `Refuse`, whose reason is true at that moment;
COMMIT is `Move`, where the postings of the abstract step are shown to be those of
`BooksExact`.

### The books

`BooksInv` adds to `ExactInv` that invoices are in whole cents and that finitely
many rows were ever inserted. What a COMMIT does to one account follows from
`BooksExact` (`CommitMoves`): the balance becomes `Numeric2` of the old one plus
the change, the ledger grows by `Numeric4` of the entry, and exactly one row with that
change appears (`CommitRowsOn`). The four theorems are that step, summed:

* a whole-cent posting is exact in both columns: the books move together
  (`DriftFree`), and a balance by the amounts of its rows (`StatementAddsUp`);
* otherwise the two roundings leave at most half a cent and half a tick per row, and
  a payment its own amount, since it has no entry (`DriftBounded`);
* an own transfer's entries cancel, as `Numeric4` rounds a debit as it rounds a credit
  (`LedgerConserves`), whatever the cached balances do.

That an earlier row was of a whole-cent request stays true, as a row names its
request and a body never changes (`RowsKeepRequests`).

### The send-money dialog

`PendingOnScreen` is not inductive: with two transfers in flight from one dialog,
the answer of one would leave the other behind. `OneInFlight` excludes that;
`DialogsOpened` makes the number of a new dialog fresh, so that no transfer of an
earlier one counts as its own. `NeverToItself` needs `ConfirmSound`: the check is
made when the form is submitted, and the forms are not editable until the
confirmation is answered.

### The other forms

* `CashInv`: a form, a confirmation and a posted body are each named by their source;
  "Cash deposit" is written by the choice of cash and taken back by another choice.
* `StatementInv`: a request for a mail that is on its way back as a success
  has its mail in the inbox (`Delivered`); the toast comes last.
* `PictureInForm`: the open form has the picture that was acknowledged while it was
  open, and hence sends it.
* Pager: the pages are described position by position (`PagesShown`), for more than
  seven pages with the two ellipses there or not, and the property is read off.

### Computations by loops

The library's folds are a CHOOSE of a recursive function over sets. `SumProofs`
shows that the recursion has a solution and only one, not by an induction theorem but
through a smallest counterexample among finite sets (`SmallestSet`), and from it what a
sum does when an element comes, goes or changes. For folds over a sequence it has
`EveryNatural`, induction for what a set can express, and `FoldValues`: a fold whose
steps stay within a set of values (`Stays`) is the last of a sequence of values in
which each follows from the one before. With that, three loops are proved correct for
inputs of any length:

* the checksum: the number read so far (`Writing`) and the remainder after each chunk
  (`Reducing`) stay congruent, as writing a digit preserves equal remainders
  (`SameAppended`) and the chunks are consecutive (`ChunksAre`, `WrittenOn`);
* the monthly chart: after k days each month's bar is the sum of its days among them;
* the currency table: likewise with accounts.

### Fresh entries

`FreshIncludesAcknowledged` speaks of all entries, on the screen or not, and of answers
under way. Its invariant `EntryNewEnough` adds that what counts as fresh, or was read, is
an answer at all. An acknowledgement raises what is owed everywhere at once; that every
entry it touches is stale afterwards, with its answer recalled or marked, is
`InvalidateRecalls` and `OvertakenKept` together with `InvalidatesEnough` (a hook invalidates
at least what its mutation writes; without that, an entry stays fresh and the property
fails, as its mutant shows). `QueryCacheProofs` has the lemmas on the operations of an
entry.

### The session

`ChecksAreCurrent`: outside the moments between a sign-in's answer and the
navigation that ends it, the user on the page, and the one a check is about to
bring, is the owner of the cookie, unless the cookie is gone. A sign-in can only
start where the form is, on the login page, so that its new cookie cannot overtake
an older user on a guarded page.

### Cards and error reports

`CardInv`: the entry of a range is `Sound` (what it holds or will bring are answers
about that range, `AnswersOf`, among which refusals only where the hook does not look;
what is not stale is there) and, while shown, `Settled`: at rest without data only after
an error. So "empty" was answered (`NoneIsAnswered`), and what is drawn in full colour,
fetched or not under way, is of its range (`RestIsOfRange`).

`ReportsInv`: an error causes at most two reports and four events; a report under way
weighs three, as it may become three events or a row and one. The weights under way and
the rows recorded are a sum that steps move but do not raise, except by ten for each
error: hence at most ten rows for each, and no loop.

### The answer of a deletion

`Known` is what a request has learnt of its goal: past a DELETE that hit nothing,
the goal is not its user's (`~Owns`), and once it was told "ok" or "not found", the
goal is gone. Others preserve it as an update keeps the owner, a deletion
only removes, and a new goal gets an identifier nobody has named. `RowsGiven` ties the
owner of a row to `given`, which outlives the row.

### Lists and panels

* `WithoutGone` (recipients): no page that counts as fresh, and no answer under way,
  has a row whose deletion was acknowledged, unless overtaken. An acknowledgement
  makes every page stale, recalls the answer of the one on the screen and marks the
  others; a page read since cannot have the row, which is not saved. `FreshAtRest`: what
  is on the screen, at rest and without an error, counts as fresh.
* `QuestionsAsked`: an open question was asked by its row's own button, or its request is
  under way. `OnlyAskedDeleted` then follows for the requests, as only "Confirm" sends
  one, and for the rows, as only a request that was sent removes one.
* `ReportInv`: `DeletionShown` is the same for deleting all reports; `PagesWithin` says,
  as long as nothing was deleted, that a page which was asked for is reached by the
  reports of its filter (`Reaches`), and so are the answers for it: reports are only
  added, and "Next" is offered only by a total that was true.
* `LabelInv`: an entry's answers say which page they are of, and the page shown has
  data, an error, or a fetch under way; rows of another page show only while that
  fetch runs, and then no label is shown.
* `PanelInv`: a request remembers the panel it was sent from, and panels are counted,
  so that a panel opened anew has none in flight.

### Only model-checked

Liveness under fairness (`EveryRequestEnds`, `AcknowledgedIsShown`,
`SubmitIsAnswered`, `SkeletonEnds`, `RecordingEnds`), which is out of the prover's
reach, and the four runs that refute. `TotalIsInItsCurrency` and the others under
"Known not to hold" are not proved to fail in general.

## Not modelled

* Text: descriptions, references, IBANs on the server, currencies of accounts in
  the handlers (carried along, never looked at); layout, charts, PDF, wording.
* Read-only SQL: the statistics of the dashboard, balance history, money flow. They
  change no state; what the browser does with their answers is in `Cards` and
  `Figures`.
* The page and the count of a list are two reads on two connections; the pages'
  models read both at once. A row between the two makes a pager one row wrong
  until the next fetch.
* Passwords, the token's signature and its time, and Bearer tokens: no client in
  the repository sends one (`auth/middleware.rs:149`).
* The connection that the `AuthUser` extractor uses briefly before a handler starts;
  accounts being opened or closed (no route does it).
* Fetches that wait for the network, outside `Cards`: there a request offline fails.
* Two browsers, or two tabs with caches of their own: `elsewhere` and `outside` in
  the list modules stand for what others do to the rows.
* Desktop shell, deployment, start-up, seeds (used as `Init`), generated routes and
  vendored interface components.

## Plan

What remains, the most useful first:

1. The lemmas on the pieces of liveness that need no fairness: that a request which is
   done holds no lock and no connection, and that each statement of a handler leads
   towards its end.
2. The pages over `DataHooks` instead of over entries of their own, so that one
   cache serves the dialog, the wallet and the lists.
3. Page and count of a list as two reads.
4. Fetches that wait for the network (`paused`) in every module over `QueryCache`, as
   in `Cards`.
