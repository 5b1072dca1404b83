------------------------------ MODULE Database ------------------------------
(***************************************************************************)
(* The shared Postgres database and its connection pool as the handlers    *)
(* use them: row locks, transactions whose writes stay private until       *)
(* COMMIT, statement errors, deadlock aborts and asynchronous rollbacks.   *)
(* A request is one HTTP call; pc[r] names the statement its handler is    *)
(* about to issue.                                                         *)
(***************************************************************************)
EXTENDS Money, FiniteSets

CONSTANTS
    Requests,          \* HTTP calls, each handled once
    Users,
    Accounts,          \* account ids a request may name
    Open,              \* those with an accounts row whose closed_at is null
    Owner,             \* [Accounts -> Users], accounts.user_unid
    InitialBalance,    \* the same in the cache and the ledger; the seeds leave
                       \* some accounts below zero
    Invoices,          \* invoice ids; "absent" ones can be created
    InitialInvoice,
    Recipients,        \* saved recipient ids
    RecipientOwner,    \* [Recipients -> Users], recipients.user_unid
    InitialRecipients, \* the recipients that exist at the start
    Bodies,            \* request bodies that clients may send, with their user
    PoolSize,          \* max_connections of the pool
    Faults,            \* faults the run allows: "statement", "abandon", "answer"
    None

VARIABLES
    pc, req, resp,     \* per request: statement, body, answer
    lock,              \* row -> the request whose transaction holds its lock
    work,              \* per request: uncommitted writes of its transaction
    balance,           \* accounts.balance
    ledger,            \* account_balances: sum of CREDIT - DEBIT per account
    txrows,            \* committed rows of transactions
    invoice,           \* invoices
    recipients         \* recipients that exist

storeVars == <<balance, ledger, txrows, invoice, recipients>>
vars == <<pc, req, resp, lock, work, balance, ledger, txrows, invoice, recipients>>

Row == Accounts \cup Invoices

Statuses == {"draft", "sent", "paid", "overdue", "cancelled"}
InvoiceRow == [owner: Users \cup {None}, amount: Int, status: Statuses \cup {"absent"}]

TransferBody == [op: {"transfer"}, user: Users, from: Accounts,
                 toAccount: Accounts \cup {None},
                 toRecipient: Recipients \cup {None}, amount: Int]
DepositBody == [op: {"deposit"}, user: Users, to: Accounts, amount: Int,
                source: {"bank_transfer", "card", "cash"}, iban: BOOLEAN]
PayBody == [op: {"pay"}, user: Users, invoice: Invoices, from: Accounts]
StatusBody == [op: {"status"}, user: Users, invoice: Invoices,
               status: Statuses \cup {"unknown"}]
CreateBody == [op: {"create"}, user: Users, amount: Int]
DeleteBody == [op: {"delete"}, user: Users, recipient: Recipients]

ASSUME DatabaseAssumption ==
    /\ Open \subseteq Accounts
    /\ Accounts \cap Invoices = {}
    /\ None \notin Requests \cup Users \cup Row \cup Recipients
    /\ Owner \in [Accounts -> Users]
    /\ InitialBalance \in [Accounts -> Int]
    /\ \A a \in Accounts : WholeCents(InitialBalance[a]) /\ Fits(InitialBalance[a])
    /\ InitialInvoice \in [Invoices -> InvoiceRow]
    /\ \A i \in Invoices : /\ InitialInvoice[i].amount >= 0
                           /\ WholeCents(InitialInvoice[i].amount)
                           /\ Fits(InitialInvoice[i].amount)
    /\ RecipientOwner \in [Recipients -> Users]
    /\ InitialRecipients \subseteq Recipients
    /\ Bodies \subseteq TransferBody \cup DepositBody \cup PayBody
                          \cup StatusBody \cup CreateBody \cup DeleteBody
    /\ None \notin Bodies
    /\ PoolSize \in Nat \ {0}

\* The accounts table has finitely many rows, so its balances have a sum.
ASSUME AccountsAssumption == IsFiniteSet(Accounts)

-----------------------------------------------------------------------------
(* Helpers *)

NoWork == [balance |-> [a \in Accounts |-> 0], ledger |-> [a \in Accounts |-> 0],
           rows |-> {}, paid |-> {}]

At(r, op, label) == pc[r] = label /\ req[r].op = op

\* Statements issued inside a transaction, and those that hold a connection.
InTransaction == {"source", "recipient", "target", "credit", "debit", "mark", "commit"}
Connected == {r \in Requests : pc[r] \in InTransaction \cup {"update", "rollback"}}
PoolHasRoom == Cardinality(Connected) < PoolSize

\* The row a request is about to lock, for the statements that lock one.
Wanted(r) ==
    CASE pc[r] = "source"             -> req[r].from
      [] pc[r] = "target"             -> IF req[r].op = "transfer" THEN req[r].toAccount
                                                                   ELSE req[r].to
      [] pc[r] \in {"mark", "update"} -> req[r].invoice

RowFree(r, row) == lock[row] \in {None, r}
Blocked(r) == /\ pc[r] \in {"source", "target", "mark", "update"}
              /\ ~RowFree(r, Wanted(r))

\* r waits in a cycle of requests each blocked by the next one.
Deadlocked(r) ==
    \E S \in SUBSET Requests :
        /\ r \in S
        /\ \A s \in S : Blocked(s)
        /\ {lock[Wanted(s)] : s \in S} = S

Released(r) == [row \in Row |-> IF lock[row] = r THEN None ELSE lock[row]]

\* Continue with the next statement.
Goto(r, label) == /\ pc' = [pc EXCEPT ![r] = label]
                  /\ UNCHANGED <<req, resp>>

\* Answer a request that has no open transaction.
Reply(r, answer) == /\ pc' = [pc EXCEPT ![r] = "done"]
                    /\ resp' = [resp EXCEPT ![r] = answer]
                    /\ UNCHANGED req

\* Regression: an early return that leaves its transaction open.
ReturnLeaking(r, answer) == /\ pc' = [pc EXCEPT ![r] = "done"]
                            /\ resp' = [resp EXCEPT ![r] = answer]
                            /\ UNCHANGED req

\* Return early from inside a transaction: the answer is sent at once, while
\* the dropped Transaction leaves its rollback to the connection's clean-up.
Return(r, answer) == /\ pc' = [pc EXCEPT ![r] = "rollback"]
                     /\ resp' = [resp EXCEPT ![r] = answer]
                     /\ UNCHANGED req

\* What a client is told after an effect: the handler's answer, or nothing it
\* can rely on when the connection broke in between.
Outcome == {"ok"} \cup (IF "answer" \in Faults THEN {"internal"} ELSE {})

-----------------------------------------------------------------------------
(* Statements *)

\* Regression: the SELECT without FOR UPDATE.
LockAccountUnlocked(r, a, refusal, next) ==
    /\ IF refusal = "none" THEN Goto(r, next) ELSE Return(r, refusal)
    /\ UNCHANGED <<lock, work, storeVars>>

\* SELECT ... WHERE unid = a AND closed_at IS NULL FOR UPDATE, and the
\* handler's checks on the row it returns.
LockAccount(r, a, refusal, next) ==
    /\ a \in Open => RowFree(r, a)
    /\ lock' = IF a \in Open THEN [lock EXCEPT ![a] = r] ELSE lock
    /\ IF refusal = "none" THEN Goto(r, next) ELSE Return(r, refusal)
    /\ UNCHANGED <<work, storeVars>>

\* The value UPDATE accounts SET balance = balance + change gives the row.
Updated(r, a, change) == Numeric2(balance[a] + work[r].balance[a] + change)

\* Regression: only the amount is checked against its column.
AmountFits(r, a, change) == Fits(Numeric2(change))

\* Both columns the posting writes are NUMERIC(15,2).
PostingFits(r, a, change) == Fits(Updated(r, a, change)) /\ Fits(Numeric2(change))

\* Regression: debits are stored without their sign.
UnsignedTxRow(r, a, kind, change) ==
    [by |-> r, account |-> a, kind |-> kind,
     amount |-> Numeric2(IF change < 0 THEN -change ELSE change)]

TxRow(r, a, kind, change) ==
    [by |-> r, account |-> a, kind |-> kind, amount |-> Numeric2(change)]

\* UPDATE the account, INSERT the transactions row and, where the code does so,
\* the ledger entry; UPDATE takes the row lock unless the request has it.
Post(r, a, kind, change, entry, next) ==
    /\ RowFree(r, a)
    /\ lock' = [lock EXCEPT ![a] = r]
    /\ PostingFits(r, a, change)
    /\ work' = [work EXCEPT ![r] =
           [balance |-> [@.balance EXCEPT ![a] = Updated(r, a, change) - balance[a]],
            ledger |-> [@.ledger EXCEPT ![a] = work[r].ledger[a] + Numeric4(entry)],
            rows |-> @.rows \cup {TxRow(r, a, kind, change)},
            paid |-> @.paid]]
    /\ Goto(r, next)
    /\ UNCHANGED storeVars

\* A statement that fails aborts the transaction: its locks and writes go at
\* once, the connection only when it has been cleaned up.
Abort(r) ==
    /\ lock' = Released(r)
    /\ work' = [work EXCEPT ![r] = NoWork]
    /\ Return(r, "internal")
    /\ UNCHANGED storeVars

\* The posting names a value its column cannot hold.
PostOverflow(r, a, change) ==
    /\ RowFree(r, a)
    /\ ~PostingFits(r, a, change)
    /\ Abort(r)

-----------------------------------------------------------------------------
(* Actions every transaction shares *)

\* The pool hands out a connection; the first statement is the caller's.
Acquire(r, first) ==
    /\ pc[r] = "begin"
    /\ PoolHasRoom
    /\ Goto(r, first)
    /\ UNCHANGED <<lock, work, storeVars>>

\* No connection became free within the pool's acquire timeout.
AcquireTimeout(r) ==
    /\ pc[r] \in {"begin", "load", "execute"}
    /\ ~PoolHasRoom
    /\ Reply(r, "internal")
    /\ UNCHANGED <<lock, work, storeVars>>

\* Regression: the handler answers without tx.commit().
CommitForgotten(r) ==
    /\ pc[r] = "commit"
    /\ lock' = Released(r)
    /\ work' = [work EXCEPT ![r] = NoWork]
    /\ Reply(r, "ok")
    /\ UNCHANGED storeVars

\* COMMIT publishes the writes and releases the locks.
Commit(r) ==
    /\ pc[r] = "commit"
    /\ balance' = [a \in Accounts |-> balance[a] + work[r].balance[a]]
    /\ ledger' = [a \in Accounts |-> ledger[a] + work[r].ledger[a]]
    /\ txrows' = txrows \cup work[r].rows
    /\ invoice' = [i \in Invoices |-> IF i \in work[r].paid
                                        THEN [invoice[i] EXCEPT !.status = "paid"]
                                        ELSE invoice[i]]
    /\ lock' = Released(r)
    /\ work' = [work EXCEPT ![r] = NoWork]
    /\ \E answer \in Outcome : Reply(r, answer)
    /\ UNCHANGED recipients

\* The clean-up of a dropped transaction reaches the server.
Rollback(r) ==
    /\ pc[r] = "rollback"
    /\ lock' = Released(r)
    /\ work' = [work EXCEPT ![r] = NoWork]
    /\ pc' = [pc EXCEPT ![r] = "done"]
    /\ UNCHANGED <<req, resp, storeVars>>

\* Postgres finds the waiting cycle and aborts one of its transactions.
DeadlockAbort(r) ==
    /\ Deadlocked(r)
    /\ Abort(r)

\* Any other error of a statement, BEGIN or COMMIT that the server reports.
StatementError(r) ==
    /\ "statement" \in Faults
    /\ \/ pc[r] \in InTransaction \cup {"update"} /\ Abort(r)
       \/ /\ pc[r] \in {"load", "begin", "execute"}
          /\ Reply(r, "internal")
          /\ UNCHANGED <<lock, work, storeVars>>

\* The client goes away or the connection breaks: the handler's future is
\* dropped between two statements and with it the open transaction.
Abandon(r) ==
    /\ "abandon" \in Faults
    /\ \/ pc[r] \in InTransaction /\ Return(r, "internal")
       \/ pc[r] \in {"load", "begin", "execute"} /\ Reply(r, "internal")
    /\ UNCHANGED <<lock, work, storeVars>>
=============================================================================
