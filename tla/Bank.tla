-------------------------------- MODULE Bank --------------------------------
(***************************************************************************)
(* The banking backend: every request is one handler run of the transfer,  *)
(* deposit, invoice or recipient routes against the shared database.       *)
(***************************************************************************)
EXTENDS Transfers, Deposits, Invoices, Recipients, FiniteSetsExt

Init ==
    /\ pc = [r \in Requests |-> "idle"]
    /\ req = [r \in Requests |-> None]
    /\ resp = [r \in Requests |-> "none"]
    /\ lock = [row \in Row |-> None]
    /\ work = [r \in Requests |-> NoWork]
    /\ balance = InitialBalance
    /\ ledger = InitialBalance
    /\ txrows = {}
    /\ invoice = InitialInvoice
    /\ recipients = InitialRecipients

\* A client sends a request; its handler validates it.
Receive(r) ==
    /\ pc[r] = "idle"
    /\ \E b \in Bodies :
        \/ TransferReceive(r, b)
        \/ DepositReceive(r, b)
        \/ InvoiceReceive(r, b)
        \/ DeleteReceive(r, b)

\* The steps of a handler that neither the client nor a fault causes.
Step(r) ==
    \/ TransferStep(r)
    \/ DepositStep(r)
    \/ InvoiceStep(r)
    \/ RecipientDelete(r)
    \/ Commit(r)
    \/ Rollback(r)

Fault(r) == AcquireTimeout(r) \/ StatementError(r) \/ Abandon(r)

\* Every request has been answered and cleaned up.
Finished == \A r \in Requests : pc[r] = "done"

Next ==
    \/ \E r \in Requests : Receive(r) \/ Step(r) \/ DeadlockAbort(r) \/ Fault(r)
    \/ Finished /\ UNCHANGED vars

Spec == Init /\ [][Next]_vars

\* The runtime polls every handler, the clean-up of a dropped transaction runs,
\* and Postgres looks for deadlocks; faults and clients owe nothing.
FairSpec == Spec /\ \A r \in Requests : /\ WF_vars(Step(r))
                                        /\ WF_vars(DeadlockAbort(r))

-----------------------------------------------------------------------------
(* Refinement *)

\* A payment has seen a payable invoice, a transfer its recipient, and is not
\* answered yet.
Seen == [r \in Requests |->
            /\ resp[r] = "none"
            /\ \/ /\ pc[r] \in {"begin", "source", "debit", "mark", "commit"}
                  /\ req[r].op = "pay"
               \/ /\ pc[r] \in {"debit", "commit"}
                  /\ req[r].op = "transfer"
                  /\ req[r].toRecipient # None]

Atomic == INSTANCE AtomicBank WITH seen <- Seen

\* Locks, transactions and rollbacks make every request atomic: the handlers
\* implement AtomicBank, with COMMIT as the moment a request takes effect.
ImplementsAtomicBank == Atomic!Spec

-----------------------------------------------------------------------------
(* Properties *)

Labels == InTransaction \cup {"idle", "load", "begin", "update", "execute",
                              "rollback", "done"}
Answers == {"none", "ok", "invalid", "account not found", "same account",
            "insufficient funds", "recipient not found", "missing iban",
            "invoice not found", "not payable", "internal"}
Kinds == {"transfer_in", "transfer_out", "credit"}
TxRows == [by: Requests, account: Accounts, kind: Kinds, amount: Int]
Work == [balance: [Accounts -> Int], ledger: [Accounts -> Int],
         rows: SUBSET TxRows, paid: SUBSET Invoices]

\* Every variable has the type the code's tables and values give it, and an
\* account's cached balance always fits its NUMERIC(15,2) column.
TypeOK ==
    /\ pc \in [Requests -> Labels]
    /\ req \in [Requests -> Bodies \cup {None}]
    /\ resp \in [Requests -> Answers]
    /\ lock \in [Row -> Requests \cup {None}]
    /\ work \in [Requests -> Work]
    /\ balance \in [Accounts -> -BalanceCap .. BalanceCap]
    /\ ledger \in [Accounts -> Int]
    /\ txrows \subseteq TxRows
    /\ invoice \in [Invoices -> InvoiceRow]
    /\ recipients \subseteq Recipients

\* No interleaving of transfers and payments lowers an account to below zero:
\* the funds check and the debit are one critical section under FOR UPDATE.
NoOverdraft ==
    [][\A a \in Accounts : balance'[a] < balance[a] => balance'[a] >= 0]_vars

RowsOn(a) == {t \in txrows : t.account = a}
RowsBy(r) == {t \in txrows : t.by = r}
IsPayment(t) == req[t.by].op = "pay"
WholeCentRequest(r) == req[r].op = "pay" \/ WholeCents(req[r].amount)
SumAmounts(rows) == SumFunctionOnSet([t \in rows |-> t.amount], rows)

\* What each committed row of transactions says adds up to the change of the
\* cached balance of its account, as long as amounts are whole cents.
StatementAddsUp ==
    \A a \in Accounts :
        (\A t \in RowsOn(a) : WholeCentRequest(t.by))
            => balance[a] = InitialBalance[a] + SumAmounts(RowsOn(a))

\* check_balance_drift() finds nothing on an account whose committed rows are
\* whole-cent deposits and transfers.
DriftFree ==
    \A a \in Accounts :
        (\A t \in RowsOn(a) : ~IsPayment(t) /\ WholeCentRequest(t.by))
            => balance[a] = ledger[a]

\* The cached balance never leaves the ledger by more than the unledgered
\* payments and, per row, half a cent plus half a tick of rounding.
DriftBounded ==
    \A a \in Accounts :
        LET paid == SumAmounts({t \in RowsOn(a) : IsPayment(t)})
            drift == balance[a] - ledger[a] - paid
            bound == Cardinality(RowsOn(a)) * ((Cent + Tick) \div 2)
        IN  -bound <= drift /\ drift <= bound

\* Rows that move money in from, or out to, somewhere else than an account
\* here, and the ledger entries made beside them.
IsExternal(t) ==
    \/ req[t.by].op = "deposit"
    \/ req[t.by].op = "transfer" /\ req[t.by].toAccount = None
ExternalRows == {t \in txrows : IsExternal(t)}
EntryOf(t) == Numeric4(IF t.kind = "credit" THEN req[t.by].amount
                                            ELSE -req[t.by].amount)

\* Own-account transfers cancel out in the ledger, whatever digits the amount
\* has: only deposits and transfers to recipients change its total.
LedgerConserves ==
    SumFunctionOnSet(ledger, Accounts) =
        SumFunctionOnSet(InitialBalance, Accounts)
            + SumFunctionOnSet([t \in ExternalRows |-> EntryOf(t)], ExternalRows)

\* A transfer between own accounts shows up on both of them or on neither.
TransferAtomic ==
    \A r \in Requests :
        RowsBy(r) # {} /\ req[r].op = "transfer" /\ req[r].toAccount # None
            => \E in, out \in RowsBy(r) :
                /\ RowsBy(r) = {in, out}
                /\ in.account = req[r].toAccount /\ out.account = req[r].from
                /\ in.amount = -out.amount /\ in.amount > 0

\* An answer tells the truth about the effect: "ok" to a request that moves
\* money means its rows are there, a refusal means they never will be.
AnswerMatchesEffect ==
    \A r \in Requests :
        /\ resp[r] = "ok" /\ req[r].op \in {"transfer", "deposit", "pay"}
              => RowsBy(r) # {}
        /\ resp[r] \notin {"none", "ok", "internal"} => RowsBy(r) = {}

NewPayments(i) == {t \in txrows' \ txrows : req[t.by].op = "pay"
                                              /\ req[t.by].invoice = i}

\* The debit of a payment and the invoice's status change become visible in
\* the same step.
PaymentMarksPaid ==
    [][\A i \in Invoices : NewPayments(i) # {} => invoice'[i].status = "paid"]_vars

\* "only sent or overdue invoices can be paid": when a payment commits, the
\* invoice is in one of those statuses.  (The code does not keep this.)
PaidOnlyIfPayable ==
    [][\A i \in Invoices : NewPayments(i) # {} => invoice[i].status \in Payable]_vars

\* check_balance_drift() returns no row.  (The code does not keep this.)
NoDrift == \A a \in Accounts : balance[a] = ledger[a]

\* Every request is answered and gives back its locks and its connection.
EveryRequestEnds ==
    \A r \in Requests : pc[r] # "idle" ~> pc[r] = "done"

-----------------------------------------------------------------------------
(* The inductive invariant behind TypeOK and NoOverdraft *)

Active(r) == pc[r] \notin {"idle", "rollback", "done"}

\* A request under way has passed its handler's validation, and a transfer
\* that is to credit an account names one.
Vetted(r) ==
    LET b == req[r] IN
    /\ pc[r] # "idle" => b \in Bodies
    /\ pc[r] \in {"target", "credit"} /\ b.op = "transfer" => b.toAccount # None
    /\ Active(r) => /\ b.op = "transfer" => TransferRefusal(b) = "none"
                    /\ b.op = "deposit" => DepositRefusal(b) = "none"
                    /\ b.op = "status" => b.status \in Statuses
                    /\ b.op = "create" => ValidAmount(b.amount)

\* A payment past its status check is of an invoice that exists.
Loaded(r) ==
    Active(r) /\ pc[r] # "load" /\ req[r].op = "pay"
        => invoice[req[r].invoice].status # "absent"

\* Between the funds check and the debit the source row stays locked, and so
\* its balance still covers the amount.
Covered(r, amount) ==
    /\ lock[req[r].from] = r
    /\ work[r].balance[req[r].from] = 0
    /\ balance[req[r].from] >= amount
Funded(r) ==
    /\ pc[r] \in {"recipient", "target", "credit", "debit"} /\ req[r].op = "transfer"
          => Covered(r, req[r].amount)
    /\ pc[r] = "debit" /\ req[r].op = "pay" => Covered(r, Due(req[r]))

\* Before its first posting a transaction has changed no balance.
Unwritten(r) ==
    pc[r] \notin {"debit", "mark", "commit", "rollback"}
        => \A a \in Accounts : work[r].balance[a] = 0

\* An uncommitted change is made under its row's lock, is in whole cents, fits
\* the column, and lowers no account to below zero.
WritesGuarded(r) ==
    \A a \in Accounts :
        /\ work[r].balance[a] # 0 => lock[a] = r
        /\ WholeCents(work[r].balance[a])
        /\ work[r].balance[a] < 0 => balance[a] + work[r].balance[a] >= 0
        /\ Fits(balance[a] + work[r].balance[a])

\* What the handlers keep true between any two statements of any requests.
IInv ==
    /\ TypeOK
    /\ \A r \in Requests : /\ Vetted(r) /\ Loaded(r)
                           /\ Funded(r) /\ Unwritten(r) /\ WritesGuarded(r)
    /\ \A a \in Accounts : WholeCents(balance[a])
=============================================================================
