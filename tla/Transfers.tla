----------------------------- MODULE Transfers -----------------------------
(***************************************************************************)
(* POST /api/transfers: TransfersDb::execute and its handler.  A transfer  *)
(* debits an account of the caller and either names a saved recipient or   *)
(* credits another account of the caller.                                  *)
(***************************************************************************)
EXTENDS Database

\* Answers given before any connection is asked for, in the code's order.
TransferRefusal(b) ==
    IF ~ValidAmount(b.amount) THEN "invalid"
    ELSE IF b.toAccount = None <=> b.toRecipient = None THEN "account not found"
    ELSE IF b.from = b.toAccount THEN "same account"
    ELSE "none"

TransferReceive(r, b) ==
    /\ b.op = "transfer"
    /\ req' = [req EXCEPT ![r] = b]
    /\ LET refusal == TransferRefusal(b) IN
        /\ pc' = [pc EXCEPT ![r] = IF refusal = "none" THEN "begin" ELSE "done"]
        /\ resp' = [resp EXCEPT ![r] = refusal]
    /\ UNCHANGED <<lock, work, storeVars>>

TransferBegin(r) == At(r, "transfer", "begin") /\ Acquire(r, "source")

SourceRefusal(b) ==
    IF b.from \notin Open \/ Owner[b.from] # b.user THEN "account not found"
    ELSE IF balance[b.from] < b.amount THEN "insufficient funds"
    ELSE "none"

\* Lock the source row, then check its owner and its balance.
TransferSource(r) ==
    LET b == req[r] IN
    /\ At(r, "transfer", "source")
    /\ LockAccount(r, b.from, SourceRefusal(b),
                   IF b.toRecipient # None THEN "recipient" ELSE "target")

\* Read the saved recipient; its row is not locked.
TransferRecipient(r) ==
    LET b == req[r]
        found == b.toRecipient \in recipients /\ RecipientOwner[b.toRecipient] = b.user
    IN
    /\ At(r, "transfer", "recipient")
    /\ IF found THEN Goto(r, "debit") ELSE Return(r, "recipient not found")
    /\ UNCHANGED <<lock, work, storeVars>>

\* Regression: the destination's owner is not compared.
TargetRefusalAnyOwner(a, user) == IF a \in Open THEN "none" ELSE "account not found"

TargetRefusal(a, user) ==
    IF a \in Open /\ Owner[a] = user THEN "none" ELSE "account not found"

\* Lock the destination row after the source row, then check its owner.
TransferTarget(r) ==
    LET b == req[r] IN
    /\ At(r, "transfer", "target")
    /\ LockAccount(r, b.toAccount, TargetRefusal(b.toAccount, b.user), "credit")

\* Regression: the credit runs on the pool and not in the transaction.
TransferCreditOnPool(r) ==
    LET b == req[r] IN
    /\ At(r, "transfer", "credit")
    /\ PostingFits(r, b.toAccount, b.amount)
    /\ balance' = [balance EXCEPT ![b.toAccount] = Updated(r, b.toAccount, b.amount)]
    /\ ledger' = [ledger EXCEPT ![b.toAccount] = @ + Numeric4(b.amount)]
    /\ txrows' = txrows \cup {TxRow(r, b.toAccount, "transfer_in", b.amount)}
    /\ Goto(r, "debit")
    /\ UNCHANGED <<lock, work, invoice, recipients>>

TransferCredit(r) ==
    LET b == req[r] IN
    /\ At(r, "transfer", "credit")
    /\ \/ Post(r, b.toAccount, "transfer_in", b.amount, b.amount, "debit")
       \/ PostOverflow(r, b.toAccount, b.amount)

\* Regression: the DEBIT entry is not inserted.
TransferDebitUnledgered(r) ==
    LET b == req[r] IN
    /\ At(r, "transfer", "debit")
    /\ Post(r, b.from, "transfer_out", -b.amount, 0, "commit")

\* Regression: the DEBIT entry takes the amount as the transactions row has it.
TransferDebitRounded(r) ==
    LET b == req[r] IN
    /\ At(r, "transfer", "debit")
    /\ Post(r, b.from, "transfer_out", -b.amount, Numeric2(-b.amount), "commit")

TransferDebit(r) ==
    LET b == req[r] IN
    /\ At(r, "transfer", "debit")
    /\ Post(r, b.from, "transfer_out", -b.amount, -b.amount, "commit")

TransferStep(r) ==
    \/ TransferBegin(r)
    \/ TransferSource(r)
    \/ TransferRecipient(r)
    \/ TransferTarget(r)
    \/ TransferCredit(r)
    \/ TransferDebit(r)
=============================================================================
