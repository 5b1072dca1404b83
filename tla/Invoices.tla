------------------------------ MODULE Invoices ------------------------------
(***************************************************************************)
(* POST /api/invoices, PATCH /api/invoices/:id/status and                  *)
(* POST /api/invoices/:id/pay.                                             *)
(***************************************************************************)
EXTENDS Database

Payable == {"sent", "overdue"}

\* Regression: WHERE unid without user_unid.
InvoiceOfAnyone(i, user) == invoice[i].status # "absent"

InvoiceOf(i, user) == invoice[i].status # "absent" /\ invoice[i].owner = user

-----------------------------------------------------------------------------
(* Paying an invoice *)

PayReceive(r, b) ==
    /\ b.op = "pay"
    /\ req' = [req EXCEPT ![r] = b]
    /\ pc' = [pc EXCEPT ![r] = "load"]
    /\ UNCHANGED <<resp, lock, work, storeVars>>

\* get_by_unid runs on the pool, before and outside the transaction: the row
\* is not locked and its status is looked at once, here.
PayLoad(r) ==
    LET b == req[r] IN
    /\ At(r, "pay", "load")
    /\ PoolHasRoom
    /\ \/ ~InvoiceOf(b.invoice, b.user) /\ Reply(r, "invoice not found")
       \/ /\ InvoiceOf(b.invoice, b.user)
          /\ invoice[b.invoice].status \notin Payable
          /\ Reply(r, "not payable")
       \/ /\ InvoiceOf(b.invoice, b.user)
          /\ invoice[b.invoice].status \in Payable
          /\ Goto(r, "begin")
    /\ UNCHANGED <<lock, work, storeVars>>

PayBegin(r) == At(r, "pay", "begin") /\ Acquire(r, "source")

\* No statement updates invoices.amount, so the amount loaded is the row's.
Due(b) == invoice[b.invoice].amount

PayRefusal(b) ==
    IF b.from \notin Open \/ Owner[b.from] # b.user THEN "account not found"
    ELSE IF balance[b.from] < Due(b) THEN "insufficient funds"
    ELSE "none"

\* Regression: the payment reads its account without FOR UPDATE.
PaySourceUnlocked(r) ==
    /\ At(r, "pay", "source")
    /\ LockAccountUnlocked(r, req[r].from, PayRefusal(req[r]), "debit")

PaySource(r) ==
    /\ At(r, "pay", "source")
    /\ LockAccount(r, req[r].from, PayRefusal(req[r]), "debit")

\* Debit the account and insert the transactions row; no ledger entry is made.
PayDebit(r) ==
    LET b == req[r] IN
    /\ At(r, "pay", "debit")
    /\ Post(r, b.from, "transfer_out", -Due(b), 0, "mark")

\* Regression: AND status IN ('sent', 'overdue'), the row count not looked at.
PayMarkIfPayable(r) ==
    LET i == req[r].invoice IN
    /\ At(r, "pay", "mark")
    /\ RowFree(r, i)
    /\ lock' = [lock EXCEPT ![i] = r]
    /\ work' = IF invoice[i].status \in Payable
                 THEN [work EXCEPT ![r].paid = @ \cup {i}] ELSE work
    /\ Goto(r, "commit")
    /\ UNCHANGED storeVars

\* UPDATE invoices SET status = 'paid' WHERE unid: whatever the status is now.
PayMark(r) ==
    LET i == req[r].invoice IN
    /\ At(r, "pay", "mark")
    /\ RowFree(r, i)
    /\ lock' = [lock EXCEPT ![i] = r]
    /\ work' = [work EXCEPT ![r].paid = @ \cup {i}]
    /\ Goto(r, "commit")
    /\ UNCHANGED storeVars

-----------------------------------------------------------------------------
(* Changing the status *)

StatusReceive(r, b) ==
    /\ b.op = "status"
    /\ req' = [req EXCEPT ![r] = b]
    /\ LET known == b.status \in Statuses IN
        /\ pc' = [pc EXCEPT ![r] = IF known THEN "begin" ELSE "done"]
        /\ resp' = [resp EXCEPT ![r] = IF known THEN "none" ELSE "invalid"]
    /\ UNCHANGED <<lock, work, storeVars>>

StatusBegin(r) == At(r, "status", "begin") /\ Acquire(r, "update")

\* One auto-committed UPDATE that waits for the row lock; every status may
\* follow every other.
StatusUpdate(r) ==
    LET b == req[r] IN
    /\ At(r, "status", "update")
    /\ IF InvoiceOf(b.invoice, b.user)
         THEN /\ RowFree(r, b.invoice)
              /\ invoice' = [invoice EXCEPT ![b.invoice].status = b.status]
              /\ \E answer \in Outcome : Reply(r, answer)
         ELSE Reply(r, "invoice not found") /\ UNCHANGED invoice
    /\ UNCHANGED <<lock, work, balance, ledger, txrows, recipients>>

-----------------------------------------------------------------------------
(* Creating an invoice *)

CreateReceive(r, b) ==
    /\ b.op = "create"
    /\ req' = [req EXCEPT ![r] = b]
    /\ LET valid == ValidAmount(b.amount) IN
        /\ pc' = [pc EXCEPT ![r] = IF valid THEN "execute" ELSE "done"]
        /\ resp' = [resp EXCEPT ![r] = IF valid THEN "none" ELSE "invalid"]
    /\ UNCHANGED <<lock, work, storeVars>>

\* The amount is rounded by the column and the status is the column's default.
CreateInsert(r) ==
    LET b == req[r] IN
    /\ At(r, "create", "execute")
    /\ PoolHasRoom
    /\ \E i \in Invoices :
        /\ invoice[i].status = "absent"
        /\ invoice' = [invoice EXCEPT ![i] = [owner |-> b.user,
                                              amount |-> Numeric2(b.amount),
                                              status |-> "draft"]]
    /\ \E answer \in Outcome : Reply(r, answer)
    /\ UNCHANGED <<lock, work, balance, ledger, txrows, recipients>>

\* The random six-digit number is taken by another invoice (UNIQUE index).
CreateFails(r) ==
    /\ At(r, "create", "execute")
    /\ PoolHasRoom
    /\ \E i \in Invoices : invoice[i].status # "absent"
    /\ Reply(r, "internal")
    /\ UNCHANGED <<lock, work, storeVars>>

InvoiceReceive(r, b) == PayReceive(r, b) \/ StatusReceive(r, b) \/ CreateReceive(r, b)

InvoiceStep(r) ==
    \/ PayLoad(r)
    \/ PayBegin(r)
    \/ PaySource(r)
    \/ PayDebit(r)
    \/ PayMark(r)
    \/ StatusBegin(r)
    \/ StatusUpdate(r)
    \/ CreateInsert(r)
    \/ CreateFails(r)
=============================================================================
