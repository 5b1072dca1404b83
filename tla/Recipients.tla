----------------------------- MODULE Recipients -----------------------------
(***************************************************************************)
(* DELETE /api/recipients/:id: one auto-committed statement, which may run *)
(* while a transfer to the same recipient is under way.                    *)
(***************************************************************************)
EXTENDS Database

DeleteReceive(r, b) ==
    /\ b.op = "delete"
    /\ req' = [req EXCEPT ![r] = b]
    /\ pc' = [pc EXCEPT ![r] = "execute"]
    /\ UNCHANGED <<resp, lock, work, storeVars>>

RecipientDelete(r) ==
    LET b == req[r]
        found == b.recipient \in recipients /\ RecipientOwner[b.recipient] = b.user
    IN
    /\ At(r, "delete", "execute")
    /\ PoolHasRoom
    /\ IF found
         THEN /\ recipients' = recipients \ {b.recipient}
              /\ \E answer \in Outcome : Reply(r, answer)
         ELSE Reply(r, "recipient not found") /\ UNCHANGED recipients
    /\ UNCHANGED <<lock, work, balance, ledger, txrows, invoice>>
=============================================================================
