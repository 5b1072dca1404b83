------------------------------ MODULE Deposits ------------------------------
(***************************************************************************)
(* POST /api/deposits: DepositsDb::execute and its handler.                *)
(***************************************************************************)
EXTENDS Database

DepositRefusal(b) ==
    IF ~ValidAmount(b.amount) THEN "invalid"
    ELSE IF b.source = "bank_transfer" /\ ~b.iban THEN "missing iban"
    ELSE "none"

DepositReceive(r, b) ==
    /\ b.op = "deposit"
    /\ req' = [req EXCEPT ![r] = b]
    /\ LET refusal == DepositRefusal(b) IN
        /\ pc' = [pc EXCEPT ![r] = IF refusal = "none" THEN "begin" ELSE "done"]
        /\ resp' = [resp EXCEPT ![r] = refusal]
    /\ UNCHANGED <<lock, work, storeVars>>

DepositBegin(r) == At(r, "deposit", "begin") /\ Acquire(r, "target")

DestinationRefusal(b) ==
    IF b.to \in Open /\ Owner[b.to] = b.user THEN "none" ELSE "account not found"

DepositTarget(r) ==
    /\ At(r, "deposit", "target")
    /\ LockAccount(r, req[r].to, DestinationRefusal(req[r]), "credit")

\* Regression: the CREDIT entry is not inserted.
DepositCreditUnledgered(r) ==
    LET b == req[r] IN
    /\ At(r, "deposit", "credit")
    /\ \/ Post(r, b.to, "credit", b.amount, 0, "commit")
       \/ PostOverflow(r, b.to, b.amount)

DepositCredit(r) ==
    LET b == req[r] IN
    /\ At(r, "deposit", "credit")
    /\ \/ Post(r, b.to, "credit", b.amount, b.amount, "commit")
       \/ PostOverflow(r, b.to, b.amount)

DepositStep(r) == DepositBegin(r) \/ DepositTarget(r) \/ DepositCredit(r)
=============================================================================
