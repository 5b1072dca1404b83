----------------------------- MODULE BankProofs -----------------------------
(***************************************************************************)
(* Theorems about Bank, for every set of requests, users, accounts and     *)
(* invoices and every value of the bounds: its types, what an answer says  *)
(* of the effects, and that the handlers implement AtomicBank.             *)
(***************************************************************************)
EXTENDS Bank, TLAPS

-----------------------------------------------------------------------------
(* Rounding *)

\* A NUMERIC(15,2) column holds whole cents, whatever is assigned to it.
LEMMA RoundingGivesCents ==
    ASSUME NEW x \in Int
    PROVE  Numeric2(x) \in Int /\ WholeCents(Numeric2(x))
  BY DEF Numeric2, HalfAwayFromZero, WholeCents, Cent

\* Rounding never crosses a whole number of cents, zero included.
LEMMA RoundingKeepsOrder ==
    ASSUME NEW x \in Int, NEW y \in Int, WholeCents(y), y <= x
    PROVE  y <= Numeric2(x)
  BY DEF Numeric2, HalfAwayFromZero, WholeCents, Cent

\* A whole-cent amount is stored as it is.
LEMMA CentsAreExact ==
    ASSUME NEW x \in Int, WholeCents(x)
    PROVE  Numeric2(x) = x
  BY DEF Numeric2, HalfAwayFromZero, WholeCents, Cent

LEMMA LedgerRoundingType ==
    ASSUME NEW x \in Int
    PROVE  Numeric4(x) \in Int
  BY DEF Numeric4, HalfAwayFromZero, Tick

LEMMA CentsAdd ==
    ASSUME NEW x \in Int, NEW y \in Int, WholeCents(x), WholeCents(y)
    PROVE  WholeCents(x + y) /\ WholeCents(x - y) /\ WholeCents(0)
  BY DEF WholeCents, Cent

-----------------------------------------------------------------------------
(* The constants *)

\* What the fields of a body are, by its operation.
LEMMA BodyTypes ==
    ASSUME NEW b \in Bodies
    PROVE  /\ b.op = "transfer" => b \in TransferBody
           /\ b.op = "deposit" => b \in DepositBody
           /\ b.op = "pay" => b \in PayBody
           /\ b.op = "status" => b \in StatusBody
           /\ b.op = "create" => b \in CreateBody
           /\ b.op = "delete" => b \in DeleteBody
           /\ b.op \in {"transfer", "deposit", "pay", "status", "create", "delete"}
  BY DatabaseAssumption DEF DatabaseAssumption, TransferBody, DepositBody, PayBody,
     StatusBody, CreateBody, DeleteBody

LEMMA NoWorkType == NoWork \in Work
  BY DEF NoWork, Work

-----------------------------------------------------------------------------
(* Steps of one request and the invariant of the others *)

\* What request r may change of the state that other requests depend on: rows
\* that r has locked, and never the existence or the amount of an invoice.
OnlyTouches(r) ==
    /\ \A s \in Requests \ {r} :
        pc'[s] = pc[s] /\ req'[s] = req[s] /\ work'[s] = work[s]
    /\ \A row \in Row : lock'[row] # lock[row] => /\ lock[row] \in {None, r}
                                                  /\ lock'[row] \in {None, r}
    /\ \A a \in Accounts : balance'[a] # balance[a] => lock[a] = r
    /\ \A i \in Invoices : invoice[i].status # "absent" =>
            invoice'[i].status # "absent" /\ invoice'[i].amount = invoice[i].amount

Guarded(r) == Vetted(r) /\ Loaded(r) /\ Funded(r) /\ Unwritten(r) /\ WritesGuarded(r)

\* Such a step keeps the invariant of every other request.
LEMMA OthersKeep ==
    ASSUME IInv, TypeOK', NEW r \in Requests, OnlyTouches(r),
           NEW s \in Requests \ {r}
    PROVE  Guarded(s)'
  <1> USE DEF IInv
  <1>1. /\ pc'[s] = pc[s] /\ req'[s] = req[s] /\ work'[s] = work[s]
        /\ \A row \in Row : lock[row] = s => lock'[row] = s
        /\ \A a \in Accounts : lock[a] = s => balance'[a] = balance[a]
    BY DatabaseAssumption DEF OnlyTouches, DatabaseAssumption, TypeOK, Row
  <1>2. Vetted(s)'
    BY <1>1 DEF Vetted, Active
  <1>3. Loaded(s)'
    BY <1>1, BodyTypes DEF Loaded, Active, OnlyTouches, PayBody, Vetted
  <1>4. Funded(s)'
    <2>1. CASE pc[s] \in {"recipient", "target", "credit", "debit"} /\ req[s].op = "transfer"
      <3>1. req[s].from \in Accounts /\ Covered(s, req[s].amount)
        BY <2>1, BodyTypes DEF Funded, Vetted, TransferBody
      <3>2. Covered(s, req[s].amount)'
        BY <3>1, <1>1 DEF Covered, Row
      <3> QED BY <2>1, <3>2, <1>1 DEF Funded
    <2>2. CASE pc[s] = "debit" /\ req[s].op = "pay"
      <3>1. /\ req[s].from \in Accounts /\ req[s].invoice \in Invoices
            /\ Covered(s, Due(req[s]))
        BY <2>2, BodyTypes DEF Funded, Vetted, PayBody
      <3>2. Due(req[s])' = Due(req[s])
        BY <2>2, <3>1, <1>1 DEF Loaded, Active, OnlyTouches, Due
      <3>3. Covered(s, Due(req[s]))'
        BY <3>1, <3>2, <1>1 DEF Covered, Row
      <3> QED BY <2>2, <3>3, <1>1 DEF Funded
    <2> QED BY <2>1, <2>2, <1>1 DEF Funded
  <1>5. WritesGuarded(s)'
    <2> SUFFICES ASSUME NEW a \in Accounts
                 PROVE  /\ work'[s].balance[a] # 0 => lock'[a] = s
                        /\ WholeCents(work'[s].balance[a])
                        /\ work'[s].balance[a] < 0 => balance'[a] + work'[s].balance[a] >= 0
                        /\ Fits(balance'[a] + work'[s].balance[a])
      BY DEF WritesGuarded
    <2>1. CASE work[s].balance[a] # 0
      BY <2>1, <1>1 DEF WritesGuarded, Row
    <2>2. CASE work[s].balance[a] = 0
      BY <2>2, <1>1, MoneyAssumption DEF WritesGuarded, Fits, TypeOK, MoneyAssumption
    <2> QED BY <2>1, <2>2
  <1>6. Unwritten(s)'
    BY <1>1 DEF Unwritten
  <1> QED BY <1>2, <1>3, <1>4, <1>5, <1>6 DEF Guarded

-----------------------------------------------------------------------------
(* What each kind of step gives the request that takes it *)

Kept(r) == /\ TypeOK'
           /\ OnlyTouches(r)
           /\ Guarded(r)'
           /\ \A a \in Accounts : WholeCents(balance'[a])

FundedAt(r, label) ==
    /\ label \in {"recipient", "target", "credit", "debit"} /\ req[r].op = "transfer"
          => Covered(r, req[r].amount)
    /\ label = "debit" /\ req[r].op = "pay" => Covered(r, Due(req[r]))

\* r goes from one statement to the next, perhaps locking a row on the way.
LEMMA MoveOn ==
    ASSUME IInv, NEW r \in Requests, NEW label \in Labels,
           pc[r] # "idle", label # "idle",
           label \notin {"rollback", "done"} => Active(r),
           pc' = [pc EXCEPT ![r] = label],
           resp' \in [Requests -> Answers],
           \/ lock' = lock
           \/ \E row \in Row : RowFree(r, row) /\ lock' = [lock EXCEPT ![row] = r],
           UNCHANGED <<req, work, storeVars>>,
           label \notin {"rollback", "done", "load"} /\ req[r].op = "pay"
               => invoice[req[r].invoice].status # "absent",
           label \notin {"debit", "mark", "commit", "rollback"}
               => pc[r] \notin {"debit", "mark", "commit", "rollback"},
           label \in {"target", "credit"} /\ req[r].op = "transfer"
               => req[r].toAccount # None,
           FundedAt(r, label)'
    PROVE  Kept(r)
  <1> USE DEF IInv, storeVars
  <1>1. TypeOK'
    BY DEF TypeOK
  <1>2. OnlyTouches(r)
    BY DEF OnlyTouches, TypeOK, RowFree
  <1>3. Vetted(r)'
    BY DEF Vetted, Active, TypeOK
  <1>4. Loaded(r)'
    BY DEF Loaded, Active, TypeOK
  <1>5. Funded(r)'
    BY DEF Funded, FundedAt, TypeOK
  <1>6. WritesGuarded(r)'
    BY DEF WritesGuarded, TypeOK, Row
  <1>7. \A a \in Accounts : WholeCents(balance'[a])
    OBVIOUS
  <1>8. Unwritten(r)'
    BY DEF Unwritten, TypeOK
  <1> QED BY <1>1, <1>2, <1>3, <1>4, <1>5, <1>6, <1>7, <1>8 DEF Kept, Guarded

\* r loses its locks and its uncommitted writes.
LEMMA LetGo ==
    ASSUME IInv, NEW r \in Requests, NEW label \in {"rollback", "done"},
           pc[r] # "idle",
           pc' = [pc EXCEPT ![r] = label],
           resp' \in [Requests -> Answers],
           lock' = Released(r),
           work' = [work EXCEPT ![r] = NoWork],
           UNCHANGED <<req, storeVars>>
    PROVE  Kept(r)
  <1> USE DEF IInv, storeVars
  <1>1. TypeOK'
    BY NoWorkType DEF TypeOK, Released, Labels
  <1>2. OnlyTouches(r)
    BY DEF OnlyTouches, TypeOK, Released
  <1>3. Vetted(r)' /\ Loaded(r)' /\ Funded(r)'
    BY DEF Vetted, Active, TypeOK, Loaded, Funded
  <1>4. WritesGuarded(r)'
    BY MoneyAssumption DEF WritesGuarded, TypeOK, NoWork, WholeCents, Cent, Fits,
       MoneyAssumption
  <1>5. Unwritten(r)'
    BY DEF Unwritten, TypeOK, NoWork
  <1> QED BY <1>1, <1>2, <1>3, <1>4, <1>5 DEF Kept, Guarded

\* r posts a credit, or a debit that the balance covers, to an account its
\* transaction has not written yet.
LEMMA PostKeeps ==
    ASSUME IInv, NEW r \in Requests, NEW a \in Accounts, NEW kind \in Kinds,
           NEW change \in Int, NEW entry \in Int,
           NEW next \in {"debit", "mark", "commit"},
           Active(r), pc[r] # "load",
           work[r].balance[a] = 0,
           change >= 0 \/ balance[a] + change >= 0,
           Post(r, a, kind, change, entry, next),
           FundedAt(r, next)'
    PROVE  Kept(r)
  <1> DEFINE after == Numeric2(balance[a] + change)
  <1> USE DEF IInv, storeVars
  <1>1. /\ after \in Int /\ WholeCents(after)
        /\ balance[a] \in Int /\ WholeCents(balance[a])
        /\ Numeric2(change) \in Int /\ Numeric4(entry) \in Int
    BY RoundingGivesCents, LedgerRoundingType DEF TypeOK
  <1>2. Updated(r, a, change) = after /\ Fits(after)
    BY DEF Post, PostingFits, Updated, TypeOK
  <1>3. after < balance[a] => after >= 0
    <2>1. CASE change >= 0
      BY <2>1, <1>1, RoundingKeepsOrder
    <2>2. CASE balance[a] + change >= 0
      BY <2>2, <1>1, RoundingKeepsOrder DEF WholeCents, Cent
    <2> QED BY <2>1, <2>2
  <1> DEFINE staged ==
             [balance |-> [work[r].balance EXCEPT ![a] = after - balance[a]],
              ledger |-> [work[r].ledger EXCEPT ![a] = work[r].ledger[a] + Numeric4(entry)],
              rows |-> work[r].rows \cup {TxRow(r, a, kind, change)},
              paid |-> work[r].paid]
  <1>4. /\ work[r] \in Work
        /\ work' = [work EXCEPT ![r] = staged]
        /\ work'[r] = staged
        /\ \A s \in Requests \ {r} : work'[s] = work[s]
    <2>1. work \in [Requests -> Work]
      BY DEF TypeOK
    <2>2. work' = [work EXCEPT ![r] = staged]
      BY <1>2 DEF Post
    <2> QED BY <2>1, <2>2
  <1>5. work'[r] \in Work
    <2>1. TxRow(r, a, kind, change) \in TxRows
      BY <1>1 DEF TxRow, TxRows
    <2> QED BY <1>1, <1>4, <2>1 DEF Work
  <1>6. /\ work'[r].balance[a] = after - balance[a]
        /\ \A b \in Accounts \ {a} : work'[r].balance[b] = work[r].balance[b]
    BY <1>4 DEF Work
  <1>7. /\ pc' = [pc EXCEPT ![r] = next] /\ UNCHANGED <<req, resp, storeVars>>
        /\ RowFree(r, a) /\ lock' = [lock EXCEPT ![a] = r]
    BY DEF Post, Goto
  <1>8. TypeOK'
    BY <1>4, <1>5, <1>7 DEF TypeOK, Labels, InTransaction, Row
  <1>9. OnlyTouches(r)
    BY <1>4, <1>7 DEF OnlyTouches, TypeOK, RowFree, Row
  <1>10. Vetted(r)' /\ Loaded(r)'
    BY <1>7 DEF Vetted, Loaded, Active, TypeOK
  <1>11. Funded(r)' /\ Unwritten(r)'
    BY <1>7 DEF Funded, FundedAt, TypeOK, Unwritten
  <1>12. WritesGuarded(r)'
    <2> SUFFICES ASSUME NEW b \in Accounts
                 PROVE  /\ work'[r].balance[b] # 0 => lock'[b] = r
                        /\ WholeCents(work'[r].balance[b])
                        /\ work'[r].balance[b] < 0 => balance'[b] + work'[r].balance[b] >= 0
                        /\ Fits(balance'[b] + work'[r].balance[b])
      BY DEF WritesGuarded
    <2>1. CASE b = a
      <3>1. /\ work'[r].balance[b] = after - balance[a]
            /\ balance'[b] = balance[a]
            /\ balance[a] + (after - balance[a]) = after
        BY <2>1, <1>1, <1>6, <1>7
      <3>3. WholeCents(after - balance[a])
        <4> HIDE DEF after
        <4> QED BY <1>1, CentsAdd
      <3>2. lock'[b] = r
        BY <2>1, <1>7 DEF TypeOK, Row
      <3> QED BY <3>1, <3>2, <3>3, <1>1, <1>2, <1>3
    <2>2. CASE b # a
      BY <2>2, <1>6, <1>7 DEF WritesGuarded, TypeOK, Row
    <2> QED BY <2>1, <2>2
  <1> QED BY <1>7, <1>8, <1>9, <1>10, <1>11, <1>12 DEF Kept, Guarded

-----------------------------------------------------------------------------
(* Every action keeps the invariant *)

\* Locking an account row: refused requests roll back, others go on.
LEMMA LockAccountKeeps ==
    ASSUME IInv, NEW r \in Requests, NEW a \in Accounts, NEW refusal \in Answers,
           NEW next \in {"recipient", "target", "credit", "debit"},
           pc[r] \in {"source", "target"},
           LockAccount(r, a, refusal, next),
           next \in {"target", "credit"} /\ req[r].op = "transfer"
               => req[r].toAccount # None,
           refusal = "none" => FundedAt(r, next)'
    PROVE  Kept(r)
  <1>1. /\ UNCHANGED <<req, work, storeVars>>
        /\ \/ lock' = lock
           \/ \E row \in Row : RowFree(r, row) /\ lock' = [lock EXCEPT ![row] = r]
    BY DEF LockAccount, Goto, Return, Row
  <1>2. Active(r) /\ resp \in [Requests -> Answers]
    BY DEF Active, IInv, TypeOK
  <1>3. CASE refusal = "none"
    <2>1. pc' = [pc EXCEPT ![r] = next] /\ resp' \in [Requests -> Answers]
      BY <1>2, <1>3 DEF LockAccount, Goto
    <2>2. req[r].op = "pay" => invoice[req[r].invoice].status # "absent"
      BY <1>2 DEF IInv, Loaded
    <2>3. next = "debit" \/ next \notin {"debit", "mark", "commit", "rollback"}
      OBVIOUS
    <2> QED BY <1>1, <1>2, <1>3, <2>1, <2>2, MoveOn DEF Labels, InTransaction
  <1>4. CASE refusal # "none"
    <2>1. pc' = [pc EXCEPT ![r] = "rollback"] /\ resp' \in [Requests -> Answers]
      BY <1>2, <1>4 DEF LockAccount, Return
    <2>2. FundedAt(r, "rollback")'
      BY DEF FundedAt
    <2> QED BY <1>1, <1>2, <2>1, <2>2, MoveOn DEF Labels, InTransaction
  <1> QED BY <1>3, <1>4

LEMMA AbortKeeps ==
    ASSUME IInv, NEW r \in Requests, pc[r] # "idle", Abort(r)
    PROVE  Kept(r)
  <1>1. resp' \in [Requests -> Answers]
    BY DEF Abort, Return, IInv, TypeOK, Answers
  <1> QED BY <1>1, LetGo DEF Abort, Return

\* A transfer under way: its body, and what its validation established.
LEMMA TransferFacts ==
    ASSUME IInv, NEW r \in Requests, req[r].op = "transfer", Active(r)
    PROVE  LET b == req[r] IN
           /\ b \in TransferBody /\ b.amount \in Int /\ b.amount >= 0
           /\ b.from \in Accounts /\ b.from # b.toAccount
           /\ b.toAccount = None \/ b.toAccount \in Accounts
           /\ b.toRecipient = None => b.toAccount # None
           /\ pc[r] \in {"target", "credit"} => b.toAccount # None
  <1>1. req[r] \in TransferBody /\ TransferRefusal(req[r]) = "none"
    BY BodyTypes DEF IInv, Vetted, Active
  <1>2. pc[r] \in {"target", "credit"} => req[r].toAccount # None
    BY DEF IInv, Vetted
  <1> QED BY <1>1, <1>2, MoneyAssumption DEF TransferBody, TransferRefusal, ValidAmount, Cent,
          MoneyAssumption

LEMMA TransferKeeps ==
    ASSUME IInv, NEW r \in Requests, TransferStep(r)
    PROVE  Kept(r)
  <1> DEFINE b == req[r]
  <1>1. Active(r) /\ req[r].op = "transfer" /\ pc[r] # "idle"
    BY DEF TransferStep, TransferBegin, TransferSource, TransferRecipient,
       TransferTarget, TransferCredit, TransferDebit, At, Active
  <1>2. /\ b \in TransferBody /\ b.amount \in Int /\ b.amount >= 0
        /\ b.from \in Accounts /\ b.from # b.toAccount
        /\ b.toAccount = None \/ b.toAccount \in Accounts
        /\ b.toRecipient = None => b.toAccount # None
        /\ pc[r] \in {"target", "credit"} => b.toAccount # None
    BY <1>1, TransferFacts
  <1>3. resp \in [Requests -> Answers]
    BY DEF IInv, TypeOK
  <1>4. CASE TransferBegin(r)
    <2>1. /\ pc' = [pc EXCEPT ![r] = "source"] /\ resp' = resp /\ lock' = lock
          /\ UNCHANGED <<req, work, storeVars>> /\ pc[r] = "begin"
      BY <1>4 DEF TransferBegin, Acquire, Goto
    <2>2. FundedAt(r, "source")'
      BY DEF FundedAt
    <2> QED BY <1>1, <1>3, <2>1, <2>2, MoveOn DEF Labels, InTransaction
  <1>5. CASE TransferSource(r)
    <2> PICK next \in {"recipient", "target"} :
            next = IF b.toRecipient # None THEN "recipient" ELSE "target"
      OBVIOUS
    <2>1. pc[r] = "source" /\ LockAccount(r, b.from, SourceRefusal(b), next)
      BY <1>5 DEF TransferSource, At
    <2>2. SourceRefusal(b) \in Answers
      BY DEF SourceRefusal, Answers
    <2>3. ASSUME SourceRefusal(b) = "none"
          PROVE  FundedAt(r, next)'
      <3>1. b.from \in Open /\ balance[b.from] >= b.amount
        BY <2>3, <1>2 DEF SourceRefusal, IInv, TypeOK
      <3>2. work[r].balance[b.from] = 0
        BY <2>1, <1>2 DEF IInv, Unwritten
      <3>3. lock'[b.from] = r /\ UNCHANGED <<req, work, storeVars>>
        BY <2>1, <2>3, <3>1, <1>2 DEF LockAccount, Goto, IInv, TypeOK, Row
      <3>4. Covered(r, b.amount)'
        BY <3>1, <3>2, <3>3 DEF Covered, storeVars
      <3> QED BY <3>4, <3>3, <1>1 DEF FundedAt
    <2>4. next = "target" => b.toAccount # None
      BY <1>2
    <2> QED BY <2>1, <2>2, <2>3, <2>4, <1>2, LockAccountKeeps
  <1>6. CASE TransferRecipient(r)
    <2> DEFINE found == b.toRecipient \in recipients /\ RecipientOwner[b.toRecipient] = b.user
    <2>1. /\ pc[r] = "recipient" /\ UNCHANGED <<req, lock, work, storeVars>>
          /\ IF found THEN Goto(r, "debit") ELSE Return(r, "recipient not found")
      BY <1>6 DEF TransferRecipient, At, Goto, Return
    <2>2. Covered(r, b.amount)'
      BY <2>1, <1>1 DEF IInv, Funded, Covered, storeVars
    <2>3. FundedAt(r, "debit")' /\ FundedAt(r, "rollback")'
      BY <2>1, <2>2, <1>1 DEF FundedAt
    <2>4. CASE found
      BY <2>1, <2>3, <2>4, <1>1, <1>3, MoveOn DEF Labels, InTransaction, Goto
    <2>5. CASE ~found
      <3>1. pc' = [pc EXCEPT ![r] = "rollback"] /\ resp' \in [Requests -> Answers]
        BY <2>1, <2>5, <1>3 DEF Return, Answers
      <3> QED BY <3>1, <2>1, <2>3, <1>1, MoveOn DEF Labels, InTransaction
    <2> QED BY <2>4, <2>5
  <1>7. CASE TransferTarget(r)
    <2> DEFINE refusal == TargetRefusal(b.toAccount, b.user)
    <2>1. pc[r] = "target" /\ LockAccount(r, b.toAccount, refusal, "credit")
      BY <1>7 DEF TransferTarget, At
    <2>2. Covered(r, b.amount)
      BY <2>1, <1>1 DEF IInv, Funded
    <2>3. refusal \in Answers
      BY DEF TargetRefusal, Answers
    <2>4. ASSUME refusal = "none"
          PROVE  FundedAt(r, "credit")' /\ b.toAccount \in Accounts
      <3>1. b.toAccount \in Open /\ b.toAccount \in Accounts
        BY <2>4, DatabaseAssumption DEF TargetRefusal, DatabaseAssumption
      <3>2. UNCHANGED <<req, work, storeVars>> /\ lock' = [lock EXCEPT ![b.toAccount] = r]
        BY <2>1, <2>4, <3>1 DEF LockAccount, Goto
      <3>3. Covered(r, b.amount)'
        BY <2>2, <3>2, <1>2 DEF Covered, storeVars, IInv, TypeOK, Row
      <3> QED BY <3>1, <3>2, <3>3, <1>1 DEF FundedAt
    <2>5. b.toAccount \in Accounts /\ b.toAccount # None
      BY <2>1, <1>2
    <2> QED BY <2>1, <2>3, <2>4, <2>5, LockAccountKeeps
  <1>8. CASE TransferCredit(r)
    <2>1. pc[r] = "credit" /\ Covered(r, b.amount)
      BY <1>1, <1>8 DEF TransferCredit, At, IInv, Funded
    <2>2. CASE PostOverflow(r, b.toAccount, b.amount)
      BY <2>2, <1>1, AbortKeeps DEF PostOverflow
    <2>3. CASE Post(r, b.toAccount, "transfer_in", b.amount, b.amount, "debit")
      <3>1. b.toAccount \in Accounts /\ work[r].balance[b.toAccount] = 0
        BY <2>1, <1>2 DEF IInv, Unwritten
      <3>2. Covered(r, b.amount)'
        <4>1. /\ lock' = [lock EXCEPT ![b.toAccount] = r]
              /\ UNCHANGED <<req, storeVars>>
          BY <2>3 DEF Post, Goto
        <4>2. lock'[b.from] = r
          BY <4>1, <2>1, <1>2 DEF Covered, IInv, TypeOK, Row
        <4>3. work'[r].balance[b.from] = work[r].balance[b.from]
          <5>1. /\ work \in [Requests -> Work]
                /\ work'[r].balance = [work[r].balance EXCEPT ![b.toAccount] =
                       Updated(r, b.toAccount, b.amount) - balance[b.toAccount]]
            BY <2>3 DEF Post, IInv, TypeOK
          <5> QED BY <5>1, <1>2, <3>1 DEF Work
        <4> QED BY <4>1, <4>2, <4>3, <2>1 DEF Covered, storeVars
      <3>3. FundedAt(r, "debit")'
        BY <2>3, <3>2, <1>1 DEF FundedAt, Post, Goto
      <3> QED BY <1>1, <1>2, <2>1, <2>3, <3>1, <3>3, PostKeeps DEF Kinds
    <2> QED BY <2>2, <2>3, <1>8 DEF TransferCredit
  <1>9. CASE TransferDebit(r)
    <2>1. pc[r] = "debit" /\ Covered(r, b.amount)
      BY <1>1, <1>9 DEF TransferDebit, At, IInv, Funded
    <2>2. Post(r, b.from, "transfer_out", -b.amount, -b.amount, "commit")
      BY <1>9 DEF TransferDebit
    <2>3. FundedAt(r, "commit")'
      BY DEF FundedAt
    <2>4. balance[b.from] + (-b.amount) >= 0
      BY <2>1, <1>2 DEF Covered, IInv, TypeOK
    <2>5. -b.amount \in Int /\ work[r].balance[b.from] = 0
      BY <2>1, <1>2 DEF Covered
    <2> QED BY <1>1, <1>2, <2>1, <2>2, <2>3, <2>4, <2>5, PostKeeps DEF Kinds
  <1> QED BY <1>4, <1>5, <1>6, <1>7, <1>8, <1>9 DEF TransferStep

LEMMA DepositKeeps ==
    ASSUME IInv, NEW r \in Requests, DepositStep(r)
    PROVE  Kept(r)
  <1> DEFINE b == req[r]
  <1>1. Active(r) /\ b.op = "deposit" /\ pc[r] \notin {"idle", "load"}
    BY DEF DepositStep, DepositBegin, DepositTarget, DepositCredit, At, Active
  <1>2. b.to \in Accounts /\ b.amount \in Int /\ b.amount >= 0
    <2>1. b \in DepositBody /\ DepositRefusal(b) = "none"
      BY <1>1, BodyTypes DEF IInv, Vetted, Active
    <2> QED BY <2>1, MoneyAssumption DEF DepositBody, DepositRefusal, ValidAmount, Cent,
            MoneyAssumption
  <1>3. resp \in [Requests -> Answers]
    BY DEF IInv, TypeOK
  <1>4. \A label : req'[r] = b => FundedAt(r, label)'
    BY <1>1 DEF FundedAt
  <1>5. CASE DepositBegin(r)
    <2>1. /\ pc' = [pc EXCEPT ![r] = "target"] /\ resp' = resp /\ lock' = lock
          /\ UNCHANGED <<req, work, storeVars>> /\ pc[r] = "begin"
      BY <1>5 DEF DepositBegin, Acquire, Goto
    <2>2. FundedAt(r, "target")'
      BY <1>4, <2>1
    <2> QED BY <1>1, <1>3, <2>1, <2>2, MoveOn DEF Labels, InTransaction
  <1>6. CASE DepositTarget(r)
    <2>1. pc[r] = "target" /\ LockAccount(r, b.to, DestinationRefusal(b), "credit")
      BY <1>6 DEF DepositTarget, At
    <2>2. DestinationRefusal(b) \in Answers
      BY DEF DestinationRefusal, Answers
    <2>3. FundedAt(r, "credit")'
      BY <1>4, <2>1 DEF LockAccount, Goto, Return
    <2> QED BY <1>1, <1>2, <2>1, <2>2, <2>3, LockAccountKeeps
  <1>7. CASE DepositCredit(r)
    <2>1. pc[r] = "credit"
      BY <1>7 DEF DepositCredit, At
    <2>2. CASE PostOverflow(r, b.to, b.amount)
      BY <2>2, <1>1, AbortKeeps DEF PostOverflow
    <2>3. CASE Post(r, b.to, "credit", b.amount, b.amount, "commit")
      <3>1. work[r].balance[b.to] = 0
        BY <2>1, <1>2 DEF IInv, Unwritten
      <3>2. FundedAt(r, "commit")'
        BY <2>3, <1>4 DEF Post, Goto
      <3> QED BY <1>1, <1>2, <2>3, <3>1, <3>2, PostKeeps DEF Kinds
    <2> QED BY <2>2, <2>3, <1>7 DEF DepositCredit
  <1> QED BY <1>5, <1>6, <1>7 DEF DepositStep

\* A step that answers r without touching anything but the recipients.
LEMMA ReplyKeeps ==
    ASSUME IInv, NEW r \in Requests, NEW answer \in Answers,
           Active(r), pc[r] \notin {"debit", "mark", "commit"}, Reply(r, answer),
           UNCHANGED <<lock, work, balance, ledger, txrows, invoice>>,
           recipients' \subseteq Recipients
    PROVE  Kept(r)
  <1> USE DEF IInv, Reply
  <1>1. TypeOK'
    BY DEF TypeOK, Labels
  <1>2. OnlyTouches(r)
    BY DEF OnlyTouches, TypeOK
  <1>3. Vetted(r)' /\ Loaded(r)' /\ Funded(r)' /\ Unwritten(r)'
    BY DEF Vetted, Active, TypeOK, Loaded, Funded, Unwritten
  <1>4. WritesGuarded(r)'
    BY DEF WritesGuarded
  <1> QED BY <1>1, <1>2, <1>3, <1>4 DEF Kept, Guarded

\* A step that answers r and writes one invoice row, which keeps the amount of
\* a row that was there and makes no row disappear.
LEMMA InvoiceWriteKeeps ==
    ASSUME IInv, NEW r \in Requests, NEW answer \in Answers, NEW i \in Invoices,
           Active(r), pc[r] \notin {"debit", "mark", "commit"}, Reply(r, answer),
           UNCHANGED <<lock, work, balance, ledger, txrows, recipients>>,
           invoice' \in [Invoices -> InvoiceRow],
           invoice'[i].status # "absent",
           invoice[i].status # "absent" => invoice'[i].amount = invoice[i].amount,
           \A j \in Invoices \ {i} : invoice'[j] = invoice[j]
    PROVE  Kept(r)
  <1> USE DEF IInv, Reply
  <1>1. TypeOK'
    BY DEF TypeOK, Labels
  <1>2. OnlyTouches(r)
    BY DEF OnlyTouches, TypeOK
  <1>3. Vetted(r)' /\ Loaded(r)' /\ Funded(r)' /\ Unwritten(r)'
    BY DEF Vetted, Active, TypeOK, Loaded, Funded, Unwritten
  <1>4. WritesGuarded(r)'
    BY DEF WritesGuarded
  <1> QED BY <1>1, <1>2, <1>3, <1>4 DEF Kept, Guarded

LEMMA RecipientKeeps ==
    ASSUME IInv, NEW r \in Requests, RecipientDelete(r)
    PROVE  Kept(r)
  <1>1. Active(r) /\ pc[r] = "execute"
    BY DEF RecipientDelete, At, Active
  <1>2. \E answer \in Answers : Reply(r, answer)
    BY DEF RecipientDelete, Outcome, Answers
  <1>3. recipients' \subseteq Recipients
    BY DEF RecipientDelete, IInv, TypeOK
  <1> QED BY <1>1, <1>2, <1>3, ReplyKeeps DEF RecipientDelete

\* Marking the invoice adds it to the writes of the payment.
LEMMA MarkKeeps ==
    ASSUME IInv, NEW r \in Requests, PayMark(r)
    PROVE  Kept(r)
  <1> DEFINE i == req[r].invoice
  <1> USE DEF IInv, storeVars
  <1>1. /\ pc[r] = "mark" /\ req[r].op = "pay" /\ RowFree(r, i)
        /\ lock' = [lock EXCEPT ![i] = r]
        /\ pc' = [pc EXCEPT ![r] = "commit"]
        /\ UNCHANGED <<req, resp, storeVars>>
    BY DEF PayMark, At, Goto
  <1>2. i \in Invoices
    BY <1>1, BodyTypes DEF Vetted, PayBody
  <1>3. /\ work'[r] \in Work /\ work'[r].balance = work[r].balance
        /\ \A s \in Requests \ {r} : work'[s] = work[s]
        /\ work' \in [Requests -> Work]
    <2>1. work \in [Requests -> Work]
      BY DEF TypeOK
    <2>2. work' = [work EXCEPT ![r].paid = @ \cup {i}]
      BY DEF PayMark
    <2> QED BY <1>2, <2>1, <2>2 DEF Work
  <1>4. TypeOK'
    BY <1>1, <1>3 DEF TypeOK, Labels, InTransaction, Row
  <1>5. OnlyTouches(r)
    BY <1>1, <1>3 DEF OnlyTouches, TypeOK, RowFree, Row
  <1>6. Vetted(r)' /\ Loaded(r)' /\ Funded(r)' /\ Unwritten(r)'
    BY <1>1 DEF Vetted, Loaded, Active, Funded, Unwritten, TypeOK
  <1>7. WritesGuarded(r)'
    BY <1>1, <1>3 DEF WritesGuarded, TypeOK, Row
  <1> QED BY <1>1, <1>4, <1>5, <1>6, <1>7 DEF Kept, Guarded

LEMMA InvoiceKeeps ==
    ASSUME IInv, NEW r \in Requests, InvoiceStep(r)
    PROVE  Kept(r)
  <1> DEFINE b == req[r]
  <1>1. Active(r) /\ pc[r] # "idle"
    BY DEF InvoiceStep, PayLoad, PayBegin, PaySource, PayDebit, PayMark, StatusBegin,
       StatusUpdate, CreateInsert, CreateFails, At, Active
  <1>2. resp \in [Requests -> Answers] /\ b \in Bodies
    BY <1>1 DEF IInv, TypeOK, Vetted
  <1>3. CASE PayLoad(r)
    <2>1. /\ pc[r] = "load" /\ b.op = "pay"
          /\ UNCHANGED <<req, lock, work, storeVars>>
      BY <1>3 DEF PayLoad, At, Goto, Reply
    <2>2. CASE \E answer \in Answers : Reply(r, answer)
      BY <2>1, <2>2, <1>1, ReplyKeeps DEF storeVars, IInv, TypeOK
    <2>3. CASE InvoiceOf(b.invoice, b.user) /\ Goto(r, "begin")
      <3>1. FundedAt(r, "begin")'
        BY DEF FundedAt
      <3> QED BY <1>1, <1>2, <2>1, <2>3, <3>1, MoveOn DEF Labels, Goto, InvoiceOf
    <2> QED BY <2>2, <2>3, <1>3 DEF PayLoad, Answers
  <1>4. CASE PayBegin(r)
    <2>1. /\ pc' = [pc EXCEPT ![r] = "source"] /\ resp' = resp /\ lock' = lock
          /\ UNCHANGED <<req, work, storeVars>> /\ pc[r] = "begin"
      BY <1>4 DEF PayBegin, Acquire, Goto
    <2>2. FundedAt(r, "source")'
      BY DEF FundedAt
    <2>3. b.op = "pay" => invoice[b.invoice].status # "absent"
      BY <1>1, <2>1 DEF IInv, Loaded
    <2> QED BY <1>1, <1>2, <2>1, <2>2, <2>3, MoveOn DEF Labels, InTransaction
  <1>5. CASE PaySource(r)
    <2>1. /\ pc[r] = "source" /\ b.op = "pay"
          /\ LockAccount(r, b.from, PayRefusal(b), "debit")
      BY <1>5 DEF PaySource, At
    <2>2. b.from \in Accounts /\ Due(b) \in Int /\ PayRefusal(b) \in Answers
      BY <1>2, <2>1, BodyTypes DEF PayBody, Due, PayRefusal, Answers, IInv, TypeOK,
         InvoiceRow
    <2>3. ASSUME PayRefusal(b) = "none"
          PROVE  FundedAt(r, "debit")'
      <3>1. b.from \in Open /\ balance[b.from] >= Due(b)
        <4>1. balance[b.from] \in Int
          BY <2>2 DEF IInv, TypeOK
        <4>2. b.from \in Open /\ ~(balance[b.from] < Due(b))
          BY <2>3 DEF PayRefusal
        <4> QED BY <2>2, <4>1, <4>2
      <3>2. work[r].balance[b.from] = 0
        BY <2>1, <2>2 DEF IInv, Unwritten
      <3>3. lock'[b.from] = r /\ UNCHANGED <<req, work, storeVars>>
        BY <2>1, <2>2, <2>3, <3>1 DEF LockAccount, Goto, IInv, TypeOK, Row
      <3>4. Covered(r, Due(b))'
        BY <3>1, <3>2, <3>3 DEF Covered, Due, storeVars
      <3> QED BY <3>4, <3>3, <2>1 DEF FundedAt
    <2> QED BY <2>1, <2>2, <2>3, LockAccountKeeps
  <1>6. CASE PayDebit(r)
    <2>1. /\ pc[r] = "debit" /\ b.op = "pay"
          /\ Post(r, b.from, "transfer_out", -Due(b), 0, "mark")
      BY <1>6 DEF PayDebit, At
    <2>2. b.from \in Accounts /\ Due(b) \in Int
      BY <1>2, <2>1, BodyTypes DEF PayBody, Due, IInv, TypeOK, InvoiceRow
    <2>3. Covered(r, Due(b))
      BY <2>1 DEF IInv, Funded
    <2>4. /\ -Due(b) \in Int /\ balance[b.from] + (-Due(b)) >= 0
          /\ work[r].balance[b.from] = 0
      BY <2>2, <2>3 DEF Covered, IInv, TypeOK
    <2>5. FundedAt(r, "mark")'
      BY DEF FundedAt
    <2> QED BY <1>1, <2>1, <2>2, <2>4, <2>5, PostKeeps DEF Kinds
  <1>7. CASE PayMark(r)
    BY <1>7, MarkKeeps
  <1>8. CASE StatusBegin(r)
    <2>1. /\ pc' = [pc EXCEPT ![r] = "update"] /\ resp' = resp /\ lock' = lock
          /\ UNCHANGED <<req, work, storeVars>> /\ pc[r] = "begin" /\ b.op = "status"
      BY <1>8 DEF StatusBegin, Acquire, Goto, At
    <2>2. FundedAt(r, "update")'
      BY DEF FundedAt
    <2> QED BY <1>1, <1>2, <2>1, <2>2, MoveOn DEF Labels
  <1>9. CASE StatusUpdate(r)
    <2>1. /\ pc[r] = "update" /\ b.op = "status"
          /\ b.invoice \in Invoices /\ b.status \in Statuses
      BY <1>1, <1>2, <1>9, BodyTypes DEF StatusUpdate, At, StatusBody, IInv, Vetted
    <2>2. CASE InvoiceOf(b.invoice, b.user)
      <3>1. PICK answer \in Answers : Reply(r, answer)
        BY <2>2, <1>9 DEF StatusUpdate, Outcome, Answers
      <3>2. /\ invoice' = [invoice EXCEPT ![b.invoice].status = b.status]
            /\ UNCHANGED <<lock, work, balance, ledger, txrows, recipients>>
        BY <2>2, <1>9 DEF StatusUpdate
      <3>3. invoice \in [Invoices -> InvoiceRow]
        BY DEF IInv, TypeOK
      <3>4. /\ invoice' \in [Invoices -> InvoiceRow]
            /\ invoice'[b.invoice].status # "absent"
            /\ invoice'[b.invoice].amount = invoice[b.invoice].amount
            /\ \A j \in Invoices \ {b.invoice} : invoice'[j] = invoice[j]
        BY <2>1, <3>2, <3>3 DEF InvoiceRow, Statuses
      <3> QED BY <1>1, <2>1, <3>1, <3>2, <3>4, InvoiceWriteKeeps
    <2>3. CASE ~InvoiceOf(b.invoice, b.user)
      BY <1>1, <1>9, <2>1, <2>3, ReplyKeeps DEF StatusUpdate, Answers, IInv, TypeOK
    <2> QED BY <2>2, <2>3
  <1>10. CASE CreateInsert(r)
    <2>1. /\ pc[r] = "execute" /\ b \in CreateBody
          /\ UNCHANGED <<lock, work, balance, ledger, txrows, recipients>>
      BY <1>2, <1>10, BodyTypes DEF CreateInsert, At
    <2>2. PICK i \in Invoices :
            /\ invoice[i].status = "absent"
            /\ invoice' = [invoice EXCEPT ![i] = [owner |-> b.user,
                                                 amount |-> Numeric2(b.amount),
                                                 status |-> "draft"]]
      BY <1>10 DEF CreateInsert
    <2>3. PICK answer \in Answers : Reply(r, answer)
      BY <1>10 DEF CreateInsert, Outcome, Answers
    <2>4. b.user \in Users /\ Numeric2(b.amount) \in Int
      BY <2>1, RoundingGivesCents DEF CreateBody
    <2>5. invoice \in [Invoices -> InvoiceRow]
      BY DEF IInv, TypeOK
    <2>6. /\ invoice' \in [Invoices -> InvoiceRow]
          /\ invoice'[i].status # "absent"
          /\ \A j \in Invoices \ {i} : invoice'[j] = invoice[j]
      BY <2>2, <2>4, <2>5 DEF InvoiceRow, Statuses
    <2> QED BY <1>1, <2>1, <2>2, <2>3, <2>6, InvoiceWriteKeeps
  <1>11. CASE CreateFails(r)
    <2>1. pc[r] = "execute" /\ Reply(r, "internal") /\ UNCHANGED <<lock, work, storeVars>>
      BY <1>11 DEF CreateFails, At
    <2> QED BY <2>1, <1>1, ReplyKeeps DEF storeVars, IInv, TypeOK, Answers
  <1> QED BY <1>3, <1>4, <1>5, <1>6, <1>7, <1>8, <1>9, <1>10, <1>11 DEF InvoiceStep

\* COMMIT publishes writes that were made under locks and fit their columns.
LEMMA CommitKeeps ==
    ASSUME IInv, NEW r \in Requests, Commit(r)
    PROVE  Kept(r)
  <1> USE DEF IInv
  <1>1. /\ pc[r] = "commit" /\ pc' = [pc EXCEPT ![r] = "done"] /\ UNCHANGED req
        /\ resp' \in [Requests -> Answers]
        /\ lock' = Released(r) /\ work' = [work EXCEPT ![r] = NoWork]
        /\ UNCHANGED recipients
    BY DEF Commit, Reply, Outcome, Answers, TypeOK
  <1>2. ASSUME NEW a \in Accounts
        PROVE  /\ balance'[a] = balance[a] + work[r].balance[a]
               /\ balance'[a] \in -BalanceCap .. BalanceCap
               /\ Fits(balance'[a])
               /\ WholeCents(balance'[a])
               /\ balance'[a] # balance[a] => lock[a] = r
    <2>1. balance[a] \in Int /\ work[r].balance[a] \in Int
      BY DEF TypeOK, Work
    <2>2. balance'[a] = balance[a] + work[r].balance[a]
      BY DEF Commit
    <2>3. /\ work[r].balance[a] # 0 => lock[a] = r
          /\ WholeCents(work[r].balance[a]) /\ Fits(balance[a] + work[r].balance[a])
      BY DEF WritesGuarded
    <2>4. WholeCents(balance[a])
      OBVIOUS
    <2>5. WholeCents(balance'[a])
      BY <2>1, <2>2, <2>3, <2>4, CentsAdd
    <2> QED BY <2>1, <2>2, <2>3, <2>5, MoneyAssumption DEF Fits, MoneyAssumption
  <1>3. balance' \in [Accounts -> -BalanceCap .. BalanceCap]
    BY <1>2 DEF Commit
  <1>4. ledger' \in [Accounts -> Int] /\ txrows' \subseteq TxRows
    BY DEF Commit, TypeOK, Work
  <1>5. /\ invoice' \in [Invoices -> InvoiceRow]
        /\ \A i \in Invoices : /\ invoice'[i].amount = invoice[i].amount
                              /\ invoice'[i].status \in {invoice[i].status, "paid"}
    BY DEF Commit, TypeOK, InvoiceRow, Statuses
  <1>6. TypeOK'
    BY <1>1, <1>3, <1>4, <1>5, NoWorkType DEF TypeOK, Labels, Released
  <1>7. OnlyTouches(r)
    BY <1>1, <1>2, <1>5 DEF OnlyTouches, TypeOK, Released
  <1>8. Vetted(r)' /\ Loaded(r)' /\ Funded(r)' /\ Unwritten(r)'
    BY <1>1 DEF Vetted, Loaded, Active, Funded, Unwritten, TypeOK, NoWork
  <1>9. WritesGuarded(r)'
    <2> SUFFICES ASSUME NEW a \in Accounts
                 PROVE  /\ work'[r].balance[a] # 0 => lock'[a] = r
                        /\ WholeCents(work'[r].balance[a])
                        /\ work'[r].balance[a] < 0 => balance'[a] + work'[r].balance[a] >= 0
                        /\ Fits(balance'[a] + work'[r].balance[a])
      BY DEF WritesGuarded
    <2>1. work'[r].balance[a] = 0
      BY <1>1 DEF TypeOK, NoWork
    <2>2. balance'[a] + 0 = balance'[a]
      BY <1>2
    <2> QED BY <1>2, <2>1, <2>2 DEF WholeCents, Cent
  <1> QED BY <1>2, <1>6, <1>7, <1>8, <1>9 DEF Kept, Guarded

\* Clean-up, deadlock aborts and faults lose a transaction or end a request.
LEMMA EndingKeeps ==
    ASSUME IInv, NEW r \in Requests,
           Rollback(r) \/ DeadlockAbort(r) \/ Fault(r)
    PROVE  Kept(r)
  <1>1. resp \in [Requests -> Answers] /\ "internal" \in Answers
    BY DEF IInv, TypeOK, Answers
  <1>2. CASE Rollback(r)
    BY <1>1, <1>2, LetGo DEF Rollback
  <1>3. CASE DeadlockAbort(r)
    <2>1. Blocked(r)
      BY <1>3 DEF DeadlockAbort, Deadlocked
    <2> QED BY <1>3, <2>1, AbortKeeps DEF DeadlockAbort, Blocked
  <1>4. ASSUME pc[r] \in {"load", "begin", "execute"}, Reply(r, "internal"),
               UNCHANGED <<lock, work, storeVars>>
        PROVE  Kept(r)
    BY <1>1, <1>4, ReplyKeeps DEF Active, storeVars, IInv, TypeOK
  <1>5. CASE StatementError(r)
    <2>1. CASE pc[r] \in InTransaction \cup {"update"} /\ Abort(r)
      BY <2>1, AbortKeeps DEF InTransaction
    <2> QED BY <1>5, <1>4, <2>1 DEF StatementError
  <1>6. CASE AcquireTimeout(r)
    BY <1>4, <1>6 DEF AcquireTimeout
  <1>7. CASE Abandon(r)
    <2>1. CASE pc[r] \in InTransaction /\ Return(r, "internal")
      <3>1. pc' = [pc EXCEPT ![r] = "rollback"] /\ resp' \in [Requests -> Answers]
        BY <1>1, <2>1 DEF Return
      <3>2. FundedAt(r, "rollback")'
        BY DEF FundedAt
      <3>3. UNCHANGED <<req, lock, work, storeVars>> /\ pc[r] # "idle"
        BY <1>7, <2>1 DEF Abandon, Return, InTransaction
      <3> QED BY <3>1, <3>2, <3>3, MoveOn DEF Labels
    <2> QED BY <1>4, <1>7, <2>1 DEF Abandon
  <1> QED BY <1>2, <1>3, <1>5, <1>6, <1>7 DEF Fault

\* A request that arrives is refused or goes to its first statement.
LEMMA ReceiveKeeps ==
    ASSUME IInv, NEW r \in Requests, Receive(r)
    PROVE  Kept(r)
  <1> USE DEF IInv, storeVars
  <1>1. PICK b \in Bodies : \/ TransferReceive(r, b)
                            \/ DepositReceive(r, b)
                            \/ InvoiceReceive(r, b)
                            \/ DeleteReceive(r, b)
    BY DEF Receive
  <1>2. /\ pc[r] = "idle" /\ req' = [req EXCEPT ![r] = b]
        /\ UNCHANGED <<lock, work, storeVars>>
    BY <1>1 DEF Receive, TransferReceive, DepositReceive, InvoiceReceive, PayReceive,
       StatusReceive, CreateReceive, DeleteReceive
  <1>3. PICK label \in {"begin", "load", "execute", "done"} :
            /\ pc' = [pc EXCEPT ![r] = label]
            /\ label # "done" => /\ b.op = "transfer" => TransferRefusal(b) = "none"
                                 /\ b.op = "deposit" => DepositRefusal(b) = "none"
                                 /\ b.op = "status" => b.status \in Statuses
                                 /\ b.op = "create" => ValidAmount(b.amount)
            /\ b.op = "pay" => label = "load"
    BY <1>1 DEF TransferReceive, DepositReceive, InvoiceReceive, PayReceive,
       StatusReceive, CreateReceive, DeleteReceive
  <1>4. resp' \in [Requests -> Answers]
    BY <1>1 DEF TransferReceive, DepositReceive, InvoiceReceive, PayReceive,
       StatusReceive, CreateReceive, DeleteReceive, TransferRefusal, DepositRefusal,
       TypeOK, Answers
  <1>5. TypeOK'
    BY <1>2, <1>3, <1>4 DEF TypeOK, Labels
  <1>6. OnlyTouches(r)
    BY <1>2, <1>3 DEF OnlyTouches, TypeOK
  <1>7. Vetted(r)'
    BY <1>2, <1>3 DEF Vetted, Active, TypeOK
  <1>8. Loaded(r)' /\ Funded(r)' /\ Unwritten(r)'
    BY <1>2, <1>3 DEF Loaded, Active, Funded, Unwritten, TypeOK
  <1>9. WritesGuarded(r)'
    BY <1>2 DEF WritesGuarded
  <1> QED BY <1>2, <1>5, <1>6, <1>7, <1>8, <1>9 DEF Kept, Guarded

-----------------------------------------------------------------------------
(* The inductive invariant *)

LEMMA InitKeeps == Init => IInv
  <1> SUFFICES ASSUME Init PROVE IInv
    OBVIOUS
  <1>1. TypeOK
    BY DatabaseAssumption, MoneyAssumption, NoWorkType
       DEF Init, TypeOK, DatabaseAssumption, Fits, Labels, Answers
  <1>2. ASSUME NEW r \in Requests
        PROVE  Guarded(r)
    <2>1. pc[r] = "idle" /\ work[r] = NoWork
      BY DEF Init
    <2>2. \A a \in Accounts : work[r].balance[a] = 0
      BY <2>1 DEF NoWork
    <2>3. Vetted(r) /\ Loaded(r) /\ Funded(r) /\ Unwritten(r)
      BY <2>1, <2>2 DEF Vetted, Loaded, Active, Funded, Unwritten
    <2>4. WritesGuarded(r)
      <3>1. ASSUME NEW a \in Accounts
            PROVE  Fits(balance[a] + work[r].balance[a])
        BY <1>1, <2>2, MoneyAssumption DEF TypeOK, Fits, MoneyAssumption
      <3> QED BY <2>2, <3>1 DEF WritesGuarded, WholeCents, Cent
    <2> QED BY <2>3, <2>4 DEF Guarded
  <1>3. \A a \in Accounts : WholeCents(balance[a])
    BY DatabaseAssumption DEF Init, DatabaseAssumption
  <1> QED BY <1>1, <1>2, <1>3 DEF IInv, Guarded

\* Every action of every request keeps it, for that request and the others.
LEMMA NextKeeps == IInv /\ [Next]_vars => IInv'
  <1> SUFFICES ASSUME IInv, [Next]_vars PROVE IInv'
    OBVIOUS
  <1>1. ASSUME NEW r \in Requests, Kept(r)
        PROVE  IInv'
    <2>1. TypeOK' /\ OnlyTouches(r) /\ \A a \in Accounts : WholeCents(balance'[a])
      BY <1>1 DEF Kept
    <2>2. Guarded(r)'
      BY <1>1 DEF Kept
    <2>3. ASSUME NEW s \in Requests \ {r}
          PROVE  Guarded(s)'
      BY <2>1, OthersKeep
    <2>4. \A s \in Requests : Guarded(s)'
      BY <2>2, <2>3
    <2> QED BY <2>1, <2>4 DEF IInv, Guarded
  <1>2. ASSUME NEW r \in Requests, Receive(r)
        PROVE  Kept(r)
    BY <1>2, ReceiveKeeps
  <1>3. ASSUME NEW r \in Requests, Step(r)
        PROVE  Kept(r)
    BY <1>3, TransferKeeps, DepositKeeps, InvoiceKeeps, RecipientKeeps, CommitKeeps,
       EndingKeeps DEF Step
  <1>4. ASSUME NEW r \in Requests, DeadlockAbort(r) \/ Fault(r)
        PROVE  Kept(r)
    BY <1>4, EndingKeeps
  <1>5. CASE UNCHANGED vars
    <2>1. UNCHANGED <<pc, req, resp, lock, work, balance, ledger, txrows, invoice,
                      recipients>>
      BY <1>5 DEF vars
    <2>2. TypeOK' /\ \A a \in Accounts : WholeCents(balance'[a])
      BY <2>1 DEF IInv, TypeOK
    <2>3. ASSUME NEW r \in Requests
          PROVE  Guarded(r)'
      BY <2>1 DEF IInv, Guarded, Vetted, Loaded, Active, Funded, Covered, Due,
         Unwritten, WritesGuarded
    <2> QED BY <2>2, <2>3 DEF IInv, Guarded
  <1> QED BY <1>1, <1>2, <1>3, <1>4, <1>5 DEF Next

\* Between any two statements of any requests, locks, uncommitted writes and
\* balances fit together: the invariant all the other theorems follow from.
THEOREM InductiveInvariant == Spec => []IInv
  BY InitKeeps, NextKeeps, PTL DEF Spec

\* Every variable keeps its type, and the cached balance of every account fits
\* its NUMERIC(15,2) column whatever the requests and however they interleave.
THEOREM TypeCorrect == Spec => []TypeOK
  <1>1. IInv => TypeOK
    BY DEF IInv
  <1> QED BY <1>1, InductiveInvariant, PTL

\* No step of the backend lowers an account to below zero: for any number of
\* concurrent transfers and payments the funds check covers the debit.
THEOREM DebitsAreCovered == Spec => NoOverdraft
  <1> DEFINE Kind == \A a \in Accounts : balance'[a] < balance[a] => balance'[a] >= 0
  <1>1. ASSUME IInv, [Next]_vars
        PROVE  [Kind]_vars
    <2>1. ASSUME NEW r \in Requests, Commit(r)
          PROVE  Kind
      <3> SUFFICES ASSUME NEW a \in Accounts, balance'[a] < balance[a]
                   PROVE  balance'[a] >= 0
        OBVIOUS
      <3>1. balance[a] \in Int /\ work[r].balance[a] \in Int
        BY <1>1 DEF IInv, TypeOK, Work
      <3>2. balance'[a] = balance[a] + work[r].balance[a]
        BY <2>1 DEF Commit
      <3>3. work[r].balance[a] < 0 => balance[a] + work[r].balance[a] >= 0
        BY <1>1 DEF IInv, WritesGuarded
      <3> QED BY <3>1, <3>2, <3>3
    <2>2. CASE UNCHANGED balance
      <3>1. \A a \in Accounts : balance[a] \in Int
        BY <1>1 DEF IInv, TypeOK
      <3> QED BY <2>2, <3>1
    <2>3. ASSUME NEW r \in Requests, TransferStep(r) \/ DepositStep(r) \/ InvoiceStep(r)
          PROVE  UNCHANGED balance
      BY <2>3 DEF TransferStep, TransferBegin, TransferSource, TransferRecipient,
         TransferTarget, TransferCredit, TransferDebit, DepositStep, DepositBegin,
         DepositTarget, DepositCredit, InvoiceStep, PayLoad, PayBegin, PaySource,
         PayDebit, PayMark, StatusBegin, StatusUpdate, CreateInsert, CreateFails,
         LockAccount, Post, PostOverflow, Abort, Acquire, storeVars
    <2>4. ASSUME NEW r \in Requests,
                 RecipientDelete(r) \/ Rollback(r) \/ DeadlockAbort(r) \/ Fault(r)
          PROVE  UNCHANGED balance
      BY <2>4 DEF RecipientDelete, Rollback, DeadlockAbort, Fault, AcquireTimeout,
         StatementError, Abandon, Abort, storeVars
    <2>5. ASSUME NEW r \in Requests, Receive(r)
          PROVE  UNCHANGED balance
      BY <2>5 DEF Receive, TransferReceive, DepositReceive, InvoiceReceive, PayReceive,
         StatusReceive, CreateReceive, DeleteReceive, storeVars
    <2> QED BY <1>1, <2>1, <2>2, <2>3, <2>4, <2>5 DEF Next, Step, vars
  <1>2. Spec => [][Kind]_vars
    BY <1>1, InductiveInvariant, PTL DEF Spec
  <1> QED BY <1>2 DEF NoOverdraft

-----------------------------------------------------------------------------
(* What a request leaves behind and what its client is told: all of its rows *)
(* or none of them, and an answer that fits *)

Moving(b) == b.op \in {"transfer", "deposit", "pay"}
BetweenOwn(b) == b.op = "transfer" /\ b.toAccount # None

\* The two transactions rows of a transfer between own accounts.
In(r) == TxRow(r, req[r].toAccount, "transfer_in", req[r].amount)
Out(r) == TxRow(r, req[r].from, "transfer_out", -req[r].amount)

\* What a transaction has inserted when it is about to issue a statement.
Inserted(r) ==
    /\ \A t \in work[r].rows : t.by = r
    /\ pc[r] \notin {"debit", "mark", "commit", "rollback"} => work[r].rows = {}
    /\ pc[r] = "recipient" => ~BetweenOwn(req[r])
    /\ pc[r] = "debit" /\ BetweenOwn(req[r]) => work[r].rows = {In(r)}
    /\ pc[r] \in {"mark", "commit"} => work[r].rows # {}
    /\ pc[r] = "commit" /\ BetweenOwn(req[r]) => work[r].rows = {In(r), Out(r)}
    /\ pc[r] = "commit" /\ req[r].op = "pay" => req[r].invoice \in work[r].paid

\* What is committed, and what the client was told of it.
Told(r) ==
    /\ pc[r] \notin {"rollback", "done"} => resp[r] = "none"
    /\ RowsBy(r) # {} => pc[r] = "done" /\ resp[r] \in {"ok", "internal"}
    /\ resp[r] = "ok" /\ Moving(req[r]) => RowsBy(r) # {}
    /\ RowsBy(r) # {} /\ BetweenOwn(req[r])
           => RowsBy(r) = {In(r), Out(r)} /\ TransferRefusal(req[r]) = "none"

Effects(r) == Inserted(r) /\ Told(r)

\* The inductive invariant: at COMMIT everything the answer says is inserted.
EffectInv == IInv /\ \A r \in Requests : Effects(r)

-----------------------------------------------------------------------------
(* A step of one request *)

\* It changes nothing that says what another request did.
Alone(r) ==
    /\ \A s \in Requests \ {r} : /\ pc'[s] = pc[s] /\ req'[s] = req[s]
                                 /\ resp'[s] = resp[s] /\ work'[s] = work[s]
    /\ txrows' \in {txrows, txrows \cup work[r].rows}

LEMMA OthersAlone ==
    ASSUME EffectInv, NEW r \in Requests, Alone(r), NEW s \in Requests \ {r}
    PROVE  Effects(s)'
<1>1. /\ pc'[s] = pc[s] /\ req'[s] = req[s] /\ resp'[s] = resp[s]
      /\ work'[s] = work[s]
  BY DEF Alone
<1>2. RowsBy(s)' = RowsBy(s)
  <2>1. \A t \in work[r].rows : t.by # s
    BY DEF EffectInv, Effects, Inserted
  <2> QED
    BY <2>1 DEF Alone, RowsBy
<1>3. Inserted(s) /\ Told(s)
  BY DEF EffectInv, Effects
<1>4. In(s)' = In(s) /\ Out(s)' = Out(s)
  BY <1>1 DEF In, Out, TxRow
<1>5. Inserted(s)'
  BY <1>1, <1>3, <1>4 DEF Inserted, BetweenOwn
<1>6. Told(s)'
  BY <1>1, <1>2, <1>3, <1>4 DEF Told, BetweenOwn, Moving
<1> QED
  BY <1>5, <1>6 DEF Effects

\* A step that has inserted nothing yet, or lets go of what was inserted.
LEMMA NothingInserted ==
    ASSUME EffectInv, NEW r \in Requests, NEW label \in Labels, NEW answer \in Answers,
           pc[r] \notin {"done", "rollback"}, UNCHANGED <<req, txrows>>,
           pc' = [pc EXCEPT ![r] = label],
           resp' = [resp EXCEPT ![r] = answer],
           \/ work' = [work EXCEPT ![r] = NoWork]
           \/ UNCHANGED work /\ work[r].rows = {},
           label \notin {"mark", "commit"},
           label \notin {"rollback", "done"} => answer = "none",
           label \in {"recipient", "debit"} => ~BetweenOwn(req[r]),
           answer = "ok" => ~Moving(req[r])
    PROVE  Alone(r) /\ Effects(r)'
<1>1. /\ pc \in [Requests -> Labels] /\ resp \in [Requests -> Answers]
      /\ work \in [Requests -> Work]
      /\ Inserted(r) /\ Told(r)
  BY DEF EffectInv, IInv, TypeOK, Effects
<1>2. work'[r].rows = {} /\ \A s \in Requests \ {r} : work'[s] = work[s]
  BY <1>1 DEF NoWork
<1>3. RowsBy(r)' = {}
  BY <1>1 DEF Told, RowsBy
<1>4. Alone(r)
  BY <1>1, <1>2 DEF Alone
<1>5. pc'[r] = label /\ resp'[r] = answer
  BY <1>1
<1>6. Inserted(r)'
  BY <1>1, <1>2, <1>5 DEF Inserted, BetweenOwn
<1>7. Told(r)'
  BY <1>1, <1>3, <1>5 DEF Told, Moving
<1> QED
  BY <1>4, <1>6, <1>7 DEF Effects

\* A step that inserts one row, or none, on the way to another statement.
LEMMA OneInserted ==
    ASSUME EffectInv, NEW r \in Requests, NEW label \in {"debit", "mark", "commit"},
           pc[r] \notin {"done", "rollback"}, UNCHANGED <<req, resp, txrows>>,
           pc' = [pc EXCEPT ![r] = label],
           \A s \in Requests \ {r} : work'[s] = work[s],
           \A t \in work'[r].rows : t.by = r,
           label = "debit" /\ BetweenOwn(req[r]) => work'[r].rows = {In(r)},
           label \in {"mark", "commit"} => work'[r].rows # {},
           label = "commit" /\ BetweenOwn(req[r]) => work'[r].rows = {In(r), Out(r)},
           label = "commit" /\ req[r].op = "pay" => req[r].invoice \in work'[r].paid
    PROVE  Alone(r) /\ Effects(r)'
<1>1. /\ pc \in [Requests -> Labels]
      /\ Inserted(r) /\ Told(r)
  BY DEF EffectInv, IInv, TypeOK, Effects
<1>2. pc'[r] = label
  BY <1>1
<1>3. RowsBy(r)' = {} /\ In(r)' = In(r) /\ Out(r)' = Out(r)
  BY <1>1 DEF Told, RowsBy, In, Out, TxRow
<1>4. Alone(r)
  BY <1>1 DEF Alone
<1>5. Inserted(r)'
  BY <1>2, <1>3 DEF Inserted, BetweenOwn
<1>6. Told(r)'
  BY <1>1, <1>2, <1>3 DEF Told, Moving
<1> QED
  BY <1>4, <1>5, <1>6 DEF Effects

LEMMA PostInserts ==
    ASSUME EffectInv, NEW r \in Requests, NEW a, NEW kind, NEW change, NEW entry,
           NEW next, Post(r, a, kind, change, entry, next)
    PROVE  /\ work'[r].rows = work[r].rows \cup {TxRow(r, a, kind, change)}
           /\ \A s \in Requests \ {r} : work'[s] = work[s]
           /\ \A t \in work'[r].rows : t.by = r
           /\ pc' = [pc EXCEPT ![r] = next]
           /\ UNCHANGED <<req, resp, txrows>>
<1>1. work \in [Requests -> Work] /\ \A t \in work[r].rows : t.by = r
  BY DEF EffectInv, IInv, TypeOK, Effects, Inserted
<1>2. work'[r].rows = work[r].rows \cup {TxRow(r, a, kind, change)}
  BY <1>1 DEF Post
<1>3. \A s \in Requests \ {r} : work'[s] = work[s]
  BY <1>1 DEF Post
<1>4. \A t \in work'[r].rows : t.by = r
  BY <1>1, <1>2 DEF TxRow
<1> QED
  BY <1>2, <1>3, <1>4 DEF Post, Goto, storeVars

\* An error, or an early return, lets go of everything.
LEMMA AbortEffects ==
    ASSUME EffectInv, NEW r \in Requests, pc[r] \notin {"done", "rollback"}, Abort(r)
    PROVE  Alone(r) /\ Effects(r)'
<1>1. /\ pc' = [pc EXCEPT ![r] = "rollback"]
      /\ resp' = [resp EXCEPT ![r] = "internal"]
      /\ work' = [work EXCEPT ![r] = NoWork]
      /\ UNCHANGED <<req, txrows>>
  BY DEF Abort, Return, storeVars
<1>2. "rollback" \in Labels /\ "internal" \in Answers
  BY DEF Labels, Answers
<1> QED
  BY <1>1, <1>2, NothingInserted

\* A statement that only reads and locks, before anything is inserted.
LEMMA GotoEffects ==
    ASSUME EffectInv, NEW r \in Requests, NEW label \in Labels, Goto(r, label),
           pc[r] \notin {"debit", "mark", "commit", "rollback", "done"},
           UNCHANGED <<work, txrows>>,
           label \notin {"mark", "commit"},
           label \in {"recipient", "debit"} => ~BetweenOwn(req[r])
    PROVE  Alone(r) /\ Effects(r)'
<1>1. Inserted(r) /\ Told(r) /\ resp \in [Requests -> Answers]
  BY DEF EffectInv, IInv, TypeOK, Effects
<1>2. resp' = [resp EXCEPT ![r] = resp[r]] /\ pc' = [pc EXCEPT ![r] = label]
      /\ UNCHANGED req
  BY <1>1 DEF Goto
<1>3. work[r].rows = {} /\ resp[r] = "none" /\ resp[r] \in Answers
  BY <1>1 DEF Inserted, Told
<1> QED
  BY <1>2, <1>3, NothingInserted

LEMMA EndEffects ==
    ASSUME EffectInv, NEW r \in Requests, NEW answer \in Answers,
           Reply(r, answer) \/ Return(r, answer),
           pc[r] \notin {"debit", "mark", "commit", "rollback", "done"},
           UNCHANGED <<work, txrows>>,
           answer = "ok" => ~Moving(req[r])
    PROVE  Alone(r) /\ Effects(r)'
<1>1. Inserted(r) /\ work[r].rows = {}
  BY DEF EffectInv, Effects, Inserted
<1>2. PICK label \in {"done", "rollback"} : pc' = [pc EXCEPT ![r] = label]
  BY DEF Reply, Return
<1>3. resp' = [resp EXCEPT ![r] = answer] /\ UNCHANGED req
  BY DEF Reply, Return
<1>4. label \in Labels
  BY DEF Labels
<1> QED
  BY <1>1, <1>2, <1>3, <1>4, NothingInserted

LEMMA LockEffects ==
    ASSUME EffectInv, NEW r \in Requests, NEW a, NEW refusal \in Answers,
           NEW next \in {"recipient", "target", "credit", "debit"},
           pc[r] \in {"source", "target"}, refusal # "ok",
           LockAccount(r, a, refusal, next),
           next \in {"recipient", "debit"} => ~BetweenOwn(req[r])
    PROVE  Alone(r) /\ Effects(r)'
<1>1. UNCHANGED <<work, txrows>> /\ (Goto(r, next) \/ Return(r, refusal))
  BY DEF LockAccount, storeVars
<1>2. next \in Labels
  BY DEF Labels, InTransaction
<1> QED
  BY <1>1, <1>2, GotoEffects, EndEffects

-----------------------------------------------------------------------------
(* The steps of the handlers *)

LEMMA VettedTransfer ==
    ASSUME EffectInv, NEW r \in Requests, req[r].op = "transfer", Active(r)
    PROVE  /\ TransferRefusal(req[r]) = "none"
           /\ req[r].toAccount = None <=> req[r].toRecipient # None
<1>1. TransferRefusal(req[r]) = "none"
  BY DEF EffectInv, IInv, Vetted
<1> QED
  BY <1>1 DEF TransferRefusal

LEMMA TransferEffects ==
    ASSUME EffectInv, NEW r \in Requests, TransferStep(r)
    PROVE  Alone(r) /\ Effects(r)'
<1> DEFINE b == req[r]
<1>0. /\ b.op = "transfer" /\ Active(r) /\ Inserted(r) /\ Told(r)
      /\ (b.toAccount = None <=> b.toRecipient # None)
      /\ TransferRefusal(b) = "none"
  <2>1. b.op = "transfer" /\ Active(r)
    BY DEF TransferStep, TransferBegin, TransferSource, TransferRecipient,
           TransferTarget, TransferCredit, TransferDebit, At, Active
  <2> QED
    BY <2>1, VettedTransfer DEF EffectInv, Effects
<1>1. CASE TransferBegin(r)
  BY <1>1, GotoEffects DEF TransferBegin, At, Acquire, storeVars, Labels, InTransaction
<1>2. CASE TransferSource(r)
  <2>1. SourceRefusal(b) \in Answers /\ SourceRefusal(b) # "ok"
    BY DEF SourceRefusal, Answers
  <2> QED
    BY <1>0, <1>2, <2>1, LockEffects DEF TransferSource, At, BetweenOwn
<1>3. CASE TransferRecipient(r)
  <2>1. /\ pc[r] = "recipient" /\ UNCHANGED <<work, txrows>> /\ ~BetweenOwn(b)
        /\ Goto(r, "debit") \/ Return(r, "recipient not found")
    BY <1>0, <1>3 DEF TransferRecipient, At, storeVars, Inserted
  <2>2. "recipient not found" \in Answers /\ "debit" \in Labels
    BY DEF Answers, Labels, InTransaction
  <2> QED
    BY <2>1, <2>2, GotoEffects, EndEffects
<1>4. CASE TransferTarget(r)
  <2>1. /\ TargetRefusal(b.toAccount, b.user) \in Answers
        /\ TargetRefusal(b.toAccount, b.user) # "ok"
    BY DEF TargetRefusal, Answers
  <2> QED
    BY <1>4, <2>1, LockEffects DEF TransferTarget, At
<1>5. CASE TransferCredit(r)
  <2>1. CASE Post(r, b.toAccount, "transfer_in", b.amount, b.amount, "debit")
    <3>1. pc[r] = "credit" /\ work[r].rows = {}
      BY <1>0, <1>5 DEF TransferCredit, At, Inserted
    <3>2. work'[r].rows = {In(r)}
      BY <2>1, <3>1, PostInserts DEF In
    <3> QED
      BY <2>1, <3>1, <3>2, PostInserts, OneInserted
  <2>2. CASE PostOverflow(r, b.toAccount, b.amount)
    BY <1>5, <2>2, AbortEffects DEF TransferCredit, At, PostOverflow
  <2> QED
    BY <1>5, <2>1, <2>2 DEF TransferCredit
<1>6. CASE TransferDebit(r)
  <2>1. /\ pc[r] = "debit"
        /\ Post(r, b.from, "transfer_out", -b.amount, -b.amount, "commit")
    BY <1>6 DEF TransferDebit, At
  <2>2. work'[r].rows = work[r].rows \cup {Out(r)}
    BY <2>1, PostInserts DEF Out
  <2>3. BetweenOwn(b) => work'[r].rows = {In(r), Out(r)}
    BY <1>0, <2>1, <2>2 DEF Inserted
  <2> QED
    BY <1>0, <2>1, <2>2, <2>3, PostInserts, OneInserted
<1> QED
  BY <1>1, <1>2, <1>3, <1>4, <1>5, <1>6 DEF TransferStep

LEMMA DepositEffects ==
    ASSUME EffectInv, NEW r \in Requests, DepositStep(r)
    PROVE  Alone(r) /\ Effects(r)'
<1> DEFINE b == req[r]
<1>1. CASE DepositBegin(r)
  BY <1>1, GotoEffects DEF DepositBegin, At, Acquire, storeVars, Labels, InTransaction
<1>2. CASE DepositTarget(r)
  <2>1. DestinationRefusal(b) \in Answers /\ DestinationRefusal(b) # "ok"
    BY DEF DestinationRefusal, Answers
  <2> QED
    BY <1>2, <2>1, LockEffects DEF DepositTarget, At
<1>3. CASE DepositCredit(r)
  <2>1. pc[r] = "credit" /\ b.op = "deposit"
    BY <1>3 DEF DepositCredit, At
  <2>2. CASE Post(r, b.to, "credit", b.amount, b.amount, "commit")
    BY <2>1, <2>2, PostInserts, OneInserted DEF BetweenOwn
  <2>3. CASE PostOverflow(r, b.to, b.amount)
    BY <2>1, <2>3, AbortEffects DEF PostOverflow
  <2> QED
    BY <1>3, <2>2, <2>3 DEF DepositCredit
<1> QED
  BY <1>1, <1>2, <1>3 DEF DepositStep

LEMMA PayEffects ==
    ASSUME EffectInv, NEW r \in Requests,
           PayLoad(r) \/ PayBegin(r) \/ PaySource(r) \/ PayDebit(r) \/ PayMark(r)
    PROVE  Alone(r) /\ Effects(r)'
<1> DEFINE b == req[r]
<1>1. CASE PayLoad(r)
  <2>1. /\ pc[r] = "load" /\ UNCHANGED <<work, txrows>>
        /\ \/ Goto(r, "begin")
           \/ \E answer \in {"invoice not found", "not payable"} : Reply(r, answer)
    BY <1>1 DEF PayLoad, At, storeVars
  <2>2. "begin" \in Labels /\ {"invoice not found", "not payable"} \subseteq Answers
    BY DEF Labels, Answers
  <2> QED
    BY <2>1, <2>2, GotoEffects, EndEffects
<1>2. CASE PayBegin(r)
  BY <1>2, GotoEffects DEF PayBegin, At, Acquire, storeVars, Labels, InTransaction
<1>3. CASE PaySource(r)
  <2>1. PayRefusal(b) \in Answers /\ PayRefusal(b) # "ok"
    BY DEF PayRefusal, Answers
  <2> QED
    BY <1>3, <2>1, LockEffects DEF PaySource, At, BetweenOwn
<1>4. CASE PayDebit(r)
  <2>1. /\ pc[r] = "debit"
        /\ Post(r, b.from, "transfer_out", -Due(b), 0, "mark")
    BY <1>4 DEF PayDebit, At
  <2> QED
    BY <2>1, PostInserts, OneInserted
<1>5. CASE PayMark(r)
  <2>1. /\ pc[r] = "mark" /\ b.op = "pay"
        /\ work' = [work EXCEPT ![r].paid = @ \cup {b.invoice}]
        /\ pc' = [pc EXCEPT ![r] = "commit"] /\ UNCHANGED <<req, resp, txrows>>
    BY <1>5 DEF PayMark, At, Goto, storeVars
  <2>2. /\ work \in [Requests -> Work] /\ \A t \in work[r].rows : t.by = r
        /\ work[r].rows # {}
    BY <2>1 DEF EffectInv, IInv, TypeOK, Effects, Inserted
  <2>3. /\ work'[r].rows = work[r].rows /\ b.invoice \in work'[r].paid
        /\ \A s \in Requests \ {r} : work'[s] = work[s]
    BY <2>1, <2>2 DEF Work
  <2> QED
    BY <2>1, <2>2, <2>3, OneInserted DEF BetweenOwn
<1> QED
  BY <1>1, <1>2, <1>3, <1>4, <1>5

LEMMA OtherEffects ==
    ASSUME EffectInv, NEW r \in Requests,
           \/ StatusBegin(r) \/ StatusUpdate(r) \/ CreateInsert(r) \/ CreateFails(r)
           \/ RecipientDelete(r)
    PROVE  Alone(r) /\ Effects(r)'
<1>1. CASE StatusBegin(r)
  BY <1>1, GotoEffects DEF StatusBegin, At, Acquire, storeVars, Labels, InTransaction
<1>2. CASE ~StatusBegin(r)
  <2>1. /\ pc[r] \in {"update", "execute"} /\ ~Moving(req[r])
        /\ UNCHANGED <<work, txrows>>
    BY <1>2 DEF StatusUpdate, CreateInsert, CreateFails, RecipientDelete, At, Moving,
                storeVars
  <2>2. \E answer \in Outcome \cup {"invoice not found", "recipient not found",
                                    "internal"} : Reply(r, answer)
    BY <1>2 DEF StatusUpdate, CreateInsert, CreateFails, RecipientDelete
  <2>3. Outcome \cup {"invoice not found", "recipient not found", "internal"}
            \subseteq Answers
    BY DEF Outcome, Answers
  <2> QED
    BY <2>1, <2>2, <2>3, EndEffects
<1> QED
  BY <1>1, <1>2

\* COMMIT shows what was inserted, and only then is "ok" said.
LEMMA CommitEffects ==
    ASSUME EffectInv, NEW r \in Requests, Commit(r)
    PROVE  Alone(r) /\ Effects(r)'
<1>1. /\ pc[r] = "commit" /\ pc' = [pc EXCEPT ![r] = "done"]
      /\ txrows' = txrows \cup work[r].rows
      /\ work' = [work EXCEPT ![r] = NoWork] /\ UNCHANGED req
  BY DEF Commit, Reply
<1>2. PICK answer \in {"ok", "internal"} : resp' = [resp EXCEPT ![r] = answer]
  BY DEF Commit, Outcome, Reply
<1>3. /\ pc \in [Requests -> Labels] /\ resp \in [Requests -> Answers]
      /\ work \in [Requests -> Work] /\ Inserted(r) /\ Told(r)
  BY DEF EffectInv, IInv, TypeOK, Effects
<1>4. RowsBy(r)' = work[r].rows
  BY <1>1, <1>3 DEF Inserted, Told, RowsBy
<1>5. Alone(r)
  BY <1>1, <1>2, <1>3 DEF Alone
<1>6. pc'[r] = "done" /\ resp'[r] = answer /\ work'[r].rows = {}
  BY <1>1, <1>2, <1>3 DEF NoWork
<1>7. Inserted(r)'
  BY <1>6 DEF Inserted
<1>8. BetweenOwn(req[r]) => TransferRefusal(req[r]) = "none"
  BY <1>1, VettedTransfer DEF BetweenOwn, Active
<1>9. In(r)' = In(r) /\ Out(r)' = Out(r)
  BY <1>1 DEF In, Out, TxRow
<1>10. Told(r)'
  BY <1>1, <1>3, <1>4, <1>6, <1>8, <1>9 DEF Told, Inserted, BetweenOwn
<1> QED
  BY <1>5, <1>7, <1>10 DEF Effects

LEMMA RollbackEffects ==
    ASSUME EffectInv, NEW r \in Requests, Rollback(r)
    PROVE  Alone(r) /\ Effects(r)'
<1>1. /\ pc[r] = "rollback" /\ pc' = [pc EXCEPT ![r] = "done"]
      /\ work' = [work EXCEPT ![r] = NoWork] /\ UNCHANGED <<req, resp, txrows>>
  BY DEF Rollback, storeVars
<1>2. /\ pc \in [Requests -> Labels] /\ work \in [Requests -> Work] /\ Told(r)
  BY DEF EffectInv, IInv, TypeOK, Effects
<1>3. RowsBy(r)' = {} /\ RowsBy(r) = {}
  BY <1>1, <1>2 DEF Told, RowsBy
<1>4. Alone(r)
  BY <1>1, <1>2 DEF Alone
<1>5. pc'[r] = "done" /\ work'[r].rows = {}
  BY <1>1, <1>2 DEF NoWork
<1>6. Inserted(r)'
  BY <1>5 DEF Inserted
<1>7. Told(r)'
  BY <1>1, <1>2, <1>3, <1>5 DEF Told, Moving
<1> QED
  BY <1>4, <1>6, <1>7 DEF Effects

LEMMA FaultEffects ==
    ASSUME EffectInv, NEW r \in Requests, DeadlockAbort(r) \/ Fault(r)
    PROVE  Alone(r) /\ Effects(r)'
<1>1. CASE Abort(r) /\ pc[r] \notin {"done", "rollback"}
  BY <1>1, AbortEffects
<1>2. CASE /\ pc[r] \in {"load", "begin", "execute"} /\ Reply(r, "internal")
           /\ UNCHANGED <<work, txrows>>
  BY <1>2, EndEffects DEF Answers
<1>3. CASE /\ pc[r] \in InTransaction /\ Return(r, "internal")
           /\ UNCHANGED <<work, txrows>>
  <2>1. /\ pc' = [pc EXCEPT ![r] = "rollback"] /\ UNCHANGED <<req, work, txrows>>
        /\ resp' = [resp EXCEPT ![r] = "internal"] /\ pc[r] \notin {"done", "rollback"}
    BY <1>3 DEF Return, InTransaction
  <2>2. /\ pc \in [Requests -> Labels] /\ resp \in [Requests -> Answers]
        /\ Inserted(r) /\ Told(r)
    BY DEF EffectInv, IInv, TypeOK, Effects
  <2>3. RowsBy(r)' = {} /\ RowsBy(r) = {} /\ pc'[r] = "rollback" /\ resp'[r] = "internal"
    BY <2>1, <2>2 DEF Told, RowsBy
  <2>4. Alone(r)
    BY <2>1, <2>2 DEF Alone
  <2>5. Inserted(r)' /\ Told(r)'
    BY <2>1, <2>2, <2>3 DEF Inserted, Told
  <2> QED
    BY <2>4, <2>5 DEF Effects
<1> QED
  BY <1>1, <1>2, <1>3
     DEF DeadlockAbort, Deadlocked, Blocked, Fault, AcquireTimeout, StatementError,
         Abandon, InTransaction, storeVars

LEMMA ReceiveEffects ==
    ASSUME EffectInv, NEW r \in Requests, Receive(r)
    PROVE  Alone(r) /\ Effects(r)'
<1>1. /\ pc[r] = "idle" /\ UNCHANGED <<work, txrows>>
      /\ \E b \in Bodies : req' = [req EXCEPT ![r] = b]
  BY DEF Receive, TransferReceive, DepositReceive, InvoiceReceive, PayReceive,
         StatusReceive, CreateReceive, DeleteReceive, storeVars
<1>2. PICK label \in {"begin", "load", "execute", "done"} :
        pc' = [pc EXCEPT ![r] = label]
  BY DEF Receive, TransferReceive, DepositReceive, InvoiceReceive, PayReceive,
         StatusReceive, CreateReceive, DeleteReceive
<1>3. PICK answer \in Answers : /\ resp' = [resp EXCEPT ![r] = answer]
                                /\ answer # "ok"
                                /\ label # "done" => answer = "none"
  <2>1. resp \in [Requests -> Answers] /\ resp[r] = "none"
    BY <1>1 DEF EffectInv, IInv, TypeOK, Effects, Told
  <2>2. CASE UNCHANGED resp
    <3>1. resp' = [resp EXCEPT ![r] = "none"] /\ "none" \in Answers
      BY <2>1, <2>2 DEF Answers
    <3> QED
      BY <3>1
  <2>3. ASSUME NEW b \in Bodies, TransferReceive(r, b) \/ DepositReceive(r, b)
        PROVE  \E answer \in Answers : /\ resp' = [resp EXCEPT ![r] = answer]
                                       /\ answer # "ok"
                                       /\ label # "done" => answer = "none"
    BY <1>2, <2>1, <2>3
       DEF TransferReceive, TransferRefusal, DepositReceive, DepositRefusal, Answers,
           EffectInv, IInv, TypeOK
  <2>4. ASSUME NEW b \in Bodies, StatusReceive(r, b) \/ CreateReceive(r, b)
        PROVE  \E answer \in Answers : /\ resp' = [resp EXCEPT ![r] = answer]
                                       /\ answer # "ok"
                                       /\ label # "done" => answer = "none"
    BY <1>2, <2>1, <2>4 DEF StatusReceive, CreateReceive, Answers, EffectInv, IInv, TypeOK
  <2> QED
    BY <2>2, <2>3, <2>4 DEF Receive, InvoiceReceive, PayReceive, DeleteReceive
<1>4. /\ pc \in [Requests -> Labels] /\ resp \in [Requests -> Answers]
      /\ req \in [Requests -> Bodies \cup {None}] /\ Inserted(r) /\ Told(r)
  BY DEF EffectInv, IInv, TypeOK, Effects
<1>5. /\ pc'[r] = label /\ resp'[r] = answer /\ work'[r].rows = {}
      /\ RowsBy(r)' = {}
  BY <1>1, <1>2, <1>3, <1>4 DEF Inserted, Told, RowsBy
<1>6. Alone(r)
  BY <1>1, <1>2, <1>3, <1>4 DEF Alone
<1>7. Inserted(r)' /\ Told(r)'
  BY <1>3, <1>5 DEF Inserted, Told
<1> QED
  BY <1>6, <1>7 DEF Effects

-----------------------------------------------------------------------------
(* The theorems *)

LEMMA InitEffects == Init => EffectInv
<1> SUFFICES ASSUME Init
             PROVE  EffectInv
  OBVIOUS
<1>1. ASSUME NEW r \in Requests
      PROVE  Effects(r)
  BY DEF Init, Effects, Inserted, Told, NoWork, RowsBy
<1> QED
  BY <1>1, InitKeeps DEF EffectInv

LEMMA NextEffects == EffectInv /\ [Next]_vars => EffectInv'
<1> SUFFICES ASSUME EffectInv, [Next]_vars
             PROVE  EffectInv'
  OBVIOUS
<1>1. IInv'
  BY NextKeeps DEF EffectInv
<1>2. CASE UNCHANGED vars
  BY <1>1, <1>2
     DEF vars, EffectInv, Effects, Inserted, Told, RowsBy, In, Out, TxRow, BetweenOwn,
         Moving
<1>3. ASSUME NEW r \in Requests,
             Receive(r) \/ Step(r) \/ DeadlockAbort(r) \/ Fault(r)
      PROVE  EffectInv'
  <2>1. Alone(r) /\ Effects(r)'
    BY <1>3, ReceiveEffects, TransferEffects, DepositEffects, PayEffects, OtherEffects,
       CommitEffects, RollbackEffects, FaultEffects DEF Step, InvoiceStep
  <2>2. \A s \in Requests : Effects(s)'
    BY <2>1, OthersAlone
  <2> QED
    BY <1>1, <2>2 DEF EffectInv
<1> QED
  BY <1>2, <1>3 DEF Next

\* At every statement of a handler what is inserted so far, what is committed
\* and what the client was told fit together.
THEOREM EffectsInvariant == Spec => []EffectInv
  BY InitEffects, NextEffects, PTL DEF Spec

\* A transfer between own accounts leaves both of its rows, of opposite
\* amounts, or none: whatever fails and whoever interferes.
THEOREM BothRowsOrNone == Spec => []TransferAtomic
<1>1. EffectInv => TransferAtomic
  <2> SUFFICES ASSUME EffectInv, NEW r \in Requests,
                      RowsBy(r) # {}, req[r].op = "transfer", req[r].toAccount # None
               PROVE  \E in, out \in RowsBy(r) :
                        /\ RowsBy(r) = {in, out}
                        /\ in.account = req[r].toAccount /\ out.account = req[r].from
                        /\ in.amount = -out.amount /\ in.amount > 0
    BY DEF TransferAtomic
  <2>1. RowsBy(r) = {In(r), Out(r)} /\ TransferRefusal(req[r]) = "none" /\ pc[r] = "done"
    BY DEF EffectInv, Effects, Told, BetweenOwn
  <2>2. req[r].amount \in Int /\ Cent <= req[r].amount
    <3>1. req[r] \in Bodies
      BY <2>1 DEF EffectInv, IInv, Vetted
    <3>2. req[r].amount \in Int
      BY <3>1, BodyTypes DEF TransferBody
    <3> QED
      BY <2>1, <3>2 DEF TransferRefusal, ValidAmount
  <2>3. Numeric2(req[r].amount) > 0 /\ Numeric2(req[r].amount) = -Numeric2(-req[r].amount)
    BY <2>2 DEF Numeric2, HalfAwayFromZero, Cent
  <2>4. /\ In(r).account = req[r].toAccount /\ In(r).amount = Numeric2(req[r].amount)
        /\ Out(r).account = req[r].from /\ Out(r).amount = Numeric2(-req[r].amount)
    BY DEF In, Out, TxRow
  <2> QED
    BY <2>1, <2>3, <2>4
<1> QED
  BY <1>1, EffectsInvariant, PTL

\* "ok" is only said of money that moved, and a refusal of money that did not.
THEOREM AnswersAreTrue == Spec => []AnswerMatchesEffect
<1>1. EffectInv => AnswerMatchesEffect
  BY DEF EffectInv, Effects, Told, Moving, AnswerMatchesEffect
<1> QED
  BY <1>1, EffectsInvariant, PTL

\* Whoever sees a payment's debit sees its invoice paid.
THEOREM DebitMarksInvoice == Spec => PaymentMarksPaid
<1> DEFINE Marked == \A i \in Invoices : NewPayments(i) # {} => invoice'[i].status = "paid"
<1>1. ASSUME EffectInv, [Next]_vars
      PROVE  [Marked]_vars
  <2>1. ASSUME NEW r \in Requests, Commit(r)
        PROVE  Marked
    <3> SUFFICES ASSUME NEW i \in Invoices, NEW t \in NewPayments(i)
                 PROVE  invoice'[i].status = "paid"
      OBVIOUS
    <3>1. t.by = r /\ req[r].op = "pay" /\ req[r].invoice = i
      BY <1>1, <2>1 DEF NewPayments, Commit, EffectInv, Effects, Inserted
    <3>2. i \in work[r].paid
      BY <1>1, <2>1, <3>1 DEF Commit, EffectInv, Effects, Inserted
    <3>3. invoice[i] \in InvoiceRow
      BY <1>1 DEF EffectInv, IInv, TypeOK
    <3> QED
      BY <2>1, <3>2, <3>3 DEF Commit, InvoiceRow
  <2>2. CASE UNCHANGED txrows
    BY <2>2 DEF NewPayments
  <2>3. ASSUME NEW r \in Requests, TransferStep(r) \/ DepositStep(r) \/ InvoiceStep(r)
        PROVE  UNCHANGED txrows
    BY <2>3 DEF TransferStep, TransferBegin, TransferSource, TransferRecipient,
       TransferTarget, TransferCredit, TransferDebit, DepositStep, DepositBegin,
       DepositTarget, DepositCredit, InvoiceStep, PayLoad, PayBegin, PaySource,
       PayDebit, PayMark, StatusBegin, StatusUpdate, CreateInsert, CreateFails,
       LockAccount, Post, PostOverflow, Abort, Acquire, storeVars
  <2>4. ASSUME NEW r \in Requests,
               Receive(r) \/ RecipientDelete(r) \/ Rollback(r) \/ DeadlockAbort(r)
                   \/ Fault(r)
        PROVE  UNCHANGED txrows
    BY <2>4 DEF RecipientDelete, Rollback, DeadlockAbort, Fault, AcquireTimeout,
       StatementError, Abandon, Abort, Receive, TransferReceive, DepositReceive,
       InvoiceReceive, PayReceive, StatusReceive, CreateReceive, DeleteReceive, storeVars
  <2> QED
    BY <1>1, <2>1, <2>2, <2>3, <2>4 DEF Next, Step, vars
<1>2. Spec => [][Marked]_vars
  BY <1>1, EffectsInvariant, PTL DEF Spec
<1> QED
  BY <1>2 DEF PaymentMarksPaid

-----------------------------------------------------------------------------
(* The handlers implement AtomicBank: what a transaction holds when it     *)
(* commits is exactly what the request promises, computed from balances    *)
(* that nobody has changed since.                                          *)

Own(b, a) == a \in Open /\ Owner[a] = b.user
Amount(b) == IF b.op = "pay" THEN Due(b) ELSE b.amount

\* The accounts that a transaction has posted to so far.
Credited(r, a) ==
    \/ req[r].op = "transfer" /\ pc[r] \in {"debit", "commit"} /\ a = req[r].toAccount
    \/ req[r].op = "deposit" /\ pc[r] = "commit" /\ a = req[r].to
Debited(r, a) ==
    \/ req[r].op = "transfer" /\ pc[r] = "commit" /\ a = req[r].from
    \/ req[r].op = "pay" /\ pc[r] \in {"mark", "commit"} /\ a = req[r].from
Posted(r) == {a \in Accounts : Credited(r, a) \/ Debited(r, a)}

\* What it has posted there.
Change(r, a) == IF Debited(r, a) THEN -Amount(req[r]) ELSE req[r].amount
Entry(r, a) == IF req[r].op = "pay" THEN 0 ELSE Change(r, a)
Kind(r, a) == IF Debited(r, a) THEN "transfer_out"
              ELSE IF req[r].op = "deposit" THEN "credit" ELSE "transfer_in"

\* The checks that a transaction has behind it, and the funds it still has.
Permitted(r) ==
    LET b == req[r] IN
    /\ pc[r] = "idle" => b = None
    /\ pc[r] = "commit" => Moving(b)
    /\ b.op \in {"transfer", "pay"}
           /\ pc[r] \in {"recipient", "target", "credit", "debit", "mark", "commit"}
           => Own(b, b.from)
    /\ b.op = "transfer" /\ b.toAccount # None /\ pc[r] \in {"credit", "debit", "commit"}
           => Own(b, b.toAccount)
    /\ b.op = "deposit" /\ pc[r] \in {"credit", "commit"} => Own(b, b.to)
    /\ b.op \in {"transfer", "pay"} /\ pc[r] \in {"mark", "commit"}
           => lock[b.from] = r /\ balance[b.from] >= Amount(b)

BooksExact(r) ==
    /\ \A a \in Posted(r) :
           /\ lock[a] = r
           /\ work[r].balance[a] = Numeric2(balance[a] + Change(r, a)) - balance[a]
           /\ work[r].ledger[a] = Numeric4(Entry(r, a))
    /\ \A a \in Accounts \ Posted(r) : work[r].balance[a] = 0 /\ work[r].ledger[a] = 0
    /\ work[r].rows = {TxRow(r, a, Kind(r, a), Change(r, a)) : a \in Posted(r)}
    /\ work[r].paid = IF req[r].op = "pay" /\ pc[r] = "commit"
                        THEN {req[r].invoice} ELSE {}

Exact(r) == pc[r] \notin {"rollback", "done"} => Permitted(r) /\ BooksExact(r)

\* The inductive invariant: from the first posting to COMMIT the writes of a
\* transaction are those of its request, on the committed balances of now.
ExactInv == EffectInv /\ \A r \in Requests : Exact(r)

-----------------------------------------------------------------------------
(* The steps of one request and the exactness of the others *)

LEMMA AmountTyped ==
    ASSUME IInv, NEW r \in Requests, Active(r), pc[r] # "load", Moving(req[r])
    PROVE  /\ req[r].op \in {"transfer", "pay"} => req[r].from \in Accounts
           /\ req[r].op = "pay" => req[r].invoice \in Invoices /\ Due(req[r]) \in Int
           /\ req[r].op \in {"transfer", "deposit"} => req[r].amount \in Int
           /\ req[r].op = "transfer" => req[r].toAccount \in Accounts \cup {None}
           /\ req[r].op = "deposit" => req[r].to \in Accounts
           /\ Amount(req[r]) \in Int
<1>1. req[r] \in Bodies /\ invoice \in [Invoices -> InvoiceRow]
  BY DEF IInv, TypeOK, Vetted, Active
<1>2. CASE req[r].op = "pay"
  BY <1>1, <1>2, BodyTypes DEF PayBody, Due, InvoiceRow, Amount
<1>3. CASE req[r].op \in {"transfer", "deposit"}
  BY <1>1, <1>3, BodyTypes DEF TransferBody, DepositBody, Amount
<1> QED
  BY <1>2, <1>3 DEF Moving

\* Rows that s has locked keep their balance, invoices their amount.
LEMMA OthersExact ==
    ASSUME ExactInv, NEW r \in Requests, OnlyTouches(r), NEW s \in Requests \ {r}
    PROVE  Exact(s)'
<1>1. /\ pc'[s] = pc[s] /\ req'[s] = req[s] /\ work'[s] = work[s]
      /\ \A a \in Accounts : lock[a] = s => lock'[a] = s /\ balance'[a] = balance[a]
  BY DatabaseAssumption
     DEF OnlyTouches, DatabaseAssumption, ExactInv, EffectInv, IInv, TypeOK, Row
<1> SUFFICES ASSUME pc[s] \notin {"rollback", "done"}
             PROVE  Permitted(s)' /\ BooksExact(s)'
  BY <1>1 DEF Exact
<1>2. Permitted(s) /\ BooksExact(s)
  BY DEF ExactInv, Exact
<1>3. CASE pc[s] \in {"debit", "mark", "commit"} /\ Moving(req[s])
  <2>1. Active(s) /\ pc[s] # "load" /\ IInv
    BY <1>3 DEF Active, ExactInv, EffectInv
  <2>2. Amount(req[s])' = Amount(req[s])
    <3>1. CASE req[s].op = "pay"
      <4>1. req[s].invoice \in Invoices /\ invoice[req[s].invoice].status # "absent"
        BY <1>3, <2>1, <3>1, AmountTyped DEF IInv, Loaded
      <4> QED
        BY <1>1, <3>1, <4>1 DEF Amount, Due, OnlyTouches
    <3>2. CASE req[s].op # "pay"
      BY <1>1, <3>2 DEF Amount
    <3> QED
      BY <3>1, <3>2
  <2>3. Permitted(s)'
    BY <1>1, <1>2, <1>3, <2>1, <2>2, AmountTyped DEF Permitted, Own, Moving
  <2>4. /\ \A a : (Credited(s, a)' <=> Credited(s, a)) /\ (Debited(s, a)' <=> Debited(s, a))
        /\ \A a : Change(s, a)' = Change(s, a)
    BY <1>1, <2>2 DEF Credited, Debited, Change
  <2>5. /\ \A a : Entry(s, a)' = Entry(s, a) /\ Kind(s, a)' = Kind(s, a)
        /\ Posted(s)' = Posted(s)
    BY <1>1, <2>4 DEF Entry, Kind, Posted
  <2>6. /\ \A a \in Posted(s) : lock'[a] = lock[a] /\ balance'[a] = balance[a]
        /\ Posted(s) \subseteq Accounts
    BY <1>1, <1>2 DEF BooksExact, Posted
  <2>7. \A a \in Posted(s) : TxRow(s, a, Kind(s, a), Change(s, a))'
                               = TxRow(s, a, Kind(s, a), Change(s, a))
    BY <2>4, <2>5 DEF TxRow
  <2> QED
    BY <1>1, <1>2, <2>3, <2>4, <2>5, <2>6, <2>7 DEF BooksExact
<1>4. CASE ~(pc[s] \in {"debit", "mark", "commit"} /\ Moving(req[s]))
  <2>1. Posted(s) = {} /\ Posted(s)' = {}
    BY <1>1, <1>4 DEF Posted, Credited, Debited, Moving
  <2>2. ~(req[s].op = "pay" /\ pc[s] = "commit")
    BY <1>4 DEF Moving
  <2>3. BooksExact(s)'
    BY <1>1, <1>2, <2>1, <2>2 DEF BooksExact
  <2>4. Permitted(s)'
    BY <1>1, <1>2, <1>4 DEF Permitted, Own, Moving
  <2> QED
    BY <2>3, <2>4
<1> QED
  BY <1>3, <1>4

-----------------------------------------------------------------------------
(* The exactness of the request that takes the step *)

\* Nothing is written yet, and the next statement is still before the debit.
LEMMA OnwardExact ==
    ASSUME ExactInv, NEW r \in Requests, NEW label,
           pc[r] \notin {"debit", "mark", "commit", "rollback", "done"},
           pc' = [pc EXCEPT ![r] = label],
           UNCHANGED work,
           label \notin {"idle", "mark", "commit"},
           label = "debit" => ~BetweenOwn(req'[r]) /\ req'[r].op # "deposit",
           req'[r].op \in {"transfer", "pay"}
               /\ label \in {"recipient", "target", "credit", "debit"}
               => Own(req'[r], req'[r].from),
           req'[r].op = "transfer" /\ req'[r].toAccount # None
               /\ label \in {"credit", "debit"} => Own(req'[r], req'[r].toAccount),
           req'[r].op = "deposit" /\ label = "credit" => Own(req'[r], req'[r].to)
    PROVE  Exact(r)'
<1> SUFFICES ASSUME label \notin {"rollback", "done"}
             PROVE  Permitted(r)' /\ BooksExact(r)'
  BY DEF Exact, ExactInv, EffectInv, IInv, TypeOK
<1>1. pc'[r] = label /\ BooksExact(r) /\ None \notin Accounts
  BY DatabaseAssumption
     DEF Exact, ExactInv, EffectInv, IInv, TypeOK, DatabaseAssumption, Row
<1>2. Posted(r) = {} /\ Posted(r)' = {}
  BY <1>1 DEF Posted, Credited, Debited, BetweenOwn
<1>3. BooksExact(r)'
  BY <1>1, <1>2 DEF BooksExact
<1>4. Permitted(r)'
  BY <1>1 DEF Permitted, Own
<1> QED
  BY <1>3, <1>4

\* Nothing is left to be exact about.
LEMMA EndExact ==
    ASSUME ExactInv, NEW r \in Requests, NEW label \in {"rollback", "done"},
           pc' = [pc EXCEPT ![r] = label]
    PROVE  Exact(r)'
  BY DEF Exact, ExactInv, EffectInv, IInv, TypeOK

\* The checks after a row was locked.
LEMMA LockExact ==
    ASSUME ExactInv, NEW r \in Requests, NEW a, NEW refusal,
           NEW next \in {"recipient", "target", "credit", "debit"},
           pc[r] \in {"source", "target"},
           LockAccount(r, a, refusal, next),
           next = "debit" => ~BetweenOwn(req[r]) /\ req[r].op # "deposit",
           refusal = "none" /\ req[r].op \in {"transfer", "pay"}
               => Own(req[r], req[r].from),
           refusal = "none" /\ req[r].op = "transfer" /\ req[r].toAccount # None
               /\ next \in {"credit", "debit"} => Own(req[r], req[r].toAccount),
           refusal = "none" /\ req[r].op = "deposit" /\ next = "credit"
               => Own(req[r], req[r].to)
    PROVE  Exact(r)'
<1>1. CASE refusal = "none"
  <2>1. pc' = [pc EXCEPT ![r] = next] /\ UNCHANGED <<work, req>>
    BY <1>1 DEF LockAccount, Goto
  <2> QED
    BY <1>1, <2>1, OnwardExact
<1>2. CASE refusal # "none"
  <2>1. pc' = [pc EXCEPT ![r] = "rollback"]
    BY <1>2 DEF LockAccount, Return
  <2> QED
    BY <2>1, EndExact
<1> QED
  BY <1>1, <1>2

LEMMA BalanceTyped ==
    ASSUME IInv, NEW a \in Accounts
    PROVE  balance[a] \in Int /\ WholeCents(balance[a])
  BY MoneyAssumption DEF IInv, TypeOK, MoneyAssumption

\* A posting to an account that the transaction has not posted to before.
LEMMA PostExact ==
    ASSUME ExactInv, NEW r \in Requests, NEW a \in Accounts, a \notin Posted(r),
           pc[r] \notin {"rollback", "done"},
           NEW kind, NEW change \in Int, NEW entry \in Int, NEW next,
           Post(r, a, kind, change, entry, next)
    PROVE  /\ pc'[r] = next /\ UNCHANGED <<req, balance, ledger, invoice>>
           /\ lock'[a] = r /\ \A x \in Row \ {a} : lock'[x] = lock[x]
           /\ work'[r].balance[a] = Numeric2(balance[a] + change) - balance[a]
           /\ work'[r].ledger[a] = Numeric4(entry)
           /\ \A x \in Accounts \ {a} : /\ work'[r].balance[x] = work[r].balance[x]
                                        /\ work'[r].ledger[x] = work[r].ledger[x]
           /\ work'[r].rows = work[r].rows \cup {TxRow(r, a, kind, change)}
           /\ work'[r].paid = work[r].paid
<1>1. /\ work \in [Requests -> Work] /\ pc \in [Requests -> Labels]
      /\ lock \in [Row -> Requests \cup {None}] /\ a \in Row
      /\ work[r].balance[a] = 0 /\ work[r].ledger[a] = 0
  <2>1. BooksExact(r) /\ IInv
    BY DEF ExactInv, EffectInv, Exact
  <2>2. work[r].balance[a] = 0 /\ work[r].ledger[a] = 0
    BY <2>1 DEF BooksExact
  <2> QED
    BY <2>1, <2>2 DEF IInv, TypeOK, Row
<1>0. balance[a] \in Int
  BY BalanceTyped DEF ExactInv, EffectInv
<1>2. Updated(r, a, change) = Numeric2(balance[a] + change)
  BY <1>0, <1>1 DEF Updated
<1>3. pc'[r] = next /\ UNCHANGED <<req, balance, ledger, invoice>>
  BY <1>1 DEF Post, Goto, storeVars
<1>4. lock'[a] = r /\ \A x \in Row \ {a} : lock'[x] = lock[x]
  BY <1>1 DEF Post
<1>5. work'[r] =
        [balance |-> [work[r].balance EXCEPT ![a] = Updated(r, a, change) - balance[a]],
         ledger |-> [work[r].ledger EXCEPT ![a] = work[r].ledger[a] + Numeric4(entry)],
         rows |-> work[r].rows \cup {TxRow(r, a, kind, change)},
         paid |-> work[r].paid]
  BY <1>1 DEF Post
<1>6. work[r].balance \in [Accounts -> Int] /\ work[r].ledger \in [Accounts -> Int]
      /\ Numeric4(entry) \in Int
  BY <1>1, LedgerRoundingType DEF Work
<1> QED
  BY <1>1, <1>2, <1>3, <1>4, <1>5, <1>6

LEMMA TransferExact ==
    ASSUME ExactInv, NEW r \in Requests, TransferStep(r)
    PROVE  Exact(r)'
<1> DEFINE b == req[r]
<1>1. /\ b.op = "transfer" /\ Active(r) /\ pc[r] # "load"
      /\ TransferRefusal(b) = "none" /\ (b.toAccount = None <=> b.toRecipient # None)
  <2>1. b.op = "transfer" /\ Active(r) /\ pc[r] # "load"
    BY DEF TransferStep, TransferBegin, TransferSource, TransferRecipient,
           TransferTarget, TransferCredit, TransferDebit, At, Active
  <2> QED
    BY <2>1, VettedTransfer DEF ExactInv
<1>2. /\ b.from \in Accounts /\ b.amount \in Int /\ b.from # b.toAccount
      /\ b.toAccount \in Accounts \cup {None} /\ None \notin Accounts
  <2>1. b.from # b.toAccount
    BY <1>1 DEF TransferRefusal
  <2> QED
    BY <1>1, <2>1, AmountTyped, DatabaseAssumption
       DEF ExactInv, EffectInv, Moving, DatabaseAssumption, Row
<1>3. Permitted(r) /\ BooksExact(r)
  BY <1>1 DEF ExactInv, Exact, Active
<1>4. CASE TransferBegin(r)
  BY <1>1, <1>4, OnwardExact DEF TransferBegin, At, Acquire, Goto
<1>5. CASE TransferSource(r)
  <2>1. SourceRefusal(b) = "none" => Own(b, b.from)
    BY DEF SourceRefusal, Own
  <2> QED
    BY <1>1, <1>5, <2>1, LockExact DEF TransferSource, At
<1>6. CASE TransferRecipient(r)
  <2>1. /\ pc[r] = "recipient" /\ UNCHANGED <<work, req>> /\ b.toRecipient # None
        /\ \/ pc' = [pc EXCEPT ![r] = "debit"]
           \/ pc' = [pc EXCEPT ![r] = "rollback"]
    BY <1>1, <1>6 DEF TransferRecipient, At, Goto, Return, ExactInv, EffectInv, Effects,
                      Inserted, BetweenOwn
  <2>2. ~BetweenOwn(b) /\ Own(b, b.from)
    BY <1>1, <1>3, <2>1 DEF BetweenOwn, Permitted
  <2> QED
    BY <1>1, <2>1, <2>2, OnwardExact, EndExact DEF BetweenOwn
<1>7. CASE TransferTarget(r)
  <2>1. /\ pc[r] = "target" /\ Own(b, b.from)
        /\ TargetRefusal(b.toAccount, b.user) = "none" => Own(b, b.toAccount)
    BY <1>1, <1>3, <1>7 DEF TransferTarget, At, TargetRefusal, Own, Permitted
  <2> QED
    BY <1>1, <1>7, <2>1, LockExact DEF TransferTarget
<1>8. CASE TransferCredit(r)
  <2>1. /\ pc[r] = "credit" /\ b.toAccount \in Accounts /\ Posted(r) = {}
        /\ Own(b, b.from) /\ Own(b, b.toAccount)
    <3>1. pc[r] = "credit"
      BY <1>8 DEF TransferCredit, At
    <3>2. b.toAccount # None
      BY <1>1, <3>1 DEF ExactInv, EffectInv, IInv, Vetted
    <3> QED
      BY <1>1, <1>2, <1>3, <3>1, <3>2 DEF Posted, Credited, Debited, Permitted
  <2>2. CASE Post(r, b.toAccount, "transfer_in", b.amount, b.amount, "debit")
    <3>1. /\ pc'[r] = "debit" /\ req'[r] = b /\ UNCHANGED balance
          /\ lock'[b.toAccount] = r
          /\ work'[r].balance[b.toAccount] = Numeric2(balance[b.toAccount] + b.amount)
                                               - balance[b.toAccount]
          /\ work'[r].ledger[b.toAccount] = Numeric4(b.amount)
          /\ \A x \in Accounts \ {b.toAccount} :
                 work'[r].balance[x] = 0 /\ work'[r].ledger[x] = 0
          /\ work'[r].rows = {TxRow(r, b.toAccount, "transfer_in", b.amount)}
          /\ work'[r].paid = {}
      <4>1. b.toAccount \notin Posted(r) /\ pc[r] \notin {"rollback", "done"}
        BY <2>1
      <4>2. /\ \A x \in Accounts : work[r].balance[x] = 0 /\ work[r].ledger[x] = 0
            /\ work[r].rows = {} /\ work[r].paid = {}
        BY <1>1, <1>3, <2>1 DEF BooksExact
      <4> QED
        BY <1>2, <2>1, <2>2, <4>1, <4>2, PostExact
    <3>2. /\ Posted(r)' = {b.toAccount} /\ Change(r, b.toAccount)' = b.amount
          /\ Entry(r, b.toAccount)' = b.amount /\ Kind(r, b.toAccount)' = "transfer_in"
      BY <1>1, <2>1, <3>1 DEF Posted, Credited, Debited, Change, Entry, Kind
    <3>3. BooksExact(r)'
      BY <1>1, <3>1, <3>2 DEF BooksExact, TxRow
    <3>4. Permitted(r)'
      BY <1>1, <2>1, <3>1 DEF Permitted, Own
    <3> QED
      BY <3>3, <3>4 DEF Exact
  <2>3. CASE PostOverflow(r, b.toAccount, b.amount)
    BY <2>3, EndExact DEF PostOverflow, Abort, Return
  <2> QED
    BY <1>8, <2>2, <2>3 DEF TransferCredit
<1>9. CASE TransferDebit(r)
  <2>0. b.op = "transfer" /\ pc[r] = "debit"
    BY <1>9 DEF TransferDebit, At
  <2>1. /\ pc[r] = "debit" /\ Own(b, b.from) /\ b.toAccount # None => Own(b, b.toAccount)
        /\ Post(r, b.from, "transfer_out", -b.amount, -b.amount, "commit")
        /\ Covered(r, b.amount)
    BY <1>1, <1>3, <1>9
       DEF TransferDebit, At, Permitted, ExactInv, EffectInv, IInv, Funded
  <2>2. /\ Posted(r) = {b.toAccount} \ {None}
        /\ \A a \in Posted(r) : Change(r, a) = b.amount /\ Entry(r, a) = b.amount
                                /\ Kind(r, a) = "transfer_in"
    <3>1. \A a : (Credited(r, a) <=> a = b.toAccount) /\ ~Debited(r, a)
      BY <2>0 DEF Credited, Debited
    <3>2. Posted(r) = {b.toAccount} \ {None}
      BY <1>2, <3>1 DEF Posted
    <3> QED
      BY <1>1, <3>1, <3>2 DEF Change, Entry, Kind
  <2>3. /\ pc'[r] = "commit" /\ req'[r] = b /\ UNCHANGED balance
        /\ lock'[b.from] = r /\ \A x \in Row \ {b.from} : lock'[x] = lock[x]
        /\ work'[r].balance[b.from] = Numeric2(balance[b.from] + (-b.amount))
                                        - balance[b.from]
        /\ work'[r].ledger[b.from] = Numeric4(-b.amount)
        /\ \A x \in Accounts \ {b.from} : /\ work'[r].balance[x] = work[r].balance[x]
                                          /\ work'[r].ledger[x] = work[r].ledger[x]
        /\ work'[r].rows = work[r].rows \cup {TxRow(r, b.from, "transfer_out", -b.amount)}
        /\ work'[r].paid = work[r].paid
    <3>1. b.from \notin Posted(r) /\ -b.amount \in Int
      BY <1>2, <2>2
    <3> QED
      BY <1>1, <1>2, <2>1, <3>1, PostExact DEF Active
  <2>4. /\ Posted(r)' = Posted(r) \cup {b.from}
        /\ \A a \in Posted(r) : Change(r, a)' = b.amount /\ Entry(r, a)' = b.amount
                                /\ Kind(r, a)' = "transfer_in"
        /\ Change(r, b.from)' = -b.amount /\ Entry(r, b.from)' = -b.amount
        /\ Kind(r, b.from)' = "transfer_out"
    BY <1>1, <1>2, <2>2, <2>3
       DEF Posted, Credited, Debited, Change, Entry, Kind, Amount
  <2>5. work'[r].rows = {TxRow(r, a, Kind(r, a), Change(r, a))' : a \in Posted(r)'}
    BY <1>3, <2>2, <2>3, <2>4 DEF BooksExact, TxRow
  <2>6. BooksExact(r)'
    BY <1>1, <1>2, <1>3, <2>1, <2>2, <2>3, <2>4, <2>5 DEF BooksExact, Row
  <2>7. /\ b.from \in Open /\ Owner[b.from] = b.user
        /\ b.toAccount # None => b.toAccount \in Open /\ Owner[b.toAccount] = b.user
    BY <1>1, <1>3, <2>0 DEF Permitted, Own
  <2>8. Permitted(r)'
    <3>1. lock'[b.from] = r /\ balance'[b.from] >= Amount(b)'
      BY <1>1, <2>1, <2>3 DEF Covered, Amount
    <3>2. pc'[r] = "commit" /\ req'[r] = b /\ b.op = "transfer"
      BY <2>0, <2>3
    <3>3. Own(req'[r], req'[r].from)
      BY <2>7, <3>2 DEF Own
    <3>4. req'[r].toAccount # None => Own(req'[r], req'[r].toAccount)
      BY <2>7, <3>2 DEF Own
    <3> QED
      BY <3>1, <3>2, <3>3, <3>4 DEF Permitted, Own, Moving, Amount
  <2> QED
    BY <2>6, <2>8 DEF Exact
<1> QED
  BY <1>4, <1>5, <1>6, <1>7, <1>8, <1>9 DEF TransferStep

LEMMA DepositExact ==
    ASSUME ExactInv, NEW r \in Requests, DepositStep(r)
    PROVE  Exact(r)'
<1> DEFINE b == req[r]
<1>1. b.op = "deposit" /\ Active(r) /\ pc[r] # "load"
  BY DEF DepositStep, DepositBegin, DepositTarget, DepositCredit, At, Active
<1>2. b.to \in Accounts /\ b.amount \in Int
  BY <1>1, AmountTyped DEF ExactInv, EffectInv, Moving
<1>3. Permitted(r) /\ BooksExact(r)
  BY <1>1 DEF ExactInv, Exact, Active
<1>4. CASE DepositBegin(r)
  BY <1>1, <1>4, OnwardExact DEF DepositBegin, At, Acquire, Goto
<1>5. CASE DepositTarget(r)
  <2>1. DestinationRefusal(b) = "none" => Own(b, b.to)
    BY DEF DestinationRefusal, Own
  <2> QED
    BY <1>1, <1>5, <2>1, LockExact DEF DepositTarget, At
<1>6. CASE DepositCredit(r)
  <2>1. pc[r] = "credit" /\ Posted(r) = {} /\ b.to \in Open /\ Owner[b.to] = b.user
    <3>1. pc[r] = "credit"
      BY <1>6 DEF DepositCredit, At
    <3> QED
      BY <1>1, <1>3, <3>1 DEF Posted, Credited, Debited, Permitted, Own
  <2>2. CASE Post(r, b.to, "credit", b.amount, b.amount, "commit")
    <3>1. /\ pc'[r] = "commit" /\ req'[r] = b /\ UNCHANGED balance
          /\ lock'[b.to] = r
          /\ work'[r].balance[b.to] = Numeric2(balance[b.to] + b.amount) - balance[b.to]
          /\ work'[r].ledger[b.to] = Numeric4(b.amount)
          /\ \A x \in Accounts \ {b.to} :
                 work'[r].balance[x] = 0 /\ work'[r].ledger[x] = 0
          /\ work'[r].rows = {TxRow(r, b.to, "credit", b.amount)}
          /\ work'[r].paid = {}
      <4>1. b.to \notin Posted(r) /\ pc[r] \notin {"rollback", "done"}
        BY <2>1
      <4>2. /\ \A x \in Accounts : work[r].balance[x] = 0 /\ work[r].ledger[x] = 0
            /\ work[r].rows = {} /\ work[r].paid = {}
        BY <1>1, <1>3, <2>1 DEF BooksExact
      <4> QED
        BY <1>2, <2>2, <4>1, <4>2, PostExact
    <3>2. /\ Posted(r)' = {b.to} /\ Change(r, b.to)' = b.amount
          /\ Entry(r, b.to)' = b.amount /\ Kind(r, b.to)' = "credit"
      BY <1>1, <1>2, <3>1 DEF Posted, Credited, Debited, Change, Entry, Kind
    <3>3. BooksExact(r)'
      BY <1>1, <3>1, <3>2 DEF BooksExact, TxRow
    <3>4. Own(req'[r], req'[r].to)
      BY <2>1, <3>1 DEF Own
    <3>5. Permitted(r)'
      BY <1>1, <3>1, <3>4 DEF Permitted, Own, Moving
    <3> QED
      BY <3>3, <3>5 DEF Exact
  <2>3. CASE PostOverflow(r, b.to, b.amount)
    BY <2>3, EndExact DEF PostOverflow, Abort, Return
  <2> QED
    BY <1>6, <2>2, <2>3 DEF DepositCredit
<1> QED
  BY <1>4, <1>5, <1>6 DEF DepositStep

LEMMA PayExact ==
    ASSUME ExactInv, NEW r \in Requests,
           PayLoad(r) \/ PayBegin(r) \/ PaySource(r) \/ PayDebit(r) \/ PayMark(r)
    PROVE  Exact(r)'
<1> DEFINE b == req[r]
<1>1. b.op = "pay" /\ Active(r)
  BY DEF PayLoad, PayBegin, PaySource, PayDebit, PayMark, At, Active
<1>2. Permitted(r) /\ BooksExact(r)
  BY <1>1 DEF ExactInv, Exact, Active
<1>3. CASE PayLoad(r)
  <2>1. pc[r] = "load" /\ UNCHANGED work /\ (Goto(r, "begin") \/ \E why : Reply(r, why))
    BY <1>3 DEF PayLoad, At
  <2> QED
    BY <1>1, <2>1, OnwardExact, EndExact DEF Goto, Reply
<1>4. CASE PayBegin(r)
  BY <1>1, <1>4, OnwardExact DEF PayBegin, At, Acquire, Goto
<1>5. CASE PaySource(r)
  <2>1. PayRefusal(b) = "none" => Own(b, b.from)
    BY DEF PayRefusal, Own
  <2> QED
    BY <1>1, <1>5, <2>1, LockExact DEF PaySource, At, BetweenOwn
<1>6. CASE PayDebit(r)
  <2>1. /\ pc[r] = "debit" /\ b.from \in Open /\ Owner[b.from] = b.user
        /\ Post(r, b.from, "transfer_out", -Due(b), 0, "mark")
        /\ Covered(r, Due(b)) /\ Posted(r) = {}
    BY <1>1, <1>2, <1>6 DEF PayDebit, At, Permitted, Own, ExactInv, EffectInv, IInv, Funded,
       Posted, Credited, Debited
  <2>2. b.from \in Accounts /\ Due(b) \in Int
    BY <1>1, <2>1, AmountTyped DEF ExactInv, EffectInv, Moving
  <2>3. /\ pc'[r] = "mark" /\ req'[r] = b /\ UNCHANGED <<balance, invoice>>
        /\ lock'[b.from] = r
        /\ work'[r].balance[b.from] = Numeric2(balance[b.from] + (-Due(b)))
                                        - balance[b.from]
        /\ work'[r].ledger[b.from] = Numeric4(0)
        /\ \A x \in Accounts \ {b.from} :
               work'[r].balance[x] = 0 /\ work'[r].ledger[x] = 0
        /\ work'[r].rows = {TxRow(r, b.from, "transfer_out", -Due(b))}
        /\ work'[r].paid = {}
    <3>1. -Due(b) \in Int /\ b.from \notin Posted(r) /\ pc[r] \notin {"rollback", "done"}
      BY <2>1, <2>2
    <3>2. /\ \A x \in Accounts : work[r].balance[x] = 0 /\ work[r].ledger[x] = 0
          /\ work[r].rows = {} /\ work[r].paid = {}
      BY <1>1, <1>2, <2>1 DEF BooksExact
    <3> QED
      BY <2>1, <2>2, <3>1, <3>2, PostExact
  <2>4. Due(b)' = Due(b) /\ Amount(req[r])' = Due(b)
    BY <1>1, <2>3 DEF Due, Amount
  <2>5. /\ Posted(r)' = {b.from} /\ Change(r, b.from)' = -Due(b)
        /\ Entry(r, b.from)' = 0 /\ Kind(r, b.from)' = "transfer_out"
    BY <1>1, <2>2, <2>3, <2>4 DEF Posted, Credited, Debited, Change, Entry, Kind
  <2>6. BooksExact(r)'
    BY <1>1, <2>3, <2>5 DEF BooksExact, TxRow
  <2>7. Own(req'[r], req'[r].from) /\ lock'[b.from] = r /\ balance'[b.from] >= Due(b)
    BY <2>1, <2>3 DEF Own, Covered
  <2>8. Permitted(r)'
    BY <1>1, <2>3, <2>4, <2>7 DEF Permitted, Own
  <2> QED
    BY <2>6, <2>8 DEF Exact
<1>7. CASE PayMark(r)
  <2>1. /\ pc[r] = "mark" /\ RowFree(r, b.invoice)
        /\ lock' = [lock EXCEPT ![b.invoice] = r]
        /\ work' = [work EXCEPT ![r].paid = @ \cup {b.invoice}]
        /\ pc' = [pc EXCEPT ![r] = "commit"]
        /\ UNCHANGED <<req, balance, invoice>>
    BY <1>7 DEF PayMark, At, Goto, storeVars
  <2>2. b.from \in Accounts /\ b.invoice \in Invoices
    BY <1>1, <2>1, AmountTyped DEF ExactInv, EffectInv, Moving
  <2>3. /\ pc'[r] = "commit" /\ \A a \in Accounts : lock'[a] = lock[a]
        /\ work'[r].balance = work[r].balance /\ work'[r].ledger = work[r].ledger
        /\ work'[r].rows = work[r].rows /\ work'[r].paid = work[r].paid \cup {b.invoice}
    BY <2>1, <2>2, DatabaseAssumption
       DEF DatabaseAssumption, ExactInv, EffectInv, IInv, TypeOK, Row, Work
  <2>4. Amount(req[r])' = Amount(b) /\ b.from \in Open /\ Owner[b.from] = b.user
        /\ lock[b.from] = r /\ balance[b.from] >= Amount(b)
    BY <1>1, <1>2, <2>1 DEF Due, Amount, Permitted, Own
  <2>5. /\ Posted(r)' = Posted(r) /\ \A a : Change(r, a)' = Change(r, a)
        /\ \A a : Entry(r, a)' = Entry(r, a) /\ Kind(r, a)' = Kind(r, a)
    BY <1>1, <2>1, <2>3, <2>4 DEF Posted, Credited, Debited, Change, Entry, Kind
  <2>6. work'[r].paid = {b.invoice}
    BY <1>1, <1>2, <2>1, <2>3 DEF BooksExact
  <2>7. BooksExact(r)'
    BY <1>1, <1>2, <2>1, <2>3, <2>5, <2>6 DEF BooksExact, TxRow, Posted
  <2>8. Own(req'[r], req'[r].from)
    BY <2>1, <2>4 DEF Own
  <2>9. Permitted(r)'
    BY <1>1, <2>1, <2>2, <2>3, <2>4, <2>8 DEF Permitted, Own, Moving
  <2> QED
    BY <2>7, <2>9 DEF Exact
<1> QED
  BY <1>3, <1>4, <1>5, <1>6, <1>7

\* The steps that end a request, or begin one that moves no money.
LEMMA OtherExact ==
    ASSUME ExactInv, NEW r \in Requests,
           \/ StatusBegin(r) \/ StatusUpdate(r) \/ CreateInsert(r) \/ CreateFails(r)
           \/ RecipientDelete(r) \/ Commit(r) \/ Rollback(r)
           \/ DeadlockAbort(r) \/ Fault(r)
    PROVE  Exact(r)'
<1>1. CASE StatusBegin(r)
  BY <1>1, OnwardExact DEF StatusBegin, At, Acquire, Goto
<1>2. CASE ~StatusBegin(r)
  <2>1. \/ pc' = [pc EXCEPT ![r] = "done"]
        \/ pc' = [pc EXCEPT ![r] = "rollback"]
    BY <1>2 DEF StatusUpdate, CreateInsert, CreateFails, RecipientDelete, Commit, Rollback,
       DeadlockAbort, Fault, AcquireTimeout, StatementError, Abandon, Abort, Return, Reply
  <2> QED
    BY <2>1, EndExact
<1> QED
  BY <1>1, <1>2

LEMMA ReceiveExact ==
    ASSUME ExactInv, NEW r \in Requests, Receive(r)
    PROVE  Exact(r)'
<1>1. pc[r] = "idle" /\ UNCHANGED work
  BY DEF Receive, TransferReceive, DepositReceive, InvoiceReceive, PayReceive,
         StatusReceive, CreateReceive, DeleteReceive
<1>2. PICK label \in {"begin", "load", "execute", "done"} :
        pc' = [pc EXCEPT ![r] = label]
  BY DEF Receive, TransferReceive, DepositReceive, InvoiceReceive, PayReceive,
         StatusReceive, CreateReceive, DeleteReceive
<1> QED
  BY <1>1, <1>2, OnwardExact

-----------------------------------------------------------------------------
(* The invariant *)

LEMMA InitExact == Init => ExactInv
<1> SUFFICES ASSUME Init
             PROVE  ExactInv
  OBVIOUS
<1>1. ASSUME NEW r \in Requests
      PROVE  Exact(r)
  <2>1. /\ pc[r] = "idle" /\ req[r] = None /\ work[r].rows = {} /\ work[r].paid = {}
        /\ \A a \in Accounts : work[r].balance[a] = 0 /\ work[r].ledger[a] = 0
    BY DEF Init, NoWork
  <2>2. Posted(r) = {}
    BY <2>1 DEF Posted, Credited, Debited
  <2>3. BooksExact(r)
    BY <2>1, <2>2 DEF BooksExact
  <2>4. Permitted(r)
    BY <2>1 DEF Permitted
  <2> QED
    BY <2>3, <2>4 DEF Exact
<1> QED
  BY <1>1, InitEffects DEF ExactInv

LEMMA NextTouches ==
    ASSUME IInv, NEW r \in Requests, Receive(r) \/ Step(r) \/ DeadlockAbort(r) \/ Fault(r)
    PROVE  OnlyTouches(r)
<1>1. Kept(r)
  BY ReceiveKeeps, TransferKeeps, DepositKeeps, InvoiceKeeps, RecipientKeeps, CommitKeeps,
     EndingKeeps DEF Step
<1> QED
  BY <1>1 DEF Kept

LEMMA NextExact == ExactInv /\ [Next]_vars => ExactInv'
<1> SUFFICES ASSUME ExactInv, [Next]_vars
             PROVE  ExactInv'
  OBVIOUS
<1>1. EffectInv'
  BY NextEffects DEF ExactInv
<1>2. CASE UNCHANGED vars
  <2>1. UNCHANGED <<pc, req, lock, work, balance, invoice>>
    BY <1>2 DEF vars
  <2>2. ASSUME NEW r \in Requests
        PROVE  Exact(r)'
    BY <2>1 DEF ExactInv, Exact, Permitted, BooksExact, Own, Amount, Due, Posted, Credited,
       Debited, Change, Entry, Kind, TxRow, Moving
  <2> QED
    BY <1>1, <2>2 DEF ExactInv
<1>3. ASSUME NEW r \in Requests,
             Receive(r) \/ Step(r) \/ DeadlockAbort(r) \/ Fault(r)
      PROVE  ExactInv'
  <2>1. Exact(r)'
    BY <1>3, ReceiveExact, TransferExact, DepositExact, PayExact, OtherExact
       DEF Step, InvoiceStep
  <2>2. OnlyTouches(r)
    BY <1>3, NextTouches DEF ExactInv, EffectInv
  <2>3. \A s \in Requests : Exact(s)'
    BY <2>1, <2>2, OthersExact
  <2> QED
    BY <1>1, <2>3 DEF ExactInv
<1> QED
  BY <1>2, <1>3 DEF Next

\* Between its first posting and COMMIT a transaction holds exactly the writes
\* of its request on the balances committed so far, and its rows are locked.
THEOREM ExactnessInvariant == Spec => []ExactInv
  BY InitExact, NextExact, PTL DEF Spec

-----------------------------------------------------------------------------
(* Steps of the handlers as steps of AtomicBank *)

LEMMA SameNumeric ==
    ASSUME NEW x \in Int
    PROVE  /\ Atomic!Numeric2(x) = Numeric2(x) /\ Atomic!Numeric4(x) = Numeric4(x)
           /\ Atomic!ValidAmount(x) <=> ValidAmount(x)
  BY DEF Atomic!Numeric2, Numeric2, Atomic!Numeric4, Numeric4, Atomic!HalfAwayFromZero,
         HalfAwayFromZero, Atomic!Cent, Cent, Atomic!Tick, Tick, Atomic!ValidAmount,
         ValidAmount

SeenBy(r) ==
    /\ resp[r] = "none"
    /\ \/ pc[r] \in {"begin", "source", "debit", "mark", "commit"} /\ req[r].op = "pay"
       \/ /\ pc[r] \in {"debit", "commit"} /\ req[r].op = "transfer"
          /\ req[r].toRecipient # None

LEMMA NextAlone ==
    ASSUME EffectInv, NEW r \in Requests,
           Receive(r) \/ Step(r) \/ DeadlockAbort(r) \/ Fault(r)
    PROVE  Alone(r)
  BY ReceiveEffects, TransferEffects, DepositEffects, PayEffects, OtherEffects,
     CommitEffects, RollbackEffects, FaultEffects DEF Step, InvoiceStep

LEMMA SeenAfter ==
    ASSUME NEW r \in Requests, Alone(r)
    PROVE  Seen' = [Seen EXCEPT ![r] = SeenBy(r)'] /\ (Seen[r] <=> SeenBy(r))
<1>1. \A s \in Requests \ {r} : Seen[s]' = Seen[s]
  BY DEF Alone, Seen
<1>2. Seen[r]' = SeenBy(r)' /\ Seen[r] = SeenBy(r)
  BY DEF Seen, SeenBy
<1>3. Seen = [s \in Requests |-> Seen[s]] /\ Seen' = [s \in Requests |-> Seen[s]']
  BY DEF Seen
<1> QED
  BY <1>1, <1>2, <1>3

LEMMA StutterStep ==
    ASSUME NEW r \in Requests, Alone(r), UNCHANGED <<req, resp, storeVars>>,
           SeenBy(r)' <=> SeenBy(r)
    PROVE  UNCHANGED Atomic!avars
<1>1. Seen' = Seen
  <2>1. \A s \in Requests \ {r} : Seen[s]' = Seen[s]
    BY DEF Alone, Seen
  <2>2. Seen[r]' = Seen[r]
    BY DEF Seen, SeenBy
  <2>3. Seen = [s \in Requests |-> Seen[s]] /\ Seen' = [s \in Requests |-> Seen[s]']
    BY DEF Seen
  <2> QED
    BY <2>1, <2>2, <2>3
<1> QED
  BY <1>1 DEF Atomic!avars, storeVars

LEMMA ActivePending ==
    ASSUME EffectInv, NEW r \in Requests, Active(r)
    PROVE  Atomic!Pending(r)
<1>1. req[r] \in Bodies /\ None \notin Bodies
  BY DatabaseAssumption DEF EffectInv, IInv, Vetted, Active, DatabaseAssumption
<1>2. resp[r] = "none"
  BY DEF EffectInv, Effects, Told, Active
<1> QED
  BY <1>1, <1>2 DEF Atomic!Pending

LEMMA TellStep ==
    ASSUME EffectInv, NEW r \in Requests, Alone(r), NEW answer, answer # "none",
           resp' = [resp EXCEPT ![r] = answer], UNCHANGED req
    PROVE  Atomic!Tell(r, answer)
<1>1. ~SeenBy(r)'
  BY DEF SeenBy, EffectInv, IInv, TypeOK
<1>2. Seen' = [Seen EXCEPT ![r] = SeenBy(r)']
  BY SeenAfter
<1>3. SeenBy(r)' = FALSE
  BY <1>1 DEF SeenBy
<1> QED
  BY <1>2, <1>3 DEF Atomic!Tell

LEMMA RefuseStep ==
    ASSUME EffectInv, NEW r \in Requests, Alone(r), Active(r),
           NEW why \in Atomic!Refusals(req[r]) \cup {"internal"},
           resp' = [resp EXCEPT ![r] = why], UNCHANGED <<req, storeVars>>
    PROVE  Atomic!Refuse(r)
<1>1. why # "none"
  BY DEF Atomic!Refusals
<1>2. Atomic!Pending(r) /\ Atomic!Tell(r, why)
  BY <1>1, ActivePending, TellStep
<1> QED
  BY <1>2 DEF Atomic!Refuse, Atomic!store, storeVars

Simulated(r) == \/ UNCHANGED Atomic!avars
                \/ Atomic!Receive(r) \/ Atomic!Observe(r) \/ Atomic!Move(r)
                \/ Atomic!ChangeInvoice(r) \/ Atomic!ForgetRecipient(r)
                \/ Atomic!Refuse(r)

\* A row is locked and the request goes on, or is refused.
LEMMA LockStep ==
    ASSUME EffectInv, NEW r \in Requests, Alone(r), Active(r), NEW a, NEW refusal,
           NEW next \in {"recipient", "target", "credit", "debit"},
           LockAccount(r, a, refusal, next),
           refusal = "none" \/ refusal \in Atomic!Refusals(req[r]),
           refusal = "none" => (SeenBy(r)' <=> SeenBy(r))
    PROVE  Simulated(r)
<1>1. CASE refusal = "none"
  BY <1>1, StutterStep DEF LockAccount, Goto, Simulated
<1>2. CASE refusal # "none"
  <2>1. resp' = [resp EXCEPT ![r] = refusal] /\ UNCHANGED <<req, storeVars>>
    BY <1>2 DEF LockAccount, Return
  <2> QED
    BY <1>2, <2>1, RefuseStep DEF Simulated
<1> QED
  BY <1>1, <1>2

LEMMA AbortStep ==
    ASSUME EffectInv, NEW r \in Requests, Alone(r), Active(r), Abort(r)
    PROVE  Simulated(r)
  BY RefuseStep DEF Abort, Return, Simulated

LEMMA TransferSimulated ==
    ASSUME EffectInv, NEW r \in Requests, TransferStep(r)
    PROVE  Simulated(r)
<1> DEFINE b == req[r]
<1>1. /\ b.op = "transfer" /\ Active(r) /\ pc[r] # "load" /\ Alone(r)
      /\ (b.toAccount = None <=> b.toRecipient # None)
      /\ resp[r] = "none" /\ pc \in [Requests -> Labels]
      /\ pc[r] \in {"target", "credit"} => b.toAccount # None
  <2>1. b.op = "transfer" /\ Active(r) /\ pc[r] # "load"
    BY DEF TransferStep, TransferBegin, TransferSource, TransferRecipient,
           TransferTarget, TransferCredit, TransferDebit, At, Active
  <2> QED
    BY <2>1, VettedTransfer, TransferEffects
       DEF EffectInv, Effects, Told, Active, IInv, TypeOK, Vetted
<1>2. CASE TransferBegin(r)
  <2>1. /\ pc[r] = "begin" /\ pc'[r] = "source" /\ UNCHANGED <<req, resp, storeVars>>
    BY <1>1, <1>2 DEF TransferBegin, At, Acquire, Goto
  <2> QED
    BY <1>1, <2>1, StutterStep DEF Simulated, SeenBy
<1>3. CASE TransferSource(r)
  <2>1. SourceRefusal(b) = "none" \/ SourceRefusal(b) \in Atomic!Refusals(b)
    BY <1>1 DEF SourceRefusal, Atomic!Refusals, Atomic!Mine, Atomic!Price
  <2>2. ASSUME SourceRefusal(b) = "none"
        PROVE  SeenBy(r)' <=> SeenBy(r)
    BY <1>1, <1>3, <2>2 DEF TransferSource, At, LockAccount, Goto, SeenBy
  <2> QED
    BY <1>1, <1>3, <2>1, <2>2, LockStep DEF TransferSource
<1>4. CASE TransferRecipient(r)
  <2>1. pc[r] = "recipient" /\ UNCHANGED storeVars
    BY <1>4 DEF TransferRecipient, At
  <2>2. b.toRecipient # None
    BY <1>1, <2>1 DEF EffectInv, Effects, Inserted, BetweenOwn
  <2>3. CASE b.toRecipient \in recipients /\ RecipientOwner[b.toRecipient] = b.user
    <3>1. pc'[r] = "debit" /\ UNCHANGED <<req, resp>>
      BY <1>1, <1>4, <2>3 DEF TransferRecipient, Goto
    <3>2. SeenBy(r)' = TRUE /\ ~SeenBy(r)
      BY <1>1, <2>1, <2>2, <3>1 DEF SeenBy
    <3>3. Seen' = [Seen EXCEPT ![r] = TRUE] /\ ~Seen[r]
      BY <1>1, <3>2, SeenAfter
    <3>4. Atomic!Pending(r)
      BY <1>1, ActivePending
    <3> QED
      BY <1>1, <2>1, <2>2, <2>3, <3>1, <3>3, <3>4
         DEF Simulated, Atomic!Observe, Atomic!ToRecipient, Atomic!MyRecipient,
             Atomic!store, storeVars
  <2>4. CASE ~(b.toRecipient \in recipients /\ RecipientOwner[b.toRecipient] = b.user)
    <3>1. resp' = [resp EXCEPT ![r] = "recipient not found"] /\ UNCHANGED req
      BY <1>4, <2>4 DEF TransferRecipient, Return
    <3>2. "recipient not found" \in Atomic!Refusals(b)
      BY <1>1, <2>2, <2>4 DEF Atomic!Refusals, Atomic!ToRecipient, Atomic!MyRecipient
    <3> QED
      BY <1>1, <2>1, <3>1, <3>2, RefuseStep DEF Simulated
  <2> QED
    BY <2>3, <2>4
<1>5. CASE TransferTarget(r)
  <2>1. pc[r] = "target"
    BY <1>5 DEF TransferTarget, At
  <2>2. \/ TargetRefusal(b.toAccount, b.user) = "none"
        \/ TargetRefusal(b.toAccount, b.user) \in Atomic!Refusals(b)
    BY <1>1, <2>1 DEF TargetRefusal, Atomic!Refusals, Atomic!Mine
  <2>3. ASSUME TargetRefusal(b.toAccount, b.user) = "none"
        PROVE  SeenBy(r)' <=> SeenBy(r)
    BY <1>1, <1>5, <2>1, <2>3 DEF TransferTarget, LockAccount, Goto, SeenBy
  <2> QED
    BY <1>1, <1>5, <2>2, <2>3, LockStep DEF TransferTarget
<1>6. CASE TransferCredit(r)
  <2>1. pc[r] = "credit"
    BY <1>6 DEF TransferCredit, At
  <2>2. CASE Post(r, b.toAccount, "transfer_in", b.amount, b.amount, "debit")
    <3>1. pc'[r] = "debit" /\ UNCHANGED <<req, resp, storeVars>>
      BY <1>1, <2>2 DEF Post, Goto
    <3>2. ~SeenBy(r)' /\ ~SeenBy(r)
      BY <1>1, <2>1, <3>1 DEF SeenBy
    <3> QED
      BY <1>1, <3>1, <3>2, StutterStep DEF Simulated
  <2> QED
    BY <1>1, <1>6, <2>2, AbortStep DEF TransferCredit, PostOverflow
<1>7. CASE TransferDebit(r)
  <2>1. pc[r] = "debit" /\ pc'[r] = "commit" /\ UNCHANGED <<req, resp, storeVars>>
    BY <1>1, <1>7 DEF TransferDebit, At, Post, Goto
  <2> QED
    BY <1>1, <2>1, StutterStep DEF Simulated, SeenBy
<1> QED
  BY <1>2, <1>3, <1>4, <1>5, <1>6, <1>7 DEF TransferStep

LEMMA DepositSimulated ==
    ASSUME EffectInv, NEW r \in Requests, DepositStep(r)
    PROVE  Simulated(r)
<1> DEFINE b == req[r]
<1>1. b.op = "deposit" /\ Active(r) /\ Alone(r) /\ ~SeenBy(r)
  <2>1. b.op = "deposit" /\ Active(r)
    BY DEF DepositStep, DepositBegin, DepositTarget, DepositCredit, At, Active
  <2> QED
    BY <2>1, DepositEffects DEF SeenBy
<1>2. CASE DepositBegin(r)
  <2>1. UNCHANGED <<req, resp, storeVars>>
    BY <1>2 DEF DepositBegin, Acquire, Goto
  <2> QED
    BY <1>1, <2>1, StutterStep DEF Simulated, SeenBy
<1>3. CASE DepositTarget(r)
  <2>1. DestinationRefusal(b) = "none" \/ DestinationRefusal(b) \in Atomic!Refusals(b)
    BY <1>1 DEF DestinationRefusal, Atomic!Refusals, Atomic!Mine
  <2>2. ASSUME DestinationRefusal(b) = "none"
        PROVE  SeenBy(r)' <=> SeenBy(r)
    BY <1>1, <1>3, <2>2 DEF DepositTarget, LockAccount, Goto, SeenBy
  <2> QED
    BY <1>1, <1>3, <2>1, <2>2, LockStep DEF DepositTarget
<1>4. CASE DepositCredit(r)
  <2>1. CASE Post(r, b.to, "credit", b.amount, b.amount, "commit")
    <3>1. UNCHANGED <<req, resp, storeVars>>
      BY <2>1 DEF Post, Goto
    <3> QED
      BY <1>1, <3>1, StutterStep DEF Simulated, SeenBy
  <2> QED
    BY <1>1, <1>4, <2>1, AbortStep DEF DepositCredit, PostOverflow
<1> QED
  BY <1>2, <1>3, <1>4 DEF DepositStep

LEMMA PaySimulated ==
    ASSUME EffectInv, NEW r \in Requests,
           PayLoad(r) \/ PayBegin(r) \/ PaySource(r) \/ PayDebit(r) \/ PayMark(r)
    PROVE  Simulated(r)
<1> DEFINE b == req[r]
<1>1. b.op = "pay" /\ Active(r) /\ Alone(r) /\ resp[r] = "none" /\ pc \in [Requests -> Labels]
  <2>1. b.op = "pay" /\ Active(r)
    BY DEF PayLoad, PayBegin, PaySource, PayDebit, PayMark, At, Active
  <2> QED
    BY <2>1, PayEffects DEF EffectInv, Effects, Told, Active, IInv, TypeOK
<1>2. CASE PayLoad(r)
  <2>1. pc[r] = "load" /\ UNCHANGED storeVars
    BY <1>2 DEF PayLoad, At
  <2>2. CASE /\ Goto(r, "begin") /\ InvoiceOf(b.invoice, b.user)
             /\ invoice[b.invoice].status \in Payable
    <3>1. pc'[r] = "begin" /\ UNCHANGED <<req, resp>>
      BY <1>1, <2>2 DEF Goto
    <3>2. SeenBy(r)' = TRUE /\ ~SeenBy(r)
      BY <1>1, <2>1, <3>1 DEF SeenBy
    <3>3. Seen' = [Seen EXCEPT ![r] = TRUE] /\ ~Seen[r]
      BY <1>1, <3>2, SeenAfter
    <3>4. Atomic!Pending(r)
      BY <1>1, ActivePending
    <3> QED
      BY <1>1, <2>1, <2>2, <3>1, <3>3, <3>4
         DEF Simulated, Atomic!Observe, Atomic!MyInvoice, InvoiceOf, Payable,
             Atomic!store, storeVars
  <2>3. CASE \/ Reply(r, "invoice not found") /\ ~InvoiceOf(b.invoice, b.user)
             \/ /\ Reply(r, "not payable") /\ InvoiceOf(b.invoice, b.user)
                /\ invoice[b.invoice].status \notin Payable
    <3>1. PICK why \in Atomic!Refusals(b) : Reply(r, why)
      BY <1>1, <2>3 DEF Atomic!Refusals, Atomic!MyInvoice, InvoiceOf, Payable
    <3> QED
      BY <1>1, <2>1, <3>1, RefuseStep DEF Simulated, Reply
  <2> QED
    BY <1>2, <2>2, <2>3 DEF PayLoad
<1>3. CASE PayBegin(r)
  <2>1. /\ pc[r] = "begin" /\ pc'[r] = "source" /\ UNCHANGED <<req, resp, storeVars>>
    BY <1>1, <1>3 DEF PayBegin, At, Acquire, Goto
  <2> QED
    BY <1>1, <2>1, StutterStep DEF Simulated, SeenBy
<1>4. CASE PaySource(r)
  <2>1. PayRefusal(b) = "none" \/ PayRefusal(b) \in Atomic!Refusals(b)
    BY <1>1 DEF PayRefusal, Due, Atomic!Refusals, Atomic!Mine, Atomic!Price
  <2>2. ASSUME PayRefusal(b) = "none"
        PROVE  SeenBy(r)' <=> SeenBy(r)
    BY <1>1, <1>4, <2>2 DEF PaySource, At, LockAccount, Goto, SeenBy
  <2> QED
    BY <1>1, <1>4, <2>1, <2>2, LockStep DEF PaySource
<1>5. CASE PayDebit(r) \/ PayMark(r)
  <2>1. /\ pc[r] \in {"debit", "mark"} /\ pc'[r] \in {"mark", "commit"}
        /\ UNCHANGED <<req, resp, storeVars>>
    BY <1>1, <1>5 DEF PayDebit, PayMark, At, Post, Goto
  <2> QED
    BY <1>1, <2>1, StutterStep DEF Simulated, SeenBy
<1> QED
  BY <1>2, <1>3, <1>4, <1>5

LEMMA OutcomeAnswers == Outcome \subseteq {"ok", "internal"}
  BY DEF Outcome

LEMMA OtherSimulated ==
    ASSUME EffectInv, NEW r \in Requests,
           \/ StatusBegin(r) \/ StatusUpdate(r) \/ CreateInsert(r) \/ CreateFails(r)
           \/ RecipientDelete(r)
    PROVE  Simulated(r)
<1> DEFINE b == req[r]
<1>1. /\ b.op \in {"status", "create", "delete"} /\ Active(r) /\ Alone(r) /\ ~SeenBy(r)
  <2>1. b.op \in {"status", "create", "delete"} /\ Active(r)
    BY DEF StatusBegin, StatusUpdate, CreateInsert, CreateFails, RecipientDelete, At, Active
  <2> QED
    BY <2>1, OtherEffects DEF SeenBy
<1>2. Atomic!Pending(r)
  BY <1>1, ActivePending
<1>3. ASSUME NEW answer \in {"ok", "internal"}, Reply(r, answer)
      PROVE  Atomic!Tell(r, answer)
  BY <1>1, <1>3, TellStep DEF Reply
<1>4. CASE StatusBegin(r)
  <2>1. UNCHANGED <<req, resp, storeVars>>
    BY <1>4 DEF StatusBegin, Acquire, Goto
  <2> QED
    BY <1>1, <2>1, StutterStep DEF Simulated, SeenBy
<1>5. CASE StatusUpdate(r)
  <2>1. b.op = "status"
    BY <1>5 DEF StatusUpdate, At
  <2>2. CASE InvoiceOf(b.invoice, b.user)
    <3>1. PICK answer \in {"ok", "internal"} : Reply(r, answer)
      BY <1>5, <2>2, OutcomeAnswers DEF StatusUpdate
    <3>2. Atomic!MyInvoice(b)
      BY <2>2 DEF InvoiceOf, Atomic!MyInvoice
    <3>3. /\ invoice' = [invoice EXCEPT ![b.invoice].status = b.status]
          /\ UNCHANGED <<balance, ledger, txrows, recipients>>
      BY <1>5, <2>2 DEF StatusUpdate
    <3>4. Atomic!ChangeInvoice(r)
      BY <1>2, <1>3, <2>1, <3>1, <3>2, <3>3 DEF Atomic!ChangeInvoice
    <3> QED
      BY <3>4 DEF Simulated
  <2>3. CASE ~InvoiceOf(b.invoice, b.user)
    <3>1. Reply(r, "invoice not found") /\ UNCHANGED storeVars
      BY <1>5, <2>3 DEF StatusUpdate, storeVars
    <3>2. "invoice not found" \in Atomic!Refusals(b)
      BY <2>1, <2>3 DEF Atomic!Refusals, Atomic!MyInvoice, InvoiceOf
    <3> QED
      BY <1>1, <3>1, <3>2, RefuseStep DEF Simulated, Reply
  <2> QED
    BY <2>2, <2>3
<1>6. CASE CreateInsert(r)
  <2>1. b.op = "create" /\ UNCHANGED <<balance, ledger, txrows, recipients>>
    BY <1>6 DEF CreateInsert, At
  <2>2. PICK answer \in {"ok", "internal"} : Reply(r, answer)
    BY <1>6, OutcomeAnswers DEF CreateInsert
  <2>3. b.amount \in Int
    BY <1>1, <2>1, BodyTypes DEF EffectInv, IInv, Vetted, Active, CreateBody
  <2>4. \E i \in {j \in Invoices : invoice[j].status = "absent"} :
            invoice' = [invoice EXCEPT ![i] =
                [owner |-> b.user, amount |-> Atomic!Numeric2(b.amount),
                 status |-> "draft"]]
    BY <1>6, <2>3, SameNumeric DEF CreateInsert
  <2>5. Atomic!ChangeInvoice(r)
    BY <1>2, <1>3, <2>1, <2>2, <2>4 DEF Atomic!ChangeInvoice
  <2> QED
    BY <2>5 DEF Simulated
<1>7. CASE CreateFails(r)
  BY <1>1, <1>7, RefuseStep DEF CreateFails, Reply, Simulated
<1>8. CASE RecipientDelete(r)
  <2>1. b.op = "delete"
    BY <1>8 DEF RecipientDelete, At
  <2>2. CASE b.recipient \in recipients /\ RecipientOwner[b.recipient] = b.user
    <3>1. PICK answer \in {"ok", "internal"} : Reply(r, answer)
      BY <1>8, <2>2, OutcomeAnswers DEF RecipientDelete
    <3>2. /\ recipients' = recipients \ {b.recipient}
          /\ UNCHANGED <<balance, ledger, txrows, invoice>>
      BY <1>8, <2>2 DEF RecipientDelete
    <3>3. Atomic!ForgetRecipient(r)
      BY <1>2, <1>3, <2>1, <2>2, <3>1, <3>2 DEF Atomic!ForgetRecipient, Atomic!MyRecipient
    <3> QED
      BY <3>3 DEF Simulated
  <2>3. CASE ~(b.recipient \in recipients /\ RecipientOwner[b.recipient] = b.user)
    <3>1. Reply(r, "recipient not found") /\ UNCHANGED storeVars
      BY <1>8, <2>3 DEF RecipientDelete, storeVars
    <3>2. "recipient not found" \in Atomic!Refusals(b)
      BY <2>1, <2>3 DEF Atomic!Refusals, Atomic!MyRecipient
    <3> QED
      BY <1>1, <3>1, <3>2, RefuseStep DEF Simulated, Reply
  <2> QED
    BY <2>2, <2>3
<1> QED
  BY <1>4, <1>5, <1>6, <1>7, <1>8

\* A dropped transaction is invisible when it is cleaned up, and a fault ends
\* its request with nothing done.
LEMMA EndingSimulated ==
    ASSUME EffectInv, NEW r \in Requests, Rollback(r) \/ DeadlockAbort(r) \/ Fault(r)
    PROVE  Simulated(r)
<1>1. Alone(r)
  BY RollbackEffects, FaultEffects
<1>2. CASE Rollback(r)
  <2>1. pc[r] = "rollback" /\ UNCHANGED <<req, resp, storeVars>> /\ pc'[r] = "done"
    BY <1>2 DEF Rollback, EffectInv, IInv, TypeOK
  <2> QED
    BY <1>1, <2>1, StutterStep DEF Simulated, SeenBy
<1>3. CASE DeadlockAbort(r) \/ Fault(r)
  <2>1. /\ Active(r) /\ resp' = [resp EXCEPT ![r] = "internal"]
        /\ UNCHANGED <<req, storeVars>>
    BY <1>3 DEF DeadlockAbort, Deadlocked, Blocked, Fault, AcquireTimeout, StatementError,
       Abandon, Abort, Return, Reply, InTransaction, Active
  <2> QED
    BY <1>1, <2>1, RefuseStep DEF Simulated
<1> QED
  BY <1>2, <1>3

LEMMA ReceiveSimulated ==
    ASSUME ExactInv, NEW r \in Requests, Receive(r)
    PROVE  Simulated(r)
<1>1. /\ pc[r] = "idle" /\ UNCHANGED storeVars
      /\ req[r] = None /\ resp[r] = "none" /\ resp \in [Requests -> Answers]
      /\ pc \in [Requests -> Labels] /\ req \in [Requests -> Bodies \cup {None}]
  <2>1. pc[r] = "idle" /\ UNCHANGED storeVars
    BY DEF Receive, TransferReceive, DepositReceive, InvoiceReceive, PayReceive,
           StatusReceive, CreateReceive, DeleteReceive
  <2> QED
    BY <2>1 DEF ExactInv, Exact, Permitted, EffectInv, Effects, Told, IInv, TypeOK
<1>2. PICK b \in Bodies :
        \/ TransferReceive(r, b) \/ DepositReceive(r, b)
        \/ InvoiceReceive(r, b) \/ DeleteReceive(r, b)
  BY DEF Receive
<1>3. req' = [req EXCEPT ![r] = b] /\ req'[r] = b
  BY <1>1, <1>2 DEF TransferReceive, DepositReceive, InvoiceReceive, PayReceive,
     StatusReceive, CreateReceive, DeleteReceive
<1>4. IF Atomic!WellFormed(b)
        THEN UNCHANGED resp
        ELSE \E why \in {"invalid", "account not found", "same account",
                         "missing iban"} : resp' = [resp EXCEPT ![r] = why]
  <2>1. b.op \in {"transfer", "deposit", "create"} =>
            (Atomic!ValidAmount(b.amount) <=> ValidAmount(b.amount))
    <3>1. b.op \in {"transfer", "deposit", "create"} => b.amount \in Int
      BY BodyTypes DEF TransferBody, DepositBody, CreateBody
    <3> QED
      BY <3>1, SameNumeric
  <2>2. [resp EXCEPT ![r] = "none"] = resp
    BY <1>1
  <2>3. CASE TransferReceive(r, b)
    <3>1. b.op = "transfer" /\ resp' = [resp EXCEPT ![r] = TransferRefusal(b)]
      BY <2>3 DEF TransferReceive
    <3>2. Atomic!WellFormed(b) <=> TransferRefusal(b) = "none"
      BY <2>1, <3>1 DEF TransferRefusal, Atomic!WellFormed
    <3>3. TransferRefusal(b) \in {"none", "invalid", "account not found", "same account"}
      BY DEF TransferRefusal
    <3> QED
      BY <2>2, <3>1, <3>2, <3>3
  <2>4. CASE DepositReceive(r, b)
    <3>1. b.op = "deposit" /\ resp' = [resp EXCEPT ![r] = DepositRefusal(b)]
      BY <2>4 DEF DepositReceive
    <3>2. Atomic!WellFormed(b) <=> DepositRefusal(b) = "none"
      BY <2>1, <3>1 DEF DepositRefusal, Atomic!WellFormed
    <3>3. DepositRefusal(b) \in {"none", "invalid", "missing iban"}
      BY DEF DepositRefusal
    <3> QED
      BY <2>2, <3>1, <3>2, <3>3
  <2>5. CASE StatusReceive(r, b)
    <3>1. Atomic!WellFormed(b) <=> b.status \in Statuses
      BY <2>5 DEF StatusReceive, Atomic!WellFormed, Atomic!Statuses, Statuses
    <3> QED
      BY <2>2, <2>5, <3>1 DEF StatusReceive
  <2>6. CASE CreateReceive(r, b)
    <3>1. Atomic!WellFormed(b) <=> ValidAmount(b.amount)
      BY <2>1, <2>6 DEF CreateReceive, Atomic!WellFormed
    <3> QED
      BY <2>2, <2>6, <3>1 DEF CreateReceive
  <2>7. CASE PayReceive(r, b) \/ DeleteReceive(r, b)
    BY <2>7 DEF PayReceive, DeleteReceive, Atomic!WellFormed
  <2> QED
    BY <1>2, <2>3, <2>4, <2>5, <2>6, <2>7 DEF InvoiceReceive
<1>5. ~SeenBy(r) /\ ~SeenBy(r)'
  BY <1>1, <1>2, <1>3 DEF SeenBy, TransferReceive, DepositReceive, InvoiceReceive,
     PayReceive, StatusReceive, CreateReceive, DeleteReceive
<1>6. UNCHANGED Seen
  <2>1. Alone(r)
    BY ReceiveEffects DEF ExactInv
  <2>2. \A s \in Requests : Seen[s]' = Seen[s]
    BY <1>5, <2>1 DEF Alone, Seen, SeenBy
  <2>3. Seen = [s \in Requests |-> Seen[s]] /\ Seen' = [s \in Requests |-> Seen[s]']
    BY DEF Seen
  <2> QED
    BY <2>2, <2>3
<1>7. Atomic!Receive(r)
  BY <1>1, <1>3, <1>4, <1>6 DEF Atomic!Receive, Atomic!store, storeVars
<1> QED
  BY <1>7 DEF Simulated

\* COMMIT publishes the postings that AtomicBank makes of the request.
PostingOf(r, a) == Atomic!Posting(a, Kind(r, a), Change(r, a), Entry(r, a))

LEMMA PostingFields ==
    ASSUME NEW r, NEW a
    PROVE  /\ PostingOf(r, a).account = a /\ PostingOf(r, a).kind = Kind(r, a)
           /\ PostingOf(r, a).change = Change(r, a) /\ PostingOf(r, a).entry = Entry(r, a)
  BY DEF PostingOf, Atomic!Posting

LEMMA CommitFacts ==
    ASSUME ExactInv, NEW r \in Requests, Commit(r)
    PROVE  LET b == req[r] IN
           /\ Moving(b) /\ Active(r) /\ pc[r] = "commit" /\ resp[r] = "none"
           /\ Permitted(r) /\ BooksExact(r)
           /\ b.op = "transfer" => /\ (b.toAccount = None <=> b.toRecipient # None)
                                   /\ b.from # b.toAccount
<1>1. pc[r] = "commit" /\ Active(r)
  BY DEF Commit, Active
<1>2. Permitted(r) /\ BooksExact(r) /\ resp[r] = "none"
  BY <1>1 DEF ExactInv, Exact, EffectInv, Effects, Told
<1>3. Moving(req[r])
  BY <1>1, <1>2 DEF Permitted
<1>4. ASSUME req[r].op = "transfer"
      PROVE  /\ (req[r].toAccount = None <=> req[r].toRecipient # None)
             /\ req[r].from # req[r].toAccount
  BY <1>1, <1>4, VettedTransfer DEF ExactInv, TransferRefusal
<1> QED
  BY <1>1, <1>2, <1>3, <1>4

LEMMA CommitPostings ==
    ASSUME ExactInv, NEW r \in Requests, Commit(r)
    PROVE  Atomic!Postings(req[r]) = {PostingOf(r, a) : a \in Posted(r)}
<1> DEFINE b == req[r]
<1>1. /\ Moving(b) /\ Active(r) /\ pc[r] = "commit"
      /\ b.op = "transfer" => b.from # b.toAccount
  BY CommitFacts
<1>2. /\ b.op \in {"transfer", "pay"} => b.from \in Accounts
      /\ b.op = "deposit" => b.to \in Accounts
      /\ b.op = "transfer" => b.toAccount \in Accounts \cup {None}
      /\ None \notin Accounts
  BY <1>1, AmountTyped, DatabaseAssumption
     DEF DatabaseAssumption, Row, ExactInv, EffectInv
<1>3. CASE b.op = "pay"
  <2>1. Posted(r) = {b.from}
    BY <1>1, <1>2, <1>3 DEF Posted, Credited, Debited
  <2>2. PostingOf(r, b.from) = Atomic!Posting(b.from, "transfer_out", -Due(b), 0)
    BY <1>1, <1>3 DEF PostingOf, Kind, Change, Entry, Debited, Amount
  <2>3. Atomic!Postings(b) = {Atomic!Posting(b.from, "transfer_out", -Due(b), 0)}
    BY <1>3 DEF Atomic!Postings, Atomic!Price, Due
  <2> QED
    BY <2>1, <2>2, <2>3
<1>4. CASE b.op = "deposit"
  <2>1. Posted(r) = {b.to}
    BY <1>1, <1>2, <1>4 DEF Posted, Credited, Debited
  <2>2. PostingOf(r, b.to) = Atomic!Posting(b.to, "credit", b.amount, b.amount)
    BY <1>1, <1>4 DEF PostingOf, Kind, Change, Entry, Debited
  <2>3. Atomic!Postings(b) = {Atomic!Posting(b.to, "credit", b.amount, b.amount)}
    BY <1>4 DEF Atomic!Postings
  <2> QED
    BY <2>1, <2>2, <2>3
<1>5. CASE b.op = "transfer"
  <2>1. Posted(r) = {b.from} \cup ({b.toAccount} \ {None})
    BY <1>1, <1>2, <1>5 DEF Posted, Credited, Debited
  <2>2. PostingOf(r, b.from) = Atomic!Posting(b.from, "transfer_out", -b.amount, -b.amount)
    BY <1>1, <1>5 DEF PostingOf, Kind, Change, Entry, Debited, Amount
  <2>3. \A a \in {b.toAccount} \ {None} :
            PostingOf(r, a) = Atomic!Posting(a, "transfer_in", b.amount, b.amount)
    BY <1>1, <1>5 DEF PostingOf, Kind, Change, Entry, Debited
  <2>4. Atomic!Postings(b) =
            {Atomic!Posting(b.from, "transfer_out", -b.amount, -b.amount)} \cup
            {Atomic!Posting(a, "transfer_in", b.amount, b.amount) :
                a \in {b.toAccount} \ {None}}
    BY <1>5 DEF Atomic!Postings
  <2> QED
    BY <2>1, <2>2, <2>3, <2>4
<1> QED
  BY <1>1, <1>3, <1>4, <1>5 DEF Moving

LEMMA CommitTouches ==
    ASSUME ExactInv, NEW r \in Requests, Commit(r)
    PROVE  /\ Atomic!Touched(req[r]) = Posted(r)
           /\ \A a \in Posted(r) : Atomic!PostingOn(req[r], a) = PostingOf(r, a)
<1> DEFINE b == req[r]
<1>1. Atomic!Postings(b) = {PostingOf(r, a) : a \in Posted(r)}
  BY CommitPostings
<1>2. \A a : PostingOf(r, a).account = a
  BY PostingFields
<1>3. Atomic!Touched(b) = Posted(r)
  BY <1>1, <1>2 DEF Atomic!Touched
<1>4. ASSUME NEW a \in Posted(r)
      PROVE  Atomic!PostingOn(b, a) = PostingOf(r, a)
  <2>1. \A p \in Atomic!Postings(b) : p.account = a <=> p = PostingOf(r, a)
    BY <1>1, <1>2
  <2>2. PostingOf(r, a) \in Atomic!Postings(b)
    BY <1>1
  <2> QED
    BY <2>1, <2>2 DEF Atomic!PostingOn
<1> QED
  BY <1>3, <1>4

LEMMA CommitSimulated ==
    ASSUME ExactInv, NEW r \in Requests, Commit(r)
    PROVE  Simulated(r)
<1> DEFINE b == req[r]
<1>1. /\ Moving(b) /\ Active(r) /\ pc[r] = "commit" /\ resp[r] = "none"
      /\ Permitted(r) /\ BooksExact(r)
      /\ b.op = "transfer" => (b.toAccount = None <=> b.toRecipient # None)
  BY CommitFacts
<1>2. EffectInv /\ IInv /\ Alone(r)
  BY CommitEffects DEF ExactInv, EffectInv
<1>3. Atomic!Pending(r)
  BY <1>1, <1>2, ActivePending
<1>4. /\ Atomic!Postings(b) = {PostingOf(r, a) : a \in Posted(r)}
      /\ Atomic!Touched(b) = Posted(r)
      /\ \A a \in Posted(r) : Atomic!PostingOn(b, a) = PostingOf(r, a)
  BY CommitPostings, CommitTouches
<1>5. /\ Posted(r) \subseteq Accounts /\ Amount(b) \in Int
      /\ \A a \in Posted(r) : Change(r, a) \in Int /\ Entry(r, a) \in Int
  <2>1. /\ Amount(b) \in Int
        /\ b.op \in {"transfer", "deposit"} => b.amount \in Int
    BY <1>1, <1>2, AmountTyped
  <2>2. \A a \in Posted(r) : ~Debited(r, a) => b.op \in {"transfer", "deposit"}
    BY DEF Posted, Credited
  <2> QED
    BY <2>1, <2>2 DEF Posted, Change, Entry
<1>6. \A p \in Atomic!Postings(b) : Atomic!Mine(b, p.account)
  <2>1. \A a \in Posted(r) : a \in Open /\ Owner[a] = b.user
    BY <1>1, DatabaseAssumption
       DEF Permitted, Own, Posted, Credited, Debited, DatabaseAssumption, Row
  <2> QED
    BY <1>4, <2>1, PostingFields DEF Atomic!Mine
<1>7. b.op # "deposit" => balance[b.from] >= Atomic!Price(b)
  BY <1>1 DEF Permitted, Moving, Amount, Due, Atomic!Price
<1>8. b.op = "pay" \/ Atomic!ToRecipient(b) => Seen[r]
  BY <1>1 DEF Atomic!ToRecipient, Seen
<1>9. balance' = [a \in Accounts |->
          IF a \in Atomic!Touched(b)
            THEN Atomic!Numeric2(balance[a] + Atomic!PostingOn(b, a).change)
            ELSE balance[a]]
  <2>1. ASSUME NEW a \in Posted(r)
        PROVE  balance[a] + work[r].balance[a]
                   = Atomic!Numeric2(balance[a] + Atomic!PostingOn(b, a).change)
    <3>1. balance[a] \in Int /\ Change(r, a) \in Int
      BY <1>2, <1>5, BalanceTyped
    <3>2. Atomic!PostingOn(b, a).change = Change(r, a)
      BY <1>4, PostingFields
    <3>3. work[r].balance[a] = Numeric2(balance[a] + Change(r, a)) - balance[a]
      BY <1>1 DEF BooksExact
    <3>4. Numeric2(balance[a] + Change(r, a)) \in Int
      BY <3>1, RoundingGivesCents
    <3>5. Atomic!Numeric2(balance[a] + Change(r, a)) = Numeric2(balance[a] + Change(r, a))
      BY <3>1, SameNumeric
    <3> QED
      BY <3>1, <3>2, <3>3, <3>4, <3>5
  <2>2. ASSUME NEW a \in Accounts \ Posted(r)
        PROVE  balance[a] + work[r].balance[a] = balance[a]
    BY <1>1, <1>2, BalanceTyped DEF BooksExact
  <2>3. balance' = [a \in Accounts |-> balance[a] + work[r].balance[a]]
    BY DEF Commit
  <2> QED
    BY <1>4, <2>1, <2>2, <2>3
<1>10. ledger' = [a \in Accounts |->
          IF a \in Atomic!Touched(b)
            THEN ledger[a] + Atomic!Numeric4(Atomic!PostingOn(b, a).entry)
            ELSE ledger[a]]
  <2>1. ASSUME NEW a \in Posted(r)
        PROVE  work[r].ledger[a] = Atomic!Numeric4(Atomic!PostingOn(b, a).entry)
    <3>1. Atomic!PostingOn(b, a).entry = Entry(r, a)
      BY <1>4, PostingFields
    <3>2. work[r].ledger[a] = Numeric4(Entry(r, a))
      BY <1>1 DEF BooksExact
    <3> QED
      BY <1>5, <3>1, <3>2, SameNumeric
  <2>2. ASSUME NEW a \in Accounts \ Posted(r)
        PROVE  ledger[a] + work[r].ledger[a] = ledger[a]
    BY <1>1, <1>2 DEF BooksExact, IInv, TypeOK
  <2>3. ledger' = [a \in Accounts |-> ledger[a] + work[r].ledger[a]]
    BY DEF Commit
  <2> QED
    BY <1>4, <2>1, <2>2, <2>3
<1>11. txrows' = txrows \cup {[by |-> r, account |-> p.account, kind |-> p.kind,
                              amount |-> Atomic!Numeric2(p.change)] :
                                  p \in Atomic!Postings(b)}
  <2>1. ASSUME NEW a \in Posted(r)
        PROVE  TxRow(r, a, Kind(r, a), Change(r, a))
                 = [by |-> r, account |-> PostingOf(r, a).account,
                    kind |-> PostingOf(r, a).kind,
                    amount |-> Atomic!Numeric2(PostingOf(r, a).change)]
    BY <1>5, SameNumeric, PostingFields DEF TxRow
  <2>2. work[r].rows = {TxRow(r, a, Kind(r, a), Change(r, a)) : a \in Posted(r)}
    BY <1>1 DEF BooksExact
  <2>3. txrows' = txrows \cup work[r].rows
    BY DEF Commit
  <2> QED
    BY <1>4, <2>1, <2>2, <2>3
<1>12. invoice' = IF b.op = "pay" THEN [invoice EXCEPT ![b.invoice].status = "paid"]
                                  ELSE invoice
  <2>1. /\ invoice' = [i \in Invoices |-> IF i \in work[r].paid
                                            THEN [invoice[i] EXCEPT !.status = "paid"]
                                            ELSE invoice[i]]
        /\ invoice \in [Invoices -> InvoiceRow]
        /\ work[r].paid = IF b.op = "pay" THEN {b.invoice} ELSE {}
    BY <1>1, <1>2 DEF Commit, BooksExact, IInv, TypeOK
  <2>2. CASE b.op = "pay"
    <3>1. b.invoice \in Invoices
      BY <1>1, <1>2, <2>2, AmountTyped
    <3> QED
      BY <2>1, <2>2, <3>1
  <2>3. CASE b.op # "pay"
    BY <2>1, <2>3
  <2> QED
    BY <2>2, <2>3
<1>13. \E answer \in {"ok", "internal"} : Atomic!Tell(r, answer)
  <2>1. PICK answer \in {"ok", "internal"} : Reply(r, answer)
    BY OutcomeAnswers DEF Commit
  <2> QED
    BY <1>2, <2>1, TellStep DEF Reply
<1>14. UNCHANGED recipients
  BY DEF Commit
<1>15. Atomic!Move(r)
  BY <1>1, <1>3, <1>6, <1>7, <1>8, <1>9, <1>10, <1>11, <1>12, <1>13, <1>14
     DEF Atomic!Move, Moving
<1> QED
  BY <1>15 DEF Simulated

-----------------------------------------------------------------------------
(* The refinement *)

LEMMA InitRefines == Init => Atomic!Init
  BY DEF Init, Atomic!Init, Seen

LEMMA NextRefines == ExactInv /\ [Next]_vars => [Atomic!Next]_(Atomic!avars)
<1> SUFFICES ASSUME ExactInv, [Next]_vars
             PROVE  [Atomic!Next]_(Atomic!avars)
  OBVIOUS
<1>1. CASE UNCHANGED vars
  BY <1>1 DEF vars, Seen, Atomic!avars
<1>2. ASSUME NEW r \in Requests,
             Receive(r) \/ Step(r) \/ DeadlockAbort(r) \/ Fault(r)
      PROVE  [Atomic!Next]_(Atomic!avars)
  <2>1. Simulated(r)
    BY <1>2, ReceiveSimulated, TransferSimulated, DepositSimulated, PaySimulated,
       OtherSimulated, CommitSimulated, EndingSimulated DEF ExactInv, Step, InvoiceStep
  <2> QED
    BY <2>1 DEF Simulated, Atomic!Next
<1> QED
  BY <1>1, <1>2 DEF Next

\* Whatever statements interleave, whatever deadlocks, fails or is abandoned,
\* clients see every request take effect in one step or not at all.
THEOREM HandlersAreAtomic == Spec => ImplementsAtomicBank
  BY InitRefines, NextRefines, ExactnessInvariant, PTL
     DEF Spec, ImplementsAtomicBank, Atomic!Spec
=============================================================================
