--------------------------- MODULE BankLedgerProofs ---------------------------
(***************************************************************************)
(* The books add up, for every set of requests, bodies and faults and      *)
(* however many rows there are: the statement of an account, the drift of  *)
(* its cached balance and the total of the ledger, as sums over all rows.  *)
(***************************************************************************)
EXTENDS BankProofs, SumProofs

-----------------------------------------------------------------------------
(* The ledger *)

LEMMA CentsAreExactInLedger ==
    ASSUME NEW x \in Int, WholeCents(x)
    PROVE  /\ Numeric4(x) = x /\ Numeric4(-x) = -x
           /\ WholeCents(-x)
  BY DEF Numeric4, HalfAwayFromZero, WholeCents, Tick, Cent

\* A committed row belongs to a request that is over.
LEMMA RowsAreDone ==
    ASSUME EffectInv, NEW t \in txrows
    PROVE  t.by \in Requests /\ pc[t.by] = "done"
<1>1. t.by \in Requests
  BY DEF EffectInv, IInv, TypeOK, TxRows
<1>2. t \in RowsBy(t.by)
  BY DEF RowsBy
<1> QED
  BY <1>1, <1>2 DEF EffectInv, Effects, Told

-----------------------------------------------------------------------------
(* What a step does to the books *)

LEMMA OnlyCommitMoves ==
    ASSUME NEW r \in Requests, Receive(r) \/ Step(r) \/ DeadlockAbort(r) \/ Fault(r),
           ~Commit(r)
    PROVE  UNCHANGED <<balance, ledger, txrows>>
  BY DEF Step, TransferStep, TransferBegin, TransferSource,
     TransferRecipient, TransferTarget, TransferCredit, TransferDebit, DepositStep,
     DepositBegin, DepositTarget, DepositCredit, InvoiceStep, PayLoad, PayBegin,
     PaySource, PayDebit, PayMark, StatusBegin, StatusUpdate, CreateInsert,
     CreateFails, RecipientDelete, Rollback, DeadlockAbort, Fault, AcquireTimeout,
     StatementError, Abandon, Abort, LockAccount, Post, PostOverflow, Acquire,
     Receive, TransferReceive, DepositReceive, InvoiceReceive, PayReceive,
     StatusReceive, CreateReceive, DeleteReceive, storeVars

\* A request that is over stays what it was.
LEMMA AnsweredStays ==
    ASSUME NEW r \in Requests, Receive(r) \/ Step(r) \/ DeadlockAbort(r) \/ Fault(r),
           pc[r] = "done"
    PROVE  req'[r] = req[r]
<1>1. CASE Receive(r)
  BY <1>1 DEF Receive
<1>2. CASE Step(r) \/ DeadlockAbort(r) \/ Fault(r)
  BY <1>2 DEF Step, TransferStep, TransferBegin, TransferSource, TransferRecipient,
     TransferTarget, TransferCredit, TransferDebit, DepositStep, DepositBegin,
     DepositTarget, DepositCredit, InvoiceStep, PayLoad, PayBegin, PaySource,
     PayDebit, PayMark, StatusBegin, StatusUpdate, CreateInsert, CreateFails,
     RecipientDelete, Commit, Rollback, DeadlockAbort, Deadlocked, Blocked, Fault,
     AcquireTimeout, StatementError, Abandon, At, Acquire, InTransaction
<1> QED
  BY <1>1, <1>2

\* So what a committed row says of its request stays true.
LEMMA RowsKeepRequests ==
    ASSUME EffectInv, [Next]_vars, NEW t \in txrows
    PROVE  req'[t.by] = req[t.by]
<1>1. t.by \in Requests /\ pc[t.by] = "done"
  BY RowsAreDone
<1>2. CASE UNCHANGED vars
  BY <1>2 DEF vars
<1>3. ASSUME NEW r \in Requests,
             Receive(r) \/ Step(r) \/ DeadlockAbort(r) \/ Fault(r)
      PROVE  req'[t.by] = req[t.by]
  <2>1. Alone(r)
    BY <1>3, NextAlone
  <2>2. CASE t.by = r
    BY <1>1, <1>3, <2>2, AnsweredStays
  <2>3. CASE t.by # r
    BY <1>1, <2>1, <2>3 DEF Alone
  <2> QED
    BY <2>2, <2>3
<1> QED
  BY <1>2, <1>3 DEF Next

\* The row that COMMIT publishes on an account.
Published(r, a) == TxRow(r, a, Kind(r, a), Change(r, a))

LEMMA PublishedFields ==
    ASSUME NEW r, NEW a
    PROVE  /\ Published(r, a).by = r /\ Published(r, a).account = a
           /\ Published(r, a).kind = Kind(r, a)
           /\ Published(r, a).amount = Numeric2(Change(r, a))
  BY DEF Published, TxRow

\* The accounts that a request posts to, at COMMIT: one, or the two of a
\* transfer between own accounts.
LEMMA PostedAccounts ==
    ASSUME ExactInv, NEW r \in Requests, Commit(r)
    PROVE  LET b == req[r] IN
           /\ Posted(r) \subseteq Accounts
           /\ Moving(b)
           /\ b.op = "deposit" => Posted(r) = {b.to}
           /\ b.op = "pay" => Posted(r) = {b.from}
           /\ b.op = "transfer" /\ b.toAccount = None => Posted(r) = {b.from}
           /\ b.op = "transfer" /\ b.toAccount # None =>
                /\ Posted(r) = {b.from, b.toAccount}
                /\ b.from # b.toAccount
<1> DEFINE b == req[r]
<1>1. /\ Moving(b) /\ Active(r) /\ pc[r] = "commit"
      /\ b.op = "transfer" => b.from # b.toAccount
  BY CommitFacts
<1>2. /\ b.op \in {"transfer", "pay"} => b.from \in Accounts
      /\ b.op = "deposit" => b.to \in Accounts
      /\ b.op = "transfer" => b.toAccount \in Accounts \cup {None}
      /\ None \notin Accounts
  BY <1>1, AmountTyped, DatabaseAssumption
     DEF DatabaseAssumption, Row, ExactInv, EffectInv
<1>3. Posted(r) \subseteq Accounts
  BY DEF Posted
<1>4. b.op = "deposit" => Posted(r) = {b.to}
  BY <1>1, <1>2 DEF Posted, Credited, Debited
<1>5. b.op = "pay" => Posted(r) = {b.from}
  BY <1>1, <1>2 DEF Posted, Credited, Debited
<1>6. b.op = "transfer" /\ b.toAccount = None => Posted(r) = {b.from}
  BY <1>1, <1>2 DEF Posted, Credited, Debited
<1>7. b.op = "transfer" /\ b.toAccount # None => Posted(r) = {b.from, b.toAccount}
  BY <1>1, <1>2 DEF Posted, Credited, Debited
<1> QED
  BY <1>1, <1>3, <1>4, <1>5, <1>6, <1>7

LEMMA CommitRows ==
    ASSUME ExactInv, NEW r \in Requests, Commit(r)
    PROVE  /\ txrows' = txrows \cup {Published(r, a) : a \in Posted(r)}
           /\ \A a \in Posted(r) : Published(r, a) \notin txrows
<1>1. BooksExact(r) /\ pc[r] = "commit"
  BY CommitFacts
<1>2. txrows' = txrows \cup {Published(r, a) : a \in Posted(r)}
  BY <1>1 DEF Commit, BooksExact, Published
<1>3. RowsBy(r) = {}
  BY <1>1 DEF ExactInv, EffectInv, Effects, Told
<1> QED
  BY <1>2, <1>3, PublishedFields DEF RowsBy

LEMMA CommitRowsOn ==
    ASSUME ExactInv, NEW r \in Requests, Commit(r), NEW a \in Accounts
    PROVE  /\ a \in Posted(r) => /\ RowsOn(a)' = RowsOn(a) \cup {Published(r, a)}
                                 /\ Published(r, a) \notin RowsOn(a)
           /\ a \notin Posted(r) => RowsOn(a)' = RowsOn(a)
<1>1. /\ txrows' = txrows \cup {Published(r, c) : c \in Posted(r)}
      /\ \A c \in Posted(r) : Published(r, c) \notin txrows
  BY CommitRows
<1>2. \A c \in Posted(r) : Published(r, c).account = c
  BY PublishedFields
<1> QED
  BY <1>1, <1>2 DEF RowsOn

\* Every row of invoices has an amount in whole cents, and transactions has
\* finitely many rows.
CentInvoices == \A i \in Invoices : WholeCents(invoice[i].amount)
BooksInv == ExactInv /\ CentInvoices /\ IsFiniteSet(txrows)

\* What COMMIT does to the balance and the ledger of one account.
LEMMA CommitMoves ==
    ASSUME BooksInv, NEW r \in Requests, Commit(r), NEW a \in Accounts
    PROVE  /\ balance[a] \in Int /\ WholeCents(balance[a]) /\ ledger[a] \in Int
           /\ a \in Posted(r) =>
                /\ Change(r, a) \in Int
                /\ balance'[a] = Numeric2(balance[a] + Change(r, a))
                /\ ledger'[a] = ledger[a] + Numeric4(Entry(r, a))
                /\ req[r].op = "pay" => WholeCents(Change(r, a)) /\ Entry(r, a) = 0
                /\ req[r].op # "pay" => /\ Entry(r, a) = Change(r, a)
                                        /\ Change(r, a) \in {req[r].amount, -req[r].amount}
           /\ a \notin Posted(r) => balance'[a] = balance[a] /\ ledger'[a] = ledger[a]
<1> DEFINE b == req[r]
<1>1. IInv /\ Moving(b) /\ Active(r) /\ pc[r] = "commit" /\ BooksExact(r)
  BY CommitFacts DEF BooksInv, ExactInv, EffectInv
<1>2. balance[a] \in Int /\ WholeCents(balance[a]) /\ ledger[a] \in Int
  BY <1>1, BalanceTyped DEF IInv, TypeOK
<1>3. /\ balance'[a] = balance[a] + work[r].balance[a]
      /\ ledger'[a] = ledger[a] + work[r].ledger[a]
  BY DEF Commit
<1>4. CASE a \notin Posted(r)
  BY <1>1, <1>2, <1>3, <1>4 DEF BooksExact
<1>5. CASE a \in Posted(r)
  <2>1. /\ Amount(b) \in Int
        /\ b.op = "pay" => b.invoice \in Invoices /\ Due(b) \in Int
        /\ b.op # "pay" => b.amount \in Int
    BY <1>1, AmountTyped DEF Moving
  <2>2. /\ Change(r, a) \in Int
        /\ b.op # "pay" => /\ Entry(r, a) = Change(r, a)
                           /\ Change(r, a) \in {b.amount, -b.amount}
    <3>1. CASE b.op = "pay"
      <4>1. Change(r, a) = -Amount(b)
        BY <1>1, <1>5, <3>1 DEF Posted, Credited, Change
      <4> QED
        BY <2>1, <3>1, <4>1
    <3>2. CASE b.op # "pay"
      BY <2>1, <3>2 DEF Change, Entry, Amount
    <3> QED
      BY <3>1, <3>2
  <2>3. ASSUME b.op = "pay"
        PROVE  WholeCents(Change(r, a)) /\ Entry(r, a) = 0
    <3>1. WholeCents(Due(b))
      BY <2>1, <2>3 DEF BooksInv, CentInvoices, Due
    <3>2. Change(r, a) = -Due(b)
      BY <1>1, <1>5, <2>3 DEF Posted, Credited, Change, Amount
    <3>3. WholeCents(-Due(b))
      BY <2>1, <2>3, <3>1, CentsAreExactInLedger
    <3> QED
      BY <2>3, <3>2, <3>3 DEF Entry
  <2>4. /\ work[r].balance[a] = Numeric2(balance[a] + Change(r, a)) - balance[a]
        /\ work[r].ledger[a] = Numeric4(Entry(r, a))
    BY <1>1, <1>5 DEF BooksExact
  <2>5. Numeric2(balance[a] + Change(r, a)) \in Int
    BY <1>2, <2>2, RoundingGivesCents
  <2> QED
    BY <1>2, <1>3, <1>5, <2>2, <2>3, <2>4, <2>5
<1> QED
  BY <1>2, <1>4, <1>5

LEMMA CommitFinite ==
    ASSUME BooksInv, NEW r \in Requests, Commit(r)
    PROVE  IsFiniteSet(txrows')
<1> DEFINE b == req[r]
<1>1. /\ txrows' = txrows \cup {Published(r, a) : a \in Posted(r)}
      /\ IsFiniteSet(txrows)
  BY CommitRows DEF BooksInv
<1>2. PICK x, y : Posted(r) = {x, y}
  <2>1. Posted(r) = {b.to, b.to} \/ Posted(r) = {b.from, b.from}
            \/ Posted(r) = {b.from, b.toAccount}
    BY PostedAccounts DEF BooksInv, Moving
  <2> QED
    BY <2>1
<1>3. txrows' = (txrows \cup {Published(r, x)}) \cup {Published(r, y)}
  BY <1>1, <1>2
<1>4. IsFiniteSet(txrows \cup {Published(r, x)})
  BY <1>1, FS_AddElement
<1>5. IsFiniteSet((txrows \cup {Published(r, x)}) \cup {Published(r, y)})
  BY <1>4, FS_AddElement
<1> QED
  BY <1>3, <1>5

\* New invoices are rounded by their column; nothing changes an amount.
LEMMA InvoicesStayInCents ==
    ASSUME BooksInv, NEW r \in Requests,
           Receive(r) \/ Step(r) \/ DeadlockAbort(r) \/ Fault(r)
    PROVE  CentInvoices'
<1>1. /\ \A i \in Invoices : WholeCents(invoice[i].amount)
      /\ invoice \in [Invoices -> InvoiceRow]
  BY DEF BooksInv, CentInvoices, ExactInv, EffectInv, IInv, TypeOK
<1>2. CASE UNCHANGED invoice
  BY <1>1, <1>2 DEF CentInvoices
<1>3. CASE Commit(r)
  <2>1. \A i \in Invoices : invoice'[i].amount = invoice[i].amount
    BY <1>1, <1>3 DEF Commit, InvoiceRow
  <2> QED
    BY <1>1, <2>1 DEF CentInvoices
<1>4. CASE StatusUpdate(r)
  <2>1. \/ UNCHANGED invoice
        \/ invoice' = [invoice EXCEPT ![req[r].invoice].status = req[r].status]
    BY <1>4 DEF StatusUpdate
  <2>2. \A i, s : invoice' = [invoice EXCEPT ![i].status = s]
                  => \A j \in Invoices : invoice'[j].amount = invoice[j].amount
    BY <1>1 DEF InvoiceRow
  <2>3. \A i \in Invoices : invoice'[i].amount = invoice[i].amount
    BY <2>1, <2>2
  <2> QED
    BY <1>1, <2>3 DEF CentInvoices
<1>5. CASE CreateInsert(r)
  <2>1. req[r].amount \in Int
    <3>1. req[r] \in Bodies /\ req[r].op = "create"
      BY <1>5 DEF CreateInsert, At, BooksInv, ExactInv, EffectInv, IInv, Vetted
    <3> QED
      BY <3>1, BodyTypes DEF CreateBody
  <2>2. WholeCents(Numeric2(req[r].amount))
    BY <2>1, RoundingGivesCents
  <2>3. PICK i \in Invoices :
            invoice' = [invoice EXCEPT ![i] = [owner |-> req[r].user,
                                               amount |-> Numeric2(req[r].amount),
                                               status |-> "draft"]]
    BY <1>5 DEF CreateInsert
  <2>4. \A j \in Invoices : invoice'[j].amount \in {invoice[j].amount, Numeric2(req[r].amount)}
    BY <1>1, <2>3
  <2> QED
    BY <1>1, <2>2, <2>4 DEF CentInvoices
<1> QED
  <2>1. UNCHANGED invoice \/ Commit(r) \/ StatusUpdate(r) \/ CreateInsert(r)
    BY DEF Step, TransferStep, TransferBegin, TransferSource,
       TransferRecipient, TransferTarget, TransferCredit, TransferDebit, DepositStep,
       DepositBegin, DepositTarget, DepositCredit, InvoiceStep, PayLoad, PayBegin,
       PaySource, PayDebit, PayMark, StatusBegin,
       CreateFails, RecipientDelete, Rollback, DeadlockAbort, Fault, AcquireTimeout,
       StatementError, Abandon, Abort, LockAccount, Post, PostOverflow, Acquire,
       Receive, TransferReceive, DepositReceive, InvoiceReceive, PayReceive,
       StatusReceive, CreateReceive, DeleteReceive, storeVars
  <2> QED
    BY <1>2, <1>3, <1>4, <1>5, <2>1

LEMMA NextBooks == BooksInv /\ [Next]_vars => BooksInv'
<1> SUFFICES ASSUME BooksInv, [Next]_vars
             PROVE  BooksInv'
  OBVIOUS
<1>1. ExactInv'
  BY NextExact DEF BooksInv
<1>2. CASE UNCHANGED vars
  BY <1>1, <1>2 DEF vars, BooksInv, CentInvoices
<1>3. ASSUME NEW r \in Requests,
             Receive(r) \/ Step(r) \/ DeadlockAbort(r) \/ Fault(r)
      PROVE  BooksInv'
  <2>1. CentInvoices'
    BY <1>3, InvoicesStayInCents
  <2>2. IsFiniteSet(txrows')
    <3>1. CASE Commit(r)
      BY <3>1, CommitFinite
    <3>2. CASE ~Commit(r)
      <4>1. txrows' = txrows
        BY <1>3, <3>2, OnlyCommitMoves
      <4> QED
        BY <4>1 DEF BooksInv
    <3> QED
      BY <3>1, <3>2
  <2> QED
    BY <1>1, <2>1, <2>2 DEF BooksInv
<1> QED
  BY <1>2, <1>3 DEF Next

LEMMA InitBooks == Init => BooksInv
<1> SUFFICES ASSUME Init
             PROVE  BooksInv
  OBVIOUS
<1>1. CentInvoices
  BY DatabaseAssumption DEF DatabaseAssumption, Init, CentInvoices
<1>2. IsFiniteSet(txrows)
  BY FS_EmptySet DEF Init
<1> QED
  BY <1>1, <1>2, InitExact DEF BooksInv

-----------------------------------------------------------------------------
(* The statement of an account *)

WholeRows(a) == \A t \in RowsOn(a) : WholeCentRequest(t.by)
StatementInv == BooksInv /\ StatementAddsUp

\* What was said of the rows of an account was true of fewer rows before.
LEMMA WholeBefore ==
    ASSUME EffectInv, [Next]_vars, txrows \subseteq txrows', NEW a \in Accounts,
           WholeRows(a)'
    PROVE  WholeRows(a)
<1> SUFFICES ASSUME NEW t \in RowsOn(a)
             PROVE  WholeCentRequest(t.by)
  BY DEF WholeRows
<1>1. t \in RowsOn(a)'
  BY DEF RowsOn
<1>2. req'[t.by] = req[t.by]
  BY RowsKeepRequests DEF RowsOn
<1> QED
  BY <1>1, <1>2 DEF WholeRows, WholeCentRequest

\* A row more on a finite statement adds its amount.
LEMMA RowAdds ==
    ASSUME NEW R, IsFiniteSet(R), NEW t, t \notin R,
           \A u \in R \cup {t} : u.amount \in Int
    PROVE  /\ SumAmounts(R) \in Int
           /\ SumAmounts(R \cup {t}) = SumAmounts(R) + t.amount
<1> DEFINE f == [u \in R |-> u.amount]
           g == [u \in R \cup {t} |-> u.amount]
<1>1. SumFunctionOnSet(g, R \cup {t}) = SumFunctionOnSet(g, R) + g[t]
  <2>1. \A u \in R \cup {t} : g[u] \in Int
    OBVIOUS
  <2> HIDE DEF g
  <2> QED
    BY <2>1, SumAdd
<1>2. SumFunctionOnSet(g, R) = SumFunctionOnSet(f, R)
  <2>1. \A u \in R : g[u] = f[u]
    OBVIOUS
  <2> HIDE DEF f, g
  <2> QED
    BY <2>1, SumCongruent
<1>3. SumFunctionOnSet(f, R) \in Int
  <2>1. \A u \in R : f[u] \in Int
    OBVIOUS
  <2> HIDE DEF f
  <2> QED
    BY <2>1, SumType
<1>4. g[t] = t.amount
  OBVIOUS
<1>5. SumAmounts(R) = SumFunctionOnSet(f, R)
      /\ SumAmounts(R \cup {t}) = SumFunctionOnSet(g, R \cup {t})
  BY DEF SumAmounts
<1> HIDE DEF f, g
<1> QED
  BY <1>1, <1>2, <1>3, <1>4, <1>5

LEMMA RowsFinite ==
    ASSUME BooksInv, NEW a
    PROVE  /\ IsFiniteSet(RowsOn(a))
           /\ \A t \in RowsOn(a) : t.amount \in Int
<1>1. IsFiniteSet(txrows) /\ RowsOn(a) \in SUBSET txrows
  BY DEF BooksInv, RowsOn
<1>2. \A t \in txrows : t.amount \in Int
  BY DEF BooksInv, ExactInv, EffectInv, IInv, TypeOK, TxRows
<1> QED
  BY <1>1, <1>2, FS_Subset


LEMMA CommitAddsUp ==
    ASSUME BooksInv, NEW r \in Requests, Commit(r), NEW a \in Accounts,
           WholeRows(a)', balance[a] = InitialBalance[a] + SumAmounts(RowsOn(a))
    PROVE  balance'[a] = InitialBalance[a] + SumAmounts(RowsOn(a)')
<1> DEFINE t == Published(r, a)
           c == Change(r, a)
<1>1. ExactInv /\ EffectInv
  BY DEF BooksInv, ExactInv
<1>2. CASE a \notin Posted(r)
  BY <1>1, <1>2, CommitMoves, CommitRowsOn
<1>3. CASE a \in Posted(r)
  <2>1. RowsOn(a)' = RowsOn(a) \cup {t} /\ t \notin RowsOn(a)
    BY <1>1, <1>3, CommitRowsOn
  <2>2. /\ SumAmounts(RowsOn(a)) \in Int
        /\ SumAmounts(RowsOn(a) \cup {t}) = SumAmounts(RowsOn(a)) + t.amount
    <3>1. IsFiniteSet(RowsOn(a)) /\ \A u \in RowsOn(a) : u.amount \in Int
      BY RowsFinite
    <3>2. t.amount \in Int
      BY <1>3, CommitMoves, PublishedFields, RoundingGivesCents
    <3>3. \A u \in RowsOn(a) \cup {t} : u.amount \in Int
      BY <3>1, <3>2
    <3> HIDE DEF t
    <3> QED
      BY <2>1, <3>1, <3>3, RowAdds
  <2>3. /\ c \in Int
        /\ balance[a] \in Int /\ WholeCents(balance[a])
        /\ balance'[a] = Numeric2(balance[a] + c)
        /\ req[r].op = "pay" => WholeCents(c)
        /\ req[r].op # "pay" => c \in {req[r].amount, -req[r].amount}
    BY <1>3, CommitMoves
  <2>4. WholeCents(c)
    <3>1. WholeCentRequest(r)'
      BY <2>1, PublishedFields DEF WholeRows
    <3>2. req' = req
      BY DEF Commit, Reply
    <3>3. CASE req[r].op = "pay"
      BY <2>3, <3>3
    <3>4. CASE req[r].op # "pay"
      <4>1. WholeCents(req[r].amount)
        BY <3>1, <3>2, <3>4 DEF WholeCentRequest
      <4>2. req[r].amount \in Int
        <5>1. IInv /\ Moving(req[r]) /\ Active(r) /\ pc[r] = "commit"
          BY <1>1, CommitFacts DEF EffectInv
        <5> QED
          BY <3>4, <5>1, AmountTyped DEF Moving
      <4> QED
        BY <2>3, <3>4, <4>1, <4>2, CentsAreExactInLedger
    <3> QED
      BY <3>3, <3>4
  <2>5. balance'[a] = balance[a] + c /\ t.amount = c
    <3>1. WholeCents(balance[a] + c) /\ balance[a] + c \in Int
      <4> HIDE DEF c
      <4>1. \A x, y \in Int : WholeCents(x) /\ WholeCents(y) => WholeCents(x + y)
        BY CentsAdd
      <4>2. balance[a] + c \in Int
        BY <2>3
      <4> QED
        BY <2>3, <2>4, <4>1, <4>2, Zenon
    <3>2. Numeric2(balance[a] + c) = balance[a] + c /\ Numeric2(c) = c
      BY <2>3, <2>4, <3>1, CentsAreExact
    <3> QED
      BY <2>3, <3>2, PublishedFields
  <2>6. InitialBalance[a] \in Int
    BY DatabaseAssumption DEF DatabaseAssumption
  <2>7. SumAmounts(RowsOn(a)') = SumAmounts(RowsOn(a) \cup {t})
    BY <2>1, Zenon
  <2> HIDE DEF t, c
  <2> QED
    BY <2>2, <2>3, <2>5, <2>6, <2>7
<1> QED
  BY <1>2, <1>3

LEMMA NextStatement == StatementInv /\ [Next]_vars => StatementInv'
<1> SUFFICES ASSUME StatementInv, [Next]_vars
             PROVE  StatementInv'
  OBVIOUS
<1>1. BooksInv /\ BooksInv' /\ EffectInv
  BY NextBooks DEF StatementInv, BooksInv, ExactInv
<1>2. ASSUME NEW a \in Accounts, WholeRows(a)'
      PROVE  balance'[a] = InitialBalance[a] + SumAmounts(RowsOn(a)')
  <2>1. CASE UNCHANGED <<balance, ledger, txrows>>
    <3>1. WholeRows(a)
      BY <1>1, <1>2, <2>1, WholeBefore
    <3>2. RowsOn(a)' = RowsOn(a)
      BY <2>1 DEF RowsOn
    <3>3. balance[a] = InitialBalance[a] + SumAmounts(RowsOn(a))
      BY <3>1 DEF StatementInv, StatementAddsUp, WholeRows
    <3> QED
      BY <2>1, <3>2, <3>3
  <2>2. ASSUME NEW r \in Requests, Commit(r)
        PROVE  balance'[a] = InitialBalance[a] + SumAmounts(RowsOn(a)')
    <3>1. WholeRows(a)
      BY <1>1, <1>2, <2>2, WholeBefore DEF Commit
    <3>2. balance[a] = InitialBalance[a] + SumAmounts(RowsOn(a))
      BY <3>1 DEF StatementInv, StatementAddsUp, WholeRows
    <3> QED
      BY <1>1, <1>2, <2>2, <3>2, CommitAddsUp
  <2> QED
    BY <2>1, <2>2, OnlyCommitMoves DEF Next, vars
<1>3. StatementAddsUp'
  BY <1>2 DEF StatementAddsUp, WholeRows, SumAmounts
<1> QED
  BY <1>1, <1>3 DEF StatementInv

\* The committed rows of an account add up to the change of its cached balance,
\* however many there are, as long as their amounts are whole cents.
THEOREM StatementsAddUp == Spec => []StatementAddsUp
<1>1. Init => StatementInv
  <2> SUFFICES ASSUME Init
               PROVE  StatementInv
    OBVIOUS
  <2>1. \A a \in Accounts : RowsOn(a) = {} /\ balance[a] = InitialBalance[a]
    BY DEF Init, RowsOn
  <2>2. SumAmounts({}) = 0
    <3>1. SumFunctionOnSet([t \in {} |-> t.amount], {}) = 0
      BY SumEmpty
    <3> QED
      BY <3>1 DEF SumAmounts
  <2>3. \A a \in Accounts : InitialBalance[a] \in Int
    BY DatabaseAssumption DEF DatabaseAssumption
  <2>4. StatementAddsUp
    BY <2>1, <2>2, <2>3 DEF StatementAddsUp
  <2> QED
    BY <2>4, InitBooks DEF StatementInv
<1>2. StatementInv => StatementAddsUp
  BY DEF StatementInv
<1> QED
  BY <1>1, <1>2, NextStatement, PTL DEF Spec

-----------------------------------------------------------------------------
(* The drift of the cached balance *)

Ledgered(a) == \A t \in RowsOn(a) : ~IsPayment(t) /\ WholeCentRequest(t.by)

\* No row goes away, and what was said of one stays true.
LEMMA LedgeredBefore ==
    ASSUME EffectInv, [Next]_vars, txrows \subseteq txrows', NEW a \in Accounts,
           Ledgered(a)'
    PROVE  Ledgered(a)
<1> SUFFICES ASSUME NEW t \in RowsOn(a)
             PROVE  ~IsPayment(t) /\ WholeCentRequest(t.by)
  BY DEF Ledgered
<1>1. t \in RowsOn(a)'
  BY DEF RowsOn
<1>2. req'[t.by] = req[t.by]
  BY RowsKeepRequests DEF RowsOn
<1>3. (~IsPayment(t))' /\ WholeCentRequest(t.by)'
  BY <1>1 DEF Ledgered
<1> QED
  BY <1>2, <1>3 DEF IsPayment, WholeCentRequest

\* A whole-cent posting moves cache and ledger by the same amount.
LEMMA CommitLedgered ==
    ASSUME ExactInv, NEW r \in Requests, Commit(r), NEW a \in Accounts,
           Ledgered(a)', balance[a] = ledger[a]
    PROVE  balance'[a] = ledger'[a]
<1> DEFINE b == req[r]
<1>1. /\ Moving(b) /\ Active(r) /\ pc[r] = "commit" /\ BooksExact(r)
  BY CommitFacts
<1>2. /\ balance'[a] = balance[a] + work[r].balance[a]
      /\ ledger'[a] = ledger[a] + work[r].ledger[a]
      /\ txrows' = txrows \cup work[r].rows /\ UNCHANGED req
  BY DEF Commit, Reply
<1>3. balance[a] \in Int /\ WholeCents(balance[a])
  BY BalanceTyped DEF ExactInv, EffectInv
<1>4. CASE a \in Posted(r)
  <2>1. TxRow(r, a, Kind(r, a), Change(r, a)) \in RowsOn(a)'
    <3>1. TxRow(r, a, Kind(r, a), Change(r, a)) \in work[r].rows
      BY <1>1, <1>4 DEF BooksExact
    <3>2. TxRow(r, a, Kind(r, a), Change(r, a)).account = a
      BY DEF TxRow
    <3> QED
      BY <1>2, <3>1, <3>2 DEF RowsOn
  <2>2. TxRow(r, a, Kind(r, a), Change(r, a)).by = r
    BY DEF TxRow
  <2>3. (b.op # "pay" /\ WholeCents(b.amount))
    <3>1. req'[r].op # "pay" /\ WholeCentRequest(r)'
      BY <2>1, <2>2 DEF Ledgered, IsPayment
    <3> QED
      BY <1>2, <3>1 DEF WholeCentRequest
  <2>4. b.amount \in Int
    BY <1>1, <2>3, AmountTyped DEF ExactInv, EffectInv, Moving
  <2>5. Change(r, a) \in {b.amount, -b.amount} /\ Entry(r, a) = Change(r, a)
    BY <2>3 DEF Change, Entry, Amount
  <2>6. /\ Change(r, a) \in Int /\ WholeCents(Change(r, a))
        /\ Numeric4(Change(r, a)) = Change(r, a)
    BY <2>3, <2>4, <2>5, CentsAreExactInLedger
  <2>7. Numeric2(balance[a] + Change(r, a)) = balance[a] + Change(r, a)
    <3>1. WholeCents(balance[a] + Change(r, a))
      BY <1>3, <2>6, CentsAdd
    <3>2. balance[a] + Change(r, a) \in Int
      BY <1>3, <2>6
    <3> QED
      BY <3>1, <3>2, CentsAreExact
  <2>8. /\ work[r].balance[a] = Numeric2(balance[a] + Change(r, a)) - balance[a]
        /\ work[r].ledger[a] = Numeric4(Entry(r, a))
    BY <1>1, <1>4 DEF BooksExact
  <2> QED
    BY <1>2, <1>3, <2>5, <2>6, <2>7, <2>8
<1>5. CASE a \notin Posted(r)
  BY <1>1, <1>2, <1>5 DEF BooksExact
<1> QED
  BY <1>4, <1>5

DriftInv == ExactInv /\ DriftFree

LEMMA NextDrift == DriftInv /\ [Next]_vars => DriftInv'
<1> SUFFICES ASSUME DriftInv, [Next]_vars
             PROVE  DriftInv'
  OBVIOUS
<1>1. ExactInv' /\ ExactInv /\ EffectInv
  BY NextExact DEF DriftInv, ExactInv
<1>2. ASSUME NEW a \in Accounts, Ledgered(a)', txrows \subseteq txrows'
      PROVE  balance[a] = ledger[a]
  <2>1. Ledgered(a)
    BY <1>1, <1>2, LedgeredBefore
  <2> QED
    BY <2>1 DEF DriftInv, DriftFree, Ledgered
<1>3. ASSUME NEW a \in Accounts, Ledgered(a)'
      PROVE  balance'[a] = ledger'[a]
  <2>1. CASE UNCHANGED <<balance, ledger, txrows>>
    BY <1>2, <1>3, <2>1
  <2>2. ASSUME NEW r \in Requests, Commit(r)
        PROVE  balance'[a] = ledger'[a]
    <3>1. balance[a] = ledger[a]
      BY <1>2, <1>3, <2>2 DEF Commit
    <3> QED
      BY <1>1, <1>3, <2>2, <3>1, CommitLedgered
  <2> QED
    BY <2>1, <2>2, OnlyCommitMoves DEF Next, vars
<1>4. DriftFree'
  BY <1>3 DEF DriftFree, Ledgered
<1> QED
  BY <1>1, <1>4 DEF DriftInv

\* check_balance_drift() finds nothing on an account that only whole-cent
\* deposits and transfers have touched, however many and however interleaved.
THEOREM LedgerMatchesCache == Spec => []DriftFree
<1>1. Init => DriftInv
  BY InitExact DEF Init, DriftInv, DriftFree
<1>2. DriftInv => DriftFree
  BY DEF DriftInv
<1> QED
  BY <1>1, <1>2, NextDrift, PTL DEF Spec

\* Each column is off by half of its last digit at most.
LEMMA RoundingErrors ==
    ASSUME NEW x \in Int
    PROVE  /\ Numeric2(x) \in Int /\ Numeric4(x) \in Int
           /\ -500 <= Numeric2(x) - x /\ Numeric2(x) - x <= 500
           /\ -5 <= Numeric4(x) - x /\ Numeric4(x) - x <= 5
  BY DEF Numeric2, Numeric4, HalfAwayFromZero, Cent, Tick

\* The payments on an account, which have no ledger entry.
PaidOn(a) == {t \in RowsOn(a) : IsPayment(t)}
RoundingBound == (Cent + Tick) \div 2
WithinBound(change, n) == -(n * RoundingBound) <= change /\ change <= n * RoundingBound
DriftIsBounded(a) ==
    WithinBound(balance[a] - ledger[a] - SumAmounts(PaidOn(a)), Cardinality(RowsOn(a)))

BoundInv == BooksInv /\ \A a \in Accounts : DriftIsBounded(a)

\* A step that is no payment may leave another half cent and half tick.
LEMMA OneMoreRow ==
    ASSUME NEW n \in Nat, NEW drift \in Int, WithinBound(drift, n),
           NEW x \in Int, NEW y \in Int,
           -500 <= x /\ x <= 500, -5 <= y /\ y <= 5
    PROVE  WithinBound(drift + x - y, n + 1) /\ WithinBound(drift, n + 1)
<1>1. RoundingBound = 505
  BY DEF RoundingBound, Cent, Tick
<1> QED
  BY <1>1 DEF WithinBound

LEMMA PaymentsFinite ==
    ASSUME BooksInv, NEW a
    PROVE  /\ IsFiniteSet(PaidOn(a))
           /\ \A t \in PaidOn(a) : t.amount \in Int
           /\ SumAmounts(PaidOn(a)) \in Int
           /\ Cardinality(RowsOn(a)) \in Nat
<1>1. /\ IsFiniteSet(RowsOn(a)) /\ PaidOn(a) \in SUBSET RowsOn(a)
      /\ \A t \in RowsOn(a) : t.amount \in Int
  BY RowsFinite DEF PaidOn
<1>2. IsFiniteSet(PaidOn(a)) /\ \A t \in PaidOn(a) : t.amount \in Int
  BY <1>1, FS_Subset
<1>3. SumAmounts(PaidOn(a)) \in Int
  <2> DEFINE f == [t \in PaidOn(a) |-> t.amount]
  <2>1. \A t \in PaidOn(a) : f[t] \in Int
    BY <1>2
  <2>2. SumFunctionOnSet(f, PaidOn(a)) \in Int
    <3> HIDE DEF f
    <3> QED
      BY <1>2, <2>1, SumType
  <2> QED
    BY <2>2 DEF SumAmounts
<1> QED
  BY <1>1, <1>2, <1>3, FS_CardinalityType

LEMMA CommitBounded ==
    ASSUME BooksInv, NEW r \in Requests, Commit(r), NEW a \in Accounts,
           DriftIsBounded(a)
    PROVE  WithinBound(balance'[a] - ledger'[a] - SumAmounts(PaidOn(a)'),
                       Cardinality(RowsOn(a)'))
<1> DEFINE t == Published(r, a)
           c == Change(r, a)
           n == Cardinality(RowsOn(a))
           paid == SumAmounts(PaidOn(a))
<1>1. ExactInv /\ req' = req
  BY DEF BooksInv, Commit, Reply
<1>2. n \in Nat /\ paid \in Int /\ IsFiniteSet(RowsOn(a))
  BY PaymentsFinite, RowsFinite
<1>3. WithinBound(balance[a] - ledger[a] - paid, n)
  BY DEF DriftIsBounded
<1>4. CASE a \notin Posted(r)
  <2>1. RowsOn(a)' = RowsOn(a) /\ balance'[a] = balance[a] /\ ledger'[a] = ledger[a]
    BY <1>1, <1>4, CommitMoves, CommitRowsOn
  <2>2. PaidOn(a)' = PaidOn(a)
    BY <1>1, <2>1 DEF PaidOn, IsPayment
  <2> QED
    BY <1>3, <2>1, <2>2
<1>5. CASE a \in Posted(r)
  <2>1. RowsOn(a)' = RowsOn(a) \cup {t} /\ t \notin RowsOn(a)
    BY <1>1, <1>5, CommitRowsOn
  <2>2. Cardinality(RowsOn(a)') = n + 1
    BY <1>2, <2>1, FS_AddElement
  <2>3. /\ c \in Int /\ balance[a] \in Int /\ ledger[a] \in Int
        /\ WholeCents(balance[a])
        /\ balance'[a] = Numeric2(balance[a] + c)
        /\ ledger'[a] = ledger[a] + Numeric4(Entry(r, a))
    BY <1>5, CommitMoves
  <2>4. CASE req[r].op = "pay"
    <3>1. WholeCents(c) /\ Entry(r, a) = 0
      BY <1>5, <2>4, CommitMoves
    <3>2. balance'[a] = balance[a] + c /\ t.amount = c
      <4>1. \A x, y \in Int : WholeCents(x) /\ WholeCents(y) => WholeCents(x + y)
        BY CentsAdd
      <4>2. WholeCents(balance[a] + c) /\ balance[a] + c \in Int
        <5> HIDE DEF c
        <5>1. balance[a] + c \in Int
          BY <2>3
        <5> QED
          BY <2>3, <3>1, <4>1, <5>1, Zenon
      <4>3. Numeric2(balance[a] + c) = balance[a] + c /\ Numeric2(c) = c
        BY <2>3, <3>1, <4>2, CentsAreExact
      <4> QED
        BY <2>3, <4>3, PublishedFields
    <3>3. ledger'[a] = ledger[a]
      <4>1. Numeric4(0) = 0
        BY DEF Numeric4, HalfAwayFromZero, Tick
      <4> QED
        BY <2>3, <3>1, <4>1
    <3>4. PaidOn(a)' = PaidOn(a) \cup {t}
      BY <1>1, <2>1, <2>4, PublishedFields DEF PaidOn, IsPayment
    <3>5. SumAmounts(PaidOn(a) \cup {t}) = paid + c
      <4>1. IsFiniteSet(PaidOn(a)) /\ \A u \in PaidOn(a) : u.amount \in Int
        BY PaymentsFinite
      <4>2. t \notin PaidOn(a)
        BY <2>1 DEF PaidOn
      <4>3. \A u \in PaidOn(a) \cup {t} : u.amount \in Int
        BY <2>3, <3>2, <4>1
      <4> HIDE DEF t, c
      <4> QED
        BY <3>2, <4>1, <4>2, <4>3, RowAdds
    <3>6. balance'[a] - ledger'[a] - SumAmounts(PaidOn(a)') = balance[a] - ledger[a] - paid
      <4>1. SumAmounts(PaidOn(a)') = paid + c
        BY <3>4, <3>5, Zenon
      <4> HIDE DEF t, c, paid
      <4> QED
        BY <1>2, <2>3, <3>2, <3>3, <4>1
    <3> HIDE DEF n, paid
    <3>7. balance[a] - ledger[a] - paid \in Int
      BY <1>2, <2>3
    <3>8. WithinBound(balance[a] - ledger[a] - paid, n + 1)
      BY <1>2, <1>3, <3>7, OneMoreRow
    <3> QED
      BY <2>2, <3>6, <3>8
  <2>5. CASE req[r].op # "pay"
    <3>1. Entry(r, a) = c
      BY <1>5, <2>5, CommitMoves
    <3>2. PaidOn(a)' = PaidOn(a)
      BY <1>1, <2>1, <2>5, PublishedFields DEF PaidOn, IsPayment
    <3> DEFINE x == Numeric2(balance[a] + c) - (balance[a] + c)
               y == Numeric4(c) - c
               drift == balance[a] - ledger[a] - paid
    <3>3. /\ x \in Int /\ -500 <= x /\ x <= 500
          /\ y \in Int /\ -5 <= y /\ y <= 5
          /\ Numeric2(balance[a] + c) \in Int /\ Numeric4(c) \in Int
      <4> HIDE DEF c
      <4>1. balance[a] + c \in Int
        BY <2>3
      <4> QED
        BY <2>3, <4>1, RoundingErrors
    <3>4. drift \in Int
      <4> HIDE DEF paid
      <4> QED
        BY <1>2, <2>3
    <3>5. WithinBound(drift + x - y, n + 1)
      <4> HIDE DEF x, y, drift, n
      <4>1. WithinBound(drift, n)
        BY <1>3 DEF drift
      <4> QED
        BY <1>2, <3>3, <3>4, <4>1, OneMoreRow
    <3>6. balance'[a] - ledger'[a] - SumAmounts(PaidOn(a)') = drift + x - y
      <4>1. /\ balance'[a] = Numeric2(balance[a] + c)
            /\ ledger'[a] = ledger[a] + Numeric4(c)
            /\ SumAmounts(PaidOn(a)') = paid
        BY <2>3, <3>1, <3>2
      <4> HIDE DEF c, paid
      <4> QED
        BY <1>2, <2>3, <3>3, <4>1
    <3> HIDE DEF x, y, drift, n
    <3> QED
      BY <2>2, <3>5, <3>6
  <2> QED
    BY <2>4, <2>5
<1> QED
  BY <1>4, <1>5

LEMMA NextBound == BoundInv /\ [Next]_vars => BoundInv'
<1> SUFFICES ASSUME BoundInv, [Next]_vars
             PROVE  BoundInv'
  OBVIOUS
<1>1. BooksInv /\ BooksInv' /\ EffectInv
  BY NextBooks DEF BoundInv, BooksInv, ExactInv
<1>2. ASSUME NEW a \in Accounts
      PROVE  WithinBound(balance'[a] - ledger'[a] - SumAmounts(PaidOn(a)'),
                         Cardinality(RowsOn(a)'))
  <2>1. DriftIsBounded(a)
    BY DEF BoundInv
  <2>2. CASE UNCHANGED <<balance, ledger, txrows>>
    <3>1. RowsOn(a)' = RowsOn(a)
      BY <2>2 DEF RowsOn
    <3>2. \A t \in RowsOn(a) : req'[t.by] = req[t.by]
      BY <1>1, RowsKeepRequests DEF RowsOn
    <3>3. PaidOn(a)' = PaidOn(a)
      BY <3>1, <3>2 DEF PaidOn, IsPayment
    <3> QED
      BY <2>1, <2>2, <3>1, <3>3 DEF DriftIsBounded
  <2>3. ASSUME NEW r \in Requests, Commit(r)
        PROVE  WithinBound(balance'[a] - ledger'[a] - SumAmounts(PaidOn(a)'),
                           Cardinality(RowsOn(a)'))
    BY <1>1, <2>1, <2>3, CommitBounded
  <2> QED
    BY <2>2, <2>3, OnlyCommitMoves DEF Next, vars
<1>3. \A a \in Accounts : DriftIsBounded(a)'
  BY <1>2 DEF DriftIsBounded, SumAmounts
<1> QED
  BY <1>1, <1>3 DEF BoundInv

\* Payments aside, the cached balance and the ledger of an account differ by
\* half a cent and half a tick per committed row at most, for ever.
THEOREM DriftStaysBounded == Spec => []DriftBounded
<1>1. Init => BoundInv
  <2> SUFFICES ASSUME Init, NEW a \in Accounts
               PROVE  DriftIsBounded(a)
    BY InitBooks DEF BoundInv
  <2>1. RowsOn(a) = {} /\ PaidOn(a) = {} /\ balance[a] = ledger[a] /\ balance[a] \in Int
    BY DatabaseAssumption DEF DatabaseAssumption, Init, RowsOn, PaidOn
  <2>2. SumAmounts({}) = 0
    <3>1. SumFunctionOnSet([t \in {} |-> t.amount], {}) = 0
      BY SumEmpty
    <3> QED
      BY <3>1 DEF SumAmounts
  <2>3. WithinBound(0, 0)
    BY DEF WithinBound, RoundingBound, Cent, Tick
  <2>4. balance[a] - ledger[a] - SumAmounts(PaidOn(a)) = 0
        /\ Cardinality(RowsOn(a)) = 0
    BY <2>1, <2>2, FS_EmptySet
  <2> QED
    BY <2>3, <2>4 DEF DriftIsBounded
<1>2. BoundInv => DriftBounded
  BY DEF BoundInv, DriftBounded, DriftIsBounded, WithinBound, RoundingBound, PaidOn
<1> QED
  BY <1>1, <1>2, NextBound, PTL DEF Spec

-----------------------------------------------------------------------------
(* The total of the ledger *)

Entries == [t \in ExternalRows |-> EntryOf(t)]
TotalInv == BooksInv /\ LedgerConserves

\* Rounding treats a debit and a credit alike.
LEMMA LedgerRoundingOdd ==
    ASSUME NEW x \in Int
    PROVE  Numeric4(x) \in Int /\ Numeric4(-x) \in Int /\ Numeric4(-x) = -Numeric4(x)
  BY DEF Numeric4, HalfAwayFromZero, Tick

LEMMA EntriesTyped ==
    ASSUME BooksInv
    PROVE  /\ IsFiniteSet(ExternalRows)
           /\ \A t \in ExternalRows : EntryOf(t) \in Int
<1>1. IsFiniteSet(ExternalRows)
  <2>1. IsFiniteSet(txrows) /\ ExternalRows \in SUBSET txrows
    BY DEF BooksInv, ExternalRows
  <2> QED
    BY <2>1, FS_Subset
<1>2. ASSUME NEW t \in ExternalRows
      PROVE  EntryOf(t) \in Int
  <2>1. t.by \in Requests /\ pc[t.by] = "done" /\ req[t.by].op \in {"deposit", "transfer"}
    BY RowsAreDone DEF BooksInv, ExactInv, ExternalRows, IsExternal
  <2>2. req[t.by] \in Bodies
    BY <2>1 DEF BooksInv, ExactInv, EffectInv, IInv, Vetted
  <2>3. req[t.by].amount \in Int
    BY <2>1, <2>2, BodyTypes DEF DepositBody, TransferBody
  <2>4. -req[t.by].amount \in Int
    BY <2>3
  <2> QED
    BY <2>3, <2>4, LedgerRoundingType DEF EntryOf
<1> QED
  BY <1>1, <1>2

LEMMA CommitConserves ==
    ASSUME TotalInv, NEW r \in Requests, Commit(r)
    PROVE  SumFunctionOnSet(ledger', Accounts) =
               SumFunctionOnSet(InitialBalance, Accounts)
                   + SumFunctionOnSet(Entries', ExternalRows')
<1> DEFINE b == req[r]
           initial == SumFunctionOnSet(InitialBalance, Accounts)
           total == SumFunctionOnSet(ledger, Accounts)
           entries == SumFunctionOnSet(Entries, ExternalRows)
<1>1. BooksInv /\ ExactInv /\ req' = req
  BY DEF TotalInv, BooksInv, Commit, Reply
<1>2. total = initial + entries
  BY DEF TotalInv, LedgerConserves, Entries
<1>3. \A a \in Accounts : ledger[a] \in Int /\ InitialBalance[a] \in Int
  BY <1>1, CommitMoves, DatabaseAssumption DEF DatabaseAssumption
<1>4. initial \in Int /\ entries \in Int /\ total \in Int
  <2>1. initial \in Int /\ total \in Int
    BY <1>3, SumType, AccountsAssumption DEF AccountsAssumption
  <2>2. \A t \in ExternalRows : Entries[t] \in Int
    BY <1>1, EntriesTyped DEF Entries
  <2> QED
    BY <1>1, <2>1, <2>2, EntriesTyped, SumType
<1>5. /\ txrows' = txrows \cup {Published(r, a) : a \in Posted(r)}
      /\ \A a \in Posted(r) : Published(r, a) \notin txrows /\ Published(r, a).by = r
  BY <1>1, CommitRows, PublishedFields
<1>6. /\ Posted(r) \subseteq Accounts
      /\ \A a \in Posted(r) : /\ Change(r, a) \in Int
                              /\ ledger'[a] = ledger[a] + Numeric4(Entry(r, a))
                              /\ b.op = "pay" => Entry(r, a) = 0
                              /\ b.op # "pay" => Entry(r, a) = Change(r, a)
      /\ \A a \in Accounts \ Posted(r) : ledger'[a] = ledger[a]
  BY <1>1, PostedAccounts, CommitMoves
<1>7. \A a \in Accounts : ledger'[a] \in Int
  <2>1. \A a \in Posted(r) : Numeric4(Entry(r, a)) \in Int
    <3>1. \A a \in Posted(r) : Entry(r, a) \in Int
      BY <1>6
    <3> QED
      BY <3>1, LedgerRoundingType
  <2> QED
    BY <1>3, <1>6, <2>1
<1>8. CASE b.op = "pay" \/ BetweenOwn(b)
  <2>1. ExternalRows' = ExternalRows
    BY <1>1, <1>5, <1>8 DEF ExternalRows, IsExternal, BetweenOwn
  <2>2. Entries' = Entries
    BY <1>1, <2>1 DEF Entries, EntryOf
  <2>3. SumFunctionOnSet(ledger', Accounts) = total
    <3>1. CASE b.op = "pay"
      <4>1. Numeric4(0) = 0
        BY DEF Numeric4, HalfAwayFromZero, Tick
      <4>2. \A a \in Accounts : ledger'[a] = ledger[a]
        BY <1>3, <1>6, <3>1, <4>1
      <4> QED
        BY <4>2, SumCongruent, AccountsAssumption DEF AccountsAssumption
    <3>2. CASE BetweenOwn(b)
      <4> DEFINE x == b.from
                 y == b.toAccount
      <4>1. Posted(r) = {x, y} /\ x # y /\ x \in Accounts /\ y \in Accounts
        BY <1>1, <1>6, <3>2, PostedAccounts DEF BetweenOwn
      <4>2. Change(r, x) = -b.amount /\ Change(r, y) = b.amount
        BY <1>1, <3>2, <4>1, CommitFacts DEF Change, Debited, Amount, BetweenOwn
      <4>3. b.amount \in Int
        BY <1>6, <4>1, <4>2
      <4>4. /\ ledger'[x] = ledger[x] + Numeric4(-b.amount)
            /\ ledger'[y] = ledger[y] + Numeric4(b.amount)
        BY <1>6, <3>2, <4>1, <4>2 DEF BetweenOwn
      <4>5. (ledger'[x] - ledger[x]) + (ledger'[y] - ledger[y]) = 0
        BY <1>3, <4>1, <4>3, <4>4, LedgerRoundingOdd
      <4> HIDE DEF x, y
      <4>6. SumFunctionOnSet(ledger', Accounts)
                = total + (ledger'[x] - ledger[x]) + (ledger'[y] - ledger[y])
        <5>1. \A a \in Accounts : ledger[a] \in Int /\ ledger'[a] \in Int
          BY <1>3, <1>7
        <5>2. \A a \in Accounts \ {x, y} : ledger'[a] = ledger[a]
          BY <1>6, <4>1
        <5>3. IsFiniteSet(Accounts)
          BY AccountsAssumption DEF AccountsAssumption
        <5>4. \A f, g :
                /\ \A a \in Accounts : f[a] \in Int /\ g[a] \in Int
                /\ \A a \in Accounts \ {x, y} : g[a] = f[a]
                => SumFunctionOnSet(g, Accounts) =
                      SumFunctionOnSet(f, Accounts) + (g[x] - f[x]) + (g[y] - f[y])
          BY <4>1, <5>3, SumTwoChanged
        <5> QED
          BY <5>1, <5>2, <5>4
      <4> QED
        BY <1>3, <1>4, <1>7, <4>1, <4>5, <4>6
    <3> QED
      BY <1>8, <3>1, <3>2
  <2> QED
    BY <1>2, <2>1, <2>2, <2>3
<1>9. CASE b.op = "deposit" \/ (b.op = "transfer" /\ b.toAccount = None)
  <2> DEFINE x == IF b.op = "deposit" THEN b.to ELSE b.from
             t == Published(r, x)
  <2>1. Posted(r) = {x} /\ x \in Accounts
    BY <1>1, <1>6, <1>9, PostedAccounts
  <2>2. EntryOf(t) = Numeric4(Change(r, x))
    <3>1. b.op = "deposit" => Kind(r, x) = "credit" /\ Change(r, x) = b.amount
      BY <1>1, CommitFacts DEF Kind, Change, Debited
    <3>2. b.op = "transfer" => Kind(r, x) = "transfer_out" /\ Change(r, x) = -b.amount
      BY <1>1, CommitFacts DEF Kind, Change, Debited, Amount
    <3>3. t.by = r /\ t.kind = Kind(r, x)
      BY PublishedFields
    <3> QED
      BY <1>9, <3>1, <3>2, <3>3 DEF EntryOf
  <2>3. ExternalRows' = ExternalRows \cup {t} /\ t \notin ExternalRows
    BY <1>1, <1>5, <1>9, <2>1 DEF ExternalRows, IsExternal
  <2> HIDE DEF x, t
  <2>4. SumFunctionOnSet(Entries', ExternalRows') = entries + EntryOf(t)
    <3>1. /\ IsFiniteSet(ExternalRows)
          /\ \A u \in ExternalRows : EntryOf(u) \in Int
      BY <1>1, EntriesTyped
    <3>2. EntryOf(t) \in Int
      BY <1>6, <2>1, <2>2, LedgerRoundingType
    <3> DEFINE g == [u \in ExternalRows \cup {t} |-> EntryOf(u)]
    <3>3. Entries' = g
      BY <1>1, <2>3 DEF Entries, EntryOf
    <3>4. /\ \A u \in ExternalRows \cup {t} : g[u] \in Int
          /\ \A u \in ExternalRows : g[u] = Entries[u]
          /\ g[t] = EntryOf(t)
      BY <3>1, <3>2 DEF Entries
    <3> HIDE DEF g
    <3>5. SumFunctionOnSet(g, ExternalRows \cup {t}) = SumFunctionOnSet(g, ExternalRows) + g[t]
      BY <2>3, <3>1, <3>4, SumAdd
    <3>6. SumFunctionOnSet(g, ExternalRows) = entries
      BY <3>1, <3>4, SumCongruent
    <3>7. SumFunctionOnSet(Entries', ExternalRows')
              = SumFunctionOnSet(g, ExternalRows \cup {t})
      BY <2>3, <3>3, Zenon
    <3> QED
      BY <3>4, <3>5, <3>6, <3>7
  <2>5. SumFunctionOnSet(ledger', Accounts) = total + (ledger'[x] - ledger[x])
    BY <1>3, <1>6, <1>7, <2>1, SumOneChanged, AccountsAssumption DEF AccountsAssumption
  <2>6. ledger'[x] - ledger[x] = EntryOf(t) /\ EntryOf(t) \in Int
    <3>1. b.op # "pay"
      BY <1>9
    <3>2. Numeric4(Change(r, x)) \in Int
      BY <1>6, <2>1, LedgerRoundingType
    <3> QED
      BY <1>3, <1>6, <2>1, <2>2, <3>1, <3>2
  <2> HIDE DEF initial, total, entries
  <2> QED
    BY <1>2, <1>4, <2>4, <2>5, <2>6 DEF initial
<1> QED
  BY <1>1, <1>8, <1>9, PostedAccounts DEF Moving, BetweenOwn

LEMMA NextTotal == TotalInv /\ [Next]_vars => TotalInv'
<1> SUFFICES ASSUME TotalInv, [Next]_vars
             PROVE  TotalInv'
  OBVIOUS
<1>1. BooksInv /\ BooksInv' /\ EffectInv
  BY NextBooks DEF TotalInv, BooksInv, ExactInv
<1>2. CASE UNCHANGED <<balance, ledger, txrows>>
  <2>1. \A t \in txrows : req'[t.by] = req[t.by]
    BY <1>1, RowsKeepRequests
  <2>2. ExternalRows' = ExternalRows
    BY <1>2, <2>1 DEF ExternalRows, IsExternal
  <2>3. Entries' = Entries
    BY <2>1, <2>2 DEF Entries, EntryOf, ExternalRows
  <2>4. SumFunctionOnSet(ledger', Accounts) =
            SumFunctionOnSet(InitialBalance, Accounts)
                + SumFunctionOnSet(Entries', ExternalRows')
    BY <1>2, <2>2, <2>3 DEF TotalInv, LedgerConserves, Entries
  <2> QED
    BY <1>1, <2>4 DEF TotalInv, LedgerConserves, Entries
<1>3. ASSUME NEW r \in Requests, Commit(r)
      PROVE  TotalInv'
  BY <1>1, <1>3, CommitConserves DEF TotalInv, LedgerConserves, Entries
<1> QED
  BY <1>2, <1>3, OnlyCommitMoves DEF Next, vars

\* Transfers between own accounts never change the total of the ledger: it is
\* what the accounts started with and what came in or went out.
THEOREM LedgerIsConserved == Spec => []LedgerConserves
<1>1. Init => TotalInv
  <2> SUFFICES ASSUME Init
               PROVE  TotalInv
    OBVIOUS
  <2>1. ExternalRows = {} /\ ledger = InitialBalance
    BY DEF Init, ExternalRows
  <2>2. SumFunctionOnSet([t \in {} |-> EntryOf(t)], {}) = 0
    BY SumEmpty
  <2>3. SumFunctionOnSet([t \in ExternalRows |-> EntryOf(t)], ExternalRows) = 0
    BY <2>1, <2>2
  <2>4. SumFunctionOnSet(InitialBalance, Accounts) \in Int
    BY SumType, DatabaseAssumption, AccountsAssumption
       DEF DatabaseAssumption, AccountsAssumption
  <2> QED
    BY <2>1, <2>3, <2>4, InitBooks DEF TotalInv, LedgerConserves
<1>2. TotalInv => LedgerConserves
  BY DEF TotalInv
<1> QED
  BY <1>1, <1>2, NextTotal, PTL DEF Spec
=============================================================================
