----------------------------- MODULE AtomicBank -----------------------------
(***************************************************************************)
(* What the banking API promises its clients: every request takes effect   *)
(* in one step between its arrival and its answer, or not at all.  There   *)
(* are no locks, transactions, connections or program counters here.  Two  *)
(* facts are promised less: that an invoice was payable and that a saved   *)
(* recipient existed is only known of some earlier moment (Observe).       *)
(***************************************************************************)
EXTENDS Money

CONSTANTS Requests, Users, Accounts, Open, Owner, InitialBalance, Invoices,
          InitialInvoice, RecipientOwner, InitialRecipients, Bodies, None

VARIABLES
    req, resp,         \* what each request asks and what it was told
    seen,              \* what it depends on was observed to hold
    balance, ledger, txrows, invoice, recipients

store == <<balance, ledger, txrows, invoice, recipients>>
avars == <<req, resp, seen, balance, ledger, txrows, invoice, recipients>>

Statuses == {"draft", "sent", "paid", "overdue", "cancelled"}

Init ==
    /\ req = [r \in Requests |-> None]
    /\ resp = [r \in Requests |-> "none"]
    /\ seen = [r \in Requests |-> FALSE]
    /\ balance = InitialBalance
    /\ ledger = InitialBalance
    /\ txrows = {}
    /\ invoice = InitialInvoice
    /\ recipients = InitialRecipients

Pending(r) == req[r] # None /\ resp[r] = "none"

\* Answer r; whatever it had observed is of no more use.
Tell(r, answer) == /\ resp' = [resp EXCEPT ![r] = answer]
                   /\ seen' = [seen EXCEPT ![r] = FALSE]
                   /\ UNCHANGED req

-----------------------------------------------------------------------------
(* What holds of a request now *)

Mine(b, a) == a \in Open /\ Owner[a] = b.user
MyInvoice(b) == invoice[b.invoice].status # "absent" /\ invoice[b.invoice].owner = b.user
MyRecipient(b, p) == p \in recipients /\ RecipientOwner[p] = b.user

ToRecipient(b) == b.op = "transfer" /\ b.toRecipient # None
Price(b) == IF b.op = "pay" THEN invoice[b.invoice].amount ELSE b.amount

WellFormed(b) ==
    /\ b.op \in {"transfer", "deposit", "create"} => ValidAmount(b.amount)
    /\ b.op = "transfer" => /\ (b.toAccount = None) # (b.toRecipient = None)
                            /\ b.from # b.toAccount
    /\ b.op = "deposit" /\ b.source = "bank_transfer" => b.iban
    /\ b.op = "status" => b.status \in Statuses

\* Why a well-formed request may be turned down in the present state.
Refusals(b) ==
    {why \in {"account not found", "insufficient funds", "recipient not found",
              "invoice not found", "not payable"} :
        CASE why = "account not found" ->
                \/ b.op \in {"transfer", "pay"} /\ ~Mine(b, b.from)
                \/ b.op = "transfer" /\ b.toAccount # None /\ ~Mine(b, b.toAccount)
                \/ b.op = "deposit" /\ ~Mine(b, b.to)
          [] why = "insufficient funds" ->
                b.op \in {"transfer", "pay"} /\ Mine(b, b.from) /\ balance[b.from] < Price(b)
          [] why = "recipient not found" ->
                \/ ToRecipient(b) /\ ~MyRecipient(b, b.toRecipient)
                \/ b.op = "delete" /\ ~MyRecipient(b, b.recipient)
          [] why = "invoice not found" -> b.op \in {"pay", "status"} /\ ~MyInvoice(b)
          [] why = "not payable" ->
                b.op = "pay" /\ MyInvoice(b)
                             /\ invoice[b.invoice].status \notin {"sent", "overdue"}}

-----------------------------------------------------------------------------
(* Steps *)

Receive(r) ==
    /\ req[r] = None
    /\ \E b \in Bodies :
        /\ req' = [req EXCEPT ![r] = b]
        /\ IF WellFormed(b)
             THEN UNCHANGED resp
             ELSE \E why \in {"invalid", "account not found", "same account",
                              "missing iban"} : resp' = [resp EXCEPT ![r] = why]
    /\ UNCHANGED <<seen, store>>

Observe(r) ==
    /\ Pending(r) /\ ~seen[r]
    /\ \/ req[r].op = "pay" /\ MyInvoice(req[r])
                            /\ invoice[req[r].invoice].status \in {"sent", "overdue"}
       \/ ToRecipient(req[r]) /\ MyRecipient(req[r], req[r].toRecipient)
    /\ seen' = [seen EXCEPT ![r] = TRUE]
    /\ UNCHANGED <<req, resp, store>>

\* The postings of a request: which account changes, by how much, how the
\* transactions row is called and what the ledger is told.
Posting(a, kind, change, entry) ==
    [account |-> a, kind |-> kind, change |-> change, entry |-> entry]
Postings(b) ==
    CASE b.op = "pay"     -> {Posting(b.from, "transfer_out", -Price(b), 0)}
      [] b.op = "deposit" -> {Posting(b.to, "credit", b.amount, b.amount)}
      [] OTHER            -> {Posting(b.from, "transfer_out", -b.amount, -b.amount)} \cup
                             {Posting(a, "transfer_in", b.amount, b.amount) :
                                 a \in {b.toAccount} \ {None}}

Touched(b) == {p.account : p \in Postings(b)}
PostingOn(b, a) == CHOOSE p \in Postings(b) : p.account = a

\* Money moves, all of it at once.
Move(r) ==
    LET b == req[r] IN
    /\ Pending(r) /\ b.op \in {"transfer", "deposit", "pay"}
    /\ \A p \in Postings(b) : Mine(b, p.account)
    /\ b.op # "deposit" => balance[b.from] >= Price(b)
    /\ b.op = "pay" \/ ToRecipient(b) => seen[r]
    /\ balance' = [a \in Accounts |->
          IF a \in Touched(b) THEN Numeric2(balance[a] + PostingOn(b, a).change)
                              ELSE balance[a]]
    /\ ledger' = [a \in Accounts |->
          IF a \in Touched(b) THEN ledger[a] + Numeric4(PostingOn(b, a).entry)
                              ELSE ledger[a]]
    /\ txrows' = txrows \cup {[by |-> r, account |-> p.account, kind |-> p.kind,
                               amount |-> Numeric2(p.change)] : p \in Postings(b)}
    /\ invoice' = IF b.op = "pay" THEN [invoice EXCEPT ![b.invoice].status = "paid"]
                                  ELSE invoice
    /\ \E answer \in {"ok", "internal"} : Tell(r, answer)
    /\ UNCHANGED recipients

ChangeInvoice(r) ==
    LET b == req[r] IN
    /\ Pending(r)
    /\ \/ /\ b.op = "status" /\ MyInvoice(b)
          /\ invoice' = [invoice EXCEPT ![b.invoice].status = b.status]
       \/ /\ b.op = "create"
          /\ \E i \in {j \in Invoices : invoice[j].status = "absent"} :
                invoice' = [invoice EXCEPT ![i] =
                    [owner |-> b.user, amount |-> Numeric2(b.amount), status |-> "draft"]]
    /\ \E answer \in {"ok", "internal"} : Tell(r, answer)
    /\ UNCHANGED <<balance, ledger, txrows, recipients>>

ForgetRecipient(r) ==
    /\ Pending(r) /\ req[r].op = "delete" /\ MyRecipient(req[r], req[r].recipient)
    /\ recipients' = recipients \ {req[r].recipient}
    /\ \E answer \in {"ok", "internal"} : Tell(r, answer)
    /\ UNCHANGED <<balance, ledger, txrows, invoice>>

\* Nothing happens and the client is told why, or that something broke.
Refuse(r) ==
    /\ Pending(r)
    /\ \E why \in Refusals(req[r]) \cup {"internal"} : Tell(r, why)
    /\ UNCHANGED store

Next == \E r \in Requests : \/ Receive(r) \/ Observe(r) \/ Move(r)
                            \/ ChangeInvoice(r) \/ ForgetRecipient(r) \/ Refuse(r)

Spec == Init /\ [][Next]_avars
=============================================================================
