------------------------------- MODULE MCBank -------------------------------
(***************************************************************************)
(* Finite instances of Bank for TLC: alice with two open accounts and a    *)
(* closed one, bob with one that the seeds left below zero, one payable    *)
(* invoice and one invoice id to create.                                   *)
(***************************************************************************)
EXTENDS Bank, TLC

CONSTANTS r1, r2, r3, alice, bob, a1, a2, b1, closed, i1, i2, p1, q1

MCOwner == (a1 :> alice) @@ (a2 :> alice) @@ (b1 :> bob) @@ (closed :> alice)
MCInitialBalance == (a1 :> 3000) @@ (a2 :> 1000) @@ (b1 :> -1000) @@ (closed :> 0)
MCInitialInvoice ==
    (i1 :> [owner |-> alice, amount |-> 1000, status |-> "sent"])
    @@ (i2 :> [owner |-> None, amount |-> 0, status |-> "absent"])
MCRecipientOwner == (p1 :> alice) @@ (q1 :> bob)

TransferBy(user, from, to, recipient, amount) ==
    [op |-> "transfer", user |-> user, from |-> from, toAccount |-> to,
     toRecipient |-> recipient, amount |-> amount]
Transfer(from, to, recipient, amount) ==
    TransferBy(alice, from, to, recipient, amount)
DepositBy(user, to, amount, source) ==
    [op |-> "deposit", user |-> user, to |-> to, amount |-> amount,
     source |-> source, iban |-> FALSE]
Deposit(to, amount, source) == DepositBy(alice, to, amount, source)
Pay(from, i) == [op |-> "pay", user |-> alice, invoice |-> i, from |-> from]
SetStatus(user, i, status) ==
    [op |-> "status", user |-> user, invoice |-> i, status |-> status]
Create(amount) == [op |-> "create", user |-> alice, amount |-> amount]
Delete(user, p) == [op |-> "delete", user |-> user, recipient |-> p]

\* Opposite transfers between own accounts, transfers out, a deposit that may
\* fund them, and every refusal.
TransferBodies ==
    {Transfer(a1, a2, None, 2000), Transfer(a2, a1, None, 1000),
     Transfer(a1, None, p1, 2000), Transfer(a1, None, q1, 1000),
     Transfer(a1, b1, None, 1000), Transfer(b1, a1, None, 1000),
     Transfer(a1, a1, None, 1000), Transfer(a1, None, None, 1000),
     Transfer(a1, None, p1, 0), Transfer(closed, a1, None, 1000),
     TransferBy(bob, b1, None, q1, 1000), Deposit(a2, 1000, "cash"),
     Delete(alice, p1), Delete(bob, p1)}

\* Payments race each other, status changes, a deposit that overflows the
\* column, and a new invoice.
InvoiceBodies ==
    {Pay(a1, i1), Pay(a2, i1), Pay(b1, i1), Pay(a1, i2),
     SetStatus(alice, i1, "cancelled"), SetStatus(alice, i1, "overdue"),
     SetStatus(alice, i2, "sent"), SetStatus(bob, i1, "paid"),
     SetStatus(alice, i1, "unknown"),
     Create(1000), Create(0),
     Deposit(a1, 1000, "card"), Deposit(a1, 2000, "cash"),
     Deposit(a1, 1000, "bank_transfer"), Deposit(b1, 1000, "cash"),
     Deposit(a1, 5000, "cash"), DepositBy(bob, b1, 2000, "card")}

\* Amounts with more digits than the columns, half cents and half ticks, among
\* requests of every kind.
RoundingBodies ==
    {Transfer(a1, a2, None, 1500), Transfer(a2, a1, None, 1005),
     Transfer(a1, None, p1, 1495), Transfer(a2, None, p1, 1000),
     Transfer(a1, a1, None, 1000),
     Deposit(a1, 1505, "card"), Deposit(a2, 1004, "cash"),
     Pay(a1, i1), Pay(a2, i2), SetStatus(alice, i2, "sent"),
     SetStatus(alice, i1, "unknown"), Create(1495), Create(0)}

\* Everything that waits for someone else: opposite transfers, a payment
\* against a status change, requests queueing for a small pool.
WaitingBodies ==
    {Transfer(a1, a2, None, 1000), Transfer(a2, a1, None, 1000),
     Transfer(a1, None, p1, 4000), Pay(a1, i1),
     SetStatus(alice, i1, "cancelled"), Deposit(a2, 4000, "cash"),
     Create(1000), Delete(alice, p1)}

PaymentBodies == {Pay(a1, i1), Pay(a2, i1)}
=============================================================================
