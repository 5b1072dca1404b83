SPECIFICATION Spec
CONSTANTS
  r1 = r1 r2 = r2 r3 = r3
  alice = alice bob = bob
  a1 = a1 a2 = a2 b1 = b1 closed = closed
  i1 = i1 i2 = i2 p1 = p1 q1 = q1
  None = None
  MaxAmount = 4000
  BalanceCap = 4000
  Requests = {r1, r2, r3}
  Users = {alice, bob}
  Accounts = {a1, a2, b1, closed}
  Open = {a1, a2, b1}
  Owner <- MCOwner
  InitialBalance <- MCInitialBalance
  Invoices = {i1, i2}
  InitialInvoice <- MCInitialInvoice
  Recipients = {p1, q1}
  RecipientOwner <- MCRecipientOwner
  InitialRecipients = {p1, q1}
  Bodies <- InvoiceBodies
  PoolSize = 2
  Faults = {"statement", "abandon", "answer"}
INVARIANTS TypeOK StatementAddsUp
PROPERTIES PaymentMarksPaid ImplementsAtomicBank
