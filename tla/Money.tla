------------------------------- MODULE Money -------------------------------
(***************************************************************************)
(* Amounts of money.  A request carries a rust_decimal value of any scale; *)
(* Postgres stores it in NUMERIC(15,2) columns (accounts.balance,          *)
(* transactions.amount, invoices.amount) and in the NUMERIC(19,4) column   *)
(* ledger_entries.amount.  One unit here is 0.00001, so that values which  *)
(* need rounding in either column exist.                                   *)
(***************************************************************************)
EXTENDS Integers

CONSTANTS MaxAmount,   \* largest amount a request may name: 1_000_000 in the code
          BalanceCap   \* largest magnitude a NUMERIC(15,2) column holds

Cent == 1000           \* 0.01, the last digit of NUMERIC(15,2)
Tick == 10             \* 0.0001, the last digit of NUMERIC(19,4)

ASSUME MoneyAssumption ==
    /\ MaxAmount \in Nat
    /\ BalanceCap \in Nat
    /\ BalanceCap % Cent = 0
    /\ Cent <= MaxAmount
    /\ MaxAmount <= BalanceCap

\* Postgres rounds a NUMERIC assigned to a column half away from zero.
HalfAwayFromZero(x, unit) ==
    IF x >= 0 THEN unit * ((2 * x + unit) \div (2 * unit))
              ELSE -(unit * ((unit - 2 * x) \div (2 * unit)))

Numeric2(x) == HalfAwayFromZero(x, Cent)
Numeric4(x) == HalfAwayFromZero(x, Tick)

\* A value with more digits than NUMERIC(15,2) has is a statement error.
Fits(x) == -BalanceCap <= x /\ x <= BalanceCap

\* validate_amount: between 0.01 and the maximum; the scale is not looked at.
ValidAmount(x) == Cent <= x /\ x <= MaxAmount

WholeCents(x) == x % Cent = 0
=============================================================================
