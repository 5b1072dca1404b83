------------------------------ MODULE MCForms ------------------------------
(***************************************************************************)
(* A small instance of the forms for TLC: the constants that are functions *)
(* are defined here, the sets and bounds are given in the .cfg files.      *)
(***************************************************************************)
EXTENDS Forms

\* Of the two accounts of the dialog one has less money than can be typed.
MCCachedBalance == [a1 |-> 2, a2 |-> 1]

\* What one unit of a currency is worth, in thousandths of a euro.
MCWorth == [USD |-> 875, EUR |-> 1000]
=============================================================================
