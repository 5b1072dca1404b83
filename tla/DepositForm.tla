---------------------------- MODULE DepositForm ----------------------------
(***************************************************************************)
(* The "Deposit" dialog.  Name and IBAN of the source are one state for    *)
(* all three sources: what is typed for one tab is there when the next tab *)
(* is chosen, and only handleSourceChange tidies it.                       *)
(***************************************************************************)
EXTENDS Integers, FiniteSets

CONSTANTS
    None,
    Accounts,
    Names,      \* what can be typed as the source's name
    Lengths,    \* lengths of the IBANs that can be typed, without blanks
    Amounts,
    MaxPosts    \* bound: deposits posted

DepositAssumption ==
    /\ None \notin Accounts \cup Names
    /\ Lengths \subseteq Nat /\ Amounts \subseteq Nat /\ MaxPosts \in Nat

VARIABLES open, form, confirm, pending, posted
vars == <<open, form, confirm, pending, posted>>

Sources == {"bank_transfer", "card", "cash"}
CashName == "Cash deposit"

\* An IBAN is its length and whether its checksum is right.
Iban == [length: Lengths, checks: BOOLEAN] \cup {None}
Form == [to: Accounts \cup {None}, source: Sources,
         name: Names \cup {CashName, None}, iban: Iban, amount: Amounts \cup {0}]

\* The body of POST /api/deposits; ibanLength counts the blanks too.
Request == [to: Accounts, source: Sources, name: Names \cup {CashName},
            ibanLength: Nat \cup {None}, amount: Amounts]

TypeOK ==
    /\ open \in BOOLEAN /\ pending \in BOOLEAN
    /\ form \in Form
    /\ confirm \in Request \cup {None}
    /\ posted \subseteq Request

EmptyForm == [to |-> None, source |-> "bank_transfer", name |-> None, iban |-> None,
              amount |-> 0]

Init ==
    /\ open = FALSE /\ pending = FALSE
    /\ form = EmptyForm
    /\ confirm = None
    /\ posted = {}

\* formatIban writes a blank after every fourth character.
FormattedLength(n) == n + (n - 1) \div 4

\* validateIban strips the blanks first.
ValidateIban(iban) == iban # None /\ iban.length \in 15..34 /\ iban.checks

Unmounted ==
    /\ open' = FALSE /\ pending' = FALSE
    /\ form' = EmptyForm
    /\ confirm' = None

Open ==
    /\ ~open
    /\ open' = TRUE
    /\ UNCHANGED <<form, confirm, pending, posted>>

Close == open /\ Unmounted /\ UNCHANGED posted

Editing == open /\ confirm = None

\* Regression: the name that stands for cash is kept for the next source.
HandleSourceChangeKeeping(s) ==
    /\ Editing
    /\ form' = IF s = "cash"
               THEN [form EXCEPT !.source = s, !.name = CashName, !.iban = None]
               ELSE [form EXCEPT !.source = s]
    /\ UNCHANGED <<open, confirm, pending, posted>>

HandleSourceChange(s) ==
    /\ Editing
    /\ form' = IF s = "cash"
               THEN [form EXCEPT !.source = s, !.name = CashName, !.iban = None]
               ELSE [form EXCEPT !.source = s, !.name = IF @ = CashName THEN None ELSE @]
    /\ UNCHANGED <<open, confirm, pending, posted>>

\* The name has a field for a bank and for a card, the IBAN for a bank only.
NameShown == form.source \in {"bank_transfer", "card"}
IbanShown == form.source = "bank_transfer"

Type ==
    /\ Editing
    /\ \/ \E a \in Accounts \cup {None} : form' = [form EXCEPT !.to = a]
       \/ NameShown /\ \E n \in Names \cup {None} : form' = [form EXCEPT !.name = n]
       \/ IbanShown /\ \E i \in Iban : form' = [form EXCEPT !.iban = i]
       \/ \E x \in Amounts \cup {0} : form' = [form EXCEPT !.amount = x]
    /\ UNCHANGED <<open, confirm, pending, posted>>

\* depositSchema
FormValid ==
    /\ form.to # None
    /\ form.name # None
    /\ form.amount > 0
    /\ form.source = "bank_transfer" => ValidateIban(form.iban)

Body(iban) ==
    [to |-> form.to, source |-> form.source, name |-> form.name,
     ibanLength |-> IF iban = None THEN None ELSE FormattedLength(iban.length),
     amount |-> form.amount]

HandleSubmit ==
    /\ Editing /\ FormValid
    /\ confirm' = Body(IF form.source = "bank_transfer" THEN form.iban ELSE None)
    /\ UNCHANGED <<open, form, pending, posted>>

Back ==
    /\ confirm # None /\ ~pending
    /\ confirm' = None
    /\ UNCHANGED <<open, form, pending, posted>>

HandleConfirm ==
    /\ confirm # None /\ ~pending
    /\ Cardinality(posted) < MaxPosts
    /\ posted' = posted \cup {confirm}
    /\ pending' = TRUE
    /\ UNCHANGED <<open, form, confirm>>

Succeed == pending /\ Unmounted /\ UNCHANGED posted

\* A refusal or a lost answer leads back to the form, which was kept.
Fail ==
    /\ pending
    /\ pending' = FALSE
    /\ confirm' = None
    /\ UNCHANGED <<open, form, posted>>

Next ==
    \/ Open \/ Close \/ Type
    \/ \E s \in Sources : HandleSourceChange(s)
    \/ HandleSubmit \/ Back \/ HandleConfirm \/ Succeed \/ Fail

Spec == Init /\ [][Next]_vars

-----------------------------------------------------------------------------
(* Properties *)

\* Cash is called "Cash deposit", and no bank or card ever is, unless the user
\* types just that.
CashNamedCash ==
    \A d \in posted :
        /\ d.source = "cash" => d.name = CashName
        /\ d.name = CashName => d.source = "cash" \/ CashName \in Names

-----------------------------------------------------------------------------
(* Known not to hold; see the README *)

\* The server's validation of a deposit: amount, name and IBAN are in range.
Accepted(d) ==
    /\ d.amount > 0
    /\ d.ibanLength # None => d.ibanLength \in 15..34

\* What the form lets through, the server's validation of the body accepts.
FormAgreesWithServer == \A d \in posted : Accepted(d)
=============================================================================
