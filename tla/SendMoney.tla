----------------------------- MODULE SendMoney -----------------------------
(***************************************************************************)
(* The "Send Money" dialog: two forms, a confirmation, and the transfers   *)
(* it posts.  A dialog can be closed while its transfer is in flight and   *)
(* opened again; every opening is a new instance with blank state.         *)
(***************************************************************************)
EXTENDS Integers, FiniteSets, Sequences

CONSTANTS
    None,           \* nothing chosen, nothing typed
    Accounts,       \* the accounts query
    CachedBalance,  \* its balances
    Recipients,     \* the saved recipients; a name stands for who bears it
    WithIban,       \* the saved recipients whose IBAN is valid
    Amounts,        \* what can be typed as an amount
    Prefills,       \* recipients a caller may prefill the dialog with, or None
    MaxDialogs,     \* bound: openings of the dialog
    MaxCalls        \* bound: transfers posted

SendAssumption ==
    /\ None \notin Accounts \cup Recipients
    /\ Accounts \cap Recipients = {}
    /\ CachedBalance \in [Accounts -> Int]
    /\ WithIban \subseteq Recipients
    /\ Amounts \subseteq Nat
    /\ Prefills \subseteq Recipients \cup {None}
    /\ MaxDialogs \in Nat /\ MaxCalls \in Nat

VARIABLES
    dialog,     \* how many dialogs were opened; the last one is the current
    open,       \* is it still on the screen
    prefill,    \* whom it was opened for
    form,       \* the form "To Recipient", and which tab is chosen
    own,        \* the form "Between My Accounts"
    confirm,    \* confirmPayload
    calls       \* the transfers posted so far, in order

vars == <<dialog, open, prefill, form, own, confirm, calls>>

AccountChoice == Accounts \cup {None}
NameText == Recipients \cup {None}
AmountText == Amounts \cup {0}

\* The body of POST /api/transfers; to is a recipient, an account or None.
Request == [from: Accounts, to: Recipients \cup Accounts \cup {None},
            amount: AmountText]

\* What the confirmation asks: a request, and the payee its label names.
Payload == [request: Request, label: Recipients \cup Accounts]

\* Of an IBAN only its validity matters: it is never sent.
Form == [tab: {"recipient", "own"}, selected: NameText, name: NameText,
         iban: BOOLEAN, from: AccountChoice, amount: AmountText]
OwnForm == [from: AccountChoice, to: AccountChoice, amount: AmountText]

\* sent: the server has it; done: executed; then the answer arrives, or not.
Phase == {"sent", "done", "refused", "succeeded", "failed"}
Call == [dialog: Nat, request: Request, phase: Phase, executed: BOOLEAN]

TypeOK ==
    /\ dialog \in Nat
    /\ open \in BOOLEAN
    /\ prefill \in NameText
    /\ form \in Form
    /\ own \in OwnForm
    /\ confirm \in Payload \cup {None}
    /\ calls \in Seq(Call)

BlankForm(p) ==
    [tab |-> "recipient", selected |-> None, name |-> p,
     iban |-> p \in WithIban, from |-> None, amount |-> 0]
BlankOwn == [from |-> None, to |-> None, amount |-> 0]

InFlight(c) == calls[c].phase \in {"sent", "done", "refused"}

\* isPending of this dialog's useTransfer.
Pending == \E c \in DOMAIN calls : calls[c].dialog = dialog /\ InFlight(c)

Init ==
    /\ dialog = 0
    /\ open = FALSE
    /\ prefill = None
    /\ form = BlankForm(None)
    /\ own = BlankOwn
    /\ confirm = None
    /\ calls = <<>>

-----------------------------------------------------------------------------
(* Opening, closing, and the two forms. *)

Open(p) ==
    /\ ~open /\ dialog < MaxDialogs
    /\ dialog' = dialog + 1
    /\ open' = TRUE
    /\ prefill' = p
    /\ form' = BlankForm(p)
    /\ own' = BlankOwn
    /\ confirm' = None
    /\ UNCHANGED calls

\* The state of the dialog goes with it.
Unmounted ==
    /\ open' = FALSE
    /\ prefill' = None
    /\ form' = BlankForm(None)
    /\ own' = BlankOwn
    /\ confirm' = None
    /\ UNCHANGED dialog

\* Escape, a click outside or Cancel; nothing waits for the answer.
Close == open /\ Unmounted /\ UNCHANGED calls

Editing == open /\ confirm = None
KeepForms == UNCHANGED <<dialog, open, prefill, confirm, calls>>

ChooseTab(t) ==
    /\ Editing
    /\ form' = [form EXCEPT !.tab = t]
    /\ KeepForms /\ UNCHANGED own

\* The select is not rendered for a prefilled dialog.
RecipientSelectShown == prefill = None /\ Recipients # {}

\* Choosing a recipient fills in name and IBAN, "Enter manually" blanks them.
HandleRecipientSelect(r) ==
    /\ Editing /\ form.tab = "recipient" /\ RecipientSelectShown
    /\ form' = [form EXCEPT !.selected = r, !.name = r,
                            !.iban = r \in WithIban]
    /\ KeepForms /\ UNCHANGED own

\* Name and IBAN stay editable, whatever is selected.
TypePayee ==
    /\ Editing /\ form.tab = "recipient"
    /\ \/ \E n \in NameText : form' = [form EXCEPT !.name = n]
       \/ \E valid \in BOOLEAN : form' = [form EXCEPT !.iban = valid]
    /\ KeepForms /\ UNCHANGED own

TypeSource ==
    /\ Editing /\ form.tab = "recipient"
    /\ \E a \in AccountChoice : form' = [form EXCEPT !.from = a]
    /\ KeepForms /\ UNCHANGED own

TypeAmount ==
    /\ Editing /\ form.tab = "recipient"
    /\ \E x \in AmountText : form' = [form EXCEPT !.amount = x]
    /\ KeepForms /\ UNCHANGED own

\* Choosing another source leaves the destination chosen before as it is.
OwnFrom ==
    /\ Editing /\ form.tab = "own"
    /\ \E a \in AccountChoice : own' = [own EXCEPT !.from = a]
    /\ KeepForms /\ UNCHANGED form

\* The options leave out the source.
OwnTo ==
    /\ Editing /\ form.tab = "own"
    /\ \E a \in AccountChoice \ ({own.from} \ {None}) : own' = [own EXCEPT !.to = a]
    /\ KeepForms /\ UNCHANGED form

OwnAmount ==
    /\ Editing /\ form.tab = "own"
    /\ \E x \in AmountText : own' = [own EXCEPT !.amount = x]
    /\ KeepForms /\ UNCHANGED form

-----------------------------------------------------------------------------
(* Submitting asks for confirmation; confirming posts the transfer. *)

\* Regression: the name may be left empty.
RecipientFormNameless == form.from # None /\ form.iban /\ form.amount > 0

\* sendMoneySchema
RecipientFormValid ==
    /\ form.from # None
    /\ form.name # None
    /\ form.iban
    /\ form.amount > 0

\* ownTransferSchema
OwnFormValid == own.from # None /\ own.to # None /\ own.amount > 0

HandleSubmitRecipient ==
    /\ Editing /\ form.tab = "recipient"
    /\ RecipientFormValid
    /\ form.amount <= CachedBalance[form.from]
    /\ confirm' = [request |-> [from |-> form.from, to |-> form.selected,
                                amount |-> form.amount],
                   label |-> form.name]
    /\ UNCHANGED <<dialog, open, prefill, form, own, calls>>

\* Regression: the options of "To" are trusted to differ from the source.
HandleSubmitOwnUnchecked ==
    /\ Editing /\ form.tab = "own"
    /\ OwnFormValid
    /\ own.amount <= CachedBalance[own.from]
    /\ confirm' = [request |-> own, label |-> own.to]
    /\ UNCHANGED <<dialog, open, prefill, form, own, calls>>

HandleSubmitOwn ==
    /\ Editing /\ form.tab = "own"
    /\ own.from # own.to
    /\ OwnFormValid
    /\ own.amount <= CachedBalance[own.from]
    /\ confirm' = [request |-> own, label |-> own.to]
    /\ UNCHANGED <<dialog, open, prefill, form, own, calls>>

\* Regression: "Back" works while the transfer is in flight.
BackAnyTime ==
    /\ open /\ confirm # None
    /\ confirm' = None
    /\ UNCHANGED <<dialog, open, prefill, form, own, calls>>

Back ==
    /\ open /\ confirm # None /\ ~Pending
    /\ confirm' = None
    /\ UNCHANGED <<dialog, open, prefill, form, own, calls>>

HandleConfirm ==
    /\ open /\ confirm # None /\ ~Pending
    /\ Len(calls) < MaxCalls
    /\ calls' = Append(calls, [dialog |-> dialog, request |-> confirm.request,
                               phase |-> "sent", executed |-> FALSE])
    /\ UNCHANGED <<dialog, open, prefill, form, own, confirm>>

\* The server executes the transfer, or refuses it; without a destination it
\* always refuses.
Server(c) ==
    /\ calls[c].phase = "sent"
    /\ \/ /\ calls[c].request.to # None
          /\ calls' = [calls EXCEPT ![c].phase = "done", ![c].executed = TRUE]
       \/ calls' = [calls EXCEPT ![c].phase = "refused"]
    /\ UNCHANGED <<dialog, open, prefill, form, own, confirm>>

\* The callbacks given to mutate run only for the dialog that called it, and
\* only while it is mounted.
OwnDialog(c) == open /\ calls[c].dialog = dialog

\* Regression: the answer closes whatever dialog is open.
SucceedAnyDialog(c) ==
    /\ calls[c].phase = "done"
    /\ calls' = [calls EXCEPT ![c].phase = "succeeded"]
    /\ Unmounted

Succeed(c) ==
    /\ calls[c].phase = "done"
    /\ calls' = [calls EXCEPT ![c].phase = "succeeded"]
    /\ IF OwnDialog(c) THEN Unmounted
       ELSE UNCHANGED <<dialog, open, prefill, form, own, confirm>>

\* A refusal, or no answer at all: the request or its answer was lost.
Fail(c) ==
    /\ InFlight(c)
    /\ calls' = [calls EXCEPT ![c].phase = "failed"]
    /\ confirm' = IF OwnDialog(c) THEN None ELSE confirm
    /\ UNCHANGED <<dialog, open, prefill, form, own>>

Next ==
    \/ \E p \in Prefills : Open(p)
    \/ Close
    \/ \E t \in {"recipient", "own"} : ChooseTab(t)
    \/ \E r \in NameText : HandleRecipientSelect(r)
    \/ TypePayee \/ TypeSource \/ TypeAmount
    \/ OwnFrom \/ OwnTo \/ OwnAmount
    \/ HandleSubmitRecipient \/ HandleSubmitOwn \/ Back \/ HandleConfirm
    \/ \E c \in DOMAIN calls : Server(c) \/ Succeed(c) \/ Fail(c)

Spec == Init /\ [][Next]_vars

-----------------------------------------------------------------------------
(* Properties *)

\* A transfer between own accounts never goes back to its source, although
\* changing the source does not clear the destination chosen before.
NeverToItself == \A c \in DOMAIN calls : calls[c].request.from # calls[c].request.to

\* While its transfer is in flight, an open dialog keeps showing that transfer:
\* the user cannot go back and change what is being sent.
PendingOnScreen ==
    \A c \in DOMAIN calls :
        InFlight(c) /\ OwnDialog(c)
            => confirm # None /\ confirm.request = calls[c].request

\* An answer that arrives late does not close a dialog opened since.
ClosedByOwnAnswer ==
    [][\A c \in DOMAIN calls :
           /\ InFlight(c) /\ calls'[c].phase = "succeeded"
           /\ open /\ calls[c].dialog # dialog
           => open']_vars

\* "Send <amount> to <name>?": the money goes to the one the question names.
\* It does not: run label.
LabelNamesPayee ==
    \A c \in DOMAIN calls :
        calls[c].executed /\ open /\ calls[c].dialog = dialog /\ confirm # None
            => confirm.label = calls[c].request.to

\* A transfer sent again after an error moves the money once.  It does not: run
\* sent_twice.
DebitedOnce ==
    \A c, d \in DOMAIN calls :
        /\ c < d
        /\ calls[c].request = calls[d].request
        /\ calls[c].dialog = calls[d].dialog
        /\ calls[c].phase = "failed"
        => ~(calls[c].executed /\ calls[d].executed)

-----------------------------------------------------------------------------
(* Known not to hold; see the README *)

\* What a dialog asks the user to confirm says where the money goes.
DestinationNamed == confirm # None => confirm.request.to # None
=============================================================================
