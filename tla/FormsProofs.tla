---------------------------- MODULE FormsProofs ----------------------------
(***************************************************************************)
(* What holds of the forms for any accounts, recipients, amounts, profiles *)
(* and days, however often they are opened and however many requests they  *)
(* send.                                                                   *)
(***************************************************************************)
EXTENDS Forms, SumProofs, SequenceTheorems, TLAPS

-----------------------------------------------------------------------------
(* The send-money dialog *)

\* What is asked belongs to an open dialog and moves money somewhere else.
ConfirmSound ==
    confirm # None => open /\ confirm.request.from # confirm.request.to

\* A dialog number is used once.
DialogsOpened == \A c \in DOMAIN calls : calls[c].dialog <= dialog

\* A dialog has one transfer in flight.
OneInFlight ==
    \A c, d \in DOMAIN calls :
        InFlight(c) /\ InFlight(d) /\ calls[c].dialog = calls[d].dialog => c = d

\* The inductive invariant: the one that is confirmed was checked when it was
\* submitted, and there is no second one that an answer could leave behind.
IInv ==
    /\ TypeOK
    /\ ConfirmSound
    /\ DialogsOpened
    /\ OneInFlight
    /\ NeverToItself
    /\ PendingOnScreen

-----------------------------------------------------------------------------
(* Every step keeps the types. *)

LEMMA BlankTyped ==
    ASSUME SendAssumption
    PROVE  /\ \A p \in NameText : BlankForm(p) \in Form
           /\ BlankOwn \in OwnForm
<1>1. \A p \in NameText : (p \in WithIban) \in BOOLEAN
  OBVIOUS
<1> QED
  BY <1>1 DEF SendAssumption, BlankForm, BlankOwn, Form, OwnForm, NameText,
              AccountChoice, AmountText

\* Choices, texts and a new dialog keep the types of what is on the screen.
LEMMA ScreenTyped ==
    ASSUME SendAssumption, TypeOK, [Next]_vars
    PROVE  /\ form' \in Form /\ own' \in OwnForm
           /\ dialog' \in Nat /\ open' \in BOOLEAN /\ prefill' \in NameText
<1> DEFINE Typed == /\ form' \in Form /\ own' \in OwnForm
                    /\ dialog' \in Nat /\ open' \in BOOLEAN
                    /\ prefill' \in NameText
<1>0. BlankForm(None) \in Form /\ BlankOwn \in OwnForm /\ None \in NameText
  BY BlankTyped DEF NameText
<1>1. CASE UNCHANGED vars
  BY <1>1 DEF vars, TypeOK
<1>2. ASSUME NEW p \in Prefills, Open(p)
      PROVE  Typed
  <2>1. p \in NameText
    BY DEF SendAssumption, NameText
  <2> QED
    BY <1>2, <2>1, BlankTyped DEF Open, TypeOK
<1>3. ASSUME Unmounted
      PROVE  Typed
  BY <1>0, <1>3 DEF Unmounted, TypeOK
<1>4. ASSUME NEW t \in {"recipient", "own"}, ChooseTab(t)
      PROVE  Typed
  BY <1>4 DEF ChooseTab, KeepForms, TypeOK, Form
<1>5. ASSUME NEW r \in NameText, HandleRecipientSelect(r)
      PROVE  Typed
  <2>1. (r \in WithIban) \in BOOLEAN
    OBVIOUS
  <2> QED
    BY <1>5, <2>1 DEF HandleRecipientSelect, KeepForms, TypeOK, Form
<1>6. CASE TypePayee
  BY <1>6 DEF TypePayee, KeepForms, TypeOK, Form
<1>7. CASE TypeSource \/ TypeAmount
  BY <1>7 DEF TypeSource, TypeAmount, KeepForms, TypeOK, Form
<1>8. CASE OwnFrom \/ OwnTo \/ OwnAmount
  BY <1>8 DEF OwnFrom, OwnTo, OwnAmount, KeepForms, TypeOK, OwnForm
<1>9. CASE HandleSubmitRecipient \/ HandleSubmitOwn \/ Back \/ HandleConfirm
  BY <1>9 DEF HandleSubmitRecipient, HandleSubmitOwn, Back, HandleConfirm, TypeOK
<1>10. ASSUME NEW c \in DOMAIN calls, Server(c) \/ Succeed(c) \/ Fail(c)
       PROVE  Typed
  <2>1. CASE UNCHANGED <<dialog, open, prefill, form, own>>
    BY <2>1 DEF TypeOK
  <2> QED
    BY <1>3, <1>10, <2>1 DEF Server, Succeed, Fail
<1> QED
  BY <1>1, <1>2, <1>3, <1>4, <1>5, <1>6, <1>7, <1>8, <1>9, <1>10 DEF Next, Close

\* What a submission asks for is a request that moves money somewhere else.
LEMMA ConfirmTyped ==
    ASSUME SendAssumption, TypeOK, ConfirmSound, [Next]_vars
    PROVE  confirm' \in Payload \cup {None} /\ ConfirmSound'
<1> DEFINE Sound == confirm' \in Payload \cup {None} /\ ConfirmSound'
<1>1. CASE UNCHANGED <<confirm, open>>
  BY <1>1 DEF TypeOK, ConfirmSound
<1>2. CASE confirm' = None
  BY <1>2 DEF ConfirmSound
<1>3. CASE HandleSubmitRecipient
  BY <1>3 DEF HandleSubmitRecipient, Editing, RecipientFormValid, TypeOK, Form,
              NameText, AccountChoice, AmountText, Payload, Request,
              ConfirmSound, SendAssumption
<1>4. CASE HandleSubmitOwn
  BY <1>4 DEF HandleSubmitOwn, Editing, OwnFormValid, TypeOK, OwnForm,
              AccountChoice, AmountText, Payload, Request, ConfirmSound
<1>5. ASSUME NEW c \in DOMAIN calls, Server(c) \/ Succeed(c) \/ Fail(c)
      PROVE  Sound
  BY <1>1, <1>2, <1>5 DEF Server, Succeed, Fail, Unmounted
<1>6. ASSUME NEW p \in Prefills, Open(p)
      PROVE  Sound
  BY <1>2, <1>6 DEF Open
<1>7. ASSUME NEW t \in {"recipient", "own"}, ChooseTab(t)
      PROVE  Sound
  BY <1>1, <1>7 DEF ChooseTab, KeepForms
<1>8. ASSUME NEW r \in NameText, HandleRecipientSelect(r)
      PROVE  Sound
  BY <1>1, <1>8 DEF HandleRecipientSelect, KeepForms
<1>9. CASE TypePayee \/ TypeSource \/ TypeAmount \/ OwnFrom \/ OwnTo \/ OwnAmount
  BY <1>1, <1>9 DEF TypePayee, TypeSource, TypeAmount, OwnFrom, OwnTo, OwnAmount,
                    KeepForms
<1>10. CASE Close \/ Back \/ HandleConfirm
  BY <1>1, <1>2, <1>10 DEF Close, Unmounted, Back, HandleConfirm
<1> QED
  BY <1>1, <1>3, <1>4, <1>5, <1>6, <1>7, <1>8, <1>9, <1>10 DEF Next, vars

-----------------------------------------------------------------------------
(* What a step does to the transfers: it posts one, or moves one on. *)

\* A step that posts nothing: what was asked stays, what ended stays ended.
Kept ==
    /\ DOMAIN calls' = DOMAIN calls
    /\ \A c \in DOMAIN calls :
           /\ calls'[c].dialog = calls[c].dialog
           /\ calls'[c].request = calls[c].request
           /\ InFlight(c)' => InFlight(c)

\* The answer, the execution and the loss of a transfer change only its phase.
LEMMA CallMoves ==
    ASSUME TypeOK, NEW c \in DOMAIN calls, Server(c) \/ Succeed(c) \/ Fail(c)
    PROVE  /\ calls' \in Seq(Call) /\ Kept
           /\ Fail(c) => ~InFlight(c)'
<1>1. calls \in Seq(Call) /\ DOMAIN calls = 1 .. Len(calls) /\ calls[c] \in Call
  BY LenProperties, ElementOfSeq DEF TypeOK
<1>2. PICK e \in Call :
        /\ calls' = [calls EXCEPT ![c] = e]
        /\ e.dialog = calls[c].dialog
        /\ e.request = calls[c].request
        /\ e.phase \in {"sent", "done", "refused"} => InFlight(c)
        /\ Fail(c) => e.phase = "failed"
  <2>0. Fail(c) => calls'[c].phase = "failed"
    BY <1>1 DEF Fail, Call
  <2>1. CASE Server(c)
    <3>0. calls[c].phase = "sent"
      BY <2>1 DEF Server
    <3>1. CASE calls' = [calls EXCEPT ![c].phase = "done", ![c].executed = TRUE]
      <4> DEFINE e == [calls[c] EXCEPT !.phase = "done", !.executed = TRUE]
      <4>1. /\ e \in Call /\ e.phase = "done"
            /\ e.dialog = calls[c].dialog /\ e.request = calls[c].request
        BY <1>1 DEF Call, Phase
      <4>2. calls' = [calls EXCEPT ![c] = e]
        BY <3>1, <1>1, Zenon
      <4> HIDE DEF e
      <4>3. ~Fail(c)
        BY <1>1, <2>0, <4>1, <4>2
      <4> QED
        BY <3>0, <4>1, <4>2, <4>3 DEF InFlight
    <3>2. CASE calls' = [calls EXCEPT ![c].phase = "refused"]
      <4> DEFINE e == [calls[c] EXCEPT !.phase = "refused"]
      <4>1. /\ e \in Call /\ e.phase = "refused"
            /\ e.dialog = calls[c].dialog /\ e.request = calls[c].request
        BY <1>1 DEF Call, Phase
      <4>2. calls' = [calls EXCEPT ![c] = e]
        BY <3>2, <1>1, Zenon
      <4> HIDE DEF e
      <4>3. ~Fail(c)
        BY <1>1, <2>0, <4>1, <4>2
      <4> QED
        BY <3>0, <4>1, <4>2, <4>3 DEF InFlight
    <3> QED
      BY <2>1, <3>1, <3>2 DEF Server
  <2>2. CASE Succeed(c)
    <3> DEFINE e == [calls[c] EXCEPT !.phase = "succeeded"]
    <3>1. e \in Call
      BY <1>1 DEF Call, Phase
    <3> QED
      BY <1>1, <2>2, <3>1 DEF Succeed, InFlight, Call, Fail
  <2>3. CASE Fail(c)
    <3> DEFINE e == [calls[c] EXCEPT !.phase = "failed"]
    <3>1. e \in Call
      BY <1>1 DEF Call, Phase
    <3> QED
      BY <1>1, <2>3, <3>1 DEF Fail, InFlight, Call
  <2> QED
    BY <2>1, <2>2, <2>3
<1>3. /\ calls' \in Seq(Call)
      /\ Len(calls') = Len(calls)
      /\ \A d \in 1 .. Len(calls) : calls'[d] = IF d = c THEN e ELSE calls[d]
  BY <1>1, <1>2, ExceptSeq
<1>4. DOMAIN calls' = DOMAIN calls
  BY <1>1, <1>3, LenProperties
<1> QED
  BY <1>1, <1>2, <1>3, <1>4 DEF Kept, InFlight

LEMMA CallPosted ==
    ASSUME TypeOK, HandleConfirm
    PROVE  /\ calls' \in Seq(Call)
           /\ DOMAIN calls' = DOMAIN calls \cup {Len(calls) + 1}
           /\ \A c \in DOMAIN calls : calls'[c] = calls[c] /\ c # Len(calls) + 1
           /\ calls'[Len(calls) + 1].dialog = dialog
           /\ calls'[Len(calls) + 1].request = confirm.request
<1> DEFINE e == [dialog |-> dialog, request |-> confirm.request,
                 phase |-> "sent", executed |-> FALSE]
<1>1. e \in Call
  BY DEF HandleConfirm, TypeOK, Call, Payload, Phase
<1>2. calls' = Append(calls, e) /\ calls \in Seq(Call)
  BY DEF HandleConfirm, TypeOK
<1>3. /\ calls' \in Seq(Call)
      /\ Len(calls') = Len(calls) + 1
      /\ \A c \in 1 .. Len(calls) : calls'[c] = calls[c]
      /\ calls'[Len(calls) + 1] = e
  BY <1>1, <1>2, AppendProperties
<1>4. /\ DOMAIN calls = 1 .. Len(calls) /\ Len(calls) \in Nat
      /\ DOMAIN calls' = 1 .. Len(calls) + 1
  BY <1>2, <1>3, LenProperties
<1> QED
  BY <1>3, <1>4

\* Nothing but a confirmation posts a transfer.
LEMMA CallsKept ==
    ASSUME TypeOK, [Next]_vars
    PROVE  calls' \in Seq(Call) /\ (Kept \/ HandleConfirm)
<1>1. CASE UNCHANGED calls
  BY <1>1 DEF TypeOK, Kept, InFlight
<1>2. ASSUME NEW c \in DOMAIN calls, Server(c) \/ Succeed(c) \/ Fail(c)
      PROVE  calls' \in Seq(Call) /\ Kept
  BY <1>2, CallMoves
<1>3. CASE HandleConfirm
  BY <1>3, CallPosted
<1>4. CASE /\ Next
           /\ ~HandleConfirm
           /\ ~\E c \in DOMAIN calls : Server(c) \/ Succeed(c) \/ Fail(c)
  <2>1. UNCHANGED calls
    BY <1>4 DEF Next, Open, Close, ChooseTab, HandleRecipientSelect, TypePayee,
                TypeSource, TypeAmount, OwnFrom, OwnTo, OwnAmount, KeepForms,
                HandleSubmitRecipient, HandleSubmitOwn, Back
  <2> QED
    BY <1>1, <2>1
<1> QED
  BY <1>1, <1>2, <1>3, <1>4 DEF vars

-----------------------------------------------------------------------------
(* The inductive step. *)

LEMMA TypeStep ==
    ASSUME SendAssumption, TypeOK, ConfirmSound, [Next]_vars
    PROVE  TypeOK' /\ ConfirmSound'
BY ScreenTyped, ConfirmTyped, CallsKept DEF TypeOK

\* The confirmed request was checked against its own source when submitted.
LEMMA NeverToItselfStep ==
    ASSUME TypeOK, ConfirmSound, NeverToItself, [Next]_vars
    PROVE  NeverToItself'
<1>1. CASE Kept
  BY <1>1 DEF Kept, NeverToItself
<1>2. CASE HandleConfirm
  BY <1>2, CallPosted DEF HandleConfirm, ConfirmSound, NeverToItself
<1> QED
  BY <1>1, <1>2, CallsKept

LEMMA DialogNumbers ==
    ASSUME TypeOK
    PROVE  \A c \in DOMAIN calls : calls[c].dialog \in Nat
<1> SUFFICES ASSUME NEW c \in DOMAIN calls
             PROVE  calls[c].dialog \in Nat
  OBVIOUS
<1>1. calls \in Seq(Call) /\ c \in 1 .. Len(calls)
  BY LenProperties DEF TypeOK
<1>2. calls[c] \in Call
  BY <1>1, ElementOfSeq
<1> QED
  BY <1>2 DEF Call

\* A dialog number only grows, and a posted transfer bears the current one.
LEMMA DialogsOpenedStep ==
    ASSUME TypeOK, DialogsOpened, [Next]_vars
    PROVE  DialogsOpened'
<1>1. dialog \in Nat /\ dialog' \in Nat /\ dialog <= dialog'
  <2>1. UNCHANGED dialog \/ \E p \in Prefills : Open(p)
    BY DEF Next, vars, Close, Unmounted, ChooseTab, HandleRecipientSelect,
           TypePayee, TypeSource, TypeAmount, OwnFrom, OwnTo, OwnAmount,
           KeepForms, HandleSubmitRecipient, HandleSubmitOwn, Back,
           HandleConfirm, Server, Succeed, Fail
  <2>2. dialog \in Nat
    BY DEF TypeOK
  <2> QED
    BY <2>1, <2>2 DEF Open
<1>2. CASE Kept
  BY <1>1, <1>2, DialogNumbers DEF Kept, DialogsOpened
<1>3. CASE HandleConfirm
  BY <1>1, <1>3, DialogNumbers, CallPosted DEF HandleConfirm, DialogsOpened
<1> QED
  BY <1>2, <1>3, CallsKept

\* The dialog confirms again only when none of its own is in flight.
LEMMA OneInFlightStep ==
    ASSUME TypeOK, OneInFlight, [Next]_vars
    PROVE  OneInFlight'
<1>1. CASE Kept
  BY <1>1 DEF Kept, OneInFlight
<1>2. CASE HandleConfirm
  <2>1. \A c \in DOMAIN calls : calls[c].dialog = dialog => ~InFlight(c)
    BY <1>2 DEF HandleConfirm, Pending
  <2> QED
    BY <1>2, <2>1, CallPosted DEF OneInFlight, InFlight
<1> QED
  BY <1>1, <1>2, CallsKept

\* A step that leaves the screen as it is leaves what it shows in flight there.
LEMMA PendingOnScreenStep ==
    ASSUME TypeOK, ConfirmSound, DialogsOpened, OneInFlight, PendingOnScreen,
           [Next]_vars
    PROVE  PendingOnScreen'
<1>1. CASE ~open'
  BY <1>1 DEF PendingOnScreen, OwnDialog
<1>2. CASE Kept /\ UNCHANGED <<dialog, open, confirm>>
  BY <1>2 DEF Kept, PendingOnScreen, OwnDialog
<1>3. CASE HandleConfirm
  BY <1>3, CallPosted DEF HandleConfirm, PendingOnScreen, OwnDialog, InFlight
<1>4. ASSUME NEW p \in Prefills, Open(p), Kept
      PROVE  PendingOnScreen'
  <2>1. \A c \in DOMAIN calls : calls[c].dialog # dialog'
    BY <1>4, DialogNumbers DEF Open, DialogsOpened, TypeOK
  <2> QED
    BY <1>4, <2>1 DEF Kept, PendingOnScreen, OwnDialog
<1>5. CASE (HandleSubmitRecipient \/ HandleSubmitOwn \/ Back) /\ Kept
  <2>1. UNCHANGED <<dialog, open>>
    BY <1>5 DEF HandleSubmitRecipient, HandleSubmitOwn, Back
  <2>2. \A c \in DOMAIN calls : ~(InFlight(c) /\ OwnDialog(c))
    BY <1>5 DEF HandleSubmitRecipient, HandleSubmitOwn, Back, Editing,
                PendingOnScreen, Pending, OwnDialog
  <2> QED
    BY <1>5, <2>1, <2>2 DEF Kept, PendingOnScreen, OwnDialog
<1>6. ASSUME NEW c \in DOMAIN calls, Fail(c), OwnDialog(c)
      PROVE  PendingOnScreen'
  <2>1. Kept /\ ~InFlight(c)' /\ UNCHANGED <<dialog, open>>
    BY <1>6, CallMoves DEF Fail
  <2>2. \A d \in DOMAIN calls : OwnDialog(d) /\ InFlight(d) => d = c
    BY <1>6 DEF Fail, OwnDialog, OneInFlight
  <2> QED
    BY <2>1, <2>2 DEF Kept, PendingOnScreen, OwnDialog
<1>7. ASSUME NEW c \in DOMAIN calls, Server(c) \/ Succeed(c) \/ (Fail(c) /\ ~OwnDialog(c))
      PROVE  PendingOnScreen'
  <2>1. Kept
    BY <1>7, CallMoves
  <2> QED
    BY <1>1, <1>2, <1>7, <2>1 DEF Server, Succeed, Unmounted, Fail
<1>8. CASE Close
  BY <1>1, <1>8 DEF Close, Unmounted
<1>9. CASE Kept /\ KeepForms
  BY <1>2, <1>9 DEF KeepForms
<1>10. CASE UNCHANGED vars
  BY <1>2, <1>10 DEF vars, Kept, InFlight
<1> QED
  BY <1>3, <1>4, <1>5, <1>6, <1>7, <1>8, <1>9, <1>10, CallsKept
     DEF Next, ChooseTab, HandleRecipientSelect, TypePayee, TypeSource,
         TypeAmount, OwnFrom, OwnTo, OwnAmount

LEMMA Initially ==
    ASSUME SendAssumption, Init
    PROVE  IInv
<1>1. /\ DOMAIN calls = {}
      /\ calls \in Seq(Call)
  BY EmptySeq, LenProperties DEF Init
<1>2. BlankForm(None) \in Form /\ BlankOwn \in OwnForm
  BY BlankTyped DEF NameText
<1> QED
  BY <1>1, <1>2 DEF Init, IInv, TypeOK, NameText, ConfirmSound, DialogsOpened,
                    OneInFlight, NeverToItself, PendingOnScreen

LEMMA Inductive ==
    ASSUME SendAssumption, IInv, [Next]_vars
    PROVE  IInv'
BY TypeStep, NeverToItselfStep, DialogsOpenedStep, OneInFlightStep,
   PendingOnScreenStep DEF IInv

-----------------------------------------------------------------------------

\* However many dialogs are opened over one another's answers, each shows at
\* most one transfer in flight, the one it asked about.
THEOREM Invariance ==
    ASSUME SendAssumption
    PROVE  Spec => []IInv
<1>1. Init => IInv
  BY Initially
<1>2. IInv /\ [Next]_vars => IInv'
  BY Inductive
<1> QED
  BY <1>1, <1>2, PTL DEF Spec

\* The two forms, the confirmation and the posted requests keep their types.
THEOREM TypeCorrect ==
    ASSUME SendAssumption
    PROVE  Spec => []TypeOK
<1>1. IInv => TypeOK
  BY DEF IInv
<1> QED
  BY <1>1, Invariance, PTL

\* No posted transfer goes back to its source, for any choice of the selects.
THEOREM SentElsewhere ==
    ASSUME SendAssumption
    PROVE  Spec => []NeverToItself
<1>1. IInv => NeverToItself
  BY DEF IInv
<1> QED
  BY <1>1, Invariance, PTL

\* An open dialog keeps showing the transfer it has in flight.
THEOREM WaitsOnScreen ==
    ASSUME SendAssumption
    PROVE  Spec => []PendingOnScreen
<1>1. IInv => PendingOnScreen
  BY DEF IInv
<1> QED
  BY <1>1, Invariance, PTL

\* The answer of one dialog never closes another.
THEOREM LateAnswerClosesNothing ==
    ASSUME SendAssumption
    PROVE  Spec => ClosedByOwnAnswer
<1> DEFINE Late(c) == /\ InFlight(c) /\ calls'[c].phase = "succeeded"
                      /\ open /\ calls[c].dialog # dialog
           A == \A c \in DOMAIN calls : Late(c) => open'
<1>1. ASSUME IInv, Next
      PROVE  A
  <2> SUFFICES ASSUME NEW c \in DOMAIN calls, Late(c), ~open'
               PROVE  FALSE
    OBVIOUS
  <2>1. Close \/ \E d \in DOMAIN calls : Succeed(d) /\ OwnDialog(d)
    BY <1>1 DEF Next, Open, ChooseTab, HandleRecipientSelect, TypePayee,
                TypeSource, TypeAmount, OwnFrom, OwnTo, OwnAmount, KeepForms,
                HandleSubmitRecipient, HandleSubmitOwn, Back, HandleConfirm,
                Server, Succeed, Fail
  <2>2. CASE Close
    BY <2>2 DEF Close, InFlight
  <2>3. ASSUME NEW d \in DOMAIN calls, Succeed(d), OwnDialog(d)
        PROVE  FALSE
    <3>1. c # d
      BY <2>3 DEF OwnDialog
    <3>2. calls'[c] = calls[c]
      BY <2>3, <3>1 DEF Succeed
    <3> QED
      BY <3>2 DEF InFlight
  <2> QED
    BY <2>1, <2>2, <2>3
<1>2. IInv /\ [Next]_vars => [A]_vars
  BY <1>1
<1> QED
  BY <1>2, Invariance, PTL DEF Spec, ClosedByOwnAnswer

-----------------------------------------------------------------------------
(* A step of the composition is a step, or a stutter, of each form. *)

LEMMA FormsSteps ==
    ASSUME [FormsNext]_formsVars
    PROVE  /\ [Next]_vars
           /\ [Deposit!Next]_(Deposit!vars)
           /\ [Statement!Next]_(Statement!vars)
           /\ [ProfileForm!Next]_(ProfileForm!vars)
           /\ [Figure!Next]_input
  BY DEF FormsNext, formsVars, vars, depositVars, statementVars, profileVars,
         Deposit!vars, Statement!vars, ProfileForm!vars

-----------------------------------------------------------------------------
(* The deposit form *)

\* A source is named when it is chosen, and only a bank or a card by the user.
NamedBySource(d) ==
    /\ d.source = "cash" => d.name = Deposit!CashName
    /\ d.name = Deposit!CashName /\ d.name # None
           => d.source = "cash" \/ Deposit!CashName \in Names

CashInv ==
    /\ Deposit!TypeOK
    /\ NamedBySource(depositForm)
    /\ depositConfirm # None => NamedBySource(depositConfirm) /\ depositConfirm.name # None
    /\ \A d \in posted : NamedBySource(d) /\ d.name # None

LEMMA DepositConstants ==
    /\ None \notin DepositAccounts \cup Names
    /\ Lengths \subseteq Nat /\ DepositAmounts \subseteq Nat
  BY FormsAssumption DEF FormsAssumption, Deposit!DepositAssumption

LEMMA EmptyDeposit == Deposit!EmptyForm \in Deposit!Form /\ NamedBySource(Deposit!EmptyForm)
  BY DEF Deposit!EmptyForm, Deposit!Form, Deposit!Sources, Deposit!Iban, NamedBySource

LEMMA InitDeposit == Deposit!Init => CashInv
  BY EmptyDeposit DEF Deposit!Init, CashInv, Deposit!TypeOK

\* A form that is let through is a body the server can be sent.
LEMMA SubmittedDeposit ==
    ASSUME CashInv, Deposit!HandleSubmit
    PROVE  /\ depositConfirm' \in Deposit!Request
           /\ NamedBySource(depositConfirm') /\ depositConfirm'.name # None
<1> DEFINE iban == IF depositForm.source = "bank_transfer" THEN depositForm.iban ELSE None
<1>1. depositForm \in Deposit!Form /\ Deposit!FormValid
  BY DEF CashInv, Deposit!TypeOK, Deposit!HandleSubmit
<1>2. depositConfirm' = Deposit!Body(iban)
  BY DEF Deposit!HandleSubmit
<1>3. CASE iban = None
  BY <1>1, <1>2, <1>3 DEF Deposit!Body, Deposit!Form, Deposit!Request, Deposit!FormValid,
     CashInv, NamedBySource
<1>4. CASE iban # None
  <2>1. iban.length \in 15..34
    BY <1>1, <1>4 DEF Deposit!FormValid, Deposit!ValidateIban
  <2>2. Deposit!FormattedLength(iban.length) \in Nat
    BY <2>1 DEF Deposit!FormattedLength
  <2> QED
    BY <1>1, <1>2, <1>4, <2>2 DEF Deposit!Body, Deposit!Form, Deposit!Request,
       Deposit!FormValid, CashInv, NamedBySource
<1> QED
  BY <1>3, <1>4

LEMMA NextDeposit == CashInv /\ [Deposit!Next]_(Deposit!vars) => CashInv'
<1> SUFFICES ASSUME CashInv, [Deposit!Next]_(Deposit!vars)
             PROVE  CashInv'
  OBVIOUS
<1>1. CASE UNCHANGED Deposit!vars
  BY <1>1 DEF Deposit!vars, CashInv, Deposit!TypeOK, NamedBySource
<1>2. ASSUME Deposit!Unmounted, UNCHANGED posted
      PROVE  CashInv'
  BY <1>2, EmptyDeposit DEF Deposit!Unmounted, CashInv, Deposit!TypeOK
<1>3. CASE Deposit!Open
  BY <1>3 DEF Deposit!Open, CashInv, Deposit!TypeOK, NamedBySource
<1>4. CASE Deposit!Close \/ Deposit!Succeed
  BY <1>2, <1>4 DEF Deposit!Close, Deposit!Succeed
<1>5. CASE Deposit!Type
  <2>1. depositForm' \in Deposit!Form /\ NamedBySource(depositForm')
    <3> USE <1>5 DEF Deposit!Type, CashInv, Deposit!TypeOK, Deposit!Form, NamedBySource
    <3>1. CASE \E a \in DepositAccounts \cup {None} : depositForm' = [depositForm EXCEPT !.to = a]
      BY <3>1
    <3>2. CASE Deposit!NameShown /\ \E n \in Names \cup {None} :
                   depositForm' = [depositForm EXCEPT !.name = n]
      BY <3>2 DEF Deposit!NameShown
    <3>3. CASE Deposit!IbanShown /\ \E i \in Deposit!Iban :
                   depositForm' = [depositForm EXCEPT !.iban = i]
      BY <3>3
    <3>4. CASE \E x \in DepositAmounts \cup {0} : depositForm' = [depositForm EXCEPT !.amount = x]
      BY <3>4
    <3> QED
      BY <3>1, <3>2, <3>3, <3>4
  <2> QED
    BY <1>5, <2>1 DEF Deposit!Type, Deposit!Editing, CashInv, Deposit!TypeOK
<1>6. ASSUME NEW s \in Deposit!Sources, Deposit!HandleSourceChange(s)
      PROVE  CashInv'
  <2>1. depositForm' \in Deposit!Form /\ NamedBySource(depositForm')
    BY <1>6 DEF Deposit!HandleSourceChange, CashInv, Deposit!TypeOK, Deposit!Form,
       Deposit!Iban, NamedBySource
  <2> QED
    BY <1>6, <2>1 DEF Deposit!HandleSourceChange, Deposit!Editing, CashInv, Deposit!TypeOK
<1>7. CASE Deposit!HandleSubmit
  BY <1>7, SubmittedDeposit DEF Deposit!HandleSubmit, CashInv, Deposit!TypeOK, NamedBySource
<1>8. CASE Deposit!Back \/ Deposit!Fail
  BY <1>8 DEF Deposit!Back, Deposit!Fail, CashInv, Deposit!TypeOK, NamedBySource
<1>9. CASE Deposit!HandleConfirm
  BY <1>9 DEF Deposit!HandleConfirm, CashInv, Deposit!TypeOK, NamedBySource
<1> QED
  BY <1>1, <1>3, <1>4, <1>5, <1>6, <1>7, <1>8, <1>9 DEF Deposit!Next

\* Cash is posted under its own name, and nothing else is, whatever was typed
\* for the source chosen before.
THEOREM CashIsNamedCash == FormsSpec => []CashNamedCash
<1>1. FormsInit => CashInv
  BY InitDeposit DEF FormsInit
<1>2. CashInv /\ [FormsNext]_formsVars => CashInv'
  BY NextDeposit, FormsSteps
<1>3. CashInv => CashNamedCash
  BY DepositConstants DEF CashInv, Deposit!TypeOK, Deposit!Request, NamedBySource,
     CashNamedCash, Deposit!CashNamedCash
<1> QED
  BY <1>1, <1>2, <1>3, PTL DEF FormsSpec

-----------------------------------------------------------------------------
(* The statement forms *)

\* The mail of an e-mail that is on its way back as a success was delivered.
Delivered(a) ==
    asked[a].kind = "email" /\ (asked[a].phase \in {"sent", "ok"} \/ toasts[a] = "sent")
        => a \in inbox

StatementInv ==
    /\ Statement!TypeOK
    /\ Len(asked) <= MaxAsked
    /\ \A a \in 1..MaxAsked : a > Len(asked) => toasts[a] = "none"
    /\ \A a \in 1..Len(asked) : Delivered(a)

LEMMA StatementConstants ==
    /\ MaxAsked \in Nat
    /\ 1..MaxAsked \subseteq Nat
    /\ Statement!NoRange \in Statement!Range
<1>1. MaxAsked \in Nat
  BY FormsAssumption DEF FormsAssumption, Statement!StatementsAssumption
<1> QED
  BY <1>1 DEF Statement!Range

LEMMA InitStatements == Statement!Init => StatementInv
<1> SUFFICES ASSUME Statement!Init
             PROVE  StatementInv
  OBVIOUS
<1>1. asked \in Seq(Statement!Request) /\ Len(asked) = 0
  BY EmptySeq DEF Statement!Init
<1> QED
  BY <1>1, StatementConstants DEF Statement!Init, StatementInv, Statement!TypeOK

\* A request moves on in its place in the sequence.
LEMMA RequestMoves ==
    ASSUME NEW S, NEW s \in Seq(S), NEW a \in DOMAIN s, NEW e \in S
    PROVE  LET t == [s EXCEPT ![a] = e]
           IN  /\ t \in Seq(S) /\ Len(t) = Len(s)
               /\ \A b \in 1..Len(s) : t[b] = IF b = a THEN e ELSE s[b]
<1>1. DOMAIN s = 1..Len(s)
  BY LenProperties
<1> QED
  BY <1>1, ExceptSeq

\* A step that only moves request a on, and delivers it when it says so.
LEMMA StatementMoved ==
    ASSUME StatementInv, NEW a \in DOMAIN asked, NEW phase \in Statement!Phase,
           asked' = [asked EXCEPT ![a].phase = phase],
           UNCHANGED range,
           inbox' \in {inbox, inbox \cup {a}},
           toasts' \in {toasts, [toasts EXCEPT ![a] = "sent"], [toasts EXCEPT ![a] = "failed"]},
           asked[a].kind = "email"
               /\ (phase \in {"sent", "ok"} \/ toasts'[a] = "sent")
               => a \in inbox'
    PROVE  StatementInv'
<1>1. asked \in Seq(Statement!Request) /\ DOMAIN asked = 1..Len(asked)
      /\ asked[a] \in Statement!Request /\ Len(asked) \in Nat
  BY LenProperties, ElementOfSeq DEF StatementInv, Statement!TypeOK
<1>2. a \in 1..MaxAsked /\ a <= Len(asked)
  BY <1>1, StatementConstants DEF StatementInv
<1>3. PICK e \in Statement!Request :
        asked' = [asked EXCEPT ![a] = e] /\ e.kind = asked[a].kind /\ e.phase = phase
  <2> DEFINE e == [asked[a] EXCEPT !.phase = phase]
  <2>1. e \in Statement!Request /\ e.kind = asked[a].kind /\ e.phase = phase
    BY <1>1 DEF Statement!Request
  <2>2. asked' = [asked EXCEPT ![a] = e]
    OBVIOUS
  <2> QED
    BY <2>1, <2>2
<1>4. /\ asked' \in Seq(Statement!Request) /\ Len(asked') = Len(asked)
      /\ \A b \in 1..Len(asked) : asked'[b] = IF b = a THEN e ELSE asked[b]
  BY <1>1, <1>3, RequestMoves
<1>5. Statement!TypeOK'
  BY <1>2, <1>4 DEF StatementInv, Statement!TypeOK
<1>6. \A b \in 1..MaxAsked : b # a => toasts'[b] = toasts[b]
  BY <1>2 DEF StatementInv, Statement!TypeOK
<1>7. \A b \in 1..MaxAsked : b > Len(asked') => toasts'[b] = "none"
  BY <1>2, <1>4, <1>6, StatementConstants DEF StatementInv
<1>8. ASSUME NEW b \in 1..Len(asked')
      PROVE  Delivered(b)'
  <2>1. b \in 1..Len(asked) /\ b \in 1..MaxAsked
    BY <1>1, <1>4, StatementConstants DEF StatementInv
  <2>2. CASE b = a
    BY <1>3, <1>4, <2>1, <2>2 DEF Delivered
  <2>3. CASE b # a
    BY <1>4, <1>6, <2>1, <2>3 DEF StatementInv, Delivered
  <2> QED
    BY <2>2, <2>3
<1> QED
  BY <1>4, <1>5, <1>7, <1>8 DEF StatementInv

LEMMA StatementAsked ==
    ASSUME StatementInv, NEW f \in StatementForms, NEW kind \in {"pdf", "email"},
           Statement!Ask(f, kind)
    PROVE  StatementInv'
<1> DEFINE r == range[f]
           e == [form |-> f, kind |-> kind, from |-> r.from, to |-> r.to, phase |-> "server"]
<1>1. r \in Statement!Range /\ r.from # None /\ r.to # None
  BY DEF StatementInv, Statement!TypeOK, Statement!Ask, Statement!CanExport,
         Statement!DateRangeValid
<1>2. r.from \in Statement!Days /\ r.to \in Statement!Days
  <2>1. Today \in Nat
    BY FormsAssumption DEF FormsAssumption, Statement!StatementsAssumption
  <2> QED
    BY <1>1, <2>1 DEF Statement!Range, Statement!Days, Statement!NoRange
<1>3. e \in Statement!Request
  BY <1>2 DEF Statement!Request, Statement!Phase
<1>4. asked \in Seq(Statement!Request) /\ asked' = Append(asked, e) /\ Len(asked) \in Nat
      /\ Len(asked) < MaxAsked
  BY LenProperties DEF StatementInv, Statement!TypeOK, Statement!Ask
<1>5. /\ asked' \in Seq(Statement!Request) /\ Len(asked') = Len(asked) + 1
      /\ \A b \in 1..Len(asked) : asked'[b] = asked[b]
      /\ asked'[Len(asked) + 1] = e
  BY <1>3, <1>4, AppendProperties
<1>6. UNCHANGED <<range, inbox, toasts>>
  BY DEF Statement!Ask
<1>7. PICK n : n = Len(asked) + 1
  OBVIOUS
<1>8. n \in 1..MaxAsked /\ toasts[n] = "none" /\ asked'[n] = e
  BY <1>4, <1>5, <1>7, StatementConstants DEF StatementInv
<1>9. Delivered(n)'
  BY <1>6, <1>8 DEF Delivered
<1> HIDE DEF e
<1>10. \A b \in 1..Len(asked') : Delivered(b)'
  <2> SUFFICES ASSUME NEW b \in 1..Len(asked')
               PROVE  Delivered(b)'
    OBVIOUS
  <2>1. b \in 1..Len(asked) \/ b = n
    BY <1>4, <1>5, <1>7
  <2>2. CASE b \in 1..Len(asked)
    BY <1>5, <1>6, <2>2 DEF StatementInv, Delivered
  <2> QED
    BY <1>9, <2>1, <2>2
<1> QED
  BY <1>4, <1>5, <1>6, <1>10, StatementConstants DEF StatementInv, Statement!TypeOK

LEMMA StatementLeft ==
    ASSUME StatementInv, NEW f \in StatementForms, Statement!Leave(f)
    PROVE  StatementInv'
<1> DEFINE left(a) == IF asked[a].form = f THEN [asked[a] EXCEPT !.form = None] ELSE asked[a]
<1>1. asked \in Seq(Statement!Request) /\ DOMAIN asked = 1..Len(asked) /\ Len(asked) \in Nat
  BY LenProperties DEF StatementInv, Statement!TypeOK
<1>2. \A a \in 1..Len(asked) : /\ left(a) \in Statement!Request
                               /\ left(a).kind = asked[a].kind
                               /\ left(a).phase = asked[a].phase
  <2> TAKE a \in 1..Len(asked)
  <2>1. asked[a] \in Statement!Request
    BY <1>1, ElementOfSeq
  <2> QED
    BY <2>1 DEF Statement!Request
<1>3. asked' = [a \in 1..Len(asked) |-> left(a)]
  BY <1>1 DEF Statement!Leave
<1> HIDE DEF left
<1>4. asked' \in Seq(Statement!Request) /\ Len(asked') = Len(asked)
  <2>1. asked' \in [1..Len(asked) -> Statement!Request]
    BY <1>2, <1>3
  <2>2. asked' \in Seq(Statement!Request)
    BY <1>1, <2>1, SeqDef
  <2> QED
    BY <1>1, <2>1, <2>2, LenProperties
<1>5. range' \in [StatementForms -> Statement!Range] /\ UNCHANGED <<inbox, toasts>>
  BY StatementConstants DEF Statement!Leave, StatementInv, Statement!TypeOK
<1> QED
  BY <1>2, <1>3, <1>4, <1>5 DEF StatementInv, Statement!TypeOK, Delivered

LEMMA NextStatements == StatementInv /\ [Statement!Next]_(Statement!vars) => StatementInv'
<1> SUFFICES ASSUME StatementInv, [Statement!Next]_(Statement!vars)
             PROVE  StatementInv'
  OBVIOUS
<1>1. CASE UNCHANGED Statement!vars
  BY <1>1 DEF Statement!vars, StatementInv, Statement!TypeOK, Delivered
<1>2. ASSUME NEW f \in StatementForms, NEW r \in Statement!Range, Statement!ChooseRange(f, r)
      PROVE  StatementInv'
  BY <1>2 DEF Statement!ChooseRange, StatementInv, Statement!TypeOK, Delivered
<1>3. ASSUME NEW f \in StatementForms,
             Statement!HandlePdf(f) \/ Statement!HandleEmailPdf(f) \/ Statement!Leave(f)
      PROVE  StatementInv'
  BY <1>3, StatementAsked, StatementLeft DEF Statement!HandlePdf, Statement!HandleEmailPdf
<1>4. ASSUME NEW a \in DOMAIN asked,
             \/ Statement!PrepareFails(a) \/ Statement!Prepared(a) \/ Statement!MailAccepted(a)
             \/ Statement!MailRefused(a) \/ Statement!MailAnswered(a) \/ Statement!MailLost(a)
             \/ Statement!Answered(a) \/ Statement!Lost(a)
      PROVE  StatementInv'
  <2>1. Delivered(a) /\ toasts \in [1..MaxAsked -> {"none", "sent", "failed"}]
        /\ a \in 1..MaxAsked
    <3>1. DOMAIN asked = 1..Len(asked) /\ Len(asked) \in Nat
      BY LenProperties DEF StatementInv, Statement!TypeOK
    <3> QED
      BY <3>1, StatementConstants DEF StatementInv, Statement!TypeOK
  <2>2. {"mail", "sent", "refused", "ok", "error", "over"} \subseteq Statement!Phase
    BY DEF Statement!Phase
  <2>3. asked[a].kind = "email" /\ toasts[a] = "sent" => a \in inbox
    BY <2>1 DEF Delivered
  <2>4. CASE Statement!PrepareFails(a)
    BY <2>1, <2>2, <2>3, <2>4, StatementMoved DEF Statement!PrepareFails, Statement!Step
  <2>5. CASE Statement!Prepared(a)
    <3>1. CASE asked[a].kind = "pdf"
      BY <2>1, <2>2, <2>3, <2>5, <3>1, StatementMoved DEF Statement!Prepared, Statement!Step
    <3>2. CASE asked[a].kind # "pdf"
      BY <2>1, <2>2, <2>3, <2>5, <3>2, StatementMoved DEF Statement!Prepared, Statement!Step
    <3> QED
      BY <3>1, <3>2
  <2>6. CASE Statement!MailAccepted(a)
    BY <2>1, <2>2, <2>3, <2>6, StatementMoved DEF Statement!MailAccepted, Statement!Step
  <2>7. CASE Statement!MailRefused(a)
    BY <2>1, <2>2, <2>3, <2>7, StatementMoved DEF Statement!MailRefused, Statement!Step
  <2>8. CASE Statement!MailAnswered(a)
    <3>1. CASE asked[a].phase = "sent"
      BY <2>1, <2>2, <2>3, <2>8, <3>1, StatementMoved DEF Statement!MailAnswered, Statement!Step, Delivered
    <3>2. CASE asked[a].phase # "sent"
      BY <2>1, <2>2, <2>3, <2>8, <3>2, StatementMoved DEF Statement!MailAnswered, Statement!Step
    <3> QED
      BY <3>1, <3>2
  <2>9. CASE Statement!MailLost(a)
    BY <2>1, <2>2, <2>3, <2>9, StatementMoved DEF Statement!MailLost, Statement!Step
  <2>10. CASE Statement!Answered(a)
    <3>1. CASE asked[a].phase = "ok"
      BY <2>1, <2>2, <2>10, <3>1, StatementMoved DEF Statement!Answered, Delivered
    <3>2. CASE asked[a].phase # "ok"
      BY <2>1, <2>2, <2>3, <2>10, <3>2, StatementMoved DEF Statement!Answered
    <3> QED
      BY <3>1, <3>2
  <2>11. CASE Statement!Lost(a)
    BY <2>1, <2>2, <2>3, <2>11, StatementMoved DEF Statement!Lost
  <2> QED
    BY <1>4, <2>4, <2>5, <2>6, <2>7, <2>8, <2>9, <2>10, <2>11
<1> QED
  BY <1>1, <1>2, <1>3, <1>4 DEF Statement!Next

\* Whatever is lost between the mail service, the server and the browser, "sent"
\* is only said of a mail that the service has taken.
THEOREM SentIsDelivered == FormsSpec => []SentMeansDelivered
<1>1. FormsInit => StatementInv
  BY InitStatements DEF FormsInit
<1>2. StatementInv /\ [FormsNext]_formsVars => StatementInv'
  BY NextStatements, FormsSteps
<1>3. StatementInv => SentMeansDelivered
  <2>1. StatementInv => DOMAIN asked = 1..Len(asked)
    BY LenProperties DEF StatementInv, Statement!TypeOK
  <2> QED
    BY <2>1 DEF StatementInv, Delivered, SentMeansDelivered, Statement!SentMeansDelivered
<1> QED
  BY <1>1, <1>2, <1>3, PTL DEF FormsSpec

-----------------------------------------------------------------------------
(* The account page *)

\* The open form has the picture that was acknowledged while it was open.
PictureInForm == editing /\ acked # None => profileForm.picture = acked

ProfileInv == ProfileForm!TypeOK /\ PictureInForm

ProfileEntry == ProfileForm!EntryOver(ProfileForm!Profile \cup {None})

LEMMA ProfileConstants ==
    /\ {Blank, InitialDetails} \subseteq Details
    /\ None \notin Details \cup Pictures
    /\ ProfileForm!BlankProfile \in ProfileForm!Profile
    /\ ProfileForm!Picture = Pictures \cup {None}
<1>1. ProfileForm!ProfileAssumption
  BY FormsAssumption DEF FormsAssumption
<1> QED
  BY <1>1 DEF ProfileForm!ProfileAssumption, ProfileForm!BlankProfile, ProfileForm!Profile,
     ProfileForm!Picture

LEMMA ProfileQueries ==
    ASSUME NEW e \in ProfileEntry, NEW x \in ProfileForm!Profile
    PROVE  /\ ProfileForm!Start(e, None) \in ProfileEntry
           /\ ProfileForm!Read(e, x) \in ProfileEntry
           /\ ProfileForm!Arrive(e, None) \in ProfileEntry
           /\ ProfileForm!Fail(e, None) \in ProfileEntry
           /\ ProfileForm!SetData(e, x) \in ProfileEntry
<1>1. e.error \in BOOLEAN /\ (e.error /\ e.data # None) \in BOOLEAN
  BY DEF ProfileEntry, ProfileForm!EntryOver
<1> QED
  BY <1>1 DEF ProfileEntry, ProfileForm!EntryOver, ProfileForm!Start, ProfileForm!Restart,
     ProfileForm!Idle, ProfileForm!Read, ProfileForm!Arrive, ProfileForm!Fail,
     ProfileForm!SetData

LEMMA ProfileOfEntry ==
    ASSUME ProfileForm!TypeOK
    PROVE  ProfileForm!ProfileToRequest \in ProfileForm!Profile
  BY ProfileConstants DEF ProfileForm!TypeOK, ProfileForm!EntryOver, ProfileForm!ProfileToRequest

LEMMA PicturedProfile ==
    ASSUME NEW x \in ProfileForm!Profile, NEW pic \in ProfileForm!Picture
    PROVE  [x EXCEPT !.picture = pic] \in ProfileForm!Profile
  BY DEF ProfileForm!Profile

LEMMA InitProfile == ProfileForm!Init => ProfileInv
<1> SUFFICES ASSUME ProfileForm!Init
             PROVE  ProfileInv
  OBVIOUS
<1>1. ProfileForm!NoEntry(None) \in ProfileEntry
  BY DEF ProfileEntry, ProfileForm!EntryOver, ProfileForm!NoEntry
<1>2. cache \in ProfileEntry
  BY <1>1, ProfileQueries, ProfileConstants
     DEF ProfileForm!Init, ProfileForm!MountQuery
<1>3. profile \in ProfileForm!Profile
  BY ProfileConstants DEF ProfileForm!Init, ProfileForm!Profile
<1>4. puts \in Seq(ProfileForm!Put)
  BY EmptySeq DEF ProfileForm!Init
<1> QED
  BY <1>2, <1>3, <1>4, ProfileConstants
     DEF ProfileForm!Init, ProfileInv, PictureInForm, ProfileForm!TypeOK, ProfileEntry

\* The hook posts one more request, or moves one on.
LEMMA PutPosted ==
    ASSUME ProfileForm!TypeOK, NEW kind \in {"save", "upload", "delete"},
           NEW body \in ProfileForm!Profile, ProfileForm!SaveProfile(kind, body)
    PROVE  /\ puts' \in Seq(ProfileForm!Put)
           /\ Len(puts') = Len(puts) + 1 /\ Len(puts) \in Nat
           /\ puts'[Len(puts')].kind = kind
           /\ puts'[Len(puts')].body = body
<1> DEFINE e == [kind |-> kind, body |-> body, phase |-> "sent"]
<1>1. e \in ProfileForm!Put
  BY DEF ProfileForm!Put
<1>2. puts \in Seq(ProfileForm!Put) /\ puts' = Append(puts, e)
  BY DEF ProfileForm!TypeOK, ProfileForm!SaveProfile
<1>3. /\ puts' \in Seq(ProfileForm!Put) /\ Len(puts') = Len(puts) + 1
      /\ puts'[Len(puts) + 1] = e
  BY <1>1, <1>2, AppendProperties
<1> QED
  BY <1>2, <1>3, LenProperties

LEMMA PutMoves ==
    ASSUME ProfileForm!TypeOK, NEW p \in DOMAIN puts,
           NEW phase \in {"sent", "done", "saved", "failed"},
           puts' = [puts EXCEPT ![p].phase = phase]
    PROVE  /\ puts[p] \in ProfileForm!Put
           /\ puts' \in Seq(ProfileForm!Put)
           /\ Len(puts') = Len(puts) /\ Len(puts) \in Nat
<1>1. puts \in Seq(ProfileForm!Put) /\ puts[p] \in ProfileForm!Put /\ Len(puts) \in Nat
  BY LenProperties, ElementOfSeq DEF ProfileForm!TypeOK
<1> DEFINE e == [puts[p] EXCEPT !.phase = phase]
<1>2. e \in ProfileForm!Put
  BY <1>1 DEF ProfileForm!Put
<1>3. puts' = [puts EXCEPT ![p] = e]
  OBVIOUS
<1> QED
  BY <1>1, <1>2, <1>3, RequestMoves

\* What a step does to the requests, beside moving one on.
Posted(kind) ==
    /\ Len(puts') = Len(puts) + 1
    /\ puts'[Len(puts')].kind = kind
    /\ kind = "save" => editing /\ puts'[Len(puts')].body = profileForm

LEMMA NextProfile ==
    ASSUME ProfileInv, [ProfileForm!Next]_(ProfileForm!vars)
    PROVE  /\ ProfileInv'
           /\ Len(puts) \in Nat
           /\ Len(puts') = Len(puts) \/ \E kind \in {"save", "upload", "delete"} : Posted(kind)
<1> DEFINE Sound == /\ ProfileInv'
                    /\ Len(puts') = Len(puts)
                         \/ \E kind \in {"save", "upload", "delete"} : Posted(kind)
<1>0. Len(puts) \in Nat
  BY LenProperties DEF ProfileInv, ProfileForm!TypeOK
<1>1. CASE UNCHANGED ProfileForm!vars
  BY <1>1 DEF ProfileForm!vars, ProfileInv, PictureInForm, ProfileForm!TypeOK
<1>2. CASE ProfileForm!StartEditing
  BY <1>2, ProfileOfEntry, ProfileConstants
     DEF ProfileForm!StartEditing, ProfileInv, PictureInForm, ProfileForm!TypeOK
<1>3. CASE ProfileForm!CancelEditing
  BY <1>0, <1>3 DEF ProfileForm!CancelEditing, ProfileInv, PictureInForm, ProfileForm!TypeOK
<1>4. CASE ProfileForm!HandleSave
  <2>1. ProfileForm!SaveProfile("save", profileForm) /\ profileForm \in ProfileForm!Profile
    BY <1>4 DEF ProfileForm!HandleSave, ProfileInv, ProfileForm!TypeOK
  <2>2. puts' \in Seq(ProfileForm!Put) /\ Posted("save")
    BY <1>4, <2>1, PutPosted DEF ProfileForm!HandleSave, ProfileInv, Posted
  <2> QED
    BY <1>4, <2>2 DEF ProfileForm!HandleSave, ProfileForm!formVars, ProfileInv, PictureInForm,
       ProfileForm!TypeOK
<1>5. CASE ProfileForm!HandleDeleteAvatar
  <2> DEFINE body == [ProfileForm!ProfileToRequest EXCEPT !.picture = None]
  <2>1. ProfileForm!SaveProfile("delete", body)
    BY <1>5 DEF ProfileForm!HandleDeleteAvatar
  <2>2. body \in ProfileForm!Profile
    BY ProfileOfEntry, PicturedProfile, ProfileConstants DEF ProfileInv
  <2>3. puts' \in Seq(ProfileForm!Put) /\ Posted("delete")
    BY <2>1, <2>2, PutPosted DEF ProfileInv, Posted
  <2> QED
    BY <1>5, <2>3, ProfileConstants DEF ProfileForm!HandleDeleteAvatar, ProfileForm!formVars,
       ProfileInv, PictureInForm, ProfileForm!TypeOK
<1>6. ASSUME NEW d \in Details, ProfileForm!TypeDetails(d)
      PROVE  Sound
  BY <1>6 DEF ProfileForm!TypeDetails, ProfileInv, PictureInForm, ProfileForm!TypeOK,
     ProfileForm!Profile
<1>7. ASSUME NEW pic \in Pictures, ProfileForm!HandleAvatarChange(pic)
      PROVE  Sound
  BY <1>7, ProfileOfEntry DEF ProfileForm!HandleAvatarChange, ProfileForm!formVars, ProfileInv,
     PictureInForm, ProfileForm!TypeOK
<1>8. ASSUME NEW r \in reading, ProfileForm!Compressed(r)
      PROVE  Sound
  <2> DEFINE body == [r.profile EXCEPT !.picture = r.picture]
  <2>1. ProfileForm!SaveProfile("upload", body)
    BY <1>8 DEF ProfileForm!Compressed
  <2>2. r.picture \in ProfileForm!Picture /\ r.profile \in ProfileForm!Profile
    BY ProfileConstants DEF ProfileInv, ProfileForm!TypeOK
  <2>3. body \in ProfileForm!Profile
    BY <2>2, PicturedProfile
  <2>4. puts' \in Seq(ProfileForm!Put) /\ Posted("upload")
    BY <2>1, <2>3, PutPosted DEF ProfileInv, Posted
  <2> QED
    BY <1>8, <2>2, <2>4 DEF ProfileForm!Compressed, ProfileForm!formVars, ProfileInv,
       PictureInForm, ProfileForm!TypeOK
<1>9. ASSUME NEW r \in reading, ProfileForm!CompressFails(r)
      PROVE  Sound
  BY <1>9 DEF ProfileForm!CompressFails, ProfileForm!formVars, ProfileInv, PictureInForm,
     ProfileForm!TypeOK
<1>10. ASSUME NEW p \in DOMAIN puts, ProfileForm!Upsert(p)
       PROVE  Sound
  <2>1. /\ puts[p] \in ProfileForm!Put /\ puts' \in Seq(ProfileForm!Put)
        /\ Len(puts') = Len(puts)
    BY <1>10, PutMoves DEF ProfileForm!Upsert, ProfileInv
  <2> QED
    BY <1>10, <2>1 DEF ProfileForm!Upsert, ProfileForm!formVars, ProfileForm!Put, ProfileInv,
       PictureInForm, ProfileForm!TypeOK
<1>11. ASSUME NEW p \in DOMAIN puts, ProfileForm!Saved(p)
       PROVE  Sound
  <2>1. /\ puts[p] \in ProfileForm!Put /\ puts' \in Seq(ProfileForm!Put)
        /\ Len(puts') = Len(puts)
    BY <1>11, PutMoves DEF ProfileForm!Saved, ProfileInv
  <2>2. puts[p].body \in ProfileForm!Profile /\ puts[p].body.picture \in ProfileForm!Picture
    BY <2>1 DEF ProfileForm!Put, ProfileForm!Profile
  <2>3. cache' \in ProfileEntry
    BY <1>11, <2>2, ProfileQueries DEF ProfileForm!Saved, ProfileInv, ProfileForm!TypeOK,
       ProfileEntry
  <2>4. /\ profileForm' \in ProfileForm!Profile /\ acked' \in ProfileForm!Picture
        /\ editing' \in BOOLEAN /\ PictureInForm'
    BY <1>11, <2>2, PicturedProfile DEF ProfileForm!Saved, ProfileForm!SavedCallback, ProfileInv,
       PictureInForm, ProfileForm!TypeOK, ProfileForm!Profile
  <2> QED
    BY <1>11, <2>1, <2>3, <2>4 DEF ProfileForm!Saved, ProfileInv, ProfileForm!TypeOK, ProfileEntry
<1>12. ASSUME NEW p \in DOMAIN puts, ProfileForm!SaveFails(p)
       PROVE  Sound
  <2>1. puts' \in Seq(ProfileForm!Put) /\ Len(puts') = Len(puts)
    BY <1>12, PutMoves DEF ProfileForm!SaveFails, ProfileInv
  <2> QED
    BY <1>12, <2>1, ProfileConstants DEF ProfileForm!SaveFails, ProfileForm!formVars, ProfileInv,
       PictureInForm, ProfileForm!TypeOK
<1>13. CASE ProfileForm!FetchProfile \/ ProfileForm!FetchEnds \/ ProfileForm!Focus
  <2>1. cache' \in ProfileEntry
    BY <1>13, ProfileQueries, ProfileConstants DEF ProfileForm!FetchProfile, ProfileForm!FetchEnds,
       ProfileForm!Focus, ProfileInv, ProfileForm!TypeOK, ProfileEntry
  <2>2. focuses' \in Nat
    BY <1>13 DEF ProfileForm!FetchProfile, ProfileForm!FetchEnds, ProfileForm!Focus, ProfileInv,
       ProfileForm!TypeOK
  <2>3. UNCHANGED <<profile, editing, profileForm, acked, preview, reading, puts>>
    BY <1>13 DEF ProfileForm!FetchProfile, ProfileForm!FetchEnds, ProfileForm!Focus,
       ProfileForm!formVars
  <2> QED
    BY <2>1, <2>2, <2>3 DEF ProfileInv, PictureInForm, ProfileForm!TypeOK, ProfileEntry
<1> QED
  BY <1>0, <1>1, <1>2, <1>3, <1>4, <1>5, <1>6, <1>7, <1>8, <1>9, <1>10, <1>11, <1>12, <1>13
     DEF ProfileForm!Next

LEMMA ProfileIsInvariant == FormsSpec => []ProfileInv
<1>1. FormsInit => ProfileInv
  BY InitProfile DEF FormsInit
<1>2. ProfileInv /\ [FormsNext]_formsVars => ProfileInv'
  BY NextProfile, FormsSteps
<1> QED
  BY <1>1, <1>2, PTL DEF FormsSpec

\* "Save Details" sends the picture that was set while the form was open.
THEOREM SavesKeepPicture == FormsSpec => SaveKeepsPicture
<1> DEFINE A == editing /\ acked # None /\ Len(puts') > Len(puts)
                    /\ puts'[Len(puts')].kind = "save"
                  => puts'[Len(puts')].body.picture = acked
<1>1. ASSUME ProfileInv, [FormsNext]_formsVars
      PROVE  [A]_(ProfileForm!vars)
  <2>1. /\ Len(puts) \in Nat
        /\ Len(puts') = Len(puts) \/ \E kind \in {"save", "upload", "delete"} : Posted(kind)
    BY <1>1, NextProfile, FormsSteps
  <2> QED
    BY <1>1, <2>1 DEF Posted, ProfileInv, PictureInForm
<1> QED
  BY <1>1, ProfileIsInvariant, PTL DEF FormsSpec, SaveKeepsPicture, ProfileForm!SaveKeepsPicture

-----------------------------------------------------------------------------
(* The pager *)

\* The pages around the current one, how many they are, and the ellipses.
Left(current) == IF current - 1 > 2 THEN current - 1 ELSE 2
Right(current, total) == IF current + 1 < total - 1 THEN current + 1 ELSE total - 1
Around(current, total) ==
    IF Left(current) <= Right(current, total) THEN Right(current, total) - Left(current) + 1 ELSE 0
GapBefore(current) == IF Left(current) > 2 THEN 1 ELSE 0
GapAfter(current, total) == IF Right(current, total) < total - 1 THEN 1 ELSE 0

\* What a pager of many pages shows, position by position.
LEMMA PagesShown ==
    ASSUME NEW total \in Nat, total > 7, NEW current \in 1..(total + 2)
    PROVE  LET pages == Figure!PageRange(current, total)
               a == GapBefore(current)
               n == Around(current, total)
           IN  /\ DOMAIN pages = 1..Len(pages)
               /\ Len(pages) = 2 + a + n + GapAfter(current, total)
               /\ \A i \in 1..Len(pages) :
                      pages[i] = IF i = 1 THEN 1
                                 ELSE IF i = Len(pages) THEN total
                                 ELSE IF i \in (2 + a)..(1 + a + n) THEN Left(current) + i - 2 - a
                                 ELSE Figure!Gap
<1> DEFINE left == Left(current)
           right == Right(current, total)
           a == GapBefore(current)
           n == Around(current, total)
           b == GapAfter(current, total)
           s2 == IF left > 2 THEN <<Figure!Gap>> ELSE <<>>
           s3 == [i \in 1..(right - left + 1) |-> left + i - 1]
           s4 == IF right < total - 1 THEN <<Figure!Gap>> ELSE <<>>
           pages == Figure!PageRange(current, total)
<1>1. left \in Nat /\ right \in Nat /\ a \in {0, 1} /\ b \in {0, 1} /\ n \in Nat
  BY DEF Left, Right, Around, GapBefore, GapAfter
<1>2. pages = <<1>> \o s2 \o s3 \o s4 \o <<total>>
  <2>1. pages = IF total <= 7 THEN [i \in 1..total |-> i]
                ELSE <<1>> \o s2 \o s3 \o s4 \o <<total>>
    BY Zenon DEF Figure!PageRange, Left, Right
  <2>2. ~(total <= 7)
    OBVIOUS
  <2> QED
    BY <2>1, <2>2, Zenon
<1>3. s2 \in Seq(Nat) /\ Len(s2) = a /\ \A i \in 1..a : s2[i] = Figure!Gap
  BY <1>1, EmptySeq DEF GapBefore, Figure!Gap
<1>4. s4 \in Seq(Nat) /\ Len(s4) = b /\ \A i \in 1..b : s4[i] = Figure!Gap
  BY <1>1, EmptySeq DEF GapAfter, Figure!Gap
<1>5. s3 \in Seq(Nat) /\ Len(s3) = n /\ \A i \in 1..n : s3[i] = left + i - 1
  <2>1. 1..(right - left + 1) = 1..n
    BY <1>1 DEF Around
  <2>2. s3 \in [1..n -> Nat]
    BY <1>1, <2>1
  <2>3. s3 \in Seq(Nat)
    BY <1>1, <2>2, SeqDef
  <2>4. \A i \in 1..n : s3[i] = left + i - 1
    BY <2>1
  <2> HIDE DEF s3, n
  <2>5. Len(s3) = n
    BY <1>1, <2>2, <2>3, LenProperties
  <2> QED
    BY <2>3, <2>4, <2>5
<1>6. <<1>> \in Seq(Nat) /\ Len(<<1>>) = 1 /\ <<1>>[1] = 1
  OBVIOUS
<1>7. <<total>> \in Seq(Nat) /\ Len(<<total>>) = 1 /\ <<total>>[1] = total
  OBVIOUS
<1> HIDE DEF s2, s3, s4, left, right, a, b, n
<1>8. /\ <<1>> \o s2 \in Seq(Nat) /\ Len(<<1>> \o s2) = 1 + a
      /\ \A i \in 1..(1 + a) : (<<1>> \o s2)[i] = IF i = 1 THEN 1 ELSE Figure!Gap
  <2> DEFINE t == <<1>> \o s2
  <2>1. /\ t \in Seq(Nat) /\ Len(t) = 1 + a
        /\ \A i \in 1..(1 + a) : t[i] = IF i <= 1 THEN <<1>>[i] ELSE s2[i - 1]
    BY <1>3, <1>6, ConcatProperties
  <2>2. \A i \in 1..(1 + a) : t[i] = IF i = 1 THEN 1 ELSE Figure!Gap
    <3> TAKE i \in 1..(1 + a)
    <3>1. i = 1 \/ (i > 1 /\ i - 1 \in 1..a)
      BY <1>1
    <3> QED
      BY <1>3, <1>6, <2>1, <3>1
  <2> QED
    BY <2>1, <2>2
<1>9. /\ <<1>> \o s2 \o s3 \in Seq(Nat) /\ Len(<<1>> \o s2 \o s3) = 1 + a + n
      /\ \A i \in 1..(1 + a + n) :
            (<<1>> \o s2 \o s3)[i] = IF i = 1 THEN 1
                                     ELSE IF i <= 1 + a THEN Figure!Gap
                                     ELSE left + i - 2 - a
  <2> DEFINE t == <<1>> \o s2
  <2> HIDE DEF t
  <2>1. /\ t \o s3 \in Seq(Nat) /\ Len(t \o s3) = 1 + a + n
        /\ \A i \in 1..(1 + a + n) : (t \o s3)[i] = IF i <= 1 + a THEN t[i] ELSE s3[i - (1 + a)]
    BY <1>1, <1>5, <1>8, ConcatProperties DEF t
  <2>2. \A i \in 1..(1 + a + n) : (t \o s3)[i] = IF i = 1 THEN 1
                                                 ELSE IF i <= 1 + a THEN Figure!Gap
                                                 ELSE left + i - 2 - a
    <3> TAKE i \in 1..(1 + a + n)
    <3>1. i \in 1..(1 + a) \/ (i > 1 + a /\ i - (1 + a) \in 1..n)
      BY <1>1
    <3>2. CASE i \in 1..(1 + a)
      <4>1. (t \o s3)[i] = t[i]
        BY <1>1, <2>1, <3>2
      <4>2. t[i] = IF i = 1 THEN 1 ELSE Figure!Gap
        BY <1>8, <3>2 DEF t
      <4> QED
        BY <1>1, <3>2, <4>1, <4>2
    <3>3. CASE i > 1 + a /\ i - (1 + a) \in 1..n
      <4>1. i \in 1..(1 + a + n) /\ ~(i <= 1 + a)
        BY <1>1, <3>3
      <4>2. (t \o s3)[i] = s3[i - (1 + a)]
        BY <2>1, <4>1
      <4> QED
        BY <1>1, <1>5, <3>3, <4>2
    <3> QED
      BY <3>1, <3>2, <3>3
  <2> QED
    BY <2>1, <2>2 DEF t
<1>10. /\ <<1>> \o s2 \o s3 \o s4 \in Seq(Nat) /\ Len(<<1>> \o s2 \o s3 \o s4) = 1 + a + n + b
       /\ \A i \in 1..(1 + a + n + b) :
             (<<1>> \o s2 \o s3 \o s4)[i] = IF i = 1 THEN 1
                                            ELSE IF i \in (2 + a)..(1 + a + n) THEN left + i - 2 - a
                                            ELSE Figure!Gap
  <2> DEFINE t == <<1>> \o s2 \o s3
  <2>0. /\ t \in Seq(Nat) /\ Len(t) = 1 + a + n
        /\ \A i \in 1..(1 + a + n) : t[i] = IF i = 1 THEN 1
                                           ELSE IF i <= 1 + a THEN Figure!Gap
                                           ELSE left + i - 2 - a
    BY <1>9
  <2> HIDE DEF t
  <2>1. /\ t \o s4 \in Seq(Nat) /\ Len(t \o s4) = 1 + a + n + b
        /\ \A i \in 1..(1 + a + n + b) :
               (t \o s4)[i] = IF i <= 1 + a + n THEN t[i] ELSE s4[i - (1 + a + n)]
    BY <1>1, <1>4, <2>0, ConcatProperties
  <2>2. \A i \in 1..(1 + a + n + b) :
            (t \o s4)[i] = IF i = 1 THEN 1
                           ELSE IF i \in (2 + a)..(1 + a + n) THEN left + i - 2 - a
                           ELSE Figure!Gap
    <3> TAKE i \in 1..(1 + a + n + b)
    <3>1. i \in 1..(1 + a + n) \/ (i > 1 + a + n /\ i - (1 + a + n) \in 1..b)
      BY <1>1
    <3> QED
      BY <1>1, <1>4, <2>0, <2>1, <3>1
  <2> QED
    BY <2>1, <2>2 DEF t
<1>11. /\ pages \in Seq(Nat) /\ Len(pages) = 2 + a + n + b
       /\ \A i \in 1..(2 + a + n + b) :
             pages[i] = IF i = 1 THEN 1
                        ELSE IF i = 2 + a + n + b THEN total
                        ELSE IF i \in (2 + a)..(1 + a + n) THEN left + i - 2 - a
                        ELSE Figure!Gap
  <2> DEFINE t == <<1>> \o s2 \o s3 \o s4
  <2>0. /\ t \in Seq(Nat) /\ Len(t) = 1 + a + n + b
        /\ \A i \in 1..(1 + a + n + b) :
               t[i] = IF i = 1 THEN 1
                      ELSE IF i \in (2 + a)..(1 + a + n) THEN left + i - 2 - a
                      ELSE Figure!Gap
    BY <1>10
  <2>1. pages = t \o <<total>>
    BY <1>2
  <2> HIDE DEF t, pages
  <2>2. /\ t \o <<total>> \in Seq(Nat) /\ Len(t \o <<total>>) = 2 + a + n + b
        /\ \A i \in 1..(2 + a + n + b) :
               (t \o <<total>>)[i] = IF i <= 1 + a + n + b THEN t[i]
                                     ELSE <<total>>[i - (1 + a + n + b)]
    BY <1>1, <1>7, <2>0, ConcatProperties
  <2>3. \A i \in 1..(2 + a + n + b) :
             pages[i] = IF i = 1 THEN 1
                        ELSE IF i = 2 + a + n + b THEN total
                        ELSE IF i \in (2 + a)..(1 + a + n) THEN left + i - 2 - a
                        ELSE Figure!Gap
    <3> TAKE i \in 1..(2 + a + n + b)
    <3>1. i \in 1..(1 + a + n + b) \/ (i = 2 + a + n + b /\ i - (1 + a + n + b) = 1)
      BY <1>1
    <3> QED
      BY <1>1, <1>7, <2>0, <2>1, <2>2, <3>1
  <2> QED
    BY <2>1, <2>2, <2>3
<1> HIDE DEF pages
<1>12. DOMAIN pages = 1..Len(pages)
  BY <1>11, LenProperties
<1> QED
  BY <1>11, <1>12 DEF pages, left, a, b, n

\* What the property asks of the pages that are shown.
Leads(pages, current, total) ==
    LET numbered == {i \in DOMAIN pages : pages[i] # Figure!Gap}
    IN /\ {1, total} \subseteq Figure!ToSet(pages)
       /\ {current - 1, current, current + 1} \cap 1..total \subseteq Figure!ToSet(pages)
              \/ current > total
       /\ \A i, j \in numbered : i < j => pages[i] < pages[j]
       /\ \A i \in 1..(Len(pages) - 1) :
              i \in numbered => IF pages[i + 1] = Figure!Gap
                                THEN pages[i + 2] > pages[i] + 1
                                ELSE pages[i + 1] = pages[i] + 1

\* Up to seven pages are all shown.
LEMMA FewPagesLead ==
    ASSUME NEW total \in 1..7, NEW current \in 1..(total + 2)
    PROVE  Leads(Figure!PageRange(current, total), current, total)
<1> DEFINE pages == Figure!PageRange(current, total)
<1>1. pages = [i \in 1..total |-> i]
  <2>1. total <= 7
    OBVIOUS
  <2> QED
    BY <2>1, Zenon DEF Figure!PageRange
<1>2. /\ DOMAIN pages = 1..total /\ Len(pages) = total
      /\ \A i \in 1..total : pages[i] = i
  <2>1. pages \in [1..total -> Nat]
    BY <1>1
  <2>2. pages \in Seq(Nat)
    BY <2>1, SeqDef
  <2> HIDE DEF pages
  <2>3. DOMAIN pages = 1..total /\ Len(pages) \in Nat /\ DOMAIN pages = 1..Len(pages)
    BY <2>1, <2>2, LenProperties
  <2> QED
    BY <1>1, <2>3
<1> HIDE DEF pages
<1>3. Figure!ToSet(pages) = 1..total
  BY <1>2 DEF Figure!ToSet
<1> QED
  BY <1>2, <1>3 DEF Leads, Figure!Gap, pages

LEMMA ManyPagesLead ==
    ASSUME NEW total \in Nat, total > 7, NEW current \in 1..(total + 2)
    PROVE  Leads(Figure!PageRange(current, total), current, total)
<1> DEFINE left == Left(current)
           right == Right(current, total)
           a == GapBefore(current)
           n == Around(current, total)
           b == GapAfter(current, total)
           pages == Figure!PageRange(current, total)
           numbered == {i \in DOMAIN pages : pages[i] # Figure!Gap}
<1>1. /\ DOMAIN pages = 1..Len(pages) /\ Len(pages) = 2 + a + n + b
      /\ \A i \in 1..Len(pages) :
             pages[i] = IF i = 1 THEN 1
                        ELSE IF i = Len(pages) THEN total
                        ELSE IF i \in (2 + a)..(1 + a + n) THEN left + i - 2 - a
                        ELSE Figure!Gap
  BY PagesShown
\* The cases that differ: no room around a page past the end, or a window.
<1>2. /\ left \in Nat /\ left >= 2 /\ right \in Nat /\ right < total /\ right >= 2
      /\ a \in {0, 1} /\ (a = 1 <=> left > 2)
      /\ b \in {0, 1} /\ (b = 1 <=> right < total - 1)
      /\ n \in Nat
      /\ \/ n = right - left + 1 /\ left <= right
         \/ n = 0 /\ current > total /\ a = 1 /\ b = 0
  BY DEF Left, Right, Around, GapBefore, GapAfter
<1>3. current <= total =>
          \A x \in {current - 1, current, current + 1} :
              x \in 1..total => x \in {1, total} \/ (left <= x /\ x <= right)
  BY DEF Left, Right
<1> HIDE DEF left, right, a, b, n, pages
<1>4. \A i \in 1..Len(pages) : pages[i] \in Figure!ToSet(pages)
  BY <1>1 DEF Figure!ToSet
<1>5. {1, total} \subseteq Figure!ToSet(pages)
  <2>1. pages[1] = 1 /\ pages[Len(pages)] = total /\ 1 \in 1..Len(pages)
        /\ Len(pages) \in 1..Len(pages)
    BY <1>1, <1>2
  <2> QED
    BY <1>4, <2>1
<1>6. ASSUME NEW x \in 1..total, x \in {1, total} \/ (left <= x /\ x <= right), current <= total
      PROVE  x \in Figure!ToSet(pages)
  <2>1. CASE x \in {1, total}
    BY <1>5, <2>1
  <2>2. CASE left <= x /\ x <= right
    <3>1. PICK i \in Nat : i = x - left + 2 + a
      BY <1>2, <2>2
    <3>2. i \in 1..Len(pages) /\ i # 1 /\ i # Len(pages) /\ i \in (2 + a)..(1 + a + n)
      BY <1>1, <1>2, <1>6, <2>2, <3>1
    <3>3. pages[i] = x
      BY <1>1, <1>2, <3>1, <3>2
    <3> QED
      BY <1>4, <3>2, <3>3
  <2> QED
    BY <1>6, <2>1, <2>2
<1>7. {current - 1, current, current + 1} \cap 1..total \subseteq Figure!ToSet(pages)
          \/ current > total
  <2> SUFFICES ASSUME current <= total, NEW x \in {current - 1, current, current + 1} \cap 1..total
               PROVE  x \in Figure!ToSet(pages)
    OBVIOUS
  <2>1. x \in {1, total} \/ (left <= x /\ x <= right)
    BY <1>3
  <2> QED
    BY <1>6, <2>1
<1>8. \A i \in numbered : \/ i = 1 /\ pages[i] = 1
                          \/ i = Len(pages) /\ pages[i] = total
                          \/ /\ i \in (2 + a)..(1 + a + n) /\ pages[i] = left + i - 2 - a
                             /\ 1 < pages[i] /\ pages[i] < total
  <2> TAKE i \in numbered
  <2>1. /\ i \in 1..Len(pages) /\ pages[i] # Figure!Gap
        /\ pages[i] = IF i = 1 THEN 1
                      ELSE IF i = Len(pages) THEN total
                      ELSE IF i \in (2 + a)..(1 + a + n) THEN left + i - 2 - a
                      ELSE Figure!Gap
    BY <1>1
  <2>2. i \in (2 + a)..(1 + a + n) => 1 < left + i - 2 - a /\ left + i - 2 - a < total
    BY <1>2
  <2> QED
    BY <2>1, <2>2
<1>9. \A i, j \in numbered : i < j => pages[i] < pages[j]
  <2> SUFFICES ASSUME NEW i \in numbered, NEW j \in numbered, i < j
               PROVE  pages[i] < pages[j]
    OBVIOUS
  <2>1. i \in 1..Len(pages) /\ j \in 1..Len(pages) /\ Len(pages) \in Nat
    BY <1>1, <1>2
  <2> QED
    BY <1>2, <1>8, <2>1
<1>10. ASSUME NEW i \in 1..(Len(pages) - 1), i \in numbered
       PROVE  IF pages[i + 1] = Figure!Gap
              THEN pages[i + 2] > pages[i] + 1
              ELSE pages[i + 1] = pages[i] + 1
  <2>1. Len(pages) \in Nat /\ i + 1 \in 2..Len(pages)
    BY <1>1, <1>2
  <2>2. CASE i = 1 /\ a = 1
    BY <1>1, <1>2, <2>1, <2>2 DEF Figure!Gap
  <2>3. CASE i = 1 /\ a = 0
    BY <1>1, <1>2, <2>1, <2>3 DEF Figure!Gap
  <2>4. CASE i \in (2 + a)..(a + n)
    BY <1>1, <1>2, <2>1, <2>4 DEF Figure!Gap
  <2>5. CASE i = 1 + a + n /\ n > 0 /\ b = 0
    BY <1>1, <1>2, <2>1, <2>5 DEF Figure!Gap
  <2>6. CASE i = 1 + a + n /\ n > 0 /\ b = 1
    <3>1. pages[i] = right /\ pages[i + 1] = Figure!Gap /\ pages[i + 2] = total
      BY <1>1, <1>2, <2>1, <2>6
    <3> QED
      BY <1>2, <2>6, <3>1
  <2> QED
    BY <1>1, <1>2, <1>8, <1>10, <2>1, <2>2, <2>3, <2>4, <2>5, <2>6
<1> QED
  BY <1>5, <1>7, <1>9, <1>10 DEF Leads, pages

\* The pages of every pager lead everywhere, whichever page it is on.
THEOREM PagersLeadEverywhere == FormsSpec => []PagerLeadsEverywhere
<1> DEFINE Pagers == input.of = "pager" =>
                        /\ input.total \in Nat \ {0}
                        /\ input.current \in 1..(input.total + 2)
<1>1. FormsInit => Pagers
  BY DEF FormsInit, Figure!Init
<1>2. ASSUME Pagers, [FormsNext]_formsVars
      PROVE  Pagers'
  <2>1. CASE UNCHANGED input
    BY <1>2, <2>1
  <2>2. ASSUME NEW total \in 1..MaxPages, NEW current \in 1..(total + 2),
               input' = [of |-> "pager", current |-> current, total |-> total]
        PROVE  Pagers'
    <3>1. MaxPages \in Nat
      BY FormsAssumption DEF FormsAssumption, Figure!FiguresAssumption
    <3> QED
      BY <2>2, <3>1
  <2>3. CASE Figure!Iban \/ Figure!MonthlyChart \/ Figure!Wallets
    BY <2>3 DEF Figure!Iban, Figure!MonthlyChart, Figure!Wallets
  <2>4. [Figure!Next]_input
    BY <1>2, FormsSteps
  <2> QED
    BY <2>1, <2>2, <2>3, <2>4 DEF Figure!Next, Figure!Pager
<1>3. ASSUME Pagers
      PROVE  PagerLeadsEverywhere
  <2> SUFFICES ASSUME input.of = "pager"
               PROVE  Leads(Figure!PageRange(input.current, input.total),
                            input.current, input.total)
    BY Zenon DEF Leads, PagerLeadsEverywhere, Figure!PagerLeadsEverywhere
  <2>1. input.total \in 1..7 \/ (input.total \in Nat /\ input.total > 7)
    BY <1>3
  <2> QED
    BY <1>3, <2>1, FewPagesLead, ManyPagesLead
<1> QED
  BY <1>1, <1>2, <1>3, PTL DEF FormsSpec

-----------------------------------------------------------------------------
(* The checksum of an IBAN *)

\* What is written after each of the digits.
Writing(w, v, digits) ==
    /\ w \in [0..Len(digits) -> Nat]
    /\ w[0] = v /\ w[Len(digits)] = Figure!Written(v, digits)
    /\ \A k \in 1..Len(digits) : w[k] = 10 * w[k - 1] + digits[k]

LEMMA WrittenUnfolds ==
    ASSUME NEW v \in Nat, NEW digits \in Seq(Nat)
    PROVE  \E w : Writing(w, v, digits)
<1> DEFINE n == Len(digits)
           Iter(h) == h = [s \in SUBSET (1..n) |->
                              IF s = {} THEN v
                              ELSE 10 * h[s \ {Max(s)}] + digits[Max(s)]]
           step == [k \in 1..n |-> [w \in Nat |-> 10 * w + digits[k]]]
           H == CHOOSE h : Iter(h)
<1>1. DOMAIN digits = 1..n /\ n \in Nat /\ \A k \in 1..n : digits[k] \in Nat
  OBVIOUS
<1>2. Figure!Written(v, digits) = H[1..n]
  BY <1>1 DEF Figure!Written, Figure!FoldLeft, Figure!MapThenFoldSet, Figure!Max, Max
<1>3. \A k \in 1..n : \A w \in Nat : step[k][w] = 10 * w + digits[k] /\ step[k][w] \in Nat
  BY <1>1
<1>4. \E h : Iter(h)
  <2>1. PICK h \in [SUBSET (1..n) -> Nat] : Folds(h, step, v, n)
    <3>1. Stays(Nat, step, n)
      <4> HIDE DEF step, n
      <4> QED
        BY <1>3 DEF Stays
    <3> HIDE DEF step, n
    <3> QED
      BY <1>1, <3>1, FoldExists
  <2>2. ASSUME NEW s \in SUBSET (1..n), s # {}
        PROVE  Max(s) \in 1..n /\ s \ {Max(s)} \in SUBSET (1..n)
    BY <1>1, <2>2, MaxIn
  <2>3. \A s \in SUBSET (1..n) :
            h[s] = IF s = {} THEN v ELSE 10 * h[s \ {Max(s)}] + digits[Max(s)]
    <3> HIDE DEF step, n
    <3> QED
      BY <1>3, <2>1, <2>2 DEF Folds
  <2>4. Iter(h)
    <3> HIDE DEF step, n
    <3> QED
      BY <2>1, <2>3
  <2> QED
    BY <2>4
<1>5. Iter(H)
  <2> HIDE DEF Iter
  <2> QED
    BY <1>4
<1>6. Unfolds(H, Nat, step, v, n)
  <2>1. {} \in SUBSET (1..n)
    OBVIOUS
  <2>2. ASSUME NEW s \in SUBSET (1..n), s # {}
        PROVE  Max(s) \in 1..n
    BY <1>1, <2>2, MaxIn
  <2> HIDE DEF H, step, n
  <2> QED
    BY <1>3, <1>5, <2>1, <2>2 DEF Unfolds
<1>7. PICK w : Values(w, Nat, step, v, n, H[1..n])
  <2>1. Stays(Nat, step, n)
    <3> HIDE DEF step, n
    <3> QED
      BY <1>3 DEF Stays
  <2> HIDE DEF H, n, step
  <2> QED
    BY <1>1, <1>6, <2>1, FoldValues
<1>8. \A k \in 1..n : w[k] = 10 * w[k - 1] + digits[k]
  <2> HIDE DEF step, n, H
  <2>1. \A k \in 1..n : w[k - 1] \in Nat
    BY <1>1, <1>7 DEF Values
  <2> QED
    BY <1>3, <1>7, <2>1 DEF Values
<1>9. Writing(w, v, digits)
  <2> HIDE DEF H, step
  <2> QED
    BY <1>2, <1>7, <1>8 DEF Values, Writing
<1> QED
  BY <1>9

\* Numbers with the same remainder keep that when a digit is written after them.
Same(a, b, m) == a % m = b % m

LEMMA SameAppended ==
    ASSUME NEW a \in Nat, NEW b \in Nat, NEW d \in Nat, NEW m \in Nat \ {0},
           Same(a, b, m)
    PROVE  Same(10 * a + d, 10 * b + d, m)
<1>1. /\ a = m * (a \div m) + (a % m) /\ a \div m \in Int
      /\ b = m * (b \div m) + (b % m) /\ b \div m \in Int
      /\ (10 * b + d) % m \in 0..(m - 1) /\ (10 * b + d) \div m \in Int
      /\ 10 * b + d = m * ((10 * b + d) \div m) + ((10 * b + d) % m)
      /\ a % m = b % m
  BY ModType DEF Same
<1> DEFINE q == 10 * ((a \div m) - (b \div m)) + ((10 * b + d) \div m)
<1>2. q \in Int /\ 10 * a + d = m * q + ((10 * b + d) % m)
  <2>1. 10 * a - 10 * b = m * (10 * ((a \div m) - (b \div m)))
    BY <1>1
  <2>2. m * q = m * (10 * ((a \div m) - (b \div m))) + m * ((10 * b + d) \div m)
    BY <1>1
  <2> QED
    BY <1>1, <2>1, <2>2
<1> DEFINE r == (10 * b + d) % m
           c == 10 * a + d
<1>3. c \in Int /\ r \in 0..(m - 1) /\ c = m * q + r /\ m \in Nat /\ m > 0 /\ q \in Int
  BY <1>1, <1>2
<1>4. c % m = r
  <2> HIDE DEF c, q, r
  <2> QED
    BY <1>3, ModUnique
<1> QED
  BY <1>4 DEF Same

\* The remainder of what is written depends on that of the beginning only.
LEMMA WrittenMod ==
    ASSUME NEW u \in Nat, NEW v \in Nat, NEW digits \in Seq(Nat), NEW m \in Nat \ {0},
           Same(u, v, m)
    PROVE  Same(Figure!Written(u, digits), Figure!Written(v, digits), m)
<1> DEFINE n == Len(digits)
<1>1. PICK x : Writing(x, u, digits)
  BY WrittenUnfolds
<1>2. PICK y : Writing(y, v, digits)
  BY WrittenUnfolds
<1> DEFINE T == {k \in Nat : k <= n => Same(x[k], y[k], m)}
<1>3. 0 \in T
  BY <1>1, <1>2 DEF Writing
<1>4. ASSUME NEW k \in Nat, k \in T PROVE k + 1 \in T
  <2> SUFFICES ASSUME k + 1 <= n
               PROVE  Same(x[k + 1], y[k + 1], m)
    OBVIOUS
  <2>1. k \in 0..n /\ k + 1 \in 1..n /\ (k + 1) - 1 = k
    OBVIOUS
  <2> DEFINE xk == x[k]
             yk == y[k]
             d == digits[k + 1]
  <2>2. xk \in Nat /\ yk \in Nat /\ d \in Nat
    <3>1. x \in [0..n -> Nat] /\ y \in [0..n -> Nat]
      BY <1>1, <1>2 DEF Writing
    <3>2. d \in Nat
      BY <2>1
    <3> HIDE DEF n, T, d
    <3> QED
      BY <2>1, <3>1, <3>2
  <2>5. Same(xk, yk, m)
    BY <1>4
  <2>3. x[k + 1] = 10 * x[k] + digits[k + 1] /\ y[k + 1] = 10 * y[k] + digits[k + 1]
    <3> HIDE DEF n
    <3> QED
      BY <1>1, <1>2, <2>1 DEF Writing, n
  <2>4. Same(10 * xk + d, 10 * yk + d, m)
    <3> HIDE DEF xk, yk, d, T
    <3> QED
      BY <2>2, <2>5, SameAppended
  <2> QED
    BY <2>3, <2>4
<1>5. n \in T
  <2>1. n \in Nat
    OBVIOUS
  <2> HIDE DEF T, n
  <2> QED
    BY <1>3, <1>4, <2>1, EveryNatural
<1> QED
  BY <1>1, <1>2, <1>5 DEF Writing

\* Writing a piece of the digits continues the number written so far.
LEMMA WrittenOn ==
    ASSUME NEW digits \in Seq(Nat), NEW w, NEW v \in Nat, Writing(w, v, digits),
           NEW p \in 0..Len(digits), NEW q \in p..Len(digits)
    PROVE  /\ SubSeq(digits, p + 1, q) \in Seq(Nat)
           /\ Figure!Written(w[p], SubSeq(digits, p + 1, q)) = w[q]
<1> DEFINE n == Len(digits)
           piece == SubSeq(digits, p + 1, q)
           l == q - p
<1>1. /\ piece \in Seq(Nat) /\ Len(piece) = l /\ l \in Nat
      /\ \A k \in 1..l : piece[k] = digits[p + k]
  OBVIOUS
<1>2. w[p] \in Nat
  BY DEF Writing
<1>3. PICK x : Writing(x, w[p], piece)
  <2> HIDE DEF piece
  <2> QED
    BY <1>1, <1>2, WrittenUnfolds
<1> DEFINE T == {k \in Nat : k <= l => x[k] = w[p + k]}
<1>4. 0 \in T
  BY <1>2, <1>3 DEF Writing
<1>5. ASSUME NEW k \in Nat, k \in T PROVE k + 1 \in T
  <2> SUFFICES ASSUME k + 1 <= l
               PROVE  x[k + 1] = w[p + (k + 1)]
    OBVIOUS
  <2>1. k + 1 \in 1..l /\ (k + 1) - 1 = k /\ p + (k + 1) \in 1..n /\ (p + (k + 1)) - 1 = p + k
    OBVIOUS
  <2>2. x[k] = w[p + k]
    BY <1>5
  <2>3. x[k + 1] = 10 * x[k] + digits[p + (k + 1)]
    <3> HIDE DEF piece, l
    <3> QED
      BY <1>1, <1>3, <2>1 DEF Writing
  <2>4. w[p + (k + 1)] = 10 * w[p + k] + digits[p + (k + 1)]
    BY <2>1 DEF Writing
  <2> QED
    BY <2>2, <2>3, <2>4
<1>6. l \in T
  <2> HIDE DEF T, l
  <2> QED
    BY <1>1, <1>4, <1>5, EveryNatural
<1>7. x[l] = w[q]
  <2>1. p + l = q
    OBVIOUS
  <2> HIDE DEF piece
  <2> QED
    BY <1>1, <1>6, <2>1
<1> HIDE DEF piece
<1> QED
  BY <1>1, <1>3, <1>7 DEF piece, Writing

LEMMA WrittenType ==
    ASSUME NEW v \in Nat, NEW digits \in Seq(Nat)
    PROVE  Figure!Written(v, digits) \in Nat
<1>1. PICK w : Writing(w, v, digits)
  BY WrittenUnfolds
<1>2. Len(digits) \in 0..Len(digits)
  OBVIOUS
<1> QED
  BY <1>1, <1>2 DEF Writing

\* The remainder after each of the chunks.
Reducing(r, digits) ==
    LET chunks == Figure!Chunks(digits) IN
    /\ r \in [0..Len(chunks) -> Nat]
    /\ r[0] = 0 /\ r[Len(chunks)] = Figure!Remainder(digits)
    /\ \A k \in 1..Len(chunks) : r[k] = Figure!Written(r[k - 1], chunks[k]) % Modulus

LEMMA RemainderUnfolds ==
    ASSUME NEW digits \in Seq(Nat), Modulus \in Nat \ {0}, NEW c \in Nat,
           Figure!Chunks(digits) \in [1..c -> Seq(Nat)]
    PROVE  \E r : Reducing(r, digits)
<1> DEFINE chunks == Figure!Chunks(digits)
           op(r, k) == Figure!Written(r, chunks[k]) % Modulus
           Iter(h) == h = [s \in SUBSET (1..c) |->
                              IF s = {} THEN 0 ELSE op(h[s \ {Max(s)}], Max(s))]
           step == [k \in 1..c |-> [r \in Nat |-> op(r, k)]]
           H == CHOOSE h : Iter(h)
<1>1. DOMAIN chunks = 1..c /\ Len(chunks) = c /\ \A k \in 1..c : chunks[k] \in Seq(Nat)
  <2> HIDE DEF chunks
  <2> QED
    BY DEF chunks
<1>2. Figure!Remainder(digits) = H[1..c]
  BY <1>1 DEF Figure!Remainder, Figure!FoldLeft, Figure!MapThenFoldSet, Figure!Max, Max
<1>3. \A k \in 1..c : \A r \in Nat : step[k][r] = op(r, k) /\ step[k][r] \in Nat
  <2> TAKE k \in 1..c
  <2> TAKE r \in Nat
  <2>1. Figure!Written(r, chunks[k]) \in Nat
    BY <1>1, WrittenType
  <2>2. op(r, k) \in Nat
    <3> HIDE DEF chunks
    <3> QED
      BY <2>1
  <2> HIDE DEF op
  <2> QED
    BY <2>2
<1>4. \E h : Iter(h)
  <2>1. PICK h \in [SUBSET (1..c) -> Nat] : Folds(h, step, 0, c)
    <3>1. Stays(Nat, step, c)
      <4> HIDE DEF step
      <4> QED
        BY <1>3 DEF Stays
    <3> HIDE DEF step
    <3> QED
      BY <3>1, FoldExists
  <2>2. ASSUME NEW s \in SUBSET (1..c), s # {}
        PROVE  Max(s) \in 1..c /\ s \ {Max(s)} \in SUBSET (1..c)
    BY <2>2, MaxIn
  <2>3. \A s \in SUBSET (1..c) :
            h[s] = IF s = {} THEN 0 ELSE op(h[s \ {Max(s)}], Max(s))
    <3> HIDE DEF step, op
    <3> QED
      BY <1>3, <2>1, <2>2 DEF Folds
  <2>4. Iter(h)
    <3> HIDE DEF step, op
    <3> QED
      BY <2>1, <2>3
  <2> QED
    BY <2>4
<1>5. Iter(H)
  <2> HIDE DEF Iter
  <2> QED
    BY <1>4
<1>6. Unfolds(H, Nat, step, 0, c)
  <2>1. {} \in SUBSET (1..c)
    OBVIOUS
  <2>2. ASSUME NEW s \in SUBSET (1..c), s # {}
        PROVE  Max(s) \in 1..c
    BY <2>2, MaxIn
  <2> HIDE DEF H, op, step
  <2> QED
    BY <1>3, <1>5, <2>1, <2>2 DEF Unfolds
<1>7. PICK r : Values(r, Nat, step, 0, c, H[1..c])
  <2>1. Stays(Nat, step, c)
    <3> HIDE DEF step
    <3> QED
      BY <1>3 DEF Stays
  <2> HIDE DEF H, step
  <2> QED
    BY <1>6, <2>1, FoldValues
<1>8. \A k \in 1..c : r[k] = op(r[k - 1], k)
  <2> HIDE DEF step, H, op
  <2>1. \A k \in 1..c : r[k - 1] \in Nat
    BY <1>7 DEF Values
  <2> QED
    BY <1>3, <1>7, <2>1 DEF Values
<1>9. Reducing(r, digits)
  <2>1. /\ r \in [0..c -> Nat] /\ r[0] = 0 /\ r[c] = Figure!Remainder(digits)
    <3> HIDE DEF H, step
    <3> QED
      BY <1>2, <1>7 DEF Values
  <2> HIDE DEF H, step
  <2> QED
    BY <1>1, <1>8, <2>1 DEF Reducing
<1> QED
  BY <1>9

LEMMA ChunksAre ==
    ASSUME NEW digits \in Seq(Nat), ChunkLength \in Nat \ {0}
    PROVE  LET n == Len(digits)
               c == (n + ChunkLength - 1) \div ChunkLength
               end(i) == IF i * ChunkLength < n THEN i * ChunkLength ELSE n
           IN /\ c \in Nat /\ end(c) = n /\ end(0) = 0
              /\ Figure!Chunks(digits) \in [1..c -> Seq(Nat)]
              /\ \A i \in 1..c : /\ end(i - 1) \in 0..n /\ end(i) \in end(i - 1)..n
                                 /\ Figure!Chunks(digits)[i]
                                        = SubSeq(digits, end(i - 1) + 1, end(i))
<1> DEFINE n == Len(digits)
           l == ChunkLength
           c == (n + l - 1) \div l
           end(i) == IF i * l < n THEN i * l ELSE n
<1>1. n \in Nat /\ l \in Nat /\ l > 0
  OBVIOUS
<1>2. c \in Nat /\ c * l >= n /\ c * l < n + l
  <2> HIDE DEF n, l
  <2> QED
    BY <1>1, RoundedUp
<1>3. \A i \in Nat : end(i) \in 0..n /\ i * l \in Nat
  <2> HIDE DEF n, l
  <2> QED
    BY <1>1
<1>4. end(c) = n /\ end(0) = 0
  <2> HIDE DEF n, l, c
  <2> QED
    BY <1>1, <1>2
<1>5. ASSUME NEW i \in 1..c
      PROVE  /\ end(i - 1) = (i - 1) * l /\ end(i - 1) \in 0..n /\ end(i) \in end(i - 1)..n
             /\ i - 1 \in Nat /\ i \in Nat
  <2> HIDE DEF n, l, c
  <2>1. i - 1 \in Nat /\ c - 1 \in Nat /\ i - 1 <= c - 1
    BY <1>2
  <2>2. (i - 1) * l <= (c - 1) * l
    BY <1>1, <2>1, ProductMonotone
  <2>3. (c - 1) * l = c * l - l
    BY <1>1, <1>2
  <2>4. (i - 1) * l < n /\ i * l = (i - 1) * l + l
    BY <1>1, <1>2, <2>2, <2>3
  <2> QED
    BY <1>1, <1>3, <2>1, <2>4
<1>6. ASSUME NEW i \in 1..c
      PROVE  /\ Figure!Chunks(digits)[i] = SubSeq(digits, end(i - 1) + 1, end(i))
             /\ SubSeq(digits, end(i - 1) + 1, end(i)) \in Seq(Nat)
  <2>1. Figure!Chunks(digits)[i] = SubSeq(digits, (i - 1) * l + 1, end(i))
    BY DEF Figure!Chunks
  <2>2. \A p \in 0..n : \A q \in p..n : SubSeq(digits, p + 1, q) \in Seq(Nat)
    OBVIOUS
  <2> HIDE DEF n, l, c, end
  <2> QED
    BY <1>5, <2>1, <2>2
<1>7. Figure!Chunks(digits) \in [1..c -> Seq(Nat)]
  <2>1. Figure!Chunks(digits) = [i \in 1..c |-> Figure!Chunks(digits)[i]]
    BY DEF Figure!Chunks
  <2>2. \A i \in 1..c : Figure!Chunks(digits)[i] \in Seq(Nat)
    <3> HIDE DEF n, l, c, end
    <3> QED
      BY <1>6
  <2> HIDE DEF n, l, c, end
  <2> QED
    BY <2>1, <2>2
<1> HIDE DEF n, l, c, end
<1>8. /\ c \in Nat /\ end(c) = n /\ end(0) = 0
      /\ Figure!Chunks(digits) \in [1..c -> Seq(Nat)]
      /\ \A i \in 1..c : /\ end(i - 1) \in 0..n /\ end(i) \in end(i - 1)..n
                         /\ Figure!Chunks(digits)[i] = SubSeq(digits, end(i - 1) + 1, end(i))
  BY <1>2, <1>4, <1>5, <1>6, <1>7
<1> QED
  BY <1>8 DEF n, l, c, end

LEMMA SameOfItself ==
    ASSUME NEW a \in Nat, NEW m \in Nat \ {0}
    PROVE  a % m \in Nat /\ Same(a % m, a, m)
<1>1. a % m \in 0..(m - 1)
  BY ModType
<1> DEFINE r == a % m
<1>2. r \in 0..(m - 1) /\ r \in Int /\ m \in Nat /\ m > 0 /\ 0 \in Int /\ r = m * 0 + r
  BY <1>1
<1>3. r % m = r
  <2> HIDE DEF r
  <2> QED
    BY <1>2, ModUnique
<1> QED
  BY <1>2, <1>3 DEF Same

\* What the chunks leave is what the whole number leaves.
LEMMA ChecksumOf ==
    ASSUME NEW digits \in Seq(Nat), ChunkLength \in Nat \ {0}, Modulus \in Nat \ {0}
    PROVE  Figure!Remainder(digits) = Figure!ValueOf(digits) % Modulus
<1> DEFINE n == Len(digits)
           chunks == Figure!Chunks(digits)
           c == (n + ChunkLength - 1) \div ChunkLength
           end(i) == IF i * ChunkLength < n THEN i * ChunkLength ELSE n
<1>1. /\ c \in Nat /\ end(c) = n /\ end(0) = 0
      /\ chunks \in [1..c -> Seq(Nat)]
      /\ \A i \in 1..c : /\ end(i - 1) \in 0..n /\ end(i) \in end(i - 1)..n
                         /\ chunks[i] = SubSeq(digits, end(i - 1) + 1, end(i))
  BY ChunksAre
<1>2. PICK w : Writing(w, 0, digits)
  BY WrittenUnfolds
<1>3. w \in [0..n -> Nat] /\ w[0] = 0 /\ w[n] = Figure!ValueOf(digits)
  BY <1>2 DEF Writing, Figure!ValueOf
<1> HIDE DEF c, end, n
<1>4. PICK r : Reducing(r, digits)
  <2> HIDE DEF chunks
  <2> QED
    BY <1>1, RemainderUnfolds DEF chunks
<1>5. Len(chunks) = c
  <2> HIDE DEF chunks
  <2> QED
    BY <1>1
<1>6. /\ r \in [0..c -> Nat] /\ r[0] = 0 /\ r[c] = Figure!Remainder(digits)
      /\ \A i \in 1..c : r[i] = Figure!Written(r[i - 1], chunks[i]) % Modulus
  BY <1>4, <1>5 DEF Reducing
<1> HIDE DEF chunks
<1> DEFINE T == {i \in Nat : i <= c => r[i] = w[end(i)] % Modulus}
<1>7. 0 \in T
  <2>1. 0 % Modulus = 0
    <3>1. /\ Modulus \in Nat /\ Modulus > 0 /\ 0 \in Int
          /\ 0 \in 0..(Modulus - 1) /\ 0 = Modulus * 0 + 0
      OBVIOUS
    <3> QED
      BY <3>1, ModUnique
  <2>2. end(0) = 0
    BY <1>1
  <2> QED
    BY <1>3, <1>6, <2>1, <2>2
<1>8. ASSUME NEW i \in Nat, i \in T PROVE i + 1 \in T
  <2> SUFFICES ASSUME i + 1 <= c
               PROVE  r[i + 1] = w[end(i + 1)] % Modulus
    OBVIOUS
  <2>1. i + 1 \in 1..c /\ (i + 1) - 1 = i /\ i \in 0..c
    BY <1>1
  <2>2. /\ end(i) \in 0..n /\ end(i + 1) \in end(i)..n
        /\ chunks[i + 1] = SubSeq(digits, end(i) + 1, end(i + 1))
    BY <1>1, <2>1
  <2>3. r[i] = w[end(i)] % Modulus /\ w[end(i)] \in Nat
    BY <1>3, <1>8, <2>1, <2>2
  <2>4. r[i + 1] = Figure!Written(r[i], chunks[i + 1]) % Modulus
    BY <1>6, <2>1
  <2>5. /\ chunks[i + 1] \in Seq(Nat)
        /\ Figure!Written(w[end(i)], chunks[i + 1]) = w[end(i + 1)]
    BY <1>2, <2>2, WrittenOn DEF n
  <2>6. r[i] \in Nat /\ Same(r[i], w[end(i)], Modulus)
    BY <2>3, SameOfItself
  <2>7. Same(Figure!Written(r[i], chunks[i + 1]), Figure!Written(w[end(i)], chunks[i + 1]), Modulus)
    BY <2>3, <2>5, <2>6, WrittenMod
  <2> QED
    BY <2>4, <2>5, <2>7 DEF Same
<1>9. c \in T
  <2> HIDE DEF T
  <2> QED
    BY <1>1, <1>7, <1>8, EveryNatural
<1> QED
  BY <1>1, <1>3, <1>6, <1>9

\* What can be typed is a sequence.
LEMMA SequencesUpTo ==
    ASSUME NEW S, NEW R, S \subseteq R, NEW n, NEW s \in Figure!SeqsUpTo(S, n)
    PROVE  s \in Seq(R)
<1>1. PICK k \in 0..n : s \in [1..k -> S]
  BY DEF Figure!SeqsUpTo
<1>2. k \in Nat /\ s \in [1..k -> R]
  BY <1>1
<1> QED
  BY <1>2, SeqDef

\* The remainder that the browser takes chunk by chunk is that of the whole
\* number, for any digits, chunk length and modulus.
THEOREM ChecksumsAreRemainders == FormsSpec => []ChecksumIsRemainder
<1> DEFINE Ibans == input.of = "iban" => input.digits \in Seq(Nat)
<1>1. FormsInit => Ibans
  BY DEF FormsInit, Figure!Init
<1>2. ASSUME Ibans, [FormsNext]_formsVars
      PROVE  Ibans'
  <2>1. CASE UNCHANGED input
    BY <1>2, <2>1
  <2>2. ASSUME NEW digits \in Figure!SeqsUpTo(Digits, MaxDigits),
               input' = [of |-> "iban", digits |-> digits]
        PROVE  Ibans'
    <3>1. Digits \subseteq Nat
      BY FormsAssumption DEF FormsAssumption, Figure!FiguresAssumption
    <3>2. digits \in Seq(Nat)
      BY <3>1, SequencesUpTo
    <3> QED
      BY <2>2, <3>2
  <2>3. CASE Figure!Pager \/ Figure!MonthlyChart \/ Figure!Wallets
    BY <2>3 DEF Figure!Pager, Figure!MonthlyChart, Figure!Wallets
  <2>4. [Figure!Next]_input
    BY <1>2, FormsSteps
  <2> QED
    BY <2>1, <2>2, <2>3, <2>4 DEF Figure!Next, Figure!Iban
<1>3. ASSUME Ibans
      PROVE  ChecksumIsRemainder
  <2> SUFFICES ASSUME input.of = "iban"
               PROVE  Figure!Remainder(input.digits) = Figure!ValueOf(input.digits) % Modulus
    BY DEF ChecksumIsRemainder, Figure!ChecksumIsRemainder
  <2>1. ChunkLength \in Nat \ {0} /\ Modulus \in Nat \ {0}
    BY FormsAssumption DEF FormsAssumption, Figure!FiguresAssumption
  <2> QED
    BY <1>3, <2>1, ChecksumOf
<1> QED
  BY <1>1, <1>2, <1>3, PTL DEF FormsSpec

-----------------------------------------------------------------------------
(* The chart and the currency table *)

LEMMA FigureSum ==
    ASSUME NEW f, NEW S
    PROVE  Figure!SumFunctionOnSet(f, S) = SumFunctionOnSet(f, S)
  BY DEF Figure!SumFunctionOnSet, Figure!FoldFunctionOnSet, Figure!MapThenFoldSet,
         SumFunctionOnSet, FoldFunctionOnSet, MapThenFoldSet

\* The bars after each of the days.
Bars == UNION {[M -> [income : Nat, expense : Nat]] : M \in SUBSET Months}
Charting(w, rows) ==
    /\ w \in [0..Len(rows) -> Bars]
    /\ w[0] = Figure!NoMonths /\ w[Len(rows)] = Figure!Monthly(rows)
    /\ \A k \in 1..Len(rows) : w[k] = Figure!WithDay(w[k - 1], rows[k])

LEMMA WithDayIsBars ==
    ASSUME NEW months \in Bars, NEW row \in Figure!MoneyRow, Sums \subseteq Nat
    PROVE  Figure!WithDay(months, row) \in Bars
<1>1. PICK M \in SUBSET Months : months \in [M -> [income : Nat, expense : Nat]]
  BY DEF Bars
<1>2. row.month \in Months /\ row.in \in Nat /\ row.out \in Nat
  BY DEF Figure!MoneyRow
<1>3. M \cup {row.month} \in SUBSET Months
  BY <1>2
<1>4. Figure!SumsOf(months, row.month) \in [income : Nat, expense : Nat]
  BY <1>1 DEF Figure!SumsOf
<1>5. Figure!WithDay(months, row) \in [M \cup {row.month} -> [income : Nat, expense : Nat]]
  BY <1>1, <1>2, <1>4 DEF Figure!WithDay
<1> QED
  BY <1>3, <1>5 DEF Bars

LEMMA MonthlyUnfolds ==
    ASSUME NEW rows \in Seq(Figure!MoneyRow), Sums \subseteq Nat
    PROVE  \E w : Charting(w, rows)
<1> DEFINE n == Len(rows)
           Iter(h) == h = [s \in SUBSET (1..n) |->
                              IF s = {} THEN Figure!NoMonths
                              ELSE Figure!WithDay(h[s \ {Max(s)}], rows[Max(s)])]
           step == [k \in 1..n |-> [w \in Bars |-> Figure!WithDay(w, rows[k])]]
           H == CHOOSE h : Iter(h)
<1>1. DOMAIN rows = 1..n /\ n \in Nat /\ \A k \in 1..n : rows[k] \in Figure!MoneyRow
  OBVIOUS
<1>2. Figure!Monthly(rows) = H[1..n]
  BY <1>1 DEF Figure!Monthly, Figure!FoldLeft, Figure!MapThenFoldSet, Figure!Max, Max
<1>3. \A k \in 1..n : \A w \in Bars :
          step[k][w] = Figure!WithDay(w, rows[k]) /\ step[k][w] \in Bars
  BY <1>1, WithDayIsBars
<1>4. Figure!NoMonths \in Bars
  <2>1. Figure!NoMonths \in [{} -> [income : Nat, expense : Nat]] /\ {} \in SUBSET Months
    BY DEF Figure!NoMonths
  <2> QED
    BY <2>1 DEF Bars
<1>5. Stays(Bars, step, n)
  <2> HIDE DEF step, n
  <2> QED
    BY <1>3 DEF Stays
<1>6. \E h : Iter(h)
  <2>1. PICK h \in [SUBSET (1..n) -> Bars] : Folds(h, step, Figure!NoMonths, n)
    <3> HIDE DEF step, n
    <3> QED
      BY <1>4, <1>1, <1>5, FoldExists
  <2>2. ASSUME NEW s \in SUBSET (1..n), s # {}
        PROVE  Max(s) \in 1..n /\ s \ {Max(s)} \in SUBSET (1..n)
    BY <1>1, <2>2, MaxIn
  <2>3. \A s \in SUBSET (1..n) :
            h[s] = IF s = {} THEN Figure!NoMonths
                   ELSE Figure!WithDay(h[s \ {Max(s)}], rows[Max(s)])
    <3> HIDE DEF step, n
    <3> QED
      BY <1>3, <2>1, <2>2 DEF Folds
  <2>4. Iter(h)
    <3> HIDE DEF step, n
    <3> QED
      BY <2>1, <2>3
  <2> QED
    BY <2>4
<1>7. Iter(H)
  <2> HIDE DEF Iter
  <2> QED
    BY <1>6
<1>8. Unfolds(H, Bars, step, Figure!NoMonths, n)
  <2>1. {} \in SUBSET (1..n)
    OBVIOUS
  <2>2. ASSUME NEW s \in SUBSET (1..n), s # {}
        PROVE  Max(s) \in 1..n
    BY <1>1, <2>2, MaxIn
  <2> HIDE DEF H, step, n
  <2> QED
    BY <1>3, <1>7, <2>1, <2>2 DEF Unfolds
<1>9. PICK w : Values(w, Bars, step, Figure!NoMonths, n, H[1..n])
  <2> HIDE DEF H, n, step
  <2> QED
    BY <1>4, <1>1, <1>8, <1>5, FoldValues
<1>10. \A k \in 1..n : w[k] = Figure!WithDay(w[k - 1], rows[k])
  <2> HIDE DEF step, n, H
  <2>1. \A k \in 1..n : w[k - 1] \in Bars
    BY <1>1, <1>9 DEF Values
  <2> QED
    BY <1>3, <1>9, <2>1 DEF Values
<1>11. Charting(w, rows)
  <2> HIDE DEF H, step
  <2> QED
    BY <1>2, <1>9, <1>10 DEF Values, Charting
<1> QED
  BY <1>11

\* Each bar holds what the days of its month add up to.
LEMMA MonthlyOf ==
    ASSUME NEW rows \in Seq(Figure!MoneyRow), Sums \subseteq Nat
    PROVE  LET months == Figure!Monthly(rows)
               n == Len(rows)
               in == [i \in 1..n |-> rows[i].in]
               out == [i \in 1..n |-> rows[i].out]
           IN /\ DOMAIN months = {rows[i].month : i \in 1..n}
              /\ \A m \in DOMAIN months :
                    LET ofMonth == {i \in 1..n : rows[i].month = m} IN
                    /\ months[m].income = SumFunctionOnSet(in, ofMonth)
                    /\ months[m].expense = SumFunctionOnSet(out, ofMonth)
<1> DEFINE n == Len(rows)
           in == [i \in 1..n |-> rows[i].in]
           out == [i \in 1..n |-> rows[i].out]
           month == [i \in 1..n |-> rows[i].month]
           In(k, m) == SumOf(in, month, m, k)
           Out(k, m) == SumOf(out, month, m, k)
<1>1. n \in Nat /\ in \in [1..n -> Nat] /\ out \in [1..n -> Nat]
  <2>1. \A i \in 1..n : rows[i] \in Figure!MoneyRow
    OBVIOUS
  <2>2. \A i \in 1..n : rows[i].in \in Nat /\ rows[i].out \in Nat
    BY <2>1 DEF Figure!MoneyRow
  <2> QED
    BY <2>2
<1>2. PICK w : Charting(w, rows)
  BY MonthlyUnfolds
<1>3. /\ w \in [0..n -> Bars] /\ w[0] = Figure!NoMonths /\ w[n] = Figure!Monthly(rows)
      /\ \A k \in 1..n : w[k] = Figure!WithDay(w[k - 1], rows[k])
  BY <1>2 DEF Charting
<1>4. ASSUME NEW m
      PROVE  /\ In(0, m) = 0 /\ Out(0, m) = 0
             /\ \A k \in 0..n : In(k, m) \in Nat /\ Out(k, m) \in Nat
             /\ \A k \in 1..n : /\ In(k, m) = In(k - 1, m) + (IF month[k] = m THEN in[k] ELSE 0)
                                /\ Out(k, m) = Out(k - 1, m) + (IF month[k] = m THEN out[k] ELSE 0)
  <2> HIDE DEF n, in, out, month
  <2>1. AddsUpTo(in, month, m, n) /\ AddsUpTo(out, month, m, n)
    BY <1>1, SumPrefix
  <2> QED
    BY <2>1 DEF AddsUpTo
<1> DEFINE Adds(k) ==
        \A m \in Months :
            /\ m \in DOMAIN w[k] <=> \E i \in 1..k : month[i] = m
            /\ Figure!SumsOf(w[k], m) = [income |-> In(k, m), expense |-> Out(k, m)]
           T == {k \in Nat : k <= n => Adds(k)}
<1> HIDE DEF In, Out
<1>5. 0 \in T
  <2> SUFFICES ASSUME NEW m \in Months
               PROVE  /\ m \in DOMAIN w[0] <=> \E i \in 1..0 : month[i] = m
                      /\ Figure!SumsOf(w[0], m) = [income |-> In(0, m), expense |-> Out(0, m)]
    OBVIOUS
  <2>1. In(0, m) = 0 /\ Out(0, m) = 0
    BY <1>4
  <2>2. DOMAIN w[0] = {}
    BY <1>3 DEF Figure!NoMonths
  <2> HIDE DEF month, n
  <2> QED
    BY <2>1, <2>2 DEF Figure!SumsOf
<1>6. ASSUME NEW k \in Nat, k \in T PROVE k + 1 \in T
  <2> SUFFICES ASSUME k + 1 <= n
               PROVE  Adds(k + 1)
    <3> HIDE DEF Adds
    <3> QED
      OBVIOUS
  <2>1. k + 1 \in 1..n /\ (k + 1) - 1 = k /\ k \in 0..n
    BY <1>1
  <2>2. Adds(k)
    <3> HIDE DEF Adds
    <3> QED
      BY <1>1, <1>6, <2>1
  <2>3. w[k + 1] = Figure!WithDay(w[k], rows[k + 1])
    BY <1>3, <2>1
  <2>4. /\ month[k + 1] = rows[k + 1].month /\ in[k + 1] = rows[k + 1].in
        /\ out[k + 1] = rows[k + 1].out
    BY <2>1
  <2> SUFFICES ASSUME NEW m \in Months
               PROVE  /\ m \in DOMAIN w[k + 1] <=> \E i \in 1..(k + 1) : month[i] = m
                      /\ Figure!SumsOf(w[k + 1], m)
                             = [income |-> In(k + 1, m), expense |-> Out(k + 1, m)]
    OBVIOUS
  <2>5. /\ In(k + 1, m) = In(k, m) + (IF month[k + 1] = m THEN in[k + 1] ELSE 0)
        /\ Out(k + 1, m) = Out(k, m) + (IF month[k + 1] = m THEN out[k + 1] ELSE 0)
        /\ In(k, m) \in Nat /\ Out(k, m) \in Nat
    <3> HIDE DEF n, in, out, month
    <3> QED
      BY <1>4, <2>1
  <2>6. /\ m \in DOMAIN w[k] <=> \E i \in 1..k : month[i] = m
        /\ Figure!SumsOf(w[k], m) = [income |-> In(k, m), expense |-> Out(k, m)]
    <3> HIDE DEF n, in, out, month
    <3> QED
      BY <2>2
  <2> HIDE DEF n, in, out, month, T, Adds
  <2>7. m \in DOMAIN w[k + 1] <=> m \in DOMAIN w[k] \/ month[k + 1] = m
    BY <2>3, <2>4 DEF Figure!WithDay
  <2>8. (\E i \in 1..(k + 1) : month[i] = m) <=> (\E i \in 1..k : month[i] = m) \/ month[k + 1] = m
    OBVIOUS
  <2>9. CASE month[k + 1] = m
    <3>1. w[k + 1][m] = [income |-> Figure!SumsOf(w[k], m).income + in[k + 1],
                         expense |-> Figure!SumsOf(w[k], m).expense + out[k + 1]]
      BY <2>3, <2>4, <2>9 DEF Figure!WithDay
    <3>2. w[k + 1][m] = [income |-> In(k + 1, m), expense |-> Out(k + 1, m)]
      BY <2>5, <2>6, <2>9, <3>1
    <3>3. m \in DOMAIN w[k + 1]
      BY <2>7, <2>9
    <3> QED
      BY <2>6, <2>7, <2>8, <3>2, <3>3 DEF Figure!SumsOf
  <2>10. CASE month[k + 1] # m
    <3>1. m \in DOMAIN w[k] => w[k + 1][m] = w[k][m]
      BY <2>3, <2>4, <2>10 DEF Figure!WithDay
    <3>2. Figure!SumsOf(w[k + 1], m) = Figure!SumsOf(w[k], m)
      BY <2>7, <2>10, <3>1 DEF Figure!SumsOf
    <3> QED
      BY <2>5, <2>6, <2>7, <2>8, <2>10, <3>2
  <2> QED
    BY <2>9, <2>10
<1>7. Adds(n)
  <2>1. n \in T
    <3> HIDE DEF T, n
    <3> QED
      BY <1>1, <1>5, <1>6, EveryNatural
  <2> HIDE DEF Adds
  <2> QED
    BY <1>1, <2>1
<1>8. /\ DOMAIN w[n] \subseteq Months
      /\ \A i \in 1..n : month[i] = rows[i].month /\ month[i] \in Months
  <2>1. w[n] \in Bars
    BY <1>1, <1>3
  <2>2. \A i \in 1..n : rows[i] \in Figure!MoneyRow
    OBVIOUS
  <2> QED
    BY <2>1, <2>2 DEF Bars, Figure!MoneyRow
<1>9. DOMAIN w[n] = {rows[i].month : i \in 1..n}
  BY <1>7, <1>8
<1>10. ASSUME NEW m \in DOMAIN w[n]
       PROVE  w[n][m].income = In(n, m) /\ w[n][m].expense = Out(n, m)
  <2>1. m \in Months
    BY <1>8
  <2>2. Figure!SumsOf(w[n], m) = [income |-> In(n, m), expense |-> Out(n, m)]
    <3> HIDE DEF n, in, out, month, T
    <3> QED
      BY <1>7, <2>1
  <2>3. w[n][m] = Figure!SumsOf(w[n], m)
    BY DEF Figure!SumsOf
  <2> HIDE DEF n, in, out, month, T, Adds
  <2> QED
    BY <2>2, <2>3
<1>11. \A m : {i \in 1..n : month[i] = m} = {i \in 1..n : rows[i].month = m}
  BY <1>8
<1>12. \A m : /\ In(n, m) = SumFunctionOnSet(in, {i \in 1..n : rows[i].month = m})
              /\ Out(n, m) = SumFunctionOnSet(out, {i \in 1..n : rows[i].month = m})
  BY <1>11 DEF In, Out, SumOf
<1> QED
  BY <1>3, <1>9, <1>10, <1>12

\* The currency table after each of the accounts.
Tables == UNION {[C -> Nat] : C \in SUBSET Currencies}
Tabling(w, accounts) ==
    /\ w \in [0..Len(accounts) -> Tables]
    /\ w[0] = Figure!NoCurrencies /\ w[Len(accounts)] = Figure!ByCurrency(accounts)
    /\ \A k \in 1..Len(accounts) : w[k] = Figure!WithAccount(w[k - 1], accounts[k])

LEMMA WithAccountIsTable ==
    ASSUME NEW table \in Tables, NEW a \in Figure!Account, Sums \subseteq Nat
    PROVE  Figure!WithAccount(table, a) \in Tables
<1>1. PICK C \in SUBSET Currencies : table \in [C -> Nat]
  BY DEF Tables
<1>2. a.currency \in Currencies /\ a.balance \in Nat
  BY DEF Figure!Account
<1>3. C \cup {a.currency} \in SUBSET Currencies
  BY <1>2
<1>4. Figure!WithAccount(table, a) \in [C \cup {a.currency} -> Nat]
  BY <1>1, <1>2 DEF Figure!WithAccount
<1> QED
  BY <1>3, <1>4 DEF Tables

LEMMA TableUnfolds ==
    ASSUME NEW accounts \in Seq(Figure!Account), Sums \subseteq Nat
    PROVE  \E w : Tabling(w, accounts)
<1> DEFINE n == Len(accounts)
           Iter(h) == h = [s \in SUBSET (1..n) |->
                              IF s = {} THEN Figure!NoCurrencies
                              ELSE Figure!WithAccount(h[s \ {Max(s)}], accounts[Max(s)])]
           step == [k \in 1..n |-> [w \in Tables |-> Figure!WithAccount(w, accounts[k])]]
           H == CHOOSE h : Iter(h)
<1>1. DOMAIN accounts = 1..n /\ n \in Nat /\ \A k \in 1..n : accounts[k] \in Figure!Account
  OBVIOUS
<1>2. Figure!ByCurrency(accounts) = H[1..n]
  BY <1>1 DEF Figure!ByCurrency, Figure!FoldLeft, Figure!MapThenFoldSet, Figure!Max, Max
<1>3. \A k \in 1..n : \A w \in Tables :
          step[k][w] = Figure!WithAccount(w, accounts[k]) /\ step[k][w] \in Tables
  BY <1>1, WithAccountIsTable
<1>4. Figure!NoCurrencies \in Tables
  <2>1. Figure!NoCurrencies \in [{} -> Nat] /\ {} \in SUBSET Currencies
    BY DEF Figure!NoCurrencies
  <2> QED
    BY <2>1 DEF Tables
<1>5. Stays(Tables, step, n)
  <2> HIDE DEF step, n
  <2> QED
    BY <1>3 DEF Stays
<1>6. \E h : Iter(h)
  <2>1. PICK h \in [SUBSET (1..n) -> Tables] : Folds(h, step, Figure!NoCurrencies, n)
    <3> HIDE DEF step, n
    <3> QED
      BY <1>4, <1>1, <1>5, FoldExists
  <2>2. ASSUME NEW s \in SUBSET (1..n), s # {}
        PROVE  Max(s) \in 1..n /\ s \ {Max(s)} \in SUBSET (1..n)
    BY <1>1, <2>2, MaxIn
  <2>3. \A s \in SUBSET (1..n) :
            h[s] = IF s = {} THEN Figure!NoCurrencies
                   ELSE Figure!WithAccount(h[s \ {Max(s)}], accounts[Max(s)])
    <3> HIDE DEF step, n
    <3> QED
      BY <1>3, <2>1, <2>2 DEF Folds
  <2>4. Iter(h)
    <3> HIDE DEF step, n
    <3> QED
      BY <2>1, <2>3
  <2> QED
    BY <2>4
<1>7. Iter(H)
  <2> HIDE DEF Iter
  <2> QED
    BY <1>6
<1>8. Unfolds(H, Tables, step, Figure!NoCurrencies, n)
  <2>1. {} \in SUBSET (1..n)
    OBVIOUS
  <2>2. ASSUME NEW s \in SUBSET (1..n), s # {}
        PROVE  Max(s) \in 1..n
    BY <1>1, <2>2, MaxIn
  <2> HIDE DEF H, step, n
  <2> QED
    BY <1>3, <1>7, <2>1, <2>2 DEF Unfolds
<1>9. PICK w : Values(w, Tables, step, Figure!NoCurrencies, n, H[1..n])
  <2> HIDE DEF H, n, step
  <2> QED
    BY <1>4, <1>1, <1>8, <1>5, FoldValues
<1>10. \A k \in 1..n : w[k] = Figure!WithAccount(w[k - 1], accounts[k])
  <2> HIDE DEF step, n, H
  <2>1. \A k \in 1..n : w[k - 1] \in Tables
    BY <1>1, <1>9 DEF Values
  <2> QED
    BY <1>3, <1>9, <2>1 DEF Values
<1>11. Tabling(w, accounts)
  <2> HIDE DEF H, step
  <2> QED
    BY <1>2, <1>9, <1>10 DEF Values, Tabling
<1> QED
  BY <1>11

\* The table shows for each currency what its accounts add up to.
LEMMA TableOf ==
    ASSUME NEW accounts \in Seq(Figure!Account), Sums \subseteq Nat, NEW c
    PROVE  LET table == Figure!ByCurrency(accounts)
               n == Len(accounts)
               balance == [i \in 1..n |-> accounts[i].balance]
           IN SumFunctionOnSet(balance, {i \in 1..n : accounts[i].currency = c})
                  = IF c \in DOMAIN table THEN table[c] ELSE 0
<1> DEFINE n == Len(accounts)
           balance == [i \in 1..n |-> accounts[i].balance]
           currency == [i \in 1..n |-> accounts[i].currency]
           Sum(k) == SumOf(balance, currency, c, k)
<1>1. n \in Nat /\ balance \in [1..n -> Nat]
  <2>1. \A i \in 1..n : accounts[i] \in Figure!Account
    OBVIOUS
  <2>2. \A i \in 1..n : accounts[i].balance \in Nat
    BY <2>1 DEF Figure!Account
  <2> QED
    BY <2>2
<1>2. PICK w : Tabling(w, accounts)
  BY TableUnfolds
<1>3. /\ w[0] = Figure!NoCurrencies /\ w[n] = Figure!ByCurrency(accounts)
      /\ \A k \in 1..n : w[k] = Figure!WithAccount(w[k - 1], accounts[k])
  BY <1>2 DEF Tabling
<1>4. /\ Sum(0) = 0
      /\ \A k \in 0..n : Sum(k) \in Nat
      /\ \A k \in 1..n : Sum(k) = Sum(k - 1) + (IF currency[k] = c THEN balance[k] ELSE 0)
  <2> HIDE DEF n, balance, currency
  <2>1. AddsUpTo(balance, currency, c, n)
    BY <1>1, SumPrefix
  <2> QED
    BY <2>1 DEF AddsUpTo
<1> DEFINE Shown(table) == IF c \in DOMAIN table THEN table[c] ELSE 0
           T == {k \in Nat : k <= n => Shown(w[k]) = Sum(k)}
<1> HIDE DEF Sum
<1>5. 0 \in T
  BY <1>3, <1>4 DEF Figure!NoCurrencies
<1>6. ASSUME NEW k \in Nat, k \in T PROVE k + 1 \in T
  <2> SUFFICES ASSUME k + 1 <= n
               PROVE  Shown(w[k + 1]) = Sum(k + 1)
    <3> HIDE DEF Shown
    <3> QED
      OBVIOUS
  <2>1. k + 1 \in 1..n /\ (k + 1) - 1 = k /\ k \in 0..n
    BY <1>1
  <2>2. Shown(w[k]) = Sum(k)
    <3> HIDE DEF Shown
    <3> QED
      BY <1>1, <1>6, <2>1
  <2>3. w[k + 1] = Figure!WithAccount(w[k], accounts[k + 1])
    BY <1>3, <2>1
  <2>4. currency[k + 1] = accounts[k + 1].currency /\ balance[k + 1] = accounts[k + 1].balance
    BY <2>1
  <2>5. /\ Sum(k + 1) = Sum(k) + (IF currency[k + 1] = c THEN balance[k + 1] ELSE 0)
        /\ Sum(k) \in Nat /\ balance[k + 1] \in Nat
    <3>1. balance[k + 1] \in Nat
      BY <1>1, <2>1
    <3> HIDE DEF n, balance, currency
    <3> QED
      BY <1>4, <2>1, <3>1
  <2> HIDE DEF n, balance, currency, T
  <2> QED
    BY <2>2, <2>3, <2>4, <2>5 DEF Figure!WithAccount
<1>7. Shown(w[n]) = Sum(n)
  <2>1. n \in T
    <3> HIDE DEF T, n
    <3> QED
      BY <1>1, <1>5, <1>6, EveryNatural
  <2> HIDE DEF Shown
  <2> QED
    BY <1>1, <2>1
<1>8. {i \in 1..n : currency[i] = c} = {i \in 1..n : accounts[i].currency = c}
  OBVIOUS
<1> QED
  BY <1>3, <1>7, <1>8 DEF Sum, SumOf

\* The sum of the properties is the library's sum of what the entries hold.
LEMMA MonthlyAddsUpWhen ==
    ASSUME input.of = "monthly" => input.rows \in Seq(Figure!MoneyRow), Sums \subseteq Nat
    PROVE  Figure!MonthlyAddsUp
<1> SUFFICES ASSUME input.of = "monthly"
             PROVE  Figure!MonthlyAddsUp
  BY DEF Figure!MonthlyAddsUp
<1> DEFINE rows == input.rows
           n == Len(rows)
           in == [i \in 1..n |-> rows[i].in]
           out == [i \in 1..n |-> rows[i].out]
           months == Figure!Monthly(rows)
           Of(m) == {i \in 1..n : rows[i].month = m}
<1>1. DOMAIN rows = 1..n
  OBVIOUS
<1>2. /\ DOMAIN months = {rows[i].month : i \in 1..n}
      /\ \A m \in DOMAIN months :
            /\ months[m].income = SumFunctionOnSet(in, Of(m))
            /\ months[m].expense = SumFunctionOnSet(out, Of(m))
  BY MonthlyOf
<1>3. \A S : /\ Figure!SumFunctionOnSet(in, S) = SumFunctionOnSet(in, S)
             /\ Figure!SumFunctionOnSet(out, S) = SumFunctionOnSet(out, S)
  BY FigureSum
<1> QED
  BY <1>1, <1>2, <1>3, Zenon DEF Figure!MonthlyAddsUp, Figure!SumWhere

LEMMA TableAddsUpWhen ==
    ASSUME input.of = "wallets" => input.accounts \in Seq(Figure!Account), Sums \subseteq Nat
    PROVE  Figure!CurrencyTableAddsUp
<1> SUFFICES ASSUME input.of = "wallets"
             PROVE  Figure!CurrencyTableAddsUp
  BY DEF Figure!CurrencyTableAddsUp
<1> DEFINE accounts == input.accounts
           n == Len(accounts)
           balance == [i \in 1..n |-> accounts[i].balance]
           table == Figure!ByCurrency(accounts)
           Of(c) == {i \in 1..n : accounts[i].currency = c}
<1>1. DOMAIN accounts = 1..n
  OBVIOUS
<1>2. \A c : SumFunctionOnSet(balance, Of(c)) = IF c \in DOMAIN table THEN table[c] ELSE 0
  BY TableOf
<1>3. \A S : Figure!SumFunctionOnSet(balance, S) = SumFunctionOnSet(balance, S)
  BY FigureSum
<1> QED
  BY <1>1, <1>2, <1>3, Zenon DEF Figure!CurrencyTableAddsUp, Figure!Held, Figure!SumWhere

\* The bars of the chart are the sums of the days of their months, and the
\* currency table shows what the accounts hold, however many there are.
THEOREM FiguresAreSums == FormsSpec => []FiguresAddUp
<1> DEFINE Days == input.of = "monthly" => input.rows \in Seq(Figure!MoneyRow)
           Held == input.of = "wallets" => input.accounts \in Seq(Figure!Account)
<1>1. FormsInit => Days /\ Held
  BY DEF FormsInit, Figure!Init
<1>2. ASSUME Days /\ Held, [FormsNext]_formsVars
      PROVE  Days' /\ Held'
  <2>1. CASE UNCHANGED input
    BY <1>2, <2>1
  <2>2. CASE Figure!MonthlyChart
    <3>1. PICK rows \in Figure!SeqsUpTo(Figure!MoneyRow, MaxRows) :
              input' = [of |-> "monthly", rows |-> rows]
      BY <2>2 DEF Figure!MonthlyChart
    <3>2. rows \in Seq(Figure!MoneyRow)
      BY <3>1, SequencesUpTo
    <3> QED
      BY <3>1, <3>2
  <2>3. CASE Figure!Wallets
    <3>1. PICK accounts \in Figure!SeqsUpTo(Figure!Account, MaxAccounts) :
              input' = [of |-> "wallets", accounts |-> accounts]
      BY <2>3 DEF Figure!Wallets
    <3>2. accounts \in Seq(Figure!Account)
      BY <3>1, SequencesUpTo
    <3> QED
      BY <3>1, <3>2
  <2>4. CASE Figure!Iban \/ Figure!Pager
    BY <2>4 DEF Figure!Iban, Figure!Pager
  <2>5. [Figure!Next]_input
    BY <1>2, FormsSteps
  <2> QED
    BY <2>1, <2>2, <2>3, <2>4, <2>5 DEF Figure!Next
<1>3. Days /\ Held => FiguresAddUp
  <2>1. Sums \subseteq Nat
    BY FormsAssumption DEF FormsAssumption, Figure!FiguresAssumption
  <2> QED
    BY <2>1, MonthlyAddsUpWhen, TableAddsUpWhen DEF FiguresAddUp
<1> QED
  BY <1>1, <1>2, <1>3, PTL DEF FormsSpec

-----------------------------------------------------------------------------
(* All forms *)

\* Every form holds what can be typed into it, and every request what the code
\* can put into it, for any accounts, names, days and profiles.
THEOREM FormsAreTyped == FormsSpec => []FormsTyped
<1> DEFINE FormsInv == IInv /\ CashInv /\ StatementInv /\ ProfileInv
<1>1. FormsInit => FormsInv
  BY Initially, InitDeposit, InitStatements, InitProfile, FormsAssumption
     DEF FormsInit, FormsAssumption
<1>2. FormsInv /\ [FormsNext]_formsVars => FormsInv'
  BY Inductive, NextDeposit, NextStatements, NextProfile, FormsSteps, FormsAssumption
     DEF FormsAssumption
<1>3. FormsInv => FormsTyped
  BY DEF IInv, CashInv, StatementInv, ProfileInv, FormsTyped
<1> QED
  BY <1>1, <1>2, <1>3, PTL DEF FormsSpec

=============================================================================
