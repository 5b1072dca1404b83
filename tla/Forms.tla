------------------------------- MODULE Forms -------------------------------
(***************************************************************************)
(* What a user fills in or reads off: the send-money dialog, the deposit   *)
(* form, the statement forms, the account page and the figures.  They      *)
(* share no state, so a behaviour is about one of them (part), and a run   *)
(* covers those it names (Parts).                                          *)
(***************************************************************************)
EXTENDS SendMoney

CONSTANTS
    Parts,          \* a subset of {"send", "deposit", "statements", "profile", "figures"}
    DepositAccounts, Names, Lengths, DepositAmounts, MaxPosts,
    StatementForms, Today, MaxAsked,
    Details, Blank, InitialDetails, Pictures, MaxPuts, MaxFocus,
    Digits, MaxDigits, ChunkLength, Modulus, MaxPages, Months, Sums, MaxRows,
    Currencies, MaxAccounts, Worth

VARIABLES
    part,
    depositOpen, depositForm, depositConfirm, pending, posted,
    range, asked, inbox, toasts,
    profile, cache, editing, profileForm, preview, reading, puts, acked, focuses,
    input

Deposit == INSTANCE DepositForm WITH
    Accounts <- DepositAccounts, Amounts <- DepositAmounts,
    open <- depositOpen, form <- depositForm, confirm <- depositConfirm

Statement == INSTANCE Statements WITH Forms <- StatementForms

ProfileForm == INSTANCE ProfilePage WITH form <- profileForm

Figure == INSTANCE Figures

ASSUME FormsAssumption ==
    /\ SendAssumption /\ Deposit!DepositAssumption
    /\ Statement!StatementsAssumption /\ ProfileForm!ProfileAssumption
    /\ Figure!FiguresAssumption

depositVars == <<depositOpen, depositForm, depositConfirm, pending, posted>>
statementVars == <<range, asked, inbox, toasts>>
profileVars == <<profile, cache, editing, profileForm, preview, reading, puts,
                 acked, focuses>>
formsVars == <<part, vars, depositVars, statementVars, profileVars, input>>

FormsInit ==
    /\ part \in Parts
    /\ Init /\ Deposit!Init /\ Statement!Init
    /\ ProfileForm!Init /\ Figure!Init

FormsNext ==
    \/ /\ part = "send" /\ Next
       /\ UNCHANGED <<part, depositVars, statementVars, profileVars, input>>
    \/ /\ part = "deposit" /\ Deposit!Next
       /\ UNCHANGED <<part, vars, statementVars, profileVars, input>>
    \/ /\ part = "statements" /\ Statement!Next
       /\ UNCHANGED <<part, vars, depositVars, profileVars, input>>
    \/ /\ part = "profile" /\ ProfileForm!Next
       /\ UNCHANGED <<part, vars, depositVars, statementVars, input>>
    \/ /\ part = "figures" /\ Figure!Next
       /\ UNCHANGED <<part, vars, depositVars, statementVars, profileVars>>

FormsSpec == FormsInit /\ [][FormsNext]_formsVars

-----------------------------------------------------------------------------
(* The properties of the other modules, each stated there *)

\* Every form holds what can be typed into it, and every request what the code
\* can put into it.
FormsTyped ==
    /\ TypeOK /\ Deposit!TypeOK /\ Statement!TypeOK
    /\ ProfileForm!TypeOK

CashNamedCash == Deposit!CashNamedCash
SentMeansDelivered == Statement!SentMeansDelivered
SaveKeepsPicture == ProfileForm!SaveKeepsPicture
ChecksumIsRemainder == Figure!ChecksumIsRemainder
PagerLeadsEverywhere == Figure!PagerLeadsEverywhere
FiguresAddUp == Figure!MonthlyAddsUp /\ Figure!CurrencyTableAddsUp
=============================================================================
