----------------------------- MODULE Statements -----------------------------
(***************************************************************************)
(* The two places that ask for a statement: the toolbar of the             *)
(* transactions page and the "View Statements" dialog.  Each has a period, *)
(* a download and an e-mail of its own; the e-mail passes through the      *)
(* server and a mail service, and every answer on that way can be lost.    *)
(***************************************************************************)
EXTENDS Integers, FiniteSets, Sequences

CONSTANTS
    None,
    Forms,      \* the places
    Today,      \* days are numbers; the calendar ends today
    MaxAsked    \* bound: statements asked for

StatementsAssumption ==
    /\ Today \in Nat /\ None \notin Int /\ MaxAsked \in Nat

VARIABLES
    range,      \* form -> [from, to], each a day or None
    asked,      \* the requests, in order
    inbox,      \* requests whose mail was delivered, as often as it was
    toasts      \* request -> what the user was told: "sent" (or saved), "failed"

vars == <<range, asked, inbox, toasts>>

Days == 0..Today
NoRange == [from |-> None, to |-> None]

\* What the calendar offers: a start, or a start and an end that follows it, no
\* later than today; or nothing, after "Clear".
Range == {NoRange} \cup {[from |-> d, to |-> None] : d \in Days}
         \cup UNION {{[from |-> d, to |-> e] : e \in d..Today} : d \in Days}

\* server: being prepared; mail: with the mail service; sent, refused: the
\* service has answered; ok, error: so has the server; over: the toast is up.
Phase == {"server", "mail", "sent", "refused", "ok", "error", "over"}
Request == [form: Forms \cup {None}, kind: {"pdf", "email"}, from: Days, to: Days, phase: Phase]

TypeOK ==
    /\ range \in [Forms -> Range]
    /\ asked \in Seq(Request)
    /\ inbox \subseteq 1..MaxAsked
    /\ toasts \in [1..MaxAsked -> {"none", "sent", "failed"}]

Init ==
    /\ range = [f \in Forms |-> NoRange]
    /\ asked = <<>>
    /\ inbox = {}
    /\ toasts = [a \in 1..MaxAsked |-> "none"]

-----------------------------------------------------------------------------
(* The period *)

\* dateRangeSchema
DateRangeValid(r) ==
    /\ r.from # None /\ r.to # None
    /\ r.from <= r.to
    /\ r.to <= Today

ChooseRange(f, r) ==
    /\ range' = [range EXCEPT ![f] = r]
    /\ UNCHANGED <<asked, inbox, toasts>>

-----------------------------------------------------------------------------
(* Asking *)

Busy(f, kind) ==
    \E a \in DOMAIN asked :
        asked[a].form = f /\ asked[a].kind = kind /\ asked[a].phase # "over"

Downloading(f) == Busy(f, "pdf")
Emailing(f) == Busy(f, "email")

CanExport(f) == DateRangeValid(range[f]) /\ ~Downloading(f) /\ ~Emailing(f)

Ask(f, kind) ==
    /\ CanExport(f)
    /\ Len(asked) < MaxAsked
    /\ asked' = Append(asked, [form |-> f, kind |-> kind, from |-> range[f].from,
                               to |-> range[f].to, phase |-> "server"])
    /\ UNCHANGED <<range, inbox, toasts>>

HandlePdf(f) == Ask(f, "pdf")
HandleEmailPdf(f) == Ask(f, "email")

\* The page is left, or the dialog closed: its period is gone, the requests run
\* on, and the next instance does not know of them.
Leave(f) ==
    /\ range' = [range EXCEPT ![f] = NoRange]
    /\ asked' = [a \in DOMAIN asked |->
                    IF asked[a].form = f THEN [asked[a] EXCEPT !.form = None] ELSE asked[a]]
    /\ UNCHANGED <<inbox, toasts>>

-----------------------------------------------------------------------------
(* The server, and the mail service behind it *)

Step(a, phase) ==
    /\ asked' = [asked EXCEPT ![a].phase = phase]
    /\ UNCHANGED <<range, toasts>>

\* The database, the typesetter or a missing key: nothing was sent.
PrepareFails(a) == asked[a].phase = "server" /\ Step(a, "error") /\ UNCHANGED inbox

Prepared(a) ==
    /\ asked[a].phase = "server"
    /\ Step(a, IF asked[a].kind = "pdf" THEN "ok" ELSE "mail")
    /\ UNCHANGED inbox

\* The service takes the mail, or not.
MailAccepted(a) ==
    /\ asked[a].phase = "mail"
    /\ inbox' = inbox \cup {a}
    /\ Step(a, "sent")
MailRefused(a) == asked[a].phase = "mail" /\ Step(a, "refused") /\ UNCHANGED inbox

\* Regression: any answer of the service counts as a success.
MailAnsweredAny(a) ==
    /\ asked[a].phase \in {"sent", "refused"}
    /\ Step(a, "ok") /\ UNCHANGED inbox

\* The status of its answer decides.
MailAnswered(a) ==
    /\ asked[a].phase \in {"sent", "refused"}
    /\ Step(a, IF asked[a].phase = "sent" THEN "ok" ELSE "error") /\ UNCHANGED inbox

\* The service cannot be reached, or its answer does not arrive: 502.
MailLost(a) ==
    /\ asked[a].phase \in {"mail", "sent", "refused"}
    /\ Step(a, "error") /\ UNCHANGED inbox

\* The toast, and with it the button is free again.
Answered(a) ==
    /\ asked[a].phase \in {"ok", "error"}
    /\ asked' = [asked EXCEPT ![a].phase = "over"]
    /\ toasts' = [toasts EXCEPT ![a] = IF asked[a].phase = "ok" THEN "sent" ELSE "failed"]
    /\ UNCHANGED <<range, inbox>>

\* The answer to the browser is lost.
Lost(a) ==
    /\ asked[a].phase \notin {"mail", "over"}
    /\ asked' = [asked EXCEPT ![a].phase = "over"]
    /\ toasts' = [toasts EXCEPT ![a] = "failed"]
    /\ UNCHANGED <<range, inbox>>

Next ==
    \/ \E f \in Forms :
           \/ \E r \in Range : ChooseRange(f, r)
           \/ HandlePdf(f) \/ HandleEmailPdf(f) \/ Leave(f)
    \/ \E a \in DOMAIN asked :
           \/ PrepareFails(a) \/ Prepared(a) \/ MailAccepted(a) \/ MailRefused(a)
           \/ MailAnswered(a) \/ MailLost(a) \/ Answered(a) \/ Lost(a)

Spec == Init /\ [][Next]_vars

-----------------------------------------------------------------------------
(* Properties *)

\* "Statement sent to ..." is only said of a mail that the service has taken.
SentMeansDelivered ==
    \A a \in DOMAIN asked :
        asked[a].kind = "email" /\ toasts[a] = "sent" => a \in inbox

-----------------------------------------------------------------------------
(* Known not to hold; see the README *)

\* "Email sending failed", "email service unavailable": nothing was sent, so
\* that asking again does not send it twice.
FailedMeansNotSent == \A a \in DOMAIN asked : toasts[a] = "failed" => a \notin inbox
=============================================================================
