------------------------------- MODULE Shell -------------------------------
(***************************************************************************)
(* What surrounds every page: the session, the cards with their loading    *)
(* and error states, and the error reporter.  They share no state here, so *)
(* a behaviour is about one of them (part), and a run covers those it      *)
(* names (Parts).                                                          *)
(***************************************************************************)
EXTENDS Session

CONSTANTS
    Parts,          \* a subset of {"session", "cards", "reports"}
    Ranges, FirstRange, MaxChanges,
    Messages, MaxErrors

VARIABLES
    part,
    rows, cache, onScreen, range, last, dialog, checks, online, paused, changes,
    errors, recent, posts, spawned, recorded

Card == INSTANCE Cards

Reporter == INSTANCE ErrorReports WITH rows <- recorded

ASSUME ShellAssumption ==
    SessionAssumption /\ Card!CardsAssumption /\ Reporter!ReportsAssumption

cardVars == <<rows, cache, onScreen, range, last, dialog, checks, online, paused, changes>>
reportVars == <<errors, recent, posts, spawned, recorded>>
shellVars == <<part, vars, cardVars, reportVars>>

ShellInit ==
    /\ part \in Parts
    /\ Init /\ Card!Init /\ Reporter!Init
    /\ part # "cards" => checks /\ \A r \in DOMAIN rows : rows[r] = "none"

InSession(A) == part = "session" /\ A /\ UNCHANGED <<part, cardVars, reportVars>>
InCards(A) == part = "cards" /\ A /\ UNCHANGED <<part, vars, reportVars>>
InReports(A) == part = "reports" /\ A /\ UNCHANGED <<part, vars, cardVars>>

ShellNext == InSession(Next) \/ InCards(Card!Next) \/ InReports(Reporter!Next)

ShellSpec == ShellInit /\ [][ShellNext]_shellVars

\* The fairness that the modules state, for the component of the behaviour.
ShellFairSpec ==
    /\ ShellSpec
    /\ WF_shellVars(InSession(SubmitFails \/ SubmitAnswered))
    /\ WF_shellVars(InSession(SubmitEnds))
    /\ WF_shellVars(InSession(ReadMe)) /\ WF_shellVars(InSession(MeEnds))
    /\ \A r \in Ranges :
           WF_shellVars(InCards(Card!ReadRows(r))) /\ WF_shellVars(InCards(Card!Ends(r)))
    /\ \A f \in Reporter!Fingerprints : WF_shellVars(InReports(Reporter!PostEnds(f)))
    /\ WF_shellVars(InReports(Reporter!SpawnedRuns))
    /\ WF_shellVars(InReports(Reporter!SpawnedEnds))

-----------------------------------------------------------------------------
(* The properties of the other modules, each stated there *)

\* Every user, page, answer and count is one that the code can have there.
ShellTyped == TypeOK /\ Card!TypeOK /\ Reporter!TypeOK

SkeletonEnds == Card!SkeletonEnds
RecordingEnds == Reporter!RecordingEnds

\* A card whose hook looks at r.ok passes no failure, refusal or unfinished fetch
\* for an empty list, and a chart shows another range in full colour only while
\* the fetch of its own waits for the network.
CardsTruthful == Card!EmptyIsAnswered /\ Card!UndimmedIsOfRange
=============================================================================
