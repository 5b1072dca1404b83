---------------------------- MODULE ErrorReports ----------------------------
(***************************************************************************)
(* How an error becomes a row of bugreports.  A failed request is reported *)
(* by the browser, twice, unless an equal report was made within the last  *)
(* 30 seconds; the server records every error event of its own log, and a  *)
(* report is a request that can fail, or be slow, and be logged again.     *)
(***************************************************************************)
EXTENDS Integers, FiniteSets

CONSTANTS
    Messages,       \* the messages that failed requests carry
    MaxErrors       \* bound: errors and logged requests that occur

ReportsAssumption == IsFiniteSet(Messages) /\ MaxErrors \in Nat

VARIABLES
    errors,     \* how many have occurred
    recent,     \* the browser's fingerprints of the last 30 seconds
    posts,      \* fingerprint -> reports on their way to the server
    spawned,    \* inserts the server's tracing layer has spawned: waiting for a
                \* connection, and running
    rows        \* rows recorded, by whom

vars == <<errors, recent, posts, spawned, rows>>

\* A fingerprint is the type, the message and the stack; the stack goes with
\* the message here.
ReportTypes == {"ApiError", "Server", "PromiseRejection"}
Fingerprints == ReportTypes \X Messages

\* The error events of one request: that of its handler and, when it is a 5xx,
\* the tracing layer's "response failed" and, after 3 seconds, its "very slow
\* request".  A statement whose PDF is not compiled logs one more.
LoggedByReport == 3
LoggedByRequest == 4

\* An error is reported twice at most; every report is a request, too.
MaxRecordings == (LoggedByRequest + 2 * LoggedByReport) * MaxErrors

TypeOK ==
    /\ errors \in 0..MaxErrors
    /\ recent \subseteq Fingerprints
    /\ posts \in [Fingerprints -> 0..MaxErrors]
    /\ spawned \in [{"waiting", "running"} -> 0..MaxRecordings]
    /\ rows \in [{"browser", "server"} -> 0..MaxRecordings]

Init ==
    /\ errors = 0 /\ recent = {}
    /\ spawned = [phase \in {"waiting", "running"} |-> 0]
    /\ posts = [f \in Fingerprints |-> 0]
    /\ rows = [by \in {"browser", "server"} |-> 0]

-----------------------------------------------------------------------------
(* The browser *)

\* report, for each of fs: remembered before it is known to arrive.
Report(fs) ==
    LET new == fs \ recent IN
    /\ recent' = recent \cup new
    /\ posts' = [f \in Fingerprints |-> posts[f] + IF f \in new THEN 1 ELSE 0]

Occurs == errors < MaxErrors /\ errors' = errors + 1

\* on_event, for each of n events of level ERROR.
Spawn(n) == spawned' = [spawned EXCEPT !["waiting"] = @ + n]

\* The cache's onError reports the failure, and so does the onError that a
\* dialog gave to mutate if it is still open.  Behind it there may be a response
\* that the server logged.
RequestFails(m) ==
    /\ Occurs
    /\ \E byDialog \in BOOLEAN, n \in 0..LoggedByRequest :
        /\ Report({<<"ApiError", m>>} \cup IF byDialog THEN {<<"Server", m>>} ELSE {})
        /\ Spawn(n)
    /\ UNCHANGED rows

\* The browser reports nothing: the request is tried again, its failure is not
\* looked at, or it was only slow.
RequestLogged ==
    /\ Occurs
    /\ \E n \in 1..LoggedByRequest : Spawn(n)
    /\ UNCHANGED <<recent, posts, rows>>

\* window.onunhandledrejection, and window.onerror alike.
PageFails(m) ==
    /\ Occurs
    /\ Report({<<"PromiseRejection", m>>})
    /\ UNCHANGED <<spawned, rows>>

\* The timer that forgets a fingerprint.
Forget(f) ==
    /\ f \in recent
    /\ recent' = recent \ {f}
    /\ UNCHANGED <<errors, posts, spawned, rows>>

Received(f) == posts[f] > 0 /\ posts' = [posts EXCEPT ![f] = @ - 1]

\* The request or its answer is lost, or the server is down: only the console
\* hears of it.
PostLost(f) == Received(f) /\ UNCHANGED <<errors, recent, spawned, rows>>

-----------------------------------------------------------------------------
(* The server *)

\* create_bug_report, which may take its time: on_response.
PostRecorded(f) ==
    /\ Received(f)
    /\ rows' = [rows EXCEPT !["browser"] = @ + 1]
    /\ \E slow \in 0..1 : Spawn(slow)
    /\ UNCHANGED <<errors, recent>>

\* The insert fails, which the handler logs, and the response is a 5xx.
PostFails(f) ==
    /\ Received(f)
    /\ \E slow \in 0..1 : Spawn(2 + slow)
    /\ UNCHANGED <<errors, recent, rows>>

SpawnedRuns ==
    /\ spawned["waiting"] > 0
    /\ spawned' = [spawned EXCEPT !["waiting"] = @ - 1, !["running"] = @ + 1]
    /\ UNCHANGED <<errors, recent, posts, rows>>

SpawnedRecorded ==
    /\ spawned["running"] > 0
    /\ spawned' = [spawned EXCEPT !["running"] = @ - 1]
    /\ rows' = [rows EXCEPT !["server"] = @ + 1]
    /\ UNCHANGED <<errors, recent, posts>>

\* Regression: the layer logs its own failure as an error, which it records.
SpawnedFailsLoudly ==
    /\ spawned["running"] > 0
    /\ spawned' = [spawned EXCEPT !["running"] = @ - 1, !["waiting"] = @ + 1]
    /\ UNCHANGED <<errors, recent, posts, rows>>

\* No request: the result of a spawned insert is dropped, and nobody logs it.
SpawnedFails ==
    /\ spawned["running"] > 0
    /\ spawned' = [spawned EXCEPT !["running"] = @ - 1]
    /\ UNCHANGED <<errors, recent, posts, rows>>

PostEnds(f) == PostLost(f) \/ PostRecorded(f) \/ PostFails(f)
SpawnedEnds == SpawnedRecorded \/ SpawnedFails

Next ==
    \/ \E m \in Messages : RequestFails(m) \/ PageFails(m)
    \/ \E f \in Fingerprints : Forget(f) \/ PostEnds(f)
    \/ RequestLogged \/ SpawnedRuns \/ SpawnedEnds

Spec == Init /\ [][Next]_vars

\* A report that was sent reaches the server or is given up; a spawned task gets
\* a connection or its timeout, and its statement ends.
FairSpec ==
    /\ Spec
    /\ \A f \in Fingerprints : WF_vars(PostEnds(f))
    /\ WF_vars(SpawnedRuns) /\ WF_vars(SpawnedEnds)

-----------------------------------------------------------------------------
(* Properties *)

\* Recording errors ends: an error of the recording does not feed on itself,
\* neither in the browser nor through what the server logs of the reports.
RecordingEnds ==
    <>[]/\ spawned["waiting"] = 0 /\ spawned["running"] = 0
       /\ \A f \in Fingerprints : posts[f] = 0
=============================================================================
