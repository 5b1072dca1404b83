----------------------------- MODULE QueryCache -----------------------------
(***************************************************************************)
(* One entry of TanStack Query's cache, as the pages rely on it: what a    *)
(* fetch, its answer, an invalidation and a direct write do to the entry.  *)
(* Code that the repository depends on; lib/query-client.ts configures it. *)
(***************************************************************************)

\* data: the last answer; stale: to be fetched again when next mounted;
\* fetch: "sent" until the server has read, "read" until the answer arrives,
\* which then carries got; error: the last fetch failed.
NoEntry(nothing) ==
    [data |-> nothing, stale |-> TRUE, fetch |-> "idle", got |-> nothing, error |-> FALSE]

EntryOver(Data) ==
    [data: Data, stale: BOOLEAN, fetch: {"idle", "sent", "read"}, got: Data,
     error: BOOLEAN]

Idle(e) == e.fetch = "idle"

\* The request in flight is dropped, together with its answer.  An error stays
\* visible until there is an answer, unless there is no data to show.
Restart(e, nothing) ==
    [e EXCEPT !.fetch = "sent", !.got = nothing, !.error = @ /\ e.data # nothing]

\* A request is sent unless one is in flight, which is then joined.
Start(e, nothing) == IF Idle(e) THEN Restart(e, nothing) ELSE e

\* A component that uses the query mounts, with the default refetchOnMount.
MountQuery(e, nothing) == IF e.stale THEN Start(e, nothing) ELSE e

Read(e, answer) == [e EXCEPT !.fetch = "read", !.got = answer]

\* An answer makes the entry fresh, whatever was invalidated meanwhile.
Arrive(e, nothing) ==
    [data |-> e.got, stale |-> FALSE, fetch |-> "idle", got |-> nothing, error |-> FALSE]

\* All retries failed: the data shown before stays.
Fail(e, nothing) == [e EXCEPT !.fetch = "idle", !.got = nothing, !.error = TRUE]

\* invalidateQueries: a mounted query is fetched again at once.  A fetch in
\* flight is restarted, but only if there is data: the first one is joined.
Invalidate(e, mounted, nothing) ==
    [(IF ~mounted THEN e
      ELSE IF e.data = nothing THEN Start(e, nothing)
      ELSE Restart(e, nothing))
     EXCEPT !.stale = TRUE]

\* The answer under way that an invalidation does not recall: of a query that is
\* not mounted, or that has no data yet.
GoesOn(e, mounted, nothing) ==
    e.fetch = "read" /\ ~(mounted /\ e.data # nothing)

\* A query whose data is not there yet is pending while it is fetched.
Pending(e, nothing) == e.data = nothing /\ ~e.error

\* placeholderData: (prev) => prev, for a query of many keys: while the key has
\* no data yet, the data of the key shown before (last) stands in.
Shown(cache, key, last, nothing) ==
    IF cache[key].data # nothing THEN cache[key].data
    ELSE IF last # nothing /\ ~cache[key].error THEN cache[last].data
    ELSE nothing

\* The component shows another key: the one whose data it leaves behind.
LastShown(cache, key, last, nothing) == IF cache[key].data # nothing THEN key ELSE last

\* setQueryData: a fetch in flight goes on, and overwrites what is written here.
SetData(e, value) == [e EXCEPT !.data = value, !.stale = FALSE, !.error = FALSE]

-----------------------------------------------------------------------------
(* History: an answer is overtaken when the user is told of a write that it *)
(* was read before (lacking), and it goes on; then so is the data it brings. *)

Overtaking == {"no", "answer", "data"}

\* Whatever the data was, it is stale now.
OvertakenOnInvalidate(o, e, mounted, lacking, nothing) ==
    IF GoesOn(e, mounted, nothing) /\ (lacking \/ o = "answer") THEN "answer" ELSE "no"

OvertakenOnArrive(o) == IF o = "answer" THEN "data" ELSE "no"
OvertakenOnFail(o) == IF o = "answer" THEN "no" ELSE o
=============================================================================
