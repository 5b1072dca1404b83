---------------------------- MODULE SavingsGoals ----------------------------
(***************************************************************************)
(* POST /api/savings, PATCH and DELETE /api/savings/:id.  Each is one      *)
(* auto-committed statement, but a DELETE that found no goal of its caller *)
(* asks in a second one whether the goal exists, to word its refusal.      *)
(***************************************************************************)
EXTENDS Money

CONSTANTS Requests, Users, Goals, None,
          Amounts  \* targets and progress that bodies name; nothing validates them

Body ==
    [op: {"create"}, user: Users, named: BOOLEAN, amount: Amounts] \cup
    [op: {"update"}, user: Users, goal: Goals, amount: Amounts] \cup
    [op: {"delete"}, user: Users, goal: Goals]

\* What the NUMERIC(15,2) columns hold.
Stored == {x \in -BalanceCap .. BalanceCap : WholeCents(x)}
GoalRow == [owner: Users, current: Stored, target: Stored]

ASSUME SavingsAssumption ==
    /\ Amounts \subseteq Int
    /\ None \notin Users \cup Body \cup GoalRow

VARIABLES
    pc, req, resp,  \* per request: next statement, body, answer
    goal,           \* rows of savings_goals
    given           \* the user each id was ever given to

vars == <<pc, req, resp, goal, given>>

Answers == {"none", "ok", "invalid", "not found", "not your goal", "internal"}

\* Every variable has its type, and amounts are stored as their columns round
\* and bound them.
TypeOK ==
    /\ pc \in [Requests -> {"idle", "execute", "exists", "done"}]
    /\ req \in [Requests -> Body \cup {None}]
    /\ resp \in [Requests -> Answers]
    /\ goal \in [Goals -> GoalRow \cup {None}]
    /\ given \in [Goals -> Users \cup {None}]

Init ==
    /\ pc = [r \in Requests |-> "idle"]
    /\ req = [r \in Requests |-> None]
    /\ resp = [r \in Requests |-> "none"]
    /\ given \in [Goals -> Users \cup {None}]
    /\ goal = [g \in Goals |-> IF given[g] = None THEN None
                               ELSE [owner |-> given[g], current |-> 0, target |-> 0]]

-----------------------------------------------------------------------------

At(r, op) == pc[r] = "execute" /\ req[r].op = op

Reply(r, answer) ==
    /\ pc' = [pc EXCEPT ![r] = "done"]
    /\ resp' = [resp EXCEPT ![r] = answer]
    /\ UNCHANGED req

\* What a client is told after an effect; the connection may break in between.
Outcome(r) == \E answer \in {"ok", "internal"} : Reply(r, answer)

\* Only the length of a new goal's name is validated.
Receive(r, b) ==
    /\ pc[r] = "idle"
    /\ req' = [req EXCEPT ![r] = b]
    /\ LET valid == b.op = "create" => b.named IN
        /\ pc' = [pc EXCEPT ![r] = IF valid THEN "execute" ELSE "done"]
        /\ resp' = [resp EXCEPT ![r] = IF valid THEN "none" ELSE "invalid"]
    /\ UNCHANGED <<goal, given>>

\* gen_random_uuid() gives an id that nobody has had or named.
Named == {g \in Goals : \E r \in Requests : /\ req[r] # None
                                            /\ req[r].op \in {"update", "delete"}
                                            /\ req[r].goal = g}
CreateGoal(r) ==
    LET b == req[r] IN
    /\ At(r, "create")
    /\ Fits(Numeric2(b.amount))
    /\ \E g \in {h \in Goals : given[h] = None} \ Named :
        /\ goal' = [goal EXCEPT ![g] = [owner |-> b.user, current |-> 0,
                                        target |-> Numeric2(b.amount)]]
        /\ given' = [given EXCEPT ![g] = b.user]
    /\ Outcome(r)

Owns(b) == goal[b.goal] # None /\ goal[b.goal].owner = b.user

UpdateProgress(r) ==
    LET b == req[r] IN
    /\ At(r, "update")
    /\ \/ /\ Owns(b) /\ Fits(Numeric2(b.amount))
          /\ goal' = [goal EXCEPT ![b.goal].current = Numeric2(b.amount)]
          /\ Outcome(r)
       \/ ~Owns(b) /\ Reply(r, "not found") /\ UNCHANGED goal
    /\ UNCHANGED given

\* Regression: the row count is not looked at.
DeleteUncounted(r) ==
    LET b == req[r] IN
    /\ At(r, "delete")
    /\ goal' = IF Owns(b) THEN [goal EXCEPT ![b.goal] = None] ELSE goal
    /\ Outcome(r)
    /\ UNCHANGED given

\* The goal is deleted, or the handler goes on to ask why it was not.
Delete(r) ==
    LET b == req[r] IN
    /\ At(r, "delete")
    /\ \/ Owns(b) /\ goal' = [goal EXCEPT ![b.goal] = None] /\ Outcome(r)
       \/ ~Owns(b) /\ pc' = [pc EXCEPT ![r] = "exists"] /\ UNCHANGED <<req, resp, goal>>
    /\ UNCHANGED given

Exists(r) ==
    /\ pc[r] = "exists"
    /\ Reply(r, IF goal[req[r].goal] # None THEN "not your goal" ELSE "not found")
    /\ UNCHANGED <<goal, given>>

\* No connection in time, a value that overflows its column, or another error.
Fails(r) ==
    /\ pc[r] \in {"execute", "exists"}
    /\ Reply(r, "internal")
    /\ UNCHANGED <<goal, given>>

Finished == \A r \in Requests : pc[r] = "done"

Next ==
    \/ \E r \in Requests :
        \/ \E b \in Body : Receive(r, b)
        \/ CreateGoal(r) \/ UpdateProgress(r) \/ Delete(r) \/ Exists(r) \/ Fails(r)
    \/ Finished /\ UNCHANGED vars

Spec == Init /\ [][Next]_vars

-----------------------------------------------------------------------------
(* Properties *)

Deleting(r) == req[r] # None /\ req[r].op = "delete"

\* What a DELETE is answered is true and stays true, whoever acts between its
\* two statements or after them: "not your goal" is said of another's goal, a goal
\* that was deleted or not found is gone for good, and no two requests are told
\* that they deleted one goal.
DeletionAnswersHold ==
    \A r \in Requests : Deleting(r) =>
        /\ resp[r] = "not your goal" => given[req[r].goal] \notin {req[r].user, None}
        /\ resp[r] \in {"not found", "ok"} => goal[req[r].goal] = None
        /\ resp[r] = "ok" => \A s \in Requests \ {r} :
               Deleting(s) /\ req[s].goal = req[r].goal => resp[s] # "ok"
=============================================================================
