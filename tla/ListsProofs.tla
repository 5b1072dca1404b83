---------------------------- MODULE ListsProofs ----------------------------
(***************************************************************************)
(* What holds of the lists for any users, goals, rows, pages and requests: *)
(* that the answers about savings goals are true although a refused DELETE *)
(* takes two statements, and what the pages of the browser promise.        *)
(***************************************************************************)
EXTENDS Lists, Rows, QueryCacheProofs, SequenceTheorems, FiniteSetTheorems,
        WellFoundedInduction

-----------------------------------------------------------------------------
(* The savings goals *)

\* A row belongs to the user its id was given to.
RowsGiven == \A g \in Goals : goal[g] # None => given[g] = goal[g].owner

\* What a request knows of its goal stays true: nobody else takes the goal of
\* its user away from a DELETE without the goal being gone.
Known(r) ==
    LET b == req[r] IN
    /\ b \in Body \/ (b = None /\ pc[r] = "idle")
    /\ pc[r] \in {"idle", "execute", "exists"} => resp[r] = "none"
    /\ pc[r] = "exists" => b # None /\ b.op = "delete" /\ ~Owns(b)
    /\ Deleting(r) /\ resp[r] = "not your goal" => given[b.goal] \notin {b.user, None}
    /\ Deleting(r) /\ resp[r] \in {"not found", "ok"} => goal[b.goal] = None

\* Of the requests that delete a goal at most one is told that it did.
DeletedOnce ==
    \A r, s \in Requests :
        /\ Deleting(r) /\ Deleting(s) /\ req[r].goal = req[s].goal
        /\ resp[r] = "ok" /\ resp[s] = "ok"
        => r = s

GoalsInv == TypeOK /\ RowsGiven /\ (\A r \in Requests : Known(r)) /\ DeletedOnce

LEMMA BodyFields ==
    ASSUME NEW b \in Body
    PROVE  /\ b # None /\ b.user \in Users /\ b.op \in {"create", "update", "delete"}
           /\ b.op \in {"create", "update"} => b.amount \in Int
           /\ b.op \in {"update", "delete"} => b.goal \in Goals
  BY SavingsAssumption DEF Body, SavingsAssumption

LEMMA AmountsAreStored ==
    ASSUME NEW x \in Int, Fits(Numeric2(x))
    PROVE  Numeric2(x) \in Stored
<1>1. Numeric2(x) \in Int /\ WholeCents(Numeric2(x)) /\ BalanceCap \in Int
  BY MoneyAssumption
     DEF Numeric2, HalfAwayFromZero, WholeCents, Cent, MoneyAssumption
<1> QED
  BY <1>1 DEF Fits, Stored

LEMMA InitGoals == Init => GoalsInv
<1> SUFFICES ASSUME Init
             PROVE  GoalsInv
  OBVIOUS
<1>1. 0 \in Stored
  BY MoneyAssumption DEF Stored, WholeCents, Cent, MoneyAssumption
<1>2. TypeOK
  BY <1>1 DEF Init, TypeOK, GoalRow, Answers
<1>3. RowsGiven
  BY DEF Init, RowsGiven
<1>4. \A r \in Requests : Known(r)
  BY DEF Init, Known, Deleting
<1>5. DeletedOnce
  BY DEF Init, DeletedOnce, Deleting
<1> QED
  BY <1>2, <1>3, <1>4, <1>5 DEF GoalsInv

\* A request that goes on, or is answered, without changing a goal.
LEMMA Untouched ==
    ASSUME GoalsInv, NEW r \in Requests, NEW b \in Body, NEW answer \in Answers,
           NEW label \in {"execute", "exists", "done"},
           pc' = [pc EXCEPT ![r] = label],
           req' = [req EXCEPT ![r] = b],
           resp' = [resp EXCEPT ![r] = answer],
           UNCHANGED <<goal, given>>,
           label # "done" => answer = "none",
           label = "exists" => b.op = "delete" /\ ~Owns(b),
           answer # "ok",
           b.op = "delete" /\ answer = "not your goal" => given[b.goal] \notin {b.user, None},
           b.op = "delete" /\ answer = "not found" => goal[b.goal] = None
    PROVE  GoalsInv'
<1>1. TypeOK'
  BY DEF GoalsInv, TypeOK
<1>2. RowsGiven'
  BY DEF GoalsInv, RowsGiven
<1>3. /\ pc'[r] = label /\ req'[r] = b /\ resp'[r] = answer
      /\ \A s \in Requests \ {r} : /\ pc'[s] = pc[s] /\ req'[s] = req[s]
                                   /\ resp'[s] = resp[s]
  BY DEF GoalsInv, TypeOK
<1>4. ASSUME NEW s \in Requests \ {r}
      PROVE  Known(s)'
  <2>1. /\ Known(s) /\ pc'[s] = pc[s] /\ req'[s] = req[s] /\ resp'[s] = resp[s]
        /\ UNCHANGED <<goal, given>>
    BY <1>3 DEF GoalsInv
  <2>2. (Owns(req[s])' <=> Owns(req[s])) /\ (Deleting(s)' <=> Deleting(s))
    BY <2>1 DEF Owns, Deleting
  <2> QED
    BY <2>1, <2>2 DEF Known
<1>5. Known(r)'
  <2>1. b # None /\ (Owns(req[r])' <=> Owns(b)) /\ UNCHANGED <<goal, given>>
    BY <1>3, BodyFields DEF Owns
  <2>2. Deleting(r)' <=> b.op = "delete"
    BY <1>3, <2>1 DEF Deleting
  <2>3. /\ Deleting(r)' /\ answer = "not your goal" => given'[b.goal] \notin {b.user, None}
        /\ Deleting(r)' /\ answer \in {"not found", "ok"} => goal'[b.goal] = None
    BY <2>1, <2>2
  <2>4. label = "exists" => b # None /\ b.op = "delete" /\ ~Owns(req[r])'
    BY <2>1
  <2> QED
    BY <1>3, <2>3, <2>4 DEF Known
<1>6. DeletedOnce'
  <2>1. \A s \in Requests : Deleting(s)' /\ resp'[s] = "ok"
                               => Deleting(s) /\ resp[s] = "ok" /\ req'[s] = req[s]
    BY <1>3 DEF Deleting
  <2> QED
    BY <2>1 DEF GoalsInv, DeletedOnce
<1> QED
  BY <1>1, <1>2, <1>4, <1>5, <1>6 DEF GoalsInv

\* A request that changes one goal, to which the others keep what they know.
LEMMA Touched ==
    ASSUME GoalsInv, NEW r \in Requests, NEW b \in Body, NEW answer \in {"ok", "internal"},
           req[r] = b, pc[r] = "execute",
           pc' = [pc EXCEPT ![r] = "done"], UNCHANGED req,
           resp' = [resp EXCEPT ![r] = answer],
           TypeOK', RowsGiven',
           \A g \in Goals : given[g] # None => given'[g] = given[g],
           \A g \in Named : goal[g] = None => goal'[g] = None,
           \A g \in Named : goal'[g] # None => goal[g] # None /\ goal'[g].owner = goal[g].owner,
           b.op = "delete" => goal[b.goal] # None /\ goal'[b.goal] = None
    PROVE  GoalsInv'
<1>1. /\ pc'[r] = "done" /\ resp'[r] = answer
      /\ \A s \in Requests \ {r} : pc'[s] = pc[s] /\ resp'[s] = resp[s]
  BY DEF GoalsInv, TypeOK
<1>2. ASSUME NEW s \in Requests, Deleting(s)
      PROVE  req[s].goal \in Named
  <2>1. req[s] \in Body
    BY <1>2 DEF GoalsInv, Known, Deleting
  <2> QED
    BY <1>2, <2>1, BodyFields DEF Named, Deleting
<1>3. ASSUME NEW s \in Requests \ {r}
      PROVE  Known(s)'
  <2>1. Known(s) /\ pc'[s] = pc[s] /\ req'[s] = req[s] /\ resp'[s] = resp[s]
    BY <1>1 DEF GoalsInv
  <2>2. CASE ~Deleting(s)
    BY <2>1, <2>2 DEF Known, Deleting
  <2>3. CASE Deleting(s)
    <3>1. req[s].goal \in Named /\ req[s].goal \in Goals
      BY <1>2, <2>3 DEF Named
    <3>2. Owns(req[s])' => Owns(req[s])
      BY <2>1, <3>1 DEF Owns
    <3> QED
      BY <2>1, <2>3, <3>1, <3>2 DEF Known, Deleting
  <2> QED
    BY <2>2, <2>3
<1>4. Known(r)'
  <2>1. req'[r] = b
    OBVIOUS
  <2>2. Deleting(r)' /\ answer = "ok" => goal'[b.goal] = None
    BY <2>1 DEF Deleting
  <2> QED
    BY <1>1, <2>1, <2>2 DEF Known
<1>5. DeletedOnce'
  <2> SUFFICES ASSUME NEW s \in Requests \ {r},
                      Deleting(r), Deleting(s), req[r].goal = req[s].goal,
                      answer = "ok", resp[s] = "ok"
               PROVE  FALSE
    BY <1>1 DEF GoalsInv, DeletedOnce, Deleting
  <2>1. goal[req[s].goal] = None
    BY DEF GoalsInv, Known
  <2> QED
    BY <2>1 DEF Deleting
<1> QED
  BY <1>3, <1>4, <1>5 DEF GoalsInv

LEMMA NextGoals == GoalsInv /\ [Next]_vars => GoalsInv'
<1> SUFFICES ASSUME GoalsInv, [Next]_vars
             PROVE  GoalsInv'
  OBVIOUS
<1>1. ASSUME NEW r \in Requests, pc[r] \in {"execute", "exists"}
      PROVE  req[r] \in Body /\ resp[r] = "none"
  BY <1>1 DEF GoalsInv, Known
<1>2. ASSUME NEW r \in Requests, NEW b \in Body, Receive(r, b)
      PROVE  GoalsInv'
  <2> DEFINE valid == b.op = "create" => b.named
             label == IF valid THEN "execute" ELSE "done"
             answer == IF valid THEN "none" ELSE "invalid"
  <2>1. /\ pc' = [pc EXCEPT ![r] = label] /\ req' = [req EXCEPT ![r] = b]
        /\ resp' = [resp EXCEPT ![r] = answer] /\ UNCHANGED <<goal, given>>
    BY <1>2 DEF Receive
  <2>2. /\ label \in {"execute", "done"} /\ answer \in {"none", "invalid"}
        /\ label # "done" => answer = "none"
    OBVIOUS
  <2> HIDE DEF label, answer, valid
  <2> QED
    BY <2>1, <2>2, Untouched DEF Answers
<1>3. ASSUME NEW r \in Requests, NEW answer \in Answers \ {"ok"},
             pc[r] \in {"execute", "exists"}, Reply(r, answer), UNCHANGED <<goal, given>>,
             LET b == req[r] IN
                /\ b.op = "delete" /\ answer = "not your goal" => given[b.goal] \notin {b.user, None}
                /\ b.op = "delete" /\ answer = "not found" => goal[b.goal] = None
      PROVE  GoalsInv'
  <2>1. req[r] \in Body /\ req' = [req EXCEPT ![r] = req[r]]
    BY <1>1, <1>3 DEF Reply, GoalsInv, TypeOK
  <2> QED
    BY <1>3, <2>1, Untouched DEF Reply
<1>4. ASSUME NEW r \in Requests, Fails(r)
      PROVE  GoalsInv'
  BY <1>3, <1>4 DEF Fails, Answers
<1>5. ASSUME NEW r \in Requests, Exists(r)
      PROVE  GoalsInv'
  <2>1. req[r] \in Body /\ req[r].op = "delete" /\ ~Owns(req[r])
    BY <1>5 DEF Exists, GoalsInv, Known
  <2>2. goal[req[r].goal] # None => given[req[r].goal] \notin {req[r].user, None}
    <3> SUFFICES ASSUME goal[req[r].goal] # None
                 PROVE  given[req[r].goal] \notin {req[r].user, None}
      OBVIOUS
    <3>1. req[r].goal \in Goals
      BY <2>1, BodyFields
    <3>2. given[req[r].goal] = goal[req[r].goal].owner /\ goal[req[r].goal].owner \in Users
      BY <3>1 DEF GoalsInv, RowsGiven, TypeOK, GoalRow
    <3> QED
      BY <2>1, <3>2, SavingsAssumption DEF Owns, SavingsAssumption
  <2> DEFINE answer == IF goal[req[r].goal] # None THEN "not your goal" ELSE "not found"
  <2>3. Reply(r, answer) /\ UNCHANGED <<goal, given>> /\ pc[r] = "exists"
    BY <1>5 DEF Exists
  <2>4. /\ answer \in Answers \ {"ok"}
        /\ answer = "not your goal" => given[req[r].goal] \notin {req[r].user, None}
        /\ answer = "not found" => goal[req[r].goal] = None
    BY <2>2 DEF Answers
  <2> HIDE DEF answer
  <2> QED
    BY <1>3, <2>3, <2>4
<1>6. ASSUME NEW r \in Requests, CreateGoal(r)
      PROVE  GoalsInv'
  <2>1. req[r] \in Body /\ pc[r] = "execute" /\ req[r].op = "create"
    BY <1>1, <1>6 DEF CreateGoal, At
  <2> DEFINE b == req[r]
             row == [owner |-> b.user, current |-> 0, target |-> Numeric2(b.amount)]
  <2>2. PICK g \in {h \in Goals : given[h] = None} \ Named :
            goal' = [goal EXCEPT ![g] = row] /\ given' = [given EXCEPT ![g] = b.user]
    BY <1>6 DEF CreateGoal
  <2>3. PICK answer \in {"ok", "internal"} : Reply(r, answer)
    BY <1>6 DEF CreateGoal, Outcome
  <2>4. row \in GoalRow
    <3>1. 0 \in Stored
      BY MoneyAssumption DEF Stored, WholeCents, Cent, MoneyAssumption
    <3>2. b.user \in Users /\ Numeric2(b.amount) \in Stored
      BY <1>6, <2>1, BodyFields, AmountsAreStored DEF CreateGoal
    <3> QED
      BY <3>1, <3>2 DEF GoalRow
  <2>5. TypeOK'
    <3>1. b.user \in Users
      BY <2>1, BodyFields
    <3> HIDE DEF row, b
    <3> QED
      BY <2>2, <2>3, <2>4, <3>1 DEF GoalsInv, TypeOK, Reply, Answers
  <2>6. RowsGiven'
    <3> SUFFICES ASSUME NEW h \in Goals, goal'[h] # None
                 PROVE  given'[h] = goal'[h].owner
      BY DEF RowsGiven
    <3>1. CASE h = g
      BY <2>2, <3>1 DEF GoalsInv, TypeOK
    <3>2. CASE h # g
      BY <2>2, <3>2 DEF GoalsInv, TypeOK, RowsGiven
    <3> QED
      BY <3>1, <3>2
  <2>7. /\ \A h \in Goals : given[h] # None => given'[h] = given[h]
        /\ \A h \in Named : goal'[h] = goal[h]
    BY <2>2 DEF GoalsInv, TypeOK, Named
  <2>8. b.op # "delete"
    BY <2>1
  <2> HIDE DEF row
  <2> QED
    BY <2>1, <2>3, <2>5, <2>6, <2>7, <2>8, Touched DEF Reply
<1>7. ASSUME NEW r \in Requests, UpdateProgress(r)
      PROVE  GoalsInv'
  <2> DEFINE b == req[r]
  <2>1. b \in Body /\ pc[r] = "execute" /\ b.op = "update" /\ b.goal \in Goals /\ b.amount \in Int
    BY <1>1, <1>7, BodyFields DEF UpdateProgress, At
  <2>2. CASE Reply(r, "not found") /\ UNCHANGED goal
    BY <1>3, <1>7, <2>1, <2>2 DEF UpdateProgress, Answers
  <2>3. CASE /\ Owns(b) /\ Fits(Numeric2(b.amount))
             /\ goal' = [goal EXCEPT ![b.goal].current = Numeric2(b.amount)]
             /\ Outcome(r)
    <3>1. PICK answer \in {"ok", "internal"} : Reply(r, answer)
      BY <2>3 DEF Outcome
    <3>2. UNCHANGED given /\ Numeric2(b.amount) \in Stored
      BY <1>7, <2>1, <2>3, AmountsAreStored DEF UpdateProgress
    <3>3. goal[b.goal] \in GoalRow /\ goal[b.goal] # None
      BY <2>1, <2>3 DEF Owns, GoalsInv, TypeOK
    <3>4. PICK row \in GoalRow : /\ row.owner = goal[b.goal].owner
                                 /\ goal' = [goal EXCEPT ![b.goal] = row]
      <4>1. [goal[b.goal] EXCEPT !.current = Numeric2(b.amount)] \in GoalRow
        BY <3>2, <3>3 DEF GoalRow
      <4>2. [goal[b.goal] EXCEPT !.current = Numeric2(b.amount)].owner = goal[b.goal].owner
        BY <3>3 DEF GoalRow
      <4> QED
        BY <2>3, <4>1, <4>2
    <3>5. row # None
      BY <3>4, SavingsAssumption DEF SavingsAssumption
    <3>6. TypeOK'
      <4> HIDE DEF b
      <4> QED
        BY <3>1, <3>2, <3>4 DEF GoalsInv, TypeOK, Reply, Answers
    <3>7. \A h \in Goals : /\ goal'[h] = None <=> goal[h] = None
                           /\ goal'[h] # None => goal'[h].owner = goal[h].owner
      BY <3>3, <3>4, <3>5 DEF GoalsInv, TypeOK
    <3>8. RowsGiven'
      BY <3>2, <3>7 DEF GoalsInv, RowsGiven
    <3>9. Named \subseteq Goals
      BY DEF Named
    <3>10. b.op # "delete"
      BY <2>1
    <3> QED
      BY <2>1, <3>1, <3>2, <3>6, <3>7, <3>8, <3>9, <3>10, Touched DEF Reply
  <2> QED
    BY <1>7, <2>2, <2>3 DEF UpdateProgress
<1>8. ASSUME NEW r \in Requests, Delete(r)
      PROVE  GoalsInv'
  <2> DEFINE b == req[r]
  <2>1. b \in Body /\ pc[r] = "execute" /\ b.op = "delete" /\ b.goal \in Goals
    BY <1>1, <1>8, BodyFields DEF Delete, At
  <2>2. CASE ~Owns(b) /\ pc' = [pc EXCEPT ![r] = "exists"] /\ UNCHANGED <<req, resp, goal>>
    <3>1. /\ req' = [req EXCEPT ![r] = b] /\ resp' = [resp EXCEPT ![r] = "none"]
          /\ UNCHANGED <<goal, given>>
      BY <1>1, <1>8, <2>1, <2>2 DEF GoalsInv, TypeOK, Delete
    <3> QED
      BY <2>1, <2>2, <3>1, Untouched DEF Answers
  <2>3. CASE Owns(b) /\ goal' = [goal EXCEPT ![b.goal] = None] /\ Outcome(r)
    <3>1. PICK answer \in {"ok", "internal"} : Reply(r, answer)
      BY <2>3 DEF Outcome
    <3>2. UNCHANGED given
      BY <1>8 DEF Delete
    <3>3. TypeOK'
      <4> HIDE DEF b
      <4> QED
        BY <2>3, <3>1, <3>2 DEF GoalsInv, TypeOK, Reply, Answers
    <3>4. /\ goal'[b.goal] = None /\ goal[b.goal] # None
          /\ \A h \in Goals : goal'[h] # None => goal'[h] = goal[h]
          /\ \A h \in Goals : goal[h] = None => goal'[h] = None
      BY <2>1, <2>3 DEF Owns, GoalsInv, TypeOK
    <3>5. RowsGiven'
      BY <3>2, <3>4 DEF GoalsInv, RowsGiven
    <3>6. Named \subseteq Goals
      BY DEF Named
    <3> QED
      BY <2>1, <3>1, <3>2, <3>3, <3>4, <3>5, <3>6, Touched DEF Reply
  <2> QED
    BY <1>8, <2>2, <2>3 DEF Delete
<1>9. CASE UNCHANGED vars
  BY <1>9 DEF vars, GoalsInv, TypeOK, RowsGiven, Known, DeletedOnce, Deleting, Owns
<1> QED
  BY <1>2, <1>4, <1>5, <1>6, <1>7, <1>8, <1>9 DEF Next

-----------------------------------------------------------------------------

\* What the handlers keep true with every statement they execute.
THEOREM GoalsInvariant == Spec => []GoalsInv
<1>1. Init => GoalsInv
  BY InitGoals
<1>2. GoalsInv /\ [Next]_vars => GoalsInv'
  BY NextGoals
<1> QED
  BY <1>1, <1>2, PTL DEF Spec

\* Every variable has its type: what the columns hold is rounded and bounded
\* whatever amounts bodies name.
THEOREM TypeCorrect == Spec => []TypeOK
<1>1. GoalsInv => TypeOK
  BY DEF GoalsInv
<1> QED
  BY <1>1, GoalsInvariant, PTL

\* What delete_savings_goal (savings_goals/handler.rs) answers is true, in any
\* interleaving with other requests and for ever after.
THEOREM DeletionsAnswered == Spec => []DeletionAnswersHold
<1>1. GoalsInv => DeletionAnswersHold
  BY DEF GoalsInv, Known, DeletedOnce, DeletionAnswersHold
<1> QED
  BY <1>1, GoalsInvariant, PTL

-----------------------------------------------------------------------------
(* Each list in the composition takes its own steps, or none. *)

LEMMA ListsSteps ==
    ASSUME [ListsNext]_listsVars
    PROVE  /\ [Recipient!Next]_(Recipient!vars)
           /\ [Transaction!Next]_(Transaction!vars)
           /\ [Report!Next]_(Report!vars)
           /\ [Invoice!Next]_(Invoice!vars)
  BY DEF ListsNext, listsVars, recipientVars, transactionVars, reportVars, invoiceVars,
         Recipient!vars, Transaction!vars, Report!vars, Invoice!vars

-----------------------------------------------------------------------------
(* Rows *)

\* A nonempty set of finite sets has a member that strictly contains no other.
LEMMA SmallestSet ==
    ASSUME NEW S, IsFiniteSet(S)
    PROVE  \A T : T \subseteq SUBSET S /\ T # {}
                     => \E x \in T : \A y \in T : y \subseteq x => y = x
<1> SUFFICES ASSUME NEW T, T \subseteq SUBSET S, T # {}
             PROVE  \E x \in T : \A y \in T : y \subseteq x => y = x
  OBVIOUS
<1>1. IsWellFoundedOn(StrictSubsetOrdering(S), SUBSET S)
  BY FS_StrictSubsetOrderingWellFounded, FS_FiniteSubsetsOfFinite
<1>2. PICK x \in T : \A y \in T : ~(<<y, x>> \in StrictSubsetOrdering(S))
  BY <1>1, WFMin
<1>3. \A y \in T : y \subseteq x => y = x
  <2>1. SUFFICES ASSUME NEW y \in T, y \subseteq x, y # x
                 PROVE  <<y, x>> \in StrictSubsetOrdering(S)
    BY <1>2
  <2>2. y \in SUBSET S /\ x \in SUBSET S
    BY <2>1
  <2> QED
    BY <2>1, <2>2 DEF StrictSubsetOrdering
<1> QED
  BY <1>3

LEMMA LargestNumber ==
    ASSUME NEW S, IsFiniteSet(S)
    PROVE  S \subseteq Int /\ S # {} => \E m \in S : \A x \in S : x <= m
<1> DEFINE HasLargest(s) == \E m \in s : \A x \in s : x <= m
           T == {s \in SUBSET S : s \subseteq Int /\ s # {} /\ ~HasLargest(s)}
<1>1. SUFFICES ASSUME T # {}
               PROVE  FALSE
  OBVIOUS
<1>2. PICK s \in T : \A y \in T : y \subseteq s => y = s
  <2>1. T \subseteq SUBSET S
    OBVIOUS
  <2> HIDE DEF T
  <2> QED
    BY <1>1, <2>1, SmallestSet
<1>3. PICK e \in s : TRUE
  BY <1>2
<1>4. s \ {e} # {}
  BY <1>2, <1>3
<1>5. HasLargest(s \ {e})
  <2>1. s \ {e} \notin T
    BY <1>2, <1>3
  <2> QED
    BY <1>2, <1>4, <2>1
<1>6. PICK m \in s \ {e} : \A x \in s \ {e} : x <= m
  BY <1>5
<1>7. HasLargest(s)
  <2>1. e \in Int /\ m \in Int /\ \A x \in s : x \in Int
    BY <1>2, <1>3, <1>6
  <2>2. CASE e <= m
    BY <1>6, <2>2
  <2>3. CASE m <= e
    BY <1>3, <1>6, <2>1, <2>3
  <2> QED
    BY <2>1, <2>2, <2>3
<1> QED
  BY <1>2, <1>7

LEMMA SequencesGrow ==
    ASSUME NEW S, NEW T, S \subseteq T
    PROVE  Seq(S) \subseteq Seq(T)
<1> SUFFICES ASSUME NEW s \in Seq(S)
             PROVE  s \in Seq(T)
  OBVIOUS
<1>1. s \in [1..Len(s) -> S] /\ Len(s) \in Nat
  OBVIOUS
<1>2. s \in [1..Len(s) -> T]
  BY <1>1
<1> QED
  BY <1>1, <1>2

\* s lists the elements of S in ascending order.
Ascends(s, S) ==
    /\ s \in [1..Cardinality(S) -> S]
    /\ \A i, j \in 1..Cardinality(S) : i < j => s[i] < s[j]

LEMMA OrderExists ==
    ASSUME NEW S, IsFiniteSet(S)
    PROVE  S \subseteq Int => \E s : Ascends(s, S)
<1> DEFINE T == {x \in SUBSET S : x \subseteq Int /\ ~ \E s : Ascends(s, x)}
<1>1. SUFFICES ASSUME T # {}
               PROVE  FALSE
  OBVIOUS
<1>2. PICK x \in T : \A y \in T : y \subseteq x => y = x
  <2>1. T \subseteq SUBSET S
    OBVIOUS
  <2> HIDE DEF T
  <2> QED
    BY <1>1, <2>1, SmallestSet
<1>3. IsFiniteSet(x) /\ x \subseteq Int
  BY <1>2, FS_Subset
<1>4. CASE x = {}
  <2>1. Cardinality(x) = 0
    BY <1>4, FS_EmptySet
  <2>2. Ascends([i \in 1..Cardinality(x) |-> 0], x)
    BY <2>1 DEF Ascends
  <2> QED
    BY <1>2, <2>2
<1>5. CASE x # {}
  <2>1. PICK m \in x : \A e \in x : e <= m
    BY <1>3, <1>5, LargestNumber
  <2> DEFINE y == x \ {m}
             n == Cardinality(y)
  <2>2. n \in Nat /\ Cardinality(x) = n + 1
    <3>1. IsFiniteSet(y) /\ Cardinality(y) = Cardinality(x) - 1
      BY <1>3, <2>1, FS_RemoveElement
    <3>2. Cardinality(x) \in Nat /\ Cardinality(y) \in Nat
      BY <1>3, <3>1, FS_CardinalityType
    <3> QED
      BY <3>1, <3>2
  <2>3. PICK s : Ascends(s, y)
    <3>1. y \subseteq x /\ y # x
      OBVIOUS
    <3> QED
      BY <1>2, <3>1
  <2>4. \A i \in 1..n : s[i] \in x /\ s[i] < m
    <3> TAKE i \in 1..n
    <3>1. s[i] \in y
      BY <2>3 DEF Ascends
    <3>2. s[i] \in x /\ s[i] # m /\ s[i] <= m
      BY <2>1, <3>1
    <3>3. s[i] \in Int /\ m \in Int
      BY <1>3, <2>1, <3>2
    <3> HIDE DEF n, y
    <3> QED
      BY <3>2, <3>3
  <2>5. \A i, j \in 1..n : i < j => s[i] < s[j]
    BY <2>3 DEF Ascends
  <2> HIDE DEF n, y
  <2> DEFINE t == [i \in 1..(n + 1) |-> IF i <= n THEN s[i] ELSE m]
  <2>6. t \in [1..(n + 1) -> x]
    BY <2>2, <2>4
  <2>7. \A i, j \in 1..(n + 1) : i < j => t[i] < t[j]
    BY <2>2, <2>4, <2>5
  <2> HIDE DEF t
  <2>8. Ascends(t, x)
    BY <2>2, <2>6, <2>7 DEF Ascends
  <2> QED
    BY <1>2, <2>8
<1> QED
  BY <1>4, <1>5

\* ORDER BY lists every row once.
LEMMA OrderAscends ==
    ASSUME NEW S, IsFiniteSet(S), S \subseteq Int
    PROVE  Ascends(InOrder(S), S)
  BY OrderExists DEF InOrder, Ascends

LEMMA OrderIsSequence ==
    ASSUME NEW S, IsFiniteSet(S), S \subseteq Int
    PROVE  /\ InOrder(S) \in Seq(S)
           /\ Len(InOrder(S)) = Cardinality(S)
<1>1. Cardinality(S) \in Nat
  BY FS_CardinalityType
<1>2. InOrder(S) \in [1..Cardinality(S) -> S]
  BY OrderAscends DEF Ascends
<1> QED
  BY <1>1, <1>2

\* A filter keeps elements at the positions that it passes.
LEMMA KeptIsSequence ==
    ASSUME NEW B, NEW s \in Seq(B), NEW P, P \subseteq DOMAIN s,
           NEW A, \A k \in P : s[k] \in A
    PROVE  Kept(s, P) \in Seq(A)
<1>1. IsFiniteSet(DOMAIN s) /\ DOMAIN s \subseteq Int
  <2>1. DOMAIN s = 1..Len(s) /\ Len(s) \in Nat
    OBVIOUS
  <2> QED
    BY <2>1, FS_Interval
<1>2. IsFiniteSet(P) /\ P \subseteq Int
  BY <1>1, FS_Subset
<1>3. Cardinality(P) \in Nat /\ InOrder(P) \in [1..Cardinality(P) -> P]
  BY <1>2, OrderAscends, FS_CardinalityType DEF Ascends
<1>4. \A k \in 1..Cardinality(P) : s[InOrder(P)[k]] \in A
  <2> TAKE k \in 1..Cardinality(P)
  <2>1. InOrder(P)[k] \in P
    BY <1>3
  <2> QED
    BY <2>1
<1>5. Kept(s, P) \in [1..Cardinality(P) -> A]
  BY <1>3, <1>4 DEF Kept
<1> QED
  BY <1>3, <1>5

\* A page of a sequence has its elements, and none only past the end.
LEMMA SliceIsSequence ==
    ASSUME NEW A, NEW s \in Seq(A), NEW p \in Nat \ {0}, NEW n \in Nat \ {0}
    PROVE  /\ Slice(s, p, n) \in Seq(A)
           /\ (p - 1) * n < Len(s) => Slice(s, p, n) # <<>>
<1> DEFINE first == (p - 1) * n + 1
           end == IF p * n < Len(s) THEN p * n ELSE Len(s)
<1>1. /\ first \in Nat \ {0} /\ end \in Nat /\ end <= Len(s)
      /\ first <= p * n /\ Len(s) \in Nat
  <2>1. (p - 1) * n \in Nat /\ p * n \in Nat /\ p * n = (p - 1) * n + n
    OBVIOUS
  <2> QED
    BY <2>1
<1>2. Slice(s, p, n) = SubSeq(s, first, end)
  BY DEF Slice
<1>3. (p - 1) * n < Len(s) => first <= end
  BY <1>1
<1> HIDE DEF first, end
<1>4. SubSeq(s, first, end) \in Seq(A)
  BY <1>1
<1>5. first <= end => Len(SubSeq(s, first, end)) = end - first + 1
  BY <1>1
<1>6. first <= end => SubSeq(s, first, end) # <<>>
  BY <1>1, <1>5
<1> QED
  BY <1>2, <1>3, <1>4, <1>6

-----------------------------------------------------------------------------
(* The panel of the invoices page *)

\* Requests about invoices and statuses of I.
PanelCall(I) ==
    [panel: Nat, invoice: I, to: I, pays: BOOLEAN, phase: {"sent", "done", "over"}]

\* Panels are counted, and a request knows the panel that it was sent from.
PanelInv ==
    /\ panel \in Nat
    /\ \E I : calls \in Seq(PanelCall(I))
    /\ \A c \in DOMAIN calls : calls[c].panel <= panel
    /\ OneRequestPerPanel

LEMMA InitPanel == Invoice!Init => PanelInv
<1> SUFFICES ASSUME Invoice!Init
             PROVE  PanelInv
  OBVIOUS
<1>1. calls = <<>> /\ panel = 0
  BY DEF Invoice!Init
<1>2. calls \in Seq(PanelCall({}))
  BY <1>1
<1> QED
  BY <1>1, <1>2 DEF PanelInv, OneRequestPerPanel, Invoice!OneRequestPerPanel

\* A request moves on, or ends.
LEMMA CallMovesOn ==
    ASSUME PanelInv, NEW c \in DOMAIN calls, NEW phase \in {"done", "over"},
           calls[c].phase # "over",
           calls' = [calls EXCEPT ![c].phase = phase], UNCHANGED panel
    PROVE  PanelInv'
<1>1. PICK I : calls \in Seq(PanelCall(I))
  BY DEF PanelInv
<1> DEFINE moved == [calls[c] EXCEPT !.phase = phase]
<1>2. calls[c] \in PanelCall(I)
  BY <1>1
<1>3. moved \in PanelCall(I) /\ moved.panel = calls[c].panel
  BY <1>2 DEF PanelCall
<1>4. calls' = [calls EXCEPT ![c] = moved]
  OBVIOUS
<1> HIDE DEF moved
<1>5. calls' \in Seq(PanelCall(I)) /\ DOMAIN calls' = DOMAIN calls
  BY <1>1, <1>3, <1>4
<1>6. \A d \in DOMAIN calls : calls'[d] = IF d = c THEN moved ELSE calls[d]
  BY <1>1, <1>4
<1>7. \A d \in DOMAIN calls :
          /\ calls'[d].panel = calls[d].panel
          /\ Invoice!InFlight(d)' => Invoice!InFlight(d)
  BY <1>3, <1>6 DEF Invoice!InFlight
<1>8. OneRequestPerPanel'
  BY <1>5, <1>7 DEF PanelInv, OneRequestPerPanel, Invoice!OneRequestPerPanel
<1>9. \A d \in DOMAIN calls' : calls'[d].panel <= panel'
  BY <1>5, <1>7 DEF PanelInv
<1> QED
  BY <1>5, <1>8, <1>9 DEF PanelInv

\* The buttons send nothing while a request of their panel is in flight.
LEMMA PanelPosts ==
    ASSUME PanelInv, NEW pays \in BOOLEAN,
           Invoice!Open, ~Invoice!IsPending, Invoice!Post(pays)
    PROVE  PanelInv'
<1>1. PICK I : calls \in Seq(PanelCall(I))
  BY DEF PanelInv
<1> DEFINE J == I \cup {selected.id, Invoice!NextStatus}
           call == [panel |-> panel, invoice |-> selected.id,
                    to |-> Invoice!NextStatus, pays |-> pays, phase |-> "sent"]
<1>2. calls' = Append(calls, call) /\ panel' = panel /\ panel \in Nat
  BY DEF Invoice!Post, Invoice!panelVars, PanelInv
<1>3. calls \in Seq(PanelCall(J)) /\ call \in PanelCall(J)
  <2>1. PanelCall(I) \subseteq PanelCall(J)
    BY DEF PanelCall
  <2>2. call \in PanelCall(J)
    BY <1>2 DEF PanelCall
  <2> HIDE DEF J, call
  <2> QED
    BY <1>1, <2>1, <2>2
<1> HIDE DEF J
<1>4. /\ calls' \in Seq(PanelCall(J)) /\ DOMAIN calls' = 1..(Len(calls) + 1)
      /\ \A c \in DOMAIN calls' :
             calls'[c] = IF c = Len(calls) + 1 THEN call ELSE calls[c]
      /\ DOMAIN calls = 1..Len(calls) /\ Len(calls) \in Nat
  BY <1>2, <1>3
<1>5. \A c \in DOMAIN calls : Invoice!InFlight(c) => calls[c].panel # panel
  BY DEF Invoice!IsPending, Invoice!Mine
<1>6. \A c \in DOMAIN calls :
          /\ c # Len(calls) + 1 /\ c \in DOMAIN calls'
          /\ calls'[c] = calls[c] /\ calls[c].panel <= panel
  BY <1>4 DEF PanelInv
<1>7. \A c \in DOMAIN calls' : calls'[c].panel <= panel
  BY <1>2, <1>4, <1>6
<1>8. OneRequestPerPanel'
  <2> SUFFICES ASSUME NEW c \in DOMAIN calls', NEW d \in DOMAIN calls',
                      calls'[c].phase # "over", calls'[d].phase # "over",
                      calls'[c].panel = calls'[d].panel
               PROVE  c = d
    BY DEF OneRequestPerPanel, Invoice!OneRequestPerPanel, Invoice!InFlight
  <2>1. CASE c \in DOMAIN calls /\ d \in DOMAIN calls
    BY <1>6, <2>1 DEF PanelInv, OneRequestPerPanel, Invoice!OneRequestPerPanel,
                      Invoice!InFlight
  <2>2. CASE c = Len(calls) + 1 /\ d = Len(calls) + 1
    BY <2>2
  <2>3. \A k \in DOMAIN calls' : k \in DOMAIN calls \/ k = Len(calls) + 1
    BY <1>4
  <2>4. \A k \in DOMAIN calls : calls'[k].phase # "over" => calls'[k].panel # panel
    BY <1>5, <1>6 DEF Invoice!InFlight
  <2>5. calls'[Len(calls) + 1].panel = panel
    BY <1>4
  <2> QED
    BY <2>1, <2>2, <2>3, <2>4, <2>5
<1> QED
  BY <1>2, <1>4, <1>7, <1>8 DEF PanelInv

LEMMA NextPanel == PanelInv /\ [Invoice!Next]_(Invoice!vars) => PanelInv'
<1> SUFFICES ASSUME PanelInv, [Invoice!Next]_(Invoice!vars)
             PROVE  PanelInv'
  OBVIOUS
<1>1. ASSUME UNCHANGED calls, panel' = panel \/ panel' = panel + 1
      PROVE  PanelInv'
  <2>1. panel' \in Nat /\ panel <= panel'
    BY <1>1 DEF PanelInv
  <2>2. \A c \in DOMAIN calls : calls[c].panel \in Nat
    <3>1. PICK I : calls \in Seq(PanelCall(I))
      BY DEF PanelInv
    <3>2. \A c \in DOMAIN calls : calls[c] \in PanelCall(I)
      BY <3>1
    <3> QED
      BY <3>2 DEF PanelCall
  <2> QED
    BY <1>1, <2>1, <2>2
       DEF PanelInv, OneRequestPerPanel, Invoice!OneRequestPerPanel, Invoice!InFlight
<1>2. ASSUME NEW k, Invoice!SelectRow(k)
      PROVE  PanelInv'
  BY <1>1, <1>2 DEF Invoice!SelectRow, Invoice!serverVars
<1>3. CASE Invoice!HandleAdvance
  <2>1. Invoice!Open /\ Invoice!Post(FALSE) /\ ~Invoice!IsPending
    BY <1>3 DEF Invoice!HandleAdvance, Invoice!NextStatus
  <2> QED
    BY <2>1, PanelPosts
<1>4. CASE Invoice!HandlePay
  <2>1. None # "paid"
    BY ListsAssumption DEF Invoice!InvoicePageAssumption, Invoice!Statuses
  <2>2. Invoice!Open /\ Invoice!Post(TRUE) /\ ~Invoice!IsPending
    BY <1>4, <2>1 DEF Invoice!HandlePay, Invoice!IsPaying, Invoice!NextStatus
  <2> QED
    BY <2>2, PanelPosts
<1>5. ASSUME NEW c \in DOMAIN calls, Invoice!Execute(c)
      PROVE  PanelInv'
  BY <1>5, CallMovesOn DEF Invoice!Execute, Invoice!panelVars
<1>6. ASSUME NEW c \in DOMAIN calls, Invoice!Succeed(c)
      PROVE  PanelInv'
  BY <1>6, CallMovesOn DEF Invoice!Succeed
<1>7. ASSUME NEW c \in DOMAIN calls, Invoice!FailCall(c)
      PROVE  PanelInv'
  BY <1>7, CallMovesOn DEF Invoice!FailCall, Invoice!InFlight, Invoice!panelVars
<1>8. CASE \/ \E s \in InvoiceSearches \cup {None} : Invoice!SetSearch(s)
           \/ \E p \in Invoice!Pages :
                  Invoice!GoToPage(p) \/ Invoice!FetchInvoices(p) \/ Invoice!FetchEnds(p)
           \/ Invoice!CloseDetail \/ Invoice!OnPrev \/ Invoice!OnNext
           \/ \E shown \in BOOLEAN : Invoice!ShowPayForm(shown)
           \/ \E a \in PayAccounts \cup {None} : Invoice!ChooseAccount(a)
           \/ \E i \in Invoice!Invoices : Invoice!Outside(i) \/ Invoice!CreateInvoice(i)
           \/ Invoice!OpenCreate \/ Invoice!SubmitCreate \/ Invoice!Created
           \/ Invoice!CreateFails \/ Invoice!CloseCreate
  <2>1. UNCHANGED <<calls, panel>>
    BY <1>8 DEF Invoice!SetSearch, Invoice!GoToPage, Invoice!ClosePanel,
                Invoice!FetchInvoices, Invoice!FetchEnds, Invoice!CloseDetail,
                Invoice!OnPrev, Invoice!OnNext, Invoice!ShowPayForm,
                Invoice!ChooseAccount, Invoice!Outside, Invoice!CreateInvoice,
                Invoice!OpenCreate, Invoice!SubmitCreate, Invoice!Created,
                Invoice!CreateFails, Invoice!CloseCreate,
                Invoice!serverVars, Invoice!panelVars
  <2> QED
    BY <1>1, <2>1
<1>9. CASE UNCHANGED Invoice!vars
  BY <1>1, <1>9 DEF Invoice!vars
<1>10. ASSUME Invoice!Next
       PROVE  PanelInv'
  BY <1>2, <1>3, <1>4, <1>5, <1>6, <1>7, <1>8, <1>10, Zenon DEF Invoice!Next
<1> QED
  BY <1>9, <1>10

\* The panel of the invoices page (page-invoices.tsx) never has two requests in
\* flight, for any number of invoices, panels and requests.
THEOREM PanelsWait == ListsSpec => []OneRequestPerPanel
<1>1. ListsInit => PanelInv
  BY InitPanel DEF ListsInit
<1>2. PanelInv /\ [ListsNext]_listsVars => PanelInv'
  BY ListsSteps, NextPanel
<1>3. PanelInv => OneRequestPerPanel
  BY DEF PanelInv
<1> QED
  BY <1>1, <1>2, <1>3, PTL DEF ListsSpec

-----------------------------------------------------------------------------
(* The label of the transactions page *)

\* What a page of the list can be answered with.
PagesOf(p) == [of: {p}, total: 0..MaxTotal, rows: Seq(Transaction!Transactions)]

\* An answer says which page it is of, and the page on the screen has data, an
\* error, or a fetch under way.
LabelInv ==
    /\ Transaction!TypeOK
    /\ \A p \in Transaction!Pages : Sound(transactionCache[p], PagesOf(p), None)
    /\ Settled(transactionCache[transactionPage], None)

\* The cache of this page is one of those that the lemmas are about.
LEMMA TransactionQueries ==
    /\ Transaction!NoEntry(None) = NoEntry(None)
    /\ \A e : /\ Transaction!Idle(e) = Idle(e)
              /\ Transaction!MountQuery(e, None) = MountQuery(e, None)
              /\ Transaction!Arrive(e, None) = Arrive(e, None)
              /\ Transaction!Fail(e, None) = Fail(e, None)
              /\ \A a : Transaction!Read(e, a) = Read(e, a)
              /\ \A m : Transaction!Invalidate(e, m, None) = Invalidate(e, m, None)
    /\ \A D : Transaction!EntryOver(D) = EntryOver(D)
BY DEF Transaction!NoEntry, NoEntry, Transaction!Idle, Idle, Transaction!MountQuery,
       MountQuery, Transaction!Start, Start, Transaction!Restart, Restart,
       Transaction!Arrive, Arrive, Transaction!Fail, Fail, Transaction!Read, Read,
       Transaction!Invalidate, Invalidate, Transaction!EntryOver, EntryOver

LEMMA PagesOfTotal ==
    ASSUME NEW n \in Nat \ {0}, NEW size \in Nat \ {0}
    PROVE  (n + size - 1) \div size \in Nat \ {0}
OBVIOUS

LEMMA TransactionConstants ==
    /\ MaxTotal \in Nat /\ InitialTotal \in 0..MaxTotal /\ TransactionsPerPage \in Nat \ {0}
    /\ None \notin [of: Nat, total: Nat, rows: Seq(Int)]
    /\ Transaction!Pages \subseteq Nat \ {0} /\ 1 \in Transaction!Pages
<1>1. /\ MaxTotal \in Nat /\ InitialTotal \in 0..MaxTotal /\ TransactionsPerPage \in Nat \ {0}
      /\ None \notin [of: Nat, total: Nat, rows: Seq(Int)]
  BY ListsAssumption DEF Transaction!TransactionsAssumption
<1>2. Transaction!TotalPagesFor(MaxTotal) \in Nat \ {0}
  BY <1>1, PagesOfTotal DEF Transaction!TotalPagesFor
<1> QED
  BY <1>1, <1>2 DEF Transaction!Pages

LEMMA ListingOfPage ==
    ASSUME NEW p \in Transaction!Pages, total \in 0..MaxTotal
    PROVE  Transaction!Listing(p) \in PagesOf(p)
<1> DEFINE skipped == (p - 1) * TransactionsPerPage
           n == Transaction!SmallerOf(TransactionsPerPage, total - skipped)
           rows == [k \in 1..n |-> total - skipped - k + 1]
<1>1. TransactionsPerPage \in Nat /\ p \in Nat \ {0} /\ MaxTotal \in Nat
  BY TransactionConstants
<1>2. skipped \in Nat
  BY <1>1
<1> HIDE DEF skipped
<1>3. n \in Int /\ n <= total - skipped
  BY <1>1, <1>2 DEF Transaction!SmallerOf
<1> HIDE DEF n
<1>4. \E m \in Nat : 1..n = 1..m
  <2>1. CASE n >= 0
    BY <1>3, <2>1
  <2>2. CASE n < 0
    <3>1. 1..n = 1..0
      BY <1>3, <2>2
    <3> QED
      BY <3>1
  <2> QED
    BY <1>3, <2>1, <2>2
<1>5. rows \in Seq(Transaction!Transactions)
  <2>1. \A k \in 1..n : total - skipped - k + 1 \in 1..MaxTotal
    BY <1>1, <1>2, <1>3
  <2>2. rows \in [1..n -> Transaction!Transactions]
    BY <2>1 DEF Transaction!Transactions
  <2> HIDE DEF rows
  <2>3. PICK m \in Nat : 1..n = 1..m
    BY <1>4
  <2>4. rows \in [1..m -> Transaction!Transactions]
    BY <2>2, <2>3
  <2> QED
    BY <2>4
<1> QED
  BY <1>5 DEF Transaction!Listing, PagesOf, skipped, n

LEMMA NoPageIsNone ==
    \A p \in Transaction!Pages : None \notin PagesOf(p) /\ PagesOf(p) \subseteq Transaction!Answers
<1> SUFFICES ASSUME NEW p \in Transaction!Pages
             PROVE  None \notin PagesOf(p) /\ PagesOf(p) \subseteq Transaction!Answers
  OBVIOUS
<1>1. p \in Nat /\ MaxTotal \in Nat
  BY TransactionConstants
<1>2. Seq(Transaction!Transactions) \subseteq Seq(Int)
  <2>1. Transaction!Transactions \subseteq Int
    BY DEF Transaction!Transactions
  <2> QED
    BY <2>1, SequencesGrow
<1>3. PagesOf(p) \subseteq [of: Nat, total: Nat, rows: Seq(Int)]
  BY <1>1, <1>2 DEF PagesOf
<1>4. PagesOf(p) \subseteq Transaction!Answers
  BY DEF PagesOf, Transaction!Answers
<1> QED
  BY <1>3, <1>4, TransactionConstants

\* The rows on the screen are transactions, and so are those that match the search.
LEMMA FilteredTransactions ==
    ASSUME LabelInv
    PROVE  /\ Transaction!Filtered \in Seq(Transaction!Transactions)
           /\ Transaction!SelectedIndex \in {0} \cup DOMAIN Transaction!Filtered
<1> DEFINE P == {k \in DOMAIN Transaction!Rows : Transaction!Matches(Transaction!Rows[k])}
<1>1. \A p \in Transaction!Pages : transactionCache[p].data \in Transaction!Answers \cup {None}
  BY TransactionQueries DEF LabelInv, Transaction!TypeOK, EntryOver
<1>2. Transaction!Data \in Transaction!Answers \cup {None}
  BY <1>1 DEF Transaction!Data, Transaction!Shown, LabelInv, Transaction!TypeOK
<1>3. Transaction!Rows \in Seq(Transaction!Transactions)
  BY <1>2 DEF Transaction!Rows, Transaction!Answers
<1>4. \A S : Transaction!InOrder(S) = InOrder(S)
  BY DEF Transaction!InOrder, InOrder, Transaction!IsFiniteSet, IsFiniteSet,
         Transaction!Cardinality, Cardinality
<1>5. Transaction!Filtered = Kept(Transaction!Rows, P)
  BY <1>4 DEF Transaction!Filtered, Transaction!Kept, Kept,
              Transaction!Cardinality, Cardinality, Transaction!IsFiniteSet, IsFiniteSet
<1>6. Transaction!Filtered \in Seq(Transaction!Transactions)
  <2>1. P \subseteq DOMAIN Transaction!Rows /\ \A k \in P : Transaction!Rows[k] \in Transaction!Transactions
    BY <1>3
  <2> HIDE DEF P
  <2> QED
    BY <1>3, <1>5, <2>1, KeptIsSequence
<1>7. Transaction!SelectedIndex \in {0} \cup DOMAIN Transaction!Filtered
  BY DEF Transaction!SelectedIndex
<1> QED
  BY <1>6, <1>7

LEMMA EntriesOfPages ==
    \A p \in Transaction!Pages : \A e :
        Sound(e, PagesOf(p), None) => e \in EntryOver({None} \cup Transaction!Answers)
<1> SUFFICES ASSUME NEW p \in Transaction!Pages, NEW e, Sound(e, PagesOf(p), None)
             PROVE  e \in EntryOver({None} \cup Transaction!Answers)
  OBVIOUS
<1>1. PagesOf(p) \cup {None} \subseteq {None} \cup Transaction!Answers
  BY NoPageIsNone
<1> QED
  BY <1>1 DEF Sound, EntryOver

LEMMA InitLabel == Transaction!Init => LabelInv
<1> SUFFICES ASSUME Transaction!Init
             PROVE  LabelInv
  OBVIOUS
<1>1. total \in 0..MaxTotal /\ 1 \in Transaction!Pages /\ transactionPage = 1
  BY TransactionConstants DEF Transaction!Init
<1>2. transactionCache = [p \in Transaction!Pages |->
                            IF p = 1 THEN MountQuery(NoEntry(None), None) ELSE NoEntry(None)]
  BY TransactionQueries DEF Transaction!Init
<1>3. \A p \in Transaction!Pages : Sound(transactionCache[p], PagesOf(p), None)
  BY <1>2, NoEntrySound, StartSound
<1>4. Settled(transactionCache[1], None)
  <2>1. Sound(NoEntry(None), PagesOf(1), None)
    BY NoEntrySound
  <2> QED
    BY <1>1, <1>2, <2>1, StartSound
<1>5. transactionCache \in [Transaction!Pages -> EntryOver({None} \cup Transaction!Answers)]
  BY <1>2, <1>3, EntriesOfPages
<1>6. Transaction!TypeOK
  BY <1>1, <1>5, TransactionQueries DEF Transaction!Init, Transaction!TypeOK
<1> QED
  BY <1>1, <1>3, <1>4, <1>6 DEF LabelInv

\* What the user chose is on the page.
ViewTyped ==
    /\ transactionLast \in Transaction!Pages \cup {None}
    /\ transactionSearch \in TransactionSearches \cup {None}
    /\ transaction \in Transaction!Transactions \cup {None}
    /\ focuses \in Nat

\* One entry changes, soundly.
LEMMA PageOfLabelChanges ==
    ASSUME LabelInv, NEW p \in Transaction!Pages, NEW e,
           transactionCache' = [transactionCache EXCEPT ![p] = e],
           Sound(e, PagesOf(p), None), Settled(e, None),
           UNCHANGED total, transactionPage' \in {transactionPage, p}, ViewTyped'
    PROVE  LabelInv'
<1>1. /\ transactionCache' = [q \in Transaction!Pages |-> transactionCache'[q]]
      /\ \A q \in Transaction!Pages :
             transactionCache'[q] = IF q = p THEN e ELSE transactionCache[q]
  BY DEF LabelInv, Transaction!TypeOK
<1>2. \A q \in Transaction!Pages : Sound(transactionCache'[q], PagesOf(q), None)
  BY <1>1 DEF LabelInv
<1>3. transactionPage' \in Transaction!Pages /\ Settled(transactionCache'[transactionPage'], None)
  BY <1>1 DEF LabelInv, Transaction!TypeOK
<1>4. transactionCache' \in [Transaction!Pages -> EntryOver({None} \cup Transaction!Answers)]
  BY <1>1, <1>2, EntriesOfPages
<1>5. Transaction!TypeOK'
  BY <1>3, <1>4, TransactionQueries DEF LabelInv, Transaction!TypeOK, ViewTyped
<1> QED
  BY <1>2, <1>3, <1>5 DEF LabelInv

LEMMA NextLabel == LabelInv /\ [Transaction!Next]_(Transaction!vars) => LabelInv'
<1> SUFFICES ASSUME LabelInv, [Transaction!Next]_(Transaction!vars)
             PROVE  LabelInv'
  OBVIOUS
<1> USE DEF Transaction!viewVars
<1>0. /\ ViewTyped /\ total \in 0..MaxTotal /\ transactionPage \in Transaction!Pages
      /\ transactionCache = [p \in Transaction!Pages |-> transactionCache[p]]
      /\ \A p \in Transaction!Pages : Sound(transactionCache[p], PagesOf(p), None)
  BY DEF LabelInv, Transaction!TypeOK, ViewTyped
<1>1. ASSUME NEW p \in Transaction!Pages, Transaction!GoToPage(p)
      PROVE  LabelInv'
  <2>1. /\ transactionCache' =
               [transactionCache EXCEPT ![p] = MountQuery(transactionCache[p], None)]
        /\ transactionPage' = p /\ UNCHANGED total
    BY <1>0, <1>1, TransactionQueries DEF Transaction!GoToPage
  <2>2. ViewTyped'
    BY <1>0, <1>1 DEF Transaction!GoToPage, Transaction!LastShown, ViewTyped
  <2> QED
    BY <1>0, <2>1, <2>2, StartSound, PageOfLabelChanges
<1>2. ASSUME NEW p \in Transaction!Pages, Transaction!FetchTransactions(p)
      PROVE  LabelInv'
  <2>1. /\ transactionCache' =
               [transactionCache EXCEPT ![p] =
                   Read(transactionCache[p], Transaction!Listing(p))]
        /\ UNCHANGED <<total, transactionPage>> /\ ViewTyped'
    BY <1>0, <1>2, TransactionQueries DEF Transaction!FetchTransactions, ViewTyped
  <2> QED
    BY <1>0, <2>1, ListingOfPage, NoPageIsNone, ReadSound, PageOfLabelChanges
<1>3. ASSUME NEW p \in Transaction!Pages, Transaction!FetchEnds(p)
      PROVE  LabelInv'
  <2>1. /\ \/ /\ transactionCache[p].fetch = "read"
              /\ transactionCache' =
                    [transactionCache EXCEPT ![p] = Arrive(transactionCache[p], None)]
           \/ transactionCache' =
                    [transactionCache EXCEPT ![p] = Fail(transactionCache[p], None)]
        /\ UNCHANGED <<total, transactionPage>> /\ ViewTyped'
    BY <1>0, <1>3, TransactionQueries DEF Transaction!FetchEnds, ViewTyped
  <2> QED
    BY <1>0, <2>1, ArriveSound, FailSound, PageOfLabelChanges
<1>4. CASE Transaction!Refresh
  <2>1. /\ transactionCache' =
               [p \in Transaction!Pages |->
                   Invalidate(transactionCache[p], p = transactionPage, None)]
        /\ UNCHANGED <<total, transactionPage>> /\ ViewTyped'
    BY <1>0, <1>4, TransactionQueries DEF Transaction!Refresh, ViewTyped
  <2>2. \A p \in Transaction!Pages :
            /\ Sound(transactionCache'[p], PagesOf(p), None)
            /\ p = transactionPage => Settled(transactionCache'[p], None)
    BY <1>0, <2>1, InvalidateSound
  <2>3. transactionCache' \in [Transaction!Pages -> EntryOver({None} \cup Transaction!Answers)]
    BY <2>1, <2>2, EntriesOfPages
  <2>4. Transaction!TypeOK'
    BY <1>0, <2>1, <2>3, TransactionQueries DEF Transaction!TypeOK, ViewTyped
  <2> QED
    BY <1>0, <2>1, <2>2, <2>4 DEF LabelInv
<1>5. ASSUME UNCHANGED <<transactionCache, transactionPage>>, total' \in 0..MaxTotal, ViewTyped'
      PROVE  LabelInv'
  BY <1>5 DEF LabelInv, Transaction!TypeOK, ViewTyped
<1>6. CASE Transaction!NewTransaction
  <2>1. total' \in 0..MaxTotal
    BY <1>0, <1>6, TransactionConstants DEF Transaction!NewTransaction
  <2> QED
    BY <1>0, <1>5, <1>6, <2>1 DEF Transaction!NewTransaction, ViewTyped
<1>7. ASSUME NEW s \in TransactionSearches \cup {None}, Transaction!SetSearch(s)
      PROVE  LabelInv'
  BY <1>0, <1>5, <1>7 DEF Transaction!SetSearch, ViewTyped
<1>8. ASSUME NEW t \in Transaction!Transactions \cup {None}, Transaction!Select(t)
      PROVE  LabelInv'
  BY <1>0, <1>5, <1>8 DEF Transaction!Select, ViewTyped
<1>9. \A k \in DOMAIN Transaction!Filtered :
          Transaction!Filtered[k] \in Transaction!Transactions
  BY FilteredTransactions
<1>10. ASSUME NEW k, Transaction!SelectRow(k)
       PROVE  LabelInv'
  BY <1>8, <1>9, <1>10 DEF Transaction!SelectRow
<1>11. CASE Transaction!Close \/ Transaction!OnPrev \/ Transaction!OnNext
  <2>1. DOMAIN Transaction!Filtered = 1..Len(Transaction!Filtered)
        /\ Len(Transaction!Filtered) \in Nat
    BY FilteredTransactions
  <2>2. CASE Transaction!OnPrev
    <3>1. Transaction!SelectedIndex - 1 \in DOMAIN Transaction!Filtered
      BY <2>1, <2>2, FilteredTransactions DEF Transaction!OnPrev
    <3> QED
      BY <1>8, <1>9, <2>2, <3>1 DEF Transaction!OnPrev
  <2>3. CASE Transaction!OnNext
    <3>1. Transaction!SelectedIndex + 1 \in DOMAIN Transaction!Filtered
      BY <2>1, <2>3, FilteredTransactions DEF Transaction!OnNext
    <3> QED
      BY <1>8, <1>9, <2>3, <3>1 DEF Transaction!OnNext
  <2> QED
    BY <1>8, <1>11, <2>2, <2>3 DEF Transaction!Close
<1>12. CASE UNCHANGED Transaction!vars
  BY <1>0, <1>5, <1>12 DEF Transaction!vars, ViewTyped
<1> QED
  BY <1>1, <1>2, <1>3, <1>4, <1>6, <1>7, <1>10, <1>11, <1>12 DEF Transaction!Next

\* When the pager of the transactions page (page-transactions.tsx) says "Page p of
\* n", the rows above it are those of page p, for any number of transactions and
\* pages, although those of another page stand in while one loads.
THEOREM LabelIsTruthful == ListsSpec => []PageLabelTruthful
<1>1. ListsInit => LabelInv
  BY InitLabel DEF ListsInit
<1>2. LabelInv /\ [ListsNext]_listsVars => LabelInv'
  BY ListsSteps, NextLabel
<1>3. LabelInv => PageLabelTruthful
  <2> SUFFICES ASSUME LabelInv, Transaction!PageLabelShown
               PROVE  Transaction!Data.of = transactionPage
    BY DEF PageLabelTruthful, Transaction!PageLabelTruthful
  <2> DEFINE e == transactionCache[transactionPage]
  <2>1. Transaction!Data # None /\ Idle(e)
    BY TransactionQueries
       DEF Transaction!PageLabelShown, Transaction!PagerShown, Transaction!TotalPages,
           Transaction!IsFetching
  <2>2. Sound(e, PagesOf(transactionPage), None) /\ Settled(e, None)
    BY DEF LabelInv, Transaction!TypeOK
  <2>3. Transaction!Data = e.data
    BY <2>1, <2>2 DEF Transaction!Data, Transaction!Shown, Settled
  <2>4. e.data \in PagesOf(transactionPage)
    BY <2>1, <2>2, <2>3 DEF Sound, EntryOver
  <2> QED
    BY <2>3, <2>4 DEF PagesOf
<1> QED
  BY <1>1, <1>2, <1>3, PTL DEF ListsSpec

-----------------------------------------------------------------------------
(* The recipients page *)

LEMMA RecipientQueries ==
    /\ Recipient!NoEntry(None) = NoEntry(None)
    /\ \A e : /\ Recipient!Idle(e) = Idle(e)
              /\ Recipient!MountQuery(e, None) = MountQuery(e, None)
              /\ Recipient!Arrive(e, None) = Arrive(e, None)
              /\ Recipient!Fail(e, None) = Fail(e, None)
              /\ \A a : Recipient!Read(e, a) = Read(e, a)
              /\ \A m : Recipient!Invalidate(e, m, None) = Invalidate(e, m, None)
              /\ \A o, m, l : Recipient!OvertakenOnInvalidate(o, e, m, l, None)
                                 = OvertakenOnInvalidate(o, e, m, l, None)
    /\ \A D : Recipient!EntryOver(D) = EntryOver(D)
    /\ Recipient!Overtaking = Overtaking
    /\ \A o : /\ Recipient!OvertakenOnArrive(o) = OvertakenOnArrive(o)
              /\ Recipient!OvertakenOnFail(o) = OvertakenOnFail(o)
BY DEF Recipient!Overtaking, Overtaking, Recipient!OvertakenOnArrive, OvertakenOnArrive,
       Recipient!OvertakenOnFail, OvertakenOnFail, Recipient!OvertakenOnInvalidate,
       OvertakenOnInvalidate, Recipient!GoesOn, GoesOn,
       Recipient!NoEntry, NoEntry, Recipient!Idle, Idle, Recipient!MountQuery,
       MountQuery, Recipient!Start, Start, Recipient!Restart, Restart,
       Recipient!Arrive, Arrive, Recipient!Fail, Fail, Recipient!Read, Read,
       Recipient!Invalidate, Invalidate, Recipient!EntryOver, EntryOver

LEMMA RecipientSets ==
    \A S : /\ Recipient!IsFiniteSet(S) = IsFiniteSet(S)
          /\ Recipient!Cardinality(S) = Cardinality(S)
BY DEF Recipient!IsFiniteSet, IsFiniteSet, Recipient!Cardinality, Cardinality

LEMMA RecipientRows ==
    /\ \A S : Recipient!InOrder(S) = InOrder(S)
    /\ \A s, p, n : Recipient!Slice(s, p, n) = Slice(s, p, n)
BY RecipientSets DEF Recipient!InOrder, InOrder, Recipient!Slice, Slice

RecipientAnswers == Recipient!Listings \ {None}

LEMMA RecipientConstants ==
    /\ IsFiniteSet(Recipient!Recipients) /\ Recipient!Recipients \subseteq Nat
    /\ RecipientsPerPage \in Nat \ {0}
    /\ None \notin [rows: Seq(Nat), total: Nat]
    /\ Recipient!Pages \subseteq Nat \ {0} /\ 1 \in Recipient!Pages
<1>1. /\ IsFiniteSet(Recipient!Recipients) /\ Recipient!Recipients \subseteq Nat
      /\ RecipientsPerPage \in Nat \ {0}
      /\ None \notin [rows: Seq(Nat), total: Nat]
  BY ListsAssumption, RecipientSets
     DEF Recipient!RecipientsAssumption, Recipient!Recipients
<1> DEFINE n == Recipient!Cardinality(Recipient!Recipients)
<1>2. n \in Nat
  BY <1>1, RecipientSets, FS_CardinalityType
<1> HIDE DEF n
<1>3. Recipient!TotalPagesFor(n) \in Nat \ {0}
  BY <1>1, <1>2, PagesOfTotal DEF Recipient!TotalPagesFor
<1> QED
  BY <1>1, <1>3 DEF Recipient!Pages, n

\* A listing shows rows that were there when it was read.
LEMMA ListedRecipients ==
    ASSUME NEW S, S \subseteq Recipient!Recipients, NEW p \in Recipient!Pages
    PROVE  /\ Recipient!Listing(S, p) \in [rows: Seq(S), total: Nat]
           /\ Recipient!Listing(S, p) \in RecipientAnswers
<1>1. IsFiniteSet(S) /\ S \subseteq Nat /\ S \subseteq Int
  <2>1. IsFiniteSet(S)
    BY RecipientConstants, FS_Subset
  <2>2. S \subseteq Nat
    BY RecipientConstants
  <2> QED
    BY <2>1, <2>2
<1>2. InOrder(S) \in Seq(S) /\ Cardinality(S) \in Nat
  BY <1>1, OrderIsSequence, FS_CardinalityType
<1>3. Recipient!Listing(S, p) =
          [rows |-> Slice(InOrder(S), p, RecipientsPerPage), total |-> Cardinality(S)]
  BY RecipientRows, RecipientSets DEF Recipient!Listing
<1>4. Slice(InOrder(S), p, RecipientsPerPage) \in Seq(S)
  BY <1>2, RecipientConstants, SliceIsSequence
<1>5. Recipient!Listing(S, p) \in [rows: Seq(S), total: Nat]
  BY <1>2, <1>3, <1>4
<1>6. Recipient!Listing(S, p) # None
  <2>1. Seq(S) \subseteq Seq(Nat)
    BY <1>1, SequencesGrow
  <2>2. Recipient!Listing(S, p) \in [rows: Seq(Nat), total: Nat]
    BY <1>5, <2>1
  <2> QED
    BY <2>2, RecipientConstants
<1> QED
  BY <1>5, <1>6 DEF RecipientAnswers, Recipient!Listings

\* What counts as fresh, and what is on its way, has none of the rows that the
\* user was told are gone, unless it was overtaken.
WithoutGone(p) ==
    LET e == recipientCache[p] IN
    /\ ~e.stale /\ recipientOvertaken[p] # "data"
           => gone \cap Recipient!ToSet(e.data.rows) = {}
    /\ e.fetch = "read" /\ recipientOvertaken[p] # "answer"
           => gone \cap Recipient!ToSet(e.got.rows) = {}

\* What is on the screen, at rest, is fresh.
FreshAtRest ==
    Idle(recipientCache[recipientPage]) /\ ~recipientCache[recipientPage].error
        => ~recipientCache[recipientPage].stale

RecipientInv ==
    /\ Recipient!TypeOK
    /\ \A p \in Recipient!Pages : Sound(recipientCache[p], RecipientAnswers, None)
    /\ \A r \in Recipient!Recipients : deletes[r] = "done" => r \notin saved
    /\ gone \cap saved = {}
    /\ \A p \in Recipient!Pages : WithoutGone(p)
    /\ FreshAtRest

LEMMA EntriesAreTyped ==
    /\ RecipientAnswers \cup {None} = Recipient!Listings
    /\ \A e : Sound(e, RecipientAnswers, None) => e \in Recipient!EntryOver(Recipient!Listings)
<1>1. RecipientAnswers \cup {None} = Recipient!Listings
  BY DEF RecipientAnswers, Recipient!Listings
<1> QED
  BY <1>1, RecipientQueries DEF Sound

LEMMA InitRecipients == Recipient!Init => RecipientInv
<1> SUFFICES ASSUME Recipient!Init
             PROVE  RecipientInv
  OBVIOUS
<1>1. recipientCache = [p \in Recipient!Pages |->
                          IF p = 1 THEN MountQuery(NoEntry(None), None) ELSE NoEntry(None)]
  BY RecipientQueries DEF Recipient!Init
<1>2. \A p \in Recipient!Pages : Sound(recipientCache[p], RecipientAnswers, None)
  BY <1>1, NoEntrySound, StartSound
<1>3. recipientCache \in [Recipient!Pages -> Recipient!EntryOver(Recipient!Listings)]
  BY <1>1, <1>2, EntriesAreTyped
<1>4. 1 \in Recipient!Pages
  BY RecipientConstants
<1>5. Recipient!TypeOK
  BY <1>3, <1>4, RecipientQueries
     DEF Recipient!Init, Recipient!TypeOK, Recipient!Recipients, Overtaking
<1>6. gone = {} /\ recipientPage = 1 /\ \A r \in Recipient!Recipients : deletes[r] = "idle"
  BY DEF Recipient!Init
<1>7. FreshAtRest
  BY <1>1, <1>4, <1>6 DEF FreshAtRest, MountQuery, NoEntry, Start, Restart, Idle
<1>8. \A p \in Recipient!Pages : WithoutGone(p)
  BY <1>6 DEF WithoutGone
<1> QED
  BY <1>2, <1>5, <1>6, <1>7, <1>8 DEF RecipientInv

RecipientCacheSound ==
    /\ recipientCache \in [Recipient!Pages -> Recipient!EntryOver(Recipient!Listings)]
    /\ \A p \in Recipient!Pages : Sound(recipientCache[p], RecipientAnswers, None)

\* One page is fetched, or its fetch ends: the others stay as they are.
LEMMA RecipientEntryChanges ==
    ASSUME RecipientInv, NEW p \in Recipient!Pages, NEW e, NEW o \in Overtaking,
           Sound(e, RecipientAnswers, None),
           recipientCache' = [recipientCache EXCEPT ![p] = e],
           recipientOvertaken' = [recipientOvertaken EXCEPT ![p] = o],
           UNCHANGED <<gone, recipientPage>>,
           ~e.stale /\ o # "data" => gone \cap Recipient!ToSet(e.data.rows) = {},
           e.fetch = "read" /\ o # "answer" => gone \cap Recipient!ToSet(e.got.rows) = {},
           Idle(e) /\ ~e.error => ~e.stale
    PROVE  /\ RecipientCacheSound'
           /\ recipientOvertaken' \in [Recipient!Pages -> Overtaking]
           /\ \A q \in Recipient!Pages : WithoutGone(q)'
           /\ FreshAtRest'
<1>0. /\ recipientCache \in [Recipient!Pages -> Recipient!EntryOver(Recipient!Listings)]
      /\ recipientOvertaken \in [Recipient!Pages -> Overtaking]
      /\ recipientPage \in Recipient!Pages
  BY RecipientQueries DEF RecipientInv, Recipient!TypeOK
<1>1. \A q \in Recipient!Pages :
          /\ recipientCache'[q] = IF q = p THEN e ELSE recipientCache[q]
          /\ recipientOvertaken'[q] = IF q = p THEN o ELSE recipientOvertaken[q]
  BY <1>0
<1>2. \A q \in Recipient!Pages : Sound(recipientCache'[q], RecipientAnswers, None)
  BY <1>1 DEF RecipientInv
<1>3. recipientCache' \in [Recipient!Pages -> Recipient!EntryOver(Recipient!Listings)]
  BY <1>0, EntriesAreTyped
<1>4. \A q \in Recipient!Pages : WithoutGone(q)'
  <2> TAKE q \in Recipient!Pages
  <2>1. WithoutGone(q)
    BY DEF RecipientInv
  <2> QED
    BY <1>1, <2>1 DEF WithoutGone
<1>5. FreshAtRest'
  BY <1>0, <1>1 DEF RecipientInv, FreshAtRest
<1>6. recipientOvertaken' \in [Recipient!Pages -> Overtaking]
  BY <1>0
<1> QED
  BY <1>2, <1>3, <1>4, <1>5, <1>6 DEF RecipientCacheSound

\* After an invalidation every page is stale and the one on the screen is being
\* fetched; an answer that goes on has none of the rows, unless it is overtaken.
LEMMA RecipientsInvalidated ==
    ASSUME RecipientInv, NEW told, Recipient!InvalidateRecipients(told),
           UNCHANGED recipientPage, gone' \subseteq gone \cup told
    PROVE  /\ RecipientCacheSound'
           /\ recipientOvertaken' \in [Recipient!Pages -> Overtaking]
           /\ \A p \in Recipient!Pages : WithoutGone(p)'
           /\ FreshAtRest'
<1>1. /\ recipientCache' = [p \in Recipient!Pages |->
                              Invalidate(recipientCache[p], p = recipientPage, None)]
      /\ recipientOvertaken' = [p \in Recipient!Pages |->
             OvertakenOnInvalidate(recipientOvertaken[p], recipientCache[p],
                 p = recipientPage,
                 told \cap Recipient!ToSet(recipientCache[p].got.rows) # {}, None)]
  BY RecipientQueries DEF Recipient!InvalidateRecipients
<1>2. \A p \in Recipient!Pages : Sound(recipientCache'[p], RecipientAnswers, None)
  <2> TAKE p \in Recipient!Pages
  <2>1. Sound(recipientCache[p], RecipientAnswers, None)
    BY DEF RecipientInv
  <2> QED
    BY <1>1, <2>1, InvalidateSound
<1>3. recipientCache' \in [Recipient!Pages -> Recipient!EntryOver(Recipient!Listings)]
  BY <1>1, <1>2, EntriesAreTyped
<1>4. ASSUME NEW p \in Recipient!Pages
      PROVE  /\ recipientOvertaken'[p] \in Overtaking /\ WithoutGone(p)'
             /\ recipientCache'[p].stale
             /\ p = recipientPage => ~Idle(recipientCache'[p])
  <2> DEFINE e == recipientCache[p]
             lacking == told \cap Recipient!ToSet(e.got.rows) # {}
             o == OvertakenOnInvalidate(recipientOvertaken[p], e, p = recipientPage,
                                        lacking, None)
  <2>1. e \in EntryOver(RecipientAnswers \cup {None}) /\ WithoutGone(p)
        /\ recipientOvertaken[p] \in Overtaking
    BY RecipientQueries DEF RecipientInv, Recipient!TypeOK, Sound
  <2>2. recipientCache'[p] = Invalidate(e, p = recipientPage, None)
        /\ recipientOvertaken'[p] = o
    BY <1>1
  <2>3. /\ recipientCache'[p].stale
        /\ recipientCache'[p].fetch = "read"
               => GoesOn(e, p = recipientPage, None) /\ recipientCache'[p].got = e.got
        /\ p = recipientPage => ~Idle(recipientCache'[p])
    <3> DEFINE A == RecipientAnswers \cup {None}
    <3>1. None \in A /\ e \in EntryOver(A)
      BY <2>1
    <3> HIDE DEF A, e
    <3>2. ASSUME NEW m \in BOOLEAN, m = (p = recipientPage)
          PROVE  /\ Invalidate(e, m, None).stale
                 /\ Invalidate(e, m, None).fetch = "read"
                        => GoesOn(e, m, None) /\ Invalidate(e, m, None).got = e.got
                 /\ m => ~Idle(Invalidate(e, m, None))
      BY <3>1, InvalidateRecalls
    <3> QED
      BY <2>2, <3>2, Zenon
  <2>4. /\ o \in Overtaking
        /\ GoesOn(e, p = recipientPage, None) /\ o # "answer"
               => ~lacking /\ recipientOvertaken[p] # "answer"
    <3> HIDE DEF e, lacking
    <3> QED
      BY <2>1, OvertakenKept, Zenon
  <2>5. GoesOn(e, p = recipientPage, None) => e.fetch = "read"
    BY DEF GoesOn
  <2> HIDE DEF o
  <2>6. ASSUME recipientCache'[p].fetch = "read", recipientOvertaken'[p] # "answer"
        PROVE  gone' \cap Recipient!ToSet(recipientCache'[p].got.rows) = {}
    <3>1. recipientCache'[p].got = e.got /\ ~lacking /\ recipientOvertaken[p] # "answer"
      BY <2>2, <2>3, <2>4, <2>6
    <3>2. gone \cap Recipient!ToSet(e.got.rows) = {}
      BY <2>1, <2>3, <2>5, <2>6, <3>1 DEF WithoutGone
    <3> QED
      BY <3>1, <3>2
  <2> QED
    BY <2>2, <2>3, <2>4, <2>6 DEF WithoutGone
<1>5. recipientOvertaken' \in [Recipient!Pages -> Overtaking]
  BY <1>1, <1>4
<1>6. FreshAtRest'
  <2>1. recipientPage \in Recipient!Pages
    BY DEF RecipientInv, Recipient!TypeOK
  <2> QED
    BY <1>4, <2>1 DEF FreshAtRest
<1> QED
  BY <1>2, <1>3, <1>4, <1>5, <1>6 DEF RecipientCacheSound

LEMMA NextRecipients == RecipientInv /\ [Recipient!Next]_(Recipient!vars) => RecipientInv'
<1> SUFFICES ASSUME RecipientInv, [Recipient!Next]_(Recipient!vars)
             PROVE  RecipientInv'
  OBVIOUS
<1> USE DEF Recipient!serverVars, Recipient!pageVars, Recipient!buttonVars,
            Recipient!historyVars
<1>0. /\ Recipient!TypeOK /\ RecipientCacheSound /\ recipientPage \in Recipient!Pages
      /\ recipientOvertaken \in [Recipient!Pages -> Overtaking]
      /\ \A p \in Recipient!Pages : WithoutGone(p)
  BY RecipientQueries DEF RecipientInv, Recipient!TypeOK, RecipientCacheSound
<1>1. ASSUME NEW p \in Recipient!Pages, Recipient!GoToPage(p)
      PROVE  RecipientInv'
  <2> DEFINE now == recipientCache[p]
             e == MountQuery(now, None)
  <2>1. recipientCache' = [recipientCache EXCEPT ![p] = e]
    BY <1>0, <1>1, RecipientQueries DEF Recipient!GoToPage
  <2>2. Sound(e, RecipientAnswers, None)
    BY <1>0, StartSound DEF RecipientCacheSound
  <2>3. now \in EntryOver(RecipientAnswers \cup {None})
    BY <1>0 DEF RecipientCacheSound, Sound
  <2>4. /\ e.data = now.data /\ e.stale = now.stale
        /\ e.fetch = "read" => now.fetch = "read" /\ e.got = now.got
        /\ Idle(e) => ~e.stale
    BY <2>3 DEF MountQuery, Start, Restart, Idle, EntryOver
  <2>5. /\ UNCHANGED <<saved, deletes, addition, gone, recipientOvertaken>>
        /\ recipientPage' = p
    BY <1>1 DEF Recipient!GoToPage
  <2> HIDE DEF now, e
  <2>6. \A q \in Recipient!Pages : recipientCache'[q] = IF q = p THEN e ELSE recipientCache[q]
    BY <1>0, <2>1 DEF RecipientCacheSound
  <2>7. RecipientCacheSound'
    <3>1. \A q \in Recipient!Pages : Sound(recipientCache'[q], RecipientAnswers, None)
      BY <1>0, <2>2, <2>6 DEF RecipientCacheSound
    <3> QED
      BY <1>0, <2>1, <2>2, <3>1, EntriesAreTyped DEF RecipientCacheSound
  <2>8. Recipient!TypeOK'
    BY <1>0, <1>1, <2>5, <2>7
       DEF Recipient!GoToPage, Recipient!TypeOK, Recipient!Rerender, Recipient!LastShown,
           RecipientCacheSound
  <2>9. \A q \in Recipient!Pages : WithoutGone(q)'
    <3> TAKE q \in Recipient!Pages
    <3>1. WithoutGone(q) /\ WithoutGone(p)
      BY <1>0
    <3> QED
      BY <2>4, <2>5, <2>6, <3>1 DEF WithoutGone, now
  <2>10. FreshAtRest'
    BY <2>4, <2>5, <2>6 DEF FreshAtRest
  <2> QED
    BY <2>5, <2>7, <2>8, <2>9, <2>10 DEF RecipientInv, RecipientCacheSound
<1>2. ASSUME NEW p \in Recipient!Pages, Recipient!ListRecipients(p)
      PROVE  RecipientInv'
  <2> DEFINE answer == Recipient!Listing(saved, p)
             e == Read(recipientCache[p], answer)
  <2>1. recipientCache' = [recipientCache EXCEPT ![p] = e]
    BY <1>0, <1>2, RecipientQueries DEF Recipient!ListRecipients
  <2>2. answer \in [rows: Seq(saved), total: Nat] /\ answer \in RecipientAnswers
    BY <1>0, ListedRecipients DEF Recipient!TypeOK
  <2>3. Sound(e, RecipientAnswers, None)
    BY <1>0, <2>2, ReadSound DEF RecipientCacheSound, RecipientAnswers
  <2>4. UNCHANGED <<saved, deletes, addition, recipientPage, recipientLast,
                    recipientSearch, confirming, asked, gone,
                    recipientOvertaken>>
    BY <1>2 DEF Recipient!ListRecipients
  <2>5. /\ e.data = recipientCache[p].data /\ e.got = answer /\ e.fetch = "read"
        /\ e.stale = recipientCache[p].stale /\ ~Idle(e)
    BY <1>0 DEF Read, Idle, RecipientCacheSound, Sound, EntryOver
  <2>6. gone \cap Recipient!ToSet(answer.rows) = {}
    <3>1. answer.rows \in Seq(saved)
      BY <2>2
    <3>2. Recipient!ToSet(answer.rows) \subseteq saved
      BY <3>1 DEF Recipient!ToSet
    <3> QED
      BY <3>2 DEF RecipientInv
  <2> DEFINE o == recipientOvertaken[p]
  <2>7. o \in Overtaking /\ recipientOvertaken' = [recipientOvertaken EXCEPT ![p] = o]
    BY <1>0, <2>4
  <2>8. ~e.stale /\ o # "data" => gone \cap Recipient!ToSet(e.data.rows) = {}
    BY <1>0, <2>5 DEF WithoutGone
  <2> HIDE DEF answer, e, o
  <2>9. /\ RecipientCacheSound' /\ FreshAtRest'
        /\ \A q \in Recipient!Pages : WithoutGone(q)'
        /\ recipientOvertaken' \in [Recipient!Pages -> Overtaking]
    BY <2>1, <2>3, <2>4, <2>5, <2>6, <2>7, <2>8, RecipientEntryChanges
  <2>10. Recipient!TypeOK'
    BY <1>0, <2>4, <2>9 DEF Recipient!TypeOK, RecipientCacheSound
  <2> QED
    BY <2>4, <2>9, <2>10 DEF RecipientInv, RecipientCacheSound
<1>3. ASSUME NEW p \in Recipient!Pages, Recipient!FetchEnds(p)
      PROVE  RecipientInv'
  <2> DEFINE now == recipientCache[p]
             o == recipientOvertaken[p]
  <2>1. PICK e, h :
           /\ recipientCache' = [recipientCache EXCEPT ![p] = e]
           /\ recipientOvertaken' = [recipientOvertaken EXCEPT ![p] = h]
           /\ \/ now.fetch = "read" /\ e = Arrive(now, None) /\ h = OvertakenOnArrive(o)
              \/ e = Fail(now, None) /\ h = OvertakenOnFail(o)
    <3>1. CASE /\ now.fetch = "read"
               /\ recipientCache' = [recipientCache EXCEPT ![p] = Arrive(now, None)]
               /\ recipientOvertaken'
                    = [recipientOvertaken EXCEPT ![p] = OvertakenOnArrive(o)]
      BY <3>1
    <3>2. CASE /\ recipientCache' = [recipientCache EXCEPT ![p] = Fail(now, None)]
               /\ recipientOvertaken'
                    = [recipientOvertaken EXCEPT ![p] = OvertakenOnFail(o)]
      BY <3>2
    <3> QED
      BY <1>0, <1>3, <3>1, <3>2, RecipientQueries DEF Recipient!FetchEnds
  <2>2. Sound(e, RecipientAnswers, None)
    BY <1>0, <2>1, ArriveSound, FailSound DEF RecipientCacheSound
  <2>3. /\ UNCHANGED <<saved, deletes, addition, recipientPage, recipientLast,
                       recipientSearch, gone>>
        /\ confirming' \subseteq confirming /\ asked' \subseteq asked
    BY <1>3 DEF Recipient!FetchEnds, Recipient!Rerender
  <2>4. \/ now.fetch = "read" /\ e.data = now.got /\ ~e.stale /\ e.fetch = "idle"
        \/ e.data = now.data /\ e.stale = now.stale /\ e.fetch = "idle" /\ e.error
    <3>1. now \in EntryOver(RecipientAnswers \cup {None})
      BY <1>0 DEF RecipientCacheSound, Sound
    <3> HIDE DEF now
    <3>2. /\ Arrive(now, None).data = now.got /\ Arrive(now, None).fetch = "idle"
          /\ ~Arrive(now, None).stale
          /\ Fail(now, None).data = now.data /\ Fail(now, None).fetch = "idle"
          /\ Fail(now, None).error /\ Fail(now, None).stale = now.stale
      BY <3>1 DEF Arrive, Fail, EntryOver
    <3> QED
      BY <2>1, <3>2
  <2>5. h \in Overtaking
    BY <1>0, <2>1, OvertakingTyped
  <2>6. ~e.stale /\ h # "data" => gone \cap Recipient!ToSet(e.data.rows) = {}
    <3>1. o \in Overtaking /\ WithoutGone(p)
      BY <1>0
    <3>2. CASE now.fetch = "read" /\ e = Arrive(now, None) /\ h = OvertakenOnArrive(o)
      <4>1. h # "data" => o # "answer"
        BY <3>1, <3>2, OvertakingTyped
      <4>2. e.data = now.got
        <5>1. now \in EntryOver(RecipientAnswers \cup {None})
          BY <1>0 DEF RecipientCacheSound, Sound
        <5> QED
          BY <3>2, <5>1 DEF Arrive, EntryOver
      <4> QED
        BY <3>1, <3>2, <4>1, <4>2 DEF WithoutGone
    <3>3. CASE e = Fail(now, None) /\ h = OvertakenOnFail(o)
      <4>1. h # "data" => o # "data"
        BY <3>1, <3>3, OvertakingTyped
      <4>2. e.data = now.data /\ e.stale = now.stale
        <5>1. now \in EntryOver(RecipientAnswers \cup {None})
          BY <1>0 DEF RecipientCacheSound, Sound
        <5> QED
          BY <3>3, <5>1 DEF Fail, EntryOver
      <4> QED
        BY <3>1, <4>1, <4>2 DEF WithoutGone
    <3> QED
      BY <2>1, <3>2, <3>3
  <2>7. e.fetch = "idle" /\ (~e.error => ~e.stale)
    BY <2>4
  <2> HIDE DEF now, o
  <2>8. /\ RecipientCacheSound' /\ FreshAtRest'
        /\ \A q \in Recipient!Pages : WithoutGone(q)'
        /\ recipientOvertaken' \in [Recipient!Pages -> Overtaking]
    BY <2>1, <2>2, <2>3, <2>5, <2>6, <2>7, RecipientEntryChanges
  <2>9. Recipient!TypeOK'
    BY <1>0, <2>3, <2>8, RecipientQueries DEF Recipient!TypeOK, RecipientCacheSound
  <2> QED
    BY <2>3, <2>8, <2>9 DEF RecipientInv, RecipientCacheSound
<1>4. ASSUME NEW s \in RecipientSearches \cup {None}, Recipient!Search(s)
      PROVE  RecipientInv'
  <2>1. Recipient!TypeOK'
    BY <1>0, <1>4 DEF Recipient!TypeOK, Recipient!Search, Recipient!Rerender
  <2> QED
    BY <1>4, <2>1 DEF Recipient!Search, RecipientInv, WithoutGone, FreshAtRest
<1>5. ASSUME UNCHANGED <<saved, recipientCache, recipientPage, gone, recipientOvertaken>>,
             Recipient!TypeOK',
             \A r \in Recipient!Recipients : deletes'[r] = "done" => deletes[r] = "done"
      PROVE  RecipientInv'
  BY <1>5 DEF RecipientInv, WithoutGone, FreshAtRest
<1>6. ASSUME NEW r \in Recipient!Recipients,
             \/ Recipient!AskToDelete(r) \/ Recipient!CancelDelete(r)
             \/ Recipient!HandleDelete(r) \/ Recipient!DeleteFails(r)
      PROVE  RecipientInv'
  BY <1>0, <1>5, <1>6
     DEF Recipient!AskToDelete, Recipient!CancelDelete, Recipient!HandleDelete,
         Recipient!DeleteFails, Recipient!CloseQuestion, Recipient!TypeOK
<1>7. ASSUME NEW r \in Recipient!Recipients, Recipient!DeleteRecipient(r)
      PROVE  RecipientInv'
  <2>1. Recipient!TypeOK'
    BY <1>0, <1>7 DEF Recipient!TypeOK, Recipient!DeleteRecipient
  <2>2. /\ saved' = saved \ {r}
        /\ UNCHANGED <<recipientCache, recipientPage, gone, recipientOvertaken>>
        /\ \A q \in Recipient!Recipients :
               deletes'[q] = "done" => deletes[q] = "done" \/ q = r
    BY <1>0, <1>7 DEF Recipient!TypeOK, Recipient!DeleteRecipient
  <2> QED
    BY <2>1, <2>2 DEF RecipientInv, WithoutGone, FreshAtRest
<1>8. ASSUME NEW r \in Recipient!Recipients, Recipient!Deleted(r)
      PROVE  RecipientInv'
  <2>1. /\ gone' = gone \cup {r} /\ deletes[r] = "done"
        /\ Recipient!InvalidateRecipients(gone')
        /\ deletes' = [deletes EXCEPT ![r] = "idle"]
        /\ UNCHANGED <<saved, addition, recipientPage, recipientLast, recipientSearch>>
        /\ confirming' \subseteq confirming /\ asked' \subseteq asked
    BY <1>8 DEF Recipient!Deleted, Recipient!CloseQuestion
  <2>2. /\ RecipientCacheSound' /\ FreshAtRest'
        /\ \A p \in Recipient!Pages : WithoutGone(p)'
        /\ recipientOvertaken' \in [Recipient!Pages -> Overtaking]
    BY <2>1, RecipientsInvalidated
  <2>3. Recipient!TypeOK'
    BY <1>0, <2>1, <2>2, RecipientQueries DEF Recipient!TypeOK, RecipientCacheSound
  <2>4. gone' \cap saved' = {}
    BY <2>1 DEF RecipientInv
  <2>5. \A q \in Recipient!Recipients : deletes'[q] = "done" => q \notin saved'
    BY <1>0, <2>1 DEF RecipientInv, Recipient!TypeOK
  <2> QED
    BY <2>2, <2>3, <2>4, <2>5 DEF RecipientInv, RecipientCacheSound
<1>9. ASSUME NEW r \in Recipient!Recipients, Recipient!CreateRecipient(r)
      PROVE  RecipientInv'
  <2>1. Recipient!TypeOK'
    BY <1>0, <1>9 DEF Recipient!TypeOK, Recipient!CreateRecipient
  <2>2. /\ saved' = saved \cup {r} /\ r \notin gone /\ deletes[r] = "idle"
        /\ UNCHANGED <<recipientCache, recipientPage, gone, recipientOvertaken, deletes>>
    BY <1>9 DEF Recipient!CreateRecipient
  <2> QED
    BY <2>1, <2>2 DEF RecipientInv, WithoutGone, FreshAtRest
<1>10. CASE Recipient!Created
  <2>1. /\ Recipient!InvalidateRecipients({})
        /\ UNCHANGED <<saved, deletes, recipientPage, recipientLast, recipientSearch,
                       confirming, asked, gone>>
        /\ addition' = "closed"
    BY <1>10 DEF Recipient!Created
  <2>2. /\ RecipientCacheSound' /\ FreshAtRest'
        /\ \A p \in Recipient!Pages : WithoutGone(p)'
        /\ recipientOvertaken' \in [Recipient!Pages -> Overtaking]
    BY <2>1, RecipientsInvalidated
  <2>3. Recipient!TypeOK'
    BY <1>0, <2>1, <2>2, RecipientQueries DEF Recipient!TypeOK, RecipientCacheSound
  <2> QED
    BY <2>1, <2>2, <2>3 DEF RecipientInv, RecipientCacheSound
<1>11. CASE \/ Recipient!OpenCreate \/ Recipient!CloseCreate
            \/ Recipient!SubmitCreate \/ Recipient!CreateFails
  BY <1>0, <1>5, <1>11
     DEF Recipient!OpenCreate, Recipient!CloseCreate, Recipient!SubmitCreate,
         Recipient!CreateFails, Recipient!TypeOK
<1>12. CASE UNCHANGED Recipient!vars
  BY <1>0, <1>5, <1>12 DEF Recipient!vars, Recipient!TypeOK
<1> QED
  BY <1>1, <1>2, <1>3, <1>4, <1>6, <1>7, <1>8, <1>9, <1>10, <1>11, <1>12
     DEF Recipient!Next

\* A recipient that the user was told is gone is on no page at rest
\* (use-recipients.ts invalidates every page), for any recipients and pages, in any
\* order of answers, additions and deletions, unless the answer was overtaken.
LEMMA RecipientsAreGone == RecipientInv => Recipient!DeletedIsGone
<1> SUFFICES ASSUME RecipientInv
             PROVE  Recipient!DeletedIsGone
  OBVIOUS
<1>0. recipientPage \in Recipient!Pages /\ \A p \in Recipient!Pages : WithoutGone(p)
  BY DEF RecipientInv, Recipient!TypeOK
<1>1. ASSUME Recipient!Idle(recipientCache[recipientPage]),
             ~recipientCache[recipientPage].error,
             recipientOvertaken[recipientPage] # "data"
      PROVE  gone \cap Recipient!ToSet(Recipient!Rows) = {}
  <2>1. ~recipientCache[recipientPage].stale
    BY <1>1, RecipientQueries DEF RecipientInv, FreshAtRest
  <2>2. /\ recipientCache[recipientPage].data # None
        /\ gone \cap Recipient!ToSet(recipientCache[recipientPage].data.rows) = {}
    BY <1>0, <1>1, <2>1 DEF RecipientInv, WithoutGone, Sound
  <2> QED
    BY <2>2 DEF Recipient!Rows, Recipient!Data, Recipient!Shown
<1> QED
  BY <1>0, <1>1 DEF Recipient!DeletedIsGone, WithoutGone

\* An open question was asked by its row's own button, or its request is sent.
QuestionsAsked ==
    \A r \in confirming : r \in asked \/ deletes[r] # "idle"

LEMMA NextQuestions ==
    Recipient!TypeOK /\ QuestionsAsked /\ [Recipient!Next]_(Recipient!vars)
        => QuestionsAsked'
<1> SUFFICES ASSUME Recipient!TypeOK, QuestionsAsked, [Recipient!Next]_(Recipient!vars)
             PROVE  QuestionsAsked'
  OBVIOUS
<1> USE DEF Recipient!serverVars, Recipient!pageVars, Recipient!buttonVars
<1>0. deletes \in [Recipient!Recipients -> {"idle", "sent", "done"}]
  BY DEF Recipient!TypeOK
<1>1. ASSUME UNCHANGED deletes, Recipient!Rerender
      PROVE  QuestionsAsked'
  BY <1>1 DEF Recipient!Rerender, QuestionsAsked
<1>2. ASSUME NEW p \in Recipient!Pages,
             \/ Recipient!GoToPage(p) \/ Recipient!FetchEnds(p)
             \/ \E t \in RecipientSearches \cup {None} : Recipient!Search(t)
      PROVE  QuestionsAsked'
  BY <1>1, <1>2 DEF Recipient!GoToPage, Recipient!FetchEnds, Recipient!Search
<1>3. ASSUME NEW t, Recipient!Search(t)
      PROVE  QuestionsAsked'
  BY <1>1, <1>3 DEF Recipient!Search
<1>4. ASSUME NEW r \in Recipient!Recipients,
             \/ Recipient!AskToDelete(r) \/ Recipient!CancelDelete(r)
      PROVE  QuestionsAsked'
  BY <1>4 DEF Recipient!AskToDelete, Recipient!CancelDelete, Recipient!CloseQuestion,
              QuestionsAsked
<1>5. ASSUME NEW r \in Recipient!Recipients,
             \/ Recipient!HandleDelete(r) \/ Recipient!DeleteRecipient(r)
      PROVE  QuestionsAsked'
  BY <1>0, <1>5 DEF Recipient!HandleDelete, Recipient!DeleteRecipient, QuestionsAsked,
                    Recipient!TypeOK
<1>6. ASSUME NEW r \in Recipient!Recipients,
             \/ Recipient!Deleted(r) \/ Recipient!DeleteFails(r)
      PROVE  QuestionsAsked'
  BY <1>0, <1>6 DEF Recipient!Deleted, Recipient!DeleteFails, Recipient!CloseQuestion,
                    QuestionsAsked, Recipient!TypeOK
<1>7. ASSUME UNCHANGED <<confirming, asked, deletes>>
      PROVE  QuestionsAsked'
  BY <1>7 DEF QuestionsAsked
<1>8. ASSUME NEW p, Recipient!ListRecipients(p) \/ Recipient!CreateRecipient(p)
      PROVE  QuestionsAsked'
  BY <1>7, <1>8 DEF Recipient!ListRecipients, Recipient!CreateRecipient
<1>9. CASE \/ Recipient!OpenCreate \/ Recipient!CloseCreate \/ Recipient!SubmitCreate
           \/ Recipient!Created \/ Recipient!CreateFails
  BY <1>7, <1>9 DEF Recipient!OpenCreate, Recipient!CloseCreate, Recipient!SubmitCreate,
                    Recipient!Created, Recipient!CreateFails
<1>10. CASE UNCHANGED Recipient!vars
  BY <1>7, <1>10 DEF Recipient!vars
<1> QED
  BY <1>2, <1>3, <1>4, <1>5, <1>6, <1>8, <1>9, <1>10 DEF Recipient!Next

\* What a step may do to a deletion.
Asked(r) ==
    /\ deletes[r] = "idle" /\ deletes'[r] # "idle" => r \in asked
    /\ r \in saved \ saved' => deletes[r] = "sent"

\* A deletion is sent only by "Confirm" of a row whose own button was pressed, and
\* only such a request removes a row.
LEMMA DeletionStep ==
    ASSUME Recipient!TypeOK, QuestionsAsked, [Recipient!Next]_(Recipient!vars),
           NEW r \in Recipient!Recipients
    PROVE  Asked(r)
<1> USE DEF Recipient!serverVars
<1>0. deletes \in [Recipient!Recipients -> {"idle", "sent", "done"}]
  BY DEF Recipient!TypeOK
<1>1. ASSUME NEW q \in Recipient!Recipients, Recipient!HandleDelete(q)
      PROVE  Asked(r)
  <2>1. q \in asked
    BY <1>1 DEF Recipient!HandleDelete, QuestionsAsked
  <2> QED
    BY <1>0, <1>1, <2>1 DEF Recipient!HandleDelete, Asked
<1>2. ASSUME NEW q \in Recipient!Recipients, Recipient!DeleteRecipient(q)
      PROVE  Asked(r)
  BY <1>0, <1>2 DEF Recipient!DeleteRecipient, Asked
<1>3. ASSUME NEW q \in Recipient!Recipients,
             \/ Recipient!Deleted(q) \/ Recipient!DeleteFails(q)
             \/ Recipient!CreateRecipient(q)
      PROVE  Asked(r)
  BY <1>0, <1>3 DEF Recipient!Deleted, Recipient!DeleteFails, Recipient!CreateRecipient,
                    Asked
<1>4. ASSUME UNCHANGED <<saved, deletes>>
      PROVE  Asked(r)
  BY <1>4 DEF Asked
<1>5. ASSUME NEW q, \/ Recipient!AskToDelete(q) \/ Recipient!CancelDelete(q)
                    \/ Recipient!GoToPage(q) \/ Recipient!ListRecipients(q)
                    \/ Recipient!FetchEnds(q) \/ Recipient!Search(q)
      PROVE  Asked(r)
  BY <1>4, <1>5 DEF Recipient!AskToDelete, Recipient!CancelDelete, Recipient!GoToPage,
                    Recipient!ListRecipients, Recipient!FetchEnds, Recipient!Search
<1>6. CASE \/ Recipient!OpenCreate \/ Recipient!CloseCreate \/ Recipient!SubmitCreate
           \/ Recipient!Created \/ Recipient!CreateFails
  BY <1>4, <1>6 DEF Recipient!OpenCreate, Recipient!CloseCreate, Recipient!SubmitCreate,
                    Recipient!Created, Recipient!CreateFails
<1>7. CASE UNCHANGED Recipient!vars
  BY <1>4, <1>7 DEF Recipient!vars
<1> QED
  BY <1>1, <1>2, <1>3, <1>5, <1>6, <1>7 DEF Recipient!Next

\* Whatever moves the rows, a deletion is only sent for a row whose own button was
\* pressed since it is on the screen, once for each press and never after
\* "Cancel" (DeleteButton), and no row goes without such a request.
THEOREM DeletionsAreAskedFor == ListsSpec => OnlyAskedDeleted
<1>1. ListsInit => RecipientInv /\ QuestionsAsked
  <2>1. ListsInit => confirming = {}
    BY DEF ListsInit, Recipient!Init
  <2> QED
    BY <2>1, InitRecipients DEF ListsInit, QuestionsAsked
<1>2. RecipientInv /\ QuestionsAsked /\ [ListsNext]_listsVars
      => RecipientInv' /\ QuestionsAsked'
  BY ListsSteps, NextRecipients, NextQuestions DEF RecipientInv
<1>3. RecipientInv /\ QuestionsAsked /\ [ListsNext]_listsVars
      => [\A r \in Recipient!Recipients :
             /\ deletes[r] = "idle" /\ deletes'[r] # "idle" => r \in asked
             /\ r \in saved \ saved' => deletes[r] = "sent"]_(Recipient!vars)
  BY ListsSteps, DeletionStep DEF RecipientInv, Asked
<1> QED
  BY <1>1, <1>2, <1>3, PTL
     DEF ListsSpec, OnlyAskedDeleted, Recipient!OnlyAskedDeleted

-----------------------------------------------------------------------------
(* The administrators' list of bug reports *)

LEMMA ReportQueries ==
    /\ Report!NoEntry(None) = NoEntry(None)
    /\ \A e : /\ Report!Idle(e) = Idle(e)
              /\ Report!Start(e, None) = Start(e, None)
              /\ Report!MountQuery(e, None) = MountQuery(e, None)
              /\ Report!Arrive(e, None) = Arrive(e, None)
              /\ Report!Fail(e, None) = Fail(e, None)
              /\ \A a : Report!Read(e, a) = Read(e, a)
              /\ \A m : Report!Invalidate(e, m, None) = Invalidate(e, m, None)
              /\ \A o, m, l : Report!OvertakenOnInvalidate(o, e, m, l, None)
                                 = OvertakenOnInvalidate(o, e, m, l, None)
    /\ \A D : Report!EntryOver(D) = EntryOver(D)
    /\ Report!Overtaking = Overtaking
    /\ \A o : /\ Report!OvertakenOnArrive(o) = OvertakenOnArrive(o)
              /\ Report!OvertakenOnFail(o) = OvertakenOnFail(o)
BY DEF Report!Overtaking, Overtaking, Report!OvertakenOnArrive, OvertakenOnArrive,
       Report!OvertakenOnFail, OvertakenOnFail, Report!OvertakenOnInvalidate,
       OvertakenOnInvalidate, Report!GoesOn, GoesOn, Report!NoEntry, NoEntry, Report!Idle, Idle, Report!MountQuery,
       MountQuery, Report!Start, Start, Report!Restart, Restart,
       Report!Arrive, Arrive, Report!Fail, Fail, Report!Read, Read,
       Report!Invalidate, Invalidate, Report!EntryOver, EntryOver

LEMMA ReportRows ==
    /\ \A S : Report!InOrder(S) = InOrder(S)
    /\ \A s, p, n : Report!Slice(s, p, n) = Slice(s, p, n)
<1>1. \A S : Report!Cardinality(S) = Cardinality(S)
  BY DEF Report!IsFiniteSet, IsFiniteSet, Report!Cardinality, Cardinality
<1> QED
  BY <1>1 DEF Report!InOrder, InOrder, Report!Slice, Slice

LEMMA ReportConstants ==
    /\ MaxReports \in Nat /\ ReportsPerPage \in Nat \ {0} /\ Report!MaxPage \in Nat \ {0}
    /\ InitialReports \in 0..MaxReports
    /\ \A k \in Report!Keys : k = <<k[1], k[2]>> /\ k[1] \subseteq Report!Reports
                             /\ k[1] \in Report!Views /\ k[2] \in Nat \ {0}
    /\ Report!Answers \subseteq [rows: Seq(Nat), total: Nat] /\ None \notin Report!Answers
<1>1. /\ MaxReports \in Nat /\ ReportsPerPage \in Nat \ {0}
      /\ InitialReports \in 0..MaxReports
      /\ None \notin [rows: Seq(Nat), total: Nat]
      /\ \A F \in Filters : F \subseteq Report!Reports
  BY ListsAssumption DEF Report!BugReportsAssumption
<1>2. Report!MaxPage \in Nat \ {0}
  BY <1>1, PagesOfTotal DEF Report!MaxPage
<1>3. \A k \in Report!Keys : k = <<k[1], k[2]>> /\ k[1] \subseteq Report!Reports
                           /\ k[1] \in Report!Views /\ k[2] \in Nat \ {0}
  BY <1>1, <1>2 DEF Report!Keys, Report!Views, Report!All
<1>4. Report!Answers \subseteq [rows: Seq(Nat), total: Nat]
  <2>1. Report!Reports \subseteq Nat
    BY <1>1 DEF Report!Reports
  <2>2. Seq(Report!Reports) \subseteq Seq(Nat)
    BY <2>1, SequencesGrow
  <2> QED
    BY <1>1, <2>2 DEF Report!Answers
<1> QED
  BY <1>1, <1>2, <1>3, <1>4

ReportsTyped == reports \subseteq 1..newest /\ newest \in Report!Reports \cup {0}

\* How many reports a filter passes, and that these reach the page of a key.
Matching(k) == Cardinality(reports \cap k[1])
Reaches(n, k) == (k[2] - 1) * ReportsPerPage < n

LEMMA MatchingReports ==
    ASSUME ReportsTyped, NEW k \in Report!Keys
    PROVE  /\ IsFiniteSet(reports) /\ IsFiniteSet(reports \cap k[1])
           /\ Matching(k) \in 0..MaxReports
<1>1. newest \in Nat /\ newest <= MaxReports
  BY ReportConstants DEF ReportsTyped, Report!Reports
<1>2. IsFiniteSet(1..newest) /\ Cardinality(1..newest) = newest
  BY <1>1, FS_Interval
<1>3. reports \in SUBSET (1..newest) /\ reports \cap k[1] \in SUBSET (1..newest)
  BY DEF ReportsTyped
<1>4. IsFiniteSet(reports) /\ IsFiniteSet(reports \cap k[1]) /\ Matching(k) <= newest
  BY <1>2, <1>3, FS_Subset DEF Matching
<1>5. Matching(k) \in Nat
  BY <1>4, FS_CardinalityType DEF Matching
<1> QED
  BY <1>1, <1>4, <1>5, ReportConstants

\* An answer has reports that were there, counts them if it has any, and has some
\* if its page is reached.
LEMMA ListedReports ==
    ASSUME ReportsTyped, NEW k \in Report!Keys
    PROVE  /\ Report!Listing(k) \in Report!Answers
           /\ Report!Listing(k).rows \in Seq(reports)
           /\ Report!Listing(k).total <= Matching(k)
           /\ Reaches(Matching(k), k) => Report!Listing(k).rows # <<>>
<1> DEFINE S == reports \cap k[1]
           sorted == InOrder(S)
           matching == Report!Reverse(sorted)
           rows == Slice(matching, k[2], ReportsPerPage)
<1>1. IsFiniteSet(S) /\ Cardinality(S) = Matching(k) /\ Matching(k) \in 0..MaxReports
  BY MatchingReports DEF Matching
<1>2. S \subseteq reports /\ S \subseteq Report!Reports /\ S \subseteq Int
  BY ReportConstants DEF ReportsTyped, Report!Reports
<1>3. Report!Listing(k) = [rows |-> rows, total |-> IF rows = <<>> THEN 0 ELSE Len(matching)]
  BY ReportRows DEF Report!Listing
<1> HIDE DEF S
<1>4. sorted \in Seq(S) /\ Len(sorted) = Matching(k)
  BY <1>1, <1>2, OrderIsSequence
<1> HIDE DEF sorted
<1>5. matching \in Seq(S) /\ Len(matching) = Matching(k)
  <2>1. \A i \in 1..Len(sorted) : sorted[(Len(sorted) - i) + 1] \in S
    BY <1>4
  <2>2. matching \in [1..Len(sorted) -> S]
    BY <2>1 DEF Report!Reverse
  <2> HIDE DEF matching
  <2> QED
    BY <1>1, <1>4, <2>2
<1> HIDE DEF matching
<1>6. /\ rows \in Seq(S)
      /\ Reaches(Matching(k), k) => rows # <<>>
  BY <1>5, ReportConstants, SliceIsSequence DEF Reaches
<1> HIDE DEF rows
<1>7. rows \in Seq(reports) /\ rows \in Seq(Report!Reports)
  BY <1>2, <1>6, SequencesGrow
<1>8. Report!Listing(k) \in Report!Answers
  BY <1>1, <1>3, <1>5, <1>7, ReportConstants DEF Report!Answers
<1> QED
  BY <1>1, <1>3, <1>5, <1>6, <1>7, <1>8

Newer(rows, n) == \A i \in DOMAIN rows : rows[i] > n

\* What counts as fresh in e, and what is on its way, has only reports after n, by
\* o unless it was overtaken.
Shows(e, o, n) ==
    /\ ~e.stale /\ o # "data" => Newer(e.data.rows, n)
    /\ e.fetch = "read" /\ o # "answer" => Newer(e.got.rows, n)

\* What is at rest is fresh: true of what is on the screen.
Rested(e) == Idle(e) /\ ~e.error => ~e.stale

DeletionShown ==
    /\ cleared \in Nat /\ owed \in Nat /\ owed <= cleared /\ cleared <= newest
    /\ \A r \in reports : r > cleared
    /\ \A k \in Report!Keys : Shows(reportCache[k], reportOvertaken[k], owed)
    /\ Rested(reportCache[Report!Key])

\* As long as nothing was deleted, a page that was asked for stays within the n
\* reports of its filter, and so do the answers for it.
EntryWithin(e, k, n) ==
    /\ e.data # None => e.data.total <= n
    /\ e.fetch = "read" => e.got.total <= n
    /\ k[2] > 1 => /\ ~Idle(e) => Reaches(n, k)
                   /\ e.data # None => e.data.rows # <<>>
                   /\ e.fetch = "read" => e.got.rows # <<>>

NothingDeleted == cleared = 0 /\ elsewhere = 0
PagesWithin ==
    NothingDeleted => /\ reportPage > 1 => Reaches(Matching(Report!Key), Report!Key)
                 /\ \A k \in Report!Keys : EntryWithin(reportCache[k], k, Matching(k))

ReportCacheSound ==
    /\ reportCache \in [Report!Keys -> EntryOver({None} \cup Report!Answers)]
    /\ \A k \in Report!Keys : Sound(reportCache[k], Report!Answers, None)

ReportInv ==
    /\ Report!TypeOK
    /\ ReportCacheSound
    /\ DeletionShown
    /\ PagesWithin

LEMMA ReportsAreTyped ==
    ReportInv => /\ ReportsTyped /\ Report!Key \in Report!Keys
                 /\ newest \in Nat /\ elsewhere \in Nat /\ Report!Key = <<filter, reportPage>>
BY ReportConstants
   DEF ReportInv, Report!TypeOK, ReportsTyped, Report!Key, Report!Keys, Report!Reports

\* What an entry shows, as it is asked for again, answered or not.
LEMMA ShownKept ==
    ASSUME NEW e, Sound(e, Report!Answers, None), NEW o \in Overtaking,
           NEW n \in Nat, Shows(e, o, n)
    PROVE  /\ Shows(Start(e, None), o, n) /\ Shows(MountQuery(e, None), o, n)
           /\ Shows(Fail(e, None), OvertakenOnFail(o), n)
           /\ e.fetch = "read" => Shows(Arrive(e, None), OvertakenOnArrive(o), n)
           /\ \A a : Newer(a.rows, n) => Shows(Read(e, a), o, n)
<1>1. e \in EntryOver(Report!Answers \cup {None})
  BY DEF Sound
<1>2. Shows(Start(e, None), o, n)
  BY <1>1 DEF Shows, Start, Restart, EntryOver
<1>3. Shows(MountQuery(e, None), o, n)
  BY <1>2 DEF MountQuery
<1>4. Shows(Fail(e, None), OvertakenOnFail(o), n)
  BY <1>1 DEF Shows, Fail, OvertakenOnFail, EntryOver
<1>5. e.fetch = "read" => Shows(Arrive(e, None), OvertakenOnArrive(o), n)
  BY DEF Shows, Arrive, OvertakenOnArrive
<1>6. \A a : Newer(a.rows, n) => Shows(Read(e, a), o, n)
  BY <1>1 DEF Shows, Read, EntryOver
<1> QED
  BY <1>2, <1>3, <1>4, <1>5, <1>6

\* After any of these a page on the screen is fresh, or fetched, or says its error.
LEMMA RestedAfter ==
    ASSUME NEW e, Sound(e, Report!Answers, None)
    PROVE  /\ Rested(Start(e, None)) /\ Rested(MountQuery(e, None))
           /\ Rested(Fail(e, None)) /\ Rested(Arrive(e, None))
           /\ \A a : Rested(Read(e, a))
<1>1. e \in EntryOver(Report!Answers \cup {None})
  BY DEF Sound
<1>2. Rested(Start(e, None))
  BY <1>1 DEF Rested, Start, Restart, Idle, EntryOver
<1>3. Rested(MountQuery(e, None))
  BY <1>2 DEF MountQuery, Rested
<1>4. Rested(Fail(e, None)) /\ Rested(Arrive(e, None)) /\ \A a : Rested(Read(e, a))
  BY <1>1 DEF Rested, Fail, Arrive, Read, Idle, EntryOver
<1> QED
  BY <1>2, <1>3, <1>4

\* After an invalidation nothing is fresh, and what goes on under way has only
\* reports after the n that the user is told of, unless it is overtaken.
LEMMA ShownInvalidated ==
    ASSUME NEW e, Sound(e, Report!Answers, None), NEW o \in Overtaking,
           NEW mounted \in BOOLEAN, NEW n \in Nat,
           NEW lacking, lacking = \E i \in DOMAIN e.got.rows : e.got.rows[i] <= n
    PROVE  /\ OvertakenOnInvalidate(o, e, mounted, lacking, None) \in Overtaking
           /\ Shows(Invalidate(e, mounted, None),
                    OvertakenOnInvalidate(o, e, mounted, lacking, None), n)
<1> DEFINE next == Invalidate(e, mounted, None)
           p == OvertakenOnInvalidate(o, e, mounted, lacking, None)
<1>1. e \in EntryOver(Report!Answers \cup {None}) /\ (e.fetch = "read" => e.got # None)
  BY DEF Sound
<1>2. /\ next.stale
      /\ next.fetch = "read" => GoesOn(e, mounted, None) /\ next.got = e.got
  BY <1>1, InvalidateRecalls
<1>3. /\ p \in Overtaking
      /\ GoesOn(e, mounted, None) /\ p # "answer" => ~lacking
  BY OvertakenKept
<1>4. ASSUME GoesOn(e, mounted, None), ~lacking
      PROVE  Newer(e.got.rows, n)
  <2>1. e.got \in Report!Answers
    BY <1>1, <1>4 DEF GoesOn, EntryOver
  <2>2. e.got.rows \in Seq(Nat)
    BY <2>1, ReportConstants
  <2>3. \A i \in DOMAIN e.got.rows : e.got.rows[i] \in Nat /\ ~(e.got.rows[i] <= n)
    BY <1>4, <2>2
  <2> QED
    BY <2>3 DEF Newer
<1> HIDE DEF next, p
<1>5. Shows(next, p, n)
  BY <1>2, <1>3, <1>4 DEF Shows
<1> QED
  BY <1>3, <1>5 DEF next, p

\* What an entry holds stays within its filter's reports, as more are made.
LEMMA WithinKept ==
    ASSUME NEW e, Sound(e, Report!Answers, None), NEW k \in Report!Keys,
           NEW n \in Nat, NEW m \in Nat, n <= m, EntryWithin(e, k, n)
    PROVE  /\ EntryWithin(e, k, m) /\ EntryWithin(Fail(e, None), k, m)
           /\ e.fetch = "read" => EntryWithin(Arrive(e, None), k, m)
           /\ EntryWithin(Invalidate(e, FALSE, None), k, m)
           /\ (k[2] > 1 => Reaches(m, k)) => /\ EntryWithin(Start(e, None), k, m)
                                             /\ EntryWithin(MountQuery(e, None), k, m)
                                             /\ EntryWithin(Invalidate(e, TRUE, None), k, m)
           /\ \A a : /\ a.total <= m /\ (Reaches(m, k) => a.rows # <<>>) /\ ~Idle(e)
                     => EntryWithin(Read(e, a), k, m)
<1>1. /\ e \in EntryOver(Report!Answers \cup {None}) /\ (e.fetch = "read" => e.got # None)
      /\ \A a \in Report!Answers : a.total \in Nat
      /\ k[2] \in Nat /\ ReportsPerPage \in Nat
      /\ Reaches(n, k) => Reaches(m, k)
  BY ReportConstants DEF Sound, Report!Answers, Reaches
<1>2. EntryWithin(e, k, m)
  BY <1>1 DEF EntryWithin, EntryOver
<1>3. EntryWithin(Fail(e, None), k, m)
  BY <1>1, <1>2 DEF EntryWithin, EntryOver, Fail, Idle
<1>4. e.fetch = "read" => EntryWithin(Arrive(e, None), k, m)
  BY <1>1, <1>2 DEF EntryWithin, EntryOver, Arrive, Idle
<1>5. EntryWithin(Invalidate(e, FALSE, None), k, m)
  BY <1>1, <1>2 DEF EntryWithin, EntryOver, Invalidate, Idle
<1>6. ASSUME k[2] > 1 => Reaches(m, k)
      PROVE  /\ EntryWithin(Start(e, None), k, m) /\ EntryWithin(MountQuery(e, None), k, m)
             /\ EntryWithin(Invalidate(e, TRUE, None), k, m)
  <2>1. EntryWithin(Restart(e, None), k, m)
    BY <1>1, <1>2, <1>6 DEF EntryWithin, EntryOver, Restart, Idle
  <2>2. EntryWithin(Start(e, None), k, m)
    BY <1>2, <2>1 DEF Start
  <2>3. EntryWithin(MountQuery(e, None), k, m)
    BY <1>2, <2>2 DEF MountQuery
  <2>4. \A s \in EntryOver(Report!Answers \cup {None}) :
            EntryWithin(s, k, m) => EntryWithin([s EXCEPT !.stale = TRUE], k, m)
    BY DEF EntryWithin, EntryOver, Idle
  <2>5. /\ Start(e, None) \in EntryOver(Report!Answers \cup {None})
        /\ Restart(e, None) \in EntryOver(Report!Answers \cup {None})
    BY StartSound DEF Sound
  <2>6. EntryWithin(Invalidate(e, TRUE, None), k, m)
    BY <2>1, <2>2, <2>4, <2>5 DEF Invalidate
  <2> QED
    BY <2>2, <2>3, <2>6
<1>7. \A a : /\ a.total <= m /\ (Reaches(m, k) => a.rows # <<>>) /\ ~Idle(e)
             => EntryWithin(Read(e, a), k, m)
  BY <1>1, <1>2 DEF EntryWithin, EntryOver, Read, Idle
<1> QED
  BY <1>2, <1>3, <1>4, <1>5, <1>6, <1>7

LEMMA ReportEntryChanges ==
    ASSUME ReportCacheSound, NEW k \in Report!Keys, NEW e, Sound(e, Report!Answers, None),
           reportCache' = [reportCache EXCEPT ![k] = e]
    PROVE  /\ ReportCacheSound'
           /\ \A q \in Report!Keys : reportCache'[q] = IF q = k THEN e ELSE reportCache[q]
<1>1. \A q \in Report!Keys : reportCache'[q] = IF q = k THEN e ELSE reportCache[q]
  BY DEF ReportCacheSound
<1>2. \A q \in Report!Keys : Sound(reportCache'[q], Report!Answers, None)
  BY <1>1 DEF ReportCacheSound
<1>3. e \in EntryOver({None} \cup Report!Answers)
  <2>1. Report!Answers \cup {None} = {None} \cup Report!Answers
    OBVIOUS
  <2> QED
    BY <2>1 DEF Sound
<1> QED
  BY <1>1, <1>2, <1>3 DEF ReportCacheSound

LEMMA InitReports == Report!Init => ReportInv
<1> SUFFICES ASSUME Report!Init
             PROVE  ReportInv
  OBVIOUS
<1>1. reportCache = [k \in Report!Keys |->
                       IF k = <<Report!All, 1>> THEN MountQuery(NoEntry(None), None)
                       ELSE NoEntry(None)]
  BY ReportQueries DEF Report!Init
<1>2. \A k \in Report!Keys : Sound(reportCache[k], Report!Answers, None)
  BY <1>1, NoEntrySound, StartSound
<1>3. Report!Answers \cup {None} = {None} \cup Report!Answers
  OBVIOUS
<1>4. ReportCacheSound
  BY <1>1, <1>2, <1>3 DEF ReportCacheSound, Sound
<1>5. /\ reports = 1..InitialReports /\ newest = InitialReports
      /\ InitialReports \in 0..MaxReports /\ MaxReports \in Nat
  BY ReportConstants DEF Report!Init
<1>6. Report!TypeOK
  <2>1. reportCache \in [Report!Keys -> Report!EntryOver({None} \cup Report!Answers)]
    BY <1>4, ReportQueries DEF ReportCacheSound
  <2>2. reportPage \in 1..Report!MaxPage /\ filter \in Report!Views
    BY ReportConstants DEF Report!Init, Report!Views
  <2>3. reports \subseteq 1..newest /\ newest \in Report!Reports \cup {0}
    BY <1>5 DEF Report!Reports
  <2> QED
    BY <2>1, <2>2, <2>3, ReportQueries DEF Report!Init, Report!TypeOK, Overtaking
<1>7. Report!Key \in Report!Keys
  BY <1>6 DEF Report!TypeOK, Report!Key, Report!Keys
<1>8. DeletionShown
  <2>1. \A k \in Report!Keys : reportCache[k].stale /\ reportCache[k].fetch # "read"
    BY <1>1 DEF MountQuery, Start, Restart, NoEntry
  <2>2. \A k \in Report!Keys : Shows(reportCache[k], reportOvertaken[k], owed)
    BY <2>1 DEF Shows
  <2>3. Rested(reportCache[Report!Key])
    <3>1. Report!Key = <<Report!All, 1>>
      BY DEF Report!Init, Report!Key
    <3> QED
      BY <1>1, <1>7, <3>1 DEF Rested, MountQuery, Start, Restart, NoEntry, Idle
  <2> QED
    BY <1>5, <2>2, <2>3 DEF Report!Init, DeletionShown
<1>9. PagesWithin
  <2>1. \A k \in Report!Keys : reportCache[k].data = None /\ reportCache[k].fetch # "read"
    BY <1>1 DEF MountQuery, Start, Restart, NoEntry
  <2>2. \A k \in Report!Keys : k[2] > 1 => Idle(reportCache[k])
    BY <1>1 DEF NoEntry, Idle
  <2> QED
    BY <2>1, <2>2 DEF PagesWithin, EntryWithin, Report!Init
<1> QED
  BY <1>4, <1>6, <1>8, <1>9 DEF ReportInv

\* What an action does to the pages, if it changes one entry and deletes nothing.
LEMMA PagesStayWithin ==
    ASSUME ReportInv, ReportsTyped', reports \subseteq reports',
           NothingDeleted' => NothingDeleted,
           \A q \in Report!Keys :
               \/ reportCache'[q] = reportCache[q]
               \/ NothingDeleted => EntryWithin(reportCache'[q], q, Matching(q)'),
           NothingDeleted /\ reportPage' > 1 => Reaches(Matching(Report!Key)', Report!Key')
    PROVE  PagesWithin'
<1>1. \A q \in Report!Keys :
          /\ Matching(q) \in Nat /\ Matching(q)' \in Nat /\ Matching(q) <= Matching(q)'
  <2> TAKE q \in Report!Keys
  <2>1. Matching(q) \in Nat
    <3>1. ReportsTyped
      BY ReportsAreTyped
    <3>2. Matching(q) \in 0..MaxReports
      BY <3>1, MatchingReports
    <3> QED
      BY <3>2, ReportConstants
  <2>2. IsFiniteSet(reports \cap q[1])' /\ Matching(q)' \in Nat
    <3>1. /\ newest' \in Nat /\ reports' \subseteq 1..newest'
      BY ReportConstants DEF ReportsTyped, Report!Reports
    <3>2. IsFiniteSet(reports' \cap q[1])
      <4>1. IsFiniteSet(1..newest')
        BY <3>1, FS_Interval
      <4> QED
        BY <3>1, <4>1, FS_Subset
    <3> QED
      BY <3>2, FS_CardinalityType DEF Matching
  <2>3. Matching(q) <= Matching(q)'
    BY <2>2, FS_Subset DEF Matching
  <2> QED
    BY <2>1, <2>2, <2>3
<1>2. ASSUME NothingDeleted, NEW q \in Report!Keys, reportCache'[q] = reportCache[q]
      PROVE  EntryWithin(reportCache'[q], q, Matching(q)')
  <2>1. Sound(reportCache[q], Report!Answers, None) /\ EntryWithin(reportCache[q], q, Matching(q))
    BY <1>2 DEF ReportInv, ReportCacheSound, PagesWithin
  <2> QED
    BY <1>1, <1>2, <2>1, WithinKept
<1> QED
  BY <1>2 DEF PagesWithin

\* Another page, or another filter, of reports that are there.
LEMMA ReportsShown ==
    ASSUME ReportInv, NEW f, NEW p, <<f, p>> \in Report!Keys, Report!Show(f, p),
           NothingDeleted /\ p > 1 => Reaches(Matching(<<f, p>>), <<f, p>>)
    PROVE  ReportInv'
<1> DEFINE k == <<f, p>>
           e == MountQuery(reportCache[k], None)
<1>1. /\ filter' = f /\ reportPage' = p
      /\ UNCHANGED <<reports, newest, deleting, deleteError, elsewhere, cleared, owed,
                     reportOvertaken>>
      /\ reportCache' = [reportCache EXCEPT ![k] = e]
  BY ReportQueries DEF Report!Show, Report!historyVars
<1>2. Sound(reportCache[k], Report!Answers, None)
  BY DEF ReportInv, ReportCacheSound
<1>3. Sound(e, Report!Answers, None)
  BY <1>2, StartSound
<1>4. /\ ReportCacheSound'
      /\ \A q \in Report!Keys : reportCache'[q] = IF q = k THEN e ELSE reportCache[q]
  BY <1>1, <1>3, ReportEntryChanges DEF ReportInv
<1>5. Report!TypeOK'
  <2>1. f \in Report!Views /\ p \in 1..Report!MaxPage
    BY DEF Report!Keys
  <2>2. (reportCache \in [Report!Keys -> Report!EntryOver({None} \cup Report!Answers)])'
    BY <1>4, ReportQueries DEF ReportCacheSound
  <2> QED
    BY <1>1, <2>1, <2>2 DEF ReportInv, Report!TypeOK
<1>6. Report!Key' = k
  BY <1>1 DEF Report!Key
<1>7. DeletionShown'
  <2>1. Shows(reportCache[k], reportOvertaken[k], owed) /\ owed \in Nat
        /\ reportOvertaken[k] \in Overtaking
    BY ReportQueries DEF ReportInv, DeletionShown, Report!TypeOK
  <2> HIDE DEF k
  <2>2. Shows(e, reportOvertaken[k], owed) /\ Rested(e)
    BY <1>2, <2>1, ShownKept, RestedAfter
  <2> HIDE DEF e
  <2>3. \A q \in Report!Keys : Shows(reportCache'[q], reportOvertaken[q], owed)
    BY <1>4, <2>2 DEF ReportInv, DeletionShown
  <2>4. Rested(reportCache[Report!Key])'
    BY <1>4, <1>6, <2>2 DEF k
  <2> QED
    BY <1>1, <2>3, <2>4 DEF ReportInv, DeletionShown
<1>8. PagesWithin'
  <2>1. Matching(k) = Matching(k)' /\ Matching(k) \in Nat /\ k[2] = p /\ k \in Report!Keys
    <3>1. ReportsTyped /\ k \in Report!Keys /\ k[2] = p
      BY ReportsAreTyped
    <3> HIDE DEF k
    <3>2. Matching(k) \in 0..MaxReports
      BY <3>1, MatchingReports
    <3>3. Matching(k)' = Matching(k)
      BY <1>1 DEF Matching
    <3> QED
      BY <3>1, <3>2, <3>3, ReportConstants
  <2>2. NothingDeleted => EntryWithin(e, k, Matching(k))
    <3>1. NothingDeleted => EntryWithin(reportCache[k], k, Matching(k))
      BY <2>1 DEF ReportInv, PagesWithin
    <3>2. NothingDeleted => (k[2] > 1 => Reaches(Matching(k), k))
      BY <2>1
    <3> HIDE DEF k
    <3>3. \A n \in Nat : n <= n
      OBVIOUS
    <3>4. ASSUME NothingDeleted
          PROVE  EntryWithin(MountQuery(reportCache[k], None), k, Matching(k))
      <4>1. EntryWithin(reportCache[k], k, Matching(k)) /\ (k[2] > 1 => Reaches(Matching(k), k))
        BY <3>1, <3>2, <3>4
      <4>2. Matching(k) <= Matching(k) /\ Matching(k) \in Nat /\ k \in Report!Keys
        BY <2>1, <3>3
      <4> QED
        BY <1>2, <4>1, <4>2, WithinKept
    <3> QED
      BY <3>4
  <2> HIDE DEF e
  <2>3. ReportsTyped' /\ (NothingDeleted' => NothingDeleted) /\ reports \subseteq reports'
    BY <1>1, ReportsAreTyped DEF ReportsTyped, NothingDeleted
  <2>4. NothingDeleted /\ reportPage' > 1 => Reaches(Matching(Report!Key)', Report!Key')
    <3>1. Matching(Report!Key)' = Matching(k)'
      BY <1>6 DEF Matching
    <3> QED
      BY <1>1, <1>6, <2>1, <3>1
  <2>5. \A q \in Report!Keys :
            \/ reportCache'[q] = reportCache[q]
            \/ NothingDeleted => EntryWithin(reportCache'[q], q, Matching(q)')
    BY <1>4, <2>1, <2>2
  <2> HIDE DEF k
  <2> QED
    BY <2>3, <2>4, <2>5, PagesStayWithin
<1> QED
  BY <1>4, <1>5, <1>7, <1>8 DEF ReportInv

\* What an action on one entry has to show, if the page on the screen stays.
LEMMA ReportEntryStep ==
    ASSUME ReportInv, NEW k \in Report!Keys, NEW e, Sound(e, Report!Answers, None),
           NEW o \in Overtaking,
           reportCache' = [reportCache EXCEPT ![k] = e],
           reportOvertaken' = [reportOvertaken EXCEPT ![k] = o],
           UNCHANGED <<reportPage, filter, cleared, owed>>,
           deleting' \in {"idle", "sent", "done"} /\ deleteError' \in BOOLEAN,
           ReportsTyped', \A r \in reports' : r > cleared, newest <= newest',
           elsewhere' \in Nat,
           Shows(e, o, owed), Rested(e), PagesWithin'
    PROVE  ReportInv'
<1>1. /\ ReportCacheSound'
      /\ \A q \in Report!Keys : reportCache'[q] = IF q = k THEN e ELSE reportCache[q]
  BY ReportEntryChanges DEF ReportInv
<1>2. Report!TypeOK'
  <2>1. (reportCache \in [Report!Keys -> Report!EntryOver({None} \cup Report!Answers)])'
    BY <1>1, ReportQueries DEF ReportCacheSound
  <2> QED
    BY <2>1, ReportQueries DEF ReportInv, Report!TypeOK, ReportsTyped
<1>3. Report!Key' = Report!Key /\ Report!Key \in Report!Keys
  BY ReportsAreTyped DEF Report!Key
<1>4. newest' \in Nat /\ newest \in Nat
  BY ReportsAreTyped, ReportConstants DEF ReportsTyped, Report!Reports
<1>5. DeletionShown'
  <2>1. \A q \in Report!Keys : reportOvertaken'[q] = IF q = k THEN o ELSE reportOvertaken[q]
    BY DEF ReportInv, Report!TypeOK
  <2>2. \A q \in Report!Keys : Shows(reportCache'[q], reportOvertaken'[q], owed)
    BY <1>1, <2>1 DEF ReportInv, DeletionShown
  <2>3. Rested(reportCache[Report!Key])'
    BY <1>1, <1>3 DEF ReportInv, DeletionShown
  <2> QED
    BY <1>4, <2>2, <2>3 DEF ReportInv, DeletionShown
<1> QED
  BY <1>1, <1>2, <1>5 DEF ReportInv

\* The window is focused after a change to the reports.
LEMMA ReportsFocused ==
    ASSUME ReportInv, Report!Focused, UNCHANGED <<reportPage, filter, cleared, owed>>,
           UNCHANGED <<deleting, deleteError, reportOvertaken>>,
           ReportsTyped', \A r \in reports' : r > cleared, newest <= newest',
           elsewhere' \in Nat, NothingDeleted' => NothingDeleted /\ reports \subseteq reports'
    PROVE  ReportInv'
<1> DEFINE k == Report!Key
           e == Start(reportCache[k], None)
<1>1. reportCache' = [reportCache EXCEPT ![k] = e] /\ k \in Report!Keys
  BY ReportQueries, ReportsAreTyped DEF Report!Focused
<1>2. Sound(reportCache[k], Report!Answers, None) /\ Sound(e, Report!Answers, None)
  BY <1>1, StartSound DEF ReportInv, ReportCacheSound
<1>3. /\ Shows(e, reportOvertaken[k], owed) /\ Rested(e)
      /\ reportOvertaken[k] \in Overtaking
      /\ reportOvertaken' = [reportOvertaken EXCEPT ![k] = reportOvertaken[k]]
  <2>1. /\ Shows(reportCache[k], reportOvertaken[k], owed) /\ owed \in Nat
        /\ reportOvertaken[k] \in Overtaking
        /\ reportOvertaken' = [reportOvertaken EXCEPT ![k] = reportOvertaken[k]]
    BY <1>1, ReportQueries DEF ReportInv, DeletionShown, Report!TypeOK
  <2> HIDE DEF k
  <2> QED
    BY <1>2, <2>1, ShownKept, RestedAfter
<1>4. PagesWithin'
  <2>1. CASE ~NothingDeleted'
    BY <2>1 DEF PagesWithin
  <2>2. CASE NothingDeleted'
    <3>1. Matching(k) \in Nat /\ Matching(k)' \in Nat /\ Matching(k) <= Matching(k)'
      <4>1. ReportsTyped
        BY ReportsAreTyped
      <4>2. IsFiniteSet(reports' \cap k[1])
        <5>1. newest' \in Nat /\ reports' \subseteq 1..newest'
          BY ReportConstants DEF ReportsTyped, Report!Reports
        <5>2. IsFiniteSet(1..newest')
          BY <5>1, FS_Interval
        <5> QED
          BY <5>1, <5>2, FS_Subset
      <4>3. reports \cap k[1] \subseteq reports' \cap k[1]
        BY <2>2
      <4>4. k' = k
        BY DEF Report!Key
      <4>5. Matching(k)' = Cardinality(reports' \cap k[1])
        BY <4>4 DEF Matching
      <4> HIDE DEF k
      <4> QED
        BY <4>2, <4>3, <4>5, FS_Subset, FS_CardinalityType DEF Matching
    <3>2. (k[2] > 1 => Reaches(Matching(k), k)) /\ EntryWithin(reportCache[k], k, Matching(k))
      <4>1. k[2] = reportPage
        BY ReportsAreTyped
      <4> QED
        BY <1>1, <2>2, <4>1 DEF ReportInv, PagesWithin
    <3>3. k' = k
      BY DEF Report!Key
    <3>4. k[2] > 1 => Reaches(Matching(k)', k)
      <4>1. k[2] \in Nat /\ ReportsPerPage \in Nat
        BY <1>1, ReportConstants
      <4> HIDE DEF k
      <4> QED
        BY <3>1, <3>2, <4>1 DEF Reaches
    <3>5. EntryWithin(e, k, Matching(k)')
      <4> HIDE DEF k
      <4> QED
        BY <1>1, <1>2, <3>1, <3>2, <3>4, WithinKept
    <3>6. \A q \in Report!Keys :
              \/ reportCache'[q] = reportCache[q]
              \/ NothingDeleted => EntryWithin(reportCache'[q], q, Matching(q)')
      <4> TAKE q \in Report!Keys
      <4>1. CASE q = k
        <5>1. reportCache'[q] = e
          BY <1>1, <4>1 DEF ReportInv, ReportCacheSound
        <5>2. Matching(q)' = Matching(k)'
          BY <3>3, <4>1 DEF Matching
        <5> QED
          BY <3>5, <4>1, <5>1, <5>2
      <4>2. CASE q # k
        BY <1>1, <4>2 DEF ReportInv, ReportCacheSound
      <4> QED
        BY <4>1, <4>2
    <3>7. NothingDeleted /\ reportPage' > 1 => Reaches(Matching(Report!Key)', Report!Key')
      <4>1. k[2] = reportPage
        BY ReportsAreTyped
      <4> QED
        BY <3>3, <3>4, <4>1
    <3> QED
      BY <2>2, <3>6, <3>7, PagesStayWithin
  <2> QED
    BY <2>1, <2>2
<1>5. deleting' \in {"idle", "sent", "done"} /\ deleteError' \in BOOLEAN
  BY DEF ReportInv, Report!TypeOK
<1> HIDE DEF e, k
<1> QED
  BY <1>1, <1>2, <1>3, <1>4, <1>5, ReportEntryStep DEF k

\* Nothing but a row of the server's moves the pager on.
LEMMA ReportsPaged ==
    ASSUME ReportInv
    PROVE  /\ Report!Previous => ReportInv'
           /\ Report!NextPage => ReportInv'
<1> DEFINE k == Report!Key
           entry == reportCache[k]
           n == Matching(k)
<1>1. /\ k = <<filter, reportPage>> /\ k \in Report!Keys /\ reportPage \in Nat \ {0}
      /\ filter \in Report!Views /\ reportPage \in 1..Report!MaxPage
      /\ Report!MaxPage \in Nat \ {0} /\ ReportsPerPage \in Nat \ {0} /\ MaxReports \in Nat
  <2>1. reportPage \in 1..Report!MaxPage /\ filter \in Report!Views
    BY DEF ReportInv, Report!TypeOK
  <2>2. Report!MaxPage \in Nat \ {0} /\ ReportsPerPage \in Nat \ {0} /\ MaxReports \in Nat
    BY ReportConstants
  <2>3. k = <<filter, reportPage>> /\ k \in Report!Keys
    BY ReportsAreTyped
  <2> QED
    BY <2>1, <2>2, <2>3
<1>2. n \in Nat
  <2>1. ReportsTyped
    BY ReportsAreTyped
  <2>2. n \in 0..MaxReports
    BY <1>1, <2>1, MatchingReports
  <2> QED
    BY <1>1, <2>2
<1>3. \A p : Matching(<<filter, p>>) = n
  BY <1>1 DEF Matching
<1>4. NothingDeleted => (reportPage > 1 => Reaches(n, k)) /\ EntryWithin(entry, k, n)
  BY <1>1 DEF ReportInv, PagesWithin
<1>5. ASSUME Report!Previous
      PROVE  ReportInv'
  <2> DEFINE p == reportPage - 1
  <2>1. <<filter, p>> \in Report!Keys /\ Report!Show(filter, p)
    BY <1>1, <1>5 DEF Report!Previous, Report!Keys
  <2>2. NothingDeleted /\ p > 1 => Reaches(n, <<filter, p>>)
    <3>1. NothingDeleted /\ p > 1 => (reportPage - 1) * ReportsPerPage < n
      BY <1>1, <1>4 DEF Reaches
    <3>2. (reportPage - 2) * ReportsPerPage < (reportPage - 1) * ReportsPerPage
      BY <1>1
    <3>3. (reportPage - 2) * ReportsPerPage \in Int /\ (reportPage - 1) * ReportsPerPage \in Int
      BY <1>1
    <3>4. Reaches(n, <<filter, p>>) <=> (reportPage - 2) * ReportsPerPage < n
      BY <1>1 DEF Reaches
    <3> HIDE DEF n, p
    <3> QED
      BY <1>2, <3>1, <3>2, <3>3, <3>4
  <2> HIDE DEF n, p
  <2> QED
    BY <1>3, <2>1, <2>2, ReportsShown
<1>6. ASSUME Report!NextPage
      PROVE  ReportInv'
  <2> DEFINE p == reportPage + 1
             counted == entry.data.total
  <2>1. entry.data # None /\ reportPage < (counted + ReportsPerPage - 1) \div ReportsPerPage
    BY <1>1, <1>6
       DEF Report!NextPage, Report!TotalPages, Report!Data, Report!PagerShown
  <2>2. counted \in 0..MaxReports
    <3>1. Sound(entry, Report!Answers, None)
      BY <1>1 DEF ReportInv, ReportCacheSound
    <3>2. entry.data \in Report!Answers
      BY <2>1, <3>1 DEF Sound, EntryOver
    <3> QED
      BY <3>2 DEF Report!Answers
  <2> HIDE DEF counted
  <2>3. reportPage * ReportsPerPage < counted
    BY <1>1, <2>1, <2>2
  <2>4. reportPage < Report!MaxPage
    <3>1. counted \in Nat /\ counted <= MaxReports /\ MaxReports # 0
      BY <1>1, <2>2, <2>3
    <3>2. (counted + ReportsPerPage - 1) \div ReportsPerPage
              <= (MaxReports + ReportsPerPage - 1) \div ReportsPerPage
      BY <1>1, <3>1
    <3>3. Report!MaxPage = (MaxReports + ReportsPerPage - 1) \div ReportsPerPage
      BY <3>1 DEF Report!MaxPage
    <3> QED
      BY <1>1, <2>1, <2>2, <3>2, <3>3
  <2>5. <<filter, p>> \in Report!Keys /\ Report!Show(filter, p)
    BY <1>1, <1>6, <2>4 DEF Report!NextPage, Report!Keys
  <2>6. NothingDeleted /\ p > 1 => Reaches(n, <<filter, p>>)
    <3>1. NothingDeleted => counted <= n
      BY <1>4, <2>1 DEF EntryWithin, counted
    <3>2. reportPage * ReportsPerPage \in Int
      BY <1>1
    <3>3. Reaches(n, <<filter, p>>) <=> reportPage * ReportsPerPage < n
      BY <1>1 DEF Reaches
    <3> HIDE DEF n, p
    <3> QED
      BY <1>1, <1>2, <2>2, <2>3, <3>1, <3>2, <3>3
  <2> HIDE DEF n, p
  <2> QED
    BY <1>3, <2>5, <2>6, ReportsShown
<1> QED
  BY <1>5, <1>6

\* The server reads for a page, or its request ends.
LEMMA ReportsFetched ==
    ASSUME ReportInv, NEW k \in Report!Keys, NEW e, Sound(e, Report!Answers, None),
           NEW o \in Overtaking,
           reportCache' = [reportCache EXCEPT ![k] = e],
           reportOvertaken' = [reportOvertaken EXCEPT ![k] = o],
           UNCHANGED <<reports, newest, reportPage, filter, deleting, deleteError,
                       elsewhere, cleared, owed>>,
           Shows(e, o, owed), Rested(e),
           NothingDeleted => EntryWithin(e, k, Matching(k))
    PROVE  ReportInv'
<1>0. /\ ReportsTyped /\ Report!Key \in Report!Keys
      /\ newest \in Nat /\ elsewhere \in Nat
      /\ \A r \in reports : r > cleared
      /\ deleting \in {"idle", "sent", "done"} /\ deleteError \in BOOLEAN
      /\ PagesWithin /\ ReportCacheSound
  BY ReportsAreTyped DEF ReportInv, DeletionShown, Report!TypeOK
<1>1. \A q : Matching(q)' = Matching(q)
  BY DEF Matching
<1>2. PagesWithin'
  <2>1. ReportsTyped' /\ reports \subseteq reports' /\ (NothingDeleted' => NothingDeleted)
    BY <1>0 DEF ReportsTyped, NothingDeleted
  <2>2. \A q \in Report!Keys :
            \/ reportCache'[q] = reportCache[q]
            \/ NothingDeleted => EntryWithin(reportCache'[q], q, Matching(q)')
    BY <1>0, <1>1 DEF ReportCacheSound
  <2>3. NothingDeleted /\ reportPage' > 1 => Reaches(Matching(Report!Key)', Report!Key')
    <3>1. Report!Key' = Report!Key
      BY DEF Report!Key
    <3>2. Matching(Report!Key)' = Matching(Report!Key)
      BY <3>1 DEF Matching
    <3> QED
      BY <1>0, <3>1, <3>2 DEF PagesWithin
  <2> QED
    BY <2>1, <2>2, <2>3, PagesStayWithin
<1>3. /\ ReportsTyped' /\ \A r \in reports' : r > cleared
      /\ newest <= newest' /\ elsewhere' \in Nat
      /\ deleting' \in {"idle", "sent", "done"} /\ deleteError' \in BOOLEAN
  BY <1>0 DEF ReportsTyped
<1> QED
  BY <1>2, <1>3, ReportEntryStep

LEMMA NextReports == ReportInv /\ [Report!Next]_(Report!vars) => ReportInv'
<1> SUFFICES ASSUME ReportInv, [Report!Next]_(Report!vars)
             PROVE  ReportInv'
  OBVIOUS
<1>0. /\ ReportsTyped /\ Report!Key \in Report!Keys
      /\ newest \in Nat /\ elsewhere \in Nat /\ cleared \in Nat
      /\ \A r \in reports : r > cleared
      /\ deleting \in {"idle", "sent", "done"} /\ deleteError \in BOOLEAN
      /\ Report!TypeOK /\ DeletionShown /\ PagesWithin /\ ReportCacheSound
  BY ReportsAreTyped DEF ReportInv, DeletionShown, Report!TypeOK
<1>1. ASSUME NEW f \in Report!Views, Report!SetFilter(f)
      PROVE  ReportInv'
  <2>1. <<f, 1>> \in Report!Keys /\ Report!Show(f, 1) /\ ~(1 > 1)
    BY <1>1, ReportConstants DEF Report!SetFilter, Report!Keys
  <2> QED
    BY <2>1, ReportsShown
<1>2. CASE Report!Previous \/ Report!NextPage
  BY <1>2, ReportsPaged
<1>3. ASSUME NEW k \in Report!Keys, Report!FetchBugReports(k)
      PROVE  ReportInv'
  <2> DEFINE answer == Report!Listing(k)
             e == Read(reportCache[k], answer)
  <2>1. /\ reportCache[k].fetch = "sent" /\ reportCache' = [reportCache EXCEPT ![k] = e]
        /\ UNCHANGED <<reports, newest, reportPage, filter, deleting, deleteError,
                       elsewhere, cleared, owed>>
        /\ reportOvertaken' = [reportOvertaken EXCEPT ![k] = reportOvertaken[k]]
        /\ reportOvertaken[k] \in Overtaking
    BY <1>0, <1>3, ReportQueries
       DEF Report!FetchBugReports, Report!historyVars, Report!TypeOK
  <2>2. /\ answer \in Report!Answers /\ answer.rows \in Seq(reports)
        /\ answer.total <= Matching(k) /\ (Reaches(Matching(k), k) => answer.rows # <<>>)
    BY <1>0, ListedReports
  <2>3. Matching(k) \in Nat /\ Matching(k) <= Matching(k) /\ Matching(k)' = Matching(k)
    <3>1. Matching(k) \in 0..MaxReports
      BY <1>0, MatchingReports
    <3>2. Matching(k) \in Nat
      BY <3>1, ReportConstants
    <3> QED
      BY <2>1, <3>2 DEF Matching
  <2>4. Newer(answer.rows, owed)
    <3>1. owed \in Nat /\ owed <= cleared /\ \A r \in reports : r > cleared /\ r \in Nat
      BY <1>0 DEF DeletionShown, ReportsTyped
    <3>2. \A i \in DOMAIN answer.rows : answer.rows[i] \in reports
      BY <2>2
    <3> HIDE DEF answer
    <3> QED
      BY <1>0, <3>1, <3>2 DEF Newer
  <2>5. Sound(reportCache[k], Report!Answers, None) /\ Report!Answers \subseteq Report!Answers
    BY <1>0 DEF ReportCacheSound
  <2> HIDE DEF answer
  <2>6. Sound(e, Report!Answers, None)
    BY <2>2, <2>5, ReportConstants, ReadSound
  <2>7. Shows(e, reportOvertaken[k], owed) /\ Rested(e)
    <3>1. Shows(reportCache[k], reportOvertaken[k], owed) /\ owed \in Nat
      BY <1>0 DEF DeletionShown
    <3> QED
      BY <2>1, <2>4, <2>5, <3>1, ShownKept, RestedAfter
  <2>8. NothingDeleted => EntryWithin(e, k, Matching(k))
    <3>1. NothingDeleted => EntryWithin(reportCache[k], k, Matching(k))
      BY <1>0 DEF PagesWithin
    <3>2. ~Idle(reportCache[k])
      BY <2>1 DEF Idle
    <3> QED
      BY <2>2, <2>3, <2>5, <3>1, <3>2, WithinKept
  <2> HIDE DEF e
  <2> QED
    BY <2>1, <2>6, <2>7, <2>8, ReportsFetched
<1>4. ASSUME NEW k \in Report!Keys, Report!FetchEnds(k)
      PROVE  ReportInv'
  <2> DEFINE now == reportCache[k]
             o == reportOvertaken[k]
             Arrived == /\ now.fetch = "read"
                        /\ reportCache' = [reportCache EXCEPT ![k] = Arrive(now, None)]
                        /\ reportOvertaken' =
                              [reportOvertaken EXCEPT ![k] = OvertakenOnArrive(o)]
             Failed == /\ reportCache' = [reportCache EXCEPT ![k] = Fail(now, None)]
                       /\ reportOvertaken' =
                             [reportOvertaken EXCEPT ![k] = OvertakenOnFail(o)]
  <2>1. /\ Arrived \/ Failed
        /\ UNCHANGED <<reports, newest, reportPage, filter, deleting, deleteError,
                       elsewhere, cleared, owed>>
    BY <1>4, ReportQueries DEF Report!FetchEnds
  <2>2. Sound(now, Report!Answers, None) /\ owed \in Nat /\ o \in Overtaking
    BY <1>0, ReportQueries DEF ReportCacheSound, DeletionShown, Report!TypeOK
  <2>3. /\ Shows(now, o, owed)
        /\ NothingDeleted => EntryWithin(now, k, Matching(k))
    BY <1>0 DEF DeletionShown, PagesWithin
  <2>4. Matching(k) \in Nat /\ Matching(k) <= Matching(k)
    <3>1. Matching(k) \in 0..MaxReports
      BY <1>0, MatchingReports
    <3> QED
      BY <3>1, ReportConstants
  <2>5. OvertakenOnArrive(o) \in Overtaking /\ OvertakenOnFail(o) \in Overtaking
    BY <2>2, OvertakingTyped
  <2> HIDE DEF now, o
  <2>6. CASE Arrived
    <3>1. Sound(Arrive(now, None), Report!Answers, None) /\ Rested(Arrive(now, None))
      BY <2>2, <2>6, ArriveSound, RestedAfter
    <3>2. Shows(Arrive(now, None), OvertakenOnArrive(o), owed)
      BY <2>2, <2>3, <2>6, ShownKept
    <3>3. NothingDeleted => EntryWithin(Arrive(now, None), k, Matching(k))
      BY <2>2, <2>3, <2>4, <2>6, WithinKept
    <3> QED
      BY <2>1, <2>5, <2>6, <3>1, <3>2, <3>3, ReportsFetched
  <2>7. CASE Failed
    <3>1. Sound(Fail(now, None), Report!Answers, None) /\ Rested(Fail(now, None))
      BY <2>2, FailSound, RestedAfter
    <3>2. Shows(Fail(now, None), OvertakenOnFail(o), owed)
      BY <2>2, <2>3, ShownKept
    <3>3. NothingDeleted => EntryWithin(Fail(now, None), k, Matching(k))
      BY <2>2, <2>3, <2>4, WithinKept
    <3> QED
      BY <2>1, <2>5, <2>7, <3>1, <3>2, <3>3, ReportsFetched
  <2> HIDE DEF Arrived, Failed
  <2> QED
    BY <2>1, <2>6, <2>7
<1>5. CASE Report!CreateBugReport
  <2>1. /\ newest < MaxReports /\ newest' = newest + 1 /\ reports' = reports \cup {newest'}
        /\ Report!Focused
        /\ UNCHANGED <<reportPage, filter, deleting, deleteError, elsewhere, cleared, owed,
                       reportOvertaken>>
    BY <1>5 DEF Report!CreateBugReport, Report!historyVars
  <2>2. ReportsTyped'
    BY <1>0, <2>1, ReportConstants DEF ReportsTyped, Report!Reports
  <2>3. \A r \in reports' : r > cleared
    BY <1>0, <2>1 DEF DeletionShown
  <2>4. newest <= newest' /\ elsewhere' \in Nat /\ (NothingDeleted' => NothingDeleted)
    BY <1>0, <2>1 DEF NothingDeleted
  <2> QED
    BY <2>1, <2>2, <2>3, <2>4, ReportsFocused
<1>6. CASE Report!DeletedElsewhere
  <2>1. /\ elsewhere' = elsewhere + 1 /\ reports' = {} /\ Report!Focused
        /\ UNCHANGED <<newest, reportPage, filter, deleting, deleteError, cleared, owed,
                       reportOvertaken>>
    BY <1>6 DEF Report!DeletedElsewhere, Report!historyVars
  <2>2. ReportsTyped' /\ \A r \in reports' : r > cleared
    BY <1>0, <2>1 DEF ReportsTyped
  <2>3. newest <= newest' /\ elsewhere' \in Nat /\ ~NothingDeleted'
    BY <1>0, <2>1 DEF NothingDeleted
  <2> QED
    BY <2>1, <2>2, <2>3, ReportsFocused
<1>7. ASSUME UNCHANGED <<reports, newest, reportCache, reportPage, filter, elsewhere,
                         cleared, owed, reportOvertaken>>,
             deleting' \in {"idle", "sent", "done"} /\ deleteError' \in BOOLEAN
      PROVE  ReportInv'
  <2>1. Report!Key' = Report!Key
    BY <1>7 DEF Report!Key
  <2>2. Report!TypeOK' /\ ReportCacheSound' /\ DeletionShown'
    BY <1>0, <1>7, <2>1 DEF Report!TypeOK, ReportCacheSound, DeletionShown
  <2>3. PagesWithin'
    <3>1. \A q : Matching(q)' = Matching(q)
      BY <1>7 DEF Matching
    <3>2. Matching(Report!Key)' = Matching(Report!Key)
      BY <1>7, <2>1 DEF Matching
    <3> QED
      BY <1>0, <1>7, <2>1, <3>1, <3>2 DEF PagesWithin, NothingDeleted
  <2> QED
    BY <2>2, <2>3 DEF ReportInv
<1>8. CASE Report!DeleteAll \/ Report!DeleteFails
  BY <1>7, <1>8 DEF Report!DeleteAll, Report!DeleteFails, Report!historyVars
<1>9. CASE Report!DeleteAllBugReports
  <2>1. /\ reports' = {} /\ deleting' = "done" /\ cleared' = newest
        /\ UNCHANGED <<newest, reportCache, reportPage, filter, deleteError, elsewhere, owed,
                       reportOvertaken>>
    BY <1>9 DEF Report!DeleteAllBugReports
  <2>2. CASE newest = 0
    <3>1. reports = {} /\ cleared = 0
      BY <1>0, <2>2 DEF ReportsTyped, DeletionShown
    <3> QED
      BY <1>0, <1>7, <2>1, <2>2, <3>1
  <2>3. CASE newest # 0
    <3>1. Report!Key' = Report!Key
      BY <2>1 DEF Report!Key
    <3>2. Report!TypeOK' /\ ReportCacheSound'
      BY <1>0, <2>1 DEF Report!TypeOK, ReportCacheSound
    <3>3. DeletionShown'
      BY <1>0, <2>1, <3>1 DEF DeletionShown
    <3>4. PagesWithin'
      BY <2>1, <2>3 DEF PagesWithin, NothingDeleted
    <3> QED
      BY <3>2, <3>3, <3>4 DEF ReportInv
  <2> QED
    BY <2>2, <2>3
<1>10. CASE UNCHANGED Report!vars
  BY <1>0, <1>7, <1>10 DEF Report!vars
<1>11. CASE Report!Deleted
  <2> DEFINE first == <<filter, 1>>
             stale(k) == Invalidate(reportCache[k], k = Report!Key, None)
             entry(k) == IF k = first THEN MountQuery(stale(k), None) ELSE stale(k)
             lacking(k) == \E i \in DOMAIN reportCache[k].got.rows :
                               reportCache[k].got.rows[i] <= cleared
             told(k) == OvertakenOnInvalidate(reportOvertaken[k], reportCache[k],
                                              k = Report!Key, lacking(k), None)
  <2>1. /\ deleting' = "idle" /\ reportPage' = 1 /\ owed' = cleared
        /\ reportOvertaken' = [k \in Report!Keys |-> told(k)]
        /\ UNCHANGED <<reports, newest, filter, deleteError, elsewhere, cleared>>
    <3>1. /\ deleting' = "idle" /\ reportPage' = 1 /\ owed' = cleared
          /\ UNCHANGED <<reports, newest, filter, deleteError, elsewhere, cleared>>
      BY <1>11 DEF Report!Deleted
    <3> DEFINE lacks(n, k) == \E i \in DOMAIN reportCache[k].got.rows :
                                  reportCache[k].got.rows[i] <= n
    <3>2. reportOvertaken' =
              [k \in Report!Keys |->
                  Report!OvertakenOnInvalidate(reportOvertaken[k], reportCache[k],
                                               k = Report!Key, lacks(owed', k), None)]
      BY <1>11 DEF Report!Deleted
    <3> HIDE DEF lacks
    <3>3. reportOvertaken' =
              [k \in Report!Keys |->
                  OvertakenOnInvalidate(reportOvertaken[k], reportCache[k],
                                        k = Report!Key, lacks(cleared, k), None)]
      BY <3>1, <3>2, ReportQueries
    <3> QED
      BY <3>1, <3>3 DEF lacks
  <2>2. first \in Report!Keys /\ first[2] = 1 /\ Report!Key' = first
    BY <1>0, <2>1, ReportConstants DEF Report!TypeOK, Report!Keys, Report!Key
  <2>3. reportCache' = [k \in Report!Keys |-> entry(k)]
    <3> DEFINE all == [k \in Report!Keys |->
                         Report!Invalidate(reportCache[k], k = Report!Key, None)]
    <3>1. reportCache' = [all EXCEPT ![first] = Report!MountQuery(all[first], None)]
      BY <1>11 DEF Report!Deleted
    <3>2. all = [k \in Report!Keys |-> stale(k)]
      BY ReportQueries
    <3> HIDE DEF all
    <3>3. all[first] = stale(first)
      BY <2>2, <3>2
    <3>4. reportCache' = [[k \in Report!Keys |-> stale(k)] EXCEPT ![first] =
                              MountQuery(stale(first), None)]
      BY <3>1, <3>2, <3>3, ReportQueries
    <3> HIDE DEF stale, first
    <3> QED
      BY <2>2, <3>4
  <2>4. ASSUME NEW k \in Report!Keys
        PROVE  /\ Sound(reportCache[k], Report!Answers, None)
               /\ Sound(stale(k), Report!Answers, None) /\ Sound(entry(k), Report!Answers, None)
    <3>1. Sound(reportCache[k], Report!Answers, None) /\ (k = Report!Key) \in BOOLEAN
      BY <1>0 DEF ReportCacheSound
    <3>2. Sound(stale(k), Report!Answers, None)
      BY <3>1, InvalidateSound
    <3> HIDE DEF stale
    <3>3. Sound(entry(k), Report!Answers, None)
      BY <3>2, StartSound
    <3> QED
      BY <3>1, <3>2, <3>3
  <2>5. ReportCacheSound'
    <3>1. \A k \in Report!Keys : entry(k) \in EntryOver({None} \cup Report!Answers)
      <4>1. Report!Answers \cup {None} = {None} \cup Report!Answers
        OBVIOUS
      <4> HIDE DEF entry
      <4> QED
        BY <2>4, <4>1 DEF Sound
    <3> HIDE DEF entry
    <3> QED
      BY <2>3, <2>4, <3>1 DEF ReportCacheSound
  <2>6. ASSUME NEW k \in Report!Keys
        PROVE  told(k) \in Overtaking /\ Shows(stale(k), told(k), cleared)
    <3>1. /\ reportOvertaken[k] \in Overtaking /\ (k = Report!Key) \in BOOLEAN
          /\ Sound(reportCache[k], Report!Answers, None)
      BY <1>0, <2>4, ReportQueries DEF Report!TypeOK
    <3> HIDE DEF lacking
    <3>2. ASSUME NEW m \in BOOLEAN, m = (k = Report!Key)
          PROVE  LET o == OvertakenOnInvalidate(reportOvertaken[k], reportCache[k], m,
                                                lacking(k), None)
                 IN o \in Overtaking /\ Shows(Invalidate(reportCache[k], m, None), o, cleared)
      BY <1>0, <3>1, ShownInvalidated DEF lacking
    <3> QED
      BY <3>1, <3>2
  <2>7. Report!TypeOK'
    <3>1. (reportCache \in [Report!Keys -> Report!EntryOver({None} \cup Report!Answers)])'
      BY <2>5, ReportQueries DEF ReportCacheSound
    <3>2. \A k \in Report!Keys : told(k) \in Overtaking
      BY <2>6
    <3>3. 1 \in 1..Report!MaxPage
      BY ReportConstants
    <3> HIDE DEF told
    <3> QED
      BY <1>0, <2>1, <3>1, <3>2, <3>3, ReportQueries DEF Report!TypeOK
  <2>8. DeletionShown'
    <3>1. ASSUME NEW k \in Report!Keys
          PROVE  Shows(entry(k), told(k), cleared)
      <4>1. Shows(stale(k), told(k), cleared) /\ Sound(stale(k), Report!Answers, None)
            /\ told(k) \in Overtaking
        BY <2>4, <2>6
      <4> HIDE DEF stale, told
      <4>2. Shows(MountQuery(stale(k), None), told(k), cleared)
        BY <1>0, <4>1, ShownKept
      <4> QED
        BY <4>1, <4>2
    <3>2. Rested(entry(first))
      <4>1. Sound(stale(first), Report!Answers, None)
        BY <2>2, <2>4
      <4> HIDE DEF stale
      <4> QED
        BY <4>1, RestedAfter
    <3> HIDE DEF entry, told, first
    <3>3. \A k \in Report!Keys : Shows(reportCache'[k], reportOvertaken'[k], cleared)
      BY <2>1, <2>3, <3>1
    <3>4. Rested(reportCache[Report!Key])'
      BY <2>2, <2>3, <3>2
    <3> QED
      BY <1>0, <2>1, <3>3, <3>4 DEF DeletionShown
  <2>9. PagesWithin'
    <3> SUFFICES ASSUME NothingDeleted, NEW k \in Report!Keys
                 PROVE  EntryWithin(entry(k), k, Matching(k)')
      <4>1. NothingDeleted' => NothingDeleted
        BY <2>1 DEF NothingDeleted
      <4> HIDE DEF entry
      <4> QED
        BY <2>1, <2>3, <4>1 DEF PagesWithin
    <3>1. /\ Matching(k)' = Matching(k) /\ Matching(k) \in Nat
          /\ Matching(k) <= Matching(k)
      <4>1. Matching(k) \in 0..MaxReports
        BY <1>0, MatchingReports
      <4>2. Matching(k)' = Matching(k)
        BY <2>1 DEF Matching
      <4> QED
        BY <4>1, <4>2, ReportConstants
    <3>2. EntryWithin(reportCache[k], k, Matching(k))
      BY <1>0 DEF PagesWithin
    <3>3. k = Report!Key => (k[2] > 1 => Reaches(Matching(k), k))
      BY <1>0, ReportsAreTyped DEF PagesWithin
    <3>4. EntryWithin(stale(k), k, Matching(k))
      <4>1. Sound(reportCache[k], Report!Answers, None)
        BY <2>4
      <4>2. CASE k = Report!Key
        <5>1. EntryWithin(Invalidate(reportCache[k], TRUE, None), k, Matching(k))
          BY <3>1, <3>2, <3>3, <4>1, <4>2, WithinKept
        <5>2. (k = Report!Key) = TRUE
          BY <4>2
        <5> QED
          BY <5>1, <5>2
      <4>3. CASE k # Report!Key
        <5>1. EntryWithin(Invalidate(reportCache[k], FALSE, None), k, Matching(k))
          BY <3>1, <3>2, <4>1, WithinKept
        <5>2. (k = Report!Key) = FALSE
          BY <4>3
        <5> QED
          BY <5>1, <5>2
      <4> QED
        BY <4>2, <4>3
    <3> HIDE DEF stale
    <3>5. k = first => EntryWithin(MountQuery(stale(k), None), k, Matching(k))
      <4>1. k = first => (k[2] > 1 => Reaches(Matching(k), k))
        BY <2>2
      <4>2. Sound(stale(k), Report!Answers, None)
        BY <2>4
      <4> HIDE DEF first
      <4> QED
        BY <3>1, <3>4, <4>1, <4>2, WithinKept
    <3> QED
      BY <3>1, <3>4, <3>5
  <2> QED
    BY <2>5, <2>7, <2>8, <2>9 DEF ReportInv
<1> QED
  BY <1>1, <1>2, <1>3, <1>4, <1>5, <1>6, <1>8, <1>9, <1>10, <1>11 DEF Report!Next

\* Once the user was told that all reports are deleted, no list at rest
\* (page-bug-reports.tsx) shows one of them, for any filters and pages, unless its
\* answer was overtaken.
LEMMA ReportsAreGone == ReportInv => Report!DeletedAreGone
<1> SUFFICES ASSUME ReportInv
             PROVE  Report!DeletedAreGone
  OBVIOUS
<1>1. ASSUME NEW k \in Report!Keys
      PROVE  Shows(reportCache[k], reportOvertaken[k], owed)
  BY DEF ReportInv, DeletionShown
<1>2. ASSUME Report!Idle(reportCache[Report!Key]), ~reportCache[Report!Key].error,
             reportOvertaken[Report!Key] # "data", NEW i \in DOMAIN Report!Rows
      PROVE  Report!Rows[i] > owed
  <2>1. ~reportCache[Report!Key].stale
    BY <1>2, ReportQueries DEF ReportInv, DeletionShown, Rested
  <2>2. Newer(reportCache[Report!Key].data.rows, owed) /\ reportCache[Report!Key].data # None
    BY <1>1, <1>2, <2>1, ReportsAreTyped DEF Shows, ReportInv, ReportCacheSound, Sound
  <2> QED
    BY <1>2, <2>2 DEF Newer, Report!Rows, Report!Data
<1>3. ASSUME NEW k \in Report!Keys, reportCache[k].fetch = "read",
             reportOvertaken[k] # "answer", NEW i \in DOMAIN reportCache[k].got.rows
      PROVE  reportCache[k].got.rows[i] > owed
  BY <1>1, <1>3 DEF Shows, Newer
<1> QED
  BY <1>2, <1>3 DEF Report!DeletedAreGone

\* What the user was told is deleted is on no recipients or reports list at rest, on
\* any page or filter, whatever was fetched, left, made or deleted since, unless the
\* list's answer was on its way when the user was told and no refetch recalled it.
THEOREM DeletedLeavesScreen == ListsSpec => []DeletedIsGone
<1>1. ListsInit => RecipientInv /\ ReportInv
  BY InitRecipients, InitReports DEF ListsInit
<1>2. RecipientInv /\ [ListsNext]_listsVars => RecipientInv'
  BY ListsSteps, NextRecipients
<1>3. ReportInv /\ [ListsNext]_listsVars => ReportInv'
  BY ListsSteps, NextReports
<1>4. RecipientInv /\ ReportInv => DeletedIsGone
  BY RecipientsAreGone, ReportsAreGone DEF DeletedIsGone
<1> QED
  BY <1>1, <1>2, <1>3, <1>4, PTL DEF ListsSpec

\* Nobody pages past the end of the bug reports, unless reports are deleted under
\* the page, for any number of reports, rows on a page and filters.
THEOREM PagesStayWithinReports == ListsSpec => []WithinPages
<1>1. ListsInit => ReportInv
  BY InitReports DEF ListsInit
<1>2. ReportInv /\ [ListsNext]_listsVars => ReportInv'
  BY ListsSteps, NextReports
<1>3. ReportInv => WithinPages
  <2> SUFFICES ASSUME ReportInv, reportPage > 1, NothingDeleted, Report!Data # None
               PROVE  Report!Rows # <<>>
    BY DEF WithinPages, Report!WithinPages, NothingDeleted
  <2>1. /\ Report!Key \in Report!Keys /\ Report!Key[2] = reportPage
        /\ EntryWithin(reportCache[Report!Key], Report!Key, Matching(Report!Key))
    BY ReportsAreTyped DEF ReportInv, PagesWithin
  <2> QED
    BY <2>1 DEF EntryWithin, Report!Rows, Report!Data
<1> QED
  BY <1>1, <1>2, <1>3, PTL DEF ListsSpec

-----------------------------------------------------------------------------
(* The types of the invoices page *)

LEMMA InvoiceQueries ==
    /\ Invoice!NoEntry(None) = NoEntry(None)
    /\ \A e : /\ Invoice!Idle(e) = Idle(e)
              /\ Invoice!MountQuery(e, None) = MountQuery(e, None)
              /\ Invoice!Arrive(e, None) = Arrive(e, None)
              /\ Invoice!Fail(e, None) = Fail(e, None)
              /\ \A a : Invoice!Read(e, a) = Read(e, a)
              /\ \A m : Invoice!Invalidate(e, m, None) = Invalidate(e, m, None)
    /\ \A D : Invoice!EntryOver(D) = EntryOver(D)
    /\ \A s, P : Invoice!Kept(s, P) = Kept(s, P)
<1>1. \A S : Invoice!Cardinality(S) = Cardinality(S)
  BY DEF Invoice!IsFiniteSet, IsFiniteSet, Invoice!Cardinality, Cardinality
<1>2. \A S : Invoice!InOrder(S) = InOrder(S)
  BY <1>1 DEF Invoice!InOrder, InOrder
<1>3. \A s, P : Invoice!Kept(s, P) = Kept(s, P)
  BY <1>1, <1>2 DEF Invoice!Kept, Kept
<1>4. /\ Invoice!NoEntry(None) = NoEntry(None)
      /\ \A e : /\ Invoice!Idle(e) = Idle(e)
                /\ Invoice!MountQuery(e, None) = MountQuery(e, None)
                /\ Invoice!Arrive(e, None) = Arrive(e, None)
                /\ Invoice!Fail(e, None) = Fail(e, None)
                /\ \A a : Invoice!Read(e, a) = Read(e, a)
                /\ \A m : Invoice!Invalidate(e, m, None) = Invalidate(e, m, None)
      /\ \A D : Invoice!EntryOver(D) = EntryOver(D)
  BY DEF Invoice!NoEntry, NoEntry, Invoice!Idle, Idle, Invoice!MountQuery,
         MountQuery, Invoice!Start, Start, Invoice!Restart, Restart,
         Invoice!Arrive, Arrive, Invoice!Fail, Fail, Invoice!Read, Read,
         Invoice!Invalidate, Invalidate, Invoice!EntryOver, EntryOver
<1> QED
  BY <1>3, <1>4

InvoiceAnswers == Seq(Invoice!Row)

LEMMA InvoiceConstants ==
    /\ 1 \in Invoice!Pages /\ None \notin InvoiceAnswers
    /\ \A p \in Invoice!Pages : InvoicesOn[p] \in Seq(Invoice!Invoices)
    /\ InitialStatus \in [Invoice!Invoices -> Invoice!Statuses \cup {"absent"}]
BY ListsAssumption DEF Invoice!InvoicePageAssumption, InvoiceAnswers

InvoiceTyped == Invoice!TypeOK /\ \A p \in Invoice!Pages : Sound(invoiceCache[p], InvoiceAnswers, None)

\* A page of invoices has those that were created, with their statuses.
LEMMA ListedInvoices ==
    ASSUME NEW p \in Invoice!Pages, Invoice!TypeOK
    PROVE  Invoice!Listing(p) \in InvoiceAnswers
<1> DEFINE A == {i \in Invoice!Invoices : status[i] # "absent"}
           P == {k \in DOMAIN InvoicesOn[p] : status[InvoicesOn[p][k]] # "absent"}
           ids == Kept(InvoicesOn[p], P)
           rows == [k \in DOMAIN ids |-> [id |-> ids[k], status |-> status[ids[k]]]]
<1>1. InvoicesOn[p] \in Seq(Invoice!Invoices)
  BY InvoiceConstants
<1>2. Invoice!Listing(p) = rows
  BY InvoiceQueries DEF Invoice!Listing
<1>3. P \subseteq DOMAIN InvoicesOn[p] /\ \A k \in P : InvoicesOn[p][k] \in A
  BY <1>1
<1> HIDE DEF P
<1>4. ids \in Seq(A)
  <2> HIDE DEF A
  <2> QED
    BY <1>1, <1>3, KeptIsSequence
<1> HIDE DEF ids
<1>5. \A i \in A : [id |-> i, status |-> status[i]] \in Invoice!Row
  BY DEF Invoice!TypeOK, Invoice!Row
<1>6. \A k \in DOMAIN ids : ids[k] \in A
  BY <1>4
<1>7. rows \in [1..Len(ids) -> Invoice!Row] /\ Len(ids) \in Nat
  <2> HIDE DEF A
  <2>1. DOMAIN ids = 1..Len(ids) /\ Len(ids) \in Nat
    BY <1>4
  <2> QED
    BY <1>5, <1>6, <2>1
<1> HIDE DEF rows
<1>8. rows \in Seq(Invoice!Row)
  BY <1>7
<1> QED
  BY <1>2, <1>8 DEF InvoiceAnswers

\* What the search leaves on the screen are rows.
LEMMA DisplayedInvoices ==
    ASSUME InvoiceTyped
    PROVE  /\ Invoice!Displayed \in Seq(Invoice!Row)
           /\ Invoice!SelectedIndex \in {0} \cup DOMAIN Invoice!Displayed
<1> DEFINE P == {k \in DOMAIN Invoice!Rows : Invoice!Matches(Invoice!Rows[k])}
<1>1. \A p \in Invoice!Pages : invoiceCache[p].data \in InvoiceAnswers \cup {None}
  BY DEF InvoiceTyped, Sound, EntryOver
<1>2. Invoice!Data \in InvoiceAnswers \cup {None}
  BY <1>1 DEF Invoice!Data, Invoice!Shown, InvoiceTyped, Invoice!TypeOK
<1>3. Invoice!Rows \in Seq(Invoice!Row)
  <2>1. <<>> \in Seq(Invoice!Row)
    OBVIOUS
  <2> QED
    BY <1>2, <2>1 DEF Invoice!Rows, InvoiceAnswers
<1>4. Invoice!Displayed = Kept(Invoice!Rows, P)
  BY InvoiceQueries DEF Invoice!Displayed
<1>5. P \subseteq DOMAIN Invoice!Rows /\ \A k \in P : Invoice!Rows[k] \in Invoice!Row
  BY <1>3
<1> HIDE DEF P
<1>6. Invoice!Displayed \in Seq(Invoice!Row)
  BY <1>3, <1>4, <1>5, KeptIsSequence
<1> QED
  BY <1>6 DEF Invoice!SelectedIndex

LEMMA InvoiceEntriesTyped ==
    \A e : Sound(e, InvoiceAnswers, None)
           => e \in Invoice!EntryOver({None} \cup Seq(Invoice!Row))
<1>1. InvoiceAnswers \cup {None} = {None} \cup Seq(Invoice!Row)
  BY DEF InvoiceAnswers
<1> QED
  BY <1>1, InvoiceQueries DEF Sound

LEMMA InitInvoices == Invoice!Init => InvoiceTyped
<1> SUFFICES ASSUME Invoice!Init
             PROVE  InvoiceTyped
  OBVIOUS
<1>1. invoiceCache = [p \in Invoice!Pages |->
                        IF p = 1 THEN MountQuery(NoEntry(None), None) ELSE NoEntry(None)]
  BY InvoiceQueries DEF Invoice!Init
<1>2. \A p \in Invoice!Pages : Sound(invoiceCache[p], InvoiceAnswers, None)
  BY <1>1, NoEntrySound, StartSound
<1>3. invoiceCache \in [Invoice!Pages -> Invoice!EntryOver({None} \cup Seq(Invoice!Row))]
  BY <1>1, <1>2, InvoiceEntriesTyped
<1>4. calls \in Seq(Invoice!Call)
  BY DEF Invoice!Init
<1>5. Invoice!TypeOK
  BY <1>3, <1>4, InvoiceConstants DEF Invoice!Init, Invoice!TypeOK
<1> QED
  BY <1>2, <1>5 DEF InvoiceTyped

\* The variables but the cache, by what changes them.
InvoiceServerTyped ==
    /\ status \in [Invoice!Invoices -> Invoice!Statuses \cup {"absent"}]
    /\ calls \in Seq(Invoice!Call)
    /\ create \in {"closed", "open", "sent", "done"} /\ outside \in Nat
InvoicePanelTyped ==
    /\ selected \in Invoice!Row \cup {None} /\ panel \in Nat
    /\ showPayForm \in BOOLEAN /\ payAccount \in PayAccounts \cup {None}
InvoicePageTyped ==
    /\ invoicePage \in Invoice!Pages /\ invoiceLast \in Invoice!Pages \cup {None}
    /\ invoiceSearch \in InvoiceSearches \cup {None}
InvoiceCacheTyped ==
    /\ invoiceCache = [p \in Invoice!Pages |-> invoiceCache[p]]
    /\ \A p \in Invoice!Pages : Sound(invoiceCache[p], InvoiceAnswers, None)

InvoicePartsTyped ==
    InvoiceServerTyped /\ InvoicePanelTyped /\ InvoicePageTyped /\ InvoiceCacheTyped

LEMMA InvoiceParts == InvoiceTyped <=> InvoicePartsTyped
<1>1. InvoiceTyped => InvoicePartsTyped
  BY DEF InvoiceTyped, Invoice!TypeOK, InvoicePartsTyped, InvoiceServerTyped,
         InvoicePanelTyped, InvoicePageTyped, InvoiceCacheTyped
<1>2. ASSUME InvoicePartsTyped
      PROVE  InvoiceTyped
  <2>1. invoiceCache \in [Invoice!Pages -> Invoice!EntryOver({None} \cup Seq(Invoice!Row))]
    BY <1>2, InvoiceEntriesTyped DEF InvoicePartsTyped, InvoiceCacheTyped
  <2> QED
    BY <1>2, <2>1
       DEF InvoiceTyped, Invoice!TypeOK, InvoicePartsTyped, InvoiceServerTyped,
           InvoicePanelTyped, InvoicePageTyped, InvoiceCacheTyped
<1> QED
  BY <1>1, <1>2

LEMMA InvoicesInvalidated ==
    ASSUME InvoiceCacheTyped, Invoice!InvalidateInvoices
    PROVE  InvoiceCacheTyped'
<1>1. invoiceCache' = [p \in Invoice!Pages |->
                         Invalidate(invoiceCache[p], p = invoicePage, None)]
  BY InvoiceQueries DEF Invoice!InvalidateInvoices
<1>2. \A p \in Invoice!Pages : Sound(invoiceCache'[p], InvoiceAnswers, None)
  BY <1>1, InvalidateSound DEF InvoiceCacheTyped
<1> QED
  BY <1>1, <1>2 DEF InvoiceCacheTyped

\* A request that is sent names the invoice of the panel and a status.
LEMMA PostTyped ==
    ASSUME InvoiceTyped, NEW pays \in BOOLEAN, Invoice!Open, Invoice!NextStatus # None,
           Invoice!Post(pays)
    PROVE  InvoiceTyped'
<1> USE DEF Invoice!panelVars, Invoice!pageVars
<1> DEFINE call == [panel |-> panel, invoice |-> selected.id,
                    to |-> Invoice!NextStatus, pays |-> pays, phase |-> "sent"]
<1>1. InvoiceServerTyped /\ InvoicePanelTyped /\ InvoicePageTyped /\ InvoiceCacheTyped
  BY InvoiceParts DEF InvoicePartsTyped
<1>2. selected \in Invoice!Row
  BY <1>1 DEF InvoicePanelTyped, Invoice!Open
<1>3. Invoice!NextStatus \in Invoice!Statuses
  BY <1>2 DEF Invoice!NextStatus, Invoice!StatusNext, Invoice!Row, Invoice!Statuses
<1>4. call \in Invoice!Call
  BY <1>1, <1>2, <1>3 DEF InvoicePanelTyped, Invoice!Call, Invoice!Row
<1>5. /\ calls' = Append(calls, call)
      /\ UNCHANGED <<status, create, outside, invoiceCache, invoicePage, invoiceLast,
                     invoiceSearch, selected, panel, showPayForm, payAccount>>
  BY DEF Invoice!Post
<1> HIDE DEF call
<1>6. InvoiceServerTyped'
  BY <1>1, <1>4, <1>5 DEF InvoiceServerTyped
<1>7. InvoicePanelTyped' /\ InvoicePageTyped' /\ InvoiceCacheTyped'
  BY <1>1, <1>5 DEF InvoicePanelTyped, InvoicePageTyped, InvoiceCacheTyped
<1>8. (InvoiceTyped <=> InvoicePartsTyped)'
  BY InvoiceParts, PTL
<1> QED
  BY <1>6, <1>7, <1>8 DEF InvoicePartsTyped

\* Every action keeps the types, part by part.
LEMMA NextInvoices == InvoiceTyped /\ [Invoice!Next]_(Invoice!vars) => InvoiceTyped'
<1> SUFFICES ASSUME InvoiceTyped, [Invoice!Next]_(Invoice!vars)
             PROVE  InvoiceTyped'
  OBVIOUS
<1> USE DEF Invoice!panelVars, Invoice!pageVars, Invoice!serverVars
<1>0. InvoiceServerTyped /\ InvoicePanelTyped /\ InvoicePageTyped /\ InvoiceCacheTyped
  BY InvoiceParts DEF InvoicePartsTyped
<1>1. ASSUME InvoicePartsTyped'
      PROVE  InvoiceTyped'
  <2>1. (InvoiceTyped <=> InvoicePartsTyped)'
    BY InvoiceParts, PTL
  <2> QED
    BY <1>1, <2>1
<1>2. ASSUME UNCHANGED <<status, calls, create, outside>>
      PROVE  InvoiceServerTyped'
  BY <1>0, <1>2 DEF InvoiceServerTyped
<1>3. ASSUME UNCHANGED <<selected, panel, showPayForm, payAccount>>
      PROVE  InvoicePanelTyped'
  BY <1>0, <1>3 DEF InvoicePanelTyped
<1>4. ASSUME UNCHANGED <<invoicePage, invoiceLast, invoiceSearch>>
      PROVE  InvoicePageTyped'
  BY <1>0, <1>4 DEF InvoicePageTyped
<1>5. ASSUME UNCHANGED invoiceCache
      PROVE  InvoiceCacheTyped'
  BY <1>0, <1>5 DEF InvoiceCacheTyped
<1>6. ASSUME Invoice!InvalidateInvoices
      PROVE  InvoiceCacheTyped'
  BY <1>0, <1>6, InvoicesInvalidated
<1>7. ASSUME NEW p \in Invoice!Pages, NEW e, Sound(e, InvoiceAnswers, None),
             invoiceCache' = [invoiceCache EXCEPT ![p] = e]
      PROVE  InvoiceCacheTyped'
  BY <1>0, <1>7 DEF InvoiceCacheTyped
<1>8. /\ DOMAIN Invoice!Displayed = 1..Len(Invoice!Displayed)
      /\ Len(Invoice!Displayed) \in Nat
      /\ \A k \in DOMAIN Invoice!Displayed : Invoice!Displayed[k] \in Invoice!Row
      /\ Invoice!SelectedIndex \in {0} \cup DOMAIN Invoice!Displayed
  BY DisplayedInvoices
<1>9. ASSUME NEW s \in InvoiceSearches \cup {None}, Invoice!SetSearch(s)
      PROVE  InvoiceTyped'
  <2>1. InvoicePageTyped'
    BY <1>0, <1>9 DEF Invoice!SetSearch, InvoicePageTyped
  <2> QED
    BY <1>1, <1>2, <1>3, <1>5, <1>9, <2>1 DEF Invoice!SetSearch, InvoicePartsTyped
<1>10. ASSUME NEW p \in Invoice!Pages, Invoice!GoToPage(p)
       PROVE  InvoiceTyped'
  <2>1. InvoicePageTyped'
    BY <1>0, <1>10 DEF Invoice!GoToPage, Invoice!LastShown, InvoicePageTyped
  <2>2. InvoicePanelTyped'
    BY <1>0, <1>10 DEF Invoice!GoToPage, Invoice!ClosePanel, InvoicePanelTyped
  <2>3. invoiceCache' = [invoiceCache EXCEPT ![p] = MountQuery(invoiceCache[p], None)]
    BY <1>0, <1>10, InvoiceQueries DEF Invoice!GoToPage, InvoiceCacheTyped
  <2>4. InvoiceCacheTyped'
    BY <1>0, <1>7, <2>3, StartSound DEF InvoiceCacheTyped
  <2> QED
    BY <1>1, <1>2, <1>10, <2>1, <2>2, <2>4 DEF Invoice!GoToPage, InvoicePartsTyped
<1>11. ASSUME NEW p \in Invoice!Pages, Invoice!FetchInvoices(p)
       PROVE  InvoiceTyped'
  <2>1. invoiceCache' = [invoiceCache EXCEPT ![p] =
                             Read(invoiceCache[p], Invoice!Listing(p))]
    BY <1>0, <1>11, InvoiceQueries DEF Invoice!FetchInvoices, InvoiceCacheTyped
  <2>2. Invoice!Listing(p) \in InvoiceAnswers /\ Sound(invoiceCache[p], InvoiceAnswers, None)
    BY <1>0, ListedInvoices DEF InvoiceTyped, InvoiceCacheTyped
  <2>3. InvoiceCacheTyped'
    BY <1>7, <2>1, <2>2, InvoiceConstants, ReadSound
  <2> QED
    BY <1>1, <1>2, <1>3, <1>4, <1>11, <2>3 DEF Invoice!FetchInvoices, InvoicePartsTyped
<1>12. ASSUME NEW p \in Invoice!Pages, Invoice!FetchEnds(p)
       PROVE  InvoiceTyped'
  <2>1. \/ /\ invoiceCache[p].fetch = "read"
           /\ invoiceCache' = [invoiceCache EXCEPT ![p] = Arrive(invoiceCache[p], None)]
        \/ invoiceCache' = [invoiceCache EXCEPT ![p] = Fail(invoiceCache[p], None)]
    BY <1>0, <1>12, InvoiceQueries DEF Invoice!FetchEnds, InvoiceCacheTyped
  <2>2. InvoiceCacheTyped'
    BY <1>0, <1>7, <2>1, ArriveSound, FailSound DEF InvoiceCacheTyped
  <2> QED
    BY <1>1, <1>2, <1>3, <1>4, <1>12, <2>2 DEF Invoice!FetchEnds, InvoicePartsTyped
<1>13. ASSUME NEW row \in Invoice!Row \cup {None}, selected' = row,
              panel' \in Nat, showPayForm' \in BOOLEAN, payAccount' \in PayAccounts \cup {None},
              UNCHANGED <<status, calls, create, outside, invoiceCache, invoicePage,
                          invoiceLast, invoiceSearch>>
       PROVE  InvoiceTyped'
  <2>1. InvoicePanelTyped'
    BY <1>13 DEF InvoicePanelTyped
  <2> QED
    BY <1>1, <1>2, <1>4, <1>5, <1>13, <2>1 DEF InvoicePartsTyped
<1>14. ASSUME NEW k, Invoice!SelectRow(k)
       PROVE  InvoiceTyped'
  BY <1>0, <1>8, <1>13, <1>14 DEF Invoice!SelectRow, InvoicePanelTyped
<1>15. CASE Invoice!CloseDetail
  BY <1>0, <1>13, <1>15 DEF Invoice!CloseDetail, Invoice!ClosePanel, InvoicePanelTyped
<1>16. CASE Invoice!OnPrev
  <2>1. Invoice!SelectedIndex - 1 \in DOMAIN Invoice!Displayed
    BY <1>8, <1>16 DEF Invoice!OnPrev
  <2> QED
    BY <1>0, <1>8, <1>13, <1>16, <2>1 DEF Invoice!OnPrev, InvoicePanelTyped
<1>17. CASE Invoice!OnNext
  <2>1. Invoice!SelectedIndex + 1 \in DOMAIN Invoice!Displayed
    BY <1>8, <1>17 DEF Invoice!OnNext
  <2> QED
    BY <1>0, <1>8, <1>13, <1>17, <2>1 DEF Invoice!OnNext, InvoicePanelTyped
<1>18. CASE Invoice!HandleAdvance \/ Invoice!HandlePay
  <2>1. None # "paid"
    BY ListsAssumption DEF Invoice!InvoicePageAssumption, Invoice!Statuses
  <2>2. /\ Invoice!NextStatus # None /\ Invoice!Open
        /\ Invoice!Post(FALSE) \/ Invoice!Post(TRUE)
    BY <1>18, <2>1
       DEF Invoice!HandleAdvance, Invoice!HandlePay, Invoice!IsPaying, Invoice!NextStatus
  <2> QED
    BY <2>2, PostTyped
<1>19. ASSUME NEW shown \in BOOLEAN, Invoice!ShowPayForm(shown)
       PROVE  InvoiceTyped'
  BY <1>0, <1>13, <1>19 DEF Invoice!ShowPayForm, InvoicePanelTyped
<1>20. ASSUME NEW a \in PayAccounts \cup {None}, Invoice!ChooseAccount(a)
       PROVE  InvoiceTyped'
  BY <1>0, <1>13, <1>20 DEF Invoice!ChooseAccount, InvoicePanelTyped
<1>21. ASSUME NEW c \in DOMAIN calls, NEW phase \in {"done", "over"}
       PROVE  /\ [calls EXCEPT ![c].phase = phase] \in Seq(Invoice!Call)
              /\ calls[c].invoice \in Invoice!Invoices /\ calls[c].to \in Invoice!Statuses
  <2>1. calls \in Seq(Invoice!Call) /\ calls[c] \in Invoice!Call
    BY <1>0 DEF InvoiceServerTyped
  <2> DEFINE moved == [calls[c] EXCEPT !.phase = phase]
  <2>2. moved \in Invoice!Call
    BY <2>1 DEF Invoice!Call
  <2>3. [calls EXCEPT ![c].phase = phase] = [calls EXCEPT ![c] = moved]
    OBVIOUS
  <2> HIDE DEF moved
  <2>4. [calls EXCEPT ![c] = moved] \in Seq(Invoice!Call)
    BY <2>1, <2>2
  <2> QED
    BY <2>1, <2>3, <2>4 DEF Invoice!Call
<1>22. ASSUME NEW c \in DOMAIN calls, Invoice!Execute(c) \/ Invoice!FailCall(c)
       PROVE  InvoiceTyped'
  <2>1. InvoiceServerTyped'
    BY <1>0, <1>21, <1>22 DEF Invoice!Execute, Invoice!FailCall, InvoiceServerTyped
  <2> QED
    BY <1>1, <1>3, <1>4, <1>5, <1>22, <2>1
       DEF Invoice!Execute, Invoice!FailCall, InvoicePartsTyped
<1>23. ASSUME NEW c \in DOMAIN calls, Invoice!Succeed(c)
       PROVE  InvoiceTyped'
  <2>1. InvoiceServerTyped'
    BY <1>0, <1>21, <1>23 DEF Invoice!Succeed, InvoiceServerTyped
  <2>2. InvoicePanelTyped'
    BY <1>0, <1>23 DEF Invoice!Succeed, InvoicePanelTyped
  <2> QED
    BY <1>1, <1>4, <1>6, <1>23, <2>1, <2>2 DEF Invoice!Succeed, InvoicePartsTyped
<1>24. ASSUME NEW i \in Invoice!Invoices, Invoice!Outside(i) \/ Invoice!CreateInvoice(i)
       PROVE  InvoiceTyped'
  <2>1. Invoice!Outside(i) =>
            Invoice!StatusNext[status[i]] \in Invoice!Statuses /\ outside' \in Nat
    BY <1>0 DEF Invoice!Outside, Invoice!StatusNext, Invoice!Statuses, InvoiceServerTyped
  <2>2. InvoiceServerTyped'
    BY <1>0, <1>24, <2>1
       DEF Invoice!Outside, Invoice!CreateInvoice, Invoice!Statuses, InvoiceServerTyped
  <2> QED
    BY <1>1, <1>3, <1>4, <1>5, <1>24, <2>2
       DEF Invoice!Outside, Invoice!CreateInvoice, InvoicePartsTyped
<1>25. CASE \/ Invoice!OpenCreate \/ Invoice!SubmitCreate
            \/ Invoice!CreateFails \/ Invoice!CloseCreate
  <2>1. InvoiceServerTyped'
    BY <1>0, <1>25 DEF Invoice!OpenCreate, Invoice!SubmitCreate, Invoice!CreateFails,
                       Invoice!CloseCreate, InvoiceServerTyped
  <2> QED
    BY <1>1, <1>3, <1>4, <1>5, <1>25, <2>1
       DEF Invoice!OpenCreate, Invoice!SubmitCreate, Invoice!CreateFails,
           Invoice!CloseCreate, InvoicePartsTyped
<1>26. CASE Invoice!Created
  <2>1. InvoiceServerTyped'
    BY <1>0, <1>26 DEF Invoice!Created, InvoiceServerTyped
  <2> QED
    BY <1>1, <1>3, <1>4, <1>6, <1>26, <2>1 DEF Invoice!Created, InvoicePartsTyped
<1>27. CASE UNCHANGED Invoice!vars
  BY <1>1, <1>2, <1>3, <1>4, <1>5, <1>27 DEF Invoice!vars, InvoicePartsTyped
<1>28. ASSUME Invoice!Next
       PROVE  InvoiceTyped'
  BY <1>9, <1>10, <1>11, <1>12, <1>14, <1>15, <1>16, <1>17, <1>18, <1>19, <1>20, <1>22,
     <1>23, <1>24, <1>25, <1>26, <1>28, Zenon DEF Invoice!Next
<1> QED
  BY <1>27, <1>28

\* Whatever the users, the window and the servers do, every variable of the five
\* lists has its type, for any pages, rows, filters and bounds.
THEOREM ListsAreTyped == ListsSpec => []ListsTyped
<1>1. ListsInit => GoalsInv /\ RecipientInv /\ LabelInv /\ ReportInv /\ InvoiceTyped
  BY InitGoals, InitRecipients, InitLabel, InitReports, InitInvoices DEF ListsInit
<1>2. ASSUME [ListsNext]_listsVars
      PROVE  [Next]_vars
  BY <1>2 DEF ListsNext, listsVars
<1>3. GoalsInv /\ [ListsNext]_listsVars => GoalsInv'
  BY <1>2, NextGoals
<1>4. /\ RecipientInv /\ [ListsNext]_listsVars => RecipientInv'
      /\ LabelInv /\ [ListsNext]_listsVars => LabelInv'
      /\ ReportInv /\ [ListsNext]_listsVars => ReportInv'
      /\ InvoiceTyped /\ [ListsNext]_listsVars => InvoiceTyped'
  BY ListsSteps, NextRecipients, NextLabel, NextReports, NextInvoices
<1>5. GoalsInv /\ RecipientInv /\ LabelInv /\ ReportInv /\ InvoiceTyped => ListsTyped
  BY DEF GoalsInv, RecipientInv, LabelInv, ReportInv, InvoiceTyped, ListsTyped
<1> QED
  BY <1>1, <1>3, <1>4, <1>5, PTL DEF ListsSpec
=============================================================================
