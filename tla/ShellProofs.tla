---------------------------- MODULE ShellProofs ----------------------------
(***************************************************************************)
(* What holds of what surrounds every page, for any users, roles, ranges   *)
(* and messages: the guards and the sign-in, what the cards say of their   *)
(* queries, and how much the recording of errors can record.               *)
(***************************************************************************)
EXTENDS Shell, QueryCacheProofs, SumProofs

-----------------------------------------------------------------------------
(* The session *)

\* While no answer of the sign-in form is being settled, whoever the shell
\* names, or is about to name, is the one whose cookie is there.
ChecksAreCurrent ==
    form.step # "settling" =>
        /\ page \in Protected /\ nav.step = "idle"
               => user = cookie \/ cookie = Nobody
        /\ nav.step = "read" => nav.got \in {cookie, Nobody} \/ cookie = Nobody

IInv ==
    /\ TypeOK
    /\ UserIsThere
    /\ ChecksAreCurrent

RouteTyped ==
    /\ user \in Someone /\ page \in Pages
    /\ nav \in [to: Pages, step: {"idle", "asked", "read"}, got: Someone,
                refused: Pages \cup {"none"}]

FormTyped ==
    form \in [step: {"idle", "posting", "settling"}, email: Someone, error: BOOLEAN]

CacheTyped ==
    /\ me \in EntryOver(Someone \cup {NoData})
    /\ accounts \in EntryOver(Users \cup {NoData})

-----------------------------------------------------------------------------
(* Types *)

\* A page behind the guards is asked for; another one is shown at once.
LEMMA NavigateFacts ==
    ASSUME RouteTyped, NEW p \in Pages, NEW r \in Pages \cup {"none"},
           NavigateTo(p, r)
    PROVE  /\ RouteTyped'
           /\ \/ nav'.step = "asked" /\ UNCHANGED <<page, user>>
              \/ nav'.step = "idle" /\ page' \notin Protected
<1>1. CASE p \in Protected
  <2>1. nav' = [to |-> p, step |-> "asked", got |-> Nobody, refused |-> r]
    BY <1>1 DEF NavigateTo, At
  <2> QED
    BY <1>1, <2>1 DEF NavigateTo, RouteTyped, Someone
<1>2. CASE p \notin Protected
  <2>1. nav' = [to |-> p, step |-> "idle", got |-> Nobody, refused |-> "none"]
    BY <1>2 DEF NavigateTo, At
  <2> QED
    BY <1>2, <2>1 DEF NavigateTo, RouteTyped, Someone
<1> QED
  BY <1>1, <1>2

LEMMA FormKept ==
    ASSUME FormTyped
    PROVE  /\ FreshForm \in [step: {"idle", "posting", "settling"}, email: Someone,
                             error: BOOLEAN]
           /\ FreshForm.step = form.step
BY DEF FormTyped, FreshForm, EmptyForm, Someone

LEMMA CacheStep ==
    ASSUME SessionAssumption, TypeOK, [Next]_vars
    PROVE  CacheTyped'
<1>1. /\ me \in EntryOver(Someone \cup {NoData})
      /\ accounts \in EntryOver(Users \cup {NoData})
      /\ cookie \in Someone
  BY DEF TypeOK
<1>2. UNCHANGED me \/ me' \in EntryOver(Someone \cup {NoData})
  <2>1. CASE SubmitAnswered
    <3>1. me' = Invalidate(me, TRUE, NoData)
      BY <2>1 DEF SubmitAnswered
    <3> QED
      BY <1>1, <3>1 DEF Invalidate, Start, Restart, Idle, EntryOver
  <2>2. CASE LogoutAnswered
    BY <1>1, <2>2, EntryTyped DEF LogoutAnswered, Someone
  <2>3. CASE ReadMe
    BY <1>1, <2>3, EntryTyped DEF ReadMe
  <2>4. CASE MeEnds
    BY <1>1, <2>4, EntryTyped DEF MeEnds
  <2>5. CASE Focus
    BY <1>1, <2>5, EntryTyped DEF Focus
  <2> QED
    BY <2>1, <2>2, <2>3, <2>4, <2>5
       DEF Next, vars, Navigate, CheckRead, CheckFails, CheckEnds, HandleSubmit,
           SubmitFails, SubmitEnds, HandleLogout, LogoutFails, SessionExpires,
           ReadAccounts, AccountsEnd, Expire
<1>3. UNCHANGED accounts \/ accounts' \in EntryOver(Users \cup {NoData})
  <2>1. CASE CheckEnds
    <3>1. accounts' \in {accounts, MountQuery(accounts, NoData)}
      BY <2>1 DEF CheckEnds
    <3> QED
      BY <1>1, <3>1, EntryTyped
  <2>2. CASE ReadAccounts
    <3>1. cookie \in Users
      BY <1>1, <2>2 DEF ReadAccounts, Someone
    <3> QED
      BY <1>1, <2>2, <3>1, EntryTyped DEF ReadAccounts
  <2>3. CASE AccountsEnd
    BY <1>1, <2>3, EntryTyped DEF AccountsEnd
  <2>4. CASE Expire
    BY <1>1, <2>4 DEF Expire, EntryOver
  <2>5. CASE Focus
    BY <1>1, <2>5, EntryTyped DEF Focus
  <2> QED
    BY <2>1, <2>2, <2>3, <2>4, <2>5
       DEF Next, vars, Navigate, CheckRead, CheckFails, HandleSubmit, SubmitFails,
           SubmitAnswered, SubmitEnds, HandleLogout, LogoutAnswered, LogoutFails,
           SessionExpires, ReadMe, MeEnds
<1> QED
  BY <1>1, <1>2, <1>3 DEF CacheTyped

-----------------------------------------------------------------------------
(* Where a step leads: to a page that the check of this user admits, or to *)
(* one that needs nobody.                                                  *)

\* A check ends in the page, at the login page, or in another check.
LEMMA CheckEndsFacts ==
    ASSUME SessionAssumption, TypeOK, CheckEnds
    PROVE  /\ RouteTyped' /\ FormTyped' /\ form'.step = form.step
           /\ \/ nav'.step = "asked" /\ UNCHANGED <<page, user>>
              \/ nav'.step = "idle" /\ page' \notin Protected
              \/ /\ nav'.step = "idle" /\ page' = nav.to /\ user' = nav.got
                 /\ nav.got \in Users /\ Allowed(nav.to, nav.got)
<1>1. RouteTyped /\ FormTyped /\ nav.to \in Pages /\ nav.got \in Someone
  BY DEF TypeOK, RouteTyped, FormTyped
<1>2. CASE nav.got = Nobody
  <2>1. NavigateTo("login", "none") /\ form' = FreshForm
    BY <1>2 DEF CheckEnds
  <2>2. "login" \in Pages /\ "none" \in Pages \cup {"none"}
    BY DEF Pages
  <2> QED
    BY <1>1, <2>1, <2>2, NavigateFacts, FormKept DEF FormTyped
<1>3. CASE nav.got # Nobody /\ ~Allowed(nav.to, nav.got)
  <2>1. NavigateTo("dashboard", nav.to) /\ UNCHANGED form
    BY <1>3 DEF CheckEnds
  <2>2. "dashboard" \in Pages /\ nav.to \in Pages \cup {"none"}
    BY <1>1 DEF Pages, Protected
  <2> QED
    BY <1>1, <2>1, <2>2, NavigateFacts DEF FormTyped
<1>4. CASE nav.got # Nobody /\ Allowed(nav.to, nav.got)
  <2>1. /\ page' = nav.to /\ user' = nav.got
        /\ nav' = [nav EXCEPT !.step = "idle"]
        /\ UNCHANGED form
    BY <1>4 DEF CheckEnds
  <2>2. nav.got \in Users
    BY <1>1, <1>4 DEF Someone
  <2> QED
    BY <1>1, <1>4, <2>1, <2>2 DEF RouteTyped, FormTyped
<1> QED
  BY <1>2, <1>3, <1>4

LEMMA RouteStep ==
    ASSUME SessionAssumption, TypeOK, UserIsThere, [Next]_vars
    PROVE  /\ RouteTyped' /\ FormTyped' /\ UserIsThere'
           /\ cookie' \in Someone /\ leaving' \in BOOLEAN /\ focuses' \in Nat
<1>0. RouteTyped /\ FormTyped /\ cookie \in Someone /\ leaving \in BOOLEAN
      /\ focuses \in Nat
  BY DEF TypeOK, RouteTyped, FormTyped
<1>1. cookie' \in Someone /\ leaving' \in BOOLEAN /\ focuses' \in Nat
  <2>1. CASE SubmitAnswered \/ SessionExpires \/ Expire \/ Focus
    <3>1. /\ cookie' \in {cookie, form.email, Nobody} /\ UNCHANGED leaving
          /\ focuses' \in {focuses, focuses + 1}
      BY <2>1 DEF SubmitAnswered, SessionExpires, Expire, Focus
    <3> QED
      BY <1>0, <3>1 DEF FormTyped, Someone
  <2>2. CASE HandleLogout \/ LogoutAnswered \/ LogoutFails
    <3>1. leaving' \in BOOLEAN
      BY <2>2 DEF HandleLogout, LogoutAnswered, LogoutFails
    <3>2. cookie' \in {cookie, Nobody} /\ UNCHANGED focuses
      BY <2>2 DEF HandleLogout, LogoutAnswered, LogoutFails
    <3> QED
      BY <1>0, <3>1, <3>2 DEF Someone
  <2>3. CASE UNCHANGED <<cookie, leaving, focuses>>
    BY <1>0, <2>3
  <2> QED
    BY <2>1, <2>2, <2>3
       DEF Next, vars, Navigate, CheckRead, CheckFails, CheckEnds, HandleSubmit,
           SubmitFails, SubmitEnds, ReadMe, MeEnds, ReadAccounts, AccountsEnd
<1>2. RouteTyped' /\ UserIsThere'
  <2>1. ASSUME NEW p \in Pages, NEW r \in Pages \cup {"none"}, NavigateTo(p, r)
        PROVE  RouteTyped' /\ UserIsThere'
    BY <1>0, <2>1, NavigateFacts DEF UserIsThere
  <2>2. CASE UNCHANGED routeVars
    BY <1>0, <2>2 DEF routeVars, RouteTyped, UserIsThere
  <2>3. CASE \E p \in Pages : Navigate(p)
    BY <2>1, <2>3 DEF Navigate
  <2>4. CASE CheckRead
    BY <1>0, <2>4 DEF CheckRead, RouteTyped, UserIsThere
  <2>5. CASE CheckFails
    BY <1>0, <2>5 DEF CheckFails, At, RouteTyped, UserIsThere, Pages, Protected,
                      Someone
  <2>6. CASE CheckEnds
    BY <2>6, CheckEndsFacts DEF UserIsThere
  <2>7. CASE SubmitEnds
    BY <2>1, <2>7 DEF SubmitEnds, Pages, Protected
  <2>8. CASE LogoutAnswered
    BY <2>1, <2>8 DEF LogoutAnswered, Pages
  <2> QED
    BY <2>2, <2>3, <2>4, <2>5, <2>6, <2>7, <2>8
       DEF Next, vars, routeVars, HandleSubmit, SubmitFails, SubmitAnswered,
           HandleLogout, LogoutFails, SessionExpires, ReadMe, MeEnds,
           ReadAccounts, AccountsEnd, Expire, Focus
<1>3. FormTyped'
  <2>1. CASE UNCHANGED form
    BY <1>0, <2>1 DEF FormTyped
  <2>2. CASE form' = FreshForm
    BY <1>0, <2>2, FormKept DEF FormTyped
  <2>3. CASE \E u \in Users : HandleSubmit(u)
    BY <2>3 DEF HandleSubmit, FormTyped, Someone
  <2>4. CASE SubmitFails \/ SubmitAnswered \/ SubmitEnds
    BY <1>0, <2>4 DEF SubmitFails, SubmitAnswered, SubmitEnds, FormTyped
  <2>5. CASE CheckEnds
    BY <2>5, CheckEndsFacts
  <2> QED
    BY <2>1, <2>2, <2>3, <2>4, <2>5
       DEF Next, vars, Navigate, CheckRead, CheckFails, HandleLogout,
           LogoutAnswered, LogoutFails, SessionExpires, ReadMe, MeEnds,
           ReadAccounts, AccountsEnd, Expire, Focus
<1> QED
  BY <1>1, <1>2, <1>3

-----------------------------------------------------------------------------
(* Whose cookie it is *)

\* The cookie changes hands only between a submission's answer and its end.
LEMMA CurrentStep ==
    ASSUME SessionAssumption, TypeOK, ChecksAreCurrent, [Next]_vars
    PROVE  ChecksAreCurrent'
<1>0. RouteTyped /\ FormTyped
  BY DEF TypeOK, RouteTyped, FormTyped
<1>1. ASSUME NEW p \in Pages, NEW r \in Pages \cup {"none"}, NavigateTo(p, r)
      PROVE  ChecksAreCurrent'
  BY <1>0, <1>1, NavigateFacts DEF ChecksAreCurrent
<1>2. CASE UNCHANGED <<cookie, routeVars>> /\ form'.step = form.step
  BY <1>2 DEF routeVars, ChecksAreCurrent
<1>3. CASE \E p \in Pages : Navigate(p)
  BY <1>1, <1>3 DEF Navigate
<1>4. CASE CheckRead
  BY <1>0, <1>4 DEF CheckRead, RouteTyped, ChecksAreCurrent
<1>5. CASE CheckFails
  BY <1>5 DEF CheckFails, At, Protected, ChecksAreCurrent
<1>6. CASE CheckEnds
  <2>1. nav.step = "read" /\ UNCHANGED cookie
    BY <1>6 DEF CheckEnds
  <2> QED
    BY <1>6, <2>1, CheckEndsFacts DEF ChecksAreCurrent, SessionAssumption
<1>7. CASE \/ \E u \in Users : HandleSubmit(u)
           \/ SubmitFails
  <2>1. form.step # "settling" /\ UNCHANGED <<cookie, routeVars>>
    BY <1>7 DEF HandleSubmit, SubmitFails
  <2> QED
    BY <2>1 DEF routeVars, ChecksAreCurrent
<1>8. CASE SubmitAnswered
  BY <1>0, <1>8 DEF SubmitAnswered, FormTyped, ChecksAreCurrent
<1>9. CASE SubmitEnds
  BY <1>1, <1>9 DEF SubmitEnds, Pages, Protected
<1>10. CASE LogoutAnswered
  BY <1>1, <1>10 DEF LogoutAnswered, Pages
<1>11. CASE SessionExpires
  BY <1>11 DEF SessionExpires, ChecksAreCurrent
<1> QED
  BY <1>2, <1>3, <1>4, <1>5, <1>6, <1>7, <1>8, <1>9, <1>10, <1>11
     DEF Next, vars, routeVars, HandleLogout, LogoutFails, ReadMe, MeEnds,
         ReadAccounts, AccountsEnd, Expire, Focus

-----------------------------------------------------------------------------

LEMMA Initially ==
    ASSUME SessionAssumption, Init
    PROVE  IInv
<1>1. /\ Nobody \in Someone /\ "login" \in Pages /\ "login" \notin Protected
      /\ NoData \in Someone \cup {NoData}
  BY DEF Someone, Pages, Protected
<1>2. NoEntry(NoData) \in EntryOver(Someone \cup {NoData})
  BY <1>1 DEF NoEntry, EntryOver
<1>3. me \in EntryOver(Someone \cup {NoData})
  BY <1>1, <1>2, EntryTyped DEF Init
<1>4. accounts \in EntryOver(Users \cup {NoData})
  BY DEF Init, NoEntry, EntryOver
<1>5. nav = [to |-> "login", step |-> "idle", got |-> Nobody, refused |-> "none"]
  BY DEF Init, At
<1>6. nav \in [to: Pages, step: {"idle", "asked", "read"}, got: Someone,
               refused: Pages \cup {"none"}]
  BY <1>1, <1>5
<1>7. form \in [step: {"idle", "posting", "settling"}, email: Someone, error: BOOLEAN]
  BY <1>1 DEF Init, EmptyForm
<1>8. leaving \in BOOLEAN
  BY DEF Init
<1>9. cookie \in Someone /\ user \in Someone /\ page \in Pages /\ focuses \in Nat
  BY <1>1 DEF Init
<1>10. UserIsThere /\ ChecksAreCurrent
  BY <1>1, <1>5 DEF Init, UserIsThere, ChecksAreCurrent
<1> QED
  BY <1>3, <1>4, <1>6, <1>7, <1>8, <1>9, <1>10 DEF IInv, TypeOK

LEMMA Inductive ==
    ASSUME SessionAssumption, IInv, [Next]_vars
    PROVE  IInv'
  BY CacheStep, RouteStep, CurrentStep
     DEF IInv, TypeOK, RouteTyped, FormTyped, CacheTyped

THEOREM Invariance ==
    ASSUME SessionAssumption
    PROVE  Spec => []IInv
<1>1. Init => IInv
  BY Initially
<1>2. IInv /\ [Next]_vars => IInv'
  BY Inductive
<1> QED
  BY <1>1, <1>2, PTL DEF Spec

\* The routes, the sign-in form and the cached queries keep their types.
THEOREM TypeCorrect ==
    ASSUME SessionAssumption
    PROVE  Spec => []TypeOK
<1>1. IInv => TypeOK
  BY DEF IInv
<1> QED
  BY <1>1, Invariance, PTL

\* A page behind a guard has a user, whom the guard admits.
THEOREM GuardedPagesHaveUsers ==
    ASSUME SessionAssumption
    PROVE  Spec => []UserIsThere
<1>1. IInv => UserIsThere
  BY DEF IInv
<1> QED
  BY <1>1, Invariance, PTL

\* At rest the shell names the user of the cookie, for any users and sign-ins.
THEOREM ShellIsCurrent ==
    ASSUME SessionAssumption
    PROVE  Spec => []ShellNamesSession
<1>1. IInv => ShellNamesSession
  BY DEF IInv, ChecksAreCurrent, ShellNamesSession
<1> QED
  BY <1>1, Invariance, PTL

-----------------------------------------------------------------------------
(* A step of the composition is a step, or a stutter, of each part. *)

LEMMA ShellSteps ==
    ASSUME [ShellNext]_shellVars
    PROVE  /\ [Next]_vars
           /\ [Card!Next]_(Card!vars)
           /\ [Reporter!Next]_(Reporter!vars)
  BY DEF ShellNext, shellVars, InSession, InCards, InReports, vars, cardVars, reportVars,
         Card!vars, Card!pageVars, Card!netVars, Reporter!vars

-----------------------------------------------------------------------------
(* The cards *)

\* What a query of a range can be answered; a hook that looks at r.ok (looks)
\* takes no refusal.
AnswersOf(looks, r) ==
    [of: {r}, rows: IF looks THEN {"none", "some"} ELSE {"none", "some", "refusal"}]

\* The entry of a range holds answers about that range only, and the one that
\* is on the screen is at rest without data only after an error.
CardInv ==
    /\ Card!TypeOK
    /\ \A r \in Ranges : Sound(cache[r], AnswersOf(checks, r), NoData)
    /\ onScreen => Settled(cache[range], NoData)

\* The operations on a cache entry are the same ones everywhere.
LEMMA CardQueries ==
    ASSUME NEW e, NEW nothing, NEW answer
    PROVE  /\ Card!NoEntry(nothing) = NoEntry(nothing)
           /\ Card!Start(e, nothing) = Start(e, nothing)
           /\ Card!Restart(e, nothing) = Restart(e, nothing)
           /\ Card!MountQuery(e, nothing) = MountQuery(e, nothing)
           /\ Card!Read(e, answer) = Read(e, answer)
           /\ Card!Arrive(e, nothing) = Arrive(e, nothing)
           /\ Card!Fail(e, nothing) = Fail(e, nothing)
           /\ Card!Idle(e) = Idle(e)
  BY DEF Card!NoEntry, NoEntry, Card!Start, Start, Card!Restart, Restart, Card!Idle, Idle,
     Card!MountQuery, MountQuery, Card!Read, Read, Card!Arrive, Arrive, Card!Fail, Fail

LEMMA CardConstants ==
    /\ FirstRange \in Ranges
    /\ \A r \in Ranges, looks \in BOOLEAN :
           NoData \notin AnswersOf(looks, r) /\ AnswersOf(looks, r) \subseteq Card!Answers
  BY ShellAssumption DEF ShellAssumption, Card!CardsAssumption, AnswersOf, Card!Answers

\* A sound entry has the type of all entries.
LEMMA SoundTyped ==
    ASSUME NEW looks \in BOOLEAN, NEW r \in Ranges, NEW e,
           Sound(e, AnswersOf(looks, r), NoData)
    PROVE  e \in Card!EntryOver(Card!Answers \cup {NoData})
  BY CardConstants DEF Sound, EntryOver, Card!EntryOver

LEMMA InitCards == Card!Init => CardInv
<1> SUFFICES ASSUME Card!Init
             PROVE  CardInv
  OBVIOUS
<1>1. \A r \in Ranges : cache[r] = NoEntry(NoData)
  BY CardQueries DEF Card!Init
<1>2. \A r \in Ranges : Sound(cache[r], AnswersOf(checks, r), NoData)
  BY <1>1, NoEntrySound
<1>3. cache \in [Ranges -> Card!EntryOver(Card!Answers \cup {NoData})]
  <2>1. cache = [r \in Ranges |-> Card!NoEntry(NoData)] /\ checks \in BOOLEAN
    BY DEF Card!Init
  <2> QED
    BY <1>2, <2>1, SoundTyped
<1> QED
  BY <1>2, <1>3, CardConstants DEF Card!Init, CardInv, Card!TypeOK, Card!Dialogs

\* A step that changes the entry of one range.
LEMMA CardEntryChanges ==
    ASSUME CardInv, UNCHANGED checks,
           NEW r \in Ranges, NEW e, cache' = [cache EXCEPT ![r] = e],
           Sound(e, AnswersOf(checks, r), NoData)
    PROVE  /\ cache' \in [Ranges -> Card!EntryOver(Card!Answers \cup {NoData})]
           /\ \A q \in Ranges : Sound(cache'[q], AnswersOf(checks', q), NoData)
           /\ cache'[r] = e
           /\ \A q \in Ranges \ {r} : cache'[q] = cache[q]
<1>1. DOMAIN cache = Ranges /\ checks \in BOOLEAN
  BY DEF CardInv, Card!TypeOK
<1>2. e \in Card!EntryOver(Card!Answers \cup {NoData})
  BY <1>1, SoundTyped
<1> QED
  BY <1>1, <1>2 DEF CardInv, Card!TypeOK

\* The same, of a step that changes no more of the page.
LEMMA CardEntryStep ==
    ASSUME CardInv, UNCHANGED <<rows, onScreen, range, dialog, checks>>,
           NEW r \in Ranges, NEW e, cache' = [cache EXCEPT ![r] = e],
           Sound(e, AnswersOf(checks, r), NoData),
           r = range /\ onScreen => Settled(e, NoData),
           last' \in {last, r}, online' \in BOOLEAN, paused' \subseteq Ranges,
           changes' \in Nat
    PROVE  CardInv'
<1>1. /\ cache' \in [Ranges -> Card!EntryOver(Card!Answers \cup {NoData})]
      /\ \A q \in Ranges : Sound(cache'[q], AnswersOf(checks', q), NoData)
      /\ cache'[r] = e
      /\ \A q \in Ranges \ {r} : cache'[q] = cache[q]
  BY CardEntryChanges
<1>2. onScreen' => Settled(cache'[range'], NoData)
  BY <1>1 DEF CardInv, Card!TypeOK
<1>3. Card!TypeOK'
  BY <1>1 DEF CardInv, Card!TypeOK
<1> QED
  BY <1>1, <1>2, <1>3 DEF CardInv

LEMMA NextCards == CardInv /\ [Card!Next]_(Card!vars) => CardInv'
<1> SUFFICES ASSUME CardInv, [Card!Next]_(Card!vars)
             PROVE  CardInv'
  OBVIOUS
<1>0. /\ range \in Ranges /\ changes \in Nat /\ rows \in [Ranges -> {"none", "some"}]
      /\ onScreen \in BOOLEAN /\ last \in Ranges \cup {NoData}
      /\ checks \in BOOLEAN /\ online \in BOOLEAN /\ paused \subseteq Ranges
      /\ \A r \in Ranges : Sound(cache[r], AnswersOf(checks, r), NoData)
  BY DEF CardInv, Card!TypeOK
<1>1. CASE UNCHANGED Card!vars
  BY <1>1 DEF Card!vars, Card!pageVars, Card!netVars, CardInv, Card!TypeOK
<1>2. ASSUME NEW r \in Ranges, NEW e, NEW sends, Card!Fetch(r, e, sends)
      PROVE  /\ cache' = [cache EXCEPT ![r] = e] /\ paused' \subseteq Ranges
             /\ UNCHANGED <<checks, online>>
  BY <1>0, <1>2 DEF Card!Fetch
<1>3. ASSUME NEW r \in Ranges, Card!Mount(r)
      PROVE  /\ cache' \in [Ranges -> Card!EntryOver(Card!Answers \cup {NoData})]
             /\ \A q \in Ranges : Sound(cache'[q], AnswersOf(checks', q), NoData)
             /\ Settled(cache'[r], NoData)
             /\ paused' \subseteq Ranges /\ UNCHANGED <<checks, online>>
  <2>1. /\ cache' = [cache EXCEPT ![r] = MountQuery(cache[r], NoData)]
        /\ paused' \subseteq Ranges /\ UNCHANGED <<checks, online>>
    BY <1>2, <1>3, CardQueries DEF Card!Mount
  <2>2. Sound(MountQuery(cache[r], NoData), AnswersOf(checks, r), NoData)
        /\ Settled(MountQuery(cache[r], NoData), NoData)
    BY <1>0, StartSound
  <2> QED
    BY <2>1, <2>2, CardEntryChanges
<1>4. CASE Card!Enter
  <2>1. Card!Mount(FirstRange) /\ FirstRange \in Ranges
    BY <1>4, CardConstants DEF Card!Enter
  <2>2. /\ UNCHANGED <<rows, dialog, changes>> /\ range' = FirstRange /\ onScreen' = TRUE
        /\ last' \in {FirstRange, NoData}
    BY <1>4 DEF Card!Enter
  <2>3. Card!TypeOK'
    BY <1>0, <1>3, <2>1, <2>2 DEF CardInv, Card!TypeOK
  <2> QED
    BY <1>3, <2>1, <2>2, <2>3 DEF CardInv
<1>5. CASE Card!Leave \/ Card!CloseDialog \/ \E d \in Card!Dialogs : Card!OpenDialog(d)
  <2>1. /\ UNCHANGED <<rows, cache, range, checks, online, paused, changes>>
        /\ last' \in {last, NoData}
        /\ onScreen' = onScreen \/ onScreen' = FALSE
        /\ dialog' \in Card!Dialogs
    BY <1>5 DEF Card!Leave, Card!CloseDialog, Card!OpenDialog, Card!Dialogs, Card!netVars,
       CardInv, Card!TypeOK
  <2>2. Card!TypeOK'
    BY <2>1 DEF CardInv, Card!TypeOK
  <2> QED
    BY <2>1, <2>2 DEF CardInv
<1>6. CASE Card!Retry \/ Card!Focus
  <2>1. PICK sends \in BOOLEAN,
             e \in {Start(cache[range], NoData), Restart(cache[range], NoData)} :
            Card!Fetch(range, e, sends)
    <3>1. CASE Card!Focus
      BY <3>1, CardQueries DEF Card!Focus, Idle
    <3>2. CASE Card!Retry
      BY <3>2, CardQueries DEF Card!Retry, Idle
    <3> QED
      BY <1>6, <3>1, <3>2
  <2>2. /\ cache' = [cache EXCEPT ![range] = e] /\ paused' \subseteq Ranges
        /\ UNCHANGED <<checks, online>>
    BY <1>0, <1>2, <2>1
  <2>3. Sound(e, AnswersOf(checks, range), NoData) /\ Settled(e, NoData)
    BY <1>0, <2>1, StartSound
  <2>4. UNCHANGED <<rows, onScreen, range, last, dialog>> /\ changes' \in Nat
    <3>1. CASE Card!Retry
      BY <1>0, <3>1 DEF Card!Retry, Card!pageVars
    <3>2. CASE Card!Focus
      BY <1>0, <3>2 DEF Card!Focus, Card!pageVars
    <3> QED
      BY <1>6, <3>1, <3>2
  <2> QED
    BY <1>0, <2>2, <2>3, <2>4, CardEntryStep
<1>7. ASSUME NEW r \in Ranges, Card!SelectRange(r)
      PROVE  CardInv'
  <2>1. /\ Card!Mount(r)
        /\ UNCHANGED <<rows, onScreen, dialog>> /\ range' = r /\ changes' \in Nat
        /\ last' \in {r, last}
    BY <1>0, <1>7 DEF Card!SelectRange
  <2>2. Card!TypeOK'
    BY <1>0, <1>3, <2>1 DEF CardInv, Card!TypeOK
  <2> QED
    BY <1>3, <2>1, <2>2 DEF CardInv
<1>8. ASSUME NEW r \in Ranges, Card!ReadRows(r) \/ Card!RefuseRows(r)
      PROVE  CardInv'
  <2>1. PICK answer \in AnswersOf(checks, r) :
            cache' = [cache EXCEPT ![r] = Read(cache[r], answer)]
    <3>1. CASE Card!ReadRows(r)
      <4>1. Card!Answer(r) \in AnswersOf(checks, r)
        BY <1>0 DEF Card!Answer, AnswersOf
      <4> QED
        BY <3>1, <4>1, CardQueries DEF Card!ReadRows
    <3>2. CASE Card!RefuseRows(r)
      <4>1. [of |-> r, rows |-> "refusal"] \in AnswersOf(checks, r)
        BY <3>2 DEF Card!RefuseRows, AnswersOf
      <4> QED
        BY <3>2, <4>1, CardQueries DEF Card!RefuseRows
    <3> QED
      BY <1>8, <3>1, <3>2
  <2>2. Sound(Read(cache[r], answer), AnswersOf(checks, r), NoData)
        /\ Settled(Read(cache[r], answer), NoData)
    BY <1>0, ReadSound, CardConstants
  <2>3. UNCHANGED <<rows, onScreen, range, last, dialog, checks, online, paused, changes>>
    BY <1>8 DEF Card!ReadRows, Card!RefuseRows, Card!pageVars, Card!netVars
  <2> QED
    BY <1>0, <2>1, <2>2, <2>3, CardEntryStep
<1>9. ASSUME NEW r \in Ranges, Card!ArriveRows(r)
      PROVE  CardInv'
  <2>1. /\ cache' = [cache EXCEPT ![r] = Arrive(cache[r], NoData)]
        /\ UNCHANGED <<rows, onScreen, range, dialog, checks, online, paused, changes>>
        /\ last' \in {last, r}
    BY <1>9, CardQueries DEF Card!ArriveRows, Card!netVars
  <2>2. Sound(Arrive(cache[r], NoData), AnswersOf(checks, r), NoData)
        /\ Settled(Arrive(cache[r], NoData), NoData)
    BY <1>0, <1>9, ArriveSound DEF Card!ArriveRows
  <2> QED
    BY <1>0, <2>1, <2>2, CardEntryStep
<1>10. ASSUME NEW r \in Ranges, Card!FailRows(r)
       PROVE  CardInv'
  <2>1. /\ cache' = [cache EXCEPT ![r] = Fail(cache[r], NoData)]
        /\ UNCHANGED <<rows, onScreen, range, last, dialog, checks, online, paused, changes>>
    BY <1>10, CardQueries DEF Card!FailRows, Card!pageVars, Card!netVars
  <2>2. Sound(Fail(cache[r], NoData), AnswersOf(checks, r), NoData)
        /\ Settled(Fail(cache[r], NoData), NoData)
    BY <1>0, FailSound
  <2> QED
    BY <1>0, <2>1, <2>2, CardEntryStep
<1>11. ASSUME NEW r \in Ranges, Card!Expire(r)
       PROVE  CardInv'
  <2> DEFINE e == [cache[r] EXCEPT !.stale = TRUE]
  <2>1. /\ cache' = [cache EXCEPT ![r] = e] /\ changes' \in Nat
        /\ UNCHANGED <<rows, onScreen, range, last, dialog, checks, online, paused>>
    BY <1>0, <1>11 DEF Card!Expire, Card!pageVars, Card!netVars
  <2>2. Sound(e, AnswersOf(checks, r), NoData)
    BY <1>0 DEF Sound, EntryOver
  <2>3. Settled(cache[r], NoData) => Settled(e, NoData)
    BY <1>0 DEF Sound, EntryOver, Settled, Idle
  <2>4. r = range /\ onScreen => Settled(e, NoData)
    BY <2>3 DEF CardInv
  <2> HIDE DEF e
  <2> QED
    BY <1>0, <2>1, <2>2, <2>4, CardEntryStep
<1>12. ASSUME NEW r \in Ranges, Card!RowsChange(r)
       PROVE  CardInv'
  BY <1>12 DEF Card!RowsChange, Card!pageVars, Card!netVars, CardInv, Card!TypeOK
<1>13. CASE Card!GoOffline
  <2>1. /\ UNCHANGED <<rows, cache, onScreen, range, last, dialog, checks, paused>>
        /\ online' = FALSE /\ changes' \in Nat
    BY <1>0, <1>13 DEF Card!GoOffline, Card!pageVars
  <2>2. Card!TypeOK'
    BY <2>1 DEF CardInv, Card!TypeOK
  <2> QED
    BY <2>1, <2>2 DEF CardInv
<1>14. CASE Card!Pause
  <2> DEFINE e == [cache[range] EXCEPT !.fetch = "sent", !.got = NoData]
  <2>1. /\ cache' = [cache EXCEPT ![range] = e] /\ paused' \subseteq Ranges
        /\ UNCHANGED <<rows, onScreen, range, last, dialog, checks, online, changes>>
    BY <1>0, <1>14 DEF Card!Pause, Card!pageVars
  <2>2. Sound(e, AnswersOf(checks, range), NoData) /\ Settled(e, NoData)
    BY <1>0 DEF Sound, EntryOver, Settled, Idle
  <2> HIDE DEF e
  <2> QED
    BY <1>0, <2>1, <2>2, CardEntryStep
<1>15. CASE Card!GoOnline
  <2>1. /\ UNCHANGED <<rows, onScreen, range, last, dialog, checks, changes>>
        /\ online' = TRUE /\ paused' = {}
    BY <1>15 DEF Card!GoOnline, Card!pageVars
  <2>2. CASE onScreen
    <3>1. cache' = [cache EXCEPT ![range] = MountQuery(cache[range], NoData)]
      BY <1>15, <2>2, CardQueries DEF Card!GoOnline
    <3>2. Sound(MountQuery(cache[range], NoData), AnswersOf(checks, range), NoData)
          /\ Settled(MountQuery(cache[range], NoData), NoData)
      BY <1>0, StartSound
    <3> QED
      BY <1>0, <2>1, <3>1, <3>2, CardEntryStep
  <2>3. CASE ~onScreen
    <3>1. UNCHANGED cache
      BY <1>15, <2>3 DEF Card!GoOnline
    <3> QED
      BY <2>1, <2>3, <3>1 DEF CardInv, Card!TypeOK
  <2> QED
    BY <2>2, <2>3
<1> QED
  BY <1>1, <1>4, <1>5, <1>6, <1>7, <1>8, <1>9, <1>10, <1>11, <1>12, <1>13, <1>14, <1>15
     DEF Card!Next, Card!Ends

\* What the entry on the screen holds, once nothing is fetched for its range and
\* the last fetch did not fail: an answer about this range.
LEMMA RestIsOfRange ==
    ASSUME CardInv, onScreen, Idle(cache[range]), ~cache[range].error
    PROVE  /\ Card!KeptResult.data = cache[range].data
           /\ cache[range].data \in AnswersOf(checks, range)
<1> DEFINE e == cache[range]
<1>1. Sound(e, AnswersOf(checks, range), NoData) /\ Settled(e, NoData)
  BY DEF CardInv, Card!TypeOK
<1>2. e.data # NoData
  BY <1>1 DEF Settled
<1>3. e.data \in AnswersOf(checks, range)
  BY <1>1, <1>2 DEF Sound, EntryOver
<1>4. Card!KeptResult.data = e.data
  BY <1>2 DEF Card!KeptResult, Card!ResultOver, Card!Shown
<1> QED
  BY <1>3, <1>4

\* A refusal is not among the answers of a hook that looks at r.ok.
LEMMA NoneIsAnswered ==
    ASSUME NEW d \in AnswersOf(TRUE, range), d.rows \in {"none", "refusal"}
    PROVE  d = [of |-> range, rows |-> "none"]
  BY DEF AnswersOf

\* Whatever fails, is refused, fetched again or shown from the range before, a
\* card whose hook looks at r.ok says "nothing" only of an answer, and full colour
\* is of the range picked unless its fetch waits for the network.
THEOREM CardsAreTruthful == ShellSpec => []CardsTruthful
<1>1. ShellInit => CardInv
  BY InitCards DEF ShellInit
<1>2. CardInv /\ [ShellNext]_shellVars => CardInv'
  BY NextCards, ShellSteps
<1>3. ASSUME CardInv
      PROVE  CardsTruthful
  <2>1. ASSUME checks, onScreen,
               "empty" \in {Card!RecentActivity, Card!CategoryPieChart, Card!UsersTable,
                            Card!MyRoles}
        PROVE  Card!AnsweredNone(range)
    <3> DEFINE d == cache[range].data
    <3>1. d # NoData /\ d.rows \in {"none", "refusal"}
      BY <2>1 DEF Card!RecentActivity, Card!CategoryPieChart, Card!UsersTable, Card!MyRoles,
         Card!ErrorCardFirst, Card!Result, Card!ResultOver, Card!HasNone, Card!IsLoading
    <3>2. Sound(cache[range], AnswersOf(TRUE, range), NoData)
      BY <1>3, <2>1 DEF CardInv, Card!TypeOK
    <3>3. d \in AnswersOf(TRUE, range)
      BY <3>1, <3>2 DEF Sound, EntryOver
    <3> QED
      BY <3>1, <3>3, NoneIsAnswered DEF Card!AnsweredNone
  <2>2. ASSUME checks, onScreen, Card!Idle(cache[range]), "empty" \in Card!Charts
        PROVE  Card!AnsweredNone(range)
    <3>1. ~cache[range].error /\ Card!HasNone(Card!KeptResult)
      BY <2>2 DEF Card!Charts, Card!MoneyFlowChart, Card!MonthlySpendChart,
         Card!BalanceChart, Card!ErrorCardFirst, Card!KeptResult, Card!ResultOver
    <3>2. /\ Card!KeptResult.data = cache[range].data
          /\ cache[range].data \in AnswersOf(TRUE, range)
      BY <1>3, <2>2, <3>1, RestIsOfRange, CardQueries
    <3>3. range \in Ranges
      BY <1>3 DEF CardInv, Card!TypeOK
    <3>4. cache[range].data.rows \in {"none", "refusal"}
      BY <3>1, <3>2, <3>3, CardConstants DEF Card!HasNone
    <3> QED
      BY <3>2, <3>4, NoneIsAnswered DEF Card!AnsweredNone
  <2>3. ASSUME onScreen, Idle(cache[range]), ~cache[range].error
        PROVE  Card!KeptResult.data.of = range
    BY <1>3, <2>3, RestIsOfRange DEF AnswersOf
  <2>4. ASSUME onScreen, Card!MoneyFlowChart = "rows", range \notin paused
        PROVE  Card!KeptResult.data.of = range
    BY <2>3, <2>4, CardQueries DEF Card!MoneyFlowChart, Card!KeptResult, Card!ResultOver
  <2>5. ASSUME onScreen, Card!Idle(cache[range]), "rows" \in Card!Charts
        PROVE  Card!KeptResult.data.of = range
    <3>1. ~cache[range].error
      BY <2>5 DEF Card!Charts, Card!MoneyFlowChart, Card!MonthlySpendChart,
         Card!BalanceChart, Card!ErrorCardFirst, Card!KeptResult, Card!ResultOver
    <3> QED
      BY <2>3, <2>5, <3>1, CardQueries
  <2> QED
    BY <2>1, <2>2, <2>4, <2>5
       DEF CardsTruthful, Card!EmptyIsAnswered, Card!UndimmedIsOfRange
<1> QED
  BY <1>1, <1>2, <1>3, PTL DEF ShellSpec

-----------------------------------------------------------------------------
(* The error reports *)

Prints == Reporter!Fingerprints

\* The rows recorded, those the server is about to record, and for each report
\* under way the events that it can cause: its own row is one fewer than these.
Recordings ==
    3 * SumFunctionOnSet(posts, Prints) + spawned["waiting"] + spawned["running"]
        + recorded["browser"] + recorded["server"]

\* An error causes at most two reports, and four events in the server; when a
\* report ends, it becomes a row and an event, or three events, or nothing.
ReportsInv ==
    /\ errors \in 0..MaxErrors
    /\ recent \subseteq Prints
    /\ posts \in [Prints -> Nat]
    /\ spawned \in [{"waiting", "running"} -> Nat]
    /\ recorded \in [{"browser", "server"} -> Nat]
    /\ \A f \in Prints : posts[f] <= errors
    /\ Recordings <= 10 * errors

LEMMA ReportConstants ==
    IsFiniteSet(Messages) /\ MaxErrors \in Nat /\ IsFiniteSet(Prints)
<1>1. IsFiniteSet(Messages) /\ MaxErrors \in Nat
  BY ShellAssumption DEF ShellAssumption, Reporter!ReportsAssumption,
     Reporter!IsFiniteSet, IsFiniteSet
<1>2. IsFiniteSet(Reporter!ReportTypes)
  <2>1. IsFiniteSet({"ApiError"})
    BY FS_Singleton
  <2>2. IsFiniteSet({"ApiError"} \cup {"Server"})
    BY <2>1, FS_AddElement
  <2>3. IsFiniteSet(({"ApiError"} \cup {"Server"}) \cup {"PromiseRejection"})
    BY <2>2, FS_AddElement
  <2>4. Reporter!ReportTypes = ({"ApiError"} \cup {"Server"}) \cup {"PromiseRejection"}
    BY DEF Reporter!ReportTypes
  <2> QED
    BY <2>3, <2>4
<1> QED
  BY <1>1, <1>2, FS_Product DEF Prints, Reporter!Fingerprints

LEMMA InitReports == Reporter!Init => ReportsInv
<1> SUFFICES ASSUME Reporter!Init
             PROVE  ReportsInv
  OBVIOUS
<1>1. SumFunctionOnSet(posts, Prints) = 0
  BY ReportConstants, SumZero DEF Reporter!Init, Prints
<1> QED
  BY <1>1, ReportConstants DEF Reporter!Init, ReportsInv, Recordings, Prints

\* The reports under way, when those of one kind change in number.
LEMMA PostCounted ==
    ASSUME NEW z \in Prints,
           \A f \in Prints : posts[f] \in Int /\ posts'[f] \in Int,
           \A f \in Prints \ {z} : posts'[f] = posts[f]
    PROVE  SumFunctionOnSet(posts', Prints)
               = SumFunctionOnSet(posts, Prints) + (posts'[z] - posts[z])
<1>1. IsFiniteSet(Prints)
  BY ReportConstants
<1>2. \A f \in Prints : posts[f] \in Int /\ posts'[f] \in Int
  OBVIOUS
<1> QED
  BY ONLY <1>1, <1>2, SumOneChanged, z \in Prints, \A f \in Prints \ {z} : posts'[f] = posts[f]

\* What one error, or one report that ends, does to the reports under way.
LEMMA PostsChange ==
    ASSUME ReportsInv, NEW new, new \subseteq Prints,
           NEW x, NEW y, new \subseteq {x, y},
           posts' = [f \in Prints |-> posts[f] + IF f \in new THEN 1 ELSE 0]
    PROVE  /\ posts' \in [Prints -> Nat]
           /\ \A f \in Prints : posts'[f] <= posts[f] + 1
           /\ SumFunctionOnSet(posts', Prints)
                  <= SumFunctionOnSet(posts, Prints) + (IF x = y THEN 1 ELSE 2)
<1>1. /\ posts' \in [Prints -> Nat] /\ posts \in [Prints -> Nat]
      /\ \A f \in Prints : posts'[f] = posts[f] + IF f \in new THEN 1 ELSE 0
  BY DEF ReportsInv
<1>2. \A f \in Prints : posts'[f] <= posts[f] + 1
  BY <1>1
<1>3. SumFunctionOnSet(posts, Prints) \in Nat
  BY <1>1, ReportConstants, SumNat
<1>4. CASE new = {}
  <2>1. SumFunctionOnSet(posts', Prints) = SumFunctionOnSet(posts, Prints)
    <3>1. \A f \in Prints : posts'[f] = posts[f]
      BY <1>1, <1>4
    <3> QED
      BY <3>1, ReportConstants, SumCongruent
  <2> QED
    BY <1>1, <1>2, <1>3, <2>1
<1>5. ASSUME NEW z \in Prints, new = {z}
      PROVE  SumFunctionOnSet(posts', Prints) = SumFunctionOnSet(posts, Prints) + 1
  <2>1. \A f \in Prints \ {z} : posts'[f] = posts[f]
    BY <1>1, <1>5
  <2>2. posts'[z] - posts[z] = 1
    BY <1>1, <1>5
  <2>3. \A f \in Prints : posts[f] \in Int /\ posts'[f] \in Int
    BY <1>1
  <2>4. SumFunctionOnSet(posts', Prints)
            = SumFunctionOnSet(posts, Prints) + (posts'[z] - posts[z])
    BY <1>5, <2>1, <2>3, PostCounted
  <2> QED
    BY <2>2, <2>4
<1>6. CASE new = {x, y} /\ x # y
  <2>1. x \in Prints /\ y \in Prints
    BY <1>6
  <2>2. \A f \in Prints \ {x, y} : posts'[f] = posts[f]
    BY <1>1, <1>6
  <2>3. posts'[x] - posts[x] = 1 /\ posts'[y] - posts[y] = 1
        /\ \A f \in Prints : posts[f] \in Int /\ posts'[f] \in Int
    BY <1>1, <1>6, <2>1
  <2>4. SumFunctionOnSet(posts', Prints)
            = SumFunctionOnSet(posts, Prints) + (posts'[x] - posts[x]) + (posts'[y] - posts[y])
    BY <1>6, <2>1, <2>2, <2>3, ReportConstants, SumTwoChanged
  <2> QED
    BY <1>1, <1>2, <1>3, <1>6, <2>3, <2>4
<1>7. new = {} \/ new = {x, y} \/ new = {x} \/ new = {y}
  OBVIOUS
<1>8. CASE new = {x}
  BY <1>1, <1>2, <1>3, <1>5, <1>8
<1>9. CASE new = {y}
  BY <1>1, <1>2, <1>3, <1>5, <1>9
<1> QED
  BY <1>4, <1>6, <1>7, <1>8, <1>9

\* A report ends: one fewer is under way.
LEMMA PostEnded ==
    ASSUME ReportsInv, NEW f \in Prints, Reporter!Received(f)
    PROVE  /\ posts' \in [Prints -> Nat]
           /\ \A g \in Prints : posts'[g] <= posts[g]
           /\ SumFunctionOnSet(posts', Prints) = SumFunctionOnSet(posts, Prints) - 1
<1>1. /\ posts \in [Prints -> Nat] /\ posts[f] > 0
      /\ posts' = [posts EXCEPT ![f] = posts[f] - 1]
  BY DEF ReportsInv, Reporter!Received
<1>2. /\ posts' \in [Prints -> Nat]
      /\ \A g \in Prints : posts'[g] <= posts[g]
      /\ \A g \in Prints \ {f} : posts'[g] = posts[g]
      /\ posts'[f] - posts[f] = -1
      /\ \A g \in Prints : posts[g] \in Int /\ posts'[g] \in Int
  BY <1>1
<1>3. SumFunctionOnSet(posts', Prints)
          = SumFunctionOnSet(posts, Prints) + (posts'[f] - posts[f])
  BY <1>2, ReportConstants, SumOneChanged
<1>4. SumFunctionOnSet(posts, Prints) \in Nat
  BY <1>1, ReportConstants, SumNat
<1> QED
  BY <1>2, <1>3, <1>4

LEMMA NextReports == ReportsInv /\ [Reporter!Next]_(Reporter!vars) => ReportsInv'
<1> SUFFICES ASSUME ReportsInv, [Reporter!Next]_(Reporter!vars)
             PROVE  ReportsInv'
  OBVIOUS
<1> DEFINE Sum == SumFunctionOnSet(posts, Prints)
<1>0. /\ errors \in 0..MaxErrors /\ MaxErrors \in Nat /\ errors \in Nat
      /\ posts \in [Prints -> Nat] /\ Sum \in Nat
      /\ spawned \in [{"waiting", "running"} -> Nat]
      /\ recorded \in [{"browser", "server"} -> Nat]
      /\ spawned["waiting"] \in Nat /\ spawned["running"] \in Nat
      /\ recorded["browser"] \in Nat /\ recorded["server"] \in Nat
      /\ 3 * Sum + spawned["waiting"] + spawned["running"]
             + recorded["browser"] + recorded["server"] <= 10 * errors
      /\ \A f \in Prints : posts[f] <= errors
  BY ReportConstants, SumNat DEF ReportsInv, Recordings
<1>1. CASE UNCHANGED Reporter!vars
  BY <1>1 DEF Reporter!vars, ReportsInv, Recordings, Prints
<1>2. ASSUME NEW x, NEW y, NEW fs \in SUBSET Prints, fs \subseteq {x, y}, NEW n \in 0..4,
             Reporter!Occurs, Reporter!Report(fs), UNCHANGED recorded,
             spawned' = [spawned EXCEPT !["waiting"] = spawned["waiting"] + n]
      PROVE  ReportsInv'
  <2> DEFINE new == fs \ recent
  <2>1. /\ recent' = recent \cup new
        /\ posts' = [f \in Prints |-> posts[f] + IF f \in new THEN 1 ELSE 0]
    BY <1>2 DEF Reporter!Report, Prints
  <2>2. new \subseteq Prints /\ new \subseteq {x, y}
    BY <1>2
  <2> HIDE DEF new
  <2>3. /\ posts' \in [Prints -> Nat]
        /\ \A f \in Prints : posts'[f] <= posts[f] + 1
        /\ SumFunctionOnSet(posts', Prints) <= Sum + (IF x = y THEN 1 ELSE 2)
    BY <2>1, <2>2, PostsChange
  <2>4. SumFunctionOnSet(posts', Prints) \in Nat
    BY <2>3, ReportConstants, SumNat
  <2>5. errors' = errors + 1 /\ errors' \in 0..MaxErrors
    BY <1>0, <1>2 DEF Reporter!Occurs
  <2>6. /\ spawned' \in [{"waiting", "running"} -> Nat]
        /\ spawned'["running"] = spawned["running"]
        /\ spawned'["waiting"] = spawned["waiting"] + n
    BY <1>0, <1>2
  <2>7. \A f \in Prints : posts'[f] <= errors'
    <3> TAKE f \in Prints
    <3>1. posts'[f] <= posts[f] + 1 /\ posts[f] <= errors /\ posts[f] \in Nat /\ posts'[f] \in Nat
      BY <1>0, <2>3
    <3> QED
      BY <1>0, <2>5, <3>1
  <2>8. SumFunctionOnSet(posts', Prints) <= Sum + 2
    BY <1>0, <2>3, <2>4
  <2> HIDE DEF Sum
  <2>9. 3 * SumFunctionOnSet(posts', Prints) + spawned'["waiting"] + spawned'["running"]
            + recorded'["browser"] + recorded'["server"] <= 10 * errors'
    BY <1>0, <1>2, <2>4, <2>5, <2>6, <2>8
  <2>10. recent' \subseteq Prints
    BY <2>1, <2>2 DEF ReportsInv
  <2>11. Prints' = Prints
    BY DEF Prints, Reporter!Fingerprints
  <2> QED
    BY <1>0, <1>2, <2>3, <2>5, <2>6, <2>7, <2>9, <2>10, <2>11 DEF ReportsInv, Recordings
<1>3. ASSUME NEW m \in Messages, Reporter!RequestFails(m)
      PROVE  ReportsInv'
  <2>1. PICK byDialog \in BOOLEAN, n \in 0..4 :
          /\ Reporter!Report({<<"ApiError", m>>} \cup
                             IF byDialog THEN {<<"Server", m>>} ELSE {})
          /\ Reporter!Spawn(n)
    BY <1>3 DEF Reporter!RequestFails, Reporter!LoggedByRequest
  <2> DEFINE fs == {<<"ApiError", m>>} \cup IF byDialog THEN {<<"Server", m>>} ELSE {}
  <2>2. fs \subseteq {<<"ApiError", m>>, <<"Server", m>>} /\ fs \in SUBSET Prints
    BY DEF Prints, Reporter!Fingerprints, Reporter!ReportTypes
  <2>3. Reporter!Report(fs) /\ Reporter!Occurs /\ UNCHANGED recorded
    BY <1>3, <2>1 DEF Reporter!RequestFails
  <2>4. spawned' = [spawned EXCEPT !["waiting"] = spawned["waiting"] + n]
    BY <2>1 DEF Reporter!Spawn
  <2> HIDE DEF fs
  <2> QED
    BY <1>2, <2>2, <2>3, <2>4
<1>4. ASSUME NEW m \in Messages, Reporter!PageFails(m)
      PROVE  ReportsInv'
  <2>1. {<<"PromiseRejection", m>>} \in SUBSET Prints
    BY DEF Prints, Reporter!Fingerprints, Reporter!ReportTypes
  <2>2. /\ Reporter!Report({<<"PromiseRejection", m>>}) /\ Reporter!Occurs
        /\ UNCHANGED recorded
        /\ spawned' = [spawned EXCEPT !["waiting"] = spawned["waiting"] + 0]
    BY <1>0, <1>4 DEF Reporter!PageFails
  <2> QED
    BY <1>2, <2>1, <2>2
<1>5. ASSUME NEW f \in Prints, Reporter!Forget(f)
      PROVE  ReportsInv'
  <2>1. UNCHANGED <<errors, posts, spawned, recorded>> /\ recent' \subseteq recent
    BY <1>5 DEF Reporter!Forget
  <2>2. Prints' = Prints
    BY DEF Prints, Reporter!Fingerprints
  <2> QED
    BY <2>1, <2>2 DEF ReportsInv, Recordings
\* A step that records, drops or moves on, or logs what a report can cause.
<1>6. ASSUME UNCHANGED <<errors, recent>>,
             posts' \in [Prints -> Nat], \A f \in Prints : posts'[f] <= posts[f],
             spawned' \in [{"waiting", "running"} -> Nat],
             recorded' \in [{"browser", "server"} -> Nat],
             3 * SumFunctionOnSet(posts', Prints) + spawned'["waiting"] + spawned'["running"]
                 + recorded'["browser"] + recorded'["server"]
             <= 3 * Sum + spawned["waiting"] + spawned["running"]
                 + recorded["browser"] + recorded["server"]
      PROVE  ReportsInv'
  <2>1. \A f \in Prints : posts'[f] <= errors
    <3> TAKE f \in Prints
    <3>1. posts[f] \in Nat /\ posts'[f] \in Nat /\ posts[f] <= errors /\ posts'[f] <= posts[f]
      BY <1>0, <1>6
    <3> QED
      BY <1>0, <3>1
  <2>2. Prints' = Prints
    BY DEF Prints, Reporter!Fingerprints
  <2>3. SumFunctionOnSet(posts', Prints) \in Nat
    BY <1>6, ReportConstants, SumNat
  <2>4. /\ spawned'["waiting"] \in Nat /\ spawned'["running"] \in Nat
        /\ recorded'["browser"] \in Nat /\ recorded'["server"] \in Nat
    BY <1>6
  <2> HIDE DEF Sum
  <2>5. 3 * SumFunctionOnSet(posts', Prints) + spawned'["waiting"] + spawned'["running"]
            + recorded'["browser"] + recorded'["server"] <= 10 * errors
    BY <1>0, <1>6, <2>3, <2>4
  <2> QED
    BY <1>6, <2>1, <2>2, <2>5 DEF ReportsInv, Recordings
<1>7. ASSUME NEW f \in Prints, Reporter!PostEnds(f)
      PROVE  ReportsInv'
  <2>1. /\ posts' \in [Prints -> Nat] /\ \A g \in Prints : posts'[g] <= posts[g]
        /\ SumFunctionOnSet(posts', Prints) = Sum - 1
    BY <1>7, PostEnded DEF Reporter!PostEnds, Reporter!PostLost, Reporter!PostRecorded,
       Reporter!PostFails
  <2>2. CASE Reporter!PostLost(f)
    <3>1. UNCHANGED <<errors, recent, spawned, recorded>>
      BY <2>2 DEF Reporter!PostLost
    <3> QED
      BY <1>0, <1>6, <2>1, <3>1
  <2>3. CASE Reporter!PostRecorded(f)
    <3>1. PICK slow \in 0..1 :
              spawned' = [spawned EXCEPT !["waiting"] = spawned["waiting"] + slow]
      BY <2>3 DEF Reporter!PostRecorded, Reporter!Spawn
    <3>2. /\ UNCHANGED <<errors, recent>>
          /\ recorded' = [recorded EXCEPT !["browser"] = recorded["browser"] + 1]
      BY <2>3 DEF Reporter!PostRecorded
    <3>3. /\ spawned' \in [{"waiting", "running"} -> Nat]
          /\ spawned'["waiting"] = spawned["waiting"] + slow
          /\ spawned'["running"] = spawned["running"]
      BY <1>0, <3>1
    <3>4. /\ recorded' \in [{"browser", "server"} -> Nat]
          /\ recorded'["browser"] = recorded["browser"] + 1
          /\ recorded'["server"] = recorded["server"]
      BY <1>0, <3>2
    <3> QED
      BY <1>0, <1>6, <2>1, <3>2, <3>3, <3>4
  <2>4. CASE Reporter!PostFails(f)
    <3>1. PICK slow \in 0..1 :
              spawned' = [spawned EXCEPT !["waiting"] = spawned["waiting"] + (2 + slow)]
      BY <2>4 DEF Reporter!PostFails, Reporter!Spawn
    <3>2. UNCHANGED <<errors, recent, recorded>>
      BY <2>4 DEF Reporter!PostFails
    <3>3. /\ spawned' \in [{"waiting", "running"} -> Nat]
          /\ spawned'["waiting"] = spawned["waiting"] + (2 + slow)
          /\ spawned'["running"] = spawned["running"]
      BY <1>0, <3>1
    <3> QED
      BY <1>0, <1>6, <2>1, <3>2, <3>3
  <2> QED
    BY <1>7, <2>2, <2>3, <2>4 DEF Reporter!PostEnds
<1>8. CASE Reporter!SpawnedRuns
  <2>1. /\ UNCHANGED <<errors, recent, posts, recorded>> /\ spawned["waiting"] > 0
        /\ spawned' = [spawned EXCEPT !["waiting"] = spawned["waiting"] - 1,
                                      !["running"] = spawned["running"] + 1]
    BY <1>8, <1>0 DEF Reporter!SpawnedRuns
  <2>2. /\ spawned' \in [{"waiting", "running"} -> Nat]
        /\ spawned'["waiting"] = spawned["waiting"] - 1
        /\ spawned'["running"] = spawned["running"] + 1
    BY <1>0, <2>1
  <2>3. \A f \in Prints : posts'[f] <= posts[f]
    BY <1>0, <2>1
  <2> QED
    BY <1>0, <1>6, <2>1, <2>2, <2>3
<1>9. CASE Reporter!SpawnedEnds
  <2>1. /\ UNCHANGED <<errors, recent, posts>> /\ spawned["running"] > 0
        /\ spawned' = [spawned EXCEPT !["running"] = spawned["running"] - 1]
        /\ \/ UNCHANGED recorded
           \/ recorded' = [recorded EXCEPT !["server"] = recorded["server"] + 1]
    BY <1>9 DEF Reporter!SpawnedEnds, Reporter!SpawnedRecorded, Reporter!SpawnedFails
  <2>2. /\ spawned' \in [{"waiting", "running"} -> Nat]
        /\ spawned'["waiting"] = spawned["waiting"]
        /\ spawned'["running"] = spawned["running"] - 1
    BY <1>0, <2>1
  <2>3. /\ recorded' \in [{"browser", "server"} -> Nat]
        /\ recorded'["browser"] = recorded["browser"]
        /\ recorded'["server"] \in {recorded["server"], recorded["server"] + 1}
    BY <1>0, <2>1
  <2>4. \A f \in Prints : posts'[f] <= posts[f]
    BY <1>0, <2>1
  <2> QED
    BY <1>0, <1>6, <2>1, <2>2, <2>3, <2>4
<1>10. CASE Reporter!RequestLogged
  <2>1. PICK n \in 1..4 :
            spawned' = [spawned EXCEPT !["waiting"] = spawned["waiting"] + n]
    BY <1>10 DEF Reporter!RequestLogged, Reporter!Spawn, Reporter!LoggedByRequest
  <2>2. UNCHANGED <<recent, posts, recorded>> /\ errors' = errors + 1 /\ errors < MaxErrors
    BY <1>10 DEF Reporter!RequestLogged, Reporter!Occurs
  <2>3. /\ spawned' \in [{"waiting", "running"} -> Nat]
        /\ spawned'["waiting"] = spawned["waiting"] + n
        /\ spawned'["running"] = spawned["running"]
    BY <1>0, <2>1
  <2>4. errors' \in 0..MaxErrors /\ \A f \in Prints : posts'[f] <= errors'
    BY <1>0, <2>2
  <2> HIDE DEF Sum
  <2>5. 3 * Sum + spawned'["waiting"] + spawned'["running"]
            + recorded["browser"] + recorded["server"] <= 10 * errors'
    BY <1>0, <2>2, <2>3
  <2>6. Prints' = Prints
    BY DEF Prints, Reporter!Fingerprints
  <2> QED
    BY <1>0, <2>2, <2>3, <2>4, <2>5, <2>6 DEF ReportsInv, Recordings, Sum
<1> QED
  BY <1>1, <1>3, <1>4, <1>5, <1>7, <1>8, <1>9, <1>10 DEF Reporter!Next, Prints

LEMMA ReportsAreTyped == ReportsInv => Reporter!TypeOK
<1> SUFFICES ASSUME ReportsInv
             PROVE  Reporter!TypeOK
  OBVIOUS
<1> DEFINE Sum == SumFunctionOnSet(posts, Prints)
<1>1. /\ errors \in 0..MaxErrors /\ MaxErrors \in Nat /\ errors \in Nat /\ errors <= MaxErrors
      /\ posts \in [Prints -> Nat] /\ Sum \in Nat
      /\ spawned \in [{"waiting", "running"} -> Nat]
      /\ recorded \in [{"browser", "server"} -> Nat]
      /\ spawned["waiting"] \in Nat /\ spawned["running"] \in Nat
      /\ recorded["browser"] \in Nat /\ recorded["server"] \in Nat
      /\ 3 * Sum + spawned["waiting"] + spawned["running"]
             + recorded["browser"] + recorded["server"] <= 10 * errors
      /\ \A f \in Prints : posts[f] <= errors
  BY ReportConstants, SumNat DEF ReportsInv, Recordings
<1> HIDE DEF Sum
<1>2. /\ spawned["waiting"] \in 0..10 * MaxErrors /\ spawned["running"] \in 0..10 * MaxErrors
      /\ recorded["browser"] \in 0..10 * MaxErrors /\ recorded["server"] \in 0..10 * MaxErrors
  BY <1>1
<1>3. posts \in [Prints -> 0..MaxErrors]
  BY <1>1
<1>4. Reporter!MaxRecordings = 10 * MaxErrors
  BY <1>1 DEF Reporter!MaxRecordings, Reporter!LoggedByRequest, Reporter!LoggedByReport
<1> QED
  BY <1>1, <1>2, <1>3, <1>4 DEF ReportsInv, Reporter!TypeOK, Prints

-----------------------------------------------------------------------------
(* All that surrounds the pages *)

\* Every user, page and answer is one the code can have there, and what is
\* recorded, of errors, of what the server logs of them and of the reports, is
\* at most ten rows for each error, however the recording fails or lags.
THEOREM ShellIsTyped == ShellSpec => []ShellTyped
<1> DEFINE ShellInv == IInv /\ CardInv /\ ReportsInv
<1>1. ShellInit => ShellInv
  BY Initially, InitCards, InitReports, ShellAssumption DEF ShellInit, ShellAssumption
<1>2. ShellInv /\ [ShellNext]_shellVars => ShellInv'
  BY Inductive, NextCards, NextReports, ShellSteps, ShellAssumption DEF ShellAssumption
<1>3. ShellInv => ShellTyped
  BY ReportsAreTyped DEF IInv, CardInv, ShellTyped
<1> QED
  BY <1>1, <1>2, <1>3, PTL DEF ShellSpec
=============================================================================
