------------------------------ MODULE Session ------------------------------
(***************************************************************************)
(* Signing in and out, in one browser: the cookie, the session check that  *)
(* the router makes before it shows a page, and the queries that keep what *)
(* they fetched with the cookie of their time.                             *)
(***************************************************************************)
EXTENDS QueryCache, Integers

CONSTANTS
    Users,
    Roots,          \* the users with role Root
    Admins,         \* the users with role Admin
    Nobody,         \* null
    NoData,         \* undefined: nothing fetched yet
    MaxFocus        \* bound: times the window is focused or a query expires

SessionAssumption ==
    /\ Roots \subseteq Users /\ Admins \subseteq Users /\ Roots \cap Admins = {}
    /\ Nobody \notin Users /\ NoData \notin Users \cup {Nobody}
    /\ MaxFocus \in Nat

Protected == {"dashboard", "users", "admin"}
Pages == Protected \cup {"login", "error"}
Someone == Users \cup {Nobody}

VARIABLES
    cookie,     \* whose session cookie the browser holds
    page,       \* the page on the screen
    user,       \* what beforeLoad of the root route put in the route's context
    nav,        \* the navigation under way; refused: the page that redirected
    form,       \* the sign-in form: its step, the address typed, its error
    leaving,    \* a sign-out is under way
    me,         \* the entry of the query "me", which the top bar always uses
    accounts,   \* the entry of the query "accounts", used on the dashboard
    focuses

vars == <<cookie, page, user, nav, form, leaving, me, accounts, focuses>>
routeVars == <<page, user, nav>>

TypeOK ==
    /\ cookie \in Someone /\ user \in Someone
    /\ page \in Pages
    /\ nav \in [to: Pages, step: {"idle", "asked", "read"}, got: Someone,
                refused: Pages \cup {"none"}]
    /\ form \in [step: {"idle", "posting", "settling"}, email: Someone,
                 error: BOOLEAN]
    /\ leaving \in BOOLEAN
    /\ me \in EntryOver(Someone \cup {NoData})
    /\ accounts \in EntryOver(Users \cup {NoData})
    /\ focuses \in Nat

At(p) == [to |-> p, step |-> "idle", got |-> Nobody, refused |-> "none"]
EmptyForm == [step |-> "idle", email |-> Nobody, error |-> FALSE]

\* The login page is public: it is shown without a check, and Nav asks for me.
Init ==
    /\ cookie = Nobody
    /\ page = "login" /\ user = Nobody /\ nav = At("login")
    /\ form = EmptyForm
    /\ leaving = FALSE
    /\ me = MountQuery(NoEntry(NoData), NoData)
    /\ accounts = NoEntry(NoData)
    /\ focuses = 0

-----------------------------------------------------------------------------
(* Permissions, in the browser and on the server *)

ListAll(u) == u \in Roots
ViewBugReports(u) == u \in Roots \cup Admins

\* Extractor of the handler that lists the users.
AdminUser(u) == u \in Roots \cup Admins

\* beforeLoad of the child routes.
Allowed(p, u) ==
    /\ p = "users" => ListAll(u)
    /\ p = "admin" => ViewBugReports(u)

-----------------------------------------------------------------------------
(* Navigation: the root route asks the server who is signed in *)

NavigateTo(p, refused) ==
    IF p \in Protected
    THEN /\ nav' = [At(p) EXCEPT !.step = "asked", !.refused = refused]
         /\ UNCHANGED <<page, user>>
    ELSE nav' = At(p) /\ page' = p /\ user' = Nobody

\* A handleSubmit that is under way goes on although its page is gone; until it
\* has ended, nobody submits another one.
FreshForm == IF form.step = "idle" THEN EmptyForm ELSE form

\* A link, or the browser's Back button; a check under way is forgotten.
Navigate(p) ==
    /\ \/ p \in Protected
       \/ p = "login" /\ page = "admin" /\ me.data = Nobody     \* UserMenu: Sign in
    /\ NavigateTo(p, "none")
    /\ form' = IF p = "login" THEN FreshForm ELSE form
    /\ UNCHANGED <<cookie, leaving, me, accounts, focuses>>

\* Regression: the check trusts the user that the top bar knows already.
CheckReadCached ==
    /\ nav.step = "asked"
    /\ nav' = [nav EXCEPT !.step = "read",
                          !.got = IF me.data \in Users THEN me.data ELSE cookie]
    /\ UNCHANGED <<cookie, page, user, form, leaving, me, accounts, focuses>>

\* getSessionUser: no cookie, or an answer that is not ok, means nobody.
CheckRead ==
    /\ nav.step = "asked"
    /\ nav' = [nav EXCEPT !.step = "read", !.got = cookie]
    /\ UNCHANGED <<cookie, page, user, form, leaving, me, accounts, focuses>>

\* The request throws: errorComponent takes the place of the page.
CheckFails ==
    /\ nav.step \in {"asked", "read"}
    /\ page' = "error" /\ user' = Nobody
    /\ nav' = At("error")
    /\ UNCHANGED <<cookie, form, leaving, me, accounts, focuses>>

\* Regression: a page opens although its guard redirects.
CheckEndsOpen ==
    /\ nav.step = "read"
    /\ page' = nav.to /\ user' = nav.got
    /\ nav' = [nav EXCEPT !.step = "idle"]
    /\ UNCHANGED <<cookie, form, leaving, me, accounts, focuses>>

\* The children's beforeLoad is not reached when the root one redirects.
CheckEnds ==
    /\ nav.step = "read"
    /\ CASE nav.got = Nobody ->
              NavigateTo("login", "none") /\ form' = FreshForm /\ UNCHANGED accounts
         [] nav.got # Nobody /\ ~Allowed(nav.to, nav.got) ->
              NavigateTo("dashboard", nav.to) /\ UNCHANGED <<form, accounts>>
         [] OTHER ->
              /\ page' = nav.to /\ user' = nav.got
              /\ nav' = [nav EXCEPT !.step = "idle"]
              /\ accounts' = IF nav.to = "dashboard" /\ page # "dashboard"
                             THEN MountQuery(accounts, NoData) ELSE accounts
              /\ UNCHANGED form
    /\ UNCHANGED <<cookie, leaving, me, focuses>>

-----------------------------------------------------------------------------
(* The sign-in page *)

\* handleSubmit posts the address and the password.  Bound: it is not pressed
\* again while the check of a page that was asked for is under way.
HandleSubmit(u) ==
    /\ page = "login" /\ form.step = "idle" /\ nav.step = "idle"
    /\ form' = [step |-> "posting", email |-> u, error |-> FALSE]
    /\ UNCHANGED <<cookie, routeVars, leaving, me, accounts, focuses>>

\* Invalid credentials, or a network error; the button can be pressed again.
SubmitFails ==
    /\ form.step = "posting"
    /\ form' = [form EXCEPT !.step = "idle", !.error = TRUE]
    /\ UNCHANGED <<cookie, routeVars, leaving, me, accounts, focuses>>

\* The answer sets the cookie; me is invalidated, and its answer awaited.
SubmitAnswered ==
    /\ form.step = "posting"
    /\ cookie' = form.email
    /\ me' = Invalidate(me, TRUE, NoData)
    /\ form' = [form EXCEPT !.step = "settling"]
    /\ UNCHANGED <<routeVars, leaving, accounts, focuses>>

\* Regression: the form waits for a user that a failed fetch never brings.
SubmitEndsKnown ==
    /\ form.step = "settling" /\ Idle(me) /\ ~me.error
    /\ form' = [form EXCEPT !.step = "idle"]
    /\ NavigateTo("dashboard", "none")
    /\ UNCHANGED <<cookie, leaving, me, accounts, focuses>>

\* invalidateQueries resolves when the fetch has ended, even in an error.
SubmitEnds ==
    /\ form.step = "settling" /\ Idle(me)
    /\ form' = [form EXCEPT !.step = "idle"]
    /\ NavigateTo("dashboard", "none")
    /\ UNCHANGED <<cookie, leaving, me, accounts, focuses>>

-----------------------------------------------------------------------------
(* Signing out: handleLogout of NavUser and of UserMenu *)

HandleLogout ==
    /\ page \in Protected /\ ~leaving
    /\ leaving' = TRUE
    /\ UNCHANGED <<cookie, routeVars, form, me, accounts, focuses>>

\* Only me is overwritten; what the other queries fetched stays.  Whether the
\* server refused, and so left the cookie, is not looked at.
LogoutAnswered ==
    /\ leaving
    /\ leaving' = FALSE
    /\ cookie' \in {Nobody, cookie}
    /\ me' = SetData(me, Nobody)
    /\ NavigateTo("login", "none") /\ form' = FreshForm
    /\ UNCHANGED <<accounts, focuses>>

\* The request rejects, and nothing after it runs.
LogoutFails ==
    /\ leaving
    /\ leaving' = FALSE
    /\ UNCHANGED <<cookie, routeVars, form, me, accounts, focuses>>

\* The cookie reaches its maximal age.
SessionExpires ==
    /\ cookie # Nobody /\ focuses < MaxFocus
    /\ cookie' = Nobody
    /\ focuses' = focuses + 1
    /\ UNCHANGED <<routeVars, form, leaving, me, accounts>>

-----------------------------------------------------------------------------
(* Queries: a request carries the cookie that is there when it leaves *)

ReadMe ==
    /\ me.fetch = "sent"
    /\ me' = Read(me, cookie)
    /\ UNCHANGED <<cookie, routeVars, form, leaving, accounts, focuses>>

MeEnds ==
    /\ me' \in {Arrive(me, NoData), Fail(me, NoData)}
    /\ ~Idle(me) /\ (me'.error \/ me.fetch = "read")
    /\ UNCHANGED <<cookie, routeVars, form, leaving, accounts, focuses>>

\* Regression: r.ok is not looked at, and a refusal is taken for accounts.
ReadAccountsUnchecked ==
    /\ accounts.fetch = "sent"
    /\ accounts' = Read(accounts, cookie)
    /\ UNCHANGED <<cookie, routeVars, form, leaving, me, focuses>>

\* Without a cookie the server refuses: r.ok is false, and the query fails.
ReadAccounts ==
    /\ accounts.fetch = "sent" /\ cookie # Nobody
    /\ accounts' = Read(accounts, cookie)
    /\ UNCHANGED <<cookie, routeVars, form, leaving, me, focuses>>

AccountsEnd ==
    /\ accounts' \in {Arrive(accounts, NoData), Fail(accounts, NoData)}
    /\ ~Idle(accounts) /\ (accounts'.error \/ accounts.fetch = "read")
    /\ UNCHANGED <<cookie, routeVars, form, leaving, me, focuses>>

\* staleTime of the accounts passes.
Expire ==
    /\ ~accounts.stale /\ focuses < MaxFocus
    /\ accounts' = [accounts EXCEPT !.stale = TRUE]
    /\ focuses' = focuses + 1
    /\ UNCHANGED <<cookie, routeVars, form, leaving, me>>

\* refetchOnWindowFocus: "always"
Focus ==
    /\ focuses < MaxFocus
    /\ me' = Start(me, NoData)
    /\ accounts' = IF page = "dashboard" THEN Start(accounts, NoData) ELSE accounts
    /\ focuses' = focuses + 1
    /\ UNCHANGED <<cookie, routeVars, form, leaving>>

Next ==
    \/ \E p \in Pages : Navigate(p)
    \/ CheckRead \/ CheckFails \/ CheckEnds
    \/ \E u \in Users : HandleSubmit(u)
    \/ SubmitFails \/ SubmitAnswered \/ SubmitEnds
    \/ HandleLogout \/ LogoutAnswered \/ LogoutFails \/ SessionExpires
    \/ ReadMe \/ MeEnds \/ ReadAccounts \/ AccountsEnd \/ Expire \/ Focus

Spec == Init /\ [][Next]_vars

\* Every request ends, and what was awaited then goes on.
FairSpec ==
    /\ Spec
    /\ WF_vars(SubmitFails \/ SubmitAnswered) /\ WF_vars(SubmitEnds)
    /\ WF_vars(ReadMe) /\ WF_vars(MeEnds)

-----------------------------------------------------------------------------
(* Properties *)

\* Pages assert that the context has a user (user!), and a page behind a guard
\* has one whom the guard admits, however checks, redirects and sign-outs mix.
UserIsThere == page \in Protected => user \in Users /\ Allowed(page, user)

\* Once a sign-in and the navigations it causes have ended, the shell names the
\* user whose cookie every request carries, never one who was there before.
ShellNamesSession ==
    page \in Protected /\ nav.step = "idle" /\ form.step = "idle"
        => user = cookie \/ cookie = Nobody

\* handleSubmit's finally: the form does not stay in its loading state.
SubmitIsAnswered == form.step # "idle" ~> form.step = "idle"

-----------------------------------------------------------------------------
(* Known not to hold; see the README *)

\* "Mirrors Rust: UserPermission": whoever is turned away from the list of the
\* users would have been refused by the server too.
RefusedAsTheServer ==
    [][nav.refused # "users" /\ nav'.refused = "users" => ~AdminUser(nav.got)]_vars

\* At rest, the accounts that the dashboard shows are those of the user it names.
AccountsAreTheUsers ==
    page = "dashboard" /\ nav.step = "idle" /\ form.step = "idle" /\ user = cookie
        => accounts.data \in {user, NoData}
=============================================================================
