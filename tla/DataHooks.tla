----------------------------- MODULE DataHooks -----------------------------
(***************************************************************************)
(* The hooks of hooks/data: one cached query per resource, and mutations   *)
(* that write on the server and then invalidate queries.  A resource is    *)
(* its version number: how many writes it has seen.                        *)
(***************************************************************************)
EXTENDS QueryCache, Integers

CONSTANTS
    None,
    Keys,           \* the queries of the instance
    Mutations,      \* the mutations of the instance
    MaxVersion,     \* bound: writes per resource
    MaxFocus        \* bound: times the window is focused or a query expires

ASSUME HooksAssumption ==
    /\ None \notin Int
    /\ Mutations \subseteq {"transfer", "deposit", "pay", "status", "create_invoice",
                           "create_recipient", "delete_recipient"}
    /\ MaxVersion \in Nat /\ MaxFocus \in Nat

VARIABLES
    version,    \* resource -> its version on the server
    cache,      \* query -> its entry
    mounted,    \* the queries that components on the screen use
    sent,       \* mutation -> "idle", "sent", "done" (it took effect)
    wrote,      \* mutation -> the versions that its write created
    owed,       \* query -> the newest version that a write was acknowledged for
    overtaken,  \* query -> what of it was read before an acknowledged write
    focuses

vars == <<version, cache, mounted, sent, wrote, owed, overtaken, focuses>>

Version == Nat \cup {None}
NoWrite == [k \in Keys |-> 0]

TypeOK ==
    /\ version \in [Keys -> Nat]
    /\ cache \in [Keys -> EntryOver(Version)]
    /\ mounted \subseteq Keys
    /\ sent \in [Mutations -> {"idle", "sent", "done"}]
    /\ wrote \in [Mutations -> [Keys -> Nat]]
    /\ owed \in [Keys -> Nat] /\ overtaken \in [Keys -> Overtaking]
    /\ focuses \in Nat

Init ==
    /\ version = [k \in Keys |-> 0]
    /\ cache = [k \in Keys |-> NoEntry(None)]
    /\ mounted = {}
    /\ sent = [m \in Mutations |-> "idle"]
    /\ wrote = [m \in Mutations |-> NoWrite]
    /\ owed = NoWrite /\ overtaken = [k \in Keys |-> "no"]
    /\ focuses = 0

-----------------------------------------------------------------------------
(* What a mutation writes on the server, and what its hook invalidates. *)

Touches == [transfer |-> {"accounts", "transactions"},
            deposit |-> {"accounts", "transactions"},
            pay |-> {"invoices", "accounts", "transactions"},
            status |-> {"invoices"}, create_invoice |-> {"invoices"},
            create_recipient |-> {"recipients"}, delete_recipient |-> {"recipients"}]

TransferInvalidates == {"accounts", "transactions"}
DepositInvalidates == {"accounts", "transactions"}
PayInvalidates == {"invoices", "accounts", "transactions"}
CreateInvoiceInvalidates == {"invoices"}
StatusInvalidates == {"invoices"}
CreateRecipientInvalidates == {"recipients"}
DeleteRecipientInvalidates == {"recipients"}

\* Regression: paying an invoice only refreshes the invoices.
InvalidatesWithoutMoney ==
    [transfer |-> TransferInvalidates, deposit |-> DepositInvalidates,
     pay |-> StatusInvalidates, status |-> StatusInvalidates,
     create_invoice |-> CreateInvoiceInvalidates,
     create_recipient |-> CreateRecipientInvalidates,
     delete_recipient |-> DeleteRecipientInvalidates]

Invalidates ==
    [transfer |-> TransferInvalidates, deposit |-> DepositInvalidates,
     pay |-> PayInvalidates, status |-> StatusInvalidates,
     create_invoice |-> CreateInvoiceInvalidates,
     create_recipient |-> CreateRecipientInvalidates,
     delete_recipient |-> DeleteRecipientInvalidates]

-----------------------------------------------------------------------------
(* Queries *)

KeepMutations == UNCHANGED <<version, sent, wrote, owed>>

Mount(k) ==
    /\ k \notin mounted
    /\ mounted' = mounted \cup {k}
    /\ cache' = [cache EXCEPT ![k] = MountQuery(@, None)]
    /\ KeepMutations /\ UNCHANGED <<overtaken, focuses>>

\* The page is left; a fetch in flight goes on.
Unmount(k) ==
    /\ k \in mounted
    /\ mounted' = mounted \ {k}
    /\ KeepMutations /\ UNCHANGED <<cache, overtaken, focuses>>

\* Regression: the status is not looked at, and a refusal counts as data.
ReadQueryUnchecked(k) ==
    /\ cache[k].fetch = "sent"
    /\ cache' = [cache EXCEPT ![k] = Read(@, -1)]
    /\ KeepMutations /\ UNCHANGED <<mounted, overtaken, focuses>>

\* The server reads; a refusal is thrown, and is FailQuery.
ReadQuery(k) ==
    /\ cache[k].fetch = "sent"
    /\ cache' = [cache EXCEPT ![k] = Read(@, version[k])]
    /\ KeepMutations /\ UNCHANGED <<mounted, overtaken, focuses>>

ArriveQuery(k) ==
    /\ cache[k].fetch = "read"
    /\ cache' = [cache EXCEPT ![k] = Arrive(@, None)]
    /\ overtaken' = [overtaken EXCEPT ![k] = OvertakenOnArrive(@)]
    /\ KeepMutations /\ UNCHANGED <<mounted, focuses>>

FailQuery(k) ==
    /\ ~Idle(cache[k])
    /\ cache' = [cache EXCEPT ![k] = Fail(@, None)]
    /\ overtaken' = [overtaken EXCEPT ![k] = OvertakenOnFail(@)]
    /\ KeepMutations /\ UNCHANGED <<mounted, focuses>>

\* staleTime passes.
Expire(k) ==
    /\ ~cache[k].stale /\ focuses < MaxFocus
    /\ cache' = [cache EXCEPT ![k].stale = TRUE]
    /\ focuses' = focuses + 1
    /\ KeepMutations /\ UNCHANGED <<mounted, overtaken>>

\* refetchOnWindowFocus: "always"
Focus ==
    /\ mounted # {} /\ focuses < MaxFocus
    /\ cache' = [k \in Keys |-> IF k \in mounted THEN Start(cache[k], None) ELSE cache[k]]
    /\ focuses' = focuses + 1
    /\ KeepMutations /\ UNCHANGED <<mounted, overtaken>>

-----------------------------------------------------------------------------
(* Mutations *)

Send(m) ==
    /\ sent[m] = "idle"
    /\ sent' = [sent EXCEPT ![m] = "sent"]
    /\ UNCHANGED <<version, cache, mounted, wrote, owed, overtaken, focuses>>

\* The server commits the write.
Execute(m) ==
    /\ sent[m] = "sent"
    /\ \A k \in Touches[m] \cap Keys : version[k] < MaxVersion
    /\ version' = [k \in Keys |-> IF k \in Touches[m] THEN version[k] + 1 ELSE version[k]]
    /\ wrote' = [wrote EXCEPT ![m] = version']
    /\ sent' = [sent EXCEPT ![m] = "done"]
    /\ UNCHANGED <<cache, mounted, owed, overtaken, focuses>>

\* What every list owes the user from now on, whether it is on the screen or not.
Acknowledged(m) ==
    [k \in Keys |-> IF k \in Touches[m] /\ wrote[m][k] > owed[k] THEN wrote[m][k]
                    ELSE owed[k]]

\* onSuccess, in the hook: it runs although the page may be gone.
Succeed(m) ==
    /\ sent[m] = "done"
    /\ sent' = [sent EXCEPT ![m] = "idle"]
    /\ cache' = [k \in Keys |-> IF k \in Invalidates[m]
                                THEN Invalidate(cache[k], k \in mounted, None)
                                ELSE cache[k]]
    /\ owed' = Acknowledged(m)
    /\ overtaken' =
          [k \in Keys |-> IF k \in Invalidates[m]
                          THEN OvertakenOnInvalidate(overtaken[k], cache[k], k \in mounted,
                                                     cache[k].got < owed'[k], None)
                          ELSE overtaken[k]]
    /\ wrote' = [wrote EXCEPT ![m] = NoWrite]
    /\ UNCHANGED <<version, mounted, focuses>>

\* The server refused, or the request or its answer was lost.
FailMutation(m) ==
    /\ sent[m] # "idle"
    /\ sent' = [sent EXCEPT ![m] = "idle"]
    /\ wrote' = [wrote EXCEPT ![m] = NoWrite]
    /\ UNCHANGED <<version, cache, mounted, owed, overtaken, focuses>>

Ends(k) == ArriveQuery(k) \/ FailQuery(k)

Next ==
    \/ \E k \in Keys : Mount(k) \/ Unmount(k) \/ ReadQuery(k) \/ Ends(k) \/ Expire(k)
    \/ \E m \in Mutations : Send(m) \/ Execute(m) \/ Succeed(m) \/ FailMutation(m)
    \/ Focus

Spec == Init /\ [][Next]_vars

\* The server answers a fetch, or the browser gives it up after its retries.
FairSpec == Spec /\ \A k \in Keys : WF_vars(ReadQuery(k)) /\ WF_vars(Ends(k))

-----------------------------------------------------------------------------
(* Properties *)

\* Once the user has been told that a write succeeded, a list that counts as
\* fresh contains it, on the screen or not and in whatever order answers arrive,
\* with one exception: its answer was under way, read before the write, when the
\* write was acknowledged, and its page had been left or had nothing to show yet.
\* A list on the screen asks again instead, and drops the answer under way.
FreshIncludesAcknowledged ==
    \A k \in Keys :
        /\ ~cache[k].stale /\ overtaken[k] # "data"
               => cache[k].data # None /\ cache[k].data >= owed[k]
        /\ cache[k].fetch = "read" /\ overtaken[k] # "answer" => cache[k].got >= owed[k]

\* Nobody has to reload: what was acknowledged gets on the screen, unless the
\* page is left, the query reports an error, or its answer was overtaken.
AcknowledgedIsShown ==
    \A k \in Keys : \A v \in 1..MaxVersion :
        owed[k] >= v /\ overtaken[k] = "no"
            ~> \/ k \notin mounted
               \/ cache[k].data # None /\ cache[k].data >= v
               \/ cache[k].error

-----------------------------------------------------------------------------
(* Known not to hold; see the README *)

\* No list that counts as fresh misses a write that was acknowledged.
FreshIsComplete == \A k \in Keys : ~cache[k].stale => cache[k].data >= owed[k]
=============================================================================
