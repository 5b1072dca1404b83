--------------------------- MODULE DataHooksProofs ---------------------------
(***************************************************************************)
(* What holds of the data hooks for any set of queries and mutations, and  *)
(* any number of writes and focuses.                                       *)
(***************************************************************************)
EXTENDS DataHooks, QueryCacheProofs

\* What is owed, and what a mutation wrote, is on the server.
Written ==
    \A k \in Keys :
        /\ owed[k] <= version[k]
        /\ \A m \in Mutations : wrote[m][k] <= version[k]

\* An entry never holds, or brings, less than the user is owed, unless it was
\* overtaken; what is overtaken is an answer all the same.
EntryNewEnough(k) ==
    /\ ~cache[k].stale /\ overtaken[k] # "data"
           => cache[k].data \in Nat /\ cache[k].data >= owed[k]
    /\ cache[k].fetch = "read"
           => /\ cache[k].got \in Nat
              /\ overtaken[k] # "answer" => cache[k].got >= owed[k]

\* The inductive invariant.  Entries that are not on the screen are in it too:
\* they are shown again without a fetch while they are fresh.
IInv ==
    /\ TypeOK
    /\ Written
    /\ \A k \in Keys : EntryNewEnough(k)

\* A hook invalidates at least what its mutation writes.
LEMMA InvalidatesEnough ==
    \A m \in Mutations : Touches[m] \subseteq Invalidates[m]
BY HooksAssumption
   DEF Touches, Invalidates, TransferInvalidates, DepositInvalidates, PayInvalidates,
       StatusInvalidates, CreateInvoiceInvalidates, CreateRecipientInvalidates,
       DeleteRecipientInvalidates

LEMMA EntryAt ==
    ASSUME TypeOK, NEW k \in Keys
    PROVE  cache[k] \in EntryOver(Version) /\ None \in Version /\ version[k] \in Version
BY DEF TypeOK, Version

\* A step that touches one entry and what is owed nowhere: whatever the entry
\* holds afterwards, it held, or read from the server, before.
LEMMA OneEntry ==
    ASSUME IInv, NEW k \in Keys, NEW e \in EntryOver(Version), NEW o \in Overtaking,
           cache' = [cache EXCEPT ![k] = e], overtaken' = [overtaken EXCEPT ![k] = o],
           ~e.stale /\ o # "data" => e.data \in Nat /\ e.data >= owed[k],
           e.fetch = "read" => e.got \in Nat /\ (o # "answer" => e.got >= owed[k]),
           UNCHANGED owed
    PROVE  /\ cache' \in [Keys -> EntryOver(Version)]
           /\ overtaken' \in [Keys -> Overtaking]
           /\ \A j \in Keys : EntryNewEnough(j)'
<1>1. /\ cache \in [Keys -> EntryOver(Version)] /\ overtaken \in [Keys -> Overtaking]
      /\ \A j \in Keys : EntryNewEnough(j)
  BY DEF IInv, TypeOK
<1>2. \A j \in Keys : /\ cache'[j] = IF j = k THEN e ELSE cache[j]
                      /\ overtaken'[j] = IF j = k THEN o ELSE overtaken[j]
  BY <1>1
<1> QED
  BY <1>1, <1>2 DEF EntryNewEnough

\* The same, when the history of the entry stays.
LEMMA OneEntryOnly ==
    ASSUME IInv, NEW k \in Keys, NEW e \in EntryOver(Version),
           cache' = [cache EXCEPT ![k] = e], UNCHANGED overtaken,
           ~e.stale /\ overtaken[k] # "data" => e.data \in Nat /\ e.data >= owed[k],
           e.fetch = "read" => /\ e.got \in Nat
                               /\ overtaken[k] # "answer" => e.got >= owed[k],
           UNCHANGED owed
    PROVE  /\ cache' \in [Keys -> EntryOver(Version)]
           /\ overtaken' \in [Keys -> Overtaking]
           /\ \A j \in Keys : EntryNewEnough(j)'
<1>1. overtaken \in [Keys -> Overtaking]
  BY DEF IInv, TypeOK
<1>2. overtaken' = [overtaken EXCEPT ![k] = overtaken[k]] /\ overtaken[k] \in Overtaking
  BY <1>1
<1> QED
  BY <1>2, OneEntry

LEMMA QueryStep ==
    ASSUME IInv, NEW k \in Keys,
           Mount(k) \/ ReadQuery(k) \/ Ends(k) \/ Expire(k)
    PROVE  IInv'
<1> USE EntryAt
<1>0. TypeOK /\ EntryNewEnough(k) /\ cache[k] \in EntryOver(Version)
  BY DEF IInv
<1>1. /\ cache' \in [Keys -> EntryOver(Version)]
      /\ overtaken' \in [Keys -> Overtaking]
      /\ \A j \in Keys : EntryNewEnough(j)'
      /\ KeepMutations
  <2>1. CASE Mount(k)
    <3> DEFINE e == MountQuery(cache[k], None)
    <3>1. e \in EntryOver(Version)
      BY <1>0, EntryTyped
    <3>2. /\ e.data = cache[k].data /\ e.stale = cache[k].stale
          /\ e.fetch = "read" => cache[k].fetch = "read" /\ e.got = cache[k].got
      BY <1>0, StartKeeps
    <3>3. cache' = [cache EXCEPT ![k] = e] /\ UNCHANGED <<owed, overtaken>> /\ KeepMutations
      BY <2>1 DEF Mount, KeepMutations
    <3> HIDE DEF e
    <3> QED
      BY <1>0, <3>1, <3>2, <3>3, OneEntryOnly DEF EntryNewEnough
  <2>2. CASE ReadQuery(k)
    <3> DEFINE e == Read(cache[k], version[k])
    <3>1. e \in EntryOver(Version)
      BY <1>0, EntryTyped
    <3>2. e.data = cache[k].data /\ e.stale = cache[k].stale /\ e.got = version[k]
      BY <1>0, ReadBrings
    <3>3. cache' = [cache EXCEPT ![k] = e] /\ UNCHANGED <<owed, overtaken>> /\ KeepMutations
      BY <2>2 DEF ReadQuery, KeepMutations
    <3>4. version[k] \in Nat /\ owed[k] \in Nat /\ version[k] >= owed[k]
      BY DEF IInv, TypeOK, Written
    <3> HIDE DEF e
    <3> QED
      BY <1>0, <3>1, <3>2, <3>3, <3>4, OneEntryOnly DEF EntryNewEnough
  <2>3. CASE ArriveQuery(k)
    <3> DEFINE e == Arrive(cache[k], None)
           o == OvertakenOnArrive(overtaken[k])
    <3>1. e \in EntryOver(Version)
      BY <1>0, EntryTyped
    <3>2. e.data = cache[k].got /\ e.fetch = "idle"
      BY <1>0, ArriveBrings
    <3>3. /\ cache' = [cache EXCEPT ![k] = e]
          /\ overtaken' = [overtaken EXCEPT ![k] = o]
          /\ UNCHANGED owed /\ KeepMutations
      BY <2>3 DEF ArriveQuery, KeepMutations
    <3>4. cache[k].fetch = "read"
      BY <2>3 DEF ArriveQuery
    <3>5. o \in Overtaking /\ (o # "data" => overtaken[k] # "answer")
      BY <1>0, OvertakingTyped DEF TypeOK
    <3> HIDE DEF e, o
    <3> QED
      BY <1>0, <3>1, <3>2, <3>3, <3>4, <3>5, OneEntry DEF EntryNewEnough
  <2>4. CASE FailQuery(k)
    <3> DEFINE e == Fail(cache[k], None)
           o == OvertakenOnFail(overtaken[k])
    <3>1. e \in EntryOver(Version)
      BY <1>0, EntryTyped
    <3>2. e.data = cache[k].data /\ e.stale = cache[k].stale /\ e.fetch = "idle"
      BY <1>0, FailKeeps
    <3>3. /\ cache' = [cache EXCEPT ![k] = e]
          /\ overtaken' = [overtaken EXCEPT ![k] = o]
          /\ UNCHANGED owed /\ KeepMutations
      BY <2>4 DEF FailQuery, KeepMutations
    <3>4. o \in Overtaking /\ (o # "data" => overtaken[k] # "data")
      BY <1>0, OvertakingTyped DEF TypeOK
    <3> HIDE DEF e, o
    <3> QED
      BY <1>0, <3>1, <3>2, <3>3, <3>4, OneEntry DEF EntryNewEnough
  <2>5. CASE Expire(k)
    <3> DEFINE e == [cache[k] EXCEPT !.stale = TRUE]
    <3>1. /\ e \in EntryOver(Version) /\ e.stale
          /\ e.fetch = cache[k].fetch /\ e.got = cache[k].got
      BY <1>0 DEF EntryOver
    <3>2. cache' = [cache EXCEPT ![k] = e]
      BY <1>0, <2>5 DEF Expire, TypeOK
    <3>3. UNCHANGED <<owed, overtaken>> /\ KeepMutations
      BY <2>5 DEF Expire, KeepMutations
    <3> HIDE DEF e
    <3> QED
      BY <1>0, <3>1, <3>2, <3>3, OneEntryOnly DEF EntryNewEnough
  <2> QED
    BY <2>1, <2>2, <2>3, <2>4, <2>5 DEF Ends
<1>2. mounted' \subseteq Keys /\ mounted \subseteq mounted' /\ focuses' \in Nat
  BY <1>0 DEF TypeOK, Mount, ReadQuery, Ends, ArriveQuery, FailQuery, Expire
<1> QED
  BY <1>1, <1>2 DEF IInv, TypeOK, Written, KeepMutations

LEMMA UnmountStep ==
    ASSUME IInv, NEW k \in Keys, Unmount(k)
    PROVE  IInv'
<1>1. UNCHANGED <<version, cache, sent, wrote, owed, overtaken, focuses>>
      /\ mounted' = mounted \ {k}
  BY DEF Unmount, KeepMutations
<1> QED
  BY <1>1 DEF IInv, TypeOK, Written, EntryNewEnough

LEMMA FocusStep ==
    ASSUME IInv, Focus
    PROVE  IInv'
<1>1. \A k \in Keys :
        /\ cache'[k] \in EntryOver(Version)
        /\ EntryNewEnough(k)'
  <2> SUFFICES ASSUME NEW k \in Keys
               PROVE  cache'[k] \in EntryOver(Version) /\ EntryNewEnough(k)'
    OBVIOUS
  <2>1. cache[k] \in EntryOver(Version) /\ EntryNewEnough(k) /\ None \in Version
    BY EntryAt DEF IInv
  <2>2. cache'[k] \in {cache[k], Start(cache[k], None)} /\ UNCHANGED <<owed, overtaken>>
    BY DEF Focus, KeepMutations
  <2>3. CASE cache'[k] = cache[k]
    BY <2>1, <2>2, <2>3 DEF EntryNewEnough
  <2>4. CASE cache'[k] = Start(cache[k], None)
    <3> DEFINE e == Start(cache[k], None)
    <3>1. e \in EntryOver(Version)
      BY <2>1, EntryTyped
    <3>2. /\ e.data = cache[k].data /\ e.stale = cache[k].stale
          /\ e.fetch = "read" => cache[k].fetch = "read" /\ e.got = cache[k].got
      BY <2>1, StartKeeps
    <3> HIDE DEF e
    <3> QED
      BY <2>1, <2>2, <2>4, <3>1, <3>2 DEF EntryNewEnough, e
  <2> QED
    BY <2>2, <2>3, <2>4
<1>2. cache' \in [Keys -> EntryOver(Version)]
  BY <1>1 DEF Focus
<1> QED
  BY <1>1, <1>2 DEF IInv, TypeOK, Written, Focus, KeepMutations

\* A write only adds to what can be read.
LEMMA ExecuteStep ==
    ASSUME IInv, NEW m \in Mutations, Execute(m)
    PROVE  IInv'
<1>1. /\ version' \in [Keys -> Nat]
      /\ \A k \in Keys : version[k] <= version'[k]
  BY DEF IInv, TypeOK, Execute
<1>2. /\ wrote' \in [Mutations -> [Keys -> Nat]]
      /\ \A n \in Mutations : wrote'[n] = IF n = m THEN version' ELSE wrote[n]
  BY <1>1 DEF IInv, TypeOK, Execute
<1>3. TypeOK'
  BY <1>1, <1>2 DEF IInv, TypeOK, Execute
<1>4. Written'
  BY <1>1, <1>2 DEF IInv, TypeOK, Written, Execute
<1> QED
  BY <1>3, <1>4 DEF IInv, EntryNewEnough, Execute

\* What is owed anew was written, and every list that owes it asks again, or is
\* overtaken.
LEMMA SucceedStep ==
    ASSUME IInv, NEW m \in Mutations, Succeed(m)
    PROVE  IInv'
<1>1. \A k \in Keys :
        /\ owed'[k] \in Nat /\ owed'[k] <= version[k]
        /\ k \notin Touches[m] => owed'[k] = owed[k]
  <2> SUFFICES ASSUME NEW k \in Keys
               PROVE  /\ owed'[k] \in Nat /\ owed'[k] <= version[k]
                      /\ k \notin Touches[m] => owed'[k] = owed[k]
    OBVIOUS
  <2>1. /\ owed[k] \in Nat /\ wrote[m][k] \in Nat /\ version[k] \in Nat
        /\ owed[k] <= version[k] /\ wrote[m][k] <= version[k]
    BY DEF IInv, TypeOK, Written
  <2>2. owed'[k] = IF k \in Touches[m] /\ wrote[m][k] > owed[k] THEN wrote[m][k]
                   ELSE owed[k]
    BY DEF Succeed, Acknowledged
  <2> QED
    BY <2>1, <2>2
<1>2. owed' \in [Keys -> Nat]
  BY <1>1 DEF Succeed, Acknowledged
<1>3. \A k \in Keys : /\ cache'[k] \in EntryOver(Version)
                     /\ overtaken'[k] \in Overtaking
                     /\ EntryNewEnough(k)'
  <2> SUFFICES ASSUME NEW k \in Keys
               PROVE  /\ cache'[k] \in EntryOver(Version)
                      /\ overtaken'[k] \in Overtaking
                      /\ EntryNewEnough(k)'
    OBVIOUS
  <2>1. /\ cache[k] \in EntryOver(Version) /\ EntryNewEnough(k) /\ None \in Version
        /\ overtaken[k] \in Overtaking
    BY EntryAt DEF IInv, TypeOK
  <2>2. CASE k \in Invalidates[m]
    <3> DEFINE e == Invalidate(cache[k], k \in mounted, None)
               o == OvertakenOnInvalidate(overtaken[k], cache[k], k \in mounted,
                                          cache[k].got < owed'[k], None)
    <3>1. /\ e \in EntryOver(Version) /\ e.stale
          /\ e.fetch = "read" => GoesOn(cache[k], k \in mounted, None) /\ e.got = cache[k].got
      BY <2>1 DEF Invalidate, Start, Restart, Idle, GoesOn, EntryOver
    <3>2. cache'[k] = e /\ overtaken'[k] = o
      BY <2>2 DEF Succeed
    <3>3. /\ o \in Overtaking
          /\ GoesOn(cache[k], k \in mounted, None) /\ o # "answer"
                 => ~(cache[k].got < owed'[k])
      BY <2>1, OvertakenKept
    <3>4. GoesOn(cache[k], k \in mounted, None) => cache[k].fetch = "read"
      BY DEF GoesOn
    <3> HIDE DEF e, o
    <3>5. e.fetch = "read" => e.got \in Nat /\ (o # "answer" => e.got >= owed'[k])
      BY <1>1, <2>1, <3>1, <3>3, <3>4 DEF EntryNewEnough
    <3> QED
      BY <3>1, <3>2, <3>3, <3>5 DEF EntryNewEnough
  <2>3. CASE k \notin Invalidates[m]
    <3>1. cache'[k] = cache[k] /\ overtaken'[k] = overtaken[k]
      BY <2>3 DEF Succeed
    <3>2. owed'[k] = owed[k]
      BY <1>1, <2>3, InvalidatesEnough
    <3> QED
      BY <2>1, <3>1, <3>2 DEF EntryNewEnough
  <2> QED
    BY <2>2, <2>3
<1>4. cache' \in [Keys -> EntryOver(Version)] /\ overtaken' \in [Keys -> Overtaking]
  BY <1>3 DEF Succeed
<1>5. /\ wrote' \in [Mutations -> [Keys -> Nat]]
      /\ \A n \in Mutations, k \in Keys : wrote'[n][k] \in {0, wrote[n][k]}
  BY DEF IInv, TypeOK, Succeed, NoWrite
<1>6. TypeOK'
  BY <1>2, <1>4, <1>5 DEF IInv, TypeOK, Succeed
<1>7. Written'
  BY <1>1, <1>5 DEF IInv, TypeOK, Written, Succeed
<1> QED
  BY <1>3, <1>6, <1>7 DEF IInv

LEMMA RestStep ==
    ASSUME IInv, (\E m \in Mutations : Send(m) \/ FailMutation(m)) \/ UNCHANGED vars
    PROVE  IInv'
<1>1. UNCHANGED <<version, cache, mounted, owed, overtaken, focuses>>
  BY DEF Send, FailMutation, vars
<1>2. /\ sent' \in [Mutations -> {"idle", "sent", "done"}]
      /\ wrote' \in [Mutations -> [Keys -> Nat]]
      /\ \A n \in Mutations, k \in Keys : wrote'[n][k] \in {0, wrote[n][k]}
  <2>1. /\ sent \in [Mutations -> {"idle", "sent", "done"}]
        /\ wrote \in [Mutations -> [Keys -> Nat]]
        /\ NoWrite \in [Keys -> Nat] /\ \A k \in Keys : NoWrite[k] = 0
    BY DEF IInv, TypeOK, NoWrite
  <2>2. CASE \E m \in Mutations : Send(m)
    BY <2>1, <2>2 DEF Send
  <2>3. CASE \E m \in Mutations : FailMutation(m)
    BY <2>1, <2>3 DEF FailMutation
  <2> QED
    BY <2>1, <2>2, <2>3 DEF vars
<1> QED
  BY <1>1, <1>2 DEF IInv, TypeOK, Written, EntryNewEnough

-----------------------------------------------------------------------------

THEOREM Invariance == Spec => []IInv
<1>1. Init => IInv
  <2> SUFFICES ASSUME Init
               PROVE  IInv
    OBVIOUS
  <2>1. None \in Version /\ 0 \in Nat
    BY DEF Version
  <2>2. NoEntry(None) \in EntryOver(Version)
    BY <2>1 DEF NoEntry, EntryOver
  <2>3. NoWrite \in [Keys -> Nat] /\ [k \in Keys |-> "no"] \in [Keys -> Overtaking]
    BY DEF NoWrite, Overtaking
  <2>4. TypeOK
    BY <2>1, <2>2, <2>3 DEF Init, TypeOK
  <2>5. Written /\ \A k \in Keys : EntryNewEnough(k)
    BY DEF Init, NoWrite, Written, EntryNewEnough, NoEntry
  <2> QED
    BY <2>4, <2>5 DEF IInv
<1>2. IInv /\ [Next]_vars => IInv'
  BY QueryStep, UnmountStep, FocusStep, ExecuteStep, SucceedStep, RestStep DEF Next
<1> QED
  BY <1>1, <1>2, PTL DEF Spec

\* Queries and mutations keep their types.
THEOREM TypeCorrect == Spec => []TypeOK
<1>1. IInv => TypeOK
  BY DEF IInv
<1> QED
  BY <1>1, Invariance, PTL

\* A list that counts as fresh contains every write that was acknowledged, in
\* whatever order requests and answers pass, and whether its page stayed on the
\* screen or not, unless an acknowledgement overtook its answer: one under way
\* for a page that had been left, or that had nothing to show yet.
THEOREM FreshIsNew == Spec => []FreshIncludesAcknowledged
<1>1. IInv => FreshIncludesAcknowledged
  BY HooksAssumption
     DEF IInv, TypeOK, EntryNewEnough, FreshIncludesAcknowledged
<1> QED
  BY <1>1, Invariance, PTL
=============================================================================
