-------------------------- MODULE QueryCacheProofs --------------------------
(***************************************************************************)
(* What each operation on a cache entry returns, for any data: the lemmas  *)
(* on which proofs about the components that use queries rest.             *)
(***************************************************************************)
EXTENDS QueryCache, TLAPS

\* An entry keeps its type, whatever happens to it.
LEMMA EntryTyped ==
    ASSUME NEW Data, NEW nothing \in Data, NEW answer \in Data,
           NEW e \in EntryOver(Data)
    PROVE  /\ NoEntry(nothing) \in EntryOver(Data)
           /\ Restart(e, nothing) \in EntryOver(Data)
           /\ Start(e, nothing) \in EntryOver(Data)
           /\ MountQuery(e, nothing) \in EntryOver(Data)
           /\ Read(e, answer) \in EntryOver(Data)
           /\ Arrive(e, nothing) \in EntryOver(Data)
           /\ Fail(e, nothing) \in EntryOver(Data)
           /\ SetData(e, answer) \in EntryOver(Data)
<1>1. NoEntry(nothing) \in EntryOver(Data)
  BY DEF NoEntry, EntryOver
<1>2. Restart(e, nothing) \in EntryOver(Data)
  BY DEF Restart, EntryOver
<1>3. Start(e, nothing) \in EntryOver(Data)
  BY <1>2 DEF Start
<1>4. MountQuery(e, nothing) \in EntryOver(Data)
  BY <1>3 DEF MountQuery
<1>5. Read(e, answer) \in EntryOver(Data) /\ SetData(e, answer) \in EntryOver(Data)
  BY DEF Read, SetData, EntryOver
<1>6. Arrive(e, nothing) \in EntryOver(Data) /\ Fail(e, nothing) \in EntryOver(Data)
  BY DEF Arrive, Fail, EntryOver
<1> QED
  BY <1>1, <1>2, <1>3, <1>4, <1>5, <1>6

\* Starting a fetch, or joining one, leaves the data and what is under way.
LEMMA StartKeeps ==
    ASSUME NEW Data, NEW nothing \in Data, NEW e \in EntryOver(Data)
    PROVE  \A s \in {Start(e, nothing), MountQuery(e, nothing)} :
               /\ s.data = e.data /\ s.stale = e.stale
               /\ s.fetch = "read" => e.fetch = "read" /\ s.got = e.got
BY DEF Start, MountQuery, Restart, Idle, EntryOver

LEMMA ReadBrings ==
    ASSUME NEW Data, NEW answer \in Data, NEW e \in EntryOver(Data)
    PROVE  /\ Read(e, answer).data = e.data /\ Read(e, answer).stale = e.stale
           /\ Read(e, answer).got = answer
BY DEF Read, EntryOver

\* An answer becomes the data, and nothing is under way any more.
LEMMA ArriveBrings ==
    ASSUME NEW Data, NEW nothing \in Data, NEW e \in EntryOver(Data)
    PROVE  /\ Arrive(e, nothing).data = e.got
           /\ Arrive(e, nothing).fetch = "idle"
BY DEF Arrive, EntryOver

LEMMA FailKeeps ==
    ASSUME NEW Data, NEW nothing \in Data, NEW e \in EntryOver(Data)
    PROVE  /\ Fail(e, nothing).data = e.data /\ Fail(e, nothing).stale = e.stale
           /\ Fail(e, nothing).fetch = "idle"
BY DEF Fail, EntryOver

\* After an invalidation the data is stale; an answer still under way is one that
\* goes on, and a mounted query is being fetched.
LEMMA InvalidateRecalls ==
    ASSUME NEW Data, NEW nothing \in Data, NEW e \in EntryOver(Data),
           NEW mounted \in BOOLEAN
    PROVE  /\ Invalidate(e, mounted, nothing) \in EntryOver(Data)
           /\ Invalidate(e, mounted, nothing).stale
           /\ Invalidate(e, mounted, nothing).data = e.data
           /\ Invalidate(e, mounted, nothing).fetch = "read"
                  => /\ GoesOn(e, mounted, nothing)
                     /\ Invalidate(e, mounted, nothing).got = e.got
           /\ mounted => ~Idle(Invalidate(e, mounted, nothing))
<1> DEFINE s == IF ~mounted THEN e
                ELSE IF e.data = nothing THEN Start(e, nothing) ELSE Restart(e, nothing)
<1>1. /\ s \in EntryOver(Data) /\ s.data = e.data
      /\ s.fetch = "read" => GoesOn(e, mounted, nothing) /\ s.got = e.got
      /\ mounted => ~Idle(s)
  BY DEF Start, Restart, Idle, GoesOn, EntryOver
<1>2. Invalidate(e, mounted, nothing) = [s EXCEPT !.stale = TRUE]
  BY DEF Invalidate
<1> HIDE DEF s
<1> QED
  BY <1>1, <1>2 DEF Idle, EntryOver

\* Data was overtaken if its answer was, and is not when the fetch failed.
LEMMA OvertakingTyped ==
    ASSUME NEW o \in Overtaking
    PROVE  /\ OvertakenOnArrive(o) \in Overtaking
           /\ OvertakenOnArrive(o) # "data" => o # "answer"
           /\ OvertakenOnFail(o) \in Overtaking
           /\ OvertakenOnFail(o) # "data" => o # "data"
BY DEF Overtaking, OvertakenOnArrive, OvertakenOnFail

\* An answer that goes on and is not overtaken lacks nothing the user was told.
LEMMA OvertakenKept ==
    ASSUME NEW o \in Overtaking, NEW e, NEW mounted, NEW lacking, NEW nothing
    PROVE  /\ OvertakenOnInvalidate(o, e, mounted, lacking, nothing) \in Overtaking
           /\ /\ GoesOn(e, mounted, nothing)
              /\ OvertakenOnInvalidate(o, e, mounted, lacking, nothing) # "answer"
              => ~lacking /\ o # "answer"
BY DEF OvertakenOnInvalidate, Overtaking

-----------------------------------------------------------------------------
(* Entries that say what they are: answers of A, or nothing *)

\* An answer under way is one, and an entry that is not stale has one.
Sound(e, A, nothing) ==
    /\ e \in EntryOver(A \cup {nothing})
    /\ e.fetch = "read" => e.got # nothing
    /\ ~e.stale => e.data # nothing

\* At rest without data only after an error: what a mounted query is.
Settled(e, nothing) == Idle(e) /\ e.data = nothing => e.error

LEMMA NoEntrySound ==
    ASSUME NEW A, NEW nothing
    PROVE  Sound(NoEntry(nothing), A, nothing)
BY DEF Sound, NoEntry, EntryOver

LEMMA StartSound ==
    ASSUME NEW A, NEW nothing, NEW e, Sound(e, A, nothing)
    PROVE  /\ Sound(Restart(e, nothing), A, nothing)
           /\ Sound(Start(e, nothing), A, nothing)
           /\ Sound(MountQuery(e, nothing), A, nothing)
           /\ Settled(Restart(e, nothing), nothing)
           /\ Settled(Start(e, nothing), nothing)
           /\ Settled(MountQuery(e, nothing), nothing)
<1>1. Sound(Restart(e, nothing), A, nothing) /\ Settled(Restart(e, nothing), nothing)
  BY DEF Sound, Settled, Idle, Restart, EntryOver
<1>2. Sound(Start(e, nothing), A, nothing) /\ Settled(Start(e, nothing), nothing)
  BY <1>1 DEF Start, Settled
<1>3. ~e.stale => Settled(e, nothing)
  BY DEF Sound, Settled
<1> QED
  BY <1>1, <1>2, <1>3 DEF MountQuery

LEMMA ReadSound ==
    ASSUME NEW A, NEW nothing, nothing \notin A, NEW answer \in A,
           NEW e, Sound(e, A, nothing)
    PROVE  /\ Sound(Read(e, answer), A, nothing)
           /\ Settled(Read(e, answer), nothing)
BY DEF Sound, Settled, Idle, Read, EntryOver

LEMMA ArriveSound ==
    ASSUME NEW A, NEW nothing, NEW e, Sound(e, A, nothing), e.fetch = "read"
    PROVE  /\ Sound(Arrive(e, nothing), A, nothing)
           /\ Settled(Arrive(e, nothing), nothing)
BY DEF Sound, Settled, Idle, Arrive, EntryOver

LEMMA FailSound ==
    ASSUME NEW A, NEW nothing, NEW e, Sound(e, A, nothing)
    PROVE  /\ Sound(Fail(e, nothing), A, nothing)
           /\ Settled(Fail(e, nothing), nothing)
BY DEF Sound, Settled, Idle, Fail, EntryOver

LEMMA InvalidateSound ==
    ASSUME NEW A, NEW nothing, NEW e, Sound(e, A, nothing), NEW mounted \in BOOLEAN
    PROVE  /\ Sound(Invalidate(e, mounted, nothing), A, nothing)
           /\ mounted => Settled(Invalidate(e, mounted, nothing), nothing)
<1> DEFINE s == IF ~mounted THEN e
                ELSE IF e.data = nothing THEN Start(e, nothing) ELSE Restart(e, nothing)
<1>1. Sound(s, A, nothing) /\ (mounted => Settled(s, nothing))
  BY StartSound
<1>2. Invalidate(e, mounted, nothing) = [s EXCEPT !.stale = TRUE]
  BY DEF Invalidate
<1> HIDE DEF s
<1> QED
  BY <1>1, <1>2 DEF Sound, Settled, Idle, EntryOver
=============================================================================
