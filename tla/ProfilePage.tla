----------------------------- MODULE ProfilePage -----------------------------
(***************************************************************************)
(* The account page: a form for the user's details, and buttons that set   *)
(* or remove the picture.  Either one puts the whole profile, so that what *)
(* it does not change is what the browser believed when it was pressed.    *)
(***************************************************************************)
EXTENDS QueryCache, Integers, Sequences, FiniteSets

CONSTANTS
    None,
    Details,        \* what the details can be; Blank: every field is null
    Blank,
    InitialDetails, \* what the server has at first
    Pictures,
    MaxPuts,        \* bound: requests that are sent
    MaxFocus        \* bound: times the window is focused

ProfileAssumption ==
    /\ {Blank, InitialDetails} \subseteq Details
    /\ None \notin Details \cup Pictures
    /\ MaxPuts \in Nat /\ MaxFocus \in Nat

VARIABLES
    profile,    \* the row on the server
    cache,      \* the entry of the profile query
    editing, form,
    preview,    \* avatarPreview
    reading,    \* the files being compressed, and the profile captured before
    puts,       \* the requests so far, in order; the last is the hook's own
    acked,      \* the picture acknowledged since this editing began
    focuses

vars == <<profile, cache, editing, form, preview, reading, puts, acked, focuses>>
formVars == <<editing, form, acked>>

Picture == Pictures \cup {None}
Profile == [details: Details, picture: Picture]
BlankProfile == [details |-> Blank, picture |-> None]
Put == [kind: {"save", "upload", "delete"}, body: Profile,
        phase: {"sent", "done", "saved", "failed"}]

TypeOK ==
    /\ profile \in Profile
    /\ cache \in EntryOver(Profile \cup {None})
    /\ editing \in BOOLEAN /\ form \in Profile
    /\ preview \in Picture
    /\ reading \subseteq [picture: Pictures, profile: Profile]
    /\ puts \in Seq(Put)
    /\ acked \in Picture
    /\ focuses \in Nat

Init ==
    /\ profile = [details |-> InitialDetails, picture |-> None]
    /\ cache = MountQuery(NoEntry(None), None)
    /\ editing = FALSE /\ form = BlankProfile /\ acked = None
    /\ preview = None /\ reading = {}
    /\ puts = <<>>
    /\ focuses = 0

\* profileToRequest: every field is null while there is no profile.
ProfileToRequest == IF cache.data = None THEN BlankProfile ELSE cache.data

\* isPending of the query shows a skeleton; a failed fetch does not.
Loaded == ~Pending(cache, None)

InFlight(p) == puts[p].phase \in {"sent", "done"}

\* isPending of the hook, which only follows the last request.
IsSaving == puts # <<>> /\ InFlight(Len(puts))

-----------------------------------------------------------------------------
(* The form *)

StartEditing ==
    /\ Loaded /\ ~editing
    /\ editing' = TRUE
    /\ form' = ProfileToRequest
    /\ acked' = None
    /\ UNCHANGED <<profile, cache, preview, reading, puts, focuses>>

\* Clearing every field is left out: the blank profile stands for a failed fetch.
TypeDetails(d) ==
    /\ editing /\ d # Blank
    /\ form' = [form EXCEPT !.details = d]
    /\ UNCHANGED <<profile, cache, editing, preview, reading, puts, acked, focuses>>

CancelEditing ==
    /\ editing /\ ~IsSaving
    /\ editing' = FALSE
    /\ UNCHANGED <<profile, cache, form, preview, reading, puts, acked, focuses>>

SaveProfile(kind, body) ==
    /\ Len(puts) < MaxPuts
    /\ puts' = Append(puts, [kind |-> kind, body |-> body, phase |-> "sent"])

HandleSave ==
    /\ editing /\ ~IsSaving
    /\ SaveProfile("save", form)
    /\ UNCHANGED <<profile, cache, formVars, preview, reading, focuses>>

-----------------------------------------------------------------------------
(* The picture *)

\* The camera on the picture is never disabled.  The file is compressed in the
\* background, with the profile of this moment in the closure.
HandleAvatarChange(pic) ==
    /\ Loaded
    /\ reading = {} \* bound: one file at a time
    /\ reading' = {[picture |-> pic, profile |-> ProfileToRequest]}
    /\ UNCHANGED <<profile, cache, formVars, preview, puts, focuses>>

Compressed(r) ==
    /\ reading' = reading \ {r}
    /\ preview' = r.picture
    /\ SaveProfile("upload", [r.profile EXCEPT !.picture = r.picture])
    /\ UNCHANGED <<profile, cache, formVars, focuses>>

\* "Could not read image"
CompressFails(r) ==
    /\ reading' = reading \ {r}
    /\ UNCHANGED <<profile, cache, formVars, preview, puts, focuses>>

HandleDeleteAvatar ==
    /\ Loaded /\ ~IsSaving
    /\ ProfileToRequest.picture # None \/ preview # None
    /\ preview' = None
    /\ SaveProfile("delete", [ProfileToRequest EXCEPT !.picture = None])
    /\ UNCHANGED <<profile, cache, formVars, reading, focuses>>

-----------------------------------------------------------------------------
(* The requests *)

\* PUT /api/profile replaces every column.
Upsert(p) ==
    /\ puts[p].phase = "sent"
    /\ profile' = puts[p].body
    /\ puts' = [puts EXCEPT ![p].phase = "done"]
    /\ UNCHANGED <<cache, formVars, preview, reading, focuses>>

\* Regression: the open form is not told of the new picture.
SavedKeepsForm(p) ==
    /\ form' = form
    /\ acked' = IF p = Len(puts) /\ puts[p].kind = "upload" THEN puts[p].body.picture
                ELSE IF p = Len(puts) /\ puts[p].kind = "delete" THEN None ELSE acked
    /\ editing' = (editing /\ ~(p = Len(puts) /\ puts[p].kind = "save"))

\* The callbacks given to mutate, which only the last request has.
SavedCallback(p) ==
    LET own(kinds) == p = Len(puts) /\ puts[p].kind \in kinds IN
    /\ form' = IF own({"upload", "delete"}) THEN [form EXCEPT !.picture = puts[p].body.picture]
               ELSE form
    /\ acked' = IF own({"upload", "delete"}) THEN puts[p].body.picture ELSE acked
    /\ editing' = (editing /\ ~own({"save"}))

\* onSuccess of the hook writes the answer into the cache.
Saved(p) ==
    /\ puts[p].phase = "done"
    /\ puts' = [puts EXCEPT ![p].phase = "saved"]
    /\ cache' = SetData(cache, puts[p].body)
    /\ SavedCallback(p)
    /\ UNCHANGED <<profile, preview, reading, focuses>>

\* A refusal, or no answer; an upload takes its preview back.
SaveFails(p) ==
    /\ InFlight(p)
    /\ puts' = [puts EXCEPT ![p].phase = "failed"]
    /\ preview' = IF p = Len(puts) /\ puts[p].kind = "upload" THEN None ELSE preview
    /\ UNCHANGED <<profile, cache, formVars, reading, focuses>>

-----------------------------------------------------------------------------
(* The query *)

FetchProfile ==
    /\ cache.fetch = "sent"
    /\ cache' = Read(cache, profile)
    /\ UNCHANGED <<profile, formVars, preview, reading, puts, focuses>>

FetchEnds ==
    /\ \/ cache.fetch = "read" /\ cache' = Arrive(cache, None)
       \/ ~Idle(cache) /\ cache' = Fail(cache, None)
    /\ UNCHANGED <<profile, formVars, preview, reading, puts, focuses>>

Focus ==
    /\ focuses < MaxFocus
    /\ focuses' = focuses + 1
    /\ cache' = Start(cache, None)
    /\ UNCHANGED <<profile, formVars, preview, reading, puts>>

Next ==
    \/ StartEditing \/ CancelEditing \/ HandleSave \/ HandleDeleteAvatar
    \/ \E d \in Details : TypeDetails(d)
    \/ \E pic \in Pictures : HandleAvatarChange(pic)
    \/ \E r \in reading : Compressed(r) \/ CompressFails(r)
    \/ \E p \in DOMAIN puts : Upsert(p) \/ Saved(p) \/ SaveFails(p)
    \/ FetchProfile \/ FetchEnds \/ Focus

Spec == Init /\ [][Next]_vars

-----------------------------------------------------------------------------
(* Properties *)

\* "Keep preview in sync with what was just saved (form may be open)": after
\* "Profile picture updated", "Save Details" in the open form sends that picture
\* and does not undo it.
SaveKeepsPicture ==
    [][editing /\ acked # None /\ Len(puts') > Len(puts) /\ puts'[Len(puts')].kind = "save"
           => puts'[Len(puts')].body.picture = acked]_vars

-----------------------------------------------------------------------------
(* Known not to hold; see the README *)

\* Changing the picture changes nothing else: "Profile picture updated".
UploadKeepsDetails ==
    [][\A p \in DOMAIN puts :
           puts[p].phase = "sent" /\ puts'[p].phase = "done" /\ puts[p].kind # "save"
               => profile'.details = profile.details]_vars

\* "Profile saved!": the server has the details of the last save, once nothing
\* is under way.
SavedStaysSaved ==
    \A p \in DOMAIN puts :
        /\ puts[p].kind = "save" /\ puts[p].phase = "saved"
        /\ \A q \in DOMAIN puts : puts[q].kind = "save" => q = p
        /\ \A q \in DOMAIN puts : ~InFlight(q)
        /\ \A q \in DOMAIN puts : puts[q].kind # "save" => puts[q].body.details # Blank
        => profile.details = puts[p].body.details
=============================================================================
