------------------------------- MODULE Forms -------------------------------
(***************************************************************************)
(* The two forms on the page of an application that copy what they poll    *)
(* into a draft the operator edits: the JVM options                        *)
(* (components/ProfileForm.tsx) and the settings                           *)
(* (components/AppSettings.tsx).  A behaviour follows one of them.         *)
(*                                                                         *)
(* The server keeps the JVM options as revisions that never change, one of *)
(* them active (handlers of api/profiles.go).  The settings are one row;   *)
(* here its successive values are numbered in the same way, the last one   *)
(* active.  A draft is what all fields of the form hold together.          *)
(***************************************************************************)
EXTENDS Polled, Sequences

CONSTANTS
  Content,   \* what the fields may hold
  Blank,     \* what they hold before anything is loaded
  MaxRevs,   \* bound: revisions
  MaxEdits   \* bound: changes of a field and rollbacks

VARIABLES
  form,      \* the form that is followed
  revs,      \* what each revision holds
  active,    \* the revision in force
  source,    \* the poll the form loads from: profile of ProfileForm, app of AppDetail
  listing,   \* revisions.data of ProfileForm: how many there are and the active one
  loaded,    \* loadedRevision of ProfileForm
  draft,     \* the fields
  edited,    \* history: the operator has changed a field since they were last set
  saving,    \* the call of the form's useAction that is under way, or None
  edits      \* changes of a field and rollbacks so far

stored == <<revs, active>>
fields == <<loaded, draft, edited>>
vars   == <<form, stored, source, listing, fields, saving, edits>>

Call == [op : {"save", "rollback"}, content : Content \cup {Blank}, rev : Nat,
         done : {"sent", "ok", "failed"}]

Init ==
  /\ form \in {"profile", "settings"}
  /\ \E c \in Content : revs = <<c>>
  /\ active = 1
  /\ source = Mounted /\ listing = None
  /\ loaded = None /\ draft = Blank /\ edited = FALSE
  /\ saving = None /\ edits = 0

-----------------------------------------------------------------------------
(* Loading *)

SetFields(rev) == draft' = revs[rev] /\ edited' = FALSE

\* Wrong variant of LoadProfile: the fields are set once only.
LoadProfileOnce(data, last) ==
  IF data # None /\ last = None
  THEN SetFields(data) /\ loaded' = data
  ELSE UNCHANGED <<draft, edited>> /\ loaded' = last

\* ProfileForm's effect, which runs when the data or loadedRevision has changed:
\* a revision other than the one that was loaded goes into the fields.
LoadProfile(data, last) ==
  IF data # None /\ data # last
  THEN SetFields(data) /\ loaded' = data
  ELSE UNCHANGED <<draft, edited>> /\ loaded' = last

\* Wrong variant of LoadSettings: only the first answer goes into the fields.
LoadSettingsOnce(answer) ==
  /\ IF answer = Failed \/ source.data # None
     THEN UNCHANGED <<draft, edited>> ELSE SetFields(answer)
  /\ UNCHANGED loaded

\* AppSettings' effect: every answer is a new object, and goes into the fields.
LoadSettings(answer) ==
  /\ IF answer = Failed THEN UNCHANGED <<draft, edited>> ELSE SetFields(answer)
  /\ UNCHANGED loaded

\* The poll asks: the server names the revision in force.
Ask ==
  /\ CanAsk(source)
  /\ source' = Asked(source, active)
  /\ UNCHANGED <<form, stored, listing, fields, saving, edits>>

Land ==
  /\ \E v \in source.flight :
       /\ source' = Landed(source, v)
       /\ IF form = "profile" THEN LoadProfile(source'.data, loaded) ELSE LoadSettings(v)
  /\ UNCHANGED <<form, stored, listing, saving, edits>>

\* The history of revisions, polled beside the form: it may be as old as it likes.
List ==
  /\ form = "profile"
  /\ listing' = [last |-> Len(revs), active |-> active]
  /\ UNCHANGED <<form, stored, source, fields, saving, edits>>

-----------------------------------------------------------------------------
(* The operator *)

\* AppSettings is not there before its data.
Shown == form = "profile" \/ source.data # None

\* set, and the setters of AppSettings.
Edit(c) ==
  /\ Shown /\ edits < MaxEdits /\ edits' = edits + 1
  /\ draft' = c /\ edited' = TRUE
  /\ UNCHANGED <<form, stored, source, listing, loaded, saving>>

\* The button that puts the last data back into the fields.
Reset ==
  /\ form = "profile"
  /\ IF source.data = None THEN draft' = Blank /\ edited' = FALSE ELSE SetFields(source.data)
  /\ UNCHANGED <<form, stored, source, listing, loaded, saving, edits>>

\* save, as far as its await.
Save ==
  /\ Shown /\ saving = None
  /\ saving' = [op |-> "save", content |-> draft, rev |-> 0, done |-> "sent"]
  /\ UNCHANGED <<form, stored, source, listing, fields, edits>>

\* rollback, as far as its await: offered for a listed revision that is not in force.
Rollback(rev) ==
  /\ edits < MaxEdits /\ edits' = edits + 1
  /\ saving = None /\ listing # None
  /\ rev \in 1..listing.last /\ rev # listing.active
  /\ saving' = [op |-> "rollback", content |-> Blank, rev |-> rev, done |-> "sent"]
  /\ UNCHANGED <<form, stored, source, listing, fields>>

\* save and rollback past their await.  After a success ProfileForm forgets which
\* revision it has loaded, so that its effect runs before any new answer is there.
Hear ==
  /\ saving # None /\ saving.done # "sent" /\ saving' = None
  /\ IF saving.done = "ok"
     THEN /\ source' = Refreshed(source)
          /\ IF form = "profile" THEN LoadProfile(source.data, None) ELSE UNCHANGED fields
     ELSE UNCHANGED <<source, fields>>
  /\ UNCHANGED <<form, stored, listing, edits>>

-----------------------------------------------------------------------------
(* The server *)

Done(how) ==
  saving' = [op |-> saving.op, content |-> saving.content, rev |-> saving.rev, done |-> how]

\* handleUpdateProfile and handleUpdateApp: a new revision, in force at once ...
Write(c) == Len(revs) < MaxRevs /\ revs' = Append(revs, c) /\ active' = Len(revs) + 1

\* ... and handleActivateProfile: an old one, in force again.
Activate(rev) == rev \in 1..Len(revs) /\ active' = rev /\ UNCHANGED revs

Serve ==
  /\ saving # None /\ saving.done = "sent"
  /\ IF saving.op = "save" THEN Write(saving.content) ELSE Activate(saving.rev)
  /\ Done("ok")
  /\ UNCHANGED <<form, source, listing, fields, edits>>

\* The server refuses the call, or it or its answer is lost.
Fail ==
  /\ saving # None /\ saving.done # "failed" /\ Done("failed")
  /\ UNCHANGED <<form, stored, source, listing, fields, edits>>

\* Another operator saves, or rolls back.  Bound: the last revision is left for
\* this operator.
Other ==
  /\ Len(revs) < MaxRevs - 1 /\ \E c \in Content : Write(c)
  /\ UNCHANGED <<form, source, listing, fields, saving, edits>>

Next ==
  \/ Ask \/ Land \/ List \/ \E c \in Content : Edit(c)
  \/ Reset \/ Save \/ Hear \/ Serve \/ Fail \/ Other
  \/ \E rev \in 1..MaxRevs : Rollback(rev)

Spec == Init /\ [][Next]_vars

\* The poll's timer fires and its answers arrive; calls are served and heard.
FairSpec ==
  Spec /\ WF_vars(Ask) /\ WF_vars(Land) /\ WF_vars(Serve \/ Fail) /\ WF_vars(Hear)

-----------------------------------------------------------------------------
(* Properties *)

\* Every variable keeps its type.
TypeOK ==
  /\ form \in {"profile", "settings"}
  /\ Len(revs) \in 1..MaxRevs /\ active \in 1..Len(revs)
  /\ \A i \in 1..Len(revs) : revs[i] \in Content \cup {Blank}
  /\ source \in Polls(1..MaxRevs)
  /\ listing \in [last : 1..MaxRevs, active : 1..MaxRevs] \cup {None}
  /\ loaded \in 1..MaxRevs \cup {None}
  /\ draft \in Content \cup {Blank} /\ edited \in BOOLEAN
  /\ saving \in Call \cup {None} /\ edits \in 0..MaxEdits

\* Fields the operator has not touched hold exactly one stored revision: the one
\* the form believes it has loaded (ProfileForm's effect, AppSettings' effect).
ShowsARevision ==
  ~edited =>
    /\ source.data = None => draft = Blank
    /\ source.data # None => draft = revs[source.data]
    /\ form = "profile" => loaded = source.data

\* The form shows what is in force, or an edit of the JVM options that is not saved.
UpToDate == draft = revs[active] \/ (form = "profile" /\ edited)

\* When everybody comes to rest, the form is up to date (ProfileForm, AppSettings).
FormCatchesUp == <>[]UpToDate

=============================================================================
