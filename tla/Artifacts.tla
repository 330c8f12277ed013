------------------------------ MODULE Artifacts ------------------------------
(***************************************************************************)
(* The uploaded versions of one application, kept in two places without a  *)
(* common transaction: the jars under repo/<app>/<version>/ and the rows   *)
(* of table artifacts, which apps.active_artifact_id and                   *)
(* instances.artifact_id refer to.  Requests upload, promote and delete    *)
(* versions and delete and create the application itself, concurrently     *)
(* with a launch, which reads the rows, verifies the jar and starts it.    *)
(*                                                                         *)
(* A step is one SQL statement or one operation on the file system.  What  *)
(* Save does before its rename (staging, hashing, reading the manifest)    *)
(* touches nothing another request sees, and a jar stands for its content  *)
(* and its checksum alike.                                                 *)
(***************************************************************************)
EXTENDS Naturals

CONSTANTS
  Version, File, Jar,  \* versions, file names and contents uploads may have
  None,
  Uploaders,   \* the clients that upload a version
  Activators,  \* the clients that promote one
  Deleters,    \* the clients that delete one
  Admins,      \* the clients that delete and create the application
  MaxId,       \* bound: how many rows of artifacts are ever inserted
  MaxApp,      \* bound: how often the application is created
  Faults       \* may JARVIS die, and may Remove leave files behind?

ASSUME ArtifactsAssumption ==
  /\ None \notin File \cup Jar \cup Version
  /\ MaxId \in Nat /\ MaxApp \in Nat /\ Faults \in BOOLEAN

VARIABLES
  app,     \* apps.id of the application; 0: it does not exist
  apps,    \* how many application ids were drawn
  ids,     \* how many artifact ids were drawn
  rows,    \* table artifacts, by version (UNIQUE (app_id, version))
  active,  \* apps.active_artifact_id; 0: NULL
  disk,    \* the jar under repo/<app>/<version>/<file>
  inst,    \* the row of table instances: is it live, and its artifact_id
  req,     \* the requests, as far as each has got
  launch,  \* the launch in progress
  proc,    \* the jar the running java process was started from
  left     \* history: the files a crash, a failed Remove or the deletion of
           \* the application has left without a row

vars == <<app, apps, ids, rows, active, disk, inst, req, launch, proc, left>>
dbVars == <<app, apps, ids, rows, active>>
runVars == <<inst, launch, proc>>

-----------------------------------------------------------------------------

Clients == Uploaders \cup Activators \cup Deleters \cup Admins
Id == 1..MaxId
NoRow == [id |-> 0, file |-> None, sum |-> None]
NoReq == [pc |-> "idle", app |-> 0, v |-> None, file |-> None, jar |-> None, id |-> 0]
NoLaunch == [pc |-> "idle", app |-> 0, id |-> 0, v |-> None, row |-> NoRow]
NoInst == [live |-> FALSE, art |-> 0]

ReqStep == {"idle", "stat", "publish", "insert", "undo", "promote", "find", "set",
            "look", "running", "row", "files", "app row"}
LaunchStep == {"idle", "row", "verify", "start", "record"}

RowState == [id: 0..MaxId, file: File \cup {None}, sum: Jar \cup {None}]

\* What a request knows: the application and the version it names, the file and
\* the jar it uploads, the artifact id it has looked up.
ReqState == [pc: ReqStep, app: 0..MaxApp, v: Version \cup {None},
             file: File \cup {None}, jar: Jar \cup {None}, id: 0..MaxId]

\* What a launch knows: the application, the promoted id, the version and row
\* it has chosen.
LaunchState == [pc: LaunchStep, app: 0..MaxApp, id: 0..MaxId,
                v: Version \cup {None}, row: RowState]

InstState == [live: BOOLEAN, art: 0..MaxId]

TypeOK ==
  /\ app \in 0..MaxApp /\ apps \in 0..MaxApp /\ ids \in 0..MaxId
  /\ rows \in [Version -> RowState]
  /\ active \in 0..MaxId
  /\ disk \in [Version -> [File -> Jar \cup {None}]]
  /\ inst \in InstState
  /\ req \in [Clients -> ReqState]
  /\ launch \in LaunchState
  /\ proc \in Jar \cup {None}
  /\ left \subseteq Version \X File

Init ==
  /\ app = 0 /\ apps = 0 /\ ids = 0
  /\ rows = [v \in Version |-> NoRow] /\ active = 0
  /\ disk = [v \in Version |-> [f \in File |-> None]]
  /\ inst = NoInst
  /\ req = [c \in Clients |-> NoReq]
  /\ launch = NoLaunch /\ proc = None /\ left = {}

-----------------------------------------------------------------------------

\* The jars there are.
OnDisk == {p \in Version \X File : disk[p[1]][p[2]] # None}

\* Some row has the id: what the foreign keys of apps and instances ask.
RowExists(id) == \E v \in Version : rows[v].id = id /\ id # 0

Referenced(id) == active = id \/ inst.art = id

\* A request goes on, with the artifact id it has looked up; or it is answered.
GotoWith(c, pc, id) ==
  req' = [req EXCEPT ![c] = [pc |-> pc, app |-> @.app, v |-> @.v, file |-> @.file,
                             jar |-> @.jar, id |-> id]]
Goto(c, pc) == GotoWith(c, pc, req[c].id)
Answer(c) == req' = [req EXCEPT ![c] = NoReq]

\* Repository.Remove: the directory of the version with every file in it.  A
\* file that cannot be removed (Windows, open in a process) stays, and its
\* callers go on.
Remove(v) ==
  \E stay \in SUBSET {f \in File : disk[v][f] # None} :
    /\ stay # {} => Faults
    /\ disk' = [disk EXCEPT ![v] = [f \in File |-> IF f \in stay THEN @[f] ELSE None]]
    /\ left' = {p \in left : p[1] # v} \cup ({v} \X stay)

-----------------------------------------------------------------------------
(***************************************************************************)
(* Uploads.                                                                *)
(***************************************************************************)

\* handleUploadArtifact: appIDByName, then the form is received.
Upload(c) ==
  /\ c \in Uploaders /\ req[c].pc = "idle" /\ app # 0
  /\ \E v \in Version, f \in File, j \in Jar :
       req' = [req EXCEPT ![c] =
                 [pc |-> "stat", app |-> app, v |-> v, file |-> f, jar |-> j, id |-> 0]]
  /\ UNCHANGED <<dbVars, disk, runVars, left>>

\* Wrong variant of UploadStat: an upload replaces a file that is there.
UploadStatOverwrites(c) ==
  /\ req[c].pc = "stat"
  /\ Goto(c, "publish")
  /\ UNCHANGED <<dbVars, disk, runVars, left>>

\* Repository.Save: ErrAlreadyExists if the very file is there.
UploadStat(c) ==
  /\ req[c].pc = "stat"
  /\ IF disk[req[c].v][req[c].file] # None THEN Answer(c) ELSE Goto(c, "publish")
  /\ UNCHANGED <<dbVars, disk, runVars, left>>

\* Repository.Save: the staged upload is refused (not a jar, empty, too large),
\* or renamed into place, over whatever is there by now.
UploadPublish(c) ==
  /\ req[c].pc = "publish"
  /\ \/ Answer(c) /\ UNCHANGED <<disk, left>>
     \/ /\ disk' = [disk EXCEPT ![req[c].v][req[c].file] = req[c].jar]
        /\ left' = left \ {<<req[c].v, req[c].file>>}
        /\ Goto(c, "insert")
  /\ UNCHANGED <<dbVars, runVars>>

\* Wrong variant of UploadInsert: a refused INSERT leaves the jar behind.
UploadInsertKeeps(c) ==
  /\ req[c].pc = "insert"
  /\ \/ /\ app = req[c].app /\ rows[req[c].v] = NoRow /\ ids < MaxId
        /\ ids' = ids + 1
        /\ rows' = [rows EXCEPT ![req[c].v] =
                      [id |-> ids + 1, file |-> req[c].file, sum |-> req[c].jar]]
        /\ Answer(c)
     \/ Answer(c) /\ UNCHANGED <<ids, rows>>
  /\ UNCHANGED <<app, apps, active, disk, runVars, left>>

\* The INSERT, refused if the version has a row (UNIQUE), the application is
\* gone (the foreign key) or so is the client; then promotion, if asked for.
UploadInsert(c) ==
  /\ req[c].pc = "insert"
  /\ \/ /\ app = req[c].app /\ rows[req[c].v] = NoRow /\ ids < MaxId
        /\ ids' = ids + 1
        /\ rows' = [rows EXCEPT ![req[c].v] =
                      [id |-> ids + 1, file |-> req[c].file, sum |-> req[c].jar]]
        /\ \/ Answer(c)
           \/ GotoWith(c, "promote", ids + 1)
     \/ Goto(c, "undo") /\ UNCHANGED <<ids, rows>>
  /\ UNCHANGED <<app, apps, active, disk, runVars, left>>

\* The clean-up after a refused INSERT: Remove takes the whole version.
UploadUndo(c) ==
  /\ req[c].pc = "undo"
  /\ Remove(req[c].v)
  /\ Answer(c)
  /\ UNCHANGED <<dbVars, runVars>>

\* Wrong variant of SetActive: the foreign key is not enforced.
SetActiveUnchecked(c) ==
  /\ \/ active' = req[c].id
     \/ UNCHANGED active
  /\ Answer(c)
  /\ UNCHANGED <<app, apps, ids, rows, disk, runVars, left>>

\* Wrong variant of SetActive: the version is stored in place of its row's id.
SetActiveByVersion(c) ==
  /\ \/ RowExists(req[c].id) /\ active' = req[c].v
     \/ UNCHANGED active
  /\ Answer(c)
  /\ UNCHANGED <<app, apps, ids, rows, disk, runVars, left>>

\* UPDATE apps SET active_artifact_id: refused by the foreign key when the row
\* is gone, or the client is.
SetActive(c) ==
  /\ \/ RowExists(req[c].id) /\ active' = req[c].id
     \/ UNCHANGED active
  /\ Answer(c)
  /\ UNCHANGED <<app, apps, ids, rows, disk, runVars, left>>

UploadPromote(c) == req[c].pc = "promote" /\ SetActive(c)

-----------------------------------------------------------------------------
(***************************************************************************)
(* Promotion and deletion of a version.                                    *)
(***************************************************************************)

\* A request that names a version enters: appIDByName.
Enter(c, pc) ==
  /\ req[c].pc = "idle" /\ app # 0
  /\ \E v \in Version :
       req' = [req EXCEPT ![c] = [pc |-> pc, app |-> app, v |-> v, file |-> None,
                                  jar |-> None, id |-> 0]]
  /\ UNCHANGED <<dbVars, disk, runVars, left>>

Activate(c) == c \in Activators /\ Enter(c, "find")

\* The row of the version, of the application looked up before.
Row(c) == IF app = req[c].app THEN rows[req[c].v] ELSE NoRow

\* handleActivateArtifact: the SELECT.
ActivateFind(c) ==
  /\ req[c].pc = "find"
  /\ IF Row(c) = NoRow THEN Answer(c)
     ELSE GotoWith(c, "set", Row(c).id)
  /\ UNCHANGED <<dbVars, disk, runVars, left>>

ActivateSet(c) == req[c].pc = "set" /\ SetActive(c)

Delete(c) == c \in Deleters /\ Enter(c, "look")

\* handleDeleteArtifact: the SELECT, and the refusal of the promoted version.
DeleteLook(c) ==
  /\ req[c].pc = "look"
  /\ IF Row(c) = NoRow \/ Row(c).id = active THEN Answer(c)
     ELSE GotoWith(c, "running", Row(c).id)
  /\ UNCHANGED <<dbVars, disk, runVars, left>>

\* instanceUsesArtifact.
DeleteRunning(c) ==
  /\ req[c].pc = "running"
  /\ IF inst.live /\ inst.art = req[c].id THEN Answer(c) ELSE Goto(c, "row")
  /\ UNCHANGED <<dbVars, disk, runVars, left>>

\* Wrong variant of DeleteRow: the foreign keys are not enforced.
DeleteRowUnchecked(c) ==
  /\ req[c].pc = "row"
  /\ \/ /\ rows' = [v \in Version |-> IF rows[v].id = req[c].id THEN NoRow ELSE rows[v]]
        /\ Goto(c, "files")
     \/ Answer(c) /\ UNCHANGED rows
  /\ UNCHANGED <<app, apps, ids, active, disk, runVars, left>>

\* Wrong variant of DeleteRow: instances.artifact_id is no foreign key.
DeleteRowRecorded(c) ==
  /\ req[c].pc = "row"
  /\ \/ /\ active # req[c].id
        /\ rows' = [v \in Version |-> IF rows[v].id = req[c].id THEN NoRow ELSE rows[v]]
        /\ Goto(c, "files")
     \/ Answer(c) /\ UNCHANGED rows
  /\ UNCHANGED <<app, apps, ids, active, disk, runVars, left>>

\* The DELETE by id: refused by a foreign key while the row is promoted or the
\* instance row, live or not, refers to it; successful if it is gone already.
DeleteRow(c) ==
  /\ req[c].pc = "row"
  /\ \/ /\ ~Referenced(req[c].id)
        /\ rows' = [v \in Version |-> IF rows[v].id = req[c].id THEN NoRow ELSE rows[v]]
        /\ Goto(c, "files")
     \/ Answer(c) /\ UNCHANGED rows
  /\ UNCHANGED <<app, apps, ids, active, disk, runVars, left>>

\* Repository.Remove, by version.
DeleteFiles(c) ==
  /\ req[c].pc = "files"
  /\ Remove(req[c].v)
  /\ Answer(c)
  /\ UNCHANGED <<dbVars, runVars>>

-----------------------------------------------------------------------------
(***************************************************************************)
(* The application.                                                        *)
(***************************************************************************)

\* handleCreateApp: a new id, no version promoted; jars of an earlier
\* application of the name may be there.
CreateApp(c) ==
  /\ c \in Admins /\ req[c].pc = "idle"
  /\ app = 0 /\ apps < MaxApp
  /\ app' = apps + 1 /\ apps' = apps + 1
  /\ UNCHANGED <<ids, rows, active, disk, runVars, req, left>>

\* handleDeleteApp: appIDByName and isAppRunning.
DeleteApp(c) ==
  /\ c \in Admins /\ req[c].pc = "idle" /\ app # 0
  /\ ~inst.live
  /\ req' = [req EXCEPT ![c] = [pc |-> "app row", app |-> app, v |-> None, file |-> None,
                                  jar |-> None, id |-> 0]]
  /\ UNCHANGED <<dbVars, disk, runVars, left>>

\* The DELETE: versions and instance go with the application (ON DELETE
\* CASCADE), the jars are deliberately left.  Without effect if it is gone
\* already, refused if the client is.
DeleteAppRow(c) ==
  /\ req[c].pc = "app row"
  /\ \/ /\ app = req[c].app
        /\ app' = 0 /\ active' = 0 /\ inst' = NoInst
        /\ rows' = [v \in Version |-> NoRow]
        /\ left' = OnDisk
     \/ UNCHANGED <<app, active, inst, rows, left>>
  /\ Answer(c)
  /\ UNCHANGED <<apps, ids, disk, launch, proc>>

-----------------------------------------------------------------------------
(***************************************************************************)
(* Launches, one at a time, and the process they start.                    *)
(***************************************************************************)

\* The launch goes on with a version and its row.
LaunchGoes(pc, v, row) ==
  [pc |-> pc, app |-> launch.app, id |-> launch.id, v |-> v, row |-> row]

\* buildLaunchSpec: the row of the application, with the promoted id.
LaunchApp ==
  /\ launch.pc = "idle" /\ proc = None /\ app # 0
  /\ launch' = [pc |-> "row", app |-> app, id |-> active, v |-> None, row |-> NoRow]
  /\ UNCHANGED <<dbVars, disk, inst, req, proc, left>>

\* promotedArtifact: the promoted row, else the newest upload (uploads of one
\* second tie, so it may be any), else there is none.
LaunchRow ==
  /\ launch.pc = "row"
  /\ \/ \E v \in Version :
          /\ rows[v] # NoRow
          /\ RowExists(launch.id) => rows[v].id = launch.id
          /\ launch' = LaunchGoes("verify", v, rows[v])
     \/ (\A v \in Version : rows[v] = NoRow) /\ launch' = NoLaunch
  /\ UNCHANGED <<dbVars, disk, inst, req, proc, left>>

\* Repository.Verify: the file is there and has the recorded checksum.
LaunchVerify ==
  /\ launch.pc = "verify"
  /\ launch' = IF disk[launch.v][launch.row.file] = launch.row.sum
               THEN LaunchGoes("start", launch.v, launch.row)
               ELSE NoLaunch
  /\ UNCHANGED <<dbVars, disk, inst, req, proc, left>>

\* runner.Start: java runs the file as it is now, and ends at once without one.
LaunchStart ==
  /\ launch.pc = "start"
  /\ proc' = disk[launch.v][launch.row.file]
  /\ launch' = LaunchGoes("record", launch.v, launch.row)
  /\ UNCHANGED <<dbVars, disk, inst, req, left>>

\* insertInstance with the promoted id (NULL for the newest upload), refused by
\* the foreign keys when the application or that row is gone.
LaunchRecord ==
  /\ launch.pc = "record"
  /\ inst' = IF app = launch.app /\ (launch.id = 0 \/ RowExists(launch.id))
             THEN [live |-> TRUE, art |-> launch.id]
             ELSE inst
  /\ launch' = NoLaunch
  /\ UNCHANGED <<dbVars, disk, req, proc, left>>

\* The process exits.
ProcessExits ==
  /\ proc # None
  /\ proc' = None
  /\ UNCHANGED <<dbVars, disk, inst, req, launch, left>>

\* The row is marked STOPPED or FAILED: by StopApp, once the process is gone, or
\* by a watcher that does not relaunch.  It keeps its artifact_id.
MarkStopped ==
  /\ inst.live /\ proc = None
  /\ inst' = [live |-> FALSE, art |-> inst.art]
  /\ UNCHANGED <<dbVars, disk, req, launch, proc, left>>

-----------------------------------------------------------------------------

\* The file a request has put in place, or is about to remove, without a row.
InHand(c) ==
  IF req[c].pc = "insert" THEN {<<req[c].v, req[c].file>>}
  ELSE IF req[c].pc \in {"undo", "files"} THEN {req[c].v} \X File
  ELSE {}

\* JARVIS dies: its requests and its launch with it, the process not.
Crash ==
  /\ Faults
  /\ req' = [c \in Clients |-> NoReq]
  /\ launch' = NoLaunch
  /\ left' = left \cup (OnDisk \cap UNION {InHand(c) : c \in Clients})
  /\ UNCHANGED <<dbVars, disk, inst, proc>>

UploadStep(c) ==
  \/ Upload(c) \/ UploadStat(c) \/ UploadPublish(c) \/ UploadInsert(c)
  \/ UploadUndo(c) \/ UploadPromote(c)
ActivateStep(c) == Activate(c) \/ ActivateFind(c) \/ ActivateSet(c)
DeleteStep(c) ==
  Delete(c) \/ DeleteLook(c) \/ DeleteRunning(c) \/ DeleteRow(c) \/ DeleteFiles(c)
AppStep(c) == CreateApp(c) \/ DeleteApp(c) \/ DeleteAppRow(c)
LaunchMoves == LaunchApp \/ LaunchRow \/ LaunchVerify \/ LaunchStart \/ LaunchRecord

Next ==
  \/ \E c \in Clients : UploadStep(c) \/ ActivateStep(c) \/ DeleteStep(c) \/ AppStep(c)
  \/ LaunchMoves
  \/ ProcessExits \/ MarkStopped \/ Crash

Spec == Init /\ [][Next]_vars

-----------------------------------------------------------------------------
(***************************************************************************)
(* Properties.                                                             *)
(***************************************************************************)

\* A version that is listed can be launched: its jar is on disk with the
\* content it was uploaded with ("Uploaded jars.  Immutable once stored").  The
\* order of the writes (jar before row, row before jar on a deletion) is to keep
\* this true through every interleaving and crash.
RowHasItsJar ==
  \A v \in Version : rows[v] # NoRow => disk[v][rows[v].file] = rows[v].sum

\* What the application and its instance refer to exists: the promoted version
\* and the one a process is recorded to run are never deleted, though promotion
\* and deletion each look first and write later.
ReferencesResolve ==
  /\ active # 0 => RowExists(active)
  /\ inst.art # 0 => RowExists(inst.art)

\* A jar without a row "would be invisible and unremovable through the UI": the
\* only ones are in the hands of a request, or were left by a crash, by a file
\* that could not be removed or by the deletion of the application.
NoStrayJar ==
  \A p \in OnDisk :
    \/ rows[p[1]].file = p[2]
    \/ p \in left
    \/ \E c \in Clients : p \in InHand(c)
-----------------------------------------------------------------------------
(***************************************************************************)
(* What the files and tables amount to: a Library.                         *)
(***************************************************************************)

\* The jar a launch of each version would find, and the version with the id.
Listing == [v \in Version |-> IF rows[v] = NoRow THEN None ELSE disk[v][rows[v].file]]
VersionOf(id) == IF RowExists(id) THEN CHOOSE v \in Version : rows[v].id = id ELSE None

Catalogue == INSTANCE Library
               WITH listed <- Listing,
                    promoted <- VersionOf(active), recorded <- VersionOf(inst.art)

\* The repository implements Library: whatever steps uploads, promotions, deletions
\* and launches are cut into, a listed version keeps the jar it was listed with, and
\* the promoted and the recorded version go only with the application, although each
\* is known by an id, its files by its version, and each request looked before.
ImplementsLibrary == Catalogue!Spec
=============================================================================
