--------------------------- MODULE ArtifactsProofs ---------------------------
(***************************************************************************)
(* What Artifacts keeps true for every number of versions, file names,     *)
(* clients, uploads and re-creations of the application: its types, that   *)
(* the references to artifacts resolve, that no jar goes astray and, where *)
(* uploads and deletions of versions do not overlap, that every listed     *)
(* version has its jar.                                                    *)
(***************************************************************************)
EXTENDS Artifacts, TLAPS

-----------------------------------------------------------------------------
(***************************************************************************)
(* Types.                                                                  *)
(***************************************************************************)

LEMMA NoneTypes ==
  /\ NoReq \in ReqState /\ NoLaunch \in LaunchState
  /\ NoInst \in InstState /\ NoRow \in RowState
BY ArtifactsAssumption
   DEF NoReq, NoLaunch, NoInst, NoRow, ReqState, LaunchState, InstState, RowState,
       ReqStep, LaunchStep

LEMMA GotoType ==
  ASSUME req \in [Clients -> ReqState], NEW c \in Clients, NEW pc \in ReqStep,
         NEW id \in 0..MaxId, GotoWith(c, pc, id)
  PROVE  req' \in [Clients -> ReqState]
BY DEF GotoWith, ReqState

LEMMA AnswerType ==
  ASSUME req \in [Clients -> ReqState], NEW c, Answer(c)
  PROVE  req' \in [Clients -> ReqState]
BY NoneTypes DEF Answer

LEMMA RemoveType ==
  ASSUME TypeOK, NEW v \in Version, Remove(v)
  PROVE  /\ disk' \in [Version -> [File -> Jar \cup {None}]]
         /\ left' \subseteq Version \X File
BY DEF Remove, TypeOK

\* The fields of a request.
LEMMA ReqTypes ==
  ASSUME TypeOK, NEW c \in Clients
  PROVE  /\ req[c].pc \in ReqStep /\ req[c].app \in 0..MaxApp
         /\ req[c].v \in Version \cup {None} /\ req[c].file \in File \cup {None}
         /\ req[c].jar \in Jar \cup {None} /\ req[c].id \in 0..MaxId
BY DEF TypeOK, ReqState

LEMMA SetActiveType ==
  ASSUME TypeOK, NEW c \in Clients, SetActive(c)
  PROVE  TypeOK'
<1>1. req' \in [Clients -> ReqState]
  BY AnswerType DEF SetActive, TypeOK
<1> QED
  BY <1>1, ReqTypes DEF SetActive, TypeOK, runVars

\* A request or a launch under way names a version, and a file where it is to
\* have one; a row has a file and an id.
NamedReq ==
  \A c \in Clients :
    /\ req[c].pc \notin {"idle", "app row"} => req[c].v \in Version
    /\ req[c].pc \in {"stat", "publish", "insert"} => req[c].file \in File
NamedRow ==
  \A v \in Version : rows[v] # NoRow => rows[v].file \in File /\ rows[v].id # 0
NamedLaunch ==
  launch.pc \in {"verify", "start", "record"} =>
    launch.v \in Version /\ launch.row.file \in File
Named == NamedReq /\ NamedRow /\ NamedLaunch

\* One request's step moves its pc and may look up an id, or answers it.
Steps(c) ==
  \/ Answer(c)
  \/ \E pc \in ReqStep, id \in 0..MaxId : GotoWith(c, pc, id)

LEMMA StepsType ==
  ASSUME TypeOK, NEW c \in Clients, Steps(c)
  PROVE  req' \in [Clients -> ReqState]
BY GotoType, AnswerType DEF Steps, TypeOK

LEMMA GotoSteps ==
  ASSUME TypeOK, NEW c \in Clients, NEW pc \in ReqStep, Goto(c, pc)
  PROVE  Steps(c)
BY ReqTypes DEF Goto, Steps

LEMMA EnterType ==
  ASSUME TypeOK, NEW c \in Clients, NEW pc \in ReqStep, Enter(c, pc)
  PROVE  TypeOK'
<1>1. req' \in [Clients -> ReqState]
  BY ArtifactsAssumption DEF Enter, TypeOK, ReqState
<1> QED
  BY <1>1 DEF Enter, TypeOK, dbVars, runVars

\* A request looks up the row of its version.
LEMMA FoundType ==
  ASSUME TypeOK, Named, NEW c \in Clients, NEW pc \in ReqStep,
         req[c].pc \notin {"idle", "app row"},
         Answer(c) \/ GotoWith(c, pc, Row(c).id),
         UNCHANGED <<dbVars, disk, runVars, left>>
  PROVE  TypeOK'
<1>1. req[c].v \in Version
  BY DEF Named, NamedReq
<1>2. Row(c).id \in 0..MaxId
  BY <1>1, NoneTypes DEF Row, TypeOK, RowState
<1>3. req' \in [Clients -> ReqState]
  BY <1>2, StepsType DEF Steps
<1> QED
  BY <1>3 DEF TypeOK, dbVars, runVars

LEMMA UploadType ==
  ASSUME TypeOK, Named, NEW c \in Clients, UploadStep(c)
  PROVE  TypeOK'
<1>1. CASE Upload(c)
  <2>1. "stat" \in ReqStep
    BY DEF ReqStep
  <2>2. req' \in [Clients -> ReqState]
    BY <1>1, <2>1, ArtifactsAssumption DEF Upload, TypeOK, ReqState
  <2> QED
    BY <1>1, <2>2 DEF Upload, TypeOK, dbVars, runVars
<1>2. CASE UploadStat(c)
  <2>1. req' \in [Clients -> ReqState]
    BY <1>2, StepsType, GotoSteps DEF UploadStat, Steps, ReqStep
  <2> QED
    BY <1>2, <2>1 DEF UploadStat, TypeOK, dbVars, runVars
<1>3. CASE UploadPublish(c)
  <2>1. req' \in [Clients -> ReqState]
    BY <1>3, StepsType, GotoSteps DEF UploadPublish, Steps, ReqStep
  <2>2. disk' \in [Version -> [File -> Jar \cup {None}]]
    <3>1. CASE UNCHANGED disk
      BY <3>1 DEF TypeOK
    <3>2. CASE disk' = [disk EXCEPT ![req[c].v][req[c].file] = req[c].jar]
      BY <3>2, ReqTypes DEF TypeOK
    <3> QED
      BY <1>3, <3>1, <3>2 DEF UploadPublish
  <2>3. left' \subseteq Version \X File
    BY <1>3 DEF UploadPublish, TypeOK
  <2> QED
    BY <1>3, <2>1, <2>2, <2>3 DEF UploadPublish, TypeOK, dbVars, runVars
<1>4. CASE UploadInsert(c)
  <2>1. req' \in [Clients -> ReqState]
    <3>1. CASE Answer(c) \/ Goto(c, "undo")
      BY <3>1, StepsType, GotoSteps DEF Steps, ReqStep
    <3>2. CASE ids < MaxId /\ GotoWith(c, "promote", ids + 1)
      <4>1. ids + 1 \in 0..MaxId
        BY <3>2, ArtifactsAssumption DEF TypeOK
      <4>2. "promote" \in ReqStep
        BY DEF ReqStep
      <4> QED
        BY <3>2, <4>1, <4>2, GotoType DEF TypeOK
    <3> QED
      BY <1>4, <3>1, <3>2 DEF UploadInsert
  <2>2. CASE UNCHANGED <<ids, rows>>
    BY <1>4, <2>1, <2>2 DEF UploadInsert, TypeOK, runVars
  <2>3. CASE /\ ids < MaxId /\ ids' = ids + 1
             /\ rows' = [rows EXCEPT ![req[c].v] =
                           [id |-> ids + 1, file |-> req[c].file, sum |-> req[c].jar]]
    <3>1. ids' \in 0..MaxId
      BY <2>3, ArtifactsAssumption DEF TypeOK
    <3>2. [id |-> ids + 1, file |-> req[c].file, sum |-> req[c].jar] \in RowState
      BY <2>3, <3>1, ReqTypes DEF RowState
    <3>3. rows' \in [Version -> RowState]
      BY <2>3, <3>2 DEF TypeOK
    <3> QED
      BY <1>4, <2>1, <3>1, <3>3 DEF UploadInsert, TypeOK, runVars
  <2> QED
    BY <1>4, <2>2, <2>3 DEF UploadInsert
<1>5. CASE UploadUndo(c)
  <2>1. req' \in [Clients -> ReqState]
    BY <1>5, AnswerType DEF UploadUndo, TypeOK
  <2>2. req[c].v \in Version
    BY <1>5 DEF UploadUndo, Named, NamedReq
  <2> QED
    BY <1>5, <2>1, <2>2, RemoveType DEF UploadUndo, TypeOK, dbVars, runVars
<1>6. CASE UploadPromote(c)
  BY <1>6, SetActiveType DEF UploadPromote
<1> QED
  BY <1>1, <1>2, <1>3, <1>4, <1>5, <1>6 DEF UploadStep

LEMMA ActivateType ==
  ASSUME TypeOK, Named, NEW c \in Clients, ActivateStep(c)
  PROVE  TypeOK'
<1>1. CASE Activate(c)
  BY <1>1, EnterType DEF Activate, ReqStep
<1>2. CASE ActivateFind(c)
  BY <1>2, FoundType DEF ActivateFind, ReqStep
<1>3. CASE ActivateSet(c)
  BY <1>3, SetActiveType DEF ActivateSet
<1> QED
  BY <1>1, <1>2, <1>3 DEF ActivateStep

LEMMA DeleteType ==
  ASSUME TypeOK, Named, NEW c \in Clients, DeleteStep(c)
  PROVE  TypeOK'
<1>1. CASE Delete(c)
  BY <1>1, EnterType DEF Delete, ReqStep
<1>2. CASE DeleteLook(c)
  BY <1>2, FoundType DEF DeleteLook, ReqStep
<1>3. CASE DeleteRunning(c)
  <2>1. req' \in [Clients -> ReqState]
    BY <1>3, StepsType, GotoSteps DEF DeleteRunning, Steps, ReqStep
  <2> QED
    BY <1>3, <2>1 DEF DeleteRunning, TypeOK, dbVars, runVars
<1>4. CASE DeleteRow(c)
  <2>1. req' \in [Clients -> ReqState]
    BY <1>4, StepsType, GotoSteps DEF DeleteRow, Steps, ReqStep
  <2>2. rows' \in [Version -> RowState]
    BY <1>4, NoneTypes DEF DeleteRow, TypeOK
  <2> QED
    BY <1>4, <2>1, <2>2 DEF DeleteRow, TypeOK, runVars
<1>5. CASE DeleteFiles(c)
  <2>1. req' \in [Clients -> ReqState]
    BY <1>5, AnswerType DEF DeleteFiles, TypeOK
  <2>2. req[c].v \in Version
    BY <1>5 DEF DeleteFiles, Named, NamedReq
  <2> QED
    BY <1>5, <2>1, <2>2, RemoveType DEF DeleteFiles, TypeOK, dbVars, runVars
<1> QED
  BY <1>1, <1>2, <1>3, <1>4, <1>5 DEF DeleteStep

LEMMA AppType ==
  ASSUME TypeOK, Named, NEW c \in Clients, AppStep(c)
  PROVE  TypeOK'
<1>1. CASE CreateApp(c)
  <2>1. apps + 1 \in 0..MaxApp
    BY <1>1, ArtifactsAssumption DEF CreateApp, TypeOK
  <2> QED
    BY <1>1, <2>1 DEF CreateApp, TypeOK, runVars
<1>2. CASE DeleteApp(c)
  <2>0. "app row" \in ReqStep /\ 0 \in 0..MaxId
    BY ArtifactsAssumption DEF ReqStep
  <2>1. [pc |-> "app row", app |-> app, v |-> None, file |-> None, jar |-> None, id |-> 0]
          \in ReqState
    BY <2>0 DEF TypeOK, ReqState
  <2>2. req' \in [Clients -> ReqState]
    BY <1>2, <2>1 DEF DeleteApp, TypeOK
  <2> QED
    BY <1>2, <2>2 DEF DeleteApp, TypeOK, dbVars, runVars
<1>3. CASE DeleteAppRow(c)
  <2>1. req' \in [Clients -> ReqState]
    BY <1>3, AnswerType DEF DeleteAppRow, TypeOK
  <2>. 0 \in 0..MaxApp /\ 0 \in 0..MaxId
    BY ArtifactsAssumption
  <2>2. app' \in 0..MaxApp /\ active' \in 0..MaxId
    BY <1>3 DEF DeleteAppRow, TypeOK
  <2>3. inst' \in InstState /\ rows' \in [Version -> RowState]
    BY <1>3, NoneTypes DEF DeleteAppRow, TypeOK
  <2>4. left' \subseteq Version \X File
    BY <1>3 DEF DeleteAppRow, OnDisk, TypeOK
  <2> QED
    BY <1>3, <2>1, <2>2, <2>3, <2>4 DEF DeleteAppRow, TypeOK
<1> QED
  BY <1>1, <1>2, <1>3 DEF AppStep

LEMMA LaunchGoesType ==
  ASSUME TypeOK, NEW pc \in LaunchStep, NEW v \in Version \cup {None}, NEW r \in RowState
  PROVE  LaunchGoes(pc, v, r) \in LaunchState
BY DEF LaunchGoes, TypeOK, LaunchState

\* The fields of a launch.
LEMMA LaunchTypes ==
  ASSUME TypeOK
  PROVE  /\ launch.v \in Version \cup {None} /\ launch.row \in RowState
         /\ launch.id \in 0..MaxId /\ launch.app \in 0..MaxApp
BY DEF TypeOK, LaunchState

LEMMA LaunchType ==
  ASSUME TypeOK, Named, LaunchMoves
  PROVE  TypeOK'
<1>1. CASE LaunchApp
  <2>1. "row" \in LaunchStep
    BY DEF LaunchStep
  <2>2. launch' \in LaunchState
    BY <1>1, <2>1, NoneTypes DEF LaunchApp, TypeOK, LaunchState
  <2> QED
    BY <1>1, <2>2 DEF LaunchApp, TypeOK, dbVars
<1>2. CASE LaunchRow
  <2>1. "verify" \in LaunchStep
    BY DEF LaunchStep
  <2>2. \A v \in Version : rows[v] \in RowState
    BY DEF TypeOK
  <2>3. launch' \in LaunchState
    BY <1>2, <2>1, <2>2, LaunchGoesType, NoneTypes DEF LaunchRow
  <2> QED
    BY <1>2, <2>3 DEF LaunchRow, TypeOK, dbVars
<1>3. CASE LaunchVerify
  <2>1. "start" \in LaunchStep
    BY DEF LaunchStep
  <2>2. launch' \in LaunchState
    BY <1>3, <2>1, LaunchTypes, LaunchGoesType, NoneTypes DEF LaunchVerify
  <2> QED
    BY <1>3, <2>2 DEF LaunchVerify, TypeOK, dbVars
<1>4. CASE LaunchStart
  <2>1. "record" \in LaunchStep
    BY DEF LaunchStep
  <2>2. launch' \in LaunchState
    BY <1>4, <2>1, LaunchTypes, LaunchGoesType DEF LaunchStart
  <2>3. launch.v \in Version /\ launch.row.file \in File
    BY <1>4 DEF LaunchStart, Named, NamedLaunch
  <2>4. proc' \in Jar \cup {None}
    BY <1>4, <2>3 DEF LaunchStart, TypeOK
  <2> QED
    BY <1>4, <2>2, <2>4 DEF LaunchStart, TypeOK, dbVars
<1>5. CASE LaunchRecord
  <2>1. inst' \in InstState
    BY <1>5, LaunchTypes DEF LaunchRecord, TypeOK, InstState
  <2> QED
    BY <1>5, <2>1, NoneTypes DEF LaunchRecord, TypeOK, dbVars
<1> QED
  BY <1>1, <1>2, <1>3, <1>4, <1>5 DEF LaunchMoves

LEMMA TypeNext ==
  ASSUME TypeOK, Named, [Next]_vars
  PROVE  TypeOK'
<1>1. ASSUME NEW c \in Clients,
             UploadStep(c) \/ ActivateStep(c) \/ DeleteStep(c) \/ AppStep(c)
      PROVE  TypeOK'
  BY <1>1, UploadType, ActivateType, DeleteType, AppType
<1>2. CASE LaunchMoves
  BY <1>2, LaunchType
<1>3. CASE ProcessExits
  BY <1>3 DEF ProcessExits, TypeOK, dbVars
<1>4. CASE MarkStopped
  <2>1. inst' \in InstState
    BY <1>4 DEF MarkStopped, TypeOK, InstState
  <2> QED
    BY <1>4, <2>1 DEF MarkStopped, TypeOK, dbVars
<1>5. CASE Crash
  <2>1. left' \subseteq Version \X File
    BY <1>5 DEF Crash, TypeOK, OnDisk
  <2> QED
    BY <1>5, <2>1, NoneTypes DEF Crash, TypeOK, dbVars
<1>6. CASE UNCHANGED vars
  BY <1>6 DEF vars, TypeOK
<1> QED
  BY <1>1, <1>2, <1>3, <1>4, <1>5, <1>6 DEF Next

-----------------------------------------------------------------------------
(***************************************************************************)
(* What is under way has a name.                                           *)
(***************************************************************************)

LEMMA GotoFacts ==
  ASSUME TypeOK, NEW c \in Clients, NEW pc, NEW id, GotoWith(c, pc, id)
  PROVE  /\ req'[c].pc = pc /\ req'[c].id = id /\ req'[c].app = req[c].app
         /\ req'[c].v = req[c].v /\ req'[c].file = req[c].file /\ req'[c].jar = req[c].jar
         /\ \A d \in Clients : d # c => req'[d] = req[d]
BY DEF GotoWith, TypeOK

LEMMA AnswerFacts ==
  ASSUME TypeOK, NEW c \in Clients, Answer(c)
  PROVE  /\ req'[c].pc = "idle"
         /\ \A d \in Clients : d # c => req'[d] = req[d]
BY DEF Answer, TypeOK, NoReq

LEMMA NamedAnswer ==
  ASSUME TypeOK, NamedReq, NEW c \in Clients, Answer(c)
  PROVE  NamedReq'
<1>1. /\ req'[c].pc \notin {"stat", "publish", "insert"}
      /\ req'[c].pc \in {"idle", "app row"}
  BY AnswerFacts
<1> QED
  BY <1>1, AnswerFacts DEF NamedReq

LEMMA NamedGoto ==
  ASSUME TypeOK, NamedReq, NEW c \in Clients, NEW pc, NEW id, GotoWith(c, pc, id),
         req[c].v \in Version,
         pc \in {"stat", "publish", "insert"} => req[c].file \in File
  PROVE  NamedReq'
<1>1. /\ req'[c].v \in Version
      /\ req'[c].pc \in {"stat", "publish", "insert"} => req'[c].file \in File
  BY GotoFacts
<1>2. \A d \in Clients : d # c => req'[d] = req[d]
  BY GotoFacts
<1> QED
  BY <1>1, <1>2 DEF NamedReq

LEMMA NamedEnter ==
  ASSUME TypeOK, NamedReq, NEW c \in Clients,
         NEW pc \in {"find", "look"}, Enter(c, pc)
  PROVE  NamedReq'
<1>1. /\ req'[c].v \in Version /\ req'[c].pc \notin {"stat", "publish", "insert"}
      /\ \A d \in Clients : d # c => req'[d] = req[d]
  BY DEF Enter, TypeOK
<1> QED
  BY <1>1 DEF NamedReq

LEMMA NamedReqUpload ==
  ASSUME TypeOK, NamedReq, NEW c \in Clients, UploadStep(c)
  PROVE  NamedReq'
<1>1. CASE Upload(c)
  <2>1. /\ req'[c].v \in Version /\ req'[c].file \in File
        /\ \A d \in Clients : d # c => req'[d] = req[d]
    BY <1>1 DEF Upload, TypeOK
  <2> QED
    BY <2>1 DEF NamedReq
<1>2. CASE UploadStat(c)
  <2>1. req[c].v \in Version /\ req[c].file \in File
    BY <1>2 DEF UploadStat, NamedReq
  <2> QED
    BY <1>2, <2>1, NamedAnswer, NamedGoto DEF UploadStat, Goto
<1>3. CASE UploadPublish(c)
  <2>1. req[c].v \in Version /\ req[c].file \in File
    BY <1>3 DEF UploadPublish, NamedReq
  <2> QED
    BY <1>3, <2>1, NamedAnswer, NamedGoto DEF UploadPublish, Goto
<1>4. CASE UploadInsert(c)
  <2>1. req[c].v \in Version /\ req[c].file \in File
    BY <1>4 DEF UploadInsert, NamedReq
  <2> QED
    BY <1>4, <2>1, NamedAnswer, NamedGoto DEF UploadInsert, Goto
<1>5. CASE UploadUndo(c)
  BY <1>5, NamedAnswer DEF UploadUndo
<1>6. CASE UploadPromote(c)
  BY <1>6, NamedAnswer DEF UploadPromote, SetActive
<1> QED
  BY <1>1, <1>2, <1>3, <1>4, <1>5, <1>6 DEF UploadStep

LEMMA NamedReqOther ==
  ASSUME TypeOK, NamedReq, NEW c \in Clients,
         ActivateStep(c) \/ DeleteStep(c) \/ AppStep(c)
  PROVE  NamedReq'
<1>1. CASE Activate(c) \/ Delete(c)
  BY <1>1, NamedEnter DEF Activate, Delete
<1>2. CASE ActivateFind(c)
  <2>1. req[c].v \in Version
    BY <1>2 DEF ActivateFind, NamedReq
  <2> QED
    BY <1>2, <2>1, NamedAnswer, NamedGoto DEF ActivateFind
<1>3. CASE DeleteLook(c)
  <2>1. req[c].v \in Version
    BY <1>3 DEF DeleteLook, NamedReq
  <2> QED
    BY <1>3, <2>1, NamedAnswer, NamedGoto DEF DeleteLook
<1>4. CASE DeleteRunning(c)
  <2>1. req[c].v \in Version
    BY <1>4 DEF DeleteRunning, NamedReq
  <2> QED
    BY <1>4, <2>1, NamedAnswer, NamedGoto DEF DeleteRunning, Goto
<1>5. CASE DeleteRow(c)
  <2>1. req[c].v \in Version
    BY <1>5 DEF DeleteRow, NamedReq
  <2> QED
    BY <1>5, <2>1, NamedAnswer, NamedGoto DEF DeleteRow, Goto
<1>6. CASE ActivateSet(c) \/ DeleteFiles(c) \/ DeleteAppRow(c)
  BY <1>6, NamedAnswer DEF ActivateSet, SetActive, DeleteFiles, DeleteAppRow
<1>7. CASE CreateApp(c)
  BY <1>7 DEF CreateApp, NamedReq
<1>8. CASE DeleteApp(c)
  <2>1. /\ req'[c].pc = "app row"
        /\ \A d \in Clients : d # c => req'[d] = req[d]
    BY <1>8 DEF DeleteApp, TypeOK
  <2> QED
    BY <2>1 DEF NamedReq
<1> QED
  BY <1>1, <1>2, <1>3, <1>4, <1>5, <1>6, <1>7, <1>8
     DEF ActivateStep, DeleteStep, AppStep

LEMMA NamedReqNext ==
  ASSUME TypeOK, NamedReq, [Next]_vars
  PROVE  NamedReq'
<1>1. ASSUME NEW c \in Clients,
             UploadStep(c) \/ ActivateStep(c) \/ DeleteStep(c) \/ AppStep(c)
      PROVE  NamedReq'
  BY <1>1, NamedReqUpload, NamedReqOther
<1>2. CASE LaunchMoves \/ ProcessExits \/ MarkStopped \/ UNCHANGED vars
  <2>1. req' = req
    BY <1>2 DEF LaunchMoves, LaunchApp, LaunchRow, LaunchVerify, LaunchStart,
                LaunchRecord, ProcessExits, MarkStopped, vars
  <2> QED
    BY <2>1 DEF NamedReq
<1>3. CASE Crash
  <2>1. \A d \in Clients : req'[d].pc = "idle"
    BY <1>3 DEF Crash, NoReq
  <2> QED
    BY <2>1 DEF NamedReq
<1> QED
  BY <1>1, <1>2, <1>3 DEF Next

\* The steps that write table artifacts: one INSERT and the two DELETEs.
LEMMA RowsNext ==
  ASSUME TypeOK, Named, [Next]_vars
  PROVE  \/ rows' = rows /\ ids' = ids
         \/ \E c \in Clients :
              /\ req[c].pc = "insert" /\ rows[req[c].v] = NoRow
              /\ ids' = ids + 1
              /\ rows' = [rows EXCEPT ![req[c].v] =
                            [id |-> ids + 1, file |-> req[c].file, sum |-> req[c].jar]]
         \/ \E c \in Clients : 
              /\ req[c].pc = "row" /\ ~Referenced(req[c].id) /\ ids' = ids
              /\ rows' = [v \in Version |-> IF rows[v].id = req[c].id THEN NoRow ELSE rows[v]]
         \/ /\ ids' = ids /\ active' = 0 /\ inst'.art = 0
            /\ rows' = [v \in Version |-> NoRow]
<1>1. ASSUME NEW c \in Clients, UploadStep(c)
      PROVE  \/ rows' = rows /\ ids' = ids
             \/ /\ req[c].pc = "insert" /\ rows[req[c].v] = NoRow
                /\ ids' = ids + 1
                /\ rows' = [rows EXCEPT ![req[c].v] =
                              [id |-> ids + 1, file |-> req[c].file, sum |-> req[c].jar]]
  BY <1>1 DEF UploadStep, Upload, UploadStat, UploadPublish, UploadInsert, UploadUndo,
              UploadPromote, SetActive, dbVars
<1>2. ASSUME NEW c \in Clients, ActivateStep(c)
      PROVE  rows' = rows /\ ids' = ids
  BY <1>2 DEF ActivateStep, Activate, ActivateFind, ActivateSet, SetActive, Enter, dbVars
<1>3. ASSUME NEW c \in Clients, DeleteStep(c)
      PROVE  \/ rows' = rows /\ ids' = ids
             \/ /\ req[c].pc = "row" /\ ~Referenced(req[c].id) /\ ids' = ids
                /\ rows' = [v \in Version |->
                              IF rows[v].id = req[c].id THEN NoRow ELSE rows[v]]
  BY <1>3 DEF DeleteStep, Delete, DeleteLook, DeleteRunning, DeleteRow, DeleteFiles, Enter,
              dbVars
<1>4. ASSUME NEW c \in Clients, AppStep(c)
      PROVE  \/ rows' = rows /\ ids' = ids
             \/ /\ ids' = ids /\ active' = 0 /\ inst'.art = 0
                /\ rows' = [v \in Version |-> NoRow]
  <2>1. \/ rows' = rows /\ ids' = ids
        \/ /\ ids' = ids /\ active' = 0 /\ inst' = NoInst
           /\ rows' = [v \in Version |-> NoRow]
    BY <1>4 DEF AppStep, CreateApp, DeleteApp, DeleteAppRow, dbVars
  <2>2. NoInst.art = 0
    BY DEF NoInst
  <2> QED
    BY <2>1, <2>2
<1>5. CASE LaunchMoves \/ ProcessExits \/ MarkStopped \/ Crash \/ UNCHANGED vars
  BY <1>5 DEF LaunchMoves, LaunchApp, LaunchRow, LaunchVerify, LaunchStart, LaunchRecord,
              ProcessExits, MarkStopped, Crash, vars, dbVars
<1> QED
  BY <1>1, <1>2, <1>3, <1>4, <1>5 DEF Next

LEMMA NamedRowNext ==
  ASSUME TypeOK, Named, [Next]_vars
  PROVE  NamedRow'
<1>1. CASE rows' = rows
  BY <1>1 DEF Named, NamedRow
<1>2. ASSUME NEW c \in Clients, req[c].pc = "insert", ids' = ids + 1,
             rows' = [rows EXCEPT ![req[c].v] =
                        [id |-> ids + 1, file |-> req[c].file, sum |-> req[c].jar]]
      PROVE  NamedRow'
  <2>1. req[c].v \in Version /\ req[c].file \in File
    BY <1>2 DEF Named, NamedReq
  <2>2. /\ rows'[req[c].v].file = req[c].file /\ rows'[req[c].v].id = ids + 1
        /\ \A v \in Version : v # req[c].v => rows'[v] = rows[v]
    BY <1>2, <2>1 DEF TypeOK
  <2>3. ids + 1 # 0
    BY DEF TypeOK
  <2> QED
    BY <2>1, <2>2, <2>3 DEF Named, NamedRow
<1>3. ASSUME \A v \in Version : rows'[v] = NoRow \/ rows'[v] = rows[v]
      PROVE  NamedRow'
  BY <1>3 DEF Named, NamedRow
<1> QED
  BY <1>1, <1>2, <1>3, RowsNext

LEMMA NamedLaunchNext ==
  ASSUME TypeOK, Named, [Next]_vars
  PROVE  NamedLaunch'
<1>1. CASE launch' = launch
  BY <1>1 DEF Named, NamedLaunch
<1>2. CASE LaunchRow
  <2>1. ASSUME NEW v \in Version, rows[v] # NoRow, launch' = LaunchGoes("verify", v, rows[v])
        PROVE  NamedLaunch'
    <3>1. launch'.v = v /\ launch'.row = rows[v]
      BY <2>1 DEF LaunchGoes
    <3>2. rows[v].file \in File
      BY <2>1 DEF Named, NamedRow
    <3> QED
      BY <3>1, <3>2 DEF NamedLaunch
  <2>2. CASE launch' = NoLaunch
    BY <2>2 DEF NamedLaunch, NoLaunch
  <2> QED
    BY <1>2, <2>1, <2>2 DEF LaunchRow
<1>3. CASE LaunchVerify \/ LaunchStart
  <2>1. launch.v \in Version /\ launch.row.file \in File
    BY <1>3 DEF LaunchVerify, LaunchStart, Named, NamedLaunch
  <2>2. CASE launch' = NoLaunch
    BY <2>2 DEF NamedLaunch, NoLaunch
  <2>3. CASE \E pc \in LaunchStep : launch' = LaunchGoes(pc, launch.v, launch.row)
    BY <2>1, <2>3 DEF NamedLaunch, LaunchGoes
  <2> QED
    BY <1>3, <2>2, <2>3 DEF LaunchVerify, LaunchStart, LaunchStep
<1>4. CASE launch' = NoLaunch
  BY <1>4 DEF NamedLaunch, NoLaunch
<1>5. CASE LaunchApp
  BY <1>5 DEF LaunchApp, NamedLaunch
<1>6. \/ launch' = launch \/ launch' = NoLaunch
      \/ LaunchApp \/ LaunchRow \/ LaunchVerify \/ LaunchStart
  <2>1. ASSUME NEW c \in Clients,
               UploadStep(c) \/ ActivateStep(c) \/ DeleteStep(c) \/ AppStep(c)
        PROVE  launch' = launch
    <3>1. CASE UploadStep(c)
      BY <3>1 DEF UploadStep, Upload, UploadStat, UploadPublish, UploadInsert, UploadUndo,
                  UploadPromote, SetActive, runVars
    <3>2. CASE ActivateStep(c)
      BY <3>2 DEF ActivateStep, Activate, ActivateFind, ActivateSet, SetActive, Enter, runVars
    <3>3. CASE DeleteStep(c)
      BY <3>3 DEF DeleteStep, Delete, DeleteLook, DeleteRunning, DeleteRow, DeleteFiles,
                  Enter, runVars
    <3>4. CASE AppStep(c)
      BY <3>4 DEF AppStep, CreateApp, DeleteApp, DeleteAppRow, runVars
    <3> QED
      BY <2>1, <3>1, <3>2, <3>3, <3>4
  <2>2. CASE ProcessExits \/ MarkStopped \/ UNCHANGED vars
    BY <2>2 DEF ProcessExits, MarkStopped, vars
  <2>3. CASE Crash \/ LaunchRecord
    BY <2>3 DEF Crash, LaunchRecord
  <2> QED
    BY <2>1, <2>2, <2>3 DEF Next, LaunchMoves
<1> QED
  BY <1>1, <1>2, <1>3, <1>4, <1>5, <1>6

LEMMA TypeInit == Init => TypeOK /\ Named
<1> SUFFICES ASSUME Init PROVE TypeOK /\ Named
  OBVIOUS
<1>1. 0 \in 0..MaxApp /\ 0 \in 0..MaxId
  BY ArtifactsAssumption
<1>2. TypeOK
  BY <1>1, NoneTypes DEF Init, TypeOK
<1>3. \A c \in Clients : req[c].pc = "idle"
  BY DEF Init, NoReq
<1>4. launch.pc = "idle" /\ \A v \in Version : rows[v] = NoRow
  BY DEF Init, NoLaunch
<1> QED
  BY <1>2, <1>3, <1>4 DEF Named, NamedReq, NamedRow, NamedLaunch

LEMMA NamedNext ==
  ASSUME TypeOK, Named, [Next]_vars
  PROVE  Named'
BY NamedReqNext, NamedRowNext, NamedLaunchNext DEF Named

LEMMA NamedHolds == Spec => [](TypeOK /\ Named)
<1>1. TypeOK /\ Named /\ [Next]_vars => (TypeOK /\ Named)'
  BY TypeNext, NamedNext
<1> QED
  BY TypeInit, <1>1, PTL DEF Spec

\* Every reachable state of the repository, the tables and the requests has the
\* types declared.
THEOREM ArtifactTypes == Spec => []TypeOK
BY NamedHolds, PTL

-----------------------------------------------------------------------------
(***************************************************************************)
(* The references resolve.                                                 *)
(***************************************************************************)

\* The id a step makes the application or its instance refer to is that of a
\* row; the others they referred to before.
LEMMA ReferencesNext ==
  ASSUME TypeOK, Named, [Next]_vars
  PROVE  /\ \/ active' = active \/ active' = 0
            \/ rows' = rows /\ RowExists(active')
         /\ \/ inst'.art = inst.art \/ inst'.art = 0
            \/ rows' = rows /\ RowExists(inst'.art)
<1> DEFINE Ok == /\ \/ active' = active \/ active' = 0
                    \/ rows' = rows /\ RowExists(active')
                 /\ \/ inst'.art = inst.art \/ inst'.art = 0
                    \/ rows' = rows /\ RowExists(inst'.art)
<1>1. ASSUME NEW c \in Clients, UploadStep(c) PROVE Ok
  BY <1>1 DEF UploadStep, Upload, UploadStat, UploadPublish, UploadInsert, UploadUndo,
              UploadPromote, SetActive, dbVars, runVars
<1>2. ASSUME NEW c \in Clients, ActivateStep(c) PROVE Ok
  BY <1>2 DEF ActivateStep, Activate, ActivateFind, ActivateSet, SetActive, Enter,
              dbVars, runVars
<1>3. ASSUME NEW c \in Clients, DeleteStep(c) PROVE Ok
  BY <1>3 DEF DeleteStep, Delete, DeleteLook, DeleteRunning, DeleteRow, DeleteFiles, Enter,
              dbVars, runVars
<1>4. ASSUME NEW c \in Clients, AppStep(c) PROVE Ok
  <2>1. NoInst.art = 0
    BY DEF NoInst
  <2>2. active' = active \/ active' = 0
    BY <1>4 DEF AppStep, CreateApp, DeleteApp, DeleteAppRow, dbVars
  <2>3. inst' = inst \/ inst' = NoInst
    BY <1>4 DEF AppStep, CreateApp, DeleteApp, DeleteAppRow, runVars
  <2> QED
    BY <2>1, <2>2, <2>3
<1>5. CASE LaunchRecord
  <2>1. active' = active /\ rows' = rows
    BY <1>5 DEF LaunchRecord, dbVars
  <2>2. \/ inst' = inst
        \/ /\ inst' = [live |-> TRUE, art |-> launch.id]
           /\ launch.id = 0 \/ RowExists(launch.id)
    BY <1>5 DEF LaunchRecord
  <2> QED
    BY <2>1, <2>2
<1>6. CASE LaunchApp \/ LaunchRow \/ LaunchVerify \/ LaunchStart \/ ProcessExits
           \/ Crash \/ UNCHANGED vars
  BY <1>6 DEF LaunchApp, LaunchRow, LaunchVerify, LaunchStart, ProcessExits, Crash,
              vars, dbVars
<1>7. CASE MarkStopped
  BY <1>7 DEF MarkStopped, dbVars
<1>8. Ok
  BY <1>1, <1>2, <1>3, <1>4, <1>5, <1>6, <1>7 DEF Next, LaunchMoves
<1> QED
  BY <1>8

\* A row that is referred to stays: an INSERT fills a version without a row, the
\* foreign keys refuse the DELETE, and with the application the references go.
LEMMA ReferencedStays ==
  ASSUME TypeOK, Named, [Next]_vars, NEW id \in 0..MaxId, RowExists(id), Referenced(id),
         ~(active' = 0 /\ inst'.art = 0)
  PROVE  id # 0 /\ \E v \in Version : rows'[v].id = id
<1>1. PICK v \in Version : rows[v].id = id /\ id # 0
  BY DEF RowExists
<1>2. CASE rows' = rows
  BY <1>1, <1>2
<1>3. ASSUME NEW c \in Clients, rows[req[c].v] = NoRow,
             rows' = [rows EXCEPT ![req[c].v] =
                        [id |-> ids + 1, file |-> req[c].file, sum |-> req[c].jar]]
      PROVE  rows'[v].id = id
  <2>1. v # req[c].v
    BY <1>1, <1>3 DEF NoRow
  <2> QED
    BY <1>1, <1>3, <2>1 DEF TypeOK
<1>4. ASSUME NEW c \in Clients, ~Referenced(req[c].id),
             rows' = [u \in Version |-> IF rows[u].id = req[c].id THEN NoRow ELSE rows[u]]
      PROVE  rows'[v].id = id
  BY <1>1, <1>4
<1> QED
  BY <1>1, <1>2, <1>3, <1>4, RowsNext

LEMMA ReferencesStep ==
  ASSUME TypeOK, Named, ReferencesResolve, [Next]_vars
  PROVE  ReferencesResolve'
<1>1. active \in 0..MaxId /\ inst.art \in 0..MaxId
  BY DEF TypeOK, InstState
<1>2. CASE active' = 0 /\ inst'.art = 0
  BY <1>2 DEF ReferencesResolve
<1>3. CASE ~(active' = 0 /\ inst'.art = 0)
  <2>1. ASSUME active # 0 PROVE \E v \in Version : rows'[v].id = active
    BY <1>1, <1>3, <2>1, ReferencedStays DEF ReferencesResolve, Referenced
  <2>2. ASSUME inst.art # 0 PROVE \E v \in Version : rows'[v].id = inst.art
    BY <1>1, <1>3, <2>2, ReferencedStays DEF ReferencesResolve, Referenced
  <2>3. ASSUME active' # 0 PROVE \E v \in Version : rows'[v].id = active'
    BY <2>1, <2>3, ReferencesNext DEF RowExists
  <2>4. ASSUME inst'.art # 0 PROVE \E v \in Version : rows'[v].id = inst'.art
    BY <2>2, <2>4, ReferencesNext DEF RowExists
  <2> QED
    BY <2>3, <2>4 DEF ReferencesResolve, RowExists
<1> QED
  BY <1>2, <1>3

\* Neither the promoted version nor the one a process is recorded to run is ever
\* deleted, however promotions, deletions and launches interleave.
THEOREM ReferencesHold == Spec => []ReferencesResolve
<1>1. Init => ReferencesResolve
  BY DEF Init, ReferencesResolve, NoInst
<1>2. TypeOK /\ Named /\ ReferencesResolve /\ [Next]_vars => ReferencesResolve'
  BY ReferencesStep
<1> QED
  BY <1>1, <1>2, NamedHolds, PTL DEF Spec

-----------------------------------------------------------------------------
(***************************************************************************)
(* Ids.  A deletion removes the row by id and the files by version: no jar *)
(* goes astray only because, until then, the id is that of no other        *)
(* version, which AUTOINCREMENT gives.                                     *)
(***************************************************************************)

NumberedRows ==
  \A v \in Version :
    /\ rows[v].id <= ids
    /\ \A w \in Version : rows[v].id = rows[w].id /\ rows[v].id # 0 => v = w
NumberedReq ==
  \A c \in Clients : req[c].pc \in {"running", "row"} =>
    /\ req[c].id # 0 /\ req[c].id <= ids
    /\ \A v \in Version : rows[v].id = req[c].id => v = req[c].v
Numbered == NumberedRows /\ NumberedReq

LEMMA RowId ==
  ASSUME TypeOK, NEW v \in Version
  PROVE  rows[v].id \in Nat
BY ArtifactsAssumption DEF TypeOK, RowState

LEMMA NumberedRowsNext ==
  ASSUME TypeOK, Named, Numbered, [Next]_vars
  PROVE  NumberedRows'
<1> ids \in Nat
  BY ArtifactsAssumption DEF TypeOK
<1>1. CASE rows' = rows /\ ids' = ids
  BY <1>1 DEF Numbered, NumberedRows
<1>2. ASSUME NEW c \in Clients, req[c].pc = "insert", ids' = ids + 1,
             rows' = [rows EXCEPT ![req[c].v] =
                        [id |-> ids + 1, file |-> req[c].file, sum |-> req[c].jar]]
      PROVE  NumberedRows'
  <2>1. req[c].v \in Version
    BY <1>2 DEF Named, NamedReq
  <2>2. /\ rows'[req[c].v].id = ids + 1
        /\ \A v \in Version : v # req[c].v => rows'[v] = rows[v]
    BY <1>2, <2>1 DEF TypeOK
  <2> QED
    BY <1>2, <2>2, RowId DEF Numbered, NumberedRows
<1>3. ASSUME ids' = ids, \A v \in Version : rows'[v] = NoRow \/ rows'[v] = rows[v]
      PROVE  NumberedRows'
  <2>1. \A v \in Version : rows'[v].id = 0 \/ rows'[v].id = rows[v].id
    BY <1>3 DEF NoRow
  <2> QED
    BY <1>3, <2>1, RowId DEF Numbered, NumberedRows
<1> QED
  BY <1>1, <1>2, <1>3, RowsNext

\* A request about to delete a row was so before, or has just looked it up.
LEMMA DeletingNext ==
  ASSUME TypeOK, Named, [Next]_vars, NEW c \in Clients, req'[c].pc \in {"running", "row"}
  PROVE  \/ req'[c] = req[c]
         \/ /\ rows' = rows /\ ids' = ids /\ req'[c].v = req[c].v
            /\ \/ req[c].pc = "running" /\ req'[c].id = req[c].id
               \/ /\ req[c].pc = "look" /\ rows[req[c].v] # NoRow
                  /\ req'[c].id = rows[req[c].v].id
<1> DEFINE Ok == \/ req'[c] = req[c]
                 \/ /\ rows' = rows /\ ids' = ids /\ req'[c].v = req[c].v
                    /\ \/ req[c].pc = "running" /\ req'[c].id = req[c].id
                       \/ /\ req[c].pc = "look" /\ rows[req[c].v] # NoRow
                          /\ req'[c].id = rows[req[c].v].id
<1>1. ASSUME NEW d \in Clients, Answer(d) PROVE Ok
  BY <1>1, AnswerFacts
<1>2. ASSUME NEW d \in Clients, NEW pc \in ReqStep \ {"running", "row"}, NEW id,
             GotoWith(d, pc, id)
      PROVE  Ok
  BY <1>2, GotoFacts
<1>3. ASSUME NEW d \in Clients, UploadStep(d) PROVE Ok
  <2>1. CASE Upload(d)
    BY <2>1 DEF Upload, TypeOK
  <2>2. CASE UploadStat(d) \/ UploadPublish(d) \/ UploadInsert(d) \/ UploadUndo(d)
             \/ UploadPromote(d)
    <3>1. Answer(d) \/ \E pc \in {"publish", "insert", "undo", "promote"}, id \in Nat :
                         GotoWith(d, pc, id)
      <4>1. ids + 1 \in Nat /\ req[d].id \in Nat
        BY ReqTypes, ArtifactsAssumption DEF TypeOK
      <4> QED
        BY <2>2, <4>1 DEF UploadStat, UploadPublish, UploadInsert, UploadUndo, UploadPromote,
                      SetActive, Goto
    <3> QED
      BY <3>1, <1>1, <1>2 DEF ReqStep
  <2> QED
    BY <1>3, <2>1, <2>2 DEF UploadStep
<1>4. ASSUME NEW d \in Clients, ActivateStep(d) \/ Delete(d) \/ AppStep(d) PROVE Ok
  <2>1. CASE Activate(d) \/ Delete(d)
    BY <2>1 DEF Activate, Delete, Enter, TypeOK
  <2>2. CASE ActivateFind(d) \/ ActivateSet(d) \/ DeleteAppRow(d)
    <3>1. Answer(d) \/ \E id : GotoWith(d, "set", id)
      BY <2>2 DEF ActivateFind, ActivateSet, SetActive, DeleteAppRow
    <3> QED
      BY <3>1, <1>1, <1>2 DEF ReqStep
  <2>3. CASE CreateApp(d)
    BY <2>3 DEF CreateApp
  <2>4. CASE DeleteApp(d)
    <3>1. req'[d].pc = "app row" /\ \A e \in Clients : e # d => req'[e] = req[e]
      BY <2>4 DEF DeleteApp, TypeOK
    <3> QED
      BY <3>1
  <2> QED
    BY <1>4, <2>1, <2>2, <2>3, <2>4 DEF ActivateStep, AppStep
<1>5. ASSUME NEW d \in Clients, DeleteStep(d), ~Delete(d) PROVE Ok
  <2>1. CASE DeleteLook(d)
    <3>1. CASE Answer(d)
      BY <3>1, <1>1
    <3>2. CASE Row(d) # NoRow /\ GotoWith(d, "running", Row(d).id)
      <4>1. Row(d) = rows[req[d].v]
        BY <3>2 DEF Row
      <4>2. rows' = rows /\ ids' = ids /\ req[d].pc = "look"
        BY <2>1 DEF DeleteLook, dbVars
      <4> QED
        BY <3>2, <4>1, <4>2, GotoFacts
    <3> QED
      BY <2>1, <3>1, <3>2 DEF DeleteLook
  <2>2. CASE DeleteRunning(d)
    <3>1. CASE Answer(d)
      BY <3>1, <1>1
    <3>2. CASE GotoWith(d, "row", req[d].id)
      <4>1. rows' = rows /\ ids' = ids /\ req[d].pc = "running"
        BY <2>2 DEF DeleteRunning, dbVars
      <4> QED
        BY <3>2, <4>1, GotoFacts
    <3> QED
      BY <2>2, <3>1, <3>2 DEF DeleteRunning, Goto
  <2>3. CASE DeleteRow(d) \/ DeleteFiles(d)
    <3>1. Answer(d) \/ \E id : GotoWith(d, "files", id)
      BY <2>3 DEF DeleteRow, DeleteFiles, Goto
    <3> QED
      BY <3>1, <1>1, <1>2 DEF ReqStep
  <2> QED
    BY <1>5, <2>1, <2>2, <2>3 DEF DeleteStep
<1>6. CASE LaunchMoves \/ ProcessExits \/ MarkStopped \/ UNCHANGED vars
  BY <1>6 DEF LaunchMoves, LaunchApp, LaunchRow, LaunchVerify, LaunchStart, LaunchRecord,
              ProcessExits, MarkStopped, vars
<1>7. CASE Crash
  <2>1. req'[c].pc = "idle"
    BY <1>7 DEF Crash, NoReq
  <2> QED
    BY <2>1
<1> QED
  BY <1>3, <1>4, <1>5, <1>6, <1>7 DEF Next, DeleteStep

LEMMA NumberedReqNext ==
  ASSUME TypeOK, Named, Numbered, [Next]_vars
  PROVE  NumberedReq'
<1> SUFFICES ASSUME NEW c \in Clients, req'[c].pc \in {"running", "row"}
             PROVE  /\ req'[c].id # 0 /\ req'[c].id <= ids'
                    /\ \A v \in Version : rows'[v].id = req'[c].id => v = req'[c].v
  BY DEF NumberedReq
<1> ids \in Nat /\ req[c].id \in Nat
  BY ReqTypes, ArtifactsAssumption DEF TypeOK
<1>1. CASE req'[c] = req[c]
  <2>1. /\ req[c].id # 0 /\ req[c].id <= ids
        /\ \A v \in Version : rows[v].id = req[c].id => v = req[c].v
    BY <1>1 DEF Numbered, NumberedReq
  <2>2. ids' = ids \/ ids' = ids + 1
    BY RowsNext
  <2>3. ASSUME NEW v \in Version PROVE rows'[v].id # req[c].id \/ rows'[v].id = rows[v].id
    <3>1. CASE rows' = rows
      BY <3>1
    <3>2. ASSUME NEW d \in Clients,
                 rows' = [rows EXCEPT ![req[d].v] =
                            [id |-> ids + 1, file |-> req[d].file, sum |-> req[d].jar]]
          PROVE  rows'[v].id = ids + 1 \/ rows'[v].id = rows[v].id
      BY <3>2 DEF TypeOK
    <3>3. ASSUME rows'[v] = NoRow \/ rows'[v] = rows[v]
          PROVE  rows'[v].id = 0 \/ rows'[v].id = rows[v].id
      BY <3>3 DEF NoRow
    <3>4. \/ rows'[v].id = rows[v].id \/ rows'[v].id = ids + 1 \/ rows'[v].id = 0
      BY <3>1, <3>2, <3>3, RowsNext
    <3> QED
      BY <2>1, <3>4, RowId
  <2>4. req'[c].id # 0 /\ req'[c].id <= ids'
    BY <1>1, <2>1, <2>2
  <2>5. ASSUME NEW v \in Version, rows'[v].id = req'[c].id PROVE v = req'[c].v
    BY <1>1, <2>1, <2>3, <2>5
  <2> QED
    BY <2>4, <2>5
<1>2. CASE /\ rows' = rows /\ ids' = ids /\ req'[c].v = req[c].v
           /\ req[c].pc = "running" /\ req'[c].id = req[c].id
  BY <1>2 DEF Numbered, NumberedReq
<1>3. CASE /\ rows' = rows /\ ids' = ids /\ req'[c].v = req[c].v
           /\ req[c].pc = "look" /\ rows[req[c].v] # NoRow
           /\ req'[c].id = rows[req[c].v].id
  <2>1. req[c].v \in Version
    BY <1>3 DEF Named, NamedReq
  <2>2. rows[req[c].v].id # 0
    BY <1>3, <2>1 DEF Named, NamedRow
  <2> QED
    BY <1>3, <2>1, <2>2 DEF Numbered, NumberedRows
<1> QED
  BY <1>1, <1>2, <1>3, DeletingNext

LEMMA NumberedHolds == Spec => [](TypeOK /\ Named /\ Numbered)
<1>1. ASSUME Init PROVE Numbered
  <2>1. ids = 0 /\ \A v \in Version : rows[v].id = 0
    BY <1>1 DEF Init, NoRow
  <2>2. \A c \in Clients : req[c].pc = "idle"
    BY <1>1 DEF Init, NoReq
  <2> QED
    BY <2>1, <2>2 DEF Numbered, NumberedRows, NumberedReq
<1>2. TypeOK /\ Named /\ Numbered /\ [Next]_vars => Numbered'
  BY NumberedRowsNext, NumberedReqNext DEF Numbered
<1> QED
  BY <1>1, <1>2, NamedHolds, PTL DEF Spec

-----------------------------------------------------------------------------
(***************************************************************************)
(* No stray jar.                                                           *)
(***************************************************************************)

\* InHand and NoStrayJar by version and file.
Holding(c, v, f) ==
  \/ req[c].pc = "insert" /\ req[c].v = v /\ req[c].file = f
  \/ req[c].pc \in {"undo", "files"} /\ req[c].v = v
Kept(v, f) ==
  \/ rows[v].file = f
  \/ <<v, f>> \in left
  \/ \E c \in Clients : Holding(c, v, f)
AllKept == \A v \in Version, f \in File : disk[v][f] # None => Kept(v, f)

LEMMA HoldingInHand ==
  ASSUME NEW c, NEW v, NEW f \in File
  PROVE  Holding(c, v, f) <=> <<v, f>> \in InHand(c)
BY DEF Holding, InHand

LEMMA AllKeptNoStrayJar == AllKept => NoStrayJar
<1> SUFFICES ASSUME AllKept, NEW p \in Version \X File, disk[p[1]][p[2]] # None
             PROVE  \/ rows[p[1]].file = p[2] \/ p \in left
                    \/ \E c \in Clients : p \in InHand(c)
  BY DEF NoStrayJar, OnDisk
<1>1. PICK v \in Version, f \in File : p = <<v, f>>
  OBVIOUS
<1>2. Kept(v, f)
  BY <1>1 DEF AllKept
<1> QED
  BY <1>1, <1>2, HoldingInHand DEF Kept

\* A step of a request with no file in hand that touches neither files nor rows.
LEMMA QuietStep ==
  ASSUME AllKept, disk' = disk, rows' = rows, left' = left,
         NEW c \in Clients, req[c].pc \notin {"insert", "undo", "files"},
         \A d \in Clients : d # c => req'[d] = req[d]
  PROVE  AllKept'
<1> SUFFICES ASSUME NEW v \in Version, NEW f \in File, disk[v][f] # None, Kept(v, f)
             PROVE  Kept(v, f)'
  BY DEF AllKept
<1>1. ASSUME NEW d \in Clients, Holding(d, v, f) PROVE Holding(d, v, f)'
  BY <1>1 DEF Holding
<1> QED
  BY <1>1 DEF Kept

\* What is left of a version after Remove is in left.
LEMMA RemoveStep ==
  ASSUME TypeOK, AllKept, NEW c \in Clients, req[c].v \in Version,
         Remove(req[c].v), rows' = rows,
         \A d \in Clients : d # c => req'[d] = req[d],
         req[c].pc # "insert"
  PROVE  AllKept'
<1> SUFFICES ASSUME NEW v \in Version, NEW f \in File, disk'[v][f] # None
             PROVE  Kept(v, f)'
  BY DEF AllKept
<1> DEFINE u == req[c].v
<1>1. PICK stay \in SUBSET {g \in File : disk[u][g] # None} :
        /\ disk' = [disk EXCEPT ![u] = [g \in File |-> IF g \in stay THEN @[g] ELSE None]]
        /\ left' = {p \in left : p[1] # u} \cup ({u} \X stay)
  BY DEF Remove
<1>2. CASE v = u
  <2>1. f \in stay
    BY <1>1, <1>2 DEF TypeOK
  <2> QED
    BY <1>1, <1>2, <2>1 DEF Kept
<1>3. CASE v # u
  <2>1. Kept(v, f)
    BY <1>1, <1>3 DEF AllKept, TypeOK
  <2>2. ASSUME <<v, f>> \in left PROVE <<v, f>> \in left'
    BY <1>1, <1>3, <2>2
  <2>3. ASSUME NEW d \in Clients, Holding(d, v, f) PROVE Holding(d, v, f)'
    <3>1. d # c
      BY <1>3, <2>3 DEF Holding
    <3> QED
      BY <2>3, <3>1 DEF Holding
  <2> QED
    BY <2>1, <2>2, <2>3 DEF Kept
<1> QED
  BY <1>2, <1>3

LEMMA PublishStep ==
  ASSUME TypeOK, Named, AllKept, NEW c \in Clients, UploadPublish(c)
  PROVE  AllKept'
<1>1. req[c].v \in Version /\ req[c].file \in File /\ req[c].pc = "publish"
  BY DEF UploadPublish, Named, NamedReq
<1>2. rows' = rows
  BY DEF UploadPublish, dbVars
<1>3. CASE Answer(c) /\ disk' = disk /\ left' = left
  BY <1>1, <1>2, <1>3, AnswerFacts, QuietStep
<1>4. CASE /\ disk' = [disk EXCEPT ![req[c].v][req[c].file] = req[c].jar]
           /\ left' = left \ {<<req[c].v, req[c].file>>}
           /\ GotoWith(c, "insert", req[c].id)
  <2> SUFFICES ASSUME NEW v \in Version, NEW f \in File, disk'[v][f] # None
               PROVE  Kept(v, f)'
    BY DEF AllKept
  <2>1. CASE v = req[c].v /\ f = req[c].file
    <3>1. Holding(c, v, f)'
      BY <1>4, <2>1, GotoFacts DEF Holding
    <3> QED
      BY <3>1 DEF Kept
  <2>2. CASE ~(v = req[c].v /\ f = req[c].file)
    <3>1. Kept(v, f)
      BY <1>4, <2>2 DEF AllKept, TypeOK
    <3>2. ASSUME NEW d \in Clients, Holding(d, v, f) PROVE Holding(d, v, f)'
      <4>1. d # c
        BY <1>1, <3>2 DEF Holding
      <4>2. req'[d] = req[d]
        BY <1>4, <4>1, GotoFacts
      <4> QED
        BY <3>2, <4>2 DEF Holding
    <3>3. <<v, f>> \in left => <<v, f>> \in left'
      BY <1>4, <2>2
    <3> QED
      BY <1>2, <3>1, <3>2, <3>3 DEF Kept
  <2> QED
    BY <2>1, <2>2
<1> QED
  BY <1>3, <1>4 DEF UploadPublish, Goto

LEMMA InsertStep ==
  ASSUME TypeOK, Named, AllKept, NEW c \in Clients, UploadInsert(c)
  PROVE  AllKept'
<1>1. req[c].v \in Version /\ req[c].file \in File /\ req[c].pc = "insert"
  BY DEF UploadInsert, Named, NamedReq
<1>2. disk' = disk /\ left' = left
  BY DEF UploadInsert
<1>3. \A d \in Clients : d # c => req'[d] = req[d]
  BY AnswerFacts, GotoFacts DEF UploadInsert, Goto
<1> SUFFICES ASSUME NEW v \in Version, NEW f \in File, Kept(v, f)
             PROVE  Kept(v, f)'
  BY <1>2 DEF AllKept
<1>4. ASSUME NEW d \in Clients, d # c, Holding(d, v, f) PROVE Holding(d, v, f)'
  BY <1>3, <1>4 DEF Holding
<1>5. CASE GotoWith(c, "undo", req[c].id) /\ rows' = rows
  <2>1. Holding(c, v, f) => Holding(c, v, f)'
    BY <1>1, <1>5, GotoFacts DEF Holding
  <2> QED
    BY <1>2, <1>4, <1>5, <2>1 DEF Kept
<1>6. CASE /\ rows[req[c].v] = NoRow
           /\ rows' = [rows EXCEPT ![req[c].v] =
                         [id |-> ids + 1, file |-> req[c].file, sum |-> req[c].jar]]
  <2>1. rows'[req[c].v].file = req[c].file
    BY <1>1, <1>6 DEF TypeOK
  <2>2. rows[v].file = f => rows'[v].file = f
    <3>1. v = req[c].v => rows[v].file # f
      BY <1>6, ArtifactsAssumption DEF NoRow
    <3> QED
      BY <1>6, <3>1 DEF TypeOK
  <2>3. Holding(c, v, f) => rows'[v].file = f
    BY <1>1, <2>1 DEF Holding
  <2> QED
    BY <1>2, <1>4, <2>2, <2>3 DEF Kept
<1> QED
  BY <1>5, <1>6 DEF UploadInsert, Goto

\* The version whose row goes is the one whose files the request removes next.
LEMMA DeleteRowStep ==
  ASSUME TypeOK, Named, Numbered, AllKept, NEW c \in Clients, DeleteRow(c)
  PROVE  AllKept'
<1>1. req[c].pc = "row" /\ disk' = disk /\ left' = left
  BY DEF DeleteRow
<1>2. CASE Answer(c) /\ rows' = rows
  BY <1>1, <1>2, AnswerFacts, QuietStep
<1>3. CASE /\ rows' = [v \in Version |-> IF rows[v].id = req[c].id THEN NoRow ELSE rows[v]]
           /\ GotoWith(c, "files", req[c].id)
  <2> SUFFICES ASSUME NEW v \in Version, NEW f \in File, Kept(v, f)
               PROVE  Kept(v, f)'
    BY <1>1 DEF AllKept
  <2>1. ASSUME NEW d \in Clients, Holding(d, v, f) PROVE Holding(d, v, f)'
    <3>1. d # c
      BY <1>1, <2>1 DEF Holding
    <3>2. req'[d] = req[d]
      BY <1>3, <3>1, GotoFacts
    <3> QED
      BY <2>1, <3>2 DEF Holding
  <2>2. CASE rows[v].id = req[c].id
    <3>1. v = req[c].v
      BY <1>1, <2>2 DEF Numbered, NumberedReq
    <3>2. Holding(c, v, f)'
      BY <1>3, <3>1, GotoFacts DEF Holding
    <3> QED
      BY <3>2 DEF Kept
  <2>3. CASE rows[v].id # req[c].id
    <3>1. rows'[v] = rows[v]
      BY <1>3, <2>3
    <3> QED
      BY <1>1, <2>1, <3>1 DEF Kept
  <2> QED
    BY <2>2, <2>3
<1> QED
  BY <1>2, <1>3 DEF DeleteRow, Goto

LEMMA KeptUpload ==
  ASSUME TypeOK, Named, AllKept, NEW c \in Clients, UploadStep(c)
  PROVE  AllKept'
<1>1. CASE Upload(c)
  <2>1. disk' = disk /\ rows' = rows /\ left' = left
    BY <1>1 DEF Upload, dbVars
  <2>2. req[c].pc = "idle" /\ \A d \in Clients : d # c => req'[d] = req[d]
    BY <1>1 DEF Upload, TypeOK
  <2> QED
    BY <2>1, <2>2, QuietStep
<1>2. CASE UploadStat(c)
  <2>1. disk' = disk /\ rows' = rows /\ left' = left /\ req[c].pc = "stat"
    BY <1>2 DEF UploadStat, dbVars
  <2>2. \A d \in Clients : d # c => req'[d] = req[d]
    BY <1>2, AnswerFacts, GotoFacts DEF UploadStat, Goto
  <2> QED
    BY <2>1, <2>2, QuietStep
<1>3. CASE UploadUndo(c)
  <2>1. req[c].pc = "undo" /\ req[c].v \in Version
    BY <1>3 DEF UploadUndo, Named, NamedReq
  <2>2. Remove(req[c].v) /\ Answer(c) /\ rows' = rows
    BY <1>3 DEF UploadUndo, dbVars
  <2> QED
    BY <2>1, <2>2, AnswerFacts, RemoveStep
<1>4. CASE UploadPromote(c)
  <2>1. /\ disk' = disk /\ rows' = rows /\ left' = left /\ req[c].pc = "promote"
        /\ Answer(c)
    BY <1>4 DEF UploadPromote, SetActive
  <2> QED
    BY <2>1, AnswerFacts, QuietStep
<1> QED
  BY <1>1, <1>2, <1>3, <1>4, PublishStep, InsertStep DEF UploadStep

LEMMA KeptOther ==
  ASSUME TypeOK, Named, Numbered, AllKept, NEW c \in Clients,
         ActivateStep(c) \/ DeleteStep(c) \/ AppStep(c)
  PROVE  AllKept'
<1>1. CASE Activate(c) \/ Delete(c)
  <2>1. disk' = disk /\ rows' = rows /\ left' = left
    BY <1>1 DEF Activate, Delete, Enter, dbVars
  <2>2. req[c].pc = "idle" /\ \A d \in Clients : d # c => req'[d] = req[d]
    BY <1>1 DEF Activate, Delete, Enter, TypeOK
  <2> QED
    BY <2>1, <2>2, QuietStep
<1>2. CASE ActivateFind(c) \/ DeleteLook(c) \/ DeleteRunning(c)
  <2>1. /\ disk' = disk /\ rows' = rows /\ left' = left
        /\ req[c].pc \in {"find", "look", "running"}
    BY <1>2 DEF ActivateFind, DeleteLook, DeleteRunning, dbVars
  <2>2. \A d \in Clients : d # c => req'[d] = req[d]
    BY <1>2, AnswerFacts, GotoFacts DEF ActivateFind, DeleteLook, DeleteRunning, Goto
  <2> QED
    BY <2>1, <2>2, QuietStep
<1>3. CASE ActivateSet(c)
  <2>1. /\ disk' = disk /\ rows' = rows /\ left' = left /\ req[c].pc = "set"
        /\ Answer(c)
    BY <1>3 DEF ActivateSet, SetActive
  <2> QED
    BY <2>1, AnswerFacts, QuietStep
<1>4. CASE DeleteFiles(c)
  <2>1. req[c].pc = "files" /\ req[c].v \in Version
    BY <1>4 DEF DeleteFiles, Named, NamedReq
  <2>2. Remove(req[c].v) /\ Answer(c) /\ rows' = rows
    BY <1>4 DEF DeleteFiles, dbVars
  <2> QED
    BY <2>1, <2>2, AnswerFacts, RemoveStep
<1>5. CASE CreateApp(c)
  <2>1. /\ disk' = disk /\ rows' = rows /\ left' = left /\ req[c].pc = "idle"
        /\ req' = req
    BY <1>5 DEF CreateApp
  <2> QED
    BY <2>1, QuietStep
<1>6. CASE DeleteApp(c)
  <2>1. disk' = disk /\ rows' = rows /\ left' = left /\ req[c].pc = "idle"
    BY <1>6 DEF DeleteApp, dbVars
  <2>2. \A d \in Clients : d # c => req'[d] = req[d]
    BY <1>6 DEF DeleteApp, TypeOK
  <2> QED
    BY <2>1, <2>2, QuietStep
<1>7. CASE DeleteAppRow(c)
  <2>1. disk' = disk /\ req[c].pc = "app row" /\ Answer(c)
    BY <1>7 DEF DeleteAppRow
  <2>2. CASE left' = OnDisk
    BY <2>1, <2>2 DEF OnDisk, AllKept, Kept
  <2>3. CASE rows' = rows /\ left' = left
    BY <2>1, <2>3, AnswerFacts, QuietStep
  <2> QED
    BY <1>7, <2>2, <2>3 DEF DeleteAppRow
<1> QED
  BY <1>1, <1>2, <1>3, <1>4, <1>5, <1>6, <1>7, DeleteRowStep
     DEF ActivateStep, DeleteStep, AppStep

LEMMA KeptCrash ==
  ASSUME AllKept, Crash
  PROVE  AllKept'
<1> SUFFICES ASSUME NEW v \in Version, NEW f \in File, disk[v][f] # None
             PROVE  rows[v].file = f \/ <<v, f>> \in left'
  BY DEF Crash, dbVars, AllKept, Kept
<1>1. left' = left \cup (OnDisk \cap UNION {InHand(c) : c \in Clients})
  BY DEF Crash
<1>2. <<v, f>> \in OnDisk
  BY DEF OnDisk
<1>3. ASSUME NEW c \in Clients, Holding(c, v, f)
      PROVE  <<v, f>> \in UNION {InHand(d) : d \in Clients}
  BY <1>3, HoldingInHand
<1> QED
  BY <1>1, <1>2, <1>3 DEF AllKept, Kept

LEMMA AllKeptStep ==
  ASSUME TypeOK, Named, Numbered, AllKept, [Next]_vars
  PROVE  AllKept'
<1>1. CASE LaunchMoves \/ ProcessExits \/ MarkStopped \/ UNCHANGED vars
  <2>1. disk' = disk /\ rows' = rows /\ left' = left /\ req' = req
    BY <1>1 DEF LaunchMoves, LaunchApp, LaunchRow, LaunchVerify, LaunchStart,
                LaunchRecord, ProcessExits, MarkStopped, vars, dbVars
  <2> QED
    BY <2>1 DEF AllKept, Kept, Holding
<1> QED
  BY <1>1, KeptUpload, KeptOther, KeptCrash DEF Next

\* Every jar under the repository has its row, is in the hands of a request that
\* will insert the row or remove the jar, or was left by a crash, by a file that
\* could not be removed or by the deletion of the application: with any number
\* of concurrent uploads and deletions of the same versions.
THEOREM NoStrayHolds == Spec => []NoStrayJar
<1>1. Init => AllKept
  BY DEF Init, AllKept
<1>2. TypeOK /\ Named /\ Numbered /\ AllKept /\ [Next]_vars => AllKept'
  BY AllKeptStep
<1>3. Spec => []AllKept
  BY <1>1, <1>2, NumberedHolds, PTL DEF Spec
<1> QED
  BY <1>3, AllKeptNoStrayJar, PTL
-----------------------------------------------------------------------------
(***************************************************************************)
(* A listed version can be launched, as long as no two uploads and no two  *)
(* deletions of versions overlap and every upload names its file alike.    *)
(* Each of the three is needed: a second upload under way renames its file *)
(* over the first one's, a second deletion removes the files of a version  *)
(* that was uploaded anew since it looked, and an upload under another     *)
(* name takes the first one's jar along when its row is refused (the run   *)
(* refused_upload).  Promotions, deletions of the application, launches,   *)
(* crashes and files that cannot be removed are as many as there may be.   *)
(***************************************************************************)

OneAtATime ==
  /\ \A c, e \in Uploaders : c = e
  /\ \A c, e \in Deleters : c = e
  /\ \A f, g \in File : f = g

\* An upload whose jar is in place, and a deletion that has seen the row.
Adding == {"insert", "undo"}
Deleting == {"running", "row", "files"}

\* What a request relies on: who sends it, that nothing is in the way of an
\* upload about to be renamed, that the jar is there with no row before the
\* INSERT, and that a deletion, until it removes the files, finds them there
\* and finds no row but the one it looked up.
JarOf(c) ==
  /\ req[c].pc \in {"stat", "publish", "insert", "undo"} => c \in Uploaders
  /\ req[c].pc \in Deleting \cup {"look"} => c \in Deleters
  /\ req[c].pc \in {"stat", "publish", "insert"} => req[c].jar \in Jar
  /\ req[c].pc = "publish" => \A f \in File : disk[req[c].v][f] = None
  /\ req[c].pc = "insert" => disk[req[c].v][req[c].file] = req[c].jar
  /\ req[c].pc \in Adding \cup {"files"} => rows[req[c].v] = NoRow
  /\ req[c].pc \in Deleting => \A f \in File : disk[req[c].v][f] # None
  /\ req[c].pc \in {"running", "row"} =>
       rows[req[c].v] = NoRow \/ rows[req[c].v].id = req[c].id

\* No upload that has put its jar in place meets a deletion of its version.
ApartFrom(c, e) ==
  req[c].pc \in Adding /\ req[e].pc \in Deleting => req[c].v # req[e].v

RowJar(v) ==
  rows[v] # NoRow => rows[v].sum \in Jar /\ disk[v][rows[v].file] = rows[v].sum

JarInv ==
  /\ \A v \in Version : RowJar(v)
  /\ \A c \in Clients : JarOf(c)
  /\ \A c, e \in Clients : ApartFrom(c, e)

\* A listed version has files, and an empty place no row.
LEMMA ListedHasFiles ==
  ASSUME OneAtATime, Named, JarInv, NEW v \in Version, rows[v] # NoRow
  PROVE  \A f \in File : disk[v][f] # None
<1>1. rows[v].sum \in Jar /\ disk[v][rows[v].file] = rows[v].sum
  BY DEF JarInv, RowJar
<1>2. rows[v].file \in File
  BY DEF Named, NamedRow
<1> QED
  BY <1>1, <1>2, ArtifactsAssumption DEF OneAtATime

\* A step of c that leaves the files alone and at most deletes rows.
LEMMA CalmStep ==
  ASSUME TypeOK, Named, JarInv, NEW c \in Clients, disk' = disk,
         \A v \in Version : rows'[v] \in {NoRow, rows[v]},
         \A e \in Clients : e # c => req'[e] = req[e],
         JarOf(c)',
         \A e \in Clients \ {c} : ApartFrom(c, e)' /\ ApartFrom(e, c)'
  PROVE  JarInv'
<1>1. \A v \in Version : RowJar(v)'
  BY DEF JarInv, RowJar
<1>2. ASSUME NEW e \in Clients, e # c
      PROVE  JarOf(e)'
  <2>1. req'[e] = req[e] /\ JarOf(e)
    BY <1>2 DEF JarInv
  <2>2. req[e].pc \in Adding \cup Deleting => req[e].v \in Version
    BY DEF Named, NamedReq, Adding, Deleting
  <2>3. req[e].pc \in Adding \cup Deleting =>
          rows'[req[e].v] = NoRow \/ rows'[req[e].v] = rows[req[e].v]
    BY <2>2
  <2> QED
    BY <2>1, <2>3 DEF JarOf, Adding, Deleting
<1>3. ASSUME NEW e \in Clients, NEW g \in Clients
      PROVE  ApartFrom(e, g)'
  <2>1. CASE e # c /\ g # c
    BY <2>1 DEF JarInv, ApartFrom
  <2>2. CASE e = c /\ g = c
    BY <2>2 DEF ApartFrom, Adding, Deleting
  <2> QED
    BY <2>1, <2>2
<1> QED
  BY <1>1, <1>2, <1>3 DEF JarInv

\* The same, when c ends up in none of the steps that concern a jar.
LEMMA IdleStep ==
  ASSUME TypeOK, Named, JarInv, NEW c \in Clients, disk' = disk,
         \A v \in Version : rows'[v] \in {NoRow, rows[v]},
         \A e \in Clients : e # c => req'[e] = req[e],
         req'[c].pc \in {"idle", "promote", "find", "set", "app row"}
  PROVE  JarInv'
<1>1. JarOf(c)'
  BY DEF JarOf, Adding, Deleting
<1>2. \A e \in Clients : ApartFrom(c, e)' /\ ApartFrom(e, c)'
  BY DEF ApartFrom, Adding, Deleting
<1> QED
  BY <1>1, <1>2, CalmStep

LEMMA JarPublish ==
  ASSUME OneAtATime, TypeOK, Named, JarInv, NEW c \in Clients, UploadPublish(c)
  PROVE  JarInv'
<1> DEFINE v == req[c].v
           f == req[c].file
<1>1. req[c].pc = "publish" /\ v \in Version /\ f \in File /\ rows' = rows
  BY DEF UploadPublish, Named, NamedReq, dbVars
<1>2. CASE Answer(c) /\ disk' = disk
  BY <1>1, <1>2, AnswerFacts, IdleStep
<1>3. CASE disk' = [disk EXCEPT ![v][f] = req[c].jar] /\ GotoWith(c, "insert", req[c].id)
  <2>1. /\ req'[c].pc = "insert" /\ req'[c].v = v /\ req'[c].file = f
        /\ req'[c].jar = req[c].jar /\ \A e \in Clients : e # c => req'[e] = req[e]
    BY <1>3, GotoFacts
  <2>2. /\ disk'[v][f] = req[c].jar
        /\ \A u \in Version, g \in File : u # v => disk'[u][g] = disk[u][g]
    BY <1>1, <1>3 DEF TypeOK
  <2>3. c \in Uploaders /\ req[c].jar \in Jar /\ \A g \in File : disk[v][g] = None
    BY <1>1 DEF JarInv, JarOf
  <2>4. rows[v] = NoRow
    BY <1>1, <2>3, ListedHasFiles
  <2>5. \A u \in Version : RowJar(u)'
    <3> SUFFICES ASSUME NEW u \in Version, rows[u] # NoRow
                 PROVE  rows[u].sum \in Jar /\ disk'[u][rows[u].file] = rows[u].sum
      BY <1>1 DEF RowJar
    <3>1. rows[u].file \in File /\ u # v
      BY <2>4 DEF Named, NamedRow
    <3> QED
      BY <2>2, <3>1 DEF JarInv, RowJar
  <2>6. JarOf(c)'
    BY <1>1, <2>1, <2>2, <2>3, <2>4 DEF JarOf, Adding, Deleting
  <2>7. ASSUME NEW e \in Clients, e # c
        PROVE  JarOf(e)'
    <3>1. req'[e] = req[e] /\ JarOf(e) /\ e \notin Uploaders
      BY <2>1, <2>3, <2>7 DEF JarInv, OneAtATime
    <3>2. req[e].pc \in Deleting =>
            req[e].v \in Version /\ \A g \in File : disk'[req[e].v][g] # None
      <4> SUFFICES ASSUME req[e].pc \in Deleting, NEW g \in File
                   PROVE  req[e].v \in Version /\ disk'[req[e].v][g] # None
        BY <1>1
      <4>1. req[e].v \in Version /\ disk[req[e].v][g] # None
        BY <3>1 DEF Named, NamedReq, JarOf, Deleting
      <4>2. req[e].v # v
        BY <2>3, <4>1
      <4> QED
        BY <2>2, <4>1, <4>2
    <3> QED
      BY <1>1, <3>1, <3>2 DEF JarOf, Adding, Deleting
  <2>8. ASSUME NEW e \in Clients, NEW g \in Clients
        PROVE  ApartFrom(e, g)'
    <3>1. CASE e # c /\ g # c
      BY <2>1, <3>1 DEF JarInv, ApartFrom
    <3>2. CASE g = c
      BY <2>1, <3>2 DEF ApartFrom, Deleting
    <3>3. CASE e = c /\ g # c /\ req[g].pc \in Deleting
      <4>1. disk[req[g].v][f] # None
        BY <1>1, <3>3 DEF JarInv, JarOf
      <4> QED
        BY <1>1, <2>1, <2>3, <3>3, <4>1 DEF ApartFrom
    <3>4. CASE e = c /\ g # c /\ req[g].pc \notin Deleting
      BY <2>1, <3>4 DEF ApartFrom
    <3> QED
      BY <3>1, <3>2, <3>3, <3>4
  <2> QED
    BY <2>5, <2>6, <2>7, <2>8 DEF JarInv
<1> QED
  BY <1>2, <1>3 DEF UploadPublish, Goto

LEMMA JarInsert ==
  ASSUME OneAtATime, TypeOK, Named, JarInv, NEW c \in Clients, UploadInsert(c)
  PROVE  JarInv'
<1> DEFINE v == req[c].v
<1>1. req[c].pc = "insert" /\ v \in Version /\ disk' = disk
  BY DEF UploadInsert, Named, NamedReq
<1>2. /\ c \in Uploaders /\ req[c].jar \in Jar /\ rows[v] = NoRow
      /\ disk[v][req[c].file] = req[c].jar
  BY <1>1 DEF JarInv, JarOf, Adding
<1>3. CASE GotoWith(c, "undo", req[c].id) /\ rows' = rows
  <2>1. /\ req'[c].pc = "undo" /\ req'[c].v = v
        /\ \A e \in Clients : e # c => req'[e] = req[e]
    BY <1>3, GotoFacts
  <2>2. JarOf(c)'
    BY <1>2, <1>3, <2>1 DEF JarOf, Adding, Deleting
  <2>3. \A e \in Clients \ {c} : ApartFrom(c, e)' /\ ApartFrom(e, c)'
    BY <1>1, <2>1 DEF JarInv, ApartFrom, Adding, Deleting
  <2> QED
    BY <1>1, <1>3, <2>1, <2>2, <2>3, CalmStep
<1>4. CASE /\ rows' = [rows EXCEPT ![v] =
                        [id |-> ids + 1, file |-> req[c].file, sum |-> req[c].jar]]
           /\ Answer(c) \/ GotoWith(c, "promote", ids + 1)
  <2>1. /\ req'[c].pc \in {"idle", "promote"}
        /\ \A e \in Clients : e # c => req'[e] = req[e]
    BY <1>4, AnswerFacts, GotoFacts
  <2>2. /\ rows'[v].file = req[c].file /\ rows'[v].sum = req[c].jar
        /\ \A u \in Version : u # v => rows'[u] = rows[u]
    BY <1>1, <1>4 DEF TypeOK
  <2>3. \A u \in Version : RowJar(u)'
    <3>1. ASSUME NEW u \in Version, u = v PROVE RowJar(u)'
      BY <1>1, <1>2, <2>2, <3>1 DEF RowJar
    <3>2. ASSUME NEW u \in Version, u # v PROVE RowJar(u)'
      BY <1>1, <2>2, <3>2 DEF JarInv, RowJar
    <3> QED
      BY <3>1, <3>2
  <2>4. JarOf(c)'
    BY <2>1 DEF JarOf, Adding, Deleting
  <2>5. ASSUME NEW e \in Clients, e # c
        PROVE  JarOf(e)'
    <3>1. req'[e] = req[e] /\ JarOf(e) /\ e \notin Uploaders
      BY <1>2, <2>1, <2>5 DEF JarInv, OneAtATime
    <3>2. req[e].pc \in Deleting => rows'[req[e].v] = rows[req[e].v]
      <4>1. req[e].pc \in Deleting => req[e].v \in Version /\ req[e].v # v
        BY <1>1 DEF Named, NamedReq, JarInv, ApartFrom, Adding, Deleting
      <4> QED
        BY <2>2, <4>1
    <3> QED
      BY <1>1, <3>1, <3>2 DEF JarOf, Adding, Deleting
  <2>6. \A e, g \in Clients : ApartFrom(e, g)'
    BY <2>1 DEF JarInv, ApartFrom, Adding, Deleting
  <2> QED
    BY <2>3, <2>4, <2>5, <2>6 DEF JarInv
<1> QED
  BY <1>3, <1>4 DEF UploadInsert, Goto

\* The clean-up after a refused INSERT, and the end of a deletion.
LEMMA JarRemove ==
  ASSUME OneAtATime, TypeOK, Named, JarInv, NEW c \in Clients,
         UploadUndo(c) \/ DeleteFiles(c)
  PROVE  JarInv'
<1> DEFINE v == req[c].v
<1>1. /\ req[c].pc \in {"undo", "files"} /\ v \in Version /\ rows' = rows
      /\ Remove(v) /\ Answer(c)
  BY DEF UploadUndo, DeleteFiles, Named, NamedReq, dbVars
<1>2. /\ \A u \in Version : u # v => disk'[u] = disk[u]
      /\ \A f \in File : disk[v][f] = None => disk'[v][f] = None
  <2>1. PICK stay \in SUBSET {g \in File : disk[v][g] # None} :
          disk' = [disk EXCEPT ![v] = [g \in File |-> IF g \in stay THEN @[g] ELSE None]]
    BY <1>1 DEF Remove
  <2> QED
    BY <1>1, <2>1 DEF TypeOK
<1>3. req'[c].pc = "idle" /\ \A e \in Clients : e # c => req'[e] = req[e]
  BY <1>1, AnswerFacts
<1>4. rows[v] = NoRow
  BY <1>1 DEF JarInv, JarOf, Adding
<1>5. \A u \in Version : RowJar(u)'
  BY <1>1, <1>2, <1>4 DEF JarInv, RowJar
<1>6. JarOf(c)'
  BY <1>3 DEF JarOf, Adding, Deleting
<1>7. ASSUME NEW e \in Clients, e # c
      PROVE  JarOf(e)'
  <2>1. req'[e] = req[e] /\ JarOf(e)
    BY <1>3, <1>7 DEF JarInv
  <2>2. req[e].pc \in {"publish", "insert"} \cup Deleting => req[e].v \in Version
    BY DEF Named, NamedReq, Deleting
  <2>3. ASSUME req[e].pc \in {"insert"} \cup Deleting
        PROVE  req[e].v # v
    <3>1. CASE req[c].pc = "undo"
      <4>1. c \in Uploaders /\ e \notin Uploaders
        BY <1>7, <3>1 DEF JarInv, JarOf, OneAtATime
      <4>2. req[e].pc \in Deleting
        BY <2>1, <2>3, <4>1 DEF JarOf
      <4> QED
        BY <3>1, <4>2 DEF JarInv, ApartFrom, Adding
    <3>2. CASE req[c].pc = "files"
      <4>1. c \in Deleters /\ e \notin Deleters
        BY <1>7, <3>2 DEF JarInv, JarOf, OneAtATime, Deleting
      <4>2. req[e].pc = "insert"
        BY <2>1, <2>3, <4>1 DEF JarOf
      <4> QED
        BY <3>2, <4>2 DEF JarInv, ApartFrom, Adding, Deleting
    <3> QED
      BY <1>1, <3>1, <3>2
  <2>4. req[e].pc \in {"insert"} \cup Deleting => disk'[req[e].v] = disk[req[e].v]
    BY <1>2, <2>2, <2>3
  <2>5. req[e].pc = "publish" => \A f \in File : disk'[req[e].v][f] = None
    <3>1. CASE req[e].v = v
      BY <1>2, <2>1, <3>1 DEF JarOf
    <3>2. CASE req[e].v # v
      BY <1>2, <2>1, <2>2, <3>2 DEF JarOf
    <3> QED
      BY <3>1, <3>2
  <2> QED
    BY <1>1, <2>1, <2>4, <2>5 DEF JarOf
<1>8. \A e, g \in Clients : ApartFrom(e, g)'
  BY <1>3 DEF JarInv, ApartFrom, Adding, Deleting
<1> QED
  BY <1>5, <1>6, <1>7, <1>8 DEF JarInv

LEMMA JarUpload ==
  ASSUME OneAtATime, TypeOK, Named, JarInv, NEW c \in Clients, UploadStep(c)
  PROVE  JarInv'
<1>1. CASE Upload(c)
  <2>1. /\ c \in Uploaders /\ req'[c].pc = "stat" /\ req'[c].jar \in Jar
        /\ \A e \in Clients : e # c => req'[e] = req[e]
    BY <1>1 DEF Upload, TypeOK
  <2>2. disk' = disk /\ rows' = rows
    BY <1>1 DEF Upload, dbVars
  <2>3. JarOf(c)' /\ \A e \in Clients : ApartFrom(c, e)' /\ ApartFrom(e, c)'
    BY <2>1 DEF JarOf, ApartFrom, Adding, Deleting
  <2> QED
    BY <2>1, <2>2, <2>3, CalmStep
<1>2. CASE UploadStat(c)
  <2>1. disk' = disk /\ rows' = rows /\ req[c].pc = "stat"
    BY <1>2 DEF UploadStat, dbVars
  <2>2. CASE Answer(c)
    BY <2>1, <2>2, AnswerFacts, IdleStep
  <2>3. CASE disk[req[c].v][req[c].file] = None /\ GotoWith(c, "publish", req[c].id)
    <3>1. /\ req'[c].pc = "publish" /\ req'[c].v = req[c].v /\ req'[c].jar = req[c].jar
          /\ \A e \in Clients : e # c => req'[e] = req[e]
      BY <2>3, GotoFacts
    <3>2. \A f \in File : disk[req[c].v][f] = None
      BY <2>1, <2>3 DEF OneAtATime, Named, NamedReq
    <3>3. c \in Uploaders /\ req[c].jar \in Jar
      BY <2>1 DEF JarInv, JarOf
    <3>4. JarOf(c)'
      BY <2>1, <3>1, <3>2, <3>3 DEF JarOf, Adding, Deleting
    <3>5. \A e \in Clients : ApartFrom(c, e)' /\ ApartFrom(e, c)'
      BY <3>1 DEF ApartFrom, Adding, Deleting
    <3> QED
      BY <2>1, <3>1, <3>4, <3>5, CalmStep
  <2> QED
    BY <1>2, <2>2, <2>3 DEF UploadStat, Goto
<1>3. CASE UploadPromote(c)
  <2>1. Answer(c) /\ disk' = disk /\ rows' = rows
    BY <1>3 DEF UploadPromote, SetActive
  <2> QED
    BY <2>1, AnswerFacts, IdleStep
<1> QED
  BY <1>1, <1>2, <1>3, JarPublish, JarInsert, JarRemove DEF UploadStep

LEMMA JarDelete ==
  ASSUME OneAtATime, TypeOK, Named, JarInv, NEW c \in Clients, DeleteStep(c)
  PROVE  JarInv'
<1>1. CASE Delete(c)
  <2>1. /\ c \in Deleters /\ req'[c].pc = "look"
        /\ \A e \in Clients : e # c => req'[e] = req[e]
    BY <1>1 DEF Delete, Enter, TypeOK
  <2>2. disk' = disk /\ rows' = rows
    BY <1>1 DEF Delete, Enter, dbVars
  <2>3. JarOf(c)' /\ \A e \in Clients : ApartFrom(c, e)' /\ ApartFrom(e, c)'
    BY <2>1 DEF JarOf, ApartFrom, Adding, Deleting
  <2> QED
    BY <2>1, <2>2, <2>3, CalmStep
<1>2. CASE DeleteLook(c)
  <2>1. disk' = disk /\ rows' = rows /\ req[c].pc = "look"
    BY <1>2 DEF DeleteLook, dbVars
  <2>2. CASE Answer(c)
    BY <2>1, <2>2, AnswerFacts, IdleStep
  <2>3. CASE Row(c) # NoRow /\ GotoWith(c, "running", Row(c).id)
    <3>1. Row(c) = rows[req[c].v] /\ rows[req[c].v] # NoRow /\ req[c].v \in Version
      BY <2>1, <2>3 DEF Row, Named, NamedReq
    <3>2. /\ req'[c].pc = "running" /\ req'[c].v = req[c].v
          /\ req'[c].id = rows[req[c].v].id
          /\ \A e \in Clients : e # c => req'[e] = req[e]
      BY <2>3, <3>1, GotoFacts
    <3>3. c \in Deleters /\ \A f \in File : disk[req[c].v][f] # None
      BY <2>1, <3>1, ListedHasFiles DEF JarInv, JarOf
    <3>4. JarOf(c)'
      BY <2>1, <3>2, <3>3 DEF JarOf, Adding, Deleting
    <3>5. ASSUME NEW e \in Clients, e # c
          PROVE  ApartFrom(c, e)' /\ ApartFrom(e, c)'
      <4>1. req[e].pc \in Adding => rows[req[e].v] = NoRow
        BY DEF JarInv, JarOf
      <4> QED
        BY <3>1, <3>2, <3>5, <4>1 DEF ApartFrom, Adding
    <3> QED
      BY <2>1, <3>2, <3>4, <3>5, CalmStep
  <2> QED
    BY <1>2, <2>2, <2>3 DEF DeleteLook
<1>3. CASE DeleteRunning(c)
  <2>1. disk' = disk /\ rows' = rows /\ req[c].pc = "running"
    BY <1>3 DEF DeleteRunning, dbVars
  <2>2. CASE Answer(c)
    BY <2>1, <2>2, AnswerFacts, IdleStep
  <2>3. CASE GotoWith(c, "row", req[c].id)
    <3>1. /\ req'[c].pc = "row" /\ req'[c].v = req[c].v /\ req'[c].id = req[c].id
          /\ \A e \in Clients : e # c => req'[e] = req[e]
      BY <2>3, GotoFacts
    <3>2. JarOf(c)'
      BY <2>1, <3>1 DEF JarInv, JarOf, Adding, Deleting
    <3>3. \A e \in Clients \ {c} : ApartFrom(c, e)' /\ ApartFrom(e, c)'
      BY <2>1, <3>1 DEF JarInv, ApartFrom, Adding, Deleting
    <3> QED
      BY <2>1, <3>1, <3>2, <3>3, CalmStep
  <2> QED
    BY <1>3, <2>2, <2>3 DEF DeleteRunning, Goto
<1>4. CASE DeleteRow(c)
  <2>1. disk' = disk /\ req[c].pc = "row"
    BY <1>4 DEF DeleteRow
  <2>2. CASE Answer(c) /\ rows' = rows
    BY <2>1, <2>2, AnswerFacts, IdleStep
  <2>3. CASE /\ rows' = [v \in Version |-> IF rows[v].id = req[c].id THEN NoRow ELSE rows[v]]
             /\ GotoWith(c, "files", req[c].id)
    <3>1. /\ req'[c].pc = "files" /\ req'[c].v = req[c].v
          /\ \A e \in Clients : e # c => req'[e] = req[e]
      BY <2>3, GotoFacts
    <3>2. req[c].v \in Version
      BY <2>1 DEF Named, NamedReq
    <3>3. \A v \in Version : rows'[v] \in {NoRow, rows[v]}
      BY <2>3
    <3>4. rows'[req[c].v] = NoRow
      BY <2>1, <2>3, <3>2 DEF JarInv, JarOf
    <3>5. JarOf(c)'
      BY <2>1, <3>1, <3>4 DEF JarInv, JarOf, Adding, Deleting
    <3>6. \A e \in Clients \ {c} : ApartFrom(c, e)' /\ ApartFrom(e, c)'
      BY <2>1, <3>1 DEF JarInv, ApartFrom, Adding, Deleting
    <3> QED
      BY <2>1, <3>1, <3>3, <3>5, <3>6, CalmStep
  <2> QED
    BY <1>4, <2>2, <2>3 DEF DeleteRow, Goto
<1> QED
  BY <1>1, <1>2, <1>3, <1>4, JarRemove DEF DeleteStep

LEMMA JarOther ==
  ASSUME TypeOK, Named, JarInv, NEW c \in Clients, ActivateStep(c) \/ AppStep(c)
  PROVE  JarInv'
<1>1. CASE Activate(c) \/ DeleteApp(c)
  <2>1. /\ req'[c].pc \in {"find", "app row"}
        /\ \A e \in Clients : e # c => req'[e] = req[e]
    <3>1. CASE Activate(c)
      BY <3>1 DEF Activate, Enter, TypeOK
    <3>2. CASE DeleteApp(c)
      BY <3>2 DEF DeleteApp, TypeOK
    <3> QED
      BY <1>1, <3>1, <3>2
  <2>2. disk' = disk /\ rows' = rows
    BY <1>1 DEF Activate, Enter, DeleteApp, dbVars
  <2> QED
    BY <2>1, <2>2, IdleStep
<1>2. CASE ActivateFind(c) \/ ActivateSet(c)
  <2>1. disk' = disk /\ rows' = rows
    BY <1>2 DEF ActivateFind, ActivateSet, SetActive, dbVars
  <2>2. Answer(c) \/ GotoWith(c, "set", Row(c).id)
    BY <1>2 DEF ActivateFind, ActivateSet, SetActive
  <2>3. req'[c].pc \in {"idle", "set"} /\ \A e \in Clients : e # c => req'[e] = req[e]
    BY <2>2, AnswerFacts, GotoFacts
  <2> QED
    BY <2>1, <2>3, IdleStep
<1>3. CASE CreateApp(c)
  BY <1>3 DEF CreateApp, JarInv, RowJar, JarOf, ApartFrom
<1>4. CASE DeleteAppRow(c)
  <2>1. /\ disk' = disk /\ Answer(c)
        /\ rows' = [v \in Version |-> NoRow] \/ rows' = rows
    BY <1>4 DEF DeleteAppRow
  <2>2. \A v \in Version : rows'[v] \in {NoRow, rows[v]}
    BY <2>1
  <2> QED
    BY <2>1, <2>2, AnswerFacts, IdleStep
<1> QED
  BY <1>1, <1>2, <1>3, <1>4 DEF ActivateStep, AppStep

LEMMA JarNext ==
  ASSUME OneAtATime, TypeOK, Named, JarInv, [Next]_vars
  PROVE  JarInv'
<1>1. CASE LaunchMoves \/ ProcessExits \/ MarkStopped \/ UNCHANGED vars
  <2>1. disk' = disk /\ rows' = rows /\ req' = req
    BY <1>1 DEF LaunchMoves, LaunchApp, LaunchRow, LaunchVerify, LaunchStart,
                LaunchRecord, ProcessExits, MarkStopped, vars, dbVars
  <2> QED
    BY <2>1 DEF JarInv, RowJar, JarOf, ApartFrom
<1>2. CASE Crash
  <2>1. disk' = disk /\ rows' = rows /\ \A c \in Clients : req'[c].pc = "idle"
    BY <1>2 DEF Crash, dbVars, NoReq
  <2>2. \A v \in Version : RowJar(v)'
    BY <2>1 DEF JarInv, RowJar
  <2>3. \A c \in Clients : JarOf(c)' /\ \A e \in Clients : ApartFrom(c, e)'
    BY <2>1 DEF JarOf, ApartFrom, Adding, Deleting
  <2> QED
    BY <2>2, <2>3 DEF JarInv
<1> QED
  BY <1>1, <1>2, JarUpload, JarDelete, JarOther DEF Next

LEMMA JarHolds == ASSUME OneAtATime PROVE Spec => []JarInv
<1>1. ASSUME Init PROVE JarInv
  <2>1. /\ \A v \in Version : rows[v] = NoRow
        /\ \A c \in Clients : req[c].pc = "idle"
    BY <1>1 DEF Init, NoReq
  <2> QED
    BY <2>1 DEF JarInv, RowJar, JarOf, ApartFrom, Adding, Deleting
<1>2. TypeOK /\ Named /\ JarInv /\ [Next]_vars => JarInv'
  BY JarNext
<1> QED
  BY <1>1, <1>2, NamedHolds, PTL DEF Spec

\* While no two uploads and no two deletions of versions overlap and uploads name
\* their file alike, a listed version always has its jar with the content it was
\* uploaded with, through every interleaving of an upload, a deletion, any number
\* of promotions and deletions of the application, launches and crashes.
THEOREM ListedCanBeLaunched ==
  ASSUME OneAtATime PROVE Spec => []RowHasItsJar
<1>1. JarInv => RowHasItsJar
  BY DEF JarInv, RowJar, RowHasItsJar
<1> QED
  BY <1>1, JarHolds, PTL

-----------------------------------------------------------------------------
(***************************************************************************)
(* The refinement of Library, under the same conditions.  A listed version *)
(* has the jar its row was written with, so what is listed depends on the  *)
(* rows alone, and only the steps that write rows, active_artifact_id or   *)
(* the instance move the catalogue.                                        *)
(***************************************************************************)

\* VersionOf, of any table.
Owner(table, id) ==
  IF \E v \in Version : table[v].id = id /\ id # 0
  THEN CHOOSE v \in Version : table[v].id = id ELSE None

Unique(table) ==
  \A v, w \in Version : table[v].id = table[w].id /\ table[v].id # 0 => v = w

LEMMA OwnerIs ==
  ASSUME NEW table, Unique(table), NEW v \in Version, table[v].id # 0
  PROVE  Owner(table, table[v].id) = v
BY DEF Owner, Unique

LEMMA OwnerFound ==
  ASSUME NEW table, NEW id, Owner(table, id) # None
  PROVE  id # 0 /\ Owner(table, id) \in Version /\ table[Owner(table, id)].id = id
BY DEF Owner

\* A reference keeps its version as long as the row is kept.
LEMMA OwnerStays ==
  ASSUME NEW table, NEW next, Unique(table), Unique(next), NEW id,
         \/ id = 0
         \/ \E v \in Version : table[v].id = id /\ next[v].id = id
  PROVE  Owner(next, id) = Owner(table, id)
<1>1. CASE id = 0
  BY <1>1 DEF Owner
<1>2. ASSUME id # 0, NEW v \in Version, table[v].id = id, next[v].id = id
      PROVE  Owner(next, id) = Owner(table, id)
  BY <1>2, OwnerIs
<1> QED
  BY <1>1, <1>2

\* What the catalogue is made of, by the tables alone.
Contents(table) == [v \in Version |-> IF table[v] = NoRow THEN None ELSE table[v].sum]
CatalogueIs(listing, table, act, art, p, r) ==
  /\ listing = Contents(table) /\ Unique(table)
  /\ p = Owner(table, act) /\ r = Owner(table, art)

LEMMA CatalogueNow ==
  ASSUME NumberedRows, JarInv
  PROVE  CatalogueIs(Listing, rows, active, inst.art, VersionOf(active), VersionOf(inst.art))
<1>1. Listing = Contents(rows)
  BY DEF Listing, Contents, JarInv, RowJar
<1>2. Unique(rows)
  BY DEF Unique, NumberedRows
<1>3. \A id : VersionOf(id) = Owner(rows, id)
  BY DEF VersionOf, RowExists, Owner
<1> QED
  BY <1>1, <1>2, <1>3 DEF CatalogueIs

LEMMA CatalogueThen ==
  ASSUME NumberedRows', JarInv'
  PROVE  CatalogueIs(Listing', rows', active', inst'.art,
                     VersionOf(active)', VersionOf(inst.art)')
<1>1. Listing' = Contents(rows')
  BY DEF Listing, Contents, JarInv, RowJar
<1>2. Unique(rows')
  BY DEF Unique, NumberedRows
<1>3. /\ VersionOf(active)' = Owner(rows', active')
      /\ VersionOf(inst.art)' = Owner(rows', inst'.art)
  BY DEF VersionOf, RowExists, Owner
<1> QED
  BY <1>1, <1>2, <1>3 DEF CatalogueIs

\* Everything the steps below start from.
Before ==
  TypeOK /\ Named /\ Numbered /\ ReferencesResolve /\ JarInv
After == NumberedRows' /\ JarInv'

Moves == [Catalogue!Next]_(Catalogue!view)

LEMMA Stutters ==
  ASSUME Before, After, rows' = rows, active' = active, inst'.art = inst.art
  PROVE  Moves
<1>1. Listing' = Listing /\ VersionOf(active)' = VersionOf(active)
      /\ VersionOf(inst.art)' = VersionOf(inst.art)
  BY CatalogueNow, CatalogueThen DEF CatalogueIs, Before, After, Numbered
<1> QED
  BY <1>1 DEF Moves, Catalogue!view

\* Both references keep their version while their rows are kept.
LEMMA ReferencesStay ==
  ASSUME Before, After, active' = active, inst' = inst,
         \A v \in Version : Referenced(rows[v].id) /\ rows[v].id # 0 => rows'[v] = rows[v]
  PROVE  VersionOf(active)' = VersionOf(active) /\ VersionOf(inst.art)' = VersionOf(inst.art)
<1>1. ASSUME NEW id, id # 0 => RowExists(id), Referenced(id)
      PROVE  Owner(rows', id) = Owner(rows, id)
  <2>1. \/ id = 0
        \/ \E v \in Version : rows[v].id = id /\ rows'[v].id = id
    BY <1>1 DEF RowExists
  <2>2. Unique(rows) /\ Unique(rows')
    BY CatalogueNow, CatalogueThen DEF CatalogueIs, Before, After, Numbered
  <2> QED
    BY <2>1, <2>2, OwnerStays
<1>2. Owner(rows', active) = Owner(rows, active)
  BY <1>1 DEF Before, ReferencesResolve, Referenced
<1>3. Owner(rows', inst.art) = Owner(rows, inst.art)
  BY <1>1 DEF Before, ReferencesResolve, Referenced
<1> QED
  BY <1>2, <1>3, CatalogueNow, CatalogueThen DEF CatalogueIs, Before, After, Numbered

LEMMA InsertStores ==
  ASSUME Before, After, NEW c \in Clients, UploadInsert(c)
  PROVE  Moves
<1> DEFINE v == req[c].v
           row == [id |-> ids + 1, file |-> req[c].file, sum |-> req[c].jar]
<1>1. /\ req[c].pc = "insert" /\ v \in Version /\ active' = active /\ inst' = inst
      /\ rows' = rows \/ rows' = [rows EXCEPT ![v] = row]
  BY DEF UploadInsert, Before, Named, NamedReq, runVars
<1>2. rows[v] = NoRow /\ req[c].jar \in Jar
  BY <1>1 DEF Before, JarInv, JarOf, Adding
<1>3. CASE rows' = [rows EXCEPT ![v] = row]
  <2>1. rows'[v] = row /\ \A u \in Version : u # v => rows'[u] = rows[u]
    BY <1>1, <1>3 DEF Before, TypeOK
  <2>2. row # NoRow /\ row.sum = req[c].jar
    BY <1>2, ArtifactsAssumption DEF NoRow
  <2>3. rows[v].id = 0
    BY <1>2 DEF NoRow
  <2>4. VersionOf(active)' = VersionOf(active) /\ VersionOf(inst.art)' = VersionOf(inst.art)
    BY <1>1, <2>1, <2>3, ReferencesStay
  <2> HIDE DEF row
  <2>5. Contents(rows') = [Contents(rows) EXCEPT ![v] = req[c].jar]
    BY <1>1, <2>1, <2>2 DEF Contents
  <2>6. Contents(rows)[v] = None
    BY <1>1, <1>2 DEF Contents
  <2>7. Listing' = [Listing EXCEPT ![v] = req[c].jar] /\ Listing[v] = None
    BY <2>5, <2>6, CatalogueNow, CatalogueThen DEF CatalogueIs, Before, After, Numbered
  <2> QED
    BY <1>1, <1>2, <2>4, <2>7 DEF Moves, Catalogue!Next, Catalogue!Store
<1> QED
  BY <1>1, <1>3, Stutters

LEMMA SetActivePromotes ==
  ASSUME Before, After, NEW c \in Clients, SetActive(c)
  PROVE  Moves
<1>1. rows' = rows /\ inst' = inst
  BY DEF SetActive, runVars
<1>2. CASE active' = active
  BY <1>1, <1>2, Stutters
<1>3. CASE RowExists(req[c].id) /\ active' = req[c].id
  <2>1. PICK v \in Version : rows[v].id = req[c].id /\ req[c].id # 0
    BY <1>3 DEF RowExists
  <2>2. Owner(rows, req[c].id) = v
    BY <2>1, OwnerIs, CatalogueNow DEF CatalogueIs, Before, Numbered
  <2>3. VersionOf(active)' = v /\ VersionOf(inst.art)' = VersionOf(inst.art)
    BY <1>1, <1>3, <2>2, CatalogueNow, CatalogueThen DEF CatalogueIs, Before, After, Numbered
  <2>4. Listing' = Listing
    BY <1>1, CatalogueNow, CatalogueThen DEF CatalogueIs, Before, After, Numbered
  <2>5. Listing[v] # None
    <3>1. rows[v] # NoRow
      BY <2>1 DEF NoRow
    <3>2. rows[v].sum # None
      BY <3>1, ArtifactsAssumption DEF Before, JarInv, RowJar
    <3> QED
      BY <3>1, <3>2, CatalogueNow DEF CatalogueIs, Contents, Before, Numbered
  <2> QED
    BY <2>3, <2>4, <2>5 DEF Moves, Catalogue!Next, Catalogue!Promote
<1> QED
  BY <1>2, <1>3 DEF SetActive

LEMMA DeleteDiscards ==
  ASSUME Before, After, NEW c \in Clients, DeleteRow(c)
  PROVE  Moves
<1> DEFINE id == req[c].id
<1>1. req[c].pc = "row" /\ active' = active /\ inst' = inst
  BY DEF DeleteRow, runVars
<1>2. id # 0
  BY <1>1 DEF Before, Numbered, NumberedReq
<1>3. CASE rows' = rows
  BY <1>1, <1>3, Stutters
<1>4. CASE /\ ~Referenced(id)
           /\ rows' = [v \in Version |-> IF rows[v].id = id THEN NoRow ELSE rows[v]]
  <2>1. CASE \A v \in Version : rows[v].id # id
    <3>1. rows' = rows
      BY <1>4, <2>1 DEF Before, TypeOK
    <3> QED
      BY <3>1, <1>3
  <2>2. ASSUME NEW v \in Version, rows[v].id = id
        PROVE  Moves
    <3>1. rows'[v] = NoRow /\ \A u \in Version : u # v => rows'[u] = rows[u]
      <4>1. \A u \in Version : u # v => rows[u].id # id
        BY <1>2, <2>2 DEF Before, Numbered, NumberedRows
      <4> QED
        BY <1>4, <2>2, <4>1
    <3>2. rows[v] # NoRow /\ rows[v].sum # None
      <4>1. rows[v] # NoRow
        BY <1>2, <2>2 DEF NoRow
      <4> QED
        BY <4>1, ArtifactsAssumption DEF Before, JarInv, RowJar
    <3>3. VersionOf(active)' = VersionOf(active) /\ VersionOf(inst.art)' = VersionOf(inst.art)
      <4>1. \A u \in Version : Referenced(rows[u].id) => u # v
        BY <1>4, <2>2
      <4> QED
        BY <1>1, <3>1, <4>1, ReferencesStay
    <3>4. Contents(rows') = [Contents(rows) EXCEPT ![v] = None]
      BY <3>1 DEF Contents
    <3>5. Contents(rows)[v] # None
      BY <3>2 DEF Contents
    <3>6. Listing' = [Listing EXCEPT ![v] = None] /\ Listing[v] # None
      BY <3>4, <3>5, CatalogueNow, CatalogueThen DEF CatalogueIs, Before, After, Numbered
    <3>7. v \notin {VersionOf(active), VersionOf(inst.art)}
      <4>1. v # None
        BY ArtifactsAssumption
      <4>2. active # id /\ inst.art # id
        BY <1>4 DEF Referenced
      <4>3. /\ VersionOf(active) = Owner(rows, active)
            /\ VersionOf(inst.art) = Owner(rows, inst.art)
        BY CatalogueNow DEF CatalogueIs, Before, Numbered
      <4> QED
        BY <2>2, <4>1, <4>2, <4>3, OwnerFound
    <3> QED
      BY <3>3, <3>6, <3>7 DEF Moves, Catalogue!Next, Catalogue!Discard
  <2> QED
    BY <2>1, <2>2
<1> QED
  BY <1>3, <1>4 DEF DeleteRow

LEMMA DeleteAppClears ==
  ASSUME Before, After, NEW c \in Clients, DeleteAppRow(c)
  PROVE  Moves
<1>1. CASE active' = 0 /\ inst' = NoInst /\ rows' = [v \in Version |-> NoRow]
  <2>1. Contents(rows') = [v \in Version |-> None]
    BY <1>1 DEF Contents
  <2>2. Owner(rows', 0) = None /\ inst'.art = 0
    BY <1>1 DEF Owner, NoInst
  <2>3. /\ Listing' = [v \in Version |-> None]
        /\ VersionOf(active)' = None /\ VersionOf(inst.art)' = None
    BY <1>1, <2>1, <2>2, CatalogueThen DEF CatalogueIs, After
  <2> QED
    BY <2>3 DEF Moves, Catalogue!Next, Catalogue!Clear
<1>2. CASE active' = active /\ inst' = inst /\ rows' = rows
  BY <1>2, Stutters
<1> QED
  BY <1>1, <1>2 DEF DeleteAppRow

LEMMA LaunchRecords ==
  ASSUME Before, After, LaunchRecord
  PROVE  Moves
<1>1. rows' = rows /\ active' = active
  BY DEF LaunchRecord, dbVars
<1>2. CASE inst' = inst
  BY <1>1, <1>2, Stutters
<1>3. CASE /\ launch.id = 0 \/ RowExists(launch.id)
           /\ inst' = [live |-> TRUE, art |-> launch.id]
  <2>1. Owner(rows, launch.id) \in {v \in Version : Contents(rows)[v] # None} \cup {None}
    <3> SUFFICES ASSUME Owner(rows, launch.id) # None
                 PROVE  /\ Owner(rows, launch.id) \in Version
                        /\ Contents(rows)[Owner(rows, launch.id)] # None
      OBVIOUS
    <3> DEFINE v == Owner(rows, launch.id)
    <3>1. v \in Version /\ rows[v].id # 0
      BY OwnerFound
    <3>2. rows[v] # NoRow
      BY <3>1 DEF NoRow
    <3>3. rows[v].sum # None
      BY <3>1, <3>2, ArtifactsAssumption DEF Before, JarInv, RowJar
    <3> QED
      BY <3>1, <3>2, <3>3 DEF Contents
  <2>2. VersionOf(inst.art)' = Owner(rows, launch.id)
    BY <1>1, <1>3, CatalogueThen DEF CatalogueIs, After
  <2>3. Listing = Contents(rows)
    BY CatalogueNow DEF CatalogueIs, Before, Numbered
  <2>4. Listing' = Listing /\ VersionOf(active)' = VersionOf(active)
    BY <1>1, CatalogueNow, CatalogueThen DEF CatalogueIs, Before, After, Numbered
  <2> QED
    BY <2>1, <2>2, <2>3, <2>4 DEF Moves, Catalogue!Next, Catalogue!Record
<1> QED
  BY <1>2, <1>3 DEF LaunchRecord

LEMMA EveryStepMoves ==
  ASSUME Before, After, [Next]_vars
  PROVE  Moves
<1>1. ASSUME NEW c \in Clients, UploadStep(c)
      PROVE  Moves
  <2>1. CASE Upload(c) \/ UploadStat(c) \/ UploadPublish(c) \/ UploadUndo(c)
    <3>1. rows' = rows /\ active' = active /\ inst' = inst
      BY <2>1 DEF Upload, UploadStat, UploadPublish, UploadUndo, dbVars, runVars
    <3> QED
      BY <3>1, Stutters
  <2> QED
    BY <1>1, <2>1, InsertStores, SetActivePromotes DEF UploadStep, UploadPromote
<1>2. ASSUME NEW c \in Clients, ActivateStep(c)
      PROVE  Moves
  <2>1. CASE Activate(c) \/ ActivateFind(c)
    <3>1. rows' = rows /\ active' = active /\ inst' = inst
      BY <2>1 DEF Activate, Enter, ActivateFind, dbVars, runVars
    <3> QED
      BY <3>1, Stutters
  <2> QED
    BY <1>2, <2>1, SetActivePromotes DEF ActivateStep, ActivateSet
<1>3. ASSUME NEW c \in Clients, DeleteStep(c)
      PROVE  Moves
  <2>1. CASE Delete(c) \/ DeleteLook(c) \/ DeleteRunning(c) \/ DeleteFiles(c)
    <3>1. rows' = rows /\ active' = active /\ inst' = inst
      BY <2>1 DEF Delete, Enter, DeleteLook, DeleteRunning, DeleteFiles, dbVars, runVars
    <3> QED
      BY <3>1, Stutters
  <2> QED
    BY <1>3, <2>1, DeleteDiscards DEF DeleteStep
<1>4. ASSUME NEW c \in Clients, AppStep(c)
      PROVE  Moves
  <2>1. CASE CreateApp(c) \/ DeleteApp(c)
    <3>1. rows' = rows /\ active' = active /\ inst' = inst
      BY <2>1 DEF CreateApp, DeleteApp, dbVars, runVars
    <3> QED
      BY <3>1, Stutters
  <2> QED
    BY <1>4, <2>1, DeleteAppClears DEF AppStep
<1>5. CASE LaunchApp \/ LaunchRow \/ LaunchVerify \/ LaunchStart \/ ProcessExits \/ Crash
           \/ MarkStopped \/ UNCHANGED vars
  <2>1. rows' = rows /\ active' = active /\ inst'.art = inst.art
    BY <1>5 DEF LaunchApp, LaunchRow, LaunchVerify, LaunchStart, ProcessExits, Crash,
                MarkStopped, vars, dbVars
  <2> QED
    BY <2>1, Stutters
<1> QED
  BY <1>1, <1>2, <1>3, <1>4, <1>5, LaunchRecords DEF Next, LaunchMoves

LEMMA CatalogueBegins ==
  ASSUME Init
  PROVE  Catalogue!Init
<1>1. Listing = [v \in Version |-> None]
  BY DEF Init, Listing
<1>2. ~RowExists(active) /\ ~RowExists(inst.art)
  BY DEF Init, RowExists, NoInst
<1> QED
  BY <1>1, <1>2 DEF Catalogue!Init, VersionOf

\* While no two uploads and no two deletions of versions overlap and uploads name
\* their file alike, the repository implements Library: each step of a request, a
\* launch or a crash is one step of the catalogue or none.
THEOREM RepositoryIsALibrary ==
  ASSUME OneAtATime PROVE Spec => ImplementsLibrary
<1>1. Spec => []Before
  BY NumberedHolds, ReferencesHold, JarHolds, PTL DEF Before
<1>2. Before /\ Before' => NumberedRows' /\ JarInv'
  BY DEF Before, Numbered
<1>3. Before /\ Before' /\ [Next]_vars => [Catalogue!Next]_(Catalogue!view)
  BY <1>2, EveryStepMoves DEF After, Moves
<1> QED
  BY <1>1, <1>3, CatalogueBegins, PTL DEF Spec, ImplementsLibrary, Catalogue!Spec
=============================================================================
