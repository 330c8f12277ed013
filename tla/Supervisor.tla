----------------------------- MODULE Supervisor -----------------------------
(***************************************************************************)
(* The supervisor of one managed application: the API requests that start, *)
(* stop, restart and delete it, the watch goroutines that wait for its     *)
(* process to exit and relaunch it, the goroutine that autostarts it, and  *)
(* JARVIS itself shutting down, dying and coming back.                     *)
(*                                                                         *)
(* The watch map, the instance row and the marker of a process are all     *)
(* keyed by the application, so two applications share none of this state  *)
(* and one application is the whole of the component.                      *)
(*                                                                         *)
(* A launch is one process: its instance uuid, pid and creation time are   *)
(* drawn together and never separately, so one identifier stands for all   *)
(* three.  A step is what one goroutine does between two points at which   *)
(* another may act: a critical section under s.mu, one SQL statement (the  *)
(* pool holds a single connection), one call into the operating system.    *)
(***************************************************************************)
EXTENDS Naturals

CONSTANTS
  Launch,        \* the instance identifiers a run may draw: bounds the launches
  None,          \* no launch, no watcher
  Clients,       \* in-flight API requests on this application
  Autostarter,   \* the goroutine that runs Supervisor.Autostart
  Ops,           \* the requests the clients issue
  Autostart,     \* apps.autostart
  Watchdog,      \* the values apps.watchdog may have when a watcher reads it
  MaxRestarts,   \* apps.max_restarts; 0 is no limit
  MaxBoots,      \* bound: how often JARVIS is started
  Faults         \* may a client hang up, a launch be refused, a kill fail?

ASSUME NoneAssumption == None \notin Launch
ASSUME AutostarterAssumption == Autostarter \notin Clients
ASSUME OpsAssumption == Ops \subseteq {"start", "stop", "restart", "delete"}
ASSUME FlagAssumption == Autostart \in BOOLEAN /\ Faults \in BOOLEAN
ASSUME WatchdogAssumption == Watchdog \subseteq BOOLEAN
ASSUME BoundAssumption == MaxRestarts \in Nat /\ MaxBoots \in Nat

VARIABLES
  jarvis,    \* "down", "serving", or "closing" once the main context is done
  boots,     \* how often JARVIS was started
  shutdown,  \* Supervisor.shutdown
  watches,   \* Supervisor.watches[app]: the watcher whose cancel it holds
  watcher,   \* the watch goroutines, each named after the launch it began with
  actor,     \* the API requests and Autostart, as far as each has got
  exists,    \* the row of table apps
  row,       \* the row of table instances
  launched,  \* every instance identifier drawn so far
  alive,     \* the java processes the operating system runs
  reported   \* the orphans the last Reconcile logged

vars == <<jarvis, boots, shutdown, watches, watcher, actor,
          exists, row, launched, alive, reported>>
jarvisVars == <<jarvis, boots, shutdown, reported>>
osVars == <<launched, alive>>

-----------------------------------------------------------------------------

Actors == Clients \cup {Autostarter}

ActorStep ==
  {"idle", "watched", "status", "alive", "policy", "check", "build", "launch", "insert", "attach",
   "cancel", "find", "kill", "dying", "stopped", "running", "delete"}

WatcherStep ==
  {"idle", "wait", "policy", "count", "mark STOPPED", "mark FAILED", "mark STARTING",
   "backoff", "build", "launch", "insert", "return"}

State == {"none", "STOPPED", "STARTING", "RUNNING", "FAILED"}
Live == {"RUNNING", "STARTING"}

\* pc: the next step; op: the request; h: the launch in hand; gone: its context
\* is done.
ActorState == [pc: ActorStep, op: Ops \cup {"autostart"},
               h: Launch \cup {None}, gone: BOOLEAN]

\* pc: the next step; h: the process watched; next: the one just launched;
\* count: restart_count as last read; cancelled: its context is done.
WatcherState == [pc: WatcherStep, h: Launch \cup {None}, next: Launch \cup {None},
                 count: Nat, cancelled: BOOLEAN]

Row == [state: State, inst: Launch \cup {None}, count: Nat]

TypeOK ==
  /\ jarvis \in {"down", "serving", "closing"}
  /\ boots \in Nat
  /\ shutdown \in BOOLEAN
  /\ watches \in Launch \cup {None}
  /\ watcher \in [Launch -> WatcherState]
  /\ actor \in [Actors -> ActorState]
  /\ exists \in BOOLEAN
  /\ row \in Row
  /\ launched \subseteq Launch
  /\ alive \subseteq launched
  /\ reported \subseteq Launch

NoWatcher == [pc |-> "idle", h |-> None, next |-> None, count |-> 0, cancelled |-> FALSE]
NoActor == [pc |-> "idle", op |-> "autostart", h |-> None, gone |-> FALSE]
NoRow == [state |-> "none", inst |-> None, count |-> 0]

Active(w) == watcher[w].pc # "idle"

Init ==
  /\ jarvis = "down" /\ boots = 0 /\ shutdown = FALSE
  /\ watches = None
  /\ watcher = [w \in Launch |-> NoWatcher]
  /\ actor = [a \in Actors |-> NoActor]
  /\ exists = TRUE
  /\ row = NoRow
  /\ launched = {} /\ alive = {} /\ reported = {}

-----------------------------------------------------------------------------
(***************************************************************************)
(* What several goroutines do alike.                                       *)
(***************************************************************************)

\* The pc of an actor or of a watcher moves.
Goto(a, pc) ==
  actor' = [actor EXCEPT ![a] = [pc |-> pc, op |-> @.op, h |-> @.h, gone |-> @.gone]]
WGoto(w, pc) ==
  watcher' = [watcher EXCEPT ![w] = [pc |-> pc, h |-> @.h, next |-> @.next,
                                     count |-> @.count, cancelled |-> @.cancelled]]

\* The context of an actor is done.
ContextDone(a) ==
  actor' = [actor EXCEPT ![a] = [pc |-> @.pc, op |-> @.op, h |-> @.h, gone |-> TRUE]]

\* An actor goes on with a launch in hand.
GotoWith(a, pc, h) ==
  actor' = [actor EXCEPT ![a] = [pc |-> pc, op |-> @.op, h |-> h, gone |-> @.gone]]

\* An actor ends: its request is answered, or Autostart returns.
Done(a) == actor' = [actor EXCEPT ![a] = NoActor]

\* buildLaunchSpec, like readPolicy, reads the database under its caller's
\* context: done, or the application gone, and it fails.  Its other refusals (no java, no promoted
\* jar, a checksum mismatch) look like a launch that fails, below.
CanBuild(gone) == exists /\ ~gone

\* Wrong variant of Spawn: the identifier is not remembered as drawn.
SpawnForgetsId(i) ==
  /\ i \in Launch \ launched
  /\ launched' = launched
  /\ alive' = alive \cup {i}

\* runner.Start with a fresh instance identifier.
Spawn(i) ==
  /\ i \in Launch \ launched
  /\ launched' = launched \cup {i}
  /\ alive' = alive \cup {i}

\* insertInstance: an upsert that a done context or a missing application
\* (the foreign key) makes fail; callers only log the error.
InsertInstance(i, count, gone) ==
  row' = IF exists /\ ~gone
         THEN [state |-> "RUNNING", inst |-> i, count |-> count]
         ELSE row

\* markState and the other UPDATEs of the state, by app_id alone.
MarkState(state) ==
  row' = IF row.state = "none" THEN row
         ELSE [state |-> state, inst |-> row.inst, count |-> row.count]

\* The context of the watcher the map names is done.
Cancelled(ws) ==
  IF watches = None THEN ws
  ELSE [ws EXCEPT ![watches] = [pc |-> @.pc, h |-> @.h, next |-> @.next,
                                count |-> @.count, cancelled |-> TRUE]]

\* A watcher as startWatcher begins it.
Waiting(h, cancelled) ==
  [pc |-> "wait", h |-> h, next |-> None, count |-> 0, cancelled |-> cancelled]

\* startWatcher: one critical section.
StartWatcher(i) ==
  IF shutdown
  THEN UNCHANGED <<watches, watcher>>
  ELSE /\ watches' = i
       /\ watcher' = [Cancelled(watcher) EXCEPT ![i] = Waiting(i, FALSE)]

\* cancelWatcher: one critical section.
CancelWatcher ==
  /\ watches' = None
  /\ watcher' = Cancelled(watcher)

-----------------------------------------------------------------------------
(***************************************************************************)
(* JARVIS and the operating system.                                        *)
(***************************************************************************)

\* Wrong variant of Boot: only an application without a row is searched for
\* orphans.
BootSkipsOrphans ==
  /\ jarvis = "down" /\ boots < MaxBoots
  /\ jarvis' = "serving" /\ boots' = boots + 1 /\ shutdown' = FALSE
  /\ IF row.state \in Live /\ row.inst \in alive
     THEN /\ watches' = row.inst
          /\ watcher' = [watcher EXCEPT ![row.inst] = Waiting(row.inst, FALSE)]
          /\ UNCHANGED row
     ELSE /\ IF row.state \in Live THEN MarkState("STOPPED") ELSE UNCHANGED row
          /\ UNCHANGED <<watches, watcher>>
  /\ reported' = IF row.state = "none" THEN alive ELSE {}
  /\ IF Autostart /\ exists THEN Goto(Autostarter, "watched") ELSE UNCHANGED actor
  /\ UNCHANGED <<exists, osVars>>

\* Wrong variant of Boot: a row left in RUNNING is marked STOPPED unseen.
BootTrustsNoRow ==
  /\ jarvis = "down" /\ boots < MaxBoots
  /\ jarvis' = "serving" /\ boots' = boots + 1 /\ shutdown' = FALSE
  /\ IF row.state \in Live THEN MarkState("STOPPED") ELSE UNCHANGED row
  /\ reported' = alive \ {row.inst}
  /\ IF Autostart /\ exists THEN Goto(Autostarter, "watched") ELSE UNCHANGED actor
  /\ UNCHANGED <<watches, watcher, exists, osVars>>

\* Bootstrap and Start: Reconcile re-attaches to a recorded process that is
\* alive, marks the row of a dead one, and logs the processes no row knows;
\* then the API serves and Autostart begins.  Nothing else runs before Reconcile
\* returns, and an exit it does not see yet is seen by the watcher it starts.
Boot ==
  /\ jarvis = "down" /\ boots < MaxBoots
  /\ jarvis' = "serving" /\ boots' = boots + 1 /\ shutdown' = FALSE
  /\ IF row.state \in Live /\ row.inst \in alive
     THEN /\ watches' = row.inst
          /\ watcher' = [watcher EXCEPT ![row.inst] = Waiting(row.inst, FALSE)]
          /\ UNCHANGED row
     ELSE /\ IF row.state \in Live THEN MarkState("STOPPED") ELSE UNCHANGED row
          /\ UNCHANGED <<watches, watcher>>
  /\ reported' = alive \ {row.inst}
  /\ IF Autostart /\ exists THEN Goto(Autostarter, "watched") ELSE UNCHANGED actor
  /\ UNCHANGED <<exists, osVars>>

\* Core.Shutdown, first call: the context Autostart runs under is done.
StopHousekeeping ==
  /\ jarvis = "serving"
  /\ jarvis' = "closing"
  /\ IF actor[Autostarter].pc = "idle" THEN UNCHANGED actor ELSE ContextDone(Autostarter)
  /\ UNCHANGED <<boots, shutdown, watches, watcher, exists, row, osVars, reported>>

\* Core.Shutdown, second call: Supervisor.Shutdown.  The API is shut down
\* after it, so requests are still served.
Shutdown ==
  /\ jarvis = "closing" /\ ~shutdown
  /\ shutdown' = TRUE
  /\ CancelWatcher
  /\ UNCHANGED <<jarvis, boots, actor, exists, row, osVars, reported>>

\* The JARVIS process ends, after a shutdown or at any other moment, and its
\* goroutines with it.  The java processes do not.
Exit ==
  /\ jarvis # "down"
  /\ jarvis' = "down" /\ shutdown' = FALSE /\ watches' = None
  /\ watcher' = [w \in Launch |-> NoWatcher]
  /\ actor' = [a \in Actors |-> NoActor]
  /\ UNCHANGED <<boots, exists, row, osVars, reported>>

\* A java process exits or is killed from outside.
ProcessExits(i) ==
  /\ i \in alive
  /\ alive' = alive \ {i}
  /\ UNCHANGED <<jarvisVars, watches, watcher, actor, exists, row, launched>>

\* A client goes away and its request's context is done.
Disconnect(a) ==
  /\ Faults /\ a \in Clients
  /\ actor[a].pc # "idle" /\ ~actor[a].gone
  /\ ContextDone(a)
  /\ UNCHANGED <<jarvisVars, watches, watcher, exists, row, osVars>>

-----------------------------------------------------------------------------
(***************************************************************************)
(* API requests and Autostart.                                             *)
(***************************************************************************)

\* The first step of a request's handler.
FirstStep(op) ==
  IF op = "start" THEN "check" ELSE IF op = "delete" THEN "running" ELSE "cancel"

\* A request enters its handler.
Request(a) ==
  /\ jarvis # "down" /\ a \in Clients /\ actor[a].pc = "idle"
  /\ \E op \in Ops :
       actor' = [actor EXCEPT ![a] =
                   [pc |-> FirstStep(op), op |-> op, h |-> None, gone |-> FALSE]]
  /\ UNCHANGED <<jarvisVars, watches, watcher, exists, row, osVars>>

\* Autostart: isWatched.
AutoWatched ==
  /\ actor[Autostarter].pc = "watched"
  /\ IF watches # None THEN Done(Autostarter) ELSE Goto(Autostarter, "status")
  /\ UNCHANGED <<jarvisVars, watches, watcher, exists, row, osVars>>

\* Autostart: GetStatus reads the row.
AutoStatus ==
  /\ actor[Autostarter].pc = "status"
  /\ IF row.state \in Live /\ ~actor[Autostarter].gone
     THEN GotoWith(Autostarter, "alive", row.inst)
     ELSE Goto(Autostarter, "policy")
  /\ UNCHANGED <<jarvisVars, watches, watcher, exists, row, osVars>>

\* Autostart: GetStatus asks the operating system about the process it read.
AutoAlive ==
  /\ actor[Autostarter].pc = "alive"
  /\ IF actor[Autostarter].h \in alive THEN Done(Autostarter) ELSE Goto(Autostarter, "policy")
  /\ UNCHANGED <<jarvisVars, watches, watcher, exists, row, osVars>>

\* Autostart: readPolicy, the wait for the dependencies and the delay, any of
\* which may end it.
AutoPolicy ==
  /\ actor[Autostarter].pc = "policy"
  /\ \/ Done(Autostarter)
     \/ CanBuild(actor[Autostarter].gone) /\ Goto(Autostarter, "check")
  /\ UNCHANGED <<jarvisVars, watches, watcher, exists, row, osVars>>

\* StartApp: the look at the watch map, under s.mu.
StartCheck(a) ==
  /\ actor[a].pc = "check"
  /\ IF watches # None THEN Done(a) ELSE Goto(a, "build")
  /\ UNCHANGED <<jarvisVars, watches, watcher, exists, row, osVars>>

\* StartApp: buildLaunchSpec.
StartBuild(a) ==
  /\ actor[a].pc = "build"
  /\ IF CanBuild(actor[a].gone) THEN Goto(a, "launch") ELSE Done(a)
  /\ UNCHANGED <<jarvisVars, watches, watcher, exists, row, osVars>>

\* StartApp: runner.Start.
StartLaunch(a) ==
  /\ actor[a].pc = "launch"
  /\ \/ /\ Done(a)
        /\ UNCHANGED osVars
     \/ \E i \in Launch :
          /\ Spawn(i)
          /\ GotoWith(a, "insert", i)
  /\ UNCHANGED <<jarvisVars, watches, watcher, exists, row>>

\* StartApp: insertInstance, its error logged and forgotten.
StartInsert(a) ==
  /\ actor[a].pc = "insert"
  /\ InsertInstance(actor[a].h, 0, actor[a].gone)
  /\ Goto(a, "attach")
  /\ UNCHANGED <<jarvisVars, watches, watcher, exists, osVars>>

\* Wrong variant of StartAttach: watches the process the row names by now.
StartAttachRereads(a) ==
  /\ actor[a].pc = "attach"
  /\ StartWatcher(row.inst)
  /\ Done(a)
  /\ UNCHANGED <<jarvisVars, exists, row, osVars>>

\* StartApp: startWatcher.
StartAttach(a) ==
  /\ actor[a].pc = "attach"
  /\ StartWatcher(actor[a].h)
  /\ Done(a)
  /\ UNCHANGED <<jarvisVars, exists, row, osVars>>

\* How StopApp ends: a restart sleeps and goes on to StartApp whatever the stop
\* returned.
StopReturns(a) ==
  IF actor[a].op = "restart"
  THEN GotoWith(a, "check", None)
  ELSE Done(a)

\* StopApp: cancelWatcher.
StopCancel(a) ==
  /\ actor[a].pc = "cancel"
  /\ CancelWatcher
  /\ Goto(a, "find")
  /\ UNCHANGED <<jarvisVars, exists, row, osVars>>

\* StopApp: the row, if it says RUNNING or STARTING.
StopFind(a) ==
  /\ actor[a].pc = "find"
  /\ IF row.state \in Live /\ ~actor[a].gone
     THEN GotoWith(a, "kill", row.inst)
     ELSE StopReturns(a)
  /\ UNCHANGED <<jarvisVars, watches, watcher, exists, row, osVars>>

\* StopApp: runner.Stop finds the process gone (ErrNotRunning, an error like
\* any other to StopApp) or sets about stopping it.
StopKill(a) ==
  /\ actor[a].pc = "kill"
  /\ IF actor[a].h \in alive THEN Goto(a, "dying") ELSE StopReturns(a)
  /\ UNCHANGED <<jarvisVars, watches, watcher, exists, row, osVars>>

\* Wrong variant of StopDying: there is no last resort, Stop waits for the exit.
StopDyingWaits(a) ==
  /\ actor[a].pc = "dying"
  /\ actor[a].h \notin alive
  /\ Goto(a, "stopped")
  /\ UNCHANGED <<jarvisVars, watches, watcher, exists, row, osVars>>

\* StopApp: runner.Stop returns.  It has seen the process exit; or it fails,
\* because the process was gone just before Terminate, the client went away
\* during a wait, or the termination was refused or survived.
StopDying(a) ==
  /\ actor[a].pc = "dying"
  /\ \/ /\ alive' = alive \ {actor[a].h}
        /\ Goto(a, "stopped")
     \/ /\ actor[a].h \notin alive \/ Faults
        /\ StopReturns(a)
        /\ UNCHANGED alive
  /\ UNCHANGED <<jarvisVars, watches, watcher, exists, row, launched>>

\* StopApp: the row of the application, whichever process it names by now.
StopMark(a) ==
  /\ actor[a].pc = "stopped"
  /\ IF actor[a].gone THEN UNCHANGED row ELSE MarkState("STOPPED")
  /\ StopReturns(a)
  /\ UNCHANGED <<jarvisVars, watches, watcher, exists, osVars>>

\* handleDeleteApp: isAppRunning.
DeleteCheck(a) ==
  /\ actor[a].pc = "running"
  /\ IF row.state \in Live THEN Done(a) ELSE Goto(a, "delete")
  /\ UNCHANGED <<jarvisVars, watches, watcher, exists, row, osVars>>

\* handleDeleteApp: the DELETE, which takes the instance row with it.
DeleteApp(a) ==
  /\ actor[a].pc = "delete"
  /\ IF actor[a].gone
     THEN UNCHANGED <<exists, row>>
     ELSE exists' = FALSE /\ row' = NoRow
  /\ Done(a)
  /\ UNCHANGED <<jarvisVars, watches, watcher, osVars>>

-----------------------------------------------------------------------------
(***************************************************************************)
(* The watch goroutine.                                                    *)
(***************************************************************************)

\* Wrong variant of WatchGone: the end of one wait is taken for an exit.
WatchGoneOnTimeout(w) ==
  /\ watcher[w].pc = "wait"
  /\ WGoto(w, IF watcher[w].cancelled THEN "return" ELSE "policy")
  /\ UNCHANGED <<jarvisVars, watches, actor, exists, row, osVars>>

\* Wrong variant of WatchGone: the wait does not look at the context.
WatchGoneOnly(w) ==
  /\ watcher[w].pc = "wait"
  /\ watcher[w].h \notin alive
  /\ WGoto(w, IF watcher[w].cancelled THEN "return" ELSE "policy")
  /\ UNCHANGED <<jarvisVars, watches, actor, exists, row, osVars>>

\* waitUntilGone returns: the process is gone and the watcher not cancelled, or
\* the watcher was cancelled, whether the process is gone or not.
WatchGone(w) ==
  /\ watcher[w].pc = "wait"
  /\ \/ ~watcher[w].cancelled /\ watcher[w].h \notin alive /\ WGoto(w, "policy")
     \/ watcher[w].cancelled /\ WGoto(w, "return")
  /\ UNCHANGED <<jarvisVars, watches, actor, exists, row, osVars>>

\* readPolicy.
WatchPolicy(w) ==
  /\ watcher[w].pc = "policy"
  /\ \/ (~exists \/ FALSE \in Watchdog) /\ WGoto(w, "mark STOPPED")
     \/ exists /\ TRUE \in Watchdog /\ WGoto(w, "count")
  /\ UNCHANGED <<jarvisVars, watches, actor, exists, row, osVars>>

\* Wrong variant of WatchCount: one restart too many.
WatchCountOffByOne(w) ==
  /\ watcher[w].pc = "count"
  /\ watcher' = [watcher EXCEPT ![w] =
       [pc |-> IF MaxRestarts > 0 /\ row.count > MaxRestarts
               THEN "mark FAILED" ELSE "mark STARTING",
        h |-> @.h, next |-> @.next, count |-> row.count, cancelled |-> @.cancelled]]
  /\ UNCHANGED <<jarvisVars, watches, actor, exists, row, osVars>>

\* currentRestartCount, and the limit.
WatchCount(w) ==
  /\ watcher[w].pc = "count"
  /\ watcher' = [watcher EXCEPT ![w] =
       [pc |-> IF MaxRestarts > 0 /\ row.count >= MaxRestarts
               THEN "mark FAILED" ELSE "mark STARTING",
        h |-> @.h, next |-> @.next, count |-> row.count, cancelled |-> @.cancelled]]
  /\ UNCHANGED <<jarvisVars, watches, actor, exists, row, osVars>>

\* markState, and where each of its calls leads.
WatchMark(w) ==
  /\ \/ watcher[w].pc = "mark STARTING" /\ MarkState("STARTING") /\ WGoto(w, "backoff")
     \/ watcher[w].pc = "mark STOPPED" /\ MarkState("STOPPED") /\ WGoto(w, "return")
     \/ watcher[w].pc = "mark FAILED" /\ MarkState("FAILED") /\ WGoto(w, "return")
  /\ UNCHANGED <<jarvisVars, watches, actor, exists, osVars>>

\* The select: the timer may fire whether the watcher was cancelled or not.
WatchBackoff(w) ==
  /\ watcher[w].pc = "backoff"
  /\ \/ watcher[w].cancelled /\ WGoto(w, "mark STOPPED")
     \/ WGoto(w, "build")
  /\ UNCHANGED <<jarvisVars, watches, actor, exists, row, osVars>>

\* relaunch: buildLaunchSpec under the watcher's context.
WatchBuild(w) ==
  /\ watcher[w].pc = "build"
  /\ WGoto(w, IF CanBuild(watcher[w].cancelled) THEN "launch" ELSE "mark FAILED")
  /\ UNCHANGED <<jarvisVars, watches, actor, exists, row, osVars>>

\* Wrong variant of WatchLaunch: a launch that fails is tried again at once.
WatchLaunchRetries(w) ==
  /\ watcher[w].pc = "launch"
  /\ \/ /\ WGoto(w, "build")
        /\ UNCHANGED osVars
     \/ \E i \in Launch :
          /\ Spawn(i)
          /\ watcher' = [watcher EXCEPT ![w] =
               [pc |-> "insert", h |-> @.h, next |-> i,
                count |-> @.count, cancelled |-> @.cancelled]]
  /\ UNCHANGED <<jarvisVars, watches, actor, exists, row>>

\* relaunch: runner.Start, which looks at no context.
WatchLaunch(w) ==
  /\ watcher[w].pc = "launch"
  /\ \/ /\ WGoto(w, "mark FAILED")
        /\ UNCHANGED osVars
     \/ \E i \in Launch :
          /\ Spawn(i)
          /\ watcher' = [watcher EXCEPT ![w] =
               [pc |-> "insert", h |-> @.h, next |-> i,
                count |-> @.count, cancelled |-> @.cancelled]]
  /\ UNCHANGED <<jarvisVars, watches, actor, exists, row>>

\* relaunch: insertInstance under the watcher's context; then the new process
\* is the one watched.
WatchInsert(w) ==
  /\ watcher[w].pc = "insert"
  /\ InsertInstance(watcher[w].next, watcher[w].count + 1, watcher[w].cancelled)
  /\ watcher' = [watcher EXCEPT ![w] = Waiting(@.next, @.cancelled)]
  /\ UNCHANGED <<jarvisVars, watches, actor, exists, osVars>>

\* Wrong variant of WatchReturn: the entry is left in the map.
WatchReturnLeavesEntry(w) ==
  /\ watcher[w].pc = "return"
  /\ watcher' = [watcher EXCEPT ![w] = NoWatcher]
  /\ UNCHANGED <<jarvisVars, watches, actor, exists, row, osVars>>

\* The deferred function deletes the application's entry, whoever put it there.
WatchReturn(w) ==
  /\ watcher[w].pc = "return"
  /\ watches' = None
  /\ watcher' = [watcher EXCEPT ![w] = NoWatcher]
  /\ UNCHANGED <<jarvisVars, actor, exists, row, osVars>>

-----------------------------------------------------------------------------

AutoStep == AutoWatched \/ AutoStatus \/ AutoAlive \/ AutoPolicy
StartStep(a) == StartCheck(a) \/ StartBuild(a) \/ StartLaunch(a) \/ StartInsert(a) \/ StartAttach(a)
StopStep(a) == StopCancel(a) \/ StopFind(a) \/ StopKill(a) \/ StopDying(a) \/ StopMark(a)
DeleteStep(a) == DeleteCheck(a) \/ DeleteApp(a)
ActorMoves(a) == StartStep(a) \/ StopStep(a) \/ DeleteStep(a)
WatcherMoves(w) ==
  \/ WatchGone(w) \/ WatchPolicy(w) \/ WatchCount(w) \/ WatchMark(w) \/ WatchBackoff(w)
  \/ WatchBuild(w) \/ WatchLaunch(w) \/ WatchInsert(w) \/ WatchReturn(w)

JarvisStep == Boot \/ StopHousekeeping \/ Shutdown \/ Exit

Next ==
  \/ JarvisStep
  \/ \E i \in Launch : ProcessExits(i)
  \/ \E a \in Clients : Disconnect(a) \/ Request(a)
  \/ AutoStep
  \/ \E a \in Actors : ActorMoves(a)
  \/ \E w \in Launch : WatcherMoves(w)

Spec == Init /\ [][Next]_vars

\* The Go scheduler runs every goroutine that can run, and every wait of these
\* has a bound (the timer of the backoff, the graces of winproc.Stop).  Nothing
\* is assumed of clients, of the java processes or of the life of JARVIS.
Fairness ==
  /\ WF_vars(AutoStep)
  /\ \A a \in Actors : WF_vars(ActorMoves(a))
  /\ \A w \in Launch : WF_vars(WatcherMoves(w))

FairSpec == Spec /\ Fairness

-----------------------------------------------------------------------------
(***************************************************************************)
(* Properties.                                                             *)
(***************************************************************************)

\* The restart count recorded for an application never passes its limit,
\* whatever requests, stale watchers and restarts of JARVIS come between a
\* watcher's read of the count and the write of its relaunch.
RestartBudget == MaxRestarts > 0 => row.count <= MaxRestarts

\* An entry of the watch map is a running watcher that can still relaunch: a
\* StartApp it turns away has a watcher to point at, and a cancel through it
\* reaches one.  Once the supervisor is shut down the map stays empty.
MapNamesARunningWatcher ==
  watches # None => /\ Active(watches)
                    /\ ~watcher[watches].cancelled
                    /\ ~shutdown

\* The processes a watcher has in hand, and those a request has just launched.
WatcherHolds(w) == IF Active(w) THEN {watcher[w].h, watcher[w].next} \ {None} ELSE {}
ActorHolds(a) == IF actor[a].pc \in {"insert", "attach"} THEN {actor[a].h} ELSE {}

\* No process is in the charge of two goroutines: two watchers of one process
\* would relaunch it twice when it exits.
OneGoroutinePerProcess ==
  /\ \A v, w \in Launch : v # w => WatcherHolds(v) \cap WatcherHolds(w) = {}
  /\ \A a \in Actors, w \in Launch : ActorHolds(a) \cap WatcherHolds(w) = {}
  /\ \A a, b \in Actors : a # b => ActorHolds(a) \cap ActorHolds(b) = {}

\* A watchdog relaunch follows the exit of the process it replaces: between
\* waitUntilGone and runner.Start no request, cancel or backoff lets a watcher
\* launch beside a process it still watches.
WatchdogWaitsForExit ==
  [][\A w \in Launch :
       watcher[w].next # watcher'[w].next /\ watcher'[w].next # None
         => watcher[w].h \notin alive]_vars

\* A cancelled watch goroutine ends, in whichever step the cancel met it.
CancelledWatcherEnds ==
  \A w \in Launch : Active(w) /\ watcher[w].cancelled ~> ~Active(w)

\* An exit is dealt with: the watcher of a process that is gone comes to watch
\* another or ends, again and again.
ExitIsDealtWith ==
  \A w \in Launch : []<>(Active(w) => watcher[w].h \in alive)

\* Every request is answered: no tier of winproc.Stop, refused launch or hang-up
\* leaves StartApp, StopApp, RestartApp or Autostart waiting for ever.
RequestsAreAnswered == \A a \in Actors : []<>(actor[a].pc = "idle")

\* Autostart launches beside orphans only, each of which Reconcile has logged:
\* a process that survived JARVIS and is on record is re-attached "rather than
\* launched a second time", and so is one a watcher has relaunched since.
AutostartLaunchesNoSecondCopy ==
  [][actor[Autostarter].pc = "launch" /\ actor'[Autostarter].pc = "insert" => alive \subseteq reported]_vars

\* While JARVIS serves, every process it ever launched for the application is
\* recorded, in the charge of a goroutine, or was logged as an orphan when
\* JARVIS came up.
EveryProcessIsAccountedFor ==
  jarvis = "serving" =>
    alive \subseteq {row.inst} \cup reported
                    \cup (UNION {WatcherHolds(w) : w \in Launch})
                    \cup (UNION {ActorHolds(a) : a \in Actors})

\* Supervisor.Shutdown: "Shutdown cancels all watchers."
ShutdownCancelsAllWatchers ==
  shutdown => \A w \in Launch : Active(w) => watcher[w].cancelled

\* FindApp: "Normally there is at most one; extras are orphans from a previous
\* JARVIS lifetime."  In its first lifetime there are no extras.
ExtrasAreOrphans == boots <= 1 => \A i, j \in alive : i = j

\* A row that says RUNNING or STARTING, with no goroutine left to change it,
\* names a process that is alive: a stop of a process that is already gone
\* counts as a stop.
SettledRowIsTrue ==
  /\ jarvis = "serving"
  /\ \A w \in Launch : ~Active(w)
  /\ \A a \in Actors : actor[a].pc = "idle"
  /\ row.state \in Live
  => row.inst \in alive
=============================================================================
