-------------------------- MODULE SupervisorProofs --------------------------
(***************************************************************************)
(* What TLAPS proves of Supervisor, for every set of launches, clients and *)
(* requests and every limit.  In four parts: the type invariant and the    *)
(* restart budget; who has a process in charge (what an entry of the watch *)
(* map means, that no two goroutines hold one process, and that a watchdog *)
(* relaunch follows the exit of the process it replaces); what holds of an *)
(* installation that nobody touches (no process is lost sight of and none  *)
(* is launched twice); and Autostart over several applications, where what *)
(* DependenciesProofs proves is carried over to the composition MCSettles. *)
(*                                                                         *)
(* The argument of the second part is one of freshness: a goroutine comes  *)
(* by a process only by launching it, which draws an identifier never      *)
(* drawn before, by receiving it from the request that launched it, or     *)
(* from Reconcile at a moment when no goroutine exists.                    *)
(***************************************************************************)
EXTENDS MCSettles, TLAPS

\* The steps between the comparison of a count with the limit and the write
\* of that count plus one.
Relaunch == {"mark STARTING", "backoff", "build", "launch", "insert"}
Relaunching(w) == watcher[w].pc \in Relaunch

\* A count a watcher read and is about to add one to is below the limit.
BudgetInv ==
  MaxRestarts > 0 => /\ row.count <= MaxRestarts
                     /\ \A w \in Launch : Relaunching(w) => watcher[w].count < MaxRestarts

-----------------------------------------------------------------------------
(***************************************************************************)
(* What the helpers of the model keep.                                     *)
(***************************************************************************)

LEMMA InitialTypes == NoWatcher \in WatcherState /\ NoActor \in ActorState /\ NoRow \in Row
<1>1. NoWatcher \in WatcherState
  BY DEF NoWatcher, WatcherState, WatcherStep
<1>2. NoActor \in ActorState
  BY DEF NoActor, ActorState, ActorStep
<1>3. NoRow \in Row
  BY DEF NoRow, Row, State
<1> QED
  BY <1>1, <1>2, <1>3

LEMMA WaitingType ==
  ASSUME NEW h \in Launch \cup {None}, NEW c \in BOOLEAN
  PROVE  Waiting(h, c) \in WatcherState
  BY DEF Waiting, WatcherState, WatcherStep

LEMMA WGotoType ==
  ASSUME watcher \in [Launch -> WatcherState],
         NEW w \in Launch, NEW pc \in WatcherStep, WGoto(w, pc)
  PROVE  watcher' \in [Launch -> WatcherState]
  BY DEF WatcherState, WGoto

LEMMA CancelledType ==
  ASSUME watcher \in [Launch -> WatcherState], watches \in Launch \cup {None}
  PROVE  Cancelled(watcher) \in [Launch -> WatcherState]
  BY DEF Cancelled, WatcherState

LEMMA StartWatcherType ==
  ASSUME watcher \in [Launch -> WatcherState], watches \in Launch \cup {None},
         shutdown \in BOOLEAN, NEW i \in Launch \cup {None}, StartWatcher(i)
  PROVE  watcher' \in [Launch -> WatcherState] /\ watches' \in Launch \cup {None}
<1>1. CASE shutdown
  BY <1>1 DEF StartWatcher
<1>2. CASE ~shutdown
  <2>1. Cancelled(watcher) \in [Launch -> WatcherState]
    BY CancelledType
  <2>2. Waiting(i, FALSE) \in WatcherState
    BY WaitingType
  <2> QED
    BY <1>2, <2>1, <2>2 DEF StartWatcher
<1> QED
  BY <1>1, <1>2

LEMMA WGotoFacts ==
  ASSUME watcher \in [Launch -> WatcherState], NEW w \in Launch, NEW pc, WGoto(w, pc)
  PROVE  /\ watcher'[w].pc = pc
         /\ watcher'[w].h = watcher[w].h /\ watcher'[w].next = watcher[w].next
         /\ watcher'[w].count = watcher[w].count
         /\ watcher'[w].cancelled = watcher[w].cancelled
         /\ \A v \in Launch : v # w => watcher'[v] = watcher[v]
  BY DEF WGoto, WatcherState

LEMMA CancelledFacts ==
  ASSUME watcher \in [Launch -> WatcherState], watches \in Launch \cup {None},
         NEW v \in Launch
  PROVE  /\ Cancelled(watcher)[v].pc = watcher[v].pc
         /\ Cancelled(watcher)[v].h = watcher[v].h
         /\ Cancelled(watcher)[v].next = watcher[v].next
         /\ Cancelled(watcher)[v].count = watcher[v].count
  BY DEF Cancelled, WatcherState

LEMMA WaitingFacts ==
  ASSUME NEW h, NEW c
  PROVE  /\ Waiting(h, c).pc = "wait" /\ Waiting(h, c).h = h /\ Waiting(h, c).next = None
         /\ Waiting(h, c).count = 0 /\ Waiting(h, c).cancelled = c
  BY DEF Waiting

LEMMA StartWatcherFacts ==
  ASSUME watcher \in [Launch -> WatcherState], watches \in Launch \cup {None},
         NEW i \in Launch \cup {None}, StartWatcher(i), ~shutdown
  PROVE  /\ watches' = i
         /\ i \in Launch => watcher'[i] = Waiting(i, FALSE)
         /\ \A v \in Launch : v # i => watcher'[v] = Cancelled(watcher)[v]
<1>1. Cancelled(watcher) \in [Launch -> WatcherState]
  BY CancelledType
<1> QED
  BY <1>1 DEF StartWatcher

LEMMA GotoType ==
  ASSUME actor \in [Actors -> ActorState], NEW a \in Actors,
         NEW pc \in ActorStep, NEW h \in Launch \cup {None},
         Goto(a, pc) \/ GotoWith(a, pc, h) \/ ContextDone(a) \/ Done(a)
  PROVE  actor' \in [Actors -> ActorState]
<1>1. CASE Goto(a, pc)
  BY <1>1 DEF Goto, ActorState
<1>2. CASE GotoWith(a, pc, h)
  BY <1>2 DEF GotoWith, ActorState
<1>3. CASE ContextDone(a)
  BY <1>3 DEF ContextDone, ActorState
<1>4. CASE Done(a)
  BY <1>4, InitialTypes DEF Done
<1> QED
  BY <1>1, <1>2, <1>3, <1>4

LEMMA StopReturnsType ==
  ASSUME actor \in [Actors -> ActorState], NEW a \in Actors, StopReturns(a)
  PROVE  actor' \in [Actors -> ActorState]
<1>1. "check" \in ActorStep
  BY DEF ActorStep
<1> QED
  BY <1>1, GotoType DEF StopReturns

LEMMA MarkStateType ==
  ASSUME row \in Row, NEW state \in State, MarkState(state)
  PROVE  row' \in Row
  BY DEF Row, MarkState

LEMMA InsertType ==
  ASSUME row \in Row, exists \in BOOLEAN, NEW i \in Launch \cup {None},
         NEW c \in Nat, NEW gone \in BOOLEAN, InsertInstance(i, c, gone)
  PROVE  row' \in Row
  BY DEF Row, InsertInstance, State

-----------------------------------------------------------------------------
(***************************************************************************)
(* The type invariant.                                                     *)
(***************************************************************************)

LEMMA TypeInit == ASSUME Init PROVE TypeOK
<1>1. watches \in Launch \cup {None}
  BY Zenon DEF Init
<1> QED
  BY <1>1, InitialTypes DEF Init, TypeOK

LEMMA TypeJarvis == TypeOK /\ JarvisStep => TypeOK'
<1> SUFFICES ASSUME TypeOK, JarvisStep PROVE TypeOK'
  OBVIOUS
<1>1. CASE Boot
  <2>1. row' \in Row
    <3>1. "STOPPED" \in State
      BY DEF State
    <3> QED
      BY <1>1, <3>1, MarkStateType DEF Boot, TypeOK
  <2>2. watches' \in Launch \cup {None} /\ watcher' \in [Launch -> WatcherState]
    <3>1. CASE row.state \in Live /\ row.inst \in alive
      <4>1. row.inst \in Launch
        BY <3>1 DEF TypeOK
      <4>2. Waiting(row.inst, FALSE) \in WatcherState
        BY <4>1, WaitingType
      <4> QED
        BY <1>1, <3>1, <4>1, <4>2 DEF Boot, TypeOK
    <3>2. CASE ~(row.state \in Live /\ row.inst \in alive)
      BY <1>1, <3>2 DEF Boot, TypeOK
    <3> QED
      BY <3>1, <3>2
  <2>3. actor' \in [Actors -> ActorState]
    <3>1. "watched" \in ActorStep /\ Autostarter \in Actors
      BY DEF ActorStep, Actors
    <3> QED
      BY <1>1, <3>1, GotoType DEF Boot, TypeOK
  <2>4. jarvis' \in {"down", "serving", "closing"} /\ boots' \in Nat
    BY <1>1 DEF Boot, TypeOK
  <2>5. shutdown' \in BOOLEAN /\ exists' \in BOOLEAN
    BY <1>1 DEF Boot, TypeOK
  <2>6.  launched' \subseteq Launch /\ alive' \subseteq launched'
    BY <1>1 DEF Boot, TypeOK, osVars
  <2>7. reported' \subseteq Launch
    BY <1>1 DEF Boot, TypeOK
  <2> QED
    BY <2>1, <2>2, <2>3, <2>4, <2>5, <2>6, <2>7 DEF TypeOK
<1>2. CASE StopHousekeeping
  <2>1. actor' \in [Actors -> ActorState]
    <3>1. "idle" \in ActorStep /\ Autostarter \in Actors
      BY DEF ActorStep, Actors
    <3> QED
      BY <1>2, <3>1, GotoType DEF StopHousekeeping, TypeOK
  <2> QED
    BY <1>2, <2>1 DEF StopHousekeeping, TypeOK, osVars
<1>3. CASE Shutdown
  BY <1>3, CancelledType DEF Shutdown, CancelWatcher, TypeOK, osVars
<1>4. CASE Exit
  BY <1>4, InitialTypes DEF Exit, TypeOK, osVars
<1> QED
  BY <1>1, <1>2, <1>3, <1>4 DEF JarvisStep

LEMMA TypeActor ==
  ASSUME TypeOK, NEW a \in Actors, ActorMoves(a)
  PROVE  TypeOK'
<1> USE DEF jarvisVars, osVars
<1>1. {"build", "launch", "insert", "attach", "find", "kill", "dying", "stopped", "delete"}
        \subseteq ActorStep
  BY DEF ActorStep
<1>2. actor[a].h \in Launch \cup {None} /\ actor[a].gone \in BOOLEAN
  BY DEF TypeOK, ActorState
<1>3. CASE StartCheck(a)
  BY <1>1, <1>3, GotoType DEF StartCheck, TypeOK
<1>4. CASE StartBuild(a)
  BY <1>1, <1>4, GotoType DEF StartBuild, TypeOK
<1>5. CASE StartLaunch(a)
  <2>1. actor' \in [Actors -> ActorState]
    BY <1>1, <1>5, GotoType DEF StartLaunch, TypeOK
  <2>2. launched' \subseteq Launch /\ alive' \subseteq launched'
    BY <1>5 DEF StartLaunch, Spawn, TypeOK
  <2> QED
    BY <1>5, <2>1, <2>2 DEF StartLaunch, TypeOK
<1>6. CASE StartInsert(a)
  <2>1. row' \in Row
    BY <1>2, <1>6, InsertType DEF StartInsert, TypeOK
  <2> QED
    BY <1>1, <1>6, <2>1, GotoType DEF StartInsert, TypeOK
<1>7. CASE StartAttach(a)
  BY <1>1, <1>2, <1>7, GotoType, StartWatcherType DEF StartAttach, TypeOK
<1>8. CASE StopCancel(a)
  BY <1>1, <1>8, GotoType, CancelledType DEF StopCancel, CancelWatcher, TypeOK
<1>9. CASE StopFind(a)
  <2>1. row.inst \in Launch \cup {None}
    BY DEF TypeOK, Row
  <2> QED
    BY <1>1, <1>9, <2>1, GotoType, StopReturnsType DEF StopFind, TypeOK
<1>10. CASE StopKill(a)
  BY <1>1, <1>10, GotoType, StopReturnsType DEF StopKill, TypeOK
<1>11. CASE StopDying(a)
  BY <1>1, <1>11, GotoType, StopReturnsType DEF StopDying, TypeOK
<1>12. CASE StopMark(a)
  <2>1. "STOPPED" \in State
    BY DEF State
  <2> QED
    BY <1>12, <2>1, MarkStateType, StopReturnsType DEF StopMark, TypeOK
<1>13. CASE DeleteCheck(a)
  BY <1>1, <1>13, GotoType DEF DeleteCheck, TypeOK
<1>14. CASE DeleteApp(a)
  <2>1. row' \in Row /\ exists' \in BOOLEAN
    BY <1>14, InitialTypes DEF DeleteApp, TypeOK
  <2>2. actor' \in [Actors -> ActorState]
    BY <1>1, <1>14, GotoType DEF DeleteApp, TypeOK
  <2> QED
    BY <1>14, <2>1, <2>2 DEF DeleteApp, TypeOK
<1> QED
  BY <1>3, <1>4, <1>5, <1>6, <1>7, <1>8, <1>9, <1>10, <1>11, <1>12, <1>13, <1>14
     DEF ActorMoves, StartStep, StopStep, DeleteStep

LEMMA TypeWatcher ==
  ASSUME TypeOK, NEW w \in Launch, WatcherMoves(w)
  PROVE  TypeOK'
<1> USE DEF jarvisVars, osVars
<1>1. /\ {"wait", "policy", "count", "mark STOPPED", "mark FAILED", "mark STARTING", "backoff",
         "build", "launch", "insert", "return"} \subseteq WatcherStep
      /\ {"STOPPED", "FAILED", "STARTING"} \subseteq State
  BY DEF WatcherStep, State
<1>2. /\ watcher[w].h \in Launch \cup {None} /\ watcher[w].next \in Launch \cup {None}
      /\ watcher[w].count \in Nat /\ watcher[w].cancelled \in BOOLEAN
  BY DEF TypeOK, WatcherState
<1>3. CASE WatchGone(w)
  BY <1>1, <1>3, WGotoType DEF WatchGone, TypeOK
<1>4. CASE WatchPolicy(w)
  BY <1>1, <1>4, WGotoType DEF WatchPolicy, TypeOK
<1>5. CASE WatchMark(w)
  <2>1. watcher' \in [Launch -> WatcherState]
    BY <1>1, <1>5, WGotoType DEF WatchMark, TypeOK
  <2>2. row' \in Row
    BY <1>1, <1>5, MarkStateType DEF WatchMark, TypeOK
  <2> QED
    BY <1>5, <2>1, <2>2 DEF WatchMark, TypeOK
<1>6. CASE WatchBackoff(w)
  BY <1>1, <1>6, WGotoType DEF WatchBackoff, TypeOK
<1>7. CASE WatchBuild(w)
  BY <1>1, <1>7, WGotoType DEF WatchBuild, TypeOK
<1>8. CASE WatchLaunch(w)
  <2>1. \A i \in Launch :
          [pc |-> "insert", h |-> watcher[w].h, next |-> i,
           count |-> watcher[w].count, cancelled |-> watcher[w].cancelled] \in WatcherState
    BY <1>1, <1>2 DEF WatcherState
  <2>2. watcher' \in [Launch -> WatcherState]
    BY <1>1, <1>8, <2>1, WGotoType DEF WatchLaunch, TypeOK
  <2>3. launched' \subseteq Launch /\ alive' \subseteq launched'
    BY <1>8 DEF WatchLaunch, Spawn, TypeOK
  <2> QED
    BY <1>8, <2>2, <2>3 DEF WatchLaunch, TypeOK
<1>9. CASE WatchInsert(w)
  <2>1. watcher' \in [Launch -> WatcherState]
    BY <1>2, <1>9, WaitingType DEF WatchInsert, TypeOK
  <2>2. watcher[w].count + 1 \in Nat
    BY <1>2
  <2>3. row' \in Row
    BY <1>2, <1>9, <2>2, InsertType DEF WatchInsert, TypeOK
  <2> QED
    BY <1>9, <2>1, <2>3 DEF WatchInsert, TypeOK
<1>10. CASE WatchReturn(w)
  BY <1>10, InitialTypes DEF WatchReturn, TypeOK
<1>11. CASE WatchCount(w)
  <2>1. row.count \in Nat
    BY DEF TypeOK, Row
  <2>2. \A pc \in WatcherStep :
          [pc |-> pc, h |-> watcher[w].h, next |-> watcher[w].next,
           count |-> row.count, cancelled |-> watcher[w].cancelled] \in WatcherState
    BY <1>2, <2>1 DEF WatcherState
  <2>3. watcher' \in [Launch -> WatcherState]
    BY <1>1, <1>11, <2>2 DEF WatchCount, TypeOK
  <2> QED
    BY <1>11, <2>3 DEF WatchCount, TypeOK
<1> QED
  BY <1>3, <1>4, <1>5, <1>6, <1>7, <1>8, <1>9, <1>10, <1>11 DEF WatcherMoves

LEMMA TypeAuto == ASSUME TypeOK, AutoStep PROVE TypeOK'
<1>1. {"status", "alive", "policy", "check"} \subseteq ActorStep /\ Autostarter \in Actors
  BY DEF ActorStep, Actors
<1>2. row.inst \in Launch \cup {None}
  BY DEF TypeOK, Row
<1>3. actor' \in [Actors -> ActorState]
  BY <1>1, <1>2, GotoType DEF AutoStep, AutoWatched, AutoStatus, AutoAlive, AutoPolicy, TypeOK
<1> QED
  BY <1>3 DEF AutoStep, AutoWatched, AutoStatus, AutoAlive, AutoPolicy, TypeOK, jarvisVars, osVars

LEMMA TypeClient ==
  ASSUME TypeOK, NEW a \in Clients, Disconnect(a) \/ Request(a)
  PROVE  TypeOK'
<1> USE DEF jarvisVars, osVars
<1>1. a \in Actors
  BY DEF Actors
<1>2. CASE Disconnect(a)
  <2>1. "idle" \in ActorStep
    BY DEF ActorStep
  <2> QED
    BY <1>1, <1>2, <2>1, GotoType DEF Disconnect, TypeOK
<1>3. CASE Request(a)
  <2>1. \A op \in Ops :
          [pc |-> FirstStep(op), op |-> op, h |-> None, gone |-> FALSE] \in ActorState
    BY DEF FirstStep, ActorState, ActorStep
  <2> QED
    BY <1>3, <2>1 DEF Request, TypeOK
<1> QED
  BY <1>2, <1>3

LEMMA TypeStep == ASSUME TypeOK, [Next]_vars PROVE TypeOK'
<1>1. ASSUME NEW i \in Launch, ProcessExits(i) PROVE TypeOK'
  BY <1>1 DEF TypeOK, ProcessExits, jarvisVars
<1>2. CASE UNCHANGED vars
  BY <1>2 DEF TypeOK, vars
<1> QED
  BY <1>1, <1>2, TypeJarvis, TypeActor, TypeAuto, TypeClient, TypeWatcher DEF Next

\* Every variable of the supervisor keeps its type.
THEOREM TypeCorrect == Spec => []TypeOK
  BY TypeInit, TypeStep, PTL DEF Spec

-----------------------------------------------------------------------------
(***************************************************************************)
(* The restart budget.  A watcher reads the count, and writes it again one *)
(* higher after a backoff, a build and a launch in which anyone may have   *)
(* written it; what carries the bound across is that the copy the watcher  *)
(* holds was compared with the limit when it was read.                     *)
(***************************************************************************)

LEMMA BudgetInit == ASSUME Init PROVE BudgetInv
<1>1. \A w \in Launch : ~Relaunching(w)
  BY DEF Init, Relaunching, Relaunch, NoWatcher
<1>2. row.count = 0
  BY DEF Init, NoRow
<1> QED
  BY <1>1, <1>2, BoundAssumption DEF BudgetInv

\* Steps that leave the counts alone and let no watcher into a relaunch.
LEMMA BudgetKept ==
  ASSUME BudgetInv, row'.count \in {0, row.count},
         \A v \in Launch : Relaunching(v)' =>
           Relaunching(v) /\ watcher'[v].count = watcher[v].count
  PROVE  BudgetInv'
  BY BoundAssumption DEF BudgetInv

LEMMA MarkStateFacts ==
  ASSUME row \in Row, NEW state, MarkState(state)
  PROVE  row'.count = row.count /\ row'.inst = row.inst
  BY DEF Row, MarkState

LEMMA BudgetGoto ==
  ASSUME TypeOK, BudgetInv, NEW w \in Launch, NEW pc, WGoto(w, pc),
         row'.count = row.count, pc \in Relaunch => Relaunching(w)
  PROVE  BudgetInv'
<1>1. /\ watcher'[w].pc = pc /\ watcher'[w].count = watcher[w].count
      /\ \A v \in Launch : v # w => watcher'[v] = watcher[v]
  BY WGotoFacts DEF TypeOK
<1>2. \A v \in Launch : Relaunching(v)' =>
        Relaunching(v) /\ watcher'[v].count = watcher[v].count
  BY <1>1 DEF Relaunching
<1> QED
  BY <1>2, BudgetKept

LEMMA BudgetWatcher ==
  ASSUME TypeOK, BudgetInv, NEW w \in Launch, WatcherMoves(w)
  PROVE  BudgetInv'
<1>1. CASE WatchGone(w)
  <2>1. "policy" \notin Relaunch /\ "return" \notin Relaunch
    BY DEF Relaunch
  <2> QED
    BY <1>1, <2>1, BudgetGoto DEF WatchGone
<1>2. CASE WatchPolicy(w)
  <2>1. "mark STOPPED" \notin Relaunch /\ "count" \notin Relaunch
    BY DEF Relaunch
  <2> QED
    BY <1>2, <2>1, BudgetGoto DEF WatchPolicy
<1>3. CASE WatchMark(w)
  <2>1. row'.count = row.count
    BY <1>3, MarkStateFacts DEF WatchMark, TypeOK
  <2>2. CASE WGoto(w, "return")
    <3>1. "return" \notin Relaunch
      BY DEF Relaunch
    <3> QED
      BY <2>1, <2>2, <3>1, BudgetGoto
  <2>3. CASE watcher[w].pc = "mark STARTING" /\ WGoto(w, "backoff")
    <3>1. Relaunching(w)
      BY <2>3 DEF Relaunching, Relaunch
    <3> QED
      BY <2>1, <2>3, <3>1, BudgetGoto
  <2> QED
    BY <1>3, <2>2, <2>3 DEF WatchMark
<1>4. CASE WatchBackoff(w)
  <2>1. Relaunching(w)
    BY <1>4 DEF WatchBackoff, Relaunching, Relaunch
  <2> QED
    BY <1>4, <2>1, BudgetGoto DEF WatchBackoff
<1>5. CASE WatchBuild(w)
  <2>1. Relaunching(w)
    BY <1>5 DEF WatchBuild, Relaunching, Relaunch
  <2> QED
    BY <1>5, <2>1, BudgetGoto DEF WatchBuild
<1>6. CASE WatchLaunch(w)
  <2>1. Relaunching(w) /\ row' = row
    BY <1>6 DEF WatchLaunch, Relaunching, Relaunch
  <2>2. CASE WGoto(w, "mark FAILED")
    BY <2>1, <2>2, BudgetGoto
  <2>3. ASSUME NEW i \in Launch,
               watcher' = [watcher EXCEPT ![w] =
                 [pc |-> "insert", h |-> watcher[w].h, next |-> i,
                  count |-> watcher[w].count, cancelled |-> watcher[w].cancelled]]
        PROVE  BudgetInv'
    <3>1. /\ \A v \in Launch : v # w => watcher'[v] = watcher[v]
          /\ watcher'[w].count = watcher[w].count
      BY <2>3 DEF TypeOK
    <3>2. \A v \in Launch : Relaunching(v)' =>
            Relaunching(v) /\ watcher'[v].count = watcher[v].count
      BY <2>1, <3>1 DEF Relaunching
    <3> QED
      BY <2>1, <3>2, BudgetKept
  <2> QED
    BY <1>6, <2>2, <2>3 DEF WatchLaunch
<1>7. CASE WatchInsert(w)
  <2>1. watcher[w].count \in Nat
    BY DEF TypeOK, WatcherState
  <2>2. /\ \A v \in Launch : v # w => watcher'[v] = watcher[v]
        /\ watcher'[w].pc = "wait"
    BY <1>7, WaitingFacts DEF WatchInsert, TypeOK
  <2>3. \A v \in Launch : Relaunching(v)' =>
          Relaunching(v) /\ watcher'[v].count = watcher[v].count
    BY <2>2 DEF Relaunching, Relaunch
  <2>4. row' = row \/ row'.count = watcher[w].count + 1
    BY <1>7 DEF WatchInsert, InsertInstance
  <2>5. Relaunching(w)
    BY <1>7 DEF WatchInsert, Relaunching, Relaunch
  <2> QED
    BY <2>1, <2>3, <2>4, <2>5, BoundAssumption DEF BudgetInv
<1>8. CASE WatchReturn(w)
  <2>1. \A v \in Launch : Relaunching(v)' =>
          Relaunching(v) /\ watcher'[v].count = watcher[v].count
    BY <1>8 DEF WatchReturn, TypeOK, Relaunching, Relaunch, NoWatcher
  <2> QED
    BY <1>8, <2>1, BudgetKept DEF WatchReturn
<1>9. CASE WatchCount(w)
  <2> DEFINE pc == IF MaxRestarts > 0 /\ row.count >= MaxRestarts
                   THEN "mark FAILED" ELSE "mark STARTING"
  <2>1. /\ row' = row
        /\ watcher' = [watcher EXCEPT ![w] =
             [pc |-> pc, h |-> watcher[w].h, next |-> watcher[w].next,
              count |-> row.count, cancelled |-> watcher[w].cancelled]]
    BY <1>9 DEF WatchCount
  <2>2. /\ \A v \in Launch : v # w => watcher'[v] = watcher[v]
        /\ watcher'[w].count = row.count
        /\ watcher'[w].pc = pc
    BY <2>1 DEF TypeOK
  <2>3. \A v \in Launch : v # w /\ Relaunching(v)' =>
          Relaunching(v) /\ watcher'[v].count = watcher[v].count
    BY <2>2 DEF Relaunching
  <2>4. MaxRestarts > 0 /\ Relaunching(w)' => watcher'[w].count < MaxRestarts
    <3>1. row.count \in Nat
      BY DEF TypeOK, Row
    <3>2. MaxRestarts > 0 /\ row.count >= MaxRestarts => watcher'[w].pc = "mark FAILED"
      BY <2>2
    <3>3. "mark FAILED" \notin Relaunch
      BY DEF Relaunch
    <3>4. row.count < MaxRestarts \/ row.count >= MaxRestarts
      BY <3>1, BoundAssumption
    <3>5. watcher'[w].count = row.count
      BY <2>2
    <3> HIDE DEF pc
    <3> QED
      BY <3>2, <3>3, <3>4, <3>5, Zenon DEF Relaunching
  <2> QED
    BY <2>1, <2>3, <2>4 DEF BudgetInv
<1> QED
  BY <1>1, <1>2, <1>3, <1>4, <1>5, <1>6, <1>7, <1>8, <1>9 DEF WatcherMoves

-----------------------------------------------------------------------------
(***************************************************************************)
(* What steps other than a watcher's do to a watcher: leave it where it    *)
(* is, end it with JARVIS, or start it.                                    *)
(***************************************************************************)

Environment ==
  \/ JarvisStep
  \/ \E i \in Launch : ProcessExits(i)
  \/ \E a \in Clients : Disconnect(a) \/ Request(a)
  \/ AutoStep
  \/ \E a \in Actors : ActorMoves(a)
  \/ UNCHANGED vars

Kept(v) ==
  /\ watcher'[v].pc = watcher[v].pc
  /\ watcher'[v].h = watcher[v].h
  /\ watcher'[v].next = watcher[v].next
  /\ watcher'[v].count = watcher[v].count

Attached(v) == watcher'[v] = Waiting(v, FALSE)

LEMMA EnvironmentJarvis ==
  ASSUME TypeOK, NEW v \in Launch, JarvisStep
  PROVE  Kept(v) \/ watcher'[v] = NoWatcher \/ Attached(v)
<1>1. CASE Boot
  <2>1. CASE row.state \in Live /\ row.inst \in alive
    <3>1. watcher' = [watcher EXCEPT ![row.inst] = Waiting(row.inst, FALSE)]
      BY <1>1, <2>1 DEF Boot
    <3> QED
      BY <3>1 DEF Kept, Attached, TypeOK
  <2>2. CASE ~(row.state \in Live /\ row.inst \in alive)
    BY <1>1, <2>2 DEF Boot, Kept
  <2> QED
    BY <2>1, <2>2
<1>2. CASE StopHousekeeping
  BY <1>2 DEF StopHousekeeping, Kept
<1>3. CASE Shutdown
  BY <1>3, CancelledFacts DEF Shutdown, CancelWatcher, Kept, TypeOK
<1>4. CASE Exit
  BY <1>4 DEF Exit
<1> QED
  BY <1>1, <1>2, <1>3, <1>4 DEF JarvisStep

LEMMA EnvironmentActor ==
  ASSUME TypeOK, NEW v \in Launch, NEW a \in Actors, ActorMoves(a)
  PROVE  Kept(v) \/ Attached(v)
<1>1. CASE StartAttach(a)
  <2>1. actor[a].h \in Launch \cup {None}
    BY DEF TypeOK, ActorState
  <2>2. CASE shutdown
    BY <1>1, <2>2 DEF StartAttach, StartWatcher, Kept
  <2>3. CASE ~shutdown /\ v = actor[a].h
    BY <1>1, <2>1, <2>3, StartWatcherFacts DEF StartAttach, Attached, TypeOK
  <2>4. CASE ~shutdown /\ v # actor[a].h
    <3>1. watcher'[v] = Cancelled(watcher)[v]
      BY <1>1, <2>1, <2>4, StartWatcherFacts DEF StartAttach, TypeOK
    <3> QED
      BY <3>1, CancelledFacts DEF Kept, TypeOK
  <2> QED
    BY <2>2, <2>3, <2>4
<1>2. CASE StopCancel(a)
  BY <1>2, CancelledFacts DEF StopCancel, CancelWatcher, Kept, TypeOK
<1>3. CASE ~StartAttach(a) /\ ~StopCancel(a)
  <2>1. watcher' = watcher
    BY <1>3 DEF ActorMoves, StartStep, StopStep, DeleteStep, StartCheck, StartBuild, StartLaunch,
                StartInsert, StopFind, StopKill, StopDying, StopMark, DeleteCheck, DeleteApp
  <2> QED
    BY <2>1 DEF Kept
<1> QED
  BY <1>1, <1>2, <1>3

LEMMA EnvironmentWatchers ==
  ASSUME TypeOK, NEW v \in Launch, Environment
  PROVE  Kept(v) \/ watcher'[v] = NoWatcher \/ Attached(v)
<1>1. ASSUME NEW i \in Launch, ProcessExits(i) PROVE Kept(v)
  BY <1>1 DEF ProcessExits, Kept
<1>2. ASSUME NEW a \in Clients, Disconnect(a) \/ Request(a) PROVE Kept(v)
  BY <1>2 DEF Disconnect, Request, Kept
<1>3. CASE AutoStep
  BY <1>3 DEF AutoStep, AutoWatched, AutoStatus, AutoAlive, AutoPolicy, Kept
<1>4. CASE UNCHANGED vars
  BY <1>4 DEF vars, Kept
<1> QED
  BY <1>1, <1>2, <1>3, <1>4, EnvironmentJarvis, EnvironmentActor DEF Environment

LEMMA EnvironmentCount ==
  ASSUME TypeOK, Environment
  PROVE  row'.count \in {0, row.count}
<1>1. CASE JarvisStep
  BY <1>1, MarkStateFacts
     DEF JarvisStep, Boot, StopHousekeeping, Shutdown, Exit, TypeOK
<1>2. ASSUME NEW i \in Launch, ProcessExits(i) PROVE row' = row
  BY <1>2 DEF ProcessExits
<1>3. ASSUME NEW a \in Clients, Disconnect(a) \/ Request(a) PROVE row' = row
  BY <1>3 DEF Disconnect, Request
<1>4. CASE AutoStep
  BY <1>4 DEF AutoStep, AutoWatched, AutoStatus, AutoAlive, AutoPolicy
<1>5. ASSUME NEW a \in Actors, ActorMoves(a) PROVE row'.count \in {0, row.count}
  <2>1. CASE StartInsert(a)
    BY <2>1 DEF StartInsert, InsertInstance
  <2>2. CASE StopMark(a)
    BY <2>2, MarkStateFacts DEF StopMark, TypeOK
  <2>3. CASE DeleteApp(a)
    BY <2>3 DEF DeleteApp, NoRow
  <2>4. CASE ~StartInsert(a) /\ ~StopMark(a) /\ ~DeleteApp(a)
    <3>1. row' = row
      BY <1>5, <2>4 DEF ActorMoves, StartStep, StopStep, DeleteStep, StartCheck, StartBuild, StartLaunch,
                  StartAttach, StopCancel, StopFind, StopKill, StopDying, DeleteCheck
    <3> QED
      BY <3>1
  <2> QED
    BY <2>1, <2>2, <2>3, <2>4
<1>6. CASE UNCHANGED vars
  BY <1>6 DEF vars
<1> QED
  BY <1>1, <1>2, <1>3, <1>4, <1>5, <1>6 DEF Environment

LEMMA NextCases ==
  ASSUME [Next]_vars
  PROVE  Environment \/ \E w \in Launch : WatcherMoves(w)
  BY DEF Next, Environment

LEMMA BudgetStep == ASSUME TypeOK, BudgetInv, [Next]_vars PROVE BudgetInv'
<1>1. CASE Environment
  <2>1. ASSUME NEW v \in Launch, Relaunching(v)'
        PROVE  Relaunching(v) /\ watcher'[v].count = watcher[v].count
    <3>1. watcher'[v].pc # "idle" /\ watcher'[v].pc # "wait"
      <4>1. "idle" \notin Relaunch /\ "wait" \notin Relaunch
        BY DEF Relaunch
      <4> QED
        BY <2>1, <4>1, Zenon DEF Relaunching
    <3>2. Kept(v)
      <4>1. watcher'[v] # NoWatcher
        <5>1. NoWatcher.pc = "idle"
          BY DEF NoWatcher
        <5> QED
          BY <3>1, <5>1
      <4>2. ~Attached(v)
        <5>1. Waiting(v, FALSE).pc = "wait"
          BY DEF Waiting
        <5> QED
          BY <3>1, <5>1 DEF Attached
      <4> QED
        BY <1>1, <4>1, <4>2, EnvironmentWatchers
    <3> QED
      BY <2>1, <3>2 DEF Kept, Relaunching
  <2> QED
    BY <1>1, <2>1, EnvironmentCount, BudgetKept
<1> QED
  BY <1>1, NextCases, BudgetWatcher

\* The restart count on record never passes the application's limit.
THEOREM BudgetHolds == Spec => []RestartBudget
<1>1. Spec => []BudgetInv
  BY TypeInit, TypeStep, BudgetInit, BudgetStep, PTL DEF Spec
<1>2. BudgetInv => RestartBudget
  BY DEF BudgetInv, RestartBudget
<1> QED
  BY <1>1, <1>2, PTL

-----------------------------------------------------------------------------
(***************************************************************************)
(* Who has a process in charge.                                            *)
(***************************************************************************)

\* Nothing runs while JARVIS is down.
DownInv ==
  jarvis = "down" => /\ \A w \in Launch : ~Active(w)
                     /\ \A a \in Actors : actor[a].pc = "idle"

\* Whatever a goroutine has in hand was launched, and the launch a request has
\* in hand names no watcher yet.
HandsInv ==
  /\ \A w \in Launch : WatcherHolds(w) \subseteq launched /\ (Active(w) => w \in launched)
  /\ \A a \in Actors : ActorHolds(a) \subseteq launched
  /\ \A a \in Actors : \A w \in ActorHolds(a) : ~Active(w)

\* A watcher between waitUntilGone and the end of relaunch left a process
\* behind that is gone.
PastExit == {"policy", "count", "mark STARTING", "backoff", "build", "launch"}
GoneInv == \A w \in Launch : watcher[w].pc \in PastExit => watcher[w].h \notin alive

-----------------------------------------------------------------------------
(***************************************************************************)
(* The entries of the watch map.                                           *)
(***************************************************************************)

LEMMA MapInit == ASSUME Init PROVE MapNamesARunningWatcher
  BY DEF Init, MapNamesARunningWatcher

\* A step that leaves the map empty, or as it is and its watcher alone.
LEMMA MapKept ==
  ASSUME TypeOK, MapNamesARunningWatcher,
         \/ watches' = None
         \/ /\ watches' = watches /\ (shutdown' => shutdown)
            /\ watches # None => /\ watcher'[watches].pc # "idle"
                                 /\ watcher'[watches].cancelled = watcher[watches].cancelled
  PROVE  MapNamesARunningWatcher'
<1>1. CASE watches' = None
  BY <1>1 DEF MapNamesARunningWatcher
<1>2. CASE watches' # None
  <2>1. watches' = watches /\ watches # None
    BY <1>2
  <2>2. ~shutdown /\ ~watcher[watches].cancelled
    BY <2>1 DEF MapNamesARunningWatcher
  <2>3. watcher'[watches].pc # "idle" /\ ~watcher'[watches].cancelled /\ ~shutdown'
    BY <1>2, <2>1, <2>2, Zenon
  <2> QED
    BY <2>1, <2>3 DEF MapNamesARunningWatcher, Active
<1> QED
  BY <1>1, <1>2, Zenon

\* startWatcher puts a running watcher into the map.
LEMMA MapAttached ==
  ASSUME NEW i \in Launch, watches' = i, watcher'[i] = Waiting(i, FALSE), shutdown' = FALSE
  PROVE  MapNamesARunningWatcher'
<1>1. watcher'[i].pc # "idle"
  BY DEF Waiting
<1>2. ~watcher'[i].cancelled /\ ~shutdown'
  BY WaitingFacts
<1> QED
  BY <1>1, <1>2 DEF MapNamesARunningWatcher, Active

LEMMA MapJarvis ==
  ASSUME TypeOK, MapNamesARunningWatcher, JarvisStep
  PROVE  MapNamesARunningWatcher'
<1>1. CASE Boot
  <2>1. CASE row.state \in Live /\ row.inst \in alive
    <3>1. row.inst \in Launch
      BY <2>1 DEF TypeOK
    <3>2. /\ watches' = row.inst /\ shutdown' = FALSE
          /\ watcher' = [watcher EXCEPT ![row.inst] = Waiting(row.inst, FALSE)]
      BY <1>1, <2>1 DEF Boot
    <3>3. watcher'[row.inst] = Waiting(row.inst, FALSE)
      BY <3>1, <3>2 DEF TypeOK
    <3> QED
      BY <3>1, <3>2, <3>3, MapAttached
  <2>2. CASE ~(row.state \in Live /\ row.inst \in alive)
    <3>1. watches' = watches /\ watcher' = watcher /\ shutdown' = FALSE
      BY <1>1, <2>2 DEF Boot
    <3> QED
      BY <3>1 DEF MapNamesARunningWatcher, Active
  <2> QED
    BY <2>1, <2>2
<1>2. CASE StopHousekeeping
  BY <1>2 DEF StopHousekeeping, MapNamesARunningWatcher, Active
<1>3. CASE Shutdown
  BY <1>3, MapKept DEF Shutdown, CancelWatcher
<1>4. CASE Exit
  BY <1>4, MapKept DEF Exit
<1> QED
  BY <1>1, <1>2, <1>3, <1>4 DEF JarvisStep

LEMMA MapActor ==
  ASSUME TypeOK, MapNamesARunningWatcher, NEW a \in Actors, ActorMoves(a)
  PROVE  MapNamesARunningWatcher'
<1>1. CASE StartAttach(a)
  <2>1. actor[a].h \in Launch \cup {None}
    BY DEF TypeOK, ActorState
  <2>2. shutdown' = shutdown
    BY <1>1 DEF StartAttach, jarvisVars
  <2>3. CASE shutdown
    BY <1>1, <2>2, <2>3 DEF StartAttach, StartWatcher, MapNamesARunningWatcher, Active
  <2>4. CASE ~shutdown
    <3>1. StartWatcher(actor[a].h)
      BY <1>1 DEF StartAttach
    <3>2. watches' = actor[a].h /\ (actor[a].h \in Launch =>
                                      watcher'[actor[a].h] = Waiting(actor[a].h, FALSE))
      BY <2>1, <2>4, <3>1, StartWatcherFacts DEF TypeOK
    <3>3. CASE actor[a].h = None
      BY <3>2, <3>3, MapKept
    <3>4. CASE actor[a].h \in Launch
      BY <2>2, <2>4, <3>2, <3>4, MapAttached DEF TypeOK
    <3> QED
      BY <2>1, <3>3, <3>4
  <2> QED
    BY <2>3, <2>4
<1>2. CASE StopCancel(a)
  BY <1>2, MapKept DEF StopCancel, CancelWatcher
<1>3. CASE ~StartAttach(a) /\ ~StopCancel(a)
  <2>1. watcher' = watcher /\ watches' = watches /\ shutdown' = shutdown
    BY <1>3 DEF ActorMoves, StartStep, StopStep, DeleteStep, StartCheck, StartBuild, StartLaunch,
                StartInsert, StopFind, StopKill, StopDying, StopMark, DeleteCheck, DeleteApp, jarvisVars
  <2> QED
    BY <2>1 DEF MapNamesARunningWatcher, Active
<1> QED
  BY <1>1, <1>2, <1>3

LEMMA MapWatcher ==
  ASSUME TypeOK, MapNamesARunningWatcher, NEW w \in Launch, WatcherMoves(w)
  PROVE  MapNamesARunningWatcher'
<1>1. CASE WatchReturn(w)
  BY <1>1, MapKept DEF WatchReturn
<1>2. CASE ~WatchReturn(w)
  <2>1. watches' = watches /\ shutdown' = shutdown
    BY <1>2 DEF WatcherMoves, WatchGone, WatchPolicy, WatchCount, WatchMark, WatchBackoff, WatchBuild,
                WatchLaunch, WatchInsert, jarvisVars
  <2>2. ASSUME NEW v \in Launch, watcher[v].pc # "idle"
        PROVE  watcher'[v].pc # "idle" /\ watcher'[v].cancelled = watcher[v].cancelled
    <3>1. ASSUME NEW pc, pc # "idle", WGoto(w, pc)
          PROVE  watcher'[v].pc # "idle" /\ watcher'[v].cancelled = watcher[v].cancelled
      BY <2>2, <3>1, WGotoFacts DEF TypeOK
    <3>2. CASE WatchGone(w) \/ WatchPolicy(w) \/ WatchMark(w) \/ WatchBackoff(w) \/ WatchBuild(w)
      <4>1. \E pc \in {"policy", "count", "return", "mark STOPPED", "mark FAILED", "backoff",
                       "build", "launch"} : WGoto(w, pc)
        BY <3>2 DEF WatchGone, WatchPolicy, WatchMark, WatchBackoff, WatchBuild
      <4> QED
        BY <3>1, <4>1
    <3>3. CASE WatchCount(w)
      <4> DEFINE pc == IF MaxRestarts > 0 /\ row.count >= MaxRestarts
                       THEN "mark FAILED" ELSE "mark STARTING"
      <4>1. watcher' = [watcher EXCEPT ![w] =
              [pc |-> pc, h |-> watcher[w].h, next |-> watcher[w].next,
               count |-> row.count, cancelled |-> watcher[w].cancelled]]
        BY <3>3 DEF WatchCount
      <4>2. pc # "idle"
        OBVIOUS
      <4> HIDE DEF pc
      <4> QED
        BY <2>2, <4>1, <4>2 DEF TypeOK
    <3>4. CASE WatchLaunch(w)
      <4>1. CASE WGoto(w, "mark FAILED")
        BY <3>1, <4>1
      <4>2. CASE ~WGoto(w, "mark FAILED")
        <5>1. PICK i \in Launch : watcher' = [watcher EXCEPT ![w] =
                [pc |-> "insert", h |-> watcher[w].h, next |-> i,
                 count |-> watcher[w].count, cancelled |-> watcher[w].cancelled]]
          BY <3>4, <4>2 DEF WatchLaunch
        <5> QED
          BY <2>2, <5>1 DEF TypeOK
      <4> QED
        BY <4>1, <4>2
    <3>5. CASE WatchInsert(w)
      BY <2>2, <3>5, WaitingFacts DEF WatchInsert, TypeOK
    <3> QED
      BY <1>2, <3>2, <3>3, <3>4, <3>5 DEF WatcherMoves
  <2> QED
    BY <2>1, <2>2, MapKept DEF MapNamesARunningWatcher, Active, TypeOK
<1> QED
  BY <1>1, <1>2

LEMMA MapStep ==
  ASSUME TypeOK, MapNamesARunningWatcher, [Next]_vars
  PROVE  MapNamesARunningWatcher'
<1>1. ASSUME NEW i \in Launch, ProcessExits(i) PROVE MapNamesARunningWatcher'
  BY <1>1 DEF ProcessExits, jarvisVars, MapNamesARunningWatcher, Active
<1>2. ASSUME NEW a \in Clients, Disconnect(a) \/ Request(a) PROVE MapNamesARunningWatcher'
  BY <1>2 DEF Disconnect, Request, jarvisVars, MapNamesARunningWatcher, Active
<1>3. CASE AutoStep
  BY <1>3 DEF AutoStep, AutoWatched, AutoStatus, AutoAlive, AutoPolicy, jarvisVars, MapNamesARunningWatcher, Active
<1>4. CASE UNCHANGED vars
  BY <1>4 DEF vars, MapNamesARunningWatcher, Active
<1> QED
  BY <1>1, <1>2, <1>3, <1>4, MapJarvis, MapActor, MapWatcher DEF Next

\* An entry of the watch map is a running watcher that was not cancelled.
THEOREM MapHolds == Spec => []MapNamesARunningWatcher
  BY TypeInit, TypeStep, MapInit, MapStep, PTL DEF Spec

-----------------------------------------------------------------------------
(***************************************************************************)
(* Nothing runs while JARVIS is down.                                      *)
(***************************************************************************)

LEMMA MovesAreActive ==
  /\ \A a \in Actors : ActorMoves(a) => actor[a].pc # "idle"
  /\ \A w \in Launch : WatcherMoves(w) => watcher[w].pc # "idle"
  /\ AutoStep => actor[Autostarter].pc # "idle"
<1>1. ASSUME NEW a \in Actors, ActorMoves(a) PROVE actor[a].pc # "idle"
  BY <1>1 DEF ActorMoves, StartStep, StopStep, DeleteStep, StartCheck, StartBuild, StartLaunch,
              StartInsert, StartAttach, StopCancel, StopFind, StopKill, StopDying, StopMark,
              DeleteCheck, DeleteApp
<1>2. ASSUME NEW w \in Launch, WatcherMoves(w) PROVE watcher[w].pc # "idle"
  BY <1>2 DEF WatcherMoves, WatchGone, WatchPolicy, WatchCount, WatchMark, WatchBackoff, WatchBuild,
              WatchLaunch, WatchInsert, WatchReturn
<1>3. ASSUME AutoStep PROVE actor[Autostarter].pc # "idle"
  BY <1>3 DEF AutoStep, AutoWatched, AutoStatus, AutoAlive, AutoPolicy
<1> QED
  BY <1>1, <1>2, <1>3

LEMMA DownInit == ASSUME Init PROVE DownInv
  BY DEF Init, DownInv, Active, NoWatcher, NoActor

LEMMA DownStep == ASSUME TypeOK, DownInv, [Next]_vars PROVE DownInv'
<1>1. CASE jarvis' # "down"
  BY <1>1 DEF DownInv
<1>2. CASE Exit
  BY <1>2 DEF Exit, DownInv, Active, NoWatcher, NoActor
<1>3. CASE jarvis' = "down" /\ ~Exit
  <2>1. jarvis' = jarvis
    BY <1>3 DEF Next, JarvisStep, Boot, StopHousekeeping, Shutdown, Exit, ProcessExits, Disconnect,
       Request, AutoStep, AutoWatched, AutoStatus, AutoAlive, AutoPolicy, ActorMoves, StartStep, StopStep, DeleteStep,
       StartCheck, StartBuild, StartLaunch, StartInsert, StartAttach, StopCancel, StopFind, StopKill,
       StopDying, StopMark, DeleteCheck, DeleteApp, WatcherMoves, WatchGone, WatchPolicy, WatchCount, WatchMark,
       WatchBackoff, WatchBuild, WatchLaunch, WatchInsert, WatchReturn, jarvisVars, vars
  <2>2. /\ \A w \in Launch : watcher[w].pc = "idle"
        /\ \A a \in Actors : actor[a].pc = "idle"
    BY <1>3, <2>1 DEF DownInv, Active
  <2>3. watcher' = watcher /\ actor' = actor
    <3>1. \A a \in Clients : ~Disconnect(a) /\ ~Request(a)
      BY <1>3, <2>1, <2>2 DEF Disconnect, Request, Actors
    <3>2. Autostarter \in Actors
      BY DEF Actors
    <3>3. ~AutoStep /\ (\A a \in Actors : ~ActorMoves(a)) /\ (\A w \in Launch : ~WatcherMoves(w))
      BY <2>2, <3>2, MovesAreActive
    <3>4. ~JarvisStep
      BY <1>3, <2>1 DEF JarvisStep, Boot, StopHousekeeping, Shutdown
    <3> QED
      BY <3>1, <3>3, <3>4 DEF Next, ProcessExits, vars
  <2> QED
    BY <2>2, <2>3 DEF DownInv, Active
<1> QED
  BY <1>1, <1>2, <1>3

-----------------------------------------------------------------------------
(***************************************************************************)
(* Custody of the processes.                                               *)
(***************************************************************************)

Custody == HandsInv /\ OneGoroutinePerProcess

LEMMA CustodyInit == ASSUME Init PROVE Custody
<1>1. \A w \in Launch : WatcherHolds(w) = {} /\ ~Active(w)
  BY DEF Init, WatcherHolds, Active, NoWatcher
<1>2. \A a \in Actors : ActorHolds(a) = {}
  BY DEF Init, ActorHolds, NoActor
<1> QED
  BY <1>1, <1>2 DEF Custody, HandsInv, OneGoroutinePerProcess

\* A step in which nobody comes by a process.
LEMMA CustodyKept ==
  ASSUME TypeOK, Custody, launched \subseteq launched',
         \A w \in Launch : WatcherHolds(w)' \subseteq WatcherHolds(w) /\ (Active(w)' => Active(w)),
         \A a \in Actors : ActorHolds(a)' \subseteq ActorHolds(a)
  PROVE  Custody'
<1>1. HandsInv'
  <2>1. \A w \in Launch : WatcherHolds(w)' \subseteq launched' /\ (Active(w)' => w \in launched')
    BY DEF Custody, HandsInv
  <2>2. \A a \in Actors : ActorHolds(a)' \subseteq launched'
    BY DEF Custody, HandsInv
  <2>3. \A a \in Actors : ActorHolds(a) \subseteq Launch
    BY DEF Custody, HandsInv, TypeOK
  <2>4. \A a \in Actors : \A w \in ActorHolds(a)' : ~Active(w)'
    BY <2>3 DEF Custody, HandsInv
  <2> QED
    BY <2>1, <2>2, <2>4 DEF HandsInv
<1>2. OneGoroutinePerProcess'
  BY DEF Custody, OneGoroutinePerProcess
<1> QED
  BY <1>1, <1>2 DEF Custody

LEMMA KeptHolds ==
  ASSUME NEW v \in Launch, Kept(v)
  PROVE  WatcherHolds(v)' = WatcherHolds(v) /\ (Active(v)' <=> Active(v))
  BY DEF Kept, WatcherHolds, Active

LEMMA IdleHolds ==
  ASSUME NEW v \in Launch, watcher'[v] = NoWatcher
  PROVE  WatcherHolds(v)' = {} /\ ~Active(v)'
  BY DEF WatcherHolds, Active, NoWatcher

LEMMA AttachedHolds ==
  ASSUME NEW v \in Launch, Attached(v)
  PROVE  WatcherHolds(v)' = {v} /\ Active(v)'
  BY NoneAssumption DEF Attached, Waiting, WatcherHolds, Active

\* An actor that goes anywhere but to "insert" or "attach" has nothing new in hand.
LEMMA GotoHolds ==
  ASSUME actor \in [Actors -> ActorState], NEW a \in Actors, NEW b \in Actors, NEW pc, NEW h,
         pc \notin {"insert", "attach"},
         Goto(a, pc) \/ GotoWith(a, pc, h) \/ ContextDone(a) \/ Done(a)
  PROVE  ActorHolds(b)' \subseteq ActorHolds(b)
<1>1. CASE Goto(a, pc)
  BY <1>1 DEF Goto, ActorHolds
<1>2. CASE GotoWith(a, pc, h)
  BY <1>2 DEF GotoWith, ActorHolds
<1>3. CASE ContextDone(a)
  BY <1>3 DEF ContextDone, ActorHolds
<1>4. CASE Done(a)
  BY <1>4 DEF Done, ActorHolds, NoActor
<1> QED
  BY <1>1, <1>2, <1>3, <1>4

\* A step in which the watchers and their number stay as they are, or are
\* only cancelled, and the actors take nothing in hand.
LEMMA CustodyWatchersKept ==
  ASSUME TypeOK, Custody, launched \subseteq launched',
         \A v \in Launch : Kept(v) \/ watcher'[v] = NoWatcher,
         \A a \in Actors : ActorHolds(a)' \subseteq ActorHolds(a)
  PROVE  Custody'
<1>1. \A v \in Launch : WatcherHolds(v)' \subseteq WatcherHolds(v) /\ (Active(v)' => Active(v))
  BY KeptHolds, IdleHolds
<1> QED
  BY <1>1, CustodyKept

LEMMA CustodyJarvis == ASSUME TypeOK, DownInv, Custody, JarvisStep PROVE Custody'
<1>1. CASE Boot
  <2>1. /\ \A w \in Launch : ~Active(w) /\ WatcherHolds(w) = {}
        /\ \A a \in Actors : actor[a].pc = "idle" /\ ActorHolds(a) = {}
    BY <1>1 DEF Boot, DownInv, WatcherHolds, ActorHolds
  <2>2. \A a \in Actors : ActorHolds(a)' = {}
    <3>1. CASE actor' = actor
      BY <2>1, <3>1 DEF ActorHolds
    <3>2. CASE Goto(Autostarter, "watched")
      <4>1. Autostarter \in Actors /\ "watched" \notin {"insert", "attach"}
        BY DEF Actors
      <4>2. \A a \in Actors : ActorHolds(a)' \subseteq ActorHolds(a)
        BY <3>2, <4>1, GotoHolds DEF TypeOK
      <4> QED
        BY <2>1, <4>2
    <3> QED
      BY <1>1, <3>1, <3>2 DEF Boot
  <2>3. launched' = launched
    BY <1>1 DEF Boot, osVars
  <2>4. CASE row.state \in Live /\ row.inst \in alive
    <3>1. PICK i \in Launch : i = row.inst /\ i \in launched
      BY <2>4 DEF TypeOK
    <3>2. watcher' = [watcher EXCEPT ![i] = Waiting(i, FALSE)]
      BY <1>1, <2>4, <3>1 DEF Boot
    <3>3. Attached(i)
      BY <3>1, <3>2 DEF Attached, TypeOK
    <3>4. \A v \in Launch : v # i => WatcherHolds(v)' = {} /\ ~Active(v)'
      BY <2>1, <3>2 DEF WatcherHolds, Active, TypeOK
    <3>5. WatcherHolds(i)' = {i}
      BY <3>1, <3>3, AttachedHolds
    <3>6. HandsInv'
      BY <2>2, <2>3, <3>1, <3>4, <3>5 DEF HandsInv
    <3>7. OneGoroutinePerProcess'
      BY <2>2, <3>4 DEF OneGoroutinePerProcess
    <3> QED
      BY <3>6, <3>7 DEF Custody
  <2>5. CASE ~(row.state \in Live /\ row.inst \in alive)
    <3>1. \A v \in Launch : Kept(v)
      BY <1>1, <2>5 DEF Boot, Kept
    <3> QED
      BY <2>1, <2>2, <2>3, <3>1, CustodyWatchersKept
  <2> QED
    BY <2>4, <2>5
<1>2. CASE StopHousekeeping
  <2>1. \A v \in Launch : Kept(v)
    BY <1>2 DEF StopHousekeeping, Kept
  <2>2. \A a \in Actors : ActorHolds(a)' \subseteq ActorHolds(a)
    <3>1. CASE actor' = actor
      BY <3>1 DEF ActorHolds
    <3>2. CASE ContextDone(Autostarter)
      <4>1. Autostarter \in Actors /\ "idle" \notin {"insert", "attach"}
        BY DEF Actors
      <4> QED
        BY <3>2, <4>1, GotoHolds DEF TypeOK
    <3> QED
      BY <1>2, <3>1, <3>2 DEF StopHousekeeping
  <2> QED
    BY <1>2, <2>1, <2>2, CustodyWatchersKept DEF StopHousekeeping, osVars
<1>3. CASE Shutdown
  <2>1. \A v \in Launch : Kept(v)
    BY <1>3, CancelledFacts DEF Shutdown, CancelWatcher, Kept, TypeOK
  <2>2. \A a \in Actors : ActorHolds(a)' \subseteq ActorHolds(a)
    BY <1>3 DEF Shutdown, ActorHolds
  <2> QED
    BY <1>3, <2>1, <2>2, CustodyWatchersKept DEF Shutdown, osVars
<1>4. CASE Exit
  <2>1. \A v \in Launch : watcher'[v] = NoWatcher
    BY <1>4 DEF Exit
  <2>2. \A a \in Actors : ActorHolds(a)' \subseteq ActorHolds(a)
    BY <1>4 DEF Exit, ActorHolds, NoActor
  <2> QED
    BY <1>4, <2>1, <2>2, CustodyWatchersKept DEF Exit, osVars
<1> QED
  BY <1>1, <1>2, <1>3, <1>4 DEF JarvisStep

LEMMA CustodyActor == ASSUME TypeOK, Custody, NEW a \in Actors, ActorMoves(a) PROVE Custody'
<1>1. {"idle", "check", "build", "launch", "find", "kill", "dying", "stopped", "delete"}
        \cap {"insert", "attach"} = {}
  OBVIOUS
<1>2. ASSUME NEW b \in Actors, StopReturns(a) PROVE ActorHolds(b)' \subseteq ActorHolds(b)
  BY <1>1, <1>2, GotoHolds DEF StopReturns, TypeOK
<1>3. CASE StartCheck(a) \/ StartBuild(a) \/ StopFind(a) \/ StopKill(a) \/ StopDying(a)
             \/ StopMark(a) \/ DeleteCheck(a) \/ DeleteApp(a)
  <2>1. watcher' = watcher /\ launched' = launched
    BY <1>3 DEF StartCheck, StartBuild, StopFind, StopKill, StopDying, StopMark,
                DeleteCheck, DeleteApp, osVars
  <2>2. ASSUME NEW b \in Actors PROVE ActorHolds(b)' \subseteq ActorHolds(b)
    <3>1. \/ StopReturns(a) \/ Done(a)
          \/ \E pc \in {"build", "launch", "dying", "stopped", "delete"} : Goto(a, pc)
          \/ GotoWith(a, "kill", row.inst)
      BY <1>3 DEF StartCheck, StartBuild, StopFind, StopKill, StopDying, StopMark,
                  DeleteCheck, DeleteApp
    <3>2. ASSUME NEW pc \in {"build", "launch", "dying", "stopped", "delete"}, Goto(a, pc)
          PROVE  ActorHolds(b)' \subseteq ActorHolds(b)
      <4>1. pc \notin {"insert", "attach"}
        OBVIOUS
      <4> QED
        BY <3>2, <4>1, GotoHolds DEF TypeOK
    <3>3. ASSUME Done(a) \/ GotoWith(a, "kill", row.inst)
          PROVE  ActorHolds(b)' \subseteq ActorHolds(b)
      <4>1. "kill" \notin {"insert", "attach"}
        OBVIOUS
      <4> QED
        BY <3>3, <4>1, GotoHolds DEF TypeOK
    <3> QED
      BY <1>2, <3>1, <3>2, <3>3
  <2>3. \A v \in Launch : Kept(v)
    BY <2>1 DEF Kept
  <2> QED
    BY <2>1, <2>2, <2>3, CustodyWatchersKept
<1>4. CASE StopCancel(a)
  <2>1. \A v \in Launch : Kept(v)
    BY <1>4, CancelledFacts DEF StopCancel, CancelWatcher, Kept, TypeOK
  <2>2. "find" \notin {"insert", "attach"}
    OBVIOUS
  <2>3. \A b \in Actors : ActorHolds(b)' \subseteq ActorHolds(b)
    BY <1>4, <2>2, GotoHolds DEF StopCancel, TypeOK
  <2> QED
    BY <1>4, <2>1, <2>3, CustodyWatchersKept DEF StopCancel, osVars
<1>5. CASE StartInsert(a)
  <2>1. \A v \in Launch : Kept(v)
    BY <1>5 DEF StartInsert, Kept
  <2>2. \A b \in Actors : ActorHolds(b)' \subseteq ActorHolds(b)
    BY <1>5 DEF StartInsert, Goto, ActorHolds, TypeOK
  <2> QED
    BY <1>5, <2>1, <2>2, CustodyWatchersKept DEF StartInsert, osVars
<1>6. CASE StartLaunch(a)
  <2>1. watcher' = watcher
    BY <1>6 DEF StartLaunch
  <2>2. CASE Done(a) /\ UNCHANGED osVars
    <3>1. "idle" \notin {"insert", "attach"}
      OBVIOUS
    <3>2. \A b \in Actors : ActorHolds(b)' \subseteq ActorHolds(b)
      BY <2>2, <3>1, GotoHolds DEF TypeOK
    <3>3. \A v \in Launch : Kept(v)
      BY <2>1 DEF Kept
    <3> QED
      BY <2>2, <3>2, <3>3, CustodyWatchersKept DEF osVars
  <2>3. ASSUME NEW i \in Launch, Spawn(i), GotoWith(a, "insert", i) PROVE Custody'
    <3>1. i \notin launched /\ launched' = launched \cup {i}
      BY <2>3 DEF Spawn
    <3>2. ActorHolds(a)' = {i}
      BY <2>3 DEF GotoWith, ActorHolds, TypeOK
    <3>3. \A b \in Actors : b # a => ActorHolds(b)' = ActorHolds(b)
      BY <2>3 DEF GotoWith, ActorHolds, TypeOK
    <3>4. \A w \in Launch : WatcherHolds(w)' = WatcherHolds(w) /\ (Active(w)' <=> Active(w))
      BY <2>1 DEF WatcherHolds, Active
    <3>5. HandsInv'
      <4>1. ~Active(i)
        BY <3>1 DEF Custody, HandsInv
      <4>2. ASSUME NEW b \in Actors, NEW w \in ActorHolds(b)' PROVE ~Active(w)'
        <5>1. w \in Launch
          BY <3>2, <3>3 DEF Custody, HandsInv, TypeOK
        <5> QED
          BY <3>2, <3>3, <3>4, <4>1, <5>1 DEF Custody, HandsInv
      <4>3. \A b \in Actors : ActorHolds(b)' \subseteq launched'
        BY <3>1, <3>2, <3>3 DEF Custody, HandsInv
      <4>4. \A w \in Launch : WatcherHolds(w)' \subseteq launched' /\ (Active(w)' => w \in launched')
        BY <3>1, <3>4 DEF Custody, HandsInv
      <4> QED
        BY <4>2, <4>3, <4>4 DEF HandsInv
    <3>6. OneGoroutinePerProcess'
      BY <3>1, <3>2, <3>3, <3>4 DEF Custody, HandsInv, OneGoroutinePerProcess
    <3> QED
      BY <3>5, <3>6 DEF Custody
  <2> QED
    BY <1>6, <2>2, <2>3 DEF StartLaunch
<1>7. CASE StartAttach(a)
  <2>1. Done(a) /\ launched' = launched
    BY <1>7 DEF StartAttach, osVars
  <2>2. \A b \in Actors : ActorHolds(b)' \subseteq ActorHolds(b)
    <3>1. "idle" \notin {"insert", "attach"}
      OBVIOUS
    <3> QED
      BY <2>1, <3>1, GotoHolds DEF TypeOK
  <2>3. CASE shutdown
    <3>1. \A v \in Launch : Kept(v)
      BY <1>7, <2>3 DEF StartAttach, StartWatcher, Kept
    <3> QED
      BY <2>1, <2>2, <3>1, CustodyWatchersKept
  <2>4. CASE ~shutdown
    <3>1. ActorHolds(a) = {actor[a].h} /\ ActorHolds(a)' = {}
      BY <1>7, <2>1 DEF StartAttach, ActorHolds, Done, NoActor, TypeOK
    <3>2. PICK i \in Launch : i = actor[a].h /\ i \in launched /\ ~Active(i)
      BY <3>1 DEF Custody, HandsInv, TypeOK
    <3>3. StartWatcher(i)
      BY <1>7, <3>2 DEF StartAttach
    <3>4. /\ watcher'[i] = Waiting(i, FALSE)
          /\ \A v \in Launch : v # i => watcher'[v] = Cancelled(watcher)[v]
      BY <2>4, <3>3, StartWatcherFacts DEF TypeOK
    <3>5. WatcherHolds(i)' = {i}
      BY <3>4, AttachedHolds DEF Attached
    <3>6. \A v \in Launch : v # i => Kept(v)
      BY <3>4, CancelledFacts DEF Kept, TypeOK
    <3>7. \A v \in Launch : v # i => WatcherHolds(v)' = WatcherHolds(v) /\ (Active(v)' <=> Active(v))
      BY <3>6, KeptHolds
    <3>8. \A b \in Actors : i \notin ActorHolds(b)'
      BY <2>2, <3>1, <3>2 DEF Custody, OneGoroutinePerProcess
    <3>9. \A v \in Launch : v # i => i \notin WatcherHolds(v)
      BY <3>1, <3>2 DEF Custody, OneGoroutinePerProcess
    <3>10. HandsInv'
      <4>1. \A w \in Launch : WatcherHolds(w)' \subseteq launched' /\ (Active(w)' => w \in launched')
        BY <2>1, <3>2, <3>5, <3>7 DEF Custody, HandsInv
      <4>2. \A b \in Actors : ActorHolds(b)' \subseteq launched'
        BY <2>1, <2>2 DEF Custody, HandsInv
      <4>3. ASSUME NEW b \in Actors, NEW w \in ActorHolds(b)' PROVE ~Active(w)'
        <5>1. w \in Launch /\ w # i /\ w \in ActorHolds(b)
          BY <2>2, <3>8 DEF Custody, HandsInv, TypeOK
        <5> QED
          BY <3>7, <5>1 DEF Custody, HandsInv
      <4> QED
        BY <4>1, <4>2, <4>3 DEF HandsInv
    <3>11. OneGoroutinePerProcess'
      BY <2>2, <3>5, <3>7, <3>8, <3>9 DEF Custody, OneGoroutinePerProcess
    <3> QED
      BY <3>10, <3>11 DEF Custody
  <2> QED
    BY <2>3, <2>4
<1> QED
  BY <1>3, <1>4, <1>5, <1>6, <1>7 DEF ActorMoves, StartStep, StopStep, DeleteStep

\* A watcher that goes on with the processes it has in hand.
LEMMA CustodyGoto ==
  ASSUME TypeOK, Custody, NEW w \in Launch, watcher[w].pc # "idle", NEW pc, WGoto(w, pc),
         launched' = launched, actor' = actor
  PROVE  Custody'
<1>1. \A v \in Launch : WatcherHolds(v)' \subseteq WatcherHolds(v) /\ (Active(v)' => Active(v))
  BY WGotoFacts DEF WatcherHolds, Active, TypeOK
<1>2. \A a \in Actors : ActorHolds(a)' \subseteq ActorHolds(a)
  BY DEF ActorHolds
<1> QED
  BY <1>1, <1>2, CustodyKept

LEMMA CustodyWatcher == ASSUME TypeOK, Custody, NEW w \in Launch, WatcherMoves(w) PROVE Custody'
<1>1. watcher[w].pc # "idle" /\ actor' = actor
  BY MovesAreActive DEF WatcherMoves, WatchGone, WatchPolicy, WatchCount, WatchMark, WatchBackoff, WatchBuild,
     WatchLaunch, WatchInsert, WatchReturn
<1>2. \A a \in Actors : ActorHolds(a)' = ActorHolds(a)
  BY <1>1 DEF ActorHolds
<1>3. CASE WatchGone(w) \/ WatchPolicy(w) \/ WatchMark(w) \/ WatchBackoff(w) \/ WatchBuild(w)
  <2>1. /\ \E pc \in {"policy", "count", "return", "mark STOPPED", "mark FAILED", "backoff",
                      "build", "launch"} : WGoto(w, pc)
        /\ launched' = launched
    BY <1>3 DEF WatchGone, WatchPolicy, WatchMark, WatchBackoff, WatchBuild, osVars
  <2> QED
    BY <1>1, <2>1, CustodyGoto
<1>4. CASE WatchCount(w)
  <2> DEFINE pc == IF MaxRestarts > 0 /\ row.count >= MaxRestarts
                   THEN "mark FAILED" ELSE "mark STARTING"
  <2>1. /\ launched' = launched
        /\ watcher' = [watcher EXCEPT ![w] =
             [pc |-> pc, h |-> watcher[w].h, next |-> watcher[w].next,
              count |-> row.count, cancelled |-> watcher[w].cancelled]]
    BY <1>4 DEF WatchCount, osVars
  <2> HIDE DEF pc
  <2>2. \A v \in Launch : WatcherHolds(v)' \subseteq WatcherHolds(v) /\ (Active(v)' => Active(v))
    BY <1>1, <2>1 DEF WatcherHolds, Active, TypeOK
  <2> QED
    BY <1>2, <2>1, <2>2, CustodyKept
<1>5. CASE WatchLaunch(w)
  <2>1. CASE WGoto(w, "mark FAILED") /\ UNCHANGED osVars
    BY <1>1, <2>1, CustodyGoto DEF osVars
  <2>2. ASSUME NEW i \in Launch, Spawn(i),
               watcher' = [watcher EXCEPT ![w] =
                 [pc |-> "insert", h |-> watcher[w].h, next |-> i,
                  count |-> watcher[w].count, cancelled |-> watcher[w].cancelled]]
        PROVE  Custody'
    <3>1. i \notin launched /\ launched' = launched \cup {i}
      BY <2>2 DEF Spawn
    <3>2. /\ WatcherHolds(w)' \subseteq WatcherHolds(w) \cup {i} /\ Active(w)
          /\ \A v \in Launch : v # w => WatcherHolds(v)' = WatcherHolds(v)
          /\ \A v \in Launch : Active(v)' => Active(v)
      BY <1>1, <2>2 DEF WatcherHolds, Active, TypeOK
    <3>3. /\ \A v \in Launch : WatcherHolds(v)' \subseteq launched' /\ (Active(v)' => v \in launched')
          /\ \A a \in Actors : ActorHolds(a)' \subseteq launched'
      BY <1>2, <3>1, <3>2 DEF Custody, HandsInv
    <3>4. \A a \in Actors : ActorHolds(a) \subseteq Launch
      BY DEF Custody, HandsInv, TypeOK
    <3>5. \A a \in Actors : \A v \in ActorHolds(a)' : ~Active(v)'
      BY <1>2, <3>2, <3>4 DEF Custody, HandsInv
    <3>6. (\A v \in Launch : i \notin WatcherHolds(v)) /\ (\A a \in Actors : i \notin ActorHolds(a))
      BY <3>1 DEF Custody, HandsInv
    <3>7. OneGoroutinePerProcess'
      BY <1>2, <3>2, <3>6 DEF Custody, OneGoroutinePerProcess
    <3> QED
      BY <3>3, <3>5, <3>7 DEF Custody, HandsInv
  <2> QED
    BY <1>5, <2>1, <2>2 DEF WatchLaunch
<1>6. CASE WatchInsert(w)
  <2>1. \A v \in Launch : WatcherHolds(v)' \subseteq WatcherHolds(v) /\ (Active(v)' => Active(v))
    <3>1. watcher' = [watcher EXCEPT ![w] = Waiting(watcher[w].next, watcher[w].cancelled)]
      BY <1>6 DEF WatchInsert
    <3>2. \A v \in Launch : v # w => watcher'[v] = watcher[v]
      BY <3>1 DEF TypeOK
    <3>3. watcher'[w].h = watcher[w].next /\ watcher'[w].next = None
      BY <3>1, WaitingFacts DEF TypeOK
    <3> QED
      BY <1>1, <3>2, <3>3 DEF WatcherHolds, Active
  <2>2. launched' = launched
    BY <1>6 DEF WatchInsert, osVars
  <2> QED
    BY <1>2, <2>1, <2>2, CustodyKept
<1>7. CASE WatchReturn(w)
  <2>1. \A v \in Launch : Kept(v) \/ watcher'[v] = NoWatcher
    BY <1>7 DEF WatchReturn, Kept, TypeOK
  <2> QED
    BY <1>2, <1>7, <2>1, CustodyWatchersKept DEF WatchReturn, osVars
<1> QED
  BY <1>3, <1>4, <1>5, <1>6, <1>7 DEF WatcherMoves

LEMMA CustodyStep == ASSUME TypeOK, DownInv, Custody, [Next]_vars PROVE Custody'
<1>1. ASSUME NEW i \in Launch, ProcessExits(i) PROVE Custody'
  <2>1. (\A v \in Launch : Kept(v)) /\ (\A b \in Actors : ActorHolds(b)' \subseteq ActorHolds(b))
    BY <1>1 DEF ProcessExits, Kept, ActorHolds
  <2> QED
    BY <1>1, <2>1, CustodyWatchersKept DEF ProcessExits
<1>2. ASSUME NEW a \in Clients, Disconnect(a) \/ Request(a) PROVE Custody'
  <2>1. a \in Actors /\ "idle" \notin {"insert", "attach"}
    BY DEF Actors
  <2>2. CASE Disconnect(a)
    BY <2>1, <2>2, GotoHolds, CustodyWatchersKept DEF Disconnect, TypeOK, osVars, Kept
  <2>3. CASE Request(a)
    <3>1. \A op \in Ops : FirstStep(op) \notin {"insert", "attach"}
      BY DEF FirstStep
    <3>2. \A b \in Actors : ActorHolds(b)' \subseteq ActorHolds(b)
      BY <2>1, <2>3, <3>1 DEF Request, ActorHolds, TypeOK
    <3>3. \A v \in Launch : Kept(v)
      BY <2>3 DEF Request, Kept
    <3> QED
      BY <2>3, <3>2, <3>3, CustodyWatchersKept DEF Request, osVars
  <2> QED
    BY <1>2, <2>2, <2>3
<1>3. CASE AutoStep
  <2>1. Autostarter \in Actors /\ {"status", "alive", "policy", "check"} \cap {"insert", "attach"} = {}
    BY DEF Actors
  <2>2. \A b \in Actors : ActorHolds(b)' \subseteq ActorHolds(b)
    BY <1>3, <2>1, GotoHolds DEF AutoStep, AutoWatched, AutoStatus, AutoAlive, AutoPolicy, TypeOK
  <2>3. (\A v \in Launch : Kept(v)) /\ launched' = launched
    BY <1>3 DEF AutoStep, AutoWatched, AutoStatus, AutoAlive, AutoPolicy, Kept, osVars
  <2> QED
    BY <2>2, <2>3, CustodyWatchersKept
<1>4. CASE UNCHANGED vars
  <2>1. (\A v \in Launch : Kept(v)) /\ (\A b \in Actors : ActorHolds(b)' \subseteq ActorHolds(b))
    BY <1>4 DEF vars, Kept, ActorHolds
  <2> QED
    BY <1>4, <2>1, CustodyWatchersKept DEF vars
<1> QED
  BY <1>1, <1>2, <1>3, <1>4, CustodyJarvis, CustodyActor, CustodyWatcher DEF Next

LEMMA CustodyAlways == Spec => []Custody
  BY TypeInit, TypeStep, DownInit, DownStep, CustodyInit, CustodyStep, PTL DEF Spec

\* No process is ever in the charge of two goroutines.
THEOREM CustodyHolds == Spec => []OneGoroutinePerProcess
<1>1. Custody => OneGoroutinePerProcess
  BY DEF Custody
<1> QED
  BY <1>1, CustodyAlways, PTL

-----------------------------------------------------------------------------
(***************************************************************************)
(* A relaunch follows an exit.  That a process is gone when waitUntilGone  *)
(* returns stays true through the backoff because no process comes back:   *)
(* what is launched is new, and what a watcher holds is not.               *)
(***************************************************************************)

LEMMA GoneInit == ASSUME Init PROVE GoneInv
<1>1. "idle" \notin PastExit
  BY DEF PastExit
<1> QED
  BY <1>1 DEF Init, GoneInv, NoWatcher

LEMMA OnlyNewProcesses ==
  ASSUME TypeOK, [Next]_vars
  PROVE  alive' \subseteq alive \cup (Launch \ launched)
<1>1. CASE JarvisStep
  BY <1>1 DEF JarvisStep, Boot, StopHousekeeping, Shutdown, Exit, osVars
<1>2. ASSUME NEW i \in Launch, ProcessExits(i) PROVE alive' \subseteq alive
  BY <1>2 DEF ProcessExits
<1>3. ASSUME NEW a \in Clients, Disconnect(a) \/ Request(a) PROVE alive' = alive
  BY <1>3 DEF Disconnect, Request, osVars
<1>4. CASE AutoStep
  BY <1>4 DEF AutoStep, AutoWatched, AutoStatus, AutoAlive, AutoPolicy, osVars
<1>5. ASSUME NEW a \in Actors, ActorMoves(a) PROVE alive' \subseteq alive \cup (Launch \ launched)
  <2>1. CASE StartLaunch(a)
    BY <2>1 DEF StartLaunch, Spawn, osVars
  <2>2. CASE StopDying(a)
    BY <2>2 DEF StopDying
  <2>3. CASE ~StartLaunch(a) /\ ~StopDying(a)
    <3>1. alive' = alive
      BY <1>5, <2>3 DEF ActorMoves, StartStep, StopStep, DeleteStep, StartCheck, StartBuild,
         StartInsert, StartAttach, StopCancel, StopFind, StopKill, StopMark, DeleteCheck, DeleteApp, osVars
    <3> QED
      BY <3>1
  <2> QED
    BY <2>1, <2>2, <2>3
<1>6. ASSUME NEW w \in Launch, WatcherMoves(w) PROVE alive' \subseteq alive \cup (Launch \ launched)
  <2>1. CASE WatchLaunch(w)
    BY <2>1 DEF WatchLaunch, Spawn, osVars
  <2>2. CASE ~WatchLaunch(w)
    <3>1. alive' = alive
      BY <1>6, <2>2 DEF WatcherMoves, WatchGone, WatchPolicy, WatchCount, WatchMark, WatchBackoff, WatchBuild,
         WatchInsert, WatchReturn, osVars
    <3> QED
      BY <3>1
  <2> QED
    BY <2>1, <2>2
<1>7. CASE UNCHANGED vars
  BY <1>7 DEF vars
<1> QED
  BY <1>1, <1>2, <1>3, <1>4, <1>5, <1>6, <1>7 DEF Next

\* What currentRestartCount and runner.Start leave alone.
LEMMA WatchCountFacts ==
  ASSUME TypeOK, NEW w \in Launch, WatchCount(w), NEW v \in Launch
  PROVE  /\ watcher'[v].h = watcher[v].h /\ watcher'[v].next = watcher[v].next
         /\ v # w => watcher'[v] = watcher[v]
<1> DEFINE pc == IF MaxRestarts > 0 /\ row.count >= MaxRestarts
                 THEN "mark FAILED" ELSE "mark STARTING"
<1>1. watcher' = [watcher EXCEPT ![w] =
        [pc |-> pc, h |-> watcher[w].h, next |-> watcher[w].next,
         count |-> row.count, cancelled |-> watcher[w].cancelled]]
  BY DEF WatchCount
<1> HIDE DEF pc
<1> QED
  BY <1>1 DEF TypeOK

LEMMA WatchLaunchFacts ==
  ASSUME TypeOK, NEW w \in Launch, WatchLaunch(w), NEW v \in Launch
  PROVE  /\ watcher'[v].h = watcher[v].h
         /\ v # w => watcher'[v] = watcher[v]
         /\ watcher'[w].pc \in {"insert", "mark FAILED"}
<1>1. CASE WGoto(w, "mark FAILED")
  BY <1>1, WGotoFacts DEF TypeOK
<1>2. CASE ~WGoto(w, "mark FAILED")
  <2>1. PICK i \in Launch : watcher' = [watcher EXCEPT ![w] =
          [pc |-> "insert", h |-> watcher[w].h, next |-> i,
           count |-> watcher[w].count, cancelled |-> watcher[w].cancelled]]
    BY <1>2 DEF WatchLaunch
  <2> QED
    BY <2>1 DEF TypeOK
<1> QED
  BY <1>1, <1>2

\* The step a watcher past the exit of its process came from.
LEMMA PastExitCameFrom ==
  ASSUME TypeOK, [Next]_vars, NEW w \in Launch, watcher'[w].pc \in PastExit
  PROVE  /\ watcher'[w].h = watcher[w].h
         /\ watcher[w].pc # "idle"
         /\ watcher[w].pc \in PastExit \/ watcher[w].h \notin alive
<1> DEFINE Goal == /\ watcher'[w].h = watcher[w].h
                   /\ watcher[w].pc # "idle"
                   /\ watcher[w].pc \in PastExit \/ watcher[w].h \notin alive
<1>1. watcher'[w].pc # "idle" /\ watcher'[w].pc # "wait" /\ "idle" \notin PastExit
  <2>1. "idle" \notin PastExit /\ "wait" \notin PastExit
    BY DEF PastExit
  <2> QED
    BY <2>1
<1>2. CASE Kept(w)
  <2>1. watcher[w].pc \in PastExit /\ watcher'[w].h = watcher[w].h
    BY <1>2 DEF Kept
  <2> QED
    BY <1>1, <2>1, Zenon
<1>3. CASE Environment
  <2>1. watcher'[w] # NoWatcher
    <3>1. NoWatcher.pc = "idle"
      BY DEF NoWatcher
    <3> QED
      BY <1>1, <3>1
  <2>2. ~Attached(w)
    <3>1. Waiting(w, FALSE).pc = "wait"
      BY DEF Waiting
    <3> QED
      BY <1>1, <3>1 DEF Attached
  <2> QED
    BY <1>2, <1>3, <2>1, <2>2, EnvironmentWatchers
<1>4. ASSUME NEW v \in Launch, v # w, WatcherMoves(v) PROVE Kept(w)
  <2>1. ASSUME NEW pc, WGoto(v, pc) PROVE watcher'[w] = watcher[w]
    BY <1>4, <2>1, WGotoFacts DEF TypeOK
  <2>2. watcher'[w] = watcher[w]
    BY <1>4, <2>1 DEF WatcherMoves, WatchGone, WatchPolicy, WatchCount, WatchMark, WatchBackoff, WatchBuild,
       WatchLaunch, WatchInsert, WatchReturn, TypeOK
  <2> QED
    BY <2>2 DEF Kept
<1>5. CASE WatcherMoves(w)
  <2>1. watcher[w].pc # "idle"
    BY <1>5, MovesAreActive
  <2>2. ASSUME NEW pc, WGoto(w, pc)
        PROVE  watcher'[w].h = watcher[w].h /\ watcher'[w].pc = pc
    BY <2>2, WGotoFacts DEF TypeOK
  <2>3. "return" \notin PastExit /\ "mark STOPPED" \notin PastExit /\ "mark FAILED" \notin PastExit
        /\ "insert" \notin PastExit
    BY DEF PastExit
  <2>4. CASE WatchGone(w)
    BY <2>1, <2>2, <2>3, <2>4 DEF WatchGone
  <2>5. CASE WatchPolicy(w)
    <3>1. "policy" \in PastExit
      BY DEF PastExit
    <3> QED
      BY <2>1, <2>2, <2>3, <2>5, <3>1 DEF WatchPolicy
  <2>12. CASE WatchCount(w)
    <3>1. watcher[w].pc \in PastExit
      BY <2>12 DEF WatchCount, PastExit
    <3> QED
      BY <2>1, <2>12, <3>1, WatchCountFacts
  <2>6. CASE WatchMark(w)
    <3>1. "mark STARTING" \in PastExit
      BY DEF PastExit
    <3> QED
      BY <2>1, <2>2, <2>3, <2>6, <3>1 DEF WatchMark
  <2>7. CASE WatchBackoff(w)
    <3>1. "backoff" \in PastExit
      BY DEF PastExit
    <3> QED
      BY <2>1, <2>2, <2>3, <2>7, <3>1 DEF WatchBackoff
  <2>8. CASE WatchBuild(w)
    <3>1. "build" \in PastExit
      BY DEF PastExit
    <3> QED
      BY <2>1, <2>2, <2>8, <3>1 DEF WatchBuild
  <2>9. CASE WatchLaunch(w)
    <3>1. watcher'[w].pc \in {"insert", "mark FAILED"}
      BY <2>9, WatchLaunchFacts
    <3> QED
      BY <2>3, <3>1
  <2>10. CASE WatchInsert(w)
    <3>1. watcher'[w].pc = "wait"
      BY <2>10, WaitingFacts DEF WatchInsert, TypeOK
    <3> QED
      BY <1>1, <3>1
  <2>11. CASE WatchReturn(w)
    <3>1. watcher'[w].pc = "idle"
      BY <2>11 DEF WatchReturn, NoWatcher, TypeOK
    <3> QED
      BY <1>1, <3>1
  <2> QED
    BY <1>5, <2>4, <2>5, <2>6, <2>7, <2>8, <2>9, <2>10, <2>11, <2>12 DEF WatcherMoves
<1> QED
  BY <1>2, <1>3, <1>4, <1>5, NextCases

LEMMA GoneStep == ASSUME TypeOK, Custody, GoneInv, [Next]_vars PROVE GoneInv'
<1>1. ASSUME NEW w \in Launch, watcher'[w].pc \in PastExit PROVE watcher'[w].h \notin alive'
  <2>1. /\ watcher'[w].h = watcher[w].h /\ watcher[w].pc # "idle"
        /\ watcher[w].pc \in PastExit \/ watcher[w].h \notin alive
    BY <1>1, PastExitCameFrom
  <2>2. watcher[w].h \notin alive
    BY <2>1 DEF GoneInv
  <2>3. watcher[w].h \in launched \/ watcher[w].h = None
    BY <2>1 DEF Custody, HandsInv, WatcherHolds, Active
  <2> QED
    BY <2>1, <2>2, <2>3, OnlyNewProcesses, NoneAssumption
<1> QED
  BY <1>1 DEF GoneInv

\* Only a launch gives a watcher a next process.
LEMMA NextIsLaunched ==
  ASSUME TypeOK, [Next]_vars, NEW w \in Launch,
         watcher[w].next # watcher'[w].next, watcher'[w].next # None
  PROVE  watcher[w].pc = "launch"
<1>1. ~Kept(w)
  BY DEF Kept
<1>2. watcher'[w] # NoWatcher /\ ~Attached(w)
  <2>1. NoWatcher.next = None
    BY DEF NoWatcher
  <2>2. Waiting(w, FALSE).next = None
    BY DEF Waiting
  <2> QED
    BY <2>1, <2>2 DEF Attached
<1>3. PICK v \in Launch : WatcherMoves(v)
  BY <1>1, <1>2, EnvironmentWatchers, NextCases
<1>4. ASSUME NEW pc, WGoto(v, pc) PROVE FALSE
  BY <1>4, WGotoFacts DEF TypeOK
<1>5. ~WatchCount(v)
  BY WatchCountFacts
<1>6. ~WatchInsert(v)
  BY WaitingFacts DEF WatchInsert, TypeOK
<1>7. ~WatchReturn(v)
  BY <1>2 DEF WatchReturn, TypeOK
<1>8. WatchLaunch(v)
  BY <1>3, <1>4, <1>5, <1>6, <1>7
     DEF WatcherMoves, WatchGone, WatchPolicy, WatchMark, WatchBackoff, WatchBuild
<1>9. v = w
  BY <1>8, WatchLaunchFacts
<1> QED
  BY <1>8, <1>9 DEF WatchLaunch

\* A watchdog relaunch follows the exit of the process it replaces.
THEOREM RelaunchFollowsExit == Spec => WatchdogWaitsForExit
<1>1. Spec => []GoneInv
  BY TypeInit, TypeStep, CustodyAlways, GoneInit, GoneStep, PTL DEF Spec
<1>2. ASSUME TypeOK, GoneInv, [Next]_vars
      PROVE  [\A w \in Launch :
                watcher[w].next # watcher'[w].next /\ watcher'[w].next # None
                  => watcher[w].h \notin alive]_vars
  <2>1. "launch" \in PastExit
    BY DEF PastExit
  <2> QED
    BY <1>2, <2>1, NextIsLaunched DEF GoneInv
<1> QED
  BY <1>1, <1>2, TypeCorrect, PTL DEF Spec, WatchdogWaitsForExit

-----------------------------------------------------------------------------
(***************************************************************************)
(* An installation that nobody touches: no request is made, and JARVIS     *)
(* comes up, autostarts, dies or is shut down and comes back as often as   *)
(* it likes.  (With requests both theorems fail: two starts at once launch *)
(* two processes, and the row can name only one.)  One goroutine at a time *)
(* then has to do with the application: Autostart until it has launched or *)
(* found a watcher, and one watcher after that.  So Held, what they have   *)
(* in hand, is all that can be alive beside the orphans Reconcile logged.  *)
(***************************************************************************)

NoRequests == Clients = {} \/ Ops = {}

Starter == actor[Autostarter]

\* Autostart before its look at the map is over, and with a launch of its own.
Looking   == {"status", "alive", "policy", "check", "build"}
Attaching == {"launch", "insert", "attach"}

\* A watcher whose process has exited, until the next one is recorded.
Left == {"policy", "count", "mark STARTING", "mark STOPPED", "mark FAILED", "backoff",
         "build", "launch", "insert"}

Held == (UNION {WatcherHolds(w) : w \in Launch}) \cup ActorHolds(Autostarter)

\* Autostart alone acts, and its context is done before the watchers are cancelled.
AloneInv ==
  /\ exists
  /\ \A a \in Clients : actor[a].pc = "idle"
  /\ Starter.pc \in {"idle", "watched"} \cup Looking \cup Attaching
  /\ shutdown => jarvis = "closing"
  /\ jarvis = "closing" => Starter.pc = "idle" \/ Starter.gone

\* There is one watcher at a time, and none when Autostart launches.
OneWatcherInv ==
  /\ \A v, w \in Launch : Active(v) /\ Active(w) => v = w
  /\ ~shutdown => \A w \in Launch : Active(w) => w = watches /\ ~watcher[w].cancelled
  /\ Starter.pc \in Attaching => \A w \in Launch : ~Active(w)
  /\ Starter.pc \in Looking => Starter.gone \/ \A w \in Launch : ~Active(w)

\* Orphans were launched in an earlier life; nobody records or holds one.
OrphanInv ==
  /\ reported \subseteq launched
  /\ row.inst \in launched \cup {None}
  /\ row.inst \notin reported
  /\ Held \cap reported = {}

\* Where the process on record can be alive, and what has exited.
RecordInv ==
  /\ row.inst \in alive => row.state \in Live
  /\ \A w \in Launch :
       /\ watcher[w].pc # "insert" => watcher[w].next = None
       /\ watcher[w].pc \in Left => watcher[w].h \notin alive
       /\ watcher[w].pc = "return" /\ ~watcher[w].cancelled => watcher[w].h \notin alive
       /\ Active(w) /\ row.inst \in alive =>
            watcher[w].pc = "return" \/ (watcher[w].pc = "wait" /\ watcher[w].h = row.inst)
  /\ Starter.pc \in {"launch", "insert"} => row.inst \notin alive
  /\ Starter.pc = "attach" /\ row.inst \in alive => row.inst = Starter.h

\* Until the shutdown, and where Autostart is about to launch, every process is an
\* orphan or in hand.
InHandInv ==
  (jarvis # "down" /\ ~shutdown) \/ Starter.pc = "launch" => alive \subseteq reported \cup Held

QuietInv == AloneInv /\ OneWatcherInv /\ OrphanInv /\ RecordInv /\ InHandInv
Sound    == TypeOK /\ DownInv /\ MapNamesARunningWatcher /\ Custody

LEMMA QuietInit == ASSUME Init PROVE QuietInv
<1>1. /\ \A w \in Launch : ~Active(w) /\ WatcherHolds(w) = {} /\ watcher[w] = NoWatcher
      /\ \A a \in Actors : actor[a].pc = "idle" /\ ActorHolds(a) = {}
  BY DEF Init, WatcherHolds, ActorHolds, Active, NoWatcher, NoActor
<1>2. Autostarter \in Actors /\ Clients \subseteq Actors
  BY DEF Actors
<1>3. AloneInv /\ OneWatcherInv
  BY <1>1, <1>2 DEF Init, AloneInv, OneWatcherInv, Starter, Looking, Attaching
<1>4. OrphanInv /\ InHandInv
  BY <1>1, <1>2 DEF Init, OrphanInv, InHandInv, NoRow
<1>5. RecordInv
  BY <1>1, <1>2 DEF Init, RecordInv, Starter, NoWatcher, Left
<1> QED
  BY <1>3, <1>4, <1>5 DEF QuietInv

\* The Autostarter moves and the clients stay.
LEMMA AutoMoves ==
  ASSUME actor \in [Actors -> ActorState], NEW pc, NEW h
  PROVE  /\ Goto(Autostarter, pc) => Starter'.pc = pc /\ Starter'.gone = Starter.gone /\ Starter'.h = Starter.h
         /\ GotoWith(Autostarter, pc, h) => Starter'.pc = pc /\ Starter'.gone = Starter.gone /\ Starter'.h = h
         /\ ContextDone(Autostarter) => Starter'.pc = Starter.pc /\ Starter'.gone /\ Starter'.h = Starter.h
         /\ Done(Autostarter) => Starter'.pc = "idle"
         /\ Goto(Autostarter, pc) \/ GotoWith(Autostarter, pc, h) \/ ContextDone(Autostarter)
              \/ Done(Autostarter) => \A a \in Clients : actor'[a] = actor[a]
<1>1. Autostarter \in Actors /\ Clients \subseteq Actors
  BY DEF Actors
<1>2. \A a \in Clients : a # Autostarter
  BY AutostarterAssumption
<1>3. ASSUME Goto(Autostarter, pc)
      PROVE  /\ Starter'.pc = pc /\ Starter'.gone = Starter.gone /\ Starter'.h = Starter.h
             /\ \A a \in Clients : actor'[a] = actor[a]
  BY <1>1, <1>2, <1>3 DEF Goto, Starter
<1>4. ASSUME GotoWith(Autostarter, pc, h)
      PROVE  /\ Starter'.pc = pc /\ Starter'.gone = Starter.gone /\ Starter'.h = h
             /\ \A a \in Clients : actor'[a] = actor[a]
  BY <1>1, <1>2, <1>4 DEF GotoWith, Starter
<1>5. ASSUME ContextDone(Autostarter)
      PROVE  /\ Starter'.pc = Starter.pc /\ Starter'.gone /\ Starter'.h = Starter.h
             /\ \A a \in Clients : actor'[a] = actor[a]
  BY <1>1, <1>2, <1>5 DEF ContextDone, Starter
<1>6. ASSUME Done(Autostarter)
      PROVE  Starter'.pc = "idle" /\ \A a \in Clients : actor'[a] = actor[a]
  BY <1>1, <1>2, <1>6 DEF Done, Starter, NoActor
<1> QED
  BY <1>3, <1>4, <1>5, <1>6

\* Autostart goes on looking, or ends, and nothing else changes.
LEMMA LooksOn ==
  ASSUME QuietInv, UNCHANGED <<jarvisVars, watches, watcher, exists, row, osVars>>,
         \A a \in Clients : actor'[a] = actor[a],
         \/ Starter'.pc = "idle"
         \/ /\ Starter'.pc \in Looking /\ Starter'.gone = Starter.gone
            /\ Starter.pc \in Looking \/ (Starter.pc = "watched" /\ watches = None),
         Starter.pc \in {"watched", "launch"} \cup Looking
  PROVE  QuietInv'
<1>1. /\ ActorHolds(Autostarter) = {} /\ ActorHolds(Autostarter)' = {}
      /\ \A w \in Launch : WatcherHolds(w)' = WatcherHolds(w) /\ (Active(w)' <=> Active(w))
  BY DEF ActorHolds, WatcherHolds, Active, Starter, Looking
<1>2. Held' = Held
  BY <1>1 DEF Held
<1>3. Starter'.pc \notin Attaching /\ Starter'.pc # "watched"
  BY DEF Looking, Attaching
<1>4. AloneInv'
  BY <1>3 DEF QuietInv, AloneInv, jarvisVars, Looking
<1>5. OneWatcherInv'
  BY <1>1, <1>3, NoneAssumption DEF QuietInv, OneWatcherInv, AloneInv, jarvisVars, Looking
<1>6. OrphanInv'
  BY <1>2 DEF QuietInv, OrphanInv, jarvisVars, osVars
<1>7. RecordInv'
  BY <1>1, <1>3 DEF QuietInv, RecordInv, osVars, Attaching
<1>8. InHandInv'
  BY <1>2, <1>3 DEF QuietInv, InHandInv, jarvisVars, osVars, Attaching
<1> QED
  BY <1>4, <1>5, <1>6, <1>7, <1>8 DEF QuietInv

LEMMA QuietAuto == ASSUME Sound, QuietInv, AutoStep PROVE QuietInv'
<1>1. actor \in [Actors -> ActorState]
  BY DEF Sound, TypeOK
<1>2. UNCHANGED <<jarvisVars, watches, watcher, exists, row, osVars>>
  BY DEF AutoStep, AutoWatched, AutoStatus, AutoAlive, AutoPolicy
<1>3. Starter.pc = "watched" \/ Starter.pc \in {"status", "alive", "policy"}
  BY DEF AutoStep, AutoWatched, AutoStatus, AutoAlive, AutoPolicy, Starter
<1>4. \/ Done(Autostarter)
      \/ \E pc \in {"status", "policy", "check"} : Goto(Autostarter, pc)
           /\ (Starter.pc = "watched" => watches = None)
      \/ GotoWith(Autostarter, "alive", row.inst) /\ Starter.pc = "status"
  BY DEF AutoStep, AutoWatched, AutoStatus, AutoAlive, AutoPolicy, Starter
<1>5. /\ \A a \in Clients : actor'[a] = actor[a]
      /\ \/ Starter'.pc = "idle"
         \/ /\ Starter'.pc \in Looking /\ Starter'.gone = Starter.gone
            /\ Starter.pc \in Looking \/ (Starter.pc = "watched" /\ watches = None)
  BY <1>1, <1>3, <1>4, AutoMoves DEF Looking
<1>6. Starter.pc \in {"watched", "launch"} \cup Looking
  BY <1>3 DEF Looking
<1> QED
  BY <1>2, <1>5, <1>6, LooksOn

LEMMA QuietStart == ASSUME Sound, QuietInv, StartStep(Autostarter) PROVE QuietInv'
<1>1. actor \in [Actors -> ActorState] /\ Autostarter \in Actors
  BY DEF Sound, TypeOK, Actors
<1>2. CASE StartCheck(Autostarter) \/ (StartBuild(Autostarter) /\ ~CanBuild(Starter.gone))
  <2>1. UNCHANGED <<jarvisVars, watches, watcher, exists, row, osVars>>
    BY <1>2 DEF StartCheck, StartBuild
  <2>2. Starter.pc \in {"check", "build"} /\ (Done(Autostarter) \/ Goto(Autostarter, "build"))
    BY <1>2 DEF StartCheck, StartBuild, Starter
  <2>3. Starter.pc \in Looking /\ Starter.pc \in {"watched", "launch"} \cup Looking
    BY <2>2 DEF Looking
  <2>4. /\ \A a \in Clients : actor'[a] = actor[a]
        /\ Starter'.pc = "idle" \/ (Starter'.pc \in Looking /\ Starter'.gone = Starter.gone)
    BY <1>1, <2>2, AutoMoves DEF Looking
  <2> QED
    BY <2>1, <2>3, <2>4, LooksOn
<1>3. CASE StartBuild(Autostarter) /\ CanBuild(Starter.gone)
  <2>1. /\ UNCHANGED <<jarvis, shutdown, reported, watches, watcher, exists, row, launched, alive>>
        /\ Starter.pc = "build" /\ ~Starter.gone /\ Goto(Autostarter, "launch")
    BY <1>3 DEF StartBuild, CanBuild, Starter, jarvisVars, osVars
  <2>2. Starter'.pc = "launch" /\ \A a \in Clients : actor'[a] = actor[a]
    BY <1>1, <2>1, AutoMoves
  <2>3. jarvis # "down" /\ jarvis # "closing" /\ ~shutdown
    BY <1>1, <2>1 DEF Sound, DownInv, QuietInv, AloneInv, Starter
  <2>4. \A w \in Launch : ~Active(w)
    BY <2>1 DEF QuietInv, OneWatcherInv, Looking
  <2>5. Held = {} /\ Held' = {}
    BY <2>1, <2>2, <2>4 DEF Held, WatcherHolds, ActorHolds, Active, Starter
  <2>6. alive \subseteq reported
    BY <2>3, <2>5 DEF QuietInv, InHandInv
  <2>7. AloneInv' /\ OneWatcherInv'
    BY <2>1, <2>2, <2>3, <2>4 DEF QuietInv, AloneInv, OneWatcherInv, Active, Looking, Attaching
  <2>8. OrphanInv' /\ InHandInv'
    BY <2>1, <2>5, <2>6 DEF QuietInv, OrphanInv, InHandInv
  <2>9. RecordInv'
    BY <2>1, <2>2, <2>6 DEF QuietInv, RecordInv, OrphanInv, Active
  <2> QED
    BY <2>7, <2>8, <2>9 DEF QuietInv
<1>4. CASE StartLaunch(Autostarter)
  <2>1. Starter.pc = "launch" /\ UNCHANGED <<jarvisVars, watches, watcher, exists, row>>
    BY <1>4 DEF StartLaunch, Starter
  <2>2. CASE Done(Autostarter) /\ UNCHANGED osVars
    BY <1>1, <2>1, <2>2, AutoMoves, LooksOn
  <2>3. ASSUME NEW i \in Launch, Spawn(i), GotoWith(Autostarter, "insert", i)
        PROVE  QuietInv'
    <3>1. /\ Starter'.pc = "insert" /\ Starter'.h = i /\ Starter'.gone = Starter.gone
          /\ \A a \in Clients : actor'[a] = actor[a]
      BY <1>1, <2>3, AutoMoves
    <3>2. /\ i \notin launched /\ launched' = launched \cup {i} /\ alive' = alive \cup {i}
          /\ i # None
      BY <2>3, NoneAssumption DEF Spawn
    <3>3. \A w \in Launch : ~Active(w) /\ ~Active(w)'
      BY <2>1 DEF QuietInv, OneWatcherInv, Attaching, Active
    <3>4. Held = {} /\ Held' = {i}
      BY <2>1, <3>1, <3>3 DEF Held, WatcherHolds, ActorHolds, Active, Starter
    <3>5. alive \subseteq reported
      BY <2>1, <3>4 DEF QuietInv, InHandInv
    <3>6. AloneInv' /\ OneWatcherInv'
      BY <2>1, <3>1, <3>3 DEF QuietInv, AloneInv, OneWatcherInv, Looking, Attaching, jarvisVars
    <3>7. OrphanInv' /\ InHandInv'
      BY <2>1, <3>2, <3>4, <3>5 DEF QuietInv, OrphanInv, InHandInv, jarvisVars
    <3>8. RecordInv'
      <4>1. row.inst \notin alive'
        BY <2>1, <3>2 DEF QuietInv, OrphanInv, RecordInv
      <4>2. \A w \in Launch : watcher[w].pc = "idle"
        BY <3>3 DEF Active
      <4> QED
        BY <2>1, <3>1, <3>3, <4>1, <4>2 DEF QuietInv, RecordInv, Left
    <3> QED
      BY <3>6, <3>7, <3>8 DEF QuietInv
  <2> QED
    BY <1>4, <2>2, <2>3 DEF StartLaunch
<1>5. CASE StartInsert(Autostarter)
  <2>1. /\ Starter.pc = "insert" /\ Goto(Autostarter, "attach")
        /\ UNCHANGED <<jarvis, shutdown, reported, watches, watcher, exists, launched, alive>>
        /\ row' = row \/ (row'.inst = Starter.h /\ row'.state = "RUNNING")
    BY <1>5 DEF StartInsert, InsertInstance, Starter, jarvisVars, osVars
  <2>2. /\ Starter'.pc = "attach" /\ Starter'.h = Starter.h /\ Starter'.gone = Starter.gone
        /\ \A a \in Clients : actor'[a] = actor[a]
    BY <1>1, <2>1, AutoMoves
  <2>3. \A w \in Launch : ~Active(w) /\ ~Active(w)' /\ watcher[w].pc = "idle"
    BY <2>1 DEF QuietInv, OneWatcherInv, Attaching, Active
  <2>4. Held' = Held /\ Starter.h \in Held
    BY <2>1, <2>2, <2>3 DEF Held, WatcherHolds, ActorHolds, Active, Starter
  <2>5. Starter.h \in launched
    BY <1>1, <2>1 DEF Sound, Custody, HandsInv, ActorHolds, Starter
  <2>6. AloneInv' /\ OneWatcherInv'
    BY <2>1, <2>2, <2>3 DEF QuietInv, AloneInv, OneWatcherInv, Looking, Attaching
  <2>7. OrphanInv' /\ InHandInv'
    BY <2>1, <2>2, <2>4, <2>5 DEF QuietInv, OrphanInv, InHandInv
  <2>8. RecordInv'
    <3>1. row.inst \notin alive /\ "RUNNING" \in Live
      BY <2>1 DEF QuietInv, RecordInv, Live
    <3> QED
      BY <2>1, <2>2, <2>3, <3>1 DEF QuietInv, RecordInv, Left
  <2> QED
    BY <2>6, <2>7, <2>8 DEF QuietInv
<1>6. CASE StartAttach(Autostarter)
  <2>1. /\ Starter.pc = "attach" /\ Done(Autostarter) /\ StartWatcher(Starter.h)
        /\ UNCHANGED <<jarvis, shutdown, reported, exists, row, launched, alive>>
    BY <1>6 DEF StartAttach, Starter, jarvisVars, osVars
  <2>2. Starter'.pc = "idle" /\ \A a \in Clients : actor'[a] = actor[a]
    BY <1>1, <2>1, AutoMoves
  <2>3. \A w \in Launch : ~Active(w) /\ watcher[w].pc = "idle" /\ WatcherHolds(w) = {}
    BY <2>1 DEF QuietInv, OneWatcherInv, Attaching, Active, WatcherHolds
  <2>4. ActorHolds(Autostarter) = {Starter.h} /\ ActorHolds(Autostarter)' = {}
    BY <2>1, <2>2 DEF ActorHolds, Starter
  <2>5. Starter.h \in launched /\ Starter.h \in Launch /\ Held = {Starter.h}
    BY <1>1, <2>3, <2>4 DEF Sound, Custody, HandsInv, TypeOK, Held
  <2>6. AloneInv'
    BY <2>1, <2>2 DEF QuietInv, AloneInv
  <2>7. CASE shutdown
    <3>1. watcher' = watcher /\ watches' = watches
      BY <2>1, <2>7 DEF StartWatcher
    <3>2. Held' = {}
      BY <2>3, <2>4, <3>1 DEF Held, WatcherHolds, Active
    <3>3. OneWatcherInv' /\ OrphanInv' /\ InHandInv'
      BY <2>1, <2>2, <2>3, <2>7, <3>1, <3>2
         DEF QuietInv, OneWatcherInv, OrphanInv, InHandInv, Active, Looking, Attaching
    <3>4. RecordInv'
      BY <2>1, <2>2, <2>3, <3>1 DEF QuietInv, RecordInv, Active, Left
    <3> QED
      BY <2>6, <3>3, <3>4 DEF QuietInv
  <2>8. CASE ~shutdown
    <3>1. watches = None
      BY <2>3 DEF Sound, MapNamesARunningWatcher, TypeOK
    <3>2. /\ watches' = Starter.h /\ watcher'[Starter.h] = Waiting(Starter.h, FALSE)
          /\ \A v \in Launch : v # Starter.h => watcher'[v] = watcher[v]
      BY <2>1, <2>5, <2>8, <3>1, StartWatcherFacts DEF Sound, TypeOK, Cancelled
    <3>3. /\ \A v \in Launch : Active(v)' <=> v = Starter.h
          /\ \A v \in Launch : v # Starter.h => watcher'[v].pc = "idle" /\ watcher'[v].next = watcher[v].next
          /\ watcher'[Starter.h].pc = "wait" /\ watcher'[Starter.h].h = Starter.h
          /\ watcher'[Starter.h].next = None /\ ~watcher'[Starter.h].cancelled
      <4>1. /\ watcher'[Starter.h].pc = "wait" /\ watcher'[Starter.h].h = Starter.h
            /\ watcher'[Starter.h].next = None /\ ~watcher'[Starter.h].cancelled
        BY <3>2 DEF Waiting
      <4> QED
        BY <2>3, <2>5, <3>2, <4>1 DEF Active
    <3>4. Held' = {Starter.h}
      BY <2>4, <2>5, <3>3, NoneAssumption DEF Held, WatcherHolds
    <3>5. OneWatcherInv'
      BY <2>2, <3>2, <3>3 DEF OneWatcherInv, Looking, Attaching
    <3>6. OrphanInv' /\ InHandInv'
      BY <2>1, <2>2, <2>5, <2>8, <3>4 DEF QuietInv, OrphanInv, InHandInv
    <3>7. RecordInv'
      <4>1. Starter.pc = "attach" /\ alive' = alive /\ row' = row
        BY <2>1 DEF osVars
      <4>2. row.inst \in alive => row.inst = Starter.h /\ row.state \in Live
        BY <4>1 DEF QuietInv, RecordInv
      <4>3. \A w \in Launch : watcher'[w].pc \in {"idle", "wait"} /\ watcher'[w].next = None
        BY <2>3, <2>5, <3>3 DEF QuietInv, RecordInv
      <4>4. \A w \in Launch : Active(w)' /\ row'.inst \in alive'
              => watcher'[w].pc = "wait" /\ watcher'[w].h = row'.inst
        BY <3>3, <4>1, <4>2
      <4> QED
        BY <2>2, <4>1, <4>2, <4>3, <4>4 DEF RecordInv, Left
    <3> QED
      BY <2>6, <3>5, <3>6, <3>7 DEF QuietInv
  <2> QED
    BY <2>7, <2>8
<1> QED
  BY <1>2, <1>3, <1>4, <1>5, <1>6 DEF StartStep, StartBuild, Starter


\* JARVIS comes up, goes down, or begins to.
LEMMA QuietJarvis == ASSUME Sound, QuietInv, JarvisStep PROVE QuietInv'
<1>1. actor \in [Actors -> ActorState] /\ Autostarter \in Actors /\ Clients \subseteq Actors
  BY DEF Sound, TypeOK, Actors
<1>2. CASE Boot
  <2>1. /\ \A w \in Launch : ~Active(w) /\ watcher[w].pc = "idle" /\ WatcherHolds(w) = {}
        /\ Starter.pc = "idle" /\ \A a \in Clients : actor[a].pc = "idle"
    BY <1>1, <1>2 DEF Boot, Sound, DownInv, Active, WatcherHolds, Starter
  <2>2. watches = None /\ ~shutdown' /\ jarvis' = "serving"
    BY <1>2, <2>1 DEF Boot, Sound, MapNamesARunningWatcher, TypeOK
  <2>3. Starter'.pc \in {"idle", "watched"} /\ \A a \in Clients : actor'[a] = actor[a]
    BY <1>1, <1>2, <2>1, AutoMoves DEF Boot, Starter
  <2>4. /\ reported' = alive \ {row.inst} /\ alive' = alive /\ launched' = launched
        /\ exists' = exists /\ alive \subseteq launched
    BY <1>2 DEF Boot, osVars, Sound, TypeOK
  <2>5. AloneInv'
    BY <2>1, <2>2, <2>3, <2>4 DEF QuietInv, AloneInv
  <2>6. ActorHolds(Autostarter)' = {}
    BY <2>3 DEF ActorHolds, Starter
  <2>7. CASE row.state \in Live /\ row.inst \in alive
    <3>1. PICK i \in Launch : i = row.inst /\ i # None
      BY <2>7, <2>4, NoneAssumption DEF Sound, TypeOK
    <3>2. /\ row' = row /\ watches' = i /\ Attached(i)
          /\ \A v \in Launch : v # i => watcher'[v] = watcher[v]
      BY <1>2, <2>7, <3>1 DEF Boot, Attached, Sound, TypeOK
    <3>3. /\ watcher'[i].pc = "wait" /\ watcher'[i].h = i
          /\ watcher'[i].next = None /\ ~watcher'[i].cancelled
      BY <3>2 DEF Attached, Waiting
    <3>4. /\ \A v \in Launch : Active(v)' <=> v = i
          /\ \A v \in Launch : v # i => WatcherHolds(v)' = {}
          /\ WatcherHolds(i)' = {i}
      BY <2>1, <3>1, <3>2, <3>3 DEF Active, WatcherHolds
    <3>5. Held' = {i}
      BY <2>6, <3>1, <3>4 DEF Held
    <3>6. OneWatcherInv'
      BY <2>3, <3>2, <3>3, <3>4 DEF OneWatcherInv, Looking, Attaching
    <3>7. OrphanInv' /\ InHandInv'
      BY <2>4, <2>7, <3>1, <3>2, <3>5 DEF OrphanInv, InHandInv
    <3>8. RecordInv'
      <4>1. \A v \in Launch : watcher'[v].pc \in {"idle", "wait"} /\ watcher'[v].next = None
        BY <2>1, <3>2, <3>3 DEF QuietInv, RecordInv
      <4>2. \A v \in Launch : Active(v)' => watcher'[v].pc = "wait" /\ watcher'[v].h = row'.inst
        BY <3>1, <3>2, <3>3, <3>4
      <4> QED
        BY <2>3, <2>4, <2>7, <3>2, <4>1, <4>2 DEF RecordInv, Left
    <3> QED
      BY <2>5, <3>6, <3>7, <3>8 DEF QuietInv
  <2>8. CASE ~(row.state \in Live /\ row.inst \in alive)
    <3>1. row.inst \notin alive
      BY <2>8 DEF QuietInv, RecordInv
    <3>2. watches' = None /\ watcher' = watcher /\ row'.inst = row.inst
      BY <1>2, <2>2, <2>8, MarkStateFacts DEF Boot, Sound, TypeOK
    <3>3. \A w \in Launch : ~Active(w)' /\ WatcherHolds(w)' = {} /\ watcher'[w].pc = "idle"
      BY <2>1, <3>2 DEF Active, WatcherHolds
    <3>4. Held' = {}
      BY <2>6, <3>3 DEF Held
    <3>5. OneWatcherInv'
      BY <2>3, <3>3 DEF OneWatcherInv, Looking, Attaching
    <3>6. OrphanInv' /\ InHandInv'
      BY <2>4, <3>1, <3>2, <3>4 DEF QuietInv, OrphanInv, InHandInv
    <3>7. RecordInv'
      BY <2>3, <2>4, <3>1, <3>2, <3>3 DEF QuietInv, RecordInv, Left
    <3> QED
      BY <2>5, <3>5, <3>6, <3>7 DEF QuietInv
  <2> QED
    BY <2>7, <2>8
<1>3. CASE StopHousekeeping
  <2>1. /\ jarvis' = "closing" /\ jarvis # "down"
        /\ UNCHANGED <<shutdown, watches, watcher, exists, row, launched, alive, reported>>
    BY <1>3 DEF StopHousekeeping, osVars
  <2>2. /\ Starter'.pc = Starter.pc /\ Starter'.h = Starter.h /\ (Starter.pc = "idle" \/ Starter'.gone)
        /\ \A a \in Clients : actor'[a] = actor[a]
    BY <1>1, <1>3, AutoMoves DEF StopHousekeeping, Starter
  <2>3. Held' = Held /\ \A w \in Launch : Active(w)' <=> Active(w)
    <3>1. ActorHolds(Autostarter)' = ActorHolds(Autostarter)
      BY <2>2 DEF ActorHolds, Starter
    <3>2. \A w \in Launch : WatcherHolds(w)' = WatcherHolds(w) /\ (Active(w)' <=> Active(w))
      BY <2>1 DEF WatcherHolds, Active
    <3> QED
      BY <3>1, <3>2 DEF Held
  <2>4. AloneInv' /\ OneWatcherInv'
    BY <2>1, <2>2, <2>3 DEF QuietInv, AloneInv, OneWatcherInv, Looking
  <2>5. OrphanInv' /\ InHandInv'
    BY <2>1, <2>2, <2>3 DEF QuietInv, OrphanInv, InHandInv
  <2>6. RecordInv'
    BY <2>1, <2>2, <2>3 DEF QuietInv, RecordInv
  <2> QED
    BY <2>4, <2>5, <2>6 DEF QuietInv
<1>4. CASE Shutdown
  <2>1. /\ jarvis' = jarvis /\ jarvis = "closing" /\ shutdown' /\ actor' = actor
        /\ watcher' = Cancelled(watcher)
        /\ UNCHANGED <<exists, row, launched, alive, reported>>
    BY <1>4 DEF Shutdown, CancelWatcher, osVars
  <2>2. Starter' = Starter /\ ActorHolds(Autostarter)' = ActorHolds(Autostarter)
    BY <2>1 DEF Starter, ActorHolds
  <2>3. \A w \in Launch : /\ watcher'[w].pc = watcher[w].pc /\ watcher'[w].h = watcher[w].h
                          /\ watcher'[w].next = watcher[w].next
                          /\ watcher[w].cancelled => watcher'[w].cancelled
    BY <2>1, CancelledFacts DEF Sound, TypeOK, Cancelled, WatcherState
  <2>4. \A w \in Launch : WatcherHolds(w)' = WatcherHolds(w) /\ (Active(w)' <=> Active(w))
    BY <2>3 DEF WatcherHolds, Active
  <2>5. Held' = Held
    BY <2>2, <2>4 DEF Held
  <2>6. AloneInv' /\ OneWatcherInv'
    BY <2>1, <2>2, <2>4 DEF QuietInv, AloneInv, OneWatcherInv
  <2>7. OrphanInv' /\ InHandInv'
    BY <2>1, <2>2, <2>5 DEF QuietInv, OrphanInv, InHandInv
  <2>8. RecordInv'
    BY <2>1, <2>2, <2>3, <2>4 DEF QuietInv, RecordInv
  <2> QED
    BY <2>6, <2>7, <2>8 DEF QuietInv
<1>5. CASE Exit
  <2>1. /\ jarvis' = "down" /\ ~shutdown' /\ UNCHANGED <<exists, row, launched, alive, reported>>
        /\ \A w \in Launch : watcher'[w] = NoWatcher
        /\ \A a \in Actors : actor'[a] = NoActor
    BY <1>5 DEF Exit, osVars
  <2>2. /\ \A w \in Launch : WatcherHolds(w)' = {} /\ ~Active(w)'
        /\ \A w \in Launch : watcher'[w].pc = "idle" /\ watcher'[w].next = None
    BY <2>1 DEF WatcherHolds, Active, NoWatcher
  <2>3. /\ Starter'.pc = "idle" /\ ActorHolds(Autostarter)' = {}
        /\ \A a \in Clients : actor'[a].pc = "idle"
    BY <1>1, <2>1 DEF NoActor, Starter, ActorHolds
  <2>4. Held' = {}
    BY <2>2, <2>3 DEF Held
  <2>5. AloneInv' /\ OneWatcherInv'
    BY <2>1, <2>2, <2>3 DEF QuietInv, AloneInv, OneWatcherInv, Looking, Attaching
  <2>6. OrphanInv' /\ InHandInv'
    BY <2>1, <2>3, <2>4 DEF QuietInv, OrphanInv, InHandInv
  <2>7. RecordInv'
    BY <2>1, <2>2, <2>3 DEF QuietInv, RecordInv, Left
  <2> QED
    BY <2>5, <2>6, <2>7 DEF QuietInv
<1> QED
  BY <1>2, <1>3, <1>4, <1>5 DEF JarvisStep

LEMMA QuietExit == ASSUME QuietInv, NEW i \in Launch, ProcessExits(i) PROVE QuietInv'
<1>1. /\ alive' \subseteq alive
      /\ UNCHANGED <<jarvis, shutdown, reported, watches, watcher, actor, exists, row, launched>>
  BY DEF ProcessExits, jarvisVars
<1>2. /\ Starter' = Starter /\ ActorHolds(Autostarter)' = ActorHolds(Autostarter)
      /\ \A w \in Launch : WatcherHolds(w)' = WatcherHolds(w) /\ (Active(w)' <=> Active(w))
  BY <1>1 DEF Starter, ActorHolds, WatcherHolds, Active
<1>3. Held' = Held
  BY <1>2 DEF Held
<1>4. AloneInv' /\ OneWatcherInv'
  BY <1>1, <1>2 DEF QuietInv, AloneInv, OneWatcherInv
<1>5. OrphanInv' /\ InHandInv'
  BY <1>1, <1>2, <1>3 DEF QuietInv, OrphanInv, InHandInv
<1>6. RecordInv'
  BY <1>1, <1>2 DEF QuietInv, RecordInv
<1> QED
  BY <1>4, <1>5, <1>6 DEF QuietInv

\* The watcher that moves is the only one.
LEMMA OnlyWatcher ==
  ASSUME QuietInv, NEW w \in Launch, Active(w), UNCHANGED <<jarvisVars, actor, exists>>,
         \A v \in Launch : v # w => watcher'[v] = watcher[v]
  PROVE  /\ Starter' = Starter /\ Starter.pc \notin Attaching
         /\ AloneInv'
         /\ Held = WatcherHolds(w) /\ Held' = WatcherHolds(w)'
         /\ \A v \in Launch : v # w => ~Active(v) /\ ~Active(v)'
         /\ ~Active(w)' \/ (watches' = watches /\ watcher'[w].cancelled = watcher[w].cancelled)
              => OneWatcherInv'
<1>1. /\ Starter' = Starter /\ Starter.pc \notin Attaching /\ shutdown' = shutdown
      /\ \A v \in Launch : v # w => ~Active(v) /\ ~Active(v)'
  BY DEF QuietInv, OneWatcherInv, Starter, jarvisVars, Active
<1>2. ActorHolds(Autostarter) = {} /\ ActorHolds(Autostarter)' = {}
  BY <1>1 DEF ActorHolds, Starter, Attaching
<1>3. \A v \in Launch : v # w => WatcherHolds(v) = {} /\ WatcherHolds(v)' = {}
  BY <1>1 DEF WatcherHolds
<1>4. Held = WatcherHolds(w) /\ Held' = WatcherHolds(w)'
  BY <1>2, <1>3 DEF Held
<1>5. AloneInv'
  BY <1>1 DEF QuietInv, AloneInv, jarvisVars
<1>6. ~Active(w)' \/ (watches' = watches /\ watcher'[w].cancelled = watcher[w].cancelled)
        => OneWatcherInv'
  BY <1>1 DEF QuietInv, OneWatcherInv
<1> QED
  BY <1>1, <1>4, <1>5, <1>6

\* A watcher that goes on with the process it has, which has exited or which it leaves.
LEMMA QuietGoesOn ==
  ASSUME Sound, QuietInv, NEW w \in Launch, Active(w), watcher[w].pc \notin {"insert", "return"},
         NEW pc \in (Left \ {"insert"}) \cup {"return"},
         watcher[w].h \notin alive \/ (pc = "return" /\ watcher[w].cancelled),
         watcher'[w].pc = pc, watcher'[w].h = watcher[w].h, watcher'[w].next = watcher[w].next,
         watcher'[w].cancelled = watcher[w].cancelled,
         \A v \in Launch : v # w => watcher'[v] = watcher[v],
         row' = row \/ (row'.inst = row.inst /\ row.inst \notin alive),
         UNCHANGED <<jarvisVars, watches, actor, exists, osVars>>
  PROVE  QuietInv'
<1>1. /\ Starter' = Starter /\ Starter.pc \notin Attaching
      /\ Held = WatcherHolds(w) /\ Held' = WatcherHolds(w)'
      /\ \A v \in Launch : v # w => ~Active(v) /\ ~Active(v)'
      /\ AloneInv' /\ OneWatcherInv'
  BY OnlyWatcher
<1>2. Active(w)' /\ watcher[w].next = None
  BY DEF Active, Left, QuietInv, RecordInv
<1>3. Held' = Held
  BY <1>1, <1>2 DEF WatcherHolds
<1>4. OrphanInv' /\ InHandInv'
  BY <1>1, <1>3 DEF QuietInv, OrphanInv, InHandInv, jarvisVars, osVars
<1>5. RecordInv'
  <2>1. row'.inst \in alive' => row' = row /\ row.inst \in alive
    BY DEF osVars
  <2>2. row.inst \in alive => pc = "return"
    BY DEF QuietInv, RecordInv, Left
  <2>3. alive' = alive
    BY DEF osVars
  <2>4. \A v \in Launch : v # w => watcher'[v].pc = "idle" /\ watcher'[v].next = None
    BY <1>1 DEF QuietInv, RecordInv, Active
  <2>5. /\ watcher'[w].next = None
        /\ watcher'[w].pc \in Left => watcher'[w].h \notin alive'
        /\ watcher'[w].pc = "return" /\ ~watcher'[w].cancelled => watcher'[w].h \notin alive'
        /\ row'.inst \in alive' => watcher'[w].pc = "return"
    BY <1>2, <2>1, <2>2, <2>3 DEF Left
  <2> QED
    BY <1>1, <2>1, <2>4, <2>5 DEF QuietInv, RecordInv, Left, Attaching
<1> QED
  BY <1>1, <1>4, <1>5 DEF QuietInv


LEMMA QuietWatcher == ASSUME Sound, QuietInv, NEW w \in Launch, WatcherMoves(w) PROVE QuietInv'
<1>1. Active(w) /\ watcher \in [Launch -> WatcherState] /\ exists /\ row \in Row
  BY MovesAreActive DEF Active, Sound, TypeOK, QuietInv, AloneInv
<1> DEFINE Rest == UNCHANGED <<jarvisVars, watches, actor, exists, osVars>>
<1>2. /\ watcher[w].pc \in Left => watcher[w].h \notin alive
      /\ watcher[w].pc # "insert" => watcher[w].next = None
      /\ watcher[w].pc \in Left => row.inst \notin alive
  BY <1>1 DEF QuietInv, RecordInv, Left
<1>3. ASSUME NEW pc \in (Left \ {"insert"}) \cup {"return"}, WGoto(w, pc), Rest,
             watcher[w].pc \notin {"insert", "return"},
             watcher[w].h \notin alive \/ (pc = "return" /\ watcher[w].cancelled),
             row' = row \/ (row'.inst = row.inst /\ row.inst \notin alive)
      PROVE  QuietInv'
  <2>1. /\ watcher'[w].pc = pc /\ watcher'[w].h = watcher[w].h
        /\ watcher'[w].next = watcher[w].next /\ watcher'[w].cancelled = watcher[w].cancelled
        /\ \A v \in Launch : v # w => watcher'[v] = watcher[v]
    BY <1>1, <1>3, WGotoFacts
  <2> QED
    BY <1>1, <1>3, <2>1, QuietGoesOn
<1>4. CASE WatchGone(w)
  <2>1. /\ watcher[w].pc = "wait" /\ Rest /\ row' = row
        /\ \/ WGoto(w, "policy") /\ watcher[w].h \notin alive
           \/ WGoto(w, "return") /\ watcher[w].cancelled
    BY <1>4 DEF WatchGone
  <2> QED
    BY <1>3, <2>1 DEF Left
<1>5. CASE WatchPolicy(w) \/ WatchBackoff(w) \/ WatchBuild(w)
  <2>1. /\ watcher[w].pc \in {"policy", "backoff", "build"} /\ Rest /\ row' = row
        /\ \E pc \in {"mark STOPPED", "count", "build", "launch", "mark FAILED"} : WGoto(w, pc)
    BY <1>5 DEF WatchPolicy, WatchBackoff, WatchBuild
  <2>2. watcher[w].h \notin alive
    BY <1>2, <2>1 DEF Left
  <2> QED
    BY <1>3, <2>1, <2>2 DEF Left
<1>6. CASE WatchCount(w)
  <2>1. watcher[w].pc = "count" /\ Rest /\ row' = row
    BY <1>6 DEF WatchCount
  <2>2. watcher'[w].pc \in {"mark FAILED", "mark STARTING"}
        /\ watcher'[w].cancelled = watcher[w].cancelled
    BY <1>1, <1>6 DEF WatchCount
  <2>3. /\ watcher'[w].h = watcher[w].h /\ watcher'[w].next = watcher[w].next
        /\ \A v \in Launch : v # w => watcher'[v] = watcher[v]
    BY <1>6, WatchCountFacts DEF Sound
  <2>4. watcher[w].h \notin alive
    BY <1>2, <2>1 DEF Left
  <2>5. \A pc \in {"mark FAILED", "mark STARTING"} : pc \in (Left \ {"insert"}) \cup {"return"}
    BY DEF Left
  <2> QED
    BY <1>1, <2>1, <2>2, <2>3, <2>4, <2>5, QuietGoesOn
<1>7. CASE WatchMark(w)
  <2>1. /\ watcher[w].pc \in {"mark STARTING", "mark STOPPED", "mark FAILED"} /\ Rest
        /\ \E pc \in {"backoff", "return"} : WGoto(w, pc)
        /\ \E state \in State : MarkState(state)
    BY <1>7 DEF WatchMark, State
  <2>2. watcher[w].h \notin alive /\ row.inst \notin alive
    BY <1>2, <2>1 DEF Left
  <2>3. row'.inst = row.inst
    BY <1>1, <2>1, MarkStateFacts
  <2> QED
    BY <1>3, <2>1, <2>2, <2>3 DEF Left
<1>8. CASE WatchLaunch(w)
  <2>1. watcher[w].pc = "launch" /\ UNCHANGED <<jarvisVars, watches, actor, exists, row>>
    BY <1>8 DEF WatchLaunch
  <2>2. watcher[w].h \notin alive /\ row.inst \notin alive /\ watcher[w].next = None
    BY <1>2, <2>1 DEF Left
  <2>3. CASE WGoto(w, "mark FAILED") /\ UNCHANGED osVars
    BY <1>3, <2>1, <2>2, <2>3 DEF Left
  <2>4. CASE ~(WGoto(w, "mark FAILED") /\ UNCHANGED osVars)
    <3>1. PICK i \in Launch :
            /\ Spawn(i)
            /\ watcher' = [watcher EXCEPT ![w] =
                 [pc |-> "insert", h |-> watcher[w].h, next |-> i,
                  count |-> watcher[w].count, cancelled |-> watcher[w].cancelled]]
      BY <1>8, <2>4 DEF WatchLaunch
    <3>2. /\ watcher'[w].pc = "insert" /\ watcher'[w].h = watcher[w].h /\ watcher'[w].next = i
          /\ watcher'[w].cancelled = watcher[w].cancelled
          /\ \A v \in Launch : v # w => watcher'[v] = watcher[v]
      BY <1>1, <3>1
    <3>3. /\ i \notin launched /\ launched' = launched \cup {i} /\ alive' = alive \cup {i}
          /\ i # None
      BY <3>1, NoneAssumption DEF Spawn
    <3>4. /\ Starter' = Starter /\ Starter.pc \notin Attaching
          /\ Held = WatcherHolds(w) /\ Held' = WatcherHolds(w)'
          /\ \A v \in Launch : v # w => ~Active(v) /\ ~Active(v)'
          /\ AloneInv' /\ OneWatcherInv'
      BY <1>1, <2>1, <3>2, OnlyWatcher
    <3>5. Held' = Held \cup {i}
      BY <1>1, <2>2, <3>2, <3>3, <3>4 DEF WatcherHolds, Active
    <3>6. OrphanInv' /\ InHandInv'
      BY <2>1, <3>3, <3>4, <3>5 DEF QuietInv, OrphanInv, InHandInv, jarvisVars
    <3>7. watcher[w].h # i
      <4>1. watcher[w].h = None \/ watcher[w].h \in launched
        BY <1>1, <3>4 DEF Sound, Custody, HandsInv, WatcherHolds
      <4> QED
        BY <3>3, <4>1
    <3>8. RecordInv'
      <4>1. row.inst \notin alive' /\ watcher[w].h \notin alive'
        BY <2>2, <3>3, <3>7 DEF QuietInv, OrphanInv
      <4>2. \A v \in Launch : v # w => watcher'[v].pc = "idle" /\ watcher'[v].next = None
        BY <3>2, <3>4 DEF QuietInv, RecordInv, Active
      <4> QED
        BY <2>1, <3>2, <3>4, <4>1, <4>2 DEF RecordInv, Left
    <3> QED
      BY <3>4, <3>6, <3>8 DEF QuietInv
  <2> QED
    BY <2>3, <2>4
<1>9. CASE WatchInsert(w)
  <2>1. /\ watcher[w].pc = "insert" /\ Rest
        /\ row' = row \/ (row'.inst = watcher[w].next /\ row'.state = "RUNNING")
    BY <1>9 DEF WatchInsert, InsertInstance
  <2>2. /\ watcher'[w].pc = "wait" /\ watcher'[w].h = watcher[w].next /\ watcher'[w].next = None
        /\ watcher'[w].cancelled = watcher[w].cancelled
        /\ \A v \in Launch : v # w => watcher'[v] = watcher[v]
    BY <1>1, <1>9 DEF WatchInsert, Waiting
  <2>3. watcher[w].h \notin alive /\ row.inst \notin alive
    BY <1>2, <2>1 DEF Left
  <2>4. /\ Starter' = Starter /\ Starter.pc \notin Attaching
        /\ Held = WatcherHolds(w) /\ Held' = WatcherHolds(w)'
        /\ \A v \in Launch : v # w => ~Active(v) /\ ~Active(v)'
        /\ AloneInv' /\ OneWatcherInv'
    BY <1>1, <2>1, <2>2, OnlyWatcher
  <2>5. Held' = {watcher[w].next} \ {None} /\ Held = {watcher[w].h, watcher[w].next} \ {None}
    BY <1>1, <2>2, <2>4 DEF WatcherHolds, Active
  <2>6. None \notin alive /\ watcher[w].next \in launched \cup {None} /\ None \notin reported
    BY <2>4, <2>5, NoneAssumption DEF Sound, Custody, HandsInv, TypeOK
  <2>7. OrphanInv' /\ InHandInv'
    BY <2>1, <2>3, <2>4, <2>5, <2>6 DEF QuietInv, OrphanInv, InHandInv, jarvisVars, osVars
  <2>8. RecordInv'
    <3>1. /\ row'.inst \in alive' => row'.inst = watcher[w].next /\ row'.state = "RUNNING"
          /\ alive' = alive
      BY <2>1, <2>3 DEF osVars
    <3>2. \A v \in Launch : v # w => watcher'[v].pc = "idle" /\ watcher'[v].next = None
      BY <2>2, <2>4 DEF QuietInv, RecordInv, Active
    <3> QED
      BY <2>1, <2>2, <2>4, <3>1, <3>2 DEF RecordInv, Left, Live, Attaching
  <2> QED
    BY <2>4, <2>7, <2>8 DEF QuietInv
<1>10. CASE WatchReturn(w)
  <2>1. /\ watcher[w].pc = "return" /\ watches' = None
        /\ watcher'[w] = NoWatcher /\ \A v \in Launch : v # w => watcher'[v] = watcher[v]
        /\ UNCHANGED <<jarvisVars, actor, exists, row, osVars>>
    BY <1>1, <1>10 DEF WatchReturn
  <2>2. ~Active(w)' /\ watcher'[w].pc = "idle" /\ watcher'[w].next = None
    BY <2>1 DEF Active, NoWatcher
  <2>3. /\ Starter' = Starter /\ Starter.pc \notin Attaching
        /\ Held = WatcherHolds(w) /\ Held' = WatcherHolds(w)'
        /\ \A v \in Launch : v # w => ~Active(v) /\ ~Active(v)'
        /\ AloneInv' /\ OneWatcherInv'
    BY <1>1, <2>1, <2>2, OnlyWatcher
  <2>4. Held' = {} /\ Held \subseteq {watcher[w].h}
    BY <1>2, <2>1, <2>2, <2>3 DEF WatcherHolds
  <2>5. ~shutdown => watcher[w].h \notin alive
    BY <1>1, <2>1 DEF QuietInv, OneWatcherInv, RecordInv
  <2>6. OrphanInv' /\ InHandInv'
    BY <2>1, <2>3, <2>4, <2>5 DEF QuietInv, OrphanInv, InHandInv, jarvisVars, osVars, Attaching
  <2>7. RecordInv'
    <3>1. \A v \in Launch : watcher'[v].pc = "idle" /\ watcher'[v].next = None /\ ~Active(v)'
      BY <2>1, <2>2, <2>3 DEF QuietInv, RecordInv, Active
    <3> QED
      BY <2>1, <2>3, <3>1 DEF QuietInv, RecordInv, Left, osVars
  <2> QED
    BY <2>3, <2>6, <2>7 DEF QuietInv
<1> QED
  BY <1>4, <1>5, <1>6, <1>7, <1>8, <1>9, <1>10 DEF WatcherMoves

LEMMA QuietStep == ASSUME NoRequests, Sound, QuietInv, [Next]_vars PROVE QuietInv'
<1>1. ASSUME NEW a \in Clients PROVE ~Disconnect(a) /\ ~Request(a) /\ ~ActorMoves(a)
  <2>1. actor[a].pc = "idle" /\ a \in Actors
    BY DEF QuietInv, AloneInv, Actors
  <2> QED
    BY <2>1, MovesAreActive DEF NoRequests, Disconnect, Request
<1>2. ASSUME NEW a \in Actors, ActorMoves(a) PROVE QuietInv'
  <2>1. a = Autostarter
    BY <1>1, <1>2 DEF Actors
  <2>2. ~StopStep(Autostarter) /\ ~DeleteStep(Autostarter)
    BY DEF StopStep, DeleteStep, StopCancel, StopFind, StopKill, StopDying, StopMark, DeleteCheck,
           DeleteApp, QuietInv, AloneInv, Starter, Looking, Attaching
  <2> QED
    BY <1>2, <2>1, <2>2, QuietStart DEF ActorMoves
<1>3. CASE UNCHANGED vars
  <2>1. /\ Starter' = Starter /\ ActorHolds(Autostarter)' = ActorHolds(Autostarter)
        /\ \A w \in Launch : WatcherHolds(w)' = WatcherHolds(w) /\ (Active(w)' <=> Active(w))
    BY <1>3 DEF vars, Starter, ActorHolds, WatcherHolds, Active
  <2>2. Held' = Held
    BY <2>1 DEF Held
  <2> QED
    BY <1>3, <2>1, <2>2 DEF vars, QuietInv, AloneInv, OneWatcherInv, OrphanInv, RecordInv, InHandInv
<1> QED
  BY <1>1, <1>2, <1>3, QuietJarvis, QuietExit, QuietAuto, QuietWatcher DEF Next

LEMMA QuietAlways == ASSUME NoRequests PROVE Spec => [](Sound /\ QuietInv)
<1>1. Init => Sound /\ QuietInv
  BY TypeInit, DownInit, MapInit, CustodyInit, QuietInit DEF Sound
<1>2. Sound /\ QuietInv /\ [Next]_vars => (Sound /\ QuietInv)'
  BY TypeStep, DownStep, MapStep, CustodyStep, QuietStep DEF Sound
<1> QED
  BY <1>1, <1>2, PTL DEF Spec

\* As long as nobody makes a request, the installation loses sight of no process:
\* through every exit, relaunch, death, shutdown and restart of JARVIS, each java
\* process is on record, in the charge of a goroutine, or was logged as an orphan.
THEOREM QuietInstallationAccountsForAll ==
  ASSUME NoRequests PROVE Spec => []EveryProcessIsAccountedFor
<1>1. Sound /\ QuietInv => EveryProcessIsAccountedFor
  <2> SUFFICES ASSUME Sound, QuietInv, jarvis = "serving"
               PROVE  alive \subseteq {row.inst} \cup reported
                                      \cup (UNION {WatcherHolds(w) : w \in Launch})
                                      \cup (UNION {ActorHolds(a) : a \in Actors})
    BY DEF EveryProcessIsAccountedFor
  <2>1. alive \subseteq reported \cup Held
    BY DEF QuietInv, AloneInv, InHandInv
  <2>2. Autostarter \in Actors
    BY DEF Actors
  <2> QED
    BY <2>1, <2>2 DEF Held
<1> QED
  BY <1>1, QuietAlways, PTL

\* As long as nobody makes a request, Autostart launches beside logged orphans only:
\* a process on record is re-attached, never launched a second time.
THEOREM QuietAutostartLaunchesNoCopy ==
  ASSUME NoRequests PROVE Spec => AutostartLaunchesNoSecondCopy
<1>1. Sound /\ QuietInv =>
        (actor[Autostarter].pc = "launch" /\ actor'[Autostarter].pc = "insert"
           => alive \subseteq reported)
  <2> SUFFICES ASSUME Sound, QuietInv, Starter.pc = "launch" PROVE alive \subseteq reported
    BY DEF Starter
  <2>1. \A w \in Launch : WatcherHolds(w) = {}
    BY DEF QuietInv, OneWatcherInv, Attaching, WatcherHolds
  <2>2. Held = {}
    BY <2>1 DEF Held, ActorHolds, Starter
  <2> QED
    BY <2>2 DEF QuietInv, InHandInv
<1> QED
  BY <1>1, QuietAlways, PTL DEF AutostartLaunchesNoSecondCopy

-----------------------------------------------------------------------------
(***************************************************************************)
(* Autostart over several applications, in the composition MCSettles.      *)
(***************************************************************************)

Waits == INSTANCE DependenciesProofs
           WITH App <- {First, Second, Other}, Order <- <<First, Second>>, MaxDeps <- 2

\* MCSettles runs the very loop module DependenciesProofs reasons about.
LEMMA SameParts ==
  /\ Several!InHand = Waits!InHand /\ Several!Awaited = Waits!Awaited
  /\ Several!Waiting <=> Waits!Waiting
  /\ Several!world = Waits!world /\ Several!world' = Waits!world'
  /\ \A step : Several!Here(step) <=> Waits!Here(step)
  /\ \A result : Several!TurnAway(result) <=> Waits!TurnAway(result)
  BY DEF Several!InHand, Waits!InHand, Several!Awaited, Waits!Awaited, Several!Here, Waits!Here,
         Several!Waiting, Waits!Waiting, Several!world, Waits!world,
         Several!TurnAway, Waits!TurnAway

LEMMA SameInit == Several!Init => Waits!Init
  BY DEF Several!Init, Waits!Init, Several!DepLists, Waits!DepLists

LEMMA SameNext == Several!Next => Waits!Next
<1>1. Several!Loop => Waits!Loop
  BY SameParts
     DEF Several!Loop, Waits!Loop, Several!Skip, Waits!Skip, Several!Enter, Waits!Enter,
         Several!SeeDep, Waits!SeeDep, Several!AllSeen, Waits!AllSeen, Several!GiveUp,
         Waits!GiveUp, Several!Start, Waits!Start
<1> QED
  BY <1>1, SameParts
     DEF Several!Next, Waits!Next, Several!DeadlinePasses, Waits!DeadlinePasses, Several!Close,
         Waits!Close, Several!Ends, Waits!Ends, Several!Comes, Waits!Comes

LEMMA SameGoal == Waits!TypeOK /\ Waits!GivesUpWithReason => GivesUpWithReason
  BY DEF GivesUpWithReason, Several!TypeOK, Waits!TypeOK, Several!GivesUpWithReason,
         Waits!GivesUpWithReason, Several!Earlier, Waits!Earlier

\* Autostart gives an application up only for a dependency that does not come earlier,
\* was not brought up or has ended since, whatever the dependencies of the three are.
THEOREM SettlesGivesUpForAReason ==
  ASSUME First # Second
  PROVE  SettlesSpec => []GivesUpWithReason
<1>1. Waits!Ordered
  <2>1. <<First, Second>> \in Seq({First, Second, Other})
    OBVIOUS
  <2> QED
    BY <2>1 DEF Waits!Ordered
<1>2. SettlesInit => Waits!IInv
  BY <1>1, SameInit, Waits!InitInv DEF SettlesInit
<1>3. Waits!IInv /\ [SettlesNext]_<<followed, vars, loopVars>> => Waits!IInv'
  <2> SUFFICES ASSUME Waits!IInv, [SettlesNext]_<<followed, vars, loopVars>> PROVE Waits!IInv'
    OBVIOUS
  <2>1. Several!Next \/ UNCHANGED loopVars
    BY DEF SettlesNext
  <2>2. UNCHANGED loopVars => UNCHANGED Waits!vars
    BY DEF loopVars, Waits!vars
  <2> QED
    BY <1>1, <2>1, <2>2, SameNext, Waits!StepKeeps
<1>4. Waits!IInv => GivesUpWithReason
  BY SameGoal DEF Waits!IInv
<1> QED
  BY <1>2, <1>3, <1>4, PTL DEF SettlesSpec

=============================================================================
