---------------------------- MODULE Dependencies ----------------------------
(***************************************************************************)
(* Supervisor.Autostart over several applications that wait for each other *)
(* (watchdog.go).  One goroutine brings them up in their start order; each *)
(* waits at most two minutes for those it depends on, which may come later *)
(* in the order, depend on it in turn, or not be started at all.           *)
(*                                                                         *)
(* What StartApp does inside one application is module Supervisor; here it *)
(* succeeds or fails, and processes end and are started by others freely.  *)
(***************************************************************************)
EXTENDS Naturals, Sequences

CONSTANTS
  App,
  Order,    \* the applications with autostart, by start_order and name, each once
  MaxDeps   \* bound: how many applications one depends on

VARIABLES
  deps,      \* apps.depends_on
  up,        \* the applications whose row says RUNNING and whose process is alive
  lost,      \* history: those whose process has ended since JARVIS came up
  pos,       \* where the loop is in Order
  at,        \* what the loop does there
  seen,      \* how many of the dependencies waitForDeps has seen running
  late,      \* its deadline has passed
  closing,   \* the context is done
  outcome    \* history: what the loop did about each application

vars  == <<deps, up, lost, pos, at, seen, late, closing, outcome>>
world == <<deps, up, lost, closing>>

\* An application does not depend on itself; a name given twice adds nothing.
DepLists(a) ==
  {s \in UNION {[1..n -> App \ {a}] : n \in 0..MaxDeps} :
     \A i, j \in DOMAIN s : s[i] = s[j] => i = j}

\* Processes that have survived JARVIS are up when the loop begins.
Init ==
  /\ deps \in [App -> UNION {DepLists(a) : a \in App}]
  /\ \A i \in DOMAIN Order : deps[Order[i]] \in DepLists(Order[i])
  /\ \A a \in App : (\A i \in DOMAIN Order : Order[i] # a) => deps[a] = <<>>
  /\ up \in SUBSET App /\ lost = {}
  /\ pos = 1 /\ at = "look" /\ seen = 0 /\ late = FALSE /\ closing = FALSE
  /\ outcome = [a \in App |-> "none"]

-----------------------------------------------------------------------------

Here(step) == at = step /\ pos \in DOMAIN Order
InHand     == Order[pos]
Awaited    == deps[InHand][seen + 1]
Waiting    == Here("wait") /\ seen < Len(deps[InHand])

\* The loop goes on to the next application.
TurnAway(result) ==
  /\ outcome' = [outcome EXCEPT ![InHand] = result]
  /\ pos' = pos + 1 /\ at' = "look" /\ seen' = 0 /\ late' = FALSE

\* The application is running already, or has a watcher whose process has ended.
Skip == Here("look") /\ InHand \in up \cup lost /\ TurnAway("running") /\ UNCHANGED world

\* waitForDeps takes its deadline, unless the policy cannot be read.
Enter ==
  /\ Here("look") /\ InHand \notin up
  /\ \/ at' = "wait" /\ UNCHANGED <<pos, seen, late, outcome>>
     \/ TurnAway("failed")
  /\ UNCHANGED world

\* The next dependency is running.
SeeDep ==
  /\ Waiting /\ ~closing /\ Awaited \in up
  /\ seen' = seen + 1
  /\ UNCHANGED <<world, pos, at, late, outcome>>

AllSeen ==
  /\ Here("wait") /\ ~Waiting
  /\ at' = "start"
  /\ UNCHANGED <<world, pos, seen, late, outcome>>

\* Wrong variant of GiveUp: the wait has no deadline.
GiveUpOnShutdown ==
  /\ Waiting /\ closing
  /\ TurnAway("cut")
  /\ UNCHANGED world

\* Wrong variant of GiveUp: the deadline is tested before the dependency.
GiveUpUnseen ==
  /\ Waiting /\ (late \/ closing)
  /\ TurnAway(IF closing THEN "cut" ELSE "unready")
  /\ UNCHANGED world

\* The dependency is not running, and the deadline has passed or the context is done.
GiveUp ==
  /\ Waiting /\ (closing \/ (late /\ Awaited \notin up))
  /\ TurnAway(IF closing THEN "cut" ELSE "unready")
  /\ UNCHANGED world

\* The start delay, which the context may end and the loop with it, and StartApp.
Start ==
  /\ Here("start")
  /\ \/ InHand \notin up /\ up' = up \cup {InHand} /\ TurnAway("started")
     \/ TurnAway("failed") /\ UNCHANGED up
     \/ closing /\ pos' = Len(Order) + 1 /\ UNCHANGED <<up, at, seen, late, outcome>>
  /\ UNCHANGED <<deps, lost, closing>>

Loop == Skip \/ Enter \/ SeeDep \/ AllSeen \/ GiveUp \/ Start

DeadlinePasses ==
  /\ Here("wait") /\ ~late
  /\ late' = TRUE
  /\ UNCHANGED <<world, pos, at, seen, outcome>>

Ends(a) ==
  /\ a \in up /\ up' = up \ {a} /\ lost' = lost \cup {a}
  /\ UNCHANGED <<deps, closing, pos, at, seen, late, outcome>>

\* An operator, or the watchdog, starts it.
Comes(a) ==
  /\ a \notin up /\ up' = up \cup {a}
  /\ UNCHANGED <<deps, lost, closing, pos, at, seen, late, outcome>>

Close ==
  /\ ~closing /\ closing' = TRUE
  /\ UNCHANGED <<deps, up, lost, pos, at, seen, late, outcome>>

Next == Loop \/ DeadlinePasses \/ Close \/ \E a \in App : Ends(a) \/ Comes(a)

Spec == Init /\ [][Next]_vars

\* The goroutine runs, and time passes.
FairSpec == Spec /\ WF_vars(Loop) /\ WF_vars(DeadlinePasses)

-----------------------------------------------------------------------------
(* Properties *)

\* Every variable keeps its type.
TypeOK ==
  /\ deps \in [App -> Seq(App)]
  /\ up \subseteq App /\ lost \subseteq App
  /\ pos \in 1..Len(Order) + 1 /\ at \in {"look", "wait", "start"} /\ seen \in Nat
  /\ late \in BOOLEAN /\ closing \in BOOLEAN
  /\ outcome \in [App -> {"none", "running", "started", "failed", "unready", "cut"}]

Ended == pos > Len(Order)

\* Autostart ends, for good: applications that depend on each other, on one later in the order or
\* on one that nobody starts do not keep it for ever (waitForDeps).
AutostartEnds == <>[]Ended

Earlier(d, a) == \E i, j \in DOMAIN Order : i < j /\ Order[i] = d /\ Order[j] = a

\* An application is given up for a reason: one it depends on does not come earlier in
\* the order, was not brought up in its turn, or has ended since (Autostart, waitForDeps).
\* So an order that respects the dependencies brings everything up, if nothing fails.
GivesUpWithReason ==
  \A a \in App : outcome[a] = "unready" =>
    \E i \in DOMAIN deps[a] :
      LET d == deps[a][i]
      IN ~Earlier(d, a) \/ outcome[d] \in {"failed", "unready"} \/ d \in lost

=============================================================================
