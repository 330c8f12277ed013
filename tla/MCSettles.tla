----------------------------- MODULE MCSettles -----------------------------
(***************************************************************************)
(* What comes to an end, on small instances: the requests, watchers and    *)
(* exits of one application (Supervisor), and Autostart over several that  *)
(* depend on each other (Dependencies).  A behaviour follows one of them.  *)
(***************************************************************************)
EXTENDS MCSupervisor, Sequences

CONSTANTS First, Second, Other   \* autostarted in this order, and one that is not

VARIABLES
  followed,
  deps, up, lost, pos, at, seen, late, closing, outcome   \* Dependencies

loopVars == <<deps, up, lost, pos, at, seen, late, closing, outcome>>

Several == INSTANCE Dependencies
             WITH App <- {First, Second, Other}, Order <- <<First, Second>>, MaxDeps <- 2

\* A loop that is not followed starts in one way only.
SettlesInit ==
  /\ followed \in {"one", "several"}
  /\ Init
  /\ Several!Init
  /\ followed # "several" => up = {} /\ \A a \in DOMAIN deps : deps[a] = <<>>

SettlesNext ==
  /\ UNCHANGED followed
  /\ \/ followed = "one" /\ Next /\ UNCHANGED loopVars
     \/ followed = "several" /\ Several!Next /\ UNCHANGED vars

\* The fairness of each, as its FairSpec states it, while it is followed.
SettlesFairness ==
  /\ WF_vars(followed = "one" /\ AutoStep)
  /\ \A a \in Actors : WF_vars(followed = "one" /\ ActorMoves(a))
  /\ \A w \in Launch : WF_vars(followed = "one" /\ WatcherMoves(w))
  /\ WF_loopVars(followed = "several" /\ Several!Loop)
  /\ WF_loopVars(followed = "several" /\ Several!DeadlinePasses)

SettlesSpec == SettlesInit /\ [][SettlesNext]_<<followed, vars, loopVars>> /\ SettlesFairness

\* Autostart comes to the end of its order (Dependencies).
AutostartEnds == <>[](followed = "several" => Several!Ended)

\* An application is given up only for a dependency that is missing (Dependencies).
GivesUpWithReason ==
  followed = "several" => Several!TypeOK /\ Several!GivesUpWithReason

=============================================================================
