------------------------------ MODULE MCConsole ------------------------------
(***************************************************************************)
(* What the views of the admin interface come to in the end, on small      *)
(* instances: the monitoring pages (Pages), a tab and its session          *)
(* (Session), the forms (Forms) and the log panel (Logs).  They share no   *)
(* state here, so a behaviour follows one of them and leaves the others as *)
(* they start: the state space is the sum of theirs and not the product.   *)
(***************************************************************************)
EXTENDS Pages, Sequences

CONSTANTS
  Tab, User, Session,
  MaxCalls, MaxLosses, MaxResets,                \* bounds of Session
  Content, Blank,
  MaxRevs, MaxEdits,                             \* bounds of Forms
  Wanted, Kept, MaxLaunches, MaxLines, MaxMoves  \* what the panel asks for and keeps, bounds of Logs

VARIABLES
  followed,                                                                     \* the part that moves
  owner, alive, must, jar, user, gate, ready, token, onAccount,                 \* Session
  submitting, throttled, requests, answers, losses, resets,
  kind, revs, active, source, listing, loaded, draft, edited, saving, edits,    \* Forms
  launch, written, appName, phase, tail, stream, chunks, lines, paused, moves   \* Logs

tabVars   == <<owner, alive, must, jar, user, gate, ready, token, onAccount,
               submitting, throttled, requests, answers, losses, resets>>
formVars  == <<kind, revs, active, source, listing, loaded, draft, edited, saving, edits>>
panelVars == <<launch, written, appName, phase, tail, stream, chunks, lines, paused, moves>>

Tabs   == INSTANCE Session WITH busy <- submitting, Routes <- TRUE
Drafts == INSTANCE Forms WITH form <- kind
Panel  == INSTANCE Logs WITH Pauses <- TRUE

ASSUME TabsAssumption ==
  None \notin User \cup Session /\ MaxCalls \in Nat /\ MaxLosses \in Nat /\ MaxResets \in Nat

\* Revisions are numbers, and so are told apart from None and Failed.
ASSUME FormsAssumption ==
  MaxRevs \in Nat \ {0} /\ MaxEdits \in Nat /\ None \notin Nat /\ Failed \notin Nat

ASSUME LogsAssumption ==
  /\ Wanted \in Nat /\ Kept \in Nat
  /\ MaxLaunches \in Nat /\ MaxLines \in Nat /\ MaxMoves \in Nat

\* A part that is not followed starts in one way only.
ConsoleInit ==
  /\ followed \in {"pages", "session", "forms", "logs"}
  /\ Init /\ (followed # "pages" => route = None)
  /\ Tabs!Init
  /\ Drafts!Init /\ (followed # "forms" =>
                       kind = "profile" /\ revs = <<CHOOSE c \in Content : TRUE>>)
  /\ Panel!Init /\ (followed # "logs" => appName = CHOOSE a \in App : TRUE)

ConsoleNext ==
  /\ UNCHANGED followed
  /\ \/ followed = "pages" /\ Next /\ UNCHANGED <<tabVars, formVars, panelVars>>
     \/ followed = "session" /\ Tabs!Next /\ UNCHANGED <<vars, formVars, panelVars>>
     \/ followed = "forms" /\ Drafts!Next /\ UNCHANGED <<vars, tabVars, panelVars>>
     \/ followed = "logs" /\ Panel!Next /\ UNCHANGED <<vars, tabVars, formVars>>

\* The fairness of each part, as its FairSpec states it, while it is followed.
ConsoleFairness ==
  /\ \A p \in Poll :
       WF_vars(followed = "pages" /\ Ask(p)) /\ WF_vars(followed = "pages" /\ Land(p))
  /\ WF_vars(followed = "pages" /\ \E c \in calls : ServeControl(c))
  /\ WF_vars(followed = "pages" /\ \E c \in calls : ServeCreate(c))
  /\ WF_vars(followed = "pages" /\ \E c \in calls : ControlAnswered(c))
  /\ WF_vars(followed = "pages" /\ \E c \in calls : FormAnswered(c))
  /\ \A t \in Tab :
       /\ SF_tabVars(followed = "session" /\ Tabs!Poll(t))
       /\ \A k \in Tabs!Kind :
            /\ WF_tabVars(followed = "session" /\ Tabs!ServeOne(t, k))
            /\ WF_tabVars(followed = "session" /\ Tabs!HearOne(t, k))
  /\ WF_formVars(followed = "forms" /\ Drafts!Ask)
  /\ WF_formVars(followed = "forms" /\ Drafts!Land)
  /\ WF_formVars(followed = "forms" /\ (Drafts!Serve \/ Drafts!Fail))
  /\ WF_formVars(followed = "forms" /\ Drafts!Hear)
  /\ WF_panelVars(followed = "logs" /\ Panel!ServeTail)
  /\ WF_panelVars(followed = "logs" /\ Panel!LandTail)
  /\ WF_panelVars(followed = "logs" /\ Panel!Open)
  /\ WF_panelVars(followed = "logs" /\ Panel!Tick)
  /\ WF_panelVars(followed = "logs" /\ Panel!Hear)

ConsoleSpec ==
  /\ ConsoleInit /\ [][ConsoleNext]_<<followed, vars, tabVars, formVars, panelVars>>
  /\ ConsoleFairness

-----------------------------------------------------------------------------
(* The properties of the parts; of Pages those of the module itself *)

\* Every variable of the part that is followed keeps its type.
AllTypesOK ==
  CASE followed = "pages"   -> TypeOK
    [] followed = "session" -> Tabs!TypeOK
    [] followed = "forms"   -> Drafts!TypeOK
    [] followed = "logs"    -> Panel!TypeOK

\* A page that is followed catches up with the server (Pages).
PagesCatchUp == <>[](followed = "pages" => UpToDate)

\* A tab does not stay on the pages of a dead session (Session).
DeadSessionIsNoticed == Tabs!DeadSessionIsNoticed

\* The forced change of the password ends when the server has changed it (Session).
GateOpens == Tabs!GateOpens

\* Untouched fields hold one stored revision (Forms).
ShowsARevision == followed = "forms" => Drafts!ShowsARevision

\* A form that is followed comes to show what is in force (Forms).
FormCatchesUp == <>[](followed = "forms" => Drafts!UpToDate)

\* Lines of one application, in order, none of them twice (Logs).
LinesInOrder == followed = "logs" => Panel!LinesInOrder

\* What is written to an open stream's file appears (Logs).
StreamDelivers == Panel!StreamDelivers

=============================================================================
