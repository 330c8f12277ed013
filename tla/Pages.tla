------------------------------- MODULE Pages -------------------------------
(***************************************************************************)
(* One tab on the monitoring pages: the dashboard with its form for a new  *)
(* application (pages/Dashboard.tsx) and the page of one application       *)
(* (pages/AppDetail.tsx), polling a server whose applications crash and    *)
(* are started, stopped and deleted by others meanwhile.                   *)
(*                                                                         *)
(* A route names an application, or is None for the dashboard.  Going from *)
(* one application to another does not remount AppDetail, so its polls go  *)
(* on with the fetcher of the new name, and answers about the old one may  *)
(* still land.                                                             *)
(*                                                                         *)
(* The operator may do all a page offers (the roles are left out), and     *)
(* every application has a version to run.                                 *)
(***************************************************************************)
EXTENDS Polled

CONSTANTS
  App,
  Installed,   \* the applications there are at first
  MaxChanges,  \* bound: changes of the server's state
  MaxVisits    \* bound: moves from page to page

\* What a poll is answered with: the time, the applications it is about, and those
\* of them that are up.
Data == [at : Nat, about : SUBSET App, up : SUBSET App]

ASSUME PagesAssumption ==
  /\ None \notin Data \cup App /\ Installed \subseteq App
  /\ MaxChanges \in Nat /\ MaxVisits \in Nat

VARIABLES
  registered,  \* the server's applications
  up,          \* those whose state is RUNNING or STARTING
  clock,       \* how often registered or up has changed
  route,       \* the application in the address, or None
  visits,      \* moves so far
  polls,       \* the usePolled of the page
  busy,        \* busy, of the page's useAction
  creating,    \* the dashboard's form is open
  making,      \* busy, of that form's useAction
  calls,       \* mutating calls the page waits for, or has waited for
  floor        \* history: the clock when the page was mounted or heard that a call of its own
               \* had succeeded

world == <<registered, up, clock>>
place == <<route, visits>>
form  == <<creating, making>>
vars  == <<world, place, polls, busy, form, calls, floor>>

-----------------------------------------------------------------------------
(* What the pages ask *)

Poll == {"apps", "status", "app"}

\* The dashboard polls the list; the page of an application its status and its row.
OnPage(p) == IF route = None THEN p = "apps" ELSE p # "apps"

\* The answers of listApps, status and getApp.  An application that is not there is
\* an error.
Reading(p) ==
  LET about == IF p = "apps" THEN registered ELSE {route}
  IN IF about \subseteq registered
     THEN [at |-> clock, about |-> about, up |-> up \cap about] ELSE Failed

\* A call of this page has succeeded, and it refreshes the polls ps.
Succeeded(ps) ==
  /\ polls' = [p \in Poll |-> IF p \in ps THEN Refreshed(polls[p]) ELSE polls[p]]
  /\ floor' = clock

-----------------------------------------------------------------------------
(* What the pages offer *)

\* The list the cards are drawn from.
Card == IF polls["apps"].data = None THEN {} ELSE polls["apps"].data.about

\* AppDetail falls back from the status to the row, and then to STOPPED.
DetailUp ==
  LET s == polls["status"].data  a == polls["app"].data
  IN IF s # None THEN s.up # {} ELSE a # None /\ a.up # {}

\* AppMonitorCard: restart and stop when it runs, else start.
CardOffers(a, op) ==
  /\ a \in Card
  /\ IF a \in polls["apps"].data.up THEN op \in {"restart", "stop"} ELSE op = "start"

\* AppDetail offers the same to the application in the address.
DetailOffers(a, op) ==
  /\ a = route
  /\ IF DetailUp THEN op \in {"restart", "stop"} ELSE op = "start"

Init ==
  /\ registered = Installed /\ up = {} /\ clock = 0
  /\ route \in Installed \cup {None} /\ visits = 0
  /\ polls = [p \in Poll |-> Mounted] /\ floor = 0
  /\ busy = FALSE /\ creating = FALSE /\ making = FALSE
  /\ calls = {}

-----------------------------------------------------------------------------
(* Polling *)

\* Wrong variant of Ask: the view loads once.
AskOnce(p) ==
  /\ OnPage(p) /\ CanAsk(polls[p]) /\ polls[p].data = None
  /\ polls' = [polls EXCEPT ![p] = Asked(polls[p], Reading(p))]
  /\ UNCHANGED <<world, place, busy, form, calls, floor>>

\* A question the network loses changes nothing that is kept here.
Ask(p) ==
  /\ OnPage(p) /\ CanAsk(polls[p])
  /\ polls' = [polls EXCEPT ![p] = Asked(polls[p], Reading(p))]
  /\ UNCHANGED <<world, place, busy, form, calls, floor>>

Land(p) ==
  /\ OnPage(p)
  /\ \E v \in polls[p].flight : polls' = [polls EXCEPT ![p] = Landed(polls[p], v)]
  /\ UNCHANGED <<world, place, busy, form, calls, floor>>

-----------------------------------------------------------------------------
(* Moving about *)

Call == [op : {"start", "stop", "restart", "create"}, app : App,
         here : BOOLEAN,   \* the page that made it is still mounted
         form : BOOLEAN,   \* and so is the form that made it
         done : {"sent", "ok", "failed"}]

Forgotten(c) ==
  [op |-> c.op, app |-> c.app, here |-> FALSE, form |-> FALSE, done |-> c.done]

\* From the dashboard to an application, or back: the page's components unmount,
\* and nothing hears the answers to its calls.
Go(to) ==
  /\ visits < MaxVisits /\ visits' = visits + 1
  /\ IF route = None THEN to \in Card ELSE to = None
  /\ route' = to
  /\ polls' = [p \in Poll |-> Mounted] /\ floor' = clock
  /\ busy' = FALSE /\ creating' = FALSE /\ making' = FALSE
  /\ calls' = {Forgotten(c) : c \in {d \in calls : d.done = "sent"}}
  /\ UNCHANGED world

\* From one application to another, through the history: AppDetail stays
\* mounted, and its polls run on.
Switch(to) ==
  /\ visits < MaxVisits /\ visits' = visits + 1
  /\ route # None /\ to \in App \ {route}
  /\ route' = to
  /\ UNCHANGED <<world, polls, busy, form, calls, floor>>

-----------------------------------------------------------------------------
(* Controls *)

\* Bound: every call under way may still change the server.
Room == clock + Cardinality({c \in calls : c.done = "sent"}) < MaxChanges

Send(op, a, inForm) ==
  /\ Room
  /\ calls' = calls \cup
       {[op |-> op, app |-> a, here |-> TRUE, form |-> inForm, done |-> "sent"]}

\* Wrong variant of Control: the buttons are not disabled meanwhile.
ControlTwice(op, a) ==
  /\ IF route = None THEN CardOffers(a, op) ELSE DetailOffers(a, op)
  /\ busy' = TRUE
  /\ Send(op, a, FALSE)
  /\ UNCHANGED <<world, place, polls, form, floor>>

\* Dashboard.control and AppDetail.control, as far as their await.
Control(op, a) ==
  /\ IF route = None THEN CardOffers(a, op) ELSE DetailOffers(a, op)
  /\ ~busy /\ busy' = TRUE
  /\ Send(op, a, FALSE)
  /\ UNCHANGED <<world, place, polls, form, floor>>

OpenForm ==
  /\ route = None /\ ~creating
  /\ creating' = TRUE /\ making' = FALSE
  /\ UNCHANGED <<world, place, polls, busy, calls, floor>>

\* CreateAppForm.submit, as far as its await.
SubmitForm(a) ==
  /\ creating /\ ~making /\ making' = TRUE
  /\ Send("create", a, TRUE)
  /\ UNCHANGED <<world, place, polls, busy, creating, floor>>

\* The form goes; a call it made is not called back.
CancelForm ==
  /\ creating /\ creating' = FALSE /\ making' = FALSE
  /\ calls' = {[op |-> c.op, app |-> c.app, here |-> c.here, form |-> FALSE,
                done |-> c.done] : c \in calls}
  /\ UNCHANGED <<world, place, polls, busy, floor>>

\* The server has dealt with a call; where its page has gone, nobody waits for it.
Answered(c, ok) ==
  calls' = (calls \ {c}) \cup
    {[op |-> c.op, app |-> c.app, here |-> TRUE, form |-> c.form,
      done |-> IF ok THEN "ok" ELSE "failed"] : h \in {c.here} \ {FALSE}}

\* The server carries a control out, or finds nothing to do it to.
ServeControl(c) ==
  /\ c.done = "sent" /\ c.op # "create"
  /\ IF c.app \in registered /\ (c.op = "restart" \/ (c.op = "stop") = (c.app \in up))
     THEN /\ up' = IF c.op = "stop" THEN up \ {c.app} ELSE up \cup {c.app}
          /\ clock' = clock + 1 /\ Answered(c, TRUE)
     ELSE UNCHANGED <<up, clock>> /\ Answered(c, FALSE)
  /\ UNCHANGED <<registered, place, polls, busy, form, floor>>

\* handleCreateApp: the name is new, or refused.
ServeCreate(c) ==
  /\ c.done = "sent" /\ c.op = "create"
  /\ IF c.app \in registered
     THEN UNCHANGED <<registered, clock>> /\ Answered(c, FALSE)
     ELSE registered' = registered \cup {c.app} /\ clock' = clock + 1 /\ Answered(c, TRUE)
  /\ UNCHANGED <<up, place, polls, busy, form, floor>>

\* The call fails on the way out, or its answer on the way back.
LoseCall(c) ==
  /\ c.done # "failed"
  /\ Answered(c, FALSE)
  /\ UNCHANGED <<world, place, polls, busy, form, floor>>

\* control past its await, in the page that made the call.
ControlAnswered(c) ==
  /\ c.done # "sent" /\ c.op # "create"
  /\ calls' = calls \ {c} /\ busy' = FALSE
  /\ IF c.done = "ok"
     THEN Succeeded(IF route = None THEN {"apps"} ELSE {"status", "app"})
     ELSE UNCHANGED <<polls, floor>>
  /\ UNCHANGED <<world, place, form>>

\* CreateAppForm.submit past its await.  onDone belongs to the dashboard, and is
\* called even when the form that made the call has been cancelled since.
FormAnswered(c) ==
  /\ c.done # "sent" /\ c.op = "create"
  /\ calls' = calls \ {c}
  /\ IF c.done = "ok"
     THEN creating' = FALSE /\ making' = FALSE /\ Succeeded({"apps"})
     ELSE making' = (making /\ ~c.form) /\ UNCHANGED <<creating, polls, floor>>
  /\ UNCHANGED <<world, place, busy>>

-----------------------------------------------------------------------------
(* The world *)

\* An application crashes, or somebody else starts or stops it.
Change(a) ==
  /\ Room /\ clock' = clock + 1
  /\ a \in registered
  /\ up' = IF a \in up THEN up \ {a} ELSE up \cup {a}
  /\ UNCHANGED <<registered, place, polls, busy, form, calls, floor>>

\* Somebody else deletes an application that is stopped.
Delete(a) ==
  /\ Room /\ clock' = clock + 1
  /\ a \in registered \ up
  /\ registered' = registered \ {a}
  /\ UNCHANGED <<up, place, polls, busy, form, calls, floor>>

Serve(c) == ServeControl(c) \/ ServeCreate(c)
Hear(c)  == ControlAnswered(c) \/ FormAnswered(c)

Next ==
  \/ \E p \in Poll : Ask(p) \/ Land(p)
  \/ \E to \in App \cup {None} : Go(to)
  \/ \E to \in App : Switch(to)
  \/ \E op \in {"start", "stop", "restart"}, a \in App : Control(op, a)
  \/ OpenForm \/ CancelForm
  \/ \E a \in App : SubmitForm(a) \/ Change(a) \/ Delete(a)
  \/ \E c \in calls : Serve(c) \/ LoseCall(c) \/ Hear(c)

Spec == Init /\ [][Next]_vars

\* The timers fire, answers arrive and calls are served.
FairSpec ==
  /\ Spec
  /\ \A p \in Poll : WF_vars(Ask(p)) /\ WF_vars(Land(p))
  /\ WF_vars(\E c \in calls : ServeControl(c)) /\ WF_vars(\E c \in calls : ServeCreate(c))
  /\ WF_vars(\E c \in calls : ControlAnswered(c)) /\ WF_vars(\E c \in calls : FormAnswered(c))

-----------------------------------------------------------------------------
(* Properties *)

\* Every variable keeps its type.
TypeOK ==
  /\ registered \subseteq App /\ up \subseteq registered /\ clock \in 0..MaxChanges
  /\ route \in App \cup {None} /\ visits \in 0..MaxVisits
  /\ polls \in [Poll -> Polls(Data)] /\ calls \subseteq Call
  /\ busy \in BOOLEAN /\ creating \in BOOLEAN /\ making \in BOOLEAN
  /\ floor \in 0..clock

\* The view of a poll, as the abstract specification sees it.
Shown(p) == IF polls[p].data = None THEN None ELSE polls[p].data.at

List   == INSTANCE Follows WITH Nothing <- None, now <- clock, shown <- Shown("apps")
Status == INSTANCE Follows WITH Nothing <- None, now <- clock, shown <- Shown("status")
Row    == INSTANCE Follows WITH Nothing <- None, now <- clock, shown <- Shown("app")

\* Every polled view follows the server: once the page has heard that a control
\* of its own succeeded, nothing older than that moment appears in a view, however
\* late the answers of before (usePolled, Dashboard.control, AppDetail.control).
ViewsFollow == List!Spec /\ Status!Spec /\ Row!Spec

\* A page has one control under way at most: no second click reaches the server
\* while the first is unanswered (useAction).
OneControlPerPage ==
  \A c, d \in {e \in calls : e.here /\ e.op # "create"} : c = d

\* Every view of the page is what the server would say now, about the application
\* in the address, unless the server has nothing to say of it.
UpToDate == \A p \in Poll : OnPage(p) /\ Reading(p) # Failed => polls[p].data = Reading(p)

\* When the world and the operator come to rest, every view is up to date (usePolled).
ViewsCatchUp == <>[]UpToDate

=============================================================================
