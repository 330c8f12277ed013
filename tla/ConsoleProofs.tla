---------------------------- MODULE ConsoleProofs ----------------------------
(***************************************************************************)
(* The views of the admin interface proved: the monitoring pages (Pages),  *)
(* the forms (Forms), the log panel (Logs) and their composition with a    *)
(* tab and its session (MCConsole), for every number of applications,      *)
(* answers on their way, moves, revisions, launches and lines.             *)
(*                                                                         *)
(* Two invariants carry the pages.  PollInv says that whatever is on its   *)
(* way to the running effect was read after the last refresh: a refresh    *)
(* cancels what was asked before it, and the polls it does not cancel      *)
(* belong to the other page and have asked nothing.  CallInv says whose    *)
(* calls the page still waits for.  FormInv says what a form believes to   *)
(* have loaded, PanelInv that the chunks on their way go on where the      *)
(* lines of the panel end.                                                 *)
(***************************************************************************)
EXTENDS MCConsole, FiniteSetTheorems, SequenceTheorems, TLAPS

Logins == INSTANCE SessionProofs WITH busy <- submitting, Routes <- TRUE

-----------------------------------------------------------------------------
(***************************************************************************)
(* The monitoring pages.                                                   *)
(***************************************************************************)

PollType == [data : Data \cup {None}, flight : SUBSET (Data \cup {Failed})]

Fresh(flight, from, to) == \A v \in flight : v # Failed => v.at \in from..to

PollInv ==
  /\ registered \subseteq App /\ clock \in Nat /\ floor \in 0..clock
  /\ polls \in [Poll -> PollType]
  /\ \A p \in Poll : ~OnPage(p) => polls[p].flight = {}
  /\ \A p \in Poll : Fresh(polls[p].flight, floor, clock)

\* The controls the page that is mounted has made.
Mine == {c \in calls : c.here /\ c.op # "create"}

CallInv ==
  /\ calls \subseteq Call /\ busy \in BOOLEAN
  /\ creating => route = None
  /\ \A c \in calls : /\ c.done # "sent" => c.here
                      /\ c.here /\ c.op = "create" => route = None
  /\ ~busy => Mine = {}
  /\ \A c, d \in Mine : c = d

-----------------------------------------------------------------------------
(* The operators of Polled *)

LEMMA AskedType ==
  ASSUME NEW p \in PollType, NEW v \in Data \cup {Failed}
  PROVE  /\ Asked(p, v) \in PollType
         /\ Asked(p, v).data = p.data /\ Asked(p, v).flight = p.flight \cup {v}
BY DEF Asked, PollType

LEMMA LandedType ==
  ASSUME NEW p \in PollType, NEW v \in p.flight
  PROVE  /\ Landed(p, v) \in PollType
         /\ Landed(p, v).data = IF v = Failed THEN p.data ELSE v
         /\ Landed(p, v).flight = p.flight \ {v}
BY DEF Landed, PollType

LEMMA RefreshedType ==
  ASSUME NEW p \in PollType
  PROVE  /\ Refreshed(p) \in PollType
         /\ Refreshed(p).data = p.data /\ Refreshed(p).flight = {}
BY DEF Refreshed, PollType

LEMMA MountedType ==
  Mounted \in PollType /\ Mounted.data = None /\ Mounted.flight = {}
BY DEF Mounted, PollType

LEMMA ReadingType ==
  ASSUME PollInv, NEW p \in Poll
  PROVE  /\ Reading(p) \in Data \cup {Failed}
         /\ Reading(p) # Failed => Reading(p).at = clock
<1> DEFINE about == IF p = "apps" THEN registered ELSE {route}
           answer == [at |-> clock, about |-> about, up |-> up \cap about]
<1>1. Reading(p) = IF about \subseteq registered THEN answer ELSE Failed
  BY DEF Reading
<1>2. CASE about \subseteq registered
  <2>1. about \subseteq App /\ up \cap about \subseteq App /\ clock \in Nat
    BY <1>2 DEF PollInv
  <2> HIDE DEF about
  <2>2. answer \in Data /\ answer.at = clock
    BY <2>1 DEF Data
  <2> QED  BY <1>1, <1>2, <2>2
<1>3. CASE ~(about \subseteq registered)
  BY <1>1, <1>3
<1> QED  BY <1>2, <1>3

LEMMA FreshLonger ==
  ASSUME NEW from \in Nat, NEW to \in Nat, NEW later \in Nat, to <= later,
         NEW flight, Fresh(flight, from, to)
  PROVE  Fresh(flight, from, later)
BY DEF Fresh

-----------------------------------------------------------------------------
(* The polls *)

LEMMA PollInit ==
  ASSUME Init
  PROVE  PollInv
<1>1. \A p \in Poll : polls[p] = Mounted
  BY DEF Init
<1>2. polls \in [Poll -> PollType]
  BY MountedType DEF Init
<1>3. \A p \in Poll : Fresh(polls[p].flight, floor, clock)
  BY <1>1, MountedType DEF Fresh
<1>4. clock \in Nat /\ floor \in 0..clock
  BY DEF Init
<1> QED  BY <1>1, <1>2, <1>3, <1>4, MountedType, PagesAssumption DEF Init, PollInv

\* A step that leaves the polls alone.
LEMMA PollFrame ==
  ASSUME PollInv, UNCHANGED <<polls, floor>>, clock' = clock \/ clock' = clock + 1,
         registered' \subseteq App, (route' = None) = (route = None)
  PROVE  PollInv'
<1>1. clock \in Nat /\ floor \in 0..clock
  BY DEF PollInv
<1>2. clock' \in Nat /\ clock <= clock' /\ floor' \in 0..clock' /\ floor \in Nat
  BY <1>1
<1>3. \A p \in Poll : OnPage(p)' = OnPage(p)
  BY DEF OnPage
<1>4. \A p \in Poll : Fresh(polls[p].flight, floor, clock')
  BY <1>1, <1>2, FreshLonger DEF PollInv
<1> QED  BY <1>2, <1>3, <1>4 DEF PollInv

LEMMA AskKeeps ==
  ASSUME PollInv, NEW p \in Poll, Ask(p)
  PROVE  PollInv' /\ \A q \in Poll : polls'[q].data = polls[q].data
<1> DEFINE v == Reading(p)
<1>1. polls \in [Poll -> PollType] /\ clock \in Nat /\ floor \in 0..clock
  BY DEF PollInv
<1>2. v \in Data \cup {Failed} /\ (v # Failed => v.at = clock)
  BY ReadingType
<1>3. polls' = [polls EXCEPT ![p] = Asked(polls[p], v)]
  BY DEF Ask
<1> HIDE DEF v
<1>4. /\ Asked(polls[p], v) \in PollType
      /\ Asked(polls[p], v).data = polls[p].data
      /\ Asked(polls[p], v).flight = polls[p].flight \cup {v}
  BY <1>1, <1>2, AskedType
<1>5. polls' \in [Poll -> PollType]
  BY <1>1, <1>3, <1>4
<1>6. polls'[p] = Asked(polls[p], v) /\ \A q \in Poll \ {p} : polls'[q] = polls[q]
  BY <1>1, <1>3
<1>7. \A q \in Poll : polls'[q].data = polls[q].data
  BY <1>4, <1>6
<1>8. UNCHANGED <<registered, clock, floor, route>>
  BY DEF Ask, world, place
<1>9. \A q \in Poll : Fresh(polls'[q].flight, floor, clock)
  <2>1. Fresh(polls[p].flight, floor, clock)
    BY DEF PollInv
  <2>2. Fresh(polls[p].flight \cup {v}, floor, clock)
    BY <1>1, <1>2, <2>1 DEF Fresh
  <2> QED  BY <1>4, <1>6, <2>2 DEF PollInv
<1>10. \A q \in Poll : ~OnPage(q) => polls'[q].flight = {}
  BY <1>6 DEF Ask, PollInv
<1>11. \A q \in Poll : OnPage(q)' = OnPage(q)
  BY <1>8 DEF OnPage
<1> QED  BY <1>5, <1>7, <1>8, <1>9, <1>10, <1>11 DEF PollInv

\* An answer that lands leaves every view but one alone, and puts into that one
\* what was read since the last refresh.
LEMMA LandKeeps ==
  ASSUME PollInv, NEW p \in Poll, Land(p)
  PROVE  /\ PollInv'
         /\ \A q \in Poll : \/ polls'[q].data = polls[q].data
                            \/ polls'[q].data \in Data /\ polls'[q].data.at \in floor..clock
<1>1. polls \in [Poll -> PollType] /\ clock \in Nat /\ floor \in 0..clock
  BY DEF PollInv
<1>2. PICK v \in polls[p].flight : polls' = [polls EXCEPT ![p] = Landed(polls[p], v)]
  BY DEF Land
<1>3. /\ Landed(polls[p], v) \in PollType
      /\ Landed(polls[p], v).data = IF v = Failed THEN polls[p].data ELSE v
      /\ Landed(polls[p], v).flight = polls[p].flight \ {v}
  BY <1>1, LandedType
<1>4. polls' \in [Poll -> PollType]
  BY <1>1, <1>2, <1>3
<1>5. polls'[p] = Landed(polls[p], v) /\ \A q \in Poll \ {p} : polls'[q] = polls[q]
  BY <1>1, <1>2
<1>6. UNCHANGED <<registered, clock, floor, route>>
  BY DEF Land, world, place
<1>7. \A q \in Poll : Fresh(polls'[q].flight, floor, clock)
  <2>1. Fresh(polls[p].flight, floor, clock)
    BY DEF PollInv
  <2>2. Fresh(polls[p].flight \ {v}, floor, clock)
    BY <2>1 DEF Fresh
  <2> QED  BY <1>3, <1>5, <2>2 DEF PollInv
<1>8. \A q \in Poll : ~OnPage(q) => polls'[q].flight = {}
  BY <1>5 DEF Land, PollInv
<1>9. \A q \in Poll : OnPage(q)' = OnPage(q)
  BY <1>6 DEF OnPage
<1>10. v # Failed => v \in Data /\ v.at \in floor..clock
  <2>1. v \in Data \cup {Failed}
    BY <1>1 DEF PollType
  <2>2. Fresh(polls[p].flight, floor, clock)
    BY DEF PollInv
  <2> QED  BY <2>1, <2>2 DEF Fresh
<1>11. \A q \in Poll : \/ polls'[q].data = polls[q].data
                       \/ polls'[q].data \in Data /\ polls'[q].data.at \in floor..clock
  BY <1>3, <1>5, <1>10
<1> QED  BY <1>4, <1>6, <1>7, <1>8, <1>9, <1>11 DEF PollInv

\* A page that has heard of a success of its own refreshes all its polls.
LEMMA SucceededKeeps ==
  ASSUME PollInv, NEW ps, Succeeded(ps), \A p \in Poll : OnPage(p) => p \in ps,
         UNCHANGED <<registered, clock, route>>
  PROVE  PollInv' /\ \A q \in Poll : polls'[q].data = polls[q].data
<1>1. polls \in [Poll -> PollType] /\ clock \in Nat
  BY DEF PollInv
<1>2. ASSUME NEW q \in Poll
      PROVE  /\ polls'[q] \in PollType /\ polls'[q].data = polls[q].data
             /\ polls'[q].flight = {}
  <2>1. polls'[q] = IF q \in ps THEN Refreshed(polls[q]) ELSE polls[q]
    BY DEF Succeeded
  <2>2. polls[q] \in PollType
    BY <1>1
  <2>3. q \notin ps => polls[q].flight = {}
    BY DEF PollInv
  <2> QED  BY <2>1, <2>2, <2>3, RefreshedType
<1>3. polls' \in [Poll -> PollType]
  BY <1>2 DEF Succeeded
<1>4. floor' \in 0..clock
  BY <1>1 DEF Succeeded
<1>5. \A q \in Poll : Fresh(polls'[q].flight, floor', clock)
  BY <1>2 DEF Fresh
<1> QED  BY <1>2, <1>3, <1>4, <1>5 DEF PollInv

LEMMA GoKeeps ==
  ASSUME PollInv, NEW to, Go(to)
  PROVE  PollInv' /\ \A q \in Poll : polls'[q].data = None
<1>1. \A q \in Poll : polls'[q] = Mounted
  BY DEF Go
<1>2. polls' \in [Poll -> PollType]
  BY MountedType DEF Go
<1>3. floor' \in 0..clock' /\ clock' \in Nat /\ registered' \subseteq App
  BY DEF Go, PollInv, world
<1>4. \A q \in Poll : Fresh(polls'[q].flight, floor', clock')
  BY <1>1, MountedType DEF Fresh
<1> QED  BY <1>1, <1>2, <1>3, <1>4, MountedType DEF PollInv

-----------------------------------------------------------------------------
(* The calls *)

LEMMA CallInit ==
  ASSUME Init
  PROVE  CallInv
BY DEF Init, CallInv, Mine

\* A step after which the page waits for no new control.
LEMMA CallFrame ==
  ASSUME CallInv, UNCHANGED busy, calls' \subseteq calls, creating' => route' = None,
         route' = None \/ route' = route \/ route # None
  PROVE  CallInv'
<1>1. \A c \in calls' : /\ c.done # "sent" => c.here
                        /\ c.here /\ c.op = "create" => route' = None
  BY DEF CallInv
<1>2. Mine' \subseteq Mine
  BY DEF Mine
<1> QED  BY <1>1, <1>2 DEF CallInv

\* The answer to a call takes the call's place, if its page still waits for it.
LEMMA AnsweredKeeps ==
  ASSUME CallInv, NEW c \in calls, NEW ok \in BOOLEAN, Answered(c, ok),
         UNCHANGED <<busy, creating, route>>
  PROVE  CallInv'
<1> DEFINE done == IF ok THEN "ok" ELSE "failed"
           d == [op |-> c.op, app |-> c.app, here |-> TRUE, form |-> c.form, done |-> done]
<1>1. c \in Call
  BY DEF CallInv
<1>2. d \in Call /\ d.here = TRUE /\ d.op = c.op
  BY <1>1 DEF Call
<1>3. calls' = (calls \ {c}) \cup {d : h \in {c.here} \ {FALSE}}
  BY DEF Answered
<1> HIDE DEF d
<1>4. CASE c.here
  <2>1. calls' = (calls \ {c}) \cup {d}
    BY <1>3, <1>4
  <2>2. c.op = "create" => route = None
    BY <1>4 DEF CallInv
  <2>3. calls' \subseteq Call
    BY <1>2, <2>1 DEF CallInv
  <2>4. \A e \in calls' : /\ e.done # "sent" => e.here
                          /\ e.here /\ e.op = "create" => route' = None
    BY <1>2, <2>1, <2>2 DEF CallInv
  <2>5. CASE c.op = "create"
    <3>1. Mine' \subseteq Mine
      BY <1>2, <2>1, <2>5 DEF Mine
    <3> QED  BY <2>3, <2>4, <3>1 DEF CallInv
  <2>6. CASE c.op # "create"
    <3>1. c \in Mine
      BY <1>4, <2>6 DEF Mine
    <3>2. Mine' = (Mine \ {c}) \cup {d}
      BY <1>2, <2>1, <2>6 DEF Mine
    <3>3. Mine = {c} /\ busy
      BY <3>1 DEF CallInv
    <3>4. Mine' = {d}
      BY <3>2, <3>3
    <3> QED  BY <2>3, <2>4, <3>3, <3>4 DEF CallInv
  <2> QED  BY <2>5, <2>6
<1>5. CASE ~c.here
  <2>1. c.here = FALSE
    BY <1>1, <1>5 DEF Call
  <2>2. calls' \subseteq calls
    BY <1>3, <2>1
  <2> QED  BY <2>2, CallFrame DEF CallInv
<1> QED  BY <1>4, <1>5

LEMMA ControlKeeps ==
  ASSUME CallInv, NEW op \in {"start", "stop", "restart"}, NEW a \in App, Control(op, a)
  PROVE  CallInv'
<1> DEFINE d == [op |-> op, app |-> a, here |-> TRUE, form |-> FALSE, done |-> "sent"]
<1>1. d \in Call /\ d.here /\ d.op # "create" /\ d.done = "sent"
  BY DEF Call
<1>2. calls' = calls \cup {d} /\ ~busy /\ busy' = TRUE /\ UNCHANGED <<route, creating>>
  BY DEF Control, Send, place, form
<1> HIDE DEF d
<1>3. Mine' = {d}
  BY <1>1, <1>2 DEF Mine, CallInv
<1> QED  BY <1>1, <1>2, <1>3 DEF CallInv

LEMMA SubmitFormKeeps ==
  ASSUME CallInv, NEW a \in App, SubmitForm(a)
  PROVE  CallInv'
<1> DEFINE d == [op |-> "create", app |-> a, here |-> TRUE, form |-> TRUE, done |-> "sent"]
<1>1. d \in Call /\ d.here /\ d.op = "create" /\ d.done = "sent"
  BY DEF Call
<1>2. calls' = calls \cup {d} /\ creating /\ UNCHANGED <<busy, route, creating>>
  BY DEF SubmitForm, Send, place
<1>3. route = None
  BY <1>2 DEF CallInv
<1> HIDE DEF d
<1>4. Mine' = Mine
  BY <1>1, <1>2 DEF Mine
<1> QED  BY <1>1, <1>2, <1>3, <1>4 DEF CallInv

LEMMA CancelFormKeeps ==
  ASSUME CallInv, CancelForm
  PROVE  CallInv'
<1> DEFINE f(c) == [op |-> c.op, app |-> c.app, here |-> c.here, form |-> FALSE, done |-> c.done]
<1>1. calls' = {f(c) : c \in calls} /\ creating' = FALSE /\ UNCHANGED <<busy, route>>
  BY DEF CancelForm, place
<1>2. ASSUME NEW c \in calls
      PROVE  f(c) \in Call /\ f(c).here = c.here /\ f(c).op = c.op /\ f(c).done = c.done
  <2>1. c \in Call
    BY DEF CallInv
  <2> QED  BY <2>1 DEF Call
<1>3. \A m, n \in calls : m = n => f(m) = f(n)
  OBVIOUS
<1> HIDE DEF f
<1>4. Mine' = {f(c) : c \in Mine}
  BY <1>1, <1>2 DEF Mine
<1>5. \A c \in calls' : /\ c.done # "sent" => c.here
                        /\ c.here /\ c.op = "create" => route' = None
  BY <1>1, <1>2 DEF CallInv
<1>6. calls' \subseteq Call
  BY <1>1, <1>2
<1>7. \A c, d \in Mine' : c = d
  BY <1>4 DEF CallInv
<1> QED  BY <1>1, <1>4, <1>5, <1>6, <1>7 DEF CallInv

LEMMA GoCalls ==
  ASSUME CallInv, NEW to, Go(to)
  PROVE  CallInv'
<1>1. ASSUME NEW c \in calls
      PROVE  Forgotten(c) \in Call /\ ~Forgotten(c).here /\ Forgotten(c).done = c.done
  <2>1. c \in Call
    BY DEF CallInv
  <2> QED  BY <2>1 DEF Call, Forgotten
<1>2. /\ calls' = {Forgotten(c) : c \in {d \in calls : d.done = "sent"}}
      /\ busy' = FALSE /\ creating' = FALSE
  BY DEF Go
<1>3. \A c \in calls' : c \in Call /\ ~c.here /\ c.done = "sent"
  BY <1>1, <1>2
<1>4. Mine' = {}
  BY <1>3 DEF Mine
<1> QED  BY <1>2, <1>3, <1>4 DEF CallInv

\* The control whose answer is heard was the only one.
LEMMA ControlAnsweredKeeps ==
  ASSUME CallInv, NEW c \in calls, ControlAnswered(c)
  PROVE  CallInv'
<1>1. /\ c.done # "sent" /\ c.op # "create" /\ calls' = calls \ {c} /\ busy' = FALSE
      /\ UNCHANGED <<route, creating>>
  BY DEF ControlAnswered, place, form
<1>2. c \in Mine
  BY <1>1 DEF CallInv, Mine
<1>3. Mine' = Mine \ {c}
  BY <1>1 DEF Mine
<1>4. Mine' = {}
  BY <1>2, <1>3 DEF CallInv
<1> QED  BY <1>1, <1>4 DEF CallInv

-----------------------------------------------------------------------------
(* Every step *)

IInv == PollInv /\ CallInv

\* What Follows allows the view of p to do in one step.
Step(p) ==
  \/ clock' = clock + 1 /\ UNCHANGED <<Shown(p), floor>>
  \/ floor' = clock /\ UNCHANGED <<clock, Shown(p)>>
  \/ Shown(p)' = None /\ floor' = clock /\ UNCHANGED clock
  \/ Shown(p)' \in floor..clock /\ UNCHANGED <<clock, floor>>
  \/ UNCHANGED <<clock, Shown(p), floor>>

\* The views stay as they are, and time may pass.
LEMMA QuietStep ==
  ASSUME PollInv, UNCHANGED <<polls, floor>>, clock' = clock \/ clock' = clock + 1,
         registered' \subseteq App, (route' = None) = (route = None)
  PROVE  PollInv' /\ \A p \in Poll : Step(p)
<1>1. \A p \in Poll : Shown(p)' = Shown(p)
  BY DEF Shown
<1> QED  BY <1>1, PollFrame DEF Step

LEMMA SameData ==
  ASSUME NEW p \in Poll, polls'[p].data = polls[p].data
  PROVE  Shown(p)' = Shown(p)
BY DEF Shown

\* A step of the server or of a call under way.
LEMMA ServedKeeps ==
  ASSUME IInv, NEW c \in calls, Serve(c) \/ LoseCall(c)
  PROVE  IInv' /\ \A p \in Poll : Step(p)
<1>1. c.app \in App
  BY DEF IInv, CallInv, Call
<1>2. /\ UNCHANGED <<polls, floor, route, busy, creating>>
      /\ clock' = clock \/ clock' = clock + 1
      /\ registered' \subseteq registered \cup {c.app}
      /\ Answered(c, TRUE) \/ Answered(c, FALSE)
  BY DEF Serve, ServeControl, ServeCreate, LoseCall, place, form, world
<1>3. registered' \subseteq App
  BY <1>1, <1>2 DEF IInv, PollInv
<1>4. CallInv'
  <2>1. TRUE \in BOOLEAN /\ FALSE \in BOOLEAN
    OBVIOUS
  <2> QED  BY <1>2, <2>1, AnsweredKeeps DEF IInv
<1> QED  BY <1>2, <1>3, <1>4, QuietStep DEF IInv

LEMMA HeardKeeps ==
  ASSUME IInv, NEW c \in calls, Hear(c)
  PROVE  IInv' /\ \A p \in Poll : Step(p)
<1>1. UNCHANGED <<registered, clock, route>>
  BY DEF Hear, ControlAnswered, FormAnswered, world, place
<1>2. ASSUME NEW ps, Succeeded(ps), \A p \in Poll : OnPage(p) => p \in ps
      PROVE  PollInv' /\ \A p \in Poll : Step(p)
  <2>1. PollInv' /\ \A q \in Poll : polls'[q].data = polls[q].data
    BY <1>1, <1>2, SucceededKeeps DEF IInv
  <2>2. floor' = clock
    BY <1>2 DEF Succeeded
  <2> QED  BY <1>1, <2>1, <2>2, SameData DEF Step
<1>3. ASSUME UNCHANGED <<polls, floor>>
      PROVE  PollInv' /\ \A p \in Poll : Step(p)
  BY <1>1, <1>3, QuietStep DEF IInv, PollInv
<1>4. CASE ControlAnswered(c)
  <2>1. CallInv'
    BY <1>4, ControlAnsweredKeeps DEF IInv
  <2>2. \A p \in Poll : OnPage(p) => p \in (IF route = None THEN {"apps"} ELSE {"status", "app"})
    BY DEF OnPage, Poll
  <2> QED  BY <1>2, <1>3, <1>4, <2>1, <2>2 DEF ControlAnswered, IInv
<1>5. CASE FormAnswered(c)
  <2>1. calls' \subseteq calls /\ busy' = busy /\ (creating' => creating)
    BY <1>5 DEF FormAnswered
  <2>2. CallInv'
    BY <1>1, <2>1, CallFrame DEF IInv, CallInv
  <2>3. c.here /\ c.op = "create" /\ route = None
    BY <1>5 DEF FormAnswered, IInv, CallInv
  <2>4. \A p \in Poll : OnPage(p) => p \in {"apps"}
    BY <2>3 DEF OnPage
  <2> QED  BY <1>2, <1>3, <1>5, <2>2, <2>4 DEF FormAnswered, IInv
<1> QED  BY <1>4, <1>5 DEF Hear

LEMMA PollingKeeps ==
  ASSUME IInv, NEW p \in Poll, Ask(p) \/ Land(p)
  PROVE  IInv' /\ \A q \in Poll : Step(q)
<1>1. UNCHANGED <<clock, floor, calls, busy, creating, route>>
  BY DEF Ask, Land, world, place, form
<1>2. CallInv'
  BY <1>1, CallFrame DEF IInv, CallInv
<1>3. CASE Ask(p)
  <2>1. PollInv' /\ \A q \in Poll : polls'[q].data = polls[q].data
    BY <1>3, AskKeeps DEF IInv
  <2> QED  BY <1>1, <1>2, <2>1, SameData DEF IInv, Step
<1>4. CASE Land(p)
  <2>1. /\ PollInv'
        /\ \A q \in Poll : \/ polls'[q].data = polls[q].data
                           \/ polls'[q].data \in Data /\ polls'[q].data.at \in floor..clock
    BY <1>4, LandKeeps DEF IInv
  <2>2. ASSUME NEW q \in Poll
        PROVE  Step(q)
    <3>1. CASE polls'[q].data = polls[q].data
      BY <1>1, <3>1, SameData DEF Step
    <3>2. CASE polls'[q].data \in Data /\ polls'[q].data.at \in floor..clock
      <4>1. polls'[q].data # None
        BY <3>2, PagesAssumption
      <4>2. Shown(q)' = polls'[q].data.at
        BY <4>1 DEF Shown
      <4> QED  BY <1>1, <3>2, <4>2 DEF Step
    <3> QED  BY <2>1, <3>1, <3>2
  <2> QED  BY <1>2, <2>1, <2>2 DEF IInv
<1> QED  BY <1>3, <1>4

LEMMA MovingKeeps ==
  ASSUME IInv, \/ \E to \in App \cup {None} : Go(to)
               \/ \E to \in App : Switch(to)
  PROVE  IInv' /\ \A p \in Poll : Step(p)
<1>1. ASSUME NEW to \in App \cup {None}, Go(to)
      PROVE  IInv' /\ \A p \in Poll : Step(p)
  <2>1. PollInv' /\ \A q \in Poll : polls'[q].data = None
    BY <1>1, GoKeeps DEF IInv
  <2>2. CallInv'
    BY <1>1, GoCalls DEF IInv
  <2>3. \A q \in Poll : Shown(q)' = None
    BY <2>1 DEF Shown
  <2>4. floor' = clock /\ clock' = clock
    BY <1>1 DEF Go, world
  <2> QED  BY <2>1, <2>2, <2>3, <2>4 DEF IInv, Step
<1>2. ASSUME NEW to \in App, Switch(to)
      PROVE  IInv' /\ \A p \in Poll : Step(p)
  <2>1. /\ UNCHANGED <<registered, clock, polls, floor, calls, busy, creating>>
        /\ route # None /\ route' = to
    BY <1>2 DEF Switch, world, form
  <2>2. to # None
    BY PagesAssumption
  <2>3. CallInv'
    BY <2>1, CallFrame DEF IInv, CallInv
  <2>4. PollInv' /\ \A p \in Poll : Step(p)
    BY <2>1, <2>2, QuietStep DEF IInv, PollInv
  <2> QED  BY <2>3, <2>4 DEF IInv
<1> QED  BY <1>1, <1>2

\* A click, or a change that somebody else makes.
LEMMA OtherKeeps ==
  ASSUME IInv, \/ \E op \in {"start", "stop", "restart"}, a \in App : Control(op, a)
               \/ OpenForm \/ CancelForm
               \/ \E a \in App : SubmitForm(a) \/ Change(a) \/ Delete(a)
  PROVE  IInv' /\ \A p \in Poll : Step(p)
<1>1. /\ UNCHANGED <<polls, floor, route>>
      /\ clock' = clock \/ clock' = clock + 1
      /\ registered' \subseteq registered
  BY DEF Control, OpenForm, CancelForm, SubmitForm, Change, Delete, world, place
<1>2. PollInv' /\ \A p \in Poll : Step(p)
  BY <1>1, QuietStep DEF IInv, PollInv
<1>3. CASE \E op \in {"start", "stop", "restart"}, a \in App : Control(op, a)
  BY <1>2, <1>3, ControlKeeps DEF IInv
<1>4. CASE OpenForm
  <2>1. UNCHANGED <<calls, busy>> /\ route = None
    BY <1>4 DEF OpenForm
  <2> QED  BY <1>1, <1>2, <2>1, CallFrame DEF IInv
<1>5. CASE CancelForm
  BY <1>2, <1>5, CancelFormKeeps DEF IInv
<1>6. ASSUME NEW a \in App, SubmitForm(a)
      PROVE  CallInv'
  BY <1>6, SubmitFormKeeps DEF IInv
<1>7. ASSUME NEW a \in App, Change(a) \/ Delete(a)
      PROVE  CallInv'
  <2>1. UNCHANGED <<calls, busy, creating>>
    BY <1>7 DEF Change, Delete, form
  <2> QED  BY <1>1, <2>1, CallFrame DEF IInv, CallInv
<1> QED  BY <1>2, <1>3, <1>4, <1>5, <1>6, <1>7 DEF IInv

LEMMA NextKeeps ==
  ASSUME IInv, [Next]_vars
  PROVE  IInv' /\ \A p \in Poll : Step(p)
<1>1. CASE UNCHANGED vars
  <2>1. UNCHANGED <<registered, clock, polls, floor, route, calls, busy, creating>>
    BY <1>1 DEF vars, world, place, form
  <2>2. CallInv'
    BY <2>1, CallFrame DEF IInv, CallInv
  <2> QED  BY <2>1, <2>2, QuietStep DEF IInv, PollInv
<1>2. CASE Next
  BY <1>2, PollingKeeps, MovingKeeps, OtherKeeps, ServedKeeps, HeardKeeps DEF Next
<1> QED  BY <1>1, <1>2

LEMMA Invariance == Spec => []IInv
<1>1. Init => IInv
  BY PollInit, CallInit DEF IInv
<1>2. IInv /\ [Next]_vars => IInv'
  BY NextKeeps
<1> QED  BY <1>1, <1>2, PTL DEF Spec

-----------------------------------------------------------------------------
(* The bounds *)

Under == {c \in calls : c.done = "sent"}

\* The rest of the types.  Every call under way may still change the server once.
BoundsInv ==
  /\ up \subseteq registered /\ route \in App \cup {None} /\ visits \in 0..MaxVisits
  /\ creating \in BOOLEAN /\ making \in BOOLEAN
  /\ IsFiniteSet(calls) /\ clock + Cardinality(Under) <= MaxChanges

LEMMA BoundsInit ==
  ASSUME Init
  PROVE  BoundsInv
<1>1. Under = {} /\ IsFiniteSet(calls) /\ Cardinality(Under) = 0
  BY FS_EmptySet DEF Init, Under
<1>2. clock = 0 /\ clock + Cardinality(Under) = 0 /\ 0 \in 0..MaxVisits /\ 0 <= MaxChanges
  BY <1>1, PagesAssumption DEF Init
<1>3. up \subseteq registered /\ route \in App \cup {None} /\ visits = 0
  BY PagesAssumption DEF Init
<1> QED
  BY <1>1, <1>2, <1>3 DEF Init, BoundsInv

LEMMA UnderFinite ==
  ASSUME IsFiniteSet(calls)
  PROVE  IsFiniteSet(Under) /\ Cardinality(Under) \in Nat
<1>1. Under \in SUBSET calls
  BY DEF Under
<1> QED
  BY <1>1, FS_Subset, FS_CardinalityType

\* A step after which no more calls are under way than before.
LEMMA BoundsFrame ==
  ASSUME PollInv, BoundsInv, calls' \subseteq calls, clock' = clock,
         up' \subseteq registered', route' \in App \cup {None}, visits' \in 0..MaxVisits,
         creating' \in BOOLEAN, making' \in BOOLEAN
  PROVE  BoundsInv'
<1>1. IsFiniteSet(calls) /\ clock \in Nat
  BY DEF BoundsInv, PollInv
<1>2. IsFiniteSet(Under) /\ Cardinality(Under) \in Nat
  BY <1>1, UnderFinite
<1>3. Under' \in SUBSET Under /\ calls' \in SUBSET calls
  BY DEF Under
<1>4. IsFiniteSet(calls') /\ Cardinality(Under') <= Cardinality(Under)
  BY <1>1, <1>2, <1>3, FS_Subset
<1>5. Cardinality(Under') \in Nat
  BY <1>2, <1>3, FS_Subset, FS_CardinalityType
<1> QED
  BY <1>1, <1>2, <1>4, <1>5, PagesAssumption DEF BoundsInv

\* A step that sends a call while there is room.
LEMMA BoundsSend ==
  ASSUME PollInv, BoundsInv, NEW op, NEW a, NEW inForm, Send(op, a, inForm),
         UNCHANGED <<world, place, creating>>, making' \in BOOLEAN
  PROVE  BoundsInv'
<1> DEFINE c == [op |-> op, app |-> a, here |-> TRUE, form |-> inForm, done |-> "sent"]
<1>1. /\ calls' = calls \cup {c} /\ clock + Cardinality(Under) < MaxChanges /\ c.done = "sent"
      /\ UNCHANGED <<registered, up, clock, route, visits>>
  BY DEF Send, Room, Under, world, place
<1> HIDE DEF c
<1>2. IsFiniteSet(calls) /\ clock \in Nat
  BY DEF BoundsInv, PollInv
<1>3. IsFiniteSet(Under) /\ Cardinality(Under) \in Nat
  BY <1>2, UnderFinite
<1>4. Under' = Under \cup {c}
  BY <1>1 DEF Under
<1>5. /\ IsFiniteSet(calls')
      /\ Cardinality(Under') = IF c \in Under THEN Cardinality(Under) ELSE Cardinality(Under) + 1
  BY <1>1, <1>2, <1>3, <1>4, FS_AddElement
<1> QED
  BY <1>1, <1>2, <1>3, <1>5, PagesAssumption DEF BoundsInv

\* The answer to a call, and the change of the server that comes with it.
LEMMA BoundsAnswered ==
  ASSUME PollInv, BoundsInv, NEW c \in calls, NEW ok \in BOOLEAN, Answered(c, ok),
         clock' = clock \/ (clock' = clock + 1 /\ c.done = "sent"),
         up' \subseteq registered', UNCHANGED <<place, form>>
  PROVE  BoundsInv'
<1> DEFINE d == [op |-> c.op, app |-> c.app, here |-> TRUE, form |-> c.form,
                 done |-> IF ok THEN "ok" ELSE "failed"]
<1>1. /\ calls' = (calls \ {c}) \cup {d : h \in {c.here} \ {FALSE}} /\ d.done # "sent"
      /\ UNCHANGED <<route, visits, creating, making>>
  BY DEF Answered, place, form
<1> HIDE DEF d
<1>2. IsFiniteSet(calls) /\ clock \in Nat
  BY DEF BoundsInv, PollInv
<1>3. IsFiniteSet(Under) /\ Cardinality(Under) \in Nat
  BY <1>2, UnderFinite
<1>4. Under' = Under \ {c}
  BY <1>1 DEF Under
<1>5. Cardinality(Under') = IF c \in Under THEN Cardinality(Under) - 1 ELSE Cardinality(Under)
  BY <1>3, <1>4, FS_RemoveElement
<1>6. c.done = "sent" => c \in Under
  BY DEF Under
<1>7. IsFiniteSet(calls')
  <2>1. IsFiniteSet(calls \ {c}) /\ IsFiniteSet((calls \ {c}) \cup {d})
    BY <1>2, FS_RemoveElement, FS_AddElement
  <2>2. calls' = calls \ {c} \/ calls' = (calls \ {c}) \cup {d}
    BY <1>1
  <2> QED
    BY <2>1, <2>2
<1>8. Cardinality(Under') \in Nat
  BY <1>3, <1>4, FS_RemoveElement, FS_CardinalityType
<1> QED
  BY <1>1, <1>2, <1>3, <1>5, <1>6, <1>7, <1>8, PagesAssumption DEF BoundsInv

\* Calls that are only told that their page or form has gone.
LEMMA BoundsImage ==
  ASSUME PollInv, BoundsInv, NEW from \in SUBSET calls, NEW f \in [from -> Call],
         calls' = {f[c] : c \in from}, \A c \in from : f[c].done = c.done,
         clock' = clock, up' \subseteq registered', route' \in App \cup {None},
         visits' \in 0..MaxVisits, creating' \in BOOLEAN, making' \in BOOLEAN
  PROVE  BoundsInv'
<1>1. IsFiniteSet(calls) /\ clock \in Nat /\ IsFiniteSet(from)
  BY FS_Subset DEF BoundsInv, PollInv
<1>2. IsFiniteSet(Under) /\ Cardinality(Under) \in Nat
  BY <1>1, UnderFinite
<1> DEFINE sent == {c \in from : c.done = "sent"}
           g == [c \in sent |-> f[c]]
<1>3. sent \in SUBSET Under /\ IsFiniteSet(sent) /\ Cardinality(sent) <= Cardinality(Under)
      /\ Cardinality(sent) \in Nat
  <2>1. sent \in SUBSET Under
    BY DEF Under
  <2> QED
    BY <2>1, <1>2, FS_Subset, FS_CardinalityType
<1>4. f \in Surjection(from, calls') /\ g \in Surjection(sent, Under')
  <2>1. f \in Surjection(from, calls')
    BY DEF Surjection
  <2>2. Under' = {f[c] : c \in sent}
    BY DEF Under
  <2>3. g \in [sent -> Under'] /\ \A c \in sent : g[c] = f[c]
    BY <2>2
  <2> HIDE DEF g
  <2>4. g \in Surjection(sent, Under')
    BY <2>2, <2>3 DEF Surjection
  <2> QED
    BY <2>1, <2>4
<1> HIDE DEF g
<1>5. IsFiniteSet(calls')
  BY <1>1, <1>4, FS_Surjection
<1>6. IsFiniteSet(Under') /\ Cardinality(Under') <= Cardinality(sent)
  BY <1>3, <1>4, FS_Surjection
<1>7. Cardinality(Under') \in Nat
  BY <1>6, FS_CardinalityType
<1> HIDE DEF sent
<1> QED
  BY <1>1, <1>2, <1>3, <1>5, <1>6, <1>7, PagesAssumption DEF BoundsInv

LEMMA BoundsStep ==
  ASSUME PollInv, CallInv, BoundsInv, [Next]_vars
  PROVE  BoundsInv'
<1> USE DEF place, form, world
<1>1. up \subseteq registered /\ route \in App \cup {None} /\ visits \in 0..MaxVisits
      /\ creating \in BOOLEAN /\ making \in BOOLEAN
  BY DEF BoundsInv
<1>2. ASSUME visits < MaxVisits, visits' = visits + 1
      PROVE  visits' \in 0..MaxVisits
  BY <1>1, <1>2, PagesAssumption
<1>3. ASSUME calls' \subseteq calls, UNCHANGED world, route' \in App \cup {None},
             visits' \in 0..MaxVisits, creating' \in BOOLEAN, making' \in BOOLEAN
      PROVE  BoundsInv'
  BY <1>1, <1>3, BoundsFrame
<1>4. CASE UNCHANGED vars
  BY <1>1, <1>3, <1>4 DEF vars
<1>5. ASSUME NEW p \in Poll, Ask(p) \/ Land(p)
      PROVE  BoundsInv'
  BY <1>1, <1>3, <1>5 DEF Ask, Land
<1>6. ASSUME NEW to \in App \cup {None}, Go(to)
      PROVE  BoundsInv'
  <2> DEFINE sent == {c \in calls : c.done = "sent"}
             f == [c \in sent |-> Forgotten(c)]
  <2>1. /\ calls' = {f[c] : c \in sent} /\ UNCHANGED world /\ route' = to
        /\ visits < MaxVisits /\ visits' = visits + 1 /\ creating' = FALSE /\ making' = FALSE
    BY <1>6 DEF Go
  <2>2. \A c \in sent : Forgotten(c) \in Call /\ Forgotten(c).done = c.done
    BY DEF CallInv, Call, Forgotten
  <2>3. sent \in SUBSET calls /\ f \in [sent -> Call] /\ \A c \in sent : f[c].done = c.done
    BY <2>2
  <2> HIDE DEF sent, f
  <2> QED
    BY <1>1, <1>2, <2>1, <2>3, BoundsImage
<1>7. ASSUME NEW to \in App, Switch(to)
      PROVE  BoundsInv'
  BY <1>1, <1>2, <1>3, <1>7 DEF Switch
<1>8. ASSUME NEW op, NEW a, Control(op, a)
      PROVE  BoundsInv'
  BY <1>1, <1>8, BoundsSend DEF Control
<1>9. ASSUME NEW a \in App, SubmitForm(a)
      PROVE  BoundsInv'
  BY <1>9, BoundsSend DEF SubmitForm
<1>10. CASE OpenForm
  BY <1>1, <1>3, <1>10 DEF OpenForm
<1>11. CASE CancelForm
  <2> DEFINE f == [c \in calls |-> [op |-> c.op, app |-> c.app, here |-> c.here, form |-> FALSE,
                                    done |-> c.done]]
  <2>1. /\ calls' = {f[c] : c \in calls} /\ UNCHANGED <<world, place>>
        /\ creating' = FALSE /\ making' = FALSE
    BY <1>11 DEF CancelForm
  <2>2. calls \in SUBSET calls /\ f \in [calls -> Call] /\ \A c \in calls : f[c].done = c.done
    BY DEF CallInv, Call
  <2> HIDE DEF f
  <2> QED
    BY <1>1, <2>1, <2>2, BoundsImage
<1>12. ASSUME NEW a \in App, Change(a) \/ Delete(a)
       PROVE  BoundsInv'
  <2>1. /\ clock + Cardinality(Under) < MaxChanges /\ clock' = clock + 1
        /\ UNCHANGED <<place, form, calls>> /\ up' \subseteq registered'
    BY <1>1, <1>12 DEF Change, Delete, Room, Under
  <2>2. IsFiniteSet(calls) /\ clock \in Nat /\ Cardinality(Under) \in Nat /\ Under' = Under
    BY <2>1, UnderFinite DEF BoundsInv, PollInv, Under
  <2> QED
    BY <1>1, <2>1, <2>2, PagesAssumption DEF BoundsInv
<1>13. ASSUME NEW c \in calls, Serve(c) \/ LoseCall(c)
       PROVE  BoundsInv'
  <2>1. /\ UNCHANGED <<place, form>> /\ up' \subseteq registered'
        /\ clock' = clock \/ (clock' = clock + 1 /\ c.done = "sent")
    BY <1>1, <1>13 DEF Serve, ServeControl, ServeCreate, LoseCall
  <2>2. \E ok \in BOOLEAN : Answered(c, ok)
    BY <1>13 DEF Serve, ServeControl, ServeCreate, LoseCall
  <2> QED
    BY <2>1, <2>2, BoundsAnswered
<1>14. ASSUME NEW c \in calls, Hear(c)
       PROVE  BoundsInv'
  <2>1. /\ calls' \subseteq calls /\ UNCHANGED <<world, place>>
        /\ creating' \in BOOLEAN /\ making' \in BOOLEAN
    BY <1>1, <1>14 DEF Hear, ControlAnswered, FormAnswered
  <2> QED
    BY <1>1, <1>3, <2>1
<1> QED
  BY <1>4, <1>5, <1>6, <1>7, <1>8, <1>9, <1>10, <1>11, <1>12, <1>13, <1>14 DEF Next

LEMMA PagesTyped ==
  ASSUME PollInv, CallInv, BoundsInv
  PROVE  TypeOK
<1>1. clock \in 0..MaxChanges
  <2>1. clock \in Nat /\ Cardinality(Under) \in Nat
    BY UnderFinite DEF PollInv, BoundsInv
  <2> QED
    BY <2>1, PagesAssumption DEF BoundsInv
<1> QED
  BY <1>1 DEF PollInv, CallInv, BoundsInv, PollType, Polls, TypeOK

LEMMA PagesTypedAlways == Spec => []TypeOK
<1>1. Init => IInv /\ BoundsInv
  BY PollInit, CallInit, BoundsInit DEF IInv
<1>2. IInv /\ BoundsInv /\ [Next]_vars => IInv' /\ BoundsInv'
  BY NextKeeps, BoundsStep DEF IInv
<1>3. IInv /\ BoundsInv => TypeOK
  BY PagesTyped DEF IInv
<1> QED
  BY <1>1, <1>2, <1>3, PTL DEF Spec

-----------------------------------------------------------------------------
(* The theorems *)

\* A page has one control under way at most (useAction).
THEOREM OneControl == Spec => []OneControlPerPage
<1>1. IInv => OneControlPerPage
  BY DEF IInv, CallInv, Mine, OneControlPerPage
<1> QED  BY <1>1, Invariance, PTL

LEMMA ViewInit ==
  ASSUME Init, NEW p \in Poll
  PROVE  clock = 0 /\ Shown(p) = None /\ floor = 0
BY MountedType DEF Init, Shown

LEMMA ListFollows == Spec => List!Spec
<1>1. Init => List!Init
  BY ViewInit DEF List!Init, Poll
<1>2. IInv /\ [Next]_vars => [List!Next]_(List!view)
  <2>1. ASSUME IInv, [Next]_vars PROVE Step("apps")
    BY <2>1, NextKeeps DEF Poll
  <2> QED  BY <2>1 DEF Step, List!Next, List!Advance, List!Refresh, List!Reopen, List!Show, List!view
<1> QED  BY <1>1, <1>2, Invariance, PTL DEF Spec, List!Spec

LEMMA StatusFollows == Spec => Status!Spec
<1>1. Init => Status!Init
  BY ViewInit DEF Status!Init, Poll
<1>2. IInv /\ [Next]_vars => [Status!Next]_(Status!view)
  <2>1. ASSUME IInv, [Next]_vars PROVE Step("status")
    BY <2>1, NextKeeps DEF Poll
  <2> QED  BY <2>1 DEF Step, Status!Next, Status!Advance, Status!Refresh, Status!Reopen,
                       Status!Show, Status!view
<1> QED  BY <1>1, <1>2, Invariance, PTL DEF Spec, Status!Spec

LEMMA RowFollows == Spec => Row!Spec
<1>1. Init => Row!Init
  BY ViewInit DEF Row!Init, Poll
<1>2. IInv /\ [Next]_vars => [Row!Next]_(Row!view)
  <2>1. ASSUME IInv, [Next]_vars PROVE Step("app")
    BY <2>1, NextKeeps DEF Poll
  <2> QED  BY <2>1 DEF Step, Row!Next, Row!Advance, Row!Refresh, Row!Reopen, Row!Show, Row!view
<1> QED  BY <1>1, <1>2, Invariance, PTL DEF Spec, Row!Spec

\* Every polled view of the monitoring pages implements Follows: nothing that was
\* read before the page last heard of a success of its own appears in it, however
\* late it lands (usePolled, Dashboard.control, AppDetail.control).
THEOREM PagesFollow == Spec => ViewsFollow
BY ListFollows, StatusFollows, RowFollows, PTL DEF ViewsFollow

-----------------------------------------------------------------------------
(***************************************************************************)
(* A tab and its session: the module the proofs are about is the one that  *)
(* is composed.                                                            *)
(***************************************************************************)

LEMMA SameTerms ==
  /\ Tabs!Mutating = Logins!Mutating /\ Tabs!Kind = Logins!Kind
  /\ Tabs!PasswordChangeRoute = Logins!PasswordChangeRoute
  /\ Tabs!Request = Logins!Request /\ Tabs!Status = Logins!Status /\ Tabs!Answer = Logins!Answer
  /\ \A t : Tabs!Screen(t) = Logins!Screen(t)
  /\ \A t, k, who : Tabs!Sent(t, k, who) = Logins!Sent(t, k, who)
  /\ \A r, status, clears : Tabs!Reply(r, status, clears) = Logins!Reply(r, status, clears)
  /\ \A r, s, u, m : Tabs!ReplyMe(r, s, u, m) = Logins!ReplyMe(r, s, u, m)
<1>1. Tabs!Mutating = Logins!Mutating
  BY DEF Tabs!Mutating, Logins!Mutating
<1>2. Tabs!Kind = Logins!Kind /\ Tabs!Status = Logins!Status
      /\ Tabs!PasswordChangeRoute = Logins!PasswordChangeRoute
  BY <1>1 DEF Tabs!Kind, Logins!Kind, Tabs!Status, Logins!Status,
     Tabs!PasswordChangeRoute, Logins!PasswordChangeRoute
<1>3. Tabs!Request = Logins!Request /\ Tabs!Answer = Logins!Answer
  BY <1>2 DEF Tabs!Request, Logins!Request, Tabs!Answer, Logins!Answer
<1>4. \A t : Tabs!Screen(t) = Logins!Screen(t)
  BY DEF Tabs!Screen, Logins!Screen
<1>5. \A t, k, who : Tabs!Sent(t, k, who) = Logins!Sent(t, k, who)
  BY <1>1 DEF Tabs!Sent, Logins!Sent, Tabs!CsrfHeader, Logins!CsrfHeader
<1>6. \A r, status, clears : Tabs!Reply(r, status, clears) = Logins!Reply(r, status, clears)
  BY DEF Tabs!Reply, Logins!Reply
<1>7. \A r, s, u, m : Tabs!ReplyMe(r, s, u, m) = Logins!ReplyMe(r, s, u, m)
  BY DEF Tabs!ReplyMe, Logins!ReplyMe
<1> QED
  BY <1>1, <1>2, <1>3, <1>4, <1>5, <1>6, <1>7

LEMMA SameTests ==
  /\ \A t, k : Tabs!CanSend(t, k) <=> Logins!CanSend(t, k)
  /\ \A t, account : Tabs!At(t, account) <=> Logins!At(t, account)
  /\ \A t : Tabs!PasswordFormShown(t) <=> Logins!PasswordFormShown(t)
  /\ \A r : Tabs!PassesCsrf(r) <=> Logins!PassesCsrf(r)
  /\ \A r : Tabs!Authentic(r) <=> Logins!Authentic(r)
  /\ \A r : Tabs!Admitted(r) <=> Logins!Admitted(r)
  /\ \A a : Tabs!Bounces(a) <=> Logins!Bounces(a)
<1>1. \A t, k : Tabs!CanSend(t, k) <=> Logins!CanSend(t, k)
  BY DEF Tabs!CanSend, Logins!CanSend, Tabs!Cardinality, Logins!Cardinality
<1>2. \A t, account : Tabs!At(t, account) <=> Logins!At(t, account)
  BY SameTerms DEF Tabs!At, Logins!At
<1>3. \A t : Tabs!PasswordFormShown(t) <=> Logins!PasswordFormShown(t)
  BY <1>2, SameTerms DEF Tabs!PasswordFormShown, Logins!PasswordFormShown
<1>4. \A r : Tabs!PassesCsrf(r) <=> Logins!PassesCsrf(r)
  BY SameTerms DEF Tabs!PassesCsrf, Logins!PassesCsrf
<1>5. \A r : Tabs!Authentic(r) <=> Logins!Authentic(r)
  BY DEF Tabs!Authentic, Logins!Authentic
<1>6. \A r : Tabs!Admitted(r) <=> Logins!Admitted(r)
  BY <1>4, <1>5, SameTerms DEF Tabs!Admitted, Logins!Admitted, Tabs!GateAllows, Logins!GateAllows
<1>7. \A a : Tabs!Bounces(a) <=> Logins!Bounces(a)
  BY DEF Tabs!Bounces, Logins!Bounces
<1> QED
  BY <1>1, <1>2, <1>3, <1>4, <1>5, <1>6, <1>7

LEMMA SameParts ==
  /\ Tabs!tabs = Logins!tabs /\ Tabs!tabs' = Logins!tabs'
  /\ Tabs!server = Logins!server /\ Tabs!server' = Logins!server'
  /\ Tabs!bounds = Logins!bounds /\ Tabs!bounds' = Logins!bounds'
  /\ \A t, u, g : Tabs!SetUser(t, u, g) <=> Logins!SetUser(t, u, g)
  /\ \A t : Tabs!FreshLogin(t) <=> Logins!FreshLogin(t)
  /\ \A t, u : Tabs!RemountLogin(t, u) <=> Logins!RemountLogin(t, u)
  /\ \A t, k, who : Tabs!Send(t, k, who) <=> Logins!Send(t, k, who)
  /\ \A r, a : Tabs!Finish(r, a) <=> Logins!Finish(r, a)
  /\ \A a : Tabs!SetCookie(a) <=> Logins!SetCookie(a)
<1>1. /\ Tabs!tabs = Logins!tabs /\ Tabs!tabs' = Logins!tabs'
      /\ Tabs!server = Logins!server /\ Tabs!server' = Logins!server'
      /\ Tabs!bounds = Logins!bounds /\ Tabs!bounds' = Logins!bounds'
  BY DEF Tabs!tabs, Logins!tabs, Tabs!server, Logins!server, Tabs!bounds, Logins!bounds
<1>2. \A t : Tabs!FreshLogin(t) <=> Logins!FreshLogin(t)
  BY DEF Tabs!FreshLogin, Logins!FreshLogin
<1>3. \A t, u : Tabs!RemountLogin(t, u) <=> Logins!RemountLogin(t, u)
  BY <1>2 DEF Tabs!RemountLogin, Logins!RemountLogin
<1>4. \A t, k, who : Tabs!Send(t, k, who) <=> Logins!Send(t, k, who)
  BY <1>1, SameTerms, SameTests DEF Tabs!Send, Logins!Send
<1>5. \A t, u, g : Tabs!SetUser(t, u, g) <=> Logins!SetUser(t, u, g)
  BY DEF Tabs!SetUser, Logins!SetUser
<1>6. \A r, a : Tabs!Finish(r, a) <=> Logins!Finish(r, a)
  BY DEF Tabs!Finish, Logins!Finish
<1>7. \A a : Tabs!SetCookie(a) <=> Logins!SetCookie(a)
  BY DEF Tabs!SetCookie, Logins!SetCookie
<1> QED
  BY <1>1, <1>2, <1>3, <1>4, <1>5, <1>6, <1>7

LEMMA SameOperator == \A t : Tabs!Operator(t) \/ Tabs!Poll(t) => Logins!Operator(t) \/ Logins!Poll(t)
<1> SUFFICES ASSUME NEW t
             PROVE  Tabs!Operator(t) \/ Tabs!Poll(t) => Logins!Operator(t) \/ Logins!Poll(t)
  OBVIOUS
<1>1. Tabs!Reload(t) => Logins!Reload(t)
  BY SameTerms, SameParts DEF Tabs!Reload, Logins!Reload
<1>2. Tabs!Navigate(t) => Logins!Navigate(t)
  BY SameTerms, SameParts DEF Tabs!Navigate, Logins!Navigate
<1>3. /\ Tabs!SignOut(t) => Logins!SignOut(t)
      /\ Tabs!Act(t) => Logins!Act(t)
      /\ Tabs!Poll(t) => Logins!Poll(t)
  BY SameTerms, SameTests, SameParts DEF Tabs!SignOut, Logins!SignOut, Tabs!Act, Logins!Act,
     Tabs!Poll, Logins!Poll
<1>4. /\ Tabs!SubmitPassword(t) => Logins!SubmitPassword(t)
      /\ Tabs!SubmitUsername(t) => Logins!SubmitUsername(t)
  BY SameTests, SameParts DEF Tabs!SubmitPassword, Logins!SubmitPassword,
     Tabs!SubmitUsername, Logins!SubmitUsername
<1>5. \A u : Tabs!SubmitLogin(t, u) => Logins!SubmitLogin(t, u)
  BY SameTerms, SameParts DEF Tabs!SubmitLogin, Logins!SubmitLogin
<1> QED
  BY <1>1, <1>2, <1>3, <1>4, <1>5 DEF Tabs!Operator, Logins!Operator

LEMMA SameServe == \A r : Tabs!Serve(r) => Logins!Serve(r)
<1> SUFFICES ASSUME NEW r PROVE Tabs!Serve(r) => Logins!Serve(r)
  OBVIOUS
<1> USE SameTerms, SameTests, SameParts
<1>1. Tabs!Refuse(r) => Logins!Refuse(r)
  BY DEF Tabs!Refuse, Logins!Refuse
<1>2. Tabs!ServeMe(r) => Logins!ServeMe(r)
  BY DEF Tabs!ServeMe, Logins!ServeMe
<1>3. Tabs!ServePage(r) => Logins!ServePage(r)
  BY DEF Tabs!ServePage, Logins!ServePage
<1>4. Tabs!ServeLogout(r) => Logins!ServeLogout(r)
  BY DEF Tabs!ServeLogout, Logins!ServeLogout
<1>5. Tabs!ServePassword(r) => Logins!ServePassword(r)
  BY DEF Tabs!ServePassword, Logins!ServePassword
<1>6. Tabs!RefuseLogin(r) => Logins!RefuseLogin(r)
  BY DEF Tabs!RefuseLogin, Logins!RefuseLogin
<1>7. Tabs!ReadAccount(r) => Logins!ReadAccount(r)
  BY DEF Tabs!ReadAccount, Logins!ReadAccount
<1>8. \A s : Tabs!OpenSession(r, s) => Logins!OpenSession(r, s)
  BY DEF Tabs!OpenSession, Logins!OpenSession
<1> QED
  BY <1>1, <1>2, <1>3, <1>4, <1>5, <1>6, <1>7, <1>8 DEF Tabs!Serve, Logins!Serve

LEMMA SameReceive == \A a : Tabs!Receive(a) => Logins!Receive(a)
<1> SUFFICES ASSUME NEW a PROVE Tabs!Receive(a) => Logins!Receive(a)
  OBVIOUS
<1> USE SameTerms, SameTests, SameParts
<1>1. Tabs!LoginAnswered(a) => Logins!LoginAnswered(a)
  BY DEF Tabs!LoginAnswered, Logins!LoginAnswered
<1>2. Tabs!MeAnswered(a) => Logins!MeAnswered(a)
  BY DEF Tabs!MeAnswered, Logins!MeAnswered
<1>3. Tabs!LogoutAnswered(a) => Logins!LogoutAnswered(a)
  BY DEF Tabs!LogoutAnswered, Logins!LogoutAnswered
<1>4. Tabs!CallAnswered(a) => Logins!CallAnswered(a)
  BY DEF Tabs!CallAnswered, Logins!CallAnswered
<1> QED
  BY <1>1, <1>2, <1>3, <1>4 DEF Tabs!Receive, Logins!Receive

LEMMA SameTabsInit == Tabs!Init => Logins!Init
  BY SameTerms DEF Tabs!Init, Logins!Init

LEMMA SameTabsNext == Tabs!Next => Logins!Next
<1>1. /\ \A s : Tabs!Expire(s) => Logins!Expire(s)
      /\ \A u : Tabs!ResetPassword(u) => Logins!ResetPassword(u)
  BY SameParts DEF Tabs!Expire, Logins!Expire, Tabs!ResetPassword, Logins!ResetPassword
<1>2. Tabs!Lose => Logins!Lose
  BY SameTerms, SameParts DEF Tabs!Lose, Logins!Lose
<1> QED
  BY <1>1, <1>2, SameOperator, SameServe, SameReceive DEF Tabs!Next, Logins!Next

LEMMA SameTabsType == Logins!TypeOK => Tabs!TypeOK
  BY SameTerms DEF Logins!TypeOK, Tabs!TypeOK

LEMMA TabsInit == ASSUME Tabs!Init PROVE Logins!IInv
  BY TabsAssumption, SameTabsInit, Logins!InitInv

LEMMA TabsStep == ASSUME Logins!IInv, [Tabs!Next]_(Tabs!vars) PROVE Logins!IInv'
<1>1. [Logins!Next]_Logins!vars
  BY SameTabsNext, SameParts DEF Tabs!vars, Logins!vars
<1> QED
  BY <1>1, TabsAssumption, Logins!StepKeeps

LEMMA TabsTyped == ASSUME Logins!IInv PROVE Tabs!TypeOK
  BY SameTabsType, TabsAssumption, Logins!InvTypeOK

-----------------------------------------------------------------------------
(***************************************************************************)
(* The forms.                                                              *)
(***************************************************************************)

Fields == Content \cup {Blank}

\* Whatever names a revision names one that is stored, and a stored one never
\* changes; ProfileForm believes to have loaded what its poll shows.
FormInv ==
  /\ kind \in {"profile", "settings"}
  /\ revs \in Seq(Fields) /\ Len(revs) \in 1..MaxRevs /\ active \in 1..Len(revs)
  /\ source \in Polls(1..Len(revs))
  /\ listing \in [last : 1..Len(revs), active : 1..Len(revs)] \cup {None}
  /\ loaded \in 1..Len(revs) \cup {None}
  /\ draft \in Fields /\ edited \in BOOLEAN
  /\ saving \in Drafts!Call \cup {None} /\ edits \in 0..MaxEdits
  /\ kind = "profile" => loaded = source.data
  /\ ~edited => draft = IF source.data = None THEN Blank ELSE revs[source.data]

LEMMA FormInit ==
  ASSUME Drafts!Init
  PROVE  FormInv
<1>1. PICK c \in Content : revs = <<c>>
  BY DEF Drafts!Init
<1>2. revs \in Seq(Fields) /\ Len(revs) = 1
  BY <1>1 DEF Fields
<1>3. Drafts!Mounted \in Polls(1..1) /\ Drafts!Mounted.data = None
  BY DEF Drafts!Mounted, Polls
<1>4. /\ source \in Polls(1..Len(revs)) /\ source.data = None /\ loaded = None
      /\ draft = Blank /\ edited = FALSE /\ listing = None /\ saving = None
  BY <1>2, <1>3 DEF Drafts!Init
<1>5. Len(revs) \in 1..MaxRevs /\ active \in 1..Len(revs) /\ edits \in 0..MaxEdits
  BY <1>2, FormsAssumption DEF Drafts!Init
<1>6. kind \in {"profile", "settings"} /\ draft \in Fields
  BY <1>4 DEF Drafts!Init, Fields
<1> QED
  BY <1>2, <1>4, <1>5, <1>6 DEF FormInv

\* More revisions keep what there is to say of the old ones.
LEMMA MoreRevisions ==
  ASSUME FormInv, NEW c \in Fields, Drafts!Write(c),
         UNCHANGED <<kind, source, listing, loaded, draft, edited>>,
         saving' \in Drafts!Call \cup {None}, edits' \in 0..MaxEdits
  PROVE  FormInv'
<1>1. /\ revs \in Seq(Fields) /\ Len(revs) \in Nat /\ Len(revs) < MaxRevs
      /\ revs' = Append(revs, c) /\ active' = Len(revs) + 1
  BY FormsAssumption DEF FormInv, Drafts!Write
<1>2. revs' \in Seq(Fields) /\ Len(revs') = Len(revs) + 1 /\ \A i \in 1..Len(revs) : revs'[i] = revs[i]
  BY <1>1
<1>3. 1..Len(revs) \subseteq 1..Len(revs')
  BY <1>1, <1>2
<1>4. source \in Polls(1..Len(revs')) /\ source.data \in 1..Len(revs) \cup {None}
  BY <1>1, <1>3 DEF FormInv, Polls
<1>5. listing \in [last : 1..Len(revs'), active : 1..Len(revs')] \cup {None}
  BY <1>3 DEF FormInv
<1>6. loaded \in 1..Len(revs') \cup {None}
  BY <1>3 DEF FormInv
<1>7. Len(revs') \in 1..MaxRevs /\ active' \in 1..Len(revs')
  BY <1>1, <1>2, FormsAssumption
<1> QED
  BY <1>2, <1>4, <1>5, <1>6, <1>7 DEF FormInv

\* The fields take the revision that is shown, or what they held.
LEMMA FieldsSet ==
  ASSUME FormInv, NEW v \in 1..Len(revs)
  PROVE  revs[v] \in Fields
  BY DEF FormInv

LEMMA FormLands ==
  ASSUME FormInv, Drafts!Land
  PROVE  FormInv'
<1>1. PICK v \in source.flight :
        /\ source' = Drafts!Landed(source, v)
        /\ IF kind = "profile" THEN Drafts!LoadProfile(source'.data, loaded)
           ELSE Drafts!LoadSettings(v)
  BY DEF Drafts!Land
<1>2. UNCHANGED <<kind, revs, active, listing, saving, edits>>
  BY DEF Drafts!Land, Drafts!stored
<1>3. Len(revs) \in Nat /\ source \in Polls(1..Len(revs))
  BY DEF FormInv
<1>4. /\ source' \in Polls(1..Len(revs)) /\ v \in 1..Len(revs) \cup {Failed}
      /\ source'.data = IF v = Failed THEN source.data ELSE v
      /\ source.data \in 1..Len(revs) \cup {None} /\ source'.data \in 1..Len(revs) \cup {None}
  BY <1>1, <1>3 DEF Polls, Drafts!Landed
<1>5. \A i \in 1..Len(revs) : i # None /\ i # Failed
  BY <1>3, FormsAssumption
<1>6. CASE kind = "profile"
  <2>1. CASE source'.data # None /\ source'.data # loaded
    <3>1. /\ draft' = revs[source'.data] /\ edited' = FALSE /\ loaded' = source'.data
      BY <1>1, <1>6, <2>1 DEF Drafts!LoadProfile, Drafts!SetFields
    <3>2. draft' \in Fields
      BY <1>4, <2>1, <3>1, FieldsSet
    <3> QED
      BY <1>2, <1>4, <2>1, <3>1, <3>2 DEF FormInv
  <2>2. CASE ~(source'.data # None /\ source'.data # loaded)
    <3>1. UNCHANGED <<draft, edited, loaded>>
      BY <1>1, <1>6, <2>2 DEF Drafts!LoadProfile
    <3>2. loaded = source.data /\ source'.data = loaded
      BY <1>4, <1>5, <1>6, <2>2 DEF FormInv
    <3> QED
      BY <1>2, <1>4, <3>1, <3>2 DEF FormInv
  <2> QED
    BY <2>1, <2>2
<1>7. CASE kind # "profile"
  <2>1. CASE v = Failed
    <3>1. UNCHANGED <<draft, edited, loaded>> /\ source'.data = source.data
      BY <1>1, <1>4, <1>7, <2>1 DEF Drafts!LoadSettings
    <3> QED
      BY <1>2, <1>4, <1>7, <3>1 DEF FormInv
  <2>2. CASE v # Failed
    <3>1. draft' = revs[v] /\ edited' = FALSE /\ loaded' = loaded /\ source'.data = v
      BY <1>1, <1>4, <1>7, <2>2 DEF Drafts!LoadSettings, Drafts!SetFields
    <3>2. v # None /\ v \in 1..Len(revs) /\ draft' \in Fields
      BY <1>4, <1>5, <2>2, <3>1, FieldsSet
    <3> QED
      BY <1>2, <1>4, <1>7, <3>1, <3>2 DEF FormInv
  <2> QED
    BY <2>1, <2>2
<1> QED
  BY <1>6, <1>7

LEMMA FormHears ==
  ASSUME FormInv, Drafts!Hear
  PROVE  FormInv'
<1>1. UNCHANGED <<kind, revs, active, listing, edits>> /\ saving' = None
  BY DEF Drafts!Hear, Drafts!stored
<1>2. Len(revs) \in Nat /\ source \in Polls(1..Len(revs))
  BY DEF FormInv
<1>3. CASE saving.done = "ok"
  <2>1. source' = Drafts!Refreshed(source)
    BY <1>3 DEF Drafts!Hear
  <2>2. /\ source' \in Polls(1..Len(revs)) /\ source'.data = source.data
        /\ source.data \in 1..Len(revs) \cup {None}
    BY <1>2, <2>1 DEF Polls, Drafts!Refreshed
  <2>3. CASE kind = "profile" /\ source.data # None
    <3>1. draft' = revs[source.data] /\ edited' = FALSE /\ loaded' = source.data
      BY <1>3, <2>3 DEF Drafts!Hear, Drafts!LoadProfile, Drafts!SetFields
    <3>2. draft' \in Fields
      BY <2>2, <2>3, <3>1, FieldsSet
    <3> QED
      BY <1>1, <2>2, <2>3, <3>1, <3>2 DEF FormInv
  <2>4. CASE kind = "profile" /\ source.data = None
    <3>1. UNCHANGED <<draft, edited>> /\ loaded' = None
      BY <1>3, <2>4 DEF Drafts!Hear, Drafts!LoadProfile
    <3> QED
      BY <1>1, <2>2, <2>4, <3>1 DEF FormInv
  <2>5. CASE kind # "profile"
    <3>1. UNCHANGED <<draft, edited, loaded>>
      BY <1>3, <2>5 DEF Drafts!Hear, Drafts!fields
    <3> QED
      BY <1>1, <2>2, <2>5, <3>1 DEF FormInv
  <2> QED
    BY <2>3, <2>4, <2>5
<1>4. CASE saving.done # "ok"
  <2>1. UNCHANGED <<source, draft, edited, loaded>>
    BY <1>4 DEF Drafts!Hear, Drafts!fields
  <2> QED
    BY <1>1, <2>1 DEF FormInv
<1> QED
  BY <1>3, <1>4

\* The call of the form moves on, and nothing else does.
LEMMA CallMoves ==
  ASSUME FormInv, UNCHANGED <<kind, revs, active, source, listing, loaded, draft, edited>>,
         saving' \in Drafts!Call \cup {None}, edits' \in 0..MaxEdits
  PROVE  FormInv'
  BY DEF FormInv

LEMMA DoneType ==
  ASSUME FormInv, saving # None, NEW how \in {"sent", "ok", "failed"}, Drafts!Done(how)
  PROVE  saving' \in Drafts!Call
<1>1. saving \in Drafts!Call
  BY DEF FormInv
<1> QED
  BY <1>1 DEF Drafts!Done, Drafts!Call

LEMMA FormServes ==
  ASSUME FormInv, Drafts!Serve
  PROVE  FormInv'
<1>1. /\ saving # None /\ saving \in Drafts!Call
      /\ UNCHANGED <<kind, source, listing, loaded, draft, edited, edits>>
      /\ IF saving.op = "save" THEN Drafts!Write(saving.content) ELSE Drafts!Activate(saving.rev)
  BY DEF FormInv, Drafts!Serve, Drafts!fields
<1>2. saving' \in Drafts!Call /\ edits' \in 0..MaxEdits
  BY <1>1, DoneType DEF FormInv, Drafts!Serve
<1>3. saving.content \in Fields
  BY <1>1 DEF Drafts!Call, Fields
<1>4. CASE saving.op = "save"
  BY <1>1, <1>2, <1>3, <1>4, MoreRevisions
<1>5. CASE saving.op # "save"
  <2>1. UNCHANGED revs /\ active' \in 1..Len(revs)
    BY <1>1, <1>5 DEF Drafts!Activate
  <2> QED
    BY <1>1, <1>2, <2>1 DEF FormInv
<1> QED
  BY <1>4, <1>5

LEMMA FormStep ==
  ASSUME FormInv, [Drafts!Next]_(Drafts!vars)
  PROVE  FormInv'
<1> USE DEF Drafts!stored, Drafts!fields
<1>1. CASE UNCHANGED Drafts!vars
  BY <1>1 DEF Drafts!vars, FormInv
<1>2. CASE Drafts!Ask
  <2>1. source' = Drafts!Asked(source, active)
        /\ UNCHANGED <<kind, revs, active, listing, loaded, draft, edited, saving, edits>>
    BY <1>2 DEF Drafts!Ask
  <2>2. Len(revs) \in Nat /\ source \in Polls(1..Len(revs)) /\ active \in 1..Len(revs)
    BY DEF FormInv
  <2>3. source' \in Polls(1..Len(revs)) /\ source'.data = source.data
    BY <2>1, <2>2 DEF Polls, Drafts!Asked
  <2> QED
    BY <2>1, <2>3 DEF FormInv
<1>3. CASE Drafts!List
  <2>1. /\ listing' = [last |-> Len(revs), active |-> active]
        /\ UNCHANGED <<kind, revs, active, source, loaded, draft, edited, saving, edits>>
    BY <1>3 DEF Drafts!List
  <2>2. listing' \in [last : 1..Len(revs), active : 1..Len(revs)]
    BY <2>1 DEF FormInv
  <2> QED
    BY <2>1, <2>2 DEF FormInv
<1>4. ASSUME NEW c \in Content, Drafts!Edit(c)
      PROVE  FormInv'
  <2>1. edits' \in 0..MaxEdits /\ c \in Fields
    BY <1>4, FormsAssumption DEF FormInv, Drafts!Edit, Fields
  <2> QED
    BY <1>4, <2>1 DEF Drafts!Edit, FormInv
<1>5. CASE Drafts!Reset
  <2>1. /\ kind = "profile" /\ loaded = source.data /\ edited' = FALSE
        /\ draft' = IF source.data = None THEN Blank ELSE revs[source.data]
        /\ UNCHANGED <<kind, revs, active, source, listing, loaded, saving, edits>>
    BY <1>5 DEF Drafts!Reset, Drafts!SetFields, FormInv
  <2>2. draft' \in Fields
    BY <2>1, FieldsSet DEF FormInv, Fields
  <2> QED
    BY <2>1, <2>2 DEF FormInv
<1>6. CASE Drafts!Save
  <2>1. saving' \in Drafts!Call
    BY <1>6 DEF Drafts!Save, Drafts!Call, FormInv, Fields
  <2> QED
    BY <1>6, <2>1, CallMoves DEF Drafts!Save, FormInv
<1>7. ASSUME NEW rev \in 1..MaxRevs, Drafts!Rollback(rev)
      PROVE  FormInv'
  <2>1. saving' \in Drafts!Call /\ edits' \in 0..MaxEdits
    BY <1>7, FormsAssumption DEF Drafts!Rollback, Drafts!Call, FormInv
  <2> QED
    BY <1>7, <2>1, CallMoves DEF Drafts!Rollback
<1>8. CASE Drafts!Fail
  <2>1. saving' \in Drafts!Call
    BY <1>8, DoneType DEF Drafts!Fail
  <2> QED
    BY <1>8, <2>1, CallMoves DEF Drafts!Fail, FormInv
<1>9. CASE Drafts!Other
  <2>1. PICK c \in Content : Drafts!Write(c)
    BY <1>9 DEF Drafts!Other
  <2> QED
    BY <1>9, <2>1, MoreRevisions DEF Drafts!Other, FormInv, Fields
<1> QED
  BY <1>1, <1>2, <1>3, <1>4, <1>5, <1>6, <1>7, <1>8, <1>9, FormLands, FormHears, FormServes
     DEF Drafts!Next

LEMMA FormGoals ==
  ASSUME FormInv
  PROVE  Drafts!TypeOK /\ Drafts!ShowsARevision
<1>1. 1..Len(revs) \subseteq 1..MaxRevs /\ Len(revs) \in Nat
  BY FormsAssumption DEF FormInv
<1>2. source \in Drafts!Polls(1..MaxRevs)
  BY <1>1 DEF FormInv, Polls, Drafts!Polls
<1>3. listing \in [last : 1..MaxRevs, active : 1..MaxRevs] \cup {None} /\ loaded \in 1..MaxRevs \cup {None}
  BY <1>1 DEF FormInv
<1>4. \A i \in 1..Len(revs) : revs[i] \in Content \cup {Blank}
  BY DEF FormInv, Fields
<1> QED
  BY <1>1, <1>2, <1>3, <1>4 DEF FormInv, Fields, Drafts!TypeOK, Drafts!ShowsARevision

-----------------------------------------------------------------------------
(***************************************************************************)
(* The log panel.                                                          *)
(***************************************************************************)

Ordered(s) ==
  \A i, j \in 1..Len(s) : i < j => s[i].app = s[j].app /\ Panel!Before(s[i], s[j])

\* Every line of s was written before every line of t, by the same application.
Precedes(s, t) ==
  \A i \in 1..Len(s), j \in 1..Len(t) : s[i].app = t[j].app /\ Panel!Before(s[i], t[j])

\* The lines of s are lines of application a that stand in its files, and no
\* later than line k of launch n.
Within(s, a, n, k) ==
  \A i \in 1..Len(s) : /\ s[i].app = a
                       /\ s[i].launch < n \/ (s[i].launch = n /\ s[i].no <= k)

\* s holds the lines of launch n of application a that come after line from.
After(s, a, n, from) ==
  \A i \in 1..Len(s) : s[i].app = a /\ s[i].launch = n /\ s[i].no = from + i

PanelTypes ==
  /\ launch \in [App -> 0..MaxLaunches]
  /\ written \in [App -> [1..MaxLaunches -> 0..MaxLines]]
  /\ appName \in App /\ phase \in {"tail", "open", "stream", "failed"}
  /\ lines \in Seq(Panel!Line) /\ (Len(lines) <= Kept \/ Len(lines) <= Wanted)
  /\ paused \in BOOLEAN /\ moves \in 0..MaxMoves

\* The last lines of the page's application, as they stood in its file.
TailInv ==
  tail # None =>
    /\ phase = "tail" /\ launch[appName] > 0
    /\ tail \in Seq(Panel!Line) /\ Len(tail) <= Wanted
    /\ Ordered(tail) /\ Within(tail, appName, launch[appName], Panel!Now(appName))

\* The stream has read on from where the lines end; what it read is on its way, in
\* the order in which it was read.
StreamInv ==
  /\ stream \in [app : {appName}, launch : 1..launch[appName], offset : 0..MaxLines]
  /\ stream.offset <= written[appName][stream.launch]
  /\ chunks \in Seq(Seq(Panel!Line))
  /\ Within(lines, appName, stream.launch, stream.offset)
  /\ \A i \in 1..Len(chunks) :
       /\ Ordered(chunks[i]) /\ Precedes(lines, chunks[i])
       /\ Within(chunks[i], appName, stream.launch, stream.offset)
       /\ \A j \in 1..(i - 1) : Precedes(chunks[j], chunks[i])

PanelInv ==
  /\ PanelTypes /\ Ordered(lines) /\ TailInv
  /\ phase = "open" =>
       launch[appName] > 0 /\ Within(lines, appName, launch[appName], Panel!Now(appName))
  /\ phase = "stream" => StreamInv
  /\ phase # "stream" => stream = None /\ chunks = <<>>

\* Lines from to to, as a sequence.
LEMMA LinesAre ==
  ASSUME NEW a \in App, NEW n \in 1..MaxLaunches, NEW from \in Nat, NEW to \in 0..MaxLines,
         from <= to
  PROVE  LET s == Panel!Lines(a, n, from, to)
         IN /\ s \in Seq(Panel!Line) /\ Len(s) = to - from
            /\ After(s, a, n, from)
<1> DEFINE len == to - from
           e(i) == [app |-> a, launch |-> n, no |-> from + i]
           s == [i \in 1..len |-> e(i)]
<1>1. len \in Nat /\ MaxLines \in Nat
  BY LogsAssumption
<1>2. \A i \in 1..len : e(i) \in Panel!Line
  BY <1>1 DEF Panel!Line
<1>3. \A i \in 1..len : e(i).app = a /\ e(i).launch = n /\ e(i).no = from + i
  OBVIOUS
<1> HIDE DEF e, len
<1>4. s \in [1..len -> Panel!Line]
  BY <1>2
<1>5. s \in Seq(Panel!Line)
  BY <1>1, <1>4, SeqDef
<1>6. Len(s) = len
  BY <1>1
<1>7. \A i \in 1..Len(s) : s[i] = e(i)
  BY <1>6
<1>8. Panel!Lines(a, n, from, to) = s
  BY DEF Panel!Lines, e, len
<1> HIDE DEF s
<1>9. After(s, a, n, from)
  BY <1>3, <1>6, <1>7 DEF After
<1> QED
  BY <1>5, <1>6, <1>8, <1>9 DEF len

\* The last lines of a sequence are some of it, in the same order.
LEMMA LastAre ==
  ASSUME NEW s \in Seq(Panel!Line), NEW n \in Nat
  PROVE  LET t == Panel!Last(s, n)
         IN /\ t \in Seq(Panel!Line) /\ Len(t) <= n
            /\ \E k \in Nat : Len(t) + k = Len(s) /\ \A i \in 1..Len(t) : t[i] = s[i + k]
<1> DEFINE k == IF Len(s) > n THEN Len(s) - n ELSE 0
           t == SubSeq(s, k + 1, Len(s))
<1>1. Len(s) \in Nat /\ k \in Nat /\ k <= Len(s) /\ Len(s) - k <= n
  OBVIOUS
<1>2. Panel!Last(s, n) = t
  BY <1>1 DEF Panel!Last
<1>3. \A i \in (k + 1)..Len(s) : s[i] \in Panel!Line
  BY <1>1, ElementOfSeq
<1> HIDE DEF k
<1>4. /\ t \in Seq(Panel!Line)
      /\ Len(t) = IF k + 1 <= Len(s) THEN Len(s) - (k + 1) + 1 ELSE 0
      /\ \A i \in 1..(Len(s) - (k + 1) + 1) : t[i] = s[k + 1 + i - 1]
  BY <1>1, <1>3, SubSeqProperties
<1> HIDE DEF t
<1>5. Len(t) = Len(s) - k
  BY <1>1, <1>4
<1>6. \A i \in 1..Len(t) : t[i] = s[i + k]
  BY <1>1, <1>4, <1>5
<1>7. Len(t) + k = Len(s) /\ Len(t) <= n
  BY <1>1, <1>5
<1> QED
  BY <1>1, <1>2, <1>4, <1>6, <1>7

LEMMA LastKeeps ==
  ASSUME NEW s \in Seq(Panel!Line), NEW n \in Nat, Ordered(s)
  PROVE  LET t == Panel!Last(s, n)
         IN /\ Ordered(t)
            /\ \A a, m, k : Within(s, a, m, k) => Within(t, a, m, k)
            /\ \A u : Precedes(s, u) => Precedes(t, u)
<1> DEFINE t == Panel!Last(s, n)
<1>1. t \in Seq(Panel!Line)
  BY LastAre
<1>2. PICK k \in Nat : Len(t) + k = Len(s) /\ \A i \in 1..Len(t) : t[i] = s[i + k]
  BY LastAre
<1> HIDE DEF t
<1>3. \A i \in 1..Len(t) : i + k \in 1..Len(s) /\ t[i] = s[i + k]
  BY <1>1, <1>2
<1>4. Ordered(t)
  <2> SUFFICES ASSUME NEW i \in 1..Len(t), NEW j \in 1..Len(t), i < j
               PROVE  t[i].app = t[j].app /\ Panel!Before(t[i], t[j])
    BY DEF Ordered
  <2>1. i + k \in 1..Len(s) /\ j + k \in 1..Len(s) /\ i + k < j + k
    BY <1>2, <1>3
  <2>2. s[i + k].app = s[j + k].app /\ Panel!Before(s[i + k], s[j + k])
    BY <2>1 DEF Ordered
  <2> QED
    BY <1>3, <2>2
<1>5. ASSUME NEW a, NEW m, NEW c, Within(s, a, m, c) PROVE Within(t, a, m, c)
  BY <1>3, <1>5 DEF Within
<1>6. ASSUME NEW u, Precedes(s, u) PROVE Precedes(t, u)
  <2> SUFFICES ASSUME NEW i \in 1..Len(t), NEW j \in 1..Len(u)
               PROVE  t[i].app = u[j].app /\ Panel!Before(t[i], u[j])
    BY DEF Precedes
  <2>1. s[i + k].app = u[j].app /\ Panel!Before(s[i + k], u[j])
    BY <1>3, <1>6 DEF Precedes
  <2> QED
    BY <1>3, <2>1
<1> QED
  BY <1>4, <1>5, <1>6 DEF t

\* Lines that follow a sequence in order may be added to it.
LEMMA ConcatKeeps ==
  ASSUME NEW s \in Seq(Panel!Line), NEW t \in Seq(Panel!Line), Ordered(s), Ordered(t), Precedes(s, t)
  PROVE  /\ Ordered(s \o t)
         /\ \A a, m, k : Within(s, a, m, k) /\ Within(t, a, m, k) => Within(s \o t, a, m, k)
         /\ \A u : Precedes(s, u) /\ Precedes(t, u) => Precedes(s \o t, u)
<1>1. /\ Len(s) \in Nat /\ Len(t) \in Nat /\ Len(s \o t) = Len(s) + Len(t)
      /\ \A i \in 1..(Len(s) + Len(t)) : (s \o t)[i] = IF i <= Len(s) THEN s[i] ELSE t[i - Len(s)]
  BY ConcatProperties
<1>2. \A i \in 1..Len(s \o t) :
        \/ i \in 1..Len(s) /\ (s \o t)[i] = s[i]
        \/ i - Len(s) \in 1..Len(t) /\ i > Len(s) /\ (s \o t)[i] = t[i - Len(s)]
  BY <1>1
<1>3. Ordered(s \o t)
  <2> SUFFICES ASSUME NEW i \in 1..Len(s \o t), NEW j \in 1..Len(s \o t), i < j
               PROVE  (s \o t)[i].app = (s \o t)[j].app /\ Panel!Before((s \o t)[i], (s \o t)[j])
    BY DEF Ordered
  <2>1. CASE i \in 1..Len(s) /\ j \in 1..Len(s) /\ (s \o t)[i] = s[i] /\ (s \o t)[j] = s[j]
    BY <2>1 DEF Ordered
  <2>2. CASE /\ i \in 1..Len(s) /\ (s \o t)[i] = s[i]
             /\ j - Len(s) \in 1..Len(t) /\ (s \o t)[j] = t[j - Len(s)]
    BY <2>2 DEF Precedes
  <2>3. CASE /\ i - Len(s) \in 1..Len(t) /\ (s \o t)[i] = t[i - Len(s)]
             /\ j - Len(s) \in 1..Len(t) /\ (s \o t)[j] = t[j - Len(s)]
    <3>1. i - Len(s) < j - Len(s)
      BY <1>1
    <3> QED
      BY <2>3, <3>1 DEF Ordered
  <2> QED
    BY <1>1, <1>2, <2>1, <2>2, <2>3
<1>4. ASSUME NEW a, NEW m, NEW k, Within(s, a, m, k), Within(t, a, m, k) PROVE Within(s \o t, a, m, k)
  BY <1>2, <1>4 DEF Within
<1>5. ASSUME NEW u, Precedes(s, u), Precedes(t, u) PROVE Precedes(s \o t, u)
  <2> SUFFICES ASSUME NEW i \in 1..Len(s \o t), NEW j \in 1..Len(u)
               PROVE  (s \o t)[i].app = u[j].app /\ Panel!Before((s \o t)[i], u[j])
    BY DEF Precedes
  <2>1. CASE i \in 1..Len(s) /\ (s \o t)[i] = s[i]
    <3>1. s[i].app = u[j].app /\ Panel!Before(s[i], u[j])
      BY <1>5, <2>1 DEF Precedes
    <3> QED
      BY <2>1, <3>1
  <2>2. CASE i - Len(s) \in 1..Len(t) /\ (s \o t)[i] = t[i - Len(s)]
    <3>1. t[i - Len(s)].app = u[j].app /\ Panel!Before(t[i - Len(s)], u[j])
      BY <1>5, <2>2 DEF Precedes
    <3> QED
      BY <2>2, <3>1
  <2> QED
    BY <1>2, <2>1, <2>2
<1> QED
  BY <1>3, <1>4, <1>5

LEMMA LineNumbers == ASSUME NEW l \in Panel!Line PROVE l.launch \in Nat /\ l.no \in Nat
<1>1. l.launch \in 1..MaxLaunches /\ l.no \in 1..MaxLines
  BY DEF Panel!Line
<1> QED
  BY <1>1, LogsAssumption

\* What was within reach stays so when the files grow.
LEMMA WithinGrows ==
  ASSUME NEW s \in Seq(Panel!Line), NEW a, NEW n \in Nat, NEW k \in Nat, NEW m \in Nat, NEW l \in Nat,
         n < m \/ (n = m /\ k <= l), Within(s, a, n, k)
  PROVE  Within(s, a, m, l)
<1>1. ASSUME NEW i \in 1..Len(s)
      PROVE  s[i].launch \in Nat /\ s[i].no \in Nat
  <2>1. s[i] \in Panel!Line
    BY ElementOfSeq
  <2> QED
    BY <2>1, LineNumbers
<1> QED
  BY <1>1 DEF Within

\* Lines that come after what is within reach.
LEMMA WithinPrecedes ==
  ASSUME NEW s \in Seq(Panel!Line), NEW t \in Seq(Panel!Line), NEW a, NEW n \in Nat, NEW k \in Nat,
         Within(s, a, n, k), After(t, a, n, k)
  PROVE  Precedes(s, t)
<1>1. ASSUME NEW i \in 1..Len(s)
      PROVE  s[i].launch \in Nat /\ s[i].no \in Nat
  <2>1. s[i] \in Panel!Line
    BY ElementOfSeq
  <2> QED
    BY <2>1, LineNumbers
<1> SUFFICES ASSUME NEW i \in 1..Len(s), NEW j \in 1..Len(t)
             PROVE  s[i].app = t[j].app /\ Panel!Before(s[i], t[j])
  BY DEF Precedes
<1>2. s[i].app = a /\ (s[i].launch < n \/ (s[i].launch = n /\ s[i].no <= k))
  BY DEF Within
<1> QED
  BY <1>1, <1>2 DEF After, Panel!Before

LEMMA LinesKeep ==
  ASSUME NEW a \in App, NEW n \in 1..MaxLaunches, NEW from \in Nat, NEW to \in 0..MaxLines,
         from <= to
  PROVE  LET s == Panel!Lines(a, n, from, to)
         IN Ordered(s) /\ Within(s, a, n, to)
<1> DEFINE s == Panel!Lines(a, n, from, to)
<1>1. to - from \in Nat /\ to \in Nat
  BY LogsAssumption
<1>2. Len(s) = to - from /\ After(s, a, n, from)
  BY LinesAre
<1> HIDE DEF s
<1>3. Ordered(s)
  <2> SUFFICES ASSUME NEW i \in 1..Len(s), NEW j \in 1..Len(s), i < j
               PROVE  s[i].app = s[j].app /\ Panel!Before(s[i], s[j])
    BY DEF Ordered
  <2>1. i \in Nat /\ j \in Nat
    BY <1>1, <1>2
  <2> QED
    BY <1>2, <2>1 DEF After, Panel!Before
<1>4. Within(s, a, n, to)
  BY <1>1, <1>2 DEF After, Within
<1> QED
  BY <1>3, <1>4 DEF s

LEMMA PanelStart ==
  ASSUME Panel!Init
  PROVE  PanelInv
<1>1. lines = <<>> /\ lines \in Seq(Panel!Line) /\ Len(lines) = 0
  BY DEF Panel!Init
<1>2. PanelTypes
  <2>1. 0 \in 0..MaxLaunches /\ 0 \in 0..MaxLines /\ 0 \in 0..MaxMoves
    BY LogsAssumption
  <2>2. /\ launch \in [App -> 0..MaxLaunches]
        /\ written \in [App -> [1..MaxLaunches -> 0..MaxLines]]
    BY <2>1 DEF Panel!Init
  <2>3. Len(lines) <= Kept
    BY <1>1, LogsAssumption
  <2> QED
    BY <1>1, <2>1, <2>2, <2>3 DEF Panel!Init, PanelTypes
<1> QED
  BY <1>1, <1>2 DEF Panel!Init, PanelInv, Ordered, TailInv

\* The number of lines in a launch's file.
LEMMA FileLength ==
  ASSUME PanelTypes, NEW a \in App, NEW n \in 1..launch[a]
  PROVE  /\ n \in 1..MaxLaunches /\ written[a][n] \in 0..MaxLines /\ written[a][n] \in Nat
         /\ launch[a] \in Nat
<1>1. launch[a] \in 0..MaxLaunches /\ MaxLaunches \in Nat /\ MaxLines \in Nat
  BY LogsAssumption DEF PanelTypes
<1> QED
  BY <1>1 DEF PanelTypes

\* Applications are launched and write, and the panel is paused.
LEMMA FilesGrow ==
  ASSUME PanelInv, UNCHANGED <<appName, phase, tail, stream, chunks, lines, moves>>,
         paused' \in BOOLEAN,
         launch' \in [App -> 0..MaxLaunches],
         written' \in [App -> [1..MaxLaunches -> 0..MaxLines]],
         \A a \in App : launch[a] <= launch'[a],
         \A a \in App, n \in 1..MaxLaunches : written[a][n] <= written'[a][n]
  PROVE  PanelInv'
<1>1. PanelTypes /\ PanelTypes'
  BY DEF PanelInv, PanelTypes
<1>2. appName \in App /\ launch[appName] \in Nat /\ launch'[appName] \in Nat
      /\ launch[appName] <= launch'[appName] /\ lines \in Seq(Panel!Line)
  BY <1>1, LogsAssumption DEF PanelTypes
<1>3. ASSUME NEW s \in Seq(Panel!Line), launch[appName] > 0,
             Within(s, appName, launch[appName], Panel!Now(appName))
      PROVE  Within(s, appName, launch'[appName], Panel!Now(appName)')
  <2> DEFINE n == launch[appName]
             m == launch'[appName]
  <2>1. n \in 1..launch[appName] /\ m \in 1..launch'[appName]
    BY <1>2, <1>3
  <2>2. written[appName][n] \in Nat /\ written'[appName][m] \in Nat
    <3>1. m \in 1..MaxLaunches
      BY <1>2, <2>1, LogsAssumption
    <3>2. written' \in [App -> [1..MaxLaunches -> 0..MaxLines]]
      OBVIOUS
    <3>3. written'[appName][m] \in 0..MaxLines
      BY <1>2, <3>1, <3>2
    <3> QED
      BY <1>1, <1>2, <2>1, <3>3, FileLength, LogsAssumption
  <2>3. n \in 1..MaxLaunches
    BY <1>1, <1>2, <2>1, FileLength
  <2>4. n < m \/ (n = m /\ written[appName][n] <= written'[appName][m])
    BY <1>2, <2>3
  <2>5. Panel!Now(appName) = written[appName][n] /\ Panel!Now(appName)' = written'[appName][m]
    BY DEF Panel!Now
  <2> QED
    BY <1>2, <1>3, <2>2, <2>4, <2>5, WithinGrows
<1>4. TailInv'
  BY <1>2, <1>3 DEF PanelInv, TailInv
<1>5. phase = "open" => launch'[appName] > 0
                        /\ Within(lines, appName, launch'[appName], Panel!Now(appName)')
  BY <1>2, <1>3 DEF PanelInv
<1>6. phase = "stream" => StreamInv'
  <2> SUFFICES ASSUME phase = "stream" PROVE StreamInv'
    OBVIOUS
  <2>1. StreamInv
    BY DEF PanelInv
  <2>2. stream.launch \in 1..launch[appName] /\ stream.offset \in 0..MaxLines
        /\ stream.offset <= written[appName][stream.launch]
    BY <2>1 DEF StreamInv
  <2>3. /\ stream.launch \in 1..MaxLaunches /\ stream.launch \in 1..launch'[appName]
        /\ written[appName][stream.launch] \in Nat
    BY <1>1, <1>2, <2>2, FileLength
  <2>4. written'[appName][stream.launch] \in Nat
    BY <1>2, <2>3, LogsAssumption
  <2>5. stream.offset <= written'[appName][stream.launch]
    <3>1. written[appName][stream.launch] <= written'[appName][stream.launch]
      BY <1>2, <2>3
    <3>2. stream.offset \in Nat
      BY <2>2, LogsAssumption
    <3> QED
      BY <2>2, <2>3, <2>4, <3>1, <3>2
  <2>6. stream \in [app : {appName}, launch : 1..launch'[appName], offset : 0..MaxLines]
    BY <2>1, <2>3 DEF StreamInv
  <2> QED
    BY <2>1, <2>5, <2>6 DEF StreamInv
<1>7. (phase = "open")' => launch'[appName'] > 0
                          /\ Within(lines, appName, launch[appName], Panel!Now(appName))'
  BY <1>5 DEF Within
<1> QED
  BY <1>1, <1>4, <1>6, <1>7 DEF PanelInv, Ordered

LEMMA PanelServesTail ==
  ASSUME PanelInv, Panel!ServeTail
  PROVE  PanelInv'
<1>1. /\ phase = "tail" /\ tail = None /\ stream = None /\ chunks = <<>> /\ PanelTypes
      /\ UNCHANGED <<launch, written, appName, stream, chunks, lines, paused, moves>>
  BY DEF PanelInv, Panel!ServeTail, Panel!files
<1>2. CASE launch[appName] = 0
  <2>1. phase' = "failed" /\ tail' = None
    BY <1>1, <1>2 DEF Panel!ServeTail
  <2> QED
    BY <1>1, <2>1 DEF PanelInv, PanelTypes, TailInv, Ordered
<1>3. CASE launch[appName] # 0
  <2> DEFINE n == launch[appName]
             s == Panel!Lines(appName, n, 0, Panel!Now(appName))
             t == Panel!Last(s, Wanted)
  <2>1. tail' = t /\ phase' = "tail"
    BY <1>1, <1>3 DEF Panel!ServeTail
  <2>2. appName \in App /\ n \in 1..launch[appName] /\ n > 0
    BY <1>1, <1>3, LogsAssumption DEF PanelTypes
  <2>3. n \in 1..MaxLaunches /\ Panel!Now(appName) \in 0..MaxLines /\ Panel!Now(appName) \in Nat
    BY <1>1, <2>2, FileLength DEF Panel!Now
  <2>4. 0 \in Nat /\ 0 <= Panel!Now(appName) /\ Wanted \in Nat
    BY <2>3, LogsAssumption
  <2>5. s \in Seq(Panel!Line)
    BY <2>2, <2>3, <2>4, LinesAre
  <2>6. Ordered(s) /\ Within(s, appName, n, Panel!Now(appName))
    BY <2>2, <2>3, <2>4, LinesKeep
  <2> HIDE DEF s
  <2>7. t \in Seq(Panel!Line) /\ Len(t) <= Wanted
    BY <2>4, <2>5, LastAre
  <2>8. Ordered(t) /\ Within(t, appName, n, Panel!Now(appName))
    BY <2>4, <2>5, <2>6, LastKeeps
  <2> HIDE DEF t
  <2>9. TailInv'
    BY <1>1, <2>1, <2>2, <2>7, <2>8 DEF TailInv, Ordered, Within, Panel!Now
  <2> QED
    BY <1>1, <2>1, <2>9 DEF PanelInv, PanelTypes, Ordered
<1> QED
  BY <1>2, <1>3

LEMMA PanelOpens ==
  ASSUME PanelInv, Panel!Open
  PROVE  PanelInv'
<1>1. /\ phase = "open" /\ phase' = "stream" /\ PanelTypes /\ chunks = <<>> /\ tail = None
      /\ stream' = [app |-> appName, launch |-> launch[appName], offset |-> Panel!Now(appName)]
      /\ launch[appName] > 0 /\ Within(lines, appName, launch[appName], Panel!Now(appName))
      /\ UNCHANGED <<launch, written, appName, tail, chunks, lines, paused, moves>>
  BY DEF PanelInv, TailInv, Panel!Open, Panel!Offset, Panel!files
<1>2. appName \in App /\ launch[appName] \in 1..launch[appName]
  BY <1>1, LogsAssumption DEF PanelTypes
<1>3. Panel!Now(appName) \in 0..MaxLines /\ Panel!Now(appName) = written[appName][launch[appName]]
      /\ Panel!Now(appName) \in Nat
  BY <1>1, <1>2, FileLength DEF Panel!Now
<1> DEFINE now == Panel!Now(appName)
<1> HIDE DEF now
<1>4. stream' = [app |-> appName, launch |-> launch[appName], offset |-> now] /\ now \in Nat
      /\ now \in 0..MaxLines /\ now = written[appName][launch[appName]]
      /\ Within(lines, appName, launch[appName], now)
  BY <1>1, <1>3 DEF now
<1>5. StreamInv'
  <2>1. /\ stream' \in [app : {appName}, launch : 1..launch[appName], offset : 0..MaxLines]
        /\ stream'.offset = now /\ stream'.launch = launch[appName]
    BY <1>2, <1>4
  <2>2. stream'.offset <= written[appName][stream'.launch]
    BY <1>4, <2>1
  <2>3. chunks' = <<>> /\ chunks' \in Seq(Seq(Panel!Line)) /\ Len(chunks') = 0
    BY <1>1
  <2>4. Within(lines, appName, stream'.launch, stream'.offset)
    BY <1>4, <2>1
  <2> QED
    BY <1>1, <2>1, <2>2, <2>3, <2>4 DEF StreamInv, Within
<1> QED
  BY <1>1, <1>5 DEF PanelInv, PanelTypes, TailInv, Ordered

LEMMA PanelTicks ==
  ASSUME PanelInv, Panel!Tick
  PROVE  PanelInv'
<1> DEFINE to == written[stream.app][stream.launch]
           c == Panel!Lines(stream.app, stream.launch, stream.offset, to)
<1>1. /\ phase = "stream" /\ StreamInv /\ PanelTypes /\ stream.offset < to
      /\ chunks' = Append(chunks, c)
      /\ stream' = [app |-> stream.app, launch |-> stream.launch, offset |-> to]
      /\ UNCHANGED <<launch, written, appName, phase, tail, lines, paused, moves>>
  BY DEF PanelInv, Panel!Tick, Panel!files
<1>2. /\ stream.app = appName /\ stream.launch \in 1..launch[appName] /\ appName \in App
      /\ stream.offset \in Nat
  BY <1>1, LogsAssumption DEF StreamInv, PanelTypes
<1>3. stream.launch \in 1..MaxLaunches /\ to \in 0..MaxLines /\ to \in Nat /\ stream.offset <= to
  BY <1>1, <1>2, FileLength
<1>4. c \in Seq(Panel!Line) /\ After(c, appName, stream.launch, stream.offset)
  BY <1>2, <1>3, LinesAre
<1>5. Ordered(c) /\ Within(c, appName, stream.launch, to)
  BY <1>2, <1>3, LinesKeep
<1> HIDE DEF c
<1>6. ASSUME NEW s \in Seq(Panel!Line), Within(s, appName, stream.launch, stream.offset)
      PROVE  Precedes(s, c) /\ Within(s, appName, stream.launch, to)
  <2>1. stream.launch \in Nat
    BY <1>3, LogsAssumption
  <2>2. Precedes(s, c)
    BY <1>2, <1>4, <1>6, <2>1, WithinPrecedes
  <2>3. Within(s, appName, stream.launch, to)
    BY <1>2, <1>3, <1>6, <2>1, WithinGrows
  <2> QED
    BY <2>2, <2>3
<1>7. /\ chunks \in Seq(Seq(Panel!Line)) /\ lines \in Seq(Panel!Line)
      /\ \A i \in 1..Len(chunks) : chunks[i] \in Seq(Panel!Line)
  BY <1>1, ElementOfSeq DEF StreamInv, PanelTypes
<1>8. /\ chunks' \in Seq(Seq(Panel!Line)) /\ Len(chunks') = Len(chunks) + 1
      /\ \A i \in 1..Len(chunks) : chunks'[i] = chunks[i]
      /\ chunks'[Len(chunks) + 1] = c /\ Len(chunks) \in Nat
  BY <1>1, <1>4, <1>7
<1>9. ASSUME NEW i \in 1..Len(chunks')
      PROVE  /\ Ordered(chunks'[i]) /\ Precedes(lines, chunks'[i])
             /\ Within(chunks'[i], appName, stream.launch, to)
             /\ \A j \in 1..(i - 1) : Precedes(chunks'[j], chunks'[i])
  <2>1. CASE i \in 1..Len(chunks)
    <3>1. /\ Ordered(chunks[i]) /\ Precedes(lines, chunks[i])
          /\ Within(chunks[i], appName, stream.launch, stream.offset)
          /\ \A j \in 1..(i - 1) : Precedes(chunks[j], chunks[i])
      BY <1>1, <2>1 DEF StreamInv
    <3>2. \A j \in 1..(i - 1) : j \in 1..Len(chunks)
      BY <1>8, <2>1
    <3> QED
      BY <1>6, <1>7, <1>8, <2>1, <3>1, <3>2
  <2>2. CASE i = Len(chunks) + 1
    <3>1. \A j \in 1..(i - 1) : j \in 1..Len(chunks)
      BY <1>8, <2>2
    <3>2. \A j \in 1..Len(chunks) : Within(chunks[j], appName, stream.launch, stream.offset)
      BY <1>1 DEF StreamInv
    <3>3. Within(lines, appName, stream.launch, stream.offset)
      BY <1>1 DEF StreamInv
    <3> QED
      BY <1>5, <1>6, <1>7, <1>8, <2>2, <3>1, <3>2, <3>3
  <2> QED
    BY <1>8, <2>1, <2>2
<1>10. Within(lines, appName, stream.launch, to)
  BY <1>1, <1>6, <1>7 DEF StreamInv
<1>11. /\ stream' \in [app : {appName}, launch : 1..launch[appName], offset : 0..MaxLines]
       /\ stream'.offset = to /\ stream'.launch = stream.launch
  BY <1>1, <1>2, <1>3
<1>12. to = written[appName][stream.launch]
  BY <1>2
<1> HIDE DEF to
<1>13. StreamInv'
  <2>1. appName' = appName /\ launch' = launch /\ written' = written /\ lines' = lines
    BY <1>1
  <2>2. stream'.offset <= written'[appName'][stream'.launch]
    BY <1>3, <1>11, <1>12, <2>1
  <2>3. Within(lines, appName, stream.launch, stream.offset)'
    BY <1>10, <1>11, <2>1 DEF Within
  <2>4. \A i \in 1..Len(chunks') :
          /\ Ordered(chunks'[i]) /\ Precedes(lines', chunks'[i])
          /\ Within(chunks'[i], appName', stream'.launch, stream'.offset)
          /\ \A j \in 1..(i - 1) : Precedes(chunks'[j], chunks'[i])
    BY <1>9, <1>11, <2>1
  <2> QED
    BY <1>8, <1>11, <2>1, <2>2, <2>3, <2>4 DEF StreamInv, Within, Ordered, Precedes
<1> QED
  BY <1>1, <1>13 DEF PanelInv, PanelTypes, TailInv, Ordered

LEMMA PanelLandsTail ==
  ASSUME PanelInv, Panel!LandTail
  PROVE  PanelInv'
<1>1. /\ tail # None /\ lines' = tail /\ tail' = None /\ phase' = "open" /\ phase = "tail"
      /\ UNCHANGED <<launch, written, appName, stream, chunks, paused, moves>> /\ PanelTypes
      /\ stream = None /\ chunks = <<>>
      /\ launch[appName] > 0 /\ tail \in Seq(Panel!Line) /\ Len(tail) <= Wanted
      /\ Ordered(tail) /\ Within(tail, appName, launch[appName], Panel!Now(appName))
  BY DEF PanelInv, TailInv, Panel!LandTail, Panel!files
<1> QED
  BY <1>1 DEF PanelInv, PanelTypes, TailInv, Ordered, Within, Panel!Now

LEMMA PanelHears ==
  ASSUME PanelInv, Panel!Hear
  PROVE  PanelInv'
<1>1. /\ chunks # <<>> /\ chunks' = Tail(chunks) /\ phase = "stream"
      /\ lines' = IF paused THEN lines ELSE Panel!Last(lines \o chunks[1], Kept)
      /\ UNCHANGED <<launch, written, appName, phase, tail, stream, paused, moves>>
      /\ StreamInv /\ PanelTypes /\ Ordered(lines)
  BY DEF PanelInv, Panel!Hear, Panel!files
<1>2. chunks \in Seq(Seq(Panel!Line)) /\ lines \in Seq(Panel!Line)
  BY <1>1 DEF StreamInv, PanelTypes
<1>3. /\ chunks' \in Seq(Seq(Panel!Line)) /\ Len(chunks') = Len(chunks) - 1 /\ Len(chunks) \in Nat
      /\ \A i \in 1..Len(chunks') : chunks'[i] = chunks[i + 1] /\ Len(chunks) # 0
  BY <1>1, <1>2, HeadTailProperties
<1>4. 1 \in 1..Len(chunks) /\ chunks[1] \in Seq(Panel!Line)
  <2>1. 1 \in 1..Len(chunks)
    BY <1>1, <1>2, EmptySeq
  <2> QED
    BY <1>2, <2>1, ElementOfSeq
<1> DEFINE c == chunks[1]
           n == stream.launch
           k == stream.offset
<1>5. /\ Ordered(c) /\ Precedes(lines, c) /\ Within(c, appName, n, k) /\ Within(lines, appName, n, k)
      /\ \A i \in 2..Len(chunks) : Precedes(c, chunks[i]) /\ Precedes(lines, chunks[i])
  <2>1. \A i \in 2..Len(chunks) : i \in 1..Len(chunks) /\ 1 \in 1..(i - 1)
    BY <1>3
  <2> QED
    BY <1>1, <1>4, <2>1 DEF StreamInv
<1>6. /\ Ordered(lines') /\ Within(lines', appName, n, k) /\ lines' \in Seq(Panel!Line)
      /\ Len(lines') <= Kept \/ Len(lines') <= Wanted
      /\ \A i \in 2..Len(chunks) : Precedes(lines', chunks[i])
  <2>1. CASE paused
    BY <1>1, <1>2, <1>5, <2>1 DEF PanelTypes
  <2>2. CASE ~paused
    <3> DEFINE s == lines \o c
    <3>1. s \in Seq(Panel!Line)
      BY <1>2, <1>4, ConcatProperties
    <3>2. /\ Ordered(s) /\ Within(s, appName, n, k)
          /\ \A i \in 2..Len(chunks) : Precedes(s, chunks[i])
      BY <1>1, <1>2, <1>4, <1>5, ConcatKeeps
    <3>3. lines' = Panel!Last(s, Kept) /\ Kept \in Nat
      BY <1>1, <2>2, LogsAssumption
    <3> HIDE DEF s, n, k
    <3>4. lines' \in Seq(Panel!Line) /\ Len(lines') <= Kept
      BY <3>1, <3>3, LastAre
    <3>5. /\ Ordered(lines') /\ Within(lines', appName, n, k)
          /\ \A i \in 2..Len(chunks) : Precedes(lines', chunks[i])
      BY <3>1, <3>2, <3>3, LastKeeps
    <3> QED
      BY <3>4, <3>5
  <2> QED
    BY <2>1, <2>2
<1>7. ASSUME NEW i \in 1..Len(chunks')
      PROVE  /\ Ordered(chunks'[i]) /\ Precedes(lines', chunks'[i])
             /\ Within(chunks'[i], appName, n, k)
             /\ \A j \in 1..(i - 1) : Precedes(chunks'[j], chunks'[i])
  <2>1. i + 1 \in 2..Len(chunks) /\ i + 1 \in 1..Len(chunks) /\ chunks'[i] = chunks[i + 1]
    BY <1>3
  <2>2. /\ Ordered(chunks[i + 1]) /\ Within(chunks[i + 1], appName, n, k)
        /\ \A j \in 1..((i + 1) - 1) : Precedes(chunks[j], chunks[i + 1])
    BY <1>1, <2>1 DEF StreamInv
  <2>3. ASSUME NEW j \in 1..(i - 1) PROVE Precedes(chunks'[j], chunks'[i])
    <3>1. i \in Nat /\ i <= Len(chunks') /\ j \in Nat /\ 1 <= j /\ j <= i - 1
      BY <1>3
    <3>2. j \in 1..Len(chunks') /\ j + 1 \in 1..((i + 1) - 1)
      BY <1>3, <3>1
    <3> QED
      BY <1>3, <2>1, <2>2, <3>2
  <2> QED
    BY <1>6, <2>1, <2>2, <2>3
<1>8. StreamInv'
  <2>1. UNCHANGED <<launch, written, appName, stream>>
    BY <1>1
  <2>2. /\ stream \in [app : {appName}, launch : 1..launch[appName], offset : 0..MaxLines]
        /\ stream.offset <= written[appName][stream.launch]
    BY <1>1 DEF StreamInv
  <2>3. Within(lines, appName, stream.launch, stream.offset)'
    BY <1>6, <2>1 DEF Within
  <2> QED
    BY <1>3, <1>7, <2>1, <2>2, <2>3 DEF StreamInv, Within, Ordered, Precedes
<1>9. TailInv' /\ PanelTypes'
  BY <1>1, <1>6 DEF PanelInv, TailInv, PanelTypes
<1> QED
  BY <1>1, <1>6, <1>8, <1>9 DEF PanelInv, Ordered

LEMMA PanelBreaks ==
  ASSUME PanelInv, Panel!Break
  PROVE  PanelInv'
<1>1. /\ phase = "stream" /\ phase' = "open" /\ stream' = None /\ chunks' = <<>>
      /\ moves < MaxMoves /\ moves' = moves + 1
      /\ UNCHANGED <<launch, written, appName, tail, lines, paused>>
      /\ StreamInv /\ PanelTypes /\ tail = None
  BY DEF PanelInv, TailInv, Panel!Break, Panel!files
<1>2. /\ appName \in App /\ stream.launch \in 1..launch[appName] /\ launch[appName] \in Nat
      /\ stream.offset \in Nat /\ stream.offset <= written[appName][stream.launch]
      /\ lines \in Seq(Panel!Line) /\ Within(lines, appName, stream.launch, stream.offset)
  BY <1>1, LogsAssumption DEF StreamInv, PanelTypes
<1>3. launch[appName] \in 1..launch[appName] /\ stream.launch \in Nat /\ stream.launch <= launch[appName]
  BY <1>2
<1>4. Panel!Now(appName) \in Nat /\ written[appName][stream.launch] \in Nat
  BY <1>1, <1>2, <1>3, FileLength DEF Panel!Now
<1>5. \/ stream.launch < launch[appName]
      \/ stream.launch = launch[appName] /\ stream.offset <= Panel!Now(appName)
  BY <1>2, <1>3 DEF Panel!Now
<1>6. Within(lines, appName, launch[appName], Panel!Now(appName))
  BY <1>2, <1>3, <1>4, <1>5, WithinGrows
<1>7. moves' \in 0..MaxMoves
  BY <1>1, LogsAssumption DEF PanelTypes
<1> QED
  BY <1>1, <1>3, <1>6, <1>7 DEF PanelInv, PanelTypes, TailInv, Ordered, Within, Panel!Now

LEMMA PanelStep ==
  ASSUME PanelInv, [Panel!Next]_(Panel!vars)
  PROVE  PanelInv'
<1> USE DEF Panel!files, Panel!wire
<1>1. PanelTypes
  BY DEF PanelInv
<1>2. /\ \A a \in App : launch[a] \in Nat
      /\ \A a \in App, n \in 1..MaxLaunches : written[a][n] \in Nat
  BY <1>1, LogsAssumption DEF PanelTypes
<1>3. ASSUME NEW a \in App, Panel!Launch(a)
      PROVE  PanelInv'
  <2>1. /\ launch[a] < MaxLaunches /\ launch' = [launch EXCEPT ![a] = @ + 1]
        /\ UNCHANGED <<written, appName, phase, tail, stream, chunks, lines, paused, moves>>
    BY <1>3 DEF Panel!Launch
  <2>2. launch' \in [App -> 0..MaxLaunches] /\ \A b \in App : launch[b] <= launch'[b]
    <3>1. launch[a] + 1 \in 0..MaxLaunches
      BY <1>2, <2>1, LogsAssumption
    <3>2. launch' \in [App -> 0..MaxLaunches]
      BY <1>1, <2>1, <3>1 DEF PanelTypes
    <3>3. \A b \in App : launch'[b] = launch[b] \/ launch'[b] = launch[b] + 1
      BY <1>1, <2>1 DEF PanelTypes
    <3> QED
      BY <1>2, <3>2, <3>3
  <2>3. /\ written' \in [App -> [1..MaxLaunches -> 0..MaxLines]] /\ paused' \in BOOLEAN
        /\ \A b \in App, n \in 1..MaxLaunches : written[b][n] <= written'[b][n]
    BY <1>1, <1>2, <2>1 DEF PanelTypes
  <2> QED
    BY <2>1, <2>2, <2>3, FilesGrow
<1>4. ASSUME NEW a \in App, Panel!Write(a)
      PROVE  PanelInv'
  <2> DEFINE m == launch[a]
             file == [written[a] EXCEPT ![m] = @ + 1]
  <2>1. /\ m > 0 /\ written[a][m] < MaxLines /\ written' = [written EXCEPT ![a][m] = @ + 1]
        /\ UNCHANGED <<launch, appName, phase, tail, stream, chunks, lines, paused, moves>>
    BY <1>4 DEF Panel!Write, Panel!Now
  <2>2. written' = [written EXCEPT ![a] = file]
    BY <2>1
  <2>3. m \in 1..MaxLaunches
    BY <1>1, <2>1, LogsAssumption DEF PanelTypes
  <2>4. written[a] \in [1..MaxLaunches -> 0..MaxLines] /\ written[a][m] \in Nat
    BY <1>1, <1>2, <2>3 DEF PanelTypes
  <2>5. /\ file \in [1..MaxLaunches -> 0..MaxLines]
        /\ \A n \in 1..MaxLaunches : written[a][n] <= file[n]
    <3>1. written[a][m] + 1 \in 0..MaxLines
      <4>1. MaxLines \in Nat
        BY LogsAssumption
      <4> QED
        BY <2>1, <2>4, <4>1
    <3>2. file \in [1..MaxLaunches -> 0..MaxLines]
      BY <2>4, <3>1
    <3>3. \A n \in 1..MaxLaunches : file[n] = written[a][n] \/ file[n] = written[a][n] + 1
      BY <2>4
    <3> QED
      BY <1>2, <3>2, <3>3
  <2> HIDE DEF file
  <2>6. /\ written' \in [App -> [1..MaxLaunches -> 0..MaxLines]]
        /\ \A b \in App, n \in 1..MaxLaunches : written[b][n] <= written'[b][n]
    BY <1>1, <1>2, <2>2, <2>5 DEF PanelTypes
  <2>7. /\ launch' \in [App -> 0..MaxLaunches] /\ paused' \in BOOLEAN
        /\ \A b \in App : launch[b] <= launch'[b]
    BY <1>1, <1>2, <2>1 DEF PanelTypes
  <2> QED
    BY <2>1, <2>6, <2>7, FilesGrow
<1>5. CASE Panel!Pause \/ UNCHANGED Panel!vars
  <2>1. /\ UNCHANGED <<launch, written, appName, phase, tail, stream, chunks, lines, moves>>
        /\ paused' \in BOOLEAN
    BY <1>1, <1>5 DEF Panel!Pause, Panel!vars, PanelTypes
  <2>2. /\ \A b \in App : launch[b] <= launch'[b]
        /\ \A b \in App, n \in 1..MaxLaunches : written[b][n] <= written'[b][n]
    BY <1>2, <2>1
  <2> QED
    BY <1>1, <2>1, <2>2, FilesGrow DEF PanelTypes
<1>6. CASE Panel!TailFails
  <2>1. /\ phase = "tail" /\ moves < MaxMoves /\ moves' = moves + 1 /\ phase' = "failed" /\ tail' = None
        /\ UNCHANGED <<launch, written, appName, stream, chunks, lines, paused>>
    BY <1>6 DEF Panel!TailFails
  <2>2. moves' \in 0..MaxMoves
    BY <1>1, <2>1, LogsAssumption DEF PanelTypes
  <2> QED
    BY <2>1, <2>2 DEF PanelInv, PanelTypes, TailInv, Ordered
<1>7. ASSUME NEW a \in App, Panel!Move(a)
      PROVE  PanelInv'
  <2>1. /\ moves < MaxMoves /\ moves' = moves + 1 /\ appName' = a /\ phase' = "tail"
        /\ tail' = None /\ stream' = None /\ chunks' = <<>>
        /\ UNCHANGED <<launch, written, lines, paused>>
    BY <1>7 DEF Panel!Move
  <2>2. moves' \in 0..MaxMoves
    BY <1>1, <2>1, LogsAssumption DEF PanelTypes
  <2> QED
    BY <2>1, <2>2 DEF PanelInv, PanelTypes, TailInv, Ordered
<1> QED
  BY <1>3, <1>4, <1>5, <1>6, <1>7, PanelServesTail, PanelOpens, PanelTicks, PanelLandsTail,
     PanelHears, PanelBreaks DEF Panel!Next

LEMMA PanelGoals ==
  ASSUME PanelInv
  PROVE  Panel!TypeOK /\ Panel!LinesInOrder
<1>1. PanelTypes
  BY DEF PanelInv
<1>2. \A i \in 1..Len(lines) : lines[i] \in Panel!Line
  BY <1>1, ElementOfSeq DEF PanelTypes
<1>3. tail = None \/ \A i \in 1..Len(tail) : tail[i] \in Panel!Line
  BY ElementOfSeq DEF PanelInv, TailInv
<1>4. stream = None \/ stream \in [app : App, launch : 1..MaxLaunches, offset : 0..MaxLines]
  <2>1. CASE phase = "stream"
    <3>1. stream \in [app : {appName}, launch : 1..launch[appName], offset : 0..MaxLines]
      BY <2>1 DEF PanelInv, StreamInv
    <3>2. appName \in App /\ 1..launch[appName] \subseteq 1..MaxLaunches
      BY <1>1, LogsAssumption DEF PanelTypes
    <3> QED
      BY <3>1, <3>2
  <2> QED
    BY <2>1 DEF PanelInv
<1> QED
  BY <1>1, <1>2, <1>3, <1>4 DEF PanelInv, PanelTypes, Ordered, Panel!TypeOK, Panel!LinesInOrder

-----------------------------------------------------------------------------
(***************************************************************************)
(* The composition.                                                        *)
(***************************************************************************)

\* Each part of a behaviour of the composition is a behaviour of that part.
LEMMA ConsoleParts == ConsoleSpec => Spec /\ Tabs!Spec /\ Drafts!Spec /\ Panel!Spec
<1>1. ConsoleInit => Init /\ Tabs!Init /\ Drafts!Init /\ Panel!Init
  BY DEF ConsoleInit
<1>2. [ConsoleNext]_<<followed, vars, tabVars, formVars, panelVars>> =>
        [Next]_vars /\ [Tabs!Next]_(Tabs!vars) /\ [Drafts!Next]_(Drafts!vars)
        /\ [Panel!Next]_(Panel!vars)
  <2>1. /\ UNCHANGED tabVars => UNCHANGED Tabs!vars
        /\ UNCHANGED formVars => UNCHANGED Drafts!vars
        /\ UNCHANGED panelVars => UNCHANGED Panel!vars
    BY DEF tabVars, Tabs!vars, Tabs!server, Tabs!tabs, Tabs!bounds, formVars, Drafts!vars,
       Drafts!stored, Drafts!fields, panelVars, Panel!vars, Panel!files, Panel!wire
  <2> QED
    BY <2>1 DEF ConsoleNext
<1> QED
  BY <1>1, <1>2, PTL DEF ConsoleSpec, Spec, Tabs!Spec, Drafts!Spec, Panel!Spec

FollowsOne == followed \in {"pages", "session", "forms", "logs"}

LEMMA Followed == ConsoleSpec => []FollowsOne
<1>1. ConsoleInit => FollowsOne
  BY DEF ConsoleInit, FollowsOne
<1>2. FollowsOne /\ [ConsoleNext]_<<followed, vars, tabVars, formVars, panelVars>> => FollowsOne'
  BY DEF ConsoleNext, FollowsOne
<1> QED
  BY <1>1, <1>2, PTL DEF ConsoleSpec

LEMMA TabsAlways == Tabs!Spec => []Tabs!TypeOK
<1>1. Logins!IInv => Tabs!TypeOK
  BY TabsTyped
<1> QED
  BY <1>1, TabsInit, TabsStep, PTL DEF Tabs!Spec

LEMMA FormsAlways == Drafts!Spec => []FormInv
  BY FormInit, FormStep, PTL DEF Drafts!Spec

LEMMA PanelAlways == Panel!Spec => []PanelInv
  BY PanelStart, PanelStep, PTL DEF Panel!Spec

\* Every variable of the four parts keeps its type.
THEOREM ConsoleTyped == ConsoleSpec => []AllTypesOK
<1>1. FollowsOne /\ TypeOK /\ Tabs!TypeOK /\ FormInv /\ PanelInv => AllTypesOK
  <2>1. FormInv => Drafts!TypeOK
    BY FormGoals
  <2>2. PanelInv => Panel!TypeOK
    BY PanelGoals
  <2> QED
    BY <2>1, <2>2 DEF FollowsOne, AllTypesOK
<1> QED
  BY <1>1, ConsoleParts, Followed, PagesTypedAlways, TabsAlways, FormsAlways, PanelAlways, PTL

\* Fields the operator has not touched hold exactly one stored revision, the one the
\* form believes it has loaded, whatever order answers, saves and rollbacks come in
\* (ProfileForm's effect, AppSettings' effect).
THEOREM FormsShowARevision == ConsoleSpec => []ShowsARevision
<1>1. FormInv => ShowsARevision
  BY FormGoals DEF ShowsARevision
<1> QED
  BY <1>1, ConsoleParts, FormsAlways, PTL

\* The panel shows lines of one application, in the order in which they were written
\* and none twice, across streams that break, launches and moves from application to
\* application (LogPanel's effect, ReadSince).
THEOREM PanelLinesInOrder == ConsoleSpec => []LinesInOrder
<1>1. PanelInv => LinesInOrder
  BY PanelGoals DEF LinesInOrder
<1> QED
  BY <1>1, ConsoleParts, PanelAlways, PTL

=============================================================================
