------------------------- MODULE DependenciesProofs -------------------------
(***************************************************************************)
(* Dependencies proved, for any number of applications, any start order    *)
(* and any dependencies: the loop gives an application up for a reason.    *)
(* What it has dealt with is what lies behind it in the order (Behind);    *)
(* and what it has brought up is up, or has ended since (BroughtUp), so    *)
(* that a dependency found missing when the deadline has passed is one of  *)
(* the three kinds the property names.                                     *)
(***************************************************************************)
EXTENDS Dependencies, SequenceTheorems, TLAPS

\* apps.name is unique, so no application stands twice in the order.
Ordered ==
  /\ Order \in Seq(App) /\ MaxDeps \in Nat
  /\ \A i, j \in DOMAIN Order : Order[i] = Order[j] => i = j

Behind ==
  /\ pos \in DOMAIN Order => \A i \in DOMAIN Order : i < pos => outcome[Order[i]] # "none"
  /\ \A a \in App : outcome[a] # "none" => \E i \in DOMAIN Order : i < pos /\ Order[i] = a

BroughtUp == \A a \in App : outcome[a] \in {"running", "started"} => a \in up \cup lost

CutWhenClosing == \A a \in App : outcome[a] = "cut" => closing

IInv == TypeOK /\ Behind /\ BroughtUp /\ CutWhenClosing /\ GivesUpWithReason

Outcome == {"none", "running", "started", "failed", "unready", "cut"}

LEMMA OrderFacts ==
  ASSUME Ordered
  PROVE  /\ Len(Order) \in Nat /\ DOMAIN Order = 1..Len(Order)
         /\ \A i \in DOMAIN Order : Order[i] \in App
  BY DEF Ordered

LEMMA ListsAreSeqs ==
  ASSUME MaxDeps \in Nat, NEW a \in App, NEW s \in DepLists(a)
  PROVE  s \in Seq(App)
<1>1. PICK n \in 0..MaxDeps : s \in [1..n -> App \ {a}]
  BY DEF DepLists
<1>2. n \in Nat /\ \A i \in 1..n : s[i] \in App
  BY <1>1
<1>3. s = [i \in 1..n |-> s[i]]
  BY <1>1
<1> QED  BY <1>2, <1>3, IsASeq

LEMMA InitInv ==
  ASSUME Ordered, Init
  PROVE  IInv
<1>1. deps \in [App -> Seq(App)]
  <2>1. UNION {DepLists(a) : a \in App} \subseteq Seq(App)
    BY ListsAreSeqs DEF Ordered
  <2> QED  BY <2>1 DEF Init
<1>2. Len(Order) \in Nat
  BY OrderFacts
<1>3. TypeOK
  <2>1. outcome \in [App -> {"none", "running", "started", "failed", "unready", "cut"}]
    BY DEF Init
  <2>2. pos \in 1..Len(Order) + 1 /\ seen \in Nat
    BY <1>2 DEF Init
  <2>3. at \in {"look", "wait", "start"} /\ late \in BOOLEAN /\ closing \in BOOLEAN
    BY DEF Init
  <2>4. up \subseteq App /\ lost \subseteq App
    BY DEF Init
  <2> QED  BY <1>1, <2>1, <2>2, <2>3, <2>4 DEF TypeOK
<1>4. \A a \in App : outcome[a] = "none"
  BY DEF Init
<1>5. \A i \in DOMAIN Order : ~(i < pos)
  BY OrderFacts DEF Init
<1> QED  BY <1>3, <1>4, <1>5 DEF IInv, Behind, BroughtUp, CutWhenClosing, GivesUpWithReason

\* The steps of the world around the loop, and those of the loop that wait.
LEMMA WorldKeeps ==
  ASSUME Ordered, IInv, TypeOK', UNCHANGED <<deps, pos, outcome>>,
         lost \subseteq lost', up \subseteq up' \cup lost', closing => closing'
  PROVE  IInv'
<1>1. Behind'
  BY DEF IInv, Behind
<1>2. BroughtUp'
  BY DEF IInv, BroughtUp
<1>3. CutWhenClosing'
  BY DEF IInv, CutWhenClosing
<1>4. GivesUpWithReason'
  BY DEF IInv, GivesUpWithReason
<1> QED  BY <1>1, <1>2, <1>3, <1>4 DEF IInv

\* The loop goes on with a result that is right about the application in hand.
LEMMA TurnKeeps ==
  ASSUME Ordered, IInv, NEW result \in Outcome \ {"none"},
         pos \in DOMAIN Order, TurnAway(result),
         UNCHANGED <<deps, lost, closing>>, up \subseteq up', up' \subseteq App,
         result \in {"running", "started"} => InHand \in up' \cup lost,
         result = "cut" => closing,
         result = "unready" =>
           \E i \in DOMAIN deps[InHand] :
             LET d == deps[InHand][i]
             IN ~Earlier(d, InHand) \/ outcome[d] \in {"failed", "unready"} \/ d \in lost
  PROVE  IInv'
<1>1. InHand \in App /\ pos \in Nat /\ pos <= Len(Order) /\ Len(Order) \in Nat
  BY OrderFacts DEF InHand
<1>2. outcome \in [App -> Outcome]
  BY DEF IInv, TypeOK, Outcome
<1>3. /\ outcome' \in [App -> Outcome]
      /\ outcome'[InHand] = result
      /\ \A a \in App \ {InHand} : outcome'[a] = outcome[a]
      /\ pos' = pos + 1 /\ at' = "look" /\ seen' = 0 /\ late' = FALSE
  BY <1>1, <1>2 DEF TurnAway
<1>4. TypeOK'
  <2>1. outcome' \in [App -> {"none", "running", "started", "failed", "unready", "cut"}]
    BY <1>3 DEF Outcome
  <2>2. pos' \in 1..Len(Order) + 1 /\ seen' \in Nat
    BY <1>1, <1>3, OrderFacts
  <2>3. at' \in {"look", "wait", "start"} /\ late' \in BOOLEAN
    BY <1>3
  <2>4. deps' \in [App -> Seq(App)] /\ lost' \subseteq App /\ closing' \in BOOLEAN
    BY DEF IInv, TypeOK
  <2> QED  BY <2>1, <2>2, <2>3, <2>4 DEF TypeOK
<1>5. \A i \in DOMAIN Order : i < pos <=> i < pos' /\ i # pos
  BY <1>1, <1>3, OrderFacts
<1>6. \A i \in DOMAIN Order : i # pos => Order[i] # InHand
  BY DEF Ordered, InHand
<1>7. Behind'
  <2>1. ASSUME NEW i \in DOMAIN Order, i < pos'
        PROVE  outcome'[Order[i]] # "none"
    <3>1. CASE i = pos
      BY <1>3, <3>1 DEF InHand
    <3>2. CASE i # pos
      <4>1. outcome[Order[i]] # "none"
        BY <1>5, <2>1, <3>2 DEF IInv, Behind
      <4> QED  BY <1>3, <1>6, <3>2, <4>1, OrderFacts
    <3> QED  BY <3>1, <3>2
  <2>2. ASSUME NEW a \in App, outcome'[a] # "none"
        PROVE  \E i \in DOMAIN Order : i < pos' /\ Order[i] = a
    <3>1. CASE a = InHand
      BY <1>1, <1>3, <3>1 DEF InHand
    <3>2. CASE a # InHand
      <4>1. outcome[a] # "none"
        BY <1>3, <2>2, <3>2
      <4>2. PICK i \in DOMAIN Order : i < pos /\ Order[i] = a
        BY <4>1 DEF IInv, Behind
      <4> QED  BY <1>5, <4>2
    <3> QED  BY <3>1, <3>2
  <2> QED  BY <2>1, <2>2 DEF Behind
<1>8. BroughtUp'
  BY <1>3 DEF IInv, BroughtUp
<1>9. CutWhenClosing'
  BY <1>3 DEF IInv, CutWhenClosing
<1>10. ASSUME NEW d, d # InHand, outcome[d] \in {"failed", "unready"}, d \in App
       PROVE  outcome'[d] \in {"failed", "unready"}
  BY <1>3, <1>10
<1>11. GivesUpWithReason'
  <2>1. ASSUME NEW a \in App, outcome'[a] = "unready"
        PROVE  \E i \in DOMAIN deps[a] :
                 LET d == deps[a][i]
                 IN ~Earlier(d, a) \/ outcome'[d] \in {"failed", "unready"} \/ d \in lost
    <3>1. PICK i \in DOMAIN deps[a] :
            ~Earlier(deps[a][i], a) \/ outcome[deps[a][i]] \in {"failed", "unready"}
              \/ deps[a][i] \in lost
      <4>1. CASE a = InHand
        BY <1>3, <2>1, <4>1
      <4>2. CASE a # InHand
        <5>1. outcome[a] = "unready"
          BY <1>3, <2>1, <4>2
        <5> QED  BY <5>1 DEF IInv, GivesUpWithReason
      <4> QED  BY <4>1, <4>2
    <3> DEFINE d == deps[a][i]
    <3>2. d \in App
      <4>1. deps[a] \in Seq(App)
        BY DEF IInv, TypeOK
      <4> QED  BY <4>1
    <3>3. CASE outcome[d] \in {"failed", "unready"} /\ d = InHand
      <4>1. PICK k \in DOMAIN Order : k < pos /\ Order[k] = d
        BY <3>2, <3>3 DEF IInv, Behind
      <4> QED  BY <1>1, <1>6, <3>3, <4>1, OrderFacts
    <3>4. CASE outcome[d] \in {"failed", "unready"} /\ d # InHand
      BY <1>10, <3>2, <3>4
    <3>5. CASE ~Earlier(d, a) \/ d \in lost
      BY <3>5
    <3> QED  BY <3>1, <3>3, <3>4, <3>5
  <2>2. \A d, a \in App : Earlier(d, a)' <=> Earlier(d, a)
    BY DEF Earlier
  <2> QED  BY <2>1, <2>2 DEF GivesUpWithReason, Earlier
<1> QED  BY <1>4, <1>7, <1>8, <1>9, <1>11 DEF IInv

\* A dependency that is missing when the loop gives up on it.
LEMMA MissingIsReason ==
  ASSUME Ordered, IInv, Waiting, ~closing, Awaited \notin up
  PROVE  \E i \in DOMAIN deps[InHand] :
           LET d == deps[InHand][i]
           IN ~Earlier(d, InHand) \/ outcome[d] \in {"failed", "unready"} \/ d \in lost
<1>1. pos \in DOMAIN Order /\ InHand \in App
  BY OrderFacts DEF Waiting, Here, InHand
<1>2. deps[InHand] \in Seq(App) /\ seen \in Nat
  BY <1>1 DEF IInv, TypeOK
<1>3. seen + 1 \in DOMAIN deps[InHand] /\ Awaited \in App
  BY <1>2 DEF Waiting, Awaited
<1>4. CASE ~Earlier(Awaited, InHand)
  BY <1>3, <1>4 DEF Awaited
<1>5. CASE Earlier(Awaited, InHand)
  <2>1. PICK i, j \in DOMAIN Order : i < j /\ Order[i] = Awaited /\ Order[j] = InHand
    BY <1>5 DEF Earlier
  <2>2. j = pos
    BY <1>1, <2>1 DEF Ordered, InHand
  <2>3. outcome[Awaited] # "none"
    BY <1>1, <2>1, <2>2 DEF IInv, Behind
  <2>4. outcome[Awaited] # "cut"
    BY <1>3 DEF IInv, CutWhenClosing
  <2>5. outcome[Awaited] \in {"running", "started"} => Awaited \in lost
    BY <1>3 DEF IInv, BroughtUp
  <2>6. outcome[Awaited] \in Outcome
    BY <1>3 DEF IInv, TypeOK, Outcome
  <2>7. outcome[Awaited] \in {"failed", "unready"} \/ Awaited \in lost
    BY <2>3, <2>4, <2>5, <2>6 DEF Outcome
  <2> QED  BY <1>3, <2>7 DEF Awaited
<1> QED  BY <1>4, <1>5

LEMMA LoopKeeps ==
  ASSUME Ordered, IInv, Loop
  PROVE  IInv'
<1>1. TypeOK /\ pos \in DOMAIN Order /\ InHand \in App
  BY OrderFacts DEF IInv, Loop, Skip, Enter, SeeDep, AllSeen, GiveUp, Start, Waiting, Here, InHand
<1>2. up \subseteq App
  BY <1>1 DEF TypeOK
<1>3. CASE Skip
  <2>1. "running" \in Outcome \ {"none"} /\ InHand \in up \cup lost /\ TurnAway("running")
        /\ UNCHANGED world
    BY <1>3 DEF Skip, Outcome
  <2> QED  BY <1>1, <1>2, <2>1, TurnKeeps DEF world
<1>4. CASE Enter
  <2>1. CASE at' = "wait" /\ UNCHANGED <<pos, seen, late, outcome>>
    <3>1. UNCHANGED <<deps, up, lost, closing>>
      BY <1>4 DEF Enter, world
    <3>2. TypeOK'
      BY <1>1, <2>1, <3>1 DEF TypeOK
    <3> QED  BY <2>1, <3>1, <3>2, WorldKeeps
  <2>2. CASE TurnAway("failed")
    <3>1. "failed" \in Outcome \ {"none"} /\ UNCHANGED world
      BY <1>4 DEF Enter, Outcome
    <3> QED  BY <1>1, <1>2, <2>2, <3>1, TurnKeeps DEF world
  <2> QED  BY <1>4, <2>1, <2>2 DEF Enter
<1>5. CASE SeeDep \/ AllSeen
  <2>1. UNCHANGED <<deps, up, lost, closing, pos, late, outcome>>
    BY <1>5 DEF SeeDep, AllSeen, world
  <2>2. at' \in {"look", "wait", "start"} /\ seen' \in Nat
    BY <1>1, <1>5 DEF SeeDep, AllSeen, TypeOK
  <2>3. TypeOK'
    BY <1>1, <2>1, <2>2 DEF TypeOK
  <2> QED  BY <2>1, <2>3, WorldKeeps
<1>6. CASE GiveUp
  <2>1. UNCHANGED world
    BY <1>6 DEF GiveUp
  <2>2. CASE closing
    <3>1. "cut" \in Outcome \ {"none"} /\ TurnAway("cut")
      BY <1>6, <2>2 DEF GiveUp, Outcome
    <3> QED  BY <1>1, <1>2, <2>1, <2>2, <3>1, TurnKeeps DEF world
  <2>3. CASE ~closing
    <3>1. "unready" \in Outcome \ {"none"} /\ TurnAway("unready") /\ Waiting /\ Awaited \notin up
      BY <1>6, <2>3 DEF GiveUp, Outcome
    <3>2. \E i \in DOMAIN deps[InHand] :
            LET d == deps[InHand][i]
            IN ~Earlier(d, InHand) \/ outcome[d] \in {"failed", "unready"} \/ d \in lost
      BY <2>3, <3>1, MissingIsReason
    <3> QED  BY <1>1, <1>2, <2>1, <3>1, <3>2, TurnKeeps DEF world
  <2> QED  BY <2>2, <2>3
<1>7. CASE Start
  <2>1. UNCHANGED <<deps, lost, closing>>
    BY <1>7 DEF Start
  <2>2. CASE InHand \notin up /\ up' = up \cup {InHand} /\ TurnAway("started")
    <3>1. "started" \in Outcome \ {"none"}
      BY DEF Outcome
    <3>2. up \subseteq up' /\ up' \subseteq App /\ InHand \in up' \cup lost
      BY <1>1, <1>2, <2>2
    <3> QED  BY <1>1, <2>1, <2>2, <3>1, <3>2, TurnKeeps
  <2>3. CASE TurnAway("failed") /\ UNCHANGED up
    <3>1. "failed" \in Outcome \ {"none"}
      BY DEF Outcome
    <3> QED  BY <1>1, <1>2, <2>1, <2>3, <3>1, TurnKeeps
  <2>4. CASE closing /\ pos' = Len(Order) + 1 /\ UNCHANGED <<up, at, seen, late, outcome>>
    <3>1. Len(Order) \in Nat /\ DOMAIN Order = 1..Len(Order)
      BY OrderFacts
    <3>2. pos' \in 1..Len(Order) + 1 /\ pos' \notin DOMAIN Order
      BY <2>4, <3>1
    <3>3. TypeOK'
      BY <1>1, <2>1, <2>4, <3>2 DEF TypeOK
    <3>4. Behind'
      <4>1. \A i \in DOMAIN Order : i < pos => i < pos'
        BY <1>1, <2>4, <3>1
      <4> QED  BY <2>4, <3>2, <4>1 DEF IInv, Behind
    <3>5. BroughtUp' /\ CutWhenClosing' /\ GivesUpWithReason'
      BY <2>1, <2>4 DEF IInv, BroughtUp, CutWhenClosing, GivesUpWithReason
    <3> QED  BY <3>3, <3>4, <3>5 DEF IInv
  <2> QED  BY <1>7, <2>2, <2>3, <2>4 DEF Start
<1> QED  BY <1>3, <1>4, <1>5, <1>6, <1>7 DEF Loop

LEMMA StepKeeps ==
  ASSUME Ordered, IInv, [Next]_vars
  PROVE  IInv'
<1>1. TypeOK
  BY DEF IInv
<1>2. CASE DeadlinePasses \/ Close \/ UNCHANGED vars
  <2>1. UNCHANGED <<deps, up, lost, pos, at, seen, outcome>>
    BY <1>2 DEF DeadlinePasses, Close, vars, world
  <2>2. late' \in BOOLEAN /\ closing' \in BOOLEAN /\ (closing => closing')
    BY <1>1, <1>2 DEF DeadlinePasses, Close, vars, world, TypeOK
  <2>3. TypeOK'
    BY <1>1, <2>1, <2>2 DEF TypeOK
  <2> QED  BY <2>1, <2>2, <2>3, WorldKeeps
<1>3. ASSUME NEW a \in App, Ends(a) \/ Comes(a)
      PROVE  IInv'
  <2>1. UNCHANGED <<deps, closing, pos, at, seen, late, outcome>>
    BY <1>3 DEF Ends, Comes
  <2>2. /\ up' \subseteq App /\ lost' \subseteq App
        /\ lost \subseteq lost' /\ up \subseteq up' \cup lost'
    BY <1>1, <1>3 DEF Ends, Comes, TypeOK
  <2>3. TypeOK'
    BY <1>1, <2>1, <2>2 DEF TypeOK
  <2> QED  BY <2>1, <2>2, <2>3, WorldKeeps
<1> QED  BY <1>2, <1>3, LoopKeeps DEF Next

-----------------------------------------------------------------------------
(* The theorem *)

\* Autostart gives an application up only because one it depends on does not come
\* earlier in the order, was not brought up in its turn, or has ended since
\* (Supervisor.Autostart, waitForDeps); and the loop keeps its types.
THEOREM GivenUpForAReason ==
  ASSUME Ordered
  PROVE  Spec => [](TypeOK /\ GivesUpWithReason)
<1>1. Init => IInv
  BY InitInv
<1>2. IInv /\ [Next]_vars => IInv'
  BY StepKeeps
<1>3. IInv => TypeOK /\ GivesUpWithReason
  BY DEF IInv
<1> QED  BY <1>1, <1>2, <1>3, PTL DEF Spec

=============================================================================
