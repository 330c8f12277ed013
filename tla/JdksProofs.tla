----------------------------- MODULE JdksProofs -----------------------------
(***************************************************************************)
(* Jdks proved, for any number of JDKs, administrators and hang-ups.  The  *)
(* handlers look and write in statements of their own, so that one JDK is  *)
(* the default is inductive only together with who is about to restore it: *)
(* while no JDK is the default, though some are registered and nothing has *)
(* slipped, some call is on its way through ensureDefaultJDK.              *)
(***************************************************************************)
EXTENDS Jdks, TLAPS

\* A call that will yet find that there is no default, or set one.
Restores(c) ==
  c.at \in {"count", "pick", "mark"} \/ (c.at \in {"scan", "insert"} /\ c.op = "scan")

IInv ==
  /\ TypeOK
  /\ default \subseteq jdks /\ named \subseteq jdks
  /\ \A i, j \in default : i = j
  /\ default # {} \/ jdks = {} \/ slipped \/ \E a \in Admin : Restores(call[a])

LEMMA InitInv ==
  ASSUME MaxLeft \in Nat, Init
  PROVE  IInv
<1>1. Idle \in Call
  BY DEF Idle, Call
<1>2. call \in [Admin -> Call]
  BY <1>1 DEF Init
<1>3. shown \in [Admin -> [ids : SUBSET Jdk, default : SUBSET Jdk]]
  BY DEF Init
<1>4. left \in 0..MaxLeft
  BY DEF Init
<1> QED  BY <1>2, <1>3, <1>4 DEF Init, IInv, TypeOK

\* One call moves.
LEMMA CallMoves ==
  ASSUME call \in [Admin -> Call], NEW a \in Admin, NEW c \in Call,
         call' = [call EXCEPT ![a] = c]
  PROVE  /\ call' \in [Admin -> Call] /\ call'[a] = c
         /\ \A b \in Admin \ {a} : call'[b] = call[b]
  OBVIOUS

LEMMA GoesMoves ==
  ASSUME call \in [Admin -> Call], NEW a \in Admin, NEW id \in Jdk \cup {None},
         NEW at \in {"idle", "scan", "insert", "look", "mark", "refs", "delete", "count", "pick"},
         Goes(a, at, id)
  PROVE  /\ call' \in [Admin -> Call]
         /\ call'[a].at = at /\ call'[a].op = call[a].op
         /\ \A b \in Admin \ {a} : call'[b] = call[b]
<1>1. call[a] \in Call
  OBVIOUS
<1>2. [op |-> call[a].op, id |-> id, wants |-> call[a].wants, at |-> at] \in Call
  BY <1>1 DEF Call
<1> QED  BY <1>2, CallMoves DEF Goes

LEMMA ReturnsMoves ==
  ASSUME call \in [Admin -> Call], NEW a \in Admin, Returns(a)
  PROVE  /\ call' \in [Admin -> Call] /\ call'[a].at = "idle"
         /\ \A b \in Admin \ {a} : call'[b] = call[b]
<1>1. Idle \in Call
  BY DEF Idle, Call
<1>2. Idle.at = "idle"
  BY DEF Idle
<1> QED  BY <1>1, <1>2, CallMoves DEF Returns

\* A step of one call that leaves the table alone, and does not give up restoring a
\* default that is missing.
LEMMA QuietKeeps ==
  ASSUME IInv, NEW a \in Admin,
         call' \in [Admin -> Call],
         \A b \in Admin \ {a} : call'[b] = call[b],
         UNCHANGED <<table, shown, left, slipped>>,
         Restores(call[a]) => Restores(call'[a]) \/ default # {} \/ jdks = {}
  PROVE  IInv'
<1>1. TypeOK'
  BY DEF IInv, TypeOK, table
<1>2. default # {} \/ jdks = {} \/ slipped \/ \E b \in Admin : Restores(call'[b])
  <2>1. ASSUME NEW b \in Admin, Restores(call[b])
        PROVE  default # {} \/ jdks = {} \/ \E d \in Admin : Restores(call'[d])
    <3>1. CASE b = a
      BY <2>1, <3>1
    <3>2. CASE b # a
      <4>1. call'[b] = call[b]
        BY <3>2
      <4>2. Restores(call'[b])
        BY <2>1, <4>1
      <4> QED  BY <4>2
    <3> QED  BY <3>1, <3>2
  <2> QED  BY <2>1 DEF IInv
<1>3. UNCHANGED <<jdks, default, named, slipped>>
  BY DEF table
<1>4. (\E b \in Admin : Restores(call'[b])) => (\E b \in Admin : Restores(call[b]))'
  BY DEF Restores
<1> QED  BY <1>1, <1>2, <1>3, <1>4 DEF IInv

-----------------------------------------------------------------------------
(* The page, and the options that name a JDK *)

LEMMA SendKeeps ==
  ASSUME IInv, NEW a \in Admin, NEW op \in {"scan", "create", "default", "delete"},
         NEW id \in Jdk \cup {None}, NEW wants \in BOOLEAN,
         NEW at \in {"scan", "insert", "look", "refs"}, Send(a, op, id, wants, at)
  PROVE  IInv'
<1>1. call \in [Admin -> Call]
  BY DEF IInv, TypeOK
<1>2. [op |-> op, id |-> id, wants |-> wants, at |-> at] \in Call
  BY DEF Call
<1>3. /\ call' \in [Admin -> Call]
      /\ \A b \in Admin \ {a} : call'[b] = call[b]
  BY <1>1, <1>2, CallMoves DEF Send
<1>4. ~Restores(call[a])
  BY DEF Send, Restores
<1> QED  BY <1>3, <1>4, QuietKeeps DEF Send

LEMMA PageKeeps ==
  ASSUME IInv, NEW a \in Admin, Page(a)
  PROVE  IInv'
<1>1. CASE Look(a)
  <2>1. [ids |-> jdks, default |-> default] \in [ids : SUBSET Jdk, default : SUBSET Jdk]
    BY DEF IInv, TypeOK
  <2>2. shown' \in [Admin -> [ids : SUBSET Jdk, default : SUBSET Jdk]]
    BY <1>1, <2>1 DEF IInv, TypeOK, Look
  <2>3. UNCHANGED <<jdks, default, used, named, call, left, slipped>>
    BY <1>1 DEF Look, table
  <2>4. TypeOK'
    BY <2>2, <2>3 DEF IInv, TypeOK
  <2> QED  BY <2>3, <2>4 DEF IInv, Restores
<1>2. CASE ScanJdks(a)
  BY <1>2, SendKeeps DEF ScanJdks
<1>3. ASSUME NEW id \in Jdk, SetDefault(a, id) \/ DeleteJdk(a, id)
      PROVE  IInv'
  BY <1>3, SendKeeps DEF SetDefault, DeleteJdk
<1>4. ASSUME NEW wants \in BOOLEAN, CreateJdk(a, wants)
      PROVE  IInv'
  BY <1>4, SendKeeps DEF CreateJdk
<1> QED  BY <1>1, <1>2, <1>3, <1>4 DEF Page

LEMMA ProfileKeeps ==
  ASSUME IInv, NEW id \in Jdk, SaveProfile(id) \/ DropProfiles(id)
  PROVE  IInv'
<1>1. UNCHANGED <<jdks, default, used, shown, call, left, slipped>>
  BY DEF SaveProfile, DropProfiles
<1>2. named' \subseteq jdks
  BY DEF SaveProfile, DropProfiles, IInv
<1>3. jdks \subseteq Jdk
  BY DEF IInv, TypeOK
<1>4. TypeOK'
  BY <1>1, <1>2, <1>3 DEF IInv, TypeOK
<1> QED  BY <1>1, <1>2, <1>4 DEF IInv, Restores

-----------------------------------------------------------------------------
(* The handlers *)

LEMMA LooksKeep ==
  ASSUME IInv, NEW a \in Admin,
         \/ ScanLook(a) \/ FindDefault(a) \/ CountNamed(a) \/ CountDefault(a) \/ Pick(a)
  PROVE  IInv'
<1>1. call \in [Admin -> Call] /\ call[a] \in Call /\ jdks \subseteq Jdk
  BY DEF IInv, TypeOK
<1>2. call[a].id \in Jdk \cup {None}
  BY <1>1 DEF Call
<1>3. UNCHANGED <<table, shown, left, slipped>>
  BY DEF ScanLook, FindDefault, CountNamed, CountDefault, Pick
<1>4. CASE ScanLook(a)
  <2>1. CASE Goes(a, "insert", None)
    <3>1. CASE call[a].op = "scan"
      <4>1. Restores(call'[a])
        BY <1>1, <2>1, <3>1, GoesMoves DEF Restores
      <4> QED  BY <1>1, <1>3, <2>1, <4>1, GoesMoves, QuietKeeps
    <3>2. CASE call[a].op # "scan"
      <4>1. ~Restores(call[a])
        BY <1>4, <3>2 DEF ScanLook, Restores
      <4> QED  BY <1>1, <1>3, <2>1, <4>1, GoesMoves, QuietKeeps
    <3> QED  BY <3>1, <3>2
  <2>2. CASE Goes(a, "count", None)
    <3>1. Restores(call'[a])
      BY <1>1, <2>2, GoesMoves DEF Restores
    <3> QED  BY <1>1, <1>3, <2>2, <3>1, GoesMoves, QuietKeeps
  <2> QED  BY <1>4, <2>1, <2>2 DEF ScanLook
<1>5. CASE FindDefault(a) \/ CountNamed(a)
  <2>1. ~Restores(call[a])
    BY <1>5 DEF FindDefault, CountNamed, Restores
  <2>2. call' \in [Admin -> Call] /\ \A b \in Admin \ {a} : call'[b] = call[b]
    BY <1>1, <1>2, <1>5, GoesMoves, ReturnsMoves DEF FindDefault, CountNamed
  <2> QED  BY <1>3, <2>1, <2>2, QuietKeeps
<1>6. CASE CountDefault(a)
  <2>1. CASE default # {}
    <3>1. Returns(a)
      BY <1>6, <2>1 DEF CountDefault
    <3> QED  BY <1>1, <1>3, <2>1, <3>1, ReturnsMoves, QuietKeeps
  <2>2. CASE default = {}
    <3>1. Goes(a, "pick", None)
      BY <1>6, <2>2 DEF CountDefault
    <3>2. Restores(call'[a])
      BY <1>1, <3>1, GoesMoves DEF Restores
    <3> QED  BY <1>1, <1>3, <3>1, <3>2, GoesMoves, QuietKeeps
  <2> QED  BY <2>1, <2>2
<1>7. CASE Pick(a)
  <2>1. ASSUME NEW id \in jdks, Goes(a, "mark", id)
        PROVE  IInv'
    <3>1. id \in Jdk
      BY <1>1
    <3>2. Restores(call'[a])
      BY <1>1, <2>1, <3>1, GoesMoves DEF Restores
    <3> QED  BY <1>1, <1>3, <2>1, <3>1, <3>2, GoesMoves, QuietKeeps
  <2>2. CASE jdks = {} /\ Returns(a)
    BY <1>1, <1>3, <2>2, ReturnsMoves, QuietKeeps
  <2> QED  BY <1>7, <2>1, <2>2 DEF Pick
<1> QED  BY <1>4, <1>5, <1>6, <1>7

\* The new row is registered, and the call that wrote it goes on to set or to count
\* the default; the others still do.
LEMMA InsertKeeps ==
  ASSUME IInv, NEW a \in Admin, Insert(a)
  PROVE  IInv'
<1>1. call \in [Admin -> Call] /\ call[a] \in Call
  BY DEF IInv, TypeOK
<1>2. UNCHANGED <<default, named, shown, left, slipped>>
  BY DEF Insert
<1>3. ASSUME NEW id \in Jdk \ used,
             jdks' = jdks \cup {id}, used' = used \cup {id},
             \/ call[a].op = "scan" /\ Goes(a, "scan", None)
             \/ call[a].op # "scan" /\ call[a].wants /\ Goes(a, "mark", id)
             \/ call[a].op # "scan" /\ ~call[a].wants /\ Goes(a, "count", None)
      PROVE  IInv'
  <2>1. call' \in [Admin -> Call] /\ Restores(call'[a])
    <3>1. CASE call[a].op = "scan"
      <4>1. Goes(a, "scan", None)
        BY <1>3, <3>1
      <4> QED  BY <1>1, <3>1, <4>1, GoesMoves DEF Restores
    <3>2. CASE call[a].op # "scan"
      <4>1. Goes(a, "mark", id) \/ Goes(a, "count", None)
        BY <1>3, <3>2
      <4> QED  BY <1>1, <4>1, GoesMoves DEF Restores
    <3> QED  BY <3>1, <3>2
  <2>2. (\E b \in Admin : Restores(call[b]))'
    BY <2>1 DEF Restores
  <2>3. TypeOK'
    BY <1>2, <1>3, <2>1 DEF IInv, TypeOK
  <2> QED  BY <1>2, <1>3, <2>2, <2>3 DEF IInv
<1>4. CASE UNCHANGED <<jdks, used>> /\ IF call[a].op = "scan" THEN Goes(a, "scan", None) ELSE Returns(a)
  <2>1. UNCHANGED <<table, shown, left, slipped>>
    BY <1>2, <1>4 DEF table
  <2>2. CASE call[a].op = "scan"
    <3>1. Restores(call'[a])
      BY <1>1, <1>4, <2>2, GoesMoves DEF Restores
    <3> QED  BY <1>1, <1>4, <2>1, <2>2, <3>1, GoesMoves, QuietKeeps
  <2>3. CASE call[a].op # "scan"
    <3>1. ~Restores(call[a])
      BY <2>3 DEF Insert, Restores
    <3> QED  BY <1>1, <1>4, <2>1, <2>3, <3>1, ReturnsMoves, QuietKeeps
  <2> QED  BY <2>2, <2>3
<1> QED  BY <1>3, <1>4 DEF Insert

LEMMA MarkKeeps ==
  ASSUME IInv, NEW a \in Admin, Mark(a)
  PROVE  IInv'
<1>1. call' \in [Admin -> Call]
  BY ReturnsMoves DEF IInv, TypeOK, Mark
<1>2. /\ UNCHANGED <<jdks, used, named, shown, left>>
      /\ default' = {call[a].id} \cap jdks
      /\ slipped' = (call[a].id \notin jdks)
  BY DEF Mark
<1>3. slipped' \in BOOLEAN
  BY <1>2
<1>4. TypeOK'
  BY <1>1, <1>2, <1>3 DEF IInv, TypeOK
<1>5. default' # {} \/ slipped'
  BY <1>2
<1>6. \A i, j \in default' : i = j
  BY <1>2
<1> QED  BY <1>2, <1>4, <1>5, <1>6 DEF IInv

\* The JDK that is deleted is named by no JVM options in the very statement that
\* deletes it, and the call that did it goes on to count the defaults.
LEMMA DeleteKeeps ==
  ASSUME IInv, NEW a \in Admin, DeleteRow(a)
  PROVE  IInv'
<1>1. call \in [Admin -> Call] /\ call[a] \in Call
  BY DEF IInv, TypeOK
<1>2. UNCHANGED <<used, named, shown, left, slipped>>
  BY DEF DeleteRow
<1>3. CASE call[a].id \notin jdks \/ call[a].id \in named
  <2>1. Returns(a) /\ UNCHANGED <<jdks, default>>
    BY <1>3 DEF DeleteRow
  <2>2. UNCHANGED <<table, shown, left, slipped>>
    BY <1>2, <2>1 DEF table
  <2>3. ~Restores(call[a])
    BY DEF DeleteRow, Restores
  <2> QED  BY <1>1, <2>1, <2>2, <2>3, ReturnsMoves, QuietKeeps
<1>4. CASE ~(call[a].id \notin jdks \/ call[a].id \in named)
  <2>1. /\ jdks' = jdks \ {call[a].id} /\ default' = default \ {call[a].id}
        /\ Goes(a, "count", None)
    BY <1>4 DEF DeleteRow
  <2>2. call' \in [Admin -> Call] /\ call'[a].at = "count"
    BY <1>1, <2>1, GoesMoves
  <2>3. (\E b \in Admin : Restores(call[b]))'
    BY <2>2 DEF Restores
  <2>4. TypeOK'
    BY <1>2, <2>1, <2>2 DEF IInv, TypeOK
  <2> QED  BY <1>2, <1>4, <2>1, <2>3, <2>4 DEF IInv
<1> QED  BY <1>3, <1>4

LEMMA HangUpKeeps ==
  ASSUME MaxLeft \in Nat, IInv, NEW a \in Admin, HangUp(a)
  PROVE  IInv'
<1>1. call' \in [Admin -> Call]
  BY ReturnsMoves DEF IInv, TypeOK, HangUp
<1>2. left' \in 0..MaxLeft
  BY DEF IInv, TypeOK, HangUp
<1>3. slipped' = TRUE /\ UNCHANGED <<jdks, default, used, named, shown>>
  BY DEF HangUp, table
<1>4. TypeOK'
  BY <1>1, <1>2, <1>3 DEF IInv, TypeOK
<1> QED  BY <1>3, <1>4 DEF IInv

LEMMA StepKeeps ==
  ASSUME MaxLeft \in Nat, IInv, [Next]_vars
  PROVE  IInv'
<1>1. CASE UNCHANGED vars
  BY <1>1 DEF vars, table, IInv, TypeOK, Restores
<1>2. ASSUME NEW a \in Admin, Handler(a)
      PROVE  IInv'
  BY <1>2, LooksKeep, InsertKeeps, MarkKeeps, DeleteKeeps, HangUpKeeps DEF Handler
<1>3. CASE Next
  BY <1>2, <1>3, PageKeeps, ProfileKeeps DEF Next
<1> QED  BY <1>1, <1>3

-----------------------------------------------------------------------------
(* The theorems *)

\* Every variable of Jdks keeps its type, and no id is registered that was not given
\* out.
THEOREM JdksTyped ==
  ASSUME MaxLeft \in Nat
  PROVE  Spec => []TypeOK
<1>1. Init => IInv
  BY InitInv
<1>2. IInv /\ [Next]_vars => IInv'
  BY StepKeeps
<1>3. IInv => TypeOK
  BY DEF IInv
<1> QED  BY <1>1, <1>2, <1>3, PTL DEF Spec

\* The JVM options never name a JDK that is not registered, although handleDeleteJDK
\* counts them in one statement and deletes in another.
THEOREM NamedExist ==
  ASSUME MaxLeft \in Nat
  PROVE  Spec => []NamedJdksExist
<1>1. Init => IInv
  BY InitInv
<1>2. IInv /\ [Next]_vars => IInv'
  BY StepKeeps
<1>3. IInv => NamedJdksExist
  BY DEF IInv, NamedJdksExist
<1> QED  BY <1>1, <1>2, <1>3, PTL DEF Spec

\* One JDK is the default once every call has returned, however the statements of
\* setDefaultJDK and ensureDefaultJDK fall between those of other calls.
THEOREM DefaultHolds ==
  ASSUME MaxLeft \in Nat
  PROVE  Spec => []OneDefault
<1>1. Init => IInv
  BY InitInv
<1>2. IInv /\ [Next]_vars => IInv'
  BY StepKeeps
<1>3. IInv => OneDefault
  <2>1. ASSUME NEW a \in Admin, call[a] = Idle
        PROVE  ~Restores(call[a])
    BY <2>1 DEF Idle, Restores
  <2> QED  BY <2>1 DEF IInv, OneDefault
<1> QED  BY <1>1, <1>2, <1>3, PTL DEF Spec

=============================================================================
