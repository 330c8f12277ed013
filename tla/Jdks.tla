-------------------------------- MODULE Jdks --------------------------------
(***************************************************************************)
(* The registered JDKs (api/jdks.go, tables jdks and jvm_profiles), one of *)
(* which is the default, and the page of each administrator that shows     *)
(* them (pages/Jdks.tsx).                                                  *)
(*                                                                         *)
(* A step is one SQL statement or one transaction: the database has one    *)
(* connection, and the handlers look and write in separate statements.     *)
(* Left open are which installations a scan finds registered already, and  *)
(* which JDK ensureDefaultJDK promotes (the newest major version).         *)
(***************************************************************************)
EXTENDS Naturals, FiniteSets

CONSTANTS
  Jdk,      \* ids; none is given out twice
  Admin,    \* administrators, each with one call under way (useAction)
  None,     \* no JDK
  MaxLeft   \* bound: clients that hang up

VARIABLES
  jdks,      \* registered ids
  default,   \* the ids whose is_default is set
  used,      \* ids given out
  named,     \* ids that a revision of some JVM options names
  shown,     \* jdks.data of each page: the ids, and which of them are the default
  call,      \* the call of each administrator, as far as the server has got
  left,      \* clients that have hung up so far
  slipped    \* history: since a default was last set, a JDK was gone when it was to become
             \* the default, or a client hung up

table == <<jdks, default, used, named>>
vars  == <<table, shown, call, left, slipped>>

\* "at" is the next statement of the handler, "wants" the call's isDefault.
Call == [op : {"scan", "create", "default", "delete"}, id : Jdk \cup {None}, wants : BOOLEAN,
         at : {"idle", "scan", "insert", "look", "mark", "refs", "delete", "count", "pick"}]

Idle == [op |-> "scan", id |-> None, wants |-> FALSE, at |-> "idle"]

Init ==
  /\ jdks = {} /\ default = {} /\ used = {} /\ named = {}
  /\ shown = [a \in Admin |-> [ids |-> {}, default |-> {}]]
  /\ call = [a \in Admin |-> Idle]
  /\ left = 0 /\ slipped = FALSE

-----------------------------------------------------------------------------
(* The page *)

\* The poll lands: asked and answered in one step.
Look(a) ==
  /\ shown' = [shown EXCEPT ![a] = [ids |-> jdks, default |-> default]]
  /\ UNCHANGED <<table, call, left, slipped>>

Send(a, op, id, wants, at) ==
  /\ call[a].at = "idle"
  /\ call' = [call EXCEPT ![a] = [op |-> op, id |-> id, wants |-> wants, at |-> at]]
  /\ UNCHANGED <<table, shown, left, slipped>>

\* The button that looks for installations.
ScanJdks(a) == Send(a, "scan", None, FALSE, "scan")

\* The two buttons of a row that is not shown as the default.
RowButton(a, id)  == id \in shown[a].ids \ shown[a].default
SetDefault(a, id) == RowButton(a, id) /\ Send(a, "default", id, TRUE, "look")
DeleteJdk(a, id)  == RowButton(a, id) /\ Send(a, "delete", id, FALSE, "refs")

\* handleCreateJDK, which the page does not offer.
CreateJdk(a, wants) == Send(a, "create", None, wants, "insert")

-----------------------------------------------------------------------------
(* The server *)

Goes(a, at, id) ==
  call' = [call EXCEPT ![a] = [op |-> call[a].op, id |-> id, wants |-> call[a].wants, at |-> at]]

Returns(a) == call' = [call EXCEPT ![a] = Idle]

\* handleScanJDKs: the next installation that is not registered, or no more of them.
ScanLook(a) ==
  /\ call[a].at = "scan"
  /\ Goes(a, "insert", None) \/ Goes(a, "count", None)
  /\ UNCHANGED <<table, shown, left, slipped>>

\* The row of a JDK, or a refusal because its name is taken, which a scan skips.
Insert(a) ==
  /\ call[a].at = "insert"
  /\ \/ \E id \in Jdk \ used :
          /\ jdks' = jdks \cup {id} /\ used' = used \cup {id}
          /\ \/ call[a].op = "scan" /\ Goes(a, "scan", None)
             \/ call[a].op # "scan" /\ call[a].wants /\ Goes(a, "mark", id)
             \/ call[a].op # "scan" /\ ~call[a].wants /\ Goes(a, "count", None)
     \/ /\ UNCHANGED <<jdks, used>>
        /\ IF call[a].op = "scan" THEN Goes(a, "scan", None) ELSE Returns(a)
  /\ UNCHANGED <<default, named, shown, left, slipped>>

\* handleSetDefaultJDK looks whether the JDK is there ...
FindDefault(a) ==
  /\ call[a].at = "look"
  /\ IF call[a].id \in jdks THEN Goes(a, "mark", call[a].id) ELSE Returns(a)
  /\ UNCHANGED <<table, shown, left, slipped>>

\* ... and setDefaultJDK clears every flag and sets the one, in a transaction that does
\* not look again.
Mark(a) ==
  /\ call[a].at = "mark" /\ Returns(a)
  /\ default' = {call[a].id} \cap jdks
  /\ slipped' = (call[a].id \notin jdks)
  /\ UNCHANGED <<jdks, used, named, shown, left>>

\* handleDeleteJDK counts the revisions that name the JDK ...
CountNamed(a) ==
  /\ call[a].at = "refs"
  /\ IF call[a].id \in named THEN Returns(a) ELSE Goes(a, "delete", call[a].id)
  /\ UNCHANGED <<table, shown, left, slipped>>

\* Wrong variant of DeleteRow: the database does not keep the foreign key.
DeleteRowUnchecked(a) ==
  /\ call[a].at = "delete"
  /\ IF call[a].id \notin jdks
     THEN Returns(a) /\ UNCHANGED <<jdks, default>>
     ELSE /\ jdks' = jdks \ {call[a].id} /\ default' = default \ {call[a].id}
          /\ Goes(a, "count", None)
  /\ UNCHANGED <<used, named, shown, left, slipped>>

\* Wrong variant of DeleteRow: no other JDK is promoted.
DeleteRowOnly(a) ==
  /\ call[a].at = "delete" /\ Returns(a)
  /\ IF call[a].id \in named
     THEN UNCHANGED <<jdks, default>>
     ELSE jdks' = jdks \ {call[a].id} /\ default' = default \ {call[a].id}
  /\ UNCHANGED <<used, named, shown, left, slipped>>

\* ... and deletes its row, which the foreign key of jvm_profiles may still refuse.
DeleteRow(a) ==
  /\ call[a].at = "delete"
  /\ IF call[a].id \notin jdks \/ call[a].id \in named
     THEN Returns(a) /\ UNCHANGED <<jdks, default>>
     ELSE /\ jdks' = jdks \ {call[a].id} /\ default' = default \ {call[a].id}
          /\ Goes(a, "count", None)
  /\ UNCHANGED <<used, named, shown, left, slipped>>

\* ensureDefaultJDK counts the defaults ...
CountDefault(a) ==
  /\ call[a].at = "count"
  /\ IF default # {} THEN Returns(a) ELSE Goes(a, "pick", None)
  /\ UNCHANGED <<table, shown, left, slipped>>

\* ... and picks a JDK to be the default.
Pick(a) ==
  /\ call[a].at = "pick"
  /\ \/ \E id \in jdks : Goes(a, "mark", id)
     \/ jdks = {} /\ Returns(a)
  /\ UNCHANGED <<table, shown, left, slipped>>

\* The context of the request is done, and its next statement fails.
HangUp(a) ==
  /\ call[a].at # "idle" /\ left < MaxLeft
  /\ left' = left + 1 /\ slipped' = TRUE /\ Returns(a)
  /\ UNCHANGED <<table, shown>>

\* An operator saves JVM options that name a registered JDK ...
SaveProfile(id) ==
  /\ id \in jdks /\ named' = named \cup {id}
  /\ UNCHANGED <<jdks, default, used, shown, call, left, slipped>>

\* ... and the application they belong to is deleted, and its options with it.
DropProfiles(id) ==
  /\ id \in named /\ named' = named \ {id}
  /\ UNCHANGED <<jdks, default, used, shown, call, left, slipped>>

Page(a) ==
  \/ Look(a) \/ ScanJdks(a)
  \/ \E id \in Jdk : SetDefault(a, id) \/ DeleteJdk(a, id)
  \/ \E wants \in BOOLEAN : CreateJdk(a, wants)

Handler(a) ==
  \/ ScanLook(a) \/ Insert(a) \/ FindDefault(a) \/ Mark(a) \/ CountNamed(a)
  \/ DeleteRow(a) \/ CountDefault(a) \/ Pick(a) \/ HangUp(a)

Next ==
  \/ \E a \in Admin : Page(a) \/ Handler(a)
  \/ \E id \in Jdk : SaveProfile(id) \/ DropProfiles(id)

Spec == Init /\ [][Next]_vars

-----------------------------------------------------------------------------
(* Properties *)

\* Every variable keeps its type.
TypeOK ==
  /\ jdks \subseteq used /\ used \subseteq Jdk /\ default \subseteq Jdk /\ named \subseteq Jdk
  /\ shown \in [Admin -> [ids : SUBSET Jdk, default : SUBSET Jdk]]
  /\ call \in [Admin -> Call]
  /\ left \in 0..MaxLeft /\ slipped \in BOOLEAN

\* JVM options never name a JDK that is not registered, although the deletion counts
\* them in a statement of its own (handleDeleteJDK).
NamedJdksExist == named \subseteq jdks

\* No two JDKs are the default, and once every call has returned one of those that
\* are registered is, unless the one that was to be it was deleted meanwhile or the
\* client that deleted the old one has hung up (setDefaultJDK, ensureDefaultJDK).
OneDefault ==
  /\ \A i, j \in default : i = j
  /\ (\A a \in Admin : call[a] = Idle) /\ jdks # {} /\ ~slipped => default # {}

=============================================================================
