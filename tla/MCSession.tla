----------------------------- MODULE MCSession -----------------------------
(***************************************************************************)
(* Accounts and administration on small instances: the tabs of one browser *)
(* (Session), the frame that is there while one is signed in (Chrome), and *)
(* the administration of the accounts (Users), of the JDKs (Jdks) and of   *)
(* the banned addresses (Bans).  They share no state here, so a behaviour  *)
(* follows one of them and leaves the others as they start: the state      *)
(* space is the sum of theirs and not the product.                         *)
(***************************************************************************)
EXTENDS Session, TLC

CONSTANTS
  Person, Path, Jdk, Address,
  MaxRequests,  \* bound: calls of Users under way
  MaxLeft,      \* bound: clients of Jdks that hang up
  MaxBans       \* bound: calls of Bans under way

VARIABLES
  followed,                                         \* the part that moves
  account, table, used, pending,                    \* Users
  signedIn, narrow, path, menuOpen, scroll, before, \* Chrome
  jdks, default, taken, named, shown, call, left, slipped,  \* Jdks
  banned, blocked, listed, bans, mixed              \* Bans

usersVars == <<account, table, used, pending>>
frameVars == <<signedIn, narrow, path, menuOpen, scroll, before>>
jdkVars   == <<jdks, default, taken, named, shown, call, left, slipped>>
banVars   == <<banned, blocked, listed, bans, mixed>>

Accounts == INSTANCE Users WITH User <- Person
Frame    == INSTANCE Chrome
JdkTable == INSTANCE Jdks WITH Admin <- Tab, used <- taken
BanList  == INSTANCE Bans WITH calls <- bans, MaxCalls <- MaxBans

ASSUME PartsAssumption ==
  /\ MaxRequests \in Nat /\ MaxLeft \in Nat /\ MaxBans \in Nat
  /\ None \notin Accounts!Account

\* A part that is not followed starts in one way only.
AccountsInit ==
  /\ followed \in {"session", "users", "frame", "jdks", "bans"}
  /\ Init
  /\ Accounts!Init /\ (followed # "users" => used = {CHOOSE p \in Person : TRUE})
  /\ Frame!Init /\ (followed # "frame" => signedIn /\ narrow /\ path = CHOOSE p \in Path : TRUE)
  /\ JdkTable!Init /\ BanList!Init

AccountsNext ==
  /\ UNCHANGED followed
  /\ \/ followed = "session" /\ Next
        /\ UNCHANGED <<usersVars, frameVars, jdkVars, banVars>>
     \/ followed = "users" /\ Accounts!Next
        /\ UNCHANGED <<vars, frameVars, jdkVars, banVars>>
     \/ followed = "frame" /\ Frame!Next
        /\ UNCHANGED <<vars, usersVars, jdkVars, banVars>>
     \/ followed = "jdks" /\ JdkTable!Next
        /\ UNCHANGED <<vars, usersVars, frameVars, banVars>>
     \/ followed = "bans" /\ BanList!Next
        /\ UNCHANGED <<vars, usersVars, frameVars, jdkVars>>

AccountsSpec ==
  AccountsInit /\ [][AccountsNext]_<<followed, vars, usersVars, frameVars, jdkVars, banVars>>

\* Every variable of the part that is followed keeps its type.
AllTypesOK ==
  CASE followed = "session" -> TypeOK
    [] followed = "users"   -> Accounts!TypeOK
    [] followed = "frame"   -> Frame!TypeOK
    [] followed = "jdks"    -> JdkTable!TypeOK
    [] followed = "bans"    -> BanList!TypeOK

\* The installation can always be administered (Users).
AnAdminRemains == followed = "users" => Accounts!AnAdminRemains

\* The document scrolls exactly when no sheet covers it (Chrome).
LockedWhileOpen == followed = "frame" => Frame!LockedWhileOpen

\* JVM options name registered JDKs only (Jdks).
NamedJdksExist == followed = "jdks" => JdkTable!NamedJdksExist

\* One JDK is the default (Jdks).
OneDefault == followed = "jdks" => JdkTable!OneDefault

\* A restart changes nothing about who is banned (Bans).
RestartChangesNothing == followed = "bans" => BanList!RestartChangesNothing

\* The function that swaps the elements of s, and those of t with them: a set of two
\* elements each.
Swap(s, t) == [x \in s \cup t |-> CHOOSE y \in IF x \in s THEN s ELSE t : y # x]

\* Tabs, accounts and sessions are interchangeable, and so are JDKs and addresses;
\* where one of two parts rests, their permutations may go together.
Symmetric == Permutations(Tab) \cup {Swap(User, Jdk), Swap(Session, Address)}

=============================================================================
