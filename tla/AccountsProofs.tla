--------------------------- MODULE AccountsProofs ---------------------------
(***************************************************************************)
(* The composition MCSession proved, for any number of tabs, accounts,     *)
(* sessions, JDKs and addresses and every bound.  What modules             *)
(* SessionProofs, UsersProofs and JdksProofs show of a part is carried     *)
(* over; the frame and the list of bans are proved here.  A part that is   *)
(* not followed stands still, so each part's invariant holds throughout.   *)
(***************************************************************************)
EXTENDS MCSession, SessionProofs

Roles    == INSTANCE UsersProofs WITH User <- Person
Registry == INSTANCE JdksProofs WITH Admin <- Tab, used <- taken

-----------------------------------------------------------------------------
(***************************************************************************)
(* The accounts and the JDKs: the modules the proofs are about are those   *)
(* that are composed.                                                      *)
(***************************************************************************)

LEMMA SameAccounts ==
  /\ Accounts!Account = Roles!Account /\ Accounts!Role = Roles!Role
  /\ Accounts!Request = Roles!Request
  /\ Accounts!Admins = Roles!Admins
  /\ \A a : Accounts!IsAdmin(a) <=> Roles!IsAdmin(a)
  /\ \A id : Accounts!LastAdmin(id) <=> Roles!LastAdmin(id)
  /\ \A r : Accounts!Answer(r) <=> Roles!Answer(r)
  /\ \A me, op, id, role, disabled :
       Accounts!Send(me, op, id, role, disabled) <=> Roles!Send(me, op, id, role, disabled)
<1>1. \A a : Accounts!IsAdmin(a) <=> Roles!IsAdmin(a)
  BY DEF Accounts!IsAdmin, Roles!IsAdmin
<1>2. /\ Accounts!Role = Roles!Role
      /\ Accounts!Admins = Roles!Admins
  BY <1>1 DEF Accounts!Role, Roles!Role, Accounts!Admins, Roles!Admins
<1>3. /\ Accounts!Account = Roles!Account /\ Accounts!Request = Roles!Request
  BY <1>2 DEF Accounts!Account, Roles!Account, Accounts!Request, Roles!Request
<1>4. \A id : Accounts!LastAdmin(id) <=> Roles!LastAdmin(id)
  BY <1>2 DEF Accounts!LastAdmin, Roles!LastAdmin
<1>5. \A r : Accounts!Answer(r) <=> Roles!Answer(r)
  BY DEF Accounts!Answer, Roles!Answer
<1>6. \A me, op, id, role, disabled :
       Accounts!Send(me, op, id, role, disabled) <=> Roles!Send(me, op, id, role, disabled)
  BY DEF Accounts!Send, Roles!Send, Accounts!Cardinality, Roles!Cardinality
<1> QED
  BY <1>1, <1>2, <1>3, <1>4, <1>5, <1>6

LEMMA SameAccountsInit == Accounts!Init => Roles!Init
  BY DEF Accounts!Init, Roles!Init

LEMMA SameAccountsNext == Accounts!Next => Roles!Next
<1>1. ASSUME NEW me, NEW id, NEW role
      PROVE  /\ Accounts!Look(me) => Roles!Look(me)
             /\ Accounts!Toggle(me, id) => Roles!Toggle(me, id)
             /\ Accounts!Remove(me, id) => Roles!Remove(me, id)
             /\ Accounts!ChooseRole(me, id, role) => Roles!ChooseRole(me, id, role)
             /\ Accounts!Add(me, role) => Roles!Add(me, role)
  BY SameAccounts DEF Accounts!Look, Roles!Look, Accounts!Toggle, Roles!Toggle, Accounts!Remove,
     Roles!Remove, Accounts!ChooseRole, Roles!ChooseRole, Accounts!Add, Roles!Add
<1>2. ASSUME NEW r
      PROVE  /\ Accounts!Admit(r) => Roles!Admit(r)
             /\ Accounts!SetUserState(r) => Roles!SetUserState(r)
             /\ Accounts!DeleteUser(r) => Roles!DeleteUser(r)
             /\ Accounts!CreateUser(r) => Roles!CreateUser(r)
  BY SameAccounts DEF Accounts!Admit, Roles!Admit, Accounts!SetUserState, Roles!SetUserState,
     Accounts!DeleteUser, Roles!DeleteUser, Accounts!CreateUser, Roles!CreateUser
<1> QED
  BY <1>1, <1>2, SameAccounts DEF Accounts!Next, Roles!Next

LEMMA SameAccountsGoals ==
  /\ Roles!TypeOK => Accounts!TypeOK
  /\ Roles!AnAdminRemains => Accounts!AnAdminRemains
  BY SameAccounts DEF Accounts!TypeOK, Roles!TypeOK, Accounts!AnAdminRemains, Roles!AnAdminRemains

LEMMA SameJdks ==
  /\ JdkTable!Call = Registry!Call /\ JdkTable!Idle = Registry!Idle
  /\ JdkTable!table = Registry!table /\ JdkTable!table' = Registry!table'
  /\ \A a : JdkTable!Returns(a) <=> Registry!Returns(a)
  /\ \A a, at, id : JdkTable!Goes(a, at, id) <=> Registry!Goes(a, at, id)
  /\ \A a, op, id, wants, at :
       JdkTable!Send(a, op, id, wants, at) <=> Registry!Send(a, op, id, wants, at)
  /\ \A a, id : JdkTable!RowButton(a, id) <=> Registry!RowButton(a, id)
  BY DEF JdkTable!Call, Registry!Call, JdkTable!Idle, Registry!Idle, JdkTable!table,
     Registry!table, JdkTable!Returns, Registry!Returns, JdkTable!Goes, Registry!Goes,
     JdkTable!Send, Registry!Send, JdkTable!RowButton, Registry!RowButton

LEMMA SameJdksInit == JdkTable!Init => Registry!Init
  BY SameJdks DEF JdkTable!Init, Registry!Init

LEMMA SameJdksNext == JdkTable!Next => Registry!Next
<1>1. ASSUME NEW a, NEW id, NEW wants
      PROVE  /\ JdkTable!Look(a) => Registry!Look(a)
             /\ JdkTable!ScanJdks(a) => Registry!ScanJdks(a)
             /\ JdkTable!SetDefault(a, id) => Registry!SetDefault(a, id)
             /\ JdkTable!DeleteJdk(a, id) => Registry!DeleteJdk(a, id)
             /\ JdkTable!CreateJdk(a, wants) => Registry!CreateJdk(a, wants)
  BY SameJdks DEF JdkTable!Look, Registry!Look, JdkTable!ScanJdks, Registry!ScanJdks,
     JdkTable!SetDefault, Registry!SetDefault, JdkTable!DeleteJdk, Registry!DeleteJdk,
     JdkTable!CreateJdk, Registry!CreateJdk
<1>2. ASSUME NEW a
      PROVE  /\ JdkTable!ScanLook(a) => Registry!ScanLook(a)
             /\ JdkTable!Insert(a) => Registry!Insert(a)
             /\ JdkTable!FindDefault(a) => Registry!FindDefault(a)
             /\ JdkTable!Mark(a) => Registry!Mark(a)
             /\ JdkTable!CountNamed(a) => Registry!CountNamed(a)
             /\ JdkTable!DeleteRow(a) => Registry!DeleteRow(a)
             /\ JdkTable!CountDefault(a) => Registry!CountDefault(a)
             /\ JdkTable!Pick(a) => Registry!Pick(a)
             /\ JdkTable!HangUp(a) => Registry!HangUp(a)
  BY SameJdks DEF JdkTable!ScanLook, Registry!ScanLook, JdkTable!Insert, Registry!Insert,
     JdkTable!FindDefault, Registry!FindDefault, JdkTable!Mark, Registry!Mark,
     JdkTable!CountNamed, Registry!CountNamed, JdkTable!DeleteRow, Registry!DeleteRow,
     JdkTable!CountDefault, Registry!CountDefault, JdkTable!Pick, Registry!Pick,
     JdkTable!HangUp, Registry!HangUp
<1>3. ASSUME NEW id
      PROVE  /\ JdkTable!SaveProfile(id) => Registry!SaveProfile(id)
             /\ JdkTable!DropProfiles(id) => Registry!DropProfiles(id)
  BY DEF JdkTable!SaveProfile, Registry!SaveProfile, JdkTable!DropProfiles, Registry!DropProfiles
<1> QED
  BY <1>1, <1>2, <1>3 DEF JdkTable!Next, Registry!Next, JdkTable!Page, Registry!Page,
     JdkTable!Handler, Registry!Handler

LEMMA SameJdksGoals ==
  /\ Registry!TypeOK => JdkTable!TypeOK
  /\ Registry!IInv => JdkTable!NamedJdksExist /\ JdkTable!OneDefault
<1>1. Registry!TypeOK => JdkTable!TypeOK
  BY SameJdks DEF JdkTable!TypeOK, Registry!TypeOK
<1>2. ASSUME NEW a \in Tab, call[a] = JdkTable!Idle PROVE ~Registry!Restores(call[a])
  BY <1>2 DEF JdkTable!Idle, Registry!Restores
<1> QED
  BY <1>1, <1>2 DEF Registry!IInv, JdkTable!NamedJdksExist, JdkTable!OneDefault

-----------------------------------------------------------------------------
(***************************************************************************)
(* The frame: the sheet is open exactly while the effect that set the      *)
(* style runs, so that its cleanup always puts back what it found.         *)
(***************************************************************************)

FrameInv ==
  /\ Frame!TypeOK
  /\ before \in {"none", "auto"}
  /\ before # "none" <=> menuOpen
  /\ scroll = "hidden" <=> menuOpen
  /\ menuOpen => signedIn /\ narrow

LEMMA FrameInit == Frame!Init => FrameInv
  BY DEF Frame!Init, FrameInv, Frame!TypeOK

\* A render keeps the style and the sheet together, whatever of the frame goes.
LEMMA FrameRenders ==
  ASSUME FrameInv, NEW open \in BOOLEAN, Frame!Render(open),
         signedIn' \in BOOLEAN, narrow' \in BOOLEAN, path' \in Path
  PROVE  FrameInv'
<1> DEFINE shows == open /\ signedIn' /\ narrow'
<1>1. menuOpen' = shows /\ Frame!Effect(menuOpen') /\ shows \in BOOLEAN
  BY DEF Frame!Render
<1>2. CASE menuOpen' <=> menuOpen
  <2>1. UNCHANGED <<scroll, before>>
    BY <1>1, <1>2 DEF Frame!Effect, FrameInv
  <2> QED
    BY <1>1, <1>2, <2>1 DEF FrameInv, Frame!TypeOK
<1>3. CASE menuOpen' /\ ~menuOpen
  <2>1. before' = scroll /\ scroll' = "hidden" /\ scroll = "auto"
    BY <1>1, <1>3 DEF Frame!Effect, FrameInv, Frame!TypeOK
  <2> QED
    BY <1>1, <1>3, <2>1 DEF FrameInv, Frame!TypeOK
<1>4. CASE ~menuOpen' /\ menuOpen
  <2>1. scroll' = before /\ before' = "none" /\ before = "auto"
    BY <1>1, <1>4 DEF Frame!Effect, FrameInv
  <2> QED
    BY <1>1, <1>4, <2>1 DEF FrameInv, Frame!TypeOK
<1> QED
  BY <1>1, <1>2, <1>3, <1>4

LEMMA FrameStep == ASSUME FrameInv, [Frame!Next]_frameVars PROVE FrameInv'
<1>1. signedIn \in BOOLEAN /\ narrow \in BOOLEAN /\ path \in Path /\ menuOpen \in BOOLEAN
  BY DEF FrameInv, Frame!TypeOK
<1>2. CASE Frame!ToggleMenu
  <2>1. (~menuOpen) \in BOOLEAN /\ UNCHANGED <<signedIn, narrow, path>> /\ Frame!Render(~menuOpen)
    BY <1>2 DEF Frame!ToggleMenu
  <2> QED
    BY <1>1, <2>1, FrameRenders
<1>3. CASE Frame!CloseMenu
  BY <1>1, <1>3, FrameRenders DEF Frame!CloseMenu
<1>4. CASE Frame!Resize
  BY <1>1, <1>4, FrameRenders DEF Frame!Resize
<1>5. CASE Frame!Leave
  BY <1>1, <1>5, FrameRenders DEF Frame!Leave
<1>6. CASE Frame!Enter
  BY <1>1, <1>6, FrameRenders DEF Frame!Enter
<1>7. ASSUME NEW to \in Path, Frame!Navigate(to) PROVE FrameInv'
  BY <1>1, <1>7, FrameRenders DEF Frame!Navigate
<1>8. CASE UNCHANGED frameVars
  BY <1>8 DEF frameVars, FrameInv, Frame!TypeOK
<1> QED
  BY <1>2, <1>3, <1>4, <1>5, <1>6, <1>7, <1>8 DEF Frame!Next

-----------------------------------------------------------------------------
(***************************************************************************)
(* The banned addresses: a call that got to the table and not yet to the   *)
(* copy says of its address what the table says, unless a call of the      *)
(* other kind has crossed it.                                              *)
(***************************************************************************)

BansInv ==
  /\ BanList!TypeOK
  /\ \A c \in bans : c.at = "memory" /\ ~c.crossed => (c.op = "ban" <=> c.ip \in banned)
  /\ BanList!RestartChangesNothing

LEMMA BansInit == BanList!Init => BansInv
  BY DEF BanList!Init, BansInv, BanList!TypeOK, BanList!RestartChangesNothing

LEMMA BanStarts ==
  ASSUME BansInv, NEW number \in 0..MaxBans, NEW op \in {"ban", "unban"}, NEW ip \in Address,
         BanList!Starts(number, op, ip)
  PROVE  BansInv'
<1> DEFINE c == [number |-> number, op |-> op, ip |-> ip, at |-> "table", crossed |-> FALSE]
<1>1. /\ bans' = bans \cup {c} /\ \A d \in bans : d.number # number
      /\ UNCHANGED <<banned, blocked, listed, mixed>>
  BY DEF BanList!Starts
<1>2. c \in BanList!Call /\ c.number = number /\ c.at = "table"
  BY DEF BanList!Call
<1> HIDE DEF c
<1>3. BanList!TypeOK'
  <2>1. \A d, e \in bans' : d.number = e.number => d = e
    BY <1>1, <1>2 DEF BansInv, BanList!TypeOK
  <2>2. bans' \subseteq BanList!Call
    BY <1>1, <1>2 DEF BansInv, BanList!TypeOK
  <2> QED
    BY <1>1, <2>1, <2>2 DEF BansInv, BanList!TypeOK
<1>4. \A d \in bans' : d.at = "memory" => d \in bans
  BY <1>1, <1>2
<1>5. BanList!RestartChangesNothing'
  BY <1>1 DEF BansInv, BanList!RestartChangesNothing
<1> QED
  BY <1>1, <1>3, <1>4, <1>5 DEF BansInv

LEMMA BanWritesTable ==
  ASSUME BansInv, NEW c \in bans, BanList!WriteTable(c)
  PROVE  BansInv'
<1> DEFINE over == {d \in bans : d.ip = c.ip /\ d.op # c.op /\ d.at = "memory"}
           Now(d) == [number |-> d.number, op |-> d.op, ip |-> d.ip, at |-> "memory",
                      crossed |-> d # c \/ over # {}]
<1>1. /\ banned' = (IF c.op = "ban" THEN banned \cup {c.ip} ELSE banned \ {c.ip})
      /\ bans' = (bans \ ({c} \cup over)) \cup {Now(d) : d \in {c} \cup over}
      /\ c.at = "table" /\ UNCHANGED <<blocked, listed, mixed>>
  BY DEF BanList!WriteTable
<1>2. /\ bans \subseteq BanList!Call /\ \A d, e \in bans : d.number = e.number => d = e
      /\ banned \subseteq Address /\ blocked \subseteq Address /\ listed \subseteq Address
      /\ mixed \subseteq Address
  BY DEF BansInv, BanList!TypeOK
<1>3. \A d \in bans : d.number \in 0..MaxBans /\ d.op \in {"ban", "unban"} /\ d.ip \in Address
  BY <1>2 DEF BanList!Call
<1>4. \A d \in bans : /\ Now(d) \in BanList!Call /\ Now(d).number = d.number
                      /\ Now(d).op = d.op /\ Now(d).ip = d.ip
                      /\ Now(d).crossed = (d # c \/ over # {})
  BY <1>3 DEF BanList!Call
<1>5. {c} \cup over \subseteq bans /\ c \notin over
  BY <1>1
<1> HIDE DEF Now
<1>6. \A e \in bans' : \/ e \in bans \ ({c} \cup over)
                       \/ \E d \in {c} \cup over : e = Now(d)
  BY <1>1
<1>7. BanList!TypeOK'
  <2>1. bans' \subseteq BanList!Call
    BY <1>2, <1>4, <1>5, <1>6
  <2>2. \A d, e \in bans' : d.number = e.number => d = e
    BY <1>2, <1>4, <1>5, <1>6
  <2>3. banned' \subseteq Address
    BY <1>1, <1>2, <1>3
  <2> QED
    BY <1>1, <1>2, <2>1, <2>2, <2>3 DEF BanList!TypeOK
<1>8. ASSUME NEW e \in bans', e.at = "memory", ~e.crossed PROVE e.op = "ban" <=> e.ip \in banned'
  <2>1. CASE e \in bans \ ({c} \cup over)
    <3>1. e.op = "ban" <=> e.ip \in banned
      BY <1>8, <2>1 DEF BansInv
    <3>2. e.ip = c.ip => e.op = c.op
      BY <1>8, <2>1
    <3> QED
      BY <1>1, <3>1, <3>2
  <2>2. ASSUME NEW d \in {c} \cup over, e = Now(d) PROVE e.op = "ban" <=> e.ip \in banned'
    <3>1. d = c
      BY <1>4, <1>5, <1>8, <2>2
    <3> QED
      BY <1>1, <1>4, <2>2, <3>1
  <2> QED
    BY <1>6, <2>1, <2>2
<1>9. ASSUME NEW ip \in Address \ mixed', \A e \in bans' : e.ip = ip => e.at = "table"
      PROVE  ip \in blocked' <=> ip \in banned'
  <2>1. Now(c) \in bans' /\ Now(c).at = "memory"
    BY <1>1 DEF Now
  <2>2. ip # c.ip
    BY <1>4, <1>9, <2>1
  <2>3. \A d \in bans : d.ip = ip => d \in bans'
    BY <1>1, <1>5, <2>2
  <2>4. ip \in blocked <=> ip \in banned
    BY <1>1, <1>9, <2>3 DEF BansInv, BanList!RestartChangesNothing
  <2> QED
    BY <1>1, <2>2, <2>4
<1> QED
  BY <1>7, <1>8, <1>9 DEF BansInv, BanList!RestartChangesNothing

LEMMA BanWritesMemory ==
  ASSUME BansInv, NEW c \in bans, BanList!WriteMemory(c)
  PROVE  BansInv'
<1>1. /\ c.at = "memory" /\ bans' = bans \ {c}
      /\ blocked' = (IF c.op = "ban" THEN blocked \cup {c.ip} ELSE blocked \ {c.ip})
      /\ mixed' = (IF c.crossed THEN mixed \cup {c.ip} ELSE mixed \ {c.ip})
      /\ UNCHANGED <<banned, listed>>
  BY DEF BanList!WriteMemory
<1>2. c.ip \in Address
  BY DEF BansInv, BanList!TypeOK, BanList!Call
<1>3. BanList!TypeOK'
  BY <1>1, <1>2 DEF BansInv, BanList!TypeOK
<1>4. ASSUME NEW ip \in Address \ mixed', \A e \in bans' : e.ip = ip => e.at = "table"
      PROVE  ip \in blocked' <=> ip \in banned'
  <2>1. CASE ip = c.ip
    <3>1. ~c.crossed
      BY <1>1, <1>4, <2>1
    <3> QED
      BY <1>1, <2>1, <3>1 DEF BansInv
  <2>2. CASE ip # c.ip
    <3>1. ip \notin mixed /\ \A e \in bans : e.ip = ip => e.at = "table"
      BY <1>1, <1>4, <2>2
    <3> QED
      BY <1>1, <2>2, <3>1 DEF BansInv, BanList!RestartChangesNothing
  <2> QED
    BY <2>1, <2>2
<1> QED
  BY <1>1, <1>3, <1>4 DEF BansInv, BanList!RestartChangesNothing

LEMMA BanStep == ASSUME BansInv, [BanList!Next]_banVars PROVE BansInv'
<1>1. CASE BanList!Look \/ UNCHANGED banVars
  BY <1>1 DEF BanList!Look, banVars, BansInv, BanList!TypeOK, BanList!RestartChangesNothing
<1>2. CASE BanList!Reboot
  BY <1>2 DEF BanList!Reboot, BansInv, BanList!TypeOK, BanList!RestartChangesNothing
<1>3. ASSUME NEW ip \in Address, BanList!Add(ip) \/ BanList!Remove(ip) \/ BanList!AutoBan(ip)
      PROVE  BansInv'
  <2>1. \E number \in 0..MaxBans, op \in {"ban", "unban"} : BanList!Starts(number, op, ip)
    BY <1>3, PartsAssumption DEF BanList!Add, BanList!Remove, BanList!AutoBan
  <2> QED
    BY <2>1, BanStarts
<1>4. ASSUME NEW c \in bans, BanList!Fails(c) PROVE BansInv'
  BY <1>4 DEF BanList!Fails, BansInv, BanList!TypeOK, BanList!RestartChangesNothing
<1> QED
  BY <1>1, <1>2, <1>3, <1>4, BanWritesTable, BanWritesMemory DEF BanList!Next

-----------------------------------------------------------------------------
(***************************************************************************)
(* The composition.                                                        *)
(***************************************************************************)

Parts == {"session", "users", "frame", "jdks", "bans"}

AccountsInv ==
  followed \in Parts /\ IInv /\ Roles!IInv /\ FrameInv /\ Registry!IInv /\ BansInv

LEMMA AccountsBegin == AccountsInit => AccountsInv
<1> SUFFICES ASSUME AccountsInit PROVE AccountsInv
  OBVIOUS
<1>1. None \notin Roles!Account
  BY PartsAssumption, SameAccounts
<1>2. IInv
  BY InitInv DEF AccountsInit
<1>3. Roles!IInv
  BY <1>1, SameAccountsInit, Roles!InitInv DEF AccountsInit
<1>4. Registry!IInv
  BY PartsAssumption, SameJdksInit, Registry!InitInv DEF AccountsInit
<1> QED
  BY <1>2, <1>3, <1>4, FrameInit, BansInit DEF AccountsInit, AccountsInv, Parts

\* The part that is followed takes a step, and the others none.
LEMMA AccountsStep ==
  ASSUME AccountsInv,
         [AccountsNext]_<<followed, vars, usersVars, frameVars, jdkVars, banVars>>
  PROVE  AccountsInv'
<1>1. /\ followed' = followed
      /\ [Next]_vars /\ [Accounts!Next]_usersVars /\ [Frame!Next]_frameVars
      /\ [JdkTable!Next]_jdkVars /\ [BanList!Next]_banVars
  BY DEF AccountsNext
<1>2. IInv'
  BY <1>1, StepKeeps DEF AccountsInv
<1>3. Roles!IInv'
  <2>1. None \notin Roles!Account
    BY PartsAssumption, SameAccounts
  <2>2. [Roles!Next]_Roles!vars
    BY <1>1, SameAccountsNext DEF usersVars, Roles!vars
  <2> QED
    BY <2>1, <2>2, Roles!StepKeeps DEF AccountsInv
<1>4. Registry!IInv'
  <2>1. [Registry!Next]_Registry!vars
    BY <1>1, SameJdksNext DEF jdkVars, Registry!vars, Registry!table
  <2> QED
    BY <2>1, PartsAssumption, Registry!StepKeeps DEF AccountsInv
<1> QED
  BY <1>1, <1>2, <1>3, <1>4, FrameStep, BanStep DEF AccountsInv

LEMMA AccountsAlways == AccountsSpec => []AccountsInv
  BY AccountsBegin, AccountsStep, PTL DEF AccountsSpec

\* Every variable of the five parts keeps its type.
THEOREM AccountsTyped == AccountsSpec => []AllTypesOK
<1>1. AccountsInv => AllTypesOK
  BY InvTypeOK, SameAccountsGoals, SameJdksGoals
     DEF AccountsInv, Parts, AllTypesOK, Roles!IInv, FrameInv, Registry!IInv, BansInv
<1> QED
  BY <1>1, AccountsAlways, PTL

\* Somebody can always administer the installation, whatever the administrators do
\* from tables of different age (SetUserState, DeleteUser).
THEOREM AccountsKeepAnAdmin == AccountsSpec => []AnAdminRemains
<1>1. AccountsInv => AnAdminRemains
  BY SameAccountsGoals DEF AccountsInv, AnAdminRemains, Roles!IInv
<1> QED
  BY <1>1, AccountsAlways, PTL

\* No page is left locked by a sheet that is gone, whichever of the window, the
\* address and the session changes under it (MobileChrome's effect on menuOpen).
THEOREM FrameNeverStaysLocked == AccountsSpec => []LockedWhileOpen
<1>1. AccountsInv => LockedWhileOpen
  BY DEF AccountsInv, FrameInv, LockedWhileOpen, Frame!LockedWhileOpen
<1> QED
  BY <1>1, AccountsAlways, PTL

\* JVM options never name a JDK that is not registered (handleDeleteJDK).
THEOREM AccountsNamedExist == AccountsSpec => []NamedJdksExist
<1>1. AccountsInv => NamedJdksExist
  BY SameJdksGoals DEF AccountsInv, NamedJdksExist
<1> QED
  BY <1>1, AccountsAlways, PTL

\* One JDK is the default once every call has returned (setDefaultJDK,
\* ensureDefaultJDK).
THEOREM AccountsOneDefault == AccountsSpec => []OneDefault
<1>1. AccountsInv => OneDefault
  BY SameJdksGoals DEF AccountsInv, OneDefault
<1> QED
  BY <1>1, AccountsAlways, PTL

\* A restart of JARVIS turns the same addresses away, however the two writes of bans
\* and unbans fall between each other, but for addresses that calls of both kinds
\* crossed over (Service.Ban, Service.Unban, Service.Load).
THEOREM RestartKeepsBans == AccountsSpec => []RestartChangesNothing
<1>1. AccountsInv => RestartChangesNothing
  BY DEF AccountsInv, BansInv, RestartChangesNothing
<1> QED
  BY <1>1, AccountsAlways, PTL

=============================================================================
