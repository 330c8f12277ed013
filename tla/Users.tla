------------------------------- MODULE Users -------------------------------
(***************************************************************************)
(* The user administration: the table of accounts of each administrator    *)
(* who has it open (pages/Users.tsx), and the handlers that change roles,  *)
(* disable, create and delete accounts (api/auth.go, and SetUserState,     *)
(* CreateUser and DeleteUser of internal/auth).                            *)
(*                                                                         *)
(* The table may be as old as its poll.  The server checks who asks before *)
(* it runs the handler, and the handler changes the account in one         *)
(* transaction; the database has one connection (store.go), so             *)
(* transactions run one after the other.                                   *)
(***************************************************************************)
EXTENDS Naturals, FiniteSets

CONSTANTS
  User,
  None,
  MaxRequests  \* bound: calls under way

VARIABLES
  account,   \* the rows of table users, None: no such account
  table,     \* users.data, of the page each user has open
  used,      \* ids that have been given out: none is given out twice
  pending    \* the calls under way

vars == <<account, table, used, pending>>

\* Operators and viewers are alike here.
Role    == {"admin", "other"}
Account == [role : Role, disabled : BOOLEAN]
Request == [by : User, op : {"state", "create", "delete"}, id : User, role : Role,
            disabled : BOOLEAN, admitted : BOOLEAN]

\* An account that may administer, and the ones that may.
IsAdmin(a) == a # None /\ a.role = "admin" /\ ~a.disabled
Admins     == {u \in User : IsAdmin(account[u])}

\* EnsureAdmin has made the first account.
Init ==
  /\ \E first \in User :
       /\ account = [u \in User |-> IF u = first THEN [role |-> "admin", disabled |-> FALSE] ELSE None]
       /\ used = {first}
  /\ table = [u \in User |-> [v \in User |-> None]]
  /\ pending = {}

-----------------------------------------------------------------------------
(* The page *)

\* The poll lands: asked and answered in one step.
Look(me) ==
  /\ IsAdmin(account[me])
  /\ table' = [table EXCEPT ![me] = account]
  /\ UNCHANGED <<account, used, pending>>

\* useAction: the table has one call under way, and so has the form for a new
\* account beside it.
Send(me, op, id, role, disabled) ==
  /\ \A r \in pending : r.by = me => (r.op = "create") # (op = "create")
  /\ Cardinality(pending) < MaxRequests
  /\ pending' = pending \cup
       {[by |-> me, op |-> op, id |-> id, role |-> role, disabled |-> disabled, admitted |-> FALSE]}
  /\ UNCHANGED <<account, used, table>>

\* The role is chosen in a row: the call repeats the row's disabled flag.
ChooseRole(me, id, role) ==
  /\ id # me /\ table[me][id] # None
  /\ Send(me, "state", id, role, table[me][id].disabled)

\* The button that disables or enables: the call repeats the row's role.
Toggle(me, id) ==
  /\ id # me /\ table[me][id] # None
  /\ Send(me, "state", id, table[me][id].role, ~table[me][id].disabled)

Remove(me, id) ==
  /\ id # me /\ table[me][id] # None
  /\ Send(me, "delete", id, "other", FALSE)

\* CreateUserForm, for an administrator that has the page open.
Add(me, role) ==
  /\ table[me][me] # None
  /\ Send(me, "create", me, role, FALSE)

-----------------------------------------------------------------------------
(* The server *)

\* requireAuth and requireRole.
Admit(r) ==
  /\ ~r.admitted
  /\ pending' = (pending \ {r}) \cup
       (IF IsAdmin(account[r.by])
        THEN {[by |-> r.by, op |-> r.op, id |-> r.id, role |-> r.role,
               disabled |-> r.disabled, admitted |-> TRUE]}
        ELSE {})
  /\ UNCHANGED <<account, used, table>>

\* Wrong variant of LastAdmin: disabled administrators count.
LastAdminByRole(id) == {u \in User : account[u] # None /\ account[u].role = "admin"} = {id}

\* The last administrator is not demoted, disabled or deleted.
LastAdmin(id) == Admins = {id}

\* The handler answers, and useAction lets the table or the form make another call.
Answer(r) == pending' = pending \ {r} /\ UNCHANGED table

\* handleUpdateUser and SetUserState.
SetUserState(r) ==
  /\ r.admitted /\ r.op = "state"
  /\ LET losing == r.role # "admin" \/ r.disabled
         self   == r.by = r.id /\ losing
         refused == self \/ account[r.id] = None \/ (LastAdmin(r.id) /\ losing)
     IN account' = IF refused THEN account
                   ELSE [account EXCEPT ![r.id] = [role |-> r.role, disabled |-> r.disabled]]
  /\ Answer(r) /\ UNCHANGED used

\* handleDeleteUser and DeleteUser.
DeleteUser(r) ==
  /\ r.admitted /\ r.op = "delete"
  /\ account' = IF r.by = r.id \/ LastAdmin(r.id) THEN account
                ELSE [account EXCEPT ![r.id] = None]
  /\ Answer(r) /\ UNCHANGED used

\* Wrong variant of CreateUser: the id may be given out again.
CreateUserReusesId(r) ==
  /\ r.admitted /\ r.op = "create"
  /\ \/ \E id \in User \ used :
          account' = [account EXCEPT ![id] = [role |-> r.role, disabled |-> FALSE]]
     \/ UNCHANGED account
  /\ Answer(r) /\ UNCHANGED used

\* handleCreateUser and CreateUser: a new row, or a refusal of the name.
CreateUser(r) ==
  /\ r.admitted /\ r.op = "create"
  /\ \/ \E id \in User \ used :
          /\ account' = [account EXCEPT ![id] = [role |-> r.role, disabled |-> FALSE]]
          /\ used' = used \cup {id}
     \/ UNCHANGED <<account, used>>
  /\ Answer(r)

Next ==
  \/ \E me \in User :
       \/ Look(me)
       \/ \E id \in User :
            \/ Toggle(me, id) \/ Remove(me, id)
            \/ \E role \in Role : ChooseRole(me, id, role)
       \/ \E role \in Role : Add(me, role)
  \/ \E r \in pending : Admit(r) \/ SetUserState(r) \/ DeleteUser(r) \/ CreateUser(r)

Spec == Init /\ [][Next]_vars

-----------------------------------------------------------------------------
(* Properties *)

\* Every variable keeps its type, and a row's id has been given out.
TypeOK ==
  /\ account \in [User -> Account \cup {None}]
  /\ table \in [User -> [User -> Account \cup {None}]]
  /\ used \subseteq User /\ {u \in User : account[u] # None} \subseteq used
  /\ pending \subseteq Request

\* There is always an account that can administer the installation, however the
\* calls of several administrators, made from tables of different age, interleave
\* (SetUserState, DeleteUser).
AnAdminRemains == Admins # {}

=============================================================================
