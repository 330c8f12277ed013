----------------------------- MODULE UsersProofs -----------------------------
(***************************************************************************)
(* Users proved: however many administrators there are, and however old    *)
(* their tables, one account that can administer remains.  The invariant   *)
(* is inductive together with the types, because SetUserState and          *)
(* DeleteUser look at the accounts in the step that changes them; the      *)
(* tables and the calls under way may say anything.                        *)
(***************************************************************************)
EXTENDS Users, TLAPS

IInv == TypeOK /\ AnAdminRemains

\* A row that is written is a row, and no row is the missing one.
LEMMA RowIsAccount ==
  ASSUME None \notin Account, NEW role \in Role, NEW disabled \in BOOLEAN
  PROVE  /\ [role |-> role, disabled |-> disabled] \in Account
         /\ [role |-> role, disabled |-> disabled] # None
  BY DEF Account

LEMMA InitInv ==
  ASSUME None \notin Account, Init
  PROVE  IInv
<1>1. PICK first \in User :
        /\ account = [u \in User |-> IF u = first THEN [role |-> "admin", disabled |-> FALSE] ELSE None]
        /\ used = {first}
  BY DEF Init
<1>2. "admin" \in Role /\ FALSE \in BOOLEAN
  BY DEF Role
<1>3. [role |-> "admin", disabled |-> FALSE] \in Account
  BY <1>2, RowIsAccount
<1>4. TypeOK
  BY <1>1, <1>3 DEF Init, TypeOK
<1>5. account[first] = [role |-> "admin", disabled |-> FALSE] /\ account[first] # None
  BY <1>1, <1>2, RowIsAccount
<1>6. first \in Admins
  BY <1>5 DEF Admins, IsAdmin
<1> QED  BY <1>4, <1>6 DEF IInv, AnAdminRemains

\* Where one account is rewritten, an administrator remains if there is another
\* one, or if this one is one afterwards.
LEMMA AnotherRemains ==
  ASSUME AnAdminRemains, NEW id \in User,
         \A u \in User \ {id} : account'[u] = account[u],
         Admins # {id}
  PROVE  AnAdminRemains'
<1>1. PICK u \in Admins : u # id
  BY DEF AnAdminRemains
<1>2. u \in User /\ IsAdmin(account[u])
  BY DEF Admins
<1>3. IsAdmin(account'[u])
  BY <1>1, <1>2
<1>4. u \in Admins'
  BY <1>2, <1>3 DEF Admins
<1> QED  BY <1>4 DEF AnAdminRemains

LEMMA StateKeeps ==
  ASSUME None \notin Account, IInv, NEW r \in pending, SetUserState(r)
  PROVE  IInv'
<1> DEFINE losing  == r.role # "admin" \/ r.disabled
           refused == \/ r.by = r.id /\ losing
                      \/ account[r.id] = None
                      \/ LastAdmin(r.id) /\ losing
           row     == [role |-> r.role, disabled |-> r.disabled]
<1>1. TypeOK /\ AnAdminRemains
  BY DEF IInv
<1>2. r \in Request
  BY <1>1 DEF TypeOK
<1>3. r.id \in User /\ r.role \in Role /\ r.disabled \in BOOLEAN
  BY <1>2 DEF Request
<1>4. row \in Account /\ row # None
  BY <1>3, RowIsAccount
<1>5. account' = IF refused THEN account ELSE [account EXCEPT ![r.id] = row]
  BY DEF SetUserState
<1>6. pending' \subseteq pending /\ table' = table /\ used' = used
  BY DEF SetUserState, Answer
<1>7. CASE refused
  <2>1. account' = account
    BY <1>5, <1>7
  <2>2. TypeOK'
    BY <1>1, <1>6, <2>1 DEF TypeOK
  <2> QED  BY <1>1, <2>1, <2>2 DEF IInv, AnAdminRemains, Admins
<1>8. CASE ~refused
  <2>1. account' = [account EXCEPT ![r.id] = row]
    BY <1>5, <1>8
  <2>2. account \in [User -> Account \cup {None}]
    BY <1>1 DEF TypeOK
  <2>3. account' \in [User -> Account \cup {None}]
    BY <1>3, <1>4, <2>1, <2>2
  <2>4. /\ account'[r.id] = row
        /\ \A u \in User \ {r.id} : account'[u] = account[u]
    BY <1>3, <2>1, <2>2
  <2>5. account[r.id] # None
    BY <1>8
  <2>6. {u \in User : account'[u] # None} = {u \in User : account[u] # None}
    BY <1>4, <2>4, <2>5
  <2>7. TypeOK'
    BY <1>1, <1>6, <2>3, <2>6 DEF TypeOK
  <2>8. CASE losing
    <3>1. Admins # {r.id}
      BY <1>8, <2>8 DEF LastAdmin
    <3> QED  BY <1>1, <1>3, <2>4, <2>7, <3>1, AnotherRemains DEF IInv
  <2>9. CASE ~losing
    <3>1. row.role = "admin" /\ ~row.disabled
      BY <2>9
    <3>2. IsAdmin(account'[r.id])
      BY <1>4, <2>4, <3>1 DEF IsAdmin
    <3>3. r.id \in Admins'
      BY <1>3, <3>2 DEF Admins
    <3> QED  BY <2>7, <3>3 DEF IInv, AnAdminRemains
  <2> QED  BY <2>8, <2>9
<1> QED  BY <1>7, <1>8

LEMMA DeleteKeeps ==
  ASSUME None \notin Account, IInv, NEW r \in pending, DeleteUser(r)
  PROVE  IInv'
<1>1. TypeOK /\ AnAdminRemains
  BY DEF IInv
<1>2. r \in Request
  BY <1>1 DEF TypeOK
<1>3. r.id \in User
  BY <1>2 DEF Request
<1>4. pending' \subseteq pending /\ table' = table /\ used' = used
  BY DEF DeleteUser, Answer
<1>5. CASE r.by = r.id \/ LastAdmin(r.id)
  <2>1. account' = account
    BY <1>5 DEF DeleteUser
  <2>2. TypeOK'
    BY <1>1, <1>4, <2>1 DEF TypeOK
  <2> QED  BY <1>1, <2>1, <2>2 DEF IInv, AnAdminRemains, Admins
<1>6. CASE ~(r.by = r.id \/ LastAdmin(r.id))
  <2>1. account' = [account EXCEPT ![r.id] = None]
    BY <1>6 DEF DeleteUser
  <2>2. account \in [User -> Account \cup {None}]
    BY <1>1 DEF TypeOK
  <2>3. account' \in [User -> Account \cup {None}]
    BY <1>3, <2>1, <2>2
  <2>4. /\ account'[r.id] = None
        /\ \A u \in User \ {r.id} : account'[u] = account[u]
    BY <1>3, <2>1, <2>2
  <2>5. {u \in User : account'[u] # None} \subseteq {u \in User : account[u] # None}
    BY <2>4
  <2>6. TypeOK'
    BY <1>1, <1>4, <2>3, <2>5 DEF TypeOK
  <2>7. Admins # {r.id}
    BY <1>6 DEF LastAdmin
  <2> QED  BY <1>1, <1>3, <2>4, <2>6, <2>7, AnotherRemains DEF IInv
<1> QED  BY <1>5, <1>6

LEMMA CreateKeeps ==
  ASSUME None \notin Account, IInv, NEW r \in pending, CreateUser(r)
  PROVE  IInv'
<1>1. TypeOK /\ AnAdminRemains
  BY DEF IInv
<1>2. r \in Request
  BY <1>1 DEF TypeOK
<1>3. pending' \subseteq pending /\ table' = table
  BY DEF CreateUser, Answer
<1>4. CASE UNCHANGED <<account, used>>
  <2>1. TypeOK'
    BY <1>1, <1>3, <1>4 DEF TypeOK
  <2> QED  BY <1>1, <1>4, <2>1 DEF IInv, AnAdminRemains, Admins
<1>5. ASSUME NEW id \in User \ used,
             account' = [account EXCEPT ![id] = [role |-> r.role, disabled |-> FALSE]],
             used' = used \cup {id}
      PROVE  IInv'
  <2>1. r.role \in Role /\ FALSE \in BOOLEAN
    BY <1>2 DEF Request
  <2>2. [role |-> r.role, disabled |-> FALSE] \in Account
    BY <2>1, RowIsAccount
  <2>3. account \in [User -> Account \cup {None}]
    BY <1>1 DEF TypeOK
  <2>4. account' \in [User -> Account \cup {None}]
    BY <1>5, <2>2, <2>3
  <2>5. \A u \in User \ {id} : account'[u] = account[u]
    BY <1>5, <2>3
  <2>6. {u \in User : account'[u] # None} \subseteq used'
    BY <1>1, <1>5, <2>5 DEF TypeOK
  <2>7. TypeOK'
    BY <1>1, <1>3, <1>5, <2>4, <2>6 DEF TypeOK
  <2>8. account[id] = None
    BY <1>1, <1>5 DEF TypeOK
  <2>9. Admins # {id}
    BY <2>8 DEF Admins, IsAdmin
  <2> QED  BY <1>1, <1>5, <2>5, <2>7, <2>9, AnotherRemains DEF IInv
<1> QED  BY <1>4, <1>5 DEF CreateUser

\* A step that leaves the accounts alone.
LEMMA OthersKeep ==
  ASSUME IInv, UNCHANGED <<account, used>>,
         table' \in [User -> [User -> Account \cup {None}]], pending' \subseteq Request
  PROVE  IInv'
BY DEF IInv, TypeOK, AnAdminRemains, Admins

LEMMA SendKeeps ==
  ASSUME IInv, NEW me \in User, NEW op \in {"state", "create", "delete"}, NEW id \in User,
         NEW role \in Role, NEW disabled \in BOOLEAN, Send(me, op, id, role, disabled)
  PROVE  IInv'
<1>1. TypeOK
  BY DEF IInv
<1>2. [by |-> me, op |-> op, id |-> id, role |-> role, disabled |-> disabled, admitted |-> FALSE]
        \in Request
  BY DEF Request
<1>3. pending' \subseteq Request
  BY <1>1, <1>2 DEF TypeOK, Send
<1>4. table' \in [User -> [User -> Account \cup {None}]]
  BY <1>1 DEF TypeOK, Send
<1> QED  BY <1>3, <1>4, OthersKeep DEF Send

LEMMA PageKeeps ==
  ASSUME None \notin Account, IInv, NEW me \in User,
         \/ Look(me)
         \/ \E id \in User :
              \/ Toggle(me, id) \/ Remove(me, id)
              \/ \E role \in Role : ChooseRole(me, id, role)
         \/ \E role \in Role : Add(me, role)
  PROVE  IInv'
<1>1. TypeOK
  BY DEF IInv
<1>2. ASSUME NEW id \in User, table[me][id] # None
      PROVE  table[me][id].role \in Role /\ table[me][id].disabled \in BOOLEAN
  <2>1. table[me][id] \in Account
    BY <1>1, <1>2 DEF TypeOK
  <2> QED  BY <2>1 DEF Account
<1>3. CASE Look(me)
  <2>1. table' \in [User -> [User -> Account \cup {None}]]
    BY <1>1, <1>3 DEF Look, TypeOK
  <2>2. pending' \subseteq Request
    BY <1>1, <1>3 DEF Look, TypeOK
  <2> QED  BY <1>3, <2>1, <2>2, OthersKeep DEF Look
<1>4. ASSUME NEW id \in User, Toggle(me, id)
      PROVE  IInv'
  <2>1. table[me][id].role \in Role /\ (~table[me][id].disabled) \in BOOLEAN
    BY <1>2, <1>4 DEF Toggle
  <2> QED  BY <1>4, <2>1, SendKeeps DEF Toggle
<1>5. ASSUME NEW id \in User, Remove(me, id)
      PROVE  IInv'
  <2>1. "other" \in Role /\ FALSE \in BOOLEAN
    BY DEF Role
  <2> QED  BY <1>5, <2>1, SendKeeps DEF Remove
<1>6. ASSUME NEW id \in User, NEW role \in Role, ChooseRole(me, id, role)
      PROVE  IInv'
  <2>1. table[me][id].disabled \in BOOLEAN
    BY <1>2, <1>6 DEF ChooseRole
  <2> QED  BY <1>6, <2>1, SendKeeps DEF ChooseRole
<1>7. ASSUME NEW role \in Role, Add(me, role)
      PROVE  IInv'
  <2>1. FALSE \in BOOLEAN
    OBVIOUS
  <2> QED  BY <1>7, <2>1, SendKeeps DEF Add
<1> QED  BY <1>3, <1>4, <1>5, <1>6, <1>7

LEMMA AdmitKeeps ==
  ASSUME IInv, NEW r \in pending, Admit(r)
  PROVE  IInv'
<1>1. TypeOK
  BY DEF IInv
<1>2. r \in Request
  BY <1>1 DEF TypeOK
<1>3. [by |-> r.by, op |-> r.op, id |-> r.id, role |-> r.role,
       disabled |-> r.disabled, admitted |-> TRUE] \in Request
  BY <1>2 DEF Request
<1>4. pending' \subseteq Request
  BY <1>1, <1>3 DEF TypeOK, Admit
<1>5. table' \in [User -> [User -> Account \cup {None}]]
  BY <1>1 DEF TypeOK, Admit
<1> QED  BY <1>4, <1>5, OthersKeep DEF Admit

LEMMA StepKeeps ==
  ASSUME None \notin Account, IInv, [Next]_vars
  PROVE  IInv'
<1>1. CASE UNCHANGED vars
  <2>1. UNCHANGED <<account, used>> /\ table' = table /\ pending' = pending
    BY <1>1 DEF vars
  <2> QED  BY <2>1, OthersKeep DEF IInv, TypeOK
<1>2. CASE Next
  <2>1. ASSUME NEW r \in pending, Admit(r) \/ SetUserState(r) \/ DeleteUser(r) \/ CreateUser(r)
        PROVE  IInv'
    BY <2>1, AdmitKeeps, StateKeeps, DeleteKeeps, CreateKeeps
  <2> QED  BY <1>2, <2>1, PageKeeps DEF Next
<1> QED  BY <1>1, <1>2

-----------------------------------------------------------------------------
(* The theorems *)

\* Somebody can always administer the installation, whatever the administrators
\* do from tables of different age (SetUserState, DeleteUser).  A row is not the
\* missing one.
THEOREM AdministratorRemains ==
  ASSUME None \notin Account
  PROVE  Spec => []AnAdminRemains
<1>1. Init => IInv
  BY InitInv
<1>2. IInv /\ [Next]_vars => IInv'
  BY StepKeeps
<1>3. IInv => AnAdminRemains
  BY DEF IInv
<1> QED  BY <1>1, <1>2, <1>3, PTL DEF Spec

\* Every variable of Users keeps its type, and no id is given out twice.
THEOREM UsersTyped ==
  ASSUME None \notin Account
  PROVE  Spec => []TypeOK
<1>1. Init => IInv
  BY InitInv
<1>2. IInv /\ [Next]_vars => IInv'
  BY StepKeeps
<1>3. IInv => TypeOK
  BY DEF IInv
<1> QED  BY <1>1, <1>2, <1>3, PTL DEF Spec

=============================================================================
