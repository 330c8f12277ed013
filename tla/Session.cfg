SPECIFICATION AccountsSpec
CONSTANTS
  Tab = {t1, t2}
  User = {u1, u2}
  Session = {s1, s2}
  Person = {p1, p2}
  Path = {dashboard, account}
  Jdk = {j1, j2}
  Address = {a1, a2}
  None = None
  Routes = FALSE
  MaxCalls = 2
  MaxLosses = 0
  MaxResets = 0
  MaxRequests = 2
  MaxLeft = 1
  MaxBans = 2
SYMMETRY Symmetric
INVARIANT AllTypesOK
INVARIANT ActsAsShown
INVARIANT GoneMeansGone
INVARIANT AnAdminRemains
INVARIANT LockedWhileOpen
INVARIANT NamedJdksExist
INVARIANT OneDefault
INVARIANT RestartChangesNothing
