SPECIFICATION ConsoleSpec
CONSTANTS
  App = {a, b}
  Installed = {a}
  None = None
  Failed = Failed
  MaxLoads = 2
  MaxChanges = 2
  MaxVisits = 1
  Tab = {t1}
  User = {u1}
  Session = {s1}
  MaxCalls = 2
  MaxLosses = 1
  MaxResets = 0
  Content = {x, y}
  Blank = Blank
  MaxRevs = 3
  MaxEdits = 1
  Wanted = 2
  Kept = 3
  MaxLaunches = 2
  MaxLines = 2
  MaxMoves = 1
INVARIANT AllTypesOK
INVARIANT OneControlPerPage
 
INVARIANT LinesInOrder
PROPERTY ViewsFollow
PROPERTY PagesCatchUp
PROPERTY DeadSessionIsNoticed
PROPERTY GateOpens
 
PROPERTY StreamDelivers
CHECK_DEADLOCK FALSE
