\* One operator who uploads a version twice, under two file names.
SPECIFICATION Spec
CONSTANTS
  Version = {v1}
  File = {f1, f2}
  Jar = {j1}
  None = None
  Uploaders = {u}
  Activators = {}
  Deleters = {}
  Admins = {m}
  MaxId = 2
  MaxApp = 1
  Faults = FALSE
INVARIANT RowHasItsJar
CHECK_DEADLOCK FALSE
