\* One upload, one promotion and one deletion at a time, and an administrator,
\* against launches and crashes.
SPECIFICATION Spec
CONSTANTS
  Version = {v1, v2}
  File = {f1}
  Jar = {j1, j2}
  None = None
  Uploaders = {a}
  Activators = {a}
  Deleters = {d}
  Admins = {d}
  MaxId = 3
  MaxApp = 2
  Faults = TRUE
SYMMETRY Symmetric
INVARIANT TypeOK
INVARIANT RowHasItsJar
INVARIANT ReferencesResolve
INVARIANT NoStrayJar
PROPERTY ImplementsLibrary
