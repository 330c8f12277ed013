\* Autostart beside a client that hangs up, kills that fail, launches that are
\* refused and a deletion.
SPECIFICATION Spec
CONSTANTS
  Launch = {l1, l2}
  None = None
  Clients = {c1}
  Autostarter = Autostarter
  Ops = {"start", "stop", "delete"}
  Autostart = TRUE
  Watchdog = {TRUE}
  MaxRestarts = 1
  MaxBoots = 1
  Faults = TRUE
SYMMETRY Symmetric
INVARIANT TypeOK
 
 
CHECK_DEADLOCK FALSE
