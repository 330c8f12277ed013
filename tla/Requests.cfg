\* Two concurrent requests against the watchdog, and a shutdown.
SPECIFICATION Spec
CONSTANTS
  Launch = {l1, l2, l3}
  None = None
  Clients = {c1, c2}
  Autostarter = Autostarter
  Ops = {"start", "stop"}
  Autostart = FALSE
  Watchdog = {TRUE}
  MaxRestarts = 1
  MaxBoots = 1
  Faults = FALSE
SYMMETRY Symmetric
INVARIANT RestartBudget
INVARIANT MapNamesARunningWatcher
INVARIANT OneGoroutinePerProcess
CHECK_DEADLOCK FALSE
