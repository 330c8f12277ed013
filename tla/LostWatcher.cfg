\* One operator who starts, stops and starts again, then a shutdown.
SPECIFICATION Spec
CONSTANTS
  Launch = {l1, l2}
  None = None
  Clients = {c1}
  Autostarter = Autostarter
  Ops = {"start", "stop"}
  Autostart = FALSE
  Watchdog = {TRUE}
  MaxRestarts = 1
  MaxBoots = 1
  Faults = FALSE
INVARIANT ShutdownCancelsAllWatchers
CHECK_DEADLOCK FALSE
