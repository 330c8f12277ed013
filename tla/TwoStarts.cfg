\* Two operators who start the same application at once.
SPECIFICATION Spec
CONSTANTS
  Launch = {l1, l2}
  None = None
  Clients = {c1, c2}
  Autostarter = Autostarter
  Ops = {"start"}
  Autostart = FALSE
  Watchdog = {TRUE}
  MaxRestarts = 1
  MaxBoots = 1
  Faults = FALSE
INVARIANT ExtrasAreOrphans
CHECK_DEADLOCK FALSE
