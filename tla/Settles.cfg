\* Liveness: requests, hang-ups and a shutdown against fair goroutines; the wait for
\* dependencies, cyclic ones among them.
SPECIFICATION SettlesSpec
CONSTANTS
  Launch = {l1, l2}
  None = None
  Clients = {c1}
  Autostarter = Autostarter
  Ops = {"start", "restart", "delete"}
  Autostart = FALSE
  Watchdog = {TRUE, FALSE}
  MaxRestarts = 0
  MaxBoots = 1
  Faults = TRUE
  First = a1
  Second = a2
  Other = a3
INVARIANT GivesUpWithReason
PROPERTY CancelledWatcherEnds
PROPERTY ExitIsDealtWith
 
PROPERTY AutostartEnds
CHECK_DEADLOCK FALSE
