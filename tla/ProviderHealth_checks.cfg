SPECIFICATION Spec
CONSTANTS
  Startup = startup
  Loop = loop
  Askers = {a1, a2}
  CheckInterval = 3
  CooldownSeconds = 5
  DownThreshold = 2
INVARIANT StatusTellsFailures
PROPERTIES DownIsRetried ChangesAreNoticed
