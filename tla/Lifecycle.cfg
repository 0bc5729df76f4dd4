CONSTANTS
  timer1 = timer1
  timer2 = timer2
  timer3 = timer3
  NoTimer = NoTimer
  Timers <- ThreeTimers
  MaxViewers = 2
  MaxConnectFailures = 1
  MaxFreezeFailures = 1
  MaxTabLosses = 1
SPECIFICATION Spec
INVARIANTS
  WatchedPageRuns
PROPERTY
  DepartureFreezes
