CONSTANTS
  s1 = s1
  s2 = s2
  timer1 = timer1
  timer2 = timer2
  NoTimer = NoTimer
  Sessions <- TwoSessions
  Timers <- TwoTimers
  MaxViewers = 2
  MaxFlaps = 1
  MaxConnectFailures = 1
  MaxFreezeFailures = 0
  MaxTabLosses = 0
SPECIFICATION Spec
INVARIANTS
  SlotsAreCounted
  ReleasedExactlyOnce
  NothingAddedAfterTeardown
  GraceTimerIsTracked
PROPERTIES
  GoneViewerIsReleased
  ImplementsContract
