CONSTANTS
  s1 = s1
  s2 = s2
  timer1 = timer1
  timer2 = timer2
  NoTimer = NoTimer
  NoSession = NoSession
  Sessions <- TwoSessions
  Timers <- TwoTimers
  Profiles <- TwoProfiles
  FirstProfile = "full"
  MaxViewers = 2
  MaxConnectFailures = 1
  MaxFreezeFailures = 1
  MaxTabLosses = 1
SPECIFICATION SystemSpec
SYMMETRY PageSymmetry
INVARIANTS
  SystemTypeOK
  LiveStreamRuns
  OneConnectAtATime
  ShowsOneConnection
  SwitchIsServed
