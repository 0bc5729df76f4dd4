CONSTANTS
  timer1 = timer1
  timer2 = timer2
  timer3 = timer3
  NoTimer = NoTimer
  Timers <- ThreeTimers
  MaxViewers = 2
  MaxConnectFailures = 1
  MaxFreezeFailures = 0
  MaxTabLosses = 0
SPECIFICATION Spec
PROPERTY
  IdlePageFreezes
