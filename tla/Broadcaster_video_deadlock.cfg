CONSTANTS
  v1 = v1
  v2 = v2
  v3 = v3
  e1 = e1
  e2 = e2
  e3 = e3
  p1 = p1
  p2 = p2
  p3 = p3
  poll = poll
  k1 = k1
  full = full
  None = None
  Viewers <- TwoViewers
  Encoders <- TwoEncoders
  Operators <- Nobody
  Pollers <- OnePoller
  Keys <- OneKey
  Pipes <- TwoPipes
  Profiles <- OneProfile
  FirstProfile = full
  SourceLocks = TRUE
  MaxChanges = 0
  MaxCrashes = 1
  MaxWriteFailures = 1
SPECIFICATION Spec
CHECK_DEADLOCK FALSE
PROPERTY
  SubscribeReturns
