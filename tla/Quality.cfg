CONSTANTS
  v1 = v1
  v2 = v2
  e1 = e1
  e2 = e2
  p1 = p1
  p2 = p2
  op1 = op1
  op2 = op2
  k1 = k1
  None = None
  Viewers <- TwoViewers
  Encoders <- TwoEncoders
  Operators <- TwoOperators
  Pollers <- Nobody
  Keys <- OneKey
  Pipes <- TwoPipes
  Profiles <- TwoProfiles
  FirstProfile = "1080p30"
  SourceLocks = TRUE
  MaxChanges = 2
  MaxCrashes = 1
  MaxWriteFailures = 1
  Environment <- DefaultEnvironment
  Ceilings <- SomeRates
SPECIFICATION QualitySpec
SYMMETRY QualitySymmetry
CHECK_DEADLOCK FALSE
INVARIANTS
  QualityTypeOK
  OneEncoderPerPipeline
  RegisteredFollowsProfile
  IdleIsReleased
  CaptureFitsWindow
  BudgetsHold
PROPERTIES
  PipelinesFollowDemand
