CONSTANTS
  t1 = t1
  t2 = t2
  t3 = t3
  Tracks <- TwoTracks
SPECIFICATION Spec
INVARIANTS
  EncoderFollowsAudience
  NoUndecodableFrame
PROPERTIES
  BackoffDoubles
  BackoffStartsOver
  GateOpens
  ImplementsDemand
