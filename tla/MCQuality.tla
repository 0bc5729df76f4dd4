------------------------------ MODULE MCQuality ------------------------------
(* Model-checking instances of Quality: the video registry.                *)
EXTENDS Quality, TLC

CONSTANTS v1, v2, e1, e2, p1, p2, op1, op2, k1

TwoViewers == {v1, v2}
TwoEncoders == {e1, e2}
TwoPipes == {p1, p2}
TwoOperators == {op1, op2}
OneKey == {k1}
Nobody == {}
TwoProfiles == {"1080p30", "720p30"}

Rate(n, u) == [number |-> n, unit |-> u]

(* None, above and below every budget, each unit, and less than 1 kbps.    *)
SomeRates == {Rate(0, "k"), Rate(6, "M"), Rate(1200, "k"), Rate(12, "k"),
              Rate(24000, "bit"), Rate(500, "bit")}

DefaultEnvironment ==
  [Width |-> 1920, Height |-> 1080, FPS |-> 60, Bitrate |-> Rate(6000, "k"),
   AudioBitrate |-> Rate(32, "k"), Profile |-> "1080p30"]

(* Viewers are interchangeable, and so are operators; for safety only.     *)
QualitySymmetry == Permutations(TwoViewers) \cup Permutations(TwoOperators)
==============================================================================
