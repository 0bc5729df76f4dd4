--------------------------- MODULE MCStreamSession ---------------------------
(* Model-checking instances of StreamSession.                              *)
EXTENDS StreamSession, TLC

CONSTANTS s1, s2, timer1, timer2

TwoSessions == {s1, s2}
TwoTimers == {timer1, timer2}
TwoProfiles == {"full", "saver360"}

PageSymmetry == Permutations(TwoSessions) \cup Permutations(TwoTimers)
==============================================================================
