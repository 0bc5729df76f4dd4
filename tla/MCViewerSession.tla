--------------------------- MODULE MCViewerSession ---------------------------
(* Model-checking instances of ViewerSession.                              *)
EXTENDS ViewerSession, TLC

CONSTANTS s1, s2, timer1, timer2

OneSession == {s1}
TwoSessions == {s1, s2}
OneTimer == {timer1}
TwoTimers == {timer1, timer2}

SessionSymmetry == Permutations(TwoSessions) \cup Permutations(TwoTimers)
==============================================================================
