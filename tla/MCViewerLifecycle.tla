-------------------------- MODULE MCViewerLifecycle --------------------------
(* Model-checking instances of ViewerLifecycle.                            *)
EXTENDS ViewerLifecycle, TLC

CONSTANTS timer1, timer2, timer3

ThreeTimers == {timer1, timer2, timer3}

TimerSymmetry == Permutations(ThreeTimers)
==============================================================================
