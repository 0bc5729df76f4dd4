---------------------------- MODULE MCBroadcaster ----------------------------
(* Model-checking instances of Broadcaster.                                *)
EXTENDS Broadcaster, TLC

CONSTANTS v1, v2, v3, e1, e2, e3, p1, p2, p3, poll, k1, full

TwoViewers == {v1, v2}
ThreeViewers == {v1, v2, v3}
TwoEncoders == {e1, e2}
ThreeEncoders == {e1, e2, e3}
TwoPipes == {p1, p2}
ThreePipes == {p1, p2, p3}
OnePoller == {poll}
OneKey == {k1}
OneProfile == {full}
Nobody == {}

(* Viewers are interchangeable (CHOOSE picks among pipelines and           *)
(* encoders, which are not); used by runs that check safety only.          *)
ViewerSymmetry == Permutations(ThreeViewers)
==============================================================================
