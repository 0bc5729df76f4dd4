----------------------------- MODULE MCPipeline -----------------------------
(* Model-checking instances of Pipeline.                                   *)
EXTENDS Pipeline, TLC

CONSTANTS t1, t2, t3

TwoTracks == {t1, t2}
ThreeTracks == {t1, t2, t3}

(* Tracks are interchangeable; used by runs that check safety only.        *)
TrackSymmetry == Permutations(ThreeTracks)
==============================================================================
