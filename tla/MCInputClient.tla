---------------------------- MODULE MCInputClient ----------------------------
(* Model-checking instance of InputClient.                                 *)
EXTENDS InputClient

CONSTANTS c1, s1, s2, KeyA, a

OneClient == {c1}
TwoSessions == {s1, s2}
OneCode == {KeyA}
OneName == {a}
NameOfKeyA == (KeyA :> {a})

(* Connections are interchangeable; the run checks safety only.            *)
ConnectionSymmetry == Permutations(TwoSessions)
==============================================================================
