--------------------------- MODULE MCInputSession ---------------------------
(* Model-checking instance of InputSession by itself, for inputs no page   *)
(* has sorted out: a key x11Key knows, and one whose name xdotool is given *)
(* and whose name changes.                                                 *)
EXTENDS InputSession, TLC

CONSTANTS s1, KeyA, Numpad1, a, one, end

OneSession == {s1}
TwoCodes == {KeyA, Numpad1}
ThreeNames == {a, one, end}
OneTabled == {KeyA}
ChangingNames == (KeyA :> {a}) @@ (Numpad1 :> {one, end})
==============================================================================
