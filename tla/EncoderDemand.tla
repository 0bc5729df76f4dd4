---------------------------- MODULE EncoderDemand ----------------------------
(***************************************************************************)
(* What one encoder pipeline promises, without ffmpeg, locks, frames or    *)
(* retries: an encoder is supplied exactly while somebody listens.         *)
(*                                                                         *)
(* This is the contract the doc comment of the type `pipeline` states      *)
(* ("It starts on the first subscriber and stops on the last, so an idle   *)
(* server runs no encoders at all").  Pipeline implements it for one       *)
(* pipeline with all its encoder phases, Broadcaster for every pipeline of *)
(* the registry with its locks.                                            *)
(***************************************************************************)
CONSTANT Tracks

VARIABLES
  audience,   \* the tracks that are attached
  supply      \* "off": no encoder, "on": supplied, "stopping": told to stop

vars == <<audience, supply>>

Supplies == {"off", "on", "stopping"}

TypeOK ==
  /\ audience \in SUBSET Tracks
  /\ supply \in Supplies

Init ==
  /\ audience = {}
  /\ supply = "off"

(* The first listener turns the supply on; a later one changes nothing,    *)
(* and in particular does not revive an encoder that was told to stop.     *)
Join(t) ==
  /\ t \notin audience
  /\ audience' = audience \cup {t}
  /\ supply' = IF supply = "off" THEN "on" ELSE supply

(* The last listener to leave tells the encoder to stop.                   *)
Leave(t) ==
  /\ t \in audience
  /\ audience' = audience \ {t}
  /\ supply' = IF audience' = {} THEN "stopping" ELSE supply

(* A profile change interrupts the encoder under its listeners.            *)
Interrupt ==
  /\ supply = "on"
  /\ supply' = "stopping"
  /\ UNCHANGED audience

(* The encoder has exited: it is replaced if somebody still listens.       *)
Recycle ==
  /\ supply = "stopping"
  /\ supply' = IF audience = {} THEN "off" ELSE "on"
  /\ UNCHANGED audience

Next ==
  \/ \E t \in Tracks : Join(t) \/ Leave(t)
  \/ Interrupt
  \/ Recycle

SafeSpec == Init /\ [][Next]_vars

(* An encoder that was told to stop does exit.                             *)
Spec == SafeSpec /\ WF_vars(Recycle)

-----------------------------------------------------------------------------
(* Nobody listens to silence, and nobody is left encoding for nobody: with *)
(* an audience there is an encoder, and without one it is at least being   *)
(* stopped.                                                                *)
SupplyFollowsDemand ==
  /\ audience # {} => supply # "off"
  /\ audience = {} => supply # "on"
==============================================================================
