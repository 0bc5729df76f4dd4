--------------------------- MODULE SessionContract ---------------------------
(***************************************************************************)
(* What POST /offer promises to a page: a reply, and a place in the viewer *)
(* count from before the answer until the peer connection is lost, which   *)
(* is given back then, or when the offer is refused after all.             *)
(* ViewerSession is how handleOffer, viewerCleanup and disconnectGrace     *)
(* keep the promise; StreamSession is a page that relies on it.            *)
(***************************************************************************)
EXTENDS ViewerLifecycle

CONSTANT Sessions

VARIABLES
  reply,  \* what has become of the offer
  lost,   \* the session is being torn down
  place   \* it holds a place in the viewer count

sessionVars == <<reply, lost, place>>
contractVars == <<vars, sessionVars>>

ContractInit ==
  /\ Init
  /\ reply = [s \in Sessions |-> "none"]
  /\ lost = [s \in Sessions |-> FALSE]
  /\ place = [s \in Sessions |-> FALSE]

(* A session that is over leaves nothing behind: its name can be used for  *)
(* the next.                                                               *)
Unused(s) ==
  \/ reply[s] = "none"
  \/ reply[s] \in {"answered", "refused"} /\ lost[s] /\ ~place[s]

Offer(s) ==
  /\ Unused(s)
  /\ reply' = [reply EXCEPT ![s] = "asked"]
  /\ lost' = [lost EXCEPT ![s] = FALSE]
  /\ UNCHANGED <<vars, place>>

Refuse(s) ==
  /\ reply[s] \in {"asked", "placed"}
  /\ reply' = [reply EXCEPT ![s] = "refused"]
  /\ lost' = [lost EXCEPT ![s] = TRUE]
  /\ UNCHANGED place
  /\ \/ UNCHANGED vars
     \/ reply[s] = "asked" /\ ConnectFails

Enter(s) ==
  /\ reply[s] = "asked"
  /\ Connect
  /\ reply' = [reply EXCEPT ![s] = "placed"]
  /\ place' = [place EXCEPT ![s] = TRUE]
  /\ UNCHANGED lost

Accept(s) ==
  /\ reply[s] = "placed"
  /\ reply' = [reply EXCEPT ![s] = "answered"]
  /\ UNCHANGED <<vars, lost, place>>

(* The peer connection fails or is closed, or stays away too long; this    *)
(* may come before the reply.                                              *)
Lose(s) ==
  /\ reply[s] # "none"
  /\ ~lost[s]
  /\ lost' = [lost EXCEPT ![s] = TRUE]
  /\ UNCHANGED <<vars, reply, place>>

Leave(s) ==
  /\ lost[s]
  /\ place[s]
  /\ place' = [place EXCEPT ![s] = FALSE]
  /\ Disconnect
  /\ UNCHANGED <<reply, lost>>

ContractNext ==
  \/ \E s \in Sessions :
       \/ Offer(s) \/ Refuse(s) \/ Enter(s) \/ Accept(s)
       \/ Lose(s) \/ Leave(s)
  \/ Background /\ UNCHANGED sessionVars

ContractSpec == ContractInit /\ [][ContractNext]_contractVars
==============================================================================
