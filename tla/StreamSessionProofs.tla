------------------------- MODULE StreamSessionProofs -------------------------
(***************************************************************************)
(* Theorems about StreamSession, for every number of sessions, timers and  *)
(* delivery profiles.                                                      *)
(*                                                                         *)
(* The invariant has three parts.  ContractInv is about the server alone:  *)
(* the count of viewers is the number of places.  ClientInv is about the   *)
(* page alone: the start button, the cached connection and the disabled    *)
(* control tell which attempt runs.  LiveInv ties the two: what the page   *)
(* takes for a live stream, the server has answered.  That every step of   *)
(* page and server is one of SessionContract, and so of ViewerLifecycle,   *)
(* brings what is proved of these along.                                   *)
(***************************************************************************)
EXTENDS StreamSession, ViewerLifecycleProofs, FiniteSetTheorems

Placed == {s \in Sessions : place[s]}

ContractTypeOK ==
  /\ reply \in [Sessions -> {"none", "asked", "placed", "answered", "refused"}]
  /\ lost \in [Sessions -> BOOLEAN]
  /\ place \in [Sessions -> BOOLEAN]

PlaceInv ==
  \A s \in Sessions :
    /\ reply[s] \in {"none", "asked"} => ~place[s]
    /\ (reply[s] \in {"placed", "answered"} /\ ~lost[s]) => place[s]

ContractInv ==
  /\ IInv
  /\ ContractTypeOK
  /\ PlaceInv
  /\ viewers = Cardinality(Placed)

Attempts ==
  [step : {"none", "gathering", "posted", "live", "rejected"},
   caller : {"nobody", "start", "saver"},
   served : Profiles \cup {"none"}]

ClientTypeOK ==
  /\ button \in {"ready", "starting", "hidden"}
  /\ connection \in {"none", "pending", "ok"}
  /\ saver \in Profiles
  /\ saverBusy \in BOOLEAN
  /\ current \in Sessions \cup {NoSession}
  /\ profile \in Profiles
  /\ attempt \in [Sessions -> Attempts]
  /\ transit \in SUBSET Sessions
  /\ awaiting \in BOOLEAN
  /\ shown \in SUBSET Sessions

ButtonInv ==
  /\ saverBusy => button = "hidden"
  /\ button = "hidden" => connection = "ok"

AttemptInv ==
  \A s \in Sessions :
    /\ Connecting(s) => attempt[s].caller \in {"start", "saver"}
    /\ attempt[s].caller = "saver" => button = "hidden"
    /\ attempt[s].step = "live" => s = current /\ s \notin transit

(* A switch carries the profile of the control from its click on.          *)
ServedInv ==
  \A s \in Sessions : (s = current /\ attempt[s].caller = "saver") =>
    /\ attempt[s].step = "gathering" => profile = saver
    /\ attempt[s].step \in {"posted", "live"} => attempt[s].served = saver

ShownInv ==
  /\ \A s, t \in shown : s = t
  /\ ~awaiting => shown \subseteq {current}

ClientInv ==
  /\ ClientTypeOK
  /\ ButtonInv
  /\ AttemptInv
  /\ OneConnectAtATime
  /\ ServedInv
  /\ ShownInv

LiveInv == \A s \in Sessions : attempt[s].step = "live" => reply[s] = "answered"

SystemInv == ContractInv /\ ClientInv /\ LiveInv

-----------------------------------------------------------------------------
(* The server: one more viewer takes a place, one viewer gives it back.    *)
LEMMA PlaceTaken ==
  ASSUME ContractInv, NEW s \in Sessions, ~place[s],
         place' = [place EXCEPT ![s] = TRUE]
  PROVE  Cardinality(Placed') = Cardinality(Placed) + 1
<1>1. Placed' = Placed \cup {s} /\ s \notin Placed
  BY DEF Placed, ContractInv, ContractTypeOK
<1>2. IsFiniteSet(Placed)
  BY FS_Subset, StreamSessionAssumption DEF Placed
<1> QED BY <1>1, <1>2, FS_AddElement

LEMMA PlaceGivenBack ==
  ASSUME ContractInv, NEW s \in Sessions, place[s],
         place' = [place EXCEPT ![s] = FALSE]
  PROVE  Cardinality(Placed') = Cardinality(Placed) - 1 /\ viewers > 0
<1>1. Placed' = Placed \ {s} /\ s \in Placed
  BY DEF Placed, ContractInv, ContractTypeOK
<1>2. IsFiniteSet(Placed)
  BY FS_Subset, StreamSessionAssumption DEF Placed
<1>3. Cardinality(Placed) # 0 /\ Cardinality(Placed) \in Nat
  BY <1>1, <1>2, FS_CardinalityType, FS_EmptySet
<1> QED BY <1>1, <1>2, <1>3, FS_RemoveElement DEF ContractInv

(* Whatever the server does keeps the count right.                         *)
LEMMA ContractStep ==
  ASSUME ContractInv, ContractNext
  PROVE  ContractInv'
<1> USE DEF ContractInv
<1> SUFFICES /\ IInv' /\ ContractTypeOK' /\ PlaceInv'
             /\ viewers' = Cardinality(Placed')
  OBVIOUS
<1>u. UNCHANGED vars => IInv'
  BY NextIInv
<1>1. ASSUME NEW s \in Sessions, Offer(s) PROVE ContractInv'
  <2>1. IInv' /\ viewers' = viewers
    BY <1>1, <1>u DEF Offer, vars
  <2>2. Placed' = Placed
    BY <1>1 DEF Offer, Placed
  <2>3. ContractTypeOK' /\ PlaceInv'
    BY <1>1 DEF Offer, Unused, ContractTypeOK, PlaceInv
  <2> QED BY <2>1, <2>2, <2>3
<1>2. ASSUME NEW s \in Sessions, Refuse(s) PROVE ContractInv'
  <2>1. IInv' /\ viewers' = viewers
    <3>1. CASE UNCHANGED vars
      BY <3>1, <1>u DEF vars
    <3>2. CASE ConnectFails
      BY <3>2, ViewerStepInv DEF ConnectFails, ViewersAfterFailure
    <3> QED BY <1>2, <3>1, <3>2 DEF Refuse
  <2>2. Placed' = Placed
    BY <1>2 DEF Refuse, Placed
  <2>3. ContractTypeOK' /\ PlaceInv'
    BY <1>2 DEF Refuse, ContractTypeOK, PlaceInv
  <2> QED BY <2>1, <2>2, <2>3
<1>3. ASSUME NEW s \in Sessions, Enter(s) PROVE ContractInv'
  <2>1. IInv' /\ viewers' = viewers + 1
    BY <1>3, ViewerStepInv DEF Enter, Connect, ConnectFirst, ConnectAnother
  <2>2. Cardinality(Placed') = Cardinality(Placed) + 1
    BY <1>3, PlaceTaken DEF Enter, PlaceInv
  <2>3. ContractTypeOK' /\ PlaceInv'
    BY <1>3 DEF Enter, ContractTypeOK, PlaceInv
  <2> QED BY <2>1, <2>2, <2>3
<1>4. ASSUME NEW s \in Sessions, Accept(s) PROVE ContractInv'
  <2>1. IInv' /\ viewers' = viewers
    BY <1>4, <1>u DEF Accept, vars
  <2>2. Placed' = Placed
    BY <1>4 DEF Accept, Placed
  <2>3. ContractTypeOK' /\ PlaceInv'
    BY <1>4 DEF Accept, ContractTypeOK, PlaceInv
  <2> QED BY <2>1, <2>2, <2>3
<1>5. ASSUME NEW s \in Sessions, Lose(s) PROVE ContractInv'
  <2>1. IInv' /\ viewers' = viewers
    BY <1>5, <1>u DEF Lose, vars
  <2>2. Placed' = Placed
    BY <1>5 DEF Lose, Placed
  <2>3. ContractTypeOK' /\ PlaceInv'
    BY <1>5 DEF Lose, ContractTypeOK, PlaceInv
  <2> QED BY <2>1, <2>2, <2>3
<1>6. ASSUME NEW s \in Sessions, Leave(s) PROVE ContractInv'
  <2>1. Cardinality(Placed') = Cardinality(Placed) - 1 /\ viewers > 0
    BY <1>6, PlaceGivenBack DEF Leave
  <2>2. IInv' /\ viewers' = viewers - 1
    BY <1>6, <2>1, ViewerStepInv
       DEF Leave, Disconnect, DisconnectOther, DisconnectLast, DisconnectNobody
  <2>3. ContractTypeOK' /\ PlaceInv'
    BY <1>6 DEF Leave, ContractTypeOK, PlaceInv
  <2> QED BY <2>1, <2>2, <2>3
<1>7. CASE Background /\ UNCHANGED sessionVars
  <2>1. IInv' /\ viewers' = viewers
    BY <1>7, BackgroundInv
       DEF Background, Fire, FreezeIfStillIdle, FreezeIfIdle, CloseTabs, RestartBrave
  <2>2. Placed' = Placed
    BY <1>7 DEF sessionVars, Placed
  <2>3. ContractTypeOK' /\ PlaceInv'
    BY <1>7 DEF sessionVars, ContractTypeOK, PlaceInv
  <2> QED BY <2>1, <2>2, <2>3
<1> QED BY <1>1, <1>2, <1>3, <1>4, <1>5, <1>6, <1>7 DEF ContractNext

LEMMA ContractStutter ==
  ASSUME ContractInv, UNCHANGED contractVars
  PROVE  ContractInv'
<1>1. IInv'
  BY NextIInv DEF ContractInv, contractVars
<1>2. viewers' = viewers /\ Placed' = Placed
  BY DEF contractVars, sessionVars, vars, Placed
<1>3. ContractTypeOK' /\ PlaceInv'
  BY DEF ContractInv, contractVars, sessionVars, ContractTypeOK, PlaceInv
<1> QED BY <1>1, <1>2, <1>3 DEF ContractInv

-----------------------------------------------------------------------------
(* The page: when neither the button nor the control waits for an attempt, *)
(* none runs.                                                              *)
LEMMA NoneConnects ==
  ASSUME ClientInv, ~saverBusy, connection # "pending"
  PROVE  \A s \in Sessions : ~Connecting(s)
  BY DEF ClientInv, AttemptInv, OneConnectAtATime

(* A new attempt replaces all that is left of the others.                  *)
LEMMA BeginConnectEffect ==
  ASSUME ClientInv, ~saverBusy, connection # "pending",
         NEW who \in {"start", "saver"}, NEW selected \in Profiles,
         BeginConnect(who, selected)
  PROVE  \E s \in Sessions :
           /\ s \notin transit
           /\ current' = s
           /\ attempt' = [t \in Sessions |->
                            IF t = s THEN [step |-> "gathering", caller |-> who,
                                           served |-> "none"]
                                     ELSE NoAttempt]
           /\ shown' = shown \ {s}
           /\ profile' = selected /\ awaiting' = TRUE /\ transit' = transit
<1>1. PICK s \in Sessions :
        /\ Free(s)
        /\ current' = s
        /\ attempt' = AttemptsWith(s, [step |-> "gathering", caller |-> who,
                                       served |-> "none"])
        /\ shown' = shown \ {s}
  BY DEF BeginConnect
<1>2. \A t \in Sessions : ~Connecting(t)
  BY NoneConnects
<1>3. attempt' = [t \in Sessions |->
                    IF t = s THEN [step |-> "gathering", caller |-> who,
                                   served |-> "none"]
                             ELSE NoAttempt]
  BY <1>1, <1>2 DEF AttemptsWith
<1>4. profile' = selected /\ awaiting' = TRUE /\ transit' = transit
  BY DEF BeginConnect, ProfileFor, AwaitReplacement
<1>5. s \notin transit
  BY <1>1 DEF Free
<1> QED BY <1>1, <1>3, <1>4, <1>5

LEMMA NoAttemptType == NoAttempt \in Attempts
  BY DEF NoAttempt, Attempts

LEMMA BeginConnectInv ==
  ASSUME ClientInv, ~saverBusy, connection # "pending",
         NEW who \in {"start", "saver"}, NEW selected \in Profiles,
         BeginConnect(who, selected),
         saver' = selected, saverBusy' = (who = "saver"),
         \/ who = "start" /\ button' = "starting" /\ connection' = "pending"
         \/ who = "saver" /\ button' = "hidden" /\ connection' = "ok"
  PROVE  ClientInv'
<1>1. PICK s \in Sessions :
           /\ s \notin transit
           /\ current' = s
           /\ attempt' = [t \in Sessions |->
                            IF t = s THEN [step |-> "gathering", caller |-> who,
                                           served |-> "none"]
                                     ELSE NoAttempt]
           /\ shown' = shown \ {s}
           /\ profile' = selected /\ awaiting' = TRUE /\ transit' = transit
  BY BeginConnectEffect
<1>2. [step |-> "gathering", caller |-> who, served |-> "none"] \in Attempts
  BY DEF Attempts
<1>3. ClientTypeOK'
  BY <1>1, <1>2, NoAttemptType DEF ClientInv, ClientTypeOK
<1>4. ButtonInv'
  BY DEF ButtonInv
<1>5. \A t \in Sessions : IF t = s
        THEN /\ attempt'[t].step = "gathering" /\ attempt'[t].caller = who
        ELSE /\ attempt'[t].step = "none" /\ attempt'[t].caller = "nobody"
  BY <1>1 DEF NoAttempt
<1>6. AttemptInv' /\ OneConnectAtATime' /\ ServedInv'
  BY <1>1, <1>5 DEF AttemptInv, OneConnectAtATime, ServedInv, Connecting
<1>7. ShownInv'
  BY <1>1 DEF ClientInv, ShownInv
<1> QED BY <1>3, <1>4, <1>6, <1>7 DEF ClientInv

LEMMA StartInv ==
  ASSUME ClientInv, Start
  PROVE  ClientInv'
<1>1. saverBusy = FALSE /\ button = "ready" /\ button' = "starting" /\ saver \in Profiles
  BY DEF ClientInv, ButtonInv, Start, ClientTypeOK
<1>2. UNCHANGED saverVars
  BY DEF Start
<1>3. CASE ConnectsAnew
  <2>1. connection' = "pending" /\ BeginConnect("start", saver) /\ connection # "pending"
    BY <1>3 DEF Start, ConnectsAnew
  <2>2. saver' = saver /\ saverBusy' = ("start" = "saver")
    BY <1>1, <1>2 DEF saverVars
  <2>3. "start" \in {"start", "saver"}
    OBVIOUS
  <2> QED BY <1>1, <2>1, <2>2, <2>3, BeginConnectInv
<1>4. CASE ~ConnectsAnew
  <2>1. UNCHANGED <<connection, peerVars, transit, mediaVars, saverVars>>
    BY <1>4 DEF Start
  <2> QED BY <1>1, <2>1
          DEF peerVars, mediaVars, saverVars, ClientInv, ClientTypeOK, ButtonInv,
              AttemptInv, OneConnectAtATime, ServedInv, ShownInv, Connecting
<1> QED BY <1>3, <1>4

LEMMA PlaybackSettlesInv ==
  ASSUME ClientInv, PlaybackSettles
  PROVE  ClientInv'
  BY DEF PlaybackSettles, peerVars, mediaVars, saverVars, ClientInv, ClientTypeOK,
         ButtonInv, AttemptInv, OneConnectAtATime, ServedInv, ShownInv, Connecting

LEMMA ChangeSaverInv ==
  ASSUME ClientInv, NEW choice \in Profiles, ChangeSaver(choice)
  PROVE  ClientInv'
<1>1. ~saverBusy /\ saver' = choice /\ UNCHANGED starterVars
  BY DEF ChangeSaver
<1>2. CASE button = "hidden"
  <2>1. saverBusy' = TRUE /\ BeginConnect("saver", choice) /\ connection = "ok"
    BY <1>2 DEF ChangeSaver, ClientInv, ButtonInv
  <2> QED BY <1>1, <1>2, <2>1, BeginConnectInv DEF starterVars
<1>3. CASE button # "hidden"
  <2>1. UNCHANGED <<saverBusy, peerVars, transit, mediaVars>>
    BY <1>3 DEF ChangeSaver
  <2>2. \A s \in Sessions : attempt[s].caller # "saver"
    BY <1>3 DEF ClientInv, AttemptInv
  <2> QED BY <1>1, <1>3, <2>1, <2>2
          DEF starterVars, peerVars, mediaVars, ClientInv, ClientTypeOK, ButtonInv,
              AttemptInv, OneConnectAtATime, ServedInv, ShownInv, Connecting
<1> QED BY <1>2, <1>3

LEMMA PostInv ==
  ASSUME ClientInv, NEW s \in Sessions, Post(s)
  PROVE  ClientInv'
<1>1. attempt[s].step = "gathering" /\ attempt \in [Sessions -> Attempts]
  BY DEF Post, ClientInv, ClientTypeOK
<1>2. /\ attempt'[s].step = "posted" /\ attempt'[s].served = profile
      /\ attempt'[s].caller = attempt[s].caller
      /\ \A t \in Sessions \ {s} : attempt'[t] = attempt[t]
  BY <1>1 DEF Post, Attempts
<1>3. attempt' \in [Sessions -> Attempts]
  BY <1>1 DEF Post, Attempts, ClientInv, ClientTypeOK
<1>4. s = current
  BY <1>1 DEF ClientInv, OneConnectAtATime, Connecting
<1>5. /\ transit' = transit \cup {s}
      /\ UNCHANGED <<starterVars, saverVars, current, profile, mediaVars>>
  BY DEF Post
<1>6. ClientTypeOK' /\ ButtonInv' /\ ShownInv'
  BY <1>3, <1>5 DEF ClientInv, ClientTypeOK, ButtonInv, ShownInv, starterVars,
                    saverVars, mediaVars
<1>7. AttemptInv' /\ OneConnectAtATime' /\ ServedInv'
  BY <1>1, <1>2, <1>4, <1>5
     DEF ClientInv, AttemptInv, OneConnectAtATime, ServedInv, Connecting,
         starterVars, saverVars
<1> QED BY <1>6, <1>7 DEF ClientInv

(* connect ends, one way or the other: the attempt no longer runs.         *)
LEMMA SettleInv ==
  ASSUME ClientInv, NEW s \in Sessions, NEW connected \in BOOLEAN,
         Connecting(s), Settle(s, connected),
         connected => s \notin transit /\ attempt[s].step = "posted"
  PROVE  /\ ClientTypeOK' \/ ~(awaiting' \in BOOLEAN /\ shown' \in SUBSET Sessions)
         /\ ButtonInv' /\ AttemptInv' /\ OneConnectAtATime' /\ ServedInv'
<1> DEFINE last == IF connected THEN "live" ELSE "rejected"
<1>1. /\ attempt'[s].step = last /\ attempt'[s].served = attempt[s].served
      /\ attempt'[s].caller = attempt[s].caller
      /\ \A t \in Sessions \ {s} : attempt'[t] = attempt[t]
      /\ attempt' \in [Sessions -> Attempts]
  BY DEF Settle, ClientInv, ClientTypeOK, Attempts
<1>2. s = current /\ UNCHANGED <<saver, current, profile, transit>>
  BY DEF Settle, ClientInv, OneConnectAtATime
<1>3. \A t \in Sessions : Connecting(t) => t = s
  BY <1>2 DEF ClientInv, OneConnectAtATime
<1>4. \A t \in Sessions : ~Connecting(t)'
  BY <1>1, <1>3 DEF Connecting
<1>5. CASE attempt[s].caller = "saver"
  <2>1. saverBusy' = FALSE /\ UNCHANGED starterVars
    BY <1>5 DEF Settle
  <2> QED BY <1>1, <1>2, <1>4, <1>5, <2>1
          DEF starterVars, ClientInv, ClientTypeOK, ButtonInv, AttemptInv,
              OneConnectAtATime, ServedInv, Connecting
<1>6. CASE attempt[s].caller # "saver"
  <2>1. /\ connection' = IF connected THEN "ok" ELSE "none"
        /\ button' = IF button = "starting" /\ ~connected THEN "ready" ELSE button
        /\ saverBusy' = saverBusy
    BY <1>6 DEF Settle, ConnectionAfter
  <2>2. connection = "pending" /\ ~saverBusy
    BY <1>6 DEF ClientInv, AttemptInv, OneConnectAtATime
  <2>3. button # "hidden"
    BY <2>2 DEF ClientInv, ButtonInv
  <2> QED BY <1>1, <1>2, <1>4, <1>6, <2>1, <2>2, <2>3
          DEF ClientInv, ClientTypeOK, ButtonInv, AttemptInv, OneConnectAtATime,
              ServedInv, Connecting
<1> QED BY <1>5, <1>6

LEMMA RejectedInv ==
  ASSUME ClientInv, NEW s \in Sessions, Rejected(s)
  PROVE  ClientInv'
<1>1. Connecting(s) /\ Settle(s, FALSE) /\ UNCHANGED mediaVars
  BY DEF Rejected
<1>2. awaiting' \in BOOLEAN /\ shown' \in SUBSET Sessions
  BY <1>1 DEF mediaVars, ClientInv, ClientTypeOK
<1>3. ShownInv'
  BY <1>1 DEF mediaVars, ClientInv, ShownInv, Settle
<1> QED BY <1>1, <1>2, <1>3, SettleInv DEF ClientInv

LEMMA AnsweredInv ==
  ASSUME ClientInv, NEW s \in Sessions, Answered(s)
  PROVE  ClientInv'
<1>1. /\ Connecting(s) /\ Settle(s, TRUE) /\ ShowTracks(s)
      /\ s = current /\ s \notin transit /\ attempt[s].step = "posted"
  BY DEF Answered, Connecting
<1>2. awaiting' \in BOOLEAN /\ shown' \in SUBSET Sessions
  BY <1>1 DEF ShowTracks, ClientInv, ClientTypeOK
<1>3. ShownInv'
  BY <1>1 DEF ShowTracks, ClientInv, ShownInv, Settle
<1> QED BY <1>1, <1>2, <1>3, SettleInv DEF ClientInv

LEMMA ClientStutter ==
  ASSUME ClientInv, transit' \in SUBSET transit,
         UNCHANGED <<starterVars, saverVars, peerVars, mediaVars>>
  PROVE  ClientInv'
<1> USE DEF starterVars, saverVars, peerVars, mediaVars, ClientInv
<1>1. ClientTypeOK' /\ ButtonInv' /\ ShownInv'
  BY DEF ClientTypeOK, ButtonInv, ShownInv
<1>2. AttemptInv' /\ OneConnectAtATime' /\ ServedInv'
  BY DEF AttemptInv, OneConnectAtATime, ServedInv, Connecting
<1> QED BY <1>1, <1>2

-----------------------------------------------------------------------------
(* The two together.                                                       *)
LEMMA InitSystemInv == SystemInit => SystemInv
<1> SUFFICES ASSUME SystemInit PROVE SystemInv
  OBVIOUS
<1>1. IInv /\ viewers = 0
  BY InitIInv DEF SystemInit, ContractInit, Init
<1>2. ContractTypeOK /\ PlaceInv /\ Placed = {}
  BY DEF SystemInit, ContractInit, ContractTypeOK, PlaceInv, Placed
<1>3. ContractInv
  BY <1>1, <1>2, FS_EmptySet DEF ContractInv
<1>4. attempt \in [Sessions -> Attempts] /\ \A s \in Sessions : attempt[s] = NoAttempt
  BY NoAttemptType DEF SystemInit
<1>5. ClientTypeOK /\ ButtonInv /\ ShownInv
  BY <1>4, StreamSessionAssumption
     DEF SystemInit, ClientTypeOK, ButtonInv, ShownInv
<1>6. AttemptInv /\ OneConnectAtATime /\ ServedInv /\ LiveInv
  BY <1>4 DEF NoAttempt, AttemptInv, OneConnectAtATime, ServedInv, Connecting, LiveInv
<1> QED BY <1>3, <1>5, <1>6 DEF SystemInv, ClientInv

LEMMA ClientStepInv ==
  ASSUME SystemInv, Client
  PROVE  SystemInv'
<1> USE DEF SystemInv
<1>0. UNCHANGED contractVars
  BY DEF Client, Start, PlaybackSettles, ChangeSaver, Post, Rejected, Answered, Settle
<1>1. ContractInv' /\ reply' = reply
  BY <1>0, ContractStutter DEF contractVars, sessionVars
<1>2. ClientInv'
  BY StartInv, PlaybackSettlesInv, ChangeSaverInv, PostInv, RejectedInv, AnsweredInv
     DEF Client
<1>3. LiveInv'
  <2> USE DEF LiveInv
  <2>a. attempt \in [Sessions -> Attempts]
    BY DEF ClientInv, ClientTypeOK
  <2>b. \A who, selected : BeginConnect(who, selected) =>
          \A s \in Sessions : attempt'[s].step = "live" => attempt[s].step = "live"
    BY DEF BeginConnect, AttemptsWith, NoAttempt
  <2>1. CASE Start \/ PlaybackSettles \/ \E choice \in Profiles : ChangeSaver(choice)
    BY <2>1, <2>b, <1>1 DEF Start, PlaybackSettles, ChangeSaver, peerVars
  <2>2. ASSUME NEW s \in Sessions, Post(s) \/ Rejected(s) PROVE LiveInv'
    BY <2>2, <2>a, <1>1 DEF Post, Rejected, Settle, Attempts
  <2>3. ASSUME NEW s \in Sessions, Answered(s) PROVE LiveInv'
    BY <2>3, <2>a, <1>1 DEF Answered, Settle, Attempts
  <2> QED BY <2>1, <2>2, <2>3 DEF Client
<1> QED BY <1>1, <1>2, <1>3

LEMMA OfferArrivesInv ==
  ASSUME SystemInv, NEW s \in Sessions, OfferArrives(s)
  PROVE  SystemInv'
<1>1. /\ s \in transit /\ transit' = transit \ {s}
      /\ UNCHANGED <<starterVars, saverVars, peerVars, mediaVars>>
      /\ Offer(s) \/ UNCHANGED contractVars
  BY DEF OfferArrives
<1>2. ContractInv'
  BY <1>1, ContractStep, ContractStutter DEF SystemInv, ContractNext
<1>3. ClientInv'
  BY <1>1, ClientStutter DEF SystemInv
<1>4. attempt[s].step # "live"
  BY <1>1 DEF SystemInv, ClientInv, AttemptInv
<1>5. LiveInv'
  BY <1>1, <1>4 DEF SystemInv, LiveInv, Offer, peerVars, contractVars, sessionVars,
                    ContractInv, ContractTypeOK
<1> QED BY <1>2, <1>3, <1>5 DEF SystemInv

LEMMA ServerInv ==
  ASSUME SystemInv, (\E s \in Sessions : ServerStep(s)) \/ BackgroundStep
  PROVE  SystemInv'
<1>1. UNCHANGED clientVars /\ ContractNext
  BY DEF ServerStep, BackgroundStep, ContractNext
<1>2. ContractInv' /\ ClientInv'
  BY <1>1, ContractStep, ClientStutter DEF SystemInv, clientVars
<1>3. \A s \in Sessions : reply[s] = "answered" => reply'[s] = "answered"
  BY DEF SystemInv, ContractInv, ContractTypeOK, ServerStep, BackgroundStep,
         Refuse, Enter, Accept, Lose, Leave, sessionVars
<1>4. LiveInv'
  BY <1>1, <1>3 DEF SystemInv, LiveInv, clientVars, peerVars
<1> QED BY <1>2, <1>4 DEF SystemInv

LEMMA NextSystemInv == SystemInv /\ [SystemNext]_systemVars => SystemInv'
<1> SUFFICES ASSUME SystemInv, [SystemNext]_systemVars PROVE SystemInv'
  OBVIOUS
<1>1. CASE UNCHANGED systemVars
  <2>1. ContractInv' /\ ClientInv'
    BY <1>1, ContractStutter, ClientStutter DEF SystemInv, systemVars, clientVars
  <2>2. LiveInv'
    BY <1>1 DEF SystemInv, systemVars, clientVars, peerVars, contractVars,
                sessionVars, LiveInv
  <2> QED BY <2>1, <2>2 DEF SystemInv
<1> QED BY <1>1, ClientStepInv, OfferArrivesInv, ServerInv DEF SystemNext

(* The page and the sessions keep their types, through every name of an    *)
(* attempt that is used again.                                             *)
THEOREM SystemTypeCorrect == SystemSpec => []SystemTypeOK
<1>1. SystemInv => SystemTypeOK
  BY DEF SystemInv, ContractInv, IInv, ContractTypeOK, ClientInv, ClientTypeOK,
         Attempts, SystemTypeOK
<1> QED BY <1>1, InitSystemInv, NextSystemInv, PTL DEF SystemSpec

(* Two calls of session.connect never overlap.                             *)
THEOREM ConnectsAlone == SystemSpec => []OneConnectAtATime
<1>1. SystemInv => OneConnectAtATime
  BY DEF SystemInv, ClientInv
<1> QED BY <1>1, InitSystemInv, NextSystemInv, PTL DEF SystemSpec

(* The stream of a viewer who has switched is the one the control shows.   *)
THEOREM SwitchServed == SystemSpec => []SwitchIsServed
<1>1. SystemInv => SwitchIsServed
  BY DEF SystemInv, ClientInv, ServedInv, SwitchIsServed
<1> QED BY <1>1, InitSystemInv, NextSystemInv, PTL DEF SystemSpec

(* The video element shows one negotiation at a time.                      *)
THEOREM ShownAlone == SystemSpec => []ShowsOneConnection
<1>1. SystemInv => ShowsOneConnection
  <2> SUFFICES ASSUME SystemInv PROVE Cardinality(shown) <= 1
    BY DEF SystemInv, ClientInv, ShownInv, ShowsOneConnection
  <2>1. CASE shown = {}
    BY <2>1, FS_EmptySet
  <2>2. CASE shown # {}
    <3>1. PICK s \in shown : shown = {s}
      BY <2>2 DEF SystemInv, ClientInv, ShownInv
    <3> QED BY <3>1, FS_Singleton
  <2> QED BY <2>1, <2>2
<1> QED BY <1>1, InitSystemInv, NextSystemInv, PTL DEF SystemSpec

(* Nobody looks at a frozen page: the stream of a page that has not lost   *)
(* its connection is counted, whatever attempts were made before it.       *)
THEOREM LiveRuns == SystemSpec => []LiveStreamRuns
<1>1. SystemInv => LiveStreamRuns
  <2> SUFFICES ASSUME SystemInv, NEW s \in Sessions,
                      attempt[s].step = "live", ~lost[s]
               PROVE  /\ place[s] /\ page # "frozen"
                      /\ viewers = Cardinality({t \in Sessions : place[t]})
    BY DEF LiveStreamRuns
  <2>1. place[s] /\ s \in Placed /\ viewers = Cardinality(Placed)
    BY DEF SystemInv, LiveInv, ContractInv, PlaceInv, Placed
  <2>2. IsFiniteSet(Placed)
    BY FS_Subset, StreamSessionAssumption DEF Placed
  <2>3. viewers # 0 /\ viewers \in Nat
    BY <2>1, <2>2, FS_CardinalityType, FS_EmptySet
  <2>4. page # "frozen"
    BY <2>3 DEF SystemInv, ContractInv, IInv, WatchedPageRuns
  <2> QED BY <2>1, <2>4 DEF Placed
<1> QED BY <1>1, InitSystemInv, NextSystemInv, PTL DEF SystemSpec
-----------------------------------------------------------------------------
(* The page does nothing to the server that SessionContract does not know  *)
(* of: an offer that gets lost, one whose reply nobody waits for and the   *)
(* name of an attempt that is used again included.  So what holds of the   *)
(* contract holds behind every page.                                       *)
THEOREM PageUsesContract == SystemSpec => ContractSpec
<1>1. SystemInit => ContractInit
  BY DEF SystemInit
<1>2. [SystemNext]_systemVars => [ContractNext]_contractVars
  <2> SUFFICES ASSUME [SystemNext]_systemVars
               PROVE  ContractNext \/ UNCHANGED contractVars
    OBVIOUS
  <2>1. CASE Client
    BY <2>1 DEF Client, Start, PlaybackSettles, ChangeSaver, Post, Rejected, Answered,
                Settle
  <2>2. ASSUME NEW s \in Sessions, OfferArrives(s) \/ ServerStep(s)
        PROVE  ContractNext \/ UNCHANGED contractVars
    BY <2>2 DEF OfferArrives, ServerStep, ContractNext
  <2>3. CASE BackgroundStep
    BY <2>3 DEF BackgroundStep, ContractNext
  <2>4. CASE UNCHANGED systemVars
    BY <2>4 DEF systemVars
  <2> QED BY <2>1, <2>2, <2>3, <2>4 DEF SystemNext
<1> QED BY <1>1, <1>2, PTL DEF SystemSpec, ContractSpec

(* SessionContract in turn drives the page of Brave by the methods of      *)
(* lifecycle.go and in no other way.                                       *)
THEOREM ContractDrivesLifecycle == ContractSpec => Init /\ [][Next]_vars
<1>1. ContractInit => Init
  BY DEF ContractInit
<1>2. [ContractNext]_contractVars => [Next]_vars
  BY DEF ContractNext, Offer, Refuse, Enter, Accept, Lose, Leave, contractVars, Next
<1> QED BY <1>1, <1>2, PTL DEF ContractSpec

(* The safety half of DepartureFreezes, seen from the pages: once a viewer *)
(* had a place, Brave's page is watched, frozen or about to be frozen, as  *)
(* long as no further DevTools call fails.                                 *)
THEOREM LeaversFreeze ==
  SystemSpec => [][FreezeAhead /\ Failures' = Failures => FreezeAhead']_vars
<1>1. IInv /\ [Next]_vars =>
        [FreezeAhead /\ Failures' = Failures => FreezeAhead']_vars
  BY FreezeAheadStep
<1> QED BY <1>1, InitIInv, NextIInv, PageUsesContract, ContractDrivesLifecycle, PTL

-----------------------------------------------------------------------------
(* What the page waits for: a control that is disabled, and a connection   *)
(* that is kept as a promise, each wait for an attempt that still runs,    *)
(* and a start button that is disabled for a connection.                   *)
WaitsFor(who) == \E s \in Sessions : Connecting(s) /\ attempt[s].caller = who

NoVainWait ==
  /\ saverBusy => WaitsFor("saver")
  /\ connection = "pending" => WaitsFor("start")
  /\ button = "starting" => connection # "none"

(* The new attempt runs, and those that ran go on.                         *)
LEMMA BegunWaits ==
  ASSUME ClientTypeOK, NEW who, NEW selected, BeginConnect(who, selected)
  PROVE  /\ WaitsFor(who)'
         /\ \A other : WaitsFor(other) => WaitsFor(other)'
<1>1. PICK s \in Sessions :
        /\ Free(s)
        /\ attempt' = AttemptsWith(s, [step |-> "gathering", caller |-> who,
                                       served |-> "none"])
  BY DEF BeginConnect
<1>2. attempt'[s].step = "gathering" /\ attempt'[s].caller = who
  BY <1>1 DEF AttemptsWith
<1>3. \A t \in Sessions : Connecting(t) => attempt'[t] = attempt[t]
  BY <1>1 DEF AttemptsWith, Free
<1>4. WaitsFor(who)'
  BY <1>2 DEF WaitsFor, Connecting
<1>5. ASSUME NEW other, WaitsFor(other) PROVE WaitsFor(other)'
  BY <1>3, <1>5 DEF WaitsFor, Connecting
<1> QED BY <1>4, <1>5

(* An attempt that ends wakes up who waits for it, and nobody else.        *)
LEMMA SettledWaits ==
  ASSUME ClientInv, NoVainWait, NEW s \in Sessions, NEW connected \in BOOLEAN,
         Connecting(s), Settle(s, connected)
  PROVE  NoVainWait'
<1>1. /\ attempt \in [Sessions -> Attempts]
      /\ attempt[s].caller \in {"start", "saver"}
      /\ attempt' = [attempt EXCEPT ![s].step = IF connected THEN "live" ELSE "rejected"]
  BY DEF ClientInv, ClientTypeOK, AttemptInv, Settle
<1>2. \A t \in Sessions \ {s} : attempt'[t] = attempt[t]
  BY <1>1
<1>3. ASSUME NEW who, who # attempt[s].caller, WaitsFor(who)
      PROVE  WaitsFor(who)'
  BY <1>2, <1>3 DEF WaitsFor, Connecting
<1>4. CASE attempt[s].caller = "saver"
  <2>1. saverBusy' = FALSE /\ UNCHANGED <<button, connection>>
    BY <1>4 DEF Settle, starterVars
  <2> QED BY <1>3, <1>4, <2>1 DEF NoVainWait
<1>5. CASE attempt[s].caller = "start"
  <2>1. /\ connection' = IF connected THEN "ok" ELSE "none"
        /\ button' = IF button = "starting" /\ ~connected THEN "ready" ELSE button
        /\ UNCHANGED saverBusy
    BY <1>5 DEF Settle, ConnectionAfter
  <2> QED BY <1>3, <1>5, <2>1 DEF NoVainWait
<1> QED BY <1>1, <1>4, <1>5

LEMMA NoVainWaitStep ==
  ASSUME ClientInv, NoVainWait, [SystemNext]_systemVars
  PROVE  NoVainWait'
<1>0. ClientTypeOK
  BY DEF ClientInv
<1>1. ASSUME UNCHANGED <<button, connection, saverBusy, attempt>>
      PROVE  NoVainWait'
  BY <1>1 DEF NoVainWait, WaitsFor, Connecting
<1>2. CASE Start
  <2>1. button = "ready" /\ button' = "starting" /\ UNCHANGED saverBusy
    BY <1>2 DEF Start, saverVars
  <2>2. CASE connection = "none"
    <3>1. connection' = "pending" /\ BeginConnect("start", saver)
      BY <1>2, <2>2 DEF Start, ConnectsAnew
    <3> QED BY <1>0, <2>1, <3>1, BegunWaits DEF NoVainWait
  <2>3. CASE connection # "none"
    <3>1. UNCHANGED <<connection, attempt>>
      BY <1>2, <2>3 DEF Start, ConnectsAnew, peerVars
    <3> QED BY <2>1, <2>3, <3>1 DEF NoVainWait, WaitsFor, Connecting
  <2> QED BY <2>2, <2>3
<1>3. CASE PlaybackSettles
  <2>1. button' \in {"hidden", "ready"} /\ UNCHANGED <<connection, saverBusy, attempt>>
    BY <1>3 DEF PlaybackSettles, saverVars, peerVars
  <2> QED BY <2>1 DEF NoVainWait, WaitsFor, Connecting
<1>4. ASSUME NEW choice \in Profiles, ChangeSaver(choice) PROVE NoVainWait'
  <2>1. ~saverBusy /\ UNCHANGED <<button, connection>>
    BY <1>4 DEF ChangeSaver, starterVars
  <2>2. CASE button = "hidden"
    <3>1. BeginConnect("saver", choice)
      BY <1>4, <2>2 DEF ChangeSaver
    <3> QED BY <1>0, <2>1, <3>1, BegunWaits DEF NoVainWait
  <2>3. CASE button # "hidden"
    BY <1>1, <1>4, <2>1, <2>3 DEF ChangeSaver, peerVars
  <2> QED BY <2>2, <2>3
<1>5. ASSUME NEW s \in Sessions, Post(s) PROVE NoVainWait'
  <2>1. UNCHANGED <<button, connection, saverBusy>>
    BY <1>5 DEF Post, starterVars, saverVars
  <2>2. \A t \in Sessions :
          Connecting(t) => Connecting(t)' /\ attempt'[t].caller = attempt[t].caller
    BY <1>0, <1>5 DEF Post, Connecting, ClientTypeOK, Attempts
  <2>3. \A who : WaitsFor(who) => WaitsFor(who)'
    BY <2>2 DEF WaitsFor
  <2> QED BY <2>1, <2>3 DEF NoVainWait
<1>6. ASSUME NEW s \in Sessions, Rejected(s) \/ Answered(s) PROVE NoVainWait'
  <2>1. Connecting(s) /\ (Settle(s, TRUE) \/ Settle(s, FALSE))
    BY <1>6 DEF Rejected, Answered, Connecting
  <2> QED BY <2>1, SettledWaits
<1>7. ASSUME NEW s \in Sessions, OfferArrives(s) \/ ServerStep(s) PROVE NoVainWait'
  BY <1>1, <1>7 DEF OfferArrives, ServerStep, clientVars, starterVars, saverVars, peerVars
<1>8. CASE BackgroundStep \/ UNCHANGED systemVars
  BY <1>1, <1>8 DEF BackgroundStep, systemVars, clientVars, starterVars, saverVars,
                    peerVars
<1> QED BY <1>2, <1>3, <1>4, <1>5, <1>6, <1>7, <1>8 DEF SystemNext, Client

(* The page never stays with a disabled control, a start button that does  *)
(* nothing or a promise it has cached while no attempt is running that     *)
(* would end it: not after a refused play(), a rejected offer or a switch  *)
(* that failed.                                                            *)
THEOREM NobodyWaitsInVain == SystemSpec => []NoVainWait
<1>1. SystemInit => NoVainWait
  BY DEF SystemInit, NoVainWait
<1>2. SystemInv /\ NoVainWait /\ [SystemNext]_systemVars => NoVainWait'
  BY NoVainWaitStep DEF SystemInv
<1> QED BY <1>1, <1>2, InitSystemInv, NextSystemInv, PTL DEF SystemSpec
==============================================================================
