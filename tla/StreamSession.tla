---------------------------- MODULE StreamSession ----------------------------
(***************************************************************************)
(* The page of a viewer in front of the server's sessions: the peer        *)
(* connection of web/session.mjs, the start button and the data-saver      *)
(* control of web/app.mjs, createPlaybackStarter (web/playback.mjs), and   *)
(* what SessionContract promises them.  With the latter comes              *)
(* ViewerLifecycle, so that the whole way from the start button to the     *)
(* state of Brave's page is one system.                                    *)
(*                                                                         *)
(* An attempt to connect has the name of the session its offer begins.  A  *)
(* listener or a callback runs to its end, or to its next await, and is    *)
(* one action.                                                             *)
(***************************************************************************)
EXTENDS SessionContract

CONSTANTS
  Profiles,       \* what the data-saver control offers
  FirstProfile,   \* the one it shows before the user touches it
  NoSession

ASSUME StreamSessionAssumption ==
  /\ FirstProfile \in Profiles
  /\ NoSession \notin Sessions
  /\ IsFiniteSet(Sessions)

VARIABLES
  button,      \* startButton: enabled, disabled while it starts, hidden
  connection,  \* playbackStarter's connection: null, a promise, resolved
  saver,       \* saver.value
  saverBusy,   \* saver.disabled
  current,     \* session.mjs: peer
  profile,     \* session.mjs: profile
  attempt,     \* per peer connection: where connect is, for whom, and the
               \* profile in the URL of its offer
  transit,     \* offers on their way to the server
  awaiting,    \* awaitingReplacement
  shown        \* the connections whose tracks are in mediaStream

starterVars == <<button, connection>>
saverVars == <<saver, saverBusy>>
peerVars == <<current, profile, attempt>>
mediaVars == <<awaiting, shown>>
clientVars == <<starterVars, saverVars, peerVars, transit, mediaVars>>
systemVars == <<contractVars, clientVars>>

NoAttempt == [step |-> "none", caller |-> "nobody", served |-> "none"]

SystemInit ==
  /\ ContractInit
  /\ button = "ready" /\ connection = "none"
  /\ saver = FirstProfile /\ saverBusy = FALSE
  /\ current = NoSession /\ profile = FirstProfile
  /\ attempt = [s \in Sessions |-> NoAttempt]
  /\ transit = {}
  /\ awaiting = FALSE /\ shown = {}

Connecting(s) == attempt[s].step \in {"gathering", "posted"}

(* The page has no use for the session any more: it has replaced the peer  *)
(* connection, and closed it, or gave up on it and left it as it was.      *)
Abandoned(s) == s # current \/ attempt[s].step = "rejected"

-----------------------------------------------------------------------------
(* A name for a new attempt, and what is still known of the others.        *)
Free(s) == Abandoned(s) /\ ~Connecting(s) /\ s \notin transit /\ Unused(s)

AttemptsWith(s, new) ==
  [t \in Sessions |-> IF t = s THEN new
                      ELSE IF Connecting(t) THEN attempt[t] ELSE NoAttempt]

(* The profile app.mjs's connect hands to session.connect.                 *)
ProfileKept(selected) == profile

ProfileFor(selected) == selected

AwaitReplacementNot == UNCHANGED awaiting

AwaitReplacement == awaiting' = TRUE

(* connect of app.mjs and of session.mjs, up to the first await: the old   *)
(* peer connection is closed whatever will become of the new one.          *)
BeginConnect(who, selected) ==
  /\ \E s \in Sessions :
       /\ Free(s)
       /\ current' = s
       /\ attempt' = AttemptsWith(s, [step |-> "gathering", caller |-> who,
                                      served |-> "none"])
       /\ shown' = shown \ {s}
  /\ profile' = ProfileFor(selected)
  /\ AwaitReplacement
  /\ UNCHANGED transit

(* The click on the start button: playbackStarter.start calls play() and   *)
(* connects, unless an earlier click has begun a connection already.       *)
ConnectsAlways == TRUE

ConnectsAnew == connection = "none"

Start ==
  /\ button = "ready"
  /\ button' = "starting"
  /\ IF ConnectsAnew
     THEN connection' = "pending" /\ BeginConnect("start", saver)
     ELSE UNCHANGED <<connection, peerVars, transit, mediaVars>>
  /\ UNCHANGED <<contractVars, saverVars>>

(* The promise of a start is settled: play() resolves once there is        *)
(* something to play, or is refused, which does not end the connection.    *)
PlaybackSettles ==
  /\ button = "starting"
  /\ \/ connection = "ok" /\ button' = "hidden"
     \/ button' = "ready"
  /\ UNCHANGED <<contractVars, connection, saverVars, peerVars, transit, mediaVars>>

(* The data-saver control: a stream that has been started is negotiated    *)
(* anew, and the control is disabled meanwhile; else the choice is kept    *)
(* for later.                                                              *)
ChangeSaver(choice) ==
  /\ ~saverBusy
  /\ choice # saver
  /\ saver' = choice
  /\ IF button = "hidden"
     THEN saverBusy' = TRUE /\ BeginConnect("saver", choice)
     ELSE UNCHANGED <<saverBusy, peerVars, transit, mediaVars>>
  /\ UNCHANGED <<contractVars, starterVars>>

-----------------------------------------------------------------------------
(* The offer goes out when its candidates are gathered, with the profile   *)
(* the session has by then.                                                *)
Post(s) ==
  /\ attempt[s].step = "gathering"
  /\ attempt' = [attempt EXCEPT ![s].step = "posted", ![s].served = profile]
  /\ transit' = transit \cup {s}
  /\ UNCHANGED <<contractVars, starterVars, saverVars, current, profile, mediaVars>>

(* playbackStarter forgets a connection that was rejected.                 *)
ConnectionAfterKept(connected) == IF connected THEN "ok" ELSE "rejected"

ConnectionAfter(connected) == IF connected THEN "ok" ELSE "none"

(* connect ends, and with it what its caller was waiting for.              *)
Settle(s, connected) ==
  /\ attempt' = [attempt EXCEPT ![s].step = IF connected THEN "live"
                                                         ELSE "rejected"]
  /\ IF attempt[s].caller = "saver"
     THEN saverBusy' = FALSE /\ UNCHANGED starterVars
     ELSE /\ connection' = ConnectionAfter(connected)
          /\ button' = IF button = "starting" /\ ~connected THEN "ready" ELSE button
          /\ UNCHANGED saverBusy
  /\ UNCHANGED <<contractVars, saver, current, profile, transit>>

(* createOffer fails, gathering takes too long, the server refuses, its    *)
(* answer is lost or cannot be used: nobody closes the peer connection.    *)
Rejected(s) ==
  /\ Connecting(s)
  /\ Settle(s, FALSE)
  /\ UNCHANGED mediaVars

(* ontrack: the first tracks of a new connection drop the old ones.        *)
ShowTracks(s) ==
  /\ shown' = IF awaiting THEN {s} ELSE shown \cup {s}
  /\ awaiting' = FALSE

(* The answer is applied, which only a connection that has not been        *)
(* replaced, and closed, accepts.                                          *)
Answered(s) ==
  /\ attempt[s].step = "posted"
  /\ s \notin transit /\ reply[s] = "answered"
  /\ s = current
  /\ ShowTracks(s)
  /\ Settle(s, TRUE)

Client ==
  \/ Start \/ PlaybackSettles
  \/ \E choice \in Profiles : ChangeSaver(choice)
  \/ \E s \in Sessions : Post(s) \/ Rejected(s) \/ Answered(s)

-----------------------------------------------------------------------------
(* The offer arrives, even if the page has given up waiting for the reply, *)
(* or gets lost.                                                           *)
OfferArrives(s) ==
  /\ s \in transit
  /\ transit' = transit \ {s}
  /\ Offer(s) \/ UNCHANGED contractVars
  /\ UNCHANGED <<starterVars, saverVars, peerVars, mediaVars>>

ServerStep(s) ==
  /\ Refuse(s) \/ Enter(s) \/ Accept(s) \/ Lose(s) \/ Leave(s)
  /\ UNCHANGED clientVars

BackgroundStep == Background /\ UNCHANGED <<sessionVars, clientVars>>

SystemNext ==
  \/ Client
  \/ \E s \in Sessions : OfferArrives(s) \/ ServerStep(s)
  \/ BackgroundStep

SystemSpec == SystemInit /\ [][SystemNext]_systemVars

-----------------------------------------------------------------------------
SystemTypeOK ==
  /\ TypeOK
  /\ reply \in [Sessions -> {"none", "asked", "placed", "answered", "refused"}]
  /\ lost \in [Sessions -> BOOLEAN]
  /\ place \in [Sessions -> BOOLEAN]
  /\ button \in {"ready", "starting", "hidden"}
  /\ connection \in {"none", "pending", "ok"}
  /\ saver \in Profiles
  /\ saverBusy \in BOOLEAN
  /\ current \in Sessions \cup {NoSession}
  /\ profile \in Profiles
  /\ attempt \in [Sessions ->
       [step : {"none", "gathering", "posted", "live", "rejected"},
        caller : {"nobody", "start", "saver"},
        served : Profiles \cup {"none"}]]
  /\ transit \in SUBSET Sessions
  /\ awaiting \in BOOLEAN
  /\ shown \in SUBSET Sessions

(* A page whose stream is live looks at a page of Brave's that runs, for   *)
(* the server counts it until its connection is lost: neither the sessions *)
(* it has replaced or given up nor the timers they leave take it away.     *)
LiveStreamRuns ==
  \A s \in Sessions : (attempt[s].step = "live" /\ ~lost[s]) =>
    /\ place[s] /\ page # "frozen"
    /\ viewers = Cardinality({t \in Sessions : place[t]})

(* session.connect is not written to run twice at a time (it reads profile *)
(* after its awaits): start button, cached connection and disabled control *)
(* keep the page from doing so, and the attempt that runs is the current   *)
(* peer connection.                                                        *)
OneConnectAtATime ==
  \A s \in Sessions : Connecting(s) =>
    /\ current = s
    /\ saverBusy <=> attempt[s].caller = "saver"
    /\ connection = "pending" <=> attempt[s].caller = "start"

(* The video element never mixes two negotiations: it shows the tracks of  *)
(* the current connection, or while that has none those of one other.      *)
ShowsOneConnection ==
  /\ Cardinality(shown) <= 1
  /\ ~awaiting => shown \subseteq {current}

(* A viewer who switches while the stream runs gets what the control       *)
(* shows: nothing that happens during the negotiation separates the two.   *)
SwitchIsServed ==
  \A s \in Sessions :
    (s = current /\ attempt[s].step = "live" /\ attempt[s].caller = "saver") =>
      attempt[s].served = saver

(* app.mjs: "before Start there is nothing to switch and the choice is     *)
(* simply used on first connect".                                          *)
ChoiceIsServed ==
  \A s \in Sessions :
    (button = "hidden" /\ ~saverBusy /\ s = current /\ attempt[s].step = "live") =>
      attempt[s].served = saver
==============================================================================
