------------------------------- MODULE Quality -------------------------------
(***************************************************************************)
(* POST /quality (handleQuality, cmd/server/main.go) on the video          *)
(* registry: the window of Brave is resized, which is what the encoders    *)
(* capture, and only then the registry is told the profile.  Nothing       *)
(* orders two requests, a resize can fail, and Brave comes back from a     *)
(* restart with the size it was first started with.                        *)
(*                                                                         *)
(* An operator is a request at a time; resize and SetProfile are steps of  *)
(* their own.  StreamSpec says what size belongs to a profile.             *)
(***************************************************************************)
EXTENDS Broadcaster, StreamSpec

CONSTANTS
  Environment,   \* the configuration the server is started with
  Ceilings       \* rates VIDEO_BITRATE and AUDIO_BITRATE may have

ASSUME QualityAssumption ==
  /\ Profiles \subseteq VideoProfiles
  /\ Environment \in Configs
  /\ Environment.Profile = FirstProfile
  /\ Ceilings \subseteq Rates

VARIABLES
  window,     \* the size of Brave's window
  asked,      \* per operator: the profile of the request, if there is one
  resizedBy,  \* who resized the window last and will set the profile
  settled     \* no resize, nor a restart of Brave, since the profile was set
              \* by the request that had resized the window last

windowVars == <<window, asked, resizedBy, settled>>
qualityVars == <<vars, windowVars>>

Capturing(f) == [Environment EXCEPT !.Profile = f]

(* The size a profile asks for.                                            *)
SizeFor(f) == Viewport(Capturing(f))

StartSize == StartViewport(Environment)

QualityInit ==
  /\ Init
  /\ window = StartSize
  /\ asked = [o \in Operators |-> None]
  /\ resizedBy = None
  /\ settled = (StartSize = SizeFor(FirstProfile))

-----------------------------------------------------------------------------
(* A request with a valid profile arrives.                                 *)
Ask(o, f) ==
  /\ pc[o] = "idle"
  /\ spent.changes < MaxChanges
  /\ spent' = [spent EXCEPT !.changes = @ + 1]
  /\ asked' = [asked EXCEPT ![o] = f]
  /\ Goto(o, "resize")
  /\ UNCHANGED <<locks, store, pipes, at, back, todo, polls, window, resizedBy, settled>>

ResizedUnlessCurrent(f) == IF f = profile THEN window ELSE SizeFor(f)

Resized(f) == SizeFor(f)

Resize(o) ==
  /\ pc[o] = "resize"
  /\ window' = Resized(asked[o])
  /\ resizedBy' = o
  /\ settled' = FALSE
  /\ Goto(o, "apply")
  /\ UNCHANGED <<locks, store, pipes, at, back, todo, polls, spent, asked>>

(* xdotool finds no window, or is killed because the client is gone,       *)
(* before or after it had its effect: the profile stays as it is.          *)
ResizeFails(o) ==
  /\ pc[o] = "resize"
  /\ \/ UNCHANGED <<window, resizedBy, settled>>
     \/ window' = Resized(asked[o]) /\ resizedBy' = None /\ settled' = FALSE
  /\ asked' = [asked EXCEPT ![o] = None]
  /\ Goto(o, "idle")
  /\ UNCHANGED <<locks, store, pipes, at, back, todo, polls, spent>>

Apply(o) ==
  /\ pc[o] = "apply"
  /\ SetProfile(o, asked[o])
  /\ asked' = [asked EXCEPT ![o] = None]
  /\ settled' = (resizedBy = o)
  /\ resizedBy' = IF resizedBy = o THEN None ELSE resizedBy
  /\ UNCHANGED window

RestartBrave ==
  /\ window' = StartSize
  /\ resizedBy' = None
  /\ settled' = FALSE
  /\ UNCHANGED <<vars, asked>>

Request(o) ==
  \/ (\E f \in Profiles : Ask(o, f)) \/ Resize(o) \/ ResizeFails(o) \/ Apply(o)
  \/ ((\E p \in Pipes : Restart(o, p)) \/ SetProfileDone(o)) /\ UNCHANGED windowVars

QualityNext ==
  \/ Next /\ UNCHANGED windowVars
  \/ \E o \in Operators : Request(o)
  \/ RestartBrave

QualitySpec == QualityInit /\ [][QualityNext]_qualityVars

-----------------------------------------------------------------------------
QualityTypeOK ==
  /\ TypeOK
  /\ window \in {StartSize} \cup {SizeFor(f) : f \in Profiles}
  /\ asked \in [Operators -> Profiles \cup {None}]
  /\ resizedBy \in Operators \cup {None}
  /\ settled \in BOOLEAN

(* A pipeline that is still registered encodes with the profile last set,  *)
(* or is about to be restarted by the SetProfile call that set it.         *)
RegisteredFollowsProfile ==
  \A p \in Registered :
    (supply[p] = "on" /\ spec[p] # None /\ spec[p] # profile) =>
      \E o \in Operators : p \in todo[o]

(* What is encoded is the window, no more and no less of the screen, as    *)
(* soon as a request that was not overtaken is through: it also repairs    *)
(* what earlier requests that overlapped or failed, or a restart of Brave, *)
(* have left, even when it asks for the profile the server has already.    *)
CaptureFitsWindow ==
  settled =>
    /\ window = SizeFor(profile)
    /\ \A p \in Registered :
         (supply[p] = "on" /\ spec[p] # None) =>
           \/ SizeFor(spec[p]) = window
           \/ \E o \in Operators : p \in todo[o]

(* A rate that is no rate, or 0, sets no ceiling.                          *)
WithinCeiling(kbps, rate) ==
  KbpsFromRate(rate, 0) > 0 => kbps <= KbpsFromRate(rate, 0)

(* What is served under configuration c, against what /stats advertises.   *)
WithinBudget(c, delivery, offersVP9) ==
  LET advertised == StreamSpecFor(c, delivery)
      served == StreamSpecWithCodec(c, delivery,
                                    ServedCodec(c, delivery, offersVP9))
  IN  /\ TotalKbps(served) = TotalKbps(advertised)
      /\ delivery = "saver360" => TotalKbps(served) <= 100
      /\ WithinCeiling(served.videoKbps, c.Bitrate)
      /\ WithinCeiling(served.audioKbps, c.AudioBitrate)
      /\ served.videoKbps <= LadderKbps(c.Profile)
      /\ OutputHeight(c, served) <= VideoOutput(c).height
      /\ GOPFrames(served) >= 1

Limited(f, video, audio) ==
  [Capturing(f) EXCEPT !.Bitrate = video, !.AudioBitrate = audio]

BudgetsOf[f \in Profiles] ==
  \A video, audio \in Ceilings, delivery \in StreamProfiles, offersVP9 \in BOOLEAN :
    WithinBudget(Limited(f, video, audio), delivery, offersVP9)

(* Under every capture profile and whatever ceilings are configured, a     *)
(* viewer gets no more bits than /stats advertises for its delivery, with  *)
(* VP9 or without, and on saver360 no more than 100 kbps, headers          *)
(* included; a ceiling holds for every delivery; and a saver delivery is   *)
(* never scaled up.                                                        *)
BudgetsHold == BudgetsOf[profile]

(* broadcaster.go: "SetProfile changes the capture geometry for every      *)
(* pipeline", also for one that is no longer registered.                   *)
EveryEncoderFollowsProfile ==
  \A p \in Pipes :
    (supply[p] = "on" /\ spec[p] # None /\ spec[p] # profile) =>
      \E o \in Operators : p \in todo[o]

(* README.md: VIDEO_BITRATE and AUDIO_BITRATE "act as ceilings": a         *)
(* delivery without them never gets fewer bits than with them.             *)
CeilingsNeverRaise ==
  \A video, audio \in Ceilings, delivery \in StreamProfiles :
    LET none == [number |-> 0, unit |-> "k"]
    IN  TotalKbps(StreamSpecFor(Limited(profile, video, audio), delivery))
          <= TotalKbps(StreamSpecFor(Limited(profile, none, none), delivery))

(* README.md: "it resizes the browser window that is being captured": when *)
(* nobody is changing the quality, the encoders capture the whole window.  *)
WindowIsCaptured ==
  (\A o \in Operators : pc[o] = "idle") => window = SizeFor(profile)
==============================================================================
