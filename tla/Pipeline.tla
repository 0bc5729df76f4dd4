------------------------------ MODULE Pipeline ------------------------------
(***************************************************************************)
(* One encoder pipeline (internal/stream/pipeline.go): the subscribers of  *)
(* one delivery profile, the goroutine that runs ffmpeg for them, its      *)
(* restarts and back-off, and the keyframe gate of late joiners.           *)
(*                                                                         *)
(* Every critical section of p.mu is one action.  What happens outside the *)
(* lock (the fan-out over a snapshot, the exit code read before the lock   *)
(* is taken) is split where another goroutine can run in between.          *)
(***************************************************************************)
EXTENDS Naturals

CONSTANT Tracks       \* the viewers' tracks

VARIABLES
  tracks,      \* p.tracks
  holders,     \* tracks whose unsubscribe closure has not been called yet
  gated,       \* subscriber.gated, per track
  running,     \* p.running; p.cancel is non-nil exactly when it holds
  cancelled,   \* the context of the current encoder is cancelled
  phase,       \* where the encoder goroutine is
  failed,      \* the goroutine's local `failed`, read before finish
  fresh,       \* this ffmpeg process has not produced a frame yet
  frame,       \* the frame being fanned out
  todo,        \* the part of the snapshot the fan-out has still to visit
  primed,      \* tracks that got a keyframe of this ffmpeg process
  retries,     \* p.retries, saturated where retryDelay is
  delay        \* the last non-zero delay of startLocked, in units of 100 ms

audienceVars == <<tracks, holders>>
frameVars == <<fresh, frame, todo, primed>>
retryVars == <<retries, delay>>
vars == <<tracks, holders, gated, running, cancelled, phase, failed,
          fresh, frame, todo, primed, retries, delay>>

(* "none": no goroutine; "delay": waiting out the retry delay; "launch":   *)
(* in src.start; "header": in src.decode; "stream": in next(); "fanout":   *)
(* visiting the snapshot; "exit": past the read loop, before finish.       *)
Phases == {"none", "delay", "launch", "header", "stream", "fanout", "exit"}

Frames == {"key", "inter"}

-----------------------------------------------------------------------------
(* retryDelay: 100 ms doubled per attempt, at most 1 s.  Attempts beyond   *)
(* the fourth cannot be told apart, so `retries` is saturated there.       *)
RetrySaturation == 4

RetryDelay(attempt) ==
  CASE attempt = 0 -> 1
    [] attempt = 1 -> 2
    [] attempt = 2 -> 4
    [] attempt = 3 -> 8
    [] OTHER -> 10

NextRetries == IF retries < RetrySaturation THEN retries + 1 ELSE retries

Init ==
  /\ tracks = {} /\ holders = {} /\ gated = {}
  /\ running = FALSE /\ cancelled = FALSE /\ phase = "none"
  /\ failed = FALSE /\ fresh = TRUE /\ frame = "key"
  /\ todo = {} /\ primed = {}
  /\ retries = 0 /\ delay = 0

(* startLocked: a fresh context and a goroutine that first waits out the   *)
(* delay, if there is one.                                                 *)
StartLocked(wait) ==
  /\ running' = TRUE
  /\ cancelled' = FALSE
  /\ phase' = IF wait > 0 THEN "delay" ELSE "launch"
  /\ delay' = IF wait > 0 THEN wait ELSE delay
  /\ fresh' = TRUE
  /\ primed' = {}

(* Mutant: subscribe that never gates.                                     *)
GateOfNever(t) == gated \ {t}

(* A joiner is gated when an encoder is already running.                   *)
GateOf(t) == IF running THEN gated \cup {t} ELSE gated \ {t}

(* subscribe.  A track is one viewer's: its identity is used again only    *)
(* once nothing refers to it any more.                                     *)
Subscribe(t) ==
  /\ t \notin holders \cup tracks \cup todo
  /\ tracks' = tracks \cup {t}
  /\ holders' = holders \cup {t}
  /\ gated' = GateOf(t)
  /\ IF running
     THEN UNCHANGED <<running, cancelled, phase, delay, fresh, primed>>
     ELSE StartLocked(0)
  /\ UNCHANGED <<failed, frame, todo, retries>>

CancelNever(rest) == cancelled

(* The last one out cancels the encoder.                                   *)
CancelIfIdle(rest) == (rest = {} /\ running) \/ cancelled

(* remove, whoever calls it, for a track that may already be gone.         *)
Remove(t) ==
  /\ tracks' = tracks \ {t}
  /\ cancelled' = CancelIfIdle(tracks \ {t})

(* The closure subscribe returned, run once by the viewer's cleanup.       *)
Unsubscribe(t) ==
  /\ t \in holders
  /\ holders' = holders \ {t}
  /\ Remove(t)
  /\ UNCHANGED <<gated, running, phase, failed, frameVars, retryVars>>

(* restart: SetProfile interrupts the encoder, the subscribers stay.       *)
Restart ==
  /\ running
  /\ cancelled' = TRUE
  /\ UNCHANGED <<audienceVars, gated, running, phase, failed, frameVars,
                 retryVars>>

-----------------------------------------------------------------------------
FinishDelayFlat(fail) == IF fail THEN RetryDelay(0) ELSE 0

(* The delay finish hands to startLocked: only a failure waits.            *)
FinishDelay(fail) == IF fail THEN RetryDelay(retries) ELSE 0

FinishStopping(fail) ==
  /\ running' = FALSE
  /\ cancelled' = FALSE
  /\ phase' = "none"
  /\ UNCHANGED <<retryVars, fresh, primed>>

(* finish: without subscribers the pipeline stops, with subscribers it is  *)
(* started again, after a failure with a growing delay.                    *)
Finish(fail) ==
  IF tracks = {}
  THEN /\ running' = FALSE
       /\ cancelled' = FALSE
       /\ phase' = "none"
       /\ UNCHANGED <<retryVars, fresh, primed>>
  ELSE /\ StartLocked(FinishDelay(fail))
       /\ retries' = IF fail THEN NextRetries ELSE retries

(* The retry delay is over, or the context was cancelled while waiting.    *)
DelayElapses ==
  /\ phase = "delay"
  /\ phase' = "launch"
  /\ UNCHANGED <<audienceVars, gated, running, cancelled, failed, frameVars,
                 retryVars>>

DelayCancelled ==
  /\ phase = "delay"
  /\ cancelled
  /\ Finish(FALSE)
  /\ UNCHANGED <<audienceVars, gated, failed, frame, todo>>

(* src.start.  os/exec refuses to start a command whose context is done.   *)
LaunchSucceeds ==
  /\ phase = "launch"
  /\ ~cancelled
  /\ phase' = "header"
  /\ UNCHANGED <<audienceVars, gated, running, cancelled, failed, frameVars,
                 retryVars>>

LaunchFails ==
  /\ phase = "launch"
  /\ Finish(TRUE)
  /\ UNCHANGED <<audienceVars, gated, failed, frame, todo>>

(* src.decode has read the container header.                               *)
HeaderRead ==
  /\ phase = "header"
  /\ phase' = "stream"
  /\ UNCHANGED <<audienceVars, gated, running, cancelled, failed, frameVars,
                 retryVars>>

(* The header or the stream ends: ffmpeg died, or was killed because the   *)
(* context was cancelled.  The deferred function decides here whether this *)
(* was a failure, before it waits for the process and takes p.mu.          *)
StreamEnds ==
  /\ phase \in {"header", "stream"}
  /\ phase' = "exit"
  /\ failed' = ~cancelled
  /\ UNCHANGED <<audienceVars, gated, running, cancelled, frameVars,
                 retryVars>>

Exited ==
  /\ phase = "exit"
  /\ Finish(failed)
  /\ UNCHANGED <<audienceVars, gated, failed, frame, todo>>

RetriesAfterFrameKept == retries

(* An encoder that delivers has recovered.                                 *)
RetriesAfterFrame == 0

(* next() returned a frame; the snapshot of the subscribers is loaded.     *)
(* The first frame of an encoder is a keyframe.                            *)
NextFrame(f) ==
  /\ phase = "stream"
  /\ fresh => f = "key"
  /\ phase' = "fanout"
  /\ frame' = f
  /\ fresh' = FALSE
  /\ todo' = tracks
  /\ retries' = RetriesAfterFrame
  /\ UNCHANGED <<audienceVars, gated, running, cancelled, failed, primed,
                 delay>>

PassesNever(t) == t \notin gated

PassesAlways(t) == TRUE

(* A gated subscriber is skipped until a keyframe opens its gate.          *)
Passes(t) == t \in gated => frame = "key"

Skip(t) ==
  /\ phase = "fanout"
  /\ t \in todo
  /\ ~Passes(t)
  /\ todo' = todo \ {t}
  /\ UNCHANGED <<audienceVars, gated, running, cancelled, phase, failed,
                 fresh, frame, primed, retryVars>>

Write(t) ==
  /\ phase = "fanout"
  /\ t \in todo
  /\ Passes(t)
  /\ todo' = todo \ {t}
  /\ gated' = gated \ {t}

WriteSucceeds(t) ==
  /\ Write(t)
  /\ primed' = IF frame = "key" THEN primed \cup {t} ELSE primed
  /\ UNCHANGED <<audienceVars, running, cancelled, phase, failed, fresh,
                 frame, retryVars>>

(* WriteSample failed: the run loop itself removes the track.              *)
WriteFails(t) ==
  /\ Write(t)
  /\ Remove(t)
  /\ UNCHANGED <<holders, running, phase, failed, fresh, frame, primed,
                 retryVars>>

FanoutDone ==
  /\ phase = "fanout"
  /\ todo = {}
  /\ phase' = "stream"
  /\ UNCHANGED <<audienceVars, gated, running, cancelled, failed, frameVars,
                 retryVars>>

Fanout ==
  \/ \E t \in Tracks : Skip(t) \/ WriteSucceeds(t) \/ WriteFails(t)
  \/ FanoutDone

Next ==
  \/ \E t \in Tracks : Subscribe(t) \/ Unsubscribe(t)
  \/ Restart
  \/ DelayElapses \/ DelayCancelled
  \/ LaunchSucceeds \/ LaunchFails
  \/ HeaderRead \/ StreamEnds \/ Exited
  \/ \E f \in Frames : NextFrame(f)
  \/ Fanout

(* The goroutine keeps running (weak fairness).  Of the outside world: a   *)
(* killed ffmpeg leaves only what is left in the pipe, so the read loop    *)
(* ends however many frames it still finds there; an ffmpeg that is        *)
(* started again and again starts in the end; and one that keeps streaming *)
(* produces a keyframe in the end, as its -g option makes it (strong       *)
(* fairness).                                                              *)
Fairness ==
  /\ WF_vars(DelayElapses \/ DelayCancelled)
  /\ WF_vars(LaunchSucceeds \/ LaunchFails)
  /\ WF_vars(Exited)
  /\ WF_vars(Fanout)
  /\ SF_vars(cancelled /\ StreamEnds)
  /\ SF_vars(LaunchSucceeds)
  /\ SF_vars(HeaderRead)
  /\ SF_vars(NextFrame("key"))

Spec == Init /\ [][Next]_vars /\ Fairness

-----------------------------------------------------------------------------
TypeOK ==
  /\ tracks \in SUBSET Tracks
  /\ holders \in SUBSET Tracks
  /\ gated \in SUBSET Tracks
  /\ todo \in SUBSET Tracks
  /\ primed \in SUBSET Tracks
  /\ running \in BOOLEAN
  /\ cancelled \in BOOLEAN
  /\ failed \in BOOLEAN
  /\ fresh \in BOOLEAN
  /\ frame \in Frames
  /\ phase \in Phases
  /\ retries \in 0..RetrySaturation
  /\ delay \in {0, 1, 2, 4, 8, 10}

(* With a subscriber there is an encoder goroutine, without one the        *)
(* encoder has been told to stop: "It starts on the first subscriber and   *)
(* stops on the last" (pipeline.go, type pipeline), whatever the order in  *)
(* which viewers leave, writes fail and encoders exit.                     *)
EncoderFollowsAudience ==
  /\ tracks # {} => running
  /\ (tracks = {} /\ running) => cancelled

(* A frame that depends on earlier ones reaches only decoders that already *)
(* hold a keyframe of the same ffmpeg process: the gate hides the middle   *)
(* of a GOP from a viewer who joins late, and a restarted encoder is never *)
(* continued on the frames of its predecessor.                             *)
NoUndecodableFrame ==
  (phase = "fanout" /\ frame = "inter") =>
    \A t \in todo : t \notin gated => t \in primed

(* A pipeline that fails again before any frame was decoded waits twice as *)
(* long as the last time, up to a second; a profile change in between does *)
(* not reset the back-off.                                                 *)
BackoffDoubles ==
  [][ (phase' = "delay" /\ phase # "delay" /\ retries > 0) =>
        delay' = IF 2 * delay > 10 THEN 10 ELSE 2 * delay ]_vars

(* What failed before is forgotten with the first decoded frame: however   *)
(* long a pipeline was backing off, the next failure of an encoder that    *)
(* has delivered is answered after 100 ms, whoever joined or left and      *)
(* whatever was restarted in between.                                      *)
BackoffStartsOver ==
  [][ (phase' = "delay" /\ ~fresh) => delay' = RetryDelay(0) ]_vars

(* A viewer who joined in the middle of a GOP gets a picture, or leaves:   *)
(* nobody is gated forever, unless the profile is changed forever (every   *)
(* change takes the encoder away from its waiting viewers).                *)
GateOpens ==
  <>[]~cancelled =>
    \A t \in Tracks :
      (t \in tracks \cap gated) ~> (t \notin tracks \/ t \notin gated)

(* pipeline.go on restart: "Subscribers stay attached, so finish()         *)
(* immediately brings a fresh process up": an encoder that was cancelled   *)
(* under its subscribers is replaced without a retry delay.                *)
RestartIsImmediate ==
  [][ (cancelled /\ running' /\ ~cancelled') => phase' = "launch" ]_vars

(* What the encoder goroutine is to its listeners.                         *)
Supply == IF ~running THEN "off" ELSE IF cancelled THEN "stopping" ELSE "on"

Demand == INSTANCE EncoderDemand WITH audience <- tracks, supply <- Supply

(* The pipeline, with all its phases, does what EncoderDemand promises,    *)
(* and a cancelled encoder does give way.                                  *)
ImplementsDemand == Demand!Spec
==============================================================================
