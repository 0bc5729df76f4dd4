------------------------------ MODULE StreamSpec ------------------------------
(***************************************************************************)
(* What a viewer is served, computed from the configuration, the capture   *)
(* profile and the viewer's own delivery profile                           *)
(* (internal/config/profile.go, config.go): geometry, bit rates, codec.    *)
(*                                                                         *)
(* A configuration is a record with the capture profile in it, as in the   *)
(* code.  Fields that only tune the encoders (CPUUsed, Threads, the Opus   *)
(* application) are left out.  A rate such as "1200k" is a number and a    *)
(* unit; a string that is empty, or not an integer ("1.5M"), has number 0, *)
(* for the code does not tell these from a rate that is not positive.      *)
(***************************************************************************)
EXTENDS Integers

VideoProfiles == {"1080p60", "1080p30", "720p60", "720p30"}

StreamProfiles == {"full", "saver480", "saver360"}

Units == {"k", "M", "bit"}

Rates == [number : Int, unit : Units]

(* What FromEnv lets pass.                                                 *)
Configs == [Width : Nat \ {0}, Height : Nat \ {0}, FPS : Nat \ {0},
            Bitrate : Rates, AudioBitrate : Rates, Profile : VideoProfiles]

Lower(a, b) == IF a <= b THEN a ELSE b

-----------------------------------------------------------------------------
Dimensions(p) ==
  CASE p = "1080p60" -> [width |-> 1920, height |-> 1080, fps |-> 60]
    [] p = "1080p30" -> [width |-> 1920, height |-> 1080, fps |-> 30]
    [] p = "720p60" -> [width |-> 1280, height |-> 720, fps |-> 60]
    [] p = "720p30" -> [width |-> 1280, height |-> 720, fps |-> 30]

(* The capture, which the configured size limits.                          *)
VideoOutput(c) ==
  LET wanted == Dimensions(c.Profile) IN
  [width |-> Lower(wanted.width, c.Width),
   height |-> Lower(wanted.height, c.Height),
   fps |-> Lower(wanted.fps, c.FPS)]

(* The size Brave's window gets from start.sh, whenever Brave starts.      *)
StartViewport(c) ==
  IF c.Profile \in {"720p60", "720p30"}
  THEN [width |-> 1280, height |-> 720]
  ELSE [width |-> c.Width, height |-> c.Height]

(* The one it gets from /quality.                                          *)
Viewport(c) ==
  [width |-> VideoOutput(c).width, height |-> VideoOutput(c).height]

-----------------------------------------------------------------------------
LadderKbps(p) ==
  CASE p = "1080p60" -> 6000
    [] p = "1080p30" -> 4000
    [] p = "720p60" -> 3000
    [] p = "720p30" -> 1800

KbpsFromRate(rate, fallback) ==
  CASE rate.number <= 0 -> fallback
    [] rate.number > 0 /\ rate.unit = "k" -> rate.number
    [] rate.number > 0 /\ rate.unit = "M" -> 1000 * rate.number
    [] rate.number > 0 /\ rate.unit = "bit" ->
         IF rate.number < 1000 THEN 1 ELSE rate.number \div 1000

(* Bit rates, frame rate and shape of each delivery profile, before the    *)
(* ceilings.                                                               *)
Budget(c, delivery) ==
  LET capture == VideoOutput(c) IN
  CASE delivery = "saver360" ->
         [height |-> 360, fps |-> Lower(capture.fps, 15), gopSeconds |-> 4,
          videoKbps |-> 70, audioKbps |-> 16, audioFrameMillis |-> 60,
          codec |-> "vp9"]
    [] delivery = "saver480" ->
         [height |-> 480, fps |-> Lower(capture.fps, 20), gopSeconds |-> 4,
          videoKbps |-> 350, audioKbps |-> 24, audioFrameMillis |-> 20,
          codec |-> "vp9"]
    [] delivery = "full" ->
         [height |-> 0, fps |-> capture.fps, gopSeconds |-> 2,
          videoKbps |-> LadderKbps(c.Profile),
          audioKbps |-> KbpsFromRate(c.AudioBitrate, 32),
          audioFrameMillis |-> 20, codec |-> "vp8"]

CeilingAsRate(kbps, rate) ==
  LET cap == KbpsFromRate(rate, 0) IN IF cap > 0 THEN cap ELSE kbps

(* VIDEO_BITRATE and AUDIO_BITRATE limit a bit rate.                       *)
Ceiling(kbps, rate) ==
  LET cap == KbpsFromRate(rate, 0) IN IF cap > 0 /\ cap < kbps THEN cap ELSE kbps

StreamSpecFor(c, delivery) ==
  [Budget(c, delivery) EXCEPT !.videoKbps = Ceiling(@, c.Bitrate),
                              !.audioKbps = Ceiling(@, c.AudioBitrate)]

(* handleOffer falls back to VP8 for a viewer that does not offer VP9.     *)
ServedCodec(c, delivery, offersVP9) ==
  LET codec == StreamSpecFor(c, delivery).codec IN
  IF codec = "vp9" /\ ~offersVP9 THEN "vp8" ELSE codec

StreamSpecWithCodec(c, delivery, codec) ==
  [StreamSpecFor(c, delivery) EXCEPT !.codec = codec]

-----------------------------------------------------------------------------
(* The payloads and 40 bytes of header for each packet: 1000 over          *)
(* audioFrameMillis packets a second for audio, one per 1200 bytes for     *)
(* video, so 320 over audioFrameMillis and videoKbps over 30 kbps, rounded *)
(* to the nearest (in floating point; the rounding of an exact half may    *)
(* differ).                                                                *)
HeaderKbps(s) ==
  LET millis == s.audioFrameMillis IN
  IF s.audioKbps > 0
  THEN (19200 + 2 * millis * s.videoKbps + 30 * millis) \div (60 * millis)
  ELSE (s.videoKbps + 15) \div 30

TotalKbps(s) == s.videoKbps + s.audioKbps + HeaderKbps(s)

GOPFrames(s) == IF s.gopSeconds * s.fps < 1 THEN 1 ELSE s.gopSeconds * s.fps

(* What ffmpeg is told to scale to, and /stats and the log report; a       *)
(* height of 0 is that of the capture.                                     *)
OutputHeight(c, s) ==
  LET captured == VideoOutput(c).height IN
  IF s.height > 0 /\ s.height < captured THEN s.height ELSE captured
==============================================================================
