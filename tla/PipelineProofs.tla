---------------------------- MODULE PipelineProofs ----------------------------
(***************************************************************************)
(* Theorems about Pipeline, for every set of tracks.                       *)
(*                                                                         *)
(* Neither NoUndecodableFrame nor EncoderFollowsAudience is inductive.     *)
(* What carries NoUndecodableFrame is an invariant of the whole life of an *)
(* encoder: between two frames every ungated subscriber is primed, and a   *)
(* key frame primes the part of the snapshot it has visited.               *)
(***************************************************************************)
EXTENDS Pipeline, TLAPS

GoroutineInv ==
  /\ running <=> phase # "none"
  /\ cancelled => running

FreshInv ==
  /\ phase \in {"delay", "launch", "header"} => fresh
  /\ phase = "fanout" => ~fresh

OpenIsPrimed(S) == \A t \in S : t \notin gated => t \in primed

PrimedInv ==
  /\ (phase = "stream" /\ ~fresh) => OpenIsPrimed(tracks)
  /\ (phase = "fanout" /\ frame = "key") => OpenIsPrimed(tracks \ todo)
  /\ (phase = "fanout" /\ frame = "inter") => OpenIsPrimed(tracks \cup todo)

IInv ==
  /\ TypeOK
  /\ GoroutineInv
  /\ EncoderFollowsAudience
  /\ FreshInv
  /\ PrimedInv

(* `delay` is what RetryDelay gave at the last failure.                    *)
BackoffInv ==
  /\ retries = 1 => delay = 1
  /\ retries = 2 => delay = 2
  /\ retries = 3 => delay = 4
  /\ retries = 4 => delay \in {8, 10}

-----------------------------------------------------------------------------
(* The tables of retryDelay stay inside the delays TypeOK lists.           *)
LEMMA FinishDelayType ==
  ASSUME TypeOK, NEW fail \in BOOLEAN
  PROVE  /\ FinishDelay(fail) \in {0, 1, 2, 4, 8, 10}
         /\ NextRetries \in 0..RetrySaturation
  BY DEF TypeOK, FinishDelay, RetryDelay, NextRetries, RetrySaturation

(* No failure yet is a count TypeOK allows.                                *)
LEMMA NoRetry == 0 \in 0..RetrySaturation
  BY DEF RetrySaturation

(* Subscribe either joins a running encoder, behind the gate, or starts    *)
(* one.                                                                    *)
LEMMA SubscribeInv ==
  ASSUME IInv, NEW t \in Tracks, Subscribe(t)
  PROVE  IInv'
<1> USE DEF IInv, Subscribe, GateOf
<1>1. CASE running
  BY <1>1 DEF TypeOK, GoroutineInv, EncoderFollowsAudience, FreshInv,
              PrimedInv, OpenIsPrimed
<1>2. CASE ~running
  BY <1>2 DEF TypeOK, GoroutineInv, EncoderFollowsAudience, FreshInv,
              PrimedInv, OpenIsPrimed, StartLocked, Phases
<1> QED BY <1>1, <1>2

(* finish, wherever the encoder goroutine calls it.                        *)
LEMMA FinishInv ==
  ASSUME IInv, NEW fail \in BOOLEAN, Finish(fail),
         UNCHANGED <<audienceVars, gated, failed, frame, todo>>
  PROVE  IInv'
<1>1. FinishDelay(fail) \in {0, 1, 2, 4, 8, 10} /\ NextRetries \in 0..RetrySaturation
  BY FinishDelayType DEF IInv
<1>2. CASE tracks = {}
  BY <1>2 DEF IInv, Finish, TypeOK, GoroutineInv, EncoderFollowsAudience,
              FreshInv, PrimedInv, OpenIsPrimed, audienceVars, retryVars,
              Phases
<1>3. CASE tracks # {}
  <2>1. TypeOK'
    BY <1>1, <1>3 DEF IInv, Finish, StartLocked, TypeOK, audienceVars, Phases
  <2>2. GoroutineInv' /\ EncoderFollowsAudience' /\ FreshInv' /\ PrimedInv'
    BY <1>3 DEF IInv, Finish, StartLocked, GoroutineInv,
                EncoderFollowsAudience, FreshInv, PrimedInv, OpenIsPrimed,
                audienceVars
  <2> QED BY <2>1, <2>2 DEF IInv
<1> QED BY <1>2, <1>3

(* Removing a track cancels the encoder it leaves alone.                   *)
LEMMA UnsubscribeInv ==
  ASSUME IInv, NEW t \in Tracks, Unsubscribe(t)
  PROVE  IInv'
  BY DEF IInv, Unsubscribe, Remove, CancelIfIdle, TypeOK, GoroutineInv,
         EncoderFollowsAudience, FreshInv, PrimedInv, OpenIsPrimed,
         frameVars, retryVars

(* The steps of the encoder goroutine before and between frames.           *)
LEMMA EncoderStepInv ==
  ASSUME IInv,
         \/ DelayElapses \/ LaunchSucceeds \/ HeaderRead \/ StreamEnds
         \/ Restart
  PROVE  IInv'
<1> USE DEF IInv, TypeOK, GoroutineInv, EncoderFollowsAudience, FreshInv,
            PrimedInv, OpenIsPrimed, Phases, audienceVars, frameVars,
            retryVars
<1>1. CASE DelayElapses   BY <1>1 DEF DelayElapses
<1>2. CASE LaunchSucceeds BY <1>2 DEF LaunchSucceeds
<1>3. CASE HeaderRead     BY <1>3 DEF HeaderRead
<1>4. CASE StreamEnds     BY <1>4 DEF StreamEnds
<1>5. CASE Restart        BY <1>5 DEF Restart
<1> QED BY <1>1, <1>2, <1>3, <1>4, <1>5

(* A frame finds every open gate primed, and a key frame primes.           *)
LEMMA FrameInv ==
  ASSUME IInv,
         \/ \E f \in Frames : NextFrame(f)
         \/ Fanout
  PROVE  IInv'
<1> USE DEF IInv, TypeOK, GoroutineInv, EncoderFollowsAudience, FreshInv,
            PrimedInv, OpenIsPrimed, Phases, Frames, audienceVars, frameVars,
            retryVars
<1>1. ASSUME NEW f \in Frames, NextFrame(f) PROVE IInv'
  <2>1. TypeOK'
    BY <1>1, NoRetry DEF NextFrame, RetriesAfterFrame
  <2>2. CASE fresh
    BY <1>1, <2>1, <2>2 DEF NextFrame, RetriesAfterFrame
  <2>3. CASE ~fresh
    BY <1>1, <2>1, <2>3 DEF NextFrame, RetriesAfterFrame
  <2> QED BY <2>2, <2>3
<1>2. ASSUME NEW t \in Tracks, Skip(t) PROVE IInv'
  BY <1>2 DEF Skip, Passes
<1>3. ASSUME NEW t \in Tracks, WriteSucceeds(t) PROVE IInv'
  BY <1>3 DEF WriteSucceeds, Write, Passes
<1>4. ASSUME NEW t \in Tracks, WriteFails(t) PROVE IInv'
  BY <1>4 DEF WriteFails, Write, Passes, Remove, CancelIfIdle
<1>5. CASE FanoutDone
  BY <1>5 DEF FanoutDone
<1> QED BY <1>1, <1>2, <1>3, <1>4, <1>5 DEF Fanout

(* IInv holds initially and every step keeps it.                           *)
LEMMA InitIInv == Init => IInv
<1>1. Init => TypeOK
  BY NoRetry DEF Init, TypeOK, Frames, Phases
<1>2. Init => GoroutineInv /\ EncoderFollowsAudience /\ FreshInv /\ PrimedInv
  BY DEF Init, GoroutineInv, EncoderFollowsAudience, FreshInv, PrimedInv,
         OpenIsPrimed
<1> QED BY <1>1, <1>2 DEF IInv

LEMMA NextIInv == IInv /\ [Next]_vars => IInv'
<1> SUFFICES ASSUME IInv, [Next]_vars PROVE IInv'
  OBVIOUS
<1>1. ASSUME NEW t \in Tracks, Subscribe(t) \/ Unsubscribe(t) PROVE IInv'
  BY <1>1, SubscribeInv, UnsubscribeInv
<1>2. CASE DelayCancelled
  BY <1>2, FinishInv DEF DelayCancelled
<1>3. CASE LaunchFails
  BY <1>3, FinishInv DEF LaunchFails
<1>4. CASE Exited
  BY <1>4, FinishInv DEF Exited, IInv, TypeOK
<1>5. CASE \/ DelayElapses \/ LaunchSucceeds \/ HeaderRead \/ StreamEnds
           \/ Restart
  BY <1>5, EncoderStepInv
<1>6. CASE (\E f \in Frames : NextFrame(f)) \/ Fanout
  BY <1>6, FrameInv
<1>7. CASE UNCHANGED vars
  BY <1>7 DEF vars, IInv, TypeOK, GoroutineInv, EncoderFollowsAudience,
              FreshInv, PrimedInv, OpenIsPrimed
<1> QED BY <1>1, <1>2, <1>3, <1>4, <1>5, <1>6, <1>7 DEF Next

(* The inductive invariant of the pipeline.                                *)
THEOREM Invariance == Spec => []IInv
  BY InitIInv, NextIInv, PTL DEF Spec

(* The variables keep their types.                                         *)
THEOREM TypeCorrect == Spec => []TypeOK
<1>1. IInv => TypeOK
  BY DEF IInv
<1> QED BY <1>1, Invariance, PTL

(* subscribe, remove and finish together keep an encoder running exactly   *)
(* while somebody is subscribed.                                           *)
THEOREM FollowsAudience == Spec => []EncoderFollowsAudience
<1>1. IInv => EncoderFollowsAudience
  BY DEF IInv
<1> QED BY <1>1, Invariance, PTL

(* The gate of run and the restarts of finish never show a decoder an      *)
(* inter frame whose reference it has not seen.                            *)
THEOREM Decodable == Spec => []NoUndecodableFrame
<1>1. IInv => NoUndecodableFrame
  BY DEF IInv, PrimedInv, OpenIsPrimed, NoUndecodableFrame
<1> QED BY <1>1, Invariance, PTL

-----------------------------------------------------------------------------
(* finish is the only place the back-off grows, and a failure follows a    *)
(* failure only through it.                                                *)
LEMMA FinishBackoff ==
  ASSUME TypeOK, BackoffInv, NEW fail \in BOOLEAN, Finish(fail)
  PROVE  /\ BackoffInv'
         /\ (phase' = "delay" /\ retries > 0) =>
              delay' = IF 2 * delay > 10 THEN 10 ELSE 2 * delay
<1>1. CASE tracks = {}
  BY <1>1 DEF Finish, BackoffInv, retryVars
<1>2. CASE tracks # {} /\ ~fail
  BY <1>2 DEF Finish, StartLocked, FinishDelay, BackoffInv
<1>3. CASE tracks # {} /\ fail
  <2>1. retries \in {0, 1, 2, 3, 4}
    BY DEF TypeOK, RetrySaturation
  <2>2. /\ delay' = RetryDelay(retries)
        /\ retries' = NextRetries
    BY <1>3, <2>1 DEF Finish, StartLocked, FinishDelay, RetryDelay
  <2> QED
    BY <2>1, <2>2 DEF RetryDelay, NextRetries, RetrySaturation, BackoffInv
<1> QED BY <1>1, <1>2, <1>3

LEMMA NextBackoff ==
  ASSUME TypeOK, BackoffInv, [Next]_vars
  PROVE  /\ BackoffInv'
         /\ (phase' = "delay" /\ phase # "delay" /\ retries > 0) =>
              delay' = IF 2 * delay > 10 THEN 10 ELSE 2 * delay
<1> DEFINE Goal ==
      /\ BackoffInv'
      /\ (phase' = "delay" /\ phase # "delay" /\ retries > 0) =>
           delay' = IF 2 * delay > 10 THEN 10 ELSE 2 * delay
<1>1. ASSUME NEW t \in Tracks, Subscribe(t) PROVE Goal
  BY <1>1 DEF Subscribe, StartLocked, BackoffInv
<1>2. CASE DelayCancelled
  BY <1>2, FinishBackoff DEF DelayCancelled
<1>3. CASE LaunchFails
  BY <1>3, FinishBackoff DEF LaunchFails
<1>4. CASE Exited
  BY <1>4, FinishBackoff DEF Exited, TypeOK
<1>5. ASSUME NEW f \in Frames, NextFrame(f) PROVE Goal
  BY <1>5 DEF NextFrame, RetriesAfterFrame, BackoffInv
<1>6. CASE Fanout
  BY <1>6 DEF Fanout, Skip, Write, WriteSucceeds, WriteFails, FanoutDone,
              BackoffInv, retryVars
<1>7. ASSUME NEW t \in Tracks, Unsubscribe(t) PROVE Goal
  BY <1>7 DEF Unsubscribe, retryVars, BackoffInv
<1>8. CASE \/ DelayElapses \/ LaunchSucceeds \/ HeaderRead \/ StreamEnds
           \/ Restart \/ UNCHANGED vars
  BY <1>8 DEF DelayElapses, LaunchSucceeds, HeaderRead, StreamEnds, Restart,
              vars, retryVars, BackoffInv
<1> QED BY <1>1, <1>2, <1>3, <1>4, <1>5, <1>6, <1>7, <1>8 DEF Next

(* However failures, profile changes and departures interleave, the wait   *)
(* of a pipeline that keeps failing doubles up to a second.                *)
THEOREM Backoff == Spec => BackoffDoubles
<1>1. Init => BackoffInv
  BY DEF Init, BackoffInv
<1>2. TypeOK /\ BackoffInv /\ [Next]_vars => BackoffInv'
  BY NextBackoff
<1>3. TypeOK /\ BackoffInv /\ [Next]_vars =>
        [(phase' = "delay" /\ phase # "delay" /\ retries > 0) =>
            delay' = IF 2 * delay > 10 THEN 10 ELSE 2 * delay]_vars
  BY NextBackoff
<1> QED BY <1>1, <1>2, <1>3, TypeCorrect, PTL DEF Spec, BackoffDoubles

(* An encoder that has delivered leaves no failure on record.              *)
Delivering == ~fresh => retries = 0

LEMMA FinishStartsOver ==
  ASSUME Delivering, FreshInv, NEW fail \in BOOLEAN, Finish(fail)
  PROVE  Delivering' /\ ((phase' = "delay" /\ ~fresh) => delay' = RetryDelay(0))
BY DEF Finish, StartLocked, FinishDelay, RetryDelay, Delivering, retryVars

LEMMA NextStartsOver ==
  ASSUME TypeOK, Delivering, FreshInv, [Next]_vars
  PROVE  Delivering' /\ ((phase' = "delay" /\ ~fresh) => delay' = RetryDelay(0))
<1> DEFINE Goal == Delivering' /\ ((phase' = "delay" /\ ~fresh) => delay' = RetryDelay(0))
<1>1. ASSUME NEW t \in Tracks, Subscribe(t) PROVE Goal
  BY <1>1 DEF Subscribe, StartLocked, Delivering, FreshInv
<1>2. CASE DelayCancelled \/ LaunchFails \/ Exited
  BY <1>2, FinishStartsOver DEF DelayCancelled, LaunchFails, Exited, TypeOK
<1>3. ASSUME NEW f \in Frames, NextFrame(f) PROVE Goal
  BY <1>3 DEF NextFrame, RetriesAfterFrame, Delivering
<1>4. CASE Fanout
  BY <1>4 DEF Fanout, Skip, Write, WriteSucceeds, WriteFails, FanoutDone,
              Delivering, frameVars, retryVars
<1>5. ASSUME NEW t \in Tracks, Unsubscribe(t) PROVE Goal
  BY <1>5 DEF Unsubscribe, Delivering, FreshInv, frameVars, retryVars
<1>6. CASE \/ DelayElapses \/ LaunchSucceeds \/ HeaderRead \/ StreamEnds
           \/ Restart \/ UNCHANGED vars
  BY <1>6 DEF DelayElapses, LaunchSucceeds, HeaderRead, StreamEnds, Restart,
              Delivering, FreshInv, vars, frameVars, retryVars
<1> QED BY <1>1, <1>2, <1>3, <1>4, <1>5, <1>6 DEF Next

(* Once an encoder has delivered a frame, the back-off of its predecessors *)
(* is over for good, for every set of tracks.                              *)
THEOREM BackoffEnds == Spec => BackoffStartsOver
<1>1. Init => Delivering
  BY DEF Init, Delivering
<1>2. IInv => TypeOK /\ FreshInv
  BY DEF IInv
<1>3. TypeOK /\ FreshInv /\ Delivering /\ [Next]_vars => Delivering'
  BY NextStartsOver
<1>4. TypeOK /\ FreshInv /\ Delivering /\ [Next]_vars =>
        [(phase' = "delay" /\ ~fresh) => delay' = RetryDelay(0)]_vars
  BY NextStartsOver
<1> QED BY <1>1, <1>2, <1>3, <1>4, Invariance, PTL DEF Spec, BackoffStartsOver

-----------------------------------------------------------------------------
(* Every step of the pipeline is a step of the contract, or invisible.     *)
LEMMA StepSimulation ==
  ASSUME IInv, [Next]_vars
  PROVE  [Demand!Next]_(Demand!vars)
<1> USE DEF Demand!vars, Supply, IInv, GoroutineInv, EncoderFollowsAudience
<1>1. ASSUME NEW t \in Tracks, Subscribe(t) PROVE [Demand!Next]_(Demand!vars)
  BY <1>1 DEF Subscribe, StartLocked, Demand!Next, Demand!Join, TypeOK
<1>2. ASSUME NEW t \in Tracks, Unsubscribe(t)
      PROVE [Demand!Next]_(Demand!vars)
  BY <1>2 DEF Unsubscribe, Remove, CancelIfIdle, Demand!Next, Demand!Leave,
              TypeOK
<1>3. ASSUME NEW fail \in BOOLEAN, Finish(fail), UNCHANGED tracks,
             phase # "none", cancelled
      PROVE [Demand!Next]_(Demand!vars)
  BY <1>3 DEF Finish, StartLocked, Demand!Next, Demand!Recycle
<1>4. ASSUME NEW fail \in BOOLEAN, Finish(fail), UNCHANGED tracks,
             phase # "none", ~cancelled
      PROVE [Demand!Next]_(Demand!vars)
  BY <1>4 DEF Finish, StartLocked
<1>5. CASE DelayCancelled \/ LaunchFails \/ Exited
  BY <1>3, <1>4, <1>5 DEF DelayCancelled, LaunchFails, Exited, TypeOK,
                          audienceVars
<1>6. CASE Restart
  BY <1>6 DEF Restart, audienceVars, Demand!Next, Demand!Interrupt
<1>7. ASSUME NEW t \in Tracks, WriteFails(t)
      PROVE [Demand!Next]_(Demand!vars)
  BY <1>7 DEF WriteFails, Remove, CancelIfIdle, Demand!Next, Demand!Leave,
              TypeOK
<1>8. ASSUME NEW t \in Tracks, Skip(t) \/ WriteSucceeds(t)
      PROVE [Demand!Next]_(Demand!vars)
  BY <1>8 DEF Skip, WriteSucceeds, audienceVars
<1>9. CASE \/ DelayElapses \/ LaunchSucceeds \/ HeaderRead \/ StreamEnds
           \/ (\E f \in Frames : NextFrame(f)) \/ FanoutDone
           \/ UNCHANGED vars
  BY <1>9 DEF DelayElapses, LaunchSucceeds, HeaderRead, StreamEnds,
              NextFrame, RetriesAfterFrame, FanoutDone, vars, audienceVars
<1> QED BY <1>1, <1>2, <1>5, <1>6, <1>7, <1>8, <1>9 DEF Next, Fanout

(* The pipeline implements the safety part of EncoderDemand; that a        *)
(* stopped encoder gives way in the end is left to the model checker.      *)
THEOREM Refinement == Spec => Demand!SafeSpec
<1>1. Init => Demand!Init
  BY DEF Init, Demand!Init, Supply
<1>2. IInv /\ [Next]_vars => [Demand!Next]_(Demand!vars)
  BY StepSimulation
<1> QED BY <1>1, <1>2, Invariance, PTL DEF Spec, Demand!SafeSpec
==============================================================================
