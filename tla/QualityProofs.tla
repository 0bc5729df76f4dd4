------------------------------ MODULE QualityProofs ------------------------------
(***************************************************************************)
(* Theorems about Quality and the registry it is built on, for every       *)
(* number of viewers, encoders, pipelines, keys, operators and pollers:    *)
(* the budgets of every profile, and what the two levels of locks protect. *)
(*                                                                         *)
(* RegistryInv is the inductive invariant of the registry.  It rests on    *)
(* ServeInv: a running pipeline has exactly one thread that is starting    *)
(* its encoder or is its encoder, which is what makes the re-start of a    *)
(* pipeline whose encoder is dying safe.  Every action has a lemma: it     *)
(* keeps RegistryInv.                                                      *)
(*                                                                         *)
(* Two more arguments stand on it.  TotalInv counts the starts of encoders *)
(* as elements of a set, which makes the sum a poller reports a            *)
(* cardinality.  HolderInv is about who waits for whom: the threads that   *)
(* hold a lock over a call can go on unless the two kinds of locks have    *)
(* been taken in opposite orders (Crossed), which only a source function   *)
(* that takes the registry's lock makes possible.                          *)
(***************************************************************************)
EXTENDS Quality, FiniteSetTheorems, TLAPS

(* The lower of two numbers.                                               *)
LEMMA LowerType ==
  ASSUME NEW a \in Nat \ {0}, NEW b \in Nat \ {0}
  PROVE  Lower(a, b) \in Nat \ {0} /\ Lower(a, b) <= a /\ Lower(a, b) <= b
  BY DEF Lower

(* A rate that is not understood falls back, any other is positive.        *)
LEMMA RateType ==
  ASSUME NEW rate \in Rates, NEW fallback \in Nat
  PROVE  /\ KbpsFromRate(rate, fallback) \in Nat
         /\ fallback > 0 => KbpsFromRate(rate, fallback) > 0
<1>1. rate.number \in Int /\ rate.unit \in {"k", "M", "bit"}
  BY DEF Rates, Units
<1>2. CASE rate.number <= 0
  BY <1>1, <1>2 DEF KbpsFromRate
<1>3. CASE rate.number > 0 /\ rate.unit = "k"
  BY <1>1, <1>3 DEF KbpsFromRate
<1>4. CASE rate.number > 0 /\ rate.unit = "M"
  BY <1>1, <1>4 DEF KbpsFromRate
<1>5. CASE rate.number > 0 /\ rate.unit = "bit"
  <2>1. KbpsFromRate(rate, fallback)
          = IF rate.number < 1000 THEN 1 ELSE rate.number \div 1000
    BY <1>1, <1>5 DEF KbpsFromRate
  <2>2. rate.number >= 1000 => rate.number \div 1000 \in Nat \ {0}
    BY <1>1
  <2> QED BY <1>1, <2>1, <2>2
<1> QED BY <1>1, <1>2, <1>3, <1>4, <1>5

(* A ceiling only ever lowers, and nothing passes it.                      *)
LEMMA CeilingBounds ==
  ASSUME NEW kbps \in Nat, NEW rate \in Rates
  PROVE  /\ Ceiling(kbps, rate) \in Nat
         /\ Ceiling(kbps, rate) <= kbps
         /\ WithinCeiling(Ceiling(kbps, rate), rate)
<1>1. KbpsFromRate(rate, 0) \in Nat
  BY RateType
<1> QED BY <1>1 DEF Ceiling, WithinCeiling

(* What is captured has a size and a frame rate.                           *)
LEMMA CaptureType ==
  ASSUME NEW c \in Configs
  PROVE  VideoOutput(c) \in [width : Nat \ {0}, height : Nat \ {0}, fps : Nat \ {0}]
<1>1. /\ c.Width \in Nat \ {0} /\ c.Height \in Nat \ {0} /\ c.FPS \in Nat \ {0}
      /\ c.Profile \in VideoProfiles
  BY DEF Configs
<1>2. Dimensions(c.Profile) \in [width : Nat \ {0}, height : Nat \ {0}, fps : Nat \ {0}]
  BY <1>1 DEF Dimensions, VideoProfiles
<1> QED BY <1>1, <1>2, LowerType DEF VideoOutput

(* What a delivery may need at most, before the ceilings.                  *)
LEMMA BudgetShape ==
  ASSUME NEW c \in Configs, NEW delivery \in StreamProfiles
  PROVE  LET b == Budget(c, delivery) IN
         /\ b = [height |-> b.height, fps |-> b.fps, gopSeconds |-> b.gopSeconds,
                 videoKbps |-> b.videoKbps, audioKbps |-> b.audioKbps,
                 audioFrameMillis |-> b.audioFrameMillis, codec |-> b.codec]
         /\ b.height \in Nat /\ b.fps \in Nat \ {0} /\ b.gopSeconds \in Nat \ {0}
         /\ b.videoKbps \in Nat /\ b.audioKbps \in Nat
         /\ b.videoKbps <= LadderKbps(c.Profile)
         /\ delivery = "saver360" =>
              b.videoKbps = 70 /\ b.audioKbps = 16 /\ b.audioFrameMillis = 60
<1>1. c.Profile \in VideoProfiles /\ c.AudioBitrate \in Rates
  BY DEF Configs
<1>2. LadderKbps(c.Profile) \in Nat /\ LadderKbps(c.Profile) >= 1800
  BY <1>1 DEF LadderKbps, VideoProfiles
<1>3. VideoOutput(c).fps \in Nat \ {0}
  BY CaptureType
<1>4. ASSUME NEW n \in Nat \ {0} PROVE Lower(VideoOutput(c).fps, n) \in Nat \ {0}
  BY <1>3, LowerType
<1>5. KbpsFromRate(c.AudioBitrate, 32) \in Nat
  BY <1>1, RateType
<1>6. CASE delivery = "saver360"
  <2>1. Lower(VideoOutput(c).fps, 15) \in Nat \ {0}
    BY <1>4
  <2> QED BY <1>2, <1>6, <2>1 DEF Budget
<1>7. CASE delivery = "saver480"
  <2>1. Lower(VideoOutput(c).fps, 20) \in Nat \ {0}
    BY <1>4
  <2> QED BY <1>2, <1>7, <2>1 DEF Budget
<1>8. CASE delivery = "full"
  <2> DEFINE video == LadderKbps(c.Profile)
             audio == KbpsFromRate(c.AudioBitrate, 32)
             fps == VideoOutput(c).fps
  <2>1. Budget(c, delivery)
          = [height |-> 0, fps |-> fps, gopSeconds |-> 2, videoKbps |-> video,
             audioKbps |-> audio, audioFrameMillis |-> 20, codec |-> "vp8"]
    BY <1>8 DEF Budget
  <2>2. video \in Nat /\ audio \in Nat /\ fps \in Nat \ {0}
    BY <1>2, <1>3, <1>5
  <2>3. LadderKbps(c.Profile) = video
    OBVIOUS
  <2> HIDE DEF video, audio, fps
  <2> QED BY <1>8, <2>1, <2>2, <2>3
<1> QED BY <1>6, <1>7, <1>8 DEF StreamProfiles

(* The spec that is advertised, with the ceilings; the one that is served  *)
(* has the same numbers.                                                   *)
LEMMA SpecShape ==
  ASSUME NEW c \in Configs, NEW delivery \in StreamProfiles, NEW codec
  PROVE  LET b == Budget(c, delivery)
             advertised == StreamSpecFor(c, delivery)
             served == StreamSpecWithCodec(c, delivery, codec)
         IN /\ served.height = b.height /\ served.fps = b.fps
            /\ served.gopSeconds = b.gopSeconds
            /\ served.videoKbps = Ceiling(b.videoKbps, c.Bitrate)
            /\ served.audioKbps = Ceiling(b.audioKbps, c.AudioBitrate)
            /\ served.audioFrameMillis = b.audioFrameMillis
            /\ served.videoKbps = advertised.videoKbps
            /\ served.audioKbps = advertised.audioKbps
            /\ served.audioFrameMillis = advertised.audioFrameMillis
<1> DEFINE b == Budget(c, delivery)
<1>1. b = [height |-> b.height, fps |-> b.fps, gopSeconds |-> b.gopSeconds,
           videoKbps |-> b.videoKbps, audioKbps |-> b.audioKbps,
           audioFrameMillis |-> b.audioFrameMillis, codec |-> b.codec]
  BY BudgetShape
<1> QED BY <1>1 DEF StreamSpecWithCodec, StreamSpecFor

(* saver360 stays below 100 kbps: 70 of video and 16 of audio in frames of *)
(* 60 ms leave 14 for the headers.                                         *)
LEMMA Saver360Total ==
  ASSUME NEW s, s.videoKbps \in 0..70, s.audioKbps \in 0..16,
         s.audioFrameMillis = 60
  PROVE  TotalKbps(s) <= 100
<1>1. CASE s.audioKbps > 0
  <2>1. HeaderKbps(s) = (19200 + 120 * s.videoKbps + 1800) \div 3600
    BY <1>1 DEF HeaderKbps
  <2>2. (19200 + 120 * s.videoKbps + 1800) \div 3600 <= 8
    OBVIOUS
  <2>3. (19200 + 120 * s.videoKbps + 1800) \div 3600 \in Int
    OBVIOUS
  <2> QED BY <2>1, <2>2, <2>3 DEF TotalKbps
<1>2. CASE ~(s.audioKbps > 0)
  <2>1. HeaderKbps(s) = (s.videoKbps + 15) \div 30
    BY <1>2 DEF HeaderKbps
  <2>2. (s.videoKbps + 15) \div 30 <= 2 /\ (s.videoKbps + 15) \div 30 \in Int
    OBVIOUS
  <2> QED BY <2>1, <2>2 DEF TotalKbps
<1> QED BY <1>1, <1>2

(* For every configuration the server can be started with.                 *)
LEMMA BudgetKept ==
  ASSUME NEW c \in Configs, NEW delivery \in StreamProfiles,
         NEW offersVP9 \in BOOLEAN
  PROVE  WithinBudget(c, delivery, offersVP9)
<1> DEFINE b == Budget(c, delivery)
           advertised == StreamSpecFor(c, delivery)
           served == StreamSpecWithCodec(c, delivery, ServedCodec(c, delivery, offersVP9))
<1>1. /\ b.height \in Nat /\ b.fps \in Nat \ {0} /\ b.gopSeconds \in Nat \ {0}
      /\ b.videoKbps \in Nat /\ b.audioKbps \in Nat
      /\ b.videoKbps <= LadderKbps(c.Profile)
      /\ delivery = "saver360" =>
           b.videoKbps = 70 /\ b.audioKbps = 16 /\ b.audioFrameMillis = 60
  BY BudgetShape
<1>2. /\ served.height = b.height /\ served.fps = b.fps
      /\ served.gopSeconds = b.gopSeconds
      /\ served.videoKbps = Ceiling(b.videoKbps, c.Bitrate)
      /\ served.audioKbps = Ceiling(b.audioKbps, c.AudioBitrate)
      /\ served.audioFrameMillis = b.audioFrameMillis
      /\ served.videoKbps = advertised.videoKbps
      /\ served.audioKbps = advertised.audioKbps
      /\ served.audioFrameMillis = advertised.audioFrameMillis
  BY SpecShape
<1>3. c.Bitrate \in Rates /\ c.AudioBitrate \in Rates /\ c.Profile \in VideoProfiles
  BY DEF Configs
<1>4. /\ served.videoKbps \in Nat /\ served.videoKbps <= b.videoKbps
      /\ WithinCeiling(served.videoKbps, c.Bitrate)
  BY <1>1, <1>2, <1>3, CeilingBounds
<1>5. /\ served.audioKbps \in Nat /\ served.audioKbps <= b.audioKbps
      /\ WithinCeiling(served.audioKbps, c.AudioBitrate)
  BY <1>1, <1>2, <1>3, CeilingBounds
<1> HIDE DEF b, advertised, served
<1>6. LadderKbps(c.Profile) \in Nat
  BY <1>3 DEF LadderKbps, VideoProfiles
<1>7. TotalKbps(served) = TotalKbps(advertised)
  BY <1>2 DEF TotalKbps, HeaderKbps
<1>8. delivery = "saver360" => TotalKbps(served) <= 100
  BY <1>1, <1>2, <1>4, <1>5, Saver360Total
<1>9. served.videoKbps <= LadderKbps(c.Profile)
  BY <1>1, <1>4, <1>6
<1>10. OutputHeight(c, served) <= VideoOutput(c).height
  BY <1>1, <1>2, CaptureType DEF OutputHeight
<1>11. GOPFrames(served) >= 1
  <2>1. b.gopSeconds * b.fps \in Int
    BY <1>1
  <2> QED BY <1>2, <2>1 DEF GOPFrames
<1> QED BY <1>4, <1>5, <1>7, <1>8, <1>9, <1>10, <1>11
        DEF WithinBudget, advertised, served

(* The budgets of one capture profile, whatever the ceilings.              *)
LEMMA BudgetsOfProfiles ==
  ASSUME NEW f \in Profiles
  PROVE  BudgetsOf[f]
<1>1. ASSUME NEW video \in Ceilings, NEW audio \in Ceilings
      PROVE  Limited(f, video, audio) \in Configs
  BY QualityAssumption DEF Limited, Capturing, Configs
<1>2. \A video, audio \in Ceilings, delivery \in StreamProfiles, offersVP9 \in BOOLEAN :
        WithinBudget(Limited(f, video, audio), delivery, offersVP9)
  BY <1>1, BudgetKept
<1> QED BY <1>2 DEF BudgetsOf
-----------------------------------------------------------------------------
(* The registry.  A worker is a thread that takes both kinds of locks.     *)
Workers == Viewers \cup Encoders

Allocated == {p \in Pipes : keyOf[p] # None}
Arrived == {v \in Viewers : pc[v] # "new"}

Busy == {e \in Encoders : pc[e] # "free"}
Through == {v \in Viewers : pc[v] \notin {"new", "attach", "source"}}

(* Neither pool runs dry: a viewer accounts for one pipeline and for one   *)
(* encoder at most.                                                        *)
PoolInv ==
  /\ Cardinality(Allocated) <= Cardinality(Arrived)
  /\ Cardinality(Busy) <= Cardinality(Through)

(* A worker has been given an allocated pipeline, and the registry has the *)
(* pipelines of its keys.                                                  *)
AllocInv ==
  /\ \A k \in Keys : registry[k] # None => keyOf[registry[k]] = k
  /\ \A p \in Pipes : keyOf[p] = None => supply[p] = "off"
  /\ \A th \in Workers : pc[th] \notin {"new", "free"} =>
       at[th] \in Pipes /\ keyOf[at[th]] # None

(* Who holds a lock over a call.                                           *)
LockInv ==
  /\ \A th \in Workers :
       /\ pc[th] \in {"source", "sourceDelayed"} => pmu[at[th]] = th
       /\ pc[th] \in {"inspect", "retire"} =>
            bmu = th /\ registry[keyOf[at[th]]] # None
  /\ \A q \in Pollers : pc[q] = "poll" => bmu = q

(* The one worker a running pipeline depends on: it starts the encoder or  *)
(* is the encoder.                                                         *)
Serves(th, p) ==
  /\ at[th] = p
  /\ \/ pc[th] \in {"source", "sourceDelayed"}
     \/ th \in Encoders /\ Encoding(th)

ServeInv ==
  \A p \in Pipes, th \in Workers : Serves(th, p) =>
    /\ supply[p] # "off"
    /\ \A other \in Workers : Serves(other, p) => other = th

RegistryInv ==
  /\ TypeOK
  /\ PoolInv
  /\ AllocInv
  /\ LockInv
  /\ ServeInv
  /\ IdleIsReleased
  /\ RegisteredFollowsProfile

(* What is known of the sets of threads, pipelines and keys.               *)
LEMMA Apart ==
  /\ None \notin Pipes /\ None \notin Keys /\ None \notin Profiles
  /\ None \notin Workers /\ None \notin Operators /\ None \notin Pollers
  /\ \A v \in Viewers : v \notin Encoders
  /\ \A o \in Operators \cup Pollers : o \notin Workers
  /\ \A o \in Operators : o \notin Pollers
  /\ Workers \subseteq Threads
  BY BroadcasterAssumption DEF Workers, Threads

-----------------------------------------------------------------------------
(* The pools.                                                              *)
LEMMA PoolLasts ==
  ASSUME NEW pool, NEW used, used \subseteq pool, IsFiniteSet(pool),
         NEW arrived, arrived \subseteq Viewers, arrived # Viewers,
         Cardinality(used) <= Cardinality(arrived),
         Cardinality(pool) >= Cardinality(Viewers)
  PROVE  \E x \in pool : x \notin used
<1>1. IsFiniteSet(Viewers)
  BY BroadcasterAssumption
<1>2. /\ IsFiniteSet(arrived) /\ Cardinality(arrived) <= Cardinality(Viewers)
      /\ Cardinality(arrived) # Cardinality(Viewers)
  BY <1>1, FS_Subset
<1>3. IsFiniteSet(used)
  BY FS_Subset
<1>4. /\ Cardinality(used) \in Nat /\ Cardinality(arrived) \in Nat
      /\ Cardinality(pool) \in Nat /\ Cardinality(Viewers) \in Nat
  BY <1>1, <1>2, <1>3, FS_CardinalityType
<1>5. used # pool
  BY <1>2, <1>4
<1> QED BY <1>5

(* A viewer that looks its key up finds a pipeline to allocate.            *)
LEMMA FreePipe ==
  ASSUME RegistryInv, NEW v \in Viewers, pc[v] = "new"
  PROVE  \E p \in Pipes : keyOf[p] = None
<1>1. Allocated \subseteq Pipes /\ Arrived \subseteq Viewers /\ v \notin Arrived
  BY DEF Allocated, Arrived
<1>2. \E p \in Pipes : p \notin Allocated
  BY <1>1, PoolLasts, BroadcasterAssumption DEF RegistryInv, PoolInv
<1> QED BY <1>2 DEF Allocated

(* A viewer that starts a pipeline finds an encoder to run it.             *)
LEMMA FreeEncoder ==
  ASSUME RegistryInv, NEW v \in Viewers, pc[v] = "source"
  PROVE  \E e \in Encoders : pc[e] = "free"
<1>1. Busy \subseteq Encoders /\ Through \subseteq Viewers /\ v \notin Through
  BY DEF Busy, Through
<1>2. \E e \in Encoders : e \notin Busy
  BY <1>1, PoolLasts, BroadcasterAssumption DEF RegistryInv, PoolInv
<1> QED BY <1>2 DEF Busy

(* Sets of which at most the larger one grows.                             *)
LEMMA CardinalityKept ==
  ASSUME NEW used, NEW arrived, NEW used1, NEW arrived1,
         IsFiniteSet(used), IsFiniteSet(arrived1),
         used1 \subseteq used, arrived \subseteq arrived1,
         Cardinality(used) <= Cardinality(arrived)
  PROVE  Cardinality(used1) <= Cardinality(arrived1)
<1>1. IsFiniteSet(used1) /\ Cardinality(used1) <= Cardinality(used)
  BY FS_Subset
<1>2. IsFiniteSet(arrived) /\ Cardinality(arrived) <= Cardinality(arrived1)
  BY FS_Subset
<1>3. /\ Cardinality(used) \in Nat /\ Cardinality(arrived) \in Nat
      /\ Cardinality(used1) \in Nat /\ Cardinality(arrived1) \in Nat
  BY <1>1, <1>2, FS_CardinalityType
<1> QED BY <1>1, <1>2, <1>3

(* The sets that are counted are finite.                                   *)
LEMMA PoolSets ==
  /\ IsFiniteSet(Allocated) /\ IsFiniteSet(Arrived)
  /\ IsFiniteSet(Busy) /\ IsFiniteSet(Through)
  /\ IsFiniteSet(Arrived') /\ IsFiniteSet(Through')
<1>1. IsFiniteSet(Pipes) /\ IsFiniteSet(Viewers) /\ IsFiniteSet(Encoders)
  BY BroadcasterAssumption
<1>2. /\ Allocated \subseteq Pipes /\ Busy \subseteq Encoders
      /\ Arrived \subseteq Viewers /\ Through \subseteq Viewers
      /\ Arrived' \subseteq Viewers /\ Through' \subseteq Viewers
  BY DEF Allocated, Arrived, Busy, Through
<1> HIDE DEF Allocated, Arrived, Busy, Through
<1> QED BY <1>1, <1>2, FS_Subset

(* No step that allocates nothing runs a pool dry.                         *)
LEMMA PoolKept ==
  ASSUME PoolInv, Allocated' \subseteq Allocated, Arrived \subseteq Arrived',
         Busy' \subseteq Busy, Through \subseteq Through'
  PROVE  PoolInv'
<1>1. Cardinality(Allocated') <= Cardinality(Arrived')
  BY PoolSets, CardinalityKept DEF PoolInv
<1>2. Cardinality(Busy') <= Cardinality(Through')
  BY PoolSets, CardinalityKept DEF PoolInv
<1> QED BY <1>1, <1>2 DEF PoolInv
-----------------------------------------------------------------------------
(* The viewers and encoders, one action after the other.                   *)
Registration == <<profile, registry, keyOf, todo>>

(* Where the profiles of running encoders are not touched.                 *)
LEMMA FollowsKept ==
  ASSUME RegisteredFollowsProfile, UNCHANGED Registration,
         \A p \in Pipes : (supply'[p] = "on" /\ spec'[p] # None) =>
           \/ supply[p] = "on" /\ spec'[p] = spec[p]
           \/ spec'[p] = profile
  PROVE  RegisteredFollowsProfile'
<1>1. Registered' = Registered
  BY DEF Registered, Registration
<1> QED BY <1>1 DEF RegisteredFollowsProfile, Registered, Registration

(* An encoder goes on, and stays an encoder.                               *)
LEMMA EncoderMoves ==
  ASSUME RegistryInv, NEW e \in Encoders,
         NEW label \in {"wait", "start", "run", "failed", "stopped"},
         pc[e] \in {"wait", "start", "run", "failed", "stopped"},
         Goto(e, label), starts' \in [Pipes -> Nat],
         spent' \in [changes : 0..MaxChanges, crashes : 0..MaxCrashes,
                     writes : 0..MaxWriteFailures],
         UNCHANGED <<locks, store, tracks, supply, spec, at, back, todo, polls>>
  PROVE  RegistryInv'
<1> USE DEF RegistryInv
<1>1. /\ pc'[e] = label /\ \A th \in Threads \ {e} : pc'[th] = pc[th]
      /\ pc' \in [Threads -> ViewerLabels \cup EncoderLabels
                               \cup {"idle", "resize", "apply", "restart", "poll"}]
      /\ e \notin Viewers /\ e \in Threads
  BY Apart DEF TypeOK, Goto, Threads, EncoderLabels
<1>2. TypeOK'
  <2>1. \A v \in Viewers : pc'[v] \in ViewerLabels
    BY <1>1 DEF TypeOK, Threads
  <2>2. \A f \in Encoders : pc'[f] \in EncoderLabels
    BY <1>1 DEF TypeOK, Threads, EncoderLabels
  <2> QED BY <1>1, <2>1, <2>2 DEF TypeOK, locks, store, polls
<1>3. PoolInv'
  BY <1>1, PoolKept DEF Allocated, Arrived, Busy, Through, store, Threads
<1>4. AllocInv'
  BY <1>1 DEF AllocInv, Workers, Threads, store
<1>5. LockInv'
  BY <1>1, Apart DEF LockInv, Workers, Threads, locks, store
<1>6. ServeInv'
  <2>1. \A th \in Workers, p \in Pipes : Serves(th, p)' => Serves(th, p)
    BY <1>1 DEF Serves, Encoding, Workers, Threads
  <2> QED BY <2>1 DEF ServeInv
<1>7. IdleIsReleased'
  <2>1. Registered' = Registered /\ \A p \in Pipes : Idle(p)' = Idle(p)
    BY DEF Registered, Idle, store
  <2> QED BY <1>1, <2>1 DEF IdleIsReleased, Registered, Threads, store
<1>8. RegisteredFollowsProfile'
  BY FollowsKept DEF Registration, store
<1> QED BY <1>2, <1>3, <1>4, <1>5, <1>6, <1>7, <1>8

(* A worker goes to one of its places.                                     *)
PlacesOK ==
  /\ pc \in [Threads -> ViewerLabels \cup EncoderLabels
                          \cup {"idle", "resize", "apply", "restart", "poll"}]
  /\ \A v \in Viewers : pc[v] \in ViewerLabels
  /\ \A e \in Encoders : pc[e] \in EncoderLabels

LEMMA WorkerGoes ==
  ASSUME TypeOK, NEW th \in Workers, NEW label, Goto(th, label),
         th \in Viewers => label \in ViewerLabels,
         th \in Encoders => label \in EncoderLabels
  PROVE  /\ pc'[th] = label /\ th \in Threads
         /\ \A other \in Threads : other # th => pc'[other] = pc[other]
         /\ \A other \in Workers : other # th => pc'[other] = pc[other]
         /\ PlacesOK'
<1>1. /\ pc'[th] = label /\ th \in Threads
      /\ \A other \in Threads : other # th => pc'[other] = pc[other]
      /\ \A other \in Workers : other # th => pc'[other] = pc[other]
  BY DEF TypeOK, Goto, Workers, Threads
<1>2. label \in ViewerLabels \cup EncoderLabels
  BY DEF Workers
<1>3. pc' \in [Threads -> ViewerLabels \cup EncoderLabels
                            \cup {"idle", "resize", "apply", "restart", "poll"}]
  BY <1>2 DEF TypeOK, Goto
<1>4. \A v \in Viewers : pc'[v] \in ViewerLabels
  BY <1>1 DEF TypeOK, Threads
<1>5. \A e \in Encoders : pc'[e] \in EncoderLabels
  BY <1>1 DEF TypeOK, Threads
<1> QED BY <1>1, <1>3, <1>4, <1>5 DEF PlacesOK

(* With b.mu free nobody is inside release.                                *)
LEMMA NobodyInside ==
  ASSUME RegistryInv, NEW holder, holder \notin Workers, bmu = holder
  PROVE  \A th \in Workers : pc[th] \notin {"inspect", "retire"}
  BY DEF RegistryInv, LockInv

(* A registered pipeline is registered under the key it was allocated for. *)
LEMMA RegistryOfKey ==
  ASSUME RegistryInv, NEW p \in Registered
  PROVE  /\ p \in Pipes /\ keyOf[p] \in Keys /\ registry[keyOf[p]] = p
         /\ keyOf[p] # None
<1>1. PICK k \in Keys : registry[k] = p /\ p \in Pipes
  BY DEF Registered
<1>2. keyOf[p] = k
  BY <1>1, Apart DEF RegistryInv, AllocInv
<1> QED BY <1>1, <1>2, Apart

(* Subscribe registers what it allocates under the key it was asked for.   *)
LEMMA LookupStep ==
  ASSUME RegistryInv, NEW v \in Viewers, NEW k \in Keys, Lookup(v, k)
  PROVE  RegistryInv'
<1> USE DEF RegistryInv
<1> DEFINE known == registry[k] # None
           p == IF known THEN registry[k] ELSE CHOOSE q \in Pipes : keyOf[q] = None
<1>1. /\ pc[v] = "new" /\ bmu = None /\ Goto(v, "attach")
      /\ at' = [at EXCEPT ![v] = p] /\ registry' = [registry EXCEPT ![k] = p]
      /\ keyOf' = [keyOf EXCEPT ![p] = k]
      /\ UNCHANGED <<locks, profile, retired, pipes, back, todo, polls, spent>>
  BY DEF Lookup
<1>2. /\ p \in Pipes
      /\ known => keyOf[p] = k
      /\ ~known => keyOf[p] = None /\ supply[p] = "off"
  <2>1. CASE known
    BY <2>1, Apart DEF TypeOK, AllocInv
  <2>2. CASE ~known
    BY <1>1, <2>2, FreePipe DEF AllocInv
  <2> QED BY <2>1, <2>2
<1>3. v \in Workers /\ v \notin Encoders /\ v \in Threads
  BY Apart DEF Workers
<1>4. /\ pc'[v] = "attach" /\ PlacesOK'
      /\ \A other \in Threads : other # v => pc'[other] = pc[other]
      /\ \A other \in Workers : other # v => pc'[other] = pc[other]
  BY <1>1, <1>3, WorkerGoes DEF ViewerLabels
<1> HIDE DEF known, p
<1>5. /\ at'[v] = p /\ \A other \in Workers : other # v => at'[other] = at[other]
      /\ registry'[k] = p /\ \A j \in Keys : j # k => registry'[j] = registry[j]
      /\ keyOf'[p] = k /\ \A q \in Pipes : q # p => keyOf'[q] = keyOf[q]
  BY <1>1, <1>2, <1>3, Apart DEF TypeOK
<1>6. TypeOK'
  BY <1>1, <1>2, <1>4 DEF TypeOK, PlacesOK, locks, pipes, polls
<1>7. PoolInv'
  <2>1. Busy' = Busy /\ Through' = Through
    BY <1>1, <1>3, <1>4 DEF Busy, Through, Workers
  <2>2. Arrived' = Arrived \cup {v} /\ v \notin Arrived
    BY <1>1, <1>4, <1>3 DEF Arrived, Workers
  <2>3. CASE known
    <3>1. Allocated' \subseteq Allocated
      BY <1>2, <1>5, <2>3, Apart DEF Allocated
    <3> QED BY <2>1, <2>2, <3>1, PoolKept
  <2>4. CASE ~known
    <3>1. Allocated' = Allocated \cup {p} /\ p \notin Allocated
      BY <1>2, <1>5, <2>4, Apart DEF Allocated
    <3>2. /\ Cardinality(Allocated') = Cardinality(Allocated) + 1
          /\ Cardinality(Arrived') = Cardinality(Arrived) + 1
      BY <2>2, <3>1, PoolSets, FS_AddElement
    <3>3. Cardinality(Allocated) \in Nat /\ Cardinality(Arrived) \in Nat
      BY PoolSets, FS_CardinalityType
    <3>4. Cardinality(Allocated') <= Cardinality(Arrived')
      BY <3>2, <3>3 DEF PoolInv
    <3> QED BY <2>1, <3>4 DEF PoolInv
  <2> QED BY <2>3, <2>4
<1>8. AllocInv'
  <2>1. \A j \in Keys : registry'[j] # None => keyOf'[registry'[j]] = j
    <3> SUFFICES ASSUME NEW j \in Keys, j # k, registry[j] # None
                 PROVE  keyOf'[registry[j]] = j
      BY <1>5
    <3>1. keyOf[registry[j]] = j /\ registry[j] \in Pipes
      BY DEF AllocInv, TypeOK
    <3>2. registry[j] # p
      BY <1>2, <3>1, Apart
    <3> QED BY <1>5, <3>1, <3>2
  <2>2. \A q \in Pipes : keyOf'[q] = None => supply'[q] = "off"
    BY <1>1, <1>5, Apart DEF AllocInv, pipes
  <2>3. \A th \in Workers : pc'[th] \notin {"new", "free"} =>
          at'[th] \in Pipes /\ keyOf'[at'[th]] # None
    BY <1>2, <1>4, <1>5, Apart DEF AllocInv
  <2> QED BY <2>1, <2>2, <2>3 DEF AllocInv
<1>9. LockInv'
  <2>1. \A th \in Workers : pc[th] \notin {"inspect", "retire"}
    BY <1>1, NobodyInside, Apart
  <2>2. \A q \in Pollers : pc'[q] = pc[q]
    BY <1>4, <1>3, Apart DEF Threads
  <2> QED BY <1>1, <1>4, <1>5, <2>1, <2>2 DEF LockInv, locks
<1>10. ServeInv'
  <2>1. \A th \in Workers, q \in Pipes : Serves(th, q)' => Serves(th, q)
    BY <1>1, <1>3, <1>4, <1>5 DEF Serves, Encoding
  <2> QED BY <1>1, <2>1 DEF ServeInv, pipes
<1>11. IdleIsReleased'
  <2> SUFFICES ASSUME NEW q \in Pipes, NEW j \in Keys, registry'[j] = q, Idle(q)', q # p
               PROVE  \/ \E w \in Viewers : pc'[w] = "attach" /\ at'[w] = q
                      \/ \E th \in Workers :
                           /\ pc'[th] \in {"release", "inspect", "retire"}
                           /\ keyOf'[at'[th]] = keyOf'[q]
    BY <1>4, <1>5 DEF IdleIsReleased, Registered, Workers
  <2>1. registry[j] = q /\ Idle(q) /\ keyOf'[q] = keyOf[q]
    BY <1>1, <1>5 DEF Idle, pipes
  <2>2. CASE \E w \in Viewers : pc[w] = "attach" /\ at[w] = q
    BY <2>2, <1>1, <1>4, <1>5 DEF Workers
  <2>3. CASE \E th \in Workers : /\ pc[th] \in {"release", "inspect", "retire"}
                                 /\ keyOf[at[th]] = keyOf[q]
    <3>1. PICK th \in Workers : /\ pc[th] \in {"release", "inspect", "retire"}
                                /\ keyOf[at[th]] = keyOf[q]
      BY <2>3
    <3>2. th # v /\ at'[th] = at[th] /\ pc'[th] = pc[th]
      BY <1>1, <1>4, <1>5, <3>1
    <3>3. at[th] \in Pipes /\ keyOf[at[th]] # None
      BY <3>1 DEF AllocInv
    <3>4. keyOf'[at[th]] = keyOf[at[th]]
      BY <1>2, <1>5, <3>3
    <3> QED BY <2>1, <3>1, <3>2, <3>4
  <2> QED BY <2>1, <2>2, <2>3 DEF IdleIsReleased, Registered, Workers
<1>12. RegisteredFollowsProfile'
  <2> SUFFICES ASSUME NEW q \in Pipes, NEW j \in Keys, registry'[j] = q,
                      supply'[q] = "on", spec'[q] # None, spec'[q] # profile'
               PROVE  \E o \in Operators : q \in todo'[o]
    BY DEF RegisteredFollowsProfile, Registered
  <2>1. supply[q] = "on" /\ spec[q] # None /\ spec[q] # profile /\ todo' = todo
    BY <1>1 DEF pipes
  <2>2. q \in Registered
    BY <1>2, <1>5, <2>1, Apart DEF Registered, known, p
  <2> QED BY <2>1, <2>2 DEF RegisteredFollowsProfile
<1> QED BY <1>6, <1>7, <1>8, <1>9, <1>10, <1>11, <1>12

(* IdleIsReleased, for one pipeline at a time.                             *)
Watched(p) ==
  \/ \E v \in Viewers : pc[v] = "attach" /\ at[v] = p
  \/ \E th \in Workers : /\ pc[th] \in {"release", "inspect", "retire"}
                         /\ keyOf[at[th]] = keyOf[p]

(* What IdleIsReleased says is that idle pipelines are watched.            *)
LEMMA IdleIsWatched ==
  /\ IdleIsReleased = \A p \in Registered : Idle(p) => Watched(p)
  /\ IdleIsReleased' = \A p \in Registered' : Idle(p)' => Watched(p)'
  BY DEF IdleIsReleased, Watched, Workers

(* A pipeline stays watched when the watchers that move do not watch it.   *)
LEMMA WatchedKept ==
  ASSUME NEW p, Watched(p), UNCHANGED keyOf,
         \A th \in Workers : pc[th] = "attach" /\ at[th] = p =>
                               pc'[th] = pc[th] /\ at'[th] = at[th],
         \A th \in Workers :
           pc[th] \in {"release", "inspect", "retire"} /\ keyOf[at[th]] = keyOf[p] =>
             pc'[th] \in {"release", "inspect", "retire"} /\ at'[th] = at[th]
  PROVE  Watched(p)'
  BY DEF Watched, Workers

(* The first track of a pipeline starts its encoder, a later one does not. *)
LEMMA AttachStep ==
  ASSUME RegistryInv, NEW v \in Viewers, Attach(v)
  PROVE  RegistryInv'
<1> USE DEF RegistryInv
<1> DEFINE p == at[v]
<1>1. v \in Workers /\ v \notin Encoders /\ v \in Threads
  BY Apart DEF Workers
<1>2. /\ pc[v] = "attach" /\ pmu[p] = None
      /\ tracks' = [tracks EXCEPT ![p] = @ \cup {v}]
      /\ UNCHANGED <<bmu, store, starts, at, back, todo, polls, spent>>
  BY DEF Attach
<1>3. p \in Pipes /\ keyOf[p] # None
  BY <1>1, <1>2 DEF AllocInv
<1>4. supply[p] = "off" =>
        /\ supply' = [supply EXCEPT ![p] = "on"] /\ spec' = [spec EXCEPT ![p] = None]
        /\ pmu' = [pmu EXCEPT ![p] = v] /\ Goto(v, "source")
  BY DEF Attach, StartLocked
<1>5. supply[p] # "off" => Goto(v, "attached") /\ UNCHANGED <<pmu, supply, spec>>
  BY DEF Attach
<1>6. PICK label \in {"source", "attached"} :
        Goto(v, label) /\ (label = "source" <=> supply[p] = "off")
  BY <1>4, <1>5
<1>7. /\ pc'[v] = label /\ PlacesOK'
      /\ \A other \in Threads : other # v => pc'[other] = pc[other]
      /\ \A other \in Workers : other # v => pc'[other] = pc[other]
  BY <1>1, <1>6, WorkerGoes DEF ViewerLabels
<1> HIDE DEF p
<1>8. /\ \A q \in Pipes : q # p => supply'[q] = supply[q] /\ spec'[q] = spec[q]
                                   /\ pmu'[q] = pmu[q] /\ tracks'[q] = tracks[q]
      /\ supply'[p] # "off" /\ tracks'[p] # {}
      /\ label = "source" => spec'[p] = None /\ pmu'[p] = v
      /\ label = "attached" => spec'[p] = spec[p] /\ supply'[p] = supply[p]
                               /\ UNCHANGED pmu
  BY <1>2, <1>3, <1>4, <1>5, <1>6 DEF TypeOK
<1>9. TypeOK'
  <2>1. /\ supply' \in [Pipes -> {"off", "on", "stopping"}]
        /\ spec' \in [Pipes -> Profiles \cup {None}]
        /\ pmu' \in [Pipes -> Viewers \cup Encoders \cup {None}]
    BY <1>3, <1>4, <1>5 DEF TypeOK
  <2>2. tracks' \in [Pipes -> SUBSET Viewers]
    BY <1>2, <1>3 DEF TypeOK
  <2> QED BY <1>2, <1>7, <2>1, <2>2 DEF TypeOK, PlacesOK, store, polls
<1>10. PoolInv'
  <2>1. Busy' = Busy /\ Allocated' = Allocated
    BY <1>1, <1>2, <1>7 DEF Busy, Allocated, Workers, store
  <2>2. Arrived \subseteq Arrived' /\ Through \subseteq Through'
    BY <1>2, <1>6, <1>7 DEF Arrived, Through, Workers
  <2> QED BY <2>1, <2>2, PoolKept
<1>11. AllocInv'
  <2>1. \A q \in Pipes : keyOf'[q] = None => supply'[q] = "off"
    BY <1>2, <1>3, <1>8 DEF AllocInv, store
  <2> QED BY <1>2, <1>3, <1>6, <1>7, <2>1 DEF AllocInv, store, p
<1>12. LockInv'
  <2>1. \A th \in Workers : pc'[th] \in {"source", "sourceDelayed"} => pmu'[at'[th]] = th
    <3> SUFFICES ASSUME NEW th \in Workers, th # v, pc[th] \in {"source", "sourceDelayed"}
                 PROVE  pmu'[at[th]] = th
      BY <1>2, <1>6, <1>7, <1>8 DEF p
    <3>1. pmu[at[th]] = th /\ at[th] \in Pipes
      BY DEF LockInv, AllocInv
    <3>2. at[th] # p
      BY <1>2, <3>1, Apart DEF p
    <3> QED BY <1>8, <3>1, <3>2
  <2>2. \A q \in Pollers : pc'[q] = pc[q]
    BY <1>7, <1>1, Apart DEF Threads
  <2> QED BY <1>2, <1>6, <1>7, <2>1, <2>2 DEF LockInv, store
<1>13. ServeInv'
  <2>1. \A th \in Workers, q \in Pipes : th # v => (Serves(th, q)' <=> Serves(th, q))
    BY <1>2, <1>7 DEF Serves, Encoding
  <2>2. \A q \in Pipes : Serves(v, q)' => label = "source" /\ q = p
    BY <1>1, <1>2, <1>6, <1>7 DEF Serves, p
  <2>3. label = "source" => \A th \in Workers : ~Serves(th, p)
    BY <1>3, <1>6 DEF ServeInv
  <2> QED BY <1>8, <2>1, <2>2, <2>3 DEF ServeInv
<1>14. IdleIsReleased'
  <2> SUFFICES ASSUME NEW q \in Registered', Idle(q)' PROVE Watched(q)'
    BY IdleIsWatched
  <2>1. q \in Registered /\ q # p /\ q \in Pipes /\ Idle(q)
    BY <1>2, <1>8 DEF Registered, Idle, store
  <2>2. Watched(q)
    BY <2>1, IdleIsWatched
  <2> QED BY <1>2, <1>7, <2>1, <2>2, WatchedKept DEF store, p
<1>15. RegisteredFollowsProfile'
  <2>1. \A q \in Pipes : supply'[q] = "on" /\ spec'[q] # None =>
          supply[q] = "on" /\ spec'[q] = spec[q]
    BY <1>6, <1>8
  <2> QED BY <1>2, <2>1, FollowsKept DEF Registration, store
<1> QED BY <1>9, <1>10, <1>11, <1>12, <1>13, <1>14, <1>15

(* A track is removed, by its viewer or by the encoder that fails to write *)
(* to it.                                                                  *)
LEMMA RemoveStep ==
  ASSUME RegistryInv, NEW th \in Workers, NEW v, NEW label,
         \/ th \in Viewers /\ pc[th] = "attached" /\ label = "gone" /\ UNCHANGED back
         \/ /\ th \in Encoders /\ pc[th] = "run" /\ label = "run"
            /\ back' = [back EXCEPT ![th] = "run"],
         Remove(th, at[th], v, label),
         spent' \in [changes : 0..MaxChanges, crashes : 0..MaxCrashes,
                     writes : 0..MaxWriteFailures],
         UNCHANGED <<locks, store, spec, starts, at, todo, polls>>
  PROVE  RegistryInv'
<1> USE DEF RegistryInv
<1> DEFINE p == at[th]
           rest == tracks[p] \ {v}
<1>1. p \in Pipes /\ keyOf[p] # None
  BY DEF AllocInv
<1>2. /\ pmu[p] = None /\ tracks' = [tracks EXCEPT ![p] = rest]
      /\ supply' = [supply EXCEPT ![p] = SupplyAfter(p, rest)]
      /\ Goto(th, IF rest = {} THEN "release" ELSE label)
  BY DEF Remove, ReportIdle
<1>3. SupplyAfter(p, rest) \in {"off", "on", "stopping"}
      /\ (SupplyAfter(p, rest) = "off" <=> supply[p] = "off")
      /\ (SupplyAfter(p, rest) = "on" => supply[p] = "on")
  BY <1>1 DEF SupplyAfter, TypeOK
<1>4. PICK place \in {"release", label} :
        Goto(th, place) /\ (rest = {} => place = "release")
  BY <1>2
<1>5. /\ pc'[th] = place /\ PlacesOK' /\ th \in Threads
      /\ \A other \in Threads : other # th => pc'[other] = pc[other]
      /\ \A other \in Workers : other # th => pc'[other] = pc[other]
  <2>1. /\ th \in Viewers => place \in ViewerLabels
        /\ th \in Encoders => place \in EncoderLabels
    BY Apart DEF ViewerLabels, EncoderLabels
  <2> QED BY <1>4, <2>1, WorkerGoes
<1>6. \A q \in Pipes : /\ supply'[q] = "off" <=> supply[q] = "off"
                       /\ supply'[q] = "on" => supply[q] = "on"
                       /\ q # p => supply'[q] = supply[q] /\ tracks'[q] = tracks[q]
  BY <1>1, <1>2, <1>3 DEF TypeOK
<1>7. tracks'[p] = rest
  BY <1>1, <1>2 DEF TypeOK
<1>8. back' \in [Encoders -> {"run", "free"}]
      /\ \A e \in Encoders : /\ e # th => back'[e] = back[e]
                             /\ e = th => back'[e] = "run"
  BY Apart DEF TypeOK
<1>9. TypeOK'
  <2>1. supply' \in [Pipes -> {"off", "on", "stopping"}]
    BY <1>2, <1>3 DEF TypeOK
  <2>2. rest \in SUBSET Viewers
    BY <1>1 DEF TypeOK
  <2>3. tracks' \in [Pipes -> SUBSET Viewers]
    BY <1>2, <2>2 DEF TypeOK
  <2> QED BY <1>5, <1>8, <2>1, <2>3 DEF TypeOK, PlacesOK, locks, store, polls
<1> HIDE DEF p, rest
<1>10. PoolInv'
  <2>1. Busy' = Busy
    BY <1>5 DEF Busy, Workers
  <2>2. Allocated' = Allocated
    BY DEF Allocated, store
  <2>3. Arrived \subseteq Arrived' /\ Through \subseteq Through'
    BY <1>5 DEF Arrived, Through, Workers
  <2> QED BY <2>1, <2>2, <2>3, PoolKept
<1>11. AllocInv'
  <2>1. \A q \in Pipes : keyOf'[q] = None => supply'[q] = "off"
    BY <1>6 DEF AllocInv, store
  <2> QED BY <1>1, <1>5, <2>1 DEF AllocInv, store, p
<1>12. LockInv'
  <2>1. \A q \in Pollers : pc'[q] = pc[q]
    BY <1>5, Apart DEF Threads
  <2> QED BY <1>5, <2>1 DEF LockInv, store, locks
<1>13. ServeInv'
  <2>1. \A other \in Workers, q \in Pipes : Serves(other, q)' => Serves(other, q)
    BY <1>5, <1>8, Apart DEF Serves, Encoding
  <2> QED BY <1>6, <2>1 DEF ServeInv
<1>14. IdleIsReleased'
  <2> SUFFICES ASSUME NEW q \in Registered', Idle(q)' PROVE Watched(q)'
    BY IdleIsWatched
  <2>1. q \in Registered /\ q \in Pipes
    BY DEF Registered, store
  <2>2. CASE q = p
    <3>1. pc'[th] = "release" /\ at'[th] = q /\ UNCHANGED keyOf
      BY <1>4, <1>5, <1>7, <2>2 DEF Idle, store, p
    <3> QED BY <3>1 DEF Watched
  <2>3. CASE q # p
    <3>1. Idle(q)
      BY <1>6, <2>1, <2>3 DEF Idle
    <3>2. Watched(q)
      BY <2>1, <3>1, IdleIsWatched
    <3> QED BY <1>5, <3>2, WatchedKept DEF store
  <2> QED BY <2>2, <2>3
<1>15. RegisteredFollowsProfile'
  BY <1>6, FollowsKept DEF Registration, store
<1> QED BY <1>9, <1>10, <1>11, <1>12, <1>13, <1>14, <1>15

(* The unsubscribe closure of a viewer.                                    *)
LEMMA DetachStep ==
  ASSUME RegistryInv, NEW v \in Viewers, Detach(v)
  PROVE  RegistryInv'
<1>1. spent' \in [changes : 0..MaxChanges, crashes : 0..MaxCrashes,
                  writes : 0..MaxWriteFailures]
  BY DEF Detach, RegistryInv, TypeOK
<1> QED BY <1>1, RemoveStep DEF Detach, Workers

(* An encoder that drops a viewer it cannot write to.                      *)
LEMMA WriteFailsStep ==
  ASSUME RegistryInv, NEW e \in Encoders, NEW v \in Viewers, WriteFails(e, v)
  PROVE  RegistryInv'
<1>1. spent' \in [changes : 0..MaxChanges, crashes : 0..MaxCrashes,
                  writes : 0..MaxWriteFailures]
  <2>1. /\ spent \in [changes : 0..MaxChanges, crashes : 0..MaxCrashes,
                      writes : 0..MaxWriteFailures]
        /\ spent.writes < MaxWriteFailures
        /\ spent' = [spent EXCEPT !.writes = @ + 1]
    BY DEF WriteFails, RegistryInv, TypeOK
  <2>2. spent.writes + 1 \in 0..MaxWriteFailures
    BY <2>1, BroadcasterAssumption
  <2> QED BY <2>1, <2>2
<1> QED BY <1>1, RemoveStep DEF WriteFails, Workers

(* A step inside release, after which the key is looked after or needs     *)
(* nobody to look after it.                                                *)
LEMMA InsideRelease ==
  ASSUME RegistryInv, NEW th \in Workers, pc[th] \in {"release", "inspect", "retire"},
         bmu \in {None, th}, bmu' \in {None, th},
         NEW place, Goto(th, place),
         \/ place \in {"inspect", "retire"} /\ bmu' = th
            /\ registry'[keyOf[at[th]]] # None
         \/ th \in Viewers /\ place = "gone"
         \/ th \in Encoders /\ place = back[th],
         place \notin {"inspect", "retire"} =>
           \A q \in Registered' : Idle(q) => keyOf[q] # keyOf[at[th]],
         registry' \in [Keys -> Pipes \cup {None}],
         \A k \in Keys : registry'[k] \in {registry[k], None},
         \A k \in Keys : k # keyOf[at[th]] => registry'[k] = registry[k],
         retired' \in Nat,
         UNCHANGED <<pmu, profile, keyOf, pipes, at, back, todo, polls, spent>>
  PROVE  RegistryInv'
<1> USE DEF RegistryInv
<1>1. /\ pc'[th] = place /\ PlacesOK' /\ th \in Threads
      /\ \A other \in Threads : other # th => pc'[other] = pc[other]
      /\ \A other \in Workers : other # th => pc'[other] = pc[other]
  <2>1. /\ th \in Viewers => place \in ViewerLabels
        /\ th \in Encoders => place \in EncoderLabels
    BY Apart DEF ViewerLabels, EncoderLabels, TypeOK
  <2> QED BY <2>1, WorkerGoes
<1>2. th \in Encoders => place \in {"inspect", "retire", "run", "free"}
  BY Apart DEF TypeOK
<1>3. TypeOK'
  BY <1>1 DEF TypeOK, PlacesOK, pipes, polls
<1>4. PoolInv'
  <2>1. Busy' \subseteq Busy
    BY <1>1 DEF Busy, Workers
  <2>2. Allocated' = Allocated
    BY DEF Allocated
  <2>3. Arrived \subseteq Arrived' /\ Through \subseteq Through'
    BY <1>1, Apart DEF Arrived, Through, Workers
  <2> QED BY <2>1, <2>2, <2>3, PoolKept
<1>5. AllocInv'
  BY <1>1 DEF AllocInv, pipes
<1>6. LockInv'
  <2>1. \A other \in Workers : other # th => pc[other] \notin {"inspect", "retire"}
    BY Apart DEF LockInv
  <2>2. \A q \in Pollers : pc'[q] # "poll"
    <3> SUFFICES ASSUME NEW q \in Pollers PROVE pc[q] # "poll"
      BY <1>1, Apart DEF Threads
    <3> QED BY Apart DEF LockInv
  <2>3. place \notin {"source", "sourceDelayed"}
    BY <1>2
  <2>4. place \in {"inspect", "retire"} => bmu' = th /\ registry'[keyOf[at[th]]] # None
    BY <1>2, Apart DEF TypeOK
  <2>5. \A other \in Workers :
          /\ pc'[other] \in {"source", "sourceDelayed"} => pmu[at[other]] = other
          /\ pc'[other] \in {"inspect", "retire"} =>
               bmu' = other /\ registry'[keyOf[at[other]]] # None
    <3> SUFFICES ASSUME NEW other \in Workers
                 PROVE  /\ pc'[other] \in {"source", "sourceDelayed"} =>
                             pmu[at[other]] = other
                        /\ pc'[other] \in {"inspect", "retire"} =>
                             bmu' = other /\ registry'[keyOf[at[other]]] # None
      OBVIOUS
    <3>1. CASE other = th
      BY <1>1, <2>3, <2>4, <3>1
    <3>2. CASE other # th
      BY <1>1, <2>1, <3>2 DEF LockInv
    <3> QED BY <3>1, <3>2
  <2> QED BY <2>2, <2>5 DEF LockInv
<1>7. ServeInv'
  <2>1. \A other \in Workers, q \in Pipes : Serves(other, q)' => Serves(other, q)
    BY <1>1, <1>2, Apart DEF Serves, Encoding
  <2> QED BY <2>1 DEF ServeInv, pipes
<1>8. Registered' \subseteq Registered
  BY Apart DEF Registered
<1>9. IdleIsReleased'
  <2> SUFFICES ASSUME NEW q \in Registered', Idle(q)' PROVE Watched(q)'
    BY IdleIsWatched
  <2>1. q \in Registered /\ Idle(q)
    BY <1>8 DEF Idle, pipes
  <2>2. Watched(q)
    BY <2>1, IdleIsWatched
  <2>3. CASE place \in {"inspect", "retire"}
    BY <1>1, <2>2, <2>3, WatchedKept
  <2>4. CASE place \notin {"inspect", "retire"}
    <3>1. keyOf[q] # keyOf[at[th]]
      BY <2>1, <2>4
    <3> QED BY <1>1, <2>2, <3>1, WatchedKept
  <2> QED BY <2>3, <2>4
<1>10. RegisteredFollowsProfile'
  <2> SUFFICES ASSUME NEW q \in Registered', supply[q] = "on", spec[q] # None,
                      spec[q] # profile
               PROVE  \E o \in Operators : q \in todo[o]
    BY DEF RegisteredFollowsProfile, pipes
  <2> QED BY <1>8 DEF RegisteredFollowsProfile
<1> QED BY <1>3, <1>4, <1>5, <1>6, <1>7, <1>9, <1>10

(* Where a thread goes that returns from release.                          *)
LEMMA Returns ==
  ASSUME NEW th \in Workers, Return(th)
  PROVE  \E place : /\ Goto(th, place) /\ place \in {"gone", back[th]}
                    /\ th \in Viewers => place = "gone"
                    /\ th \in Encoders => place = back[th]
  BY Apart DEF Return, Workers

(* release returns at once when the key is not registered any more, and    *)
(* holds b.mu otherwise.                                                   *)
LEMMA ReleaseStep ==
  ASSUME RegistryInv, NEW th \in Workers, Release(th)
  PROVE  RegistryInv'
<1> USE DEF RegistryInv
<1> DEFINE k == keyOf[at[th]]
<1>1. /\ pc[th] = "release" /\ bmu = None
      /\ UNCHANGED <<pmu, store, pipes, at, back, todo, polls, spent>>
  BY DEF Release
<1>2. /\ registry' \in [Keys -> Pipes \cup {None}] /\ retired' \in Nat
      /\ registry' = registry
  BY <1>1 DEF TypeOK, store
<1>3. CASE registry[k] = None
  <2>1. Return(th) /\ bmu' = None
    BY <1>1, <1>3 DEF Release
  <2>2. PICK place : /\ Goto(th, place)
                     /\ th \in Viewers => place = "gone"
                     /\ th \in Encoders => place = back[th]
    BY <2>1, Returns
  <2>3. \A q \in Registered' : keyOf[q] # k
    BY <1>2, <1>3, RegistryOfKey, Apart DEF Registered
  <2> QED BY <1>1, <1>2, <2>1, <2>2, <2>3, InsideRelease DEF store, Workers
<1>4. CASE registry[k] # None
  <2>1. Goto(th, "inspect") /\ bmu' = th
    BY <1>4 DEF Release
  <2> QED BY <1>1, <1>2, <1>4, <2>1, InsideRelease DEF store
<1> QED BY <1>3, <1>4

(* release leaves a pipeline alone that is in use again.                   *)
LEMMA InspectStep ==
  ASSUME RegistryInv, NEW th \in Workers, Inspect(th)
  PROVE  RegistryInv'
<1> USE DEF RegistryInv
<1> DEFINE k == keyOf[at[th]]
           p == registry[k]
<1>1. /\ pc[th] = "inspect"
      /\ UNCHANGED <<pmu, store, pipes, at, back, todo, polls, spent>>
  BY DEF Inspect
<1>2. /\ registry' \in [Keys -> Pipes \cup {None}] /\ retired' \in Nat
      /\ registry' = registry
  BY <1>1 DEF TypeOK, store
<1>3. bmu = th /\ p # None
  BY <1>1 DEF LockInv
<1>4. CASE Idle(p)
  <2>1. Goto(th, "retire") /\ bmu' = th
    BY <1>3, <1>4 DEF Inspect
  <2> QED BY <1>1, <1>2, <1>3, <2>1, InsideRelease DEF store
<1>5. CASE ~Idle(p)
  <2>1. Return(th) /\ bmu' = None
    BY <1>5 DEF Inspect
  <2>2. PICK place : /\ Goto(th, place)
                     /\ th \in Viewers => place = "gone"
                     /\ th \in Encoders => place = back[th]
    BY <2>1, Returns
  <2>3. \A q \in Registered' : Idle(q) => keyOf[q] # k
    BY <1>2, <1>5, RegistryOfKey DEF Registered
  <2> QED BY <1>1, <1>2, <1>3, <2>1, <2>2, <2>3, InsideRelease DEF store, Workers
<1> QED BY <1>4, <1>5

(* release takes the pipeline of the key out of the registry.              *)
LEMMA RetireStep ==
  ASSUME RegistryInv, NEW th \in Workers, Retire(th)
  PROVE  RegistryInv'
<1> USE DEF RegistryInv
<1> DEFINE k == keyOf[at[th]]
<1>1. /\ pc[th] = "retire" /\ bmu' = None /\ Return(th)
      /\ retired' = retired + starts[registry[k]]
      /\ registry' = [registry EXCEPT ![k] = None]
      /\ UNCHANGED <<pmu, profile, keyOf, pipes, at, back, todo, polls, spent>>
  BY DEF Retire, RetiredWith
<1>2. at[th] \in Pipes /\ k \in Keys
  BY <1>1 DEF AllocInv, TypeOK
<1>3. bmu = th /\ registry[k] \in Pipes
  BY <1>1, <1>2, Apart DEF LockInv, TypeOK
<1>4. retired' \in Nat
  BY <1>1, <1>3 DEF TypeOK
<1>5. /\ registry' \in [Keys -> Pipes \cup {None}]
      /\ registry'[k] = None /\ \A j \in Keys : j # k => registry'[j] = registry[j]
  BY <1>1, <1>2 DEF TypeOK
<1>6. PICK place : /\ Goto(th, place)
                   /\ th \in Viewers => place = "gone"
                   /\ th \in Encoders => place = back[th]
  BY <1>1, Returns
<1>7. \A q \in Registered' : keyOf[q] # k
  <2> SUFFICES ASSUME NEW q \in Pipes, NEW j \in Keys, registry'[j] = q, keyOf[q] = k
               PROVE  FALSE
    BY DEF Registered
  <2>1. j # k /\ registry[j] = q
    BY <1>5, Apart
  <2>2. keyOf[q] = j
    BY <2>1, Apart DEF AllocInv
  <2> QED BY <2>1, <2>2
<1>8. \A j \in Keys : registry'[j] \in {registry[j], None}
  BY <1>5
<1> HIDE DEF k
<1> QED BY <1>1, <1>3, <1>4, <1>5, <1>6, <1>7, <1>8, InsideRelease DEF Workers, k

(* The source function of a viewer's pipeline: its encoder takes over.     *)
LEMMA ViewerSourceStep ==
  ASSUME RegistryInv, NEW v \in Viewers, Source(v)
  PROVE  RegistryInv'
<1> USE DEF RegistryInv
<1> DEFINE p == at[v]
<1>1. v \in Workers /\ v \notin Encoders /\ v \in Threads /\ pc[v] = "source"
  BY Apart DEF Workers, Source, TypeOK, ViewerLabels
<1>2. PICK e : /\ e \in Encoders /\ pc[e] = "free" /\ e \in Workers
               /\ e \in Threads /\ e # v
               /\ e = CHOOSE f \in Encoders : pc[f] = "free"
  <2> DEFINE f == CHOOSE f \in Encoders : pc[f] = "free"
  <2>1. f \in Encoders /\ pc[f] = "free"
    BY <1>1, FreeEncoder
  <2> QED BY <1>1, <2>1 DEF Workers, Threads
<1>3. /\ spec' = [spec EXCEPT ![p] = profile] /\ pmu' = [pmu EXCEPT ![p] = None]
      /\ at' = [at EXCEPT ![e] = p]
      /\ pc' = [pc EXCEPT ![v] = "attached", ![e] = "start"]
      /\ UNCHANGED <<bmu, store, tracks, supply, starts, back, todo, polls, spent>>
  BY <1>1, <1>2 DEF Source, Spawn
<1>4. p \in Pipes /\ keyOf[p] # None /\ pmu[p] = v
  BY <1>1 DEF AllocInv, LockInv
<1> HIDE DEF p
<1>5. /\ pc'[v] = "attached" /\ pc'[e] = "start"
      /\ \A other \in Threads : other \notin {v, e} => pc'[other] = pc[other]
      /\ \A other \in Workers : other \notin {v, e} => pc'[other] = pc[other]
      /\ at'[e] = p /\ \A other \in Workers : other # e => at'[other] = at[other]
  BY <1>1, <1>2, <1>3, Apart DEF TypeOK
<1>6. /\ spec'[p] = profile /\ \A q \in Pipes : q # p => spec'[q] = spec[q]
      /\ \A q \in Pipes : q # p => pmu'[q] = pmu[q]
  BY <1>3, <1>4 DEF TypeOK
<1>7. TypeOK'
  <2>1. PlacesOK'
    <3>1. pc' \in [Threads -> ViewerLabels \cup EncoderLabels
                                \cup {"idle", "resize", "apply", "restart", "poll"}]
      BY <1>3 DEF TypeOK, ViewerLabels, EncoderLabels
    <3>2. \A w \in Viewers : pc'[w] \in ViewerLabels
      BY <1>2, <1>5, Apart DEF TypeOK, Workers, ViewerLabels
    <3>3. \A f \in Encoders : pc'[f] \in EncoderLabels
      BY <1>1, <1>5 DEF TypeOK, Workers, EncoderLabels
    <3> QED BY <3>1, <3>2, <3>3 DEF PlacesOK
  <2>2. at' \in [Threads -> Pipes \cup {None}]
    BY <1>3, <1>4 DEF TypeOK
  <2>3. spec' \in [Pipes -> Profiles \cup {None}]
        /\ pmu' \in [Pipes -> Viewers \cup Encoders \cup {None}]
    BY <1>3 DEF TypeOK
  <2> QED BY <1>3, <2>1, <2>2, <2>3 DEF TypeOK, PlacesOK, store, polls
<1>8. PoolInv'
  <2>1. Allocated' = Allocated /\ Arrived \subseteq Arrived'
    BY <1>1, <1>2, <1>3, <1>5 DEF Allocated, Arrived, store, Workers
  <2>2. Through' = Through \cup {v} /\ v \notin Through
    BY <1>1, <1>2, <1>5, Apart DEF Through, Workers
  <2>3. Busy' = Busy \cup {e} /\ e \notin Busy
    BY <1>1, <1>2, <1>5 DEF Busy, Workers
  <2>4. /\ Cardinality(Busy') = Cardinality(Busy) + 1
        /\ Cardinality(Through') = Cardinality(Through) + 1
    BY <2>2, <2>3, PoolSets, FS_AddElement
  <2>5. Cardinality(Busy) \in Nat /\ Cardinality(Through) \in Nat
    BY PoolSets, FS_CardinalityType
  <2>6. Cardinality(Busy') <= Cardinality(Through')
    BY <2>4, <2>5 DEF PoolInv
  <2>7. Cardinality(Allocated') <= Cardinality(Arrived')
    BY <2>1, PoolSets, CardinalityKept DEF PoolInv
  <2> QED BY <2>6, <2>7 DEF PoolInv
<1>9. AllocInv'
  <2>1. \A th \in Workers : pc'[th] \notin {"new", "free"} =>
          at'[th] \in Pipes /\ keyOf[at'[th]] # None
    <3> SUFFICES ASSUME NEW th \in Workers, pc'[th] \notin {"new", "free"}, th # e
                 PROVE  at[th] \in Pipes /\ keyOf[at[th]] # None
      BY <1>4, <1>5
    <3> QED BY <1>1, <1>5 DEF AllocInv
  <2> QED BY <1>3, <2>1 DEF AllocInv, store
<1>10. LockInv'
  <2>1. \A th \in Workers : pc'[th] \in {"source", "sourceDelayed"} => pmu'[at'[th]] = th
    <3> SUFFICES ASSUME NEW th \in Workers, th \notin {v, e},
                        pc[th] \in {"source", "sourceDelayed"}
                 PROVE  pmu'[at[th]] = th
      BY <1>5
    <3>1. pmu[at[th]] = th /\ at[th] \in Pipes
      BY DEF LockInv, AllocInv
    <3> QED BY <1>4, <1>6, <3>1
  <2>2. \A th \in Workers : pc'[th] \in {"inspect", "retire"} =>
          bmu' = th /\ registry'[keyOf'[at'[th]]] # None
    BY <1>3, <1>5 DEF LockInv, store
  <2>3. \A q \in Pollers : pc'[q] = pc[q]
    BY <1>1, <1>2, <1>5, Apart DEF Threads
  <2> QED BY <1>3, <2>1, <2>2, <2>3 DEF LockInv
<1>11. ServeInv'
  <2>1. Serves(v, p) /\ supply[p] # "off"
        /\ \A th \in Workers : Serves(th, p) => th = v
    BY <1>1, <1>4 DEF Serves, p, ServeInv
  <2>2. \A th \in Workers, q \in Pipes : th \notin {v, e} =>
          (Serves(th, q)' <=> Serves(th, q))
    BY <1>3, <1>5 DEF Serves, Encoding
  <2>3. \A q \in Pipes : ~Serves(v, q)' /\ (Serves(e, q)' => q = p)
    BY <1>1, <1>5 DEF Serves
  <2> QED BY <1>3, <2>1, <2>2, <2>3 DEF ServeInv
<1>12. IdleIsReleased'
  <2> SUFFICES ASSUME NEW q \in Registered', Idle(q)' PROVE Watched(q)'
    BY IdleIsWatched
  <2>1. q \in Registered /\ Idle(q)
    BY <1>3 DEF Registered, Idle, store
  <2>2. Watched(q)
    BY <2>1, IdleIsWatched
  <2> QED BY <1>1, <1>2, <1>3, <1>5, <2>2, WatchedKept DEF store
<1>13. RegisteredFollowsProfile'
  BY <1>3, <1>4, <1>6, FollowsKept DEF Registration, store
<1> QED BY <1>7, <1>8, <1>9, <1>10, <1>11, <1>12, <1>13

(* The successor that a dying encoder starts takes over its identity.      *)
LEMMA EncoderSourceStep ==
  ASSUME RegistryInv, NEW e \in Encoders, Source(e)
  PROVE  RegistryInv'
<1> USE DEF RegistryInv
<1> DEFINE p == at[e]
<1>1. e \in Workers /\ e \notin Viewers /\ e \in Threads
      /\ pc[e] \in {"source", "sourceDelayed"}
  BY Apart DEF Workers, Source
<1>2. p \in Pipes /\ keyOf[p] # None /\ pmu[p] = e
  BY <1>1 DEF AllocInv, LockInv
<1>3. PICK label \in {"wait", "start"} :
        pc' = [[pc EXCEPT ![e] = "attached"] EXCEPT ![e] = label]
  BY <1>1 DEF Source, Spawn
<1>4. Goto(e, label)
  BY <1>1, <1>3 DEF Goto, TypeOK
<1>5. /\ spec' = [spec EXCEPT ![p] = profile] /\ pmu' = [pmu EXCEPT ![p] = None]
      /\ at' = [at EXCEPT ![e] = p]
      /\ UNCHANGED <<bmu, store, tracks, supply, starts, back, todo, polls, spent>>
  BY <1>1 DEF Source, Spawn
<1>6. at' = at
  BY <1>1, <1>5 DEF TypeOK
<1>7. /\ pc'[e] = label /\ PlacesOK'
      /\ \A other \in Threads : other # e => pc'[other] = pc[other]
      /\ \A other \in Workers : other # e => pc'[other] = pc[other]
  BY <1>1, <1>4, WorkerGoes DEF EncoderLabels
<1>8. /\ spec'[p] = profile /\ \A q \in Pipes : q # p => spec'[q] = spec[q]
      /\ \A q \in Pipes : q # p => pmu'[q] = pmu[q]
  BY <1>2, <1>5 DEF TypeOK
<1>9. TypeOK'
  <2>1. spec' \in [Pipes -> Profiles \cup {None}]
        /\ pmu' \in [Pipes -> Viewers \cup Encoders \cup {None}]
    BY <1>5 DEF TypeOK
  <2> QED BY <1>5, <1>6, <1>7, <2>1 DEF TypeOK, PlacesOK, store, polls
<1> HIDE DEF p
<1>10. PoolInv'
  <2>1. Allocated' = Allocated
    BY <1>5 DEF Allocated, store
  <2>2. Busy' \subseteq Busy /\ Arrived \subseteq Arrived' /\ Through \subseteq Through'
    BY <1>1, <1>7 DEF Busy, Arrived, Through, Workers
  <2> QED BY <2>1, <2>2, PoolKept
<1>11. AllocInv'
  BY <1>1, <1>5, <1>6, <1>7 DEF AllocInv, store
<1>12. LockInv'
  <2>1. \A th \in Workers : pc'[th] \in {"source", "sourceDelayed"} => pmu'[at[th]] = th
    <3> SUFFICES ASSUME NEW th \in Workers, th # e, pc[th] \in {"source", "sourceDelayed"}
                 PROVE  pmu'[at[th]] = th
      BY <1>7
    <3>1. pmu[at[th]] = th /\ at[th] \in Pipes
      BY DEF LockInv, AllocInv
    <3> QED BY <1>2, <1>8, <3>1
  <2>2. \A q \in Pollers : pc'[q] = pc[q]
    BY <1>1, <1>7, Apart DEF Threads
  <2> QED BY <1>5, <1>6, <1>7, <2>1, <2>2 DEF LockInv, store
<1>13. ServeInv'
  <2>1. \A th \in Workers, q \in Pipes : Serves(th, q)' => Serves(th, q)
    BY <1>1, <1>5, <1>6, <1>7 DEF Serves, Encoding
  <2> QED BY <1>5, <2>1 DEF ServeInv
<1>14. IdleIsReleased'
  <2> SUFFICES ASSUME NEW q \in Registered', Idle(q)' PROVE Watched(q)'
    BY IdleIsWatched
  <2>1. q \in Registered /\ Idle(q)
    BY <1>5 DEF Registered, Idle, store
  <2>2. Watched(q)
    BY <2>1, IdleIsWatched
  <2> QED BY <1>1, <1>5, <1>6, <1>7, <2>2, WatchedKept DEF store
<1>15. RegisteredFollowsProfile'
  BY <1>2, <1>5, <1>8, FollowsKept DEF Registration, store
<1> QED BY <1>9, <1>10, <1>11, <1>12, <1>13, <1>14, <1>15

(* An encoder ends: the pipeline goes to rest, or is started once more.    *)
LEMMA FinishStep ==
  ASSUME RegistryInv, NEW e \in Encoders, Finish(e)
  PROVE  RegistryInv'
<1> USE DEF RegistryInv
<1> DEFINE p == at[e]
<1>1. /\ e \in Workers /\ e \notin Viewers /\ e \in Threads
      /\ pc[e] \in {"failed", "stopped"}
  BY Apart DEF Workers, Finish
<1>2. /\ pmu[p] = None
      /\ UNCHANGED <<bmu, store, tracks, starts, at, todo, polls, spent>>
  BY DEF Finish
<1>3. p \in Pipes /\ keyOf[p] # None
  BY <1>1 DEF AllocInv
<1>4. \A th \in Workers : Serves(th, p) => th = e
  BY <1>1, <1>3 DEF ServeInv, Serves, Encoding
<1>5. tracks[p] = {} =>
        /\ supply' = [supply EXCEPT ![p] = "off"] /\ Goto(e, "release")
        /\ back' = [back EXCEPT ![e] = "free"] /\ UNCHANGED <<pmu, spec>>
  BY DEF Finish, ReportIdle
<1>6. tracks[p] # {} =>
        /\ supply' = [supply EXCEPT ![p] = "on"] /\ spec' = [spec EXCEPT ![p] = None]
        /\ pmu' = [pmu EXCEPT ![p] = e] /\ UNCHANGED back
        /\ Goto(e, IF pc[e] = "failed" THEN "sourceDelayed" ELSE "source")
  BY DEF Finish, StartLocked
<1>7. PICK label \in {"source", "sourceDelayed", "release"} :
        Goto(e, label) /\ (label = "release" <=> tracks[p] = {})
  BY <1>5, <1>6
<1>8. /\ pc'[e] = label /\ PlacesOK'
      /\ \A other \in Threads : other # e => pc'[other] = pc[other]
      /\ \A other \in Workers : other # e => pc'[other] = pc[other]
  BY <1>1, <1>7, WorkerGoes DEF EncoderLabels
<1> HIDE DEF p
<1>9. /\ \A q \in Pipes : q # p => supply'[q] = supply[q] /\ spec'[q] = spec[q]
                                   /\ pmu'[q] = pmu[q]
      /\ label = "release" => supply'[p] = "off" /\ spec'[p] = spec[p]
                              /\ UNCHANGED pmu
      /\ label # "release" => supply'[p] = "on" /\ spec'[p] = None /\ pmu'[p] = e
  BY <1>3, <1>5, <1>6, <1>7 DEF TypeOK
<1>10. /\ back' \in [Encoders -> {"run", "free"}]
       /\ \A f \in Encoders : f # e => back'[f] = back[f]
       /\ label = "release" => back'[e] = "free"
  BY <1>5, <1>6, <1>7 DEF TypeOK
<1>11. TypeOK'
  <2>1. /\ supply' \in [Pipes -> {"off", "on", "stopping"}]
        /\ spec' \in [Pipes -> Profiles \cup {None}]
        /\ pmu' \in [Pipes -> Viewers \cup Encoders \cup {None}]
    BY <1>3, <1>5, <1>6 DEF TypeOK
  <2> QED BY <1>2, <1>8, <1>10, <2>1 DEF TypeOK, PlacesOK, store, polls
<1>12. PoolInv'
  <2>1. Allocated' = Allocated
    BY <1>2 DEF Allocated, store
  <2>2. Busy' \subseteq Busy /\ Arrived \subseteq Arrived' /\ Through \subseteq Through'
    BY <1>1, <1>8 DEF Busy, Arrived, Through, Workers
  <2> QED BY <2>1, <2>2, PoolKept
<1>13. AllocInv'
  <2>1. \A q \in Pipes : keyOf'[q] = None => supply'[q] = "off"
    BY <1>2, <1>3, <1>9 DEF AllocInv, store
  <2> QED BY <1>1, <1>2, <1>8, <2>1 DEF AllocInv, store
<1>14. LockInv'
  <2>1. \A th \in Workers : pc'[th] \in {"source", "sourceDelayed"} => pmu'[at[th]] = th
    <3> SUFFICES ASSUME NEW th \in Workers, th # e, pc[th] \in {"source", "sourceDelayed"}
                 PROVE  pmu'[at[th]] = th
      BY <1>8, <1>9 DEF p
    <3>1. pmu[at[th]] = th /\ at[th] \in Pipes
      BY DEF LockInv, AllocInv
    <3>2. at[th] # p
      BY <1>2, <3>1, Apart DEF p
    <3> QED BY <1>9, <3>1, <3>2
  <2>2. \A q \in Pollers : pc'[q] = pc[q]
    BY <1>1, <1>8, Apart DEF Threads
  <2> QED BY <1>2, <1>7, <1>8, <2>1, <2>2 DEF LockInv, store
<1>15. ServeInv'
  <2>1. \A th \in Workers, q \in Pipes : th # e => (Serves(th, q)' <=> Serves(th, q))
    BY <1>2, <1>8, <1>10 DEF Serves, Encoding
  <2>2. \A q \in Pipes : Serves(e, q)' => q = p /\ label # "release"
    BY <1>2, <1>7, <1>8, <1>10 DEF Serves, Encoding, p
  <2>3. \A th \in Workers, q \in Pipes : th # e /\ q = p => ~Serves(th, q)'
    BY <1>4, <2>1
  <2> QED BY <1>9, <2>1, <2>2, <2>3 DEF ServeInv
<1>16. IdleIsReleased'
  <2> SUFFICES ASSUME NEW q \in Registered', Idle(q)' PROVE Watched(q)'
    BY IdleIsWatched
  <2>1. q \in Registered /\ q \in Pipes
    BY <1>2 DEF Registered, store
  <2>2. CASE q = p
    <3>1. label = "release"
      BY <1>9, <2>2 DEF Idle
    <3> QED BY <1>1, <1>2, <1>8, <2>2, <3>1 DEF Watched, store, p
  <2>3. CASE q # p
    <3>1. Idle(q)
      BY <1>2, <1>9, <2>1, <2>3 DEF Idle
    <3>2. Watched(q)
      BY <2>1, <3>1, IdleIsWatched
    <3> QED BY <1>1, <1>2, <1>8, <3>2, WatchedKept DEF store
  <2> QED BY <2>2, <2>3
<1>17. RegisteredFollowsProfile'
  <2>1. \A q \in Pipes : supply'[q] = "on" /\ spec'[q] # None =>
          supply[q] = "on" /\ spec'[q] = spec[q]
    BY <1>7, <1>9
  <2> QED BY <1>2, <2>1, FollowsKept DEF Registration, store
<1> QED BY <1>11, <1>12, <1>13, <1>14, <1>15, <1>16, <1>17

-----------------------------------------------------------------------------
(* Operators, pollers and Brave, which hold no p.mu and serve no pipeline. *)
LEMMA OthersDoNotServe ==
  ASSUME RegistryInv,
         \A th \in Workers : pc'[th] = pc[th],
         UNCHANGED <<pmu, registry, keyOf, tracks, at, back>>,
         \A p \in Pipes : supply'[p] = "off" <=> supply[p] = "off"
  PROVE  PoolInv' /\ AllocInv' /\ ServeInv' /\ IdleIsReleased'
<1> USE DEF RegistryInv
<1>1. PoolInv'
  <2>1. Allocated' = Allocated /\ Arrived' = Arrived
        /\ Busy' = Busy /\ Through' = Through
    BY DEF Allocated, Arrived, Busy, Through, Workers
  <2> QED BY <2>1, PoolKept
<1>2. AllocInv'
  BY DEF AllocInv
<1>3. ServeInv'
  <2>1. \A th \in Workers, q \in Pipes : Serves(th, q)' => Serves(th, q)
    BY DEF Serves, Encoding
  <2> QED BY <2>1 DEF ServeInv
<1>4. IdleIsReleased'
  <2> SUFFICES ASSUME NEW q \in Registered', Idle(q)' PROVE Watched(q)'
    BY IdleIsWatched
  <2>1. q \in Registered /\ Idle(q)
    BY DEF Registered, Idle
  <2>2. Watched(q)
    BY <2>1, IdleIsWatched
  <2> QED BY <2>2, WatchedKept
<1> QED BY <1>1, <1>2, <1>3, <1>4

(* Who holds a lock over a call goes on holding it.                        *)
LEMMA OthersKeepLocks ==
  ASSUME RegistryInv,
         \A th \in Workers : pc'[th] = pc[th],
         \A q \in Pollers : pc'[q] = pc[q],
         UNCHANGED <<locks, registry, keyOf, at>>
  PROVE  LockInv'
  BY DEF RegistryInv, LockInv, locks

(* An operator or a poller goes to one of its places.                      *)
LEMMA OtherGoes ==
  ASSUME TypeOK, NEW o \in Operators \cup Pollers,
         NEW label \in {"idle", "resize", "apply", "restart", "poll"}, Goto(o, label)
  PROVE  /\ pc'[o] = label /\ PlacesOK'
         /\ \A th \in Threads : th # o => pc'[th] = pc[th]
         /\ \A th \in Workers : pc'[th] = pc[th]
         /\ \A th \in Operators \cup Pollers : th # o => pc'[th] = pc[th]
<1>1. o \in Threads /\ o \notin Workers
  BY Apart DEF Threads
<1>2. /\ pc'[o] = label
      /\ \A th \in Threads : th # o => pc'[th] = pc[th]
  BY <1>1 DEF TypeOK, Goto
<1>3. /\ \A th \in Workers : pc'[th] = pc[th]
      /\ \A th \in Operators \cup Pollers : th # o => pc'[th] = pc[th]
  BY <1>1, <1>2, Apart DEF Threads
<1>4. PlacesOK'
  BY <1>3 DEF PlacesOK, TypeOK, Goto, Workers
<1> QED BY <1>2, <1>3, <1>4

(* Stats takes b.mu when nobody is inside release.                         *)
LEMMA PollStep ==
  ASSUME RegistryInv, NEW q \in Pollers, Poll(q)
  PROVE  RegistryInv'
<1> USE DEF RegistryInv
<1>1. /\ pc[q] = "idle" /\ bmu = None /\ bmu' = q /\ Goto(q, "poll")
      /\ todo' = [todo EXCEPT ![q] = Registered]
      /\ sum' = [sum EXCEPT ![q] = retired]
      /\ UNCHANGED <<pmu, store, pipes, at, back, reported, spent>>
  BY DEF Poll
<1>2. /\ pc'[q] = "poll" /\ PlacesOK'
      /\ \A th \in Workers : pc'[th] = pc[th]
      /\ \A th \in Operators \cup Pollers : th # q => pc'[th] = pc[th]
  BY <1>1, OtherGoes
<1>3. TypeOK'
  <2>1. todo' \in [Operators \cup Pollers -> SUBSET Pipes]
    BY <1>1 DEF TypeOK, Registered
  <2>2. sum' \in [Pollers -> Nat] /\ q \in Threads
    BY <1>1 DEF TypeOK, Threads
  <2> QED BY <1>1, <1>2, <2>1, <2>2 DEF TypeOK, PlacesOK, store, pipes
<1>4. PoolInv' /\ AllocInv' /\ ServeInv' /\ IdleIsReleased'
  BY <1>1, <1>2, OthersDoNotServe DEF store, pipes
<1>5. LockInv'
  <2>1. \A th \in Workers : pc[th] \notin {"inspect", "retire"}
    BY <1>1, NobodyInside, Apart
  <2>2. \A other \in Pollers : other # q => pc'[other] # "poll"
    BY <1>1, <1>2, Apart DEF LockInv
  <2> QED BY <1>1, <1>2, <2>1, <2>2 DEF LockInv, store
<1>6. RegisteredFollowsProfile'
  <2>1. \A o \in Operators : todo'[o] = todo[o]
    BY <1>1, Apart DEF TypeOK
  <2>2. Registered' = Registered
    BY <1>1 DEF Registered, store
  <2> QED BY <1>1, <2>1, <2>2 DEF RegisteredFollowsProfile, store, pipes
<1> QED BY <1>3, <1>4, <1>5, <1>6

(* Stats reads a pipeline.                                                 *)
LEMMA VisitStep ==
  ASSUME RegistryInv, NEW q \in Pollers, NEW p \in Pipes, Visit(q, p)
  PROVE  RegistryInv'
<1> USE DEF RegistryInv
<1>1. /\ todo' = [todo EXCEPT ![q] = @ \ {p}]
      /\ sum' = [sum EXCEPT ![q] = @ + starts[p]]
      /\ UNCHANGED <<locks, store, pipes, pc, at, back, reported, spent>>
  BY DEF Visit
<1>2. TypeOK'
  <2>1. todo' \in [Operators \cup Pollers -> SUBSET Pipes]
    BY <1>1 DEF TypeOK
  <2>2. sum' \in [Pollers -> Nat]
    BY <1>1 DEF TypeOK
  <2> QED BY <1>1, <2>1, <2>2 DEF TypeOK, locks, store, pipes
<1>3. PoolInv' /\ AllocInv' /\ ServeInv' /\ IdleIsReleased'
  BY <1>1, OthersDoNotServe DEF locks, store, pipes
<1>4. LockInv'
  BY <1>1, OthersKeepLocks DEF store
<1>5. RegisteredFollowsProfile'
  <2>1. \A o \in Operators : todo'[o] = todo[o]
    BY <1>1, Apart DEF TypeOK
  <2>2. Registered' = Registered
    BY <1>1 DEF Registered, store
  <2> QED BY <1>1, <2>1, <2>2 DEF RegisteredFollowsProfile, store, pipes
<1> QED BY <1>2, <1>3, <1>4, <1>5

(* Stats gives b.mu back.                                                  *)
LEMMA PollDoneStep ==
  ASSUME RegistryInv, NEW q \in Pollers, PollDone(q)
  PROVE  RegistryInv'
<1> USE DEF RegistryInv
<1>1. /\ pc[q] = "poll" /\ bmu' = None /\ Goto(q, "idle")
      /\ reported' = sum[q] /\ sum' = [sum EXCEPT ![q] = 0]
      /\ UNCHANGED <<pmu, store, pipes, at, back, todo, spent>>
  BY DEF PollDone
<1>2. /\ pc'[q] = "idle" /\ PlacesOK'
      /\ \A th \in Workers : pc'[th] = pc[th]
      /\ \A th \in Operators \cup Pollers : th # q => pc'[th] = pc[th]
  BY <1>1, OtherGoes
<1>3. TypeOK'
  <2>1. sum' \in [Pollers -> Nat] /\ reported' \in Nat
    BY <1>1 DEF TypeOK
  <2> QED BY <1>1, <1>2, <2>1 DEF TypeOK, PlacesOK, store, pipes
<1>4. PoolInv' /\ AllocInv' /\ ServeInv' /\ IdleIsReleased'
  BY <1>1, <1>2, OthersDoNotServe DEF store, pipes
<1>5. LockInv'
  <2>1. bmu = q
    BY <1>1 DEF LockInv
  <2>2. \A th \in Workers : pc[th] \notin {"inspect", "retire"}
    BY <2>1, NobodyInside, Apart
  <2>3. \A other \in Pollers : pc'[other] # "poll"
    BY <1>2, <2>1 DEF LockInv
  <2> QED BY <1>1, <1>2, <2>2, <2>3 DEF LockInv, store
<1>6. RegisteredFollowsProfile'
  BY <1>1, FollowsKept DEF Registration, store, pipes
<1> QED BY <1>3, <1>4, <1>5, <1>6

(* SetProfile has every registered pipeline restarted.                     *)
LEMMA SetProfileStep ==
  ASSUME RegistryInv, NEW o \in Operators, NEW f \in Profiles, SetProfile(o, f)
  PROVE  RegistryInv' /\ profile' = f
<1> USE DEF RegistryInv
<1>1. UNCHANGED <<locks, registry, keyOf, retired, pipes, at, back, polls, spent>>
  BY DEF SetProfile
<1>2. CASE f # profile
  <2>1. /\ profile' = f /\ Goto(o, "restart")
        /\ todo' = [todo EXCEPT ![o] = Registered]
    BY <1>2 DEF SetProfile, RestartTargets
  <2>2. /\ PlacesOK' /\ \A th \in Workers : pc'[th] = pc[th]
        /\ \A th \in Operators \cup Pollers : th # o => pc'[th] = pc[th]
    BY <2>1, OtherGoes
  <2>3. todo' \in [Operators \cup Pollers -> SUBSET Pipes] /\ todo'[o] = Registered
    BY <2>1 DEF TypeOK, Registered
  <2>4. TypeOK'
    BY <1>1, <2>1, <2>2, <2>3 DEF TypeOK, PlacesOK, locks, pipes, polls
  <2>5. PoolInv' /\ AllocInv' /\ ServeInv' /\ IdleIsReleased'
    BY <1>1, <2>2, OthersDoNotServe DEF locks, pipes
  <2>6. LockInv'
    BY <1>1, <2>2, OthersKeepLocks, Apart
  <2>7. RegisteredFollowsProfile'
    <3>1. Registered' = todo'[o]
      BY <1>1, <2>3 DEF Registered
    <3> QED BY <3>1 DEF RegisteredFollowsProfile
  <2> QED BY <2>1, <2>4, <2>5, <2>6, <2>7
<1>3. CASE f = profile
  <2>1. UNCHANGED <<profile, todo>> /\ Goto(o, "idle")
    BY <1>3 DEF SetProfile
  <2>2. /\ PlacesOK' /\ \A th \in Workers : pc'[th] = pc[th]
        /\ \A th \in Operators \cup Pollers : th # o => pc'[th] = pc[th]
    BY <2>1, OtherGoes
  <2>3. TypeOK'
    BY <1>1, <2>1, <2>2 DEF TypeOK, PlacesOK, locks, pipes, polls
  <2>4. PoolInv' /\ AllocInv' /\ ServeInv' /\ IdleIsReleased'
    BY <1>1, <2>2, OthersDoNotServe DEF locks, pipes
  <2>5. LockInv'
    BY <1>1, <2>2, OthersKeepLocks, Apart
  <2>6. RegisteredFollowsProfile'
    BY <1>1, <2>1, FollowsKept DEF Registration, pipes
  <2> QED BY <1>3, <2>1, <2>3, <2>4, <2>5, <2>6
<1> QED BY <1>2, <1>3

(* restart cancels an encoder and starts none.                             *)
LEMMA RestartStep ==
  ASSUME RegistryInv, NEW o \in Operators, NEW p \in Pipes, Restart(o, p)
  PROVE  RegistryInv'
<1> USE DEF RegistryInv
<1>1. /\ todo' = [todo EXCEPT ![o] = @ \ {p}]
      /\ supply' = [supply EXCEPT ![p] = IF @ = "on" THEN "stopping" ELSE @]
      /\ UNCHANGED <<locks, store, tracks, spec, starts, pc, at, back, polls, spent>>
  BY DEF Restart
<1>2. /\ \A q \in Pipes : /\ supply'[q] = "off" <=> supply[q] = "off"
                          /\ supply'[q] = "on" => supply[q] = "on" /\ q # p
      /\ \A th \in Operators, q \in Pipes : q # p => (q \in todo'[th] <=> q \in todo[th])
  BY <1>1 DEF TypeOK
<1>3. TypeOK'
  <2>1. todo' \in [Operators \cup Pollers -> SUBSET Pipes]
    BY <1>1 DEF TypeOK
  <2>2. supply' \in [Pipes -> {"off", "on", "stopping"}]
    BY <1>1 DEF TypeOK
  <2> QED BY <1>1, <2>1, <2>2 DEF TypeOK, locks, store, polls
<1>4. PoolInv' /\ AllocInv' /\ ServeInv' /\ IdleIsReleased'
  BY <1>1, <1>2, OthersDoNotServe DEF locks, store
<1>5. LockInv'
  BY <1>1, OthersKeepLocks DEF store
<1>6. RegisteredFollowsProfile'
  <2>1. Registered' = Registered /\ Registered \subseteq Pipes
    BY <1>1 DEF Registered, store
  <2> QED BY <1>1, <1>2, <2>1 DEF RegisteredFollowsProfile, store
<1> QED BY <1>3, <1>4, <1>5, <1>6

(* An operator that only goes from one place to another.                   *)
LEMMA OperatorMoves ==
  ASSUME RegistryInv, NEW o \in Operators,
         NEW label \in {"idle", "resize", "apply", "restart"}, Goto(o, label),
         spent' \in [changes : 0..MaxChanges, crashes : 0..MaxCrashes,
                     writes : 0..MaxWriteFailures],
         UNCHANGED <<locks, store, pipes, at, back, todo, polls>>
  PROVE  RegistryInv'
<1> USE DEF RegistryInv
<1>1. /\ PlacesOK' /\ \A th \in Workers : pc'[th] = pc[th]
      /\ \A th \in Operators \cup Pollers : th # o => pc'[th] = pc[th]
  BY OtherGoes
<1>2. TypeOK'
  BY <1>1 DEF TypeOK, PlacesOK, locks, store, pipes, polls
<1>3. PoolInv' /\ AllocInv' /\ ServeInv' /\ IdleIsReleased'
  BY <1>1, OthersDoNotServe DEF locks, store, pipes
<1>4. LockInv'
  BY <1>1, OthersKeepLocks, Apart DEF store
<1>5. RegisteredFollowsProfile'
  BY FollowsKept DEF Registration, store, pipes
<1> QED BY <1>2, <1>3, <1>4, <1>5

(* Steps that are none of the registry's.                                  *)
LEMMA RegistryUnchanged ==
  ASSUME RegistryInv, UNCHANGED vars
  PROVE  RegistryInv'
<1> USE DEF RegistryInv, vars
<1>1. TypeOK'
  BY DEF TypeOK, locks, store, pipes, polls
<1>2. PoolInv' /\ AllocInv' /\ ServeInv' /\ IdleIsReleased'
  BY OthersDoNotServe DEF locks, store, pipes
<1>3. LockInv'
  BY OthersKeepLocks DEF store
<1>4. RegisteredFollowsProfile'
  BY FollowsKept DEF Registration, store, pipes
<1> QED BY <1>1, <1>2, <1>3, <1>4

-----------------------------------------------------------------------------
(* Nothing is registered when the server starts.                           *)
LEMMA RegistryStart ==
  ASSUME Init
  PROVE  RegistryInv
<1> USE DEF Init
<1>1. /\ \A v \in Viewers : v \in Threads /\ pc[v] = "new"
      /\ \A e \in Encoders : e \in Threads /\ pc[e] = "free"
      /\ \A o \in Operators \cup Pollers : o \in Threads /\ pc[o] = "idle"
  BY Apart DEF Threads, Workers
<1>2. TypeOK
  <2>1. pc \in [Threads -> ViewerLabels \cup EncoderLabels
                             \cup {"idle", "resize", "apply", "restart", "poll"}]
    BY DEF ViewerLabels, EncoderLabels
  <2>2. /\ \A v \in Viewers : pc[v] \in ViewerLabels
        /\ \A e \in Encoders : pc[e] \in EncoderLabels
    BY <1>1 DEF ViewerLabels, EncoderLabels
  <2>3. spent \in [changes : 0..MaxChanges, crashes : 0..MaxCrashes,
                   writes : 0..MaxWriteFailures]
    BY BroadcasterAssumption
  <2>4. profile \in Profiles
    BY BroadcasterAssumption
  <2> QED BY <2>1, <2>2, <2>3, <2>4 DEF TypeOK
<1>3. PoolInv
  <2>1. Allocated = {} /\ Arrived = {} /\ Busy = {} /\ Through = {}
    BY <1>1 DEF Allocated, Arrived, Busy, Through
  <2>2. Cardinality({}) = 0
    BY FS_EmptySet
  <2> QED BY <2>1, <2>2 DEF PoolInv
<1>4. AllocInv
  BY <1>1 DEF AllocInv, Workers
<1>5. LockInv
  BY <1>1 DEF LockInv, Workers
<1>6. ServeInv
  BY <1>1 DEF ServeInv, Serves, Encoding, Workers
<1>7. Registered = {}
  BY Apart DEF Registered
<1>8. IdleIsReleased /\ RegisteredFollowsProfile
  BY <1>7 DEF IdleIsReleased, RegisteredFollowsProfile
<1> QED BY <1>2, <1>3, <1>4, <1>5, <1>6, <1>8 DEF RegistryInv

(* An encoder waits, begins, is stopped or dies.                           *)
LEMMA EncoderStep ==
  ASSUME RegistryInv, NEW e \in Encoders,
         Wait(e) \/ Begin(e) \/ Stop(e) \/ Crash(e)
  PROVE  RegistryInv'
<1>1. /\ spent \in [changes : 0..MaxChanges, crashes : 0..MaxCrashes,
                    writes : 0..MaxWriteFailures]
      /\ starts \in [Pipes -> Nat]
  BY DEF RegistryInv, TypeOK
<1>2. CASE Wait(e)
  <2>1. /\ spent' = spent /\ starts' = starts
        /\ UNCHANGED <<locks, store, tracks, supply, spec, at, back, todo, polls>>
        /\ pc[e] = "wait" /\ (Goto(e, "start") \/ Goto(e, "stopped"))
    BY <1>2 DEF Wait, pipes
  <2> QED BY <1>1, <2>1, EncoderMoves
<1>3. CASE Begin(e)
  <2>1. /\ spent' = spent /\ starts' = [starts EXCEPT ![at[e]] = @ + 1]
        /\ UNCHANGED <<locks, store, tracks, supply, spec, at, back, todo, polls>>
        /\ pc[e] = "start" /\ Goto(e, "run")
    BY <1>3 DEF Begin
  <2>2. at[e] \in Pipes
    BY <2>1 DEF RegistryInv, AllocInv, Workers
  <2>3. starts' \in [Pipes -> Nat]
    BY <1>1, <2>1, <2>2
  <2> QED BY <1>1, <2>1, <2>3, EncoderMoves
<1>4. CASE Stop(e)
  <2>1. /\ spent' = spent /\ starts' = starts
        /\ UNCHANGED <<locks, store, tracks, supply, spec, at, back, todo, polls>>
        /\ pc[e] = "run" /\ (Goto(e, "stopped") \/ Goto(e, "failed"))
    BY <1>4 DEF Stop, pipes
  <2> QED BY <1>1, <2>1, EncoderMoves
<1>5. CASE Crash(e)
  <2>1. /\ spent.crashes < MaxCrashes /\ spent' = [spent EXCEPT !.crashes = @ + 1]
        /\ starts' = starts
        /\ UNCHANGED <<locks, store, tracks, supply, spec, at, back, todo, polls>>
        /\ pc[e] = "run" /\ Goto(e, "failed")
    BY <1>5 DEF Crash, pipes
  <2>2. spent.crashes + 1 \in 0..MaxCrashes
    BY <1>1, <2>1, BroadcasterAssumption
  <2>3. spent' \in [changes : 0..MaxChanges, crashes : 0..MaxCrashes,
                    writes : 0..MaxWriteFailures]
    BY <1>1, <2>1, <2>2
  <2> QED BY <1>1, <2>1, <2>3, EncoderMoves
<1> QED BY <1>2, <1>3, <1>4, <1>5

(* The steps of Next, which are those of Broadcaster and AudioBroadcaster. *)
LEMMA RegistryStep ==
  ASSUME RegistryInv, [Next]_vars
  PROVE  RegistryInv'
<1>1. ASSUME NEW v \in Viewers, (\E k \in Keys : Lookup(v, k)) \/ Attach(v) \/ Detach(v)
      PROVE  RegistryInv'
  BY <1>1, LookupStep, AttachStep, DetachStep
<1>2. ASSUME NEW th \in Workers, Source(th) \/ Release(th) \/ Inspect(th) \/ Retire(th)
      PROVE  RegistryInv'
  BY <1>2, ViewerSourceStep, EncoderSourceStep, ReleaseStep, InspectStep, RetireStep
     DEF Workers
<1>3. ASSUME NEW e \in Encoders,
             \/ Wait(e) \/ Begin(e) \/ Stop(e) \/ Crash(e) \/ Finish(e)
             \/ \E v \in Viewers : WriteFails(e, v)
      PROVE  RegistryInv'
  BY <1>3, EncoderStep, FinishStep, WriteFailsStep
<1>4. ASSUME NEW q \in Pollers, Poll(q) \/ (\E p \in Pipes : Visit(q, p)) \/ PollDone(q)
      PROVE  RegistryInv'
  BY <1>4, PollStep, VisitStep, PollDoneStep
<1>5. CASE UNCHANGED vars
  BY <1>5, RegistryUnchanged
<1> QED BY <1>1, <1>2, <1>3, <1>4, <1>5 DEF Next, Workers

(* What Quality tells of the window.                                       *)
WindowInv ==
  /\ window \in {StartSize} \cup {SizeFor(f) : f \in Profiles}
  /\ asked \in [Operators -> Profiles \cup {None}]
  /\ resizedBy \in Operators \cup {None}
  /\ settled \in BOOLEAN
  /\ \A o \in Operators : pc[o] \in {"resize", "apply"} => asked[o] \in Profiles
  /\ \A o \in Operators : resizedBy = o =>
       pc[o] = "apply" /\ window = SizeFor(asked[o])
  /\ settled => window = SizeFor(profile)

QualityInv == RegistryInv /\ WindowInv

(* The steps of Next are none of an operator's.                            *)
LEMMA OperatorsWait ==
  ASSUME RegistryInv, [Next]_vars
  PROVE  /\ \A o \in Operators : pc'[o] = pc[o]
         /\ UNCHANGED profile
<1> USE DEF RegistryInv
<1>1. ASSUME NEW th \in Workers \cup Pollers, NEW label, Goto(th, label)
      PROVE  \A o \in Operators : pc'[o] = pc[o]
  BY <1>1, Apart DEF Goto, TypeOK, Threads
<1>2. ASSUME NEW th \in Workers, Return(th)
      PROVE  \A o \in Operators : pc'[o] = pc[o]
  BY <1>1, <1>2, Returns
<1>3. ASSUME NEW v \in Viewers, (\E k \in Keys : Lookup(v, k)) \/ Attach(v) \/ Detach(v)
      PROVE  (\A o \in Operators : pc'[o] = pc[o]) /\ UNCHANGED profile
  <2>1. v \in Workers
    BY DEF Workers
  <2>2. UNCHANGED profile
    BY <1>3 DEF Lookup, Attach, Detach, store
  <2>3. \E label : Goto(v, label)
    BY <1>3 DEF Lookup, Attach, StartLocked, Detach, Remove, ReportIdle
  <2> QED BY <1>1, <2>1, <2>2, <2>3
<1>4. ASSUME NEW th \in Workers, Source(th)
      PROVE  (\A o \in Operators : pc'[o] = pc[o]) /\ UNCHANGED profile
  <2>1. UNCHANGED profile
    BY <1>4 DEF Source, store
  <2>2. CASE th \in Encoders
    BY <1>4, <2>2, Apart DEF Source, Spawn, TypeOK, Threads, Workers
  <2>3. CASE th \in Viewers
    <3>1. pc[th] = "source" /\ th \notin Encoders
      BY <1>4, <2>3, Apart DEF Source, TypeOK, ViewerLabels
    <3>2. PICK e \in Encoders : e = CHOOSE f \in Encoders : pc[f] = "free"
      BY <2>3, <3>1, FreeEncoder
    <3>3. pc' = [pc EXCEPT ![th] = "attached", ![e] = "start"]
      BY <1>4, <3>1, <3>2 DEF Source, Spawn
    <3>4. \A o \in Operators : o # th /\ o # e /\ o \in Threads
      BY Apart DEF Threads, Workers
    <3> QED BY <2>1, <3>3, <3>4 DEF TypeOK
  <2> QED BY <2>2, <2>3 DEF Workers
<1>5. ASSUME NEW th \in Workers, Release(th) \/ Inspect(th) \/ Retire(th)
      PROVE  (\A o \in Operators : pc'[o] = pc[o]) /\ UNCHANGED profile
  <2>1. UNCHANGED profile
    BY <1>5 DEF Release, Inspect, Retire, store
  <2>2. Return(th) \/ \E label : Goto(th, label)
    BY <1>5 DEF Release, Inspect, Retire
  <2> QED BY <1>1, <1>2, <2>1, <2>2
<1>6. ASSUME NEW e \in Encoders,
             \/ Wait(e) \/ Begin(e) \/ Stop(e) \/ Crash(e) \/ Finish(e)
             \/ \E v \in Viewers : WriteFails(e, v)
      PROVE  (\A o \in Operators : pc'[o] = pc[o]) /\ UNCHANGED profile
  <2>1. e \in Workers
    BY DEF Workers
  <2>2. UNCHANGED profile
    BY <1>6 DEF Wait, Begin, Stop, Crash, Finish, WriteFails, store
  <2>3. \E label : Goto(e, label)
    BY <1>6 DEF Wait, Begin, Stop, Crash, Finish, StartLocked, WriteFails, Remove,
                ReportIdle
  <2> QED BY <1>1, <2>1, <2>2, <2>3
<1>7. ASSUME NEW q \in Pollers, Poll(q) \/ (\E p \in Pipes : Visit(q, p)) \/ PollDone(q)
      PROVE  (\A o \in Operators : pc'[o] = pc[o]) /\ UNCHANGED profile
  <2>1. UNCHANGED profile
    BY <1>7 DEF Poll, Visit, PollDone, store
  <2>2. UNCHANGED pc \/ \E label : Goto(q, label)
    BY <1>7 DEF Poll, Visit, PollDone
  <2> QED BY <1>1, <2>1, <2>2
<1>8. CASE UNCHANGED vars
  BY <1>8 DEF vars, store
<1> QED BY <1>3, <1>4, <1>5, <1>6, <1>7, <1>8 DEF Next, Workers

(* An operator that is through with its request, or has none.              *)
NothingApplied ==
  \A o \in Operators :
    pc'[o] \in {pc[o], "idle"} /\ (pc'[o] # pc[o] => pc[o] # "apply")

(* The window stays what it was while no request gets on.                  *)
LEMMA WindowKept ==
  ASSUME WindowInv, windowVars' = windowVars, profile' = profile,
         NothingApplied
  PROVE  WindowInv'
  BY DEF NothingApplied, WindowInv, windowVars

(* Every step of a request to POST /quality, which may overlap with        *)
(* others.                                                                 *)
LEMMA RequestStep ==
  ASSUME QualityInv, NEW o \in Operators, Request(o)
  PROVE  QualityInv'
<1> USE DEF QualityInv
<1>1. /\ TypeOK /\ o \in Operators \cup Pollers /\ o # None
      /\ spent \in [changes : 0..MaxChanges, crashes : 0..MaxCrashes,
                     writes : 0..MaxWriteFailures]
  BY Apart DEF RegistryInv, TypeOK
<1>2. ASSUME NEW label \in {"idle", "resize", "apply", "restart"}, Goto(o, label)
      PROVE  pc'[o] = label /\ \A p \in Operators : p # o => pc'[p] = pc[p]
  BY <1>1, <1>2, OtherGoes
<1>3. ASSUME NEW f \in Profiles, Ask(o, f)
      PROVE  QualityInv'
  <2>1. /\ pc[o] = "idle" /\ spent.changes < MaxChanges /\ Goto(o, "resize")
        /\ spent' = [spent EXCEPT !.changes = @ + 1]
        /\ asked' = [asked EXCEPT ![o] = f]
        /\ UNCHANGED <<locks, store, pipes, at, back, todo, polls, window, resizedBy,
                       settled>>
    BY <1>3 DEF Ask
  <2>2. spent.changes + 1 \in 0..MaxChanges
    BY <1>1, <2>1, BroadcasterAssumption
  <2>3. spent' \in [changes : 0..MaxChanges, crashes : 0..MaxCrashes,
                    writes : 0..MaxWriteFailures]
    BY <1>1, <2>1, <2>2
  <2>4. RegistryInv'
    BY <2>1, <2>3, OperatorMoves
  <2>5. pc'[o] = "resize" /\ \A p \in Operators : p # o => pc'[p] = pc[p]
    BY <1>2, <2>1
  <2>6. WindowInv'
    BY <2>1, <2>5 DEF WindowInv, store
  <2> QED BY <2>4, <2>6
<1>4. CASE Resize(o)
  <2>1. /\ pc[o] = "resize" /\ Goto(o, "apply")
        /\ window' = SizeFor(asked[o]) /\ resizedBy' = o /\ settled' = FALSE
        /\ UNCHANGED <<locks, store, pipes, at, back, todo, polls, spent, asked>>
    BY <1>4 DEF Resize, Resized
  <2>2. RegistryInv'
    BY <1>1, <2>1, OperatorMoves
  <2>3. pc'[o] = "apply" /\ \A p \in Operators : p # o => pc'[p] = pc[p]
    BY <1>2, <2>1
  <2>4. WindowInv'
    BY <2>1, <2>3 DEF WindowInv, store
  <2> QED BY <2>2, <2>4
<1>5. CASE ResizeFails(o)
  <2>1. /\ pc[o] = "resize" /\ Goto(o, "idle")
        /\ asked' = [asked EXCEPT ![o] = None]
        /\ \/ UNCHANGED <<window, resizedBy, settled>>
           \/ window' = SizeFor(asked[o]) /\ resizedBy' = None /\ settled' = FALSE
        /\ UNCHANGED <<locks, store, pipes, at, back, todo, polls, spent>>
    BY <1>5 DEF ResizeFails, Resized
  <2>2. RegistryInv'
    BY <1>1, <2>1, OperatorMoves
  <2>3. pc'[o] = "idle" /\ \A p \in Operators : p # o => pc'[p] = pc[p]
    BY <1>2, <2>1
  <2>4. /\ asked' \in [Operators -> Profiles \cup {None}]
        /\ \A p \in Operators : p # o => asked'[p] = asked[p]
    BY <2>1 DEF WindowInv
  <2>5. /\ \A p \in Operators : pc'[p] \in {"resize", "apply"} => asked'[p] \in Profiles
        /\ profile' = profile
    BY <2>1, <2>3, <2>4 DEF WindowInv, store
  <2>6. CASE UNCHANGED <<window, resizedBy, settled>>
    <3>1. \A p \in Operators : resizedBy' = p =>
            pc'[p] = "apply" /\ window' = SizeFor(asked'[p])
      BY <2>1, <2>3, <2>4, <2>6 DEF WindowInv
    <3> QED BY <2>1, <2>2, <2>4, <2>5, <2>6, <3>1 DEF WindowInv
  <2>7. CASE window' = SizeFor(asked[o]) /\ resizedBy' = None /\ settled' = FALSE
    <3>1. asked[o] \in Profiles
      BY <2>1 DEF WindowInv
    <3> QED BY <2>2, <2>4, <2>5, <2>7, <3>1, Apart DEF WindowInv
  <2> QED BY <2>1, <2>6, <2>7
<1>6. CASE Apply(o)
  <2>1. /\ pc[o] = "apply" /\ SetProfile(o, asked[o])
        /\ asked' = [asked EXCEPT ![o] = None] /\ settled' = (resizedBy = o)
        /\ resizedBy' = IF resizedBy = o THEN None ELSE resizedBy
        /\ UNCHANGED window
    BY <1>6 DEF Apply
  <2>2. asked[o] \in Profiles
    BY <2>1 DEF WindowInv
  <2>3. RegistryInv' /\ profile' = asked[o]
    BY <2>1, <2>2, SetProfileStep
  <2>4. /\ pc'[o] # "resize" /\ pc'[o] # "apply"
        /\ \A p \in Operators : p # o => pc'[p] = pc[p]
    <3>1. Goto(o, "restart") \/ Goto(o, "idle")
      BY <2>1 DEF SetProfile
    <3> QED BY <1>2, <3>1
  <2>5. /\ asked' \in [Operators -> Profiles \cup {None}]
        /\ \A p \in Operators : p # o => asked'[p] = asked[p]
    BY <2>1 DEF WindowInv
  <2>6. settled' \in BOOLEAN
    BY <2>1
  <2>7. settled' => window' = SizeFor(profile')
    BY <2>1, <2>3 DEF WindowInv
  <2>8. /\ resizedBy' \in Operators \cup {None}
        /\ \A p \in Operators : resizedBy' = p =>
             pc'[p] = "apply" /\ window' = SizeFor(asked'[p])
    BY <2>1, <2>4, <2>5, Apart DEF WindowInv
  <2>9. WindowInv'
    BY <2>1, <2>4, <2>5, <2>6, <2>7, <2>8 DEF WindowInv
  <2> QED BY <2>3, <2>9
<1>7. CASE ((\E p \in Pipes : Restart(o, p)) \/ SetProfileDone(o)) /\ UNCHANGED windowVars
  <2>1. CASE \E p \in Pipes : Restart(o, p)
    <3>1. UNCHANGED pc /\ UNCHANGED profile
      BY <2>1 DEF Restart, store
    <3>2. RegistryInv'
      BY <2>1, RestartStep
    <3>3. NothingApplied
      BY <3>1 DEF NothingApplied
    <3>4. WindowInv'
      BY <1>7, <3>1, <3>3, WindowKept
    <3> QED BY <3>2, <3>4
  <2>2. CASE SetProfileDone(o)
    <3>1. /\ pc[o] = "restart" /\ Goto(o, "idle") /\ UNCHANGED profile
          /\ UNCHANGED <<locks, store, pipes, at, back, todo, polls, spent>>
      BY <2>2 DEF SetProfileDone, store
    <3>2. RegistryInv'
      BY <1>1, <3>1, OperatorMoves
    <3>3. pc'[o] = "idle" /\ \A p \in Operators : p # o => pc'[p] = pc[p]
      BY <1>2, <3>1
    <3>4. NothingApplied
      BY <3>1, <3>3 DEF NothingApplied
    <3>5. WindowInv'
      BY <1>7, <3>1, <3>4, WindowKept
    <3> QED BY <3>2, <3>5
  <2> QED BY <1>7, <2>1, <2>2
<1> QED BY <1>3, <1>4, <1>5, <1>6, <1>7 DEF Request

(* Every step of Quality.                                                  *)
LEMMA QualityStep ==
  ASSUME QualityInv, [QualityNext]_qualityVars
  PROVE  QualityInv'
<1> USE DEF QualityInv
<1>1. CASE [Next]_vars /\ UNCHANGED windowVars
  <2>1. RegistryInv'
    BY <1>1, RegistryStep
  <2>2. (\A o \in Operators : pc'[o] = pc[o]) /\ UNCHANGED profile
    BY <1>1, OperatorsWait
  <2>3. WindowInv'
    <3>1. NothingApplied
      BY <2>2 DEF NothingApplied
    <3> QED BY <1>1, <2>2, <3>1, WindowKept
  <2> QED BY <2>1, <2>3
<1>2. ASSUME NEW o \in Operators, Request(o) PROVE QualityInv'
  BY <1>2, RequestStep
<1>3. CASE RestartBrave
  <2>1. /\ window' = StartSize /\ resizedBy' = None /\ settled' = FALSE
        /\ UNCHANGED <<vars, asked>>
    BY <1>3 DEF RestartBrave
  <2>2. UNCHANGED <<pc, profile>>
    BY <2>1 DEF vars, store
  <2> QED BY <2>1, <2>2, RegistryUnchanged, Apart DEF WindowInv
<1> QED BY <1>1, <1>2, <1>3 DEF QualityNext, qualityVars

(* Brave starts with a window for the profile of the environment.          *)
LEMMA QualityStart ==
  ASSUME QualityInit
  PROVE  QualityInv
<1>1. RegistryInv
  BY RegistryStart DEF QualityInit
<1>2. \A o \in Operators : pc[o] = "idle"
  BY Apart DEF QualityInit, Init, Threads, Workers
<1>3. settled \in BOOLEAN /\ (settled => window = SizeFor(profile))
  BY DEF QualityInit, Init
<1>4. WindowInv
  BY <1>2, <1>3, Apart DEF QualityInit, WindowInv
<1> QED BY <1>1, <1>4 DEF QualityInv

(* The invariant all theorems about Quality follow from.                   *)
LEMMA QualityHolds == QualitySpec => []QualityInv
<1>1. QualityInit => QualityInv
  BY QualityStart
<1>2. QualityInv /\ [QualityNext]_qualityVars => QualityInv'
  BY QualityStep
<1> QED BY <1>1, <1>2, PTL DEF QualitySpec

(* The registry on its own, without requests for another quality: its      *)
(* invariant holds whether the source function takes b.mu (Broadcaster) or *)
(* not (AudioBroadcaster).                                                 *)
THEOREM RegistryHolds == SafeSpec => []RegistryInv
<1>1. Init => RegistryInv
  BY RegistryStart
<1>2. RegistryInv /\ [Next]_vars => RegistryInv'
  BY RegistryStep
<1> QED BY <1>1, <1>2, PTL DEF SafeSpec

(* The types of the registry, its threads, the requests and the window.    *)
THEOREM QualityTypeCorrect == QualitySpec => []QualityTypeOK
<1>1. QualityInv => QualityTypeOK
  BY DEF QualityInv, RegistryInv, WindowInv, QualityTypeOK
<1> QED BY <1>1, QualityHolds, PTL

(* No pipeline ever runs two encoders, and none that is not running has    *)
(* one, whoever starts, cancels and restarts it in whatever order.         *)
THEOREM OneEncoder == QualitySpec => []OneEncoderPerPipeline
<1>1. QualityInv => OneEncoderPerPipeline
  <2> SUFFICES ASSUME RegistryInv, NEW p \in Pipes
               PROVE  LET encoders == {e \in Encoders : at[e] = p /\ Encoding(e)} IN
                      /\ Cardinality(encoders) <= 1
                      /\ supply[p] = "off" => encoders = {}
    BY DEF QualityInv, OneEncoderPerPipeline
  <2> DEFINE encoders == {e \in Encoders : at[e] = p /\ Encoding(e)}
  <2>1. \A e \in encoders : e \in Workers /\ Serves(e, p)
    BY DEF Serves, Workers
  <2>2. \A e, f \in encoders : f = e
    BY <2>1 DEF RegistryInv, ServeInv
  <2>3. supply[p] = "off" => encoders = {}
    BY <2>1 DEF RegistryInv, ServeInv
  <2>4. Cardinality(encoders) <= 1
    <3>1. CASE encoders = {}
      BY <3>1, FS_EmptySet
    <3>2. CASE encoders # {}
      <4>1. PICK e : e \in encoders
        BY <3>2
      <4>2. encoders = {e}
        BY <2>2, <4>1
      <4> HIDE DEF encoders
      <4> QED BY <4>2, FS_Singleton
    <3> QED BY <3>1, <3>2
  <2> QED BY <2>3, <2>4
<1> QED BY <1>1, QualityHolds, PTL

(* SetProfile reaches every pipeline that is registered: an encoder of     *)
(* another profile is one that some operator has yet to restart.           *)
THEOREM FollowsProfile == QualitySpec => []RegisteredFollowsProfile
<1>1. QualityInv => RegisteredFollowsProfile
  BY DEF QualityInv, RegistryInv
<1> QED BY <1>1, QualityHolds, PTL

(* An idle pipeline does not stay in the registry unattended.              *)
THEOREM IdleReleased == QualitySpec => []IdleIsReleased
<1>1. QualityInv => IdleIsReleased
  BY DEF QualityInv, RegistryInv
<1> QED BY <1>1, QualityHolds, PTL

(* The request that resized the window last leaves it as the encoders      *)
(* capture it, for whatever requests overlapped with it or failed.         *)
THEOREM CaptureFits == QualitySpec => []CaptureFitsWindow
<1>1. QualityInv => CaptureFitsWindow
  BY DEF QualityInv, RegistryInv, WindowInv, RegisteredFollowsProfile, CaptureFitsWindow
<1> QED BY <1>1, QualityHolds, PTL

(* The budgets of every profile, for whatever ceilings are configured.     *)
THEOREM Budgets == QualitySpec => []BudgetsHold
<1>1. QualityInv => BudgetsHold
  BY BudgetsOfProfiles DEF QualityInv, RegistryInv, TypeOK, BudgetsHold
<1> QED BY <1>1, QualityHolds, PTL

(* Headers grow with the video they carry.                                 *)
LEMMA TotalMonotone ==
  ASSUME NEW s, NEW t,
         s.videoKbps \in Nat, t.videoKbps \in Nat, s.videoKbps <= t.videoKbps,
         s.audioKbps \in Nat \ {0}, t.audioKbps \in Nat, s.audioKbps <= t.audioKbps,
         s.audioFrameMillis = t.audioFrameMillis, t.audioFrameMillis \in {20, 60}
  PROVE  TotalKbps(s) <= TotalKbps(t)
<1>1. s.audioKbps > 0 /\ t.audioKbps > 0
  OBVIOUS
<1>2. CASE t.audioFrameMillis = 20
  <2>1. /\ HeaderKbps(s) = (19800 + 40 * s.videoKbps) \div 1200
        /\ HeaderKbps(t) = (19800 + 40 * t.videoKbps) \div 1200
    BY <1>1, <1>2 DEF HeaderKbps
  <2>2. /\ (19800 + 40 * s.videoKbps) \div 1200 \in Int
        /\ (19800 + 40 * t.videoKbps) \div 1200 \in Int
        /\ (19800 + 40 * s.videoKbps) \div 1200 <= (19800 + 40 * t.videoKbps) \div 1200
    OBVIOUS
  <2> QED BY <2>1, <2>2 DEF TotalKbps
<1>3. CASE t.audioFrameMillis = 60
  <2>1. /\ HeaderKbps(s) = (21000 + 120 * s.videoKbps) \div 3600
        /\ HeaderKbps(t) = (21000 + 120 * t.videoKbps) \div 3600
    BY <1>1, <1>3 DEF HeaderKbps
  <2>2. /\ (21000 + 120 * s.videoKbps) \div 3600 \in Int
        /\ (21000 + 120 * t.videoKbps) \div 3600 \in Int
        /\ (21000 + 120 * s.videoKbps) \div 3600 <= (21000 + 120 * t.videoKbps) \div 3600
    OBVIOUS
  <2> QED BY <2>1, <2>2 DEF TotalKbps
<1> QED BY <1>2, <1>3

(* The audio of a delivery under a ceiling of at most 32 kbps, and without *)
(* one.  Only the full delivery reads the ceiling as its budget.           *)
LEMMA AudioLowered ==
  ASSUME NEW c \in Configs, NEW d \in Configs, NEW delivery \in StreamProfiles,
         c.Profile = d.Profile,
         KbpsFromRate(c.AudioBitrate, 0) <= 32, d.AudioBitrate.number = 0
  PROVE  /\ Budget(c, delivery).videoKbps = Budget(d, delivery).videoKbps
         /\ Budget(c, delivery).audioFrameMillis = Budget(d, delivery).audioFrameMillis
         /\ Budget(d, delivery).audioFrameMillis \in {20, 60}
         /\ Ceiling(Budget(c, delivery).audioKbps, c.AudioBitrate) \in Nat \ {0}
         /\ Ceiling(Budget(c, delivery).audioKbps, c.AudioBitrate)
              <= Budget(d, delivery).audioKbps
<1> DEFINE rate == c.AudioBitrate
<1>1. rate \in Rates /\ d.AudioBitrate \in Rates
  BY DEF Configs
<1>2. /\ KbpsFromRate(rate, 0) \in Nat /\ KbpsFromRate(rate, 0) <= 32
      /\ KbpsFromRate(rate, 32) \in Nat \ {0}
  BY <1>1, RateType
<1>3. KbpsFromRate(d.AudioBitrate, 32) = 32
  BY <1>1 DEF KbpsFromRate
<1>4. KbpsFromRate(rate, 32) <= 32
  <2>1. CASE rate.number <= 0
    BY <2>1 DEF KbpsFromRate
  <2>2. CASE ~(rate.number <= 0)
    <3>1. rate.number \in Int /\ rate.unit \in {"k", "M", "bit"}
      BY <1>1 DEF Rates, Units
    <3>2. rate.number > 0
      BY <2>2, <3>1
    <3>3. CASE rate.unit = "k"
      BY <3>2, <3>3 DEF KbpsFromRate
    <3>4. CASE rate.unit = "M"
      BY <3>2, <3>4 DEF KbpsFromRate
    <3>5. CASE rate.unit = "bit"
      BY <3>2, <3>5 DEF KbpsFromRate
    <3> QED BY <3>1, <3>3, <3>4, <3>5
  <2> QED BY <2>1, <2>2
<1>5. ASSUME NEW kbps \in Nat \ {0}
      PROVE  Ceiling(kbps, rate) \in Nat \ {0} /\ Ceiling(kbps, rate) <= kbps
  BY <1>2 DEF Ceiling
<1>6. CASE delivery \in {"saver360", "saver480"}
  <2>1. /\ Budget(c, delivery).videoKbps = Budget(d, delivery).videoKbps
        /\ Budget(c, delivery).audioFrameMillis = Budget(d, delivery).audioFrameMillis
        /\ Budget(d, delivery).audioFrameMillis \in {20, 60}
        /\ Budget(c, delivery).audioKbps = Budget(d, delivery).audioKbps
        /\ Budget(d, delivery).audioKbps \in {16, 24}
    BY <1>6 DEF Budget
  <2> QED BY <1>5, <2>1
<1>7. CASE delivery = "full"
  <2>1. /\ Budget(c, delivery).videoKbps = LadderKbps(c.Profile)
        /\ Budget(d, delivery).videoKbps = LadderKbps(d.Profile)
        /\ Budget(c, delivery).audioFrameMillis = 20
        /\ Budget(d, delivery).audioFrameMillis = 20
        /\ Budget(c, delivery).audioKbps = KbpsFromRate(rate, 32)
        /\ Budget(d, delivery).audioKbps = KbpsFromRate(d.AudioBitrate, 32)
    BY <1>7 DEF Budget
  <2>2. /\ Ceiling(KbpsFromRate(rate, 32), rate) \in Nat \ {0}
        /\ Ceiling(KbpsFromRate(rate, 32), rate) <= KbpsFromRate(rate, 32)
    BY <1>2, <1>5
  <2>3. Ceiling(KbpsFromRate(rate, 32), rate) <= 32
    BY <1>2, <1>4, <2>2
  <2> QED BY <1>3, <2>1, <2>2, <2>3
<1> QED BY <1>6, <1>7 DEF StreamProfiles

(* The repository's README says that VIDEO_BITRATE and AUDIO_BITRATE "act  *)
(* as ceilings".  AUDIO_BITRATE is also the audio budget of the full       *)
(* delivery, so that a high one raises it (CeilingsNeverRaise fails); that *)
(* is all there is to it: with no audio ceiling above the 32 kbps the      *)
(* delivery has without one, no pair of ceilings raises any delivery.      *)
THEOREM CeilingsLower ==
  ASSUME \A audio \in Ceilings : KbpsFromRate(audio, 0) <= 32
  PROVE  QualitySpec => []CeilingsNeverRaise
<1>1. ASSUME profile \in Profiles PROVE CeilingsNeverRaise
  <2> DEFINE none == [number |-> 0, unit |-> "k"]
  <2>1. none \in Rates
    BY DEF Rates, Units
  <2>2. SUFFICES ASSUME NEW video \in Ceilings, NEW audio \in Ceilings,
                        NEW delivery \in StreamProfiles
                 PROVE  TotalKbps(StreamSpecFor(Limited(profile, video, audio), delivery))
                          <= TotalKbps(StreamSpecFor(Limited(profile, none, none), delivery))
    BY DEF CeilingsNeverRaise
  <2> DEFINE c == Limited(profile, video, audio)
             d == Limited(profile, none, none)
             s == StreamSpecFor(c, delivery)
             t == StreamSpecFor(d, delivery)
  <2>3. /\ c \in Configs /\ d \in Configs /\ c.Profile = d.Profile
        /\ c.Bitrate = video /\ c.AudioBitrate = audio
        /\ d.Bitrate = none /\ d.AudioBitrate = none
    BY <1>1, <2>1, QualityAssumption DEF Limited, Capturing, Configs
  <2>4. video \in Rates /\ audio \in Rates
    BY QualityAssumption
  <2>5. KbpsFromRate(none, 0) = 0
    BY DEF KbpsFromRate
  <2>6. none.number = 0
    OBVIOUS
  <2> HIDE DEF c, d, none
  <2>7. /\ s.videoKbps = Ceiling(Budget(c, delivery).videoKbps, video)
        /\ s.audioKbps = Ceiling(Budget(c, delivery).audioKbps, audio)
        /\ s.audioFrameMillis = Budget(c, delivery).audioFrameMillis
        /\ t.videoKbps = Ceiling(Budget(d, delivery).videoKbps, none)
        /\ t.audioKbps = Ceiling(Budget(d, delivery).audioKbps, none)
        /\ t.audioFrameMillis = Budget(d, delivery).audioFrameMillis
    BY <2>3, SpecShape
  <2> HIDE DEF s, t
  <2>8. ASSUME NEW kbps PROVE Ceiling(kbps, none) = kbps
    BY <2>5 DEF Ceiling
  <2>9. /\ Budget(c, delivery).videoKbps = Budget(d, delivery).videoKbps
        /\ Budget(c, delivery).audioFrameMillis = Budget(d, delivery).audioFrameMillis
        /\ Budget(d, delivery).audioFrameMillis \in {20, 60}
        /\ Ceiling(Budget(c, delivery).audioKbps, audio) \in Nat \ {0}
        /\ Ceiling(Budget(c, delivery).audioKbps, audio) <= Budget(d, delivery).audioKbps
    BY <2>3, <2>6, AudioLowered
  <2>10. Budget(d, delivery).videoKbps \in Nat /\ Budget(d, delivery).audioKbps \in Nat
    BY <2>3, BudgetShape
  <2>11. /\ s.videoKbps \in Nat /\ t.videoKbps \in Nat /\ s.videoKbps <= t.videoKbps
    BY <2>4, <2>7, <2>8, <2>9, <2>10, CeilingBounds
  <2>12. /\ s.audioKbps \in Nat \ {0} /\ t.audioKbps \in Nat
         /\ s.audioKbps <= t.audioKbps
    BY <2>7, <2>8, <2>9, <2>10
  <2>13. TotalKbps(s) <= TotalKbps(t)
    BY <2>7, <2>9, <2>11, <2>12, TotalMonotone
  <2> QED BY <2>13 DEF s, t, c, d, none
<1>2. QualityInv => CeilingsNeverRaise
  BY <1>1 DEF QualityInv, RegistryInv, TypeOK
<1> QED BY <1>2, QualityHolds, PTL

-----------------------------------------------------------------------------
(* The refinement of EncoderDemand, for every pipeline.                    *)
Follows(p) == [Demand(p)!Next]_(Demand(p)!vars)

(* A pipeline has an encoder while it has tracks and none is wanted when   *)
(* it has not; a viewer has no track before it attaches it.                *)
DemandInv ==
  /\ \A p \in Pipes : /\ tracks[p] # {} => supply[p] # "off"
                      /\ tracks[p] = {} => supply[p] # "on"
  /\ \A p \in Pipes : \A v \in tracks[p] : pc[v] \notin {"new", "attach"}

(* The steps of EncoderDemand, as steps of a pipeline.                     *)
LEMMA DemandSteps ==
  ASSUME NEW p \in Pipes, supply[p] \in {"off", "on", "stopping"},
         \/ tracks'[p] = tracks[p] /\ supply'[p] = supply[p]
         \/ \E v \in Viewers \ tracks[p] :
              /\ tracks'[p] = tracks[p] \cup {v}
              /\ supply'[p] = IF supply[p] = "off" THEN "on" ELSE supply[p]
         \/ \E v \in Viewers \cap tracks[p] :
              /\ tracks'[p] = tracks[p] \ {v}
              /\ supply'[p] = IF tracks'[p] = {} THEN "stopping" ELSE supply[p]
         \/ /\ tracks'[p] = tracks[p] /\ supply[p] = "on" /\ supply'[p] = "stopping"
         \/ /\ tracks'[p] = tracks[p] /\ supply[p] = "stopping"
            /\ supply'[p] = IF tracks[p] = {} THEN "off" ELSE "on"
  PROVE  Follows(p)
<1>1. CASE tracks'[p] = tracks[p] /\ supply'[p] = supply[p]
  BY <1>1 DEF Follows, Demand!vars
<1>2. CASE \E v \in Viewers \ tracks[p] :
             /\ tracks'[p] = tracks[p] \cup {v}
             /\ supply'[p] = IF supply[p] = "off" THEN "on" ELSE supply[p]
  BY <1>2 DEF Follows, Demand!vars, Demand!Next, Demand!Join
<1>3. CASE \E v \in Viewers \cap tracks[p] :
             /\ tracks'[p] = tracks[p] \ {v}
             /\ supply'[p] = IF tracks'[p] = {} THEN "stopping" ELSE supply[p]
  BY <1>3 DEF Follows, Demand!vars, Demand!Next, Demand!Leave
<1>4. CASE tracks'[p] = tracks[p] /\ supply[p] = "on" /\ supply'[p] = "stopping"
  BY <1>4 DEF Follows, Demand!vars, Demand!Next, Demand!Interrupt
<1>5. CASE /\ tracks'[p] = tracks[p] /\ supply[p] = "stopping"
           /\ supply'[p] = IF tracks[p] = {} THEN "off" ELSE "on"
  BY <1>5 DEF Follows, Demand!vars, Demand!Next, Demand!Recycle
<1> QED BY <1>1, <1>2, <1>3, <1>4, <1>5

(* Where neither the tracks nor the encoders of a pipeline are touched.    *)
LEMMA DemandKept ==
  ASSUME DemandInv, UNCHANGED <<tracks, supply>>,
         \A v \in Viewers : pc'[v] \in {"new", "attach"} => pc[v] \in {"new", "attach"},
         RegistryInv
  PROVE  DemandInv' /\ \A p \in Pipes : Follows(p)
<1>1. \A p \in Pipes : tracks[p] \subseteq Viewers /\ supply[p] \in {"off", "on", "stopping"}
  BY DEF RegistryInv, TypeOK
<1>2. \A p \in Pipes : Follows(p)
  BY <1>1, DemandSteps
<1> QED BY <1>1, <1>2 DEF DemandInv

(* The first subscriber starts the encoder.                                *)
LEMMA AttachFollows ==
  ASSUME RegistryInv, DemandInv, NEW v \in Viewers, Attach(v)
  PROVE  DemandInv' /\ \A p \in Pipes : Follows(p)
<1> USE DEF RegistryInv
<1>1. PICK p \in Pipes : p = at[v]
  BY DEF Attach, AllocInv, Workers
<1>2. /\ pc[v] = "attach" /\ tracks' = [tracks EXCEPT ![p] = @ \cup {v}]
      /\ supply[p] = "off" => supply' = [supply EXCEPT ![p] = "on"] /\ Goto(v, "source")
      /\ supply[p] # "off" => UNCHANGED supply /\ Goto(v, "attached")
  BY <1>1 DEF Attach, StartLocked
<1>3. /\ tracks'[p] = tracks[p] \cup {v} /\ v \notin tracks[p]
      /\ supply'[p] = IF supply[p] = "off" THEN "on" ELSE supply[p]
      /\ \A q \in Pipes : q # p => tracks'[q] = tracks[q] /\ supply'[q] = supply[q]
      /\ \A q \in Pipes : supply[q] \in {"off", "on", "stopping"} /\ tracks[q] \subseteq Viewers
  BY <1>2 DEF TypeOK, DemandInv
<1>4. /\ pc'[v] \notin {"new", "attach"}
      /\ \A w \in Viewers : w # v => pc'[w] = pc[w]
  BY <1>2 DEF Goto, TypeOK, Threads
<1>5. ASSUME NEW q \in Pipes PROVE Follows(q)
  BY <1>3, DemandSteps
<1>6. DemandInv'
  <2>1. \A q \in Pipes : /\ tracks'[q] # {} => supply'[q] # "off"
                         /\ tracks'[q] = {} => supply'[q] # "on"
    BY <1>3 DEF DemandInv
  <2>2. \A q \in Pipes : \A w \in tracks'[q] : pc'[w] \notin {"new", "attach"}
    BY <1>3, <1>4 DEF DemandInv
  <2> QED BY <2>1, <2>2 DEF DemandInv
<1> QED BY <1>5, <1>6

(* The last one to go stops it, whoever removes its track.                 *)
LEMMA RemoveFollows ==
  ASSUME RegistryInv, DemandInv, NEW th \in Workers, NEW v \in Viewers, NEW p \in Pipes,
         NEW label \in {"gone", "run"}, Remove(th, p, v, label)
  PROVE  DemandInv' /\ \A q \in Pipes : Follows(q)
<1> USE DEF RegistryInv
<1> DEFINE rest == tracks[p] \ {v}
<1>1. /\ tracks'[p] = rest
      /\ supply'[p] = IF rest = {} /\ supply[p] = "on" THEN "stopping" ELSE supply[p]
      /\ \A q \in Pipes : q # p => tracks'[q] = tracks[q] /\ supply'[q] = supply[q]
      /\ \A q \in Pipes : supply[q] \in {"off", "on", "stopping"} /\ tracks[q] \subseteq Viewers
  BY DEF Remove, SupplyAfter, TypeOK
<1>2. /\ pc'[th] \notin {"new", "attach"}
      /\ \A w \in Viewers : w # th => pc'[w] = pc[w]
  BY DEF Remove, ReportIdle, Goto, TypeOK, Threads, Workers
<1>3. /\ tracks[p] # {} => supply[p] # "off"
      /\ tracks[p] = {} => supply[p] # "on"
  BY DEF DemandInv
<1>4. Follows(p)
  <2>1. CASE v \notin tracks[p]
    <3>1. tracks'[p] = tracks[p] /\ supply'[p] = supply[p]
      BY <1>1, <1>3, <2>1
    <3> QED BY <1>1, <3>1, DemandSteps
  <2>2. CASE v \in tracks[p]
    <3>1. supply'[p] = IF tracks'[p] = {} THEN "stopping" ELSE supply[p]
      BY <1>1, <1>3, <2>2
    <3> QED BY <1>1, <2>2, <3>1, DemandSteps
  <2> QED BY <2>1, <2>2
<1>5. ASSUME NEW q \in Pipes, q # p PROVE Follows(q)
  BY <1>1, <1>5, DemandSteps
<1>6. DemandInv'
  <2>1. \A q \in Pipes : /\ tracks'[q] # {} => supply'[q] # "off"
                         /\ tracks'[q] = {} => supply'[q] # "on"
    BY <1>1, <1>3 DEF DemandInv
  <2>2. \A q \in Pipes : tracks'[q] \subseteq tracks[q]
    BY <1>1
  <2>3. \A q \in Pipes : \A w \in tracks'[q] : pc'[w] \notin {"new", "attach"}
    BY <1>1, <1>2, <2>2 DEF DemandInv
  <2> QED BY <2>1, <2>3 DEF DemandInv
<1> QED BY <1>4, <1>5, <1>6

(* An encoder that was cancelled or died is replaced while anyone listens. *)
LEMMA FinishFollows ==
  ASSUME RegistryInv, DemandInv, NEW e \in Encoders, Finish(e)
  PROVE  DemandInv' /\ \A p \in Pipes : Follows(p)
<1> USE DEF RegistryInv
<1>1. PICK p \in Pipes : p = at[e] /\ supply[p] # "off"
  BY DEF Finish, AllocInv, ServeInv, Serves, Encoding, Workers
<1>2. /\ tracks' = tracks
      /\ supply' = [supply EXCEPT ![p] = IF tracks[p] = {} THEN "off" ELSE "on"]
  BY <1>1 DEF Finish, StartLocked
<1>3. \A v \in Viewers : pc'[v] = pc[v]
  BY Apart DEF Finish, ReportIdle, StartLocked, Goto, TypeOK, Threads
<1>4. /\ supply'[p] = IF tracks[p] = {} THEN "off" ELSE "on"
      /\ \A q \in Pipes : q # p => supply'[q] = supply[q]
      /\ \A q \in Pipes : supply[q] \in {"off", "on", "stopping"} /\ tracks[q] \subseteq Viewers
  BY <1>2 DEF TypeOK
<1>5. supply[p] = "stopping" \/ supply'[p] = supply[p]
  BY <1>1, <1>4 DEF DemandInv
<1>6. ASSUME NEW q \in Pipes PROVE Follows(q)
  BY <1>2, <1>4, <1>5, DemandSteps
<1>7. DemandInv'
  <2>1. \A q \in Pipes : /\ tracks'[q] # {} => supply'[q] # "off"
                         /\ tracks'[q] = {} => supply'[q] # "on"
    BY <1>2, <1>4 DEF DemandInv
  <2>2. \A q \in Pipes : \A w \in tracks'[q] : pc'[w] \notin {"new", "attach"}
    BY <1>2, <1>3, <1>4 DEF DemandInv
  <2> QED BY <2>1, <2>2 DEF DemandInv
<1> QED BY <1>6, <1>7

(* A change of the profile interrupts it.                                  *)
LEMMA RestartFollows ==
  ASSUME RegistryInv, DemandInv, NEW o \in Operators, NEW p \in Pipes, Restart(o, p)
  PROVE  DemandInv' /\ \A q \in Pipes : Follows(q)
<1> USE DEF RegistryInv
<1>1. /\ UNCHANGED <<tracks, pc>>
      /\ supply'[p] = IF supply[p] = "on" THEN "stopping" ELSE supply[p]
      /\ \A q \in Pipes : q # p => supply'[q] = supply[q]
      /\ \A q \in Pipes : supply[q] \in {"off", "on", "stopping"}
  BY DEF Restart, TypeOK
<1>2. ASSUME NEW q \in Pipes PROVE Follows(q)
  BY <1>1, DemandSteps
<1>3. DemandInv'
  BY <1>1 DEF DemandInv
<1> QED BY <1>2, <1>3

(* Every step of Quality.                                                  *)
LEMMA DemandStep ==
  ASSUME QualityInv, DemandInv, [QualityNext]_qualityVars
  PROVE  DemandInv' /\ \A p \in Pipes : Follows(p)
<1> USE DEF QualityInv
<1>1. ASSUME NEW th \in Threads, NEW label, label \notin {"new", "attach"}, Goto(th, label)
      PROVE  \A v \in Viewers : pc'[v] \in {"new", "attach"} => pc[v] \in {"new", "attach"}
  BY <1>1 DEF Goto, RegistryInv, TypeOK, Threads
<1>2. ASSUME NEW v \in Viewers, (\E k \in Keys : Lookup(v, k)) \/ Attach(v) \/ Detach(v)
      PROVE  DemandInv' /\ \A p \in Pipes : Follows(p)
  <2>1. CASE \E k \in Keys : Lookup(v, k)
    <3>1. UNCHANGED <<tracks, supply>> /\ pc[v] = "new" /\ Goto(v, "attach")
      BY <2>1 DEF Lookup, pipes
    <3>2. \A w \in Viewers : pc'[w] \in {"new", "attach"} => pc[w] \in {"new", "attach"}
      BY <3>1 DEF Goto, RegistryInv, TypeOK, Threads
    <3> QED BY <3>1, <3>2, DemandKept
  <2>2. CASE Detach(v)
    <3>1. at[v] \in Pipes /\ v \in Workers
      BY <2>2 DEF Detach, RegistryInv, AllocInv, Workers
    <3> QED BY <2>2, <3>1, RemoveFollows DEF Detach
  <2> QED BY <1>2, <2>1, <2>2, AttachFollows
<1>3. ASSUME NEW th \in Workers, Source(th) \/ Release(th) \/ Inspect(th) \/ Retire(th)
      PROVE  DemandInv' /\ \A p \in Pipes : Follows(p)
  <2>1. UNCHANGED <<tracks, supply>> /\ th \in Threads
    BY <1>3, Apart DEF Source, Release, Inspect, Retire, pipes
  <2>2. \A v \in Viewers : pc'[v] \in {"new", "attach"} => pc[v] \in {"new", "attach"}
    <3>1. CASE Source(th)
      <4>1. PICK e, label : /\ pc' = [pc EXCEPT ![th] = "attached", ![e] = label]
                            /\ label \in {"wait", "start"}
        BY <3>1 DEF Source, Spawn
      <4> QED BY <2>1, <4>1 DEF RegistryInv, TypeOK, Threads
    <3>2. CASE Return(th)
      <4>1. \E label \in {"gone", "run", "free"} : Goto(th, label)
        BY <3>2, Apart DEF Return, Workers, RegistryInv, TypeOK
      <4> QED BY <1>1, <2>1, <4>1
    <3>3. CASE Goto(th, "inspect") \/ Goto(th, "retire")
      BY <1>1, <2>1, <3>3
    <3> QED BY <1>3, <3>1, <3>2, <3>3 DEF Release, Inspect, Retire
  <2> QED BY <2>1, <2>2, DemandKept
<1>4. ASSUME NEW e \in Encoders, Wait(e) \/ Begin(e) \/ Stop(e) \/ Crash(e)
      PROVE  DemandInv' /\ \A p \in Pipes : Follows(p)
  <2>1. UNCHANGED <<tracks, supply>> /\ e \in Threads
    BY <1>4 DEF Wait, Begin, Stop, Crash, pipes, Threads
  <2>2. \E label \in {"start", "stopped", "run", "failed"} : Goto(e, label)
    BY <1>4 DEF Wait, Begin, Stop, Crash
  <2> QED BY <1>1, <2>1, <2>2, DemandKept
<1>5. ASSUME NEW e \in Encoders, NEW v \in Viewers, WriteFails(e, v)
      PROVE  DemandInv' /\ \A p \in Pipes : Follows(p)
  <2>1. at[e] \in Pipes /\ e \in Workers
    BY <1>5 DEF WriteFails, RegistryInv, AllocInv, Workers
  <2> QED BY <1>5, <2>1, RemoveFollows DEF WriteFails
<1>6. ASSUME NEW q \in Pollers, Poll(q) \/ (\E p \in Pipes : Visit(q, p)) \/ PollDone(q)
      PROVE  DemandInv' /\ \A p \in Pipes : Follows(p)
  <2>1. UNCHANGED <<tracks, supply>> /\ q \in Threads
    BY <1>6 DEF Poll, Visit, PollDone, pipes, Threads
  <2>2. UNCHANGED pc \/ Goto(q, "poll") \/ Goto(q, "idle")
    BY <1>6 DEF Poll, Visit, PollDone
  <2> QED BY <1>1, <2>1, <2>2, DemandKept
<1>7. ASSUME NEW o \in Operators, Request(o), ~ \E p \in Pipes : Restart(o, p)
      PROVE  DemandInv' /\ \A p \in Pipes : Follows(p)
  <2>1. UNCHANGED <<tracks, supply>> /\ o \in Threads
    BY <1>7 DEF Request, Ask, Resize, ResizeFails, Apply, SetProfile, SetProfileDone,
                pipes, Threads
  <2>2. \E label \in {"idle", "resize", "apply", "restart"} : Goto(o, label)
    BY <1>7 DEF Request, Ask, Resize, ResizeFails, Apply, SetProfile, SetProfileDone
  <2> QED BY <1>1, <2>1, <2>2, DemandKept
<1>8. CASE UNCHANGED vars
  BY <1>8, DemandKept DEF vars, pipes
<1>9. CASE Next
  BY <1>2, <1>3, <1>4, <1>5, <1>6, <1>9, FinishFollows DEF Next, Workers
<1> QED BY <1>7, <1>8, <1>9, RestartFollows
        DEF QualityNext, RestartBrave, qualityVars

(* Behind its locks every pipeline does what EncoderDemand promises: its   *)
(* encoder is started by the first subscriber, stopped by the last, and    *)
(* replaced while there are any.                                           *)
THEOREM FollowsDemand == QualitySpec => PipelinesFollowDemand
<1>1. QualityInit => DemandInv
  BY DEF QualityInit, Init, DemandInv
<1>2. QualityInv /\ DemandInv /\ [QualityNext]_qualityVars => DemandInv'
  BY DemandStep
<1>3. QualityInv /\ DemandInv /\ [QualityNext]_qualityVars =>
        [\A p \in Pipes : [Demand(p)!Next]_(Demand(p)!vars)]_vars
  BY DemandStep DEF Follows
<1> QED BY <1>1, <1>2, <1>3, QualityHolds, PTL DEF QualitySpec, PipelinesFollowDemand

-----------------------------------------------------------------------------
(* The totals of Stats.  Capture starts are counted by the set of them, so *)
(* that sums over pipelines are cardinalities.                             *)
CountedBy(f, S) == UNION {{p} \X (1..f[p]) : p \in S}

Total == retired + Cardinality(CountedBy(starts, Registered))

(* What a poller has added up and what it has still to visit.              *)
Awaited(q) == sum[q] + Cardinality(CountedBy(starts, todo[q]))

TotalInv ==
  /\ IsFiniteSet(CountedBy(starts, Pipes))
  /\ reported <= Total
  /\ \A q \in Pollers : pc[q] = "poll" =>
       todo[q] \subseteq Registered /\ reported <= Awaited(q) /\ Awaited(q) <= Total

LEMMA CountedMonotone ==
  ASSUME NEW f, NEW T, IsFiniteSet(CountedBy(f, T)), NEW S, S \subseteq T
  PROVE  /\ IsFiniteSet(CountedBy(f, S))
         /\ Cardinality(CountedBy(f, S)) \in Nat
         /\ Cardinality(CountedBy(f, S)) <= Cardinality(CountedBy(f, T))
<1>1. CountedBy(f, S) \subseteq CountedBy(f, T)
  BY DEF CountedBy
<1> QED BY <1>1, FS_Subset, FS_CardinalityType

(* A capture starts.                                                       *)
LEMMA CountedOneMore ==
  ASSUME NEW f \in [Pipes -> Nat], NEW p \in Pipes, NEW S \in SUBSET Pipes,
         IsFiniteSet(CountedBy(f, S))
  PROVE  LET g == [f EXCEPT ![p] = @ + 1] IN
         /\ IsFiniteSet(CountedBy(g, S))
         /\ Cardinality(CountedBy(g, S))
              = Cardinality(CountedBy(f, S)) + (IF p \in S THEN 1 ELSE 0)
<1> DEFINE g == [f EXCEPT ![p] = @ + 1]
           new == <<p, f[p] + 1>>
<1>1. f[p] \in Nat /\ g[p] = f[p] + 1 /\ \A q \in Pipes \ {p} : g[q] = f[q]
  OBVIOUS
<1>2. Cardinality(CountedBy(f, S)) \in Nat
  BY FS_CardinalityType
<1>3. CASE p \notin S
  <2> HIDE DEF g
  <2>1. CountedBy(g, S) = CountedBy(f, S)
    BY <1>1, <1>3 DEF CountedBy
  <2> QED BY <1>2, <1>3, <2>1 DEF g
<1>4. CASE p \in S
  <2> HIDE DEF g
  <2>1. 1..g[p] = (1..f[p]) \cup {f[p] + 1}
    BY <1>1
  <2>2. CountedBy(g, S) = CountedBy(f, S) \cup {new}
    BY <1>1, <1>4, <2>1 DEF CountedBy
  <2>3. new \notin CountedBy(f, S)
    BY <1>1 DEF CountedBy
  <2> HIDE DEF new
  <2>4. /\ IsFiniteSet(CountedBy(f, S) \cup {new})
        /\ Cardinality(CountedBy(f, S) \cup {new}) = Cardinality(CountedBy(f, S)) + 1
    BY <2>3, FS_AddElement
  <2> QED BY <1>4, <2>2, <2>4 DEF g
<1> QED BY <1>3, <1>4

(* A pipeline is visited, or leaves the registry.                          *)
LEMMA CountedWithout ==
  ASSUME NEW f \in [Pipes -> Nat], NEW S \in SUBSET Pipes, NEW p \in S,
         IsFiniteSet(CountedBy(f, S))
  PROVE  Cardinality(CountedBy(f, S)) = f[p] + Cardinality(CountedBy(f, S \ {p}))
<1> DEFINE own == {p} \X (1..f[p])
           rest == CountedBy(f, S \ {p})
<1>1. f[p] \in Nat
  OBVIOUS
<1>2. own \cup rest = CountedBy(f, S) /\ own \cap rest = {}
  BY DEF CountedBy
<1>3. IsFiniteSet(rest)
  BY CountedMonotone
<1>4. IsFiniteSet(own) /\ Cardinality(own) = f[p]
  <2>1. IsFiniteSet({p}) /\ Cardinality({p}) = 1
    BY FS_Singleton
  <2> DEFINE n == f[p]
  <2> HIDE DEF n
  <2>2. n \in Nat
    BY <1>1 DEF n
  <2>3. IsFiniteSet(1..n) /\ Cardinality(1..n) = n
    BY <2>2, FS_Interval
  <2>4. /\ IsFiniteSet({p} \X (1..n))
        /\ Cardinality({p} \X (1..n)) = Cardinality({p}) * Cardinality(1..n)
    BY <2>1, <2>3, FS_Product
  <2> QED BY <2>1, <2>2, <2>3, <2>4 DEF n
<1> HIDE DEF own, rest
<1>5. Cardinality(own \cup rest)
        = Cardinality(own) + Cardinality(rest) - Cardinality(own \cap rest)
  BY <1>3, <1>4, FS_Union
<1>6. Cardinality(rest) \in Nat /\ Cardinality({}) = 0
  BY <1>3, FS_CardinalityType, FS_EmptySet
<1>7. Cardinality(own \cup rest) = f[p] + Cardinality(rest)
  <2>1. Cardinality(own \cap rest) = 0
    BY <1>2, <1>6
  <2> QED BY <1>1, <1>4, <1>5, <1>6, <2>1
<1> QED BY <1>2, <1>7 DEF rest

(* Where nothing leaves the registry and nobody adds up.                   *)
LEMMA TotalKept ==
  ASSUME RegistryInv, TotalInv, RegistryInv', Registered \subseteq Registered',
         UNCHANGED <<retired, starts, polls>>,
         \A q \in Pollers :
           pc'[q] = "poll" => pc[q] = "poll" /\ todo'[q] = todo[q] /\ Registered' = Registered
  PROVE  TotalInv' /\ reported' >= reported
<1>1. retired \in Nat /\ reported \in Nat /\ Registered' \subseteq Pipes
  BY DEF RegistryInv, TypeOK, Registered
<1>2. IsFiniteSet(CountedBy(starts, Registered'))
  BY <1>1, CountedMonotone DEF TotalInv
<1>3. /\ Cardinality(CountedBy(starts, Registered)) \in Nat
      /\ Cardinality(CountedBy(starts, Registered')) \in Nat
      /\ Cardinality(CountedBy(starts, Registered))
           <= Cardinality(CountedBy(starts, Registered'))
  BY <1>1, <1>2, CountedMonotone
<1>4. starts' = starts /\ retired' = retired /\ sum' = sum /\ reported' = reported
  BY DEF polls
<1>5. Total' = retired + Cardinality(CountedBy(starts, Registered'))
  BY <1>4 DEF Total
<1>6. IsFiniteSet(CountedBy(starts, Pipes))' /\ reported' <= Total'
  BY <1>1, <1>3, <1>4, <1>5 DEF TotalInv, Total, CountedBy
<1>7. ASSUME NEW q \in Pollers, pc'[q] = "poll"
      PROVE  /\ todo'[q] \subseteq Registered'
             /\ reported' <= Awaited(q)' /\ Awaited(q)' <= Total'
  <2>1. /\ pc[q] = "poll" /\ todo'[q] = todo[q] /\ Registered' = Registered
    BY <1>7
  <2>2. Awaited(q)' = Awaited(q) /\ Total' = Total
    BY <1>4, <1>5, <2>1 DEF Awaited, Total
  <2> QED BY <1>4, <2>1, <2>2 DEF TotalInv
<1> QED BY <1>1, <1>4, <1>6, <1>7 DEF TotalInv

(* Nobody but a poller goes to "poll".                                     *)
LEMMA PollersStay ==
  ASSUME RegistryInv, NEW th \in Workers \cup Operators, NEW label, Goto(th, label),
         NEW q \in Pollers
  PROVE  pc'[q] = pc[q]
BY Apart DEF Goto, RegistryInv, TypeOK, Threads, Workers

(* The steps that count nothing.                                           *)
LEMMA TotalUndisturbed ==
  ASSUME RegistryInv, TotalInv, RegistryInv',
         UNCHANGED <<registry, retired, starts, polls>>,
         \A q \in Pollers : pc'[q] = pc[q] /\ todo'[q] = todo[q]
  PROVE  TotalInv' /\ reported' >= reported
<1>1. Registered' = Registered
  BY DEF Registered
<1> QED BY <1>1, TotalKept

LEMMA WorkersCountNothing ==
  ASSUME RegistryInv, TotalInv, RegistryInv', NEW th \in Workers,
         \/ th \in Viewers /\ (Attach(th) \/ Detach(th))
         \/ Source(th) \/ Release(th) \/ Inspect(th)
         \/ th \in Encoders /\ (Wait(th) \/ Stop(th) \/ Crash(th) \/ Finish(th))
         \/ th \in Encoders /\ \E v \in Viewers : WriteFails(th, v)
  PROVE  TotalInv' /\ reported' >= reported
<1>1. UNCHANGED <<registry, retired, starts, polls, todo>>
  BY DEF Attach, Detach, Source, Release, Inspect, Wait, Stop, Crash, Finish, WriteFails,
         store, pipes
<1>2. ASSUME NEW label, Goto(th, label) PROVE \A q \in Pollers : pc'[q] = pc[q]
  BY <1>2, PollersStay
<1>3. CASE Source(th)
  <2>1. \E e \in Encoders : \E label : pc' = [pc EXCEPT ![th] = "attached", ![e] = label]
    <3>1. CASE th \in Encoders
      BY <1>3, <3>1 DEF Source, Spawn
    <3>2. CASE th \in Viewers
      <4>1. pc[th] = "source" /\ th \notin Encoders
        BY <1>3, <3>2, Apart DEF Source, RegistryInv, TypeOK, ViewerLabels
      <4>2. PICK e \in Encoders : e = CHOOSE f \in Encoders : pc[f] = "free"
        BY <3>2, <4>1, FreeEncoder
      <4> QED BY <1>3, <4>1, <4>2 DEF Source, Spawn
    <3> QED BY <3>1, <3>2 DEF Workers
  <2>2. \A q \in Pollers : pc'[q] = pc[q]
    BY <2>1, Apart DEF RegistryInv, TypeOK, Threads, Workers
  <2> QED BY <1>1, <2>2, TotalUndisturbed
<1>4. CASE ~Source(th)
  <2>1. Return(th) \/ \E label : Goto(th, label)
    BY <1>4 DEF Attach, Detach, Release, Inspect, Wait, Stop, Crash, Finish, WriteFails,
                Remove, ReportIdle, StartLocked
  <2>2. \A q \in Pollers : pc'[q] = pc[q]
    BY <1>2, <2>1, Returns
  <2> QED BY <1>1, <2>2, TotalUndisturbed
<1> QED BY <1>3, <1>4

(* A request for another quality counts nothing either.                    *)
LEMMA RequestsCountNothing ==
  ASSUME RegistryInv, TotalInv, RegistryInv', NEW o \in Operators, Request(o)
  PROVE  TotalInv' /\ reported' >= reported
<1>1. UNCHANGED <<registry, retired, starts, polls>>
  BY DEF Request, Ask, Resize, ResizeFails, Apply, SetProfile, Restart, SetProfileDone,
         store, pipes
<1>2. \A q \in Pollers : pc'[q] = pc[q]
  <2>1. UNCHANGED pc \/ \E label : Goto(o, label)
    BY DEF Request, Ask, Resize, ResizeFails, Apply, SetProfile, Restart, SetProfileDone
  <2> QED BY <2>1, PollersStay
<1>3. \A q \in Pollers : todo'[q] = todo[q]
  <2>1. UNCHANGED todo \/ \E left : todo' = [todo EXCEPT ![o] = left]
    <3>1. CASE \E p \in Pipes : Restart(o, p)
      BY <3>1 DEF Restart
    <3>2. CASE Apply(o)
      BY <3>2 DEF Apply, SetProfile
    <3>3. CASE (\E f \in Profiles : Ask(o, f)) \/ Resize(o) \/ ResizeFails(o) \/ SetProfileDone(o)
      BY <3>3 DEF Ask, Resize, ResizeFails, SetProfileDone
    <3> QED BY <3>1, <3>2, <3>3 DEF Request
  <2> QED BY <2>1, Apart DEF RegistryInv, TypeOK
<1> QED BY <1>1, <1>2, <1>3, TotalUndisturbed

(* A new pipeline brings its counter with it.                              *)
LEMMA LookupCounts ==
  ASSUME RegistryInv, TotalInv, RegistryInv', NEW v \in Viewers, NEW k \in Keys,
         Lookup(v, k)
  PROVE  TotalInv' /\ reported' >= reported
<1>1. /\ bmu = None /\ Goto(v, "attach") /\ UNCHANGED <<retired, starts, polls>>
      /\ registry[k] # None => registry' = registry
      /\ \E p : registry' = [registry EXCEPT ![k] = p]
  BY DEF Lookup, pipes, RegistryInv, TypeOK
<1>2. Registered \subseteq Registered'
  <2> SUFFICES ASSUME NEW p \in Pipes, NEW j \in Keys, registry[j] = p
               PROVE  \E i \in Keys : registry'[i] = p
    BY DEF Registered
  <2>1. CASE registry[k] # None
    BY <1>1, <2>1
  <2>2. CASE registry[k] = None
    <3>1. j # k
      BY <2>2, Apart
    <3>2. registry'[j] = registry[j]
      BY <1>1, <3>1 DEF RegistryInv, TypeOK
    <3> QED BY <3>2
  <2> QED BY <2>1, <2>2
<1>3. \A q \in Pollers : pc'[q] # "poll"
  <2>1. \A q \in Pollers : pc'[q] = pc[q]
    BY <1>1, PollersStay DEF Workers
  <2> QED BY <1>1, <2>1, Apart DEF RegistryInv, LockInv
<1> QED BY <1>1, <1>2, <1>3, TotalKept

(* A capture that starts while Stats is adding up is counted or not, as    *)
(* the pipeline has still to be visited or has been.                       *)
LEMMA BeginCounts ==
  ASSUME RegistryInv, TotalInv, NEW e \in Encoders, Begin(e)
  PROVE  TotalInv' /\ reported' >= reported
<1> DEFINE p == at[e]
           g == [starts EXCEPT ![p] = @ + 1]
<1>1. /\ pc[e] = "start" /\ starts' = g /\ Goto(e, "run")
      /\ UNCHANGED <<registry, retired, sum, reported, todo>>
  BY DEF Begin, store, polls
<1>2. p \in Pipes
  BY <1>1 DEF RegistryInv, AllocInv, Workers
<1>3. /\ starts \in [Pipes -> Nat] /\ Registered \in SUBSET Pipes
      /\ todo \in [Operators \cup Pollers -> SUBSET Pipes]
      /\ retired \in Nat /\ sum \in [Pollers -> Nat] /\ reported \in Nat
  BY DEF RegistryInv, TypeOK, Registered
<1> HIDE DEF p
<1>4. ASSUME NEW S \in SUBSET Pipes
      PROVE  /\ IsFiniteSet(CountedBy(starts, S)) /\ IsFiniteSet(CountedBy(g, S))
             /\ Cardinality(CountedBy(starts, S)) \in Nat
             /\ Cardinality(CountedBy(g, S))
                  = Cardinality(CountedBy(starts, S)) + (IF p \in S THEN 1 ELSE 0)
  <2>1. IsFiniteSet(CountedBy(starts, S)) /\ Cardinality(CountedBy(starts, S)) \in Nat
    BY CountedMonotone DEF TotalInv
  <2> QED BY <1>2, <1>3, <2>1, CountedOneMore
<1> HIDE DEF g
<1>5. Registered' = Registered
  BY <1>1 DEF Registered
<1>6. Total' = Total + (IF p \in Registered THEN 1 ELSE 0) /\ Total \in Nat
  <2>1. Total' = retired + Cardinality(CountedBy(g, Registered))
    BY <1>1, <1>5 DEF Total
  <2>2. /\ Cardinality(CountedBy(starts, Registered)) \in Nat
        /\ Cardinality(CountedBy(g, Registered))
             = Cardinality(CountedBy(starts, Registered))
                 + (IF p \in Registered THEN 1 ELSE 0)
    BY <1>3, <1>4
  <2> QED BY <1>3, <2>1, <2>2 DEF Total
<1>7. ASSUME NEW q \in Pollers
      PROVE  /\ Awaited(q)' = Awaited(q) + (IF p \in todo[q] THEN 1 ELSE 0)
             /\ Awaited(q) \in Nat
  <2>1. Awaited(q)' = sum[q] + Cardinality(CountedBy(g, todo[q]))
    BY <1>1 DEF Awaited
  <2>2. todo[q] \in SUBSET Pipes /\ sum[q] \in Nat
    BY <1>3
  <2>3. /\ Cardinality(CountedBy(starts, todo[q])) \in Nat
        /\ Cardinality(CountedBy(g, todo[q]))
             = Cardinality(CountedBy(starts, todo[q])) + (IF p \in todo[q] THEN 1 ELSE 0)
    BY <1>4, <2>2
  <2> QED BY <2>1, <2>2, <2>3 DEF Awaited
<1>8. IsFiniteSet(CountedBy(starts', Pipes))
  BY <1>1, <1>4
<1>9. ASSUME NEW q \in Pollers, pc'[q] = "poll"
      PROVE  /\ todo'[q] \subseteq Registered'
             /\ reported' <= Awaited(q)' /\ Awaited(q)' <= Total'
  <2>1. pc[q] = "poll" /\ todo'[q] = todo[q]
    BY <1>1, <1>9, PollersStay DEF Workers
  <2>2. /\ todo[q] \subseteq Registered
        /\ reported <= Awaited(q) /\ Awaited(q) <= Total
    BY <2>1 DEF TotalInv
  <2>3. p \in todo[q] => p \in Registered
    BY <2>2
  <2> QED BY <1>1, <1>3, <1>5, <1>6, <1>7, <2>1, <2>2, <2>3
<1>10. reported' <= Total'
  BY <1>1, <1>3, <1>6 DEF TotalInv
<1> QED BY <1>1, <1>3, <1>8, <1>9, <1>10 DEF TotalInv

(* A pipeline that leaves the registry leaves its counter behind.          *)
LEMMA RetireCounts ==
  ASSUME RegistryInv, TotalInv, NEW th \in Workers, Retire(th)
  PROVE  TotalInv' /\ reported' >= reported
<1> DEFINE k == keyOf[at[th]]
           p == registry[k]
<1>1. /\ pc[th] = "retire" /\ Return(th)
      /\ retired' = retired + starts[p]
      /\ registry' = [registry EXCEPT ![k] = None]
      /\ UNCHANGED <<starts, reported>>
  BY DEF Retire, RetiredWith, pipes, polls
<1>2. k \in Keys /\ bmu = th /\ p # None
  BY <1>1, Apart DEF RegistryInv, LockInv, AllocInv, TypeOK
<1>3. p \in Pipes /\ registry \in [Keys -> Pipes \cup {None}]
  BY <1>2 DEF RegistryInv, TypeOK
<1>4. p \in Registered
  BY <1>2, <1>3 DEF Registered
<1>5. Registered' = Registered \ {p}
  <2>1. ASSUME NEW j \in Keys \ {k}, registry[j] = p PROVE FALSE
    BY <1>2, <2>1 DEF RegistryInv, AllocInv
  <2>2. \A j \in Keys : registry'[j] = IF j = k THEN None ELSE registry[j]
    BY <1>1, <1>3
  <2>3. registry[k] = p
    OBVIOUS
  <2> HIDE DEF p, k
  <2>4. ASSUME NEW q \in Registered' PROVE q \in Registered \ {p}
    BY <2>1, <2>2, <2>4, Apart DEF Registered
  <2>5. ASSUME NEW q \in Registered \ {p} PROVE q \in Registered'
    BY <2>2, <2>3, <2>5 DEF Registered
  <2> QED BY <2>4, <2>5
<1> HIDE DEF p, k
<1>6. /\ starts \in [Pipes -> Nat] /\ Registered \in SUBSET Pipes
      /\ retired \in Nat /\ reported \in Nat
  BY DEF RegistryInv, TypeOK, Registered
<1>7. IsFiniteSet(CountedBy(starts, Registered))
  BY <1>6, CountedMonotone DEF TotalInv
<1>8. /\ Cardinality(CountedBy(starts, Registered))
           = starts[p] + Cardinality(CountedBy(starts, Registered \ {p}))
      /\ Cardinality(CountedBy(starts, Registered \ {p})) \in Nat
  <2>1. IsFiniteSet(CountedBy(starts, Registered \ {p}))
    BY <1>7, CountedMonotone
  <2> QED BY <1>4, <1>6, <1>7, <2>1, CountedWithout, FS_CardinalityType
<1>9. Total' = Total
  <2>1. Total' = retired + starts[p] + Cardinality(CountedBy(starts, Registered \ {p}))
    BY <1>1, <1>5 DEF Total
  <2>2. starts[p] \in Nat
    BY <1>3, <1>6
  <2> QED BY <1>6, <1>8, <2>1, <2>2 DEF Total
<1>10. \A q \in Pollers : pc'[q] # "poll"
  <2>1. \A q \in Pollers : pc'[q] = pc[q]
    BY <1>1, PollersStay, Returns
  <2> QED BY <1>2, <2>1, Apart DEF RegistryInv, LockInv
<1> QED BY <1>1, <1>6, <1>9, <1>10 DEF TotalInv

(* Stats begins with everything still to be visited.                       *)
LEMMA PollCounts ==
  ASSUME RegistryInv, TotalInv, NEW q \in Pollers,
         Poll(q) \/ (\E p \in Pipes : Visit(q, p)) \/ PollDone(q)
  PROVE  TotalInv' /\ reported' >= reported
<1>1. /\ starts \in [Pipes -> Nat] /\ Registered \in SUBSET Pipes
      /\ todo \in [Operators \cup Pollers -> SUBSET Pipes]
      /\ retired \in Nat /\ sum \in [Pollers -> Nat] /\ reported \in Nat
      /\ pc \in [Threads -> ViewerLabels \cup EncoderLabels
                              \cup {"idle", "resize", "apply", "restart", "poll"}]
      /\ q \in Threads /\ Pollers \subseteq Threads
  BY DEF RegistryInv, TypeOK, Registered, Threads
<1>2. UNCHANGED <<registry, starts, retired>>
  BY DEF Poll, Visit, PollDone, store, pipes
<1>3. Registered' = Registered /\ Total' = Total
  BY <1>2 DEF Registered, Total
<1>4. IsFiniteSet(CountedBy(starts', Pipes))
  BY <1>2 DEF TotalInv
<1>5. ASSUME NEW S \in SUBSET Pipes
      PROVE  /\ IsFiniteSet(CountedBy(starts, S))
             /\ Cardinality(CountedBy(starts, S)) \in Nat
  BY CountedMonotone DEF TotalInv
<1>6. Total \in Nat
  BY <1>1, <1>5 DEF Total
<1>7. CASE Poll(q)
  <2>1. /\ pc[q] = "idle" /\ bmu = None /\ Goto(q, "poll")
        /\ todo' = [todo EXCEPT ![q] = Registered]
        /\ sum' = [sum EXCEPT ![q] = retired] /\ UNCHANGED reported
    BY <1>7 DEF Poll
  <2>2. \A r \in Pollers \ {q} : pc'[r] # "poll"
    BY <1>1, <2>1, Apart DEF Goto, RegistryInv, LockInv
  <2>3. todo'[q] = Registered /\ sum'[q] = retired
    BY <1>1, <2>1
  <2>4. Awaited(q)' = Total
    BY <1>2, <2>3 DEF Awaited, Total
  <2>5. reported' <= Total' /\ reported' = reported
    BY <1>3, <2>1 DEF TotalInv
  <2> QED BY <1>1, <1>3, <1>4, <1>6, <2>2, <2>3, <2>4, <2>5 DEF TotalInv
<1>8. ASSUME NEW p \in Pipes, Visit(q, p) PROVE TotalInv' /\ reported' >= reported
  <2>1. /\ pc[q] = "poll" /\ p \in todo[q]
        /\ todo' = [todo EXCEPT ![q] = @ \ {p}]
        /\ sum' = [sum EXCEPT ![q] = @ + starts[p]] /\ UNCHANGED <<pc, reported>>
    BY <1>8 DEF Visit
  <2>2. todo'[q] = todo[q] \ {p} /\ sum'[q] = sum[q] + starts[p]
    BY <1>1, <2>1
  <2>3. /\ todo[q] \in SUBSET Pipes /\ todo[q] \ {p} \in SUBSET Pipes
        /\ sum[q] \in Nat /\ starts[p] \in Nat
    BY <1>1
  <2>4. /\ Cardinality(CountedBy(starts, todo[q]))
             = starts[p] + Cardinality(CountedBy(starts, todo[q] \ {p}))
        /\ Cardinality(CountedBy(starts, todo[q] \ {p})) \in Nat
    BY <1>1, <1>5, <2>1, <2>3, CountedWithout
  <2>5. Awaited(q)' = sum[q] + starts[p] + Cardinality(CountedBy(starts, todo[q] \ {p}))
    BY <1>2, <2>2 DEF Awaited
  <2>6. Awaited(q)' = Awaited(q)
    BY <2>3, <2>4, <2>5 DEF Awaited
  <2>7. ASSUME NEW r \in Pollers \ {q}
        PROVE  Awaited(r)' = Awaited(r) /\ todo'[r] = todo[r]
    BY <1>1, <1>2, <2>1 DEF Awaited
  <2>8. ASSUME NEW r \in Pollers, pc'[r] = "poll"
        PROVE  /\ todo'[r] \subseteq Registered'
               /\ reported' <= Awaited(r)' /\ Awaited(r)' <= Total'
    BY <1>3, <2>1, <2>2, <2>6, <2>7, <2>8 DEF TotalInv
  <2> QED BY <1>1, <1>3, <1>4, <2>1, <2>8 DEF TotalInv
<1>9. CASE PollDone(q)
  <2>1. /\ pc[q] = "poll" /\ todo[q] = {} /\ reported' = sum[q] /\ Goto(q, "idle")
    BY <1>9 DEF PollDone
  <2>2. \A r \in Pollers : pc'[r] # "poll"
    BY <1>1, <2>1 DEF Goto, RegistryInv, LockInv
  <2>3. Awaited(q) = sum[q] /\ sum[q] \in Nat
    <3>1. CountedBy(starts, todo[q]) = {}
      BY <2>1 DEF CountedBy
    <3> QED BY <1>1, <3>1, FS_EmptySet DEF Awaited
  <2>4. reported <= sum[q] /\ sum[q] <= Total
    BY <2>1, <2>3 DEF TotalInv
  <2> QED BY <1>1, <1>3, <1>4, <2>1, <2>2, <2>3, <2>4 DEF TotalInv
<1> QED BY <1>7, <1>8, <1>9

-----------------------------------------------------------------------------
LEMMA RegistryCounts ==
  ASSUME RegistryInv, TotalInv, [Next]_vars
  PROVE  TotalInv' /\ reported' >= reported
<1>1. RegistryInv'
  BY RegistryStep
<1>2. ASSUME NEW v \in Viewers, (\E k \in Keys : Lookup(v, k)) \/ Attach(v) \/ Detach(v)
      PROVE  TotalInv' /\ reported' >= reported
  BY <1>1, <1>2, LookupCounts, WorkersCountNothing DEF Workers
<1>3. ASSUME NEW th \in Workers, Source(th) \/ Release(th) \/ Inspect(th) \/ Retire(th)
      PROVE  TotalInv' /\ reported' >= reported
  BY <1>1, <1>3, RetireCounts, WorkersCountNothing
<1>4. ASSUME NEW e \in Encoders,
             \/ Wait(e) \/ Begin(e) \/ Stop(e) \/ Crash(e) \/ Finish(e)
             \/ \E v \in Viewers : WriteFails(e, v)
      PROVE  TotalInv' /\ reported' >= reported
  BY <1>1, <1>4, BeginCounts, WorkersCountNothing DEF Workers
<1>5. ASSUME NEW q \in Pollers, Poll(q) \/ (\E p \in Pipes : Visit(q, p)) \/ PollDone(q)
      PROVE  TotalInv' /\ reported' >= reported
  BY <1>5, PollCounts
<1>6. CASE UNCHANGED vars
  BY <1>1, <1>6, TotalUndisturbed DEF vars, store, pipes
<1> QED BY <1>2, <1>3, <1>4, <1>5, <1>6 DEF Next, Workers

LEMMA CountingStart ==
  ASSUME Init
  PROVE  TotalInv
<1>1. CountedBy(starts, Pipes) = {} /\ CountedBy(starts, Registered) = {}
  BY DEF Init, CountedBy, Registered
<1>2. Total = 0 /\ reported = 0
  <2>1. Cardinality(CountedBy(starts, Registered)) = 0
    BY <1>1, FS_EmptySet
  <2>2. retired = 0 /\ reported = 0
    BY DEF Init
  <2> QED BY <2>1, <2>2 DEF Total
<1>3. \A q \in Pollers : pc[q] # "poll"
  BY Apart DEF Init, Threads, Workers
<1> QED BY <1>1, <1>2, <1>3, FS_EmptySet DEF TotalInv

(* The totals of /stats never fall, although pipelines come and go while   *)
(* they are added up: of the audio registry and of the video registry,     *)
(* while nobody changes the quality,                                       *)
THEOREM TotalsNeverFall == SafeSpec => ReportedNeverFalls
<1>1. Init => TotalInv
  BY CountingStart
<1>2. RegistryInv /\ TotalInv /\ [Next]_vars => TotalInv' /\ reported' >= reported
  BY RegistryCounts
<1>3. RegistryInv /\ TotalInv /\ [Next]_vars => [reported' >= reported]_vars
  BY <1>2
<1> QED BY <1>1, <1>2, <1>3, RegistryHolds, PTL DEF SafeSpec, ReportedNeverFalls

(* and with requests for other qualities.                                  *)
THEOREM TotalsNeverFallOfVideo == QualitySpec => ReportedNeverFalls
<1>1. QualityInit => TotalInv
  BY CountingStart DEF QualityInit
<1>2. QualityInv /\ TotalInv /\ [QualityNext]_qualityVars =>
        TotalInv' /\ reported' >= reported
  <2> SUFFICES ASSUME QualityInv, TotalInv, [QualityNext]_qualityVars
               PROVE  TotalInv' /\ reported' >= reported
    OBVIOUS
  <2>1. RegistryInv /\ RegistryInv'
    BY QualityStep DEF QualityInv
  <2>2. CASE [Next]_vars
    BY <2>1, <2>2, RegistryCounts
  <2>3. ASSUME NEW o \in Operators, Request(o) PROVE TotalInv' /\ reported' >= reported
    BY <2>1, <2>3, RequestsCountNothing
  <2> QED BY <2>2, <2>3 DEF QualityNext, RestartBrave, qualityVars
<1>3. QualityInv /\ TotalInv /\ [QualityNext]_qualityVars => [reported' >= reported]_vars
  BY <1>2
<1> QED BY <1>1, <1>2, <1>3, QualityHolds, PTL DEF QualitySpec, ReportedNeverFalls
-----------------------------------------------------------------------------
(* Whether the two levels of locks can lock each other up.                 *)
(*                                                                         *)
(* The pipelines whose p.mu a thread asks for where it is, or may ask for  *)
(* next, and whether it asks for b.mu.                                     *)
AsksFor(th, p) ==
  \/ pc[th] \in {"attach", "attached", "run", "failed", "stopped"} /\ at[th] = p
  \/ pc[th] = "inspect" /\ registry[keyOf[at[th]]] = p
  \/ pc[th] \in {"restart", "poll"} /\ p \in todo[th]

Sourcing(th) == pc[th] \in {"source", "sourceDelayed"}

AsksForRegistry(th) ==
  \/ pc[th] \in {"new", "release", "apply"}
  \/ th \in Pollers /\ pc[th] = "idle"
  \/ Sourcing(th) /\ SourceTakesLock

HoldsLock(th) == bmu = th \/ \E p \in Pipes : pmu[p] = th

Blocked(th) ==
  \/ bmu # None /\ AsksForRegistry(th)
  \/ \E p \in Pipes : pmu[p] # None /\ AsksFor(th, p)

(* While locks are held, somebody who holds one can go on.                 *)
SomeHolderGoesOn ==
  (\E th \in Threads : HoldsLock(th)) => \E th \in Threads : HoldsLock(th) /\ ~Blocked(th)

(* The holder of b.mu asks for the p.mu of a pipeline whose source         *)
(* function waits for b.mu.                                                *)
Crossed ==
  /\ SourceTakesLock
  /\ bmu # None
  /\ \E p \in Pipes : pmu[p] # None /\ AsksFor(bmu, p)

InRegistry(th) == pc[th] \in {"inspect", "retire", "poll"}

(* LockInv says that who is in a critical section holds its lock, this     *)
(* says that who holds a lock is in its critical section.                  *)
HolderInv ==
  /\ bmu # None => InRegistry(bmu)
  /\ \A p \in Pipes : pmu[p] # None => Sourcing(pmu[p]) /\ at[pmu[p]] = p

Acts(th) ==
  \/ th \in Viewers /\ ((\E k \in Keys : Lookup(th, k)) \/ Attach(th) \/ Detach(th))
  \/ th \in Workers /\ (Source(th) \/ Release(th) \/ Inspect(th) \/ Retire(th))
  \/ /\ th \in Encoders
     /\ \/ Wait(th) \/ Begin(th) \/ Stop(th) \/ Crash(th) \/ Finish(th)
        \/ \E v \in Viewers : WriteFails(th, v)
  \/ th \in Pollers /\ (Poll(th) \/ (\E p \in Pipes : Visit(th, p)) \/ PollDone(th))
  \/ th \in Operators /\ Request(th)

LEMMA NextActs == Next => \E th \in Threads : Acts(th)
  BY DEF Next, Acts, Workers, Threads

(* A thread moves nobody but itself and an encoder that is free.           *)
MovesAlone(th) ==
  /\ \A other \in Threads \ {th} :
       pc[other] = "free" \/ (pc'[other] = pc[other] /\ at'[other] = at[other])
  /\ \A other \in (Operators \cup Pollers) \ {th} : todo'[other] = todo[other]

LEMMA SourceMoves ==
  ASSUME RegistryInv, NEW th \in Workers, Source(th)
  PROVE  \E e \in Encoders, label \in {"wait", "start"} :
           /\ e = th \/ pc[e] = "free"
           /\ at' = [at EXCEPT ![e] = at[th]]
           /\ pc' = [pc EXCEPT ![th] = "attached", ![e] = label]
<1>1. CASE th \in Encoders
  BY <1>1 DEF Source, Spawn
<1>2. CASE th \in Viewers
  <2>1. pc[th] = "source" /\ th \notin Encoders
    BY <1>2, Apart DEF Source, RegistryInv, TypeOK, ViewerLabels
  <2>2. PICK e \in Encoders : e = (CHOOSE f \in Encoders : pc[f] = "free") /\ pc[e] = "free"
    BY <1>2, <2>1, FreeEncoder
  <2> QED BY <2>1, <2>2 DEF Source, Spawn
<1> QED BY <1>1, <1>2 DEF Workers

LEMMA ActsAlone ==
  ASSUME RegistryInv, NEW th \in Threads, Acts(th)
  PROVE  MovesAlone(th)
<1>0. /\ pc \in [Threads -> ViewerLabels \cup EncoderLabels
                              \cup {"idle", "resize", "apply", "restart", "poll"}]
      /\ at \in [Threads -> Pipes \cup {None}]
      /\ todo \in [Operators \cup Pollers -> SUBSET Pipes]
  BY DEF RegistryInv, TypeOK
<1>1. \A other \in Threads \ {th} :
        pc[other] = "free" \/ (pc'[other] = pc[other] /\ at'[other] = at[other])
  <2>1. ASSUME \/ UNCHANGED at
               \/ \E p : at' = [at EXCEPT ![th] = p],
               \/ UNCHANGED pc
               \/ \E label : Goto(th, label)
        PROVE  \A other \in Threads \ {th} :
                 pc'[other] = pc[other] /\ at'[other] = at[other]
    BY <1>0, <2>1 DEF Goto
  <2>2. CASE th \in Viewers /\ \E k \in Keys : Lookup(th, k)
    BY <2>1, <2>2 DEF Lookup
  <2>3. CASE th \in Viewers /\ (Attach(th) \/ Detach(th))
    BY <2>1, <2>3 DEF Attach, Detach, StartLocked, Remove, ReportIdle
  <2>4. CASE th \in Workers /\ Source(th)
    BY <1>0, <2>4, SourceMoves
  <2>5. CASE th \in Workers /\ (Release(th) \/ Inspect(th) \/ Retire(th))
    BY <2>1, <2>5, Returns DEF Release, Inspect, Retire
  <2>6. CASE th \in Encoders /\ \/ Wait(th) \/ Begin(th) \/ Stop(th) \/ Crash(th) \/ Finish(th)
                                \/ \E v \in Viewers : WriteFails(th, v)
    BY <2>1, <2>6 DEF Wait, Begin, Stop, Crash, Finish, WriteFails, StartLocked, Remove,
                      ReportIdle
  <2>7. CASE th \in Pollers /\ (Poll(th) \/ (\E p \in Pipes : Visit(th, p)) \/ PollDone(th))
    BY <2>1, <2>7 DEF Poll, Visit, PollDone
  <2>8. CASE th \in Operators /\ Request(th)
    BY <2>1, <2>8 DEF Request, Ask, Resize, ResizeFails, Apply, SetProfile, Restart,
                      SetProfileDone
  <2> QED BY <2>2, <2>3, <2>4, <2>5, <2>6, <2>7, <2>8 DEF Acts
<1>2. UNCHANGED todo \/ \E left : todo' = [todo EXCEPT ![th] = left]
  <2>1. CASE th \in Viewers /\ ((\E k \in Keys : Lookup(th, k)) \/ Attach(th) \/ Detach(th))
    BY <2>1 DEF Lookup, Attach, Detach
  <2>2. CASE th \in Workers /\ (Source(th) \/ Release(th) \/ Inspect(th) \/ Retire(th))
    BY <2>2 DEF Source, Release, Inspect, Retire
  <2>3. CASE th \in Encoders /\ \/ Wait(th) \/ Begin(th) \/ Stop(th) \/ Crash(th) \/ Finish(th)
                                \/ \E v \in Viewers : WriteFails(th, v)
    BY <2>3 DEF Wait, Begin, Stop, Crash, Finish, WriteFails
  <2>4. CASE th \in Pollers /\ (Poll(th) \/ (\E p \in Pipes : Visit(th, p)) \/ PollDone(th))
    BY <2>4 DEF Poll, Visit, PollDone
  <2>5. CASE th \in Operators /\ Request(th)
    <3>1. CASE \E p \in Pipes : Restart(th, p)
      BY <3>1 DEF Restart
    <3>2. CASE Apply(th)
      BY <3>2 DEF Apply, SetProfile
    <3>3. CASE (\E f \in Profiles : Ask(th, f)) \/ Resize(th) \/ ResizeFails(th) \/ SetProfileDone(th)
      BY <3>3 DEF Ask, Resize, ResizeFails, SetProfileDone
    <3> QED BY <2>5, <3>1, <3>2, <3>3 DEF Request
  <2> QED BY <2>1, <2>2, <2>3, <2>4, <2>5 DEF Acts
<1> QED BY <1>0, <1>1, <1>2 DEF MovesAlone
(* b.mu changes hands only on the way into and out of its section.         *)
LEMMA RegistryLockMoves ==
  ASSUME RegistryInv, NEW th \in Threads, Acts(th)
  PROVE  \/ bmu' = None
         \/ bmu' = bmu /\ (InRegistry(th) => InRegistry(th)')
         \/ bmu' = th /\ InRegistry(th)'
<1> USE DEF InRegistry
<1>0. pc \in [Threads -> ViewerLabels \cup EncoderLabels
                           \cup {"idle", "resize", "apply", "restart", "poll"}]
  BY DEF RegistryInv, TypeOK
<1>1. CASE th \in Viewers /\ ((\E k \in Keys : Lookup(th, k)) \/ Attach(th) \/ Detach(th))
  BY <1>1 DEF Lookup, Attach, Detach, locks
<1>2. CASE th \in Workers /\ Source(th)
  BY <1>2 DEF Source
<1>3. CASE th \in Workers /\ Release(th)
  BY <1>0, <1>3 DEF Release, Goto
<1>4. CASE th \in Workers /\ Inspect(th)
  BY <1>0, <1>4 DEF Inspect, Goto
<1>5. CASE th \in Workers /\ Retire(th)
  BY <1>5 DEF Retire
<1>6. CASE th \in Encoders /\ \/ Wait(th) \/ Begin(th) \/ Stop(th) \/ Crash(th) \/ Finish(th)
                              \/ \E v \in Viewers : WriteFails(th, v)
  BY <1>6 DEF Wait, Begin, Stop, Crash, Finish, WriteFails, locks
<1>7. CASE th \in Pollers /\ (Poll(th) \/ (\E p \in Pipes : Visit(th, p)) \/ PollDone(th))
  BY <1>0, <1>7 DEF Poll, Visit, PollDone, Goto, locks
<1>8. CASE th \in Operators /\ Request(th)
  BY <1>0, <1>8 DEF Request, Ask, Resize, ResizeFails, Apply, SetProfile, Restart,
                    SetProfileDone, locks
<1> QED BY <1>1, <1>2, <1>3, <1>4, <1>5, <1>6, <1>7, <1>8 DEF Acts

(* p.mu is held over the call of the source function, and over no other.   *)
LEMMA StartHolds ==
  ASSUME RegistryInv, NEW th \in Workers, NEW p \in Pipes, NEW delayed \in BOOLEAN,
         StartLocked(th, p, delayed)
  PROVE  /\ pmu' = [pmu EXCEPT ![p] = th]
         /\ Sourcing(th)'
<1>1. th \in Threads
  BY DEF Workers, Threads
<1> QED BY <1>1 DEF StartLocked, Goto, Sourcing, RegistryInv, TypeOK

LEMMA PipeLockMoves ==
  ASSUME RegistryInv, NEW th \in Threads, Acts(th), NEW p \in Pipes
  PROVE  \/ pmu'[p] = None
         \/ pmu'[p] = pmu[p] /\ (Sourcing(th) => at[th] # p)
         \/ pmu'[p] = th /\ Sourcing(th)' /\ at'[th] = p /\ pmu[p] = None
<1> DEFINE Kept == pmu'[p] = pmu[p] /\ (Sourcing(th) => at[th] # p)
           Taken == pmu'[p] = th /\ Sourcing(th)' /\ at'[th] = p /\ pmu[p] = None
<1>0. pmu \in [Pipes -> Viewers \cup Encoders \cup {None}]
  BY DEF RegistryInv, TypeOK
<1>1. CASE th \in Viewers /\ ((\E k \in Keys : Lookup(th, k)) \/ Detach(th))
  BY <1>1 DEF Lookup, Detach, locks, Sourcing
<1>2. CASE th \in Viewers /\ Attach(th)
  <2>1. th \in Workers /\ at[th] \in Pipes /\ ~Sourcing(th)
    BY <1>2, Apart DEF Attach, RegistryInv, AllocInv, Workers, Sourcing
  <2>2. pmu[at[th]] = None /\ UNCHANGED at
    BY <1>2 DEF Attach
  <2>3. CASE supply[at[th]] = "off"
    <3>1. StartLocked(th, at[th], FALSE)
      BY <1>2, <2>3 DEF Attach
    <3>2. pmu' = [pmu EXCEPT ![at[th]] = th] /\ Sourcing(th)'
      BY <2>1, <3>1, StartHolds
    <3>3. CASE p = at[th]
      BY <1>0, <2>2, <3>2, <3>3
    <3>4. CASE p # at[th]
      BY <1>0, <2>1, <3>2, <3>4
    <3> QED BY <3>3, <3>4
  <2>4. CASE supply[at[th]] # "off"
    BY <1>2, <2>1, <2>4 DEF Attach
  <2> QED BY <2>3, <2>4
<1>3. CASE th \in Workers /\ Source(th)
  BY <1>0, <1>3 DEF Source
<1>4. CASE th \in Workers /\ (Release(th) \/ Inspect(th) \/ Retire(th))
  BY <1>4 DEF Release, Inspect, Retire, Sourcing
<1>5. CASE th \in Encoders /\ \/ Wait(th) \/ Begin(th) \/ Stop(th) \/ Crash(th)
                              \/ \E v \in Viewers : WriteFails(th, v)
  BY <1>5 DEF Wait, Begin, Stop, Crash, WriteFails, locks, Sourcing
<1>6. CASE th \in Encoders /\ Finish(th)
  <2>1. th \in Workers /\ at[th] \in Pipes /\ ~Sourcing(th)
    BY <1>6, Apart DEF Finish, RegistryInv, AllocInv, Workers, Sourcing
  <2>2. pmu[at[th]] = None /\ UNCHANGED at
    BY <1>6 DEF Finish
  <2>3. CASE tracks[at[th]] = {}
    BY <1>6, <2>1, <2>3 DEF Finish
  <2>4. CASE tracks[at[th]] # {}
    <3>1. \E delayed \in BOOLEAN : StartLocked(th, at[th], delayed)
      BY <1>6, <2>4 DEF Finish
    <3>2. pmu' = [pmu EXCEPT ![at[th]] = th] /\ Sourcing(th)'
      BY <2>1, <3>1, StartHolds
    <3>3. CASE p = at[th]
      BY <1>0, <2>2, <3>2, <3>3
    <3>4. CASE p # at[th]
      BY <1>0, <2>1, <3>2, <3>4
    <3> QED BY <3>3, <3>4
  <2> QED BY <2>3, <2>4
<1>7. CASE th \in Pollers /\ (Poll(th) \/ (\E r \in Pipes : Visit(th, r)) \/ PollDone(th))
  BY <1>7 DEF Poll, Visit, PollDone, locks, Sourcing
<1>8. CASE th \in Operators /\ Request(th)
  BY <1>8 DEF Request, Ask, Resize, ResizeFails, Apply, SetProfile, Restart,
              SetProfileDone, locks, Sourcing
<1> QED BY <1>1, <1>2, <1>3, <1>4, <1>5, <1>6, <1>7, <1>8 DEF Acts

LEMMA HolderStep ==
  ASSUME RegistryInv, HolderInv, NEW th \in Threads, Acts(th)
  PROVE  HolderInv'
<1>0. /\ bmu \in Threads \cup {None}
      /\ pmu \in [Pipes -> Viewers \cup Encoders \cup {None}]
      /\ Viewers \cup Encoders \subseteq Threads
  BY DEF RegistryInv, TypeOK, Threads
<1>1. MovesAlone(th)
  BY ActsAlone
<1>2. ASSUME bmu' # None PROVE InRegistry(bmu)'
  <2>1. CASE bmu' = bmu /\ (InRegistry(th) => InRegistry(th)')
    <3>1. InRegistry(bmu) /\ bmu \in Threads
      BY <1>0, <1>2, <2>1 DEF HolderInv
    <3>2. CASE bmu = th
      BY <2>1, <3>1, <3>2 DEF InRegistry
    <3>3. CASE bmu # th
      BY <1>1, <2>1, <3>1, <3>3 DEF MovesAlone, InRegistry
    <3> QED BY <3>2, <3>3
  <2>2. CASE bmu' = th /\ InRegistry(th)'
    BY <2>2 DEF InRegistry
  <2> QED BY <1>2, <2>1, <2>2, RegistryLockMoves
<1>3. ASSUME NEW p \in Pipes, pmu'[p] # None
      PROVE  Sourcing(pmu[p])' /\ at'[pmu'[p]] = p
  <2>1. CASE pmu'[p] = pmu[p] /\ (Sourcing(th) => at[th] # p)
    <3>1. Sourcing(pmu[p]) /\ at[pmu[p]] = p /\ pmu[p] \in Threads
      BY <1>0, <1>3, <2>1 DEF HolderInv
    <3>2. pmu[p] # th
      BY <2>1, <3>1
    <3> QED BY <1>1, <2>1, <3>1, <3>2 DEF MovesAlone, Sourcing
  <2>2. CASE pmu'[p] = th /\ Sourcing(th)' /\ at'[th] = p
    BY <2>2 DEF Sourcing
  <2> QED BY <1>3, <2>1, <2>2, PipeLockMoves
<1> QED BY <1>2, <1>3 DEF HolderInv, InRegistry, Sourcing

LEMMA HolderStart ==
  ASSUME Init
  PROVE  HolderInv
  BY DEF Init, HolderInv

(* Who waits for what.  The holder of a p.mu is in the source function and *)
(* asks for no other p.mu; the holder of b.mu does not ask for b.mu.  So   *)
(* of the holders one can go on, unless the two kinds wait for each other. *)
LEMMA OnlyCrossedStops ==
  ASSUME RegistryInv, HolderInv
  PROVE  SomeHolderGoesOn \/ Crossed
<1> SUFFICES ASSUME ~Crossed, NEW h \in Threads, HoldsLock(h)
             PROVE  \E th \in Threads : HoldsLock(th) /\ ~Blocked(th)
  BY DEF SomeHolderGoesOn
<1>0. /\ bmu \in Threads \cup {None}
      /\ pmu \in [Pipes -> Viewers \cup Encoders \cup {None}]
      /\ Viewers \cup Encoders \subseteq Threads
  BY DEF RegistryInv, TypeOK, Threads
<1>1. CASE bmu # None /\ ~Blocked(bmu)
  BY <1>0, <1>1 DEF HoldsLock
<1>2. CASE bmu # None /\ Blocked(bmu)
  <2>1. InRegistry(bmu)
    BY <1>2 DEF HolderInv
  <2>2. ~AsksForRegistry(bmu)
    BY <2>1 DEF InRegistry, AsksForRegistry, Sourcing
  <2>3. PICK p \in Pipes : pmu[p] # None /\ AsksFor(bmu, p)
    BY <1>2, <2>2 DEF Blocked
  <2>4. ~SourceTakesLock
    BY <1>2, <2>3 DEF Crossed
  <2>5. pmu[p] \in Threads /\ HoldsLock(pmu[p]) /\ Sourcing(pmu[p])
    BY <1>0, <2>3 DEF HoldsLock, HolderInv
  <2>6. ~Blocked(pmu[p])
    BY <2>4, <2>5 DEF Blocked, AsksForRegistry, AsksFor, Sourcing
  <2> QED BY <2>5, <2>6
<1>3. CASE bmu = None
  <2>1. PICK p \in Pipes : pmu[p] = h
    BY <1>3, Apart DEF HoldsLock, Threads, Workers
  <2>2. Sourcing(h)
    <3>1. h # None
      BY Apart DEF Threads, Workers
    <3> QED BY <2>1, <3>1 DEF HolderInv
  <2>3. ~Blocked(h)
    BY <1>3, <2>2 DEF Blocked, AsksFor, Sourcing
  <2> QED BY <2>3
<1> QED BY <1>1, <1>2, <1>3
(* Crossed, no thread gets any further: the one in the registry needs the  *)
(* lock of p, and the lock of p is held by one that needs the registry.    *)
LEMMA CrossedStep ==
  ASSUME RegistryInv, HolderInv, Crossed, NEW th \in Threads, Acts(th)
  PROVE  Crossed'
<1>h. PICK h \in Threads : h = bmu /\ h # None
  BY DEF RegistryInv, TypeOK, Crossed
<1>1. PICK p \in Pipes : pmu[p] # None /\ AsksFor(h, p)
  BY <1>h DEF Crossed
<1>0. /\ SourceTakesLock
      /\ pmu \in [Pipes -> Viewers \cup Encoders \cup {None}]
      /\ todo \in [Operators \cup Pollers -> SUBSET Pipes]
  BY DEF RegistryInv, TypeOK, Crossed
<1>2. \/ pc[h] = "inspect" /\ registry[keyOf[at[h]]] = p
      \/ pc[h] = "poll" /\ p \in todo[h]
  BY <1>h, <1>1 DEF HolderInv, InRegistry, AsksFor
<1>3. MovesAlone(th)
  BY ActsAlone
<1>4. ~(th \in Viewers /\ \E k \in Keys : Lookup(th, k))
  BY <1>h DEF Lookup
<1>5. ~(th \in Workers /\ (Source(th) \/ Release(th)))
  BY <1>h, <1>0 DEF Source, Release
<1>6. ~(th \in Workers /\ Inspect(th))
  <2> SUFFICES ASSUME th \in Workers, Inspect(th) PROVE FALSE
    OBVIOUS
  <2>1. pc[th] = "inspect" /\ pmu[registry[keyOf[at[th]]]] = None
    BY DEF Inspect
  <2>2. h = th
    BY <1>h, <2>1 DEF RegistryInv, LockInv
  <2> QED BY <1>1, <1>2, <2>1, <2>2
<1>7. ~(th \in Workers /\ Retire(th))
  <2> SUFFICES ASSUME th \in Workers, Retire(th) PROVE FALSE
    OBVIOUS
  <2>1. pc[th] = "retire"
    BY DEF Retire
  <2>2. h = th
    BY <1>h, <2>1 DEF RegistryInv, LockInv
  <2> QED BY <1>2, <2>1, <2>2
<1>8. ~(th \in Pollers /\ (Poll(th) \/ PollDone(th)))
  <2>1. ASSUME th \in Pollers, Poll(th) PROVE FALSE
    BY <1>h, <2>1 DEF Poll
  <2>2. ASSUME th \in Pollers, PollDone(th) PROVE FALSE
    <3>1. pc[th] = "poll" /\ todo[th] = {}
      BY <2>2 DEF PollDone
    <3>2. h = th
      BY <1>h, <2>2, <3>1 DEF RegistryInv, LockInv
    <3> QED BY <1>2, <3>1, <3>2
  <2> QED BY <2>1, <2>2
<1>9. ~(th \in Operators /\ Apply(th))
  BY <1>h DEF Apply, SetProfile
<1>10. UNCHANGED <<bmu, registry, keyOf>>
  <2>1. CASE th \in Viewers /\ (Attach(th) \/ Detach(th))
    BY <2>1 DEF Attach, Detach, locks, store
  <2>2. CASE th \in Encoders /\ \/ Wait(th) \/ Begin(th) \/ Stop(th) \/ Crash(th) \/ Finish(th)
                                \/ \E v \in Viewers : WriteFails(th, v)
    BY <2>2 DEF Wait, Begin, Stop, Crash, Finish, WriteFails, locks, store
  <2>3. CASE th \in Pollers /\ \E r \in Pipes : Visit(th, r)
    BY <2>3 DEF Visit, locks, store
  <2>4. CASE th \in Operators /\ Request(th)
    BY <1>9, <2>4 DEF Request, Ask, Resize, ResizeFails, Restart, SetProfileDone,
                      locks, store
  <2> QED BY <1>4, <1>5, <1>6, <1>7, <1>8, <2>1, <2>2, <2>3, <2>4 DEF Acts
<1>11. pmu'[p] # None
  <2>1. th # None
    BY Apart DEF Threads, Workers
  <2>2. CASE th \in Viewers /\ (Attach(th) \/ Detach(th))
    BY <1>0, <1>1, <2>1, <2>2 DEF Attach, Detach, StartLocked, locks
  <2>3. CASE th \in Encoders /\ \/ Wait(th) \/ Begin(th) \/ Stop(th) \/ Crash(th) \/ Finish(th)
                                \/ \E v \in Viewers : WriteFails(th, v)
    BY <1>0, <1>1, <2>1, <2>3
       DEF Wait, Begin, Stop, Crash, Finish, WriteFails, StartLocked, locks
  <2>4. CASE th \in Pollers /\ \E r \in Pipes : Visit(th, r)
    BY <1>1, <2>4 DEF Visit, locks
  <2>5. CASE th \in Operators /\ Request(th)
    BY <1>1, <1>9, <2>5 DEF Request, Ask, Resize, ResizeFails, Restart, SetProfileDone,
                            locks
  <2> QED BY <1>4, <1>5, <1>6, <1>7, <1>8, <2>2, <2>3, <2>4, <2>5 DEF Acts
<1>12. AsksFor(h, p)'
  <2>1. CASE th # h
    <3>1. pc'[h] = pc[h] /\ at'[h] = at[h]
      BY <1>h, <1>2, <1>3, <2>1 DEF MovesAlone
    <3>2. CASE pc[h] = "inspect" /\ registry[keyOf[at[h]]] = p
      BY <1>10, <3>1, <3>2 DEF AsksFor
    <3>3. CASE pc[h] = "poll" /\ p \in todo[h]
      <4>1. h \in Operators \cup Pollers
        BY <3>3 DEF RegistryInv, TypeOK, Threads, ViewerLabels, EncoderLabels
      <4>2. todo'[h] = todo[h]
        BY <1>3, <2>1, <4>1 DEF MovesAlone
      <4> QED BY <1>10, <3>1, <3>3, <4>2 DEF AsksFor
    <3> QED BY <1>2, <3>2, <3>3
  <2>2. CASE th = h
    <3>1. th \in Pollers /\ \E r \in Pipes : Visit(th, r)
      <4>1. pc[th] \in {"inspect", "poll"}
        BY <1>2, <2>2
      <4>2. ~(th \in Viewers /\ (Attach(th) \/ Detach(th)))
        BY <4>1 DEF Attach, Detach
      <4>3. ~(th \in Encoders /\ \/ Wait(th) \/ Begin(th) \/ Stop(th) \/ Crash(th)
                                 \/ Finish(th) \/ \E v \in Viewers : WriteFails(th, v))
        BY <4>1 DEF Wait, Begin, Stop, Crash, Finish, WriteFails
      <4>4. ~(th \in Operators /\ Request(th))
        BY <4>1 DEF Request, Ask, Resize, ResizeFails, Apply, Restart, SetProfileDone
      <4> QED BY <1>4, <1>5, <1>6, <1>7, <1>8, <4>2, <4>3, <4>4 DEF Acts
    <3>2. PICK r \in Pipes : Visit(th, r)
      BY <3>1
    <3>3. /\ pc[th] = "poll" /\ pmu[r] = None /\ UNCHANGED pc
          /\ todo' = [todo EXCEPT ![th] = @ \ {r}]
      BY <3>2 DEF Visit
    <3>4. p \in todo[h] /\ r # p
      BY <1>1, <1>2, <2>2, <3>3
    <3>5. p \in todo'[h]
      BY <1>0, <2>2, <3>1, <3>3, <3>4
    <3> QED BY <2>2, <3>3, <3>5 DEF AsksFor
  <2> QED BY <2>1, <2>2
<1>13. bmu' = h /\ SourceTakesLock'
  BY <1>h, <1>0, <1>10 DEF SourceTakesLock
<1> QED BY <1>h, <1>11, <1>12, <1>13 DEF Crossed, AsksFor

(* The audio registry, whose source function takes no lock, never locks    *)
(* up: however many subscribers, encoders and pollers meet, one of those   *)
(* who hold a lock can go on.                                              *)
THEOREM AudioNeverLocksUp ==
  ASSUME ~SourceLocks PROVE SafeSpec => []SomeHolderGoesOn
<1>1. Init => HolderInv
  BY HolderStart
<1>2. RegistryInv /\ HolderInv /\ [Next]_vars => HolderInv'
  <2>1. UNCHANGED vars => (HolderInv => HolderInv')
    BY DEF vars, locks, HolderInv, InRegistry, Sourcing
  <2> QED BY <2>1, NextActs, HolderStep
<1>3. RegistryInv /\ HolderInv => SomeHolderGoesOn
  BY OnlyCrossedStops DEF Crossed, SourceTakesLock
<1> QED BY <1>1, <1>2, <1>3, RegistryHolds, PTL DEF SafeSpec

LEMMA QualityHolders ==
  /\ QualityInit => HolderInv
  /\ QualityInv /\ HolderInv /\ [QualityNext]_qualityVars => HolderInv'
<1>1. UNCHANGED vars => (HolderInv => HolderInv')
  BY DEF vars, locks, HolderInv, InRegistry, Sourcing
<1>2. ASSUME [QualityNext]_qualityVars
      PROVE  UNCHANGED vars \/ \E th \in Threads : Acts(th)
  BY <1>2, NextActs DEF QualityNext, RestartBrave, qualityVars, Acts, Threads
<1>3. QualityInit => HolderInv
  BY HolderStart DEF QualityInit
<1>4. QualityInv /\ HolderInv /\ [QualityNext]_qualityVars => HolderInv'
  BY <1>1, <1>2, HolderStep DEF QualityInv
<1> QED BY <1>3, <1>4

(* The video registry locks up in one way only: who holds b.mu (a release  *)
(* or Stats) wants the lock of a pipeline whose subscriber is in           *)
(* videoSource and wants b.mu.                                             *)
THEOREM OnlySourceLocksUp == QualitySpec => [](SomeHolderGoesOn \/ Crossed)
<1>1. QualityInv /\ HolderInv => SomeHolderGoesOn \/ Crossed
  BY OnlyCrossedStops DEF QualityInv
<1> QED BY <1>1, QualityHolders, QualityHolds, PTL DEF QualitySpec

(* And then it stays locked up: whatever the others still do, requests,    *)
(* restarts of Brave and dying encoders included.                          *)
THEOREM LockUpIsForEver == QualitySpec => [][Crossed => Crossed']_qualityVars
<1>1. QualityInv /\ HolderInv /\ [QualityNext]_qualityVars =>
        [Crossed => Crossed']_qualityVars
  <2>1. UNCHANGED vars => (Crossed => Crossed')
    BY DEF vars, locks, store, Crossed, AsksFor, SourceTakesLock
  <2>2. ASSUME [QualityNext]_qualityVars
        PROVE  UNCHANGED vars \/ \E th \in Threads : Acts(th)
    BY <2>2, NextActs DEF QualityNext, RestartBrave, qualityVars, Acts, Threads
  <2> QED BY <2>1, <2>2, CrossedStep DEF QualityInv
<1> QED BY <1>1, QualityHolders, QualityHolds, PTL DEF QualitySpec
================================================================================
