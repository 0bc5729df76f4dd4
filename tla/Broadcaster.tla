----------------------------- MODULE Broadcaster -----------------------------
(***************************************************************************)
(* The registry of encoder pipelines, one per delivery key                 *)
(* (internal/stream/broadcaster.go, and audio.go, which has the same       *)
(* shape), with its two levels of locks: b.mu around the registry, p.mu    *)
(* around each pipeline.  Pipeline models what one encoder does between    *)
(* two frames; here an encoder is a goroutine that runs, is told to stop,  *)
(* exits and may be started again, and what matters is who holds which     *)
(* lock and which pipeline is still in the registry.                       *)
(*                                                                         *)
(* A thread is a viewer (Subscribe, then its unsubscribe closure), an      *)
(* encoder goroutine, a poller (Stats) or an operator, whose requests call *)
(* SetProfile and are the subject of Quality, which extends this module. A *)
(* critical section that takes no second lock is one action, guarded by    *)
(* its lock being free; a thread that waits for a second lock is recorded  *)
(* as the holder of the first.                                             *)
(***************************************************************************)
EXTENDS Naturals, FiniteSets

CONSTANTS
  Viewers, Encoders, Operators, Pollers,  \* the threads
  Keys,              \* deliveryKey (video) or AudioSpec (audio)
  Pipes,             \* the pipeline objects that can be allocated
  Profiles,          \* capture geometries, the first one configured
  FirstProfile,
  SourceLocks,       \* TRUE: videoSource takes b.mu; FALSE: audioSource does not
  MaxChanges,        \* bound on requests to change the profile
  MaxCrashes,        \* bound on encoders that die unasked
  MaxWriteFailures,  \* bound on failed WriteSample calls
  None

ASSUME BroadcasterAssumption ==
  /\ SourceLocks \in BOOLEAN
  /\ FirstProfile \in Profiles
  /\ None \notin Profiles \cup Pipes \cup Keys \cup Viewers \cup Encoders
                   \cup Operators \cup Pollers
  /\ {MaxChanges, MaxCrashes, MaxWriteFailures} \subseteq Nat
  /\ Viewers \cap Encoders = {}
  /\ (Operators \cup Pollers) \cap (Viewers \cup Encoders) = {}
  /\ Operators \cap Pollers = {}
  \* every viewer subscribes once, so that neither pool can run dry
  /\ IsFiniteSet(Viewers) /\ IsFiniteSet(Pipes) /\ IsFiniteSet(Encoders)
  /\ Cardinality(Pipes) >= Cardinality(Viewers)
  /\ Cardinality(Encoders) >= Cardinality(Viewers)

Threads == Viewers \cup Encoders \cup Operators \cup Pollers

VARIABLES
  bmu,       \* the thread that holds b.mu, or None
  pmu,       \* per pipeline: the thread that holds p.mu over a call, or None
  profile,   \* b.cfg.Profile
  registry,  \* b.pipelines
  keyOf,     \* the key a pipeline was allocated for, None if it is not
  tracks,    \* p.tracks
  supply,    \* "off": ~running, "on": running, "stopping": running, cancelled
  spec,      \* the profile in the source of the current encoder
  starts,    \* p.captureStarts
  retired,   \* b.stats.captureStarts
  pc, at,    \* per thread: where it is, and the pipeline it is working on
  back,      \* per encoder: where release returns to
  todo,      \* operators and pollers: the pipelines still to be visited
  sum,       \* pollers: what Stats has added up so far
  reported,  \* the capture starts the last Stats call returned
  spent      \* how much of each bound is used up

locks == <<bmu, pmu>>
store == <<profile, registry, keyOf, retired>>
pipes == <<tracks, supply, spec, starts>>
polls == <<sum, reported>>
vars == <<locks, store, pipes, pc, at, back, todo, polls, spent>>

Init ==
  /\ bmu = None
  /\ pmu = [p \in Pipes |-> None]
  /\ profile = FirstProfile
  /\ registry = [k \in Keys |-> None]
  /\ keyOf = [p \in Pipes |-> None]
  /\ tracks = [p \in Pipes |-> {}]
  /\ supply = [p \in Pipes |-> "off"]
  /\ spec = [p \in Pipes |-> None]
  /\ starts = [p \in Pipes |-> 0]
  /\ retired = 0
  /\ pc = [th \in Threads |-> CASE th \in Viewers -> "new"
                                [] th \in Encoders -> "free"
                                [] OTHER -> "idle"]
  /\ at = [th \in Threads |-> None]
  /\ back = [e \in Encoders |-> "free"]
  /\ todo = [th \in Operators \cup Pollers |-> {}]
  /\ sum = [q \in Pollers |-> 0]
  /\ reported = 0
  /\ spent = [changes |-> 0, crashes |-> 0, writes |-> 0]

Goto(th, label) == pc' = [pc EXCEPT ![th] = label]

Registered == {p \in Pipes : \E k \in Keys : registry[k] = p}

-----------------------------------------------------------------------------
(* Subscribe, under b.mu: find the pipeline of the key or register one.    *)
Lookup(v, k) ==
  /\ pc[v] = "new"
  /\ bmu = None
  /\ LET known == registry[k] # None
         p == IF known THEN registry[k]
                       ELSE CHOOSE q \in Pipes : keyOf[q] = None
     IN  /\ at' = [at EXCEPT ![v] = p]
         /\ registry' = [registry EXCEPT ![k] = p]
         /\ keyOf' = [keyOf EXCEPT ![p] = k]
  /\ Goto(v, "attach")
  /\ UNCHANGED <<locks, profile, retired, pipes, back, todo, polls, spent>>

(* The goroutine startLocked leaves behind.  An encoder that starts its    *)
(* own successor has nothing left to do but to return, so the successor    *)
(* takes over its identity.                                                *)
Spawn(th, p, delayed) ==
  LET e == IF th \in Encoders THEN th
                              ELSE CHOOSE f \in Encoders : pc[f] = "free"
  IN  /\ at' = [at EXCEPT ![e] = p]
      /\ pc' = [pc EXCEPT ![th] = "attached",
                          ![e] = IF delayed THEN "wait" ELSE "start"]

(* Whether the source function of a pipeline goes back to its registry.    *)
SourceTakesLockAlways == TRUE

SourceTakesLock == SourceLocks

(* startLocked calls the source function while p.mu is held.               *)
StartLocked(th, p, delayed) ==
  /\ supply' = [supply EXCEPT ![p] = "on"]
  /\ spec' = [spec EXCEPT ![p] = None]
  /\ pmu' = [pmu EXCEPT ![p] = th]
  /\ Goto(th, IF delayed THEN "sourceDelayed" ELSE "source")

(* videoSource, under b.mu, or audioSource, which needs no lock; then      *)
(* startLocked and its caller return.                                      *)
Source(th) ==
  /\ pc[th] \in {"source", "sourceDelayed"}
  /\ SourceTakesLock => bmu = None
  /\ LET p == at[th]
     IN  /\ spec' = [spec EXCEPT ![p] = profile]
         /\ pmu' = [pmu EXCEPT ![p] = None]
         /\ Spawn(th, p, pc[th] = "sourceDelayed")
  /\ UNCHANGED <<bmu, store, tracks, supply, starts, back, todo, polls,
                 spent>>

(* subscribe, under p.mu.                                                  *)
Attach(v) ==
  LET p == at[v] IN
  /\ pc[v] = "attach"
  /\ pmu[p] = None
  /\ tracks' = [tracks EXCEPT ![p] = @ \cup {v}]
  /\ IF supply[p] = "off"
     THEN StartLocked(v, p, FALSE)
     ELSE /\ Goto(v, "attached")
          /\ UNCHANGED <<pmu, supply, spec>>
  /\ UNCHANGED <<bmu, store, starts, at, back, todo, polls, spent>>

SupplyAfterKeepsOn(p, rest) == supply[p]

SupplyAfterTurnsOff(p, rest) == IF rest = {} THEN "off" ELSE supply[p]

SupplyAfter(p, rest) ==
  IF rest = {} /\ supply[p] = "on" THEN "stopping" ELSE supply[p]

(* onIdle: remove and finish report a pipeline without tracks.             *)
ReportIdleFromRemoveOnly(th, idle, otherwise) ==
  Goto(th, IF idle /\ pc[th] \in {"attached", "run"} THEN "release"
                                                    ELSE otherwise)

ReportIdle(th, idle, otherwise) ==
  Goto(th, IF idle THEN "release" ELSE otherwise)

(* remove, under p.mu: the last track to go cancels the encoder and its    *)
(* remover then reports the idle pipeline to the registry.                 *)
Remove(th, p, v, otherwise) ==
  LET rest == tracks[p] \ {v} IN
  /\ pmu[p] = None
  /\ tracks' = [tracks EXCEPT ![p] = rest]
  /\ supply' = [supply EXCEPT ![p] = SupplyAfter(p, rest)]
  /\ ReportIdle(th, rest = {}, otherwise)

Detach(v) ==
  /\ pc[v] = "attached"
  /\ Remove(v, at[v], v, "gone")
  /\ UNCHANGED <<locks, store, spec, starts, at, back, todo, polls, spent>>

-----------------------------------------------------------------------------
(* release runs at the end of remove and of finish, on the caller's        *)
(* thread.  It looks the key up again: what it finds there may be another  *)
(* pipeline, and the one it was called for may no longer be registered.    *)
Return(th) == Goto(th, IF th \in Viewers THEN "gone" ELSE back[th])

Release(th) ==
  /\ pc[th] = "release"
  /\ bmu = None
  /\ IF registry[keyOf[at[th]]] = None
     THEN Return(th) /\ UNCHANGED bmu
     ELSE Goto(th, "inspect") /\ bmu' = th
  /\ UNCHANGED <<pmu, store, pipes, at, back, todo, polls, spent>>

Idle(p) == supply[p] = "off" /\ tracks[p] = {}

(* entry.stats(), under p.mu while b.mu is held.                           *)
Inspect(th) ==
  LET p == registry[keyOf[at[th]]] IN
  /\ pc[th] = "inspect"
  /\ pmu[p] = None
  /\ IF Idle(p)
     THEN Goto(th, "retire") /\ UNCHANGED bmu
     ELSE Return(th) /\ bmu' = None
  /\ UNCHANGED <<pmu, store, pipes, at, back, todo, polls, spent>>

RetiredKept(p) == retired

(* The counters of a pipeline outlive it.                                  *)
RetiredWith(p) == retired + starts[p]

Retire(th) ==
  LET k == keyOf[at[th]] IN
  /\ pc[th] = "retire"
  /\ retired' = RetiredWith(registry[k])
  /\ registry' = [registry EXCEPT ![k] = None]
  /\ bmu' = None
  /\ Return(th)
  /\ UNCHANGED <<pmu, profile, keyOf, pipes, at, back, todo, polls, spent>>

-----------------------------------------------------------------------------
(* The encoder goroutine: the retry delay, then run.                       *)
Wait(e) ==
  /\ pc[e] = "wait"
  /\ \/ Goto(e, "start")
     \/ supply[at[e]] = "stopping" /\ Goto(e, "stopped")
  /\ UNCHANGED <<locks, store, pipes, at, back, todo, polls, spent>>

Begin(e) ==
  /\ pc[e] = "start"
  /\ starts' = [starts EXCEPT ![at[e]] = @ + 1]
  /\ Goto(e, "run")
  /\ UNCHANGED <<locks, store, tracks, supply, spec, at, back, todo, polls,
                 spent>>

(* A cancelled encoder stops; when the cancellation met it before ffmpeg   *)
(* was up, the launch fails, which finish is told to count as a failure.   *)
Stop(e) ==
  /\ pc[e] = "run"
  /\ supply[at[e]] = "stopping"
  /\ Goto(e, "stopped") \/ Goto(e, "failed")
  /\ UNCHANGED <<locks, store, pipes, at, back, todo, polls, spent>>

Crash(e) ==
  /\ pc[e] = "run"
  /\ supply[at[e]] = "on"
  /\ spent.crashes < MaxCrashes
  /\ Goto(e, "failed")
  /\ spent' = [spent EXCEPT !.crashes = @ + 1]
  /\ UNCHANGED <<locks, store, pipes, at, back, todo, polls>>

(* WriteSample failed for a member of the snapshot, which may have left.   *)
WriteFails(e, v) ==
  /\ pc[e] = "run"
  /\ at[v] = at[e] /\ pc[v] # "attach" /\ pc[v] # "source"
  /\ spent.writes < MaxWriteFailures
  /\ Remove(e, at[e], v, "run")
  /\ back' = [back EXCEPT ![e] = "run"]
  /\ spent' = [spent EXCEPT !.writes = @ + 1]
  /\ UNCHANGED <<locks, store, spec, starts, at, todo, polls>>

(* finish, under p.mu.                                                     *)
Finish(e) ==
  LET p == at[e] IN
  /\ pc[e] \in {"failed", "stopped"}
  /\ pmu[p] = None
  /\ IF tracks[p] = {}
     THEN /\ supply' = [supply EXCEPT ![p] = "off"]
          /\ ReportIdle(e, TRUE, "free")
          /\ back' = [back EXCEPT ![e] = "free"]
          /\ UNCHANGED <<pmu, spec>>
     ELSE StartLocked(e, p, pc[e] = "failed") /\ UNCHANGED back
  /\ UNCHANGED <<bmu, store, tracks, starts, at, todo, polls, spent>>

-----------------------------------------------------------------------------
RestartTargetsNone == {}

RestartTargetsUnchecked == {registry[k] : k \in Keys}

RestartTargets == Registered

(* SetProfile, which handleQuality calls (Quality): the new profile and    *)
(* the pipelines to restart under b.mu, the restarts one by one without    *)
(* it.                                                                     *)
SetProfile(o, f) ==
  /\ bmu = None
  /\ \/ /\ f # profile
        /\ profile' = f
        /\ todo' = [todo EXCEPT ![o] = RestartTargets]
        /\ Goto(o, "restart")
     \/ /\ f = profile
        /\ Goto(o, "idle")
        /\ UNCHANGED <<profile, todo>>
  /\ UNCHANGED <<locks, registry, keyOf, retired, pipes, at, back, polls, spent>>

Restart(o, p) ==
  /\ pc[o] = "restart"
  /\ p \in todo[o]
  /\ pmu[p] = None
  /\ todo' = [todo EXCEPT ![o] = @ \ {p}]
  /\ supply' = [supply EXCEPT ![p] = IF @ = "on" THEN "stopping" ELSE @]
  /\ UNCHANGED <<locks, store, tracks, spec, starts, pc, at, back, polls,
                 spent>>

SetProfileDone(o) ==
  /\ pc[o] = "restart"
  /\ todo[o] = {}
  /\ Goto(o, "idle")
  /\ UNCHANGED <<locks, store, pipes, at, back, todo, polls, spent>>

(* Stats holds b.mu while it visits every pipeline under its p.mu.         *)
Poll(q) ==
  /\ pc[q] = "idle"
  /\ bmu = None
  /\ bmu' = q
  /\ todo' = [todo EXCEPT ![q] = Registered]
  /\ sum' = [sum EXCEPT ![q] = retired]
  /\ Goto(q, "poll")
  /\ UNCHANGED <<pmu, store, pipes, at, back, reported, spent>>

Visit(q, p) ==
  /\ pc[q] = "poll"
  /\ p \in todo[q]
  /\ pmu[p] = None
  /\ todo' = [todo EXCEPT ![q] = @ \ {p}]
  /\ sum' = [sum EXCEPT ![q] = @ + starts[p]]
  /\ UNCHANGED <<locks, store, pipes, pc, at, back, reported, spent>>

PollDone(q) ==
  /\ pc[q] = "poll"
  /\ todo[q] = {}
  /\ reported' = sum[q]
  /\ sum' = [sum EXCEPT ![q] = 0]
  /\ bmu' = None
  /\ Goto(q, "idle")
  /\ UNCHANGED <<pmu, store, pipes, at, back, todo, spent>>

-----------------------------------------------------------------------------
Next ==
  \/ \E v \in Viewers : (\E k \in Keys : Lookup(v, k)) \/ Attach(v) \/ Detach(v)
  \/ \E th \in Viewers \cup Encoders :
       Source(th) \/ Release(th) \/ Inspect(th) \/ Retire(th)
  \/ \E e \in Encoders :
       \/ Wait(e) \/ Begin(e) \/ Stop(e) \/ Crash(e) \/ Finish(e)
       \/ \E v \in Viewers : WriteFails(e, v)
  \/ \E q \in Pollers :
       Poll(q) \/ (\E p \in Pipes : Visit(q, p)) \/ PollDone(q)

(* The rest of a call that has been entered.  A thread is at one place at  *)
(* a time, so fairness of the whole is fairness of each of its steps.      *)
InSubscribeOrRelease(v) ==
  Attach(v) \/ Source(v) \/ Release(v) \/ Inspect(v) \/ Retire(v)

InEncoder(e) ==
  \/ Wait(e) \/ Begin(e) \/ Stop(e) \/ Finish(e)
  \/ Source(e) \/ Release(e) \/ Inspect(e) \/ Retire(e)

InStats(q) == (\E p \in Pipes : Visit(q, p)) \/ PollDone(q)

(* A thread inside a call goes on, and gets a lock it keeps asking for: a  *)
(* sync.Mutex hands itself to a waiter that has waited for a millisecond.  *)
(* A cancelled encoder stops.  Nobody is obliged to subscribe, to leave or *)
(* to ask for statistics.                                                  *)
Fairness ==
  /\ \A v \in Viewers : SF_vars(InSubscribeOrRelease(v))
  /\ \A e \in Encoders : SF_vars(InEncoder(e))
  /\ \A q \in Pollers : SF_vars(InStats(q))

SafeSpec == Init /\ [][Next]_vars

Spec == SafeSpec /\ Fairness

-----------------------------------------------------------------------------
ViewerLabels == {"new", "attach", "source", "attached", "release", "inspect",
                 "retire", "gone"}
EncoderLabels == {"free", "wait", "start", "run", "failed", "stopped",
                  "source", "sourceDelayed", "release", "inspect", "retire"}

TypeOK ==
  /\ bmu \in Threads \cup {None}
  /\ pmu \in [Pipes -> Viewers \cup Encoders \cup {None}]
  /\ profile \in Profiles
  /\ registry \in [Keys -> Pipes \cup {None}]
  /\ keyOf \in [Pipes -> Keys \cup {None}]
  /\ tracks \in [Pipes -> SUBSET Viewers]
  /\ supply \in [Pipes -> {"off", "on", "stopping"}]
  /\ spec \in [Pipes -> Profiles \cup {None}]
  /\ starts \in [Pipes -> Nat]
  /\ retired \in Nat
  /\ pc \in [Threads -> ViewerLabels \cup EncoderLabels
                          \cup {"idle", "resize", "apply", "restart", "poll"}]
  /\ \A v \in Viewers : pc[v] \in ViewerLabels
  /\ \A e \in Encoders : pc[e] \in EncoderLabels
  /\ at \in [Threads -> Pipes \cup {None}]
  /\ back \in [Encoders -> {"run", "free"}]
  /\ todo \in [Operators \cup Pollers -> SUBSET Pipes]
  /\ sum \in [Pollers -> Nat]
  /\ reported \in Nat
  /\ spent \in [changes : 0..MaxChanges, crashes : 0..MaxCrashes,
                writes : 0..MaxWriteFailures]

(* An encoder goroutine between its start and its finish.                  *)
Encoding(e) ==
  \/ pc[e] \in {"wait", "start", "run", "failed", "stopped"}
  \/ pc[e] \in {"release", "inspect", "retire"} /\ back[e] = "run"

(* A pipeline never runs two ffmpeg processes, whoever starts, cancels and *)
(* restarts it, and one whose p.running is false runs none; a goroutine    *)
(* that has finished and is still reporting idleness is not an encoder.    *)
OneEncoderPerPipeline ==
  \A p \in Pipes :
    LET encoders == {e \in Encoders : at[e] = p /\ Encoding(e)} IN
    /\ Cardinality(encoders) <= 1
    /\ supply[p] = "off" => encoders = {}

(* release forgets no pipeline: an idle one that is still registered has   *)
(* a subscriber on the way or somebody who is about to release its key.    *)
IdleIsReleased ==
  \A p \in Registered : Idle(p) =>
    \/ \E v \in Viewers : pc[v] = "attach" /\ at[v] = p
    \/ \E th \in Viewers \cup Encoders :
         /\ pc[th] \in {"release", "inspect", "retire"}
         /\ keyOf[at[th]] = keyOf[p]

(* The totals of /stats never fall, although pipelines come and go.        *)
ReportedNeverFalls == [][reported' >= reported]_vars

Demand(p) ==
  INSTANCE EncoderDemand
    WITH Tracks <- Viewers, audience <- tracks[p], supply <- supply[p]

(* Behind its lock every pipeline does what EncoderDemand promises.        *)
PipelinesFollowDemand ==
  [][\A p \in Pipes : [Demand(p)!Next]_(Demand(p)!vars)]_vars

(* Subscribe returns (broadcaster.go: "Subscribe attaches a track to the   *)
(* encoder for the requested profile and codec, starting that encoder if   *)
(* it is not already running").                                            *)
SubscribeReturns == \A v \in Viewers : pc[v] = "attach" ~> pc[v] = "attached"

(* An encoder nobody listens to disappears from the registry.              *)
IdleDrains ==
  \A p \in Pipes :
    (p \in Registered /\ tracks[p] = {}) ~>
      (p \notin Registered \/ tracks[p] # {})

(* "Broadcaster owns one encoder pipeline per distinct delivery profile."  *)
OneEncoderPerKey ==
  \A p, q \in Pipes :
    (p # q /\ supply[p] = "on" /\ supply[q] = "on") => keyOf[p] # keyOf[q]
==============================================================================
