---------------------------- MODULE ViewerSession ----------------------------
(***************************************************************************)
(* A viewer's session (cmd/server/main.go): handleOffer acquires a peer    *)
(* connection, a place in the viewer count and two subscriptions, each     *)
(* registered with viewerCleanup, while the state callbacks of the peer    *)
(* connection and the timer of disconnectGrace may tear the session down   *)
(* at any point.  Composed with ViewerLifecycle, whose count of viewers    *)
(* must be the number of sessions that hold a place in it.                 *)
(*                                                                         *)
(* Pion runs every state callback in a goroutine of its own, so callbacks  *)
(* are handled in any order (pending).                                     *)
(***************************************************************************)
EXTENDS Naturals, FiniteSets, Sequences

CONSTANTS
  Sessions,
  MaxFlaps,    \* bound on how often peer connections are disconnected
  Timers, NoTimer, MaxViewers,
  MaxConnectFailures, MaxFreezeFailures, MaxTabLosses

ASSUME SessionAssumption ==
  /\ IsFiniteSet(Sessions)
  /\ NoTimer \notin Timers
  /\ {MaxFlaps, MaxConnectFailures, MaxFreezeFailures, MaxTabLosses} \subseteq Nat
  \* the last viewer can leave as often as there are sessions
  /\ Cardinality(Timers) >= Cardinality(Sessions)
  /\ MaxViewers = Cardinality(Sessions)

VARIABLES viewers, state, idleTimer, armed, fired, starting, page,
          connectFailures, freezeFailures, tabLosses  \* ViewerLifecycle

VARIABLES
  pc,        \* where handleOffer is
  held,      \* what the session really holds
  queue,     \* c.release
  work,      \* what cleanup.run has taken and not yet released
  closed,    \* c.closed
  peer,      \* the connection state of the peer connection
  pending,   \* states whose callback has not run yet
  flaps,     \* how much of MaxFlaps is used up
  timer,     \* g.timer is non-nil
  ticking,   \* a grace timer is running down
  expiring,  \* grace timers that fired and whose callback waits for g.mu
  over       \* g.done

lifecycleVars == <<viewers, state, idleTimer, armed, fired, starting, page,
                   connectFailures, freezeFailures, tabLosses>>
cleanupVars == <<held, queue, work, closed>>
peerVars == <<peer, pending, flaps>>
graceVars == <<timer, ticking, expiring, over>>
vars == <<lifecycleVars, pc, cleanupVars, peerVars, graceVars>>

Lifecycle == INSTANCE ViewerLifecycle

(* handleOffer acquires these one after the other; while it is at one of   *)
(* them it has acquired it and not yet handed it to cleanup.add.           *)
Acquired == {"slot", "video", "audio"}
Resources == Acquired \cup {"peer"}

PeerStates == {"new", "connected", "disconnected", "failed", "closed"}

Init ==
  /\ Lifecycle!Init
  /\ pc = [s \in Sessions |-> "new"]
  /\ held = [s \in Sessions |-> {}]
  /\ queue = [s \in Sessions |-> <<>>]
  /\ work = [s \in Sessions |-> <<>>]
  /\ closed = [s \in Sessions |-> FALSE]
  /\ peer = [s \in Sessions |-> "new"]
  /\ pending = [s \in Sessions |-> {}]
  /\ flaps = 0
  /\ timer = [s \in Sessions |-> FALSE]
  /\ ticking = [s \in Sessions |-> FALSE]
  /\ expiring = [s \in Sessions |-> 0]
  /\ over = [s \in Sessions |-> FALSE]

Goto(s, label) == pc' = [pc EXCEPT ![s] = label]

-----------------------------------------------------------------------------
RunCleanupKeepsList(s) ==
  IF closed[s]
  THEN UNCHANGED <<queue, work, closed>>
  ELSE /\ closed' = [closed EXCEPT ![s] = TRUE]
       /\ work' = [work EXCEPT ![s] = queue[s]]
       /\ UNCHANGED queue

(* viewerCleanup.run takes the list once, whoever calls it first.          *)
RunCleanup(s) ==
  IF closed[s]
  THEN UNCHANGED <<queue, work, closed>>
  ELSE /\ closed' = [closed EXCEPT ![s] = TRUE]
       /\ work' = [work EXCEPT ![s] = queue[s]]
       /\ queue' = [queue EXCEPT ![s] = <<>>]

(* Leave the viewer count, close the peer connection, or unsubscribe.      *)
Release(s, r) ==
  /\ held' = [held EXCEPT ![s] = @ \ {r}]
  /\ IF r = "slot" THEN Lifecycle!Disconnect ELSE UNCHANGED lifecycleVars
  /\ IF r = "peer"
     THEN /\ peer' = [peer EXCEPT ![s] = "closed"]
          /\ pending' = [pending EXCEPT ![s] = @ \cup {"closed"}]
     ELSE UNCHANGED <<peer, pending>>

(* run goes through its list from the end.                                 *)
ReleaseNext(s) ==
  /\ work[s] # <<>>
  /\ LET n == Len(work[s]) IN
     /\ Release(s, work[s][n])
     /\ work' = [work EXCEPT ![s] = SubSeq(@, 1, n - 1)]
  /\ UNCHANGED <<pc, queue, closed, flaps, graceVars>>

(* viewerCleanup.add: after the teardown has begun there is nobody left to *)
(* release what is added, so it is released on the spot.                   *)
AddIgnoresClosed(s, r) ==
  /\ queue' = [queue EXCEPT ![s] = Append(@, r)]
  /\ UNCHANGED <<held, lifecycleVars, peer, pending>>

AddToCleanup(s, r) ==
  IF closed[s]
  THEN Release(s, r) /\ UNCHANGED queue
  ELSE /\ queue' = [queue EXCEPT ![s] = Append(@, r)]
       /\ UNCHANGED <<held, lifecycleVars, peer, pending>>

-----------------------------------------------------------------------------
(* handleOffer: the peer connection, with its cleanup.                     *)
NewPeer(s) ==
  /\ pc[s] = "new"
  /\ held' = [held EXCEPT ![s] = {"peer"}]
  /\ queue' = [queue EXCEPT ![s] = <<"peer">>]
  /\ Goto(s, "offered")
  /\ UNCHANGED <<lifecycleVars, work, closed, peerVars, graceVars>>

(* The tracks are added, the callback is registered and the descriptions   *)
(* are set, which starts ICE; what is left is to gather candidates.        *)
Negotiate(s) ==
  /\ pc[s] = "offered"
  /\ Goto(s, "negotiated")
  /\ UNCHANGED <<lifecycleVars, cleanupVars, peerVars, graceVars>>

(* Any of that fails, or the answer cannot be written at the end.          *)
Fail(s) ==
  /\ pc[s] \in {"offered", "negotiated", "answer"}
  /\ RunCleanup(s)
  /\ Goto(s, "rejected")
  /\ UNCHANGED <<lifecycleVars, held, peerVars, graceVars>>

(* lifecycle.connect takes a place in the viewer count, or fails.          *)
Connect(s) ==
  /\ pc[s] = "negotiated"
  /\ Lifecycle!Connect
  /\ held' = [held EXCEPT ![s] = @ \cup {"slot"}]
  /\ Goto(s, "slot")
  /\ UNCHANGED <<queue, work, closed, peerVars, graceVars>>

ConnectFailsIgnored(s) ==
  /\ pc[s] = "negotiated"
  /\ Lifecycle!ConnectFails
  /\ Goto(s, "subscribeVideo")
  /\ UNCHANGED <<cleanupVars, peerVars, graceVars>>

ConnectFails(s) ==
  /\ pc[s] = "negotiated"
  /\ Lifecycle!ConnectFails
  /\ RunCleanup(s)
  /\ Goto(s, "rejected")
  /\ UNCHANGED <<held, peerVars, graceVars>>

NextAcquisition(r) == CASE r = "slot" -> "subscribeVideo"
                        [] r = "video" -> "subscribeAudio"
                        [] r = "audio" -> "answer"

Add(s) ==
  /\ pc[s] \in Acquired
  /\ AddToCleanup(s, pc[s])
  /\ Goto(s, NextAcquisition(pc[s]))
  /\ UNCHANGED <<work, closed, flaps, graceVars>>

(* Subscribe, without looking whether the session is still wanted.         *)
Subscribe(s) ==
  /\ pc[s] \in {"subscribeVideo", "subscribeAudio"}
  /\ LET r == IF pc[s] = "subscribeVideo" THEN "video" ELSE "audio" IN
     /\ held' = [held EXCEPT ![s] = @ \cup {r}]
     /\ Goto(s, r)
  /\ UNCHANGED <<lifecycleVars, queue, work, closed, peerVars, graceVars>>

Answer(s) ==
  /\ pc[s] = "answer"
  /\ Goto(s, "done")
  /\ UNCHANGED <<lifecycleVars, cleanupVars, peerVars, graceVars>>

Handler(s) ==
  \/ NewPeer(s) \/ Negotiate(s) \/ Fail(s)
  \/ Connect(s) \/ ConnectFails(s)
  \/ Add(s) \/ Subscribe(s) \/ Answer(s)

-----------------------------------------------------------------------------
(* The peer connection changes its state by itself: ICE starts with the    *)
(* local description, and it can only succeed once the viewer has got the  *)
(* answer.                                                                 *)
PeerSuccessors(s) ==
  CASE peer[s] = "new" ->
         {"failed"} \cup IF pc[s] = "done" THEN {"connected"} ELSE {}
    [] peer[s] = "connected" ->
         {"closed"} \cup IF flaps < MaxFlaps THEN {"disconnected"} ELSE {}
    [] peer[s] = "disconnected" -> {"connected", "failed"}
    [] OTHER -> {}

PeerBecomes(s, next) ==
  /\ "peer" \in held[s]
  /\ pc[s] \notin {"new", "offered", "rejected"}
  /\ next \in PeerSuccessors(s)
  /\ peer' = [peer EXCEPT ![s] = next]
  /\ pending' = [pending EXCEPT ![s] = @ \cup {next}]
  /\ flaps' = IF next = "disconnected" THEN flaps + 1 ELSE flaps
  /\ UNCHANGED <<lifecycleVars, pc, cleanupVars, graceVars>>

PeerChanges(s) == \E next \in PeerStates : PeerBecomes(s, next)

TerminalStatesFailedOnly == {"failed"}

TerminalStates == {"failed", "closed"}

(* disconnectGrace.Update: "connected" stops the timer, "disconnected"     *)
(* starts it, a terminal state tears the session down.                     *)
StopGrace(s) ==
  /\ timer' = [timer EXCEPT ![s] = FALSE]
  /\ ticking' = [ticking EXCEPT ![s] = @ /\ ~timer[s]]

RecoveredForgetsNil(s) ==
  /\ ticking' = [ticking EXCEPT ![s] = @ /\ ~timer[s]]
  /\ UNCHANGED <<timer, over, queue, work, closed>>

Recovered(s) ==
  /\ StopGrace(s)
  /\ UNCHANGED <<over, queue, work, closed>>

Interrupted(s) ==
  /\ timer' = [timer EXCEPT ![s] = TRUE]
  /\ ticking' = [ticking EXCEPT ![s] = @ \/ ~timer[s]]
  /\ UNCHANGED <<over, queue, work, closed>>

Terminated(s) ==
  /\ over' = [over EXCEPT ![s] = TRUE]
  /\ StopGrace(s)
  /\ RunCleanup(s)

Update(s, next) ==
  /\ next \in pending[s]
  /\ pending' = [pending EXCEPT ![s] = @ \ {next}]
  /\ \/ over[s] /\ UNCHANGED <<timer, ticking, over, queue, work, closed>>
     \/ ~over[s] /\ next = "connected" /\ Recovered(s)
     \/ ~over[s] /\ next = "disconnected" /\ Interrupted(s)
     \/ ~over[s] /\ next \in TerminalStates /\ Terminated(s)
     \/ /\ ~over[s] /\ next \notin {"connected", "disconnected"} \cup TerminalStates
        /\ UNCHANGED <<timer, ticking, over, queue, work, closed>>
  /\ UNCHANGED <<lifecycleVars, pc, held, peer, flaps, expiring>>

GraceFires(s) ==
  /\ ticking[s]
  /\ ticking' = [ticking EXCEPT ![s] = FALSE]
  /\ expiring' = [expiring EXCEPT ![s] = @ + 1]
  /\ UNCHANGED <<lifecycleVars, pc, cleanupVars, peerVars, timer, over>>

(* disconnectGrace.expire.                                                 *)
Expire(s) ==
  /\ expiring[s] > 0
  /\ expiring' = [expiring EXCEPT ![s] = @ - 1]
  /\ IF over[s]
     THEN UNCHANGED <<over, timer, queue, work, closed>>
     ELSE /\ over' = [over EXCEPT ![s] = TRUE]
          /\ timer' = [timer EXCEPT ![s] = FALSE]
          /\ RunCleanup(s)
  /\ UNCHANGED <<lifecycleVars, pc, held, peerVars, ticking>>

Teardown(s) ==
  \/ \E next \in PeerStates : Update(s, next)
  \/ GraceFires(s) \/ Expire(s)
  \/ ReleaseNext(s)

LifecycleBackground ==
  /\ Lifecycle!Background
  /\ UNCHANGED <<pc, cleanupVars, peerVars, graceVars>>

(* Nothing is left to be done.                                             *)
AllOver ==
  /\ \A s \in Sessions :
       pc[s] \in {"done", "rejected"} /\ work[s] = <<>> /\ pending[s] = {}
  /\ UNCHANGED vars

Next ==
  \/ \E s \in Sessions : Handler(s) \/ PeerChanges(s) \/ Teardown(s)
  \/ LifecycleBackground
  \/ AllOver

(* A request that has begun is carried through, callbacks and timers run.  *)
(* (There is only so much to tear down, so fairness of the whole teardown  *)
(* is fairness of each callback.)                                          *)
Fairness ==
  \A s \in Sessions :
    /\ WF_vars(Handler(s) /\ pc[s] # "new")
    /\ WF_vars(Teardown(s))

Spec == Init /\ [][Next]_vars /\ Fairness

-----------------------------------------------------------------------------
TypeOK ==
  /\ Lifecycle!TypeOK
  /\ pc \in [Sessions -> Acquired \cup {"new", "offered", "negotiated",
                 "subscribeVideo", "subscribeAudio", "answer", "done", "rejected"}]
  /\ held \in [Sessions -> SUBSET Resources]
  /\ queue \in [Sessions -> Seq(Resources)]
  /\ work \in [Sessions -> Seq(Resources)]
  /\ closed \in [Sessions -> BOOLEAN]
  /\ peer \in [Sessions -> PeerStates]
  /\ pending \in [Sessions -> SUBSET PeerStates]
  /\ flaps \in 0..MaxFlaps
  /\ timer \in [Sessions -> BOOLEAN]
  /\ ticking \in [Sessions -> BOOLEAN]
  /\ expiring \in [Sessions -> Nat]
  /\ over \in [Sessions -> BOOLEAN]

(* The viewer count that decides over the browser page is the number of    *)
(* sessions that hold a place in it, through failed activations, offers    *)
(* that are abandoned half-way and teardowns that overtake them.           *)
SlotsAreCounted == viewers = Cardinality({s \in Sessions : "slot" \in held[s]})

Occurrences(q, r) == Cardinality({i \in DOMAIN q : q[i] = r})

(* viewerCleanup: whatever a session holds will be released exactly once:  *)
(* the handler has it in hand and is about to add it, or it is in one of   *)
(* the two lists, once; and nothing that was released is in either.        *)
ReleasedExactlyOnce ==
  \A s \in Sessions, r \in Resources :
    Occurrences(queue[s], r) + Occurrences(work[s], r)
      + (IF pc[s] = r THEN 1 ELSE 0) = IF r \in held[s] THEN 1 ELSE 0

(* A list that is still growing belongs to a session nobody tears down:    *)
(* what is added late is not left behind in it.                            *)
NothingAddedAfterTeardown ==
  \A s \in Sessions : closed[s] => queue[s] = <<>>

(* disconnectGrace, as long as it has torn nothing down: a timer that is   *)
(* running is the one g.timer refers to, so that a recovery stops it; and  *)
(* a g.timer that is set is running or its callback is on the way, so that *)
(* no later disconnection is left without a timer.  State callbacks and    *)
(* timers may come in any order, callbacks of stopped timers included.     *)
GraceTimerIsTracked ==
  \A s \in Sessions :
    ~over[s] => /\ ticking[s] => timer[s]
                /\ timer[s] => ticking[s] \/ expiring[s] > 0

(* A viewer whose connection failed or was closed gives everything back,   *)
(* the encoders' subscriptions included, even if the offer was still being *)
(* answered.                                                               *)
GoneViewerIsReleased ==
  \A s \in Sessions : (peer[s] \in {"failed", "closed"}) ~> (held[s] = {})

(* What a page relies on (SessionContract): an answered offer has a place  *)
(* in the viewer count, which it keeps until the session is torn down and  *)
(* then gives back, exactly once, whatever the handler is doing meanwhile. *)
ReplyTo(label) ==
  CASE label = "new" -> "none"
    [] label \in {"offered", "negotiated"} -> "asked"
    [] label \in Acquired \cup {"subscribeVideo", "subscribeAudio", "answer"} -> "placed"
    [] label = "done" -> "answered"
    [] label = "rejected" -> "refused"

Contract == INSTANCE SessionContract WITH
  reply <- [s \in Sessions |-> ReplyTo(pc[s])],
  lost <- closed,
  place <- [s \in Sessions |-> "slot" \in held[s]]

ImplementsContract == Contract!ContractSpec

(* main_test.go, TestDisconnectGraceAllowsRecovery: a viewer that is       *)
(* connected again before its grace period is over is not torn down by it. *)
(* Once Update has handled the recovery, g.timer is nil.                   *)
RecoveryIsKept ==
  [][ \A s \in Sessions :
        (expiring'[s] < expiring[s] /\ over'[s] /\ ~over[s]) =>
          timer[s] \/ peer[s] # "connected" ]_vars
==============================================================================
