--------------------------- MODULE ViewerLifecycle ---------------------------
(***************************************************************************)
(* The browser page follows the number of connected viewers                *)
(* (cmd/server/lifecycle.go): the first viewer activates it, and an idle   *)
(* timer freezes it some time after the last one has left.                 *)
(*                                                                         *)
(* Every method runs under l.mu, the DevTools call it makes included, and  *)
(* is one action.  A timer is an object of its own: it is armed, it fires  *)
(* (its goroutine now waits for l.mu and can no longer be stopped), its    *)
(* callback runs.  The page is SetPageLifecycleState's view of Brave       *)
(* (internal/browser/navigator.go): the one tab it acts on, or none.       *)
(***************************************************************************)
EXTENDS Naturals, FiniteSets

CONSTANTS
  Timers,              \* the idle timers that can exist at a time
  NoTimer,
  MaxViewers,          \* bound on viewers connected at a time
  MaxConnectFailures,  \* bound on DevTools calls that fail in connect
  MaxFreezeFailures,   \* bound on DevTools calls that fail while freezing
  MaxTabLosses         \* bound on how often all tabs are closed

ASSUME LifecycleAssumption ==
  /\ NoTimer \notin Timers
  /\ MaxViewers \in Nat
  /\ MaxConnectFailures \in Nat
  /\ MaxFreezeFailures \in Nat
  /\ MaxTabLosses \in Nat

VARIABLES
  viewers,    \* l.viewers
  state,      \* l.state, "unset" when it is still empty
  idleTimer,  \* l.idleTimer
  armed,      \* timers that are running down
  fired,      \* timers whose callback waits for l.mu
  starting,   \* main's freezeIfIdle call is still to come
  page,       \* what Brave's page really is
  connectFailures, freezeFailures, tabLosses  \* what is used of the bounds

timerVars == <<idleTimer, armed, fired>>
spent == <<connectFailures, freezeFailures, tabLosses>>
vars == <<viewers, state, timerVars, starting, page, spent>>

Init ==
  /\ viewers = 0
  /\ state = "unset"
  /\ idleTimer = NoTimer /\ armed = {} /\ fired = {}
  /\ starting = TRUE
  /\ page = "active"
  /\ connectFailures = 0 /\ freezeFailures = 0 /\ tabLosses = 0

-----------------------------------------------------------------------------
(* SetPageLifecycleState(active), which opens a page when there is none.   *)
(* A call that fails may have had its effect before it failed.             *)
PageActivated == page' = "active"

PageActivationFails == page' \in {page, "active"}

(* SetPageLifecycleState(frozen): without a page there is nothing to do.   *)
PageFrozen == page' = IF page = "none" THEN "none" ELSE "frozen"

PageFreezeFails ==
  /\ freezeFailures < MaxFreezeFailures
  /\ freezeFailures' = freezeFailures + 1
  /\ page' \in IF page = "none" THEN {"none"} ELSE {page, "frozen"}
  /\ UNCHANGED <<connectFailures, tabLosses>>

(* cancelIdleLocked; stopping a timer that has already fired does nothing. *)
CancelIdle ==
  /\ armed' = armed \ {idleTimer}
  /\ idleTimer' = NoTimer

(* connect, for the first viewer, when the page cannot be activated, and   *)
(* for one that finds other viewers.                                       *)
ConnectFirst ==
  /\ viewers = 0
  /\ MaxViewers > 0
  /\ CancelIdle
  /\ PageActivated
  /\ state' = "active"
  /\ viewers' = 1
  /\ UNCHANGED <<fired, starting, spent>>

ViewersAfterFailureCounted == viewers + 1

ViewersAfterFailure == viewers

ConnectFails ==
  /\ viewers = 0
  /\ connectFailures < MaxConnectFailures
  /\ connectFailures' = connectFailures + 1
  /\ CancelIdle
  /\ PageActivationFails
  /\ viewers' = ViewersAfterFailure
  /\ UNCHANGED <<state, fired, starting, freezeFailures, tabLosses>>

ConnectAnother ==
  /\ viewers > 0
  /\ viewers < MaxViewers
  /\ CancelIdle
  /\ viewers' = viewers + 1
  /\ UNCHANGED <<state, fired, starting, page, spent>>

Connect == ConnectFirst \/ ConnectAnother

(* freezeLocked: a failure is not reported and not retried.                *)
Freeze ==
  \/ PageFrozen /\ state' = "frozen" /\ UNCHANGED spent
  \/ PageFreezeFails /\ UNCHANGED state

(* disconnect: the last viewer leaves a timer behind; without viewers it   *)
(* does nothing.                                                           *)
DisconnectOther ==
  /\ viewers > 1
  /\ viewers' = viewers - 1
  /\ UNCHANGED <<state, timerVars, starting, page, spent>>

LastLeavesUnguarded == viewers <= 1

LastLeaves == viewers = 1

ArmIdleThenCancel(t) ==
  /\ idleTimer' = NoTimer
  /\ armed' = armed \ {idleTimer}

ArmIdle(t) ==
  /\ idleTimer' = t
  /\ armed' = (armed \ {idleTimer}) \cup {t}

DisconnectLast ==
  /\ LastLeaves
  /\ viewers' = viewers - 1
  /\ \E t \in Timers \ (armed \cup fired) : ArmIdle(t)
  /\ UNCHANGED <<state, fired, starting, page, spent>>

DisconnectNobody ==
  /\ viewers = 0
  /\ UNCHANGED vars

Disconnect == DisconnectOther \/ DisconnectLast \/ DisconnectNobody

-----------------------------------------------------------------------------
(* The runtime starts the callback's goroutine.                            *)
Fire(t) ==
  /\ t \in armed
  /\ armed' = armed \ {t}
  /\ fired' = fired \cup {t}
  /\ UNCHANGED <<viewers, state, idleTimer, starting, page, spent>>

NobodyWatchesUnchecked == TRUE

(* The callback looks again, since a viewer may have come meanwhile.       *)
NobodyWatches == viewers = 0

(* freezeIfStillIdle.                                                      *)
FreezeIfStillIdle(t) ==
  /\ t \in fired
  /\ fired' = fired \ {t}
  /\ idleTimer' = NoTimer
  /\ IF NobodyWatches
     THEN Freeze
     ELSE UNCHANGED <<state, page, spent>>
  /\ UNCHANGED <<viewers, armed, starting>>

(* freezeIfIdle, which main calls once, some time after the server is up.  *)
FreezeIfIdle ==
  /\ starting
  /\ starting' = FALSE
  /\ IF viewers # 0 \/ state \in {"unset", "frozen"}
     THEN UNCHANGED <<state, page, spent>>
     ELSE Freeze
  /\ UNCHANGED <<viewers, timerVars>>

-----------------------------------------------------------------------------
(* Every tab is closed; Brave exits and start.sh starts it again.          *)
CloseTabs ==
  /\ page # "none"
  /\ tabLosses < MaxTabLosses
  /\ page' = "none"
  /\ tabLosses' = tabLosses + 1
  /\ UNCHANGED <<viewers, state, timerVars, starting, connectFailures,
                 freezeFailures>>

RestartBrave ==
  /\ page = "none"
  /\ page' = "active"
  /\ UNCHANGED <<viewers, state, timerVars, starting, spent>>

Background ==
  \/ \E t \in Timers : Fire(t) \/ FreezeIfStillIdle(t)
  \/ FreezeIfIdle
  \/ CloseTabs
  \/ RestartBrave

Next == Connect \/ ConnectFails \/ Disconnect \/ Background

(* Timers fire and their callbacks get l.mu.  Viewers come and go as they  *)
(* please, and Brave is not obliged to come back.                          *)
Fairness ==
  /\ WF_vars(\E t \in Timers : Fire(t))
  /\ WF_vars(\E t \in Timers : FreezeIfStillIdle(t))
  /\ WF_vars(FreezeIfIdle)

Spec == Init /\ [][Next]_vars /\ Fairness

-----------------------------------------------------------------------------
TypeOK ==
  /\ viewers \in 0..MaxViewers
  /\ state \in {"unset", "active", "frozen"}
  /\ idleTimer \in Timers \cup {NoTimer}
  /\ armed \in SUBSET Timers
  /\ fired \in SUBSET Timers
  /\ starting \in BOOLEAN
  /\ page \in {"active", "frozen", "none"}
  /\ connectFailures \in 0..MaxConnectFailures
  /\ freezeFailures \in 0..MaxFreezeFailures
  /\ tabLosses \in 0..MaxTabLosses

(* Nobody watches a frozen page, whatever timers of earlier idle periods   *)
(* are still about to run and whichever DevTools calls failed.             *)
WatchedPageRuns == viewers > 0 => state = "active" /\ page # "frozen"

Failures == connectFailures + freezeFailures

(* Once somebody has watched, the page is frozen in the end unless viewers *)
(* keep coming back or a further DevTools call fails: no timer is lost in  *)
(* the races of departures, arrivals and callbacks, and a failure of the   *)
(* past does not disturb the viewers that come after it.                   *)
DepartureFreezes ==
  \A n \in 0..(MaxConnectFailures + MaxFreezeFailures) :
    []( (viewers > 0 /\ Failures = n) =>
          (<>(state = "frozen" \/ Failures > n) \/ []<>(viewers > 0)) )

(* README.md: "The streamed page is frozen once no viewer has been         *)
(* connected for 15 seconds": when the last viewer has left an active      *)
(* page, it is frozen in the end or somebody comes back.                   *)
IdlePageFreezes ==
  (viewers = 0 /\ state = "active") ~> (state = "frozen" \/ viewers > 0)

(* lifecycle.go: "idleFreezeDelay is how long the last viewer has to come  *)
(* back before the browser page is frozen", so no timer freezes the page   *)
(* while the delay of the last departure is still running.                 *)
FreezeWaitsForTheDelay ==
  [][ (fired' # fired /\ page' = "frozen" /\ page # "frozen") =>
        armed' = {} ]_vars

(* README.md: "The streamed page is frozen once no viewer has been         *)
(* connected for 15 seconds", from the start of the server on.             *)
UnwatchedPageFreezes == (viewers = 0) ~> (page = "frozen" \/ viewers > 0)

(* README.md: "If every tab is closed, the server opens a new one at       *)
(* BROWSER_URL when the next viewer connects".                             *)
ConnectOpensAPage == [][ viewers' > viewers => page' # "none" ]_vars
==============================================================================
