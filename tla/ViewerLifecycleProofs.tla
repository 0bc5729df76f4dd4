------------------------ MODULE ViewerLifecycleProofs ------------------------
(***************************************************************************)
(* Theorems about ViewerLifecycle, for every number of viewers, timers and *)
(* failures.  WatchedPageRuns needs nothing but the types to be inductive: *)
(* both freezing paths look at `viewers` under the lock that counts them.  *)
(* The other direction, that an unwatched page will be frozen, is about    *)
(* what is still to come: FreezeAhead, kept by every step in which no      *)
(* DevTools call fails.                                                    *)
(***************************************************************************)
EXTENDS ViewerLifecycle, TLAPS

IInv == TypeOK /\ WatchedPageRuns

(* No matter how a freezing DevTools call ends, the types survive it.      *)
LEMMA FreezeType ==
  ASSUME TypeOK, Freeze
  PROVE  /\ state' \in {"unset", "active", "frozen"}
         /\ page' \in {"active", "frozen", "none"}
         /\ connectFailures' \in 0..MaxConnectFailures
         /\ freezeFailures' \in 0..MaxFreezeFailures
         /\ tabLosses' \in 0..MaxTabLosses
<1>1. CASE PageFrozen /\ state' = "frozen" /\ UNCHANGED spent
  BY <1>1 DEF TypeOK, PageFrozen, spent
<1>2. CASE PageFreezeFails /\ UNCHANGED state
  BY <1>2, LifecycleAssumption DEF TypeOK, PageFreezeFails
<1> QED BY <1>1, <1>2 DEF Freeze

(* connect and disconnect.                                                 *)
LEMMA ViewerStepInv ==
  ASSUME IInv, Connect \/ ConnectFails \/ Disconnect
  PROVE  IInv'
<1> USE LifecycleAssumption DEF IInv, TypeOK, WatchedPageRuns, timerVars, spent
<1>1. CASE ConnectFirst
  BY <1>1 DEF ConnectFirst, CancelIdle, PageActivated
<1>2. CASE ConnectFails
  BY <1>2 DEF ConnectFails, ViewersAfterFailure, CancelIdle,
              PageActivationFails
<1>3. CASE ConnectAnother
  BY <1>3 DEF ConnectAnother, CancelIdle
<1>4. CASE DisconnectOther
  BY <1>4 DEF DisconnectOther
<1>5. CASE DisconnectLast
  BY <1>5 DEF DisconnectLast, LastLeaves, ArmIdle
<1>6. CASE DisconnectNobody
  BY <1>6 DEF DisconnectNobody, vars
<1> QED BY <1>1, <1>2, <1>3, <1>4, <1>5, <1>6 DEF Connect, Disconnect

(* The timers, the start of the server and Brave.                          *)
LEMMA BackgroundInv ==
  ASSUME IInv, Background
  PROVE  IInv'
<1> USE LifecycleAssumption DEF IInv, TypeOK, WatchedPageRuns, timerVars, spent
<1>1. ASSUME NEW t \in Timers, Fire(t) PROVE IInv'
  BY <1>1 DEF Fire
<1>2. ASSUME NEW t \in Timers, FreezeIfStillIdle(t) PROVE IInv'
  <2>1. CASE viewers = 0
    BY <1>2, <2>1, FreezeType DEF FreezeIfStillIdle, NobodyWatches
  <2>2. CASE viewers # 0
    BY <1>2, <2>2 DEF FreezeIfStillIdle, NobodyWatches
  <2> QED BY <2>1, <2>2
<1>3. CASE FreezeIfIdle
  <2>1. CASE viewers # 0 \/ state \in {"unset", "frozen"}
    BY <1>3, <2>1 DEF FreezeIfIdle
  <2>2. CASE ~(viewers # 0 \/ state \in {"unset", "frozen"})
    <3>1. viewers' = 0 /\ Freeze
      BY <1>3, <2>2 DEF FreezeIfIdle
    <3>2. starting' \in BOOLEAN /\ UNCHANGED timerVars
      BY <1>3 DEF FreezeIfIdle
    <3>3. /\ state' \in {"unset", "active", "frozen"}
          /\ page' \in {"active", "frozen", "none"}
          /\ connectFailures' \in 0..MaxConnectFailures
          /\ freezeFailures' \in 0..MaxFreezeFailures
          /\ tabLosses' \in 0..MaxTabLosses
      BY <3>1, FreezeType
    <3> QED BY <3>1, <3>2, <3>3
  <2> QED BY <2>1, <2>2
<1>4. CASE CloseTabs
  BY <1>4 DEF CloseTabs
<1>5. CASE RestartBrave
  BY <1>5 DEF RestartBrave
<1> QED BY <1>1, <1>2, <1>3, <1>4, <1>5 DEF Background

LEMMA InitIInv == Init => IInv
  BY LifecycleAssumption DEF Init, IInv, TypeOK, WatchedPageRuns

LEMMA NextIInv == IInv /\ [Next]_vars => IInv'
<1> SUFFICES ASSUME IInv, [Next]_vars PROVE IInv'
  OBVIOUS
<1>1. CASE Connect \/ ConnectFails \/ Disconnect
  BY <1>1, ViewerStepInv
<1>2. CASE Background
  BY <1>2, BackgroundInv
<1>3. CASE UNCHANGED vars
  BY <1>3 DEF vars, spent, timerVars, IInv, TypeOK, WatchedPageRuns
<1> QED BY <1>1, <1>2, <1>3 DEF Next

(* The variables keep their types; in particular `viewers` never falls     *)
(* below zero.                                                             *)
THEOREM TypeCorrect == Spec => []TypeOK
<1>1. IInv => TypeOK
  BY DEF IInv
<1> QED BY <1>1, InitIInv, NextIInv, PTL DEF Spec

(* A page is never frozen under a viewer: neither by the timer of an idle  *)
(* period that is over, nor by the call main makes when it starts.         *)
THEOREM WatchedRuns == Spec => []WatchedPageRuns
<1>1. IInv => WatchedPageRuns
  BY DEF IInv
<1> QED BY <1>1, InitIInv, NextIInv, PTL DEF Spec
-----------------------------------------------------------------------------
(* The safety half of DepartureFreezes: somebody watches, the page is      *)
(* frozen already, or a timer is on its way to freezing it.                *)
FreezeAhead == viewers > 0 \/ state = "frozen" \/ armed \cup fired # {}

LEMMA FreezeEnds ==
  ASSUME Freeze, TypeOK, Failures' = Failures, UNCHANGED connectFailures
  PROVE  state' = "frozen"
  BY LifecycleAssumption DEF Freeze, PageFreezeFails, Failures, TypeOK

LEMMA FreezeAheadStep ==
  ASSUME IInv, [Next]_vars, FreezeAhead, Failures' = Failures
  PROVE  FreezeAhead'
<1> USE DEF FreezeAhead
<1>0. /\ viewers \in 0..MaxViewers /\ connectFailures \in Nat /\ freezeFailures \in Nat
      /\ TypeOK /\ WatchedPageRuns /\ MaxViewers \in Nat
  BY LifecycleAssumption DEF IInv, TypeOK
<1>1. CASE Connect
  BY <1>0, <1>1 DEF Connect, ConnectFirst, ConnectAnother
<1>2. CASE ConnectFails
  BY <1>0, <1>2 DEF ConnectFails, Failures
<1>3. CASE DisconnectOther \/ DisconnectNobody
  BY <1>0, <1>3 DEF DisconnectOther, DisconnectNobody, vars, timerVars
<1>4. CASE DisconnectLast
  BY <1>4 DEF DisconnectLast, ArmIdle
<1>5. ASSUME NEW t \in Timers, Fire(t) PROVE FreezeAhead'
  BY <1>5 DEF Fire
<1>6. ASSUME NEW t \in Timers, FreezeIfStillIdle(t) PROVE FreezeAhead'
  <2>1. CASE viewers = 0
    <3>1. Freeze /\ UNCHANGED connectFailures
      BY <1>6, <2>1 DEF FreezeIfStillIdle, NobodyWatches, Freeze, PageFreezeFails, spent
    <3> QED BY <1>0, <3>1, FreezeEnds
  <2>2. CASE viewers # 0
    BY <1>0, <1>6, <2>2 DEF FreezeIfStillIdle
  <2> QED BY <2>1, <2>2
<1>7. CASE FreezeIfIdle
  <2>1. CASE viewers # 0 \/ state \in {"unset", "frozen"}
    BY <1>7, <2>1 DEF FreezeIfIdle, timerVars
  <2>2. CASE ~(viewers # 0 \/ state \in {"unset", "frozen"})
    <3>1. Freeze /\ UNCHANGED connectFailures
      BY <1>7, <2>2 DEF FreezeIfIdle, Freeze, PageFreezeFails, spent
    <3> QED BY <1>0, <3>1, FreezeEnds
  <2> QED BY <2>1, <2>2
<1>8. CASE CloseTabs \/ RestartBrave
  BY <1>8 DEF CloseTabs, RestartBrave, timerVars
<1>9. CASE UNCHANGED vars
  BY <1>9 DEF vars, timerVars
<1> QED BY <1>1, <1>2, <1>3, <1>4, <1>5, <1>6, <1>7, <1>8, <1>9
        DEF Next, Disconnect, Background

(* Once somebody has watched, no interleaving of departures, arrivals,     *)
(* timers and callbacks loses the timer that freezes the page: as long as  *)
(* no further DevTools call fails, an unwatched page is frozen or a timer  *)
(* or its callback is still to come.  (With the fairness of timers and of  *)
(* callbacks this is why DepartureFreezes holds.)                          *)
THEOREM FreezeNeverLost ==
  Spec => [][FreezeAhead /\ Failures' = Failures => FreezeAhead']_vars
<1>1. IInv /\ [Next]_vars =>
        [FreezeAhead /\ Failures' = Failures => FreezeAhead']_vars
  BY FreezeAheadStep
<1> QED BY <1>1, InitIInv, NextIInv, PTL DEF Spec
==============================================================================
