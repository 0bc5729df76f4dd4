------------------------- MODULE ViewerSessionProofs -------------------------
(***************************************************************************)
(* Theorems about ViewerSession, for every number of sessions, flaps and   *)
(* failures: the bookkeeping of a session is right at every step, and so a *)
(* session keeps the contract a page relies on.                            *)
(*                                                                         *)
(* The invariant speaks of one session at a time (SessionInv), because an  *)
(* action works on the lists of one session; only the count of viewers     *)
(* (SlotsAreCounted) is about all of them.  Two more parts follow it: the  *)
(* page behind the sessions (every step is one of ViewerLifecycle), and    *)
(* who is still to release what a gone viewer holds (NoticeInv).           *)
(***************************************************************************)
EXTENDS ViewerSession, FiniteSetTheorems, TLAPS

(* A request that has not come in has left no trace.                       *)
UntouchedInv(s) ==
  pc[s] = "new" =>
    /\ held[s] = {} /\ queue[s] = <<>> /\ work[s] = <<>> /\ closed[s] = FALSE
    /\ pending[s] = {} /\ ticking[s] = FALSE /\ expiring[s] = 0

(* The cleanup list is handed over once and for all.                       *)
HandoverInv(s) ==
  /\ closed[s] => queue[s] = <<>>
  /\ ~closed[s] => work[s] = <<>>

(* handleOffer has not acquired anything ahead of its time.                *)
AheadInv(s) ==
  /\ pc[s] \in {"offered", "negotiated"} => held[s] \subseteq {"peer"}
  /\ pc[s] \in {"slot", "subscribeVideo"} => held[s] \subseteq {"peer", "slot"}
  /\ pc[s] \in {"video", "subscribeAudio"} =>
       held[s] \subseteq {"peer", "slot", "video"}

Listed(s, r) == Occurrences(queue[s], r) + Occurrences(work[s], r)

OnceInv(s) ==
  \A r \in Resources :
    Listed(s, r) + (IF pc[s] = r THEN 1 ELSE 0) = IF r \in held[s] THEN 1 ELSE 0

SessionInv(s) ==
  UntouchedInv(s) /\ HandoverInv(s) /\ AheadInv(s) /\ OnceInv(s)

Slots == {s \in Sessions : "slot" \in held[s]}

IInv ==
  /\ TypeOK
  /\ \A s \in Sessions : SessionInv(s)
  /\ viewers = Cardinality(Slots)

Labels == Acquired \cup {"new", "offered", "negotiated", "subscribeVideo",
                         "subscribeAudio", "answer", "done", "rejected"}

-----------------------------------------------------------------------------
(* Occurrences on the operations of the lists.                             *)
LEMMA OccurrencesType ==
  ASSUME NEW q \in Seq(Resources), NEW r
  PROVE  Occurrences(q, r) \in Nat /\ IsFiniteSet({i \in DOMAIN q : q[i] = r})
<1>1. DOMAIN q = 1..Len(q) /\ Len(q) \in Nat
  OBVIOUS
<1>2. IsFiniteSet(1..Len(q))
  BY <1>1, FS_Interval
<1>3. IsFiniteSet({i \in DOMAIN q : q[i] = r})
  BY <1>1, <1>2, FS_Subset
<1> QED BY <1>3, FS_CardinalityType DEF Occurrences

LEMMA OccurrencesEmpty == \A r : Occurrences(<<>>, r) = 0
<1> SUFFICES ASSUME NEW r PROVE Occurrences(<<>>, r) = 0
  OBVIOUS
<1>1. {i \in DOMAIN <<>> : <<>>[i] = r} = {}
  OBVIOUS
<1> QED BY <1>1, FS_EmptySet DEF Occurrences

LEMMA OccurrencesAppend ==
  ASSUME NEW q \in Seq(Resources), NEW x \in Resources, NEW r
  PROVE  Occurrences(Append(q, x), r) = Occurrences(q, r) + IF x = r THEN 1 ELSE 0
<1> DEFINE old == {i \in DOMAIN q : q[i] = r}
           new == {i \in DOMAIN Append(q, x) : Append(q, x)[i] = r}
           n == Len(q) + 1
<1>1. /\ DOMAIN q = 1..Len(q) /\ DOMAIN Append(q, x) = 1..n /\ Len(q) \in Nat
      /\ \A i \in 1..Len(q) : Append(q, x)[i] = q[i]
      /\ Append(q, x)[n] = x
  OBVIOUS
<1>2. IsFiniteSet(old)
  BY OccurrencesType
<1>3. CASE x = r
  <2>1. new = old \cup {n} /\ n \notin old
    BY <1>1, <1>3
  <2>2. Cardinality(new) = Cardinality(old) + 1
    BY <1>2, <2>1, FS_AddElement
  <2> QED BY <1>3, <2>2 DEF Occurrences
<1>4. CASE x # r
  <2>1. new = old
    BY <1>1, <1>4
  <2>2. Occurrences(q, r) \in Nat
    BY OccurrencesType
  <2>3. Occurrences(Append(q, x), r) = Occurrences(q, r)
    BY <2>1 DEF Occurrences
  <2> QED BY <1>4, <2>2, <2>3
<1> QED BY <1>3, <1>4

LEMMA OccurrencesFront ==
  ASSUME NEW q \in Seq(Resources), q # <<>>, NEW r
  PROVE  Occurrences(q, r) =
           Occurrences(SubSeq(q, 1, Len(q) - 1), r) + IF q[Len(q)] = r THEN 1 ELSE 0
<1> DEFINE front == SubSeq(q, 1, Len(q) - 1)
           last == q[Len(q)]
<1>1. /\ front \in Seq(Resources) /\ last \in Resources
      /\ q = Append(front, last)
  OBVIOUS
<1> HIDE DEF front, last
<1>2. Occurrences(Append(front, last), r)
        = Occurrences(front, r) + IF last = r THEN 1 ELSE 0
  BY <1>1, OccurrencesAppend
<1>3. Occurrences(q, r) = Occurrences(front, r) + IF last = r THEN 1 ELSE 0
  BY <1>1, <1>2
<1> QED BY <1>3 DEF front, last

-----------------------------------------------------------------------------
(* The number of places is a natural number the bound allows for.          *)
LEMMA SlotsBound ==
  /\ MaxViewers \in Nat
  /\ IsFiniteSet(Slots)
  /\ Cardinality(Slots) \in 0..MaxViewers
<1>1. IsFiniteSet(Sessions) /\ Slots \subseteq Sessions
  BY SessionAssumption DEF Slots
<1>2. IsFiniteSet(Slots) /\ Cardinality(Slots) <= Cardinality(Sessions)
  BY <1>1, FS_Subset
<1>3. Cardinality(Slots) \in Nat /\ Cardinality(Sessions) \in Nat
  BY <1>1, <1>2, FS_CardinalityType
<1>4. MaxViewers = Cardinality(Sessions)
  BY SessionAssumption
<1> QED BY <1>2, <1>3, <1>4

(* The methods and timers of lifecycle.go keep the types and change the    *)
(* count as their names say.                                               *)
LEMMA LifecycleStep ==
  ASSUME Lifecycle!TypeOK
  PROVE  /\ UNCHANGED lifecycleVars => Lifecycle!TypeOK' /\ viewers' = viewers
         /\ Lifecycle!Connect => Lifecycle!TypeOK' /\ viewers' = viewers + 1
         /\ Lifecycle!ConnectFails => Lifecycle!TypeOK' /\ viewers' = viewers
         /\ (Lifecycle!Disconnect /\ viewers > 0) =>
              Lifecycle!TypeOK' /\ viewers' = viewers - 1
         /\ Lifecycle!Background => Lifecycle!TypeOK' /\ viewers' = viewers
<1> USE SlotsBound, SessionAssumption
    DEF Lifecycle!TypeOK, Lifecycle!timerVars, Lifecycle!spent
<1>1. UNCHANGED lifecycleVars => Lifecycle!TypeOK' /\ viewers' = viewers
  BY DEF lifecycleVars
<1>2. Lifecycle!Connect => Lifecycle!TypeOK' /\ viewers' = viewers + 1
  BY DEF Lifecycle!Connect, Lifecycle!ConnectFirst, Lifecycle!ConnectAnother,
         Lifecycle!CancelIdle, Lifecycle!PageActivated
<1>3. Lifecycle!ConnectFails => Lifecycle!TypeOK' /\ viewers' = viewers
  BY DEF Lifecycle!ConnectFails, Lifecycle!ViewersAfterFailure,
         Lifecycle!CancelIdle, Lifecycle!PageActivationFails
<1>4. (Lifecycle!Disconnect /\ viewers > 0) =>
        Lifecycle!TypeOK' /\ viewers' = viewers - 1
  BY DEF Lifecycle!Disconnect, Lifecycle!DisconnectOther, Lifecycle!DisconnectLast,
         Lifecycle!DisconnectNobody, Lifecycle!LastLeaves, Lifecycle!ArmIdle
<1>5. Lifecycle!Freeze =>
        /\ state' \in {"unset", "active", "frozen"}
        /\ page' \in {"active", "frozen", "none"}
        /\ connectFailures' \in 0..MaxConnectFailures
        /\ freezeFailures' \in 0..MaxFreezeFailures
        /\ tabLosses' \in 0..MaxTabLosses
  BY DEF Lifecycle!Freeze, Lifecycle!PageFrozen, Lifecycle!PageFreezeFails
<1>6. ASSUME NEW t \in Timers, Lifecycle!FreezeIfStillIdle(t)
      PROVE  Lifecycle!TypeOK' /\ viewers' = viewers
  BY <1>5, <1>6 DEF Lifecycle!FreezeIfStillIdle
<1>7. Lifecycle!FreezeIfIdle => Lifecycle!TypeOK' /\ viewers' = viewers
  BY <1>5 DEF Lifecycle!FreezeIfIdle
<1>8. ASSUME NEW t \in Timers, Lifecycle!Fire(t)
      PROVE  Lifecycle!TypeOK' /\ viewers' = viewers
  BY <1>8 DEF Lifecycle!Fire
<1>9. (Lifecycle!CloseTabs \/ Lifecycle!RestartBrave) =>
        Lifecycle!TypeOK' /\ viewers' = viewers
  BY DEF Lifecycle!CloseTabs, Lifecycle!RestartBrave
<1>10. Lifecycle!Background => Lifecycle!TypeOK' /\ viewers' = viewers
  BY <1>6, <1>7, <1>8, <1>9 DEF Lifecycle!Background
<1> QED BY <1>1, <1>2, <1>3, <1>4, <1>10
-----------------------------------------------------------------------------
(* What an action on session s leaves alone.                               *)
Others(s) ==
  \A t \in Sessions \ {s} :
    /\ pc'[t] = pc[t] /\ held'[t] = held[t]
    /\ queue'[t] = queue[t] /\ work'[t] = work[t] /\ closed'[t] = closed[t]
    /\ pending'[t] = pending[t] /\ ticking'[t] = ticking[t]
    /\ expiring'[t] = expiring[t]

LEMMA OthersInv ==
  ASSUME NEW s \in Sessions, \A t \in Sessions : SessionInv(t), Others(s),
         SessionInv(s)'
  PROVE  \A t \in Sessions : SessionInv(t)'
<1> SUFFICES ASSUME NEW t \in Sessions, t # s PROVE SessionInv(t)'
  OBVIOUS
<1>1. UntouchedInv(t)' /\ HandoverInv(t)' /\ AheadInv(t)'
  BY DEF Others, SessionInv, UntouchedInv, HandoverInv, AheadInv
<1>2. OnceInv(t)'
  BY DEF Others, SessionInv, OnceInv, Listed
<1> QED BY <1>1, <1>2 DEF SessionInv

(* Counting the places.                                                    *)
LEMMA SlotTaken ==
  ASSUME TypeOK, NEW s \in Sessions, "slot" \notin held[s],
         held' = [held EXCEPT ![s] = @ \cup {"slot"}]
  PROVE  Cardinality(Slots') = Cardinality(Slots) + 1
<1>1. Slots' = Slots \cup {s} /\ s \notin Slots
  BY DEF Slots, TypeOK
<1> QED BY <1>1, SlotsBound, FS_AddElement

LEMMA SlotGivenBack ==
  ASSUME TypeOK, NEW s \in Sessions, "slot" \in held[s],
         held' = [held EXCEPT ![s] = @ \ {"slot"}]
  PROVE  Cardinality(Slots') = Cardinality(Slots) - 1 /\ Cardinality(Slots) > 0
<1>1. Slots' = Slots \ {s} /\ s \in Slots
  BY DEF Slots, TypeOK
<1>2. Cardinality(Slots) # 0
  BY <1>1, SlotsBound, FS_EmptySet
<1> QED BY <1>1, <1>2, SlotsBound, FS_RemoveElement

(* Whoever starts the teardown takes the list, and takes it alone.         *)
LEMMA RunCleanupInv ==
  ASSUME TypeOK, NEW s \in Sessions, SessionInv(s), RunCleanup(s), pc[s] # "new",
         held'[s] = held[s],
         \/ pc'[s] = pc[s]
         \/ pc[s] \notin Resources /\ pc'[s] = "rejected"
  PROVE  /\ SessionInv(s)'
         /\ queue' \in [Sessions -> Seq(Resources)]
         /\ work' \in [Sessions -> Seq(Resources)]
         /\ closed' \in [Sessions -> BOOLEAN]
         /\ \A t \in Sessions \ {s} :
              queue'[t] = queue[t] /\ work'[t] = work[t] /\ closed'[t] = closed[t]
<1> DEFINE Lists == /\ queue \in [Sessions -> Seq(Resources)]
                    /\ work \in [Sessions -> Seq(Resources)]
                    /\ closed \in [Sessions -> BOOLEAN]
<1>0. Lists
  BY DEF TypeOK
<1>1. /\ queue' \in [Sessions -> Seq(Resources)]
      /\ work' \in [Sessions -> Seq(Resources)]
      /\ closed' \in [Sessions -> BOOLEAN]
      /\ \A t \in Sessions \ {s} :
           queue'[t] = queue[t] /\ work'[t] = work[t] /\ closed'[t] = closed[t]
  <2>1. CASE closed[s]
    BY <2>1, <1>0 DEF RunCleanup
  <2>2. CASE ~closed[s]
    <3>1. <<>> \in Seq(Resources) /\ queue[s] \in Seq(Resources)
      BY <1>0
    <3> QED BY <2>2, <3>1, <1>0 DEF RunCleanup
  <2> QED BY <2>1, <2>2
<1>2. closed'[s] /\ queue'[s] = <<>>
  BY <1>0 DEF RunCleanup, SessionInv, HandoverInv
<1>3. UntouchedInv(s)' /\ HandoverInv(s)' /\ AheadInv(s)'
  BY <1>2 DEF SessionInv, UntouchedInv, HandoverInv, AheadInv
<1>4. \A r \in Resources : Listed(s, r)' = Listed(s, r)
  <2>1. CASE closed[s]
    BY <2>1, <1>0 DEF RunCleanup, Listed
  <2>2. CASE ~closed[s]
    <3>1. work'[s] = queue[s] /\ work[s] = <<>>
      BY <2>2, <1>0 DEF RunCleanup, SessionInv, HandoverInv
    <3>2. SUFFICES ASSUME NEW r \in Resources PROVE Listed(s, r)' = Listed(s, r)
      OBVIOUS
    <3>3. Occurrences(queue[s], r) \in Nat
      BY <1>0, OccurrencesType
    <3> QED BY <1>2, <3>1, <3>3, OccurrencesEmpty DEF Listed
  <2> QED BY <2>1, <2>2
<1>5. \A r \in Resources : (pc'[s] = r) <=> (pc[s] = r)
  BY DEF Resources, Acquired
<1>6. OnceInv(s)'
  BY <1>4, <1>5 DEF SessionInv, OnceInv
<1> QED BY <1>1, <1>3, <1>6 DEF SessionInv

(* Releasing one of the things a session holds.                            *)
LEMMA ReleaseEffect ==
  ASSUME TypeOK, viewers = Cardinality(Slots), NEW s \in Sessions,
         NEW r \in Resources, r \in held[s], Release(s, r)
  PROVE  /\ Lifecycle!TypeOK'
         /\ viewers' = Cardinality(Slots')
         /\ held' \in [Sessions -> SUBSET Resources]
         /\ peer' \in [Sessions -> PeerStates]
         /\ pending' \in [Sessions -> SUBSET PeerStates]
         /\ held'[s] = held[s] \ {r}
         /\ \A t \in Sessions \ {s} : held'[t] = held[t] /\ pending'[t] = pending[t]
<1>1. held' = [held EXCEPT ![s] = @ \ {r}]
  BY DEF Release
<1>2. /\ held' \in [Sessions -> SUBSET Resources]
      /\ held'[s] = held[s] \ {r}
      /\ \A t \in Sessions \ {s} : held'[t] = held[t]
  BY <1>1 DEF TypeOK
<1>3. /\ peer' \in [Sessions -> PeerStates]
      /\ pending' \in [Sessions -> SUBSET PeerStates]
      /\ \A t \in Sessions \ {s} : pending'[t] = pending[t]
  <2>1. peer \in [Sessions -> PeerStates] /\ pending \in [Sessions -> SUBSET PeerStates]
    BY DEF TypeOK
  <2>2. CASE r = "peer"
    BY <2>1, <2>2 DEF Release, PeerStates
  <2>3. CASE r # "peer"
    BY <2>1, <2>3 DEF Release
  <2> QED BY <2>2, <2>3
<1>4. CASE r = "slot"
  <2>1. Cardinality(Slots') = Cardinality(Slots) - 1 /\ Cardinality(Slots) > 0
    BY <1>1, <1>4, SlotGivenBack
  <2>2. Lifecycle!Disconnect
    BY <1>4 DEF Release
  <2>3. Lifecycle!TypeOK' /\ viewers' = viewers - 1
    BY <2>1, <2>2, LifecycleStep DEF TypeOK
  <2> QED BY <1>2, <1>3, <2>1, <2>3
<1>5. CASE r # "slot"
  <2>1. Slots' = Slots
    BY <1>2, <1>5 DEF Slots
  <2>2. Lifecycle!TypeOK' /\ viewers' = viewers
    BY <1>5, LifecycleStep DEF Release, TypeOK
  <2> QED BY <1>2, <1>3, <2>1, <2>2
<1> QED BY <1>4, <1>5

LEMMA ReleaseNextInv ==
  ASSUME IInv, NEW s \in Sessions, ReleaseNext(s)
  PROVE  IInv'
<1> DEFINE n == Len(work[s])
           r == work[s][n]
<1>1. work[s] \in Seq(Resources) /\ work[s] # <<>> /\ queue[s] \in Seq(Resources)
  BY DEF IInv, TypeOK, ReleaseNext
<1>2. n \in Nat \ {0} /\ r \in Resources /\ SubSeq(work[s], 1, n - 1) \in Seq(Resources)
  BY <1>1
<1>3. /\ Release(s, r) /\ work' = [work EXCEPT ![s] = SubSeq(@, 1, n - 1)]
      /\ UNCHANGED <<pc, queue, closed, flaps, graceVars>>
  BY DEF ReleaseNext
<1>4. /\ work'[s] = SubSeq(work[s], 1, n - 1)
      /\ work' \in [Sessions -> Seq(Resources)]
      /\ \A t \in Sessions \ {s} : work'[t] = work[t]
  BY <1>2, <1>3 DEF IInv, TypeOK
<1>5. \A x \in Resources :
        /\ Occurrences(work[s], x) =
             Occurrences(work'[s], x) + IF r = x THEN 1 ELSE 0
        /\ Occurrences(work'[s], x) \in Nat
        /\ Occurrences(queue[s], x) \in Nat
  BY <1>1, <1>2, <1>4, OccurrencesFront, OccurrencesType
<1>6. SessionInv(s) /\ pc[s] # "new" /\ closed[s]
  BY <1>1 DEF IInv, SessionInv, UntouchedInv, HandoverInv
<1>7. r \in held[s] /\ pc[s] # r
  BY <1>2, <1>5, <1>6 DEF SessionInv, OnceInv, Listed
<1>8. /\ Lifecycle!TypeOK'
      /\ viewers' = Cardinality(Slots')
      /\ held' \in [Sessions -> SUBSET Resources]
      /\ peer' \in [Sessions -> PeerStates]
      /\ pending' \in [Sessions -> SUBSET PeerStates]
      /\ held'[s] = held[s] \ {r}
      /\ \A t \in Sessions \ {s} : held'[t] = held[t] /\ pending'[t] = pending[t]
  BY <1>2, <1>3, <1>7, ReleaseEffect DEF IInv
<1>9. TypeOK'
  BY <1>3, <1>4, <1>8 DEF IInv, TypeOK, graceVars
<1>10. UntouchedInv(s)' /\ HandoverInv(s)' /\ AheadInv(s)'
  BY <1>3, <1>6, <1>8 DEF SessionInv, UntouchedInv, HandoverInv, AheadInv
<1>11. OnceInv(s)'
  <2> SUFFICES ASSUME NEW x \in Resources
               PROVE  Occurrences(queue[s], x) + Occurrences(work'[s], x)
                        + (IF pc[s] = x THEN 1 ELSE 0)
                      = IF x \in held'[s] THEN 1 ELSE 0
    BY <1>3 DEF OnceInv, Listed
  <2>1. Occurrences(queue[s], x) + Occurrences(work[s], x)
          + (IF pc[s] = x THEN 1 ELSE 0) = IF x \in held[s] THEN 1 ELSE 0
    BY <1>6 DEF SessionInv, OnceInv, Listed
  <2>2. CASE x = r
    BY <2>1, <2>2, <1>5, <1>7, <1>8
  <2>3. CASE x # r
    BY <2>1, <2>3, <1>5, <1>8
  <2> QED BY <2>2, <2>3
<1>12. Others(s)
  BY <1>3, <1>4, <1>8 DEF Others, graceVars
<1>13. SessionInv(s)'
  BY <1>10, <1>11 DEF SessionInv
<1>14. \A t \in Sessions : SessionInv(t)'
  BY <1>12, <1>13, OthersInv DEF IInv
<1> QED BY <1>8, <1>9, <1>14 DEF IInv
-----------------------------------------------------------------------------
(* The actions of handleOffer.                                             *)
LEMMA NewPeerInv ==
  ASSUME IInv, NEW s \in Sessions, NewPeer(s)
  PROVE  IInv'
<1>1. /\ pc[s] = "new" /\ pc' = [pc EXCEPT ![s] = "offered"]
      /\ held' = [held EXCEPT ![s] = {"peer"}]
      /\ queue' = [queue EXCEPT ![s] = <<"peer">>]
      /\ UNCHANGED <<lifecycleVars, work, closed, peerVars, graceVars>>
  BY DEF NewPeer, Goto
<1>2. SessionInv(s) /\ held[s] = {} /\ queue[s] = <<>> /\ work[s] = <<>>
  BY <1>1 DEF IInv, SessionInv, UntouchedInv
<1>3. <<"peer">> = Append(<<>>, "peer") /\ <<>> \in Seq(Resources)
      /\ "peer" \in Resources
  BY DEF Resources
<1>4. /\ pc'[s] = "offered" /\ held'[s] = {"peer"} /\ queue'[s] = <<"peer">>
      /\ work'[s] = <<>> /\ closed'[s] = FALSE
  BY <1>1, <1>2 DEF IInv, TypeOK, SessionInv, UntouchedInv
<1>5. TypeOK'
  <2>1. Lifecycle!TypeOK'
    BY <1>1, LifecycleStep DEF IInv, TypeOK
  <2>2. /\ pc' \in [Sessions -> Labels]
        /\ held' \in [Sessions -> SUBSET Resources]
        /\ queue' \in [Sessions -> Seq(Resources)]
    BY <1>1, <1>3 DEF IInv, TypeOK, Labels
  <2> QED BY <1>1, <2>1, <2>2 DEF IInv, TypeOK, Labels, peerVars, graceVars
<1>6. UntouchedInv(s)' /\ HandoverInv(s)' /\ AheadInv(s)'
  BY <1>4 DEF UntouchedInv, HandoverInv, AheadInv
<1>7. OnceInv(s)'
  <2>1. ASSUME NEW r \in Resources
        PROVE  Occurrences(<<"peer">>, r) = IF "peer" = r THEN 1 ELSE 0
    <3>1. Occurrences(Append(<<>>, "peer"), r)
            = Occurrences(<<>>, r) + IF "peer" = r THEN 1 ELSE 0
      BY <1>3, OccurrencesAppend
    <3>2. Occurrences(Append(<<>>, "peer"), r) = Occurrences(<<"peer">>, r)
      BY <1>3
    <3> QED BY <3>1, <3>2, OccurrencesEmpty
  <2>2. \A r \in Resources : pc'[s] # r
    BY <1>4 DEF Resources, Acquired
  <2> QED BY <1>4, <2>1, <2>2, OccurrencesEmpty DEF OnceInv, Listed
<1>8. Others(s)
  BY <1>1 DEF Others, IInv, TypeOK, peerVars, graceVars
<1>9. \A t \in Sessions : SessionInv(t)'
  BY <1>6, <1>7, <1>8, OthersInv DEF IInv, SessionInv
<1>10. viewers' = Cardinality(Slots')
  <2>1. Slots' = Slots
    BY <1>1, <1>2 DEF Slots, IInv, TypeOK
  <2> QED BY <1>1, <2>1 DEF IInv, lifecycleVars
<1> QED BY <1>5, <1>9, <1>10 DEF IInv

(* A step of the handler that acquires nothing and releases nothing.       *)
LEMMA MoveInv ==
  ASSUME IInv, NEW s \in Sessions, NEW label,
         \/ pc[s] = "offered" /\ label = "negotiated"
         \/ pc[s] = "answer" /\ label = "done",
         Goto(s, label),
         UNCHANGED <<lifecycleVars, cleanupVars, peerVars, graceVars>>
  PROVE  IInv'
<1>1. /\ pc'[s] = label /\ pc' \in [Sessions -> Labels]
      /\ \A t \in Sessions \ {s} : pc'[t] = pc[t]
  BY DEF Goto, IInv, TypeOK, Labels
<1>2. TypeOK'
  <2>1. Lifecycle!TypeOK'
    BY LifecycleStep DEF IInv, TypeOK
  <2> QED BY <1>1, <2>1 DEF IInv, TypeOK, Labels, cleanupVars, peerVars, graceVars
<1>3. UntouchedInv(s)' /\ HandoverInv(s)'
  BY <1>1 DEF IInv, SessionInv, UntouchedInv, HandoverInv, cleanupVars
<1>4. AheadInv(s)'
  BY <1>1 DEF IInv, SessionInv, AheadInv, cleanupVars, Labels
<1>5. OnceInv(s)'
  <2>1. \A r \in Resources : pc[s] # r /\ label # r
    BY DEF Resources, Acquired, Labels
  <2> QED BY <1>1, <2>1 DEF IInv, SessionInv, OnceInv, Listed, cleanupVars
<1>6. Others(s)
  BY <1>1 DEF Others, cleanupVars, peerVars, graceVars
<1>7. \A t \in Sessions : SessionInv(t)'
  BY <1>3, <1>4, <1>5, <1>6, OthersInv DEF IInv, SessionInv
<1>8. viewers' = viewers /\ Slots' = Slots
  BY DEF lifecycleVars, cleanupVars, Slots
<1> QED BY <1>2, <1>7, <1>8 DEF IInv

(* The handler gives up: it tears down what it has.                        *)
LEMMA GiveUpInv ==
  ASSUME IInv, NEW s \in Sessions, pc[s] \in {"offered", "negotiated", "answer"},
         RunCleanup(s), Goto(s, "rejected"),
         UNCHANGED <<held, peerVars, graceVars>>,
         Lifecycle!TypeOK', viewers' = viewers
  PROVE  IInv'
<1>1. /\ pc'[s] = "rejected" /\ pc' \in [Sessions -> Labels]
      /\ \A t \in Sessions \ {s} : pc'[t] = pc[t]
  BY DEF Goto, IInv, TypeOK, Labels
<1>2. pc[s] # "new" /\ pc[s] \notin Resources
  BY DEF Resources, Acquired
<1>3. /\ SessionInv(s)'
      /\ queue' \in [Sessions -> Seq(Resources)]
      /\ work' \in [Sessions -> Seq(Resources)]
      /\ closed' \in [Sessions -> BOOLEAN]
      /\ \A t \in Sessions \ {s} :
           queue'[t] = queue[t] /\ work'[t] = work[t] /\ closed'[t] = closed[t]
  BY <1>1, <1>2, RunCleanupInv DEF IInv
<1>4. TypeOK'
  BY <1>1, <1>3 DEF IInv, TypeOK, Labels, peerVars, graceVars
<1>5. Others(s)
  BY <1>1, <1>3 DEF Others, peerVars, graceVars
<1>6. \A t \in Sessions : SessionInv(t)'
  BY <1>3, <1>5, OthersInv DEF IInv
<1>7. Slots' = Slots
  BY DEF Slots
<1> QED BY <1>4, <1>6, <1>7 DEF IInv

(* The handler acquires r, which it has not acquired before.               *)
LEMMA AcquireInv ==
  ASSUME IInv, NEW s \in Sessions, NEW r \in Acquired,
         \/ r = "slot" /\ pc[s] = "negotiated"
         \/ r = "video" /\ pc[s] = "subscribeVideo"
         \/ r = "audio" /\ pc[s] = "subscribeAudio",
         held' = [held EXCEPT ![s] = @ \cup {r}],
         Goto(s, r),
         UNCHANGED <<queue, work, closed, peerVars, graceVars>>,
         Lifecycle!TypeOK', viewers' = IF r = "slot" THEN viewers + 1 ELSE viewers
  PROVE  IInv'
<1>1. /\ pc'[s] = r /\ pc' \in [Sessions -> Labels]
      /\ \A t \in Sessions \ {s} : pc'[t] = pc[t]
  BY DEF Goto, IInv, TypeOK, Labels
<1>2. /\ held'[s] = held[s] \cup {r} /\ held' \in [Sessions -> SUBSET Resources]
      /\ \A t \in Sessions \ {s} : held'[t] = held[t]
  BY DEF IInv, TypeOK, Resources
<1>3. r \notin held[s] /\ pc[s] \notin Resources
  BY DEF IInv, SessionInv, AheadInv, Resources, Acquired
<1>4. TypeOK'
  BY <1>1, <1>2 DEF IInv, TypeOK, Labels, peerVars, graceVars
<1>5. UntouchedInv(s)' /\ HandoverInv(s)'
  BY <1>1 DEF IInv, SessionInv, UntouchedInv, HandoverInv, Acquired
<1>6. AheadInv(s)'
  BY <1>1, <1>2 DEF IInv, SessionInv, AheadInv, Acquired
<1>7. OnceInv(s)'
  <2> SUFFICES ASSUME NEW x \in Resources
               PROVE  Listed(s, x) + (IF pc'[s] = x THEN 1 ELSE 0)
                        = IF x \in held'[s] THEN 1 ELSE 0
    BY DEF OnceInv, Listed
  <2>1. Listed(s, x) + 0 = IF x \in held[s] THEN 1 ELSE 0
    BY <1>3 DEF IInv, SessionInv, OnceInv
  <2>2. Listed(s, x) \in Int
    <3>1. Occurrences(queue[s], x) \in Nat /\ Occurrences(work[s], x) \in Nat
      BY OccurrencesType DEF IInv, TypeOK
    <3> QED BY <3>1 DEF Listed
  <2>3. CASE x = r
    BY <1>1, <1>2, <1>3, <2>1, <2>2, <2>3
  <2>4. CASE x # r
    BY <1>1, <1>2, <2>1, <2>2, <2>4
  <2> QED BY <2>3, <2>4
<1>8. Others(s)
  BY <1>1, <1>2 DEF Others, peerVars, graceVars
<1>9. \A t \in Sessions : SessionInv(t)'
  BY <1>5, <1>6, <1>7, <1>8, OthersInv DEF IInv, SessionInv
<1>10. viewers' = Cardinality(Slots')
  <2>1. CASE r = "slot"
    BY <2>1, <1>3, SlotTaken DEF IInv
  <2>2. CASE r # "slot"
    <3>1. Slots' = Slots
      BY <2>2, <1>2 DEF Slots
    <3> QED BY <2>2, <3>1 DEF IInv
  <2> QED BY <2>1, <2>2
<1> QED BY <1>4, <1>9, <1>10 DEF IInv

(* viewerCleanup.add, before and after the teardown.                       *)
LEMMA AddInv ==
  ASSUME IInv, NEW s \in Sessions, Add(s)
  PROVE  IInv'
<1> DEFINE r == pc[s]
           next == NextAcquisition(r)
<1>1. /\ r \in Acquired /\ r \in Resources /\ AddToCleanup(s, r)
      /\ pc' = [pc EXCEPT ![s] = next]
      /\ UNCHANGED <<work, closed, flaps, graceVars>>
  BY DEF Add, Goto, Resources
<1>2. \/ r = "slot" /\ next = "subscribeVideo"
      \/ r = "video" /\ next = "subscribeAudio"
      \/ r = "audio" /\ next = "answer"
  BY <1>1 DEF Acquired, NextAcquisition
<1>3. next \in Labels /\ next \notin Resources /\ next # "new"
  BY <1>2 DEF Labels, Resources, Acquired
<1>4. /\ pc'[s] = next /\ pc' \in [Sessions -> Labels]
      /\ \A t \in Sessions \ {s} : pc'[t] = pc[t]
  BY <1>1, <1>3 DEF IInv, TypeOK, Labels
<1>5. SessionInv(s) /\ queue[s] \in Seq(Resources) /\ work[s] \in Seq(Resources)
  BY DEF IInv, TypeOK
<1>6. \A x \in Resources :
        Occurrences(queue[s], x) \in Nat /\ Occurrences(work[s], x) \in Nat
  BY <1>5, OccurrencesType
<1>7. r \in held[s]
  <2>1. Listed(s, r) \in Nat
    BY <1>1, <1>6 DEF Listed
  <2>2. Listed(s, r) + 1 = IF r \in held[s] THEN 1 ELSE 0
    BY <1>1, <1>5 DEF SessionInv, OnceInv
  <2> QED BY <2>1, <2>2
<1>8. CASE closed[s]
  <2>1. Release(s, r) /\ UNCHANGED queue
    BY <1>1, <1>8 DEF AddToCleanup
  <2>2. /\ Lifecycle!TypeOK'
        /\ viewers' = Cardinality(Slots')
        /\ held' \in [Sessions -> SUBSET Resources]
        /\ peer' \in [Sessions -> PeerStates]
        /\ pending' \in [Sessions -> SUBSET PeerStates]
        /\ held'[s] = held[s] \ {r}
        /\ \A t \in Sessions \ {s} : held'[t] = held[t] /\ pending'[t] = pending[t]
    BY <1>1, <1>7, <2>1, ReleaseEffect DEF IInv
  <2>3. TypeOK'
    BY <1>1, <1>4, <2>1, <2>2 DEF IInv, TypeOK, Labels, graceVars
  <2>4. UntouchedInv(s)' /\ HandoverInv(s)'
    BY <1>1, <1>3, <1>4, <1>5, <2>1 DEF SessionInv, UntouchedInv, HandoverInv
  <2>5. AheadInv(s)'
    BY <1>2, <1>4, <1>5, <2>2 DEF SessionInv, AheadInv
  <2>6. OnceInv(s)'
    <3> SUFFICES ASSUME NEW x \in Resources
                 PROVE  Listed(s, x) = IF x \in held'[s] THEN 1 ELSE 0
      <4>1. \A x \in Resources : Listed(s, x)' = Listed(s, x) /\ Listed(s, x) \in Nat
        BY <1>1, <1>6, <2>1 DEF Listed
      <4> QED BY <1>3, <1>4, <4>1 DEF OnceInv
    <3>1. Listed(s, x) + (IF r = x THEN 1 ELSE 0) = IF x \in held[s] THEN 1 ELSE 0
      BY <1>5 DEF SessionInv, OnceInv
    <3>2. Listed(s, x) \in Nat
      BY <1>6 DEF Listed
    <3> QED BY <1>7, <2>2, <3>1, <3>2
  <2>7. Others(s)
    BY <1>1, <1>4, <2>1, <2>2 DEF Others, graceVars
  <2>8. \A t \in Sessions : SessionInv(t)'
    BY <2>4, <2>5, <2>6, <2>7, OthersInv DEF IInv, SessionInv
  <2> QED BY <2>2, <2>3, <2>8 DEF IInv
<1>9. CASE ~closed[s]
  <2>1. /\ queue' = [queue EXCEPT ![s] = Append(@, r)]
        /\ UNCHANGED <<held, lifecycleVars, peer, pending>>
    BY <1>1, <1>9 DEF AddToCleanup
  <2>2. /\ queue'[s] = Append(queue[s], r)
        /\ queue' \in [Sessions -> Seq(Resources)]
        /\ \A t \in Sessions \ {s} : queue'[t] = queue[t]
    BY <1>1, <1>5, <2>1 DEF IInv, TypeOK
  <2>3. TypeOK'
    <3>1. Lifecycle!TypeOK'
      BY <2>1, LifecycleStep DEF IInv, TypeOK
    <3> QED BY <1>1, <1>4, <2>1, <2>2, <3>1 DEF IInv, TypeOK, Labels, graceVars
  <2>4. UntouchedInv(s)' /\ HandoverInv(s)'
    BY <1>1, <1>3, <1>4, <1>5, <1>9 DEF SessionInv, UntouchedInv, HandoverInv
  <2>5. AheadInv(s)'
    BY <1>2, <1>4, <1>5, <2>1 DEF SessionInv, AheadInv
  <2>6. OnceInv(s)'
    <3> SUFFICES ASSUME NEW x \in Resources
                 PROVE  Listed(s, x)' = IF x \in held[s] THEN 1 ELSE 0
      <4>1. \A x \in Resources : pc'[s] # x
        BY <1>3, <1>4
      <4>2. \A x \in Resources : Listed(s, x)' \in Nat
        <5>1. queue'[s] \in Seq(Resources)
          BY <2>2
        <5>2. \A x \in Resources : Occurrences(queue'[s], x) \in Nat
          BY <5>1, OccurrencesType
        <5> QED BY <1>1, <1>6, <5>2 DEF Listed
      <4> QED BY <2>1, <4>1, <4>2 DEF OnceInv
    <3>1. Occurrences(queue'[s], x)
            = Occurrences(queue[s], x) + IF r = x THEN 1 ELSE 0
      BY <1>1, <1>5, <2>2, OccurrencesAppend
    <3>2. Listed(s, x) + (IF r = x THEN 1 ELSE 0) = IF x \in held[s] THEN 1 ELSE 0
      BY <1>5 DEF SessionInv, OnceInv
    <3>3. Listed(s, x)' = Occurrences(queue'[s], x) + Occurrences(work[s], x)
      BY <1>1 DEF Listed
    <3> QED BY <1>6, <3>1, <3>2, <3>3 DEF Listed
  <2>7. Others(s)
    BY <1>1, <1>4, <2>1, <2>2 DEF Others, graceVars
  <2>8. \A t \in Sessions : SessionInv(t)'
    BY <2>4, <2>5, <2>6, <2>7, OthersInv DEF IInv, SessionInv
  <2>9. viewers' = viewers /\ Slots' = Slots
    BY <2>1 DEF lifecycleVars, Slots
  <2> QED BY <2>3, <2>8, <2>9 DEF IInv
<1> QED BY <1>8, <1>9

LEMMA HandlerInv ==
  ASSUME IInv, NEW s \in Sessions, Handler(s)
  PROVE  IInv'
<1> USE DEF IInv
<1>0. Lifecycle!TypeOK
  BY DEF TypeOK
<1>1. CASE Negotiate(s)
  BY <1>1, MoveInv DEF Negotiate
<1>2. CASE Answer(s)
  BY <1>2, MoveInv DEF Answer
<1>3. CASE Fail(s)
  BY <1>0, <1>3, LifecycleStep, GiveUpInv DEF Fail
<1>4. CASE ConnectFails(s)
  BY <1>0, <1>4, LifecycleStep, GiveUpInv DEF ConnectFails
<1>5. CASE Connect(s)
  BY <1>0, <1>5, LifecycleStep, AcquireInv DEF Connect, Acquired
<1>6. CASE Subscribe(s)
  <2>1. CASE pc[s] = "subscribeVideo"
    BY <1>0, <1>6, <2>1, LifecycleStep, AcquireInv DEF Subscribe, Acquired
  <2>2. CASE pc[s] = "subscribeAudio"
    BY <1>0, <1>6, <2>2, LifecycleStep, AcquireInv DEF Subscribe, Acquired
  <2> QED BY <1>6, <2>1, <2>2 DEF Subscribe
<1> QED BY <1>1, <1>2, <1>3, <1>4, <1>5, <1>6, NewPeerInv, AddInv DEF Handler
-----------------------------------------------------------------------------
(* The callbacks of the peer connection and the grace timer: all they do   *)
(* to the lists of a session is to start its teardown.                     *)
CallbackTypes ==
  /\ peer \in [Sessions -> PeerStates]
  /\ pending \in [Sessions -> SUBSET PeerStates]
  /\ flaps \in 0..MaxFlaps
  /\ timer \in [Sessions -> BOOLEAN]
  /\ ticking \in [Sessions -> BOOLEAN]
  /\ expiring \in [Sessions -> Nat]
  /\ over \in [Sessions -> BOOLEAN]

LEMMA CallbackInv ==
  ASSUME IInv, NEW s \in Sessions, pc[s] # "new",
         UNCHANGED <<lifecycleVars, pc, held>>,
         RunCleanup(s) \/ UNCHANGED <<queue, work, closed>>,
         CallbackTypes',
         \A t \in Sessions \ {s} : /\ pending'[t] = pending[t]
                                   /\ ticking'[t] = ticking[t]
                                   /\ expiring'[t] = expiring[t]
  PROVE  IInv'
<1>1. /\ SessionInv(s)'
      /\ queue' \in [Sessions -> Seq(Resources)]
      /\ work' \in [Sessions -> Seq(Resources)]
      /\ closed' \in [Sessions -> BOOLEAN]
      /\ \A t \in Sessions \ {s} :
           queue'[t] = queue[t] /\ work'[t] = work[t] /\ closed'[t] = closed[t]
  <2>1. CASE RunCleanup(s)
    BY <2>1, RunCleanupInv DEF IInv
  <2>2. CASE UNCHANGED <<queue, work, closed>>
    <3>1. UntouchedInv(s)' /\ HandoverInv(s)' /\ AheadInv(s)'
      BY <2>2 DEF IInv, SessionInv, UntouchedInv, HandoverInv, AheadInv
    <3>2. OnceInv(s)'
      BY <2>2 DEF IInv, SessionInv, OnceInv, Listed
    <3> QED BY <2>2, <3>1, <3>2 DEF SessionInv, IInv, TypeOK
  <2> QED BY <2>1, <2>2
<1>2. TypeOK'
  <2>1. Lifecycle!TypeOK'
    BY LifecycleStep DEF IInv, TypeOK
  <2> QED BY <1>1, <2>1 DEF IInv, TypeOK, CallbackTypes
<1>3. Others(s)
  BY <1>1 DEF Others
<1>4. \A t \in Sessions : SessionInv(t)'
  BY <1>1, <1>3, OthersInv DEF IInv
<1>5. viewers' = viewers /\ Slots' = Slots
  BY DEF lifecycleVars, Slots
<1> QED BY <1>2, <1>4, <1>5 DEF IInv

LEMMA PeerBecomesInv ==
  ASSUME IInv, NEW s \in Sessions, NEW next \in PeerStates, PeerBecomes(s, next)
  PROVE  IInv'
<1>1. CallbackTypes
  BY DEF IInv, TypeOK, CallbackTypes
<1>2. /\ peer' = [peer EXCEPT ![s] = next]
      /\ pending' = [pending EXCEPT ![s] = @ \cup {next}]
      /\ flaps' = IF next = "disconnected" THEN flaps + 1 ELSE flaps
      /\ UNCHANGED <<lifecycleVars, pc, cleanupVars, graceVars>>
      /\ pc[s] # "new" /\ next \in PeerSuccessors(s)
  BY DEF PeerBecomes
<1>3. next = "disconnected" => flaps < MaxFlaps
  BY <1>1, <1>2 DEF PeerSuccessors, CallbackTypes, PeerStates
<1>4. flaps' \in 0..MaxFlaps
  BY <1>1, <1>2, <1>3, SessionAssumption DEF CallbackTypes
<1>5. /\ peer' \in [Sessions -> PeerStates]
      /\ pending' \in [Sessions -> SUBSET PeerStates]
      /\ \A t \in Sessions \ {s} : pending'[t] = pending[t]
  BY <1>1, <1>2 DEF CallbackTypes
<1>6. CallbackTypes'
  BY <1>1, <1>2, <1>4, <1>5 DEF CallbackTypes, graceVars
<1>7. UNCHANGED <<queue, work, closed, held, ticking, expiring>>
  BY <1>2 DEF cleanupVars, graceVars
<1> QED BY <1>2, <1>5, <1>6, <1>7, CallbackInv

LEMMA UpdateInv ==
  ASSUME IInv, NEW s \in Sessions, NEW next \in PeerStates, Update(s, next)
  PROVE  IInv'
<1>1. CallbackTypes
  BY DEF IInv, TypeOK, CallbackTypes
<1>2. /\ next \in pending[s] /\ pending' = [pending EXCEPT ![s] = @ \ {next}]
      /\ UNCHANGED <<lifecycleVars, pc, held, peer, flaps, expiring>>
  BY DEF Update
<1>3. pc[s] # "new"
  BY <1>2 DEF IInv, SessionInv, UntouchedInv
<1>4. /\ pending' \in [Sessions -> SUBSET PeerStates]
      /\ \A t \in Sessions \ {s} : pending'[t] = pending[t]
  BY <1>1, <1>2 DEF CallbackTypes
<1>5. \/ UNCHANGED <<timer, ticking, over, queue, work, closed>>
      \/ StopGrace(s) /\ UNCHANGED <<over, queue, work, closed>>
      \/ Interrupted(s)
      \/ over' = [over EXCEPT ![s] = TRUE] /\ StopGrace(s) /\ RunCleanup(s)
  BY DEF Update, Recovered, Terminated
<1>6. /\ timer' \in [Sessions -> BOOLEAN] /\ ticking' \in [Sessions -> BOOLEAN]
      /\ over' \in [Sessions -> BOOLEAN]
      /\ \A t \in Sessions \ {s} : ticking'[t] = ticking[t]
  <2> USE <1>1 DEF CallbackTypes
  <2>1. CASE UNCHANGED <<timer, ticking, over, queue, work, closed>>
    BY <2>1
  <2>2. CASE StopGrace(s) /\ UNCHANGED <<over, queue, work, closed>>
    BY <2>2 DEF StopGrace
  <2>3. CASE Interrupted(s)
    BY <2>3 DEF Interrupted
  <2>4. CASE over' = [over EXCEPT ![s] = TRUE] /\ StopGrace(s) /\ RunCleanup(s)
    BY <2>4 DEF StopGrace
  <2> QED BY <1>5, <2>1, <2>2, <2>3, <2>4
<1>7. RunCleanup(s) \/ UNCHANGED <<queue, work, closed>>
  BY <1>5 DEF Interrupted
<1>8. CallbackTypes'
  BY <1>1, <1>2, <1>4, <1>6 DEF CallbackTypes
<1> QED BY <1>2, <1>3, <1>4, <1>6, <1>7, <1>8, CallbackInv

LEMMA GraceFiresInv ==
  ASSUME IInv, NEW s \in Sessions, GraceFires(s)
  PROVE  IInv'
<1>1. CallbackTypes
  BY DEF IInv, TypeOK, CallbackTypes
<1>2. /\ ticking[s] /\ ticking' = [ticking EXCEPT ![s] = FALSE]
      /\ expiring' = [expiring EXCEPT ![s] = @ + 1]
      /\ UNCHANGED <<lifecycleVars, pc, held, queue, work, closed, peer, pending,
                     flaps, timer, over>>
  BY DEF GraceFires, cleanupVars, peerVars
<1>3. pc[s] # "new"
  BY <1>2 DEF IInv, SessionInv, UntouchedInv
<1>4. CallbackTypes'
  BY <1>1, <1>2 DEF CallbackTypes
<1>5. \A t \in Sessions \ {s} : ticking'[t] = ticking[t] /\ expiring'[t] = expiring[t]
  BY <1>1, <1>2 DEF CallbackTypes
<1> QED BY <1>2, <1>3, <1>4, <1>5, CallbackInv

LEMMA ExpireInv ==
  ASSUME IInv, NEW s \in Sessions, Expire(s)
  PROVE  IInv'
<1>1. CallbackTypes
  BY DEF IInv, TypeOK, CallbackTypes
<1>2. /\ expiring[s] > 0 /\ expiring' = [expiring EXCEPT ![s] = @ - 1]
      /\ UNCHANGED <<lifecycleVars, pc, held, peer, pending, flaps, ticking>>
  BY DEF Expire, peerVars
<1>3. pc[s] # "new"
  BY <1>2 DEF IInv, SessionInv, UntouchedInv
<1>4. /\ over' \in [Sessions -> BOOLEAN] /\ timer' \in [Sessions -> BOOLEAN]
      /\ RunCleanup(s) \/ UNCHANGED <<queue, work, closed>>
  BY <1>1 DEF Expire, CallbackTypes
<1>5. expiring' \in [Sessions -> Nat]
      /\ \A t \in Sessions \ {s} : expiring'[t] = expiring[t]
  BY <1>1, <1>2 DEF CallbackTypes
<1>6. CallbackTypes'
  BY <1>1, <1>2, <1>4, <1>5 DEF CallbackTypes
<1> QED BY <1>2, <1>3, <1>4, <1>5, <1>6, CallbackInv

LEMMA BackgroundInv ==
  ASSUME IInv, LifecycleBackground
  PROVE  IInv'
<1>1. /\ Lifecycle!Background
      /\ UNCHANGED <<pc, cleanupVars, peerVars, graceVars>>
  BY DEF LifecycleBackground
<1>2. Lifecycle!TypeOK' /\ viewers' = viewers
  BY <1>1, LifecycleStep DEF IInv, TypeOK
<1>3. TypeOK'
  BY <1>1, <1>2 DEF IInv, TypeOK, cleanupVars, peerVars, graceVars
<1>4. ASSUME NEW s \in Sessions PROVE SessionInv(s)'
  <2>1. UntouchedInv(s)' /\ HandoverInv(s)' /\ AheadInv(s)'
    BY <1>1 DEF IInv, SessionInv, UntouchedInv, HandoverInv, AheadInv, cleanupVars,
                peerVars, graceVars
  <2>2. OnceInv(s)'
    BY <1>1 DEF IInv, SessionInv, OnceInv, Listed, cleanupVars
  <2> QED BY <2>1, <2>2 DEF SessionInv
<1>5. Slots' = Slots
  BY <1>1 DEF cleanupVars, Slots
<1> QED BY <1>2, <1>3, <1>4, <1>5 DEF IInv

-----------------------------------------------------------------------------
LEMMA InitIInv == Init => IInv
<1> SUFFICES ASSUME Init PROVE IInv
  OBVIOUS
<1>1. Lifecycle!TypeOK /\ viewers = 0
  BY SlotsBound, SessionAssumption DEF Init, Lifecycle!Init, Lifecycle!TypeOK
<1>2. TypeOK
  <2>1. <<>> \in Seq(Resources) /\ 0 \in 0..MaxFlaps
    BY SessionAssumption
  <2> QED BY <1>1, <2>1 DEF Init, TypeOK, Acquired, PeerStates
<1>3. ASSUME NEW s \in Sessions PROVE SessionInv(s)
  <2>1. UntouchedInv(s) /\ HandoverInv(s) /\ AheadInv(s)
    BY DEF Init, UntouchedInv, HandoverInv, AheadInv
  <2>2. OnceInv(s)
    BY OccurrencesEmpty DEF Init, OnceInv, Listed, Resources, Acquired
  <2> QED BY <2>1, <2>2 DEF SessionInv
<1>4. Slots = {}
  BY DEF Init, Slots
<1> QED BY <1>1, <1>2, <1>3, <1>4, FS_EmptySet DEF IInv

LEMMA NextIInv == IInv /\ [Next]_vars => IInv'
<1> SUFFICES ASSUME IInv, [Next]_vars PROVE IInv'
  OBVIOUS
<1>1. CASE UNCHANGED vars
  <2>1. Lifecycle!TypeOK' /\ viewers' = viewers
    BY <1>1, LifecycleStep DEF IInv, TypeOK, vars
  <2>2. TypeOK'
    BY <1>1, <2>1 DEF IInv, TypeOK, vars, cleanupVars, peerVars, graceVars
  <2>3. ASSUME NEW s \in Sessions PROVE SessionInv(s)'
    <3>1. UntouchedInv(s)' /\ HandoverInv(s)' /\ AheadInv(s)'
      BY <1>1 DEF IInv, SessionInv, UntouchedInv, HandoverInv, AheadInv, vars,
                  cleanupVars, peerVars, graceVars
    <3>2. OnceInv(s)'
      BY <1>1 DEF IInv, SessionInv, OnceInv, Listed, vars, cleanupVars
    <3> QED BY <3>1, <3>2 DEF SessionInv
  <2>4. Slots' = Slots
    BY <1>1 DEF vars, cleanupVars, Slots
  <2> QED BY <2>1, <2>2, <2>3, <2>4 DEF IInv
<1>2. ASSUME NEW s \in Sessions, Teardown(s) PROVE IInv'
  BY <1>2, ReleaseNextInv, UpdateInv, GraceFiresInv, ExpireInv DEF Teardown
<1>3. CASE AllOver
  BY <1>1, <1>3 DEF AllOver
<1> QED BY <1>1, <1>2, <1>3, HandlerInv, PeerBecomesInv, BackgroundInv
        DEF Next, PeerChanges

(* The session's bookkeeping keeps its types.                              *)
THEOREM TypeCorrect == Spec => []TypeOK
<1>1. IInv => TypeOK
  BY DEF IInv
<1> QED BY <1>1, InitIInv, NextIInv, PTL DEF Spec

(* What a session holds is in hand or in one of its lists, exactly once,   *)
(* however handler, callbacks and timer interleave.                        *)
THEOREM ReleasedOnce == Spec => []ReleasedExactlyOnce
<1>1. IInv => ReleasedExactlyOnce
  BY DEF IInv, SessionInv, OnceInv, Listed, ReleasedExactlyOnce
<1> QED BY <1>1, InitIInv, NextIInv, PTL DEF Spec

(* Nothing is added to a list that has been taken.                         *)
THEOREM NothingAdded == Spec => []NothingAddedAfterTeardown
<1>1. IInv => NothingAddedAfterTeardown
  BY DEF IInv, SessionInv, HandoverInv, NothingAddedAfterTeardown
<1> QED BY <1>1, InitIInv, NextIInv, PTL DEF Spec

(* The count of viewers is the number of sessions with a place in it.      *)
THEOREM SlotsCounted == Spec => []SlotsAreCounted
<1>1. IInv => SlotsAreCounted
  BY DEF IInv, Slots, SlotsAreCounted
<1> QED BY <1>1, InitIInv, NextIInv, PTL DEF Spec
(* The grace timer is worked by three callbacks only.                      *)
LEMMA NextTracked ==
  ASSUME TypeOK, GraceTimerIsTracked, [Next]_vars
  PROVE  GraceTimerIsTracked'
<1>1. ASSUME NEW s \in Sessions, NEW next \in PeerStates, Update(s, next)
      PROVE  GraceTimerIsTracked'
  <2>1. UNCHANGED expiring /\ (over'[s] \/ UNCHANGED over)
    BY <1>1 DEF Update, Recovered, Interrupted, Terminated, TypeOK
  <2>2. \A t \in Sessions \ {s} :
          over'[t] = over[t] /\ timer'[t] = timer[t] /\ ticking'[t] = ticking[t]
    BY <1>1 DEF Update, Recovered, Interrupted, Terminated, StopGrace, TypeOK
  <2>3. ~over'[s] => /\ ~over[s]
                     /\ ticking'[s] => timer'[s]
                     /\ timer'[s] => ticking'[s] \/ expiring[s] > 0
    BY <1>1 DEF Update, Recovered, Interrupted, Terminated, StopGrace, TypeOK,
                GraceTimerIsTracked
  <2> QED BY <2>1, <2>2, <2>3 DEF GraceTimerIsTracked
<1>2. ASSUME NEW s \in Sessions, GraceFires(s) PROVE GraceTimerIsTracked'
  BY <1>2 DEF GraceFires, GraceTimerIsTracked, TypeOK
<1>3. ASSUME NEW s \in Sessions, Expire(s) PROVE GraceTimerIsTracked'
  BY <1>3 DEF Expire, GraceTimerIsTracked, TypeOK
<1>4. CASE UNCHANGED graceVars
  BY <1>4 DEF graceVars, GraceTimerIsTracked
<1>5. ASSUME NEW s \in Sessions, Handler(s) \/ PeerChanges(s) \/ ReleaseNext(s)
      PROVE  UNCHANGED graceVars
  BY <1>5 DEF Handler, NewPeer, Negotiate, Fail, Connect, ConnectFails, Add,
              Subscribe, Answer, PeerChanges, PeerBecomes, ReleaseNext
<1>6. LifecycleBackground \/ AllOver \/ UNCHANGED vars => UNCHANGED graceVars
  BY DEF LifecycleBackground, AllOver, vars
<1> QED BY <1>1, <1>2, <1>3, <1>4, <1>5, <1>6 DEF Next, Teardown

(* Whatever the order of disconnections, recoveries and late callbacks, no *)
(* grace timer runs that Update cannot stop, and none is only remembered.  *)
THEOREM GraceTracked == Spec => []GraceTimerIsTracked
<1>1. Init => GraceTimerIsTracked
  BY DEF Init, GraceTimerIsTracked
<1>2. TypeOK /\ GraceTimerIsTracked /\ [Next]_vars => GraceTimerIsTracked'
  BY NextTracked
<1> QED BY <1>1, <1>2, TypeCorrect, PTL DEF Spec

-----------------------------------------------------------------------------
(* The refinement of SessionContract.  A step of a session either is the   *)
(* step of the contract named here or leaves alone what the contract sees. *)
Reply == [s \in Sessions |-> ReplyTo(pc[s])]

Place == [s \in Sessions |-> "slot" \in held[s]]

(* The contract sees the replies, the teardowns, the places and the page.  *)
Seen == <<lifecycleVars, Reply, closed, Place>>

LEMMA SeenIsContract == UNCHANGED Seen => UNCHANGED Contract!contractVars
  BY DEF Seen, Reply, Place, lifecycleVars, Contract!contractVars,
         Contract!sessionVars, Contract!vars, Contract!timerVars, Contract!spent

(* The lifecycle of the contract is that of the sessions.                  *)
LEMMA SameLifecycle ==
  /\ Lifecycle!Connect => Contract!Connect
  /\ Lifecycle!ConnectFails => Contract!ConnectFails
  /\ Lifecycle!Disconnect => Contract!Disconnect
  /\ Lifecycle!Background => Contract!Background
  /\ UNCHANGED lifecycleVars => UNCHANGED Contract!vars
<1>1. Lifecycle!Connect => Contract!Connect
  BY DEF Lifecycle!Connect, Lifecycle!ConnectFirst, Lifecycle!ConnectAnother,
         Lifecycle!CancelIdle, Lifecycle!PageActivated, Lifecycle!spent,
         Contract!Connect, Contract!ConnectFirst, Contract!ConnectAnother,
         Contract!CancelIdle, Contract!PageActivated, Contract!spent
<1>2. Lifecycle!ConnectFails => Contract!ConnectFails
  BY DEF Lifecycle!ConnectFails, Lifecycle!ViewersAfterFailure,
         Lifecycle!CancelIdle, Lifecycle!PageActivationFails,
         Contract!ConnectFails, Contract!ViewersAfterFailure,
         Contract!CancelIdle, Contract!PageActivationFails
<1>3. Lifecycle!Disconnect => Contract!Disconnect
  BY DEF Lifecycle!Disconnect, Lifecycle!DisconnectOther, Lifecycle!DisconnectLast,
         Lifecycle!DisconnectNobody, Lifecycle!LastLeaves, Lifecycle!ArmIdle,
         Lifecycle!timerVars, Lifecycle!spent, Lifecycle!vars,
         Contract!Disconnect, Contract!DisconnectOther, Contract!DisconnectLast,
         Contract!DisconnectNobody, Contract!LastLeaves, Contract!ArmIdle,
         Contract!timerVars, Contract!spent, Contract!vars
<1>4. Lifecycle!Background => Contract!Background
  BY DEF Lifecycle!Background, Lifecycle!Fire, Lifecycle!FreezeIfStillIdle,
         Lifecycle!NobodyWatches, Lifecycle!FreezeIfIdle, Lifecycle!Freeze,
         Lifecycle!PageFrozen, Lifecycle!PageFreezeFails, Lifecycle!CloseTabs,
         Lifecycle!RestartBrave, Lifecycle!timerVars, Lifecycle!spent,
         Contract!Background, Contract!Fire, Contract!FreezeIfStillIdle,
         Contract!NobodyWatches, Contract!FreezeIfIdle, Contract!Freeze,
         Contract!PageFrozen, Contract!PageFreezeFails, Contract!CloseTabs,
         Contract!RestartBrave, Contract!timerVars, Contract!spent
<1>5. UNCHANGED lifecycleVars => UNCHANGED Contract!vars
  BY DEF lifecycleVars, Contract!vars, Contract!timerVars, Contract!spent
<1> QED BY <1>1, <1>2, <1>3, <1>4, <1>5

LEMMA ReplyTable ==
  /\ ReplyTo("new") = "none"
  /\ ReplyTo("offered") = "asked" /\ ReplyTo("negotiated") = "asked"
  /\ ReplyTo("answer") = "placed"
  /\ ReplyTo("done") = "answered" /\ ReplyTo("rejected") = "refused"
  BY DEF ReplyTo, Acquired

(* A move of the handler shows as the reply its new place stands for.      *)
LEMMA ReplyMoves ==
  ASSUME TypeOK, NEW s \in Sessions, NEW label, Goto(s, label)
  PROVE  /\ Reply' = [Reply EXCEPT ![s] = ReplyTo(label)]
         /\ Reply[s] = ReplyTo(pc[s])
         /\ ReplyTo(label) = ReplyTo(pc[s]) => Reply' = Reply
  BY DEF TypeOK, Goto, Reply

(* Giving back what is not the place is not seen.                          *)
LEMMA ReleaseSeen ==
  ASSUME TypeOK, NEW s \in Sessions, NEW r \in Resources, r \in held[s],
         Release(s, r), closed[s], UNCHANGED closed, Reply' = Reply
  PROVE  Contract!Leave(s) \/ UNCHANGED Seen
<1>1. held' = [held EXCEPT ![s] = @ \ {r}] /\ held \in [Sessions -> SUBSET Resources]
  BY DEF Release, TypeOK
<1>2. CASE r = "slot"
  <2>1. Contract!Disconnect
    BY <1>2, SameLifecycle DEF Release
  <2>2. Place' = [Place EXCEPT ![s] = FALSE] /\ Place[s]
    <3>1. "slot" \in held[s] /\ "slot" \notin held'[s]
      BY <1>1, <1>2
    <3>2. \A t \in Sessions \ {s} : held'[t] = held[t]
      BY <1>1
    <3>3. Place[s] /\ \A t \in Sessions \ {s} : Place'[t] = Place[t]
      BY <3>1, <3>2 DEF Place
    <3>4. Place'[s] = FALSE
      <4>1. Place'[s] = ("slot" \in held'[s])
        BY Zenon DEF Place
      <4>2. ("slot" \in held'[s]) = FALSE
        BY <3>1
      <4> QED BY <4>1, <4>2, Zenon
    <3>5. Place' = [t \in Sessions |-> Place'[t]] /\ Place = [t \in Sessions |-> Place[t]]
      BY DEF Place
    <3> HIDE DEF Place
    <3> QED BY <3>3, <3>4, <3>5
  <2> QED BY <2>1, <2>2 DEF Contract!Leave, Reply, Place
<1>3. CASE r # "slot"
  <2>1. Place' = Place
    BY <1>1, <1>3 DEF Place
  <2> QED BY <1>3, <2>1 DEF Release, Seen
<1> QED BY <1>2, <1>3

(* A teardown is a loss to the contract, when it is the first.             *)
LEMMA CleanupSeen ==
  ASSUME TypeOK, NEW s \in Sessions, pc[s] # "new",
         UNCHANGED <<lifecycleVars, pc, held>>,
         RunCleanup(s) \/ UNCHANGED <<queue, work, closed>>
  PROVE  Contract!Lose(s) \/ UNCHANGED Seen
<1>1. Reply' = Reply /\ Place' = Place /\ UNCHANGED Contract!vars
  BY SameLifecycle DEF Reply, Place
<1>2. CASE closed' = closed
  BY <1>1, <1>2 DEF Seen
<1>3. CASE closed' # closed
  <2>1. closed' = [closed EXCEPT ![s] = TRUE] /\ ~closed[s]
    BY <1>3 DEF RunCleanup
  <2>2. Reply[s] # "none"
    BY DEF Reply, ReplyTo, TypeOK, Acquired
  <2> QED BY <1>1, <2>1, <2>2 DEF Contract!Lose, Reply, Place
<1> QED BY <1>2, <1>3

LEMMA HandlerSeen ==
  ASSUME IInv, NEW s \in Sessions, Handler(s)
  PROVE  \/ Contract!Offer(s) \/ Contract!Refuse(s) \/ Contract!Enter(s)
         \/ Contract!Accept(s) \/ Contract!Leave(s) \/ UNCHANGED Seen
<1>0. TypeOK
  BY DEF IInv
<1>1. CASE NewPeer(s)
  <2>1. Reply[s] = "none" /\ Reply' = [Reply EXCEPT ![s] = "asked"]
    BY <1>0, <1>1, ReplyMoves, ReplyTable DEF NewPeer
  <2>2. Place' = Place
    BY <1>0, <1>1 DEF NewPeer, Place, IInv, SessionInv, UntouchedInv, TypeOK
  <2>3. closed' = [closed EXCEPT ![s] = FALSE]
    BY <1>0, <1>1 DEF NewPeer, IInv, SessionInv, UntouchedInv, TypeOK
  <2>4. UNCHANGED Contract!vars
    BY <1>1, SameLifecycle DEF NewPeer
  <2> QED BY <2>1, <2>2, <2>3, <2>4 DEF Contract!Offer, Contract!Unused, Reply, Place
<1>2. CASE Negotiate(s)
  <2>1. Reply' = Reply
    BY <1>0, <1>2, ReplyMoves, ReplyTable DEF Negotiate
  <2> QED BY <1>2, <2>1 DEF Negotiate, Seen, cleanupVars, Place
<1>3. CASE Fail(s) \/ ConnectFails(s)
  <2>1. /\ Goto(s, "rejected") /\ RunCleanup(s) /\ UNCHANGED held
        /\ pc[s] \in {"offered", "negotiated", "answer"}
    BY <1>3 DEF Fail, ConnectFails
  <2>2. /\ Reply[s] \in {"asked", "placed"}
        /\ Reply' = [Reply EXCEPT ![s] = "refused"]
    BY <1>0, <2>1, ReplyMoves DEF ReplyTo, Acquired
  <2>3. closed' = [closed EXCEPT ![s] = TRUE]
    BY <1>0, <2>1 DEF RunCleanup, TypeOK
  <2>4. Place' = Place
    BY <2>1 DEF Place
  <2>5. UNCHANGED Contract!vars \/ (Reply[s] = "asked" /\ Contract!ConnectFails)
    <3>1. CASE Fail(s)
      BY <3>1, SameLifecycle DEF Fail
    <3>2. CASE ConnectFails(s)
      <4>1. Reply[s] = "asked"
        BY <1>0, <3>2, ReplyMoves, ReplyTable DEF ConnectFails
      <4> QED BY <3>2, <4>1, SameLifecycle DEF ConnectFails
    <3> QED BY <1>3, <3>1, <3>2
  <2> QED BY <2>2, <2>3, <2>4, <2>5 DEF Contract!Refuse, Reply, Place
<1>4. CASE Connect(s)
  <2>1. Reply[s] = "asked" /\ Reply' = [Reply EXCEPT ![s] = "placed"]
    BY <1>0, <1>4, ReplyMoves DEF Connect, ReplyTo, Acquired
  <2>2. Place' = [Place EXCEPT ![s] = TRUE]
    BY <1>0, <1>4 DEF Connect, Place, TypeOK
  <2>3. Contract!Connect /\ UNCHANGED closed
    BY <1>4, SameLifecycle DEF Connect
  <2> QED BY <2>1, <2>2, <2>3 DEF Contract!Enter, Reply, Place
<1>5. CASE Add(s)
  <2>1. /\ pc[s] \in Acquired /\ pc[s] \in Resources /\ AddToCleanup(s, pc[s])
        /\ UNCHANGED closed
    BY <1>5 DEF Add, Resources
  <2>2. Reply' = Reply
    <3>1. ReplyTo(NextAcquisition(pc[s])) = "placed" /\ ReplyTo(pc[s]) = "placed"
      BY <2>1 DEF NextAcquisition, Acquired, ReplyTo
    <3> QED BY <1>0, <1>5, <3>1, ReplyMoves DEF Add
  <2>3. CASE closed[s]
    <3>1. Release(s, pc[s])
      BY <2>1, <2>3 DEF AddToCleanup
    <3>2. pc[s] \in held[s]
      <4>1. /\ Occurrences(queue[s], pc[s]) \in Nat
            /\ Occurrences(work[s], pc[s]) \in Nat
        BY <1>0, OccurrencesType DEF TypeOK
      <4>2. Occurrences(queue[s], pc[s]) + Occurrences(work[s], pc[s]) + 1
              = IF pc[s] \in held[s] THEN 1 ELSE 0
        BY <2>1 DEF IInv, SessionInv, OnceInv, Listed
      <4> QED BY <4>1, <4>2
    <3> QED BY <1>0, <2>1, <2>2, <2>3, <3>1, <3>2, ReleaseSeen
  <2>4. CASE ~closed[s]
    <3>1. UNCHANGED <<held, lifecycleVars>>
      BY <2>1, <2>4 DEF AddToCleanup
    <3> QED BY <2>1, <2>2, <3>1 DEF Seen, Place
  <2> QED BY <2>3, <2>4
<1>6. CASE Subscribe(s)
  <2>1. PICK r \in {"video", "audio"} :
          /\ held' = [held EXCEPT ![s] = @ \cup {r}]
          /\ Goto(s, r)
          /\ pc[s] \in {"subscribeVideo", "subscribeAudio"}
          /\ UNCHANGED <<lifecycleVars, closed>>
    BY <1>6 DEF Subscribe
  <2>2. Reply' = Reply
    BY <1>0, <2>1, ReplyMoves DEF ReplyTo, Acquired
  <2>3. Place' = Place
    BY <1>0, <2>1 DEF Place, TypeOK
  <2> QED BY <2>1, <2>2, <2>3 DEF Seen
<1>7. CASE Answer(s)
  <2>1. Reply[s] = "placed" /\ Reply' = [Reply EXCEPT ![s] = "answered"]
    BY <1>0, <1>7, ReplyMoves DEF Answer, ReplyTo, Acquired
  <2>2. UNCHANGED Contract!vars /\ UNCHANGED closed /\ Place' = Place
    BY <1>7, SameLifecycle DEF Answer, cleanupVars, Place
  <2> QED BY <2>1, <2>2 DEF Contract!Accept, Reply, Place
<1> QED BY <1>1, <1>2, <1>3, <1>4, <1>5, <1>6, <1>7 DEF Handler

LEMMA TeardownSeen ==
  ASSUME IInv, NEW s \in Sessions, Teardown(s)
  PROVE  Contract!Lose(s) \/ Contract!Leave(s) \/ UNCHANGED Seen
<1>0. TypeOK
  BY DEF IInv
<1>1. CASE ReleaseNext(s)
  <2>1. PICK r : r = work[s][Len(work[s])]
    OBVIOUS
  <2>2. Release(s, r) /\ work[s] # <<>> /\ UNCHANGED <<pc, closed>>
    BY <1>1, <2>1 DEF ReleaseNext
  <2>3. closed[s] /\ r \in Resources
    BY <1>0, <2>1, <2>2 DEF IInv, SessionInv, HandoverInv, TypeOK
  <2>4. Reply' = Reply
    BY <2>2 DEF Reply
  <2>5. r \in held[s]
    <3>1. work[s] \in Seq(Resources) /\ queue[s] \in Seq(Resources)
      BY <1>0 DEF TypeOK
    <3>2. Occurrences(work[s], r)
            = Occurrences(SubSeq(work[s], 1, Len(work[s]) - 1), r) + 1
      BY <2>1, <2>2, <3>1, OccurrencesFront
    <3>3. Occurrences(queue[s], r) \in Nat
      BY <3>1, OccurrencesType
    <3>4. SubSeq(work[s], 1, Len(work[s]) - 1) \in Seq(Resources)
      BY <2>2, <3>1
    <3>5. Occurrences(SubSeq(work[s], 1, Len(work[s]) - 1), r) \in Nat
      BY <3>4, OccurrencesType
    <3> QED BY <2>3, <3>2, <3>3, <3>5 DEF IInv, SessionInv, OnceInv, Listed
  <2> QED BY <1>0, <2>2, <2>3, <2>4, <2>5, ReleaseSeen
<1>2. ASSUME NEW next \in PeerStates, Update(s, next)
      PROVE  Contract!Lose(s) \/ UNCHANGED Seen
  <2>1. pc[s] # "new"
    BY <1>2 DEF Update, IInv, SessionInv, UntouchedInv
  <2>2. /\ UNCHANGED <<lifecycleVars, pc, held>>
        /\ RunCleanup(s) \/ UNCHANGED <<queue, work, closed>>
    BY <1>2 DEF Update, Recovered, Interrupted, Terminated
  <2> QED BY <1>0, <2>1, <2>2, CleanupSeen
<1>3. CASE GraceFires(s)
  BY <1>3 DEF GraceFires, cleanupVars, Seen, Reply, Place
<1>4. CASE Expire(s)
  <2>1. pc[s] # "new"
    BY <1>4 DEF Expire, IInv, SessionInv, UntouchedInv
  <2>2. /\ UNCHANGED <<lifecycleVars, pc, held>>
        /\ RunCleanup(s) \/ UNCHANGED <<queue, work, closed>>
    BY <1>4 DEF Expire
  <2> QED BY <1>0, <2>1, <2>2, CleanupSeen
<1> QED BY <1>1, <1>2, <1>3, <1>4 DEF Teardown

LEMMA NextContract ==
  IInv /\ [Next]_vars => [Contract!ContractNext]_(Contract!contractVars)
<1> SUFFICES ASSUME IInv, [Next]_vars
             PROVE  Contract!ContractNext \/ UNCHANGED Contract!contractVars
  OBVIOUS
<1>1. ASSUME NEW s \in Sessions, Handler(s) \/ Teardown(s)
      PROVE  Contract!ContractNext \/ UNCHANGED Seen
  BY <1>1, HandlerSeen, TeardownSeen DEF Contract!ContractNext
<1>2. ASSUME NEW s \in Sessions, PeerChanges(s)
      PROVE  UNCHANGED Seen
  BY <1>2 DEF PeerChanges, PeerBecomes, cleanupVars, Seen, Reply, Place
<1>3. CASE LifecycleBackground
  <2>1. Contract!Background /\ UNCHANGED <<Reply, closed, Place>>
    BY <1>3, SameLifecycle DEF LifecycleBackground, cleanupVars, Reply, Place
  <2> QED BY <2>1 DEF Contract!ContractNext, Contract!sessionVars, Reply, Place
<1>4. CASE AllOver \/ UNCHANGED vars
  <2>1. UNCHANGED vars
    BY <1>4 DEF AllOver
  <2>2. UNCHANGED <<lifecycleVars, pc, held, closed>>
    BY <2>1 DEF vars, cleanupVars
  <2>3. UNCHANGED Seen
    BY <2>2 DEF Seen, Reply, Place
  <2> QED BY <2>3, SeenIsContract
<1> QED BY <1>1, <1>2, <1>3, <1>4, SeenIsContract DEF Next

LEMMA InitContract == Init => Contract!ContractInit
<1> SUFFICES ASSUME Init PROVE Contract!ContractInit
  OBVIOUS
<1>1. Contract!Init
  BY DEF Init, Lifecycle!Init, Contract!Init
<1>2. /\ Reply = [s \in Sessions |-> "none"]
      /\ closed = [s \in Sessions |-> FALSE]
      /\ Place = [s \in Sessions |-> FALSE]
  <2>1. \A s \in Sessions : /\ pc[s] = "new" /\ "slot" \notin held[s]
    BY DEF Init
  <2>2. Reply = [s \in Sessions |-> "none"]
    BY <2>1, ReplyTable DEF Reply
  <2>3. \A s \in Sessions : ("slot" \in held[s]) = FALSE
    BY <2>1
  <2>4. Place = [s \in Sessions |-> FALSE]
    BY <2>3, Zenon DEF Place
  <2> QED BY <2>2, <2>4 DEF Init
<1> QED BY <1>1, <1>2 DEF Contract!ContractInit, Reply, Place

(* handleOffer, viewerCleanup and disconnectGrace keep SessionContract,    *)
(* which is all that StreamSession assumes of the server: a viewer who got *)
(* an answer is counted until the session is torn down, and once.          *)
THEOREM KeepsContract == Spec => ImplementsContract
  BY InitIInv, NextIInv, InitContract, NextContract, PTL
     DEF Spec, ImplementsContract, Contract!ContractSpec
-----------------------------------------------------------------------------
(* Behind its sessions the browser page does what ViewerLifecycle says.    *)
LEMMA NextLifecycle ==
  ASSUME [Next]_vars
  PROVE  Lifecycle!Next \/ UNCHANGED lifecycleVars
<1> USE DEF Lifecycle!Next
<1>1. ASSUME NEW s \in Sessions, NEW r, Release(s, r)
      PROVE  Lifecycle!Next \/ UNCHANGED lifecycleVars
  BY <1>1 DEF Release
<1>2. ASSUME NEW s \in Sessions, Handler(s)
      PROVE  Lifecycle!Next \/ UNCHANGED lifecycleVars
  <2>1. CASE Connect(s) \/ ConnectFails(s)
    BY <2>1 DEF Connect, ConnectFails
  <2>2. CASE Add(s)
    BY <1>1, <2>2 DEF Add, AddToCleanup
  <2>3. CASE NewPeer(s) \/ Negotiate(s) \/ Fail(s) \/ Subscribe(s) \/ Answer(s)
    BY <2>3 DEF NewPeer, Negotiate, Fail, Subscribe, Answer
  <2> QED BY <1>2, <2>1, <2>2, <2>3 DEF Handler
<1>3. ASSUME NEW s \in Sessions, PeerChanges(s) \/ Teardown(s)
      PROVE  Lifecycle!Next \/ UNCHANGED lifecycleVars
  <2>1. CASE ReleaseNext(s)
    BY <1>1, <2>1 DEF ReleaseNext
  <2>2. CASE PeerChanges(s) \/ GraceFires(s) \/ Expire(s)
    BY <2>2 DEF PeerChanges, PeerBecomes, GraceFires, Expire
  <2>3. ASSUME NEW next \in PeerStates, Update(s, next)
        PROVE  UNCHANGED lifecycleVars
    BY <2>3 DEF Update
  <2> QED BY <1>3, <2>1, <2>2, <2>3 DEF Teardown
<1>4. CASE LifecycleBackground
  BY <1>4 DEF LifecycleBackground
<1>5. CASE AllOver \/ UNCHANGED vars
  BY <1>5 DEF AllOver, vars
<1> QED BY <1>2, <1>3, <1>4, <1>5 DEF Next

(* handleOffer and viewerCleanup call the methods of lifecycle.go in no    *)
(* way that ViewerLifecycle does not know of: what TLC shows of the page   *)
(* and its timers there holds behind any number of sessions.               *)
THEOREM DrivesLifecycle ==
  Spec => Lifecycle!Init /\ [][Lifecycle!Next]_(Lifecycle!vars)
<1>1. Init => Lifecycle!Init
  BY DEF Init
<1>2. [Next]_vars => [Lifecycle!Next]_(Lifecycle!vars)
  BY NextLifecycle DEF lifecycleVars, Lifecycle!vars, Lifecycle!timerVars, Lifecycle!spent
<1> QED BY <1>1, <1>2, PTL DEF Spec

LEMMA LifecycleWatched ==
  ASSUME IInv, Lifecycle!WatchedPageRuns, Lifecycle!Next \/ UNCHANGED lifecycleVars
  PROVE  Lifecycle!WatchedPageRuns'
<1> USE DEF Lifecycle!WatchedPageRuns, Lifecycle!timerVars, Lifecycle!spent
<1>0. viewers \in Nat
  BY SlotsBound DEF IInv
<1>1. CASE Lifecycle!Connect
  BY <1>0, <1>1 DEF Lifecycle!Connect, Lifecycle!ConnectFirst, Lifecycle!PageActivated,
                    Lifecycle!ConnectAnother
<1>2. CASE Lifecycle!ConnectFails
  BY <1>0, <1>2 DEF Lifecycle!ConnectFails, Lifecycle!ViewersAfterFailure
<1>3. CASE Lifecycle!Disconnect
  BY <1>0, <1>3 DEF Lifecycle!Disconnect, Lifecycle!DisconnectOther, Lifecycle!vars,
                    Lifecycle!DisconnectLast, Lifecycle!DisconnectNobody,
                    Lifecycle!LastLeaves
<1>4. CASE Lifecycle!Background
  BY <1>0, <1>4 DEF Lifecycle!Background, Lifecycle!Fire, Lifecycle!FreezeIfStillIdle,
                    Lifecycle!NobodyWatches, Lifecycle!FreezeIfIdle,
                    Lifecycle!CloseTabs, Lifecycle!RestartBrave
<1>5. CASE UNCHANGED lifecycleVars
  BY <1>5 DEF lifecycleVars
<1> QED BY <1>1, <1>2, <1>3, <1>4, <1>5 DEF Lifecycle!Next

(* A session with a place in the viewer count looks at a page that runs:   *)
(* no timer that an earlier session has left, and no teardown or refusal   *)
(* of another one, freezes it.                                             *)
THEOREM PlaceMeansRunning ==
  Spec => [](\A s \in Sessions : "slot" \in held[s] => page # "frozen")
<1>1. Init => Lifecycle!WatchedPageRuns
  BY DEF Init, Lifecycle!Init, Lifecycle!WatchedPageRuns
<1>2. IInv /\ Lifecycle!WatchedPageRuns /\ [Next]_vars => Lifecycle!WatchedPageRuns'
  BY NextLifecycle, LifecycleWatched
<1>3. IInv /\ Lifecycle!WatchedPageRuns =>
        \A s \in Sessions : "slot" \in held[s] => page # "frozen"
  <2> SUFFICES ASSUME IInv, Lifecycle!WatchedPageRuns,
                      NEW s \in Sessions, "slot" \in held[s]
               PROVE  page # "frozen"
    OBVIOUS
  <2>1. Slots # {}
    BY DEF Slots
  <2>2. Cardinality(Slots) # 0
    BY <2>1, SlotsBound, FS_EmptySet
  <2>3. viewers > 0
    BY <2>2, SlotsBound DEF IInv
  <2> QED BY <2>3 DEF Lifecycle!WatchedPageRuns
<1> QED BY <1>1, <1>2, <1>3, InitIInv, NextIInv, PTL DEF Spec
-----------------------------------------------------------------------------
(* The safety half of GoneViewerIsReleased.  A session is gone once its    *)
(* peer connection is, its offer was refused or its grace has ended, and   *)
(* stuck if it then holds something that nobody is on the way to release:  *)
(* no handler, no callback and no teardown.                                *)
Gone(s) == peer[s] \in {"failed", "closed"} \/ pc[s] = "rejected" \/ over[s]

Stuck(s) ==
  /\ held[s] # {}
  /\ pc[s] \in {"new", "done", "rejected"}
  /\ work[s] = <<>>
  /\ pending[s] \cap TerminalStates = {}

(* Whoever learns that the viewer is gone starts the teardown at once, and *)
(* as long as nobody has, the news is still under way.                     *)
NoticeInv(s) ==
  /\ over[s] => closed[s]
  /\ pc[s] = "rejected" => closed[s]
  /\ peer[s] \in TerminalStates => closed[s] \/ pending[s] \cap TerminalStates # {}

Noticed == \A s \in Sessions : NoticeInv(s)

NobodyStuck == \A s \in Sessions : Gone(s) => ~Stuck(s)

LEMMA ClosedByCleanup ==
  ASSUME TypeOK, NEW s \in Sessions, RunCleanup(s)
  PROVE  /\ closed'[s]
         /\ \A t \in Sessions : closed[t] => closed'[t]
  BY DEF TypeOK, RunCleanup

LEMMA ReleaseNoticed ==
  ASSUME TypeOK, NEW s \in Sessions, NEW r, Release(s, r), NEW t \in Sessions
  PROVE  /\ peer'[t] = peer[t] \/ "closed" \in pending'[t]
         /\ pending[t] \subseteq pending'[t]
  BY DEF TypeOK, Release

LEMMA HandlerNoticed ==
  ASSUME TypeOK, NEW s \in Sessions, Handler(s), NEW t \in Sessions, NoticeInv(t)
  PROVE  NoticeInv(t)'
<1> USE DEF NoticeInv
<1>1. CASE NewPeer(s) \/ Negotiate(s) \/ Connect(s) \/ Subscribe(s) \/ Answer(s)
  <2>1. UNCHANGED <<closed, peer, pending, over>>
    BY <1>1 DEF NewPeer, Negotiate, Connect, Subscribe, Answer, cleanupVars, peerVars,
                graceVars
  <2>2. pc'[t] = "rejected" => pc[t] = "rejected"
    BY <1>1 DEF NewPeer, Negotiate, Connect, Subscribe, Answer, Goto, TypeOK
  <2> QED BY <2>1, <2>2
<1>2. CASE Fail(s) \/ ConnectFails(s)
  <2>1. /\ RunCleanup(s) /\ UNCHANGED <<peer, pending, over>>
        /\ pc' = [pc EXCEPT ![s] = "rejected"]
    BY <1>2 DEF Fail, ConnectFails, Goto, peerVars, graceVars
  <2>2. closed'[s] /\ (closed[t] => closed'[t])
    BY <2>1, ClosedByCleanup
  <2> QED BY <2>1, <2>2 DEF TypeOK
<1>3. CASE Add(s)
  <2>1. UNCHANGED <<closed, over>>
    BY <1>3 DEF Add, graceVars
  <2>2. pc'[t] = "rejected" => pc[t] = "rejected"
    BY <1>3 DEF Add, NextAcquisition, Acquired, Goto, TypeOK
  <2>3. /\ peer'[t] = peer[t] \/ "closed" \in pending'[t]
        /\ pending[t] \subseteq pending'[t]
    BY <1>3, ReleaseNoticed DEF Add, AddToCleanup
  <2> QED BY <2>1, <2>2, <2>3 DEF TerminalStates
<1> QED BY <1>1, <1>2, <1>3 DEF Handler

LEMMA TeardownNoticed ==
  ASSUME TypeOK, NEW s \in Sessions, PeerChanges(s) \/ Teardown(s),
         NEW t \in Sessions, NoticeInv(t)
  PROVE  NoticeInv(t)'
<1> USE DEF NoticeInv
<1>1. CASE PeerChanges(s)
  BY <1>1 DEF PeerChanges, PeerBecomes, cleanupVars, graceVars, TypeOK
<1>2. CASE ReleaseNext(s)
  <2>1. UNCHANGED <<pc, closed, over>>
    BY <1>2 DEF ReleaseNext, graceVars
  <2>2. /\ peer'[t] = peer[t] \/ "closed" \in pending'[t]
        /\ pending[t] \subseteq pending'[t]
    BY <1>2, ReleaseNoticed DEF ReleaseNext
  <2> QED BY <2>1, <2>2 DEF TerminalStates
<1>3. CASE GraceFires(s)
  BY <1>3 DEF GraceFires, cleanupVars, peerVars
<1>4. CASE Expire(s)
  <2>1. UNCHANGED <<pc, peer, pending>>
    BY <1>4 DEF Expire, peerVars
  <2>2. CASE over[s]
    BY <1>4, <2>1, <2>2 DEF Expire
  <2>3. CASE ~over[s]
    <3>1. RunCleanup(s) /\ over' = [over EXCEPT ![s] = TRUE]
      BY <1>4, <2>3 DEF Expire
    <3>2. closed'[s] /\ (closed[t] => closed'[t])
      BY <3>1, ClosedByCleanup
    <3> QED BY <2>1, <3>1, <3>2 DEF TypeOK
  <2> QED BY <2>2, <2>3
<1>5. ASSUME NEW next \in PeerStates, Update(s, next)
      PROVE  NoticeInv(t)'
  <2>1. /\ pending' = [pending EXCEPT ![s] = @ \ {next}]
        /\ UNCHANGED <<pc, peer>>
    BY <1>5 DEF Update
  <2>2. \/ next \notin TerminalStates /\ UNCHANGED <<over, closed>>
        \/ over[s] /\ UNCHANGED <<over, closed>>
        \/ over' = [over EXCEPT ![s] = TRUE] /\ RunCleanup(s)
    BY <1>5 DEF Update, Recovered, Interrupted, Terminated, TerminalStates
  <2>3. CASE next \notin TerminalStates /\ UNCHANGED <<over, closed>>
    BY <2>1, <2>3 DEF TypeOK
  <2>4. CASE over[s] /\ UNCHANGED <<over, closed>>
    BY <2>1, <2>4 DEF TypeOK
  <2>5. CASE over' = [over EXCEPT ![s] = TRUE] /\ RunCleanup(s)
    <3>1. closed'[s] /\ (closed[t] => closed'[t])
      BY <2>5, ClosedByCleanup
    <3> QED BY <2>1, <2>5, <3>1 DEF TypeOK
  <2> QED BY <2>2, <2>3, <2>4, <2>5
<1> QED BY <1>1, <1>2, <1>3, <1>4, <1>5 DEF Teardown

LEMMA NextNoticed ==
  ASSUME TypeOK, [Next]_vars, NEW t \in Sessions, NoticeInv(t)
  PROVE  NoticeInv(t)'
<1>1. CASE LifecycleBackground \/ AllOver \/ UNCHANGED vars
  BY <1>1 DEF LifecycleBackground, AllOver, vars, cleanupVars, peerVars, graceVars,
              NoticeInv
<1> QED BY <1>1, HandlerNoticed, TeardownNoticed DEF Next

(* A session that holds something holds it in hand or in a list.           *)
LEMMA HeldSomewhere ==
  ASSUME IInv, NEW s \in Sessions, held[s] # {}, closed[s]
  PROVE  work[s] # <<>> \/ pc[s] \in Acquired
<1> SUFFICES ASSUME work[s] = <<>> PROVE pc[s] \in Acquired
  OBVIOUS
<1>1. PICK r \in Resources : r \in held[s]
  BY DEF IInv, TypeOK
<1>2. queue[s] = <<>>
  BY DEF IInv, SessionInv, HandoverInv
<1>3. Listed(s, r) = 0
  BY <1>2, OccurrencesEmpty DEF Listed
<1>4. pc[s] = r
  BY <1>1, <1>3 DEF IInv, SessionInv, OnceInv
<1>5. pc[s] # "peer"
  BY DEF IInv, TypeOK, Acquired
<1> QED BY <1>4, <1>5 DEF Resources

(* A viewer that is gone is never forgotten: as long as its session holds  *)
(* anything, its place or a subscription, the handler is still at work, a  *)
(* callback that will tear it down has not run yet, or a teardown has not  *)
(* finished.  (With the fairness of these this is why                      *)
(* GoneViewerIsReleased holds.)                                            *)
THEOREM NobodyForgotten == Spec => []NobodyStuck
<1>1. Init => Noticed
  BY DEF Init, Noticed, NoticeInv, TerminalStates
<1>2. IInv /\ Noticed /\ [Next]_vars => Noticed'
  BY NextNoticed DEF IInv, Noticed
<1>3. IInv /\ Noticed => NobodyStuck
  <2> SUFFICES ASSUME IInv, NEW s \in Sessions, NoticeInv(s), Gone(s), Stuck(s)
               PROVE  FALSE
    BY DEF Noticed, NobodyStuck
  <2>1. closed[s]
    BY DEF NoticeInv, Gone, Stuck, TerminalStates
  <2>2. pc[s] \in Acquired
    BY <2>1, HeldSomewhere DEF Stuck
  <2> QED BY <2>2 DEF Stuck, Acquired
<1> QED BY <1>1, <1>2, <1>3, InitIInv, NextIInv, PTL DEF Spec
==============================================================================
