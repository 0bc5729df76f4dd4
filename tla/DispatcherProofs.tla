-------------------------- MODULE DispatcherProofs --------------------------
(***************************************************************************)
(* Theorems about Dispatcher, for every number of clients and inputs.      *)
(*                                                                         *)
(* The argument is about stamps: the move in the slot is newer than the    *)
(* one in the flusher's hand, that one newer than what was sent, and the   *)
(* slot also newer than every button that was accepted.  A closed          *)
(* dispatcher has an empty slot, which is why its flusher may stop.        *)
(***************************************************************************)
EXTENDS Dispatcher, TLAPS

Busy == flush \in {"gate", "send"}

CloseInv ==
  /\ closed => ~hasLatest
  /\ ~closed => done = 0 /\ ~closing
  /\ closing => done = 0

(* SendsNeverOverlap, thread by thread.                                    *)
GateInv ==
  /\ \A c \in Clients : pc[c] = "send" <=> gate = c
  /\ flush = "send" <=> gate = Flusher

StampInv ==
  /\ lastMove <= inHand
  /\ inHand <= latest
  /\ latest <= stamp
  /\ hasLatest => inHand < latest
  /\ Busy => lastMove < inHand

ButtonInv ==
  /\ lastButton <= stamp
  /\ \A c \in Clients : call[c].at <= stamp
  /\ hasLatest => lastButton < latest
  /\ \A c \in Clients :
       (hasLatest /\ pc[c] \in {"gate", "send"} /\ call[c].kind = "button") =>
         call[c].at < latest
  /\ overtaken <= 1
  /\ (Busy /\ inHand < lastButton) => overtaken = 0

IInv == TypeOK /\ CloseInv /\ NoLostWakeup /\ GateInv /\ StampInv /\ ButtonInv

-----------------------------------------------------------------------------
(* A client's steps, one lemma for each part of the invariant.             *)
LEMMA DispatchType ==
  ASSUME IInv, NEW c \in Clients, Dispatch(c)
  PROVE  TypeOK'
<1> USE DispatcherAssumption
    DEF IInv, TypeOK, Goto, slotVars, closeVars, clientVars, flushVars, shown
<1>1. CASE StoreMove(c)
  BY <1>1 DEF StoreMove, Accept
<1>2. CASE Signal(c)
  BY <1>2 DEF Signal
<1>3. ASSUME NEW kind \in Urgent, AcceptUrgent(c, kind) PROVE TypeOK'
  BY <1>3 DEF AcceptUrgent, Accept, SlotAfter
<1>4. CASE Reject(c)
  BY <1>4 DEF Reject, vars
<1>5. CASE EnterGate(c)
  BY <1>5 DEF EnterGate
<1>6. CASE GiveUp(c)
  BY <1>6 DEF GiveUp
<1>7. CASE Sent(c)
  BY <1>7 DEF Sent, ButtonShown
<1> QED BY <1>1, <1>2, <1>3, <1>4, <1>5, <1>6, <1>7 DEF Dispatch, DispatchMove

LEMMA DispatchInv ==
  ASSUME IInv, NEW c \in Clients, Dispatch(c)
  PROVE  (CloseInv /\ NoLostWakeup /\ GateInv /\ StampInv /\ ButtonInv)'
<1> USE DispatcherAssumption
    DEF IInv, TypeOK, Goto, slotVars, closeVars, clientVars, flushVars, shown,
        CloseInv, NoLostWakeup, GateInv, StampInv, ButtonInv, Busy, Urgent
<1>1. CASE StoreMove(c)
  BY <1>1 DEF StoreMove, Accept
<1>2. CASE Signal(c)
  BY <1>2 DEF Signal
<1>3. ASSUME NEW kind \in Urgent, AcceptUrgent(c, kind)
      PROVE  (CloseInv /\ NoLostWakeup /\ GateInv /\ StampInv /\ ButtonInv)'
  BY <1>3 DEF AcceptUrgent, Accept, SlotAfter
<1>4. CASE Reject(c)
  BY <1>4 DEF Reject, vars
<1>5. CASE EnterGate(c)
  BY <1>5 DEF EnterGate, GateOpen
<1>6. CASE GiveUp(c)
  BY <1>6 DEF GiveUp
<1>7. CASE Sent(c)
  BY <1>7 DEF Sent, ButtonShown
<1> QED BY <1>1, <1>2, <1>3, <1>4, <1>5, <1>6, <1>7 DEF Dispatch, DispatchMove

(* The flusher's steps.                                                    *)
LEMMA RunType ==
  ASSUME IInv, Run
  PROVE  TypeOK'
<1> USE DispatcherAssumption
    DEF IInv, TypeOK, slotVars, closeVars, clientVars, flushVars, shown
<1>1. CASE Wake
  BY <1>1 DEF Wake
<1>2. CASE Stop
  BY <1>2 DEF Stop
<1>3. CASE Check
  BY <1>3 DEF Check, TakeMove
<1>4. CASE FlusherEnters
  BY <1>4 DEF FlusherEnters
<1>5. CASE FlusherGivesUp
  BY <1>5 DEF FlusherGivesUp
<1>6. CASE FlusherSent
  BY <1>6 DEF FlusherSent, MoveShown
<1>7. CASE Pause
  BY <1>7 DEF Pause
<1> QED BY <1>1, <1>2, <1>3, <1>4, <1>5, <1>6, <1>7 DEF Run

LEMMA RunInv ==
  ASSUME IInv, Run
  PROVE  (CloseInv /\ NoLostWakeup /\ GateInv /\ StampInv /\ ButtonInv)'
<1> USE DispatcherAssumption
    DEF IInv, TypeOK, slotVars, closeVars, clientVars, flushVars, shown,
        CloseInv, NoLostWakeup, GateInv, StampInv, ButtonInv, Busy
<1>1. CASE Wake
  BY <1>1 DEF Wake
<1>2. CASE Stop
  BY <1>2 DEF Stop
<1>3. CASE Check
  BY <1>3 DEF Check, TakeMove
<1>4. CASE FlusherEnters
  BY <1>4 DEF FlusherEnters, GateOpen
<1>5. CASE FlusherGivesUp
  BY <1>5 DEF FlusherGivesUp
<1>6. CASE FlusherSent
  BY <1>6 DEF FlusherSent, MoveShown
<1>7. CASE Pause
  BY <1>7 DEF Pause
<1> QED BY <1>1, <1>2, <1>3, <1>4, <1>5, <1>6, <1>7 DEF Run

(* Close empties the slot before it lets the flusher go.                   *)
LEMMA CloseStepInv ==
  ASSUME IInv, Close
  PROVE  IInv'
<1> USE DispatcherAssumption
    DEF IInv, TypeOK, slotVars, closeVars, clientVars, flushVars, shown,
        CloseInv, NoLostWakeup, GateInv, StampInv, ButtonInv, Busy
<1>1. CASE CloseSlot
  BY <1>1 DEF CloseSlot, FirstClose
<1>2. CASE CloseDone
  <2>1. done' = 1 /\ closing' = FALSE /\ closed
    BY <1>2 DEF CloseDone
  <2>2. UNCHANGED <<slotVars, closed, token, gate, clientVars, flushVars, stamp,
                    shown>>
    BY <1>2 DEF CloseDone
  <2>3. done' \in 0..1
    BY <2>1
  <2>4. closing' \in BOOLEAN
    BY <2>1
  <2>5. TypeOK'
    BY <2>2, <2>3, <2>4
  <2> QED BY <2>1, <2>2, <2>5
<1> QED BY <1>1, <1>2 DEF Close

LEMMA InitIInv == Init => IInv
<1> SUFFICES ASSUME Init PROVE IInv
  OBVIOUS
<1> USE DispatcherAssumption DEF Init
<1>1. TypeOK
  <2>1. 0 \in 0..MaxInputs /\ 0 \in 0..1 /\ 0 \in Nat
    BY DEF DispatcherAssumption
  <2>2. call \in [Clients -> [kind : Urgent, at : 0..MaxInputs]]
    BY <2>1 DEF Urgent
  <2> QED BY <2>1, <2>2 DEF TypeOK
<1>2. CloseInv /\ NoLostWakeup /\ GateInv
  BY DEF CloseInv, NoLostWakeup, GateInv
<1>3. StampInv /\ ButtonInv
  BY DEF StampInv, ButtonInv, Busy
<1> QED BY <1>1, <1>2, <1>3 DEF IInv

LEMMA NextIInv == IInv /\ [Next]_vars => IInv'
<1> SUFFICES ASSUME IInv, [Next]_vars PROVE IInv'
  OBVIOUS
<1>1. ASSUME NEW c \in Clients, Dispatch(c) PROVE IInv'
  BY <1>1, DispatchType, DispatchInv DEF IInv
<1>2. CASE Run
  BY <1>2, RunType, RunInv DEF IInv
<1>3. CASE Close
  BY <1>3, CloseStepInv
<1>4. CASE UNCHANGED vars
  BY <1>4 DEF vars, slotVars, closeVars, clientVars, flushVars, shown, IInv,
              TypeOK, CloseInv, NoLostWakeup, GateInv, StampInv, ButtonInv, Busy
<1> QED BY <1>1, <1>2, <1>3, <1>4 DEF Next

THEOREM Invariance == Spec => []IInv
  BY InitIInv, NextIInv, PTL DEF Spec

-----------------------------------------------------------------------------
(* The variables keep their types: d.done is never closed twice.           *)
THEOREM TypeCorrect == Spec => []TypeOK
<1>1. IInv => TypeOK
  BY DEF IInv
<1> QED BY <1>1, Invariance, PTL

(* However many clients move the pointer at once, and whenever the flusher *)
(* goes to sleep: a move in the slot has somebody on the way to it.        *)
THEOREM WakeupKept == Spec => []NoLostWakeup
<1>1. IInv => NoLostWakeup
  BY DEF IInv
<1> QED BY <1>1, Invariance, PTL

(* sendGate is a mutual exclusion lock that nobody leaves locked.          *)
THEOREM NoOverlap == Spec => []SendsNeverOverlap
<1>1. IInv => SendsNeverOverlap
  BY DispatcherAssumption
     DEF IInv, TypeOK, GateInv, SendsNeverOverlap, Senders
<1> QED BY <1>1, Invariance, PTL

(* The X server gets moves in the order in which they were accepted, each  *)
(* at most once.                                                           *)
THEOREM OrderKept == Spec => []MovesInOrder
<1>1. IInv => MovesInOrder
  BY DEF IInv, StampInv, Busy, MovesInOrder
<1> QED BY <1>1, Invariance, PTL

(* At most one move follows a button that was accepted after it.           *)
THEOREM OvertakenBound == Spec => []AtMostOneOvertaken
<1>1. IInv => AtMostOneOvertaken
  BY DEF IInv, ButtonInv, AtMostOneOvertaken
<1> QED BY <1>1, Invariance, PTL
==============================================================================
