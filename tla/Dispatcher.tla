----------------------------- MODULE Dispatcher -----------------------------
(***************************************************************************)
(* The input dispatcher all viewers share (internal/browser/dispatcher.go) *)
(* : pointer moves are coalesced into one slot and sent by a goroutine of  *)
(* the dispatcher (the flusher), keys and buttons are sent by the caller.  *)
(* A one-slot channel, sendGate, lets one send through at a time; another, *)
(* moveReady, wakes the flusher.                                           *)
(*                                                                         *)
(* Inputs carry the position in which d.mu accepted them (a stamp), so     *)
(* that the order of what reaches the X server can be compared with it.    *)
(***************************************************************************)
EXTENDS Naturals, FiniteSets

CONSTANTS
  Clients,     \* goroutines that call Dispatch: sessions and POST handlers
  Flusher,     \* the goroutine of run
  None,
  MaxInputs    \* bound on accepted inputs

ASSUME DispatcherAssumption ==
  /\ Flusher \notin Clients
  /\ None \notin Clients \cup {Flusher}
  /\ MaxInputs \in Nat

VARIABLES
  latest, hasLatest,  \* d.latest (its stamp), d.hasLatest
  closed,             \* d.closed
  closing,            \* Close has yet to close the channel d.done
  done,               \* how often it was closed; a second time would panic
  token,              \* d.moveReady holds a token
  gate,               \* who occupies d.sendGate
  pc,                 \* per client: where its Dispatch call is
  call,               \* per client: the urgent input of that call
  flush,              \* where the flusher is
  inHand,             \* the stamp of the move the flusher has taken
  stamp,              \* the number of inputs accepted so far
  lastMove,           \* the last move executed
  lastButton,         \* the newest button event executed
  overtaken           \* moves executed after it although accepted before it

slotVars == <<latest, hasLatest>>
closeVars == <<closed, closing, done>>
clientVars == <<pc, call>>
flushVars == <<flush, inHand>>
shown == <<lastMove, lastButton, overtaken>>
vars == <<slotVars, closeVars, token, gate, clientVars, flushVars, stamp, shown>>

Urgent == {"button", "key"}

Init ==
  /\ latest = 0 /\ hasLatest = FALSE
  /\ closed = FALSE /\ closing = FALSE /\ done = 0
  /\ token = FALSE
  /\ gate = None
  /\ pc = [c \in Clients |-> "ready"]
  /\ call = [c \in Clients |-> [kind |-> "key", at |-> 0]]
  /\ flush = "select" /\ inHand = 0
  /\ stamp = 0
  /\ lastMove = 0 /\ lastButton = 0 /\ overtaken = 0

Goto(c, label) == pc' = [pc EXCEPT ![c] = label]

Accept ==
  /\ ~closed
  /\ stamp < MaxInputs
  /\ stamp' = stamp + 1

-----------------------------------------------------------------------------
(* Dispatch of a move: it replaces the one in the slot, under d.mu; then   *)
(* the flusher is told, unless it has been told already.                   *)
StoreMove(c) ==
  /\ pc[c] = "ready"
  /\ Accept
  /\ latest' = stamp + 1
  /\ hasLatest' = TRUE
  /\ Goto(c, "signal")
  /\ UNCHANGED <<closeVars, token, gate, call, flushVars, shown>>

Signal(c) ==
  /\ pc[c] = "signal"
  /\ token' = TRUE
  /\ Goto(c, "ready")
  /\ UNCHANGED <<slotVars, closeVars, gate, call, flushVars, stamp, shown>>

DispatchMoveSignalsFirst(c) ==
  \/ /\ pc[c] = "ready"
     /\ Accept
     /\ token' = TRUE
     /\ Goto(c, "signal")
     /\ UNCHANGED <<slotVars, closeVars, gate, call, flushVars, shown>>
  \/ /\ pc[c] = "signal"
     /\ latest' = stamp
     /\ hasLatest' = ~closed
     /\ Goto(c, "ready")
     /\ UNCHANGED <<closeVars, token, gate, call, flushVars, stamp, shown>>

DispatchMove(c) == StoreMove(c) \/ Signal(c)

SlotAfterKept(kind) == hasLatest

(* A button says where it happens: what is left in the slot is obsolete.   *)
SlotAfter(kind) == hasLatest /\ kind # "button"

(* Dispatch of anything else.                                              *)
AcceptUrgent(c, kind) ==
  /\ pc[c] = "ready"
  /\ Accept
  /\ hasLatest' = SlotAfter(kind)
  /\ call' = [call EXCEPT ![c] = [kind |-> kind, at |-> stamp + 1]]
  /\ Goto(c, "gate")
  /\ UNCHANGED <<latest, closeVars, token, gate, flushVars, shown>>

(* A closed dispatcher accepts nothing.                                    *)
Reject(c) ==
  /\ pc[c] = "ready"
  /\ closed
  /\ UNCHANGED vars

-----------------------------------------------------------------------------
(* execute: the gate, or the deadline of the call (or its caller is gone). *)
GateOpenAlways == TRUE

GateOpen == gate = None

EnterGate(c) ==
  /\ pc[c] = "gate"
  /\ GateOpen
  /\ gate' = c
  /\ Goto(c, "send")
  /\ UNCHANGED <<slotVars, closeVars, token, call, flushVars, stamp, shown>>

GiveUp(c) ==
  /\ pc[c] = "gate"
  /\ Goto(c, "ready")
  /\ UNCHANGED <<slotVars, closeVars, token, gate, call, flushVars, stamp, shown>>

(* The send ends; xdotool may have been killed before or after its effect. *)
ButtonShown(at) ==
  IF at > lastButton
  THEN lastButton' = at /\ overtaken' = 0
  ELSE UNCHANGED <<lastButton, overtaken>>

Sent(c) ==
  /\ pc[c] = "send"
  /\ gate' = None
  /\ Goto(c, "ready")
  /\ \/ call[c].kind = "button" /\ ButtonShown(call[c].at)
     \/ UNCHANGED <<lastButton, overtaken>>
  /\ UNCHANGED <<slotVars, closeVars, token, call, flushVars, stamp, lastMove>>

Dispatch(c) ==
  \/ DispatchMove(c)
  \/ \E kind \in Urgent : AcceptUrgent(c, kind)
  \/ Reject(c)
  \/ EnterGate(c) \/ GiveUp(c) \/ Sent(c)

-----------------------------------------------------------------------------
(* run: a token starts flushMoves, a closed done ends the goroutine.       *)
Wake ==
  /\ flush = "select"
  /\ token
  /\ token' = FALSE
  /\ flush' = "check"
  /\ UNCHANGED <<slotVars, closeVars, gate, clientVars, inHand, stamp, shown>>

Stop ==
  /\ flush = "select"
  /\ done > 0
  /\ flush' = "stopped"
  /\ UNCHANGED <<slotVars, closeVars, token, gate, clientVars, inHand, stamp,
                 shown>>

(* flushMoves: take what is in the slot, under d.mu, or go back to sleep.  *)
TakeMoveLeavesIt ==
  /\ flush' = IF hasLatest THEN "gate" ELSE "select"
  /\ inHand' = IF hasLatest THEN latest ELSE inHand
  /\ UNCHANGED hasLatest

TakeMove ==
  /\ flush' = IF hasLatest THEN "gate" ELSE "select"
  /\ inHand' = IF hasLatest THEN latest ELSE inHand
  /\ hasLatest' = FALSE

Check ==
  /\ flush = "check"
  /\ TakeMove
  /\ UNCHANGED <<latest, closeVars, token, gate, clientVars, stamp, shown>>

FlusherEnters ==
  /\ flush = "gate"
  /\ GateOpen
  /\ gate' = Flusher
  /\ flush' = "send"
  /\ UNCHANGED <<slotVars, closeVars, token, clientVars, inHand, stamp, shown>>

(* A move that does not get the gate in 250 ms is dropped.                 *)
FlusherGivesUp ==
  /\ flush = "gate"
  /\ flush' = "pause"
  /\ UNCHANGED <<slotVars, closeVars, token, gate, clientVars, inHand, stamp,
                 shown>>

MoveShown ==
  /\ lastMove' = inHand
  /\ overtaken' = IF inHand < lastButton THEN overtaken + 1 ELSE overtaken

FlusherSent ==
  /\ flush = "send"
  /\ gate' = None
  /\ flush' = "pause"
  /\ MoveShown \/ UNCHANGED <<lastMove, overtaken>>
  /\ UNCHANGED <<slotVars, closeVars, token, clientVars, inHand, stamp,
                 lastButton>>

(* The interval between two moves, which Close cuts short.                 *)
Pause ==
  /\ flush = "pause"
  /\ \/ flush' = "check"
     \/ done > 0 /\ flush' = "select"
  /\ UNCHANGED <<slotVars, closeVars, token, gate, clientVars, inHand, stamp,
                 shown>>

Run ==
  \/ Wake \/ Stop \/ Check
  \/ FlusherEnters \/ FlusherGivesUp \/ FlusherSent \/ Pause

-----------------------------------------------------------------------------
FirstCloseUnguarded == ~closing

(* closeMu: of several calls of Close one does something.                  *)
FirstClose == ~closed

(* Close: the flag and the slot under d.mu, then the channel.              *)
CloseSlot ==
  /\ FirstClose
  /\ closed' = TRUE
  /\ closing' = TRUE
  /\ hasLatest' = FALSE
  /\ UNCHANGED <<latest, done, token, gate, clientVars, flushVars, stamp, shown>>

CloseDone ==
  /\ closing
  /\ closing' = FALSE
  /\ done' = done + 1
  /\ UNCHANGED <<slotVars, closed, token, gate, clientVars, flushVars, stamp,
                 shown>>

Close == CloseSlot \/ CloseDone

Next ==
  \/ \E c \in Clients : Dispatch(c)
  \/ Run
  \/ Close

(* The flusher runs, a call that was made goes on, and every send ends: it *)
(* has a deadline.  Nobody is obliged to move the pointer or to close.     *)
Fairness ==
  /\ WF_vars(Run)
  /\ \A c \in Clients : WF_vars(pc[c] # "ready" /\ Dispatch(c))

Spec == Init /\ [][Next]_vars /\ Fairness

-----------------------------------------------------------------------------
TypeOK ==
  /\ latest \in 0..MaxInputs
  /\ hasLatest \in BOOLEAN
  /\ closed \in BOOLEAN
  /\ closing \in BOOLEAN
  /\ done \in 0..1
  /\ token \in BOOLEAN
  /\ gate \in Clients \cup {Flusher, None}
  /\ pc \in [Clients -> {"ready", "signal", "gate", "send"}]
  /\ call \in [Clients -> [kind : Urgent, at : 0..MaxInputs]]
  /\ flush \in {"select", "check", "gate", "send", "pause", "stopped"}
  /\ inHand \in 0..MaxInputs
  /\ stamp \in 0..MaxInputs
  /\ lastMove \in 0..MaxInputs
  /\ lastButton \in 0..MaxInputs
  /\ overtaken \in Nat

(* No wake-up is lost: while a move is in the slot, the flusher is awake   *)
(* and will look again, or its token is there or about to be put there.    *)
(* The token may be stale or missing a move, but never both.               *)
NoLostWakeup ==
  hasLatest =>
    \/ flush \in {"check", "gate", "send", "pause"}
    \/ token
    \/ \E c \in Clients : pc[c] = "signal"

(* sendGate: two inputs are never on their way to the X server at a time,  *)
(* and the gate is held by nobody who has gone.                            *)
Senders == {c \in Clients : pc[c] = "send"}
             \cup (IF flush = "send" THEN {Flusher} ELSE {})

SendsNeverOverlap == Senders = IF gate = None THEN {} ELSE {gate}

(* The pointer never goes back to a position that was already replaced,    *)
(* and no position is sent twice: what the flusher is about to send is     *)
(* newer than everything it has sent.                                      *)
MovesInOrder == flush \in {"gate", "send"} => lastMove < inHand

(* After a button press or release has reached the X server, at most one   *)
(* older move follows it: the one the flusher had in hand when Dispatch    *)
(* emptied the slot.                                                       *)
AtMostOneOvertaken == overtaken <= 1

(* A move does not stay in the slot: the flusher takes it, unless a newer  *)
(* one, a button or Close gets there first.                                *)
MoveIsTaken ==
  \A m \in 1..MaxInputs :
    (hasLatest /\ latest = m) ~> ~(hasLatest /\ latest = m)
==============================================================================
