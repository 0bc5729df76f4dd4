---------------------------- MODULE InputSession ----------------------------
(***************************************************************************)
(* Keys and the mouse button held by viewers (cmd/server/input_ws.go), and *)
(* what the X server they share holds down because of them                 *)
(* (internal/browser/navigator.go).  A session is one input WebSocket; its *)
(* goroutine handles one message at a time, and when the connection is     *)
(* gone releases what it remembers to be held.                             *)
(*                                                                         *)
(* A call of dispatch has its effect on the X server (one at a time, see   *)
(* Dispatcher) some time before it returns, or fails: then xdotool did     *)
(* nothing, or was killed by the deadline after it had done its work.      *)
(* Moves and pasted text hold nothing down and are left out.               *)
(***************************************************************************)
EXTENDS Naturals, FiniteSets

CONSTANTS
  Sessions,
  Codes,        \* KeyboardEvent.code
  Names,        \* KeyboardEvent.key
  Tabled,       \* the codes x11Key translates by itself
  NamesOf,      \* the names that come with a code
  Mouse,        \* the mouse button
  None,
  MaxFailures   \* bound on calls of dispatch that fail

ASSUME InputAssumption ==
  /\ Tabled \subseteq Codes
  /\ NamesOf \in [Codes -> SUBSET Names]
  /\ Mouse \notin Codes \cup Names
  /\ None \notin Names \cup Codes \cup {Mouse}
  /\ MaxFailures \in Nat

VARIABLES
  pressed,   \* what the X server holds down
  keys,      \* s.keys: the name a held code came with, or None
  button,    \* s.button is non-nil
  pc,        \* where the session's goroutine is
  call,      \* the input it has handed to dispatch, or None
  failures,  \* how much of MaxFailures is used up
  renamed    \* ghost: held down still, since its key was released by another name

vars == <<pressed, keys, button, pc, call, failures, renamed>>

XSymbols == Codes \cup Names \cup {Mouse}

(* x11Key: what xdotool is asked to press for a key event.                 *)
X11Key(code, name) == IF code \in Tabled THEN code ELSE name

(* An input: a press or a release, of a code with its name or of Mouse.    *)
Inputs ==
  [down : BOOLEAN, of : Codes \cup {Mouse}, name : Names \cup {None}]

Symbol(input) ==
  IF input.of = Mouse THEN Mouse ELSE X11Key(input.of, input.name)

Init ==
  /\ pressed = {}
  /\ keys = [s \in Sessions |-> [c \in Codes |-> None]]
  /\ button = [s \in Sessions |-> FALSE]
  /\ pc = [s \in Sessions |-> "closed"]
  /\ call = [s \in Sessions |-> None]
  /\ failures = 0
  /\ renamed = {}

Goto(s, label) == pc' = [pc EXCEPT ![s] = label]

Remembers(s, of) == IF of = Mouse THEN button[s] ELSE keys[s][of] # None

-----------------------------------------------------------------------------
(* handle: a press of what is held and a release of what is not are        *)
(* answered without dispatch; anything else is dispatched.                 *)
WantedAlways(s, input) == TRUE

Wanted(s, input) == input.down <=> ~Remembers(s, input.of)

Named(input) ==
  IF input.of = Mouse THEN input.name = None ELSE input.name \in NamesOf[input.of]

Handle(s, input) ==
  /\ pc[s] = "open"
  /\ Named(input)
  /\ Wanted(s, input)
  /\ call' = [call EXCEPT ![s] = input]
  /\ Goto(s, "handling")
  /\ UNCHANGED <<pressed, renamed, keys, button, failures>>

Done(s) == call' = [call EXCEPT ![s] = None]

Effect(s) ==
  pressed' = IF call[s].down THEN pressed \cup {Symbol(call[s])}
                             ELSE pressed \ {Symbol(call[s])}

(* What a keyup leaves down if its name is not the one of the keydown; the *)
(* session forgets the key all the same.                                   *)
LeftDown(s) ==
  IF pc[s] = "handling" /\ ~call[s].down /\ call[s].of # Mouse
  THEN {X11Key(call[s].of, keys[s][call[s].of])} ELSE {}

(* xdotool has done its work.                                              *)
TakesEffect(s) ==
  /\ pc[s] \in {"handling", "releasing"}
  /\ Effect(s)
  /\ renamed' = (renamed \cup LeftDown(s)) \cap pressed'
  /\ IF pc[s] = "handling"
     THEN Goto(s, "handled") /\ UNCHANGED call
     ELSE Goto(s, "leaving") /\ Done(s)
  /\ UNCHANGED <<keys, button, failures>>

Recorded(s, input) ==
  IF input.of = Mouse
  THEN /\ button' = [button EXCEPT ![s] = input.down]
       /\ UNCHANGED keys
  ELSE /\ keys' = [keys EXCEPT ![s][input.of] =
                     IF input.down THEN input.name ELSE None]
       /\ UNCHANGED button

(* dispatch returned nil: handle records what is held now.                 *)
Returns(s) ==
  /\ pc[s] = "handled"
  /\ Recorded(s, call[s])
  /\ Goto(s, "open")
  /\ Done(s)
  /\ UNCHANGED <<pressed, renamed, failures>>

(* dispatch returned an error, which handle passes on in the               *)
(* acknowledgement and releaseAll ignores.                                 *)
Fails(s) ==
  /\ pc[s] \in {"handling", "releasing"}
  /\ failures < MaxFailures
  /\ failures' = failures + 1
  /\ Effect(s) \/ UNCHANGED pressed
  /\ renamed' = renamed \cap pressed'
  /\ Goto(s, IF pc[s] = "handling" THEN "open" ELSE "leaving")
  /\ Done(s)
  /\ UNCHANGED <<keys, button>>

-----------------------------------------------------------------------------
(* The connection is gone: reading the next message or writing the last    *)
(* acknowledgement failed.  releaseAll then goes through the keys, in any  *)
(* order, and the button.                                                  *)
Disconnect(s) ==
  /\ pc[s] = "open"
  /\ Goto(s, "leaving")
  /\ UNCHANGED <<pressed, renamed, keys, button, call, failures>>

KeysLeft(s) == {c \in Codes : keys[s][c] # None}

(* A key that releaseAll has dealt with is forgotten, for the session's    *)
(* map is never read again.                                                *)
ReleaseKey(s, c) ==
  /\ pc[s] = "leaving"
  /\ c \in KeysLeft(s)
  /\ call' = [call EXCEPT ![s] = [down |-> FALSE, of |-> c, name |-> keys[s][c]]]
  /\ keys' = [keys EXCEPT ![s][c] = None]
  /\ Goto(s, "releasing")
  /\ UNCHANGED <<pressed, renamed, button, failures>>

ButtonGoesUpNever(s) == FALSE

ButtonGoesUp(s) == button[s]

ReleaseButton(s) ==
  /\ pc[s] = "leaving"
  /\ KeysLeft(s) = {}
  /\ ButtonGoesUp(s)
  /\ call' = [call EXCEPT ![s] = [down |-> FALSE, of |-> Mouse, name |-> None]]
  /\ button' = [button EXCEPT ![s] = FALSE]
  /\ Goto(s, "releasing")
  /\ UNCHANGED <<pressed, renamed, keys, failures>>

Leave(s) ==
  /\ pc[s] = "leaving"
  /\ KeysLeft(s) = {}
  /\ ~ButtonGoesUp(s)
  /\ Goto(s, "closed")
  /\ UNCHANGED <<pressed, renamed, keys, button, call, failures>>

(* A connection of a viewer is accepted: a new inputSession.               *)
Accept(s) ==
  /\ pc[s] = "closed"
  /\ keys' = [keys EXCEPT ![s] = [c \in Codes |-> None]]
  /\ button' = [button EXCEPT ![s] = FALSE]
  /\ Goto(s, "open")
  /\ UNCHANGED <<pressed, renamed, call, failures>>

Serve(s) ==
  \/ \E input \in Inputs : Handle(s, input)
  \/ TakesEffect(s) \/ Returns(s) \/ Fails(s)

Depart(s) ==
  \/ Disconnect(s)
  \/ \E c \in Codes : ReleaseKey(s, c)
  \/ ReleaseButton(s) \/ Leave(s)
  \/ Accept(s)

Next == \E s \in Sessions : Serve(s) \/ Depart(s)

Spec == Init /\ [][Next]_vars

-----------------------------------------------------------------------------
TypeOK ==
  /\ pressed \subseteq XSymbols
  /\ keys \in [Sessions -> [Codes -> Names \cup {None}]]
  /\ button \in [Sessions -> BOOLEAN]
  /\ pc \in [Sessions -> {"open", "handling", "handled", "leaving",
                         "releasing", "closed"}]
  /\ call \in [Sessions -> Inputs \cup {None}]
  /\ \A s \in Sessions :
       pc[s] \in {"handling", "handled", "releasing"} => call[s] \in Inputs
  /\ failures \in 0..MaxFailures
  /\ renamed \subseteq pressed
  \* what is handed to dispatch is never a press of something held already
  /\ \A s \in Sessions :
       (pc[s] = "handling" /\ call[s].down) => ~Remembers(s, call[s].of)

RememberedSymbols(s) ==
  {X11Key(c, keys[s][c]) : c \in KeysLeft(s)}
    \cup (IF button[s] THEN {Mouse} ELSE {})

(* The input s is handling, when it presses or is about to release x.      *)
Underway(s, x) ==
  /\ \/ pc[s] = "handled" /\ call[s].down
     \/ pc[s] = "releasing"
  /\ Symbol(call[s]) = x

Strays ==
  {x \in pressed :
     \A s \in Sessions : x \notin RememberedSymbols(s) /\ ~Underway(s, x)}

(* What the X server holds down, some session remembers, or is just        *)
(* pressing or releasing, even if viewers press the same keys and leave in *)
(* the middle.  Two things can leave something behind that nobody will     *)
(* ever release: a call of dispatch that failed, each at most one key, and *)
(* a keyup whose name x11Key translates otherwise than the keydown's.      *)
StraysComeFromFailures == Cardinality(Strays \ renamed) <= failures

(* input_ws_test.go, TestInputWebSocketReleasesHeldInputOnDisconnect: when *)
(* everybody is gone, nothing is held down.                                *)
NothingStaysPressed ==
  (\A s \in Sessions : pc[s] = "closed") => pressed = {}
=============================================================================
