----------------------------- MODULE InputClient -----------------------------
(***************************************************************************)
(* The input path from end to end: the viewer's page                       *)
(* (web/input-client.mjs, createInputState and createInputControl of       *)
(* web/input.mjs, the listeners of web/app.mjs), its WebSocket, and the    *)
(* InputSession the server keeps for that WebSocket.                       *)
(*                                                                         *)
(* A listener or callback of the page runs to its end and is one action.   *)
(* Either end may find the connection broken long before the other one     *)
(* does; the server may then lose what was still on the wire.  Moves and   *)
(* pasted text hold nothing down and are left out.                         *)
(***************************************************************************)
EXTENDS InputSession, SequencesExt

CONSTANTS
  Clients,   \* the viewers' pages
  MaxWire    \* bound on the inputs on their way to the sessions

ASSUME ClientAssumption ==
  /\ IsFiniteSet(Codes)
  /\ None \notin Sessions
  /\ MaxWire \in Nat

VARIABLES
  enabled, held, pointerDown,  \* inputControl and inputState
  stopped, socket,             \* of the input client; socket is None if null
  reconnectTimer,              \* it is set
  ws,            \* the page's end of a connection
  owner,         \* the page a connection belongs to
  wire           \* what has been sent to the server and not been read

stateVars == <<enabled, held, pointerDown>>
clientVars == <<stopped, socket, reconnectTimer>>
netVars == <<ws, owner, wire>>
systemVars == <<vars, stateVars, clientVars, netVars>>

Nothing == [k \in Codes |-> None]

SystemInit ==
  /\ Init
  /\ enabled = [c \in Clients |-> FALSE]
  /\ held = [c \in Clients |-> Nothing]
  /\ pointerDown = [c \in Clients |-> FALSE]
  /\ stopped = [c \in Clients |-> TRUE]
  /\ socket = [c \in Clients |-> None]
  /\ reconnectTimer = [c \in Clients |-> FALSE]
  /\ ws = [s \in Sessions |-> "none"]
  /\ owner \in [Sessions -> Clients]
  /\ wire = [s \in Sessions |-> <<>>]

Holds(c, of) == IF of = Mouse THEN pointerDown[c] ELSE held[c][of] # None

HeldCodes(c) == {k \in Codes : held[c][k] # None}

Ready(c) == socket[c] # None /\ ws[socket[c]] = "open"

Reads(s) == pc[s] \in {"open", "handling", "handled"}

OnWires == UNION {{s} \X DOMAIN wire[s] : s \in Sessions}

(* inputClient.send for inputs that are not moves: without an open socket  *)
(* they are dropped, and so they are if the server is gone already.        *)
Send(c, inputs) ==
  IF Ready(c) /\ Reads(socket[c])
  THEN /\ Cardinality(OnWires) + Len(inputs) <= MaxWire
       /\ wire' = [wire EXCEPT ![socket[c]] = @ \o inputs]
  ELSE UNCHANGED wire

-----------------------------------------------------------------------------
(* inputState.accept: a repeated press or release is not forwarded.        *)
Accepted(c, input) == input.down <=> ~Holds(c, input.of)

Noted(c, input) ==
  IF input.of = Mouse
  THEN /\ pointerDown' = [pointerDown EXCEPT ![c] = input.down]
       /\ UNCHANGED held
  ELSE /\ held' = [held EXCEPT ![c][input.of] =
                     IF input.down THEN input.name ELSE None]
       /\ UNCHANGED pointerDown

(* The listeners of keydown, keyup, pointerdown and pointerup.             *)
UserInput(c, input) ==
  /\ enabled[c]
  /\ Named(input)
  /\ Accepted(c, input)
  /\ Noted(c, input)
  /\ Send(c, <<input>>)
  /\ UNCHANGED <<vars, enabled, clientVars, ws, owner>>

MouseInput(down) == [down |-> down, of |-> Mouse, name |-> None]

(* A touch that ends where it began is a click that inputState is not told *)
(* about.                                                                  *)
Tap(c) ==
  /\ enabled[c]
  /\ Send(c, <<MouseInput(TRUE), MouseInput(FALSE)>>)
  /\ UNCHANGED <<vars, stateVars, clientVars, ws, owner>>

(* inputState.releaseAll: a keyup for each key, as it was pressed, and an  *)
(* up for the pointer.                                                     *)
KeyUps(c) ==
  SetToSeqs({[down |-> FALSE, of |-> k, name |-> held[c][k]] : k \in HeldCodes(c)})

ReleasesOfKeys(c) == KeyUps(c)

Releases(c) ==
  {keyUps \o (IF pointerDown[c] THEN <<MouseInput(FALSE)>> ELSE <<>>) :
     keyUps \in KeyUps(c)}

(* releaseRemoteInput.                                                     *)
ReleaseRemoteInput(c) ==
  /\ \E releases \in Releases(c) : Send(c, releases)
  /\ held' = [held EXCEPT ![c] = Nothing]
  /\ pointerDown' = [pointerDown EXCEPT ![c] = FALSE]

(* The page loses the focus, the pointer or its visibility.                *)
Blur(c) ==
  /\ HeldCodes(c) # {} \/ pointerDown[c]
  /\ ReleaseRemoteInput(c)
  /\ UNCHANGED <<vars, enabled, clientVars, ws, owner>>

Enable(c) ==
  /\ ~enabled[c]
  /\ enabled' = [enabled EXCEPT ![c] = TRUE]
  /\ UNCHANGED <<vars, held, pointerDown, clientVars, netVars>>

(* The control button switches control off.                                *)
Disable(c) ==
  /\ enabled[c]
  /\ enabled' = [enabled EXCEPT ![c] = FALSE]
  /\ ReleaseRemoteInput(c)
  /\ UNCHANGED <<vars, clientVars, ws, owner>>

-----------------------------------------------------------------------------
(* open: a new WebSocket becomes the current one.                          *)
Open(c) ==
  \E s \in Sessions :
    /\ ws[s] = "none" /\ pc[s] = "closed"
    /\ ws' = [ws EXCEPT ![s] = "connecting"]
    /\ owner' = [owner EXCEPT ![s] = c]
    /\ socket' = [socket EXCEPT ![c] = s]

(* connect and close of the input client.                                  *)
ConnectClient(c) ==
  /\ stopped[c]
  /\ stopped' = [stopped EXCEPT ![c] = FALSE]
  /\ Open(c)
  /\ UNCHANGED <<vars, stateVars, reconnectTimer, wire>>

StoppedAfterCloseNot == FALSE

StoppedAfterClose == TRUE

CloseClient(c) ==
  /\ ~stopped[c]
  /\ stopped' = [stopped EXCEPT ![c] = StoppedAfterClose]
  /\ reconnectTimer' = [reconnectTimer EXCEPT ![c] = FALSE]
  /\ socket' = [socket EXCEPT ![c] = None]
  /\ ws' = [s \in Sessions |-> IF s = socket[c] THEN "closing" ELSE ws[s]]
  /\ UNCHANGED <<vars, stateVars, owner, wire>>

ReconnectTimerFires(c) ==
  /\ reconnectTimer[c]
  /\ reconnectTimer' = [reconnectTimer EXCEPT ![c] = FALSE]
  /\ IF stopped[c] THEN UNCHANGED <<socket, ws, owner>> ELSE Open(c)
  /\ UNCHANGED <<vars, stateVars, stopped, wire>>

(* The server accepts the connection, and the page finds it open.          *)
AcceptConnection(s) ==
  /\ ws[s] = "connecting"
  /\ Accept(s)
  /\ ws' = [ws EXCEPT ![s] = "open"]
  /\ UNCHANGED <<stateVars, clientVars, owner, wire>>

IsCurrentUnchecked(c, s) == TRUE

IsCurrent(c, s) == socket[c] = s

(* onclose, which for a socket that was replaced does nothing.  The timer  *)
(* scheduleReconnect sets is not set twice.                                *)
OnClose(c, s) ==
  IF IsCurrent(c, s)
  THEN /\ socket' = [socket EXCEPT ![c] = None]
       /\ reconnectTimer' = [reconnectTimer EXCEPT ![c] = @ \/ ~stopped[c]]
  ELSE UNCHANGED <<socket, reconnectTimer>>

(* The page finds the connection refused, broken or closed.                *)
SocketCloses(s) ==
  /\ ws[s] # "none"
  /\ ws' = [ws EXCEPT ![s] = "none"]
  /\ OnClose(owner[s], s)
  /\ UNCHANGED <<vars, stateVars, stopped, owner, wire>>

-----------------------------------------------------------------------------
(* The session reads the next input and handles it.                        *)
Receive(s) ==
  /\ pc[s] = "open"
  /\ wire[s] # <<>>
  /\ wire' = [wire EXCEPT ![s] = Tail(@)]
  /\ IF Wanted(s, Head(wire[s])) THEN Handle(s, Head(wire[s]))
                                 ELSE UNCHANGED vars
  /\ UNCHANGED <<stateVars, clientVars, ws, owner>>

(* The session finds its connection broken.                                *)
Lost(s) ==
  /\ Disconnect(s)
  /\ wire' = [wire EXCEPT ![s] = <<>>]
  /\ UNCHANGED <<stateVars, clientVars, ws, owner>>

SessionStep(s) ==
  /\ \/ TakesEffect(s) \/ Returns(s) \/ Fails(s)
     \/ \E k \in Codes : ReleaseKey(s, k)
     \/ ReleaseButton(s) \/ Leave(s)
  /\ UNCHANGED <<stateVars, clientVars, netVars>>

Page(c) ==
  \/ \E input \in Inputs : UserInput(c, input)
  \/ Tap(c)
  \/ Blur(c) \/ Enable(c) \/ Disable(c)
  \/ ConnectClient(c) \/ CloseClient(c) \/ ReconnectTimerFires(c)

Connection(s) ==
  \/ AcceptConnection(s) \/ SocketCloses(s)
  \/ Receive(s) \/ Lost(s) \/ SessionStep(s)

SystemNext ==
  \/ \E c \in Clients : Page(c)
  \/ \E s \in Sessions : Connection(s)

SystemSpec == SystemInit /\ [][SystemNext]_systemVars

-----------------------------------------------------------------------------
SystemTypeOK ==
  /\ TypeOK
  /\ enabled \in [Clients -> BOOLEAN]
  /\ held \in [Clients -> [Codes -> Names \cup {None}]]
  /\ pointerDown \in [Clients -> BOOLEAN]
  /\ stopped \in [Clients -> BOOLEAN]
  /\ socket \in [Clients -> Sessions \cup {None}]
  /\ reconnectTimer \in [Clients -> BOOLEAN]
  /\ ws \in [Sessions -> {"none", "connecting", "open", "closing"}]
  /\ owner \in [Sessions -> Clients]
  /\ \A s \in Sessions : wire[s] \in BoundedSeq(Inputs, MaxWire)
  \* a page without control holds nothing
  /\ \A c \in Clients : ~enabled[c] => HeldCodes(c) = {} /\ ~pointerDown[c]

(* What a session is on its way to hold, once it has handled everything    *)
(* it has been sent.                                                       *)
Unhandled(s) ==
  (IF pc[s] = "open" THEN <<>> ELSE <<call[s]>>) \o wire[s]

(* What the last of these inputs about a key or the button says of it, or  *)
(* what has been the case before them, if there is none.                   *)
LastSays(inputs, of, before) ==
  LET about == {i \in DOMAIN inputs : inputs[i].of = of}
  IN  IF about = {} THEN before
                    ELSE \E i \in about : inputs[i].down /\ \A j \in about : j <= i

WillHold(s, of) == LastSays(Unhandled(s), of, Remembers(s, of))

(* input_ws.go remembers what a viewer holds, and so does the page: what a *)
(* session holds, or is about to, is held by its viewer, whatever was lost *)
(* while the connection came and went.  Only a release whose dispatch      *)
(* failed is remembered by the session alone.                              *)
NothingHeldBehindTheUser ==
  \A c \in Clients :
    (socket[c] # None /\ Reads(socket[c])) =>
      Cardinality({of \in Codes \cup {Mouse} :
                     WillHold(socket[c], of) /\ ~Holds(c, of)}) <= failures

(* input-client.mjs: a client that was not stopped has a socket or will    *)
(* get one, and never both: no close event is lost or handled twice.       *)
NeverStranded ==
  \A c \in Clients :
    /\ stopped[c] => socket[c] = None /\ ~reconnectTimer[c]
    /\ ~stopped[c] => (socket[c] # None <=> ~reconnectTimer[c])

(* Every connection in use is the one its page sends on: a session of the  *)
(* server is never kept open by a socket the page has forgotten.           *)
NoOrphanSocket ==
  \A s \in Sessions :
    ws[s] \in {"connecting", "open"} => socket[owner[s]] = s

=============================================================================
