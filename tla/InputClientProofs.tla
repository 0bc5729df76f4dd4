-------------------------- MODULE InputClientProofs --------------------------
(***************************************************************************)
(* Theorems about InputClient, for any number of pages, connections and    *)
(* keys and any bound on the wires.  Every step of the whole path is a     *)
(* step of InputSession or leaves it alone, so that what is proved of the  *)
(* sessions holds behind real pages as well.  That connections and pages   *)
(* agree is inductive once it is said in both directions (SocketsOK).      *)
(* That a session holds nothing behind its viewer's back needs to know     *)
(* besides that a connection is sent on only while it is read (QuietOK),   *)
(* and what sequences of inputs say in the end (LastSays).                 *)
(***************************************************************************)
EXTENDS InputClient, InputSessionProofs, SequenceTheorems

PagesOK ==
  /\ held \in [Clients -> [Codes -> Names \cup {None}]]
  /\ pointerDown \in [Clients -> BOOLEAN]
  /\ wire \in [Sessions -> Seq(Inputs)]

SocketsOK ==
  /\ stopped \in [Clients -> BOOLEAN]
  /\ socket \in [Clients -> Sessions \cup {None}]
  /\ reconnectTimer \in [Clients -> BOOLEAN]
  /\ ws \in [Sessions -> {"none", "connecting", "open", "closing"}]
  /\ owner \in [Sessions -> Clients]
  /\ \A c \in Clients : socket[c] # None =>
       owner[socket[c]] = c /\ ws[socket[c]] \in {"connecting", "open"}

ConnectionInv == SocketsOK /\ NeverStranded /\ NoOrphanSocket

-----------------------------------------------------------------------------
(* What a page sends when it lets go of everything are inputs.             *)
LEMMA ReleasesAreInputs ==
  ASSUME PagesOK, NEW c \in Clients, NEW releases \in Releases(c)
  PROVE  releases \in Seq(Inputs)
<1> DEFINE ups == {[down |-> FALSE, of |-> k, name |-> held[c][k]] : k \in HeldCodes(c)}
<1>1. ups \subseteq Inputs
  <2> SUFFICES ASSUME NEW k \in HeldCodes(c)
               PROVE  [down |-> FALSE, of |-> k, name |-> held[c][k]] \in Inputs
    OBVIOUS
  <2>1. k \in Codes /\ held[c][k] \in Names \cup {None}
    BY DEF PagesOK, HeldCodes
  <2> QED BY <2>1 DEF Inputs
<1>2. IsFiniteSet(HeldCodes(c))
  BY ClientAssumption, FS_Subset DEF HeldCodes
<1>3. IsFiniteSet(ups)
  <2> DEFINE up == [k \in HeldCodes(c) |->
                      [down |-> FALSE, of |-> k, name |-> held[c][k]]]
  <2>1. up \in Surjection(HeldCodes(c), ups)
    BY DEF Surjection
  <2> HIDE DEF up, ups
  <2> QED BY <1>2, <2>1, FS_Surjection
<1>4. Cardinality(ups) \in Nat
  BY <1>3, FS_CardinalityType
<1>5. ASSUME NEW keyUps \in KeyUps(c) PROVE keyUps \in Seq(Inputs)
  <2> HIDE DEF ups
  <2>1. keyUps \in [1..Cardinality(ups) -> ups]
    BY DEF KeyUps, SetToSeqs, ups
  <2>2. keyUps \in [1..Cardinality(ups) -> Inputs]
    BY <1>1, <2>1
  <2> QED BY <1>4, <2>2
<1>6. PICK keyUps \in KeyUps(c) :
        releases = keyUps \o (IF pointerDown[c] THEN <<MouseInput(FALSE)>> ELSE <<>>)
  BY DEF Releases
<1>7. MouseInput(FALSE) \in Inputs
  BY DEF MouseInput, Inputs
<1> DEFINE pointerUp == IF pointerDown[c] THEN <<MouseInput(FALSE)>> ELSE <<>>
<1>8. pointerUp \in Seq(Inputs)
  <2>1. \A up \in Inputs : <<up>> \in Seq(Inputs)
    OBVIOUS
  <2>2. <<>> \in Seq(Inputs)
    OBVIOUS
  <2> QED BY <1>7, <2>1, <2>2
<1> HIDE DEF pointerUp
<1>9. releases = keyUps \o pointerUp
  BY <1>6 DEF pointerUp
<1> QED BY <1>5, <1>8, <1>9, ConcatProperties

LEMMA SendKeepsWires ==
  ASSUME PagesOK, NEW c \in Clients, NEW inputs \in Seq(Inputs), Send(c, inputs)
  PROVE  wire' \in [Sessions -> Seq(Inputs)]
<1>1. CASE UNCHANGED wire
  BY <1>1 DEF PagesOK
<1>2. CASE wire' = [wire EXCEPT ![socket[c]] = @ \o inputs]
  <2> SUFFICES ASSUME NEW s \in Sessions, s = socket[c]
               PROVE  wire[s] \o inputs \in Seq(Inputs)
    BY <1>2 DEF PagesOK
  <2> QED BY ConcatProperties DEF PagesOK
<1> QED BY <1>1, <1>2 DEF Send

LEMMA ReleaseKeepsPages ==
  ASSUME PagesOK, NEW c \in Clients, ReleaseRemoteInput(c)
  PROVE  PagesOK'
<1>1. PICK releases \in Releases(c) : Send(c, releases)
  BY DEF ReleaseRemoteInput
<1>2. wire' \in [Sessions -> Seq(Inputs)]
  BY <1>1, ReleasesAreInputs, SendKeepsWires
<1>3. Nothing \in [Codes -> Names \cup {None}]
  BY DEF Nothing
<1>4. /\ held' \in [Clients -> [Codes -> Names \cup {None}]]
      /\ pointerDown' \in [Clients -> BOOLEAN]
  BY <1>3 DEF ReleaseRemoteInput, PagesOK
<1> QED BY <1>2, <1>4 DEF PagesOK

LEMMA StepKeepsPages ==
  ASSUME PagesOK, [SystemNext]_systemVars
  PROVE  PagesOK'
<1>1. ASSUME NEW c \in Clients, NEW input \in Inputs, UserInput(c, input)
      PROVE  PagesOK'
  <2>1. wire' \in [Sessions -> Seq(Inputs)]
    <3>1. <<input>> \in Seq(Inputs)
      OBVIOUS
    <3> QED BY <1>1, <3>1, SendKeepsWires DEF UserInput
  <2>2. input.down \in BOOLEAN /\ input.name \in Names \cup {None}
    BY DEF Inputs
  <2>3. pointerDown' \in [Clients -> BOOLEAN]
    BY <1>1, <2>2 DEF UserInput, Noted, PagesOK
  <2>4. held' \in [Clients -> [Codes -> Names \cup {None}]]
    <3>1. CASE input.of = Mouse
      BY <1>1, <3>1 DEF UserInput, Noted, PagesOK
    <3>2. CASE input.of # Mouse
      <4> DEFINE name == IF input.down THEN input.name ELSE None
      <4>1. held' = [held EXCEPT ![c][input.of] = name]
        BY <1>1, <3>2 DEF UserInput, Noted
      <4>2. name \in Names \cup {None}
        BY <2>2
      <4> HIDE DEF name
      <4> QED BY <4>1, <4>2 DEF PagesOK
    <3> QED BY <3>1, <3>2
  <2> QED BY <2>1, <2>3, <2>4 DEF PagesOK
<1>2. ASSUME NEW c \in Clients, Tap(c) PROVE PagesOK'
  <2>1. <<MouseInput(TRUE), MouseInput(FALSE)>> \in Seq(Inputs)
    <3>1. MouseInput(TRUE) \in Inputs /\ MouseInput(FALSE) \in Inputs
      BY DEF MouseInput, Inputs
    <3>2. \A a, b \in Inputs : <<a, b>> \in Seq(Inputs)
      OBVIOUS
    <3> QED BY <3>1, <3>2
  <2>2. wire' \in [Sessions -> Seq(Inputs)]
    BY <1>2, <2>1, SendKeepsWires DEF Tap
  <2> QED BY <1>2, <2>2 DEF Tap, stateVars, PagesOK
<1>3. ASSUME NEW c \in Clients, Blur(c) \/ Disable(c) PROVE PagesOK'
  BY <1>3, ReleaseKeepsPages DEF Blur, Disable
<1>4. ASSUME NEW c \in Clients,
             \/ Enable(c) \/ ConnectClient(c) \/ CloseClient(c)
             \/ ReconnectTimerFires(c)
      PROVE  PagesOK'
  BY <1>4 DEF Enable, ConnectClient, CloseClient, ReconnectTimerFires, stateVars,
              netVars, PagesOK
<1>5. ASSUME NEW s \in Sessions,
             AcceptConnection(s) \/ SocketCloses(s) \/ SessionStep(s)
      PROVE  PagesOK'
  BY <1>5 DEF AcceptConnection, SocketCloses, SessionStep, stateVars, netVars, PagesOK
<1>6. ASSUME NEW s \in Sessions, Receive(s) PROVE PagesOK'
  <2>1. Tail(wire[s]) \in Seq(Inputs)
    BY <1>6 DEF Receive, PagesOK
  <2> QED BY <1>6, <2>1 DEF Receive, stateVars, PagesOK
<1>7. ASSUME NEW s \in Sessions, Lost(s) PROVE PagesOK'
  BY <1>7 DEF Lost, stateVars, PagesOK
<1>8. CASE UNCHANGED systemVars
  BY <1>8 DEF systemVars, stateVars, netVars, PagesOK
<1> QED BY <1>1, <1>2, <1>3, <1>4, <1>5, <1>6, <1>7, <1>8
        DEF SystemNext, Page, Connection

LEMMA InitPages == SystemInit => PagesOK
BY DEF SystemInit, PagesOK, Nothing

-----------------------------------------------------------------------------
(* What the whole path does to the sessions, a session does.               *)
LEMMA StepOfSessions ==
  ASSUME PagesOK, [SystemNext]_systemVars
  PROVE  [Next]_vars
<1>1. ASSUME NEW c \in Clients, Page(c) PROVE UNCHANGED vars
  BY <1>1 DEF Page, UserInput, Tap, Blur, Enable, Disable, ConnectClient,
              CloseClient, ReconnectTimerFires
<1>2. ASSUME NEW s \in Sessions, AcceptConnection(s) PROVE Next
  BY <1>2 DEF AcceptConnection, Next, Depart
<1>3. ASSUME NEW s \in Sessions, SocketCloses(s) PROVE UNCHANGED vars
  BY <1>3 DEF SocketCloses
<1>4. ASSUME NEW s \in Sessions, Receive(s) PROVE Next \/ UNCHANGED vars
  <2>1. Head(wire[s]) \in Inputs
    BY <1>4 DEF Receive, PagesOK
  <2>2. Handle(s, Head(wire[s])) \/ UNCHANGED vars
    BY <1>4 DEF Receive
  <2> QED BY <2>1, <2>2 DEF Next, Serve
<1>5. ASSUME NEW s \in Sessions, Lost(s) PROVE Next
  BY <1>5 DEF Lost, Next, Depart
<1>6. ASSUME NEW s \in Sessions, SessionStep(s) PROVE Next
  BY <1>6 DEF SessionStep, Next, Serve, Depart
<1>7. CASE UNCHANGED systemVars
  BY <1>7 DEF systemVars
<1> QED BY <1>1, <1>2, <1>3, <1>4, <1>5, <1>6, <1>7 DEF SystemNext, Connection

(* Behind pages that connect, lose their sockets and connect again, the    *)
(* sessions do nothing that InputSession does not allow them.              *)
THEOREM PathImplementsSessions == SystemSpec => Spec
<1>1. SystemInit => Init /\ PagesOK
  BY InitPages DEF SystemInit
<1>2. PagesOK /\ [SystemNext]_systemVars => PagesOK' /\ [Next]_vars
  BY StepKeepsPages, StepOfSessions
<1> QED BY <1>1, <1>2, PTL DEF SystemSpec, Spec

(* And so, whatever happens to pages and connections, a key stays pressed  *)
(* that no session knows of only after a failed dispatch, each at most one *)
(* key, or after a keyup under another name than its keydown.              *)
THEOREM PathStraysBounded == SystemSpec => []StraysComeFromFailures
BY PathImplementsSessions, StraysBounded, PTL

(* While no dispatch has failed, all that stays pressed when everybody is  *)
(* gone is a key whose keyup came under another name than its keydown, of  *)
(* those that x11Key has no symbol of its own for.                         *)
THEOREM PathLeavesNothing == SystemSpec => []OnlyRenamedStaysPressed
BY PathImplementsSessions, NothingLeftBehind, PTL

-----------------------------------------------------------------------------
(* A new socket takes the place of none.                                   *)
LEMMA OpenKeeps ==
  ASSUME ConnectionInv, NEW c \in Clients, Open(c), socket[c] = None,
         UNCHANGED stopped \/ stopped' = [stopped EXCEPT ![c] = FALSE],
         ~stopped'[c],
         UNCHANGED reconnectTimer \/ reconnectTimer' = [reconnectTimer EXCEPT ![c] = FALSE],
         ~reconnectTimer'[c]
  PROVE  ConnectionInv'
<1> USE ClientAssumption DEF ConnectionInv, SocketsOK
<1>1. PICK s \in Sessions : /\ ws[s] = "none"
                            /\ ws' = [ws EXCEPT ![s] = "connecting"]
                            /\ owner' = [owner EXCEPT ![s] = c]
                            /\ socket' = [socket EXCEPT ![c] = s]
  BY DEF Open
<1>2. \A d \in Clients : socket[d] # s
  BY <1>1
<1>3. SocketsOK'
  <2>1. /\ stopped' \in [Clients -> BOOLEAN]
        /\ reconnectTimer' \in [Clients -> BOOLEAN]
        /\ socket' \in [Clients -> Sessions \cup {None}]
        /\ ws' \in [Sessions -> {"none", "connecting", "open", "closing"}]
        /\ owner' \in [Sessions -> Clients]
    BY <1>1
  <2>2. ASSUME NEW d \in Clients, socket'[d] # None
        PROVE  owner'[socket'[d]] = d /\ ws'[socket'[d]] \in {"connecting", "open"}
    BY <1>1, <1>2, <2>2
  <2> QED BY <2>1, <2>2
<1>4. NeverStranded'
  <2>1. ASSUME NEW d \in Clients \ {c}
        PROVE  /\ stopped'[d] = stopped[d] /\ socket'[d] = socket[d]
               /\ reconnectTimer'[d] = reconnectTimer[d]
    BY <1>1
  <2>2. socket'[c] # None
    BY <1>1
  <2> QED BY <2>1, <2>2 DEF NeverStranded
<1>5. NoOrphanSocket'
  BY <1>1 DEF NoOrphanSocket
<1> QED BY <1>3, <1>4, <1>5

LEMMA StepKeepsConnections ==
  ASSUME ConnectionInv, [SystemNext]_systemVars
  PROVE  ConnectionInv'
<1> USE ClientAssumption DEF ConnectionInv, SocketsOK
<1>1. ASSUME UNCHANGED <<clientVars, ws, owner>> PROVE ConnectionInv'
  BY <1>1 DEF clientVars, NeverStranded, NoOrphanSocket
<1>2. ASSUME NEW c \in Clients,
             \/ \E input \in Inputs : UserInput(c, input)
             \/ Tap(c) \/ Blur(c) \/ Enable(c) \/ Disable(c)
      PROVE  ConnectionInv'
  BY <1>1, <1>2 DEF UserInput, Tap, Blur, Enable, Disable, netVars
<1>3. ASSUME NEW c \in Clients, ConnectClient(c) PROVE ConnectionInv'
  <2>1. stopped[c] /\ socket[c] = None /\ ~reconnectTimer[c]
    BY <1>3 DEF ConnectClient, NeverStranded
  <2>2. /\ stopped' = [stopped EXCEPT ![c] = FALSE] /\ ~stopped'[c]
        /\ UNCHANGED reconnectTimer /\ Open(c)
    BY <1>3 DEF ConnectClient
  <2> QED BY <2>1, <2>2, OpenKeeps
<1>4. ASSUME NEW c \in Clients, CloseClient(c) PROVE ConnectionInv'
  <2>1. /\ ~stopped[c]
        /\ stopped' = [stopped EXCEPT ![c] = TRUE]
        /\ reconnectTimer' = [reconnectTimer EXCEPT ![c] = FALSE]
        /\ socket' = [socket EXCEPT ![c] = None]
        /\ ws' = [s \in Sessions |-> IF s = socket[c] THEN "closing" ELSE ws[s]]
        /\ UNCHANGED owner
    BY <1>4 DEF CloseClient, StoppedAfterClose
  <2>2. SocketsOK'
    <3>1. ASSUME NEW d \in Clients, socket'[d] # None
          PROVE  owner'[socket'[d]] = d /\ ws'[socket'[d]] \in {"connecting", "open"}
      <4>1. d # c /\ socket'[d] = socket[d]
        BY <2>1, <3>1
      <4>2. socket[d] # socket[c]
        BY <3>1, <4>1
      <4> QED BY <2>1, <3>1, <4>1, <4>2
    <3> QED BY <2>1, <3>1
  <2>3. NeverStranded'
    BY <2>1 DEF NeverStranded
  <2>4. NoOrphanSocket'
    <3>1. ASSUME NEW s \in Sessions, ws'[s] \in {"connecting", "open"}
          PROVE  socket'[owner'[s]] = s
      <4>1. s # socket[c] /\ ws[s] \in {"connecting", "open"}
        BY <2>1, <3>1
      <4>2. owner[s] # c
        BY <4>1 DEF NoOrphanSocket
      <4> QED BY <2>1, <4>1, <4>2 DEF NoOrphanSocket
    <3> QED BY <3>1 DEF NoOrphanSocket
  <2> QED BY <2>2, <2>3, <2>4
<1>5. ASSUME NEW c \in Clients, ReconnectTimerFires(c) PROVE ConnectionInv'
  <2>1. ~stopped[c] /\ socket[c] = None
    BY <1>5 DEF ReconnectTimerFires, NeverStranded
  <2>2. /\ reconnectTimer' = [reconnectTimer EXCEPT ![c] = FALSE]
        /\ ~reconnectTimer'[c] /\ UNCHANGED stopped /\ Open(c)
    BY <1>5, <2>1 DEF ReconnectTimerFires
  <2> QED BY <2>1, <2>2, OpenKeeps
<1>6. ASSUME NEW s \in Sessions, AcceptConnection(s) PROVE ConnectionInv'
  <2>1. /\ ws[s] = "connecting" /\ ws' = [ws EXCEPT ![s] = "open"]
        /\ UNCHANGED <<clientVars, owner>>
    BY <1>6 DEF AcceptConnection
  <2> QED BY <2>1 DEF clientVars, NeverStranded, NoOrphanSocket
<1>7. ASSUME NEW s \in Sessions, SocketCloses(s) PROVE ConnectionInv'
  <2> DEFINE c == owner[s]
  <2>1. /\ c \in Clients /\ ws[s] # "none" /\ ws' = [ws EXCEPT ![s] = "none"]
        /\ UNCHANGED <<stopped, owner>> /\ OnClose(c, s)
    BY <1>7 DEF SocketCloses
  <2> HIDE DEF c
  <2>2. CASE socket[c] = s
    <3>1. /\ socket' = [socket EXCEPT ![c] = None]
          /\ reconnectTimer' = [reconnectTimer EXCEPT ![c] = @ \/ ~stopped[c]]
      BY <2>1, <2>2 DEF OnClose, IsCurrent
    <3>2. reconnectTimer'[c] = (reconnectTimer[c] \/ ~stopped[c])
      BY <2>1, <3>1
    <3>3. reconnectTimer' \in [Clients -> BOOLEAN]
      BY <3>1
    <3>4. SocketsOK'
      BY <2>1, <2>2, <3>1, <3>3
    <3>5. NeverStranded'
      <4>1. ASSUME NEW d \in Clients \ {c}
            PROVE  socket'[d] = socket[d] /\ reconnectTimer'[d] = reconnectTimer[d]
        BY <3>1
      <4>2. socket'[c] = None /\ ~stopped[c] /\ ~stopped'[c] /\ reconnectTimer'[c]
        BY <2>1, <2>2, <3>1, <3>2 DEF NeverStranded
      <4> QED BY <2>1, <4>1, <4>2 DEF NeverStranded
    <3>6. NoOrphanSocket'
      BY <2>1, <2>2, <3>1 DEF NoOrphanSocket
    <3> QED BY <3>4, <3>5, <3>6
  <2>3. CASE socket[c] # s
    <3>1. UNCHANGED <<socket, reconnectTimer>>
      BY <2>1, <2>3 DEF OnClose, IsCurrent
    <3>2. \A d \in Clients : socket[d] # s
      BY <2>3 DEF c
    <3>3. SocketsOK'
      BY <2>1, <3>1, <3>2
    <3> QED BY <2>1, <3>1, <3>3 DEF NeverStranded, NoOrphanSocket
  <2> QED BY <2>2, <2>3
<1>8. ASSUME NEW s \in Sessions, Receive(s) \/ Lost(s) \/ SessionStep(s)
      PROVE  ConnectionInv'
  BY <1>1, <1>8 DEF Receive, Lost, SessionStep, netVars
<1>9. CASE UNCHANGED systemVars
  BY <1>1, <1>9 DEF systemVars, netVars
<1> QED BY <1>2, <1>3, <1>4, <1>5, <1>6, <1>7, <1>8, <1>9
        DEF SystemNext, Page, Connection

LEMMA InitConnections == SystemInit => ConnectionInv
<1> SUFFICES ASSUME SystemInit PROVE ConnectionInv
  OBVIOUS
<1>1. SocketsOK
  BY DEF SystemInit, SocketsOK
<1>2. NeverStranded
  BY DEF SystemInit, NeverStranded
<1>3. NoOrphanSocket
  BY DEF SystemInit, NoOrphanSocket
<1> QED BY <1>1, <1>2, <1>3 DEF ConnectionInv

(* input-client.mjs: no close event is lost or answered twice, a client    *)
(* that runs has a socket or a timer that will open one, never both.       *)
THEOREM ClientNeverStranded == SystemSpec => []NeverStranded
<1>1. ConnectionInv => NeverStranded
  BY DEF ConnectionInv
<1> QED BY <1>1, InitConnections, StepKeepsConnections, PTL DEF SystemSpec

(* input-client.mjs: every connection in use is the one its page sends on. *)
THEOREM SocketsHaveTheirPage == SystemSpec => []NoOrphanSocket
<1>1. ConnectionInv => NoOrphanSocket
  BY DEF ConnectionInv
<1> QED BY <1>1, InitConnections, StepKeepsConnections, PTL DEF SystemSpec

-----------------------------------------------------------------------------
(* The rest of SystemTypeOK: a page without control holds nothing, and the *)
(* wires together carry no more than MaxWire.                              *)
IdleOK ==
  /\ enabled \in [Clients -> BOOLEAN]
  /\ \A c \in Clients : ~enabled[c] => HeldCodes(c) = {} /\ ~pointerDown[c]

WiresOK == IsFiniteSet(OnWires) /\ Cardinality(OnWires) <= MaxWire

LEMMA StepKeepsIdle ==
  ASSUME PagesOK, IdleOK, [SystemNext]_systemVars
  PROVE  IdleOK'
<1> USE DEF PagesOK, IdleOK, HeldCodes
<1>1. ASSUME UNCHANGED stateVars PROVE IdleOK'
  BY <1>1 DEF stateVars
<1>2. ASSUME NEW c \in Clients, NEW input \in Inputs, UserInput(c, input)
      PROVE  IdleOK'
  <2>1. /\ enabled[c] /\ UNCHANGED enabled
        /\ \A d \in Clients \ {c} :
             held'[d] = held[d] /\ pointerDown'[d] = pointerDown[d]
    BY <1>2 DEF UserInput, Noted
  <2> QED BY <2>1
<1>3. ASSUME NEW c \in Clients, Blur(c) \/ Disable(c) PROVE IdleOK'
  <2>1. /\ held' = [held EXCEPT ![c] = Nothing]
        /\ pointerDown' = [pointerDown EXCEPT ![c] = FALSE]
        /\ enabled' \in [Clients -> BOOLEAN]
        /\ \A d \in Clients \ {c} : enabled'[d] = enabled[d]
    BY <1>3 DEF Blur, Disable, ReleaseRemoteInput
  <2>2. \A k \in Codes : held'[c][k] = None
    BY <2>1 DEF Nothing
  <2> QED BY <2>1, <2>2
<1>4. ASSUME NEW c \in Clients, Enable(c) PROVE IdleOK'
  BY <1>4 DEF Enable
<1> QED BY <1>1, <1>2, <1>3, <1>4
        DEF SystemNext, Page, Connection, Tap, ConnectClient, CloseClient,
            ReconnectTimerFires, AcceptConnection, SocketCloses, Receive, Lost,
            SessionStep, systemVars

LEMMA SendKeepsBound ==
  ASSUME PagesOK, SocketsOK, WiresOK, NEW c \in Clients,
         NEW inputs \in Seq(Inputs), Send(c, inputs)
  PROVE  WiresOK'
<1>1. CASE UNCHANGED wire
  BY <1>1 DEF WiresOK, OnWires
<1>2. CASE ~UNCHANGED wire
  <2> DEFINE s == socket[c]
             n == Len(wire[s])
             m == Len(inputs)
             added == {s} \X ((n + 1)..(n + m))
  <2>1. /\ s \in Sessions
        /\ Cardinality(OnWires) + m <= MaxWire
        /\ wire' = [wire EXCEPT ![s] = @ \o inputs]
    BY <1>2 DEF Send, Ready, SocketsOK
  <2>2. /\ wire[s] \in Seq(Inputs) /\ n \in Nat /\ m \in Nat
        /\ DOMAIN (wire[s] \o inputs) = 1..(n + m) /\ DOMAIN wire[s] = 1..n
    BY <2>1 DEF PagesOK
  <2>3. /\ wire'[s] = wire[s] \o inputs
        /\ \A t \in Sessions \ {s} : wire'[t] = wire[t]
    BY <2>1 DEF PagesOK
  <2>4. OnWires' = OnWires \cup added
    <3>1. 1..(n + m) = (1..n) \cup ((n + 1)..(n + m))
      BY <2>2
    <3> HIDE DEF s, n, m
    <3> QED BY <2>1, <2>2, <2>3, <3>1 DEF OnWires
  <2>5. IsFiniteSet(added) /\ Cardinality(added) = m
    <3> HIDE DEF s, n, m
    <3>1. IsFiniteSet({s}) /\ Cardinality({s}) = 1
      BY FS_Singleton
    <3>2. IsFiniteSet((n + 1)..(n + m)) /\ Cardinality((n + 1)..(n + m)) = m
      <4> HIDE DEF added
      <4>1. n + 1 \in Int /\ n + m \in Int
        BY <2>2
      <4>2. /\ IsFiniteSet((n + 1)..(n + m))
            /\ Cardinality((n + 1)..(n + m))
                 = IF n + 1 > n + m THEN 0 ELSE (n + m) - (n + 1) + 1
        BY <4>1, FS_Interval
      <4> QED BY <2>2, <4>2
    <3>3. IsFiniteSet(added) /\ Cardinality(added) = 1 * m
      BY <3>1, <3>2, FS_Product
    <3> QED BY <2>2, <3>3
  <2> HIDE DEF added, m
  <2>6. IsFiniteSet(OnWires')
        /\ Cardinality(OnWires')
             = Cardinality(OnWires) + m - Cardinality(OnWires \cap added)
    BY <2>4, <2>5, FS_Union DEF WiresOK
  <2>7. IsFiniteSet(OnWires \cap added)
    BY <2>5, FS_Intersection
  <2>8. Cardinality(OnWires \cap added) \in Nat /\ Cardinality(OnWires) \in Nat
    BY <2>7, FS_CardinalityType DEF WiresOK
  <2> QED BY <2>1, <2>2, <2>6, <2>8, ClientAssumption DEF WiresOK, m
<1> QED BY <1>1, <1>2

(* Reading takes from the wires and adds nothing.                          *)
LEMMA ShorterKeepsBound ==
  ASSUME WiresOK, \A s \in Sessions : DOMAIN wire'[s] \subseteq DOMAIN wire[s]
  PROVE  WiresOK'
<1>1. OnWires' \in SUBSET OnWires
  BY DEF OnWires
<1>2. IsFiniteSet(OnWires') /\ Cardinality(OnWires') <= Cardinality(OnWires)
  BY <1>1, FS_Subset DEF WiresOK
<1>3. Cardinality(OnWires') \in Nat /\ Cardinality(OnWires) \in Nat
  BY <1>2, FS_CardinalityType DEF WiresOK
<1> QED BY <1>2, <1>3, ClientAssumption DEF WiresOK

LEMMA TapIsInputs == <<MouseInput(TRUE), MouseInput(FALSE)>> \in Seq(Inputs)
<1>1. MouseInput(TRUE) \in Inputs /\ MouseInput(FALSE) \in Inputs
  BY DEF MouseInput, Inputs
<1>2. \A a, b \in Inputs : <<a, b>> \in Seq(Inputs)
  OBVIOUS
<1> QED BY <1>1, <1>2

LEMMA StepKeepsBoundOfWires ==
  ASSUME PagesOK, SocketsOK, WiresOK, [SystemNext]_systemVars
  PROVE  WiresOK'
<1>1. ASSUME UNCHANGED wire PROVE WiresOK'
  BY <1>1, ShorterKeepsBound
<1>2. ASSUME NEW c \in Clients, NEW input \in Inputs, UserInput(c, input)
      PROVE  WiresOK'
  <2>1. <<input>> \in Seq(Inputs)
    OBVIOUS
  <2> QED BY <1>2, <2>1, SendKeepsBound DEF UserInput
<1>3. ASSUME NEW c \in Clients, Tap(c) PROVE WiresOK'
  BY <1>3, TapIsInputs, SendKeepsBound DEF Tap
<1>4. ASSUME NEW c \in Clients, Blur(c) \/ Disable(c) PROVE WiresOK'
  BY <1>4, ReleasesAreInputs, SendKeepsBound DEF Blur, Disable, ReleaseRemoteInput
<1>5. ASSUME NEW s \in Sessions, Receive(s) PROVE WiresOK'
  <2>1. wire[s] \in Seq(Inputs) /\ wire[s] # <<>>
        /\ wire' = [wire EXCEPT ![s] = Tail(@)]
    BY <1>5 DEF Receive, PagesOK
  <2>2. DOMAIN Tail(wire[s]) \subseteq DOMAIN wire[s]
    BY <2>1
  <2> QED BY <2>1, <2>2, ShorterKeepsBound DEF PagesOK
<1>6. ASSUME NEW s \in Sessions, Lost(s) PROVE WiresOK'
  <2>1. wire' = [wire EXCEPT ![s] = <<>>] /\ DOMAIN <<>> = {}
    BY <1>6 DEF Lost
  <2> QED BY <2>1, ShorterKeepsBound DEF PagesOK
<1> QED BY <1>1, <1>2, <1>3, <1>4, <1>5, <1>6
        DEF SystemNext, Page, Connection, Enable, ConnectClient, CloseClient,
            ReconnectTimerFires, AcceptConnection, SocketCloses, SessionStep,
            netVars, systemVars

LEMMA InitRest == SystemInit => IdleOK /\ WiresOK
<1> SUFFICES ASSUME SystemInit PROVE IdleOK /\ WiresOK
  OBVIOUS
<1>1. IdleOK
  BY DEF SystemInit, IdleOK, HeldCodes, Nothing
<1>2. OnWires = {}
  <2>1. DOMAIN <<>> = {}
    OBVIOUS
  <2>2. \A s \in Sessions : wire[s] = <<>>
    BY DEF SystemInit
  <2> QED BY <2>1, <2>2 DEF OnWires
<1> QED BY <1>1, <1>2, FS_EmptySet, ClientAssumption DEF WiresOK

(* No wire carries more than all of them together.                         *)
LEMMA WireBounded ==
  ASSUME PagesOK, WiresOK, NEW s \in Sessions
  PROVE  wire[s] \in BoundedSeq(Inputs, MaxWire)
<1> DEFINE n == Len(wire[s])
<1>1. n \in Nat /\ DOMAIN wire[s] = 1..n /\ wire[s] \in [1..n -> Inputs]
  BY DEF PagesOK
<1> HIDE DEF n
<1>2. {s} \X (1..n) \in SUBSET OnWires
  BY <1>1 DEF OnWires
<1>3. Cardinality({s} \X (1..n)) <= Cardinality(OnWires)
  BY <1>2, FS_Subset DEF WiresOK
<1>4. Cardinality({s} \X (1..n)) = n
  <2>1. IsFiniteSet({s}) /\ Cardinality({s}) = 1
    BY FS_Singleton
  <2>2. IsFiniteSet(1..n) /\ Cardinality(1..n) = n
    BY <1>1, FS_Interval
  <2>3. Cardinality({s} \X (1..n)) = Cardinality({s}) * Cardinality(1..n)
    BY <2>1, <2>2, FS_Product
  <2> QED BY <1>1, <2>1, <2>2, <2>3
<1>5. Cardinality(OnWires) \in Nat
  BY FS_CardinalityType DEF WiresOK
<1>6. n \in 0..MaxWire
  BY <1>1, <1>3, <1>4, <1>5, ClientAssumption DEF WiresOK
<1> QED BY <1>1, <1>6 DEF BoundedSeq, SeqOf

SystemIInv ==
  TypeOK /\ SessionsOK /\ PagesOK /\ ConnectionInv /\ IdleOK /\ WiresOK

LEMMA StepSystemIInv ==
  ASSUME SystemIInv, [SystemNext]_systemVars
  PROVE  SystemIInv'
<1>1. PagesOK'
  BY StepKeepsPages DEF SystemIInv
<1>2. [Next]_vars
  BY StepOfSessions DEF SystemIInv
<1>3. TypeOK' /\ SessionsOK'
  BY <1>2, StepTypes DEF SystemIInv
<1>4. ConnectionInv'
  BY StepKeepsConnections DEF SystemIInv
<1>5. IdleOK'
  BY StepKeepsIdle DEF SystemIInv
<1>6. WiresOK'
  BY StepKeepsBoundOfWires DEF SystemIInv, ConnectionInv
<1> QED BY <1>1, <1>3, <1>4, <1>5, <1>6 DEF SystemIInv

LEMMA InitSystemIInv == SystemInit => SystemIInv
<1>1. SystemInit => TypeOK /\ SessionsOK
  BY InitIInv DEF SystemInit, IInv
<1> QED BY <1>1, InitPages, InitConnections, InitRest DEF SystemIInv

(* Type correctness of the whole input path; in particular a page that is  *)
(* not in control has nothing left to release.                             *)
THEOREM PathTypeCorrect == SystemSpec => []SystemTypeOK
<1>1. SystemIInv => SystemTypeOK
  <2> SUFFICES ASSUME SystemIInv PROVE SystemTypeOK
    OBVIOUS
  <2>1. \A s \in Sessions : wire[s] \in BoundedSeq(Inputs, MaxWire)
    BY WireBounded DEF SystemIInv
  <2>2. /\ TypeOK
        /\ enabled \in [Clients -> BOOLEAN]
        /\ \A c \in Clients : ~enabled[c] => HeldCodes(c) = {} /\ ~pointerDown[c]
    BY DEF SystemIInv, IdleOK
  <2>3. /\ held \in [Clients -> [Codes -> Names \cup {None}]]
        /\ pointerDown \in [Clients -> BOOLEAN]
    BY DEF SystemIInv, PagesOK
  <2>4. /\ stopped \in [Clients -> BOOLEAN]
        /\ socket \in [Clients -> Sessions \cup {None}]
        /\ reconnectTimer \in [Clients -> BOOLEAN]
        /\ ws \in [Sessions -> {"none", "connecting", "open", "closing"}]
        /\ owner \in [Sessions -> Clients]
    BY DEF SystemIInv, ConnectionInv, SocketsOK
  <2> QED BY <2>1, <2>2, <2>3, <2>4 DEF SystemTypeOK
<1> QED BY <1>1, InitSystemIInv, StepSystemIInv, PTL DEF SystemSpec

-----------------------------------------------------------------------------
(* What sequences of inputs say.                                           *)
LEMMA LastSaysNothing ==
  ASSUME NEW of, NEW before
  PROVE  LastSays(<<>>, of, before) = before
<1>1. {i \in DOMAIN <<>> : <<>>[i].of = of} = {}
  OBVIOUS
<1> QED BY <1>1 DEF LastSays

LEMMA LastSaysOne ==
  ASSUME NEW input \in Inputs, NEW of, NEW before \in BOOLEAN
  PROVE  LastSays(<<input>>, of, before) = IF input.of = of THEN input.down ELSE before
<1> DEFINE about == {i \in DOMAIN <<input>> : <<input>>[i].of = of}
<1>1. DOMAIN <<input>> = {1} /\ <<input>>[1] = input
  OBVIOUS
<1>2. CASE input.of = of
  <2>1. about = {1}
    BY <1>1, <1>2
  <2>2. LastSays(<<input>>, of, before)
          = \E i \in about : <<input>>[i].down /\ \A j \in about : j <= i
    BY <2>1 DEF LastSays
  <2>3. input.down \in BOOLEAN
    BY DEF Inputs
  <2> HIDE DEF about
  <2>4. CASE input.down
    <3>1. LastSays(<<input>>, of, before)
      <4>1. 1 \in about /\ \A j \in about : j <= 1
        BY <2>1
      <4>2. <<input>>[1].down
        BY <1>1, <2>4
      <4> QED BY <2>2, <4>1, <4>2, Zenon
    <3> QED BY <1>2, <2>3, <2>4, <3>1, <2>2
  <2>5. CASE ~input.down
    <3>1. ~LastSays(<<input>>, of, before)
      BY <1>1, <2>1, <2>2, <2>5
    <3> QED BY <1>2, <2>3, <2>5, <3>1, <2>2
  <2> QED BY <2>4, <2>5
<1>3. CASE input.of # of
  <2>1. about = {}
    BY <1>1, <1>3
  <2> QED BY <1>3, <2>1 DEF LastSays
<1> QED BY <1>2, <1>3

LEMMA LastSaysType ==
  ASSUME NEW inputs \in Seq(Inputs), NEW of, NEW before \in BOOLEAN
  PROVE  LastSays(inputs, of, before) \in BOOLEAN
BY DEF LastSays

(* What is said later counts.                                              *)
LEMMA LastSaysConcat ==
  ASSUME NEW u \in Seq(Inputs), NEW v \in Seq(Inputs), NEW of, NEW before \in BOOLEAN
  PROVE  LastSays(u \o v, of, before) = LastSays(v, of, LastSays(u, of, before))
<1> DEFINE inU == {i \in DOMAIN u : u[i].of = of}
           inV == {i \in DOMAIN v : v[i].of = of}
           inAll == {i \in DOMAIN (u \o v) : (u \o v)[i].of = of}
           n == Len(u)
<1>1. /\ n \in Nat /\ Len(v) \in Nat
      /\ DOMAIN u = 1..n /\ DOMAIN v = 1..Len(v) /\ DOMAIN (u \o v) = 1..(n + Len(v))
      /\ \A i \in 1..n : (u \o v)[i] = u[i]
      /\ \A i \in 1..Len(v) : (u \o v)[n + i] = v[i]
  OBVIOUS
<1>2. \A i \in (n + 1)..(n + Len(v)) :
        i - n \in 1..Len(v) /\ (u \o v)[i] = v[i - n]
  <2> SUFFICES ASSUME NEW i \in (n + 1)..(n + Len(v))
               PROVE  i - n \in 1..Len(v) /\ (u \o v)[i] = v[i - n]
    OBVIOUS
  <2>1. i - n \in 1..Len(v) /\ n + (i - n) = i
    BY <1>1
  <2> QED BY <1>1, <2>1
<1>3. CASE inV = {}
  <2>1. inAll = inU
    <3>1. ASSUME NEW i \in inAll PROVE i \in inU
      BY <1>1, <1>2, <1>3
    <3>2. ASSUME NEW i \in inU PROVE i \in inAll
      BY <1>1
    <3> QED BY <3>1, <3>2
  <2>2. LastSays(v, of, LastSays(u, of, before)) = LastSays(u, of, before)
    BY <1>3 DEF LastSays
  <2>3. \A i \in inU : (u \o v)[i].down = u[i].down
    BY <1>1
  <2> HIDE DEF inU, inAll
  <2>4. LastSays(u \o v, of, before) = LastSays(u, of, before)
    BY <2>1, <2>3 DEF LastSays, inU, inAll
  <2> QED BY <2>2, <2>4
<1>4. CASE inV # {}
  <2>1. \A i \in inV : n + i \in inAll
    BY <1>1
  <2>2. \A i \in inAll : i > n => i - n \in inV
    BY <1>1, <1>2
  <2>3. inAll # {} /\ inAll \subseteq 1..(n + Len(v)) /\ inV \subseteq 1..Len(v)
    BY <1>1, <1>4, <2>1
  <2> DEFINE saysAll == \E i \in inAll : (u \o v)[i].down /\ \A j \in inAll : j <= i
             saysV == \E i \in inV : v[i].down /\ \A j \in inV : j <= i
  <2>4. ASSUME saysAll PROVE saysV
    <3>1. PICK i \in inAll : (u \o v)[i].down /\ \A j \in inAll : j <= i
      BY <2>4
    <3>2. i > n
      BY <1>1, <1>4, <2>1, <2>3, <3>1
    <3>3. i - n \in inV /\ v[i - n].down
      BY <1>1, <1>2, <2>2, <2>3, <3>1, <3>2
    <3>4. ASSUME NEW j \in inV PROVE j <= i - n
      <4>1. n + j <= i /\ j \in Nat /\ i \in Nat
        BY <1>1, <2>1, <2>3, <3>1
      <4> QED BY <1>1, <4>1
    <3> QED BY <3>3, <3>4
  <2>5. ASSUME saysV PROVE saysAll
    <3>1. PICK i \in inV : v[i].down /\ \A j \in inV : j <= i
      BY <2>5
    <3>2. n + i \in inAll /\ (u \o v)[n + i].down
      BY <1>1, <2>1, <2>3, <3>1
    <3>3. \A j \in inAll : j <= n + i
      BY <1>1, <2>2, <2>3, <3>1
    <3> QED BY <3>2, <3>3
  <2>6. LastSays(u \o v, of, before) = saysAll
    BY <2>3 DEF LastSays
  <2>7. LastSays(v, of, LastSays(u, of, before)) = saysV
    BY <1>4 DEF LastSays
  <2> QED BY <2>4, <2>5, <2>6, <2>7
<1> QED BY <1>3, <1>4

(* An input in hand comes before what is on the wire.                      *)
LEMMA LastSaysInHand ==
  ASSUME NEW inputs \in Seq(Inputs), NEW input \in Inputs, NEW of, NEW before \in BOOLEAN
  PROVE  /\ LastSays(<<>> \o inputs, of, before) = LastSays(inputs, of, before)
         /\ LastSays(<<input>> \o inputs, of, before)
              = LastSays(inputs, of, IF input.of = of THEN input.down ELSE before)
<1>1. <<>> \in Seq(Inputs) /\ <<input>> \in Seq(Inputs)
  OBVIOUS
<1>2. /\ LastSays(<<>> \o inputs, of, before)
           = LastSays(inputs, of, LastSays(<<>>, of, before))
      /\ LastSays(<<input>> \o inputs, of, before)
           = LastSays(inputs, of, LastSays(<<input>>, of, before))
  BY <1>1, LastSaysConcat
<1> QED BY <1>2, LastSaysNothing, LastSaysOne

(* Releases press nothing, and lift what they are about.                   *)
LEMMA LastSaysUps ==
  ASSUME NEW inputs \in Seq(Inputs), \A i \in DOMAIN inputs : ~inputs[i].down,
         NEW of, NEW before \in BOOLEAN, LastSays(inputs, of, before)
  PROVE  before /\ \A i \in DOMAIN inputs : inputs[i].of # of
BY DEF LastSays

LEMMA ReleasesLift ==
  ASSUME PagesOK, NEW c \in Clients, NEW releases \in Releases(c)
  PROVE  /\ \A i \in DOMAIN releases : ~releases[i].down
         /\ \A of \in Codes \cup {Mouse} :
              Holds(c, of) => \E i \in DOMAIN releases : releases[i].of = of
<1> DEFINE ups == {[down |-> FALSE, of |-> k, name |-> held[c][k]] : k \in HeldCodes(c)}
           n == Cardinality(ups)
           pointerUp == IF pointerDown[c] THEN <<MouseInput(FALSE)>> ELSE <<>>
<1>1. IsFiniteSet(HeldCodes(c))
  BY ClientAssumption, FS_Subset DEF HeldCodes
<1>2. IsFiniteSet(ups)
  <2> DEFINE up == [k \in HeldCodes(c) |->
                      [down |-> FALSE, of |-> k, name |-> held[c][k]]]
  <2>1. up \in Surjection(HeldCodes(c), ups)
    BY DEF Surjection
  <2> HIDE DEF up, ups
  <2> QED BY <1>1, <2>1, FS_Surjection
<1>3. PICK keyUps \in KeyUps(c) : releases = keyUps \o pointerUp
  BY DEF Releases
<1>4. /\ keyUps \in [1..n -> ups]
      /\ \A i, j \in 1..n : i # j => keyUps[i] # keyUps[j]
  BY DEF KeyUps, SetToSeqs
<1>5. n \in Nat
  <2> HIDE DEF ups
  <2> QED BY <1>2, FS_CardinalityType
<1>6. \A u \in ups : \E i \in 1..n : keyUps[i] = u
  <2> HIDE DEF ups
  <2>1. keyUps \in Injection(1..n, ups)
    BY <1>4 DEF Injection, IsInjective
  <2>2. Cardinality(1..n) = n
    BY <1>5, FS_Interval
  <2>3. keyUps \in Surjection(1..n, ups)
    BY <1>2, <2>1, <2>2, FS_Injection
  <2> QED BY <2>3 DEF Surjection
<1>7. keyUps \in Seq(ups)
  <2> HIDE DEF ups
  <2> QED BY <1>4, <1>5
<1>8. keyUps \in Seq(Inputs) /\ pointerUp \in Seq(Inputs)
  <2>1. ups \subseteq Inputs
    <3> SUFFICES ASSUME NEW k \in HeldCodes(c)
                 PROVE  [down |-> FALSE, of |-> k, name |-> held[c][k]] \in Inputs
      OBVIOUS
    <3>1. k \in Codes /\ held[c][k] \in Names \cup {None}
      BY DEF PagesOK, HeldCodes
    <3> QED BY <3>1 DEF Inputs
  <2>2. MouseInput(FALSE) \in Inputs
    BY DEF MouseInput, Inputs
  <2>3. \A up \in Inputs : <<up>> \in Seq(Inputs)
    OBVIOUS
  <2>4. <<>> \in Seq(Inputs)
    OBVIOUS
  <2>5. pointerUp \in Seq(Inputs)
    BY <2>2, <2>3, <2>4
  <2> HIDE DEF ups, pointerUp
  <2>6. keyUps \in [1..n -> Inputs]
    BY <1>4, <2>1
  <2> QED BY <1>5, <2>5, <2>6
<1>9. /\ DOMAIN keyUps = 1..n /\ Len(keyUps) = n
      /\ DOMAIN releases = 1..(n + Len(pointerUp)) /\ Len(pointerUp) \in Nat
      /\ \A i \in 1..n : releases[i] = keyUps[i]
      /\ \A i \in 1..Len(pointerUp) : releases[n + i] = pointerUp[i]
  <2> HIDE DEF ups, pointerUp
  <2> QED BY <1>3, <1>4, <1>5, <1>8
<1>10. \A i \in DOMAIN releases : ~releases[i].down
  <2> SUFFICES ASSUME NEW i \in DOMAIN releases PROVE ~releases[i].down
    OBVIOUS
  <2>1. CASE i \in 1..n
    <3>1. releases[i] \in ups
      BY <1>4, <1>9, <2>1
    <3> QED BY <3>1
  <2>2. CASE i \notin 1..n
    <3>1. i - n \in 1..Len(pointerUp) /\ n + (i - n) = i
      <4> HIDE DEF pointerUp, ups, n
      <4> QED BY <1>5, <1>9, <2>2
    <3>2. releases[i] = pointerUp[i - n]
      BY <1>9, <3>1
    <3>3. pointerDown[c]
      <4>1. ~pointerDown[c] => pointerUp = <<>>
        OBVIOUS
      <4> HIDE DEF pointerUp, ups, n
      <4>2. pointerUp # <<>>
        BY <3>1
      <4> QED BY <4>1, <4>2
    <3>4. pointerUp = <<MouseInput(FALSE)>>
      BY <3>3
    <3>5. i - n = 1 /\ pointerUp[1] = MouseInput(FALSE)
      <4> HIDE DEF ups, n, pointerUp
      <4>1. Len(pointerUp) = 1 /\ pointerUp[1] = MouseInput(FALSE)
        BY <3>4
      <4> QED BY <3>1, <4>1
    <3> QED BY <3>2, <3>5 DEF MouseInput
  <2> QED BY <2>1, <2>2
<1>11. ASSUME NEW of \in Codes \cup {Mouse}, Holds(c, of)
       PROVE  \E i \in DOMAIN releases : releases[i].of = of
  <2>1. CASE of = Mouse
    <3>1. pointerUp = <<MouseInput(FALSE)>>
      BY <1>11, <2>1 DEF Holds
    <3>2. Len(pointerUp) = 1 /\ pointerUp[1] = MouseInput(FALSE)
      BY <3>1
    <3>3. n + 1 \in DOMAIN releases /\ releases[n + 1] = MouseInput(FALSE)
      <4> HIDE DEF pointerUp, ups, n
      <4>1. 1 \in 1..Len(pointerUp) /\ n + 1 \in 1..(n + Len(pointerUp))
        BY <1>5, <3>2
      <4> QED BY <1>9, <3>2, <4>1
    <3> QED BY <2>1, <3>3 DEF MouseInput
  <2>2. CASE of # Mouse
    <3>1. of \in HeldCodes(c)
      BY <1>11, <2>2 DEF Holds, HeldCodes
    <3>2. [down |-> FALSE, of |-> of, name |-> held[c][of]] \in ups
      BY <3>1
    <3>3. PICK i \in 1..n : keyUps[i] = [down |-> FALSE, of |-> of, name |-> held[c][of]]
      BY <1>6, <3>2
    <3>4. i \in DOMAIN releases /\ releases[i] = keyUps[i]
      <4> HIDE DEF pointerUp, ups, n
      <4> QED BY <1>5, <1>9
    <3> QED BY <3>3, <3>4
  <2> QED BY <2>1, <2>2
<1> QED BY <1>10, <1>11

-----------------------------------------------------------------------------
(* Only a connection the page may send on is read, and what the server has *)
(* stopped reading is gone.                                                *)
QuietOK ==
  \A s \in Sessions :
    /\ ~Reads(s) => wire[s] = <<>>
    /\ ws[s] = "connecting" => pc[s] = "closed"

Held == Codes \cup {Mouse}

Behind(s, c) == {of \in Held : WillHold(s, of) /\ ~Holds(c, of)}

FewBehind(c) ==
  (socket[c] # None /\ Reads(socket[c])) =>
    Cardinality(Behind(socket[c], c)) <= failures

(* What a session will remember of a key when it has handled the input in  *)
(* hand.                                                                   *)
Expects(s, of) ==
  IF pc[s] # "open" /\ call[s].of = of THEN call[s].down ELSE Remembers(s, of)

LEMMA StepKeepsQuiet ==
  ASSUME SystemIInv, QuietOK, [SystemNext]_systemVars
  PROVE  QuietOK'
<1> USE DEF QuietOK, Reads
<1>0. /\ wire \in [Sessions -> Seq(Inputs)]
      /\ pc \in [Sessions -> {"open", "handling", "handled", "leaving",
                              "releasing", "closed"}]
      /\ ws \in [Sessions -> {"none", "connecting", "open", "closing"}]
  BY DEF SystemIInv, TypeOK, PagesOK, ConnectionInv, SocketsOK
<1>1. ASSUME NEW c \in Clients, NEW inputs, Send(c, inputs), UNCHANGED <<pc, ws>>
      PROVE  QuietOK'
  BY <1>0, <1>1 DEF Send
<1>2. ASSUME NEW c \in Clients, Open(c), UNCHANGED <<pc, wire>> PROVE QuietOK'
  BY <1>0, <1>2 DEF Open
<1>3. ASSUME UNCHANGED <<pc, wire>>,
             \A s \in Sessions : ws'[s] = "connecting" => ws[s] = "connecting"
      PROVE  QuietOK'
  BY <1>3
<1>4. ASSUME NEW c \in Clients, Page(c) PROVE QuietOK'
  <2>1. ASSUME NEW input \in Inputs, UserInput(c, input) PROVE QuietOK'
    BY <1>1, <2>1 DEF UserInput, vars
  <2>2. CASE Tap(c) \/ Blur(c) \/ Disable(c)
    BY <1>1, <2>2 DEF Tap, Blur, Disable, ReleaseRemoteInput, vars
  <2>3. CASE ConnectClient(c) \/ ReconnectTimerFires(c)
    BY <1>2, <1>3, <2>3 DEF ConnectClient, ReconnectTimerFires, vars
  <2>4. CASE Enable(c) \/ CloseClient(c)
    BY <1>3, <2>4 DEF Enable, CloseClient, vars, netVars
  <2> QED BY <1>4, <2>1, <2>2, <2>3, <2>4 DEF Page
<1>5. ASSUME NEW s \in Sessions, AcceptConnection(s) PROVE QuietOK'
  BY <1>0, <1>5 DEF AcceptConnection, Accept, Goto
<1>6. ASSUME NEW s \in Sessions, SocketCloses(s) PROVE QuietOK'
  BY <1>0, <1>3, <1>6 DEF SocketCloses, vars
<1>7. ASSUME NEW s \in Sessions, Receive(s) PROVE QuietOK'
  <2>1. /\ pc[s] = "open" /\ pc'[s] \in {"open", "handling"}
        /\ \A t \in Sessions \ {s} : pc'[t] = pc[t] /\ wire'[t] = wire[t]
        /\ UNCHANGED ws
    BY <1>0, <1>7 DEF Receive, Handle, Goto, vars
  <2> QED BY <2>1
<1>8. ASSUME NEW s \in Sessions, Lost(s) PROVE QuietOK'
  BY <1>0, <1>8 DEF Lost, Disconnect, Goto
<1>9. ASSUME NEW s \in Sessions, SessionStep(s) PROVE QuietOK'
  <2>1. /\ pc[s] # "closed" /\ (Reads(s) <=> Reads(s)')
        /\ \A t \in Sessions \ {s} : pc'[t] = pc[t]
        /\ UNCHANGED <<ws, wire>>
    BY <1>0, <1>9 DEF SessionStep, TakesEffect, Returns, Fails, ReleaseKey,
                      ReleaseButton, Leave, Goto, netVars
  <2> QED BY <2>1
<1>10. CASE UNCHANGED systemVars
  BY <1>3, <1>10 DEF systemVars, netVars, vars
<1> QED BY <1>4, <1>5, <1>6, <1>7, <1>8, <1>9, <1>10 DEF SystemNext, Connection

-----------------------------------------------------------------------------
LEMMA WillHoldNow ==
  ASSUME TypeOK, PagesOK, NEW s \in Sessions, Reads(s), NEW of \in Held
  PROVE  /\ Expects(s, of) \in BOOLEAN
         /\ WillHold(s, of) = LastSays(wire[s], of, Expects(s, of))
<1>1. Remembers(s, of) \in BOOLEAN
  BY DEF Remembers, TypeOK
<1>2. wire[s] \in Seq(Inputs)
  BY DEF PagesOK
<1>3. CASE pc[s] = "open"
  <2>1. Expects(s, of) = Remembers(s, of)
    BY <1>3 DEF Expects
  <2>2. WillHold(s, of) = LastSays(<<>> \o wire[s], of, Remembers(s, of))
    BY <1>3 DEF WillHold, Unhandled
  <2>3. <<>> \o wire[s] = wire[s]
    BY <1>2
  <2> QED BY <1>1, <2>1, <2>2, <2>3
<1>4. CASE pc[s] # "open"
  <2>1. call[s] \in Inputs
    BY <1>4 DEF Reads, TypeOK
  <2>2. call[s].down \in BOOLEAN
    BY <2>1 DEF Inputs
  <2>3. WillHold(s, of) = LastSays(<<call[s]>> \o wire[s], of, Remembers(s, of))
    BY <1>4 DEF WillHold, Unhandled
  <2>4. WillHold(s, of)
          = LastSays(wire[s], of,
                     IF call[s].of = of THEN call[s].down ELSE Remembers(s, of))
    BY <1>1, <1>2, <2>1, <2>3, LastSaysInHand
  <2> QED BY <1>1, <1>4, <2>2, <2>4 DEF Expects
<1> QED BY <1>3, <1>4

LEMMA WillHoldNext ==
  ASSUME TypeOK', PagesOK', NEW s \in Sessions, Reads(s)', NEW of \in Held
  PROVE  /\ Expects(s, of)' \in BOOLEAN
         /\ WillHold(s, of)' = LastSays(wire'[s], of, Expects(s, of)')
<1>1. Remembers(s, of)' \in BOOLEAN
  BY DEF Remembers, TypeOK
<1>2. wire'[s] \in Seq(Inputs)
  BY DEF PagesOK
<1>3. CASE pc'[s] = "open"
  <2>1. Expects(s, of)' = Remembers(s, of)'
    BY <1>3 DEF Expects
  <2>2. WillHold(s, of)' = LastSays(<<>> \o wire'[s], of, Remembers(s, of)')
    BY <1>3 DEF WillHold, Unhandled, LastSays
  <2>3. <<>> \o wire'[s] = wire'[s]
    BY <1>2
  <2> QED BY <1>1, <2>1, <2>2, <2>3
<1>4. CASE pc'[s] # "open"
  <2>1. call'[s] \in Inputs
    BY <1>4 DEF Reads, TypeOK
  <2>2. call'[s].down \in BOOLEAN
    BY <2>1 DEF Inputs
  <2>3. WillHold(s, of)' = LastSays(<<call'[s]>> \o wire'[s], of, Remembers(s, of)')
    BY <1>4 DEF WillHold, Unhandled, LastSays
  <2>4. WillHold(s, of)'
          = LastSays(wire'[s], of,
                     IF call'[s].of = of THEN call'[s].down ELSE Remembers(s, of)')
    BY <1>1, <1>2, <2>1, <2>3, LastSaysInHand
  <2> QED BY <1>1, <1>4, <2>2, <2>4 DEF Expects
<1> QED BY <1>3, <1>4

-----------------------------------------------------------------------------
HeldIInv == SystemIInv /\ QuietOK /\ \A c \in Clients : FewBehind(c)

LEMMA HeldFinite == IsFiniteSet(Held)
BY ClientAssumption, FS_AddElement DEF Held

(* A step keeps the bound for a page if its session stays the same, and    *)
(* gets ahead of the page by one more key only when a dispatch has failed. *)
LEMMA StaysFew ==
  ASSUME TypeOK, TypeOK', NEW c \in Clients, FewBehind(c),
         socket[c] # None, socket'[c] = socket[c], Reads(socket[c]),
         \/ Behind(socket[c], c)' \subseteq Behind(socket[c], c) /\ failures' = failures
         \/ \E of \in Held :
              /\ Behind(socket[c], c)' \subseteq Behind(socket[c], c) \cup {of}
              /\ failures' = failures + 1
  PROVE  FewBehind(c)'
<1> DEFINE old == Behind(socket[c], c)
           new == Behind(socket[c], c)'
<1>1. failures \in Nat /\ failures' \in Nat
  BY DEF TypeOK
<1>2. IsFiniteSet(old) /\ IsFiniteSet(new)
  BY HeldFinite, FS_Subset DEF Behind
<1>3. Cardinality(old) \in Nat /\ Cardinality(new) \in Nat
  BY <1>2, FS_CardinalityType
<1>4. Cardinality(old) <= failures
  BY DEF FewBehind
<1> HIDE DEF old, new
<1>5. Cardinality(new) <= failures'
  <2>1. CASE new \subseteq old /\ failures' = failures
    <3>1. Cardinality(new) <= Cardinality(old)
      BY <1>2, <2>1, FS_Subset
    <3> QED BY <1>1, <1>3, <1>4, <2>1, <3>1
  <2>2. ASSUME NEW of \in Held, new \subseteq old \cup {of}, failures' = failures + 1
        PROVE  Cardinality(new) <= failures'
    <3>1. /\ IsFiniteSet(old \cup {of})
          /\ Cardinality(old \cup {of}) <= Cardinality(old) + 1
      <4>1. /\ IsFiniteSet(old \cup {of})
            /\ Cardinality(old \cup {of})
                 = IF of \in old THEN Cardinality(old) ELSE Cardinality(old) + 1
        BY <1>2, FS_AddElement
      <4> QED BY <1>3, <4>1
    <3>2. Cardinality(new) <= Cardinality(old \cup {of})
      BY <2>2, <3>1, FS_Subset
    <3>3. Cardinality(old \cup {of}) \in Nat
      BY <3>1, FS_CardinalityType
    <3> QED BY <1>1, <1>3, <1>4, <2>2, <3>1, <3>2, <3>3
  <2> QED BY <2>1, <2>2 DEF old, new
<1> QED BY <1>5 DEF FewBehind, Behind, new

(* The steps of others do not disturb a page and its session.              *)
LEMMA Undisturbed ==
  ASSUME TypeOK, TypeOK', NEW c \in Clients, FewBehind(c),
         socket'[c] \in {None, socket[c]},
         held'[c] = held[c], pointerDown'[c] = pointerDown[c],
         failures' \in {failures, failures + 1},
         socket[c] # None =>
           /\ pc'[socket[c]] = pc[socket[c]] /\ call'[socket[c]] = call[socket[c]]
           /\ keys'[socket[c]] = keys[socket[c]]
           /\ button'[socket[c]] = button[socket[c]]
           /\ wire'[socket[c]] = wire[socket[c]]
  PROVE  FewBehind(c)'
<1> SUFFICES ASSUME socket'[c] # None, Reads(socket[c])'
             PROVE  FewBehind(c)'
  BY DEF FewBehind
<1>1. socket[c] # None /\ socket'[c] = socket[c] /\ Reads(socket[c])
  BY DEF Reads
<1>2. \A of \in Held : WillHold(socket[c], of)' = WillHold(socket[c], of)
  <2>1. Unhandled(socket[c])' = Unhandled(socket[c])
    BY <1>1 DEF Unhandled
  <2>2. ASSUME NEW of \in Held
        PROVE  Remembers(socket[c], of)' = Remembers(socket[c], of)
    BY <1>1 DEF Remembers
  <2> QED BY <2>1, <2>2 DEF WillHold, LastSays
<1>3. \A of \in Held : Holds(c, of)' = Holds(c, of)
  BY DEF Holds
<1>4. Behind(socket[c], c)' = Behind(socket[c], c)
  BY <1>2, <1>3 DEF Behind
<1>5. Mouse \in Held
  BY DEF Held
<1> QED BY <1>1, <1>4, <1>5, StaysFew

-----------------------------------------------------------------------------
(* What a page sends reaches the session it will be held by.               *)
LEMMA SendSays ==
  ASSUME HeldIInv, TypeOK', PagesOK', NEW c \in Clients,
         NEW inputs \in Seq(Inputs), Send(c, inputs), UNCHANGED <<vars, socket>>,
         socket[c] # None, Reads(socket[c]), NEW of \in Held
  PROVE  /\ WillHold(socket[c], of) \in BOOLEAN
         /\ WillHold(socket[c], of)' = LastSays(inputs, of, WillHold(socket[c], of))
<1> DEFINE s == socket[c]
<1>1. s \in Sessions /\ ws[s] = "open"
  BY DEF HeldIInv, SystemIInv, ConnectionInv, SocketsOK, QuietOK, Reads
<1>2. wire[s] \in Seq(Inputs) /\ wire'[s] = wire[s] \o inputs
  BY <1>1 DEF Send, Ready, HeldIInv, SystemIInv, PagesOK
<1>3. TypeOK /\ PagesOK /\ TypeOK' /\ PagesOK'
  BY DEF HeldIInv, SystemIInv
<1>4. Reads(s)' /\ Expects(s, of)' = Expects(s, of)
  BY DEF Reads, vars, Expects, Remembers
<1> HIDE DEF s
<1>5. /\ Expects(s, of) \in BOOLEAN
      /\ WillHold(s, of) = LastSays(wire[s], of, Expects(s, of))
  BY <1>1, <1>3, WillHoldNow DEF s
<1>6. WillHold(s, of)' = LastSays(wire'[s], of, Expects(s, of))
  <2>1. s' = s
    BY DEF s
  <2> QED BY <1>1, <1>3, <1>4, <2>1, WillHoldNext
<1>7. WillHold(s, of) \in BOOLEAN
  BY <1>2, <1>5, LastSaysType
<1>8. LastSays(wire[s] \o inputs, of, Expects(s, of))
        = LastSays(inputs, of, LastSays(wire[s], of, Expects(s, of)))
  BY <1>2, <1>5, LastSaysConcat
<1> QED BY <1>2, <1>5, <1>6, <1>7, <1>8 DEF s

(* And reaches no other page's session.                                    *)
LEMMA SendIsForOne ==
  ASSUME HeldIInv, NEW c \in Clients, NEW inputs, Send(c, inputs),
         NEW d \in Clients \ {c}, socket[d] # None
  PROVE  wire'[socket[d]] = wire[socket[d]]
<1>1. socket[c] # None => socket[c] # socket[d]
  BY DEF HeldIInv, SystemIInv, ConnectionInv, SocketsOK
<1>2. socket[d] \in Sessions
  BY DEF HeldIInv, SystemIInv, ConnectionInv, SocketsOK
<1> QED BY <1>1, <1>2 DEF Send, Ready, HeldIInv, SystemIInv, PagesOK

(* A listener that forwards what it has noted keeps page and session       *)
(* together; so does one that lets go of everything.                       *)
LEMMA SenderStaysFew ==
  ASSUME HeldIInv, TypeOK', PagesOK', NEW c \in Clients,
         NEW inputs \in Seq(Inputs), Send(c, inputs), UNCHANGED <<vars, socket>>,
         \A d \in Clients \ {c} :
           held'[d] = held[d] /\ pointerDown'[d] = pointerDown[d],
         \A of \in Held, before \in BOOLEAN :
           LastSays(inputs, of, before) /\ ~Holds(c, of)' => before /\ ~Holds(c, of)
  PROVE  \A d \in Clients : FewBehind(d)'
<1>1. TypeOK /\ failures' = failures
  BY DEF HeldIInv, SystemIInv, vars
<1>2. ASSUME NEW d \in Clients \ {c} PROVE FewBehind(d)'
  <2>1. socket[d] # None => wire'[socket[d]] = wire[socket[d]]
    BY SendIsForOne
  <2>2. FewBehind(d)
    BY DEF HeldIInv
  <2> QED BY <1>1, <2>1, <2>2, Undisturbed DEF vars
<1>3. ASSUME socket[c] # None, Reads(socket[c]) PROVE FewBehind(c)'
  <2>1. ASSUME NEW of \in Held, WillHold(socket[c], of)', ~Holds(c, of)'
        PROVE  WillHold(socket[c], of) /\ ~Holds(c, of)
    <3>1. /\ WillHold(socket[c], of) \in BOOLEAN
          /\ LastSays(inputs, of, WillHold(socket[c], of))
      BY <1>3, <2>1, SendSays
    <3> QED BY <2>1, <3>1
  <2>2. Behind(socket[c], c)' \subseteq Behind(socket[c], c)
    BY <2>1 DEF Behind
  <2>3. FewBehind(c) /\ socket'[c] = socket[c]
    BY DEF HeldIInv
  <2> QED BY <1>1, <1>3, <2>2, <2>3, StaysFew
<1>4. ASSUME ~(socket[c] # None /\ Reads(socket[c])) PROVE FewBehind(c)'
  <2>1. ~(socket'[c] # None /\ Reads(socket[c])')
    BY <1>4 DEF Reads, vars
  <2> QED BY <2>1 DEF FewBehind
<1> QED BY <1>2, <1>3, <1>4

LEMMA UserStaysFew ==
  ASSUME HeldIInv, TypeOK', PagesOK', NEW c \in Clients, NEW input \in Inputs,
         UserInput(c, input)
  PROVE  \A d \in Clients : FewBehind(d)'
<1>1. /\ <<input>> \in Seq(Inputs) /\ Send(c, <<input>>) /\ UNCHANGED <<vars, socket>>
  BY DEF UserInput, clientVars
<1>2. /\ held \in [Clients -> [Codes -> Names \cup {None}]]
      /\ pointerDown \in [Clients -> BOOLEAN]
  BY DEF HeldIInv, SystemIInv, PagesOK
<1>3. \A d \in Clients \ {c} : held'[d] = held[d] /\ pointerDown'[d] = pointerDown[d]
  BY <1>2 DEF UserInput, Noted
<1>4. ASSUME NEW of \in Held, NEW before \in BOOLEAN,
             LastSays(<<input>>, of, before), ~Holds(c, of)'
      PROVE  before /\ ~Holds(c, of)
  <2>1. IF input.of = of THEN input.down ELSE before
    BY <1>4, LastSaysOne
  <2>2. CASE input.of = of
    <3>1. CASE of = Mouse
      <4>1. pointerDown'[c] = input.down
        BY <1>2, <2>2, <3>1 DEF UserInput, Noted
      <4> QED BY <1>4, <2>1, <2>2, <3>1, <4>1 DEF Holds
    <3>2. CASE of # Mouse
      <4>1. of \in Codes /\ input.name # None
        BY <2>2, <3>2, InputAssumption DEF UserInput, Named, Held
      <4>2. held'[c][of] = input.name
        BY <1>2, <2>1, <2>2, <3>2, <4>1 DEF UserInput, Noted
      <4> QED BY <1>4, <3>2, <4>1, <4>2 DEF Holds
    <3> QED BY <3>1, <3>2
  <2>3. CASE input.of # of
    <3>1. Holds(c, of)' = Holds(c, of)
      <4> DEFINE name == IF input.down THEN input.name ELSE None
      <4>1. IF input.of = Mouse
            THEN pointerDown' = [pointerDown EXCEPT ![c] = input.down] /\ held' = held
            ELSE held' = [held EXCEPT ![c][input.of] = name] /\ pointerDown' = pointerDown
        BY DEF UserInput, Noted
      <4> HIDE DEF name
      <4>2. of = Mouse => pointerDown'[c] = pointerDown[c]
        BY <1>2, <2>3, <4>1
      <4>3. of # Mouse => held'[c][of] = held[c][of]
        BY <1>2, <2>3, <4>1 DEF Held
      <4> QED BY <4>2, <4>3 DEF Holds
    <3> QED BY <1>4, <2>1, <2>3, <3>1
  <2> QED BY <2>2, <2>3
<1> QED BY <1>1, <1>3, <1>4, SenderStaysFew

LEMMA TapStaysFew ==
  ASSUME HeldIInv, TypeOK', PagesOK', NEW c \in Clients, Tap(c)
  PROVE  \A d \in Clients : FewBehind(d)'
<1> DEFINE click == <<MouseInput(TRUE), MouseInput(FALSE)>>
<1>1. click \in Seq(Inputs) /\ Send(c, click) /\ UNCHANGED <<vars, socket>>
  BY TapIsInputs DEF Tap, clientVars
<1>2. UNCHANGED <<held, pointerDown>>
  BY DEF Tap, stateVars
<1>3. ASSUME NEW of \in Held, NEW before \in BOOLEAN, LastSays(click, of, before)
      PROVE  before
  <2>1. DOMAIN click = {1, 2} /\ click[2] = MouseInput(FALSE) /\ click[1] = MouseInput(TRUE)
    OBVIOUS
  <2>2. click[1].of = Mouse /\ click[2].of = Mouse /\ ~click[2].down
    BY <2>1 DEF MouseInput
  <2> HIDE DEF click
  <2>3. CASE of = Mouse
    <3>1. {i \in DOMAIN click : click[i].of = of} = {1, 2}
      BY <2>1, <2>2, <2>3
    <3>2. PICK i \in {1, 2} : click[i].down /\ \A j \in {1, 2} : j <= i
      BY <1>3, <3>1 DEF LastSays
    <3>3. i = 2
      BY <3>2
    <3> QED BY <2>2, <3>2, <3>3
  <2>4. CASE of # Mouse
    <3>1. {i \in DOMAIN click : click[i].of = of} = {}
      BY <2>1, <2>2, <2>4
    <3> QED BY <1>3, <3>1 DEF LastSays
  <2> QED BY <2>3, <2>4
<1>4. \A of \in Held : Holds(c, of)' = Holds(c, of)
  BY <1>2 DEF Holds
<1> HIDE DEF click
<1> QED BY <1>1, <1>2, <1>3, <1>4, SenderStaysFew

LEMMA ReleaseStaysFew ==
  ASSUME HeldIInv, TypeOK', PagesOK', NEW c \in Clients, ReleaseRemoteInput(c),
         UNCHANGED <<vars, socket>>
  PROVE  \A d \in Clients : FewBehind(d)'
<1>1. PICK releases \in Releases(c) : Send(c, releases)
  BY DEF ReleaseRemoteInput
<1>2. PagesOK
  BY DEF HeldIInv, SystemIInv
<1>3. releases \in Seq(Inputs)
  BY <1>2, ReleasesAreInputs
<1>4. \A d \in Clients \ {c} : held'[d] = held[d] /\ pointerDown'[d] = pointerDown[d]
  BY <1>2 DEF ReleaseRemoteInput, PagesOK
<1>5. /\ \A i \in DOMAIN releases : ~releases[i].down
      /\ \A of \in Held : Holds(c, of) => \E i \in DOMAIN releases : releases[i].of = of
  BY <1>2, ReleasesLift DEF Held
<1>6. ASSUME NEW of \in Held, NEW before \in BOOLEAN, LastSays(releases, of, before)
      PROVE  before /\ ~Holds(c, of)
  <2>1. before /\ \A i \in DOMAIN releases : releases[i].of # of
    BY <1>3, <1>5, <1>6, LastSaysUps
  <2> QED BY <1>5, <2>1
<1> QED BY <1>1, <1>3, <1>4, <1>6, SenderStaysFew

(* A socket that is new has nobody at its other end yet; one that is given *)
(* up is not sent on any more.                                             *)
LEMMA SocketsStayFew ==
  ASSUME HeldIInv, TypeOK', NEW c \in Clients, UNCHANGED <<vars, held, pointerDown, wire>>,
         \A d \in Clients \ {c} : socket'[d] = socket[d],
         \/ socket'[c] \in {None, socket[c]}
         \/ \E s \in Sessions : socket'[c] = s /\ pc[s] = "closed"
  PROVE  \A d \in Clients : FewBehind(d)'
<1>1. TypeOK
  BY DEF HeldIInv, SystemIInv
<1>2. ASSUME NEW d \in Clients, socket'[d] \in {None, socket[d]} PROVE FewBehind(d)'
  <2>1. FewBehind(d)
    BY DEF HeldIInv
  <2> QED BY <1>1, <1>2, <2>1, Undisturbed DEF vars
<1>3. ASSUME NEW s \in Sessions, socket'[c] = s, pc[s] = "closed" PROVE FewBehind(c)'
  <2>1. ~Reads(socket[c])'
    BY <1>3 DEF Reads, vars
  <2> QED BY <2>1 DEF FewBehind
<1> QED BY <1>2, <1>3

LEMMA PageStaysFew ==
  ASSUME HeldIInv, TypeOK', PagesOK', NEW c \in Clients, Page(c)
  PROVE  \A d \in Clients : FewBehind(d)'
<1>1. ASSUME NEW input \in Inputs, UserInput(c, input)
      PROVE  \A d \in Clients : FewBehind(d)'
  BY <1>1, UserStaysFew
<1>2. CASE Tap(c)
  BY <1>2, TapStaysFew
<1>3. CASE Blur(c) \/ Disable(c)
  BY <1>3, ReleaseStaysFew DEF Blur, Disable, clientVars
<1>4. CASE Enable(c)
  BY <1>4, SocketsStayFew DEF Enable, clientVars, netVars
<1>5. ASSUME Open(c), UNCHANGED <<vars, held, pointerDown, wire>>
      PROVE  \A d \in Clients : FewBehind(d)'
  <2>1. PICK s \in Sessions : pc[s] = "closed" /\ socket' = [socket EXCEPT ![c] = s]
    BY <1>5 DEF Open
  <2>2. socket \in [Clients -> Sessions \cup {None}]
    BY DEF HeldIInv, SystemIInv, ConnectionInv, SocketsOK
  <2>3. socket'[c] = s /\ \A d \in Clients \ {c} : socket'[d] = socket[d]
    BY <2>1, <2>2
  <2> QED BY <1>5, <2>1, <2>3, SocketsStayFew
<1>6. CASE ConnectClient(c)
  BY <1>5, <1>6 DEF ConnectClient, stateVars
<1>7. CASE ReconnectTimerFires(c)
  <2>1. CASE stopped[c]
    BY <1>7, <2>1, SocketsStayFew DEF ReconnectTimerFires, stateVars
  <2>2. CASE ~stopped[c]
    BY <1>5, <1>7, <2>2 DEF ReconnectTimerFires, stateVars
  <2> QED BY <2>1, <2>2
<1>8. CASE CloseClient(c)
  <2>1. socket \in [Clients -> Sessions \cup {None}]
    BY DEF HeldIInv, SystemIInv, ConnectionInv, SocketsOK
  <2>2. socket'[c] = None /\ \A d \in Clients \ {c} : socket'[d] = socket[d]
    BY <1>8, <2>1 DEF CloseClient
  <2> QED BY <1>8, <2>2, SocketsStayFew DEF CloseClient, stateVars
<1> QED BY <1>1, <1>2, <1>3, <1>4, <1>6, <1>7, <1>8 DEF Page

-----------------------------------------------------------------------------
(* What happens at one connection is nothing to the sessions of others.    *)
LEMMA OthersStayFew ==
  ASSUME HeldIInv, TypeOK', NEW s \in Sessions, NEW c \in Clients, socket[c] # s,
         UNCHANGED <<held, pointerDown, socket>>,
         failures' \in {failures, failures + 1},
         \A t \in Sessions \ {s} :
           /\ pc'[t] = pc[t] /\ call'[t] = call[t]
           /\ keys'[t] = keys[t] /\ button'[t] = button[t]
           /\ wire'[t] = wire[t]
  PROVE  FewBehind(c)'
<1>1. socket[c] # None => socket[c] \in Sessions \ {s}
  BY DEF HeldIInv, SystemIInv, ConnectionInv, SocketsOK
<1>2. TypeOK /\ FewBehind(c)
  BY DEF HeldIInv, SystemIInv
<1> QED BY <1>1, <1>2, Undisturbed

(* The page of a session that will hold what it would have held.           *)
LEMMA SameStaysFew ==
  ASSUME HeldIInv, TypeOK', NEW s \in Sessions, NEW c \in Clients,
         socket[c] = s, Reads(s), UNCHANGED <<held, pointerDown, socket>>,
         NEW E, \A of \in Held \ E : WillHold(s, of)' => WillHold(s, of),
         \/ E = {} /\ failures' = failures
         \/ \E of \in Held : E = {of} /\ failures' = failures + 1
  PROVE  FewBehind(c)'
<1>1. \A of \in Held : Holds(c, of)' = Holds(c, of)
  BY DEF Holds
<1>2. Behind(s, c)' \subseteq Behind(s, c) \cup E
  BY <1>1 DEF Behind
<1>3. Behind(socket[c], c)' = Behind(s, c)'
  <2>1. socket'[c] = s
    OBVIOUS
  <2>2. Unhandled(socket[c])' = Unhandled(s)'
    BY <2>1 DEF Unhandled
  <2>3. \A of \in Held : Remembers(socket[c], of)' = Remembers(s, of)'
    BY <2>1 DEF Remembers
  <2>4. \A of \in Held : WillHold(socket[c], of)' <=> WillHold(s, of)'
    BY <2>2, <2>3 DEF WillHold, LastSays
  <2> QED BY <2>4 DEF Behind
<1>4. Behind(socket[c], c) = Behind(s, c)
  OBVIOUS
<1>5. TypeOK /\ FewBehind(c) /\ socket'[c] = socket[c] /\ socket[c] # None
  BY ClientAssumption DEF HeldIInv, SystemIInv
<1> QED BY <1>2, <1>3, <1>4, <1>5, StaysFew

LEMMA AcceptStaysFew ==
  ASSUME HeldIInv, TypeOK', PagesOK', NEW s \in Sessions, AcceptConnection(s),
         NEW c \in Clients
  PROVE  FewBehind(c)'
<1>1. /\ TypeOK
      /\ pc' = [pc EXCEPT ![s] = "open"] /\ pc[s] = "closed"
      /\ keys' = [keys EXCEPT ![s] = [k \in Codes |-> None]]
      /\ button' = [button EXCEPT ![s] = FALSE]
      /\ UNCHANGED <<call, failures, held, pointerDown, socket, wire>>
  BY DEF AcceptConnection, Accept, Goto, stateVars, clientVars, HeldIInv, SystemIInv
<1>2. CASE socket[c] # s
  BY <1>1, <1>2, OthersStayFew DEF TypeOK
<1>3. CASE socket[c] = s
  <2>1. wire'[s] = <<>> /\ pc'[s] = "open"
    BY <1>1 DEF HeldIInv, QuietOK, Reads, TypeOK
  <2>2. ASSUME NEW of \in Held PROVE ~WillHold(s, of)'
    <3>1. Reads(s)'
      BY <2>1 DEF Reads
    <3>2. WillHold(s, of)' = LastSays(<<>>, of, Expects(s, of)')
      BY <2>1, <3>1, WillHoldNext
    <3>3. ~Expects(s, of)'
      BY <1>1, <2>1 DEF Expects, Remembers, TypeOK, Held
    <3> QED BY <3>2, <3>3, LastSaysNothing
  <2>3. Behind(s, c)' = {}
    BY <2>2 DEF Behind
  <2>4. socket'[c] = s /\ failures' \in Nat
    BY <1>1, <1>3 DEF TypeOK
  <2> HIDE DEF Held
  <2>5. Cardinality(Behind(s, c)') = 0
    BY <2>3, FS_EmptySet
  <2>6. Behind(socket[c], c)' = Behind(s, c)'
    BY <2>4 DEF Behind, WillHold, Unhandled, LastSays, Remembers
  <2> QED BY <2>4, <2>5, <2>6 DEF FewBehind
<1> QED BY <1>2, <1>3

(* Reading an input, wanted or not, changes nothing about what the session *)
(* will have been told in the end.                                         *)
LEMMA ReceiveStaysFew ==
  ASSUME HeldIInv, TypeOK', PagesOK', NEW s \in Sessions, Receive(s), NEW c \in Clients
  PROVE  FewBehind(c)'
<1> DEFINE first == Head(wire[s])
           rest == Tail(wire[s])
<1>1. /\ TypeOK /\ PagesOK
      /\ pc[s] = "open" /\ wire[s] # <<>> /\ wire' = [wire EXCEPT ![s] = rest]
      /\ UNCHANGED <<failures, held, pointerDown, socket, keys, button>>
  BY DEF Receive, Handle, vars, stateVars, clientVars, HeldIInv, SystemIInv
<1>2. \/ Wanted(s, first) /\ call' = [call EXCEPT ![s] = first]
                          /\ pc' = [pc EXCEPT ![s] = "handling"]
      \/ ~Wanted(s, first) /\ UNCHANGED <<pc, call>>
  BY DEF Receive, Handle, Goto, vars
<1>3. /\ first \in Inputs /\ rest \in Seq(Inputs)
      /\ wire[s] = <<first>> \o rest /\ wire'[s] = rest
  BY <1>1 DEF PagesOK
<1> HIDE DEF first, rest
<1>4. CASE socket[c] # s
  BY <1>1, <1>2, <1>4, OthersStayFew DEF TypeOK, PagesOK
<1>5. CASE socket[c] = s
  <2>1. Reads(s) /\ Reads(s)'
    BY <1>1, <1>2 DEF Reads, TypeOK
  <2>2. ASSUME NEW of \in Held PROVE WillHold(s, of)' = WillHold(s, of)
    <3>1. /\ Expects(s, of) \in BOOLEAN
          /\ WillHold(s, of) = LastSays(<<first>> \o rest, of, Expects(s, of))
      BY <1>1, <1>3, <2>1, WillHoldNow
    <3>2. WillHold(s, of)
            = LastSays(rest, of, IF first.of = of THEN first.down ELSE Expects(s, of))
      BY <1>3, <3>1, LastSaysInHand
    <3>3. WillHold(s, of)' = LastSays(rest, of, Expects(s, of)')
      BY <1>3, <2>1, WillHoldNext
    <3>4. Expects(s, of)' = IF first.of = of THEN first.down ELSE Expects(s, of)
      <4>1. Expects(s, of) = Remembers(s, of) /\ Remembers(s, of)' = Remembers(s, of)
        BY <1>1 DEF Expects, Remembers
      <4>2. CASE Wanted(s, first)
        <5>1. pc'[s] = "handling" /\ call'[s] = first
          BY <1>1, <1>2, <4>2 DEF TypeOK
        <5> QED BY <4>1, <5>1 DEF Expects
      <4>3. CASE ~Wanted(s, first)
        <5>1. Expects(s, of)' = Remembers(s, of)
          BY <1>1, <1>2, <4>1, <4>3 DEF Expects
        <5>2. first.down = Remembers(s, first.of)
          <6>1. first.down \in BOOLEAN /\ first.of \in Held
            BY <1>3 DEF Inputs, Held
          <6>2. Remembers(s, first.of) \in BOOLEAN
            BY <1>1, <6>1 DEF Remembers, TypeOK, Held
          <6> QED BY <4>3, <6>1, <6>2 DEF Wanted
        <5> QED BY <4>1, <5>1, <5>2
      <4> QED BY <4>2, <4>3
    <3> QED BY <3>2, <3>3, <3>4
  <2> QED BY <1>1, <1>5, <2>1, <2>2, SameStaysFew
<1> QED BY <1>4, <1>5

(* A call that returns is remembered; one that fails leaves the session    *)
(* with one key it should have lifted, at most.                            *)
LEMMA SessionStaysFew ==
  ASSUME HeldIInv, TypeOK', PagesOK', NEW s \in Sessions, SessionStep(s),
         NEW c \in Clients
  PROVE  FewBehind(c)'
<1>1. /\ TypeOK /\ SessionsOK /\ PagesOK
      /\ UNCHANGED <<held, pointerDown, socket, wire>>
  BY DEF SessionStep, stateVars, clientVars, netVars, HeldIInv, SystemIInv
<1>2. /\ failures' \in {failures, failures + 1}
      /\ \A t \in Sessions \ {s} :
           /\ pc'[t] = pc[t] /\ call'[t] = call[t]
           /\ keys'[t] = keys[t] /\ button'[t] = button[t]
  BY <1>1 DEF TypeOK, SessionStep, TakesEffect, Returns, Recorded, Fails, ReleaseKey,
              ReleaseButton, Leave, Goto, Done
<1>3. CASE socket[c] # s
  BY <1>1, <1>2, <1>3, OthersStayFew
<1>4. CASE socket[c] = s /\ ~Reads(s)
  <2>1. ~Reads(s)'
    BY <1>1, <1>4 DEF Reads, TypeOK, SessionStep, TakesEffect, Returns, Fails,
                      ReleaseKey, ReleaseButton, Leave, Goto
  <2>2. socket'[c] = s
    BY <1>1, <1>4
  <2> QED BY <2>1, <2>2 DEF FewBehind, Reads
<1>5. CASE socket[c] = s /\ Reads(s)
  <2>1. Reads(s)' /\ pc[s] \in {"handling", "handled"} /\ call[s] \in Inputs
    BY <1>1, <1>5 DEF Reads, TypeOK, SessionStep, TakesEffect, Returns, Fails,
                      ReleaseKey, ReleaseButton, Leave, Goto
  <2>2. ASSUME NEW of \in Held
        PROVE  /\ WillHold(s, of) = LastSays(wire[s], of, Expects(s, of))
               /\ WillHold(s, of)' = LastSays(wire[s], of, Expects(s, of)')
    BY <1>1, <1>5, <2>1, WillHoldNow, WillHoldNext
  <2>3. ASSUME TakesEffect(s) \/ Returns(s) PROVE FewBehind(c)'
    <3>1. ASSUME NEW of \in Held PROVE Expects(s, of)' = Expects(s, of)
      <4>1. CASE TakesEffect(s)
        BY <1>1, <2>1, <4>1 DEF TypeOK, TakesEffect, Goto, Expects, Remembers
      <4>2. CASE Returns(s)
        <5>1. pc[s] # "open" /\ pc'[s] = "open" /\ Recorded(s, call[s])
          BY <1>1, <4>2 DEF TypeOK, Returns, Goto
        <5>2. Named(call[s]) /\ call[s].down \in BOOLEAN /\ call[s].of \in Held
          BY <1>1, <2>1 DEF SessionsOK, Inputs, Held
        <5>3. Remembers(s, of)'
                = IF call[s].of = of THEN call[s].down ELSE Remembers(s, of)
          <6>1. CASE call[s].of = Mouse
            BY <1>1, <5>1, <5>2, <6>1 DEF Recorded, Remembers, TypeOK
          <6>2. CASE call[s].of # Mouse
            <7> DEFINE name == IF call[s].down THEN call[s].name ELSE None
            <7>1. keys' = [keys EXCEPT ![s][call[s].of] = name] /\ UNCHANGED button
              BY <5>1, <6>2 DEF Recorded
            <7>2. call[s].of \in Codes /\ (name # None <=> call[s].down)
              BY <5>2, <6>2, InputAssumption DEF Named, Held
            <7> HIDE DEF name
            <7> QED BY <1>1, <5>2, <6>2, <7>1, <7>2 DEF Remembers, TypeOK, Held
          <6> QED BY <6>1, <6>2
        <5> QED BY <5>1, <5>3 DEF Expects
      <4> QED BY <2>3, <4>1, <4>2
    <3>2. \A of \in Held : WillHold(s, of)' => WillHold(s, of)
      BY <2>2, <3>1
    <3>3. failures' = failures
      BY <2>3 DEF TakesEffect, Returns
    <3> QED BY <1>1, <1>5, <3>2, <3>3, SameStaysFew
  <2>4. ASSUME Fails(s) PROVE FewBehind(c)'
    <3>1. ASSUME NEW of \in Held \ {call[s].of} PROVE Expects(s, of)' = Expects(s, of)
      BY <1>1, <2>1, <2>4 DEF TypeOK, Fails, Goto, Expects, Remembers
    <3>2. \A of \in Held \ {call[s].of} : WillHold(s, of)' => WillHold(s, of)
      BY <2>2, <3>1
    <3>3. failures' = failures + 1 /\ call[s].of \in Held
      BY <2>1, <2>4 DEF Fails, Inputs, Held
    <3> QED BY <1>1, <1>5, <3>2, <3>3, SameStaysFew
  <2> QED BY <2>1, <2>3, <2>4 DEF SessionStep, ReleaseKey, ReleaseButton, Leave
<1> QED BY <1>3, <1>4, <1>5

LEMMA ConnectionStaysFew ==
  ASSUME HeldIInv, TypeOK', PagesOK', NEW s \in Sessions, Connection(s),
         NEW c \in Clients
  PROVE  FewBehind(c)'
<1>1. CASE SocketCloses(s)
  <2>1. owner[s] \in Clients /\ socket \in [Clients -> Sessions \cup {None}]
    BY DEF HeldIInv, SystemIInv, ConnectionInv, SocketsOK
  <2>2. /\ \A d \in Clients \ {owner[s]} : socket'[d] = socket[d]
        /\ socket'[owner[s]] \in {None, socket[owner[s]]}
    BY <1>1, <2>1 DEF SocketCloses, OnClose
  <2>3. UNCHANGED <<vars, held, pointerDown, wire>>
    BY <1>1 DEF SocketCloses, stateVars
  <2> QED BY <2>1, <2>2, <2>3, SocketsStayFew
<1>2. CASE Lost(s)
  <2>1. /\ pc[s] = "open" /\ pc' = [pc EXCEPT ![s] = "leaving"]
        /\ wire' = [wire EXCEPT ![s] = <<>>]
        /\ UNCHANGED <<keys, button, call, failures, held, pointerDown, socket>>
    BY <1>2 DEF Lost, Disconnect, Goto, stateVars, clientVars
  <2>2. CASE socket[c] # s
    BY <2>1, <2>2, OthersStayFew DEF HeldIInv, SystemIInv, TypeOK, PagesOK
  <2>3. CASE socket[c] = s
    BY <2>1, <2>3 DEF FewBehind, Reads, HeldIInv, SystemIInv, TypeOK
  <2> QED BY <2>2, <2>3
<1> QED BY <1>1, <1>2, AcceptStaysFew, ReceiveStaysFew, SessionStaysFew
        DEF Connection

LEMMA StepHeldIInv ==
  ASSUME HeldIInv, [SystemNext]_systemVars
  PROVE  HeldIInv'
<1>1. SystemIInv' /\ TypeOK' /\ PagesOK'
  BY StepSystemIInv DEF HeldIInv, SystemIInv
<1>2. QuietOK'
  BY StepKeepsQuiet DEF HeldIInv
<1>3. ASSUME NEW c \in Clients PROVE FewBehind(c)'
  <2>1. CASE UNCHANGED systemVars
    <3>1. TypeOK /\ FewBehind(c)
      BY DEF HeldIInv, SystemIInv
    <3> QED BY <1>1, <2>1, <3>1, Undisturbed
            DEF systemVars, vars, stateVars, clientVars, netVars
  <2> QED BY <1>1, <2>1, PageStaysFew, ConnectionStaysFew DEF SystemNext
<1> QED BY <1>1, <1>2, <1>3 DEF HeldIInv

LEMMA InitHeldIInv == SystemInit => HeldIInv
<1> SUFFICES ASSUME SystemInit PROVE HeldIInv
  OBVIOUS
<1>1. SystemIInv
  BY InitSystemIInv
<1>2. QuietOK
  BY DEF SystemInit, Init, QuietOK, Reads
<1>3. \A c \in Clients : FewBehind(c)
  BY DEF SystemInit, FewBehind
<1> QED BY <1>1, <1>2, <1>3 DEF HeldIInv

(* input_ws.go, input.mjs: whatever connections come, break and lose what  *)
(* was on them, a session holds nothing its viewer does not, one key for   *)
(* each failed dispatch excepted.                                          *)
THEOREM PageAndSessionAgree == SystemSpec => []NothingHeldBehindTheUser
<1>1. HeldIInv => NothingHeldBehindTheUser
  BY DEF HeldIInv, FewBehind, Behind, Held, NothingHeldBehindTheUser
<1> QED BY <1>1, InitHeldIInv, StepHeldIInv, PTL DEF SystemSpec
=============================================================================
