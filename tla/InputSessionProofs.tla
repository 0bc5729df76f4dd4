-------------------------- MODULE InputSessionProofs --------------------------
(***************************************************************************)
(* Theorems about InputSession, for any number of sessions, keys and       *)
(* failing calls.  StraysComeFromFailures is not inductive: a session that *)
(* has lifted a key still remembers it until dispatch returns, and hides   *)
(* what another session's failed call has pressed again meanwhile.  Loose  *)
(* takes that pretence away: it grows only in the step of a failure.       *)
(* What a release under another name has left down (renamed) is set apart. *)
(***************************************************************************)
EXTENDS InputSession, FiniteSetTheorems, TLAPS

(* A release has taken effect and is not recorded yet.                     *)
Lifted(s, of) == pc[s] = "handled" /\ ~call[s].down /\ call[s].of = of

HoldsKey(s, x) ==
  \E k \in Codes :
    keys[s][k] # None /\ X11Key(k, keys[s][k]) = x /\ ~Lifted(s, k)

HoldsButton(s, x) == x = Mouse /\ button[s] /\ ~Lifted(s, Mouse)

Accounts(s, x) == HoldsKey(s, x) \/ HoldsButton(s, x) \/ Underway(s, x)

Loose == {x \in pressed \ renamed : \A s \in Sessions : ~Accounts(s, x)}

(* What sessions remember belongs to what they are doing.                  *)
SessionsOK ==
  /\ \A s \in Sessions :
       pc[s] \in {"handling", "handled", "releasing"} => Named(call[s])
  /\ \A s \in Sessions :
       pc[s] \in {"handling", "handled"} => Wanted(s, call[s])
  /\ \A s \in Sessions : pc[s] = "releasing" => ~call[s].down
  /\ \A s \in Sessions :
       pc[s] = "closed" => ~button[s] /\ \A k \in Codes : keys[s][k] = None
  /\ \A s \in Sessions, k \in Codes : keys[s][k] # None => keys[s][k] \in NamesOf[k]

LooseBounded == IsFiniteSet(pressed) /\ Cardinality(Loose) <= failures

IInv == TypeOK /\ SessionsOK /\ LooseBounded

-----------------------------------------------------------------------------
(* What a call presses or lifts is a symbol.                               *)
LEMMA CallSymbol ==
  ASSUME NEW input \in Inputs, Named(input)
  PROVE  Symbol(input) \in XSymbols
BY InputAssumption DEF Named, Symbol, X11Key, XSymbols, Inputs

(* The actions keep the types.                                             *)
LEMMA ServeType ==
  ASSUME TypeOK, SessionsOK, NEW s \in Sessions, Serve(s)
  PROVE  TypeOK' /\ SessionsOK'
<1> USE InputAssumption DEF TypeOK, SessionsOK, Goto, Named, Wanted, Remembers
<1>1. ASSUME NEW input \in Inputs, Handle(s, input) PROVE TypeOK' /\ SessionsOK'
  BY <1>1 DEF Handle
<1>2. CASE TakesEffect(s)
  <2>1. call[s] \in Inputs
    BY <1>2 DEF TakesEffect
  <2>2. pressed' \subseteq XSymbols
    <3>1. Symbol(call[s]) \in XSymbols
      BY <1>2, <2>1, CallSymbol DEF TakesEffect
    <3> QED BY <1>2, <3>1 DEF TakesEffect, Effect
  <2>3. renamed' \subseteq pressed'
    BY <1>2 DEF TakesEffect
  <2>4. CASE pc[s] = "handling"
    <3>1. pc' = [pc EXCEPT ![s] = "handled"]
      BY <1>2, <2>4 DEF TakesEffect
    <3>2. UNCHANGED <<keys, button, call, failures>>
      BY <1>2, <2>4 DEF TakesEffect
    <3>3. TypeOK'
      BY <2>1, <2>2, <2>4, <2>3, <3>1, <3>2
    <3>4. SessionsOK'
      BY <2>4, <3>1, <3>2
    <3> QED BY <3>3, <3>4
  <2>5. CASE pc[s] = "releasing"
    <3>1. pc' = [pc EXCEPT ![s] = "leaving"] /\ call' = [call EXCEPT ![s] = None]
      BY <1>2, <2>5 DEF TakesEffect, Done
    <3>2. UNCHANGED <<keys, button, failures>>
      BY <1>2 DEF TakesEffect
    <3>3. TypeOK'
      BY <2>2, <2>3, <3>1, <3>2
    <3>4. SessionsOK'
      BY <3>1, <3>2
    <3> QED BY <3>3, <3>4
  <2> QED BY <1>2, <2>4, <2>5 DEF TakesEffect
<1>3. CASE Returns(s)
  <2>1. call[s] \in Inputs /\ Named(call[s])
    BY <1>3 DEF Returns
  <2>2. CASE call[s].of = Mouse
    <3>1. call[s].down \in BOOLEAN
      BY <2>1 DEF Inputs
    <3>2. /\ button' = [button EXCEPT ![s] = call[s].down]
          /\ UNCHANGED <<keys, pressed, renamed, failures>>
      BY <1>3, <2>2 DEF Returns, Recorded
    <3>3. pc' = [pc EXCEPT ![s] = "open"] /\ call' = [call EXCEPT ![s] = None]
      BY <1>3 DEF Returns, Done
    <3>4. TypeOK'
      BY <3>1, <3>2, <3>3
    <3>5. SessionsOK'
      BY <3>2, <3>3
    <3> QED BY <3>4, <3>5
  <2>3. CASE call[s].of # Mouse
    <3>1. call[s].of \in Codes /\ call[s].name \in NamesOf[call[s].of]
      BY <2>1, <2>3 DEF Inputs
    <3>2. keys' = [keys EXCEPT ![s][call[s].of] =
                     IF call[s].down THEN call[s].name ELSE None]
      BY <1>3, <2>3 DEF Returns, Recorded
    <3>3. UNCHANGED <<button, pressed, renamed, failures>>
      BY <1>3, <2>3 DEF Returns, Recorded
    <3>4. pc' = [pc EXCEPT ![s] = "open"] /\ call' = [call EXCEPT ![s] = None]
      BY <1>3 DEF Returns, Done
    <3>5. keys' \in [Sessions -> [Codes -> Names \cup {None}]]
      BY <3>1, <3>2
    <3>6. \A t \in Sessions, k \in Codes :
            keys'[t][k] # None => keys'[t][k] \in NamesOf[k]
      BY <3>1, <3>2
    <3>7. \A t \in Sessions \ {s} : keys'[t] = keys[t]
      BY <3>2
    <3>8. TypeOK'
      <4>1. \A t \in Sessions : pc'[t] = "handling" =>
              pc[t] = "handling" /\ call'[t] = call[t] /\ keys'[t] = keys[t]
        BY <3>4, <3>7
      <4>2. call' \in [Sessions -> Inputs \cup {None}]
        BY <3>4
      <4> QED BY <3>3, <3>4, <3>5, <4>1, <4>2
    <3>9. SessionsOK'
      BY <3>3, <3>4, <3>6, <3>7
    <3> QED BY <3>8, <3>9
  <2> QED BY <2>2, <2>3
<1>4. CASE Fails(s)
  <2>1. call[s] \in Inputs
    BY <1>4 DEF Fails
  <2>2. pressed' \subseteq XSymbols
    <3>1. Symbol(call[s]) \in XSymbols
      BY <1>4, <2>1, CallSymbol DEF Fails
    <3> QED BY <1>4, <3>1 DEF Fails, Effect
  <2> QED BY <1>4, <2>1, <2>2 DEF Fails, Done
<1> QED BY <1>1, <1>2, <1>3, <1>4 DEF Serve

LEMMA DepartType ==
  ASSUME TypeOK, SessionsOK, NEW s \in Sessions, Depart(s)
  PROVE  TypeOK' /\ SessionsOK'
<1> USE InputAssumption DEF TypeOK, SessionsOK, Goto, Named, Wanted, Remembers
<1>1. CASE Disconnect(s)
  BY <1>1 DEF Disconnect
<1>2. ASSUME NEW k \in Codes, ReleaseKey(s, k) PROVE TypeOK' /\ SessionsOK'
  <2>1. /\ keys[s][k] \in Names
        /\ [down |-> FALSE, of |-> k, name |-> keys[s][k]] \in Inputs
    BY <1>2 DEF ReleaseKey, KeysLeft, Inputs
  <2> QED BY <1>2, <2>1 DEF ReleaseKey, KeysLeft
<1>3. CASE ReleaseButton(s)
  <2>1. [down |-> FALSE, of |-> Mouse, name |-> None] \in Inputs
    BY DEF Inputs
  <2>2. call' \in [Sessions -> Inputs \cup {None}] /\ call'[s] \in Inputs
    BY <1>3, <2>1 DEF ReleaseButton
  <2> DEFINE release == [down |-> FALSE, of |-> Mouse, name |-> None]
  <2>5. /\ call' = [call EXCEPT ![s] = release]
        /\ pc' = [pc EXCEPT ![s] = "releasing"]
        /\ button' = [button EXCEPT ![s] = FALSE]
        /\ UNCHANGED <<pressed, renamed, keys, failures>>
    BY <1>3 DEF ReleaseButton
  <2> HIDE DEF release
  <2>6. \A t \in Sessions :
          pc'[t] = "handling" => pc[t] = "handling" /\ t # s
    BY <2>5
  <2>3. TypeOK'
    BY <2>2, <2>5, <2>6
  <2>4. SessionsOK'
    BY <1>3 DEF ReleaseButton
  <2> QED BY <2>3, <2>4
<1>4. CASE Leave(s)
  BY <1>4 DEF Leave, KeysLeft, ButtonGoesUp
<1>5. CASE Accept(s)
  BY <1>5 DEF Accept
<1> QED BY <1>1, <1>2, <1>3, <1>4, <1>5 DEF Depart

-----------------------------------------------------------------------------
(* A step of s makes nothing loose if whatever stays pressed stays         *)
(* accounted for by s, and whatever is pressed anew becomes so.            *)
LEMMA NoNewLoose ==
  ASSUME NEW s \in Sessions, NEW E,
         \A t \in Sessions \ {s} :
           /\ keys'[t] = keys[t] /\ button'[t] = button[t]
           /\ pc'[t] = pc[t] /\ call'[t] = call[t],
         renamed \cap pressed' \subseteq renamed',
         \A x \in (pressed' \ renamed') \ E : x \in pressed \/ Accounts(s, x)',
         \A x \in (pressed' \ renamed') \ E : Accounts(s, x) => Accounts(s, x)'
  PROVE  Loose' \subseteq Loose \cup E
<1> SUFFICES ASSUME NEW x \in Loose', x \notin E PROVE x \in Loose
  OBVIOUS
<1>1. x \in pressed' \ renamed' /\ \A t \in Sessions : ~Accounts(t, x)'
  BY DEF Loose
<1>2. x \in pressed \ renamed /\ ~Accounts(s, x)
  BY <1>1
<1>3. ASSUME NEW t \in Sessions \ {s} PROVE ~Accounts(t, x)
  <2>1. Accounts(t, x) <=> Accounts(t, x)'
    BY DEF Accounts, HoldsKey, HoldsButton, Underway, Lifted
  <2> QED BY <1>1, <2>1
<1> QED BY <1>2, <1>3 DEF Loose

(* handle: a press is accounted for from its effect on, a release is no    *)
(* longer; what it leaves down, since its name has changed, is set apart.  *)
LEMMA ServeKeeps ==
  ASSUME TypeOK, SessionsOK, NEW s \in Sessions, NEW x \in pressed' \ renamed',
         \/ \E input \in Inputs : Handle(s, input)
         \/ TakesEffect(s) \/ Returns(s)
  PROVE  /\ x \in pressed \/ Accounts(s, x)'
         /\ Accounts(s, x) => Accounts(s, x)'
<1> USE InputAssumption
<1> DEFINE Kept == /\ x \in pressed \/ Accounts(s, x)'
                   /\ Accounts(s, x) => Accounts(s, x)'
<1>1. ASSUME NEW input \in Inputs, Handle(s, input) PROVE Kept
  BY <1>1 DEF Handle, Goto, TypeOK, Accounts, HoldsKey, HoldsButton, Underway, Lifted
<1>2. CASE TakesEffect(s) /\ pc[s] = "handling" /\ call[s].down
  <2>1. /\ pressed' = pressed \cup {Symbol(call[s])} /\ pc'[s] = "handled"
        /\ UNCHANGED <<call, keys, button>>
    BY <1>2 DEF TakesEffect, Effect, Goto, TypeOK
  <2>2. x \in pressed \/ Underway(s, x)'
    BY <1>2, <2>1 DEF Underway, Symbol
  <2>3. HoldsKey(s, x) => HoldsKey(s, x)'
    BY <1>2, <2>1 DEF HoldsKey, Lifted
  <2>4. HoldsButton(s, x) => HoldsButton(s, x)'
    BY <1>2, <2>1 DEF HoldsButton, Lifted
  <2>5. ~Underway(s, x)
    BY <1>2 DEF Underway
  <2> QED BY <2>2, <2>3, <2>4, <2>5 DEF Accounts
<1>3. CASE TakesEffect(s) /\ pc[s] = "handling" /\ ~call[s].down
  <2>1. pressed' = pressed \ {Symbol(call[s])}
    BY <1>3 DEF TakesEffect, Effect
  <2>2. /\ pc'[s] = "handled"
        /\ UNCHANGED <<call, keys, button>>
    BY <1>3 DEF TakesEffect, Goto, TypeOK
  <2>3. Named(call[s]) /\ call[s] \in Inputs
    BY <1>3 DEF SessionsOK, TypeOK
  <2>4. ASSUME HoldsKey(s, x) PROVE HoldsKey(s, x)'
    <3>1. PICK k \in Codes : keys[s][k] # None /\ X11Key(k, keys[s][k]) = x
      BY <2>4 DEF HoldsKey
    <3>2. ASSUME call[s].of = k PROVE FALSE
      <4>1. x \in LeftDown(s)
        BY <1>3, <3>1, <3>2 DEF LeftDown
      <4> QED BY <1>3, <4>1 DEF TakesEffect
    <3> QED BY <2>2, <3>1, <3>2 DEF HoldsKey, Lifted
  <2>5. HoldsButton(s, x) => HoldsButton(s, x)'
    BY <2>1, <2>2 DEF HoldsButton, Lifted, Symbol
  <2>6. ~Underway(s, x)
    BY <1>3 DEF Underway
  <2> QED BY <2>1, <2>4, <2>5, <2>6 DEF Accounts
<1>4. CASE TakesEffect(s) /\ pc[s] = "releasing"
  <2>1. pressed' = pressed \ {Symbol(call[s])}
    BY <1>4 DEF TakesEffect, Effect, SessionsOK
  <2>2. pc'[s] = "leaving" /\ UNCHANGED <<keys, button>>
    BY <1>4 DEF TakesEffect, Goto, TypeOK
  <2>3. HoldsKey(s, x) => HoldsKey(s, x)'
    BY <2>2 DEF HoldsKey, Lifted
  <2>4. HoldsButton(s, x) => HoldsButton(s, x)'
    BY <2>2 DEF HoldsButton, Lifted
  <2>5. ~Underway(s, x)
    BY <2>1 DEF Underway
  <2> QED BY <2>1, <2>3, <2>4, <2>5 DEF Accounts
<1>5. CASE Returns(s)
  <2>1. /\ pc[s] = "handled" /\ pc'[s] = "open" /\ pressed' = pressed
        /\ Recorded(s, call[s])
    BY <1>5 DEF Returns, Goto, TypeOK
  <2>2. call[s] \in Inputs /\ Named(call[s]) /\ Wanted(s, call[s])
    BY <2>1 DEF SessionsOK, TypeOK
  <2>3. CASE call[s].of = Mouse
    <3>1. button'[s] = call[s].down /\ keys' = keys
      BY <2>1, <2>3 DEF Recorded, TypeOK
    <3>2. HoldsKey(s, x) => HoldsKey(s, x)'
      BY <2>1, <3>1 DEF HoldsKey, Lifted
    <3>3. HoldsButton(s, x) => HoldsButton(s, x)'
      BY <2>1, <2>2, <2>3, <3>1 DEF HoldsButton, Lifted, Wanted, Remembers
    <3>4. Underway(s, x) => HoldsButton(s, x)'
      BY <2>1, <2>3, <3>1 DEF Underway, Symbol, HoldsButton, Lifted
    <3> QED BY <2>1, <3>2, <3>3, <3>4 DEF Accounts
  <2>4. CASE call[s].of # Mouse
    <3> DEFINE k == call[s].of
    <3>1. k \in Codes /\ call[s].name \in NamesOf[k] /\ call[s].name # None
      BY <2>2, <2>4 DEF Named, Inputs
    <3>2. /\ button' = button
          /\ keys'[s][k] = IF call[s].down THEN call[s].name ELSE None
          /\ \A j \in Codes \ {k} : keys'[s][j] = keys[s][j]
      BY <2>1, <2>4, <3>1 DEF Recorded, TypeOK
    <3>3. call[s].down => keys[s][k] = None
      BY <2>2, <2>4 DEF Wanted, Remembers
    <3>4. HoldsKey(s, x) => HoldsKey(s, x)'
      BY <2>1, <3>1, <3>2, <3>3 DEF HoldsKey, Lifted
    <3>5. HoldsButton(s, x) => HoldsButton(s, x)'
      BY <2>1, <3>2 DEF HoldsButton, Lifted
    <3>6. Underway(s, x) => HoldsKey(s, x)'
      BY <2>1, <2>4, <3>1, <3>2 DEF Underway, Symbol, HoldsKey, Lifted
    <3> QED BY <2>1, <3>4, <3>5, <3>6 DEF Accounts
  <2> QED BY <2>3, <2>4
<1>6. TakesEffect(s) => pc[s] \in {"handling", "releasing"}
  BY DEF TakesEffect
<1> QED BY <1>1, <1>2, <1>3, <1>4, <1>5, <1>6

(* releaseAll accounts for what it forgets while it releases it.           *)
LEMMA DepartKeeps ==
  ASSUME TypeOK, SessionsOK, NEW s \in Sessions, NEW x \in pressed', Depart(s)
  PROVE  /\ x \in pressed
         /\ Accounts(s, x) => Accounts(s, x)'
<1> USE InputAssumption
<1>1. UNCHANGED pressed
  BY DEF Depart, Disconnect, ReleaseKey, ReleaseButton, Leave, Accept
<1>2. ASSUME Disconnect(s) \/ Leave(s) PROVE Accounts(s, x) => Accounts(s, x)'
  <2>1. pc[s] \in {"open", "leaving"} /\ UNCHANGED <<keys, button>>
    BY <1>2 DEF Disconnect, Leave
  <2>2. pc'[s] \in {"leaving", "closed"}
    BY <1>2 DEF Disconnect, Leave, Goto, TypeOK
  <2> QED BY <2>1, <2>2 DEF Accounts, HoldsKey, HoldsButton, Underway, Lifted
<1>3. ASSUME NEW k \in Codes, ReleaseKey(s, k)
      PROVE  Accounts(s, x) => Accounts(s, x)'
  <2> DEFINE release == [down |-> FALSE, of |-> k, name |-> keys[s][k]]
  <2>1. /\ pc[s] = "leaving" /\ pc'[s] = "releasing" /\ button' = button
        /\ call'[s] = release
        /\ \A j \in Codes \ {k} : keys'[s][j] = keys[s][j]
    BY <1>3 DEF ReleaseKey, Goto, TypeOK
  <2>2. Symbol(release) = X11Key(k, keys[s][k])
    BY DEF Symbol
  <2>3. HoldsKey(s, x) => HoldsKey(s, x)' \/ Underway(s, x)'
    BY <2>1, <2>2 DEF HoldsKey, Lifted, Underway
  <2>4. HoldsButton(s, x) => HoldsButton(s, x)'
    BY <2>1 DEF HoldsButton, Lifted
  <2>5. ~Underway(s, x)
    BY <2>1 DEF Underway
  <2> QED BY <2>3, <2>4, <2>5 DEF Accounts
<1>4. ASSUME ReleaseButton(s) PROVE Accounts(s, x) => Accounts(s, x)'
  <2>1. /\ pc[s] = "leaving" /\ pc'[s] = "releasing" /\ keys' = keys
        /\ call'[s] = [down |-> FALSE, of |-> Mouse, name |-> None]
    BY <1>4 DEF ReleaseButton, Goto, TypeOK
  <2>2. HoldsKey(s, x) => HoldsKey(s, x)'
    BY <2>1 DEF HoldsKey, Lifted
  <2>3. HoldsButton(s, x) => Underway(s, x)'
    BY <2>1 DEF HoldsButton, Underway, Symbol
  <2>4. ~Underway(s, x)
    BY <2>1 DEF Underway
  <2> QED BY <2>2, <2>3, <2>4 DEF Accounts
<1>5. ASSUME Accept(s) PROVE ~Accounts(s, x)
  BY <1>5 DEF Accept, SessionsOK, Accounts, HoldsKey, HoldsButton, Underway
<1> QED BY <1>1, <1>2, <1>3, <1>4, <1>5 DEF Depart

(* A call that fails gives up at most the one symbol it was about.         *)
LEMMA FailsKeeps ==
  ASSUME TypeOK, SessionsOK, NEW s \in Sessions, Fails(s),
         NEW x \in pressed', x # Symbol(call[s])
  PROVE  /\ x \in pressed
         /\ Accounts(s, x) => Accounts(s, x)'
<1>1. /\ pc[s] \in {"handling", "releasing"} /\ pc'[s] \in {"open", "leaving"}
      /\ UNCHANGED <<keys, button>>
  BY DEF Fails, Goto, TypeOK
<1>2. x \in pressed
  BY DEF Fails, Effect
<1>3. HoldsKey(s, x) => HoldsKey(s, x)'
  BY <1>1 DEF HoldsKey, Lifted
<1>4. HoldsButton(s, x) => HoldsButton(s, x)'
  BY <1>1 DEF HoldsButton, Lifted
<1>5. ~Underway(s, x)
  BY DEF Underway
<1> QED BY <1>2, <1>3, <1>4, <1>5 DEF Accounts

(* The step of one session leaves the others alone.                        *)
LEMMA OthersUnchanged ==
  ASSUME TypeOK, NEW s \in Sessions, Serve(s) \/ Depart(s),
         NEW t \in Sessions \ {s}
  PROVE  /\ keys'[t] = keys[t] /\ button'[t] = button[t]
         /\ pc'[t] = pc[t] /\ call'[t] = call[t]
<1> USE DEF Goto, Done
<1>1. pc'[t] = pc[t] /\ call'[t] = call[t]
  BY DEF TypeOK, Serve, Depart, Handle, TakesEffect, Returns, Fails, Disconnect,
         ReleaseKey, ReleaseButton, Leave, Accept
<1>2. keys'[t] = keys[t] /\ button'[t] = button[t]
  BY DEF TypeOK, Serve, Depart, Handle, TakesEffect, Returns, Recorded, Fails,
         Disconnect, ReleaseKey, ReleaseButton, Leave, Accept
<1> QED BY <1>1, <1>2

-----------------------------------------------------------------------------
(* Only one symbol is pressed or released at a time.                       *)
LEMMA PressedStaysFinite ==
  ASSUME IsFiniteSet(pressed), NEW s \in Sessions, Serve(s) \/ Depart(s)
  PROVE  IsFiniteSet(pressed')
<1>1. \/ pressed' = pressed
      \/ pressed' = pressed \cup {Symbol(call[s])}
      \/ pressed' = pressed \ {Symbol(call[s])}
  BY DEF Serve, Depart, Handle, TakesEffect, Returns, Fails, Effect, Disconnect,
         ReleaseKey, ReleaseButton, Leave, Accept
<1>2. IsFiniteSet(pressed \cup {Symbol(call[s])})
  BY FS_AddElement
<1>3. IsFiniteSet(pressed \ {Symbol(call[s])})
  BY FS_RemoveElement
<1> QED BY <1>1, <1>2, <1>3

LEMMA StepKeepsBound ==
  ASSUME IInv, TypeOK', NEW s \in Sessions, Serve(s) \/ Depart(s)
  PROVE  LooseBounded'
<1> USE DEF IInv
<1>1. IsFiniteSet(pressed) /\ Cardinality(Loose) <= failures
  BY DEF LooseBounded
<1>2. IsFiniteSet(pressed')
  BY <1>1, PressedStaysFinite
<1>3. IsFiniteSet(Loose) /\ IsFiniteSet(Loose')
  BY <1>1, <1>2, FS_Subset DEF Loose
<1>4. Cardinality(Loose) \in Nat /\ Cardinality(Loose') \in Nat
  BY <1>3, FS_CardinalityType
<1>5. failures \in Nat /\ failures' \in Nat
  BY InputAssumption DEF TypeOK
<1>0. renamed \cap pressed' \subseteq renamed'
  BY DEF Serve, Depart, Handle, TakesEffect, Returns, Fails, Disconnect,
         ReleaseKey, ReleaseButton, Leave, Accept
<1>6. CASE Fails(s)
  <2> DEFINE E == {Symbol(call[s])}
  <2>1. Loose' \subseteq Loose \cup E
    <3>1. \A x \in (pressed' \ renamed') \ E : x \in pressed \/ Accounts(s, x)'
      BY <1>6, FailsKeeps
    <3>2. \A x \in (pressed' \ renamed') \ E : Accounts(s, x) => Accounts(s, x)'
      BY <1>6, FailsKeeps
    <3> HIDE DEF E
    <3> QED BY <1>0, <3>1, <3>2, OthersUnchanged, NoNewLoose
  <2>2. /\ IsFiniteSet(Loose \cup E)
        /\ Cardinality(Loose \cup E) <= Cardinality(Loose) + 1
    <3>1. /\ IsFiniteSet(Loose \cup E)
          /\ Cardinality(Loose \cup E) \in {Cardinality(Loose), Cardinality(Loose) + 1}
      BY <1>3, FS_AddElement
    <3> HIDE DEF E
    <3> QED BY <1>4, <3>1
  <2>3. Cardinality(Loose') <= Cardinality(Loose \cup E)
    BY <2>1, <2>2, FS_Subset
  <2>4. Cardinality(Loose \cup E) \in Nat
    BY <2>2, FS_CardinalityType
  <2>5. failures' = failures + 1
    BY <1>6 DEF Fails
  <2> HIDE DEF E
  <2>6. Cardinality(Loose') <= failures'
    BY <1>1, <1>4, <1>5, <2>2, <2>3, <2>4, <2>5
  <2> QED BY <1>2, <2>6 DEF LooseBounded
<1>7. CASE ~Fails(s)
  <2>1. \A x \in (pressed' \ renamed') \ {} : x \in pressed \/ Accounts(s, x)'
    BY <1>7, ServeKeeps, DepartKeeps DEF Serve
  <2>2. \A x \in (pressed' \ renamed') \ {} : Accounts(s, x) => Accounts(s, x)'
    BY <1>7, ServeKeeps, DepartKeeps DEF Serve
  <2>3. Loose' \subseteq Loose \cup {}
    BY <1>0, <2>1, <2>2, OthersUnchanged, NoNewLoose
  <2>4. Cardinality(Loose') <= Cardinality(Loose)
    BY <1>3, <2>3, FS_Subset
  <2>5. failures' = failures
    BY <1>7 DEF Serve, Depart, Handle, TakesEffect, Returns, Disconnect,
                ReleaseKey, ReleaseButton, Leave, Accept
  <2>6. Cardinality(Loose') <= failures'
    BY <1>1, <1>4, <1>5, <2>4, <2>5
  <2> QED BY <1>2, <2>6 DEF LooseBounded
<1> QED BY <1>6, <1>7

LEMMA InitIInv == Init => IInv
<1> SUFFICES ASSUME Init PROVE IInv
  OBVIOUS
<1> USE DEF Init
<1>1. failures \in 0..MaxFailures
  BY InputAssumption
<1>2. TypeOK
  BY <1>1 DEF TypeOK
<1>3. SessionsOK
  BY DEF SessionsOK
<1>4. Loose = {} /\ pressed = {}
  BY DEF Loose
<1>5. LooseBounded
  BY <1>4, FS_EmptySet DEF LooseBounded
<1> QED BY <1>2, <1>3, <1>5 DEF IInv

(* Types and bookkeeping do not depend on names or failures.               *)
LEMMA StepTypes ==
  ASSUME TypeOK, SessionsOK, [Next]_vars
  PROVE  TypeOK' /\ SessionsOK'
<1>1. CASE Next
  BY <1>1, ServeType, DepartType DEF Next
<1>2. CASE UNCHANGED vars
  BY <1>2 DEF vars, TypeOK, SessionsOK, Named, Wanted, Remembers
<1> QED BY <1>1, <1>2

LEMMA StepIInv ==
  ASSUME IInv, [Next]_vars
  PROVE  IInv'
<1>1. TypeOK' /\ SessionsOK'
  BY StepTypes DEF IInv
<1>2. CASE Next
  BY <1>1, <1>2, StepKeepsBound DEF Next, IInv
<1>3. CASE UNCHANGED vars
  <2>1. Loose' = Loose
    BY <1>3 DEF vars, Loose, Accounts, HoldsKey, HoldsButton, Underway, Lifted
  <2>2. LooseBounded'
    BY <1>3, <2>1 DEF vars, IInv, LooseBounded
  <2> QED BY <1>1, <2>2 DEF IInv
<1> QED BY <1>2, <1>3

(* What nothing accounts for includes what no session remembers.           *)
LEMMA StraysAreLoose ==
  ASSUME TypeOK
  PROVE  Strays \ renamed \subseteq Loose
<1> SUFFICES ASSUME NEW x \in Strays \ renamed, NEW s \in Sessions PROVE ~Accounts(s, x)
  BY DEF Strays, Loose
<1>1. x \notin RememberedSymbols(s) /\ ~Underway(s, x)
  BY DEF Strays
<1>2. ~HoldsKey(s, x)
  BY <1>1 DEF RememberedSymbols, KeysLeft, HoldsKey
<1>3. ~HoldsButton(s, x)
  BY <1>1 DEF RememberedSymbols, HoldsButton
<1> QED BY <1>1, <1>2, <1>3 DEF Accounts

-----------------------------------------------------------------------------
(* input_ws.go: sessions are where their code puts them, and a press is    *)
(* never dispatched for what the session holds already.                    *)
THEOREM InputTypeCorrect == Spec => []TypeOK
<1>1. Init => TypeOK /\ SessionsOK
  BY InitIInv DEF IInv
<1>2. TypeOK /\ SessionsOK /\ [Next]_vars => TypeOK' /\ SessionsOK'
  BY StepTypes
<1> QED BY <1>1, <1>2, PTL DEF Spec

(* However many viewers press the same keys, leave in the middle and come  *)
(* back, every call of dispatch that fails leaves at most one key behind;  *)
(* besides these only a keyup that x11Key translates otherwise than its    *)
(* keydown leaves one, for keys of any number of names.                    *)
THEOREM StraysBounded == Spec => []StraysComeFromFailures
<1>1. Init => IInv
  BY InitIInv
<1>2. IInv /\ [Next]_vars => IInv'
  BY StepIInv
<1>3. IInv => StraysComeFromFailures
  <2> SUFFICES ASSUME IInv PROVE StraysComeFromFailures
    OBVIOUS
  <2>1. IsFiniteSet(pressed) /\ Cardinality(Loose) <= failures /\ failures \in Nat
    BY InputAssumption DEF IInv, LooseBounded, TypeOK
  <2>2. IsFiniteSet(Loose)
    BY <2>1, FS_Subset DEF Loose
  <2>3. Strays \ renamed \subseteq Loose
    BY StraysAreLoose DEF IInv
  <2>4. /\ Cardinality(Strays \ renamed) <= Cardinality(Loose)
        /\ Cardinality(Strays \ renamed) \in Nat /\ Cardinality(Loose) \in Nat
    BY <2>2, <2>3, FS_Subset, FS_CardinalityType
  <2> QED BY <2>1, <2>4 DEF StraysComeFromFailures
<1> QED BY <1>1, <1>2, <1>3, PTL DEF Spec

(* The names a key goes by when x11Key passes them on and they change.     *)
ChangingNames ==
  UNION {NamesOf[k] : k \in {c \in Codes \ Tabled :
                               \E n, m \in NamesOf[c] : n # m}}

(* A release leaves only such a name down.                                 *)
LEMMA StepRenamed ==
  ASSUME TypeOK, SessionsOK, renamed \subseteq ChangingNames, [Next]_vars
  PROVE  renamed' \subseteq ChangingNames
<1>1. ASSUME NEW s \in Sessions, TakesEffect(s), NEW x \in LeftDown(s), x \in pressed'
      PROVE  x \in ChangingNames
  <2> DEFINE k == call[s].of
  <2>1. /\ pc[s] = "handling" /\ ~call[s].down /\ k # Mouse
        /\ x = X11Key(k, keys[s][k])
    BY <1>1 DEF LeftDown
  <2>2. k \in Codes /\ call[s].name \in NamesOf[k]
    BY <2>1 DEF TypeOK, SessionsOK, Named, Inputs
  <2>3. keys[s][k] \in NamesOf[k]
    BY <2>1, <2>2 DEF SessionsOK, Wanted, Remembers
  <2>4. x # X11Key(k, call[s].name)
    BY <1>1, <2>1 DEF TakesEffect, Effect, Symbol
  <2>5. k \notin Tabled /\ x = keys[s][k] /\ x # call[s].name
    BY <2>1, <2>4 DEF X11Key
  <2> QED BY <2>2, <2>3, <2>5 DEF ChangingNames
<1>2. ASSUME NEW s \in Sessions, TakesEffect(s) PROVE renamed' \subseteq ChangingNames
  BY <1>1, <1>2 DEF TakesEffect
<1>3. ASSUME NEW s \in Sessions, Serve(s) \/ Depart(s), ~TakesEffect(s)
      PROVE  renamed' \subseteq renamed
  BY <1>3 DEF Serve, Depart, Handle, Returns, Fails, Disconnect, ReleaseKey,
              ReleaseButton, Leave, Accept
<1>4. CASE UNCHANGED vars
  BY <1>4 DEF vars
<1> QED BY <1>2, <1>3, <1>4 DEF Next

(* What input_ws_test.go expects of every disconnection, and how far it    *)
(* goes: when all viewers have gone and no call of dispatch has failed,    *)
(* only a key whose keyup came under another name than its keydown is      *)
(* still held down, and only if x11Key has no symbol of its own for it.    *)
OnlyRenamedStaysPressed ==
  (\A s \in Sessions : pc[s] = "closed") /\ failures = 0
    => pressed \subseteq renamed \cap ChangingNames

THEOREM NothingLeftBehind == Spec => []OnlyRenamedStaysPressed
<1> DEFINE Inv == IInv /\ renamed \subseteq ChangingNames
<1>1. Init => Inv
  BY InitIInv DEF Init
<1>2. Inv /\ [Next]_vars => Inv'
  BY StepIInv, StepRenamed DEF IInv, ChangingNames
<1>3. Inv => OnlyRenamedStaysPressed
  <2> SUFFICES ASSUME Inv, failures = 0, \A s \in Sessions : pc[s] = "closed",
                      NEW x \in pressed, x \notin renamed
               PROVE  FALSE
    BY DEF OnlyRenamedStaysPressed
  <2>1. IsFiniteSet(Loose) /\ Cardinality(Loose) <= 0
    BY FS_Subset DEF IInv, LooseBounded, Loose
  <2>2. Loose = {}
    BY <2>1, FS_EmptySet, FS_CardinalityType
  <2>3. PICK s \in Sessions : Accounts(s, x)
    BY <2>2 DEF Loose
  <2>4. ~button[s] /\ \A k \in Codes : keys[s][k] = None
    BY DEF IInv, SessionsOK
  <2> QED BY <2>3, <2>4 DEF Accounts, HoldsKey, HoldsButton, Underway
<1> QED BY <1>1, <1>2, <1>3, PTL DEF Spec
=============================================================================
