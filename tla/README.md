# browser-stream in TLA+

browser-stream runs one Brave browser on an X server inside a container and
streams it to any number of viewers over WebRTC; the viewers send pointer and
keyboard input back. This directory holds TLA+ models of the parts of the Go server and
of the viewer's page whose correctness depends on the order in which goroutines,
timers, callbacks and processes act, the TLC configurations that check them, and
proofs, checked by TLAPS, for every size of the models' constants.

## The system

| Component | State | Operations | Interacts with |
| --- | --- | --- | --- |
| Encoder pipeline, `internal/stream/pipeline.go` | subscribers and their keyframe gates, running flag, cancel function, retry count | subscribe, unsubscribe, restart; the encoder goroutine: delay, start, decode, fan out, finish | reports idleness to its registry; ffmpeg |
| Video registry, `broadcaster.go` | pipelines by delivery key, capture profile, totals | Subscribe, release, SetProfile, Stats | calls pipelines under its lock, and is called by them under theirs |
| Audio registry, `audio.go` | pipelines by audio spec | the same without SetProfile | the same, but its source takes no lock |
| Page lifecycle, `cmd/server/lifecycle.go` | viewer count, page state, idle timer | connect, disconnect, timer callback, start-up call | DevTools |
| Viewer session, `cmd/server/main.go` (handleOffer, viewerCleanup, disconnectGrace) | what the session has acquired, cleanup list, grace timer | offer, state callbacks, grace expiry, cleanup | all of the above; pion |
| Input dispatcher, `internal/browser/dispatcher.go` | one slot for the latest move, gate, wake-up token | Dispatch, flusher goroutine, Close | X server, through xdotool and a persistent connection |
| Input session, `cmd/server/input_ws.go` | held keys and button | message, disconnect | dispatcher |
| Browser control, `internal/browser/navigator.go` | none | DevTools and xdotool calls | Brave, X server |
| Profiles, `internal/config` | none | parsing, bit rates and geometries | registries, `/quality`, sessions |
| `/quality`, `cmd/server/main.go` (handleQuality) | the size of Brave's window | resize, then SetProfile | browser control, video registry |
| Other handlers, `cmd/server/main.go` | none | URL, clipboard, stats | registries, browser control |
| Page, input path, `web/input-client.mjs`, `input.mjs`, `app.mjs` | held keys and pointer, control on or off; socket, reconnection timer, pending move | page events, socket events, timers | input sessions |
| Page, session, `web/session.mjs`, `playback.mjs`, `app.mjs` | peer connection, start button, cached connection, data-saver control, tracks on the screen | start, switch, negotiation, tracks | `POST /offer`, that is viewer sessions |
| Page, rest, `stats.mjs`, `index.html` | none | display | HTTP endpoints |
| Container, `start.sh`, `scripts/` | none | starts and restarts Brave, Xvfb, PulseAudio | Brave's window and page |

What is hard in it: two levels of locks that are taken in both orders; encoders
that are cancelled, die and are replaced while viewers come and go; timers and
callbacks that are already running when they are stopped; a session that is
torn down while it is still being built; moves that are coalesced in one
goroutine while buttons are sent by others; calls that fail after they have
had their effect; a connection whose loss its two ends notice at different
times; a page that gives up on a session the server still builds; two requests
that change the same thing in two steps each. PROJECT.json lists these hazards at the lines where they bite.

What makes the components correct, in one line each:

- pipeline: an encoder exactly while somebody subscribes, and no frame to a
  decoder that cannot use it;
- registries: one encoder per pipeline, none that is idle and forgotten, the
  profile last set in all of them, calls that return;
- lifecycle: nobody watches a frozen page, an unwatched one is frozen;
- `/quality`: the encoders capture the window, the whole of it and nothing else;
- profiles: a viewer gets no more bits than advertised, and ceilings hold;
- session: whatever is acquired is released, once;
- dispatcher: no move is lost, repeated or reordered, one send at a time;
- input session: nothing stays pressed when its viewer has gone;
- page, input: what its session holds it holds too, and it has one connection
  or is about to get one;
- page, session: one negotiation at a time, its tracks alone on the screen, the
  profile the control shows, and a running page of Brave's behind it.

## The modules

```
EncoderDemand <--refines-- Pipeline <-- PipelineProofs
      ^------refines------ Broadcaster <-- Quality <-- QualityProofs
                                             |
                             StreamSpec <----+

ViewerLifecycle <-- SessionContract <-- StreamSession <-- StreamSessionProofs
  ^    ^                  ^--refines--+
  |    +-- ViewerLifecycleProofs      |
  +--instance------------------- ViewerSession <-- ViewerSessionProofs

Dispatcher <-- DispatcherProofs

InputSession <-- InputClient
      ^              ^
InputSessionProofs <-- InputClientProofs
```

Every `MC...` module extends the module it is named after and defines its small sets.

**EncoderDemand** is the contract of one pipeline: an audience and a supply
that is off, on or told to stop. *Pipeline* implements all of it, *Broadcaster*
(with *Quality*) its steps for every pipeline of a registry.

**Pipeline.** One action for each critical section of `p.mu`, and one for each
thing the encoder goroutine does outside it. `phase` is where that goroutine
is. The decision whether an exit was a failure (`failed`) is a step of its own,
because `run` reads the context before it waits for the process and takes the
lock. The fan-out visits a snapshot (`todo`) track by track, since subscribers
leave and join meanwhile; `primed` is a ghost: the tracks that received a
keyframe of the present ffmpeg process. Frames are keyframes or not, the first
of an encoder is a keyframe (`-g` and the comment in `subscribe` say so). The
retry count is saturated at 4, where `retryDelay` is.

**Broadcaster.** The registry, for video (`SourceLocks = TRUE`) and audio. A
critical section that calls nothing that locks is one action, guarded by its
lock being free. Three sections take a second lock: `startLocked` (holding
`p.mu`, the source takes `b.mu`), `release` and `Stats` (holding `b.mu`, they
take `p.mu`); their holders are recorded in `pmu` and `bmu` between the two.
The source function is a step of its own in both registries (`Source`); only the
video one has to wait for `b.mu` there.
`release` is modelled as the code has it: it looks its key up again and may
find another pipeline there. What the encoder does between start and exit is
left to *Pipeline*. When `finish` starts the next encoder the new goroutine
takes the place of the old one, which only returns. The counters that `Stats`
adds up are represented by `captureStarts`. A viewer subscribes once, so that
the pools of pipelines and encoders never run dry (`BroadcasterAssumption`).
`SetProfile` and the restarts it asks for are defined here, and are steps of
*Quality*, whose requests call them.

**StreamSpec** is `profile.go` and the part of `config.go` it reads, as
operators: capture geometry, ladder, budgets of the delivery profiles, ceilings,
total with packet headers, VP9 fallback, and the window size of `start.sh`. A
rate is a number and a unit; every string the code does not understand is a rate
with number 0, so "1.5M" is no ceiling at all. Integers do not overflow in the
model, and a total whose headers come to exactly half a kbps may be rounded
differently in floating point.

**Quality** extends *Broadcaster* by the requests to `POST /quality`: an
operator asks, resizes the window, which can fail before or after its effect,
and calls `SetProfile`. Brave restarts at any time, and then has the window size
of the container's start, which is not that of the profile when `VIDEO_WIDTH` is
not one of the two sizes `profile.go` knows (`settled` then starts as FALSE).
`resizedBy` and `settled` are ghosts: who resized last, and whether that request
has come through undisturbed.

**ViewerLifecycle.** Each method holds `l.mu` over its DevTools call and is one
action. A timer is armed, fires (its goroutine waits for the lock and cannot be
stopped any more) and runs. `page` is what the page really is, as opposed to
`state`, what the code believes. A DevTools call that fails may have had its
effect. Closing the tabs and Brave's restart are actions of the environment.

**ViewerSession.** `handleOffer` step by step, with a failure wherever it has
one; between acquiring something and `cleanup.add` it holds it in hand (`pc` is
the resource's name). `held` is a ghost, what the session really holds; `queue`
and `work` are the cleanup's list before and after `run` has taken it. Pion
runs each state callback in a goroutine of its own, so `pending` is a set and
`Update` takes any element. The module composes with *ViewerLifecycle*, whose
`connect` and `disconnect` it calls. Subscriptions are resources here; what a
subscription does is *Broadcaster*.

**SessionContract** is what `POST /offer` promises to a page, without pion,
timers or cleanup lists: a reply, a place in the viewer count before the
answer, given back once the connection is lost. *ViewerSession* implements it
(`ImplementsContract`): `reply`, `lost` and `place` are functions of its state.

**StreamSession** is a page in front of the contract, which it extends. Each
`connect` has the name of the session its offer begins, and is cut at its
awaits: gathering, posted, settled. An offer is on its way (`transit`) until it
arrives or is lost; the page may have given up by then. `attempt.served` is the
profile in the URL of the offer, read when it is sent. The attempts and sessions
a page has left go on in the server with their timers, against the same
*ViewerLifecycle*. A name is free again once page and server have both done
with it, so that two names are enough for any number of attempts.

**Dispatcher.** A `Dispatch` call of a move is two steps (slot under the lock,
then token), one of anything else is accepted, waits for the gate and sends. A
send may have no effect, and a call may give up at any time it waits: the
deadline, or its request is cancelled. Inputs carry stamps, their order of
acceptance. `lastMove`, `lastButton` and `overtaken` are ghosts that record what
reached the X server. `Close` belongs to the type, although the server never calls it.

**InputSession.** `handle`, `releaseAll`, and what they do to the X server.
A key message is a code and a name; `X11Key` gives the symbol xdotool
is told to press, the code's own or else the name that came with the message. A
dispatch call takes effect some time before it returns, or fails with or
without effect. The ghost `renamed` is what is still down although its key was
released, because the keyup came under another name than the keydown. Pointer
positions and pasted text are left out: they hold nothing down.

**InputClient** puts a page and a WebSocket in front of *InputSession*, which
it extends: every action of the path takes an action of the session or leaves
the sessions alone (`PathImplementsSessions`). A listener or callback of the
page runs to its end and is one action. `owner` is the page a connection
belongs to, `wire` what it has sent and the session has not read. The loss of a
connection is noticed by each end on its own (`SocketCloses`, `Lost`), in
either order and any time apart, so that the old session of a page may still be
pressing and releasing when the new one begins. Backspace on the mobile keyboard
is a press and a release (`UserInput` twice); a tap is not seen by
`createInputState`, as in the code. `close()` belongs to the client, although
the page never calls it.

## The runs

| Run | Instance | Distinct states | Checks |
| --- | --- | --- | --- |
| `pipeline` | 2 tracks | 24,000 | the encoder follows the audience; no undecodable frame; the back-off doubles, and starts over once a frame was delivered; nobody is gated forever; refinement of EncoderDemand with its liveness |
| `broadcaster_video` | 2 viewers, 2 encoders, 2 pipelines, 1 key, 2 operators; two requests, one crash, one failed write, restarts of Brave; six rates as ceilings | 1,619,000 | types; one encoder per pipeline; registered pipelines follow the profile; idle pipelines get released; the capture fits the window; budgets; pipelines follow EncoderDemand |
| `broadcaster_audio` | 2 viewers, a poller, one crash, one failed write, no source lock | 67,000 | no deadlock; totals never fall; `SubscribeReturns`; `IdleDrains` |
| `lifecycle` | 2 viewers, 3 timers, one loss of the tabs, one failed activation, one failed freeze | 5,000 | a watched page runs; a departure leads to a frozen page |
| `session` | 2 sessions, 2 timers, one disconnection, one failed activation | 245,000 | slots counted; released exactly once; nothing added after the teardown; no grace timer escapes a recovery or is only remembered; a gone viewer is released; SessionContract is implemented |
| `page` | 2 sessions, 2 timers, 2 profiles, one failed activation, one failed freeze, one loss of the tabs | 1,182,000 | types; a page behind a live stream runs; one connect at a time; tracks of one connection; a switch is served |
| `dispatcher` | 2 clients, 4 inputs | 210,000 | types; no lost wake-up; no overlapping sends; moves in order; one overtaken move at most; moves are taken |
| `input` | 1 page, its old and its new connection, a key and the button, 2 inputs on the wires, 1 failure | 1,959,000 | types; only failed sends leave something pressed; nothing held behind the user; one socket or a timer for one; no forgotten socket |
| `broadcaster_video_deadlock` | 2 viewers | | finds `SubscribeReturns` violated |
| `broadcaster_orphan` | 3 viewers | | finds `OneEncoderPerKey` violated |
| `lifecycle_failed_connect` | as `lifecycle`, one failed activation | | finds `IdlePageFreezes` violated |
| `input_renamed_key` | 1 session, a key with two names | | finds `NothingStaysPressed` violated |

Why these bounds: a race in these modules is between a thread and one other
that overtakes it; two viewers (plus encoder, operator and poller) give every
pair, and one crash or failure puts each error path between them. Two requests
overlap in every way two can; the order of three is decided by their pairs, and
the proofs cover any number. The six rates are one of each unit, none, and one
below and above every budget. Three timers let a stale callback, a running timer
and a new one exist together. A third viewer is needed only where one must
replace a pipeline the first two left (`broadcaster_orphan`). The two sessions
of `page` are the one in use and the one it has left. In `input` the two
connections are the one that was lost and the one that replaces it; a key and
the button go separate ways in the code, further keys do not. Two inputs fit a
press and its release, or a tap, behind each other. Its key has one name, so
that `renamed` stays empty and only a failed send may leave something behind;
names that change are in `input_renamed_key` and in the proofs, which take any
number of names. In `session` a connection is lost for a while once; what comes of a
second loss the proof of `GraceTimerIsTracked` covers. Any number of pages at once
is covered by the proofs. Four inputs are a move in hand, one in the slot and
two buttons.

The video run switches the deadlock check off because the code does deadlock;
the run that shows it states it as the liveness property it breaks.

`DepartureFreezes` excuses a departure only by a DevTools call that fails after
it, by number: the viewers that come after a failure are covered again. The
README's stronger claim, `IdlePageFreezes`, is false when an activation fails
(`lifecycle_failed_connect`).

### Fairness

Weak fairness stands for the Go scheduler: a goroutine inside a call, a callback
or a timer goes on. Nobody is obliged to connect, leave, move the pointer,
change the quality or restart Brave. *Quality* and *StreamSession* claim no
liveness and assume none. Strong fairness is assumed

- of a thread of *Broadcaster* inside a call: `sync.Mutex` hands itself over to
  a goroutine that has waited a millisecond, so nobody starves;
- of ffmpeg in *Pipeline*: killed, it leaves a finite rest in the pipe; retried
  forever, it starts in the end; streaming, it produces a keyframe in the end
  (`-g`). `GateOpens` needs all of it, and also that profiles are not changed
  forever, which is its premise.

In *Dispatcher* every wait ends by a deadline, so weak fairness is enough. The fairness of
*Pipeline* also covers everything *EncoderDemand* assumes (`WF(Recycle)`).

## What is proved

All theorems hold for every value of the constants that satisfies the modules'
named assumptions.

- *PipelineProofs*. `NoUndecodableFrame` is not inductive: nothing in it says
  why the ungated subscribers of a snapshot are primed. `IInv` adds that between
  frames every ungated subscriber is primed once the process has produced a
  frame, and that a keyframe primes the part of the snapshot already visited;
  also that the goroutine lives exactly while `running` holds. From it follow
  type correctness (no retry delay above a second), `EncoderFollowsAudience`, `NoUndecodableFrame`, and that every step is a step of
  *EncoderDemand* or a stutter (`Refinement`). `Backoff` uses one more
  invariant, which relates the retry count to the last delay, and `BackoffEnds`
  that an encoder that has delivered leaves no failure on record.
- *ViewerLifecycleProofs*. `WatchedPageRuns` is inductive together with the
  types, failures included: both freezing paths look at the viewer count under the lock.
  `FreezeNeverLost` is the safety half of `DepartureFreezes`: once somebody has
  watched, the page is watched, frozen, or a timer or its callback is still to
  come (`FreezeAhead`), and only a DevTools call that fails can end that. The
  fairness of timers and callbacks, which makes the freeze happen, stays with TLC.
- *QualityProofs*. `RegistryInv` is the inductive invariant of the registry.
  `OneEncoderPerPipeline` alone is not inductive, for it does not know who is
  about to start an encoder: `ServeInv` says that a running pipeline has exactly
  one thread that is starting its encoder or is its encoder, and `LockInv` that
  whoever is in the source function holds the pipeline's lock meanwhile, whether
  that function takes `b.mu` or not. `AllocInv` (a pipeline is registered under
  its own key) is what makes the second look-up in `release` harmless, and
  `PoolInv` counts, so that a viewer always finds a pipeline and an encoder. On
  top of it `WindowInv` follows the last resize to its request. From these
  follow `OneEncoderPerPipeline`, `RegisteredFollowsProfile`, `IdleIsReleased`,
  `CaptureFitsWindow` and, with two facts about the audience more, the refinement
  of *EncoderDemand*. `BudgetsHold` is arithmetic, and proved for every
  configuration and every rate. `CeilingsLower` is what is left of
  `CeilingsNeverRaise`, which the code does not keep: with no audio ceiling
  above the 32 kbps of the full delivery, no pair of ceilings raises any.
  For the totals of `Stats` (`ReportedNeverFalls`), `TotalInv` takes the starts of
  encoders as elements of a set, so that the sum over the registered pipelines
  is a cardinality. What a poller has added up and what it has still to visit
  stays between the last report and the true total, because `b.mu` keeps the
  registry still meanwhile.
  For the locks, `HolderInv` is the converse of `LockInv`: who holds a lock is
  in the section that took it. `AudioNeverLocksUp`: where the source function
  takes no lock, some holder of a lock can always go on. `OnlySourceLocksUp`: in
  the video registry that holds too unless the locks are `Crossed`, which is the
  deadlock `broadcaster_video_deadlock` shows and so its only form, and
  `LockUpIsForEver` says that nothing resolves it. Assumed: finite sets of
  viewers, pipelines and encoders, at least as many of the latter two as
  viewers, and disjoint sets of threads.
- *ViewerSessionProofs*. The invariant is about one session at a time: what is
  held is in hand, in the cleanup list, or in what `run` took, and in one of
  these only. `SlotsAreCounted` then counts the sessions, which are finitely
  many. `GraceTimerIsTracked` is inductive together with the types: until the
  teardown a grace timer that runs is the one a recovery stops, and one that is
  remembered runs or has its callback on the way. `KeepsContract` maps every step to one of *SessionContract* or a stutter,
  and `DrivesLifecycle` to one of *ViewerLifecycle*, so that what is proved of the
  page holds behind any number of sessions; with the count, a session that has
  a place looks at a page that runs (`PlaceMeansRunning`). `NobodyForgotten` is
  the safety half of `GoneViewerIsReleased`: while the session of a gone viewer
  holds anything, its handler, a terminal callback or a teardown is still to
  come. It needs `NoticeInv`: a list is closed, or the callback that will close
  it is pending, as soon as the connection is gone.
- *StreamSessionProofs*. The invariant has three parts: of the server, that the
  count of viewers is the number of places; of the page, that the start button,
  the cached connection and the disabled control tell which attempt runs; and of
  the two together, that what the page takes for live the server has answered.
  The second gives `OneConnectAtATime`. `SwitchIsServed` also needs that nobody
  else sets the profile between the switch and the offer, and `LiveStreamRuns`
  that a live attempt has a place until it is lost, and `WatchedPageRuns`.
  `NobodyWaitsInVain`: a disabled control or a cached promise has an attempt that
  runs and will end it, a disabled start button a connection. `PageUsesContract`
  and `ContractDrivesLifecycle` show the composition to be one: every step of
  the page is a step of the contract, every step of the contract one of
  *ViewerLifecycle*. `LeaversFreeze` carries `FreezeNeverLost` over to the whole.
- *DispatcherProofs*. The argument is about stamps: slot newer than hand, hand
  newer than what was sent, slot newer than every accepted button; and a closed
  dispatcher has an empty slot, which is why its flusher may stop. From it
  follow `NoLostWakeup`, `SendsNeverOverlap`, `MovesInOrder`, `AtMostOneOvertaken`.
- *InputSessionProofs*. `StraysComeFromFailures` is not inductive: a session
  that has lifted a key remembers it until dispatch returns, and hides what a
  failed call of another session has pressed again meanwhile. `Loose`, what is
  pressed and not accounted for even so, grows only in the step of a failing
  call, by at most the symbol of that call; the rest is counting.
  `NothingLeftBehind`: before the first failure nothing is loose.
  Neither theorem assumes that a key keeps its name while it is down, which
  `x11Key` does not guarantee (`input_renamed_key`). What such a key leaves
  pressed (`renamed`) is told apart instead: `StraysBounded` counts the rest, and
  `NothingLeftBehind` says that when all sessions are closed and nothing has
  failed, all that is pressed is such a key, and by a name among several of a
  code for which `x11Key` has no symbol of its own (`ChangingNames`).
- *InputClientProofs*. The whole path implements *InputSession*
  (`PathImplementsSessions`), so that both theorems carry over to it
  (`PathStraysBounded`, `PathLeavesNothing`), renamed keys included. `NeverStranded` and `NoOrphanSocket` are inductive together
  with the converse of the latter: the socket a page uses is its own, and not
  closed. `PathTypeCorrect` includes the bound of the wires. `PageAndSessionAgree`
  states `NothingHeldBehindTheUser`: what a session holds, or will once it has
  read its wire (`LastSays`), its page believes to hold, one key for each failed
  dispatch excepted. It is inductive once it is known that nothing is on a wire
  nobody reads and that a session whose connection is still being made is at
  rest (`QuietOK`). Assumed: the set of key codes is finite, so that `releaseAll`
  sends finitely many releases.

Only model-checked are the liveness properties, for TLAPS does not prove
liveness under fairness: `GateOpens`, the liveness of *EncoderDemand* in
`ImplementsDemand`, `SubscribeReturns`, `IdleDrains`, `DepartureFreezes`,
`GoneViewerIsReleased` and `MoveIsTaken`. What is proved of them is the safety
half, that somebody is left who will do it: `EncoderFollowsAudience`,
`AudioNeverLocksUp`, `IdleIsReleased`, `FreezeNeverLost`, `NobodyForgotten` and
`NoLostWakeup`, in this order (the first for both of *Pipeline*). The rest is the fairness. The
properties of the `violation` runs are false in the code.

## Known deviations

The four `violation` runs are findings in PROJECT.json. More claims are stated
in the modules although no run lists them; each is refuted by adding it to the
configuration named.

| Claim | Where it is made | Add to | What happens |
| --- | --- | --- | --- |
| `RestartIsImmediate` | pipeline.go:104 | PROPERTY of Pipeline.cfg | a restart that meets the encoder during its launch makes `start` fail, is counted as a failure and waits out a delay |
| `EveryEncoderFollowsProfile` | broadcaster.go:207 | INVARIANT of Quality.cfg | a pipeline that was dropped from the registry under a subscriber on the way is not restarted |
| `WindowIsCaptured` | repository README.md:50 | INVARIANT of Quality.cfg | two overlapping requests, a resize that fails after its effect or a restart of Brave leave a window of another size, until the next request |
| `CeilingsNeverRaise` | repository README.md:61 | INVARIANT of Quality.cfg | `AUDIO_BITRATE` is also the audio budget of the full delivery, so that setting it above 32k raises it |
| `RecoveryIsKept` | main_test.go:179 | PROPERTY of Session.cfg | a grace timer that has fired tears down the viewer whose recovery is handled before its callback gets the lock |
| `ChoiceIsServed` | app.mjs:354 | INVARIANT of Page.cfg | a choice made while the start is still connecting is shown by the control, but the stream has the one before it |
| `FreezeWaitsForTheDelay` | lifecycle.go:10 | PROPERTY of Lifecycle.cfg | the callback of an earlier idle period, waiting for the lock, freezes at the start of the next |
| `UnwatchedPageFreezes` | repository README.md:118 | PROPERTY of Lifecycle.cfg | before the first viewer `state` is empty and the start-up call does nothing |
| `ConnectOpensAPage` | repository README.md:120 | PROPERTY of Lifecycle.cfg | tabs closed under a viewer are not reopened for the next one |

`NothingStaysPressed`, which `input_renamed_key` refutes, is also violated
by a press that is reported as failed after it had its effect (INVARIANT of
Input.cfg).

## What is not modelled

- The arguments of ffmpeg that tune it, IVF and Ogg parsing, VP8/VP9 keyframe
  detection, SDP, HTTP: data and I/O.
- `FromEnv` beyond the configurations it lets pass: it runs once, before
  anything else, and a value it refuses ends the program.
- DevTools targets: one tab is modelled. Several tabs, and which one is
  visible, are not.
- The handlers for URL, clipboard and statistics keep no state; they are calls
  of browser control and of `Stats`.
- The page's moves, paste, clipboard shortcuts and pointer coordinates; a move
  the client holds back for a frame can follow a button it was older than,
  which is the client's half of what `AtMostOneOvertaken` bounds in the server.
- `POST /input` is a client of *Dispatcher*, but not of *InputSession*: what it
  presses belongs to nobody.
- A page that is closed or reloaded is, to the server, a session that is lost,
  and that *SessionContract* has; the page that comes after it starts anew.
- Overflow of `int` by rates and sizes no configuration sensibly has.

## Plan

Done, in order of weight: *EncoderDemand*, *Pipeline*, *Broadcaster* and the
proofs of *Pipeline*; *ViewerLifecycle* and *ViewerSession* with their proofs;
*Dispatcher*, *InputSession* and *InputClient* with theirs; *StreamSpec* and
*Quality*, with proofs for the registry; *SessionContract* and *StreamSession*,
with the proof that the one is implemented and what the other may rely on.

Done since: the proofs of `ReportedNeverFalls` and of `NothingHeldBehindTheUser`,
the locks of the registries, the safety halves of the liveness properties of
page and sessions, and the chain from the viewer's page to *ViewerLifecycle*.

Left:

1. Several tabs, as the targets DevTools lists, behind *ViewerLifecycle*.
2. Moves and pointer positions in *InputClient*, in front of *Dispatcher*.
3. An abstract specification of what *Dispatcher* promises (moves coalesced,
   the rest in order), and the proof that it is implemented.
