# A verification of AI Smart

AI Smart is a small app (recognition of what the camera sees, with TensorFlow
Lite models) on *Rose*, a C++ framework for SDL: windows and dialogs, files,
Bluetooth, video calls over WebRTC. This directory holds TLA+ models of the
parts of both in which several actors meet, TLC runs that check them on small
instances, and TLAPS proofs of the safety properties these runs check, for
every instance.
Paths below are relative to `src/aismart-src/aismart/`.

The repository has no tests of its own code. What its authors expect is in
`VALIDATE(...)` assertions and in comments; the properties are taken from those
and from what a dialog, a device or a caller relies on.

## Inventory

| component | state | operations | meets | hard |
|---|---|---|---|---|
| recognition dialog `trunner` (`aismart/gui/dialogs/runner.*`) | `avcapture_`, `setting_`, `current_surf_`, `result_`, `rects_`, `next_recognize_frame_`, two mutexes | `app_first_drawn`, `did_paper_draw_slice`, `start_avcapture`/`stop_avcapture`, `DoWork`, destructor | its worker (shared members), `trtc_client` (callback while drawing) | a hand-over without a lock, an unlocked loop test, a tight loop on a mutex, join after destruction |
| worker threads (`librose/thread.*`, `external/webrtc/rtc_base/signalthread.*`) | `state_`, reference count | `Start`, `Run`, `Destroy`, `Release`, completion message | every `tworker` | who deletes, who waits |
| video path of `trtc_client` (`librose/rtc_client.*`) | renderers, textures and pixels, sink mutexes, `deconstructed_`, the peer connection | `OnFrame`, `draw_slice`, `pre_create_renderer`, `InitializePeerConnection`, `DeletePeerConnection` | WebRTC's worker and signaling threads and two frame threads; synchronous calls among all of them | lock order, calls that wait, teardown while frames arrive |
| signaling connection of `trtc_client` | `state_`, `control_socket_`, the receive buffer | `Connect`, `OnResolveResult`, `OnConnect`, `OnRead`, `OnClose`, `Close` | the server, the resolver; the call | framing of a stream, re-entrancy, what survives a reconnect |
| call of `tchat_` (`librose/gui/dialogs/chat.cpp`) | `peer_connection_`, `caller_`, the layer shown | `chat_setup`, `leave_from_video`, the posted close, handlers of the messages | the connection, WebRTC's signaling thread, message boxes that run the event loop | two roles, messages and clicks in any order, a close that does not say which connection it is for |
| Bluetooth central `tble` (`librose/ble.*`) | `connecting_peripheral_`, `peripheral_`, `connector_`, two lock counters, `background_id_`, `background_scan_ticks_`, tasks | scan, connect, disconnect, events of SDL's Bluetooth, reconnect detection with an alarm | the radio (asynchronous), `base_instance` (background callbacks on a thread of their own) | events that answer cancelled requests, nested locks, two threads on three flags |
| background callbacks of `base_instance` (`librose/base_instance.cpp`) | `foreground_`, `background_callbacks_`, the audio lock | `background_connect`, `handle_background`, app events | `tble`, any dialog | ids that wrap, who keeps the app awake |
| OCR dialog `tocr` (`librose/gui/dialogs/ocr.*`) | as `trunner`, and `lines_` | the same pipeline with the join before the destruction | its worker | two slots, `lines_` read without a lock |
| lobby (`librose/lobby.*`) | the chat connection, requests without an answer, channels and their users in two maps | `process`, `OnConnect`, `OnClose`, `do_task`, `process_*`, joining and parting by hand | an IRC server | a list of names in pieces among joins and quits, requests sent too early, two places for cookies, what survives a reconnect |
| timers (`librose/gui/widgets/timer.*`) | the map of timers, the one being executed, ids its owners keep | `add_timer`, `remove_timer`, `timer_callback`, `execute_timer` | SDL's timer thread, the event queue, every widget with a timer | removal in a timer's own callback, events of timers that are gone, an expiry before the insertion |
| file tasks (`librose/task.*`) | a list of copies done | `do_copy`, rollback | file system | one copy of several fails |
| GUI (`librose/gui/`, `events.cpp`) | focus, capture, layout | event distribution, widgets | everything, on the main thread | long single-threaded state machines |
| language tools (`formula*`, `serialization/`, `config*`) | none | parse, evaluate, write | start-up | pure |

The components, modelled or not, are listed with reasons in `PROJECT.json`, and
so are the hazards, each with the line where it bites and the properties that
would notice it.

### What makes each component correct

* *Recognition*: the hand-over surface has one owner at a time; a stop is final
  (nothing comes back) and completes; answers are in order and not too frequent;
  the worker is gone before what it uses.
* *Video*: a frame lands in a renderer and a texture that exist; no thread waits
  for one that waits for it; teardown completes.
* *Signaling*: what the server sends is what the handlers get, once each, in
  order; a connection starts afresh.
* *Bluetooth*: pointers and links agree; a lost peripheral is looked for; the
  alarm is for a lost peripheral only, and does not play on beside a connection;
  each detection ends.
* *Call*: whatever the order of clicks, messages and the posted close, no
  assertion fails while the connection is up; a lost connection takes the call
  with it.
* *Lobby*: the two maps are one relation; the dialog shows who is there; a
  channel that starts a connection afresh and is not refused is joined in it.
* *Timers*: a timer runs for the owner that keeps it, or not at all, and does
  run; an id means one timer.
* *Background*: the app is kept awake exactly while somebody is registered.

## Modules

`FrameSlot` is the abstract promise of a recognition pipeline: one slot, frames
offered and worked on in order, the answer shown is that of the last frame
worked on, and ending the capture waits for the frame in work.

`Runner` is `trunner` with its worker. `mpc` is the place of the main thread in
`did_paper_draw_slice`, `stop_avcapture` and the destructors, `wpc` that of the
worker in `DoWork`, one step per access to shared state. A section of
`variable_mutex_` is one step; `recognition_mutex_` is held across steps and is
a variable. A frame is its number in `frames()`, so `rects` and `result` say
*which* frame they were computed from: that is all the order and tearing
properties need. The recognisers are one step each. The end of the capture, in
itself the subject of `Capture`, is one step here (`StopReset`).
`Runner!Slot` is the refinement mapping to `FrameSlot`.

`Background` has the callbacks of `base_instance` as operators over its own
variables; `Ble` extends it with `tble`, and so composes the two: the walk over
the callbacks (`HandleBackground`) calls `tble`'s, registration is one step of
`background_reconnect_detect(true)`. That function is three steps (ticks,
callback, id: `arming`), because the other thread may run between them. So is
`tble::background_callback` for `tble`'s thread, when the time is up: the two
judgements (in `HandleBackground`), the music (`BlePlay`), the `VALIDATE`
(`BleCheck`) and the flags (`BleClear`) are four steps (`judging`), between which
events of the radio and calls of the app come; a `VALIDATE` that fails ends the
program (`Aborted`). The radio has a link per peripheral and a queue of events on
their way; requests change the link at once and the event follows, after anything else.

`Capture` is the video path: the main thread (`mpc`, a place and a side), the
signaling thread, the worker of WebRTC, which adds and removes sinks for a
caller that waits, and one frame thread per side. The broadcaster's lock is not
a variable: it is held exactly while the side's frame thread is in `OnFrame`.

`Signaling` is the receive side of the signaling connection and the loop that
reads it. Bytes are offsets in the stream of the current connection: `bound`
says where the server's messages end, `base` which offset `recv_data_[0]` is.
A length read where no message begins may be any. The handlers of `OnRead` are
kept by how they end: they go on, return, close, or show a message box, whose
event loop may run `OnRead` again (`boxes`).

`Call` extends `Signaling` with the call: the user, the two roles, the peer
connection (external: there or not) and what each handler of `OnRead` does to
them. It is a composition by extension: each action of `Call` conjoins the
action of `Signaling` that it performs, so `CallSpec` implies `Spec` of
`Signaling` (proved in `CallProofs`), and `Signaling`'s properties are checked in
the call. The kind of a message is chosen when it is handled, from those a
server may have sent by then (`stage`). A `VALIDATE` that fails sets `aborted`.

`Lobby` is the client's side of the chat with the IRC server and the two
directions of the link as an external part: requests arrive in order, and a
JOIN is answered with UJOINED, the names in two messages and ENDOFNAMES. The
server takes the login (`asked`) some time before it accepts it (`Welcome`), and
ignores the joins it gets in between: there are some, because the tasks are due at
the first message of a connection (`BeforeRead`), the greeting, and because the
dialog joins and parts whatever the state, as long as there is a socket. A
cookie of `noresponse_msgs_` is what it waits for; one step of `do_task` asks for all that
is due, in the order of the code (`visited`, a recursive function over the channels in
the order of the map, is its loop). `carried` is a history variable: the channels that entered
the connection with users or an unfinished list of the last one.

`Timers` has `add_timer` in the two halves between which SDL's thread may run
(`adding`), the expiry on that thread, `execute_timer` and the return of the
callback. Owners are what keeps an id: `ttimer`, `ttrack`, the hover timer.

The `MC` modules are the instances for TLC, the `...Proofs` modules the theorems
about the module they are named for; `Lobby` has two, `LobbyProofs` for the state of
the client and `LobbyListProofs` for that state against what is on its way. The constants of `MCCall` (chunks of 2,
alignment 3) stand for 1024 and 4096: what matters is that a chunk can end
inside a prefix, inside a message and between two, and that the buffer has to
grow at each of these.

`map` in `PROJECT.json` gives the source lines of every definition. Definitions
called "Mutant of ..." are plausible bugs of the definition that follows; each
property is shown to fail with one of them.

## Runs

| run | states | shows |
|---|---|---|
| `recognition` | 71,072 | `MCRunner`: every interleaving of painting, camera, worker and closing |
| `worker_lifetime` | violated | the worker may be in `DoWork` when the dialog's members are gone |
| `bluetooth` | 912,390 | `MCBle`: two peripherals, nested locks, background and foreground, events amid the callback |
| `stale_events` | violated | events of cancelled connects are taken for those of later ones |
| `app_event_thread` | violated | coming to the foreground in the middle of arming leaves a dead detection |
| `video` | 2,248 | `MCCapture`: construction, drawing, teardown, connection after connection |
| `teardown_deadlock` | violated | the first frame and the teardown wait for each other |
| `recreated_renderer` | violated | a repaint after `pre_create_renderer` uses a texture that was released |
| `signaling` | 150,031 | `MCCall`: two connections of a call in either role, ways to cut the stream, nested message boxes, posted closes |
| `stale_buffer` | violated | half a message survives into the next connection |
| `timers` | 44,282 | `MCTimers`: timers added, removed and executed against SDL's thread and a queue of events |
| `lobby` | 240,642 | `MCLobby`: two connections, two channels, one other user, clicks, time-outs, joins before the login is accepted |

The violated runs are findings (`PROJECT.json`, `findings`): places where the
code does something else than its comments or assertions say.

Two configurations are kept beside these runs for two more such places.
`tlc -config LobbyReconnect.cfg MCLobby` finds `AlwaysRejoins` violated in a
second. `lobby.cpp:980-983` promises "once use chat, chat alway in use": `do_task`
joins every channel that is not joined. `reset_connect` therefore erases the
users of all channels, because `joined()` is "has users". `OnClose`
(`lobby.cpp:184`) takes another way and erases none, and nothing clears
`users_receiving` of a list that was cut short. In the next connection such a
channel looks joined, and the client stays out of it. `Rejoins`, which the
`lobby` run checks, excepts exactly these channels (`carried`).

`tlc -config BleAlarmRace.cfg MCBle` finds `CallbackAsserts` violated in a few
seconds, by eleven states. `ble.cpp:244` says of the two threads "to avoid race, use tow judge
together". The judgements are made, then tble's thread takes a connect event, whose
last call is `background_reconnect_detect(false)`; the callback goes on, plays the
alarm for the peripheral that has just come back (`ble.cpp:251`), and fails
`VALIDATE(background_id_ != INVALID_UINT32_ID)` (`ble.cpp:253`). What the
`bluetooth` run shows, and the proof, is that this is the worst: such an alarm has
the `VALIDATE` before it and does not pass it (`AlarmOnlyWhenLost`).

### Properties

*recognition*. `SlotExclusive`: no write of the surface during a read, by the
flag alone. `RecognisesOnlyWhileCapturing`: the second look at `avcapture_`,
under the mutex, catches a stop after the first. `QuietAfterStop`: nothing comes
back after a stop. `TornOnlyWhilePublishing`: rectangles and text differ only
between their two sections. `ResultsAdvance`: answers in camera order, and
`Threshold` frames apart when frames are large. `StopCompletes`, `FrameConsumed`
(liveness). `ImplementsFrameSlot` (refinement).

*bluetooth*. `PeripheralLinked`, `NoOrphanLink`: pointers and links agree, up to
events on their way. `EventsExpected`: the assertions of the event handlers.
`ScanWhenLost`: whatever locks came and went, a lost peripheral is scanned for.
`AlarmOnlyWhenLost`: no detection runs beside a connection, and an alarm that
starts beside one is between the judgements of `background_callback` and its
`VALIDATE`, which fails. `DetectorRegistered`: flags, callback and time in step.
`XmitAudioHeld`: the app is kept awake while somebody is registered.
`DetectionEnds` (liveness).

*video*. `FrameHasRenderer`, `WriteIntoTexture`, `NoFrameAfterDeconstruct`:
frames and teardown. `MutexesObtained` (liveness): the main thread gets each
sink mutex, because `OnFrame` calls it before it takes one.

*signaling*. `MessagesIntact`: what a handler is given is the next message,
whole. `BufferFits`: `Recv` stays in the buffer. `AbortsOnlyWhenLost`: no
assertion of the call fails and no null peer connection is used while the
connection is up. `MessageHandled`: what has arrived is handled.
`LostCallEnds`: after a loss a new call can be made (both liveness).

*timers*. `CallbackKept`: a callback is not destroyed while it runs.
`OwnersAndTimersAgree`: the map and the ids of the owners agree in both
directions. `NoGhostExpiry`: SDL goes on with no removed timer. `GoneForGood`: an
event still in the queue never meets a newer timer of its id. `TimersFire`
(liveness).

*lobby*. `ViewsAgree`: users of channels and channels of users are one relation.
`ListedOnce`: the assertion of `insert_user`. `Converged`: with nothing under way
the dialog shows who is in the channel, a channel that `do_task` passes over is one we
are in or were refused, and a parted channel is left. `Rejoins` (liveness): a
channel of the list is joined, unless it is refused or the connection ends. Both
except the channels that entered the connection with users or an unfinished list of
the last one (`carried`), and a channel that was once refused stays so: `err` is taken
back only when the channel is parted and joined again by hand.

### Bounds

* `MaxFrame = 11`, `Threshold = 5`: frame 1, a frame 5 later and one 5 after
  that, with a spare frame, so that the throttle acts twice. The dialog is
  closed and opened again without a bound.
* Two peripherals (the one wanted and another), two events on their way, locks
  nested twice; `MaxId = 3` makes the ids wrap at once.
* `Capture` needs no bound: it is finite, connections follow one another for
  ever.
* `MCCall`: four messages on each of two connections, the least in which a call
  is registered, set up, has a candidate or ends, and something follows; their
  sizes alternate between one and two bytes, so that a chunk may hold a whole
  message and part of the next, which is all `read_2_buffer` tells apart; two
  message boxes, two close messages under way.
* `MCTimers`: two owners, so that the callback of one meets the removal of the
  other; four timers, so that an owner gets a new one while an event of its old
  one waits; three events in the queue.
* `MCLobby`: two channels (one is never parted) for two cookies, which a third
  request, that of the friends, competes for; one other user; two connections;
  two clicks. `MaxLink = 1` only holds back messages others cause and what the
  server answers next while one is unread: nothing tells the client when a
  message was sent, only their order. `MaxRequests = 1` holds back a ping or a task,
  which are repeated anyway, but not those of the first message of a connection:
  a login that is not accepted yet, both places taken by joins the server ignores,
  and a third request that finds none are among the states.

### Assumptions about the environment

* `Patient = TRUE` (run `bluetooth`): the app waits for earlier links to settle
  before it connects. Without it `EventsExpected` is violated (`stale_events`).
* `StartInterrupted = FALSE` (run `bluetooth`): nobody clears the flags in the
  middle of `background_reconnect_detect(true)`, neither the app's coming to the
  foreground nor `background_callback` of an earlier detection. The code says they
  may (`base_instance.cpp:427`, `ble.cpp:244`); `app_event_thread` shows what then
  happens.
* `CleanReconnects = TRUE` (run `signaling`): the client connects again only
  when the last connection ended between two messages. `stale_buffer` is
  without it. The last connection of the bound is not lost.
* The handlers of `tble` are atomic but for `background_reconnect_detect(true)` and
  `background_callback`. The two reads of the judgements are one step: a stop
  between them makes the callback return false, and true the next time. The walk over
  `background_callbacks_` is interrupted only while `tble`'s callback is at work,
  and not by the app's coming to the foreground, which clears that map (an
  unsynchronised `std::map`; a race on it has no useful model at this level). Apps
  do not derive from `tble` further. Whether there is an address to reconnect to,
  and whether other music plays already, is open.
* In `Runner` frames arrive only outside painting: `OnFrame` and `draw_slice`
  hold the same sink mutex.
* Creating the peer connection and its threads succeeds.
* An error of `Recv` is nothing received, and messages are never empty.
* Posted messages are dispatched before sockets are read (`MessageQueue::Get` of
  WebRTC looks at them first).
* A callee that waits without a peer connection fails its assertion when the
  server closes (`rtc_client.cpp:527`). Nothing says that the program survives
  that; `AbortsOnlyWhenLost` speaks of connections that are up.
* Look-ups in the map of timers are atomic too. Intervals are positive and no
  callback runs an event loop: both hold for every timer in the tree.
* The IRC server answers a JOIN in one go, and so what it says of a channel
  comes before what others do there next. It may accept a login at any time after it
  took it, or never. A cookie that is overdue counts as removed.

### Fairness

* `Runner`: weak fairness of the worker and of each step the main thread has to
  take. The mutexes are SDL's, without a queue, so taking `recognition_mutex_`
  is only weakly fair, although the worker frees it in between: `StopCompletes`
  holds because of `setting_` and not of the mutex. Neither camera, user nor
  repaint is promised.
* `Ble`: time passes, threads are scheduled and events are delivered. Nothing is
  promised of the radio, the user or the app.
* `Capture`: strong fairness for taking a sink mutex or a broadcaster's lock: a
  frame thread is outside both for most of the time between two frames, so a
  thread that keeps trying gets in. Frames are not promised; that a frame in
  progress is finished is.
* `Call`: the main thread runs (weak fairness of the reading steps and of the
  posted close) and its loop looks at the socket again and again (strong fairness
  of `OnRead`, which other events of the loop may disable in between). The network, the
  user and the signaling thread are not promised, which is why `MessageHandled`
  excuses an open message box.
* `Timers`: the main thread goes on; an armed timer expires again and again,
  strongly fair because the bound on the queue, unlike SDL, often stops it.
* `Lobby`: `pump()` polls and reads (weak), the tasks and the server go on (strong,
  because the bounds and the reading disable them for a while), and requests do
  not wait for ever (`noresponse_threshold_`). No user does anything, and that a
  login is accepted is not promised.

Deadlock is not checked where the system may stop: a crashed process or a call
that never returns (`Capture`), a `VALIDATE` that fails (`Ble`), or bounds used up
(`Signaling`).

## Proofs

Each theorem holds for every value of the constants that satisfies the module's
`...Assumption`; what else it assumes is in the last column.

| module | theorems | properties | assuming |
|---|---|---|---|
| `RunnerProofs` | `Invariance`, `TypeCorrect`, `SlotIsExclusive`, `CaptureBehindRecognition`, `StopIsQuiet`, `TearingIsBounded`, `AnswersAdvance`, `Refinement` | `IInv`, all safety of *recognition*, `ImplementsFrameSlot` | |
| `BleProofs` | `TypesBle`, `XmitAudioHeldAlways`, `ScanWhenLostAlways`, `AlarmOnlyWhenLostAlways` | `TypeOK`, `XmitAudioHeld`, `ScanWhenLost`, `AlarmOnlyWhenLost` | |
| | `DetectorRegisteredAlways` | `DetectorRegistered` | `~StartInterrupted` |
| | `PeripheralLinkedAlways`, `NoOrphanLinkAlways`, `EventsExpectedAlways` | `PeripheralLinked`, `NoOrphanLink`, `EventsExpected` | `Patient`, some peripheral |
| `SignalingProofs` | `InvariantSignaling`, `TypesSignaling`, `BufferFitsAlways` | `IInv`, `TypeOK`, `BufferFits` | |
| | `MessagesIntactAlways` | `MessagesIntact` | `CleanReconnects` |
| `CallProofs` | `InvariantCall`, `TypesCall`, `AbortsOnlyWhenLostAlways`, `BufferFitsInCall` | `CallInv`, `CallTypeOK`, `AbortsOnlyWhenLost`, `BufferFits` | |
| | `MessagesIntactInCall` | `MessagesIntact` | `CleanReconnects` |
| `TimersProofs` | `InvariantTimers`, `TypesTimers`, `CallbackKeptAlways`, `OwnersAndTimersAgreeAlways`, `NoGhostExpiryAlways`, `IdsAreNotReused` | `IInv`, all safety of *timers* | |
| `CaptureProofs` | `InvariantCapture`, `TypesCapture`, `FrameHasRendererAlways`, `WriteIntoTextureAlways`, `NoFrameAfterDeconstructAlways` | `CaptureInv`, all safety of *video* | |
| `LobbyProofs` | `InvariantLobby`, `ViewsAgreeAlways`, `TypesInvariant`, `TypesLobby` | `Inv`, `ViewsAgree`, `Types`, `TypeOK` | |
| `LobbyListProofs` | `ListsInvariant`, `SeenInvariant`, `ListedOnceAlways`, `ConvergedAlways` | `ListInv`, `SeenInv`, `ListedOnce`, `Converged` | |

The assumptions are not for convenience: without each of them the property is
violated (`app_event_thread`, `stale_events`, `stale_buffer`). Types, buffer,
audio lock, scan and alarm need none, and so hold in those runs as well.

But for `AlarmOnlyWhenLost`, none of the properties is inductive. What the proofs
add is what the code relies on without saying it:

* *Runner*. `SlotExclusive` needs that the worker reads only with the flag set and
  the painter copies only with the flag clear, which needs that nobody else
  touches the flag in between, which needs who holds `recognition_mutex_`.
  `IInv` is `MutexInv` (its holder, from the places of the threads), `LifeInv`
  (members, capture and thread, from the place of the main thread), `WorkInv` (the
  worker is busy only with the frame in the slot, with a capture behind it),
  `QuietInv`, `TornInv` and `OrderInv` (screen <= work <= slot <= camera). The
  throttle needs `ThrottleInv` on top: any two of the frames in the slot, at work
  and on the screen are `Threshold` apart. The refinement takes each action to
  one of `FrameSlot`, or to a stutter.
* *Ble*. While an id is left, `get_callback_id` finds a fresh one although ids wrap
  (`FreshId`: the first free one in the order of the search exists). `ScanInv`
  says of every state without a peripheral what `ScanWhenLost` says of those in
  which none is being connected either, for a connect may fail; `OneAtATime` that
  there is never both. `ArmingInv` is what holds between
  the statements of `background_reconnect_detect(true)`. `AlarmOnlyWhenLost` is
  inductive because it names the one place where an alarm may stand beside a
  connection: before the `VALIDATE`, with the id gone, which only a new detection could
  change, and that needs the connection gone again. The links need
  `Current(p)`: with a patient app there is always one peripheral that the
  pointers, the queue and every link that is not down are about, and the queue
  has one of six contents.
* *Signaling*. At each place of `OnRead` the buffer begins with the next message
  (`AtNext`: not yet known to be whole, or whole and about to be handled) or with
  the one handled last, whole (`AtLast`); a length is only known when its bytes
  are in the buffer. `BufferFits` needs nothing of that: only how
  `resize_recv_data` rounds up (`RoundUp`).
* *Call*. First, every step is a step of `Signaling` or leaves it alone, so its
  theorems hold in the call. Then `WaitingInv`: the only client that is signed in
  without a peer connection is a callee that waits, with the video on the screen,
  where the buttons that change the role are not, and with no close under way,
  because a close posted for the last connection is dispatched before the first
  message of the next is read (`PostInv`).
* *Timers*. `Fresh`: between the halves of `add_timer` nobody has the new id;
  `Disowned`: a timer whose removal waits for its callback has no owner.
* *Capture*. Every place of the main thread decides who holds what. `MutexInv`: a
  sink mutex is the frame thread's exactly while it writes, and the main thread's
  exactly while it draws that side or holds the other one on the way through the
  teardown. `SinkInv`: a frame thread is in `OnFrame` only while its renderer is a
  sink, and a sink is a renderer that is not about to be freed. `BuildInv` and
  `CloseInv` order construction and teardown: what is added belongs to an open
  connection, what is removed is on its way out, and a connection is closed only
  after it is deconstructed. `TextureInv`: a texture comes with the size of its
  renderer. The module has no constants; the proof says why the states TLC
  enumerates are right, the number of connections being without a bound.
* *Lobby, the client*. `ViewsAgree` with the domains of the two maps is inductive;
  one lemma for each operation on the lists. `TypeOK` needs to know what may be read
  next, so `Types` adds what either direction carries (`Messages`, `Req`), and that
  nothing is on its way without a connection. At most `max_noresponse_msgs_` cookies
  wait, since every task passes through `insert_noresponse_msg` (`GoodWork`): a task
  only adds requests behind those that wait (`Extends`), joins of wanted channels
  among them. `do_task` is a recursive function; that it is defined and keeps that
  for any number of channels is shown by a least counterexample (`Least`,
  `LoopEnds`, `VisitedIs`), not by induction over an operator.
* *Lobby, the lists*. `ListInv` describes the two queues. `Whole`: the messages of
  a list come together. `Receiving`: a list that was begun has its rest at the head of
  the link, or was cut off by the end of a connection and no other can come before
  the channel is joined again. `Parted`: a channel that is out of the map has a part
  behind each of its joins, so it is left in the end. `Follows`: the last message about
  a user in a channel says what the server knows, and if there is none the list of the
  channel does (`LastWord`); the first message of a list speaks of everybody, because
  it replaces the list. `ListedOnce` follows from `Receiving`: when the second message
  of a list comes, the channel holds this client and nobody else.
* *Lobby, what `do_task` passes over*. `SeenInv`: a channel that has users or a list
  begun, although the server does not count us in, has a join on its way or was
  refused (`Known`); a part of a channel that is in the map again has a join behind it
  (`Returning`); before the login is accepted, when the server drops joins, no list and
  no join of another is on the way and no channel looks joined
  (`LoggedIn`, with `carried` excepted, which is where the code fails).
  With `Follows` and `Parted` this gives `Converged`.

A proof that a step keeps an invariant has one step or lemma for each action.

Only model-checked: everything about liveness (`StopCompletes`, `FrameConsumed`,
`DetectionEnds`, `MutexesObtained`, `MessageHandled`, `LostCallEnds`,
`TimersFire`, `Rejoins`), because fairness and `ENABLED` are out of the prover's
reach. Every other property of a passing run is a theorem. No module has a `RECURSIVE`
operator.

`LobbyAssumption` says what the map of channels is (a sequence of channels, the app's
among them, the friends not), that this client is none of the other users, and that at
least one connection is made, since the last one the bound admits is not lost.

## Not modelled

* The OCR dialog: the pipeline of `trunner` with other recognisers and the join
  before the destruction.
* The task engine of `tble` (no app in the repository has tasks), `Release` and
  the completion message of `SignalThread`.
* The bytes of `send_data_`: who sends when, and on which state of the socket, is
  in `Call`; that two threads append to one buffer is among the hazards.
* Lobby: a nick that is refused or changes, the list of channels, online flags,
  text messages, logs; the http and transit sockets; a click in the dialog while
  there is no socket (`tcp_send_len`, `lobby.cpp:1445`, would use a null `socket_`). Chat: history, sessions.
* File tasks (copies with a rollback: the file system is their whole state).
* Widgets, layout, images, sound, text formats, formulas, inference: single-threaded,
  pure, or I/O. Vendored libraries, except as far as they call the code above.

By lines the repository is mostly vendored libraries (WebRTC, TensorFlow Lite,
OpenCV, SDL headers) and widgets; what is modelled is small in comparison, but it
is where the program's own threads, connections and devices meet.

## Plan

Done: `FrameSlot`, `Runner`; `Background`, `Ble`; `Capture`; `Signaling`; `Call`;
`Lobby`; `Timers`; and the proofs above. Left, in this order:

1. `Ocr`: `tocr` as a second implementation of `FrameSlot`, with the join before
   the destruction and `lines_` read without its mutex.
2. `Ble` with the width of `SDL_GetTicks`, and the steps of a task against the loss
   of the peripheral (`ble.cpp` 406-531).
3. `SignalThread`: reference count, `Release` against the completion message.
4. The focus and capture of the mouse in the event distributor.
5. Proofs: the refinement of the hand-over by `Ocr`, and the safety of what 2 and 3 add.
