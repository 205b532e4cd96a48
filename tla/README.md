# phonefast in TLA+

phonefast is a daemon that keeps sessions to Android devices open and lets
command-line and MCP clients drive them over a Unix socket.  This directory
holds TLA+ models of the program, the TLC configurations that check them, and
TLAPS proofs about them.  Most of it is about the places where several
goroutines or processes meet; the rest is the program's own algorithms.
Paths and line numbers refer to `src/`.

Contents: [inventory](#inventory), [modules](#modules-and-the-code),
[runs](#runs), [properties](#properties), [fairness](#fairness),
[divergences](#divergences), [proofs](#proofs),
[what is not modelled](#what-is-not-modelled), [what is left](#what-is-left).

## Inventory

A command (`cmd/phonefast`) or the MCP server (`internal/mcp`) makes a
`Client`.  A client dials the daemon's socket, sends one JSON-RPC request and
waits for one answer.  If nobody listens, it calls its `Supervisor`, which
starts the daemon as a child process, and retries once.  In the daemon one
goroutine per connection (`handleConn`) gets the `DeviceActor` of the serial
from the registry, connecting the device if need be, hands its request over on
a channel, and waits.  The actor's goroutine owns the `Session` and executes
one request at a time.  A session has connections of its own to the server on
the device, a goroutine that drains the video and one that reads the control
socket; an observe starts two more.

| component | state | operations | hard behaviour | what makes it correct |
|---|---|---|---|---|
| scid allocator (`daemon/scid.go`, `pkg/protocol/scid.go`) | used scids, used ports | Alloc, Release | hash collisions, a full window, any order of releases | ports of scids in use differ; none is lost |
| device registry (`daemon/daemon.go`) | serial -> actor, serial -> mutex, wait group | getOrCreateActor, connectMutex, removeDevice, cleanup | three locks; connects take seconds; disconnects and shutdown in the middle of one | one actor per serial, one owner per scid, no actor lost, shutdown ends |
| device actor (`daemon/actor.go`) | session, last reconnect, status | handleRequest, tryReconnect, healthCheck, run (panic restart, exit) | timeouts on both sides of a channel, replays, throttling, panics | nothing performed twice that must not be, nothing taken stays unanswered, sessions closed |
| connection handler (`daemon/server.go`) | a request and its reply channel | handleConn | the actor disappears, two timeouts, shutdown | one answer per request, which is true |
| RPC dispatch and handlers (`daemon/dispatch.go`, `handlers.go`, `params.go`) | none | one handler per method | defaults, limits, fallbacks between two readings of the screen | an index or a position means to the next request what it meant to the last |
| daemon process (`daemon/daemon.go`, `daemon_unix.go`, `pidfile.go`) | pid file, its lock, socket | Start, cleanup | crashes; names removed under their owners | one daemon; the names lead to it |
| supervisor (`daemon/supervisor.go`, `supervisor_unix.go`) | restart in flight, its channel, last error | EnsureRunning, restartOnce, forceStop, Stop | concurrent callers; a child that dies or hangs | one restart at a time, everyone returns, a restart heals |
| client (`daemon/client.go`) | none | Call, callOnce | its deadline against the daemon's; retry | a request is not sent twice |
| session (`session/session.go`) | connections, control error, closed flag | Connect, Close, drainFrames, readDeviceMessages | Close against its own goroutines; connections that die | a dead part is noticed, goroutines end |
| screenshots (`session/video.go`) | latest frame, last action, last reset | ScreenshotFormat, preheat, resets | frames in flight, reset windows of 100, 300 and 400ms, a sleeping encoder | a frame served as fresh arrived after the last action |
| observe (`session/control.go:367`, `observe_full.go`) | two result channels, timers | observe, observeFull | fetchers that outlive the watchdog | nothing uses the session after the return, within the grace |
| text input (`session/control.go:148`, `adb/ime.go`) | IME gate, the device's IME | TypeText, waitPFIMEBound | a retry after a failed probe, failing commands, crashes | no text is typed before the IME runs; the user gets his back |
| touch and keys (`session/control.go`, `pkg/protocol/control.go`) | control connection | Tap, Swipe, PressKey ... | a broken connection; one wrong length misplaces all that follows | the other side reads what was meant |
| UI tree (`session/ui.go`, `pkg/protocol/ui.go`) | persistent connection | GetUIElements, GetUIFull | stale connection, late answers, retry | an answer belongs to its request |
| formats (`internal/format`) | none | four formats, two lists | elements dropped while others name them; texts from the screen | nothing on the screen disappears, texts read back |
| video decoding (`pkg/h264`, `pkg/avcodec`) | read buffer, latest keyframe, held parameters | ReadFrame, Feed, EncodeLatest | parameters told from pictures by their bytes | pictures reach the decoder behind their parameters |
| OCR (`ocr`) | lazily made engine | Recognize, Warmup, Close | CTC, connected components, rectangles | text is found once and whole |
| adb (`internal/adb`) | the device's scrcpy process, forwards | StartServer, StopServer, IME commands | pkill by serial kills any server of ours | one server per device |
| MCP server, command line, log | none, or a buffer | text in, text out | - | layout |
| Android agent (`android/phonefast-agent`) | runs on the device | UI dump | external | - |

## Modules and the code

| module | models | proofs |
|---|---|---|
| `ScidAllocator` | `scid.go`, `pkg/protocol/scid.go` | `ScidAllocatorProofs` |
| `DeviceRegistry` (EXTENDS `ScidAllocator`) | `daemon.go:183-277, 459-494`, the outer half of `actor.go`, `Session.Connect`/`Close` as far as they meet | `DeviceRegistryProofs` |
| `DeviceActor` | `actor.go:132-304`, `server.go:250-302` | `DeviceActorProofs` |
| `SingleFlight` | what `EnsureRunning` promises, abstractly | - |
| `Supervisor` | `supervisor.go:135-176, 254-297` in one process; refines `SingleFlight` | `PartsProofs` |
| `DaemonFiles` | `daemon.go:298-406, 459-494`, `daemon_unix.go`, `pidfile.go`, `supervisor.go:178-384`, across processes | `DaemonFilesProofs` |
| `DaemonClient` | `client.go`, and the handler and the daemon as a call sees them | `PartsProofs` |
| `Session` | the goroutines of `session.go`, `video.go`, the observes of `control.go` and `observe_full.go` | `SessionProofs` |
| `TextInput` | `control.go:148-340`, `adb/ime.go` | `PartsProofs` |
| `UiSocket` | `session/ui.go`, the exchange of `pkg/protocol/ui.go` | `PartsProofs` |
| `Requests` | `dispatch.go`, `handlers.go`, `params.go`, the readings of the screen in `session/ui.go` | `AlgorithmsProofs` |
| `UITree`, `TextOutput` | `internal/format` | `AlgorithmsProofs` |
| `ControlMessages` | `pkg/protocol/control.go` | `AlgorithmsProofs` |
| `VideoPackets` | `pkg/h264/decoder.go`, `Feed` of `pkg/avcodec/stream_astiav.go` | `AlgorithmsProofs` |
| `Ctc` | `ocr/common/ctc.go` | `AlgorithmsProofs` |
| `TextBoxes` | `ocr/common/postprocess.go`, `ocr/postprocess` | `TextBoxesProofs` (EXTENDS `AlgorithmsProofs`) |
| `Subsequences` | the loops of several of them that append some elements of a sequence | `AlgorithmsProofs` |
| `Algorithms` (EXTENDS the seven above) | one call of an algorithm, and the references it is compared with | `AlgorithmsProofs` |
| `MC*` | inputs, symmetry sets and the composition of parts, for TLC | - |

**ScidAllocator.** `usedScid` and `usedPort` are the two maps of the Go type.
`Alloc(scid)` is Alloc returning `scid`: the first scid of the scan, from
`DefaultScid` upwards over `Window` scids, that is unused and whose port is
unused.  The hash `scid * HashMul % HashMod + PortBase` has its numbers as
constants, so that small instances collide; the run `allocator_ports` uses the
program's own.

**DeviceRegistry.** A handler is a process with a `pc`; a step is what the code
does under one lock, or between two points at which another goroutine can
see the difference.  `Lookup`, `ConnectMutex`, `LockSerial`, `Recheck`,
`NewDeviceActor`, `AllocatorExhausted`, `ConnectFailed`, `Store`,
`DiscardDuplicate` and `ReleaseDuplicate` are `getOrCreateActor` line by line;
`RemoveDevice` and `StopActor` are `removeDevice`.  `Connect` has two steps,
between which the device may have got another server: `StartServer` kills
whatever server runs and starts ours, `Handshake` needs ours to be there.
`CloseSession` kills whatever server the device runs, because `StopServer`
does.  `sess` and `server` together say whether an actor's session is alive.
Two things are taken on trust of adb, and `StoppedLeavesNoServer` rests on them:
`pkill` works (`deploy.go:320` drops its errors), and an `adb shell` that reports
an error has launched nothing (`session.go:163-165` returns without `Close`, so
that a server launched all the same would stay).
An actor's goroutine is in `life = "running"`; `Reconnect`, `RecoverPanic` and
`ActorExit` are its steps.  `Cancel`, `Cleanup` are the shutdown.  Actor and
mutex objects come from bounded pools and return to them when no pointer
reaches them.

**DeviceActor.** One actor after `newDeviceActor`, in the detail the registry
leaves out: `Receive` is the rendezvous on `reqCh`, `Dispatch` a call of the
dispatcher with any outcome a device method can have (it may or may not have
acted on the device, the session may or may not have died of it), `Reply` the
send on the buffered `replyCh`.  A reconnect is `StartReconnect`, which closes
the old session and notes the time, then `ConnectOK` or `ConnectFails`.
`SendTimeout`, `ReplyTimeout`, `ShutdownAnswer`, `TakeReply` are the arms of
the two selects in `handleConn`.  Timers may fire whenever they run.
`delivered` and `firstResp` are history, read by properties only.

**Supervisor** and **SingleFlight.** `EnsureRunning` as N goroutines run it:
`CheckHealth`, the critical section `Enter` (with its three outcomes
`JoinWaiters`, `GiveUp`, `Win`), `Wake`, `ReturnLastErr`, and `restartOnce` as
`CheckAndClean`, `SpawnWorker`, `WaitForSocket`, `Publish`.  Channels are
numbers; `closed` holds those that have been closed.  `SingleFlight` keeps only
which caller restarts, who has tried and who has returned; the mapping reads
the restarting caller off the `pc`s.

**DaemonFiles.** Each daemon runs `Start` and `cleanup` one system call at a
time; each supervisor runs one command.  A file is named after the daemon whose
`open` created it, `pidFile` is the file the name stands for now, `locked` the
owner of each file's `flock`.  Removing a name does not touch the file, its lock
or its text.  `Die` drops a process's locks, as the kernel does.  `Start`
begins either in `Init` or in `SpawnWorker`.  SIGTERM and SIGKILL are
`Terminate` and `KillDaemon`.  The socket's name is removed by closing a Go
listener too (`CloseListener`), whoever's it is by then.

**DaemonClient.** One `Call` at a time: `Dial`, `Ensured` (whatever the ensurer
says, which `Supervisor` models), `WriteRequest`, `ReadResponse`, `ReadDeadline`,
`ConnectionLost`; `Bind`, `HandOver`, `Answer` are the stages of `handleConn`,
`Perform` is the actor's dispatch of the request and `Replay` its second one,
after an error that finds the session dead (`actor.go:212-219`), either of which
may reach the device.  `sent` counts what the call has written, `performed` what
a device has done.  Waits take no time or all they may, in units
of five seconds; `waited` adds them up.

**Session.** `Drain`, `DrainReads` and `Feed` are `drainFrames` and
`feedStreamDecoder`, with the gap between the nil check and the call;
`ReaderFails` is the end of `readDeviceMessages`.  The actor is inside one call:
an action (`ActBegin`, `ActWrites`, `preheatKeyframe`), a picture (`Shot`, which
is `ScreenshotFormat` with `tryEncode`, the waits, the two ways to ask for a
keyframe and the legacy path), an observe (`Observe`, `Collect`) or `Close` in
its three stages.  The fetcher of an observe runs `Shot` too, beside the actor.
What the code compares with now is an age in `Tick`s, capped where it no longer
matters.  `image` says whether the cached frame arrived after the last action on
the device, and `since` whether one has arrived since the action before the
call; a frame is `"late"` if it arrived after the action from a packet that was
read before it, which is all that the model knows of what a frame shows.  None
of these is known to the code, which knows `fresh` and the ages.  A reset has two steps, `CheckReset` (`resetInFlight`) and
`ForceReset`, since nothing holds a lock over both.

**TextInput.** `EnsurePFIME`, `SetPFIME`, `ProbePidof`, `SeeProcess`,
`WaitFails`, `TypeAgain`, `TypeTextB64` and `RestoreIME` are the commands of
`adb/ime.go` and the gate of `control.go`, each of which may fail on either
side; the device starts and loses the keyboard's process, the user switches
keyboards, the program may be killed.

**UiSocket.** The connection that a session keeps, the requests written and
the answers not yet read on it, by whose they are; two readers, the actor and a
fetcher that an observe may have left behind.  Nothing but the order tells
whose an answer is.  Durations are seconds, so that the limits add up.

**The algorithms** are operators, with the names of the Go functions, over small
records and sequences.  `Requests!Dispatch(dev, req)` is what a request does to a
device and what it lists; `UITree` the formats' trees; `TextOutput` their
escapes, with a reader per format; `ControlMessages` the encoder and the
server's reader of the same bytes, and the reverse; `VideoPackets` the scan for
NAL units and what is sent to the decoder; `Ctc` and `TextBoxes` the OCR's
decoding and geometry in integers.  `Algorithms` is a machine of one step that
takes a call from `Calls` and computes its result.

## Runs

TLC needs the bounds below; a "fault" is a step that the program does not
control, and `MaxFaults` (in `TextInput`, `MaxIncidents`) caps how many a
behaviour has.

| run | asks | bounds and why they are enough |
|---|---|---|
| `parts` | everything that stands alone; `MCParts` picks one part per behaviour | below |
| `binds` | does the per-serial mutex do its job when nobody disconnects? | 3 handlers, 3 serials, 2 ports: contention on one serial, all serials at once, an exhausted allocator; 1 fault; shutdown |
| `disconnects` | who owns scids, actors and servers when binds, disconnects, a fault and the shutdown race? | 2 handlers, 1 serial, 3 actors, 3 mutexes: a disconnect leaves one actor closing, one connecting and one registered on one device, which is as many as two handlers can make; requests are unlimited in number |
| `actors_heal` | does a registered actor get its session back, do requests return? | 2 handlers, 1 serial, 2 actors, no fault: servers die of other actors' connects and closes only, the case that is about this code |
| `shutdown` | does a cancelled daemon end? | 2 handlers, 2 serials, 1 fault at any point |
| `actor` | replay, timeouts, throttle, panics, leaks, recovery | 2 requests: one in the actor, one waiting or gone; 2 faults: a session dies and the reconnect fails, or panics twice |
| `session` | does what is served as fresh arrive after the action, are deaths noticed, calls and goroutines ended? | one session to its end, any number of calls and frames; windows of 1, 1, 2 and 1 ticks: every order of the code's 100, 300 and 400ms and its cap occurs, as each may or may not have passed at every step |
| `files` | does the lock keep daemons apart, do commands end, does a restart heal? | 3 daemons, 1 command, 2 faults: two daemons die, one is left to spawn |
| `allocator_ports`, `disconnect_mutex`, `files_stop`, `session_decoder` | [divergences](#divergences) | the smallest instances that show them |

In `parts`:

| part | bounds |
|---|---|
| allocator | window 8, 7 ports: collisions, exhaustion of ports before scids, and every order of releases |
| text input | 3 incidents: a command fails, the user switches, the process dies, in one life or over several sessions |
| UI socket | two requests on the wire: a late answer before the next request's; the program's own limits in seconds |
| supervisor | 3 callers: a winner, a waiter and a late comer; 2 faults |
| client | the program's own 35, 60 and 90s; daemons die and start without limit |
| trees | all dumps of up to 4 elements in depth-first order, 3 kinds of element, missing parents: chains of two containers above a kept element, siblings behind them, several windows |
| lists | up to 3 elements of 5 kinds, limits below and above their number, with and without a viewport |
| texts | up to 4 characters of 7, up to 2 of all: an escape before, after and inside a run of spaces |
| control socket | up to 2 messages out, 3 in, with values at the limits and lengths with a zero byte |
| packets | up to 4 of 5 packets: parameters before parameters, parameters that hold a start code, keyframes with and without parameters of their own |
| CTC | up to 4 steps of 3 classes: repeats with and without a blank between, ties, classes beyond the dictionary |
| boxes | all subsets of a 4 by 3 grid; rectangles in 6 directions for the score |
| requests | screens of up to 3 nodes that either reading may drop, 3 ways for the fast reading to end, 4 lists |

Deadlock is checked in every run except the two of `DaemonFiles`, which stops
when all processes have ended (`CHECK_DEADLOCK FALSE`); elsewhere `Terminated`,
`Returned` and an answered call stutter only in states in which the program has
ended.  Symmetry is used in safety runs only.

## Properties

- `VideoPortsDistinct`, `NoPortLost`: two scids in use never forward the same
  port; if the window still has a scid with a free port, Alloc finds one.
- `ScidOwnership`: the scids in use are exactly those of actors that are
  connecting, registered or being removed, and these have different ports.  A
  leak, a double release or the release of another actor's scid breaks it.
- `NoLostActor`: a running, uncancelled actor is in the map or about to be
  cancelled.
- `StoppedLeavesNoServer`: a stopped daemon has no server on any device,
  although handlers may publish actors after the cancel.
- `OneConnectPerSerial`, `RegisteredStaysConnected`: the mutex, and what it is
  for.  Both hold without disconnects only.
- `RegisteredActorHeals`, `EveryRequestReturns`, `ShutdownCompletes`: liveness.
- `SessionsNotLeaked`: the actor's session is the one open on the device.
- `BusyMeansUndelivered`, `TimedOutCallNotReplayed`: no request that the client
  may repeat, or that timed out, is performed behind its back.  Any other error
  of a session that has died is replayed, and such a request may be performed
  twice: that is the code's choice, and the models have it.
- `OneAttemptPerCooldown`, `TakenIsReplied`, `SessionRecovers`: the throttle
  works, and it stops neither answers nor recovery.
- `RequestSentOnce`: the client's own retry never sends a request a second time;
  only the actor's replay performs one twice; and a call that reports an
  unreachable daemon has sent nothing and had nothing performed.
- `ImplementsSingleFlight`, `EnsureRunningReturns`: refinement, and that every
  call ends and wakes its waiters.
- `UndisturbedIsFindable`: as long as nobody removes names, one daemon at most is
  past the lock and the one that serves is found.  `RestartHeals`,
  `CommandsReturn`: a restart brings up a daemon that can be found, whatever a
  crash left; commands end.
- `ArrivedAfterAction`: a frame that is served from the stream without a warning
  arrived after the last action before the call.  This is the code's rule, and it
  is about arrival; what such a frame shows is another matter
  ([divergences](#divergences), `ServedFrameShowsAction`).
- `FetchersJoined`: no fetcher runs on once its observe has returned, unless that
  waited out its deadline and its grace.
- `DeathNoticed`, `CallsReturn`, `GoroutinesEnd`: a dead connection makes the
  session not alive, calls return, `Close` ends both goroutines.
- `NoBroadcastIntoDropWindow`, `KeyboardGivenBack`: no text goes to a keyboard
  that does not run yet; the user's keyboard comes back.
- `AnswersMatchRequests`: a reading is the answer to its own request, whatever
  timed out on the connection before.
- `CompactionKeepsTree`, `TreeShowsEveryElement`, `NothingMeaningfulHidden`:
  what the formats drop and nest, against the ancestors in the dump.  Compaction
  is checked on dumps that hold every parent (`calcDepth` gives an element
  without one depth 1, `format.go:360-363`); the tree formats on all.
- `WrittenTextReadsBack`, `ControlStreamInSync`: what is written is read back by
  the other side's own grammar.
- `ConfigReachesDecoder`: nothing of the stream is lost or held back on its way
  to the decoder but parameters that others replaced.
- `DecodersCollapseThePath`, `BoxesCoverText`, `FastPathAgrees`: the OCR's
  algorithms against their definitions.
- `ListedIndexTaps`: a listed index taps the element it was listed for, as long as
  the screen stays as it was.

Each property has a mutant of the model, named after the definition it
replaces (`ConnectFailed_KeepsScid`), that breaks it as a plausible bug would.

## Fairness

Goroutines and processes are scheduled: each has weak fairness of its steps.
Handlers of the registry have strong fairness: they wait for a `sync.Mutex`,
which hands over to a waiter that has starved for 1ms, and (in the model only)
for an object of the bounded pool.  `ActorExit` is strongly fair because
`select` picks at random among its ready cases, so that a cancelled actor
cannot take requests for ever.  Timers that run fire (`CooldownExpires`,
`Restart`, the arms of handlers).  Nothing is assumed of faults, requests,
disconnects, signals, or the end of a command's process.  `RegisteredActorHeals`
speaks of actors that stay registered, `RestartHeals` of a moment with no
other daemon running and one still to spawn.

In `Session` the drain and the actor's call are fair, and a read on a dead or
closed connection fails.  Nobody is obliged to send a frame, to begin a call or
to close, and a fetcher may hang for ever: `CallsReturn` holds because an
observe's waits end by themselves.

## Divergences

Four runs show where the code and what is written about it disagree:

- `allocator_ports`.  `scid.go:29` says forwarded ports never collide.  Only the
  video port is reserved; `session.go:158` forwards that plus 10 for the UI.
  Scid 63 has video port 27236 and UI port 27246, the video port of scid 73.
- `disconnect_mutex`.  `daemon.go:172` says one connect per serial at a time.
  `removeDevice` deletes the mutex from the map while it is held or waited on;
  the next bind makes a second one.
- `files_stop`.  `daemon.go:344` says the lock keeps one daemon from deleting
  the other's socket.  `cleanup` releases the lock before it removes the socket
  and the pid file by name; a daemon that starts in between loses both.
- `session_decoder`.  `session.go:84-87` says `streamDec` is written only before
  `drainFrames` starts.  `Close` sets it to nil (`session.go:439`) while
  `drainFrames` may stand between its nil check and its call, which then panics
  in a goroutine that nothing recovers.

More are stated as properties in the modules and are refuted by TLC in the
instances named here; no configuration is kept for them:

- `OpenSessionsHaveDistinctPorts` (`DeviceRegistry`, 2 handlers, 2 serials, 3
  actors, binds and disconnects): `removeDevice` releases the scid before the
  actor's goroutine has closed the session that uses its port (`daemon.go:261`).
- `ThrottledOnlyAfterFailure` (`DeviceActor`, 2 requests, 3 faults): `actor.go:60`
  says that a *failed* reconnect starts the cooldown; any attempt does
  (`actor.go:239`), so a session that dies within 10s of a good reconnect makes
  requests fail.
- `OneSpawnWithoutFaults` (`Supervisor`, 2 callers, no fault): `waitForSocket` is
  content with the socket, `healthy` wants the pid file, which is written later
  (`daemon.go:360`), so that the next caller restarts a daemon that is starting.
- `NilMeansUp` (`Supervisor`, same instance): a caller that has attempted once
  returns `lastErr`, which is nil when the last restart saw a socket
  (`supervisor.go:157`).
- `DeadChildNoticed` (`DaemonFiles`, 2 daemons, 1 restart): the child is never
  waited for, so a dead one is a zombie to which signal 0 succeeds
  (`supervisor.go:353`, `pidfile.go:61`), and the grace of `supervisor.go:362`
  is never used.
- `OneDaemon` (`DaemonFiles`, 2 daemons, 2 restarts, no fault): `restartOnce`
  unlinks a pid file that a starting daemon has locked and not yet written
  (`supervisor.go:269`).
- `ControlConnHeld` (`Session`): `session.go:476-478` has callers hold the control
  connection's lock; actions check the field and use it unlocked, so that a
  reader that fails in between makes them write to nil.  The actor recovers.
- `ServedFrameShowsAction` (`Session`): what the freshness rule is for.  A packet
  that the drain has read before an action and decodes after it arrives after
  it, and passes for fresh (`video.go:97-104`).  So do, beyond the model, packets
  that are still in the socket, and those of the 100-300ms in which the encoder
  goes on sending the old screen (`video.go:73-75`).
- `ResetsSpaced` (`Session`): `video.go:113` says that a reset is deduped against
  one in flight, `video.go:182` that there is exactly one.  `resetInFlight` and
  `forceRequestKeyframe` lock separately; after the check, the drain's own reset
  after a decoding error may go out (`session.go:319`), or that of a fetcher that
  an observe has left behind.
- `LegacyPictureCurrent` (`Session`): without a stream decoder any keyframe
  younger than `freshKeyframeWindow` counts as current, an action since or not.
- `DrainIsEnough` (`UiSocket`): `control.go:323-327` says that 5s are always enough
  for a fetcher to end.  The fallback over adb may take 40s.
- `DaemonAnswersFirst` (`DaemonClient`): `client.go:65-70` gives the client 90s so
  that it outlasts the daemon.  35s to hand over and 60s to answer are more;
  the client is told of a timeout while its request is still being performed.
- `OcrCenterTaps` (`Algorithms`, with `Calls <- MCOcrCalls`): `DEV.md:534` has OCR's
  centres tapped.  They are positions in the video, and `tap` takes positions of
  the display; the two differ whenever the video is scaled.

Met while reading, and part of the models or left aside with what they belong
to: `docs/CLI.md:239` takes an index from `observe`, whose list is another than
`tap_element`'s (and the fallback over adb filters differently, so that indices
agree only while the ways to read the screen are as they were).  Parameters of
a wrong type count as 0 in `tap`, and `swipe` does not require its own.  A daemon
that is killed while PFIME is selected never restores the user's keyboard, and
`Connect` forgets which it was if anything in `EnsurePFIME` fails (`ime.go:37`).
The gate stays active when the user switches keyboards.  `buildTree` keeps only
the first window's tree.  `simplexml` drops hints, which `pkg/protocol/ui.go:39-41`
says formats show; `jsonl` drops visibility, `yml` enabled, focused and selected.
`CollapseWS` keeps runs of spaces in a text without control characters.
`ElementsForLLM` is documented to show 100 for 0 and shows none.
`DecodeBeamFlat` drops repeated characters, the NAL scan takes any byte for the
fourth of a start code, and the length byte of `StartApp` wraps beyond 255.

## Proofs

TLC checks the instances above; TLAPS checks the theorems below for every value
of the constants that meets the named assumptions.  Each safety theorem has the
same shape: an invariant that `Init` establishes, that every step of `Next`
preserves (one proof step per action), and that implies the property.

| module | theorem | says |
|---|---|---|
| `ScidAllocatorProofs` | `AllocTypeCorrect` | scids stay in the window, ports in the hash's range |
| | `VideoPortsNeverCollide` | no two scids in use share a video port |
| | `AllocLosesNoPort` | `NoPortLost`: `Alloc` fails only when every port is taken, if `HashMul` is invertible modulo `HashMod` and `HashMod < Window` |
| | `ProgramLosesNoPort` | the same for the program's 31, 100 and 256 |
| `DeviceRegistryProofs` | `RegistryTypeCorrect` | `Spec => []TypeOK` |
| | `ScidsHaveOneOwner` | `Spec => []ScidOwnership` |
| | `NoActorIsLost` | `Spec => []NoLostActor` |
| | `StopLeavesNoServer` | `Spec => []StoppedLeavesNoServer` |
| | `RegistryImplementsAllocator` | `Spec => AllocSpec`: a step of the registry is one of the allocator or leaves it alone |
| | `RegistryLosesNoPort` | `Spec => []NoPortLost`, with the hypotheses of `AllocLosesNoPort` |
| | `LocksHaveHolders` | `Spec => []LocksAreHeld`: a locked mutex has one holder, which is between its Lock and its Unlock |
| | `MutexKeepsConnectsApart` | `Spec => []OneConnectPerSerial`, if nobody disconnects |
| | `RegisteredKeepsItsServer` | `Spec => []RegisteredStaysConnected`, if nobody disconnects |
| `DeviceActorProofs` | `SessionsStayWithTheActor` | `Spec => []SessionsNotLeaked` |
| | `BusyRequestsLeaveNoTrace` | `Spec => []BusyMeansUndelivered` |
| | `TimedOutRequestsReachTheDeviceOnce` | `Spec => []TimedOutCallNotReplayed` |
| | `ReconnectsAreThrottled` | `Spec => []OneAttemptPerCooldown` |
| `PartsProofs` | `RestartsAreShared` | `Spec => ImplementsSingleFlight`: the refinement |
| | `WaitersAreWoken` | `Spec => []NoLostWakeup` |
| | `CallsSendAtMostOnce` | `ClientSpec => []RequestSentOnce` |
| | `KeyboardIsGivenBack` | `TextSpec => []KeyboardGivenBack` |
| | `NothingTypedIntoDropWindow` | `TextSpec => []NoBroadcastIntoDropWindow` |
| | `ReadersGetTheirAnswers` | until an observe gives up on its fetcher, a reading is the answer to its own request |
| | `ObserveFullKeepsAnswersMatched` | `AnswersMatchRequests`, if twice `DialLimit + ReadLimit` is within `FullWindow` |
| `SessionProofs` | `ServedFramesArriveAfterAction` | `Spec => []ArrivedAfterAction` |
| | `FetchersOutliveOnlyTheGrace` | `Spec => []FetchersJoined` |
| `DaemonFilesProofs` | `LocksStayExclusive` | `Spec => []LocksAreExclusive`, whatever commands do |
| | `LockKeepsDaemonsApart` | `Spec => []UndisturbedIsFindable` |
| `AlgorithmsProofs` | `EveryStreamReachesDecoder` | `AlgSpec => []ConfigReachesDecoder`, for streams of any length |
| | `EveryListAnnouncesTheRest` | `AlgSpec => []NothingMeaningfulHidden`, for lists of any length and any limit |
| | `EveryTextReadsBack` | `AlgSpec => []WrittenTextReadsBack`, for texts of any length |
| | `EveryListedIndexTaps` | `AlgSpec => []ListedIndexTaps`, for any screen |
| | `EveryPathIsCollapsed` | `AlgSpec => []DecodersCollapseThePath`, for any scores |
| | `EveryMessageIsReadBack` | `AlgSpec => []ControlStreamInSync`, for any number of messages of any values that fit their fields |
| | `EveryCompactionKeepsTree` | `AlgSpec => []CompactionKeepsTree`, for dumps of any size and depth |
| | `EveryTreeShowsEveryElement` | `AlgSpec => []TreeShowsEveryElement`, for the dump of one window of any size and depth |
| `TextBoxesProofs` | `EveryTextIsFoundOnceAndWhole` | `AlgSpec => []TextFoundOnceAndWhole`, for any set of pixels and any limit |
| | `EveryTextIsInASmallBox` | `AlgSpec => []BoxesCoverText`, likewise |
| | `EveryBoxIsScoredInside` | `AlgSpec => []FastPathAgrees`, for any rectangle with corners on the grid and any size of the map |

**`ScidAllocator`.**  `VideoPortsDistinct` is not inductive: a release could free
a port that another scid still uses.  The invariant adds that `usedPort` is the
image of `usedScid` under `ScidPort`, and that `ScidPort` is one-to-one on
`usedScid`; the loop of `Alloc` takes a scid whose port is outside that image.
The hash is a constant function, so this holds for any hash.

That no port is lost needs more of the hash: `HashMulInvertible` (some number
times `HashMul` is 1 modulo `HashMod`) makes any `HashMod` scids in a row hit
every port, and `HashMod < Window` puts that many within the scan.  An `Alloc`
that finds no scid then finds every port taken.  31 is invertible modulo 100
(31 * 71 = 2201), and 100 < 256.

**`DeviceRegistry`.**  `ScidOwnership` speaks of actors, but it is handlers and
the map that hold them.  `RegInv` adds to it and to `TypeOK`:
- `HandlersHold`: a handler that builds an actor has one that is connecting; one
  that stops an actor has one that has left the map;
- `HoldersDiffer`: no two handlers hold the same actor (else each would release
  its scid);
- `MapIsSound`: an actor in the map is registered under its own serial and lives
  (else a removal would release the scid of another, or of a reused object);
- `InUseHasSerial`: an actor in use has a serial and a scid.

Four things can then happen to a scid: it is leased (`LeaseKeepsOwnership`), it
is given back (`ReturnKeepsOwnership`), it changes hands, or it stays where it
is (`UnmovedKeepsOwners`, which covers all of `Connect`, reconnects and faults).
`NoLostActor` follows by a second induction over `RegInv`.  The same cases show
that what the registry does to `usedScid` and `usedPort` are steps of the
allocator (`RegistryImplementsAllocator`).

`StoppedLeavesNoServer` is about what `cleanup` waits for. `ServerInv` says that
an actor which connects for the first time is in the hands of the handler that
builds it (`BuiltByHandler`); that a server runs only for an actor that has a
session on its device, and nobody leaves a session behind (`SessionsInv`); and
that a daemon that has stopped has idle handlers and no running actor
(`StoppedIsQuiet`). `RegisteredStaysConnected` adds `CalmInv`: before any fault
or cancellation a running actor is registered and has its own server, and
whoever is about to connect finds nobody registered for its serial. `MutexInv`
says that a handler past `connectMutex` holds the mutex that the map has for its
serial; it needs `"disconnect" \notin Ops`, and the run `disconnect_mutex` shows
what happens otherwise. With disconnects a mutex may have left the map while it
is held; `LocksAreHeld` is what remains true of it.

**`DeviceActor`.**  The properties speak of requests that have been answered; the
step that could break them is taken by the actor with a request in hand.
`ActorInv` says where such a request stands: its handler has submitted it and
will not be told busy (`HandOverInv`), before its first dispatch it has left no
trace, and before its second it has been performed once at the most and has not
timed out (`ReplayInv`).  `SessionInv` adds that there is no session during a
connect and after the end.

**`Supervisor`.**  `SupInv`: at most one caller is inside a restart; `inFlight` says
so, and its attempt is noted.  The mapped `Winner` is then that caller, so that
`Win` is the abstract `Begin`, `Publish` is `End`, the returns are `Return`, and
everything else is a stutter.

**`Session`.**  That a frame is fresh is decided in `TryEncode` and used in
`Encode`, with any number of frames and actions between.  `SessionInv` has
`FreshIsNew` (the flag lags behind an action only until the actor notes it) and
`CallsSawIt` (a call on the stream's path that finds the frame fresh has seen it
come or found it new when it began, and keeps that once it has decided).

**`UiSocket`.**  `MatchInv` holds until an observe gives up on its fetcher: there
is one reader on the connection at a time, and what is asked and answered on it
is that reader's, because one that gives up closes it.  Only a fetcher that an
observe has left behind makes two readers.  `TimeInv` bounds how long the
fetcher of an `ObserveFull` can run, by where it is: two attempts, each with its
dial and its read, 2 * (2s + 5s) in the program, within the 35s that
`observeFull` waits.  The flat observe waits for less; `DrainIsEnough` above is
what that costs.

**`TextInput`, `DaemonClient`.**  What a session knows of the keyboard it replaced
and where it stands with its process; which of a call's tries can have been
sent, and which of the actor's dispatches its request has had.

**`DaemonFiles`.**  `LockInv` says that a daemon past the lock owns the lock of the
file it opened and that a lock's owner is such a daemon; names do not occur in
it, which is why no unlinking disturbs it.  `NamesInv` ties the names to the
owner: an open file is the one the name stands for, a daemon that listens has
the socket's name, one that serves has its pid in its file.  It holds as long
as nobody has unlinked a name; `files_stop` shows why.

**The algorithms.**  A result is a fold over its input, and the proofs are
inductions along the input.  The library's induction theorems cannot be used
(they take an operator), so that `AlgorithmsProofs` begins with its own, over a
set: `NatSetInduction` and `IntervalInduction` from the well-foundedness of `<`
on the naturals.  `FoldExists` then shows that the recursive function by which
`FoldLeft` is defined exists, and for each fold a lemma (`ReceiveRuns`,
`ListRuns`, `SplitRuns`, `ViewRuns`, `WordsRuns`, `CollapseRuns`, `DecodeRuns`,
`BeamRuns`) gives the sequence of values it goes through; `FlattenAppend` does
the same for `FlattenSeq`.  Each theorem has an invariant along such a run:
- `Received`: what has been sent and is held is the stream so far, but for
  parameters that the next packet replaces; parameters and keyframe are the
  newest so far.  `Encoded` is what is assumed of a stream: a packet without a
  slice is marked as parameters, and parameters are not marked as a keyframe.
  The converse is not assumed and is false: parameters whose payload holds
  `0 0 1 5` are taken for a picture.
- `ListCall`: an element with a label, or one that can be clicked, says something
  in its line (`formatElementLine` writes `text=`, `desc=`, `hint=` or
  `[clickable]`).  The invariants count what has been passed over.
- `CollapseInv`: what has been written has the words of what has been read, and
  ends in a space exactly when no word is open.  Then one lemma per format says
  that a symbol is neither the quote nor a line feed and reads back
  (`JsonSymbols`, `YmlSymbols`, `XmlSymbols`), and `QuotedBody` that a value
  ends at its closing quote.
- `ReadingsAgree`: whichever way the screen is read, a reading with a limit is
  the beginning of the one that `tap_element` makes, since a limit is never
  beyond the agent's own (`ClampCollectMax`).
- `ReadSoFar`: the text is what the rule of CTC takes of the path so far, and the
  class that must not be repeated is the last one, or none after a blank; with
  one class per step there is one beam, and it is that one (`OneBeam`).
  `width` is positive because the code decodes greedily otherwise.
- `Holds`: behind the bytes that have been read, the stream goes on with the
  encoding of the next message.  Big-endian fields are read back as they were
  written (each width by itself, from bytes and remainders), every kind of
  message gives its own length back, and so the reader stands at the next one.
  The theorem is about messages whose fields fit: a package name has one byte of
  length, and a clipboard is no longer than the reader accepts.
- Compaction and trees need induction down the tree.  A recursive function on
  parents exists because a parent has a lower rank, its position in the dump
  (`EveryCompactionKeepsTree`: a parent precedes its elements and depths count
  the ancestors, as the agent writes a dump); an element that is kept hangs below
  its nearest ancestor that is.  The nested formats print a node and then its
  children; what is printed for a node is a `Block`, for its children a
  `Forest`, and each element of the dump is in one of them, once and at its
  depth (`EveryTreeShowsEveryElement`: the root comes first, ids are unique, a
  parent precedes its elements unless it is missing from the dump, in which case
  they are linked to the root).

**The geometry of text.**  `TextBoxesProofs` has one argument for each step of
`ExtractTextBoxes` and of `BoxScoreFast`.
- *Pieces.*  `Filling` is the invariant of a flood fill: what is marked hangs
  together (`Tied`: no part of it is closed under touching), the stack holds only
  marked pixels and each once, and a pixel that has left the stack has all its
  neighbours marked.  A round takes one pixel off for good, so that as many
  rounds as there are pixels empty the stack, and what is marked is then a
  `Piece`.  Two pieces that touch are one, so the scan finds pieces that are
  apart, and all of them unless the limit stops it (`Finding`).
- *Hull.*  Each of the two chains goes one way (`Climbs`), turns left at every
  corner, and spans every pixel that has been passed (`Spans`: it lies beside an
  edge); a chain that turns left has what it spans on the left of all of its
  edges (`LeftOfAll`).  Joined, they are a `HullOf` the piece: no edge is empty,
  every pixel is on the left of every edge, and in every direction some corner
  is farthest.
- *Rectangle.*  The rectangle on an edge holds all of the piece, since it is
  spanned by the extremes along the edge and away from it (`Fits`).  That some edge's
  rectangle is no larger than the box along the axes is not seen by comparing
  the two: the box is turned about the four corners of the hull that it touches,
  in one direction or the other, until one of its sides meets an edge (`Corner`,
  `BoxTurns`).  While it turns, its area is a quadratic form in the direction;
  in one of the two directions it does not grow (`TurnedArea`), and what it then
  becomes is the rectangle on that edge.  `MinAreaRect` takes the smallest over
  all edges.  Areas are compared as the model compares them, multiplied out, with
  no division and no root.
- *Score.*  A ray from a pixel's centre crosses an odd number of the four sides
  exactly when the centre is inside (`MaskOfRectangle`); a rectangle along the axes
  has the closed form of the fast path.  The theorem is about rectangles with corners
  on the grid and two sides that are not empty.

Assumptions: `AllocatorAssumption`, `RegistryAssumption`, `ActorAssumption`,
`SupervisorAssumption`, `FilesAssumption`, `TextInputAssumption`,
`ClientAssumption`, `WindowsAssumption`, `UiSocketAssumption`,
`ClipboardAssumption` and `LimitsAssumption`, which give the types of the
constants, say that `None` is none of the values it stands beside, and order the
reset windows and the limits of lists; TLC evaluates them in the runs.  No module
declares a recursive operator.

Only model-checked: liveness (`RegisteredActorHeals`, `EveryRequestReturns`,
`ShutdownCompletes`, `TakenIsReplied`, `SessionRecovers`, `DeathNoticed`,
`CallsReturn`, `GoroutinesEnd`, `RestartHeals`, `CommandsReturn`,
`EnsureRunningReturns`), which is out of the prover's reach, as is `ENABLED`.
Every other property of a passing run is stated by a theorem above.  Loops that pick
elements of a sequence are written with `ElementsAt` and not with `SelectSeq`,
whose definition the provers cannot expand.

## What is not modelled

- `cmd/phonefast`, `internal/mcp`, `internal/log`: a table of commands or tools,
  each one `Client.Call` with the same parameters and the formatting of its
  result, with no state between calls; lines written behind a mutex.
- The Android agent, scrcpy, adb, ffmpeg and the OCR engines' inference: external,
  or numerical code over libraries; the models take of them what the daemon
  relies on.
- The parsing of the XML of a UI dump and of adb's output, image scaling,
  `UnclipBoxPaddle`'s distances, the number and the timing of a swipe's moves.
- The OCR service: it holds one mutex over each of its operations, so that its
  three callers do not interleave.
- `Connect`'s retries of the handshake: `DeviceRegistry` has its two stages.
- The process environment (env file of the supervisor), Windows builds.
- Data races in the sense of the Go memory model, such as `removeDevice`
  writing `connectMu` under `d.mu` while `connectMutex` uses `connectMuMu`
  (`daemon.go:257`, `266`): each map operation is one step in the model.
- Durations, except where limits add up (`DaemonClient`, `UiSocket`) or are
  compared with each other (`Session`): a timer that runs may fire at any time.

## What is left

- `Connect` inside `Session`, with its retries and the half-made sessions that
  they leave to `Close`.
