# A TLA+ model of carle

carle drives a toy robot over Bluetooth: a daemon holds the link and executes
a queue of steps, a speak server plays audio on the robot's speaker and has
the daemon animate it, and a set of command-line tools records what each
command of the protocol does. This project models the parts of it whose
correctness depends on order, time, failure or concurrency, checks them with
TLC and proves the main results with TLAPS.

Sources are named relative to `src/src/carle/`; *plan 004* is
`src/docs/plans/2026-08-12-004-feat-robot-control-plane-plan.md`.

## 1. The system

| part | state | operations | who calls it |
|---|---|---|---|
| queue engine (`daemon/engine.py`, `steps.py`) | queue, current step and deadline, spawned tracks, held face, last frame sent and its dates, outage | `enqueue`, `clear`, `stop`, `status`, `tick` | requests of clients; the tick loop |
| BLE connection (`daemon/connection.py`) | the client, one lock, the reconnect task | `send_frame`, `read_battery`, `ensure_reconnect`, `close` | the engine |
| daemon server (`daemon/server.py`) | lock file, socket, tick task, shutdown event | `serve`, `handle_request` | processes; clients |
| wire protocol, steps, macros (`daemon/protocol.py`, `steps.py`, `moves.py`) | none | `parse_steps`, `expand` | the server |
| client, MCP server (`daemon/client.py`, `mcp_server.py`) | none | one request with a timeout | the command line, the animation |
| stream player (`speak/stream.py`) | bounded queue of blocks, device stream, outcome | `enqueue`, `finish`, `start`, `stop`, the callbacks | four threads |
| speak service (`speak/server.py`, `service.py`) | the playback gate, the armed stop | clip, stream, stop requests | HTTP worker threads |
| animation (`speak/animate.py`) | active flag, gesture thread, watchdog | `on_start`, `on_end` | the speak service; requests to the daemon |
| audio sink (`speak/sink.py`) | the cached device index | `resolve`, `recover`, `play` | clip and stream players |
| decoding (`speak/decode.py`) | a remainder of bytes | re-chunking, raw PCM | the producer thread |
| command table, evidence (`table.py`, `evidence.py`, `cli.py`) | files | send, confirm | a person at the command line |
| observe loop (`observe/`) | observations of a code | `derive_code`, the recording thread | the command line |
| frame codec, transport (`frame.py`, `transport.py`) | none | `build`, `parse`, chunking | everything that sends |

Interactions. The daemon is one asyncio loop: a request's handler and the tick
interleave only where one of them awaits, which for the tick is inside
`send_frame`. `asyncio.Lock` in the server keeps requests apart from each
other, not from the tick. The connection reconnects in a task of its own. Two
daemon processes share nothing but a lock file and a socket path. In the speak
server the producer, the HTTP worker, the device's audio thread and the worker
of a stop request share one player. The animation is a client of the daemon
and can time out on a request the daemon still executes.

What is hard, and what makes each part correct:

- *Engine.* Stops, clears and enqueues that arrive in the middle of a tick's
  sends; a neutral walk that must converge however often `stop` is called; a
  rate limit and a compound guard that protect servos; held state that must be
  told again after an outage; a heartbeat that nothing may starve. Correct
  means: the walk is whole and alone, no frame harms a servo, the robot gets
  what a stop or a held face promises, and a drop is recovered from.
- *Server.* Starts, shutdowns and kills between any two system calls. Correct
  means one owner, its files kept, and no start refused by a dead process.
- *Stream player.* A stop that races the start, a producer on a full queue, a
  device lost while it is stopped. Correct means a true outcome, set once, no
  orphaned stream, no stuck thread.
- *Connection.* A battery read and a send on one lock, a close during a
  reconnect. Correct means a send that waits a bounded time, a link that is
  worked on until it is back, and no link that nobody holds.
- *Speak service.* A stop between two playbacks, a request that leaves by one of
  many ways. Correct means one playback at a time, a stop that finds the one
  that plays, a gate that is always released.
- *Animation.* A talking face nobody takes down, a gesture thread or a watchdog
  that survives its playback. Correct means a robot that ends neutral.
- *Sink.* A cached index into a list that is rebuilt. Correct means audio that
  never goes to another device.
- *Decoding.* Chunks, reads and frames that do not end together. Correct means
  that the bytes played are the body's, and an outcome that says so.
- *Table, evidence.* Kills and overlaps between a check and the file's
  replacement. Correct means that each claim stands on a transmission.
- *Observe.* The vote, and a link, a camera or a judge that fails in the middle.
  Correct means that only what was reproduced is recorded, the run ends and no
  film stays on disk.

The hazards, each at its line with the properties that cover it or the reason
none does, are in `PROJECT.json`.

## 2. Modules

| module | models |
|---|---|
| `Engine` | the queue engine, its tick, the control operations, the link as the engine sees it |
| `ServoLine` | what the joint guard promises the servos; `Engine` implements it |
| `EngineRobot` | `Engine` with the robot that receives its frames |
| `MCEngineSteps`, `MCEngineRobot` | the step lists TLC lets clients queue |
| `EngineProofs` | typing, frame safety, the refinement of `ServoLine` |
| `QueueProofs` | the walk of a stop, the main track and its speech |
| `RobotProofs` | the servo floor, the silence and the arms, at the robot |
| `SingleInstance` | daemon processes over one lock file and one socket |
| `SingleInstanceProofs` | at most one owner, its files, who is refused |
| `StreamPlayer` | one stream player, its threads and its device |
| `StreamPlayerProofs` | its outcome, and what a stop leaves behind |
| `Sink` | the audio sinks over the library's device list |
| `Animation` | the animation hook: talking face, gesture threads, watchdogs, teardown |
| `SpeakService` | the gate, the stop handle and the requests, over `Sink` and `Animation` |
| `MCSpeakService` | the device lists TLC uses |
| `SpeakProofs` | gate and stop handle, types, the neutral end, quiet behind a free gate, the device |
| `Connection` | the held connection: its lock, its reconnect task, its close |
| `ConnectionProofs` | no stray link, the bound on a send |
| `Frame` | frames and payload templates, as functions |
| `ToolsProofs` | frames; scratch, votes and records of the loop; evidence; decoding; the tools together |
| `Evidence` | send, confirm, the logs, the table and its gate, over `Frame` |
| `Observe` | the observe loop |
| `Audio` | from a request's body to frames, blocks or a decoder |
| `Tools` | `Evidence`, `Observe`, `Audio` and `Connection`, one at a time |
| `MCTools` | the rows, codes and bodies TLC uses |

### Engine

Every variable stands for a field of `Engine` (or of the running tick), and is
named after it. The representation differs in three ways.

*Time.* A deadline is the time left to it (`left`, `spawns[k].left`), a
timestamp is its age up to the largest age the code compares it with
(`writeAge`, `jointAge`), and `elapsed` is the time since the running tick read
the clock, so that a send that takes a while dates its effects by the tick's
start, as the code does. `resume`'s shift of deadlines by the gap is: time left
does not pass while the engine is paused.

*Frames.* A movement target has three bytes: `loco` for mode, speed and
direction together, `waist`, `limb`. Media and gesture frames are their code.
A byte `frame.build` refuses is one above `MaxByte`; the exception ends the
tick and the loop sleeps again.

*Steps of a tick.* `phase` says where the tick loop is. "prune", "advance" and
"compose" are the synchronous part: one small step for each iteration of the
code's loops, with nothing else enabled, so it is one atomic section, as in
asyncio. "trigger", "target" and "beat" are the frame in flight: there
requests, the clock, the link and the reconnect task step, as they do while the
tick loop sleeps. A failed send is possible in each.

| code | action |
|---|---|
| `enqueue`, `clear`, `stop` | `Enqueue`, `Clear`, `StopFresh` / `StopAgain` |
| `tick` on a link that is down / up | `TickPaused` / `TickBegin` with `ResumeAfterOutage` |
| `_prune_spawns`, `_advance` | `PruneTrack`, `StartAdvance`, one `Take...` per kind of step, `AdvanceDone` |
| `_compose`, `_guard`, `_emit` | `ComposeAndEmit` (`Composed`, `Guard`, `EmitNext`), `TriggerSent`, `TargetSent`, `BeatSent` |
| `_send` that raises, the resume policy | `SendFailed` |
| `_reconnect` | `Reconnect`; it starts in `TickPaused` (ensure_reconnect) and `SendFailed` |

`status` and `list_moves` change nothing and are left out. The link may also
drop with no send (`LinkDrop`), which the engine notices at its next tick.

### EngineRobot

The engine knows the robot only through `_last_sent`. This module adds the
robot: the target it received last, when each joint's byte changed at the
robot, which limbs are raised (an odd value raises, the next even value
returns, zero commands nothing, the arms-down gesture lowers all: what
`_neutral_return` and `stop` rely on), the face it shows, and how long it has
heard nothing. The robot is external: it is modelled from how the engine uses
it. It forgets its face in an outage the engine paused for.

### SingleInstance

One action per system call of `_acquire`, `_lock_holder_alive`, `serve` and
`_release`. The lock file is who created it and whether the pid is written,
since the create and the write are two calls. `Kill` removes a process between
any two of them and leaves its files. A bind that fails or an interrupt goes
to the `finally` of `serve`.

### StreamPlayer

A step is what a thread does between two points where another may run: a
section under the lock, a queue operation, a call of the device stream. The
threads are the producer (`producer`), the HTTP worker in `start` and `wait`
(`starter`), the device, and three callers of `stop`: a client's stop request,
the producer when its source fails, the worker when `start` raised or the wait
timed out. The device stream is external: it ends, and calls `_finished`, when
its callback stops or aborts it or when it is stopped or closed while running.
`stream.start()` may raise, always on a stream that a stop has closed.
A callback on an empty queue plays silence and is a stutter. The drain is one
step: a block the producer puts before its end is drained as well, and one put
after it is the one item that may be left.

### SpeakService, Animation, Sink

A step is what a thread does between two points where another may run. `at`
says where each request's worker is; `gate` is `_playback_lock`, `armed` the
playback whose stop is `_active_stop`. The stream player is what `StreamPlayer`
promises of it.

| code | action |
|---|---|
| `handle_clip`, `handle_stream` | `Acquire`, `ArmStop`, `Prepare`, `Release` |
| `_play_clip`, `AudioSink.play` | `Begin`, `PlayClip` with `WriteFirst`, `Recover`, `WriteAgain`, `WriteFails` |
| `_play_stream`, `_await_stream` | `OpenStream`, `Begin`, `AwaitStream`; `DeviceEnds`, `ProducerFails` |
| `handle_stop` | `TakeStop`, then `CallStop`: the handle is read under the lock and called outside it |
| `on_start` | `OnStart`, `Talk`, `Launch` |
| `_gesture_loop` | `PulseWakes`, `PulseAsks` |
| `_on_watchdog`, `on_end`, `_teardown` | `WatchdogFires`, `OnWatchdog`, `OnEnd`, `Take`, `Join`, `Neutral` |
| `resolve`, `recover` | `Resolve`, `Recover`; `Reregister` is the host's |

One `RobotAnimation` serves all playbacks. Its `_stop_event`, thread and timer
are the numbers of the playback that made them, so a thread that outlives its
playback is seen to read the next one's event. A request to the daemon is
answered, refused, or given up by the client and perhaps executed later
(`late`). `doubt` records the accidents after which the code promises nothing: a
request given up, a join that gave up, a watchdog that took another playback's
animation. Each sink caches an index; the list is the library's snapshot, which
only `recover` rebuilds.

### Connection

One asyncio loop, so a step lies between two awaits. `lock` is `asyncio.Lock`
with its waiters in order, which is first come, first served; its head is the
holder. `left` counts the holder's GATT operations, `opAge` the time the present
one has taken, up to its `wait_for`. A read comes from a status request, which
reads outside the server's own lock, so that as many as there are clients can
wait here. `task` is the reconnect task; "undoing" is its disconnect when it
finds itself closed. `serving` follows `serve` from its first connect to the
end. The client is external. Every reconnect takes a new client object; `links`
are those whose link is up, whoever still holds them.

### Frame, Evidence

`Frame` has `build`, `parse` and `resolve` as functions on sequences of bytes,
for any byte size. `Evidence` has a table of rows, the logs in `evidence/`, one
send under way and several confirms. `send` builds, transmits, creates its log
and fills it; `confirm` is its checks (`Check`), the second reading of the table
(`LoadRows`) and the three file operations of `save_table` (`OpenTemp`,
`FillTemp`, `Replace`), all confirms using the same temporary name. Either can be
killed between any two. `ValidEntry` is `validate_entry`: it judges, it never
acts, and a hand edit is one the gate passed. What the gate does not see is
modelled as the code has it: a decoded row's derivation may be blank, and
`confirm` compares citations as they are spelled while the gate compares the
files they name.

### Observe

`step` follows `_run_observe` and `derive_code`; an attempt is a recording that
starts, the pulses of the ladder's rung, `finish`, the judge. The daemon accepts
pulses while it runs and the robot executes them while the link is up, or when
it is back. The link, the daemon and the battery change at any time
(`MaxTrouble`). The judge is an agent's: it sees a motion, surely or not, and
sees none when the robot did nothing. A reading is its `key`, joint and motion,
and whether it clears the floor; its direction is left out, because the code
leaves it out of the key (`observe/loop.py:42-46`). `moved`, `alive` and `calm`
are history.

### Audio

The n-th byte of a body is the number n, so that a lost, repeated or moved byte
shows. The body comes by length or in chunks and may stop short; `Step` is one
round of `_iter_body` or `_iter_chunked`. It goes to a clip (`ReadClip`,
`DecodeClip`), which a backend decodes or which is declared raw ("pcm"), to raw
frames and blocks (`PushRaw`, `EndRaw`) or to av's reader (`AvAsks`,
`FillReader`, `AvTakes`, `AvEnds`). A connection that ends in the middle is, to
this code, the end of the body: a truncated stream is played as a complete one.
One that is reset, or a Content-Length that is no number, raises (`ReadFails`).

## 3. Properties and runs

| run | asks | result |
|---|---|---|
| `engine_safety` | every kind of step, refused bytes, slow sends, drops | holds |
| `engine_robot` | what reaches the robot, under fairness | holds |
| `engine_wedge` | is every drop recovered from? | violated |
| `engine_joints` | does a frame change at most one joint byte? | violated |
| `engine_arms` | are the arms down after a stop, with locomotion? | violated |
| `engine_moves` | is an interrupted move dropped? | violated |
| `single_start` | one owner, starts one at a time | holds |
| `single_race` | one owner, starts at once | violated |
| `stream_player` | outcome, orphans, leaks, progress | holds |
| `speak` | gate, stop handle, neutral end, device, progress | holds |
| `speak_unavailable` | is an unavailable device one that is not there? | violated |
| `tools` | evidence, observe loop, decoding and connection | holds |

**engine_safety** (3.5 million states, the largest). `WalkIntact`: the counted
steps of a stop's walk are in the queue and end with the arms-down gesture and
the all-zero step, through any requests. `WalkAlone`: while they are pending,
no speech, spawned track or held face is alive and the current step is the
walk's. `SayHeld`: the queue waits on a speech process exactly while the
current step is that speech. `TargetSafe`: the frame in flight, judged when it
goes out and not when it was composed, drives at most one joint and changes no
byte younger than SAFE_HOLD. `ServoContract`: refinement of `ServoLine`.

**engine_robot.** `WireFloor`: seen at the robot, a joint's byte does not change
faster than SAFE_HOLD as long as the link never failed (`clean`); the engine
dates a change by its tick's start, so a send of length d shortens the floor by
d, hence `+ SendBound` (0 in the run). `ArmsLevel`: once a stop's walk is over
and nothing else was asked, no limb is raised. `ArmsComeDown`: each fresh stop
delivers its gesture unless a clear drops the walk or the link failed.
`FaceAsserted`: a held face reaches the robot. `BoundedSilence`: the robot is
never without a frame longer than the silence floor, one tick and one tick's
sends. `WalkCompletes`, `DropRecovered`: a walk ends, a drop the engine pauses
for ends.

**single_start.** `OneOwner`, `OwnerKeepsFiles`, `RefusedByLive` (a start is
refused only when another process owns the robot), `StartSettles`.

**stream_player.** `OutcomeTrue` (completed means every block was played and
the queue is empty; a lost device is told), `ResolvedOnce`, `NoOrphan` (after a
stop returned no device stream runs and at most one block is left,
`LeftoverBounded`), `ProducerReleased`, `PlaybackEnds`.

**speak.** `HandleIsCurrent`: the stop a stop request finds is that of the
playback that holds the gate. `NeutralAfter`: after a playback, and without one
of the accidents, the daemon was last told the neutral face and the arms down.
`QuietWhenFree`: a free gate means no animation, armed watchdog or pulsing
thread. `NamedDeviceOnly`: as long as one sink is in use, audio goes to the
named device or nowhere. `GateReleased`: whoever holds the gate lets go of it,
unless it is a clip that is being written.

**tools.** `GateKept`: a confirm leaves a table its gate passes, unless another
wrote meanwhile; `OnlyAppends`: it changes one row, by an observation;
`Backed`: each cited log is of one transmission of that very frame, also when
confirms overlap. `ReproducedOnly`: a code is confirmed if and only if enough
sure readings agree on joint and motion, judged against every subset of the readings, and it is
`Earned`; `NothingLeft`: no scratch directory outlives its attempt;
`ObserveEnds`. `AudioIsBody`: the bytes handed on are the body's in their order,
in blocks the device plays whole; `OutcomeOfBody`: what is played, decoded or
refused is what came, whole frames or not, within the cap or not (a body whose
read raised is not judged: it is answered as a failure). `SendBounded`: a send waits
no longer than the timeouts of the reads before it and of its own writes;
`LinkKept`: every link that is up is held by somebody, none is after the close,
and a link found down has a task at work on it.

Each property of a passing run has a mutant of the code's model that violates
it; the mutated operators are marked "A plausible bug" in the modules.

### What the violations show

- **engine_wedge.** `ensure_reconnect` runs only on the tick that starts a
  pause. The reconnect task succeeds and ends, the link drops again before the
  paused engine's next tick, the engine is paused already and sends nothing:
  no task, no link, for ever. `DropRecovered` is the part that holds.
- **engine_joints.** A frame can return one joint to zero and start the other.
  The docstring's "changes at most one joint byte" is not what `_guard`
  enforces; that at most one joint is *non-zero* is, and it is proved.
- **engine_arms.** A stop arrives while a target with a locomotion and a limb
  byte is in flight. Its walk is built from the target before, so it has no
  return of the limb. The send completes; the gesture lowers the arms; the
  same tick composes zeros, but the rate limit holds the limb's byte while the
  locomotion byte goes to zero, so the frame sent *after* the gesture raises
  the limb again. Without locomotion the frame is equal to the last one and is
  not sent, and `ArmsLevel` holds (run `engine_robot`).
- **engine_moves.** `_send` applies the resume policy only to target frames. A
  locomotion step whose heartbeat fails stays current and is re-sent.
- **speak_unavailable.** The robot was away when PortAudio took its snapshot,
  at the start or by the last `recover`, and has connected since. `resolve` looks
  in the snapshot only, and only an open that failed on a resolved index has it
  rebuilt: every request is refused until the server is restarted.
- **single_race.** A second start reads the lock between its creation and the
  write of its pid, takes it for stale and unlinks it.

### Where a property stops

Stating these properties showed where the code's promise ends; each is written
with its exception, not with a stronger model.

- Two confirms at once can lose an observation, and cite one log twice; so can
  one confirm after a citation was respelled by hand. A blank derivation becomes
  an error of the gate when the row is confirmed.
- A clip's write blocks in PortAudio with no timeout (`speak/sink.py:188-189`) and
  a clip's stop does nothing (`speak/server.py:188-192`): a device that hangs in
  it holds the gate for ever, and every later request is told "busy". Only the
  wait for a stream has a timeout. `GateReleased` names the write as its exception.
- `docs/observe-loop.md:20` and `observations_agree`'s docstring
  (`observe/loop.py:65`) say that two readings agree only if joint, motion *and
  direction* match. The code compares joint and motion (`loop.py:42-46`, whose
  comment gives the reason), so two readings of opposite directions confirm a
  code. `ReproducedOnly` is what the code does, not what these two lines say.
- A declared raw clip without a single frame decodes to nothing and is answered as
  played; a stream without one is an error (`speak/decode.py`'s "a caller must
  never see a successful playback of zero audio" is about streams).
- A link that drops after a code's readiness check leaves a still robot, whose
  agreeing readings are recorded as a confirmed "none".
- A drive that fails under its own recording leaves its scratch directory.
- With two sinks in use, the rescan of one leaves the other's index pointing at
  another device, which may be the host's own output.
- A write that fails on a link that is up, and a connect cancelled when its link
  came up, leave a link nobody will disconnect.
- The bound of a send is above the silence floor: one battery read that hangs
  keeps the heartbeat waiting for two seconds, each further status request for
  two more.
- After an accident (`doubt`) the robot may keep the talking face or go on
  pulsing: the client gave up on a request that the daemon executed later, a
  thread outlived its join, or a watchdog that had fired for one playback took
  down the next one's animation. `NeutralAfter` and `QuietWhenFree` say nothing of
  these.
- `WireFloor` and `BoundedSilence` are checked with sends that take no time; slow
  sends are in the theorems `ServoFloor` and `SilenceBounded`.

### Bounds, and why they are enough

- `SafeHold` is 2 or 3 and `SilenceFloor` 3 with a tick of 1: below, at and
  above each limit occur. The code compares ages with these two limits only,
  so older ages are equal. `FaceAsserted` needs a hold longer than a tick
  (`SafeHold = 3`), as in the code (0.5 s against 0.1 s): with a target that
  changes on every tick the face is starved, because `_emit` returns after a
  target. The run has no locomotion for this reason and for `engine_arms`.
- `MaxByte` is 3, `ArmsDown` 2: a raise (1), its return (2), the gesture and a
  refused byte (4) are different.
- `MaxWork` (2 or 3) bounds what clients pile up; a stop's walk is up to four
  steps beyond it. A batch of two steps, a spawned track and a step behind a
  walk occur. The guard is on `Enqueue` only, the code has no such bound.
- `SendBound` 9 in `engine_safety` is above every age that matters, so sends
  take any time; `WakeBound` 2 lets ticks come late. `engine_robot` has
  `SendBound` 0 and `WakeBound` 1 so that `WireFloor` and `BoundedSilence` are
  checked at their tightest.
- `TtsMissing` is TRUE in `engine_safety` (`default_tts` looks for the host's
  tool at each step, and a missing one is a step that does nothing) and FALSE
  elsewhere.
- `single_start`: three processes and two kills: an owner, a starter and a
  left-over of each kind at once. `PidReuse` FALSE: a pid reused by another
  process of the host refuses a start, which the code accepts.
- `stream_player`: three blocks over a queue of two: full, empty and the
  producer blocked with one block and the sentinel still to come.
  `CHECK_DEADLOCK FALSE` because a player that played or was stopped is over;
  the engine and the daemon processes never stop, and are checked. The same holds
  of `speak` and `tools`, whose requests and commands end.
- `speak`: two playbacks, of either kind, cover one after the other and one
  beside the other; with `Attempts` 2 a teardown fails once and succeeds, or
  fails for good. One kind of trouble per behaviour (`reachable`): devices,
  sources and stops, or a daemon that fails and watchdogs that fire; and one
  request given up. Devices change only where a sink looks at them next, which
  is the same to it. Both runs are complete.
- `tools`: four byte values, two rows, two confirms, two sends, one hand edit
  and two time stamps: a log for a stale frame, a name that exists, a raw send,
  an overlap at every pair of file operations. `Repeats` and `RetryLimit` 2 give
  a vote that fails, that is split and that succeeds at the last attempt; a pose
  and a gesture of the second half. Two troubles: a link that drops and returns.
  Bodies of up to three chunks of one to three bytes, or of up to seven, over
  frames of two bytes and blocks of two frames: every way a chunk can split
  them. For the connection two readers, two chunks, timeouts of two; four client
  objects, since two can be given up (`MaxLost` bounds failed writes on a live
  link to one), one is current and one is tried.

### Fairness

Engine: weak fairness of the tick (asyncio runs a ready task and a send is
bounded by WRITE_TIMEOUT), of time, of the speech process's end, and of the
reconnect loop, which retries without limit; that it succeeds in the end is an
assumption on the robot. Nothing is assumed of clients, nor that the link stays
up. `EngineRobot` states the same of its own actions. SingleInstance: a running
process goes on; nobody has to start, stop or kill one. StreamPlayer: threads
go on and the device calls back; the *source* may stall for ever, and a stop is
called only by the worker after a failed `start`. So `PlaybackEnds` is stated
for a source that ended or a player that was stopped. SpeakService: each worker
goes on except in a clip's write (`Work(w) /\ ~Writing(w)`). Every request to the
daemon, every join and the wait for a stream (DEFAULT_STREAM_TIMEOUT) has a
timeout; that decoding a clip and opening, starting, stopping and closing a device
return is an assumption on the libraries and the device. Of a clip's write, which
has no timeout, nothing is assumed; the stop requests, the sources and the devices
that change need not do anything.
Observe: the command goes on, ffmpeg ends or is waited for no longer, daemon and
judge answer; nothing is assumed of the link or of the judge's readings.
Connection, Evidence and Audio have safety properties only.

## 4. Proofs

Every safety invariant and every action property that a passing run checks is
also proved, for every value of the constants that its named assumption admits.
Where a theorem needs more than that, its hypothesis is named here with the
reason.

**The engine and the robot** (`EngineProofs`, `QueueProofs`, `RobotProofs`)

- `Typing` (`Spec => []TypeOK`), for every set of batches, every hold and bound.
- `FrameSafe` (`Spec => []TargetSafe`). `TargetSafe` is not inductive: a target
  is safe when it goes out because it was safe when composed and because
  nothing between disturbs it. `SafeInv` adds that the last frame sent drives
  at most one joint (`LineAlone`), on which the rate limit may fall back. The
  lemmas: `GuardSafe` (what `_guard` returns is safe, given a safe last
  frame), `EmitSafe` (each branch of `_emit` keeps it), `AgesGrow`, `ResumeLine`.
- `Refinement` (`Spec => ServoContract`): under `SafeInv` every step is a
  `Change`, a `Forget`, an `Elapse` or a stutter of `ServoLine` (`LineStep`).
- `WalkWhole` (`Spec => []WalkIntact`): inductive with typing. Each way to
  change the queue has a case: a fresh walk ends as it should whatever joints it
  returns (`FreshWalkEnds`), a repeated stop truncates at the walk's own length,
  an enqueue only appends, and a step taken is counted (`TakeEnds`).
- `WalkLonely` (`Spec => []WalkAlone`) and `SpeechHeld` (`Spec => []SayHeld`).
  Neither is inductive: a tick that takes a step of unknown kind could start a
  speech or a track in the middle of a walk, and a stop that keeps the current
  step could keep a speech nobody holds. `QueueInv` adds `WalkPure`, every
  counted step is the walk's own, so a step taken while steps are counted is a
  return or the gesture (`FirstOfWalk`); then `WalkAlone` gives `SayHeld` its
  case of a repeated stop.
- `ServoFloor` (`RobotSpec => WireFloor`), with no hypothesis. The engine and the
  robot date a change differently; `WireInv` bounds the difference (`Dated`: while
  the link held, a joint is at most `SendBound` younger at the robot than the
  engine believes) and says that what the engine remembers is what the robot
  received (`Mirrored`).
- `SilenceBounded` (`RobotSpec => []BoundedSilence`) if every tick wakes within
  one interval (`WakeBound <= TickInterval`), the ages reach as far as a send
  (`SendBound <= AgeCap`, a cap of the model and not of the code), and clients
  queue steps whose bytes `frame.build` accepts (`LegalStep`). The last is needed:
  `parse_steps` lets any integer through, and a step that is refused at every
  tick keeps the loop from its heartbeat until its time is over. `LegalInv`
  carries it to every frame the engine composes, `Heard` relates the silence to
  the age of the last write and to where the tick is.
- `ArmsStayDown` (`RobotSpec => []ArmsLevel`) if no step queued has a locomotion
  byte (`PoseStep`): run `engine_arms` shows the property false with one.
  `ArmsInv` follows the walk: while its last step waits, what is on the way to
  the robot ends with the gesture (`GestureLast`), and once it ran the limb byte
  of everything sent or composed is zero (`Lowered`).

**The daemon process** (`SingleInstanceProofs`)

- `ExclusiveWhenSerial`: at most one process past `_acquire`, for any number of
  processes and kills, with pid reuse or without, if starts do not overlap
  (`~Overlap`; `single_race` shows why that is needed). The invariant `SoleInv`
  says that an owner's lock names it, that a starter past the read of an
  owner's lock holds that owner's pid, and that nobody unlinks beside an owner.
- `FilesKept` (`OwnerKeepsFiles`) under the same hypothesis: `SocketInv` adds
  whose the socket is at each step between an owner's clearing it, binding it and
  unlinking it.
- `OnlyLiveRefuse` (`RefusedByLive`) also needs `~PidReuse`: a starter whose own
  pid is in a dead daemon's lock file would find itself alive (`NotOwnPid`).
- `TypeCorrect`, with overlapping starts too.

**The speak service** (`SpeakProofs`, `StreamPlayerProofs`)

- `HandleHeld` (`Spec => []HandleIsCurrent`), for any number of requests. Between
  the gate and the arming, and between the clearing and the release, a worker
  holds the gate without a handle; `HandleInv` says for each place of a worker
  what it holds.
- `TypeCorrect`, `NeutralLast` (`NeutralAfter`), `FreeIsQuiet` (`QuietWhenFree`)
  and `RobotOnly` (`NamedDeviceOnly`) all rest on `SpeakInv`. Its parts: `LifeInv`,
  the order of the animation's life that no accident breaks (a playback's number
  is used once, its watchdog has one life and tears down only at the end of it, a
  running teardown has attempts left);
  `Sure`, what holds until an accident, and ties an armed watchdog, a pulsing
  thread and a face that is not neutral to the active playback or to a teardown
  under way; `Counted` and `Served`, which tie these to a worker behind the gate;
  and `Alone`, that with one sink in use its cached index is still that of the
  named device in the library's snapshot.
- `OutcomeOnce`, `OutcomeIsTrue`, `NothingOrphaned`, `TypeCorrect` (`Spec =>
  ResolvedOnce`, `[]OutcomeTrue`, `[]NoOrphan`, `[]TypeOK` of the stream player),
  for any number of blocks and any bounds. `ThreadInv` says when a player is
  `Dead`: no stream runs and none can be started, because a stop closed a
  published stream or raised the flag before `start` published one. `QueueInv`
  accounts for the blocks: what was handed over is played, queued or on its way
  (`Counted`), and only the end of the queue is the sentinel, so a stream that
  drains without a stop or a loss has played them all.

**The connection** (`ConnectionProofs`)

- `LinkHeld` (`ConnectionSpec => []LinkKept`). `TaskInv` adds that while the task
  is at work the current client's link is down and is not the one being
  connected: so a connect replaces a link that is gone, and the loop's test
  never ends the task behind a caller that was told of a drop.
- `SendsBounded` (`ConnectionSpec => []SendBounded`), for any number of readers,
  chunks and any timeouts. `Waits` says how long the sender can have waited at
  each place of the line; a turn that ends moves it up by one and costs at most
  one timeout (`LeaveTurn`), a newcomer joins behind it (`JoinTurn`), a cancelled
  send leaves from wherever it is (`CancelTurn`).

**The tools** (`ToolsProofs`)

- `RoundTrip`, `BuildInjective`: whatever `build` accepts `parse` gives back, so
  two commands never have one frame, which is what a log is compared by.
- `NothingStays` (`ObserveRuns => []NothingLeft`): `ScratchInv` adds what is on
  disk during an attempt. `RecordEarned` (the `Earned` part of `ReproducedOnly`):
  `EarnedInv` carries the promise of the readiness check through the attempts; it
  rests on every rung driving at least one pulse (`DrivesSomething`).
  `ObserveRuns` is `ObserveSpec` without its fairness.
- `ReproducedFirst` (`ReproducedOnly`): `_reproduced` stops at the first group
  with `Repeats` readings, while the property speaks of every subset. `ReadingsInv`
  says that before the last reading no group had so many (`Split`), so that the
  group that confirms has exactly `Repeats` and the last reading is in it.
- `AllBacked` (`Backed`), for any number of senders, confirms, kills and edits.
  `LogsInv`: the logs that were written whole are those of distinct transmissions
  (an injection from their names into the positions of `sent`), and the send under
  way has one to spare for the log it will fill. `VouchedInv`: every table on the
  disk, in the temporary file or in a confirm's hands cites only whole logs of the
  row's own sends, with the observation's parameters. The first table is one the
  gate passes, with no observation (`FirstRowsAssumption`).
- `GateHolds` (`GateKept`) and `AppendsOnly` (`OnlyAppends`): `AloneInv` says what a
  confirm nobody disturbed holds at each of its steps against the table and the
  temporary file it shares with the others.
- `BodyIsHeard` (`AudioIsBody`), `OutcomeIsEarned` (`OutcomeOfBody`), for any sizes
  of chunks, reads, frames and blocks. The property is by positions: byte i of what
  was handed on is byte i of the body. `AudioInv` says where the bytes of an open
  request are, and between which two positions: read, carried over, in the block
  being filled, played (`RawOpen`, `AvOpen`).
- `EachIsItself`: a behaviour of `Tools` is one of each of its four components, so
  `ToolsSafe` states all of the above of the specification that run `tools` checks.

The assumptions are the named ASSUMEs of the modules: steps are well-formed
records, the holds, the tick and the chunks are positive, timeouts are numbers,
null values are not members of the sets they extend (`EngineAssumption` and so
on); the loop asks for at least one reading (`ObserveAssumption`), sizes of frames
and blocks are positive (`AudioAssumption`), the table starts as one the gate
passes (`FirstRowsAssumption`). TLC evaluates each in the runs.

Only model-checked is what must eventually happen: `ArmsComeDown`,
`FaceAsserted`, `WalkCompletes`, `DropRecovered`, `StartSettles`,
`ProducerReleased`, `PlaybackEnds`, `GateReleased` and `ObserveEnds`. Liveness
under fairness and ENABLED are out of the prover's reach, and so is induction
over data, which is why the models say by positions and sets what the code does
in loops.

## 5. Not modelled

- The printing and argument handling of `cli.py`, its other verbs, and the rules
  of `table.py` across rows (unique and seeded ids, supersedes, counts) and on
  dates and texts: checks with no state, each a test of one file.
- The parsing of a request and the macros of `moves.py`, which build lists of
  steps; the socket's line loop; the MCP server, a thin caller of the client.
- Codecs, resampling and the mixing of channels, ffmpeg, the judge, Bleak,
  PortAudio and the robot's firmware: libraries and devices with no code here.
  They appear as what the code sees of them.
- The generated reference, the hardware probes, `commands.yaml`.

## 6. Plan

What is left, in this order:

1. The stream player under the speak service: what `SpeakService` takes for
   granted of a stream (`OpenStream`, `AwaitStream`, `DeviceEnds`) as an abstract
   specification, and the step by step proof that `StreamPlayer` implements it.
2. The connection under the engine: `Engine`'s link as an abstraction of
   `Connection`, with the drops `engine_wedge` shows.
3. `parse_steps` and the macros, as functions, and which of the hypotheses of
   `SilenceBounded` and `ArmsStayDown` each macro satisfies.
