# Formal models of ascent-obs

`ascent-obs.exe` is a headless recorder built on libobs. A client (the Rust
crate `ascent-obs-comm`, or any program using `libascentobs`) starts it, sends
commands over a pipe or its standard input, and reads events back. This
directory holds TLA+ models of the parts of it where threads, callbacks,
timeouts and orders matter, TLC configurations that check them, and proofs of
what matters most.

In what follows `OC` is `src/ascent-obs/ascent-obs/obs_control`, `L` is
`src/ascent-obs/libascentobs/src/internal` and `R` is `src/ascent-obs-comm/src`.

## 1. Inventory

| Part | State it keeps | Operations | Hard because |
|---|---|---|---|
| `Thread` (`L/base/thread.cpp`) | a task queue under a lock, an auto-reset event, `stopping_`, `finish_all_tasks_` | `Start`, `PostTask`, `Stop`, `ThreadProc`, `HandleNewTaskEvent` | flags and emptiness are read outside the lock; `Stop` may time out and then drains on the caller |
| `TimerQueueTimer` (`L/base/timer_queue_timer.cpp`) | a timer handle | `Start`, `Stop` | `Stop` does not wait for a callback in flight |
| `CommunicationChannel` (`L/communications`, `L/win_ipc/pipe-windows.cpp`) | `state_`, receiver, sender, handshake timer, a `Thread` | `Start`, `Send`, `Stop`, `StopNow`, `OnData`, `OnTimer`, `OnDisconnected` | four threads, a handshake with a timeout |
| `CommunicationChannelStd` | the same over stdin and stdout | the same | bytes without frames, the receiver stopping itself |
| `Server`, `MessageLoop` (`server.cpp`, `message_loop.cpp`) | the loop's `running_`, the channel | `Run`, `Quit`, `Init`, shutdown | a condition variable without a predicate |
| `OBSControl` and the commands (`OC/obs_control.cpp`, `OC/commands`) | the command thread, the `OBS` object | one command object for each protocol command | commands run on the receiver thread, tasks on the command thread |
| `OBS` (`OC/obs.cpp`) | the scene, its sources, `sync_`, `visible_source_sync_`, `access_mutex_` | `InitVideo`, `InitScene`, start and stop of the outputs, game capture tasks | called from the receiver, command, timer, libobs and graphics threads |
| `AdvancedOutput`, `RecordOutput`, `ReplayOutput`, `StreamOutput` | `identifier_`, `active_`, `delay_active_`, capture state | start, delayed start, stop, capture of a replay | the signal handlers of libobs write the same fields without a lock |
| `OBSDisplayTester` (`OC/obs_display_tester.cpp`) | registration with the graphics thread, test counters | register, test frame, stop | registration races the posted stop |
| `OBSAudio*`, encoders, `settings.cpp` | tables of sources and options | configuration | mostly data, little order |
| `EventManager` (`R/event_handler.rs`) | pending waiters and pending events | register, process an event | events may come before their waiter |
| `ObsClient`, `Recorder` (`R/communication.rs`, `R/recorder.rs`) | the child process, reader and writer threads, active identifiers | start, stop, save a replay, shutdown | timeouts against late answers |

How they interact: the client writes a command; the receiver thread of the
channel hands it to `Server::OnData` and on to a command of `OBSControl`, which
acts on `OBS` before the next command is read. `OBS` starts libobs outputs, whose
signals (raised on libobs threads, or inside `obs_output_start` on the caller)
come back to `RecordOutput`, `ReplayOutput` and `StreamOutput`; the game capture
source reports from the graphics thread, and `OBS` posts what it says to the
command thread. Events leave through the channel's send thread, and the client's
reader hands them to `EventManager`, which wakes the caller that waits for one.

## 2. The modules

### WorkerThread

`L/base/thread.cpp`. The consumers are the worker and the threads that call
`Stop`, since `Stop(true)` runs the rest of the queue itself. Each unlocked read
or write is an action, each locked section one. `post[t]` is how far the call of
`PostTask` for task `t` is, `pc[c]` where a consumer is. A task may call `Stop` on
its own thread. `front()` of an empty `std::queue` is undefined behaviour: a
consumer that does it stays in `undefined`, and nothing is said of it afterwards.
The destructor is a stopper with `Stop(false, 1)`. A thread is started once, as
all its owners do.

### Recording

The life of a video recording: `CommandStart`, `CommandStop`,
`CommandAddGameSource` and `CommandGameFocusChanged`, the parts of `OBS`,
`AdvancedOutput` and `RecordOutput` they call, the tasks of the game capture, and
the signals of libobs. Four threads: `rpc` and `command` are the receiver thread's,
`task_queue_`, `cpc` and `starting` the command thread's, `epc` is the handler of
the `stop` signal, and the graphics thread posts tasks. `output` is the libobs
output: `stopping` from `obs_output_stop` to the `stop` signal, then `ended` (or
`failed`, when nobody asked) until `end_data_capture_thread` is through. A step is
a section under `OBS::sync_`, or the code between two accesses to what another
thread writes: much of it is outside the lock. `reports[i]` are the events sent
about recording `i`, and identifier `-1` is `0`.

`overlap` is set when a start writes `identifier_` while the `stop` handler of
another recording is running, or when a stop comes between `identifier_ = id` and
the start signal. In these windows the code loses the identifier; the run
`recording_unknown_stop` shows what follows, and the safety properties say that
the windows are the only place where it happens.

Left out: `SPLIT_VIDEO`, monitor, window and BRB sources and streaming outputs. No
command of the model creates them. Replays are in `ReplaySession`.

### ReplaySession

The same for a replay: `OC/replay_output.cpp` on `BaseOutput`, START and STOP of a
replay, `START_REPLAY_CAPTURE` and `STOP_REPLAY_CAPTURE`, and what `OBS` does when
the game is captured or quits. Five threads: the receiver (`rpc`, `command`), the
command thread (`task_queue_`, `cpc`, `starting`), the timer queue
(`stop_replay_timer_`), and the two of libobs that raise `stop` (`epc`) and
`replay_ready`. `output` and `capture` are the replay buffer from outside: a
capture is `asked` when libobs accepted it, `ending` when it was told to end, and
`told` when its file is complete. The recording that may run beside is a choice
where `ReplayOutput::Start` asks whether anything else is active.

The code has five races that make the simple statements false. Each sets a name in
`mishaps` at the step where it happens, and each property names the ones it does
not survive: `overlap` (START writes `identifier_` while the stop handler of the
last replay, or a delayed replay, still uses it), `late_capture` (the output ends
between the accepted capture and `capturing_replay_ = true`), `stale_flag` and
`stale_task` (`stop_replay_on_replay_ready_`, or the task it posted, meets another
replay) and `stale_timer` (the timer of an earlier replay). All five occur in the
run.

Left out: the events other than STOPPED and ERR, errors of a capture
(`OBSReplayVideoError`, which only sends), thumbnails and `REPLAY_ARMED`.

### ReplayBuffer

The output behind it: the `replay_buffer` of
`src/obs-studio/plugins/obs-ffmpeg/obs-ffmpeg-mux.c` as this repository changed it
(`start_capute_replay`, `stop_capute_replay`, the queue of packets to the mux
thread), with the start, stop and end of an output in libobs (`obs-output.c`,
`obs-encoder.c`). Four threads: the caller of the procedures and of
`obs_output_start` and `obs_output_stop` (`ctl`), the encoder (`enc`), the mux
thread (`mux`) and the thread that ends the data capture (`EndThread`). `stream` is
`struct ffmpeg_muxer` without times and packets: of `save_ts` and
`save_start_pts_usec` only whether they are set, of the queue its length, of a path
which capture it names. Packets purged from the buffer and the formats of the file
are left out. `mishaps` has here the failures the code meets (a write, the encoder)
and the four places where a flag of one session or capture reaches another.

### Link

The two processes: `ObsClient` (`R/communication.rs`) with `Recorder::shutdown` on one
side, `CommunicationChannelStd`, `Server`, `MessageLoop` and
`OBSControl::HandleCommand` on the other, and the two pipes. The client has four
threads: the caller (`recorder`), `writer`, `reader` and `manager`; ascent-obs has
`main`, `receiver` and the worker of the channel (`thread_` and its `task_queue_`).
The channels between the threads hold `BufferSize` messages, the pipes `PipeSize`.
A read of the standard input takes all that is there (`Receive`), so two commands
may arrive as one text that is no JSON document; `fate` says what became of each.
The condition variable of `MessageLoop` has no predicate: `Quit` before the wait is
lost, and `woken` is a wakeup for no reason. Either process may crash at any
moment, and OBS may fail to start. The commands do nothing here but answer; that is
in the session modules.

### Responses

What `EventManager` promises: a call that has begun comes back, with an event that
was sent about its identifier, is of a type it expects and succeeds for no other
call, or with an error. It has no threads, channels, tables or deadlines: `pool[e]`
is how many copies of event `e` are on their way, and `Lose` may take any of them.
`EventManager` implements it (`KeepsPromises`, `INSTANCE Responses WITH ...`):
`pool[e]` maps to the copies in `events`, in `pending_events` and in the response
channels of calls that wait. `sent` counts the messages, so that a step of the loop
that duplicates an event is not taken for a second one from the server. That
every call comes back is part of the abstract specification, as a leads-to.

### EventManager

`R/event_handler.rs` with `ObsClient::send_command_and_wait` and
`spawn_reader_thread` of `R/communication.rs`. Three kinds of threads: a caller for
each member of `Call` (`SendCommand`, `Register`, `DeadlinePasses`, `Receive`), the
processing loop (`LoopStep`, with `loop` as its program counter: messages, then one
event, then timeouts) and the reader of the server's standard output, which appears
as what it passes on (`ServerSends`, `ReaderFails`, `ServerExits`). `messages` is
the bounded channel from the callers, `events` the one from the reader, `answer` the
one-shot channel of each call, and `waiters` and `pending_events` are the tables of
the loop. `identifier`, `accepted` and `errors` are what the methods of `Recorder`
pass. An event carries, as `for`, the call whose command it answers, which the code
cannot see; it and `registered`, `heard`, `offered` only serve the properties.

The loop and the caller watch the deadline each for itself, so a caller may have
gone when its answer comes. A time limit is a step that may be taken at any moment
of the wait.

Left out: general callbacks (those of the crate only send on an unbounded channel
and cannot block the loop), events without an identifier (nobody waits for them)
and the deserializer, of which only success, the error event and refusal of the
type remain.

### How the modules meet

`Recording` and `ReplaySession` use a `Thread` as `task_queue_`, and `Link` one as the
sender of the channel: the order of its tasks and the guarantee that they do not
overlap are what `worker` shows and `WorkerThread_proofs` proves. `Link` carries the
commands that the session modules perform and the events they send, and
`EventManager` takes these from the reader of `Link`; that one START causes both
STARTED and READY is seen in `recording_safety` (`reports`), and what the client makes
of the pair in `manager_late_waiter`. `ReplaySession` assumes of its output what
`ReplayBuffer` shows: one that is told to stop ends (`OutputSettles`), a capture that
was told to end is reported (`FinishedIsReady`), and once (`ReadyIsAsked`). Where
`ReplayBuffer` needs its mishaps for an exception, `ReplaySession` lets the capture of
a live output go on for ever and leaves its end to the timer.

## 3. Runs

| Run | Shows | Bounds |
|---|---|---|
| `worker` | tasks do not overlap, no pop of an empty queue, `Stop(true)` drains, a joined `Stop` leaves quiet, in each case with the exact exception; no wakeup is lost, the worker leaves | 2 tasks (one queued while one runs), 2 stoppers (so that two can be past the early return) |
| `recording_safety` | a live recording can be named and stopped, nothing starts after STOPPED, READY and ERR exclude each other | 2 recordings (the second meets what the first left), 2 posted tasks |
| `recording_live` | every START is answered, and every STOP of the current recording | 2 recordings, 1 task, game always in the foreground |
| `recording_unknown_stop`, `recording_lost_capture` | disagreements between the source and its own comments, see section 5 | 1 or 2 recordings, 1 task |
| `replay_session` | a live replay can be named, one reported as stopped is not live, nor started again, a replay ends only for a reason of its own, and one that was to end is reported as stopped; in each case with the races named that break it | 2 replays, 2 captures (the second meets the flag that the first left), 1 waiting task |
| `replay_buffer` | a capture is reported once, under the name it was asked for, and not forgotten; a session leaves nothing behind; it ends only for a reason | 2 sessions, 2 captures, 2 mishaps, 1 packet waiting for the mux thread |
| `replay_buffer_live` | a session told to stop ends, its output can start again, a finished capture is reported | 2 sessions, 1 capture, 1 mishap |
| `link` | commands are merged only for a client that does not wait, OBS is freed under no command, both processes end after a shutdown or the death of the other, answers arrive | 2 commands or shutdowns, pipes of 2, channels of 1 |
| `manager` | an identifier has a waiter or a pending event and not both, an answer has the right type and identifier, none is lost once its waiter is known, the manager implements `Responses`, the loop ends after shutdown | start and stop of one recording (they share the identifier), 2 events, channels of 1 (full with one message) |
| `manager_late_waiter`, `manager_stale_answer` | disagreements, see section 5 | 1 or 2 calls, 2 events |

Bounds: `MaxId` is the number of START commands, `MaxTasks` how many tasks the
capture source may leave waiting. STOP, ADD_GAME_SOURCE and focus changes are not
bounded. Two identifiers are enough for the interference the code can show,
because it compares an identifier only with the current one. `Foreground` is what
commands may say of the game's window; `recording_safety` takes both, and the
liveness run fixes it, because a game in the background only delays the capture.
`MaxEvents` is the number of events of the server: two are one that answers and one
that disturbs. In `ReplayBuffer` the bounds are on calls of the client and on
mishaps; packets are not bounded. Every race that an exception of `ReplaySession`
names was seen to occur within its bounds. Deadlock is checked in `replay_session`,
where a client can always send a STOP; elsewhere it is not, since a client may send
nothing more.

Fairness: weak fairness of each thread that has something to do, which is what a
scheduler gives, and of the end of an output that was asked to stop, which libobs
promises. Nothing makes a client send a command, a game start or quit, or an output
end of itself. In `EventManager` the loop runs, a caller inside a call goes on and
deadlines pass (`recv_timeout` and `Instant` see to that); no call has to be made and
the server may stay silent, fail or exit. In `WorkerThread` a thread in the middle of `PostTask` need not go on. In
`ReplaySession` the timer has strong fairness, since it waits for `OBS::sync_`, which
a game that comes and quits over and over takes and gives back, and a lock is
granted in the end to whoever waits for it. In `ReplayBuffer` packets keep coming to an
output that captures, and the encoder and mux threads go on; the packet that meets a
stop, or has room in the queue of the mux thread, comes in the end when it may come
again and again (strong fairness), as packets do at every frame. In `Link` every thread of a
process that lives goes on; nobody has to crash, and a thread that reads waits.

## 4. Proofs

`WorkerThread_proofs` proves, for any set of tasks and stoppers, the type
invariant and the four safety invariants of `WorkerThread` (`TypeCorrect`,
`Serialised`, `NoUndefinedPop`, `StopDrains`, `Quiet`). None is inductive by
itself. The strengthening `IInv` is the conjunction of:

- `StopperInv`: how far a stopper is determines what the flags, the event and the
  worker are;
- `QueueInv`: a task is in the queue exactly when it was pushed and not taken, once;
- `TakeInv`: a consumer between the emptiness test and the pop finds a task,
  unless two threads drain;
- `DrainInv`: what a stopper has promised and not yet taken is still queued, and
  the stopper is on its way to it.

`TwoDrainers` is stable (`TwoDrainersStable`), and `OneDrainer` derives from
`StopperInv` that two consumers in the task loop imply it. One lemma for each part
of `IInv` has one step per action. The only assumption is `WorkerAssumption`: the
worker is not a stopper and `NoTask` is not a task.

`EventManager_proofs` proves, for any calls, identifiers, events and channel sizes,
`TypeCorrect`, `NeverBoth` (`WaiterOrPending`), `OnlyRightAnswers` (`RightAnswer`)
and `NoAnswerLost` (`AnswerNotLost`). The last two say what a call returns long
after the loop decided it, so the invariant `IInv` follows a call on its way:

- `TableInv`: a call in the queue or in the table has no answer yet and is in one
  place only, in the table under its own identifier;
- `OrderInv`: at most one call about an identifier is in progress (they go through
  the lock of `Recorder`), so no later one takes its place in the table unanswered;
- `EventInv`: a queued or pending event is about the identifier it is filed under;
- `AnswerInv`: an answer on its way, or already received, fits the call, and is a
  time-out only after the deadline;
- `OfferInv`: a registered call that still waits is in the table, and one to which an
  accepted event was offered in time has been answered.

One lemma for each part has one step per action, and `Invariance` puts them
together. The only assumption is `ManagerAssumption`: the types of the constants, a
channel has room for one message, and the markers (`NoCall`, `Shutdown`, `NoEvent`,
`ParseError`) are none of the things they stand beside.

`ReplaySession_proofs` proves, for any number of identifiers, captures and waiting
tasks, `TypeCorrect`, `LiveKnown` (`LiveHasIdentifier`), `StoppedForGood`
(`StoppedIsStopped`), `CapturingTrusted` (`CapturingIsCaptured`) and the action
property `StoppedForAReason` (`StopsForAReason`). The invariant says what the two
locks and the flags buy while five threads pass through:

- `CaptureInv`: `active_` follows the output, and a capture marked as in progress is
  one of a live output;
- `IssuedInv`: an identifier that was not issued is nowhere, and has no reports;
- `SessionInv`, until two sessions overlap: while the receiver or the command thread
  starts the output nothing else is live, waits, ends or starts; a session that is
  live or waits keeps its identifier and has not been reported;
- `ReasonInv`: the timer, the flag, the tasks and the pending STOP are for replays
  whose end was asked for.

`StopEffect` says once what the four ways to stop a replay have in common, and
`MishapsGrow` that what went wrong stays named, so that an excuse at the end of a step
is one at its start. The only assumption is `ReplayAssumption`: the bounds are
numbers.

`Recording_proofs` proves, for any number of identifiers and waiting tasks and
whichever window is in front, `TypeCorrect`, `LiveKnown` (`LiveHasIdentifier`),
`StoppedForGood` (`StoppedIsStopped`), `AnsweredOnce` (`ReadyIsKept`) and the action
property `StoppedNotStarted` (`NoStartAfterStop`). Parts of `IInv`:

- `IssuedInv`: as in `ReplaySession`;
- `StartInv`: from the decision to start on, the receiver finds an output that neither
  is live nor waits for the game, and the command thread starts one that waits only
  while its task is still queued: the two never start it together;
- `AnswerInv`: a START that was not answered has no report, and a recording that waits
  or is being started by the command thread was accepted as delayed. `ReadyIsKept` is
  part of it;
- `SessionInv`, until a start overlaps the end of another: the session that is being
  started, waits or is live keeps its identifier, nobody handles the end of another,
  and it was not reported as stopped.

`LiveHasIdentifier` and `StoppedIsStopped` need all four: that STOP finds the live
recording depends on no other thread having taken the identifier, and that depends on
who may start the output. The only assumption is `RecordingAssumption` (the bounds are
numbers, the windows a set of Booleans).

`ReplayBuffer_proofs` proves, for any number of sessions, captures, waiting packets
and mishaps, `TypeCorrect`, `ReadyOnce` (`ReadyIsAsked`), `CleanAtRest`
(`RestIsClean`) and the action properties `CaptureKept` (`CaptureIsKept`) and
`EndsExplained` (`EndsForAReason`). The properties excuse what follows a mishap, so the
invariant has to say which mishap can take away what. Two parts hold whatever goes
wrong: `ThreadInv` (whose the output is and when there is a mux thread) and `FileInv`
(a capture is in one place, and it is reported on the way out of the mux thread and
not again). The others each hold until one of the mishaps that they name:

- `WriteInv`, no write fails: what the flags are at each place of the two threads;
- `StopInv`, no late stop either: a stop reaches the session that it was for;
- `BeginInv` and `FinishInv`, no late capture, or no late end of one: the same for the
  beginning and the end of a capture;
- `NameInv`, neither a late end nor a mux thread that overtakes the encoder thread: no
  file without a name is made;
- `AcceptInv`: no capture is accepted while another waits to begin or goes on.

`Spared(names)` is the premise of each, and by `MishapsGrow` a step that ends without
a mishap began without it. The only assumption is `ReplayBufferAssumption` (the bounds
are numbers, and a packet may wait).

`Link_proofs` proves, for any number of commands and any sizes of the channels and the
pipes, `TypeCorrect`, `MergedWasEarly` (`MergedIsEarly`) and `ObsKept`
(`ObsOutlivesCommands`). Parts of `IInv`:

- `HandInv`: the writer has a command while it writes, the receiver while it handles;
- `SentInv`: nothing is carried or answered that was not sent, so a command that is
  sent now has no answer yet;
- `OneInv`, until a command is sent early: between them, the channel, the writer, the
  pipe and the receiver carry one command at most (`Carrying`), and none once the last
  one was answered. A client that waits therefore never puts a second one into the pipe;
- `WokenInv`: the main thread was notified only by a receiver that handles nothing any
  more. Nothing joins the receiver, and this order is all that keeps OBS alive under it.

`PushEffect`, `HandledEffect`, `AppendEffect` and `TakeEffect` say what a queue holds
after each operation. The only assumption is `LinkAssumption`: channels and pipes have
room for one message.

`Responses_proofs` proves the safety part of the refinement (`PromisesKept`): the
initial state of `EventManager` is one of `Responses`, and every step is a step of
`Responses` or a stutter, for any calls, identifiers and events. There is a lemma for
each step that is not a stutter. What they count is the copies of an event on their
way. `PlacesAppend` and `PlacesTail` follow those in the channel, where two copies may be
equal, by its positions. At most one response channel holds an event
(`OneHolder`, from `OrderInv` and `AnswerInv` above), so no assumption that calls are
finite in number is needed. `FailureInv` is added to `IInv`: an answer that is no success
carries no event, and only a call that lists error events is told of one.

What the proofs share: each inductive invariant also holds in TLC on the bounds of the
runs, and is proved with one step per action; the bounds are constants of
the modules, so that each theorem holds for every value of them.

Liveness under fairness is out of the prover's reach: `AcceptedIsTaken`,
`WorkerLeaves`, `StartIsAnswered`, `StopIsAnswered`, `AskedIsStopped`,
`OutputSettles`, `FinishedIsReady`, `ShutdownEnds`, `ServerEnds`, `AnswerArrives`,
`LoopStops` and the `Returns` part of `KeepsPromises` are model-checked only. Every
invariant and every action property that a passing run checks is proved.

## 5. Where the source disagrees with itself

- `obs.cpp:972`: the identifier of a live recording may be taken for an old one and
  reported as stopped, when the game's exit meets a START.
- `command_start.cpp:141`: "start recording once obs start capturing game frames"
  fails when the first frame is handled between the decision and the flag.
- `event_handler.rs:189`: an event is stored "in case a waiter registers slightly
  late", but a second event about the identifier overwrites it: STARTED and READY of
  one START, both taken before the waiter, make a successful start time out.
- `event_handler.rs:292`: the identifier links "the command sent to the expected
  response event", but two saves of one replay buffer use the same: the late answer
  to one that timed out is handed to the next.

Seen in the models, without a comment or a test of the repository that says
otherwise, or without a run of its own:

- `record_output.cpp:185`: STOP of a delayed recording leaves `delay_active_` set,
  and every later START is refused as "recording is already active".
- `replay_output.cpp:428`: `stop_replay_on_replay_ready_` is never reset, so that the
  next capture that is ready stops its replay (`stale_flag`).
- `obs.cpp:1977`: the ten seconds are not cut short when the replay ends, and stop the
  next one (`stale_timer`).
- `replay_output.cpp:327`: a replay that is cancelled before `StartAsDelay` waits for
  the game without an identifier, and the client has its READY; no first frame
  starts it.
- `replay_output.cpp:407`: the branch for "in case we still not capture game frame"
  is not taken by a delayed replay, since `Active` is true of it; its identifier
  stays, and the end of the game reports it as stopped once more.
- `replay_output.cpp:441`: the codes `REPLAY_ERROR_OFFLINE` and
  `REPLAY_ERROR_REPLAY_OFFLINE_DELAY` are swapped (data, not modelled).
- `communication.rs:199`: `shutdown` kills ascent-obs as soon as the writer has ended,
  about a second after SHUTDOWN was written, closed files or not.

## 6. Plan

Done: `WorkerThread`, `EventManager`, `Responses` and the refinement to it, `Recording`,
`ReplaySession`, `ReplayBuffer` and `Link`, each checked and, but for liveness, proved.

To be proved next: that the worker takes its tasks in the order in which they were
pushed, which `Serialised` does not say; the same order for the commands and the events
of `Link`; and what the step-by-step liveness arguments rest on, as invariants: that a
stopper, a START and a shutdown always have somebody left who can move them.

### Not modelled

- `CommunicationChannel`, the named pipe: no client in the repository opens one
  (`ObsClient` speaks over standard input and output), so what its other end does
  cannot be read from the source.
- The end of the command thread in `OBSControl`, which `Stop` of `WorkerThread` covers
  for any owner.
- `StreamOutput`, `SPLIT_VIDEO`, BRB, volume and gaze commands: no order of steps that
  the modelled sessions do not have already.
- Which source is visible, and `OBSDisplayTester`: they depend on windows, monitors
  and pictures, and end in notifications.
- Audio sources, encoder and settings tables, command line, logger, build scripts,
  serialisation of the protocol types: data without order.
- The vendored `obs-studio`, except for the replay buffer and the outputs, which
  this repository changed.
