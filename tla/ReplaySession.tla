--------------------------- MODULE ReplaySession ---------------------------
(***************************************************************************)
(* The life of a replay session inside ascent-obs.exe: START and STOP of a *)
(* replay, START_REPLAY_CAPTURE and STOP_REPLAY_CAPTURE, ReplayOutput      *)
(* under AdvancedOutput, and what the game has to do with it: a replay     *)
(* waits for the first frame, and ends when the game quits, at the latest  *)
(* by a timer when a capture is in progress.                               *)
(*                                                                         *)
(* The receiver thread performs the commands, the command thread the tasks *)
(* of the game capture, a thread of the timer queue OnStopReplayTimer, and *)
(* two threads of libobs the handlers of "stop" and "replay_ready".  The   *)
(* output and its captures are those of ReplayBuffer, seen from outside;   *)
(* the recording that may run beside is a choice where the code asks for   *)
(* it.  A step is a section under OBS::sync_ or ReplayOutput's sync_, or   *)
(* the code between two accesses to what another thread writes.            *)
(***************************************************************************)
EXTENDS Naturals, Sequences

CONSTANTS MaxId,       (* bound: the client issues the identifiers 1 .. MaxId *)
          MaxCaptures, (* bound: the captures that are accepted            *)
          MaxTasks     (* bound: the game posts while fewer tasks wait     *)

ASSUME ReplayAssumption == {MaxId, MaxCaptures, MaxTasks} \subseteq Nat

VARIABLES
  identifier_, active_, delay_active_,             (* ReplayOutput           *)
  capturing_replay_, stop_replay_on_replay_ready_,
  output, capture,       (* the libobs output and the capture it makes       *)
  game_source_,          (* none, hooking (no frame yet), captured or quit   *)
  stop_replay_timer_,    (* the replay it was started for, NoId when it is off *)
  rpc, command, last, captures,      (* the receiver       *)
  task_queue_, cpc, starting,                          (* the command thread *)
  epc,                   (* where the handler of the stop signal is          *)
  replay,                (* the replay the output was last started for       *)
  asked,                 (* the replays whose end was asked for              *)
  flagged,               (* whose end stop_replay_on_replay_ready_ is for    *)
  mishaps,               (* what went wrong, see the properties              *)
  reports                (* STOPPED and ERR sent about each identifier; the  *)
                         (* other events are left out                        *)

flags    == << active_, delay_active_, capturing_replay_ >>
receiver == << rpc, command, last, captures >>
commands == << task_queue_, cpc, starting >>
ready    == << stop_replay_on_replay_ready_, flagged >>

vars == << identifier_, flags, ready, output, capture, game_source_,
           stop_replay_timer_, receiver, commands, epc, replay, asked, mishaps,
           reports >>

NoId == 0            (* identifier -1 *)
Id == 1 .. MaxId

Init ==
  /\ identifier_ = NoId
  /\ active_ = FALSE /\ delay_active_ = FALSE /\ capturing_replay_ = FALSE
  /\ stop_replay_on_replay_ready_ = FALSE /\ flagged = NoId
  /\ output = "idle" /\ capture = "none"
  /\ game_source_ = "none" /\ stop_replay_timer_ = NoId
  /\ rpc = "idle" /\ command = NoId
  /\ last = 0 /\ captures = 0
  /\ task_queue_ = << >> /\ cpc = "idle" /\ starting = NoId
  /\ epc = "idle"
  /\ replay = NoId /\ asked = {} /\ mishaps = {}
  /\ reports = [i \in Id \cup {NoId} |-> {}]

-----------------------------------------------------------------------------
(* A slip: the identifier is not looked at.                                *)
DelayActiveAny == delay_active_ /\ ~ active_

(* BaseOutput *)
Active == active_ \/ delay_active_
DelayActive == identifier_ # NoId /\ delay_active_ /\ ~ active_

Live == output \in {"capturing", "stopping"}

(* Who holds OBS::sync_ and the sync_ of ReplayOutput across steps.        *)
SyncFree == cpc = "idle" /\ rpc # "mark"
OutputSyncFree == cpc # "starting" /\ rpc # "starting"

With(events, i, event) == [events EXCEPT ![i] = @ \cup {event}]
Report(i, event) == reports' = With(reports, i, event)

Mishap(hit, name) == mishaps' = IF hit THEN mishaps \cup {name} ELSE mishaps

Return == rpc' = "idle" /\ command' = NoId
Refuse == Return /\ Report(command, "ERR")

(* obs_output_start: the "start" signal is raised, and OBSStartReplayBuffer *)
(* runs, before it returns.  It waits for an end that was asked for, and   *)
(* fails while the output is ending of itself, or for reasons of its own.  *)
OutputStarts(i) ==
  /\ output = "idle"
  /\ output' = "capturing" /\ capture' = "none"
  /\ active_' = TRUE /\ delay_active_' = FALSE
  /\ replay' = i
  /\ UNCHANGED identifier_

OutputRefuses ==
  /\ output \notin {"stopping", "ended"}
  /\ identifier_' = NoId /\ delay_active_' = FALSE
  /\ UNCHANGED << active_, output, capture, replay >>

-----------------------------------------------------------------------------
(* ReplayOutput::Stop.  One that is not active is reported at once.        *)
StopInactive ==
  /\ ~ Active
  /\ reports' = IF identifier_ = NoId THEN reports
                ELSE With(reports, identifier_, "STOPPED")
  /\ identifier_' = NoId
  /\ UNCHANGED << delay_active_, output >>

(* A slip: a replay that was stopped goes on waiting for the game.          *)
StopDelayedWaits ==
  /\ delay_active_
  /\ Report(identifier_, "STOPPED")
  /\ UNCHANGED << identifier_, delay_active_, output >>

(* BaseOutput::Stop of one that waits for the game: its identifier stays.  *)
StopDelayed ==
  /\ delay_active_
  /\ delay_active_' = FALSE
  /\ Report(identifier_, "STOPPED")
  /\ UNCHANGED << identifier_, output >>

(* obs_output_stop and obs_output_force_stop raise "stopping" at once; a   *)
(* second stop changes nothing.                                            *)
StopActive ==
  /\ active_ /\ ~ delay_active_
  /\ output' = IF output = "capturing" THEN "stopping" ELSE output
  /\ UNCHANGED << identifier_, delay_active_, reports >>

StopForced ==
  /\ StopInactive \/ StopDelayed \/ StopActive
  /\ UNCHANGED << active_, capturing_replay_, capture, ready, replay >>

(* Without force a capture in progress is told to end instead.  The output *)
(* refuses when the capture has not begun, or is over.                     *)
StopUnforced ==
  IF Active /\ capturing_replay_
  THEN /\ stop_replay_on_replay_ready_' = TRUE
       /\ flagged' = replay
       /\ \/ /\ capture \in {"asked", "ending"} /\ Live
             /\ capture' = "ending"
             /\ UNCHANGED << identifier_, delay_active_, output, reports >>
          \/ /\ capture # "ending"
             /\ StopDelayed \/ StopActive
             /\ UNCHANGED capture
       /\ UNCHANGED << active_, capturing_replay_, replay >>
  ELSE StopForced

-----------------------------------------------------------------------------
(* The receiver thread.                                                    *)

(* CommandStart::Perform, AdvancedOutput::StartReplay and                  *)
(* ReplayOutput::Start, up to the writing of identifier_, without a lock.  *)
(* The game source that START may make is an AddGameSource just before.    *)
ReceiveStart ==
  /\ rpc = "idle" /\ SyncFree /\ last < MaxId
  /\ last' = last + 1
  /\ \/ /\ Report(last', "ERR")
        /\ UNCHANGED << identifier_, rpc, command, mishaps >>
     \/ /\ ~ active_
        /\ identifier_' = last' /\ command' = last'
        /\ Mishap(epc # "idle" \/ delay_active_, "overlap")
        /\ rpc' = "decide"
        /\ UNCHANGED reports
  /\ UNCHANGED << flags, ready, output, capture, game_source_,
                  stop_replay_timer_, captures, commands, epc, replay, asked >>

(* No output is running, or the recording waits for the game: so does the  *)
(* replay.  It may have been stopped since it wrote identifier_.           *)
StartAsDelay ==
  /\ rpc = "decide"
  /\ delay_active_' = TRUE
  /\ Return
  /\ UNCHANGED << identifier_, active_, capturing_replay_, ready, output,
                  capture, game_source_, stop_replay_timer_, last, captures,
                  commands, epc, replay, asked, mishaps, reports >>

(* A slip: the lock is not taken, nor is the identifier looked at.         *)
DoStartUnasked ==
  /\ rpc = "decide"
  /\ rpc' = "starting"
  /\ UNCHANGED << command, reports, identifier_, flags,
                  ready, output, capture, game_source_, stop_replay_timer_,
                  last, captures, commands, epc, replay, asked, mishaps >>

DoStart ==
  /\ rpc = "decide" /\ OutputSyncFree
  /\ IF identifier_ = NoId THEN Refuse
     ELSE rpc' = "starting" /\ UNCHANGED << command, reports >>
  /\ UNCHANGED << identifier_, flags, ready, output, capture, game_source_,
                  stop_replay_timer_, last, captures, commands, epc, replay,
                  asked, mishaps >>

StartReplayReturns ==
  /\ rpc = "starting"
  /\ \/ OutputStarts(command) /\ Return /\ UNCHANGED reports
     \/ OutputRefuses /\ Refuse
  /\ UNCHANGED << capturing_replay_, ready, game_source_, stop_replay_timer_,
                  last, captures, commands, epc, asked, mishaps >>

(* OBS::Stop compares the identifiers without a lock, and reports one that *)
(* it does not know as stopped.                                            *)
ReceiveStop(i) ==
  /\ rpc = "idle" /\ i <= last
  /\ IF i = identifier_
     THEN /\ rpc' = "stop" /\ command' = i
          /\ asked' = asked \cup {i}
          /\ UNCHANGED reports
     ELSE Report(i, "STOPPED") /\ UNCHANGED << rpc, command, asked >>
  /\ UNCHANGED << identifier_, flags, ready, output, capture, game_source_,
                  stop_replay_timer_, last, captures, commands, epc, replay, mishaps >>

StopReplay ==
  /\ rpc = "stop" /\ SyncFree /\ OutputSyncFree
  /\ StopForced
  /\ Return
  /\ UNCHANGED << game_source_, stop_replay_timer_, last, captures, commands,
                  epc, asked, mishaps >>

(* StartCaptureReplay, under OBS::sync_: start_capute_replay, and then     *)
(* capturing_replay_.  A capture that is refused changes nothing.          *)
StartCaptureReplay ==
  /\ rpc = "idle" /\ SyncFree /\ captures < MaxCaptures
  /\ active_ /\ Live /\ capture = "none"
  /\ capture' = "asked"
  /\ captures' = captures + 1
  /\ rpc' = "mark"
  /\ UNCHANGED << identifier_, flags, ready, output, game_source_,
                  stop_replay_timer_, command, last, commands, epc, replay, asked, mishaps, reports >>

MarkCapture ==
  /\ rpc = "mark"
  /\ capturing_replay_' = TRUE
  /\ Mishap(~ active_ \/ capture # "asked", "late_capture")
  /\ rpc' = "idle"
  /\ UNCHANGED << identifier_, active_, delay_active_, ready, output, capture,
                  game_source_, stop_replay_timer_, command, last, captures, commands, epc, replay, asked, reports >>

(* StopCaptureReplay, under OBS::sync_, likewise                           *)
StopCaptureReplay ==
  /\ rpc = "idle" /\ SyncFree
  /\ active_ /\ capturing_replay_ /\ capture = "asked"
  /\ capture' = "ending"
  /\ UNCHANGED << identifier_, flags, ready, output, game_source_,
                  stop_replay_timer_, receiver, commands, epc, replay, asked,
                  mishaps, reports >>

(* CommandAddGameSource, or the game source of a START *)
AddGameSource ==
  /\ rpc = "idle" /\ SyncFree
  /\ game_source_ = "none" /\ game_source_' = "hooking"
  /\ UNCHANGED << identifier_, flags, ready, output, capture,
                  stop_replay_timer_, receiver, commands, epc, replay, asked,
                  mishaps, reports >>

-----------------------------------------------------------------------------
(* The game and its capture post what happens to the command thread.       *)
Post(state, task) ==
  /\ Len(task_queue_) < MaxTasks
  /\ game_source_' = state
  /\ task_queue_' = Append(task_queue_, << task, NoId >>)
  /\ UNCHANGED << identifier_, flags, ready, output, capture,
                  stop_replay_timer_, receiver, cpc, starting, epc, replay,
                  asked, mishaps, reports >>

Captured == game_source_ = "hooking" /\ Post("captured", "captured")
GameQuits == game_source_ \in {"hooking", "captured"} /\ Post("quit", "exit")

-----------------------------------------------------------------------------
(* The command thread.  A task is the head of the queue.                   *)
Take(task) ==
  /\ cpc = "idle" /\ SyncFree /\ OutputSyncFree
  /\ task_queue_ # << >> /\ Head(task_queue_)[1] = task

(* A pending replay is started, under both locks, with what is now the     *)
(* identifier.                                                             *)
HandleCaptured ==
  /\ Take("captured")
  /\ task_queue_' = Tail(task_queue_)
  /\ IF DelayActive THEN cpc' = "starting" /\ starting' = identifier_
     ELSE UNCHANGED << cpc, starting >>
  /\ UNCHANGED << identifier_, flags, ready, output, capture, game_source_,
                  stop_replay_timer_, receiver, epc, replay, asked, mishaps,
                  reports >>

PendingStartReturns ==
  /\ cpc = "starting"
  /\ \/ OutputStarts(starting) /\ UNCHANGED reports
     \/ OutputRefuses /\ Report(starting, "ERR")
  /\ cpc' = "idle" /\ starting' = NoId
  /\ UNCHANGED << capturing_replay_, ready, game_source_, stop_replay_timer_,
                  receiver, task_queue_, epc, asked, mishaps >>

(* HandleGameCaptureStateChanged when the game has quit, and OnGameQuite.  *)
HandleGameExit ==
  /\ Take("exit")
  /\ task_queue_' = Tail(task_queue_)
  /\ asked' = asked \cup ({replay, identifier_} \ {NoId})
  /\ IF capturing_replay_
     THEN cpc' = "quit" /\ UNCHANGED << identifier_, flags, ready, output,
                                        capture, replay, game_source_, reports >>
     ELSE StopForced /\ game_source_' = "none" /\ UNCHANGED cpc
  /\ UNCHANGED << stop_replay_timer_, receiver, starting, epc, mishaps >>

(* A slip: the timer is not started.                                       *)
OnGameQuiteUntimed ==
  /\ cpc = "quit" /\ OutputSyncFree
  /\ StopUnforced
  /\ asked' = asked \cup ({replay, identifier_} \ {NoId})
  /\ game_source_' = "none"
  /\ cpc' = "idle"
  /\ UNCHANGED << stop_replay_timer_, receiver, task_queue_, starting, epc,
                  mishaps >>

(* A capture is in progress, or was a moment ago.  A timer that is already *)
(* running is not started again.                                           *)
OnGameQuite ==
  /\ cpc = "quit" /\ OutputSyncFree
  /\ StopUnforced
  /\ asked' = asked \cup ({replay, identifier_} \ {NoId})
  /\ stop_replay_timer_' = IF stop_replay_timer_ = NoId THEN replay
                           ELSE stop_replay_timer_
  /\ game_source_' = "none"
  /\ cpc' = "idle"
  /\ UNCHANGED << receiver, task_queue_, starting, epc, mishaps >>

(* The task that the handler of replay_ready has posted                    *)
QuitWhenReady ==
  /\ Take("quit")
  /\ task_queue_' = Tail(task_queue_)
  /\ StopForced
  /\ Mishap(Head(task_queue_)[2] # replay, "stale_task")
  /\ UNCHANGED << game_source_, stop_replay_timer_, receiver, cpc, starting,
                  epc, asked >>

(* A thread of the timer queue                                             *)
OnStopReplayTimer ==
  /\ stop_replay_timer_ # NoId /\ SyncFree /\ OutputSyncFree
  /\ StopForced
  /\ stop_replay_timer_' = NoId
  /\ Mishap(stop_replay_timer_ # replay, "stale_timer")
  /\ UNCHANGED << game_source_, receiver, commands, epc, asked >>

-----------------------------------------------------------------------------
(* A slip: a capture that ends with its replay stays marked as in progress. *)
OutputEndsUncaptured ==
  /\ epc = "idle"
  /\ \/ output = "stopping" /\ output' = "ended"
     \/ output = "capturing" /\ output' = "failed"
  /\ active_' = FALSE /\ delay_active_' = FALSE
  /\ epc' = "report"
  /\ UNCHANGED << identifier_, capturing_replay_, ready, capture, game_source_,
                  stop_replay_timer_, receiver, commands, replay, asked,
                  mishaps, reports >>

(* The output ends, because it was asked to or of itself, and raises       *)
(* "stop": OBSStopReplayBuffer reads the identifier twice and forgets it.  *)
OutputEnds ==
  /\ epc = "idle"
  /\ \/ output = "stopping" /\ output' = "ended"
     \/ output = "capturing" /\ output' = "failed"
  /\ active_' = FALSE /\ delay_active_' = FALSE /\ capturing_replay_' = FALSE
  /\ epc' = "report"
  /\ UNCHANGED << identifier_, ready, capture, game_source_,
                  stop_replay_timer_, receiver, commands, replay, asked,
                  mishaps, reports >>

(* A slip: the identifier is forgotten first.                              *)
ReportStoppedForgotten ==
  /\ epc = "report" /\ epc' = "forget"
  /\ Report(NoId, "STOPPED")
  /\ UNCHANGED << identifier_, flags, ready, output, capture, game_source_,
                  stop_replay_timer_, receiver, commands, replay, asked,
                  mishaps >>

ReportStopped ==
  /\ \/ /\ epc = "report"
        /\ epc' = IF identifier_ = NoId THEN "idle" ELSE "tell"
        /\ UNCHANGED reports
     \/ epc = "tell" /\ epc' = "forget" /\ Report(identifier_, "STOPPED")
  /\ UNCHANGED << identifier_, flags, ready, output, capture, game_source_,
                  stop_replay_timer_, receiver, commands, replay, asked,
                  mishaps >>

ForgetIdentifier ==
  /\ epc = "forget" /\ epc' = "idle"
  /\ identifier_' = NoId
  /\ UNCHANGED << flags, ready, output, capture, game_source_,
                  stop_replay_timer_, receiver, commands, replay, asked,
                  mishaps, reports >>

(* end_data_capture_thread of libobs.  A capture that had not begun is     *)
(* lost.                                                                   *)
CaptureEnds ==
  /\ output \in {"ended", "failed"} /\ capture \in {"none", "asked"}
  /\ epc = "idle"
  /\ output' = "idle" /\ capture' = "none"
  /\ UNCHANGED << identifier_, flags, ready, game_source_, stop_replay_timer_,
                  receiver, commands, epc, replay, asked, mishaps, reports >>

(* The file of a capture is complete, and "replay_ready" is raised:        *)
(* OBSReplayVideoReady, OBS::OnReplayVideoReady.                           *)
CaptureFinishes ==
  /\ \/ capture = "ending"
     \/ capture = "asked" /\ output \in {"ended", "failed"}
  /\ capture' = "told"
  /\ capturing_replay_' = FALSE
  /\ UNCHANGED << identifier_, active_, delay_active_, ready, output,
                  game_source_, stop_replay_timer_, receiver, commands, epc,
                  replay, asked, mishaps, reports >>

(* A slip: the replay is stopped whenever a capture is ready.              *)
ReportReadyQuits ==
  /\ capture = "told" /\ capture' = "none"
  /\ task_queue_' = Append(task_queue_, << "quit", replay >>)
  /\ UNCHANGED << identifier_, flags, ready, output, game_source_,
                  stop_replay_timer_, receiver, cpc, starting, epc, replay,
                  asked, mishaps, reports >>

(* stop_replay_on_replay_ready_ is not reset.                              *)
ReportReady ==
  /\ capture = "told" /\ capture' = "none"
  /\ task_queue_' = IF stop_replay_on_replay_ready_
                    THEN Append(task_queue_, << "quit", replay >>)
                    ELSE task_queue_
  /\ Mishap(stop_replay_on_replay_ready_ /\ flagged # replay, "stale_flag")
  /\ UNCHANGED << identifier_, flags, ready, output, game_source_,
                  stop_replay_timer_, receiver, cpc, starting, epc, replay,
                  asked, reports >>

-----------------------------------------------------------------------------
ReceiverStep ==
  \/ StartAsDelay \/ DoStart \/ StartReplayReturns
  \/ StopReplay \/ MarkCapture

CommandThreadStep ==
  \/ HandleCaptured \/ PendingStartReturns \/ HandleGameExit \/ OnGameQuite
  \/ QuitWhenReady

HandlerStep == ReportStopped \/ ForgetIdentifier \/ ReportReady

ClientCommand ==
  \/ ReceiveStart \/ StartCaptureReplay \/ StopCaptureReplay \/ AddGameSource
  \/ \E i \in Id : ReceiveStop(i)

Next ==
  \/ ClientCommand \/ ReceiverStep \/ Captured \/ GameQuits
  \/ CommandThreadStep \/ OnStopReplayTimer
  \/ OutputEnds \/ CaptureFinishes \/ HandlerStep \/ CaptureEnds

(* The timer runs for ten seconds.  A capture that was told to end may not *)
(* find the end of its picture while the output lives, so its file is only *)
(* certain to be complete when the output has ended.                       *)
Fairness ==
  /\ WF_vars(ReceiverStep)
  /\ WF_vars(CommandThreadStep)
  /\ WF_vars(HandlerStep)
  /\ SF_vars(OnStopReplayTimer)
  /\ WF_vars(OutputEnds /\ output = "stopping")
  /\ WF_vars(CaptureFinishes /\ ~ Live)
  /\ WF_vars(CaptureEnds)

Spec == Init /\ [][Next]_vars /\ Fairness

-----------------------------------------------------------------------------
(* What goes wrong is named in mishaps, and each property says which it    *)
(* does not survive:                                                       *)
(*   overlap       START writes identifier_ while the handler of the stop  *)
(*                 before still reads it, or over that of a delayed replay *)
(*   late_capture  the output ends between start_capute_replay and         *)
(*                 capturing_replay_ = true                                *)
(*   stale_flag, stale_task, stale_timer                                   *)
(*                 the end of one replay was prepared for another          *)
Spared(names) == mishaps \cap names = {}

Task == {"captured", "exit", "quit"} \X (Id \cup {NoId})

(* The state has its types, and a pending start an identifier.             *)
TypeOK ==
  /\ identifier_ \in Id \cup {NoId} /\ replay \in Id \cup {NoId}
  /\ active_ \in BOOLEAN /\ delay_active_ \in BOOLEAN
  /\ capturing_replay_ \in BOOLEAN /\ stop_replay_on_replay_ready_ \in BOOLEAN
  /\ output \in {"idle", "capturing", "stopping", "ended", "failed"}
  /\ capture \in {"none", "asked", "ending", "told"}
  /\ game_source_ \in {"none", "hooking", "captured", "quit"}
  /\ stop_replay_timer_ \in Id \cup {NoId}
  /\ flagged \in Id \cup {NoId}
  /\ rpc \in {"idle", "decide", "starting", "stop", "mark"}
  /\ command \in Id \cup {NoId} /\ last \in 0 .. MaxId
  /\ captures \in 0 .. MaxCaptures
  /\ cpc \in {"idle", "starting", "quit"}
  /\ starting \in IF cpc = "starting" THEN Id ELSE {NoId}
  /\ epc \in {"idle", "report", "tell", "forget"}
  /\ asked \subseteq Id
  /\ task_queue_ \in Seq(Task)
  /\ reports \in [Id \cup {NoId} -> SUBSET {"STOPPED", "ERR"}]

(* The live output is known under the identifier it was started for, so    *)
(* that a STOP finds it, and no replay waits for the game beside it.        *)
LiveHasIdentifier ==
  Live /\ Spared({"overlap"}) =>
    identifier_ = replay /\ ~ delay_active_

(* A replay reported as stopped is not live, nor started again, whichever  *)
(* of STOP, the game and the output itself ended it, and whatever was      *)
(* starting it meanwhile.                                                  *)
StoppedIsStopped ==
  Spared({"overlap"}) =>
    \A i \in Id : "STOPPED" \in reports[i] =>
      /\ ~ (Live /\ replay = i)
      /\ ~ (delay_active_ /\ identifier_ = i)

(* capturing_replay_, which OnGameQuite and STOP_REPLAY_CAPTURE trust,     *)
(* holds only while libobs makes a capture.                                *)
CapturingIsCaptured ==
  capturing_replay_ /\ Spared({"late_capture"}) =>
    capture \in {"asked", "ending"}

(* A live replay is told to stop only by a STOP or by the end of its game. *)
StopsForAReason ==
  [][output = "capturing" /\ output' = "stopping"
       /\ mishaps' \cap {"stale_flag", "stale_task", "stale_timer",
                          "overlap"} = {}
     => replay \in asked']_vars

(* A replay that was to end, by a STOP or because its game has quit, is    *)
(* reported as stopped, at the latest after the timer when a capture keeps *)
(* it.                                                                     *)
AskedIsStopped ==
  \A i \in Id :
    i \in asked ~> (reports[i] # {} \/ ~ Spared({"overlap"}))
=============================================================================
