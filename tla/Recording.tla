------------------------------ MODULE Recording ------------------------------
(***************************************************************************)
(* The life of a video recording inside ascent-obs.exe: the START, STOP,   *)
(* ADD_GAME_SOURCE and GAME_FOCUS_CHANGED commands, RecordOutput under     *)
(* AdvancedOutput, and the game capture source that delays a recording     *)
(* until the game's first frame.  Replay and streaming outputs, monitor    *)
(* and window sources are left out: no command here creates them.          *)
(*                                                                         *)
(* Four threads move it.  The receiver thread performs the commands, one   *)
(* after the other; the command thread runs the tasks the capture source   *)
(* posts, in order; a libobs thread runs the handler of the output's       *)
(* "stop" signal; the graphics thread reports the state of the capture.    *)
(* Only some of what they share is under OBS::sync_: a step below is one   *)
(* section under that lock, or the code between two reads or writes of     *)
(* what another thread writes.                                             *)
(***************************************************************************)
EXTENDS Naturals, Sequences

CONSTANTS MaxId,      (* bound: the client issues the identifiers 1 .. MaxId *)
          MaxTasks,   (* bound: the capture source posts while fewer wait    *)
          Foreground  (* what commands may say of the game's window          *)

ASSUME RecordingAssumption ==
  MaxId \in Nat /\ MaxTasks \in Nat /\ Foreground \in SUBSET BOOLEAN

VARIABLES
  identifier_, active_, delay_active_,             (* RecordOutput           *)
  output,                  (* the libobs output it drives                    *)
  game_source_,            (* none, hooking (no frame yet) or captured       *)
  foreground_, alive,      (* of the game source, and its process            *)
  advanced_output_,        (* it exists                                      *)
  was_ever_initialized,    (* a START has come to its end                    *)
  last,                    (* the last identifier the client issued          *)
  rpc, command,            (* the receiver: where it is, in which command    *)
  already_running_,
  task_queue_, cpc,        (* the command thread: its queue, where it is     *)
  starting,                (* the recording it is starting, under sync_      *)
  epc,                     (* where the handler of the stop signal is        *)
  recording,               (* the recording the output was last started for  *)
  delayed,                 (* the recordings accepted to start with the game *)
  overlap,                 (* see EndIsHandled                             *)
  reports                  (* the events sent about each identifier          *)

recorder == << identifier_, active_, delay_active_ >>
game     == << game_source_, foreground_, alive >>
receiver == << rpc, command, already_running_, advanced_output_,
               was_ever_initialized, last >>
commands == << task_queue_, cpc, starting >>
history  == << recording, delayed, overlap >>

vars == << recorder, output, game, receiver, commands, epc, history, reports >>

NoId == 0            (* identifier -1 *)
Id == 1 .. MaxId

NoCommand == [id |-> NoId, game |-> FALSE, foreground |-> FALSE]

Init ==
  /\ identifier_ = NoId /\ active_ = FALSE /\ delay_active_ = FALSE
  /\ output = "idle"
  /\ game_source_ = "none" /\ foreground_ = FALSE /\ alive = FALSE
  /\ advanced_output_ = FALSE /\ was_ever_initialized = FALSE /\ last = 0
  /\ rpc = "idle" /\ command = NoCommand /\ already_running_ = FALSE
  /\ task_queue_ = << >> /\ cpc = "idle" /\ starting = NoId
  /\ epc = "idle"
  /\ recording = NoId /\ delayed = {} /\ overlap = FALSE
  /\ reports = [i \in Id \cup {NoId} |-> {}]


-----------------------------------------------------------------------------
(* BaseOutput *)
Active == active_ \/ delay_active_
(* A slip: without the test of the identifier.                             *)
DelayActiveAnyId == delay_active_ /\ ~ active_

DelayActive == identifier_ # NoId /\ delay_active_ /\ ~ active_

(* OBS::sync_ is held across steps only while the command thread starts a  *)
(* delayed recording.                                                      *)
SyncFree == cpc # "starting"

Report(i, event) == reports' = [reports EXCEPT ![i] = @ \cup {event}]

Finish(event) ==
  /\ rpc' = "idle"
  /\ command' = NoCommand
  /\ already_running_' = FALSE
  /\ Report(command.id, event)

(* OBS::UsingGameSource and OBS::HasDelayGameSource                        *)
UsingGameSource == game_source_ # "none" /\ foreground_
HasDelayGameSource == game_source_ = "hooking"

(* GameCaptureSource::SetForegroundState: it looks after the process when  *)
(* the game leaves the foreground, and posts what the capture would post.  *)
PostedBy(foreground) ==
  IF game_source_ # "none" /\ ~ foreground /\ ~ alive
  THEN Append(task_queue_, "exit") ELSE task_queue_

(* The start of a recording overlaps the end of another when it writes     *)
(* identifier_ while the handler of the stop signal is running, or when a  *)
(* stop finds identifier_ set and active_ not yet set by the start signal. *)
EndIsHandled == epc # "idle"

-----------------------------------------------------------------------------
(* obs_output_start: the "start" signal is raised, and OBSStartRecording   *)
(* runs, before it returns.  It waits for an end that was asked for, and   *)
(* fails while the output is ending of itself, or for reasons of its own.  *)
OutputStarts(i) ==
  /\ output = "idle"
  /\ output' = "capturing"
  /\ active_' = TRUE
  /\ delay_active_' = FALSE
  /\ recording' = i
  /\ UNCHANGED << identifier_, delayed, overlap >>

OutputRefuses ==
  /\ output \notin {"stopping", "ended"}
  /\ identifier_' = NoId
  /\ UNCHANGED << active_, delay_active_, output, history >>

(* A slip: the identifier is kept.                                         *)
StopInactiveKeeps ==
  /\ ~ active_
  /\ reports' = IF identifier_ = NoId THEN reports
                ELSE [reports EXCEPT ![identifier_] = @ \cup {"STOPPED"}]
  /\ overlap' = (overlap \/ rpc = "starting")
  /\ UNCHANGED << recorder, output, recording, delayed >>

(* RecordOutput::Stop of a recording that is not active, the delayed ones  *)
(* among them: reported at once, and delay_active_ stays.                  *)
StopInactive ==
  /\ ~ active_
  /\ identifier_' = NoId
  /\ reports' = IF identifier_ = NoId THEN reports
                ELSE [reports EXCEPT ![identifier_] = @ \cup {"STOPPED"}]
  /\ overlap' = (overlap \/ rpc = "starting")
  /\ UNCHANGED << active_, delay_active_, output, recording, delayed >>

(* A slip: forgets the identifier before the output has ended.             *)
StopActiveForgets ==
  /\ active_
  /\ output = "capturing"
  /\ output' = "stopping"
  /\ identifier_' = NoId
  /\ Report(identifier_, "STOPPING")
  /\ UNCHANGED << active_, delay_active_, history >>

(* A slip: says stopped before the output has ended.                       *)
StopActiveEager ==
  /\ active_
  /\ output = "capturing"
  /\ output' = "stopping"
  /\ Report(identifier_, "STOPPED")
  /\ UNCHANGED << recorder, history >>

(* BaseOutput::Stop and obs_output_stop: the "stopping" signal is raised   *)
(* at once, and a second stop changes nothing.                             *)
StopActive ==
  /\ active_
  /\ output = "capturing"
  /\ output' = "stopping"
  /\ Report(identifier_, "STOPPING")
  /\ UNCHANGED << recorder, history >>

StopAgain ==
  /\ active_
  /\ output = "stopping"
  /\ UNCHANGED << recorder, output, history, reports >>

RecorderStop == StopInactive \/ StopActive \/ StopAgain

-----------------------------------------------------------------------------
(* CommandStart::Perform, up to InitializeOBS.                             *)
ReceiveStart(withGame, foreground) ==
  /\ rpc = "idle"
  /\ SyncFree
  /\ last < MaxId
  /\ foreground => withGame
  /\ last' = last + 1
  /\ command' = [id |-> last + 1, game |-> withGame, foreground |-> foreground]
  /\ already_running_' = Active
  /\ rpc' = IF Active THEN "scene" ELSE "video"
  /\ UNCHANGED << recorder, output, game, advanced_output_,
                  was_ever_initialized, commands, epc,
                  history, reports >>

(* InitializeOBS: DoInitVideo sleeps until libobs has let go of the video. *)
(* Its own tests of Active find nothing: only this thread makes it true.   *)
InitializeOBS ==
  /\ rpc = "video"
  /\ \/ /\ output = "idle"
        /\ rpc' = "scene"
        /\ advanced_output_' = TRUE
        /\ UNCHANGED << command, already_running_, reports >>
     \/ output = "idle" /\ Finish("ERR") /\ UNCHANGED advanced_output_
  /\ UNCHANGED << recorder, output, game, was_ever_initialized, last, commands,
                  epc, history >>

(* InitScene, under sync_.  An existing game source is kept whatever the   *)
(* command names; a new one needs a live process.                          *)
InitScene ==
  /\ rpc = "scene"
  /\ SyncFree
  /\ \/ /\ command.game /\ game_source_ = "none"
        /\ \/ /\ game_source_' = "hooking"
              /\ alive' = TRUE
              /\ foreground_' = command.foreground
              /\ rpc' = "reset"
              /\ UNCHANGED << command, already_running_, reports >>
           \/ Finish("ERR") /\ UNCHANGED game
        /\ UNCHANGED task_queue_
     \/ /\ ~ command.game \/ game_source_ # "none"
        /\ LET shown == foreground_ \/ command.foreground IN
           IF Active \/ game_source_ = "none" THEN UNCHANGED << foreground_,
                                                                task_queue_ >>
           ELSE foreground_' = shown /\ task_queue_' = PostedBy(shown)
        /\ rpc' = "reset"
        /\ UNCHANGED << game_source_, alive, command, already_running_,
                        reports >>
  /\ UNCHANGED << recorder, output, was_ever_initialized, advanced_output_,
                  last, cpc, starting,
                  epc, history >>

(* A slip: the error is not sent.                                          *)
ResetOutputSettingSilent ==
  /\ rpc = "reset"
  /\ \/ /\ ~ Active
        /\ rpc' = "decide"
        /\ UNCHANGED << command, already_running_, was_ever_initialized >>
     \/ /\ rpc' = "idle" /\ command' = NoCommand /\ already_running_' = FALSE
        /\ was_ever_initialized' = TRUE
  /\ UNCHANGED << recorder, output, game, advanced_output_, last, commands,
                  epc, history, reports >>

(* ResetOutputSetting, outside sync_.                                      *)
ResetOutputSetting ==
  /\ rpc = "reset"
  /\ \/ /\ ~ Active
        /\ rpc' = "decide"
        /\ UNCHANGED << command, already_running_, was_ever_initialized,
                        reports >>
     \/ Finish("ERR") /\ was_ever_initialized' = TRUE
  /\ UNCHANGED << recorder, output, game, advanced_output_, last, commands,
                  epc, history >>

(* CommandStart::StartDelayRecording, outside sync_.                       *)
StartDelayRecording ==
  /\ rpc = "decide"
  /\ LET first == ~ already_running_ /\ ~ was_ever_initialized IN
     rpc' = IF HasDelayGameSource \/ (UsingGameSource /\ first)
            THEN "delay" ELSE "start"
  /\ UNCHANGED << recorder, output, game, command, already_running_,
                  was_ever_initialized, advanced_output_, last, commands, epc,
                  history, reports >>

(* RecordOutput::StartDelayRecording, outside sync_, then READY.           *)
DelayRecording ==
  /\ rpc = "delay"
  /\ identifier_' = command.id
  /\ delay_active_' = TRUE
  /\ delayed' = delayed \cup {command.id}
  /\ overlap' = (overlap \/ EndIsHandled)
  /\ was_ever_initialized' = TRUE
  /\ Finish("READY")
  /\ UNCHANGED << active_, output, game, advanced_output_, last, commands,
                  epc, recording >>

(* AdvancedOutput::StartRecording and RecordOutput::Start, outside sync_,  *)
(* up to obs_output_start.                                                 *)
StartRecording ==
  /\ rpc = "start"
  /\ identifier_' = command.id
  /\ overlap' = (overlap \/ EndIsHandled)
  /\ rpc' = "starting"
  /\ UNCHANGED << active_, delay_active_, output, game, command,
                  already_running_, was_ever_initialized, advanced_output_,
                  last, commands, epc,
                  recording, delayed, reports >>

(* A slip: READY is sent after ERR.                                        *)
StartRecordingReturnsReady ==
  /\ rpc = "starting"
  /\ \/ OutputStarts(command.id) /\ Report(command.id, "READY")
     \/ /\ OutputRefuses
        /\ reports' = [reports EXCEPT ![command.id] = @ \cup {"ERR", "READY"}]
  /\ rpc' = "idle" /\ command' = NoCommand /\ already_running_' = FALSE
  /\ was_ever_initialized' = TRUE
  /\ UNCHANGED << game, advanced_output_, last, commands, epc >>

StartRecordingReturns ==
  /\ rpc = "starting"
  /\ \/ /\ OutputStarts(command.id)
        /\ reports' = [i \in Id \cup {NoId} |->
                         reports[i]
                           \cup (IF i = identifier_ THEN {"STARTED"} ELSE {})
                           \cup (IF i = command.id THEN {"READY"} ELSE {})]
     \/ OutputRefuses /\ Report(command.id, "ERR")
  /\ rpc' = "idle" /\ command' = NoCommand /\ already_running_' = FALSE
  /\ was_ever_initialized' = TRUE
  /\ UNCHANGED << game, advanced_output_, last, commands, epc >>

-----------------------------------------------------------------------------
(* CommandStop: OBS::Stop compares the identifiers outside sync_, and      *)
(* reports one it does not know as stopped; before the first START has     *)
(* made an output it does nothing.                                         *)
ReceiveStop(i) ==
  /\ rpc = "idle"
  /\ advanced_output_
  /\ i <= last
  /\ \/ /\ i = identifier_
        /\ rpc' = "stop"
        /\ command' = [NoCommand EXCEPT !.id = i]
        /\ UNCHANGED reports
     \/ /\ i # identifier_
        /\ Report(i, "STOPPED")
        /\ UNCHANGED << rpc, command >>
  /\ UNCHANGED << recorder, output, game, already_running_,
                  was_ever_initialized, advanced_output_, last, commands, epc,
                  history >>

(* OBS::StopRecording, under sync_: it stops whatever is recording by then. *)
StopRecording ==
  /\ rpc = "stop"
  /\ SyncFree
  /\ RecorderStop
  /\ rpc' = "idle" /\ command' = NoCommand
  /\ UNCHANGED << game, already_running_, was_ever_initialized,
                  advanced_output_, last, commands,
                  epc >>

(* CommandAddGameSource: another process replaces the source, and leaves   *)
(* none when it cannot be opened.  Not before the first START: the scene   *)
(* does not exist.                                                         *)
AddGameSource(foreground) ==
  /\ rpc = "idle"
  /\ SyncFree
  /\ was_ever_initialized
  /\ \/ /\ game_source_' = "hooking" /\ alive' = TRUE
        /\ foreground_' = foreground
     \/ game_source_' = "none" /\ alive' = FALSE /\ foreground_' = FALSE
  /\ UNCHANGED << recorder, output, receiver, commands, epc, history, reports >>

(* CommandGameFocusChanged -> OBS::UpdateSourcesVisiblity, under sync_.    *)
GameFocusChanged(foreground) ==
  /\ rpc = "idle"
  /\ SyncFree
  /\ game_source_ # "none"
  /\ Len(task_queue_) < MaxTasks
  /\ foreground_' = foreground
  /\ task_queue_' = PostedBy(foreground)
  /\ UNCHANGED << recorder, output, game_source_, alive, receiver, cpc,
                  starting,
                  epc, history, reports >>
-----------------------------------------------------------------------------
(* The game and its capture (graphics thread): the first frame, a hook     *)
(* that fails, and the end of the process.                                 *)
Captured ==
  /\ game_source_ = "hooking" /\ alive
  /\ Len(task_queue_) < MaxTasks
  /\ game_source_' = "captured"
  /\ task_queue_' = Append(task_queue_, "captured")
  /\ UNCHANGED << recorder, output, foreground_, alive, receiver, cpc, starting,
                  epc, history, reports >>

HookFails ==
  /\ game_source_ = "hooking" /\ alive
  /\ Len(task_queue_) < MaxTasks
  /\ task_queue_' = Append(task_queue_, "error")
  /\ UNCHANGED << recorder, output, game, receiver, cpc, starting, epc, history,
                  reports >>

ProcessQuits ==
  /\ game_source_ # "none" /\ alive
  /\ alive' = FALSE
  /\ UNCHANGED << recorder, output, game_source_, foreground_, receiver,
                  commands,
                  epc, history, reports >>

CaptureLost ==
  /\ game_source_ # "none" /\ ~ alive
  /\ Len(task_queue_) < MaxTasks
  /\ task_queue_' = Append(task_queue_, "exit")
  /\ UNCHANGED << recorder, output, game, receiver, cpc, starting, epc, history,
                  reports >>

-----------------------------------------------------------------------------
(* The command thread.  A task is the head of the queue.                   *)
Take(task) ==
  /\ cpc = "idle"
  /\ task_queue_ # << >>
  /\ Head(task_queue_) = task

(* The end of HandleGameCaptureStateChanged(capturing): the game is shown, *)
(* and an end of its process met on the way is posted.                     *)
ShowGame(rest) ==
  /\ foreground_' = (game_source_ # "none")
  /\ task_queue_' = IF game_source_ # "none" /\ ~ foreground_ /\ ~ alive
                    THEN Append(rest, "exit") ELSE rest

(* StartPendingDelayRecording, under sync_ to its end.                     *)
HandleCaptured ==
  /\ Take("captured")
  /\ IF DelayActive
     THEN /\ cpc' = "starting"
          /\ starting' = identifier_
          /\ UNCHANGED << foreground_, task_queue_ >>
     ELSE ShowGame(Tail(task_queue_)) /\ UNCHANGED << cpc, starting >>
  /\ UNCHANGED << recorder, output, game_source_, alive, receiver, epc, history,
                  reports >>

PendingStartReturns ==
  /\ cpc = "starting"
  /\ \/ OutputStarts(starting) /\ Report(identifier_, "STARTED")
     \/ OutputRefuses /\ Report(starting, "ERR")
  /\ ShowGame(Tail(task_queue_))
  /\ cpc' = "idle" /\ starting' = NoId
  /\ UNCHANGED << game_source_, alive, receiver, epc >>

HandleHookError ==
  /\ Take("error")
  /\ task_queue_' = Tail(task_queue_)
  /\ \/ DelayActive /\ Report(identifier_, "INJECTION_ERR")
     \/ ~ DelayActive /\ UNCHANGED reports
  /\ UNCHANGED << recorder, output, game, receiver, cpc, starting, epc,
                  history >>

(* The game has quit, with an error text or without: the recording will be *)
(* stopped by a task of its own.                                           *)
HandleGameExit ==
  /\ Take("exit")
  /\ \/ DelayActive /\ Report(identifier_, "INJECTION_ERR")
     \/ UNCHANGED reports
  /\ task_queue_' = Append(Tail(task_queue_), "stop")
  /\ game_source_' = "none" /\ foreground_' = FALSE /\ alive' = FALSE
  /\ UNCHANGED << recorder, output, receiver, cpc, starting, epc, history >>

(* StopRecordingOnGameSourceExit: StopRecording under sync_, then          *)
(* RemoveGameSource under access_mutex_.                                   *)
StopRecordingOnGameSourceExit ==
  /\ Take("stop")
  /\ task_queue_' = Tail(task_queue_)
  /\ RecorderStop
  /\ cpc' = "remove"
  /\ UNCHANGED << game, receiver, starting, epc >>

RemoveGameSource ==
  /\ cpc = "remove"
  /\ game_source_' = "none" /\ foreground_' = FALSE /\ alive' = FALSE
  /\ cpc' = "idle"
  /\ UNCHANGED << recorder, output, receiver, task_queue_, starting, epc,
                  history, reports >>

-----------------------------------------------------------------------------
(* The output ends, because it was asked to or of itself, and raises       *)
(* "stop": OBSStopRecording clears the flags, sends RECORDING_STOPPED with *)
(* the identifier it finds, and then forgets the identifier.               *)
OutputEnds ==
  /\ epc = "idle"
  /\ \/ output = "stopping" /\ output' = "ended"
     \/ output = "capturing" /\ output' = "failed"
  /\ active_' = FALSE
  /\ delay_active_' = FALSE
  /\ epc' = "report"
  /\ UNCHANGED << identifier_, game, receiver, commands, history, reports >>

(* A slip: the identifier is forgotten first.                              *)
ReportStoppedForgotten ==
  /\ epc = "report"
  /\ Report(NoId, "STOPPED")
  /\ epc' = "forget"
  /\ UNCHANGED << recorder, output, game, receiver, commands, history >>

ReportStopped ==
  /\ epc = "report"
  /\ Report(identifier_, "STOPPED")
  /\ epc' = "forget"
  /\ UNCHANGED << recorder, output, game, receiver, commands, history >>

ForgetIdentifier ==
  /\ epc = "forget"
  /\ identifier_' = NoId
  /\ epc' = "idle"
  /\ UNCHANGED << active_, delay_active_, output, game, receiver, commands,
                  history, reports >>

(* end_data_capture_thread of libobs                                       *)
CaptureEnds ==
  /\ output \in {"ended", "failed"}
  /\ output' = "idle"
  /\ UNCHANGED << recorder, game, receiver, commands, epc, history, reports >>

-----------------------------------------------------------------------------
ReceiverStep ==
  \/ InitializeOBS \/ InitScene \/ ResetOutputSetting \/ StartDelayRecording
  \/ DelayRecording \/ StartRecording \/ StartRecordingReturns \/ StopRecording

CommandThreadStep ==
  \/ HandleCaptured \/ PendingStartReturns \/ HandleHookError \/ HandleGameExit
  \/ StopRecordingOnGameSourceExit \/ RemoveGameSource

StopHandlerStep == ReportStopped \/ ForgetIdentifier

ClientCommand ==
  \/ \E withGame \in BOOLEAN, foreground \in Foreground :
       ReceiveStart(withGame, foreground)
  \/ \E i \in Id : ReceiveStop(i)
  \/ \E foreground \in Foreground :
       AddGameSource(foreground) \/ GameFocusChanged(foreground)

Game == Captured \/ HookFails \/ ProcessQuits \/ CaptureLost

Next ==
  \/ ClientCommand \/ ReceiverStep \/ Game \/ CommandThreadStep
  \/ OutputEnds \/ StopHandlerStep \/ CaptureEnds

(* Each thread that has something to do gets to do it, and an output that  *)
(* was asked to stop stops; no command, no game and no spontaneous end is  *)
(* promised.                                                               *)
Fairness ==
  /\ WF_vars(ReceiverStep)
  /\ WF_vars(CommandThreadStep)
  /\ WF_vars(StopHandlerStep)
  /\ WF_vars(CaptureEnds)
  /\ WF_vars(OutputEnds /\ output = "stopping")

Spec == Init /\ [][Next]_vars /\ Fairness

-----------------------------------------------------------------------------
Event == {"READY", "ERR", "INJECTION_ERR", "STARTED", "STOPPING", "STOPPED"}

Live == output \in {"capturing", "stopping"}

(* Every variable has its type; no command is answered, and no error sent, *)
(* without an identifier.                                                  *)
TypeOK ==
  /\ identifier_ \in Id \cup {NoId}
  /\ active_ \in BOOLEAN /\ delay_active_ \in BOOLEAN
  /\ output \in {"idle", "capturing", "stopping", "ended", "failed"}
  /\ game_source_ \in {"none", "hooking", "captured"}
  /\ foreground_ \in BOOLEAN /\ alive \in BOOLEAN
  /\ rpc \in {"idle", "video", "scene", "reset", "decide", "delay", "start",
              "starting", "stop"}
  /\ command \in [id : Id \cup {NoId}, game : BOOLEAN, foreground : BOOLEAN]
  /\ already_running_ \in BOOLEAN
  /\ advanced_output_ \in BOOLEAN /\ was_ever_initialized \in BOOLEAN
  /\ last \in 0 .. MaxId
  /\ task_queue_ \in Seq({"captured", "error", "exit", "stop"})
  /\ cpc \in {"idle", "starting", "remove"}
  /\ starting \in Id \cup {NoId}
  /\ epc \in {"idle", "report", "forget"}
  /\ recording \in Id \cup {NoId}
  /\ delayed \in SUBSET Id
  /\ overlap \in BOOLEAN
  /\ reports \in [Id \cup {NoId} -> SUBSET Event]
  /\ reports[NoId] \subseteq {"STARTED", "STOPPING", "STOPPED"}

(* A live recording can be stopped: OBS::Stop finds it under the           *)
(* identifier it was started with, and RecordOutput takes it for running   *)
(* and not for delayed, unless a start overlapped the end of another.      *)
LiveHasIdentifier ==
  Live /\ ~ overlap => identifier_ = recording /\ active_ /\ ~ delay_active_

(* RECORDING_STOPPED is the last word: the recording it was sent about is  *)
(* not captured any more, unless a start overlapped the end of another.    *)
StoppedIsStopped ==
  \A i \in Id :
    "STOPPED" \in reports[i] /\ recording = i /\ ~ overlap => ~ Live

(* A recording is not started after it was reported stopped: a STOP that   *)
(* finds a delayed recording cancels it for good.                          *)
NoStartAfterStop ==
  [][\A i \in Id :
       "STOPPED" \in reports[i] /\ "STARTED" \notin reports[i] /\ ~ overlap'
       => "STARTED" \notin reports'[i]]_vars

(* READY and ERR exclude each other, but for a recording accepted as       *)
(* delayed, whose start may fail later.                                    *)
ReadyIsKept ==
  \A i \in Id : {"READY", "ERR"} \subseteq reports[i] => i \in delayed

(* Every START is answered: the sleep of DoInitVideo until libobs has let  *)
(* go of the video ends.                                                   *)
StartIsAnswered ==
  \A i \in Id : last >= i ~> reports[i] \cap {"READY", "ERR"} # {}

(* Every STOP of the current recording is answered with STOPPED for it, or *)
(* its start fails first, unless a start overlapped the end of another.    *)
StopIsAnswered ==
  \A i \in Id :
    rpc = "stop" /\ command.id = i
    ~> reports[i] \cap {"STOPPED", "ERR"} # {} \/ overlap

-----------------------------------------------------------------------------
(* What the source says of itself and the code does not do.                *)

(* obs.cpp:972, of an identifier that is not current: "old identifier      *)
(* report as stopped".                                                     *)
UnknownIdentifierIsOld ==
  \A i \in Id : rpc = "idle" /\ i # identifier_ /\ recording = i => ~ Live

(* command_start.cpp:141: "start recording once obs start capturing game   *)
(* frames": while the game is captured, nobody has to do anything more.   *)
DelayedStartsOnceCaptured ==
  \A i \in Id :
    i \in delayed /\ identifier_ = i /\ game_source_ = "captured"
    ~> \/ reports[i] \cap {"STARTED", "STOPPED", "ERR"} # {}
       \/ game_source_ # "captured"
=============================================================================
