-------------------------- MODULE Recording_proofs --------------------------
(***************************************************************************)
(* Theorems about Recording, for every number of identifiers and waiting   *)
(* tasks and whatever the commands say of the game's window.  The          *)
(* inductive invariant has five parts: the types, what was issued, who may *)
(* start the output, which answers a START may still get, and, until two   *)
(* sessions overlap, whose session the output is.                          *)
(***************************************************************************)
EXTENDS Recording, TLAPS

(* The identifiers that were not issued are nowhere and have no reports,   *)
(* and exactly a command in progress has one.                              *)
IssuedInv ==
  /\ {identifier_, command.id, starting, recording} \subseteq 0 .. last
  /\ \A i \in Id : i > last => reports[i] = {}
  /\ rpc = "idle" <=> command.id = NoId

(* active_ follows the output.  From the decision to start on the receiver *)
(* finds no output that is live or waits for the game, so that it and the  *)
(* command thread never start it together.                                 *)
StartInv ==
  /\ active_ <=> Live
  /\ delay_active_ => ~ Live
  /\ cpc = "starting" => delay_active_ /\ starting # NoId /\ task_queue_ # << >>
  /\ rpc \in {"decide", "delay", "start", "starting"} =>
       ~ Live /\ ~ delay_active_

(* Before the output is asked to start, a START is known to its thread only. *)
Unannounced == rpc \in {"video", "scene", "reset", "decide", "delay", "start"}

(* A START that was not answered has no report, and a recording that waits *)
(* for the game was accepted to do so.                                     *)
AnswerInv ==
  /\ Unannounced =>
       /\ reports[command.id] = {}
       /\ command.id \notin {identifier_, recording, starting}
  /\ rpc = "starting" => reports[command.id] \cap {"READY", "ERR"} = {}
  /\ delay_active_ => identifier_ \in delayed \cup {NoId}
  /\ cpc = "starting" => starting \in delayed
  /\ ReadyIsKept

(* Until a start overlaps the end of another: the session that is being    *)
(* started, waits for the game or is live keeps its identifier, nobody     *)
(* handles the end of another, and it was not reported as stopped.         *)
SessionInv ==
  /\ rpc = "starting" =>
       epc = "idle" /\ identifier_ = command.id /\ "STOPPED" \notin reports[command.id]
  /\ cpc = "starting" => identifier_ = starting
  /\ delay_active_ =>
       /\ epc = "idle"
       /\ identifier_ # NoId => "STOPPED" \notin reports[identifier_]
  /\ Live =>
       /\ epc = "idle"
       /\ identifier_ = recording /\ recording # NoId
       /\ "STOPPED" \notin reports[recording]

IInv ==
  /\ TypeOK /\ IssuedInv /\ StartInv /\ AnswerInv
  /\ ~ overlap => SessionInv

-----------------------------------------------------------------------------
(* The parts of TypeOK that a proof about a single action needs.           *)
ReportsOK ==
  /\ reports \in [Id \cup {NoId} -> SUBSET Event]
  /\ reports[NoId] \subseteq {"STARTED", "STOPPING", "STOPPED"}

(* An event is added to those of its identifier and to no others.          *)
LEMMA ReportEffect ==
  ASSUME ReportsOK, NEW i \in Id \cup {NoId}, NEW e \in Event, Report(i, e),
         i = NoId => e \in {"STARTED", "STOPPING", "STOPPED"}
  PROVE  /\ ReportsOK'
         /\ reports'[i] = reports[i] \cup {e}
         /\ \A j \in Id \cup {NoId} : j # i => reports'[j] = reports[j]
BY DEF ReportsOK, Report

(* The end of a START is an answer to it and to nothing else.              *)
LEMMA FinishEffect ==
  ASSUME ReportsOK, command.id \in Id, NEW e \in Event, Finish(e)
  PROVE  /\ ReportsOK'
         /\ rpc' = "idle" /\ command' = NoCommand /\ already_running_' = FALSE
         /\ reports'[command.id] = reports[command.id] \cup {e}
         /\ \A j \in Id \cup {NoId} : j # command.id => reports'[j] = reports[j]
<1>1. command.id # NoId
  BY DEF Id, NoId
<1> QED BY <1>1, ReportEffect DEF Finish

(* RecordOutput::Stop tells the client about the identifier it finds, and  *)
(* forgets it only when the output does not run.                           *)
LEMMA StopEffect ==
  ASSUME TypeOK, StartInv, RecorderStop
  PROVE  /\ UNCHANGED << active_, delay_active_, recording, delayed >>
         /\ identifier_' \in {identifier_, NoId}
         /\ Live => identifier_' = identifier_
         /\ output' \in {output, "stopping"} /\ (Live' <=> Live)
         /\ ReportsOK'
         /\ \A j \in Id \cup {NoId} : j # identifier_ => reports'[j] = reports[j]
         /\ reports'[identifier_] \subseteq reports[identifier_] \cup {"STOPPING", "STOPPED"}
         /\ Live => reports'[identifier_] \subseteq reports[identifier_] \cup {"STOPPING"}
         /\ overlap' \in BOOLEAN /\ (overlap => overlap')
         /\ ~ Live /\ ~ overlap' => rpc # "starting" /\ identifier_' = NoId
<1> USE DEF TypeOK
<1>1. identifier_ \in Id \cup {NoId} /\ ReportsOK
  BY DEF ReportsOK
<1>2. {"STOPPING", "STOPPED"} \subseteq Event
  BY DEF Event
<1>3. ASSUME NEW e \in {"STOPPING", "STOPPED"}, Report(identifier_, e)
      PROVE  /\ ReportsOK'
             /\ \A j \in Id \cup {NoId} : j # identifier_ => reports'[j] = reports[j]
             /\ reports'[identifier_] = reports[identifier_] \cup {e}
  BY <1>1, <1>2, <1>3, ReportEffect
<1>4. CASE StopInactive
  <2>1. reports' = reports \/ Report(identifier_, "STOPPED")
    BY <1>4 DEF StopInactive, Report
  <2>2. ~ Live /\ output' = output
    BY <1>4 DEF StopInactive, StartInv
  <2>3. ReportsOK' /\ \A j \in Id \cup {NoId} : j # identifier_ => reports'[j] = reports[j]
    BY <1>1, <1>3, <2>1 DEF ReportsOK
  <2>4. reports'[identifier_] \subseteq reports[identifier_] \cup {"STOPPING", "STOPPED"}
    BY <1>3, <2>1
  <2>5. overlap' \in BOOLEAN /\ (overlap => overlap') /\ (~ overlap' => rpc # "starting")
    BY <1>4 DEF StopInactive
  <2> QED BY <1>4, <2>2, <2>3, <2>4, <2>5 DEF StopInactive, Live
<1>5. CASE StopActive
  <2>1. Live /\ Live' /\ Report(identifier_, "STOPPING")
    BY <1>5 DEF StopActive, Live
  <2> QED BY <1>1, <1>3, <1>5, <2>1 DEF StopActive, recorder, history
<1>6. CASE StopAgain
  BY <1>1, <1>6 DEF StopAgain, recorder, history, ReportsOK, Live
<1> QED BY <1>4, <1>5, <1>6 DEF RecorderStop

(* The invariant holds at the start.                                       *)
LEMMA InitIInv == Init => IInv
<1> SUFFICES ASSUME Init PROVE IInv
  OBVIOUS
<1> USE RecordingAssumption DEF Init
<1>1. reports \in [Id \cup {NoId} -> SUBSET Event] /\ \A i \in Id \cup {NoId} : reports[i] = {}
  OBVIOUS
<1>2. TypeOK
  <2>1. command \in [id : Id \cup {NoId}, game : BOOLEAN, foreground : BOOLEAN]
    BY DEF NoCommand
  <2>2. identifier_ \in Id \cup {NoId} /\ last \in 0 .. MaxId /\ delayed \in SUBSET Id
    OBVIOUS
  <2>3. active_ \in BOOLEAN /\ delay_active_ \in BOOLEAN /\ foreground_ \in BOOLEAN
        /\ alive \in BOOLEAN /\ already_running_ \in BOOLEAN /\ overlap \in BOOLEAN
        /\ advanced_output_ \in BOOLEAN /\ was_ever_initialized \in BOOLEAN
    OBVIOUS
  <2>4. task_queue_ \in Seq({"captured", "error", "exit", "stop"})
    OBVIOUS
  <2> QED BY <1>1, <2>1, <2>2, <2>3, <2>4 DEF TypeOK
<1>3. IssuedInv
  BY <1>1 DEF IssuedInv, NoCommand, NoId
<1>4. StartInv
  BY DEF StartInv, Live
<1>5. AnswerInv
  BY <1>1 DEF AnswerInv, Unannounced, ReadyIsKept
<1>6. SessionInv
  BY DEF SessionInv, Live
<1> QED BY <1>2, <1>3, <1>4, <1>5, <1>6 DEF IInv

-----------------------------------------------------------------------------
Task == {"captured", "error", "exit", "stop"}

(* What the queue of tasks holds after push() and after pop().             *)
LEMMA QueueEffect ==
  ASSUME NEW q \in Seq(Task), NEW task \in Task
  PROVE  /\ Append(q, task) \in Seq(Task)
         /\ Append(q, task) # << >>
         /\ q # << >> => Tail(q) \in Seq(Task)
<1>1. Len(Append(q, task)) = Len(q) + 1 /\ Len(q) \in Nat /\ Len(<< >>) = 0
  OBVIOUS
<1>2. Append(q, task) # << >>
  BY <1>1
<1> QED BY <1>2

(* ... and after what the game source posts itself.                        *)
LEMMA PostedEffect ==
  ASSUME task_queue_ \in Seq(Task), NEW shown
  PROVE  PostedBy(shown) \in Seq(Task)
<1>1. Append(task_queue_, "exit") \in Seq(Task)
  BY QueueEffect DEF Task
<1> QED BY <1>1 DEF PostedBy

(* Showing the game may leave a task behind the others.                    *)
LEMMA ShowGameEffect ==
  ASSUME NEW rest \in Seq(Task), ShowGame(rest)
  PROVE  foreground_' \in BOOLEAN /\ task_queue_' \in Seq(Task)
<1>1. Append(rest, "exit") \in Seq(Task)
  BY QueueEffect DEF Task
<1> QED BY <1>1 DEF ShowGame

(* The types of what the recording, the game and the two threads keep.     *)
RecorderOK ==
  /\ identifier_ \in Id \cup {NoId}
  /\ active_ \in BOOLEAN /\ delay_active_ \in BOOLEAN
  /\ output \in {"idle", "capturing", "stopping", "ended", "failed"}
  /\ recording \in Id \cup {NoId} /\ delayed \in SUBSET Id /\ overlap \in BOOLEAN
  /\ epc \in {"idle", "report", "forget"}

GameOK ==
  /\ game_source_ \in {"none", "hooking", "captured"}
  /\ foreground_ \in BOOLEAN /\ alive \in BOOLEAN

ReceiverOK ==
  /\ rpc \in {"idle", "video", "scene", "reset", "decide", "delay", "start",
              "starting", "stop"}
  /\ command \in [id : Id \cup {NoId}, game : BOOLEAN, foreground : BOOLEAN]
  /\ already_running_ \in BOOLEAN
  /\ advanced_output_ \in BOOLEAN /\ was_ever_initialized \in BOOLEAN
  /\ last \in 0 .. MaxId

CommandsOK ==
  /\ task_queue_ \in Seq(Task)
  /\ cpc \in {"idle", "starting", "remove"}
  /\ starting \in Id \cup {NoId}

(* The parts of TypeOK, so that a proof sees only those it needs.          *)
LEMMA TypeParts ==
  /\ TypeOK <=> RecorderOK /\ GameOK /\ ReceiverOK /\ CommandsOK /\ ReportsOK
  /\ TypeOK' <=> RecorderOK' /\ GameOK' /\ ReceiverOK' /\ CommandsOK' /\ ReportsOK'
BY DEF TypeOK, RecorderOK, GameOK, ReceiverOK, CommandsOK, ReportsOK, Task

(* Every step keeps the types.                                             *)
LEMMA TypeStep ==
  ASSUME TypeOK, IssuedInv, StartInv, [Next]_vars
  PROVE  TypeOK'
<1> USE RecordingAssumption
<1>0. RecorderOK /\ GameOK /\ ReceiverOK /\ CommandsOK /\ ReportsOK
  BY TypeParts
<1> USE DEF vars, recorder, game, receiver, commands, history
<1>i. rpc # "idle" => command.id \in Id
  BY <1>0 DEF IssuedInv, ReceiverOK
<1>1. RecorderOK'
  <2> USE <1>0 DEF RecorderOK
  <2>1. CASE DelayRecording
    BY <1>i, <2>1 DEF DelayRecording
  <2>2. CASE StartRecording
    BY <1>i, <2>2 DEF StartRecording
  <2>3. CASE StartRecordingReturns
    BY <1>i, <2>3 DEF StartRecordingReturns, OutputStarts, OutputRefuses
  <2>4. CASE PendingStartReturns
    BY <2>4 DEF PendingStartReturns, OutputStarts, OutputRefuses, CommandsOK
  <2>5. CASE StopRecording
    BY <2>5, StopEffect DEF StopRecording
  <2>6. CASE StopRecordingOnGameSourceExit
    BY <2>6, StopEffect DEF StopRecordingOnGameSourceExit
  <2>7. CASE OutputEnds
    <3>1. (active_ \in BOOLEAN)' /\ (delay_active_ \in BOOLEAN)'
      BY <2>7 DEF OutputEnds
    <3> QED BY <2>7, <3>1 DEF OutputEnds
  <2>8. CASE ReportStopped
    BY <2>8 DEF ReportStopped
  <2>9. CASE ForgetIdentifier
    BY <2>9 DEF ForgetIdentifier
  <2>10. CASE CaptureEnds
    BY <2>10 DEF CaptureEnds
  <2>11. CASE UNCHANGED << recorder, output, recording, delayed, overlap, epc >>
    BY <2>11
  <2> QED
    BY <2>1, <2>2, <2>3, <2>4, <2>5, <2>6, <2>7, <2>8, <2>9, <2>10, <2>11
       DEF Next, ClientCommand, ReceiverStep, Game, CommandThreadStep,
           StopHandlerStep, ReceiveStart, ReceiveStop, AddGameSource,
           GameFocusChanged, InitializeOBS, InitScene, ResetOutputSetting,
           StartDelayRecording, Captured, HookFails, ProcessQuits,
           CaptureLost, HandleCaptured, HandleHookError, HandleGameExit,
           RemoveGameSource
<1>2. GameOK'
  <2> USE <1>0 DEF GameOK
  <2>1. CASE InitScene
    BY <2>1 DEF InitScene, ReceiverOK
  <2>2. ASSUME NEW shown \in Foreground, AddGameSource(shown) \/ GameFocusChanged(shown)
        PROVE  GameOK'
    BY <2>2 DEF AddGameSource, GameFocusChanged
  <2>3. CASE Captured \/ ProcessQuits
    BY <2>3 DEF Captured, ProcessQuits
  <2>4. CASE HandleCaptured
    <3>1. Tail(task_queue_) \in Seq(Task)
      BY <2>4, QueueEffect DEF HandleCaptured, Take, CommandsOK
    <3> QED BY <2>4, <3>1, ShowGameEffect DEF HandleCaptured
  <2>5. CASE PendingStartReturns
    BY <2>5 DEF PendingStartReturns, ShowGame
  <2>6. CASE HandleGameExit \/ RemoveGameSource
    BY <2>6 DEF HandleGameExit, RemoveGameSource
  <2>7. CASE UNCHANGED game
    BY <2>7
  <2> QED
    BY <2>1, <2>2, <2>3, <2>4, <2>5, <2>6, <2>7
       DEF Next, ClientCommand, ReceiverStep, Game, CommandThreadStep,
           StopHandlerStep, ReceiveStart, ReceiveStop, InitializeOBS,
           ResetOutputSetting, StartDelayRecording, DelayRecording,
           StartRecording, StartRecordingReturns, StopRecording, HookFails,
           CaptureLost, HandleHookError, StopRecordingOnGameSourceExit,
           OutputEnds, ReportStopped, ForgetIdentifier, CaptureEnds
<1>3. ReceiverOK'
  <2> USE <1>0 DEF ReceiverOK, NoCommand
  <2>1. ASSUME NEW withGame \in BOOLEAN, NEW shown \in Foreground,
               ReceiveStart(withGame, shown)
        PROVE  ReceiverOK'
    <3>1. last + 1 \in Id /\ last + 1 \in 0 .. MaxId
      BY <2>1 DEF ReceiveStart, Id
    <3>2. command' \in [id : Id \cup {NoId}, game : BOOLEAN, foreground : BOOLEAN]
      BY <2>1, <3>1 DEF ReceiveStart
    <3>3. already_running_' \in BOOLEAN
      BY <2>1 DEF ReceiveStart, Active
    <3> QED BY <2>1, <3>1, <3>2, <3>3 DEF ReceiveStart
  <2>2. ASSUME NEW i \in Id, ReceiveStop(i) PROVE ReceiverOK'
    BY <2>2 DEF ReceiveStop
  <2>f. ASSUME NEW e, Finish(e)
        PROVE  /\ rpc' = "idle" /\ already_running_' \in BOOLEAN
               /\ command' \in [id : Id \cup {NoId}, game : BOOLEAN, foreground : BOOLEAN]
    BY <2>f DEF Finish
  <2>3. CASE InitializeOBS
    BY <2>3, <2>f DEF InitializeOBS
  <2>4. CASE InitScene
    BY <2>4, <2>f DEF InitScene
  <2>5. CASE ResetOutputSetting
    BY <2>5, <2>f DEF ResetOutputSetting
  <2>6. CASE StartDelayRecording \/ StartRecording
    BY <2>6 DEF StartDelayRecording, StartRecording
  <2>7. CASE DelayRecording
    BY <2>7 DEF DelayRecording, Finish
  <2>8. CASE StartRecordingReturns
    BY <2>8 DEF StartRecordingReturns
  <2>9. CASE StopRecording
    BY <2>9 DEF StopRecording
  <2>10. CASE UNCHANGED receiver
    BY <2>10
  <2> QED
    BY <2>1, <2>2, <2>3, <2>4, <2>5, <2>6, <2>7, <2>8, <2>9, <2>10
       DEF Next, ClientCommand, ReceiverStep, Game, CommandThreadStep,
           StopHandlerStep, AddGameSource, GameFocusChanged, Captured,
           HookFails, ProcessQuits, CaptureLost, HandleCaptured,
           PendingStartReturns, HandleHookError, HandleGameExit,
           StopRecordingOnGameSourceExit, RemoveGameSource, OutputEnds,
           ReportStopped, ForgetIdentifier, CaptureEnds
<1>4. CommandsOK'
  <2> USE <1>0 DEF CommandsOK
  <2>1. \A task \in Task : Append(task_queue_, task) \in Seq(Task)
    BY QueueEffect
  <2>2. task_queue_ # << >> => /\ Tail(task_queue_) \in Seq(Task)
                               /\ Append(Tail(task_queue_), "stop") \in Seq(Task)
    BY QueueEffect DEF Task
  <2>3. \A shown : PostedBy(shown) \in Seq(Task)
    BY PostedEffect
  <2>4. CASE InitScene
    BY <2>3, <2>4 DEF InitScene
  <2>5. ASSUME NEW shown \in Foreground, GameFocusChanged(shown) PROVE CommandsOK'
    BY <2>3, <2>5 DEF GameFocusChanged
  <2>6. CASE Captured \/ HookFails \/ CaptureLost
    BY <2>1, <2>6 DEF Captured, HookFails, CaptureLost, Task
  <2>7. CASE HandleCaptured
    BY <2>2, <2>7, ShowGameEffect DEF HandleCaptured, Take, RecorderOK
  <2>8. CASE PendingStartReturns
    <3>1. Tail(task_queue_) \in Seq(Task)
      BY <2>2, <2>8 DEF PendingStartReturns, StartInv
    <3> QED BY <2>8, <3>1, ShowGameEffect DEF PendingStartReturns
  <2>9. CASE HandleHookError \/ HandleGameExit \/ StopRecordingOnGameSourceExit
    BY <2>2, <2>9 DEF HandleHookError, HandleGameExit,
       StopRecordingOnGameSourceExit, Take
  <2>10. CASE RemoveGameSource
    BY <2>10 DEF RemoveGameSource
  <2>11. CASE UNCHANGED commands
    BY <2>11
  <2> QED
    BY <2>4, <2>5, <2>6, <2>7, <2>8, <2>9, <2>10, <2>11
       DEF Next, ClientCommand, ReceiverStep, Game, CommandThreadStep,
           StopHandlerStep, ReceiveStart, ReceiveStop, AddGameSource,
           InitializeOBS, ResetOutputSetting, StartDelayRecording,
           DelayRecording, StartRecording, StartRecordingReturns,
           StopRecording, ProcessQuits, OutputEnds, ReportStopped,
           ForgetIdentifier, CaptureEnds
<1>5. ReportsOK'
  <2> USE <1>0
  <2>1. ASSUME NEW e \in {"READY", "ERR"}, Finish(e), rpc # "idle" PROVE ReportsOK'
    BY <1>i, <2>1, FinishEffect DEF Event
  <2>2. ASSUME NEW i \in Id, NEW e \in Event, Report(i, e) PROVE ReportsOK'
    BY <2>2, ReportEffect DEF Id, NoId
  <2>3. ASSUME NEW e \in {"STARTED", "STOPPED"}, Report(identifier_, e) PROVE ReportsOK'
    BY <2>3, ReportEffect DEF Event, RecorderOK
  <2>4. CASE InitializeOBS \/ InitScene \/ ResetOutputSetting \/ DelayRecording
    BY <2>1, <2>4 DEF InitializeOBS, InitScene, ResetOutputSetting,
       DelayRecording, ReportsOK
  <2>5. CASE StartRecordingReturns
    <3>1. CASE OutputRefuses /\ Report(command.id, "ERR")
      BY <1>i, <2>2, <2>5, <3>1 DEF StartRecordingReturns, Event
    <3>2. CASE reports' = [i \in Id \cup {NoId} |->
                             reports[i]
                               \cup (IF i = identifier_ THEN {"STARTED"} ELSE {})
                               \cup (IF i = command.id THEN {"READY"} ELSE {})]
      <4>1. command.id # NoId /\ NoId \in Id \cup {NoId}
        BY <1>i, <2>5 DEF StartRecordingReturns, Id, NoId
      <4>2. reports'[NoId] \subseteq {"STARTED", "STOPPING", "STOPPED"}
        BY <3>2, <4>1 DEF ReportsOK
      <4>3. reports' \in [Id \cup {NoId} -> SUBSET Event]
        BY <3>2 DEF ReportsOK, Event
      <4> QED BY <4>2, <4>3 DEF ReportsOK
    <3> QED BY <2>5, <3>1, <3>2 DEF StartRecordingReturns
  <2>6. CASE StopRecording
    BY <2>6, StopEffect DEF StopRecording
  <2>7. CASE StopRecordingOnGameSourceExit
    BY <2>7, StopEffect DEF StopRecordingOnGameSourceExit
  <2>8. ASSUME NEW i \in Id, ReceiveStop(i) PROVE ReportsOK'
    BY <2>2, <2>8 DEF ReceiveStop, Event, ReportsOK
  <2>9. CASE PendingStartReturns
    <3>1. starting \in Id
      BY <2>9 DEF PendingStartReturns, StartInv, CommandsOK
    <3> QED BY <2>2, <2>3, <2>9, <3>1 DEF PendingStartReturns, Event
  <2>10. CASE HandleHookError \/ HandleGameExit
    BY <2>2, <2>10 DEF HandleHookError, HandleGameExit, DelayActive, Event,
       RecorderOK, ReportsOK
  <2>11. CASE ReportStopped
    BY <2>3, <2>11 DEF ReportStopped
  <2>12. CASE UNCHANGED reports
    BY <2>12 DEF ReportsOK
  <2> QED
    BY <2>4, <2>5, <2>6, <2>7, <2>8, <2>9, <2>10, <2>11, <2>12
       DEF Next, ClientCommand, ReceiverStep, Game, CommandThreadStep,
           StopHandlerStep, ReceiveStart, AddGameSource, GameFocusChanged,
           StartDelayRecording, StartRecording, Captured, HookFails,
           ProcessQuits, CaptureLost, HandleCaptured, RemoveGameSource,
           OutputEnds, ForgetIdentifier, CaptureEnds
<1> QED BY <1>1, <1>2, <1>3, <1>4, <1>5, TypeParts

(* Only START issues an identifier, only a command in progress has one,    *)
(* and only what was issued is reported.                                   *)
LEMMA IssuedStep ==
  ASSUME TypeOK, IssuedInv, StartInv, [Next]_vars
  PROVE  IssuedInv'
<1> USE RecordingAssumption
<1>0. RecorderOK /\ ReceiverOK /\ CommandsOK /\ ReportsOK
  BY TypeParts
<1> USE <1>0 DEF IssuedInv, vars, recorder, receiver, commands, history
<1>i. /\ last \in Nat /\ {identifier_, command.id, starting, recording} \subseteq Id \cup {NoId}
      /\ rpc # "idle" => command.id \in Id
  BY DEF RecorderOK, ReceiverOK, CommandsOK
<1>r. ASSUME NEW i \in 0 .. last, NEW e \in Event, Report(i, e), last' = last
      PROVE  \A j \in Id : j > last' => reports'[j] = {}
  <2>1. \A j \in Id : j > last => reports'[j] = reports[j]
    BY <1>i, <1>r DEF ReportsOK, Report
  <2> QED BY <1>r, <2>1
<1>f. ASSUME NEW e \in Event, Finish(e), rpc # "idle", last' = last
      PROVE  /\ \A j \in Id : j > last' => reports'[j] = {}
             /\ rpc' = "idle" /\ command'.id = NoId
  BY <1>r, <1>f DEF Finish, NoCommand
<1>e. Event = {"READY", "ERR", "INJECTION_ERR", "STARTED", "STOPPING", "STOPPED"}
  BY DEF Event
<1>n. NoId \in 0 .. last
  BY <1>i DEF NoId
<1>1. ASSUME NEW withGame \in BOOLEAN, NEW shown \in Foreground,
             ReceiveStart(withGame, shown)
      PROVE  IssuedInv'
  <2>1. last' = last + 1 /\ command'.id = last' /\ last' # NoId /\ rpc' # "idle"
    BY <1>1, <1>i DEF ReceiveStart, NoId
  <2>2. UNCHANGED << identifier_, starting, recording, reports >>
    BY <1>1 DEF ReceiveStart
  <2>3. {identifier_, command.id, starting, recording}' \subseteq 0 .. last'
    BY <1>i, <2>1, <2>2
  <2>4. \A j \in Id : j > last' => j > last
    BY <1>i, <2>1 DEF Id
  <2> QED BY <2>1, <2>2, <2>3, <2>4
<1>2. ASSUME NEW i \in Id, ReceiveStop(i) PROVE IssuedInv'
  <2>1. i \in 0 .. last /\ i # NoId
    BY <1>i, <1>2 DEF ReceiveStop, Id, NoId
  <2>2. CASE i = identifier_ /\ rpc' = "stop" /\ command' = [NoCommand EXCEPT !.id = i] /\ UNCHANGED reports
    <3>1. command'.id = i
      BY <2>2 DEF NoCommand
    <3> QED BY <1>2, <2>1, <2>2, <3>1 DEF ReceiveStop
  <2>3. CASE Report(i, "STOPPED") /\ UNCHANGED << rpc, command >>
    BY <1>2, <1>e, <1>r, <2>1, <2>3 DEF ReceiveStop
  <2> QED BY <1>2, <2>2, <2>3 DEF ReceiveStop
<1>3. CASE InitializeOBS
  BY <1>3, <1>e, <1>f, <1>n DEF InitializeOBS
<1>4. CASE InitScene
  BY <1>4, <1>e, <1>f, <1>n DEF InitScene
<1>5. CASE ResetOutputSetting
  BY <1>5, <1>e, <1>f, <1>n DEF ResetOutputSetting
<1>6. CASE StartDelayRecording
  BY <1>6 DEF StartDelayRecording
<1>7. CASE DelayRecording
  BY <1>7, <1>e, <1>f, <1>n DEF DelayRecording
<1>8. CASE StartRecording
  BY <1>8 DEF StartRecording
<1>9. CASE StartRecordingReturns
  <2>1. last' = last /\ starting' = starting /\ rpc' = "idle" /\ command'.id = NoId
        /\ identifier_' \in {identifier_, NoId} /\ recording' \in {recording, command.id}
    BY <1>9 DEF StartRecordingReturns, OutputStarts, OutputRefuses, NoCommand
  <2>2. \A j \in Id : j > last => reports'[j] = {}
    <3>1. CASE Report(command.id, "ERR")
      BY <1>e, <1>r, <2>1, <3>1
    <3>2. CASE reports' = [i \in Id \cup {NoId} |->
                             reports[i]
                               \cup (IF i = identifier_ THEN {"STARTED"} ELSE {})
                               \cup (IF i = command.id THEN {"READY"} ELSE {})]
      <4>1. \A j \in Id : j > last => j # identifier_ /\ j # command.id
        BY <1>i
      <4> QED BY <3>2, <4>1
    <3> QED BY <1>9, <3>1, <3>2 DEF StartRecordingReturns
  <2> QED BY <1>n, <2>1, <2>2
<1>s. ASSUME RecorderStop, last' = last
      PROVE  /\ \A j \in Id : j > last' => reports'[j] = {}
             /\ identifier_' \in {identifier_, NoId} /\ recording' = recording
  <2>1. \A j \in Id : j > last => j # identifier_
    BY <1>i
  <2> QED BY <1>s, <2>1, StopEffect
<1>10. CASE StopRecording
  <2>1. last' = last /\ starting' = starting /\ rpc' = "idle" /\ command'.id = NoId
    BY <1>10 DEF StopRecording, NoCommand
  <2> QED BY <1>10, <1>n, <1>s, <2>1 DEF StopRecording
<1>11. CASE StopRecordingOnGameSourceExit
  BY <1>11, <1>n, <1>s DEF StopRecordingOnGameSourceExit
<1>12. CASE HandleCaptured
  BY <1>12 DEF HandleCaptured
<1>13. CASE PendingStartReturns
  <2>1. \A j \in Id : j > last' => reports'[j] = {}
    BY <1>13, <1>e, <1>r DEF PendingStartReturns
  <2>2. /\ UNCHANGED << last, rpc, command >> /\ starting' = NoId
        /\ identifier_' \in {identifier_, NoId} /\ recording' \in {recording, starting}
    BY <1>13 DEF PendingStartReturns, OutputStarts, OutputRefuses
  <2> QED BY <1>n, <2>1, <2>2
<1>14. CASE HandleHookError \/ HandleGameExit
  BY <1>14, <1>e, <1>r DEF HandleHookError, HandleGameExit
<1>15. CASE ReportStopped
  BY <1>15, <1>e, <1>r DEF ReportStopped
<1>16. CASE ForgetIdentifier
  BY <1>16, <1>n DEF ForgetIdentifier
<1>17. CASE UNCHANGED << identifier_, rpc, command, starting, recording, last, reports >>
  BY <1>17
<1> QED
  BY <1>1, <1>2, <1>3, <1>4, <1>5, <1>6, <1>7, <1>8, <1>9, <1>10, <1>11, <1>12,
     <1>13, <1>14, <1>15, <1>16, <1>17
     DEF Next, ClientCommand, ReceiverStep, Game, CommandThreadStep,
         StopHandlerStep, AddGameSource, GameFocusChanged, Captured, HookFails,
         ProcessQuits, CaptureLost, RemoveGameSource, OutputEnds, CaptureEnds

(* The receiver and the command thread never start the output together.    *)
LEMMA StartStep ==
  ASSUME TypeOK, StartInv, [Next]_vars
  PROVE  StartInv'
<1>0. RecorderOK /\ ReceiverOK /\ CommandsOK
  BY TypeParts
<1> USE <1>0 DEF RecorderOK, ReceiverOK, CommandsOK, StartInv, Live, vars,
                 recorder, receiver, commands, history
<1>q. \A task \in Task : Append(task_queue_, task) # << >>
  BY QueueEffect
<1>p. \A shown : task_queue_ # << >> => PostedBy(shown) # << >>
  BY <1>q DEF PostedBy, Task
<1>1. ASSUME NEW withGame \in BOOLEAN, NEW shown \in Foreground,
             ReceiveStart(withGame, shown)
      PROVE  StartInv'
  BY <1>1 DEF ReceiveStart
<1>2. ASSUME NEW i \in Id, ReceiveStop(i) PROVE StartInv'
  BY <1>2 DEF ReceiveStop
<1>3. CASE InitializeOBS
  BY <1>3 DEF InitializeOBS, Finish
<1>4. CASE InitScene
  BY <1>4, <1>p DEF InitScene, Finish
<1>5. CASE ResetOutputSetting
  BY <1>5 DEF ResetOutputSetting, Finish, Active
<1>6. CASE StartDelayRecording \/ StartRecording
  BY <1>6 DEF StartDelayRecording, StartRecording
<1>7. CASE DelayRecording
  BY <1>7 DEF DelayRecording, Finish
<1>8. CASE StartRecordingReturns
  BY <1>8 DEF StartRecordingReturns, OutputStarts, OutputRefuses
<1>9. CASE StopRecording
  BY <1>9, StopEffect DEF StopRecording
<1>10. CASE StopRecordingOnGameSourceExit
  BY <1>10, StopEffect DEF StopRecordingOnGameSourceExit, Take
<1>11. ASSUME NEW shown \in Foreground, GameFocusChanged(shown) PROVE StartInv'
  BY <1>11, <1>p DEF GameFocusChanged
<1>12. CASE Captured \/ HookFails \/ CaptureLost
  BY <1>12, <1>q DEF Captured, HookFails, CaptureLost, Task
<1>13. CASE HandleCaptured
  BY <1>13 DEF HandleCaptured, Take, DelayActive
<1>14. CASE PendingStartReturns
  <2>1. ~ Live /\ cpc' = "idle" /\ UNCHANGED rpc
        /\ rpc \notin {"decide", "delay", "start", "starting"}
    BY <1>14 DEF PendingStartReturns
  <2>2. CASE OutputStarts(starting)
    BY <2>1, <2>2 DEF OutputStarts
  <2>3. CASE OutputRefuses
    BY <2>1, <2>3 DEF OutputRefuses
  <2> QED BY <1>14, <2>2, <2>3 DEF PendingStartReturns
<1>15. CASE HandleHookError \/ HandleGameExit
  BY <1>15 DEF HandleHookError, HandleGameExit, Take
<1>16. CASE RemoveGameSource
  BY <1>16 DEF RemoveGameSource
<1>17. CASE OutputEnds
  BY <1>17 DEF OutputEnds
<1>18. CASE CaptureEnds
  BY <1>18 DEF CaptureEnds
<1>19. CASE UNCHANGED << active_, delay_active_, output, rpc, cpc, starting, task_queue_ >>
  BY <1>19
<1> QED
  BY <1>1, <1>2, <1>3, <1>4, <1>5, <1>6, <1>7, <1>8, <1>9, <1>10, <1>11, <1>12,
     <1>13, <1>14, <1>15, <1>16, <1>17, <1>18, <1>19
     DEF Next, ClientCommand, ReceiverStep, Game, CommandThreadStep,
         StopHandlerStep, AddGameSource, ProcessQuits, ReportStopped,
         ForgetIdentifier

(* No START is answered both ways, but one that was accepted as delayed.   *)
LEMMA AnswerStep ==
  ASSUME TypeOK, IssuedInv, StartInv, AnswerInv, [Next]_vars
  PROVE  AnswerInv'
<1> USE RecordingAssumption
<1>0. RecorderOK /\ ReceiverOK /\ CommandsOK /\ ReportsOK
  BY TypeParts
<1>i. rpc # "idle" => command.id \in Id /\ command.id # NoId
  BY <1>0 DEF IssuedInv, ReceiverOK
<1>e. Event = {"READY", "ERR", "INJECTION_ERR", "STARTED", "STOPPING", "STOPPED"}
  BY DEF Event
<1> USE DEF AnswerInv, Unannounced, vars, recorder, receiver, commands, history

(* No command is answered by a step that is Quiet, and one that Keeps the  *)
(* session to itself names no command in it.                               *)
<1> DEFINE Quiet ==
      /\ \A j \in Id : reports'[j] \cap {"READY", "ERR"} = reports[j] \cap {"READY", "ERR"}
      /\ Unannounced => reports'[command.id] = {}
    Keeps ==
      /\ Unannounced' => Unannounced
      /\ rpc' = "starting" => rpc \in {"start", "starting"}
      /\ Unannounced' \/ rpc' = "starting" => command' = command
      /\ identifier_' \in {identifier_, NoId}
      /\ recording' \in {recording, starting, NoId}
      /\ starting' \in {starting, identifier_, NoId}
      /\ delayed' = delayed
      /\ delay_active_' => delay_active_
      /\ cpc' = "starting" => \/ cpc = "starting" /\ starting' = starting
                              \/ DelayActive /\ starting' = identifier_
<1>a. ASSUME Quiet, Keeps PROVE AnswerInv'
  <2>1. ReadyIsKept'
    BY <1>a DEF ReadyIsKept
  <2>2. Unannounced' => /\ reports'[command'.id] = {}
                        /\ command'.id \notin {identifier_', recording', starting'}
    BY <1>i, <1>a
  <2>3. rpc' = "starting" => reports'[command'.id] \cap {"READY", "ERR"} = {}
    BY <1>i, <1>a
  <2>4. cpc' = "starting" => starting' \in delayed'
    BY <1>a DEF DelayActive
  <2>5. delay_active_' => identifier_' \in delayed' \cup {NoId}
    BY <1>a
  <2> QED BY <2>1, <2>2, <2>3, <2>4, <2>5
<1>u. UNCHANGED reports => Quiet
  OBVIOUS
(* A report about an identifier that is not the command's.                 *)
<1>r. ASSUME NEW i \in {identifier_, starting}, NEW e \in Event \ {"READY", "ERR"},
             Report(i, e)
      PROVE  Quiet
  BY <1>0, <1>i, <1>r DEF Report, ReportsOK, RecorderOK, CommandsOK
<1>f. ASSUME NEW e \in {"READY", "ERR"}, Finish(e), Unannounced,
             UNCHANGED << cpc, starting >>,
             \/ UNCHANGED << identifier_, delay_active_, delayed >>
             \/ identifier_' = command.id /\ delayed' = delayed \cup {command.id} /\ cpc # "starting"
      PROVE  AnswerInv'
  <2>1. rpc' = "idle"
    BY <1>f DEF Finish
  <2>2. /\ reports'[command.id] = {e}
        /\ \A j \in Id : j # command.id => reports'[j] = reports[j]
    BY <1>0, <1>e, <1>f, <1>i, FinishEffect
  <2>3. ReadyIsKept'
    BY <1>f, <2>2 DEF ReadyIsKept
  <2> QED BY <1>f, <2>1, <2>3
<1>s. ASSUME RecorderStop, UNCHANGED << starting >>, cpc' # "starting",
             rpc' = rpc \/ rpc' = "idle", command' = command \/ rpc' = "idle"
      PROVE  AnswerInv'
  <2>1. /\ \A j \in Id : j # identifier_ => reports'[j] = reports[j]
        /\ reports'[identifier_] \subseteq reports[identifier_] \cup {"STOPPING", "STOPPED"}
        /\ identifier_' \in {identifier_, NoId}
        /\ UNCHANGED << delay_active_, recording, delayed >>
    BY <1>s, StopEffect
  <2>2. Unannounced => reports'[command.id] = {}
    BY <1>i, <2>1
  <2>3. ReadyIsKept'
    BY <2>1 DEF ReadyIsKept
  <2>4. rpc = "starting" => reports'[command.id] \cap {"READY", "ERR"} = {}
    BY <1>i, <2>1
  <2> QED BY <1>i, <1>s, <2>1, <2>2, <2>3, <2>4
<1> HIDE DEF Quiet, Keeps, AnswerInv

<1>1. ASSUME NEW withGame \in BOOLEAN, NEW shown \in Foreground,
             ReceiveStart(withGame, shown)
      PROVE  AnswerInv'
  <2>1. last + 1 \in Id /\ last + 1 > last /\ command'.id = last + 1
        /\ rpc' \in {"video", "scene"}
    BY <1>0, <1>1 DEF ReceiveStart, Id, ReceiverOK
  <2>2. reports'[last + 1] = {} /\ last + 1 \notin {identifier_, recording, starting}
    BY <1>0, <1>1, <2>1 DEF ReceiveStart, IssuedInv, ReceiverOK
  <2>3. UNCHANGED << identifier_, delay_active_, recording, delayed, starting, cpc, reports >>
    BY <1>1 DEF ReceiveStart
  <2> QED BY <2>1, <2>2, <2>3 DEF ReadyIsKept, AnswerInv
<1>2. ASSUME NEW i \in Id, ReceiveStop(i) PROVE AnswerInv'
  <2>0. ~ Unannounced
    BY <1>2 DEF ReceiveStop
  <2>1. ASSUME Report(i, "STOPPED") PROVE Quiet
    BY <1>0, <2>0, <2>1 DEF Report, ReportsOK, Quiet
  <2>2. Quiet
    BY <1>2, <1>u, <2>1 DEF ReceiveStop
  <2>3. Keeps
    BY <1>2 DEF ReceiveStop, Keeps
  <2> QED BY <1>a, <2>2, <2>3
<1>3. CASE InitializeOBS
  <2>1. CASE Finish("ERR")
    BY <1>3, <1>f, <2>1 DEF InitializeOBS
  <2>2. CASE rpc' = "scene" /\ UNCHANGED << command, reports >>
    <3>1. Keeps
      BY <1>3, <2>2 DEF InitializeOBS, Keeps
    <3> QED BY <1>a, <1>u, <2>2, <3>1
  <2> QED BY <1>3, <2>1, <2>2 DEF InitializeOBS
<1>4. CASE InitScene
  <2>1. CASE Finish("ERR")
    BY <1>4, <1>f, <2>1 DEF InitScene
  <2>2. CASE rpc' = "reset" /\ UNCHANGED << command, reports >>
    <3>1. Keeps
      BY <1>4, <2>2 DEF InitScene, Keeps
    <3> QED BY <1>a, <1>u, <2>2, <3>1
  <2> QED BY <1>4, <2>1, <2>2 DEF InitScene
<1>5. CASE ResetOutputSetting
  <2>1. CASE Finish("ERR")
    BY <1>5, <1>f, <2>1 DEF ResetOutputSetting
  <2>2. CASE rpc' = "decide" /\ UNCHANGED << command, reports >>
    <3>1. Keeps
      BY <1>5, <2>2 DEF ResetOutputSetting, Keeps
    <3> QED BY <1>a, <1>u, <2>2, <3>1
  <2> QED BY <1>5, <2>1, <2>2 DEF ResetOutputSetting
<1>6. CASE StartDelayRecording
  <2>1. Keeps /\ UNCHANGED reports
    BY <1>6 DEF StartDelayRecording, Keeps
  <2> QED BY <1>a, <1>u, <2>1
<1>7. CASE DelayRecording
  <2>1. cpc # "starting"
    BY <1>7 DEF DelayRecording, StartInv
  <2> QED BY <1>7, <1>f, <2>1 DEF DelayRecording
<1>8. CASE StartRecording
  <2>1. rpc = "start" /\ rpc' = "starting" /\ ~ delay_active_ /\ cpc # "starting"
    BY <1>8 DEF StartRecording, StartInv
  <2>2. UNCHANGED << command, delay_active_, cpc, starting, delayed, recording, reports >>
    BY <1>8 DEF StartRecording
  <2> QED BY <2>1, <2>2 DEF AnswerInv, ReadyIsKept
<1>9. CASE StartRecordingReturns
  <2>1. /\ rpc' = "idle" /\ UNCHANGED << cpc, starting, delayed >>
        /\ cpc # "starting" /\ ~ delay_active_'
    BY <1>9 DEF StartRecordingReturns, OutputStarts, OutputRefuses, StartInv
  <2>2. /\ \A j \in Id : j # command.id =>
             reports'[j] \cap {"READY", "ERR"} = reports[j] \cap {"READY", "ERR"}
        /\ ~ ({"READY", "ERR"} \subseteq reports'[command.id])
    <3>1. CASE Report(command.id, "ERR")
      BY <1>0, <1>9, <1>i, <3>1 DEF Report, ReportsOK, StartRecordingReturns, AnswerInv
    <3>2. CASE reports' = [i \in Id \cup {NoId} |->
                             reports[i]
                               \cup (IF i = identifier_ THEN {"STARTED"} ELSE {})
                               \cup (IF i = command.id THEN {"READY"} ELSE {})]
      BY <1>9, <1>i, <3>2 DEF StartRecordingReturns, AnswerInv
    <3> QED BY <1>9, <3>1, <3>2 DEF StartRecordingReturns
  <2>3. ReadyIsKept'
    BY <2>1, <2>2 DEF ReadyIsKept, AnswerInv
  <2> QED BY <2>1, <2>3 DEF AnswerInv
<1>10. CASE StopRecording
  BY <1>10, <1>s DEF StopRecording, SyncFree
<1>11. CASE StopRecordingOnGameSourceExit
  BY <1>11, <1>s DEF StopRecordingOnGameSourceExit
<1>12. CASE HandleCaptured
  <2>1. Keeps /\ UNCHANGED reports
    BY <1>12 DEF HandleCaptured, Keeps
  <2> QED BY <1>a, <1>u, <2>1
<1>13. CASE PendingStartReturns
  <2>1. CASE OutputStarts(starting) /\ Report(identifier_, "STARTED")
    <3>1. Keeps
      BY <1>13, <2>1 DEF PendingStartReturns, OutputStarts, Keeps
    <3>2. Quiet
      BY <1>e, <1>r, <2>1
    <3> QED BY <1>a, <3>1, <3>2
  <2>2. CASE OutputRefuses /\ Report(starting, "ERR")
    <3>1. /\ UNCHANGED << rpc, command, delayed, recording >>
          /\ cpc' = "idle" /\ starting' = NoId /\ identifier_' = NoId
          /\ rpc # "starting" /\ starting \in delayed
      <4>1. cpc = "starting" /\ rpc # "starting" /\ starting \in delayed
        BY <1>13 DEF PendingStartReturns, StartInv, AnswerInv
      <4> QED BY <1>13, <2>2, <4>1 DEF PendingStartReturns, OutputRefuses
    <3>2. \A j \in Id : j # starting => reports'[j] = reports[j]
      BY <1>0, <2>2 DEF Report, ReportsOK
    <3>3. ReadyIsKept'
      BY <3>1, <3>2 DEF ReadyIsKept, AnswerInv
    <3>4. Unannounced => command.id # starting /\ reports'[command.id] = {}
      BY <1>i, <3>2 DEF AnswerInv
    <3> QED BY <1>i, <3>1, <3>3, <3>4 DEF AnswerInv
  <2> QED BY <1>13, <2>1, <2>2 DEF PendingStartReturns
<1>14. CASE HandleHookError \/ HandleGameExit
  <2>1. Keeps
    BY <1>14 DEF HandleHookError, HandleGameExit, Keeps
  <2>2. Quiet
    BY <1>14, <1>e, <1>r, <1>u DEF HandleHookError, HandleGameExit
  <2> QED BY <1>a, <2>1, <2>2
<1>15. CASE OutputEnds
  <2>1. Keeps /\ UNCHANGED reports
    BY <1>15 DEF OutputEnds, Keeps
  <2> QED BY <1>a, <1>u, <2>1
<1>16. CASE ReportStopped
  <2>1. Keeps
    BY <1>16 DEF ReportStopped, Keeps
  <2>2. Quiet
    BY <1>16, <1>e, <1>r DEF ReportStopped
  <2> QED BY <1>a, <2>1, <2>2
<1>17. CASE ForgetIdentifier
  <2>1. Keeps /\ UNCHANGED reports
    BY <1>17 DEF ForgetIdentifier, Keeps
  <2> QED BY <1>a, <1>u, <2>1
<1>18. CASE RemoveGameSource
  <2>1. Keeps /\ UNCHANGED reports
    BY <1>18 DEF RemoveGameSource, Keeps
  <2> QED BY <1>a, <1>u, <2>1
<1>19. CASE UNCHANGED << identifier_, delay_active_, rpc, command, starting, cpc,
                         recording, delayed, reports >>
  <2>1. Keeps /\ UNCHANGED reports
    BY <1>19 DEF Keeps
  <2> QED BY <1>a, <1>u, <2>1
<1> QED
  BY <1>1, <1>2, <1>3, <1>4, <1>5, <1>6, <1>7, <1>8, <1>9, <1>10, <1>11, <1>12,
     <1>13, <1>14, <1>15, <1>16, <1>17, <1>18, <1>19
     DEF Next, ClientCommand, ReceiverStep, Game, CommandThreadStep,
         StopHandlerStep, AddGameSource, GameFocusChanged, Captured, HookFails,
         ProcessQuits, CaptureLost, CaptureEnds

(* An overlap is never taken back.                                         *)
LEMMA OverlapStays ==
  ASSUME TypeOK, StartInv, [Next]_vars
  PROVE  overlap => overlap'
<1> USE DEF vars, history
<1>1. CASE StopRecording \/ StopRecordingOnGameSourceExit
  BY <1>1, StopEffect DEF StopRecording, StopRecordingOnGameSourceExit
<1>2. CASE DelayRecording \/ StartRecording
  BY <1>2 DEF DelayRecording, StartRecording
<1>3. CASE StartRecordingReturns \/ PendingStartReturns
  BY <1>3 DEF StartRecordingReturns, PendingStartReturns, OutputStarts, OutputRefuses
<1>4. CASE UNCHANGED overlap
  BY <1>4
<1> QED
  BY <1>1, <1>2, <1>3, <1>4
     DEF Next, ClientCommand, ReceiverStep, Game, CommandThreadStep,
         StopHandlerStep, ReceiveStart, ReceiveStop, AddGameSource,
         GameFocusChanged, InitializeOBS, InitScene, ResetOutputSetting,
         StartDelayRecording, Captured, HookFails, ProcessQuits, CaptureLost,
         HandleCaptured, HandleHookError, HandleGameExit, RemoveGameSource,
         OutputEnds, ReportStopped, ForgetIdentifier, CaptureEnds

(* The session that is being started, waits for the game or is live keeps  *)
(* its identifier, until a start overlaps the end of another.              *)
LEMMA SessionStep ==
  ASSUME TypeOK, IssuedInv, StartInv, AnswerInv, SessionInv, [Next]_vars, ~ overlap'
  PROVE  SessionInv'
<1> USE RecordingAssumption
<1>0. RecorderOK /\ ReceiverOK /\ CommandsOK /\ ReportsOK
  BY TypeParts
<1>i. rpc # "idle" => command.id \in Id /\ command.id # NoId
  BY <1>0 DEF IssuedInv, ReceiverOK
<1>e. Event = {"READY", "ERR", "INJECTION_ERR", "STARTED", "STOPPING", "STOPPED"}
  BY DEF Event
<1>n. identifier_ \in Id \cup {NoId} /\ recording \in Id \cup {NoId}
  BY <1>0 DEF RecorderOK
<1> USE DEF SessionInv, vars, recorder, receiver, commands, history

(* A step that says STOPPED of nothing and leaves the session alone.       *)
<1> DEFINE Silent == \A j \in Id \cup {NoId} :
                       "STOPPED" \in reports'[j] => "STOPPED" \in reports[j]
<1>r. ASSUME NEW i \in Id \cup {NoId}, NEW e \in Event \ {"STOPPED"}, Report(i, e)
      PROVE  Silent
  BY <1>0, <1>r DEF Report, ReportsOK
<1>f. ASSUME rpc # "idle", NEW e \in {"READY", "ERR"}, Finish(e)
      PROVE  Silent /\ rpc' = "idle"
  BY <1>e, <1>f, <1>i, <1>r DEF Finish
<1>c. ASSUME Silent,
             UNCHANGED << identifier_, delay_active_, output, cpc, starting, epc, recording >>,
             rpc' # "starting" \/ UNCHANGED << rpc, command >>
      PROVE  SessionInv'
  BY <1>c, <1>i, <1>n DEF Live
<1>s. ASSUME RecorderStop, cpc' # "starting", UNCHANGED epc,
             rpc' = "idle" \/ UNCHANGED << rpc, command >>
      PROVE  SessionInv'
  <2>1. CASE Live
    <3>1. "STOPPED" \notin reports'[recording]
      BY <2>1, <1>s, StopEffect
    <3> QED BY <1>s, <2>1, <3>1, StopEffect DEF StartInv
  <2>2. CASE ~ Live
    BY <1>s, <2>2, StopEffect
  <2> QED BY <2>1, <2>2
<1> HIDE DEF Silent

<1>1. ASSUME NEW withGame \in BOOLEAN, NEW shown \in Foreground,
             ReceiveStart(withGame, shown)
      PROVE  SessionInv'
  BY <1>1, <1>c DEF ReceiveStart, Silent
<1>2. ASSUME NEW i \in Id, ReceiveStop(i) PROVE SessionInv'
  <2>1. rpc' # "starting"
    BY <1>2 DEF ReceiveStop
  <2>2. i = identifier_ \/ reports'[identifier_] = reports[identifier_]
    BY <1>0, <1>2, <1>n DEF ReceiveStop, Report, ReportsOK
  <2>3. i = identifier_ => reports' = reports
    BY <1>2 DEF ReceiveStop
  <2>4. UNCHANGED << identifier_, delay_active_, output, cpc, starting, epc, recording >>
    BY <1>2 DEF ReceiveStop
  <2> QED BY <2>1, <2>2, <2>3, <2>4 DEF Live
<1>3. CASE InitializeOBS
  BY <1>3, <1>c, <1>f DEF InitializeOBS, Silent
<1>4. CASE InitScene
  BY <1>4, <1>c, <1>f DEF InitScene, Silent
<1>5. CASE ResetOutputSetting
  BY <1>5, <1>c, <1>f DEF ResetOutputSetting, Silent
<1>6. CASE StartDelayRecording
  BY <1>6, <1>c DEF StartDelayRecording, Silent
<1>7. CASE DelayRecording
  <2>1. epc = "idle" /\ ~ Live /\ cpc # "starting" /\ "STOPPED" \notin reports[command.id]
    BY <1>7 DEF DelayRecording, EndIsHandled, StartInv, AnswerInv, Unannounced
  <2>2. Silent /\ rpc' = "idle"
    BY <1>7, <1>f DEF DelayRecording
  <2>3. identifier_' = command.id /\ UNCHANGED << output, cpc, epc >>
    BY <1>7 DEF DelayRecording
  <2>4. "STOPPED" \notin reports'[identifier_']
    BY <1>7, <1>i, <2>1, <2>2, <2>3 DEF DelayRecording, Silent
  <2> QED BY <2>1, <2>2, <2>3, <2>4 DEF Live
<1>8. CASE StartRecording
  <2>1. /\ epc = "idle" /\ ~ Live /\ ~ delay_active_ /\ cpc # "starting"
        /\ "STOPPED" \notin reports[command.id]
    BY <1>8 DEF StartRecording, EndIsHandled, StartInv, AnswerInv, Unannounced
  <2> QED BY <1>8, <2>1 DEF StartRecording, Live
<1>9. CASE StartRecordingReturns
  <2>1. /\ epc = "idle" /\ identifier_ = command.id /\ "STOPPED" \notin reports[command.id]
        /\ ~ Live /\ ~ delay_active_ /\ cpc # "starting" /\ command.id \in Id /\ command.id # NoId
    BY <1>9, <1>i DEF StartRecordingReturns, StartInv
  <2>2. rpc' = "idle" /\ UNCHANGED << epc, cpc >>
    BY <1>9 DEF StartRecordingReturns
  <2>3. CASE OutputRefuses
    BY <2>1, <2>2, <2>3 DEF OutputRefuses, Live
  <2>4. CASE /\ OutputStarts(command.id)
             /\ reports' = [i \in Id \cup {NoId} |->
                              reports[i]
                                \cup (IF i = identifier_ THEN {"STARTED"} ELSE {})
                                \cup (IF i = command.id THEN {"READY"} ELSE {})]
    <3>1. "STOPPED" \notin reports'[command.id]
      BY <2>1, <2>4
    <3> QED BY <2>1, <2>2, <2>4, <3>1 DEF OutputStarts
  <2> QED BY <1>9, <2>3, <2>4 DEF StartRecordingReturns
<1>10. CASE StopRecording
  BY <1>10, <1>s DEF StopRecording, SyncFree
<1>11. CASE StopRecordingOnGameSourceExit
  BY <1>11, <1>s DEF StopRecordingOnGameSourceExit
<1>12. CASE HandleCaptured
  BY <1>12 DEF HandleCaptured, Live
<1>13. CASE PendingStartReturns
  <2>1. /\ epc = "idle" /\ identifier_ = starting /\ starting # NoId
        /\ "STOPPED" \notin reports[starting] /\ ~ Live /\ rpc # "starting"
    BY <1>13 DEF PendingStartReturns, StartInv
  <2>2. cpc' = "idle" /\ UNCHANGED << epc, rpc >>
    BY <1>13 DEF PendingStartReturns
  <2>3. CASE OutputRefuses
    BY <2>1, <2>2, <2>3 DEF OutputRefuses, Live
  <2>4. CASE OutputStarts(starting) /\ Report(identifier_, "STARTED")
    <3>1. "STOPPED" \notin reports'[starting]
      BY <1>e, <1>n, <1>r, <2>1, <2>4 DEF Silent
    <3> QED BY <2>1, <2>2, <2>4, <3>1 DEF OutputStarts
  <2> QED BY <1>13, <2>3, <2>4 DEF PendingStartReturns
<1>14. CASE HandleHookError \/ HandleGameExit
  <2>1. Silent
    BY <1>14, <1>e, <1>n, <1>r DEF HandleHookError, HandleGameExit, Silent
  <2> QED BY <1>14, <1>c, <2>1 DEF HandleHookError, HandleGameExit
<1>15. CASE OutputEnds
  <2>1. Live /\ ~ Live'
    BY <1>15 DEF OutputEnds, Live
  <2> QED BY <1>15, <2>1 DEF OutputEnds, StartInv
<1>16. CASE ReportStopped \/ ForgetIdentifier
  <2>1. epc # "idle" /\ UNCHANGED << output, delay_active_, rpc, cpc >>
    BY <1>16 DEF ReportStopped, ForgetIdentifier
  <2>2. ~ Live /\ ~ delay_active_ /\ rpc # "starting" /\ cpc # "starting"
    BY <2>1 DEF StartInv
  <2> QED BY <2>1, <2>2 DEF Live
<1>17. CASE CaptureEnds
  <2>1. ~ Live'
    BY <1>17 DEF CaptureEnds, Live
  <2> QED BY <1>17, <2>1 DEF CaptureEnds
<1>18. CASE RemoveGameSource
  BY <1>18 DEF RemoveGameSource, Live
<1>19. CASE UNCHANGED << identifier_, delay_active_, output, rpc, command, cpc,
                         starting, epc, recording, reports >>
  BY <1>19, <1>c DEF Silent
<1> QED
  BY <1>1, <1>2, <1>3, <1>4, <1>5, <1>6, <1>7, <1>8, <1>9, <1>10, <1>11, <1>12,
     <1>13, <1>14, <1>15, <1>16, <1>17, <1>18, <1>19
     DEF Next, ClientCommand, ReceiverStep, Game, CommandThreadStep,
         StopHandlerStep, AddGameSource, GameFocusChanged, Captured, HookFails,
         ProcessQuits, CaptureLost

(* The invariant is inductive.                                             *)
LEMMA NextIInv == IInv /\ [Next]_vars => IInv'
<1> SUFFICES ASSUME IInv, [Next]_vars PROVE IInv'
  OBVIOUS
<1>1. TypeOK' /\ IssuedInv' /\ StartInv' /\ AnswerInv'
  BY TypeStep, IssuedStep, StartStep, AnswerStep DEF IInv
<1>2. ASSUME ~ overlap' PROVE SessionInv'
  <2>1. ~ overlap
    BY <1>2, OverlapStays DEF IInv
  <2> QED BY <1>2, <2>1, SessionStep DEF IInv
<1> QED BY <1>1, <1>2 DEF IInv

(* The strengthened invariant holds in every state of the specification.   *)
LEMMA Inductive == Spec => []IInv
<1> QED BY InitIInv, NextIInv, PTL DEF Spec

-----------------------------------------------------------------------------
(* The state of the four threads keeps its types, and no command is        *)
(* answered and no error sent without an identifier.                       *)
THEOREM TypeCorrect == Spec => []TypeOK
<1>1. IInv => TypeOK
  BY DEF IInv
<1> QED BY <1>1, Inductive, PTL

(* However the commands, the tasks, the game and the stop signal           *)
(* interleave, OBS::Stop finds a live recording under the identifier it    *)
(* was started with, until a start overlaps the end of another.            *)
THEOREM LiveKnown == Spec => []LiveHasIdentifier
<1>1. IInv => LiveHasIdentifier
  BY DEF IInv, StartInv, SessionInv, LiveHasIdentifier
<1> QED BY <1>1, Inductive, PTL

(* A recording of which RECORDING_STOPPED was sent is not captured,        *)
(* whichever of OBS::Stop, RecordOutput::Stop and OBSStopRecording sent it.*)
THEOREM StoppedForGood == Spec => []StoppedIsStopped
<1>1. IInv => StoppedIsStopped
  BY DEF IInv, SessionInv, StoppedIsStopped
<1> QED BY <1>1, Inductive, PTL

(* Every way out of CommandStart::Perform answers once, whichever thread   *)
(* starts the output: an ERR after READY is that of a delayed recording.   *)
THEOREM AnsweredOnce == Spec => []ReadyIsKept
<1>1. IInv => ReadyIsKept
  BY DEF IInv, AnswerInv
<1> QED BY <1>1, Inductive, PTL

(* A STOP that comes before the game's first frame is the end of the       *)
(* recording: the capture that follows does not start it.                  *)
THEOREM StoppedNotStarted == Spec => NoStartAfterStop
<1> DEFINE Kept == \A i \in Id :
                     "STOPPED" \in reports[i] /\ "STARTED" \notin reports[i] /\ ~ overlap'
                     => "STARTED" \notin reports'[i]
<1>1. ASSUME IInv, [Next]_vars, NEW i \in Id,
             "STOPPED" \in reports[i], "STARTED" \notin reports[i], ~ overlap'
      PROVE  "STARTED" \notin reports'[i]
  <2>1. ~ overlap
    BY <1>1, OverlapStays DEF IInv
  <2>2. TypeOK /\ IssuedInv /\ StartInv /\ SessionInv /\ ReportsOK
    BY <1>1, <2>1, TypeParts DEF IInv
  <2>3. i # NoId
    BY DEF Id, NoId
  <2>r. ASSUME NEW j, NEW e, Report(j, e), e # "STARTED" \/ j # i
        PROVE  "STARTED" \notin reports'[i]
    BY <1>1, <2>2, <2>r DEF Report, ReportsOK
  <2>s. ASSUME RecorderStop PROVE "STARTED" \notin reports'[i]
    <3>1. identifier_ \in Id \cup {NoId}
      BY <2>2 DEF TypeOK
    <3> QED BY <1>1, <2>2, <2>s, <3>1, StopEffect
  <2>4. CASE StartRecordingReturns
    <3>1. i # identifier_
      BY <1>1, <2>2, <2>4 DEF StartRecordingReturns, SessionInv
    <3> QED BY <1>1, <2>4, <2>r, <3>1 DEF StartRecordingReturns
  <2>5. CASE PendingStartReturns
    <3>1. i # identifier_
      BY <1>1, <2>2, <2>3, <2>5 DEF PendingStartReturns, StartInv, SessionInv
    <3> QED BY <2>5, <2>r, <3>1 DEF PendingStartReturns
  <2>6. CASE StopRecording \/ StopRecordingOnGameSourceExit
    BY <2>6, <2>s DEF StopRecording, StopRecordingOnGameSourceExit
  <2>7. CASE \/ InitializeOBS \/ InitScene \/ ResetOutputSetting \/ DelayRecording
             \/ HandleHookError \/ HandleGameExit \/ ReportStopped
             \/ \E j \in Id : ReceiveStop(j)
    BY <1>1, <2>7, <2>r
       DEF InitializeOBS, InitScene, ResetOutputSetting, DelayRecording, Finish,
           HandleHookError, HandleGameExit, ReportStopped, ReceiveStop
  <2>8. CASE UNCHANGED reports
    BY <1>1, <2>8
  <2> QED
    BY <1>1, <2>4, <2>5, <2>6, <2>7, <2>8
       DEF Next, ClientCommand, ReceiverStep, Game, CommandThreadStep,
           StopHandlerStep, vars, ReceiveStart, AddGameSource,
           GameFocusChanged, StartDelayRecording, StartRecording, Captured,
           HookFails, ProcessQuits, CaptureLost, HandleCaptured,
           RemoveGameSource, OutputEnds, ForgetIdentifier, CaptureEnds
<1>2. IInv /\ [Next]_vars => [Kept]_vars
  BY <1>1
<1> QED BY <1>2, Inductive, PTL DEF Spec, NoStartAfterStop
=============================================================================
