-------------------------------- MODULE Link --------------------------------
(***************************************************************************)
(* The two processes and the standard input and output between them: how a *)
(* command of the Rust client reaches ascent-obs, how what ascent-obs has  *)
(* to say comes back, and how either of them ends.                         *)
(*                                                                         *)
(* The client has its caller (Recorder, ObsClient), a writer, a reader and *)
(* the thread of the EventManager.  ascent-obs has its main thread, which  *)
(* starts and then sleeps in MessageLoop, the receiver of                  *)
(* CommunicationChannelStd, which performs the commands, and a worker that *)
(* writes the events.  Either process may crash; it then leaves its ends   *)
(* of the pipes closed.  What a command does is left out but for its       *)
(* answer.  A message is written and read as a whole, though several may   *)
(* be read at once; the second that the writer sleeps after each command   *)
(* passes when it likes.                                                   *)
(***************************************************************************)
EXTENDS Naturals, Sequences

CONSTANTS MaxCommands,  (* bound: the commands that the client sends       *)
          BufferSize,   (* buffer_size, for commands and for events        *)
          PipeSize      (* messages that a pipe holds                      *)

ASSUME LinkAssumption ==
  /\ MaxCommands \in Nat
  /\ {BufferSize, PipeSize} \subseteq Nat \ {0}

VARIABLES
  recorder,    (* where the caller of the client is                        *)
  early,       (* it sent a command before the last one was answered       *)
  sent,        (* how many commands it has sent                            *)
  commands,    (* the channel to the writer                                *)
  writer, writing,        (* where the writer is, and what it writes       *)
  reader, events, manager, received, (* the channel to the EventManager,   *)
                                     (* and what came out of it            *)
  stdin, stdout,          (* the pipes, named as ascent-obs does           *)
  process,     (* how ascent-obs ended, if it did                          *)
  main, running_, woken,  (* its main thread and the MessageLoop           *)
  initialized_,
  receiver, batch,        (* the receiver and what it has read             *)
  thread_, task_queue_,   (* the worker and the events it is to write      *)
  fate         (* what became of each command                              *)

calls == << sent, early >>
client == << recorder, calls, commands, writer, writing >>
back == << reader, events, manager, received >>
loop == << main, running_, woken, initialized_ >>
inside == << loop, receiver, batch, thread_, task_queue_, fate >>
server == << process, inside >>
vars == << client, back, stdin, stdout, server >>

SHUTDOWN == 0   (* the others are numbered; an event is the number of the  *)
                (* command that it answers                                 *)
Command == 1 .. MaxCommands
NoCommand == MaxCommands + 1

Init ==
  /\ recorder = "open" /\ early = FALSE /\ sent = 0 /\ commands = << >>
  /\ writer = "recv" /\ writing = NoCommand
  /\ reader = "on" /\ events = << >> /\ manager = "on" /\ received = {}
  /\ stdin = << >> /\ stdout = << >>
  /\ process = "on"
  /\ main = "connect" /\ running_ = FALSE /\ woken = FALSE
  /\ initialized_ = FALSE
  /\ receiver = "none" /\ batch = << >>
  /\ thread_ = "none" /\ task_queue_ = << >>
  /\ fate = [c \in Command \cup {SHUTDOWN} |-> "none"]

Alive == process = "on"

(* A slip: the sender is dropped only after the writer was joined.         *)
SenderOpenInJoin == recorder \in {"open", "shutdown", "manager", "join"}

SenderOpen == recorder \in {"open", "shutdown", "manager"}

-----------------------------------------------------------------------------
(* The client: Recorder and ObsClient.                                     *)

(* A slip: the channel is unbounded.                                       *)
PushUnbounded(c) ==
  /\ early' = (early \/ (sent > 0 /\ sent \notin received))
  /\ commands' = IF writer = "ended" THEN commands ELSE Append(commands, c)

(* send blocks while the channel is full, and fails when the writer is     *)
(* gone.                                                                   *)
Push(c) ==
  /\ early' = (early \/ (sent > 0 /\ sent \notin received))
  /\ IF writer = "ended" THEN UNCHANGED commands
     ELSE Len(commands) < BufferSize /\ commands' = Append(commands, c)

(* One caller; request_shutdown is a command like any other.               *)
SendCommand ==
  /\ recorder = "open" /\ sent < MaxCommands
  /\ \E c \in {sent + 1, SHUTDOWN} : Push(c)
  /\ sent' = sent + 1
  /\ UNCHANGED << recorder, writer, writing, back, stdin, stdout, server >>

(* Recorder::shutdown and ObsClient::shutdown: SHUTDOWN is sent, the       *)
(* EventManager is ended, the sender is dropped and the writer joined, the *)
(* process is killed, the reader is joined.                                *)
Shutdown ==
  /\ recorder = "open"
  /\ recorder' = "shutdown"
  /\ UNCHANGED << calls, commands, writer, writing, back, stdin, stdout, server >>

ShutdownSends ==
  /\ recorder = "shutdown"
  /\ Push(SHUTDOWN)
  /\ recorder' = "manager"
  /\ UNCHANGED << sent, writer, writing, back, stdin, stdout, server >>

EndManager ==
  /\ recorder = "manager"
  /\ manager' = "off"
  /\ recorder' = "join"
  /\ UNCHANGED << calls, commands, writer, writing, reader, events, received,
                  stdin, stdout, server >>

Kill ==
  /\ recorder = "join" /\ writer = "ended"
  /\ recorder' = "killed"
  /\ process' = IF Alive THEN "killed" ELSE process
  /\ UNCHANGED << calls, commands, writer, writing, back, stdin, stdout, inside >>

ShutdownReturns ==
  /\ recorder = "killed" /\ reader = "ended"
  /\ recorder' = "done"
  /\ UNCHANGED << calls, commands, writer, writing, back, stdin, stdout, server >>

(* A Recorder that is dropped ends its EventManager and drops the sender.  *)
Dropped ==
  /\ recorder = "open"
  /\ recorder' = "dropped" /\ manager' = "off"
  /\ UNCHANGED << calls, commands, writer, writing, reader, events, received,
                  stdin, stdout, server >>

ClientCrashes ==
  /\ recorder \notin {"crashed", "done"}
  /\ recorder' = "crashed"
  /\ writer' = "ended" /\ reader' = "ended" /\ manager' = "off"
  /\ UNCHANGED << calls, commands, writing, events, received, stdin, stdout,
                  server >>

(* spawn_writer_thread.  The end of the thread closes the pipe.            *)
WriterTakes ==
  /\ writer = "recv" /\ commands # << >>
  /\ writing' = Head(commands) /\ commands' = Tail(commands)
  /\ writer' = "write"
  /\ UNCHANGED << recorder, calls, back, stdin, stdout, server >>

WriterEnds ==
  /\ \/ writer = "recv" /\ commands = << >> /\ ~ SenderOpen
     \/ writer = "write" /\ ~ Alive
  /\ writer' = "ended"
  /\ UNCHANGED << recorder, calls, commands, writing, back, stdin, stdout, server >>

(* A slip: a write that has succeeded is tried again.                      *)
WriterRetries ==
  /\ writer = "write" /\ Alive /\ Len(stdin) + 1 < PipeSize
  /\ stdin' = stdin \o << writing, writing >>
  /\ writer' = "sleep"
  /\ UNCHANGED << recorder, calls, commands, writing, back, stdout, server >>

WriterWrites ==
  /\ writer = "write" /\ Alive /\ Len(stdin) < PipeSize
  /\ stdin' = Append(stdin, writing)
  /\ writer' = "sleep"
  /\ UNCHANGED << recorder, calls, commands, writing, back, stdout, server >>

WriterWakes ==
  /\ writer = "sleep"
  /\ writer' = "recv"
  /\ writing' = NoCommand
  /\ UNCHANGED << recorder, calls, commands, back, stdin, stdout, server >>

(* spawn_reader_thread.  The pipe ends when ascent-obs has ended.          *)
ReaderReads ==
  /\ reader = "on" /\ stdout # << >>
  /\ \/ /\ manager = "on" /\ Len(events) < BufferSize
        /\ events' = Append(events, Head(stdout))
        /\ UNCHANGED reader
     \/ manager = "off" /\ reader' = "ended" /\ UNCHANGED events
  /\ stdout' = Tail(stdout)
  /\ UNCHANGED << client, manager, received, stdin, server >>

ReaderEnds ==
  /\ reader = "on" /\ stdout = << >> /\ ~ Alive
  /\ reader' = "ended"
  /\ UNCHANGED << client, events, manager, received, stdin, stdout, server >>

(* processing_loop takes one event; it ends when the reader has ended.     *)
ManagerTakes ==
  /\ manager = "on" /\ events # << >>
  /\ received' = received \cup {Head(events)}
  /\ events' = Tail(events)
  /\ UNCHANGED << client, reader, manager, stdin, stdout, server >>

ManagerEnds ==
  /\ manager = "on" /\ events = << >> /\ reader = "ended"
  /\ manager' = "off"
  /\ UNCHANGED << client, reader, events, received, stdin, stdout, server >>

ClientGoesOn ==
  \/ ShutdownSends \/ EndManager \/ Kill \/ ShutdownReturns
Writer == WriterTakes \/ WriterEnds \/ WriterWrites \/ WriterWakes
Reader == ReaderReads \/ ReaderEnds
Manager == ManagerTakes \/ ManagerEnds

-----------------------------------------------------------------------------
(* The main thread of ascent-obs.                                          *)

(* MessageLoop::Quit; a notification is not kept for a later wait.         *)
Quit == woken' = (woken \/ (running_ /\ main = "wait"))

(* CommunicationChannelStd::Start: OnConnected, which initializes OBS, the *)
(* worker, the receiver.  Quit does nothing yet when OBS does not start.   *)
Connect ==
  /\ Alive /\ main = "connect"
  /\ initialized_' \in BOOLEAN
  /\ IF initialized_' THEN UNCHANGED woken ELSE Quit
  /\ thread_' = "on"
  /\ main' = "listen"
  /\ UNCHANGED << client, back, stdin, stdout, process, running_, receiver, batch,
                  task_queue_, fate >>

Listen ==
  /\ Alive /\ main = "listen"
  /\ receiver' = "read"
  /\ main' = "run"
  /\ UNCHANGED << client, back, stdin, stdout, process, running_, woken,
                  initialized_, batch, thread_, task_queue_, fate >>

(* MessageLoop::Run: the flag is set before the wait begins.               *)
Run ==
  /\ Alive
  /\ \/ main = "run" /\ running_' = TRUE /\ main' = "lock"
     \/ main = "lock" /\ main' = "wait" /\ UNCHANGED running_
  /\ UNCHANGED << client, back, stdin, stdout, process, woken, initialized_,
                  receiver, batch, thread_, task_queue_, fate >>

(* The wait has no predicate: it may also return when nobody called Quit.  *)
RunReturns ==
  /\ Alive /\ main = "wait"
  /\ main' = "destroy" /\ running_' = FALSE
  /\ UNCHANGED << client, back, stdin, stdout, process, woken, initialized_,
                  receiver, batch, thread_, task_queue_, fate >>

(* ~Server frees obs_control_ and OBS with it; then main returns.          *)
Destroy ==
  /\ Alive
  /\ \/ main = "destroy" /\ main' = "return" /\ UNCHANGED process
     \/ main = "return" /\ process' = "exited" /\ UNCHANGED main
  /\ UNCHANGED << client, back, stdin, stdout, running_, woken, initialized_,
                  receiver, batch, thread_, task_queue_, fate >>

Main == Connect \/ Listen \/ Run \/ Destroy

-----------------------------------------------------------------------------
(* The receiver of ascent-obs: receiver_thread, Server::OnData.            *)

Post(e) ==
  task_queue_' = IF thread_ = "on" THEN Append(task_queue_, e) ELSE task_queue_

(* A pipe is a stream of bytes: one read takes what is there.              *)
Receive ==
  /\ Alive /\ receiver = "read" /\ stdin # << >>
  /\ batch' = stdin /\ stdin' = << >>
  /\ receiver' = "data"
  /\ UNCHANGED << client, back, stdout, process, loop, thread_, task_queue_, fate >>

ReceiveEnd ==
  /\ Alive /\ receiver = "read" /\ stdin = << >> /\ writer = "ended"
  /\ receiver' = "disconnected"
  /\ UNCHANGED << client, back, stdin, stdout, process, loop, batch, thread_,
                  task_queue_, fate >>

Handled(what) ==
  /\ fate' = [c \in DOMAIN fate |->
               IF \E i \in DOMAIN batch : batch[i] = c THEN what ELSE fate[c]]
  /\ batch' = << >>

(* Two commands in one buffer are no JSON document: both are lost.         *)
IgnoreMerged ==
  /\ Alive /\ receiver = "data" /\ Len(batch) > 1
  /\ Handled("merged")
  /\ receiver' = "read"
  /\ UNCHANGED << client, back, stdin, stdout, process, loop, thread_,
                  task_queue_ >>

(* Before Init has filled commands_map_ there is nothing to perform.       *)
IgnoreUnknown ==
  /\ Alive /\ receiver = "data" /\ Len(batch) = 1 /\ Head(batch) # SHUTDOWN
  /\ ~ initialized_
  /\ Handled("unknown")
  /\ receiver' = "read"
  /\ UNCHANGED << client, back, stdin, stdout, process, loop, thread_,
                  task_queue_ >>

(* A command is performed and answered.                                    *)
HandleCommand ==
  /\ Alive /\ receiver = "data" /\ Len(batch) = 1 /\ Head(batch) # SHUTDOWN
  /\ initialized_
  /\ Post(Head(batch))
  /\ Handled("performed")
  /\ receiver' = "read"
  /\ UNCHANGED << client, back, stdin, stdout, process, loop, thread_ >>

(* HandleShutdownCommand: OBS::Shutdown, StopNow, Quit, Shutdown.  StopNow *)
(* waits for the receiver, which is this thread, until its time is up; the *)
(* worker then accepts nothing more.                                       *)
HandleShutdown ==
  /\ Alive /\ receiver = "data" /\ batch = << SHUTDOWN >>
  /\ Handled("performed")
  /\ receiver' = "stop"
  /\ UNCHANGED << client, back, stdin, stdout, process, loop, thread_,
                  task_queue_ >>

(* A slip: Stop does not wait for the worker.                              *)
StopNowAtOnce ==
  /\ Alive /\ receiver = "stop"
  /\ thread_' = "stopping" /\ receiver' = "quit"
  /\ UNCHANGED << client, back, stdin, stdout, process, loop, batch,
                  task_queue_, fate >>

StopNow ==
  /\ Alive
  /\ \/ receiver = "stop" /\ thread_' = "stopping" /\ receiver' = "drain"
     \/ /\ receiver = "drain" /\ task_queue_ = << >>
        /\ receiver' = "quit" /\ UNCHANGED thread_
  /\ UNCHANGED << client, back, stdin, stdout, process, loop, batch,
                  task_queue_, fate >>

(* A slip: the receiver goes on reading.                                   *)
ShutdownQuitsOnly ==
  /\ Alive /\ receiver = "quit"
  /\ Quit
  /\ receiver' = "read"
  /\ UNCHANGED << client, back, stdin, stdout, process, main, running_,
                  initialized_, batch, thread_, task_queue_, fate >>

(* The loop of the receiver ends, for StopNow has cleared is_running_.     *)
ShutdownQuits ==
  /\ Alive /\ receiver = "quit"
  /\ Quit
  /\ receiver' = "disconnected"
  /\ UNCHANGED << client, back, stdin, stdout, process, main, running_,
                  initialized_, batch, thread_, task_queue_, fate >>

(* A slip, or a DEBUG build: the process is not terminated.                *)
DisconnectedDebug ==
  /\ Alive /\ receiver = "disconnected"
  /\ Quit
  /\ receiver' = "none"
  /\ UNCHANGED << client, back, stdin, stdout, process, main, running_,
                  initialized_, batch, thread_, task_queue_, fate >>

(* Server::OnDisconnected *)
Disconnected ==
  /\ Alive /\ receiver = "disconnected"
  /\ Quit
  /\ receiver' = "none"
  /\ process' = "terminated"
  /\ UNCHANGED << client, back, stdin, stdout, main, running_, initialized_,
                  batch, thread_, task_queue_, fate >>

Receiver ==
  \/ Receive \/ ReceiveEnd \/ IgnoreMerged \/ IgnoreUnknown \/ HandleCommand
  \/ HandleShutdown \/ StopNow \/ ShutdownQuits \/ Disconnected

(* The worker, or after its time the thread that stops it, writes an event.*)
SendOnWorkerThread ==
  /\ Alive /\ thread_ # "none" /\ task_queue_ # << >>
  /\ \/ reader = "on" /\ Len(stdout) < PipeSize
        /\ stdout' = Append(stdout, Head(task_queue_))
     \/ reader = "ended" /\ UNCHANGED stdout
  /\ task_queue_' = Tail(task_queue_)
  /\ UNCHANGED << client, back, stdin, process, loop, receiver, batch, thread_, fate >>

ServerCrashes ==
  /\ Alive
  /\ process' = "crashed"
  /\ UNCHANGED << client, back, stdin, stdout, inside >>

-----------------------------------------------------------------------------
Next ==
  \/ SendCommand \/ Shutdown \/ ClientGoesOn \/ Dropped \/ ClientCrashes
  \/ Writer \/ Reader \/ Manager
  \/ Main \/ RunReturns \/ Receiver \/ SendOnWorkerThread
  \/ ServerCrashes

(* Every thread goes on.  Nobody has to send a command, to drop the        *)
(* Recorder, to crash, or to wake a condition variable that nobody has     *)
(* notified.                                                               *)
Fairness ==
  /\ WF_vars(ClientGoesOn) /\ WF_vars(Writer) /\ WF_vars(Reader)
  /\ WF_vars(Manager)
  /\ WF_vars(Main) /\ WF_vars(woken /\ RunReturns)
  /\ WF_vars(Receiver) /\ WF_vars(SendOnWorkerThread)

Spec == Init /\ [][Next]_vars /\ Fairness

-----------------------------------------------------------------------------
(* The properties.                                                         *)

TypeOK ==
  /\ recorder \in {"open", "shutdown", "manager", "join", "killed", "done",
                   "dropped", "crashed"}
  /\ sent \in 0 .. MaxCommands /\ early \in BOOLEAN
  /\ commands \in Seq(Command \cup {SHUTDOWN}) /\ Len(commands) <= BufferSize
  /\ writer \in {"recv", "write", "sleep", "ended"}
  /\ writing \in Command \cup {SHUTDOWN, NoCommand}
  /\ {reader, manager} \subseteq {"on", "off", "ended"}
  /\ events \in Seq(Command) /\ Len(events) <= BufferSize
  /\ received \subseteq Command
  /\ stdin \in Seq(Command \cup {SHUTDOWN}) /\ Len(stdin) <= PipeSize
  /\ stdout \in Seq(Command) /\ Len(stdout) <= PipeSize
  /\ process \in {"on", "crashed", "killed", "exited", "terminated"}
  /\ main \in {"connect", "listen", "run", "lock", "wait", "destroy", "return"}
  /\ {running_, woken, initialized_} \subseteq BOOLEAN
  /\ receiver \in {"none", "read", "data", "stop", "drain", "quit", "disconnected"}
  /\ batch \in Seq(Command \cup {SHUTDOWN}) /\ Len(batch) <= PipeSize
  /\ thread_ \in {"none", "on", "stopping"}
  /\ task_queue_ \in Seq(Command)
  /\ fate \in [Command \cup {SHUTDOWN} -> {"none", "merged", "unknown", "performed"}]

(* A client that waits for the answer to a command before it sends the     *)
(* next one never has two of them read as one: they are lost only for one  *)
(* that does not wait.                                                     *)
MergedIsEarly == (\E c \in Command : fate[c] = "merged") => early

(* The main thread frees OBS only when the receiver performs no command,   *)
(* unless the condition variable has woken by itself.                      *)
ObsOutlivesCommands == main = "return" /\ woken => receiver # "data"

(* The client's shutdown blocks until the threads have ended, and it does  *)
(* return: ascent-obs may be busy, and crash, at any moment of it.         *)
ShutdownEnds == recorder = "shutdown" ~> recorder \in {"done", "crashed"}

(* ascent-obs ends after SHUTDOWN, and it does not outlive the client,     *)
(* although a Quit that comes before the wait of MessageLoop is lost.      *)
ServerEnds == fate[SHUTDOWN] = "performed" \/ writer = "ended" ~> ~ Alive

(* What a command is answered reaches the client, even if SHUTDOWN follows *)
(* it at once: the pending messages are sent before the process ends.      *)
AnswerArrives ==
  \A c \in Command :
    fate[c] = "performed" ~>
      \/ c \in received
      \/ recorder # "open" \/ process = "crashed"
      \/ process = "exited" /\ ~ woken
=============================================================================
