---------------------------- MODULE WorkerThread ----------------------------
(***************************************************************************)
(* libascentobs::Thread (base/thread.cpp): one worker that runs the tasks  *)
(* other threads post.  The program owns two of them: the command thread   *)
(* of OBSControl and the send thread of each communication channel.        *)
(*                                                                         *)
(* Every read or write of an unprotected field is a step of its own; what  *)
(* happens between EnterCriticalSection and LeaveCriticalSection is one    *)
(* step.  Each task is posted once, by a thread of its own; each stopper   *)
(* is a thread that calls Stop once; a running task may call Stop too.     *)
(***************************************************************************)
EXTENDS Naturals, Sequences

CONSTANTS Task,       (* the tasks that are posted                         *)
          Stopper,    (* the threads that call Stop, the owner among them  *)
          Worker,     (* the worker thread                                 *)
          NoTask

ASSUME WorkerAssumption == Worker \notin Stopper /\ NoTask \notin Task

VARIABLES
  thread_,            (* the thread handle is not null                     *)
  thread_event_,      (* auto-reset event: null, reset or set              *)
  stopping_,
  finish_all_tasks_,
  task_queue_,
  pc,                 (* where each consumer (worker or stopper) is        *)
  current,            (* the task each consumer is running                 *)
  finish,             (* the argument of each consumer's call of Stop      *)
  wait,               (* what each stopper's call has come to              *)
  post,               (* how far each task's PostTask is                   *)
  runs,               (* how many times each task was taken                *)
  stops,              (* the calls of Stop that passed the early return    *)
  promised            (* tasks accepted when a stopper raised the flags    *)

vars == << thread_, thread_event_, stopping_, finish_all_tasks_, task_queue_,
           pc, current, finish, wait, post, runs, stops, promised >>

Consumer == Stopper \cup {Worker}

Goto(c, label) == pc' = [pc EXCEPT ![c] = label]

Init ==
  /\ thread_ = FALSE
  /\ thread_event_ = "null"
  /\ stopping_ = FALSE
  /\ finish_all_tasks_ = FALSE
  /\ task_queue_ = << >>
  /\ pc = [c \in Consumer |-> "idle"]
  /\ current = [c \in Consumer |-> NoTask]
  /\ finish = [c \in Consumer |-> FALSE]
  /\ wait = [s \in Stopper |-> "none"]
  /\ post = [t \in Task |-> "new"]
  /\ runs = [t \in Task |-> 0]
  /\ stops = {}
  /\ promised = [s \in Stopper |-> {}]

-----------------------------------------------------------------------------
(* Start; a second call finds thread_ set and returns false.               *)
Start ==
  /\ ~ thread_
  /\ thread_' = TRUE
  /\ thread_event_' = "reset"
  /\ stopping_' = FALSE
  /\ task_queue_' = << >>
  /\ Goto(Worker, "loop")
  /\ UNCHANGED << finish_all_tasks_, current, finish, wait, post, runs, stops,
                  promised >>

-----------------------------------------------------------------------------
(* PostTask: the tests are made before the lock is taken, and the event is *)
(* set after it is released.                                               *)
PostCheck(t) ==
  /\ post[t] = "new"
  /\ post' = [post EXCEPT ![t] =
                IF thread_ /\ ~ stopping_ THEN "checked" ELSE "refused"]
  /\ UNCHANGED << thread_, thread_event_, stopping_, finish_all_tasks_,
                  task_queue_, pc, current, finish, wait, runs, stops,
                  promised >>

PostPush(t) ==
  /\ post[t] = "checked"
  /\ task_queue_' = Append(task_queue_, t)
  /\ post' = [post EXCEPT ![t] = "pushed"]
  /\ UNCHANGED << thread_, thread_event_, stopping_, finish_all_tasks_, pc,
                  current, finish, wait, runs, stops, promised >>

(* SetEvent on the handle Stop has closed fails, and PostTask returns      *)
(* false for a task that is in the queue.                                  *)
PostSignal(t) ==
  /\ post[t] = "pushed"
  /\ \/ /\ thread_event_ # "null"
        /\ thread_event_' = "set"
        /\ post' = [post EXCEPT ![t] = "accepted"]
     \/ /\ thread_event_ = "null"
        /\ post' = [post EXCEPT ![t] = "unsignalled"]
        /\ UNCHANGED thread_event_
  /\ UNCHANGED << thread_, stopping_, finish_all_tasks_, task_queue_, pc,
                  current, finish, wait, runs, stops, promised >>

-----------------------------------------------------------------------------
(* ThreadProc                                                              *)
(* A slip: the worker leaves only when the queue is empty, too.            *)
WorkerTestUntilEmpty ==
  /\ pc[Worker] = "loop"
  /\ Goto(Worker, IF stopping_ /\ task_queue_ = << >> THEN "exited" ELSE "wait")
  /\ UNCHANGED << thread_, thread_event_, stopping_, finish_all_tasks_,
                  task_queue_, current, finish, wait, post, runs, stops,
                  promised >>

WorkerTest ==
  /\ pc[Worker] = "loop"
  /\ Goto(Worker, IF stopping_ THEN "exited" ELSE "wait")
  /\ UNCHANGED << thread_, thread_event_, stopping_, finish_all_tasks_,
                  task_queue_, current, finish, wait, post, runs, stops,
                  promised >>

(* An auto-reset event; a wait on the closed handle fails at once.         *)
WorkerWait ==
  /\ pc[Worker] = "wait"
  /\ thread_event_ # "reset"
  /\ thread_event_' = IF thread_event_ = "set" THEN "reset" ELSE "null"
  /\ Goto(Worker, "handle")
  /\ UNCHANGED << thread_, stopping_, finish_all_tasks_, task_queue_, current,
                  finish, wait, post, runs, stops, promised >>

-----------------------------------------------------------------------------
(* HandleNewTaskEvent, run by the worker and, once Stop has waited, by the *)
(* thread that called Stop.                                                *)
HandlerReturn(c) == IF c = Worker THEN "loop" ELSE "destroy"

(* A slip: do ... while, which takes before it looks. *)
HandleTestLate(c) ==
  /\ pc[c] = "handle"
  /\ Goto(c, IF stopping_ /\ ~ finish_all_tasks_
             THEN HandlerReturn(c) ELSE "take")
  /\ UNCHANGED << thread_, thread_event_, stopping_, finish_all_tasks_,
                  task_queue_, current, finish, wait, post, runs, stops,
                  promised >>

HandleTest(c) ==
  /\ pc[c] = "handle"
  /\ Goto(c, IF task_queue_ = << >> \/ (stopping_ /\ ~ finish_all_tasks_)
             THEN HandlerReturn(c) ELSE "take")
  /\ UNCHANGED << thread_, thread_event_, stopping_, finish_all_tasks_,
                  task_queue_, current, finish, wait, post, runs, stops,
                  promised >>

(* A slip: front() without pop(). *)
HandleTakeNoPop(c) ==
  /\ pc[c] = "take"
  /\ task_queue_ # << >>
  /\ current' = [current EXCEPT ![c] = Head(task_queue_)]
  /\ runs' = [runs EXCEPT ![Head(task_queue_)] = @ + 1]
  /\ Goto(c, "run")
  /\ UNCHANGED << thread_, thread_event_, stopping_, finish_all_tasks_,
                  task_queue_, finish, wait, post, stops, promised >>

HandleTake(c) ==
  /\ pc[c] = "take"
  /\ task_queue_ # << >>
  /\ current' = [current EXCEPT ![c] = Head(task_queue_)]
  /\ runs' = [runs EXCEPT ![Head(task_queue_)] = @ + 1]
  /\ task_queue_' = Tail(task_queue_)
  /\ Goto(c, "run")
  /\ UNCHANGED << thread_, thread_event_, stopping_, finish_all_tasks_,
                  finish, wait, post, stops, promised >>

(* front() and pop() of an empty std::queue: nothing is said of the        *)
(* program from here on, and the consumer is left where it is.             *)
HandleTakeEmpty(c) ==
  /\ pc[c] = "take"
  /\ task_queue_ = << >>
  /\ Goto(c, "undefined")
  /\ UNCHANGED << thread_, thread_event_, stopping_, finish_all_tasks_,
                  task_queue_, current, finish, wait, post, runs, stops,
                  promised >>

(* A slip: if instead of while, one task for each wakeup. *)
HandleRunOnce(c) ==
  /\ pc[c] = "run"
  /\ current' = [current EXCEPT ![c] = NoTask]
  /\ Goto(c, HandlerReturn(c))
  /\ UNCHANGED << thread_, thread_event_, stopping_, finish_all_tasks_,
                  task_queue_, finish, wait, post, runs, stops, promised >>

HandleRun(c) ==
  /\ pc[c] = "run"
  /\ current' = [current EXCEPT ![c] = NoTask]
  /\ Goto(c, "handle")
  /\ UNCHANGED << thread_, thread_event_, stopping_, finish_all_tasks_,
                  task_queue_, finish, wait, post, runs, stops, promised >>

-----------------------------------------------------------------------------
(* Stop: the early return, then the flags, the event, the wait, the drain. *)
(* A task on the worker that calls Stop only raises the flags.             *)
StopTest(c, f) ==
  /\ pc[c] = (IF c = Worker THEN "run" ELSE "idle")
  /\ \/ /\ thread_ /\ ~ stopping_
        /\ finish' = [finish EXCEPT ![c] = f]
        /\ stops' = stops \cup {c}
        /\ Goto(c, "flag")
     \/ /\ c # Worker
        /\ ~ thread_ \/ stopping_
        /\ Goto(c, "done")
        /\ UNCHANGED << finish, stops >>
  /\ UNCHANGED << thread_, thread_event_, stopping_, finish_all_tasks_,
                  task_queue_, current, wait, post, runs, promised >>

StopFlag(c) ==
  /\ pc[c] = "flag"
  /\ finish_all_tasks_' = finish[c]
  /\ stopping_' = TRUE
  /\ Goto(c, IF c = Worker THEN "run" ELSE "signal")
  /\ promised' = [s \in Stopper |->
                    IF s = c THEN {t \in Task : post[t] = "accepted"}
                    ELSE promised[s]]
  /\ UNCHANGED << thread_, thread_event_, task_queue_, current, finish, wait,
                  post, runs, stops >>

StopSignal(s) ==
  /\ pc[s] = "signal"
  /\ \/ /\ thread_event_ = "null"
        /\ Goto(s, "done")
        /\ UNCHANGED thread_event_
     \/ /\ thread_event_ # "null"
        /\ thread_event_' = "set"
        /\ Goto(s, "join")
  /\ UNCHANGED << thread_, stopping_, finish_all_tasks_, task_queue_, current,
                  finish, wait, post, runs, stops, promised >>

(* A slip: the thread handle is not waited for. *)
StopJoinUnwaited(s) ==
  /\ pc[s] = "join"
  /\ wait' = [wait EXCEPT ![s] = "joined"]
  /\ Goto(s, "waited")
  /\ UNCHANGED << thread_, thread_event_, stopping_, finish_all_tasks_,
                  task_queue_, current, finish, post, runs, stops, promised >>

StopJoin(s) ==
  /\ pc[s] = "join"
  /\ pc[Worker] = "exited"
  /\ wait' = [wait EXCEPT ![s] = "joined"]
  /\ Goto(s, "waited")
  /\ UNCHANGED << thread_, thread_event_, stopping_, finish_all_tasks_,
                  task_queue_, current, finish, post, runs, stops, promised >>

StopTimeout(s) ==
  /\ pc[s] = "join"
  /\ pc[Worker] # "exited"
  /\ wait' = [wait EXCEPT ![s] = "timed_out"]
  /\ Goto(s, "waited")
  /\ UNCHANGED << thread_, thread_event_, stopping_, finish_all_tasks_,
                  task_queue_, current, finish, post, runs, stops, promised >>

(* A slip: the caller drains the queue only when its wait has run out. *)
StopDrainLate(s) ==
  /\ pc[s] = "waited"
  /\ Goto(s, IF finish_all_tasks_ /\ wait[s] = "timed_out"
             THEN "handle" ELSE "destroy")
  /\ UNCHANGED << thread_, thread_event_, stopping_, finish_all_tasks_,
                  task_queue_, current, finish, wait, post, runs, stops,
                  promised >>

StopDrain(s) ==
  /\ pc[s] = "waited"
  /\ Goto(s, IF finish_all_tasks_ THEN "handle" ELSE "destroy")
  /\ UNCHANGED << thread_, thread_event_, stopping_, finish_all_tasks_,
                  task_queue_, current, finish, wait, post, runs, stops,
                  promised >>

StopDestroy(s) ==
  /\ pc[s] = "destroy"
  /\ thread_event_' = "null"
  /\ Goto(s, "done")
  /\ UNCHANGED << thread_, stopping_, finish_all_tasks_, task_queue_, current,
                  finish, wait, post, runs, stops, promised >>

-----------------------------------------------------------------------------
Handle(c) ==
  HandleTest(c) \/ HandleTake(c) \/ HandleTakeEmpty(c) \/ HandleRun(c)

WorkerStep == WorkerTest \/ WorkerWait \/ Handle(Worker) \/ StopFlag(Worker)

StopperStep(s) ==
  \/ StopFlag(s) \/ StopSignal(s) \/ StopJoin(s) \/ StopTimeout(s)
  \/ StopDrain(s) \/ StopDestroy(s) \/ Handle(s)

Next ==
  \/ Start
  \/ \E t \in Task : PostCheck(t) \/ PostPush(t) \/ PostSignal(t)
  \/ WorkerStep
  \/ \E c \in Consumer, f \in BOOLEAN : StopTest(c, f)
  \/ \E s \in Stopper : StopperStep(s)

(* The scheduler runs the worker and a thread inside Stop; nobody has to   *)
(* post a task, call Stop, or return from PostTask.                        *)
Fairness == WF_vars(WorkerStep) /\ \A s \in Stopper : WF_vars(StopperStep(s))

Spec == Init /\ [][Next]_vars /\ Fairness

-----------------------------------------------------------------------------
PcLabels == {"idle", "loop", "wait", "handle", "take", "run", "flag", "signal",
             "join", "waited", "destroy", "done", "exited", "undefined"}

PostLabels == {"new", "checked", "pushed", "accepted", "unsignalled", "refused"}

(* Every variable has its type; each task is taken from the queue once.    *)
TypeOK ==
  /\ thread_ \in BOOLEAN
  /\ thread_event_ \in {"null", "reset", "set"}
  /\ stopping_ \in BOOLEAN
  /\ finish_all_tasks_ \in BOOLEAN
  /\ task_queue_ \in Seq(Task)
  /\ pc \in [Consumer -> PcLabels]
  /\ current \in [Consumer -> Task \cup {NoTask}]
  /\ finish \in [Consumer -> BOOLEAN]
  /\ wait \in [Stopper -> {"none", "joined", "timed_out"}]
  /\ post \in [Task -> PostLabels]
  /\ runs \in [Task -> 0 .. 1]
  /\ stops \in SUBSET Consumer
  /\ promised \in [Stopper -> SUBSET Task]

(* What has to have happened before two threads can be in                  *)
(* HandleNewTaskEvent together: a wait in Stop ran out while the worker    *)
(* was in a task, or two threads were in Stop past the early return.       *)
TwoDrainers ==
  \/ \E s \in Stopper : wait[s] = "timed_out"
  \/ \E s, r \in Stopper : s # r /\ s \in stops /\ r \in stops

(* Tasks run one at a time: the command thread serialises the handlers of  *)
(* game capture, and OBS relies on it.  Stop breaks this only when its     *)
(* wait times out or two threads stop the thread at once.                  *)
TasksDoNotOverlap ==
  \A c, d \in Consumer :
    c # d /\ pc[c] = "run" /\ pc[d] = "run" => TwoDrainers

(* The unlocked empty() test of HandleNewTaskEvent is safe while one       *)
(* thread takes tasks: front() is never called on an empty queue, except   *)
(* after a timed-out or doubled Stop.                                      *)
NoTakeFromEmptyQueue ==
  (\E c \in Consumer : pc[c] = "undefined") => TwoDrainers

(* Stop(true) keeps its promise: when it returns, every task whose         *)
(* PostTask had returned true before the flags were raised has been        *)
(* taken, by the worker or by the caller, even if the wait timed out.      *)
StopFinishesTasks ==
  \A s \in Stopper :
    /\ pc[s] = "done"
    /\ wait[s] # "none"
    /\ finish[s]
    /\ stops = {s}
    => \A t \in promised[s] : runs[t] > 0

(* A Stop that joined the worker leaves nothing running: the owner may     *)
(* free what the tasks use (OBSControl frees OBS right after it).          *)
JoinedMeansQuiet ==
  \A s \in Stopper :
    pc[s] = "done" /\ wait[s] = "joined" /\ stops \cap Stopper = {s}
    => \A c \in Consumer : pc[c] \notin {"handle", "take", "run"}

(* No wakeup is lost: a task PostTask has accepted is taken, unless the    *)
(* thread is being stopped.                                                *)
AcceptedIsTaken ==
  \A t \in Task : post[t] = "accepted" ~> (runs[t] > 0 \/ stopping_)

(* Once the flags are raised the worker leaves ThreadProc, from whichever  *)
(* point of its loop, unless two drainers have emptied the queue under it. *)
WorkerLeaves ==
  stopping_ ~> pc[Worker] \in {"exited", "undefined"}
=============================================================================
