------------------------ MODULE WorkerThread_proofs -------------------------
(***************************************************************************)
(* Theorems about WorkerThread, for every set of tasks and of stoppers.    *)
(* The inductive invariant has four parts: the types, where a stopper can  *)
(* be, what the queue holds, and what a drain leaves behind.               *)
(***************************************************************************)
EXTENDS WorkerThread, TLAPS

(* A stopper is counted in stops once it passes the early return, its      *)
(* wait has an outcome exactly from "waited" on, and a join means that the *)
(* worker is gone.  Before Start no call gets past its first test.         *)
StopperInv ==
  /\ \A s \in Stopper :
       /\ pc[s] \notin {"loop", "wait", "exited"}
       /\ pc[s] \in {"flag", "signal", "join", "waited", "handle", "take",
                     "run", "destroy", "undefined"} => s \in stops
       /\ pc[s] = "idle" => s \notin stops
       /\ pc[s] \in {"idle", "flag", "signal", "join"} => wait[s] = "none"
       /\ pc[s] \in {"waited", "handle", "take", "run", "destroy",
                     "undefined"} => wait[s] # "none"
       /\ wait[s] = "joined" => pc[Worker] = "exited"
       /\ wait[s] # "none" => s \in stops
  /\ pc[Worker] \notin {"signal", "join", "waited", "destroy", "done"}
  /\ pc[Worker] = "flag" => Worker \in stops
  /\ ~ thread_ => stops = {} /\ pc[Worker] = "idle"

(* The queue holds each task at most once, and holds a task exactly        *)
(* between its push and its taking.                                        *)
QueueInv ==
  /\ \A i, j \in 1 .. Len(task_queue_) :
       task_queue_[i] = task_queue_[j] => i = j
  /\ \A i \in 1 .. Len(task_queue_) :
       /\ runs[task_queue_[i]] = 0
       /\ post[task_queue_[i]] \in {"pushed", "accepted", "unsignalled"}
  /\ \A t \in Task :
       post[t] \in {"new", "checked", "refused"} => runs[t] = 0
  /\ \A t \in Task :
       post[t] \in {"pushed", "accepted", "unsignalled"} /\ runs[t] = 0
       => \E i \in 1 .. Len(task_queue_) : task_queue_[i] = t
  /\ ~ thread_ => \A t \in Task : post[t] \in {"new", "refused"}

(* With one consumer in HandleNewTaskEvent the empty() test still holds    *)
(* when front() is called.                                                 *)
TakeInv ==
  \A c \in Consumer :
    /\ pc[c] = "take" /\ ~ TwoDrainers => task_queue_ # << >>
    /\ pc[c] = "undefined" => TwoDrainers

(* While s is the only caller that got past the early return, the drain    *)
(* flag is its argument, and when it is past the drain nothing it promised *)
(* is left in the queue.                                                   *)
DrainInv ==
  \A s \in Stopper :
    /\ \A t \in promised[s] : post[t] = "accepted"
    /\ stops = {s} /\ pc[s] \notin {"idle", "flag"} =>
         finish_all_tasks_ = finish[s]
    /\ /\ stops = {s}
       /\ finish[s]
       /\ wait[s] # "none"
       /\ pc[s] \in {"destroy", "done"}
       => \A t \in promised[s] : runs[t] > 0

IInv == TypeOK /\ StopperInv /\ QueueInv /\ TakeInv /\ DrainInv

-----------------------------------------------------------------------------
(* What front() and pop() of a queue that is not empty are.                *)
LEMMA HeadTail ==
  ASSUME NEW S, NEW q \in Seq(S), q # << >>
  PROVE  /\ Head(q) \in S
         /\ Head(q) = q[1]
         /\ 1 \in 1 .. Len(q)
         /\ Tail(q) \in Seq(S)
         /\ Len(Tail(q)) = Len(q) - 1
         /\ \A i \in 1 .. Len(q) - 1 : i + 1 \in 1 .. Len(q) /\ Tail(q)[i] = q[i + 1]
         /\ \A i \in 1 .. Len(q) : i = 1 \/ (i - 1 \in 1 .. Len(q) - 1 /\ Tail(q)[i - 1] = q[i])
<1>1. Len(q) \in Nat /\ Len(q) # 0
  OBVIOUS
<1> QED BY <1>1

(* What push() does to a queue.                                            *)
LEMMA AppendAtEnd ==
  ASSUME NEW S, NEW q \in Seq(S), NEW e \in S
  PROVE  /\ Append(q, e) \in Seq(S)
         /\ Len(q) \in Nat
         /\ Len(Append(q, e)) = Len(q) + 1
         /\ Append(q, e)[Len(q) + 1] = e
         /\ \A i \in 1 .. Len(q) : Append(q, e)[i] = q[i]
OBVIOUS

(* Only one consumer is in HandleNewTaskEvent until a wait times out or a  *)
(* second thread stops the worker.                                         *)
LEMMA OneDrainer ==
  ASSUME TypeOK, StopperInv, ~ TwoDrainers,
         NEW c \in Consumer, NEW d \in Consumer, c # d,
         pc[c] \in {"handle", "take", "run", "undefined"},
         pc[d] \in {"handle", "take", "run", "undefined"}
  PROVE  FALSE
<1> USE WorkerAssumption
<1>1. CASE c \in Stopper /\ d \in Stopper
  BY <1>1 DEF StopperInv, TwoDrainers
<1>2. CASE c = Worker /\ d \in Stopper
  BY <1>2 DEF StopperInv, TwoDrainers, TypeOK
<1>3. CASE d = Worker /\ c \in Stopper
  BY <1>3 DEF StopperInv, TwoDrainers, TypeOK
<1> QED BY <1>1, <1>2, <1>3 DEF Consumer

(* The invariant holds at the start.                                       *)
LEMMA InitIInv == Init => IInv
<1> SUFFICES ASSUME Init PROVE IInv
  OBVIOUS
<1> USE WorkerAssumption DEF Init, Consumer
<1>1. TypeOK
  <2>1. task_queue_ \in Seq(Task)
    OBVIOUS
  <2>2. pc \in [Consumer -> PcLabels]
    BY DEF PcLabels
  <2>3. post \in [Task -> PostLabels]
    BY DEF PostLabels
  <2>4. runs \in [Task -> 0 .. 1]
    OBVIOUS
  <2>5. promised \in [Stopper -> SUBSET Task]
    OBVIOUS
  <2>6. /\ wait \in [Stopper -> {"none", "joined", "timed_out"}]
        /\ current \in [Consumer -> Task \cup {NoTask}]
        /\ finish \in [Consumer -> BOOLEAN]
    OBVIOUS
  <2> QED BY <2>1, <2>2, <2>3, <2>4, <2>5, <2>6 DEF TypeOK
<1>2. StopperInv
  BY DEF StopperInv
<1>3. QueueInv
  BY DEF QueueInv
<1>4. TakeInv /\ DrainInv
  BY DEF TakeInv, DrainInv
<1> QED BY <1>1, <1>2, <1>3, <1>4 DEF IInv

(* Every step keeps the types; that a task is taken once needs QueueInv.  *)
LEMMA TypeStep ==
  ASSUME TypeOK, QueueInv, [Next]_vars
  PROVE  TypeOK'
<1> USE WorkerAssumption DEF TypeOK, QueueInv, Consumer, Goto, PcLabels, PostLabels
<1>1. CASE Start
  <2>1. << >> \in Seq(Task)
    OBVIOUS
  <2>2. pc' \in [Consumer -> PcLabels]
    BY <1>1 DEF Start
  <2> QED BY <1>1, <2>1, <2>2 DEF Start
<1>2. ASSUME NEW t \in Task, PostCheck(t) PROVE TypeOK'
  BY <1>2 DEF PostCheck
<1>3. ASSUME NEW t \in Task, PostPush(t) PROVE TypeOK'
  BY <1>3 DEF PostPush
<1>4. ASSUME NEW t \in Task, PostSignal(t) PROVE TypeOK'
  BY <1>4 DEF PostSignal
<1>5. CASE WorkerTest
  BY <1>5 DEF WorkerTest
<1>6. CASE WorkerWait
  BY <1>6 DEF WorkerWait
<1>7. ASSUME NEW c \in Consumer, HandleTest(c) PROVE TypeOK'
  BY <1>7 DEF HandleTest, HandlerReturn
<1>8. ASSUME NEW c \in Consumer, HandleTake(c) PROVE TypeOK'
  <2> DEFINE h == Head(task_queue_)
  <2>1. /\ h \in Task
        /\ h = task_queue_[1]
        /\ 1 \in 1 .. Len(task_queue_)
        /\ Tail(task_queue_) \in Seq(Task)
    BY <1>8, HeadTail DEF HandleTake
  <2>2. runs[h] = 0
    BY <2>1
  <2>3. runs' \in [Task -> 0 .. 1]
    BY <1>8, <2>1, <2>2 DEF HandleTake
  <2>4. pc' \in [Consumer -> PcLabels] /\ current' \in [Consumer -> Task \cup {NoTask}]
    BY <1>8, <2>1 DEF HandleTake
  <2> QED BY <1>8, <2>1, <2>3, <2>4 DEF HandleTake
<1>9. ASSUME NEW c \in Consumer, HandleTakeEmpty(c) PROVE TypeOK'
  BY <1>9 DEF HandleTakeEmpty
<1>10. ASSUME NEW c \in Consumer, HandleRun(c) PROVE TypeOK'
  BY <1>10 DEF HandleRun
<1>11. ASSUME NEW c \in Consumer, NEW f \in BOOLEAN, StopTest(c, f) PROVE TypeOK'
  BY <1>11 DEF StopTest
<1>12. ASSUME NEW c \in Consumer, StopFlag(c) PROVE TypeOK'
  BY <1>12 DEF StopFlag
<1>13. ASSUME NEW s \in Stopper, StopSignal(s) PROVE TypeOK'
  BY <1>13 DEF StopSignal
<1>14. ASSUME NEW s \in Stopper, StopJoin(s) PROVE TypeOK'
  BY <1>14 DEF StopJoin
<1>15. ASSUME NEW s \in Stopper, StopTimeout(s) PROVE TypeOK'
  BY <1>15 DEF StopTimeout
<1>16. ASSUME NEW s \in Stopper, StopDrain(s) PROVE TypeOK'
  BY <1>16 DEF StopDrain
<1>17. ASSUME NEW s \in Stopper, StopDestroy(s) PROVE TypeOK'
  BY <1>17 DEF StopDestroy
<1>18. CASE UNCHANGED vars
  BY <1>18 DEF vars
<1> QED
  BY <1>1, <1>2, <1>3, <1>4, <1>5, <1>6, <1>7, <1>8, <1>9,
     <1>10, <1>11, <1>12, <1>13, <1>14, <1>15, <1>16, <1>17, <1>18
  DEF Next, WorkerStep, StopperStep, Handle

(* Every step keeps a stopper where its outcome says it is.               *)
LEMMA StopperInvStep ==
  ASSUME TypeOK, StopperInv, [Next]_vars
  PROVE  StopperInv'
<1> USE WorkerAssumption DEF TypeOK, StopperInv, Consumer, Goto, HandlerReturn
<1>1. CASE Start
  BY <1>1 DEF Start
<1>2. ASSUME NEW t \in Task, PostCheck(t) PROVE StopperInv'
  BY <1>2 DEF PostCheck
<1>3. ASSUME NEW t \in Task, PostPush(t) PROVE StopperInv'
  BY <1>3 DEF PostPush
<1>4. ASSUME NEW t \in Task, PostSignal(t) PROVE StopperInv'
  BY <1>4 DEF PostSignal
<1>5. CASE WorkerTest
  BY <1>5 DEF WorkerTest
<1>6. CASE WorkerWait
  BY <1>6 DEF WorkerWait
<1>7. ASSUME NEW c \in Consumer, HandleTest(c) PROVE StopperInv'
  BY <1>7 DEF HandleTest
<1>8. ASSUME NEW c \in Consumer, HandleTake(c) PROVE StopperInv'
  BY <1>8 DEF HandleTake
<1>9. ASSUME NEW c \in Consumer, HandleTakeEmpty(c) PROVE StopperInv'
  BY <1>9 DEF HandleTakeEmpty
<1>10. ASSUME NEW c \in Consumer, HandleRun(c) PROVE StopperInv'
  BY <1>10 DEF HandleRun
<1>11. ASSUME NEW c \in Consumer, NEW f \in BOOLEAN, StopTest(c, f) PROVE StopperInv'
  BY <1>11 DEF StopTest
<1>12. ASSUME NEW c \in Consumer, StopFlag(c) PROVE StopperInv'
  BY <1>12 DEF StopFlag
<1>13. ASSUME NEW s \in Stopper, StopSignal(s) PROVE StopperInv'
  BY <1>13 DEF StopSignal
<1>14. ASSUME NEW s \in Stopper, StopJoin(s) PROVE StopperInv'
  BY <1>14 DEF StopJoin
<1>15. ASSUME NEW s \in Stopper, StopTimeout(s) PROVE StopperInv'
  BY <1>15 DEF StopTimeout
<1>16. ASSUME NEW s \in Stopper, StopDrain(s) PROVE StopperInv'
  BY <1>16 DEF StopDrain
<1>17. ASSUME NEW s \in Stopper, StopDestroy(s) PROVE StopperInv'
  BY <1>17 DEF StopDestroy
<1>18. CASE UNCHANGED vars
  BY <1>18 DEF vars
<1> QED
  BY <1>1, <1>2, <1>3, <1>4, <1>5, <1>6, <1>7, <1>8, <1>9,
     <1>10, <1>11, <1>12, <1>13, <1>14, <1>15, <1>16, <1>17, <1>18
  DEF Next, WorkerStep, StopperStep, Handle

(* A step neither loses a task from the queue nor duplicates one there.    *)
LEMMA QueueInvStep ==
  ASSUME TypeOK, QueueInv, [Next]_vars
  PROVE  QueueInv'
<1> USE WorkerAssumption DEF TypeOK, QueueInv, Consumer, Goto
<1>1. CASE Start
  <2>1. task_queue_' = << >> /\ post' = post /\ runs' = runs /\ thread_'
    BY <1>1 DEF Start
  <2>2. \A t \in Task : post[t] \in {"new", "refused"}
    BY <1>1 DEF Start
  <2>3. 1 .. Len(task_queue_') = {}
    BY <2>1
  <2> QED BY <2>1, <2>2, <2>3
<1>2. ASSUME NEW t \in Task, PostCheck(t) PROVE QueueInv'
  BY <1>2 DEF PostCheck
<1>3. ASSUME NEW t \in Task, PostPush(t) PROVE QueueInv'
  <2>1. /\ Len(task_queue_) \in Nat
        /\ Len(task_queue_') = Len(task_queue_) + 1
        /\ task_queue_'[Len(task_queue_) + 1] = t
        /\ \A i \in 1 .. Len(task_queue_) : task_queue_'[i] = task_queue_[i]
    BY <1>3, AppendAtEnd DEF PostPush
  <2>2. \A i \in 1 .. Len(task_queue_) : task_queue_[i] # t
    BY <1>3 DEF PostPush
  <2>3. thread_ /\ runs' = runs /\ runs[t] = 0 /\ thread_' = thread_
    BY <1>3 DEF PostPush
  <2>4. post' = [post EXCEPT ![t] = "pushed"]
    BY <1>3 DEF PostPush
  <2>5. \A i \in 1 .. Len(task_queue_') :
           i = Len(task_queue_) + 1 \/ i \in 1 .. Len(task_queue_)
    BY <2>1
  <2>6. \A i, j \in 1 .. Len(task_queue_') :
           task_queue_'[i] = task_queue_'[j] => i = j
    BY <2>1, <2>2, <2>5
  <2>7. \A i \in 1 .. Len(task_queue_') :
           /\ runs'[task_queue_'[i]] = 0
           /\ post'[task_queue_'[i]] \in {"pushed", "accepted", "unsignalled"}
    BY <2>1, <2>3, <2>4, <2>5
  <2>8. \A u \in Task :
           post'[u] \in {"pushed", "accepted", "unsignalled"} /\ runs'[u] = 0
           => \E i \in 1 .. Len(task_queue_') : task_queue_'[i] = u
    BY <2>1, <2>3, <2>4
  <2> QED BY <2>3, <2>4, <2>6, <2>7, <2>8
<1>4. ASSUME NEW t \in Task, PostSignal(t) PROVE QueueInv'
  <2>1. /\ post[t] = "pushed"
        /\ post'[t] \in {"accepted", "unsignalled"}
        /\ \A u \in Task : u # t => post'[u] = post[u]
    BY <1>4 DEF PostSignal
  <2>2. task_queue_' = task_queue_ /\ runs' = runs /\ thread_' = thread_
    BY <1>4 DEF PostSignal
  <2>3. thread_ /\ \A i \in 1 .. Len(task_queue_) : task_queue_[i] \in Task
    BY <2>1
  <2> QED BY <2>1, <2>2, <2>3
<1>5. CASE WorkerTest
  BY <1>5 DEF WorkerTest
<1>6. CASE WorkerWait
  BY <1>6 DEF WorkerWait
<1>7. ASSUME NEW c \in Consumer, HandleTest(c) PROVE QueueInv'
  BY <1>7 DEF HandleTest, HandlerReturn
<1>8. ASSUME NEW c \in Consumer, HandleTake(c) PROVE QueueInv'
  <2> DEFINE h == Head(task_queue_)
  <2>1. /\ task_queue_ \in Seq(Task) /\ task_queue_ # << >>
        /\ task_queue_' = Tail(task_queue_)
        /\ runs' = [runs EXCEPT ![h] = @ + 1]
        /\ post' = post /\ thread_' = thread_
    BY <1>8 DEF HandleTake
  <2>2. /\ h \in Task /\ h = task_queue_[1]
        /\ 1 \in 1 .. Len(task_queue_)
        /\ Len(task_queue_') = Len(task_queue_) - 1
        /\ \A i \in 1 .. Len(task_queue_) - 1 :
             /\ i + 1 \in 1 .. Len(task_queue_)
             /\ task_queue_'[i] = task_queue_[i + 1]
        /\ \A i \in 1 .. Len(task_queue_) :
             \/ i = 1
             \/ /\ i - 1 \in 1 .. Len(task_queue_) - 1
                /\ task_queue_'[i - 1] = task_queue_[i]
    BY <2>1, HeadTail
  <2>3. /\ \A i, j \in 1 .. Len(task_queue_) :
             task_queue_[i] = task_queue_[j] => i = j
        /\ \A i \in 1 .. Len(task_queue_) :
             /\ task_queue_[i] \in Task
             /\ runs[task_queue_[i]] = 0
             /\ post[task_queue_[i]] \in {"pushed", "accepted", "unsignalled"}
    BY <2>1
  <2>4. Len(task_queue_) \in Nat
    BY <2>1
  <2> HIDE DEF h
  <2>5. \A i \in 1 .. Len(task_queue_) - 1 : task_queue_'[i] # h
    BY <2>2, <2>3, <2>4
  <2>6. \A i, j \in 1 .. Len(task_queue_') :
           task_queue_'[i] = task_queue_'[j] => i = j
    BY <2>2, <2>3, <2>4
  <2>7. \A i \in 1 .. Len(task_queue_') :
           /\ runs'[task_queue_'[i]] = 0
           /\ post'[task_queue_'[i]] \in {"pushed", "accepted", "unsignalled"}
    BY <2>1, <2>2, <2>3, <2>4, <2>5
  <2>8. runs'[h] = 1 /\ \A u \in Task : u # h => runs'[u] = runs[u]
    BY <2>1, <2>2, <2>3
  <2>9. \A u \in Task :
           post'[u] \in {"pushed", "accepted", "unsignalled"} /\ runs'[u] = 0
           => \E i \in 1 .. Len(task_queue_') : task_queue_'[i] = u
    <3> SUFFICES ASSUME NEW u \in Task, runs'[u] = 0,
                        post[u] \in {"pushed", "accepted", "unsignalled"}
                 PROVE  \E i \in 1 .. Len(task_queue_') : task_queue_'[i] = u
      BY <2>1
    <3>1. u # h /\ runs[u] = 0
      BY <2>8
    <3>2. PICK i \in 1 .. Len(task_queue_) : task_queue_[i] = u
      BY <3>1
    <3>3. i - 1 \in 1 .. Len(task_queue_') /\ task_queue_'[i - 1] = u
      BY <2>2, <2>4, <3>1, <3>2
    <3> QED BY <3>3
  <2>10. \A u \in Task :
            post'[u] \in {"new", "checked", "refused"} => runs'[u] = 0
    BY <2>1, <2>2, <2>3, <2>8
  <2>11. thread_ => thread_'
    BY <2>1
  <2>12. thread_
    BY <2>2, <2>3
  <2> QED BY <2>6, <2>7, <2>9, <2>10, <2>11, <2>12
<1>9. ASSUME NEW c \in Consumer, HandleTakeEmpty(c) PROVE QueueInv'
  BY <1>9 DEF HandleTakeEmpty
<1>10. ASSUME NEW c \in Consumer, HandleRun(c) PROVE QueueInv'
  BY <1>10 DEF HandleRun
<1>11. ASSUME NEW c \in Consumer, NEW f \in BOOLEAN, StopTest(c, f) PROVE QueueInv'
  BY <1>11 DEF StopTest
<1>12. ASSUME NEW c \in Consumer, StopFlag(c) PROVE QueueInv'
  BY <1>12 DEF StopFlag
<1>13. ASSUME NEW s \in Stopper, StopSignal(s) PROVE QueueInv'
  BY <1>13 DEF StopSignal
<1>14. ASSUME NEW s \in Stopper, StopJoin(s) PROVE QueueInv'
  BY <1>14 DEF StopJoin
<1>15. ASSUME NEW s \in Stopper, StopTimeout(s) PROVE QueueInv'
  BY <1>15 DEF StopTimeout
<1>16. ASSUME NEW s \in Stopper, StopDrain(s) PROVE QueueInv'
  BY <1>16 DEF StopDrain
<1>17. ASSUME NEW s \in Stopper, StopDestroy(s) PROVE QueueInv'
  BY <1>17 DEF StopDestroy
<1>18. CASE UNCHANGED vars
  BY <1>18 DEF vars
<1> QED
  BY <1>1, <1>2, <1>3, <1>4, <1>5, <1>6, <1>7, <1>8, <1>9,
     <1>10, <1>11, <1>12, <1>13, <1>14, <1>15, <1>16, <1>17, <1>18
  DEF Next, WorkerStep, StopperStep, Handle

(* Once two drainers are possible they stay possible.                    *)
LEMMA TwoDrainersStable ==
  ASSUME TypeOK, StopperInv, TwoDrainers, [Next]_vars
  PROVE  TwoDrainers'
<1> USE WorkerAssumption DEF TypeOK, StopperInv, TwoDrainers, Consumer, Goto
<1>1. CASE Start
  BY <1>1 DEF Start
<1>2. ASSUME NEW t \in Task, PostCheck(t) PROVE TwoDrainers'
  BY <1>2 DEF PostCheck
<1>3. ASSUME NEW t \in Task, PostPush(t) PROVE TwoDrainers'
  BY <1>3 DEF PostPush
<1>4. ASSUME NEW t \in Task, PostSignal(t) PROVE TwoDrainers'
  BY <1>4 DEF PostSignal
<1>5. CASE WorkerTest
  BY <1>5 DEF WorkerTest
<1>6. CASE WorkerWait
  BY <1>6 DEF WorkerWait
<1>7. ASSUME NEW c \in Consumer, HandleTest(c) PROVE TwoDrainers'
  BY <1>7 DEF HandleTest
<1>8. ASSUME NEW c \in Consumer, HandleTake(c) PROVE TwoDrainers'
  BY <1>8 DEF HandleTake
<1>9. ASSUME NEW c \in Consumer, HandleTakeEmpty(c) PROVE TwoDrainers'
  BY <1>9 DEF HandleTakeEmpty
<1>10. ASSUME NEW c \in Consumer, HandleRun(c) PROVE TwoDrainers'
  BY <1>10 DEF HandleRun
<1>11. ASSUME NEW c \in Consumer, NEW f \in BOOLEAN, StopTest(c, f) PROVE TwoDrainers'
  BY <1>11 DEF StopTest
<1>12. ASSUME NEW c \in Consumer, StopFlag(c) PROVE TwoDrainers'
  BY <1>12 DEF StopFlag
<1>13. ASSUME NEW s \in Stopper, StopSignal(s) PROVE TwoDrainers'
  BY <1>13 DEF StopSignal
<1>14. ASSUME NEW s \in Stopper, StopJoin(s) PROVE TwoDrainers'
  BY <1>14 DEF StopJoin
<1>15. ASSUME NEW s \in Stopper, StopTimeout(s) PROVE TwoDrainers'
  BY <1>15 DEF StopTimeout
<1>16. ASSUME NEW s \in Stopper, StopDrain(s) PROVE TwoDrainers'
  BY <1>16 DEF StopDrain
<1>17. ASSUME NEW s \in Stopper, StopDestroy(s) PROVE TwoDrainers'
  BY <1>17 DEF StopDestroy
<1>18. CASE UNCHANGED vars
  BY <1>18 DEF vars
<1> QED
  BY <1>1, <1>2, <1>3, <1>4, <1>5, <1>6, <1>7, <1>8, <1>9,
     <1>10, <1>11, <1>12, <1>13, <1>14, <1>15, <1>16, <1>17, <1>18
  DEF Next, WorkerStep, StopperStep, Handle

(* While one thread drains, what it saw in the queue is still there when  *)
(* it takes it: nobody else pops.                                          *)
LEMMA TakeInvStep ==
  ASSUME TypeOK, StopperInv, TakeInv, TwoDrainers => TwoDrainers',
         [Next]_vars
  PROVE  TakeInv'
<1> USE WorkerAssumption DEF TypeOK, StopperInv, TakeInv, Consumer, Goto
<1>1. CASE Start
  BY <1>1 DEF Start
<1>2. ASSUME NEW t \in Task, PostCheck(t) PROVE TakeInv'
  BY <1>2 DEF PostCheck
<1>3. ASSUME NEW t \in Task, PostPush(t) PROVE TakeInv'
  <2>1. task_queue_' # << >>
    BY <1>3 DEF PostPush
  <2> QED BY <1>3, <2>1 DEF PostPush
<1>4. ASSUME NEW t \in Task, PostSignal(t) PROVE TakeInv'
  BY <1>4 DEF PostSignal
<1>5. CASE WorkerTest
  BY <1>5 DEF WorkerTest
<1>6. CASE WorkerWait
  BY <1>6 DEF WorkerWait
<1>7. ASSUME NEW c \in Consumer, HandleTest(c) PROVE TakeInv'
  BY <1>7 DEF HandleTest, HandlerReturn
<1>8. ASSUME NEW c \in Consumer, HandleTake(c) PROVE TakeInv'
  <2>1. \A d \in Consumer : d # c /\ pc[d] = "take" => TwoDrainers
    BY <1>8, OneDrainer DEF HandleTake
  <2>2. \A d \in Consumer : pc'[d] = IF d = c THEN "run" ELSE pc[d]
    BY <1>8 DEF HandleTake
  <2> QED BY <2>1, <2>2
<1>9. ASSUME NEW c \in Consumer, HandleTakeEmpty(c) PROVE TakeInv'
  BY <1>9 DEF HandleTakeEmpty
<1>10. ASSUME NEW c \in Consumer, HandleRun(c) PROVE TakeInv'
  BY <1>10 DEF HandleRun, HandlerReturn
<1>11. ASSUME NEW c \in Consumer, NEW f \in BOOLEAN, StopTest(c, f) PROVE TakeInv'
  BY <1>11 DEF StopTest
<1>12. ASSUME NEW c \in Consumer, StopFlag(c) PROVE TakeInv'
  BY <1>12 DEF StopFlag
<1>13. ASSUME NEW s \in Stopper, StopSignal(s) PROVE TakeInv'
  BY <1>13 DEF StopSignal
<1>14. ASSUME NEW s \in Stopper, StopJoin(s) PROVE TakeInv'
  BY <1>14 DEF StopJoin
<1>15. ASSUME NEW s \in Stopper, StopTimeout(s) PROVE TakeInv'
  BY <1>15 DEF StopTimeout
<1>16. ASSUME NEW s \in Stopper, StopDrain(s) PROVE TakeInv'
  BY <1>16 DEF StopDrain
<1>17. ASSUME NEW s \in Stopper, StopDestroy(s) PROVE TakeInv'
  BY <1>17 DEF StopDestroy
<1>18. CASE UNCHANGED vars
  BY <1>18 DEF vars
<1> QED
  BY <1>1, <1>2, <1>3, <1>4, <1>5, <1>6, <1>7, <1>8, <1>9,
     <1>10, <1>11, <1>12, <1>13, <1>14, <1>15, <1>16, <1>17, <1>18
  DEF Next, WorkerStep, StopperStep, Handle

(* A stopper that finishes with finish set leaves an empty queue, so each  *)
(* task it promised to run has been taken.                                 *)
LEMMA DrainInvStep ==
  ASSUME TypeOK, StopperInv, QueueInv, DrainInv, [Next]_vars
  PROVE  DrainInv'
<1> USE WorkerAssumption DEF TypeOK, StopperInv, DrainInv, Consumer, Goto
<1>1. CASE Start
  BY <1>1 DEF Start
<1>2. ASSUME NEW t \in Task, PostCheck(t) PROVE DrainInv'
  BY <1>2 DEF PostCheck
<1>3. ASSUME NEW t \in Task, PostPush(t) PROVE DrainInv'
  BY <1>3 DEF PostPush
<1>4. ASSUME NEW t \in Task, PostSignal(t) PROVE DrainInv'
  BY <1>4 DEF PostSignal
<1>5. CASE WorkerTest
  BY <1>5 DEF WorkerTest
<1>6. CASE WorkerWait
  BY <1>6 DEF WorkerWait
<1>7. ASSUME NEW c \in Consumer, HandleTest(c) PROVE DrainInv'
  <2>1. CASE c = Worker
    BY <1>7, <2>1 DEF HandleTest, HandlerReturn
  <2>2. CASE c \in Stopper /\ task_queue_ # << >>
    BY <1>7, <2>2 DEF HandleTest, HandlerReturn
  <2>3. CASE c \in Stopper /\ task_queue_ = << >>
    <3>1. \A t \in Task : post[t] = "accepted" => runs[t] > 0
      BY <2>3 DEF QueueInv
    <3> QED BY <1>7, <2>3, <3>1 DEF HandleTest, HandlerReturn
  <2> QED BY <2>1, <2>2, <2>3
<1>8. ASSUME NEW c \in Consumer, HandleTake(c) PROVE DrainInv'
  <2>1. \A t \in Task : runs[t] > 0 => runs'[t] > 0
    BY <1>8, HeadTail DEF HandleTake
  <2> QED BY <1>8, <2>1 DEF HandleTake
<1>9. ASSUME NEW c \in Consumer, HandleTakeEmpty(c) PROVE DrainInv'
  BY <1>9 DEF HandleTakeEmpty
<1>10. ASSUME NEW c \in Consumer, HandleRun(c) PROVE DrainInv'
  BY <1>10 DEF HandleRun
<1>11. ASSUME NEW c \in Consumer, NEW f \in BOOLEAN, StopTest(c, f) PROVE DrainInv'
  BY <1>11 DEF StopTest
<1>12. ASSUME NEW c \in Consumer, StopFlag(c) PROVE DrainInv'
  BY <1>12 DEF StopFlag
<1>13. ASSUME NEW s \in Stopper, StopSignal(s) PROVE DrainInv'
  BY <1>13 DEF StopSignal
<1>14. ASSUME NEW s \in Stopper, StopJoin(s) PROVE DrainInv'
  BY <1>14 DEF StopJoin
<1>15. ASSUME NEW s \in Stopper, StopTimeout(s) PROVE DrainInv'
  BY <1>15 DEF StopTimeout
<1>16. ASSUME NEW s \in Stopper, StopDrain(s) PROVE DrainInv'
  BY <1>16 DEF StopDrain
<1>17. ASSUME NEW s \in Stopper, StopDestroy(s) PROVE DrainInv'
  BY <1>17 DEF StopDestroy
<1>18. CASE UNCHANGED vars
  BY <1>18 DEF vars
<1> QED
  BY <1>1, <1>2, <1>3, <1>4, <1>5, <1>6, <1>7, <1>8, <1>9,
     <1>10, <1>11, <1>12, <1>13, <1>14, <1>15, <1>16, <1>17, <1>18
  DEF Next, WorkerStep, StopperStep, Handle

(* The invariant is inductive.                                             *)
LEMMA NextIInv == IInv /\ [Next]_vars => IInv'
BY TypeStep, StopperInvStep, QueueInvStep, TwoDrainersStable, TakeInvStep,
   DrainInvStep DEF IInv

(* The strengthened invariant holds in every state of the specification.   *)
THEOREM Invariance == Spec => []IInv
<1>1. Init => IInv
  BY InitIInv
<1>2. IInv /\ [Next]_vars => IInv'
  BY NextIInv
<1> QED BY <1>1, <1>2, PTL DEF Spec

-----------------------------------------------------------------------------
(* The fields of Thread keep their types and every task is taken from the  *)
(* queue at most once, whatever PostTask, Stop and ThreadProc interleave.  *)
THEOREM TypeCorrect == Spec => []TypeOK
<1>1. IInv => TypeOK
  BY DEF IInv
<1> QED BY <1>1, Invariance, PTL

(* Two tasks of a Thread never run at once unless a wait of Stop has timed *)
(* out or two threads are in Stop: the serialisation OBS relies on.        *)
THEOREM Serialised == Spec => []TasksDoNotOverlap
<1>1. IInv => TasksDoNotOverlap
  <2> SUFFICES ASSUME IInv, NEW c \in Consumer, NEW d \in Consumer, c # d,
                      pc[c] = "run", pc[d] = "run", ~ TwoDrainers
               PROVE  FALSE
    BY DEF TasksDoNotOverlap
  <2> QED BY OneDrainer DEF IInv
<1> QED BY <1>1, Invariance, PTL

(* HandleNewTaskEvent never pops an empty queue under the same condition,  *)
(* although its empty() test is made without the lock.                     *)
THEOREM NoUndefinedPop == Spec => []NoTakeFromEmptyQueue
<1>1. IInv => NoTakeFromEmptyQueue
  BY DEF IInv, TakeInv, NoTakeFromEmptyQueue
<1> QED BY <1>1, Invariance, PTL

(* Stop(true) has run every task accepted before it, even when its wait    *)
(* for the worker timed out.                                               *)
THEOREM StopDrains == Spec => []StopFinishesTasks
<1>1. IInv => StopFinishesTasks
  BY DEF IInv, DrainInv, StopFinishesTasks
<1> QED BY <1>1, Invariance, PTL

(* After a Stop that joined the worker no task is running anywhere.        *)
THEOREM Quiet == Spec => []JoinedMeansQuiet
<1>1. IInv => JoinedMeansQuiet
  <2> SUFFICES ASSUME IInv, NEW s \in Stopper, pc[s] = "done",
                      wait[s] = "joined", stops \cap Stopper = {s},
                      NEW c \in Consumer, pc[c] \in {"handle", "take", "run"}
               PROVE  FALSE
    BY DEF JoinedMeansQuiet
  <2>1. CASE c = Worker
    BY <2>1 DEF IInv, StopperInv
  <2>2. CASE c \in Stopper
    BY <2>2 DEF IInv, StopperInv
  <2> QED BY <2>1, <2>2 DEF Consumer
<1> QED BY <1>1, Invariance, PTL
=============================================================================
