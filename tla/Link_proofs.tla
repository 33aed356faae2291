----------------------------- MODULE Link_proofs -----------------------------
(***************************************************************************)
(* Theorems about Link, for every number of commands and every size of the *)
(* channels and pipes.  A command on its way to the receiver is Carried,   *)
(* one whose answer is on its way back, or has arrived, is Answered.  The  *)
(* invariant that matters counts what is carried, across two processes and *)
(* four queues: a client that waits never has two commands on the way.     *)
(***************************************************************************)
EXTENDS Link, TLAPS

Message == Command \cup {SHUTDOWN}

In(c, queue) == \E i \in 1 .. Len(queue) : queue[i] = c

Carried(c) ==
  \/ In(c, commands)
  \/ writer = "write" /\ writing = c
  \/ In(c, stdin) \/ In(c, batch)

Carrying ==
  Len(commands) + (IF writer = "write" THEN 1 ELSE 0) + Len(stdin) + Len(batch)

Answered(c) ==
  c \in received \/ In(c, events) \/ In(c, stdout) \/ In(c, task_queue_)

(* The writer has a command while it writes, the receiver, which is not    *)
(* there before Listen, while it handles one.                              *)
HandInv ==
  /\ writer = "write" => writing \in Message
  /\ receiver # "data" => batch = << >>
  /\ main \in {"connect", "listen"} => receiver = "none"

(* Nothing is carried or answered that was not sent.                       *)
SentInv == \A c \in Message : Carried(c) \/ Answered(c) => c <= sent

(* Until the client has sent a command early: one command is carried, and  *)
(* none any more when the last one is answered; so none was merged.        *)
OneInv ==
  ~ early =>
    /\ Carrying <= 1
    /\ recorder \in {"open", "shutdown"} /\ (sent = 0 \/ Answered(sent)) => Carrying = 0
    /\ \A c \in Command : fate[c] # "merged"

(* Only the receiver notifies a main thread that waits, and it handles no  *)
(* command after that.                                                     *)
WokenInv ==
  woken => /\ main \in {"wait", "destroy", "return"}
           /\ receiver \in {"disconnected", "none"}

IInv == TypeOK /\ HandInv /\ SentInv /\ OneInv /\ WokenInv

-----------------------------------------------------------------------------
(* A channel or a pipe, after something was put in ...                     *)
LEMMA AppendEffect ==
  ASSUME NEW S, NEW queue \in Seq(S), NEW c \in S
  PROVE  /\ Append(queue, c) \in Seq(S)
         /\ Len(Append(queue, c)) = Len(queue) + 1
         /\ \A d : In(d, Append(queue, c)) <=> In(d, queue) \/ d = c
<1>1. /\ Append(queue, c) \in Seq(S)
      /\ Len(Append(queue, c)) = Len(queue) + 1 /\ Len(queue) \in Nat
      /\ Append(queue, c)[Len(queue) + 1] = c
      /\ \A i \in 1 .. Len(queue) : Append(queue, c)[i] = queue[i]
  OBVIOUS
<1>2. \A i \in 1 .. Len(queue) + 1 : i \in 1 .. Len(queue) \/ i = Len(queue) + 1
  BY <1>1
<1>3. Len(queue) + 1 \in 1 .. Len(queue) + 1 /\ 1 .. Len(queue) \subseteq 1 .. Len(queue) + 1
  BY <1>1
<1> QED BY <1>1, <1>2, <1>3 DEF In

(* ... and after the first was taken out.                                  *)
LEMMA TakeEffect ==
  ASSUME NEW S, NEW queue \in Seq(S), queue # << >>
  PROVE  /\ Tail(queue) \in Seq(S) /\ Head(queue) \in S
         /\ Len(queue) \in Nat \ {0} /\ Len(Tail(queue)) = Len(queue) - 1
         /\ In(Head(queue), queue)
         /\ \A d : In(d, Tail(queue)) => In(d, queue)
<1>1. /\ Len(queue) \in Nat \ {0} /\ Tail(queue) \in Seq(S) /\ Head(queue) = queue[1]
      /\ Len(Tail(queue)) = Len(queue) - 1 /\ Head(queue) \in S
      /\ \A i \in 1 .. Len(queue) - 1 : Tail(queue)[i] = queue[i + 1]
  OBVIOUS
<1>2. 1 \in 1 .. Len(queue) /\ \A i \in 1 .. Len(queue) - 1 : i + 1 \in 1 .. Len(queue)
  BY <1>1
<1> QED BY <1>1, <1>2 DEF In

(* What an empty queue is.                                                 *)
LEMMA EmptyQueue ==
  /\ Len(<< >>) = 0 /\ \A c : ~ In(c, << >>)
  /\ \A queue : Len(queue) = 1 => queue # << >>
<1>1. Len(<< >>) = 0
  OBVIOUS
<1> QED BY <1>1 DEF In

(* The invariant holds at the start.                                       *)
LEMMA InitIInv == Init => IInv
<1> SUFFICES ASSUME Init PROVE IInv
  OBVIOUS
<1> USE LinkAssumption, EmptyQueue DEF Init
<1>1. TypeOK
  <2>1. \A S : << >> \in Seq(S)
    OBVIOUS
  <2>2. early \in BOOLEAN /\ {running_, woken, initialized_} \subseteq BOOLEAN
    OBVIOUS
  <2>3. {reader, manager} \subseteq {"on", "off", "ended"} /\ received \subseteq Command
    OBVIOUS
  <2>4. fate \in [Command \cup {SHUTDOWN} -> {"none", "merged", "unknown", "performed"}]
    OBVIOUS
  <2>5. sent \in 0 .. MaxCommands /\ 0 <= BufferSize /\ 0 <= PipeSize
    OBVIOUS
  <2> QED BY <2>1, <2>2, <2>3, <2>4, <2>5 DEF TypeOK
<1>2. HandInv /\ WokenInv
  BY DEF HandInv, WokenInv
<1>3. SentInv
  BY DEF SentInv, Carried, Answered
<1>4. OneInv
  BY DEF OneInv, Carrying, Command
<1> QED BY <1>1, <1>2, <1>3, <1>4 DEF IInv

(* The types of what the client, the pipes and ascent-obs keep.            *)
ClientOK ==
  /\ recorder \in {"open", "shutdown", "manager", "join", "killed", "done",
                   "dropped", "crashed"}
  /\ sent \in 0 .. MaxCommands /\ early \in BOOLEAN
  /\ commands \in Seq(Message) /\ Len(commands) <= BufferSize
  /\ writer \in {"recv", "write", "sleep", "ended"}
  /\ writing \in Message \cup {NoCommand}

BackOK ==
  /\ {reader, manager} \subseteq {"on", "off", "ended"}
  /\ events \in Seq(Command) /\ Len(events) <= BufferSize
  /\ received \subseteq Command
  /\ stdout \in Seq(Command) /\ Len(stdout) <= PipeSize
  /\ task_queue_ \in Seq(Command)

ServerOK ==
  /\ process \in {"on", "crashed", "killed", "exited", "terminated"}
  /\ main \in {"connect", "listen", "run", "lock", "wait", "destroy", "return"}
  /\ {running_, woken, initialized_} \subseteq BOOLEAN
  /\ receiver \in {"none", "read", "data", "stop", "drain", "quit", "disconnected"}
  /\ thread_ \in {"none", "on", "stopping"}

ReceivedOK ==
  /\ stdin \in Seq(Message) /\ Len(stdin) <= PipeSize
  /\ batch \in Seq(Message) /\ Len(batch) <= PipeSize
  /\ fate \in [Message -> {"none", "merged", "unknown", "performed"}]

(* The parts of TypeOK, so that a proof sees only those it needs.          *)
LEMMA TypeParts ==
  /\ TypeOK <=> ClientOK /\ BackOK /\ ServerOK /\ ReceivedOK
  /\ TypeOK' <=> ClientOK' /\ BackOK' /\ ServerOK' /\ ReceivedOK'
BY DEF TypeOK, ClientOK, BackOK, ServerOK, ReceivedOK, Message

(* Sending a command, and doing what was received.                         *)
LEMMA PushEffect ==
  ASSUME ClientOK, NEW c \in Message, Push(c)
  PROVE  /\ commands' \in Seq(Message) /\ Len(commands') <= BufferSize
         /\ early' \in BOOLEAN /\ (early => early')
         /\ ~ early' => sent = 0 \/ sent \in received
         /\ Len(commands') \in {Len(commands), Len(commands) + 1}
         /\ \A d : In(d, commands') => In(d, commands) \/ d = c
<1>1. /\ early' \in BOOLEAN /\ (early => early')
      /\ ~ early' => sent = 0 \/ sent \in received
  <2>1. early' = (early \/ (sent > 0 /\ sent \notin received))
    BY DEF Push
  <2>2. sent > 0 \/ sent = 0
    BY LinkAssumption DEF ClientOK
  <2>3. early' \in BOOLEAN
    BY <2>1 DEF ClientOK
  <2> QED BY <2>1, <2>2, <2>3
<1>2. CASE UNCHANGED commands
  BY <1>1, <1>2 DEF ClientOK
<1>3. CASE Len(commands) < BufferSize /\ commands' = Append(commands, c)
  BY <1>1, <1>3, AppendEffect, LinkAssumption DEF ClientOK
<1> QED BY <1>2, <1>3 DEF Push

(* The receiver is done with what it has read.                             *)
LEMMA HandledEffect ==
  ASSUME ReceivedOK, NEW what \in {"merged", "unknown", "performed"}, Handled(what)
  PROVE  /\ batch' = << >> /\ batch' \in Seq(Message) /\ Len(batch') = 0
         /\ fate' \in [Message -> {"none", "merged", "unknown", "performed"}]
         /\ what # "merged" => \A c \in Command : fate[c] # "merged" => fate'[c] # "merged"
<1> USE LinkAssumption DEF Handled, ReceivedOK, Message
<1>1. batch' = << >> /\ << >> \in Seq(Message) /\ Len(<< >>) = 0
  OBVIOUS
<1>2. fate' \in [Message -> {"none", "merged", "unknown", "performed"}]
  OBVIOUS
<1>3. what # "merged" => \A c \in Command : fate[c] # "merged" => fate'[c] # "merged"
  OBVIOUS
<1> QED BY <1>1, <1>2, <1>3

-----------------------------------------------------------------------------
(* Every step keeps the types and the sizes.                               *)
LEMMA TypeStep ==
  ASSUME TypeOK, HandInv, [Next]_vars
  PROVE  TypeOK'
<1> USE LinkAssumption
<1>0. ClientOK /\ BackOK /\ ServerOK /\ ReceivedOK
  BY TypeParts
<1> USE DEF vars, client, calls, back, server, inside, loop
<1>1. ClientOK'
  <2> USE <1>0 DEF ClientOK
  <2>1. CASE SendCommand
    <3>1. PICK c \in {sent + 1, SHUTDOWN} : Push(c)
      BY <2>1 DEF SendCommand
    <3>2. c \in Message /\ sent + 1 \in 0 .. MaxCommands
      BY <2>1 DEF SendCommand, Message, Command
    <3> QED BY <2>1, <3>1, <3>2, PushEffect DEF SendCommand
  <2>2. CASE ShutdownSends
    <3>1. SHUTDOWN \in Message
      BY DEF Message
    <3> QED BY <2>2, <3>1, PushEffect DEF ShutdownSends
  <2>3. CASE Shutdown \/ EndManager \/ Kill \/ ShutdownReturns \/ Dropped \/ ClientCrashes
    BY <2>3 DEF Shutdown, EndManager, Kill, ShutdownReturns, Dropped, ClientCrashes
  <2>4. CASE WriterTakes
    <3>1. Head(commands) \in Message /\ Tail(commands) \in Seq(Message)
          /\ Len(Tail(commands)) <= BufferSize
      BY <2>4, TakeEffect DEF WriterTakes
    <3> QED BY <2>4, <3>1 DEF WriterTakes
  <2>5. CASE WriterEnds \/ WriterWrites \/ WriterWakes
    BY <2>5 DEF WriterEnds, WriterWrites, WriterWakes
  <2>6. CASE UNCHANGED client
    BY <2>6
  <2> QED
    BY <2>1, <2>2, <2>3, <2>4, <2>5, <2>6
       DEF Next, ClientGoesOn, Writer, Reader, Manager, Main, Receiver,
           ReaderReads, ReaderEnds, ManagerTakes, ManagerEnds, Connect,
           Listen, Run, RunReturns, Destroy, Receive, ReceiveEnd,
           IgnoreMerged, IgnoreUnknown, HandleCommand, HandleShutdown,
           StopNow, ShutdownQuits, Disconnected, SendOnWorkerThread,
           ServerCrashes
<1>2. BackOK'
  <2> USE <1>0 DEF BackOK
  <2>1. CASE EndManager \/ Dropped \/ ClientCrashes \/ ReaderEnds \/ ManagerEnds
    BY <2>1 DEF EndManager, Dropped, ClientCrashes, ReaderEnds, ManagerEnds
  <2>2. CASE ReaderReads
    <3>1. Head(stdout) \in Command /\ Tail(stdout) \in Seq(Command)
          /\ Len(Tail(stdout)) <= PipeSize
      BY <2>2, TakeEffect DEF ReaderReads
    <3>2. Append(events, Head(stdout)) \in Seq(Command)
          /\ Len(Append(events, Head(stdout))) = Len(events) + 1
      BY <3>1, AppendEffect
    <3>3. (reader' = reader \/ reader' = "ended") /\ UNCHANGED << manager, received, task_queue_ >>
      BY <2>2 DEF ReaderReads
    <3>4. events' \in Seq(Command) /\ Len(events') <= BufferSize
      <4>1. CASE UNCHANGED events
        BY <4>1
      <4>2. CASE Len(events) < BufferSize /\ events' = Append(events, Head(stdout))
        BY <3>2, <4>2
      <4> QED BY <2>2, <4>1, <4>2 DEF ReaderReads
    <3>5. stdout' = Tail(stdout)
      BY <2>2 DEF ReaderReads
    <3> QED BY <3>1, <3>3, <3>4, <3>5
  <2>3. CASE ManagerTakes
    <3>1. Head(events) \in Command /\ Tail(events) \in Seq(Command)
          /\ Len(Tail(events)) <= BufferSize
      BY <2>3, TakeEffect DEF ManagerTakes
    <3> QED BY <2>3, <3>1 DEF ManagerTakes
  <2>4. CASE HandleCommand
    <3>1. Head(batch) \in Command
      <4>1. batch \in Seq(Message) /\ Len(batch) = 1 /\ Head(batch) # SHUTDOWN
        BY <1>0, <2>4 DEF HandleCommand, ReceivedOK
      <4>2. batch # << >>
        BY <4>1, EmptyQueue
      <4> QED BY <4>1, <4>2, TakeEffect DEF Message
    <3>2. task_queue_' \in Seq(Command)
      BY <2>4, <3>1, AppendEffect DEF HandleCommand, Post
    <3> QED BY <2>4, <3>2 DEF HandleCommand
  <2>5. CASE SendOnWorkerThread
    <3>1. Head(task_queue_) \in Command /\ Tail(task_queue_) \in Seq(Command)
      BY <2>5, TakeEffect DEF SendOnWorkerThread
    <3>2. Append(stdout, Head(task_queue_)) \in Seq(Command)
          /\ Len(Append(stdout, Head(task_queue_))) = Len(stdout) + 1
      BY <3>1, AppendEffect
    <3>3. stdout' \in Seq(Command) /\ Len(stdout') <= PipeSize
      <4>1. CASE UNCHANGED stdout
        BY <4>1
      <4>2. CASE Len(stdout) < PipeSize /\ stdout' = Append(stdout, Head(task_queue_))
        BY <3>2, <4>2
      <4> QED BY <2>5, <4>1, <4>2 DEF SendOnWorkerThread
    <3> QED BY <2>5, <3>1, <3>3 DEF SendOnWorkerThread
  <2>6. CASE UNCHANGED << back, stdout, task_queue_ >>
    BY <2>6
  <2> QED
    BY <2>1, <2>2, <2>3, <2>4, <2>5, <2>6
       DEF Next, ClientGoesOn, Writer, Reader, Manager, Main, Receiver,
           SendCommand, Shutdown, ShutdownSends, Kill, ShutdownReturns,
           WriterTakes, WriterEnds, WriterWrites, WriterWakes, Connect,
           Listen, Run, RunReturns, Destroy, Receive, ReceiveEnd,
           IgnoreMerged, IgnoreUnknown, HandleShutdown, StopNow,
           ShutdownQuits, Disconnected, ServerCrashes
<1>3. ServerOK'
  <2> USE <1>0 DEF ServerOK
  <2>1. CASE Connect
    <3>1. woken' \in BOOLEAN /\ initialized_' \in BOOLEAN
      BY <2>1 DEF Connect, Quit
    <3> QED BY <2>1, <3>1 DEF Connect
  <2>2. CASE Listen \/ Run \/ RunReturns \/ Destroy
    BY <2>2 DEF Listen, Run, RunReturns, Destroy
  <2>3. CASE Receive \/ ReceiveEnd \/ IgnoreMerged \/ IgnoreUnknown \/ HandleCommand
    BY <2>3 DEF Receive, ReceiveEnd, IgnoreMerged, IgnoreUnknown, HandleCommand
  <2>4. CASE HandleShutdown \/ StopNow
    BY <2>4 DEF HandleShutdown, StopNow
  <2>5. CASE ShutdownQuits \/ Disconnected
    <3>1. woken' \in BOOLEAN
      BY <2>5 DEF ShutdownQuits, Disconnected, Quit
    <3> QED BY <2>5, <3>1 DEF ShutdownQuits, Disconnected
  <2>6. CASE Kill \/ ServerCrashes
    BY <2>6 DEF Kill, ServerCrashes
  <2>7. CASE UNCHANGED << process, main, running_, woken, initialized_, receiver, thread_ >>
    BY <2>7
  <2> QED
    BY <2>1, <2>2, <2>3, <2>4, <2>5, <2>6, <2>7
       DEF Next, ClientGoesOn, Writer, Reader, Manager, Main, Receiver,
           SendCommand, Shutdown, ShutdownSends, EndManager, ShutdownReturns,
           Dropped, ClientCrashes, WriterTakes, WriterEnds, WriterWrites,
           WriterWakes, ReaderReads, ReaderEnds, ManagerTakes, ManagerEnds,
           SendOnWorkerThread
<1>4. ReceivedOK'
  <2> USE <1>0 DEF ReceivedOK
  <2>1. CASE WriterWrites
    <3>1. Append(stdin, writing) \in Seq(Message)
          /\ Len(Append(stdin, writing)) = Len(stdin) + 1
      BY <2>1, AppendEffect DEF WriterWrites, HandInv
    <3> QED BY <2>1, <3>1 DEF WriterWrites
  <2>2. CASE Receive
    <3>1. << >> \in Seq(Message) /\ Len(<< >>) = 0
      OBVIOUS
    <3> QED BY <2>2, <3>1 DEF Receive
  <2>3. CASE IgnoreMerged \/ IgnoreUnknown \/ HandleCommand \/ HandleShutdown
    <3>1. PICK what \in {"merged", "unknown", "performed"} : Handled(what)
      BY <2>3 DEF IgnoreMerged, IgnoreUnknown, HandleCommand, HandleShutdown
    <3>2. UNCHANGED stdin
      BY <2>3 DEF IgnoreMerged, IgnoreUnknown, HandleCommand, HandleShutdown
    <3> QED BY <3>1, <3>2, HandledEffect
  <2>4. CASE UNCHANGED << stdin, batch, fate >>
    BY <2>4
  <2> QED
    BY <2>1, <2>2, <2>3, <2>4
       DEF Next, ClientGoesOn, Writer, Reader, Manager, Main, Receiver,
           SendCommand, Shutdown, ShutdownSends, EndManager, Kill,
           ShutdownReturns, Dropped, ClientCrashes, WriterTakes, WriterEnds,
           WriterWakes, ReaderReads, ReaderEnds, ManagerTakes, ManagerEnds,
           Connect, Listen, Run, RunReturns, Destroy, ReceiveEnd, StopNow,
           ShutdownQuits, Disconnected, SendOnWorkerThread, ServerCrashes
<1> QED BY <1>1, <1>2, <1>3, <1>4, TypeParts

(* The writer and the receiver have a command exactly while they handle    *)
(* it.                                                                     *)
LEMMA HandStep ==
  ASSUME TypeOK, HandInv, [Next]_vars
  PROVE  HandInv'
<1>0. ClientOK /\ ReceivedOK
  BY TypeParts
<1> USE <1>0 DEF HandInv, vars, client, server, inside, loop, ClientOK, ReceivedOK
<1>1. CASE WriterTakes
  BY <1>1, TakeEffect DEF WriterTakes
<1>2. CASE WriterEnds \/ WriterWrites \/ WriterWakes \/ ClientCrashes
  BY <1>2 DEF WriterEnds, WriterWrites, WriterWakes, ClientCrashes
<1>3. CASE SendCommand \/ Shutdown \/ ShutdownSends \/ EndManager \/ Kill
           \/ ShutdownReturns \/ Dropped
  BY <1>3 DEF SendCommand, Shutdown, ShutdownSends, EndManager, Kill,
     ShutdownReturns, Dropped
<1>4. CASE Reader \/ Manager \/ SendOnWorkerThread \/ ServerCrashes
  BY <1>4 DEF Reader, Manager, ReaderReads, ReaderEnds, ManagerTakes,
     ManagerEnds, SendOnWorkerThread, ServerCrashes
<1>5. CASE Main \/ RunReturns
  BY <1>5 DEF Main, Connect, Listen, Run, Destroy, RunReturns
<1>6. CASE Receive \/ ReceiveEnd \/ StopNow \/ ShutdownQuits \/ Disconnected
  BY <1>6 DEF Receive, ReceiveEnd, StopNow, ShutdownQuits, Disconnected
<1>7. CASE IgnoreMerged \/ IgnoreUnknown \/ HandleCommand \/ HandleShutdown
  BY <1>7 DEF IgnoreMerged, IgnoreUnknown, HandleCommand, HandleShutdown, Handled
<1>8. CASE UNCHANGED vars
  BY <1>8
<1> QED
  BY <1>1, <1>2, <1>3, <1>4, <1>5, <1>6, <1>7, <1>8
     DEF Next, ClientGoesOn, Writer, Receiver

(* Only a Quit that finds the main thread waiting counts, and the receiver *)
(* calls it when it has handled its last command.                          *)
LEMMA WokenStep ==
  ASSUME TypeOK, WokenInv, [Next]_vars
  PROVE  WokenInv'
<1>0. ServerOK
  BY TypeParts
<1> USE <1>0 DEF WokenInv, ServerOK, vars, server, inside, loop
<1>1. CASE Connect
  BY <1>1 DEF Connect, Quit
<1>2. CASE Listen \/ Run \/ RunReturns \/ Destroy
  BY <1>2 DEF Listen, Run, RunReturns, Destroy
<1>3. CASE Receive \/ ReceiveEnd \/ StopNow
  BY <1>3 DEF Receive, ReceiveEnd, StopNow
<1>4. CASE IgnoreMerged \/ IgnoreUnknown \/ HandleCommand \/ HandleShutdown
  BY <1>4 DEF IgnoreMerged, IgnoreUnknown, HandleCommand, HandleShutdown
<1>5. CASE ShutdownQuits \/ Disconnected
  BY <1>5 DEF ShutdownQuits, Disconnected, Quit
<1>6. CASE UNCHANGED << main, woken, receiver >>
  BY <1>6
<1> QED
  BY <1>1, <1>2, <1>3, <1>4, <1>5, <1>6
     DEF Next, ClientGoesOn, Writer, Reader, Manager, Main, Receiver,
         SendCommand, Shutdown, ShutdownSends, EndManager, Kill,
         ShutdownReturns, Dropped, ClientCrashes, WriterTakes, WriterEnds,
         WriterWrites, WriterWakes, ReaderReads, ReaderEnds, ManagerTakes,
         ManagerEnds, SendOnWorkerThread, ServerCrashes

(* How many messages there are in a place is a number.                     *)
LEMMA Numbers ==
  ASSUME TypeOK
  PROVE  /\ Len(commands) \in Nat /\ Len(stdin) \in Nat /\ Len(batch) \in Nat
         /\ Carrying \in Nat
<1>1. Len(commands) \in Nat /\ Len(stdin) \in Nat /\ Len(batch) \in Nat
  BY TypeParts DEF ClientOK, ReceivedOK
<1> QED BY <1>1 DEF Carrying

(* Nothing is carried or answered that was not before, but what the client *)
(* sends.                                                                  *)
LEMMA SentStep ==
  ASSUME TypeOK, HandInv, SentInv, [Next]_vars
  PROVE  SentInv'
<1> USE LinkAssumption
<1>0. ClientOK /\ BackOK /\ ReceivedOK
  BY TypeParts
<1>n. sent \in Nat
  BY <1>0 DEF ClientOK
<1> DEFINE Known(c) == Carried(c) \/ Answered(c)
<1>k. ASSUME \A c \in Message : Known(c)' => Known(c), UNCHANGED sent
      PROVE  SentInv'
  BY <1>k DEF SentInv
<1> HIDE DEF Known
<1> USE <1>0 DEF ClientOK, BackOK, ReceivedOK, vars, client, calls, back, server, inside
<1>p. ASSUME NEW c \in Message, Push(c), c <= sent', sent' \in {sent, sent + 1},
             UNCHANGED << writer, writing, stdin, batch, received, events, stdout, task_queue_ >>
      PROVE  SentInv'
  <2>1. \A d \in Message : Known(d)' => Known(d) \/ d = c
    BY <1>p, PushEffect DEF Known, Carried, Answered
  <2>2. sent <= sent' /\ sent' \in Nat
    BY <1>n, <1>p
  <2>3. \A d \in Message : d \in Nat
    BY DEF Message, Command, SHUTDOWN
  <2> QED BY <1>n, <1>p, <2>1, <2>2, <2>3 DEF SentInv, Known
<1>1. CASE SendCommand
  <2>1. PICK c \in {sent + 1, SHUTDOWN} : Push(c)
    BY <1>1 DEF SendCommand
  <2>2. sent' = sent + 1 /\ c \in Message /\ c <= sent'
    BY <1>1, <1>n DEF SendCommand, Message, Command, SHUTDOWN
  <2> QED BY <1>1, <1>p, <2>1, <2>2 DEF SendCommand
<1>2. CASE ShutdownSends
  <2>1. SHUTDOWN \in Message /\ SHUTDOWN <= sent
    BY <1>n DEF Message, SHUTDOWN
  <2> QED BY <1>2, <1>p, <2>1 DEF ShutdownSends
<1> USE DEF Known, Carried, Answered
<1>3. CASE WriterTakes
  <2>1. In(Head(commands), commands) /\ \A d : In(d, commands') => In(d, commands)
    BY <1>3, TakeEffect DEF WriterTakes
  <2> QED BY <1>3, <1>k, <2>1 DEF WriterTakes
<1>4. CASE WriterWrites
  <2>1. \A d : In(d, stdin') => In(d, stdin) \/ d = writing
    BY <1>4, AppendEffect DEF WriterWrites, HandInv
  <2> QED BY <1>4, <1>k, <2>1 DEF WriterWrites
<1>5. CASE ReaderReads
  <2>1. In(Head(stdout), stdout) /\ (\A d : In(d, stdout') => In(d, stdout))
        /\ Head(stdout) \in Command
    BY <1>5, TakeEffect DEF ReaderReads
  <2>2. \A d : In(d, events') => In(d, events) \/ d = Head(stdout)
    <3>1. CASE UNCHANGED events
      BY <3>1
    <3>2. CASE events' = Append(events, Head(stdout))
      BY <2>1, <3>2, AppendEffect
    <3> QED BY <1>5, <3>1, <3>2 DEF ReaderReads
  <2> QED BY <1>5, <1>k, <2>1, <2>2 DEF ReaderReads
<1>6. CASE ManagerTakes
  <2>1. In(Head(events), events) /\ \A d : In(d, events') => In(d, events)
    BY <1>6, TakeEffect DEF ManagerTakes
  <2> QED BY <1>6, <1>k, <2>1 DEF ManagerTakes
<1>7. CASE SendOnWorkerThread
  <2>1. In(Head(task_queue_), task_queue_) /\ (\A d : In(d, task_queue_') => In(d, task_queue_))
        /\ Head(task_queue_) \in Command
    BY <1>7, TakeEffect DEF SendOnWorkerThread
  <2>2. \A d : In(d, stdout') => In(d, stdout) \/ d = Head(task_queue_)
    <3>1. CASE UNCHANGED stdout
      BY <3>1
    <3>2. CASE stdout' = Append(stdout, Head(task_queue_))
      BY <2>1, <3>2, AppendEffect
    <3> QED BY <1>7, <3>1, <3>2 DEF SendOnWorkerThread
  <2> QED BY <1>7, <1>k, <2>1, <2>2 DEF SendOnWorkerThread
<1>8. CASE Receive
  BY <1>8, <1>k, EmptyQueue DEF Receive
<1>9. CASE IgnoreMerged \/ IgnoreUnknown \/ HandleShutdown
  BY <1>9, <1>k, EmptyQueue DEF IgnoreMerged, IgnoreUnknown, HandleShutdown, Handled
<1>10. CASE HandleCommand
  <2>1. batch # << >> /\ Head(batch) # SHUTDOWN /\ Len(batch) = 1
    BY <1>10, EmptyQueue DEF HandleCommand
  <2>2. In(Head(batch), batch) /\ Head(batch) \in Command
    BY <2>1, TakeEffect DEF Message
  <2>3. \A d : In(d, task_queue_') => In(d, task_queue_) \/ d = Head(batch)
    BY <1>10, <2>2, AppendEffect DEF HandleCommand, Post
  <2> QED BY <1>10, <1>k, <2>2, <2>3, EmptyQueue DEF HandleCommand, Handled
<1>11. CASE UNCHANGED << sent, commands, writing, stdin, batch, received, events, stdout,
                         task_queue_ >>
            /\ (writer' = "write" => writer = "write")
  BY <1>11, <1>k
<1>12. CASE WriterWakes
  BY <1>12, <1>k DEF WriterWakes
<1> QED
  BY <1>1, <1>2, <1>3, <1>4, <1>5, <1>6, <1>7, <1>8, <1>9, <1>10, <1>11, <1>12
     DEF Next, ClientGoesOn, Writer, Reader, Manager, Main, Receiver, Shutdown,
         EndManager, Kill, ShutdownReturns, Dropped, ClientCrashes, WriterEnds,
         ReaderEnds, ManagerEnds, Connect, Listen, Run, RunReturns, Destroy,
         ReceiveEnd, StopNow, ShutdownQuits, Disconnected, ServerCrashes

(* A client that waits has one command on the way, and none when it sends  *)
(* the next one.                                                           *)
LEMMA OneStep ==
  ASSUME TypeOK, HandInv, SentInv, OneInv, [Next]_vars
  PROVE  OneInv'
<1> SUFFICES ASSUME ~ early' PROVE OneInv'
  BY DEF OneInv
<1> USE LinkAssumption
<1>0. ClientOK /\ BackOK /\ ReceivedOK
  BY TypeParts
<1>n. /\ sent \in Nat /\ sent \in Message
      /\ Len(commands) \in Nat /\ Len(stdin) \in Nat /\ Len(batch) \in Nat /\ Carrying \in Nat
  BY <1>0, Numbers DEF ClientOK, Message, Command, SHUTDOWN
<1>k. ASSUME ~ early, Carrying' \in Nat, Carrying' <= Carrying, UNCHANGED sent,
             recorder' \in {"open", "shutdown"} => recorder \in {"open", "shutdown"},
             \/ \A c \in Message : Answered(c)' => Answered(c)
             \/ Carrying' = 0,
             \A c \in Command : fate[c] # "merged" => fate'[c] # "merged"
      PROVE  OneInv'
  BY <1>k, <1>n DEF OneInv
<1> USE <1>0 DEF ClientOK, BackOK, ReceivedOK, vars, client, calls, back, server, inside
(* A push that is not early finds nothing on the way.                      *)
<1>p. ASSUME NEW c \in Message, Push(c), recorder \in {"open", "shutdown"},
             UNCHANGED << writer, stdin, batch, fate >>
      PROVE  Carrying' <= 1 /\ \A d \in Command : fate'[d] # "merged"
  <2>1. ~ early /\ (sent = 0 \/ sent \in received)
    BY <1>p, PushEffect
  <2>2. Carrying = 0 /\ \A d \in Command : fate[d] # "merged"
    BY <1>p, <2>1 DEF OneInv, Answered
  <2>3. Len(commands') \in {Len(commands), Len(commands) + 1}
    BY <1>p, PushEffect
  <2>4. Carrying' <= 1
    BY <1>n, <1>p, <2>2, <2>3 DEF Carrying
  <2> QED BY <1>p, <2>2, <2>4
<1>1. CASE SendCommand
  <2>1. PICK c \in {sent + 1, SHUTDOWN} : Push(c)
    BY <1>1 DEF SendCommand
  <2> DEFINE next == sent + 1
  <2>2. sent' = next /\ next \in Message /\ c \in Message /\ ~ (next <= sent) /\ next # 0
    BY <1>1, <1>n DEF SendCommand, Message, Command, SHUTDOWN
  <2> HIDE DEF next
  <2>3. UNCHANGED << writer, stdin, batch, fate, received, events, stdout, task_queue_ >>
    BY <1>1 DEF SendCommand
  <2>4. ~ Answered(next)
    BY <2>2 DEF SentInv
  <2>5. /\ next \notin received /\ ~ In(next, events) /\ ~ In(next, stdout)
        /\ ~ In(next, task_queue_)
    BY <2>4 DEF Answered
  <2>6. Carrying' <= 1 /\ \A d \in Command : fate'[d] # "merged"
    BY <1>1, <1>p, <2>1, <2>2, <2>3 DEF SendCommand
  <2>7. /\ sent' \notin received' /\ ~ In(sent', events') /\ ~ In(sent', stdout')
        /\ ~ In(sent', task_queue_')
    BY <2>2, <2>3, <2>5
  <2> QED BY <2>2, <2>6, <2>7 DEF OneInv, Answered
<1>2. CASE ShutdownSends
  <2>1. SHUTDOWN \in Message
    BY DEF Message
  <2> QED BY <1>2, <1>p, <2>1 DEF OneInv, ShutdownSends
<1>3. CASE WriterTakes
  <2>1. Len(commands') = Len(commands) - 1 /\ Len(commands) # 0
    BY <1>3, TakeEffect DEF WriterTakes
  <2>2. Carrying' = Carrying
    BY <1>3, <1>n, <2>1 DEF WriterTakes, Carrying
  <2> QED BY <1>3, <1>k, <1>n, <2>2 DEF WriterTakes, Answered
<1>4. CASE WriterWrites
  <2>1. Len(stdin') = Len(stdin) + 1
    BY <1>4, AppendEffect DEF WriterWrites, HandInv
  <2>2. Carrying' = Carrying
    BY <1>4, <1>n, <2>1 DEF WriterWrites, Carrying
  <2> QED BY <1>4, <1>k, <1>n, <2>2 DEF WriterWrites, Answered
<1>5. CASE ReaderReads
  <2>1. In(Head(stdout), stdout) /\ (\A d : In(d, stdout') => In(d, stdout))
        /\ Head(stdout) \in Command
    BY <1>5, TakeEffect DEF ReaderReads
  <2>2. \A d : In(d, events') => In(d, events) \/ d = Head(stdout)
    <3>1. CASE UNCHANGED events
      BY <3>1
    <3>2. CASE events' = Append(events, Head(stdout))
      BY <2>1, <3>2, AppendEffect
    <3> QED BY <1>5, <3>1, <3>2 DEF ReaderReads
  <2>3. Carrying' = Carrying
    BY <1>5 DEF ReaderReads, Carrying
  <2> QED BY <1>5, <1>k, <1>n, <2>1, <2>2, <2>3 DEF ReaderReads, Answered
<1>6. CASE ManagerTakes
  <2>1. In(Head(events), events) /\ \A d : In(d, events') => In(d, events)
    BY <1>6, TakeEffect DEF ManagerTakes
  <2>2. Carrying' = Carrying
    BY <1>6 DEF ManagerTakes, Carrying
  <2> QED BY <1>6, <1>k, <1>n, <2>1, <2>2 DEF ManagerTakes, Answered
<1>7. CASE SendOnWorkerThread
  <2>1. In(Head(task_queue_), task_queue_) /\ (\A d : In(d, task_queue_') => In(d, task_queue_))
        /\ Head(task_queue_) \in Command
    BY <1>7, TakeEffect DEF SendOnWorkerThread
  <2>2. \A d : In(d, stdout') => In(d, stdout) \/ d = Head(task_queue_)
    <3>1. CASE UNCHANGED stdout
      BY <3>1
    <3>2. CASE stdout' = Append(stdout, Head(task_queue_))
      BY <2>1, <3>2, AppendEffect
    <3> QED BY <1>7, <3>1, <3>2 DEF SendOnWorkerThread
  <2>3. Carrying' = Carrying
    BY <1>7 DEF SendOnWorkerThread, Carrying
  <2> QED BY <1>7, <1>k, <1>n, <2>1, <2>2, <2>3 DEF SendOnWorkerThread, Answered
<1>8. CASE Receive
  <2>1. Carrying' = Carrying
    BY <1>8, <1>n, EmptyQueue DEF Receive, HandInv, Carrying
  <2> QED BY <1>8, <1>k, <1>n, <2>1 DEF Receive, Answered
<1>9. CASE IgnoreMerged
  BY <1>9, <1>n DEF IgnoreMerged, OneInv, Carrying
<1>10. CASE IgnoreUnknown \/ HandleShutdown \/ HandleCommand
  <2>1. PICK what \in {"unknown", "performed"} : Handled(what)
    BY <1>10 DEF IgnoreUnknown, HandleShutdown, HandleCommand
  <2>2. /\ UNCHANGED << commands, writer, stdin, sent, recorder, early >>
        /\ Len(batch) = 1
    BY <1>10 DEF IgnoreUnknown, HandleShutdown, HandleCommand
  <2>3. Len(batch') = 0 /\ \A c \in Command : fate[c] # "merged" => fate'[c] # "merged"
    BY <2>1, HandledEffect
  <2>4. Carrying <= 1
    BY <2>2 DEF OneInv
  <2>5. Carrying' = 0
    BY <1>n, <2>2, <2>3, <2>4 DEF Carrying
  <2> QED BY <1>k, <1>n, <2>2, <2>3, <2>5
<1>11. CASE /\ UNCHANGED << sent, early, commands, stdin, batch, received, events, stdout,
                            task_queue_, fate >>
            /\ recorder' \in {"open", "shutdown"} => recorder \in {"open", "shutdown"}
            /\ writer' = "write" => writer = "write"
  <2>1. Carrying' \in Nat /\ Carrying' <= Carrying
    BY <1>11, <1>n DEF Carrying
  <2> QED BY <1>11, <1>k, <2>1 DEF Answered
<1> QED
  BY <1>1, <1>2, <1>3, <1>4, <1>5, <1>6, <1>7, <1>8, <1>9, <1>10, <1>11
     DEF Next, ClientGoesOn, Writer, Reader, Manager, Main, Receiver, Shutdown,
         EndManager, Kill, ShutdownReturns, Dropped, ClientCrashes, WriterEnds,
         WriterWakes, ReaderEnds, ManagerEnds, Connect, Listen, Run, RunReturns,
         Destroy, ReceiveEnd, StopNow, ShutdownQuits, Disconnected, ServerCrashes

(* The invariant is inductive.                                             *)
LEMMA NextIInv == IInv /\ [Next]_vars => IInv'
<1> SUFFICES ASSUME IInv, [Next]_vars PROVE IInv'
  OBVIOUS
<1> QED BY TypeStep, HandStep, SentStep, OneStep, WokenStep DEF IInv

(* The strengthened invariant holds in every state of the specification.   *)
LEMMA Inductive == Spec => []IInv
<1> QED BY InitIInv, NextIInv, PTL DEF Spec

-----------------------------------------------------------------------------
(* The two processes keep their types, and no channel or pipe holds more   *)
(* than its size: nobody sends into a full one.                            *)
THEOREM TypeCorrect == Spec => []TypeOK
<1>1. IInv => TypeOK
  BY DEF IInv
<1> QED BY <1>1, Inductive, PTL

(* However the threads of the two processes interleave, crash and end, two *)
(* commands are read as one, and lost, only after the client sent one      *)
(* before the last was answered.                                           *)
THEOREM MergedWasEarly == Spec => []MergedIsEarly
<1>1. IInv => MergedIsEarly
  BY DEF IInv, OneInv, MergedIsEarly
<1> QED BY <1>1, Inductive, PTL

(* ~Server never frees OBS under a command, although nothing joins the     *)
(* receiver: a main thread that was woken was woken by its last act.       *)
THEOREM ObsKept == Spec => []ObsOutlivesCommands
<1>1. IInv => ObsOutlivesCommands
  BY DEF IInv, WokenInv, ObsOutlivesCommands
<1> QED BY <1>1, Inductive, PTL
=============================================================================
