------------------------ MODULE ReplayBuffer_proofs ------------------------
(***************************************************************************)
(* Theorems about ReplayBuffer, for every number of sessions, captures,    *)
(* waiting packets and mishaps.  The inductive invariant says first what   *)
(* holds whatever goes wrong, of the threads and of the files, and then    *)
(* what each kind of mishap alone can take away: what a session leaves     *)
(* behind when no write fails, whose files are made, and what becomes of a *)
(* capture that was accepted.                                              *)
(***************************************************************************)
EXTENDS ReplayBuffer, TLAPS

(* None of these mishaps has happened.                                     *)
Spared(names) == mishaps \cap names = {}

(* The output is the encoder thread's until its callback has returned, and *)
(* nothing is captured, written or to be stopped without the mux thread.   *)
ThreadInv ==
  /\ on <=> output.data_active
  /\ output.data_active => output.active
  /\ enc # "idle" => output.active
  /\ stream.capturing_replay \/ stream.replay_stopping \/ stream.muxing => mux # "done"
  /\ stream.video_created => mux \in {"free", "created", "flags"}
  /\ enc = "encode_error" => "encoder" \in mishaps
  /\ ctl = "start" => ~ on /\ session < MaxSessions
  /\ ctl = "capture" => captures < MaxCaptures

(* The mux thread has reported the file that it is about to leave.         *)
Told ==
  \/ mux \in {"uncapture", "reset", "flags"}
  \/ mux = "free" /\ ~ stream.video_created

(* A capture is in one place: accepted, or in the hands of the mux thread, *)
(* and it is reported on the way out of there and not again.               *)
FileInv ==
  /\ stream.replay_path <= captures /\ stream.path <= captures
  /\ stream.replay_path # Unasked => stream.path # stream.replay_path
  /\ mux = "done" => stream.path = Unasked
  /\ \A c \in Capture :
       /\ announced[c] <= 1
       /\ announced[c] = 1 => c <= captures /\ c # stream.replay_path
                              /\ (c = stream.path => Told)

(* The threads, as long as no pipe fails.                                  *)
WriteInv ==
  Spared({"failure"}) =>
    /\ mux \in {"write", "loop", "drain"} => stream.pipe
    /\ mux \notin {"fail", "fail_stop"}
    /\ mux \in {"reset", "free", "created", "flags"} => ~ stream.capturing_replay
    /\ mux \in {"created", "flags", "done"} => stream.pending = 0
    /\ Told /\ stream.path # Unasked => announced[stream.path] = 1
    /\ enc \notin {"off", "clear", "join"} => (stream.active <=> on)
    /\ enc = "off" => ~ on
    /\ enc \in {"clear", "join"} => ~ on /\ ~ stream.active
    /\ enc = "deactivate" => stream.stopping # "no"

(* A stop reaches the session it was for ...                               *)
StopInv ==
  Spared({"failure", "late_stop"}) =>
    /\ ~ on /\ enc # "off" => stream.stopping = "no"
    /\ ~ output.active => output.stopping_event
    /\ on /\ stream.stopping # "no" => ~ output.stopping_event

(* ... and so does the beginning of a capture ...                          *)
BeginInv ==
  Spared({"failure", "late_capture"}) =>
    /\ stream.save_start /\ ~ on => enc \in {"off", "clear"}
    /\ ctl = "reset" => ~ stream.save_start

(* ... and the end of one.                                                 *)
FinishInv ==
  /\ Spared({"failure"}) /\ ctl = "finish" /\ stream.save_start /\ ~ on =>
       enc \in {"off", "clear"}
  /\ Spared({"failure", "late_finish"}) =>
       /\ stream.save_ts => stream.save_start /\ (on \/ enc \in {"off", "clear"})
       /\ ctl = "reset" => ~ stream.save_ts /\ enc \notin {"mark", "save"}

(* The encoder thread makes no file without a name.                        *)
NameInv ==
  Spared({"failure", "late_finish", "overtaken"}) =>
    /\ mux # "reset" /\ stream.save_start /\ ~ stream.capturing_replay =>
         stream.replay_path # Unasked
    /\ enc = "begin" => mux = "reset" \/ stream.replay_path # Unasked
    /\ enc = "mark" => mux = "reset" \/ stream.capturing_replay
    /\ enc = "save" => mux = "reset"
    /\ mux # "done" => stream.path # Unasked
    /\ announced[Unasked] = 0

(* A capture is not accepted while another waits to begin or goes on.      *)
AcceptInv ==
  Spared({"failure", "overtaken", "late_capture"}) =>
    /\ enc = "begin" => stream.save_start
    /\ ctl = "capture" => ~ stream.capturing_replay /\ ~ stream.save_start
    /\ stream.capturing_replay => stream.replay_path = Unasked

IInv ==
  /\ TypeOK /\ ThreadInv /\ FileInv /\ WriteInv /\ StopInv /\ BeginInv /\ FinishInv
  /\ NameInv /\ AcceptInv

-----------------------------------------------------------------------------
(* The parts of TypeOK: the output, the buffer and the threads.            *)
StreamOK ==
  stream \in [active : BOOLEAN, capturing : BOOLEAN,
              stopping : {"no", "later", "now"},
              save_start : BOOLEAN, save_ts : BOOLEAN,
              capturing_replay : BOOLEAN, replay_stopping : BOOLEAN,
              muxing : BOOLEAN, pipe : BOOLEAN, video_created : BOOLEAN,
              pending : 0 .. MaxPending, replay_path : {Unasked} \cup Capture,
              path : {Unasked} \cup Capture]

OutputOK ==
  /\ on \in BOOLEAN /\ session \in 0 .. MaxSessions
  /\ output \in [active : BOOLEAN, data_active : BOOLEAN, stopping_event : BOOLEAN]

(* The invariant holds at the start.                                       *)
LEMMA InitIInv == Init => IInv
<1> SUFFICES ASSUME Init PROVE IInv
  OBVIOUS
<1> USE ReplayBufferAssumption DEF Init, Unasked, Capture
<1>1. TypeOK
  <2>1. StreamOK
    <3>1. 0 \in 0 .. MaxPending /\ 0 \in {Unasked} \cup Capture
      OBVIOUS
    <3> QED BY <3>1 DEF StreamOK
  <2>2. OutputOK
    <3>1. session \in 0 .. MaxSessions
      OBVIOUS
    <3>2. output \in [active : BOOLEAN, data_active : BOOLEAN, stopping_event : BOOLEAN]
      OBVIOUS
    <3> QED BY <3>1, <3>2 DEF OutputOK
  <2>3. announced \in [{Unasked} \cup Capture -> 0 .. 2] /\ captures \in 0 .. MaxCaptures
    OBVIOUS
  <2> QED BY <2>1, <2>2, <2>3 DEF TypeOK, StreamOK, OutputOK
<1>2. ThreadInv /\ WriteInv /\ StopInv /\ BeginInv /\ FinishInv /\ NameInv /\ AcceptInv
  BY DEF ThreadInv, WriteInv, StopInv, BeginInv, FinishInv, NameInv, AcceptInv, Told
<1>3. FileInv
  BY DEF FileInv
<1> QED BY <1>1, <1>2, <1>3 DEF IInv

(* What went wrong stays named, and so an excuse at the end of a step is   *)
(* one at its start.                                                       *)
LEMMA MishapsGrow ==
  ASSUME [Next]_vars
  PROVE  /\ mishaps \subseteq mishaps'
         /\ mishaps \subseteq MishapNames => mishaps' \subseteq MishapNames
         /\ \A names : Spared(names)' => Spared(names)
<1> USE DEF Spared, MishapNames
<1>1. CASE \E name \in MishapNames : Mishap(name)
  BY <1>1 DEF Mishap
<1>2. CASE Overtaken
  BY <1>2 DEF Overtaken
<1>3. CASE UNCHANGED mishaps
  BY <1>3
<1> HIDE DEF Spared
<1> QED
  BY <1>1, <1>2, <1>3
     DEF Next, Control, ControlGoesOn, Encoder, EncoderGoesOn, Mux, MuxGoesOn,
         EndThread, vars, history, MishapIf, StartCalled, CaptureCalled,
         FinishCalled, StopCalled, StartRefused, StartBegins, StartResets,
         CaptureAccepted, FinishMarked, StopActs, PacketStops, EncoderFails,
         PacketBegins, PacketQueued, PacketSeen, BeginWaits, BeginCapture,
         CaptureEnds, NothingToEnd, Save, DeactivateSignal, DeactivateOff,
         Clear, DeactivateJoin, NoPipe, WriteFails, OpenPipe, WriteBuffer,
         WritePacket, LoopEnds, FailOff, FailStop, CloseFile, SignalReady,
         CaptureOver, CaptureReset, Free, MuxDone

(* Every step keeps the type of the buffer ...                             *)
LEMMA StreamStep ==
  ASSUME StreamOK, captures \in 0 .. MaxCaptures, ctl = "capture" => captures < MaxCaptures,
         [Next]_vars
  PROVE  StreamOK'
<1> USE ReplayBufferAssumption DEF StreamOK
<1>0. 0 \in 0 .. MaxPending
  OBVIOUS
<1>1. CASE StartBegins
  BY <1>1 DEF StartBegins
<1>2. CASE StartResets
  BY <1>2 DEF StartResets
<1>3. CASE CaptureAccepted
  <2>1. captures + 1 \in Capture
    BY <1>3 DEF CaptureAccepted, Capture
  <2> QED BY <1>3, <2>1 DEF CaptureAccepted
<1>4. CASE FinishMarked
  BY <1>4 DEF FinishMarked
<1>5. CASE StopActs
  BY <1>5 DEF StopActs
<1>6. CASE EncoderFails
  BY <1>6 DEF EncoderFails
<1>7. CASE PacketQueued
  BY <1>7 DEF PacketQueued
<1>8. CASE BeginCapture
  BY <1>8 DEF BeginCapture, OpenFile
<1>9. CASE Save
  BY <1>9 DEF Save, OpenFile
<1>10. CASE CaptureEnds
  BY <1>10 DEF CaptureEnds, StopCaptureReplay
<1>11. CASE DeactivateOff
  BY <1>11 DEF DeactivateOff, StopCaptureReplay
<1>12. CASE Clear
  BY <1>0, <1>12 DEF Clear
<1>13. CASE OpenPipe
  BY <1>13 DEF OpenPipe
<1>14. CASE WriteBuffer
  BY <1>14 DEF WriteBuffer
<1>15. CASE WritePacket
  BY <1>15 DEF WritePacket
<1>16. CASE WriteFails
  BY <1>16 DEF WriteFails
<1>17. CASE FailOff
  BY <1>17 DEF FailOff
<1>18. CASE FailStop
  BY <1>18 DEF FailStop
<1>19. CASE CloseFile
  BY <1>19 DEF CloseFile
<1>20. CASE CaptureOver
  BY <1>20 DEF CaptureOver
<1>21. CASE CaptureReset
  BY <1>21 DEF CaptureReset
<1>22. CASE Free
  BY <1>0, <1>22 DEF Free
<1>23. CASE MuxDone
  BY <1>23 DEF MuxDone
<1>24. CASE UNCHANGED stream
  BY <1>24
<1> QED
  BY <1>1, <1>2, <1>3, <1>4, <1>5, <1>6, <1>7, <1>8, <1>9, <1>10, <1>11, <1>12,
     <1>13, <1>14, <1>15, <1>16, <1>17, <1>18, <1>19, <1>20, <1>21, <1>22,
     <1>23, <1>24
     DEF Next, Control, ControlGoesOn, Encoder, EncoderGoesOn, Mux, MuxGoesOn,
         EndThread, vars, StartCalled, CaptureCalled, FinishCalled, StopCalled,
         StartRefused, PacketStops, PacketBegins, PacketSeen, BeginWaits,
         NothingToEnd, DeactivateSignal, DeactivateJoin, NoPipe, LoopEnds,
         SignalReady

(* ... of the output ...                                                   *)
LEMMA OutputStep ==
  ASSUME OutputOK, ctl = "start" => session < MaxSessions, [Next]_vars
  PROVE  OutputOK'
<1> USE ReplayBufferAssumption DEF OutputOK
<1>1. CASE StartBegins
  <2>1. session' \in 0 .. MaxSessions
    BY <1>1 DEF StartBegins
  <2>2. output' \in [active : BOOLEAN, data_active : BOOLEAN, stopping_event : BOOLEAN]
    BY <1>1 DEF StartBegins
  <2>3. on' \in BOOLEAN
    BY <1>1 DEF StartBegins
  <2> QED BY <2>1, <2>2, <2>3
<1>2. CASE StopActs
  BY <1>2 DEF StopActs
<1>3. CASE EncoderFails
  BY <1>3 DEF EncoderFails
<1>4. CASE EndDataCapture /\ UNCHANGED session
  BY <1>4 DEF EndDataCapture
<1>5. CASE EndThread
  BY <1>5 DEF EndThread
<1>6. CASE UNCHANGED << on, session, output >>
  BY <1>6
<1> QED
  BY <1>1, <1>2, <1>3, <1>4, <1>5, <1>6
     DEF Next, Control, ControlGoesOn, Encoder, EncoderGoesOn, Mux, MuxGoesOn,
         vars, StartCalled, CaptureCalled, FinishCalled, StopCalled,
         StartRefused, StartResets, CaptureAccepted, FinishMarked, PacketStops,
         PacketBegins, PacketQueued, PacketSeen, BeginWaits, BeginCapture,
         CaptureEnds, NothingToEnd, Save, DeactivateSignal, DeactivateOff,
         Clear, DeactivateJoin, NoPipe, WriteFails, OpenPipe, WriteBuffer,
         WritePacket, LoopEnds, FailOff, FailStop, CloseFile, SignalReady,
         CaptureOver, CaptureReset, Free, MuxDone

(* ... and all the others.                                                 *)
LEMMA TypeStep ==
  ASSUME TypeOK, ThreadInv, [Next]_vars
  PROVE  TypeOK'
<1> USE ReplayBufferAssumption
<1>1. StreamOK' /\ OutputOK'
  BY StreamStep, OutputStep DEF TypeOK, StreamOK, OutputOK, ThreadInv
<1>2. /\ ctl' \in {"idle", "start", "reset", "capture", "finish", "stop", "force_stop"}
      /\ captures' \in 0 .. MaxCaptures
  <2> USE DEF TypeOK
  <2>1. CASE CaptureAccepted
    BY <2>1 DEF CaptureAccepted, ThreadInv
  <2>2. CASE ctl' \in {"idle", "start", "reset", "capture", "finish", "stop", "force_stop"}
             /\ UNCHANGED captures
    BY <2>2
  <2> QED
    BY <2>1, <2>2
       DEF Next, Control, ControlGoesOn, Encoder, EncoderGoesOn, Mux,
           MuxGoesOn, EndThread, vars, history, StartCalled, CaptureCalled,
           FinishCalled, StopCalled, StartRefused, StartBegins, StartResets,
           FinishMarked, StopActs, PacketStops, EncoderFails, PacketBegins,
           PacketQueued, PacketSeen, BeginWaits, BeginCapture, CaptureEnds,
           NothingToEnd, Save, DeactivateSignal, DeactivateOff, Clear,
           DeactivateJoin, NoPipe, WriteFails, OpenPipe, WriteBuffer,
           WritePacket, LoopEnds, FailOff, FailStop, CloseFile, SignalReady,
           CaptureOver, CaptureReset, Free, MuxDone
<1>3. enc' \in {"idle", "begin", "mark", "save", "deactivate", "encode_error",
                "off", "clear", "join"}
  <2>1. CASE Encoder
    BY <2>1 DEF Encoder, EncoderGoesOn, PacketStops, EncoderFails, PacketBegins,
       PacketQueued, PacketSeen, AfterPacket, BeginWaits, BeginCapture,
       CaptureEnds, NothingToEnd, Save, DeactivateSignal, DeactivateOff, Clear,
       DeactivateJoin
  <2>2. CASE UNCHANGED enc
    BY <2>2 DEF TypeOK
  <2> QED
    BY <2>1, <2>2
       DEF Next, Control, ControlGoesOn, Mux, MuxGoesOn, EndThread, vars,
           StartCalled, CaptureCalled, FinishCalled, StopCalled, StartRefused,
           StartBegins, StartResets, CaptureAccepted, FinishMarked, StopActs,
           NoPipe, WriteFails, OpenPipe, WriteBuffer, WritePacket, LoopEnds,
           FailOff, FailStop, CloseFile, SignalReady, CaptureOver,
           CaptureReset, Free, MuxDone
<1>4. /\ mux' \in {"done", "open", "write", "loop", "drain", "fail", "fail_stop",
                   "ready", "uncapture", "reset", "free", "created", "flags"}
      /\ resume' \in {"loop", "drain", "free"}
  <2> USE DEF TypeOK
  <2>1. CASE BeginCapture \/ Save
    BY <2>1 DEF BeginCapture, Save, OpenFile
  <2>2. CASE Mux
    BY <2>2 DEF Mux, MuxGoesOn, NoPipe, WriteFails, OpenPipe, WriteBuffer,
       WritePacket, LoopEnds, FailOff, FailStop, CloseFile, SignalReady,
       CaptureOver, CaptureReset, Free, MuxDone
  <2>3. CASE UNCHANGED << mux, resume >>
    BY <2>3
  <2> QED
    BY <2>1, <2>2, <2>3
       DEF Next, Control, ControlGoesOn, Encoder, EncoderGoesOn, EndThread,
           vars, StartCalled, CaptureCalled, FinishCalled, StopCalled,
           StartRefused, StartBegins, StartResets, CaptureAccepted,
           FinishMarked, StopActs, PacketStops, EncoderFails, PacketBegins,
           PacketQueued, PacketSeen, BeginWaits, CaptureEnds, NothingToEnd,
           DeactivateSignal, DeactivateOff, Clear, DeactivateJoin
<1>5. announced' \in [{Unasked} \cup Capture -> 0 .. 2]
  <2>1. CASE SignalReady
    BY <2>1 DEF SignalReady, TypeOK
  <2>2. CASE UNCHANGED announced
    BY <2>2 DEF TypeOK
  <2> QED
    BY <2>1, <2>2
       DEF Next, Control, ControlGoesOn, Encoder, EncoderGoesOn, Mux,
           MuxGoesOn, EndThread, vars, history, StartCalled, CaptureCalled,
           FinishCalled, StopCalled, StartRefused, StartBegins, StartResets,
           CaptureAccepted, FinishMarked, StopActs, PacketStops, EncoderFails,
           PacketBegins, PacketQueued, PacketSeen, BeginWaits, BeginCapture,
           CaptureEnds, NothingToEnd, Save, DeactivateSignal, DeactivateOff,
           Clear, DeactivateJoin, NoPipe, WriteFails, OpenPipe, WriteBuffer,
           WritePacket, LoopEnds, FailOff, FailStop, CloseFile, CaptureOver,
           CaptureReset, Free, MuxDone
<1>6. mishaps' \subseteq MishapNames
  BY MishapsGrow DEF TypeOK
<1> QED BY <1>1, <1>2, <1>3, <1>4, <1>5, <1>6 DEF TypeOK, StreamOK, OutputOK

-----------------------------------------------------------------------------
(* The output and the threads, whatever goes wrong.                        *)
LEMMA ThreadStep ==
  ASSUME TypeOK, ThreadInv, [Next]_vars
  PROVE  ThreadInv'
<1>0. StreamOK /\ OutputOK /\ resume \in {"loop", "drain", "free"}
  BY DEF TypeOK, StreamOK, OutputOK
<1>m. "encoder" \in mishaps => "encoder" \in mishaps'
  BY MishapsGrow
<1> USE <1>0, <1>m DEF StreamOK, OutputOK, ThreadInv, history
<1>1. CASE StartCalled \/ StartRefused \/ CaptureCalled \/ FinishCalled \/ StopCalled
  BY <1>1 DEF StartCalled, StartRefused, CaptureCalled, FinishCalled, StopCalled
<1>2. CASE StartBegins
  BY <1>2 DEF StartBegins
<1>3. CASE StartResets
  BY <1>3 DEF StartResets
<1>4. CASE CaptureAccepted
  BY <1>4 DEF CaptureAccepted
<1>5. CASE FinishMarked
  BY <1>5 DEF FinishMarked
<1>6. CASE StopActs
  BY <1>6 DEF StopActs
<1>7. CASE PacketStops \/ PacketBegins \/ PacketSeen \/ PacketQueued
  BY <1>7 DEF PacketStops, PacketBegins, PacketSeen, PacketQueued, PacketArrives,
     AfterPacket
<1>8. CASE EncoderFails
  BY <1>8 DEF EncoderFails, PacketArrives, Mishap
<1>9. CASE BeginCapture \/ Save
  <2>1. enc # "idle" /\ enc' # "encode_error" /\ mux' = "open"
    BY <1>9 DEF BeginCapture, Save, OpenFile, AfterPacket
  <2>2. UNCHANGED << on, session, output, ctl, history >>
    BY <1>9 DEF BeginCapture, Save
  <2>3. stream'.video_created = stream.video_created /\ mux = "done"
    BY <1>9 DEF BeginCapture, Save, OpenFile
  <2> QED BY <2>1, <2>2, <2>3
<1>10. CASE CaptureEnds
  BY <1>10 DEF CaptureEnds, StopCaptureReplay
<1>11. CASE BeginWaits \/ NothingToEnd \/ DeactivateJoin
  BY <1>11 DEF BeginWaits, NothingToEnd, DeactivateJoin
<1>12. CASE DeactivateSignal
  BY <1>12 DEF DeactivateSignal, EndDataCapture
<1>13. CASE DeactivateOff
  BY <1>13 DEF DeactivateOff, StopCaptureReplay
<1>14. CASE Clear
  BY <1>14 DEF Clear
<1>15. CASE OpenPipe \/ WritePacket
  BY <1>15 DEF OpenPipe, WritePacket
<1>16. CASE WriteBuffer
  BY <1>16 DEF WriteBuffer
<1>17. CASE WriteFails
  BY <1>17 DEF WriteFails
<1>18. CASE FailOff
  BY <1>18 DEF FailOff, EndDataCapture
<1>19. CASE FailStop
  BY <1>19 DEF FailStop, EndDataCapture
<1>20. CASE LoopEnds \/ NoPipe \/ SignalReady
  BY <1>20 DEF LoopEnds, NoPipe, SignalReady
<1>21. CASE CloseFile
  BY <1>21 DEF CloseFile
<1>22. CASE CaptureOver \/ CaptureReset
  BY <1>22 DEF CaptureOver, CaptureReset
<1>23. CASE Free
  BY <1>23 DEF Free
<1>24. CASE MuxDone
  BY <1>24 DEF MuxDone
<1>25. CASE EndThread
  BY <1>25 DEF EndThread
<1>26. CASE UNCHANGED vars
  BY <1>26 DEF vars
<1> HIDE DEF ThreadInv
<1> QED
  BY <1>1, <1>2, <1>3, <1>4, <1>5, <1>6, <1>7, <1>8, <1>9, <1>10, <1>11, <1>12,
     <1>13, <1>14, <1>15, <1>16, <1>17, <1>18, <1>19, <1>20, <1>21, <1>22,
     <1>23, <1>24, <1>25, <1>26
     DEF Next, Control, ControlGoesOn, Encoder, EncoderGoesOn, Mux, MuxGoesOn

(* A capture is in one place, and reported once.                           *)
LEMMA FileStep ==
  ASSUME TypeOK, ThreadInv, FileInv, [Next]_vars
  PROVE  FileInv'
<1> USE ReplayBufferAssumption
<1>0. /\ StreamOK /\ captures \in 0 .. MaxCaptures
      /\ announced \in [{Unasked} \cup Capture -> 0 .. 2]
  BY DEF TypeOK, StreamOK
<1> USE <1>0 DEF StreamOK, FileInv, Told, Capture, Unasked, history
<1>t. stream.video_created => mux \in {"free", "created", "flags"}
  BY DEF ThreadInv
<1>1. CASE CaptureAccepted
  <2>1. /\ stream'.replay_path = captures + 1 /\ captures' = captures + 1
        /\ stream'.path = stream.path /\ stream'.video_created = stream.video_created
        /\ UNCHANGED << mux, announced >>
    BY <1>1 DEF CaptureAccepted
  <2> QED BY <2>1
<1>2. CASE BeginCapture \/ Save
  <2>1. /\ mux' = "open" /\ stream'.path = stream.replay_path /\ stream'.replay_path = Unasked
        /\ UNCHANGED << captures, announced >>
    BY <1>2 DEF BeginCapture, Save, OpenFile
  <2> QED BY <2>1
<1>3. CASE SignalReady
  <2>1. /\ ~ Told /\ Told' /\ stream' = stream /\ captures' = captures
        /\ \A c \in Capture : c # stream.path => announced'[c] = announced[c]
        /\ announced'[stream.path] = IF announced[stream.path] < 2 THEN announced[stream.path] + 1
                                     ELSE announced[stream.path]
    BY <1>3 DEF SignalReady
  <2>2. stream.path \in Capture => announced[stream.path] = 0
    BY <2>1
  <2> QED BY <2>1, <2>2
<1>4. CASE UNCHANGED << stream.replay_path, stream.path, captures, announced >>
           /\ (Told => Told') /\ (mux' = "done" => mux = "done")
  BY <1>4
<1>5. CASE MuxDone
  <2>1. /\ stream'.path = Unasked /\ stream'.replay_path = stream.replay_path
        /\ UNCHANGED << captures, announced >>
    BY <1>5 DEF MuxDone
  <2> QED BY <2>1
<1> HIDE DEF FileInv
<1>6. CASE Control
  BY <1>1, <1>4, <1>6
     DEF Control, ControlGoesOn, StartCalled, CaptureCalled, FinishCalled,
         StopCalled, StartRefused, StartBegins, StartResets, FinishMarked, StopActs
<1>7. CASE Encoder
  BY <1>2, <1>4, <1>7
     DEF Encoder, EncoderGoesOn, PacketStops, EncoderFails, PacketBegins,
         PacketQueued, PacketSeen, BeginWaits, CaptureEnds, StopCaptureReplay,
         NothingToEnd, DeactivateSignal, DeactivateOff, Clear, DeactivateJoin
<1>8. CASE NoPipe \/ WriteFails \/ OpenPipe \/ WriteBuffer \/ WritePacket \/ LoopEnds
  BY <1>4, <1>8, <1>t
     DEF NoPipe, WriteFails, OpenPipe, WriteBuffer, WritePacket, LoopEnds
<1>9. CASE FailOff \/ FailStop \/ CloseFile \/ CaptureOver \/ CaptureReset \/ Free
  <2>1. mux' # "done"
    BY <1>9 DEF FailOff, FailStop, CloseFile, CaptureOver, CaptureReset, Free, TypeOK
  <2> QED
    BY <1>4, <1>9, <1>t, <2>1
       DEF FailOff, FailStop, CloseFile, CaptureOver, CaptureReset, Free
<1>10. CASE EndThread \/ UNCHANGED vars
  BY <1>4, <1>10 DEF EndThread, vars
<1> QED
  BY <1>3, <1>5, <1>6, <1>7, <1>8, <1>9, <1>10 DEF Next, Mux, MuxGoesOn

(* What the threads do to each other, as long as no pipe fails.            *)
LEMMA WriteStep ==
  ASSUME TypeOK, ThreadInv, FileInv, WriteInv, [Next]_vars
  PROVE  WriteInv'
<1> SUFFICES ASSUME Spared({"failure"})' PROVE WriteInv'
  BY DEF WriteInv
<1> USE ReplayBufferAssumption
<1>s. Spared({"failure"})
  BY MishapsGrow
<1>n. "failure" \notin mishaps'
  BY DEF Spared
<1>0. /\ StreamOK /\ OutputOK
      /\ announced \in [{Unasked} \cup Capture -> 0 .. 2]
  BY DEF TypeOK, StreamOK, OutputOK
<1> USE <1>0, <1>s DEF StreamOK, OutputOK, WriteInv, Told, history
<1>1. CASE StartCalled \/ StartRefused \/ CaptureCalled \/ FinishCalled \/ StopCalled
  BY <1>1 DEF StartCalled, StartRefused, CaptureCalled, FinishCalled, StopCalled
<1>2. CASE StartBegins
  BY <1>2 DEF StartBegins, ThreadInv
<1>3. CASE StartResets
  BY <1>3 DEF StartResets
<1>4. CASE CaptureAccepted
  BY <1>4 DEF CaptureAccepted
<1>5. CASE FinishMarked
  BY <1>5 DEF FinishMarked
<1>6. CASE StopActs
  BY <1>6 DEF StopActs
<1>7. CASE PacketStops \/ PacketBegins \/ PacketSeen
  BY <1>7 DEF PacketStops, PacketBegins, PacketSeen, PacketArrives
<1>8. CASE PacketQueued
  <2>1. /\ enc = "idle" /\ enc' \in {"idle", "mark"} /\ stream.capturing_replay
        /\ UNCHANGED << on, mux, history, stream.pipe, stream.capturing_replay, stream.path,
                        stream.active, stream.stopping, stream.video_created >>
    BY <1>8 DEF PacketQueued, PacketArrives, AfterPacket
  <2> QED BY <2>1 DEF ThreadInv
<1>9. CASE EncoderFails
  BY <1>9 DEF EncoderFails, PacketArrives
<1>10. CASE BeginCapture \/ Save
  <2>1. /\ enc \in {"begin", "save"} /\ enc' \in {"idle", "mark"} /\ mux' = "open"
        /\ UNCHANGED << on, stream.active, stream.stopping >>
    BY <1>10 DEF BeginCapture, Save, OpenFile, AfterPacket
  <2> QED BY <2>1
<1>11. CASE CaptureEnds
  BY <1>11 DEF CaptureEnds, StopCaptureReplay
<1>12. CASE BeginWaits \/ NothingToEnd \/ DeactivateJoin
  BY <1>12 DEF BeginWaits, NothingToEnd, DeactivateJoin
<1>13. CASE DeactivateSignal
  BY <1>13 DEF DeactivateSignal, EndDataCapture
<1>14. CASE DeactivateOff
  BY <1>14 DEF DeactivateOff, StopCaptureReplay
<1>15. CASE Clear
  BY <1>15 DEF Clear
<1>16. CASE OpenPipe \/ WritePacket
  BY <1>16 DEF OpenPipe, WritePacket
<1>17. CASE WriteBuffer
  BY <1>17 DEF WriteBuffer
<1>18. CASE NoPipe \/ WriteFails \/ FailOff \/ FailStop
  BY <1>18, <1>n DEF NoPipe, WriteFails, FailOff, FailStop, Mishap, MishapIf
<1>19. CASE LoopEnds
  BY <1>19 DEF LoopEnds
<1>20. CASE CloseFile
  BY <1>20 DEF CloseFile
<1>21. CASE SignalReady
  <2>1. stream.path # Unasked => announced[stream.path] = 0
    BY <1>21 DEF SignalReady, FileInv
  <2>2. stream.path # Unasked => announced'[stream.path] = 1
    BY <1>21, <2>1 DEF SignalReady
  <2>3. mux' = "flags" => mux = "created"
    BY <1>21 DEF SignalReady
  <2>4. mux' \in {"uncapture", "flags"} /\ UNCHANGED << on, stream, enc >>
    BY <1>21 DEF SignalReady
  <2> QED BY <2>2, <2>3, <2>4
<1>22. CASE CaptureOver
  BY <1>22 DEF CaptureOver
<1>23. CASE CaptureReset
  BY <1>23 DEF CaptureReset
<1>24. CASE Free
  BY <1>24 DEF Free
<1>25. CASE MuxDone
  BY <1>25 DEF MuxDone
<1>26. CASE EndThread \/ UNCHANGED vars
  BY <1>26 DEF EndThread, vars
<1> HIDE DEF WriteInv
<1> QED
  BY <1>1, <1>2, <1>3, <1>4, <1>5, <1>6, <1>7, <1>8, <1>9, <1>10, <1>11, <1>12,
     <1>13, <1>14, <1>15, <1>16, <1>17, <1>18, <1>19, <1>20, <1>21, <1>22,
     <1>23, <1>24, <1>25, <1>26
     DEF Next, Control, ControlGoesOn, Encoder, EncoderGoesOn, Mux, MuxGoesOn

(* A stop reaches the session it was for, unless it comes too late.        *)
LEMMA StopStep ==
  ASSUME TypeOK, ThreadInv, WriteInv, StopInv, [Next]_vars
  PROVE  StopInv'
<1> SUFFICES ASSUME Spared({"failure", "late_stop"})' PROVE StopInv'
  BY DEF StopInv
<1>s. Spared({"failure"}) /\ Spared({"failure", "late_stop"})
  BY MishapsGrow DEF Spared
<1>n. "late_stop" \notin mishaps' /\ mux \notin {"fail", "fail_stop"}
  BY <1>s DEF Spared, WriteInv
<1>0. StreamOK /\ OutputOK
  BY DEF TypeOK, StreamOK, OutputOK
<1>t. /\ on <=> output.data_active
      /\ output.data_active => output.active
      /\ enc # "idle" => output.active
      /\ ctl = "start" => ~ on
  BY DEF ThreadInv
<1>w. /\ enc = "idle" => (stream.active <=> on)
      /\ enc \in {"off", "clear", "join"} => ~ on
  BY <1>s DEF WriteInv
<1> USE <1>0, <1>s, <1>t DEF StreamOK, OutputOK, StopInv
<1>1. CASE StartBegins
  BY <1>1 DEF StartBegins
<1>2. CASE StopActs
  <2>1. on
    BY <1>2, <1>n DEF StopActs, MishapIf, Mishap
  <2>2. output'.active /\ ~ output'.stopping_event
    BY <1>2, <2>1 DEF StopActs
  <2> QED BY <1>2, <2>1, <2>2 DEF StopActs
<1>3. CASE EncoderFails
  BY <1>3, <1>w DEF EncoderFails, PacketArrives
<1>4. CASE DeactivateSignal
  BY <1>4 DEF DeactivateSignal, EndDataCapture
<1>5. CASE DeactivateOff
  BY <1>5, <1>w DEF DeactivateOff, StopCaptureReplay
<1>6. CASE EndThread
  BY <1>6 DEF EndThread
<1>7. CASE UNCHANGED << on, output, stream.stopping >> /\ (enc = "off" => enc' = "off")
  BY <1>7
<1> HIDE DEF StopInv
<1>8. CASE StartResets \/ CaptureAccepted \/ FinishMarked
  BY <1>7, <1>8 DEF StartResets, CaptureAccepted, FinishMarked
<1>9. CASE StartCalled \/ StartRefused \/ CaptureCalled \/ FinishCalled \/ StopCalled
  BY <1>7, <1>9 DEF StartCalled, StartRefused, CaptureCalled, FinishCalled, StopCalled
<1>10. CASE PacketStops \/ PacketBegins \/ PacketSeen \/ PacketQueued
  BY <1>7, <1>10 DEF PacketStops, PacketBegins, PacketSeen, PacketQueued, PacketArrives
<1>11. CASE BeginCapture \/ Save \/ CaptureEnds
  BY <1>7, <1>11 DEF BeginCapture, Save, OpenFile, CaptureEnds, StopCaptureReplay
<1>12. CASE BeginWaits \/ NothingToEnd \/ Clear \/ DeactivateJoin
  BY <1>7, <1>12 DEF BeginWaits, NothingToEnd, Clear, DeactivateJoin
<1>13. CASE NoPipe \/ WriteFails \/ OpenPipe \/ WriteBuffer \/ WritePacket \/ LoopEnds
  BY <1>7, <1>13 DEF NoPipe, WriteFails, OpenPipe, WriteBuffer, WritePacket, LoopEnds
<1>14. CASE FailOff \/ FailStop
  BY <1>14, <1>n DEF FailOff, FailStop
<1>15. CASE CloseFile \/ SignalReady \/ CaptureOver \/ CaptureReset \/ Free \/ MuxDone
  BY <1>7, <1>15 DEF CloseFile, SignalReady, CaptureOver, CaptureReset, Free, MuxDone
<1>16. CASE UNCHANGED vars
  BY <1>7, <1>16 DEF vars
<1> QED
  BY <1>1, <1>2, <1>3, <1>4, <1>5, <1>6, <1>8, <1>9, <1>10, <1>11, <1>12,
     <1>13, <1>14, <1>15, <1>16
     DEF Next, Control, ControlGoesOn, Encoder, EncoderGoesOn, Mux, MuxGoesOn

(* The beginning of a capture, and the end of one, reach the session they  *)
(* were for, unless they come too late.                                    *)
LEMMA BeginFinishStep ==
  ASSUME TypeOK, ThreadInv, WriteInv, BeginInv, FinishInv, [Next]_vars
  PROVE  BeginInv' /\ FinishInv'
<1> SUFFICES ASSUME Spared({"failure"})' PROVE BeginInv' /\ FinishInv'
  BY DEF BeginInv, FinishInv, Spared
<1>s. /\ Spared({"failure"})
      /\ Spared({"failure", "late_capture"})' => Spared({"failure", "late_capture"})
      /\ Spared({"failure", "late_finish"})' => Spared({"failure", "late_finish"})
  BY MishapsGrow
<1>0. StreamOK /\ OutputOK
  BY DEF TypeOK, StreamOK, OutputOK
<1>t. /\ enc # "idle" => output.active
      /\ ctl = "start" => ~ on
  BY DEF ThreadInv
<1>w. /\ mux \notin {"fail", "fail_stop"}
      /\ enc \in {"off", "clear", "join"} => ~ on
      /\ enc \in {"clear", "join"} => ~ stream.active
  BY <1>s DEF WriteInv
<1> USE <1>0, <1>s, <1>t DEF StreamOK, OutputOK, BeginInv, FinishInv
<1>1. CASE StartBegins
  BY <1>1 DEF StartBegins
<1>2. CASE StartResets
  BY <1>2 DEF StartResets
<1>3. CASE CaptureAccepted
  <2>1. ~ on => ~ Spared({"failure", "late_capture"})'
    BY <1>3 DEF CaptureAccepted, MishapIf, Mishap, Spared
  <2>2. ctl = "capture" /\ ctl' = "idle" /\ UNCHANGED << on, enc, stream.save_ts >>
        /\ stream'.save_start
    BY <1>3 DEF CaptureAccepted
  <2> QED BY <2>1, <2>2
<1>4. CASE FinishMarked
  <2>1. ~ stream.save_start => ~ Spared({"failure", "late_finish"})'
    BY <1>4 DEF FinishMarked, MishapIf, Mishap, Spared
  <2>2. ctl = "finish" /\ ctl' = "idle" /\ UNCHANGED << on, enc, stream.save_start >>
    BY <1>4 DEF FinishMarked
  <2> QED BY <2>1, <2>2
<1>5. CASE StartCalled \/ StartRefused \/ CaptureCalled \/ FinishCalled \/ StopCalled
  BY <1>5 DEF StartCalled, StartRefused, CaptureCalled, FinishCalled, StopCalled, history
<1>6. CASE StopActs
  BY <1>6 DEF StopActs
<1>7. CASE PacketStops \/ PacketBegins \/ PacketSeen
  BY <1>7 DEF PacketStops, PacketBegins, PacketSeen, PacketArrives, history
<1>8. CASE PacketQueued
  <2>1. /\ enc = "idle" /\ enc' \in {"idle", "mark"} /\ (enc' = "mark" => stream.save_ts)
        /\ UNCHANGED << on, ctl, stream.save_start, stream.save_ts >>
    BY <1>8 DEF PacketQueued, PacketArrives, AfterPacket
  <2> QED BY <2>1
<1>9. CASE EncoderFails
  BY <1>9 DEF EncoderFails, PacketArrives
<1>10. CASE BeginCapture
  <2>1. /\ enc = "begin" /\ enc' \in {"idle", "mark"} /\ (enc' = "mark" => stream.save_ts)
        /\ UNCHANGED << on, ctl, stream.save_start, stream.save_ts >>
    BY <1>10 DEF BeginCapture, OpenFile, AfterPacket
  <2> QED BY <2>1
<1>11. CASE Save
  BY <1>11 DEF Save, OpenFile, history
<1>12. CASE CaptureEnds
  BY <1>12 DEF CaptureEnds, StopCaptureReplay
<1>13. CASE BeginWaits \/ NothingToEnd \/ DeactivateJoin
  BY <1>13 DEF BeginWaits, NothingToEnd, DeactivateJoin
<1>14. CASE DeactivateSignal
  BY <1>14 DEF DeactivateSignal, EndDataCapture
<1>15. CASE DeactivateOff
  BY <1>15 DEF DeactivateOff, StopCaptureReplay
<1>16. CASE Clear
  BY <1>16 DEF Clear
<1>17. CASE CaptureReset
  BY <1>17 DEF CaptureReset
<1>18. CASE UNCHANGED << on, ctl, enc, stream.save_start, stream.save_ts >>
  BY <1>18
<1> HIDE DEF BeginInv, FinishInv
<1>19. CASE NoPipe \/ WriteFails \/ OpenPipe \/ WriteBuffer \/ WritePacket \/ LoopEnds
  BY <1>18, <1>19 DEF NoPipe, WriteFails, OpenPipe, WriteBuffer, WritePacket, LoopEnds
<1>20. CASE FailOff \/ FailStop
  BY <1>20, <1>w DEF FailOff, FailStop
<1>21. CASE CloseFile \/ SignalReady \/ CaptureOver \/ Free \/ MuxDone
  BY <1>18, <1>21 DEF CloseFile, SignalReady, CaptureOver, Free, MuxDone
<1>22. CASE EndThread \/ UNCHANGED vars
  BY <1>18, <1>22 DEF EndThread, vars
<1> QED
  BY <1>1, <1>2, <1>3, <1>4, <1>5, <1>6, <1>7, <1>8, <1>9, <1>10, <1>11, <1>12,
     <1>13, <1>14, <1>15, <1>16, <1>17, <1>19, <1>20, <1>21, <1>22
     DEF Next, Control, ControlGoesOn, Encoder, EncoderGoesOn, Mux, MuxGoesOn

(* The encoder thread makes no file without a name, unless the end of a    *)
(* capture comes too late or the next one overtakes it.                    *)
LEMMA NameStep ==
  ASSUME TypeOK, ThreadInv, FileInv, WriteInv, FinishInv, NameInv, [Next]_vars
  PROVE  NameInv'
<1> SUFFICES ASSUME Spared({"failure", "late_finish", "overtaken"})' PROVE NameInv'
  BY DEF NameInv
<1>s. /\ Spared({"failure"}) /\ Spared({"failure", "late_finish"})
      /\ Spared({"failure", "late_finish", "overtaken"})
  BY MishapsGrow DEF Spared
<1>n. "failure" \notin mishaps' /\ "overtaken" \notin mishaps'
  BY DEF Spared
<1>0. /\ StreamOK /\ captures \in 0 .. MaxCaptures
      /\ announced \in [{Unasked} \cup Capture -> 0 .. 2]
  BY DEF TypeOK, StreamOK
<1>w. /\ mux \notin {"fail", "fail_stop"}
      /\ mux = "flags" => ~ stream.capturing_replay
      /\ mux \in {"write", "loop", "drain"} => stream.pipe
  BY <1>s DEF WriteInv
<1>f. /\ stream.save_ts => stream.save_start
      /\ ctl = "reset" => enc \notin {"mark", "save"}
  BY <1>s DEF FinishInv
<1>t. stream.capturing_replay => mux # "done"
  BY DEF ThreadInv
<1> USE <1>0, <1>s DEF StreamOK, NameInv, history
<1>1. CASE StartResets
  BY <1>1, <1>f DEF StartResets
<1>2. CASE CaptureAccepted
  <2>1. captures + 1 # Unasked
    BY DEF Unasked
  <2> QED BY <1>2, <2>1 DEF CaptureAccepted
<1>3. CASE FinishMarked
  BY <1>3 DEF FinishMarked
<1>4. CASE PacketBegins
  BY <1>4 DEF PacketBegins
<1>5. CASE PacketQueued
  <2>1. /\ enc' \in {"idle", "mark"} /\ stream.capturing_replay
        /\ UNCHANGED << mux, announced, stream.save_start, stream.capturing_replay,
                        stream.replay_path, stream.path >>
    BY <1>5 DEF PacketQueued, AfterPacket
  <2> QED BY <2>1
<1>6. CASE PacketSeen
  BY <1>6, <1>f DEF PacketSeen
<1>7. CASE BeginCapture
  <2>1. /\ enc' \in {"idle", "mark"} /\ mux' = "open" /\ announced' = announced
        /\ stream'.capturing_replay /\ stream'.path = stream.replay_path
        /\ enc = "begin" /\ mux = "done"
    BY <1>7 DEF BeginCapture, OpenFile, AfterPacket
  <2> QED BY <2>1
<1>8. CASE Save
  BY <1>8 DEF Save
<1>9. CASE CaptureEnds
  BY <1>9 DEF CaptureEnds, StopCaptureReplay
<1>10. CASE NothingToEnd
  BY <1>10 DEF NothingToEnd
<1>11. CASE DeactivateOff
  BY <1>11 DEF DeactivateOff, StopCaptureReplay
<1>12. CASE Clear
  BY <1>12 DEF Clear
<1>13. CASE PacketStops \/ BeginWaits \/ DeactivateSignal \/ DeactivateJoin
  BY <1>13 DEF PacketStops, BeginWaits, DeactivateSignal, DeactivateJoin
<1>14. CASE EncoderFails
  BY <1>14 DEF EncoderFails
<1>15. CASE OpenPipe \/ WriteBuffer \/ WritePacket \/ LoopEnds \/ CloseFile \/ Free
  BY <1>15 DEF OpenPipe, WriteBuffer, WritePacket, LoopEnds, CloseFile, Free
<1>16. CASE NoPipe \/ WriteFails \/ FailOff \/ FailStop
  BY <1>16, <1>n, <1>w DEF NoPipe, WriteFails, FailOff, FailStop, Mishap, MishapIf
<1>17. CASE SignalReady
  <2>1. stream.path # Unasked
    BY <1>17 DEF SignalReady
  <2>2. announced'[Unasked] = announced[Unasked]
    BY <1>17, <2>1 DEF SignalReady
  <2>3. mux # "reset" /\ mux' \notin {"reset", "done"} /\ mux # "done" /\ UNCHANGED << stream, enc >>
    BY <1>17 DEF SignalReady
  <2> QED BY <2>2, <2>3
<1>18. CASE CaptureOver
  BY <1>18 DEF CaptureOver
<1>19. CASE CaptureReset
  <2>1. enc \notin {"begin", "mark", "save"} /\ mux # "done"
    BY <1>19, <1>n DEF CaptureReset, Overtaken
  <2> QED BY <1>19, <2>1 DEF CaptureReset
<1>20. CASE MuxDone
  BY <1>20, <1>w DEF MuxDone
<1>21. CASE UNCHANGED << enc, mux, announced, stream.save_start, stream.capturing_replay,
                         stream.replay_path, stream.path >>
  BY <1>21
<1> HIDE DEF NameInv
<1>22. CASE StartCalled \/ StartRefused \/ CaptureCalled \/ FinishCalled \/ StopCalled
  BY <1>21, <1>22 DEF StartCalled, StartRefused, CaptureCalled, FinishCalled, StopCalled
<1>23. CASE StartBegins \/ StopActs
  BY <1>21, <1>23 DEF StartBegins, StopActs
<1>24. CASE EndThread \/ UNCHANGED vars
  BY <1>21, <1>24 DEF EndThread, vars
<1> QED
  BY <1>1, <1>2, <1>3, <1>4, <1>5, <1>6, <1>7, <1>8, <1>9, <1>10, <1>11, <1>12,
     <1>13, <1>14, <1>15, <1>16, <1>17, <1>18, <1>19, <1>20, <1>22, <1>23, <1>24
     DEF Next, Control, ControlGoesOn, Encoder, EncoderGoesOn, Mux, MuxGoesOn

(* No capture is accepted while another waits to begin or goes on, unless  *)
(* the other overtakes it or its session has ended.                        *)
LEMMA AcceptStep ==
  ASSUME TypeOK, WriteInv, BeginInv, AcceptInv, [Next]_vars
  PROVE  AcceptInv'
<1> SUFFICES ASSUME Spared({"failure", "overtaken", "late_capture"})' PROVE AcceptInv'
  BY DEF AcceptInv
<1>s. /\ Spared({"failure"}) /\ Spared({"failure", "late_capture"})
      /\ Spared({"failure", "overtaken", "late_capture"})
  BY MishapsGrow DEF Spared
<1>n. "overtaken" \notin mishaps'
  BY DEF Spared
<1>0. StreamOK
  BY DEF TypeOK, StreamOK
<1>w. /\ mux \notin {"fail", "fail_stop"}
      /\ ctl = "reset" => ~ stream.save_start
  BY <1>s DEF WriteInv, BeginInv
<1> USE <1>0, <1>s DEF StreamOK, AcceptInv
<1>1. CASE StartResets
  BY <1>1, <1>w DEF StartResets
<1>2. CASE CaptureCalled \/ StartCalled \/ FinishCalled \/ StopCalled \/ StartRefused
  BY <1>2 DEF CaptureCalled, StartCalled, FinishCalled, StopCalled, StartRefused
<1>3. CASE CaptureAccepted
  BY <1>3 DEF CaptureAccepted
<1>4. CASE PacketBegins \/ PacketStops \/ PacketSeen
  BY <1>4 DEF PacketBegins, PacketStops, PacketSeen
<1>5. CASE PacketQueued
  <2>1. enc' \in {"idle", "mark"}
        /\ UNCHANGED << ctl, stream.save_start, stream.capturing_replay, stream.replay_path >>
    BY <1>5 DEF PacketQueued, AfterPacket
  <2> QED BY <2>1
<1>6. CASE BeginCapture
  <2>1. enc' \in {"idle", "mark"} /\ enc = "begin" /\ stream'.replay_path = Unasked /\ ctl' = ctl
    BY <1>6 DEF BeginCapture, OpenFile, AfterPacket
  <2> QED BY <2>1
<1>7. CASE Save
  BY <1>7 DEF Save, OpenFile
<1>8. CASE CaptureEnds
  BY <1>8 DEF CaptureEnds, StopCaptureReplay
<1>9. CASE DeactivateOff
  BY <1>9 DEF DeactivateOff, StopCaptureReplay
<1>10. CASE Clear
  BY <1>10 DEF Clear
<1>11. CASE BeginWaits \/ NothingToEnd \/ DeactivateSignal \/ DeactivateJoin
  BY <1>11 DEF BeginWaits, NothingToEnd, DeactivateSignal, DeactivateJoin
<1>12. CASE EncoderFails
  BY <1>12 DEF EncoderFails
<1>13. CASE CaptureReset
  <2>1. enc # "begin"
    BY <1>13, <1>n DEF CaptureReset, Overtaken
  <2> QED BY <1>13, <2>1 DEF CaptureReset
<1>14. CASE CaptureOver \/ MuxDone
  BY <1>14 DEF CaptureOver, MuxDone
<1>15. CASE FailOff \/ FailStop
  BY <1>15, <1>w DEF FailOff, FailStop
<1>16. CASE StartBegins \/ FinishMarked
  BY <1>16 DEF StartBegins, FinishMarked
<1>17. CASE StopActs
  BY <1>17 DEF StopActs
<1>18. CASE UNCHANGED << ctl, enc, stream.save_start, stream.capturing_replay, stream.replay_path >>
  BY <1>18
<1> HIDE DEF AcceptInv
<1>19. CASE NoPipe \/ WriteFails \/ OpenPipe \/ WriteBuffer \/ WritePacket \/ LoopEnds
  BY <1>18, <1>19 DEF NoPipe, WriteFails, OpenPipe, WriteBuffer, WritePacket, LoopEnds
<1>20. CASE CloseFile \/ SignalReady \/ Free \/ EndThread \/ UNCHANGED vars
  BY <1>18, <1>20 DEF CloseFile, SignalReady, Free, EndThread, vars
<1> QED
  BY <1>1, <1>2, <1>3, <1>4, <1>5, <1>6, <1>7, <1>8, <1>9, <1>10, <1>11, <1>12,
     <1>13, <1>14, <1>15, <1>16, <1>17, <1>19, <1>20
     DEF Next, Control, ControlGoesOn, Encoder, EncoderGoesOn, Mux, MuxGoesOn

(* The invariant is inductive.                                             *)
LEMMA NextIInv == IInv /\ [Next]_vars => IInv'
<1> SUFFICES ASSUME IInv, [Next]_vars PROVE IInv'
  OBVIOUS
<1> QED
  BY TypeStep, ThreadStep, FileStep, WriteStep, StopStep, BeginFinishStep,
     NameStep, AcceptStep DEF IInv

(* The strengthened invariant holds in every state of the specification.   *)
LEMMA Inductive == Spec => []IInv
<1> QED BY InitIInv, NextIInv, PTL DEF Spec

-----------------------------------------------------------------------------
(* The state of the four threads keeps its types; no packet is taken from  *)
(* an empty queue.                                                         *)
THEOREM TypeCorrect == Spec => []TypeOK
<1>1. IInv => TypeOK
  BY DEF IInv
<1> QED BY <1>1, Inductive, PTL

(* However often writes fail and flags are left behind, no capture is      *)
(* reported as ready twice, and a file without a name is reported only     *)
(* when the end of a capture was marked too late, the mux thread overtook  *)
(* the encoder thread, or a write failed.                                  *)
THEOREM ReadyOnce == Spec => []ReadyIsAsked
<1>1. IInv => ReadyIsAsked
  <2> SUFFICES ASSUME IInv PROVE ReadyIsAsked
    OBVIOUS
  <2>1. \A c \in Capture : announced[c] <= 1
    BY DEF IInv, FileInv
  <2>2. mishaps \cap {"failure", "late_finish", "overtaken"} = {} => announced[Unasked] = 0
    BY DEF IInv, NameInv, Spared
  <2>3. ~ (0 > 0)
    OBVIOUS
  <2> QED BY <2>1, <2>2, <2>3 DEF ReadyIsAsked
<1> QED BY <1>1, Inductive, PTL

(* The next session of the output finds none of the flags that the last    *)
(* one set, but by the one mishap that can leave each.                     *)
THEOREM CleanAtRest == Spec => []RestIsClean
<1>1. IInv => RestIsClean
  <2> SUFFICES ASSUME IInv, Rest PROVE RestIsClean
    BY DEF RestIsClean
  <2> USE DEF Rest, IInv
  <2>1. ~ stream.muxing /\ ~ stream.capturing_replay /\ ~ stream.replay_stopping
    BY DEF ThreadInv
  <2>2. "failure" \notin mishaps => ~ stream.active /\ stream.pending = 0
    BY DEF WriteInv, Spared
  <2>3. "failure" \notin mishaps /\ "late_stop" \notin mishaps =>
          stream.stopping = "no" /\ output.stopping_event
    BY DEF StopInv, Spared
  <2>4. "failure" \notin mishaps /\ "late_capture" \notin mishaps => ~ stream.save_start
    BY DEF BeginInv, Spared
  <2>5. "failure" \notin mishaps /\ "late_finish" \notin mishaps => ~ stream.save_ts
    BY DEF FinishInv, Spared
  <2> QED BY <2>1, <2>2, <2>3, <2>4, <2>5 DEF RestIsClean
<1> QED BY <1>1, Inductive, PTL

(* A capture that was accepted begins, and one that has begun is reported  *)
(* before its file is forgotten, whichever thread ends it, unless its      *)
(* session is over, a write failed, the mux thread overtook the encoder    *)
(* thread or the capture was accepted from a session that had ended.       *)
THEOREM CaptureKept == Spec => CaptureIsKept
<1> DEFINE Kept == \A c \in 1 .. captures :
                     Held(c) /\ ~ Held(c)' =>
                       \/ announced[c] = 1
                       \/ enc \in {"off", "clear"}
                       \/ mishaps' \cap {"failure", "overtaken", "late_capture"} # {}
<1>1. ASSUME IInv, [Next]_vars, NEW c \in 1 .. captures, Held(c), ~ Held(c)',
             enc \notin {"off", "clear"}, Spared({"failure", "overtaken", "late_capture"})'
      PROVE  announced[c] = 1
  <2>s. /\ Spared({"failure"}) /\ Spared({"failure", "late_capture"})
        /\ Spared({"failure", "overtaken", "late_capture"})
    BY <1>1, MishapsGrow DEF Spared
  <2>n. "overtaken" \notin mishaps'
    BY <1>1 DEF Spared
  <2>0. StreamOK /\ c # Unasked
    BY <1>1 DEF IInv, TypeOK, StreamOK, Unasked
  <2>w. /\ mux \notin {"fail", "fail_stop"}
        /\ Told /\ stream.path # Unasked => announced[stream.path] = 1
        /\ ctl = "reset" => ~ stream.save_start
        /\ ctl = "capture" => ~ stream.save_start
        /\ stream.capturing_replay => stream.replay_path = Unasked
    BY <1>1, <2>s DEF IInv, WriteInv, BeginInv, AcceptInv
  <2> USE <2>0 DEF StreamOK, Held
  <2>1. CASE MuxDone
    <3>1. stream.path = c /\ mux = "flags"
      BY <1>1, <2>1 DEF MuxDone
    <3> QED BY <2>w, <3>1 DEF Told
  <2>2. CASE BeginCapture \/ Save
    <3>1. stream.replay_path = c /\ stream'.path = stream.replay_path /\ mux' = "open"
      BY <1>1, <2>2 DEF BeginCapture, Save, OpenFile
    <3> QED BY <1>1, <3>1
  <2>3. CASE StartResets
    BY <1>1, <2>3, <2>w DEF StartResets
  <2>4. CASE CaptureAccepted
    BY <1>1, <2>4, <2>w DEF CaptureAccepted
  <2>5. CASE CaptureEnds
    BY <1>1, <2>5, <2>w DEF CaptureEnds, StopCaptureReplay
  <2>6. CASE CaptureReset
    <3>1. stream.replay_path = Unasked
      BY <2>6, <2>n DEF CaptureReset, Overtaken
    <3> QED BY <1>1, <2>6, <3>1 DEF CaptureReset
  <2>7. CASE DeactivateOff \/ Clear \/ FailOff \/ FailStop
    BY <1>1, <2>7, <2>w DEF DeactivateOff, Clear, FailOff, FailStop
  <2>8. ASSUME UNCHANGED << stream.path, stream.replay_path, stream.save_start >>,
               mux' = "done" => mux = "done"
        PROVE  FALSE
    BY <1>1, <2>8
  <2>9. CASE Control
    BY <2>3, <2>4, <2>8, <2>9
       DEF Control, ControlGoesOn, StartCalled, CaptureCalled, FinishCalled,
           StopCalled, StartRefused, StartBegins, FinishMarked, StopActs
  <2>10. CASE Encoder
    BY <2>2, <2>5, <2>7, <2>8, <2>10
       DEF Encoder, EncoderGoesOn, PacketStops, EncoderFails, PacketBegins,
           PacketQueued, PacketSeen, BeginWaits, NothingToEnd,
           DeactivateSignal, DeactivateJoin
  <2>11. CASE Mux
    BY <2>1, <2>6, <2>7, <2>8, <2>11
       DEF Mux, MuxGoesOn, NoPipe, WriteFails, OpenPipe, WriteBuffer,
           WritePacket, LoopEnds, CloseFile, SignalReady, CaptureOver, Free
  <2> QED BY <1>1, <2>8, <2>9, <2>10, <2>11 DEF Next, EndThread, vars
<1>2. IInv /\ [Next]_vars => [Kept]_vars
  BY <1>1 DEF Spared
<1> QED BY <1>2, Inductive, PTL DEF Spec, CaptureIsKept

(* The buffer of a session that nobody stopped goes on, unless a write or  *)
(* the encoder failed or a stop came after the session it was for: nothing *)
(* else that the mux thread or an earlier session leaves ends it.          *)
THEOREM EndsExplained == Spec => EndsForAReason
<1> DEFINE Explained == on /\ ~ on' =>
                          \/ ~ output.stopping_event
                          \/ mishaps \cap {"failure", "late_stop", "encoder"} # {}
<1>1. ASSUME IInv, [Next]_vars, on, ~ on', Spared({"failure", "late_stop", "encoder"})
      PROVE  ~ output.stopping_event
  <2>s. /\ Spared({"failure"}) /\ Spared({"failure", "late_stop"})
        /\ "encoder" \notin mishaps
    BY <1>1 DEF Spared
  <2>w. /\ mux \notin {"fail", "fail_stop"} /\ enc # "encode_error"
        /\ enc = "deactivate" => stream.stopping # "no"
        /\ on /\ stream.stopping # "no" => ~ output.stopping_event
    BY <1>1, <2>s DEF IInv, ThreadInv, WriteInv, StopInv
  <2>1. CASE DeactivateSignal
    BY <1>1, <2>1, <2>w DEF DeactivateSignal
  <2>2. CASE FailOff \/ FailStop
    BY <2>2, <2>w DEF FailOff, FailStop
  <2>3. CASE UNCHANGED on \/ on'
    BY <1>1, <2>3
  <2> QED
    BY <1>1, <2>1, <2>2, <2>3
       DEF Next, Control, ControlGoesOn, Encoder, EncoderGoesOn, Mux,
           MuxGoesOn, EndThread, vars, StartCalled, CaptureCalled,
           FinishCalled, StopCalled, StartRefused, StartBegins, StartResets,
           CaptureAccepted, FinishMarked, StopActs, PacketStops, EncoderFails,
           PacketBegins, PacketQueued, PacketSeen, BeginWaits, BeginCapture,
           CaptureEnds, NothingToEnd, Save, DeactivateOff, Clear,
           DeactivateJoin, NoPipe, WriteFails, OpenPipe, WriteBuffer,
           WritePacket, LoopEnds, CloseFile, SignalReady, CaptureOver,
           CaptureReset, Free, MuxDone
<1>2. IInv /\ [Next]_vars => [Explained]_vars
  BY <1>1 DEF Spared
<1> QED BY <1>2, Inductive, PTL DEF Spec, EndsForAReason
=============================================================================
