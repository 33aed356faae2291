---------------------------- MODULE ReplayBuffer ----------------------------
(***************************************************************************)
(* The replay buffer of obs-ffmpeg, as this repository changed it, on the  *)
(* libobs output that runs it.  It keeps the last packets of the encoders; *)
(* a capture is a file that begins with them and goes on until it is told  *)
(* to end.                                                                 *)
(*                                                                         *)
(* Four threads.  The control thread starts and stops the output and       *)
(* begins and ends captures; its calls come from several threads of        *)
(* ascent-obs, one at a time, because OBS and ReplayOutput lock.  The      *)
(* encoder thread brings packets, one at a time under interleaved_mutex.   *)
(* The mux thread writes one file.  The end thread of libobs takes the     *)
(* encoders from the output.  Nearly everything they share is read and     *)
(* written without a lock, so a step is what one thread does between two   *)
(* accesses to what another one writes.  Two steps are longer: a packet is *)
(* looked at and queued in one, and stop_capture_replay is one; the mux    *)
(* thread sleeps 12 ms or 30 ms before it writes what they read.           *)
(*                                                                         *)
(* A packet that finds nothing to do but to be kept in the buffer changes  *)
(* nothing here.  Time stamps are left out: a packet may be older or newer *)
(* than the time of a stop.                                                *)
(***************************************************************************)
EXTENDS Naturals, FiniteSets

CONSTANTS MaxSessions,  (* bound: how often the output is started          *)
          MaxCaptures,  (* bound: how many captures are accepted           *)
          MaxMishaps,   (* bound: how many mishaps are begun, see below    *)
          MaxPending    (* bound: packets waiting for the mux thread       *)

ASSUME ReplayBufferAssumption ==
  /\ {MaxSessions, MaxCaptures, MaxMishaps} \subseteq Nat
  /\ MaxPending \in Nat \ {0}

VARIABLES
  on,        (* between the "start" and the "stop" signal: what ReplayOutput *)
             (* calls active_                                                *)
  session,   (* the sessions of the output so far                            *)
  output,    (* the libobs output                                            *)
  stream,    (* struct ffmpeg_muxer; stopping also says whether stop_ts is a *)
             (* time ("later") or 0 ("now")                                  *)
  ctl, enc, mux,           (* where the three threads are                    *)
  resume,    (* where the mux thread goes on after a failed write            *)
  captures,  (* the captures accepted so far                                 *)
  announced, (* how often the file of each capture was reported as ready     *)
  mishaps    (* what went wrong so far                                       *)

history == << captures, announced, mishaps >>
vars == << on, session, output, stream, ctl, enc, mux, resume, history >>

Capture == 1 .. MaxCaptures
Unasked == 0             (* a file with a generated name *)

(* The control thread checks and then acts: the session may end between    *)
(* the two ("late_capture", "late_stop"), and so may the capture           *)
(* ("late_finish").  The mux thread may end a capture while a packet is    *)
(* about to begin or to end one, or after the next one was accepted        *)
(* ("overtaken").  The pipe may not open or a write may fail ("failure"),  *)
(* and so may the encoder ("encoder").                                     *)
MishapNames == {"late_capture", "late_stop", "late_finish", "overtaken",
                "failure", "encoder"}

Mishap(name) ==
  /\ Cardinality(mishaps) < MaxMishaps \/ name \in mishaps
  /\ mishaps' = mishaps \cup {name}

MishapIf(hit, name) == IF hit THEN Mishap(name) ELSE UNCHANGED mishaps

Init ==
  /\ on = FALSE /\ session = 0
  /\ output = [active |-> FALSE, data_active |-> FALSE, stopping_event |-> TRUE]
  /\ stream = [active |-> FALSE, capturing |-> FALSE, stopping |-> "no",
               save_start |-> FALSE, save_ts |-> FALSE,
               capturing_replay |-> FALSE, replay_stopping |-> FALSE,
               muxing |-> FALSE, pipe |-> FALSE, video_created |-> FALSE,
               pending |-> 0, replay_path |-> Unasked, path |-> Unasked]
  /\ ctl = "idle" /\ enc = "idle" /\ mux = "done" /\ resume = "loop"
  /\ captures = 0 /\ announced = [c \in {Unasked} \cup Capture |-> 0]
  /\ mishaps = {}

-----------------------------------------------------------------------------
(* libobs: obs_output_end_data_capture and obs_output_signal_stop, with    *)
(* the handler of the "stop" signal as far as it matters here.             *)
EndDataCapture ==
  /\ output' = IF output.active /\ output.data_active
               THEN [output EXCEPT !.data_active = FALSE]
               ELSE [output EXCEPT !.stopping_event = TRUE]
  /\ on' = FALSE

(* end_data_capture_thread.  It waits for the callback of the encoders to  *)
(* return.                                                                 *)
EndThread ==
  /\ output.active /\ ~ output.data_active /\ enc = "idle"
  /\ output' = [output EXCEPT !.active = FALSE, !.stopping_event = TRUE]
  /\ UNCHANGED << on, session, stream, ctl, enc, mux, resume, history >>

-----------------------------------------------------------------------------
(* The control thread.  obs_output_start waits for stopping_event; it is   *)
(* refused while the output is active, or when an encoder does not open.   *)
StartCalled ==
  /\ ctl = "idle" /\ ~ on /\ session < MaxSessions
  /\ ctl' = "start"
  /\ UNCHANGED << on, session, output, stream, enc, mux, resume, history >>

StartRefused ==
  /\ ctl = "start" /\ output.stopping_event
  /\ ctl' = "idle"
  /\ UNCHANGED << on, session, output, stream, enc, mux, resume, history >>

(* replay_buffer_start up to the "start" signal, and the rest of it        *)
StartBegins ==
  /\ ctl = "start" /\ output.stopping_event /\ ~ output.active
  /\ stream' = [stream EXCEPT !.active = TRUE, !.capturing = TRUE]
  /\ output' = [output EXCEPT !.active = TRUE, !.data_active = TRUE]
  /\ on' = TRUE
  /\ session' = session + 1
  /\ ctl' = "reset"
  /\ UNCHANGED << enc, mux, resume, history >>

StartResets ==
  /\ ctl = "reset"
  /\ stream' = [stream EXCEPT !.save_start = FALSE, !.capturing_replay = FALSE]
  /\ ctl' = "idle"
  /\ UNCHANGED << on, session, output, enc, mux, resume, history >>

(* A slip: a capture that waits for its first packet is not looked for.    *)
CaptureCalledTwice ==
  /\ ctl = "idle" /\ on /\ captures < MaxCaptures
  /\ stream.active /\ ~ stream.capturing_replay
  /\ ctl' = "capture"
  /\ UNCHANGED << on, session, output, stream, enc, mux, resume, history >>

(* start_capute_replay: its checks, and what it sets.  A call that the     *)
(* checks refuse changes nothing.                                          *)
CaptureCalled ==
  /\ ctl = "idle" /\ on /\ captures < MaxCaptures
  /\ stream.active /\ ~ stream.capturing_replay /\ ~ stream.save_start
  /\ ctl' = "capture"
  /\ UNCHANGED << on, session, output, stream, enc, mux, resume, history >>

CaptureAccepted ==
  /\ ctl = "capture"
  /\ stream' = [stream EXCEPT !.replay_path = captures + 1, !.save_start = TRUE]
  /\ captures' = captures + 1
  /\ MishapIf(~ on, "late_capture")
  /\ ctl' = "idle"
  /\ UNCHANGED << on, session, output, enc, mux, resume, announced >>

(* stop_capute_replay, likewise                                            *)
FinishCalled ==
  /\ ctl = "idle" /\ on
  /\ stream.active /\ stream.save_start /\ stream.capturing_replay
  /\ ctl' = "finish"
  /\ UNCHANGED << on, session, output, stream, enc, mux, resume, history >>

FinishMarked ==
  /\ ctl = "finish"
  /\ stream' = [stream EXCEPT !.save_ts = TRUE]
  /\ MishapIf(~ stream.save_start, "late_finish")
  /\ ctl' = "idle"
  /\ UNCHANGED << on, session, output, enc, mux, resume, captures, announced >>

(* obs_output_stop, which does nothing once the output stops, and          *)
(* obs_output_force_stop; ReplayOutput calls them while active_.           *)
StopCalled ==
  /\ ctl = "idle" /\ on
  /\ \/ ctl' = "force_stop"
     \/ output.active /\ output.stopping_event /\ ctl' = "stop"
  /\ UNCHANGED << on, session, output, stream, enc, mux, resume, history >>

(* obs_output_actual_stop, ffmpeg_mux_stop.  An output that was not active *)
(* when it began gets its event back; one that ends meanwhile does not.    *)
StopActs ==
  /\ ctl \in {"stop", "force_stop"}
  /\ \E was_active \in {output.active, TRUE} :
       output' = [output EXCEPT !.stopping_event = ~ was_active]
  /\ stream' = IF stream.capturing \/ ctl = "force_stop"
               THEN [stream EXCEPT !.capturing = FALSE,
                       !.stopping = IF ctl = "stop" THEN "later" ELSE "now"]
               ELSE stream
  /\ MishapIf(~ on, "late_stop")
  /\ ctl' = "idle"
  /\ UNCHANGED << on, session, enc, mux, resume, captures, announced >>

ControlGoesOn ==
  \/ StartRefused \/ StartBegins \/ StartResets
  \/ CaptureAccepted \/ FinishMarked \/ StopActs

Control ==
  StartCalled \/ CaptureCalled \/ FinishCalled \/ StopCalled \/ ControlGoesOn

-----------------------------------------------------------------------------
(* The encoder thread: interleave_packets, which looks at active and not   *)
(* at data_active, and replay_buffer_data.                                 *)
PacketArrives == enc = "idle" /\ output.active /\ stream.active

PacketStops ==
  /\ PacketArrives
  /\ stream.stopping # "no"
  /\ enc' = "deactivate"
  /\ UNCHANGED << on, session, output, stream, ctl, mux, resume, history >>

(* full_stop of an encoder that failed: obs_output_force_stop, and then no *)
(* packet.                                                                 *)
EncoderFails ==
  /\ PacketArrives
  /\ Mishap("encoder")
  /\ output' = [output EXCEPT !.stopping_event = FALSE]
  /\ stream' = [stream EXCEPT !.capturing = FALSE, !.stopping = "now"]
  /\ enc' = "encode_error"
  /\ UNCHANGED << on, session, ctl, mux, resume, captures, announced >>

PacketBegins ==
  /\ PacketArrives
  /\ stream.stopping # "now"
  /\ stream.save_start /\ ~ stream.capturing_replay /\ ~ stream.muxing
  /\ enc' = "begin"
  /\ UNCHANGED << on, session, output, stream, ctl, mux, resume, history >>

(* save_ts is a time: the packet may be older                              *)
AfterPacket == {"idle"} \cup IF stream.save_ts THEN {"mark"} ELSE {}

PacketQueued ==
  /\ PacketArrives
  /\ stream.stopping # "now"
  /\ stream.save_start /\ stream.capturing_replay
  /\ stream' = [stream EXCEPT !.pending = IF @ < MaxPending THEN @ + 1 ELSE @]
  /\ enc' \in AfterPacket
  /\ UNCHANGED << on, session, output, ctl, mux, resume, history >>

PacketSeen ==
  /\ PacketArrives
  /\ stream.stopping # "now"
  /\ ~ stream.save_start /\ stream.save_ts
  /\ enc' = "mark"
  /\ UNCHANGED << on, session, output, stream, ctl, mux, resume, history >>

(* the end of replay_buffer_start_capture and of replay_buffer_save        *)
OpenFile(capturing) ==
  /\ stream' = [stream EXCEPT !.path = stream.replay_path,
       !.replay_path = Unasked, !.muxing = TRUE,
       !.save_ts = capturing /\ @, !.capturing_replay = capturing \/ @]
  /\ mux' = "open"

(* The packet joins the mux thread.  The buffer may have no picture yet:   *)
(* the capture waits for the next packet.                                  *)
BeginWaits ==
  /\ enc = "begin" /\ mux = "done"
  /\ enc' = "idle"
  /\ UNCHANGED << on, session, output, stream, ctl, mux, resume, history >>

BeginCapture ==
  /\ enc = "begin" /\ mux = "done"
  /\ OpenFile(TRUE)
  /\ enc' \in AfterPacket
  /\ UNCHANGED << on, session, output, ctl, resume, history >>

(* A slip: the mux thread is not told to stop.                             *)
StopCaptureReplayUnheard ==
  [stream EXCEPT !.save_ts = FALSE, !.save_start = FALSE]

(* stop_capture_replay *)
StopCaptureReplay ==
  [stream EXCEPT !.replay_stopping = @ \/ stream.capturing_replay,
                 !.save_ts = FALSE, !.save_start = FALSE]

(* The packet is as new as save_ts, or force_stop_capture_replay has       *)
(* waited long enough for one.                                             *)
CaptureEnds ==
  /\ enc = "mark" /\ stream.capturing_replay
  /\ stream' = StopCaptureReplay
  /\ enc' = "idle"
  /\ UNCHANGED << on, session, output, ctl, mux, resume, history >>

NothingToEnd ==
  /\ enc = "mark" /\ ~ stream.capturing_replay
  /\ enc' = IF stream.muxing THEN "idle" ELSE "save"
  /\ UNCHANGED << on, session, output, stream, ctl, mux, resume, history >>

Save ==
  /\ enc = "save" /\ mux = "done"
  /\ OpenFile(FALSE)
  /\ enc' = "idle"
  /\ UNCHANGED << on, session, output, ctl, resume, history >>

(* deactivate_replay_buffer *)
DeactivateSignal ==
  /\ enc \in {"deactivate", "encode_error"}
  /\ IF enc = "encode_error" \/ stream.stopping # "no"
     THEN EndDataCapture ELSE UNCHANGED << on, output >>
  /\ enc' = "off"
  /\ UNCHANGED << session, stream, ctl, mux, resume, history >>

(* A slip: the capture is left to the mux thread.                          *)
DeactivateOffAlone ==
  /\ enc = "off"
  /\ stream' = [stream EXCEPT !.active = FALSE, !.stopping = "no"]
  /\ enc' = "clear"
  /\ UNCHANGED << on, session, output, ctl, mux, resume, history >>

(* A slip: the flag of this stop is left for the next session.             *)
DeactivateOffStopping ==
  /\ enc = "off"
  /\ LET stopped == IF stream.capturing_replay THEN StopCaptureReplay ELSE stream
     IN stream' = [stopped EXCEPT !.active = FALSE]
  /\ enc' = "clear"
  /\ UNCHANGED << on, session, output, ctl, mux, resume, history >>

DeactivateOff ==
  /\ enc = "off"
  /\ LET stopped == IF stream.capturing_replay THEN StopCaptureReplay ELSE stream
     IN stream' = [stopped EXCEPT !.active = FALSE, !.stopping = "no"]
  /\ enc' = "clear"
  /\ UNCHANGED << on, session, output, ctl, mux, resume, history >>

(* replay_buffer_clear; it pops the packets without the lock               *)
Clear ==
  /\ enc = "clear"
  /\ stream' = [stream EXCEPT !.save_ts = FALSE, !.save_start = FALSE,
                              !.capturing_replay = FALSE, !.pending = 0]
  /\ enc' = "join"
  /\ UNCHANGED << on, session, output, ctl, mux, resume, history >>

DeactivateJoin ==
  /\ enc = "join" /\ mux = "done"
  /\ enc' = "idle"
  /\ UNCHANGED << on, session, output, stream, ctl, mux, resume, history >>

EncoderGoesOn ==
  \/ BeginWaits \/ BeginCapture \/ CaptureEnds \/ NothingToEnd \/ Save
  \/ DeactivateSignal \/ DeactivateOff \/ Clear \/ DeactivateJoin

Encoder ==
  \/ PacketStops \/ EncoderFails \/ PacketBegins \/ PacketQueued \/ PacketSeen
  \/ EncoderGoesOn

-----------------------------------------------------------------------------
(* The mux thread: replay_buffer_mux_thread                                *)
OpenPipe ==
  /\ mux = "open"
  /\ mux' = "write"
  /\ stream' = [stream EXCEPT !.pipe = TRUE]
  /\ UNCHANGED << on, session, output, ctl, enc, resume, history >>

NoPipe ==
  /\ mux = "open"
  /\ Mishap("failure")
  /\ mux' = "free"
  /\ UNCHANGED << on, session, output, stream, ctl, enc, resume, captures,
                  announced >>

(* The headers and the packets of the buffer are written.  A capture goes  *)
(* on; a saved buffer, and a capture that was ended by then, is complete.  *)
WriteBuffer ==
  /\ mux = "write"
  /\ mux' = IF stream.capturing_replay THEN "loop" ELSE "free"
  /\ stream' = [stream EXCEPT !.video_created = ~ stream.capturing_replay]
  /\ UNCHANGED << on, session, output, ctl, enc, resume, history >>

(* A slip: the queue is not looked at before a packet is taken from it.    *)
WritePending ==
  /\ mux \in {"loop", "drain"} /\ stream.pipe
  /\ stream' = [stream EXCEPT !.pending = @ - 1]
  /\ UNCHANGED << on, session, output, ctl, enc, mux, resume, history >>

WritePacket ==
  /\ mux \in {"loop", "drain"} /\ stream.pending > 0 /\ stream.pipe
  /\ stream' = [stream EXCEPT !.pending = @ - 1]
  /\ UNCHANGED << on, session, output, ctl, enc, mux, resume, history >>

LoopEnds ==
  /\ mux = "loop"
  /\ stream.stopping # "no" \/ stream.replay_stopping
  /\ mux' = "drain"
  /\ UNCHANGED << on, session, output, stream, ctl, enc, resume, history >>

(* write_packet fails; without a pipe it always does.                      *)
WriteFails ==
  /\ \/ /\ mux = "write"
        /\ resume' = "free"
        /\ UNCHANGED stream
     \/ /\ mux \in {"loop", "drain"} /\ stream.pending > 0
        /\ resume' = mux
        /\ stream' = [stream EXCEPT !.pending = @ - 1]
  /\ MishapIf(stream.pipe, "failure")
  /\ mux' = "fail"
  /\ UNCHANGED << on, session, output, ctl, enc, captures, announced >>

(* signal_failure2: deactivate(stream, 0), then the "stop" signal          *)
FailOff ==
  /\ mux = "fail"
  /\ IF stream.stopping # "no" THEN EndDataCapture ELSE UNCHANGED << on, output >>
  /\ stream' = [stream EXCEPT !.active = FALSE, !.pipe = @ /\ ~ stream.active,
                              !.stopping = "no", !.replay_stopping = FALSE]
  /\ mux' = "fail_stop"
  /\ UNCHANGED << session, ctl, enc, resume, history >>

FailStop ==
  /\ mux = "fail_stop"
  /\ EndDataCapture
  /\ stream' = [stream EXCEPT !.capturing = FALSE]
  /\ mux' = resume /\ resume' = "loop"
  /\ UNCHANGED << session, ctl, enc, history >>

(* replay_buffer_stop_mux_thread *)
CloseFile ==
  /\ mux = "drain" /\ stream.pending = 0
  /\ stream' = [stream EXCEPT !.muxing = FALSE, !.pipe = FALSE]
  /\ mux' = "ready"
  /\ UNCHANGED << on, session, output, ctl, enc, resume, history >>

(* obs_output_signal_replay_ready; it is counted up to two                 *)
SignalReady ==
  /\ mux \in {"ready", "created"}
  /\ announced' = [announced EXCEPT ![stream.path] = IF @ < 2 THEN @ + 1 ELSE @]
  /\ mux' = IF mux = "ready" THEN "uncapture" ELSE "flags"
  /\ UNCHANGED << on, session, output, stream, ctl, enc, resume, captures,
                  mishaps >>

CaptureOver ==
  /\ mux = "uncapture"
  /\ stream' = [stream EXCEPT !.capturing_replay = FALSE]
  /\ mux' = "reset"
  /\ UNCHANGED << on, session, output, ctl, enc, resume, history >>

Overtaken ==
  mishaps' = IF enc \in {"begin", "mark", "save"} \/ stream.replay_path # Unasked
             THEN mishaps \cup {"overtaken"} ELSE mishaps

(* A slip: the start of the capture is not forgotten.                      *)
CaptureResetKept ==
  /\ mux = "reset"
  /\ stream' = [stream EXCEPT !.save_ts = FALSE]
  /\ Overtaken
  /\ mux' = "free"
  /\ UNCHANGED << on, session, output, ctl, enc, resume, captures, announced >>

CaptureReset ==
  /\ mux = "reset"
  /\ stream' = [stream EXCEPT !.save_ts = FALSE, !.save_start = FALSE]
  /\ Overtaken
  /\ mux' = "free"
  /\ UNCHANGED << on, session, output, ctl, enc, resume, captures, announced >>

(* the pipe and the packets that are left; this too without the lock       *)
Free ==
  /\ mux = "free"
  /\ mux' = IF stream.video_created THEN "created" ELSE "flags"
  /\ stream' = [stream EXCEPT !.pipe = FALSE, !.pending = 0]
  /\ UNCHANGED << on, session, output, ctl, enc, resume, history >>

(* A slip: the next capture finds the order to stop.                       *)
MuxDoneStopping ==
  /\ mux = "flags"
  /\ stream' = [stream EXCEPT !.muxing = FALSE, !.capturing_replay = FALSE,
                              !.path = Unasked, !.video_created = FALSE]
  /\ mux' = "done"
  /\ UNCHANGED << on, session, output, ctl, enc, resume, history >>

(* path is read by nobody until it is set again, video_created is local.   *)
MuxDone ==
  /\ mux = "flags"
  /\ stream' = [stream EXCEPT !.muxing = FALSE, !.capturing_replay = FALSE,
                              !.replay_stopping = FALSE,
                              !.path = Unasked, !.video_created = FALSE]
  /\ mux' = "done"
  /\ UNCHANGED << on, session, output, ctl, enc, resume, history >>

MuxGoesOn ==
  \/ OpenPipe \/ WriteBuffer \/ WritePacket \/ LoopEnds
  \/ FailOff \/ FailStop
  \/ CloseFile \/ SignalReady \/ CaptureOver \/ CaptureReset
  \/ Free \/ MuxDone

Mux == NoPipe \/ WriteFails \/ MuxGoesOn

Next == Control \/ Encoder \/ Mux \/ EndThread

(* Every thread goes on with what it has begun; nobody has to call, and    *)
(* nothing has to fail.  Packets keep coming while an output is active,    *)
(* and sooner or later one is newer than the time of a stop.  Without a    *)
(* pipe a write fails by itself.                                           *)
Fairness ==
  /\ WF_vars(EndThread)
  /\ WF_vars(ControlGoesOn)
  /\ WF_vars(EncoderGoesOn)
  /\ WF_vars(MuxGoesOn \/ (WriteFails /\ ~ stream.pipe))
  /\ SF_vars(PacketStops)
  /\ SF_vars(PacketQueued /\ enc' = "mark")

Spec == Init /\ [][Next]_vars

FairSpec == Spec /\ Fairness

-----------------------------------------------------------------------------
(* The properties.                                                         *)

TypeOK ==
  /\ on \in BOOLEAN /\ session \in 0 .. MaxSessions
  /\ output \in [active : BOOLEAN, data_active : BOOLEAN, stopping_event : BOOLEAN]
  /\ stream \in [active : BOOLEAN, capturing : BOOLEAN,
                 stopping : {"no", "later", "now"},
                 save_start : BOOLEAN, save_ts : BOOLEAN,
                 capturing_replay : BOOLEAN, replay_stopping : BOOLEAN,
                 muxing : BOOLEAN, pipe : BOOLEAN, video_created : BOOLEAN,
                 pending : 0 .. MaxPending, replay_path : {Unasked} \cup Capture,
                 path : {Unasked} \cup Capture]
  /\ ctl \in {"idle", "start", "reset", "capture", "finish", "stop", "force_stop"}
  /\ enc \in {"idle", "begin", "mark", "save", "deactivate", "encode_error",
              "off", "clear", "join"}
  /\ mux \in {"done", "open", "write", "loop", "drain", "fail", "fail_stop",
              "ready", "uncapture", "reset", "free", "created", "flags"}
  /\ resume \in {"loop", "drain", "free"}
  /\ captures \in 0 .. MaxCaptures
  /\ announced \in [{Unasked} \cup Capture -> 0 .. 2]
  /\ mishaps \subseteq MishapNames

(* The file of a capture is reported as ready at most once, on whichever   *)
(* of the two ways the mux thread ends; and a file nobody asked for, with  *)
(* a generated name, only when the end of a capture was marked at the      *)
(* wrong moment or a write failed.                                         *)
ReadyIsAsked ==
  /\ \A c \in Capture : announced[c] <= 1
  /\ announced[Unasked] > 0 => mishaps \cap {"failure", "late_finish", "overtaken"} # {}

Rest == ctl = "idle" /\ enc = "idle" /\ mux = "done" /\ ~ on /\ ~ output.active

(* When every thread is done and the output is off, nothing of a session   *)
(* is left in the flags for the next one, but by the mishaps that each     *)
(* conjunct names.                                                         *)
RestIsClean ==
  Rest =>
    /\ ~ stream.muxing /\ ~ stream.capturing_replay /\ ~ stream.replay_stopping
    /\ "failure" \notin mishaps =>
         /\ ~ stream.active
         /\ stream.pending = 0
         /\ stream.stopping = "no" \/ "late_stop" \in mishaps
         /\ output.stopping_event \/ "late_stop" \in mishaps
         /\ stream.save_start => "late_capture" \in mishaps
         /\ stream.save_ts => "late_finish" \in mishaps

Held(c) ==
  \/ stream.save_start /\ stream.replay_path = c
  \/ stream.path = c /\ mux # "done"

(* A capture that was accepted is not forgotten: it ends with a report, or *)
(* with the session.                                                       *)
CaptureIsKept ==
  [][\A c \in 1 .. captures :
       Held(c) /\ ~ Held(c)' =>
         \/ announced[c] = 1
         \/ enc \in {"off", "clear"}
         \/ mishaps' \cap {"failure", "overtaken", "late_capture"} # {}]_vars

(* The replay buffer never ends by itself: somebody stopped it, or a write *)
(* or the encoder failed, or a stop came after the session it was for.     *)
EndsForAReason ==
  [][on /\ ~ on' =>
       \/ ~ output.stopping_event
       \/ mishaps \cap {"failure", "late_stop", "encoder"} # {}]_vars

(* A session that is told to stop ends; the output that has ended lets go  *)
(* of its encoders, whose callback joins the mux thread; and               *)
(* obs_output_start, which waits for both, returns.                        *)
OutputSettles ==
  /\ ~ output.stopping_event /\ on ~> ~ on
  /\ output.active /\ ~ output.data_active ~>
       \/ ~ (output.active /\ ~ output.data_active)
       \/ mishaps \cap {"failure", "late_capture"} # {}
  /\ ctl = "start" ~> ctl # "start" \/ "late_stop" \in mishaps

(* A capture that was told to end is reported as ready.                    *)
FinishedIsReady ==
  \A c \in Capture :
    stream.save_ts /\ stream.path = c /\ mux # "done" ~>
      announced[c] > 0 \/ "failure" \in mishaps
=============================================================================
