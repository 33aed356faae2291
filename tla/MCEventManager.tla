--------------------------- MODULE MCEventManager ---------------------------
(* The instance of EventManager that TLC checks, after Recorder: start and *)
(* stop of a video recording are about one identifier and only start lists *)
(* the error event; save1 and save2 are two calls of save_replay_buffer.   *)
EXTENDS EventManager

CONSTANTS start, stop, save1, save2, video, replay,
          STARTED, STOPPED, READY

MCIdentifier == [c \in Call |-> IF c \in {start, stop} THEN video ELSE replay]
MCAccepted == [c \in Call |-> {IF c = stop THEN STOPPED ELSE STARTED}]
MCErrors == [c \in Call |-> IF c = start THEN {ERR} ELSE {}]
=============================================================================
