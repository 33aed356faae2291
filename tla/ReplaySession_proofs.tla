------------------------ MODULE ReplaySession_proofs ------------------------
(***************************************************************************)
(* Theorems about ReplaySession, for every number of identifiers, captures *)
(* and waiting tasks.  The inductive invariant has four parts: the types,  *)
(* what a capture in progress means, who may change the session while a    *)
(* start is under way, and where the reasons for a stop are kept.          *)
(***************************************************************************)
EXTENDS ReplaySession, TLAPS

(* active_ follows the output, so that a capture in progress is one of a   *)
(* live output unless the output ended before the capture was marked.      *)
CaptureInv ==
  /\ active_ <=> Live
  /\ capturing_replay_ /\ Spared({"late_capture"}) =>
       Live /\ capture \in {"asked", "ending"}

(* The identifiers that were not issued have no reports.                   *)
IssuedInv ==
  /\ {identifier_, replay, command, starting} \subseteq 0 .. last
  /\ \A i \in Id : i > last => reports[i] = {}

(* Until a START overlaps with the session before: nothing else runs while *)
(* the receiver or the command thread starts the output, a session that is *)
(* live or waits keeps its identifier, and has not been reported.          *)
SessionInv ==
  /\ rpc \in {"decide", "starting"} =>
       /\ ~ delay_active_ /\ ~ Live
       /\ epc = "idle" /\ cpc # "starting"
       /\ command # NoId /\ identifier_ \in {command, NoId}
       /\ "STOPPED" \in reports[command] => identifier_ = NoId
  /\ rpc = "starting" => identifier_ = command
  /\ cpc = "starting" => delay_active_ /\ identifier_ = starting
  /\ delay_active_ =>
       /\ ~ Live /\ epc = "idle"
       /\ identifier_ # NoId => "STOPPED" \notin reports[identifier_]
  /\ Live =>
       /\ epc = "idle"
       /\ identifier_ = replay /\ replay # NoId
       /\ "STOPPED" \notin reports[replay]

(* What may stop a replay later was left for one whose end was asked for.  *)
ReasonInv ==
  /\ rpc = "stop" =>
       command \in asked /\ identifier_ \in {command, NoId}
  /\ stop_replay_timer_ \in asked \cup {NoId}
  /\ stop_replay_on_replay_ready_ => flagged \in asked \cup {NoId}
  /\ Spared({"stale_flag"}) =>
       \A k \in 1 .. Len(task_queue_) :
         task_queue_[k][1] = "quit" => task_queue_[k][2] \in asked \cup {NoId}

IInv ==
  /\ TypeOK /\ CaptureInv /\ IssuedInv
  /\ Spared({"overlap"}) => SessionInv
  /\ ReasonInv

-----------------------------------------------------------------------------
(* An event that is reported adds to those of its identifier only.         *)
LEMMA WithReport ==
  ASSUME NEW i \in Id \cup {NoId}, NEW e \in {"STOPPED", "ERR"},
         reports \in [Id \cup {NoId} -> SUBSET {"STOPPED", "ERR"}]
  PROVE  /\ With(reports, i, e) \in [Id \cup {NoId} -> SUBSET {"STOPPED", "ERR"}]
         /\ With(reports, i, e)[i] = reports[i] \cup {e}
         /\ \A j \in Id \cup {NoId} : j # i => With(reports, i, e)[j] = reports[j]
BY DEF With

(* What the queue of tasks holds after front() and pop().                  *)
LEMMA HeadTail ==
  ASSUME NEW S, NEW q \in Seq(S), q # << >>
  PROVE  /\ 1 \in 1 .. Len(q) /\ Head(q) = q[1] /\ q[1] \in S
         /\ Tail(q) \in Seq(S)
         /\ \A k \in 1 .. Len(Tail(q)) : k + 1 \in 1 .. Len(q) /\ Tail(q)[k] = q[k + 1]
<1>1. Len(q) \in Nat /\ Len(q) # 0
  OBVIOUS
<1> QED BY <1>1

(* What the queue of tasks holds after push().                             *)
LEMMA AppendAtEnd ==
  ASSUME NEW S, NEW q \in Seq(S), NEW e \in S
  PROVE  /\ Append(q, e) \in Seq(S)
         /\ \A k \in 1 .. Len(Append(q, e)) :
              \/ k \in 1 .. Len(q) /\ Append(q, e)[k] = q[k]
              \/ Append(q, e)[k] = e
OBVIOUS

(* Whichever way a replay is stopped: one that waits does so no more, its   *)
(* output is live afterwards if it was before, and only one that is not    *)
(* live loses its identifier or is reported.                               *)
LEMMA StopEffect ==
  ASSUME TypeOK, CaptureInv, StopForced \/ StopUnforced
  PROVE  /\ delay_active_' => Live /\ delay_active_
         /\ delay_active_' \in BOOLEAN
         /\ identifier_' \in {identifier_, NoId}
         /\ output' \in {output, "stopping"} /\ (Live' <=> Live)
         /\ output' # output => output = "capturing" /\ ~ delay_active_
         /\ capture' = capture \/ (capture' = "ending" /\ Live)
         /\ reports' \in [Id \cup {NoId} -> SUBSET {"STOPPED", "ERR"}]
         /\ \/ reports' = reports
            \/ /\ ~ Live \/ delay_active_
               /\ \A i \in Id \cup {NoId} : i # identifier_ => reports'[i] = reports[i]
         /\ ~ Live /\ ~ delay_active_ => identifier_' = NoId
         /\ Live => identifier_' = identifier_
         /\ UNCHANGED << active_, capturing_replay_, replay >>
<1> USE DEF TypeOK
<1>1. identifier_ \in Id \cup {NoId} /\ identifier_ \in DOMAIN reports
  OBVIOUS
<1>2. With(reports, identifier_, "STOPPED") \in [Id \cup {NoId} -> SUBSET {"STOPPED", "ERR"}]
      /\ \A i \in Id \cup {NoId} : i # identifier_ => With(reports, identifier_, "STOPPED")[i] = reports[i]
  BY <1>1, WithReport
<1>3. CASE StopInactive /\ UNCHANGED << active_, capturing_replay_, replay, capture >>
  BY <1>1, <1>2, <1>3 DEF StopInactive, CaptureInv, Active, Live
<1>4. CASE StopDelayed /\ UNCHANGED << active_, capturing_replay_, replay, capture >>
  BY <1>1, <1>2, <1>4 DEF StopDelayed, Report, CaptureInv, Live
<1>5. CASE StopActive /\ UNCHANGED << active_, capturing_replay_, replay, capture >>
  BY <1>1, <1>2, <1>5 DEF StopActive, CaptureInv, Live
<1>6. CASE /\ capture' = "ending" /\ Live
           /\ UNCHANGED << identifier_, delay_active_, output, reports, active_, capturing_replay_, replay >>
  BY <1>1, <1>2, <1>6 DEF CaptureInv, Live
<1> QED BY <1>3, <1>4, <1>5, <1>6 DEF StopForced, StopUnforced

-----------------------------------------------------------------------------
(* The invariant holds at the start.                                       *)
LEMMA InitIInv == Init => IInv
<1> SUFFICES ASSUME Init PROVE IInv
  OBVIOUS
<1> USE ReplayAssumption DEF Init
<1>1. TypeOK
  <2>1. reports \in [Id \cup {NoId} -> SUBSET {"STOPPED", "ERR"}]
    OBVIOUS
  <2>2. task_queue_ \in Seq(Task) /\ asked \subseteq Id
    OBVIOUS
  <2>3. last \in 0 .. MaxId /\ captures \in 0 .. MaxCaptures
    OBVIOUS
  <2> QED BY <2>1, <2>2, <2>3 DEF TypeOK
<1>2. CaptureInv
  BY DEF CaptureInv, Live
<1>3. IssuedInv
  BY DEF IssuedInv, Id, NoId
<1>4. SessionInv
  BY DEF SessionInv, Live
<1>5. ReasonInv
  BY DEF ReasonInv
<1> QED BY <1>1, <1>2, <1>3, <1>4, <1>5 DEF IInv

(* Every step keeps the types.                                             *)
LEMMA TypeStep ==
  ASSUME TypeOK, CaptureInv, IssuedInv, [Next]_vars
  PROVE  TypeOK'
<1> USE ReplayAssumption DEF TypeOK
<1>1. CASE UNCHANGED vars
  BY <1>1 DEF vars, flags, ready, receiver, commands
<1>2. CASE ReceiveStart
  <2>1. last' \in Id /\ last' \in 0 .. MaxId
    BY <1>2 DEF ReceiveStart, Id
  <2>2. With(reports, last', "ERR") \in [Id \cup {NoId} -> SUBSET {"STOPPED", "ERR"}]
    BY <2>1, WithReport
  <2> QED BY <1>2, <2>1, <2>2 DEF ReceiveStart, Report, flags, ready, commands
<1>3. CASE StartAsDelay
  BY <1>3 DEF StartAsDelay, Return, ready, commands
<1>4. CASE DoStart
  BY <1>4, WithReport DEF DoStart, Refuse, Return, Report, flags, ready, commands
<1>5. CASE StartReplayReturns
  <2>1. (active_ \in BOOLEAN)' /\ (delay_active_ \in BOOLEAN)'
    BY <1>5 DEF StartReplayReturns, OutputStarts, OutputRefuses
  <2>2. (reports \in [Id \cup {NoId} -> SUBSET {"STOPPED", "ERR"}])'
    BY <1>5, WithReport DEF StartReplayReturns, Refuse, Report
  <2> QED BY <1>5, <2>1, <2>2 DEF StartReplayReturns, OutputStarts,
          OutputRefuses, Refuse, Return, ready, commands
<1>6. ASSUME NEW i \in Id, ReceiveStop(i) PROVE TypeOK'
  BY <1>6, WithReport DEF ReceiveStop, Report, flags, ready, commands
<1>7. CASE StopReplay
  BY <1>7, StopEffect DEF StopReplay, StopForced, Return, ready, commands
<1>8. CASE StartCaptureReplay
  BY <1>8 DEF StartCaptureReplay, flags, ready, commands
<1>9. CASE MarkCapture
  BY <1>9 DEF MarkCapture, ready, commands
<1>10. CASE StopCaptureReplay
  BY <1>10 DEF StopCaptureReplay, flags, ready, receiver, commands
<1>11. CASE AddGameSource
  BY <1>11 DEF AddGameSource, flags, ready, receiver, commands
<1>12. CASE Captured
  <2>1. Append(task_queue_, << "captured", NoId >>) \in Seq(Task)
    BY AppendAtEnd DEF Task
  <2> QED BY <1>12, <2>1 DEF Captured, Post, flags, ready, receiver
<1>13. CASE GameQuits
  <2>1. Append(task_queue_, << "exit", NoId >>) \in Seq(Task)
    BY AppendAtEnd DEF Task
  <2> QED BY <1>13, <2>1 DEF GameQuits, Post, flags, ready, receiver
<1>14. CASE HandleCaptured
  BY <1>14, HeadTail DEF HandleCaptured, Take, DelayActive, flags, ready, receiver
<1>15. CASE PendingStartReturns
  <2>1. (active_ \in BOOLEAN)' /\ (delay_active_ \in BOOLEAN)'
    BY <1>15 DEF PendingStartReturns, OutputStarts, OutputRefuses
  <2>2. (reports \in [Id \cup {NoId} -> SUBSET {"STOPPED", "ERR"}])'
    BY <1>15, WithReport DEF PendingStartReturns, Report
  <2>3. starting \in Id /\ (identifier_ \in Id \cup {NoId})' /\ (replay \in Id \cup {NoId})'
    BY <1>15 DEF PendingStartReturns, OutputStarts, OutputRefuses
  <2> QED BY <1>15, <2>1, <2>2, <2>3 DEF PendingStartReturns, OutputStarts,
          OutputRefuses, ready, receiver
<1>16. CASE HandleGameExit
  BY <1>16, HeadTail, StopEffect DEF HandleGameExit, Take, StopForced, flags,
     ready, receiver
<1>17. CASE OnGameQuite
  <2>1. (stop_replay_on_replay_ready_ \in BOOLEAN)' /\ (flagged \in Id \cup {NoId})'
    BY <1>17 DEF OnGameQuite, StopUnforced, StopForced, ready
  <2>2. (active_ \in BOOLEAN)' /\ (capturing_replay_ \in BOOLEAN)'
        /\ (replay \in Id \cup {NoId})' /\ (stop_replay_timer_ \in Id \cup {NoId})'
    BY <1>17, StopEffect DEF OnGameQuite
  <2>3. (capture \in {"none", "asked", "ending", "told"})'
        /\ (output \in {"idle", "capturing", "stopping", "ended", "failed"})'
    BY <1>17, StopEffect DEF OnGameQuite
  <2> QED BY <1>17, <2>1, <2>2, <2>3, StopEffect DEF OnGameQuite, receiver
<1>18. CASE QuitWhenReady
  BY <1>18, HeadTail, StopEffect DEF QuitWhenReady, Take, StopForced, ready, receiver
<1>19. CASE OnStopReplayTimer
  BY <1>19, StopEffect DEF OnStopReplayTimer, StopForced, ready, receiver, commands
<1>20. CASE OutputEnds
  <2>1. (active_ \in BOOLEAN)' /\ (delay_active_ \in BOOLEAN)' /\ (capturing_replay_ \in BOOLEAN)'
    BY <1>20 DEF OutputEnds
  <2> QED BY <1>20, <2>1 DEF OutputEnds, ready, receiver, commands
<1>21. CASE ReportStopped
  BY <1>21, WithReport DEF ReportStopped, Report, flags, ready, receiver, commands
<1>22. CASE ForgetIdentifier
  BY <1>22 DEF ForgetIdentifier, flags, ready, receiver, commands
<1>23. CASE CaptureEnds
  BY <1>23 DEF CaptureEnds, flags, ready, receiver, commands
<1>24. CASE CaptureFinishes
  <2>1. (capturing_replay_ \in BOOLEAN)'
    BY <1>24 DEF CaptureFinishes
  <2> QED BY <1>24, <2>1 DEF CaptureFinishes, ready, receiver, commands
<1>25. CASE ReportReady
  <2>1. Append(task_queue_, << "quit", replay >>) \in Seq(Task)
    BY AppendAtEnd DEF Task
  <2> QED BY <1>25, <2>1 DEF ReportReady, flags, ready, receiver
<1> QED
  BY <1>1, <1>2, <1>3, <1>4, <1>5, <1>6, <1>7, <1>8, <1>9, <1>10, <1>11, <1>12,
     <1>13, <1>14, <1>15, <1>16, <1>17, <1>18, <1>19, <1>20, <1>21, <1>22,
     <1>23, <1>24, <1>25
     DEF Next, ClientCommand, ReceiverStep, CommandThreadStep, HandlerStep

(* A capture is marked as in progress only while the output is live, and   *)
(* its mark goes with the file or with the output.                         *)
LEMMA CaptureStep ==
  ASSUME TypeOK, CaptureInv, [Next]_vars
  PROVE  CaptureInv'
<1> USE DEF TypeOK, CaptureInv, Live, Spared
<1>1. CASE UNCHANGED << active_, capturing_replay_, output, capture, mishaps >>
  BY <1>1
<1>2. CASE ReceiveStart
  BY <1>2 DEF ReceiveStart, Mishap, flags
<1>3. CASE StartReplayReturns
  BY <1>3 DEF StartReplayReturns, OutputStarts, OutputRefuses
<1>4. CASE StopReplay
  BY <1>4, StopEffect DEF StopReplay
<1>5. CASE StartCaptureReplay
  BY <1>5 DEF StartCaptureReplay, flags
<1>6. CASE MarkCapture
  BY <1>6 DEF MarkCapture, Mishap
<1>7. CASE StopCaptureReplay
  BY <1>7 DEF StopCaptureReplay, flags
<1>8. CASE PendingStartReturns
  BY <1>8 DEF PendingStartReturns, OutputStarts, OutputRefuses
<1>9. CASE HandleGameExit
  BY <1>9, StopEffect DEF HandleGameExit, flags
<1>10. CASE OnGameQuite
  BY <1>10, StopEffect DEF OnGameQuite
<1>11. CASE QuitWhenReady
  BY <1>11, StopEffect DEF QuitWhenReady, Mishap
<1>12. CASE OnStopReplayTimer
  BY <1>12, StopEffect DEF OnStopReplayTimer, Mishap
<1>13. CASE OutputEnds
  BY <1>13 DEF OutputEnds
<1>14. CASE CaptureEnds
  BY <1>14 DEF CaptureEnds, flags
<1>15. CASE CaptureFinishes
  BY <1>15 DEF CaptureFinishes
<1>16. CASE ReportReady
  BY <1>16 DEF ReportReady, Mishap, flags
<1>17. CASE \/ UNCHANGED vars \/ StartAsDelay \/ DoStart \/ AddGameSource
            \/ Captured \/ GameQuits \/ HandleCaptured \/ ReportStopped
            \/ ForgetIdentifier \/ \E i \in Id : ReceiveStop(i)
  BY <1>1, <1>17 DEF vars, flags, StartAsDelay, DoStart, AddGameSource,
     Captured, GameQuits, Post, HandleCaptured, ReportStopped,
     ForgetIdentifier, ReceiveStop
<1> QED
  BY <1>2, <1>3, <1>4, <1>5, <1>6, <1>7, <1>8, <1>9, <1>10, <1>11, <1>12,
     <1>13, <1>14, <1>15, <1>16, <1>17
     DEF Next, ClientCommand, ReceiverStep, CommandThreadStep, HandlerStep

(* Only START issues an identifier, and only what was issued is reported.  *)
LEMMA IssuedStep ==
  ASSUME TypeOK, CaptureInv, IssuedInv, [Next]_vars
  PROVE  IssuedInv'
<1> USE ReplayAssumption DEF TypeOK, IssuedInv
<1>1. CASE UNCHANGED << identifier_, replay, command, starting, last, reports >>
  BY <1>1
<1>2. CASE ReceiveStart
  <2>1. last' \in Id /\ last' = last + 1 /\ last \in Nat
    BY <1>2 DEF ReceiveStart, Id
  <2>2. \A i \in Id : i > last' => reports'[i] = {}
    BY <1>2, <2>1, WithReport DEF ReceiveStart, Report, Id
  <2>3. \A n : n \in 0 .. last \/ n = last' => n \in 0 .. last'
    BY <2>1
  <2>4. identifier_' \in {identifier_, last'} /\ command' \in {command, last'}
        /\ replay' = replay /\ starting' = starting
    BY <1>2 DEF ReceiveStart, commands
  <2> QED BY <2>2, <2>3, <2>4
<1>3. ASSUME NEW n \in 0 .. last, NEW e \in {"STOPPED", "ERR"},
             reports' = reports \/ reports' = With(reports, n, e),
             {identifier_, replay, command, starting}' \subseteq
               {identifier_, replay, command, starting, NoId},
             last' = last
      PROVE  IssuedInv'
  <2>1. n \in Id \cup {NoId}
    BY DEF Id, NoId
  <2>2. \A i \in Id : i > last => reports'[i] = {}
    BY <1>3, <2>1, WithReport DEF Id
  <2> QED BY <1>3, <2>2 DEF NoId
<1>4. CASE StartReplayReturns
  BY <1>3, <1>4 DEF StartReplayReturns, OutputStarts, OutputRefuses, Refuse,
     Return, Report, commands
<1>5. ASSUME NEW i \in Id, ReceiveStop(i) PROVE IssuedInv'
  <2>1. i \in 0 .. last
    BY <1>5 DEF ReceiveStop, Id
  <2> QED BY <1>3, <1>5, <2>1 DEF ReceiveStop, Report, commands
<1>6. CASE DoStart
  BY <1>3, <1>6 DEF DoStart, Refuse, Return, Report, commands
<1>7. CASE PendingStartReturns
  BY <1>3, <1>7 DEF PendingStartReturns, OutputStarts, OutputRefuses, Report,
     receiver
<1>8. CASE ReportStopped
  BY <1>3, <1>8 DEF ReportStopped, Report, receiver, commands
<1>9. CASE StartAsDelay
  BY <1>3, <1>9 DEF StartAsDelay, Return, commands
<1>10. CASE ForgetIdentifier
  BY <1>3, <1>10 DEF ForgetIdentifier, receiver, commands
<1>11. ASSUME StopForced \/ StopUnforced, last' = last,
              {command, starting}' \subseteq {command, starting, NoId}
       PROVE  IssuedInv'
  <2>1. \A i \in Id : i > last => reports'[i] = {}
    BY <1>11, StopEffect DEF Id
  <2> QED BY <1>11, <2>1, StopEffect DEF NoId
<1>12. CASE StopReplay
  BY <1>11, <1>12 DEF StopReplay, Return, commands
<1>13. CASE HandleGameExit
  BY <1>1, <1>11, <1>13 DEF HandleGameExit, receiver
<1>14. CASE OnGameQuite \/ QuitWhenReady \/ OnStopReplayTimer
  BY <1>11, <1>14 DEF OnGameQuite, QuitWhenReady, OnStopReplayTimer, receiver,
     commands
<1>15. CASE HandleCaptured
  BY <1>15 DEF HandleCaptured, receiver
<1>16. CASE \/ UNCHANGED vars \/ StartCaptureReplay \/ MarkCapture
            \/ StopCaptureReplay \/ AddGameSource \/ Captured \/ GameQuits
            \/ OutputEnds \/ CaptureEnds \/ CaptureFinishes \/ ReportReady
  BY <1>1, <1>16 DEF vars, receiver, commands, StartCaptureReplay, MarkCapture,
     StopCaptureReplay, AddGameSource, Captured, GameQuits, Post, OutputEnds,
     CaptureEnds, CaptureFinishes, ReportReady
<1> QED
  BY <1>2, <1>4, <1>5, <1>6, <1>7, <1>8, <1>9, <1>10, <1>12, <1>13, <1>14,
     <1>15, <1>16
     DEF Next, ClientCommand, ReceiverStep, CommandThreadStep, HandlerStep

(* What went wrong stays named.                                            *)
LEMMA MishapsGrow ==
  ASSUME [Next]_vars
  PROVE  mishaps \subseteq mishaps'
<1>1. CASE UNCHANGED vars
  BY <1>1 DEF vars
<1>2. CASE ClientCommand
  BY <1>2 DEF ClientCommand, ReceiveStart, Mishap, ReceiveStop,
     StartCaptureReplay, StopCaptureReplay, AddGameSource
<1>3. CASE ReceiverStep
  BY <1>3 DEF ReceiverStep, StartAsDelay, DoStart, StartReplayReturns,
     StopReplay, MarkCapture, Mishap
<1>4. CASE CommandThreadStep
  BY <1>4 DEF CommandThreadStep, HandleCaptured, PendingStartReturns,
     HandleGameExit, OnGameQuite, QuitWhenReady, Mishap
<1>5. CASE HandlerStep \/ OnStopReplayTimer
  BY <1>5 DEF HandlerStep, ReportStopped, ForgetIdentifier, ReportReady,
     OnStopReplayTimer, Mishap
<1>6. CASE Captured \/ GameQuits \/ OutputEnds \/ CaptureFinishes \/ CaptureEnds
  BY <1>6 DEF Captured, GameQuits, Post, OutputEnds, CaptureFinishes, CaptureEnds
<1> QED BY <1>1, <1>2, <1>3, <1>4, <1>5, <1>6 DEF Next

(* Until two sessions overlap, what starts the output has it for itself.   *)
LEMMA SessionStep ==
  ASSUME TypeOK, CaptureInv, IssuedInv, SessionInv, [Next]_vars,
         Spared({"overlap"})'
  PROVE  SessionInv'
<1> USE ReplayAssumption DEF TypeOK, CaptureInv, SessionInv
<1>1. CASE UNCHANGED << identifier_, active_, delay_active_, output, rpc, cpc,
                        command, starting, epc, replay, reports >>
  BY <1>1 DEF Live
<1>2. CASE ReceiveStart
  <2>1. last' \in Id /\ identifier_ # last' /\ replay # last' /\ reports[last'] = {}
    BY <1>2 DEF ReceiveStart, IssuedInv, Id
  <2>2. CASE Report(last', "ERR") /\ UNCHANGED << identifier_, rpc, command >>
    <3>1. reports'[identifier_] = reports[identifier_] /\ reports'[replay] = reports[replay]
      BY <2>1, <2>2, WithReport DEF Report
    <3> QED BY <1>2, <2>2, <3>1 DEF ReceiveStart, Live, flags, commands
  <2>3. CASE /\ ~ active_ /\ identifier_' = last' /\ command' = last'
             /\ rpc' = "decide" /\ UNCHANGED reports
             /\ Mishap(epc # "idle" \/ delay_active_, "overlap")
    <3>1. epc = "idle" /\ ~ delay_active_ /\ ~ Live
      BY <2>3 DEF Mishap, Spared
    <3>2. cpc = "idle"
      BY <1>2 DEF ReceiveStart, SyncFree
    <3> QED BY <1>2, <2>1, <2>3, <3>1, <3>2 DEF ReceiveStart, Live, flags, commands, Id, NoId
  <2> QED BY <1>2, <2>2, <2>3 DEF ReceiveStart
<1>3. CASE StartAsDelay
  BY <1>3 DEF StartAsDelay, Return, Live, commands
<1>4. CASE DoStart
  <2>1. CASE identifier_ = NoId
    <3>1. /\ ~ Live /\ ~ delay_active_ /\ rpc' = "idle" /\ cpc # "starting"
          /\ UNCHANGED << delay_active_, output, cpc >>
      BY <1>4, <2>1 DEF DoStart, Refuse, Return, flags, commands
    <3> QED BY <3>1 DEF Live
  <2>2. CASE identifier_ # NoId
    BY <1>4, <2>2 DEF DoStart, Live, flags, commands
  <2> QED BY <2>1, <2>2
<1>5. CASE StartReplayReturns
  <2>1. /\ epc = "idle" /\ identifier_ = command /\ command # NoId
        /\ "STOPPED" \notin reports[command] /\ cpc # "starting"
        /\ ~ Live /\ ~ delay_active_
    BY <1>5 DEF StartReplayReturns
  <2>2. UNCHANGED << epc, cpc >>
    BY <1>5 DEF StartReplayReturns, commands
  <2>3. CASE OutputStarts(command) /\ Return /\ UNCHANGED reports
    BY <2>1, <2>2, <2>3 DEF OutputStarts, Return, Live
  <2>4. CASE OutputRefuses /\ Refuse
    BY <2>1, <2>2, <2>4 DEF OutputRefuses, Refuse, Return, Live
  <2> QED BY <1>5, <2>3, <2>4 DEF StartReplayReturns
<1>6. ASSUME NEW i \in Id, ReceiveStop(i) PROVE SessionInv'
  <2>1. CASE i = identifier_
    BY <1>6, <2>1 DEF ReceiveStop, Live, flags, commands
  <2>2. CASE i # identifier_
    <3>1. identifier_ # NoId => reports'[identifier_] = reports[identifier_]
      BY <1>6, <2>2, WithReport DEF ReceiveStop, Report
    <3> QED BY <1>6, <2>2, <3>1 DEF ReceiveStop, Live, flags, commands
  <2> QED BY <2>1, <2>2
<1>7. ASSUME StopForced \/ StopUnforced,
             rpc' \in {rpc, "idle"}, command' = command \/ rpc' = "idle",
             cpc' # "starting", rpc # "starting", UNCHANGED epc
      PROVE  SessionInv'
  <2>1. ~ delay_active_'
    BY <1>7, StopEffect
  <2>2. CASE Live
    BY <1>7, <2>1, <2>2, StopEffect
  <2>3. CASE ~ Live
    <3>1. ~ Live' /\ (rpc = "decide" => identifier_' = NoId)
      BY <1>7, <2>3, StopEffect
    <3> QED BY <1>7, <2>1, <3>1
  <2> QED BY <2>2, <2>3
<1>8. CASE StopReplay
  BY <1>7, <1>8 DEF StopReplay, Return, OutputSyncFree, commands
<1>9. CASE HandleCaptured
  BY <1>9 DEF HandleCaptured, Take, DelayActive, Live, flags, receiver
<1>10. CASE PendingStartReturns
  <2>1. /\ epc = "idle" /\ identifier_ = starting /\ starting \in Id
        /\ "STOPPED" \notin reports[starting]
        /\ ~ Live /\ rpc \notin {"decide", "starting"}
    BY <1>10 DEF PendingStartReturns, Id, NoId
  <2>2. UNCHANGED << epc, rpc, command >> /\ cpc' = "idle"
    BY <1>10 DEF PendingStartReturns, receiver
  <2>3. CASE OutputStarts(starting) /\ UNCHANGED reports
    BY <2>1, <2>2, <2>3 DEF OutputStarts, Live, Id, NoId
  <2>4. CASE OutputRefuses /\ Report(starting, "ERR")
    BY <2>1, <2>2, <2>4 DEF OutputRefuses, Live
  <2> QED BY <1>10, <2>3, <2>4 DEF PendingStartReturns
<1>11. CASE HandleGameExit
  <2>1. CASE capturing_replay_
    BY <1>11, <2>1 DEF HandleGameExit, Take, Live, flags, receiver
  <2>2. CASE ~ capturing_replay_
    BY <1>7, <1>11, <2>2 DEF HandleGameExit, Take, OutputSyncFree, receiver
  <2> QED BY <2>1, <2>2
<1>12. CASE OnGameQuite
  BY <1>7, <1>12 DEF OnGameQuite, OutputSyncFree, receiver
<1>13. CASE QuitWhenReady
  BY <1>7, <1>13 DEF QuitWhenReady, Take, OutputSyncFree, receiver
<1>14. CASE OnStopReplayTimer
  BY <1>7, <1>14 DEF OnStopReplayTimer, OutputSyncFree, receiver, commands
<1>15. CASE OutputEnds
  <2>1. Live /\ ~ Live' /\ ~ delay_active_'
    BY <1>15 DEF OutputEnds, Live
  <2> QED BY <1>15, <2>1 DEF OutputEnds, receiver, commands
<1>16. CASE ReportStopped \/ ForgetIdentifier
  <2>1. /\ epc # "idle" /\ ~ Live /\ ~ delay_active_
        /\ rpc \notin {"decide", "starting"} /\ cpc # "starting"
    BY <1>16 DEF ReportStopped, ForgetIdentifier
  <2>2. UNCHANGED << output, delay_active_, rpc, cpc >>
    BY <1>16 DEF ReportStopped, ForgetIdentifier, flags, receiver, commands
  <2> QED BY <2>1, <2>2 DEF Live
<1>17. CASE CaptureEnds
  BY <1>17 DEF CaptureEnds, Live, flags, receiver, commands
<1>18. CASE StartCaptureReplay \/ MarkCapture
  BY <1>18 DEF StartCaptureReplay, MarkCapture, Live, flags, commands
<1>19. CASE \/ UNCHANGED vars \/ StopCaptureReplay \/ AddGameSource
            \/ Captured \/ GameQuits \/ CaptureFinishes \/ ReportReady
  BY <1>1, <1>19 DEF vars, flags, receiver, commands, StopCaptureReplay,
     AddGameSource, Captured, GameQuits, Post, CaptureFinishes, ReportReady
<1> QED
  BY <1>2, <1>3, <1>4, <1>5, <1>6, <1>8, <1>9, <1>10, <1>11, <1>12, <1>13,
     <1>14, <1>15, <1>16, <1>17, <1>18, <1>19
     DEF Next, ClientCommand, ReceiverStep, CommandThreadStep, HandlerStep

(* What is left for later is left for a replay whose end was asked for.    *)
LEMMA ReasonStep ==
  ASSUME TypeOK, CaptureInv, ReasonInv, [Next]_vars
  PROVE  ReasonInv'
<1> USE DEF TypeOK, ReasonInv
<1>1. mishaps \subseteq mishaps'
  BY MishapsGrow
<1>2. asked \subseteq asked'
  <2>1. CASE HandleGameExit \/ OnGameQuite \/ \E i \in Id : ReceiveStop(i)
    BY <2>1 DEF HandleGameExit, OnGameQuite, ReceiveStop
  <2>2. CASE asked' = asked
    BY <2>2
  <2> QED
    BY <2>1, <2>2 DEF Next, ClientCommand, ReceiverStep, CommandThreadStep,
       HandlerStep, vars, ReceiveStart, StartCaptureReplay, StopCaptureReplay,
       AddGameSource, StartAsDelay, DoStart, StartReplayReturns, StopReplay,
       MarkCapture, Captured, GameQuits, Post, HandleCaptured,
       PendingStartReturns, QuitWhenReady, OnStopReplayTimer, OutputEnds,
       CaptureFinishes, ReportStopped, ForgetIdentifier, ReportReady,
       CaptureEnds
(* The parts of ReasonInv.                                                 *)
<1> DEFINE StopFor  == rpc = "stop" => command \in asked /\ identifier_ \in {command, NoId}
           TimerFor == stop_replay_timer_ \in asked \cup {NoId}
           FlagFor  == stop_replay_on_replay_ready_ => flagged \in asked \cup {NoId}
           TasksFor == Spared({"stale_flag"}) =>
                         \A k \in 1 .. Len(task_queue_) : task_queue_[k][1] = "quit" =>
                           task_queue_[k][2] \in asked \cup {NoId}
<1>3. CASE ReceiveStart
  BY <1>1, <1>2, <1>3 DEF ReceiveStart, Spared, ready, commands
<1>4. ASSUME NEW i \in Id, ReceiveStop(i) PROVE ReasonInv'
  <2>1. StopFor'
    BY <1>4 DEF ReceiveStop
  <2> QED BY <1>2, <1>4, <2>1 DEF ReceiveStop, Spared, ready, commands
<1>5. CASE StartAsDelay \/ DoStart \/ StartReplayReturns \/ StopReplay
  <2>1. rpc' # "stop"
    BY <1>5 DEF StartAsDelay, DoStart, StartReplayReturns, StopReplay, Refuse, Return
  <2>2. TimerFor' /\ TasksFor'
    BY <1>2, <1>5 DEF StartAsDelay, DoStart, StartReplayReturns, StopReplay,
       Spared, commands
  <2>3. FlagFor'
    BY <1>2, <1>5 DEF StartAsDelay, DoStart, StartReplayReturns, StopReplay,
       StopForced, ready
  <2> QED BY <2>1, <2>2, <2>3
<1>6. CASE Captured \/ GameQuits
  <2>1. PICK task \in {"captured", "exit"} : task_queue_' = Append(task_queue_, << task, NoId >>)
    BY <1>6 DEF Captured, GameQuits, Post
  <2>2. TasksFor'
    <3>1. << task, NoId >> \in Task
      BY DEF Task
    <3> QED BY <1>1, <1>2, <2>1, <3>1, AppendAtEnd DEF Spared
  <2> QED BY <1>2, <1>6, <2>2 DEF Captured, GameQuits, Post, ready, receiver
<1>7. CASE HandleCaptured
  <2>1. TasksFor'
    BY <1>2, <1>7, HeadTail DEF HandleCaptured, Take, Spared
  <2> QED BY <1>2, <1>7, <2>1 DEF HandleCaptured, ready, receiver
<1>8. CASE PendingStartReturns
  BY <1>2, <1>8 DEF PendingStartReturns, OutputStarts, OutputRefuses, Spared,
     ready, receiver
<1>9. CASE HandleGameExit
  <2>1. TasksFor'
    BY <1>2, <1>9, HeadTail DEF HandleGameExit, Take, Spared
  <2>2. identifier_' \in {identifier_, NoId} /\ UNCHANGED << ready, receiver, stop_replay_timer_ >>
    BY <1>9, StopEffect DEF HandleGameExit, StopForced
  <2> QED BY <1>2, <2>1, <2>2 DEF ready, receiver
<1>10. CASE OnGameQuite
  <2>1. replay \in asked' \cup {NoId}
    BY <1>10 DEF OnGameQuite
  <2>2. identifier_' \in {identifier_, NoId} /\ UNCHANGED << receiver, task_queue_, mishaps >>
    BY <1>10, StopEffect DEF OnGameQuite
  <2>3. FlagFor'
    BY <1>2, <1>10, <2>1 DEF OnGameQuite, StopUnforced, StopForced, ready
  <2>4. TimerFor'
    BY <1>2, <1>10, <2>1 DEF OnGameQuite
  <2> QED BY <1>2, <2>2, <2>3, <2>4 DEF receiver, Spared
<1>11. CASE QuitWhenReady
  <2>1. TasksFor'
    BY <1>1, <1>2, <1>11, HeadTail DEF QuitWhenReady, Take, Spared
  <2>2. identifier_' \in {identifier_, NoId} /\ UNCHANGED << ready, receiver, stop_replay_timer_ >>
    BY <1>11, StopEffect DEF QuitWhenReady, StopForced
  <2> QED BY <1>2, <2>1, <2>2 DEF ready, receiver
<1>12. CASE OnStopReplayTimer
  <2>1. identifier_' \in {identifier_, NoId} /\ UNCHANGED << ready, receiver, task_queue_ >>
    BY <1>12, StopEffect DEF OnStopReplayTimer, StopForced, commands
  <2> QED BY <1>1, <1>2, <1>12, <2>1 DEF OnStopReplayTimer, Spared, ready, receiver
<1>13. CASE ReportReady
  <2>1. TasksFor'
    <3> SUFFICES ASSUME Spared({"stale_flag"})' PROVE TasksFor'
      OBVIOUS
    <3>1. CASE ~ stop_replay_on_replay_ready_
      BY <1>1, <1>2, <1>13, <3>1 DEF ReportReady, Spared
    <3>2. CASE stop_replay_on_replay_ready_
      <4>1. flagged = replay
        BY <1>13, <3>2 DEF ReportReady, Mishap, Spared
      <4>2. replay \in asked \cup {NoId} /\ << "quit", replay >> \in Task
        BY <3>2, <4>1 DEF Task
      <4> QED BY <1>1, <1>2, <1>13, <3>2, <4>2, AppendAtEnd DEF ReportReady, Spared
    <3> QED BY <3>1, <3>2
  <2> QED BY <1>2, <1>13, <2>1 DEF ReportReady, ready, receiver
<1>14. CASE ForgetIdentifier
  BY <1>2, <1>14 DEF ForgetIdentifier, Spared, ready, receiver, commands
<1>15. CASE StartCaptureReplay \/ MarkCapture
  BY <1>1, <1>2, <1>15 DEF StartCaptureReplay, MarkCapture, Spared, ready, commands
<1>16. CASE \/ UNCHANGED vars \/ StopCaptureReplay \/ AddGameSource
            \/ OutputEnds \/ ReportStopped \/ CaptureEnds \/ CaptureFinishes
  BY <1>1, <1>2, <1>16 DEF vars, ready, receiver, commands, Spared,
     StopCaptureReplay, AddGameSource, OutputEnds, ReportStopped, CaptureEnds,
     CaptureFinishes
<1> QED
  BY <1>3, <1>4, <1>5, <1>6, <1>7, <1>8, <1>9, <1>10, <1>11, <1>12, <1>13,
     <1>14, <1>15, <1>16
     DEF Next, ClientCommand, ReceiverStep, CommandThreadStep, HandlerStep

(* The invariant is inductive.                                             *)
LEMMA NextIInv == IInv /\ [Next]_vars => IInv'
<1> SUFFICES ASSUME IInv, [Next]_vars PROVE IInv'
  OBVIOUS
<1>1. TypeOK' /\ CaptureInv' /\ IssuedInv' /\ ReasonInv'
  BY TypeStep, CaptureStep, IssuedStep, ReasonStep DEF IInv
<1>2. ASSUME Spared({"overlap"})' PROVE SessionInv'
  <2>1. Spared({"overlap"})
    BY <1>2, MishapsGrow DEF Spared
  <2> QED BY <1>2, <2>1, SessionStep DEF IInv
<1> QED BY <1>1, <1>2 DEF IInv

(* The strengthened invariant holds in every state of the specification.   *)
LEMMA Inductive == Spec => []IInv
<1> QED BY InitIInv, NextIInv, PTL DEF Spec

-----------------------------------------------------------------------------
(* The state keeps its types, and a start under both locks an identifier.  *)
THEOREM TypeCorrect == Spec => []TypeOK
<1>1. IInv => TypeOK
  BY DEF IInv
<1> QED BY <1>1, Inductive, PTL

(* However commands, the game, the timer and the output interleave, a live *)
(* replay is known under the identifier it was started for, until a START  *)
(* overlaps with the session before it.                                    *)
THEOREM LiveKnown == Spec => []LiveHasIdentifier
<1>1. IInv => LiveHasIdentifier
  BY DEF IInv, SessionInv, LiveHasIdentifier
<1> QED BY <1>1, Inductive, PTL

(* Nothing that the client was told has stopped runs, or will be started   *)
(* by what was starting it meanwhile.                                      *)
THEOREM StoppedForGood == Spec => []StoppedIsStopped
<1>1. IInv => StoppedIsStopped
  BY DEF IInv, SessionInv, StoppedIsStopped, Id, NoId
<1> QED BY <1>1, Inductive, PTL

(* OnGameQuite and STOP_REPLAY_CAPTURE may trust capturing_replay_, unless *)
(* an output ended while a capture was being marked.                       *)
THEOREM CapturingTrusted == Spec => []CapturingIsCaptured
<1>1. IInv => CapturingIsCaptured
  BY DEF IInv, CaptureInv, CapturingIsCaptured
<1> QED BY <1>1, Inductive, PTL

(* No replay is told to stop but by a STOP of the client or by the end of  *)
(* its game, whatever was left for later by the sessions before it.        *)
THEOREM StoppedForAReason == Spec => StopsForAReason
<1> DEFINE Stopped == /\ output = "capturing" /\ output' = "stopping"
                      /\ mishaps' \cap {"stale_flag", "stale_task",
                                        "stale_timer", "overlap"} = {}
<1>1. ASSUME IInv, [Next]_vars, Stopped
      PROVE  replay \in asked'
  <2>1. mishaps \subseteq mishaps'
    BY <1>1, MishapsGrow
  <2>2. /\ TypeOK /\ CaptureInv /\ SessionInv /\ ReasonInv /\ Live
        /\ identifier_ = replay /\ replay # NoId /\ replay \in Id
    BY <1>1, <2>1 DEF IInv, Spared, SessionInv, Live, TypeOK
  <2>3. CASE StopReplay
    BY <2>2, <2>3 DEF StopReplay, ReasonInv
  <2>4. CASE HandleGameExit \/ OnGameQuite
    BY <2>2, <2>4 DEF HandleGameExit, OnGameQuite
  <2>5. CASE QuitWhenReady
    <3>1. Head(task_queue_) = task_queue_[1] /\ 1 \in 1 .. Len(task_queue_)
      BY <2>2, <2>5, HeadTail DEF QuitWhenReady, Take, TypeOK
    <3>2. task_queue_[1][1] = "quit" /\ task_queue_[1][2] = replay
      BY <1>1, <2>5, <3>1 DEF QuitWhenReady, Take, Mishap
    <3>3. Spared({"stale_flag"})
      BY <1>1, <2>1 DEF Spared
    <3> QED BY <2>2, <2>5, <3>1, <3>2, <3>3 DEF QuitWhenReady, ReasonInv
  <2>6. CASE OnStopReplayTimer
    <3>1. stop_replay_timer_ = replay
      BY <1>1, <2>6 DEF OnStopReplayTimer, Mishap
    <3> QED BY <2>2, <2>6, <3>1 DEF OnStopReplayTimer, ReasonInv
  <2>7. CASE StartReplayReturns \/ PendingStartReturns \/ OutputEnds \/ CaptureEnds
    BY <1>1, <2>7 DEF StartReplayReturns, PendingStartReturns, OutputStarts,
       OutputRefuses, OutputEnds, CaptureEnds
  <2>8. CASE output' = output
    BY <1>1, <2>8
  <2> QED
    BY <1>1, <2>3, <2>4, <2>5, <2>6, <2>7, <2>8
       DEF Next, ClientCommand, ReceiverStep, CommandThreadStep, HandlerStep,
           vars, ReceiveStart, StartCaptureReplay, StopCaptureReplay,
           AddGameSource, ReceiveStop, StartAsDelay, DoStart, MarkCapture,
           Captured, GameQuits, Post, HandleCaptured, CaptureFinishes,
           ReportStopped, ForgetIdentifier, ReportReady
<1>2. IInv /\ [Next]_vars => [Stopped => replay \in asked']_vars
  BY <1>1
<1> QED BY <1>2, Inductive, PTL DEF Spec, StopsForAReason
=============================================================================
