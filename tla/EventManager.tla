---------------------------- MODULE EventManager ----------------------------
(***************************************************************************)
(* The client's side of a command and its answer (ascent-obs-comm):        *)
(* ObsClient::send_command_and_wait, EventManager::wait_for_response and   *)
(* the processing loop that hands the events of the server to the callers  *)
(* that wait for them, by identifier.                                      *)
(*                                                                         *)
(* Threads: each caller, the manager's processing loop and the reader of   *)
(* the server's output.  They share two bounded channels and nothing else: *)
(* waiters and pending_events belong to the loop, and each call has a      *)
(* channel of its own for its result.  General callbacks are left out: the *)
(* only ones of the crate send on an unbounded channel.                    *)
(***************************************************************************)
EXTENDS Naturals, Sequences, FiniteSets

CONSTANTS Call,         (* the calls that are made, each once              *)
          Ident, Type,  (* identifiers, event types                        *)
          identifier,   (* of each call                                    *)
          accepted,     (* expected_event_type: one type, or all for None  *)
          errors,       (* error_event_types                               *)
          ERR,          (* the type of error events                        *)
          BufferSize,   (* of both channels                                *)
          MaxEvents,    (* bound: the events the server sends              *)
          ParseError,   (* what the reader passes on besides events        *)
          Shutdown,     (* the message that is no call                     *)
          NoCall, NoEvent

Event == [id : Ident, type : Type, for : Call \cup {NoCall}]

ASSUME ManagerAssumption ==
  /\ identifier \in [Call -> Ident]
  /\ accepted \in [Call -> SUBSET Type]
  /\ errors \in [Call -> SUBSET Type]
  /\ ERR \in Type
  /\ BufferSize \in Nat \ {0}
  /\ MaxEvents \in Nat
  /\ NoCall \notin Call /\ Shutdown \notin Call
  /\ NoEvent \notin Event /\ ParseError \notin Event

VARIABLES
  call,          (* where each call is                                     *)
  expired,       (* its deadline has passed                                *)
  answer,        (* what is in its response channel                        *)
  answered,      (* how many answers were put there                        *)
  result,        (* what it returned                                       *)
  messages,      (* the channel to the processing loop                     *)
  events,        (* the channel from the reader                            *)
  emitted,       (* how many things the reader passed on                   *)
  reader,        (* running or exited                                      *)
  loop,          (* where the processing loop is                           *)
  waiters, pending_events,
  shut,          (* shutdown was called                                    *)
  registered,    (* the calls whose message the loop took in time          *)
  heard,         (* types of answers the loop took from the command on     *)
  offered        (* the same, from the registration on                     *)

client  == << call, expired, result, shut >>
replies == << answer, answered >>
server  == << emitted, reader >>
table   == << waiters, pending_events >>
history == << registered, heard, offered >>

vars == << client, replies, messages, events, server, loop, table, history >>

None == [kind |-> "none", event |-> NoEvent]
Ok(e) == [kind |-> "ok", event |-> e]
Err(kind) == [kind |-> kind, event |-> NoEvent]

Init ==
  /\ call = [c \in Call |-> "idle"]
  /\ expired = [c \in Call |-> FALSE]
  /\ answer = [c \in Call |-> None]
  /\ answered = [c \in Call |-> 0]
  /\ result = [c \in Call |-> None]
  /\ messages = << >> /\ events = << >>
  /\ emitted = 0 /\ reader = "running"
  /\ loop = "messages"
  /\ waiters = [i \in Ident |-> NoCall]
  /\ pending_events = [i \in Ident |-> NoEvent]
  /\ shut = FALSE
  /\ registered = {}
  /\ heard = [c \in Call |-> {}]
  /\ offered = [c \in Call |-> {}]

InProgress(c) == call[c] \in {"sent", "waiting"}

-----------------------------------------------------------------------------
(* The callers.  Recorder holds the mutex of an identifier over a call, so *)
(* two calls about one identifier follow each other.                       *)
SendCommand(c) ==
  /\ call[c] = "idle"
  /\ ~ shut
  /\ \A d \in Call : identifier[d] = identifier[c] => ~ InProgress(d)
  /\ \/ call' = [call EXCEPT ![c] = "sent"] /\ UNCHANGED result
     \/ /\ reader = "exited"       (* the writer's pipe is broken, too     *)
        /\ call' = [call EXCEPT ![c] = "returned"]
        /\ result' = [result EXCEPT ![c] = Err("closed")]
  /\ UNCHANGED << expired, shut, replies, messages, events, server, loop,
                  table, history >>

(* wait_for_response: the message to the loop blocks while the channel is  *)
(* full, and fails when the loop is gone.                                  *)
Register(c) ==
  /\ call[c] = "sent"
  /\ \/ /\ loop # "stopped"
        /\ Len(messages) < BufferSize
        /\ messages' = Append(messages, c)
        /\ call' = [call EXCEPT ![c] = "waiting"]
        /\ UNCHANGED result
     \/ /\ loop = "stopped"
        /\ call' = [call EXCEPT ![c] = "returned"]
        /\ result' = [result EXCEPT ![c] = Err("closed")]
        /\ UNCHANGED messages
  /\ UNCHANGED << expired, shut, replies, events, server, loop, table,
                  history >>

DeadlinePasses(c) ==
  /\ call[c] = "waiting"
  /\ ~ expired[c]
  /\ expired' = [expired EXCEPT ![c] = TRUE]
  /\ UNCHANGED << call, result, shut, replies, messages, events, server, loop,
                  table, history >>

Return(c, value) ==
  /\ call' = [call EXCEPT ![c] = "returned"]
  /\ result' = [result EXCEPT ![c] = value]
  /\ UNCHANGED << expired, shut, replies, messages, events, server, loop,
                  table, history >>

(* The sender of the response channel lives in a message or in waiters.    *)
Held(c) ==
  \/ \E k \in 1 .. Len(messages) : messages[k] = c
  \/ \E i \in Ident : waiters[i] = c

(* recv_timeout: the answer, the time out, or every sender dropped.        *)
Receive(c) ==
  /\ call[c] = "waiting"
  /\ \/ answer[c] # None /\ Return(c, answer[c])
     \/ answer[c] = None /\ expired[c] /\ Return(c, Err("timeout"))
     \/ answer[c] = None /\ ~ Held(c) /\ Return(c, Err("closed"))

(* shutdown consumes the client: no call is in progress, and none follows. *)
CallShutdown ==
  /\ ~ shut
  /\ \A c \in Call : ~ InProgress(c)
  /\ \/ /\ loop # "stopped"
        /\ Len(messages) < BufferSize
        /\ messages' = Append(messages, Shutdown)
     \/ loop = "stopped" /\ UNCHANGED messages
  /\ shut' = TRUE
  /\ UNCHANGED << call, expired, result, replies, events, server, loop, table,
                  history >>

-----------------------------------------------------------------------------
(* The server and the reader thread.  An event is about an identifier that *)
(* a command has named; it answers one command (e.for) or none.            *)
Pass(item) ==
  /\ reader = "running"
  /\ emitted < MaxEvents
  /\ emitted' = emitted + 1
  /\ \/ loop # "stopped" /\ Len(events) < BufferSize
        /\ events' = Append(events, item)
        /\ UNCHANGED reader
     \/ loop = "stopped" /\ reader' = "exited" /\ UNCHANGED events
  /\ UNCHANGED << client, replies, messages, loop, table, history >>

Named(c) == call[c] # "idle"

ServerSends(e) ==
  /\ \E c \in Call : Named(c) /\ identifier[c] = e.id
  /\ e.for # NoCall => Named(e.for) /\ identifier[e.for] = e.id
  /\ Pass(e)

ReaderFails == Pass(ParseError)

ServerExits ==
  /\ reader = "running"
  /\ reader' = "exited"
  /\ UNCHANGED << client, replies, messages, events, emitted, loop, table,
                  history >>

-----------------------------------------------------------------------------
(* The processing loop.  A result sent to a caller that has gone is lost.  *)
Timely == {c \in Call : InProgress(c) /\ ~ expired[c]}

Answer(c, value) ==
  /\ answer' = IF call[c] = "waiting" THEN [answer EXCEPT ![c] = value]
               ELSE answer
  /\ answered' = [answered EXCEPT ![c] = @ + 1]

Matches(c, e) == e # NoEvent /\ e.type \in accepted[c] \cup errors[c]

(* A slip: an event that is awaited is taken for a success.                *)
AnswerOfAny(c, e) == Ok(e)

AnswerOf(c, e) == IF e.type \in accepted[c] THEN Ok(e) ELSE Err("error_event")

(* A slip: the pending event is read and left where it is.                 *)
RemovePendingNot(i) == UNCHANGED pending_events

RemovePending(i) == pending_events' = [pending_events EXCEPT ![i] = NoEvent]

(* RegisterWaiter.  A pending event of another type is dropped; an older   *)
(* waiter of the identifier is dropped, too.                               *)
TakeWaiter ==
  /\ loop = "messages"
  /\ messages # << >>
  /\ Head(messages) # Shutdown
  /\ messages' = Tail(messages)
  /\ LET c == Head(messages)
         i == identifier[c]
         e == pending_events[i]
     IN /\ registered' = registered \cup ({c} \cap Timely)
        /\ RemovePending(i)
        /\ \/ /\ Matches(c, e)
              /\ Answer(c, AnswerOf(c, e))
              /\ UNCHANGED waiters
           \/ /\ ~ Matches(c, e)
              /\ waiters' = [waiters EXCEPT ![i] = c]
              /\ UNCHANGED replies
  /\ UNCHANGED << client, events, server, loop, heard, offered >>

(* A slip: continue instead of break.                                      *)
TakeShutdownContinues ==
  /\ loop = "messages"
  /\ messages # << >>
  /\ Head(messages) = Shutdown
  /\ messages' = Tail(messages)
  /\ UNCHANGED << client, replies, events, server, loop, table, history >>

TakeShutdown ==
  /\ loop = "messages"
  /\ messages # << >>
  /\ Head(messages) = Shutdown
  /\ messages' = Tail(messages)
  /\ loop' = "stopping"
  /\ UNCHANGED << client, replies, events, server, table, history >>

NoMessage ==
  /\ loop = "messages"
  /\ messages = << >>
  /\ loop' = "events"
  /\ UNCHANGED << client, replies, messages, events, server, table, history >>

Note(e) ==
  /\ heard' = [c \in Call |->
                 heard[c] \cup (IF c = e.for /\ c \in Timely
                               THEN {e.type} ELSE {})]
  /\ offered' = [c \in Call |->
                   offered[c] \cup (IF c = e.for /\ c \in Timely \cap registered
                                   THEN {e.type} ELSE {})]
  /\ UNCHANGED registered

(* A slip: the waiter that was answered stays.                             *)
RemoveWaiterNot(i) == UNCHANGED waiters

RemoveWaiter(i) == waiters' = [waiters EXCEPT ![i] = NoCall]

(* A slip: the waiter is not put back when the type is another.            *)
LeaveWaiterNot(i) == waiters' = [waiters EXCEPT ![i] = NoCall]

LeaveWaiter(i) == UNCHANGED waiters

(* An event for a waiter, or kept for one to come: the last one only.      *)
TakeEvent ==
  /\ loop = "events"
  /\ events # << >>
  /\ Head(events) # ParseError
  /\ events' = Tail(events)
  /\ loop' = "timeouts"
  /\ LET e == Head(events)
         c == waiters[e.id]
     IN /\ Note(e)
        /\ \/ /\ c = NoCall
              /\ pending_events' = [pending_events EXCEPT ![e.id] = e]
              /\ UNCHANGED << replies, waiters >>
           \/ /\ c # NoCall /\ Matches(c, e)
              /\ Answer(c, AnswerOf(c, e))
              /\ RemoveWaiter(e.id)
              /\ UNCHANGED pending_events
           \/ /\ c # NoCall /\ ~ Matches(c, e)
              /\ LeaveWaiter(e.id)
              /\ UNCHANGED << replies, pending_events >>
  /\ UNCHANGED << client, messages, server >>

(* A slip: recv() without a time limit.                                    *)
NoEventBlocks ==
  /\ loop = "events"
  /\ events = << >>
  /\ reader = "exited"
  /\ loop' = "stopping"
  /\ UNCHANGED << client, replies, messages, events, server, table, history >>

(* recv_timeout: nothing came in time, or the reader has gone.             *)
NoEventCame ==
  /\ loop = "events"
  /\ events = << >>
  /\ \/ reader = "running" /\ loop' = "timeouts"
     \/ reader = "exited" /\ loop' = "stopping"
  /\ UNCHANGED << client, replies, messages, events, server, table, history >>

TakeParseError ==
  /\ loop = "events"
  /\ events # << >>
  /\ Head(events) = ParseError
  /\ events' = Tail(events)
  /\ loop' = "stopping"
  /\ UNCHANGED << client, replies, messages, server, table, history >>

AnswerAll(gone, value) ==
  /\ answer' = [c \in Call |-> IF c \in gone /\ call[c] = "waiting"
                               THEN value ELSE answer[c]]
  /\ answered' = [c \in Call |-> answered[c] + (IF c \in gone THEN 1 ELSE 0)]

Waiting == {c \in Call : \E i \in Ident : waiters[i] = c}

(* The check for waiters whose deadline has passed.                        *)
CheckTimeouts ==
  /\ loop = "timeouts"
  /\ loop' = "messages"
  /\ LET late == {c \in Waiting : expired[c]}
     IN /\ AnswerAll(late, Err("timeout"))
        /\ waiters' = [i \in Ident |->
                         IF waiters[i] \in late THEN NoCall ELSE waiters[i]]
        /\ pending_events' = [i \in Ident |->
                                IF waiters[i] \in late THEN NoEvent
                                ELSE pending_events[i]]
  /\ UNCHANGED << client, messages, events, server, history >>

(* After the loop: the waiters are told, and both receivers are dropped.   *)
Stop ==
  /\ loop = "stopping"
  /\ loop' = "stopped"
  /\ AnswerAll(Waiting, Err("closed"))
  /\ waiters' = [i \in Ident |-> NoCall]
  /\ pending_events' = [i \in Ident |-> NoEvent]
  /\ messages' = << >> /\ events' = << >>
  /\ UNCHANGED << client, server, history >>

-----------------------------------------------------------------------------
LoopStep ==
  \/ TakeWaiter \/ TakeShutdown \/ NoMessage
  \/ TakeEvent \/ NoEventCame \/ TakeParseError
  \/ CheckTimeouts \/ Stop

Next ==
  \/ \E c \in Call :
       SendCommand(c) \/ Register(c) \/ DeadlinePasses(c) \/ Receive(c)
  \/ CallShutdown
  \/ (\E e \in Event : ServerSends(e)) \/ ReaderFails \/ ServerExits
  \/ LoopStep

(* The loop runs, a caller inside a call goes on, and time passes; nobody  *)
(* has to make a call, and the server need not answer.                     *)
Fairness ==
  /\ WF_vars(LoopStep)
  /\ \A c \in Call : /\ WF_vars(Register(c))
                     /\ WF_vars(Receive(c))
                     /\ WF_vars(DeadlinePasses(c))

Spec == Init /\ [][Next]_vars /\ Fairness

-----------------------------------------------------------------------------
Reply == [kind : {"none", "ok", "error_event", "timeout", "closed"},
          event : Event \cup {NoEvent}]

(* Every variable has its type, and a call is answered at most once.       *)
TypeOK ==
  /\ call \in [Call -> {"idle", "sent", "waiting", "returned"}]
  /\ expired \in [Call -> BOOLEAN]
  /\ answer \in [Call -> Reply]
  /\ answered \in [Call -> 0 .. 1]
  /\ result \in [Call -> Reply]
  /\ messages \in Seq(Call \cup {Shutdown})
  /\ events \in Seq(Event \cup {ParseError})
  /\ emitted \in 0 .. MaxEvents
  /\ reader \in {"running", "exited"}
  /\ loop \in {"messages", "events", "timeouts", "stopping", "stopped"}
  /\ waiters \in [Ident -> Call \cup {NoCall}]
  /\ pending_events \in [Ident -> Event \cup {NoEvent}]
  /\ shut \in BOOLEAN
  /\ registered \in SUBSET Call
  /\ heard \in [Call -> SUBSET Type]
  /\ offered \in [Call -> SUBSET Type]

(* An identifier has a waiter or a pending event, never both: an event is  *)
(* not kept for later while somebody waits for it, and a stale one never   *)
(* stands beside a waiter (the removal at event_handler.rs:240 finds       *)
(* nothing to remove).                                                     *)
WaiterOrPending ==
  \A i \in Ident : waiters[i] = NoCall \/ pending_events[i] = NoEvent

(* A call that succeeds got an event about its identifier and of a type it *)
(* expects ("should always match if logic is correct",                     *)
(* event_handler.rs:352), whichever of the two paths it came by.           *)
RightAnswer ==
  \A c \in Call :
    result[c].kind = "ok" =>
      /\ result[c].event \in Event
      /\ result[c].event.id = identifier[c]
      /\ result[c].event.type \in accepted[c]

(* No answer is lost once the loop knows the waiter: a call times out only *)
(* if no answer of a type it expects was taken between its registration    *)
(* and its deadline, other events about the identifier notwithstanding.    *)
AnswerNotLost ==
  \A c \in Call :
    result[c].kind = "timeout" => offered[c] \cap accepted[c] = {}

(* The events that are on their way to a caller: in the channel of the     *)
(* reader, kept for a waiter to come, or in a channel of a response.       *)
Copies(e) ==
  Cardinality({k \in DOMAIN events : events[k] = e})
  + (IF pending_events[e.id] = e THEN 1 ELSE 0)
  + Cardinality({c \in Call : call[c] = "waiting" /\ answer[c] = Ok(e)})

Promised == INSTANCE Responses WITH
  status <- [c \in Call |-> IF InProgress(c) THEN "pending" ELSE call[c]],
  outcome <- result,
  sent <- emitted,
  pool <- [e \in Event |-> Copies(e)]

(* The manager keeps the promises of Responses: whichever way an event     *)
(* takes through the two channels and the two tables, and whichever of the *)
(* loop and the caller sees the deadline first, it succeeds for one call   *)
(* at most, one it was sent for the identifier of; and every call comes    *)
(* back, although the server may be silent and the loop behind or gone.    *)
KeepsPromises == Promised!Spec

(* shutdown joins the loop: it must end.                                   *)
LoopStops == shut ~> loop = "stopped"

-----------------------------------------------------------------------------
(* What the source says of itself and the code does not do.                *)

(* event_handler.rs:189: an event without a waiter is stored "in case a    *)
(* waiter registers slightly late": a waiter that registers in time does   *)
(* not miss an answer that came in time.                                   *)
LateWaiterIsServed ==
  \A c \in registered :
    result[c].kind = "timeout" => heard[c] \cap accepted[c] = {}

(* event_handler.rs:292: the identifier links "the command sent to the     *)
(* expected response event".                                               *)
AnswerToThisCommand ==
  \A c \in Call :
    result[c].kind = "ok" => result[c].event.for \in {c, NoCall}
=============================================================================
