------------------------ MODULE EventManager_proofs -------------------------
(***************************************************************************)
(* Theorems about EventManager, for any calls, identifiers, events and     *)
(* sizes of the channels.  The parts of the inductive invariant are the    *)
(* types, which calls the queue and the table know, in what order calls    *)
(* about one identifier follow each other, where events are filed, what an *)
(* answer may be, and what has become of an answer that was offered to a   *)
(* registered call.                                                        *)
(***************************************************************************)
EXTENDS EventManager, TLAPS

(* A call in the queue or in the table has no answer yet; it is in one     *)
(* place, and in the table under its own identifier.                       *)
TableInv ==
  /\ \A k \in 1 .. Len(messages) :
       messages[k] \in Call =>
         /\ call[messages[k]] \in {"waiting", "returned"}
         /\ answered[messages[k]] = 0
         /\ \A i \in Ident : waiters[i] # messages[k]
  /\ \A j, k \in 1 .. Len(messages) :
       messages[j] \in Call /\ messages[j] = messages[k] => j = k
  /\ \A i \in Ident :
       waiters[i] # NoCall =>
         /\ identifier[waiters[i]] = i
         /\ answered[waiters[i]] = 0
         /\ call[waiters[i]] \in {"waiting", "returned"}
  /\ \A c \in Call :
       call[c] \in {"idle", "sent"} => answered[c] = 0 /\ c \notin registered

(* Of the calls about one identifier at most one is in progress, and one   *)
(* that is has no call before it in the queue that is, nor any behind it   *)
(* once it is registered.                                                  *)
OrderInv ==
  /\ \A c, d \in Call :
       identifier[c] = identifier[d] /\ InProgress(c) /\ InProgress(d) => c = d
  /\ \A j, k \in 1 .. Len(messages) :
       /\ j < k
       /\ messages[j] \in Call /\ messages[k] \in Call
       /\ identifier[messages[j]] = identifier[messages[k]]
       => ~ InProgress(messages[j])
  /\ \A c \in registered, k \in 1 .. Len(messages) :
       InProgress(c) /\ messages[k] \in Call =>
         identifier[messages[k]] # identifier[c]

(* An event is filed under its identifier and answers a command about it.  *)
EventInv ==
  /\ \A i \in Ident : pending_events[i] # NoEvent => pending_events[i].id = i
  /\ \A k \in 1 .. Len(events) :
       events[k] # ParseError /\ events[k].for # NoCall =>
         identifier[events[k].for] = events[k].id

(* What a call is told is an event it accepts, or an error: "timeout" only *)
(* after its deadline, and nothing before it is answered or returns.       *)
GoodAnswer(c, a) ==
  \/ a = None
  \/ /\ a.kind = "ok"
     /\ a.event \in Event
     /\ a.event.id = identifier[c]
     /\ a.event.type \in accepted[c]
  \/ a.kind \in {"error_event", "closed"}
  \/ a.kind = "timeout" /\ expired[c]

AnswerInv ==
  \A c \in Call : /\ GoodAnswer(c, answer[c])
                  /\ GoodAnswer(c, result[c])
                  /\ answered[c] = 0 => answer[c] = None
                  /\ call[c] # "returned" => result[c] = None

(* A registered call that still waits is in the table, and one to which an *)
(* answer it accepts was offered has an answer.                            *)
Answered(a) == a.kind \in {"ok", "error_event", "closed"}

OfferInv ==
  \A c \in Call :
    /\ c \notin registered => offered[c] = {}
    /\ /\ c \in registered /\ call[c] = "waiting" /\ ~ expired[c]
       /\ answer[c] = None
       /\ loop # "stopped"
       => waiters[identifier[c]] = c
    /\ offered[c] \cap accepted[c] # {} =>
         /\ call[c] = "waiting" => Answered(answer[c])
         /\ call[c] = "returned" => Answered(result[c])

IInv == /\ TypeOK /\ WaiterOrPending /\ TableInv /\ OrderInv /\ EventInv
        /\ AnswerInv /\ OfferInv

-----------------------------------------------------------------------------
(* What taking the first element of a channel leaves.                      *)
LEMMA HeadTail ==
  ASSUME NEW S, NEW q \in Seq(S), q # << >>
  PROVE  /\ Len(q) \in Nat /\ 1 \in 1 .. Len(q)
         /\ Head(q) = q[1] /\ Head(q) \in S
         /\ Tail(q) \in Seq(S)
         /\ Len(Tail(q)) = Len(q) - 1
         /\ \A k \in 1 .. Len(Tail(q)) : k + 1 \in 1 .. Len(q) /\ Tail(q)[k] = q[k + 1]
OBVIOUS

(* What putting an element into a channel leaves.                          *)
LEMMA AppendAtEnd ==
  ASSUME NEW S, NEW q \in Seq(S), NEW e \in S
  PROVE  /\ Append(q, e) \in Seq(S)
         /\ Len(q) \in Nat
         /\ Len(Append(q, e)) = Len(q) + 1
         /\ Append(q, e)[Len(q) + 1] = e
         /\ \A k \in 1 .. Len(q) : Append(q, e)[k] = q[k]
OBVIOUS

(* The fields of an event.                                                 *)
LEMMA EventFields ==
  \A e \in Event : e.id \in Ident /\ e.type \in Type /\ e.for \in Call \cup {NoCall}
BY DEF Event

(* What the loop and the channels can tell a call is a reply.              *)
LEMMA Replies ==
  /\ None \in Reply
  /\ \A e \in Event : Ok(e) \in Reply
  /\ Err("error_event") \in Reply /\ Err("timeout") \in Reply
  /\ Err("closed") \in Reply
BY DEF Reply, None, Ok, Err

(* Every step keeps the types; that a call is answered once is TableInv.   *)
LEMMA TypeStep ==
  ASSUME TypeOK, TableInv, [Next]_vars
  PROVE  TypeOK'
<1> USE ManagerAssumption, Replies, EventFields DEF TypeOK, TableInv, client, replies, server, table, history
<1>1. ASSUME NEW c \in Call, SendCommand(c) PROVE TypeOK'
  <2>1. result' \in [Call -> Reply]
    BY <1>1 DEF SendCommand
  <2>2. call' \in [Call -> {"idle", "sent", "waiting", "returned"}]
    BY <1>1 DEF SendCommand
  <2> QED BY <1>1, <2>1, <2>2 DEF SendCommand
<1>2. ASSUME NEW c \in Call, Register(c) PROVE TypeOK'
  <2>1. result' \in [Call -> Reply]
    BY <1>2 DEF Register
  <2>2. call' \in [Call -> {"idle", "sent", "waiting", "returned"}]
    BY <1>2 DEF Register
  <2>3. messages' \in Seq(Call \cup {Shutdown})
    <3>1. Append(messages, c) \in Seq(Call \cup {Shutdown})
      OBVIOUS
    <3>2. messages' \in {messages, Append(messages, c)}
      BY <1>2 DEF Register
    <3> QED BY <3>1, <3>2
  <2> QED BY <1>2, <2>1, <2>2, <2>3 DEF Register
<1>3. ASSUME NEW c \in Call, DeadlinePasses(c) PROVE TypeOK'
  BY <1>3 DEF DeadlinePasses
<1>4. ASSUME NEW c \in Call, Receive(c) PROVE TypeOK'
  BY <1>4 DEF Receive, Return
<1>5. CASE CallShutdown
  <2>1. messages' \in Seq(Call \cup {Shutdown})
    <3>1. Append(messages, Shutdown) \in Seq(Call \cup {Shutdown})
      OBVIOUS
    <3>2. messages' \in {messages, Append(messages, Shutdown)}
      BY <1>5 DEF CallShutdown
    <3> QED BY <3>1, <3>2
  <2> QED BY <1>5, <2>1 DEF CallShutdown
<1>6. ASSUME NEW e \in Event, ServerSends(e) PROVE TypeOK'
  <2>1. events' \in Seq(Event \cup {ParseError})
    <3>1. Append(events, e) \in Seq(Event \cup {ParseError})
      OBVIOUS
    <3>2. events' \in {events, Append(events, e)}
      BY <1>6 DEF ServerSends, Pass
    <3> QED BY <3>1, <3>2
  <2>2. emitted' \in 0 .. MaxEvents
    BY <1>6 DEF ServerSends, Pass
  <2> QED BY <1>6, <2>1, <2>2 DEF ServerSends, Pass
<1>7. CASE ReaderFails
  <2>1. events' \in Seq(Event \cup {ParseError})
    <3>1. Append(events, ParseError) \in Seq(Event \cup {ParseError})
      OBVIOUS
    <3>2. events' \in {events, Append(events, ParseError)}
      BY <1>7 DEF ReaderFails, Pass
    <3> QED BY <3>1, <3>2
  <2>2. emitted' \in 0 .. MaxEvents
    BY <1>7 DEF ReaderFails, Pass
  <2> QED BY <1>7, <2>1, <2>2 DEF ReaderFails, Pass
<1>8. CASE ServerExits
  BY <1>8 DEF ServerExits
<1>9. CASE TakeWaiter
  <2> DEFINE c == Head(messages)
             i == identifier[c]
             e == pending_events[i]
  <2>1. /\ messages' \in Seq(Call \cup {Shutdown})
        /\ c \in Call /\ i \in Ident /\ answered[c] = 0
        /\ e \in Event \cup {NoEvent}
    BY <1>9, HeadTail DEF TakeWaiter
  <2>2. Matches(c, e) => AnswerOf(c, e) \in Reply
    BY <2>1 DEF Matches, AnswerOf
  <2>3. answer' \in [Call -> Reply] /\ answered' \in [Call -> 0 .. 1]
    BY <1>9, <2>1, <2>2 DEF TakeWaiter, Answer
  <2>4. waiters' \in [Ident -> Call \cup {NoCall}]
    BY <1>9, <2>1 DEF TakeWaiter
  <2>5. pending_events' \in [Ident -> Event \cup {NoEvent}]
    BY <1>9, <2>1 DEF TakeWaiter, RemovePending
  <2>6. registered' \in SUBSET Call
    BY <1>9, <2>1 DEF TakeWaiter
  <2> QED BY <1>9, <2>1, <2>3, <2>4, <2>5, <2>6 DEF TakeWaiter
<1>10. CASE TakeShutdown
  BY <1>10 DEF TakeShutdown
<1>11. CASE NoMessage
  BY <1>11 DEF NoMessage
<1>12. CASE TakeEvent
  <2> DEFINE e == Head(events)
             c == waiters[e.id]
  <2>1. /\ events' \in Seq(Event \cup {ParseError})
        /\ e \in Event /\ e.id \in Ident /\ e.type \in Type
        /\ c \in Call \cup {NoCall}
        /\ c # NoCall => answered[c] = 0
    BY <1>12, HeadTail DEF TakeEvent
  <2>2. Matches(c, e) => AnswerOf(c, e) \in Reply
    BY <2>1 DEF Matches, AnswerOf
  <2>3. answer' \in [Call -> Reply] /\ answered' \in [Call -> 0 .. 1]
    <3>1. CASE UNCHANGED << answer, answered >>
      BY <3>1
    <3>2. CASE c # NoCall /\ Matches(c, e) /\ Answer(c, AnswerOf(c, e))
      <4>1. answer' \in [Call -> Reply]
        BY <2>1, <2>2, <3>2 DEF Answer
      <4>2. answered' \in [Call -> 0 .. 1]
        BY <2>1, <3>2 DEF Answer
      <4> QED BY <4>1, <4>2
    <3> QED BY <1>12, <3>1, <3>2 DEF TakeEvent
  <2>4. waiters' \in [Ident -> Call \cup {NoCall}]
    BY <1>12, <2>1 DEF TakeEvent, RemoveWaiter, LeaveWaiter
  <2>5. pending_events' \in [Ident -> Event \cup {NoEvent}]
    <3>1. \/ UNCHANGED pending_events
          \/ pending_events' = [pending_events EXCEPT ![e.id] = e]
      BY <1>12 DEF TakeEvent
    <3>2. pending_events \in [Ident -> Event \cup {NoEvent}]
      OBVIOUS
    <3> HIDE DEF TypeOK, e
    <3> QED BY <2>1, <3>1, <3>2
  <2>6. heard' \in [Call -> SUBSET Type]
    BY <1>12, <2>1 DEF TakeEvent, Note
  <2>7. offered' \in [Call -> SUBSET Type]
    BY <1>12, <2>1 DEF TakeEvent, Note
  <2>8. registered' = registered
    BY <1>12 DEF TakeEvent, Note
  <2> QED BY <1>12, <2>1, <2>3, <2>4, <2>5, <2>6, <2>7, <2>8 DEF TakeEvent
<1>13. CASE NoEventCame
  BY <1>13 DEF NoEventCame
<1>14. CASE TakeParseError
  BY <1>14 DEF TakeParseError
<1>15. CASE CheckTimeouts
  BY <1>15 DEF CheckTimeouts, AnswerAll, Waiting
<1>16. CASE Stop
  BY <1>16 DEF Stop, AnswerAll, Waiting
<1>17. CASE UNCHANGED vars
  BY <1>17 DEF vars
<1> QED
  BY <1>1, <1>2, <1>3, <1>4, <1>5, <1>6, <1>7, <1>8, <1>9,
     <1>10, <1>11, <1>12, <1>13, <1>14, <1>15, <1>16, <1>17
  DEF Next, LoopStep

(* An event is filed only if there is no waiter, and removed for one.      *)
LEMMA PendingStep ==
  ASSUME TypeOK, WaiterOrPending, [Next]_vars
  PROVE  WaiterOrPending'
<1> USE ManagerAssumption DEF TypeOK, WaiterOrPending, client, replies, server, table, history
<1>1. ASSUME NEW c \in Call, SendCommand(c) PROVE WaiterOrPending'
  BY <1>1 DEF SendCommand
<1>2. ASSUME NEW c \in Call, Register(c) PROVE WaiterOrPending'
  BY <1>2 DEF Register
<1>3. ASSUME NEW c \in Call, DeadlinePasses(c) PROVE WaiterOrPending'
  BY <1>3 DEF DeadlinePasses
<1>4. ASSUME NEW c \in Call, Receive(c) PROVE WaiterOrPending'
  BY <1>4 DEF Receive, Return
<1>5. CASE CallShutdown
  BY <1>5 DEF CallShutdown
<1>6. ASSUME NEW e \in Event, ServerSends(e) PROVE WaiterOrPending'
  BY <1>6 DEF ServerSends, Pass, Named
<1>7. CASE ReaderFails
  BY <1>7 DEF ReaderFails, Pass
<1>8. CASE ServerExits
  BY <1>8 DEF ServerExits
<1>9. CASE TakeWaiter
  BY <1>9 DEF TakeWaiter, Answer, RemovePending, Timely
<1>10. CASE TakeShutdown
  BY <1>10 DEF TakeShutdown
<1>11. CASE NoMessage
  BY <1>11 DEF NoMessage
<1>12. CASE TakeEvent
  BY <1>12 DEF TakeEvent, Answer, Note, Timely, RemoveWaiter, LeaveWaiter
<1>13. CASE NoEventCame
  BY <1>13 DEF NoEventCame
<1>14. CASE TakeParseError
  BY <1>14 DEF TakeParseError
<1>15. CASE CheckTimeouts
  BY <1>15 DEF CheckTimeouts, AnswerAll, Waiting
<1>16. CASE Stop
  BY <1>16 DEF Stop, AnswerAll, Waiting
<1>17. CASE UNCHANGED vars
  BY <1>17 DEF vars
<1> QED
  BY <1>1, <1>2, <1>3, <1>4, <1>5, <1>6, <1>7, <1>8, <1>9,
     <1>10, <1>11, <1>12, <1>13, <1>14, <1>15, <1>16, <1>17
  DEF Next, LoopStep

(* A call enters the queue once and goes from there to the table or out.   *)
LEMMA TableStep ==
  ASSUME TypeOK, TableInv, [Next]_vars
  PROVE  TableInv'
<1> USE ManagerAssumption DEF TypeOK, TableInv, client, replies, server, table, history
<1>1. ASSUME NEW c \in Call, SendCommand(c) PROVE TableInv'
  <2>1. \A d \in Call : call'[d] = call[d] \/ (d = c /\ call[c] = "idle")
    BY <1>1 DEF SendCommand
  <2>2. UNCHANGED << answered, messages, waiters, registered >>
    BY <1>1 DEF SendCommand
  <2> QED BY <2>1, <2>2
<1>2. ASSUME NEW c \in Call, Register(c) PROVE TableInv'
  <2>1. CASE loop = "stopped"
    <3>1. /\ call[c] = "sent" /\ call' = [call EXCEPT ![c] = "returned"]
          /\ UNCHANGED << answered, messages, waiters, registered >>
      BY <1>2, <2>1 DEF Register
    <3>2. \A d \in Call : \/ call'[d] = call[d]
                          \/ call'[d] = "returned" /\ call[d] = "sent"
      BY <3>1
    <3>3. \A k \in 1 .. Len(messages') :
            messages'[k] \in Call =>
              /\ call'[messages'[k]] \in {"waiting", "returned"}
              /\ answered'[messages'[k]] = 0
              /\ \A i \in Ident : waiters'[i] # messages'[k]
      BY <3>1, <3>2
    <3>4. \A j, k \in 1 .. Len(messages') :
            messages'[j] \in Call /\ messages'[j] = messages'[k] => j = k
      BY <3>1
    <3>5. \A i \in Ident :
            waiters'[i] # NoCall =>
              /\ identifier[waiters'[i]] = i
              /\ answered'[waiters'[i]] = 0
              /\ call'[waiters'[i]] \in {"waiting", "returned"}
      BY <3>1, <3>2
    <3>6. \A d \in Call :
            call'[d] \in {"idle", "sent"} => answered'[d] = 0 /\ d \notin registered'
      BY <3>1, <3>2
    <3> QED BY <3>3, <3>4, <3>5, <3>6
  <2>2. CASE loop # "stopped"
    <3>1. /\ messages' = Append(messages, c)
          /\ call[c] = "sent" /\ call' = [call EXCEPT ![c] = "waiting"]
          /\ UNCHANGED << answered, waiters, registered >>
      BY <1>2, <2>2 DEF Register
    <3>2. /\ Len(messages') = Len(messages) + 1 /\ Len(messages) \in Nat
          /\ messages'[Len(messages) + 1] = c
          /\ \A k \in 1 .. Len(messages) : messages'[k] = messages[k]
      BY <3>1, AppendAtEnd
    <3>3. \A k \in 1 .. Len(messages') :
            \/ k \in 1 .. Len(messages) /\ messages'[k] = messages[k]
            \/ k = Len(messages) + 1 /\ messages'[k] = c
      BY <3>2
    <3>4. \A k \in 1 .. Len(messages) : messages[k] # c
      BY <3>1
    <3>5. \A i \in Ident : waiters[i] # c
      BY <3>1
    <3>6. answered[c] = 0 /\ c \notin registered
      BY <3>1
    <3>7. \A k \in 1 .. Len(messages') :
            messages'[k] \in Call =>
              /\ call'[messages'[k]] \in {"waiting", "returned"}
              /\ answered'[messages'[k]] = 0
              /\ \A i \in Ident : waiters'[i] # messages'[k]
      BY <3>1, <3>3, <3>5, <3>6
    <3>8. \A j, k \in 1 .. Len(messages') :
            messages'[j] \in Call /\ messages'[j] = messages'[k] => j = k
      BY <3>3, <3>4
    <3>9. \A i \in Ident :
            waiters'[i] # NoCall =>
              /\ identifier[waiters'[i]] = i
              /\ answered'[waiters'[i]] = 0
              /\ call'[waiters'[i]] \in {"waiting", "returned"}
      BY <3>1
    <3>10. \A d \in Call :
             call'[d] \in {"idle", "sent"} => answered'[d] = 0 /\ d \notin registered'
      BY <3>1
    <3> QED BY <3>7, <3>8, <3>9, <3>10
  <2> QED BY <2>1, <2>2
<1>3. ASSUME NEW c \in Call, DeadlinePasses(c) PROVE TableInv'
  BY <1>3 DEF DeadlinePasses
<1>4. ASSUME NEW c \in Call, Receive(c) PROVE TableInv'
  <2>1. /\ call[c] = "waiting" /\ call' = [call EXCEPT ![c] = "returned"]
        /\ UNCHANGED << answered, messages, waiters, registered >>
    BY <1>4 DEF Receive, Return
  <2> QED BY <2>1
<1>5. CASE CallShutdown
  <2>1. CASE UNCHANGED messages
    BY <1>5, <2>1 DEF CallShutdown
  <2>2. CASE messages' = Append(messages, Shutdown)
    <3>1. /\ Len(messages') = Len(messages) + 1 /\ Len(messages) \in Nat
          /\ messages'[Len(messages) + 1] = Shutdown
          /\ \A k \in 1 .. Len(messages) : messages'[k] = messages[k]
      BY <2>2, AppendAtEnd
    <3>2. \A k \in 1 .. Len(messages') :
            messages'[k] \in Call =>
              k \in 1 .. Len(messages) /\ messages'[k] = messages[k]
      BY <3>1
    <3>3. UNCHANGED << call, answered, waiters, registered >>
      BY <1>5 DEF CallShutdown
    <3>4. \A k \in 1 .. Len(messages') :
            messages'[k] \in Call =>
              /\ call'[messages'[k]] \in {"waiting", "returned"}
              /\ answered'[messages'[k]] = 0
              /\ \A i \in Ident : waiters'[i] # messages'[k]
      <4> SUFFICES ASSUME NEW k \in 1 .. Len(messages'), messages'[k] \in Call
                   PROVE  /\ call'[messages'[k]] \in {"waiting", "returned"}
                          /\ answered'[messages'[k]] = 0
                          /\ \A i \in Ident : waiters'[i] # messages'[k]
        OBVIOUS
      <4>1. k \in 1 .. Len(messages) /\ messages'[k] = messages[k]
        BY <3>2
      <4> QED BY <3>3, <4>1
    <3>5. \A j, k \in 1 .. Len(messages') :
            messages'[j] \in Call /\ messages'[j] = messages'[k] => j = k
      BY <3>2
    <3> QED BY <3>3, <3>4, <3>5
  <2> QED BY <1>5, <2>1, <2>2 DEF CallShutdown
<1>6. ASSUME NEW e \in Event, ServerSends(e) PROVE TableInv'
  BY <1>6 DEF ServerSends, Pass, Named
<1>7. CASE ReaderFails
  BY <1>7 DEF ReaderFails, Pass
<1>8. CASE ServerExits
  BY <1>8 DEF ServerExits
<1>9. CASE TakeWaiter
  <2> DEFINE c == Head(messages)
             i == identifier[c]
  <2>1. /\ c = messages[1] /\ 1 \in 1 .. Len(messages) /\ c \in Call /\ i \in Ident
        /\ \A k \in 1 .. Len(messages') :
             k + 1 \in 1 .. Len(messages) /\ messages'[k] = messages[k + 1]
    BY <1>9, HeadTail DEF TakeWaiter
  <2>2. /\ call[c] \in {"waiting", "returned"} /\ answered[c] = 0
        /\ \A k \in 1 .. Len(messages') : messages'[k] # c
    BY <2>1
  <2>3. UNCHANGED call /\ registered' \in {registered, registered \cup {c}}
    BY <1>9 DEF TakeWaiter
  <2>4. \A j, k \in 1 .. Len(messages') :
          messages'[j] \in Call /\ messages'[j] = messages'[k] => j = k
    <3> SUFFICES ASSUME NEW j \in 1 .. Len(messages'), NEW k \in 1 .. Len(messages'),
                        messages'[j] \in Call, messages'[j] = messages'[k]
                 PROVE  j = k
      OBVIOUS
    <3>1. j + 1 = k + 1
      BY <2>1
    <3> QED BY <3>1
  <2>5. \A k \in 1 .. Len(messages') : messages'[k] \in Call =>
          /\ call[messages'[k]] \in {"waiting", "returned"}
          /\ answered[messages'[k]] = 0
          /\ \A j \in Ident : waiters[j] # messages'[k]
    BY <2>1
  <2> HIDE DEF c, i
  <2>6. CASE UNCHANGED waiters /\ answered' = [answered EXCEPT ![c] = @ + 1]
    <3>1. \A d \in Call : d # c => answered'[d] = answered[d]
      BY <2>6
    <3>2. \A j \in Ident : waiters[j] # c
      BY <2>1
    <3> QED BY <2>1, <2>2, <2>3, <2>4, <2>5, <2>6, <3>1, <3>2
  <2>7. CASE waiters' = [waiters EXCEPT ![i] = c] /\ UNCHANGED answered
    <3>1. \A j \in Ident : waiters'[j] = IF j = i THEN c ELSE waiters[j]
      BY <2>7
    <3> QED BY <2>1, <2>2, <2>3, <2>4, <2>5, <2>7, <3>1 DEF i
  <2> QED BY <1>9, <2>6, <2>7 DEF TakeWaiter, Answer, c, i
<1>10. CASE TakeShutdown
  BY <1>10 DEF TakeShutdown
<1>11. CASE NoMessage
  BY <1>11 DEF NoMessage
<1>12. CASE TakeEvent
  <2> DEFINE e == Head(events)
             c == waiters[e.id]
  <2>1. e \in Event /\ e.id \in Ident /\ c \in Call \cup {NoCall}
    BY <1>12, HeadTail, EventFields DEF TakeEvent
  <2>2. UNCHANGED << call, messages, registered >>
    BY <1>12 DEF TakeEvent, Note
  <2>3. CASE UNCHANGED << answered, waiters >>
    BY <2>2, <2>3
  <2>4. CASE /\ c # NoCall
             /\ answered' = [answered EXCEPT ![c] = @ + 1]
             /\ waiters' = [waiters EXCEPT ![e.id] = NoCall]
    BY <2>1, <2>2, <2>4
  <2> QED BY <1>12, <2>3, <2>4 DEF TakeEvent, Answer, RemoveWaiter, LeaveWaiter
<1>13. CASE NoEventCame
  BY <1>13 DEF NoEventCame
<1>14. CASE TakeParseError
  BY <1>14 DEF TakeParseError
<1>15. CASE CheckTimeouts
  <2> DEFINE late == {c \in Waiting : expired[c]}
  <2>1. /\ UNCHANGED << call, messages, registered >>
        /\ answered' = [c \in Call |-> answered[c] + (IF c \in late THEN 1 ELSE 0)]
        /\ waiters' = [i \in Ident |->
                         IF waiters[i] \in late THEN NoCall ELSE waiters[i]]
    BY <1>15 DEF CheckTimeouts, AnswerAll
  <2>2. \A c \in Call : c \notin late => answered'[c] = answered[c]
    BY <2>1
  <2>3. \A c \in late : call[c] \in {"waiting", "returned"}
    BY DEF Waiting
  <2>4. \A c \in late, k \in 1 .. Len(messages) : messages[k] # c
    BY DEF Waiting
  <2>5. \A i \in Ident :
          \/ waiters'[i] = NoCall
          \/ waiters'[i] = waiters[i] /\ waiters[i] \notin late
    BY <2>1
  <2>6. \A c \in Call : call[c] \in {"idle", "sent"} => c \notin late
    BY <2>3
  <2> HIDE DEF late
  <2> QED BY <2>1, <2>2, <2>4, <2>5, <2>6
<1>16. CASE Stop
  <2>1. /\ UNCHANGED << call, registered >>
        /\ messages' = << >>
        /\ answered' = [c \in Call |-> answered[c] + (IF c \in Waiting THEN 1 ELSE 0)]
        /\ waiters' = [i \in Ident |-> NoCall]
    BY <1>16 DEF Stop, AnswerAll
  <2>2. \A c \in Waiting : call[c] \in {"waiting", "returned"}
    BY DEF Waiting
  <2> QED BY <2>1, <2>2
<1>17. CASE UNCHANGED vars
  BY <1>17 DEF vars
<1> QED
  BY <1>1, <1>2, <1>3, <1>4, <1>5, <1>6, <1>7, <1>8, <1>9,
     <1>10, <1>11, <1>12, <1>13, <1>14, <1>15, <1>16, <1>17
  DEF Next, LoopStep

(* A call is sent only when none about its identifier is in progress, and  *)
(* the queue is first in, first out.                                       *)
LEMMA OrderStep ==
  ASSUME TypeOK, TableInv, OrderInv, [Next]_vars
  PROVE  OrderInv'
<1> USE ManagerAssumption DEF TypeOK, OrderInv, InProgress, client, replies, server, table, history
<1>1. ASSUME NEW c \in Call, SendCommand(c) PROVE OrderInv'
  <2>1. /\ \A d \in Call : d # c => call'[d] = call[d]
        /\ call[c] = "idle"
        /\ \A d \in Call : identifier[d] = identifier[c] => ~ InProgress(d)
        /\ UNCHANGED << messages, registered >>
    BY <1>1 DEF SendCommand
  <2>2. \A k \in 1 .. Len(messages) : messages[k] # c
    BY <2>1 DEF TableInv
  <2>3. c \notin registered
    BY <2>1 DEF TableInv
  <2>4. \A d, f \in Call :
          identifier[d] = identifier[f] /\ InProgress(d)' /\ InProgress(f)' => d = f
    BY <2>1 DEF InProgress
  <2>5. \A d \in Call : d # c => (InProgress(d)' <=> InProgress(d))
    BY <2>1 DEF InProgress
  <2> HIDE DEF InProgress
  <2> QED BY <2>1, <2>2, <2>3, <2>4, <2>5
<1>2. ASSUME NEW c \in Call, Register(c) PROVE OrderInv'
  <2>1. \A d \in Call : InProgress(d)' => InProgress(d)
    BY <1>2 DEF Register, InProgress
  <2>2. CASE UNCHANGED messages
    BY <1>2, <2>1, <2>2 DEF Register
  <2>3. CASE messages' = Append(messages, c)
    <3>1. /\ Len(messages') = Len(messages) + 1 /\ Len(messages) \in Nat
          /\ messages'[Len(messages) + 1] = c
          /\ \A k \in 1 .. Len(messages) : messages'[k] = messages[k]
      BY <2>3, AppendAtEnd
    <3>2. \A k \in 1 .. Len(messages') :
            \/ k \in 1 .. Len(messages) /\ messages'[k] = messages[k]
            \/ k = Len(messages) + 1 /\ messages'[k] = c
      BY <3>1
    <3>3. InProgress(c) /\ call[c] = "sent" /\ registered' = registered
      BY <1>2 DEF Register, InProgress
    <3>4. c \notin registered
      BY <3>3 DEF TableInv
    <3>5. \A k \in 1 .. Len(messages) : messages[k] # c
      BY <3>3 DEF TableInv
    <3>6. \A j, k \in 1 .. Len(messages') :
            /\ j < k
            /\ messages'[j] \in Call /\ messages'[k] \in Call
            /\ identifier[messages'[j]] = identifier[messages'[k]]
            => ~ InProgress(messages'[j])
      <4> SUFFICES ASSUME NEW j \in 1 .. Len(messages'), NEW k \in 1 .. Len(messages'),
                          j < k, messages'[j] \in Call, messages'[k] \in Call,
                          identifier[messages'[j]] = identifier[messages'[k]],
                          InProgress(messages'[j])
                   PROVE  FALSE
        OBVIOUS
      <4>1. j \in 1 .. Len(messages) /\ messages'[j] = messages[j]
        BY <3>1, <3>2
      <4>2. InProgress(messages[j])
        BY <4>1
      <4> HIDE DEF InProgress
      <4>3. CASE k \in 1 .. Len(messages) /\ messages'[k] = messages[k]
        BY <4>1, <4>2, <4>3
      <4>4. CASE messages'[k] = c
        BY <3>3, <3>5, <4>1, <4>2, <4>4
      <4> QED BY <3>2, <4>3, <4>4
    <3>7. \A d \in registered, k \in 1 .. Len(messages') :
            InProgress(d) /\ messages'[k] \in Call =>
              identifier[messages'[k]] # identifier[d]
      <4> HIDE DEF InProgress
      <4> QED BY <2>1, <3>2, <3>3, <3>4
    <3>8. \A d, f \in Call :
            identifier[d] = identifier[f] /\ InProgress(d)' /\ InProgress(f)' => d = f
      <4> HIDE DEF InProgress
      <4> QED BY <2>1
    <3> QED BY <2>1, <3>3, <3>6, <3>7, <3>8
  <2> QED BY <1>2, <2>2, <2>3 DEF Register
<1>3. ASSUME NEW c \in Call, DeadlinePasses(c) PROVE OrderInv'
  BY <1>3 DEF DeadlinePasses
<1>4. ASSUME NEW c \in Call, Receive(c) PROVE OrderInv'
  <2>1. /\ \A d \in Call : InProgress(d)' => InProgress(d)
        /\ UNCHANGED << messages, registered >>
    BY <1>4 DEF Receive, Return, InProgress
  <2> QED BY <2>1
<1>5. CASE CallShutdown
  <2>1. \A d \in Call : InProgress(d)' <=> InProgress(d)
    BY <1>5 DEF CallShutdown, InProgress
  <2>2. registered' = registered
    BY <1>5 DEF CallShutdown
  <2>3. \A k \in 1 .. Len(messages') :
          messages'[k] \in Call =>
            k \in 1 .. Len(messages) /\ messages'[k] = messages[k]
    <3>1. CASE messages' = Append(messages, Shutdown)
      BY <3>1, AppendAtEnd
    <3> QED BY <1>5, <3>1 DEF CallShutdown
  <2> HIDE DEF InProgress
  <2> QED BY <2>1, <2>2, <2>3
<1>6. ASSUME NEW e \in Event, ServerSends(e) PROVE OrderInv'
  BY <1>6 DEF ServerSends, Pass, Named
<1>7. CASE ReaderFails
  BY <1>7 DEF ReaderFails, Pass
<1>8. CASE ServerExits
  BY <1>8 DEF ServerExits
<1>9. CASE TakeWaiter
  <2> DEFINE c == Head(messages)
  <2>1. /\ c = messages[1] /\ 1 \in 1 .. Len(messages) /\ c \in Call
        /\ Len(messages) \in Nat /\ Len(messages') = Len(messages) - 1
        /\ \A k \in 1 .. Len(messages') :
             k + 1 \in 1 .. Len(messages) /\ messages'[k] = messages[k + 1]
    BY <1>9, HeadTail DEF TakeWaiter
  <2>2. UNCHANGED call /\ registered' \in {registered, registered \cup {c}}
    BY <1>9 DEF TakeWaiter
  <2>3. \A d \in Call : InProgress(d)' <=> InProgress(d)
    BY <2>2 DEF InProgress
  <2> HIDE DEF InProgress, c
  <2>4. \A j, k \in 1 .. Len(messages') :
          /\ j < k
          /\ messages'[j] \in Call /\ messages'[k] \in Call
          /\ identifier[messages'[j]] = identifier[messages'[k]]
          => ~ InProgress(messages'[j])
    <3> SUFFICES ASSUME NEW j \in 1 .. Len(messages'), NEW k \in 1 .. Len(messages'),
                        j < k, messages'[j] \in Call, messages'[k] \in Call,
                        identifier[messages'[j]] = identifier[messages'[k]]
                 PROVE  ~ InProgress(messages'[j])
      OBVIOUS
    <3>1. /\ j + 1 < k + 1
          /\ j + 1 \in 1 .. Len(messages) /\ messages'[j] = messages[j + 1]
          /\ k + 1 \in 1 .. Len(messages) /\ messages'[k] = messages[k + 1]
      BY <2>1
    <3>2. ~ InProgress(messages[j + 1])
      BY <3>1
    <3> QED BY <3>1, <3>2
  <2>5. \A k \in 1 .. Len(messages') :
          InProgress(c) /\ messages'[k] \in Call =>
            identifier[messages'[k]] # identifier[c]
    <3> SUFFICES ASSUME NEW k \in 1 .. Len(messages'), InProgress(c),
                        messages'[k] \in Call
                 PROVE  identifier[messages'[k]] # identifier[c]
      OBVIOUS
    <3>1. 1 < k + 1 /\ k + 1 \in 1 .. Len(messages) /\ messages'[k] = messages[k + 1]
      BY <2>1
    <3> QED BY <2>1, <3>1
  <2>6. \A d \in registered, k \in 1 .. Len(messages') :
          InProgress(d) /\ messages'[k] \in Call =>
            identifier[messages'[k]] # identifier[d]
    BY <2>1
  <2>7. \A d \in registered', k \in 1 .. Len(messages') :
          InProgress(d) /\ messages'[k] \in Call =>
            identifier[messages'[k]] # identifier[d]
    BY <2>2, <2>5, <2>6
  <2> QED BY <2>2, <2>4, <2>7 DEF InProgress
<1>10. CASE TakeShutdown
  <2>1. /\ Len(messages) \in Nat /\ Len(messages') = Len(messages) - 1
        /\ \A k \in 1 .. Len(messages') :
             k + 1 \in 1 .. Len(messages) /\ messages'[k] = messages[k + 1]
    BY <1>10, HeadTail DEF TakeShutdown
  <2>2. registered' = registered
    BY <1>10 DEF TakeShutdown
  <2>3. UNCHANGED call
    BY <1>10 DEF TakeShutdown
  <2>4. \A j, k \in 1 .. Len(messages') :
          /\ j < k
          /\ messages'[j] \in Call /\ messages'[k] \in Call
          /\ identifier[messages'[j]] = identifier[messages'[k]]
          => ~ InProgress(messages'[j])
    <3> SUFFICES ASSUME NEW j \in 1 .. Len(messages'), NEW k \in 1 .. Len(messages'),
                        j < k, messages'[j] \in Call, messages'[k] \in Call,
                        identifier[messages'[j]] = identifier[messages'[k]]
                 PROVE  ~ InProgress(messages'[j])
      OBVIOUS
    <3>1. /\ j + 1 < k + 1
          /\ j + 1 \in 1 .. Len(messages) /\ messages'[j] = messages[j + 1]
          /\ k + 1 \in 1 .. Len(messages) /\ messages'[k] = messages[k + 1]
      BY <2>1
    <3> QED BY <3>1
  <2>5. \A d \in registered, k \in 1 .. Len(messages') :
          InProgress(d) /\ messages'[k] \in Call =>
            identifier[messages'[k]] # identifier[d]
    <3> SUFFICES ASSUME NEW d \in registered, NEW k \in 1 .. Len(messages'),
                        InProgress(d), messages'[k] \in Call
                 PROVE  identifier[messages'[k]] # identifier[d]
      OBVIOUS
    <3>1. k + 1 \in 1 .. Len(messages) /\ messages'[k] = messages[k + 1]
      BY <2>1
    <3> QED BY <3>1
  <2> QED BY <2>2, <2>3, <2>4, <2>5
<1>11. CASE NoMessage
  BY <1>11 DEF NoMessage
<1>12. CASE TakeEvent
  BY <1>12 DEF TakeEvent, Note
<1>13. CASE NoEventCame
  BY <1>13 DEF NoEventCame
<1>14. CASE TakeParseError
  BY <1>14 DEF TakeParseError
<1>15. CASE CheckTimeouts
  BY <1>15 DEF CheckTimeouts, AnswerAll, Waiting
<1>16. CASE Stop
  BY <1>16 DEF Stop, AnswerAll, Waiting
<1>17. CASE UNCHANGED vars
  BY <1>17 DEF vars
<1> QED
  BY <1>1, <1>2, <1>3, <1>4, <1>5, <1>6, <1>7, <1>8, <1>9,
     <1>10, <1>11, <1>12, <1>13, <1>14, <1>15, <1>16, <1>17
  DEF Next, LoopStep

(* An event is kept as the reader passed it on, under its identifier.       *)
LEMMA EventStep ==
  ASSUME TypeOK, EventInv, [Next]_vars
  PROVE  EventInv'
<1> USE ManagerAssumption DEF TypeOK, EventInv, client, replies, server, table, history
<1>1. ASSUME NEW c \in Call, SendCommand(c) PROVE EventInv'
  BY <1>1 DEF SendCommand
<1>2. ASSUME NEW c \in Call, Register(c) PROVE EventInv'
  BY <1>2 DEF Register
<1>3. ASSUME NEW c \in Call, DeadlinePasses(c) PROVE EventInv'
  BY <1>3 DEF DeadlinePasses
<1>4. ASSUME NEW c \in Call, Receive(c) PROVE EventInv'
  BY <1>4 DEF Receive, Return
<1>5. CASE CallShutdown
  BY <1>5 DEF CallShutdown
<1>6. ASSUME NEW e \in Event, ServerSends(e) PROVE EventInv'
  <2>1. UNCHANGED pending_events
    BY <1>6 DEF ServerSends, Pass
  <2>2. CASE UNCHANGED events
    BY <2>1, <2>2
  <2>3. CASE events' = Append(events, e)
    <3>1. \A k \in 1 .. Len(events') :
            \/ k \in 1 .. Len(events) /\ events'[k] = events[k]
            \/ events'[k] = e
      BY <2>3, AppendAtEnd
    <3>2. e.for # NoCall => identifier[e.for] = e.id
      BY <1>6 DEF ServerSends
    <3> QED BY <2>1, <3>1, <3>2
  <2> QED BY <1>6, <2>2, <2>3 DEF ServerSends, Pass
<1>7. CASE ReaderFails
  <2>1. UNCHANGED pending_events
    BY <1>7 DEF ReaderFails, Pass
  <2>2. CASE UNCHANGED events
    BY <2>1, <2>2
  <2>3. CASE events' = Append(events, ParseError)
    <3>1. \A k \in 1 .. Len(events') :
            \/ k \in 1 .. Len(events) /\ events'[k] = events[k]
            \/ events'[k] = ParseError
      BY <2>3, AppendAtEnd
    <3> QED BY <2>1, <3>1
  <2> QED BY <1>7, <2>2, <2>3 DEF ReaderFails, Pass
<1>8. CASE ServerExits
  BY <1>8 DEF ServerExits
<1>9. CASE TakeWaiter
  BY <1>9 DEF TakeWaiter, Answer, RemovePending, Timely
<1>10. CASE TakeShutdown
  BY <1>10 DEF TakeShutdown
<1>11. CASE NoMessage
  BY <1>11 DEF NoMessage
<1>12. CASE TakeEvent
  <2> DEFINE e == Head(events)
  <2>1. /\ e \in Event /\ e.id \in Ident
        /\ \A k \in 1 .. Len(events') :
             k + 1 \in 1 .. Len(events) /\ events'[k] = events[k + 1]
    BY <1>12, HeadTail, EventFields DEF TakeEvent
  <2>2. \A j \in Ident :
          \/ pending_events'[j] = pending_events[j]
          \/ j = e.id /\ pending_events'[j] = e
    BY <1>12 DEF TakeEvent
  <2> HIDE DEF e
  <2>3. \A j \in Ident : pending_events'[j] # NoEvent => pending_events'[j].id = j
    BY <2>2
  <2>4. \A k \in 1 .. Len(events') :
          events'[k] # ParseError /\ events'[k].for # NoCall =>
            identifier[events'[k].for] = events'[k].id
    BY <2>1
  <2> QED BY <2>3, <2>4
<1>13. CASE NoEventCame
  BY <1>13 DEF NoEventCame
<1>14. CASE TakeParseError
  <2>1. /\ UNCHANGED pending_events
        /\ \A k \in 1 .. Len(events') :
             k + 1 \in 1 .. Len(events) /\ events'[k] = events[k + 1]
    BY <1>14, HeadTail DEF TakeParseError
  <2> QED BY <2>1
<1>15. CASE CheckTimeouts
  BY <1>15 DEF CheckTimeouts, AnswerAll, Waiting
<1>16. CASE Stop
  <2>1. 1 .. Len(events') = {}
    BY <1>16 DEF Stop
  <2>2. \A i \in Ident : pending_events'[i] = NoEvent
    BY <1>16 DEF Stop
  <2> QED BY <2>1, <2>2
<1>17. CASE UNCHANGED vars
  BY <1>17 DEF vars
<1> QED
  BY <1>1, <1>2, <1>3, <1>4, <1>5, <1>6, <1>7, <1>8, <1>9,
     <1>10, <1>11, <1>12, <1>13, <1>14, <1>15, <1>16, <1>17
  DEF Next, LoopStep

(* What the loop answers comes from the event it matched with the waiter.  *)
LEMMA AnswerStep ==
  ASSUME TypeOK, TableInv, EventInv, AnswerInv, [Next]_vars
  PROVE  AnswerInv'
<1> USE ManagerAssumption, EventFields
    DEF TypeOK, AnswerInv, GoodAnswer, client, replies, server, table, history
<1>1. ASSUME NEW c \in Call, SendCommand(c) PROVE AnswerInv'
  <2>1. /\ UNCHANGED << answer, answered, expired >>
        /\ \A d \in Call : result'[d] = result[d] \/ result'[d].kind = "closed"
        /\ \A d \in Call :
             call'[d] # "returned" => call[d] # "returned" /\ result'[d] = result[d]
    BY <1>1 DEF SendCommand, Err
  <2> QED BY <2>1
<1>2. ASSUME NEW c \in Call, Register(c) PROVE AnswerInv'
  <2>1. /\ UNCHANGED << answer, answered, expired >>
        /\ \A d \in Call : result'[d] = result[d] \/ result'[d].kind = "closed"
        /\ \A d \in Call :
             call'[d] # "returned" => call[d] # "returned" /\ result'[d] = result[d]
    BY <1>2 DEF Register, Err
  <2> QED BY <2>1
<1>3. ASSUME NEW c \in Call, DeadlinePasses(c) PROVE AnswerInv'
  <2>1. /\ UNCHANGED << call, answer, answered, result >>
        /\ \A d \in Call : expired[d] => expired'[d]
    BY <1>3 DEF DeadlinePasses
  <2> QED BY <2>1
<1>4. ASSUME NEW c \in Call, Receive(c) PROVE AnswerInv'
  <2>1. UNCHANGED << answer, answered, expired >>
    BY <1>4 DEF Receive, Return
  <2>2. /\ \A d \in Call : d # c => result'[d] = result[d] /\ call'[d] = call[d]
        /\ call'[c] = "returned"
    BY <1>4 DEF Receive, Return
  <2>3. \/ result'[c] = answer[c]
        \/ result'[c].kind = "timeout" /\ expired[c]
        \/ result'[c].kind = "closed"
    BY <1>4 DEF Receive, Return, Err
  <2>4. GoodAnswer(c, result'[c])
    BY <2>3
  <2> QED BY <2>1, <2>2, <2>4
<1>5. CASE CallShutdown
  BY <1>5 DEF CallShutdown
<1>6. ASSUME NEW e \in Event, ServerSends(e) PROVE AnswerInv'
  BY <1>6 DEF ServerSends, Pass, Named
<1>7. CASE ReaderFails
  BY <1>7 DEF ReaderFails, Pass
<1>8. CASE ServerExits
  BY <1>8 DEF ServerExits
<1>9. CASE TakeWaiter
  <2> DEFINE c == Head(messages)
             i == identifier[c]
             e == pending_events[i]
  <2>1. c \in Call /\ i \in Ident /\ e \in Event \cup {NoEvent}
    BY <1>9, HeadTail DEF TakeWaiter
  <2>2. UNCHANGED << call, result, expired >>
    BY <1>9 DEF TakeWaiter
  <2>3. Matches(c, e) => GoodAnswer(c, AnswerOf(c, e))
    BY <2>1 DEF Matches, AnswerOf, Ok, Err, EventInv
  <2>4. \A d \in Call :
          \/ answer'[d] = answer[d]
          \/ d = c /\ Matches(c, e) /\ answer'[d] = AnswerOf(c, e)
    BY <1>9, <2>1 DEF TakeWaiter, Answer
  <2>5. \A d \in Call : answered'[d] = 0 => answered[d] = 0 /\ answer'[d] = answer[d]
    BY <1>9, <2>1 DEF TakeWaiter, Answer
  <2> HIDE DEF e, c, i
  <2> QED BY <2>2, <2>3, <2>4, <2>5
<1>10. CASE TakeShutdown
  BY <1>10 DEF TakeShutdown
<1>11. CASE NoMessage
  BY <1>11 DEF NoMessage
<1>12. CASE TakeEvent
  <2> DEFINE e == Head(events)
             c == waiters[e.id]
  <2>1. e \in Event /\ e.id \in Ident /\ c \in Call \cup {NoCall}
    BY <1>12, HeadTail, EventFields DEF TakeEvent
  <2>2. UNCHANGED << call, result, expired >>
    BY <1>12 DEF TakeEvent
  <2>3. c # NoCall /\ Matches(c, e) => GoodAnswer(c, AnswerOf(c, e))
    BY <2>1 DEF Matches, AnswerOf, Ok, Err, TableInv
  <2>4. \A d \in Call :
          \/ answer'[d] = answer[d]
          \/ d = c /\ c # NoCall /\ Matches(c, e) /\ answer'[d] = AnswerOf(c, e)
    BY <1>12, <2>1 DEF TakeEvent, Answer
  <2>5. \A d \in Call : answered'[d] = 0 => answered[d] = 0 /\ answer'[d] = answer[d]
    BY <1>12, <2>1 DEF TakeEvent, Answer
  <2> HIDE DEF e, c
  <2> QED BY <2>2, <2>3, <2>4, <2>5
<1>13. CASE NoEventCame
  BY <1>13 DEF NoEventCame
<1>14. CASE TakeParseError
  BY <1>14 DEF TakeParseError
<1>15. CASE CheckTimeouts
  <2>1. UNCHANGED << call, result, expired >>
    BY <1>15 DEF CheckTimeouts
  <2>2. \A c \in Call : answer'[c] = answer[c] \/ (answer'[c] = Err("timeout") /\ expired[c])
    BY <1>15 DEF CheckTimeouts, AnswerAll
  <2>3. \A c \in Call : answered'[c] = 0 => answered[c] = 0 /\ answer'[c] = answer[c]
    BY <1>15 DEF CheckTimeouts, AnswerAll
  <2> QED BY <2>1, <2>2, <2>3 DEF Err
<1>16. CASE Stop
  <2>1. UNCHANGED << call, result, expired >>
    BY <1>16 DEF Stop
  <2>2. \A c \in Call : answer'[c] = answer[c] \/ answer'[c] = Err("closed")
    BY <1>16 DEF Stop, AnswerAll
  <2>3. \A c \in Call : answered'[c] = 0 => answered[c] = 0 /\ answer'[c] = answer[c]
    BY <1>16 DEF Stop, AnswerAll
  <2> QED BY <2>1, <2>2, <2>3 DEF Err
<1>17. CASE UNCHANGED vars
  BY <1>17 DEF vars
<1> QED
  BY <1>1, <1>2, <1>3, <1>4, <1>5, <1>6, <1>7, <1>8, <1>9,
     <1>10, <1>11, <1>12, <1>13, <1>14, <1>15, <1>16, <1>17
  DEF Next, LoopStep

(* An answer taken for a registered call meets it in the table or comes     *)
(* after another answer.                                                   *)
LEMMA OfferStep ==
  ASSUME TypeOK, TableInv, OrderInv, EventInv, AnswerInv, OfferInv, [Next]_vars
  PROVE  OfferInv'
<1> USE ManagerAssumption DEF TypeOK, OfferInv, Answered, client, replies, server, table, history
<1>1. ASSUME NEW c \in Call, SendCommand(c) PROVE OfferInv'
  <2>1. /\ UNCHANGED << expired, answer, loop, waiters, registered, offered >>
        /\ call[c] = "idle" /\ c \notin registered /\ offered[c] = {}
        /\ \A d \in Call : d # c => call'[d] = call[d] /\ result'[d] = result[d]
        /\ call'[c] # "waiting"
    BY <1>1 DEF SendCommand, TableInv
  <2> QED BY <2>1
<1>2. ASSUME NEW c \in Call, Register(c) PROVE OfferInv'
  <2>1. /\ UNCHANGED << expired, answer, loop, waiters, registered, offered >>
        /\ call[c] = "sent" /\ c \notin registered /\ offered[c] = {}
        /\ \A d \in Call : d # c => call'[d] = call[d] /\ result'[d] = result[d]
    BY <1>2 DEF Register, TableInv
  <2> QED BY <2>1
<1>3. ASSUME NEW c \in Call, DeadlinePasses(c) PROVE OfferInv'
  BY <1>3 DEF DeadlinePasses
<1>4. ASSUME NEW c \in Call, Receive(c) PROVE OfferInv'
  <2>1. /\ UNCHANGED << expired, answer, loop, waiters, registered, offered >>
        /\ call[c] = "waiting" /\ call'[c] = "returned"
        /\ \A d \in Call : d # c => call'[d] = call[d] /\ result'[d] = result[d]
    BY <1>4 DEF Receive, Return
  <2>2. offered[c] \cap accepted[c] # {} => Answered(result'[c])
    BY <1>4 DEF Receive, Return, None, Err
  <2> QED BY <2>1, <2>2
<1>5. CASE CallShutdown
  BY <1>5 DEF CallShutdown
<1>6. ASSUME NEW e \in Event, ServerSends(e) PROVE OfferInv'
  BY <1>6 DEF ServerSends, Pass, Named
<1>7. CASE ReaderFails
  BY <1>7 DEF ReaderFails, Pass
<1>8. CASE ServerExits
  BY <1>8 DEF ServerExits
<1>9. CASE TakeWaiter
  <2> DEFINE c == Head(messages)
             i == identifier[c]
             e == pending_events[i]
  <2>1. /\ c \in Call /\ i \in Ident
        /\ c = messages[1] /\ 1 \in 1 .. Len(messages)
        /\ call[c] \in {"waiting", "returned"}
    BY <1>9, HeadTail DEF TakeWaiter, TableInv
  <2>2. /\ UNCHANGED << call, expired, result, loop, offered >>
        /\ registered' = registered \cup ({c} \cap Timely)
    BY <1>9 DEF TakeWaiter
  <2>3. \A d \in registered : InProgress(d) => identifier[d] # i
    BY <2>1 DEF OrderInv
  <2>4. \A d \in Call : d \in registered' => d \in registered \/ d = c
    BY <2>2
  <2>5. CASE /\ Matches(c, e) /\ Answer(c, AnswerOf(c, e))
             /\ UNCHANGED waiters
    <3>1. Answered(AnswerOf(c, e)) /\ AnswerOf(c, e) # None
      BY DEF AnswerOf, Ok, Err, None
    <3>2. \A d \in Call :
            IF d = c /\ call[c] = "waiting" THEN answer'[d] = AnswerOf(c, e)
            ELSE answer'[d] = answer[d]
      BY <2>1, <2>5 DEF Answer
    <3> HIDE DEF Answered, c, i, e
    <3> QED BY <2>2, <2>4, <2>5, <3>1, <3>2
  <2>6. CASE waiters' = [waiters EXCEPT ![i] = c] /\ UNCHANGED replies
    <3>1. \A j \in Ident : waiters'[j] = IF j = i THEN c ELSE waiters[j]
      BY <2>6
    <3>2. \A d \in registered : call[d] = "waiting" => identifier[d] # i
      BY <2>3 DEF InProgress
    <3> HIDE DEF Answered, c
    <3> QED BY <2>1, <2>2, <2>4, <2>6, <3>1, <3>2
  <2> QED BY <1>9, <2>5, <2>6 DEF TakeWaiter
<1>10. CASE TakeShutdown
  BY <1>10 DEF TakeShutdown
<1>11. CASE NoMessage
  BY <1>11 DEF NoMessage
<1>12. CASE TakeEvent
  <2> DEFINE e == Head(events)
             c == waiters[e.id]
  <2>1. /\ e \in Event /\ e.id \in Ident /\ c \in Call \cup {NoCall}
        /\ e.for # NoCall => identifier[e.for] = e.id
    BY <1>12, HeadTail, EventFields DEF TakeEvent, EventInv
  <2>2. /\ UNCHANGED << call, expired, result, registered >>
        /\ loop = "events"
    BY <1>12 DEF TakeEvent, Note
  <2>3. \A d \in Call :
          \/ offered'[d] = offered[d]
          \/ /\ d = e.for /\ d \in Timely \cap registered
             /\ offered'[d] = offered[d] \cup {e.type}
    BY <1>12 DEF TakeEvent, Note
  <2>4. \A d \in registered : InProgress(d) => call[d] = "waiting"
    BY DEF InProgress, TableInv
  <2>5. \A d \in Call :
          \/ answer'[d] = answer[d]
          \/ answer'[d] = AnswerOf(c, e) /\ Matches(c, e)
    BY <1>12 DEF TakeEvent, Answer
  <2>6. Matches(c, e) => Answered(AnswerOf(c, e)) /\ AnswerOf(c, e) # None
    BY DEF AnswerOf, Ok, Err, None
  <2>7. \A d \in Call : answer[d] # None => answer'[d] # None
    BY <2>5, <2>6
  <2>8. \A d \in Call :
          d = c /\ call[d] = "waiting" /\ Matches(c, e) =>
            answer'[d] = AnswerOf(c, e)
    BY <1>12, ManagerAssumption DEF TakeEvent, Answer
  <2>9. \A j \in Ident :
          \/ waiters'[j] = waiters[j]
          \/ j = e.id /\ Matches(c, e)
    BY <1>12 DEF TakeEvent, RemoveWaiter, LeaveWaiter
  <2>10. ASSUME NEW d \in Call, d \in registered, call[d] = "waiting",
                ~ expired[d], answer'[d] = None
         PROVE  waiters'[identifier[d]] = d
    <3>1. answer[d] = None /\ waiters[identifier[d]] = d
      BY <2>2, <2>7, <2>10
    <3> HIDE DEF e, Answered
    <3>2. ~ (identifier[d] = e.id /\ Matches(c, e))
      BY <2>6, <2>8, <2>10, <3>1
    <3> QED BY <2>9, <3>1, <3>2
  <2>11. ASSUME NEW d \in Call, offered'[d] # offered[d], e.type \in accepted[d]
         PROVE  call[d] = "waiting" /\ Answered(answer'[d])
    <3>1. /\ d = e.for /\ d \in registered /\ call[d] = "waiting" /\ ~ expired[d]
          /\ identifier[d] = e.id
      BY <2>1, <2>3, <2>4, <2>11 DEF Timely
    <3>2. CASE answer[d] = None
      <4>1. c = d
        BY <2>2, <3>1, <3>2
      <4>2. Matches(c, e)
        BY <2>1, <2>11, <4>1 DEF Matches
      <4> HIDE DEF c, e, Answered
      <4> QED BY <2>6, <2>8, <3>1, <4>1, <4>2
    <3>3. CASE answer[d] # None
      <4>1. Answered(answer[d])
        BY <3>1, <3>3 DEF AnswerInv, GoodAnswer
      <4> HIDE DEF c, e, Answered
      <4> QED BY <2>5, <2>6, <3>1, <4>1
    <3> QED BY <3>2, <3>3
  <2>12. \A d \in Call : Answered(answer[d]) => Answered(answer'[d])
    <3> HIDE DEF Answered, c, e
    <3> QED BY <2>5, <2>6
  <2>13. \A d \in Call :
           /\ d \notin registered' => offered'[d] = {}
           /\ /\ d \in registered' /\ call'[d] = "waiting" /\ ~ expired'[d]
              /\ answer'[d] = None
              => waiters'[identifier[d]] = d
    <3> HIDE DEF Answered, c, e
    <3> QED BY <2>2, <2>3, <2>10
  <2>14. \A d \in Call :
           offered'[d] \cap accepted[d] # {} =>
             /\ call[d] = "waiting" => Answered(answer'[d])
             /\ call[d] = "returned" => Answered(result[d])
    <3> SUFFICES ASSUME NEW d \in Call, offered'[d] \cap accepted[d] # {}
                 PROVE  /\ call[d] = "waiting" => Answered(answer'[d])
                        /\ call[d] = "returned" => Answered(result[d])
      OBVIOUS
    <3> HIDE DEF Answered, c, e
    <3>1. CASE offered[d] \cap accepted[d] # {}
      BY <2>12, <3>1
    <3>2. CASE offered[d] \cap accepted[d] = {}
      <4>1. offered'[d] # offered[d] /\ e.type \in accepted[d]
        BY <2>3, <3>2
      <4> QED BY <2>11, <4>1
    <3> QED BY <3>1, <3>2
  <2> HIDE DEF c, e
  <2> QED BY <2>2, <2>13, <2>14
<1>13. CASE NoEventCame
  BY <1>13 DEF NoEventCame
<1>14. CASE TakeParseError
  BY <1>14 DEF TakeParseError
<1>15. CASE CheckTimeouts
  <2> DEFINE late == {c \in Waiting : expired[c]}
  <2>1. /\ UNCHANGED << call, expired, result, registered, offered >>
        /\ loop = "timeouts"
    BY <1>15 DEF CheckTimeouts
  <2>2. \A c \in Call : c \in late => expired[c] /\ ~ Answered(answer[c])
    BY DEF TableInv, AnswerInv, Waiting, None
  <2>3. \A c \in Call : c \notin late => answer'[c] = answer[c]
    BY <1>15 DEF CheckTimeouts, AnswerAll
  <2>4. \A i \in Ident : waiters[i] \notin late => waiters'[i] = waiters[i]
    BY <1>15 DEF CheckTimeouts
  <2> HIDE DEF late, Answered
  <2> QED BY <2>1, <2>2, <2>3, <2>4
<1>16. CASE Stop
  <2>1. /\ UNCHANGED << call, expired, result, registered, offered >>
        /\ loop' = "stopped"
    BY <1>16 DEF Stop
  <2>2. \A c \in Call : answer'[c] = answer[c] \/ Answered(answer'[c])
    BY <1>16 DEF Stop, AnswerAll, Err
  <2> QED BY <2>1, <2>2
<1>17. CASE UNCHANGED vars
  BY <1>17 DEF vars
<1> QED
  BY <1>1, <1>2, <1>3, <1>4, <1>5, <1>6, <1>7, <1>8, <1>9,
     <1>10, <1>11, <1>12, <1>13, <1>14, <1>15, <1>16, <1>17
  DEF Next, LoopStep

(* The invariant holds at the start.                                       *)
LEMMA InitIInv == Init => IInv
<1> SUFFICES ASSUME Init PROVE IInv
  OBVIOUS
<1> USE ManagerAssumption, Replies DEF Init
<1>1. TypeOK
  <2>1. messages \in Seq(Call \cup {Shutdown}) /\ events \in Seq(Event \cup {ParseError})
    OBVIOUS
  <2>2. answer \in [Call -> Reply] /\ result \in [Call -> Reply]
    OBVIOUS
  <2>3. answered \in [Call -> 0 .. 1]
    OBVIOUS
  <2>4. heard \in [Call -> SUBSET Type] /\ offered \in [Call -> SUBSET Type]
    OBVIOUS
  <2>5. /\ waiters \in [Ident -> Call \cup {NoCall}]
        /\ pending_events \in [Ident -> Event \cup {NoEvent}]
    OBVIOUS
  <2>6. /\ call \in [Call -> {"idle", "sent", "waiting", "returned"}]
        /\ expired \in [Call -> BOOLEAN]
        /\ emitted \in 0 .. MaxEvents
        /\ registered \in SUBSET Call
    OBVIOUS
  <2> QED BY <2>1, <2>2, <2>3, <2>4, <2>5, <2>6 DEF TypeOK
<1>2. 1 .. Len(messages) = {} /\ 1 .. Len(events) = {}
  OBVIOUS
<1>3. WaiterOrPending /\ TableInv /\ EventInv
  BY <1>2 DEF WaiterOrPending, TableInv, EventInv
<1>4. OrderInv
  BY <1>2 DEF OrderInv, InProgress
<1>5. AnswerInv /\ OfferInv
  BY DEF AnswerInv, GoodAnswer, OfferInv
<1> QED BY <1>1, <1>3, <1>4, <1>5 DEF IInv

(* The invariant is inductive.                                             *)
LEMMA NextIInv == IInv /\ [Next]_vars => IInv'
BY TypeStep, PendingStep, TableStep, OrderStep, EventStep, AnswerStep, OfferStep
   DEF IInv

(* The strengthened invariant holds in every state of the specification.   *)
THEOREM Invariance == Spec => []IInv
<1>1. Init => IInv
  BY InitIInv
<1>2. IInv /\ [Next]_vars => IInv'
  BY NextIInv
<1> QED BY <1>1, <1>2, PTL DEF Spec

-----------------------------------------------------------------------------
(* The channels, the table and the answers keep their types, and the       *)
(* processing loop puts at most one answer into the channel of a call.     *)
THEOREM TypeCorrect == Spec => []TypeOK
<1>1. IInv => TypeOK
  BY DEF IInv
<1> QED BY <1>1, Invariance, PTL

(* waiters and pending_events of the processing loop never hold the same   *)
(* identifier.                                                             *)
THEOREM NeverBoth == Spec => []WaiterOrPending
<1>1. IInv => WaiterOrPending
  BY DEF IInv
<1> QED BY <1>1, Invariance, PTL

(* wait_for_response never returns an event of another identifier or of a  *)
(* type its caller does not expect: the check at event_handler.rs:352 and  *)
(* the branch for it are never taken.                                      *)
THEOREM OnlyRightAnswers == Spec => []RightAnswer
<1>1. IInv => RightAnswer
  BY DEF IInv, AnswerInv, GoodAnswer, RightAnswer, None
<1> QED BY <1>1, Invariance, PTL

(* A call whose answer was taken after it was registered and before its    *)
(* deadline does not time out, whatever else comes about its identifier.   *)
THEOREM NoAnswerLost == Spec => []AnswerNotLost
<1>1. IInv => AnswerNotLost
  <2> SUFFICES ASSUME IInv, NEW c \in Call, result[c].kind = "timeout",
                      offered[c] \cap accepted[c] # {}
               PROVE  FALSE
    BY DEF AnswerNotLost
  <2>1. call[c] # "returned"
    BY DEF IInv, OfferInv, Answered
  <2> QED BY <2>1 DEF IInv, AnswerInv, None
<1> QED BY <1>1, Invariance, PTL
=============================================================================
