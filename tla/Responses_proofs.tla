-------------------------- MODULE Responses_proofs --------------------------
(***************************************************************************)
(* EventManager implements Responses, step by step, for any calls,         *)
(* identifiers, events and sizes of the channels: every step of the        *)
(* callers, the channels, the processing loop and the server is one of the *)
(* steps that Responses allows.  Its liveness stays with TLC.              *)
(*                                                                         *)
(* What has to be counted are the copies of an event that are on their     *)
(* way.  Those in the channel change at its two ends only, and at most one *)
(* channel of a response holds an event, since the calls about an          *)
(* identifier follow each other.                                           *)
(***************************************************************************)
EXTENDS EventManager_proofs, FiniteSetTheorems, FunctionTheorems

(* The variables of Responses that are not variables here.                 *)
status == [c \in Call |-> IF InProgress(c) THEN "pending" ELSE call[c]]
pool == [e \in Event |-> Copies(e)]

(* The three places where an event can be.                                 *)
Places(queue, e) == {k \in DOMAIN queue : queue[k] = e}
InChannel(e) == Cardinality(Places(events, e))
InTable(e) == IF pending_events[e.id] = e THEN 1 ELSE 0
Holds(c, e) == call[c] = "waiting" /\ answer[c] = Ok(e)
InResponse(e) == IF \E c \in Call : Holds(c, e) THEN 1 ELSE 0

(* An answer that is no success carries no event, and only a call that     *)
(* lists error events is told of one.                                      *)
FailureInv ==
  \A c \in Call :
    answer[c].kind # "ok" =>
      /\ answer[c] = Err(answer[c].kind)
      /\ answer[c].kind = "error_event" => errors[c] # {}

RInv == IInv /\ FailureInv

-----------------------------------------------------------------------------
(* A channel is finite, and so are the places of an event in it.           *)
LEMMA PlacesFinite ==
  ASSUME NEW S, NEW queue \in Seq(S), NEW e
  PROVE  /\ IsFiniteSet(Places(queue, e))
         /\ Cardinality(Places(queue, e)) \in Nat
<1>1. Places(queue, e) \in SUBSET (1 .. Len(queue))
  BY DEF Places
<1>2. IsFiniteSet(1 .. Len(queue))
  BY FS_Interval
<1> QED BY <1>1, <1>2, FS_Subset, FS_CardinalityType

(* An empty channel holds nothing.                                         *)
LEMMA PlacesEmpty ==
  ASSUME NEW e
  PROVE  Cardinality(Places(<< >>, e)) = 0
<1>1. Places(<< >>, e) = {}
  BY DEF Places
<1> QED BY <1>1, FS_EmptySet

(* What is put into a channel is in one more place, nothing else is.       *)
LEMMA PlacesAppend ==
  ASSUME NEW S, NEW queue \in Seq(S), NEW x \in S, NEW e
  PROVE  Cardinality(Places(Append(queue, x), e)) =
           Cardinality(Places(queue, e)) + (IF x = e THEN 1 ELSE 0)
<1> DEFINE n == Len(queue) + 1
<1>1. /\ DOMAIN queue = 1 .. Len(queue) /\ Len(queue) \in Nat
      /\ DOMAIN Append(queue, x) = 1 .. n
      /\ Append(queue, x)[n] = x
      /\ \A k \in 1 .. Len(queue) : Append(queue, x)[k] = queue[k]
  OBVIOUS
<1>2. 1 .. n = (1 .. Len(queue)) \cup {n} /\ n \notin 1 .. Len(queue)
  BY <1>1
<1> HIDE DEF n
<1>3. Places(Append(queue, x), e) = Places(queue, e) \cup (IF x = e THEN {n} ELSE {})
  BY <1>1, <1>2 DEF Places
<1>4. n \notin Places(queue, e)
  BY <1>1, <1>2 DEF Places
<1>5. CASE x = e
  BY <1>3, <1>4, <1>5, PlacesFinite, FS_AddElement
<1>6. CASE x # e
  <2>1. Places(Append(queue, x), e) = Places(queue, e)
    BY <1>3, <1>6
  <2> QED BY <1>6, <2>1, PlacesFinite
<1> QED BY <1>5, <1>6

(* What is taken from a channel is in one place less.                      *)
LEMMA PlacesTail ==
  ASSUME NEW S, NEW queue \in Seq(S), queue # << >>, NEW e
  PROVE  Cardinality(Places(queue, e)) =
           Cardinality(Places(Tail(queue), e)) + (IF Head(queue) = e THEN 1 ELSE 0)
<1>1. /\ Len(queue) \in Nat /\ Len(queue) >= 1
      /\ DOMAIN queue = 1 .. Len(queue) /\ DOMAIN Tail(queue) = 1 .. Len(queue) - 1
      /\ Head(queue) = queue[1] /\ Tail(queue) \in Seq(S)
      /\ \A k \in 1 .. Len(queue) - 1 : Tail(queue)[k] = queue[k + 1]
  OBVIOUS
<1> DEFINE old == Places(queue, e) \ {1}
           new == Places(Tail(queue), e)
           next == [k \in new |-> k + 1]
<1>2. next \in Bijection(new, old)
  <2>1. \A k \in new : k \in 1 .. Len(queue) - 1 /\ queue[k + 1] = e
    BY <1>1 DEF Places
  <2>2. next \in [new -> old]
    <3> SUFFICES ASSUME NEW k \in new PROVE k + 1 \in old
      OBVIOUS
    <3>1. k + 1 \in 1 .. Len(queue) /\ k + 1 # 1 /\ queue[k + 1] = e
      BY <1>1, <2>1
    <3> QED BY <1>1, <3>1 DEF Places
  <2>3. \A j, k \in new : next[j] = next[k] => j = k
    BY <2>1
  <2>4. \A k \in old : \E j \in new : next[j] = k
    <3> SUFFICES ASSUME NEW k \in old PROVE k - 1 \in new /\ next[k - 1] = k
      OBVIOUS
    <3>1. k \in 1 .. Len(queue) /\ k # 1 /\ queue[k] = e
      BY <1>1 DEF Places
    <3>2. k - 1 \in 1 .. Len(queue) - 1 /\ (k - 1) + 1 = k
      BY <1>1, <3>1
    <3>3. Tail(queue)[k - 1] = e
      BY <1>1, <3>1, <3>2
    <3> QED BY <1>1, <3>2, <3>3 DEF Places
  <2> HIDE DEF old, new, next
  <2> QED BY <2>2, <2>3, <2>4 DEF Bijection, Injection, Surjection, IsInjective
<1>3. IsFiniteSet(new) /\ Cardinality(new) \in Nat /\ IsFiniteSet(Places(queue, e))
      /\ Cardinality(Places(queue, e)) \in Nat
  BY <1>1, PlacesFinite
<1>4. Cardinality(old) = Cardinality(new)
  <2> HIDE DEF old, new, next
  <2>1. ExistsBijection(new, old)
    BY <1>2 DEF ExistsBijection
  <2> QED BY <1>3, <2>1, FS_Bijection
<1>5. 1 \in Places(queue, e) <=> Head(queue) = e
  BY <1>1 DEF Places
<1>6. Cardinality(old) = IF 1 \in Places(queue, e) THEN Cardinality(Places(queue, e)) - 1
                         ELSE Cardinality(Places(queue, e))
  BY <1>3, FS_RemoveElement
<1> HIDE DEF old, new
<1> QED BY <1>3, <1>4, <1>5, <1>6 DEF new

-----------------------------------------------------------------------------
(* The loop answers with the event that it matched, or with an error.      *)
LEMMA FailureStep ==
  ASSUME IInv, FailureInv, [Next]_vars
  PROVE  FailureInv'
<1> USE DEF FailureInv, client, replies, server, table, history
<1>0. TypeOK
  BY DEF IInv
<1>f. \A kind : Err(kind) = Err(Err(kind).kind) /\ Err(kind).kind = kind
  BY DEF Err
<1>a. ASSUME NEW c \in Call, NEW e, Matches(c, e),
             answer' \in {answer, [answer EXCEPT ![c] = AnswerOf(c, e)]}
      PROVE  FailureInv'
  <2>1. \A d \in Call : answer'[d] = answer[d] \/ (d = c /\ answer'[d] = AnswerOf(c, e))
    <3>1. CASE answer' = answer
      BY <3>1
    <3>2. CASE answer' = [answer EXCEPT ![c] = AnswerOf(c, e)]
      <4>1. answer \in [Call -> Reply]
        BY <1>0 DEF TypeOK
      <4> QED BY <3>2, <4>1
    <3> QED BY <1>a, <3>1, <3>2
  <2>2. AnswerOf(c, e).kind # "ok" =>
          AnswerOf(c, e) = Err("error_event") /\ errors[c] # {}
    BY <1>a DEF Matches, AnswerOf, Ok
  <2>3. Err("error_event") = Err(Err("error_event").kind)
    BY <1>f
  <2> QED BY <2>1, <2>2, <2>3
<1>1. CASE TakeWaiter
  <2> DEFINE c == Head(messages)
             e == pending_events[identifier[c]]
  <2>1. c \in Call
    BY <1>0, <1>1, HeadTail, ManagerAssumption DEF TakeWaiter, TypeOK
  <2>2. \/ UNCHANGED answer
        \/ Matches(c, e) /\ answer' \in {answer, [answer EXCEPT ![c] = AnswerOf(c, e)]}
    BY <1>1 DEF TakeWaiter, Answer
  <2> HIDE DEF c, e
  <2> QED BY <1>a, <2>1, <2>2
<1>2. CASE TakeEvent
  <2> DEFINE e == Head(events)
             c == waiters[e.id]
  <2>1. e.id \in Ident
    BY <1>0, <1>2, HeadTail, EventFields DEF TakeEvent, TypeOK
  <2>2. c \in Call \cup {NoCall}
    BY <1>0, <2>1 DEF TypeOK
  <2>3. \/ UNCHANGED answer
        \/ /\ c # NoCall /\ Matches(c, e)
           /\ answer' \in {answer, [answer EXCEPT ![c] = AnswerOf(c, e)]}
    BY <1>2 DEF TakeEvent, Answer
  <2> HIDE DEF c, e
  <2> QED BY <1>a, <2>2, <2>3
<1>3. CASE CheckTimeouts
  <2>1. \A d \in Call : answer'[d] = answer[d] \/ answer'[d] = Err("timeout")
    BY <1>3 DEF CheckTimeouts, AnswerAll
  <2>2. Err("timeout") = Err(Err("timeout").kind) /\ Err("timeout").kind # "error_event"
    BY DEF Err
  <2> QED BY <2>1, <2>2
<1>4. CASE Stop
  <2>1. \A d \in Call : answer'[d] = answer[d] \/ answer'[d] = Err("closed")
    BY <1>4 DEF Stop, AnswerAll
  <2>2. Err("closed") = Err(Err("closed").kind) /\ Err("closed").kind # "error_event"
    BY DEF Err
  <2> QED BY <2>1, <2>2
<1>5. CASE UNCHANGED answer
  BY <1>5
<1> QED
  BY <1>1, <1>2, <1>3, <1>4, <1>5
  DEF Next, LoopStep, SendCommand, Register, DeadlinePasses, Receive, Return,
      CallShutdown, ServerSends, ReaderFails, Pass, ServerExits, TakeShutdown,
      NoMessage, NoEventCame, TakeParseError, vars

(* The strengthened invariant of the refinement.                           *)
LEMMA RInvariance == Spec => []RInv
<1>1. Init => FailureInv
  BY DEF Init, FailureInv, None, Err
<1>2. IInv /\ FailureInv /\ [Next]_vars => FailureInv'
  BY FailureStep
<1>3. RInv <=> IInv /\ FailureInv
  BY DEF RInv
<1> QED BY <1>1, <1>2, <1>3, Invariance, PTL DEF Spec

(* At most one channel of a response holds an event: the calls about its   *)
(* identifier follow each other.                                           *)
LEMMA OneHolder ==
  ASSUME IInv, NEW e \in Event, NEW c \in Call, NEW d \in Call, Holds(c, e), Holds(d, e)
  PROVE  c = d
<1>1. \A x \in Call : Holds(x, e) => identifier[x] = e.id /\ InProgress(x)
  BY DEF Holds, Ok, IInv, AnswerInv, GoodAnswer, None, InProgress
<1> QED BY <1>1 DEF IInv, OrderInv

(* The copies of an event by the place where they are.                     *)
LEMMA CopiesAre ==
  ASSUME IInv, IInv', NEW e \in Event
  PROVE  /\ Copies(e) = InChannel(e) + InTable(e) + InResponse(e)
         /\ Copies(e)' = InChannel(e)' + InTable(e)' + InResponse(e)'
         /\ InChannel(e) \in Nat /\ InTable(e) \in 0 .. 1 /\ InResponse(e) \in 0 .. 1
         /\ InChannel(e)' \in Nat /\ InTable(e)' \in 0 .. 1 /\ InResponse(e)' \in 0 .. 1
<1> DEFINE holders == {c \in Call : Holds(c, e)}
<1>1. Cardinality(holders) = InResponse(e)
  <2>1. \A c, d \in Call : Holds(c, e) /\ Holds(d, e) => c = d
    BY OneHolder
  <2>2. holders = {} \/ \E c \in Call : holders = {c}
    BY <2>1
  <2> QED BY <2>2, FS_EmptySet, FS_Singleton DEF InResponse
<1>2. Cardinality(holders') = InResponse(e)'
  <2>1. \A x \in Call : Holds(x, e)' => identifier[x] = e.id /\ InProgress(x)'
    BY DEF Holds, Ok, IInv, AnswerInv, GoodAnswer, None, InProgress
  <2>2. \A c, d \in Call : Holds(c, e)' /\ Holds(d, e)' => c = d
    BY <2>1 DEF IInv, OrderInv
  <2>3. holders' = {} \/ \E c \in Call : holders' = {c}
    BY <2>2
  <2> QED BY <2>3, FS_EmptySet, FS_Singleton DEF InResponse
<1>3. InChannel(e) \in Nat /\ InChannel(e)' \in Nat
  BY PlacesFinite DEF InChannel, IInv, TypeOK
<1> QED BY <1>1, <1>2, <1>3
        DEF Copies, InChannel, InTable, InResponse, Places, Holds

-----------------------------------------------------------------------------
(* A step that neither begins nor ends a call, and that makes no event of  *)
(* its own, is Lose or a stutter.                                          *)
LEMMA Quiet ==
  ASSUME IInv, IInv', UNCHANGED << status, result, emitted >>,
         \A e \in Event : Copies(e)' <= Copies(e)
  PROVE  Promised!Next
<1>1. \A e \in Event : Copies(e) \in Nat /\ Copies(e)' \in Nat
  BY CopiesAre
<1>2. \A e \in Event : Copies(e)' \in 0 .. Copies(e)
  BY <1>1
<1> HIDE DEF Copies
<1>3. Promised!Lose
  BY <1>2 DEF Promised!Lose, Promised!Event, Event, status
<1> QED BY <1>3 DEF Promised!Next

(* A call that ends without a success fails in Responses, too.             *)
LEMMA Fails ==
  ASSUME TypeOK, NEW c \in Call, call[c] \in {"idle", "sent", "waiting"},
         NEW kind \in {"error_event", "timeout", "closed"},
         kind = "error_event" => errors[c] # {},
         call' = [call EXCEPT ![c] = "returned"],
         result' = [result EXCEPT ![c] = Err(kind)],
         UNCHANGED emitted,
         \A e \in Event : Copies(e)' = Copies(e)
  PROVE  Promised!Next
<1>1. status[c] \in {"idle", "pending"}
  BY DEF status, InProgress
<1>2. status' = [status EXCEPT ![c] = "returned"]
  BY DEF status, InProgress, TypeOK
<1>3. UNCHANGED pool
  BY DEF pool
<1>4. Promised!Fail(c, kind)
  BY <1>1, <1>2, <1>3 DEF Promised!Fail, status, pool, Err, Promised!Event, Event
<1> QED BY <1>4 DEF Promised!Next

(* While the three places and the waiting calls stay, so do the copies.    *)
LEMMA SameCopies ==
  ASSUME IInv, UNCHANGED << events, pending_events, answer >>,
         \A c \in Call : call'[c] = "waiting" <=> call[c] = "waiting"
  PROVE  \A e \in Event : Copies(e)' = Copies(e)
<1>1. \A e \in Event : {c \in Call : call'[c] = "waiting" /\ answer[c] = Ok(e)}
                       = {c \in Call : call[c] = "waiting" /\ answer[c] = Ok(e)}
  OBVIOUS
<1> QED BY <1>1 DEF Copies

(* send_command_and_wait begins, or the pipe to the server is broken.      *)
LEMMA SendCommandImplements ==
  ASSUME IInv, IInv', NEW c \in Call, SendCommand(c)
  PROVE  Promised!Next
<1> USE DEF replies, server, table, history
<1>0. TypeOK
  BY DEF IInv
<1>1. /\ call[c] = "idle" /\ UNCHANGED << emitted, events, pending_events, answer >>
      /\ \A d \in Call : identifier[d] = identifier[c] => ~ InProgress(d)
  BY DEF SendCommand
<1>2. \A d \in Call : call'[d] = "waiting" <=> call[d] = "waiting"
  BY <1>0, <1>1 DEF SendCommand, TypeOK
<1>3. \A e \in Event : Copies(e)' = Copies(e)
  BY <1>1, <1>2, SameCopies
<1>4. CASE call' = [call EXCEPT ![c] = "sent"] /\ UNCHANGED result
  <2>1. status[c] = "idle"
    BY <1>1 DEF status, InProgress
  <2>2. \A d \in Call : identifier[d] = identifier[c] => status[d] # "pending"
    BY <1>0, <1>1 DEF status, InProgress, TypeOK
  <2>3. status' = [status EXCEPT ![c] = "pending"]
    BY <1>0, <1>4 DEF status, InProgress, TypeOK
  <2>4. UNCHANGED pool
    BY <1>3 DEF pool
  <2>5. Promised!Begin(c)
    BY <1>1, <1>4, <2>1, <2>2, <2>3, <2>4
       DEF Promised!Begin, status, pool, Promised!Event, Event
  <2> QED BY <2>5 DEF Promised!Next
<1>5. CASE call' = [call EXCEPT ![c] = "returned"]
           /\ result' = [result EXCEPT ![c] = Err("closed")]
  BY <1>0, <1>1, <1>3, <1>5, Fails
<1> QED BY <1>4, <1>5 DEF SendCommand

(* The message to the loop is part of the call, or the loop is gone.       *)
LEMMA RegisterImplements ==
  ASSUME IInv, IInv', NEW c \in Call, Register(c)
  PROVE  Promised!Next
<1> USE DEF replies, server, table, history
<1>0. TypeOK
  BY DEF IInv
<1>1. call[c] = "sent" /\ UNCHANGED << emitted, events, pending_events, answer >>
  BY DEF Register
<1>2. CASE call' = [call EXCEPT ![c] = "waiting"] /\ UNCHANGED result
  <2>1. answer[c] = None
    BY <1>1 DEF IInv, TableInv, AnswerInv
  <2>2. \A e \in Event, d \in Call : Holds(d, e)' <=> Holds(d, e)
    BY <1>0, <1>1, <1>2, <2>1 DEF Holds, Ok, None, TypeOK
  <2>3. \A e \in Event : Copies(e)' = Copies(e)
    <3> SUFFICES ASSUME NEW e \in Event PROVE Copies(e)' = Copies(e)
      OBVIOUS
    <3>1. {d \in Call : Holds(d, e)'} = {d \in Call : Holds(d, e)}
      BY <2>2
    <3> QED BY <1>1, <3>1 DEF Copies, Holds
  <2>4. UNCHANGED status
    BY <1>0, <1>1, <1>2 DEF status, InProgress, TypeOK
  <2>5. \A e \in Event : Copies(e) \in Nat
    BY CopiesAre
  <2> QED BY <1>1, <1>2, <2>3, <2>4, <2>5, Quiet
<1>3. CASE call' = [call EXCEPT ![c] = "returned"]
           /\ result' = [result EXCEPT ![c] = Err("closed")]
  <2>1. \A d \in Call : call'[d] = "waiting" <=> call[d] = "waiting"
    BY <1>0, <1>1, <1>3 DEF TypeOK
  <2>2. \A e \in Event : Copies(e)' = Copies(e)
    BY <1>1, <2>1, SameCopies
  <2> QED BY <1>0, <1>1, <1>3, <2>2, Fails
<1> QED BY <1>2, <1>3 DEF Register

(* recv_timeout delivers the one copy that the response channel holds, or  *)
(* fails.                                                                  *)
LEMMA ReceiveImplements ==
  ASSUME IInv, IInv', FailureInv, NEW c \in Call, Receive(c)
  PROVE  Promised!Next
<1> USE DEF replies, server, table, history
<1>0. TypeOK
  BY DEF IInv
<1>1. /\ call[c] = "waiting" /\ call' = [call EXCEPT ![c] = "returned"]
      /\ UNCHANGED << emitted, events, pending_events, answer >>
  BY DEF Receive, Return
<1>2. \A d \in Call : call'[d] = "waiting" <=> call[d] = "waiting" /\ d # c
  BY <1>0, <1>1 DEF TypeOK
<1>3. ASSUME answer[c].kind # "ok" PROVE \A e \in Event : Copies(e)' = Copies(e)
  <2>1. \A e \in Event, d \in Call : Holds(d, e)' <=> Holds(d, e)
    BY <1>1, <1>2, <1>3 DEF Holds, Ok
  <2> SUFFICES ASSUME NEW e \in Event PROVE Copies(e)' = Copies(e)
    OBVIOUS
  <2>2. {d \in Call : Holds(d, e)'} = {d \in Call : Holds(d, e)}
    BY <2>1
  <2> QED BY <1>1, <2>2 DEF Copies, Holds
<1>4. CASE answer[c].kind = "ok"
  <2>1. result' = [result EXCEPT ![c] = answer[c]]
    BY <1>4 DEF Receive, Return, None
  <2>2. PICK e \in Event :
          e.id = identifier[c] /\ e.type \in accepted[c] /\ answer[c].event = e
    BY <1>4 DEF IInv, AnswerInv, GoodAnswer, None
  <2>3. answer[c] = Ok(e)
    BY <1>0, <1>4, <2>2 DEF TypeOK, Reply, Ok
  <2>4. Holds(c, e) /\ \A d \in Call : Holds(d, e) => d = c
    BY <1>1, <2>2, <2>3, OneHolder DEF Holds
  <2>5. \A x \in Event, d \in Call : Holds(d, x)' <=> Holds(d, x) /\ d # c
    BY <1>1, <1>2 DEF Holds
  <2>6. \A x \in Event : InChannel(x)' = InChannel(x) /\ InTable(x)' = InTable(x)
    BY <1>1 DEF InChannel, InTable
  <2>7. InResponse(e) = 1 /\ InResponse(e)' = 0
    BY <2>2, <2>4, <2>5 DEF InResponse
  <2>8. \A x \in Event : x # e => InResponse(x)' = InResponse(x)
    <3> SUFFICES ASSUME NEW x \in Event, x # e PROVE InResponse(x)' = InResponse(x)
      OBVIOUS
    <3>1. ~ Holds(c, x)
      BY <2>3 DEF Holds, Ok
    <3> QED BY <2>5, <3>1 DEF InResponse
  <2>9. Copies(e) > 0 /\ Copies(e)' = Copies(e) - 1
    BY <2>2, <2>6, <2>7, CopiesAre
  <2>10. \A x \in Event : x # e => Copies(x)' = Copies(x)
    BY <2>6, <2>8, CopiesAre
  <2>11. pool' = [pool EXCEPT ![e] = @ - 1] /\ pool[e] > 0
    <3> HIDE DEF Copies
    <3> QED BY <2>2, <2>9, <2>10 DEF pool
  <2>12. status[c] = "pending" /\ status' = [status EXCEPT ![c] = "returned"]
    BY <1>0, <1>1 DEF status, InProgress, TypeOK
  <2>13. result' = [result EXCEPT ![c] = [kind |-> "ok", event |-> e]]
    BY <2>1, <2>3 DEF Ok
  <2>14. Promised!Deliver(c, e)
    BY <1>1, <2>2, <2>11, <2>12, <2>13
       DEF Promised!Deliver, status, pool, Promised!Event, Event
  <2>15. e \in Promised!Event
    BY <2>2 DEF Promised!Event, Event
  <2> QED BY <2>14, <2>15 DEF Promised!Next
<1>5. CASE answer[c].kind # "ok"
  <2>1. CASE answer[c] # None
    <3>1. result' = [result EXCEPT ![c] = answer[c]]
      BY <2>1 DEF Receive, Return
    <3>2. /\ answer[c] = Err(answer[c].kind)
          /\ answer[c].kind = "error_event" => errors[c] # {}
      BY <1>5 DEF FailureInv
    <3>3. answer[c].kind \in {"error_event", "timeout", "closed"}
      BY <1>5, <2>1 DEF IInv, AnswerInv, GoodAnswer
    <3> QED BY <1>0, <1>1, <1>3, <1>5, <3>1, <3>2, <3>3, Fails
  <2>2. CASE answer[c] = None
    <3>1. PICK kind \in {"timeout", "closed"} : result' = [result EXCEPT ![c] = Err(kind)]
      BY <2>2 DEF Receive, Return
    <3> QED BY <1>0, <1>1, <1>3, <1>5, <3>1, Fails
  <2> QED BY <2>1, <2>2
<1> QED BY <1>4, <1>5

(* The server sends an event, to a reader whose loop may have gone.        *)
LEMMA ServerImplements ==
  ASSUME IInv, IInv', NEW e \in Event, ServerSends(e)
  PROVE  Promised!Next
<1> USE DEF client, replies, server, table, history
<1>0. TypeOK
  BY DEF IInv
<1>1. /\ emitted' = emitted + 1
      /\ UNCHANGED << call, result, answer, pending_events >>
  BY DEF ServerSends, Pass
<1>2. UNCHANGED status
  BY <1>1 DEF status, InProgress
<1>3. CASE events' = Append(events, e)
  <2>1. \A x \in Event : InChannel(x)' = InChannel(x) + (IF x = e THEN 1 ELSE 0)
    BY <1>0, <1>3, PlacesAppend DEF InChannel, TypeOK
  <2>2. \A x \in Event : InTable(x)' = InTable(x) /\ InResponse(x)' = InResponse(x)
    BY <1>1 DEF InTable, InResponse, Holds
  <2>3. \A x \in Event : Copies(x)' = IF x = e THEN Copies(x) + 1 ELSE Copies(x)
    BY <2>1, <2>2, CopiesAre
  <2>4. pool' = [pool EXCEPT ![e] = @ + 1]
    <3> HIDE DEF Copies
    <3> QED BY <2>3 DEF pool
  <2>5. Promised!Send(e)
    BY <1>1, <1>2, <2>4 DEF Promised!Send, status, pool, Promised!Event, Event
  <2>6. e \in Promised!Event
    BY DEF Promised!Event, Event
  <2> QED BY <2>5, <2>6 DEF Promised!Next
<1>4. CASE UNCHANGED events
  <2>1. \A x \in Event : Copies(x)' = Copies(x)
    BY <1>1, <1>4, SameCopies
  <2>2. UNCHANGED pool
    BY <2>1 DEF pool
  <2>3. Promised!SendInVain
    BY <1>1, <1>2, <2>2 DEF Promised!SendInVain, status, pool, Promised!Event, Event
  <2> QED BY <2>3 DEF Promised!Next
<1> QED BY <1>3, <1>4 DEF ServerSends, Pass

(* A message that cannot be parsed is sent in vain.                        *)
LEMMA ReaderFailsImplements ==
  ASSUME IInv, IInv', ReaderFails
  PROVE  Promised!Next
<1> USE DEF client, replies, server, table, history
<1>0. TypeOK
  BY DEF IInv
<1>1. /\ emitted' = emitted + 1
      /\ UNCHANGED << call, result, answer, pending_events >>
  BY DEF ReaderFails, Pass
<1>2. UNCHANGED status
  BY <1>1 DEF status, InProgress
<1>3. \A x \in Event : InChannel(x)' = InChannel(x)
  <2>1. CASE UNCHANGED events
    BY <2>1 DEF InChannel
  <2>2. CASE events' = Append(events, ParseError)
    <3> SUFFICES ASSUME NEW x \in Event PROVE InChannel(x)' = InChannel(x)
      OBVIOUS
    <3>1. ParseError # x
      BY ManagerAssumption
    <3>2. InChannel(x)' = InChannel(x) + (IF ParseError = x THEN 1 ELSE 0)
      BY <1>0, <2>2, PlacesAppend DEF InChannel, TypeOK
    <3>3. InChannel(x) \in Nat
      BY CopiesAre
    <3> QED BY <3>1, <3>2, <3>3
  <2> QED BY <2>1, <2>2 DEF ReaderFails, Pass
<1>4. \A x \in Event : InTable(x)' = InTable(x) /\ InResponse(x)' = InResponse(x)
  BY <1>1 DEF InTable, InResponse, Holds
<1>5. \A x \in Event : Copies(x)' = Copies(x)
  BY <1>3, <1>4, CopiesAre
<1>6. UNCHANGED pool
  BY <1>5 DEF pool
<1>7. Promised!SendInVain
  BY <1>1, <1>2, <1>6 DEF Promised!SendInVain, status, pool, Promised!Event, Event
<1> QED BY <1>7 DEF Promised!Next

(* RegisterWaiter moves a pending event into a channel of a response, or   *)
(* loses it: to a caller that has gone, or because of its type.            *)
LEMMA TakeWaiterImplements ==
  ASSUME IInv, IInv', TakeWaiter
  PROVE  Promised!Next
<1> USE DEF client, replies, server, table, history
<1>0. TypeOK
  BY DEF IInv
<1>1. UNCHANGED << call, result, emitted, events >>
  BY DEF TakeWaiter
<1>2. UNCHANGED status
  BY <1>1 DEF status, InProgress
<1>3. PICK c \in Call : c = Head(messages)
  BY <1>0, HeadTail DEF TakeWaiter, TypeOK
<1>4. PICK i \in Ident : i = identifier[c]
  BY ManagerAssumption
<1>5. PICK p \in Event \cup {NoEvent} : p = pending_events[i]
  BY <1>0 DEF TypeOK
<1>6. /\ pending_events' = [pending_events EXCEPT ![i] = NoEvent]
      /\ \/ Matches(c, p) /\ Answer(c, AnswerOf(c, p))
         \/ UNCHANGED answer
  BY <1>3, <1>4, <1>5 DEF TakeWaiter, RemovePending
<1>7. p # NoEvent => p.id = i
  BY <1>5 DEF IInv, EventInv
<1>8. ASSUME NEW x \in Event PROVE InTable(x)' + InResponse(x)' <= InTable(x) + InResponse(x)
  <2>0. /\ InTable(x) \in 0 .. 1 /\ InTable(x)' \in 0 .. 1
        /\ InResponse(x) \in 0 .. 1 /\ InResponse(x)' \in 0 .. 1
    BY CopiesAre
  <2>1. InTable(x)' <= InTable(x)
    BY <1>0, <1>6, EventFields, ManagerAssumption DEF InTable, TypeOK
  <2>2. CASE \A d \in Call : Holds(d, x)' => Holds(d, x)
    <3>1. InResponse(x)' <= InResponse(x)
      BY <2>2 DEF InResponse
    <3> QED BY <2>0, <2>1, <3>1
  <2>3. CASE \E d \in Call : Holds(d, x)' /\ ~ Holds(d, x)
    <3>1. PICK d \in Call : Holds(d, x)' /\ ~ Holds(d, x)
      BY <2>3
    <3>2. Matches(c, p) /\ AnswerOf(c, p) = Ok(x)
      BY <1>0, <1>1, <1>6, <3>1 DEF Holds, Answer, TypeOK
    <3>3. p = x
      BY <3>2 DEF AnswerOf, Ok, Err
    <3>4. p # NoEvent /\ x.id = i
      BY <1>7, <3>2, <3>3 DEF Matches
    <3>5. InTable(x) = 1 /\ InTable(x)' = 0
      BY <1>0, <1>5, <1>6, <3>3, <3>4 DEF InTable, TypeOK
    <3> QED BY <2>0, <3>5
  <2> QED BY <2>2, <2>3
<1>9. \A x \in Event : InChannel(x)' = InChannel(x)
  BY <1>1 DEF InChannel
<1>10. \A x \in Event : Copies(x)' <= Copies(x)
  BY <1>8, <1>9, CopiesAre
<1> QED BY <1>1, <1>2, <1>10, Quiet

(* The loop takes an event from the channel; it then waits in the table,   *)
(* is in one channel of a response, or is lost.                            *)
LEMMA TakeEventImplements ==
  ASSUME IInv, IInv', TakeEvent
  PROVE  Promised!Next
<1> USE DEF client, replies, server, table, history
<1>0. TypeOK
  BY DEF IInv
<1>1. UNCHANGED << call, result, emitted >>
  BY DEF TakeEvent
<1>2. UNCHANGED status
  BY <1>1 DEF status, InProgress
<1>3. PICK e \in Event : e = Head(events)
  BY <1>0, HeadTail DEF TakeEvent, TypeOK
<1>4. PICK c \in Call \cup {NoCall} : c = waiters[e.id]
  BY <1>0, EventFields DEF TypeOK
<1>5. \/ UNCHANGED answer /\ pending_events' = [pending_events EXCEPT ![e.id] = e]
      \/ /\ c # NoCall /\ Matches(c, e) /\ Answer(c, AnswerOf(c, e))
         /\ UNCHANGED pending_events
      \/ UNCHANGED << answer, pending_events >>
  BY <1>3, <1>4 DEF TakeEvent
<1>6. \A x \in Event : InChannel(x) = InChannel(x)' + (IF e = x THEN 1 ELSE 0)
  BY <1>0, <1>3, PlacesTail DEF TakeEvent, InChannel, TypeOK
<1>7. ASSUME NEW x \in Event
      PROVE  InTable(x)' + InResponse(x)' <= InTable(x) + InResponse(x) + (IF e = x THEN 1 ELSE 0)
  <2>0. /\ InTable(x) \in 0 .. 1 /\ InTable(x)' \in 0 .. 1
        /\ InResponse(x) \in 0 .. 1 /\ InResponse(x)' \in 0 .. 1
    BY CopiesAre
  <2>1. CASE UNCHANGED answer
    <3>1. InResponse(x)' = InResponse(x)
      BY <1>1, <2>1 DEF InResponse, Holds
    <3>2. x # e => InTable(x)' <= InTable(x)
      BY <1>0, <1>5, EventFields DEF InTable, TypeOK
    <3> QED BY <2>0, <3>1, <3>2
  <2>2. CASE UNCHANGED pending_events /\ Answer(c, AnswerOf(c, e))
    <3>1. InTable(x)' = InTable(x)
      BY <2>2 DEF InTable
    <3>2. x # e => \A d \in Call : Holds(d, x)' => Holds(d, x)
      BY <1>0, <1>1, <2>2 DEF Holds, Answer, AnswerOf, Ok, Err, TypeOK
    <3>3. x # e => InResponse(x)' <= InResponse(x)
      BY <3>2 DEF InResponse
    <3> QED BY <2>0, <3>1, <3>3
  <2> QED BY <1>5, <2>1, <2>2
<1>8. \A x \in Event : Copies(x)' <= Copies(x)
  <2> SUFFICES ASSUME NEW x \in Event PROVE Copies(x)' <= Copies(x)
    OBVIOUS
  <2>1. InChannel(x)' \in Nat
    BY CopiesAre
  <2> QED BY <1>6, <1>7, <2>1, CopiesAre
<1> QED BY <1>1, <1>2, <1>8, Quiet

(* The other steps of the loop answer with errors and lose events.         *)
LEMMA LosingImplements ==
  ASSUME IInv, IInv', TakeParseError \/ CheckTimeouts \/ Stop
  PROVE  Promised!Next
<1> USE DEF client, replies, server, table, history
<1>0. TypeOK
  BY DEF IInv
<1>1. UNCHANGED << call, result, emitted >>
  BY DEF TakeParseError, CheckTimeouts, Stop
<1>2. UNCHANGED status
  BY <1>1 DEF status, InProgress
<1>3. \A x \in Event, d \in Call : Holds(d, x)' => Holds(d, x)
  BY <1>1 DEF Holds, Ok, Err, TakeParseError, CheckTimeouts, Stop, AnswerAll
<1>4. \A x \in Event : InResponse(x)' <= InResponse(x)
  BY <1>3 DEF InResponse
<1>5. \A x \in Event : InTable(x)' <= InTable(x)
  BY <1>0, EventFields, ManagerAssumption
     DEF InTable, TypeOK, TakeParseError, CheckTimeouts, Stop
<1>6. \A x \in Event : InChannel(x)' <= InChannel(x)
  <2> SUFFICES ASSUME NEW x \in Event PROVE InChannel(x)' <= InChannel(x)
    OBVIOUS
  <2>1. InChannel(x) \in Nat /\ InChannel(x)' \in Nat
    BY CopiesAre
  <2>2. CASE TakeParseError
    <3>1. InChannel(x) = InChannel(x)' + (IF Head(events) = x THEN 1 ELSE 0)
      BY <1>0, <2>2, PlacesTail DEF TakeParseError, InChannel, TypeOK
    <3> QED BY <2>1, <3>1
  <2>3. CASE CheckTimeouts
    BY <2>1, <2>3 DEF CheckTimeouts, InChannel
  <2>4. CASE Stop
    <3>1. InChannel(x)' = 0
      BY <2>4, PlacesEmpty DEF Stop, InChannel
    <3> QED BY <2>1, <3>1
  <2> QED BY <2>2, <2>3, <2>4
<1>7. \A x \in Event : Copies(x)' <= Copies(x)
  BY <1>4, <1>5, <1>6, CopiesAre
<1> QED BY <1>1, <1>2, <1>7, Quiet

(* A step that moves no event and no call.                                 *)
LEMMA OtherImplements ==
  ASSUME IInv, IInv',
         UNCHANGED << call, result, emitted, events, pending_events, answer >>
  PROVE  Promised!Next
<1>1. \A e \in Event : Copies(e)' = Copies(e) /\ Copies(e) \in Nat
  BY SameCopies, CopiesAre
<1>2. UNCHANGED status
  BY DEF status, InProgress
<1> QED BY <1>1, <1>2, Quiet

(* Nothing is on its way before the first event.                           *)
LEMMA InitImplements == Init => Promised!Init
<1> SUFFICES ASSUME Init PROVE Promised!Init
  OBVIOUS
<1>1. \A c \in Call : ~ InProgress(c) /\ call[c] = "idle"
  BY DEF Init, InProgress
<1>2. \A e \in Event : Copies(e) = 0
  <2> SUFFICES ASSUME NEW e \in Event PROVE Copies(e) = 0
    OBVIOUS
  <2>1. Cardinality({k \in DOMAIN events : events[k] = e}) = 0
    BY PlacesEmpty DEF Init, Places
  <2>2. pending_events[e.id] # e
    BY EventFields, ManagerAssumption DEF Init
  <2>3. Cardinality({c \in Call : call[c] = "waiting" /\ answer[c] = Ok(e)}) = 0
    <3>1. {c \in Call : call[c] = "waiting" /\ answer[c] = Ok(e)} = {}
      BY <1>1
    <3> QED BY <3>1, FS_EmptySet
  <2> QED BY <2>1, <2>2, <2>3 DEF Copies
<1>3. Promised!Event = Event
  BY DEF Promised!Event, Event
<1> QED BY <1>1, <1>2, <1>3 DEF Promised!Init, Init, None

-----------------------------------------------------------------------------
(* EventManager does no more than Responses promises: whichever way an     *)
(* event takes through the two channels and the two tables, it succeeds    *)
(* for one call at most, one about its identifier that expects its type;   *)
(* every other end of send_command_and_wait is a failure, and an error     *)
(* event ends only a call that lists some.                                 *)
THEOREM PromisesKept == Spec => Promised!Init /\ [][Promised!Next]_Promised!vars
<1>1. RInv /\ RInv' /\ [Next]_vars => [Promised!Next]_Promised!vars
  <2> SUFFICES ASSUME IInv, IInv', FailureInv, [Next]_vars PROVE Promised!Next
    BY DEF RInv
  <2> USE DEF client, replies, server, table, history
  <2>1. CASE UNCHANGED << call, result, emitted, events, pending_events, answer >>
    BY <2>1, OtherImplements
  <2>2. CASE TakeParseError \/ CheckTimeouts \/ Stop
    BY <2>2, LosingImplements
  <2> QED
    BY <2>1, <2>2, SendCommandImplements, RegisterImplements, ReceiveImplements,
       ServerImplements, ReaderFailsImplements, TakeWaiterImplements,
       TakeEventImplements
    DEF Next, LoopStep, vars, DeadlinePasses, CallShutdown, ServerExits,
        TakeShutdown, NoMessage, NoEventCame
<1> QED BY <1>1, InitImplements, RInvariance, PTL DEF Spec
=============================================================================
