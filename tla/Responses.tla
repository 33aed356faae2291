----------------------------- MODULE Responses -----------------------------
(***************************************************************************)
(* What EventManager promises to the callers of send_command_and_wait,     *)
(* without its threads, channels and tables: the server sends events, an   *)
(* event may be lost, and a call comes back with one that was sent about   *)
(* its identifier, is of the type it expects and is handed to no other     *)
(* call; or it fails.                                                      *)
(***************************************************************************)
EXTENDS Naturals

CONSTANTS Call, Ident, Type, identifier, accepted, errors, NoCall, NoEvent

Event == [id : Ident, type : Type, for : Call \cup {NoCall}]

VARIABLES
  status,    (* idle, pending or returned                                  *)
  outcome,   (* what each call returned                                    *)
  sent,      (* how many messages the server has sent                      *)
  pool       (* how many copies of each event are on their way             *)

vars == << status, outcome, sent, pool >>

Init ==
  /\ status = [c \in Call |-> "idle"]
  /\ outcome = [c \in Call |-> [kind |-> "none", event |-> NoEvent]]
  /\ sent = 0
  /\ pool = [e \in Event |-> 0]

(* Calls about one identifier follow each other.                           *)
Begin(c) ==
  /\ status[c] = "idle"
  /\ \A d \in Call : identifier[d] = identifier[c] => status[d] # "pending"
  /\ status' = [status EXCEPT ![c] = "pending"]
  /\ UNCHANGED << outcome, sent, pool >>

Send(e) ==
  /\ sent' = sent + 1
  /\ UNCHANGED << status, outcome >>
  /\ pool' = [pool EXCEPT ![e] = @ + 1]

(* A message that cannot be parsed, or that nobody takes any more          *)
SendInVain == sent' = sent + 1 /\ UNCHANGED << status, outcome, pool >>

(* An event that nobody waits for, or that the end of the loop leaves.     *)
Lose ==
  /\ UNCHANGED << status, outcome, sent >>
  /\ DOMAIN pool' = Event
  /\ \A e \in Event : pool'[e] \in 0 .. pool[e]

Deliver(c, e) ==
  /\ status[c] = "pending"
  /\ e.id = identifier[c] /\ e.type \in accepted[c]
  /\ pool[e] > 0
  /\ status' = [status EXCEPT ![c] = "returned"]
  /\ outcome' = [outcome EXCEPT ![c] = [kind |-> "ok", event |-> e]]
  /\ pool' = [pool EXCEPT ![e] = @ - 1]
  /\ UNCHANGED sent

(* Only a call that names error events is told of one.                     *)
Fail(c, kind) ==
  /\ status[c] \in {"idle", "pending"}
  /\ kind = "error_event" => errors[c] # {}
  /\ status' = [status EXCEPT ![c] = "returned"]
  /\ outcome' = [outcome EXCEPT ![c] = [kind |-> kind, event |-> NoEvent]]
  /\ UNCHANGED << sent, pool >>

Next ==
  \/ Lose
  \/ \E c \in Call :
       \/ Begin(c)
       \/ \E e \in Event : Deliver(c, e)
       \/ \E kind \in {"error_event", "timeout", "closed"} : Fail(c, kind)
  \/ SendInVain
  \/ \E e \in Event : Send(e)

(* A call that has begun comes back: a failure is always open to it.       *)
Returns == \A c \in Call : status[c] = "pending" ~> status[c] = "returned"

Spec == Init /\ [][Next]_vars /\ Returns
=============================================================================
