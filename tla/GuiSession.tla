----------------------------- MODULE GuiSession -----------------------------
(***************************************************************************)
(* One GUI: the Qt main thread (gui/robot_gui.py), which runs a teaching   *)
(* action step by step, and the network thread (gui/backend_client.py),    *)
(* which owns the socket.  The outbox leads from the first to the second;  *)
(* the socket's stream, the receive loop and Qt's queued signals, all of   *)
(* them in order, lead back and are one queue, the inbox.  The backend is  *)
(* its side of the connection: it answers each request, late or in a frame *)
(* that breaks off, and other threads of it broadcast.                     *)
(*                                                                         *)
(* A handler of the main thread is atomic except in send_message, which    *)
(* tests the connection and then fills the outbox: `hand' is the request   *)
(* in between.  A request carries the connection it was tested on.         *)
(***************************************************************************)
EXTENDS Integers, Sequences, FiniteSets

CONSTANTS
  Positions,      \* teaching positions
  MaxSteps,       \* bound: length of the action list
  MaxRequests,    \* bound: request identifiers
  MaxConns,       \* bound: connections to the backend
  MaxFaults       \* bound: broadcasts, and frames that sendall leaves unfinished

ASSUME GuiBounds ==
  MaxSteps \in Nat /\ MaxRequests \in Nat /\ MaxConns \in Nat /\ MaxFaults \in Nat

None == 0           \* no request_id
Request == [id : 1..MaxRequests, kind : {"action", "arm", "connect", "disconnect"},
            conn : 1..MaxConns]
Nobody == [id |-> None, kind |-> "none", conn |-> 0]
Message == [type : {"disconnected", "esp_status", "error", "arm_result"},
            id : 0..MaxRequests, ok : BOOLEAN]
Sent == [id : 1..MaxRequests, item : Positions, acked : BOOLEAN]     \* of a run
Disconnected == [type |-> "disconnected", id |-> None, ok |-> FALSE]
EspStatus(ok) == [type |-> "esp_status", id |-> None, ok |-> ok]
Failure(id) == [type |-> "error", id |-> id, ok |-> FALSE]
ArmResult(id, ok) == [type |-> "arm_result", id |-> id, ok |-> ok]

VARIABLES
  espShown, list,             \* esp_connected, action_list
  running, step, pend, timer, \* action_running, action_step, pending request, action_timer
  seq, hand,          \* _request_sequence; the request inside send_message
  closing,            \* closeEvent, stop(): _stop_event
  inbox,              \* what the main thread will see
  net, flag, outbox,  \* where run() is, _connected_event, _outbox
  conn,               \* connections made so far
  toBackend, cut,     \* the connection; cut: its last frame was left unfinished
  responses, link,    \* what the handler has still to send; is the ESP32 connected
  faults,             \* broadcasts and unfinished frames so far
  lost,               \* history: a frame was left unfinished
  trail, edited       \* history: this run's requests with their ACKs, edits under it

runVars == <<running, step, pend, timer, trail, edited>>
sendVars == <<seq, hand>>
guiVars == <<espShown, list, runVars, sendVars, closing>>
clientVars == <<net, flag, outbox, conn>>
backendVars == <<toBackend, cut, responses, link, faults, lost>>
vars == <<guiVars, inbox, clientVars, backendVars>>

Init ==
  /\ espShown = FALSE /\ list = <<>>
  /\ running = FALSE /\ step = 0 /\ pend = None /\ timer = FALSE
  /\ seq = 0 /\ hand = Nobody /\ closing = FALSE /\ inbox = <<>>
  /\ net = "down" /\ flag = FALSE /\ outbox = <<>> /\ conn = 0
  /\ toBackend = <<>> /\ cut = FALSE /\ responses = <<>> /\ link \in BOOLEAN
  /\ faults = 0 /\ lost = FALSE /\ trail = <<>> /\ edited = FALSE

-----------------------------------------------------------------------------
(* Main thread: requests *)

Idle == hand = Nobody /\ ~closing

\* Mutant: the connection is not tested.
TakeIdentifier(kind) ==
  /\ seq < MaxRequests
  /\ seq' = seq + 1
  /\ hand' = [id |-> seq + 1, kind |-> kind, conn |-> conn]

\* _send_backend up to the test in send_message; an identifier is used up in any case.
TestConnection(kind) ==
  /\ seq < MaxRequests
  /\ seq' = seq + 1
  /\ hand' = IF flag THEN [id |-> seq + 1, kind |-> kind, conn |-> conn] ELSE Nobody

\* The put of send_message, and what _send_next_action_step does with its result.
Put ==
  /\ hand # Nobody
  /\ outbox' = Append(outbox, hand) /\ hand' = Nobody
  /\ pend' = IF hand.kind = "action" THEN hand.id ELSE pend
  /\ UNCHANGED <<espShown, list, running, step, timer, trail, edited, seq, closing,
                 inbox, net, flag, conn, backendVars>>

\* Mutant: the timer is left running.
HaltKeepingTimer ==
  /\ running' = FALSE /\ pend' = None
  /\ trail' = <<>> /\ edited' = FALSE
  /\ UNCHANGED <<step, timer>>

\* stop_action
Halt ==
  /\ running' = FALSE /\ pend' = None /\ timer' = FALSE
  /\ trail' = <<>> /\ edited' = FALSE
  /\ UNCHANGED step

\* send_angles of MOVE, HOME and TEACHING commands
SendArm ==
  /\ Idle /\ espShown /\ TestConnection("arm")
  /\ UNCHANGED <<espShown, list, runVars, closing, inbox, clientVars, backendVars>>

ConnectEsp32 ==
  /\ Idle /\ ~espShown /\ TestConnection("connect")
  /\ UNCHANGED <<espShown, list, runVars, closing, inbox, clientVars, backendVars>>

DisconnectEsp32 ==
  /\ Idle /\ espShown /\ Halt /\ TestConnection("disconnect")
  /\ UNCHANGED <<espShown, list, closing, inbox, clientVars, backendVars>>

-----------------------------------------------------------------------------
(* Main thread: the teaching action *)

AddStep(p) ==
  /\ Idle /\ Len(list) < MaxSteps
  /\ list' = Append(list, p)
  /\ UNCHANGED <<espShown, runVars, sendVars, closing, inbox, clientVars, backendVars>>

\* A run counts rows: removing one at or before the row sent last shifts the others
\* under it.
RemoveStep(i) ==
  /\ Idle
  /\ list' = SubSeq(list, 1, i - 1) \o SubSeq(list, i + 1, Len(list))
  /\ edited' = (edited \/ i <= Len(trail))
  /\ UNCHANGED <<espShown, running, step, pend, timer, trail, sendVars, closing, inbox,
                 clientVars, backendVars>>

ClearSteps ==
  /\ Idle /\ list # <<>>
  /\ list' = <<>>
  /\ edited' = running
  /\ UNCHANGED <<espShown, running, step, pend, timer, trail, sendVars, closing, inbox,
                 clientVars, backendVars>>

\* _send_next_action_step when rows are left: row k (from 0) is sent, after the requests
\* `sent' of this run, or the run stops because it cannot be.
SendStep(k, sent) ==
  \/ /\ espShown /\ flag /\ TestConnection("action")
     /\ running' = TRUE /\ pend' = None /\ timer' = FALSE
     /\ trail' = Append(sent, [id |-> seq + 1, item |-> list[k + 1], acked |-> FALSE])
  \/ /\ espShown /\ ~flag /\ TestConnection("action")
     /\ running' = FALSE /\ pend' = None /\ timer' = FALSE /\ trail' = <<>>
  \/ /\ ~espShown /\ UNCHANGED sendVars
     /\ running' = FALSE /\ pend' = None /\ timer' = FALSE /\ trail' = <<>>

ExecuteAction ==
  /\ Idle /\ ~running /\ espShown /\ list # <<>>
  /\ step' = 0 /\ edited' = FALSE
  /\ SendStep(0, <<>>)
  /\ UNCHANGED <<espShown, list, closing, inbox, clientVars, backendVars>>

\* action_timer has fired: _send_next_action_step.
TimerFires ==
  /\ Idle /\ timer
  /\ \/ /\ ~running \/ pend # None
        /\ timer' = FALSE /\ UNCHANGED <<running, pend, trail, sendVars>>
     \/ /\ running /\ pend = None /\ step >= Len(list)
        /\ running' = FALSE /\ timer' = FALSE /\ trail' = <<>>
        /\ UNCHANGED <<pend, sendVars>>
     \/ running /\ pend = None /\ step < Len(list) /\ SendStep(step, trail)
  /\ edited' = (edited /\ running')
  /\ UNCHANGED <<espShown, list, step, closing, inbox, clientVars, backendVars>>

StopAction ==
  /\ Idle /\ running /\ Halt
  /\ UNCHANGED <<espShown, list, sendVars, closing, inbox, clientVars, backendVars>>

\* closeEvent; signals are no longer delivered.
CloseWindow ==
  /\ Idle /\ closing' = TRUE /\ timer' = FALSE /\ inbox' = <<>>
  /\ UNCHANGED <<espShown, list, running, step, pend, trail, edited, sendVars,
                 clientVars, backendVars>>

-----------------------------------------------------------------------------
(* Main thread: signals *)

Signal(type) == inbox # <<>> /\ Head(inbox).type = type

\* _on_backend_connection_changed(False)
OnDisconnected ==
  /\ Signal("disconnected")
  /\ espShown' = FALSE /\ Halt

OnEspStatus ==
  /\ Signal("esp_status")
  /\ espShown' = Head(inbox).ok
  /\ UNCHANGED runVars

\* Mutant: the identifier is not compared.
OnAnyError ==
  /\ Signal("error")
  /\ Halt /\ UNCHANGED espShown

\* An error without request_id has the identifier of "no request pending".
OnError ==
  /\ Signal("error")
  /\ IF Head(inbox).id = pend THEN Halt ELSE UNCHANGED runVars
  /\ UNCHANGED espShown

\* Mutant: any result advances the action.
OnAnyArmResult ==
  /\ Signal("arm_result")
  /\ IF running /\ Head(inbox).ok
       THEN /\ pend' = None /\ step' = step + 1 /\ timer' = TRUE
            /\ UNCHANGED <<running, trail, edited>>
       ELSE Halt
  /\ UNCHANGED espShown

\* Mutant: the step is counted twice.
OnArmResultCountingTwice ==
  /\ Signal("arm_result")
  /\ IF Head(inbox).id = pend /\ running
       THEN /\ pend' = None /\ step' = step + 2 /\ timer' = TRUE
            /\ UNCHANGED <<running, trail, edited>>
       ELSE UNCHANGED runVars
  /\ UNCHANGED espShown

\* _handle_arm_result
OnArmResult ==
  /\ Signal("arm_result")
  /\ \/ Head(inbox).id # pend /\ UNCHANGED runVars
     \/ /\ Head(inbox).id = pend /\ ~running
        /\ pend' = None /\ UNCHANGED <<running, step, timer, trail, edited>>
     \/ Head(inbox).id = pend /\ running /\ ~Head(inbox).ok /\ Halt
     \/ /\ Head(inbox).id = pend /\ running /\ Head(inbox).ok
        /\ pend' = None /\ step' = step + 1 /\ timer' = TRUE
        /\ UNCHANGED <<running, trail, edited>>
  /\ UNCHANGED espShown

HandleSignal ==
  /\ Idle
  /\ OnDisconnected \/ OnEspStatus \/ OnError \/ OnArmResult
  /\ inbox' = Tail(inbox)
  /\ UNCHANGED <<list, sendVars, closing, clientVars, backendVars>>

-----------------------------------------------------------------------------
(* Network thread *)

Emit(m) == inbox' = IF closing THEN inbox ELSE Append(inbox, m)

\* create_connection succeeds; the backend greets the session with its status.
Connect ==
  /\ net = "down" /\ ~closing /\ conn < MaxConns
  /\ net' = "up" /\ flag' = TRUE /\ conn' = conn + 1
  /\ toBackend' = <<>> /\ cut' = FALSE /\ responses' = <<EspStatus(link)>>
  /\ UNCHANGED <<guiVars, inbox, outbox, link, faults, lost>>

\* create_connection fails; the outbox is discarded all the same.
ConnectFails ==
  /\ net = "down" /\ ~closing /\ outbox' = <<>>
  /\ UNCHANGED <<guiVars, inbox, net, flag, conn, backendVars>>

\* _flush_outbox; when sendall fails the message is gone with the connection.
FlushOutbox ==
  /\ net = "up" /\ outbox # <<>>
  /\ outbox' = Tail(outbox) /\ toBackend' = Append(toBackend, Head(outbox))
  /\ UNCHANGED <<guiVars, inbox, net, flag, conn, cut, responses, link, faults, lost>>

\* Mutant: connected_changed is emitted only when the loop was not stopped by an error.
MarkSilently ==
  /\ net = "up"
  /\ net' = "draining" /\ flag' = FALSE
  /\ toBackend' = <<>> /\ responses' = <<>> /\ cut' = FALSE
  /\ UNCHANGED <<guiVars, inbox, outbox, conn, link, faults, lost>>

\* The connection breaks, or the loop sees _stop_event; then _mark_disconnected.
MarkDisconnected ==
  /\ net = "up"
  /\ net' = "draining" /\ flag' = FALSE
  /\ Emit(Disconnected)
  /\ toBackend' = <<>> /\ responses' = <<>> /\ cut' = FALSE
  /\ UNCHANGED <<guiVars, outbox, conn, link, faults, lost>>

\* Mutant: what was queued is kept for the next connection.
KeepPendingMessages ==
  /\ net = "draining"
  /\ net' = "down"
  /\ UNCHANGED <<guiVars, inbox, flag, outbox, conn, backendVars>>

\* _discard_pending_messages
DiscardPendingMessages ==
  /\ net = "draining"
  /\ net' = "down" /\ outbox' = <<>>
  /\ UNCHANGED <<guiVars, inbox, flag, conn, backendVars>>

\* run() ends: it waits to reconnect, or tests _stop_event first.
EndThread ==
  /\ net = "down" /\ closing
  /\ net' = "done"
  /\ UNCHANGED <<guiVars, inbox, flag, outbox, conn, backendVars>>

-----------------------------------------------------------------------------
(* The backend's side of the connection *)

\* handle_request: the responses each kind of request may get.
Answers(r) ==
  IF r.kind = "disconnect" THEN {<<EspStatus(FALSE)>>}
  ELSE IF r.kind = "connect" THEN {<<EspStatus(TRUE)>>, <<Failure(r.id), EspStatus(link)>>}
  ELSE {<<Failure(r.id)>>, <<ArmResult(r.id, FALSE)>>}
       \cup {<<ArmResult(r.id, TRUE)>> : x \in {link} \ {FALSE}}

HandleRequest ==
  /\ net = "up" /\ toBackend # <<>> /\ responses = <<>>
  /\ toBackend' = Tail(toBackend)
  /\ responses' \in Answers(Head(toBackend))
  /\ link' = IF Head(toBackend).kind \in {"connect", "disconnect"}
               THEN responses'[Len(responses')].ok ELSE link
  /\ trail' = [i \in DOMAIN trail |-> [trail[i] EXCEPT !.acked =
                 @ \/ responses'[1] = ArmResult(trail[i].id, TRUE)]]
  /\ UNCHANGED <<espShown, list, running, step, pend, timer, edited, sendVars, closing,
                 inbox, clientVars, cut, faults, lost>>

\* _send and the receive loop: a frame that follows an unfinished one makes one bad line
\* with it, and both are dropped; sendall may give up in the middle of a frame.
Deliver(m) == IF cut THEN UNCHANGED inbox ELSE Emit(m)

SendFrame(m) ==
  \/ /\ cut' = FALSE /\ UNCHANGED <<faults, lost>>
     /\ Deliver(m)
  \/ /\ faults < MaxFaults
     /\ cut' = TRUE /\ lost' = TRUE /\ faults' = faults + 1
     /\ UNCHANGED inbox

SendResponse ==
  /\ net = "up" /\ responses # <<>>
  /\ SendFrame(Head(responses)) /\ responses' = Tail(responses)
  /\ UNCHANGED <<guiVars, clientVars, toBackend, link>>

\* _broadcast, by other threads: the ESP32 was lost, or an AGV row was not stored.
Broadcast ==
  /\ net = "up" /\ faults < MaxFaults
  /\ faults' = faults + 1 /\ cut' = FALSE
  /\ \/ link /\ link' = FALSE /\ Deliver(EspStatus(FALSE))
     \/ UNCHANGED link /\ Deliver(Failure(None))
  /\ UNCHANGED <<guiVars, clientVars, toBackend, responses, lost>>

-----------------------------------------------------------------------------
User ==
  \/ SendArm \/ ConnectEsp32 \/ DisconnectEsp32
  \/ (\E p \in Positions : AddStep(p)) \/ (\E i \in 1..Len(list) : RemoveStep(i))
  \/ ClearSteps \/ ExecuteAction \/ StopAction \/ CloseWindow
MainThread == Put \/ TimerFires \/ HandleSignal
Network == Connect \/ ConnectFails \/ FlushOutbox \/ MarkDisconnected
           \/ DiscardPendingMessages \/ EndThread
Backend == HandleRequest \/ SendResponse \/ Broadcast

Next == User \/ MainThread \/ Network \/ Backend

Spec == Init /\ [][Next]_vars

-----------------------------------------------------------------------------
(* Properties *)

\* Every variable has its type.
GuiTypeOK ==
  /\ espShown \in BOOLEAN /\ list \in Seq(Positions)
  /\ running \in BOOLEAN /\ step \in Nat /\ pend \in 0..MaxRequests /\ timer \in BOOLEAN
  /\ seq \in 0..MaxRequests /\ hand \in Request \cup {Nobody} /\ closing \in BOOLEAN
  /\ inbox \in Seq(Message) /\ net \in {"down", "up", "draining", "done"}
  /\ flag \in BOOLEAN /\ outbox \in Seq(Request) /\ conn \in 0..MaxConns
  /\ toBackend \in Seq(Request) /\ cut \in BOOLEAN
  /\ responses \in Seq(Message) /\ link \in BOOLEAN
  /\ faults \in Nat /\ lost \in BOOLEAN
  /\ trail \in Seq(Sent)
  /\ edited \in BOOLEAN

\* A running action waits for exactly one thing: for its request to be queued, for
\* the answer to it, or for the timer; a stopped one waits for nothing, so that
\* no timer or answer of it can wake the next (stop_action, _handle_arm_result).
WaitsForOneThing ==
  ~closing =>
    /\ running <=> hand.kind = "action" \/ pend # None \/ timer
    /\ hand.kind = "action" => pend = None /\ ~timer
    /\ pend # None => ~timer

\* A step is sent only after the arm acknowledged every earlier step of the same run;
\* a late result of a stopped run does not count (_handle_arm_result 588).
StepAfterAck ==
  \A i \in 1..Len(trail) : i < Len(trail) \/ timer => trail[i].acked

\* A run that ends by itself sent every step of the list, in its order, and had
\* each acknowledged, unless a step already sent was removed while it ran.
CompleteMeansAll ==
  [][(running /\ ~running' /\ ~closing' /\ timer /\ inbox' = inbox /\ step >= Len(list)) =>
       /\ \A i \in 1..Len(trail) : trail[i].acked
       /\ edited \/ [i \in 1..Len(trail) |-> trail[i].item] = list]_vars

\* An error stops the action only if it answers a request of this run, or has no
\* request_id and comes between two steps, when None equals None (line 571).
ErrorStopsOwnRun ==
  [][(running /\ ~running' /\ Signal("error") /\ inbox' = Tail(inbox)) =>
       \/ \E i \in 1..Len(trail) : trail[i].id = Head(inbox).id
       \/ Head(inbox).id = None /\ timer]_vars

\* Of the requests queued for a lost connection at most one goes out on the next, the
\* one that was inside send_message when the connection went, and it is first.
AtMostOneStale ==
  \A i \in 1..Len(outbox) : outbox[i].conn < conn => i = 1

\* While a step is unanswered its answer is still to come, or the news that the
\* connection is gone: only a frame that broke off can leave the action waiting for good.
NeverWaitsInVain ==
  (pend # None /\ ~lost /\ ~closing) =>
    \/ \E q \in {outbox, toBackend, responses, inbox} : \E i \in DOMAIN q : q[i].id = pend
    \/ \E i \in DOMAIN inbox : inbox[i] = Disconnected
=============================================================================
