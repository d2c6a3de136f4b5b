---------------------------- MODULE Esp32Client ----------------------------
(***************************************************************************)
(* backend/esp32_client.py: the one object of the backend that talks to    *)
(* the robot arm's ESP32.  Several GUI sessions, each on a thread of the   *)
(* backend, call connect, disconnect and send_arm_command on it; a         *)
(* receiver thread per connection reads the socket and completes the       *)
(* pending command.  The wire carries no request identifier, so an ACK is  *)
(* matched with a command by position alone.                               *)
(*                                                                         *)
(* One action is one critical section of _state_lock, or one blocking call *)
(* made outside it.  A generation is named by the connection it installed: *)
(* the code numbers generations when it installs them and only ever tests  *)
(* them for equality.  Whether an ACK says OK or ERROR is data; what       *)
(* matters is which command the device answers, so an ACK line is that     *)
(* command.  The device knows it; no action of the client looks at it.     *)
(* The threads' join(timeout=1.0) changes no state and does not wait for   *)
(* ever: it is not modelled.                                               *)
(***************************************************************************)
EXTENDS Integers, Sequences

CONSTANTS
  Clients,       \* threads of the backend that serve a GUI session
  Connectors,    \* those of them whose user presses "Connect ESP32"
  MaxGen,        \* bound: connections made
  MaxCommands,   \* bound: arm commands accepted
  MaxTelemetry   \* bound: AGV frames sent by the device on one connection

ASSUME ClientsAssumption == Connectors \subseteq Clients
ASSUME BoundsAssumption ==
  /\ MaxGen \in Nat
  /\ MaxCommands \in Nat
  /\ MaxTelemetry \in Nat

Gens == 1..MaxGen
Cmds == 1..MaxCommands
None == 0            \* Python's None, for a connection and for a command
NoClient == 0
Telemetry == 0       \* an AGV line; an ACK line is the command it answers
ASSUME NoClientAssumption == NoClient \notin Clients

VARIABLES
  \* the Esp32Client object
  socket,      \* _socket
  generation,  \* _generation
  pending,     \* _pending
  commandLock, \* holder of _command_lock
  stop,        \* the stop event of each connection's receiver
  cell, answer, \* the _PendingArmCommand of each command
  \* its calling threads
  pc, ret,     \* where a thread is, and where _disconnect_generation returns
  myGen, myCmd, cand,  \* locals: generation, pending, candidate
  \* its receiver threads
  rpc, fetched, routed,
  \* TCP connections and the device at the other end
  made, open, peerClosed, sent, handled, replies,
  \* history, read by properties only
  issued, ended, notices

clientVars == <<socket, generation, pending, stop, cell, answer>>
threadVars == <<pc, ret, myGen, myCmd, cand, commandLock>>
receiverVars == <<rpc, fetched, routed>>
wireVars == <<made, open, peerClosed, sent, handled, replies>>
historyVars == <<issued, ended, notices>>
vars == <<clientVars, threadVars, receiverVars, wireVars, historyVars>>

Init ==
  /\ socket = None /\ generation = None /\ pending = None
  /\ commandLock = NoClient
  /\ stop = [g \in Gens |-> FALSE]
  /\ cell = [k \in Cmds |-> "new"]
  /\ answer = [k \in Cmds |-> None]
  /\ pc = [c \in Clients |-> "idle"]
  /\ ret = [c \in Clients |-> "return"]
  /\ myGen = [c \in Clients |-> None]
  /\ myCmd = [c \in Clients |-> None]
  /\ cand = [c \in Clients |-> None]
  /\ rpc = [g \in Gens |-> "none"]
  /\ fetched = [g \in Gens |-> 0]
  /\ routed = [g \in Gens |-> 0]
  /\ made = 0
  /\ open = [g \in Gens |-> FALSE]
  /\ peerClosed = [g \in Gens |-> FALSE]
  /\ sent = [g \in Gens |-> <<>>]
  /\ handled = [g \in Gens |-> 0]
  /\ replies = [g \in Gens |-> <<>>]
  /\ issued = 0
  /\ ended = [g \in Gens |-> "none"]
  /\ notices = [g \in Gens |-> 0]

Goto(c, label) == pc' = [pc EXCEPT ![c] = label]

-----------------------------------------------------------------------------
(* The pieces of the code that more than one operation runs. *)

\* `pending.completed = True; ...; pending.event.set()`, on whatever command
\* is pending, with the ACK line that completes it, or none.
CompletePending(outcome, line) ==
  /\ pending' = None
  /\ cell' = IF pending = None THEN cell ELSE [cell EXCEPT ![pending] = outcome]
  /\ answer' = IF pending = None THEN answer ELSE [answer EXCEPT ![pending] = line]

\* Mutant: the receiver is not told to stop.
DetachKeepsReceiver(cause) ==
  /\ socket' = None
  /\ ended' = IF socket = None THEN ended ELSE [ended EXCEPT ![socket] = cause]
  /\ CompletePending("lost", None)
  /\ UNCHANGED <<generation, stop>>

\* Mutant: the pending command is left to itself.
DetachKeepsPending(cause) ==
  /\ socket' = None
  /\ stop' = IF socket = None THEN stop ELSE [stop EXCEPT ![socket] = TRUE]
  /\ ended' = IF socket = None THEN ended ELSE [ended EXCEPT ![socket] = cause]
  /\ UNCHANGED <<generation, pending, cell, answer>>

\* The locked section that takes the connection out of the object.
Detach(cause) ==
  /\ socket' = None
  /\ stop' = IF socket = None THEN stop ELSE [stop EXCEPT ![socket] = TRUE]
  /\ ended' = IF socket = None THEN ended ELSE [ended EXCEPT ![socket] = cause]
  /\ CompletePending("lost", None)
  /\ UNCHANGED generation

\* Mutant: lines of an older connection count as well.
IsCurrentSocket(g) == socket # None

\* A connection's lines count only while it is the installed one.
IsCurrent(g) == g = generation /\ socket # None

\* Mutant: a receiver reports a loss whoever took the connection down.
StillInstalledGeneration(g) == g = generation

\* A receiver takes down only the connection that is installed.
StillInstalled(g) == g = generation /\ socket = g

\* A completed event: the sender's wait() returns True.
EventSet(k) == cell[k] \in {"answered", "lost"}

\* Mutant: the timeout always wins.
MayClaimAlways(c) == TRUE

\* A timed-out sender may still claim its command.
MayClaim(c) == cell[myCmd[c]] = "waiting" /\ pending = myCmd[c]

-----------------------------------------------------------------------------
(* Client threads: connect and disconnect. *)

\* Mutant: connect does not disconnect first.
CreateWithoutDisconnect(c) ==
  /\ pc[c] = "idle" /\ c \in Connectors /\ made < MaxGen
  /\ made' = made + 1
  /\ open' = [open EXCEPT ![made + 1] = TRUE]
  /\ cand' = [cand EXCEPT ![c] = made + 1]
  /\ Goto(c, "install")
  /\ UNCHANGED <<clientVars, receiverVars, historyVars, ret, myGen, myCmd,
                 commandLock, peerClosed, sent, handled, replies>>

\* connect: socket.create_connection succeeds.  (A failure changes nothing.)
CreateConnection(c) ==
  /\ pc[c] = "idle" /\ c \in Connectors /\ made < MaxGen
  /\ made' = made + 1
  /\ open' = [open EXCEPT ![made + 1] = TRUE]
  /\ cand' = [cand EXCEPT ![c] = made + 1]
  /\ ret' = [ret EXCEPT ![c] = "install"]
  /\ Goto(c, "disconnect")
  /\ UNCHANGED <<clientVars, receiverVars, historyVars, myGen, myCmd,
                 commandLock, peerClosed, sent, handled, replies>>

\* disconnect, called by connect or by the session's esp_disconnect:
\* _disconnect_current reads the generation and lets the lock go.
DisconnectCurrent(c) ==
  /\ \/ pc[c] = "disconnect" /\ UNCHANGED ret
     \/ pc[c] = "idle" /\ ret' = [ret EXCEPT ![c] = "return"]
  /\ myGen' = [myGen EXCEPT ![c] = generation]
  /\ Goto(c, "reset")
  /\ UNCHANGED <<clientVars, receiverVars, wireVars, historyVars, myCmd,
                 cand, commandLock>>

\* _disconnect_generation, its locked section.
DisconnectGeneration(c) ==
  /\ pc[c] = "reset"
  /\ IF myGen[c] = generation
       THEN /\ Detach(IF ret[c] = "raise" THEN "fault" ELSE "user")
            /\ Goto(c, IF socket = None THEN ret[c] ELSE "close")
       ELSE /\ Goto(c, ret[c])
            /\ UNCHANGED <<clientVars, ended>>
  /\ UNCHANGED <<receiverVars, wireVars, issued, notices, ret,
                 myGen, myCmd, cand, commandLock>>

\* Mutant: the CONNECTION event is forgotten.
CloseSocketSilent(c) ==
  /\ pc[c] = "close"
  /\ open' = [open EXCEPT ![myGen[c]] = FALSE]
  /\ Goto(c, ret[c])
  /\ UNCHANGED <<clientVars, receiverVars, historyVars, ret, myGen, myCmd,
                 cand, commandLock, made, peerClosed, sent, handled, replies>>

\* _disconnect_generation: shutdown and close of the socket it detached.
CloseSocket(c) ==
  /\ pc[c] = "close"
  /\ open' = [open EXCEPT ![myGen[c]] = FALSE]
  /\ Goto(c, IF ret[c] = "raise" THEN "notify" ELSE ret[c])
  /\ UNCHANGED <<clientVars, receiverVars, historyVars, ret, myGen, myCmd,
                 cand, commandLock, made, peerClosed, sent, handled, replies>>

\* _disconnect_generation: the CONNECTION event, when notify is set.
NotifyLost(c) ==
  /\ pc[c] = "notify"
  /\ notices' = [notices EXCEPT ![myGen[c]] = @ + 1]
  /\ Goto(c, "raise")
  /\ UNCHANGED <<clientVars, receiverVars, wireVars, issued, ended, ret,
                 myGen, myCmd, cand, commandLock>>

\* connect: install the candidate and start its receiver.
InstallConnection(c) ==
  /\ pc[c] = "install"
  /\ generation' = cand[c]
  /\ socket' = cand[c]
  /\ rpc' = [rpc EXCEPT ![cand[c]] = "check"]
  /\ Goto(c, "return")
  /\ UNCHANGED <<pending, stop, cell, answer, fetched, routed, wireVars,
                 historyVars, ret, myGen, myCmd, cand, commandLock>>

-----------------------------------------------------------------------------
(* Client threads: send_arm_command, under _command_lock from the first    *)
(* action to the last.                                                     *)

\* A refused command (no connection, or another one pending) raises at once
\* and leaves nothing behind.
BeginArmCommand(c) ==
  /\ pc[c] = "idle" /\ commandLock = NoClient
  /\ socket # None /\ pending = None
  /\ issued < MaxCommands
  /\ issued' = issued + 1
  /\ pending' = issued + 1
  /\ cell' = [cell EXCEPT ![issued + 1] = "waiting"]
  /\ commandLock' = c
  /\ myGen' = [myGen EXCEPT ![c] = generation]
  /\ myCmd' = [myCmd EXCEPT ![c] = issued + 1]
  /\ Goto(c, "send")
  /\ UNCHANGED <<socket, generation, stop, answer, receiverVars, wireVars,
                 ended, notices, ret, cand>>

\* sendall hands the whole line to TCP, on the socket read at the start.
SendAll(c) ==
  /\ pc[c] = "send" /\ open[myGen[c]]
  /\ sent' = [sent EXCEPT ![myGen[c]] = Append(@, myCmd[c])]
  /\ Goto(c, "wait")
  /\ UNCHANGED <<clientVars, receiverVars, historyVars, ret, myGen, myCmd,
                 cand, commandLock, made, open, peerClosed, handled, replies>>

\* sendall raises OSError: the socket was closed, reset or timed out.  At
\* most a part of the line has left, and a part is never acknowledged.
SendAllFails(c) ==
  /\ pc[c] = "send"
  /\ ret' = [ret EXCEPT ![c] = "raise"]
  /\ Goto(c, "reset")
  /\ UNCHANGED <<clientVars, receiverVars, wireVars, historyVars, myGen,
                 myCmd, cand, commandLock>>

\* pending.event.wait returns True, and the method returns the result.
WaitReturns(c) ==
  /\ pc[c] = "wait" /\ EventSet(myCmd[c])
  /\ Goto(c, "return")
  /\ UNCHANGED <<clientVars, receiverVars, wireVars, historyVars, ret, myGen,
                 myCmd, cand, commandLock>>

\* Mutant: wait() has no timeout.
WaitForever(c) == FALSE /\ UNCHANGED vars

\* Mutant: a command that was not answered in time is sent again.
WaitRetries(c) ==
  /\ pc[c] = "wait" /\ ~EventSet(myCmd[c])
  /\ Goto(c, "send")
  /\ UNCHANGED <<clientVars, receiverVars, wireVars, historyVars, ret, myGen,
                 myCmd, cand, commandLock>>

\* pending.event.wait returns False after ack_timeout seconds.
WaitTimesOut(c) ==
  /\ pc[c] = "wait" /\ ~EventSet(myCmd[c])
  /\ Goto(c, "expire")
  /\ UNCHANGED <<clientVars, receiverVars, wireVars, historyVars, ret, myGen,
                 myCmd, cand, commandLock>>

\* Mutant: a timed-out command leaves its connection in use.
ClaimWithoutReset(c) ==
  /\ pc[c] = "expire"
  /\ pending' = IF MayClaim(c) THEN None ELSE pending
  /\ cell' = IF MayClaim(c) THEN [cell EXCEPT ![myCmd[c]] = "timeout"] ELSE cell
  /\ Goto(c, "return")
  /\ UNCHANGED <<socket, generation, stop, answer, receiverVars, wireVars,
                 historyVars, ret, myGen, myCmd, cand, commandLock>>

\* The locked section after a timeout: the command may have been completed
\* since wait() gave up, and then its result stands.
ClaimTimeout(c) ==
  /\ pc[c] = "expire"
  /\ IF MayClaim(c)
       THEN /\ pending' = None
            /\ cell' = [cell EXCEPT ![myCmd[c]] = "timeout"]
            /\ ret' = [ret EXCEPT ![c] = "raise"]
            /\ Goto(c, "reset")
       ELSE /\ Goto(c, "return")
            /\ UNCHANGED <<pending, cell, ret>>
  /\ UNCHANGED <<socket, generation, stop, answer, receiverVars, wireVars,
                 historyVars, myGen, myCmd, cand, commandLock>>

\* A request ends, by a return or an exception: its locals are gone, and the
\* with block of send_arm_command releases the lock.
Leave(c) ==
  /\ pc[c] \in {"return", "raise"}
  /\ commandLock' = IF commandLock = c THEN NoClient ELSE commandLock
  /\ ret' = [ret EXCEPT ![c] = "return"]
  /\ myGen' = [myGen EXCEPT ![c] = None]
  /\ myCmd' = [myCmd EXCEPT ![c] = None]
  /\ cand' = [cand EXCEPT ![c] = None]
  /\ Goto(c, "idle")
  /\ UNCHANGED <<clientVars, receiverVars, wireVars, historyVars>>

-----------------------------------------------------------------------------
(* Receiver threads: _receiver_loop. *)

RGoto(g, label) == rpc' = [rpc EXCEPT ![g] = label]

Unread(g) == fetched[g] < Len(replies[g])

\* `while not stop_event.is_set()`, tested between two calls of recv.
CheckStop(g) ==
  /\ rpc[g] = "check"
  /\ RGoto(g, IF stop[g] THEN "close" ELSE "recv")
  /\ UNCHANGED <<clientVars, threadVars, fetched, routed, wireVars,
                 historyVars>>

\* Mutant: a line whose end has not come yet is counted as received.
RecvPartialLine(g) ==
  /\ rpc[g] = "recv" /\ open[g]
  /\ fetched' = [fetched EXCEPT ![g] = @ + 1]
  /\ RGoto(g, "route")
  /\ UNCHANGED <<clientVars, threadVars, routed, wireVars, historyVars>>

\* recv returns bytes that end one or more lines.
RecvChunk(g) ==
  /\ rpc[g] = "recv" /\ open[g]
  /\ \E n \in fetched[g] + 1 .. Len(replies[g]) :
       fetched' = [fetched EXCEPT ![g] = n]
  /\ RGoto(g, "route")
  /\ UNCHANGED <<clientVars, threadVars, routed, wireVars, historyVars>>

\* recv raises socket.timeout: nothing came for RECEIVER_POLL_SECONDS.
RecvTimesOut(g) ==
  /\ rpc[g] = "recv" /\ open[g] /\ ~peerClosed[g] /\ ~Unread(g)
  /\ RGoto(g, "check")
  /\ UNCHANGED <<clientVars, threadVars, fetched, routed, wireVars,
                 historyVars>>

\* recv raises OSError: the socket was closed here, or reset by the device.
\* It is an error only to a receiver that was not told to stop.
RecvFails(g) ==
  /\ rpc[g] = "recv" /\ (~open[g] \/ peerClosed[g])
  /\ RGoto(g, IF stop[g] THEN "close" ELSE "lost")
  /\ UNCHANGED <<clientVars, threadVars, fetched, routed, wireVars,
                 historyVars>>

\* Mutant: an empty chunk is taken for a timeout.
EofIgnored(g) ==
  /\ rpc[g] = "recv" /\ (~open[g] \/ (peerClosed[g] /\ ~Unread(g)))
  /\ RGoto(g, "check")
  /\ UNCHANGED <<clientVars, threadVars, fetched, routed, wireVars,
                 historyVars>>

\* recv returns no bytes: the device closed, or the socket was shut down here.
RecvEof(g) ==
  /\ rpc[g] = "recv" /\ (~open[g] \/ (peerClosed[g] /\ ~Unread(g)))
  /\ RGoto(g, "lost")
  /\ UNCHANGED <<clientVars, threadVars, fetched, routed, wireVars,
                 historyVars>>

\* _route_received_line, for one buffered line.  An ARM line completes the
\* pending command; an AGV line, or an ACK nobody waits for, is only emitted.
RouteReceivedLine(g) ==
  /\ rpc[g] = "route"
  /\ LET line == replies[g][routed[g] + 1]
     IN  IF line # Telemetry /\ IsCurrent(g) /\ pending # None
           THEN CompletePending("answered", line)
           ELSE UNCHANGED <<pending, cell, answer>>
  /\ routed' = [routed EXCEPT ![g] = @ + 1]
  /\ RGoto(g, IF routed[g] + 1 = fetched[g] THEN "check" ELSE "route")
  /\ UNCHANGED <<socket, generation, stop, threadVars, fetched, wireVars,
                 historyVars>>

\* _receiver_connection_lost, its locked section.
ReceiverConnectionLost(g) ==
  /\ rpc[g] = "lost"
  /\ IF StillInstalled(g)
       THEN Detach("fault") /\ RGoto(g, "emit")
       ELSE RGoto(g, "close") /\ UNCHANGED <<clientVars, ended>>
  /\ UNCHANGED <<threadVars, fetched, routed, wireVars, issued,
                 notices>>

\* _receiver_connection_lost: the CONNECTION event.
EmitLost(g) ==
  /\ rpc[g] = "emit"
  /\ notices' = [notices EXCEPT ![g] = @ + 1]
  /\ RGoto(g, "close")
  /\ UNCHANGED <<clientVars, threadVars, fetched, routed, wireVars, issued,
                 ended>>

\* The finally clause closes the socket and the thread ends.
ReceiverCloses(g) ==
  /\ rpc[g] = "close"
  /\ open' = [open EXCEPT ![g] = FALSE]
  /\ RGoto(g, "done")
  /\ UNCHANGED <<clientVars, threadVars, fetched, routed, made, peerClosed,
                 sent, handled, replies, historyVars>>

-----------------------------------------------------------------------------
(* The device: it answers each arm line with one ACK, in the order of the  *)
(* lines, relays the AGV's telemetry, and may go away at any time.  What it *)
(* does with a connection this end has closed is not followed.              *)

Connected(g) == open[g] /\ ~peerClosed[g]

EspReply(g) ==
  /\ Connected(g) /\ handled[g] < Len(sent[g])
  /\ handled' = [handled EXCEPT ![g] = @ + 1]
  /\ replies' = [replies EXCEPT ![g] = Append(@, sent[g][handled[g] + 1])]
  /\ UNCHANGED <<clientVars, threadVars, receiverVars, made, open, peerClosed,
                 sent, historyVars>>

IsTelemetry(line) == line = Telemetry

EspTelemetry(g) ==
  /\ Connected(g)
  /\ Len(SelectSeq(replies[g], IsTelemetry)) < MaxTelemetry
  /\ replies' = [replies EXCEPT ![g] = Append(@, Telemetry)]
  /\ UNCHANGED <<clientVars, threadVars, receiverVars, made, open, peerClosed,
                 sent, handled, historyVars>>

EspCloses(g) ==
  /\ Connected(g)
  /\ peerClosed' = [peerClosed EXCEPT ![g] = TRUE]
  /\ UNCHANGED <<clientVars, threadVars, receiverVars, made, open, sent,
                 handled, replies, historyVars>>

-----------------------------------------------------------------------------
\* What a client thread does once a request has started.
ClientStep(c) ==
  \/ pc[c] # "idle" /\ DisconnectCurrent(c)
  \/ DisconnectGeneration(c) \/ CloseSocket(c)
  \/ NotifyLost(c) \/ InstallConnection(c)
  \/ SendAll(c) \/ SendAllFails(c) \/ WaitReturns(c) \/ WaitTimesOut(c)
  \/ ClaimTimeout(c) \/ Leave(c)

ClientRequest(c) ==
  \/ CreateConnection(c)
  \/ pc[c] = "idle" /\ DisconnectCurrent(c)
  \/ BeginArmCommand(c)

ReceiverStep(g) ==
  \/ CheckStop(g) \/ RecvChunk(g) \/ RecvTimesOut(g) \/ RecvFails(g)
  \/ RecvEof(g) \/ RouteReceivedLine(g) \/ ReceiverConnectionLost(g)
  \/ EmitLost(g) \/ ReceiverCloses(g)

Device(g) ==
  EspReply(g) \/ EspTelemetry(g) \/ EspCloses(g)

Next ==
  \/ \E c \in Clients : ClientStep(c) \/ ClientRequest(c)
  \/ \E g \in Gens : ReceiverStep(g) \/ Device(g)

Spec == Init /\ [][Next]_vars

\* Threads of a running process get to run, and both waits of a thread end
\* by their timeout.  Nothing makes a user press a button or the device answer.
Fairness ==
  /\ \A c \in Clients : WF_vars(ClientStep(c))
  /\ \A g \in Gens : WF_vars(ReceiverStep(g))

FairSpec == Spec /\ Fairness

-----------------------------------------------------------------------------
CellStates == {"new", "waiting", "answered", "lost", "timeout"}
Causes == {"none", "user", "fault"}
Labels == {"idle", "disconnect", "reset", "close", "notify", "install", "send",
           "wait", "expire", "return", "raise"}
ReceiverLabels ==
  {"none", "check", "recv", "route", "lost", "emit", "close", "done"}

ObjectTypes ==
  /\ socket \in 0..MaxGen /\ generation \in 0..MaxGen
  /\ pending \in 0..MaxCommands
  /\ stop \in [Gens -> BOOLEAN]
  /\ cell \in [Cmds -> CellStates]
  /\ answer \in [Cmds -> 0..MaxCommands]
  /\ issued \in 0..MaxCommands
  /\ ended \in [Gens -> Causes]
  /\ notices \in [Gens -> Nat]

ThreadTypes ==
  /\ commandLock \in Clients \cup {NoClient}
  /\ pc \in [Clients -> Labels]
  /\ ret \in [Clients -> {"return", "install", "raise"}]
  /\ myGen \in [Clients -> 0..MaxGen]
  /\ myCmd \in [Clients -> 0..MaxCommands]
  /\ cand \in [Clients -> 0..MaxGen]

WireTypes ==
  /\ made \in 0..MaxGen
  /\ open \in [Gens -> BOOLEAN] /\ peerClosed \in [Gens -> BOOLEAN]
  /\ sent \in [Gens -> Seq(0..MaxCommands)]
  /\ replies \in [Gens -> Seq(0..MaxCommands)]
  /\ handled \in [Gens -> Nat]
  /\ rpc \in [Gens -> ReceiverLabels]
  /\ fetched \in [Gens -> Nat] /\ routed \in [Gens -> Nat]

CursorsInOrder ==
  \A g \in Gens : /\ handled[g] <= Len(sent[g])
                  /\ routed[g] <= fetched[g]
                  /\ fetched[g] <= Len(replies[g])
                  /\ rpc[g] = "route" => routed[g] < fetched[g]

\* Every variable has its type, and the cursors into a connection's lines are
\* in order: a line is routed after it was received whole, a command answered
\* after it was sent.
TypeOK == ObjectTypes /\ ThreadTypes /\ WireTypes /\ CursorsInOrder

\* The result a sender is given is the answer of the device to that very
\* command, never the late answer to an earlier one.  (ACKs carry no
\* identifier; the reset after a timeout is what keeps them apart, as the
\* comment in send_arm_command says.)
AckSound ==
  \A k \in Cmds : cell[k] = "answered" => answer[k] = k

\* On one connection a command follows only a command that was answered:
\* after a timeout, an error or a loss the connection is never written again.
StopAndWait ==
  \A g \in Gens : \A i \in 1..Len(sent[g]) - 1 :
    cell[sent[g][i]] = "answered"

\* A command is completed once: whichever of its ACK, its timeout and the end
\* of its connection comes first stands, and the sender returns that one (the
\* comment in send_arm_command: "use that result rather than discarding a
\* valid ACK").
CompletedOnce ==
  [][\A k \in Cmds : cell[k] \in {"answered", "lost", "timeout"}
       => cell'[k] = cell[k] /\ answer'[k] = answer[k]]_vars

\* A connection whose receiver still reads it is the one the object holds:
\* "Own one ESP32 socket and route every received line in one thread."
OwnsOneSocket ==
  \A g \in Gens :
    rpc[g] \in {"check", "recv", "route"} /\ open[g] /\ ~stop[g] => socket = g

\* A command still waiting has a sender inside the exchange that will time it
\* out or return it; a command nobody owns would block every later one, since
\* _pending is cleared by its owner, its ACK or its connection's end only.
NoStrandedCommand ==
  \A k \in Cmds :
    cell[k] = "waiting" => \E c \in Clients : commandLock = c /\ myCmd[c] = k

\* The GUI sessions hear of the loss of a connection at most once, though the
\* receiver and a failing sender may both see it, and never of a connection
\* that a user took down.
LossReportedOnce ==
  \A g \in Gens : notices[g] > 0 => notices[g] = 1 /\ ended[g] = "fault"

\* The sender gives _command_lock back, whatever the device does.
LockReleased == \A c \in Clients : commandLock = c ~> commandLock # c

\* A receiver whose connection is no longer the installed one ends.
SupersededReceiverEnds ==
  \A g \in Gens : (rpc[g] # "none" /\ socket # g) ~> rpc[g] = "done"

\* A connection the device has closed does not stay installed.
ClosedConnectionNoticed ==
  \A g \in Gens : (socket = g /\ peerClosed[g]) ~> socket # g

\* A connection that ended by a fault is reported to the GUI sessions.
FaultReported == \A g \in Gens : ended[g] = "fault" ~> notices[g] = 1

-----------------------------------------------------------------------------
(* The refinement of ArmLink. *)

CommandStatus ==
  [k \in Cmds |-> IF cell[k] \in {"lost", "timeout"} THEN "failed" ELSE cell[k]]

Link == INSTANCE ArmLink WITH
  Commands <- Cmds, Links <- Gens,
  status <- CommandStatus, wire <- sent

\* Whatever sessions, receivers, timeouts and losses do, the arm commands go as
\* a link that is never ambiguous lets them go: each at most once, behind
\* answered ones only, successful only if the device handled it.
ImplementsLink == Link!Spec
=============================================================================
