--------------------------- MODULE BackendServer ---------------------------
(***************************************************************************)
(* The backend process (backend/robot_backend.py) around the two objects   *)
(* that Esp32Client and Missions model: it opens the database and brings   *)
(* its schema up to date, accepts GUI sessions, one thread each, answers   *)
(* their requests, broadcasts the loss of the ESP32, and shuts down while  *)
(* sessions, accept loop and broadcasts go on.  A crash is possible at any *)
(* time.  Of a status message the model keeps how many losses of the ESP32 *)
(* there had been when it was built.                                       *)
(***************************************************************************)
EXTENDS Integers, Sequences, FiniteSets

CONSTANTS
  Sessions,     \* client sockets, each used for one connection
  Batches,      \* the sequences of request kinds a session may find in one recv
  MaxRecvs,     \* bound: batches of all sessions together
  MaxLosses     \* bound: losses of the ESP32 connection, of one process

Kinds == {"connect", "disconnect", "arm", "other"}       \* of requests

ASSUME ServerBounds ==
  MaxRecvs \in Nat /\ MaxLosses \in Nat /\ Batches \subseteq Seq(Kinds)

Losses == 1..MaxLosses
Rpm == {"left_rpm", "right_rpm"}
Duty == {"motor_left", "motor_right"}
Statements == [op : {"add", "drop"}, column : Rpm \cup Duty]
Broadcasts == [stage : {"none", "build", "snapshot", "send"}, msg : 0..MaxLosses,
               to : SUBSET Sessions]
NoCast == [stage |-> "none", msg |-> 0, to |-> {}]

VARIABLES
  columns, todo,      \* rpm and duty columns of agv_log; ALTER statements left
  up,                 \* the process: opening, migrating, serving
  stop, listening, sd,    \* _stop_event, the listener, where shutdown() is
  acceptor,           \* the accept loop: check, accept, register, ended
  at, sockets, shut,  \* session threads; _client_sockets; sockets closed under them
  buf, held,          \* lines not handled; losses when the status to be sent was built
  recvs,              \* batches received so far
  esp, losses,        \* is the ESP32 connected; how often it was lost
  cast, lossOf,       \* broadcasts, one per loss; the loss a session's thread reports
  told, missed,       \* history: the newest loss in a status that each session was sent, and
                      \* in one that was to be sent to it when the send failed
  busy, reconnected   \* history: sessions that were handling lines when shutdown()
                      \* disconnected the ESP32, and those that connected it since

diskVars == <<columns, todo, up>>
lifeVars == <<stop, listening, sd, busy, reconnected>>
sessionVars == <<at, sockets, shut, buf, held, recvs>>
espVars == <<esp, losses, cast, lossOf>>
sentVars == <<told, missed>>
vars == <<diskVars, lifeVars, acceptor, sessionVars, espVars, sentVars>>

\* A database may be new, of the version with duties, of one with both, or current.
Init ==
  /\ columns \in {{}, Duty, Duty \cup Rpm, Rpm} /\ todo = <<>>
  /\ up = "opening"
  /\ stop = FALSE /\ listening = FALSE /\ sd = "no" /\ acceptor = "check"
  /\ busy = {} /\ reconnected = {}
  /\ sockets = {} /\ shut = {} /\ buf = [c \in Sessions |-> <<>>]
  /\ held = [c \in Sessions |-> 0]
  /\ esp = FALSE /\ cast = [k \in Losses |-> NoCast] /\ lossOf = [c \in Sessions |-> 0]
  /\ at = [c \in Sessions |-> "out"]
  /\ recvs = 0 /\ losses = 0
  /\ told = [c \in Sessions |-> 0] /\ missed = [c \in Sessions |-> 0]

-----------------------------------------------------------------------------
(* Start: DatabaseManager.__init__ *)

Statement(op, column) == [op |-> op, column |-> column]

Added(column, present) == IF column \in present THEN <<>> ELSE <<Statement("add", column)>>
Dropped(column, present) == IF column \in present THEN <<Statement("drop", column)>> ELSE <<>>

\* Mutant: the first column stands for all of them.
PlanIfOld(present) ==
  IF "left_rpm" \in present THEN <<>>
  ELSE Added("left_rpm", present) \o Added("right_rpm", present)
       \o Dropped("motor_left", present) \o Dropped("motor_right", present)

\* The ALTER statements that _migrate_agv_log_to_rpm_only will issue.
Plan(present) ==
  Added("left_rpm", present) \o Added("right_rpm", present)
    \o Dropped("motor_left", present) \o Dropped("motor_right", present)

\* CREATE TABLE IF NOT EXISTS, then PRAGMA table_info.
OpenDatabase ==
  /\ up = "opening" /\ up' = "migrating"
  /\ columns' = IF columns = {} THEN Rpm ELSE columns
  /\ todo' = Plan(columns')
  /\ UNCHANGED <<lifeVars, acceptor, sessionVars, espVars, sentVars>>

\* One ALTER TABLE, which SQLite commits by itself.
Alter ==
  /\ up = "migrating" /\ todo # <<>>
  /\ todo' = Tail(todo)
  /\ columns' = IF Head(todo).op = "add" THEN columns \cup {Head(todo).column}
                                         ELSE columns \ {Head(todo).column}
  /\ UNCHANGED <<up, lifeVars, acceptor, sessionVars, espVars, sentVars>>

\* bind and listen
Serve ==
  /\ up = "migrating" /\ todo = <<>>
  /\ up' = "serving" /\ listening' = TRUE
  /\ UNCHANGED <<columns, todo, stop, sd, busy, reconnected, acceptor, sessionVars, espVars,
                 sentVars>>

\* The process dies, or ends after shutdown(), and is started again: of the variables only
\* the columns survive.  Clients connect again, and their lines are counted again.
Crash ==
  /\ up' = "opening" /\ todo' = <<>> /\ UNCHANGED columns
  /\ stop' = FALSE /\ listening' = FALSE /\ sd' = "no" /\ acceptor' = "check"
  /\ busy' = {} /\ reconnected' = {}
  /\ sockets' = {} /\ shut' = {} /\ buf' = [c \in Sessions |-> <<>>]
  /\ held' = [c \in Sessions |-> 0]
  /\ esp' = FALSE /\ cast' = [k \in Losses |-> NoCast] /\ lossOf' = [c \in Sessions |-> 0]
  /\ at' = [c \in Sessions |-> "out"]
  /\ recvs' = 0 /\ losses' = 0
  /\ told' = [c \in Sessions |-> 0] /\ missed' = [c \in Sessions |-> 0]

-----------------------------------------------------------------------------
(* Accept loop *)

Go(c, place) == at' = [at EXCEPT ![c] = place]

CheckAccept ==
  /\ up = "serving" /\ acceptor = "check"
  /\ acceptor' = IF stop THEN "ended" ELSE "accept"
  /\ UNCHANGED <<diskVars, lifeVars, sessionVars, espVars, sentVars>>

Accept(c) ==
  /\ acceptor = "accept" /\ listening /\ at[c] = "out"
  /\ acceptor' = "register" /\ Go(c, "accepted")
  /\ UNCHANGED <<diskVars, lifeVars, sockets, shut, buf, held, recvs, espVars, sentVars>>

\* accept() times out, or its listener was closed.
AcceptReturns ==
  /\ acceptor = "accept" /\ acceptor' = "check"
  /\ UNCHANGED <<diskVars, lifeVars, sessionVars, espVars, sentVars>>

Register(c) ==
  /\ at[c] = "accepted" /\ acceptor' = "check" /\ Go(c, "greet")
  /\ sockets' = sockets \cup {c}
  /\ UNCHANGED <<diskVars, lifeVars, shut, buf, held, recvs, espVars, sentVars>>

-----------------------------------------------------------------------------
(* Session thread *)

\* _esp_status_message, before it is sent: the greeting, or the answer to esp_connect
\* and esp_disconnect.
BuildStatus(c) ==
  /\ at[c] \in {"greet", "answer"}
  /\ held' = [held EXCEPT ![c] = losses]
  /\ Go(c, IF at[c] = "greet" THEN "greeting" ELSE "answering")
  /\ UNCHANGED <<diskVars, lifeVars, acceptor, sockets, shut, buf, recvs, espVars, sentVars>>

Newer(of, c, msg) == [of EXCEPT ![c] = IF msg > @ THEN msg ELSE @]

Sent(c, msg) ==
  /\ at[c] # "closed" /\ c \notin shut
  /\ told' = Newer(told, c, msg) /\ UNCHANGED missed

\* sendall raises an OSError: the socket is closed, or its buffer had no room for 0.5 s
\* and a part of the frame may have gone out.
SendFails(c, msg) == missed' = Newer(missed, c, msg) /\ UNCHANGED told

\* _send ignores the error.
Send(c, msg) == Sent(c, msg) \/ SendFails(c, msg)

\* The backend_status sent before the greeting's status may fail too, and nothing heeds it.
SendStatus(c) ==
  /\ at[c] \in {"greeting", "answering"}
  /\ Send(c, held[c]) /\ held' = [held EXCEPT ![c] = 0]
  /\ Go(c, IF at[c] = "greeting" THEN "check" ELSE "lines")
  /\ UNCHANGED <<diskVars, lifeVars, acceptor, sockets, shut, buf, recvs, espVars>>

\* The finally of _serve_client.
End(c) ==
  /\ Go(c, "closed") /\ sockets' = sockets \ {c}
  /\ UNCHANGED <<diskVars, lifeVars, acceptor, shut, buf, held, recvs, espVars, sentVars>>

\* Mutant: the loop does not look at _stop_event.
CheckNothing(c) ==
  /\ at[c] = "check" /\ Go(c, "recv")
  /\ UNCHANGED <<diskVars, lifeVars, acceptor, sockets, shut, buf, held, recvs,
                 espVars, sentVars>>

CheckStop(c) ==
  /\ at[c] = "check"
  /\ \/ stop /\ End(c)
     \/ /\ ~stop /\ Go(c, "recv")
        /\ UNCHANGED <<diskVars, lifeVars, acceptor, sockets, shut, buf, held, recvs,
                       espVars, sentVars>>

RecvTimesOut(c) ==
  /\ at[c] = "recv" /\ Go(c, "check")
  /\ UNCHANGED <<diskVars, lifeVars, acceptor, sockets, shut, buf, held, recvs,
                 espVars, sentVars>>

\* The client left, shutdown() closed the socket, or the client sent more than 1 MiB
\* without an end of line and was told so.
RecvEnds(c) == at[c] = "recv" /\ End(c)

Recv(c, batch) ==
  /\ at[c] = "recv" /\ c \notin shut /\ recvs < MaxRecvs
  /\ recvs' = recvs + 1 /\ buf' = [buf EXCEPT ![c] = batch] /\ Go(c, "lines")
  /\ UNCHANGED <<diskVars, lifeVars, acceptor, sockets, shut, held, espVars, sentVars>>

Next1(c) == buf[c] # <<>> /\ at[c] = "lines" /\ buf' = [buf EXCEPT ![c] = Tail(@)]

LinesDone(c) ==
  /\ at[c] = "lines" /\ buf[c] = <<>> /\ Go(c, "check")
  /\ UNCHANGED <<diskVars, lifeVars, acceptor, sockets, shut, buf, held, recvs,
                 espVars, sentVars>>

\* shutdown() has disconnected the ESP32.
Disconnected == sd \in {"join", "done"}

\* esp_connect: create_connection runs outside every lock and may fail; then the
\* connection before it is closed, then the new one is installed.
BeginConnect(c) ==
  /\ Next1(c) /\ Head(buf[c]) = "connect" /\ Go(c, "dialing")
  /\ UNCHANGED <<diskVars, lifeVars, acceptor, sockets, shut, held, recvs, espVars, sentVars>>

EndConnect(c) ==
  /\ \/ at[c] = "dialing" /\ Go(c, "answer") /\ UNCHANGED <<esp, reconnected>>
     \/ at[c] = "dialing" /\ Go(c, "install") /\ esp' = FALSE /\ UNCHANGED reconnected
     \/ /\ at[c] = "install" /\ Go(c, "answer") /\ esp' = TRUE
        /\ reconnected' = IF Disconnected THEN reconnected \cup {c} ELSE reconnected
  /\ UNCHANGED <<diskVars, stop, listening, sd, busy, acceptor, sockets, shut, buf, held,
                 recvs, losses, cast, lossOf, sentVars>>

HandleDisconnect(c) ==
  /\ Next1(c) /\ Head(buf[c]) = "disconnect" /\ Go(c, "answer")
  /\ esp' = FALSE
  /\ UNCHANGED <<diskVars, lifeVars, acceptor, sockets, shut, held, recvs, losses,
                 cast, lossOf, sentVars>>

CastOver(k) == cast[k].stage = "send" /\ cast[k].to = {}

Lose ==
  /\ esp /\ losses < MaxLosses
  /\ esp' = FALSE /\ losses' = losses + 1
  /\ cast' = [cast EXCEPT ![losses + 1].stage = "build"]

\* arm_command: answered, or the ESP32 is lost and this thread reports it.
HandleArm(c) ==
  /\ Next1(c) /\ Head(buf[c]) = "arm"
  /\ \/ UNCHANGED <<at, espVars>>
     \/ Lose /\ lossOf' = [lossOf EXCEPT ![c] = losses + 1] /\ Go(c, "casting")
  /\ UNCHANGED <<diskVars, lifeVars, acceptor, sockets, shut, held, recvs, sentVars>>

ArmReturns(c) ==
  /\ at[c] = "casting" /\ CastOver(lossOf[c]) /\ Go(c, "lines")
  /\ lossOf' = [lossOf EXCEPT ![c] = 0]
  /\ UNCHANGED <<diskVars, lifeVars, acceptor, sockets, shut, buf, held, recvs, esp, losses,
                 cast, sentVars>>

\* Missions, unsupported or malformed requests: answered, by an error if they raise; an
\* answer that cannot be sent is dropped.
HandleOther(c) ==
  /\ Next1(c) /\ Head(buf[c]) = "other"
  /\ UNCHANGED <<diskVars, lifeVars, acceptor, at, sockets, shut, held, recvs,
                 espVars, sentVars>>

-----------------------------------------------------------------------------
(* The loss of the ESP32: CONNECTION events *)

ReceiverLoses ==
  /\ Lose
  /\ UNCHANGED <<diskVars, lifeVars, acceptor, sessionVars, lossOf, sentVars>>

\* The message is built, then the sockets are copied under _clients_lock, then each is sent it.
BuildCast(k) ==
  /\ cast[k].stage = "build"
  /\ cast' = [cast EXCEPT ![k].stage = "snapshot", ![k].msg = losses]
  /\ UNCHANGED <<diskVars, lifeVars, acceptor, sessionVars, esp, losses, lossOf, sentVars>>

SnapshotSockets(k) ==
  /\ cast[k].stage = "snapshot"
  /\ cast' = [cast EXCEPT ![k].stage = "send", ![k].to = sockets]
  /\ UNCHANGED <<diskVars, lifeVars, acceptor, sessionVars, esp, losses, lossOf, sentVars>>

\* Mutant: a send that fails ends the broadcast.
SendCastOrFail(k, c) ==
  /\ cast[k].stage = "send" /\ c \in cast[k].to
  /\ \/ Sent(c, cast[k].msg) /\ cast' = [cast EXCEPT ![k].to = @ \ {c}]
     \/ SendFails(c, cast[k].msg) /\ cast' = [cast EXCEPT ![k].to = {}]
  /\ UNCHANGED <<diskVars, lifeVars, acceptor, sessionVars, esp, losses, lossOf>>

\* The next socket's turn, whether or not the send before it failed.
SendCast(k, c) ==
  /\ cast[k].stage = "send" /\ c \in cast[k].to
  /\ Send(c, cast[k].msg) /\ cast' = [cast EXCEPT ![k].to = @ \ {c}]
  /\ UNCHANGED <<diskVars, lifeVars, acceptor, sessionVars, esp, losses, lossOf>>

-----------------------------------------------------------------------------
(* shutdown *)

SetStop ==
  /\ up = "serving" /\ sd = "no"
  /\ sd' = "sockets" /\ stop' = TRUE /\ listening' = FALSE
  /\ UNCHANGED <<diskVars, busy, reconnected, acceptor, sessionVars, espVars, sentVars>>

\* Mutant: the sessions' sockets are left to end by themselves.
ShutListenerOnly ==
  /\ sd = "sockets" /\ sd' = "esp"
  /\ UNCHANGED <<diskVars, stop, listening, busy, reconnected, acceptor, sessionVars, espVars,
                 sentVars>>

ShutSockets ==
  /\ sd = "sockets" /\ sd' = "esp"
  /\ shut' = shut \cup sockets
  /\ UNCHANGED <<diskVars, stop, listening, busy, reconnected, acceptor, at, sockets, buf,
                 held, recvs, espVars, sentVars>>

Handling(c) == at[c] \in {"lines", "dialing", "install", "answer", "answering", "casting"}

DisconnectEsp ==
  /\ sd = "esp" /\ sd' = "join"
  /\ esp' = FALSE /\ busy' = {c \in Sessions : Handling(c)}
  /\ UNCHANGED <<diskVars, stop, listening, reconnected, acceptor, sessionVars, losses, cast,
                 lossOf, sentVars>>

\* The joins are bounded by a second each; then the database is closed.
JoinAndClose ==
  /\ sd = "join" /\ sd' = "done"
  /\ UNCHANGED <<diskVars, stop, listening, busy, reconnected, acceptor, sessionVars, espVars,
                 sentVars>>

-----------------------------------------------------------------------------
Startup == OpenDatabase \/ Alter \/ Serve
AcceptLoop == CheckAccept \/ AcceptReturns \/ \E c \in Sessions : Register(c)
Session(c) ==
  \/ BuildStatus(c) \/ SendStatus(c) \/ CheckStop(c) \/ RecvTimesOut(c) \/ RecvEnds(c)
  \/ LinesDone(c) \/ BeginConnect(c) \/ EndConnect(c) \/ HandleDisconnect(c)
  \/ HandleArm(c) \/ ArmReturns(c) \/ HandleOther(c)
Cast(k) ==
  BuildCast(k) \/ SnapshotSockets(k) \/ \E c \in Sessions : SendCast(k, c)
Shutdown == ShutSockets \/ DisconnectEsp \/ JoinAndClose

Next ==
  \/ Startup \/ Crash \/ AcceptLoop \/ ReceiverLoses \/ SetStop \/ Shutdown
  \/ \E c \in Sessions : Accept(c) \/ Session(c) 
                         \/ \E batch \in Batches : Recv(c, batch)
  \/ \E k \in Losses : Cast(k)

Spec == Init /\ [][Next]_vars

\* Every thread of the process runs; clients, the ESP32 and the operator owe nothing.
FairSpec ==
  /\ Spec
  /\ WF_vars(AcceptLoop) /\ WF_vars(Shutdown)
  /\ \A c \in Sessions : WF_vars(Session(c))
  /\ \A k \in Losses : WF_vars(Cast(k))

-----------------------------------------------------------------------------
(* Properties *)

\* Every variable has its type.
ServerTypeOK ==
  /\ columns \subseteq Rpm \cup Duty
  /\ todo \in Seq(Statements)
  /\ up \in {"opening", "migrating", "serving"}
  /\ stop \in BOOLEAN /\ listening \in BOOLEAN
  /\ sd \in {"no", "sockets", "esp", "join", "done"}
  /\ acceptor \in {"check", "accept", "register", "ended"}
  /\ at \in [Sessions -> {"out", "accepted", "greet", "greeting", "check", "recv", "lines",
                          "dialing", "install", "answer", "answering", "casting",
                          "closed"}]
  /\ sockets \subseteq Sessions /\ shut \subseteq Sessions
  /\ busy \subseteq Sessions /\ reconnected \subseteq Sessions
  /\ held \in [Sessions -> 0..MaxLosses]
  /\ buf \in [Sessions -> Seq(Kinds)]
  /\ recvs \in 0..MaxRecvs /\ esp \in BOOLEAN /\ losses \in 0..MaxLosses
  /\ cast \in [Losses -> Broadcasts]
  /\ lossOf \in [Sessions -> 0..MaxLosses]
  /\ told \in [Sessions -> 0..MaxLosses] /\ missed \in [Sessions -> 0..MaxLosses]

\* Whatever version the database was, and wherever an earlier start was cut off,
\* the server never serves on a table that lacks a column or still has a duty.
ServesOnFullSchema == up = "serving" => columns = Rpm

\* Once a loss has been broadcast, every session past its greeting, one that connected while
\* the broadcast was under way among them, was sent a status built after the loss, or the
\* sending of it to this very session failed: no session is passed over, and none
\* loses the news by the failure of another one's send.
LossReachesEverySession ==
  (\A k \in Losses : cast[k].stage = "none" \/ CastOver(k)) =>
    \A c \in Sessions :
      at[c] \notin {"out", "accepted", "greet", "greeting", "closed"} =>
        told[c] = losses \/ missed[c] = losses

\* Whoever connects the ESP32 after shutdown() disconnected it was handling lines at that
\* time: no session still receives a request that could.
ReconnectedOnlyByBusy == reconnected \subseteq busy

\* Once the server stops every session ends, also one accepted while it was stopping,
\* which shutdown() does not know of.
SessionsEnd == stop ~> (~stop \/ \A c \in Sessions : at[c] \in {"out", "closed"})
=============================================================================
