# RCcar: a TLA+ model of the robot-arm teaching system

The program drives a robot arm on a line-following car.  A Qt GUI talks NDJSON
over a local TCP socket to a Python backend; the backend owns the one TCP
connection to an ESP32 that moves the arm's four servos, and stores missions,
arm commands and telemetry in SQLite; an Arduino Uno drives the car and sends
its status over a UART to the ESP32, which relays it on the same TCP connection.

```
 GUI session --NDJSON--> RobotBackendServer --> MissionManager --> SQLite
 (1..n)      <--------   (a thread each)   \
                                            Esp32Client ==TCP==> ESP32 ==servos==> arm
                                            (receiver thread)      ^
                                                                   | UART2, relayed
                                                     Uno (AGV): wheels, line, range
```

## 1. Inventory

| Part | State it keeps | Operations | Meets others through | What is hard | What makes it correct |
|---|---|---|---|---|---|
| **ESP32 client** `backend/esp32_client.py` | `_socket`, `_generation`, `_pending`, stop event and thread of the receiver; three locks | `connect`, `disconnect`, `send_arm_command`, `_receiver_loop` | called by every session's thread; events to the server by callback | ACKs carry no identifier; timeout races ACK; two threads see one loss; connect is two critical sections | an ACK completes only the command it answers; one command outstanding on a connection; one socket owned; a loss reported once; no lock kept for ever |
| **Missions** `backend/mission_manager.py`, `database/database.py` | `_current_mission_id`; tables `mission`, `arm_log`, `agv_log` | start, end, log arm, log AGV | called by sessions and by the receiver thread | statement fails between two assignments; crash; log races end | rows and memory agree; logs are attributed to the active mission; ended missions are immutable |
| **Migration** `database/database.py` | the columns of `agv_log` | CREATE, then up to four ALTER | at the start of the backend | each ALTER commits by itself; a crash between two | the server never serves on a half-migrated table |
| **Backend server** `backend/robot_backend.py` | set of client sockets, three locks | accept, dispatch a request, handle ESP32 event, broadcast, shutdown | NDJSON frames | status read in two steps; partial `sendall`; accept, broadcast and shutdown at once | the news of a loss is sent to every session; every session ends; nothing reconnects behind a shutdown |
| **Parser** `backend/parser.py` | none | validate angles, parse a line | pure | lines made of two | an ACK or AGV line is recognised exactly |
| **GUI transport** `gui/backend_client.py` | outbox, connected flag, socket | send, run, stop | Qt signals | flag is tested, then the queue is filled, on another thread | nothing queued on one connection is sent on the next, but one |
| **GUI action** `gui/robot_gui.py` | action step, pending request, timer, step list | execute, stop, handle message | messages and signals in order | results of a stopped action; errors without an identifier; edits while it runs | next step only after the ACK of this one; a stopped action sends nothing |
| **Arm firmware** `firmware/robot_arm_esp32/robot_arm_esp32.ino` | command buffer, length, overflow flag | `loop`: accept, consume, relay, stop | one TCP client at a time, UART2 | overlong lines; a client that leaves in mid-line; relay and ACK on one stream | one ACK per line, in order; servos follow whole commands; framing |
| **AGV policy** `ino/ino.ino`, `ObstacleSensor.h`, `Commands.h` | drive mode, trace state, obstacle flag, range time | serial command, fast/control/fine updates | wheels; UART out | modes share targets; flag expires; commands framed by silence | a stop stops; an obstacle stops tracing; the car turns to where the line was last seen |
| **AGV wheel** `ino/modules/Wheel.h` | target, direction, duty, startup pulse, stop timer | set target, stop, update RPM, follow, update motor, encoder interrupt | interrupt; policy | stop during the pulse, restart before standstill | pulse only from standstill; no power after stop |
| **Fake device** `tools/fake_esp32_server.py` | active client, scripts, buffer, send lock | serve, answer by script, send unsolicited, stop | plays the ESP32 in the repository's tests | two threads write one stream; a client leaves under a sender | what the tests rely on: whole frames, an answer per command, nothing left over |
| Line sensors, `Servo1.h`, `Arms.h`, displays; `softAP_tcp.cpp`, `robotArm_tcp.py`, `pc/`, `firmware/archive/` | – | – | – | – | not modelled, see section 6 |

The hazards of each part, with their lines, are in `PROJECT.json`.

## 2. What is modelled

| Module | Role |
|---|---|
| `Esp32Client` | the client object, its sessions, its receivers, the wire and the device; implements `ArmLink` |
| `ArmLink` | abstract specification: what those who send arm commands may rely on |
| `MissionLedger` | abstract specification: what missions and logs promise |
| `Missions` | the mission manager, its rows and the handlers that use it; implements `MissionLedger` |
| `BackendServer` | the backend process: migration, accept loop, sessions, broadcasts, shutdown, crash |
| `GuiSession` | one GUI: teaching action, network thread, and the backend's side of its connection |
| `ArmFirmware` | the firmware's loop, its client and the Uno's bytes |
| `Wheel`, `AgvDrive` | one wheel as a record with its operations; the Uno's loop with its wheels |
| `LineProtocol` | the backend's parser of device lines, used by `FakeEsp32` |
| `FakeEsp32` | the test double of the device |
| `...Inv` | the inductive invariant of a component |
| `..._proofs` | proofs (section 5) |
| `MC...` | instances for TLC |

Definitions with a comment that begins "Mutant:" are plausible bugs; no
specification uses them.  `PROJECT.json` says which property each of them breaks.

How the modules meet.  `BackendServer` is the process around the two objects that
`Esp32Client` and `Missions` model in detail: of a request it keeps what the
life of sessions and status messages depends on.  `GuiSession` has of the backend
what one session sees: its answers (`Answers`, per kind of request), and
frames from other threads.  `FakeEsp32` produces lines that
`LineProtocol` parses.

### Esp32Client

One action is one critical section of `_state_lock`, or one blocking call
outside it; nothing else is atomic.  A session's thread is at `pc[c]`:

| Code | Actions |
|---|---|
| `connect` 100-132 | `CreateConnection`, then the disconnect steps with `ret = "install"`, then `InstallConnection` |
| `disconnect` / `_disconnect_current` 134-135, 310-313 | `DisconnectCurrent` (reads the generation and drops the lock) |
| `_disconnect_generation` 315-359 | `DisconnectGeneration` (locked), `CloseSocket`, `NotifyLost` |
| `send_arm_command` 137-187 | `BeginArmCommand`, `SendAll` or `SendAllFails`, `WaitReturns` or `WaitTimesOut`, `ClaimTimeout`, `Leave` |
| `_receiver_loop` 195-234 | `CheckStop`, `RecvChunk`, `RecvTimesOut`, `RecvFails`, `RecvEof`, `ReceiverCloses` |
| `_route_received_line` 236-279 | `RouteReceivedLine` |
| `_receiver_connection_lost` 281-308 | `ReceiverConnectionLost` (locked), `EmitLost` |
| device | `EspReply` (answers the next line, any time later), `EspTelemetry`, `EspCloses` |

`ret` says where the shared `_disconnect_generation` returns to: to the caller of
`disconnect`, into `connect`, or into the exception of `send_arm_command`.
`sent[g]` and `replies[g]` are the two directions of a connection; `handled`,
`fetched` and `routed` are how far the device, the receiver's `recv` and
`_route_received_line` have got.  An ACK line is represented by the command it
answers.  The device knows which one that is; no client action reads it to
decide anything, so the model has the code's ambiguity, and `AckSound` can say
when it does harm.

`ArmLink` knows of a status for each command (new, waiting, answered, failed), what was
put on each link, and how much of it the device handled.  Its promise to the callers of
`send_arm_command`: one command is open at a time; it leaves at most once, over a link
on which everything before it was answered; it succeeds only if the device handled it;
its result stands; and a failed one never leaves after the next was accepted.
It has no locks, generations, receivers, replies or resets: how an acknowledgement without an
identifier is kept from being ambiguous is the client's affair.  The refinement mapping is at
the end of `Esp32Client`: `"lost"` and `"timeout"` are both `"failed"`, and `sent` is `wire`.

Left out: the two re-checks of `_route_received_line` are one action (nothing is
done between them), diagnostics and oversized lines (no state), the order of
CONNECTION events of different connections, `join(timeout=1.0)`.

### Missions

Sessions run `CreateMission`/`AssignCurrent` and `EndMission`/`ClearCurrent`
(two actions each: the statement commits before the assignment, and the process
may die in between, with the manager's lock held in `lock`), and
`SendArmCommand`, `AttemptEnds`, `LogArm` or `LogArmFails`, `ReplyArmResult`.
The receiver thread runs `ReceiveAgv`, `LogAgv`.  `Restart` is a shutdown or a
crash: memory is lost, rows stay.  `ActiveMission` is a history notion: the row
that is open and was not left behind by a restart.  `Esp32Client` appears as
`_command_lock` (`CommandLockFree`) and the time between sending and result.

`MissionLedger` knows of a status for each mission (absent, active, ended,
abandoned) and a set of entries.  Its promise: one active mission at a time,
entries for the active mission only and each made once, nothing of an ended or
abandoned mission ever changes, and only a restart abandons.  The refinement
mapping is at the end of `Missions`.

### BackendServer

| Code | Actions |
|---|---|
| `DatabaseManager.__init__`, `_migrate_agv_log_to_rpm_only` | `OpenDatabase` (CREATE and the PRAGMA), `Alter` (one statement each, `todo` holds those left) |
| `serve_forever` | `Serve`, then `CheckAccept`, `Accept`, `AcceptReturns`, `Register` |
| `_serve_client` | `BuildStatus`/`SendStatus` for the greeting, `CheckStop`, `Recv`, `RecvTimesOut`, `RecvEnds`, `LinesDone`; `End` is its finally |
| `handle_request` | `BeginConnect`/`EndConnect` (dial, disconnect, install), `HandleDisconnect`, `HandleArm`, `HandleOther` |
| `_handle_esp_event`, `_broadcast` | `ReceiverLoses` or the loss inside `HandleArm`; `BuildCast`, `SnapshotSockets`, `SendCast` once for each socket |
| `shutdown` | `SetStop`, `ShutSockets`, `DisconnectEsp`, `JoinAndClose` |
| the process dies | `Crash`, any number of times: only the columns survive |

A status message is represented by the number of losses there had been when it was
built, so that `LossReachesEverySession` can say "a status built after the loss".
`Send` is `_send`: `Sent` hands the frame to an open socket; `SendFails` is an `OSError`, of a
closed socket or of a live one whose client does not read for 0.5 s, and is ignored.
`told` and `missed` are history and say, for each session, what was sent and what was not.
The property is therefore about what the backend does, not about what a client gets: each
session past its greeting was sent the news of the newest loss, or *its own* send failed; that no
session is forgotten between its registration, its greeting and a broadcast, and that
one that cannot be written takes nothing from the others, is what it says.  A live but slow
session can miss the loss, and nothing repeats it; a frame that was cut off also takes the
next frame with it (`GuiSession` has that).  What the property does not say either: a reply
built before a loss may be sent *after* the broadcast (`_esp_status_message` is
evaluated before `_send` is called), so the last message a session gets is not always the
true one; and sessions are not told when another one connects or disconnects the ESP32.
The repository promises none of this, and all of it is visible in the model's actions.

`busy` and `reconnected` are history too: the sessions that were handling lines when
`shutdown()` disconnected the ESP32, and those that connected it since.  `ReconnectedOnlyByBusy`
says that each of the latter is one of the former: the ESP32 may well be connected when the
process ends, but only by a request that was already under way, or in the same
`recv`, for no session can receive one after its socket was shut, and one that
`shutdown()` did not find among the sockets sees `_stop_event` before it receives.

### GuiSession

| Code | Actions |
|---|---|
| `execute_action`, `_send_next_action_step` | `ExecuteAction`, `TimerFires`, with `SendStep` for both |
| `_send_backend` and `send_message` | `TestConnection` and `Put`: the flag is tested, and then the outbox is filled |
| `stop_action`, `closeEvent`, edits of the list | `Halt`, `StopAction`, `CloseWindow`, `AddStep`, `RemoveStep`, `ClearSteps` |
| `_handle_backend_message` and its handlers | `HandleSignal` with `OnDisconnected`, `OnEspStatus`, `OnError`, `OnArmResult` |
| `BackendClient.run` | `Connect`, `ConnectFails`, `FlushOutbox`, `MarkDisconnected`, `DiscardPendingMessages`, `EndThread` |
| the backend's thread of this session | `HandleRequest`, `SendResponse`; other threads of it: `Broadcast` |

The socket's stream from the backend, the receive loop and Qt's queued signals keep
their order and are one queue, `inbox`.  `cut` says that `sendall` gave up in the middle of the
last frame: the next frame then ends a bad line and both are lost.  `trail` and
`edited` are history: what this run sent, which of it was acknowledged, and whether a
row already sent was removed while it ran.

### ArmFirmware

`phase` is where `loop()` is.  `ConsumeByte` and `RelayByte` are single turns of
the two inner loops, so bytes and the client's actions interleave with them.  A
command line is `LineLength[k]` copies of its symbol and a newline, and the parser
accepts any nonempty prefix of a valid command: `90,90,90,9` parses, so only the
overflow flag protects from a truncated line.  An AGV line comes in two
pieces, the second ending it.  `conn = None /\ served = opened` is the only time
at which `DiscardAgvBytes` runs.  Left out: the serial log, `\r`, the
hardware UART buffer's own overflow, `setup()`.

### Wheel and AgvDrive

`Wheel` has an operator for each method of the class: `SetTarget`, `Halted` (`stop`),
`UpdateRPM` (with `updateStopState`), `Follow`, `UpdateMotor`, on a record of its fields.
The PID and encoder arithmetic is left out: `Follow` is given any duty of a set, `UpdateRPM`
any estimate, which includes every wrong one.  What a target's *size* does is part of that
arithmetic, so the record has its sign.

In `AgvDrive`, `Receive` and `FrameEnds` are `getSerialCommand` and `doSerialCommand`: bytes
within a second of each other are one frame, so commands are joined, and `Meaning` says
what the joined text is taken for.  `Fast` and `FastWithoutRange` are `updateFast`, `Con` is
`updateCon` (mode, then the wheels' control), `Fine` is `updateFine`, `Tick` lets time pass.
The parts have their own periods, so any may be next.  `reportStatus` changes nothing and is left
out.  `near`, `seen` and `stoppedAt` are history: whether the last valid range was an obstacle, the
last sample in which a sensor saw the line, and how many commands had come when the
emergency stop was carried out.

Seen while reading, and true of the model as of the code: the timeout constant `lostTimeOut`
is never used; from LEFT the line under center and right makes STRAIGHT, from RIGHT
the mirror image makes LEFT_SOFT; a joined EMERGENCYSTOP is swallowed (hence
`StopHolds` speaks of one that was carried out); in FORCEDRUN obstacles are ignored.

### LineProtocol and FakeEsp32

A line is the sequence of its fields; a number is one of five values that stand for what
`int()` and `float()` make of a text.  `ParseLine` accepts three of the drive states that the
Uno prints, a limitation that the program's README states.

`FakeEsp32` has the server thread at the granularity of its blocking calls and tests of
`_stop_event`, and `_send_script` for it and for the senders: a frame is written in
two pieces under `_client_send_lock`, so that an unlocked writer would show.  Frames are
tens of bytes, so the buffers of the socket are taken never to fill; a send fails only on a
closed connection.  `sent` is history: the frames each client was sent and the thread that wrote
them.  `AcksAnswerCommands` counts the acknowledgements of the server thread; those that a test pushes
without a command, as the backend's tests do, are outside it.  `ScriptAcks` is how many a
script may have (the backend's tests use one).

## 3. The runs

| Run | Question | Distinct states |
|---|---|---|
| `esp32_shared` | may any interleaving of two sessions that both connect, disconnect and send credit an ACK wrongly, write a connection with an unanswered command, complete a command twice, or report a loss twice? No. (`TypeOK`, `AckSound`, `StopAndWait`, `CompletedOnce`, `LossReportedOnce`) | 2 365 450, with symmetry |
| `esp32_one_connector` | with one session using the connect button (the other commands and disconnects): one socket is owned (`OwnsOneSocket`), no command is stranded (`NoStrandedCommand`), and the client implements `ArmLink` (`ImplementsLink`) | 1 337 848 |
| `esp32_live` | does a sender give `_command_lock` back, do superseded receivers end, is a closed connection noticed and its loss reported? Yes | 142 636 |
| `esp32_two_connectors` | finding: `OwnsOneSocket` fails when two sessions connect at once | – |
| `missions` | `MissionTypeOK`, `OpenRowsExplained`, `ReportedMatchesRow`, and `ImplementsLedger`: `Missions` implements `MissionLedger` | 117 602 |
| `missions_attribution` | finding: `LoggedWhereSent` fails | – |
| `backend_server` | whatever version the database was and wherever a start was cut off, is the schema full when the server serves (`ServesOnFullSchema`)? is every greeted session sent the news of a loss, unless its own send fails (`LossReachesEverySession`)? is every session that connects the ESP32 behind a shutdown one that was handling lines at its disconnect (`ReconnectedOnlyByBusy`)? does every session end (`SessionsEnd`)? Yes | 373 965 |
| `gui` | does an action wait for exactly one thing (`WaitsForOneThing`), which is still to come (`NeverWaitsInVain`); does each step follow the ACK of the one before (`StepAfterAck`); is "complete" true (`CompleteMeansAll`); which errors stop it (`ErrorStopsOwnRun`); what outlives a connection (`AtMostOneStale`)? | 2 575 684 |
| `firmware` | does the command buffer have room (`FirmwareTypeOK`), is every line answered once, in order and as it deserves (`AnswersInOrder`), do the servos follow whole commands only (`MovesAsSent`), are all lines of the served client answered unless it closes (`LinesAnswered`)? Yes | 702 849 |
| `firmware_framing` | finding: `FramingPreserved` fails | – |
| `fake_device` | does the test double keep frames whole (`FramesWhole`), answer nothing that a connection left behind (`AcksAnswerCommands`), and end when told to (`StopEnds`)? Yes | 102 880 |
| `agv` | is a stop a stop, whatever pulse, ramp, frame or echo was under way (`NoPowerAtStop`, `StopHolds`, `StopOnlyBrakes`, `FlagCoversObstacle`); how far backwards can a wheel be driven (`HardlyBackwards`); does the line policy stay on the side where the line was last seen (`TurnsToLine`)? | 1 992 672 |

**Bounds.**  Esp32Client: two connections, two commands: an error about ACKs
needs an old command and a new one, on the same connection or on consecutive
ones, and a third can only repeat that (the theorems remove the bound for
`AckSound`, `StopAndWait` and `ImplementsLink`).  With both sessions connecting, `ImplementsLink`
and its invariant were also checked; the run that stays has one connector, for its time.  Two sessions suffice for the races of
`connect`, which are between pairs.  Missions: three missions allow an orphan, an
ended one and an active one together; two commands and one frame meet them.
BackendServer: two sessions, so that one is greeted while the other is being told; two
batches between them, each of two lines, so that a line is handled after a stop or a loss;
one loss; crashes are not bounded, as the process begins anew.  (The theorems remove every
other bound too.)
GuiSession: two steps, so that there is one after an ACK; three requests, so that
a run stopped after its first step can be followed by another; two connections; one broadcast or
broken frame; one position, so that TLC compares the number of rows sent with the list, and their order
is left to the theorem `CompleteMeansAllHolds`.
ArmFirmware: two connections in turn, two command lines between them, of three
sorts (fits the buffer, one character too long, does not parse), so
that each can follow each, on the same connection or after one that broke off; one
AGV line in two pieces.
FakeEsp32: two clients in turn, two scripts and the fallback, with one more thread that sends
telemetry and an ACK nobody asked for.
AgvDrive: one wheel, since wheels do not look at each other; all timeouts one tick, which
may pass or not between any two steps; a speed below 0, as the trace supplies those above; three
commands, two of which fit the buffer, so that they are joined and overflow; the line
under one of the three sensors or under none (with all eight samples and one command the invariants
were checked too; the theorem is about any).
`CHECK_DEADLOCK FALSE` everywhere: once the bounds are used up and users do
nothing, there is nothing left to happen.

**Fairness.**  Esp32Client: weak fairness of each session's steps *inside* a
request (never of starting one) and of each receiver: threads of a live process
run, and both blocking waits have timeouts (0.25 s in `recv`, `ack_timeout` in
`wait`).  The device owes nothing.  BackendServer: weak fairness of the accept loop,
of shutdown once begun, of each session's thread and each broadcast; no client sends, and nobody
stops the server, by obligation; `recv` and `accept` have timeouts.  FakeEsp32: the
server thread and the threads inside `_send_script`.  ArmFirmware: the loop runs, and strong
fairness of `ConsumeByte`, since `available()` may say 0 while a byte
is on its way, but not for ever.  GuiSession and AgvDrive state safety only:
whether the next step of an action comes depends on an answer that, after a broken frame,
need not come (the GUI has no timeout), and the Uno's stop is a state, not an event.

## 4. Findings

1. `esp32_two_connectors`: `connect` (line 117) disconnects and then installs in
   another critical section.  Two sessions that connect together both find
   nothing to disconnect; the later install overwrites the earlier socket, which stays
   open with a live receiver, against the class's "Own one ESP32 socket".
   The firmware serves one client until it leaves, so it may be serving the
   forgotten one.
2. `missions_attribution`: the mission of a command is looked up when its result
   is there (`robot_backend.py` 328), so one sent before a mission is stored
   in it, against the storage policy of the program's README (line 286).
3. `firmware_framing`: the relay stops when the UART is empty, not at the end of
   a line, and the next ACK is printed into it, against the comment at lines 132-133.

## 5. What is proved

With TLAPS, for all values of the constants that satisfy the named assumptions of
the modules.  Each component has an inductive invariant in its `...Inv` module, which
TLC checked on the run's instance before it was proved; the proofs have a lemma
for each action, and below it a step for each conjunct the action can disturb.

**Esp32Client** (`Esp32Client_proofs`, `Esp32ClientOwner_proofs`; `ClientsAssumption`,
`BoundsAssumption`, `NoClientAssumption`): all safety properties of its runs.
For `AckSoundHolds` and `StopAndWaitHolds`: neither `AckSound` nor `StopAndWait` is inductive: from a state in which an
unrelated ACK is on its way the next routing breaks them.  `IInv` adds, in this order:

- `LockInv`: a thread inside the exchange holds `_command_lock`; hence there is one.
- `InstalledInv`, `FreshInv`: the socket is that of the current generation, and a
  candidate that was not installed has carried nothing and belongs to one thread.
- `PendingInv`, `NewInv`: what is pending is waiting, and is the exchange's command.
- `SentInv`, `RepliesInv`: a command is sent once, on the generation it was
  accepted on, and answered at most once.
- `DeliveryInv`: the commands whose ACK the *installed* connection may still
  deliver (`Outstanding`) are `Expected`: the pending one, or one whose sender is
  about to reset that very connection.
- `HistoryInv`: everything else sent on it was answered.

The heart is `OutstandingStep` (only a send adds to `Outstanding`),
`ExpectedStays` (an outstanding command stops being pending only by its ACK,
or with a reset on its way, or with the connection gone) and `RouteExpected` (a routed ACK
of the installed connection is of an expected command, so of the pending one if
there is any).  This is the argument of the comment in `send_arm_command`: with no
identifier on the wire, the reset after a timeout is the only barrier.  That
comment is right, and the proof shows it under concurrent connects too, where
`OwnsOneSocket` fails.

`CompletedOnceHolds` follows from `IInv` (`CellStep`).  `LossReportedOnceHolds` adds `LossInv`:
who takes down the installed connection is the only one `Reporting` it, since it had no
end before.  `OwnsOneSocketHolds` and `NoStrandedCommandHolds` have a hypothesis,
`OneConnector`: at most one session connects.  `ConnectorInv` then says that a connector past its
disconnect has the newest generation, hence no socket to overwrite, and `OwnedInv`
that a pending command has its connection and its owner; both fail with two connectors, as the
first finding shows.

`ImplementsLinkHolds` is `Spec => Link!Spec`, with any number of connectors: the
invariant `LinkInv` says that an exchange is about the last command accepted
(so that a failed one cannot leave after the next), that what waits is pending (so that one is
open), and that what was answered the device has handled, which comes from `RouteExpected` and
`RepliesInv`.  That a link has only answered commands before a new one is `HistoryInv`, and that
a command is on it at most once is `SentInv`.

**Missions** (`Missions_proofs`; `MissionBounds`, `NoSessionAssumption`): `MissionTypeHolds`,
`OpenRowsExplainedHolds`, `ReportedMatchesRowHolds` from `MInv`, and
`ImplementsLedgerHolds`: `Spec => Ledger!Spec`, the refinement.  It needs `MInv` at each
step: that a new mission finds no other
active comes from `OpenRowsExplained` and `LockInv` (an open row of this process is
current, or belongs to the thread under the lock); that an entry goes to an active
mission from `CurrentInv` (without the lock held the current mission is open); that
it is new from `CommandInv` and `FrameInv` (a command or frame belongs to one thread
until its row is written).  `OneActive` is why a restart is one `Abandon`.

**GuiSession** (`GuiSession_proofs`; `GuiBounds`): all seven properties of the run, from `GInv`.

- `IdentifiersInv`: identifiers on any queue were given out, so a new one is on none; this
  is why a late result of a stopped run cannot have the identifier of the next.
- `MessagesInv`, `ResultsInv`: a result carries the identifier of a request, and if it is good
  and of this run, that request is marked acknowledged in `trail`.
- `TrailInv`, `RunInv`: what is pending is the last request of the run; the run has sent
  `step` rows, or one more while it waits, and they are the rows of the list unless it was edited.
  With `StepAfterAck` these make `CompleteMeansAll`.
- `StaleInv`: while a request tested on an earlier connection is in hand the outbox is
  empty, and it meets nobody else's; hence at most one, and the first.
- `AnswerInv`: what is pending is on a queue that leads to an answer as long as the network
  thread is up, and when it is not, the signal of the disconnection is in the inbox.
  It only holds while no frame was left unfinished, which is what `lost` records.

**BackendServer** (`BackendServer_proofs`; `ServerBounds`): the three safety properties of the run and the type
invariant `ServerTypeOK`, from `SInv`.

- `MigrationInv`: the statements left repair every column that is not as it should be; a
  crash throws them away, and `OpenDatabase` plans from the columns it finds.
- `SocketsInv`: a session past registration is in `_client_sockets`, so that a
  snapshot contains it.
- `CountsInv`, `ToldInv`: a session past its greeting was sent the newest loss, or its send failed
  (`Tried`), or a broadcast that will try is under way (`Awaited`); one that is inside its greeting
  may instead hold a status that was built after the loss.  The last is what makes registration
  before the greeting right: built first and registered later, a session could miss a
  loss without any failure.  `SendMoves` is the lemma about `_send`: either way its
  message is tried, and nobody else is concerned.
- `StopInv`: the sockets that `shutdown()` shut include those of all sessions that can still
  handle lines, so that none begins to after the disconnect: those that do were `busy`, and
  who connects is handling a line.

**AgvDrive** (`AgvDrive_proofs`; `WheelTicks`, `DriveTicks`, `DriveSets`): all six properties,
from `AInv`.  `StillInv` is the strengthening that matters: in an emergency stop or at
an obstacle a wheel has no target, no pulse, no duty asked for and no duty, so that no part of the loop,
in whatever order, finds a reason to give power; in STOP it has no target and no pulse.
`SeenInv` adds to `TurnsToLine` that a last sample with a line is the one last seen.
`ModeInv` ties the drive state to the mode where `updateCon` leaves it alone,
`InputInv` says that what is in the serial buffer came after the emergency stop.

**ArmFirmware** (`ArmFirmware_proofs`; `FirmwareAssumption`): the three safety properties, for any
lines of any length, any buffer and any number of connections, from `FInv`.
`FirmwareTypeHolds` says that the command buffer always has room for the `'\0'` that
`processCommand` writes.  `AnswersInOrder` and `MovesAsSent` say only what happened; that it goes
on so depends on bytes that nobody has read yet:

- `StreamInv`: of a connection that is served or waits, the bytes to be read are the lines not
  answered (`Unread`), each with its newline (`Layout`), and after them at most the beginning of a line
  whose client broke off (`Trailing`); the first unread line may have begun, and then
  the buffer holds what was read of it or has overflowed (`Begun`, `Holds`).
- `FreshInv`: a connection that was not accepted was sent nothing, so that a line of an earlier one cannot be
  answered there.

The last conjunct of `Begun` (a connection without unread lines has an empty buffer) is only true while
the client is there: the beginning of a line that broke off stays in the buffer until `StopClient`
and `AcceptClient` reset it, and that they do is what the next connection depends on.

**FakeEsp32** (`FakeEsp32_proofs`; `FakeAssumption`): `FramesWholeHolds` and
`AcksAnswerCommandsHolds`, for any scripts, whatever lines they are made of, and any senders, clients and
commands, from `KInv`.

- `HalfInv`, `RestInv`: a frame that is half sent is the only one, its sender is in `_send_script` and
  has the lock, and its client holds its first piece and nothing else; a client that can still
  be sent something holds no piece without a sender.  A failing send leaves a piece only at a
  client that is gone, which is why dropping the lock there does no harm.
- `AnswerInv`: the acknowledgements a client got, those of the script that is being sent to it (`Owed`),
  and `ScriptAcks` for each command that waits (`Waiting`) are together at most `ScriptAcks`
  for each command it sent.  `lines # 0 => at \in {"lines", "script"}`, a conjunct of the type
  invariant, is what closing the connection establishes: the buffer goes with it.

**Only model-checked**: the liveness properties (`LockReleased`,
`SupersededReceiverEnds`, `ClosedConnectionNoticed`, `FaultReported`,
`LinesAnswered`, `SessionsEnd`, `StopEnds`), since the prover cannot reason about `ENABLED`.

## 6. Not modelled

- **`decode_ndjson_line`, `encode_ndjson`, `validate_angles`** (`parser.py`): they check
  the shape of a JSON text and keep no state; malformed requests are `HandleOther`.
- **Widgets of the GUI**: the list of teaching positions, mission and arm displays, the log view,
  button states.  The action does not depend on them, but for the connection display,
  which is `espShown`.
- **Rows as SQLite stores them**: statements succeed as a whole or fail as a whole; the queries that
  list missions are read-only.
- **PID, encoder time and sonar timing** (`Wheel.h`, `ObstacleSensor.h`): numeric; their
  outcomes are nondeterministic, so that no property rests on them.  `micros()` wrapping (a hazard
  without a property) is among those outcomes.
- **Bytes of an AGV line that reach the next client** (a hazard without a property): one
  protocol error at the backend and nothing else.
- **Behaviours of the AGV that the properties admit**: the obstacle flag is cleared after
  `obstacleTimeOut` without a valid range, whether or not the obstacle went away
  (`FlagCoversObstacle`); a `SETSPEED` below 0 turns the direction of a startup pulse under way
  (`HardlyBackwards` exempts the rest of it); a status line with the drive state FORCEDRUN or
  EMERGENCYSTOPPED is a diagnostic to the backend, as src/README.md:349 says.
- **Line sensors, `Servo1.h`, `Arms.h`, displays**: pin access, and helpers the main sketch does
  not include.
- **`softAP_tcp.cpp`, `robotArm_tcp.py`, `pc/`, `firmware/archive/`**: the program's README
  keeps these outside the integrated program.
- **`main()` functions**, argument parsing, signal handlers: they build the objects and call
  `shutdown`.

## 7. Plan

1. `MicrosWrap`: the 32-bit encoder time of `Wheel.h`, as a pure algorithm.
2. The frame of the GUI from its outbox to a command of `ArmLink`, so that what a teaching
   action promises can be said of the device and not only of the backend's answers.
