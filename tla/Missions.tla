------------------------------ MODULE Missions ------------------------------
(***************************************************************************)
(* Missions and their logs: backend/mission_manager.py, the rows that      *)
(* database/database.py writes for it, and the requests and events of      *)
(* backend/robot_backend.py that lead there.                               *)
(*                                                                         *)
(* Each GUI session has a thread of the backend, and the ESP32 receiver    *)
(* thread delivers telemetry.  MissionManager._lock makes start, end and   *)
(* the log operations exclude each other; start and end are two actions,   *)
(* since the process may die between the committed statement and the       *)
(* assignment that follows it.  A statement is one transaction: it is done *)
(* or, when SQLite raises an error, it is not.  A request that changes     *)
(* nothing (a start while a mission is active, an end without one, a       *)
(* failed INSERT INTO mission) is no action.  Esp32Client is reduced to    *)
(* what this code sees: the command leaves, and later its attempt is over. *)
(***************************************************************************)
EXTENDS Integers

CONSTANTS
  Sessions,     \* threads of the backend that serve a GUI session
  MaxMissions,  \* bound: rows of table mission
  MaxCommands,  \* bound: arm commands
  MaxEvents,    \* bound: AGV frames
  MaxRestarts   \* bound: crashes or shutdowns of the backend

ASSUME MissionBounds ==
  /\ MaxMissions \in Nat /\ MaxCommands \in Nat
  /\ MaxEvents \in Nat /\ MaxRestarts \in Nat

None == 0            \* Python's None for a mission
NoSession == 0
Unanswered == -1     \* no reply was given yet
Failed == -2         \* the reply is an error message
ASSUME NoSessionAssumption == NoSession \notin Sessions

MissionIds == 1..MaxMissions
Cmds == 1..MaxCommands
Events == 1..MaxEvents

VARIABLES
  current,    \* _current_mission_id
  lock,       \* holder of MissionManager._lock across two actions
  pc, myMission, myCmd,  \* each session's thread and its locals
  rpc,        \* the receiver thread
  rows,       \* table mission: absent, open (end_time IS NULL) or ended
  armLog, agvLog,  \* tables arm_log and agv_log, as mission and subject
  created, issued, heard,  \* missions, commands and frames so far
  sentIn,     \* history: the mission in which a command left
  told,       \* history: the mission_id of a command's arm_result
  orphaned,   \* history: missions that were open at a restart
  restarts    \* bounds the restarts

memoryVars == <<current, lock, pc, myMission, myCmd, rpc>>
databaseVars == <<rows, armLog, agvLog>>
historyVars == <<sentIn, told, orphaned, restarts>>
countVars == <<created, issued, heard>>
vars == <<memoryVars, databaseVars, historyVars, countVars>>

Init ==
  /\ current = None /\ lock = NoSession
  /\ pc = [c \in Sessions |-> "idle"]
  /\ myMission = [c \in Sessions |-> None]
  /\ myCmd = [c \in Sessions |-> None]
  /\ rpc = "idle"
  /\ rows = [m \in MissionIds |-> "absent"]
  /\ armLog = {} /\ agvLog = {}
  /\ created = 0 /\ issued = 0 /\ heard = 0
  /\ sentIn = [k \in Cmds |-> None]
  /\ told = [k \in Cmds |-> Unanswered]
  /\ orphaned = {} /\ restarts = 0

Goto(c, label) == pc' = [pc EXCEPT ![c] = label]

\* No session is inside send_arm_command, which holds _command_lock.
CommandLockFree == \A c \in Sessions : pc[c] # "waitAck"

-----------------------------------------------------------------------------
(* The statements of DatabaseManager, each a transaction. *)

\* create_mission
InsertMission ==
  /\ created' = created + 1
  /\ rows' = [rows EXCEPT ![created + 1] = "open"]

\* end_mission: WHERE mission_id = ? AND end_time IS NULL
UpdateMission(m) ==
  /\ rows[m] = "open"
  /\ rows' = [rows EXCEPT ![m] = "ended"]

\* insert_arm_log
InsertArmLog(m, k) == armLog' = armLog \cup {<<m, k>>}

\* insert_agv_log
InsertAgvLog(m, n) == agvLog' = agvLog \cup {<<m, n>>}

-----------------------------------------------------------------------------
(* mission_start and mission_end *)

\* Mutant: the test and the INSERT are not in one critical section.
CreateMissionUnlocked(c) ==
  /\ pc[c] = "idle" /\ current = None /\ created < MaxMissions
  /\ InsertMission
  /\ myMission' = [myMission EXCEPT ![c] = created + 1]
  /\ lock' = c /\ Goto(c, "assign")
  /\ UNCHANGED <<current, myCmd, rpc, armLog, agvLog, issued, heard,
                 historyVars>>

\* MissionManager.start: no mission is active, and create_mission commits.
CreateMission(c) ==
  /\ pc[c] = "idle" /\ lock = NoSession
  /\ current = None /\ created < MaxMissions
  /\ InsertMission
  /\ myMission' = [myMission EXCEPT ![c] = created + 1]
  /\ lock' = c /\ Goto(c, "assign")
  /\ UNCHANGED <<current, myCmd, rpc, armLog, agvLog, issued, heard,
                 historyVars>>

\* MissionManager.start: the assignment, and the lock is released.
AssignCurrent(c) ==
  /\ pc[c] = "assign"
  /\ current' = myMission[c]
  /\ myMission' = [myMission EXCEPT ![c] = None]
  /\ lock' = NoSession /\ Goto(c, "idle")
  /\ UNCHANGED <<myCmd, rpc, databaseVars, countVars, historyVars>>

\* Mutant: the lock covers only the statement.
EndMissionUnlocked(c) ==
  /\ pc[c] = "idle" /\ lock = NoSession
  /\ current # None /\ UpdateMission(current)
  /\ Goto(c, "clear")
  /\ UNCHANGED <<current, lock, myMission, myCmd, rpc, armLog, agvLog,
                 countVars, historyVars>>

\* MissionManager.end: end_mission commits.  When the statement fails, or
\* finds no open row, it raises and the mission stays active.
EndMission(c) ==
  /\ pc[c] = "idle" /\ lock = NoSession
  /\ current # None /\ UpdateMission(current)
  /\ lock' = c /\ Goto(c, "clear")
  /\ UNCHANGED <<current, myMission, myCmd, rpc, armLog, agvLog, countVars,
                 historyVars>>

\* MissionManager.end: the mission is forgotten, and the lock released.
ClearCurrent(c) ==
  /\ pc[c] = "clear"
  /\ current' = None
  /\ lock' = NoSession /\ Goto(c, "idle")
  /\ UNCHANGED <<myMission, myCmd, rpc, databaseVars, countVars, historyVars>>

-----------------------------------------------------------------------------
(* arm_command *)

\* send_arm_command raises Esp32NotConnectedError: there was no attempt, the
\* result says so and nothing is logged.
ArmNotConnected(c) ==
  /\ pc[c] = "idle" /\ CommandLockFree /\ issued < MaxCommands
  /\ issued' = issued + 1
  /\ told' = [told EXCEPT ![issued + 1] = None]
  /\ UNCHANGED <<memoryVars, databaseVars, created, heard, sentIn, orphaned,
                 restarts>>

\* The mission that is active: its row is open, and not left by a restart.
ActiveMission ==
  LET active == {m \in MissionIds : rows[m] = "open" /\ m \notin orphaned}
  IN  IF active = {} THEN None ELSE CHOOSE m \in active : TRUE

\* send_arm_command writes the command to the ESP32 and waits.
SendArmCommand(c) ==
  /\ pc[c] = "idle" /\ CommandLockFree /\ issued < MaxCommands
  /\ issued' = issued + 1
  /\ myCmd' = [myCmd EXCEPT ![c] = issued + 1]
  /\ sentIn' = [sentIn EXCEPT ![issued + 1] = ActiveMission]
  /\ Goto(c, "waitAck")
  /\ UNCHANGED <<current, lock, myMission, rpc, databaseVars, created, heard,
                 told, orphaned, restarts>>

\* It returns an ACK or raises Esp32Error: an attempt either way.
AttemptEnds(c) ==
  /\ pc[c] = "waitAck"
  /\ Goto(c, "log")
  /\ UNCHANGED <<current, lock, myMission, myCmd, rpc, databaseVars, countVars,
                 historyVars>>

\* Mutant: the mission is reported whether or not the row was written.
LogArmReportsAnyway(c) ==
  /\ pc[c] = "log" /\ lock = NoSession
  /\ myMission' = [myMission EXCEPT ![c] = current]
  /\ \/ current # None /\ InsertArmLog(current, myCmd[c])
     \/ UNCHANGED armLog
  /\ Goto(c, "reply")
  /\ UNCHANGED <<current, lock, myCmd, rpc, rows, agvLog, countVars,
                 historyVars>>

\* log_arm_if_active, when no SQLite error occurs: the row, if a mission is
\* active, and the mission it was written for.
LogArm(c) ==
  /\ pc[c] = "log" /\ lock = NoSession
  /\ myMission' = [myMission EXCEPT ![c] = current]
  /\ IF current = None THEN UNCHANGED armLog
                        ELSE InsertArmLog(current, myCmd[c])
  /\ Goto(c, "reply")
  /\ UNCHANGED <<current, lock, myCmd, rpc, rows, agvLog, countVars,
                 historyVars>>

\* The INSERT fails: the session gets a database_error instead of a result.
LogArmFails(c) ==
  /\ pc[c] = "log" /\ lock = NoSession /\ current # None
  /\ told' = [told EXCEPT ![myCmd[c]] = Failed]
  /\ myCmd' = [myCmd EXCEPT ![c] = None]
  /\ Goto(c, "idle")
  /\ UNCHANGED <<current, lock, myMission, rpc, databaseVars, countVars,
                 sentIn, orphaned, restarts>>

\* arm_result: mission_id and logged, from what log_arm_if_active returned.
ReplyArmResult(c) ==
  /\ pc[c] = "reply"
  /\ told' = [told EXCEPT ![myCmd[c]] = myMission[c]]
  /\ myMission' = [myMission EXCEPT ![c] = None]
  /\ myCmd' = [myCmd EXCEPT ![c] = None]
  /\ Goto(c, "idle")
  /\ UNCHANGED <<current, lock, rpc, databaseVars, countVars, sentIn, orphaned,
                 restarts>>

-----------------------------------------------------------------------------
(* Telemetry, on the receiver thread *)

\* _handle_esp32_event is called with an AGV frame.
ReceiveAgv ==
  /\ rpc = "idle" /\ heard < MaxEvents
  /\ heard' = heard + 1
  /\ rpc' = "log"
  /\ UNCHANGED <<current, lock, pc, myMission, myCmd, databaseVars, created,
                 issued, historyVars>>

\* Mutant: the frame is inserted without asking for a mission.
LogAgvAlways ==
  /\ rpc = "log" /\ lock = NoSession
  /\ InsertAgvLog(current, heard)
  /\ rpc' = "idle"
  /\ UNCHANGED <<current, lock, pc, myMission, myCmd, rows, armLog, countVars,
                 historyVars>>

\* log_agv_if_active.  A failed INSERT is broadcast as an error, and the
\* frame as one that was not logged.
LogAgv ==
  /\ rpc = "log" /\ lock = NoSession
  /\ \/ current # None /\ InsertAgvLog(current, heard)
     \/ UNCHANGED agvLog
  /\ rpc' = "idle"
  /\ UNCHANGED <<current, lock, pc, myMission, myCmd, rows, armLog, countVars,
                 historyVars>>

-----------------------------------------------------------------------------
\* The backend stops, by shutdown or by a crash, and starts again.  Neither
\* ends the mission, and nothing is read back: MissionManager starts empty.
Restart ==
  /\ restarts < MaxRestarts
  /\ restarts' = restarts + 1
  /\ orphaned' = orphaned \cup {m \in MissionIds : rows[m] = "open"}
  /\ current' = None /\ lock' = NoSession
  /\ pc' = [c \in Sessions |-> "idle"]
  /\ myMission' = [c \in Sessions |-> None]
  /\ myCmd' = [c \in Sessions |-> None]
  /\ rpc' = "idle"
  /\ UNCHANGED <<databaseVars, countVars, sentIn, told>>

SessionStep(c) ==
  \/ CreateMission(c) \/ AssignCurrent(c) \/ EndMission(c) \/ ClearCurrent(c)
  \/ ArmNotConnected(c) \/ SendArmCommand(c) \/ AttemptEnds(c)
  \/ LogArm(c) \/ LogArmFails(c) \/ ReplyArmResult(c)

Next ==
  \/ \E c \in Sessions : SessionStep(c)
  \/ ReceiveAgv \/ LogAgv \/ Restart

Spec == Init /\ [][Next]_vars

-----------------------------------------------------------------------------
Labels == {"idle", "assign", "clear", "waitAck", "log", "reply"}

\* Every variable has its type; in particular a log row refers to a row of
\* table mission (the foreign key) and is about a command or frame.
MissionTypeOK ==
  /\ current \in 0..MaxMissions
  /\ lock \in Sessions \cup {NoSession}
  /\ pc \in [Sessions -> Labels]
  /\ myMission \in [Sessions -> 0..MaxMissions]
  /\ myCmd \in [Sessions -> 0..MaxCommands]
  /\ rpc \in {"idle", "log"}
  /\ rows \in [MissionIds -> {"absent", "open", "ended"}]
  /\ armLog \subseteq MissionIds \X Cmds
  /\ agvLog \subseteq MissionIds \X Events
  /\ created \in 0..MaxMissions /\ issued \in 0..MaxCommands
  /\ heard \in 0..MaxEvents
  /\ sentIn \in [Cmds -> 0..MaxMissions]
  /\ told \in [Cmds -> MissionIds \cup {None, Unanswered, Failed}]
  /\ orphaned \subseteq MissionIds /\ restarts \in 0..MaxRestarts

\* A mission without an end is the current one, is about to become it, or was
\* left behind by a stop of the backend: neither a failed statement nor two
\* sessions pressing start together leave an open row that no one can end.
OpenRowsExplained ==
  \A m \in MissionIds : rows[m] = "open" =>
    \/ m = current
    \/ \E c \in Sessions : pc[c] = "assign" /\ myMission[c] = m
    \/ m \in orphaned

\* What arm_result says about logging is what the database holds, also when
\* another session ends or starts a mission meanwhile and when an INSERT fails.
ReportedMatchesRow ==
  \A k \in Cmds : told[k] # Unanswered =>
    \A m \in MissionIds : <<m, k>> \in armLog <=> told[k] = m

\* The ledger this module implements: a mission is active from the commit of
\* its row to the commit of its end, unless a restart orphans it.
MissionStatus ==
  [m \in MissionIds |->
     IF rows[m] = "open" THEN IF m \in orphaned THEN "abandoned" ELSE "active"
                         ELSE rows[m]]

EntriesOf(kind, log) == {<<row[1], <<kind, row[2]>>>> : row \in log}

LoggedEntries == EntriesOf("arm", armLog) \cup EntriesOf("agv", agvLog)

Ledger == INSTANCE MissionLedger WITH
  Missions <- MissionIds,
  Entries <- {"arm"} \X Cmds \cup {"agv"} \X Events,
  status <- MissionStatus,
  ledger <- LoggedEntries

\* Whatever sessions, telemetry, failing statements and restarts do, missions
\* and logs evolve as the ledger allows: one mission active at a time, entries
\* made once and for the active mission only, nothing of an ended one changed.
ImplementsLedger == Ledger!Spec

\* README: only the arm commands actually sent during an active mission are
\* stored in arm_log: a row's mission was active when the command was sent.
LoggedWhereSent ==
  \A row \in armLog : sentIn[row[2]] = row[1]
=============================================================================
