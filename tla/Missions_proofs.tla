-------------------------- MODULE Missions_proofs --------------------------
(***************************************************************************)
(* Missions keeps its invariant and implements MissionLedger, for any set  *)
(* of sessions and any number of missions, commands, frames and restarts.  *)
(***************************************************************************)
EXTENDS MissionsInv, TLAPS

\* The initial state.
LEMMA InvInit == Init => MInv
<1> SUFFICES ASSUME Init PROVE MInv OBVIOUS
<1> USE MissionBounds DEF Init, None, Unanswered, MissionIds, Cmds, Events
<1>1. MissionTypeOK BY DEF MissionTypeOK, Labels
<1>2. LockInv /\ CurrentInv /\ RowsInv BY DEF LockInv, CurrentInv, RowsInv
<1>3. CommandInv BY DEF CommandInv, Attempting
<1>4. FrameInv BY DEF FrameInv
<1>5. OpenRowsExplained /\ ReportedMatchesRow
  BY DEF OpenRowsExplained, ReportedMatchesRow
<1> QED BY <1>1, <1>2, <1>3, <1>4, <1>5 DEF MInv

\* A step of a session's thread keeps every variable's type; that a row of
\* arm_log is about a command needs CommandInv.
LEMMA SessionTypes ==
  ASSUME MissionTypeOK, CommandInv, NEW c \in Sessions, SessionStep(c)
  PROVE  MissionTypeOK'
<1> USE MissionBounds DEF MissionTypeOK, MissionIds, Cmds, Events, Labels,
        None, Unanswered, Failed, Goto, memoryVars, databaseVars,
        historyVars, countVars
<1>1. CASE CreateMission(c) BY <1>1 DEF CreateMission, InsertMission
<1>2. CASE AssignCurrent(c) BY <1>2 DEF AssignCurrent
<1>3. CASE EndMission(c) BY <1>3 DEF EndMission, UpdateMission
<1>4. CASE ClearCurrent(c) BY <1>4 DEF ClearCurrent
<1>5. CASE ArmNotConnected(c)
  <2>1. told' \in [Cmds -> MissionIds \cup {None, Unanswered, Failed}]
    BY <1>5 DEF ArmNotConnected
  <2>2. issued' \in 0..MaxCommands BY <1>5 DEF ArmNotConnected
  <2>3. UNCHANGED <<memoryVars, databaseVars, created, heard, sentIn, orphaned, restarts>>
    BY <1>5 DEF ArmNotConnected
  <2> QED BY <2>1, <2>2, <2>3
<1>6. CASE SendArmCommand(c)
  <2>1. ActiveMission \in 0..MaxMissions BY DEF ActiveMission
  <2>2. sentIn' \in [Cmds -> 0..MaxMissions] BY <1>6, <2>1 DEF SendArmCommand
  <2>3. /\ issued' \in 0..MaxCommands /\ myCmd' \in [Sessions -> 0..MaxCommands]
        /\ pc' \in [Sessions -> Labels]
    BY <1>6 DEF SendArmCommand
  <2> QED BY <1>6, <2>2, <2>3 DEF SendArmCommand
<1>7. CASE AttemptEnds(c) BY <1>7 DEF AttemptEnds
<1>8. CASE LogArm(c)
  <2>1. myCmd[c] \in Cmds BY <1>8 DEF LogArm, CommandInv, Attempting
  <2>2. armLog' \subseteq MissionIds \X Cmds
    BY <1>8, <2>1 DEF LogArm, InsertArmLog
  <2> QED BY <1>8, <2>2 DEF LogArm
<1>9. CASE LogArmFails(c)
  <2>1. told' \in [Cmds -> MissionIds \cup {None, Unanswered, Failed}]
    BY <1>9 DEF LogArmFails
  <2>2. pc' \in [Sessions -> Labels] /\ myCmd' \in [Sessions -> 0..MaxCommands]
    BY <1>9 DEF LogArmFails
  <2> QED BY <1>9, <2>1, <2>2 DEF LogArmFails
<1>10. CASE ReplyArmResult(c)
  <2>1. myMission[c] \in MissionIds \cup {None} OBVIOUS
  <2>2. told' \in [Cmds -> MissionIds \cup {None, Unanswered, Failed}]
    BY <1>10, <2>1 DEF ReplyArmResult
  <2>3. /\ pc' \in [Sessions -> Labels]
        /\ myCmd' \in [Sessions -> 0..MaxCommands]
        /\ myMission' \in [Sessions -> 0..MaxMissions]
    BY <1>10 DEF ReplyArmResult
  <2> QED BY <1>10, <2>2, <2>3 DEF ReplyArmResult
<1> QED BY <1>1, <1>2, <1>3, <1>4, <1>5, <1>6, <1>7, <1>8, <1>9, <1>10
           DEF SessionStep

\* So does every other step.
LEMMA TypeStep ==
  ASSUME MissionTypeOK, CommandInv, FrameInv, [Next]_vars
  PROVE  MissionTypeOK'
<1> USE MissionBounds DEF MissionTypeOK, MissionIds, Cmds, Events, Labels,
        None, memoryVars, databaseVars, historyVars, countVars
<1>1. CASE \E c \in Sessions : SessionStep(c) BY <1>1, SessionTypes
<1>2. CASE ReceiveAgv BY <1>2 DEF ReceiveAgv
<1>3. CASE LogAgv
  <2>1. agvLog' \subseteq MissionIds \X Events
    BY <1>3 DEF LogAgv, InsertAgvLog, FrameInv
  <2> QED BY <1>3, <2>1 DEF LogAgv
<1>4. CASE Restart
  <2>1. /\ pc' \in [Sessions -> Labels]
        /\ myCmd' \in [Sessions -> 0..MaxCommands]
        /\ myMission' \in [Sessions -> 0..MaxMissions]
    BY <1>4 DEF Restart
  <2>2. orphaned' \subseteq MissionIds BY <1>4 DEF Restart
  <2>3. restarts' \in 0..MaxRestarts BY <1>4 DEF Restart
  <2> QED BY <1>4, <2>1, <2>2, <2>3 DEF Restart
<1>5. CASE UNCHANGED vars BY <1>5 DEF vars
<1> QED BY <1>1, <1>2, <1>3, <1>4, <1>5 DEF Next

\* The lock and the locals of start and end stay together.
LEMMA LockStep ==
  ASSUME MissionTypeOK, LockInv, CurrentInv, RowsInv, [Next]_vars
  PROVE  LockInv'
<1> USE MissionBounds, NoSessionAssumption
    DEF MissionTypeOK, LockInv, MissionIds, None, Goto, memoryVars,
        databaseVars, historyVars, countVars
<1>1. ASSUME NEW c \in Sessions, SessionStep(c) PROVE LockInv'
  <2>1. CASE CreateMission(c)
    <3>1. created + 1 \in MissionIds \ orphaned
      BY <2>1 DEF CreateMission, RowsInv
    <3>2. rows'[created + 1] = "open"
      BY <2>1, <3>1 DEF CreateMission, InsertMission
    <3> QED BY <2>1, <3>1, <3>2 DEF CreateMission
  <2>2. CASE AssignCurrent(c) BY <2>2 DEF AssignCurrent
  <2>3. CASE EndMission(c) BY <2>3 DEF EndMission, UpdateMission
  <2>4. CASE ClearCurrent(c) BY <2>4 DEF ClearCurrent
  <2>5. CASE ArmNotConnected(c) BY <2>5 DEF ArmNotConnected
  <2>6. CASE SendArmCommand(c) BY <2>6 DEF SendArmCommand
  <2>7. CASE AttemptEnds(c) BY <2>7 DEF AttemptEnds
  <2>8. CASE LogArm(c) BY <2>8 DEF LogArm
  <2>9. CASE LogArmFails(c) BY <2>9 DEF LogArmFails
  <2>10. CASE ReplyArmResult(c) BY <2>10 DEF ReplyArmResult
  <2> QED BY <1>1, <2>1, <2>2, <2>3, <2>4, <2>5, <2>6, <2>7, <2>8, <2>9,
             <2>10 DEF SessionStep
<1>2. CASE ReceiveAgv BY <1>2 DEF ReceiveAgv
<1>3. CASE LogAgv BY <1>3 DEF LogAgv
<1>4. CASE Restart BY <1>4 DEF Restart
<1>5. CASE UNCHANGED vars BY <1>5 DEF vars
<1> QED BY <1>1, <1>2, <1>3, <1>4, <1>5 DEF Next

\* The current mission stays open until it is ended, and is not orphaned
\* while the process runs.
LEMMA CurrentStep ==
  ASSUME MissionTypeOK, LockInv, CurrentInv, RowsInv, [Next]_vars
  PROVE  CurrentInv'
<1> USE MissionBounds, NoSessionAssumption
    DEF MissionTypeOK, LockInv, CurrentInv, MissionIds, None, Goto,
        memoryVars, databaseVars, historyVars, countVars
<1>1. ASSUME NEW c \in Sessions, SessionStep(c) PROVE CurrentInv'
  <2>1. CASE CreateMission(c) BY <2>1 DEF CreateMission
  <2>2. CASE AssignCurrent(c) BY <2>2 DEF AssignCurrent
  <2>3. CASE EndMission(c) BY <2>3 DEF EndMission, UpdateMission
  <2>4. CASE ClearCurrent(c) BY <2>4 DEF ClearCurrent
  <2>5. CASE ArmNotConnected(c) BY <2>5 DEF ArmNotConnected
  <2>6. CASE SendArmCommand(c) BY <2>6 DEF SendArmCommand
  <2>7. CASE AttemptEnds(c) BY <2>7 DEF AttemptEnds
  <2>8. CASE LogArm(c) BY <2>8 DEF LogArm
  <2>9. CASE LogArmFails(c) BY <2>9 DEF LogArmFails
  <2>10. CASE ReplyArmResult(c) BY <2>10 DEF ReplyArmResult
  <2> QED BY <1>1, <2>1, <2>2, <2>3, <2>4, <2>5, <2>6, <2>7, <2>8, <2>9,
             <2>10 DEF SessionStep
<1>2. CASE ReceiveAgv BY <1>2 DEF ReceiveAgv
<1>3. CASE LogAgv BY <1>3 DEF LogAgv
<1>4. CASE Restart BY <1>4 DEF Restart
<1>5. CASE UNCHANGED vars BY <1>5 DEF vars
<1> QED BY <1>1, <1>2, <1>3, <1>4, <1>5 DEF Next

\* Row numbers are used once; an orphaned row is not touched.
LEMMA RowsStep ==
  ASSUME MissionTypeOK, CurrentInv, RowsInv, [Next]_vars
  PROVE  RowsInv'
<1> USE MissionBounds
    DEF MissionTypeOK, RowsInv, MissionIds, None, memoryVars, databaseVars,
        historyVars, countVars
<1>1. ASSUME NEW c \in Sessions, SessionStep(c) PROVE RowsInv'
  <2>1. CASE CreateMission(c) BY <2>1 DEF CreateMission, InsertMission
  <2>2. CASE AssignCurrent(c) BY <2>2 DEF AssignCurrent
  <2>3. CASE EndMission(c) BY <2>3 DEF EndMission, UpdateMission, CurrentInv
  <2>4. CASE ClearCurrent(c) BY <2>4 DEF ClearCurrent
  <2>5. CASE ArmNotConnected(c) BY <2>5 DEF ArmNotConnected
  <2>6. CASE SendArmCommand(c) BY <2>6 DEF SendArmCommand
  <2>7. CASE AttemptEnds(c) BY <2>7 DEF AttemptEnds
  <2>8. CASE LogArm(c) BY <2>8 DEF LogArm
  <2>9. CASE LogArmFails(c) BY <2>9 DEF LogArmFails
  <2>10. CASE ReplyArmResult(c) BY <2>10 DEF ReplyArmResult
  <2> QED BY <1>1, <2>1, <2>2, <2>3, <2>4, <2>5, <2>6, <2>7, <2>8, <2>9,
             <2>10 DEF SessionStep
<1>2. CASE ReceiveAgv BY <1>2 DEF ReceiveAgv
<1>3. CASE LogAgv BY <1>3 DEF LogAgv
<1>4. CASE Restart BY <1>4 DEF Restart
<1>5. CASE UNCHANGED vars BY <1>5 DEF vars
<1> QED BY <1>1, <1>2, <1>3, <1>4, <1>5 DEF Next

\* No open row is forgotten.
LEMMA OpenStep ==
  ASSUME MissionTypeOK, LockInv, CurrentInv, OpenRowsExplained, [Next]_vars
  PROVE  OpenRowsExplained'
<1> USE MissionBounds, NoSessionAssumption
    DEF MissionTypeOK, OpenRowsExplained, MissionIds, None, Goto,
        memoryVars, databaseVars, historyVars, countVars
<1>1. ASSUME NEW c \in Sessions, SessionStep(c) PROVE OpenRowsExplained'
  <2>1. CASE CreateMission(c) BY <2>1 DEF CreateMission, InsertMission
  <2>2. CASE AssignCurrent(c)
    <3>1. current = None /\ \A d \in Sessions : pc[d] = "assign" => d = c
      BY <2>2 DEF AssignCurrent, LockInv
    <3> QED BY <2>2, <3>1 DEF AssignCurrent
  <2>3. CASE EndMission(c) BY <2>3 DEF EndMission, UpdateMission
  <2>4. CASE ClearCurrent(c)
    <3>1. rows[current] # "open" \/ current = None
      BY <2>4 DEF ClearCurrent, LockInv, CurrentInv
    <3> QED BY <2>4, <3>1 DEF ClearCurrent
  <2>5. CASE ArmNotConnected(c) BY <2>5 DEF ArmNotConnected
  <2>6. CASE SendArmCommand(c) BY <2>6 DEF SendArmCommand
  <2>7. CASE AttemptEnds(c) BY <2>7 DEF AttemptEnds
  <2>8. CASE LogArm(c) BY <2>8 DEF LogArm
  <2>9. CASE LogArmFails(c) BY <2>9 DEF LogArmFails
  <2>10. CASE ReplyArmResult(c) BY <2>10 DEF ReplyArmResult
  <2> QED BY <1>1, <2>1, <2>2, <2>3, <2>4, <2>5, <2>6, <2>7, <2>8, <2>9,
             <2>10 DEF SessionStep
<1>2. CASE ReceiveAgv BY <1>2 DEF ReceiveAgv
<1>3. CASE LogAgv BY <1>3 DEF LogAgv
<1>4. CASE Restart BY <1>4 DEF Restart
<1>5. CASE UNCHANGED vars BY <1>5 DEF vars
<1> QED BY <1>1, <1>2, <1>3, <1>4, <1>5 DEF Next

\* A frame is logged by the receiver thread, once.
LEMMA FrameStep ==
  ASSUME MissionTypeOK, FrameInv, [Next]_vars
  PROVE  FrameInv'
<1> USE MissionBounds
    DEF MissionTypeOK, FrameInv, Events, MissionIds, memoryVars, databaseVars,
        historyVars, countVars
<1>1. ASSUME NEW c \in Sessions, SessionStep(c) PROVE FrameInv'
  <2>1. UNCHANGED <<rpc, heard, agvLog>>
    BY <1>1 DEF SessionStep, CreateMission, AssignCurrent, EndMission,
       ClearCurrent, ArmNotConnected, SendArmCommand, AttemptEnds, LogArm,
       LogArmFails, ReplyArmResult
  <2> QED BY <2>1
<1>2. CASE ReceiveAgv BY <1>2 DEF ReceiveAgv
<1>3. CASE LogAgv BY <1>3 DEF LogAgv, InsertAgvLog
<1>4. CASE Restart BY <1>4 DEF Restart
<1>5. CASE UNCHANGED vars BY <1>5 DEF vars
<1> QED BY <1>1, <1>2, <1>3, <1>4, <1>5 DEF Next

\* A thread that goes anywhere else attempts nothing; the others are where they were.
LEMMA AttemptLeft ==
  ASSUME MissionTypeOK, NEW c \in Sessions, NEW l \in {"idle", "assign", "clear"}, Goto(c, l),
         NEW d \in Sessions, Attempting(d)'
  PROVE  d # c /\ Attempting(d) /\ pc'[d] = pc[d]
<1>1. pc \in [Sessions -> Labels] /\ pc' = [pc EXCEPT ![c] = l] BY DEF MissionTypeOK, Goto
<1>2. d # c BY <1>1 DEF Attempting
<1> QED BY <1>1, <1>2 DEF Attempting

\* What a step may do to a command that is not its own.
AttemptKept(d) ==
  /\ Attempting(d) /\ pc'[d] = pc[d] /\ myCmd'[d] = myCmd[d]
  /\ myMission'[d] = myMission[d] /\ told'[myCmd[d]] = told[myCmd[d]]

\* A step after which there is no new attempt and no new row.
LEMMA CommandKept ==
  ASSUME CommandInv, issued \in Nat, issued' \in Nat, issued' >= issued, armLog' = armLog,
         \A d \in Sessions : Attempting(d)' => AttemptKept(d),
         \A k \in Cmds : k > issued' => told'[k] = told[k]
  PROVE  CommandInv'
<1>1. ASSUME NEW d \in Sessions, Attempting(d)'
      PROVE  /\ myCmd'[d] \in 1..issued' /\ told'[myCmd'[d]] = Unanswered
             /\ \A m \in MissionIds : <<m, myCmd'[d]>> \in armLog'
                  <=> pc'[d] = "reply" /\ myMission'[d] = m
  BY <1>1 DEF CommandInv, AttemptKept
<1>2. \A d, f \in Sessions :
        Attempting(d)' /\ Attempting(f)' /\ myCmd'[d] = myCmd'[f] => d = f
  BY DEF CommandInv, AttemptKept
<1>3. \A k \in Cmds : k > issued' =>
        told'[k] = Unanswered /\ \A m \in MissionIds : <<m, k>> \notin armLog'
  BY DEF CommandInv, Cmds
<1> QED BY <1>1, <1>2, <1>3 DEF CommandInv

\* A step that answers the command of thread c, which then attempts nothing.
LEMMA CommandAnswered ==
  ASSUME MissionTypeOK, CommandInv, NEW c \in Sessions, Attempting(c), Goto(c, "idle"),
         NEW v, told' = [told EXCEPT ![myCmd[c]] = v],
         myCmd' = [myCmd EXCEPT ![c] = None],
         \A d \in Sessions : d # c => myMission'[d] = myMission[d],
         issued' = issued, armLog' = armLog
  PROVE  CommandInv'
<1>1. /\ issued \in Nat /\ myCmd \in [Sessions -> 0..MaxCommands]
      /\ told \in [Cmds -> MissionIds \cup {None, Unanswered, Failed}]
  BY MissionBounds DEF MissionTypeOK
<1>2. myCmd[c] \in 1..issued BY DEF CommandInv
<1>3. ASSUME NEW d \in Sessions, Attempting(d)' PROVE AttemptKept(d)
  <2>1. d # c /\ Attempting(d) /\ pc'[d] = pc[d] BY <1>3, AttemptLeft
  <2>2. myCmd[d] # myCmd[c] BY <2>1 DEF CommandInv
  <2>3. told'[myCmd[d]] = told[myCmd[d]]
    <3>1. myCmd[d] \in Cmds
      BY <1>1, <2>1, MissionBounds DEF CommandInv, MissionTypeOK, Cmds
    <3> QED BY <1>1, <2>2, <3>1
  <2> QED BY <1>1, <2>1, <2>3 DEF AttemptKept
<1>4. \A k \in Cmds : k > issued' => told'[k] = told[k]
  BY <1>1, <1>2 DEF Cmds
<1> QED BY <1>1, <1>3, <1>4, CommandKept

\* A step of mission_start or mission_end.
LEMMA CommandElsewhere ==
  ASSUME MissionTypeOK, CommandInv, NEW c \in Sessions,
         NEW l \in {"idle", "assign", "clear"}, Goto(c, l),
         \A d \in Sessions : d # c => myMission'[d] = myMission[d],
         UNCHANGED <<myCmd, told, issued, armLog>>
  PROVE  CommandInv'
<1>1. issued \in Nat BY MissionBounds DEF MissionTypeOK
<1>2. ASSUME NEW d \in Sessions, Attempting(d)' PROVE AttemptKept(d)
  BY <1>2, AttemptLeft DEF AttemptKept
<1> QED BY <1>1, <1>2, CommandKept

\* send_arm_command finds no connection: the command has its answer at once.
LEMMA CommandRefused ==
  ASSUME MissionTypeOK, CommandInv, NEW c \in Sessions, ArmNotConnected(c)
  PROVE  CommandInv'
<1>1. /\ issued \in Nat /\ issued' = issued + 1 /\ armLog' = armLog
      /\ told \in [Cmds -> MissionIds \cup {None, Unanswered, Failed}]
      /\ told' = [told EXCEPT ![issued + 1] = None]
      /\ UNCHANGED <<pc, myCmd, myMission>> /\ issued < MaxCommands
  BY MissionBounds DEF ArmNotConnected, MissionTypeOK, memoryVars, databaseVars
<1>2. ASSUME NEW d \in Sessions, Attempting(d)' PROVE AttemptKept(d)
  <2>1. Attempting(d) BY <1>1, <1>2 DEF Attempting
  <2>2. myCmd[d] \in 1..issued BY <2>1 DEF CommandInv
  <2>3. myCmd[d] \in Cmds BY <1>1, <2>2, MissionBounds DEF Cmds
  <2>4. told'[myCmd[d]] = told[myCmd[d]] BY <1>1, <2>2, <2>3
  <2> QED BY <1>1, <2>1, <2>4 DEF AttemptKept
<1>3. \A k \in Cmds : k > issued' => told'[k] = told[k] BY <1>1 DEF Cmds
<1> QED BY <1>1, <1>2, <1>3, CommandKept

\* A command is logged and answered by its thread, and by no other.
LEMMA CommandStep ==
  ASSUME MissionTypeOK, LockInv, CurrentInv, CommandInv, [Next]_vars
  PROVE  CommandInv'
<1> USE MissionBounds
    DEF MissionTypeOK, CommandInv, Attempting, Cmds, MissionIds, None,
        Unanswered, Failed, Goto, memoryVars, databaseVars, historyVars,
        countVars
<1>1. ASSUME NEW c \in Sessions, SessionStep(c) PROVE CommandInv'
  <2> HIDE DEF MissionTypeOK, CommandInv, Attempting, Goto
  <2>1. myMission \in [Sessions -> 0..MaxMissions] BY DEF MissionTypeOK
  <2>2. CASE CreateMission(c) \/ AssignCurrent(c) \/ EndMission(c) \/ ClearCurrent(c)
    <3>1. \E l \in {"idle", "assign", "clear"} : Goto(c, l)
      BY <2>2 DEF CreateMission, AssignCurrent, EndMission, ClearCurrent
    <3>2. /\ \A d \in Sessions : d # c => myMission'[d] = myMission[d]
          /\ UNCHANGED <<myCmd, told, issued, armLog>>
      BY <2>1, <2>2 DEF CreateMission, AssignCurrent, EndMission, ClearCurrent
    <3> QED BY <3>1, <3>2, CommandElsewhere
  <2>3. CASE ArmNotConnected(c) BY <2>3, CommandRefused
  <2>4. CASE SendArmCommand(c)
    <3> USE DEF MissionTypeOK, CommandInv, Attempting, Goto
    <3>1. /\ issued + 1 \in Cmds /\ issued' = issued + 1
          /\ told' = told /\ armLog' = armLog /\ myMission' = myMission
      BY <2>4 DEF SendArmCommand
    <3>2. /\ pc'[c] = "waitAck" /\ myCmd'[c] = issued + 1
          /\ \A d \in Sessions : d # c => pc'[d] = pc[d] /\ myCmd'[d] = myCmd[d]
      BY <2>4 DEF SendArmCommand
    <3>3. ASSUME NEW d \in Sessions, Attempting(d)'
          PROVE  /\ myCmd'[d] \in 1..issued'
                 /\ told'[myCmd'[d]] = Unanswered
                 /\ \A m \in MissionIds : <<m, myCmd'[d]>> \in armLog'
                      <=> pc'[d] = "reply" /\ myMission'[d] = m
      <4>1. CASE d = c
        <5>1. /\ myCmd'[d] = issued' /\ issued' \in Cmds /\ issued' > issued
              /\ pc'[d] # "reply"
          BY <3>1, <3>2, <4>1
        <5>2. /\ told[issued'] = Unanswered
              /\ \A m \in MissionIds : <<m, issued'>> \notin armLog
          BY <5>1
        <5> HIDE DEF MissionTypeOK, CommandInv, Attempting
        <5> QED BY <3>1, <5>1, <5>2
      <4>2. CASE d # c
        <5>1. Attempting(d) /\ pc'[d] = pc[d] /\ myCmd'[d] = myCmd[d]
          BY <3>2, <3>3, <4>2
        <5>2. /\ myCmd[d] \in 1..issued /\ told[myCmd[d]] = Unanswered
              /\ \A m \in MissionIds : <<m, myCmd[d]>> \in armLog
                   <=> pc[d] = "reply" /\ myMission[d] = m
          BY <5>1
        <5>3. myCmd[d] \in 1..issued' BY <3>1, <5>2
        <5> HIDE DEF MissionTypeOK, CommandInv, Attempting
        <5> QED BY <3>1, <5>1, <5>2, <5>3
      <4> QED BY <4>1, <4>2
    <3>4. ASSUME NEW d \in Sessions, NEW f \in Sessions, Attempting(d)',
                 Attempting(f)', myCmd'[d] = myCmd'[f]
          PROVE  d = f
      <4>1. \A x \in Sessions \ {c} : Attempting(x)' =>
              Attempting(x) /\ myCmd'[x] = myCmd[x] /\ myCmd[x] # issued + 1
        BY <3>2
      <4>2. CASE d = c BY <3>2, <3>4, <4>1, <4>2
      <4>3. CASE f = c BY <3>2, <3>4, <4>1, <4>3
      <4>4. CASE d # c /\ f # c
        <5>1. /\ Attempting(d) /\ Attempting(f) /\ myCmd[d] = myCmd[f]
          BY <3>4, <4>1, <4>4
        <5> QED BY <5>1
      <4> QED BY <4>2, <4>3, <4>4
    <3>5. \A k \in Cmds : k > issued' =>
            told'[k] = Unanswered /\ \A m \in MissionIds : <<m, k>> \notin armLog'
      BY <3>1
    <3> QED BY <3>3, <3>4, <3>5
  <2>5. CASE AttemptEnds(c)
    <3> USE DEF MissionTypeOK, CommandInv, Attempting, Goto
    <3>1. UNCHANGED <<issued, told, armLog, myMission, myCmd>>
      BY <2>5 DEF AttemptEnds
    <3>2. \A d \in Sessions : /\ Attempting(d)' <=> Attempting(d)
                              /\ pc'[d] = "reply" <=> pc[d] = "reply"
      BY <2>5 DEF AttemptEnds
    <3> HIDE DEF Attempting
    <3> QED BY <3>1, <3>2
  <2>6. CASE LogArm(c)
    <3> USE DEF MissionTypeOK, CommandInv, Attempting, Goto
    <3>1. UNCHANGED <<issued, told, myCmd>> BY <2>6 DEF LogArm
    <3>2. \A d \in Sessions : /\ Attempting(d)' <=> Attempting(d)
                              /\ d # c => /\ pc'[d] = pc[d]
                                          /\ myMission'[d] = myMission[d]
      BY <2>6 DEF LogArm
    <3>3. /\ pc[c] = "log" /\ pc'[c] = "reply" /\ myMission'[c] = current
          /\ myCmd[c] \in 1..issued
      BY <2>6 DEF LogArm
    <3>4. \A m \in MissionIds, k \in Cmds : <<m, k>> \in armLog'
            <=> <<m, k>> \in armLog \/ (m = current /\ k = myCmd[c])
      <4> HIDE DEF MissionTypeOK, CommandInv, Attempting
      <4>1. CASE current = None BY <2>6, <4>1 DEF LogArm
      <4>2. CASE current # None BY <2>6, <4>2 DEF LogArm, InsertArmLog
      <4> QED BY <4>1, <4>2
    <3>5. ASSUME NEW d \in Sessions, Attempting(d)', NEW m \in MissionIds
          PROVE  <<m, myCmd'[d]>> \in armLog'
                   <=> pc'[d] = "reply" /\ myMission'[d] = m
      <4>1. Attempting(d) /\ myCmd'[d] = myCmd[d] /\ myCmd[d] \in Cmds
        BY <3>1, <3>2, <3>5
      <4>2. CASE d = c BY <3>3, <3>4, <4>1, <4>2
      <4>3. CASE d # c
        <5>1. myCmd[d] # myCmd[c] BY <3>3, <4>1, <4>3
        <5>2. <<m, myCmd[d]>> \in armLog <=> pc[d] = "reply" /\ myMission[d] = m
          BY <4>1
        <5>3. pc'[d] = pc[d] /\ myMission'[d] = myMission[d] BY <3>2, <4>3
        <5> HIDE DEF MissionTypeOK, CommandInv, Attempting
        <5> QED BY <3>4, <4>1, <5>1, <5>2, <5>3
      <4> QED BY <4>2, <4>3
    <3>6. ASSUME NEW k \in Cmds, k > issued, NEW m \in MissionIds
          PROVE  <<m, k>> \notin armLog'
      BY <3>3, <3>4, <3>6
    <3>7. \A d \in Sessions : Attempting(d)' =>
            myCmd'[d] \in 1..issued' /\ told'[myCmd'[d]] = Unanswered
      <4> HIDE DEF Attempting, MissionTypeOK
      <4> QED BY <3>1, <3>2
    <3>8. \A d, f \in Sessions :
            Attempting(d)' /\ Attempting(f)' /\ myCmd'[d] = myCmd'[f] => d = f
      <4> HIDE DEF Attempting, MissionTypeOK
      <4> QED BY <3>1, <3>2
    <3> HIDE DEF Attempting, MissionTypeOK
    <3> QED BY <3>1, <3>5, <3>6, <3>7, <3>8
  <2>7. CASE LogArmFails(c)
    <3>1. Attempting(c) BY <2>7 DEF LogArmFails, Attempting
    <3> QED BY <2>7, <3>1, CommandAnswered DEF LogArmFails
  <2>8. CASE ReplyArmResult(c)
    <3>1. Attempting(c) BY <2>8 DEF ReplyArmResult, Attempting
    <3>2. \A d \in Sessions : d # c => myMission'[d] = myMission[d]
      BY <2>1, <2>8 DEF ReplyArmResult
    <3> QED BY <2>8, <3>1, <3>2, CommandAnswered DEF ReplyArmResult
  <2> QED BY <1>1, <2>2, <2>3, <2>4, <2>5, <2>6, <2>7, <2>8 DEF SessionStep
<1>2. CASE ReceiveAgv BY <1>2 DEF ReceiveAgv
<1>3. CASE LogAgv BY <1>3 DEF LogAgv
<1>4. CASE Restart BY <1>4 DEF Restart
<1>5. CASE UNCHANGED vars BY <1>5 DEF vars
<1> QED BY <1>1, <1>2, <1>3, <1>4, <1>5 DEF Next

\* A command is answered as its row says.
LEMMA ReportAnswer ==
  ASSUME MissionTypeOK, ReportedMatchesRow, armLog' = armLog, NEW k \in Cmds, NEW v,
         told' = [told EXCEPT ![k] = v],
         \A m \in MissionIds : <<m, k>> \in armLog <=> v = m
  PROVE  ReportedMatchesRow'
<1>1. told \in [Cmds -> MissionIds \cup {None, Unanswered, Failed}] BY DEF MissionTypeOK
<1>2. \A j \in Cmds : told'[j] = IF j = k THEN v ELSE told[j] BY <1>1
<1> QED BY <1>2 DEF ReportedMatchesRow

\* The answer to a command is given after its row was written or not, and
\* nothing is written for it afterwards.
LEMMA ReportStep ==
  ASSUME MissionTypeOK, CommandInv, ReportedMatchesRow, [Next]_vars
  PROVE  ReportedMatchesRow'
<1> USE MissionBounds
    DEF MissionTypeOK, ReportedMatchesRow, Cmds, MissionIds, None,
        Unanswered, Failed, Goto, memoryVars, databaseVars, historyVars,
        countVars
<1>1. ASSUME NEW c \in Sessions, SessionStep(c) PROVE ReportedMatchesRow'
  <2>1. CASE UNCHANGED <<told, armLog>> BY <2>1
  <2>2. CASE ArmNotConnected(c)
    <3>1. issued + 1 \in Cmds /\ issued \in Nat BY <2>2 DEF ArmNotConnected
    <3>2. \A m \in MissionIds : <<m, issued + 1>> \notin armLog
      BY <3>1 DEF CommandInv
    <3>3. \A m \in MissionIds : m # None OBVIOUS
    <3>4. told' = [told EXCEPT ![issued + 1] = None] /\ armLog' = armLog
      BY <2>2 DEF ArmNotConnected
    <3> HIDE DEF MissionTypeOK, ReportedMatchesRow, None
    <3>5. PICK k \in Cmds : k = issued + 1 BY <3>1
    <3>6. /\ told' = [told EXCEPT ![k] = None] /\ armLog' = armLog
          /\ \A m \in MissionIds : <<m, k>> \in armLog <=> None = m
      BY <3>2, <3>3, <3>4, <3>5
    <3> QED BY <3>6, ReportAnswer
  <2>3. ASSUME Attempting(c)
        PROVE  /\ myCmd[c] \in Cmds /\ told[myCmd[c]] = Unanswered
               /\ \A m \in MissionIds : <<m, myCmd[c]>> \in armLog
                    <=> pc[c] = "reply" /\ myMission[c] = m
    BY <2>3 DEF CommandInv
  <2>4. CASE LogArm(c)
    <3>1. told[myCmd[c]] = Unanswered BY <2>3, <2>4 DEF LogArm, Attempting
    <3>2. told' = told /\ \A m \in MissionIds, k \in Cmds :
            k # myCmd[c] => (<<m, k>> \in armLog' <=> <<m, k>> \in armLog)
      BY <2>4 DEF LogArm, InsertArmLog
    <3> HIDE DEF MissionTypeOK, Unanswered
    <3> QED BY <3>1, <3>2
  <2>5. CASE LogArmFails(c)
    <3>1. /\ Attempting(c) /\ pc[c] # "reply" /\ armLog' = armLog
          /\ told' = [told EXCEPT ![myCmd[c]] = Failed]
      BY <2>5 DEF LogArmFails, Attempting
    <3>2. \A m \in MissionIds : m # Failed OBVIOUS
    <3> HIDE DEF MissionTypeOK, ReportedMatchesRow, Failed
    <3>3. \A m \in MissionIds : <<m, myCmd[c]>> \in armLog <=> Failed = m
      BY <2>3, <3>1, <3>2
    <3> QED BY <2>3, <3>1, <3>3, ReportAnswer
  <2>6. CASE ReplyArmResult(c)
    <3>1. /\ Attempting(c) /\ pc[c] = "reply" /\ armLog' = armLog
          /\ told' = [told EXCEPT ![myCmd[c]] = myMission[c]]
      BY <2>6 DEF ReplyArmResult, Attempting
    <3> HIDE DEF MissionTypeOK, ReportedMatchesRow
    <3> QED BY <2>3, <3>1, ReportAnswer
  <2> QED BY <1>1, <2>1, <2>2, <2>4, <2>5, <2>6 DEF SessionStep,
       CreateMission, AssignCurrent, EndMission, ClearCurrent,
       SendArmCommand, AttemptEnds
<1>2. CASE ReceiveAgv BY <1>2 DEF ReceiveAgv
<1>3. CASE LogAgv BY <1>3 DEF LogAgv
<1>4. CASE Restart BY <1>4 DEF Restart
<1>5. CASE UNCHANGED vars BY <1>5 DEF vars
<1> QED BY <1>1, <1>2, <1>3, <1>4, <1>5 DEF Next

\* The invariant is inductive.
LEMMA InvStep == MInv /\ [Next]_vars => MInv'
<1> SUFFICES ASSUME MInv, [Next]_vars PROVE MInv'
  OBVIOUS
<1> USE DEF MInv
<1>1. MissionTypeOK' BY TypeStep
<1>2. LockInv' /\ CurrentInv' BY LockStep, CurrentStep
<1>3. RowsInv' /\ OpenRowsExplained' BY RowsStep, OpenStep
<1>4. CommandInv' /\ FrameInv' BY CommandStep, FrameStep
<1>5. ReportedMatchesRow' BY ReportStep
<1> QED BY <1>1, <1>2, <1>3, <1>4, <1>5

\* The invariant holds in every reachable state.
THEOREM MissionsInvariance == Spec => []MInv
<1>1. Init => MInv BY InvInit
<1>2. MInv /\ [Next]_vars => MInv' BY InvStep
<1> QED BY <1>1, <1>2, PTL DEF Spec

\* Every variable keeps its type: a log row refers to a mission of the table.
THEOREM MissionTypeHolds == Spec => []MissionTypeOK
<1>1. MInv => MissionTypeOK BY DEF MInv
<1> QED BY <1>1, MissionsInvariance, PTL

\* No failed statement, race of two sessions or restart leaves an open row
\* that is neither current, nor about to be, nor known to be orphaned.
THEOREM OpenRowsExplainedHolds == Spec => []OpenRowsExplained
<1>1. MInv => OpenRowsExplained BY DEF MInv
<1> QED BY <1>1, MissionsInvariance, PTL

\* arm_result never says more or less about logging than the database holds.
THEOREM ReportedMatchesRowHolds == Spec => []ReportedMatchesRow
<1>1. MInv => ReportedMatchesRow BY DEF MInv
<1> QED BY <1>1, MissionsInvariance, PTL

-----------------------------------------------------------------------------
(* Missions implements MissionLedger. *)

\* At most one mission is active: the current one, or the one that a thread
\* under the lock is about to make current.
LEMMA OneActive ==
  ASSUME MInv, NEW m \in MissionIds, NEW n \in MissionIds,
         MissionStatus[m] = "active", MissionStatus[n] = "active"
  PROVE  m = n
<1>1. rows[m] = "open" /\ m \notin orphaned
  BY DEF MInv, MissionTypeOK, MissionStatus
<1>2. rows[n] = "open" /\ n \notin orphaned
  BY DEF MInv, MissionTypeOK, MissionStatus
<1>3. m # None /\ n # None BY DEF MissionIds, None
<1> QED BY <1>1, <1>2, <1>3 DEF MInv, OpenRowsExplained, LockInv

\* The commit of a mission's row starts it.
LEMMA CreateStarts ==
  ASSUME MInv, NEW c \in Sessions, CreateMission(c)
  PROVE  \E m \in MissionIds : Ledger!Start(m)
<1>1. created + 1 \in MissionIds
  BY MissionBounds DEF CreateMission, MissionIds, MInv, MissionTypeOK
<1>2. rows[created + 1] = "absent" /\ created + 1 \notin orphaned
  BY <1>1, MissionBounds DEF MInv, RowsInv, MissionTypeOK, MissionIds
<1>3. \A n \in MissionIds : rows[n] = "open" => n \in orphaned
  BY NoSessionAssumption
     DEF MInv, OpenRowsExplained, LockInv, CreateMission, MissionIds, None
<1>4. rows' = [rows EXCEPT ![created + 1] = "open"] /\ UNCHANGED orphaned
  BY DEF CreateMission, InsertMission, historyVars
<1>5. MissionStatus' = [MissionStatus EXCEPT ![created + 1] = "active"]
  BY <1>1, <1>2, <1>4 DEF MissionStatus, MInv, MissionTypeOK
<1>6. MissionStatus[created + 1] = "absent"
  BY <1>1, <1>2 DEF MissionStatus
<1>7. \A n \in MissionIds : MissionStatus[n] # "active"
  BY <1>3 DEF MissionStatus, MInv, MissionTypeOK
<1>8. UNCHANGED LoggedEntries BY DEF CreateMission, LoggedEntries
<1> QED BY <1>1, <1>5, <1>6, <1>7, <1>8 DEF Ledger!Start, Ledger!IsActive

\* The commit of its end ends it.
LEMMA EndEnds ==
  ASSUME MInv, NEW c \in Sessions, EndMission(c)
  PROVE  \E m \in MissionIds : Ledger!End(m)
<1>1. current \in MissionIds /\ rows[current] = "open" /\ current \notin orphaned
  BY DEF EndMission, UpdateMission, MInv, MissionTypeOK, CurrentInv,
         MissionIds, None
<1>2. rows' = [rows EXCEPT ![current] = "ended"] /\ UNCHANGED orphaned
  BY DEF EndMission, UpdateMission, historyVars
<1>3. MissionStatus' = [MissionStatus EXCEPT ![current] = "ended"]
  BY <1>1, <1>2 DEF MissionStatus, MInv, MissionTypeOK
<1>4. MissionStatus[current] = "active" BY <1>1 DEF MissionStatus
<1>5. UNCHANGED LoggedEntries BY DEF EndMission, LoggedEntries
<1> QED BY <1>1, <1>3, <1>4, <1>5 DEF Ledger!End, Ledger!IsActive

\* Without the lock held, the current mission is active.
LEMMA CurrentActive ==
  ASSUME MInv, lock = NoSession, current # None
  PROVE  current \in MissionIds /\ MissionStatus[current] = "active"
<1>1. current \in MissionIds
  BY DEF MInv, MissionTypeOK, MissionIds, None
<1>2. rows[current] = "open" /\ current \notin orphaned
  BY NoSessionAssumption DEF MInv, LockInv, CurrentInv
<1> QED BY <1>1, <1>2 DEF MissionStatus

\* log_arm_if_active records the command once, for the active mission.
LEMMA LogArmRecords ==
  ASSUME MInv, NEW c \in Sessions, LogArm(c), current # None
  PROVE  \E m \in MissionIds :
           \E entry \in {"arm"} \X Cmds \cup {"agv"} \X Events :
             Ledger!Record(m, entry)
<1> DEFINE entry == <<"arm", myCmd[c]>>
<1>1. current \in MissionIds /\ MissionStatus[current] = "active"
  BY CurrentActive DEF LogArm
<1>2. myCmd[c] \in Cmds
  BY MissionBounds DEF LogArm, MInv, MissionTypeOK, CommandInv, Attempting, Cmds
<1>3. \A n \in MissionIds : <<n, myCmd[c]>> \notin armLog
  BY DEF LogArm, MInv, CommandInv, Attempting
<1>4. \A n \in MissionIds : <<n, entry>> \notin LoggedEntries
  BY <1>3 DEF LoggedEntries, EntriesOf, MInv, MissionTypeOK
<1>5. armLog' = armLog \cup {<<current, myCmd[c]>>} /\ UNCHANGED agvLog
  BY DEF LogArm, InsertArmLog
<1>6. \A e : e \in EntriesOf("arm", armLog') <=>
              e \in EntriesOf("arm", armLog) \/ e = <<current, entry>>
  <2> DEFINE entryOf(row) == <<row[1], <<"arm", row[2]>>>>
             new == <<current, myCmd[c]>>
  <2>1. entryOf(new) = <<current, entry>> OBVIOUS
  <2>2. \A e : (\E row \in armLog' : e = entryOf(row)) <=>
          (\E row \in armLog : e = entryOf(row)) \/ e = entryOf(new)
    <3> HIDE DEF entryOf
    <3> QED BY <1>5
  <2>3. \A e : e \in EntriesOf("arm", armLog') <=>
          \E row \in armLog' : e = entryOf(row)
    BY DEF EntriesOf
  <2>4. \A e : e \in EntriesOf("arm", armLog) <=>
          \E row \in armLog : e = entryOf(row)
    BY DEF EntriesOf
  <2> HIDE DEF entryOf, new, entry
  <2> QED BY <2>1, <2>2, <2>3, <2>4
<1>7. LoggedEntries' = LoggedEntries \cup {<<current, entry>>}
  <2> HIDE DEF entry
  <2> QED BY <1>5, <1>6, Zenon DEF LoggedEntries
<1>8. UNCHANGED MissionStatus BY DEF LogArm, historyVars, MissionStatus
<1> QED BY <1>1, <1>2, <1>4, <1>7, <1>8 DEF Ledger!Record, Ledger!IsActive

\* log_agv_if_active records the frame once, for the active mission, or not.
LEMMA LogAgvRecords ==
  ASSUME MInv, LogAgv, agvLog' # agvLog
  PROVE  \E m \in MissionIds :
           \E entry \in {"arm"} \X Cmds \cup {"agv"} \X Events :
             Ledger!Record(m, entry)
<1> DEFINE entry == <<"agv", heard>>
<1>1. current \in MissionIds /\ MissionStatus[current] = "active"
  BY CurrentActive DEF LogAgv
<1>2. heard \in Events BY DEF LogAgv, MInv, FrameInv
<1>3. \A n \in MissionIds : <<n, heard>> \notin agvLog
  BY <1>2 DEF LogAgv, MInv, FrameInv
<1>4. \A n \in MissionIds : <<n, entry>> \notin LoggedEntries
  BY <1>3 DEF LoggedEntries, EntriesOf, MInv, MissionTypeOK
<1>5. agvLog' = agvLog \cup {<<current, heard>>} /\ UNCHANGED armLog
  BY DEF LogAgv, InsertAgvLog
<1>6. \A e : e \in EntriesOf("agv", agvLog') <=>
              e \in EntriesOf("agv", agvLog) \/ e = <<current, entry>>
  <2> DEFINE entryOf(row) == <<row[1], <<"agv", row[2]>>>>
             new == <<current, heard>>
  <2>1. entryOf(new) = <<current, entry>> OBVIOUS
  <2>2. \A e : (\E row \in agvLog' : e = entryOf(row)) <=>
          (\E row \in agvLog : e = entryOf(row)) \/ e = entryOf(new)
    <3> HIDE DEF entryOf
    <3> QED BY <1>5
  <2>3. \A e : e \in EntriesOf("agv", agvLog') <=>
          \E row \in agvLog' : e = entryOf(row)
    BY DEF EntriesOf
  <2>4. \A e : e \in EntriesOf("agv", agvLog) <=>
          \E row \in agvLog : e = entryOf(row)
    BY DEF EntriesOf
  <2> HIDE DEF entryOf, new, entry
  <2> QED BY <2>1, <2>2, <2>3, <2>4
<1>7. LoggedEntries' = LoggedEntries \cup {<<current, entry>>}
  <2> HIDE DEF entry
  <2> QED BY <1>5, <1>6, Zenon DEF LoggedEntries
<1>8. UNCHANGED MissionStatus BY DEF LogAgv, historyVars, MissionStatus
<1> QED BY <1>1, <1>2, <1>4, <1>7, <1>8 DEF Ledger!Record, Ledger!IsActive

\* A restart abandons the active mission, if there is one.
LEMMA RestartAbandons ==
  ASSUME MInv, Restart
  PROVE  \/ \E m \in MissionIds : Ledger!Abandon(m)
         \/ UNCHANGED <<MissionStatus, LoggedEntries>>
<1>1. /\ UNCHANGED rows
      /\ orphaned' = orphaned \cup {m \in MissionIds : rows[m] = "open"}
  BY DEF Restart, databaseVars
<1>2. UNCHANGED LoggedEntries BY DEF Restart, databaseVars, LoggedEntries
<1>3. \A n \in MissionIds : MissionStatus'[n] =
        IF MissionStatus[n] = "active" THEN "abandoned" ELSE MissionStatus[n]
  BY <1>1 DEF MissionStatus, MInv, MissionTypeOK
<1>4. CASE \E m \in MissionIds : MissionStatus[m] = "active"
  <2>1. PICK m \in MissionIds : MissionStatus[m] = "active" BY <1>4
  <2>2. \A n \in MissionIds : n # m => MissionStatus[n] # "active"
    BY <2>1, OneActive
  <2>3. MissionStatus' = [MissionStatus EXCEPT ![m] = "abandoned"]
    BY <1>3, <2>1, <2>2 DEF MissionStatus
  <2> QED BY <1>2, <2>1, <2>3 DEF Ledger!Abandon, Ledger!IsActive
<1>5. CASE \A m \in MissionIds : MissionStatus[m] # "active"
  <2>1. MissionStatus' = MissionStatus BY <1>3, <1>5 DEF MissionStatus
  <2> QED BY <1>2, <2>1
<1> QED BY <1>4, <1>5

\* The first state is the ledger's, and every step is one of the ledger's or
\* none at all.
THEOREM ImplementsLedgerHolds == Spec => ImplementsLedger
<1>1. Init => Ledger!Init
  BY DEF Init, Ledger!Init, MissionStatus, LoggedEntries, EntriesOf
<1>2. MInv /\ [Next]_vars => [Ledger!Next]_<<MissionStatus, LoggedEntries>>
  <2> SUFFICES ASSUME MInv, [Next]_vars
               PROVE  Ledger!Next \/ UNCHANGED <<MissionStatus, LoggedEntries>>
    OBVIOUS
  <2> USE DEF databaseVars, historyVars
  <2>1. CASE UNCHANGED <<rows, orphaned, armLog, agvLog>>
    BY <2>1 DEF MissionStatus, LoggedEntries
  <2>2. ASSUME NEW c \in Sessions, CreateMission(c) PROVE Ledger!Next
    BY <2>2, CreateStarts DEF Ledger!Next
  <2>3. ASSUME NEW c \in Sessions, EndMission(c) PROVE Ledger!Next
    BY <2>3, EndEnds DEF Ledger!Next
  <2>4. ASSUME NEW c \in Sessions, LogArm(c), current # None PROVE Ledger!Next
    BY <2>4, LogArmRecords DEF Ledger!Next
  <2>5. ASSUME LogAgv, agvLog' # agvLog PROVE Ledger!Next
    BY <2>5, LogAgvRecords DEF Ledger!Next
  <2>6. CASE Restart BY <2>6, RestartAbandons DEF Ledger!Next
  <2>7. ASSUME NEW c \in Sessions, SessionStep(c)
        PROVE  \/ CreateMission(c) \/ EndMission(c)
               \/ LogArm(c) /\ current # None
               \/ UNCHANGED <<rows, orphaned, armLog, agvLog>>
    BY <2>7 DEF SessionStep, AssignCurrent, ClearCurrent, ArmNotConnected,
       SendArmCommand, AttemptEnds, LogArm, LogArmFails, ReplyArmResult
  <2>8. CASE LogAgv BY <2>1, <2>5, <2>8 DEF LogAgv
  <2>9. CASE ReceiveAgv \/ UNCHANGED vars BY <2>1, <2>9 DEF ReceiveAgv, vars
  <2> QED BY <2>1, <2>2, <2>3, <2>4, <2>6, <2>7, <2>8, <2>9 DEF Next
<1> QED BY <1>1, <1>2, MissionsInvariance, PTL
           DEF Spec, ImplementsLedger, Ledger!Spec
=============================================================================
