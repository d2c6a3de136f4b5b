---------------------------- MODULE MissionsInv ----------------------------
(***************************************************************************)
(* The inductive invariant of Missions: what MissionManager's lock, the    *)
(* locals of the threads and the rows of the database have to do with each *)
(* other between two actions.                                              *)
(***************************************************************************)
EXTENDS Missions

\* A thread between its statement and its assignment holds the lock, and has
\* its statement's effect still to assign.
LockInv ==
  \A c \in Sessions :
    /\ pc[c] \in {"assign", "clear"} => lock = c
    /\ pc[c] = "assign" => /\ current = None
                           /\ myMission[c] \in MissionIds \ orphaned
                           /\ rows[myMission[c]] = "open"
    /\ pc[c] = "clear" => current # None /\ rows[current] = "ended"

\* The current mission is of this process, and open until it is being ended.
CurrentInv ==
  current # None =>
    /\ current \notin orphaned
    /\ rows[current] = "open" \/ \E c \in Sessions : pc[c] = "clear"

\* Numbers are given out in order, and an orphaned mission stays open.
RowsInv ==
  \A m \in MissionIds :
    /\ m > created => rows[m] = "absent"
    /\ m \in orphaned => rows[m] = "open"

Attempting(c) == pc[c] \in {"waitAck", "log", "reply"}

\* A command belongs to one thread, which has not answered it; it has no row
\* before log_arm_if_active, and the row it says it has afterwards.
CommandInv ==
  /\ \A c \in Sessions : Attempting(c) =>
       /\ myCmd[c] \in 1..issued
       /\ told[myCmd[c]] = Unanswered
       /\ \A m \in MissionIds :
            <<m, myCmd[c]>> \in armLog <=> pc[c] = "reply" /\ myMission[c] = m
  /\ \A c, d \in Sessions :
       Attempting(c) /\ Attempting(d) /\ myCmd[c] = myCmd[d] => c = d
  /\ \A k \in Cmds : k > issued =>
       told[k] = Unanswered /\ \A m \in MissionIds : <<m, k>> \notin armLog

\* The frame being logged has no row yet, nor has one that was not received.
FrameInv ==
  /\ rpc = "log" => heard \in Events
  /\ \A n \in Events : n > heard \/ (n = heard /\ rpc = "log") =>
       \A m \in MissionIds : <<m, n>> \notin agvLog

\* Why the rows follow the ledger in MissionManager and DatabaseManager: the
\* lock ties the current mission to the one open row of this process, and a
\* command or frame has one thread that writes it once.
MInv ==
  /\ MissionTypeOK /\ LockInv /\ CurrentInv /\ RowsInv
  /\ CommandInv /\ FrameInv /\ OpenRowsExplained /\ ReportedMatchesRow
=============================================================================
