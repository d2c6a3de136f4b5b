--------------------------- MODULE MissionLedger ---------------------------
(***************************************************************************)
(* What the backend promises about missions: one at a time is active, an   *)
(* entry is made once and only for the active mission, and a mission that  *)
(* ended, or was abandoned by a restart, never changes again.              *)
(***************************************************************************)
CONSTANTS Missions, Entries

VARIABLES
  status,  \* of each mission: absent, active, ended or abandoned
  ledger   \* the entries made, each with its mission

IsActive(m) == status[m] = "active"

Init ==
  /\ status = [m \in Missions |-> "absent"]
  /\ ledger = {}

Start(m) ==
  /\ status[m] = "absent"
  /\ \A n \in Missions : ~IsActive(n)
  /\ status' = [status EXCEPT ![m] = "active"]
  /\ UNCHANGED ledger

End(m) ==
  /\ IsActive(m)
  /\ status' = [status EXCEPT ![m] = "ended"]
  /\ UNCHANGED ledger

Record(m, entry) ==
  /\ IsActive(m)
  /\ \A n \in Missions : <<n, entry>> \notin ledger
  /\ ledger' = ledger \cup {<<m, entry>>}
  /\ UNCHANGED status

Abandon(m) ==
  /\ IsActive(m)
  /\ status' = [status EXCEPT ![m] = "abandoned"]
  /\ UNCHANGED ledger

Next ==
  \E m \in Missions :
    Start(m) \/ End(m) \/ Abandon(m) \/ \E entry \in Entries : Record(m, entry)

Spec == Init /\ [][Next]_<<status, ledger>>
=============================================================================
