---------------------------- MODULE AgvDriveInv ----------------------------
(***************************************************************************)
(* The inductive invariant of AgvDrive: its invariants as the run checks   *)
(* them, and what they rest on.                                            *)
(***************************************************************************)
EXTENDS AgvDrive

WheelRecord ==
  [dir : -1..1, rpm : Nat, cur : 0..255, duty : 0..255, power : -255..255, stopped : BOOLEAN,
   pulse : BOOLEAN, pulseAge : 0..PulseTicks, still : BOOLEAN, stillAge : 0..StopTicks]
Policies == {"STRAIGHT", "LEFT", "RIGHT", "LEFT_SOFT", "RIGHT_SOFT"}
DriveStates == {"", "STOP", "TRACING", "OBSTACLE", "FORCEDRUN", "EMERGENCYSTOPPED"}

\* Every variable has its type.
AgvTypeOK ==
  /\ input \in Seq([cmd : Commands, n : Nat]) /\ overflow \in BOOLEAN
  /\ count \in 0..MaxCommands /\ stoppedAt \in Nat
  /\ mode \in {-1, 0, 1, 2} /\ drivestate \in DriveStates
  /\ onobstacle \in BOOLEAN /\ rangeAge \in 0..RangeTicks /\ near \in BOOLEAN
  /\ tracePolicy \in Policies /\ lastIOL \subseteq {"left", "center", "right"}
  /\ seen \subseteq {"left", "center", "right"}
  /\ softAge \in 0..SharpTicks
  /\ wheel \in [Wheels -> WheelRecord]

\* Modes that leave the drive state alone have set it; in tracing it is set again.
ModeInv ==
  /\ mode = -1 => drivestate = "EMERGENCYSTOPPED"
  /\ mode = 2 => drivestate = "FORCEDRUN"

\* The line policy's last sample is the last one in which the line was seen, or had no line.
SeenInv == lastIOL # {} => seen = lastIOL

\* The commands in the input buffer came after the last emergency stop was carried out.
InputInv ==
  /\ stoppedAt <= count
  /\ \A i \in 1..Len(input) : input[i].n > stoppedAt

\* No pulse, ramp or target is left where a wheel must not move or only slow down.
StandsStill(w) == w.dir = 0 /\ w.cur = 0 /\ w.duty = 0 /\ ~w.pulse /\ w.power = 0
StillInv ==
  /\ drivestate \in {"EMERGENCYSTOPPED", "OBSTACLE"} => \A i \in Wheels : StandsStill(wheel[i])
  /\ drivestate = "STOP" => \A i \in Wheels : wheel[i].dir = 0 /\ ~wheel[i].pulse

AInv ==
  /\ AgvTypeOK /\ NoPowerAtStop /\ FlagCoversObstacle /\ HardlyBackwards
  /\ TurnsToLine /\ SeenInv /\ ModeInv /\ InputInv /\ StillInv
=============================================================================
