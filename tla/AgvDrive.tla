------------------------------ MODULE AgvDrive ------------------------------
(***************************************************************************)
(* The AGV's main loop (ino/ino.ino): serial commands framed by silence,   *)
(* the obstacle decision and the line policy (updateFast), the drive modes *)
(* with the wheel control (updateCon, updateFine).  The parts of the loop  *)
(* run at their own periods, so any of them may be next.  The ranging      *)
(* state machine is the measurement it delivers, if any.                   *)
(***************************************************************************)
EXTENDS Wheel, Sequences, FiniteSets

CONSTANTS
  Wheels,        \* subset of {"left", "right"}: the wheels modelled
  Speeds,        \* arguments of SETSPEED
  Estimates,     \* RPM estimates the encoder may give
  Duties,        \* duties the PID controller may ask for
  IrStates,      \* line sensor samples: the set of sensors on the line
  RangeTicks,    \* obstacleTimeOut
  SharpTicks,    \* WaitForsharpTurn
  MaxJoined,     \* commands that fit in the input buffer
  MaxCommands    \* bound: commands sent

ASSUME DriveTicks == RangeTicks \in Nat \ {0} /\ SharpTicks \in Nat \ {0}
                     /\ MaxJoined \in Nat \ {0} /\ MaxCommands \in Nat
ASSUME DriveSets == /\ Wheels \subseteq {"left", "right"} /\ Speeds \subseteq Int
                    /\ Estimates \subseteq Nat /\ Duties \subseteq 0..255
                    /\ IrStates \subseteq SUBSET {"left", "center", "right"}

Simple == {"EMERGENCYSTOP", "LINETRACE", "STOP"}     \* SETPID sets only gains
Commands == [name : Simple, speed : {0}] \cup [name : {"SETSPEED"}, speed : Speeds]

VARIABLES
  input, overflow, count,   \* bytes since the last silence, as commands; commands sent
  mode, drivestate,         \* drivemode, drivestate
  onobstacle, rangeAge,     \* onobstacle; the age of lastRange
  tracePolicy, lastIOL, softAge,
  wheel,
  near, seen,         \* history: the last valid range was an obstacle; the last sample in
                      \* which a sensor saw the line
  stoppedAt           \* history: commands sent before the emergency stop was carried out

inputVars == <<input, overflow, count>>
rangeVars == <<onobstacle, rangeAge, near>>
traceVars == <<tracePolicy, lastIOL, softAge, seen>>
vars == <<inputVars, mode, drivestate, rangeVars, traceVars, wheel, stoppedAt>>

\* The globals, and setup().
Init ==
  /\ input = <<>> /\ overflow = FALSE /\ count = 0
  /\ mode = 1 /\ drivestate = ""
  /\ onobstacle = FALSE /\ rangeAge = 0 /\ near = FALSE
  /\ tracePolicy = "STRAIGHT" /\ lastIOL = {} /\ softAge = 0 /\ seen = {}
  /\ wheel = [i \in Wheels |-> NewWheel]
  /\ stoppedAt = 0

-----------------------------------------------------------------------------
(* getSerialCommand, doSerialCommand *)

\* A command's bytes arrive, less than a second after those before.
Receive(c) ==
  /\ count < MaxCommands /\ count' = count + 1
  /\ IF Len(input) < MaxJoined
       THEN input' = Append(input, [cmd |-> c, n |-> count + 1]) /\ UNCHANGED overflow
       ELSE overflow' = TRUE /\ UNCHANGED input
  /\ UNCHANGED <<mode, drivestate, rangeVars, traceVars, wheel, stoppedAt>>

\* What the bytes of a frame are taken for.  A command that arguments follow keeps its name
\* when another is joined to it, and its last number stops before the text.
Meaning == IF Len(input) = 1 \/ input[1].cmd.name = "SETSPEED" THEN input[1].cmd
                                                                 ELSE [name |-> "", speed |-> 0]

Effect(c) ==
  CASE c.name = "SETSPEED" ->
         /\ mode' = 2 /\ drivestate' = "FORCEDRUN"
         /\ wheel' = [i \in Wheels |-> SetTarget(wheel[i], c.speed)]
         /\ UNCHANGED stoppedAt
    [] c.name = "EMERGENCYSTOP" ->
         /\ mode' = -1 /\ drivestate' = "EMERGENCYSTOPPED" /\ stoppedAt' = count
         /\ wheel' = [i \in Wheels |-> Halted(wheel[i])]
    [] c.name = "LINETRACE" -> mode' = 1 /\ UNCHANGED <<drivestate, wheel, stoppedAt>>
    [] c.name = "STOP" -> mode' = 0 /\ UNCHANGED <<drivestate, wheel, stoppedAt>>
    [] OTHER -> UNCHANGED <<mode, drivestate, wheel, stoppedAt>>

\* Mutant: the commands of a frame are carried out one by one.
FrameEndsOneByOne ==
  /\ input # <<>> /\ input' = Tail(input) /\ overflow' = FALSE
  /\ Effect(input[1].cmd)
  /\ UNCHANGED <<count, rangeVars, traceVars>>

\* A second of silence.
FrameEnds ==
  /\ input # <<>> /\ input' = <<>> /\ overflow' = FALSE
  /\ IF overflow THEN UNCHANGED <<mode, drivestate, wheel, stoppedAt>> ELSE Effect(Meaning)
  /\ UNCHANGED <<count, rangeVars, traceVars>>

-----------------------------------------------------------------------------
(* updateFast *)

\* Mutant: a measurement without echo clears the flag.
DecideWithoutWaiting(range) ==
  /\ onobstacle' = (range = "near")
  /\ near' = IF range = "none" THEN near ELSE range = "near"
  /\ rangeAge' = IF range = "none" THEN rangeAge ELSE 0

\* The obstacle decision for a measurement: near, far, or none (no echo).
Decide(range) ==
  /\ IF range # "none"
       THEN onobstacle' = (range = "near") /\ near' = (range = "near") /\ rangeAge' = 0
       ELSE onobstacle' = (rangeAge < RangeTicks) /\ UNCHANGED <<near, rangeAge>>

Soft(side) == /\ tracePolicy' = side /\ softAge' = 0

\* Mutant: the case of one side was copied for the other.
SharpCopied == "LEFT"

Sharp == IF tracePolicy = "LEFT_SOFT" THEN "LEFT" ELSE "RIGHT"

\* updateTracePolicy
Trace(ir) ==
  /\ lastIOL' = ir /\ seen' = IF ir = {} THEN seen ELSE ir
  /\ CASE ir = lastIOL /\ "center" \notin ir /\ softAge >= SharpTicks
            /\ tracePolicy \in {"LEFT_SOFT", "RIGHT_SOFT"} ->
            tracePolicy' = Sharp /\ UNCHANGED softAge
       [] ir # lastIOL /\ "left" \in ir
            /\ tracePolicy \in {"STRAIGHT", "RIGHT", "RIGHT_SOFT"} -> Soft("LEFT_SOFT")
       [] ir # lastIOL /\ "right" \in ir
            /\ \/ tracePolicy = "STRAIGHT" /\ "left" \notin ir
               \/ tracePolicy \in {"LEFT", "LEFT_SOFT"} /\ "center" \notin ir ->
            Soft("RIGHT_SOFT")
       [] ir # lastIOL /\ "center" \in ir
            /\ \/ tracePolicy \in {"LEFT", "LEFT_SOFT"}
               \/ tracePolicy \in {"RIGHT", "RIGHT_SOFT"} /\ "left" \notin ir ->
            tracePolicy' = "STRAIGHT" /\ UNCHANGED softAge
       [] OTHER -> UNCHANGED <<tracePolicy, softAge>>

Fast(ir, range) ==
  /\ Decide(range) /\ Trace(ir)
  /\ UNCHANGED <<inputVars, mode, drivestate, wheel, stoppedAt>>

\* No measurement is ready.
FastWithoutRange(ir) ==
  /\ Trace(ir)
  /\ UNCHANGED <<inputVars, mode, drivestate, rangeVars, wheel, stoppedAt>>

-----------------------------------------------------------------------------
(* updateCon, updateFine, updateSerial *)

Target(side) ==
  CASE tracePolicy = "STRAIGHT" -> 90
    [] tracePolicy = "LEFT" -> (IF side = "left" THEN 0 ELSE 60)
    [] tracePolicy = "RIGHT" -> (IF side = "left" THEN 60 ELSE 0)
    [] tracePolicy = "LEFT_SOFT" -> (IF side = "left" THEN 10 ELSE 90)
    [] tracePolicy = "RIGHT_SOFT" -> (IF side = "left" THEN 90 ELSE 10)

\* Mutant: at an obstacle only the target is set to 0.
DrivenRollingOut(i) ==
  CASE mode = 0 \/ (mode = 1 /\ onobstacle) -> SetTarget(wheel[i], 0)
    [] mode = 1 /\ ~onobstacle -> SetTarget(wheel[i], Target(i))
    [] OTHER -> wheel[i]

\* drive() and lineTrace() for one wheel
Driven(i) ==
  CASE mode = 0 -> SetTarget(wheel[i], 0)
    [] mode = 1 /\ onobstacle -> Halted(wheel[i])
    [] mode = 1 /\ ~onobstacle -> SetTarget(wheel[i], Target(i))
    [] OTHER -> wheel[i]

DriveState ==
  CASE mode = 0 -> "STOP"
    [] mode = 1 -> (IF onobstacle THEN "OBSTACLE" ELSE "TRACING")
    [] OTHER -> drivestate

Con(rpm, duty) ==
  /\ drivestate' = DriveState
  /\ wheel' = [i \in Wheels |-> Follow(UpdateRPM(Driven(i), rpm), duty)]
  /\ UNCHANGED <<inputVars, mode, rangeVars, traceVars, stoppedAt>>

Fine ==
  /\ wheel' = [i \in Wheels |-> UpdateMotor(wheel[i])]
  /\ UNCHANGED <<inputVars, mode, drivestate, rangeVars, traceVars, stoppedAt>>

Tick ==
  /\ rangeAge' = Least(rangeAge + 1, RangeTicks) /\ softAge' = Least(softAge + 1, SharpTicks)
  /\ wheel' = [i \in Wheels |-> Older(wheel[i])]
  /\ UNCHANGED <<inputVars, mode, drivestate, onobstacle, near, tracePolicy, lastIOL, seen,
                 stoppedAt>>

-----------------------------------------------------------------------------
ConStep == \E rpm \in Estimates, duty \in Duties : Con(rpm, duty)

Next ==
  \/ FrameEnds \/ ConStep \/ Fine \/ Tick
  \/ \E c \in Commands : Receive(c)
  \/ \E ir \in IrStates :
       FastWithoutRange(ir) \/ \E range \in {"near", "far", "none"} : Fast(ir, range)

Spec == Init /\ [][Next]_vars

-----------------------------------------------------------------------------
(* Properties *)

\* From an emergency stop, or a stop at an obstacle, until the next drive state no wheel gets
\* power, whatever startup pulse or ramp was going on.
NoPowerAtStop ==
  drivestate \in {"EMERGENCYSTOPPED", "OBSTACLE"} => \A i \in Wheels : wheel[i].power = 0

\* An emergency stop is left only by a command that was sent after it was carried out.
StopHolds ==
  [][mode = -1 /\ mode' # -1 => input # <<>> /\ input[1].n > stoppedAt]_vars

\* An obstacle once measured holds the flag until a free range is measured or no echo came
\* for obstacleTimeOut.
FlagCoversObstacle == near /\ ~onobstacle => rangeAge = RangeTicks

\* A wheel is driven backwards by no more than 9 of 255, whatever speed is asked for, but for
\* the rest of a startup pulse that a negative SETSPEED came into (Wheel.h 229-266).
HardlyBackwards ==
  \A i \in Wheels : wheel[i].power < -9 =>
    wheel[i].power = -StartupDuty /\ wheel[i].cur = StartupDuty

\* The policy is that of the last sample in which the line was seen: it turns to a side only if
\* that side's sensor saw it then, and goes straight only if the one in the middle did.
\* Samples without a line, repeated ones, and the time to a sharp turn never change the side.
TurnsToLine ==
  CASE tracePolicy \in {"LEFT", "LEFT_SOFT"} -> "left" \in seen
    [] tracePolicy \in {"RIGHT", "RIGHT_SOFT"} -> "right" \in seen
    [] OTHER -> seen = {} \/ "center" \in seen

\* While the state is STOP no wheel gains duty, neither from the rest of a startup pulse nor
\* from what the controller asked for before.
StopOnlyBrakes ==
  [][drivestate = "STOP" /\ drivestate' = "STOP" =>
       \A i \in Wheels : wheel'[i].cur <= wheel[i].cur]_vars
=============================================================================
