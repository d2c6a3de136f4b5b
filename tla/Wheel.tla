------------------------------- MODULE Wheel -------------------------------
(***************************************************************************)
(* One wheel of the AGV (ino/modules/Wheel.h) as a record and its          *)
(* operations as operators on it.  The PID arithmetic may ask for any duty *)
(* (Follow gets it as an argument) and the encoder may estimate any speed  *)
(* (UpdateRPM); the startup pulse, the detection of standstill, the ramps  *)
(* and the direction are as in the code.  Of the target speed the record   *)
(* has the direction only, 0 when the speed is 0: its size goes into the   *)
(* PID arithmetic alone.  Times are ages in ticks, counted by Older and    *)
(* compared with the two constants.                                        *)
(***************************************************************************)
EXTENDS Integers

CONSTANTS
  PulseTicks,   \* startupPulseMs
  StopTicks     \* fullStopWaitMs

ASSUME WheelTicks == PulseTicks \in Nat \ {0} /\ StopTicks \in Nat \ {0}

StartupDuty == 100
RunningMinimumDuty == 40
RampUpRate == 15
RampDownRate == 75
StopRPM == 1
DirEst == 1         \* dir_est, which nothing assigns

NewWheel ==
  [dir |-> 0, rpm |-> 0, cur |-> 0, duty |-> 0, power |-> 0, stopped |-> TRUE,
   pulse |-> FALSE, pulseAge |-> 0, still |-> FALSE, stillAge |-> 0]

Least(a, b) == IF a < b THEN a ELSE b

\* Mutant: a target of 0 leaves a startup pulse running.
SetTargetKeepingPulse(w, rpm) ==
  IF rpm > 0 /\ w.dir = 0 /\ w.stopped
    THEN [w EXCEPT !.dir = 1, !.pulse = TRUE, !.pulseAge = 0,
                   !.stopped = FALSE, !.still = FALSE, !.duty = 0]
  ELSE IF rpm > 0 THEN [w EXCEPT !.dir = 1]
  ELSE IF rpm < 0 THEN [w EXCEPT !.dir = -1]
  ELSE [w EXCEPT !.dir = 0]

\* setTargetRPM; the first clause is the start from standstill.
SetTarget(w, rpm) ==
  IF rpm > 0 /\ w.dir = 0 /\ w.stopped
    THEN [w EXCEPT !.dir = 1, !.pulse = TRUE, !.pulseAge = 0,
                   !.stopped = FALSE, !.still = FALSE, !.duty = 0]
  ELSE IF rpm > 0 THEN [w EXCEPT !.dir = 1]
  ELSE IF rpm < 0 THEN [w EXCEPT !.dir = -1]
  ELSE [w EXCEPT !.dir = 0, !.pulse = FALSE]

\* stop
Halted(w) == [SetTarget(w, 0) EXCEPT !.power = 0, !.cur = 0, !.duty = 0]

\* followRPM
Follow(w, duty) ==
  IF w.pulse THEN w ELSE [w EXCEPT !.duty = IF w.dir = 0 THEN 0 ELSE duty]

\* updateRPM and updateStopState
UpdateRPM(w, rpm) ==
  IF w.pulse THEN [w EXCEPT !.rpm = rpm]
  ELSE IF rpm > StopRPM THEN [w EXCEPT !.rpm = rpm, !.still = FALSE, !.stopped = FALSE]
  ELSE IF ~w.still THEN [w EXCEPT !.rpm = rpm, !.still = TRUE, !.stillAge = 0]
  ELSE [w EXCEPT !.rpm = rpm, !.stopped = @ \/ w.stillAge >= StopTicks]

Powered(w, cur, dir) == [w EXCEPT !.cur = cur, !.power = cur * dir]

Ramped(cur, duty) ==
  IF duty > cur THEN cur + Least(RampUpRate, duty - cur)
                ELSE cur - Least(RampDownRate, cur - duty)

\* Mutant: another direction than the estimated one is driven at once.
DriveAnyDirection(w) == Powered(w, Ramped(w.cur, w.duty), w.dir)

\* updateMotor after the pulse: another direction first waits for the wheel to slow down.
Drive(w) ==
  IF w.dir = DirEst THEN Powered(w, Ramped(w.cur, w.duty), w.dir)
  ELSE IF w.rpm < 5 /\ w.cur < 10 THEN Powered(w, w.cur, w.dir)
  ELSE Powered(w, w.cur - Least(RampDownRate, w.cur), DirEst)

\* updateMotor
UpdateMotor(w) ==
  IF w.pulse /\ w.pulseAge < PulseTicks THEN Powered(w, StartupDuty, w.dir)
  ELSE IF w.pulse
    THEN Drive([w EXCEPT !.pulse = FALSE, !.cur = RunningMinimumDuty,
                         !.duty = RunningMinimumDuty])
  ELSE Drive(w)

\* Time passes.
Older(w) ==
  [w EXCEPT !.pulseAge = IF w.pulse THEN Least(@ + 1, PulseTicks) ELSE 0,
            !.stillAge = IF w.still THEN Least(@ + 1, StopTicks) ELSE 0]
=============================================================================
