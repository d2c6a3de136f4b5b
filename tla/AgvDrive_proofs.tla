--------------------------- MODULE AgvDrive_proofs ---------------------------
(***************************************************************************)
(* AgvDrive keeps its invariants, for any wheels, speeds, estimates,       *)
(* duties, line samples, time constants and number of commands.            *)
(***************************************************************************)
EXTENDS AgvDriveInv, TLAPS

-----------------------------------------------------------------------------
(* Wheels *)

HardlyBack(w) == w.power < -9 => w.power = -StartupDuty /\ w.cur = StartupDuty

\* A wheel with one field changed is a wheel.
LEMMA OneField ==
  ASSUME NEW w \in WheelRecord
  PROVE  /\ \A x \in -1..1 : [w EXCEPT !.dir = x] \in WheelRecord
         /\ \A x \in Nat : [w EXCEPT !.rpm = x] \in WheelRecord
         /\ \A x \in 0..255 : [w EXCEPT !.cur = x] \in WheelRecord
         /\ \A x \in 0..255 : [w EXCEPT !.duty = x] \in WheelRecord
         /\ \A x \in -255..255 : [w EXCEPT !.power = x] \in WheelRecord
         /\ \A x \in BOOLEAN : [w EXCEPT !.stopped = x] \in WheelRecord
         /\ \A x \in BOOLEAN : [w EXCEPT !.pulse = x] \in WheelRecord
         /\ \A x \in 0..PulseTicks : [w EXCEPT !.pulseAge = x] \in WheelRecord
         /\ \A x \in BOOLEAN : [w EXCEPT !.still = x] \in WheelRecord
         /\ \A x \in 0..StopTicks : [w EXCEPT !.stillAge = x] \in WheelRecord
<1>1. \A x \in -1..1 : [w EXCEPT !.dir = x] \in WheelRecord BY DEF WheelRecord
<1>2. \A x \in Nat : [w EXCEPT !.rpm = x] \in WheelRecord BY DEF WheelRecord
<1>3. \A x \in 0..255 : [w EXCEPT !.cur = x] \in WheelRecord BY DEF WheelRecord
<1>4. \A x \in 0..255 : [w EXCEPT !.duty = x] \in WheelRecord BY DEF WheelRecord
<1>5. \A x \in -255..255 : [w EXCEPT !.power = x] \in WheelRecord BY DEF WheelRecord
<1>6. \A x \in BOOLEAN : [w EXCEPT !.stopped = x] \in WheelRecord BY DEF WheelRecord
<1>7. \A x \in BOOLEAN : [w EXCEPT !.pulse = x] \in WheelRecord BY DEF WheelRecord
<1>8. \A x \in 0..PulseTicks : [w EXCEPT !.pulseAge = x] \in WheelRecord BY DEF WheelRecord
<1>9. \A x \in BOOLEAN : [w EXCEPT !.still = x] \in WheelRecord BY DEF WheelRecord
<1>10. \A x \in 0..StopTicks : [w EXCEPT !.stillAge = x] \in WheelRecord BY DEF WheelRecord
<1> QED BY <1>1, <1>2, <1>3, <1>4, <1>5, <1>6, <1>7, <1>8, <1>9, <1>10

\* The fields of a wheel are typed.
LEMMA Fields ==
  ASSUME NEW w \in WheelRecord
  PROVE  /\ w.dir \in -1..1 /\ w.rpm \in Nat /\ w.cur \in 0..255 /\ w.duty \in 0..255
         /\ w.power \in -255..255 /\ w.stopped \in BOOLEAN /\ w.pulse \in BOOLEAN
         /\ w.pulseAge \in 0..PulseTicks /\ w.still \in BOOLEAN /\ w.stillAge \in 0..StopTicks
         /\ DOMAIN w = {"dir", "rpm", "cur", "duty", "power", "stopped", "pulse", "pulseAge",
                        "still", "stillAge"}
BY DEF WheelRecord

\* The values that operations assign.
LEMMA ZeroFits ==
  /\ 0 \in -1..1 /\ 1 \in -1..1 /\ -1 \in -1..1 /\ 0 \in 0..255 /\ 0 \in -255..255
  /\ 0 \in 0..PulseTicks /\ 0 \in 0..StopTicks
BY WheelTicks

\* setTargetRPM changes no power; 0 ends a pulse.
LEMMA SetTargetWheel ==
  ASSUME NEW w \in WheelRecord, NEW rpm \in Int
  PROVE  /\ SetTarget(w, rpm) \in WheelRecord
         /\ SetTarget(w, rpm).cur = w.cur /\ SetTarget(w, rpm).power = w.power
         /\ rpm = 0 => SetTarget(w, rpm).dir = 0 /\ ~SetTarget(w, rpm).pulse
<1> USE ZeroFits
<1>1. CASE rpm > 0 /\ w.dir = 0 /\ w.stopped
  <2> DEFINE a == [w EXCEPT !.dir = 1]
             b == [a EXCEPT !.pulse = TRUE]
             c == [b EXCEPT !.pulseAge = 0]
             d == [c EXCEPT !.stopped = FALSE]
             e == [d EXCEPT !.still = FALSE]
             f == [e EXCEPT !.duty = 0]
  <2>1. SetTarget(w, rpm) = f BY <1>1 DEF SetTarget
  <2>2. 0 \in 0..PulseTicks BY WheelTicks
  <2>3. a \in WheelRecord BY OneField
  <2>4. b \in WheelRecord BY <2>3, OneField
  <2>5. c \in WheelRecord BY <2>2, <2>4, OneField
  <2>6. d \in WheelRecord BY <2>5, OneField
  <2>7. e \in WheelRecord BY <2>6, OneField
  <2>8. f \in WheelRecord BY <2>7, OneField
  <2> QED BY <1>1, <2>1, <2>8, Fields
<1>2. CASE rpm = 0
  <2>1. SetTarget(w, rpm) = [[w EXCEPT !.dir = 0] EXCEPT !.pulse = FALSE]
    BY <1>2 DEF SetTarget
  <2>2. [w EXCEPT !.dir = 0] \in WheelRecord BY OneField
  <2>3. [[w EXCEPT !.dir = 0] EXCEPT !.pulse = FALSE] \in WheelRecord BY <2>2, OneField
  <2> QED BY <2>1, <2>3, Fields
<1>3. CASE rpm # 0 /\ ~(rpm > 0 /\ w.dir = 0 /\ w.stopped)
  <2>1. PICK dir \in -1..1 : SetTarget(w, rpm) = [w EXCEPT !.dir = dir]
    BY <1>3 DEF SetTarget
  <2>2. [w EXCEPT !.dir = dir] \in WheelRecord BY OneField
  <2> QED BY <1>3, <2>1, <2>2, Fields
<1> QED BY <1>1, <1>2, <1>3

\* A wheel that is halted stands still.
LEMMA HaltedWheel ==
  ASSUME NEW w \in WheelRecord
  PROVE  Halted(w) \in WheelRecord /\ StandsStill(Halted(w)) /\ HardlyBack(Halted(w))
<1> USE ZeroFits
<1> DEFINE a == SetTarget(w, 0)
           b == [a EXCEPT !.power = 0]
           c == [b EXCEPT !.cur = 0]
           d == [c EXCEPT !.duty = 0]
<1>1. a \in WheelRecord /\ a.dir = 0 /\ ~a.pulse BY SetTargetWheel
<1> HIDE DEF a
<1>2. Halted(w) = d BY DEF Halted, a
<1>3. b \in WheelRecord BY <1>1, OneField
<1>4. c \in WheelRecord BY <1>3, OneField
<1>5. d \in WheelRecord BY <1>4, OneField
<1>6. d.dir = 0 /\ d.cur = 0 /\ d.duty = 0 /\ ~d.pulse /\ d.power = 0
  BY <1>1, Fields
<1> QED BY <1>2, <1>5, <1>6 DEF StandsStill, HardlyBack

\* Estimates and the controller leave power, direction and pulse alone.
LEMMA ControlledWheel ==
  ASSUME NEW w \in WheelRecord, NEW rpm \in Nat, NEW duty \in 0..255
  PROVE  LET v == Follow(UpdateRPM(w, rpm), duty)
         IN  /\ v \in WheelRecord
             /\ v.cur = w.cur /\ v.power = w.power /\ v.dir = w.dir /\ v.pulse = w.pulse
             /\ StandsStill(w) => StandsStill(v)
<1> USE ZeroFits
<1> DEFINE u == UpdateRPM(w, rpm)
           a == [w EXCEPT !.rpm = rpm]
<1>0. a \in WheelRecord BY OneField
<1>1. /\ u \in WheelRecord /\ u.cur = w.cur /\ u.power = w.power /\ u.dir = w.dir
      /\ u.pulse = w.pulse /\ u.duty = w.duty
  <2>1. CASE w.pulse
    <3>1. u = a BY <2>1 DEF UpdateRPM
    <3> QED BY <1>0, <3>1, Fields
  <2>2. CASE ~w.pulse /\ rpm > StopRPM
    <3> DEFINE b == [a EXCEPT !.still = FALSE]
               c == [b EXCEPT !.stopped = FALSE]
    <3>1. u = c BY <2>2 DEF UpdateRPM
    <3>2. b \in WheelRecord BY <1>0, OneField
    <3>3. c \in WheelRecord BY <3>2, OneField
    <3> QED BY <3>1, <3>3, Fields
  <2>3. CASE ~w.pulse /\ ~(rpm > StopRPM) /\ ~w.still
    <3> DEFINE b == [a EXCEPT !.still = TRUE]
               c == [b EXCEPT !.stillAge = 0]
    <3>1. u = c BY <2>3 DEF UpdateRPM
    <3>2. b \in WheelRecord BY <1>0, OneField
    <3>3. c \in WheelRecord BY <3>2, OneField
    <3> QED BY <3>1, <3>3, Fields
  <2>4. CASE ~w.pulse /\ ~(rpm > StopRPM) /\ w.still
    <3>1. (w.stopped \/ w.stillAge >= StopTicks) \in BOOLEAN OBVIOUS
    <3>2. u = [a EXCEPT !.stopped = (w.stopped \/ w.stillAge >= StopTicks)]
      BY <2>4, Fields DEF UpdateRPM
    <3>3. \A x \in BOOLEAN : [a EXCEPT !.stopped = x] \in WheelRecord BY <1>0, OneField
    <3>4. u \in WheelRecord BY <3>1, <3>2, <3>3
    <3> QED BY <1>0, <3>2, <3>4, Fields
  <2> QED BY <2>1, <2>2, <2>3, <2>4
<1> HIDE DEF u
<1>2. /\ Follow(u, duty) \in WheelRecord /\ Follow(u, duty).cur = u.cur
      /\ Follow(u, duty).power = u.power /\ Follow(u, duty).dir = u.dir
      /\ Follow(u, duty).pulse = u.pulse
      /\ u.dir = 0 /\ u.duty = 0 => Follow(u, duty).duty = 0
  <2>1. CASE u.pulse BY <1>1, <2>1 DEF Follow
  <2>2. CASE ~u.pulse
    <3>1. PICK d \in 0..255 : Follow(u, duty) = [u EXCEPT !.duty = d] /\ (u.dir = 0 => d = 0)
      BY <2>2 DEF Follow
    <3>2. [u EXCEPT !.duty = d] \in WheelRecord BY <1>1, OneField
    <3> QED BY <1>1, <3>1, <3>2, Fields
  <2> QED BY <2>1, <2>2
<1> QED BY <1>1, <1>2 DEF u, StandsStill

\* What a motor that is set has from the duty and the direction.
SetTo(v, w, cur, dir) ==
  /\ v \in WheelRecord /\ v.cur = cur /\ v.dir = w.dir /\ v.pulse = w.pulse /\ v.duty = w.duty
  /\ v.power \in -255..255 /\ (v.power < 0 => v.power = -cur)
  /\ (cur = 0 => v.power = 0) /\ (dir = 1 => v.power = cur)

LEMMA PoweredWheel ==
  ASSUME NEW w \in WheelRecord, NEW cur \in 0..255, NEW dir \in -1..1
  PROVE  SetTo(Powered(w, cur, dir), w, cur, dir)
<1>1. /\ cur * dir \in -255..255 /\ (cur * dir < 0 => cur * dir = -cur)
      /\ (cur = 0 => cur * dir = 0) /\ (dir = 1 => cur * dir = cur)
  <2>1. dir = -1 \/ dir = 0 \/ dir = 1 OBVIOUS
  <2> QED BY <2>1
<1> DEFINE p == cur * dir
           a == [w EXCEPT !.cur = cur]
           b == [a EXCEPT !.power = p]
<1>2. Powered(w, cur, dir) = b BY DEF Powered
<1>3. p \in -255..255 BY <1>1
<1> HIDE DEF p
<1>4. a \in WheelRecord BY OneField
<1>5. b \in WheelRecord BY <1>3, <1>4, OneField
<1>6. b.cur = cur /\ b.power = p /\ b.dir = w.dir /\ b.pulse = w.pulse /\ b.duty = w.duty
  BY Fields
<1> QED BY <1>1, <1>2, <1>3, <1>5, <1>6 DEF p, SetTo

\* updateMotor after the pulse.
LEMMA DrivenMotor ==
  ASSUME NEW w \in WheelRecord
  PROVE  /\ Drive(w) \in WheelRecord /\ Drive(w).dir = w.dir /\ Drive(w).pulse = w.pulse
         /\ Drive(w).duty = w.duty
         /\ HardlyBack(Drive(w)) /\ (w.dir = 0 => Drive(w).cur <= w.cur)
         /\ w.dir = 0 /\ w.cur = 0 => Drive(w).cur = 0 /\ Drive(w).power = 0
<1>0. w.dir \in -1..1 /\ w.cur \in 0..255 /\ w.duty \in 0..255 BY Fields
<1>1. /\ Ramped(w.cur, w.duty) \in 0..255
      /\ w.cur - Least(RampDownRate, w.cur) \in 0..255
      /\ w.cur - Least(RampDownRate, w.cur) <= w.cur
  <2>1. ASSUME NEW cur \in 0..255, NEW duty \in 0..255
        PROVE  /\ Ramped(cur, duty) \in 0..255
               /\ cur - Least(RampDownRate, cur) \in 0..255
               /\ cur - Least(RampDownRate, cur) <= cur
    BY DEF Ramped, Least, RampUpRate, RampDownRate
  <2> QED BY <1>0, <2>1
<1>2. CASE w.dir = DirEst
  <2>1. Drive(w) = Powered(w, Ramped(w.cur, w.duty), w.dir) BY <1>2 DEF Drive
  <2>2. w.dir = 1 BY <1>2 DEF DirEst
  <2> HIDE DEF HardlyBack
  <2>3. /\ Drive(w) \in WheelRecord /\ Drive(w).dir = w.dir /\ Drive(w).pulse = w.pulse
        /\ Drive(w).duty = w.duty /\ Drive(w).power = Ramped(w.cur, w.duty)
    <3>1. SetTo(Drive(w), w, Ramped(w.cur, w.duty), w.dir) BY <1>0, <1>1, <2>1, PoweredWheel
    <3> QED BY <1>0, <1>1, <2>2, <3>1 DEF SetTo
  <2> QED BY <1>1, <2>2, <2>3 DEF HardlyBack
<1>3. CASE w.dir # DirEst /\ w.rpm < 5 /\ w.cur < 10
  <2>1. Drive(w) = Powered(w, w.cur, w.dir) BY <1>3 DEF Drive
  <2>2. /\ Drive(w) \in WheelRecord /\ Drive(w).dir = w.dir /\ Drive(w).pulse = w.pulse
        /\ Drive(w).duty = w.duty /\ Drive(w).cur = w.cur
        /\ w.cur = 0 => Drive(w).power = 0
        /\ Drive(w).power < 0 => Drive(w).power = -w.cur
    <3>1. SetTo(Drive(w), w, w.cur, w.dir) BY <1>0, <1>1, <2>1, PoweredWheel
    <3> QED BY <1>0, <1>1, <3>1 DEF SetTo
  <2>3. Drive(w).power \in -255..255 BY <2>2, Fields
  <2>4. Drive(w).power >= -9 BY <1>0, <1>3, <2>2, <2>3
  <2>5. HardlyBack(Drive(w)) BY <2>3, <2>4 DEF HardlyBack
  <2> QED BY <1>0, <2>2, <2>5
<1>4. CASE w.dir # DirEst /\ ~(w.rpm < 5 /\ w.cur < 10)
  <2> DEFINE cur == w.cur - Least(RampDownRate, w.cur)
  <2>1. Drive(w) = Powered(w, cur, DirEst) BY <1>4 DEF Drive
  <2>2. cur \in 0..255 /\ cur <= w.cur /\ DirEst = 1 BY <1>1 DEF DirEst
  <2> HIDE DEF cur
  <2>3. /\ Drive(w) \in WheelRecord /\ Drive(w).dir = w.dir /\ Drive(w).pulse = w.pulse
        /\ Drive(w).duty = w.duty /\ Drive(w).cur = cur /\ Drive(w).power = cur
    <3>1. SetTo(Drive(w), w, cur, DirEst) BY <2>1, <2>2, PoweredWheel
    <3> QED BY <2>2, <3>1 DEF SetTo
  <2> QED BY <1>0, <2>2, <2>3 DEF HardlyBack
<1> QED BY <1>2, <1>3, <1>4

\* updateMotor
LEMMA MotorWheel ==
  ASSUME NEW w \in WheelRecord
  PROVE  /\ UpdateMotor(w) \in WheelRecord /\ HardlyBack(UpdateMotor(w))
         /\ StandsStill(w) => StandsStill(UpdateMotor(w))
         /\ w.dir = 0 /\ ~w.pulse =>
              /\ UpdateMotor(w).dir = 0 /\ ~UpdateMotor(w).pulse
              /\ UpdateMotor(w).cur <= w.cur
<1>1. CASE w.pulse /\ w.pulseAge < PulseTicks
  <2>1. UpdateMotor(w) = Powered(w, StartupDuty, w.dir) BY <1>1 DEF UpdateMotor
  <2>2. StartupDuty \in 0..255 /\ w.dir \in -1..1 BY Fields DEF StartupDuty
  <2>3. /\ UpdateMotor(w) \in WheelRecord /\ UpdateMotor(w).cur = StartupDuty
        /\ UpdateMotor(w).power < 0 => UpdateMotor(w).power = -StartupDuty
    <3>1. SetTo(UpdateMotor(w), w, StartupDuty, w.dir) BY <2>1, <2>2, PoweredWheel
    <3> QED BY <3>1 DEF SetTo
  <2>4. UpdateMotor(w).power \in -255..255 BY <2>3, Fields
  <2> QED BY <1>1, <2>3, <2>4 DEF HardlyBack, StandsStill
<1>2. CASE w.pulse /\ ~(w.pulseAge < PulseTicks)
  <2> DEFINE a == [w EXCEPT !.pulse = FALSE]
             b == [a EXCEPT !.cur = RunningMinimumDuty]
             u == [b EXCEPT !.duty = RunningMinimumDuty]
  <2>1. UpdateMotor(w) = Drive(u) BY <1>2 DEF UpdateMotor
  <2>2. RunningMinimumDuty \in 0..255 BY DEF RunningMinimumDuty
  <2>3. a \in WheelRecord BY OneField
  <2>4. b \in WheelRecord BY <2>2, <2>3, OneField
  <2>5. u \in WheelRecord BY <2>2, <2>4, OneField
  <2> HIDE DEF u
  <2> QED BY <1>2, <2>1, <2>5, DrivenMotor DEF StandsStill
<1>3. CASE ~w.pulse
  <2>1. UpdateMotor(w) = Drive(w) BY <1>3 DEF UpdateMotor
  <2> QED BY <1>3, <2>1, DrivenMotor DEF StandsStill
<1> QED BY <1>1, <1>2, <1>3

\* Time passes.
LEMMA OlderWheel ==
  ASSUME NEW w \in WheelRecord
  PROVE  /\ Older(w) \in WheelRecord /\ Older(w).cur = w.cur /\ Older(w).power = w.power
         /\ Older(w).dir = w.dir /\ Older(w).pulse = w.pulse /\ Older(w).duty = w.duty
<1>1. PICK x \in 0..PulseTicks, y \in 0..StopTicks :
        Older(w) = [[w EXCEPT !.pulseAge = x] EXCEPT !.stillAge = y]
  <2> DEFINE x == IF w.pulse THEN Least(w.pulseAge + 1, PulseTicks) ELSE 0
             y == IF w.still THEN Least(w.stillAge + 1, StopTicks) ELSE 0
  <2>1. x \in 0..PulseTicks /\ y \in 0..StopTicks BY WheelTicks, Fields DEF Least
  <2>2. Older(w) = [[w EXCEPT !.pulseAge = x] EXCEPT !.stillAge = y] BY Fields DEF Older
  <2> QED BY <2>1, <2>2
<1>2. [w EXCEPT !.pulseAge = x] \in WheelRecord BY OneField
<1>3. [[w EXCEPT !.pulseAge = x] EXCEPT !.stillAge = y] \in WheelRecord BY <1>2, OneField
<1> QED BY <1>1, <1>3, Fields

-----------------------------------------------------------------------------
(* What each action does *)

\* A frame sets the wheels, halts them, changes the mode only, or nothing.
FrameSets ==
  /\ mode' = 2 /\ drivestate' = "FORCEDRUN" /\ stoppedAt' = stoppedAt
  /\ \E speed \in Int : wheel' = [i \in Wheels |-> SetTarget(wheel[i], speed)]
FrameHalts ==
  /\ mode' = -1 /\ drivestate' = "EMERGENCYSTOPPED" /\ stoppedAt' = count
  /\ wheel' = [i \in Wheels |-> Halted(wheel[i])]
FrameSwitches == mode' \in {0, 1} /\ UNCHANGED <<drivestate, wheel, stoppedAt>>

LEMMA FrameKinds ==
  ASSUME AgvTypeOK, FrameEnds
  PROVE  /\ input # <<>> /\ input' = <<>> /\ overflow' = FALSE
         /\ UNCHANGED <<count, onobstacle, rangeAge, near, tracePolicy, lastIOL, softAge, seen>>
         /\ \/ FrameSets \/ FrameHalts \/ FrameSwitches
            \/ UNCHANGED <<mode, drivestate, wheel, stoppedAt>>
<1>1. /\ input # <<>> /\ input' = <<>> /\ overflow' = FALSE
      /\ UNCHANGED <<count, onobstacle, rangeAge, near, tracePolicy, lastIOL, softAge, seen>>
      /\ Effect(Meaning) \/ UNCHANGED <<mode, drivestate, wheel, stoppedAt>>
  BY DEF FrameEnds, rangeVars, traceVars
<1>2. Meaning.name \in Simple \cup {"SETSPEED", ""} /\ Meaning.speed \in Int
  <2>1. input[1].cmd \in Commands
    <3>1. ASSUME NEW S, NEW q \in Seq(S), q # <<>> PROVE q[1] \in S BY <3>1
    <3>2. input[1] \in [cmd : Commands, n : Nat] BY <1>1, <3>1 DEF AgvTypeOK
    <3> QED BY <3>2
  <2>2. ASSUME NEW c \in Commands
        PROVE  c.name \in Simple \cup {"SETSPEED"} /\ c.speed \in Int
    <3>1. CASE c \in [name : Simple, speed : {0}] BY <3>1
    <3>2. CASE c \in [name : {"SETSPEED"}, speed : Speeds] BY <3>2, DriveSets
    <3> QED BY <3>1, <3>2 DEF Commands
  <2>3. Meaning = input[1].cmd \/ Meaning = [name |-> "", speed |-> 0] BY DEF Meaning
  <2>4. CASE Meaning = input[1].cmd BY <2>1, <2>2, <2>4
  <2>5. CASE Meaning = [name |-> "", speed |-> 0]
    <3>1. Meaning.name \in {""} BY <2>5
    <3>2. Meaning.speed \in Int
      <4>1. Meaning.speed = 0 BY <2>5
      <4> QED BY <4>1
    <3> QED BY <3>1, <3>2
  <2> QED BY <2>3, <2>4, <2>5
<1>3. ASSUME Effect(Meaning)
      PROVE  \/ FrameSets \/ FrameHalts \/ FrameSwitches
             \/ UNCHANGED <<mode, drivestate, wheel, stoppedAt>>
  <2>1. CASE Meaning.name = "SETSPEED" BY <1>2, <1>3, <2>1 DEF Effect, FrameSets
  <2>2. CASE Meaning.name = "EMERGENCYSTOP" BY <1>3, <2>2 DEF Effect, FrameHalts
  <2>3. CASE Meaning.name = "LINETRACE" BY <1>3, <2>3 DEF Effect, FrameSwitches
  <2>4. CASE Meaning.name = "STOP" BY <1>3, <2>4 DEF Effect, FrameSwitches
  <2>5. CASE Meaning.name = "" BY <1>3, <2>5 DEF Effect
  <2> QED BY <1>2, <2>1, <2>2, <2>3, <2>4, <2>5 DEF Simple
<1> QED BY <1>1, <1>3

\* What updateCon leaves of a wheel in each mode.
LEMMA ConWheels ==
  ASSUME AgvTypeOK, NEW rpm \in Estimates, NEW duty \in Duties, Con(rpm, duty),
         NEW i \in Wheels
  PROVE  /\ wheel'[i] \in WheelRecord
         /\ \/ wheel'[i].cur = wheel[i].cur /\ wheel'[i].power = wheel[i].power
            \/ StandsStill(wheel'[i])
         /\ mode = 0 => wheel'[i].dir = 0 /\ ~wheel'[i].pulse
         /\ mode = 1 /\ onobstacle => StandsStill(wheel'[i])
         /\ mode \in {-1, 2} /\ StandsStill(wheel[i]) => StandsStill(wheel'[i])
<1>1. wheel'[i] = Follow(UpdateRPM(Driven(i), rpm), duty) BY DEF Con
<1>2. rpm \in Nat /\ duty \in 0..255 /\ wheel[i] \in WheelRecord
  BY DriveSets DEF AgvTypeOK
<1>3. /\ Driven(i) \in WheelRecord
      /\ \/ Driven(i).cur = wheel[i].cur /\ Driven(i).power = wheel[i].power
         \/ StandsStill(Driven(i))
      /\ mode = 0 => Driven(i).dir = 0 /\ ~Driven(i).pulse
      /\ mode = 1 /\ onobstacle => StandsStill(Driven(i))
      /\ mode \in {-1, 2} => Driven(i) = wheel[i]
  <2>1. CASE mode = 0 BY <1>2, <2>1, SetTargetWheel DEF Driven
  <2>2. CASE mode = 1 /\ onobstacle BY <1>2, <2>2, HaltedWheel DEF Driven
  <2>3. CASE mode = 1 /\ ~onobstacle
    <3>1. Target(i) \in Int BY DEF Target, AgvTypeOK, Policies
    <3> QED BY <1>2, <2>3, <3>1, SetTargetWheel DEF Driven
  <2>4. CASE mode \in {-1, 2} BY <1>2, <2>4 DEF Driven
  <2> QED BY <2>1, <2>2, <2>3, <2>4 DEF AgvTypeOK
<1>4. LET v == Follow(UpdateRPM(Driven(i), rpm), duty)
      IN  /\ v \in WheelRecord
          /\ v.cur = Driven(i).cur /\ v.power = Driven(i).power /\ v.dir = Driven(i).dir
          /\ v.pulse = Driven(i).pulse
          /\ StandsStill(Driven(i)) => StandsStill(v)
  <2>1. Driven(i) \in WheelRecord BY <1>3
  <2> DEFINE w == Driven(i)
  <2> HIDE DEF w
  <2>2. w \in WheelRecord BY <2>1 DEF w
  <2>3. LET v == Follow(UpdateRPM(w, rpm), duty)
        IN  /\ v \in WheelRecord
            /\ v.cur = w.cur /\ v.power = w.power /\ v.dir = w.dir /\ v.pulse = w.pulse
            /\ StandsStill(w) => StandsStill(v)
    BY <1>2, <2>2, ControlledWheel
  <2> QED BY <2>3 DEF w
<1> QED BY <1>1, <1>3, <1>4

\* The wheels after updateFine and after time passed.
LEMMA OtherWheels ==
  ASSUME AgvTypeOK, NEW i \in Wheels, Fine \/ Tick
  PROVE  /\ wheel'[i] \in WheelRecord
         /\ HardlyBack(wheel[i]) => HardlyBack(wheel'[i])
         /\ StandsStill(wheel[i]) => StandsStill(wheel'[i])
         /\ wheel[i].dir = 0 /\ ~wheel[i].pulse =>
              /\ wheel'[i].dir = 0 /\ ~wheel'[i].pulse /\ wheel'[i].cur <= wheel[i].cur
<1>1. wheel[i] \in WheelRecord BY DEF AgvTypeOK
<1>2. CASE Fine
  <2>1. wheel'[i] = UpdateMotor(wheel[i]) BY <1>2 DEF Fine
  <2> QED BY <1>1, <2>1, MotorWheel
<1>3. CASE Tick
  <2>1. wheel'[i] = Older(wheel[i]) BY <1>3 DEF Tick
  <2>2. wheel[i].cur \in 0..255 BY <1>1, Fields
  <2> QED BY <1>1, <2>1, <2>2, OlderWheel DEF HardlyBack, StandsStill
<1> QED BY <1>2, <1>3

\* The steps that leave the wheels, the mode and the drive state alone.
LEMMA Senses ==
  ASSUME \/ \E c \in Commands : Receive(c)
         \/ \E ir \in IrStates :
              FastWithoutRange(ir) \/ \E range \in {"near", "far", "none"} : Fast(ir, range)
         \/ UNCHANGED vars
  PROVE  UNCHANGED <<mode, drivestate, wheel, stoppedAt>>
BY DEF Receive, FastWithoutRange, Fast, vars

-----------------------------------------------------------------------------
(* The invariants *)

\* Types.
LEMMA AgvTypeStep == ASSUME AgvTypeOK, [Next]_vars PROVE AgvTypeOK'
<1>1. ASSUME NEW c \in Commands, Receive(c) PROVE AgvTypeOK'
  <2>1. count + 1 \in 0..MaxCommands /\ count' = count + 1
    BY <1>1, DriveTicks DEF Receive, AgvTypeOK
  <2>2. input' \in Seq([cmd : Commands, n : Nat])
    <3>1. [cmd |-> c, n |-> count + 1] \in [cmd : Commands, n : Nat] BY <2>1
    <3>2. input \in Seq([cmd : Commands, n : Nat]) BY DEF AgvTypeOK
    <3>3. Append(input, [cmd |-> c, n |-> count + 1]) \in Seq([cmd : Commands, n : Nat])
      BY <3>1, <3>2
    <3>4. input' = input \/ input' = Append(input, [cmd |-> c, n |-> count + 1])
      BY <1>1 DEF Receive
    <3> QED BY <3>2, <3>3, <3>4
  <2>3. overflow' \in BOOLEAN
    <3>1. overflow' = overflow \/ overflow' = TRUE BY <1>1 DEF Receive
    <3> QED BY <3>1 DEF AgvTypeOK
  <2> QED BY <1>1, <2>1, <2>2, <2>3 DEF AgvTypeOK, Receive, rangeVars, traceVars
<1>2. CASE FrameEnds
  <2>1. /\ UNCHANGED <<count, onobstacle, rangeAge, near, tracePolicy, lastIOL, softAge, seen>>
        /\ input' \in Seq([cmd : Commands, n : Nat]) /\ overflow' \in BOOLEAN
    BY <1>2, FrameKinds
  <2>2. /\ mode' \in {-1, 0, 1, 2} /\ drivestate' \in DriveStates /\ stoppedAt' \in Nat
        /\ wheel' \in [Wheels -> WheelRecord]
    <3>1. CASE FrameSets
      <4>1. PICK speed \in Int : wheel' = [i \in Wheels |-> SetTarget(wheel[i], speed)]
        BY <3>1 DEF FrameSets
      <4>2. \A i \in Wheels : SetTarget(wheel[i], speed) \in WheelRecord
        BY SetTargetWheel DEF AgvTypeOK
      <4> QED BY <3>1, <4>1, <4>2 DEF FrameSets, AgvTypeOK, DriveStates
    <3>2. CASE FrameHalts
      <4>1. \A i \in Wheels : Halted(wheel[i]) \in WheelRecord BY HaltedWheel DEF AgvTypeOK
      <4>2. stoppedAt' \in Nat BY <3>2, DriveTicks DEF FrameHalts, AgvTypeOK
      <4> QED BY <3>2, <4>1, <4>2 DEF FrameHalts, AgvTypeOK, DriveStates
    <3>3. CASE FrameSwitches BY <3>3 DEF FrameSwitches, AgvTypeOK
    <3>4. CASE UNCHANGED <<mode, drivestate, wheel, stoppedAt>> BY <3>4 DEF AgvTypeOK
    <3> QED BY <1>2, <3>1, <3>2, <3>3, <3>4, FrameKinds
  <2> QED BY <2>1, <2>2 DEF AgvTypeOK
<1>3. ASSUME NEW ir \in IrStates, Trace(ir)
      PROVE  /\ tracePolicy' \in Policies /\ softAge' \in 0..SharpTicks
             /\ lastIOL' \subseteq {"left", "center", "right"}
             /\ seen' \subseteq {"left", "center", "right"}
  <2>1. /\ lastIOL' \subseteq {"left", "center", "right"}
        /\ seen' \subseteq {"left", "center", "right"}
    BY <1>3, DriveSets DEF Trace, AgvTypeOK
  <2>2. 0 \in 0..SharpTicks BY DriveTicks
  <2>3. tracePolicy' \in Policies /\ softAge' \in 0..SharpTicks
    BY <1>3, <2>2 DEF Trace, Soft, Sharp, AgvTypeOK, Policies
  <2> QED BY <2>1, <2>3
<1>4. ASSUME NEW ir \in IrStates, FastWithoutRange(ir) PROVE AgvTypeOK'
  BY <1>3, <1>4 DEF FastWithoutRange, AgvTypeOK, inputVars, rangeVars
<1>5. ASSUME NEW ir \in IrStates, NEW range \in {"near", "far", "none"}, Fast(ir, range)
      PROVE  AgvTypeOK'
  <2>1. onobstacle' \in BOOLEAN /\ near' \in BOOLEAN /\ rangeAge' \in 0..RangeTicks
    <3>1. CASE range # "none"
      <4>1. onobstacle' = (range = "near") /\ near' = (range = "near") /\ rangeAge' = 0
        BY <1>5, <3>1 DEF Fast, Decide
      <4>2. 0 \in 0..RangeTicks BY DriveTicks
      <4> QED BY <4>1, <4>2
    <3>2. CASE range = "none"
      <4>1. onobstacle' = (rangeAge < RangeTicks) /\ UNCHANGED <<near, rangeAge>>
        BY <1>5, <3>2 DEF Fast, Decide
      <4> QED BY <4>1 DEF AgvTypeOK
    <3> QED BY <3>1, <3>2
  <2> QED BY <1>3, <1>5, <2>1 DEF Fast, AgvTypeOK, inputVars
<1>6. ASSUME NEW rpm \in Estimates, NEW duty \in Duties, Con(rpm, duty) PROVE AgvTypeOK'
  <2>1. wheel' = [i \in Wheels |-> Follow(UpdateRPM(Driven(i), rpm), duty)]
    BY <1>6 DEF Con
  <2>2. \A i \in Wheels : wheel'[i] \in WheelRecord BY <1>6, ConWheels
  <2>3. wheel' \in [Wheels -> WheelRecord] BY <2>1, <2>2
  <2>4. drivestate' \in DriveStates BY <1>6 DEF Con, DriveState, AgvTypeOK, DriveStates
  <2> QED BY <1>6, <2>3, <2>4 DEF Con, AgvTypeOK, inputVars, rangeVars, traceVars
<1>7. CASE Fine \/ Tick
  <2>1. \A i \in Wheels : wheel'[i] \in WheelRecord BY <1>7, OtherWheels
  <2>2. wheel' \in [Wheels -> WheelRecord] BY <1>7, <2>1 DEF Fine, Tick
  <2>3. CASE Fine
    BY <2>2, <2>3 DEF Fine, AgvTypeOK, inputVars, rangeVars, traceVars
  <2>4. CASE Tick
    <3>1. rangeAge' \in 0..RangeTicks /\ softAge' \in 0..SharpTicks
      BY <2>4, DriveTicks DEF Tick, Least, AgvTypeOK
    <3> QED BY <2>2, <2>4, <3>1 DEF Tick, AgvTypeOK, inputVars
  <2> QED BY <1>7, <2>3, <2>4
<1>8. CASE UNCHANGED vars
  BY <1>8 DEF vars, inputVars, rangeVars, traceVars, AgvTypeOK
<1> QED BY <1>1, <1>2, <1>4, <1>5, <1>6, <1>7, <1>8 DEF Next, ConStep

\* Modes and drive states agree.
LEMMA ModeStep == ASSUME AgvTypeOK, ModeInv, [Next]_vars PROVE ModeInv'
<1> USE DEF ModeInv
<1>1. CASE UNCHANGED <<mode, drivestate>> BY <1>1
<1>2. CASE FrameEnds BY <1>2, FrameKinds DEF FrameSets, FrameHalts, FrameSwitches
<1>3. ASSUME NEW rpm \in Estimates, NEW duty \in Duties, Con(rpm, duty) PROVE ModeInv'
  <2>1. mode' = mode /\ drivestate' = DriveState BY <1>3 DEF Con
  <2>2. mode \in {-1, 2} => DriveState = drivestate BY DEF DriveState
  <2> QED BY <2>1, <2>2
<1>4. CASE Fine \/ Tick BY <1>1, <1>4 DEF Fine, Tick
<1> QED BY <1>1, <1>2, <1>3, <1>4, Senses DEF Next, ConStep

\* Commands in the buffer are younger than the last emergency stop.
LEMMA InputStep == ASSUME AgvTypeOK, InputInv, [Next]_vars PROVE InputInv'
<1> USE DEF InputInv
<1>0. /\ count \in Nat /\ stoppedAt \in Nat /\ input \in Seq([cmd : Commands, n : Nat])
  BY DriveTicks DEF AgvTypeOK
<1>1. CASE UNCHANGED <<input, count, stoppedAt>> BY <1>1
<1>2. ASSUME NEW c \in Commands, Receive(c) PROVE InputInv'
  <2>1. count' = count + 1 /\ stoppedAt' = stoppedAt BY <1>2 DEF Receive
  <2>2. CASE input' = input BY <1>0, <2>1, <2>2
  <2>3. CASE input' = Append(input, [cmd |-> c, n |-> count + 1])
    <3>1. /\ Len(input') = Len(input) + 1 /\ Len(input) \in Nat
          /\ \A i \in 1..Len(input) : input'[i] = input[i]
          /\ input'[Len(input) + 1].n = count + 1
      BY <1>0, <2>3
    <3>2. \A i \in 1..Len(input') : i \in 1..Len(input) \/ i = Len(input) + 1 BY <3>1
    <3> QED BY <1>0, <2>1, <3>1, <3>2
  <2> QED BY <1>2, <2>2, <2>3 DEF Receive
<1>3. CASE FrameEnds
  <2>1. input' = <<>> /\ count' = count BY <1>3, FrameKinds
  <2>2. stoppedAt' \in {stoppedAt, count}
    BY <1>3, FrameKinds DEF FrameSets, FrameHalts, FrameSwitches
  <2> QED BY <1>0, <2>1, <2>2
<1>4. ASSUME NEW rpm \in Estimates, NEW duty \in Duties, Con(rpm, duty) PROVE InputInv'
  BY <1>1, <1>4 DEF Con, inputVars
<1>5. CASE Fine \/ Tick BY <1>1, <1>5 DEF Fine, Tick, inputVars
<1>6. ASSUME NEW ir \in IrStates, FastWithoutRange(ir) PROVE InputInv'
  BY <1>1, <1>6 DEF FastWithoutRange, inputVars
<1>7. ASSUME NEW ir \in IrStates, NEW range \in {"near", "far", "none"}, Fast(ir, range)
      PROVE  InputInv'
  BY <1>1, <1>7 DEF Fast, inputVars
<1> QED BY <1>1, <1>2, <1>3, <1>4, <1>5, <1>6, <1>7 DEF Next, ConStep, vars, inputVars

\* The obstacle flag.
LEMMA FlagStep ==
  ASSUME AgvTypeOK, FlagCoversObstacle, [Next]_vars PROVE FlagCoversObstacle'
<1> USE DEF FlagCoversObstacle
<1>0. rangeAge \in 0..RangeTicks /\ RangeTicks \in Nat BY DriveTicks DEF AgvTypeOK
<1>1. CASE UNCHANGED rangeVars BY <1>1 DEF rangeVars
<1>2. ASSUME NEW ir \in IrStates, NEW range \in {"near", "far", "none"}, Fast(ir, range)
      PROVE  FlagCoversObstacle'
  <2>1. CASE range # "none" BY <1>2, <2>1 DEF Fast, Decide
  <2>2. CASE range = "none"
    <3>1. onobstacle' <=> rangeAge < RangeTicks BY <1>2, <2>2 DEF Fast, Decide
    <3>2. rangeAge' = rangeAge BY <1>2, <2>2 DEF Fast, Decide
    <3> QED BY <1>0, <3>1, <3>2
  <2> QED BY <2>1, <2>2
<1>3. CASE Tick
  <2>1. /\ UNCHANGED <<onobstacle, near>>
        /\ rangeAge' = IF rangeAge + 1 < RangeTicks THEN rangeAge + 1 ELSE RangeTicks
    BY <1>3 DEF Tick, Least
  <2> QED BY <1>0, <2>1
<1>4. ASSUME NEW c \in Commands, Receive(c) PROVE FlagCoversObstacle'
  BY <1>1, <1>4 DEF Receive
<1>5. CASE FrameEnds BY <1>5, FrameKinds
<1>6. ASSUME NEW ir \in IrStates, FastWithoutRange(ir) PROVE FlagCoversObstacle'
  BY <1>1, <1>6 DEF FastWithoutRange
<1>7. ASSUME NEW rpm \in Estimates, NEW duty \in Duties, Con(rpm, duty)
      PROVE  FlagCoversObstacle'
  BY <1>1, <1>7 DEF Con
<1>8. CASE Fine BY <1>1, <1>8 DEF Fine
<1> QED BY <1>1, <1>2, <1>3, <1>4, <1>5, <1>6, <1>7, <1>8 DEF Next, ConStep, vars

\* Wheels that stand still or slow down.
LEMMA StillStep == ASSUME AgvTypeOK, ModeInv, StillInv, [Next]_vars PROVE StillInv'
<1> USE DEF StillInv
<1>0. \A i \in Wheels : wheel[i] \in WheelRecord BY DEF AgvTypeOK
<1>1. CASE UNCHANGED <<drivestate, wheel>> BY <1>1
<1>2. CASE FrameEnds
  <2>1. CASE FrameSets BY <2>1 DEF FrameSets
  <2>2. CASE FrameHalts
    <3>1. drivestate' = "EMERGENCYSTOPPED" /\ \A i \in Wheels : wheel'[i] = Halted(wheel[i])
      BY <2>2 DEF FrameHalts
    <3> QED BY <1>0, <3>1, HaltedWheel
  <2>3. CASE UNCHANGED <<drivestate, wheel>> BY <2>3
  <2> QED BY <1>2, <2>1, <2>2, <2>3, FrameKinds DEF FrameSwitches
<1>3. ASSUME NEW rpm \in Estimates, NEW duty \in Duties, Con(rpm, duty) PROVE StillInv'
  <2>1. drivestate' = DriveState BY <1>3 DEF Con
  <2>2. CASE mode = 0
    <3>1. drivestate' = "STOP" BY <2>1, <2>2 DEF DriveState
    <3> QED BY <1>3, <2>2, <3>1, ConWheels
  <2>3. CASE mode = 1 /\ onobstacle
    <3>1. drivestate' = "OBSTACLE" BY <2>1, <2>3 DEF DriveState
    <3> QED BY <1>3, <2>3, <3>1, ConWheels
  <2>4. CASE mode = 1 /\ ~onobstacle
    <3>1. drivestate' = "TRACING" BY <2>1, <2>4 DEF DriveState
    <3> QED BY <3>1
  <2>5. CASE mode \in {-1, 2}
    <3>1. drivestate' = drivestate BY <2>1, <2>5 DEF DriveState
    <3>2. drivestate \in {"EMERGENCYSTOPPED", "FORCEDRUN"} BY <2>5 DEF ModeInv
    <3> QED BY <1>3, <2>5, <3>1, <3>2, ConWheels
  <2> QED BY <2>2, <2>3, <2>4, <2>5 DEF AgvTypeOK
<1>4. CASE Fine \/ Tick
  <2>1. drivestate' = drivestate BY <1>4 DEF Fine, Tick
  <2> QED BY <1>4, <2>1, OtherWheels
<1> QED BY <1>1, <1>2, <1>3, <1>4, Senses DEF Next, ConStep

\* The motors turn back only in a pulse.
LEMMA BackwardsStep ==
  ASSUME AgvTypeOK, HardlyBackwards, [Next]_vars PROVE HardlyBackwards'
<1>0. /\ \A i \in Wheels : wheel[i] \in WheelRecord /\ HardlyBack(wheel[i])
      /\ HardlyBackwards' <=> \A i \in Wheels : HardlyBack(wheel'[i])
  BY DEF AgvTypeOK, HardlyBackwards, HardlyBack
<1>1. CASE wheel' = wheel BY <1>0, <1>1
<1>2. CASE FrameEnds
  <2>1. CASE FrameSets
    <3>1. PICK speed \in Int : \A i \in Wheels : wheel'[i] = SetTarget(wheel[i], speed)
      BY <2>1 DEF FrameSets
    <3>2. \A i \in Wheels : wheel'[i].cur = wheel[i].cur /\ wheel'[i].power = wheel[i].power
      BY <1>0, <3>1, SetTargetWheel
    <3> QED BY <1>0, <3>2 DEF HardlyBack
  <2>2. CASE FrameHalts
    <3>1. \A i \in Wheels : wheel'[i] = Halted(wheel[i]) BY <2>2 DEF FrameHalts
    <3> QED BY <1>0, <3>1, HaltedWheel
  <2> QED BY <1>1, <1>2, <2>1, <2>2, FrameKinds DEF FrameSwitches
<1>3. ASSUME NEW rpm \in Estimates, NEW duty \in Duties, Con(rpm, duty)
      PROVE  HardlyBackwards'
  BY <1>0, <1>3, ConWheels DEF HardlyBack, StandsStill
<1>4. CASE Fine \/ Tick BY <1>0, <1>4, OtherWheels
<1> QED BY <1>1, <1>2, <1>3, <1>4, Senses DEF Next, ConStep

\* The line policy is that of the last sample with a line.
LEMMA TurnsStep ==
  ASSUME AgvTypeOK, TurnsToLine, SeenInv, [Next]_vars
  PROVE  TurnsToLine' /\ SeenInv'
<1> USE DEF TurnsToLine, SeenInv
<1>1. CASE UNCHANGED traceVars BY <1>1 DEF traceVars
<1>2. CASE UNCHANGED <<tracePolicy, lastIOL, seen>> BY <1>2
<1>3. ASSUME NEW ir \in IrStates, Trace(ir) PROVE TurnsToLine' /\ SeenInv'
  <2>1. lastIOL' = ir /\ seen' = IF ir = {} THEN seen ELSE ir BY <1>3 DEF Trace
  <2>2. tracePolicy \in Policies /\ ir \subseteq {"left", "center", "right"}
    BY DriveSets DEF AgvTypeOK
  <2>3. CASE ir = lastIOL
    <3>1. seen' = seen BY <2>1, <2>3
    <3>2. \/ tracePolicy' = tracePolicy
          \/ tracePolicy = "LEFT_SOFT" /\ tracePolicy' = "LEFT"
          \/ tracePolicy = "RIGHT_SOFT" /\ tracePolicy' = "RIGHT"
      BY <1>3, <2>3 DEF Trace, Sharp
    <3> QED BY <2>1, <2>3, <3>1, <3>2
  <2>4. CASE ir # lastIOL
    BY <1>3, <2>1, <2>2, <2>4 DEF Trace, Soft, Policies
  <2> QED BY <2>3, <2>4
<1>4. CASE FrameEnds BY <1>1, <1>4 DEF FrameEnds
<1>5. CASE Tick BY <1>2, <1>5 DEF Tick
<1>6. CASE ConStep \/ Fine BY <1>1, <1>6 DEF ConStep, Con, Fine
<1>7. CASE \E c \in Commands : Receive(c) BY <1>1, <1>7 DEF Receive
<1>8. CASE \E ir \in IrStates :
             FastWithoutRange(ir) \/ \E range \in {"near", "far", "none"} : Fast(ir, range)
  BY <1>3, <1>8 DEF Fast, FastWithoutRange
<1>9. CASE UNCHANGED vars BY <1>1, <1>9 DEF vars
<1> QED BY <1>4, <1>5, <1>6, <1>7, <1>8, <1>9 DEF Next

-----------------------------------------------------------------------------
(* The theorems *)

\* What the sketch starts with is typed.
LEMMA StartTypes ==
  /\ <<>> \in Seq([cmd : Commands, n : Nat]) /\ Len(<<>>) = 0
  /\ 0 \in 0..RangeTicks /\ 0 \in 0..SharpTicks /\ 0 \in 0..MaxCommands
  /\ NewWheel \in WheelRecord /\ NewWheel.power = 0
<1>1. <<>> \in Seq([cmd : Commands, n : Nat]) /\ Len(<<>>) = 0 OBVIOUS
<1>2. 0 \in 0..RangeTicks /\ 0 \in 0..SharpTicks /\ 0 \in 0..MaxCommands BY DriveTicks
<1>3. NewWheel \in WheelRecord /\ NewWheel.power = 0
  BY ZeroFits DEF NewWheel, WheelRecord
<1> QED BY <1>1, <1>2, <1>3

\* The initial state.
LEMMA AgvInit == Init => AInv
<1> SUFFICES ASSUME Init PROVE AInv OBVIOUS
<1>1. AgvTypeOK BY StartTypes DEF Init, AgvTypeOK, DriveStates, Policies
<1>2. NoPowerAtStop /\ FlagCoversObstacle BY DEF Init, NoPowerAtStop, FlagCoversObstacle
<1>3. HardlyBackwards
  <2>1. \A i \in Wheels : wheel[i].power = 0 BY StartTypes DEF Init
  <2>2. ~(0 < -9) OBVIOUS
  <2> QED BY <2>1, <2>2 DEF HardlyBackwards
<1>4. TurnsToLine /\ SeenInv BY DEF Init, TurnsToLine, SeenInv
<1>5. ModeInv /\ StillInv
  <2>1. mode = 1 /\ drivestate = "" BY DEF Init
  <2>2. 1 # -1 /\ 1 # 2 OBVIOUS
  <2> QED BY <2>1, <2>2 DEF ModeInv, StillInv
<1>6. InputInv
  <2>1. stoppedAt = 0 /\ count = 0 /\ Len(input) = 0 BY StartTypes DEF Init
  <2>2. ~ \E i \in 1..Len(input) : TRUE BY <2>1
  <2> QED BY <2>1, <2>2 DEF InputInv
<1> QED BY <1>1, <1>2, <1>3, <1>4, <1>5, <1>6 DEF AInv

\* A wheel that stands still has no power.
LEMMA StillHasNoPower == StillInv => NoPowerAtStop
BY DEF StillInv, NoPowerAtStop, StandsStill

\* The inductive invariant.
THEOREM AgvInvariance == Spec => []AInv
<1>0. StillInv => NoPowerAtStop BY StillHasNoPower
<1>2. StillInv' => NoPowerAtStop' BY <1>0, PTL
<1>1. ASSUME AInv, [Next]_vars PROVE AInv'
  <2>1. AgvTypeOK' BY <1>1, AgvTypeStep DEF AInv
  <2>2. ModeInv' /\ InputInv' BY <1>1, ModeStep, InputStep DEF AInv
  <2>3. FlagCoversObstacle' BY <1>1, FlagStep DEF AInv
  <2>4. StillInv' BY <1>1, StillStep DEF AInv
  <2>5. HardlyBackwards' BY <1>1, BackwardsStep DEF AInv
  <2>6. NoPowerAtStop' BY <1>2, <2>4
  <2>7. TurnsToLine' /\ SeenInv' BY <1>1, TurnsStep DEF AInv
  <2> QED BY <2>1, <2>2, <2>3, <2>4, <2>5, <2>6, <2>7 DEF AInv
<1> QED BY <1>1, AgvInit, PTL DEF Spec

\* At an emergency stop and at an obstacle no wheel gets power (lineTrace, emergencyStop,
\* Wheel::stop, updateMotor).
THEOREM NoPowerAtStopHolds == Spec => []NoPowerAtStop
<1>1. AInv => NoPowerAtStop BY DEF AInv
<1> QED BY <1>1, AgvInvariance, PTL

\* A measured obstacle holds the flag until a free range or obstacleTimeOut without echo
\* (updateFast).
THEOREM FlagCoversObstacleHolds == Spec => []FlagCoversObstacle
<1>1. AInv => FlagCoversObstacle BY DEF AInv
<1> QED BY <1>1, AgvInvariance, PTL

\* Outside a startup pulse no wheel is driven backwards by more than 9 of 255
\* (updateMotor).
THEOREM HardlyBackwardsHolds == Spec => []HardlyBackwards
<1>1. AInv => HardlyBackwards BY DEF AInv
<1> QED BY <1>1, AgvInvariance, PTL

\* The trace policy is that of the last sample in which the line was seen
\* (updateTracePolicy).
THEOREM TurnsToLineHolds == Spec => []TurnsToLine
<1>1. AInv => TurnsToLine BY DEF AInv
<1> QED BY <1>1, AgvInvariance, PTL

\* An emergency stop is left only by a command sent after it was carried out
\* (getSerialCommand, doSerialCommand).
THEOREM StopHoldsHolds == Spec => StopHolds
<1> DEFINE Left == mode = -1 /\ mode' # -1 => input # <<>> /\ input[1].n > stoppedAt
<1>1. ASSUME AInv, [Next]_vars PROVE [Left]_vars
  <2> SUFFICES ASSUME mode' # mode PROVE input # <<>> /\ input[1].n > stoppedAt OBVIOUS
  <2>1. FrameEnds
    BY <1>1, Senses DEF Next, ConStep, Con, Fine, Tick
  <2>2. input # <<>> /\ input \in Seq([cmd : Commands, n : Nat])
    BY <1>1, <2>1, FrameKinds DEF AInv, AgvTypeOK
  <2>3. 1 \in 1..Len(input) BY <2>2
  <2> QED BY <1>1, <2>2, <2>3 DEF AInv, InputInv
<1>2. AInv /\ [Next]_vars => [Left]_vars BY <1>1
<1> QED BY <1>2, AgvInvariance, PTL DEF Spec, StopHolds

\* While the state is STOP no wheel gains duty (drive, updateMotor).
THEOREM StopOnlyBrakesHolds == Spec => StopOnlyBrakes
<1> DEFINE Brakes == drivestate = "STOP" /\ drivestate' = "STOP" =>
                       \A i \in Wheels : wheel'[i].cur <= wheel[i].cur
<1>1. ASSUME AInv, [Next]_vars PROVE [Brakes]_vars
  <2> SUFFICES ASSUME drivestate = "STOP", drivestate' = "STOP", NEW i \in Wheels
               PROVE  wheel'[i].cur <= wheel[i].cur
    OBVIOUS
  <2>1. wheel[i] \in WheelRecord /\ wheel[i].cur \in 0..255 /\ AgvTypeOK
    BY <1>1, Fields DEF AInv, AgvTypeOK
  <2>2. CASE wheel' = wheel BY <2>1, <2>2
  <2>3. CASE FrameEnds
    BY <2>1, <2>2, <2>3, FrameKinds DEF FrameSets, FrameHalts, FrameSwitches
  <2>4. ASSUME NEW rpm \in Estimates, NEW duty \in Duties, Con(rpm, duty)
        PROVE  wheel'[i].cur <= wheel[i].cur
    BY <2>1, <2>4, ConWheels DEF StandsStill
  <2>5. CASE Fine \/ Tick
    <3>1. wheel[i].dir = 0 /\ ~wheel[i].pulse BY <1>1 DEF AInv, StillInv
    <3> QED BY <2>1, <2>5, <3>1, OtherWheels
  <2> QED BY <1>1, <2>2, <2>3, <2>4, <2>5, Senses DEF Next, ConStep
<1>2. AInv /\ [Next]_vars => [Brakes]_vars BY <1>1
<1> QED BY <1>2, AgvInvariance, PTL DEF Spec, StopOnlyBrakes
=============================================================================
