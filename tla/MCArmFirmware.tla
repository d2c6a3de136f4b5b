--------------------------- MODULE MCArmFirmware ---------------------------
(* Instances of ArmFirmware for TLC: a buffer that holds one character, a  *)
(* command that fits it, one that is a character too long and one that     *)
(* is no command.                                                          *)
EXTENDS ArmFirmwareInv

TwoCommands == {1, 2}
ThreeLines == 1..3
ThreeLengths == <<1, 2, 1>>
=============================================================================
