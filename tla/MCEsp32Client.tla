--------------------------- MODULE MCEsp32Client ---------------------------
(* Instances of Esp32Client for TLC: two GUI sessions, of which one or both *)
(* use the connection buttons.                                              *)
EXTENDS Esp32ClientInv, TLC

CONSTANTS c1, c2

OneConnector == {c1}
BothConnect == {c1, c2}

\* Sound only where both sessions connect and no liveness is checked.
SessionSymmetry == Permutations({c1, c2})
=============================================================================
