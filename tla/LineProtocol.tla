---------------------------- MODULE LineProtocol ----------------------------
(***************************************************************************)
(* The lines the ESP32 sends (backend/parser.py).  A line is the sequence  *)
(* of its comma-separated fields, stripped; <<"">> is the empty line.  A   *)
(* field is a word, "bytes" when it is not UTF-8, or one of Numbers, which *)
(* stand for what int() and float() make of a text.                        *)
(***************************************************************************)
EXTENDS Integers, Sequences

Integral == {"int", "-int"}
Numbers == Integral \cup {"real", "-real", "inf"}
Finite == Numbers \ {"inf"}
Negative == {"-int", "-real"}

Rejected == [system |-> "none"]
Ack(ok) == [system |-> "ARM", ok |-> ok]
Event(event) == [system |-> "AGV", event |-> event]

\* int() and float() of the six values, their finiteness and the sign of the RPMs.
ValuesOK(line) ==
  /\ line[3] \in Finite
  /\ \A i \in 4..6 : line[i] \in Integral
  /\ \A i \in 7..8 : line[i] \in Finite \ Negative

\* Mutant: an RPM that is not a plain number is let through.
ValuesAnySign(line) ==
  /\ line[3] \in Numbers
  /\ \A i \in 4..6 : line[i] \in Integral
  /\ \A i \in 7..8 : line[i] \in Numbers

ParseAgv(line) ==
  CASE Len(line) = 2 /\ line[2] = "DEST" -> Event("DEST")
    [] Len(line) = 8 /\ line[2] \in {"TRACING", "OBSTACLE", "STOP"} ->
         (IF ValuesOK(line) THEN Event(line[2]) ELSE Rejected)
    [] OTHER -> Rejected

\* parse_esp32_line; Rejected stands for ProtocolError.
ParseLine(line) ==
  IF \E i \in DOMAIN line : line[i] = "bytes" THEN Rejected
  ELSE CASE line = <<"OK">> -> Ack(TRUE)
         [] line[1] = "ARM_ACK" ->
              (IF Len(line) = 2 /\ line[2] \in {"OK", "ERROR"} THEN Ack(line[2] = "OK")
                                                               ELSE Rejected)
         [] line[1] = "AGV" -> ParseAgv(line)
         [] OTHER -> Rejected
=============================================================================
