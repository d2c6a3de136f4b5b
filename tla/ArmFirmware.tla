---------------------------- MODULE ArmFirmware ----------------------------
(***************************************************************************)
(* firmware/robot_arm_esp32/robot_arm_esp32.ino: one loop serves one TCP   *)
(* client at a time, reads its command lines byte by byte, acknowledges    *)
(* each, and relays to it what the AGV's Uno sends over UART2.             *)
(*                                                                         *)
(* A command line is LineLength[k] characters, written k, and a Newline; a *)
(* prefix of a valid command may itself parse (90,90,90,9), so the parser  *)
(* accepts any nonempty run of one valid command's characters.  An AGV     *)
(* line reaches the UART in two pieces, of which the second ends it.  What *)
(* the client wrote may arrive late: available() may say 0 at any time.    *)
(***************************************************************************)
EXTENDS Integers, Sequences, FiniteSets

CONSTANTS
  BufferSize,   \* kCommandBufferSize
  Commands,     \* lines the client may send
  Valid,        \* those that parse as four angles
  LineLength,   \* their lengths
  MaxConns,     \* bound: connections
  MaxLines,     \* bound: command lines, on all connections together
  MaxAgvLines   \* bound: lines of the Uno

ASSUME FirmwareAssumption ==
  /\ BufferSize \in Nat \ {0}
  /\ Commands \subseteq Nat \ {0} /\ Valid \subseteq Commands
  /\ LineLength \in [Commands -> Nat \ {0}]
  /\ MaxConns \in Nat /\ MaxLines \in Nat /\ MaxAgvLines \in Nat

Conns == 1..MaxConns
None == 0
Newline == 0

Line(k) == [i \in 1..LineLength[k] |-> k]

\* What a connection carries to the client: ACK lines and pieces of AGV lines.
Ack(ok) == <<"ack", ok>>
Piece(n, last) == <<"agv", n, last>>
IsAck(item) == item[1] = "ack"

VARIABLES
  conn,      \* the client being served
  phase,     \* where loop() is: wait, consume, relay
  buffer,    \* commandBuffer up to commandLength
  overflow,  \* commandOverflow
  uart,      \* bytes of the Uno not read yet
  opened, closed,  \* TCP connections made, and closed by the client
  inbox, outbox,   \* bytes of each connection, to and from the device
  served,    \* connections accepted so far
  uno,       \* the pieces the Uno has sent
  lines, moves  \* history: lines sent, and angles applied, per connection

deviceVars == <<conn, phase, buffer, overflow, served>>
clientVars == <<opened, closed, lines>>
vars == <<deviceVars, clientVars, uart, uno, inbox, outbox, moves>>

Init ==
  /\ conn = None /\ phase = "wait"
  /\ buffer = <<>> /\ overflow = FALSE
  /\ uart = <<>> /\ uno = 0
  /\ opened = 0 /\ served = 0
  /\ closed = [g \in Conns |-> FALSE]
  /\ inbox = [g \in Conns |-> <<>>]
  /\ outbox = [g \in Conns |-> <<>>]
  /\ lines = [g \in Conns |-> <<>>]
  /\ moves = [g \in Conns |-> <<>>]

-----------------------------------------------------------------------------
(* The loop *)

\* Mutant: an overlong line spoils every line after it.
ResetLength == buffer' = <<>> /\ UNCHANGED overflow

ResetCommand == buffer' = <<>> /\ overflow' = FALSE

\* discardAgvBytes, while no client waits.
DiscardAgvBytes ==
  /\ conn = None /\ served = opened
  /\ uart' = <<>>
  /\ UNCHANGED <<deviceVars, clientVars, uno, inbox, outbox, moves>>

\* server.available() returns the next client.
AcceptClient ==
  /\ conn = None /\ served < opened
  /\ served' = served + 1
  /\ conn' = served + 1
  /\ phase' = "consume"
  /\ ResetCommand
  /\ UNCHANGED <<clientVars, uart, uno, inbox, outbox, moves>>

\* parseAngleCommand
ParsesAsAngles(text) ==
  /\ text # <<>>
  /\ \E k \in Valid : \A i \in 1..Len(text) : text[i] = k

\* Mutant: the flag is not looked at.
RejectUnparsed == ~ParsesAsAngles(buffer)

Reject == overflow \/ ~ParsesAsAngles(buffer)

\* processCommand
ProcessCommand ==
  /\ outbox' = [outbox EXCEPT ![conn] = Append(@, Ack(~Reject))]
  /\ moves' = IF Reject THEN moves ELSE [moves EXCEPT ![conn] = Append(@, buffer)]
  /\ ResetCommand

\* Mutant: no room is kept for the '\0'.
StoreByteToTheEnd(char) ==
  /\ IF overflow \/ Len(buffer) >= BufferSize
       THEN overflow' = TRUE /\ UNCHANGED buffer
       ELSE buffer' = Append(buffer, char) /\ UNCHANGED overflow
  /\ UNCHANGED <<outbox, moves>>

\* A character of a command is stored, unless the buffer is full.
StoreByte(char) ==
  /\ IF overflow \/ Len(buffer) + 1 >= BufferSize
       THEN overflow' = TRUE /\ UNCHANGED buffer
       ELSE buffer' = Append(buffer, char) /\ UNCHANGED overflow
  /\ UNCHANGED <<outbox, moves>>

\* Mutant: after an overflow the newline is dropped with the rest.
HandleByteDropping(byte) ==
  IF byte = Newline /\ ~overflow THEN ProcessCommand ELSE StoreByte(byte)

HandleByte(byte) ==
  IF byte = Newline THEN ProcessCommand ELSE StoreByte(byte)

\* consumeClientBytes, one turn of its loop.
ConsumeByte ==
  /\ phase = "consume" /\ inbox[conn] # <<>>
  /\ HandleByte(Head(inbox[conn]))
  /\ inbox' = [inbox EXCEPT ![conn] = Tail(@)]
  /\ UNCHANGED <<conn, phase, served, clientVars, uart, uno>>

\* consumeClientBytes ends: nothing more has arrived for now.
EndConsume ==
  /\ phase = "consume"
  /\ phase' = "relay"
  /\ UNCHANGED <<conn, buffer, overflow, served, clientVars, uart, uno, inbox,
                 outbox, moves>>

\* relayAgvBytes, one turn of its loop.
RelayByte ==
  /\ phase = "relay" /\ uart # <<>>
  /\ outbox' = [outbox EXCEPT ![conn] = Append(@, Head(uart))]
  /\ uart' = Tail(uart)
  /\ UNCHANGED <<deviceVars, clientVars, uno, inbox, moves>>

\* relayAgvBytes ends with the UART empty, and client.connected() holds.
EndRelay ==
  /\ phase = "relay" /\ uart = <<>>
  /\ ~closed[conn] \/ inbox[conn] # <<>>
  /\ phase' = "consume"
  /\ UNCHANGED <<conn, buffer, overflow, served, clientVars, uart, uno, inbox,
                 outbox, moves>>

\* client.connected() is false: what was not read is gone.
StopClient ==
  /\ phase = "relay" /\ uart = <<>> /\ closed[conn]
  /\ conn' = None /\ phase' = "wait"
  /\ ResetCommand
  /\ UNCHANGED <<served, clientVars, uart, uno, inbox, outbox, moves>>

-----------------------------------------------------------------------------
(* The client at the other end, and the Uno *)

ClientConnects ==
  /\ opened < MaxConns
  /\ opened' = opened + 1
  /\ UNCHANGED <<deviceVars, closed, lines, uart, uno, inbox, outbox, moves>>

ClientSends(g, k) ==
  /\ g <= opened /\ ~closed[g]
  /\ Cardinality(UNION {{h} \X DOMAIN lines[h] : h \in Conns}) < MaxLines
  /\ lines' = [lines EXCEPT ![g] = Append(@, k)]
  /\ inbox' = [inbox EXCEPT ![g] = @ \o Append(Line(k), Newline)]
  /\ UNCHANGED <<deviceVars, opened, closed, uart, uno, outbox, moves>>

\* The client closes, perhaps in the middle of a line.
ClientCloses(g, k) ==
  /\ g <= opened /\ ~closed[g]
  /\ closed' = [closed EXCEPT ![g] = TRUE]
  /\ \E n \in 0..LineLength[k] :
       inbox' = [inbox EXCEPT ![g] = @ \o SubSeq(Line(k), 1, n)]
  /\ UNCHANGED <<deviceVars, opened, lines, uart, uno, outbox, moves>>

\* The Uno sends the next piece of its lines.
UnoSends ==
  /\ uno < 2 * MaxAgvLines
  /\ uart' = Append(uart, Piece(uno \div 2, uno % 2 = 1))
  /\ uno' = uno + 1
  /\ UNCHANGED <<deviceVars, clientVars, inbox, outbox, moves>>

-----------------------------------------------------------------------------
Loop ==
  \/ DiscardAgvBytes \/ AcceptClient \/ ConsumeByte \/ EndConsume
  \/ RelayByte \/ EndRelay \/ StopClient

Environment ==
  \/ ClientConnects \/ UnoSends
  \/ \E g \in Conns, k \in Commands : ClientSends(g, k) \/ ClientCloses(g, k)

Next == Loop \/ Environment

Spec == Init /\ [][Next]_vars

\* The loop runs, and what the client wrote arrives in the end.
FairSpec == Spec /\ WF_vars(Loop) /\ SF_vars(ConsumeByte)

-----------------------------------------------------------------------------
Bytes == Commands \cup {Newline}
Pieces == {Piece(n, last) : n \in 0..MaxAgvLines - 1, last \in BOOLEAN}
Items == {Ack(ok) : ok \in BOOLEAN} \cup Pieces

\* Every variable has its type; the command buffer never fills, so that
\* processCommand has room for its '\0'.
FirmwareTypeOK ==
  /\ conn \in 0..served /\ phase \in {"wait", "consume", "relay"}
  /\ conn = None <=> phase = "wait"
  /\ buffer \in Seq(Commands) /\ Len(buffer) < BufferSize
  /\ overflow \in BOOLEAN
  /\ served \in 0..opened /\ opened \in 0..MaxConns
  /\ uart \in Seq(Pieces) /\ uno \in 0..2 * MaxAgvLines
  /\ closed \in [Conns -> BOOLEAN]
  /\ inbox \in [Conns -> Seq(Bytes)] /\ outbox \in [Conns -> Seq(Items)]
  /\ lines \in [Conns -> Seq(Commands)]
  /\ moves \in [Conns -> Seq(Seq(Commands))]

AckPositions(g) == {i \in DOMAIN outbox[g] : IsAck(outbox[g][i])}
Acks(g) == Cardinality(AckPositions(g))

\* A line is obeyed if it parses and fits the buffer.
Obeyed(k) == k \in Valid /\ LineLength[k] < BufferSize

AnswersOn(g) ==
  \A i \in AckPositions(g) :
    LET n == Cardinality({j \in AckPositions(g) : j <= i})
    IN  n <= Len(lines[g]) /\ outbox[g][i] = Ack(Obeyed(lines[g][n]))

\* "Exactly one ACK is emitted": on each connection the n-th ACK answers the
\* n-th line the client sent on it, whatever came before on this connection
\* or on one that broke in the middle of a line.
AnswersInOrder == \A g \in Conns : AnswersOn(g)

\* How many of the first n lines on a connection are obeyed.
ObeyedAmong(g, n) == Cardinality({m \in 1..n : Obeyed(lines[g][m])})

MovesOn(g) ==
  /\ Len(moves[g]) = ObeyedAmong(g, Acks(g))
  /\ \A n \in 1..Acks(g) :
       Obeyed(lines[g][n]) => moves[g][ObeyedAmong(g, n)] = Line(lines[g][n])

\* The servos follow whole commands of the served client, once each and in
\* order: never the truncation of one, never the end of one joined to another.
MovesAsSent == \A g \in Conns : MovesOn(g)

IsPiece(item) == item[1] = "agv"

\* The lines of the served client are all answered once it has sent the last,
\* unless it closes: neither telemetry nor an overlong line keeps the loop from it.
LinesAnswered ==
  \A g \in Conns :
    (conn = g /\ Acks(g) < Len(lines[g])) ~> (closed[g] \/ Acks(g) = Len(lines[g]))

\* "so newline framing is preserved for the Backend's multiplexed receiver":
\* what follows the beginning of an AGV line is the end of that line.
FramingPreserved ==
  \A g \in Conns : \A i \in 1..Len(outbox[g]) - 1 :
    LET item == outbox[g][i]
    IN  IsPiece(item) /\ ~item[3] => outbox[g][i + 1] = Piece(item[2], TRUE)
=============================================================================
