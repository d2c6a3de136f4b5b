--------------------------- MODULE ArmFirmwareInv ---------------------------
(***************************************************************************)
(* The inductive invariant behind AnswersInOrder and MovesAsSent of        *)
(* ArmFirmware.  Both depend on the bytes that are still to be read: these *)
(* are the lines not answered yet, of which the first may be in the buffer *)
(* in part, and after them what a client wrote before it broke off.        *)
(***************************************************************************)
EXTENDS ArmFirmware

\* The lines that were not read to their end.
Unread(g) == Acks(g) + 1 .. Len(lines[g])

\* The n-th line of connection g has its newline at end[n] of what is to be read.
Layout(g, end) ==
  /\ \A n \in Unread(g) : inbox[g][end[n]] = Newline
  /\ \A n \in Unread(g) : n + 1 \in Unread(g) =>
       end[n + 1] = end[n] + LineLength[lines[g][n + 1]] + 1
  /\ \A n, m \in Unread(g) : n < m => end[n] < end[m]
  /\ \A n \in Unread(g) : \A i \in 1..Len(inbox[g]) :
       end[n] - LineLength[lines[g][n]] <= i /\ i < end[n] => inbox[g][i] = lines[g][n]

\* What follows the last newline is the beginning of a line that never ends.
Trailing(g, end) ==
  /\ \A i \in 1..Len(inbox[g]) :
       (\A n \in Unread(g) : end[n] < i) => closed[g] /\ inbox[g][i] # Newline
  /\ ~closed[g] /\ Unread(g) # {} => end[Len(lines[g])] = Len(inbox[g])

\* The buffer holds c characters of the line k, or as many as fit.
Holds(k, c) ==
  /\ overflow <=> c >= BufferSize
  /\ Len(buffer) = IF c < BufferSize THEN c ELSE BufferSize - 1
  /\ \A i \in 1..Len(buffer) : buffer[i] = k

\* The characters of the first unread line that were read already.
ReadOf(g, end) ==
  LET n == Acks(g) + 1 IN LineLength[lines[g][n]] + 1 - end[n]

Begun(g, end) ==
  /\ Unread(g) # {} =>
       IF g = conn THEN /\ ReadOf(g, end) >= 0
                        /\ Holds(lines[g][Acks(g) + 1], ReadOf(g, end))
                   ELSE ReadOf(g, end) = 0
  /\ g = conn /\ Unread(g) = {} /\ ~closed[g] => buffer = <<>> /\ ~overflow

\* The connections the device has not done with.
Live == {g \in Conns : g = conn \/ g > served}

Stream(g) ==
  \E end \in [Unread(g) -> 1..Len(inbox[g])] :
    Layout(g, end) /\ Trailing(g, end) /\ Begun(g, end)

StreamInv == \A g \in Live : Stream(g)

\* A connection that was not accepted has nothing.
FreshInv == \A g \in Conns : g > served => outbox[g] = <<>> /\ moves[g] = <<>>

\* What a connection was answered, and what was obeyed for it.
HistoryOn(g) == Acks(g) <= Len(lines[g]) /\ AnswersOn(g) /\ MovesOn(g)

\* Why the firmware answers and obeys what was sent: no newline but that of a
\* whole line is read, and then the buffer holds this line or has overflowed.
FInv ==
  /\ FirmwareTypeOK /\ FreshInv /\ StreamInv
  /\ \A g \in Conns : HistoryOn(g)
=============================================================================
