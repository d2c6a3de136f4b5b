------------------------- MODULE ArmFirmware_proofs -------------------------
(***************************************************************************)
(* Proof that the firmware's command buffer never fills, that it answers   *)
(* the lines of a connection in order, one ACK each, and that the servos   *)
(* follow whole commands: for any buffer size, commands, connections and   *)
(* lines.  The invariant is FInv of ArmFirmwareInv; most of the work is to *)
(* follow where each line ends among the bytes still to be read.           *)
(***************************************************************************)
EXTENDS ArmFirmwareInv, FiniteSetTheorems, TLAPS

\* What arrives at the head of a nonempty stream, and what is left of it.
LEMMA TakeHead ==
  ASSUME NEW S, NEW s \in Seq(S), s # <<>>
  PROVE  Head(s) \in S /\ Tail(s) \in Seq(S)
OBVIOUS

\* An empty buffer has room.
LEMMA EmptyBuffer ==
  /\ 0 < BufferSize /\ Len(<<>>) = 0
  /\ \A S : <<>> \in Seq(S)
BY FirmwareAssumption

\* The messages on the connection to the client.
LEMMA ItemTypes ==
  /\ \A ok \in BOOLEAN : Ack(ok) \in Items
  /\ \A n \in 0..MaxAgvLines - 1, last \in BOOLEAN : Piece(n, last) \in Pieces
  /\ \A item \in Pieces : item \in Items /\ ~IsAck(item)
  /\ \A ok : IsAck(Ack(ok))
<1> DEFINE Acknowledgements == {Ack(ok) : ok \in BOOLEAN}
<1>1. Items = Acknowledgements \cup Pieces BY DEF Items
<1>2. \A ok \in BOOLEAN : Ack(ok) \in Acknowledgements BY Zenon
<1>3. \A n \in 0..MaxAgvLines - 1, last \in BOOLEAN : Piece(n, last) \in Pieces
  BY DEF Pieces
<1>4. \A ok : IsAck(Ack(ok)) BY DEF IsAck, Ack
<1>5. ASSUME NEW item \in Pieces PROVE ~IsAck(item)
  BY DEF Pieces, Piece, IsAck
<1> HIDE DEF Acknowledgements
<1> QED BY <1>1, <1>2, <1>3, <1>4, <1>5

LEMMA InitFirmwareTypes == Init => FirmwareTypeOK
<1> SUFFICES ASSUME Init PROVE FirmwareTypeOK OBVIOUS
<1>1. /\ conn = 0 /\ phase = "wait" /\ buffer = <<>> /\ overflow = FALSE
      /\ uart = <<>> /\ uno = 0 /\ opened = 0 /\ served = 0
  BY DEF Init, None
<1>2. /\ buffer \in Seq(Commands) /\ Len(buffer) < BufferSize /\ uart \in Seq(Pieces)
  BY <1>1, EmptyBuffer
<1>3. /\ closed \in [Conns -> BOOLEAN]
      /\ inbox \in [Conns -> Seq(Bytes)] /\ outbox \in [Conns -> Seq(Items)]
      /\ lines \in [Conns -> Seq(Commands)] /\ moves \in [Conns -> Seq(Seq(Commands))]
  BY EmptyBuffer DEF Init
<1>4. 0 \in 0..0 /\ 0 \in 0..MaxConns /\ 0 \in 0..2 * MaxAgvLines
  BY FirmwareAssumption
<1> QED BY <1>1, <1>2, <1>3, <1>4 DEF FirmwareTypeOK, None

\* While a client is served it is one of the connections.
LEMMA ServedClient ==
  ASSUME FirmwareTypeOK, phase # "wait"
  PROVE  conn \in Conns
BY FirmwareAssumption DEF FirmwareTypeOK, Conns, None

\* ConsumeByte: a character is stored only where a later '\0' still fits.
LEMMA ConsumeByteTypes ==
  ASSUME FirmwareTypeOK, ConsumeByte
  PROVE  FirmwareTypeOK'
<1>1. conn \in Conns BY ServedClient DEF ConsumeByte
<1>2. /\ inbox \in [Conns -> Seq(Bytes)] /\ outbox \in [Conns -> Seq(Items)]
      /\ moves \in [Conns -> Seq(Seq(Commands))]
      /\ buffer \in Seq(Commands) /\ Len(buffer) < BufferSize /\ overflow \in BOOLEAN
  BY DEF FirmwareTypeOK
<1> DEFINE byte == Head(inbox[conn])
<1>3. byte \in Bytes /\ Tail(inbox[conn]) \in Seq(Bytes)
  BY <1>1, <1>2, TakeHead DEF ConsumeByte
<1>4. inbox' \in [Conns -> Seq(Bytes)] BY <1>1, <1>2, <1>3 DEF ConsumeByte
<1>5. /\ outbox' \in [Conns -> Seq(Items)] /\ moves' \in [Conns -> Seq(Seq(Commands))]
      /\ buffer' \in Seq(Commands) /\ Len(buffer') < BufferSize /\ overflow' \in BOOLEAN
  <2>1. HandleByte(byte) BY DEF ConsumeByte
  <2> HIDE DEF byte
  <2>2. CASE byte = Newline
    <3>1. ProcessCommand BY <2>1, <2>2 DEF HandleByte
    <3>2. Ack(~Reject) \in Items BY ItemTypes
    <3>3. outbox' \in [Conns -> Seq(Items)]
      BY <1>1, <1>2, <3>1, <3>2 DEF ProcessCommand
    <3>4. moves' \in [Conns -> Seq(Seq(Commands))]
      BY <1>1, <1>2, <3>1 DEF ProcessCommand
    <3> QED
      BY <3>1, <3>3, <3>4, EmptyBuffer DEF ProcessCommand, ResetCommand
  <2>3. CASE byte # Newline
    <3>1. byte \in Commands BY <1>3, <2>3 DEF Bytes
    <3>2. StoreByte(byte) BY <2>1, <2>3 DEF HandleByte
    <3>3. buffer' \in Seq(Commands) /\ Len(buffer') < BufferSize
      <4>1. CASE UNCHANGED buffer BY <1>2, <4>1
      <4>2. CASE buffer' = Append(buffer, byte) /\ Len(buffer) + 1 < BufferSize
        BY <1>2, <3>1, <4>2
      <4>3. BufferSize \in Nat /\ Len(buffer) \in Nat BY <1>2, FirmwareAssumption
      <4> QED BY <3>2, <4>1, <4>2, <4>3 DEF StoreByte
    <3> QED BY <1>2, <3>2, <3>3 DEF StoreByte
  <2> QED BY <2>2, <2>3
<1>6. UNCHANGED <<conn, phase, served, opened, closed, lines, uart, uno>>
  BY DEF ConsumeByte, clientVars
<1> QED BY <1>4, <1>5, <1>6 DEF FirmwareTypeOK

LEMMA RelayByteTypes ==
  ASSUME FirmwareTypeOK, RelayByte
  PROVE  FirmwareTypeOK'
<1>1. conn \in Conns BY ServedClient DEF RelayByte
<1>2. Head(uart) \in Items /\ Tail(uart) \in Seq(Pieces)
  BY TakeHead, ItemTypes DEF RelayByte, FirmwareTypeOK
<1>3. outbox' \in [Conns -> Seq(Items)] /\ uart' \in Seq(Pieces)
  BY <1>1, <1>2 DEF RelayByte, FirmwareTypeOK
<1> QED BY <1>3 DEF RelayByte, FirmwareTypeOK, deviceVars, clientVars

\* A line the client sends, or the beginning of one, is bytes.
LEMMA LineIsBytes ==
  ASSUME NEW k \in Commands
  PROVE  /\ Line(k) \in Seq(Bytes) /\ Append(Line(k), Newline) \in Seq(Bytes)
         /\ \A n \in 0..LineLength[k] : SubSeq(Line(k), 1, n) \in Seq(Bytes)
<1>1. LineLength[k] \in Nat BY FirmwareAssumption
<1>2. Line(k) \in Seq(Bytes) /\ Len(Line(k)) = LineLength[k]
  BY <1>1 DEF Line, Bytes
<1>3. Append(Line(k), Newline) \in Seq(Bytes) BY <1>2 DEF Bytes
<1>4. ASSUME NEW n \in 0..LineLength[k] PROVE SubSeq(Line(k), 1, n) \in Seq(Bytes)
  BY <1>1, <1>2, <1>4
<1> QED BY <1>2, <1>3, <1>4

LEMMA ClientTypes ==
  ASSUME FirmwareTypeOK, NEW g \in Conns, NEW k \in Commands,
         ClientSends(g, k) \/ ClientCloses(g, k)
  PROVE  FirmwareTypeOK'
<1>1. inbox \in [Conns -> Seq(Bytes)] /\ lines \in [Conns -> Seq(Commands)]
      /\ closed \in [Conns -> BOOLEAN]
  BY DEF FirmwareTypeOK
<1>2. CASE ClientSends(g, k)
  <2>1. inbox[g] \o Append(Line(k), Newline) \in Seq(Bytes) BY <1>1, LineIsBytes
  <2>2. inbox' \in [Conns -> Seq(Bytes)] /\ lines' \in [Conns -> Seq(Commands)]
    BY <1>1, <1>2, <2>1 DEF ClientSends
  <2> QED BY <1>2, <2>2 DEF ClientSends, FirmwareTypeOK, deviceVars
<1>3. CASE ClientCloses(g, k)
  <2>1. PICK n \in 0..LineLength[k] :
          inbox' = [inbox EXCEPT ![g] = @ \o SubSeq(Line(k), 1, n)]
    BY <1>3 DEF ClientCloses
  <2>2. inbox[g] \o SubSeq(Line(k), 1, n) \in Seq(Bytes) BY <1>1, LineIsBytes
  <2>3. inbox' \in [Conns -> Seq(Bytes)] /\ closed' \in [Conns -> BOOLEAN]
    BY <1>1, <1>3, <2>1, <2>2 DEF ClientCloses
  <2> QED BY <1>3, <2>3 DEF ClientCloses, FirmwareTypeOK, deviceVars
<1> QED BY <1>2, <1>3

LEMMA UnoSendsTypes ==
  ASSUME FirmwareTypeOK, UnoSends
  PROVE  FirmwareTypeOK'
<1>1. uno \in 0..2 * MaxAgvLines /\ uno < 2 * MaxAgvLines /\ MaxAgvLines \in Nat
  BY FirmwareAssumption DEF FirmwareTypeOK, UnoSends
<1>2. uno \div 2 \in 0..MaxAgvLines - 1 BY <1>1
<1>3. (uno % 2 = 1) \in BOOLEAN OBVIOUS
<1>4. Piece(uno \div 2, uno % 2 = 1) \in Pieces BY <1>2, <1>3, ItemTypes
<1>5. uart' \in Seq(Pieces) /\ uno' \in 0..2 * MaxAgvLines
  BY <1>1, <1>4 DEF UnoSends, FirmwareTypeOK
<1> QED BY <1>5 DEF UnoSends, FirmwareTypeOK, deviceVars, clientVars

\* Types.
LEMMA FirmwareTypeStep ==
  ASSUME FirmwareTypeOK, [Next]_vars PROVE FirmwareTypeOK'
<1> USE DEF deviceVars, clientVars
<1>1. CASE UNCHANGED vars BY <1>1 DEF vars, FirmwareTypeOK
<1>2. CASE DiscardAgvBytes BY <1>2 DEF DiscardAgvBytes, FirmwareTypeOK
<1>3. CASE AcceptClient
  <2>1. buffer' \in Seq(Commands) /\ Len(buffer') < BufferSize /\ overflow' \in BOOLEAN
    BY <1>3, EmptyBuffer DEF AcceptClient, ResetCommand
  <2> QED BY <1>3, <2>1, FirmwareAssumption DEF AcceptClient, FirmwareTypeOK, None
<1>4. CASE EndConsume BY <1>4 DEF EndConsume, FirmwareTypeOK
<1>5. CASE EndRelay BY <1>5 DEF EndRelay, FirmwareTypeOK
<1>6. CASE StopClient
  <2>1. buffer' \in Seq(Commands) /\ Len(buffer') < BufferSize /\ overflow' \in BOOLEAN
    BY <1>6, EmptyBuffer DEF StopClient, ResetCommand
  <2> QED BY <1>6, <2>1, FirmwareAssumption DEF StopClient, FirmwareTypeOK, None
<1>7. CASE ClientConnects
  BY <1>7, FirmwareAssumption DEF ClientConnects, FirmwareTypeOK
<1> QED
  BY <1>1, <1>2, <1>3, <1>4, <1>5, <1>6, <1>7, ConsumeByteTypes, RelayByteTypes,
     ClientTypes, UnoSendsTypes DEF Next, Loop, Environment

\* However long the lines, and wherever a client breaks off, the command buffer
\* keeps room for the '\0' that processCommand writes.
THEOREM FirmwareTypeHolds == Spec => []FirmwareTypeOK
BY InitFirmwareTypes, FirmwareTypeStep, PTL DEF Spec

-----------------------------------------------------------------------------
(* Counting ACKs and obeyed lines. *)

\* Positions of a sequence up to one of them are finitely many.
LEMMA CountBound ==
  ASSUME NEW n \in Nat, NEW S \in SUBSET (1..n)
  PROVE  IsFiniteSet(S) /\ Cardinality(S) \in 0..n
<1>1. IsFiniteSet(1..n) /\ Cardinality(1..n) <= n BY FS_Interval
<1>2. IsFiniteSet(S) /\ Cardinality(S) <= Cardinality(1..n) BY <1>1, FS_Subset
<1>3. Cardinality(S) \in Nat /\ Cardinality(1..n) \in Nat
  BY <1>1, <1>2, FS_CardinalityType
<1> QED BY <1>1, <1>2, <1>3

\* How many there are up to n, one after the other.
LEMMA CountNext ==
  ASSUME NEW n \in Nat, NEW S
  PROVE  LET upTo(m) == {i \in 1..m : i \in S}
         IN  /\ Cardinality(upTo(n)) \in 0..n
             /\ Cardinality(upTo(n + 1)) =
                  IF n + 1 \in S THEN Cardinality(upTo(n)) + 1 ELSE Cardinality(upTo(n))
             /\ \A m \in 1..n : m \in S =>
                  Cardinality(upTo(m)) \in 1..Cardinality(upTo(n))
<1> DEFINE upTo(m) == {i \in 1..m : i \in S}
<1>1. \A m \in Nat : upTo(m) \in SUBSET (1..m) OBVIOUS
<1>2. \A m \in Nat : IsFiniteSet(upTo(m)) /\ Cardinality(upTo(m)) \in 0..m
  BY <1>1, CountBound
<1>3. Cardinality(upTo(n + 1)) =
        IF n + 1 \in S THEN Cardinality(upTo(n)) + 1 ELSE Cardinality(upTo(n))
  <2>1. CASE n + 1 \in S
    <3>1. upTo(n + 1) = upTo(n) \cup {n + 1} /\ n + 1 \notin upTo(n) BY <2>1
    <3> HIDE DEF upTo
    <3> QED BY <1>2, <2>1, <3>1, FS_AddElement
  <2>2. CASE n + 1 \notin S
    <3>1. upTo(n + 1) = upTo(n) BY <2>2
    <3> QED BY <2>2, <3>1
  <2> QED BY <2>1, <2>2
<1>4. ASSUME NEW m \in 1..n, m \in S
      PROVE  Cardinality(upTo(m)) \in 1..Cardinality(upTo(n))
  <2>1. upTo(m) \in SUBSET upTo(n) /\ m \in upTo(m) BY <1>4
  <2> HIDE DEF upTo
  <2>2. Cardinality(upTo(m)) <= Cardinality(upTo(n)) BY <1>2, <2>1, FS_Subset
  <2>3. Cardinality(upTo(m)) # 0 BY <1>2, <2>1, FS_EmptySet
  <2> QED BY <1>2, <2>2, <2>3
<1> QED BY <1>2, <1>3, <1>4

\* The ACKs of a connection.
LEMMA AcksCounted ==
  ASSUME FirmwareTypeOK, NEW g \in Conns
  PROVE  /\ IsFiniteSet(AckPositions(g)) /\ Acks(g) \in Nat
         /\ AckPositions(g) \in SUBSET (1..Len(outbox[g])) /\ Len(outbox[g]) \in Nat
<1>1. outbox[g] \in Seq(Items) BY DEF FirmwareTypeOK
<1>2. AckPositions(g) \in SUBSET (1..Len(outbox[g])) /\ Len(outbox[g]) \in Nat
  BY <1>1 DEF AckPositions
<1> QED BY <1>2, CountBound DEF Acks

\* An ACK more, or a piece of an AGV line.
LEMMA AcksAfter ==
  ASSUME FirmwareTypeOK, NEW g \in Conns, NEW item,
         outbox'[g] = Append(outbox[g], item)
  PROVE  /\ IsAck(item) => /\ AckPositions(g)' = AckPositions(g) \cup {Len(outbox[g]) + 1}
                           /\ Acks(g)' = Acks(g) + 1
         /\ ~IsAck(item) => AckPositions(g)' = AckPositions(g) /\ Acks(g)' = Acks(g)
         /\ \A i \in AckPositions(g) : outbox'[g][i] = outbox[g][i]
         /\ outbox'[g][Len(outbox[g]) + 1] = item
<1>1. outbox[g] \in Seq(Items) BY DEF FirmwareTypeOK
<1> DEFINE last == Len(outbox[g]) + 1
<1>2. /\ DOMAIN outbox'[g] = (DOMAIN outbox[g]) \cup {last} /\ last \notin DOMAIN outbox[g]
      /\ outbox'[g][last] = item /\ \A i \in DOMAIN outbox[g] : outbox'[g][i] = outbox[g][i]
  BY <1>1
<1> HIDE DEF last
<1>3. CASE IsAck(item)
  <2>1. AckPositions(g)' = AckPositions(g) \cup {last} /\ last \notin AckPositions(g)
    BY <1>2, <1>3 DEF AckPositions
  <2> QED BY <1>2, <1>3, <2>1, AcksCounted, FS_AddElement DEF Acks, AckPositions, last
<1>4. CASE ~IsAck(item)
  <2>1. AckPositions(g)' = AckPositions(g) BY <1>2, <1>4 DEF AckPositions
  <2> QED BY <1>2, <1>4, <2>1 DEF Acks, AckPositions, last
<1> QED BY <1>3, <1>4

\* How many lines of a connection are obeyed.
LEMMA ObeyedCounted ==
  ASSUME NEW g \in Conns, NEW n \in Nat
  PROVE  /\ ObeyedAmong(g, n) \in 0..n
         /\ ObeyedAmong(g, n + 1) = IF Obeyed(lines[g][n + 1]) THEN ObeyedAmong(g, n) + 1
                                                             ELSE ObeyedAmong(g, n)
         /\ \A m \in 1..n : Obeyed(lines[g][m]) =>
              ObeyedAmong(g, m) \in 1..ObeyedAmong(g, n)
<1> DEFINE S == {i \in Nat : Obeyed(lines[g][i])}
           upTo(m) == {i \in 1..m : i \in S}
<1>1. \A m \in Nat : ObeyedAmong(g, m) = Cardinality(upTo(m))
  <2> SUFFICES ASSUME NEW m \in Nat PROVE ObeyedAmong(g, m) = Cardinality(upTo(m)) OBVIOUS
  <2>1. upTo(m) = {i \in 1..m : Obeyed(lines[g][i])} OBVIOUS
  <2> QED BY <2>1 DEF ObeyedAmong
<1>2. \A m \in Nat : m \in S <=> Obeyed(lines[g][m]) OBVIOUS
<1> HIDE DEF S
<1>3. /\ Cardinality(upTo(n)) \in 0..n
      /\ Cardinality(upTo(n + 1)) =
           IF n + 1 \in S THEN Cardinality(upTo(n)) + 1 ELSE Cardinality(upTo(n))
      /\ \A m \in 1..n : m \in S => Cardinality(upTo(m)) \in 1..Cardinality(upTo(n))
  BY ONLY n \in Nat, CountNext
<1> HIDE DEF upTo
<1> QED BY <1>1, <1>2, <1>3

\* It does not depend on later lines.
LEMMA ObeyedSame ==
  ASSUME NEW g \in Conns, NEW n \in Nat,
         \A m \in 1..n : lines'[g][m] = lines[g][m]
  PROVE  ObeyedAmong(g, n)' = ObeyedAmong(g, n)
<1>1. {m \in 1..n : Obeyed(lines[g][m])} = {m \in 1..n : Obeyed(lines'[g][m])}
  BY Zenon
<1> QED BY <1>1 DEF ObeyedAmong, Obeyed

-----------------------------------------------------------------------------
(* The buffer. *)

\* Lines are characters, and a newline is none.
LEMMA Characters ==
  /\ Newline = 0 /\ BufferSize \in Nat /\ 1 <= BufferSize
  /\ \A k \in Commands : k # Newline /\ LineLength[k] \in Nat /\ 1 <= LineLength[k]
BY FirmwareAssumption DEF Newline

\* An empty buffer has read nothing of whatever comes.
LEMMA NothingHeld ==
  ASSUME NEW k, buffer' = <<>>, overflow' = FALSE
  PROVE  Holds(k, 0)'
BY Characters DEF Holds

\* A character stored, or dropped because the buffer is full.
LEMMA StoreHolds ==
  ASSUME FirmwareTypeOK, NEW k \in Commands, NEW c \in Nat, Holds(k, c), StoreByte(k)
  PROVE  Holds(k, c + 1)'
<1>1. buffer \in Seq(Commands) /\ overflow \in BOOLEAN /\ BufferSize \in Nat
  BY Characters DEF FirmwareTypeOK
<1>2. CASE c >= BufferSize
  BY <1>1, <1>2 DEF Holds, StoreByte
<1>3. CASE c < BufferSize /\ c + 1 >= BufferSize
  <2>1. ~overflow /\ Len(buffer) = c BY <1>1, <1>3 DEF Holds
  <2>2. overflow' = TRUE /\ buffer' = buffer BY <1>1, <1>3, <2>1 DEF StoreByte
  <2> QED BY <1>1, <1>3, <2>1, <2>2 DEF Holds
<1>4. CASE c + 1 < BufferSize
  <2>1. ~overflow /\ Len(buffer) = c BY <1>1, <1>4 DEF Holds
  <2>2. overflow' = overflow /\ buffer' = Append(buffer, k)
    BY <1>1, <1>4, <2>1 DEF StoreByte
  <2>3. Len(buffer') = c + 1 BY <1>1, <2>1, <2>2
  <2>4. \A i \in 1..Len(buffer') : buffer'[i] = k
    BY <1>1, <2>1, <2>2 DEF Holds
  <2> QED BY <1>1, <1>4, <2>1, <2>2, <2>3, <2>4 DEF Holds
<1> QED BY <1>1, <1>2, <1>3, <1>4

\* A line read to its end is obeyed as a whole, or refused.
LEMMA WholeLine ==
  ASSUME FirmwareTypeOK, NEW k \in Commands, Holds(k, LineLength[k])
  PROVE  /\ ~Reject <=> Obeyed(k)
         /\ ~Reject => buffer = Line(k)
<1>1. /\ buffer \in Seq(Commands) /\ overflow \in BOOLEAN
      /\ BufferSize \in Nat /\ LineLength[k] \in Nat /\ 1 <= LineLength[k]
  BY Characters DEF FirmwareTypeOK
<1>2. CASE LineLength[k] >= BufferSize
  BY <1>1, <1>2 DEF Holds, Reject, Obeyed
<1>3. CASE LineLength[k] < BufferSize
  <2>1. /\ ~overflow /\ Len(buffer) = LineLength[k] /\ 1 \in 1..Len(buffer)
        /\ \A i \in 1..Len(buffer) : buffer[i] = k
    BY <1>1, <1>3 DEF Holds
  <2>2. buffer = Line(k) BY <1>1, <2>1 DEF Line
  <2>3. buffer # <<>> BY <1>1, <2>1
  <2>4. ParsesAsAngles(buffer) <=> k \in Valid
    BY <2>1, <2>3 DEF ParsesAsAngles
  <2> QED BY <1>3, <2>1, <2>2, <2>4 DEF Reject, Obeyed
<1> QED BY <1>1, <1>2, <1>3

-----------------------------------------------------------------------------
(* The bytes still to be read. *)

\* The connection that is served, and those after it.
LEMMA LiveConns ==
  ASSUME FirmwareTypeOK
  PROVE  /\ conn \in Conns => conn <= served /\ conn \in Live
         /\ conn \in Nat /\ served \in Nat /\ \A g \in Conns : g \in Nat /\ g # None
         /\ \A g \in Live : g \in Conns /\ (g # conn => g > served)
BY FirmwareAssumption DEF FirmwareTypeOK, Live, Conns, None

\* A connection nobody writes or reads.
LEMMA StreamFrame ==
  ASSUME NEW g \in Conns, Stream(g),
         UNCHANGED <<lines[g], inbox[g], closed[g]>>, Acks(g)' = Acks(g),
         (g = conn)' <=> g = conn,
         g = conn => UNCHANGED <<buffer, overflow>>
  PROVE  Stream(g)'
<1>1. PICK end \in [Unread(g) -> 1..Len(inbox[g])] :
        Layout(g, end) /\ Trailing(g, end) /\ Begun(g, end)
  BY DEF Stream
<1>2. Unread(g)' = Unread(g) BY DEF Unread
<1>3. Layout(g, end)' BY <1>1, <1>2 DEF Layout
<1>4. Trailing(g, end)' BY <1>1, <1>2 DEF Trailing
<1>5. Begun(g, end)'
  <2>1. ReadOf(g, end)' = ReadOf(g, end) BY DEF ReadOf
  <2>2. CASE g = conn
    <3>1. \A k, c : Holds(k, c)' = Holds(k, c) BY <2>2 DEF Holds
    <3> QED BY <1>1, <1>2, <2>1, <2>2, <3>1 DEF Begun
  <2>3. CASE g # conn
    BY <1>1, <1>2, <2>1, <2>3 DEF Begun
  <2> QED BY <2>2, <2>3
<1> QED BY <1>1, <1>2, <1>3, <1>4, <1>5 DEF Stream

\* One byte is read, of a line that ends later or the newline of a line.
LEMMA ByteGone ==
  ASSUME FirmwareTypeOK, NEW g \in Conns, inbox[g] # <<>>, inbox'[g] = Tail(inbox[g]),
         lines'[g] = lines[g], closed'[g] = closed[g],
         NEW end \in [Unread(g) -> 1..Len(inbox[g])], Layout(g, end), Trailing(g, end),
         NEW first \in Nat, Unread(g)' = first..Len(lines[g]),
         first..Len(lines[g]) \subseteq Unread(g),
         \A m \in Unread(g) : end[m] > 1 <=> m >= first,
         NEW rest, rest = [m \in first..Len(lines[g]) |-> end[m] - 1]
  PROVE  /\ rest \in [first..Len(lines[g]) -> 1..Len(inbox'[g])]
         /\ Layout(g, rest)' /\ Trailing(g, rest)'
<1> DEFINE last == Len(lines[g])
<1>1. Unread(g)' = first..last /\ last \in Nat BY DEF FirmwareTypeOK
<1>2. /\ inbox'[g] = Tail(inbox[g]) /\ lines'[g] = lines[g] /\ closed'[g] = closed[g]
      /\ inbox[g] \in Seq(Bytes) /\ lines[g] \in Seq(Commands)
  BY DEF FirmwareTypeOK
<1>3. \A m \in Unread(g) : m \in 1..last /\ LineLength[lines[g][m]] \in Nat
  <2> SUFFICES ASSUME NEW m \in Unread(g) PROVE m \in 1..last /\ lines[g][m] \in Commands
    BY Characters
  <2>1. m \in 1..last BY <1>1, AcksCounted DEF Unread
  <2> QED BY <1>2, <2>1
<1>4. /\ Len(inbox'[g]) = Len(inbox[g]) - 1 /\ Len(inbox[g]) \in Nat
      /\ \A i \in 1..Len(inbox'[g]) :
           i + 1 \in 1..Len(inbox[g]) /\ inbox'[g][i] = inbox[g][i + 1]
  BY <1>2
<1>5. \A m \in first..last : m \in Unread(g) /\ end[m] > 1 /\ end[m] \in 1..Len(inbox[g])
  <2> SUFFICES ASSUME NEW m \in first..last
               PROVE  m \in Unread(g) /\ end[m] > 1 /\ end[m] \in 1..Len(inbox[g])
    OBVIOUS
  <2>1. m \in Unread(g) /\ m >= first OBVIOUS
  <2>2. end[m] > 1 BY <2>1
  <2> QED BY <2>1, <2>2
<1>6. rest \in [first..last -> 1..Len(inbox'[g])] BY <1>4, <1>5
<1>7. \A m \in first..last : rest[m] = end[m] - 1 OBVIOUS
<1>8. Layout(g, rest)'
  <2>1. ASSUME NEW m \in first..last PROVE inbox'[g][rest[m]] = Newline
    <3>1. inbox[g][end[m]] = Newline BY <1>5 DEF Layout
    <3>2. rest[m] \in 1..Len(inbox'[g]) /\ rest[m] + 1 = end[m] BY <1>4, <1>5, <1>6, <1>7
    <3> QED BY <1>4, <3>1, <3>2
  <2>2. ASSUME NEW m \in first..last, m + 1 \in first..last
        PROVE  rest[m + 1] = rest[m] + LineLength[lines[g][m + 1]] + 1
    <3>1. end[m + 1] = end[m] + LineLength[lines[g][m + 1]] + 1
      BY <1>5, <2>2 DEF Layout
    <3>2. LineLength[lines[g][m + 1]] \in Nat
      BY <1>5, <1>3, <2>2
    <3> DEFINE x == end[m + 1]
               y == end[m]
               l == LineLength[lines[g][m + 1]]
    <3>3. rest[m] = y - 1 /\ rest[m + 1] = x - 1 /\ x \in Int /\ y \in Int /\ l \in Int
      BY <1>5, <1>7, <2>2, <3>2
    <3>4. x = y + l + 1 BY <3>1
    <3> HIDE DEF x, y, l
    <3>5. x - 1 = (y - 1) + l + 1 BY <3>3, <3>4
    <3> QED BY <3>3, <3>5 DEF l
  <2>3. ASSUME NEW m \in first..last, NEW l \in first..last, m < l
        PROVE  rest[m] < rest[l]
    <3>1. end[m] < end[l] BY <1>5, <2>3 DEF Layout
    <3> QED BY <1>5, <1>7, <3>1
  <2>4. ASSUME NEW m \in first..last, NEW i \in 1..Len(inbox'[g]),
               rest[m] - LineLength[lines[g][m]] <= i, i < rest[m]
        PROVE  inbox'[g][i] = lines[g][m]
    <3>1. i + 1 \in 1..Len(inbox[g]) /\ inbox'[g][i] = inbox[g][i + 1]
      BY <1>4
    <3>2. LineLength[lines[g][m]] \in Nat BY <1>5, <1>3
    <3>3. end[m] - LineLength[lines[g][m]] <= i + 1 /\ i + 1 < end[m]
      BY <1>5, <1>7, <2>4, <3>2
    <3> QED BY <1>5, <3>1, <3>3 DEF Layout
  <2>5. \A m \in Unread(g)' : inbox'[g][rest[m]] = Newline BY <1>1, <2>1
  <2>6. \A m \in Unread(g)' : m + 1 \in Unread(g)' =>
          rest[m + 1] = rest[m] + LineLength[lines'[g][m + 1]] + 1
    BY <1>1, <1>2, <2>2
  <2>7. \A m, l \in Unread(g)' : m < l => rest[m] < rest[l] BY <1>1, <2>3
  <2>8. \A m \in Unread(g)' : \A i \in 1..Len(inbox'[g]) :
          rest[m] - LineLength[lines'[g][m]] <= i /\ i < rest[m]
            => inbox'[g][i] = lines'[g][m]
    BY <1>1, <1>2, <2>4
  <2> QED BY <2>5, <2>6, <2>7, <2>8 DEF Layout
<1>9. Trailing(g, rest)'
  <2>1. ASSUME NEW i \in 1..Len(inbox'[g]), \A m \in first..last : rest[m] < i
        PROVE  closed[g] /\ inbox'[g][i] # Newline
    <3>1. i + 1 \in 1..Len(inbox[g]) /\ inbox'[g][i] = inbox[g][i + 1]
      BY <1>4
    <3>2. \A m \in Unread(g) : end[m] < i + 1
      <4> SUFFICES ASSUME NEW m \in Unread(g) PROVE end[m] < i + 1 OBVIOUS
      <4>1. CASE end[m] > 1
        <5>1. m \in first..last BY <1>1, <4>1 DEF Unread
        <5>2. rest[m] < i BY <2>1, <5>1
        <5>3. rest[m] = end[m] - 1 /\ end[m] \in Int /\ i \in Int BY <1>7, <5>1
        <5> QED BY <5>2, <5>3
      <4>2. CASE ~(end[m] > 1)
        <5>1. end[m] \in Nat /\ i \in Nat /\ 1 <= i OBVIOUS
        <5> QED BY <4>2, <5>1
      <4> QED BY <4>1, <4>2
    <3> QED BY <3>1, <3>2 DEF Trailing
  <2>2. ASSUME ~closed[g], first..last # {}
        PROVE  rest[last] = Len(inbox'[g])
    <3>1. last \in first..last BY <1>1, <2>2
    <3>2. end[last] = Len(inbox[g]) BY <1>5, <2>2, <3>1 DEF Trailing
    <3> QED BY <1>4, <1>5, <1>7, <3>1, <3>2
  <2> QED BY <1>1, <1>2, <2>1, <2>2 DEF Trailing
<1> QED BY <1>6, <1>7, <1>8, <1>9

\* ConsumeByte at a newline: it ends the first unread line, which is in the buffer.
LEMMA NewlineEndsLine ==
  ASSUME FirmwareTypeOK, StreamInv, ConsumeByte, NEW g, g = conn, Head(inbox[g]) = Newline
  PROVE  /\ Acks(g) + 1 \in Unread(g)
         /\ lines[g][Acks(g) + 1] \in Commands
         /\ Holds(lines[g][Acks(g) + 1], LineLength[lines[g][Acks(g) + 1]])
         /\ Acks(g)' = Acks(g) + 1 => Stream(g)'
<1>1. g \in Conns /\ g \in Live /\ conn' = g BY ServedClient, LiveConns DEF ConsumeByte
<1>2. PICK end \in [Unread(g) -> 1..Len(inbox[g])] :
        Layout(g, end) /\ Trailing(g, end) /\ Begun(g, end)
  BY <1>1 DEF StreamInv, Stream
<1> DEFINE n == Acks(g) + 1
           k == lines[g][n]
           last == Len(lines[g])
<1>3. /\ Acks(g) \in Nat /\ last \in Nat
      /\ inbox[g] \in Seq(Bytes) /\ inbox[g] # <<>>
      /\ lines[g] \in Seq(Commands)
  <2>1. Acks(g) \in Nat BY <1>1, AcksCounted
  <2> QED BY <1>1, <2>1 DEF FirmwareTypeOK, ConsumeByte
<1>4. inbox[g][1] = Newline /\ 1 \in 1..Len(inbox[g]) BY <1>3
<1>5. Unread(g) = n..last BY DEF Unread
<1>6. n \in Unread(g)
  <2>1. Unread(g) # {} BY <1>2, <1>4 DEF Trailing
  <2> QED BY <1>3, <1>5, <2>1
<1>7. k \in Commands /\ LineLength[k] \in Nat /\ k # Newline
  <2>1. k \in Commands BY <1>3, <1>5, <1>6
  <2> QED BY <2>1, Characters
<1>8. end[n] = 1
  <2>1. end[n] \in 1..Len(inbox[g]) BY <1>2, <1>6
  <2>2. end[n] - LineLength[k] <= 1
    <3>1. LineLength[k] + 1 - end[n] >= 0 BY <1>2, <1>6 DEF Begun, ReadOf
    <3> QED BY <1>7, <2>1, <3>1
  <2>3. CASE end[n] > 1
    <3>1. inbox[g][1] = k BY <1>2, <1>4, <1>6, <2>2, <2>3 DEF Layout
    <3> QED BY <1>4, <1>7, <3>1
  <2> QED BY <2>1, <2>3
<1>9. Holds(k, LineLength[k])
  <2>1. ReadOf(g, end) = LineLength[k] BY <1>7, <1>8 DEF ReadOf
  <2> QED BY <1>2, <1>6, <2>1 DEF Begun
<1>10. ASSUME Acks(g)' = n PROVE Stream(g)'
  <2>1. Unread(g)' = n + 1..last
    BY <1>10 DEF Unread, ConsumeByte, clientVars
  <2>2. /\ inbox'[g] = Tail(inbox[g])
        /\ lines'[g] = lines[g] /\ closed'[g] = closed[g]
    BY <1>1 DEF ConsumeByte, clientVars, FirmwareTypeOK
  <2>3. \A m \in Unread(g) : end[m] > 1 <=> m >= n + 1
    <3> SUFFICES ASSUME NEW m \in Unread(g) PROVE end[m] > 1 <=> m >= n + 1 OBVIOUS
    <3>1. CASE m = n BY <1>3, <1>8, <3>1
    <3>2. CASE n < m
      <4>1. end[n] < end[m] BY <1>2, <1>6, <3>2 DEF Layout
      <4> QED BY <1>2, <1>3, <1>5, <1>8, <3>2, <4>1
    <3> QED BY <1>3, <1>5, <3>1, <3>2
  <2>4. n + 1 \in Nat /\ n + 1..last \subseteq Unread(g) BY <1>3, <1>5
  <2>5. PICK rest : rest = [m \in n + 1..last |-> end[m] - 1] OBVIOUS
  <2>6. /\ rest \in [n + 1..last -> 1..Len(inbox'[g])]
        /\ Layout(g, rest)' /\ Trailing(g, rest)'
    BY <1>1, <1>2, <1>3, <2>1, <2>2, <2>3, <2>4, <2>5, ByteGone
  <2>7. buffer' = <<>> /\ overflow' = FALSE
    BY DEF ConsumeByte, HandleByte, ProcessCommand, ResetCommand
  <2>8. Begun(g, rest)'
    <3>1. ASSUME n + 1..last # {} PROVE ReadOf(g, rest)' = 0
      <4>1. n + 1 \in n + 1..last BY <1>3, <3>1
      <4>2. end[n + 1] = 1 + LineLength[lines[g][n + 1]] + 1
        BY <1>2, <1>5, <1>6, <1>8, <2>4, <4>1 DEF Layout
      <4>3. LineLength[lines[g][n + 1]] \in Nat BY <1>3, <4>1, Characters
      <4>4. rest[n + 1] = LineLength[lines[g][n + 1]] + 1
        BY <2>5, <4>1, <4>2, <4>3
      <4>5. ReadOf(g, rest)' = LineLength[lines[g][n + 1]] + 1 - rest[n + 1]
        BY <1>10, <2>2 DEF ReadOf
      <4> QED BY <4>3, <4>4, <4>5
    <3>2. \A x : Holds(x, 0)' BY <2>7, NothingHeld
    <3> QED BY <1>1, <2>1, <2>2, <2>7, <3>1, <3>2 DEF Begun
  <2> QED BY <2>1, <2>6, <2>8 DEF Stream
<1> QED BY <1>6, <1>7, <1>9, <1>10

\* ConsumeByte at a character: one more of the line that is read, or of one
\* that never ends.
LEMMA CharacterRead ==
  ASSUME FirmwareTypeOK, StreamInv, ConsumeByte, NEW g, g = conn, Head(inbox[g]) # Newline
  PROVE  /\ Stream(g)'
         /\ UNCHANGED <<outbox, moves, lines>>
<1>1. g \in Conns /\ g \in Live /\ conn' = g BY ServedClient, LiveConns DEF ConsumeByte
<1>2. PICK end \in [Unread(g) -> 1..Len(inbox[g])] :
        Layout(g, end) /\ Trailing(g, end) /\ Begun(g, end)
  BY <1>1 DEF StreamInv, Stream
<1> DEFINE n == Acks(g) + 1
           last == Len(lines[g])
           byte == Head(inbox[g])
<1>3. /\ n \in Nat /\ last \in Nat /\ Unread(g) = n..last
      /\ inbox[g] \in Seq(Bytes) /\ inbox[g] # <<>> /\ lines[g] \in Seq(Commands)
  <2>1. inbox[g] \in Seq(Bytes) /\ inbox[g] # <<>> /\ lines[g] \in Seq(Commands)
    BY <1>1 DEF FirmwareTypeOK, ConsumeByte
  <2>2. Acks(g) \in Nat BY <1>1, AcksCounted
  <2> QED BY <2>1, <2>2 DEF Unread
<1>4. inbox[g][1] = byte /\ 1 \in 1..Len(inbox[g]) BY <1>3
<1>5. StoreByte(byte) BY DEF ConsumeByte, HandleByte
<1>6. UNCHANGED <<outbox, moves, lines>> BY <1>5 DEF StoreByte, ConsumeByte, clientVars
<1>7. /\ inbox'[g] = Tail(inbox[g]) /\ lines'[g] = lines[g] /\ closed'[g] = closed[g]
  BY <1>1 DEF ConsumeByte, clientVars, FirmwareTypeOK
<1>8. Acks(g)' = Acks(g) /\ Unread(g)' = n..last
  BY <1>3, <1>6 DEF Acks, AckPositions, Unread
<1>9. \A m \in Unread(g) : end[m] > 1 <=> m >= n
  <2> SUFFICES ASSUME NEW m \in Unread(g) PROVE end[m] > 1 /\ m >= n OBVIOUS
  <2>1. m >= n BY <1>3
  <2>2. end[m] \in 1..Len(inbox[g]) /\ inbox[g][end[m]] = Newline BY <1>2 DEF Layout
  <2>3. end[m] # 1 BY <1>4, <2>2
  <2> QED BY <2>1, <2>2, <2>3
<1>10. PICK rest : rest = [m \in n..last |-> end[m] - 1] OBVIOUS
<1>11. /\ rest \in [n..last -> 1..Len(inbox'[g])]
       /\ Layout(g, rest)' /\ Trailing(g, rest)'
  BY <1>1, <1>2, <1>3, <1>7, <1>8, <1>9, <1>10, ByteGone
<1>12. ASSUME Unread(g) # {}, NEW k, k = lines[g][n]
       PROVE  ReadOf(g, rest)' >= 0 /\ (\A c : c = ReadOf(g, rest)' => Holds(k, c)')
  <2>1. n \in Unread(g) /\ n \in n..last BY <1>3, <1>12
  <2>2. k \in Commands
    <3>1. n \in 1..Len(lines[g]) /\ 1 <= n BY <1>3, <2>1, <1>1, AcksCounted
    <3> QED BY <1>3, <1>12, <3>1
  <2>3. LineLength[k] \in Nat /\ end[n] \in Nat /\ end[n] > 1 BY <1>9, <2>1, <2>2, Characters
  <2>4. PICK c : c = LineLength[k] + 1 - end[n] OBVIOUS
  <2>5. c >= 0 /\ Holds(k, c) BY <1>1, <1>2, <1>12, <2>4 DEF Begun, ReadOf
  <2>6. c \in Nat /\ end[n] - LineLength[k] <= 1 BY <2>3, <2>4, <2>5
  <2>7. byte = k BY <1>2, <1>4, <1>12, <2>1, <2>3, <2>6 DEF Layout
  <2>8. Holds(k, c + 1)' BY <1>5, <2>2, <2>5, <2>6, <2>7, StoreHolds
  <2>9. rest[n] = end[n] - 1 BY <1>10, <2>1
  <2>10. ReadOf(g, rest)' = LineLength[k] + 1 - rest[n] BY <1>7, <1>8, <1>12 DEF ReadOf
  <2>11. ReadOf(g, rest)' = c + 1 BY <2>3, <2>4, <2>9, <2>10
  <2> QED BY <2>6, <2>8, <2>11
<1>13. ASSUME Unread(g) = {} PROVE closed[g]
  BY <1>2, <1>4, <1>13 DEF Trailing
<1>14. Begun(g, rest)'
  <2>1. lines'[g][Acks(g)' + 1] = lines[g][n] BY <1>7, <1>8
  <2>2. Unread(g)' # {} => ReadOf(g, rest)' >= 0 /\ Holds(lines[g][Acks(g) + 1], ReadOf(g, rest))'
    BY <1>3, <1>8, <1>12, <2>1 DEF Holds
  <2>3. Unread(g)' = {} => closed'[g] BY <1>3, <1>7, <1>8, <1>13
  <2> QED BY <1>1, <2>2, <2>3 DEF Begun
<1> QED BY <1>6, <1>8, <1>11, <1>14 DEF Stream

-----------------------------------------------------------------------------
(* What was answered and obeyed. *)

\* Nothing is answered: the ACKs, the moves and the lines answered stay, while
\* lines may follow them.
LEMMA HistoryFrame ==
  ASSUME FirmwareTypeOK, NEW g \in Conns, HistoryOn(g),
         AckPositions(g)' = AckPositions(g),
         \A i \in AckPositions(g) : outbox'[g][i] = outbox[g][i],
         moves'[g] = moves[g],
         Len(lines[g]) <= Len(lines'[g]), Len(lines'[g]) \in Nat,
         \A m \in 1..Len(lines[g]) : lines'[g][m] = lines[g][m]
  PROVE  HistoryOn(g)' /\ Acks(g)' = Acks(g)
<1>1. AnswersOn(g) /\ MovesOn(g) /\ Acks(g) <= Len(lines[g]) BY DEF HistoryOn
<1>2. Acks(g)' = Acks(g) /\ Acks(g) \in Nat BY AcksCounted DEF Acks
<1>3. Len(lines[g]) \in Nat BY DEF FirmwareTypeOK
<1>4. \A m \in 1..Acks(g) : lines'[g][m] = lines[g][m] BY <1>1, <1>2, <1>3
<1>5. AnswersOn(g)'
  <2> SUFFICES ASSUME NEW i \in AckPositions(g),
                      NEW n, n = Cardinality({j \in AckPositions(g) : j <= i})
               PROVE  n <= Len(lines'[g]) /\ outbox'[g][i] = Ack(Obeyed(lines'[g][n]))
    BY Zenon DEF AnswersOn, Obeyed
  <2>1. n <= Len(lines[g]) /\ outbox[g][i] = Ack(Obeyed(lines[g][n])) BY <1>1 DEF AnswersOn
  <2>2. AckPositions(g) \in SUBSET (1..Len(outbox[g])) /\ Len(outbox[g]) \in Nat
    BY AcksCounted
  <2>3. i \in 1..Len(outbox[g]) /\ i \in {j \in AckPositions(g) : j <= i} BY <2>2
  <2>4. {j \in AckPositions(g) : j <= i} \in SUBSET (1..Len(outbox[g])) BY <2>2
  <2>5. n \in Nat /\ n # 0
    <3> DEFINE S == {j \in AckPositions(g) : j <= i}
    <3>1. S \in SUBSET (1..Len(outbox[g])) /\ S # {} BY <2>3, <2>4
    <3> HIDE DEF S
    <3>2. IsFiniteSet(S) /\ Cardinality(S) \in 0..Len(outbox[g]) BY <2>2, <3>1, CountBound
    <3>3. Cardinality(S) # 0 BY <3>1, <3>2, FS_EmptySet
    <3> QED BY <2>2, <3>2, <3>3 DEF S
  <2>6. lines'[g][n] = lines[g][n] BY <1>3, <2>1, <2>5
  <2> QED BY <1>3, <2>1, <2>5, <2>6
<1>6. MovesOn(g)'
  <2>1. \A n \in 0..Acks(g) : ObeyedAmong(g, n)' = ObeyedAmong(g, n)
    <3> SUFFICES ASSUME NEW n \in 0..Acks(g) PROVE ObeyedAmong(g, n)' = ObeyedAmong(g, n)
      OBVIOUS
    <3>1. n \in Nat /\ \A m \in 1..n : lines'[g][m] = lines[g][m] BY <1>2, <1>4
    <3> QED BY <3>1, ObeyedSame
  <2>2. Len(moves'[g]) = ObeyedAmong(g, Acks(g))'
    <3>1. ASSUME NEW n, n = Acks(g) PROVE ObeyedAmong(g, n)' = ObeyedAmong(g, n)
      BY <1>2, <2>1, <3>1
    <3> QED BY <1>1, <1>2, <3>1 DEF MovesOn, ObeyedAmong, Obeyed
  <2>3. ASSUME NEW n \in 1..Acks(g), Obeyed(lines'[g][n])
        PROVE  moves'[g][ObeyedAmong(g, n)'] = Line(lines'[g][n])
    <3>1. lines'[g][n] = lines[g][n] /\ n \in 0..Acks(g) BY <1>2, <1>4
    <3>2. ObeyedAmong(g, n)' = ObeyedAmong(g, n) BY <2>1, <3>1
    <3> QED BY <1>1, <2>3, <3>1, <3>2 DEF MovesOn
  <2> QED BY <1>2, <2>2, <2>3 DEF MovesOn, Obeyed
<1> QED BY <1>1, <1>2, <1>3, <1>5, <1>6 DEF HistoryOn

\* The next line is answered, and obeyed if it should be.
LEMMA HistoryGrows ==
  ASSUME FirmwareTypeOK, NEW g \in Conns, HistoryOn(g),
         NEW n, n = Acks(g) + 1, n \in 1..Len(lines[g]), NEW k, k = lines[g][n],
         lines'[g] = lines[g],
         outbox'[g] = Append(outbox[g], Ack(Obeyed(k))),
         moves'[g] = IF Obeyed(k) THEN Append(moves[g], Line(k)) ELSE moves[g]
  PROVE  HistoryOn(g)' /\ Acks(g)' = n
<1>1. AnswersOn(g) /\ MovesOn(g) /\ Acks(g) <= Len(lines[g]) BY DEF HistoryOn
<1> DEFINE new == Len(outbox[g]) + 1
<1>2. /\ AckPositions(g)' = AckPositions(g) \cup {new} /\ Acks(g)' = n
      /\ \A i \in AckPositions(g) : outbox'[g][i] = outbox[g][i]
      /\ outbox'[g][new] = Ack(Obeyed(k))
  BY AcksAfter, ItemTypes
<1>3. /\ Acks(g) \in Nat /\ n \in Nat /\ Len(outbox[g]) \in Nat
      /\ \A i \in AckPositions(g) : i \in Nat /\ i < new
  BY AcksCounted
<1>4. AnswersOn(g)'
  <2> DEFINE upTo(i) == {j \in AckPositions(g) : j <= i}
             newUpTo(i) == {j \in AckPositions(g)' : j <= i}
  <2>1. ASSUME NEW i \in AckPositions(g)
        PROVE  /\ Cardinality(newUpTo(i)) <= Len(lines[g])
               /\ outbox'[g][i] = Ack(Obeyed(lines[g][Cardinality(newUpTo(i))]))
    <3>1. newUpTo(i) = upTo(i) BY <1>2, <1>3
    <3> QED BY <1>1, <1>2, <3>1 DEF AnswersOn
  <2>2. /\ Cardinality(newUpTo(new)) <= Len(lines[g])
        /\ outbox'[g][new] = Ack(Obeyed(lines[g][Cardinality(newUpTo(new))]))
    <3>1. newUpTo(new) = AckPositions(g)' BY <1>2, <1>3
    <3>2. Cardinality(newUpTo(new)) = n BY <1>2, <3>1 DEF Acks
    <3> QED BY <1>2, <3>2
  <2> HIDE DEF new
  <2>3. ASSUME NEW i \in AckPositions(g)'
        PROVE  /\ Cardinality(newUpTo(i)) <= Len(lines'[g])
               /\ outbox'[g][i] = Ack(Obeyed(lines'[g][Cardinality(newUpTo(i))]))
    BY <1>2, <2>1, <2>2, Zenon
  <2> QED BY <2>3 DEF AnswersOn, Obeyed
<1>5. \A m \in Nat : ObeyedAmong(g, m)' = ObeyedAmong(g, m) BY ObeyedSame
<1>6. /\ Len(moves[g]) = ObeyedAmong(g, Acks(g)) /\ Len(moves[g]) \in Nat
      /\ moves[g] \in Seq(Seq(Commands))
  BY <1>1 DEF MovesOn, FirmwareTypeOK
<1>7. \A m \in 1..Acks(g) : Obeyed(lines[g][m]) =>
           /\ ObeyedAmong(g, m) \in 1..Len(moves[g])
           /\ moves[g][ObeyedAmong(g, m)] = Line(lines[g][m])
  BY <1>1, <1>3, <1>6, ObeyedCounted DEF MovesOn
<1>8. ObeyedAmong(g, n) = IF Obeyed(k) THEN Len(moves[g]) + 1 ELSE Len(moves[g])
  BY <1>3, <1>6, ObeyedCounted
<1>9. /\ Len(moves'[g]) = ObeyedAmong(g, n)
      /\ \A i \in 1..Len(moves[g]) : moves'[g][i] = moves[g][i]
      /\ Obeyed(k) => moves'[g][ObeyedAmong(g, n)] = Line(k)
  <2>1. CASE Obeyed(k)
    <3>1. moves'[g] = Append(moves[g], Line(k)) /\ ObeyedAmong(g, n) = Len(moves[g]) + 1
      BY <1>8, <2>1
    <3> QED BY <1>6, <2>1, <3>1
  <2>2. CASE ~Obeyed(k) BY <1>8, <2>2
  <2> QED BY <2>1, <2>2
<1>10. ASSUME NEW m \in 1..n, Obeyed(lines[g][m])
      PROVE  moves'[g][ObeyedAmong(g, m)] = Line(lines[g][m])
  <2>1. CASE m = n BY <1>9, <1>10, <2>1
  <2>2. CASE m \in 1..Acks(g)
    <3>1. /\ ObeyedAmong(g, m) \in 1..Len(moves[g])
          /\ moves[g][ObeyedAmong(g, m)] = Line(lines[g][m])
      BY <1>10, <1>7, <2>2
    <3> QED BY <1>9, <3>1
  <2>3. m \in 1..Acks(g) \/ m = n BY <1>3
  <2> QED BY <2>1, <2>2, <2>3
<1>11. MovesOn(g)'
  <2>1. ObeyedAmong(g, n)' = ObeyedAmong(g, n)  BY <1>3, <1>5
  <2>2. Len(moves'[g]) = ObeyedAmong(g, Acks(g))' BY <1>2, <1>9, <2>1 DEF ObeyedAmong, Obeyed
  <2>3. ASSUME NEW m \in 1..n, Obeyed(lines'[g][m])
        PROVE  moves'[g][ObeyedAmong(g, m)'] = Line(lines'[g][m])
    <3>1. Obeyed(lines[g][m]) /\ m \in Nat BY <1>3, <2>3
    <3>2. ObeyedAmong(g, m)' = ObeyedAmong(g, m) BY <1>5, <3>1
    <3> QED BY <1>10, <3>1, <3>2
  <2> QED BY <1>2, <2>2, <2>3 DEF MovesOn, Obeyed
<1> QED BY <1>2, <1>3, <1>4, <1>11 DEF HistoryOn

-----------------------------------------------------------------------------
(* The steps. *)

\* What a step leaves of a connection it does not touch.
LEMMA Untouched ==
  ASSUME FInv, NEW g \in Conns, UNCHANGED <<lines[g], outbox[g], moves[g]>>
  PROVE  /\ HistoryOn(g)'
         /\ g \in Live /\ UNCHANGED <<inbox[g], closed[g]>> /\ ((g = conn)' <=> g = conn)
              /\ (g = conn => UNCHANGED <<buffer, overflow>>) => Stream(g)'
<1>1. AckPositions(g)' = AckPositions(g) BY DEF AckPositions
<1>2. Len(lines[g]) \in Nat BY DEF FInv, FirmwareTypeOK
<1>3. HistoryOn(g)' /\ Acks(g)' = Acks(g) BY <1>1, <1>2, HistoryFrame DEF FInv
<1> QED BY <1>3, StreamFrame DEF FInv, StreamInv

LEMMA ConsumeByteStep ==
  ASSUME FInv, ConsumeByte
  PROVE  FreshInv' /\ StreamInv' /\ \A g \in Conns : HistoryOn(g)'
<1>1. PICK c : c = conn OBVIOUS
<1>2. /\ c \in Conns /\ c \in Live /\ c <= served /\ c \in Nat /\ served \in Nat
      /\ FirmwareTypeOK /\ StreamInv /\ HistoryOn(c)
  BY <1>1, ServedClient, LiveConns DEF ConsumeByte, FInv
<1>3. /\ conn' = conn /\ served' = served /\ lines' = lines /\ closed' = closed
      /\ \A g \in Conns : g # c => UNCHANGED <<inbox[g], outbox[g], moves[g]>>
  BY <1>1, <1>2
     DEF ConsumeByte, clientVars, HandleByte, ProcessCommand, StoreByte, FirmwareTypeOK
<1>4. HistoryOn(c)' /\ Stream(c)'
  <2>1. CASE Head(inbox[c]) = Newline
    <3> DEFINE n == Acks(c) + 1
    <3>1. /\ n \in Unread(c) /\ lines[c][n] \in Commands
          /\ Holds(lines[c][n], LineLength[lines[c][n]])
          /\ Acks(c)' = n => Stream(c)'
      BY <1>1, <1>2, <2>1, NewlineEndsLine
    <3>2. PICK k : k = lines[c][n] OBVIOUS
    <3>3. (~Reject <=> Obeyed(k)) /\ (~Reject => buffer = Line(k))
      BY <1>2, <3>1, <3>2, WholeLine
    <3>4. ProcessCommand BY <1>1, <2>1 DEF ConsumeByte, HandleByte
    <3>5. outbox'[c] = Append(outbox[c], Ack(Obeyed(k)))
      <4>1. outbox'[c] = Append(outbox[c], Ack(~Reject))
        BY <1>1, <1>2, <3>4 DEF ProcessCommand, FirmwareTypeOK
      <4>2. (~Reject) = Obeyed(k) BY <1>2, <3>3 DEF Reject, Obeyed
      <4> QED BY <4>1, <4>2, Zenon
    <3>6. moves'[c] = IF Obeyed(k) THEN Append(moves[c], Line(k)) ELSE moves[c]
      <4>1. moves'[c] = IF Reject THEN moves[c] ELSE Append(moves[c], buffer)
        BY <1>1, <1>2, <3>4 DEF ProcessCommand, FirmwareTypeOK
      <4> QED BY <3>3, <4>1
    <3>7. Acks(c) \in Nat BY <1>2, AcksCounted
    <3>8. n \in 1..Len(lines[c]) BY <3>1, <3>7 DEF Unread
    <3>9. PICK m : m = n OBVIOUS
    <3>10. HistoryOn(c)' /\ Acks(c)' = m
      BY <1>2, <1>3, <3>2, <3>5, <3>6, <3>8, <3>9, HistoryGrows
    <3> QED BY <3>1, <3>9, <3>10
  <2>2. CASE Head(inbox[c]) # Newline
    <3>1. Stream(c)' /\ UNCHANGED <<outbox, moves, lines>>
      BY <1>1, <1>2, <2>2, CharacterRead
    <3> QED BY <1>2, <3>1, Untouched
  <2> QED BY <2>1, <2>2
<1>5. ASSUME NEW g \in Conns, g # c PROVE HistoryOn(g)' /\ (g \in Live => Stream(g)')
  BY <1>1, <1>3, <1>5, Untouched
<1>6. Live' = Live BY <1>3 DEF Live
<1>7. StreamInv' BY <1>4, <1>5, <1>6 DEF StreamInv, Live
<1>8. FreshInv'
  <2> SUFFICES ASSUME NEW g \in Conns, g > served PROVE outbox'[g] = <<>> /\ moves'[g] = <<>>
    BY <1>3 DEF FreshInv
  <2>1. g # c BY <1>2
  <2> QED BY <1>3, <2>1 DEF FInv, FreshInv
<1> QED BY <1>4, <1>5, <1>7, <1>8

LEMMA RelayByteStep ==
  ASSUME FInv, RelayByte
  PROVE  FreshInv' /\ StreamInv' /\ \A g \in Conns : HistoryOn(g)'
<1>1. PICK c : c = conn OBVIOUS
<1>2. /\ c \in Conns /\ c \in Live /\ c <= served /\ c \in Nat /\ served \in Nat
      /\ FirmwareTypeOK /\ Stream(c) /\ HistoryOn(c)
  BY <1>1, ServedClient, LiveConns DEF RelayByte, FInv, StreamInv
<1>3. /\ UNCHANGED <<conn, served, lines, closed, inbox, moves, buffer, overflow>>
      /\ \A g \in Conns : g # c => UNCHANGED outbox[g]
      /\ outbox'[c] = Append(outbox[c], Head(uart))
  BY <1>1, <1>2 DEF RelayByte, clientVars, deviceVars, FirmwareTypeOK
<1>4. HistoryOn(c)' /\ Stream(c)'
  <2>1. PICK item : item = Head(uart) OBVIOUS
  <2>2. ~IsAck(item)
    BY <1>2, <2>1, TakeHead, ItemTypes DEF RelayByte, FirmwareTypeOK
  <2>3. /\ AckPositions(c)' = AckPositions(c)
        /\ \A i \in AckPositions(c) : outbox'[c][i] = outbox[c][i]
    BY <1>2, <1>3, <2>1, <2>2, AcksAfter
  <2>4. /\ Len(lines[c]) <= Len(lines'[c]) /\ Len(lines'[c]) \in Nat
        /\ moves'[c] = moves[c] /\ \A m \in 1..Len(lines[c]) : lines'[c][m] = lines[c][m]
    BY <1>2, <1>3 DEF FirmwareTypeOK
  <2>5. HistoryOn(c)' /\ Acks(c)' = Acks(c) BY <1>2, <2>3, <2>4, HistoryFrame
  <2> QED BY <1>2, <1>3, <2>5, StreamFrame
<1>5. ASSUME NEW g \in Conns, g # c PROVE HistoryOn(g)' /\ (g \in Live => Stream(g)')
  BY <1>1, <1>3, <1>5, Untouched
<1>6. Live' = Live BY <1>3 DEF Live
<1>7. StreamInv' BY <1>4, <1>5, <1>6 DEF StreamInv, Live
<1>8. FreshInv'
  <2> SUFFICES ASSUME NEW g \in Conns, g > served PROVE outbox'[g] = <<>> /\ moves'[g] = <<>>
    BY <1>3 DEF FreshInv
  <2>1. g # c BY <1>2
  <2> QED BY <1>3, <2>1 DEF FInv, FreshInv
<1> QED BY <1>4, <1>5, <1>7, <1>8

\* Steps that do not concern what a connection carries, or who is served.
LEMMA QuietStep ==
  ASSUME FInv,
         \/ DiscardAgvBytes \/ EndConsume \/ EndRelay \/ ClientConnects \/ UnoSends
         \/ UNCHANGED vars
  PROVE  FreshInv' /\ StreamInv' /\ \A g \in Conns : HistoryOn(g)'
<1>1. UNCHANGED <<conn, served, buffer, overflow, closed, lines, inbox, outbox, moves>>
  BY DEF DiscardAgvBytes, EndConsume, EndRelay, ClientConnects, UnoSends, vars,
         deviceVars, clientVars
<1>2. Live' = Live BY <1>1 DEF Live
<1>3. \A g \in Conns : HistoryOn(g)' /\ (g \in Live => Stream(g)')
  BY <1>1, Untouched
<1> QED BY <1>1, <1>2, <1>3 DEF FreshInv, StreamInv, FInv, Live

\* The buffer is empty when the next client is accepted.
LEMMA AcceptClientStep ==
  ASSUME FInv, AcceptClient
  PROVE  FreshInv' /\ StreamInv' /\ \A g \in Conns : HistoryOn(g)'
<1>1. PICK c : c = served + 1 OBVIOUS
<1>2. /\ c \in Nat /\ served \in Nat /\ c \in Conns /\ c # None /\ conn = None
      /\ conn' = c /\ served' = c
      /\ UNCHANGED <<lines, closed, inbox, outbox, moves>>
  BY <1>1, FirmwareAssumption DEF FInv, FirmwareTypeOK, AcceptClient, clientVars, Conns, None
<1>3. buffer' = <<>> /\ overflow' = FALSE BY DEF AcceptClient, ResetCommand
<1>4. \A g \in Conns : HistoryOn(g)' BY <1>2, Untouched
<1>5. FreshInv' BY <1>1, <1>2 DEF FInv, FreshInv, Conns
<1>6. \A g \in Live' : g \in Live BY <1>1, <1>2 DEF Live, Conns
<1>7. ASSUME NEW g \in Live, g # c PROVE Stream(g)'
  <2>1. g \in Conns /\ g # None /\ g # conn
    BY <1>2, LiveConns DEF FInv
  <2> QED BY <1>2, <1>7, <2>1, Untouched
<1>8. Stream(c)'
  <2>1. c \in Live /\ c # conn BY <1>1, <1>2 DEF Live
  <2>2. PICK end \in [Unread(c) -> 1..Len(inbox[c])] :
          Layout(c, end) /\ Trailing(c, end) /\ Begun(c, end)
    BY <2>1 DEF FInv, StreamInv, Stream
  <2>3. Acks(c)' = Acks(c) /\ Unread(c)' = Unread(c)
    BY <1>2 DEF Unread, Acks, AckPositions
  <2>4. Layout(c, end)' /\ Trailing(c, end)' BY <1>2, <2>2, <2>3 DEF Layout, Trailing
  <2>5. Unread(c) # {} => ReadOf(c, end)' = 0 BY <1>2, <2>1, <2>2, <2>3 DEF Begun, ReadOf
  <2>6. \A k : Holds(k, 0)' BY <1>3, NothingHeld
  <2>7. Begun(c, end)' BY <1>2, <1>3, <2>3, <2>5, <2>6 DEF Begun
  <2> QED BY <1>2, <2>2, <2>3, <2>4, <2>7 DEF Stream
<1>9. StreamInv' BY <1>6, <1>7, <1>8 DEF StreamInv
<1> QED BY <1>4, <1>5, <1>9

LEMMA StopClientStep ==
  ASSUME FInv, StopClient
  PROVE  FreshInv' /\ StreamInv' /\ \A g \in Conns : HistoryOn(g)'
<1>1. conn' = None /\ UNCHANGED <<served, lines, closed, inbox, outbox, moves>>
  BY DEF StopClient, clientVars
<1>2. \A g \in Conns : HistoryOn(g)' BY <1>1, Untouched
<1>3. FreshInv' BY <1>1 DEF FInv, FreshInv
<1>4. ASSUME NEW g \in Live' PROVE Stream(g)'
  <2>1. g \in Conns /\ g # None /\ g > served
    BY <1>1, <1>4, LiveConns DEF FInv, Live
  <2>2. g \in Live /\ g # conn
    <3>1. conn \in 0..served /\ served \in Nat BY FirmwareAssumption DEF FInv, FirmwareTypeOK
    <3> QED BY <2>1, <3>1 DEF Live, Conns
  <2> QED BY <1>1, <2>1, <2>2, Untouched
<1> QED BY <1>2, <1>3, <1>4 DEF StreamInv

\* The bytes of a line that arrives.
LEMMA LineBehind ==
  ASSUME FInv, NEW g \in Conns, NEW k \in Commands, ClientSends(g, k),
         NEW L, L = Len(inbox[g]), NEW e, e = L + LineLength[k] + 1
  PROVE  /\ e \in Nat /\ L < e /\ e - LineLength[k] = L + 1 /\ Len(inbox'[g]) = e
         /\ \A i \in 1..L : inbox'[g][i] = inbox[g][i]
         /\ \A i \in L + 1..e - 1 : inbox'[g][i] = k
         /\ inbox'[g][e] = Newline
<1>1. PICK s : s = inbox[g] OBVIOUS
<1>2. PICK t : t = inbox'[g] OBVIOUS
<1>3. s \in Seq(Bytes) /\ L = Len(s) /\ t = s \o Append(Line(k), Newline)
  BY <1>1, <1>2 DEF ClientSends, FInv, FirmwareTypeOK
<1>4. LineLength[k] \in Nat /\ L \in Nat BY <1>3, Characters
<1>5. PICK line : line = Append(Line(k), Newline) OBVIOUS
<1>6. /\ line \in Seq(Bytes) /\ Len(line) = LineLength[k] + 1
      /\ \A i \in 1..LineLength[k] : line[i] = k
      /\ line[LineLength[k] + 1] = Newline
  <2>1. Line(k) \in Seq(Bytes) /\ Newline \in Bytes BY LineIsBytes DEF Bytes
  <2>2. Len(Line(k)) = LineLength[k] /\ \A i \in 1..LineLength[k] : Line(k)[i] = k
    BY <1>4 DEF Line
  <2> QED BY <1>4, <1>5, <2>1, <2>2
<1>7. /\ Len(t) = L + Len(line)
      /\ \A i \in 1..L : t[i] = s[i]
      /\ \A i \in 1..Len(line) : t[L + i] = line[i]
  <2>1. \A x, y \in Seq(Bytes) :
          /\ Len(x \o y) = Len(x) + Len(y)
          /\ \A i \in 1..Len(x) : (x \o y)[i] = x[i]
          /\ \A i \in 1..Len(y) : (x \o y)[Len(x) + i] = y[i]
    OBVIOUS
  <2>2. line \in Seq(Bytes) /\ t = s \o line BY <1>5, <1>6, <1>3
  <2> QED BY <1>3, <2>1, <2>2
<1>8. ASSUME NEW i \in L + 1..e - 1 PROVE t[i] = k
  <2>1. i - L \in 1..LineLength[k] /\ L + (i - L) = i BY <1>4
  <2>2. i - L \in 1..Len(line)
    <3>1. Len(line) = LineLength[k] + 1 BY <1>6
    <3> QED BY <1>4, <2>1, <3>1
  <2> QED BY <1>6, <1>7, <2>1, <2>2
<1>9. t[e] = Newline
  <2>1. e = L + (LineLength[k] + 1) BY <1>4
  <2>2. LineLength[k] + 1 \in 1..Len(line) BY <1>4, <1>6
  <2> QED BY <1>6, <1>7, <2>1, <2>2
<1>10. e \in Nat /\ L < e /\ e - LineLength[k] = L + 1 /\ Len(t) = e
  <2>1. e \in Nat /\ L < e /\ e - LineLength[k] = L + 1 BY <1>4
  <2>2. Len(t) = L + (LineLength[k] + 1) BY <1>6, <1>7
  <2> QED BY <1>4, <2>1, <2>2
<1> QED BY <1>7, <1>8, <1>9, <1>10, <1>1, <1>2

\* A whole line arrives after what is still to be read.
LEMMA LineArrives ==
  ASSUME FInv, NEW g \in Conns, NEW k \in Commands, ClientSends(g, k), g \in Live
  PROVE  Stream(g)'
<1>1. PICK end \in [Unread(g) -> 1..Len(inbox[g])] :
        Layout(g, end) /\ Trailing(g, end) /\ Begun(g, end)
  BY DEF FInv, StreamInv, Stream
<1>2. PICK last : last = Len(lines[g]) OBVIOUS
<1>3. PICK L : L = Len(inbox[g]) OBVIOUS
<1>4. PICK n : n = Acks(g) + 1 OBVIOUS
<1>5. /\ FirmwareTypeOK /\ HistoryOn(g)
      /\ inbox[g] \in Seq(Bytes) /\ lines[g] \in Seq(Commands)
      /\ last \in Nat /\ L \in Nat
  BY <1>2, <1>3 DEF FInv, FirmwareTypeOK
<1>6. /\ n \in Nat /\ 1 <= n /\ n <= last + 1 /\ Unread(g) = n..last
  <2>1. Acks(g) \in Nat /\ Acks(g) <= last BY <1>2, <1>5, AcksCounted DEF HistoryOn
  <2> QED BY <1>2, <1>4, <2>1 DEF Unread
<1>7. LineLength[k] \in Nat /\ 1 <= LineLength[k] /\ k # Newline BY Characters
<1>8. /\ UNCHANGED <<conn, buffer, overflow, closed, outbox>> /\ ~closed[g]
      /\ lines'[g] = Append(lines[g], k)
      /\ inbox'[g] = inbox[g] \o Append(Line(k), Newline)
  BY DEF ClientSends, FInv, FirmwareTypeOK, deviceVars
<1>9. /\ Len(lines'[g]) = last + 1 /\ lines'[g][last + 1] = k
      /\ \A m \in 1..last : lines'[g][m] = lines[g][m]
  BY <1>2, <1>5, <1>8
<1>10. Acks(g)' = Acks(g) /\ Unread(g)' = n..last + 1
  BY <1>4, <1>8, <1>9 DEF Acks, AckPositions, Unread
<1>11. PICK e : e = L + LineLength[k] + 1 OBVIOUS
<1>12. /\ e \in Nat /\ L < e /\ e - LineLength[k] = L + 1 /\ Len(inbox'[g]) = e
       /\ \A i \in 1..L : inbox'[g][i] = inbox[g][i]
       /\ \A i \in L + 1..e - 1 : inbox'[g][i] = k
       /\ inbox'[g][e] = Newline
  BY <1>3, <1>11, LineBehind
<1>13. PICK more : more = [m \in n..last + 1 |-> IF m = last + 1 THEN e ELSE end[m]]
  OBVIOUS
<1>14. /\ \A m \in n..last : /\ more[m] = end[m] /\ end[m] \in 1..L
                             /\ LineLength[lines[g][m]] \in Nat
                             /\ lines'[g][m] = lines[g][m]
       /\ more[last + 1] = e
       /\ more \in [n..last + 1 -> 1..Len(inbox'[g])]
  <2>1. ASSUME NEW m \in n..last
        PROVE  /\ more[m] = end[m] /\ end[m] \in 1..L
               /\ LineLength[lines[g][m]] \in Nat /\ lines'[g][m] = lines[g][m]
    <3>1. m \in 1..last /\ m \in n..last + 1 /\ m # last + 1 BY <1>5, <1>6
    <3>2. end[m] \in 1..L BY <1>1, <1>3, <1>6
    <3>3. lines[g][m] \in Commands BY <1>2, <1>5, <3>1
    <3> QED BY <1>9, <1>13, <3>1, <3>2, <3>3, Characters
  <2>2. last + 1 \in n..last + 1 BY <1>5, <1>6
  <2>3. more[last + 1] = e BY <1>13, <2>2
  <2>4. ASSUME NEW m \in n..last + 1
        PROVE  (IF m = last + 1 THEN e ELSE end[m]) \in 1..Len(inbox'[g])
    <3>1. CASE m = last + 1 BY <1>5, <1>12, <3>1
    <3>2. CASE m \in n..last BY <1>5, <1>12, <2>1, <3>2
    <3> QED BY <1>5, <1>6, <3>1, <3>2
  <2>5. more \in [n..last + 1 -> 1..Len(inbox'[g])] BY <1>13, <2>4
  <2> QED BY <2>1, <2>3, <2>5
<1>15. \A m \in n..last + 1 : m \in n..last \/ m = last + 1 BY <1>5, <1>6
<1>16. Layout(g, more)'
  <2>1. ASSUME NEW m \in n..last + 1 PROVE inbox'[g][more[m]] = Newline
    <3>1. CASE m \in n..last BY <1>1, <1>6, <1>12, <1>14, <3>1 DEF Layout
    <3>2. CASE m = last + 1 BY <1>12, <1>14, <3>2
    <3> QED BY <1>15, <3>1, <3>2
  <2>2. ASSUME NEW m \in n..last + 1, m + 1 \in n..last + 1
        PROVE  more[m + 1] = more[m] + LineLength[lines'[g][m + 1]] + 1
    <3>1. m \in n..last /\ m \in Nat BY <1>5, <1>6, <2>2
    <3>2. CASE m + 1 \in n..last
      <4>1. end[m + 1] = end[m] + LineLength[lines[g][m + 1]] + 1
        BY <1>1, <1>6, <3>1, <3>2 DEF Layout
      <4> QED BY <1>14, <3>1, <3>2, <4>1
    <3>3. CASE m + 1 = last + 1
      <4>1. m = last /\ Unread(g) # {} BY <1>5, <1>6, <3>1, <3>3
      <4>2. end[m] = L BY <1>1, <1>2, <1>3, <1>8, <4>1 DEF Trailing
      <4> QED BY <1>9, <1>11, <1>14, <3>1, <3>3, <4>2
    <3> QED BY <1>15, <2>2, <3>2, <3>3
  <2>3. ASSUME NEW m \in n..last + 1, NEW l \in n..last + 1, m < l
        PROVE  more[m] < more[l]
    <3>1. m \in n..last BY <1>5, <1>6, <2>3
    <3>2. CASE l \in n..last BY <1>1, <1>6, <1>14, <2>3, <3>1, <3>2 DEF Layout
    <3>3. CASE l = last + 1 BY <1>5, <1>12, <1>14, <3>1, <3>3
    <3> QED BY <1>15, <3>2, <3>3
  <2>4. ASSUME NEW m \in n..last + 1, NEW i \in 1..Len(inbox'[g]),
               more[m] - LineLength[lines'[g][m]] <= i, i < more[m]
        PROVE  inbox'[g][i] = lines'[g][m]
    <3>1. CASE m \in n..last
      <4>1. i \in 1..L /\ inbox'[g][i] = inbox[g][i] BY <1>5, <1>12, <1>14, <2>4, <3>1
      <4>2. end[m] - LineLength[lines[g][m]] <= i /\ i < end[m] BY <1>14, <2>4, <3>1
      <4>3. inbox[g][i] = lines[g][m] BY <1>1, <1>3, <1>6, <3>1, <4>1, <4>2 DEF Layout
      <4> QED BY <1>14, <3>1, <4>1, <4>3
    <3>2. CASE m = last + 1
      <4>1. e - LineLength[k] <= i /\ i < e BY <1>9, <1>14, <2>4, <3>2
      <4>2. i \in L + 1..e - 1 BY <1>5, <1>12, <4>1
      <4> QED BY <1>9, <1>12, <3>2, <4>2
    <3> QED BY <1>15, <3>1, <3>2
  <2> QED BY <1>10, <2>1, <2>2, <2>3, <2>4 DEF Layout
<1>17. Trailing(g, more)'
  <2>1. last + 1 \in n..last + 1 BY <1>5, <1>6
  <2>2. \A i \in 1..Len(inbox'[g]) : ~(more[last + 1] < i) BY <1>12, <1>14
  <2> QED BY <1>9, <1>10, <1>12, <1>14, <2>1, <2>2 DEF Trailing
<1>18. Begun(g, more)'
  <2>1. CASE Unread(g) # {}
    <3>1. n \in n..last BY <1>5, <1>6, <2>1
    <3>2. ReadOf(g, more)' = ReadOf(g, end) /\ lines'[g][n] = lines[g][n]
      BY <1>4, <1>10, <1>14, <3>1 DEF ReadOf
    <3>3. \A x, c : Holds(x, c)' = Holds(x, c) BY <1>8 DEF Holds
    <3>4. n \in n..last + 1 BY <1>5, <3>1
    <3> QED BY <1>1, <1>4, <1>8, <1>10, <2>1, <3>2, <3>3, <3>4 DEF Begun
  <2>2. CASE Unread(g) = {}
    <3>1. n = last + 1
      <4>1. ~(n <= last)
        <5> SUFFICES ASSUME n <= last PROVE n \in n..last BY <1>6, <2>2
        <5> QED BY <1>5, <1>6
      <4> QED BY <1>5, <1>6, <4>1
    <3>2. L = 0
      <4>1. L # 0 => 1 \in 1..L BY <1>5
      <4> QED BY <1>1, <1>3, <1>8, <2>2, <4>1 DEF Trailing
    <3>3. ReadOf(g, more)' = 0
      <4>1. ReadOf(g, more)' = LineLength[k] + 1 - e
        BY <1>4, <1>9, <1>10, <1>14, <3>1 DEF ReadOf
      <4> QED BY <1>7, <1>11, <3>2, <4>1
    <3>4. g = conn => buffer' = <<>> /\ overflow' = FALSE
      BY <1>1, <1>5, <1>8, <2>2 DEF Begun, FirmwareTypeOK
    <3>5. g = conn => \A x : Holds(x, 0)' BY <3>4, NothingHeld
    <3>6. Unread(g)' # {} BY <1>5, <1>6, <1>10
    <3> QED BY <1>8, <3>3, <3>5, <3>6 DEF Begun
  <2> QED BY <2>1, <2>2
<1> QED BY <1>10, <1>14, <1>16, <1>17, <1>18 DEF Stream

\* What a client wrote of a line before it closed is no line.
LEMMA ClientBreaksOff ==
  ASSUME FInv, NEW g \in Conns, NEW k \in Commands, ClientCloses(g, k), g \in Live
  PROVE  Stream(g)'
<1>1. PICK end \in [Unread(g) -> 1..Len(inbox[g])] :
        Layout(g, end) /\ Trailing(g, end) /\ Begun(g, end)
  BY DEF FInv, StreamInv, Stream
<1>2. /\ UNCHANGED <<conn, buffer, overflow, lines, outbox>> /\ closed'[g]
      /\ Acks(g)' = Acks(g) /\ Unread(g)' = Unread(g)
  BY DEF ClientCloses, FInv, FirmwareTypeOK, deviceVars, Acks, AckPositions, Unread
<1>3. PICK L : L = Len(inbox[g]) OBVIOUS
<1>4. /\ L \in Nat /\ Len(inbox'[g]) \in Nat /\ L <= Len(inbox'[g])
      /\ \A i \in 1..L : inbox'[g][i] = inbox[g][i]
      /\ \A i \in 1..Len(inbox'[g]) : i > L => inbox'[g][i] # Newline
  <2>1. PICK m \in 0..LineLength[k] :
          inbox' = [inbox EXCEPT ![g] = @ \o SubSeq(Line(k), 1, m)]
    BY DEF ClientCloses
  <2>2. PICK s : s = inbox[g] OBVIOUS
  <2>3. PICK t : t = inbox'[g] OBVIOUS
  <2>4. PICK part : part = SubSeq(Line(k), 1, m) OBVIOUS
  <2>5. /\ part \in Seq(Bytes) /\ k # Newline
        /\ \A i \in 1..Len(part) : part[i] = k
    <3>1. LineLength[k] \in Nat /\ k # Newline BY Characters
    <3>2. part \in Seq(Bytes) BY <2>4, LineIsBytes
    <3>3. Line(k) \in Seq(Bytes) BY LineIsBytes
    <3>4. Len(part) = m /\ \A i \in 1..m : part[i] = Line(k)[i] BY <2>4, <3>1, <3>3
    <3>5. \A i \in 1..m : Line(k)[i] = k BY <3>1 DEF Line
    <3> QED BY <3>1, <3>2, <3>4, <3>5
  <2>6. s \in Seq(Bytes) /\ L = Len(s) /\ t = s \o part
    BY <1>3, <2>1, <2>2, <2>3, <2>4 DEF FInv, FirmwareTypeOK
  <2>7. \A x, y \in Seq(Bytes) :
          /\ Len(x) \in Nat /\ Len(y) \in Nat /\ Len(x \o y) = Len(x) + Len(y)
          /\ \A i \in 1..Len(x) : (x \o y)[i] = x[i]
          /\ \A i \in 1..Len(y) : (x \o y)[Len(x) + i] = y[i]
    OBVIOUS
  <2>8. /\ L \in Nat /\ Len(part) \in Nat /\ Len(t) = L + Len(part)
        /\ \A i \in 1..L : t[i] = s[i]
        /\ \A i \in 1..Len(part) : t[L + i] = part[i]
    BY <2>5, <2>6, <2>7
  <2>9. ASSUME NEW i \in 1..Len(t), i > L PROVE t[i] # Newline
    <3>1. i - L \in 1..Len(part) /\ L + (i - L) = i BY <2>8, <2>9
    <3> QED BY <2>5, <2>8, <3>1
  <2> QED BY <2>2, <2>3, <2>8, <2>9
<1>5. \A m \in Unread(g) : end[m] \in 1..L BY <1>1, <1>3
<1>6. end \in [Unread(g)' -> 1..Len(inbox'[g])] BY <1>1, <1>2, <1>3, <1>4
<1>7. Layout(g, end)'
  <2>1. \A m \in Unread(g) : inbox'[g][end[m]] = Newline BY <1>1, <1>4, <1>5 DEF Layout
  <2>2. ASSUME NEW m \in Unread(g), NEW i \in 1..Len(inbox'[g]),
               end[m] - LineLength[lines[g][m]] <= i, i < end[m]
        PROVE  inbox'[g][i] = lines[g][m]
    <3>1. i \in 1..L BY <1>4, <1>5, <2>2
    <3> QED BY <1>1, <1>3, <1>4, <2>2, <3>1 DEF Layout
  <2> QED BY <1>1, <1>2, <2>1, <2>2 DEF Layout
<1>8. Trailing(g, end)'
  <2>1. ASSUME NEW i \in 1..Len(inbox'[g]), \A m \in Unread(g) : end[m] < i
        PROVE  inbox'[g][i] # Newline
    <3>1. CASE i \in 1..L BY <1>1, <1>3, <1>4, <2>1, <3>1 DEF Trailing
    <3>2. CASE i > L BY <1>4, <3>2
    <3> QED BY <1>4, <3>1, <3>2
  <2> QED BY <1>2, <2>1 DEF Trailing
<1>9. Begun(g, end)'
  <2>1. ReadOf(g, end)' = ReadOf(g, end) BY <1>2 DEF ReadOf
  <2>2. \A x, c : Holds(x, c)' = Holds(x, c) BY <1>2 DEF Holds
  <2> QED BY <1>1, <1>2, <2>1, <2>2 DEF Begun
<1> QED BY <1>6, <1>7, <1>8, <1>9 DEF Stream

LEMMA ClientStep ==
  ASSUME FInv, NEW g \in Conns, NEW k \in Commands, ClientSends(g, k) \/ ClientCloses(g, k)
  PROVE  FreshInv' /\ StreamInv' /\ \A h \in Conns : HistoryOn(h)'
<1>1. /\ UNCHANGED <<conn, served, buffer, overflow, outbox, moves>>
      /\ \A h \in Conns : h # g => UNCHANGED <<lines[h], inbox[h], closed[h]>>
  BY DEF ClientSends, ClientCloses, deviceVars, FInv, FirmwareTypeOK
<1>2. FreshInv' BY <1>1 DEF FInv, FreshInv
<1>3. ASSUME NEW h \in Conns, h # g PROVE HistoryOn(h)' /\ (h \in Live => Stream(h)')
  BY <1>1, <1>3, Untouched
<1>4. HistoryOn(g)'
  <2>1. /\ Len(lines[g]) <= Len(lines'[g]) /\ Len(lines'[g]) \in Nat
        /\ \A m \in 1..Len(lines[g]) : lines'[g][m] = lines[g][m]
    <3>1. lines[g] \in Seq(Commands) BY DEF FInv, FirmwareTypeOK
    <3>2. lines'[g] = lines[g] \/ lines'[g] = Append(lines[g], k)
      BY DEF ClientSends, ClientCloses, FInv, FirmwareTypeOK
    <3> QED BY <3>1, <3>2
  <2>2. AckPositions(g)' = AckPositions(g) BY <1>1 DEF AckPositions
  <2>3. FirmwareTypeOK /\ HistoryOn(g) BY DEF FInv
  <2>4. moves'[g] = moves[g] /\ outbox'[g] = outbox[g] BY <1>1
  <2> QED BY <2>1, <2>2, <2>3, <2>4, HistoryFrame
<1>5. Live' = Live BY <1>1 DEF Live
<1>6. g \in Live => Stream(g)' BY LineArrives, ClientBreaksOff
<1>7. StreamInv' BY <1>3, <1>5, <1>6 DEF StreamInv, Live
<1> QED BY <1>2, <1>3, <1>4, <1>7

LEMMA InitFirmwareInv == Init => FInv
<1> SUFFICES ASSUME Init PROVE FInv OBVIOUS
<1>1. FirmwareTypeOK BY InitFirmwareTypes
<1>2. FreshInv BY DEF Init, FreshInv
<1>3. ASSUME NEW g \in Conns PROVE HistoryOn(g) /\ Acks(g) = 0 /\ Unread(g) = {}
  <2>1. outbox[g] = <<>> /\ moves[g] = <<>> /\ lines[g] = <<>> BY DEF Init
  <2>2. AckPositions(g) = {} BY <2>1 DEF AckPositions
  <2>3. Acks(g) = 0 /\ Unread(g) = {} BY <2>1, <2>2, FS_EmptySet DEF Acks, Unread
  <2>4. ObeyedAmong(g, 0) = 0 BY ObeyedCounted
  <2>5. ObeyedAmong(g, Acks(g)) = 0 BY <2>3, <2>4
  <2> QED BY <2>1, <2>2, <2>3, <2>5 DEF HistoryOn, AnswersOn, MovesOn
<1>4. ASSUME NEW g \in Conns PROVE Stream(g)
  <2>1. PICK end : end = [n \in {} |-> 0] OBVIOUS
  <2>2. end \in [Unread(g) -> 1..Len(inbox[g])] BY <1>3, <2>1
  <2>3. Layout(g, end) BY <1>3 DEF Layout
  <2>4. Trailing(g, end) BY <1>3 DEF Trailing, Init
  <2>5. Begun(g, end) BY <1>3 DEF Begun, Init
  <2> QED BY <2>2, <2>3, <2>4, <2>5 DEF Stream
<1> QED BY <1>1, <1>2, <1>3, <1>4 DEF FInv, StreamInv, Live

LEMMA FirmwareInvStep == ASSUME FInv, [Next]_vars PROVE FInv'
<1>1. FirmwareTypeOK' BY FirmwareTypeStep DEF FInv
<1>2. FreshInv' /\ StreamInv' /\ \A g \in Conns : HistoryOn(g)'
  BY QuietStep, AcceptClientStep, ConsumeByteStep, RelayByteStep, StopClientStep,
     ClientStep DEF Next, Loop, Environment
<1> QED BY <1>1, <1>2 DEF FInv

\* In every run a newline is read only where a whole line of the served client
\* ends, with that line in the buffer or overflowed.
THEOREM FirmwareInvariance == Spec => []FInv
BY InitFirmwareInv, FirmwareInvStep, PTL DEF Spec

\* For any lines, valid or not, short or too long for the buffer, sent whole or
\* broken off by clients that come one after the other, and any telemetry between
\* them: the n-th ACK on a connection is for its n-th line.
THEOREM AnswersInOrderHolds == Spec => []AnswersInOrder
<1>1. FInv => AnswersInOrder BY DEF FInv, HistoryOn, AnswersInOrder
<1> QED BY <1>1, FirmwareInvariance, PTL

\* The servos follow the whole commands of each client, once each and in order.
THEOREM MovesAsSentHolds == Spec => []MovesAsSent
<1>1. FInv => MovesAsSent BY DEF FInv, HistoryOn, MovesAsSent
<1> QED BY <1>1, FirmwareInvariance, PTL
=============================================================================
