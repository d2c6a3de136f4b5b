------------------------ MODULE BackendServer_proofs ------------------------
(***************************************************************************)
(* BackendServer keeps its safety invariants, for any sessions and any     *)
(* number of requests, losses of the ESP32 and crashes.                    *)
(***************************************************************************)
EXTENDS BackendServerInv, TLAPS

\* What a process starts with is typed.
LEMMA StartTypes ==
  /\ <<>> \in Seq(Statements)
  /\ [c \in Sessions |-> <<>>] \in [Sessions -> Seq(Kinds)]
  /\ [k \in Losses |-> NoCast] \in [Losses -> Broadcasts]
  /\ [c \in Sessions |-> 0] \in [Sessions -> 0..MaxLosses]
<1>1. <<>> \in Seq(Statements) /\ <<>> \in Seq(Kinds) OBVIOUS
<1>2. NoCast \in Broadcasts BY ServerBounds DEF NoCast, Broadcasts
<1>3. 0 \in 0..MaxLosses BY ServerBounds
<1> QED BY <1>1, <1>2, <1>3

\* The ALTER statements of a start: each adds an RPM column or drops a duty column, and
\* every column that is not as it should be has one.
LEMMA PlanShape ==
  ASSUME NEW present
  PROVE  /\ Plan(present) \in Seq(Statements)
         /\ \A i \in 1..Len(Plan(present)) :
              Plan(present)[i].op = IF Plan(present)[i].column \in Rpm THEN "add" ELSE "drop"
         /\ \A x \in Rpm \cup Duty : (x \in present) # (x \in Rpm) =>
              \E i \in 1..Len(Plan(present)) : Plan(present)[i].column = x
<1> DEFINE Right(q) == /\ q \in Seq(Statements)
                       /\ \A i \in 1..Len(q) :
                            q[i].op = IF q[i].column \in Rpm THEN "add" ELSE "drop"
           Has(q, x) == \E i \in 1..Len(q) : q[i].column = x
<1>1. ASSUME NEW p, NEW q, Right(p), Right(q) PROVE Right(p \o q)
  <2>1. /\ p \o q \in Seq(Statements) /\ Len(p \o q) = Len(p) + Len(q)
        /\ \A i \in 1..Len(p \o q) :
             (p \o q)[i] = IF i <= Len(p) THEN p[i] ELSE q[i - Len(p)]
    BY <1>1
  <2>2. Len(p) \in Nat /\ Len(q) \in Nat BY <1>1
  <2>3. \A i \in 1..Len(p \o q) : i \in 1..Len(p) \/ i - Len(p) \in 1..Len(q)
    BY <2>1, <2>2
  <2>4. ASSUME NEW i \in 1..Len(p \o q)
        PROVE  (p \o q)[i].op = IF (p \o q)[i].column \in Rpm THEN "add" ELSE "drop"
    <3>1. CASE i <= Len(p)
      <4>1. i \in 1..Len(p) /\ (p \o q)[i] = p[i] BY <2>1, <2>2, <3>1
      <4> QED BY <1>1, <4>1
    <3>2. CASE ~(i <= Len(p))
      <4>1. i - Len(p) \in 1..Len(q) /\ (p \o q)[i] = q[i - Len(p)] BY <2>1, <2>3, <3>2
      <4> QED BY <1>1, <4>1
    <3> QED BY <3>1, <3>2
  <2> QED BY <2>1, <2>4
<1>2. ASSUME NEW p, NEW q, Right(p), Right(q), NEW x, Has(p, x) \/ Has(q, x)
      PROVE  Has(p \o q, x)
  <2>1. p \in Seq(Statements) /\ q \in Seq(Statements) BY <1>2
  <2>2. /\ Len(p \o q) = Len(p) + Len(q) /\ Len(p) \in Nat /\ Len(q) \in Nat
        /\ \A i \in 1..Len(p) : (p \o q)[i] = p[i]
        /\ \A i \in 1..Len(q) : (p \o q)[Len(p) + i] = q[i]
    BY <2>1
  <2>3. CASE Has(p, x)
    <3>1. PICK i \in 1..Len(p) : p[i].column = x BY <2>3
    <3>2. i \in 1..Len(p \o q) /\ (p \o q)[i].column = x BY <2>2, <3>1
    <3> QED BY <3>2
  <2>4. CASE Has(q, x)
    <3>1. PICK i \in 1..Len(q) : q[i].column = x BY <2>4
    <3>2. Len(p) + i \in 1..Len(p \o q) /\ (p \o q)[Len(p) + i].column = x BY <2>2, <3>1
    <3> QED BY <3>2
  <2> QED BY <1>2, <2>3, <2>4
<1>3. ASSUME NEW x \in Rpm
      PROVE  Right(Added(x, present)) /\ (x \notin present => Has(Added(x, present), x))
  <2>1. Added(x, present) = <<>> \/ Added(x, present) = <<Statement("add", x)>>
    BY DEF Added
  <2>2. Right(<<>>) OBVIOUS
  <2>3. Statement("add", x) \in Statements BY DEF Statement, Statements
  <2>4. /\ <<Statement("add", x)>> \in Seq(Statements) /\ Len(<<Statement("add", x)>>) = 1
        /\ <<Statement("add", x)>>[1] = Statement("add", x)
    BY <2>3
  <2>5. Right(<<Statement("add", x)>>) /\ Has(<<Statement("add", x)>>, x)
    BY <2>4 DEF Statement
  <2> QED BY <2>1, <2>2, <2>5 DEF Added
<1>4. ASSUME NEW x \in Duty
      PROVE  Right(Dropped(x, present)) /\ (x \in present => Has(Dropped(x, present), x))
  <2>1. Dropped(x, present) = <<>> \/ Dropped(x, present) = <<Statement("drop", x)>>
    BY DEF Dropped
  <2>2. Right(<<>>) OBVIOUS
  <2>3. Statement("drop", x) \in Statements BY DEF Statement, Statements
  <2>4. /\ <<Statement("drop", x)>> \in Seq(Statements) /\ Len(<<Statement("drop", x)>>) = 1
        /\ <<Statement("drop", x)>>[1] = Statement("drop", x)
    BY <2>3
  <2>5. Right(<<Statement("drop", x)>>) /\ Has(<<Statement("drop", x)>>, x)
    BY <2>4 DEF Statement, Rpm, Duty
  <2> QED BY <2>1, <2>2, <2>5 DEF Dropped
<1> DEFINE a == Added("left_rpm", present)
           b == Added("right_rpm", present)
           d == Dropped("motor_left", present)
           e == Dropped("motor_right", present)
<1>5. Right(a) /\ Right(b) /\ Right(d) /\ Right(e) BY <1>3, <1>4 DEF Rpm, Duty
<1>6. /\ "left_rpm" \notin present => Has(a, "left_rpm")
      /\ "right_rpm" \notin present => Has(b, "right_rpm")
      /\ "motor_left" \in present => Has(d, "motor_left")
      /\ "motor_right" \in present => Has(e, "motor_right")
  BY <1>3, <1>4 DEF Rpm, Duty
<1>7. Plan(present) = ((a \o b) \o d) \o e BY DEF Plan
<1> HIDE DEF a, b, d, e, Right, Has
<1>8. Right(a \o b) /\ Right((a \o b) \o d) /\ Right(((a \o b) \o d) \o e)
  BY <1>1, <1>5
<1>9. \A x : Has(a, x) \/ Has(b, x) \/ Has(d, x) \/ Has(e, x) => Has(((a \o b) \o d) \o e, x)
  BY <1>2, <1>5, <1>8
<1>10. \A x \in Rpm \cup Duty : (x \in present) # (x \in Rpm) => Has(Plan(present), x)
  BY <1>6, <1>7, <1>9 DEF Rpm, Duty
<1> QED BY <1>7, <1>8, <1>10 DEF Right, Has

\* The initial state.
LEMMA ServerInit == Init => SInv
<1> SUFFICES ASSUME Init PROVE SInv OBVIOUS
<1> USE ServerBounds DEF Init, Rpm, Duty
<1>1. ServerTypeOK
  <2>1. /\ todo \in Seq(Statements) /\ buf \in [Sessions -> Seq(Kinds)]
        /\ cast \in [Losses -> Broadcasts] /\ held \in [Sessions -> 0..MaxLosses]
        /\ lossOf \in [Sessions -> 0..MaxLosses] /\ told \in [Sessions -> 0..MaxLosses]
        /\ missed \in [Sessions -> 0..MaxLosses]
    BY StartTypes
  <2>2. columns \subseteq Rpm \cup Duty OBVIOUS
  <2>3. at \in [Sessions -> {"out", "accepted", "greet", "greeting", "check", "recv", "lines",
                              "dialing", "install", "answer", "answering", "casting",
                              "closed"}]
    OBVIOUS
  <2>4. recvs \in 0..MaxRecvs /\ losses \in 0..MaxLosses
    OBVIOUS
  <2>5. /\ sockets \subseteq Sessions /\ shut \subseteq Sessions /\ busy \subseteq Sessions
        /\ reconnected \subseteq Sessions
    OBVIOUS
  <2> QED BY <2>1, <2>2, <2>3, <2>4, <2>5 DEF ServerTypeOK
<1>2. ServesOnFullSchema /\ MigrationInv BY DEF ServesOnFullSchema, MigrationInv
<1>3. SocketsInv /\ CountsInv BY DEF SocketsInv, CountsInv, Losses, NoCast
<1>4. ToldInv /\ StopInv BY DEF ToldInv, StopInv, Greeted, Disconnected
<1> QED BY <1>1, <1>2, <1>3, <1>4 DEF SInv

\* A broadcast that goes on stays typed.
LEMMA CastTyped ==
  ASSUME ServerTypeOK, NEW k \in Losses,
         NEW stage \in {"none", "build", "snapshot", "send"}, NEW msg \in 0..MaxLosses,
         NEW to \in SUBSET Sessions
  PROVE  /\ [cast EXCEPT ![k].stage = stage] \in [Losses -> Broadcasts]
         /\ [cast EXCEPT ![k].to = to] \in [Losses -> Broadcasts]
         /\ [cast EXCEPT ![k].stage = stage, ![k].msg = msg] \in [Losses -> Broadcasts]
         /\ [cast EXCEPT ![k].stage = stage, ![k].to = to] \in [Losses -> Broadcasts]
         /\ cast[k].msg \in 0..MaxLosses /\ cast[k].to \subseteq Sessions
<1>1. cast \in [Losses -> Broadcasts] BY DEF ServerTypeOK
<1>2. cast[k] \in Broadcasts BY <1>1
<1>3. /\ [cast[k] EXCEPT !.stage = stage] \in Broadcasts
      /\ [cast[k] EXCEPT !.to = to] \in Broadcasts
      /\ [cast[k] EXCEPT !.stage = stage, !.msg = msg] \in Broadcasts
      /\ [cast[k] EXCEPT !.stage = stage, !.to = to] \in Broadcasts
      /\ cast[k].msg \in 0..MaxLosses /\ cast[k].to \subseteq Sessions
  BY <1>2 DEF Broadcasts
<1> QED BY <1>1, <1>3

\* A loss is counted and its broadcast begins.
LEMMA LoseTypes ==
  ASSUME ServerTypeOK, Lose
  PROVE  /\ losses + 1 \in Losses /\ losses' = losses + 1 /\ losses' \in 0..MaxLosses
         /\ esp' \in BOOLEAN /\ cast' \in [Losses -> Broadcasts]
<1>1. losses + 1 \in Losses /\ losses' \in 0..MaxLosses /\ losses' = losses + 1
  BY ServerBounds DEF ServerTypeOK, Lose, Losses
<1>2. cast' = [cast EXCEPT ![losses + 1].stage = "build"] /\ esp' = FALSE BY DEF Lose
<1> QED BY <1>1, <1>2, CastTyped, ServerBounds

\* What a send does to what was told and missed.
LEMMA SendTypes ==
  ASSUME ServerTypeOK, NEW c \in Sessions, NEW msg \in 0..MaxLosses, Send(c, msg)
  PROVE  told' \in [Sessions -> 0..MaxLosses] /\ missed' \in [Sessions -> 0..MaxLosses]
BY DEF ServerTypeOK, Send, Sent, SendFails, Newer

\* A send tells of its message, or misses it, and takes nothing back; the other sessions are
\* not concerned.
LEMMA SendMoves ==
  ASSUME ServerTypeOK, CountsInv, NEW c \in Sessions, NEW msg \in 0..MaxLosses,
         msg <= losses, Send(c, msg), UNCHANGED losses
  PROVE  /\ \A d \in Sessions : d # c => told'[d] = told[d] /\ missed'[d] = missed[d]
         /\ Tried(c) \/ msg = losses => Tried(c)'
         /\ told'[c] <= losses /\ missed'[c] <= losses
<1>1. /\ told \in [Sessions -> 0..MaxLosses] /\ missed \in [Sessions -> 0..MaxLosses]
      /\ losses \in Nat /\ told[c] \in Nat /\ missed[c] \in Nat /\ msg \in Nat
      /\ told[c] <= losses /\ missed[c] <= losses
  BY ServerBounds DEF ServerTypeOK, CountsInv
<1>2. CASE Sent(c, msg) BY <1>1, <1>2 DEF Sent, Newer, Tried
<1>3. CASE SendFails(c, msg) BY <1>1, <1>3 DEF SendFails, Newer, Tried
<1> QED BY <1>2, <1>3 DEF Send

\* Types.
LEMMA ServerTypeStep ==
  ASSUME ServerTypeOK, [Next]_vars PROVE ServerTypeOK'
<1> USE ServerBounds DEF ServerTypeOK, Losses, diskVars, lifeVars, sessionVars, espVars, sentVars
<1>1. CASE OpenDatabase
  <2>1. todo' \in Seq(Statements) BY <1>1, PlanShape DEF OpenDatabase
  <2>2. columns' \subseteq Rpm \cup Duty BY <1>1 DEF OpenDatabase
  <2> QED BY <1>1, <2>1, <2>2 DEF OpenDatabase
<1>2. CASE Alter
  <2>1. todo' \in Seq(Statements) /\ Head(todo) \in Statements BY <1>2 DEF Alter
  <2>2. columns' \subseteq Rpm \cup Duty BY <1>2, <2>1 DEF Alter, Statements
  <2> QED BY <1>2, <2>1, <2>2 DEF Alter
<1>3. CASE Serve
  BY <1>3 DEF Serve
<1>4. CASE Crash
  <2>1. /\ todo' \in Seq(Statements) /\ buf' \in [Sessions -> Seq(Kinds)]
        /\ cast' \in [Losses -> Broadcasts] /\ held' \in [Sessions -> 0..MaxLosses]
        /\ lossOf' \in [Sessions -> 0..MaxLosses] /\ told' \in [Sessions -> 0..MaxLosses]
        /\ missed' \in [Sessions -> 0..MaxLosses]
    BY <1>4, StartTypes DEF Crash
  <2>2. at' \in [Sessions -> {"out", "accepted", "greet", "greeting", "check", "recv", "lines",
                              "dialing", "install", "answer", "answering", "casting",
                              "closed"}]
    BY <1>4 DEF Crash
  <2>3. recvs' \in 0..MaxRecvs /\ losses' \in 0..MaxLosses
    BY <1>4 DEF Crash
  <2>4. /\ sockets' \subseteq Sessions /\ shut' \subseteq Sessions /\ busy' \subseteq Sessions
        /\ reconnected' \subseteq Sessions
    BY <1>4 DEF Crash
  <2> QED BY <1>4, <2>1, <2>2, <2>3, <2>4 DEF Crash
<1>5. CASE CheckAccept
  BY <1>5 DEF CheckAccept
<1>6. CASE AcceptReturns
  BY <1>6 DEF AcceptReturns
<1>7. ASSUME NEW c \in Sessions, Accept(c) \/ Register(c) PROVE ServerTypeOK'
  BY <1>7 DEF Accept, Register, Go
<1>8. ASSUME NEW c \in Sessions, BuildStatus(c) PROVE ServerTypeOK'
  BY <1>8 DEF BuildStatus, Go
<1>9. ASSUME NEW c \in Sessions, SendStatus(c) PROVE ServerTypeOK'
  BY <1>9, SendTypes DEF SendStatus, Go
<1>10. ASSUME NEW c \in Sessions, CheckStop(c) PROVE ServerTypeOK'
  <2>1. CASE End(c) BY <2>1 DEF End, Go
  <2>2. CASE ~stop /\ Go(c, "recv") BY <1>10, <2>2 DEF CheckStop, End, Go
  <2> QED BY <1>10, <2>1, <2>2 DEF CheckStop
<1>11. ASSUME NEW c \in Sessions, RecvTimesOut(c) PROVE ServerTypeOK'
  BY <1>11 DEF RecvTimesOut, Go
<1>12. ASSUME NEW c \in Sessions, RecvEnds(c) PROVE ServerTypeOK'
  BY <1>12 DEF RecvEnds, Go, End
<1>13. ASSUME NEW c \in Sessions, LinesDone(c) PROVE ServerTypeOK'
  BY <1>13 DEF LinesDone, Go
<1>14. ASSUME NEW c \in Sessions, BeginConnect(c) PROVE ServerTypeOK'
  BY <1>14 DEF BeginConnect, Go, Next1
<1>15. ASSUME NEW c \in Sessions, EndConnect(c) PROVE ServerTypeOK'
  <2>1. at' = [at EXCEPT ![c] = "answer"] \/ at' = [at EXCEPT ![c] = "install"]
    BY <1>15 DEF EndConnect, Go
  <2>2. at' \in [Sessions -> {"out", "accepted", "greet", "greeting", "check", "recv", "lines",
                              "dialing", "install", "answer", "answering", "casting",
                              "closed"}]
    BY <2>1
  <2>3. esp' \in BOOLEAN BY <1>15 DEF EndConnect
  <2> QED BY <1>15, <2>2, <2>3 DEF EndConnect
<1>16. ASSUME NEW c \in Sessions, HandleDisconnect(c) PROVE ServerTypeOK'
  <2>1. buf[c] \in Seq(Kinds) /\ buf[c] # <<>> BY <1>16 DEF HandleDisconnect, Next1
  <2>2. Tail(buf[c]) \in Seq(Kinds) BY <2>1
  <2>3. buf' \in [Sessions -> Seq(Kinds)] BY <1>16, <2>2 DEF HandleDisconnect, Next1
  <2> QED BY <1>16, <2>3 DEF HandleDisconnect, Go
<1>17. ASSUME NEW c \in Sessions, HandleArm(c) PROVE ServerTypeOK'
  <2>1. buf[c] \in Seq(Kinds) /\ buf[c] # <<>> BY <1>17 DEF HandleArm, Next1
  <2>2. Tail(buf[c]) \in Seq(Kinds) BY <2>1
  <2>3. buf' \in [Sessions -> Seq(Kinds)] BY <1>17, <2>2 DEF HandleArm, Next1
  <2>4. CASE UNCHANGED <<at, espVars>> BY <1>17, <2>3, <2>4 DEF HandleArm
  <2>5. CASE Lose /\ lossOf' = [lossOf EXCEPT ![c] = losses + 1] /\ Go(c, "casting")
    <3>1. /\ esp' \in BOOLEAN /\ losses' \in 0..MaxLosses /\ cast' \in [Losses -> Broadcasts]
          /\ losses + 1 \in 0..MaxLosses
      BY <2>5, LoseTypes
    <3>2. lossOf' \in [Sessions -> 0..MaxLosses] BY <2>5, <3>1
    <3> QED BY <1>17, <2>3, <2>5, <3>1, <3>2 DEF HandleArm, Go
  <2> QED BY <1>17, <2>4, <2>5 DEF HandleArm
<1>18. ASSUME NEW c \in Sessions, ArmReturns(c) PROVE ServerTypeOK'
  BY <1>18 DEF ArmReturns, Go
<1>19. ASSUME NEW c \in Sessions, HandleOther(c) PROVE ServerTypeOK'
  BY <1>19 DEF HandleOther, Go, Next1
<1>20. ASSUME NEW c \in Sessions, NEW batch \in Batches, Recv(c, batch) PROVE ServerTypeOK'
  BY <1>20 DEF Recv, Go
<1>21. CASE ReceiverLoses
  <2>1. esp' \in BOOLEAN /\ losses' \in 0..MaxLosses /\ cast' \in [Losses -> Broadcasts]
    BY <1>21, LoseTypes DEF ReceiverLoses
  <2> QED BY <1>21, <2>1 DEF ReceiverLoses
<1>22. ASSUME NEW k \in Losses, BuildCast(k) PROVE ServerTypeOK'
  <2>1. cast' \in [Losses -> Broadcasts]
    <3>1. cast' = [cast EXCEPT ![k].stage = "snapshot", ![k].msg = losses]
      BY <1>22 DEF BuildCast
    <3> QED BY <3>1, CastTyped
  <2> QED BY <1>22, <2>1 DEF BuildCast
<1>23. ASSUME NEW k \in Losses, SnapshotSockets(k) PROVE ServerTypeOK'
  <2>1. cast' \in [Losses -> Broadcasts]
    <3>1. cast' = [cast EXCEPT ![k].stage = "send", ![k].to = sockets]
      BY <1>23 DEF SnapshotSockets
    <3> QED BY <3>1, CastTyped
  <2> QED BY <1>23, <2>1 DEF SnapshotSockets
<1>24. ASSUME NEW k \in Losses, NEW c \in Sessions, SendCast(k, c) PROVE ServerTypeOK'
  <2>1. cast' \in [Losses -> Broadcasts] /\ cast[k].msg \in 0..MaxLosses
    <3>1. cast' = [cast EXCEPT ![k].to = cast[k].to \ {c}] BY <1>24 DEF SendCast
    <3>2. cast[k].to \ {c} \in SUBSET Sessions BY CastTyped
    <3> QED BY <3>1, <3>2, CastTyped
  <2>2. told' \in [Sessions -> 0..MaxLosses] /\ missed' \in [Sessions -> 0..MaxLosses]
    BY <1>24, <2>1, SendTypes DEF SendCast
  <2> QED BY <1>24, <2>1, <2>2 DEF SendCast
<1>25. CASE SetStop
  BY <1>25 DEF SetStop
<1>26. CASE ShutSockets
  BY <1>26 DEF ShutSockets
<1>27. CASE DisconnectEsp
  BY <1>27 DEF DisconnectEsp
<1>28. CASE JoinAndClose
  BY <1>28 DEF JoinAndClose
<1>29. CASE UNCHANGED vars
  BY <1>29 DEF vars
<1> QED BY [Next]_vars, <1>1, <1>2, <1>3, <1>4, <1>5, <1>6, <1>7, <1>8, <1>9, <1>10, <1>11, <1>12, <1>13, <1>14, <1>15, <1>16, <1>17, <1>18, <1>19, <1>20, <1>21, <1>22, <1>23, <1>24, <1>25, <1>26, <1>27, <1>28, <1>29
  DEF Next, Startup, AcceptLoop, Session, Cast, Shutdown

-----------------------------------------------------------------------------
(* What the groups of actions leave alone *)

\* A session's thread changes its own state, and its socket is in _client_sockets until it ends.
LEMMA SessionMoves ==
  ASSUME ServerTypeOK, NEW c \in Sessions,
         Session(c) \/ \E batch \in Batches : Recv(c, batch)
  PROVE  /\ at[c] \notin {"out", "accepted", "closed"} /\ at'[c] \notin {"out", "accepted"}
         /\ \A d \in Sessions : d # c => at'[d] = at[d]
         /\ sockets' = sockets \/ (sockets' = sockets \ {c} /\ at'[c] = "closed")
         /\ UNCHANGED <<shut, stop, sd, busy, diskVars>>
<1> USE DEF lifeVars, Go
<1>1. at \in [Sessions -> {"out", "accepted", "greet", "greeting", "check", "recv", "lines",
                           "dialing", "install", "answer", "answering", "casting", "closed"}]
  BY DEF ServerTypeOK
<1>2. CASE BuildStatus(c) \/ SendStatus(c) BY <1>1, <1>2 DEF BuildStatus, SendStatus
<1>3. CASE CheckStop(c) \/ RecvTimesOut(c) \/ RecvEnds(c)
  BY <1>1, <1>3 DEF CheckStop, RecvTimesOut, RecvEnds, End
<1>4. CASE \E batch \in Batches : Recv(c, batch) BY <1>1, <1>4 DEF Recv
<1>5. CASE LinesDone(c) \/ BeginConnect(c) \/ EndConnect(c)
  BY <1>1, <1>5 DEF LinesDone, BeginConnect, EndConnect, Next1
<1>6. CASE HandleDisconnect(c) \/ HandleArm(c) \/ ArmReturns(c) \/ HandleOther(c)
  BY <1>1, <1>6 DEF HandleDisconnect, HandleArm, ArmReturns, HandleOther, Next1
<1> QED BY <1>2, <1>3, <1>4, <1>5, <1>6 DEF Session

\* The other threads leave the sessions where they are.
LEMMA OthersLeave ==
  ASSUME \/ CheckAccept \/ AcceptReturns \/ ReceiverLoses \/ SetStop \/ Shutdown \/ Startup
         \/ (\E k \in Losses : Cast(k)) \/ UNCHANGED vars
  PROVE  UNCHANGED <<at, sockets, held>>
BY DEF CheckAccept, AcceptReturns, ReceiverLoses, SetStop, Shutdown, ShutSockets,
       DisconnectEsp, JoinAndClose, Startup, OpenDatabase, Alter, Serve, Cast, BuildCast,
       SnapshotSockets, SendCast, sessionVars, vars

\* Accepting a connection.
LEMMA AcceptMoves ==
  ASSUME ServerTypeOK, NEW c \in Sessions, Accept(c) \/ Register(c)
  PROVE  /\ \/ at[c] = "out" /\ at'[c] = "accepted" /\ sockets' = sockets
            \/ at[c] = "accepted" /\ at'[c] = "greet" /\ sockets' = sockets \cup {c}
         /\ \A d \in Sessions : d # c => at'[d] = at[d]
         /\ UNCHANGED <<shut, lifeVars, espVars, sentVars, held, diskVars>>
<1>1. at \in [Sessions -> {"out", "accepted", "greet", "greeting", "check", "recv", "lines",
                           "dialing", "install", "answer", "answering", "casting", "closed"}]
  BY DEF ServerTypeOK
<1>2. CASE Accept(c) BY <1>1, <1>2 DEF Accept, Go
<1>3. CASE Register(c) BY <1>1, <1>3 DEF Register, Go
<1> QED BY <1>2, <1>3

\* Each step is one of these.
LEMMA ServerSteps ==
  ASSUME [Next]_vars
  PROVE  \/ Crash
         \/ CheckAccept \/ AcceptReturns \/ ReceiverLoses \/ SetStop \/ Shutdown \/ Startup
            \/ (\E k \in Losses : Cast(k)) \/ UNCHANGED vars
         \/ \E c \in Sessions : Accept(c) \/ Register(c)
         \/ \E c \in Sessions : Session(c) \/ \E batch \in Batches : Recv(c, batch)
BY DEF Next, AcceptLoop

-----------------------------------------------------------------------------
(* The invariants *)

\* A start repairs the schema wherever an earlier one was cut off.
LEMMA MigrationStep ==
  ASSUME ServerTypeOK, ServesOnFullSchema, MigrationInv, [Next]_vars
  PROVE  ServesOnFullSchema' /\ MigrationInv'
<1> USE DEF ServesOnFullSchema, MigrationInv
<1>1. CASE UNCHANGED diskVars BY <1>1 DEF diskVars
<1>2. CASE OpenDatabase
  <2>1. todo' = Plan(columns') /\ up' = "migrating" BY <1>2 DEF OpenDatabase
  <2> QED BY <2>1, PlanShape
<1>3. CASE Alter
  <2>1. /\ todo # <<>> /\ todo' = Tail(todo) /\ up' = up /\ up = "migrating"
        /\ todo \in Seq(Statements)
        /\ columns' = IF Head(todo).op = "add" THEN columns \cup {Head(todo).column}
                                               ELSE columns \ {Head(todo).column}
    BY <1>3 DEF Alter, ServerTypeOK
  <2>2. /\ Len(todo') = Len(todo) - 1 /\ Len(todo) \in Nat /\ Head(todo) = todo[1]
        /\ 1 \in 1..Len(todo)
        /\ \A i \in 1..Len(todo') : todo'[i] = todo[i + 1] /\ i + 1 \in 1..Len(todo)
    BY <2>1
  <2>3. \A i \in 1..Len(todo) :
          i = 1 \/ (i - 1 \in 1..Len(todo') /\ todo'[i - 1] = todo[i])
    BY <2>1, <2>2
  <2>4. ASSUME NEW x \in Rpm \cup Duty, (x \in columns') # (x \in Rpm)
        PROVE  \E i \in 1..Len(todo') : todo'[i].column = x
    <3>1. Head(todo).op = IF Head(todo).column \in Rpm THEN "add" ELSE "drop" BY <2>2
    <3>2. Head(todo).column # x BY <2>1, <2>4, <3>1
    <3>3. (x \in columns) # (x \in Rpm) BY <2>1, <2>4, <3>2
    <3>4. PICK i \in 1..Len(todo) : todo[i].column = x BY <2>1, <3>3
    <3> QED BY <2>2, <2>3, <3>2, <3>4
  <2> QED BY <2>1, <2>2, <2>4
<1>4. CASE Serve
  <2>1. todo = <<>> /\ todo' = todo /\ columns' = columns /\ up' = "serving"
        /\ up = "migrating" /\ Len(todo) = 0
    BY <1>4 DEF Serve
  <2>2. \A x \in Rpm \cup Duty : x \in columns <=> x \in Rpm BY <2>1
  <2>3. columns = Rpm BY <2>2 DEF ServerTypeOK
  <2> QED BY <2>1, <2>3
<1>5. CASE Crash
  <2>1. todo' = <<>> /\ up' = "opening" /\ Len(todo') = 0 BY <1>5 DEF Crash
  <2> QED BY <2>1
<1>6. CASE CheckAccept \/ AcceptReturns \/ ReceiverLoses \/ SetStop \/ Shutdown
           \/ (\E k \in Losses : Cast(k)) \/ UNCHANGED vars
  BY <1>1, <1>6 DEF CheckAccept, AcceptReturns, ReceiverLoses, SetStop, Shutdown,
     ShutSockets, DisconnectEsp, JoinAndClose, Cast, BuildCast, SnapshotSockets, SendCast, vars
<1>7. ASSUME NEW c \in Sessions, Accept(c) \/ Register(c) PROVE UNCHANGED diskVars
  BY <1>7, AcceptMoves
<1>8. ASSUME NEW c \in Sessions, Session(c) \/ \E batch \in Batches : Recv(c, batch)
      PROVE  UNCHANGED diskVars
  BY <1>8, SessionMoves
<1> QED BY <1>1, <1>2, <1>3, <1>4, <1>5, <1>6, <1>7, <1>8, ServerSteps DEF Startup

\* A session is in _client_sockets from its registration to its end.
LEMMA SocketsStep ==
  ASSUME ServerTypeOK, SocketsInv, [Next]_vars PROVE SocketsInv'
<1> USE DEF SocketsInv
<1>1. CASE Crash BY <1>1 DEF Crash
<1>2. ASSUME NEW c \in Sessions, Accept(c) \/ Register(c) PROVE SocketsInv'
  BY <1>2, AcceptMoves
<1>3. ASSUME NEW c \in Sessions, Session(c) \/ \E batch \in Batches : Recv(c, batch)
      PROVE  SocketsInv'
  BY <1>3, SessionMoves
<1> QED BY <1>1, <1>2, <1>3, ServerSteps, OthersLeave

\* Once the sockets are shut no session begins to handle lines.
LEMMA StopStep ==
  ASSUME ServerTypeOK, SocketsInv, StopInv, [Next]_vars PROVE StopInv'
<1> USE DEF StopInv, Handling, Disconnected
<1>1. CASE Crash BY <1>1 DEF Crash
<1>2. ASSUME NEW c \in Sessions, Accept(c) \/ Register(c) PROVE StopInv'
  BY <1>2, AcceptMoves DEF lifeVars
<1>3. ASSUME NEW c \in Sessions, Session(c) \/ \E batch \in Batches : Recv(c, batch)
      PROVE  StopInv'
  <2>1. /\ \A d \in Sessions : d # c => at'[d] = at[d]
        /\ UNCHANGED <<shut, stop, sd, busy>>
    BY <1>3, SessionMoves
  <2>2. at \in [Sessions -> {"out", "accepted", "greet", "greeting", "check", "recv", "lines",
                             "dialing", "install", "answer", "answering", "casting", "closed"}]
    BY DEF ServerTypeOK
  <2>3. CASE CheckStop(c)
    BY <2>1, <2>2, <2>3 DEF CheckStop, Go, End, lifeVars
  <2>4. CASE \E batch \in Batches : Recv(c, batch)
    BY <2>1, <2>2, <2>4 DEF Recv, Go, lifeVars
  <2>5. ASSUME Session(c), ~CheckStop(c)
        PROVE  /\ at'[c] = "recv" \/ Handling(c)' => Handling(c)
               /\ \/ reconnected' = reconnected
                  \/ Disconnected /\ Handling(c) /\ reconnected' = reconnected \cup {c}
    BY <2>2, <2>5 DEF Session, BuildStatus, SendStatus, RecvTimesOut, RecvEnds, End,
       LinesDone, BeginConnect, EndConnect, HandleDisconnect, HandleArm, ArmReturns,
       HandleOther, Next1, Go, lifeVars
  <2> QED BY <1>3, <2>1, <2>3, <2>4, <2>5
<1>4. CASE SetStop \/ Shutdown
  <2>1. CASE ShutSockets BY <2>1 DEF ShutSockets, SocketsInv
  <2>2. CASE DisconnectEsp
    <3>1. /\ sd = "esp" /\ sd' = "join" /\ UNCHANGED <<at, shut, stop, reconnected>>
          /\ busy' = {c \in Sessions : Handling(c)}
      BY <2>2 DEF DisconnectEsp, sessionVars
    <3> QED BY <3>1
  <2>3. CASE SetStop \/ JoinAndClose BY <2>3 DEF SetStop, JoinAndClose, sessionVars
  <2> QED BY <1>4, <2>1, <2>2, <2>3 DEF Shutdown
<1>5. CASE CheckAccept \/ AcceptReturns \/ ReceiverLoses \/ Startup
           \/ (\E k \in Losses : Cast(k)) \/ UNCHANGED vars
  <2>1. UNCHANGED <<at, shut, stop, sd, busy, reconnected>>
    BY <1>5 DEF CheckAccept, AcceptReturns, ReceiverLoses, Startup, OpenDatabase, Alter,
       Serve, Cast, BuildCast, SnapshotSockets, SendCast, sessionVars, lifeVars, vars
  <2> QED BY <2>1
<1> QED BY <1>1, <1>2, <1>3, <1>4, <1>5, ServerSteps

\* A loss of the ESP32 leaves its broadcast to come.
LEMMA LoseCounts ==
  ASSUME ServerTypeOK, CountsInv, Lose
  PROVE  /\ losses + 1 \in Losses /\ losses' = losses + 1
         /\ cast'[losses + 1].stage = "build" /\ cast'[losses + 1].msg = cast[losses + 1].msg
         /\ \A k \in Losses : k # losses + 1 => cast'[k] = cast[k]
         /\ \A c \in Sessions : Awaited(c)'
<1>1. losses + 1 \in Losses /\ losses' = losses + 1 BY LoseTypes
<1>2. cast \in [Losses -> Broadcasts] /\ cast' = [cast EXCEPT ![losses + 1].stage = "build"]
  BY DEF ServerTypeOK, Lose
<1>3. cast[losses + 1] \in Broadcasts BY <1>1, <1>2
<1>4. cast'[losses + 1].stage = "build" /\ cast'[losses + 1].msg = cast[losses + 1].msg
  BY <1>1, <1>2, <1>3 DEF Broadcasts
<1>5. \A k \in Losses : k # losses + 1 => cast'[k] = cast[k] BY <1>2
<1>6. \A c \in Sessions : Awaited(c)' BY <1>1, <1>4 DEF Awaited
<1> QED BY <1>1, <1>4, <1>5, <1>6

\* What a broadcast does in each of its steps.
LEMMA CastMoves ==
  ASSUME ServerTypeOK, NEW k \in Losses, Cast(k)
  PROVE  /\ UNCHANGED <<losses, held, at, esp>>
         /\ \A j \in Losses : j # k => cast'[j] = cast[j]
         /\ \/ /\ BuildCast(k) /\ cast[k].stage = "build" /\ UNCHANGED sentVars
               /\ cast'[k].stage = "snapshot" /\ cast'[k].msg = losses
            \/ /\ SnapshotSockets(k) /\ cast[k].stage = "snapshot" /\ UNCHANGED sentVars
               /\ cast'[k].stage = "send" /\ cast'[k].msg = cast[k].msg
               /\ cast'[k].to = sockets
            \/ \E c \in Sessions :
                 /\ SendCast(k, c) /\ cast[k].stage = "send" /\ Send(c, cast[k].msg)
                 /\ cast'[k].stage = "send" /\ cast'[k].msg = cast[k].msg
                 /\ cast'[k].to = cast[k].to \ {c}
<1>1. cast \in [Losses -> Broadcasts] /\ cast[k] \in Broadcasts BY DEF ServerTypeOK
<1>2. CASE BuildCast(k)
  BY <1>1, <1>2 DEF BuildCast, Broadcasts, sessionVars
<1>3. CASE SnapshotSockets(k)
  BY <1>1, <1>3 DEF SnapshotSockets, Broadcasts, sessionVars
<1>4. ASSUME NEW c \in Sessions, SendCast(k, c)
      PROVE  /\ UNCHANGED <<losses, held, at, esp>>
             /\ \A j \in Losses : j # k => cast'[j] = cast[j]
             /\ cast[k].stage = "send" /\ Send(c, cast[k].msg)
             /\ cast'[k].stage = "send" /\ cast'[k].msg = cast[k].msg
             /\ cast'[k].to = cast[k].to \ {c}
  BY <1>1, <1>4 DEF SendCast, Broadcasts, sessionVars
<1> QED BY <1>2, <1>3, <1>4 DEF Cast

\* What a session's thread does to what was told.
LEMMA SessionTells ==
  ASSUME ServerTypeOK, NEW c \in Sessions,
         Session(c) \/ \E batch \in Batches : Recv(c, batch)
  PROVE  \/ Lose /\ UNCHANGED <<sentVars, held>>
         \/ /\ UNCHANGED <<losses, cast, sentVars>> /\ held' = [held EXCEPT ![c] = losses]
            /\ \/ at[c] = "greet" /\ at'[c] = "greeting"
               \/ at[c] = "answer" /\ at'[c] = "answering"
         \/ /\ UNCHANGED <<losses, cast>> /\ held' = [held EXCEPT ![c] = 0]
            /\ Send(c, held[c])
            /\ at[c] = "greeting" \/ Greeted(c)
         \/ /\ UNCHANGED <<losses, cast, sentVars, held>>
            /\ at'[c] # "greeting" /\ (Greeted(c)' => Greeted(c))
<1> USE DEF Go, espVars, Greeted
<1>1. at \in [Sessions -> {"out", "accepted", "greet", "greeting", "check", "recv", "lines",
                           "dialing", "install", "answer", "answering", "casting", "closed"}]
  BY DEF ServerTypeOK
<1>2. CASE BuildStatus(c) BY <1>1, <1>2 DEF BuildStatus
<1>3. CASE SendStatus(c) BY <1>1, <1>3 DEF SendStatus
<1>4. CASE CheckStop(c) \/ RecvTimesOut(c) \/ RecvEnds(c)
  BY <1>1, <1>4 DEF CheckStop, RecvTimesOut, RecvEnds, End
<1>5. CASE \E batch \in Batches : Recv(c, batch) BY <1>1, <1>5 DEF Recv
<1>6. CASE LinesDone(c) \/ BeginConnect(c) \/ EndConnect(c)
  BY <1>1, <1>6 DEF LinesDone, BeginConnect, EndConnect, Next1
<1>7. CASE HandleDisconnect(c) \/ ArmReturns(c) \/ HandleOther(c)
  BY <1>1, <1>7 DEF HandleDisconnect, ArmReturns, HandleOther, Next1
<1>8. CASE HandleArm(c) BY <1>1, <1>8 DEF HandleArm, Next1
<1> QED BY <1>2, <1>3, <1>4, <1>5, <1>6, <1>7, <1>8 DEF Session

\* The other threads leave the losses and what was told of them alone.
LEMMA OthersTell ==
  ASSUME CheckAccept \/ AcceptReturns \/ SetStop \/ Shutdown \/ Startup \/ UNCHANGED vars
  PROVE  UNCHANGED <<losses, cast, sentVars, held, at>>
BY DEF CheckAccept, AcceptReturns, SetStop, Shutdown, ShutSockets, DisconnectEsp, JoinAndClose,
       Startup, OpenDatabase, Alter, Serve, sessionVars, espVars, vars

\* Losses are counted once.
LEMMA CountsStep ==
  ASSUME ServerTypeOK, CountsInv, [Next]_vars PROVE CountsInv'
<1>0. /\ losses \in Nat /\ cast \in [Losses -> Broadcasts]
      /\ \A c \in Sessions : told[c] \in Nat /\ missed[c] \in Nat /\ held[c] \in Nat
      /\ \A k \in Losses : k \in Nat /\ cast[k].msg \in Nat
      /\ held \in [Sessions -> 0..MaxLosses]
  BY ServerBounds DEF ServerTypeOK, Losses, Broadcasts
<1>1. CASE UNCHANGED <<losses, cast, sentVars, held>> BY <1>1 DEF CountsInv, sentVars
<1>2. CASE Crash
  BY <1>2 DEF Crash, CountsInv, NoCast, Losses
<1>3. ASSUME Lose, UNCHANGED <<sentVars, held>> PROVE CountsInv'
  <2>1. \A k \in Losses : (k <= losses' <=> cast'[k].stage # "none") /\ cast'[k].msg <= losses'
    <3> TAKE k \in Losses
    <3>1. CASE k = losses + 1
      <4>1. /\ losses' = losses + 1 /\ cast'[k].stage = "build" /\ cast'[k].msg = cast[k].msg
        BY <1>3, <3>1, LoseCounts
      <4> QED BY <1>0, <3>1, <4>1 DEF CountsInv
    <3>2. CASE k # losses + 1
      <4>1. cast'[k] = cast[k] /\ losses' = losses + 1 BY <1>3, <3>2, LoseCounts
      <4> QED BY <1>0, <3>2, <4>1 DEF CountsInv
    <3> QED BY <3>1, <3>2
  <2>2. losses' = losses + 1 BY <1>3, LoseCounts
  <2> QED BY <1>0, <1>3, <2>1, <2>2 DEF CountsInv, sentVars
<1>4. ASSUME NEW k \in Losses, Cast(k) PROVE CountsInv'
  <2>1. \A j \in Losses : (j <= losses' <=> cast'[j].stage # "none") /\ cast'[j].msg <= losses'
    BY <1>0, <1>4, CastMoves DEF CountsInv
  <2>2. \A c \in Sessions : told'[c] <= losses' /\ missed'[c] <= losses' /\ held'[c] <= losses'
    <3>1. UNCHANGED <<losses, held>> /\ cast[k].msg \in 0..MaxLosses /\ cast[k].msg <= losses
      BY <1>0, <1>4, CastMoves DEF CountsInv, Broadcasts
    <3>2. CASE UNCHANGED sentVars BY <3>1, <3>2 DEF CountsInv, sentVars
    <3>3. ASSUME NEW c \in Sessions, Send(c, cast[k].msg)
          PROVE  \A d \in Sessions : told'[d] <= losses' /\ missed'[d] <= losses'
      BY <3>1, <3>3, SendMoves DEF CountsInv
    <3> QED BY <1>4, <3>1, <3>2, <3>3, CastMoves DEF CountsInv
  <2> QED BY <2>1, <2>2 DEF CountsInv
<1>5. ASSUME NEW c \in Sessions, Session(c) \/ \E batch \in Batches : Recv(c, batch)
      PROVE  CountsInv'
  <2>1. CASE Lose /\ UNCHANGED <<sentVars, held>> BY <1>3, <2>1
  <2>2. CASE UNCHANGED <<losses, cast, sentVars>> /\ held' = [held EXCEPT ![c] = losses]
    BY <1>0, <2>2 DEF CountsInv, sentVars
  <2>3. CASE /\ UNCHANGED <<losses, cast>> /\ held' = [held EXCEPT ![c] = 0]
             /\ Send(c, held[c])
    <3>1. held[c] \in 0..MaxLosses /\ held[c] <= losses BY <1>0 DEF CountsInv
    <3>2. \A d \in Sessions : told'[d] <= losses' /\ missed'[d] <= losses'
      BY <2>3, <3>1, SendMoves DEF CountsInv
    <3> QED BY <1>0, <2>3, <3>2 DEF CountsInv
  <2> QED BY <1>1, <1>5, <2>1, <2>2, <2>3, SessionTells
<1>6. CASE ReceiverLoses BY <1>3, <1>6 DEF ReceiverLoses, sessionVars
<1>7. ASSUME NEW c \in Sessions, Accept(c) \/ Register(c) PROVE CountsInv'
  BY <1>1, <1>7, AcceptMoves DEF espVars
<1> QED BY <1>1, <1>2, <1>4, <1>5, <1>6, <1>7, ServerSteps, OthersTell

\* Who was not told of the newest loss has a broadcast to come.
LEMMA ToldStep ==
  ASSUME ServerTypeOK, SocketsInv, CountsInv, ToldInv, [Next]_vars PROVE ToldInv'
<1>0. /\ losses \in Nat
      /\ held \in [Sessions -> 0..MaxLosses]
      /\ \A k \in Losses : cast[k].msg \in Nat
  BY ServerBounds DEF ServerTypeOK, Losses, Broadcasts
<1>1. CASE UNCHANGED <<losses, cast, sentVars, held, at>>
  BY <1>1 DEF ToldInv, Greeted, Awaited, Tried, sentVars
<1>2. CASE Crash BY <1>2 DEF Crash, ToldInv, Greeted
<1>3. CASE Lose BY <1>3, LoseCounts DEF ToldInv
<1>4. ASSUME NEW k \in Losses, Cast(k) PROVE ToldInv'
  <2>0. /\ UNCHANGED <<losses, held, at>> /\ \A j \in Losses : j # k => cast'[j] = cast[j]
    BY <1>4, CastMoves
  <2>1. ASSUME cast'[k].stage = "snapshot", cast'[k].msg = losses PROVE ToldInv'
    <3>1. \A c \in Sessions : Awaited(c)' BY <2>0, <2>1 DEF Awaited
    <3> QED BY <3>1 DEF ToldInv
  <2>2. ASSUME cast[k].stage = "snapshot", UNCHANGED sentVars, cast'[k].stage = "send",
               cast'[k].msg = cast[k].msg, cast'[k].to = sockets
        PROVE  ToldInv'
    <3>1. ASSUME NEW c \in sockets, Awaited(c) PROVE Awaited(c)'
      BY <2>0, <2>2, <3>1 DEF Awaited
    <3> QED BY <2>0, <2>2, <3>1 DEF ToldInv, SocketsInv, Greeted, Tried, sentVars
  <2>3. ASSUME NEW c \in Sessions, Send(c, cast[k].msg), cast[k].stage = "send",
               cast'[k].stage = "send", cast'[k].msg = cast[k].msg,
               cast'[k].to = cast[k].to \ {c}
        PROVE  ToldInv'
    <3>1. ASSUME NEW d \in Sessions, d # c, Awaited(d) PROVE Awaited(d)'
      BY <2>0, <2>3, <3>1 DEF Awaited
    <3>2. cast[k].msg \in 0..MaxLosses /\ cast[k].msg <= losses
      BY DEF CountsInv, Broadcasts, ServerTypeOK
    <3>3. /\ \A d \in Sessions : d # c => told'[d] = told[d] /\ missed'[d] = missed[d]
          /\ Tried(c) \/ cast[k].msg = losses => Tried(c)'
      BY <2>0, <2>3, <3>2, SendMoves
    <3>4. \A d \in Sessions : Tried(d) => Tried(d)' BY <2>0, <3>3 DEF Tried
    <3>5. Awaited(c) => Tried(c)' \/ Awaited(c)'
      <4>1. CASE cast[k].msg = losses BY <3>3, <4>1
      <4>2. CASE cast[k].msg # losses BY <2>0, <2>3, <4>2 DEF Awaited
      <4> QED BY <4>1, <4>2
    <3> QED BY <2>0, <3>1, <3>4, <3>5 DEF ToldInv, Greeted
  <2> QED BY <1>4, <2>1, <2>2, <2>3, CastMoves
<1>5. ASSUME NEW c \in Sessions, Session(c) \/ \E batch \in Batches : Recv(c, batch)
      PROVE  ToldInv'
  <2>0. \A d \in Sessions : d # c => at'[d] = at[d] BY <1>5, SessionMoves
  <2>1. CASE UNCHANGED <<losses, cast>>
    <3>1. \A d \in Sessions : Awaited(d)' <=> Awaited(d) BY <2>1 DEF Awaited
    <3>2. ASSUME UNCHANGED sentVars, held' = [held EXCEPT ![c] = losses],
                 \/ at[c] = "greet" /\ at'[c] = "greeting"
                 \/ at[c] = "answer" /\ at'[c] = "answering"
          PROVE  ToldInv'
      BY <1>0, <2>0, <2>1, <3>1, <3>2 DEF ToldInv, Greeted, Tried, sentVars
    <3>3. ASSUME Send(c, held[c]), held' = [held EXCEPT ![c] = 0],
                 at[c] = "greeting" \/ Greeted(c)
          PROVE  ToldInv'
      <4>1. held[c] \in 0..MaxLosses /\ held[c] <= losses BY <1>0 DEF CountsInv
      <4>2. /\ \A d \in Sessions : d # c => told'[d] = told[d] /\ missed'[d] = missed[d]
            /\ Tried(c) \/ held[c] = losses => Tried(c)'
        BY <2>1, <3>3, <4>1, SendMoves
      <4>3. Tried(c)' \/ Awaited(c) BY <3>3, <4>2 DEF ToldInv
      <4>4. \A d \in Sessions : d # c => (Tried(d)' <=> Tried(d)) /\ held'[d] = held[d]
        BY <1>0, <2>1, <3>3, <4>2 DEF Tried
      <4> QED BY <2>0, <2>1, <3>1, <4>3, <4>4 DEF ToldInv, Greeted
    <3>4. ASSUME UNCHANGED <<sentVars, held>>, at'[c] # "greeting", Greeted(c)' => Greeted(c)
          PROVE  ToldInv'
      BY <2>0, <2>1, <3>1, <3>4 DEF ToldInv, Greeted, Tried, sentVars
    <3>5. CASE Lose BY <1>3, <3>5
    <3> QED BY <1>5, <3>2, <3>3, <3>4, <3>5, SessionTells
  <2> QED BY <1>3, <1>5, <2>1, SessionTells
<1>6. CASE ReceiverLoses BY <1>3, <1>6 DEF ReceiverLoses
<1>7. ASSUME NEW c \in Sessions, Accept(c) \/ Register(c) PROVE ToldInv'
  BY <1>7, AcceptMoves DEF espVars, sentVars, ToldInv, Greeted, Awaited, Tried
<1> QED BY <1>1, <1>2, <1>4, <1>5, <1>6, <1>7, ServerSteps, OthersTell

-----------------------------------------------------------------------------
(* The theorems *)

\* The inductive invariant.
THEOREM ServerInvariance == Spec => []SInv
<1>1. ASSUME SInv, [Next]_vars PROVE SInv'
  <2>1. ServerTypeOK' BY <1>1, ServerTypeStep DEF SInv
  <2>2. ServesOnFullSchema' /\ MigrationInv' BY <1>1, MigrationStep DEF SInv
  <2>3. SocketsInv' BY <1>1, SocketsStep DEF SInv
  <2>4. CountsInv' BY <1>1, CountsStep DEF SInv
  <2>5. ToldInv' BY <1>1, ToldStep DEF SInv
  <2>6. StopInv' BY <1>1, StopStep DEF SInv
  <2> QED BY <2>1, <2>2, <2>3, <2>4, <2>5, <2>6 DEF SInv
<1> QED BY <1>1, ServerInit, PTL DEF Spec

\* Every variable of the server has its type.
THEOREM ServerTypeHolds == Spec => []ServerTypeOK
<1>1. SInv => ServerTypeOK BY DEF SInv
<1> QED BY <1>1, ServerInvariance, PTL

\* The server serves on the current schema only, whatever version the database was and
\* wherever earlier starts were cut off (_migrate_agv_log_to_rpm_only).
THEOREM ServesOnFullSchemaHolds == Spec => []ServesOnFullSchema
<1>1. SInv => ServesOnFullSchema BY DEF SInv
<1> QED BY <1>1, ServerInvariance, PTL

\* Once the losses are broadcast every session past its greeting was sent a status built
\* after the last of them, or that very send failed (_serve_client, _handle_esp32_event,
\* _broadcast, _send).
THEOREM LossReachesEverySessionHolds == Spec => []LossReachesEverySession
<1>1. SInv => LossReachesEverySession
  <2> SUFFICES ASSUME SInv, \A k \in Losses : cast[k].stage = "none" \/ CastOver(k),
                      NEW c \in Sessions, Greeted(c)
               PROVE  Tried(c)
    BY DEF LossReachesEverySession, Greeted, Tried
  <2>1. ~Awaited(c) BY DEF Awaited, CastOver
  <2> QED BY <2>1 DEF SInv, ToldInv
<1> QED BY <1>1, ServerInvariance, PTL

\* Whoever connects the ESP32 after shutdown() disconnected it was handling lines then
\* (shutdown, _serve_client, handle_request).
THEOREM ReconnectedOnlyByBusyHolds == Spec => []ReconnectedOnlyByBusy
<1>1. SInv => ReconnectedOnlyByBusy BY DEF SInv, StopInv, ReconnectedOnlyByBusy
<1> QED BY <1>1, ServerInvariance, PTL
=============================================================================
