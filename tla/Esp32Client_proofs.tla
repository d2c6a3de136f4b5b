------------------------- MODULE Esp32Client_proofs -------------------------
(***************************************************************************)
(* Proofs of type correctness, that send_arm_command returns the right     *)
(* answer (AckSound), and that a connection on which a command failed is   *)
(* never written again (StopAndWait), for any sessions (all of which may   *)
(* connect), connections, commands and lines.  After the types, the parts  *)
(* of the inductive invariant IInv come one after the other; each has a    *)
(* lemma for Init and one for Next, and the latter uses the parts before.  *)
(* The argument turns on three lemmas: OutstandingStep (only SendAll makes *)
(* a connection owe an ACK), RouteExpected (the ACK that completes a       *)
(* command is that command's) and ExpectedStays (a command whose ACK may   *)
(* still come is pending, or its sender is about to reset the connection). *)
(***************************************************************************)
EXTENDS Esp32ClientInv, TLAPS

-----------------------------------------------------------------------------
(* Type correctness: one lemma per action, each with one step per group of *)
(* variables.                                                              *)

\* The length of what a connection carries.
LEMMA LengthType ==
  ASSUME NEW f, NEW S, f \in [Gens -> Seq(S)], NEW g \in Gens
  PROVE  Len(f[g]) \in Nat
<1>1. f[g] \in Seq(S) OBVIOUS
<1> QED BY <1>1

\* The initial state.
LEMMA InitTypes == Init => TypeOK
<1> SUFFICES ASSUME Init PROVE TypeOK OBVIOUS
<1> USE BoundsAssumption DEF Init
<1>1. ObjectTypes BY DEF ObjectTypes, CellStates, Causes, None
<1>2. ThreadTypes BY DEF ThreadTypes, Labels, None
<1>3. WireTypes BY DEF WireTypes, ReceiverLabels
<1>4. CursorsInOrder BY DEF CursorsInOrder
<1> QED BY <1>1, <1>2, <1>3, <1>4 DEF TypeOK

\* Completing the pending command, if there is one, keeps its variables' types.
LEMMA CompletePendingTypes ==
  ASSUME ObjectTypes, NEW outcome \in CellStates, NEW line \in 0..MaxCommands,
         CompletePending(outcome, line)
  PROVE  /\ pending' \in 0..MaxCommands
         /\ cell' \in [Cmds -> CellStates]
         /\ answer' \in [Cmds -> 0..MaxCommands]
<1> USE BoundsAssumption DEF CompletePending, ObjectTypes
<1>1. pending' \in 0..MaxCommands BY DEF None
<1>2. cell' \in [Cmds -> CellStates] OBVIOUS
<1>3. answer' \in [Cmds -> 0..MaxCommands] OBVIOUS
<1> QED BY <1>1, <1>2, <1>3

\* So does taking the connection out of the object.
LEMMA DetachTypes ==
  ASSUME ObjectTypes, NEW cause \in Causes, Detach(cause),
         UNCHANGED <<issued, notices>>
  PROVE  ObjectTypes'
<1>1. socket' \in 0..MaxGen /\ generation' \in 0..MaxGen
  BY BoundsAssumption DEF Detach, ObjectTypes, None
<1>2. stop' \in [Gens -> BOOLEAN] BY DEF Detach, ObjectTypes
<1>3. ended' \in [Gens -> Causes] BY DEF Detach, ObjectTypes
<1>4. /\ pending' \in 0..MaxCommands
      /\ cell' \in [Cmds -> CellStates]
      /\ answer' \in [Cmds -> 0..MaxCommands]
  <2>1. CompletePending("lost", None) BY DEF Detach
  <2>2. "lost" \in CellStates /\ None \in 0..MaxCommands
    BY BoundsAssumption DEF CellStates, None
  <2> QED BY <2>1, <2>2, CompletePendingTypes
<1> QED BY <1>1, <1>2, <1>3, <1>4 DEF ObjectTypes

\* connect, up to the candidate connection.
LEMMA CreateConnectionTypes ==
  ASSUME TypeOK, NEW c \in Clients, CreateConnection(c)
  PROVE  TypeOK'
<1> USE BoundsAssumption DEF TypeOK, CreateConnection, Goto
<1>1. ObjectTypes' BY DEF ObjectTypes, clientVars, historyVars
<1>2. ThreadTypes'
  <2>1. cand' \in [Clients -> 0..MaxGen] BY DEF ThreadTypes, WireTypes, Gens
  <2>2. ret' \in [Clients -> {"return", "install", "raise"}] BY DEF ThreadTypes
  <2>3. pc' \in [Clients -> Labels] BY DEF ThreadTypes, Labels
  <2> QED BY <2>1, <2>2, <2>3 DEF ThreadTypes, threadVars
<1>3. WireTypes'
  <2>1. made' \in 0..MaxGen BY DEF WireTypes, Gens
  <2>2. open' \in [Gens -> BOOLEAN] BY DEF WireTypes, Gens
  <2> QED BY <2>1, <2>2 DEF WireTypes, receiverVars, wireVars
<1>4. CursorsInOrder' BY DEF CursorsInOrder, WireTypes, receiverVars, wireVars
<1> QED BY <1>1, <1>2, <1>3, <1>4

\* Reading the generation to take down.
LEMMA DisconnectCurrentTypes ==
  ASSUME TypeOK, NEW c \in Clients, DisconnectCurrent(c)
  PROVE  TypeOK'
<1> USE BoundsAssumption DEF TypeOK, DisconnectCurrent, Goto
<1>1. ObjectTypes' BY DEF ObjectTypes, clientVars, historyVars
<1>2. ThreadTypes'
  <2>1. ret' \in [Clients -> {"return", "install", "raise"}] BY DEF ThreadTypes
  <2>2. myGen' \in [Clients -> 0..MaxGen] BY DEF ThreadTypes, ObjectTypes
  <2>3. pc' \in [Clients -> Labels] BY DEF ThreadTypes, Labels
  <2> QED BY <2>1, <2>2, <2>3 DEF ThreadTypes, threadVars
<1>3. WireTypes' BY DEF WireTypes, receiverVars, wireVars
<1>4. CursorsInOrder' BY DEF CursorsInOrder, WireTypes, receiverVars, wireVars
<1> QED BY <1>1, <1>2, <1>3, <1>4

\* The locked section of _disconnect_generation.
LEMMA DisconnectGenerationTypes ==
  ASSUME TypeOK, NEW c \in Clients, DisconnectGeneration(c)
  PROVE  TypeOK'
<1> USE BoundsAssumption DEF TypeOK, DisconnectGeneration, Goto
<1>1. ObjectTypes'
  <2>1. CASE Detach("fault") \/ Detach("user")
    BY <2>1, DetachTypes DEF Causes, historyVars
  <2>2. CASE UNCHANGED <<clientVars, ended>>
    BY <2>2 DEF ObjectTypes, clientVars
  <2> QED BY <2>1, <2>2
<1>2. ThreadTypes'
  <2>1. pc' \in [Clients -> Labels] BY DEF ThreadTypes, Labels
  <2> QED BY <2>1 DEF ThreadTypes, threadVars
<1>3. WireTypes' BY DEF WireTypes, receiverVars, wireVars
<1>4. CursorsInOrder' BY DEF CursorsInOrder, WireTypes, receiverVars, wireVars
<1> QED BY <1>1, <1>2, <1>3, <1>4

\* Closing the socket that was detached.
LEMMA CloseSocketTypes ==
  ASSUME TypeOK, NEW c \in Clients, CloseSocket(c)
  PROVE  TypeOK'
<1> USE BoundsAssumption DEF TypeOK, CloseSocket, Goto
<1>1. ObjectTypes' BY DEF ObjectTypes, clientVars, historyVars
<1>2. ThreadTypes'
  <2>1. pc' \in [Clients -> Labels] BY DEF ThreadTypes, Labels
  <2> QED BY <2>1 DEF ThreadTypes, threadVars
<1>3. WireTypes'
  <2>1. open' \in [Gens -> BOOLEAN] BY DEF WireTypes, Gens
  <2> QED BY <2>1 DEF WireTypes, receiverVars, wireVars
<1>4. CursorsInOrder' BY DEF CursorsInOrder, WireTypes, receiverVars, wireVars
<1> QED BY <1>1, <1>2, <1>3, <1>4

\* Reporting the loss from a sender.
LEMMA NotifyLostTypes ==
  ASSUME TypeOK, NEW c \in Clients, NotifyLost(c)
  PROVE  TypeOK'
<1> USE BoundsAssumption DEF TypeOK, NotifyLost, Goto
<1>1. ObjectTypes'
  <2>1. notices' \in [Gens -> Nat]
    <3>1. CASE myGen[c] \in Gens BY <3>1 DEF ObjectTypes
    <3>2. CASE myGen[c] \notin Gens BY <3>2 DEF ObjectTypes
    <3> QED BY <3>1, <3>2
  <2> QED BY <2>1 DEF ObjectTypes, clientVars
<1>2. ThreadTypes'
  <2>1. pc' \in [Clients -> Labels] BY DEF ThreadTypes, Labels
  <2> QED BY <2>1 DEF ThreadTypes, threadVars
<1>3. WireTypes' BY DEF WireTypes, receiverVars, wireVars
<1>4. CursorsInOrder' BY DEF CursorsInOrder, WireTypes, receiverVars, wireVars
<1> QED BY <1>1, <1>2, <1>3, <1>4

\* connect, installing the candidate.
LEMMA InstallConnectionTypes ==
  ASSUME TypeOK, NEW c \in Clients, InstallConnection(c)
  PROVE  TypeOK'
<1> USE BoundsAssumption DEF TypeOK, InstallConnection, Goto
<1>1. ObjectTypes'
  <2>1. generation' \in 0..MaxGen BY DEF ObjectTypes, ThreadTypes, Gens
  <2>2. socket' \in 0..MaxGen BY DEF ObjectTypes, ThreadTypes, Gens, None
  <2> QED BY <2>1, <2>2 DEF ObjectTypes, clientVars, historyVars
<1>2. ThreadTypes'
  <2>1. pc' \in [Clients -> Labels] BY DEF ThreadTypes, Labels
  <2> QED BY <2>1 DEF ThreadTypes, threadVars
<1>3. WireTypes'
  <2>1. rpc' \in [Gens -> ReceiverLabels] BY DEF WireTypes, ReceiverLabels
  <2> QED BY <2>1 DEF WireTypes, receiverVars, wireVars
<1>4. CursorsInOrder' BY DEF CursorsInOrder, WireTypes, receiverVars, wireVars
<1> QED BY <1>1, <1>2, <1>3, <1>4

\* send_arm_command, accepting a command.
LEMMA BeginArmCommandTypes ==
  ASSUME TypeOK, NEW c \in Clients, BeginArmCommand(c)
  PROVE  TypeOK'
<1> USE BoundsAssumption DEF TypeOK, BeginArmCommand, Goto
<1>1. ObjectTypes'
  <2>1. issued' \in 0..MaxCommands BY DEF ObjectTypes, Cmds
  <2>2. pending' \in 0..MaxCommands BY DEF ObjectTypes, Cmds, None
  <2>3. cell' \in [Cmds -> CellStates] BY DEF ObjectTypes, CellStates, Cmds
  <2> QED BY <2>1, <2>2, <2>3 DEF ObjectTypes, clientVars, historyVars
<1>2. ThreadTypes'
  <2>1. commandLock' \in Clients \cup {NoClient} BY DEF ThreadTypes, NoClient
  <2>2. myGen' \in [Clients -> 0..MaxGen] BY DEF ThreadTypes, ObjectTypes
  <2>3. myCmd' \in [Clients -> 0..MaxCommands] BY DEF ThreadTypes, ObjectTypes
  <2>4. pc' \in [Clients -> Labels] BY DEF ThreadTypes, Labels
  <2> QED BY <2>1, <2>2, <2>3, <2>4 DEF ThreadTypes, threadVars
<1>3. WireTypes' BY DEF WireTypes, receiverVars, wireVars
<1>4. CursorsInOrder' BY DEF CursorsInOrder, WireTypes, receiverVars, wireVars
<1> QED BY <1>1, <1>2, <1>3, <1>4

\* Writing the line.
LEMMA SendAllTypes ==
  ASSUME TypeOK, NEW c \in Clients, SendAll(c)
  PROVE  TypeOK'
<1> USE BoundsAssumption DEF TypeOK, SendAll, Goto
<1>1. ObjectTypes' BY DEF ObjectTypes, clientVars, historyVars
<1>2. ThreadTypes'
  <2>1. pc' \in [Clients -> Labels] BY DEF ThreadTypes, Labels
  <2> QED BY <2>1 DEF ThreadTypes, threadVars
<1>3. WireTypes'
  <2>1. sent' \in [Gens -> Seq(0..MaxCommands)]
    <3>1. \A q \in Seq(0..MaxCommands) :
            Append(q, myCmd[c]) \in Seq(0..MaxCommands)
      BY DEF ThreadTypes
    <3>2. sent \in [Gens -> Seq(0..MaxCommands)] BY DEF WireTypes
    <3> QED BY <3>1, <3>2
  <2> QED BY <2>1 DEF WireTypes, receiverVars
<1>4. CursorsInOrder'
  <2>1. ASSUME NEW g \in Gens PROVE Len(sent'[g]) >= Len(sent[g])
    <3>1. CASE g = myGen[c] BY <3>1 DEF WireTypes, ThreadTypes
    <3>2. CASE g # myGen[c] BY <3>2 DEF WireTypes
    <3> QED BY <3>1, <3>2
  <2>2. sent' \in [Gens -> Seq(0..MaxCommands)] BY <1>3 DEF WireTypes
  <2>3. ASSUME NEW g \in Gens PROVE Len(sent'[g]) \in Nat
    BY ONLY <2>2, <2>3, LengthType
  <2> QED BY <2>1, <2>3 DEF CursorsInOrder, WireTypes, receiverVars
<1> QED BY <1>1, <1>2, <1>3, <1>4

\* Failing to write the line.
LEMMA SendAllFailsTypes ==
  ASSUME TypeOK, NEW c \in Clients, SendAllFails(c)
  PROVE  TypeOK'
<1> USE BoundsAssumption DEF TypeOK, SendAllFails, Goto
<1>1. ObjectTypes' BY DEF ObjectTypes, clientVars, historyVars
<1>2. ThreadTypes'
  <2>1. ret' \in [Clients -> {"return", "install", "raise"}] BY DEF ThreadTypes
  <2>2. pc' \in [Clients -> Labels] BY DEF ThreadTypes, Labels
  <2> QED BY <2>1, <2>2 DEF ThreadTypes, threadVars
<1>3. WireTypes' BY DEF WireTypes, receiverVars, wireVars
<1>4. CursorsInOrder' BY DEF CursorsInOrder, WireTypes, receiverVars, wireVars
<1> QED BY <1>1, <1>2, <1>3, <1>4

\* The wait for the ACK ends with a result.
LEMMA WaitReturnsTypes ==
  ASSUME TypeOK, NEW c \in Clients, WaitReturns(c)
  PROVE  TypeOK'
<1> USE BoundsAssumption DEF TypeOK, WaitReturns, Goto
<1>1. ObjectTypes' BY DEF ObjectTypes, clientVars, historyVars
<1>2. ThreadTypes'
  <2>1. pc' \in [Clients -> Labels] BY DEF ThreadTypes, Labels
  <2> QED BY <2>1 DEF ThreadTypes, threadVars
<1>3. WireTypes' BY DEF WireTypes, receiverVars, wireVars
<1>4. CursorsInOrder' BY DEF CursorsInOrder, WireTypes, receiverVars, wireVars
<1> QED BY <1>1, <1>2, <1>3, <1>4

\* The wait for the ACK times out.
LEMMA WaitTimesOutTypes ==
  ASSUME TypeOK, NEW c \in Clients, WaitTimesOut(c)
  PROVE  TypeOK'
<1> USE BoundsAssumption DEF TypeOK, WaitTimesOut, Goto
<1>1. ObjectTypes' BY DEF ObjectTypes, clientVars, historyVars
<1>2. ThreadTypes'
  <2>1. pc' \in [Clients -> Labels] BY DEF ThreadTypes, Labels
  <2> QED BY <2>1 DEF ThreadTypes, threadVars
<1>3. WireTypes' BY DEF WireTypes, receiverVars, wireVars
<1>4. CursorsInOrder' BY DEF CursorsInOrder, WireTypes, receiverVars, wireVars
<1> QED BY <1>1, <1>2, <1>3, <1>4

\* The locked section after a timeout.
LEMMA ClaimTimeoutTypes ==
  ASSUME TypeOK, NEW c \in Clients, ClaimTimeout(c)
  PROVE  TypeOK'
<1> USE BoundsAssumption DEF TypeOK, ClaimTimeout, Goto
<1>1. ObjectTypes'
  <2>1. pending' \in 0..MaxCommands BY DEF ObjectTypes, Cmds, None
  <2>2. cell' \in [Cmds -> CellStates] BY DEF ObjectTypes, CellStates, Cmds
  <2> QED BY <2>1, <2>2 DEF ObjectTypes, clientVars, historyVars
<1>2. ThreadTypes'
  <2>1. ret' \in [Clients -> {"return", "install", "raise"}] BY DEF ThreadTypes
  <2>2. pc' \in [Clients -> Labels] BY DEF ThreadTypes, Labels
  <2> QED BY <2>1, <2>2 DEF ThreadTypes, threadVars
<1>3. WireTypes' BY DEF WireTypes, receiverVars, wireVars
<1>4. CursorsInOrder' BY DEF CursorsInOrder, WireTypes, receiverVars, wireVars
<1> QED BY <1>1, <1>2, <1>3, <1>4

\* The end of a request.
LEMMA LeaveTypes ==
  ASSUME TypeOK, NEW c \in Clients, Leave(c)
  PROVE  TypeOK'
<1> USE BoundsAssumption DEF TypeOK, Leave, Goto
<1>1. ObjectTypes' BY DEF ObjectTypes, clientVars, historyVars
<1>2. ThreadTypes'
  <2>1. commandLock' \in Clients \cup {NoClient} BY DEF ThreadTypes, NoClient
  <2>2. ret' \in [Clients -> {"return", "install", "raise"}] BY DEF ThreadTypes
  <2>3. myGen' \in [Clients -> 0..MaxGen] BY DEF ThreadTypes, ObjectTypes, None
  <2>4. myCmd' \in [Clients -> 0..MaxCommands] BY DEF ThreadTypes, ObjectTypes, None
  <2>5. cand' \in [Clients -> 0..MaxGen] BY DEF ThreadTypes, WireTypes, Gens, None
  <2>6. pc' \in [Clients -> Labels] BY DEF ThreadTypes, Labels
  <2> QED BY <2>1, <2>2, <2>3, <2>4, <2>5, <2>6 DEF ThreadTypes, threadVars
<1>3. WireTypes' BY DEF WireTypes, receiverVars, wireVars
<1>4. CursorsInOrder' BY DEF CursorsInOrder, WireTypes, receiverVars, wireVars
<1> QED BY <1>1, <1>2, <1>3, <1>4

\* The test of the stop event.
LEMMA CheckStopTypes ==
  ASSUME TypeOK, NEW g \in Gens, CheckStop(g)
  PROVE  TypeOK'
<1> USE BoundsAssumption DEF TypeOK, CheckStop, RGoto
<1>1. ObjectTypes' BY DEF ObjectTypes, clientVars, historyVars
<1>2. ThreadTypes' BY DEF ThreadTypes, threadVars
<1>3. WireTypes'
  <2>1. rpc' \in [Gens -> ReceiverLabels] BY DEF WireTypes, ReceiverLabels
  <2> QED BY <2>1 DEF WireTypes, receiverVars, wireVars
<1>4. CursorsInOrder' BY DEF CursorsInOrder, WireTypes, receiverVars, wireVars
<1> QED BY <1>1, <1>2, <1>3, <1>4

\* recv returns lines.
LEMMA RecvChunkTypes ==
  ASSUME TypeOK, NEW g \in Gens, RecvChunk(g)
  PROVE  TypeOK'
<1> USE BoundsAssumption DEF TypeOK, RecvChunk, RGoto
<1>1. ObjectTypes' BY DEF ObjectTypes, clientVars, historyVars
<1>2. ThreadTypes' BY DEF ThreadTypes, threadVars
<1>3. WireTypes'
  <2>1. fetched' \in [Gens -> Nat] BY DEF WireTypes
  <2>2. rpc' \in [Gens -> ReceiverLabels] BY DEF WireTypes, ReceiverLabels
  <2> QED BY <2>1, <2>2 DEF WireTypes, receiverVars, wireVars
<1>4. CursorsInOrder' BY DEF CursorsInOrder, WireTypes, receiverVars, wireVars
<1> QED BY <1>1, <1>2, <1>3, <1>4

\* recv times out.
LEMMA RecvTimesOutTypes ==
  ASSUME TypeOK, NEW g \in Gens, RecvTimesOut(g)
  PROVE  TypeOK'
<1> USE BoundsAssumption DEF TypeOK, RecvTimesOut, RGoto
<1>1. ObjectTypes' BY DEF ObjectTypes, clientVars, historyVars
<1>2. ThreadTypes' BY DEF ThreadTypes, threadVars
<1>3. WireTypes'
  <2>1. rpc' \in [Gens -> ReceiverLabels] BY DEF WireTypes, ReceiverLabels
  <2> QED BY <2>1 DEF WireTypes, receiverVars, wireVars
<1>4. CursorsInOrder' BY DEF CursorsInOrder, WireTypes, receiverVars, wireVars
<1> QED BY <1>1, <1>2, <1>3, <1>4

\* recv fails.
LEMMA RecvFailsTypes ==
  ASSUME TypeOK, NEW g \in Gens, RecvFails(g)
  PROVE  TypeOK'
<1> USE BoundsAssumption DEF TypeOK, RecvFails, RGoto
<1>1. ObjectTypes' BY DEF ObjectTypes, clientVars, historyVars
<1>2. ThreadTypes' BY DEF ThreadTypes, threadVars
<1>3. WireTypes'
  <2>1. rpc' \in [Gens -> ReceiverLabels] BY DEF WireTypes, ReceiverLabels
  <2> QED BY <2>1 DEF WireTypes, receiverVars, wireVars
<1>4. CursorsInOrder' BY DEF CursorsInOrder, WireTypes, receiverVars, wireVars
<1> QED BY <1>1, <1>2, <1>3, <1>4

\* recv finds the end.
LEMMA RecvEofTypes ==
  ASSUME TypeOK, NEW g \in Gens, RecvEof(g)
  PROVE  TypeOK'
<1> USE BoundsAssumption DEF TypeOK, RecvEof, RGoto
<1>1. ObjectTypes' BY DEF ObjectTypes, clientVars, historyVars
<1>2. ThreadTypes' BY DEF ThreadTypes, threadVars
<1>3. WireTypes'
  <2>1. rpc' \in [Gens -> ReceiverLabels] BY DEF WireTypes, ReceiverLabels
  <2> QED BY <2>1 DEF WireTypes, receiverVars, wireVars
<1>4. CursorsInOrder' BY DEF CursorsInOrder, WireTypes, receiverVars, wireVars
<1> QED BY <1>1, <1>2, <1>3, <1>4

\* _route_received_line on one line.
LEMMA RouteReceivedLineTypes ==
  ASSUME TypeOK, NEW g \in Gens, RouteReceivedLine(g)
  PROVE  TypeOK'
<1> USE BoundsAssumption DEF TypeOK, RouteReceivedLine, RGoto
<1>1. ObjectTypes'
  <2> DEFINE line == replies[g][routed[g] + 1]
  <2>1. CASE CompletePending("answered", line)
    <3>1. line \in 0..MaxCommands BY DEF WireTypes, CursorsInOrder
    <3>2. "answered" \in CellStates BY DEF CellStates
    <3> HIDE DEF line
    <3> QED
      BY <2>1, <3>1, <3>2, CompletePendingTypes DEF ObjectTypes, historyVars
  <2>2. CASE UNCHANGED <<pending, cell, answer>>
    BY <2>2 DEF ObjectTypes, historyVars
  <2> QED BY <2>1, <2>2
<1>2. ThreadTypes' BY DEF ThreadTypes, threadVars
<1>3. WireTypes'
  <2>1. routed' \in [Gens -> Nat] BY DEF WireTypes
  <2>2. rpc' \in [Gens -> ReceiverLabels] BY DEF WireTypes, ReceiverLabels
  <2> QED BY <2>1, <2>2 DEF WireTypes, receiverVars, wireVars
<1>4. CursorsInOrder' BY DEF CursorsInOrder, WireTypes, receiverVars, wireVars
<1> QED BY <1>1, <1>2, <1>3, <1>4

\* The locked section of _receiver_connection_lost.
LEMMA ReceiverConnectionLostTypes ==
  ASSUME TypeOK, NEW g \in Gens, ReceiverConnectionLost(g)
  PROVE  TypeOK'
<1> USE BoundsAssumption DEF TypeOK, ReceiverConnectionLost, RGoto
<1>1. ObjectTypes'
  <2>1. CASE Detach("fault") BY <2>1, DetachTypes DEF Causes
  <2>2. CASE UNCHANGED <<clientVars, ended>>
    BY <2>2 DEF ObjectTypes, clientVars
  <2> QED BY <2>1, <2>2
<1>2. ThreadTypes' BY DEF ThreadTypes, threadVars
<1>3. WireTypes'
  <2>1. rpc' \in [Gens -> ReceiverLabels] BY DEF WireTypes, ReceiverLabels
  <2> QED BY <2>1 DEF WireTypes, receiverVars, wireVars
<1>4. CursorsInOrder' BY DEF CursorsInOrder, WireTypes, receiverVars, wireVars
<1> QED BY <1>1, <1>2, <1>3, <1>4

\* Reporting the loss from a receiver.
LEMMA EmitLostTypes ==
  ASSUME TypeOK, NEW g \in Gens, EmitLost(g)
  PROVE  TypeOK'
<1> USE BoundsAssumption DEF TypeOK, EmitLost, RGoto
<1>1. ObjectTypes'
  <2>1. notices' \in [Gens -> Nat] BY DEF ObjectTypes
  <2> QED BY <2>1 DEF ObjectTypes, clientVars, historyVars
<1>2. ThreadTypes' BY DEF ThreadTypes, threadVars
<1>3. WireTypes'
  <2>1. rpc' \in [Gens -> ReceiverLabels] BY DEF WireTypes, ReceiverLabels
  <2> QED BY <2>1 DEF WireTypes, receiverVars, wireVars
<1>4. CursorsInOrder' BY DEF CursorsInOrder, WireTypes, receiverVars, wireVars
<1> QED BY <1>1, <1>2, <1>3, <1>4

\* The end of a receiver.
LEMMA ReceiverClosesTypes ==
  ASSUME TypeOK, NEW g \in Gens, ReceiverCloses(g)
  PROVE  TypeOK'
<1> USE BoundsAssumption DEF TypeOK, ReceiverCloses, RGoto
<1>1. ObjectTypes' BY DEF ObjectTypes, clientVars, historyVars
<1>2. ThreadTypes' BY DEF ThreadTypes, threadVars
<1>3. WireTypes'
  <2>1. open' \in [Gens -> BOOLEAN] BY DEF WireTypes, Gens
  <2>2. rpc' \in [Gens -> ReceiverLabels] BY DEF WireTypes, ReceiverLabels
  <2> QED BY <2>1, <2>2 DEF WireTypes, receiverVars, wireVars
<1>4. CursorsInOrder' BY DEF CursorsInOrder, WireTypes, receiverVars, wireVars
<1> QED BY <1>1, <1>2, <1>3, <1>4

\* The device answers a command.
LEMMA EspReplyTypes ==
  ASSUME TypeOK, NEW g \in Gens, EspReply(g)
  PROVE  TypeOK'
<1> USE BoundsAssumption DEF TypeOK, EspReply
<1>1. ObjectTypes' BY DEF ObjectTypes, clientVars, historyVars
<1>2. ThreadTypes' BY DEF ThreadTypes, threadVars
<1>3. WireTypes'
  <2>1. sent[g][handled[g] + 1] \in 0..MaxCommands
    BY DEF WireTypes, CursorsInOrder
  <2>2. replies' \in [Gens -> Seq(0..MaxCommands)]
    <3>1. \A q \in Seq(0..MaxCommands) :
            Append(q, sent[g][handled[g] + 1]) \in Seq(0..MaxCommands)
      BY <2>1
    <3>2. replies \in [Gens -> Seq(0..MaxCommands)] BY DEF WireTypes
    <3> QED BY <3>1, <3>2
  <2>3. handled' \in [Gens -> Nat] BY DEF WireTypes
  <2> QED BY <2>2, <2>3 DEF WireTypes, receiverVars
<1>4. CursorsInOrder' BY DEF CursorsInOrder, WireTypes, receiverVars, wireVars
<1> QED BY <1>1, <1>2, <1>3, <1>4

\* The device relays an AGV line.
LEMMA EspTelemetryTypes ==
  ASSUME TypeOK, NEW g \in Gens, EspTelemetry(g)
  PROVE  TypeOK'
<1> USE BoundsAssumption DEF TypeOK, EspTelemetry, Telemetry
<1>1. ObjectTypes' BY DEF ObjectTypes, clientVars, historyVars
<1>2. ThreadTypes' BY DEF ThreadTypes, threadVars
<1>3. WireTypes'
  <2>1. replies' \in [Gens -> Seq(0..MaxCommands)] BY DEF WireTypes, Gens
  <2> QED BY <2>1 DEF WireTypes, receiverVars, wireVars
<1>4. CursorsInOrder' BY DEF CursorsInOrder, WireTypes, receiverVars, wireVars
<1> QED BY <1>1, <1>2, <1>3, <1>4

\* The device goes away.
LEMMA EspClosesTypes ==
  ASSUME TypeOK, NEW g \in Gens, EspCloses(g)
  PROVE  TypeOK'
<1> USE BoundsAssumption DEF TypeOK, EspCloses
<1>1. ObjectTypes' BY DEF ObjectTypes, clientVars, historyVars
<1>2. ThreadTypes' BY DEF ThreadTypes, threadVars
<1>3. WireTypes'
  <2>1. peerClosed' \in [Gens -> BOOLEAN] BY DEF WireTypes
  <2> QED BY <2>1 DEF WireTypes, receiverVars, wireVars
<1>4. CursorsInOrder' BY DEF CursorsInOrder, WireTypes, receiverVars, wireVars
<1> QED BY <1>1, <1>2, <1>3, <1>4

\* A stuttering step.
LEMMA StutterTypes == TypeOK /\ UNCHANGED vars => TypeOK'
BY DEF TypeOK, ObjectTypes, ThreadTypes, WireTypes, CursorsInOrder, vars,
       clientVars, threadVars, receiverVars, wireVars, historyVars

\* Any step of the client's threads, its receivers or the device.
LEMMA NextTypes == TypeOK /\ [Next]_vars => TypeOK'
<1>1. ASSUME TypeOK, NEW c \in Clients, ClientStep(c) \/ ClientRequest(c)
      PROVE  TypeOK'
  BY <1>1, CreateConnectionTypes, DisconnectCurrentTypes,
     DisconnectGenerationTypes, CloseSocketTypes, NotifyLostTypes,
     InstallConnectionTypes, BeginArmCommandTypes, SendAllTypes,
     SendAllFailsTypes, WaitReturnsTypes, WaitTimesOutTypes,
     ClaimTimeoutTypes, LeaveTypes DEF ClientStep, ClientRequest
<1>2. ASSUME TypeOK, NEW g \in Gens, ReceiverStep(g) \/ Device(g)
      PROVE  TypeOK'
  BY <1>2, CheckStopTypes, RecvChunkTypes, RecvTimesOutTypes, RecvFailsTypes,
     RecvEofTypes, RouteReceivedLineTypes, ReceiverConnectionLostTypes,
     EmitLostTypes, ReceiverClosesTypes, EspReplyTypes, EspTelemetryTypes,
     EspClosesTypes DEF ReceiverStep, Device
<1> QED BY <1>1, <1>2, StutterTypes DEF Next

\* Every variable of the client, its threads and its connections keeps its
\* type, and every line is routed whole and once, whatever the threads and
\* the device do.
THEOREM TypeCorrect == Spec => []TypeOK
<1>1. Init => TypeOK BY InitTypes
<1>2. TypeOK /\ [Next]_vars => TypeOK' BY NextTypes
<1> QED BY <1>1, <1>2, PTL DEF Spec

-----------------------------------------------------------------------------
(* The parts of IInv. *)

\* Receivers and the device touch no variable of the client threads.
LEMMA WireLeavesThreads ==
  ASSUME NEW g \in Gens, ReceiverStep(g) \/ Device(g)
  PROVE  UNCHANGED threadVars
BY DEF ReceiverStep, Device, CheckStop, RecvChunk, RecvTimesOut, RecvFails,
   RecvEof, RouteReceivedLine, ReceiverConnectionLost, EmitLost,
   ReceiverCloses, EspReply, EspTelemetry, EspCloses

\* At the start no thread is in an exchange.
LEMMA LockInit == Init => LockInv
BY DEF Init, LockInv, InExchange, Failing

\* Only the holder of _command_lock is inside an exchange.
LEMMA LockStep == TypeOK /\ LockInv /\ [Next]_vars => LockInv'
<1> SUFFICES ASSUME TypeOK, LockInv, [Next]_vars PROVE LockInv' OBVIOUS
<1> USE DEF LockInv, InExchange, Failing, Goto
<1>1. TypeOK' BY NextTypes
<1>2. /\ pc \in [Clients -> Labels] /\ pc' \in [Clients -> Labels]
      /\ ret \in [Clients -> {"return", "install", "raise"}]
      /\ ret' \in [Clients -> {"return", "install", "raise"}]
  BY <1>1 DEF TypeOK, ThreadTypes
<1>3. CASE UNCHANGED threadVars BY <1>3 DEF threadVars
<1>4. ASSUME NEW c \in Clients, ClientStep(c) \/ ClientRequest(c) PROVE LockInv'
  <2>1. CASE CreateConnection(c) BY <1>2, <2>1 DEF CreateConnection
  <2>2. CASE DisconnectCurrent(c) BY <1>2, <2>2 DEF DisconnectCurrent
  <2>3. CASE DisconnectGeneration(c) BY <1>2, <2>3 DEF DisconnectGeneration
  <2>4. CASE CloseSocket(c) BY <1>2, <2>4 DEF CloseSocket
  <2>5. CASE NotifyLost(c) BY <1>2, <2>5 DEF NotifyLost
  <2>6. CASE InstallConnection(c) BY <1>2, <2>6 DEF InstallConnection
  <2>7. CASE BeginArmCommand(c)
    BY <1>2, <2>7, NoClientAssumption DEF BeginArmCommand
  <2>8. CASE SendAll(c) BY <1>2, <2>8 DEF SendAll
  <2>9. CASE SendAllFails(c) BY <1>2, <2>9 DEF SendAllFails
  <2>10. CASE WaitReturns(c) BY <1>2, <2>10 DEF WaitReturns
  <2>11. CASE WaitTimesOut(c) BY <1>2, <2>11 DEF WaitTimesOut
  <2>12. CASE ClaimTimeout(c) BY <1>2, <2>12 DEF ClaimTimeout
  <2>13. CASE Leave(c) BY <1>2, <2>13 DEF Leave
  <2> QED
    BY <1>4, <2>1, <2>2, <2>3, <2>4, <2>5, <2>6, <2>7, <2>8, <2>9, <2>10,
       <2>11, <2>12, <2>13 DEF ClientStep, ClientRequest
<1> QED BY <1>3, <1>4, WireLeavesThreads DEF Next, vars

\* At the start nothing is installed.
LEMMA InstalledInit == Init => InstalledInv
BY DEF Init, InstalledInv, InExchange, Failing

\* A receiver never leaves a connection uninstalled, and none is undone.
LEMMA ReceiverKeepsInstalled ==
  ASSUME TypeOK, NEW g \in Gens, ReceiverStep(g) \/ Device(g)
  PROVE  /\ \A h \in Gens : rpc'[h] = "none" <=> rpc[h] = "none"
         /\ socket' \in {socket, None} /\ generation' = generation
<1> USE DEF RGoto
<1>1. /\ rpc \in [Gens -> ReceiverLabels]
      /\ g \in Gens
  BY DEF TypeOK, WireTypes
<1>2. CASE Device(g)
  BY <1>2 DEF Device, EspReply, EspTelemetry, EspCloses, receiverVars, clientVars
<1>3. CASE CheckStop(g) BY <1>1, <1>3 DEF CheckStop, clientVars
<1>4. CASE RecvChunk(g) BY <1>1, <1>4 DEF RecvChunk, clientVars
<1>5. CASE RecvTimesOut(g) BY <1>1, <1>5 DEF RecvTimesOut, clientVars
<1>6. CASE RecvFails(g) BY <1>1, <1>6 DEF RecvFails, clientVars
<1>7. CASE RecvEof(g) BY <1>1, <1>7 DEF RecvEof, clientVars
<1>8. CASE RouteReceivedLine(g) BY <1>1, <1>8 DEF RouteReceivedLine
<1>9. CASE ReceiverConnectionLost(g)
  BY <1>1, <1>9 DEF ReceiverConnectionLost, Detach, clientVars
<1>10. CASE EmitLost(g) BY <1>1, <1>10 DEF EmitLost, clientVars
<1>11. CASE ReceiverCloses(g) BY <1>1, <1>11 DEF ReceiverCloses, clientVars
<1> QED
  BY <1>2, <1>3, <1>4, <1>5, <1>6, <1>7, <1>8, <1>9, <1>10, <1>11
     DEF ReceiverStep

\* The installed connection, and any that carries an exchange, was installed.
LEMMA InstalledStep ==
  TypeOK /\ LockInv /\ FreshInv /\ InstalledInv /\ [Next]_vars => InstalledInv'
<1> SUFFICES ASSUME TypeOK, LockInv, FreshInv, InstalledInv, [Next]_vars
             PROVE  InstalledInv'
  OBVIOUS
<1> USE DEF InstalledInv, InExchange, Failing, Goto
<1>1. TypeOK' BY NextTypes
<1>2. /\ pc \in [Clients -> Labels] /\ pc' \in [Clients -> Labels]
      /\ ret \in [Clients -> {"return", "install", "raise"}]
      /\ ret' \in [Clients -> {"return", "install", "raise"}]
      /\ myGen \in [Clients -> 0..MaxGen] /\ myGen' \in [Clients -> 0..MaxGen]
      /\ cand \in [Clients -> 0..MaxGen]
      /\ rpc \in [Gens -> ReceiverLabels]
      /\ socket \in 0..MaxGen /\ generation \in 0..MaxGen
  BY <1>1 DEF TypeOK, ThreadTypes, WireTypes, ObjectTypes
<1>3. CASE UNCHANGED vars
  BY <1>3 DEF vars, threadVars, clientVars, receiverVars
<1>4. ASSUME NEW c \in Clients, ClientStep(c) \/ ClientRequest(c)
      PROVE  InstalledInv'
  <2>1. CASE CreateConnection(c)
    BY <1>2, <2>1 DEF CreateConnection, clientVars, receiverVars
  <2>2. CASE DisconnectCurrent(c)
    BY <1>2, <2>2 DEF LockInv, DisconnectCurrent, clientVars, receiverVars
  <2>3. CASE DisconnectGeneration(c)
    <3>1. socket' \in {socket, None} /\ UNCHANGED <<generation, rpc, myGen, ret>>
      BY <2>3 DEF DisconnectGeneration, Detach, clientVars, receiverVars
    <3>2. \A d \in Clients : InExchange(d)' => InExchange(d)
      BY <1>2, <2>3 DEF DisconnectGeneration
    <3> QED BY <3>1, <3>2
  <2>4. CASE CloseSocket(c)
    BY <1>2, <2>4 DEF CloseSocket, clientVars, receiverVars
  <2>5. CASE NotifyLost(c)
    BY <1>2, <2>5 DEF NotifyLost, clientVars, receiverVars
  <2>6. CASE InstallConnection(c)
    <3>1. cand[c] \in Gens /\ rpc[cand[c]] = "none"
      BY <2>6, BoundsAssumption
         DEF InstallConnection, FreshInv, Connecting, TypeOK, WireTypes, Gens
    <3>2. \A g \in Gens : rpc'[g] # "none" <=> rpc[g] # "none" \/ g = cand[c]
      BY <1>2, <2>6, <3>1 DEF InstallConnection
    <3>3. socket' = generation' /\ generation' = cand[c] /\ UNCHANGED <<myGen, ret>>
      BY <2>6 DEF InstallConnection
    <3>4. \A d \in Clients : InExchange(d)' => InExchange(d)
      BY <1>2, <2>6 DEF InstallConnection
    <3>5. \A d \in Clients : InExchange(d) => myGen[d] \in Gens
      BY <1>2 DEF Gens, None
    <3> HIDE DEF InExchange
    <3> QED BY <3>1, <3>2, <3>3, <3>4, <3>5
  <2>7. CASE BeginArmCommand(c)
    BY <1>2, <2>7 DEF BeginArmCommand, clientVars, receiverVars
  <2>8. CASE SendAll(c) BY <1>2, <2>8 DEF SendAll, clientVars, receiverVars
  <2>9. CASE SendAllFails(c)
    BY <1>2, <2>9 DEF SendAllFails, clientVars, receiverVars
  <2>10. CASE WaitReturns(c)
    BY <1>2, <2>10 DEF WaitReturns, clientVars, receiverVars
  <2>11. CASE WaitTimesOut(c)
    BY <1>2, <2>11 DEF WaitTimesOut, clientVars, receiverVars
  <2>12. CASE ClaimTimeout(c)
    BY <1>2, <2>12 DEF ClaimTimeout, clientVars, receiverVars
  <2>13. CASE Leave(c) BY <1>2, <2>13 DEF Leave, clientVars, receiverVars
  <2> QED
    BY <1>4, <2>1, <2>2, <2>3, <2>4, <2>5, <2>6, <2>7, <2>8, <2>9, <2>10,
       <2>11, <2>12, <2>13 DEF ClientStep, ClientRequest
<1>5. ASSUME NEW g \in Gens, ReceiverStep(g) \/ Device(g)
      PROVE  InstalledInv'
  BY <1>2, <1>5, ReceiverKeepsInstalled, WireLeavesThreads
     DEF threadVars, Gens, None
<1> QED BY <1>3, <1>4, <1>5 DEF Next

\* At the start no connection was made.
LEMMA FreshInit == Init => FreshInv
BY DEF Init, FreshInv, Connecting

\* A step after which nobody connects who did not before, and which installs,
\* makes and writes no connection.
LEMMA FreshFrame ==
  ASSUME FreshInv, UNCHANGED <<made, sent>>,
         \A g \in Gens : rpc'[g] = "none" <=> rpc[g] = "none",
         \A c \in Clients : Connecting(c)' => Connecting(c) /\ cand'[c] = cand[c],
         made \in 0..MaxGen
  PROVE  FreshInv'
<1> USE BoundsAssumption DEF FreshInv
<1>1. \A c \in Clients : Connecting(c) => cand[c] \in Gens BY DEF Gens
<1>2. \A c \in Clients : Connecting(c)' =>
        cand'[c] \in 1..made' /\ rpc'[cand'[c]] = "none"
  BY <1>1
<1>3. \A c, d \in Clients :
        Connecting(c)' /\ Connecting(d)' /\ cand'[c] = cand'[d] => c = d
  OBVIOUS
<1> HIDE DEF Connecting
<1> QED BY <1>2, <1>3

\* Receivers and the device neither make nor write connections.
LEMMA WireLeavesSent ==
  ASSUME NEW g \in Gens, ReceiverStep(g) \/ Device(g)
  PROVE  UNCHANGED <<made, sent>>
BY DEF ReceiverStep, Device, CheckStop, RecvChunk, RecvTimesOut, RecvFails,
   RecvEof, RouteReceivedLine, ReceiverConnectionLost, EmitLost,
   ReceiverCloses, EspReply, EspTelemetry, EspCloses, wireVars

\* connect holds a connection of its own, which has carried nothing.
LEMMA FreshStep ==
  TypeOK /\ LockInv /\ InstalledInv /\ FreshInv /\ [Next]_vars => FreshInv'
<1> SUFFICES ASSUME TypeOK, LockInv, InstalledInv, FreshInv, [Next]_vars
             PROVE  FreshInv'
  OBVIOUS
<1>1. TypeOK' BY NextTypes
<1>2. /\ pc \in [Clients -> Labels] /\ pc' \in [Clients -> Labels]
      /\ ret \in [Clients -> {"return", "install", "raise"}]
      /\ ret' \in [Clients -> {"return", "install", "raise"}]
      /\ cand \in [Clients -> 0..MaxGen] /\ cand' \in [Clients -> 0..MaxGen]
      /\ rpc \in [Gens -> ReceiverLabels]
      /\ made \in 0..MaxGen
      /\ open \in [Gens -> BOOLEAN]
      /\ sent \in [Gens -> Seq(0..MaxCommands)]
  BY <1>1 DEF TypeOK, ThreadTypes, WireTypes
<1>3. CASE UNCHANGED vars
  <2>1. UNCHANGED <<made, sent, rpc, pc, ret, cand>>
    BY <1>3 DEF vars, wireVars, threadVars, receiverVars
  <2>2. \A c \in Clients : Connecting(c)' => Connecting(c) BY <2>1 DEF Connecting
  <2> QED BY <1>2, <2>1, <2>2, FreshFrame
<1>4. ASSUME NEW c \in Clients, ClientStep(c) \/ ClientRequest(c) PROVE FreshInv'
  <2> DEFINE Frame ==
        /\ UNCHANGED <<made, sent, rpc>>
        /\ \A d \in Clients :
             Connecting(d)' => Connecting(d) /\ cand'[d] = cand[d]
  <2>1. Frame => FreshInv' BY <1>2, FreshFrame
  <2> USE DEF Connecting, Goto
  <2>2. CASE CreateConnection(c)
    <3>1. /\ UNCHANGED <<rpc, sent>> /\ made' = made + 1 /\ made + 1 \in Gens
      BY <1>2, <2>2, BoundsAssumption DEF CreateConnection, receiverVars, Gens
    <3>2. cand'[c] = made + 1
      BY <1>2, <2>2 DEF CreateConnection
    <3>3. \A d \in Clients \ {c} : cand'[d] = cand[d] /\ pc'[d] = pc[d] /\ ret'[d] = ret[d]
      BY <1>2, <2>2 DEF CreateConnection
    <3>4. \A d \in Clients \ {c} : Connecting(d)' => Connecting(d)
      BY <3>3
    <3> HIDE DEF Connecting
    <3>5. rpc[made + 1] = "none" BY <1>2, <3>1 DEF FreshInv
    <3>6. \A d \in Clients : Connecting(d) => cand[d] \in 1..made
      BY DEF FreshInv
    <3>7. \A d \in Clients : Connecting(d) => rpc[cand[d]] = "none"
      BY DEF FreshInv
    <3>8. ASSUME NEW d \in Clients, Connecting(d)'
          PROVE  cand'[d] \in 1..made' /\ rpc'[cand'[d]] = "none"
      <4>1. CASE d = c BY <1>2, <3>1, <3>2, <3>5, <4>1
      <4>2. CASE d # c
        <5>1. Connecting(d) /\ cand'[d] = cand[d] BY <3>3, <3>4, <3>8, <4>2
        <5> QED BY <1>2, <3>1, <3>6, <3>7, <5>1
      <4> QED BY <4>1, <4>2
    <3>9. ASSUME NEW d \in Clients, NEW e \in Clients, d # e,
                 Connecting(d)', Connecting(e)'
          PROVE  cand'[d] # cand'[e]
      <4>1. \A x \in Clients \ {c} :
              Connecting(x)' => Connecting(x) /\ cand'[x] = cand[x] /\ cand[x] <= made
        BY <1>2, <3>3, <3>4, <3>6
      <4>2. CASE d = c BY <1>2, <3>2, <3>9, <4>1, <4>2
      <4>3. CASE e = c BY <1>2, <3>2, <3>9, <4>1, <4>3
      <4>4. CASE d # c /\ e # c BY <3>9, <4>1, <4>4 DEF FreshInv
      <4> QED BY <4>2, <4>3, <4>4
    <3> QED BY <1>2, <3>1, <3>8, <3>9 DEF FreshInv, Gens
  <2>3. CASE DisconnectCurrent(c)
    BY <1>2, <2>1, <2>3 DEF DisconnectCurrent, LockInv, receiverVars, wireVars
  <2>4. CASE DisconnectGeneration(c)
    BY <1>2, <2>1, <2>4 DEF DisconnectGeneration, receiverVars, wireVars
  <2>5. CASE CloseSocket(c)
    BY <1>2, <2>1, <2>5 DEF CloseSocket, receiverVars
  <2>6. CASE NotifyLost(c)
    BY <1>2, <2>1, <2>6 DEF NotifyLost, receiverVars, wireVars
  <2>7. CASE InstallConnection(c)
    <3>1. cand[c] \in Gens /\ cand[c] <= made /\ Connecting(c)
      BY <1>2, <2>7, BoundsAssumption DEF InstallConnection, FreshInv, Gens
    <3>2. UNCHANGED <<made, sent, cand, ret>>
      BY <2>7 DEF InstallConnection, wireVars
    <3>3. \A g \in Gens \ {cand[c]} : rpc'[g] = rpc[g]
      BY <1>2, <2>7 DEF InstallConnection
    <3>4. rpc'[cand[c]] = "check" BY <1>2, <2>7, <3>1 DEF InstallConnection
    <3>5. \A d \in Clients : Connecting(d)' => Connecting(d) /\ d # c
      BY <1>2, <2>7 DEF InstallConnection
    <3>6. \A d \in Clients : Connecting(d) =>
            cand[d] \in 1..made /\ cand[d] \in Gens /\ rpc[cand[d]] = "none"
      BY <1>2, BoundsAssumption DEF FreshInv, Gens
    <3> HIDE DEF Connecting
    <3>7. \A d \in Clients : Connecting(d)' => cand[d] # cand[c]
      BY <3>1, <3>5 DEF FreshInv
    <3>8. \A d \in Clients : Connecting(d)' =>
            cand'[d] \in 1..made' /\ rpc'[cand'[d]] = "none"
      BY <3>2, <3>3, <3>5, <3>6, <3>7
    <3>9. \A g \in Gens : g > made' => rpc'[g] = "none"
      BY <1>2, <3>1, <3>2, <3>3 DEF FreshInv, Gens
    <3>10. \A g \in Gens : rpc'[g] = "none" => sent'[g] = <<>>
      BY <3>1, <3>2, <3>3, <3>4 DEF FreshInv
    <3> QED BY <3>2, <3>5, <3>8, <3>9, <3>10 DEF FreshInv
  <2>8. CASE BeginArmCommand(c)
    BY <1>2, <2>1, <2>8 DEF BeginArmCommand, receiverVars, wireVars
  <2>9. CASE SendAll(c)
    <3>1. rpc[myGen[c]] # "none"
      BY <2>9 DEF SendAll, InstalledInv, InExchange
    <3>2. UNCHANGED <<made, rpc, cand, ret>>
      BY <2>9 DEF SendAll, receiverVars
    <3>3. \A g \in Gens : rpc[g] = "none" => sent'[g] = sent[g]
      BY <1>2, <2>9, <3>1 DEF SendAll
    <3>4. \A d \in Clients : Connecting(d)' => Connecting(d)
      BY <1>2, <2>9 DEF SendAll
    <3> HIDE DEF Connecting
    <3> QED BY <3>2, <3>3, <3>4 DEF FreshInv
  <2>10. CASE SendAllFails(c)
    BY <1>2, <2>1, <2>10 DEF SendAllFails, receiverVars, wireVars
  <2>11. CASE WaitReturns(c)
    BY <1>2, <2>1, <2>11 DEF WaitReturns, receiverVars, wireVars
  <2>12. CASE WaitTimesOut(c)
    BY <1>2, <2>1, <2>12 DEF WaitTimesOut, receiverVars, wireVars
  <2>13. CASE ClaimTimeout(c)
    BY <1>2, <2>1, <2>13 DEF ClaimTimeout, receiverVars, wireVars
  <2>14. CASE Leave(c)
    BY <1>2, <2>1, <2>14 DEF Leave, receiverVars, wireVars
  <2> QED
    BY <1>4, <2>2, <2>3, <2>4, <2>5, <2>6, <2>7, <2>8, <2>9, <2>10, <2>11,
       <2>12, <2>13, <2>14 DEF ClientStep, ClientRequest
<1>5. ASSUME NEW g \in Gens, ReceiverStep(g) \/ Device(g) PROVE FreshInv'
  <2>1. UNCHANGED <<pc, ret, cand>>
    BY <1>5, WireLeavesThreads DEF threadVars
  <2>2. \A c \in Clients : Connecting(c)' => Connecting(c)
    BY <2>1 DEF Connecting
  <2> QED
    BY <1>2, <1>5, <2>1, <2>2, WireLeavesSent, ReceiverKeepsInstalled, FreshFrame
<1> QED BY <1>3, <1>4, <1>5 DEF Next

\* At the start nothing is pending.
LEMMA PendingInit == Init => PendingInv
BY DEF Init, PendingInv, InExchange, Failing

\* A step that accepts no command and either leaves _pending and the commands
\* alone or clears it.
LEMMA PendingFrame ==
  ASSUME PendingInv, issued' = issued,
         pending' = None \/ UNCHANGED <<pending, cell>>,
         \A c \in Clients : InExchange(c)' => InExchange(c) /\ myCmd'[c] = myCmd[c]
  PROVE  PendingInv'
BY DEF PendingInv

\* A receiver or the device may clear _pending, and never sets it.
LEMMA WireKeepsPending ==
  ASSUME NEW g \in Gens, ReceiverStep(g) \/ Device(g)
  PROVE  issued' = issued /\ (pending' = None \/ UNCHANGED <<pending, cell>>)
<1> USE DEF clientVars, historyVars
<1>1. CASE Device(g)
  BY <1>1 DEF Device, EspReply, EspTelemetry, EspCloses
<1>2. CASE RouteReceivedLine(g)
  BY <1>2 DEF RouteReceivedLine, CompletePending
<1>3. CASE ReceiverConnectionLost(g)
  BY <1>3 DEF ReceiverConnectionLost, Detach, CompletePending
<1>4. CASE CheckStop(g) \/ RecvChunk(g) \/ RecvTimesOut(g) \/ RecvFails(g)
           \/ RecvEof(g) \/ EmitLost(g) \/ ReceiverCloses(g)
  BY <1>4 DEF CheckStop, RecvChunk, RecvTimesOut, RecvFails, RecvEof, EmitLost,
     ReceiverCloses
<1> QED BY <1>1, <1>2, <1>3, <1>4 DEF ReceiverStep

\* _pending is the waiting command of the one sender in an exchange.
LEMMA PendingStep ==
  TypeOK /\ LockInv /\ PendingInv /\ [Next]_vars => PendingInv'
<1> SUFFICES ASSUME TypeOK, LockInv, PendingInv, [Next]_vars PROVE PendingInv'
  OBVIOUS
<1>1. TypeOK' BY NextTypes
<1>2. /\ pc \in [Clients -> Labels] /\ pc' \in [Clients -> Labels]
      /\ ret \in [Clients -> {"return", "install", "raise"}]
      /\ ret' \in [Clients -> {"return", "install", "raise"}]
      /\ myCmd \in [Clients -> 0..MaxCommands]
      /\ myCmd' \in [Clients -> 0..MaxCommands]
      /\ cell \in [Cmds -> CellStates]
      /\ issued \in 0..MaxCommands
  BY <1>1 DEF TypeOK, ThreadTypes, ObjectTypes
<1>3. CASE UNCHANGED vars
  <2>1. UNCHANGED <<issued, pending, cell, pc, ret, myCmd>>
    BY <1>3 DEF vars, historyVars, clientVars, threadVars
  <2>2. \A c \in Clients : InExchange(c)' => InExchange(c)
    BY <2>1 DEF InExchange, Failing
  <2> QED BY <2>1, <2>2, PendingFrame
<1>4. ASSUME NEW c \in Clients, ClientStep(c) \/ ClientRequest(c) PROVE PendingInv'
  <2> DEFINE Frame ==
        /\ issued' = issued
        /\ pending' = None \/ UNCHANGED <<pending, cell>>
        /\ \A d \in Clients : InExchange(d)' => InExchange(d) /\ myCmd'[d] = myCmd[d]
  <2>1. Frame => PendingInv' BY PendingFrame
  <2> USE DEF InExchange, Failing, Goto, clientVars, historyVars
  <2>2. CASE CreateConnection(c) BY <1>2, <2>1, <2>2 DEF CreateConnection
  <2>3. CASE DisconnectCurrent(c)
    BY <1>2, <2>1, <2>3 DEF DisconnectCurrent, LockInv
  <2>4. CASE DisconnectGeneration(c)
    <3>1. issued' = issued /\ (pending' = None \/ UNCHANGED <<pending, cell>>)
      BY <2>4 DEF DisconnectGeneration, Detach, CompletePending
    <3>2. \A d \in Clients : InExchange(d)' => InExchange(d) /\ myCmd'[d] = myCmd[d]
      BY <1>2, <2>4 DEF DisconnectGeneration
    <3> QED BY <2>1, <3>1, <3>2
  <2>5. CASE CloseSocket(c) BY <1>2, <2>1, <2>5 DEF CloseSocket
  <2>6. CASE NotifyLost(c) BY <1>2, <2>1, <2>6 DEF NotifyLost
  <2>7. CASE InstallConnection(c) BY <1>2, <2>1, <2>7 DEF InstallConnection
  <2>8. CASE BeginArmCommand(c)
    <3>1. /\ issued' = issued + 1 /\ pending' = issued + 1
          /\ cell'[issued + 1] = "waiting"
          /\ myCmd'[c] = issued + 1
      BY <1>2, <2>8, BoundsAssumption DEF BeginArmCommand, Cmds
    <3>2. \A d \in Clients : ~InExchange(d)
      BY <2>8, NoClientAssumption DEF BeginArmCommand, LockInv
    <3>3. \A d \in Clients : InExchange(d)' => d = c
      BY <1>2, <2>8, <3>2 DEF BeginArmCommand
    <3> HIDE DEF InExchange
    <3> QED BY <1>2, <3>1, <3>3 DEF PendingInv
  <2>9. CASE SendAll(c) BY <1>2, <2>1, <2>9 DEF SendAll
  <2>10. CASE SendAllFails(c) BY <1>2, <2>1, <2>10 DEF SendAllFails
  <2>11. CASE WaitReturns(c) BY <1>2, <2>1, <2>11 DEF WaitReturns
  <2>12. CASE WaitTimesOut(c) BY <1>2, <2>1, <2>12 DEF WaitTimesOut
  <2>13. CASE ClaimTimeout(c) BY <1>2, <2>1, <2>13 DEF ClaimTimeout
  <2>14. CASE Leave(c) BY <1>2, <2>1, <2>14 DEF Leave
  <2> QED
    BY <1>4, <2>2, <2>3, <2>4, <2>5, <2>6, <2>7, <2>8, <2>9, <2>10, <2>11,
       <2>12, <2>13, <2>14 DEF ClientStep, ClientRequest
<1>5. ASSUME NEW g \in Gens, ReceiverStep(g) \/ Device(g) PROVE PendingInv'
  <2>1. UNCHANGED <<pc, ret, myCmd>> BY <1>5, WireLeavesThreads DEF threadVars
  <2>2. \A c \in Clients : InExchange(c)' => InExchange(c)
    BY <2>1 DEF InExchange, Failing
  <2> QED BY <1>5, <2>1, <2>2, WireKeepsPending, PendingFrame
<1> QED BY <1>3, <1>4, <1>5 DEF Next

\* Only a new command, or a waiting one, changes its state.
LEMMA CellStep ==
  ASSUME TypeOK, PendingInv, [Next]_vars, NEW k \in Cmds, cell'[k] # cell[k]
  PROVE  \/ k = issued + 1 /\ issued' = issued + 1
         \/ k <= issued /\ cell[k] = "waiting"
<1> USE DEF clientVars, Cmds
<1>1. cell \in [Cmds -> CellStates] /\ issued \in 0..MaxCommands
      /\ pending \in 0..MaxCommands
      /\ myCmd \in [Clients -> 0..MaxCommands]
  BY DEF TypeOK, ObjectTypes, ThreadTypes
<1>2. ASSUME NEW outcome, NEW line, CompletePending(outcome, line)
      PROVE  k = pending /\ pending # None
  BY <1>1, <1>2 DEF CompletePending
<1>3. k = pending /\ pending # None => k <= issued /\ cell[k] = "waiting"
  BY DEF PendingInv
<1>4. CASE UNCHANGED vars BY <1>4 DEF vars
<1>5. ASSUME NEW c \in Clients, ClientStep(c) \/ ClientRequest(c)
      PROVE  \/ k = issued + 1 /\ issued' = issued + 1
             \/ k <= issued /\ cell[k] = "waiting"
  <2>1. CASE BeginArmCommand(c) BY <1>1, <2>1 DEF BeginArmCommand
  <2>2. CASE ClaimTimeout(c)
    <3>1. MayClaim(c) /\ k = myCmd[c] BY <1>1, <2>2 DEF ClaimTimeout
    <3>2. InExchange(c) BY <2>2 DEF ClaimTimeout, InExchange
    <3> QED BY <1>1, <3>1, <3>2 DEF MayClaim, PendingInv
  <2>3. CASE DisconnectGeneration(c)
    BY <1>2, <1>3, <2>3 DEF DisconnectGeneration, Detach
  <2>4. CASE ~(BeginArmCommand(c) \/ ClaimTimeout(c) \/ DisconnectGeneration(c))
    BY <1>5, <2>4 DEF ClientStep, ClientRequest, CreateConnection,
       DisconnectCurrent, CloseSocket, NotifyLost, InstallConnection, SendAll,
       SendAllFails, WaitReturns, WaitTimesOut, Leave
  <2> QED BY <2>1, <2>2, <2>3, <2>4
<1>6. ASSUME NEW g \in Gens, ReceiverStep(g) \/ Device(g)
      PROVE  k <= issued /\ cell[k] = "waiting"
  <2>1. CASE RouteReceivedLine(g)
    BY <1>2, <1>3, <2>1 DEF RouteReceivedLine
  <2>2. CASE ReceiverConnectionLost(g)
    BY <1>2, <1>3, <2>2 DEF ReceiverConnectionLost, Detach
  <2>3. CASE ~(RouteReceivedLine(g) \/ ReceiverConnectionLost(g))
    BY <1>6, <2>3 DEF ReceiverStep, Device, CheckStop, RecvChunk, RecvTimesOut,
       RecvFails, RecvEof, EmitLost, ReceiverCloses, EspReply, EspTelemetry,
       EspCloses
  <2> QED BY <2>1, <2>2, <2>3
<1> QED BY <1>4, <1>5, <1>6 DEF Next

\* An exchange is entered by accepting a command only, and a thread is about
\* to send only what it just accepted.
LEMMA ExchangeContinues ==
  ASSUME TypeOK, LockInv, [Next]_vars, ~ \E c \in Clients : BeginArmCommand(c),
         NEW d \in Clients, InExchange(d)'
  PROVE  /\ InExchange(d)
         /\ myCmd'[d] = myCmd[d] /\ myGen'[d] = myGen[d]
         /\ pc'[d] = "send" => pc[d] = "send"
<1>1. TypeOK' BY NextTypes
<1>2. /\ pc \in [Clients -> Labels] /\ pc' \in [Clients -> Labels]
      /\ ret \in [Clients -> {"return", "install", "raise"}]
      /\ ret' \in [Clients -> {"return", "install", "raise"}]
      /\ myCmd \in [Clients -> 0..MaxCommands]
      /\ myGen \in [Clients -> 0..MaxGen]
  BY <1>1 DEF TypeOK, ThreadTypes
<1>3. CASE UNCHANGED threadVars BY <1>3 DEF threadVars, InExchange, Failing
<1>4. ASSUME NEW c \in Clients, ClientStep(c) \/ ClientRequest(c)
      PROVE  /\ InExchange(d)
             /\ myCmd'[d] = myCmd[d] /\ myGen'[d] = myGen[d]
             /\ pc'[d] = "send" => pc[d] = "send"
  <2> USE DEF InExchange, Failing, Goto
  <2>1. CASE CreateConnection(c) BY <1>2, <2>1 DEF CreateConnection
  <2>2. CASE DisconnectCurrent(c)
    BY <1>2, <2>2 DEF DisconnectCurrent, LockInv
  <2>3. CASE DisconnectGeneration(c) BY <1>2, <2>3 DEF DisconnectGeneration
  <2>4. CASE CloseSocket(c) BY <1>2, <2>4 DEF CloseSocket
  <2>5. CASE NotifyLost(c) BY <1>2, <2>5 DEF NotifyLost
  <2>6. CASE InstallConnection(c) BY <1>2, <2>6 DEF InstallConnection
  <2>7. CASE SendAll(c) BY <1>2, <2>7 DEF SendAll
  <2>8. CASE SendAllFails(c) BY <1>2, <2>8 DEF SendAllFails
  <2>9. CASE WaitReturns(c) BY <1>2, <2>9 DEF WaitReturns
  <2>10. CASE WaitTimesOut(c) BY <1>2, <2>10 DEF WaitTimesOut
  <2>11. CASE ClaimTimeout(c) BY <1>2, <2>11 DEF ClaimTimeout
  <2>12. CASE Leave(c) BY <1>2, <2>12 DEF Leave
  <2> QED
    BY <1>4, <2>1, <2>2, <2>3, <2>4, <2>5, <2>6, <2>7, <2>8, <2>9, <2>10,
       <2>11, <2>12 DEF ClientStep, ClientRequest
<1> QED BY <1>3, <1>4, WireLeavesThreads DEF Next, vars

\* What Append does, by position.
LEMMA AppendAt ==
  ASSUME NEW S, NEW s \in Seq(S), NEW x \in S
  PROVE  /\ Len(Append(s, x)) = Len(s) + 1
         /\ Append(s, x)[Len(s) + 1] = x
         /\ \A i \in 1..Len(s) : Append(s, x)[i] = s[i]
OBVIOUS

\* An element of a sequence.
LEMMA ElementOf ==
  ASSUME NEW S, NEW s \in Seq(S), NEW i \in 1..Len(s)
  PROVE  s[i] \in S
OBVIOUS

\* At the start nothing was sent.
LEMMA WireInit == Init => SentInv /\ RepliesInv
BY DEF Init, SentInv, RepliesInv, InExchange, Failing

\* Only SendAll writes to a connection, and only the device answers on it.
LEMMA WireFrame ==
  ASSUME [Next]_vars,
         ~ \E c \in Clients : SendAll(c),
         ~ \E g \in Gens : EspReply(g) \/ EspTelemetry(g)
  PROVE  UNCHANGED <<sent, replies, handled>>
<1> USE DEF wireVars
<1>1. CASE UNCHANGED vars BY <1>1 DEF vars
<1>2. ASSUME NEW c \in Clients, ClientStep(c) \/ ClientRequest(c)
      PROVE  UNCHANGED <<sent, replies, handled>>
  BY <1>2 DEF ClientStep, ClientRequest, CreateConnection, DisconnectCurrent,
     DisconnectGeneration, CloseSocket, NotifyLost, InstallConnection,
     BeginArmCommand, SendAllFails, WaitReturns, WaitTimesOut, ClaimTimeout,
     Leave
<1>3. ASSUME NEW g \in Gens, ReceiverStep(g) \/ EspCloses(g)
      PROVE  UNCHANGED <<sent, replies, handled>>
  BY <1>3 DEF ReceiverStep, CheckStop, RecvChunk, RecvTimesOut, RecvFails,
     RecvEof, RouteReceivedLine, ReceiverConnectionLost, EmitLost,
     ReceiverCloses, EspCloses
<1> QED BY <1>1, <1>2, <1>3 DEF Next, Device

\* Only accepting a command issues one.
LEMMA IssuedFrame ==
  ASSUME [Next]_vars, ~ \E c \in Clients : BeginArmCommand(c)
  PROVE  issued' = issued
<1> USE DEF historyVars
<1>1. CASE UNCHANGED vars BY <1>1 DEF vars
<1>2. ASSUME NEW c \in Clients, ClientStep(c) \/ ClientRequest(c)
      PROVE  issued' = issued
  BY <1>2 DEF ClientStep, ClientRequest, CreateConnection, DisconnectCurrent,
     DisconnectGeneration, CloseSocket, NotifyLost, InstallConnection,
     SendAll, SendAllFails, WaitReturns, WaitTimesOut, ClaimTimeout, Leave
<1> QED BY <1>1, <1>2, WireKeepsPending DEF Next

\* A command that was not accepted yet has no state.
LEMMA NewStep ==
  TypeOK /\ PendingInv /\ NewInv /\ [Next]_vars => NewInv'
<1> SUFFICES ASSUME TypeOK, PendingInv, NewInv, [Next]_vars,
                    NEW k \in Cmds, k > issued'
             PROVE  cell'[k] = "new"
  BY DEF NewInv
<1>1. issued \in 0..MaxCommands /\ k \in Nat
  BY BoundsAssumption DEF TypeOK, ObjectTypes, Cmds
<1>2. issued' \in {issued, issued + 1}
  <2>1. CASE \E c \in Clients : BeginArmCommand(c) BY <2>1 DEF BeginArmCommand
  <2>2. CASE ~ \E c \in Clients : BeginArmCommand(c) BY <2>2, IssuedFrame
  <2> QED BY <2>1, <2>2
<1>3. k > issued BY <1>1, <1>2
<1>4. CASE cell'[k] # cell[k] BY <1>1, <1>3, <1>4, CellStep
<1>5. CASE cell'[k] = cell[k] BY <1>3, <1>5 DEF NewInv
<1> QED BY <1>4, <1>5

\* An answered command stays answered.
LEMMA AnswerStays ==
  ASSUME TypeOK, PendingInv, NewInv, [Next]_vars,
         NEW k \in Cmds, cell[k] = "answered"
  PROVE  cell'[k] = "answered"
<1>1. issued \in 0..MaxCommands /\ k \in Nat
  BY BoundsAssumption DEF TypeOK, ObjectTypes, Cmds
<1>2. k # issued + 1 BY <1>1 DEF NewInv
<1> QED BY <1>2, CellStep

\* A command is written to one connection once.
LEMMA SentStep ==
  TypeOK /\ LockInv /\ InstalledInv /\ PendingInv /\ SentInv /\ [Next]_vars
    => SentInv'
<1> SUFFICES ASSUME TypeOK, LockInv, InstalledInv, PendingInv, SentInv, [Next]_vars
             PROVE  SentInv'
  OBVIOUS
<1>1. /\ sent \in [Gens -> Seq(0..MaxCommands)]
      /\ pc \in [Clients -> Labels]
      /\ myGen \in [Clients -> 0..MaxGen]
      /\ myCmd \in [Clients -> 0..MaxCommands]
      /\ issued \in 0..MaxCommands
  BY DEF TypeOK, WireTypes, ThreadTypes, ObjectTypes
<1>2. CASE \E c \in Clients : BeginArmCommand(c)
  <2> PICK c \in Clients : BeginArmCommand(c) BY <1>2
  <2>1. UNCHANGED sent /\ issued' = issued + 1 BY DEF BeginArmCommand, wireVars
  <2>2. myCmd'[c] = issued + 1 BY <1>1 DEF BeginArmCommand
  <2>3. \A d \in Clients \ {c} : pc'[d] = pc[d]
    BY <1>1 DEF BeginArmCommand, Goto
  <2>4. \A d \in Clients \ {c} : ~InExchange(d)'
    BY <2>3, NoClientAssumption
       DEF BeginArmCommand, LockInv, InExchange, Failing
  <2>5. \A g \in Gens : \A i \in 1..Len(sent[g]) :
          sent[g][i] \in 1..issued
    BY DEF SentInv
  <2>6. \A g \in Gens : \A i \in 1..Len(sent[g]) : sent[g][i] # issued + 1
    BY <1>1, <2>5
  <2> HIDE DEF InExchange
  <2>7. \A g \in Gens : \A i \in 1..Len(sent'[g]) : sent'[g][i] \in 1..issued'
    BY <1>1, <2>1, <2>5
  <2>8. \A d \in Clients : \A g \in Gens : \A i \in 1..Len(sent'[g]) :
          ~(InExchange(d)' /\ sent'[g][i] = myCmd'[d])
    BY <2>1, <2>2, <2>4, <2>6
  <2>9. \A g \in Gens : \A i, j \in 1..Len(sent'[g]) :
          sent'[g][i] = sent'[g][j] => i = j
    BY <2>1 DEF SentInv
  <2> QED BY <2>7, <2>8, <2>9 DEF SentInv
<1>3. CASE \E c \in Clients : SendAll(c)
  <2> PICK c \in Clients : SendAll(c) BY <1>3
  <2> DEFINE G == myGen[c]
             m == myCmd[c]
  <2>1. pc[c] = "send" /\ InExchange(c) BY DEF SendAll, InExchange
  <2>2. G \in Gens /\ m \in 0..MaxCommands /\ m \in 1..issued
    BY <1>1, <2>1 DEF InstalledInv, PendingInv, Gens, None
  <2>3. /\ sent' = [sent EXCEPT ![G] = Append(sent[G], m)]
        /\ UNCHANGED <<issued, myCmd, myGen, ret>>
        /\ pc' = [pc EXCEPT ![c] = "wait"]
    BY DEF SendAll, historyVars, Goto
  <2>4. \A d \in Clients : InExchange(d)' => d = c
    <3>1. commandLock = c BY <2>1 DEF LockInv
    <3>2. \A d \in Clients \ {c} : InExchange(d)' => InExchange(d)
      BY <1>1, <2>3 DEF InExchange, Failing
    <3> QED BY <3>1, <3>2 DEF LockInv
  <2>5. \A g \in Gens : \A i \in 1..Len(sent[g]) : sent[g][i] # m
    BY <2>1 DEF SentInv
  <2>6. /\ \A g \in Gens \ {G} : sent'[g] = sent[g]
        /\ Len(sent'[G]) = Len(sent[G]) + 1
        /\ sent'[G][Len(sent[G]) + 1] = m
        /\ \A i \in 1..Len(sent[G]) : sent'[G][i] = sent[G][i]
    <3> HIDE DEF m, G
    <3> QED BY <1>1, <2>2, <2>3, AppendAt
  <2>7. \A g \in Gens : Len(sent[g]) \in Nat BY <1>1
  <2> HIDE DEF m, G, InExchange
  <2>8. \A g \in Gens : \A i \in 1..Len(sent'[g]) : sent'[g][i] \in 1..issued'
    <3> SUFFICES ASSUME NEW g \in Gens, NEW i \in 1..Len(sent'[g])
                 PROVE  sent'[g][i] \in 1..issued
      BY <2>3
    <3>1. CASE g # G BY <2>6, <3>1 DEF SentInv
    <3>2. CASE g = G /\ i \in 1..Len(sent[G]) BY <2>6, <3>2 DEF SentInv
    <3>3. CASE g = G /\ i = Len(sent[G]) + 1 BY <1>1, <2>2, <2>6, <3>3
    <3> QED BY <2>6, <2>7, <3>1, <3>2, <3>3
  <2>9. \A d \in Clients : \A g \in Gens : \A i \in 1..Len(sent'[g]) :
          InExchange(d)' /\ sent'[g][i] = myCmd'[d] => pc'[d] # "send" /\ g = myGen'[d]
    <3> SUFFICES ASSUME NEW g \in Gens, NEW i \in 1..Len(sent'[g]),
                        sent'[g][i] = m
                 PROVE  pc'[c] # "send" /\ g = G
      BY <2>3, <2>4 DEF m, G
    <3>1. pc'[c] # "send" BY <1>1, <2>3
    <3>2. g = G BY <2>5, <2>6
    <3> QED BY <3>1, <3>2
  <2>10. \A g \in Gens : \A i, j \in 1..Len(sent'[g]) :
           sent'[g][i] = sent'[g][j] => i = j
    <3> SUFFICES ASSUME NEW g \in Gens,
                        NEW i \in 1..Len(sent'[g]), NEW j \in 1..Len(sent'[g]),
                        sent'[g][i] = sent'[g][j]
                 PROVE  i = j
      OBVIOUS
    <3>1. CASE g # G BY <2>6, <3>1 DEF SentInv
    <3>2. CASE g = G
      <4>1. \A k \in 1..Len(sent'[G]) :
              k \in 1..Len(sent[G]) \/ k = Len(sent[G]) + 1
        BY <2>2, <2>6, <2>7
      <4>2. CASE i \in 1..Len(sent[G]) /\ j \in 1..Len(sent[G])
        <5>1. sent[G][i] = sent[G][j] BY <2>6, <3>2, <4>2
        <5> QED BY <2>2, <4>2, <5>1 DEF SentInv
      <4>3. CASE i \in 1..Len(sent[G]) /\ j = Len(sent[G]) + 1
        <5>1. sent[G][i] = m BY <2>6, <3>2, <4>3
        <5> QED BY <2>2, <2>5, <4>3, <5>1
      <4>4. CASE i = Len(sent[G]) + 1 /\ j \in 1..Len(sent[G])
        <5>1. sent[G][j] = m BY <2>6, <3>2, <4>4
        <5> QED BY <2>2, <2>5, <4>4, <5>1
      <4>5. CASE i = Len(sent[G]) + 1 /\ j = Len(sent[G]) + 1 BY <4>5
      <4> QED BY <3>2, <4>1, <4>2, <4>3, <4>4, <4>5
    <3> QED BY <3>1, <3>2
  <2> QED BY <2>8, <2>9, <2>10 DEF SentInv
<1>4. CASE ~ \E c \in Clients : BeginArmCommand(c) \/ SendAll(c)
  <2>1. UNCHANGED <<sent, issued>>
    <3>1. CASE UNCHANGED <<sent, replies, handled>> BY <1>4, <3>1, IssuedFrame
    <3>2. CASE \E g \in Gens : EspReply(g) \/ EspTelemetry(g)
      BY <3>2 DEF EspReply, EspTelemetry, historyVars
    <3> QED BY <1>4, <3>1, <3>2, WireFrame
  <2>2. \A d \in Clients : InExchange(d)' =>
          /\ InExchange(d)
          /\ myCmd'[d] = myCmd[d] /\ myGen'[d] = myGen[d]
          /\ pc'[d] = "send" => pc[d] = "send"
    BY <1>4, ExchangeContinues
  <2> HIDE DEF InExchange
  <2> QED BY <2>1, <2>2 DEF SentInv
<1> QED BY <1>2, <1>3, <1>4

\* The device answers a command once, and only after it was sent.
LEMMA RepliesStep ==
  TypeOK /\ InstalledInv /\ SentInv /\ RepliesInv /\ [Next]_vars => RepliesInv'
<1> SUFFICES ASSUME TypeOK, InstalledInv, SentInv, RepliesInv, [Next]_vars
             PROVE  RepliesInv'
  OBVIOUS
<1>1. /\ sent \in [Gens -> Seq(0..MaxCommands)]
      /\ replies \in [Gens -> Seq(0..MaxCommands)]
      /\ handled \in [Gens -> Nat]
      /\ \A g \in Gens : handled[g] <= Len(sent[g])
      /\ \A g \in Gens : Len(sent[g]) \in Nat /\ Len(replies[g]) \in Nat
  BY DEF TypeOK, WireTypes, CursorsInOrder
<1>2. CASE \E c \in Clients : SendAll(c)
  <2> PICK c \in Clients : SendAll(c) BY <1>2
  <2>1. UNCHANGED <<replies, handled>> BY DEF SendAll
  <2>2. myCmd[c] \in 0..MaxCommands BY DEF TypeOK, ThreadTypes
  <2>3. ASSUME NEW g \in Gens, NEW j \in 1..handled[g]
        PROVE  sent'[g][j] = sent[g][j]
    <3>1. CASE g = myGen[c]
      <4>1. sent'[g] = Append(sent[g], myCmd[c]) BY <1>1, <3>1 DEF SendAll
      <4>2. j \in 1..Len(sent[g]) BY <1>1
      <4>3. sent[g] \in Seq(0..MaxCommands) BY <1>1
      <4> QED BY <2>2, <4>1, <4>2, <4>3, AppendAt
    <3>2. CASE g # myGen[c] BY <1>1, <3>2 DEF SendAll
    <3> QED BY <3>1, <3>2
  <2> QED BY <2>1, <2>3 DEF RepliesInv
<1>3. CASE \E g \in Gens : EspReply(g)
  <2> PICK g \in Gens : EspReply(g) BY <1>3
  <2> DEFINE x == sent[g][handled[g] + 1]
  <2>1. UNCHANGED sent BY DEF EspReply
  <2>2. handled[g] + 1 \in 1..Len(sent[g]) BY <1>1 DEF EspReply
  <2>3. x \in 0..MaxCommands
    <3>1. sent[g] \in Seq(0..MaxCommands) BY <1>1
    <3> QED BY <2>2, <3>1, ElementOf
  <2>4. handled'[g] = handled[g] + 1 BY <1>1 DEF EspReply
  <2>5. replies'[g] = Append(replies[g], x) BY <1>1 DEF EspReply
  <2>6. \A h \in Gens \ {g} : handled'[h] = handled[h] /\ replies'[h] = replies[h]
    BY <1>1 DEF EspReply
  <2>7. \A i \in 1..Len(replies[g]) : replies[g][i] # Telemetry => replies[g][i] # x
    BY <1>1, <2>2 DEF SentInv, RepliesInv
  <2> HIDE DEF x
  <2>8. /\ Len(replies'[g]) = Len(replies[g]) + 1
        /\ replies'[g][Len(replies[g]) + 1] = x
        /\ \A i \in 1..Len(replies[g]) : replies'[g][i] = replies[g][i]
    <3>1. replies[g] \in Seq(0..MaxCommands) BY <1>1
    <3> QED BY <2>3, <2>5, <3>1, AppendAt
  <2>9. \A i \in 1..Len(replies'[g]) :
          i \in 1..Len(replies[g]) \/ i = Len(replies[g]) + 1
    BY <1>1, <2>8
  <2>10. ASSUME NEW h \in Gens, NEW i \in 1..Len(replies'[h]),
                replies'[h][i] # Telemetry
         PROVE  \E j \in 1..handled'[h] : sent'[h][j] = replies'[h][i]
    <3>1. CASE h # g BY <2>1, <2>6, <2>10, <3>1 DEF RepliesInv
    <3>2. CASE h = g /\ i \in 1..Len(replies[g])
      <4>1. PICK j \in 1..handled[g] : sent[g][j] = replies[g][i]
        BY <2>8, <2>10, <3>2 DEF RepliesInv
      <4>2. j \in 1..handled'[g] BY <1>1, <2>4
      <4> QED BY <2>1, <2>8, <3>2, <4>1, <4>2
    <3>3. CASE h = g /\ i = Len(replies[g]) + 1
      <4>1. handled[g] + 1 \in 1..handled'[g] BY <1>1, <2>4
      <4> QED BY <2>1, <2>8, <3>3, <4>1 DEF x
    <3> QED BY <2>9, <3>1, <3>2, <3>3
  <2>11. ASSUME NEW h \in Gens,
                NEW i \in 1..Len(replies'[h]), NEW j \in 1..Len(replies'[h]),
                replies'[h][i] # Telemetry, replies'[h][i] = replies'[h][j]
         PROVE  i = j
    <3>1. CASE h # g BY <2>6, <2>11, <3>1 DEF RepliesInv
    <3>2. CASE h = g /\ i \in 1..Len(replies[g]) /\ j \in 1..Len(replies[g])
      BY <2>8, <2>11, <3>2 DEF RepliesInv
    <3>3. CASE h = g /\ i \in 1..Len(replies[g]) /\ j = Len(replies[g]) + 1
      BY <2>7, <2>8, <2>11, <3>3
    <3>4. CASE h = g /\ i = Len(replies[g]) + 1 /\ j \in 1..Len(replies[g])
      BY <2>7, <2>8, <2>11, <3>4
    <3>5. CASE h = g /\ i = Len(replies[g]) + 1 /\ j = Len(replies[g]) + 1
      BY <3>5
    <3> QED BY <2>9, <3>1, <3>2, <3>3, <3>4, <3>5
  <2> QED BY <2>10, <2>11 DEF RepliesInv
<1>4. CASE \E g \in Gens : EspTelemetry(g)
  <2> PICK g \in Gens : EspTelemetry(g) BY <1>4
  <2>1. UNCHANGED <<sent, handled>> BY DEF EspTelemetry
  <2>2. replies'[g] = Append(replies[g], Telemetry) BY <1>1 DEF EspTelemetry
  <2>3. \A h \in Gens \ {g} : replies'[h] = replies[h]
    BY <1>1 DEF EspTelemetry
  <2>4. /\ Len(replies'[g]) = Len(replies[g]) + 1
        /\ replies'[g][Len(replies[g]) + 1] = Telemetry
        /\ \A i \in 1..Len(replies[g]) : replies'[g][i] = replies[g][i]
    <3>1. replies[g] \in Seq(0..MaxCommands) BY <1>1
    <3>2. Telemetry \in 0..MaxCommands BY BoundsAssumption DEF Telemetry
    <3> QED BY <2>2, <3>1, <3>2, AppendAt
  <2>5. \A i \in 1..Len(replies'[g]) :
          i \in 1..Len(replies[g]) \/ i = Len(replies[g]) + 1
    BY <1>1, <2>4
  <2>6. ASSUME NEW h \in Gens, NEW i \in 1..Len(replies'[h]),
               replies'[h][i] # Telemetry
        PROVE  i \in 1..Len(replies[h]) /\ replies'[h][i] = replies[h][i]
    BY <2>3, <2>4, <2>5, <2>6
  <2>7. ASSUME NEW h \in Gens, NEW i \in 1..Len(replies'[h]),
               replies'[h][i] # Telemetry
        PROVE  \E j \in 1..handled'[h] : sent'[h][j] = replies'[h][i]
    <3>1. i \in 1..Len(replies[h]) /\ replies'[h][i] = replies[h][i]
      BY <2>6, <2>7
    <3>2. PICK j \in 1..handled[h] : sent[h][j] = replies[h][i]
      BY <2>7, <3>1 DEF RepliesInv
    <3> QED BY <2>1, <3>1, <3>2
  <2>8. ASSUME NEW h \in Gens,
               NEW i \in 1..Len(replies'[h]), NEW j \in 1..Len(replies'[h]),
               replies'[h][i] # Telemetry, replies'[h][i] = replies'[h][j]
        PROVE  i = j
    <3>1. /\ i \in 1..Len(replies[h]) /\ replies'[h][i] = replies[h][i]
          /\ j \in 1..Len(replies[h]) /\ replies'[h][j] = replies[h][j]
      BY <2>6, <2>8
    <3> QED BY <2>8, <3>1 DEF RepliesInv
  <2> QED BY <2>7, <2>8 DEF RepliesInv
<1>5. CASE UNCHANGED <<sent, replies, handled>> BY <1>5 DEF RepliesInv
<1> QED BY <1>2, <1>3, <1>4, <1>5, WireFrame

\* At the start there is nothing to deliver.
LEMMA DeliveryInit == Init => DeliveryInv /\ HistoryInv
BY DEF Init, DeliveryInv, HistoryInv

\* What the proofs below use of the inductive invariant.
Base ==
  TypeOK /\ LockInv /\ InstalledInv /\ FreshInv /\ PendingInv /\ NewInv
  /\ SentInv /\ RepliesInv

\* An ACK that may still come is that of a command sent on the connection.
LEMMA OutstandingSent ==
  ASSUME TypeOK, RepliesInv, NEW g \in Gens, NEW x \in Outstanding(g)
  PROVE  \E i \in 1..Len(sent[g]) : sent[g][i] = x
<1>1. handled[g] \in Nat /\ Len(sent[g]) \in Nat /\ handled[g] <= Len(sent[g])
      /\ routed[g] \in Nat
  BY DEF TypeOK, WireTypes, CursorsInOrder
<1>2. CASE \E i \in handled[g] + 1 .. Len(sent[g]) : sent[g][i] = x
  BY <1>1, <1>2
<1>3. CASE \E i \in routed[g] + 1 .. Len(replies[g]) : replies[g][i] = x
  <2>1. PICK i \in routed[g] + 1 .. Len(replies[g]) : replies[g][i] = x BY <1>3
  <2>2. i \in 1..Len(replies[g]) BY <1>1
  <2>3. x # Telemetry BY DEF Outstanding, Cmds, Telemetry
  <2>4. PICK j \in 1..handled[g] : sent[g][j] = x BY <2>1, <2>2, <2>3 DEF RepliesInv
  <2> QED BY <1>1, <2>4
<1> QED BY <1>2, <1>3 DEF Outstanding

\* The only step that makes a connection owe an ACK is SendAll on it.
LEMMA OutstandingStep ==
  ASSUME TypeOK, InstalledInv, [Next]_vars, NEW g \in Gens, NEW x \in Cmds,
         x \in Outstanding(g)'
  PROVE  \/ x \in Outstanding(g)
         \/ \E c \in Clients : SendAll(c) /\ g = myGen[c] /\ x = myCmd[c]
<1>1. /\ sent \in [Gens -> Seq(0..MaxCommands)]
      /\ replies \in [Gens -> Seq(0..MaxCommands)]
      /\ handled \in [Gens -> Nat] /\ routed \in [Gens -> Nat]
      /\ \A h \in Gens : handled[h] <= Len(sent[h])
      /\ \A h \in Gens : routed[h] <= Len(replies[h])
      /\ \A h \in Gens : Len(sent[h]) \in Nat /\ Len(replies[h]) \in Nat
  <2>1. /\ sent \in [Gens -> Seq(0..MaxCommands)]
        /\ replies \in [Gens -> Seq(0..MaxCommands)]
        /\ handled \in [Gens -> Nat] /\ routed \in [Gens -> Nat]
    BY DEF TypeOK, WireTypes
  <2>2. \A h \in Gens : Len(sent[h]) \in Nat /\ Len(replies[h]) \in Nat
    BY <2>1, LengthType
  <2>3. \A h \in Gens : /\ handled[h] <= Len(sent[h])
                       /\ routed[h] <= fetched[h] /\ fetched[h] <= Len(replies[h])
    BY DEF TypeOK, CursorsInOrder
  <2>4. \A h \in Gens : routed[h] \in Nat /\ fetched[h] \in Nat
    BY DEF TypeOK, WireTypes
  <2>5. \A h \in Gens : routed[h] <= Len(replies[h])
    BY <2>2, <2>3, <2>4
  <2> QED BY <2>1, <2>2, <2>3, <2>5
<1>2. \/ \E i \in handled'[g] + 1 .. Len(sent'[g]) : sent'[g][i] = x
      \/ \E i \in routed'[g] + 1 .. Len(replies'[g]) : replies'[g][i] = x
  BY DEF Outstanding
<1>3. CASE UNCHANGED <<sent, replies, handled, routed>>
  BY <1>3 DEF Outstanding
<1>4. ASSUME NEW h \in Gens, RouteReceivedLine(h) PROVE x \in Outstanding(g)
  <2>1. UNCHANGED <<sent, replies, handled>>
    BY <1>4 DEF RouteReceivedLine, wireVars
  <2>2. routed'[g] \in Nat /\ routed'[g] >= routed[g]
    BY <1>1, <1>4 DEF RouteReceivedLine
  <2>3. \A i \in routed'[g] + 1 .. Len(replies[g]) :
          i \in routed[g] + 1 .. Len(replies[g])
    BY <1>1, <2>2
  <2> QED BY <1>2, <2>1, <2>3 DEF Outstanding
<1>5. ASSUME NEW h \in Gens, EspReply(h) PROVE x \in Outstanding(g)
  <2>1. UNCHANGED <<sent, routed>> BY <1>5 DEF EspReply, receiverVars
  <2>2. CASE h # g
    <3>1. UNCHANGED <<handled[g], replies[g]>> BY <1>1, <1>5, <2>2 DEF EspReply
    <3> QED BY <1>2, <2>1, <3>1 DEF Outstanding
  <2>3. CASE h = g
    <3> DEFINE y == sent[g][handled[g] + 1]
    <3>1. /\ handled'[g] = handled[g] + 1 /\ replies'[g] = Append(replies[g], y)
          /\ handled[g] + 1 \in handled[g] + 1 .. Len(sent[g])
      BY <1>1, <1>5, <2>3 DEF EspReply
    <3>2. y \in 0..MaxCommands
      <4>1. sent[g] \in Seq(0..MaxCommands) BY <1>1
      <4>2. handled[g] + 1 \in 1..Len(sent[g]) BY <1>1, <3>1
      <4> QED BY <4>1, <4>2, ElementOf
    <3>3. x = y => x \in Outstanding(g) BY <3>1 DEF Outstanding
    <3> HIDE DEF y
    <3>4. /\ Len(replies'[g]) = Len(replies[g]) + 1
          /\ replies'[g][Len(replies[g]) + 1] = y
          /\ \A i \in 1..Len(replies[g]) : replies'[g][i] = replies[g][i]
      <4>1. replies[g] \in Seq(0..MaxCommands) BY <1>1
      <4> QED BY <3>1, <3>2, <4>1, AppendAt
    <3>5. CASE \E i \in handled'[g] + 1 .. Len(sent'[g]) : sent'[g][i] = x
      <4>1. PICK i \in handled'[g] + 1 .. Len(sent'[g]) : sent'[g][i] = x BY <3>5
      <4>2. i \in handled[g] + 1 .. Len(sent[g]) BY <1>1, <2>1, <3>1
      <4> QED BY <2>1, <4>1, <4>2 DEF Outstanding
    <3>6. CASE \E i \in routed'[g] + 1 .. Len(replies'[g]) : replies'[g][i] = x
      <4>1. PICK i \in routed'[g] + 1 .. Len(replies'[g]) : replies'[g][i] = x
        BY <3>6
      <4>2. CASE i = Len(replies[g]) + 1 BY <3>3, <3>4, <4>1, <4>2
      <4>3. CASE i # Len(replies[g]) + 1
        <5>1. i \in routed[g] + 1 .. Len(replies[g]) /\ i \in 1..Len(replies[g])
          BY <1>1, <2>1, <3>4, <4>3
        <5> QED BY <3>4, <4>1, <5>1 DEF Outstanding
      <4> QED BY <4>2, <4>3
    <3> QED BY <1>2, <3>5, <3>6
  <2> QED BY <2>2, <2>3
<1>6. ASSUME NEW h \in Gens, EspTelemetry(h) PROVE x \in Outstanding(g)
  <2>1. UNCHANGED <<sent, handled, routed>>
    BY <1>6 DEF EspTelemetry, receiverVars
  <2>2. CASE h # g
    <3>1. UNCHANGED replies[g] BY <1>1, <1>6, <2>2 DEF EspTelemetry
    <3> QED BY <1>2, <2>1, <3>1 DEF Outstanding
  <2>3. CASE h = g
    <3>1. replies'[g] = Append(replies[g], Telemetry)
      BY <1>1, <1>6, <2>3 DEF EspTelemetry
    <3>2. /\ Len(replies'[g]) = Len(replies[g]) + 1
          /\ replies'[g][Len(replies[g]) + 1] = Telemetry
          /\ \A i \in 1..Len(replies[g]) : replies'[g][i] = replies[g][i]
      <4>1. replies[g] \in Seq(0..MaxCommands) BY <1>1
      <4>2. Telemetry \in 0..MaxCommands BY BoundsAssumption DEF Telemetry
      <4> QED BY <3>1, <4>1, <4>2, AppendAt
    <3>3. x # Telemetry BY DEF Cmds, Telemetry
    <3>4. /\ Len(replies[g]) \in Nat /\ routed[g] \in Nat
          /\ routed'[g] = routed[g]
      BY <1>1, <2>1
    <3>5. \A i \in routed'[g] + 1 .. Len(replies'[g]) : replies'[g][i] = x =>
            i \in routed[g] + 1 .. Len(replies[g]) /\ replies[g][i] = x
      <4> TAKE i \in routed'[g] + 1 .. Len(replies'[g])
      <4> HAVE replies'[g][i] = x
      <4>1. i # Len(replies[g]) + 1 BY <3>2, <3>3
      <4>2. i \in routed[g] + 1 .. Len(replies[g]) BY <3>2, <3>4, <4>1
      <4>3. i \in 1..Len(replies[g]) BY <3>4, <4>2
      <4> QED BY <3>2, <4>2, <4>3
    <3> QED BY <1>2, <2>1, <3>5 DEF Outstanding
  <2> QED BY <2>2, <2>3
<1>7. ASSUME NEW c \in Clients, SendAll(c)
      PROVE  x \in Outstanding(g) \/ (g = myGen[c] /\ x = myCmd[c])
  <2>1. UNCHANGED <<replies, handled, routed>>
    BY <1>7 DEF SendAll, receiverVars
  <2>2. CASE g # myGen[c]
    <3>1. UNCHANGED sent[g] BY <1>1, <1>7, <2>2 DEF SendAll
    <3> QED BY <1>2, <2>1, <3>1 DEF Outstanding
  <2>3. CASE g = myGen[c]
    <3>1. sent'[g] = Append(sent[g], myCmd[c]) BY <1>1, <1>7, <2>3 DEF SendAll
    <3>2. /\ Len(sent'[g]) = Len(sent[g]) + 1
          /\ sent'[g][Len(sent[g]) + 1] = myCmd[c]
          /\ \A i \in 1..Len(sent[g]) : sent'[g][i] = sent[g][i]
      <4>1. sent[g] \in Seq(0..MaxCommands) BY <1>1
      <4>2. myCmd[c] \in 0..MaxCommands BY DEF TypeOK, ThreadTypes
      <4> QED BY <3>1, <4>1, <4>2, AppendAt
    <3>3. \A i \in handled'[g] + 1 .. Len(sent'[g]) : sent'[g][i] = x =>
            \/ x = myCmd[c]
            \/ i \in handled[g] + 1 .. Len(sent[g]) /\ sent[g][i] = x
      BY <1>1, <2>1, <3>2
    <3> QED BY <1>2, <2>1, <2>3, <3>3 DEF Outstanding
  <2> QED BY <2>2, <2>3
<1>8. CASE /\ UNCHANGED <<sent, replies, handled>>
           /\ ~ \E h \in Gens : RouteReceivedLine(h)
  <2>1. UNCHANGED routed
    <3>1. CASE UNCHANGED vars BY <3>1 DEF vars, receiverVars
    <3>2. ASSUME NEW c \in Clients, ClientStep(c) \/ ClientRequest(c)
          PROVE  UNCHANGED routed
      BY <3>2 DEF receiverVars, ClientStep, ClientRequest, CreateConnection,
         DisconnectCurrent, DisconnectGeneration, CloseSocket, NotifyLost,
         InstallConnection, BeginArmCommand, SendAll, SendAllFails,
         WaitReturns, WaitTimesOut, ClaimTimeout, Leave
    <3>3. ASSUME NEW h \in Gens, ReceiverStep(h) \/ Device(h)
          PROVE  UNCHANGED routed
      BY <1>8, <3>3 DEF receiverVars, ReceiverStep, Device, CheckStop,
         RecvChunk, RecvTimesOut, RecvFails, RecvEof, ReceiverConnectionLost,
         EmitLost, ReceiverCloses, EspReply, EspTelemetry, EspCloses
    <3> QED BY <3>1, <3>2, <3>3 DEF Next
  <2> QED BY <1>3, <1>8, <2>1
<1> QED BY <1>4, <1>5, <1>6, <1>7, <1>8, WireFrame

\* The heart of it: an ACK line that completes a command is that command's.
LEMMA RouteExpected ==
  ASSUME Base, DeliveryInv, NEW g \in Gens, RouteReceivedLine(g),
         IsCurrent(g), pending # None, replies[g][routed[g] + 1] # Telemetry
  PROVE  /\ socket = g
         /\ replies[g][routed[g] + 1] = pending
         /\ pending \in Outstanding(g)
<1> DEFINE line == replies[g][routed[g] + 1]
<1>1. socket = g /\ socket # None BY DEF IsCurrent, Base, InstalledInv
<1>2. routed[g] + 1 \in routed[g] + 1 .. Len(replies[g])
      /\ routed[g] + 1 \in 1..Len(replies[g])
  BY DEF RouteReceivedLine, Base, TypeOK, WireTypes, CursorsInOrder
<1>3. line \in Cmds
  <2>1. replies[g] \in Seq(0..MaxCommands) BY DEF Base, TypeOK, WireTypes
  <2>2. line \in 0..MaxCommands BY <1>2, <2>1, ElementOf
  <2> QED BY <2>2, BoundsAssumption DEF Telemetry, Cmds
<1>4. line \in Outstanding(g) BY <1>2, <1>3 DEF Outstanding
<1> HIDE DEF line
<1>5. Expected(line) BY <1>1, <1>4 DEF DeliveryInv
<1>6. Resetting(socket, line) => line = pending
  BY DEF Resetting, Base, PendingInv, InExchange, Failing
<1> QED BY <1>1, <1>4, <1>5, <1>6 DEF Expected, line

\* Once routed, the ACK of a command cannot come again.
LEMMA RoutedOnce ==
  ASSUME Base, NEW g \in Gens, RouteReceivedLine(g),
         NEW x \in Cmds, x = replies[g][routed[g] + 1]
  PROVE  x \notin Outstanding(g)'
<1>1. /\ handled[g] \in Nat /\ routed[g] \in Nat
      /\ handled[g] <= Len(sent[g]) /\ Len(sent[g]) \in Nat
      /\ Len(replies[g]) \in Nat /\ routed[g] + 1 <= Len(replies[g])
  BY DEF RouteReceivedLine, Base, TypeOK, WireTypes, CursorsInOrder
<1>2. UNCHANGED <<sent, replies, handled>> BY DEF RouteReceivedLine, wireVars
<1>3. routed'[g] = routed[g] + 1
  BY DEF RouteReceivedLine, Base, TypeOK, WireTypes
<1>4. x # Telemetry BY DEF Cmds, Telemetry
<1>5. PICK j \in 1..handled[g] : sent[g][j] = x
  <2>1. routed[g] + 1 \in 1..Len(replies[g]) BY <1>1
  <2> QED BY <1>4, <2>1 DEF Base, RepliesInv
<1>6. ASSUME NEW i \in handled[g] + 1 .. Len(sent[g]) PROVE sent[g][i] # x
  <2>1. i \in 1..Len(sent[g]) /\ j \in 1..Len(sent[g]) /\ i # j BY <1>1
  <2> QED BY <1>5, <2>1 DEF Base, SentInv
<1>7. ASSUME NEW i \in routed'[g] + 1 .. Len(replies[g]) PROVE replies[g][i] # x
  <2>1. i \in 1..Len(replies[g]) /\ routed[g] + 1 \in 1..Len(replies[g])
        /\ i # routed[g] + 1
    BY <1>1, <1>3
  <2> QED BY <1>4, <2>1 DEF Base, RepliesInv
<1> QED BY <1>2, <1>6, <1>7 DEF Outstanding

\* A thread about to reset a connection stays so until it does.
LEMMA ResettingStays ==
  ASSUME Base, [Next]_vars, NEW x, Resetting(socket, x), socket # None,
         socket' = socket
  PROVE  Resetting(socket, x)'
<1> PICK c \in Clients : /\ pc[c] = "reset" /\ ret[c] = "raise"
                         /\ myGen[c] = socket /\ myCmd[c] = x
  BY DEF Resetting
<1>1. /\ pc \in [Clients -> Labels] /\ ret \in [Clients -> {"return", "install", "raise"}]
      /\ myGen \in [Clients -> 0..MaxGen] /\ myCmd \in [Clients -> 0..MaxCommands]
  BY DEF Base, TypeOK, ThreadTypes
<1>2. CASE UNCHANGED threadVars BY <1>2 DEF threadVars, Resetting
<1>3. ASSUME NEW d \in Clients, ClientStep(d) \/ ClientRequest(d), d # c
      PROVE  UNCHANGED <<pc[c], ret[c], myGen[c], myCmd[c]>>
  BY <1>1, <1>3 DEF ClientStep, ClientRequest, CreateConnection,
     DisconnectCurrent, DisconnectGeneration, CloseSocket, NotifyLost,
     InstallConnection, BeginArmCommand, SendAll, SendAllFails, WaitReturns,
     WaitTimesOut, ClaimTimeout, Leave, Goto
<1>4. ~ (ClientStep(c) \/ ClientRequest(c))
  <2>1. ~ DisconnectGeneration(c)
    BY DEF DisconnectGeneration, Detach, Base, InstalledInv
  <2> QED
    BY <2>1 DEF ClientStep, ClientRequest, CreateConnection, DisconnectCurrent,
       CloseSocket, NotifyLost, InstallConnection, BeginArmCommand, SendAll,
       SendAllFails, WaitReturns, WaitTimesOut, ClaimTimeout, Leave
<1>5. ASSUME NEW d \in Clients, ClientStep(d) \/ ClientRequest(d)
      PROVE  Resetting(socket, x)'
  <2>1. d # c BY <1>4, <1>5
  <2> QED BY <1>3, <1>5, <2>1 DEF Resetting
<1> QED BY <1>2, <1>5, WireLeavesThreads DEF Next, vars

\* A command whose ACK or sending concerns the installed connection stays
\* expected there, unless its own ACK completed it.
LEMMA ExpectedStays ==
  ASSUME Base, DeliveryInv, [Next]_vars, NEW x \in Cmds, Expected(x),
         socket # None, socket' = socket,
         \E i \in 1..Len(sent[socket]) : sent[socket][i] = x
  PROVE  \/ Expected(x)'
         \/ cell'[x] = "answered" /\ x \notin Outstanding(socket)'
<1>1. CASE Resetting(socket, x) BY <1>1, ResettingStays DEF Expected
<1>2. CASE x = pending
  <2>1. CASE pending' = pending BY <1>2, <2>1 DEF Expected
  <2>2. CASE pending' # pending
    <3>1. pending # None BY <1>2 DEF Cmds, None
    <3>2. socket \in Gens /\ cell \in [Cmds -> CellStates]
          /\ pc \in [Clients -> Labels]
          /\ ret \in [Clients -> {"return", "install", "raise"}]
          /\ myCmd \in [Clients -> 0..MaxCommands]
      <4>1. ObjectTypes /\ ThreadTypes BY DEF Base, TypeOK
      <4>2. socket \in Gens
        BY <4>1, BoundsAssumption DEF ObjectTypes, Gens, None
      <4> QED BY <4>1, <4>2 DEF ObjectTypes, ThreadTypes
    <3>3. ~UNCHANGED vars BY <2>2 DEF vars, clientVars
    <3>4. ASSUME NEW c \in Clients, ClientStep(c) \/ ClientRequest(c)
          PROVE  Expected(x)'
      <4>1. ClaimTimeout(c)
        <5>1. ~DisconnectGeneration(c)
          BY <2>2, <3>1 DEF DisconnectGeneration, Detach, clientVars
        <5>2. ~BeginArmCommand(c) BY <3>1 DEF BeginArmCommand
        <5> QED
          BY <2>2, <3>4, <5>1, <5>2 DEF ClientStep, ClientRequest, clientVars,
             CreateConnection, DisconnectCurrent, CloseSocket, NotifyLost,
             InstallConnection, SendAll, SendAllFails, WaitReturns,
             WaitTimesOut, Leave
      <4>2. MayClaim(c) /\ x = myCmd[c]
        BY <1>2, <2>2, <4>1 DEF ClaimTimeout, MayClaim
      <4>3. socket = myGen[c]
        BY <3>2, <4>1, <4>2 DEF ClaimTimeout, InExchange, Base, SentInv
      <4>4. pc'[c] = "reset" /\ ret'[c] = "raise" /\ UNCHANGED <<myGen, myCmd>>
        BY <3>2, <4>1, <4>2 DEF ClaimTimeout, Goto
      <4> QED BY <4>2, <4>3, <4>4 DEF Expected, Resetting
    <3>5. ASSUME NEW g \in Gens, ReceiverStep(g) \/ Device(g)
          PROVE  cell'[x] = "answered" /\ x \notin Outstanding(socket)'
      <4>1. ~ReceiverConnectionLost(g)
        BY <2>2 DEF ReceiverConnectionLost, Detach, clientVars
      <4>2. RouteReceivedLine(g)
        BY <2>2, <3>5, <4>1 DEF ReceiverStep, Device, CheckStop, RecvChunk,
           RecvTimesOut, RecvFails, RecvEof, EmitLost, ReceiverCloses,
           EspReply, EspTelemetry, EspCloses, clientVars
      <4>3. /\ IsCurrent(g) /\ replies[g][routed[g] + 1] # Telemetry
            /\ CompletePending("answered", replies[g][routed[g] + 1])
        BY <2>2, <4>2 DEF RouteReceivedLine
      <4>4. socket = g /\ replies[g][routed[g] + 1] = pending
        BY <3>1, <4>2, <4>3, RouteExpected
      <4>5. cell'[x] = "answered" BY <1>2, <3>1, <3>2, <4>3 DEF CompletePending
      <4> QED BY <1>2, <4>2, <4>4, <4>5, RoutedOnce
    <3> QED BY <3>3, <3>4, <3>5 DEF Next
  <2> QED BY <2>1, <2>2
<1> QED BY <1>1, <1>2 DEF Expected

\* Another connection is installed only by InstallConnection.
LEMMA SocketStep ==
  ASSUME [Next]_vars, socket' # socket, socket' # None
  PROVE  \E c \in Clients : InstallConnection(c) /\ socket' = cand[c]
<1>1. ~UNCHANGED vars BY DEF vars, clientVars
<1>2. ASSUME NEW g \in Gens, ReceiverStep(g) \/ Device(g) PROVE FALSE
  BY <1>2 DEF ReceiverStep, Device, CheckStop, RecvChunk, RecvTimesOut,
     RecvFails, RecvEof, RouteReceivedLine, ReceiverConnectionLost, EmitLost,
     ReceiverCloses, EspReply, EspTelemetry, EspCloses, Detach, clientVars
<1>3. ASSUME NEW c \in Clients, ClientStep(c) \/ ClientRequest(c)
      PROVE  InstallConnection(c) /\ socket' = cand[c]
  BY <1>3 DEF ClientStep, ClientRequest, CreateConnection, DisconnectCurrent,
     DisconnectGeneration, CloseSocket, NotifyLost, InstallConnection,
     BeginArmCommand, SendAll, SendAllFails, WaitReturns, WaitTimesOut,
     ClaimTimeout, Leave, Detach, clientVars
<1> QED BY <1>1, <1>2, <1>3 DEF Next

\* A connection that is being installed has carried nothing.
LEMMA InstalledFresh ==
  ASSUME Base, NEW c \in Clients, InstallConnection(c),
         NEW g \in Gens, g = cand[c]
  PROVE  /\ rpc[g] = "none" /\ sent[g] = <<>>
         /\ UNCHANGED <<wireVars, routed>>
<1>1. Connecting(c) BY DEF InstallConnection, Connecting
<1> QED BY <1>1 DEF Base, FreshInv, InstallConnection

\* The commands of a connection after a step: those it had, and the one that
\* SendAll appends.
LEMMA SentElement ==
  ASSUME TypeOK, [Next]_vars, NEW g \in Gens, NEW i \in 1..Len(sent'[g])
  PROVE  \/ i \in 1..Len(sent[g]) /\ sent'[g][i] = sent[g][i]
         \/ \E c \in Clients :
              /\ SendAll(c) /\ g = myGen[c] /\ sent'[g][i] = myCmd[c]
              /\ i = Len(sent[g]) + 1 /\ i = Len(sent'[g])
<1>1. sent \in [Gens -> Seq(0..MaxCommands)] /\ Len(sent[g]) \in Nat
      /\ sent[g] \in Seq(0..MaxCommands)
  BY DEF TypeOK, WireTypes
<1>2. CASE UNCHANGED sent BY <1>2
<1>3. ASSUME NEW c \in Clients, SendAll(c), g # myGen[c] PROVE sent'[g] = sent[g]
  BY <1>1, <1>3 DEF SendAll
<1>4. ASSUME NEW c \in Clients, SendAll(c), g = myGen[c]
      PROVE  \/ i \in 1..Len(sent[g]) /\ sent'[g][i] = sent[g][i]
             \/ /\ sent'[g][i] = myCmd[c]
                /\ i = Len(sent[g]) + 1 /\ i = Len(sent'[g])
  <2>1. sent'[g] = Append(sent[g], myCmd[c]) BY <1>1, <1>4 DEF SendAll
  <2>2. myCmd[c] \in 0..MaxCommands BY DEF TypeOK, ThreadTypes
  <2>3. /\ Len(sent'[g]) = Len(sent[g]) + 1
        /\ sent'[g][Len(sent[g]) + 1] = myCmd[c]
        /\ \A j \in 1..Len(sent[g]) : sent'[g][j] = sent[g][j]
    BY <1>1, <2>1, <2>2, AppendAt
  <2> QED BY <1>1, <2>3
<1>5. CASE ~ \E c \in Clients : SendAll(c)
  <2>1. CASE UNCHANGED vars BY <2>1 DEF vars, wireVars
  <2>2. ASSUME NEW h \in Gens, ReceiverStep(h) \/ Device(h) PROVE UNCHANGED sent
    BY <2>2, WireLeavesSent
  <2>3. ASSUME NEW c \in Clients, ClientStep(c) \/ ClientRequest(c)
        PROVE  UNCHANGED sent
    BY <1>5, <2>3 DEF ClientStep, ClientRequest, CreateConnection,
       DisconnectCurrent, DisconnectGeneration, CloseSocket, NotifyLost,
       InstallConnection, BeginArmCommand, SendAllFails, WaitReturns,
       WaitTimesOut, ClaimTimeout, Leave, wireVars
  <2> QED BY <1>2, <2>1, <2>2, <2>3 DEF Next
<1> QED BY <1>3, <1>4, <1>5

\* While its connection stays, a pending command is taken away by its timeout
\* or by a line of that connection.
LEMMA PendingTaken ==
  ASSUME [Next]_vars, socket' = socket, socket # None, pending # None,
         pending' # pending
  PROVE  \/ \E c \in Clients : ClaimTimeout(c) /\ MayClaim(c)
         \/ \E g \in Gens : /\ RouteReceivedLine(g) /\ IsCurrent(g)
                            /\ replies[g][routed[g] + 1] # Telemetry
<1>1. ~UNCHANGED vars BY DEF vars, clientVars
<1>2. ASSUME NEW g \in Gens, ReceiverStep(g) \/ Device(g)
      PROVE  /\ RouteReceivedLine(g) /\ IsCurrent(g)
             /\ replies[g][routed[g] + 1] # Telemetry
  <2>1. ~ReceiverConnectionLost(g)
    BY DEF ReceiverConnectionLost, Detach, clientVars
  <2>2. RouteReceivedLine(g)
    BY <1>2, <2>1 DEF ReceiverStep, Device, CheckStop, RecvChunk, RecvTimesOut,
       RecvFails, RecvEof, EmitLost, ReceiverCloses, EspReply, EspTelemetry,
       EspCloses, clientVars
  <2> QED BY <2>2 DEF RouteReceivedLine
<1>3. ASSUME NEW c \in Clients, ClientStep(c) \/ ClientRequest(c)
      PROVE  ClaimTimeout(c) /\ MayClaim(c)
  <2>1. ~DisconnectGeneration(c) BY DEF DisconnectGeneration, Detach, clientVars
  <2>2. ClaimTimeout(c)
    BY <1>3, <2>1 DEF ClientStep, ClientRequest, CreateConnection, clientVars,
       DisconnectCurrent, CloseSocket, NotifyLost, InstallConnection,
       BeginArmCommand, SendAll, SendAllFails, WaitReturns, WaitTimesOut, Leave
  <2> QED BY <2>2 DEF ClaimTimeout
<1> QED BY <1>1, <1>2, <1>3 DEF Next

\* A thread that is about to send its command has it pending, as long as its
\* connection is the installed one.
LEMMA SenderPending ==
  ASSUME Base, DeliveryInv, [Next]_vars, NEW c \in Clients,
         (pc[c] = "send")', (socket = myGen[c])'
  PROVE  (pending = myCmd[c])'
<1>1. pc \in [Clients -> Labels] /\ myCmd \in [Clients -> 0..MaxCommands]
  BY DEF Base, TypeOK, ThreadTypes
<1>2. ASSUME NEW d \in Clients, BeginArmCommand(d) PROVE (pending = myCmd[c])'
  <2>1. CASE d = c BY <1>1, <1>2, <2>1 DEF BeginArmCommand
  <2>2. CASE d # c
    <3>1. pc[c] = "send" BY <1>1, <1>2, <2>2 DEF BeginArmCommand, Goto
    <3>2. commandLock = c BY <3>1 DEF Base, LockInv, InExchange
    <3> QED BY <1>2, <3>2, NoClientAssumption DEF BeginArmCommand
  <2> QED BY <2>1, <2>2
<1>3. CASE ~ \E d \in Clients : BeginArmCommand(d)
  <2>1. /\ InExchange(c)' /\ TypeOK /\ LockInv BY DEF InExchange, Base
  <2>2. /\ InExchange(c) /\ pc[c] = "send"
        /\ myCmd'[c] = myCmd[c] /\ myGen'[c] = myGen[c]
    BY <1>3, <2>1, ExchangeContinues
  <2>3. /\ myGen[c] # None /\ rpc[myGen[c]] # "none" /\ myGen[c] \in Gens
        /\ myCmd[c] # None
    BY <2>2, BoundsAssumption DEF Base, InstalledInv, PendingInv, TypeOK,
       ThreadTypes, Gens, None
  <2>4. CASE socket' # socket
    <3>1. PICK d \in Clients : InstallConnection(d) /\ socket' = cand[d]
      BY <2>2, <2>3, <2>4, SocketStep
    <3> PICK g \in Gens : g = myGen[c] BY <2>3
    <3>2. rpc[g] = "none" BY <2>2, <3>1, InstalledFresh
    <3> QED BY <2>3, <3>2
  <2>5. CASE socket' = socket
    <3>1. socket = myGen[c] /\ pending = myCmd[c]
      BY <2>2, <2>5 DEF DeliveryInv
    <3>2. CASE pending' = pending BY <2>2, <3>1, <3>2
    <3>3. ASSUME NEW d \in Clients, ClaimTimeout(d) PROVE FALSE
      BY <2>2, <3>3 DEF ClaimTimeout, InExchange, Base, LockInv
    <3>4. ASSUME NEW g \in Gens, RouteReceivedLine(g), IsCurrent(g),
                 replies[g][routed[g] + 1] # Telemetry
          PROVE  FALSE
      <4>1. socket = g /\ pending \in Outstanding(g)
        BY <2>3, <3>1, <3>4, RouteExpected
      <4>2. PICK i \in 1..Len(sent[g]) : sent[g][i] = pending
        BY <4>1, OutstandingSent DEF Base
      <4> QED BY <2>2, <3>1, <4>2 DEF Base, SentInv
    <3> QED BY <2>3, <2>5, <3>1, <3>2, <3>3, <3>4, PendingTaken
  <2> QED BY <2>4, <2>5
<1> QED BY <1>2, <1>3

\* Every ACK the installed connection may still deliver is expected.
LEMMA DeliveryStep == Base /\ DeliveryInv /\ [Next]_vars => DeliveryInv'
<1> SUFFICES ASSUME Base, DeliveryInv, [Next]_vars PROVE DeliveryInv'
  OBVIOUS
<1>1. ASSUME (socket # None)', NEW x \in Cmds, (x \in Outstanding(socket))'
      PROVE  Expected(x)'
  <2>1. CASE socket' = socket
    <3> PICK g \in Gens : g = socket
      BY <1>1, <2>1, BoundsAssumption DEF Base, TypeOK, ObjectTypes, Gens, None
    <3>1. x \in Outstanding(g)' BY <1>1, <2>1
    <3>2. CASE x \in Outstanding(g)
      <4>1. Expected(x) BY <1>1, <2>1, <3>2 DEF DeliveryInv
      <4>2. \E i \in 1..Len(sent[g]) : sent[g][i] = x
        BY <3>2, OutstandingSent DEF Base
      <4> QED BY <1>1, <2>1, <4>1, <4>2, ExpectedStays
    <3>3. ASSUME NEW c \in Clients, SendAll(c), g = myGen[c], x = myCmd[c]
          PROVE  Expected(x)'
      BY <3>3 DEF SendAll, clientVars, DeliveryInv, Expected
    <3> QED BY <3>1, <3>2, <3>3, OutstandingStep DEF Base
  <2>2. CASE socket' # socket
    <3>1. PICK c \in Clients : InstallConnection(c) /\ socket' = cand[c]
      BY <1>1, <2>2, SocketStep
    <3>2. Connecting(c) BY <3>1 DEF InstallConnection, Connecting
    <3>3. cand[c] \in Gens
      BY <3>2, BoundsAssumption DEF Base, FreshInv, TypeOK, WireTypes, Gens
    <3> PICK g \in Gens : g = cand[c] BY <3>3
    <3>4. sent[g] = <<>> /\ UNCHANGED <<sent, handled, replies, routed>>
      BY <3>1, InstalledFresh DEF wireVars
    <3>5. x \in Outstanding(g) BY <1>1, <3>1, <3>4 DEF Outstanding
    <3>6. PICK i \in 1..Len(sent[g]) : sent[g][i] = x
      BY <3>5, OutstandingSent DEF Base
    <3> QED BY <3>4, <3>6
  <2> QED BY <2>1, <2>2
<1>2. \A c \in Clients :
        (pc[c] = "send" /\ socket = myGen[c] => pending = myCmd[c])'
  BY SenderPending
<1>3. \A x \in Outstanding(socket)' : x \in Cmds BY DEF Outstanding
<1> QED BY <1>1, <1>2, <1>3 DEF DeliveryInv

\* Every command on the installed connection but the pending one, or one whose
\* sender is about to take the connection down, was answered.
LEMMA HistoryStep ==
  Base /\ DeliveryInv /\ HistoryInv /\ [Next]_vars => HistoryInv'
<1> SUFFICES ASSUME Base, DeliveryInv, HistoryInv, [Next]_vars
             PROVE  HistoryInv'
  OBVIOUS
<1>1. /\ pc \in [Clients -> Labels] /\ myGen \in [Clients -> 0..MaxGen]
      /\ socket \in 0..MaxGen
  BY DEF Base, TypeOK, ThreadTypes, ObjectTypes
<1>2. \A g \in Gens : \A i \in 1..Len(sent[g]) :
        sent[g][i] \in Cmds /\ sent[g][i] \in 1..issued
  BY BoundsAssumption DEF Base, SentInv, TypeOK, ObjectTypes, Cmds
<1>3. ASSUME (socket # None)', NEW g \in Gens, g = socket',
             NEW i \in 1..Len(sent'[g])
      PROVE  cell'[sent'[g][i]] = "answered" \/ (Expected(sent[g][i]))'
  <2>1. CASE socket' = socket /\ i \in 1..Len(sent[g]) /\ sent'[g][i] = sent[g][i]
    <3>1. sent[g][i] \in Cmds BY <1>2, <2>1
    <3> PICK x \in Cmds : x = sent[g][i] BY <3>1
    <3>2. CASE cell[x] = "answered"
      <4>1. cell'[x] = "answered" BY <3>2, AnswerStays DEF Base
      <4> QED BY <2>1, <4>1
    <3>3. CASE Expected(x)
      <4>1. (Expected(x))' \/ cell'[x] = "answered"
        BY <1>3, <2>1, <3>3, ExpectedStays
      <4> QED BY <2>1, <4>1 DEF Expected
    <3> QED BY <1>3, <2>1, <3>2, <3>3 DEF HistoryInv
  <2>2. ASSUME socket' = socket, NEW c \in Clients, SendAll(c), g = myGen[c],
               sent'[g][i] = myCmd[c]
        PROVE  (Expected(sent[g][i]))'
    <3>1. pending = myCmd[c] BY <1>3, <2>2 DEF SendAll, DeliveryInv
    <3>2. pending' = pending BY <2>2 DEF SendAll, clientVars
    <3> QED BY <2>2, <3>1, <3>2 DEF Expected
  <2>3. CASE socket' # socket
    <3>1. PICK c \in Clients : InstallConnection(c) /\ socket' = cand[c]
      BY <1>3, <2>3, SocketStep
    <3>2. sent[g] = <<>> /\ sent' = sent
      BY <1>3, <3>1, InstalledFresh DEF wireVars
    <3> QED BY <3>2
  <2> QED BY <2>1, <2>2, <2>3, SentElement DEF Base
<1>4. ASSUME NEW c \in Clients, (pc[c] = "send")', NEW g \in Gens,
             g = myGen'[c], NEW i \in 1..Len(sent'[g])
      PROVE  cell'[sent'[g][i]] = "answered"
  <2>1. ASSUME NEW d \in Clients, BeginArmCommand(d)
        PROVE  cell'[sent'[g][i]] = "answered"
    <3>1. d = c
      <4>1. pc[c] # "send"
        BY <2>1, NoClientAssumption DEF BeginArmCommand, Base, LockInv, InExchange
      <4> QED BY <1>1, <1>4, <2>1, <4>1 DEF BeginArmCommand, Goto
    <3>2. sent' = sent BY <2>1 DEF BeginArmCommand, wireVars
    <3>3. g = socket
      BY <1>1, <1>4, <2>1, <3>1 DEF BeginArmCommand, Base, InstalledInv
    <3>4. sent[g][i] \in Cmds BY <1>2, <3>2
    <3> PICK x \in Cmds : x = sent[g][i] BY <3>4
    <3>5. ~Expected(x)
      <4>1. x # pending BY <2>1 DEF BeginArmCommand, Cmds, None
      <4>2. ~Resetting(socket, x)
        BY <2>1, NoClientAssumption DEF BeginArmCommand, Resetting, Base,
           LockInv, InExchange, Failing
      <4> QED BY <4>1, <4>2 DEF Expected
    <3>6. cell[x] = "answered"
      BY <2>1, <3>2, <3>3, <3>5 DEF HistoryInv, BeginArmCommand
    <3>7. cell'[x] = "answered" BY <3>6, AnswerStays DEF Base
    <3> QED BY <3>2, <3>7
  <2>2. CASE ~ \E d \in Clients : BeginArmCommand(d)
    <3>1. /\ InExchange(c)' /\ TypeOK /\ LockInv
      BY <1>4 DEF InExchange, Base
    <3>2. pc[c] = "send" /\ myGen'[c] = myGen[c]
      BY <1>4, <2>2, <3>1, ExchangeContinues
    <3>3. CASE i \in 1..Len(sent[g]) /\ sent'[g][i] = sent[g][i]
      <4>1. sent[g][i] \in Cmds BY <1>2, <3>3
      <4> PICK x \in Cmds : x = sent[g][i] BY <4>1
      <4>2. cell[x] = "answered" BY <1>4, <3>2, <3>3 DEF HistoryInv
      <4>3. cell'[x] = "answered" BY <4>2, AnswerStays DEF Base
      <4> QED BY <3>3, <4>3
    <3>4. ASSUME NEW d \in Clients, SendAll(d) PROVE FALSE
      <4>1. d = c BY <3>2, <3>4 DEF SendAll, Base, LockInv, InExchange
      <4> QED BY <1>1, <1>4, <3>4, <4>1 DEF SendAll, Goto
    <3> QED BY <3>3, <3>4, SentElement DEF Base
  <2> QED BY <2>1, <2>2
<1>5. /\ socket' \in 0..MaxGen
      /\ \A c \in Clients : InExchange(c)' => myGen'[c] \in Gens
  <2>1. TypeOK' BY NextTypes DEF Base
  <2>2. InstalledInv' BY InstalledStep DEF Base
  <2> QED BY <2>1, <2>2, BoundsAssumption DEF TypeOK, ObjectTypes, ThreadTypes,
     InstalledInv, Gens, None
<1>6. (socket # None => \A i \in 1..Len(sent[socket]) :
        cell[sent[socket][i]] = "answered" \/ Expected(sent[socket][i]))'
  <2> SUFFICES ASSUME (socket # None)', NEW i \in 1..Len(sent'[socket'])
               PROVE  \/ cell'[sent'[socket'][i]] = "answered"
                      \/ (Expected(sent[socket][i]))'
    OBVIOUS
  <2> PICK g \in Gens : g = socket' BY <1>5, BoundsAssumption DEF Gens, None
  <2> QED BY <1>3 DEF Expected
<1>7. \A c \in Clients : (pc[c] = "send" =>
        \A i \in 1..Len(sent[myGen[c]]) : cell[sent[myGen[c]][i]] = "answered")'
  BY <1>4, <1>5 DEF InExchange
<1> QED BY <1>6, <1>7 DEF HistoryInv

\* An ACK completes only the command it answers.
LEMMA AckSoundStep ==
  Base /\ DeliveryInv /\ AckSound /\ [Next]_vars => AckSound'
<1> SUFFICES ASSUME Base, DeliveryInv, AckSound, [Next]_vars,
                    NEW k \in Cmds, cell'[k] = "answered"
             PROVE  answer'[k] = k
  BY DEF AckSound
<1> USE DEF clientVars
<1>1. /\ cell \in [Cmds -> CellStates] /\ answer \in [Cmds -> 0..MaxCommands]
      /\ pending \in 0..MaxCommands /\ issued \in 0..MaxCommands
      /\ myCmd \in [Clients -> 0..MaxCommands]
      /\ pending # None => cell[pending] = "waiting"
  BY DEF Base, TypeOK, ObjectTypes, ThreadTypes, PendingInv
<1>2. CASE UNCHANGED <<cell, answer>> BY <1>2 DEF AckSound
<1>3. ASSUME CompletePending("lost", None) PROVE answer'[k] = k
  <2>1. CASE pending = None BY <1>2, <1>3, <2>1 DEF CompletePending
  <2>2. CASE pending # None
    <3>1. k # pending BY <1>1, <1>3, <2>2 DEF CompletePending
    <3> QED BY <1>1, <1>3, <2>2, <3>1 DEF CompletePending, AckSound
  <2> QED BY <2>1, <2>2
<1>4. ASSUME NEW c \in Clients, ClientStep(c) \/ ClientRequest(c)
      PROVE  answer'[k] = k
  <2>1. CASE DisconnectGeneration(c)
    BY <1>2, <1>3, <2>1 DEF DisconnectGeneration, Detach
  <2>2. CASE BeginArmCommand(c)
    BY <1>1, <2>2 DEF BeginArmCommand, AckSound
  <2>3. CASE ClaimTimeout(c)
    BY <1>1, <1>2, <2>3 DEF ClaimTimeout, AckSound
  <2>4. CASE CreateConnection(c) \/ DisconnectCurrent(c) \/ CloseSocket(c)
             \/ NotifyLost(c) \/ InstallConnection(c) \/ SendAll(c)
             \/ SendAllFails(c) \/ WaitReturns(c) \/ WaitTimesOut(c) \/ Leave(c)
    BY <1>2, <2>4 DEF CreateConnection, DisconnectCurrent, CloseSocket,
       NotifyLost, InstallConnection, SendAll, SendAllFails, WaitReturns,
       WaitTimesOut, Leave
  <2> QED BY <1>4, <2>1, <2>2, <2>3, <2>4 DEF ClientStep, ClientRequest
<1>5. ASSUME NEW g \in Gens, ReceiverStep(g) \/ Device(g) PROVE answer'[k] = k
  <2>1. CASE RouteReceivedLine(g)
    <3> DEFINE line == replies[g][routed[g] + 1]
    <3>1. CASE line # Telemetry /\ IsCurrent(g) /\ pending # None
      <4>1. CompletePending("answered", line)
        BY <2>1, <3>1 DEF RouteReceivedLine
      <4>2. line = pending BY <2>1, <3>1, RouteExpected
      <4>3. CASE k = pending
        BY <1>1, <3>1, <4>1, <4>2, <4>3 DEF CompletePending
      <4>4. CASE k # pending
        BY <1>1, <3>1, <4>1, <4>4 DEF CompletePending, AckSound
      <4> QED BY <4>3, <4>4
    <3>2. CASE ~(line # Telemetry /\ IsCurrent(g) /\ pending # None)
      BY <1>2, <2>1, <3>2 DEF RouteReceivedLine
    <3> QED BY <3>1, <3>2
  <2>2. CASE ReceiverConnectionLost(g)
    BY <1>2, <1>3, <2>2 DEF ReceiverConnectionLost, Detach
  <2>3. CASE ~RouteReceivedLine(g) /\ ~ReceiverConnectionLost(g)
    BY <1>2, <1>5, <2>3 DEF ReceiverStep, Device, CheckStop, RecvChunk,
       RecvTimesOut, RecvFails, RecvEof, EmitLost, ReceiverCloses, EspReply,
       EspTelemetry, EspCloses
  <2> QED BY <2>1, <2>2, <2>3
<1>6. CASE UNCHANGED vars BY <1>2, <1>6 DEF vars
<1> QED BY <1>4, <1>5, <1>6 DEF Next

\* A command goes only onto a connection whose commands were all answered.
LEMMA StopAndWaitStep ==
  Base /\ HistoryInv /\ StopAndWait /\ [Next]_vars => StopAndWait'
<1> SUFFICES ASSUME Base, HistoryInv, StopAndWait, [Next]_vars,
                    NEW g \in Gens, NEW i \in 1..Len(sent'[g]) - 1
             PROVE  cell'[sent'[g][i]] = "answered"
  BY DEF StopAndWait
<1>1. Len(sent[g]) \in Nat /\ Len(sent'[g]) \in Nat
  <2>1. TypeOK /\ TypeOK' BY NextTypes DEF Base
  <2>2. /\ sent \in [Gens -> Seq(0..MaxCommands)]
        /\ sent' \in [Gens -> Seq(0..MaxCommands)]
    BY <2>1 DEF TypeOK, WireTypes
  <2> QED BY <2>2, LengthType
<1>2. i \in 1..Len(sent'[g]) /\ i # Len(sent'[g]) BY <1>1
<1>3. i \in 1..Len(sent[g]) /\ sent'[g][i] = sent[g][i]
  BY <1>2, SentElement DEF Base
<1>4. sent[g][i] \in Cmds
  BY <1>3, BoundsAssumption DEF Base, SentInv, TypeOK, ObjectTypes, Cmds
<1> PICK x \in Cmds : x = sent[g][i] BY <1>4
<1>5. cell[x] = "answered"
  <2>1. CASE i \in 1..Len(sent[g]) - 1 BY <2>1 DEF StopAndWait
  <2>2. CASE i = Len(sent[g])
    <3>1. Len(sent'[g]) \in 1..Len(sent'[g])
          /\ Len(sent'[g]) \notin 1..Len(sent[g])
      BY <1>1, <1>2, <2>2
    <3>2. PICK c \in Clients : SendAll(c) /\ g = myGen[c]
      BY <3>1, SentElement DEF Base
    <3> QED BY <1>3, <3>2 DEF SendAll, HistoryInv
  <2> QED BY <1>1, <1>3, <2>1, <2>2
<1>6. cell'[x] = "answered" BY <1>5, AnswerStays DEF Base
<1> QED BY <1>3, <1>6

\* The inductive invariant holds at the start.
LEMMA InvInit == Init => IInv
<1> SUFFICES ASSUME Init PROVE IInv OBVIOUS
<1>1. TypeOK BY InitTypes
<1>2. NewInv BY DEF Init, NewInv
<1>3. AckSound /\ StopAndWait BY DEF Init, AckSound, StopAndWait
<1> QED
  BY <1>1, <1>2, <1>3, LockInit, InstalledInit, FreshInit, PendingInit,
     WireInit, DeliveryInit DEF IInv

\* Every step of the client, its receivers and the device keeps it.
LEMMA InvStep == IInv /\ [Next]_vars => IInv'
<1> SUFFICES ASSUME IInv, [Next]_vars PROVE IInv' OBVIOUS
<1>1. Base /\ DeliveryInv /\ HistoryInv /\ AckSound /\ StopAndWait
  BY DEF IInv, Base
<1>2. TypeOK' BY <1>1, NextTypes DEF Base
<1>3. LockInv' /\ InstalledInv' /\ FreshInv' /\ PendingInv' /\ NewInv'
  BY <1>1, LockStep, InstalledStep, FreshStep, PendingStep, NewStep DEF Base
<1>4. SentInv' /\ RepliesInv' BY <1>1, SentStep, RepliesStep DEF Base
<1>5. DeliveryInv' /\ HistoryInv' BY <1>1, DeliveryStep, HistoryStep
<1>6. AckSound' /\ StopAndWait' BY <1>1, AckSoundStep, StopAndWaitStep
<1> QED BY <1>2, <1>3, <1>4, <1>5, <1>6 DEF IInv

\* The inductive invariant holds in every reachable state.
THEOREM Invariance == Spec => []IInv
BY InvInit, InvStep, PTL DEF Spec

\* Whatever the number of sessions, connections and commands, and whatever the
\* interleaving of the senders, the receivers and the device, the result that
\* send_arm_command returns is the device's answer to that command.
THEOREM AckSoundHolds == Spec => []AckSound
<1>1. IInv => AckSound BY DEF IInv
<1> QED BY <1>1, Invariance, PTL

\* And a connection on which a command failed is never written again.
THEOREM StopAndWaitHolds == Spec => []StopAndWait
<1>1. IInv => StopAndWait BY DEF IInv
<1> QED BY <1>1, Invariance, PTL
=============================================================================
