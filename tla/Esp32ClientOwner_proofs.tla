---------------------- MODULE Esp32ClientOwner_proofs ----------------------
(***************************************************************************)
(* Proofs of the other safety properties of Esp32Client, on top of IInv:   *)
(* a command is completed once, a loss is reported once (LossInv), where   *)
(* only one session connects the client owns one socket and no command is  *)
(* stranded (OwnerInv), and the client implements ArmLink (LinkInv).       *)
(***************************************************************************)
EXTENDS Esp32Client_proofs

\* What a command was answered changes with its completion only.
LEMMA AnswerStep ==
  ASSUME TypeOK, [Next]_vars, NEW k \in Cmds, answer'[k] # answer[k]
  PROVE  k = pending /\ pending # None
<1> USE DEF clientVars, Cmds
<1>1. answer \in [Cmds -> 0..MaxCommands] /\ pending \in 0..MaxCommands
  BY DEF TypeOK, ObjectTypes
<1>2. ASSUME NEW outcome, NEW line, CompletePending(outcome, line)
      PROVE  k = pending /\ pending # None
  BY <1>1, <1>2 DEF CompletePending
<1>3. CASE UNCHANGED vars BY <1>3 DEF vars
<1>4. ASSUME NEW c \in Clients, ClientStep(c) \/ ClientRequest(c)
      PROVE  k = pending /\ pending # None
  <2>1. CASE DisconnectGeneration(c)
    BY <1>2, <2>1 DEF DisconnectGeneration, Detach
  <2>2. CASE ~DisconnectGeneration(c)
    BY <1>4, <2>2 DEF ClientStep, ClientRequest, CreateConnection,
       DisconnectCurrent, CloseSocket, NotifyLost, InstallConnection,
       BeginArmCommand, SendAll, SendAllFails, WaitReturns, WaitTimesOut,
       ClaimTimeout, Leave
  <2> QED BY <2>1, <2>2
<1>5. ASSUME NEW g \in Gens, ReceiverStep(g) \/ Device(g)
      PROVE  k = pending /\ pending # None
  <2>1. CASE RouteReceivedLine(g) BY <1>2, <2>1 DEF RouteReceivedLine
  <2>2. CASE ReceiverConnectionLost(g)
    BY <1>2, <2>2 DEF ReceiverConnectionLost, Detach
  <2>3. CASE ~(RouteReceivedLine(g) \/ ReceiverConnectionLost(g))
    BY <1>5, <2>3 DEF ReceiverStep, Device, CheckStop, RecvChunk, RecvTimesOut,
       RecvFails, RecvEof, EmitLost, ReceiverCloses, EspReply, EspTelemetry,
       EspCloses
  <2> QED BY <2>1, <2>2, <2>3
<1> QED BY <1>3, <1>4, <1>5 DEF Next

\* Whichever of its ACK, its timeout and the end of its connection comes first
\* completes a command, and the others change nothing.
THEOREM CompletedOnceHolds == Spec => CompletedOnce
<1>1. IInv /\ [Next]_vars =>
        [\A k \in Cmds : cell[k] \in {"answered", "lost", "timeout"}
           => cell'[k] = cell[k] /\ answer'[k] = answer[k]]_vars
  <2> SUFFICES ASSUME IInv, [Next]_vars, NEW k \in Cmds,
                      cell[k] \in {"answered", "lost", "timeout"}
               PROVE  cell'[k] = cell[k] /\ answer'[k] = answer[k]
    OBVIOUS
  <2>1. k # issued + 1
    BY DEF IInv, NewInv, TypeOK, ObjectTypes, Cmds
  <2>2. cell'[k] = cell[k] BY <2>1, CellStep DEF IInv
  <2>3. pending # None => cell[pending] = "waiting" BY DEF IInv, PendingInv
  <2>4. answer'[k] = answer[k] BY <2>3, AnswerStep DEF IInv
  <2> QED BY <2>2, <2>4
<1> QED BY <1>1, Invariance, PTL DEF Spec, CompletedOnce

-----------------------------------------------------------------------------
(* The loss of a connection is reported once. *)

\* At the start nothing was connected, and nothing reported.
LEMMA LossInit == Init => LossInv
BY DEF Init, LossInv, Reporting, LossReportedOnce, None

\* A step that ends no connection and reports none, and in which no thread
\* comes to report.
LEMMA LossFrame ==
  ASSUME LossInv, UNCHANGED <<ended, notices>>,
         socket' \in {socket, None} \/ ended[socket'] = "none",
         \A g \in Gens : rpc'[g] = "none" => rpc[g] = "none",
         \A g \in Gens : rpc'[g] = "emit" => rpc[g] = "emit",
         \A c \in Clients : \A g \in Gens : Reporting(c, g)' => Reporting(c, g)
  PROVE  LossInv'
BY DEF LossInv, LossReportedOnce

\* The locked section that takes down the installed connection: nobody had
\* reported its end, and the one who took it down may.
LEMMA LossDetach ==
  ASSUME TypeOK, LossInv, NEW cause \in {"user", "fault"}, Detach(cause), socket # None,
         UNCHANGED notices
  PROVE  /\ socket \in Gens /\ ended[socket] = "none" /\ notices[socket] = 0
         /\ rpc[socket] # "emit" /\ \A c \in Clients : ~Reporting(c, socket)
         /\ ended' = [ended EXCEPT ![socket] = cause] /\ socket' = None
<1>1. socket \in Gens /\ notices[socket] \in Nat
  BY BoundsAssumption DEF TypeOK, ObjectTypes, Gens, None
<1>2. ended[socket] = "none" BY DEF LossInv
<1> QED BY <1>1, <1>2 DEF LossInv, LossReportedOnce, Detach

LEMMA LossDisconnect ==
  ASSUME TypeOK, InstalledInv, LossInv, NEW c \in Clients, DisconnectGeneration(c)
  PROVE  LossInv'
<1>1. /\ pc \in [Clients -> Labels] /\ ret \in [Clients -> {"return", "install", "raise"}]
      /\ ended \in [Gens -> Causes] /\ notices \in [Gens -> Nat]
  BY DEF TypeOK, ThreadTypes, ObjectTypes
<1>2. UNCHANGED <<notices, rpc, ret, myGen>> /\ pc[c] = "reset"
  BY DEF DisconnectGeneration, receiverVars
<1>3. CASE myGen[c] = generation /\ socket # None
  <2> DEFINE cause == IF ret[c] = "raise" THEN "fault" ELSE "user"
  <2>1. Detach(cause) /\ pc' = [pc EXCEPT ![c] = "close"]
    BY <1>3 DEF DisconnectGeneration, Goto
  <2>2. /\ socket \in Gens /\ ended[socket] = "none" /\ notices[socket] = 0
        /\ rpc[socket] # "emit" /\ \A d \in Clients : ~Reporting(d, socket)
        /\ ended' = [ended EXCEPT ![socket] = cause] /\ socket' = None
    BY <1>2, <1>3, <2>1, LossDetach
  <2>3. myGen[c] = socket /\ rpc[socket] # "none"
    BY <1>3 DEF InstalledInv
  <2>4. \A g \in Gens : ended'[g] = IF g = socket THEN cause ELSE ended[g]
    BY <1>1, <2>2
  <2>5. \A d \in Clients : \A g \in Gens :
          Reporting(d, g)' <=>
            Reporting(d, g) \/ (d = c /\ g = socket /\ cause = "fault")
    BY <1>1, <1>2, <2>1, <2>3 DEF Reporting
  <2> HIDE DEF cause
  <2>6. cause = "user" \/ cause = "fault" BY DEF cause
  <2> QED BY <1>2, <2>2, <2>3, <2>4, <2>5, <2>6 DEF LossInv, LossReportedOnce
<1>4. CASE ~(myGen[c] = generation /\ socket # None)
  <2>1. ended' = ended /\ socket' = socket /\ pc' = [pc EXCEPT ![c] = ret[c]]
    BY <1>4 DEF DisconnectGeneration, Detach, Goto, clientVars
  <2>2. \A d \in Clients : \A g \in Gens : Reporting(d, g)' => Reporting(d, g)
    BY <1>1, <1>2, <2>1 DEF Reporting
  <2> QED BY <1>2, <2>1, <2>2, LossFrame
<1> QED BY <1>3, <1>4

LEMMA LossClient ==
  ASSUME TypeOK, LockInv, InstalledInv, FreshInv, LossInv, NEW c \in Clients,
         ClientStep(c) \/ ClientRequest(c)
  PROVE  LossInv'
<1> USE DEF Goto, clientVars, receiverVars, wireVars, historyVars
<1>1. /\ pc \in [Clients -> Labels] /\ ret \in [Clients -> {"return", "install", "raise"}]
      /\ myGen \in [Clients -> 0..MaxGen] /\ rpc \in [Gens -> ReceiverLabels]
      /\ ended \in [Gens -> Causes] /\ notices \in [Gens -> Nat]
  BY DEF TypeOK, ThreadTypes, ObjectTypes, WireTypes
<1> DEFINE Frame ==
      /\ UNCHANGED <<ended, notices, socket, rpc>>
      /\ \A d \in Clients : \A g \in Gens : Reporting(d, g)' => Reporting(d, g)
<1>2. Frame => LossInv' BY LossFrame
<1> USE DEF Reporting
<1>3. CASE CreateConnection(c) BY <1>1, <1>2, <1>3 DEF CreateConnection
<1>4. CASE DisconnectCurrent(c) BY <1>1, <1>2, <1>4 DEF DisconnectCurrent
<1>5. CASE DisconnectGeneration(c) BY <1>5, LossDisconnect
<1>6. CASE CloseSocket(c) BY <1>1, <1>2, <1>6 DEF CloseSocket
<1>7. CASE NotifyLost(c)
  <2>1. UNCHANGED <<ended, socket, rpc, ret, myGen>> /\ pc[c] = "notify"
        /\ pc' = [pc EXCEPT ![c] = "raise"]
        /\ notices' = [notices EXCEPT ![myGen[c]] = @ + 1]
    BY <1>7 DEF NotifyLost
  <2>2. \A d \in Clients : \A g \in Gens : Reporting(d, g)' <=> Reporting(d, g) /\ d # c
    BY <1>1, <2>1
  <2>3. myGen[c] \in Gens => Reporting(c, myGen[c]) BY <2>1
  <2> HIDE DEF Reporting
  <2>4. \A g \in Gens : notices'[g] = IF g = myGen[c] THEN notices[g] + 1 ELSE notices[g]
    BY <1>1, <2>1
  <2> QED BY <2>1, <2>2, <2>3, <2>4 DEF LossInv, LossReportedOnce
<1>8. CASE InstallConnection(c)
  <2>1. cand[c] \in Gens /\ rpc[cand[c]] = "none"
    BY <1>8, BoundsAssumption
       DEF InstallConnection, FreshInv, Connecting, TypeOK, WireTypes, Gens
  <2>2. ended[cand[c]] = "none" BY <2>1 DEF LossInv
  <2>3. UNCHANGED <<ended, notices, ret, myGen>> /\ socket' = cand[c]
        /\ rpc' = [rpc EXCEPT ![cand[c]] = "check"] /\ pc' = [pc EXCEPT ![c] = "return"]
    BY <1>8 DEF InstallConnection
  <2>4. \A d \in Clients : \A g \in Gens : Reporting(d, g)' => Reporting(d, g)
    BY <1>1, <2>3
  <2> HIDE DEF Reporting
  <2>5. \A g \in Gens : (rpc'[g] = "none" => rpc[g] = "none")
                        /\ (rpc'[g] = "emit" => rpc[g] = "emit")
    BY <1>1, <2>3
  <2> QED BY <2>2, <2>3, <2>4, <2>5, LossFrame
<1>9. CASE BeginArmCommand(c) BY <1>1, <1>2, <1>9 DEF BeginArmCommand
<1>10. CASE SendAll(c) BY <1>1, <1>2, <1>10 DEF SendAll
<1>11. CASE SendAllFails(c) BY <1>1, <1>2, <1>11 DEF SendAllFails
<1>12. CASE WaitReturns(c) BY <1>1, <1>2, <1>12 DEF WaitReturns
<1>13. CASE WaitTimesOut(c) BY <1>1, <1>2, <1>13 DEF WaitTimesOut
<1>14. CASE ClaimTimeout(c) BY <1>1, <1>2, <1>14 DEF ClaimTimeout
<1>15. CASE Leave(c) BY <1>1, <1>2, <1>15 DEF Leave
<1> QED
  BY <1>3, <1>4, <1>5, <1>6, <1>7, <1>8, <1>9, <1>10, <1>11, <1>12, <1>13, <1>14,
     <1>15 DEF ClientStep, ClientRequest

LEMMA LossReceiver ==
  ASSUME TypeOK, InstalledInv, LossInv, NEW g \in Gens, ReceiverStep(g) \/ Device(g)
  PROVE  LossInv'
<1> USE DEF RGoto, clientVars, wireVars, historyVars
<1>1. /\ rpc \in [Gens -> ReceiverLabels]
      /\ ended \in [Gens -> Causes] /\ notices \in [Gens -> Nat]
  BY DEF TypeOK, ObjectTypes, WireTypes
<1>2. UNCHANGED <<pc, ret, myGen>> BY WireLeavesThreads DEF threadVars
<1>3. \A d \in Clients : \A h \in Gens : Reporting(d, h)' <=> Reporting(d, h)
  BY <1>2 DEF Reporting
<1> DEFINE Frame ==
      /\ UNCHANGED <<ended, notices, socket>>
      /\ \A h \in Gens : (rpc'[h] = "none" => rpc[h] = "none")
                         /\ (rpc'[h] = "emit" => rpc[h] = "emit")
<1>4. Frame => LossInv' BY <1>3, LossFrame
<1>5. CASE Device(g)
  BY <1>4, <1>5 DEF Device, EspReply, EspTelemetry, EspCloses, receiverVars
<1>6. CASE CheckStop(g) BY <1>1, <1>4, <1>6 DEF CheckStop
<1>7. CASE RecvChunk(g) BY <1>1, <1>4, <1>7 DEF RecvChunk
<1>8. CASE RecvTimesOut(g) BY <1>1, <1>4, <1>8 DEF RecvTimesOut
<1>9. CASE RecvFails(g) BY <1>1, <1>4, <1>9 DEF RecvFails
<1>10. CASE RecvEof(g) BY <1>1, <1>4, <1>10 DEF RecvEof
<1>11. CASE RouteReceivedLine(g) BY <1>1, <1>4, <1>11 DEF RouteReceivedLine
<1>12. CASE ReceiverConnectionLost(g)
  <2>1. CASE StillInstalled(g)
    <3>1. /\ Detach("fault") /\ socket = g /\ UNCHANGED notices
          /\ rpc' = [rpc EXCEPT ![g] = "emit"] /\ rpc[g] = "lost"
      BY <1>12, <2>1 DEF ReceiverConnectionLost, StillInstalled
    <3>2. g # None BY BoundsAssumption DEF Gens, None
    <3>3. /\ ended[g] = "none" /\ notices[g] = 0
          /\ \A d \in Clients : ~Reporting(d, g)
          /\ ended' = [ended EXCEPT ![g] = "fault"] /\ socket' = None
      BY <3>1, <3>2, LossDetach
    <3>4. \A h \in Gens : ended'[h] = (IF h = g THEN "fault" ELSE ended[h])
                          /\ rpc'[h] = IF h = g THEN "emit" ELSE rpc[h]
      BY <1>1, <3>1, <3>3
    <3> QED BY <1>3, <3>1, <3>3, <3>4 DEF LossInv, LossReportedOnce
  <2>2. CASE ~StillInstalled(g)
    BY <1>1, <1>4, <1>12, <2>2 DEF ReceiverConnectionLost
  <2> QED BY <2>1, <2>2
<1>13. CASE EmitLost(g)
  <2>1. /\ UNCHANGED <<ended, socket>> /\ rpc[g] = "emit"
        /\ notices' = [notices EXCEPT ![g] = @ + 1]
        /\ rpc' = [rpc EXCEPT ![g] = "close"]
    BY <1>13 DEF EmitLost
  <2>2. \A h \in Gens : notices'[h] = (IF h = g THEN notices[h] + 1 ELSE notices[h])
                        /\ rpc'[h] = IF h = g THEN "close" ELSE rpc[h]
    BY <1>1, <2>1
  <2> QED BY <1>3, <2>1, <2>2 DEF LossInv, LossReportedOnce
<1>14. CASE ReceiverCloses(g) BY <1>1, <1>4, <1>14 DEF ReceiverCloses
<1> QED
  BY <1>5, <1>6, <1>7, <1>8, <1>9, <1>10, <1>11, <1>12, <1>13, <1>14 DEF ReceiverStep

\* Whoever takes a connection down after a failure, the receiver or a sender,
\* is alone in it, and reports it once; nobody reports one a user took down.
THEOREM LossReportedOnceHolds == Spec => []LossReportedOnce
<1>1. IInv /\ LossInv /\ [Next]_vars => LossInv'
  <2> SUFFICES ASSUME IInv, LossInv, [Next]_vars PROVE LossInv' OBVIOUS
  <2>1. TypeOK /\ LockInv /\ InstalledInv /\ FreshInv BY DEF IInv
  <2>2. CASE UNCHANGED vars
    BY <2>2, LossFrame DEF vars, clientVars, threadVars, receiverVars, historyVars, Reporting
  <2> QED BY <2>1, <2>2, LossClient, LossReceiver DEF Next
<1>2. LossInv => LossReportedOnce BY DEF LossInv
<1> QED BY <1>1, <1>2, LossInit, Invariance, PTL DEF Spec

-----------------------------------------------------------------------------
(* One connector: the client owns one socket, and no command is stranded.  *)

OneConnector == \A c, d \in Connectors : c = d

\* At the start there is no connection and no command.
LEMMA OwnerInit == Init => OwnerInv
BY DEF Init, OwnerInv, ConnectorInv, OwnedInv, OwnsOneSocket, Connecting, None

\* A thread is past its disconnect only if it had the newest generation to
\* disconnect: no other thread can have connected meanwhile.
LEMMA ConnectorClient ==
  ASSUME TypeOK, LockInv, InstalledInv, ConnectorInv, OneConnector,
         NEW c \in Clients, ClientStep(c) \/ ClientRequest(c)
  PROVE  ConnectorInv'
<1> USE DEF Goto, clientVars
<1>1. /\ pc \in [Clients -> Labels] /\ ret \in [Clients -> {"return", "install", "raise"}]
      /\ myGen \in [Clients -> 0..MaxGen]
  BY DEF TypeOK, ThreadTypes
<1> USE DEF ConnectorInv, Connecting
<1>2. CASE CreateConnection(c) BY <1>1, <1>2 DEF CreateConnection
<1>3. CASE DisconnectCurrent(c) BY <1>1, <1>3 DEF DisconnectCurrent, LockInv
<1>4. CASE DisconnectGeneration(c)
  <2>1. UNCHANGED <<generation, ret, myGen>> /\ socket' \in {socket, None} /\ pc[c] = "reset"
    BY <1>4 DEF DisconnectGeneration, Detach
  <2>2. pc' = [pc EXCEPT ![c] = ret[c]] \/ pc' = [pc EXCEPT ![c] = "close"]
    BY <1>4 DEF DisconnectGeneration
  <2>3. ret[c] = "install" => socket' = None
    BY <1>4 DEF DisconnectGeneration, Detach
  <2> QED BY <1>1, <2>1, <2>2, <2>3
<1>5. CASE CloseSocket(c) BY <1>1, <1>5 DEF CloseSocket
<1>6. CASE NotifyLost(c) BY <1>1, <1>6 DEF NotifyLost
<1>7. CASE InstallConnection(c)
  <2>1. \A d \in Clients : Connecting(d) => d = c
    BY <1>7 DEF InstallConnection, OneConnector
  <2>2. UNCHANGED <<ret, myGen>> /\ pc' = [pc EXCEPT ![c] = "return"]
    BY <1>7 DEF InstallConnection
  <2> QED BY <1>1, <2>1, <2>2
<1>8. CASE BeginArmCommand(c) BY <1>1, <1>8 DEF BeginArmCommand
<1>9. CASE SendAll(c) BY <1>1, <1>9 DEF SendAll
<1>10. CASE SendAllFails(c) BY <1>1, <1>10 DEF SendAllFails
<1>11. CASE WaitReturns(c) BY <1>1, <1>11 DEF WaitReturns
<1>12. CASE WaitTimesOut(c) BY <1>1, <1>12 DEF WaitTimesOut
<1>13. CASE ClaimTimeout(c) BY <1>1, <1>13 DEF ClaimTimeout
<1>14. CASE Leave(c) BY <1>1, <1>14 DEF Leave
<1> QED
  BY <1>2, <1>3, <1>4, <1>5, <1>6, <1>7, <1>8, <1>9, <1>10, <1>11, <1>12, <1>13, <1>14
     DEF ClientStep, ClientRequest

\* _pending is cleared and its command completed, in one critical section.
LEMMA OwnedCompleted ==
  ASSUME TypeOK, OwnedInv, NEW outcome \in {"answered", "lost"}, NEW line,
         CompletePending(outcome, line)
  PROVE  OwnedInv'
<1>1. cell \in [Cmds -> CellStates] BY DEF TypeOK, ObjectTypes
<1>2. pending' = None BY DEF CompletePending
<1>3. ASSUME NEW k \in Cmds, cell'[k] = "waiting" PROVE FALSE
  <2>1. CASE pending = None
    BY <1>3, <2>1 DEF CompletePending, OwnedInv, None, Cmds
  <2>2. CASE pending # None
    <3>1. cell' = [cell EXCEPT ![pending] = outcome]
      BY <2>2 DEF CompletePending
    <3>2. k # pending BY <1>1, <1>3, <3>1
    <3> QED BY <1>1, <1>3, <3>1, <3>2 DEF OwnedInv
  <2> QED BY <2>1, <2>2
<1> QED BY <1>2, <1>3 DEF OwnedInv

\* A step that leaves the pending command, its connection and its owner alone.
LEMMA OwnedFrame ==
  ASSUME OwnedInv, UNCHANGED <<pending, cell, socket, generation, commandLock>>,
         \A d \in Clients : commandLock = d /\ Owns(d) /\ myCmd[d] = pending =>
           Owns(d)' /\ myCmd'[d] = myCmd[d] /\ myGen'[d] = myGen[d]
  PROVE  OwnedInv'
BY DEF OwnedInv

\* The owner of the pending command leaves the exchange only after it, or
\* somebody else, has completed the command.
LEMMA OwnedClient ==
  ASSUME TypeOK, LockInv, InstalledInv, PendingInv, ConnectorInv, OwnedInv,
         NEW c \in Clients, ClientStep(c) \/ ClientRequest(c)
  PROVE  OwnedInv'
<1> USE DEF Goto, clientVars
<1>1. /\ pc \in [Clients -> Labels] /\ ret \in [Clients -> {"return", "install", "raise"}]
      /\ myGen \in [Clients -> 0..MaxGen] /\ myCmd \in [Clients -> 0..MaxCommands]
      /\ cell \in [Cmds -> CellStates] /\ issued \in 0..MaxCommands
      /\ pending \in 0..MaxCommands
  BY DEF TypeOK, ThreadTypes, ObjectTypes
<1>2. pending # None => pending \in Cmds /\ cell[pending] = "waiting"
  BY <1>1, BoundsAssumption DEF PendingInv, Cmds, None
<1> DEFINE Frame ==
      /\ UNCHANGED <<pending, cell, socket, generation, commandLock>>
      /\ \A d \in Clients : commandLock = d /\ Owns(d) /\ myCmd[d] = pending =>
           Owns(d)' /\ myCmd'[d] = myCmd[d] /\ myGen'[d] = myGen[d]
<1>3. Frame => OwnedInv' BY OwnedFrame
<1> USE DEF Owns
<1>4. CASE CreateConnection(c) BY <1>1, <1>3, <1>4 DEF CreateConnection
<1>5. CASE DisconnectCurrent(c) BY <1>1, <1>3, <1>5 DEF DisconnectCurrent
<1>6. CASE DisconnectGeneration(c)
  <2>1. CASE myGen[c] = generation
    BY <1>6, <2>1, OwnedCompleted DEF DisconnectGeneration, Detach
  <2>2. CASE myGen[c] # generation
    <3>1. UNCHANGED <<pending, cell, socket, generation, commandLock, ret, myCmd, myGen>>
          /\ pc' = [pc EXCEPT ![c] = ret[c]]
      BY <1>6, <2>2 DEF DisconnectGeneration
    <3>2. pending # None => \E d \in Clients : /\ commandLock = d /\ Owns(d) /\ d # c
                                               /\ myCmd[d] = pending /\ myGen[d] = generation
      BY <2>2 DEF OwnedInv
    <3>3. \A d \in Clients : d # c => (Owns(d)' <=> Owns(d))
      BY <1>1, <3>1
    <3> HIDE DEF Owns
    <3> QED BY <3>1, <3>2, <3>3 DEF OwnedInv
  <2> QED BY <2>1, <2>2
<1>7. CASE CloseSocket(c) BY <1>1, <1>3, <1>7 DEF CloseSocket
<1>8. CASE NotifyLost(c) BY <1>1, <1>3, <1>8 DEF NotifyLost
<1>9. CASE InstallConnection(c)
  <2>1. pending = None BY <1>9 DEF InstallConnection, ConnectorInv, OwnedInv
  <2> QED BY <1>9, <2>1 DEF InstallConnection, OwnedInv
<1>10. CASE BeginArmCommand(c)
  <2>1. /\ socket' = socket /\ socket # None /\ generation' = generation /\ pending = None
        /\ pending' = issued + 1 /\ cell' = [cell EXCEPT ![issued + 1] = "waiting"]
        /\ commandLock' = c /\ issued + 1 \in Cmds
    BY <1>1, <1>10, BoundsAssumption DEF BeginArmCommand, Cmds
  <2>2. myCmd'[c] = issued + 1 /\ myGen'[c] = generation /\ pc'[c] = "send"
    BY <1>1, <1>10 DEF BeginArmCommand
  <2>3. \A k \in Cmds : cell'[k] = "waiting" => k = issued + 1
    BY <1>1, <2>1 DEF OwnedInv, Cmds, None
  <2> QED BY <2>1, <2>2, <2>3 DEF OwnedInv
<1>11. CASE SendAll(c) BY <1>1, <1>3, <1>11 DEF SendAll
<1>12. CASE SendAllFails(c) BY <1>1, <1>3, <1>12 DEF SendAllFails
<1>13. CASE WaitReturns(c)
  <2>1. myCmd[c] # pending \/ pending = None
    BY <1>2, <1>13 DEF WaitReturns, EventSet
  <2>2. UNCHANGED <<pending, cell, socket, generation, commandLock, ret, myCmd, myGen>>
        /\ pc' = [pc EXCEPT ![c] = "return"]
    BY <1>13 DEF WaitReturns
  <2>3. \A d \in Clients : d # c => (Owns(d)' <=> Owns(d))
    BY <1>1, <2>2
  <2> HIDE DEF Owns
  <2> QED BY <2>1, <2>2, <2>3 DEF OwnedInv
<1>14. CASE WaitTimesOut(c) BY <1>1, <1>3, <1>14 DEF WaitTimesOut
<1>15. CASE ClaimTimeout(c)
  <2>1. CASE MayClaim(c)
    <3>1. pending' = None /\ cell' = [cell EXCEPT ![myCmd[c]] = "timeout"]
          /\ pending = myCmd[c]
      BY <1>15, <2>1 DEF ClaimTimeout, MayClaim
    <3>2. \A k \in Cmds : cell'[k] # "waiting"
      BY <1>1, <3>1 DEF OwnedInv
    <3> QED BY <3>1, <3>2 DEF OwnedInv
  <2>2. CASE ~MayClaim(c)
    <3>1. myCmd[c] # pending \/ pending = None
      BY <1>2, <2>2 DEF MayClaim
    <3>2. UNCHANGED <<pending, cell, socket, generation, commandLock, ret, myCmd, myGen>>
          /\ pc' = [pc EXCEPT ![c] = "return"]
      BY <1>15, <2>2 DEF ClaimTimeout
    <3>3. \A d \in Clients : d # c => (Owns(d)' <=> Owns(d))
      BY <1>1, <3>2
    <3> HIDE DEF Owns
    <3> QED BY <3>1, <3>2, <3>3 DEF OwnedInv
  <2> QED BY <2>1, <2>2
<1>16. CASE Leave(c)
  <2>1. UNCHANGED <<pending, cell, socket, generation>> /\ ~Owns(c)
        /\ commandLock' = (IF commandLock = c THEN NoClient ELSE commandLock)
    BY <1>16 DEF Leave
  <2>2. \A d \in Clients : d # c => /\ Owns(d)' <=> Owns(d)
                                    /\ myCmd'[d] = myCmd[d] /\ myGen'[d] = myGen[d]
    BY <1>1, <1>16 DEF Leave
  <2> HIDE DEF Owns
  <2> QED BY <2>1, <2>2 DEF OwnedInv
<1> QED
  BY <1>4, <1>5, <1>6, <1>7, <1>8, <1>9, <1>10, <1>11, <1>12, <1>13, <1>14, <1>15, <1>16
     DEF ClientStep, ClientRequest

\* Only a new connection starts to be read, and it is the installed one; what
\* is taken down is told to stop.
LEMMA OwnsClient ==
  ASSUME TypeOK, FreshInv, ConnectorInv, OwnsOneSocket,
         NEW c \in Clients, ClientStep(c) \/ ClientRequest(c)
  PROVE  OwnsOneSocket'
<1> USE DEF clientVars, receiverVars, wireVars
<1>1. /\ rpc \in [Gens -> ReceiverLabels] /\ open \in [Gens -> BOOLEAN]
      /\ stop \in [Gens -> BOOLEAN] /\ made \in 0..MaxGen /\ socket \in 0..MaxGen
  BY DEF TypeOK, WireTypes, ObjectTypes
<1> DEFINE Frame == /\ UNCHANGED <<socket, stop, rpc>>
                    /\ \A g \in Gens : open'[g] => open[g]
<1>2. Frame => OwnsOneSocket' BY DEF OwnsOneSocket
<1>3. CASE CreateConnection(c)
  <2>1. /\ UNCHANGED <<socket, stop, rpc>> /\ made + 1 \in Gens
        /\ open' = [open EXCEPT ![made + 1] = TRUE]
    BY <1>1, <1>3, BoundsAssumption DEF CreateConnection, Gens
  <2>2. rpc[made + 1] = "none" BY <1>1, <2>1 DEF FreshInv, Gens
  <2> QED BY <1>1, <2>1, <2>2 DEF OwnsOneSocket
<1>4. CASE DisconnectGeneration(c)
  <2>1. CASE UNCHANGED <<socket, stop>>
    BY <1>2, <1>4, <2>1 DEF DisconnectGeneration
  <2>2. CASE socket # None /\ socket' = None /\ stop' = [stop EXCEPT ![socket] = TRUE]
    <3>1. UNCHANGED <<rpc, open>> BY <1>4 DEF DisconnectGeneration
    <3> QED BY <1>1, <2>2, <3>1 DEF OwnsOneSocket
  <2> QED BY <1>4, <2>1, <2>2 DEF DisconnectGeneration, Detach
<1>5. CASE CloseSocket(c)
  <2>1. UNCHANGED <<socket, stop, rpc>> /\ open' = [open EXCEPT ![myGen[c]] = FALSE]
    BY <1>5 DEF CloseSocket
  <2> QED BY <1>1, <1>2, <2>1
<1>6. CASE InstallConnection(c)
  <2>1. socket = None /\ socket' = cand[c] /\ UNCHANGED <<stop, open>>
        /\ rpc' = [rpc EXCEPT ![cand[c]] = "check"]
    BY <1>6 DEF InstallConnection, ConnectorInv
  <2>2. \A g \in Gens : g # socket BY BoundsAssumption, <2>1 DEF Gens, None
  <2> QED BY <1>1, <2>1, <2>2 DEF OwnsOneSocket
<1>7. CASE ~(CreateConnection(c) \/ DisconnectGeneration(c) \/ CloseSocket(c)
             \/ InstallConnection(c))
  BY <1>2, <1>7 DEF ClientStep, ClientRequest, DisconnectCurrent, NotifyLost,
     BeginArmCommand, SendAll, SendAllFails, WaitReturns, WaitTimesOut, ClaimTimeout,
     Leave
<1> QED BY <1>3, <1>4, <1>5, <1>6, <1>7

\* Receivers and the device keep all of it.
LEMMA OwnerReceiver ==
  ASSUME TypeOK, InstalledInv, OwnerInv, NEW g \in Gens, ReceiverStep(g) \/ Device(g)
  PROVE  OwnerInv'
<1> USE DEF RGoto, clientVars, wireVars, receiverVars
<1>1. /\ rpc \in [Gens -> ReceiverLabels] /\ open \in [Gens -> BOOLEAN]
      /\ stop \in [Gens -> BOOLEAN]
  BY DEF TypeOK, WireTypes, ObjectTypes
<1>2. UNCHANGED threadVars BY WireLeavesThreads
<1>3. socket' \in {socket, None} /\ generation' = generation
  BY ReceiverKeepsInstalled
<1>4. ConnectorInv'
  BY <1>2, <1>3 DEF OwnerInv, ConnectorInv, Connecting, threadVars
<1>5. OwnedInv'
  <2>1. UNCHANGED <<pending, cell, socket>> => OwnedInv'
    BY <1>2, <1>3, OwnedFrame DEF OwnerInv, Owns, threadVars
  <2>2. \A line : CompletePending("answered", line) \/ CompletePending("lost", line)
                    => OwnedInv'
    BY OwnedCompleted DEF OwnerInv
  <2>3. CASE RouteReceivedLine(g) BY <2>1, <2>2, <2>3 DEF RouteReceivedLine
  <2>4. CASE ReceiverConnectionLost(g)
    BY <2>1, <2>2, <2>4 DEF ReceiverConnectionLost, Detach
  <2>5. CASE ~RouteReceivedLine(g) /\ ~ReceiverConnectionLost(g)
    BY <2>1, <2>5 DEF ReceiverStep, Device, CheckStop, RecvChunk, RecvTimesOut, RecvFails,
       RecvEof, EmitLost, ReceiverCloses, EspReply, EspTelemetry, EspCloses
  <2> QED BY <2>3, <2>4, <2>5
<1>6. OwnsOneSocket'
  <2> DEFINE Frame ==
        /\ UNCHANGED <<socket, stop>>
        /\ \A h \in Gens : open'[h] => open[h]
        /\ \A h \in Gens : rpc'[h] \in {"check", "recv", "route"}
                             => rpc[h] \in {"check", "recv", "route"}
  <2>1. Frame => OwnsOneSocket' BY DEF OwnerInv, OwnsOneSocket
  <2>2. CASE Device(g)
    BY <1>1, <2>1, <2>2 DEF Device, EspReply, EspTelemetry, EspCloses
  <2>3. CASE CheckStop(g) BY <1>1, <2>1, <2>3 DEF CheckStop
  <2>4. CASE RecvChunk(g) BY <1>1, <2>1, <2>4 DEF RecvChunk
  <2>5. CASE RecvTimesOut(g) BY <1>1, <2>1, <2>5 DEF RecvTimesOut
  <2>6. CASE RecvFails(g) BY <1>1, <2>1, <2>6 DEF RecvFails
  <2>7. CASE RecvEof(g) BY <1>1, <2>1, <2>7 DEF RecvEof
  <2>8. CASE RouteReceivedLine(g) BY <1>1, <2>1, <2>8 DEF RouteReceivedLine
  <2>9. CASE ReceiverConnectionLost(g)
    <3>1. CASE StillInstalled(g)
      BY <1>1, <2>9, <3>1 DEF ReceiverConnectionLost, StillInstalled, Detach, OwnerInv,
         OwnsOneSocket
    <3>2. CASE ~StillInstalled(g)
      BY <1>1, <2>1, <2>9, <3>2 DEF ReceiverConnectionLost
    <3> QED BY <3>1, <3>2
  <2>10. CASE EmitLost(g) BY <1>1, <2>1, <2>10 DEF EmitLost
  <2>11. CASE ReceiverCloses(g) BY <1>1, <2>1, <2>11 DEF ReceiverCloses
  <2> QED
    BY <2>2, <2>3, <2>4, <2>5, <2>6, <2>7, <2>8, <2>9, <2>10, <2>11 DEF ReceiverStep
<1> QED BY <1>4, <1>5, <1>6 DEF OwnerInv

LEMMA OwnerStep == OneConnector /\ IInv /\ OwnerInv /\ [Next]_vars => OwnerInv'
<1> SUFFICES ASSUME OneConnector, IInv, OwnerInv, [Next]_vars PROVE OwnerInv' OBVIOUS
<1>1. TypeOK /\ LockInv /\ InstalledInv /\ FreshInv /\ PendingInv BY DEF IInv
<1>2. CASE UNCHANGED vars
  BY <1>2 DEF vars, clientVars, threadVars, receiverVars, wireVars, OwnerInv, ConnectorInv,
     OwnedInv, OwnsOneSocket, Connecting, Owns
<1>3. ASSUME NEW c \in Clients, ClientStep(c) \/ ClientRequest(c) PROVE OwnerInv'
  BY <1>1, <1>3, ConnectorClient, OwnedClient, OwnsClient DEF OwnerInv
<1> QED BY <1>1, <1>2, <1>3, OwnerReceiver DEF Next

\* Where one session connects, whatever the others send and disconnect, the
\* client knows every connection that is being read.
THEOREM OwnsOneSocketHolds ==
  ASSUME OneConnector
  PROVE  Spec => []OwnsOneSocket
<1>1. IInv /\ OwnerInv /\ [Next]_vars => OwnerInv' BY OwnerStep
<1>2. OwnerInv => OwnsOneSocket BY DEF OwnerInv
<1> QED BY <1>1, <1>2, OwnerInit, Invariance, PTL DEF Spec

\* And a command that waits has its sender in the exchange.
THEOREM NoStrandedCommandHolds ==
  ASSUME OneConnector
  PROVE  Spec => []NoStrandedCommand
<1>1. IInv /\ OwnerInv /\ [Next]_vars => OwnerInv' BY OwnerStep
<1>2. TypeOK /\ OwnerInv => NoStrandedCommand
  BY DEF OwnerInv, OwnedInv, NoStrandedCommand, Cmds, None
<1> QED BY <1>1, <1>2, OwnerInit, Invariance, TypeCorrect, PTL DEF Spec

-----------------------------------------------------------------------------
(* The client implements ArmLink. *)

\* The steps that ArmLink can tell from doing nothing.
LEMMA LinkCases ==
  ASSUME [Next]_vars
  PROVE  \/ \E c \in Clients : BeginArmCommand(c) \/ SendAll(c)
         \/ \E c \in Clients : ClaimTimeout(c) /\ MayClaim(c)
         \/ CompletePending("lost", None) /\ UNCHANGED <<sent, handled, issued>>
         \/ \E g \in Gens : /\ RouteReceivedLine(g) /\ IsCurrent(g) /\ pending # None
                            /\ replies[g][routed[g] + 1] # Telemetry
         \/ \E g \in Gens : EspReply(g)
         \/ UNCHANGED <<cell, pending, sent, handled, issued>>
<1> USE DEF clientVars, wireVars, historyVars
<1>1. CASE UNCHANGED vars BY <1>1 DEF vars
<1>2. ASSUME NEW c \in Clients, ClientStep(c) \/ ClientRequest(c),
             ~BeginArmCommand(c), ~SendAll(c), ~(ClaimTimeout(c) /\ MayClaim(c))
      PROVE  \/ CompletePending("lost", None) /\ UNCHANGED <<sent, handled, issued>>
             \/ UNCHANGED <<cell, pending, sent, handled, issued>>
  <2>1. CASE DisconnectGeneration(c) BY <2>1 DEF DisconnectGeneration, Detach
  <2>2. CASE ClaimTimeout(c) BY <1>2, <2>2 DEF ClaimTimeout
  <2>3. CASE ~DisconnectGeneration(c) /\ ~ClaimTimeout(c)
    BY <1>2, <2>3 DEF ClientStep, ClientRequest, CreateConnection, DisconnectCurrent,
       CloseSocket, NotifyLost, InstallConnection, SendAllFails, WaitReturns, WaitTimesOut,
       Leave
  <2> QED BY <2>1, <2>2, <2>3
<1>3. ASSUME NEW g \in Gens, ReceiverStep(g) \/ Device(g), ~EspReply(g)
      PROVE  \/ CompletePending("lost", None) /\ UNCHANGED <<sent, handled, issued>>
             \/ /\ RouteReceivedLine(g) /\ IsCurrent(g) /\ pending # None
                /\ replies[g][routed[g] + 1] # Telemetry
             \/ UNCHANGED <<cell, pending, sent, handled, issued>>
  <2>1. CASE ReceiverConnectionLost(g) BY <2>1 DEF ReceiverConnectionLost, Detach
  <2>2. CASE RouteReceivedLine(g) BY <2>2 DEF RouteReceivedLine
  <2>3. CASE ~ReceiverConnectionLost(g) /\ ~RouteReceivedLine(g)
    BY <1>3, <2>3 DEF ReceiverStep, Device, CheckStop, RecvChunk, RecvTimesOut, RecvFails,
       RecvEof, EmitLost, ReceiverCloses, EspTelemetry, EspCloses
  <2> QED BY <2>1, <2>2, <2>3
<1> QED BY <1>1, <1>2, <1>3 DEF Next

LEMMA LinkInit == Init => LinkInv
BY DEF Init, LinkInv, InExchange, Failing, Cmds

\* An exchange that goes on is still about the last command.
LEMMA ExchangeLast ==
  ASSUME IInv, LinkInv, [Next]_vars, NEW d \in Clients, InExchange(d)'
  PROVE  myCmd'[d] = issued'
<1>1. TypeOK /\ LockInv BY DEF IInv
<1>2. CASE ~\E c \in Clients : BeginArmCommand(c)
  BY <1>1, <1>2, ExchangeContinues, IssuedFrame DEF LinkInv
<1>3. ASSUME NEW c \in Clients, BeginArmCommand(c) PROVE myCmd'[d] = issued'
  <2>1. \A b \in Clients : ~InExchange(b)
    BY <1>1, <1>3, NoClientAssumption DEF LockInv, BeginArmCommand
  <2>2. CASE d # c
    <3>1. pc'[d] = pc[d] /\ ret'[d] = ret[d]
      BY <1>1, <1>3, <2>2 DEF BeginArmCommand, Goto, TypeOK, ThreadTypes
    <3> QED BY <2>1, <3>1 DEF InExchange, Failing
  <2>3. CASE d = c
    BY <1>1, <1>3, <2>3 DEF BeginArmCommand, TypeOK, ThreadTypes
  <2> QED BY <2>2, <2>3
<1> QED BY <1>2, <1>3

\* What a completion leaves of the commands.
LEMMA CompletedCells ==
  ASSUME TypeOK, NEW outcome, NEW line, CompletePending(outcome, line), NEW k \in Cmds
  PROVE  /\ pending' = None
         /\ cell'[k] = IF k = pending THEN outcome ELSE cell[k]
BY DEF CompletePending, TypeOK, ObjectTypes, None, Cmds

\* A waiting command is the pending one; none that was accepted is new.
LEMMA CellsStep ==
  ASSUME IInv, LinkInv, [Next]_vars, NEW k \in Cmds
  PROVE  /\ cell'[k] = "new" => k > issued'
         /\ cell'[k] = "waiting" => pending' = k
<1>1. /\ TypeOK /\ cell \in [Cmds -> CellStates] /\ issued \in Nat /\ k \in Nat
      /\ pending \in 0..MaxCommands /\ myCmd \in [Clients -> 0..MaxCommands]
      /\ cell[k] = "new" => k > issued
      /\ cell[k] = "waiting" => pending = k
  BY BoundsAssumption DEF IInv, LinkInv, TypeOK, ObjectTypes, ThreadTypes, Cmds
<1>2. ASSUME NEW c \in Clients, BeginArmCommand(c)
      PROVE  /\ cell'[k] = "new" => k > issued'
             /\ cell'[k] = "waiting" => pending' = k
  <2>1. /\ issued' = issued + 1 /\ pending' = issued + 1 /\ pending = None
        /\ cell'[k] = IF k = issued + 1 THEN "waiting" ELSE cell[k]
    BY <1>1, <1>2 DEF BeginArmCommand
  <2>2. k # None BY DEF Cmds, None
  <2> QED BY <1>1, <2>1, <2>2
<1>3. ASSUME NEW c \in Clients, ClaimTimeout(c), MayClaim(c)
      PROVE  /\ cell'[k] = "new" => k > issued'
             /\ cell'[k] = "waiting" => pending' = k
  <2>1. /\ issued' = issued /\ pending = myCmd[c]
        /\ cell'[k] = IF k = pending THEN "timeout" ELSE cell[k]
    BY <1>1, <1>3 DEF ClaimTimeout, MayClaim, historyVars
  <2> QED BY <1>1, <2>1
<1>4. ASSUME NEW outcome \in {"lost", "answered"}, NEW line, CompletePending(outcome, line),
             issued' = issued
      PROVE  /\ cell'[k] = "new" => k > issued'
             /\ cell'[k] = "waiting" => pending' = k
  <2>1. cell'[k] = IF k = pending THEN outcome ELSE cell[k] BY <1>1, <1>4, CompletedCells
  <2> QED BY <1>1, <1>4, <2>1
<1>5. ASSUME UNCHANGED <<cell, pending, issued>>
      PROVE  /\ cell'[k] = "new" => k > issued'
             /\ cell'[k] = "waiting" => pending' = k
  BY <1>1, <1>5
<1>6. ASSUME NEW c \in Clients, SendAll(c) PROVE UNCHANGED <<cell, pending, issued>>
  BY <1>6 DEF SendAll, clientVars, historyVars
<1>7. ASSUME NEW g \in Gens, EspReply(g) PROVE UNCHANGED <<cell, pending, issued>>
  BY <1>7 DEF EspReply, clientVars, historyVars
<1>8. ASSUME NEW g \in Gens, RouteReceivedLine(g), IsCurrent(g), pending # None,
             replies[g][routed[g] + 1] # Telemetry
      PROVE  CompletePending("answered", replies[g][routed[g] + 1]) /\ issued' = issued
  BY <1>8 DEF RouteReceivedLine, historyVars
<1> QED BY <1>2, <1>3, <1>4, <1>5, <1>6, <1>7, <1>8, LinkCases

\* What was put on a connection stays there, and so does what was handled.
LEMMA HandledStays ==
  ASSUME TypeOK, [Next]_vars, NEW g \in Gens, NEW i \in 1..handled[g]
  PROVE  i \in 1..handled'[g] /\ sent'[g][i] = sent[g][i]
<1>1. /\ handled \in [Gens -> Nat] /\ sent \in [Gens -> Seq(0..MaxCommands)]
      /\ handled[g] \in Nat /\ Len(sent[g]) \in Nat /\ handled[g] <= Len(sent[g])
      /\ i \in 1..Len(sent[g])
  BY DEF TypeOK, WireTypes, CursorsInOrder
<1>2. CASE \E c \in Clients : SendAll(c)
  <2>1. PICK c \in Clients : SendAll(c) BY <1>2
  <2>2. handled' = handled BY <2>1 DEF SendAll
  <2>3. myCmd[c] \in 0..MaxCommands BY DEF TypeOK, ThreadTypes
  <2>4. sent'[g] \in {sent[g], Append(sent[g], myCmd[c])} BY <1>1, <2>1 DEF SendAll
  <2>5. Append(sent[g], myCmd[c])[i] = sent[g][i] BY <1>1, <2>3, AppendAt
  <2> QED BY <2>2, <2>4, <2>5
<1>3. CASE \E h \in Gens : EspReply(h) \/ EspTelemetry(h)
  <2>1. PICK h \in Gens : EspReply(h) \/ EspTelemetry(h) BY <1>3
  <2>2. sent' = sent BY <2>1 DEF EspReply, EspTelemetry
  <2>3. handled'[g] = handled[g] \/ handled'[g] = handled[g] + 1
    BY <1>1, <2>1 DEF EspReply, EspTelemetry
  <2> QED BY <1>1, <2>2, <2>3
<1>4. CASE UNCHANGED <<sent, replies, handled>> BY <1>4
<1> QED BY <1>2, <1>3, <1>4, WireFrame

\* The ACK that completes a command: the device has handled that command.
LEMMA RouteHandled ==
  ASSUME IInv, NEW g \in Gens, RouteReceivedLine(g), IsCurrent(g), pending # None,
         replies[g][routed[g] + 1] # Telemetry
  PROVE  /\ CompletePending("answered", pending)
         /\ \E i \in 1..handled[g] : sent[g][i] = pending
<1>1. Base /\ DeliveryInv BY DEF IInv, Base
<1>2. replies[g][routed[g] + 1] = pending BY <1>1, RouteExpected
<1>3. routed[g] + 1 \in 1..Len(replies[g])
  BY DEF RouteReceivedLine, IInv, TypeOK, WireTypes, CursorsInOrder
<1>4. \E i \in 1..handled[g] : sent[g][i] = pending
  BY <1>2, <1>3 DEF IInv, RepliesInv
<1>5. CompletePending("answered", pending) BY <1>2 DEF RouteReceivedLine
<1> QED BY <1>4, <1>5

\* A good result is about a command that the device has handled.
LEMMA AnsweredHandled ==
  ASSUME IInv, LinkInv, [Next]_vars, NEW k \in Cmds, cell'[k] = "answered"
  PROVE  \E g \in Gens : \E i \in 1..handled'[g] : sent'[g][i] = k
<1>1. TypeOK BY DEF IInv
<1>2. CASE cell[k] = "answered"
  <2>1. PICK g \in Gens : \E i \in 1..handled[g] : sent[g][i] = k BY <1>2 DEF LinkInv
  <2>2. PICK i \in 1..handled[g] : sent[g][i] = k BY <2>1
  <2> QED BY <1>1, <2>2, HandledStays
<1>3. CASE cell[k] # "answered"
  <2>1. /\ cell \in [Cmds -> CellStates] /\ pending \in 0..MaxCommands
        /\ myCmd \in [Clients -> 0..MaxCommands]
    BY <1>1 DEF TypeOK, ObjectTypes, ThreadTypes
  <2>2. ASSUME NEW c \in Clients, BeginArmCommand(c) \/ SendAll(c) PROVE FALSE
    BY <1>3, <2>1, <2>2 DEF BeginArmCommand, SendAll, clientVars
  <2>3. ASSUME NEW c \in Clients, ClaimTimeout(c), MayClaim(c) PROVE FALSE
    BY <1>3, <2>1, <2>3 DEF ClaimTimeout
  <2>4. ASSUME CompletePending("lost", None) PROVE FALSE
    BY <1>1, <1>3, <2>4, CompletedCells
  <2>5. ASSUME NEW g \in Gens, EspReply(g) PROVE FALSE
    BY <1>3, <2>5 DEF EspReply, clientVars
  <2>6. ASSUME NEW g \in Gens, RouteReceivedLine(g), IsCurrent(g), pending # None,
               replies[g][routed[g] + 1] # Telemetry
        PROVE  \E h \in Gens : \E i \in 1..handled'[h] : sent'[h][i] = k
    <3>1. /\ CompletePending("answered", pending)
          /\ \E i \in 1..handled[g] : sent[g][i] = pending
      BY <2>6, RouteHandled
    <3>2. k = pending BY <1>1, <1>3, <3>1, CompletedCells
    <3>3. PICK i \in 1..handled[g] : sent[g][i] = k BY <3>1, <3>2
    <3> QED BY <1>1, <3>3, HandledStays
  <2>7. CASE UNCHANGED cell BY <1>3, <2>7
  <2> QED BY <2>2, <2>3, <2>4, <2>5, <2>6, <2>7, LinkCases
<1> QED BY <1>2, <1>3

LEMMA LinkStep == IInv /\ LinkInv /\ [Next]_vars => LinkInv'
BY ExchangeLast, CellsStep, AnsweredHandled DEF LinkInv

-----------------------------------------------------------------------------
(* Each step as a step of ArmLink. *)

LEMMA StatusOf ==
  ASSUME NEW k \in Cmds
  PROVE  CommandStatus[k] = IF cell[k] \in {"lost", "timeout"} THEN "failed" ELSE cell[k]
BY DEF CommandStatus

LEMMA StatusChange ==
  ASSUME TypeOK, NEW k \in Cmds, NEW s, cell' = [cell EXCEPT ![k] = s]
  PROVE  CommandStatus' =
           [CommandStatus EXCEPT ![k] = IF s \in {"lost", "timeout"} THEN "failed" ELSE s]
<1>1. cell \in [Cmds -> CellStates] BY DEF TypeOK, ObjectTypes
<1> QED BY <1>1 DEF CommandStatus

LEMMA BeginAccepts ==
  ASSUME IInv, LinkInv, NEW c \in Clients, BeginArmCommand(c)
  PROVE  \E k \in Cmds : Link!Accept(k)
<1>1. PICK k : k = issued + 1 OBVIOUS
<1>2. k \in Cmds /\ issued \in Nat /\ k > issued
  BY <1>1, BoundsAssumption DEF BeginArmCommand, IInv, TypeOK, ObjectTypes, Cmds
<1>3. CommandStatus' = [CommandStatus EXCEPT ![k] = "waiting"]
  <2>1. cell' = [cell EXCEPT ![k] = "waiting"] BY <1>1 DEF BeginArmCommand
  <2> QED BY <1>2, <2>1, StatusChange DEF IInv
<1>4. \A j \in Cmds : j > issued => CommandStatus[j] = "new"
  BY StatusOf DEF IInv, NewInv
<1>5. \A j \in Cmds : CommandStatus[j] # "waiting"
  <2>1. \A j \in Cmds : cell[j] # "waiting"
    BY DEF BeginArmCommand, LinkInv, Cmds, None
  <2> QED BY <2>1, StatusOf
<1>6. \A j \in Cmds : j > k => CommandStatus[j] = "new"
  <2>1. \A j \in Cmds : j \in Nat BY DEF Cmds
  <2> QED BY <1>1, <1>2, <1>4, <2>1
<1>7. UNCHANGED <<sent, handled>> BY DEF BeginArmCommand, wireVars
<1> QED BY <1>2, <1>3, <1>4, <1>5, <1>6, <1>7 DEF Link!Accept, Link!Last

LEMMA SendTransmits ==
  ASSUME IInv, LinkInv, NEW c \in Clients, SendAll(c)
  PROVE  \E k \in Cmds : \E g \in Gens : Link!Transmit(k, g)
<1>1. PICK k, g : k = myCmd[c] /\ g = myGen[c] OBVIOUS
<1>2. InExchange(c) /\ pc[c] = "send" BY DEF SendAll, InExchange
<1>3. /\ k = issued /\ k \in 1..issued /\ issued \in 0..MaxCommands
      /\ g # None /\ g \in 0..MaxGen
  BY <1>1, <1>2
     DEF IInv, LinkInv, PendingInv, InstalledInv, TypeOK, ObjectTypes, ThreadTypes
<1>4. k \in Cmds /\ g \in Gens
  BY <1>3, BoundsAssumption DEF Cmds, Gens, None
<1>5. \A h \in Gens : \A i \in 1..Len(sent[h]) : sent[h][i] # k
  BY <1>1, <1>2 DEF IInv, SentInv
<1>6. cell[k] # "answered"
  <2> SUFFICES ASSUME cell[k] = "answered" PROVE FALSE OBVIOUS
  <2>1. PICK h \in Gens : \E i \in 1..handled[h] : sent[h][i] = k
    BY <1>4 DEF LinkInv
  <2>2. PICK i \in 1..handled[h] : sent[h][i] = k BY <2>1
  <2>3. i \in 1..Len(sent[h]) BY DEF IInv, TypeOK, WireTypes, CursorsInOrder
  <2> QED BY <1>5, <2>2, <2>3
<1>7. CommandStatus[k] \in {"waiting", "failed"}
  <2>1. cell[k] # "new" BY <1>3, <1>4 DEF LinkInv
  <2>2. cell[k] \in CellStates BY <1>4 DEF IInv, TypeOK, ObjectTypes
  <2> QED BY <1>4, <1>6, <2>1, <2>2, StatusOf DEF CellStates
<1>8. \A j \in Cmds : j > k => CommandStatus[j] = "new"
  BY <1>3, StatusOf DEF IInv, NewInv
<1>9. \A h \in Gens : DOMAIN sent[h] = 1..Len(sent[h])
  BY DEF IInv, TypeOK, WireTypes
<1>10. \A i \in DOMAIN sent[g] : CommandStatus[sent[g][i]] = "answered"
  <2> SUFFICES ASSUME NEW i \in 1..Len(sent[g])
               PROVE  CommandStatus[sent[g][i]] = "answered"
    BY <1>4, <1>9
  <2>1. cell[sent[g][i]] = "answered" BY <1>1, <1>2 DEF IInv, HistoryInv
  <2>2. sent[g][i] \in Cmds
    BY <1>3, <1>4, BoundsAssumption DEF IInv, SentInv, Cmds
  <2> QED BY <2>1, <2>2, StatusOf
<1>11. sent' = [sent EXCEPT ![g] = Append(@, k)] /\ UNCHANGED <<cell, handled>>
  BY <1>1 DEF SendAll, clientVars
<1>12. UNCHANGED CommandStatus BY <1>11 DEF CommandStatus
<1>13. Link!Last(k) BY <1>8 DEF Link!Last
<1>14. \A h \in Gens : ~Link!OnWire(h, k) BY <1>5, <1>9 DEF Link!OnWire
<1>15. Link!Transmit(k, g)
  BY <1>7, <1>10, <1>11, <1>12, <1>13, <1>14 DEF Link!Transmit
<1> QED BY <1>4, <1>15

LEMMA CompletesOrFails ==
  ASSUME IInv, NEW k \in Cmds, cell[k] = "waiting", UNCHANGED <<sent, handled>>,
         NEW outcome, cell' = [cell EXCEPT ![k] = outcome],
         \/ outcome \in {"lost", "timeout"}
         \/ outcome = "answered" /\ \E g \in Gens : \E i \in 1..handled[g] : sent[g][i] = k
  PROVE  Link!Fail(k) \/ Link!Succeed(k)
<1>1. CommandStatus[k] = "waiting" BY StatusOf
<1>2. CommandStatus' =
        [CommandStatus EXCEPT ![k] = IF outcome \in {"lost", "timeout"} THEN "failed" ELSE outcome]
  BY StatusChange DEF IInv
<1> QED BY <1>1, <1>2 DEF Link!Fail, Link!Succeed, Link!HandledOn

LEMMA PendingWaits ==
  ASSUME IInv, pending # None
  PROVE  pending \in Cmds /\ cell[pending] = "waiting"
BY DEF IInv, PendingInv, TypeOK, ObjectTypes, Cmds, None

\* Every step of sessions, receivers and device is one of ArmLink, or none.
LEMMA LinkRefinement ==
  ASSUME IInv, LinkInv, [Next]_vars
  PROVE  Link!Next \/ UNCHANGED <<CommandStatus, sent, handled>>
<1>1. ASSUME NEW c \in Clients, BeginArmCommand(c) \/ SendAll(c) PROVE Link!Next
  BY <1>1, BeginAccepts, SendTransmits DEF Link!Next
<1>2. ASSUME NEW c \in Clients, ClaimTimeout(c), MayClaim(c) PROVE Link!Next
  <2>1. /\ cell' = [cell EXCEPT ![myCmd[c]] = "timeout"] /\ pending = myCmd[c]
        /\ cell[myCmd[c]] = "waiting" /\ UNCHANGED <<sent, handled>>
    BY <1>2 DEF ClaimTimeout, MayClaim, wireVars
  <2>2. myCmd[c] \in Cmds
    <3>1. myCmd[c] # None
      BY <1>2, BoundsAssumption
         DEF ClaimTimeout, InExchange, IInv, PendingInv, TypeOK, ObjectTypes, None
    <3> QED BY <2>1, <3>1, PendingWaits
  <2> QED BY <2>1, <2>2, CompletesOrFails DEF Link!Next
<1>3. ASSUME CompletePending("lost", None), UNCHANGED <<sent, handled>>
      PROVE  Link!Next \/ UNCHANGED <<CommandStatus, sent, handled>>
  <2>1. CASE pending = None
    BY <1>3, <2>1 DEF CompletePending, CommandStatus
  <2>2. CASE pending # None
    <3>1. cell' = [cell EXCEPT ![pending] = "lost"] BY <1>3, <2>2 DEF CompletePending
    <3> QED BY <1>3, <2>2, <3>1, PendingWaits, CompletesOrFails DEF Link!Next
  <2> QED BY <2>1, <2>2
<1>4. ASSUME NEW g \in Gens, RouteReceivedLine(g), IsCurrent(g), pending # None,
             replies[g][routed[g] + 1] # Telemetry
      PROVE  Link!Next
  <2>1. /\ CompletePending("answered", pending)
        /\ \E i \in 1..handled[g] : sent[g][i] = pending
    BY <1>4, RouteHandled
  <2>2. cell' = [cell EXCEPT ![pending] = "answered"]
    BY <1>4, <2>1 DEF CompletePending
  <2>3. UNCHANGED <<sent, handled>> BY <1>4 DEF RouteReceivedLine, wireVars
  <2> QED BY <1>4, <2>1, <2>2, <2>3, PendingWaits, CompletesOrFails DEF Link!Next
<1>5. ASSUME NEW g \in Gens, EspReply(g) PROVE Link!Next
  <2>1. /\ handled[g] < Len(sent[g]) /\ handled' = [handled EXCEPT ![g] = @ + 1]
        /\ UNCHANGED <<cell, sent>>
    BY <1>5 DEF EspReply, clientVars
  <2>2. UNCHANGED CommandStatus BY <2>1 DEF CommandStatus
  <2> QED BY <2>1, <2>2 DEF Link!Next, Link!Handle
<1>6. CASE UNCHANGED <<cell, sent, handled>> BY <1>6 DEF CommandStatus
<1> QED BY <1>1, <1>2, <1>3, <1>4, <1>5, <1>6, LinkCases

\* For any number of sessions, all of which may connect and disconnect, of
\* connections and of commands: the client with its threads implements ArmLink,
\* so that what its callers see is a link without ambiguity.
THEOREM ImplementsLinkHolds == Spec => ImplementsLink
<1>1. Init => Link!Init BY DEF Init, Link!Init, CommandStatus
<1>2. IInv /\ LinkInv /\ [Next]_vars => LinkInv' BY LinkStep
<1>3. IInv /\ LinkInv /\ [Next]_vars => [Link!Next]_<<CommandStatus, sent, handled>>
  BY LinkRefinement
<1> QED BY <1>1, <1>2, <1>3, LinkInit, Invariance, PTL DEF Spec, ImplementsLink, Link!Spec
=============================================================================
