-------------------------- MODULE GuiSession_proofs --------------------------
(***************************************************************************)
(* GuiSession keeps its invariant, for any teaching positions and any      *)
(* number of steps, requests, connections and faults.                      *)
(***************************************************************************)
EXTENDS GuiSessionInv, TLAPS

\* The initial state.
LEMMA GuiInit == Init => GInv
<1> SUFFICES ASSUME Init PROVE GInv OBVIOUS
<1> USE GuiBounds DEF Init, None
<1>1. GuiTypeOK
  <2>1. hand \in Request \cup {Nobody} OBVIOUS
  <2>2. /\ running \in BOOLEAN /\ timer \in BOOLEAN /\ closing \in BOOLEAN
        /\ espShown \in BOOLEAN /\ flag \in BOOLEAN /\ cut \in BOOLEAN
        /\ link \in BOOLEAN /\ lost \in BOOLEAN /\ edited \in BOOLEAN
    OBVIOUS
  <2> QED BY <2>1, <2>2 DEF GuiTypeOK
<1>2. WaitsForOneThing /\ StepAfterAck /\ AtMostOneStale
  BY DEF WaitsForOneThing, StepAfterAck, AtMostOneStale, Nobody
<1>3. IdentifiersInv /\ MessagesInv /\ TrailInv
  BY DEF IdentifiersInv, MessagesInv, TrailInv, Nobody
<1>4. ResultsInv /\ RunInv BY DEF ResultsInv, RunInv
<1>5. StaleInv /\ AnswerInv BY DEF StaleInv, AnswerInv, WillBeSent, WillBeAnswered, Nobody
<1> QED BY <1>1, <1>2, <1>3, <1>4, <1>5 DEF GInv

-----------------------------------------------------------------------------
(* Types *)

\* The empty sequence is of every type.
LEMMA EmptyTyped ==
  /\ <<>> \in Seq(Positions) /\ <<>> \in Seq(Sent)
  /\ <<>> \in Seq(Request) /\ <<>> \in Seq(Message)
OBVIOUS

\* So is the absent identifier.
LEMMA NoneTyped == None \in 0..MaxRequests
BY GuiBounds DEF None

\* A request that was tested has the next identifier and the present connection.
LEMMA TestedRequest ==
  ASSUME GuiTypeOK, StaleInv, NEW kind \in {"action", "arm", "connect", "disconnect"},
         TestConnection(kind)
  PROVE  /\ seq' = seq + 1 /\ seq' \in 1..MaxRequests
         /\ hand' \in Request \cup {Nobody}
         /\ hand' = IF flag THEN [id |-> seq', kind |-> kind, conn |-> conn] ELSE Nobody
         /\ flag => conn \in 1..MaxConns
BY GuiBounds DEF GuiTypeOK, StaleInv, TestConnection, Request, Nobody

\* What a row that is sent adds to the trail.
LEMMA SentStep ==
  ASSUME GuiTypeOK, StaleInv, NEW sent \in Seq(Sent),
         NEW k \in Nat, k < Len(list), SendStep(k, sent)
  PROVE  /\ seq' \in 0..MaxRequests /\ hand' \in Request \cup {Nobody}
         /\ running' \in BOOLEAN /\ pend' = None /\ timer' = FALSE
         /\ trail' \in Seq(Sent)
<1> USE GuiBounds, EmptyTyped, NoneTyped
<1>1. CASE espShown /\ flag
  <2>1. TestConnection("action") /\ trail' = Append(sent, [id |-> seq + 1,
                                   item |-> list[k + 1], acked |-> FALSE])
    BY <1>1 DEF SendStep, GuiTypeOK
  <2>2. seq' = seq + 1 /\ seq' \in 1..MaxRequests /\ hand' \in Request \cup {Nobody}
    BY <2>1, TestedRequest
  <2>3. [id |-> seq + 1, item |-> list[k + 1], acked |-> FALSE] \in Sent
    BY <2>2 DEF GuiTypeOK, Sent
  <2>4. trail' \in Seq(Sent) BY <2>1, <2>3
  <2> QED BY <1>1, <2>2, <2>4 DEF SendStep
<1>2. CASE espShown /\ ~flag
  <2>1. TestConnection("action") BY <1>2 DEF SendStep
  <2>2. seq' \in 1..MaxRequests /\ hand' \in Request \cup {Nobody}
    BY <2>1, TestedRequest
  <2>3. running' \in BOOLEAN /\ pend' = None /\ timer' = FALSE /\ trail' \in Seq(Sent)
    BY <1>2 DEF SendStep
  <2>4. seq' \in 0..MaxRequests BY <2>2
  <2> QED BY <2>2, <2>3, <2>4
<1>3. CASE ~espShown BY <1>3 DEF SendStep, GuiTypeOK, sendVars
<1> QED BY <1>1, <1>2, <1>3 DEF GuiTypeOK

\* The user's actions keep every variable's type.
LEMMA UserTypes == ASSUME GuiTypeOK, StaleInv, User PROVE GuiTypeOK'
<1> USE GuiBounds, EmptyTyped, NoneTyped DEF Idle, Halt, guiVars, runVars, sendVars, clientVars, backendVars
<1>1. CASE SendArm BY <1>1, TestedRequest DEF SendArm, GuiTypeOK
<1>2. CASE ConnectEsp32 BY <1>2, TestedRequest DEF ConnectEsp32, GuiTypeOK
<1>3. CASE DisconnectEsp32
  <2>1. seq' \in 0..MaxRequests /\ hand' \in Request \cup {Nobody}
    BY <1>3, TestedRequest DEF DisconnectEsp32
  <2>2. /\ running' = FALSE /\ pend' = None /\ timer' = FALSE /\ trail' = <<>>
        /\ edited' = FALSE /\ step' = step
    BY <1>3 DEF DisconnectEsp32
  <2>3. UNCHANGED <<espShown, list, closing, inbox, clientVars, backendVars>>
    BY <1>3 DEF DisconnectEsp32
  <2> QED BY <2>1, <2>2, <2>3 DEF GuiTypeOK
<1>4. ASSUME NEW p \in Positions, AddStep(p) PROVE GuiTypeOK'
  BY <1>4 DEF AddStep, GuiTypeOK
<1>5. ASSUME NEW i \in 1..Len(list), RemoveStep(i) PROVE GuiTypeOK'
  BY <1>5 DEF RemoveStep, GuiTypeOK
<1>6. CASE ClearSteps BY <1>6 DEF ClearSteps, GuiTypeOK
<1>7. CASE ExecuteAction
  <2>1. 0 < Len(list) BY <1>7 DEF ExecuteAction, GuiTypeOK
  <2>2. SendStep(0, <<>>) BY <1>7 DEF ExecuteAction
  <2>3. /\ seq' \in 0..MaxRequests /\ hand' \in Request \cup {Nobody}
        /\ running' \in BOOLEAN /\ pend' = None /\ timer' = FALSE
        /\ trail' \in Seq(Sent)
    BY <2>1, <2>2, SentStep
  <2> QED BY <1>7, <2>3 DEF ExecuteAction, GuiTypeOK
<1>8. CASE StopAction BY <1>8 DEF StopAction, GuiTypeOK
<1>9. CASE CloseWindow BY <1>9 DEF CloseWindow, GuiTypeOK
<1> QED BY <1>1, <1>2, <1>3, <1>4, <1>5, <1>6, <1>7, <1>8, <1>9 DEF User

\* So do the other actions of the main thread.
LEMMA MainThreadTypes == ASSUME GuiTypeOK, StaleInv, MainThread PROVE GuiTypeOK'
<1> USE GuiBounds, EmptyTyped, NoneTyped DEF Idle, Halt, runVars, sendVars, clientVars, backendVars
<1>1. CASE Put
  <2>1. hand \in Request BY <1>1 DEF Put, GuiTypeOK
  <2>2. outbox' \in Seq(Request) /\ hand' \in Request \cup {Nobody}
    BY <1>1, <2>1 DEF Put, GuiTypeOK
  <2>3. pend' \in 0..MaxRequests BY <1>1, <2>1 DEF Put, GuiTypeOK, Request
  <2> QED BY <1>1, <2>2, <2>3 DEF Put, GuiTypeOK
<1>2. CASE TimerFires
  <2>1. CASE ~running \/ pend # None
    BY <1>2, <2>1 DEF TimerFires, GuiTypeOK
  <2>2. CASE running /\ pend = None /\ step >= Len(list)
    <3>1. running' = FALSE /\ timer' = FALSE /\ trail' = <<>> /\ edited' = FALSE
      BY <1>2, <2>2 DEF TimerFires, GuiTypeOK
    <3>2. UNCHANGED <<pend, sendVars, espShown, list, step, closing, inbox, clientVars,
                      backendVars>>
      BY <1>2, <2>2 DEF TimerFires, GuiTypeOK
    <3> QED BY <3>1, <3>2 DEF GuiTypeOK
  <2>3. CASE running /\ pend = None /\ step < Len(list)
    <3>1. SendStep(step, trail) BY <1>2, <2>3 DEF TimerFires, GuiTypeOK
    <3>2. /\ seq' \in 0..MaxRequests /\ hand' \in Request \cup {Nobody}
          /\ running' \in BOOLEAN /\ pend' = None /\ timer' = FALSE
          /\ trail' \in Seq(Sent)
      BY <2>3, <3>1, SentStep DEF GuiTypeOK
    <3>3. edited' \in BOOLEAN BY <1>2, <3>2 DEF TimerFires, GuiTypeOK
    <3> QED BY <1>2, <3>2, <3>3 DEF TimerFires, GuiTypeOK
  <2> QED BY <2>1, <2>2, <2>3 DEF GuiTypeOK
<1>3. CASE HandleSignal
  <2>1. inbox' \in Seq(Message) BY <1>3 DEF HandleSignal, Signal, OnDisconnected,
          OnEspStatus, OnError, OnArmResult, GuiTypeOK
  <2>2. /\ espShown' \in BOOLEAN /\ running' \in BOOLEAN /\ step' \in Nat
        /\ pend' \in 0..MaxRequests /\ timer' \in BOOLEAN /\ edited' \in BOOLEAN
        /\ trail' \in Seq(Sent)
    <3>1. Head(inbox) \in Message BY <1>3 DEF HandleSignal, Signal, OnDisconnected,
          OnEspStatus, OnError, OnArmResult, GuiTypeOK
    <3>2. CASE OnDisconnected BY <3>2 DEF OnDisconnected, GuiTypeOK
    <3>3. CASE OnEspStatus BY <3>1, <3>3 DEF OnEspStatus, GuiTypeOK, Message
    <3>4. CASE OnError BY <3>4 DEF OnError, GuiTypeOK
    <3>5. CASE OnArmResult
      <4>1. CASE Halt BY <3>5, <4>1 DEF OnArmResult, GuiTypeOK
      <4>2. CASE ~Halt
        <5>1. /\ pend' \in {pend, None} /\ step' \in {step, step + 1}
              /\ timer' \in {timer, TRUE} /\ UNCHANGED <<espShown, running, trail, edited>>
          BY <3>5, <4>2 DEF OnArmResult
        <5>2. pend' \in 0..MaxRequests BY <5>1 DEF GuiTypeOK
        <5>3. step' \in Nat BY <5>1 DEF GuiTypeOK
        <5>4. timer' \in BOOLEAN BY <5>1 DEF GuiTypeOK
        <5> QED BY <5>1, <5>2, <5>3, <5>4 DEF GuiTypeOK
      <4> QED BY <4>1, <4>2
    <3> QED BY <1>3, <3>2, <3>3, <3>4, <3>5 DEF HandleSignal
  <2> QED BY <1>3, <2>1, <2>2 DEF HandleSignal, GuiTypeOK
<1> QED BY <1>1, <1>2, <1>3 DEF MainThread

\* And those of the network thread.
LEMMA NetworkTypes == ASSUME GuiTypeOK, Network PROVE GuiTypeOK'
<1> USE GuiBounds, EmptyTyped, NoneTyped DEF guiVars, runVars, sendVars, backendVars
<1>1. CASE Connect
  <2>1. <<EspStatus(link)>> \in Seq(Message) BY DEF EspStatus, Message, None, GuiTypeOK
  <2>2. toBackend' = <<>> /\ responses' \in Seq(Message) BY <1>1, <2>1 DEF Connect
  <2>3. conn' \in 0..MaxConns BY <1>1 DEF Connect, GuiTypeOK
  <2>4. net' = "up" /\ flag' = TRUE /\ cut' = FALSE
        /\ UNCHANGED <<guiVars, inbox, outbox, link, faults, lost>>
    BY <1>1 DEF Connect
  <2> QED BY <2>2, <2>3, <2>4 DEF GuiTypeOK
<1>2. CASE ConnectFails BY <1>2 DEF ConnectFails, GuiTypeOK
<1>3. CASE FlushOutbox BY <1>3 DEF FlushOutbox, GuiTypeOK
<1>4. CASE MarkDisconnected
  <2>1. Disconnected \in Message BY DEF Disconnected, Message, None
  <2>2. inbox' \in Seq(Message) BY <1>4, <2>1 DEF MarkDisconnected, Emit, GuiTypeOK
  <2> QED BY <1>4, <2>2 DEF MarkDisconnected, GuiTypeOK
<1>5. CASE DiscardPendingMessages BY <1>5 DEF DiscardPendingMessages, GuiTypeOK
<1>6. CASE EndThread BY <1>6 DEF EndThread, GuiTypeOK
<1> QED BY <1>1, <1>2, <1>3, <1>4, <1>5, <1>6 DEF Network

\* What a request may be answered, by kind.
LEMMA AnswersShape ==
  ASSUME link \in BOOLEAN, NEW r \in Request, NEW a \in Answers(r)
  PROVE  /\ a \in Seq(Message) /\ Len(a) \in 1..2
         /\ \A i \in 1..Len(a) : Addressed(a[i]) /\ a[i].id \in {None, r.id}
         /\ \A i \in 2..Len(a) : a[i].type = "esp_status"
         /\ r.kind = "action" => a[1].id = r.id
         /\ a[1].type = "arm_result" => a[1].id = r.id /\ a[1] = ArmResult(r.id, a[1].ok)
<1> DEFINE Shape(m, id) == /\ m \in Message /\ m.id \in {None, id} /\ Addressed(m)
<1>1. /\ \A ok \in BOOLEAN : /\ Shape(EspStatus(ok), r.id)
                             /\ EspStatus(ok).type = "esp_status"
                             /\ Shape(ArmResult(r.id, ok), r.id)
                             /\ ArmResult(r.id, ok).type = "arm_result"
                             /\ ArmResult(r.id, ok).id = r.id
                             /\ ArmResult(r.id, ok).ok = ok
      /\ Shape(Failure(r.id), r.id) /\ Failure(r.id).type = "error"
      /\ Failure(r.id).id = r.id
  BY GuiBounds DEF Request, Message, Addressed, EspStatus, Failure, ArmResult, None
<1>2. r.kind \in {"action", "arm", "connect", "disconnect"} BY DEF Request
<1> HIDE DEF Shape
<1>3. ASSUME NEW m, Shape(m, r.id), a = <<m>>
      PROVE  /\ a \in Seq(Message) /\ Len(a) = 1 /\ a[1] = m
             /\ \A i \in 1..Len(a) : Addressed(a[i]) /\ a[i].id \in {None, r.id}
             /\ 2..Len(a) = {}
  BY <1>3 DEF Shape
<1>4. CASE r.kind = "disconnect"
  <2>1. a = <<EspStatus(FALSE)>> BY <1>4 DEF Answers
  <2>2. Shape(EspStatus(FALSE), r.id) /\ EspStatus(FALSE).type = "esp_status" BY <1>1
  <2>3. /\ a \in Seq(Message) /\ Len(a) = 1 /\ 2..Len(a) = {} /\ a[1].type = "esp_status"
       /\ \A i \in 1..Len(a) : Addressed(a[i]) /\ a[i].id \in {None, r.id}
    BY <1>3, <2>1, <2>2
  <2> QED BY <1>4, <2>2, <2>3
<1>5. CASE r.kind = "connect"
  <2>1. CASE a = <<EspStatus(TRUE)>>
    <3>1. Shape(EspStatus(TRUE), r.id) /\ EspStatus(TRUE).type = "esp_status" BY <1>1
    <3>2. /\ a \in Seq(Message) /\ Len(a) = 1 /\ 2..Len(a) = {} /\ a[1].type = "esp_status"
         /\ \A i \in 1..Len(a) : Addressed(a[i]) /\ a[i].id \in {None, r.id}
      BY <1>3, <2>1, <3>1
    <3> QED BY <1>5, <3>1, <3>2
  <2>2. CASE a = <<Failure(r.id), EspStatus(link)>>
    <3>1. /\ Len(a) = 2 /\ a[1] = Failure(r.id) /\ a[2] = EspStatus(link)
          /\ a \in Seq(Message)
      BY <1>1, <2>2 DEF Shape
    <3> QED BY <1>1, <1>5, <3>1 DEF Shape
  <2> QED BY <1>5, <2>1, <2>2 DEF Answers
<1>6. CASE r.kind \in {"action", "arm"}
  <2>1. PICK m \in {Failure(r.id), ArmResult(r.id, FALSE), ArmResult(r.id, TRUE)} : a = <<m>>
    BY <1>6 DEF Answers
  <2>2. Shape(m, r.id) BY <1>1
  <2>3. m.id = r.id /\ (m.type = "arm_result" => m = ArmResult(r.id, m.ok)) BY <1>1
  <2> QED BY <1>3, <2>1, <2>2, <2>3
<1> QED BY <1>2, <1>4, <1>5, <1>6

\* Answering a request changes the trail in its acknowledgements only.
LEMMA TrailAfterAnswer ==
  ASSUME GuiTypeOK, HandleRequest
  PROVE  /\ trail' \in Seq(Sent) /\ Len(trail') = Len(trail)
         /\ \A i \in 1..Len(trail) :
              /\ trail'[i].id = trail[i].id /\ trail'[i].item = trail[i].item
              /\ trail[i].acked => trail'[i].acked
              /\ responses'[1] = ArmResult(trail[i].id, TRUE) => trail'[i].acked
<1> DEFINE Acked(i) == trail[i].acked \/ responses'[1] = ArmResult(trail[i].id, TRUE)
<1>1. trail' = [i \in 1..Len(trail) |-> [trail[i] EXCEPT !.acked = Acked(i)]]
  BY DEF HandleRequest, GuiTypeOK
<1> HIDE DEF Acked
<1>2. \A i \in 1..Len(trail) : trail[i] \in Sent /\ Acked(i) \in BOOLEAN
  BY DEF GuiTypeOK, Acked
<1>3. \A i \in 1..Len(trail) :
        /\ trail'[i].id = trail[i].id /\ trail'[i].item = trail[i].item
        /\ trail'[i].acked = Acked(i) /\ trail'[i] \in Sent
  BY <1>1, <1>2 DEF Sent
<1>4. Len(trail) \in Nat BY DEF GuiTypeOK
<1>5. trail' \in Seq(Sent) /\ Len(trail') = Len(trail) BY <1>1, <1>3, <1>4
<1> QED BY <1>3, <1>5 DEF Acked

\* The head of a queue, and the rest.
LEMMA TailOfQueue ==
  ASSUME NEW S, NEW q \in Seq(S), q # <<>>
  PROVE  /\ Head(q) \in S /\ Head(q) = q[1] /\ Tail(q) \in Seq(S) /\ 1 \in 1..Len(q)
         /\ Len(Tail(q)) = Len(q) - 1
         /\ \A i \in 1..Len(Tail(q)) : Tail(q)[i] = q[i + 1] /\ i + 1 \in 1..Len(q)
OBVIOUS

\* A message is delivered as it is, dropped with the rest of a frame, or not read any more.
LEMMA DeliverTypes ==
  ASSUME GuiTypeOK, NEW m \in Message, Deliver(m)
  PROVE  /\ inbox' \in Seq(Message)
         /\ inbox' = inbox \/ inbox' = Append(inbox, m)
         /\ ~closing /\ ~cut => inbox' = Append(inbox, m)
<1>1. inbox \in Seq(Message) /\ Append(inbox, m) \in Seq(Message) BY DEF GuiTypeOK
<1>2. inbox' = inbox \/ inbox' = Append(inbox, m) BY DEF Deliver, Emit
<1>3. ~closing /\ ~cut => inbox' = Append(inbox, m) BY DEF Deliver, Emit
<1> QED BY <1>1, <1>2, <1>3

\* The backend's actions keep every variable's type.
LEMMA BackendTypes == ASSUME GuiTypeOK, Backend PROVE GuiTypeOK'
<1> USE GuiBounds DEF guiVars, runVars, sendVars, clientVars
<1>1. CASE HandleRequest
  <2>1. /\ Head(toBackend) \in Request /\ toBackend' \in Seq(Request)
        /\ responses' \in Answers(Head(toBackend))
    BY <1>1, TailOfQueue DEF HandleRequest, GuiTypeOK
  <2>2. responses' \in Seq(Message) /\ Len(responses') \in 1..2
    BY <2>1, AnswersShape DEF GuiTypeOK
  <2>3. link' \in BOOLEAN
    <3>1. responses'[Len(responses')] \in Message BY <2>2
    <3> QED BY <1>1, <3>1 DEF HandleRequest, GuiTypeOK, Message
  <2>4. trail' \in Seq(Sent) BY <1>1, TrailAfterAnswer
  <2> QED BY <1>1, <2>1, <2>2, <2>3, <2>4 DEF HandleRequest, GuiTypeOK
<1>2. CASE SendResponse
  <2>1. Head(responses) \in Message /\ responses' \in Seq(Message)
    BY <1>2, TailOfQueue DEF SendResponse, GuiTypeOK
  <2>2. inbox' \in Seq(Message)
    BY <1>2, <2>1, DeliverTypes DEF SendResponse, SendFrame, GuiTypeOK
  <2>3. cut' \in BOOLEAN BY <1>2 DEF SendResponse, SendFrame
  <2>4. faults' \in Nat BY <1>2 DEF SendResponse, SendFrame, GuiTypeOK
  <2>5. lost' \in BOOLEAN BY <1>2 DEF SendResponse, SendFrame, GuiTypeOK
  <2> QED BY <1>2, <2>1, <2>2, <2>3, <2>4, <2>5 DEF SendResponse, GuiTypeOK
<1>3. CASE Broadcast
  <2>1. EspStatus(FALSE) \in Message /\ Failure(None) \in Message
    BY DEF EspStatus, Failure, Message, None
  <2>2. inbox' \in Seq(Message) /\ link' \in BOOLEAN
    BY <1>3, <2>1, DeliverTypes DEF Broadcast, GuiTypeOK
  <2>3. faults' \in Nat BY <1>3 DEF Broadcast, GuiTypeOK
  <2>4. cut' \in BOOLEAN BY <1>3 DEF Broadcast
  <2> QED BY <1>3, <2>2, <2>3, <2>4 DEF Broadcast, GuiTypeOK
<1> QED BY <1>1, <1>2, <1>3 DEF Backend

\* Every step does.
LEMMA GuiTypeStep == ASSUME GuiTypeOK, StaleInv, [Next]_vars PROVE GuiTypeOK'
<1>1. CASE UNCHANGED vars
  BY <1>1 DEF vars, guiVars, runVars, sendVars, clientVars, backendVars, GuiTypeOK
<1> QED BY <1>1, UserTypes, MainThreadTypes, NetworkTypes, BackendTypes DEF Next

-----------------------------------------------------------------------------
(* Waiting *)

\* A row is sent, or the run stops because it cannot be.
RowSent(k, sent) ==
  /\ flag /\ running' /\ pend' = None /\ timer' = FALSE /\ seq' = seq + 1
  /\ hand'.id = seq' /\ hand'.kind = "action" /\ hand'.conn = conn
  /\ Len(trail') = Len(sent) + 1
  /\ \A i \in 1..Len(sent) : trail'[i] = sent[i]
  /\ trail'[Len(sent) + 1].id = seq' /\ trail'[Len(sent) + 1].item = list[k + 1]
RowNotSent ==
  /\ ~running' /\ pend' = None /\ timer' = FALSE /\ seq' \in {seq, seq + 1}
  /\ hand' = Nobody /\ trail' = <<>>

LEMMA SendStepCases ==
  ASSUME GuiTypeOK, StaleInv, hand = Nobody, NEW sent \in Seq(Sent),
         NEW k \in Nat, k < Len(list), SendStep(k, sent)
  PROVE  RowSent(k, sent) \/ RowNotSent
<1>1. CASE espShown /\ flag
  <2> DEFINE new == [id |-> seq + 1, item |-> list[k + 1], acked |-> FALSE]
  <2>1. /\ TestConnection("action") /\ trail' = Append(sent, new)
        /\ pend' = None /\ timer' = FALSE /\ running' = TRUE
    BY <1>1 DEF SendStep
  <2>2. /\ seq' = seq + 1
        /\ hand'.id = seq' /\ hand'.kind = "action" /\ hand'.conn = conn
    BY <1>1, <2>1, TestedRequest
  <2>3. new.id = seq + 1 /\ new.item = list[k + 1] OBVIOUS
  <2> HIDE DEF new
  <2>4. /\ Len(trail') = Len(sent) + 1 /\ \A i \in 1..Len(sent) : trail'[i] = sent[i]
        /\ trail'[Len(sent) + 1] = new
    BY <2>1
  <2> QED BY <1>1, <2>1, <2>2, <2>3, <2>4 DEF RowSent
<1>2. CASE espShown /\ ~flag
  <2>1. TestConnection("action") /\ pend' = None /\ timer' = FALSE /\ running' = FALSE
        /\ trail' = <<>>
    BY <1>2 DEF SendStep
  <2>2. seq' = seq + 1 /\ hand' = Nobody BY <1>2, <2>1, TestedRequest
  <2> QED BY <2>1, <2>2 DEF RowNotSent
<1>3. CASE ~espShown
  <2>1. UNCHANGED <<seq, hand>> BY <1>3 DEF SendStep, sendVars
  <2>2. pend' = None /\ timer' = FALSE /\ running' = FALSE /\ trail' = <<>>
    BY <1>3 DEF SendStep
  <2> QED BY <2>1, <2>2 DEF RowNotSent
<1> QED BY <1>1, <1>2, <1>3 DEF GuiTypeOK

\* A run waits for one thing after each step, if it did before.
LEMMA WaitsStep ==
  ASSUME GuiTypeOK, StaleInv, WaitsForOneThing, [Next]_vars
  PROVE  WaitsForOneThing'
<1> USE DEF WaitsForOneThing, Idle, Halt, runVars, sendVars
<1>1. CASE SendArm \/ ConnectEsp32
  <2>1. hand = Nobody /\ UNCHANGED <<running, pend, timer, closing>>
    BY <1>1 DEF SendArm, ConnectEsp32
  <2>2. hand'.kind # "action"
    BY <1>1, TestedRequest DEF SendArm, ConnectEsp32, Nobody
  <2> QED BY <2>1, <2>2 DEF Nobody
<1>2. CASE DisconnectEsp32
  <2>1. hand'.kind # "action" BY <1>2, TestedRequest DEF DisconnectEsp32, Nobody
  <2>2. running' = FALSE /\ pend' = None /\ timer' = FALSE BY <1>2 DEF DisconnectEsp32
  <2> QED BY <2>1, <2>2
<1>3. CASE ExecuteAction
  <2>1. hand = Nobody /\ SendStep(0, <<>>) /\ 0 < Len(list)
    BY <1>3 DEF ExecuteAction, GuiTypeOK
  <2>2. RowSent(0, <<>>) \/ RowNotSent BY <2>1, SendStepCases, EmptyTyped
  <2> QED BY <2>2 DEF RowSent, RowNotSent, Nobody
<1>4. CASE TimerFires
  <2>0. hand = Nobody /\ timer /\ UNCHANGED closing BY <1>4 DEF TimerFires
  <2>1. CASE ~running \/ pend # None
    BY <1>4, <2>0, <2>1 DEF TimerFires, Nobody
  <2>2. CASE running /\ pend = None /\ step >= Len(list)
    <3>1. running' = FALSE /\ timer' = FALSE /\ UNCHANGED <<pend, hand>>
      BY <1>4, <2>2 DEF TimerFires, GuiTypeOK
    <3> QED BY <2>0, <2>2, <3>1 DEF Nobody
  <2>3. CASE running /\ pend = None /\ step < Len(list)
    <3>1. SendStep(step, trail) BY <1>4, <2>3 DEF TimerFires, GuiTypeOK
    <3>2. step \in Nat /\ trail \in Seq(Sent) BY DEF GuiTypeOK
    <3>3. RowSent(step, trail) \/ RowNotSent
      BY <2>0, <2>3, <3>1, <3>2, SendStepCases
    <3> QED BY <3>3 DEF RowSent, RowNotSent, Nobody
  <2> QED BY <2>1, <2>2, <2>3 DEF GuiTypeOK
<1>5. CASE StopAction BY <1>5 DEF StopAction, Nobody
<1>6. CASE CloseWindow BY <1>6 DEF CloseWindow
<1>7. CASE Put
  <2>1. hand \in Request BY <1>7 DEF Put, GuiTypeOK
  <2>2. hand.id # None BY <2>1 DEF Request, None
  <2> QED BY <1>7, <2>2 DEF Put, Nobody
<1>8. CASE HandleSignal
  <2>0. hand = Nobody /\ UNCHANGED <<hand, closing>> BY <1>8 DEF HandleSignal
  <2>1. CASE Halt BY <2>0, <2>1 DEF Nobody
  <2>2. CASE UNCHANGED runVars BY <2>0, <2>2
  <2>3. CASE OnArmResult BY <2>0, <2>3, <2>1 DEF OnArmResult, Nobody
  <2> QED BY <1>8, <2>1, <2>2, <2>3 DEF HandleSignal, OnDisconnected, OnEspStatus, OnError
<1>9. CASE UNCHANGED <<running, pend, timer, hand, closing>> BY <1>9
<1> QED
  <2> USE DEF guiVars, clientVars, backendVars
  <2>1. CASE User
    <3>1. ASSUME NEW p \in Positions, AddStep(p) PROVE WaitsForOneThing'
      BY <1>9, <3>1 DEF AddStep
    <3>2. ASSUME NEW i \in 1..Len(list), RemoveStep(i) PROVE WaitsForOneThing'
      BY <1>9, <3>2 DEF RemoveStep
    <3>3. CASE ClearSteps BY <1>9, <3>3 DEF ClearSteps
    <3> QED BY <1>1, <1>2, <1>3, <1>5, <1>6, <2>1, <3>1, <3>2, <3>3 DEF User
  <2>2. CASE MainThread BY <1>4, <1>7, <1>8, <2>2 DEF MainThread
  <2>3. CASE Network
    BY <1>9, <2>3 DEF Network, Connect, ConnectFails, FlushOutbox, MarkDisconnected,
                      DiscardPendingMessages, EndThread
  <2>4. CASE Backend
    BY <1>9, <2>4 DEF Backend, HandleRequest, SendResponse, Broadcast
  <2>5. CASE UNCHANGED vars BY <1>9, <2>5 DEF vars
  <2> QED BY <2>1, <2>2, <2>3, <2>4, <2>5 DEF Next

-----------------------------------------------------------------------------
(* Where the content of the queues comes from *)

\* All of the user's actions, and the timer, leave what is under way alone.
LEMMA UserLeaves ==
  ASSUME User \/ TimerFires
  PROVE  UNCHANGED <<outbox, net, flag, conn, toBackend, cut, responses, link, lost>>
<1> USE DEF clientVars, backendVars
<1>1. ASSUME NEW p \in Positions, AddStep(p)
      PROVE  UNCHANGED <<outbox, net, flag, conn, toBackend, cut, responses, link, lost>>
  BY <1>1 DEF AddStep
<1>2. ASSUME NEW i \in 1..Len(list), RemoveStep(i)
      PROVE  UNCHANGED <<outbox, net, flag, conn, toBackend, cut, responses, link, lost>>
  BY <1>2 DEF RemoveStep
<1> QED BY <1>1, <1>2 DEF User, SendArm, ConnectEsp32, DisconnectEsp32, ClearSteps,
          ExecuteAction, StopAction, CloseWindow, TimerFires

\* A message in the outbox was there, or is the one being sent.
LEMMA OutboxStep ==
  ASSUME GuiTypeOK, [Next]_vars, NEW i \in 1..Len(outbox')
  PROVE  \/ \E j \in 1..Len(outbox) : outbox'[i] = outbox[j]
         \/ outbox'[i] = hand /\ hand \in Request
<1> USE DEF guiVars, clientVars, backendVars
<1>1. CASE UNCHANGED outbox BY <1>1
<1>2. CASE Put
  <2>1. hand \in Request /\ outbox' = Append(outbox, hand) BY <1>2 DEF Put, GuiTypeOK
  <2>2. outbox \in Seq(Request) BY DEF GuiTypeOK
  <2>3. Len(outbox') = Len(outbox) + 1 /\ Len(outbox) \in Nat BY <2>1, <2>2
  <2>4. CASE i = Len(outbox) + 1 BY <2>1, <2>2, <2>4
  <2>5. CASE i \in 1..Len(outbox) BY <2>1, <2>2, <2>5
  <2> QED BY <2>3, <2>4, <2>5
<1>3. CASE FlushOutbox
  <2>1. outbox # <<>> /\ outbox' = Tail(outbox) BY <1>3 DEF FlushOutbox
  <2> QED BY <2>1, TailOfQueue DEF GuiTypeOK
<1>4. CASE ConnectFails \/ DiscardPendingMessages
  BY <1>4 DEF ConnectFails, DiscardPendingMessages
<1>5. CASE HandleSignal BY <1>1, <1>5 DEF HandleSignal
<1>6. CASE Backend
  BY <1>1, <1>6 DEF Backend, HandleRequest, SendResponse, Broadcast
<1> QED BY <1>1, <1>2, <1>3, <1>4, <1>5, <1>6, UserLeaves
        DEF Next, MainThread, Network, Connect, MarkDisconnected, EndThread, vars

\* A request at the backend was there, or was in the outbox.
LEMMA ToBackendStep ==
  ASSUME GuiTypeOK, [Next]_vars, NEW i \in 1..Len(toBackend')
  PROVE  \/ \E j \in 1..Len(toBackend) : toBackend'[i] = toBackend[j]
         \/ \E j \in 1..Len(outbox) : toBackend'[i] = outbox[j]
<1> USE DEF guiVars, clientVars, backendVars
<1>1. CASE UNCHANGED toBackend BY <1>1
<1>2. CASE FlushOutbox
  <2>1. outbox # <<>> /\ toBackend' = Append(toBackend, Head(outbox))
    BY <1>2 DEF FlushOutbox
  <2>2. Head(outbox) = outbox[1] /\ 1 \in 1..Len(outbox) /\ Head(outbox) \in Request
    BY <2>1, TailOfQueue DEF GuiTypeOK
  <2>3. toBackend \in Seq(Request) BY DEF GuiTypeOK
  <2>4. Len(toBackend') = Len(toBackend) + 1 /\ Len(toBackend) \in Nat BY <2>1, <2>2, <2>3
  <2>5. CASE i = Len(toBackend) + 1
    <3>1. toBackend'[i] = Head(outbox) BY <2>1, <2>2, <2>3, <2>5
    <3> QED BY <2>2, <3>1
  <2>6. CASE i \in 1..Len(toBackend)
    <3>1. toBackend'[i] = toBackend[i] BY <2>1, <2>2, <2>3, <2>6
    <3> QED BY <2>6, <3>1
  <2> QED BY <2>4, <2>5, <2>6
<1>3. CASE HandleRequest
  <2>1. toBackend # <<>> /\ toBackend' = Tail(toBackend) BY <1>3 DEF HandleRequest
  <2> QED BY <2>1, TailOfQueue DEF GuiTypeOK
<1>4. CASE Connect \/ MarkDisconnected BY <1>4 DEF Connect, MarkDisconnected
<1>5. CASE MainThread BY <1>1, <1>5, UserLeaves DEF MainThread, Put, HandleSignal
<1> QED BY <1>1, <1>2, <1>3, <1>4, <1>5, UserLeaves
        DEF Next, Network, ConnectFails, DiscardPendingMessages, EndThread, Backend,
            SendResponse, Broadcast, vars

\* A response was there, greets the session, or answers the first request.
LEMMA ResponsesStep ==
  ASSUME GuiTypeOK, [Next]_vars, NEW i \in 1..Len(responses')
  PROVE  \/ \E j \in 1..Len(responses) : responses'[i] = responses[j]
         \/ responses'[i] = EspStatus(link)
         \/ /\ HandleRequest /\ toBackend # <<>> /\ toBackend[1] \in Request
            /\ responses' \in Answers(toBackend[1])
<1> USE DEF guiVars, clientVars, backendVars
<1>1. CASE UNCHANGED responses BY <1>1
<1>2. CASE Connect
  <2>1. responses' = <<EspStatus(link)>> BY <1>2 DEF Connect
  <2> QED BY <2>1
<1>3. CASE HandleRequest
  <2>1. toBackend # <<>> /\ responses' \in Answers(Head(toBackend))
    BY <1>3 DEF HandleRequest
  <2> QED BY <1>3, <2>1, TailOfQueue DEF GuiTypeOK
<1>4. CASE SendResponse
  <2>1. responses # <<>> /\ responses' = Tail(responses) BY <1>4 DEF SendResponse
  <2> QED BY <2>1, TailOfQueue DEF GuiTypeOK
<1>5. CASE MarkDisconnected BY <1>5 DEF MarkDisconnected
<1>6. CASE MainThread BY <1>1, <1>6, UserLeaves DEF MainThread, Put, HandleSignal
<1> QED BY <1>1, <1>2, <1>3, <1>4, <1>5, <1>6, UserLeaves
        DEF Next, Network, ConnectFails, FlushOutbox, DiscardPendingMessages, EndThread,
            Backend, Broadcast, vars

\* A message for the main thread was there, or is a response, or without identifier.
LEMMA InboxStep ==
  ASSUME GuiTypeOK, [Next]_vars, NEW i \in 1..Len(inbox')
  PROVE  \/ \E j \in 1..Len(inbox) : inbox'[i] = inbox[j]
         \/ \E j \in 1..Len(responses) : inbox'[i] = responses[j]
         \/ inbox'[i] \in {Disconnected, EspStatus(FALSE), Failure(None)}
<1> USE DEF guiVars, clientVars, backendVars
<1>0. /\ Disconnected \in Message /\ EspStatus(FALSE) \in Message
      /\ Failure(None) \in Message
  BY GuiBounds DEF Disconnected, EspStatus, Failure, Message, None
<1>1. CASE UNCHANGED inbox BY <1>1
<1>2. ASSUME NEW m \in Message, inbox' = inbox \/ inbox' = Append(inbox, m)
      PROVE  inbox'[i] = m \/ \E j \in 1..Len(inbox) : inbox'[i] = inbox[j]
  <2>1. inbox \in Seq(Message) BY DEF GuiTypeOK
  <2>2. CASE inbox' = inbox BY <2>2
  <2>3. CASE inbox' = Append(inbox, m)
    <3>1. Len(inbox') = Len(inbox) + 1 /\ inbox'[Len(inbox) + 1] = m
          /\ \A j \in 1..Len(inbox) : inbox'[j] = inbox[j]
      BY <2>1, <2>3
    <3> QED BY <2>1, <3>1
  <2> QED BY <1>2, <2>2, <2>3
<1>3. CASE MarkDisconnected
  <2>1. inbox' = inbox \/ inbox' = Append(inbox, Disconnected)
    BY <1>3 DEF MarkDisconnected, Emit
  <2> QED BY <1>0, <1>2, <2>1
<1>4. CASE SendResponse
  <2>1. /\ Head(responses) \in Message /\ Head(responses) = responses[1]
        /\ 1 \in 1..Len(responses)
    BY <1>4, TailOfQueue DEF SendResponse, GuiTypeOK
  <2>2. inbox' = inbox \/ inbox' = Append(inbox, Head(responses))
    BY <1>4, <2>1, DeliverTypes DEF SendResponse, SendFrame
  <2> QED BY <1>2, <2>1, <2>2
<1>5. CASE Broadcast
  <2>1. \/ inbox' = inbox \/ inbox' = Append(inbox, EspStatus(FALSE))
        \/ inbox' = Append(inbox, Failure(None))
    BY <1>0, <1>5, DeliverTypes DEF Broadcast
  <2> QED BY <1>0, <1>2, <2>1
<1>6. CASE HandleSignal
  <2>1. inbox # <<>> /\ inbox' = Tail(inbox)
    BY <1>6 DEF HandleSignal, Signal, OnDisconnected, OnEspStatus, OnError, OnArmResult
  <2>2. inbox \in Seq(Message) BY DEF GuiTypeOK
  <2>3. \A j \in 1..Len(Tail(inbox)) :
          j + 1 \in 1..Len(inbox) /\ Tail(inbox)[j] = inbox[j + 1]
    BY <2>1, <2>2
  <2> QED BY <2>1, <2>3
<1>7. CASE User
  <2>1. CASE CloseWindow BY <2>1 DEF CloseWindow
  <2>2. ASSUME NEW p \in Positions, AddStep(p) PROVE UNCHANGED inbox
    BY <2>2 DEF AddStep
  <2>3. ASSUME NEW k \in 1..Len(list), RemoveStep(k) PROVE UNCHANGED inbox
    BY <2>3 DEF RemoveStep
  <2> QED BY <1>1, <1>7, <2>1, <2>2, <2>3 DEF User, SendArm, ConnectEsp32,
          DisconnectEsp32, ClearSteps, ExecuteAction, StopAction
<1> QED BY <1>1, <1>3, <1>4, <1>5, <1>6, <1>7
        DEF Next, MainThread, Put, TimerFires, Network, Connect, ConnectFails, FlushOutbox,
            DiscardPendingMessages, EndThread, Backend, HandleRequest, vars

\* A run's request is one of before, whose acknowledgement stays, or has a new identifier
\* and follows the others.
LEMMA TrailStep ==
  ASSUME GuiTypeOK, StaleInv, [Next]_vars, NEW i \in 1..Len(trail')
  PROVE  \/ /\ i \in 1..Len(trail) /\ trail'[i].id = trail[i].id
            /\ trail[i].acked => trail'[i].acked
         \/ trail'[i].id = seq + 1 /\ seq' = seq + 1
<1> USE DEF guiVars, clientVars, backendVars, Halt, runVars
<1>1. CASE UNCHANGED trail BY <1>1
<1>2. CASE trail' = <<>> BY <1>2
<1>3. CASE HandleRequest BY <1>3, TrailAfterAnswer
<1>4. CASE ExecuteAction
  <2>1. hand = Nobody /\ SendStep(0, <<>>) /\ 0 < Len(list)
    BY <1>4 DEF ExecuteAction, GuiTypeOK, Idle
  <2>2. RowSent(0, <<>>) \/ RowNotSent BY <2>1, SendStepCases, EmptyTyped
  <2> QED BY <2>2 DEF RowSent, RowNotSent
<1>5. CASE TimerFires
  <2>0. hand = Nobody BY <1>5 DEF TimerFires, Idle
  <2>1. CASE ~running \/ pend # None BY <1>1, <1>5, <2>1 DEF TimerFires
  <2>2. CASE running /\ pend = None /\ step >= Len(list)
    BY <1>2, <1>5, <2>2 DEF TimerFires, GuiTypeOK
  <2>3. CASE running /\ pend = None /\ step < Len(list)
    <3>1. SendStep(step, trail) BY <1>5, <2>3 DEF TimerFires, GuiTypeOK
    <3>2. step \in Nat /\ trail \in Seq(Sent) BY DEF GuiTypeOK
    <3>3. RowSent(step, trail) \/ RowNotSent BY <2>0, <2>3, <3>1, <3>2, SendStepCases
    <3>4. CASE RowNotSent BY <1>2, <3>4 DEF RowNotSent
    <3>5. CASE RowSent(step, trail)
      <4>1. i \in 1..Len(trail) \/ i = Len(trail) + 1 BY <3>2, <3>5 DEF RowSent
      <4> QED BY <3>5, <4>1 DEF RowSent
    <3> QED BY <3>3, <3>4, <3>5
  <2> QED BY <2>1, <2>2, <2>3 DEF GuiTypeOK
<1>6. CASE HandleSignal
  BY <1>1, <1>2, <1>6 DEF HandleSignal, OnDisconnected, OnEspStatus, OnError, OnArmResult
<1>7. CASE User
  <2>1. CASE StopAction \/ DisconnectEsp32
    BY <1>2, <2>1 DEF StopAction, DisconnectEsp32
  <2>2. ASSUME NEW p \in Positions, AddStep(p) PROVE UNCHANGED trail
    BY <2>2 DEF AddStep
  <2>3. ASSUME NEW k \in 1..Len(list), RemoveStep(k) PROVE UNCHANGED trail
    BY <2>3 DEF RemoveStep
  <2> QED BY <1>1, <1>4, <1>7, <2>1, <2>2, <2>3 DEF User, SendArm, ConnectEsp32,
          ClearSteps, CloseWindow
<1> QED BY <1>1, <1>3, <1>5, <1>6, <1>7
        DEF Next, MainThread, Put, Network, Connect, ConnectFails, FlushOutbox,
            MarkDisconnected, DiscardPendingMessages, EndThread, Backend, SendResponse,
            Broadcast, vars

\* The counter of requests only grows, and a request in hand has its value or an older one.
LEMMA HandStep ==
  ASSUME GuiTypeOK, StaleInv, [Next]_vars
  PROVE  /\ seq' \in {seq, seq + 1}
         /\ \/ hand' = hand \/ hand' = Nobody
            \/ hand = Nobody /\ hand'.id = seq' /\ hand'.conn = conn /\ flag
<1> USE DEF guiVars, sendVars, Idle, clientVars, backendVars
<1>1. CASE UNCHANGED <<seq, hand>> BY <1>1
<1>2. ASSUME NEW kind \in {"action", "arm", "connect", "disconnect"}, hand = Nobody,
             TestConnection(kind)
      PROVE  /\ seq' = seq + 1
             /\ hand' = Nobody \/ (hand'.id = seq' /\ hand'.conn = conn /\ flag)
  BY <1>2, TestedRequest
<1>3. CASE SendArm BY <1>2, <1>3 DEF SendArm
<1>4. CASE ConnectEsp32 BY <1>2, <1>4 DEF ConnectEsp32
<1>5. CASE DisconnectEsp32 BY <1>2, <1>5 DEF DisconnectEsp32
<1>6. CASE ExecuteAction
  <2>1. hand = Nobody /\ SendStep(0, <<>>) BY <1>6 DEF ExecuteAction
  <2> QED BY <1>1, <1>2, <2>1 DEF SendStep
<1>7. CASE TimerFires
  <2>1. hand = Nobody /\ (UNCHANGED sendVars \/ SendStep(step, trail))
    BY <1>7 DEF TimerFires
  <2> QED BY <1>1, <1>2, <2>1 DEF SendStep
<1>8. CASE Put BY <1>8 DEF Put
<1>9. CASE User
  <2>1. ASSUME NEW p \in Positions, AddStep(p) PROVE UNCHANGED <<seq, hand>>
    BY <2>1 DEF AddStep
  <2>2. ASSUME NEW k \in 1..Len(list), RemoveStep(k) PROVE UNCHANGED <<seq, hand>>
    BY <2>2 DEF RemoveStep
  <2> QED BY <1>1, <1>3, <1>4, <1>5, <1>6, <1>9, <2>1, <2>2
          DEF User, ClearSteps, StopAction, CloseWindow
<1> QED BY <1>1, <1>7, <1>8, <1>9
        DEF Next, MainThread, HandleSignal, Network, Connect, ConnectFails, FlushOutbox,
            MarkDisconnected, DiscardPendingMessages, EndThread, Backend, HandleRequest,
            SendResponse, Broadcast, vars

\* The elements of the queues after a step.
LEMMA ElementsTyped ==
  ASSUME GuiTypeOK'
  PROVE  /\ \A i \in 1..Len(outbox') : outbox'[i] \in Request
         /\ \A i \in 1..Len(toBackend') : toBackend'[i] \in Request
         /\ \A i \in 1..Len(responses') : responses'[i] \in Message
         /\ \A i \in 1..Len(inbox') : inbox'[i] \in Message
         /\ \A i \in 1..Len(trail') : trail'[i] \in Sent
<1>1. ASSUME NEW S, NEW q \in Seq(S) PROVE \A i \in 1..Len(q) : q[i] \in S OBVIOUS
<1>2. /\ outbox' \in Seq(Request) /\ toBackend' \in Seq(Request)
      /\ responses' \in Seq(Message) /\ inbox' \in Seq(Message) /\ trail' \in Seq(Sent)
  BY DEF GuiTypeOK
<1> QED BY <1>1, <1>2

\* No identifier is used before it is given out.
LEMMA IdentifiersStep ==
  ASSUME GuiTypeOK, GuiTypeOK', StaleInv, IdentifiersInv, [Next]_vars
  PROVE  IdentifiersInv'
<1> USE DEF IdentifiersInv
<1>0. seq' \in {seq, seq + 1} /\ seq \in Nat /\ seq' \in Nat
  BY GuiBounds, HandStep DEF GuiTypeOK
<1>1. hand'.id <= seq'
  <2>1. Nobody.id = 0 BY DEF Nobody, None
  <2>2. hand \in Request \cup {Nobody} BY DEF GuiTypeOK
  <2>3. hand.id \in Nat BY <2>1, <2>2, GuiBounds DEF Request
  <2> QED BY <1>0, <2>1, <2>3, HandStep
<1>2. \A i \in 1..Len(outbox') : outbox'[i].id <= seq'
  <2> TAKE i \in 1..Len(outbox')
  <2>1. outbox'[i].id \in Nat
    <3>1. outbox'[i] \in Request BY ElementsTyped
    <3> QED BY <3>1, GuiBounds DEF Request
  <2>2. outbox'[i].id <= seq BY OutboxStep
  <2> QED BY <1>0, <2>1, <2>2
<1>3. \A i \in 1..Len(toBackend') : toBackend'[i].id <= seq'
  <2> TAKE i \in 1..Len(toBackend')
  <2>1. toBackend'[i].id \in Nat
    <3>1. toBackend'[i] \in Request BY ElementsTyped
    <3> QED BY <3>1, GuiBounds DEF Request
  <2>2. toBackend'[i].id <= seq BY ToBackendStep
  <2> QED BY <1>0, <2>1, <2>2
<1>4. \A i \in 1..Len(responses') : responses'[i].id <= seq'
  <2> TAKE i \in 1..Len(responses')
  <2>1. responses'[i].id \in Nat
    <3>1. responses'[i] \in Message BY ElementsTyped
    <3> QED BY <3>1, GuiBounds DEF Message
  <2>2. responses'[i].id <= seq
    <3>1. CASE \E j \in 1..Len(responses) : responses'[i] = responses[j] BY <3>1
    <3>2. CASE responses'[i] = EspStatus(link) BY <1>0, <3>2 DEF EspStatus, None
    <3>3. CASE /\ HandleRequest /\ toBackend # <<>> /\ toBackend[1] \in Request
               /\ responses' \in Answers(toBackend[1])
      <4>1. responses'[i].id \in {None, toBackend[1].id}
        BY <3>3, AnswersShape DEF GuiTypeOK
      <4>2. toBackend[1].id <= seq BY <3>3, TailOfQueue DEF GuiTypeOK
      <4> QED BY <1>0, <4>1, <4>2 DEF None
    <3> QED BY <3>1, <3>2, <3>3, ResponsesStep
  <2> QED BY <1>0, <2>1, <2>2
<1>5. \A i \in 1..Len(inbox') : inbox'[i].id <= seq'
  <2> TAKE i \in 1..Len(inbox')
  <2>1. inbox'[i].id \in Nat
    <3>1. inbox'[i] \in Message BY ElementsTyped
    <3> QED BY <3>1, GuiBounds DEF Message
  <2>2. inbox'[i].id <= seq
    BY <1>0, InboxStep DEF Disconnected, EspStatus, Failure, None
  <2> QED BY <1>0, <2>1, <2>2
<1>6. \A i \in 1..Len(trail') : trail'[i].id <= seq'
  <2> TAKE i \in 1..Len(trail')
  <2>1. trail'[i].id \in Nat
    <3>1. trail'[i] \in Sent BY ElementsTyped
    <3> QED BY <3>1, GuiBounds DEF Sent
  <2> QED BY <1>0, <2>1, TrailStep
<1> QED BY <1>1, <1>2, <1>3, <1>4, <1>5, <1>6

-----------------------------------------------------------------------------
(* The run *)

\* What a step may do to the run: nothing, or one of these.
RunUnchanged ==
  UNCHANGED <<running, step, pend, timer, trail, edited, hand, list, closing>>
Requested ==
  /\ hand = Nobody /\ hand'.kind # "action"
  /\ UNCHANGED <<running, step, pend, timer, trail, edited, list, closing>>
Halted == hand = Nobody /\ hand'.kind # "action" /\ Halt /\ UNCHANGED <<list, closing>>
ListEdited ==
  /\ UNCHANGED <<running, step, pend, timer, trail, hand, closing>>
  /\ \/ list' = <<>> /\ edited' = running
     \/ \E p \in Positions : list' = Append(list, p) /\ edited' = edited
     \/ \E i \in 1..Len(list) :
          /\ list' = SubSeq(list, 1, i - 1) \o SubSeq(list, i + 1, Len(list))
          /\ edited' = (edited \/ i <= Len(trail))
ResultTaken ==
  /\ hand = Nobody /\ UNCHANGED <<running, trail, edited, hand, list, closing>>
  /\ inbox # <<>> /\ inbox[1].type = "arm_result" /\ inbox[1].id = pend /\ pend' = None
  /\ \/ ~running /\ UNCHANGED <<step, timer>>
     \/ running /\ inbox[1].ok /\ step' = step + 1 /\ timer' = TRUE
Answered ==
  UNCHANGED <<running, step, pend, timer, edited, hand, list, closing>> /\ HandleRequest

\* The signals' part of it.
LEMMA SignalKinds ==
  ASSUME GuiTypeOK, HandleSignal PROVE RunUnchanged \/ Halted \/ ResultTaken
<1>1. /\ hand = Nobody /\ UNCHANGED <<hand, list, closing>>
      /\ inbox # <<>> /\ Head(inbox) = inbox[1]
  BY TailOfQueue DEF HandleSignal, Idle, sendVars, Signal, OnDisconnected, OnEspStatus,
        OnError, OnArmResult, GuiTypeOK
<1>2. CASE Halt BY <1>1, <1>2 DEF Halted, Nobody
<1>3. CASE UNCHANGED runVars BY <1>1, <1>3 DEF RunUnchanged, runVars
<1>4. CASE OnArmResult /\ ~Halt /\ ~UNCHANGED runVars
  <2>1. inbox[1].type = "arm_result" BY <1>1, <1>4 DEF OnArmResult, Signal
  <2>2. inbox[1].id = pend /\ pend' = None /\ UNCHANGED <<running, trail, edited>>
    BY <1>1, <1>4 DEF OnArmResult
  <2>3. \/ ~running /\ UNCHANGED <<step, timer>>
        \/ running /\ inbox[1].ok /\ step' = step + 1 /\ timer' = TRUE
    BY <1>1, <1>4 DEF OnArmResult
  <2> QED BY <1>1, <2>1, <2>2, <2>3 DEF ResultTaken
<1> QED BY <1>2, <1>3, <1>4 DEF HandleSignal, OnDisconnected, OnEspStatus, OnError

\* The user's part.
LEMMA UserKinds ==
  ASSUME GuiTypeOK, StaleInv, User
  PROVE  \/ RunUnchanged \/ Requested \/ Halted \/ ListEdited \/ CloseWindow
         \/ ExecuteAction
<1> USE DEF Idle, guiVars, runVars, sendVars
<1>1. CASE SendArm
  <2>1. hand'.kind # "action" BY <1>1, TestedRequest DEF SendArm, Nobody
  <2> QED BY <1>1, <2>1 DEF SendArm, Requested
<1>2. CASE ConnectEsp32
  <2>1. hand'.kind # "action" BY <1>2, TestedRequest DEF ConnectEsp32, Nobody
  <2> QED BY <1>2, <2>1 DEF ConnectEsp32, Requested
<1>3. CASE DisconnectEsp32
  <2>1. hand'.kind # "action" BY <1>3, TestedRequest DEF DisconnectEsp32, Nobody
  <2> QED BY <1>3, <2>1 DEF DisconnectEsp32, Halted
<1>4. CASE StopAction
  <2>1. hand'.kind # "action" BY <1>4 DEF StopAction, Nobody
  <2> QED BY <1>4, <2>1 DEF StopAction, Halted
<1>5. ASSUME NEW p \in Positions, AddStep(p) PROVE ListEdited
  BY <1>5 DEF AddStep, ListEdited
<1>6. ASSUME NEW i \in 1..Len(list), RemoveStep(i) PROVE ListEdited
  BY <1>6 DEF RemoveStep, ListEdited
<1>7. CASE ClearSteps BY <1>7 DEF ClearSteps, ListEdited
<1> QED BY <1>1, <1>2, <1>3, <1>4, <1>5, <1>6, <1>7 DEF User

\* And that of the other threads.
LEMMA StepKinds ==
  ASSUME GuiTypeOK, StaleInv, [Next]_vars
  PROVE  \/ RunUnchanged \/ Requested \/ Halted \/ ListEdited \/ CloseWindow
         \/ ExecuteAction \/ TimerFires \/ Put \/ ResultTaken \/ Answered
<1> USE DEF guiVars, runVars, sendVars
<1>1. CASE HandleRequest BY <1>1 DEF HandleRequest, Answered
<1>2. CASE SendResponse \/ Broadcast BY <1>2 DEF SendResponse, Broadcast, RunUnchanged
<1>3. CASE Network
  BY <1>3 DEF Network, Connect, ConnectFails, FlushOutbox, MarkDisconnected,
              DiscardPendingMessages, EndThread, RunUnchanged
<1>4. CASE UNCHANGED vars BY <1>4 DEF vars, RunUnchanged
<1> QED BY <1>1, <1>2, <1>3, <1>4, UserKinds, SignalKinds DEF Next, MainThread, Backend

\* What the start of a run and its timer do to it.
LEMMA Started ==
  ASSUME GuiTypeOK, StaleInv, ExecuteAction
  PROVE  /\ hand = Nobody /\ step' = 0 /\ edited' = FALSE /\ UNCHANGED <<list, closing>>
         /\ ~running /\ 0 < Len(list)
         /\ RowSent(0, <<>>) \/ RowNotSent
<1>1. /\ hand = Nobody /\ SendStep(0, <<>>) /\ 0 < Len(list) /\ ~running
      /\ step' = 0 /\ edited' = FALSE /\ UNCHANGED <<list, closing>>
  BY DEF ExecuteAction, Idle, GuiTypeOK
<1> QED BY <1>1, SendStepCases, EmptyTyped

IdleTimer == /\ ~running \/ pend # None
             /\ timer' = FALSE /\ UNCHANGED <<running, pend, trail, hand>>
RunComplete ==
  /\ running /\ pend = None /\ step >= Len(list)
  /\ running' = FALSE /\ timer' = FALSE /\ trail' = <<>> /\ UNCHANGED <<pend, hand>>
RowTurn == /\ running /\ pend = None /\ step < Len(list)
           /\ RowSent(step, trail) \/ RowNotSent

LEMMA TimerKinds ==
  ASSUME GuiTypeOK, StaleInv, TimerFires
  PROVE  /\ hand = Nobody /\ timer /\ UNCHANGED <<list, step, closing>>
         /\ edited' = (edited /\ running')
         /\ IdleTimer \/ RunComplete \/ RowTurn
<1>0. /\ hand = Nobody /\ timer /\ UNCHANGED <<list, step, closing>>
      /\ edited' = (edited /\ running')
  BY DEF TimerFires, Idle
<1>1. CASE ~running \/ pend # None BY <1>0, <1>1 DEF TimerFires, IdleTimer, sendVars
<1>2. CASE running /\ pend = None /\ step >= Len(list)
  BY <1>0, <1>2 DEF TimerFires, RunComplete, sendVars, GuiTypeOK
<1>3. CASE running /\ pend = None /\ step < Len(list)
  <2>1. SendStep(step, trail) BY <1>3 DEF TimerFires, GuiTypeOK
  <2>2. step \in Nat /\ trail \in Seq(Sent) BY DEF GuiTypeOK
  <2>3. RowSent(step, trail) \/ RowNotSent BY <1>0, <1>3, <2>1, <2>2, SendStepCases
  <2> QED BY <1>0, <1>3, <2>3 DEF RowTurn
<1> QED BY <1>0, <1>1, <1>2, <1>3 DEF GuiTypeOK

\* The request that is waited for stays the last of the run.
LEMMA TrailInvStep ==
  ASSUME GuiTypeOK, GuiTypeOK', StaleInv, WaitsForOneThing, TrailInv, [Next]_vars
  PROVE  TrailInv'
<1> USE DEF TrailInv
<1>0. Nobody.kind # "action" /\ Len(trail) \in Nat BY DEF Nobody, GuiTypeOK
<1>1. CASE RunUnchanged BY <1>1 DEF RunUnchanged
<1>2. CASE Requested BY <1>2 DEF Requested
<1>3. CASE Halted BY <1>3 DEF Halted, Halt
<1>4. CASE ListEdited BY <1>4 DEF ListEdited
<1>5. CASE CloseWindow BY <1>5 DEF CloseWindow, sendVars
<1>6. ASSUME NEW k, NEW sent \in Seq(Sent), RowSent(k, sent) PROVE TrailInv'
  <2>1. Len(trail') = Len(sent) + 1 /\ trail'[Len(sent) + 1].id = hand'.id /\ pend' = None
    BY <1>6 DEF RowSent
  <2>2. trail' # <<>> BY <2>1
  <2> QED BY <2>1, <2>2
<1>7. CASE RowNotSent BY <1>0, <1>7 DEF RowNotSent
<1>8. CASE ExecuteAction BY <1>6, <1>7, <1>8, Started, EmptyTyped
<1>9. CASE TimerFires
  <2>1. CASE IdleTimer BY <2>1 DEF IdleTimer
  <2>2. CASE RunComplete BY <1>0, <1>9, <2>2, TimerKinds DEF RunComplete
  <2>3. CASE RowTurn
    <3>1. trail \in Seq(Sent) BY DEF GuiTypeOK
    <3> QED BY <1>6, <1>7, <2>3, <3>1 DEF RowTurn
  <2> QED BY <1>9, <2>1, <2>2, <2>3, TimerKinds
<1>10. CASE Put BY <1>0, <1>10 DEF Put
<1>11. CASE ResultTaken BY <1>11 DEF ResultTaken
<1>12. CASE Answered
  <2>1. /\ Len(trail') = Len(trail)
        /\ \A i \in 1..Len(trail) : trail'[i].id = trail[i].id
        /\ UNCHANGED <<hand, pend>>
    BY <1>12, TrailAfterAnswer DEF Answered
  <2>2. trail # <<>> => Len(trail) \in 1..Len(trail) BY DEF GuiTypeOK
  <2>3. trail # <<>> => trail' # <<>> BY <2>1, <2>2, GuiTypeOK' DEF GuiTypeOK
  <2> QED BY <2>1, <2>2, <2>3
<1> QED BY <1>1, <1>2, <1>3, <1>4, <1>5, <1>8, <1>9, <1>10, <1>11, <1>12, StepKinds

\* Messages keep the shape of their type.
LEMMA MessagesStep ==
  ASSUME GuiTypeOK, MessagesInv, [Next]_vars PROVE MessagesInv'
<1> USE DEF MessagesInv
<1>0. /\ Addressed(Disconnected) /\ Addressed(EspStatus(FALSE)) /\ Addressed(EspStatus(link))
      /\ Addressed(Failure(None))
  BY DEF Addressed, Disconnected, EspStatus, Failure
<1>1. ASSUME NEW i \in 1..Len(responses') PROVE Addressed(responses'[i])
  <2>1. CASE /\ HandleRequest /\ toBackend # <<>> /\ toBackend[1] \in Request
             /\ responses' \in Answers(toBackend[1])
    BY <2>1, AnswersShape DEF GuiTypeOK
  <2> QED BY <1>0, <2>1, ResponsesStep
<1>2. ASSUME NEW i \in 1..Len(inbox') PROVE Addressed(inbox'[i])
  BY <1>0, InboxStep
<1> QED BY <1>1, <1>2

\* A good result on its way is of an acknowledged request.
AcknowledgesLater(m) ==
  m.type = "arm_result" /\ m.ok =>
    \A i \in 1..Len(trail') : trail'[i].id = m.id => trail'[i].acked

LEMMA ResultsStep ==
  ASSUME GuiTypeOK, GuiTypeOK', StaleInv, IdentifiersInv, MessagesInv, ResultsInv,
         [Next]_vars
  PROVE  ResultsInv'
<1> USE DEF ResultsInv
<1>0. seq \in Nat /\ link \in BOOLEAN BY GuiBounds DEF GuiTypeOK
<1>1. ASSUME NEW m, m.id <= seq, Acknowledges(m) PROVE AcknowledgesLater(m)
  <2> SUFFICES ASSUME m.type = "arm_result" /\ m.ok, NEW i \in 1..Len(trail'),
                      trail'[i].id = m.id
               PROVE  trail'[i].acked
    BY DEF AcknowledgesLater
  <2>1. trail'[i].id # seq + 1 BY <1>0, <1>1
  <2>2. /\ i \in 1..Len(trail) /\ trail'[i].id = trail[i].id
        /\ trail[i].acked => trail'[i].acked
    BY <2>1, TrailStep
  <2> QED BY <1>1, <2>2 DEF Acknowledges
<1>2. \A m : m.type # "arm_result" => AcknowledgesLater(m) BY DEF AcknowledgesLater
<1>3. ASSUME NEW i \in 1..Len(responses') PROVE AcknowledgesLater(responses'[i])
  <2>1. CASE \E j \in 1..Len(responses) : responses'[i] = responses[j]
    BY <1>1, <2>1 DEF IdentifiersInv
  <2>2. CASE responses'[i] = EspStatus(link) BY <1>2, <2>2 DEF EspStatus
  <2>3. CASE /\ HandleRequest /\ toBackend # <<>> /\ toBackend[1] \in Request
             /\ responses' \in Answers(toBackend[1])
    <3>0. 1..Len(responses') = {1} \cup 2..Len(responses') /\ Len(responses') \in 1..2
      BY <1>0, <2>3, AnswersShape
    <3>1. /\ i = 1 \/ responses'[i].type = "esp_status"
          /\ responses'[1].type = "arm_result" =>
               responses'[1] = ArmResult(toBackend[1].id, responses'[1].ok)
      BY <1>0, <2>3, <3>0, AnswersShape
    <3>2. CASE i = 1 /\ responses'[1].type = "arm_result" /\ responses'[1].ok
      <4>1. responses'[1].ok = TRUE
        <5>1. responses'[1] \in Message BY <3>2, ElementsTyped
        <5> QED BY <3>2, <5>1 DEF Message
      <4>2. responses'[1] = ArmResult(responses'[1].id, TRUE)
        BY <1>0, <2>3, <3>1, <3>2, <4>1, AnswersShape
      <4>3. \A k \in 1..Len(trail') : trail'[k].id = responses'[1].id => trail'[k].acked
        BY <2>3, <4>2, TrailAfterAnswer
      <4> QED BY <3>2, <4>3 DEF AcknowledgesLater
    <3> QED BY <1>2, <3>1, <3>2 DEF AcknowledgesLater
  <2> QED BY <2>1, <2>2, <2>3, ResponsesStep
<1>4. ASSUME NEW i \in 1..Len(inbox') PROVE AcknowledgesLater(inbox'[i])
  <2>1. CASE \E j \in 1..Len(inbox) : inbox'[i] = inbox[j]
    BY <1>1, <2>1 DEF IdentifiersInv
  <2>2. CASE \E j \in 1..Len(responses) : inbox'[i] = responses[j]
    BY <1>1, <2>2 DEF IdentifiersInv
  <2>3. CASE inbox'[i] \in {Disconnected, EspStatus(FALSE), Failure(None)}
    BY <1>2, <2>3 DEF Disconnected, EspStatus, Failure
  <2> QED BY <2>1, <2>2, <2>3, InboxStep
<1> QED BY <1>3, <1>4 DEF AcknowledgesLater, Acknowledges

\* A result that advances the run has its last request acknowledged.
LEMMA ResultAcknowledges ==
  ASSUME GuiTypeOK, MessagesInv, TrailInv, ResultsInv, ResultTaken
  PROVE  pend # None /\ (running => trail[Len(trail)].acked)
<1>1. inbox[1] \in Message /\ 1 \in 1..Len(inbox) /\ inbox[1].type = "arm_result"
  BY TailOfQueue DEF ResultTaken, GuiTypeOK
<1>2. pend # None /\ inbox[1].id = pend
  BY <1>1 DEF ResultTaken, MessagesInv, Addressed
<1>3. trail # <<>> /\ trail[Len(trail)].id = pend BY <1>2 DEF TrailInv
<1>4. Len(trail) \in 1..Len(trail) BY <1>3 DEF GuiTypeOK
<1>5. CASE running
  <2>1. Acknowledges(inbox[1]) /\ inbox[1].ok BY <1>1, <1>5 DEF ResultsInv, ResultTaken
  <2> QED BY <1>1, <1>2, <1>3, <1>4, <2>1 DEF Acknowledges
<1> QED BY <1>2, <1>5

\* A step of a run follows the acknowledgement of the one before.
LEMMA StepAfterAckStep ==
  ASSUME GuiTypeOK, GuiTypeOK', StaleInv, MessagesInv, TrailInv, ResultsInv,
         StepAfterAck, [Next]_vars
  PROVE  StepAfterAck'
<1> USE DEF StepAfterAck
<1>0. trail \in Seq(Sent) /\ Len(trail) \in Nat BY DEF GuiTypeOK
<1>1. CASE UNCHANGED <<trail, timer>> BY <1>1
<1>2. CASE trail' = <<>> BY <1>2
<1>3. CASE UNCHANGED trail /\ timer' = FALSE BY <1>3
<1>4. CASE ExecuteAction
  <2>1. CASE RowNotSent BY <1>2, <2>1 DEF RowNotSent
  <2>2. CASE RowSent(0, <<>>)
    <3>1. Len(trail') = 1 /\ timer' = FALSE BY <2>2 DEF RowSent
    <3> QED BY <3>1
  <2> QED BY <1>4, <2>1, <2>2, Started
<1>5. CASE TimerFires
  <2>1. CASE IdleTimer BY <1>3, <2>1 DEF IdleTimer
  <2>2. CASE RunComplete BY <1>2, <2>2 DEF RunComplete
  <2>3. CASE RowSent(step, trail)
    <3>1. timer BY <1>5, TimerKinds
    <3> QED BY <1>0, <2>3, <3>1 DEF RowSent
  <2>4. CASE RowNotSent BY <1>2, <2>4 DEF RowNotSent
  <2> QED BY <1>5, <2>1, <2>2, <2>3, <2>4, TimerKinds DEF RowTurn
<1>6. CASE ResultTaken
  <2>1. CASE ~running BY <1>6, <2>1 DEF ResultTaken
  <2>2. CASE running
    <3>1. UNCHANGED trail /\ trail[Len(trail)].acked
      BY <1>6, <2>2, ResultAcknowledges DEF ResultTaken
    <3> QED BY <1>0, <3>1
  <2> QED BY <2>1, <2>2
<1>7. CASE Answered
  <2>1. /\ Len(trail') = Len(trail) /\ UNCHANGED timer
        /\ \A i \in 1..Len(trail) : trail[i].acked => trail'[i].acked
    BY <1>7, TrailAfterAnswer DEF Answered
  <2> QED BY <2>1
<1>8. CASE CloseWindow BY <1>3, <1>8 DEF CloseWindow
<1>9. CASE RunUnchanged \/ Requested \/ ListEdited \/ Put
  BY <1>1, <1>9 DEF RunUnchanged, Requested, ListEdited, Put
<1>10. CASE Halted BY <1>2, <1>10 DEF Halted, Halt
<1> QED BY <1>4, <1>5, <1>6, <1>7, <1>8, <1>9, <1>10, StepKinds

\* The beginning of a joined list.
LEMMA JoinedAt ==
  ASSUME NEW S, NEW p \in Seq(S), NEW q \in Seq(S)
  PROVE  /\ Len(p \o q) = Len(p) + Len(q)
         /\ \A j \in 1..Len(p) : (p \o q)[j] = p[j]
OBVIOUS

\* A run goes through the rows of the list.
LEMMA RunStep ==
  ASSUME GuiTypeOK, GuiTypeOK', StaleInv, WaitsForOneThing, MessagesInv, TrailInv,
         ResultsInv, RunInv, [Next]_vars
  PROVE  RunInv'
<1> USE DEF RunInv
<1>0. /\ trail \in Seq(Sent) /\ Len(trail) \in Nat /\ step \in Nat
      /\ list \in Seq(Positions) /\ Len(list) \in Nat
  <2>1. trail \in Seq(Sent) /\ list \in Seq(Positions) /\ step \in Nat BY DEF GuiTypeOK
  <2> QED BY <2>1
<1>1. CASE RunUnchanged BY <1>1 DEF RunUnchanged
<1>2. CASE Requested BY <1>2 DEF Requested
<1>3. CASE Halted BY <1>3 DEF Halted, Halt
<1>4. CASE ListEdited /\ running /\ ~closing
  <2>1. UNCHANGED <<running, closing, trail, step, timer>> BY <1>4 DEF ListEdited
  <2>2. CASE list' = <<>> /\ edited' = running BY <1>4, <2>1, <2>2
  <2>3. ASSUME NEW p \in Positions, list' = Append(list, p) /\ edited' = edited
        PROVE  RunInv'
    <3>1. Len(list') = Len(list) + 1 /\ \A i \in 1..Len(list) : list'[i] = list[i]
      BY <1>0, <2>3
    <3> QED BY <1>0, <1>4, <2>1, <2>3, <3>1
  <2>4. ASSUME NEW i \in 1..Len(list),
               list' = SubSeq(list, 1, i - 1) \o SubSeq(list, i + 1, Len(list)),
               edited' = (edited \/ i <= Len(trail))
        PROVE  RunInv'
    <3> DEFINE l == SubSeq(list, 1, i - 1) m == SubSeq(list, i + 1, Len(list))
    <3>1. /\ l \in Seq(Positions) /\ Len(l) = i - 1
          /\ \A j \in 1..(i - 1) : l[j] = list[j]
      BY <1>0
    <3>0. list' = l \o m BY <2>4
    <3>2. m \in Seq(Positions) /\ Len(m) = Len(list) - i BY <1>0
    <3> HIDE DEF l, m
    <3>3. /\ Len(l \o m) = Len(l) + Len(m)
          /\ \A j \in 1..Len(l) : (l \o m)[j] = l[j]
      BY ONLY <3>1, <3>2, JoinedAt
    <3>4. /\ Len(list') = Len(list) - 1 /\ \A j \in 1..(i - 1) : list'[j] = list[j]
      BY <1>0, <3>0, <3>1, <3>2, <3>3
    <3>5. CASE i <= Len(trail) BY <1>4, <2>1, <2>4, <3>5
    <3>6. CASE i > Len(trail)
      <4>1. Len(trail) <= i - 1 BY <1>0, <3>6
      <4>2. ~(i <= Len(trail)) BY <1>0, <3>6
      <4>3. edited' <=> edited BY <2>4, <4>2
      <4> QED BY <1>0, <1>4, <2>1, <3>4, <4>1, <4>3
    <3> QED BY <1>0, <3>5, <3>6
  <2> QED BY <1>4, <2>2, <2>3, <2>4 DEF ListEdited
<1>5. CASE ListEdited /\ (~running \/ closing) BY <1>5 DEF ListEdited
<1>6. CASE CloseWindow BY <1>6 DEF CloseWindow
<1>7. CASE ExecuteAction
  <2>1. CASE RowNotSent BY <2>1 DEF RowNotSent
  <2>2. CASE RowSent(0, <<>>)
    <3>1. Len(trail') = 1 /\ trail'[1].item = list[1] /\ timer' = FALSE
      BY <2>2 DEF RowSent
    <3>2. step' = 0 /\ UNCHANGED list /\ 0 < Len(list) BY <1>7, Started
    <3> QED BY <1>0, <3>1, <3>2
  <2> QED BY <1>7, <2>1, <2>2, Started
<1>8. CASE TimerFires
  <2>0. /\ timer /\ UNCHANGED <<list, step, closing>> /\ edited' = (edited /\ running')
    BY <1>8, TimerKinds
  <2>1. CASE IdleTimer BY <2>0, <2>1 DEF IdleTimer, WaitsForOneThing
  <2>2. CASE RunComplete BY <2>2 DEF RunComplete
  <2>3. CASE RowTurn /\ RowSent(step, trail)
    <3>1. /\ Len(trail') = Len(trail) + 1 /\ running' /\ timer' = FALSE
          /\ \A i \in 1..Len(trail) : trail'[i] = trail[i]
          /\ trail'[Len(trail) + 1].item = list[step + 1]
          /\ running /\ step < Len(list)
      BY <2>3 DEF RowTurn, RowSent
    <3>2. ~closing' => Len(trail) = step BY <1>0, <2>0, <3>1
    <3>3. ~closing' => Len(trail') = step' + 1 BY <2>0, <3>1, <3>2
    <3>4. edited' <=> edited BY <2>0, <3>1
    <3> QED BY <1>0, <2>0, <3>1, <3>2, <3>3, <3>4
  <2>4. CASE RowNotSent BY <2>4 DEF RowNotSent
  <2> QED BY <1>8, <2>1, <2>2, <2>3, <2>4, TimerKinds DEF RowTurn
<1>9. CASE Put BY <1>9 DEF Put
<1>10. CASE ResultTaken
  <2>1. CASE ~running BY <1>10, <2>1 DEF ResultTaken
  <2>2. CASE running
    <3>1. /\ UNCHANGED <<running, trail, edited, list, closing>>
          /\ step' = step + 1 /\ timer' = TRUE
      BY <1>10, <2>2 DEF ResultTaken
    <3>2. ~closing => ~timer BY <1>10, ResultAcknowledges DEF WaitsForOneThing
    <3> QED BY <1>0, <2>2, <3>1, <3>2
  <2> QED BY <2>1, <2>2
<1>11. CASE Answered
  <2>1. /\ Len(trail') = Len(trail)
        /\ \A i \in 1..Len(trail) : trail'[i].item = trail[i].item
        /\ UNCHANGED <<running, step, timer, edited, list, closing>>
    BY <1>11, TrailAfterAnswer DEF Answered
  <2> QED BY <1>0, <2>1
<1> QED BY <1>1, <1>2, <1>3, <1>4, <1>5, <1>6, <1>7, <1>8, <1>9, <1>10, <1>11, StepKinds

-----------------------------------------------------------------------------
(* The connection *)

\* The requests of a lost connection that are sent on the next.
LEMMA StaleStep ==
  ASSUME GuiTypeOK, GuiTypeOK', StaleInv, AtMostOneStale, [Next]_vars
  PROVE  StaleInv' /\ AtMostOneStale'
<1> USE DEF StaleInv, AtMostOneStale, guiVars, sendVars, clientVars, backendVars
<1>0. outbox \in Seq(Request) /\ Len(outbox) \in Nat /\ conn \in Nat
  <2>1. outbox \in Seq(Request) /\ conn \in Nat BY GuiBounds DEF GuiTypeOK
  <2> QED BY <2>1
<1>1. CASE UNCHANGED <<outbox, net, flag, conn, hand>> BY <1>1
<1>2. CASE User \/ TimerFires
  <2>1. UNCHANGED <<outbox, net, flag, conn>> BY <1>2, UserLeaves
  <2>2. CASE hand' = Nobody BY <2>1, <2>2
  <2>3. CASE hand'.conn = conn /\ flag BY <1>0, <2>1, <2>3
  <2> QED BY <1>1, <2>1, <2>2, <2>3, HandStep
<1>3. CASE Put
  <2>1. /\ hand # Nobody /\ hand' = Nobody /\ UNCHANGED <<net, flag, conn>>
        /\ outbox' = Append(outbox, hand) /\ hand \in Request
    BY <1>3 DEF Put, GuiTypeOK
  <2>2. /\ Len(outbox') = Len(outbox) + 1 /\ outbox'[Len(outbox) + 1] = hand
        /\ \A i \in 1..Len(outbox) : outbox'[i] = outbox[i]
    BY <1>0, <2>1
  <2>3. net = "down" \/ hand.conn < conn => Len(outbox) = 0 BY <2>1
  <2>4. StaleInv' BY <1>0, <2>1, <2>2, <2>3
  <2>5. AtMostOneStale' BY <1>0, <2>1, <2>2, <2>3
  <2> QED BY <2>4, <2>5
<1>4. CASE Connect
  <2>1. /\ net = "down" /\ net' = "up" /\ flag' = TRUE /\ conn' = conn + 1
        /\ UNCHANGED <<outbox, hand>>
    BY <1>4 DEF Connect
  <2> QED BY <1>0, <2>1
<1>5. CASE FlushOutbox
  <2>1. /\ net = "up" /\ outbox # <<>> /\ outbox' = Tail(outbox)
        /\ UNCHANGED <<net, flag, conn, hand>>
    BY <1>5 DEF FlushOutbox
  <2>2. /\ Len(outbox') = Len(outbox) - 1
        /\ \A i \in 1..Len(outbox') : outbox'[i] = outbox[i + 1] /\ i + 1 \in 1..Len(outbox)
    BY <1>0, <2>1, TailOfQueue
  <2>3. AtMostOneStale' BY <1>0, <2>1, <2>2
  <2> QED BY <2>1, <2>3
<1>6. CASE MarkDisconnected
  <2>1. /\ net' = "draining" /\ flag' = FALSE /\ UNCHANGED <<outbox, conn, hand>>
    BY <1>6 DEF MarkDisconnected
  <2> QED BY <2>1
<1>7. CASE ConnectFails \/ DiscardPendingMessages
  <2>1. /\ outbox' = <<>> /\ UNCHANGED <<flag, conn, hand>>
        /\ net' = net \/ (net = "draining" /\ net' = "down")
    BY <1>7 DEF ConnectFails, DiscardPendingMessages
  <2>2. Len(outbox') = 0 BY <2>1
  <2> QED BY <2>1, <2>2
<1>8. CASE EndThread
  <2>1. net = "down" /\ net' = "done" /\ UNCHANGED <<flag, outbox, conn, hand>>
    BY <1>8 DEF EndThread
  <2> QED BY <2>1
<1>9. CASE HandleSignal BY <1>1, <1>9 DEF HandleSignal
<1>10. CASE Backend BY <1>1, <1>10 DEF Backend, HandleRequest, SendResponse, Broadcast
<1> QED BY <1>1, <1>2, <1>3, <1>4, <1>5, <1>6, <1>7, <1>8, <1>9, <1>10
        DEF Next, MainThread, Network, vars

\* A signal that leaves the action waiting is not its answer.
LEMMA SignalIsOther ==
  ASSUME GuiTypeOK, MessagesInv, HandleSignal, pend # None, pend' = pend
  PROVE  /\ inbox # <<>> /\ inbox' = Tail(inbox) /\ hand = Nobody /\ hand' = Nobody
         /\ inbox[1].id # pend /\ inbox[1] # Disconnected
<1>1. /\ inbox # <<>> /\ inbox' = Tail(inbox) /\ hand = Nobody /\ hand' = Nobody
      /\ Head(inbox) = inbox[1] /\ Addressed(inbox[1])
  BY TailOfQueue DEF HandleSignal, Idle, sendVars, Signal, OnDisconnected, OnEspStatus,
        OnError, OnArmResult, GuiTypeOK, MessagesInv
<1>2. Disconnected.type = "disconnected" BY DEF Disconnected
<1>3. ~OnDisconnected BY DEF OnDisconnected, Halt
<1>4. CASE OnEspStatus BY <1>1, <1>2, <1>4 DEF OnEspStatus, Signal, Addressed
<1>5. CASE OnError BY <1>1, <1>2, <1>5 DEF OnError, Signal, Halt
<1>6. CASE OnArmResult BY <1>1, <1>2, <1>6 DEF OnArmResult, Signal, Halt
<1> QED BY <1>1, <1>3, <1>4, <1>5, <1>6 DEF HandleSignal

\* What the user and the timer do to what is waited for.
LEMMA UserAwaits ==
  ASSUME GuiTypeOK, StaleInv, User \/ TimerFires, ~closing'
  PROVE  /\ inbox' = inbox
         /\ pend' = pend \/ pend' = None
         /\ hand'.kind = "action" => hand'.kind = hand.kind \/ flag
<1> DEFINE Awaits == /\ pend' = pend \/ pend' = None
                     /\ hand'.kind = "action" => hand'.kind = hand.kind \/ flag
<1>1. inbox' = inbox /\ ~CloseWindow
  <2>1. ASSUME NEW p \in Positions, AddStep(p) PROVE inbox' = inbox
    BY <2>1 DEF AddStep
  <2>2. ASSUME NEW i \in 1..Len(list), RemoveStep(i) PROVE inbox' = inbox
    BY <2>2 DEF RemoveStep
  <2>3. ~CloseWindow BY DEF CloseWindow
  <2> QED BY <2>1, <2>2, <2>3 DEF User, SendArm, ConnectEsp32, DisconnectEsp32,
        ClearSteps, ExecuteAction, StopAction, TimerFires
<1>2. CASE RunUnchanged \/ Requested \/ Halted \/ ListEdited
  <2>1. Awaits BY <1>2 DEF RunUnchanged, Requested, Halted, ListEdited, Halt
  <2> QED BY <1>1, <2>1
<1>3. CASE ExecuteAction
  <2>1. Awaits BY <1>3, Started DEF RowSent, RowNotSent, Nobody
  <2> QED BY <1>1, <2>1
<1>4. CASE TimerFires
  <2>1. CASE IdleTimer \/ RunComplete
    <3>1. Awaits BY <2>1 DEF IdleTimer, RunComplete
    <3> QED BY <1>1, <3>1
  <2>2. CASE RowTurn
    <3>1. Awaits BY <2>2 DEF RowTurn, RowSent, RowNotSent, Nobody
    <3> QED BY <1>1, <3>1
  <2> QED BY <1>4, <2>1, <2>2, TimerKinds
<1> QED BY <1>1, <1>2, <1>3, <1>4, UserKinds

\* What is on the inbox stays on it when something is appended.
LEMMA InboxKeeps ==
  ASSUME GuiTypeOK, NEW m \in Message, inbox' = inbox \/ inbox' = Append(inbox, m)
  PROVE  /\ DisconnectComing => DisconnectComing'
         /\ pend' = pend /\ AnswerComing => AnswerComing'
         /\ inbox' = Append(inbox, m) /\ m = Disconnected => DisconnectComing'
         /\ inbox' = Append(inbox, m) /\ m.id = pend' => AnswerComing'
<1>1. inbox \in Seq(Message) /\ Len(inbox) \in Nat BY DEF GuiTypeOK
<1>2. \A i \in 1..Len(inbox) : i \in 1..Len(inbox') /\ inbox'[i] = inbox[i] BY <1>1
<1>3. inbox' = Append(inbox, m) =>
        Len(inbox) + 1 \in 1..Len(inbox') /\ inbox'[Len(inbox) + 1] = m
  BY <1>1
<1> QED BY <1>2, <1>3 DEF DisconnectComing, AnswerComing

\* The user and the timer: a step is sent only while the connection is there.
LEMMA AnswerUser ==
  ASSUME GuiTypeOK, StaleInv, User \/ TimerFires, ~closing', WillBeSent, WillBeAnswered
  PROVE  WillBeSent' /\ WillBeAnswered'
<1>1. UNCHANGED <<inbox, outbox, net, toBackend, responses>> BY UserAwaits, UserLeaves
<1>2. WillBeSent'
  BY <1>1, UserAwaits DEF WillBeSent, DisconnectComing, StaleInv
<1>3. WillBeAnswered'
  <2>1. CASE pend' = None
    <3>1. ~(pend' # None) BY <2>1 DEF None
    <3> QED BY <3>1 DEF WillBeAnswered, None
  <2>2. CASE pend' = pend
    BY <1>1, <2>2 DEF WillBeAnswered, DisconnectComing, AnswerComing, Underway, None
  <2> QED BY <2>1, <2>2, UserAwaits
<1> QED BY <1>2, <1>3

\* A request for a step that is queued is under way.
LEMMA AnswerPut ==
  ASSUME GuiTypeOK, Put, WillBeSent, WillBeAnswered
  PROVE  WillBeSent' /\ WillBeAnswered'
<1>1. /\ outbox' = Append(outbox, hand) /\ hand' = Nobody
      /\ UNCHANGED <<inbox, net, toBackend, responses>>
      /\ pend' = IF hand.kind = "action" THEN hand.id ELSE pend
  BY DEF Put, backendVars
<1>2. outbox \in Seq(Request) /\ Len(outbox) \in Nat /\ hand \in Request
  BY DEF Put, GuiTypeOK
<1>3. /\ \A i \in 1..Len(outbox) : i \in 1..Len(outbox') /\ outbox'[i] = outbox[i]
      /\ Len(outbox) + 1 \in 1..Len(outbox') /\ outbox'[Len(outbox) + 1] = hand
  BY <1>1, <1>2
<1>4. WillBeSent' BY <1>1 DEF WillBeSent, Nobody
<1>5. WillBeAnswered'
  <2>1. CASE hand.kind = "action"
    <3>1. pend' = hand.id BY <1>1, <2>1
    <3>2. Underway' BY <1>3, <2>1, <3>1 DEF Underway
    <3> QED BY <1>1, <2>1, <3>2 DEF WillBeSent, WillBeAnswered, DisconnectComing
  <2>2. CASE hand.kind # "action"
    <3>1. pend' = pend BY <1>1, <2>2
    <3>2. Underway => Underway' BY <1>1, <1>3, <3>1 DEF Underway
    <3> QED BY <1>1, <3>1, <3>2 DEF WillBeAnswered, DisconnectComing, AnswerComing, None
  <2> QED BY <2>1, <2>2
<1> QED BY <1>4, <1>5

\* A signal that is handled leaves the others, and ends the wait if it is the answer.
LEMMA AnswerSignal ==
  ASSUME GuiTypeOK, MessagesInv, HandleSignal, WillBeSent, WillBeAnswered
  PROVE  WillBeSent' /\ WillBeAnswered'
<1>1. /\ UNCHANGED <<outbox, net, toBackend, responses>> /\ hand = Nobody /\ hand' = Nobody
  BY DEF HandleSignal, Idle, sendVars, clientVars, backendVars
<1>2. WillBeSent' BY <1>1 DEF WillBeSent, Nobody
<1>3. pend' = pend \/ pend' = None
  BY SignalKinds DEF RunUnchanged, Halted, ResultTaken, Halt
<1>4. WillBeAnswered'
  <2>1. CASE pend' = None BY <2>1 DEF WillBeAnswered, None
  <2>2. CASE pend' = pend /\ pend # None
    <3>1. /\ inbox # <<>> /\ inbox' = Tail(inbox)
          /\ inbox[1].id # pend /\ inbox[1] # Disconnected
      BY <2>2, SignalIsOther
    <3>2. inbox \in Seq(Message) /\ Len(inbox) \in Nat BY DEF GuiTypeOK
    <3>3. \A i \in 1..Len(inbox) :
            i = 1 \/ (i - 1 \in 1..Len(inbox') /\ inbox'[i - 1] = inbox[i])
      BY <3>1, <3>2
    <3>4. DisconnectComing => DisconnectComing' BY <3>1, <3>3 DEF DisconnectComing
    <3>5. AnswerComing => AnswerComing' BY <2>2, <3>1, <3>3 DEF AnswerComing
    <3>6. Underway => Underway' BY <1>1, <2>2 DEF Underway
    <3> QED BY <1>1, <2>2, <3>4, <3>5, <3>6 DEF WillBeAnswered
  <2> QED BY <1>3, <2>1, <2>2
<1> QED BY <1>2, <1>4

\* A lost connection is announced; only a connection carries a request.
LEMMA AnswerNetwork ==
  ASSUME GuiTypeOK, Network, ~closing, WillBeSent, WillBeAnswered
  PROVE  WillBeSent' /\ WillBeAnswered'
<1>1. UNCHANGED <<hand, pend>>
  BY DEF Network, Connect, ConnectFails, FlushOutbox, MarkDisconnected,
         DiscardPendingMessages, EndThread, guiVars, runVars, sendVars
<1>2. CASE Connect \/ ConnectFails \/ DiscardPendingMessages
  <2>1. net # "up" /\ inbox' = inbox
    BY <1>2 DEF Connect, ConnectFails, DiscardPendingMessages
  <2> QED BY <1>1, <2>1 DEF WillBeSent, WillBeAnswered, DisconnectComing, AnswerComing, None
<1>3. CASE FlushOutbox
  <2>1. /\ outbox # <<>> /\ outbox' = Tail(outbox)
        /\ toBackend' = Append(toBackend, Head(outbox))
        /\ net = "up" /\ UNCHANGED <<net, inbox, responses>>
    BY <1>3 DEF FlushOutbox
  <2>2. /\ outbox \in Seq(Request) /\ Len(outbox) \in Nat
        /\ toBackend \in Seq(Request) /\ Len(toBackend) \in Nat
    BY DEF GuiTypeOK
  <2>3. \A i \in 1..Len(outbox) :
          \/ i = 1 /\ toBackend'[Len(toBackend) + 1] = outbox[i]
          \/ i - 1 \in 1..Len(outbox') /\ outbox'[i - 1] = outbox[i]
    BY <2>1, <2>2
  <2>4. /\ Len(toBackend) + 1 \in 1..Len(toBackend')
        /\ \A i \in 1..Len(toBackend) :
             i \in 1..Len(toBackend') /\ toBackend'[i] = toBackend[i]
    BY <2>1, <2>2, TailOfQueue
  <2>5. Underway => Underway'
    <3>1. CASE \E i \in 1..Len(outbox) : outbox[i].id = pend /\ outbox[i].kind = "action"
      BY <1>1, <2>3, <2>4, <3>1 DEF Underway
    <3>2. CASE \E i \in 1..Len(toBackend) :
                 toBackend[i].id = pend /\ toBackend[i].kind = "action"
      BY <1>1, <2>4, <3>2 DEF Underway
    <3>3. CASE \E i \in 1..Len(responses) : responses[i].id = pend
      BY <1>1, <2>1, <3>3 DEF Underway
    <3> QED BY <3>1, <3>2, <3>3 DEF Underway
  <2> QED BY <1>1, <2>1, <2>5 DEF WillBeSent, WillBeAnswered, DisconnectComing,
        AnswerComing, None
<1>4. CASE MarkDisconnected
  <2>1. Disconnected \in Message BY NoneTyped DEF Disconnected, Message
  <2>2. inbox' = Append(inbox, Disconnected) BY <1>4 DEF MarkDisconnected, Emit
  <2>3. DisconnectComing' BY <2>1, <2>2, InboxKeeps
  <2> QED BY <2>3 DEF WillBeSent, WillBeAnswered
<1>5. CASE EndThread BY <1>5 DEF EndThread
<1> QED BY <1>2, <1>3, <1>4, <1>5 DEF Network

\* The backend answers a step with its identifier first.
LEMMA AnswerBackend ==
  ASSUME GuiTypeOK, Backend, ~closing, ~cut, ~lost', WillBeSent, WillBeAnswered
  PROVE  ~cut' /\ WillBeSent' /\ WillBeAnswered'
<1>1. UNCHANGED <<hand, pend, net, outbox>> /\ net = "up"
  BY DEF Backend, HandleRequest, SendResponse, Broadcast, guiVars, runVars, sendVars,
         clientVars
<1>2. WillBeSent' BY <1>1 DEF WillBeSent
<1>3. CASE HandleRequest
  <2>1. /\ toBackend # <<>> /\ responses = <<>> /\ UNCHANGED <<inbox, cut>>
        /\ toBackend' = Tail(toBackend) /\ responses' \in Answers(Head(toBackend))
    BY <1>3 DEF HandleRequest
  <2>2. toBackend \in Seq(Request) /\ Len(toBackend) \in Nat /\ link \in BOOLEAN
    BY DEF GuiTypeOK
  <2>3. \A i \in 1..Len(toBackend) :
          \/ i = 1 /\ toBackend[i] = Head(toBackend)
          \/ i - 1 \in 1..Len(toBackend') /\ toBackend'[i - 1] = toBackend[i]
    BY <2>1, <2>2
  <2>4. Head(toBackend) \in Request BY <2>1, <2>2, TailOfQueue
  <2>5. Head(toBackend).kind = "action" =>
          1 \in 1..Len(responses') /\ responses'[1].id = Head(toBackend).id
    <3>1. /\ Len(responses') \in 1..2
          /\ Head(toBackend).kind = "action" => responses'[1].id = Head(toBackend).id
      BY <2>1, <2>2, <2>4, AnswersShape
    <3> QED BY <3>1
  <2>6. Underway => Underway'
    <3>1. CASE \E i \in 1..Len(outbox) : outbox[i].id = pend /\ outbox[i].kind = "action"
      BY <1>1, <3>1 DEF Underway
    <3>2. CASE \E i \in 1..Len(toBackend) :
                 toBackend[i].id = pend /\ toBackend[i].kind = "action"
      BY <1>1, <2>3, <2>5, <3>2 DEF Underway
    <3>3. Len(responses) = 0 BY <2>1
    <3> QED BY <3>1, <3>2, <3>3 DEF Underway
  <2>7. WillBeAnswered'
    BY <1>1, <2>1, <2>6 DEF WillBeAnswered, DisconnectComing, AnswerComing, None
  <2> QED BY <1>2, <2>1, <2>7
<1>4. CASE SendResponse
  <2>1. /\ responses # <<>> /\ responses' = Tail(responses) /\ toBackend' = toBackend
        /\ cut' = FALSE /\ Deliver(Head(responses))
    BY <1>4 DEF SendResponse, SendFrame
  <2>2. responses \in Seq(Message) /\ Len(responses) \in Nat BY DEF GuiTypeOK
  <2>3. Head(responses) \in Message /\ Head(responses) = responses[1]
    BY <2>1, <2>2, TailOfQueue
  <2>4. inbox' = Append(inbox, Head(responses)) BY <2>1, <2>3, DeliverTypes
  <2>5. \A i \in 1..Len(responses) :
          i = 1 \/ (i - 1 \in 1..Len(responses') /\ responses'[i - 1] = responses[i])
    BY <2>1, <2>2
  <2>6. Underway => Underway' \/ AnswerComing'
    <3>1. CASE \E i \in 1..Len(responses) : responses[i].id = pend
      <4>1. CASE responses[1].id = pend BY <1>1, <2>3, <2>4, <4>1, InboxKeeps
      <4>2. CASE responses[1].id # pend BY <1>1, <2>5, <3>1, <4>2 DEF Underway
      <4> QED BY <4>1, <4>2
    <3>2. CASE ~ \E i \in 1..Len(responses) : responses[i].id = pend
      BY <1>1, <2>1, <3>2 DEF Underway
    <3> QED BY <3>1, <3>2
  <2>7. /\ DisconnectComing => DisconnectComing'
        /\ AnswerComing => AnswerComing'
    BY <1>1, <2>3, <2>4, InboxKeeps
  <2>8. WillBeAnswered' BY <1>1, <2>6, <2>7 DEF WillBeAnswered, None
  <2> QED BY <1>2, <2>1, <2>8
<1>5. CASE Broadcast
  <2>1. /\ EspStatus(FALSE) \in Message /\ Failure(None) \in Message
    BY NoneTyped DEF EspStatus, Failure, Message
  <2>2. PICK m \in Message : Deliver(m) /\ cut' = FALSE /\ UNCHANGED <<toBackend, responses>>
    BY <1>5, <2>1 DEF Broadcast
  <2>3. inbox' = Append(inbox, m) BY <2>2, DeliverTypes
  <2>4. /\ DisconnectComing => DisconnectComing'
        /\ AnswerComing => AnswerComing'
    BY <1>1, <2>3, InboxKeeps
  <2>5. Underway => Underway' BY <1>1, <2>2 DEF Underway
  <2>6. WillBeAnswered' BY <1>1, <2>4, <2>5 DEF WillBeAnswered, None
  <2> QED BY <1>2, <2>2, <2>6
<1> QED BY <1>3, <1>4, <1>5 DEF Backend

\* A lost frame and a closed window stay in the past.
LEMMA HistoryStays ==
  ASSUME [Next]_vars PROVE (lost => lost') /\ (closing => closing')
<1>1. CASE User \/ TimerFires
  <2>1. lost' = lost BY <1>1, UserLeaves
  <2>2. closing => closing'
    <3>1. ASSUME NEW p \in Positions, AddStep(p) PROVE closing' = closing
      BY <3>1 DEF AddStep
    <3>2. ASSUME NEW i \in 1..Len(list), RemoveStep(i) PROVE closing' = closing
      BY <3>2 DEF RemoveStep
    <3> QED BY <1>1, <3>1, <3>2 DEF User, SendArm, ConnectEsp32, DisconnectEsp32,
          ClearSteps, ExecuteAction, StopAction, CloseWindow, TimerFires
  <2> QED BY <2>1, <2>2
<1>2. CASE Put \/ HandleSignal
  BY <1>2 DEF Put, HandleSignal, backendVars
<1>3. CASE Network
  BY <1>3 DEF Network, Connect, ConnectFails, FlushOutbox, MarkDisconnected,
     DiscardPendingMessages, EndThread, guiVars, backendVars
<1>4. CASE SendResponse
  <2>1. CASE lost' = TRUE BY <1>4, <2>1 DEF SendResponse, guiVars
  <2>2. CASE lost' = lost BY <1>4, <2>2 DEF SendResponse, guiVars
  <2> QED BY <1>4, <2>1, <2>2 DEF SendResponse, SendFrame
<1>5. CASE HandleRequest
  <2>1. closing' = closing /\ lost' = lost BY <1>5 DEF HandleRequest
  <2> QED BY <2>1
<1>6. CASE Broadcast
  <2>1. closing' = closing /\ lost' = lost BY <1>6 DEF Broadcast, guiVars
  <2> QED BY <2>1
<1>7. CASE UNCHANGED vars BY <1>7 DEF vars, guiVars, backendVars
<1> QED BY <1>1, <1>2, <1>3, <1>4, <1>5, <1>6, <1>7 DEF Next, MainThread, Backend

\* What the action waits for stays on its way.
LEMMA AnswerStep ==
  ASSUME GuiTypeOK, StaleInv, MessagesInv, AnswerInv, [Next]_vars
  PROVE  AnswerInv'
<1> SUFFICES ASSUME ~lost', ~closing'
             PROVE  ~cut' /\ WillBeSent' /\ WillBeAnswered'
  BY DEF AnswerInv
<1>1. ~lost /\ ~closing BY HistoryStays
<1>2. ~cut /\ WillBeSent /\ WillBeAnswered BY <1>1 DEF AnswerInv
<1>3. CASE User \/ TimerFires
  <2>1. cut' = cut BY <1>3, UserLeaves
  <2> QED BY <1>2, <1>3, <2>1, AnswerUser
<1>4. CASE Put
  <2>1. cut' = cut BY <1>4 DEF Put, backendVars
  <2> QED BY <1>2, <1>4, <2>1, AnswerPut
<1>5. CASE HandleSignal
  <2>1. cut' = cut BY <1>5 DEF HandleSignal, backendVars
  <2> QED BY <1>2, <1>5, <2>1, AnswerSignal
<1>6. CASE Network
  <2>1. ~cut'
    BY <1>2, <1>6 DEF Network, Connect, ConnectFails, FlushOutbox, MarkDisconnected,
       DiscardPendingMessages, EndThread, backendVars
  <2> QED BY <1>1, <1>2, <1>6, <2>1, AnswerNetwork
<1>7. CASE Backend BY <1>1, <1>2, <1>7, AnswerBackend
<1>8. CASE UNCHANGED vars
  <2>1. UNCHANGED <<hand, pend, net, inbox, outbox, toBackend, responses, cut>>
    BY <1>8 DEF vars, guiVars, runVars, sendVars, clientVars, backendVars
  <2> QED BY <1>2, <2>1 DEF WillBeSent, WillBeAnswered, DisconnectComing, AnswerComing,
        Underway, None
<1> QED BY <1>3, <1>4, <1>5, <1>6, <1>7, <1>8 DEF Next, MainThread

-----------------------------------------------------------------------------
(* The theorems *)

\* The inductive invariant.
THEOREM GuiInvariance == Spec => []GInv
<1>1. ASSUME GInv, [Next]_vars PROVE GInv'
  <2>1. GuiTypeOK' BY <1>1, GuiTypeStep DEF GInv
  <2>2. WaitsForOneThing' BY <1>1, WaitsStep DEF GInv
  <2>3. IdentifiersInv' /\ MessagesInv'
    BY <1>1, <2>1, IdentifiersStep, MessagesStep DEF GInv
  <2>4. TrailInv' BY <1>1, <2>1, TrailInvStep DEF GInv
  <2>5. ResultsInv' BY <1>1, <2>1, ResultsStep DEF GInv
  <2>6. StepAfterAck' BY <1>1, <2>1, StepAfterAckStep DEF GInv
  <2>7. RunInv' BY <1>1, <2>1, RunStep DEF GInv
  <2>8. StaleInv' /\ AtMostOneStale' BY <1>1, <2>1, StaleStep DEF GInv
  <2>9. AnswerInv' BY <1>1, AnswerStep DEF GInv
  <2> QED BY <2>1, <2>2, <2>3, <2>4, <2>5, <2>6, <2>7, <2>8, <2>9 DEF GInv
<1> QED BY <1>1, GuiInit, PTL DEF Spec

\* Every variable of the GUI and of its connection has its type.
THEOREM GuiTypeHolds == Spec => []GuiTypeOK
<1>1. GInv => GuiTypeOK BY DEF GInv
<1> QED BY <1>1, GuiInvariance, PTL

\* A running action waits for exactly one of: its request being queued, the answer to it,
\* the timer (_send_next_action_step, _handle_arm_result, stop_action).
THEOREM WaitsForOneThingHolds == Spec => []WaitsForOneThing
<1>1. GInv => WaitsForOneThing BY DEF GInv
<1> QED BY <1>1, GuiInvariance, PTL

\* A step is sent only after every earlier step of its run was acknowledged
\* (_handle_arm_result).
THEOREM StepAfterAckHolds == Spec => []StepAfterAck
<1>1. GInv => StepAfterAck BY DEF GInv
<1> QED BY <1>1, GuiInvariance, PTL

\* At most one request of a lost connection is sent on the next, and first (send_message,
\* _discard_pending_messages).
THEOREM AtMostOneStaleHolds == Spec => []AtMostOneStale
<1>1. GInv => AtMostOneStale BY DEF GInv
<1> QED BY <1>1, GuiInvariance, PTL

\* Unless a frame broke off, a step without an answer has one coming, or the news that the
\* connection is gone (_send_next_action_step, _mark_disconnected).
THEOREM NeverWaitsInVainHolds == Spec => []NeverWaitsInVain
<1>1. GInv => NeverWaitsInVain
  <2> SUFFICES ASSUME GInv, pend # None, ~lost, ~closing
               PROVE  \/ \E q \in {outbox, toBackend, responses, inbox} :
                           \E i \in DOMAIN q : q[i].id = pend
                      \/ \E i \in DOMAIN inbox : inbox[i] = Disconnected
    BY DEF NeverWaitsInVain
  <2>1. /\ DOMAIN outbox = 1..Len(outbox) /\ DOMAIN toBackend = 1..Len(toBackend)
        /\ DOMAIN responses = 1..Len(responses) /\ DOMAIN inbox = 1..Len(inbox)
    BY DEF GInv, GuiTypeOK
  <2>2. DisconnectComing \/ AnswerComing \/ Underway
    BY DEF GInv, AnswerInv, WillBeAnswered
  <2> QED BY <2>1, <2>2 DEF DisconnectComing, AnswerComing, Underway
<1> QED BY <1>1, GuiInvariance, PTL

\* An action that ends by itself sent every row of the list, in order, and had each
\* acknowledged (_send_next_action_step 548).
THEOREM CompleteMeansAllHolds == Spec => CompleteMeansAll
<1> DEFINE Complete ==
      (running /\ ~running' /\ ~closing' /\ timer /\ inbox' = inbox /\ step >= Len(list)) =>
        /\ \A i \in 1..Len(trail) : trail[i].acked
        /\ edited \/ [i \in 1..Len(trail) |-> trail[i].item] = list
<1>1. ASSUME GInv, [Next]_vars PROVE [Complete]_vars
  <2> SUFFICES ASSUME running, ~running', ~closing', timer, step >= Len(list)
               PROVE  /\ \A i \in 1..Len(trail) : trail[i].acked
                      /\ edited \/ [i \in 1..Len(trail) |-> trail[i].item] = list
    OBVIOUS
  <2>1. \A i \in 1..Len(trail) : trail[i].acked BY <1>1 DEF GInv, StepAfterAck
  <2>2. ASSUME ~edited PROVE [i \in 1..Len(trail) |-> trail[i].item] = list
    <3>1. ~closing BY <1>1, HistoryStays DEF GInv
    <3>2. /\ Len(trail) = step /\ Len(trail) <= Len(list)
          /\ \A i \in 1..Len(trail) : trail[i].item = list[i]
      <4>1. RunInv /\ step \in Nat BY <1>1 DEF GInv, GuiTypeOK
      <4>2. Len(trail) = step + 0 BY <3>1, <4>1 DEF RunInv
      <4> QED BY <2>2, <3>1, <4>1, <4>2 DEF RunInv
    <3>3. list \in Seq(Positions) /\ Len(list) \in Nat /\ step \in Nat
      BY <1>1 DEF GInv, GuiTypeOK
    <3>4. Len(trail) = Len(list) BY <3>2, <3>3
    <3>5. list = [i \in 1..Len(list) |-> list[i]] BY <3>3
    <3> QED BY <3>2, <3>4, <3>5
  <2> QED BY <2>1, <2>2
<1>2. GInv /\ [Next]_vars => [Complete]_vars BY <1>1
<1> QED BY <1>2, GuiInvariance, PTL DEF Spec, CompleteMeansAll

\* An error ends the action only if it answers a request of this run, or has no request_id
\* and comes between two steps (_on_error 571).
THEOREM ErrorStopsOwnRunHolds == Spec => ErrorStopsOwnRun
<1> DEFINE Stops ==
      (running /\ ~running' /\ Signal("error") /\ inbox' = Tail(inbox)) =>
        \/ \E i \in 1..Len(trail) : trail[i].id = Head(inbox).id
        \/ Head(inbox).id = None /\ timer
<1>1. ASSUME GInv, [Next]_vars PROVE [Stops]_vars
  <2> SUFFICES ASSUME running, ~running', Signal("error"), inbox' = Tail(inbox)
               PROVE  \/ \E i \in 1..Len(trail) : trail[i].id = Head(inbox).id
                      \/ Head(inbox).id = None /\ timer
    OBVIOUS
  <2>1. inbox # <<>> /\ inbox \in Seq(Message) /\ Len(inbox) \in Nat /\ Len(inbox) # 0
    BY <1>1 DEF GInv, GuiTypeOK, Signal
  <2>2. inbox' # inbox BY <2>1, TailOfQueue
  <2>3. HandleSignal
    <3>1. ASSUME User \/ TimerFires PROVE FALSE
      <4>1. ASSUME NEW p \in Positions, AddStep(p) PROVE inbox' = inbox
        BY <4>1 DEF AddStep
      <4>2. ASSUME NEW i \in 1..Len(list), RemoveStep(i) PROVE inbox' = inbox
        BY <4>2 DEF RemoveStep
      <4>3. ~CloseWindow BY DEF CloseWindow
      <4> QED BY <2>2, <3>1, <4>1, <4>2, <4>3 DEF User, SendArm, ConnectEsp32,
            DisconnectEsp32, ClearSteps, ExecuteAction, StopAction, TimerFires
    <3>2. ~Put /\ ~(UNCHANGED vars) BY DEF Put, vars, guiVars, runVars
    <3>3. ~Network
      BY DEF Network, Connect, ConnectFails, FlushOutbox, MarkDisconnected,
         DiscardPendingMessages, EndThread, guiVars, runVars
    <3>4. ~Backend
      BY DEF Backend, HandleRequest, SendResponse, Broadcast, guiVars, runVars
    <3> QED BY <1>1, <3>1, <3>2, <3>3, <3>4 DEF Next, MainThread
  <2>4. OnError
    BY <2>3 DEF HandleSignal, OnDisconnected, OnEspStatus, OnArmResult, Signal
  <2>5. Head(inbox).id = pend BY <2>4 DEF OnError, runVars
  <2>6. hand = Nobody /\ ~closing BY <2>3 DEF HandleSignal, Idle
  <2>7. CASE pend = None
    BY <1>1, <2>5, <2>6, <2>7 DEF GInv, WaitsForOneThing, Nobody
  <2>8. CASE pend # None
    <3>1. trail # <<>> /\ trail[Len(trail)].id = pend BY <1>1, <2>8 DEF GInv, TrailInv
    <3>2. trail \in Seq(Sent) BY <1>1 DEF GInv, GuiTypeOK
    <3>3. Len(trail) \in 1..Len(trail) BY <3>1, <3>2
    <3> QED BY <2>5, <3>1, <3>3
  <2> QED BY <2>7, <2>8
<1>2. GInv /\ [Next]_vars => [Stops]_vars BY <1>1
<1> QED BY <1>2, GuiInvariance, PTL DEF Spec, ErrorStopsOwnRun
=============================================================================
