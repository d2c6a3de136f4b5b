--------------------------- MODULE GuiSessionInv ---------------------------
(***************************************************************************)
(* The inductive invariant of GuiSession: its invariants as the runs check *)
(* them, and what they rest on.                                            *)
(***************************************************************************)
EXTENDS GuiSession

\* Identifiers are given out in order, so a new one is on no queue.
IdentifiersInv ==
  /\ hand.id <= seq
  /\ \A i \in 1..Len(outbox) : outbox[i].id <= seq
  /\ \A i \in 1..Len(toBackend) : toBackend[i].id <= seq
  /\ \A i \in 1..Len(responses) : responses[i].id <= seq
  /\ \A i \in 1..Len(inbox) : inbox[i].id <= seq
  /\ \A i \in 1..Len(trail) : trail[i].id <= seq

\* Results carry an identifier, status messages do not.
Addressed(m) ==
  /\ m.type \in {"disconnected", "esp_status"} => m.id = None
  /\ m.type = "arm_result" => m.id # None
MessagesInv ==
  /\ \A i \in 1..Len(responses) : Addressed(responses[i])
  /\ \A i \in 1..Len(inbox) : Addressed(inbox[i])

\* The request that is waited for is the last of the run.
TrailInv ==
  /\ hand.kind = "action" => trail # <<>> /\ trail[Len(trail)].id = hand.id
  /\ pend # None => trail # <<>> /\ trail[Len(trail)].id = pend

\* A good result on its way has its request acknowledged.
Acknowledges(m) ==
  m.type = "arm_result" /\ m.ok =>
    \A i \in 1..Len(trail) : trail[i].id = m.id => trail[i].acked
ResultsInv ==
  /\ \A i \in 1..Len(responses) : Acknowledges(responses[i])
  /\ \A i \in 1..Len(inbox) : Acknowledges(inbox[i])

\* The run counts its steps, and sends the rows of the list unless it was edited.
RunInv ==
  running /\ ~closing =>
    /\ Len(trail) = step + (IF timer THEN 0 ELSE 1)
    /\ edited \/ /\ Len(trail) <= Len(list)
                 /\ \A i \in 1..Len(trail) : trail[i].item = list[i]

\* A request that was tested on an earlier connection meets an empty outbox.
StaleInv ==
  /\ (flag <=> net = "up") /\ (flag => conn > 0)
  /\ hand # Nobody /\ (net = "down" \/ hand.conn < conn) => outbox = <<>>
  /\ net = "down" => Len(outbox) <= 1

\* What the action waits for is on its way while the connection is there, and the news that
\* it is gone when it is not.
DisconnectComing == \E i \in 1..Len(inbox) : inbox[i] = Disconnected
AnswerComing == \E i \in 1..Len(inbox) : inbox[i].id = pend
Underway ==
  \/ \E i \in 1..Len(outbox) : outbox[i].id = pend /\ outbox[i].kind = "action"
  \/ \E i \in 1..Len(toBackend) : toBackend[i].id = pend /\ toBackend[i].kind = "action"
  \/ \E i \in 1..Len(responses) : responses[i].id = pend
WillBeSent == hand.kind = "action" => net = "up" \/ DisconnectComing
WillBeAnswered == pend # None => DisconnectComing \/ AnswerComing \/ (net = "up" /\ Underway)
AnswerInv == ~lost /\ ~closing => ~cut /\ WillBeSent /\ WillBeAnswered

GInv ==
  /\ GuiTypeOK /\ WaitsForOneThing /\ StepAfterAck /\ AtMostOneStale
  /\ IdentifiersInv /\ MessagesInv /\ TrailInv /\ ResultsInv /\ RunInv
  /\ StaleInv /\ AnswerInv
=============================================================================
