------------------------------ MODULE ArmLink ------------------------------
(***************************************************************************)
(* What the sessions of the backend may rely on when they send arm         *)
(* commands: one command at a time is open; it reaches the device at most  *)
(* once, and over a link on which everything before it was answered; it    *)
(* succeeds only if the device handled it; and its result stands.          *)
(***************************************************************************)
EXTENDS Naturals, Sequences

CONSTANTS
  Commands,  \* numbers, in the order the commands are accepted
  Links      \* the connections to the device

VARIABLES
  status,   \* of each command: new, waiting, answered or failed
  wire,     \* the commands put on each link
  handled   \* how many of them the device has handled

Last(k) == \A j \in Commands : j > k => status[j] = "new"
OnWire(g, k) == \E i \in DOMAIN wire[g] : wire[g][i] = k
HandledOn(g, k) == \E i \in 1..handled[g] : wire[g][i] = k

Init ==
  /\ status = [k \in Commands |-> "new"]
  /\ wire = [g \in Links |-> <<>>] /\ handled = [g \in Links |-> 0]

Accept(k) ==
  /\ status[k] = "new" /\ Last(k)
  /\ \A j \in Commands : status[j] # "waiting"
  /\ status' = [status EXCEPT ![k] = "waiting"]
  /\ UNCHANGED <<wire, handled>>

\* A command may fail before it leaves, and leave all the same; but not after
\* another one was accepted.
Transmit(k, g) ==
  /\ status[k] \in {"waiting", "failed"} /\ Last(k)
  /\ \A h \in Links : ~OnWire(h, k)
  /\ \A i \in DOMAIN wire[g] : status[wire[g][i]] = "answered"
  /\ wire' = [wire EXCEPT ![g] = Append(@, k)]
  /\ UNCHANGED <<status, handled>>

Handle(g) ==
  /\ handled[g] < Len(wire[g])
  /\ handled' = [handled EXCEPT ![g] = @ + 1]
  /\ UNCHANGED <<status, wire>>

Succeed(k) ==
  /\ status[k] = "waiting" /\ \E g \in Links : HandledOn(g, k)
  /\ status' = [status EXCEPT ![k] = "answered"]
  /\ UNCHANGED <<wire, handled>>

Fail(k) ==
  /\ status[k] = "waiting"
  /\ status' = [status EXCEPT ![k] = "failed"]
  /\ UNCHANGED <<wire, handled>>

Next ==
  \/ \E k \in Commands :
       Accept(k) \/ Succeed(k) \/ Fail(k) \/ \E g \in Links : Transmit(k, g)
  \/ \E g \in Links : Handle(g)

Spec == Init /\ [][Next]_<<status, wire, handled>>
=============================================================================
