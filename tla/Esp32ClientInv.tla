-------------------------- MODULE Esp32ClientInv ---------------------------
(***************************************************************************)
(* The inductive invariant behind AckSound and StopAndWait of Esp32Client, *)
(* and what its other invariants need besides.                             *)
(* The two are not inductive: that an ACK is credited to the right command *)
(* depends on what is still on the wire of the installed connection when a *)
(* command becomes pending, hence on the lock, on connections being fresh  *)
(* when they are installed, and on the reset that follows a timeout.       *)
(***************************************************************************)
EXTENDS Esp32Client

\* Thread c is inside send_arm_command and has accepted its command.
Failing(c) == pc[c] \in {"reset", "close", "notify", "raise"} /\ ret[c] = "raise"
InExchange(c) == pc[c] \in {"send", "wait", "expire"} \/ Failing(c)

\* Thread c is inside connect and holds a connection it has not installed.
Connecting(c) ==
  \/ pc[c] \in {"disconnect", "install"}
  \/ pc[c] \in {"reset", "close"} /\ ret[c] = "install"

\* The thread whose command x failed on connection g is about to reset g.
Resetting(g, x) ==
  \E c \in Clients : /\ pc[c] = "reset" /\ ret[c] = "raise"
                     /\ myGen[c] = g /\ myCmd[c] = x

LockInv ==
  /\ \A c \in Clients : InExchange(c) => commandLock = c
  /\ \A c \in Clients : pc[c] = "disconnect" => ret[c] = "install"

InstalledInv ==
  /\ socket # None => socket = generation
  /\ generation # None => rpc[generation] # "none"
  /\ \A c \in Clients : InExchange(c) =>
       myGen[c] # None /\ rpc[myGen[c]] # "none"

\* A connection that was not installed yet has carried no command.
FreshInv ==
  /\ \A g \in Gens : g > made => rpc[g] = "none"
  /\ \A g \in Gens : rpc[g] = "none" => sent[g] = <<>>
  /\ \A c \in Clients : Connecting(c) =>
       cand[c] \in 1..made /\ rpc[cand[c]] = "none"
  /\ \A c, d \in Clients :
       Connecting(c) /\ Connecting(d) /\ cand[c] = cand[d] => c = d

PendingInv ==
  /\ pending # None => pending <= issued /\ cell[pending] = "waiting"
  /\ \A c \in Clients : InExchange(c) =>
       /\ myCmd[c] \in 1..issued
       /\ pending \in {None, myCmd[c]}

NewInv == \A k \in Cmds : k > issued => cell[k] = "new"

\* A command is sent once, and answered once, on the connection that was
\* installed when it was accepted.
SentInv ==
  /\ \A g \in Gens : \A i \in 1..Len(sent[g]) : sent[g][i] \in 1..issued
  /\ \A c \in Clients : \A g \in Gens : \A i \in 1..Len(sent[g]) :
       InExchange(c) /\ sent[g][i] = myCmd[c] => pc[c] # "send" /\ g = myGen[c]
  /\ \A g \in Gens : \A i, j \in 1..Len(sent[g]) : sent[g][i] = sent[g][j] => i = j

RepliesInv ==
  /\ \A g \in Gens : \A i \in 1..Len(replies[g]) :
       replies[g][i] # Telemetry =>
         \E j \in 1..handled[g] : sent[g][j] = replies[g][i]
  /\ \A g \in Gens : \A i, j \in 1..Len(replies[g]) :
       replies[g][i] # Telemetry /\ replies[g][i] = replies[g][j] => i = j

\* The commands whose ACK a connection may still deliver.
Outstanding(g) ==
  {x \in Cmds :
     \/ \E i \in handled[g] + 1 .. Len(sent[g]) : sent[g][i] = x
     \/ \E i \in routed[g] + 1 .. Len(replies[g]) : replies[g][i] = x}

\* Of the installed connection these are the pending command, or one whose
\* sender is about to take the connection down.
Expected(x) == x = pending \/ Resetting(socket, x)
DeliveryInv ==
  /\ socket # None => \A x \in Outstanding(socket) : Expected(x)
  /\ \A c \in Clients :
       pc[c] = "send" /\ socket = myGen[c] => pending = myCmd[c]

\* Whatever else was sent on it was answered.
HistoryInv ==
  /\ socket # None => \A i \in 1..Len(sent[socket]) :
       cell[sent[socket][i]] = "answered" \/ Expected(sent[socket][i])
  /\ \A c \in Clients : pc[c] = "send" =>
       \A i \in 1..Len(sent[myGen[c]]) : cell[sent[myGen[c]][i]] = "answered"

\* Why no ACK goes to the wrong command in send_arm_command and
\* _route_received_line: the lock, the freshness of an installed connection
\* and the reset after a failure leave at most the pending command's ACK on it.
IInv ==
  /\ TypeOK
  /\ LockInv /\ InstalledInv /\ FreshInv /\ PendingInv /\ NewInv
  /\ SentInv /\ RepliesInv /\ DeliveryInv /\ HistoryInv
  /\ AckSound /\ StopAndWait

-----------------------------------------------------------------------------
(* What LossReportedOnce rests on. *)

\* Thread c has taken connection g down after a failure, and has yet to report it.
Reporting(c, g) ==
  myGen[c] = g /\ (pc[c] = "notify" \/ (pc[c] = "close" /\ ret[c] = "raise"))

LossInv ==
  /\ socket # None => ended[socket] = "none"
  /\ \A g \in Gens : rpc[g] = "none" => ended[g] = "none"
  /\ \A g \in Gens : rpc[g] = "emit" => ended[g] = "fault" /\ notices[g] = 0
  /\ \A c \in Clients : \A g \in Gens :
       Reporting(c, g) => ended[g] = "fault" /\ notices[g] = 0 /\ rpc[g] # "emit"
  /\ \A c, d \in Clients : \A g \in Gens : Reporting(c, g) /\ Reporting(d, g) => c = d
  /\ LossReportedOnce

(* What OwnsOneSocket and NoStrandedCommand rest on, with one connector. *)

\* The thread whose command is pending can still complete it.
Owns(c) == pc[c] \in {"send", "wait", "expire"} \/ (pc[c] = "reset" /\ ret[c] = "raise")

\* A connector that is past its disconnect has no socket to overwrite.
ConnectorInv ==
  /\ \A c \in Clients : Connecting(c) => c \in Connectors
  /\ \A c \in Clients : pc[c] = "reset" /\ ret[c] = "install" => myGen[c] = generation
  /\ \A c \in Clients :
       pc[c] = "install" \/ (pc[c] = "close" /\ ret[c] = "install") => socket = None

OwnedInv ==
  /\ pending # None =>
       /\ socket # None
       /\ \E c \in Clients : /\ commandLock = c /\ Owns(c)
                             /\ myCmd[c] = pending /\ myGen[c] = generation
  /\ \A k \in Cmds : cell[k] = "waiting" => pending = k

OwnerInv == ConnectorInv /\ OwnedInv /\ OwnsOneSocket

-----------------------------------------------------------------------------
(* What ImplementsLink rests on besides. *)

\* The exchange is about the last command accepted, and a good result about one
\* that the device has handled.
LinkInv ==
  /\ \A c \in Clients : InExchange(c) => myCmd[c] = issued
  /\ \A k \in Cmds : cell[k] = "new" => k > issued
  /\ \A k \in Cmds : cell[k] = "waiting" => pending = k
  /\ \A k \in Cmds : cell[k] = "answered" =>
       \E g \in Gens : \E i \in 1..handled[g] : sent[g][i] = k
=============================================================================
