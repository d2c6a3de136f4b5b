-------------------------- MODULE BackendServerInv --------------------------
(***************************************************************************)
(* The inductive invariant of BackendServer: its safety invariants as the  *)
(* run checks them, and what they rest on.                                 *)
(***************************************************************************)
EXTENDS BackendServer

\* The statements left repair every column that is not as it should be.
MigrationInv ==
  /\ \A i \in 1..Len(todo) : todo[i].op = IF todo[i].column \in Rpm THEN "add" ELSE "drop"
  /\ up = "migrating" =>
       \A x \in Rpm \cup Duty :
         (x \in columns) # (x \in Rpm) => \E i \in 1..Len(todo) : todo[i].column = x

\* The sockets of the sessions that broadcasts reach.
SocketsInv == \A c \in Sessions : at[c] \notin {"out", "accepted", "closed"} => c \in sockets

\* A loss is counted once, and told of as it was counted.
CountsInv ==
  /\ \A k \in Losses : (k <= losses <=> cast[k].stage # "none") /\ cast[k].msg <= losses
  /\ \A c \in Sessions : told[c] <= losses /\ missed[c] <= losses /\ held[c] <= losses

\* The newest loss is still to be told to session c by a broadcast.
Awaited(c) ==
  \E k \in Losses :
    \/ cast[k].stage = "build"
    \/ cast[k].stage = "snapshot" /\ cast[k].msg = losses
    \/ cast[k].stage = "send" /\ cast[k].msg = losses /\ c \in cast[k].to

\* A status of the newest loss was sent to session c, or its send failed.
Tried(c) == told[c] = losses \/ missed[c] = losses

Greeted(c) == at[c] \notin {"out", "accepted", "greet", "greeting", "closed"}
ToldInv ==
  \A c \in Sessions :
    /\ Greeted(c) => Tried(c) \/ Awaited(c)
    /\ at[c] = "greeting" => Tried(c) \/ held[c] = losses \/ Awaited(c)

\* A session that shutdown() has not seen never gets to receive, so none begins to handle
\* lines after the ESP32 was disconnected.
StopInv ==
  /\ sd # "no" => stop
  /\ sd \in {"esp", "join", "done"} =>
       \A c \in Sessions : at[c] = "recv" \/ Handling(c) => c \in shut
  /\ Disconnected => \A c \in Sessions : Handling(c) => c \in busy
  /\ ~Disconnected => reconnected = {}
  /\ reconnected \subseteq busy

SInv ==
  /\ ServerTypeOK /\ ServesOnFullSchema /\ MigrationInv
  /\ SocketsInv /\ CountsInv /\ ToldInv /\ StopInv
=============================================================================
