---------------------------- MODULE FakeEsp32Inv ----------------------------
(***************************************************************************)
(* The inductive invariant behind FramesWhole and AcksAnswerCommands of    *)
(* FakeEsp32: what a client holds of a line is the first field of the one  *)
(* frame that is being sent, and every answer it may still get is for a    *)
(* command of its own that was not answered yet.                           *)
(***************************************************************************)
EXTENDS FakeEsp32

Jobs == [client : 0..MaxClients, script : Seq(Items), half : BOOLEAN]

\* Every variable has its type; lines wait only while they are worked off, and
\* the server has a script only while it sends it.
FakeTypeOK ==
  /\ at \in {"next", "accept", "check", "recv", "lines", "script", "ended"}
  /\ accepted \in 0..MaxClients /\ active \in 0..accepted
  /\ at \in {"check", "recv", "lines", "script"} => accepted # NoClient
  /\ scripts \in Seq(Seq(Items)) /\ lines \in Nat
  /\ lines # 0 => at \in {"lines", "script"}
  /\ job \in [Threads -> Jobs]
  /\ at # "script" => job["server"].script = <<>>
  /\ sendLock \in BOOLEAN
  /\ sender \in [Senders -> {"idle", "woken", "script", "sent", "cut", "gone", "timeout"}]
  /\ commands \in [Clients -> Nat] /\ asked \in [Clients -> Nat]
  /\ open \subseteq 1..accepted
  /\ rest \in [Clients -> Seq(STRING)]
  /\ DOMAIN heard = Clients
  /\ sent \in [Clients -> Seq([by : Threads, frame : Items])]

Half(t) == job[t].half

\* A frame that is half sent is alone, and all its client holds of a line.
HalfInv ==
  /\ \A t \in Threads : Half(t) =>
       /\ sendLock /\ HasFrame(t) /\ job[t].client \in Clients
       /\ rest[job[t].client] = <<Item(t)[1]>>
  /\ \A t, u \in Threads : Half(t) /\ Half(u) => t = u

\* Whoever can still be sent something holds no other piece of a line.
RestInv ==
  \A k \in Clients : rest[k] # <<>> =>
    /\ k <= accepted
    /\ k \in open => \E t \in Threads : Half(t) /\ job[t].client = k

\* The answers to come of the script that is sent to k.
Owed(k) == IF job["server"].client = k THEN AcksIn(job["server"].script) ELSE 0

\* The commands of k that have no script yet.
Waiting(k) == commands[k] + (IF k = accepted THEN lines ELSE 0)

AnswerInv ==
  \A k \in Clients : Answers(k) + Owed(k) + ScriptAcks * Waiting(k) <= ScriptAcks * asked[k]

ScriptsInv ==
  /\ \A i \in DOMAIN scripts : AcksIn(scripts[i]) <= ScriptAcks
  /\ AcksIn(job["server"].script) <= ScriptAcks

KInv ==
  /\ FakeTypeOK /\ HalfInv /\ RestInv /\ FramesWhole
  /\ ScriptsInv /\ AnswerInv
=============================================================================
