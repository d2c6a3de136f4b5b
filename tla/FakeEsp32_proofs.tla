-------------------------- MODULE FakeEsp32_proofs --------------------------
(***************************************************************************)
(* Proof that the frames of the test double's threads reach its clients    *)
(* whole, and that no client is answered for commands of another: for any  *)
(* scripts, senders, clients and commands.                                 *)
(***************************************************************************)
EXTENDS FakeEsp32Inv, FunctionTheorems, FiniteSetTheorems, TLAPS

-----------------------------------------------------------------------------
(* Scripts. *)

\* The empty script, and a script with its first item gone.
LEMMA Scripts ==
  /\ \A S : <<>> \in Seq(S)
  /\ \A s : s = <<>> => DOMAIN s = {}
  /\ \A s \in Seq(Items) : s # <<>> => Head(s) \in Items /\ Tail(s) \in Seq(Items)
  /\ \A s \in Seq(Seq(Items)) : s # <<>> => Head(s) \in Seq(Items) /\ Tail(s) \in Seq(Seq(Items))
OBVIOUS

LEMMA Constants ==
  /\ "server" \in Threads /\ "server" \notin Senders /\ MaxClients \in Nat
  /\ NoClient = 0 /\ \A k \in Clients : k \in Nat /\ k # NoClient
  /\ ScriptAcks \in Nat
BY FakeAssumption DEF Threads, NoClient, Clients

\* A frame is its first field and the others.
LEMMA FrameParts ==
  ASSUME NEW f \in Items
  PROVE  f[1] \in STRING /\ <<f[1]>> \o Tail(f) = f
BY DEF Items

\* Positions of a sequence are finitely many.
LEMMA Positions ==
  ASSUME NEW S, NEW s \in Seq(S), NEW P \in SUBSET DOMAIN s
  PROVE  IsFiniteSet(P) /\ Cardinality(P) \in Nat
<1>1. DOMAIN s = 1..Len(s) /\ Len(s) \in Nat OBVIOUS
<1>2. IsFiniteSet(1..Len(s)) BY <1>1, FS_Interval
<1> QED BY <1>1, <1>2, FS_Subset, FS_CardinalityType

\* The acknowledgements left when the first item of a script is done.
LEMMA AcksLeft ==
  ASSUME NEW s \in Seq(Items)
  PROVE  /\ AcksIn(s) \in Nat
         /\ s = <<>> => AcksIn(s) = 0
         /\ s # <<>> => AcksIn(s) = AcksIn(Tail(s)) +
                          (IF ParseLine(Head(s)).system = "ARM" THEN 1 ELSE 0)
<1> DEFINE A(r) == {i \in DOMAIN r : ParseLine(r[i]).system = "ARM"}
<1>1. \A r \in Seq(Items) : IsFiniteSet(A(r)) /\ Cardinality(A(r)) \in Nat
  BY Positions
<1>2. s = <<>> => A(s) = {} OBVIOUS
<1>3. ASSUME s # <<>>
      PROVE  Cardinality(A(s)) = Cardinality(A(Tail(s))) +
               (IF ParseLine(Head(s)).system = "ARM" THEN 1 ELSE 0)
  <2> DEFINE T == A(Tail(s))
             S == A(s) \ {1}
  <2>1. /\ Tail(s) \in Seq(Items) /\ Head(s) = s[1] /\ 1 \in DOMAIN s
        /\ DOMAIN s = 1..Len(s) /\ Len(s) \in Nat /\ DOMAIN Tail(s) = 1..Len(s) - 1
        /\ \A i \in 1..Len(s) - 1 : Tail(s)[i] = s[i + 1]
    BY <1>3
  <2>2. \A i \in T : i \in Nat /\ i + 1 \in S BY <2>1
  <2>3. \A j \in S : j \in Nat /\ j - 1 \in T /\ (j - 1) + 1 = j
    <3> SUFFICES ASSUME NEW j \in S PROVE j - 1 \in T OBVIOUS
    <3>1. j - 1 \in 1..Len(s) - 1 /\ (j - 1) + 1 = j BY <2>1
    <3>2. Tail(s)[j - 1] = s[j] BY <2>1, <3>1
    <3> QED BY <2>1, <3>1, <3>2
  <2>4. 1 \in A(s) <=> ParseLine(Head(s)).system = "ARM" BY <2>1
  <2> HIDE DEF T, S
  <2> DEFINE f == [i \in T |-> i + 1]
  <2>5. /\ f \in [T -> S] /\ \A i, j \in T : f[i] = f[j] => i = j
        /\ \A j \in S : \E i \in T : f[i] = j
    BY <2>2, <2>3
  <2>6. ExistsBijection(T, S) BY <2>5, Fun_IsBij, Fun_ExistsBij
  <2>7. Cardinality(S) = Cardinality(T) BY <1>1, <2>1, <2>6, FS_Bijection DEF T
  <2>8. Cardinality(S) = IF 1 \in A(s) THEN Cardinality(A(s)) - 1 ELSE Cardinality(A(s))
    <3> HIDE DEF A
    <3> QED BY <1>1, FS_RemoveElement DEF S
  <2> HIDE DEF A
  <2> QED BY <1>1, <2>1, <2>4, <2>7, <2>8 DEF T
<1> HIDE DEF A
<1>4. \A r : AcksIn(r) = Cardinality(A(r)) BY DEF AcksIn, A
<1> QED BY <1>1, <1>2, <1>3, <1>4, FS_EmptySet
-----------------------------------------------------------------------------
(* Types. *)

LEMMA InitFakeTypes == Init => FakeTypeOK
<1> SUFFICES ASSUME Init PROVE FakeTypeOK OBVIOUS
<1>1. NoJob \in Jobs /\ NoJob.script = <<>>
  BY Scripts, Constants DEF NoJob, Jobs
<1>2. /\ job \in [Threads -> Jobs] /\ job["server"].script = <<>>
  BY <1>1, Constants DEF Init
<1>3. /\ rest \in [Clients -> Seq(STRING)]
      /\ sent \in [Clients -> Seq([by : Threads, frame : Items])]
      /\ commands \in [Clients -> Nat] /\ asked \in [Clients -> Nat]
  BY Scripts DEF Init
<1>4. /\ at = "next" /\ accepted = 0 /\ active = 0 /\ lines = 0 /\ open = {}
      /\ sendLock = FALSE /\ scripts \in Seq(Seq(Items)) /\ MaxClients \in Nat
  BY FakeAssumption DEF Init, NoClient
<1>5. /\ sender \in [Senders -> {"idle", "woken", "script", "sent", "cut", "gone", "timeout"}]
      /\ DOMAIN heard = Clients
  BY DEF Init
<1>6. /\ at \in {"next", "accept", "check", "recv", "lines", "script", "ended"}
      /\ at \notin {"check", "recv", "lines", "script"}
  BY <1>4
<1>7. accepted \in 0..MaxClients /\ active \in 0..accepted /\ open \subseteq 1..accepted
      /\ lines \in Nat
  BY <1>4
<1> QED BY <1>2, <1>3, <1>4, <1>5, <1>6, <1>7 DEF FakeTypeOK

\* The steps of the server thread that send nothing, and of the clients.
LEMMA PlainTypes ==
  ASSUME FakeTypeOK,
         \/ CheckAccept \/ AcceptTimesOut \/ Accept \/ CheckStop \/ RecvTimesOut
         \/ RecvEnds \/ LinesDone \/ Stop \/ UNCHANGED vars
         \/ \E k \in Clients : ClientLeaves(k)
         \/ \E t \in Senders : WaitEnds(t)
  PROVE  FakeTypeOK'
<1> USE DEF serverVars, sendVars, clientVars, streamVars
<1>1. accepted \in Nat /\ MaxClients \in Nat /\ NoClient = 0
  BY Constants DEF FakeTypeOK
<1>2. CASE CheckAccept BY <1>2 DEF CheckAccept, FakeTypeOK
<1>3. CASE AcceptTimesOut BY <1>3 DEF AcceptTimesOut, FakeTypeOK
<1>4. CASE Accept
  <2>1. /\ accepted' \in 0..MaxClients /\ active' \in 0..accepted' /\ accepted' # NoClient
        /\ open' \subseteq 1..accepted'
    BY <1>1, <1>4 DEF Accept, FakeTypeOK
  <2> QED BY <1>4, <2>1 DEF Accept, FakeTypeOK
<1>5. CASE CheckStop
  <2>1. CASE stop
    <3>1. CloseClient BY <1>5, <2>1 DEF CheckStop
    <3>2. at' = "next" /\ active' = 0 /\ lines' = 0 /\ 0 \in 0..accepted
      BY <1>1, <3>1 DEF CloseClient
    <3>3. open' \subseteq 1..accepted BY <3>1 DEF CloseClient, FakeTypeOK
    <3> QED BY <1>5, <3>2, <3>3 DEF CheckStop, FakeTypeOK
  <2>2. CASE ~stop BY <1>5, <2>2 DEF CheckStop, FakeTypeOK
  <2> QED BY <2>1, <2>2
<1>6. CASE RecvTimesOut BY <1>6 DEF RecvTimesOut, FakeTypeOK
<1>7. CASE RecvEnds
  <2>1. CloseClient BY <1>7 DEF RecvEnds
  <2>2. at' = "next" /\ active' = 0 /\ lines' = 0 /\ 0 \in 0..accepted
    BY <1>1, <2>1 DEF CloseClient
  <2>3. open' \subseteq 1..accepted BY <2>1 DEF CloseClient, FakeTypeOK
  <2> QED BY <1>7, <2>2, <2>3 DEF RecvEnds, FakeTypeOK
<1>8. CASE LinesDone BY <1>8 DEF LinesDone, FakeTypeOK
<1>9. CASE Stop BY <1>9 DEF Stop, FakeTypeOK
<1>10. CASE \E k \in Clients : ClientLeaves(k) BY <1>10 DEF ClientLeaves, FakeTypeOK
<1>11. CASE \E t \in Senders : WaitEnds(t) BY <1>11 DEF WaitEnds, FakeTypeOK
<1>12. CASE UNCHANGED vars BY <1>12 DEF vars, FakeTypeOK
<1> QED BY <1>2, <1>3, <1>4, <1>5, <1>6, <1>7, <1>8, <1>9, <1>10, <1>11, <1>12

LEMMA CommandTypes ==
  ASSUME FakeTypeOK, Recv \/ \E k \in Clients : ClientSends(k)
  PROVE  FakeTypeOK'
<1> USE DEF serverVars, sendVars, clientVars, streamVars
<1>1. CASE Recv
  <2>1. commands[accepted] \in Nat /\ accepted \in Clients
    BY <1>1, Constants DEF Recv, FakeTypeOK, Clients
  <2>2. lines' \in Nat /\ commands' \in [Clients -> Nat]
    BY <1>1, <2>1 DEF Recv, FakeTypeOK
  <2> QED BY <1>1, <2>2 DEF Recv, FakeTypeOK
<1>2. ASSUME NEW k \in Clients, ClientSends(k) PROVE FakeTypeOK'
  <2>1. commands[k] + 1 \in Nat /\ asked[k] + 1 \in Nat BY DEF FakeTypeOK
  <2>2. commands' \in [Clients -> Nat] BY <1>2, <2>1 DEF ClientSends, FakeTypeOK
  <2>3. asked' \in [Clients -> Nat] BY <1>2, <2>1 DEF ClientSends, FakeTypeOK
  <2> QED BY <1>2, <2>2, <2>3 DEF ClientSends, FakeTypeOK
<1> QED BY <1>1, <1>2

\* A job that is taken: a command's script, or what a sender pushes.
LEMMA JobTypes ==
  ASSUME FakeTypeOK, TakeLine \/ \E t \in Senders : Capture(t)
  PROVE  FakeTypeOK'
<1> USE DEF serverVars, sendVars, clientVars, streamVars
<1>1. /\ job \in [Threads -> Jobs] /\ accepted \in 0..MaxClients /\ active \in 0..MaxClients
      /\ scripts \in Seq(Seq(Items)) /\ lines \in Nat
  BY Constants DEF FakeTypeOK
<1>2. CASE TakeLine
  <2>1. PICK script : script = IF scripts = <<>> THEN Fallback ELSE Head(scripts) OBVIOUS
  <2>2. script \in Seq(Items) /\ scripts' \in Seq(Seq(Items))
    BY <1>1, <1>2, <2>1, Scripts, FakeAssumption DEF TakeLine
  <2>3. [NoJob EXCEPT !.client = accepted, !.script = script] \in Jobs
    BY <1>1, <2>2 DEF NoJob, Jobs
  <2>4. job' \in [Threads -> Jobs] BY <1>1, <1>2, <2>1, <2>3 DEF TakeLine
  <2>5. lines' \in Nat /\ at' = "script" /\ accepted # NoClient
    BY <1>1, <1>2 DEF TakeLine, FakeTypeOK
  <2> QED BY <1>2, <2>2, <2>4, <2>5 DEF TakeLine, FakeTypeOK
<1>3. ASSUME NEW t \in Senders, Capture(t) PROVE FakeTypeOK'
  <2>1. [NoJob EXCEPT !.client = active, !.script = Unsolicited] \in Jobs
    BY <1>1, FakeAssumption DEF NoJob, Jobs
  <2>2. job' \in [Threads -> Jobs] BY <1>1, <1>3, <2>1 DEF Capture
  <2>3. sender' \in [Senders -> {"idle", "woken", "script", "sent", "cut", "gone", "timeout"}]
    BY <1>3 DEF Capture, FakeTypeOK
  <2>4. job'["server"] = job["server"] BY <1>1, <1>3, Constants DEF Capture
  <2> QED BY <1>3, <2>2, <2>3, <2>4 DEF Capture, FakeTypeOK
<1> QED BY <1>2, <1>3

\* A script that returns leaves nothing to be sent.
LEMMA ReturnedTypes ==
  ASSUME FakeTypeOK, NEW t \in Threads, NEW ok \in BOOLEAN, NEW S \in SUBSET open,
         Sending(t), Returned(t, ok, S), sendLock' \in BOOLEAN,
         UNCHANGED <<commands, asked, streamVars>>
  PROVE  /\ FakeTypeOK'
         /\ \A u \in Threads : u # t => job'[u] = job[u]
         /\ job'[t].client = job[t].client /\ job'[t].script = <<>> /\ ~job'[t].half
<1> USE DEF serverVars, streamVars
<1>1. job \in [Threads -> Jobs] /\ job[t] \in Jobs BY DEF FakeTypeOK
<1>2. /\ \A u \in Threads : u # t => job'[u] = job[u]
      /\ job'[t] = [job[t] EXCEPT !.script = <<>>, !.half = FALSE]
      /\ DOMAIN job' = Threads /\ job' = [u \in Threads |-> job'[u]]
  BY <1>1 DEF Returned
<1>3. \A j \in Jobs : LET k == [j EXCEPT !.script = <<>>, !.half = FALSE]
                     IN  k \in Jobs /\ k.client = j.client /\ k.script = <<>> /\ ~k.half
  BY Scripts DEF Jobs
<1>4. /\ job'[t] \in Jobs /\ job'[t].client = job[t].client /\ job'[t].script = <<>>
      /\ ~job'[t].half
  BY <1>1, <1>2, <1>3
<1>5. job' \in [Threads -> Jobs]
  <2>1. \A u \in Threads : job'[u] \in Jobs BY <1>1, <1>2, <1>4
  <2> QED BY <1>2, <2>1
<1>6. ASSUME t = "server" PROVE FakeTypeOK'
  <2>1. at = "script" /\ job'["server"].script = <<>> BY <1>4, <1>6 DEF Sending
  <2>2. /\ UNCHANGED <<accepted, scripts, sender, commands, asked, rest, sent>>
        /\ open' \subseteq 1..accepted
    BY <1>6 DEF Returned, CloseClient, FakeTypeOK
  <2>3. accepted # NoClient /\ NoClient = 0 /\ 0 \in 0..accepted
    BY <2>1, Constants DEF FakeTypeOK
  <2>4. /\ at' \in {"lines", "next"} /\ active' \in 0..accepted /\ lines' \in Nat
        /\ lines' # 0 => at' = "lines"
    BY <1>6, <2>3 DEF Returned, CloseClient, FakeTypeOK
  <2> QED BY <1>5, <2>1, <2>2, <2>3, <2>4 DEF FakeTypeOK
<1>7. ASSUME t # "server" PROVE FakeTypeOK'
  <2>1. job'["server"] = job["server"] /\ t \in Senders
    BY <1>2, <1>7, Constants DEF Threads
  <2>2. sender' \in [Senders -> {"idle", "woken", "script", "sent", "cut", "gone", "timeout"}]
    BY <1>7, <2>1 DEF Returned, FakeTypeOK
  <2>3. /\ UNCHANGED <<at, accepted, active, scripts, lines, commands, asked, rest, sent>>
        /\ open' \subseteq 1..accepted
    BY <1>7 DEF Returned, FakeTypeOK
  <2> QED BY <1>5, <2>1, <2>2, <2>3 DEF FakeTypeOK
<1> QED BY <1>2, <1>4, <1>6, <1>7

\* Only an accepted client can be sent something.
LEMMA OpenClients == ASSUME FakeTypeOK PROVE open \subseteq Clients /\ accepted \in Nat
BY Constants DEF FakeTypeOK, Clients

LEMMA BeginFrameTypes ==
  ASSUME FakeTypeOK, NEW t \in Threads, BeginFrame(t)
  PROVE  /\ FakeTypeOK'
         /\ \A u \in Threads : u # t => job'[u] = job[u]
         /\ job'[t].client = job[t].client /\ job'[t].script = job[t].script /\ job'[t].half
         /\ job[t].client \in Clients
<1> USE DEF serverVars, clientVars
<1>1. /\ job \in [Threads -> Jobs] /\ job[t] \in Jobs /\ job[t].client \in Clients
      /\ Item(t) \in Items
  <2>1. job[t] \in Jobs /\ job[t].script # <<>> BY DEF FakeTypeOK, BeginFrame, HasFrame
  <2>2. job[t].script \in Seq(Items) BY <2>1 DEF Jobs
  <2> QED BY <2>1, <2>2, Scripts, OpenClients DEF BeginFrame, Item, FakeTypeOK
<1>2. /\ \A u \in Threads : u # t => job'[u] = job[u]
      /\ job'[t] = [job[t] EXCEPT !.half = TRUE]
      /\ job' = [u \in Threads |-> job'[u]]
  BY <1>1 DEF BeginFrame
<1>3. \A j \in Jobs : LET k == [j EXCEPT !.half = TRUE]
                     IN  k \in Jobs /\ k.client = j.client /\ k.script = j.script /\ k.half
  BY DEF Jobs
<1>4. /\ job'[t] \in Jobs /\ job'[t].client = job[t].client
      /\ job'[t].script = job[t].script /\ job'[t].half
  BY <1>1, <1>2, <1>3
<1>5. job' \in [Threads -> Jobs]
  <2>1. \A u \in Threads : job'[u] \in Jobs BY <1>1, <1>2, <1>4
  <2> QED BY <1>2, <2>1
<1>6. rest' \in [Clients -> Seq(STRING)]
  <2>1. Item(t)[1] \in STRING BY <1>1, FrameParts
  <2> QED BY <1>1, <2>1 DEF BeginFrame, FakeTypeOK
<1>7. job'["server"].script = job["server"].script
  BY <1>2, <1>4, Constants
<1>8. FakeTypeOK' BY <1>5, <1>6, <1>7 DEF BeginFrame, FakeTypeOK
<1> QED BY <1>1, <1>2, <1>4, <1>8

LEMMA EndFrameTypes ==
  ASSUME FakeTypeOK, NEW t \in Threads, EndFrame(t), HasFrame(t)
  PROVE  /\ FakeTypeOK'
         /\ \A u \in Threads : u # t => job'[u] = job[u]
         /\ job'[t].client = job[t].client /\ job'[t].script = Tail(job[t].script)
         /\ ~job'[t].half
         /\ job[t].client \in Clients /\ Item(t) \in Items
         /\ job[t].script \in Seq(Items) /\ job[t].script # <<>>
<1> USE DEF serverVars, clientVars
<1>1. /\ job \in [Threads -> Jobs] /\ job[t] \in Jobs /\ job[t].client \in Clients
      /\ Item(t) \in Items /\ job[t].script \in Seq(Items) /\ job[t].script # <<>>
  <2>1. job[t] \in Jobs /\ job[t].script # <<>> BY DEF FakeTypeOK, HasFrame
  <2>2. job[t].script \in Seq(Items) BY <2>1 DEF Jobs
  <2> QED BY <2>1, <2>2, Scripts, OpenClients DEF EndFrame, Item, FakeTypeOK
<1>2. /\ \A u \in Threads : u # t => job'[u] = job[u]
      /\ job'[t] = [job[t] EXCEPT !.half = FALSE, !.script = Tail(@)]
      /\ job' = [u \in Threads |-> job'[u]]
  BY <1>1 DEF EndFrame
<1>3. \A j \in Jobs : LET k == [j EXCEPT !.half = FALSE, !.script = Tail(@)]
                     IN  j.script # <<>> => /\ k \in Jobs /\ k.client = j.client
                                            /\ k.script = Tail(j.script) /\ ~k.half
  BY Scripts DEF Jobs
<1>4. /\ job'[t] \in Jobs /\ job'[t].client = job[t].client
      /\ job'[t].script = Tail(job[t].script) /\ ~job'[t].half
  BY <1>1, <1>2, <1>3
<1>5. job' \in [Threads -> Jobs]
  <2>1. \A u \in Threads : job'[u] \in Jobs BY <1>1, <1>2, <1>4
  <2> QED BY <1>2, <2>1
<1>6. rest' \in [Clients -> Seq(STRING)] BY <1>1, Scripts DEF EndFrame, FakeTypeOK
<1>7. sent' \in [Clients -> Seq([by : Threads, frame : Items])]
  <2>1. PICK R : R = [by : Threads, frame : Items] OBVIOUS
  <2>2. PICK r : r = [by |-> t, frame |-> Item(t)] OBVIOUS
  <2>3. r \in R BY <1>1, <2>1, <2>2
  <2>4. sent \in [Clients -> Seq(R)] BY <2>1 DEF FakeTypeOK
  <2>5. sent' = [sent EXCEPT ![job[t].client] = Append(@, r)] BY <2>2 DEF EndFrame
  <2>6. sent' \in [Clients -> Seq(R)] BY <1>1, <2>3, <2>4, <2>5
  <2> QED BY <2>1, <2>6
<1>8. at # "script" => job'["server"].script = <<>>
  <2>1. t = "server" => at = "script" BY DEF HasFrame, Sending
  <2> QED BY <1>2, <2>1, Constants DEF FakeTypeOK
<1>9. FakeTypeOK' BY <1>5, <1>6, <1>7, <1>8 DEF EndFrame, FakeTypeOK
<1> QED BY <1>1, <1>2, <1>4, <1>9

\* A script that ends, in whatever way.
Ends(t) == ScriptDone(t) \/ HangUp(t) \/ SendFails(t) \/ DelayCut(t)

LEMMA EndsReturned ==
  ASSUME FakeTypeOK, NEW t \in Threads, Ends(t)
  PROVE  /\ FakeTypeOK' /\ Sending(t)
         /\ \A u \in Threads : u # t => job'[u] = job[u]
         /\ job'[t].client = job[t].client /\ job'[t].script = <<>> /\ ~job'[t].half
         /\ UNCHANGED <<accepted, scripts, stop, commands, asked, streamVars>>
         /\ open' \subseteq open
         /\ lines' = lines \/ lines' = 0
         /\ \A u \in Senders : u # t => sender'[u] = sender[u]
         /\ t # "server" => at' = at
         /\ (sendLock' = sendLock \/ (sendLock' = FALSE /\ (job[t].half \/ ~sendLock)))
         /\ (job[t].half => job[t].client \notin open \/ job[t].script = <<>> \/ ~sendLock)
<1>1. PICK ok \in BOOLEAN, S \in SUBSET open : Returned(t, ok, S)
  BY DEF Ends, ScriptDone, HangUp, SendFails, DelayCut
<1>2. /\ Sending(t) /\ UNCHANGED <<commands, asked, streamVars>>
      /\ (sendLock' = sendLock \/ (sendLock' = FALSE /\ (job[t].half \/ ~sendLock)))
  BY DEF Ends, ScriptDone, HangUp, SendFails, DelayCut, HasFrame
<1>3. sendLock' \in BOOLEAN BY <1>2 DEF FakeTypeOK
<1>4. /\ FakeTypeOK'
      /\ \A u \in Threads : u # t => job'[u] = job[u]
      /\ job'[t].client = job[t].client /\ job'[t].script = <<>> /\ ~job'[t].half
  BY <1>1, <1>2, <1>3, ReturnedTypes
<1>5. /\ UNCHANGED <<accepted, scripts, stop>> /\ open' \subseteq open
      /\ lines' = lines \/ lines' = 0
      /\ t # "server" => at' = at
      /\ \A u \in Senders : u # t => sender'[u] = sender[u]
  BY <1>1, Constants DEF Returned, CloseClient, serverVars, FakeTypeOK, Threads
<1>6. job[t].half => job[t].client \notin open \/ job[t].script = <<>> \/ ~sendLock
  BY DEF Ends, ScriptDone, HangUp, SendFails, DelayCut
<1> QED BY <1>1, <1>2, <1>4, <1>5, <1>6

LEMMA FakeTypeStep ==
  ASSUME FakeTypeOK, HalfInv, [Next]_vars
  PROVE  FakeTypeOK'
<1>1. ASSUME NEW t \in Threads, Send(t) PROVE FakeTypeOK'
  <2>1. EndFrame(t) => HasFrame(t) BY DEF EndFrame, HalfInv, Half
  <2> QED BY <1>1, <2>1, BeginFrameTypes, EndFrameTypes, EndsReturned DEF Send, Ends
<1> QED BY <1>1, PlainTypes, CommandTypes, JobTypes DEF Next, Server

-----------------------------------------------------------------------------
(* A frame that is half sent. *)

\* A step that neither begins nor ends a frame, and adds at most a client that
\* has nothing yet.
LEMMA NoFrameStep ==
  ASSUME HalfInv, RestInv,
         \A u \in Threads : Half(u) => job'[u] = job[u] /\ (Sending(u) => Sending(u)'),
         \A u \in Threads : job'[u].half => Half(u),
         UNCHANGED <<rest, sendLock>>,
         accepted \in Nat, accepted' \in Nat, accepted <= accepted',
         \A k \in open' : k \in open \/ k > accepted
  PROVE  HalfInv' /\ RestInv'
<1>1. ASSUME NEW u \in Threads, Half(u)'
      PROVE  /\ sendLock' /\ HasFrame(u)' /\ job'[u].client \in Clients
             /\ rest'[job'[u].client] = <<Item(u)'[1]>>
  <2>1. Half(u) /\ job'[u] = job[u] BY <1>1 DEF Half
  <2>2. /\ sendLock /\ HasFrame(u) /\ job[u].client \in Clients
        /\ rest[job[u].client] = <<Item(u)[1]>>
    BY <2>1 DEF HalfInv
  <2> QED BY <2>1, <2>2 DEF HasFrame, Item
<1>2. ASSUME NEW u \in Threads, NEW v \in Threads, Half(u)', Half(v)' PROVE u = v
  BY <1>2 DEF Half, HalfInv
<1>3. HalfInv' BY <1>1, <1>2 DEF HalfInv
<1>4. ASSUME NEW k \in Clients, rest'[k] # <<>>
      PROVE  /\ k <= accepted'
             /\ k \in open' => \E u \in Threads : job'[u].half /\ job'[u].client = k
  <2>1. /\ k <= accepted /\ k \in Nat
        /\ k \in open => \E u \in Threads : Half(u) /\ job[u].client = k
    BY <1>4, Constants DEF RestInv
  <2>2. k \in open' => k \in open BY <2>1
  <2> QED BY <2>1, <2>2 DEF Half
<1>5. RestInv' BY <1>4 DEF RestInv, Half
<1> QED BY <1>3, <1>5

LEMMA BeginFrameHalf ==
  ASSUME FakeTypeOK, HalfInv, RestInv, NEW t \in Threads, BeginFrame(t)
  PROVE  HalfInv' /\ RestInv'
<1>1. /\ HasFrame(t) /\ ~sendLock /\ job[t].client \in open /\ sendLock'
      /\ UNCHANGED <<at, sender, accepted, open>>
  BY DEF BeginFrame, serverVars, clientVars
<1>2. /\ \A u \in Threads : u # t => job'[u] = job[u]
      /\ job'[t].client = job[t].client /\ job'[t].script = job[t].script /\ job'[t].half
      /\ job[t].client \in Clients
  BY BeginFrameTypes
<1>3. \A u \in Threads : ~Half(u) BY <1>1 DEF HalfInv
<1>4. rest[job[t].client] = <<>> BY <1>1, <1>2, <1>3 DEF RestInv
<1>5. /\ rest'[job[t].client] = <<Item(t)[1]>>
      /\ \A k \in Clients : k # job[t].client => rest'[k] = rest[k]
  BY <1>2, <1>4 DEF BeginFrame, FakeTypeOK
<1>6. \A u \in Threads : job'[u].half => u = t BY <1>2, <1>3 DEF Half
<1>7. HasFrame(t)' /\ Item(t)' = Item(t) BY <1>1, <1>2 DEF HasFrame, Item, Sending
<1>8. HalfInv'
  <2>1. ASSUME NEW u \in Threads, Half(u)'
        PROVE  /\ sendLock' /\ HasFrame(u)' /\ job'[u].client \in Clients
               /\ rest'[job'[u].client] = <<Item(u)'[1]>>
    <3>1. u = t BY <1>6, <2>1 DEF Half
    <3> QED BY <1>1, <1>2, <1>5, <1>7, <3>1
  <2>2. ASSUME NEW u \in Threads, NEW v \in Threads, Half(u)', Half(v)' PROVE u = v
    BY <1>6, <2>2 DEF Half
  <2> QED BY <2>1, <2>2 DEF HalfInv
<1>9. RestInv'
  <2> SUFFICES ASSUME NEW k \in Clients, rest'[k] # <<>>
               PROVE  /\ k <= accepted
                      /\ k \in open => \E u \in Threads : job'[u].half /\ job'[u].client = k
    BY <1>1 DEF RestInv, Half
  <2>1. CASE k = job[t].client
    <3>1. k \in 1..accepted BY <1>1, <2>1 DEF FakeTypeOK
    <3> QED BY <1>2, <2>1, <3>1
  <2>2. CASE k # job[t].client
    <3>1. rest[k] # <<>> BY <1>5, <2>2
    <3> QED BY <1>3, <3>1 DEF RestInv
  <2> QED BY <2>1, <2>2
<1> QED BY <1>8, <1>9

\* A frame more, and what the client parsed of it.
LEMMA ParsedFrame ==
  ASSUME NEW R, NEW s \in Seq(R), NEW r \in R,
         NEW h, h = [i \in DOMAIN s |-> ParseLine(s[i].frame)]
  PROVE  Append(h, ParseLine(r.frame)) =
           [i \in DOMAIN Append(s, r) |-> ParseLine(Append(s, r)[i].frame)]
<1>1. DOMAIN s = 1..Len(s) /\ Len(s) \in Nat OBVIOUS
<1>2. PICK S : S = {ParseLine(s[i].frame) : i \in DOMAIN s} \cup {ParseLine(r.frame)} OBVIOUS
<1>3. h \in Seq(S) /\ Len(h) = Len(s) /\ ParseLine(r.frame) \in S
  <2>1. h \in [1..Len(s) -> S] BY <1>1, <1>2
  <2> QED BY <1>1, <1>2, <2>1
<1>4. PICK g : g = Append(h, ParseLine(r.frame)) OBVIOUS
<1>5. PICK q : q = Append(s, r) OBVIOUS
<1>6. /\ q \in Seq(R) /\ DOMAIN q = 1..Len(s) + 1 /\ q[Len(s) + 1] = r
      /\ \A i \in 1..Len(s) : q[i] = s[i]
  BY <1>1, <1>5
<1>7. /\ g \in Seq(S) /\ DOMAIN g = 1..Len(s) + 1 /\ g[Len(s) + 1] = ParseLine(r.frame)
      /\ \A i \in 1..Len(s) : g[i] = h[i]
  BY <1>1, <1>3, <1>4
<1>8. \A i \in 1..Len(s) + 1 : g[i] = ParseLine(q[i].frame)
  <2> SUFFICES ASSUME NEW i \in 1..Len(s) + 1 PROVE g[i] = ParseLine(q[i].frame) OBVIOUS
  <2>1. CASE i = Len(s) + 1 BY <1>6, <1>7, <2>1
  <2>2. CASE i \in 1..Len(s) BY <1>1, <1>6, <1>7, <2>2
  <2> QED BY <1>1, <2>1, <2>2
<1>9. g = [i \in DOMAIN g |-> g[i]] BY <1>7
<1> QED BY <1>4, <1>5, <1>6, <1>7, <1>8, <1>9

\* What is parsed when the second piece arrives is the whole frame.
LEMMA EndFrameHalf ==
  ASSUME FakeTypeOK, HalfInv, RestInv, FramesWhole, NEW t \in Threads, EndFrame(t)
  PROVE  HalfInv' /\ RestInv' /\ FramesWhole'
<1>1. PICK k : k = job[t].client OBVIOUS
<1>2. /\ Half(t) /\ HasFrame(t) /\ k \in Clients /\ rest[k] = <<Item(t)[1]>>
      /\ \A u \in Threads : Half(u) => u = t
  BY <1>1 DEF EndFrame, HalfInv, Half
<1>3. /\ \A u \in Threads : u # t => job'[u] = job[u]
      /\ ~job'[t].half /\ Item(t) \in Items
  BY <1>2, EndFrameTypes
<1>4. \A u \in Threads : ~job'[u].half BY <1>2, <1>3 DEF Half
<1>5. HalfInv' BY <1>4 DEF HalfInv, Half
<1>6. /\ rest'[k] = <<>> /\ \A h \in Clients : h # k => rest'[h] = rest[h]
      /\ UNCHANGED <<accepted, open>>
  BY <1>1, <1>2 DEF EndFrame, FakeTypeOK, serverVars, clientVars
<1>7. RestInv'
  <2> SUFFICES ASSUME NEW h \in Clients, rest'[h] # <<>>
               PROVE  h <= accepted /\ h \notin open
    BY <1>6 DEF RestInv
  <2>1. h # k /\ rest[h] # <<>> BY <1>6
  <2> QED BY <1>1, <1>2, <2>1 DEF RestInv
<1>8. FramesWhole'
  <2>1. rest[k] \o Tail(Item(t)) = Item(t) BY <1>2, <1>3, FrameParts
  <2>2. PICK f : f = Item(t) OBVIOUS
  <2>3. PICK r : r = [by |-> t, frame |-> f] OBVIOUS
  <2>4. /\ heard' = [heard EXCEPT ![k] = Append(@, ParseLine(f))]
        /\ sent' = [sent EXCEPT ![k] = Append(@, r)]
    BY <1>1, <2>1, <2>2, <2>3 DEF EndFrame
  <2>5. /\ sent \in [Clients -> Seq([by : Threads, frame : Items])]
        /\ \A h \in Clients : heard[h] = [i \in DOMAIN sent[h] |-> ParseLine(sent[h][i].frame)]
    BY DEF FramesWhole, FakeTypeOK
  <2>6. PICK R : R = [by : Threads, frame : Items] OBVIOUS
  <2>7. r \in R /\ r.frame = f BY <1>3, <2>2, <2>3, <2>6
  <2>8. ASSUME NEW h \in Clients
        PROVE  heard'[h] = [i \in DOMAIN sent'[h] |-> ParseLine(sent'[h][i].frame)]
    <3>1. CASE h = k
      <4>1. /\ heard'[h] = Append(heard[h], ParseLine(r.frame))
            /\ sent'[h] = Append(sent[h], r) /\ sent[h] \in Seq(R)
        BY <2>4, <2>5, <2>6, <2>7, <3>1 DEF FakeTypeOK
      <4>2. PICK s : s = sent[h] OBVIOUS
      <4>3. PICK g : g = heard[h] OBVIOUS
      <4>4. s \in Seq(R) /\ g = [i \in DOMAIN s |-> ParseLine(s[i].frame)]
        BY <2>5, <4>1, <4>2, <4>3
      <4>5. Append(g, ParseLine(r.frame)) =
              [i \in DOMAIN Append(s, r) |-> ParseLine(Append(s, r)[i].frame)]
        BY <2>7, <4>4, ParsedFrame
      <4>6. heard'[h] = Append(g, ParseLine(r.frame)) /\ sent'[h] = Append(s, r)
        BY <4>1, <4>2, <4>3
      <4> QED BY <4>5, <4>6
    <3>2. CASE h # k
      <4>1. heard'[h] = heard[h] /\ sent'[h] = sent[h]
        BY <2>4, <2>5, <3>2 DEF FakeTypeOK
      <4> QED BY <2>5, <4>1
    <3> QED BY <3>1, <3>2
  <2> QED BY <2>8 DEF FramesWhole
<1> QED BY <1>5, <1>7, <1>8

\* A script that ends leaves a piece of a line only to a client that is gone.
LEMMA EndsHalf ==
  ASSUME FakeTypeOK, HalfInv, RestInv, NEW t \in Threads, Ends(t)
  PROVE  HalfInv' /\ RestInv'
<1>1. /\ \A u \in Threads : u # t => job'[u] = job[u]
      /\ ~job'[t].half /\ UNCHANGED <<accepted, rest>> /\ open' \subseteq open
      /\ \A u \in Senders : u # t => sender'[u] = sender[u]
      /\ t # "server" => at' = at
      /\ (sendLock' = sendLock \/ (sendLock' = FALSE /\ (job[t].half \/ ~sendLock)))
      /\ (job[t].half => job[t].client \notin open \/ job[t].script = <<>> \/ ~sendLock)
  BY EndsReturned DEF streamVars
<1>2. CASE ~Half(t)
  <2>1. sendLock' = sendLock BY <1>1, <1>2 DEF Half, FakeTypeOK
  <2>2. \A u \in Threads : Half(u) => job'[u] = job[u] /\ (Sending(u) => Sending(u)')
    <3> SUFFICES ASSUME NEW u \in Threads, Half(u)
                 PROVE  job'[u] = job[u] /\ (Sending(u) => Sending(u)')
      OBVIOUS
    <3>1. u # t BY <1>2
    <3>2. CASE u = "server" BY <1>1, <3>1, <3>2 DEF Sending
    <3>3. CASE u # "server" BY <1>1, <3>1, <3>3 DEF Sending, Threads
    <3> QED BY <3>2, <3>3
  <2>3. \A u \in Threads : job'[u].half => Half(u) BY <1>1 DEF Half
  <2>4. accepted \in Nat BY OpenClients
  <2> QED BY <1>1, <2>1, <2>2, <2>3, <2>4, NoFrameStep
<1>3. CASE Half(t)
  <2>1. \A u \in Threads : Half(u) => u = t BY <1>3 DEF HalfInv
  <2>2. \A u \in Threads : ~job'[u].half BY <1>1, <2>1 DEF Half
  <2>3. HalfInv' BY <2>2 DEF HalfInv, Half
  <2>4. job[t].client \notin open BY <1>1, <1>3 DEF HalfInv, HasFrame, Half
  <2>5. RestInv' BY <1>1, <2>1, <2>4 DEF RestInv
  <2> QED BY <2>3, <2>5
<1> QED BY <1>2, <1>3

\* The steps that send nothing.
Quiet ==
  \/ Server \/ Stop \/ UNCHANGED vars
  \/ \E k \in Clients : ClientSends(k) \/ ClientLeaves(k)
  \/ \E t \in Senders : WaitEnds(t) \/ Capture(t)

LEMMA QuietHalf ==
  ASSUME FakeTypeOK, HalfInv, RestInv, Quiet
  PROVE  HalfInv' /\ RestInv' /\ UNCHANGED <<heard, sent>>
<1> USE DEF serverVars, sendVars, clientVars, streamVars
<1>1. accepted \in Nat /\ job \in [Threads -> Jobs] BY OpenClients DEF FakeTypeOK
<1>2. /\ UNCHANGED <<rest, heard, sent, sendLock>>
      /\ \/ accepted' = accepted /\ open' \subseteq open
         \/ accepted' = accepted + 1 /\ open' = open \cup {accepted + 1}
  <2>1. CASE Accept BY <2>1 DEF Accept
  <2>2. CASE CheckStop
    <3>1. UNCHANGED <<rest, heard, sent, sendLock, accepted>> BY <2>2 DEF CheckStop
    <3>2. open' \subseteq open BY <2>2 DEF CheckStop, CloseClient
    <3> QED BY <3>1, <3>2
  <2>3. CASE RecvEnds
    <3>1. UNCHANGED <<rest, heard, sent, sendLock, accepted>> BY <2>3 DEF RecvEnds
    <3>2. open' \subseteq open BY <2>3 DEF RecvEnds, CloseClient
    <3> QED BY <3>1, <3>2
  <2>4. CASE CheckAccept \/ AcceptTimesOut \/ RecvTimesOut \/ Recv \/ LinesDone
    BY <2>4 DEF CheckAccept, AcceptTimesOut, RecvTimesOut, Recv, LinesDone
  <2>5. CASE TakeLine \/ Stop \/ UNCHANGED vars BY <2>5 DEF TakeLine, Stop, vars
  <2>6. CASE \E k \in Clients : ClientSends(k) \/ ClientLeaves(k)
    BY <2>6 DEF ClientSends, ClientLeaves
  <2>7. CASE \E t \in Senders : WaitEnds(t) \/ Capture(t) BY <2>7 DEF WaitEnds, Capture
  <2> QED BY <2>1, <2>2, <2>3, <2>4, <2>5, <2>6, <2>7 DEF Quiet, Server
<1>3. \/ UNCHANGED job
      \/ TakeLine
      \/ \E t \in Senders : Capture(t)
  BY DEF Quiet, Server, CheckAccept, AcceptTimesOut, Accept, CheckStop, RecvTimesOut,
         RecvEnds, Recv, LinesDone, Stop, ClientSends, ClientLeaves, WaitEnds,
         CloseClient, vars
<1>4. at = "script" => at' = "script"
  BY DEF Quiet, Server, CheckAccept, AcceptTimesOut, Accept, CheckStop, RecvTimesOut,
         RecvEnds, Recv, LinesDone, TakeLine, Stop, ClientSends, ClientLeaves, WaitEnds,
         Capture, CloseClient, vars
<1>5. \A u \in Senders : sender[u] = "script" => sender'[u] = "script"
  BY DEF Quiet, Server, CheckAccept, AcceptTimesOut, Accept, CheckStop, RecvTimesOut,
         RecvEnds, Recv, LinesDone, TakeLine, Stop, ClientSends, ClientLeaves, WaitEnds,
         Capture, CloseClient, vars, FakeTypeOK
<1>6. \A u \in Threads : Sending(u) => Sending(u)'
  BY <1>4, <1>5 DEF Sending, Threads
<1>7. \A u \in Threads : Half(u) => Sending(u) BY DEF HalfInv, HasFrame
<1>8. /\ \A u \in Threads : Half(u) => job'[u] = job[u]
      /\ \A u \in Threads : job'[u].half => Half(u)
  <2>1. CASE UNCHANGED job BY <2>1 DEF Half
  <2>2. CASE TakeLine
    <3>1. /\ \A u \in Threads : u # "server" => job'[u] = job[u]
          /\ ~job'["server"].half
      BY <1>1, <2>2, Constants DEF TakeLine, NoJob
    <3>2. ~Half("server") BY <1>7, <2>2, Constants DEF TakeLine, Sending
    <3> QED BY <3>1, <3>2 DEF Half
  <2>3. ASSUME NEW t \in Senders, Capture(t)
        PROVE  /\ \A u \in Threads : Half(u) => job'[u] = job[u]
               /\ \A u \in Threads : job'[u].half => Half(u)
    <3>1. t \in Threads /\ t # "server" BY Constants DEF Threads
    <3>2. /\ \A u \in Threads : u # t => job'[u] = job[u]
          /\ job'[t] = job[t] \/ ~job'[t].half
      BY <1>1, <2>3, <3>1 DEF Capture, NoJob
    <3>3. ~Half(t) BY <1>7, <2>3, <3>1 DEF Capture, Sending
    <3> QED BY <3>2, <3>3 DEF Half
  <2> QED BY <1>3, <2>1, <2>2, <2>3
<1>9. /\ accepted' \in Nat /\ accepted <= accepted'
      /\ \A k \in open' : k \in open \/ k > accepted
  BY <1>1, <1>2
<1> QED BY <1>1, <1>2, <1>6, <1>8, <1>9, NoFrameStep

\* What a client was sent, and what it parsed, changes only when a frame ends.
LEMMA FramesStep ==
  ASSUME FakeTypeOK, HalfInv, RestInv, FramesWhole, [Next]_vars
  PROVE  HalfInv' /\ RestInv' /\ FramesWhole'
<1>1. ASSUME UNCHANGED <<heard, sent>> PROVE FramesWhole' BY <1>1 DEF FramesWhole
<1>2. CASE Quiet BY <1>1, <1>2, QuietHalf
<1>3. ASSUME NEW t \in Threads, Ends(t) PROVE HalfInv' /\ RestInv' /\ FramesWhole'
  BY <1>1, <1>3, EndsHalf, EndsReturned DEF streamVars
<1>4. ASSUME NEW t \in Threads, BeginFrame(t) PROVE HalfInv' /\ RestInv' /\ FramesWhole'
  BY <1>1, <1>4, BeginFrameHalf DEF BeginFrame
<1>5. ASSUME NEW t \in Threads, EndFrame(t) PROVE HalfInv' /\ RestInv' /\ FramesWhole'
  BY <1>5, EndFrameHalf
<1> QED BY <1>2, <1>3, <1>4, <1>5 DEF Next, Send, Ends, Quiet

-----------------------------------------------------------------------------
(* Answers. *)

IsAnswer(r) == r.by = "server" /\ ParseLine(r.frame).system = "ARM"
AnswersIn(q) == {i \in DOMAIN q : IsAnswer(q[i])}

\* An entry more in what a client was sent.
LEMMA AnswersAfter ==
  ASSUME NEW R, NEW s \in Seq(R), NEW r \in R
  PROVE  /\ Cardinality(AnswersIn(s)) \in Nat
         /\ Cardinality(AnswersIn(Append(s, r))) =
              Cardinality(AnswersIn(s)) + (IF IsAnswer(r) THEN 1 ELSE 0)
<1>1. PICK n : n = Len(s) + 1 OBVIOUS
<1>2. PICK q : q = Append(s, r) OBVIOUS
<1>3. /\ DOMAIN s = 1..n - 1 /\ n \in Nat \ {0} /\ n \notin DOMAIN s
      /\ DOMAIN q = 1..n /\ q[n] = r /\ \A i \in 1..n - 1 : q[i] = s[i]
  BY <1>1, <1>2
<1>4. IsFiniteSet(AnswersIn(s)) /\ Cardinality(AnswersIn(s)) \in Nat
  BY Positions DEF AnswersIn
<1>5. AnswersIn(q) = IF IsAnswer(r) THEN AnswersIn(s) \cup {n} ELSE AnswersIn(s)
  <2>1. \A i : i \in 1..n <=> i \in 1..n - 1 \/ i = n BY <1>3
  <2> QED BY <1>3, <2>1 DEF AnswersIn
<1>6. n \notin AnswersIn(s) BY <1>3 DEF AnswersIn
<1>7. Cardinality(AnswersIn(q)) = Cardinality(AnswersIn(s)) + (IF IsAnswer(r) THEN 1 ELSE 0)
  <2>1. PICK T : T = AnswersIn(s) OBVIOUS
  <2>2. IsFiniteSet(T) /\ Cardinality(T) \in Nat /\ n \notin T BY <1>4, <1>6, <2>1
  <2>3. Cardinality(T \cup {n}) = Cardinality(T) + 1 BY <2>2, FS_AddElement
  <2> QED BY <1>5, <2>1, <2>2, <2>3
<1> QED BY <1>2, <1>4, <1>7

\* What AnswerInv adds up.
LEMMA AnswerTypes ==
  ASSUME FakeTypeOK, NEW k \in Clients
  PROVE  /\ Answers(k) \in Nat /\ Owed(k) \in Nat /\ Waiting(k) \in Nat
         /\ asked[k] \in Nat
<1>1. job["server"].script \in Seq(Items)
  <2>1. job["server"] \in Jobs BY Constants DEF FakeTypeOK
  <2> QED BY <2>1 DEF Jobs
<1>2. Owed(k) \in Nat BY <1>1, AcksLeft DEF Owed
<1>3. Waiting(k) \in Nat /\ asked[k] \in Nat BY DEF Waiting, FakeTypeOK
<1>4. sent[k] \in Seq([by : Threads, frame : Items]) BY DEF FakeTypeOK
<1>5. PICK s, R : s = sent[k] /\ s \in Seq(R) BY <1>4
<1>6. {i \in DOMAIN s : s[i].by = "server" /\ ParseLine(s[i].frame).system = "ARM"}
        \in SUBSET DOMAIN s
  OBVIOUS
<1>7. Answers(k) \in Nat BY <1>5, <1>6, Positions DEF Answers
<1> QED BY <1>2, <1>3, <1>7

LEMMA Products ==
  /\ \A n, m \in Nat : n <= m => ScriptAcks * n <= ScriptAcks * m
  /\ \A n \in Nat : ScriptAcks * n \in Nat /\ ScriptAcks * (n + 1) = ScriptAcks * n + ScriptAcks
<1>1. ScriptAcks \in Nat BY Constants
<1>2. \A n \in Nat : ScriptAcks * n \in Nat /\ ScriptAcks * (n + 1) = ScriptAcks * n + ScriptAcks
  BY <1>1
<1>3. ASSUME NEW n \in Nat, NEW m \in Nat, n <= m PROVE ScriptAcks * n <= ScriptAcks * m
  <2>1. PICK d \in Nat : m = n + d /\ d = m - n BY <1>3
  <2>2. ScriptAcks * (n + d) = ScriptAcks * n + ScriptAcks * d /\ ScriptAcks * d \in Nat
    BY <1>1
  <2>3. ScriptAcks * n \in Nat BY <1>1
  <2> QED BY <2>1, <2>2, <2>3
<1> QED BY <1>2, <1>3

\* A step that answers nothing and takes no new command.
LEMMA NoMore ==
  ASSUME FakeTypeOK, FakeTypeOK', AnswerInv, UNCHANGED asked,
         \A k \in Clients : Answers(k)' = Answers(k)
                           /\ Owed(k)' <= Owed(k) /\ Waiting(k)' <= Waiting(k)
  PROVE  AnswerInv'
<1> SUFFICES ASSUME NEW k \in Clients
             PROVE  (Answers(k) + Owed(k) + ScriptAcks * Waiting(k) <= ScriptAcks * asked[k])'
  BY DEF AnswerInv
<1>1. Answers(k)' = Answers(k) /\ asked'[k] = asked[k] OBVIOUS
<1>2. /\ Answers(k) \in Nat /\ Owed(k) \in Nat /\ Waiting(k) \in Nat /\ asked[k] \in Nat
      /\ Owed(k)' \in Nat /\ Waiting(k)' \in Nat
  <2>1. /\ Answers(k) \in Nat /\ Owed(k) \in Nat /\ Waiting(k) \in Nat /\ asked[k] \in Nat
    BY AnswerTypes
  <2>2. (/\ Answers(k) \in Nat /\ Owed(k) \in Nat /\ Waiting(k) \in Nat /\ asked[k] \in Nat)'
    BY AnswerTypes, PTL
  <2> QED BY <2>1, <2>2
<1>3. PICK a, o, w, q, o1, w1 \in Nat :
        /\ a = Answers(k) /\ o = Owed(k) /\ w = Waiting(k) /\ q = asked[k]
        /\ o1 = Owed(k)' /\ w1 = Waiting(k)'
  BY <1>2
<1>4. o1 <= o /\ w1 <= w BY <1>3
<1>5. a + o + ScriptAcks * w <= ScriptAcks * q BY <1>3 DEF AnswerInv
<1>6. /\ ScriptAcks * w1 <= ScriptAcks * w /\ ScriptAcks * w \in Nat
      /\ ScriptAcks * w1 \in Nat /\ ScriptAcks * q \in Nat
  BY <1>4, Products
<1>7. a + o1 + ScriptAcks * w1 <= ScriptAcks * q BY <1>4, <1>5, <1>6
<1> QED BY <1>1, <1>3, <1>7

\* The server's script changes only as it is taken and sent, and when it is given up.
LEMMA ServerJob ==
  ASSUME FakeTypeOK, HalfInv, [Next]_vars, ~TakeLine
  PROVE  /\ UNCHANGED scripts
         /\ job'["server"].client = job["server"].client
         /\ \/ job'["server"].script = job["server"].script
            \/ job'["server"].script = <<>>
            \/ EndFrame("server")
<1> USE DEF serverVars, sendVars, clientVars, streamVars
<1>1. job \in [Threads -> Jobs] /\ "server" \in Threads /\ "server" \notin Senders
  BY Constants DEF FakeTypeOK
<1>2. CASE UNCHANGED <<scripts, job>> BY <1>2
<1>3. CASE CheckAccept \/ AcceptTimesOut \/ RecvTimesOut \/ Recv \/ LinesDone \/ Accept
  BY <1>2, <1>3 DEF CheckAccept, AcceptTimesOut, RecvTimesOut, Recv, LinesDone, Accept
<1>4. CASE CheckStop \/ RecvEnds \/ Stop \/ UNCHANGED vars
  BY <1>2, <1>4 DEF CheckStop, RecvEnds, Stop, vars
<1>5. CASE \E k \in Clients : ClientSends(k) \/ ClientLeaves(k)
  BY <1>2, <1>5 DEF ClientSends, ClientLeaves
<1>6. CASE \E t \in Senders : WaitEnds(t) \/ Capture(t)
  <2>1. UNCHANGED scripts /\ job'["server"] = job["server"]
    BY <1>1, <1>6 DEF WaitEnds, Capture
  <2> QED BY <2>1
<1>7. ASSUME NEW t \in Threads, Send(t), ~EndFrame("server")
      PROVE  /\ UNCHANGED scripts
             /\ job'["server"].client = job["server"].client
             /\ \/ job'["server"].script = job["server"].script
                \/ job'["server"].script = <<>>
  <2>1. CASE BeginFrame(t)
    <3>1. UNCHANGED scripts BY <2>1 DEF BeginFrame
    <3> QED BY <1>1, <2>1, <3>1, BeginFrameTypes
  <2>2. CASE EndFrame(t)
    <3>1. t # "server" /\ HasFrame(t) BY <1>7, <2>2 DEF EndFrame, HalfInv, Half
    <3>2. UNCHANGED scripts BY <2>2 DEF EndFrame
    <3> QED BY <1>1, <2>2, <3>1, <3>2, EndFrameTypes
  <2>3. CASE Ends(t)
    <3>1. /\ \A u \in Threads : u # t => job'[u] = job[u]
          /\ job'[t].client = job[t].client /\ job'[t].script = <<>> /\ UNCHANGED scripts
      BY <2>3, EndsReturned
    <3> QED BY <1>1, <3>1
  <2> QED BY <1>7, <2>1, <2>2, <2>3 DEF Send, Ends
<1>8. ASSUME EndFrame("server")
      PROVE UNCHANGED scripts /\ job'["server"].client = job["server"].client
  <2>1. HasFrame("server") BY <1>1, <1>8 DEF EndFrame, HalfInv, Half
  <2>2. UNCHANGED scripts BY <1>8 DEF EndFrame
  <2> QED BY <1>1, <1>8, <2>1, <2>2, EndFrameTypes
<1> QED BY <1>3, <1>4, <1>5, <1>6, <1>7, <1>8 DEF Next, Server

\* What the server takes when a command comes.
LEMMA TakenScript ==
  ASSUME FakeTypeOK, ScriptsInv, TakeLine
  PROVE  /\ job'["server"].client = accepted /\ job'["server"].script \in Seq(Items)
         /\ AcksIn(job'["server"].script) <= ScriptAcks
         /\ \A i \in DOMAIN scripts' : AcksIn(scripts'[i]) <= ScriptAcks
<1>1. PICK script : script = IF scripts = <<>> THEN Fallback ELSE Head(scripts) OBVIOUS
<1>2. job \in [Threads -> Jobs] /\ "server" \in Threads /\ scripts \in Seq(Seq(Items))
  BY Constants DEF FakeTypeOK
<1>3. job'["server"].client = accepted /\ job'["server"].script = script
  BY <1>1, <1>2 DEF TakeLine, NoJob
<1>4. script \in Seq(Items) BY <1>1, <1>2, Scripts, FakeAssumption
<1>5. PICK q : q = scripts OBVIOUS
<1>6. q \in Seq(Seq(Items)) /\ \A i \in DOMAIN q : AcksIn(q[i]) <= ScriptAcks
  BY <1>2, <1>5 DEF ScriptsInv
<1>7. q # <<>> => /\ 1 \in DOMAIN q /\ Head(q) = q[1]
                  /\ \A i \in DOMAIN Tail(q) : i + 1 \in DOMAIN q /\ Tail(q)[i] = q[i + 1]
  BY <1>6
<1>8. AcksIn(script) <= ScriptAcks
  BY <1>1, <1>5, <1>6, <1>7, FakeAssumption
<1>9. scripts' = IF q = <<>> THEN q ELSE Tail(q) BY <1>5 DEF TakeLine
<1>10. \A i \in DOMAIN scripts' : AcksIn(scripts'[i]) <= ScriptAcks
  BY <1>6, <1>7, <1>9
<1> QED BY <1>3, <1>4, <1>8, <1>10

\* No script at hand acknowledges more than ScriptAcks times.
LEMMA ScriptsStep ==
  ASSUME FakeTypeOK, HalfInv, ScriptsInv, [Next]_vars
  PROVE  ScriptsInv'
<1>1. CASE TakeLine BY <1>1, TakenScript DEF ScriptsInv
<1>2. CASE ~TakeLine
  <2>1. PICK q : q = job["server"].script OBVIOUS
  <2>2. q \in Seq(Items) /\ AcksIn(q) <= ScriptAcks /\ ScriptAcks \in Nat
    <3>1. job["server"] \in Jobs BY Constants DEF FakeTypeOK
    <3> QED BY <2>1, <3>1, Constants DEF Jobs, ScriptsInv
  <2>3. \/ job'["server"].script = q \/ job'["server"].script = <<>>
        \/ q # <<>> /\ job'["server"].script = Tail(q)
    <3>1. ASSUME EndFrame("server") PROVE q # <<>> /\ job'["server"].script = Tail(q)
      <4>1. HasFrame("server") BY <3>1, Constants DEF EndFrame, HalfInv, Half
      <4> QED BY <2>1, <3>1, <4>1, EndFrameTypes, Constants
    <3> QED BY <1>2, <2>1, <3>1, ServerJob
  <2>4. AcksIn(<<>>) = 0 BY AcksLeft, Scripts
  <2>5. q # <<>> => AcksIn(Tail(q)) \in Nat /\ AcksIn(Tail(q)) <= AcksIn(q)
    <3>1. q # <<>> => Tail(q) \in Seq(Items) BY <2>2, Scripts
    <3>2. q # <<>> => AcksIn(Tail(q)) \in Nat BY <3>1, AcksLeft
    <3>3. q # <<>> => AcksIn(q) = AcksIn(Tail(q)) +
                        (IF ParseLine(Head(q)).system = "ARM" THEN 1 ELSE 0)
      BY <2>2, AcksLeft
    <3> QED BY <3>2, <3>3
  <2>6. AcksIn(q) \in Nat BY <2>2, AcksLeft
  <2>7. PICK p : p = job'["server"].script OBVIOUS
  <2>8. AcksIn(p) <= ScriptAcks
    <3>1. CASE p = q BY <2>2, <3>1
    <3>2. CASE p = <<>> BY <2>2, <2>4, <3>2
    <3>3. CASE q # <<>> /\ p = Tail(q) BY <2>2, <2>5, <2>6, <3>3
    <3> QED BY <2>3, <2>7, <3>1, <3>2, <3>3
  <2> QED BY <1>2, <2>7, <2>8, ServerJob DEF ScriptsInv
<1> QED BY <1>1, <1>2

\* The answers that were written and are to be written, when no script is taken
\* and the server ends no frame.
LEMMA SameAnswers ==
  ASSUME FakeTypeOK, HalfInv, [Next]_vars, ~TakeLine, ~EndFrame("server"), NEW k \in Clients
  PROVE  Answers(k)' = Answers(k) /\ Owed(k)' <= Owed(k)
<1>1. Owed(k)' <= Owed(k)
  <2>1. PICK q, p : q = job["server"].script /\ p = job'["server"].script OBVIOUS
  <2>2. (p = q \/ p = <<>>) /\ job'["server"].client = job["server"].client
    BY <2>1, ServerJob
  <2>3. q \in Seq(Items)
    <3>1. job["server"] \in Jobs BY Constants DEF FakeTypeOK
    <3> QED BY <2>1, <3>1 DEF Jobs
  <2>4. AcksIn(q) \in Nat /\ (p = <<>> => AcksIn(p) = 0) BY <2>2, <2>3, AcksLeft, Scripts
  <2>5. AcksIn(p) <= AcksIn(q) BY <2>2, <2>4
  <2> QED BY <2>1, <2>2, <2>5 DEF Owed
<1>2. Answers(k)' = Answers(k)
  <2>1. CASE UNCHANGED sent BY <2>1 DEF Answers
  <2>2. ASSUME NEW t \in Threads, EndFrame(t) PROVE Answers(k)' = Answers(k)
    <3>1. PICK s, R : s = sent[k] /\ s \in Seq(R) /\ R = [by : Threads, frame : Items]
      BY DEF FakeTypeOK
    <3>2. PICK r : r = [by |-> t, frame |-> Item(t)] OBVIOUS
    <3>3. t # "server" /\ HasFrame(t) BY <2>2 DEF EndFrame, HalfInv, Half
    <3>4. r \in R /\ ~IsAnswer(r)
      BY <2>2, <3>1, <3>2, <3>3, EndFrameTypes DEF IsAnswer
    <3>5. sent'[k] = s \/ sent'[k] = Append(s, r)
      BY <2>2, <3>1, <3>2 DEF EndFrame, FakeTypeOK
    <3>6. Cardinality(AnswersIn(Append(s, r))) = Cardinality(AnswersIn(s))
      <4>1. Cardinality(AnswersIn(s)) \in Nat /\ Cardinality(AnswersIn(Append(s, r))) =
              Cardinality(AnswersIn(s)) + (IF IsAnswer(r) THEN 1 ELSE 0)
        BY <3>1, <3>4, AnswersAfter
      <4> QED BY <3>4, <4>1
    <3>7. PICK s1 : s1 = sent'[k] OBVIOUS
    <3>8. /\ Answers(k) = Cardinality(AnswersIn(s))
          /\ Answers(k)' = Cardinality(AnswersIn(s1))
      BY <3>1, <3>7 DEF Answers, AnswersIn, IsAnswer
    <3> QED BY <3>5, <3>6, <3>7, <3>8
  <2>3. CASE Quiet
    BY <2>1, <2>3 DEF Quiet, Server, CheckAccept, AcceptTimesOut, Accept, CheckStop,
         RecvTimesOut, RecvEnds, Recv, LinesDone, TakeLine, Stop, ClientSends, ClientLeaves,
         WaitEnds, Capture, vars, streamVars
  <2>4. ASSUME NEW t \in Threads, BeginFrame(t) \/ Ends(t) PROVE Answers(k)' = Answers(k)
    BY <2>1, <2>4, EndsReturned DEF BeginFrame, streamVars
  <2> QED BY <2>2, <2>3, <2>4 DEF Next, Send, Ends, Quiet
<1> QED BY <1>1, <1>2

\* A command of client k.
LEMMA ClientSendsAnswers ==
  ASSUME FakeTypeOK, HalfInv, AnswerInv, NEW k \in Clients, ClientSends(k)
  PROVE  AnswerInv'
<1> SUFFICES ASSUME NEW h \in Clients
             PROVE  (Answers(h) + Owed(h) + ScriptAcks * Waiting(h) <= ScriptAcks * asked[h])'
  BY DEF AnswerInv
<1>1. UNCHANGED <<sent, job, accepted, lines>>
  BY DEF ClientSends, streamVars, sendVars, serverVars
<1>2. Answers(h)' = Answers(h) /\ Owed(h)' = Owed(h) BY <1>1 DEF Answers, Owed
<1>3. /\ Waiting(h)' = IF h = k THEN Waiting(h) + 1 ELSE Waiting(h)
      /\ asked'[h] = IF h = k THEN asked[h] + 1 ELSE asked[h]
  <2>1. /\ commands'[h] = IF h = k THEN commands[h] + 1 ELSE commands[h]
        /\ asked'[h] = IF h = k THEN asked[h] + 1 ELSE asked[h]
        /\ commands[h] \in Nat /\ lines \in Nat
    BY DEF ClientSends, FakeTypeOK
  <2>2. PICK l \in Nat : l = (IF h = accepted THEN lines ELSE 0) BY <2>1
  <2>3. Waiting(h) = commands[h] + l /\ Waiting(h)' = commands'[h] + l
    BY <1>1, <2>2 DEF Waiting
  <2> QED BY <2>1, <2>3
<1>4. PICK a, o, w, q \in Nat :
        a = Answers(h) /\ o = Owed(h) /\ w = Waiting(h) /\ q = asked[h]
  BY AnswerTypes
<1>5. a + o + ScriptAcks * w <= ScriptAcks * q BY <1>4 DEF AnswerInv
<1>6. /\ ScriptAcks * w \in Nat /\ ScriptAcks * q \in Nat /\ ScriptAcks \in Nat
      /\ ScriptAcks * (w + 1) = ScriptAcks * w + ScriptAcks
      /\ ScriptAcks * (q + 1) = ScriptAcks * q + ScriptAcks
  BY Products, Constants
<1>7. a + o + ScriptAcks * (w + 1) <= ScriptAcks * (q + 1) BY <1>5, <1>6
<1> QED BY <1>2, <1>3, <1>4, <1>5, <1>7

\* A command that waited is what the script that is taken answers.
LEMMA TakeLineAnswers ==
  ASSUME FakeTypeOK, ScriptsInv, AnswerInv, TakeLine
  PROVE  AnswerInv'
<1> SUFFICES ASSUME NEW h \in Clients
             PROVE  (Answers(h) + Owed(h) + ScriptAcks * Waiting(h) <= ScriptAcks * asked[h])'
  BY DEF AnswerInv
<1>1. UNCHANGED <<sent, asked, commands, accepted>> /\ lines > 0 /\ lines' = lines - 1
  BY DEF TakeLine, clientVars, streamVars
<1>2. Answers(h)' = Answers(h) BY <1>1 DEF Answers
<1>3. PICK a, o, w, q \in Nat :
        a = Answers(h) /\ o = Owed(h) /\ w = Waiting(h) /\ q = asked[h]
  BY AnswerTypes
<1>4. a + o + ScriptAcks * w <= ScriptAcks * q BY <1>3 DEF AnswerInv
<1>5. PICK p : p = job'["server"].script OBVIOUS
<1>6. /\ job'["server"].client = accepted /\ AcksIn(p) \in Nat /\ AcksIn(p) <= ScriptAcks
  BY <1>5, TakenScript, AcksLeft
<1>7. Owed(h)' = IF accepted = h THEN AcksIn(p) ELSE 0 BY <1>5, <1>6 DEF Owed
<1>8. CASE h = accepted
  <2>1. commands[h] \in Nat /\ lines \in Nat BY DEF FakeTypeOK
  <2>2. PICK v \in Nat : v = commands[h] + (lines - 1) BY <1>1, <2>1
  <2>3. Waiting(h)' = v BY <1>1, <1>8, <2>2 DEF Waiting
  <2>4. w = v + 1 BY <1>1, <1>3, <1>8, <2>1, <2>2 DEF Waiting
  <2>5. /\ ScriptAcks * v \in Nat /\ ScriptAcks \in Nat /\ ScriptAcks * q \in Nat
        /\ ScriptAcks * w = ScriptAcks * v + ScriptAcks
    BY <2>4, Products, Constants
  <2>6. a + AcksIn(p) + ScriptAcks * v <= ScriptAcks * q BY <1>4, <1>6, <2>5
  <2> QED BY <1>1, <1>2, <1>3, <1>7, <1>8, <2>3, <2>6
<1>9. CASE h # accepted
  <2>1. Waiting(h)' = Waiting(h) BY <1>1, <1>9 DEF Waiting
  <2>2. ScriptAcks * w \in Nat /\ ScriptAcks * q \in Nat BY Products
  <2>3. a + 0 + ScriptAcks * w <= ScriptAcks * q BY <1>4, <2>2
  <2> QED BY <1>1, <1>2, <1>3, <1>7, <1>9, <2>1, <2>3
<1> QED BY <1>8, <1>9

\* An acknowledgement that is written was owed.
LEMMA EndFrameAnswers ==
  ASSUME FakeTypeOK, HalfInv, AnswerInv, EndFrame("server")
  PROVE  AnswerInv'
<1> SUFFICES ASSUME NEW h \in Clients
             PROVE  (Answers(h) + Owed(h) + ScriptAcks * Waiting(h) <= ScriptAcks * asked[h])'
  BY DEF AnswerInv
<1>1. UNCHANGED <<asked, commands, accepted, lines>>
  BY DEF EndFrame, clientVars, serverVars
<1>2. "server" \in Threads /\ HasFrame("server") BY Constants DEF EndFrame, HalfInv, Half
<1>3. PICK k, q, r :
        /\ k = job["server"].client /\ q = job["server"].script
        /\ r = [by |-> "server", frame |-> Item("server")]
  OBVIOUS
<1>4. /\ job'["server"].client = k /\ job'["server"].script = Tail(q)
      /\ k \in Clients /\ q \in Seq(Items) /\ q # <<>> /\ Head(q) \in Items
      /\ r = [by |-> "server", frame |-> Head(q)]
  BY <1>2, <1>3, EndFrameTypes, Scripts DEF Item
<1>5. PICK R : R = [by : Threads, frame : Items] OBVIOUS
<1>6. r \in R /\ (IsAnswer(r) <=> ParseLine(Head(q)).system = "ARM")
  BY <1>2, <1>4, <1>5 DEF IsAnswer
<1>7. PICK s, s1 : s = sent[h] /\ s1 = sent'[h] OBVIOUS
<1>8. s \in Seq(R) /\ s1 = IF h = k THEN Append(s, r) ELSE s
  BY <1>3, <1>5, <1>7 DEF EndFrame, FakeTypeOK
<1>9. PICK d \in Nat : d = (IF ParseLine(Head(q)).system = "ARM" THEN 1 ELSE 0) OBVIOUS
<1>10. PICK x, y \in Nat : x = AcksIn(q) /\ y = AcksIn(Tail(q)) /\ x = y + d
  <2>1. AcksIn(q) \in Nat /\ AcksIn(Tail(q)) \in Nat BY <1>4, Scripts, AcksLeft
  <2>2. AcksIn(q) = AcksIn(Tail(q)) + (IF ParseLine(Head(q)).system = "ARM" THEN 1 ELSE 0)
    BY <1>4, AcksLeft
  <2> QED BY <1>9, <2>1, <2>2
<1>11. PICK a, c \in Nat :
         a = Cardinality(AnswersIn(s)) /\ c = Cardinality(AnswersIn(Append(s, r))) /\ c = a + d
  <2>1. /\ Cardinality(AnswersIn(s)) \in Nat
        /\ Cardinality(AnswersIn(Append(s, r))) =
             Cardinality(AnswersIn(s)) + (IF IsAnswer(r) THEN 1 ELSE 0)
    BY <1>6, <1>8, AnswersAfter
  <2> QED BY <1>6, <1>9, <2>1
<1>12. /\ Answers(h) = Cardinality(AnswersIn(s))
       /\ Answers(h)' = Cardinality(AnswersIn(s1))
  BY <1>7 DEF Answers, AnswersIn, IsAnswer
<1>13. PICK w, n \in Nat : w = Waiting(h) /\ n = asked[h] BY AnswerTypes
<1>14. Waiting(h)' = w /\ asked'[h] = n BY <1>1, <1>13 DEF Waiting
<1>15. /\ Owed(h) = (IF h = k THEN x ELSE 0)
       /\ Owed(h)' = (IF h = k THEN y ELSE 0)
  BY <1>3, <1>4, <1>10 DEF Owed
<1>16. Answers(h) + Owed(h) + ScriptAcks * w <= ScriptAcks * n BY <1>13 DEF AnswerInv
<1>17. ScriptAcks * w \in Nat /\ ScriptAcks * n \in Nat BY Products
<1>18. CASE h = k
  <2>1. a + x + ScriptAcks * w <= ScriptAcks * n BY <1>11, <1>12, <1>15, <1>16, <1>18
  <2>2. c + y + ScriptAcks * w <= ScriptAcks * n BY <1>10, <1>11, <1>17, <2>1
  <2>3. Answers(h)' = c /\ Owed(h)' = y BY <1>8, <1>11, <1>12, <1>15, <1>18
  <2> QED BY <1>14, <2>2, <2>3
<1>19. CASE h # k
  <2>1. Answers(h)' = Answers(h) /\ Owed(h)' = Owed(h) BY <1>8, <1>12, <1>15, <1>19
  <2> QED BY <1>14, <1>16, <2>1
<1> QED BY <1>18, <1>19

\* No other step lets commands wait that did not wait before.
LEMMA SameWaiting ==
  ASSUME FakeTypeOK, [Next]_vars, NEW k \in Clients, ~\E h \in Clients : ClientSends(h)
  PROVE  UNCHANGED asked /\ Waiting(k)' <= Waiting(k)
<1> USE DEF serverVars, sendVars, clientVars, streamVars
<1>1. /\ commands[k] \in Nat /\ lines \in Nat /\ accepted \in Nat
      /\ commands \in [Clients -> Nat]
  BY OpenClients DEF FakeTypeOK
<1>2. ASSUME UNCHANGED <<asked, commands, accepted>>, lines' \in {lines, 0, lines - 1},
             lines' \in Nat
      PROVE  UNCHANGED asked /\ Waiting(k)' <= Waiting(k)
  BY <1>1, <1>2 DEF Waiting
<1>3. CASE Accept
  <2>1. lines = 0 BY <1>3 DEF Accept, FakeTypeOK
  <2> QED BY <1>1, <1>3, <2>1 DEF Accept, Waiting
<1>4. CASE Recv
  <2>1. /\ commands'[k] = IF k = accepted THEN 0 ELSE commands[k]
        /\ lines' = lines + commands[accepted] /\ UNCHANGED <<asked, accepted>>
    BY <1>1, <1>4 DEF Recv
  <2> QED BY <1>1, <2>1 DEF Waiting
<1>5. CASE CheckAccept \/ AcceptTimesOut \/ RecvTimesOut \/ LinesDone \/ Stop \/ UNCHANGED vars
  BY <1>1, <1>2, <1>5 DEF CheckAccept, AcceptTimesOut, RecvTimesOut, LinesDone, Stop, vars
<1>6. CASE CheckStop \/ RecvEnds BY <1>1, <1>2, <1>6 DEF CheckStop, RecvEnds, CloseClient
<1>7. CASE TakeLine
  <2>1. UNCHANGED <<asked, commands, accepted>> /\ lines' = lines - 1 /\ lines > 0
    BY <1>7 DEF TakeLine
  <2> QED BY <1>1, <1>2, <2>1
<1>8. CASE \E h \in Clients : ClientLeaves(h) BY <1>1, <1>2, <1>8 DEF ClientLeaves
<1>9. CASE \E t \in Senders : WaitEnds(t) \/ Capture(t)
  BY <1>1, <1>2, <1>9 DEF WaitEnds, Capture
<1>10. ASSUME NEW t \in Threads, Ends(t) PROVE UNCHANGED asked /\ Waiting(k)' <= Waiting(k)
  <2>1. UNCHANGED <<asked, commands, accepted>> /\ (lines' = lines \/ lines' = 0)
    BY <1>10, EndsReturned
  <2> QED BY <1>1, <1>2, <2>1
<1>11. ASSUME NEW t \in Threads, BeginFrame(t) \/ EndFrame(t)
       PROVE  UNCHANGED asked /\ Waiting(k)' <= Waiting(k)
  BY <1>1, <1>2, <1>11 DEF BeginFrame, EndFrame
<1> QED BY <1>3, <1>4, <1>5, <1>6, <1>7, <1>8, <1>9, <1>10, <1>11 DEF Next, Server, Send, Ends

\* Every answer is for a command of the client that gets it.
LEMMA AnswerStep ==
  ASSUME FakeTypeOK, HalfInv, ScriptsInv, AnswerInv, [Next]_vars
  PROVE  AnswerInv'
<1>1. CASE TakeLine BY <1>1, TakeLineAnswers
<1>2. CASE EndFrame("server") BY <1>2, EndFrameAnswers
<1>3. CASE \E k \in Clients : ClientSends(k) BY <1>3, ClientSendsAnswers
<1>4. CASE ~TakeLine /\ ~EndFrame("server") /\ ~\E k \in Clients : ClientSends(k)
  <2>1. \A k \in Clients : Answers(k)' = Answers(k) /\ Owed(k)' <= Owed(k)
    BY <1>4, SameAnswers
  <2>2. \A k \in Clients : UNCHANGED asked /\ Waiting(k)' <= Waiting(k)
    BY <1>4, SameWaiting
  <2>3. FakeTypeOK' BY FakeTypeStep
  <2>4. CASE Clients = {} BY <2>4 DEF AnswerInv
  <2>5. CASE Clients # {}
    <3>1. UNCHANGED asked BY <2>2, <2>5
    <3> QED BY <2>1, <2>2, <2>3, <3>1, NoMore
  <2> QED BY <2>4, <2>5
<1> QED BY <1>1, <1>2, <1>3, <1>4

-----------------------------------------------------------------------------
(* The theorems. *)

LEMMA InitKInv == Init => KInv
<1> SUFFICES ASSUME Init PROVE KInv OBVIOUS
<1>1. FakeTypeOK BY InitFakeTypes
<1>2. /\ \A t \in Threads : job[t].half = FALSE /\ job[t].script = <<>>
      /\ \A k \in Clients : rest[k] = <<>> /\ heard[k] = <<>> /\ sent[k] = <<>>
                            /\ commands[k] = 0 /\ asked[k] = 0
      /\ lines = 0 /\ scripts = CommandScripts /\ "server" \in Threads
  BY Constants DEF Init, NoJob
<1>3. HalfInv /\ RestInv BY <1>2 DEF HalfInv, RestInv, Half
<1>4. FramesWhole
  <2>1. \A f : <<>> = [i \in DOMAIN <<>> |-> f] OBVIOUS
  <2> QED BY <1>2, <2>1 DEF FramesWhole
<1>5. AcksIn(<<>>) = 0 BY AcksLeft, Scripts
<1>6. ScriptsInv BY <1>2, <1>5, FakeAssumption, Constants DEF ScriptsInv
<1>7. AnswerInv
  <2> SUFFICES ASSUME NEW k \in Clients
               PROVE  Answers(k) + Owed(k) + ScriptAcks * Waiting(k) <= ScriptAcks * asked[k]
    BY DEF AnswerInv
  <2>1. Answers(k) = 0
    <3>1. {i \in DOMAIN sent[k] :
             sent[k][i].by = "server" /\ ParseLine(sent[k][i].frame).system = "ARM"} = {}
      BY <1>2, Scripts
    <3> QED BY <3>1, FS_EmptySet DEF Answers
  <2>2. Owed(k) = 0 BY <1>2, <1>5 DEF Owed
  <2>3. Waiting(k) = 0 /\ asked[k] = 0 BY <1>2 DEF Waiting
  <2>4. ScriptAcks * 0 = 0 BY Constants
  <2> QED BY <2>1, <2>2, <2>3, <2>4
<1> QED BY <1>1, <1>3, <1>4, <1>6, <1>7 DEF KInv

LEMMA KInvStep == KInv /\ [Next]_vars => KInv'
BY FakeTypeStep, FramesStep, ScriptsStep, AnswerStep DEF KInv

\* In every execution of the test double, for any scripts and any number of
\* senders, clients and commands: a frame that is half sent is the only one, its
\* sender holds _client_send_lock and its client nothing but the first piece, and
\* every acknowledgement a client may still get is for a command of its own.
THEOREM FakeInvariance == Spec => []KInv
<1>1. Init => KInv BY InitKInv
<1>2. KInv /\ [Next]_vars => KInv' BY KInvStep
<1> QED BY <1>1, <1>2, PTL DEF Spec

\* FramesWhole: the server thread's frames and the senders' reach the client one
\* after the other, and each is parsed as the frame that was meant.
THEOREM FramesWholeHolds == Spec => []FramesWhole
<1>1. KInv => FramesWhole BY DEF KInv
<1> QED BY <1>1, FakeInvariance, PTL

\* AcksAnswerCommands: what a connection leaves in the buffer is never answered on
\* the next one, nor is a command answered again.
THEOREM AcksAnswerCommandsHolds == Spec => []AcksAnswerCommands
<1>1. KInv => AcksAnswerCommands
  <2> SUFFICES ASSUME KInv, NEW k \in Clients PROVE Answers(k) <= ScriptAcks * asked[k]
    BY DEF AcksAnswerCommands
  <2>1. PICK a, o, w, q \in Nat :
          a = Answers(k) /\ o = Owed(k) /\ w = Waiting(k) /\ q = asked[k]
    BY AnswerTypes DEF KInv
  <2>2. a + o + ScriptAcks * w <= ScriptAcks * q BY <2>1 DEF KInv, AnswerInv
  <2>3. ScriptAcks * w \in Nat /\ ScriptAcks * q \in Nat BY Products
  <2>4. a <= ScriptAcks * q BY <2>2, <2>3
  <2> QED BY <2>1, <2>4
<1> QED BY <1>1, FakeInvariance, PTL
=============================================================================
