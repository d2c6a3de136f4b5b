----------------------------- MODULE FakeEsp32 -----------------------------
(***************************************************************************)
(* The test double of the device (tools/fake_esp32_server.py), which the   *)
(* repository's tests run against the backend: a server thread that        *)
(* serves one client at a time and answers every command with the next     *)
(* script, and senders that push frames to the active client from other    *)
(* threads.  A frame is a line of LineProtocol, written in two pieces; the *)
(* client reads lines and parses them.  The buffers of a socket never fill *)
(* (frames of some tens of bytes), so only a closed connection fails a     *)
(* send.                                                                   *)
(***************************************************************************)
EXTENDS LineProtocol, FiniteSets

CONSTANTS
  CommandScripts,  \* the scripts for the first commands, each a sequence of items
  Fallback,        \* the script of every further command
  ScriptAcks,      \* the most acknowledgements in any of these scripts
  Senders,         \* threads that call send_unsolicited, once each
  Unsolicited,     \* the script they send
  MaxClients,      \* bound: connections
  MaxCommands      \* bound: commands of all clients together

Clients == 1..MaxClients
NoClient == 0

\* An item of a script: a line of at least one field, or DisconnectFrame.
Items == Seq(STRING) \ {<<>>}
Disconnect == <<"DISCONNECT">>

\* The acknowledgements of a script.
AcksIn(script) == Cardinality({i \in DOMAIN script : ParseLine(script[i]).system = "ARM"})

ASSUME FakeAssumption ==
  /\ MaxClients \in Nat /\ MaxCommands \in Nat
  /\ "server" \notin Senders
  /\ CommandScripts \in Seq(Seq(Items))
  /\ Fallback \in Seq(Items) /\ Unsolicited \in Seq(Items)
  /\ ScriptAcks \in Nat /\ AcksIn(Fallback) <= ScriptAcks
  /\ \A i \in DOMAIN CommandScripts : AcksIn(CommandScripts[i]) <= ScriptAcks

Threads == Senders \cup {"server"}
NoJob == [client |-> NoClient, script |-> <<>>, half |-> FALSE]

VARIABLES
  at,            \* server thread: next, accept, check, recv, lines, script, ended
  accepted,      \* clients accepted so far; the last one is served
  active,        \* _active_client; its event is set when there is one
  scripts,       \* _command_scripts
  lines,         \* complete commands in the buffer
  stop,          \* _stop_event
  sender,        \* send_unsolicited: idle, woken, script, sent, cut, gone, timeout
  job,           \* _send_script of each thread
  sendLock,      \* _client_send_lock
  commands,      \* commands each client sent that are not received yet
  asked,         \* commands each client sent
  open,          \* connections nobody closed or shut down
  rest, heard,   \* what each client holds of a line; its parsed lines
  sent           \* history: the frames written completely to each client, and who wrote them

serverVars == <<at, accepted, active, scripts, lines, stop>>
sendVars == <<sender, job, sendLock>>
clientVars == <<commands, asked, open>>
streamVars == <<rest, heard, sent>>
vars == <<serverVars, sendVars, clientVars, streamVars>>

Init ==
  /\ at = "next" /\ accepted = 0 /\ active = NoClient
  /\ scripts = CommandScripts /\ lines = 0 /\ stop = FALSE
  /\ sender = [t \in Senders |-> "idle"] /\ job = [t \in Threads |-> NoJob]
  /\ sendLock = FALSE
  /\ commands = [k \in Clients |-> 0] /\ asked = [k \in Clients |-> 0] /\ open = {}
  /\ rest = [k \in Clients |-> <<>>] /\ heard = [k \in Clients |-> <<>>]
  /\ sent = [k \in Clients |-> <<>>]

-----------------------------------------------------------------------------
(* Clients *)

ClientSends(k) ==
  /\ k \in open /\ asked[k] < MaxCommands
  /\ asked' = [asked EXCEPT ![k] = @ + 1] /\ commands' = [commands EXCEPT ![k] = @ + 1]
  /\ UNCHANGED <<serverVars, sendVars, open, streamVars>>

ClientLeaves(k) ==
  /\ k \in open /\ open' = open \ {k}
  /\ UNCHANGED <<serverVars, sendVars, commands, asked, streamVars>>

-----------------------------------------------------------------------------
(* Server thread *)

\* The test of _stop_event before each accept; stop() only joins the thread, for a second.
CheckAccept ==
  /\ at = "next" /\ at' = IF stop THEN "ended" ELSE "accept"
  /\ UNCHANGED <<accepted, active, scripts, lines, stop, sendVars, clientVars, streamVars>>

AcceptTimesOut ==
  /\ at = "accept" /\ at' = "next"
  /\ UNCHANGED <<accepted, active, scripts, lines, stop, sendVars, clientVars, streamVars>>

Accept ==
  /\ at = "accept" /\ accepted < MaxClients
  /\ at' = "check" /\ accepted' = accepted + 1 /\ active' = accepted + 1
  /\ open' = open \cup {accepted + 1}
  /\ UNCHANGED <<scripts, lines, stop, sendVars, commands, asked, streamVars>>

\* Mutant: the buffer belongs to the server, not to the connection.
CloseKeepingBuffer ==
  /\ at' = "next" /\ active' = NoClient /\ lines' = lines
  /\ open' = open \ {accepted}

\* The end of `with client', and _clear_active_client: the buffer goes with it.
CloseClient ==
  /\ at' = "next" /\ active' = NoClient /\ lines' = 0
  /\ open' = open \ {accepted}

\* Mutant: the inner loop does not look at _stop_event.
CheckNothing ==
  /\ at = "check" /\ at' = "recv"
  /\ UNCHANGED <<accepted, active, scripts, lines, stop, sendVars, clientVars, streamVars>>

\* The test of _stop_event before each recv.
CheckStop ==
  /\ at = "check"
  /\ IF stop THEN CloseClient ELSE at' = "recv" /\ UNCHANGED <<active, lines, open>>
  /\ UNCHANGED <<accepted, scripts, stop, sendVars, commands, asked, streamVars>>

RecvTimesOut ==
  /\ at = "recv" /\ at' = "check"
  /\ UNCHANGED <<accepted, active, scripts, lines, stop, sendVars, clientVars, streamVars>>

RecvEnds ==
  /\ at = "recv" /\ accepted \notin open
  /\ CloseClient
  /\ UNCHANGED <<accepted, scripts, stop, sendVars, commands, asked, streamVars>>

Recv ==
  /\ at = "recv" /\ commands[accepted] > 0
  /\ at' = "lines" /\ lines' = lines + commands[accepted]
  /\ commands' = [commands EXCEPT ![accepted] = 0]
  /\ UNCHANGED <<accepted, active, scripts, stop, sendVars, asked, open, streamVars>>

LinesDone ==
  /\ at = "lines" /\ lines = 0 /\ at' = "check"
  /\ UNCHANGED <<accepted, active, scripts, lines, stop, sendVars, clientVars, streamVars>>

\* A command takes the next script, whatever it says.
TakeLine ==
  /\ at = "lines" /\ lines > 0
  /\ at' = "script" /\ lines' = lines - 1
  /\ job' = [job EXCEPT !["server"] =
       [NoJob EXCEPT !.client = accepted,
                     !.script = IF scripts = <<>> THEN Fallback ELSE Head(scripts)]]
  /\ scripts' = IF scripts = <<>> THEN <<>> ELSE Tail(scripts)
  /\ UNCHANGED <<accepted, active, stop, sender, sendLock, clientVars, streamVars>>

Stop ==
  /\ ~stop /\ stop' = TRUE
  /\ UNCHANGED <<at, accepted, active, scripts, lines, sendVars, clientVars, streamVars>>

-----------------------------------------------------------------------------
(* send_unsolicited *)

WaitEnds(t) ==
  /\ sender[t] = "idle"
  /\ sender' = [sender EXCEPT ![t] = IF active = NoClient THEN "timeout" ELSE "woken"]
  /\ UNCHANGED <<serverVars, job, sendLock, clientVars, streamVars>>

\* The event was set, but the client may have gone since.
Capture(t) ==
  /\ sender[t] = "woken"
  /\ \/ /\ active = NoClient /\ sender' = [sender EXCEPT ![t] = "gone"]
        /\ UNCHANGED job
     \/ /\ active # NoClient /\ sender' = [sender EXCEPT ![t] = "script"]
        /\ job' = [job EXCEPT ![t] = [NoJob EXCEPT !.client = active, !.script = Unsolicited]]
  /\ UNCHANGED <<serverVars, sendLock, clientVars, streamVars>>

-----------------------------------------------------------------------------
(* _send_script, by the server thread and the senders *)

Sending(t) == IF t = "server" THEN at = "script" ELSE sender[t] = "script"
Item(t) == Head(job[t].script)
HasFrame(t) == Sending(t) /\ job[t].script # <<>> /\ Item(t) # Disconnect

\* The script returns: the server goes on with its lines or drops the client.
Returned(t, ok, stillOpen) ==
  /\ job' = [job EXCEPT ![t].script = <<>>, ![t].half = FALSE]
  /\ IF t # "server"
       THEN /\ sender' = [sender EXCEPT ![t] = IF ok THEN "sent" ELSE "cut"]
            /\ open' = stillOpen /\ UNCHANGED serverVars
       ELSE /\ UNCHANGED <<accepted, scripts, stop, sender>>
            /\ IF ok THEN at' = "lines" /\ open' = stillOpen /\ UNCHANGED <<active, lines>>
                     ELSE CloseClient

ScriptDone(t) ==
  /\ Sending(t) /\ job[t].script = <<>>
  /\ Returned(t, TRUE, open)
  /\ UNCHANGED <<sendLock, commands, asked, streamVars>>

\* DisconnectFrame
HangUp(t) ==
  /\ Sending(t) /\ job[t].script # <<>> /\ Item(t) = Disconnect /\ ~sendLock
  /\ Returned(t, FALSE, open \ {job[t].client})
  /\ UNCHANGED <<sendLock, commands, asked, streamVars>>

\* Mutant: frames are sent without the lock.
BeginUnlocked(t) ==
  /\ HasFrame(t) /\ ~job[t].half /\ job[t].client \in open
  /\ sendLock' = TRUE /\ job' = [job EXCEPT ![t].half = TRUE]
  /\ rest' = [rest EXCEPT ![job[t].client] = Append(@, Item(t)[1])]
  /\ UNCHANGED <<serverVars, sender, clientVars, heard, sent>>

BeginFrame(t) ==
  /\ HasFrame(t) /\ ~sendLock /\ job[t].client \in open
  /\ sendLock' = TRUE /\ job' = [job EXCEPT ![t].half = TRUE]
  /\ rest' = [rest EXCEPT ![job[t].client] = Append(@, Item(t)[1])]
  /\ UNCHANGED <<serverVars, sender, clientVars, heard, sent>>

\* The other fields and the end of line.
EndFrame(t) ==
  LET k == job[t].client IN
  /\ job[t].half /\ k \in open
  /\ sendLock' = FALSE
  /\ job' = [job EXCEPT ![t].half = FALSE, ![t].script = Tail(@)]
  /\ heard' = [heard EXCEPT ![k] = Append(@, ParseLine(rest[k] \o Tail(Item(t))))]
  /\ rest' = [rest EXCEPT ![k] = <<>>]
  /\ sent' = [sent EXCEPT ![k] = Append(@, [by |-> t, frame |-> Item(t)])]
  /\ UNCHANGED <<serverVars, sender, clientVars>>

\* sendall raises OSError.
SendFails(t) ==
  /\ HasFrame(t) /\ (job[t].half \/ ~sendLock) /\ job[t].client \notin open
  /\ sendLock' = FALSE
  /\ Returned(t, FALSE, open)
  /\ UNCHANGED <<commands, asked, streamVars>>

\* The delay before an item is cut short by _stop_event.
DelayCut(t) ==
  /\ stop /\ Sending(t) /\ job[t].script # <<>> /\ ~job[t].half
  /\ Returned(t, FALSE, open)
  /\ UNCHANGED <<sendLock, commands, asked, streamVars>>

-----------------------------------------------------------------------------
Server ==
  \/ CheckAccept \/ AcceptTimesOut \/ Accept
  \/ CheckStop \/ RecvTimesOut \/ RecvEnds \/ Recv \/ LinesDone \/ TakeLine
Send(t) ==
  ScriptDone(t) \/ HangUp(t) \/ BeginFrame(t) \/ EndFrame(t) \/ SendFails(t) \/ DelayCut(t)

Next ==
  \/ Server \/ Stop
  \/ \E k \in Clients : ClientSends(k) \/ ClientLeaves(k)
  \/ \E t \in Senders : WaitEnds(t) \/ Capture(t)
  \/ \E t \in Threads : Send(t)

\* The threads of the tool run; clients and the test that calls stop() owe nothing.
Spec ==
  Init /\ [][Next]_vars /\ WF_vars(Server) /\ \A t \in Threads : WF_vars(Send(t))

-----------------------------------------------------------------------------
(* Properties *)

\* The frames of the server thread and of the senders reach the client one after the other:
\* every line it gets is parsed as the frame that was meant (_client_send_lock).
FramesWhole ==
  \A k \in Clients : heard[k] = [i \in DOMAIN sent[k] |-> ParseLine(sent[k][i].frame)]

\* The acknowledgements the server thread wrote to a client.
Answers(k) ==
  Cardinality({i \in DOMAIN sent[k] :
    sent[k][i].by = "server" /\ ParseLine(sent[k][i].frame).system = "ARM"})

\* A client is answered for no more commands than it sent: what a connection
\* leaves in the buffer is never answered on the next one.
AcksAnswerCommands == \A k \in Clients : Answers(k) <= ScriptAcks * asked[k]

\* stop() ends the server thread, also with a client that stays and says nothing.
StopEnds == stop ~> at = "ended"
=============================================================================
