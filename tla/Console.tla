------------------------------- MODULE Console -------------------------------
(***************************************************************************)
(* The commands of crabclaw/cli/commands.py that talk to the agent: `agent' *)
(* and `chat' with a prompt, both with the AgentLoop of agent/loop.py as   *)
(* the other end of a MessageBus, and the choice of ports of `gateway'.    *)
(*                                                                         *)
(* A prompt is its number, and so is the reply to it.  Progress messages,  *)
(* which this AgentLoop never sends, and the time-outs of the two polling  *)
(* loops, after which they poll again, are left out.                       *)
(***************************************************************************)
EXTENDS Integers, Sequences

CONSTANTS
  MaxPrompts,       \* bound on what the user asks
  MaxPort           \* stands for 65536, ports are 1..MaxPort-1

ASSUME ConsoleAssumption == MaxPrompts \in Nat /\ MaxPort \in Nat /\ MaxPort > 4

VARIABLES
  command,       \* the command given: "agent", "chat", "message" (-m) or "gateway"
  prompt,        \* where it is
  attempts,      \* passwords that may still be tried
  asked,         \* prompts submitted
  toAgent,       \* MessageBus.inbound
  thinking,      \* the prompt the provider is called with, 0 for none
  speechless,    \* prompts the provider had no text for
  toUser,        \* MessageBus.outbound
  turnDone, turnResponse,
  printed,       \* [turn, reply] for each reply shown
  listener, collector,    \* the two tasks: "running", "cancelled" or "ended"
  busyPorts,         \* ports other programs listen on
  wanted,        \* the options --port, --dashboard-http-port and --dashboard-ws-port
  ports          \* the ports of the gateway, its dashboard and its websocket

chatVars    == <<prompt, attempts, asked, toAgent, thinking, speechless, toUser, turnDone, turnResponse,
                 printed, listener, collector>>
consoleVars == <<command, chatVars, busyPorts, wanted, ports>>

DefaultPort == 1       \* 18790; the dashboard's are the next two
NotGiven    == 0
NoPorts     == [gateway |-> 0, http |-> 0, ws |-> 0]

ConsoleInit ==
  /\ command \in {"agent", "chat", "message", "gateway"}
  /\ prompt = CASE command = "chat" -> "password" [] command = "gateway" -> "ports"
                [] OTHER -> "reading"
  /\ attempts = 3 /\ asked = 0 /\ toAgent = <<>> /\ thinking = 0 /\ speechless = {} /\ toUser = <<>>
  /\ turnDone = TRUE /\ turnResponse = <<>> /\ printed = <<>>
  /\ listener = "running" /\ collector = "running"
  /\ busyPorts \in SUBSET (1..MaxPort - 1)
  /\ wanted \in [port : {DefaultPort, 2}, http : {NotGiven, 3}, ws : {NotGiven, 4}]
  /\ ports = NoPorts
  /\ command # "gateway" => busyPorts = {} /\ wanted = [port |-> DefaultPort, http |-> NotGiven, ws |-> NotGiven]

-----------------------------------------------------------------------------
(* The user's side of a conversation.                                      *)

\* `chat' asks for a password first, three times at most.
Authenticate(right) ==
  /\ prompt = "password"
  /\ attempts' = IF right THEN attempts ELSE attempts - 1
  /\ prompt' = CASE right -> "reading" [] ~right /\ attempts > 1 -> "password" [] OTHER -> "closed"
  /\ UNCHANGED <<asked, toAgent, thinking, speechless, toUser, turnDone, turnResponse, printed, listener, collector>>

\* With -m the message goes to process_direct, which has no mind to give it to:
\* nothing sets _sapiens_core, and the answer is always the same error.
NotInitialized == 0
Direct ==
  /\ command = "message" /\ prompt = "reading"
  /\ asked' = 1
  /\ printed' = <<[turn |-> 1, reply |-> NotInitialized]>>
  /\ prompt' = "closed"
  /\ UNCHANGED <<attempts, toAgent, thinking, speechless, toUser, turnDone, turnResponse, listener, collector>>

\* Fault seed: turn_done is still set from the turn before.
SubmitUncleared ==
  /\ command # "message" /\ prompt = "reading" /\ asked < MaxPrompts
  /\ asked' = asked + 1
  /\ turnResponse' = <<>> /\ UNCHANGED turnDone
  /\ toAgent' = Append(toAgent, asked')
  /\ prompt' = "waiting"
  /\ UNCHANGED <<attempts, thinking, speechless, toUser, printed, listener, collector>>

Submit ==
  /\ command # "message" /\ prompt = "reading" /\ asked < MaxPrompts
  /\ asked' = asked + 1
  /\ turnDone' = FALSE /\ turnResponse' = <<>>
  /\ toAgent' = Append(toAgent, asked')
  /\ prompt' = "waiting"
  /\ UNCHANGED <<attempts, thinking, speechless, toUser, printed, listener, collector>>

Continue ==
  /\ prompt = "waiting" /\ turnDone
  /\ printed' = IF turnResponse = <<>> THEN printed
                ELSE Append(printed, [turn |-> asked, reply |-> Head(turnResponse)])
  /\ prompt' = "reading"
  /\ UNCHANGED <<attempts, asked, toAgent, thinking, speechless, toUser, turnDone, turnResponse, listener, collector>>

\* "exit", or the end of the input: both tasks are cancelled and waited for.
Leave ==
  /\ command # "message" /\ prompt = "reading"
  /\ prompt' = "leaving"
  /\ listener' = "cancelled" /\ collector' = "cancelled"
  /\ UNCHANGED <<attempts, asked, toAgent, thinking, speechless, toUser, turnDone, turnResponse, printed>>

Close ==
  /\ prompt = "leaving" /\ listener = "ended" /\ collector = "ended"
  /\ prompt' = "closed"
  /\ UNCHANGED <<attempts, asked, toAgent, thinking, speechless, toUser, turnDone, turnResponse, printed, listener, collector>>

\* Ctrl+C ends the process at once.
Interrupt ==
  /\ command # "message" /\ prompt \in {"reading", "waiting", "leaving"}
  /\ prompt' = "killed"
  /\ UNCHANGED <<attempts, asked, toAgent, thinking, speechless, toUser, turnDone, turnResponse, printed, listener, collector>>

Collect ==
  /\ prompt # "killed" /\ collector = "running" /\ toUser # <<>>
  /\ toUser' = Tail(toUser)
  /\ turnDone' = TRUE
  /\ IF turnDone
     THEN /\ printed' = Append(printed, [turn |-> asked, reply |-> Head(toUser)])
          /\ UNCHANGED turnResponse
     ELSE /\ turnResponse' = Append(turnResponse, Head(toUser))
          /\ UNCHANGED printed
  /\ UNCHANGED <<prompt, attempts, asked, toAgent, thinking, speechless, listener, collector>>

CollectorEnds ==
  /\ prompt # "killed" /\ collector = "cancelled"
  /\ collector' = "ended"
  /\ UNCHANGED <<prompt, attempts, asked, toAgent, thinking, speechless, toUser, turnDone, turnResponse, printed, listener>>

-----------------------------------------------------------------------------
(* AgentLoop.run.                                                          *)
Receive ==
  /\ prompt # "killed" /\ listener = "running" /\ thinking = 0 /\ toAgent # <<>>
  /\ thinking' = Head(toAgent) /\ toAgent' = Tail(toAgent)
  /\ UNCHANGED <<prompt, attempts, asked, speechless, toUser, turnDone, turnResponse, printed, listener, collector>>

\* A call that fails is answered with the error; one that returns no text, or only
\* blanks, is not answered at all.
Answer(text) ==
  /\ prompt # "killed" /\ listener = "running" /\ thinking # 0
  /\ toUser' = IF text THEN Append(toUser, thinking) ELSE toUser
  /\ speechless' = IF text THEN speechless ELSE speechless \cup {thinking}
  /\ thinking' = 0
  /\ UNCHANGED <<prompt, attempts, asked, toAgent, turnDone, turnResponse, printed, listener, collector>>

ListenerEnds ==
  /\ prompt # "killed" /\ listener = "cancelled"
  /\ listener' = "ended" /\ thinking' = 0
  /\ UNCHANGED <<prompt, attempts, asked, toAgent, speechless, toUser, turnDone, turnResponse, printed, collector>>

-----------------------------------------------------------------------------
(* `gateway' looks for ports that are free when it starts.                 *)
Free(p) == p \notin busyPorts
FirstFree(from) ==
  IF \E p \in from..MaxPort - 1 : Free(p)
  THEN CHOOSE p \in from..MaxPort - 1 : Free(p) /\ \A q \in from..p - 1 : ~Free(q)
  ELSE MaxPort

GatewayPort ==
  IF wanted.port = DefaultPort /\ ~Free(DefaultPort) THEN FirstFree(DefaultPort + 1) ELSE wanted.port

HttpPort == IF wanted.http # NotGiven THEN wanted.http ELSE FirstFree(GatewayPort + 1)

\* Next to the port of the dashboard in the configuration, unless --port is the default.
ConfiguredHttp == IF wanted.http = NotGiven THEN HttpPort ELSE DefaultPort + 1

WsPort ==
  CASE wanted.ws # NotGiven         -> wanted.ws
    [] wanted.ws = NotGiven /\ wanted.port # DefaultPort -> FirstFree(ConfiguredHttp + 1)
    [] OTHER                        -> FirstFree(GatewayPort + 2)

\* A port that is asked for and not free, or none left: the command ends.
PickPorts ==
  /\ prompt = "ports"
  /\ LET found == [gateway |-> GatewayPort, http |-> HttpPort, ws |-> WsPort]
         good  == \A k \in DOMAIN found : found[k] < MaxPort /\ Free(found[k])
     IN /\ ports' = IF good THEN found ELSE ports
        /\ prompt' = IF good THEN "serving" ELSE "closed"
  /\ UNCHANGED <<command, attempts, asked, toAgent, thinking, speechless, toUser, turnDone, turnResponse, printed,
                 listener, collector, busyPorts, wanted>>

-----------------------------------------------------------------------------
Converse ==
  \/ \E right \in BOOLEAN : Authenticate(right)
  \/ Direct \/ Submit \/ Continue \/ Leave \/ Close \/ Interrupt \/ Collect \/ CollectorEnds
  \/ Receive \/ ListenerEnds
  \/ \E text \in BOOLEAN : Answer(text)

ConsoleNext == PickPorts \/ (Converse /\ UNCHANGED <<command, busyPorts, wanted, ports>>)

ConsoleSpec == ConsoleInit /\ [][ConsoleNext]_consoleVars

-----------------------------------------------------------------------------
\* The variables keep their types.
ConsoleTypeOK ==
  /\ command \in {"agent", "chat", "message", "gateway"}
  /\ prompt \in {"password", "reading", "waiting", "leaving", "closed", "killed", "ports", "serving"}
  /\ attempts \in 0..3 /\ asked \in 0..(MaxPrompts + 1) /\ thinking \in 0..MaxPrompts
  /\ {toAgent, toUser, turnResponse} \subseteq Seq(1..MaxPrompts)
  /\ speechless \subseteq 1..MaxPrompts /\ turnDone \in BOOLEAN
  /\ \A i \in DOMAIN printed : printed[i].turn \in 1..(MaxPrompts + 1) /\ printed[i].reply \in 0..MaxPrompts
  /\ {listener, collector} \subseteq {"running", "cancelled", "ended"}
  /\ busyPorts \subseteq 1..MaxPort - 1 /\ \A k \in DOMAIN ports : ports[k] \in 0..MaxPort - 1

\* What is printed under a prompt is the reply to it, and once; a prompt that waits
\* has its reply on the way, unless the provider had nothing to say.
TurnsPaired ==
  /\ \A i \in DOMAIN printed : printed[i].reply \in {printed[i].turn, NotInitialized}
  /\ \A i, j \in DOMAIN printed : i < j => printed[i].turn < printed[j].turn
  /\ prompt = "waiting" =>
       \/ asked \in speechless \/ thinking = asked
       \/ \E i \in DOMAIN toAgent : toAgent[i] = asked
       \/ \E i \in DOMAIN toUser : toUser[i] = asked
       \/ \E i \in DOMAIN turnResponse : turnResponse[i] = asked

\* The gateway and its dashboard listen on ports nobody has and never on the same
\* one, unless the user gives some of them, or gives none while the port after
\* the default one is taken.
PortsDistinct ==
  prompt = "serving" =>
    /\ \A k \in DOMAIN ports : Free(ports[k])
    /\ \/ wanted.http # NotGiven \/ wanted.ws # NotGiven
       \/ wanted.port = DefaultPort /\ ~Free(ports.gateway + 1)
       \/ \A k, l \in DOMAIN ports : k # l => ports[k] # ports[l]

(* What the command line shows: replies under their prompts, and ports that  *)
(* are its own.                                                              *)
ConsoleKept == TurnsPaired /\ PortsDistinct
=============================================================================
