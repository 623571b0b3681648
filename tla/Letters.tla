------------------------------- MODULE Letters -------------------------------
(***************************************************************************)
(* What agents write to each other over ClawSocial                         *)
(* (crabclaw/skills/clawsocial/scripts): WebSocketClient.send_message of    *)
(* one agent, which waits for an acknowledgement, and the receive loops of *)
(* the agents it writes to, which run the same code.  The router between   *)
(* them may lose letters and acknowledgements, repeat them and pass them   *)
(* on in any order.  A letter is the number of its send_message.           *)
(***************************************************************************)
EXTENDS ClawSocial, Sequences, Functions, Dicts

CONSTANTS
  Peers,       \* the agents written to
  KeyHolders,  \* those whose public key is registered
  Wordings,       \* contents
  MaxSends,    \* bound on the letters
  MaxClock,    \* bound on the milliseconds
  MaxStarts    \* bound on the clients a peer makes

ASSUME LettersAssumption ==
  KeyHolders \subseteq Peers /\ {MaxSends, MaxClock} \subseteq Nat /\ MaxStarts \in Nat \ {0}

VARIABLES
  clock,     \* the time of the last letter, in milliseconds
  sends,     \* the letters: to whom, msg_id, and the key they are encrypted with, 0 without
  sendStage,     \* how far send_message is: "sending", "waiting" or "ended"
  answer,    \* its future: "open", "acked", "cancelled" by the time-out, or the send "failed"
  pending,   \* _pending_acks: msg_id -> letter
  routed,      \* the letters the router has
  acks,      \* the acknowledgements it has: msg_id and who sent it
  starts,    \* peer -> the clients it made; each has a key pair of its own
  inHand,    \* peer -> the letter its receive loop handles, and whether it acknowledged it
  read,      \* the letters that were handed to the bus
  cut        \* those acknowledged by a receive loop that was cancelled then

letterVars == <<clock, sends, sendStage, answer, pending, routed, acks, starts, inHand, read, cut>>
senderVars == <<clock, sends, sendStage, answer, pending>>
peerVars   == <<starts, inHand, read, cut>>

Letter == DOMAIN sends
NoLetter == [letter |-> 0, acked |-> FALSE]

LettersInit ==
  /\ clock = 0
  /\ sends = <<>> /\ sendStage = <<>> /\ answer = <<>> /\ pending = <<>>
  /\ routed = {} /\ acks = {}
  /\ starts = [p \in Peers |-> 1] /\ inHand = [p \in Peers |-> NoLetter]
  /\ read = {} /\ cut = {}

-----------------------------------------------------------------------------
(* The sender.  Its connection may be lost at any time (module ClawSocial): *)
(* a letter then fails, and no acknowledgement comes.                      *)

\* send_message up to its first await.  The msg_id is the time and the hash of the
\* content; without the key of the addressee, or if it is told so, the letter goes as it is.
SendMessage(peer, wording, encrypt) ==
  \E time \in clock..MaxClock :
  LET id == <<time, wording>> IN
  /\ Len(sends) < MaxSends /\ clock' = time
  /\ sends' = Append(sends, [to |-> peer, id |-> id, key |-> IF encrypt /\ peer \in KeyHolders THEN 1 ELSE 0])
  /\ sendStage' = Append(sendStage, "sending") /\ answer' = Append(answer, "open")
  /\ pending' = WithEntry(pending, id, Len(sends'))

\* The websocket has taken the letter.
Sent(n) ==
  /\ sendStage[n] = "sending" /\ n \in routed
  /\ sendStage' = [sendStage EXCEPT ![n] = "waiting"]
  /\ UNCHANGED <<clock, sends, answer, pending>>

\* wait_for cancels the future; the caller resumes later.
TimesOut(n) ==
  /\ sendStage[n] = "waiting" /\ answer[n] = "open"
  /\ answer' = [answer EXCEPT ![n] = "cancelled"]
  /\ UNCHANGED <<clock, sends, sendStage, pending>>

\* Fault seed: the entry goes with the acknowledgement only.
DropAcked(n) ==
  pending' = IF answer'[n] = "acked" THEN Restrict(pending, DOMAIN pending \ {sends[n].id}) ELSE pending

\* The finally clause removes the entry of the msg_id, whoever made it.
DropEntry(n) == pending' = Restrict(pending, DOMAIN pending \ {sends[n].id})

\* The websocket raises.
SendFails(n) ==
  /\ sendStage[n] = "sending"
  /\ sendStage' = [sendStage EXCEPT ![n] = "ended"] /\ answer' = [answer EXCEPT ![n] = "failed"]
  /\ DropEntry(n)
  /\ UNCHANGED <<clock, sends>>

Returns(n) ==
  /\ sendStage[n] = "waiting" /\ answer[n] # "open"
  /\ sendStage' = [sendStage EXCEPT ![n] = "ended"]
  /\ DropEntry(n)
  /\ UNCHANGED <<clock, sends, answer>>

\* _handle_message of an acknowledgement.  A future that is done already raises, and
\* the receive loop goes on.
AckComes(a) ==
  /\ a.id \in DOMAIN pending
  /\ LET n == pending[a.id] IN answer[n] = "open" /\ answer' = [answer EXCEPT ![n] = "acked"]
  /\ UNCHANGED <<clock, sends, sendStage, pending>>

\* The letter is with the router, maybe before the sender knows.
Departs(n) ==
  /\ sendStage[n] = "sending"
  /\ routed' = routed \cup {n}
  /\ UNCHANGED <<senderVars, acks, peerVars>>

-----------------------------------------------------------------------------
(* The peers.  _handle_message awaits once, while the acknowledgement is sent. *)

TakeLetter(p, n) ==
  /\ inHand[p] = NoLetter /\ n \in routed /\ sends[n].to = p
  /\ inHand' = [inHand EXCEPT ![p] = [letter |-> n, acked |-> FALSE]]
  /\ UNCHANGED <<senderVars, routed, acks, starts, read, cut>>

AckDeparts(p) ==
  /\ inHand[p] # NoLetter /\ ~inHand[p].acked
  /\ acks' = acks \cup {[id |-> sends[inHand[p].letter].id, from |-> p]}
  /\ inHand' = [inHand EXCEPT ![p].acked = TRUE]
  /\ UNCHANGED <<senderVars, routed, starts, read, cut>>

\* What is encrypted is read with the key pair of the client it came to.
CanDecrypt(n) == sends[n].key \in {0, starts[sends[n].to]}

\* on_message, which hands the letter to the bus, if it could be decrypted.
Handled(p) ==
  /\ inHand[p].acked
  /\ read' = IF CanDecrypt(inHand[p].letter) THEN read \cup {inHand[p].letter} ELSE read
  /\ inHand' = [inHand EXCEPT ![p] = NoLetter]
  /\ UNCHANGED <<senderVars, routed, acks, starts, cut>>

\* The connection is closed before the acknowledgement is out.
AckFails(p) ==
  /\ inHand[p] # NoLetter /\ ~inHand[p].acked
  /\ inHand' = [inHand EXCEPT ![p] = NoLetter]
  /\ UNCHANGED <<senderVars, routed, acks, starts, read, cut>>

\* disconnect() cancels the receive loop where it awaits, and a new client starts.
PeerRestarts(p) ==
  /\ starts[p] < MaxStarts
  /\ starts' = [starts EXCEPT ![p] = @ + 1]
  /\ cut' = IF inHand[p].acked THEN cut \cup {inHand[p].letter} ELSE cut
  /\ inHand' = [inHand EXCEPT ![p] = NoLetter]
  /\ UNCHANGED <<senderVars, routed, acks, read>>

SenderStep ==
  /\ \/ \E peer \in Peers, wording \in Wordings, encrypt \in BOOLEAN : SendMessage(peer, wording, encrypt)
     \/ \E n \in Letter : Sent(n) \/ TimesOut(n) \/ SendFails(n) \/ Returns(n)
     \/ \E a \in acks : AckComes(a)
  /\ UNCHANGED <<routed, acks, peerVars>>

LettersNext ==
  \/ SenderStep
  \/ \E n \in Letter : Departs(n)
  \/ \E p \in Peers : \/ AckDeparts(p) \/ Handled(p) \/ AckFails(p) \/ PeerRestarts(p)
                      \/ \E n \in routed : TakeLetter(p, n)

LettersSpec == LettersInit /\ [][LettersNext]_letterVars

-----------------------------------------------------------------------------
\* The variables keep their types.
LettersTypeOK ==
  /\ clock \in 0..MaxClock
  /\ \A n \in Letter : sends[n] \in [to : Peers, id : (0..MaxClock) \X Wordings, key : {0, 1}]
  /\ Letter = DOMAIN sendStage /\ Letter = DOMAIN answer /\ routed \cup read \cup cut \subseteq Letter
  /\ \A n \in Letter : /\ sendStage[n] \in {"sending", "waiting", "ended"}
                       /\ answer[n] \in {"open", "acked", "cancelled", "failed"}
  /\ IsInjective(pending) /\ starts \in [Peers -> 1..MaxStarts]
  /\ inHand \in [Peers -> [letter : {0} \cup Letter, acked : BOOLEAN]]

\* Another letter got the same msg_id: the same wording in the same millisecond.
Twin(n) == \E m \in Letter \ {n} : sends[m].id = sends[n].id

\* A send that was acknowledged has been read by whom it was for, or is about to be;
\* unless it has a twin, the receive loop was cancelled at the very moment, or it was
\* encrypted for a key pair that is gone.
AckedIsRead ==
  \A n \in Letter : answer[n] = "acked" =>
    n \in read \cup cut \/ Twin(n) \/ ~CanDecrypt(n) \/ inHand[sends[n].to].letter = n

\* Exactly the calls that wait can be reached by an acknowledgement, each under its
\* own msg_id, whatever times out, fails or comes late; but for twins.
WaitersAreReached ==
  \A n \in Letter : Twin(n) \/ (sendStage[n] # "ended" <=> \E id \in DOMAIN pending : pending[id] = n)

(* What one agent writes to another and what it is told of it.               *)
LettersKept == AckedIsRead /\ WaitersAreReached

(* The agent has one connection to ClawSocial, and what it writes there       *)
(* arrives or is not said to have arrived.                                    *)
AgentsReached == SoleConnection /\ LettersKept
=============================================================================
