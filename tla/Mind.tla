-------------------------------- MODULE Mind --------------------------------
(***************************************************************************)
(* How the mind treats messages: the GlobalWorkspace                       *)
(* (crabclaw/sapiens/psychology.py), the life loop of PersistentAgentLoop  *)
(* (crabclaw/sapiens/loop.py) and the decision for an action               *)
(* (crabclaw/sapiens/components/action.py).  The loop runs in a thread of  *)
(* its own; a tick drains the stimulus queue, and waits for the provider   *)
(* while the event loop goes on filling that queue.                        *)
(*                                                                         *)
(* The internal signals (needs, metacognition, hunger) are not computed:   *)
(* a tick chooses how many of them are at least as intense as a message.   *)
(***************************************************************************)
EXTENDS Messages

CONSTANT Capacity       \* GlobalWorkspace.capacity

ASSUME MindAssumption == Capacity \in Nat

VARIABLES
  stimuli,    \* GlobalWorkspace.stimulus_queue
  thinking,   \* the message a response is being generated for
  actions     \* AgentSapiens.outbound_action_queue

mindVars == <<stimuli, thinking, actions>>

Nothing == NoChat       \* the loop is between two ticks

MindInit == stimuli = <<>> /\ thinking = Nothing /\ actions = <<>>

(* add_stimulus *)
Perceive(item) == stimuli' = Append(stimuli, item)

\* select_focus: of signals and messages, the Capacity most intense; the sort
\* is stable and the internal signals come first in its input.
MessagesInFocus(signals) == SubSeq(stimuli, 1, Min({Len(stimuli), Capacity - signals}))

\* Fault seed: the most recent message is taken and the others stay queued.
TickLatestFirst ==
  /\ thinking = Nothing /\ stimuli # <<>>
  /\ thinking' = Last(stimuli)
  /\ stimuli' = Front(stimuli)
  /\ UNCHANGED actions

(* choose_action: the hunger reflex comes before any message, and of the   *)
(* messages in the focus the first one is answered.                        *)
Chosen(focus, hungry) == IF hungry \/ focus = <<>> THEN Nothing ELSE Head(focus)

(* One tick up to the call of the provider: every stimulus is drained, and *)
(* what is not answered is gone.                                           *)
Tick ==
  /\ thinking = Nothing /\ stimuli # <<>>
  /\ \E signals \in 0..Capacity, hungry \in BOOLEAN :
       /\ hungry => signals > 0
       /\ thinking' = Chosen(MessagesInFocus(signals), hungry)
  /\ stimuli' = <<>>
  /\ UNCHANGED actions

(* The send_message action for a response: the request_id of the message   *)
(* is not passed on.                                                       *)
Response(item, blank) ==
  [scope |-> item.scope, text |-> Reply(item.text), source |-> item.channel, blank |-> blank]

(* generate_response has returned: its failures are texts too, only a      *)
(* response of nothing but spaces is blank.                                *)
Answer ==
  /\ thinking # Nothing
  /\ \E blank \in BOOLEAN : actions' = Append(actions, Response(thinking, blank))
  /\ thinking' = Nothing
  /\ UNCHANGED stimuli

=============================================================================
