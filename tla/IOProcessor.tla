---------------------------- MODULE IOProcessor -----------------------------
(***************************************************************************)
(* IOProcessor (crabclaw/agent/loop.py): three listeners between the bus,  *)
(* the broadcast manager and the mind.  It remembers the chat that each    *)
(* scope last wrote from, and for 20 seconds what it sent where, to        *)
(* recognise the echo of its own messages.                                 *)
(*                                                                         *)
(* A user_message carries no event_id, so the duplicate check on event_ids *)
(* never applies to it and is left out.  All dashboard targets are the one *)
(* pair Dashboard, the only one under which the dashboard sends.           *)
(***************************************************************************)
EXTENDS Bus, Mind

CONSTANTS
  Multi,            \* channel_mode is "multi"
  HasUserManager    \* self._user_manager could be created

ASSUME IOProcessorAssumption == Multi \in BOOLEAN /\ HasUserManager \in BOOLEAN

VARIABLES
  origin,    \* self._scope_origin
  recent,    \* self._recent_outbound
  tooLate    \* history: what came back when the 20 seconds were over

ioVars == <<origin, recent, tooLate>>

IOInit == origin = [s \in Scopes |-> NoChat] /\ recent = {} /\ tooLate = {}

Fingerprint(item) == <<item.chat, item.text>>

(* _is_inbound_echo: what was sent is an echo for 20 seconds, which are    *)
(* over at any moment, and then forgotten.                                 *)
IsEcho(item) == Fingerprint(item) \in recent

(* _listen_for_inbound *)
HearInbound ==
  /\ inbound # <<>>
  /\ LET item == Head(inbound) IN
     \/ /\ IsEcho(item)
        /\ UNCHANGED <<ioVars, stimuli>>
     \/ /\ recent' = recent \ {Fingerprint(item)}
        /\ tooLate' = tooLate \cup ({Fingerprint(item)} \cap recent)
        /\ origin' = [origin EXCEPT ![item.scope] = item.chat]
        /\ Perceive(item)
  /\ inbound' = Tail(inbound)
  /\ UNCHANGED <<outbound, waiters, queues, callbacks, userFeed, subscribed,
                 feeds, history, thinking, actions>>

(* _listen_for_broadcasts *)
HearUserMessage ==
  /\ userFeed # <<>>
  /\ LET item == Head(userFeed) IN
     /\ origin' = [origin EXCEPT ![item.scope] = item.chat]
     /\ Perceive(item)
  /\ userFeed' = Tail(userFeed)
  /\ UNCHANGED <<recent, tooLate, inbound, outbound, waiters, queues, callbacks, subscribed,
                 feeds, history, thinking, actions>>

Origin(scope) == {origin[scope]} \ {NoChat}
MappedTo(scope) == IF scope \in Users THEN Linked[scope] ELSE {}

\* Fault seed: one origin for all scopes.
TargetsFromAnyOrigin(scope, source) ==
  {Dashboard} \cup MappedTo(scope) \cup UNION {Origin(s) : s \in Scopes}

\* Fault seed: in multi mode the mappings are used only without an origin.
TargetsFromOriginOnly(scope, source) ==
  {Dashboard} \cup (IF Origin(scope) # {} THEN Origin(scope) ELSE MappedTo(scope))

(* _collect_outbound_targets *)
Targets(scope, source) ==
  {Dashboard} \cup
  (IF Multi THEN MappedTo(scope) \cup Origin(scope)
   ELSE IF Origin(scope) # {} THEN Origin(scope) ELSE {source} \ {NoChat})

\* Fault seed: only what goes back to the origin is remembered.
RememberOriginOnly(targets, scope, text) ==
  recent' = recent \cup {<<c, text>> : c \in targets \cap Origin(scope)}

(* _remember_outbound, for every target before it is published *)
Remember(targets, scope, text) == recent' = recent \cup {<<c, text>> : c \in targets}

(* _listen_for_outbound_actions.  Without a user manager `origin' is never *)
(* assigned in _collect_outbound_targets: the exception is logged and the  *)
(* action is lost.                                                         *)
Act ==
  /\ actions # <<>>
  /\ LET a == Head(actions) IN
     \/ /\ a.blank \/ ~HasUserManager
        /\ UNCHANGED <<recent, outbound, callbacks, queues>>
     \/ /\ ~a.blank /\ HasUserManager
        /\ Remember(Targets(a.scope, a.source), a.scope, a.text)
        /\ PublishOutbound(a.scope, Targets(a.scope, a.source), a.text)
  /\ actions' = Tail(actions)
  /\ UNCHANGED <<origin, tooLate, inbound, waiters, userFeed, subscribed, feeds, history,
                 stimuli, thinking>>

=============================================================================
