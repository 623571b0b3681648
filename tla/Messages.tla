------------------------------ MODULE Messages ------------------------------
(***************************************************************************)
(* The data that the message pipeline moves around: who writes what from   *)
(* where, and the texts, items and actions made of it.  What a text says   *)
(* is not modelled.                                                        *)
(***************************************************************************)
EXTENDS Naturals, Sequences, FiniteSets, SequencesExt

CONSTANTS
  Msgs,        \* the messages that users write
  Users,       \* registered users
  Chats,       \* (channel, chat_id) pairs
  Dashboard,   \* the pair ("dashboard", "direct")
  NoUser,      \* no user could be resolved for a message
  NoChat,      \* no (channel, chat_id) pair
  ChatOf,      \* the chat a message is written in
  UserOf,      \* the user it is resolved to, or NoUser
  Via,         \* how it reaches the process
  Linked       \* identity mappings of a user

ASSUME MessagesAssumption ==
  /\ Dashboard \in Chats /\ NoUser \notin Users /\ NoChat \notin Chats \cup Msgs
  /\ Users \cap Chats = {}
  /\ ChatOf \in [Msgs -> Chats]
  /\ UserOf \in [Msgs -> Users \cup {NoUser}]
  /\ Via \in [Msgs -> {"channel", "gateway", "websocket"}]
  /\ Linked \in [Users -> SUBSET Chats]
  /\ \A u, v \in Users : u # v => Linked[u] \cap Linked[v] = {}
  /\ \A m \in Msgs :
       /\ Via[m] = "websocket" => ChatOf[m] = Dashboard /\ UserOf[m] \in Users
       /\ UserOf[m] = NoUser => \A u \in Users : ChatOf[m] \notin Linked[u]

\* A scope is a user_id, or "channel:chat_id" for somebody unknown.
Scopes == Users \cup Chats

Requests == {m \in Msgs : Via[m] = "gateway"}

\* The user whose identity mappings name the chat, if there is one.
MappedScope(c) ==
  IF \E u \in Users : c \in Linked[u] THEN CHOOSE u \in Users : c \in Linked[u] ELSE c

\* Fault seed: nobody known means no scope.
ScopeWithoutFallback(m) == UserOf[m]

\* _resolve_scope_from_inbound, and the same order of choices in _on_bus_inbound
ScopeOf(m) == IF UserOf[m] = NoUser THEN ChatOf[m] ELSE UserOf[m]

(* A text is a user's own (depth 0), the reply to it (depth 1), the reply  *)
(* to an echo of that reply (depth 2), and so on.                          *)
Text     == [of : Msgs, depth : Nat]
Own(m)   == [of |-> m, depth |-> 0]
Reply(t) == [t EXCEPT !.depth = @ + 1]

\* An InboundMessage, a user_message event or a Stimulus.  `channel' is
\* metadata["channel"] and ["chat_id"], which a user_message event lacks.
Item == [chat : Chats, scope : Scopes, text : Text, channel : Chats \cup {NoChat}]
Wrote(m) == [chat |-> ChatOf[m], scope |-> ScopeOf(m), text |-> Own(m),
             channel |-> IF Via[m] = "websocket" THEN NoChat ELSE ChatOf[m]]

\* A send_message Action; `blank' when the provider's text was only spaces.
Action == [scope : Scopes, text : Text, source : Chats \cup {NoChat}, blank : BOOLEAN]

=============================================================================
