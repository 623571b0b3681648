------------------------------ MODULE Providers ------------------------------
(***************************************************************************)
(* Which provider a call to a language model goes to: Config.              *)
(* create_llm_provider_for_callpoint (crabclaw/config/schema.py), the      *)
(* provider the scheduler and the command line start with, and             *)
(* LiteLLMProvider, which leaves its address in a global of litellm.       *)
(*                                                                         *)
(* Every callpoint loads the configuration and makes its provider anew,    *)
(* and calls it several times while it works; meanwhile the dashboard      *)
(* changes keys and routes, and other callpoints make theirs.  Models are  *)
(* named by their provider; the prefixes litellm wants are left out, and    *)
(* the providers a user adds by name are like "custom".                    *)
(***************************************************************************)
EXTENDS Integers, Sequences

CONSTANTS
  Callpoints,       \* those that call a model, beside "agent", which the standing provider is made for
  Registry,         \* PROVIDERS: the names, in order
  OAuth,            \* those with is_oauth
  WithAddress,      \* those whose spec has a default_api_base
  MaxKeyChanges     \* bound on what the dashboard changes

ASSUME ProvidersAssumption ==
  /\ "agent" \notin Callpoints /\ Registry \in Seq(STRING) /\ MaxKeyChanges \in Nat \ {0}
  /\ OAuth \subseteq {Registry[i] : i \in DOMAIN Registry}
  /\ WithAddress \subseteq {Registry[i] : i \in DOMAIN Registry}

VARIABLES
  keys,         \* provider -> the edition of its api_key, 0 for none
  addresses,    \* the providers with an api_base of their own
  models,       \* the providers with a model
  routes,       \* Config.llm_routes
  standing,     \* the provider made at the start
  apiBase,      \* litellm.api_base: the provider it is the address of
  held,         \* callpoint -> the provider it works with
  stale,        \* callpoints whose provider or route changed since it was made
  sent          \* callpoint -> its last request

providerVars == <<keys, addresses, models, routes, standing, apiBase, held, stale, sent>>

Names == {Registry[i] : i \in DOMAIN Registry}
None  == "none"
NoProvider == [name |-> None, key |-> 0, own |-> FALSE, audited |-> FALSE]
NothingSent  == [provider |-> NoProvider, to |-> None, logged |-> FALSE]

-----------------------------------------------------------------------------
(* Making a provider.  Codex signs in by itself, a custom provider without *)
(* a key says "no-key", and both know their address.                       *)
Direct(name) == name \in {"custom", "openai_codex"}

Made(name) ==
  [name |-> name, key |-> keys[name], audited |-> TRUE,
   own |-> Direct(name) \/ name \in addresses \/ name \in WithAddress]

\* A callpoint without a route, or with one that cannot be used, has no provider.
Routed(callpoint) ==
  LET forced == routes[callpoint]
  IN IF forced # None /\ (Direct(forced) \/ keys[forced] > 0 \/ forced \in OAuth)
     THEN Made(forced) ELSE NoProvider

\* The first with a key and a model; the address of its specification is not looked at.
FirstUsable ==
  LET usable == {i \in DOMAIN Registry : keys[Registry[i]] > 0 /\ Registry[i] \in models}
      name   == Registry[CHOOSE i \in usable : \A j \in usable : i <= j]
  IN IF usable = {} THEN NoProvider
     ELSE [name |-> name, key |-> keys[name], audited |-> FALSE, own |-> Direct(name) \/ name \in addresses]

\* _init_provider: the route of "agent", else the first.
Standing == IF Routed("agent") # NoProvider THEN Routed("agent") ELSE FirstUsable

\* LiteLLMProvider.__init__: whoever has an address leaves it for all.
Shared(provider, before) ==
  IF provider # NoProvider /\ ~Direct(provider.name) /\ provider.own THEN provider.name ELSE before

ProvidersInit ==
  /\ keys \in [Names -> 0..1] /\ addresses \in SUBSET (Names \ (OAuth \cup WithAddress))
  /\ models \in {{}, Names}
  /\ routes \in [Callpoints \cup {"agent"} -> Names \cup {None}]
  /\ standing = Standing /\ apiBase = Shared(standing, None)
  /\ held = [c \in Callpoints |-> NoProvider] /\ stale = {}
  /\ sent = [c \in Callpoints |-> NothingSent]

-----------------------------------------------------------------------------
\* update_settings of the dashboard: a key is replaced or taken away; a route is
\* changed or, with an empty name, taken away.
Rekey(name, key) ==
  /\ key \in {0, keys[name] + 1} \ {keys[name]} /\ key <= MaxKeyChanges
  /\ keys' = [keys EXCEPT ![name] = key]
  /\ stale' = stale \cup {c \in Callpoints : name \in {held[c].name, routes[c]}}
  /\ UNCHANGED <<addresses, models, routes, standing, apiBase, held, sent>>

Reroute(callpoint, name) ==
  /\ name # routes[callpoint]
  /\ routes' = [routes EXCEPT ![callpoint] = name]
  /\ stale' = stale \cup {callpoint}
  /\ UNCHANGED <<keys, addresses, models, standing, apiBase, held, sent>>

\* The provider of the route, or the one made at the start.
Prepare(callpoint) ==
  /\ held[callpoint] = NoProvider
  /\ LET routed   == Routed(callpoint)
         provider == IF routed = NoProvider THEN standing ELSE routed
     IN /\ provider # NoProvider
        /\ held' = [held EXCEPT ![callpoint] = provider]
        /\ apiBase' = Shared(routed, apiBase)
  /\ stale' = stale \ {callpoint}
  /\ UNCHANGED <<keys, addresses, models, routes, standing, sent>>

\* chat: to the provider's own address, or the one left in litellm, or the one
\* litellm knows for the model.  A routed call is audited, failed or not.
CallModel(callpoint) ==
  LET provider == held[callpoint]
      to == IF provider.own \/ apiBase = None THEN provider.name ELSE apiBase
  IN /\ provider # NoProvider
     /\ sent' = [sent EXCEPT ![callpoint] =
                   [provider |-> provider, to |-> to, logged |-> provider.audited]]
     /\ UNCHANGED <<keys, addresses, models, routes, standing, apiBase, held, stale>>

Finish(callpoint) ==
  /\ held[callpoint] # NoProvider
  /\ held' = [held EXCEPT ![callpoint] = NoProvider]
  /\ sent' = [sent EXCEPT ![callpoint] = NothingSent]
  /\ UNCHANGED <<keys, addresses, models, routes, standing, apiBase, stale>>

ProvidersNext ==
  \/ \E name \in Names, key \in 0..MaxKeyChanges : Rekey(name, key)
  \/ \E c \in Callpoints : Prepare(c) \/ CallModel(c) \/ Finish(c)
  \/ \E c \in Callpoints, name \in Names \cup {None} : Reroute(c, name)

ProvidersSpec == ProvidersInit /\ [][ProvidersNext]_providerVars

-----------------------------------------------------------------------------
\* The variables keep their types.
ProvidersTypeOK ==
  LET Providers == [name : Names \cup {None}, key : 0..MaxKeyChanges, own : BOOLEAN, audited : BOOLEAN]
  IN /\ keys \in [Names -> 0..MaxKeyChanges] /\ {addresses, models} \subseteq SUBSET Names
     /\ routes \in [Callpoints \cup {"agent"} -> Names \cup {None}] /\ apiBase \in Names \cup {None}
     /\ standing \in Providers /\ held \in [Callpoints -> Providers] /\ stale \subseteq Callpoints
     /\ \A c \in Callpoints : sent[c].provider \in Providers /\ sent[c].to \in Names \cup {None}

(* A key only goes to the provider it was given for, unless that provider    *)
(* has no address of its own and another left one in litellm; no call that   *)
(* needs a key is made without; and once a route or a key is changed, the    *)
(* next work of a callpoint with a usable route is done by that route with   *)
(* that key (the standing provider keeps the key of the start).              *)
CallsOwnEndpoint ==
  \A c \in Callpoints : sent[c] # NothingSent =>
    LET provider == sent[c].provider
    IN /\ sent[c].to = provider.name \/ ~provider.own
       /\ provider.key > 0 \/ Direct(provider.name) \/ provider.name \in OAuth
       /\ c \in stale \/ provider = Routed(c) \/ (Routed(c) = NoProvider /\ provider = standing)
=============================================================================
