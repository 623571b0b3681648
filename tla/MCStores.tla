------------------------------ MODULE MCStores ------------------------------
(* The components that keep state on disk, and those that choose a model's   *)
(* provider and talk to it, side by side for TLC: they share no variable, so *)
(* it is enough that one of them moves in each behaviour.                    *)
EXTENDS PromptEvolution, Feed, Consolidation, Users, AuditTrail, Settings, Dialogue

VARIABLE store   \* the component that moves

modelVars  == <<providerVars, dialogueVars>>
storedVars == <<promptVars, feedVars, memoryVars, usersVars, auditVars, settingsVars>>
storesVars == <<storedVars, modelVars, store>>

\* A gateway, a provider whose key is set apart, and one that signs in.
ThreeProviders == <<"openrouter", "openai", "openai_codex">>

\* The components that do not move start in one state of theirs.
StoresInit ==
  /\ store \in {"prompts", "feed", "memory", "users", "audit", "settings", "providers",
               "dialogue"}
  /\ PromptInit /\ FeedInit /\ MemoryInit /\ UsersInit /\ AuditInit /\ SettingsInit
  /\ ProvidersInit
  /\ store # "providers" => /\ \A n \in DOMAIN keys : keys[n] = 0
                            /\ \A c \in DOMAIN routes : routes[c] = None
                            /\ addresses = {} /\ models = {}
  /\ (store = "dialogue" \/ provider = "litellm") /\ DialogueInit

MovePrompts ==
  /\ store = "prompts" /\ PromptNext
  /\ UNCHANGED <<feedVars, memoryVars, usersVars, auditVars, settingsVars, modelVars>>
MoveFeed ==
  /\ store = "feed" /\ FeedNext
  /\ UNCHANGED <<promptVars, memoryVars, usersVars, auditVars, settingsVars, modelVars>>
MoveMemory ==
  /\ store = "memory" /\ MemoryNext
  /\ UNCHANGED <<promptVars, feedVars, usersVars, auditVars, settingsVars, modelVars>>
MoveUsers ==
  /\ store = "users" /\ UsersNext
  /\ UNCHANGED <<promptVars, feedVars, memoryVars, auditVars, settingsVars, modelVars>>
MoveAudit ==
  /\ store = "audit" /\ AuditNext
  /\ UNCHANGED <<promptVars, feedVars, memoryVars, usersVars, settingsVars, modelVars>>
MoveSettings ==
  /\ store = "settings" /\ SettingsNext
  /\ UNCHANGED <<promptVars, feedVars, memoryVars, usersVars, auditVars, modelVars>>
MoveProviders ==
  store = "providers" /\ ProvidersNext /\ UNCHANGED <<storedVars, dialogueVars>>
MoveDialogue ==
  store = "dialogue" /\ DialogueNext /\ UNCHANGED <<storedVars, providerVars>>

StoresNext ==
  /\ \/ MovePrompts \/ MoveFeed \/ MoveMemory \/ MoveUsers \/ MoveAudit \/ MoveSettings
     \/ MoveProviders \/ MoveDialogue
  /\ UNCHANGED store

StoresSpec == StoresInit /\ [][StoresNext]_storesVars

\* The variables of every component keep their types.
StoresTypeOK ==
  /\ PromptTypeOK /\ FeedTypeOK /\ MemoryTypeOK /\ UsersTypeOK /\ AuditTypeOK /\ SettingsTypeOK
  /\ ProvidersTypeOK /\ DialogueTypeOK
=============================================================================
