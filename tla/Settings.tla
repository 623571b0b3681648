--------------------------------- MODULE Settings ---------------------------------
(***************************************************************************)
(* config.json (crabclaw/config/secure_loader.py) and those who load,      *)
(* change and save it: the dashboard's HTTP threads and websocket loop     *)
(* (dashboard/server.py) and the command line's wizards (cli/commands.py), *)
(* another process.  Nothing locks the file: each of them loads it, sets   *)
(* its own settings, and saves everything it loaded through config.tmp.    *)
(*                                                                         *)
(* A value is the number of the change that wrote it, 0 the default, with  *)
(* the key it is sealed under, 0 in clear.  The key comes from the key     *)
(* file.  The running agent's copies of settings are left out.             *)
(***************************************************************************)
EXTENDS Naturals, FiniteSets

CONSTANTS
  Writers,       \* requests and wizards at work at a time
  Kinds,         \* the requests and wizards there are: of Wizard or Requests
  MaxChanges,    \* bound on the saves begun
  MaxKeys        \* bound on the keys ever generated

VARIABLES
  configFile,    \* missing, broken (no JSON), invalid (for load_config), or whole
  tempFile,      \* config.tmp
  keyFile,       \* the key in .config_key, 0 for no file
  keysMade,
  writer,        \* what each writer has loaded and where it is
  changes,       \* saves begun
  lastSet,       \* the last change of each setting that was saved
  overtaken,     \* settings saved over by a writer that had loaded before that, or had
                 \* loaded what such a writer saved
  spoiled        \* whether two writers ever had config.tmp open at once, or
                 \* an invalid value was saved

settingsVars == <<configFile, tempFile, keyFile, keysMade, writer, changes, lastSet, overtaken, spoiled>>

Setting == {"search", "mcp", "connections", "profile", "providers", "mode"}

\* Values under a name with "token", "secret" or "password" in it are sealed:
\* the headers and variables of servers, the connections' tokens.  (Keys named
\* apiKey are compared in lower case with names that are not.)
Sealed == {"mcp", "connections"}

Unset == [change |-> 0, key |-> 0]
Defaults == [s \in Setting |-> Unset]
File(status, values) == [status |-> status, values |-> values]
NoFile == File("missing", Defaults)
Broken == File("broken", Defaults)
Invalid == File("invalid", Defaults)

(* What the body of a request, or the answers to a wizard, may set.        *)
WebSearch == SUBSET {"search"}             \* _handle_save_web_search: key and proxy
McpServers == {{"mcp"}}                    \* _handle_save_mcp_servers: all of them anew
Connections == SUBSET {"connections"}      \* _handle_save_clawsocial_connections
Profile == SUBSET {"profile"}              \* _handle_save_profile
ProviderSettings == SUBSET {"providers"}   \* update_settings: keys, routes, language
ModeSettings == {{"mode"}}                 \* update_settings, after the await
Setup == {{"providers"} \cup more : more \in SUBSET {"search", "mcp"}}
OnboardConfig == {{"providers"} \cup more : more \in SUBSET {"search"}}
Initialize == {{}}                         \* _initialize_crabclaw: all or nothing

Bodies(kind) ==
  CASE kind = "search" -> WebSearch [] kind = "mcp" -> McpServers
    [] kind = "connections" -> Connections [] kind = "profile" -> Profile
    [] kind = "settings" -> ProviderSettings [] kind = "setup" -> Setup
    [] kind = "config" -> OnboardConfig [] OTHER -> Initialize

Wizard == {"setup", "config", "reset"}
Requests == {"search", "mcp", "connections", "profile", "settings", "refresh"}

ASSUME SettingsAssumption == Kinds \subseteq Wizard \cup Requests /\ MaxChanges \in Nat /\ MaxKeys \in Nat

Resting == [at |-> "rest"]
Stage(w, place) == writer[w].at = place

SettingsInit ==
  /\ configFile = NoFile /\ tempFile = NoFile /\ keyFile = 0 /\ keysMade = 0
  /\ writer = [w \in Writers |-> Resting]
  /\ changes = 0 /\ lastSet = [s \in Setting |-> 0] /\ overtaken = {} /\ spoiled = FALSE

-----------------------------------------------------------------------------
(* _get_encryption_key: the key file, if it can be read; else a new key     *)
(* that replaces it.                                                       *)
KeyOptions == (IF keyFile # 0 THEN {keyFile} ELSE {}) \cup (IF keysMade < MaxKeys THEN {keysMade + 1} ELSE {})

TakeKey(key) ==
  /\ key \in KeyOptions
  /\ keyFile' = key
  /\ keysMade' = IF key = keysMade + 1 THEN key ELSE keysMade

\* _encrypt_sensitive_data, _decrypt_sensitive_data: what is empty or sealed is
\* not sealed, what another key sealed stays as it is.
SealedWith(key, values) ==
  [s \in Setting |-> IF s \in Sealed /\ values[s].change # 0 /\ values[s].key = 0
                     THEN [values[s] EXCEPT !.key = key] ELSE values[s]]

Opened(key, values) ==
  [s \in Setting |-> IF values[s].key = key THEN [values[s] EXCEPT !.key = 0] ELSE values[s]]

WithChange(values, sets, change) ==
  [s \in Setting |-> IF s \in sets THEN [change |-> change, key |-> 0] ELSE values[s]]

\* load_config: without a file, or from one it cannot use, the defaults.
Loaded(key) == IF configFile.status = "whole" THEN Opened(key, configFile.values) ELSE Defaults
Load(key) ==
  IF configFile \in {NoFile, Broken} THEN key = 0 /\ UNCHANGED <<keyFile, keysMade>> ELSE TakeKey(key)

\* The changes that one who loads the file now sees; of a setting that was saved over
\* it is not the last one.
Outdated == MaxChanges + 1
Seen == [s \in Setting |-> IF s \in overtaken THEN Outdated ELSE lastSet[s]]

-----------------------------------------------------------------------------
(* A request, or the refresh of the command line: loads the file and sets  *)
(* its part.  The values of a profile or of connections are not validated  *)
(* before they are saved; a wrong one makes the file invalid when loaded.  *)
Request(w, kind, sets, key, valid) ==
  /\ Stage(w, "rest") /\ changes < MaxChanges
  /\ valid \/ sets \cap {"profile", "connections"} # {}
  /\ Load(key)
  /\ changes' = changes + 1
  /\ writer' = [writer EXCEPT ![w] =
       [at |-> "loaded", kind |-> kind, sets |-> sets, seen |-> Seen, valid |-> valid,
        values |-> WithChange(Loaded(key), sets, changes + 1)]]
  /\ UNCHANGED <<configFile, tempFile, lastSet, overtaken, spoiled>>

(* setup, onboard_config, _initialize_crabclaw: after the confirmation, a  *)
(* configuration made from nothing; the interview takes its time.          *)
Interview(w, kind, sets) ==
  /\ Stage(w, "rest") /\ changes < MaxChanges
  /\ changes' = changes + 1
  /\ writer' = [writer EXCEPT ![w] =
       [at |-> "loaded", kind |-> kind, sets |-> sets, seen |-> lastSet, valid |-> TRUE,
        values |-> WithChange(Defaults, sets, changes + 1)]]
  /\ UNCHANGED <<configFile, tempFile, keyFile, keysMade, lastSet, overtaken, spoiled>>

-----------------------------------------------------------------------------
(* save_config.  A writer's open file is config.tmp, or what became of it: *)
(* another writer may have moved it to config.json, or removed it.         *)
HasOpen(v) == writer[v].at \in {"writing", "written"}
Others(w) == {v \in Writers \ {w} : HasOpen(v)}

\* Fault seed: config.json itself is opened and written.
OpenInPlace(w, key) ==
  /\ Stage(w, "loaded")
  /\ TakeKey(key)
  /\ configFile' = Broken
  /\ spoiled' = (spoiled \/ Others(w) # {})
  /\ writer' = [writer EXCEPT ![w] = [at |-> "writing", kind |-> @.kind, sets |-> @.sets, seen |-> @.seen, valid |-> @.valid,
                                      values |-> @.values, file |-> "config",
                                      dump |-> IF @.valid THEN File("whole", SealedWith(key, @.values)) ELSE Invalid]]
  /\ UNCHANGED <<tempFile, changes, lastSet, overtaken>>

OpenTemp(w, key) ==
  /\ Stage(w, "loaded")
  /\ TakeKey(key)
  /\ tempFile' = Broken
  /\ spoiled' = (spoiled \/ Others(w) # {})
  /\ writer' = [writer EXCEPT ![w] = [at |-> "writing", kind |-> @.kind, sets |-> @.sets, seen |-> @.seen, valid |-> @.valid,
                                      values |-> @.values, file |-> "temp",
                                      dump |-> IF @.valid THEN File("whole", SealedWith(key, @.values)) ELSE Invalid]]
  /\ UNCHANGED <<configFile, changes, lastSet, overtaken>>

\* Two writers of one file may leave a mixture.
Written(w) ==
  {writer[w].dump} \cup (IF \E v \in Others(w) : writer[v].file = writer[w].file THEN {Broken} ELSE {})

WriteTemp(w) ==
  /\ Stage(w, "writing")
  /\ \E text \in Written(w) :
       /\ tempFile' = IF writer[w].file = "temp" THEN text ELSE tempFile
       /\ configFile' = IF writer[w].file = "config" THEN text ELSE configFile
  /\ writer' = [writer EXCEPT ![w].at = "written"]
  /\ UNCHANGED <<keyFile, keysMade, changes, lastSet, overtaken, spoiled>>

\* What becomes of the files the others have open.
Became(w, place) ==
  [v \in Writers |-> IF v \in Others(w) /\ writer[v].file # "gone"
                     THEN [writer[v] EXCEPT !.file = IF @ = "temp" THEN place
                                                     ELSE IF place = "config" THEN "gone" ELSE @]
                     ELSE writer[v]]

\* The settings a save decides: its own, and those a wizard puts back to their
\* defaults as they were when it started.
Decides(w) ==
  writer[w].sets \cup
    (IF writer[w].kind \in Wizard THEN {s \in Setting : writer[w].seen[s] = lastSet[s]} ELSE {})

MoveTemp(w) ==
  /\ Stage(w, "written") /\ tempFile # NoFile
  /\ configFile' = tempFile /\ tempFile' = NoFile
  /\ spoiled' = (spoiled \/ tempFile = Invalid)
  /\ lastSet' = [s \in Setting |-> IF s \in Decides(w) THEN writer[w].values[s].change ELSE lastSet[s]]
  /\ overtaken' = (overtaken \ Decides(w))
                    \cup {s \in Setting \ Decides(w) : writer[w].seen[s] # lastSet[s]}
  /\ writer' = [Became(w, "config") EXCEPT ![w] =
       IF @.kind # "settings" THEN Resting
       ELSE [at |-> "saved", values |-> @.values,
             seen |-> [s \in Setting |-> IF s \in Decides(w) THEN @.values[s].change ELSE @.seen[s]]]]
  /\ UNCHANGED <<keyFile, keysMade, changes>>

\* config.tmp is no longer there: the save fails, whatever it has written.
MissTemp(w) ==
  /\ Stage(w, "written") /\ tempFile = NoFile
  /\ writer' = [writer EXCEPT ![w] = Resting]
  /\ UNCHANGED <<configFile, tempFile, keyFile, keysMade, changes, lastSet, overtaken, spoiled>>

\* The disk is full: config.tmp is removed, whoever else has it open.
FailToWrite(w) ==
  /\ Stage(w, "writing")
  /\ tempFile' = NoFile
  /\ writer' = [Became(w, "gone") EXCEPT ![w] = Resting]
  /\ UNCHANGED <<configFile, keyFile, keysMade, changes, lastSet, overtaken, spoiled>>

-----------------------------------------------------------------------------
(* update_settings goes on with what it loaded before it published the     *)
(* profile, an await: the channel mode and the society switch are saved    *)
(* with it, if the body has them and nothing failed.                       *)
SaveMode(w) ==
  /\ Stage(w, "saved") /\ changes < MaxChanges
  /\ changes' = changes + 1
  /\ \E sets \in ModeSettings :
       writer' = [writer EXCEPT ![w] =
         [at |-> "loaded", kind |-> "mode", sets |-> sets, seen |-> @.seen, valid |-> TRUE,
          values |-> WithChange(@.values, sets, changes + 1)]]
  /\ UNCHANGED <<configFile, tempFile, keyFile, keysMade, lastSet, overtaken, spoiled>>

EndSettings(w) ==
  /\ Stage(w, "saved")
  /\ writer' = [writer EXCEPT ![w] = Resting]
  /\ UNCHANGED <<configFile, tempFile, keyFile, keysMade, changes, lastSet, overtaken, spoiled>>

\* The dashboard's process ends, or the command line's: config.tmp stays as it is.
ByCommandLine(w) == writer[w].at \in {"loaded", "writing", "written"} /\ writer[w].kind \in Wizard \cup {"refresh"}

EndProcess(commandLine) ==
  /\ \E w \in Writers : ~Stage(w, "rest") /\ ByCommandLine(w) = commandLine
  /\ writer' = [w \in Writers |-> IF ByCommandLine(w) = commandLine THEN Resting ELSE writer[w]]
  /\ UNCHANGED <<configFile, tempFile, keyFile, keysMade, changes, lastSet, overtaken, spoiled>>

SettingsNext ==
  \/ \E w \in Writers, kind \in Kinds \cap Requests, key \in 0..MaxKeys, valid \in BOOLEAN :
       \E sets \in Bodies(kind) : Request(w, kind, sets, key, valid)
  \/ \E w \in Writers, kind \in Kinds \cap Wizard : \E sets \in Bodies(kind) : Interview(w, kind, sets)
  \/ \E w \in Writers, key \in 1..MaxKeys : OpenTemp(w, key)
  \/ \E w \in Writers : \/ WriteTemp(w) \/ MoveTemp(w) \/ MissTemp(w) \/ FailToWrite(w)
                        \/ SaveMode(w) \/ EndSettings(w)
  \/ \E commandLine \in BOOLEAN : EndProcess(commandLine)

SettingsSpec == SettingsInit /\ [][SettingsNext]_settingsVars

-----------------------------------------------------------------------------
\* The variables keep their types.
FileType ==
  [status : {"missing", "broken", "invalid", "whole"}, values : [Setting -> [change : 0..MaxChanges, key : 0..MaxKeys]]]
SettingsTypeOK ==
  /\ configFile \in FileType /\ tempFile \in FileType
  /\ keyFile \in 0..MaxKeys /\ keysMade \in 0..MaxKeys /\ changes \in 0..MaxChanges
  /\ \A w \in Writers : writer[w].at \in {"rest", "loaded", "writing", "written", "saved"}
  /\ lastSet \in [Setting -> 0..MaxChanges] /\ overtaken \subseteq Setting /\ spoiled \in BOOLEAN

\* As long as no two saves have had config.tmp open at once and no invalid
\* value was saved, config.json can be read and holds the last value saved of
\* every setting, except those saved over by a writer that had loaded the file
\* before; and until a second key is generated, the key file opens what is
\* sealed: the file's replacement, the crashes, the failures, the second save
\* after an await and the resealing of what was opened lose nothing.
SettingsKept ==
  ~spoiled =>
    /\ configFile.status \in {"missing", "whole"}
    /\ \A s \in Setting :
         /\ s \notin overtaken => configFile.values[s].change = lastSet[s]
         /\ keysMade < 2 => configFile.values[s].key \in {0, keyFile}
=============================================================================
