--------------------------------- MODULE Users ---------------------------------
(***************************************************************************)
(* Accounts and identity mappings (crabclaw/user/manager.py and the        *)
(* handlers of dashboard/server.py that call it).  Every account has a     *)
(* folder with its profile and the file of its mappings; each UserManager  *)
(* caches the profiles it has seen.  The dashboard's HTTP requests run on  *)
(* threads, next to the loop that serves the websockets, with one          *)
(* UserManager; the ChannelManager has another one, whose cache is filled  *)
(* when the process starts.                                                *)
(*                                                                         *)
(* The mappings are read, unlinked and written back file by file, and      *)
(* another worker may move between any two of these.  A profile is read or *)
(* written in one step, and so is a folder removed.  An endpoint is a      *)
(* channel with an external id, normalised; one that a user has mapped     *)
(* twice counts once.  Passwords, the expiry of tokens after a week and    *)
(* the folders for memory and assets are left out.                         *)
(***************************************************************************)
EXTENDS FiniteSets, Dicts

CONSTANTS
  Accounts,    \* user ids; a bound on the accounts ever created
  Admin,       \* the id of the default administrator
  UserNames,   \* the names people register
  AdminName,
  Endpoints,
  Threads      \* the HTTP requests served at a time

ASSUME UsersAssumption == Admin \in Accounts /\ AdminName \notin UserNames

VARIABLES
  names,       \* the username each account was created with, for those that were
  profiles,    \* the accounts that have a portfolio.json
  folders,     \* those that have a folder
  mapped,      \* what channel_identity_mappings.json of each account reads as
  open,        \* workers that are about to write into such a file, with its account
  cached,      \* _cache of each UserManager
  request,     \* what each worker does, and has read so far
  tokens,      \* accounts a token was issued for; nothing takes one back
  asked,       \* the endpoints each account has asked to map
  deleted,     \* accounts whose folder was removed
  surviving    \* of those, the ones that somebody still held in memory then

usersVars == <<names, profiles, folders, mapped, open, cached, request, tokens, asked,
               deleted, surviving>>

diskVars == <<names, profiles, folders, mapped, open>>
historyVars == <<asked, deleted, surviving>>

Instances == {"dashboard", "channels"}
Loop == "loop"
Workers == Threads \cup {Loop}
Idle == [kind |-> "idle"]

(* _ensure_default_admin *)
UsersInit ==
  /\ names = [u \in {Admin} |-> AdminName] /\ profiles = {Admin} /\ folders = {Admin}
  /\ mapped = [u \in Accounts |-> {}] /\ open = {}
  /\ cached = [i \in Instances |-> {Admin}]
  /\ request = [w \in Workers |-> Idle]
  /\ tokens = {} /\ asked = mapped /\ deleted = {} /\ surviving = {}

Named(name) == {u \in profiles : names[u] = name}
Does(w, what) == request' = [request EXCEPT ![w] = what]

-----------------------------------------------------------------------------
(* Profiles *)

\* get_user_by_id: cached, or loaded from the file.
Knows(i, u) == u \in cached[i] \/ u \in profiles

(* The user that job is for was found by instance i; what was loaded from  *)
(* the file is not cached yet.                                             *)
Found(job, i, fresh) == [kind |-> "found", job |-> job, by |-> i, fresh |-> fresh]

GetUser(w, job, i) ==
  /\ request[w] = Idle /\ Knows(i, job.user)
  /\ Does(w, Found(job, i, job.user \notin cached[i]))
  /\ UNCHANGED <<diskVars, cached, tokens, historyVars>>

Got(w, do) == request[w].kind = "found" /\ request[w].job.do = do

CachedAfter(w) ==
  LET r == request[w] IN
  IF r.fresh THEN [cached EXCEPT ![r.by] = @ \cup {r.job.user}] ELSE cached

\* issue_token; logging out only answers.
IssueToken(u) == tokens \cup {u}

\* decode_token is all a request or a websocket needs: whether the account is still
\* there is seen only when its profile is wanted.
Admitted(u) == u \in tokens

(* _handle_register: the name is looked up, then create_user saves.        *)
RegisterStart(t, name) ==
  /\ request[t] = Idle /\ Named(name) = {}
  /\ Does(t, [kind |-> "register", name |-> name])
  /\ UNCHANGED <<diskVars, cached, tokens, historyVars>>

RegisterEnd(t) ==
  /\ request[t].kind = "register"
  /\ \E u \in Accounts \ DOMAIN names :
       /\ names' = WithEntry(names, u, request[t].name)
       /\ profiles' = profiles \cup {u} /\ folders' = folders \cup {u}
       /\ cached' = [cached EXCEPT !["dashboard"] = @ \cup {u}]
       /\ tokens' = IssueToken(u)
  /\ Does(t, Idle)
  /\ UNCHANGED <<mapped, open, historyVars>>

(* authenticate: the profile found by name is verified and saved again     *)
(* with the time of the login.                                             *)
LoginStart(t, u) ==
  /\ request[t] = Idle /\ u \in profiles
  /\ Does(t, Found([do |-> "login", user |-> u], "dashboard", TRUE))
  /\ UNCHANGED <<diskVars, cached, tokens, historyVars>>

Verify(t) ==
  /\ Got(t, "login")
  /\ cached' = CachedAfter(t)
  /\ Does(t, [kind |-> "verify", user |-> request[t].job.user])
  /\ UNCHANGED <<diskVars, tokens, historyVars>>

LoginEnd(t, right) ==
  /\ request[t].kind = "verify"
  /\ LET u == request[t].user IN
     IF right
     THEN /\ profiles' = profiles \cup {u} /\ folders' = folders \cup {u}
          /\ cached' = [cached EXCEPT !["dashboard"] = @ \cup {u}]
          /\ tokens' = IssueToken(u)
     ELSE UNCHANGED <<profiles, folders, cached, tokens>>
  /\ Does(t, Idle)
  /\ UNCHANGED <<names, mapped, open, historyVars>>

(* _handle_me *)
AskMe(t, u) == Admitted(u) /\ GetUser(t, [do |-> "me", user |-> u], "dashboard")

AnswerMe(t) ==
  /\ Got(t, "me")
  /\ cached' = CachedAfter(t) /\ Does(t, Idle)
  /\ UNCHANGED <<diskVars, tokens, historyVars>>

(* get_channels over the websocket, and set_channel_active, which asks the *)
(* ChannelManager's copy: list_channel_configs makes the folder of a user  *)
(* it knows, and _ensure_portfolio_scaffold writes a profile that is       *)
(* missing.                                                                *)
ListStart(i, u) == Admitted(u) /\ GetUser(Loop, [do |-> "list", user |-> u], i)

ListChannels ==
  /\ Got(Loop, "list")
  /\ LET u == request[Loop].job.user IN
     profiles' = profiles \cup {u} /\ folders' = folders \cup {u}
  /\ cached' = CachedAfter(Loop) /\ Does(Loop, Idle)
  /\ UNCHANGED <<names, mapped, open, tokens, historyVars>>

-----------------------------------------------------------------------------
(* delete_user, up to the mappings *)

(* _handle_delete_account: not for the administrator.                      *)
DeleteStart(t, u) ==
  u # Admin /\ Admitted(u) /\ GetUser(t, [do |-> "delete", user |-> u], "dashboard")

DeleteBegin(t) ==
  /\ Got(t, "delete")
  /\ cached' = CachedAfter(t)
  /\ LET u == request[t].job.user IN
     Does(t, IF u \in profiles \cup folders THEN [kind |-> "delete", user |-> u] ELSE Idle)
  /\ UNCHANGED <<diskVars, tokens, historyVars>>

UnlinkProfile(t) ==
  /\ request[t].kind = "delete"
  /\ profiles' = profiles \ {request[t].user}
  /\ Does(t, [kind |-> "forget", user |-> request[t].user])
  /\ UNCHANGED <<names, folders, mapped, open, cached, tokens, historyVars>>

ForgetProfile(t) ==
  /\ request[t].kind = "forget"
  /\ cached' = [cached EXCEPT !["dashboard"] = @ \ {request[t].user}]
  /\ Does(t, [kind |-> "remove", user |-> request[t].user])
  /\ UNCHANGED <<diskVars, tokens, historyVars>>

\* Somebody has the profile of u in memory.
Held(u) ==
  \/ \E i \in Instances : u \in cached[i]
  \/ \E w \in Workers : \/ request[w].kind = "found" /\ request[w].job.user = u
                        \/ request[w].kind = "verify" /\ request[w].user = u

Removed(us) == mapped' = [u \in Accounts |-> IF u \in us THEN {} ELSE mapped[u]]
               /\ open' = {o \in open : o[2] \notin us}

RemoveFolder(t) ==
  /\ request[t].kind = "remove"
  /\ LET u == request[t].user IN
     /\ profiles' = profiles \ {u} /\ folders' = folders \ {u} /\ Removed({u})
     /\ deleted' = deleted \cup {u}
     /\ surviving' = IF Held(u) THEN surviving \cup {u} ELSE surviving
     /\ Does(t, [kind |-> "start", job |-> [do |-> "delete", user |-> u]])
  /\ UNCHANGED <<names, cached, tokens, asked>>

-----------------------------------------------------------------------------
(* The mappings, which the loop changes for a user of a websocket, and     *)
(* delete_user from its thread                                             *)

MapStart(u, e) ==
  Admitted(u) /\ GetUser(Loop, [do |-> "map", user |-> u, endpoint |-> e], "dashboard")

MapIdentity ==
  /\ Got(Loop, "map")
  /\ cached' = CachedAfter(Loop)
  /\ LET job == request[Loop].job IN
     /\ asked' = [asked EXCEPT ![job.user] = @ \cup {job.endpoint}]
     /\ Does(Loop, [kind |-> "start", job |-> job])
  /\ UNCHANGED <<diskVars, tokens, deleted, surviving>>

(* delete_identity_mapping, of the user's own *)
DeleteMapping(u, e) ==
  /\ request[Loop] = Idle /\ Admitted(u)
  /\ Does(Loop, [kind |-> "start", job |-> [do |-> "unmap", user |-> u, endpoint |-> e]])
  /\ UNCHANGED <<diskVars, cached, tokens, historyVars>>

(* _load_identity_mappings_from_portfolios: the folders there are, and     *)
(* then the file of each.                                                  *)
ListFolders(w) ==
  /\ request[w].kind = "start"
  /\ Does(w, [kind |-> "load", job |-> request[w].job, left |-> folders, found |-> {}])
  /\ UNCHANGED <<diskVars, cached, tokens, historyVars>>

LoadMappings(w) ==
  /\ request[w].kind = "load"
  /\ \E u \in request[w].left :
       Does(w, [request[w] EXCEPT !.left = @ \ {u}, !.found = @ \cup ({u} \X mapped[u])])
  /\ UNCHANGED <<diskVars, cached, tokens, historyVars>>

\* Fault seed: the record that is replaced keeps its owner.
KeepsOwner(job, found) ==
  CASE job.do = "delete" -> {{p \in found : p[1] # job.user}}
    [] job.do = "unmap"  -> {found \ {<<job.user, job.endpoint>>}}
    [] job.do = "map"    -> {found \cup {<<u, job.endpoint>> : u \in Accounts}}

(* What is to be saved of the records that were found: the first one of    *)
(* the endpoint gets its new owner.                                        *)
Remaining(job, found) ==
  CASE job.do = "delete" -> {{p \in found : p[1] # job.user}}
    [] job.do = "unmap"  -> {found \ {<<job.user, job.endpoint>>}}
    [] job.do = "map"    ->
         LET same == {p \in found : p[2] = job.endpoint}
             mine == <<job.user, job.endpoint>>
         IN IF same = {} THEN {found \cup {mine}}
            ELSE {(found \ {p}) \cup {mine} : p \in same}

Owners(records) == {p[1] : p \in records}
OfUser(records, u) == {p[2] : p \in {q \in records : q[1] = u}}

(* _save_identity_mappings_to_portfolios looks once more which folders     *)
(* there are; a mapping that was not found is not deleted.                 *)
Regroup(w) ==
  LET r == request[w] IN
  /\ r.kind = "load" /\ r.left = {}
  /\ \E records \in Remaining(r.job, r.found) :
       Does(w, IF r.job.do = "unmap" /\ records = r.found THEN Idle
               ELSE [kind |-> "save", unlinks |-> folders \ Owners(records),
                     writes |-> Owners(records), records |-> records])
  /\ UNCHANGED <<diskVars, cached, tokens, historyVars>>

UnlinkMappings(w) ==
  /\ request[w].kind = "save"
  /\ \E u \in request[w].unlinks :
       Removed({u}) /\ Does(w, [request[w] EXCEPT !.unlinks = @ \ {u}])
  /\ UNCHANGED <<names, profiles, folders, cached, tokens, historyVars>>

(* _save_identity_records_to_file: the folder is made, the file emptied,   *)
(* and then written.                                                       *)
EmptyMappings(w) ==
  LET r == request[w] IN
  /\ r.kind = "save" /\ r.unlinks = {}
  /\ \E u \in r.writes :
       /\ folders' = folders \cup {u}
       /\ mapped' = [mapped EXCEPT ![u] = {}] /\ open' = open \cup {<<w, u>>}
       /\ Does(w, [kind |-> "write", user |-> u, left |-> r.writes \ {u}, records |-> r.records])
  /\ UNCHANGED <<names, profiles, cached, tokens, historyVars>>

(* A file that was unlinked meanwhile takes what is written with it; over  *)
(* what another has written meanwhile it may end as something unreadable.  *)
WriteMappings(w) ==
  LET r   == request[w]
      own == OfUser(r.records, r.user)
  IN
  /\ r.kind = "write"
  /\ \E text \in IF <<w, r.user>> \notin open THEN {mapped[r.user]}
                 ELSE IF mapped[r.user] = {} THEN {own} ELSE {own, {}} :
       mapped' = [mapped EXCEPT ![r.user] = text]
  /\ open' = open \ {<<w, r.user>>}
  /\ Does(w, [kind |-> "save", unlinks |-> {}, writes |-> r.left, records |-> r.records])
  /\ UNCHANGED <<names, profiles, folders, cached, tokens, historyVars>>

(* All is saved, or the rest is not: a folder was removed just before its  *)
(* file was opened, or the disk failed.                                    *)
EndSave(w) ==
  /\ request[w].kind = "save" /\ request[w].unlinks = {}
  /\ Does(w, Idle)
  /\ UNCHANGED <<diskVars, cached, tokens, historyVars>>

(* The process dies and starts again. *)
RestartUsers ==
  /\ request' = [w \in Workers |-> Idle] /\ open' = {}
  /\ cached' = [i \in Instances |-> IF i = "channels" THEN profiles ELSE {Admin}]
  /\ UNCHANGED <<names, profiles, folders, mapped, tokens, historyVars>>

UsersNext ==
  \/ \E t \in Threads :
       \/ \E name \in UserNames : RegisterStart(t, name)
       \/ \E u \in Accounts : LoginStart(t, u) \/ AskMe(t, u) \/ DeleteStart(t, u)
       \/ RegisterEnd(t) \/ Verify(t) \/ AnswerMe(t) \/ DeleteBegin(t)
       \/ UnlinkProfile(t) \/ ForgetProfile(t) \/ RemoveFolder(t)
       \/ \E right \in BOOLEAN : LoginEnd(t, right)
  \/ \E i \in Instances, u \in Accounts : ListStart(i, u)
  \/ \E u \in Accounts, e \in Endpoints : MapStart(u, e) \/ DeleteMapping(u, e)
  \/ ListChannels \/ MapIdentity
  \/ \E w \in Workers :
       \/ ListFolders(w) \/ LoadMappings(w) \/ Regroup(w)
       \/ UnlinkMappings(w) \/ EmptyMappings(w) \/ WriteMappings(w) \/ EndSave(w)
  \/ RestartUsers

UsersSpec == UsersInit /\ [][UsersNext]_usersVars

-----------------------------------------------------------------------------
(* Properties *)

UsersTypeOK ==
  /\ profiles \subseteq folders /\ folders \subseteq DOMAIN names
  /\ \A u \in DOMAIN names : u \in Accounts /\ names[u] \in UserNames \cup {AdminName}
  /\ mapped \in [Accounts -> SUBSET Endpoints] /\ asked \in [Accounts -> SUBSET Endpoints]
  /\ open \subseteq Workers \X Accounts
  /\ cached \in [Instances -> SUBSET Accounts]
  /\ \A w \in Workers : request[w].kind \in
       {"idle", "register", "found", "verify", "delete", "forget", "remove", "start", "load",
        "save", "write"}
  /\ surviving \cup deleted \cup tokens \subseteq Accounts

(* However the threads and the loop interleave on the files, an endpoint   *)
(* leads only to accounts that have asked for it.                          *)
OwnersAsked == \A u \in Accounts : mapped[u] \subseteq asked[u]

(* An account that was deleted is back on disk only when somebody had its  *)
(* profile in memory as its folder went: a cache, or a request or the loop *)
(* that was using it.                                                      *)
DeletedStayDeleted == deleted \cap profiles \subseteq surviving

\* Endpoints lead to those who asked for them, and what was deleted stays so.
AccountsKept == OwnersAsked /\ DeletedStayDeleted

(* README.md: `identity mapping binds external channel identity to one     *)
(* user profile'.                                                          *)
EndpointHasOneOwner ==
  \A u, v \in Accounts : mapped[u] \cap mapped[v] # {} => u = v
=============================================================================
