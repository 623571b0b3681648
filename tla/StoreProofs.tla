----------------------------- MODULE StoreProofs -----------------------------
(***************************************************************************)
(* Proofs about what is kept on disk: the accounts and identity mappings,  *)
(* for any accounts, endpoints and requests, the memory of the sessions,   *)
(* for any sessions, messages and calls, and the configuration file, for   *)
(* any writers and changes; and that all stores together keep their types. *)
(***************************************************************************)
EXTENDS MCStores, PromptProofs, FeedProofs

-----------------------------------------------------------------------------
(* Accounts and identity mappings *)

Mappings == [Accounts -> SUBSET Endpoints]

\* The accounts of which nothing is left but their name.
Gone == deleted \ surviving

\* Who may own what: an account there was, and an endpoint it has asked for.
AskedPairs == {p \in (DOMAIN names) \X Endpoints : p[2] \in asked[p[1]]}

\* What a worker holds in memory: a profile that is not of an account that is gone, and
\* only such mappings as were asked for.
Fits(r) ==
  /\ r.kind \in {"idle", "register", "found", "verify", "delete", "forget", "remove", "start",
                 "load", "save", "write"}
  /\ r.kind = "register" => r.name \in UserNames
  /\ r.kind = "found" => /\ r.by \in Instances /\ r.job.user \in DOMAIN names \ Gone
                         /\ r.job.do = "delete" => r.job.user # Admin
                         /\ r.job.do = "map" => r.job.endpoint \in Endpoints
  /\ r.kind = "verify" => r.user \in DOMAIN names \ Gone
  /\ r.kind \in {"delete", "forget", "remove"} => r.user \in DOMAIN names \ {Admin}
  /\ r.kind \in {"start", "load"} =>
       /\ r.job.do \in {"map", "unmap", "delete"}
       /\ r.job.do = "map" => <<r.job.user, r.job.endpoint>> \in AskedPairs
  /\ r.kind = "load" => r.left \subseteq DOMAIN names /\ r.found \subseteq AskedPairs
  /\ r.kind \in {"save", "write"} => r.records \subseteq AskedPairs
  /\ r.kind = "save" => r.writes \subseteq DOMAIN names
  /\ r.kind = "write" => r.left \subseteq DOMAIN names /\ r.user \in DOMAIN names

RequestsFit == request = [w \in Workers |-> request[w]] /\ \A w \in Workers : Fits(request[w])

\* What is on disk and in the caches; nobody who could write the profile of an account
\* that is gone knows it any more.
DataFits ==
  /\ profiles \subseteq folders /\ folders \subseteq DOMAIN names
  /\ \A u \in DOMAIN names : u \in Accounts /\ names[u] \in UserNames \cup {AdminName}
  /\ mapped \in Mappings /\ asked \in Mappings /\ open \subseteq Workers \X Accounts
  /\ cached \in [Instances -> SUBSET Accounts]
  /\ surviving \cup deleted \cup tokens \subseteq Accounts
  /\ Admin \in DOMAIN names /\ Admin \notin deleted /\ deleted \subseteq DOMAIN names
  /\ \A i \in Instances : cached[i] \subseteq DOMAIN names \ Gone
  /\ profiles \cap Gone = {}
  /\ OwnersAsked

AccountInv == DataFits /\ RequestsFit

LEMMA AccountsInit == UsersInit => AccountInv
<1> SUFFICES ASSUME UsersInit PROVE AccountInv
  OBVIOUS
<1>1. names = [u \in {Admin} |-> AdminName] /\ profiles = {Admin} /\ folders = {Admin}
      /\ Admin \in Accounts /\ DOMAIN names = {Admin}
  BY UsersAssumption DEF UsersInit
<1>2. mapped \in Mappings /\ asked \in Mappings /\ OwnersAsked
  BY DEF UsersInit, Mappings, OwnersAsked
<1>3. cached \in [Instances -> SUBSET Accounts] /\ \A i \in Instances : cached[i] = {Admin}
  BY <1>1 DEF UsersInit
<1>4. tokens = {} /\ deleted = {} /\ surviving = {} /\ open = {}
  BY DEF UsersInit
<1>5. request = [w \in Workers |-> request[w]] /\ \A w \in Workers : request[w] = Idle
  BY DEF UsersInit
<1>6. Fits(Idle)
  BY DEF Fits, Idle
<1> QED
  BY <1>1, <1>2, <1>3, <1>4, <1>5, <1>6 DEF AccountInv, DataFits, RequestsFit, Gone

LEMMA InstanceFacts == "dashboard" \in Instances /\ "channels" \in Instances
BY DEF Instances

\* What the other workers hold still fits as accounts and wishes are added, and one is
\* gone that they do not hold.
LEMMA OthersFit ==
  ASSUME RequestsFit, NEW w \in Workers, NEW next, Does(w, next), Fits(next)',
         DOMAIN names \subseteq DOMAIN names', AskedPairs \subseteq AskedPairs',
         \A v \in Workers \ {w} :
           /\ request[v].kind = "found" => request[v].job.user \notin Gone'
           /\ request[v].kind = "verify" => request[v].user \notin Gone'
  PROVE  RequestsFit'
<1>1. request' = [request EXCEPT ![w] = next]
  BY DEF Does
<1>2. request' = [v \in Workers |-> request'[v]] /\ request'[w] = next
      /\ \A v \in Workers \ {w} : request'[v] = request[v]
  BY <1>1 DEF RequestsFit
<1>3. ASSUME NEW v \in Workers \ {w} PROVE Fits(request[v])'
  <2>1. PICK r : r = request[v]
    OBVIOUS
  <2>2. Fits(r) /\ request'[v] = r
        /\ (r.kind = "found" => r.job.user \notin Gone') /\ (r.kind = "verify" => r.user \notin Gone')
    BY <1>2, <2>1 DEF RequestsFit
  <2>3. Fits(r)'
    BY <2>2 DEF Fits
  <2> QED
    BY <2>2, <2>3
<1> QED
  BY <1>2, <1>3 DEF RequestsFit

\* A step after which nobody more is gone.
LEMMA HoldingsFit ==
  ASSUME RequestsFit, NEW w \in Workers, NEW next, Does(w, next), Fits(next)',
         DOMAIN names \subseteq DOMAIN names', AskedPairs \subseteq AskedPairs', Gone' \subseteq Gone
  PROVE  RequestsFit'
<1>1. \A v \in Workers \ {w} :
        /\ request[v].kind = "found" => request[v].job.user \notin Gone'
        /\ request[v].kind = "verify" => request[v].user \notin Gone'
  BY DEF RequestsFit, Fits
<1> QED
  BY <1>1, OthersFit

\* A step in which a worker only reads.
LEMMA ReadingFits ==
  ASSUME AccountInv, NEW w \in Workers, NEW next, Does(w, next), Fits(next),
         UNCHANGED <<diskVars, cached, tokens, historyVars>>
  PROVE  AccountInv'
<1>1. UNCHANGED <<names, profiles, folders, mapped, open, cached, tokens, asked, deleted, surviving>>
  BY DEF diskVars, historyVars
<1>2. Gone' = Gone /\ AskedPairs' = AskedPairs /\ names' = names
  BY <1>1 DEF Gone, AskedPairs
<1>3. Fits(next)'
  BY <1>2 DEF Fits
<1>4. RequestsFit'
  BY <1>2, <1>3, HoldingsFit DEF AccountInv
<1>5. DataFits'
  BY <1>1, <1>2 DEF AccountInv, DataFits, OwnersAsked
<1> QED
  BY <1>4, <1>5 DEF AccountInv

\* The user that was found is there to be cached.
LEMMA FoundFits ==
  ASSUME AccountInv, NEW w \in Workers, request[w].kind = "found"
  PROVE  /\ Fits(request[w])
         /\ request[w].job.user \in DOMAIN names \ Gone /\ request[w].job.user \in Accounts
         /\ CachedAfter(w) \in [Instances -> SUBSET Accounts]
         /\ \A i \in Instances : CachedAfter(w)[i] \subseteq DOMAIN names \ Gone
<1>1. PICK r : r = request[w]
  OBVIOUS
<1>2. Fits(r) /\ r.kind = "found"
  BY <1>1 DEF AccountInv, RequestsFit
<1>3. r.by \in Instances /\ r.job.user \in DOMAIN names \ Gone
  BY <1>2 DEF Fits
<1>4. PICK u : u = r.job.user
  OBVIOUS
<1>5. u \in Accounts /\ u \in DOMAIN names \ Gone
  BY <1>3, <1>4 DEF AccountInv, DataFits
<1>6. CachedAfter(w) = IF r.fresh THEN [cached EXCEPT ![r.by] = @ \cup {u}] ELSE cached
  BY <1>1, <1>4 DEF CachedAfter
<1>7. /\ cached \in [Instances -> SUBSET Accounts]
      /\ \A i \in Instances : cached[i] \subseteq DOMAIN names \ Gone
  BY DEF AccountInv, DataFits
<1>8. /\ CachedAfter(w) \in [Instances -> SUBSET Accounts]
      /\ \A i \in Instances : CachedAfter(w)[i] \subseteq cached[i] \cup {u}
  BY <1>3, <1>5, <1>6, <1>7
<1> QED
  BY <1>1, <1>2, <1>4, <1>5, <1>7, <1>8

LEMMA AccountsNext == AccountInv /\ [UsersNext]_usersVars => AccountInv'
<1> SUFFICES ASSUME AccountInv, [UsersNext]_usersVars PROVE AccountInv'
  OBVIOUS
<1>0. DataFits /\ RequestsFit
  BY DEF AccountInv
<1>1. ASSUME NEW w \in Workers, NEW job, NEW i \in Instances, GetUser(w, job, i), job.user \in Accounts,
             job.do = "delete" => job.user # Admin, job.do = "map" => job.endpoint \in Endpoints
      PROVE  AccountInv'
  <2>1. PICK fresh : fresh = (job.user \notin cached[i])
    OBVIOUS
  <2>2. PICK next : next = Found(job, i, fresh)
    OBVIOUS
  <2>3. Does(w, next) /\ Knows(i, job.user) /\ UNCHANGED <<diskVars, cached, tokens, historyVars>>
    BY <1>1, <2>1, <2>2 DEF GetUser
  <2>4. job.user \in DOMAIN names \ Gone
    BY <1>0, <2>3, InstanceFacts DEF Knows, DataFits
  <2>5. Fits(next)
    BY <1>1, <2>2, <2>4 DEF Fits, Found
  <2> QED
    BY <2>3, <2>5, ReadingFits
<1>2. ASSUME NEW t \in Threads, NEW name \in UserNames, RegisterStart(t, name) PROVE AccountInv'
  <2>1. PICK next : next = [kind |-> "register", name |-> name]
    OBVIOUS
  <2>2. Fits(next) /\ Does(t, next) /\ UNCHANGED <<diskVars, cached, tokens, historyVars>> /\ t \in Workers
    BY <1>2, <2>1 DEF RegisterStart, Fits, Workers
  <2> QED
    BY <2>2, ReadingFits
<1>3. ASSUME NEW t \in Threads, NEW u \in Accounts, LoginStart(t, u) PROVE AccountInv'
  <2>1. PICK next : next = Found([do |-> "login", user |-> u], "dashboard", TRUE)
    OBVIOUS
  <2>2. Does(t, next) /\ UNCHANGED <<diskVars, cached, tokens, historyVars>> /\ u \in profiles /\ t \in Workers
    BY <1>3, <2>1 DEF LoginStart, Workers
  <2>3. Fits(next)
    BY <1>0, <2>1, <2>2, InstanceFacts DEF Fits, Found, DataFits
  <2> QED
    BY <2>2, <2>3, ReadingFits
<1>4. ASSUME NEW u \in Accounts, NEW e \in Endpoints, DeleteMapping(u, e) PROVE AccountInv'
  <2>1. PICK next : next = [kind |-> "start", job |-> [do |-> "unmap", user |-> u, endpoint |-> e]]
    OBVIOUS
  <2>2. Fits(next) /\ Does(Loop, next) /\ UNCHANGED <<diskVars, cached, tokens, historyVars>> /\ Loop \in Workers
    BY <1>4, <2>1 DEF DeleteMapping, Fits, Workers
  <2> QED
    BY <2>2, ReadingFits
<1>5. ASSUME NEW w \in Workers, ListFolders(w) PROVE AccountInv'
  <2>1. PICK next : next = [kind |-> "load", job |-> request[w].job, left |-> folders, found |-> {}]
    OBVIOUS
  <2>2. Does(w, next) /\ UNCHANGED <<diskVars, cached, tokens, historyVars>> /\ request[w].kind = "start"
    BY <1>5, <2>1 DEF ListFolders
  <2>3. Fits(next)
    BY <1>0, <2>1, <2>2 DEF Fits, DataFits, RequestsFit
  <2> QED
    BY <2>2, <2>3, ReadingFits
<1>6. ASSUME NEW w \in Workers, LoadMappings(w) PROVE AccountInv'
  <2>1. PICK r : r = request[w]
    OBVIOUS
  <2>2. PICK u \in r.left : Does(w, [r EXCEPT !.left = @ \ {u}, !.found = @ \cup ({u} \X mapped[u])])
    BY <1>6, <2>1 DEF LoadMappings
  <2>3. r.kind = "load" /\ Fits(r) /\ UNCHANGED <<diskVars, cached, tokens, historyVars>>
    BY <1>0, <1>6, <2>1 DEF LoadMappings, RequestsFit
  <2>4. u \in DOMAIN names /\ u \in Accounts
    BY <1>0, <2>3 DEF Fits, DataFits
  <2>5. {u} \X mapped[u] \subseteq AskedPairs
    <3>1. mapped[u] \subseteq asked[u] /\ mapped[u] \subseteq Endpoints
      BY <1>0, <2>4 DEF DataFits, OwnersAsked, Mappings
    <3> QED
      BY <2>4, <3>1 DEF AskedPairs
  <2>6. PICK next : next = [r EXCEPT !.left = @ \ {u}, !.found = @ \cup ({u} \X mapped[u])]
    OBVIOUS
  <2>7. Fits(next)
    <3>1. PICK more : more = {u} \X mapped[u]
      OBVIOUS
    <3>2. next = [r EXCEPT !.left = @ \ {u}, !.found = @ \cup more] /\ more \subseteq AskedPairs
      BY <2>5, <2>6, <3>1
    <3> QED
      BY <2>3, <3>2 DEF Fits
  <2> QED
    BY <2>2, <2>3, <2>6, <2>7, ReadingFits
<1>7. ASSUME NEW w \in Workers, Regroup(w) PROVE AccountInv'
  <2>1. PICK r : r = request[w]
    OBVIOUS
  <2>2. r.kind = "load" /\ Fits(r) /\ UNCHANGED <<diskVars, cached, tokens, historyVars>>
    BY <1>0, <1>7, <2>1 DEF Regroup, RequestsFit
  <2>3. PICK records \in Remaining(r.job, r.found) :
          Does(w, IF r.job.do = "unmap" /\ records = r.found THEN Idle
                  ELSE [kind |-> "save", unlinks |-> folders \ Owners(records),
                        writes |-> Owners(records), records |-> records])
    BY <1>7, <2>1 DEF Regroup
  <2>4. records \subseteq AskedPairs
    <3>1. r.found \subseteq AskedPairs /\ r.job.do \in {"map", "unmap", "delete"}
          /\ (r.job.do = "map" => <<r.job.user, r.job.endpoint>> \in AskedPairs)
      BY <2>2 DEF Fits
    <3>2. CASE r.job.do = "delete"
      BY <3>1, <3>2, records \in Remaining(r.job, r.found) DEF Remaining
    <3>3. CASE r.job.do = "unmap"
      BY <3>1, <3>3, records \in Remaining(r.job, r.found) DEF Remaining
    <3>4. CASE r.job.do = "map"
      BY <3>1, <3>4, records \in Remaining(r.job, r.found) DEF Remaining
    <3> QED
      BY <3>1, <3>2, <3>3, <3>4
  <2>5. Owners(records) \subseteq DOMAIN names
    BY <2>4 DEF Owners, AskedPairs
  <2>6. PICK next : next = IF r.job.do = "unmap" /\ records = r.found THEN Idle
                           ELSE [kind |-> "save", unlinks |-> folders \ Owners(records),
                                 writes |-> Owners(records), records |-> records]
    OBVIOUS
  <2>7. Fits(next)
    BY <2>4, <2>5, <2>6 DEF Fits, Idle
  <2> QED
    BY <2>2, <2>3, <2>6, <2>7, ReadingFits
<1>8. ASSUME NEW w \in Workers, EndSave(w) PROVE AccountInv'
  <2>1. Fits(Idle) /\ Does(w, Idle) /\ UNCHANGED <<diskVars, cached, tokens, historyVars>>
    BY <1>8 DEF EndSave, Fits, Idle
  <2> QED
    BY <2>1, ReadingFits
<1>9. ASSUME NEW w \in Workers, NEW next, Does(w, next), request[w].kind = "found", Fits(next),
             cached' = CachedAfter(w), UNCHANGED <<diskVars, tokens, historyVars>>
      PROVE  AccountInv'
  <2>1. UNCHANGED <<names, profiles, folders, mapped, open, tokens, asked, deleted, surviving>>
    BY <1>9 DEF diskVars, historyVars
  <2>2. Gone' = Gone /\ AskedPairs' = AskedPairs /\ names' = names
    BY <2>1 DEF Gone, AskedPairs
  <2>3. Fits(next)'
    BY <1>9, <2>2 DEF Fits
  <2>4. RequestsFit'
    BY <1>0, <1>9, <2>2, <2>3, HoldingsFit
  <2>5. /\ cached' \in [Instances -> SUBSET Accounts]
        /\ \A i \in Instances : cached'[i] \subseteq DOMAIN names \ Gone
    BY <1>9, FoundFits
  <2>6. DataFits'
    BY <1>0, <2>1, <2>2, <2>5 DEF DataFits, OwnersAsked
  <2> QED
    BY <2>4, <2>6 DEF AccountInv
<1>10. ASSUME NEW t \in Threads, Verify(t) PROVE AccountInv'
  <2>1. PICK next : next = [kind |-> "verify", user |-> request[t].job.user]
    OBVIOUS
  <2>2. Does(t, next) /\ request[t].kind = "found" /\ cached' = CachedAfter(t) /\ t \in Workers
        /\ UNCHANGED <<diskVars, tokens, historyVars>>
    BY <1>10, <2>1 DEF Verify, Got, Workers
  <2>3. Fits(next)
    BY <2>1, <2>2, FoundFits DEF Fits
  <2> QED
    BY <1>9, <2>2, <2>3
<1>11. ASSUME NEW t \in Threads, AnswerMe(t) PROVE AccountInv'
  <2>1. Fits(Idle) /\ Does(t, Idle) /\ request[t].kind = "found" /\ cached' = CachedAfter(t) /\ t \in Workers
        /\ UNCHANGED <<diskVars, tokens, historyVars>>
    BY <1>11 DEF AnswerMe, Got, Workers, Fits, Idle
  <2> QED
    BY <1>9, <2>1
<1>12. ASSUME NEW t \in Threads, DeleteBegin(t) PROVE AccountInv'
  <2>1. PICK r : r = request[t]
    OBVIOUS
  <2>2. PICK next : next = IF r.job.user \in profiles \cup folders
                           THEN [kind |-> "delete", user |-> r.job.user] ELSE Idle
    OBVIOUS
  <2>3. Does(t, next) /\ r.kind = "found" /\ r.job.do = "delete" /\ cached' = CachedAfter(t) /\ t \in Workers
        /\ UNCHANGED <<diskVars, tokens, historyVars>>
    BY <1>12, <2>1, <2>2 DEF DeleteBegin, Got, Workers
  <2>4. Fits(r)
    BY <2>1, <2>3, FoundFits
  <2>5. Fits(next)
    BY <2>2, <2>3, <2>4 DEF Fits, Idle
  <2> QED
    BY <1>9, <2>1, <2>3, <2>5
<1>13. ASSUME ListChannels PROVE AccountInv'
  <2>1. PICK u : u = request[Loop].job.user
    OBVIOUS
  <2>2. /\ request[Loop].kind = "found" /\ Loop \in Workers /\ cached' = CachedAfter(Loop) /\ Does(Loop, Idle)
        /\ profiles' = profiles \cup {u} /\ folders' = folders \cup {u}
        /\ UNCHANGED <<names, mapped, open, tokens, historyVars>>
    BY <1>13, <2>1 DEF ListChannels, Got, Workers
  <2>3. u \in DOMAIN names \ Gone
    BY <2>1, <2>2, FoundFits
  <2>4. UNCHANGED <<names, mapped, open, tokens, asked, deleted, surviving>>
    BY <2>2 DEF historyVars
  <2>5. Gone' = Gone /\ AskedPairs' = AskedPairs
    BY <2>4 DEF Gone, AskedPairs
  <2>6. Fits(Idle)'
    BY DEF Fits, Idle
  <2>7. RequestsFit'
    BY <1>0, <2>2, <2>4, <2>5, <2>6, HoldingsFit
  <2>8. /\ cached' \in [Instances -> SUBSET Accounts]
        /\ \A i \in Instances : cached'[i] \subseteq DOMAIN names \ Gone
    BY <2>2, FoundFits
  <2>9. DataFits'
    BY <1>0, <2>2, <2>3, <2>4, <2>5, <2>8 DEF DataFits, OwnersAsked
  <2> QED
    BY <2>7, <2>9 DEF AccountInv
<1>14. ASSUME MapIdentity PROVE AccountInv'
  <2>1. PICK job : job = request[Loop].job
    OBVIOUS
  <2>2. PICK next : next = [kind |-> "start", job |-> job]
    OBVIOUS
  <2>3. /\ request[Loop].kind = "found" /\ job.do = "map" /\ Loop \in Workers /\ cached' = CachedAfter(Loop)
        /\ Does(Loop, next) /\ asked' = [asked EXCEPT ![job.user] = @ \cup {job.endpoint}]
        /\ UNCHANGED <<diskVars, tokens, deleted, surviving>>
    BY <1>14, <2>1, <2>2 DEF MapIdentity, Got, Workers
  <2>4. job.user \in DOMAIN names /\ job.user \in Accounts /\ job.endpoint \in Endpoints
    BY <2>1, <2>3, FoundFits DEF Fits
  <2>5. UNCHANGED <<names, profiles, folders, mapped, open, tokens, deleted, surviving>>
    BY <2>3 DEF diskVars
  <2>6. asked' \in Mappings /\ job.endpoint \in asked'[job.user] /\ \A u \in Accounts : asked[u] \subseteq asked'[u]
    BY <1>0, <2>3, <2>4 DEF DataFits, Mappings
  <2>7. Gone' = Gone /\ AskedPairs \subseteq AskedPairs' /\ <<job.user, job.endpoint>> \in AskedPairs'
    <3>1. DOMAIN names \subseteq Accounts /\ names' = names
      BY <1>0, <2>5 DEF DataFits
    <3> QED
      BY <2>4, <2>5, <2>6, <3>1 DEF Gone, AskedPairs
  <2>8. Fits(next)'
    BY <2>2, <2>3, <2>7 DEF Fits
  <2>9. RequestsFit'
    BY <1>0, <2>3, <2>5, <2>7, <2>8, HoldingsFit
  <2>10. /\ cached' \in [Instances -> SUBSET Accounts]
         /\ \A i \in Instances : cached'[i] \subseteq DOMAIN names \ Gone
    BY <2>3, FoundFits
  <2>11. OwnersAsked'
    BY <1>0, <2>5, <2>6 DEF DataFits, OwnersAsked
  <2>12. DataFits'
    BY <1>0, <2>5, <2>6, <2>7, <2>10, <2>11 DEF DataFits
  <2> QED
    BY <2>9, <2>12 DEF AccountInv
<1>15. ASSUME NEW t \in Threads, RegisterEnd(t) PROVE AccountInv'
  <2>1. PICK r : r = request[t]
    OBVIOUS
  <2>2. PICK u \in Accounts \ DOMAIN names :
          /\ names' = WithEntry(names, u, r.name)
          /\ profiles' = profiles \cup {u} /\ folders' = folders \cup {u}
          /\ cached' = [cached EXCEPT !["dashboard"] = @ \cup {u}]
          /\ tokens' = tokens \cup {u}
    BY <1>15, <2>1 DEF RegisterEnd, IssueToken
  <2>3. r.kind = "register" /\ Does(t, Idle) /\ t \in Workers /\ Fits(r)
        /\ UNCHANGED <<mapped, open, asked, deleted, surviving>>
    BY <1>0, <1>15, <2>1 DEF RegisterEnd, Workers, historyVars, RequestsFit
  <2>4. DOMAIN names' = DOMAIN names \cup {u}
        /\ \A v \in DOMAIN names' : v \in Accounts /\ names'[v] \in UserNames \cup {AdminName}
    <3>1. r.name \in UserNames
      BY <2>3 DEF Fits
    <3> QED
      BY <1>0, <2>2, <3>1 DEF WithEntry, DataFits
  <2>5. Gone' = Gone /\ AskedPairs \subseteq AskedPairs' /\ u \notin Gone
    BY <1>0, <2>2, <2>3, <2>4 DEF Gone, AskedPairs, DataFits
  <2>6. Fits(Idle)'
    BY DEF Fits, Idle
  <2>7. RequestsFit'
    BY <1>0, <2>3, <2>4, <2>5, <2>6, HoldingsFit
  <2>8. /\ cached' \in [Instances -> SUBSET Accounts]
        /\ \A i \in Instances : cached'[i] \subseteq (DOMAIN names') \ Gone
    <3>1. /\ cached \in [Instances -> SUBSET Accounts]
          /\ \A i \in Instances : cached[i] \subseteq DOMAIN names \ Gone
      BY <1>0 DEF DataFits
    <3>2. cached' \in [Instances -> SUBSET Accounts] /\ \A i \in Instances : cached'[i] \subseteq cached[i] \cup {u}
      BY <2>2, <3>1
    <3> QED
      BY <2>4, <2>5, <3>1, <3>2
  <2>9. DataFits'
    BY <1>0, <2>2, <2>3, <2>4, <2>5, <2>8 DEF DataFits, OwnersAsked
  <2> QED
    BY <2>7, <2>9 DEF AccountInv
<1>16. ASSUME NEW t \in Threads, NEW right \in BOOLEAN, LoginEnd(t, right) PROVE AccountInv'
  <2>1. PICK r : r = request[t]
    OBVIOUS
  <2>2. PICK u : u = r.user
    OBVIOUS
  <2>3. r.kind = "verify" /\ Does(t, Idle) /\ t \in Workers /\ Fits(r)
        /\ UNCHANGED <<names, mapped, open, asked, deleted, surviving>>
    BY <1>0, <1>16, <2>1 DEF LoginEnd, Workers, historyVars, RequestsFit
  <2>4. u \in DOMAIN names \ Gone /\ u \in Accounts
    BY <1>0, <2>2, <2>3 DEF Fits, DataFits
  <2>5. \/ /\ profiles' = profiles \cup {u} /\ folders' = folders \cup {u}
           /\ cached' = [cached EXCEPT !["dashboard"] = @ \cup {u}] /\ tokens' = tokens \cup {u}
        \/ UNCHANGED <<profiles, folders, cached, tokens>>
    BY <1>16, <2>1, <2>2 DEF LoginEnd, IssueToken
  <2>6. Gone' = Gone /\ AskedPairs' = AskedPairs
    BY <2>3 DEF Gone, AskedPairs
  <2>7. Fits(Idle)'
    BY DEF Fits, Idle
  <2>8. RequestsFit'
    BY <1>0, <2>3, <2>6, <2>7, HoldingsFit
  <2>9. /\ cached' \in [Instances -> SUBSET Accounts]
        /\ \A i \in Instances : cached'[i] \subseteq DOMAIN names \ Gone
    <3>1. /\ cached \in [Instances -> SUBSET Accounts]
          /\ \A i \in Instances : cached[i] \subseteq DOMAIN names \ Gone
      BY <1>0 DEF DataFits
    <3> QED
      BY <2>4, <2>5, <3>1
  <2>10. DataFits'
    BY <1>0, <2>3, <2>4, <2>5, <2>6, <2>9 DEF DataFits, OwnersAsked
  <2> QED
    BY <2>8, <2>10 DEF AccountInv
<1>17. ASSUME NEW t \in Threads, UnlinkProfile(t) PROVE AccountInv'
  <2>1. PICK r : r = request[t]
    OBVIOUS
  <2>2. PICK next : next = [kind |-> "forget", user |-> r.user]
    OBVIOUS
  <2>3. r.kind = "delete" /\ Does(t, next) /\ t \in Workers /\ Fits(r) /\ profiles' = profiles \ {r.user}
        /\ UNCHANGED <<names, folders, mapped, open, cached, tokens, asked, deleted, surviving>>
    BY <1>0, <1>17, <2>1, <2>2 DEF UnlinkProfile, Workers, historyVars, RequestsFit
  <2>4. Gone' = Gone /\ AskedPairs' = AskedPairs
    BY <2>3 DEF Gone, AskedPairs
  <2>5. Fits(next)'
    BY <2>2, <2>3, <2>4 DEF Fits
  <2>6. RequestsFit'
    BY <1>0, <2>3, <2>4, <2>5, HoldingsFit
  <2>7. DataFits'
    BY <1>0, <2>3, <2>4 DEF DataFits, OwnersAsked
  <2> QED
    BY <2>6, <2>7 DEF AccountInv
<1>18. ASSUME NEW t \in Threads, ForgetProfile(t) PROVE AccountInv'
  <2>1. PICK r : r = request[t]
    OBVIOUS
  <2>2. PICK next : next = [kind |-> "remove", user |-> r.user]
    OBVIOUS
  <2>3. r.kind = "forget" /\ Does(t, next) /\ t \in Workers /\ Fits(r)
        /\ cached' = [cached EXCEPT !["dashboard"] = @ \ {r.user}]
        /\ UNCHANGED <<names, profiles, folders, mapped, open, tokens, asked, deleted, surviving>>
    BY <1>0, <1>18, <2>1, <2>2 DEF ForgetProfile, Workers, diskVars, historyVars, RequestsFit
  <2>4. Gone' = Gone /\ AskedPairs' = AskedPairs
    BY <2>3 DEF Gone, AskedPairs
  <2>5. Fits(next)'
    BY <2>2, <2>3, <2>4 DEF Fits
  <2>6. RequestsFit'
    BY <1>0, <2>3, <2>4, <2>5, HoldingsFit
  <2>7. /\ cached' \in [Instances -> SUBSET Accounts]
        /\ \A i \in Instances : cached'[i] \subseteq DOMAIN names \ Gone
    BY <1>0, <2>3 DEF DataFits
  <2>8. DataFits'
    BY <1>0, <2>3, <2>4, <2>7 DEF DataFits, OwnersAsked
  <2> QED
    BY <2>6, <2>8 DEF AccountInv
<1>19. ASSUME NEW t \in Threads, RemoveFolder(t) PROVE AccountInv'
  <2>1. PICK r : r = request[t]
    OBVIOUS
  <2>2. PICK u : u = r.user
    OBVIOUS
  <2>3. PICK next : next = [kind |-> "start", job |-> [do |-> "delete", user |-> u]]
    OBVIOUS
  <2>4. /\ r.kind = "remove" /\ Does(t, next) /\ t \in Workers /\ Fits(r)
        /\ profiles' = profiles \ {u} /\ folders' = folders \ {u}
        /\ mapped' = [v \in Accounts |-> IF v \in {u} THEN {} ELSE mapped[v]]
        /\ open' = {o \in open : o[2] \notin {u}}
        /\ deleted' = deleted \cup {u}
        /\ surviving' = IF Held(u) THEN surviving \cup {u} ELSE surviving
        /\ UNCHANGED <<names, cached, tokens, asked>>
    BY <1>0, <1>19, <2>1, <2>2, <2>3 DEF RemoveFolder, Removed, Workers, RequestsFit
  <2>5. u \in DOMAIN names /\ u # Admin /\ u \in Accounts
    BY <1>0, <2>2, <2>4 DEF Fits, DataFits
  <2>6. Gone' \subseteq Gone \cup {u} /\ (u \in Gone' => ~Held(u)) /\ AskedPairs' = AskedPairs
    BY <2>4 DEF Gone, AskedPairs
  <2>7. Fits(next)'
    BY <2>3 DEF Fits
  <2>8. ASSUME NEW v \in Workers \ {t}
        PROVE  /\ request[v].kind = "found" => request[v].job.user \notin Gone'
               /\ request[v].kind = "verify" => request[v].user \notin Gone'
    <3>1. Fits(request[v]) /\ v \in Workers
      BY <1>0, <2>8 DEF RequestsFit
    <3>2. /\ request[v].kind = "found" => request[v].job.user \notin Gone
          /\ request[v].kind = "verify" => request[v].user \notin Gone
      BY <3>1 DEF Fits
    <3>3. u \in Gone' => /\ request[v].kind = "found" => request[v].job.user # u
                         /\ request[v].kind = "verify" => request[v].user # u
      BY <2>6, <3>1 DEF Held
    <3> QED
      BY <2>6, <3>2, <3>3
  <2>9. RequestsFit'
    BY <1>0, <2>4, <2>6, <2>7, <2>8, OthersFit
  <2>10. \A i \in Instances : cached[i] \subseteq DOMAIN names \ Gone'
    BY <1>0, <2>6 DEF DataFits, Held
  <2>11. mapped' \in Mappings /\ OwnersAsked'
    BY <1>0, <2>4 DEF DataFits, Mappings, OwnersAsked
  <2>12. profiles' \cap Gone' = {}
    BY <1>0, <2>4, <2>6 DEF DataFits
  <2>13. deleted' \subseteq DOMAIN names /\ Admin \notin deleted' /\ surviving' \cup deleted' \cup tokens \subseteq Accounts
    BY <1>0, <2>4, <2>5 DEF DataFits
  <2>14. DataFits'
    BY <1>0, <2>4, <2>10, <2>11, <2>12, <2>13 DEF DataFits
  <2> QED
    BY <2>9, <2>14 DEF AccountInv
<1>20. ASSUME NEW w \in Workers, UnlinkMappings(w) PROVE AccountInv'
  <2>1. PICK r : r = request[w]
    OBVIOUS
  <2>2. PICK u \in r.unlinks : Removed({u}) /\ Does(w, [r EXCEPT !.unlinks = @ \ {u}])
    BY <1>20, <2>1 DEF UnlinkMappings
  <2>3. PICK next : next = [r EXCEPT !.unlinks = @ \ {u}]
    OBVIOUS
  <2>4. r.kind = "save" /\ Fits(r) /\ Does(w, next)
        /\ UNCHANGED <<names, profiles, folders, cached, tokens, asked, deleted, surviving>>
    BY <1>0, <1>20, <2>1, <2>2, <2>3 DEF UnlinkMappings, historyVars, RequestsFit
  <2>5. Gone' = Gone /\ AskedPairs' = AskedPairs
    BY <2>4 DEF Gone, AskedPairs
  <2>6. Fits(next)
    BY <2>3, <2>4 DEF Fits
  <2>7. Fits(next)'
    BY <2>4, <2>5, <2>6 DEF Fits
  <2>8. RequestsFit'
    BY <1>0, <2>4, <2>5, <2>7, HoldingsFit
  <2>9. mapped' \in Mappings /\ OwnersAsked' /\ open' \subseteq Workers \X Accounts
    BY <1>0, <2>2, <2>4 DEF Removed, DataFits, Mappings, OwnersAsked
  <2>10. DataFits'
    BY <1>0, <2>4, <2>5, <2>9 DEF DataFits
  <2> QED
    BY <2>8, <2>10 DEF AccountInv
<1>21. ASSUME NEW w \in Workers, EmptyMappings(w) PROVE AccountInv'
  <2>1. PICK r : r = request[w]
    OBVIOUS
  <2>2. PICK u \in r.writes :
          /\ folders' = folders \cup {u}
          /\ mapped' = [mapped EXCEPT ![u] = {}] /\ open' = open \cup {<<w, u>>}
          /\ Does(w, [kind |-> "write", user |-> u, left |-> r.writes \ {u}, records |-> r.records])
    BY <1>21, <2>1 DEF EmptyMappings
  <2>3. PICK next : next = [kind |-> "write", user |-> u, left |-> r.writes \ {u}, records |-> r.records]
    OBVIOUS
  <2>4. r.kind = "save" /\ Fits(r) /\ Does(w, next)
        /\ UNCHANGED <<names, profiles, cached, tokens, asked, deleted, surviving>>
    BY <1>0, <1>21, <2>1, <2>2, <2>3 DEF EmptyMappings, historyVars, RequestsFit
  <2>5. Gone' = Gone /\ AskedPairs' = AskedPairs
    BY <2>4 DEF Gone, AskedPairs
  <2>6. u \in DOMAIN names /\ u \in Accounts
    BY <1>0, <2>4 DEF Fits, DataFits
  <2>7. Fits(next)
    BY <2>3, <2>4, <2>6 DEF Fits
  <2>8. Fits(next)'
    BY <2>4, <2>5, <2>7 DEF Fits
  <2>9. RequestsFit'
    BY <1>0, <2>4, <2>5, <2>8, HoldingsFit
  <2>10. mapped' \in Mappings /\ OwnersAsked' /\ open' \subseteq Workers \X Accounts
    BY <1>0, <2>2, <2>4, <2>6 DEF DataFits, Mappings, OwnersAsked
  <2>11. DataFits'
    BY <1>0, <2>2, <2>4, <2>5, <2>6, <2>10 DEF DataFits
  <2> QED
    BY <2>9, <2>11 DEF AccountInv
<1>22. ASSUME NEW w \in Workers, WriteMappings(w) PROVE AccountInv'
  <2>1. PICK r : r = request[w]
    OBVIOUS
  <2>2. r.kind = "write" /\ Fits(r)
        /\ UNCHANGED <<names, profiles, folders, cached, tokens, asked, deleted, surviving>>
        /\ open' = open \ {<<w, r.user>>}
    BY <1>0, <1>22, <2>1 DEF WriteMappings, historyVars, RequestsFit
  <2>3. r.user \in DOMAIN names /\ r.user \in Accounts /\ r.records \subseteq AskedPairs
    BY <1>0, <2>2 DEF Fits, DataFits
  <2>4. PICK mappings : /\ mappings \in IF <<w, r.user>> \notin open THEN {mapped[r.user]}
                                ELSE IF mapped[r.user] = {} THEN {OfUser(r.records, r.user)}
                                ELSE {OfUser(r.records, r.user), {}}
                    /\ mapped' = [mapped EXCEPT ![r.user] = mappings]
    BY <1>22, <2>1 DEF WriteMappings
  <2>5. OfUser(r.records, r.user) \subseteq asked[r.user] /\ OfUser(r.records, r.user) \subseteq Endpoints
    BY <2>3 DEF OfUser, AskedPairs
  <2>6. mappings \subseteq asked[r.user] /\ mappings \subseteq Endpoints
    <3>1. mapped[r.user] \subseteq asked[r.user] /\ mapped[r.user] \subseteq Endpoints
      BY <1>0, <2>3 DEF DataFits, Mappings, OwnersAsked
    <3>2. mappings = mapped[r.user] \/ mappings = OfUser(r.records, r.user) \/ mappings = {}
      BY <2>4
    <3> QED
      BY <2>5, <3>1, <3>2
  <2>7. PICK next : next = [kind |-> "save", unlinks |-> {}, writes |-> r.left, records |-> r.records]
    OBVIOUS
  <2>8. Does(w, next)
    BY <1>22, <2>1, <2>7 DEF WriteMappings
  <2>9. Gone' = Gone /\ AskedPairs' = AskedPairs
    BY <2>2 DEF Gone, AskedPairs
  <2>10. Fits(next)
    BY <2>2, <2>7 DEF Fits
  <2>11. Fits(next)'
    BY <2>2, <2>9, <2>10 DEF Fits
  <2>12. RequestsFit'
    BY <1>0, <2>2, <2>8, <2>9, <2>11, HoldingsFit
  <2>13. mapped' \in Mappings /\ OwnersAsked' /\ open' \subseteq Workers \X Accounts
    BY <1>0, <2>2, <2>3, <2>4, <2>6 DEF DataFits, Mappings, OwnersAsked
  <2>14. DataFits'
    BY <1>0, <2>2, <2>9, <2>13 DEF DataFits
  <2> QED
    BY <2>12, <2>14 DEF AccountInv
<1>23. CASE RestartUsers
  <2>1. request' = [w \in Workers |-> Idle] /\ open' = {}
        /\ cached' = [i \in Instances |-> IF i = "channels" THEN profiles ELSE {Admin}]
        /\ UNCHANGED <<names, profiles, folders, mapped, tokens, asked, deleted, surviving>>
    BY <1>23 DEF RestartUsers, historyVars
  <2>2. Fits(Idle)'
    BY DEF Fits, Idle
  <2>3. RequestsFit'
    BY <2>1, <2>2 DEF RequestsFit
  <2>4. Gone' = Gone
    BY <2>1 DEF Gone
  <2>5. Admin \in DOMAIN names \ Gone /\ profiles \subseteq DOMAIN names \ Gone /\ DOMAIN names \subseteq Accounts
    BY <1>0 DEF DataFits, Gone
  <2>6. /\ cached' \in [Instances -> SUBSET Accounts]
        /\ \A i \in Instances : cached'[i] \subseteq DOMAIN names \ Gone
    BY <2>1, <2>5
  <2>7. DataFits'
    BY <1>0, <2>1, <2>4, <2>6 DEF DataFits, OwnersAsked
  <2> QED
    BY <2>3, <2>7 DEF AccountInv
<1>24. CASE UNCHANGED usersVars
  BY <1>0, <1>24 DEF usersVars, AccountInv, DataFits, RequestsFit, Fits, Gone, AskedPairs, OwnersAsked
<1>25. ASSUME NEW t \in Threads, NEW u \in Accounts, AskMe(t, u) PROVE AccountInv'
  <2>1. PICK job : job = [do |-> "me", user |-> u]
    OBVIOUS
  <2>2. GetUser(t, job, "dashboard") /\ job.do = "me" /\ job.user = u /\ t \in Workers
    BY <1>25, <2>1 DEF AskMe, Workers
  <2> QED
    BY <1>1, <2>2, InstanceFacts
<1>26. ASSUME NEW t \in Threads, NEW u \in Accounts, DeleteStart(t, u) PROVE AccountInv'
  <2>1. PICK job : job = [do |-> "delete", user |-> u]
    OBVIOUS
  <2>2. GetUser(t, job, "dashboard") /\ job.do = "delete" /\ job.user = u /\ u # Admin /\ t \in Workers
    BY <1>26, <2>1 DEF DeleteStart, Workers
  <2> QED
    BY <1>1, <2>2, InstanceFacts
<1>27. ASSUME NEW i \in Instances, NEW u \in Accounts, ListStart(i, u) PROVE AccountInv'
  <2>1. PICK job : job = [do |-> "list", user |-> u]
    OBVIOUS
  <2>2. GetUser(Loop, job, i) /\ job.do = "list" /\ job.user = u /\ Loop \in Workers
    BY <1>27, <2>1 DEF ListStart, Workers
  <2> QED
    BY <1>1, <2>2
<1>28. ASSUME NEW u \in Accounts, NEW e \in Endpoints, MapStart(u, e) PROVE AccountInv'
  <2>1. PICK job : job = [do |-> "map", user |-> u, endpoint |-> e]
    OBVIOUS
  <2>2. GetUser(Loop, job, "dashboard") /\ job.do = "map" /\ job.user = u /\ job.endpoint = e /\ Loop \in Workers
    BY <1>28, <2>1 DEF MapStart, Workers
  <2> QED
    BY <1>1, <2>2, InstanceFacts
<1> QED
  BY <1>2, <1>3, <1>4, <1>5, <1>6, <1>7, <1>8, <1>10, <1>11, <1>12, <1>13, <1>14, <1>15, <1>16, <1>17,
     <1>18, <1>19, <1>20, <1>21, <1>22, <1>23, <1>24, <1>25, <1>26, <1>27, <1>28 DEF UsersNext

\* However the dashboard's requests, the websockets and the file operations of both
\* overlap, and wherever the process dies (crabclaw/user/manager.py), an endpoint leads
\* only to accounts that asked for it, and a deleted account comes back only when
\* somebody held its profile as its folder was removed.
THEOREM AccountsStay == UsersSpec => []AccountsKept
<1>1. AccountInv => AccountsKept
  BY DEF AccountInv, DataFits, AccountsKept, DeletedStayDeleted, Gone
<1> QED
  BY AccountsInit, AccountsNext, <1>1, PTL DEF UsersSpec

\* The accounts, their mappings, caches and requests keep their types.
THEOREM UsersStayTyped == UsersSpec => []UsersTypeOK
<1>1. AccountInv => UsersTypeOK
  <2>1. AccountInv => \A w \in Workers : Fits(request[w])
    BY DEF AccountInv, RequestsFit
  <2>2. AccountInv => \A w \in Workers : request[w].kind \in
          {"idle", "register", "found", "verify", "delete", "forget", "remove", "start", "load",
           "save", "write"}
    BY <2>1 DEF Fits
  <2> QED
    BY <2>2 DEF AccountInv, DataFits, UsersTypeOK, Mappings
<1> QED
  BY <1>1, AccountsInit, AccountsNext, PTL DEF UsersSpec

-----------------------------------------------------------------------------
(* Memory consolidation *)

\* A list of messages, by the numbers it spans.
List == {l \in [from : 0..MaxMessages, to : 0..MaxMessages] : l.from <= l.to}

Lists(q) == q \in Seq(List) /\ Len(q) \in 1..(MaxClears + 1)

\* What a call holds while it awaits the provider: a session, a list that the session has
\* had, and messages and facts that there are.
Holding(c) ==
  /\ calls[c].session \in Conversations /\ calls[c].all \in BOOLEAN
  /\ calls[c].list \in DOMAIN lists[calls[c].session]
  /\ calls[c].slice \subseteq 1..MaxMessages
  /\ calls[c].global \subseteq Calls /\ calls[c].user \subseteq Calls

OffsetInside(s) == (-Keep) <= consolidated[s] /\ consolidated[s] <= Length(s)

MemoryInv ==
  /\ DOMAIN lists = Conversations /\ \A s \in Conversations : Lists(lists[s])
  /\ consolidated \in [Conversations -> Int] /\ \A s \in Conversations : OffsetInside(s)
  /\ episodic \in [Conversations -> SUBSET (1..MaxMessages)]
  /\ userFacts \in [Conversations -> SUBSET Calls] /\ globalFacts \subseteq Calls
  /\ failures \in 0..(MaxFailures - 1)
  /\ Cardinality(DOMAIN calls) \in Nat /\ DOMAIN calls = 1..Cardinality(DOMAIN calls)
  /\ DOMAIN calls \subseteq Calls /\ pending \subseteq DOMAIN calls
  /\ \A c \in pending : Holding(c)

\* What the provers know of the lists of a session.
LEMMA ListFacts ==
  ASSUME NEW q, Lists(q)
  PROVE  /\ Len(q) \in Nat /\ DOMAIN q = 1..Len(q) /\ Len(q) \in DOMAIN q
         /\ \A i \in DOMAIN q : /\ q[i] \in List /\ q[i].from \in Nat /\ q[i].to \in Nat
                                /\ q[i].from <= q[i].to /\ q[i].to <= MaxMessages
         /\ Last(q) = q[Len(q)]
<1>1. q \in Seq(List) /\ Len(q) \in 1..(MaxClears + 1) /\ MaxClears \in Nat /\ MaxMessages \in Nat
  BY ConsolidationAssumption DEF Lists
<1>2. \A l \in List : l.from \in Nat /\ l.to \in Nat /\ l.from <= l.to /\ l.to <= MaxMessages
  BY <1>1 DEF List
<1>3. Len(q) \in Nat /\ DOMAIN q = 1..Len(q) /\ Len(q) \in DOMAIN q
  BY <1>1, QueueShape
<1>4. \A i \in DOMAIN q : q[i] \in List
  BY <1>1, QueueShape
<1> QED
  BY <1>2, <1>3, <1>4 DEF Last

\* A session is within its bound, and its length is a natural number.
LEMMA SessionFacts ==
  ASSUME MemoryInv, NEW s \in Conversations
  PROVE  /\ Lists(lists[s]) /\ Present(s) \in List
         /\ Present(s).from \in Nat /\ Present(s).to \in Nat /\ Length(s) \in Nat
         /\ Length(s) = Present(s).to - Present(s).from /\ Present(s).to <= MaxMessages
         /\ Keep \in Nat /\ consolidated[s] \in Int /\ OffsetInside(s)
<1>1. Lists(lists[s]) /\ OffsetInside(s) /\ consolidated[s] \in Int /\ Keep \in Nat
  BY ConsolidationAssumption DEF MemoryInv
<1>2. Present(s) \in List /\ Present(s).from \in Nat /\ Present(s).to \in Nat
      /\ Present(s).from <= Present(s).to /\ Present(s).to <= MaxMessages
  BY <1>1, ListFacts DEF Present
<1> QED
  BY <1>1, <1>2 DEF Length

\* The session's list grows at its end, or a new one follows it.
LEMMA NewList ==
  ASSUME NEW q, Lists(q), NEW l \in List
  PROVE  /\ Lists([q EXCEPT ![Len(q)] = l]) /\ Last([q EXCEPT ![Len(q)] = l]) = l
         /\ DOMAIN [q EXCEPT ![Len(q)] = l] = DOMAIN q
         /\ Len(q) <= MaxClears => /\ Lists(Append(q, l)) /\ Last(Append(q, l)) = l
                                   /\ DOMAIN q \subseteq DOMAIN Append(q, l)
<1>1. q \in Seq(List) /\ Len(q) \in 1..(MaxClears + 1) /\ MaxClears \in Nat
  BY ConsolidationAssumption DEF Lists
<1>2. Len(q) \in Nat /\ DOMAIN q = 1..Len(q) /\ Len(q) \in DOMAIN q
  BY <1>1, QueueShape
<1>3. /\ [q EXCEPT ![Len(q)] = l] \in Seq(List) /\ Len([q EXCEPT ![Len(q)] = l]) = Len(q)
      /\ [q EXCEPT ![Len(q)] = l][Len(q)] = l
  BY <1>1, <1>2, ExceptSeq
<1>4. /\ Append(q, l) \in Seq(List) /\ Len(Append(q, l)) = Len(q) + 1
      /\ Append(q, l)[Len(q) + 1] = l /\ DOMAIN q \subseteq DOMAIN Append(q, l)
  BY <1>1, <1>2, AppendProperties
<1> QED
  BY <1>1, <1>2, <1>3, <1>4 DEF Lists, Last

\* A session whose lists change keeps the rest in place while its offset stays inside.
LEMMA SessionChanges ==
  ASSUME MemoryInv, NEW s \in Conversations, NEW q, Lists(q), DOMAIN lists[s] \subseteq DOMAIN q,
         lists' = [lists EXCEPT ![s] = q],
         NEW offset \in Int, consolidated' = [consolidated EXCEPT ![s] = offset],
         (-Keep) <= offset, offset <= Last(q).to - Last(q).from,
         UNCHANGED <<episodic, globalFacts, userFacts, failures, calls, pending>>
  PROVE  MemoryInv'
<1>1. DOMAIN lists' = Conversations /\ \A r \in Conversations : lists'[r] = IF r = s THEN q ELSE lists[r]
  BY DEF MemoryInv
<1>2. \A r \in Conversations : Lists(lists[r])
  BY DEF MemoryInv
<1>3. \A r \in Conversations : Lists(lists'[r])
  BY <1>1, <1>2
<1>4. consolidated' \in [Conversations -> Int]
      /\ \A r \in Conversations : consolidated'[r] = IF r = s THEN offset ELSE consolidated[r]
  BY DEF MemoryInv
<1>5. ASSUME NEW r \in Conversations PROVE OffsetInside(r)'
  <2>1. CASE r = s
    BY <1>1, <1>4, <2>1 DEF OffsetInside, Length, Present
  <2>2. CASE r # s
    BY <1>1, <1>4, <2>2 DEF MemoryInv, OffsetInside, Length, Present
  <2> QED
    BY <2>1, <2>2
<1>6. ASSUME NEW c \in pending PROVE Holding(c)'
  <2>1. Holding(c)
    BY DEF MemoryInv
  <2>2. DOMAIN lists[calls[c].session] \subseteq DOMAIN lists'[calls[c].session]
    BY <1>1, <2>1 DEF Holding
  <2> QED
    BY <2>1, <2>2 DEF Holding
<1>7. (\A r \in Conversations : Lists(lists[r]))' /\ (\A r \in Conversations : OffsetInside(r))'
  BY <1>3, <1>5 DEF Lists
<1>8. (\A c \in pending : Holding(c))'
  BY <1>6
<1> QED
  BY <1>1, <1>4, <1>7, <1>8 DEF MemoryInv

LEMMA MemoryStart == MemoryInit => MemoryInv
<1> SUFFICES ASSUME MemoryInit PROVE MemoryInv
  OBVIOUS
<1>1. {MaxMessages, MaxClears, MaxCalls} \subseteq Nat /\ Keep \in Nat \ {0} /\ MaxFailures \in Nat \ {0}
  BY ConsolidationAssumption
<1>2. calls = <<>> /\ DOMAIN calls = {} /\ pending = {} /\ Cardinality({}) = 0
  BY FS_EmptySet DEF MemoryInit
<1>3. PICK l : l = [from |-> 0, to |-> 0]
  OBVIOUS
<1>4. l \in List /\ l.from = 0 /\ l.to = 0
  BY <1>1, <1>3 DEF List
<1>5. Lists(<<l>>) /\ Last(<<l>>) = l
  BY <1>1, <1>4 DEF Lists, Last
<1>6. lists = [s \in Conversations |-> <<l>>] /\ consolidated = [s \in Conversations |-> 0]
  BY <1>3 DEF MemoryInit
<1>7. \A s \in Conversations : Lists(lists[s]) /\ OffsetInside(s)
  BY <1>1, <1>4, <1>5, <1>6 DEF OffsetInside, Length, Present
<1>8. episodic \in [Conversations -> SUBSET (1..MaxMessages)]
  BY DEF MemoryInit
<1>9. userFacts \in [Conversations -> SUBSET Calls] /\ globalFacts \subseteq Calls /\ failures = 0
  BY DEF MemoryInit
<1> QED
  BY <1>1, <1>2, <1>6, <1>7, <1>8, <1>9 DEF MemoryInv

LEMMA AddKeeps ==
  ASSUME MemoryInv, NEW s \in Conversations, AddMessage(s)
  PROVE  MemoryInv'
<1>1. PICK q : q = lists[s]
  OBVIOUS
<1>2. Lists(q) /\ DOMAIN lists = Conversations /\ Last(q) = q[Len(q)] /\ Len(q) \in DOMAIN q
  BY <1>1, ListFacts DEF MemoryInv
<1>3. PICK l : l = [q[Len(q)] EXCEPT !.to = @ + 1]
  OBVIOUS
<1>4. Present(s) = q[Len(q)] /\ Present(s).to < MaxMessages
  BY <1>1, <1>2 DEF Present, AddMessage
<1>5. l \in List /\ l.from = Present(s).from /\ l.to = Present(s).to + 1
  <2>1. Present(s) \in List /\ MaxMessages \in Nat
    BY SessionFacts, ConsolidationAssumption
  <2> QED
    BY <1>3, <1>4, <2>1 DEF List
<1>6. lists' = [lists EXCEPT ![s] = [q EXCEPT ![Len(q)] = l]]
  BY <1>1, <1>2, <1>3 DEF AddMessage
<1>7. consolidated' = [consolidated EXCEPT ![s] = consolidated[s]] /\ consolidated[s] \in Int
  BY DEF AddMessage, MemoryInv
<1>8. (-Keep) <= consolidated[s] /\ consolidated[s] <= l.to - l.from
  BY <1>5, SessionFacts DEF OffsetInside
<1>9. /\ Lists([q EXCEPT ![Len(q)] = l]) /\ Last([q EXCEPT ![Len(q)] = l]) = l
      /\ DOMAIN [q EXCEPT ![Len(q)] = l] = DOMAIN q
  BY <1>2, <1>5, NewList
<1>10. UNCHANGED <<episodic, globalFacts, userFacts, failures, calls, pending>>
  BY DEF AddMessage
<1> QED
  BY <1>1, <1>6, <1>7, <1>8, <1>9, <1>10, SessionChanges

LEMMA ClearKeeps ==
  ASSUME MemoryInv, NEW s \in Conversations, Clear(s)
  PROVE  MemoryInv'
<1>1. PICK q : q = lists[s]
  OBVIOUS
<1>2. PICK l : l = [from |-> Present(s).to, to |-> Present(s).to]
  OBVIOUS
<1>3. Lists(q) /\ Present(s) \in List /\ Present(s).to \in Nat /\ Present(s).to <= MaxMessages /\ MaxMessages \in Nat
      /\ Keep \in Nat
  BY <1>1, SessionFacts, ConsolidationAssumption
<1>4. l \in List /\ l.to - l.from = 0
  BY <1>2, <1>3 DEF List
<1>5. lists' = [lists EXCEPT ![s] = Append(q, l)] /\ Len(q) <= MaxClears
  BY <1>1, <1>2 DEF Clear, MemoryInv
<1>6. Lists(Append(q, l)) /\ Last(Append(q, l)) = l /\ DOMAIN q \subseteq DOMAIN Append(q, l)
  BY <1>3, <1>4, <1>5, NewList
<1>7. consolidated' = [consolidated EXCEPT ![s] = 0] /\ 0 \in Int /\ (-Keep) <= 0 /\ 0 <= l.to - l.from
  BY <1>3, <1>4 DEF Clear
<1>8. UNCHANGED <<episodic, globalFacts, userFacts, failures, calls, pending>>
  BY DEF Clear
<1> QED
  BY <1>1, <1>5, <1>6, <1>7, <1>8, SessionChanges

\* A slice of a session is of messages that were added.
LEMMA AddedMessages ==
  ASSUME MemoryInv, NEW s \in Conversations, NEW a \in Nat, NEW b \in Int, b <= Length(s)
  PROVE  At(s, a, b) \subseteq 1..MaxMessages
BY SessionFacts, ConsolidationAssumption DEF At

LEMMA BeginKeeps ==
  ASSUME MemoryInv, NEW s \in Conversations, NEW all \in BOOLEAN, Begin(s, all)
  PROVE  MemoryInv'
<1>1. PICK n \in Nat : n = Cardinality(DOMAIN calls) /\ DOMAIN calls = 1..n
  BY DEF MemoryInv
<1>2. PICK from : from = IF all THEN 0 ELSE Hidden(s)
  OBVIOUS
<1>3. PICK to : to = IF all THEN Length(s) ELSE Length(s) - Keep
  OBVIOUS
<1>4. PICK call : call = [session |-> s, all |-> all, slice |-> At(s, from, to), list |-> Len(lists[s]),
                          global |-> globalFacts, user |-> userFacts[s]]
  OBVIOUS
<1>5. /\ n + 1 \in Calls /\ pending' = pending \cup {n + 1}
      /\ calls' = [i \in 1..(n + 1) |-> IF i < n + 1 THEN calls[i] ELSE call]
  BY <1>1, <1>2, <1>3, <1>4 DEF Begin
<1>6. from \in Nat /\ to \in Int /\ to <= Length(s)
  BY <1>2, <1>3, SessionFacts DEF Hidden
<1>7. /\ call.session = s /\ call.all = all /\ call.slice \subseteq 1..MaxMessages
      /\ call.list \in DOMAIN lists[s] /\ call.global \subseteq Calls /\ call.user \subseteq Calls
  <2>1. At(s, from, to) \subseteq 1..MaxMessages
    BY <1>6, AddedMessages
  <2>2. Len(lists[s]) \in DOMAIN lists[s]
    BY ListFacts DEF MemoryInv
  <2> QED
    BY <1>4, <2>1, <2>2 DEF MemoryInv
<1>8. DOMAIN calls' = 1..(n + 1) /\ calls'[n + 1] = call /\ \A c \in pending : calls'[c] = calls[c]
  <2>1. \A c \in pending : c \in 1..n
    BY <1>1 DEF MemoryInv
  <2> QED
    BY <1>5, <2>1
<1>9. UNCHANGED <<lists, consolidated, episodic, globalFacts, userFacts, failures>>
  BY DEF Begin
<1>10. (\A c \in pending : Holding(c))'
  <2>1. ASSUME NEW c \in pending PROVE Holding(c)'
    BY <1>8, <1>9 DEF MemoryInv, Holding
  <2>2. Holding(n + 1)'
    BY <1>7, <1>8, <1>9 DEF Holding
  <2> QED
    BY <1>5, <2>1, <2>2
<1>11. Cardinality(1..(n + 1)) = n + 1
  BY FS_Interval
<1>12. Cardinality(DOMAIN calls') = n + 1 /\ DOMAIN calls' \subseteq Calls /\ pending' \subseteq DOMAIN calls'
  <2>1. n + 1 \in 1..MaxCalls /\ MaxCalls \in Nat
    BY <1>5, ConsolidationAssumption DEF Calls
  <2>2. 1..(n + 1) \subseteq Calls
    BY <2>1 DEF Calls
  <2>3. pending \subseteq 1..(n + 1)
    <3>1. pending \subseteq 1..n
      BY <1>1 DEF MemoryInv
    <3>2. 1..n \subseteq 1..(n + 1)
      OBVIOUS
    <3> QED
      BY <3>1, <3>2
  <2> QED
    BY <1>5, <1>8, <1>11, <2>2, <2>3
<1>13. (\A r \in Conversations : Lists(lists[r]) /\ OffsetInside(r))'
  BY <1>9 DEF MemoryInv, Lists, OffsetInside, Length, Present
<1> QED
  BY <1>8, <1>9, <1>10, <1>12, <1>13 DEF MemoryInv

\* Telling more of a session keeps what is told within the bound.
LEMMA MoreTold ==
  ASSUME NEW S, NEW f \in [Conversations -> SUBSET S], NEW s \in Conversations, NEW more \in SUBSET S
  PROVE  [f EXCEPT ![s] = @ \cup more] \in [Conversations -> SUBSET S]
OBVIOUS

\* A call that ends leaves the lists, and what the others hold.
LEMMA CallEnds ==
  ASSUME MemoryInv, pending' \subseteq pending, UNCHANGED <<lists, calls>>,
         consolidated' \in [Conversations -> Int], \A s \in Conversations : OffsetInside(s)',
         episodic' \in [Conversations -> SUBSET (1..MaxMessages)],
         userFacts' \in [Conversations -> SUBSET Calls], globalFacts' \subseteq Calls,
         failures' \in 0..(MaxFailures - 1)
  PROVE  MemoryInv'
<1>1. (\A s \in Conversations : Lists(lists[s]))'
  BY DEF MemoryInv, Lists
<1>2. (\A c \in pending : Holding(c))'
  BY DEF MemoryInv, Holding
<1> QED
  BY <1>1, <1>2 DEF MemoryInv

LEMMA SucceedKeeps ==
  ASSUME MemoryInv, NEW c \in pending, Succeed(c)
  PROVE  MemoryInv'
<1>1. Holding(c) /\ c \in Calls
  BY DEF MemoryInv
<1>2. PICK s \in Conversations : s = calls[c].session
  BY <1>1 DEF Holding
<1>3. PICK slice \in SUBSET (1..MaxMessages) : slice = calls[c].slice
  BY <1>1 DEF Holding
<1>4. PICK forAll \in BOOLEAN, forUser \in BOOLEAN :
        /\ globalFacts' = IF forAll THEN Merged(c) ELSE globalFacts
        /\ userFacts' = IF forUser THEN [userFacts EXCEPT ![s] = calls[c].user \cup {c}] ELSE userFacts
  BY <1>2 DEF Succeed
<1>5. userFacts' \in [Conversations -> SUBSET Calls] /\ globalFacts' \subseteq Calls
  BY <1>1, <1>4 DEF MemoryInv, Merged, Holding
<1>6. episodic' \in [Conversations -> SUBSET (1..MaxMessages)]
  <2>1. episodic' = [episodic EXCEPT ![s] = @ \cup slice]
    BY <1>2, <1>3 DEF Succeed
  <2> QED
    BY <2>1, MoreTold DEF MemoryInv
<1>7. PICK offset : offset = OffsetAfter(c)
  OBVIOUS
<1>8. offset \in Int /\ (-Keep) <= offset /\ offset <= Length(s) /\ consolidated' = [consolidated EXCEPT ![s] = offset]
  BY <1>2, <1>7, SessionFacts DEF OffsetAfter, Succeed
<1>9. lists' = lists /\ calls' = calls /\ pending' \subseteq pending /\ failures' = 0
  BY DEF Succeed
<1>10. consolidated' \in [Conversations -> Int]
       /\ \A r \in Conversations : consolidated'[r] = IF r = s THEN offset ELSE consolidated[r]
  BY <1>8 DEF MemoryInv
<1>11. \A r \in Conversations : OffsetInside(r)'
  BY <1>8, <1>9, <1>10 DEF MemoryInv, OffsetInside, Length, Present
<1>12. failures' \in 0..(MaxFailures - 1)
  BY <1>9, ConsolidationAssumption
<1> QED
  BY <1>5, <1>6, <1>9, <1>10, <1>11, <1>12, CallEnds

LEMMA FailKeeps ==
  ASSUME MemoryInv, NEW c \in pending, Fail(c)
  PROVE  MemoryInv'
<1>1. Holding(c)
  BY DEF MemoryInv
<1>2. PICK s \in Conversations : s = calls[c].session
  BY <1>1 DEF Holding
<1>3. PICK raw : raw = IF calls[c].all THEN Spanned(lists[s][calls[c].list]) ELSE calls[c].slice
  OBVIOUS
<1>4. raw \in SUBSET (1..MaxMessages)
  <2>1. calls[c].list \in DOMAIN lists[s] /\ Lists(lists[s]) /\ MaxMessages \in Nat
    BY <1>1, <1>2, ConsolidationAssumption DEF Holding, MemoryInv
  <2>2. PICK l : l = lists[s][calls[c].list]
    OBVIOUS
  <2>3. l.from \in Nat /\ l.to \in Nat /\ l.to <= MaxMessages
    BY <2>1, <2>2, ListFacts
  <2>4. Spanned(l) \subseteq 1..MaxMessages
    BY <2>1, <2>3 DEF Spanned
  <2> QED
    BY <1>1, <1>3, <2>2, <2>4 DEF Holding
<1>5. episodic' = episodic \/ episodic' = [episodic EXCEPT ![s] = @ \cup raw]
  BY <1>2, <1>3 DEF Fail
<1>6. episodic' \in [Conversations -> SUBSET (1..MaxMessages)]
  <2>1. PICK old \in [Conversations -> SUBSET (1..MaxMessages)] : old = episodic
    BY DEF MemoryInv
  <2>2. [old EXCEPT ![s] = @ \cup raw] \in [Conversations -> SUBSET (1..MaxMessages)]
    BY <1>4, <2>1, MoreTold
  <2> QED
    BY <1>5, <2>1, <2>2
<1>7. failures' \in 0..(MaxFailures - 1)
  BY ConsolidationAssumption DEF Fail, MemoryInv
<1>8. pending' \subseteq pending /\ UNCHANGED <<lists, consolidated, globalFacts, userFacts, calls>>
  BY DEF Fail
<1>9. consolidated' \in [Conversations -> Int] /\ \A r \in Conversations : OffsetInside(r)'
  BY <1>8 DEF MemoryInv, OffsetInside, Length, Present
<1>10. userFacts' \in [Conversations -> SUBSET Calls] /\ globalFacts' \subseteq Calls
  BY <1>8 DEF MemoryInv
<1> QED
  BY <1>6, <1>7, <1>8, <1>9, <1>10, CallEnds

LEMMA MemoryStep == MemoryInv /\ [MemoryNext]_memoryVars => MemoryInv'
<1> SUFFICES ASSUME MemoryInv, [MemoryNext]_memoryVars PROVE MemoryInv'
  OBVIOUS
<1>1. CASE UNCHANGED memoryVars
  BY <1>1 DEF memoryVars, MemoryInv, Lists, OffsetInside, Length, Present, Holding
<1> QED
  BY <1>1, AddKeeps, ClearKeeps, BeginKeeps, SucceedKeeps, FailKeeps DEF MemoryNext

\* However the calls of a session overlap with one another, with its growth and with its
\* being cleared (crabclaw/agent/memory.py, session/manager.py), its offset never passes
\* its end, and what is told and found is of messages and calls that were.
THEOREM MemoryStaysTyped == MemorySpec => []MemoryTypeOK
<1>1. MemoryInv => MemoryTypeOK
  <2> SUFFICES ASSUME MemoryInv PROVE MemoryTypeOK
    OBVIOUS
  <2>1. ASSUME NEW s \in Conversations
        PROVE  /\ Len(lists[s]) \in 1..(MaxClears + 1)
               /\ \A i \in DOMAIN lists[s] : 0 <= lists[s][i].from /\ lists[s][i].from <= lists[s][i].to
               /\ Present(s).to <= MaxMessages
               /\ consolidated[s] \in (-Keep)..Length(s)
               /\ episodic[s] \subseteq 1..MaxMessages /\ userFacts[s] \subseteq Calls
    <3>1. Lists(lists[s]) /\ episodic[s] \subseteq 1..MaxMessages /\ userFacts[s] \subseteq Calls
      BY DEF MemoryInv
    <3>2. \A i \in DOMAIN lists[s] : 0 <= lists[s][i].from /\ lists[s][i].from <= lists[s][i].to
      BY <3>1, ListFacts
    <3>3. Present(s).to <= MaxMessages /\ consolidated[s] \in (-Keep)..Length(s)
      BY SessionFacts DEF OffsetInside
    <3> QED
      BY <3>1, <3>2, <3>3 DEF Lists
  <2> QED
    BY <2>1 DEF MemoryInv, MemoryTypeOK
<1> QED
  BY <1>1, MemoryStart, MemoryStep, PTL DEF MemorySpec

-----------------------------------------------------------------------------
(* config.json *)

Values == [Setting -> [change : Nat, key : Nat]]
Files == [status : {"missing", "broken", "invalid", "whole"}, values : Values]
Saver == Wizard \cup Requests \cup {"mode"}
Loading == [at : {"loaded"}, kind : Saver, sets : SUBSET Setting, seen : [Setting -> Nat],
            valid : BOOLEAN, values : Values]
Writing == [at : {"writing", "written"}, kind : Saver, sets : SUBSET Setting, seen : [Setting -> Nat],
            valid : BOOLEAN, values : Values, file : {"temp", "config", "gone"}, dump : Files]
Saving == [at : {"saved"}, values : Values, seen : [Setting -> Nat]]

WriterState == {Resting} \cup Loading \cup Writing \cup Saving

SettingsTypes ==
  /\ configFile \in Files /\ tempFile \in Files
  /\ keyFile \in Nat /\ keysMade \in Nat /\ changes \in 0..MaxChanges
  /\ writer \in [Writers -> WriterState]
  /\ lastSet \in [Setting -> 0..MaxChanges] /\ overtaken \subseteq Setting

\* No value is sealed with a key that was not made, or written by a change to come.
Dated(values) == \A s \in Setting : values[s].key <= keysMade /\ values[s].change <= MaxChanges

KeysFollow == keyFile <= keysMade /\ (keyFile = 0 => keysMade = 0) /\ Dated(configFile.values)

\* Of what it does not set itself a writer has the values it saw, but for what was
\* saved over before; who goes on after a save has those of all settings.
FaithfulTo(values, seen, but) ==
  \A s \in Setting \ but : values[s].change = seen[s] \/ seen[s] = Outdated

Faithful(w) ==
  /\ ~Stage(w, "rest") => Dated(writer[w].values)
  /\ Stage(w, "saved") => FaithfulTo(writer[w].values, writer[w].seen, {})
  /\ Stage(w, "loaded") \/ HasOpen(w) =>
       writer[w].kind \in Wizard \/ FaithfulTo(writer[w].values, writer[w].seen, writer[w].sets)

\* Who has config.tmp open leaves there what it wants to save.
WritesAlone(w) ==
  HasOpen(w) =>
    /\ writer[w].file = "temp" /\ Dated(writer[w].dump.values)
    /\ Stage(w, "written") => tempFile = writer[w].dump
    /\ IF writer[w].valid
       THEN /\ writer[w].dump.status = "whole"
            /\ \A s \in Setting : writer[w].dump.values[s].change = writer[w].values[s].change
       ELSE writer[w].dump = Invalid

OneWrites == \A v, w \in Writers : HasOpen(v) /\ HasOpen(w) => v = w

FileHoldsLast ==
  /\ configFile = NoFile \/ configFile.status = "whole"
  /\ \A s \in Setting \ overtaken : configFile.values[s].change = lastSet[s]

Unspoiled ==
  /\ SettingsTypes /\ KeysFollow /\ FileHoldsLast /\ OneWrites
  /\ \A w \in Writers : Faithful(w) /\ WritesAlone(w)

SettingsInv == ~spoiled => Unspoiled

\* The files that no writer made.
LEMMA FileFacts ==
  /\ Defaults \in Values /\ NoFile \in Files /\ Broken \in Files /\ Invalid \in Files
  /\ \A s \in Setting : Defaults[s].change = 0 /\ Defaults[s].key = 0
  /\ NoFile.values = Defaults /\ Broken.values = Defaults /\ Invalid.values = Defaults
  /\ NoFile.status = "missing" /\ Invalid.status = "invalid" /\ Broken.status = "broken"
<1>1. Defaults \in Values /\ \A s \in Setting : Defaults[s].change = 0 /\ Defaults[s].key = 0
  BY DEF Defaults, Unset, Values
<1> QED
  BY <1>1 DEF NoFile, Broken, Invalid, File, Files

\* What a writer holds at each of its stages.
LEMMA WriterFacts ==
  ASSUME SettingsTypes, NEW w \in Writers
  PROVE  /\ Stage(w, "loaded") => writer[w] \in Loading
         /\ HasOpen(w) => writer[w] \in Writing
         /\ Stage(w, "saved") => writer[w] \in Saving
         /\ Stage(w, "rest") => writer[w] = Resting
BY DEF SettingsTypes, WriterState, Stage, HasOpen, Resting, Loading, Writing, Saving

\* What sealing, opening and setting do to values.
LEMMA ValueFacts ==
  ASSUME keysMade \in Nat, NEW values \in Values, NEW key \in Nat,
         NEW sets, NEW change \in Nat
  PROVE  /\ SealedWith(key, values) \in Values /\ Opened(key, values) \in Values
         /\ WithChange(values, sets, change) \in Values
         /\ \A s \in Setting : /\ SealedWith(key, values)[s].change = values[s].change
                               /\ SealedWith(key, values)[s].key \in {values[s].key, key}
                               /\ Opened(key, values)[s].change = values[s].change
                               /\ Opened(key, values)[s].key \in {values[s].key, 0}
         /\ \A s \in Setting \ sets : WithChange(values, sets, change)[s] = values[s]
         /\ \A s \in sets \cap Setting : WithChange(values, sets, change)[s] = [change |-> change, key |-> 0]
<1>1. \A s \in Setting : values[s] \in [change : Nat, key : Nat]
  BY DEF Values
<1>2. \A s \in Setting : SealedWith(key, values)[s] \in {values[s], [values[s] EXCEPT !.key = key]}
  BY DEF SealedWith
<1>3. \A s \in Setting : Opened(key, values)[s] \in {values[s], [values[s] EXCEPT !.key = 0]}
  BY DEF Opened
<1>4. \A s \in Setting : WithChange(values, sets, change)[s] =
        IF s \in sets THEN [change |-> change, key |-> 0] ELSE values[s]
  BY DEF WithChange
<1>5. SealedWith(key, values) \in Values
  BY <1>1 DEF SealedWith, Values
<1>6. Opened(key, values) \in Values
  BY <1>1 DEF Opened, Values
<1>7. WithChange(values, sets, change) \in Values
  BY <1>1 DEF WithChange, Values
<1> QED
  BY <1>1, <1>2, <1>3, <1>4, <1>5, <1>6, <1>7

\* Keys only grow in number.
LEMMA KeyFacts ==
  ASSUME SettingsTypes, KeysFollow, NEW key \in Nat, TakeKey(key)
  PROVE  /\ keyFile' = key /\ keyFile' \in Nat /\ keysMade' \in Nat
         /\ keysMade <= keysMade' /\ keyFile' <= keysMade' /\ (keyFile' = 0 => keysMade' = 0)
BY DEF SettingsTypes, KeysFollow, TakeKey, KeyOptions

LEMMA DatedGrows ==
  ASSUME keysMade \in Nat, keysMade' \in Nat, keysMade <= keysMade'
  PROVE  \A values \in Values : Dated(values) => Dated(values)'
BY DEF Dated, Values

\* The writers that a step leaves alone.
LEMMA OthersKeep ==
  ASSUME Unspoiled, NEW w \in Writers, \A v \in Writers \ {w} : writer'[v] = writer[v],
         keysMade' \in Nat, keysMade <= keysMade', tempFile' = tempFile \/ Others(w) = {}
  PROVE  \A v \in Writers \ {w} : Faithful(v)' /\ WritesAlone(v)'
<1> SUFFICES ASSUME NEW v \in Writers \ {w} PROVE Faithful(v)' /\ WritesAlone(v)'
  OBVIOUS
<1>1. keysMade \in Nat /\ writer'[v] = writer[v] /\ Faithful(v) /\ WritesAlone(v)
  BY DEF Unspoiled, SettingsTypes
<1>2. ~Stage(v, "rest") => writer[v].values \in Values
  BY DEF Unspoiled, SettingsTypes, WriterState, Stage, Resting, Loading, Writing, Saving
<1>3. HasOpen(v) => writer[v].dump.values \in Values
  BY WriterFacts DEF Unspoiled, Writing, Files
<1>4. HasOpen(v) => tempFile' = tempFile
  BY DEF Others
<1>5. (Stage(v, "rest")' <=> Stage(v, "rest")) /\ (Stage(v, "saved")' <=> Stage(v, "saved"))
      /\ (Stage(v, "loaded")' <=> Stage(v, "loaded")) /\ (Stage(v, "written")' <=> Stage(v, "written"))
      /\ (HasOpen(v)' <=> HasOpen(v))
  BY <1>1 DEF Stage, HasOpen
<1>6. Faithful(v)'
  BY <1>1, <1>2, <1>5, DatedGrows DEF Faithful, FaithfulTo, Outdated
<1>7. WritesAlone(v)'
  BY <1>1, <1>3, <1>4, <1>5, DatedGrows DEF WritesAlone, Invalid, File, Defaults, Unset
<1> QED
  BY <1>6, <1>7

LEMMA SettingsStart == SettingsInit => SettingsInv
<1> SUFFICES ASSUME SettingsInit PROVE Unspoiled
  BY DEF SettingsInv
<1>1. configFile = NoFile /\ tempFile = NoFile /\ keyFile = 0 /\ keysMade = 0
      /\ writer = [w \in Writers |-> Resting] /\ changes = 0
      /\ lastSet = [s \in Setting |-> 0] /\ overtaken = {}
  BY DEF SettingsInit
<1>2. SettingsTypes
  BY <1>1, FileFacts, SettingsAssumption DEF SettingsTypes, WriterState
<1>3. \A w \in Writers : Stage(w, "rest") /\ ~Stage(w, "loaded") /\ ~Stage(w, "saved") /\ ~HasOpen(w)
  BY <1>1 DEF Stage, Resting, HasOpen
<1>4. KeysFollow /\ FileHoldsLast
  BY <1>1, FileFacts, SettingsAssumption DEF KeysFollow, FileHoldsLast, Dated
<1> QED
  BY <1>2, <1>3, <1>4 DEF Unspoiled, OneWrites, Faithful, WritesAlone

\* The requests and wizards set settings.
LEMMA BodyFacts == \A kind \in Wizard \cup Requests : \A sets \in Bodies(kind) : sets \subseteq Setting
BY DEF Bodies, Wizard, Requests, Setting, WebSearch, McpServers, Connections, Profile,
       ProviderSettings, Setup, OnboardConfig, Initialize

\* What a writer loads are the values of the file, with keys that were made.
LEMMA LoadFacts ==
  ASSUME Unspoiled, NEW key \in Nat, Load(key)
  PROVE  /\ keyFile' \in Nat /\ keysMade' \in Nat /\ keysMade <= keysMade'
         /\ keyFile' <= keysMade' /\ (keyFile' = 0 => keysMade' = 0)
         /\ Loaded(key) \in Values
         /\ \A s \in Setting : /\ Loaded(key)[s].change = configFile.values[s].change
                               /\ Loaded(key)[s].key <= keysMade'
<1>1. keysMade \in Nat /\ keyFile \in Nat /\ configFile.values \in Values
  BY DEF Unspoiled, SettingsTypes, Files
<1>2. /\ keyFile' \in Nat /\ keysMade' \in Nat /\ keysMade <= keysMade'
      /\ keyFile' <= keysMade' /\ (keyFile' = 0 => keysMade' = 0)
  <2>1. CASE UNCHANGED <<keyFile, keysMade>>
    BY <1>1, <2>1 DEF Unspoiled, KeysFollow
  <2>2. CASE TakeKey(key)
    BY <2>2, KeyFacts DEF Unspoiled
  <2> QED
    BY <2>1, <2>2 DEF Load
<1>3. \A s \in Setting : configFile.values[s].key <= keysMade /\ configFile.values[s].key \in Nat
  BY <1>1 DEF Unspoiled, KeysFollow, Dated, Values
<1>4. CASE configFile.status = "whole"
  <2>1. Loaded(key) = Opened(key, configFile.values)
    BY <1>4 DEF Loaded
  <2>2. /\ Opened(key, configFile.values) \in Values
        /\ \A s \in Setting : /\ Opened(key, configFile.values)[s].change = configFile.values[s].change
                              /\ Opened(key, configFile.values)[s].key \in {configFile.values[s].key, 0}
    BY <1>1, ValueFacts
  <2> QED
    BY <1>1, <1>2, <1>3, <2>1, <2>2
<1>5. CASE configFile = NoFile
  BY <1>2, <1>5, FileFacts DEF Loaded
<1> QED
  BY <1>2, <1>4, <1>5 DEF Unspoiled, FileHoldsLast

\* A step that changes no file and one writer, who has nothing open after it.
LEMMA WriterMoves ==
  ASSUME Unspoiled, NEW w \in Writers, NEW r \in WriterState, writer' = [writer EXCEPT ![w] = r],
         r.at \notin {"writing", "written"}, Faithful(w)',
         keyFile' \in Nat, keysMade' \in Nat, keysMade <= keysMade',
         keyFile' <= keysMade', keyFile' = 0 => keysMade' = 0,
         changes' \in 0..MaxChanges, UNCHANGED <<configFile, lastSet, overtaken>>,
         tempFile' \in Files, tempFile' = tempFile \/ Others(w) = {}
  PROVE  Unspoiled'
<1>1. SettingsTypes'
  BY DEF Unspoiled, SettingsTypes
<1>2. writer'[w] = r /\ \A v \in Writers \ {w} : writer'[v] = writer[v]
  BY DEF Unspoiled, SettingsTypes
<1>3. ~HasOpen(w)' /\ \A v \in Writers \ {w} : HasOpen(v)' = HasOpen(v)
  BY <1>2 DEF HasOpen
<1>4. OneWrites'
  BY <1>3 DEF Unspoiled, OneWrites
<1>5. configFile.values \in Values /\ keysMade \in Nat
  BY DEF Unspoiled, SettingsTypes, Files
<1>6. KeysFollow'
  BY <1>5, DatedGrows DEF Unspoiled, KeysFollow, Dated
<1>7. FileHoldsLast'
  BY DEF Unspoiled, FileHoldsLast, NoFile, File, Defaults, Unset
<1>8. \A v \in Writers \ {w} : Faithful(v)' /\ WritesAlone(v)'
  BY <1>2, OthersKeep
<1>9. WritesAlone(w)'
  BY <1>3 DEF WritesAlone
<1> QED
  BY <1>1, <1>4, <1>6, <1>7, <1>8, <1>9 DEF Unspoiled

LEMMA RequestKeeps ==
  ASSUME Unspoiled, NEW w \in Writers, NEW kind \in Requests, NEW sets \in SUBSET Setting,
         NEW key \in Nat, NEW valid \in BOOLEAN, Request(w, kind, sets, key, valid)
  PROVE  Unspoiled'
<1> DEFINE values == WithChange(Loaded(key), sets, changes + 1)
           r == [at |-> "loaded", kind |-> kind, sets |-> sets, seen |-> Seen, valid |-> valid, values |-> values]
<1>1. /\ Load(key) /\ changes < MaxChanges /\ changes' = changes + 1 /\ writer' = [writer EXCEPT ![w] = r]
      /\ UNCHANGED <<configFile, tempFile, lastSet, overtaken, spoiled>>
  BY DEF Request
<1>2. changes \in Nat /\ keysMade \in Nat /\ MaxChanges \in Nat /\ changes + 1 <= MaxChanges /\ changes + 1 \in Nat
  BY <1>1, SettingsAssumption DEF Unspoiled, SettingsTypes
<1>3. /\ Loaded(key) \in Values /\ keysMade' \in Nat
      /\ \A s \in Setting : /\ Loaded(key)[s].change = configFile.values[s].change
                            /\ Loaded(key)[s].key <= keysMade'
  BY <1>1, LoadFacts
<1>4. /\ values \in Values
      /\ \A s \in Setting \ sets : values[s] = Loaded(key)[s]
      /\ \A s \in sets : values[s] = [change |-> changes + 1, key |-> 0]
  BY <1>2, <1>3, ValueFacts
<1>5. Seen \in [Setting -> Nat]
  BY <1>2 DEF Unspoiled, SettingsTypes, Seen, Outdated
<1> HIDE DEF values
<1>6. r \in Loading /\ r.at = "loaded" /\ r.values = values /\ r.seen = Seen /\ r.sets = sets
  BY <1>4, <1>5 DEF Loading, Saver
<1> HIDE DEF r
<1>7. \A s \in Setting : values[s].key <= keysMade' /\ values[s].change <= MaxChanges
  <2> SUFFICES ASSUME NEW s \in Setting PROVE values[s].key <= keysMade' /\ values[s].change <= MaxChanges
    OBVIOUS
  <2>1. configFile.values[s].change <= MaxChanges
    BY DEF Unspoiled, KeysFollow, Dated
  <2> QED
    BY <1>2, <1>3, <1>4, <2>1
<1>8. \A s \in Setting \ sets : values[s].change = Seen[s] \/ Seen[s] = Outdated
  BY <1>3, <1>4 DEF Seen, Unspoiled, FileHoldsLast
<1>9. writer'[w] = r
  BY <1>1 DEF Unspoiled, SettingsTypes
<1>10. Faithful(w)'
  BY <1>6, <1>7, <1>8, <1>9 DEF Faithful, FaithfulTo, Stage, HasOpen, Dated, Outdated
<1>11. r \in WriterState /\ tempFile' \in Files /\ changes' \in 0..MaxChanges
  BY <1>1, <1>2, <1>6 DEF WriterState, Unspoiled, SettingsTypes
<1> QED
  BY <1>1, <1>6, <1>10, <1>11, LoadFacts, WriterMoves

LEMMA InterviewKeeps ==
  ASSUME Unspoiled, NEW w \in Writers, NEW kind \in Wizard, NEW sets \in SUBSET Setting,
         Interview(w, kind, sets)
  PROVE  Unspoiled'
<1> DEFINE values == WithChange(Defaults, sets, changes + 1)
           r == [at |-> "loaded", kind |-> kind, sets |-> sets, seen |-> lastSet, valid |-> TRUE, values |-> values]
<1>1. /\ changes < MaxChanges /\ changes' = changes + 1 /\ writer' = [writer EXCEPT ![w] = r]
      /\ UNCHANGED <<configFile, tempFile, keyFile, keysMade, lastSet, overtaken, spoiled>>
  BY DEF Interview
<1>2. changes \in Nat /\ keysMade \in Nat /\ MaxChanges \in Nat /\ changes + 1 <= MaxChanges /\ changes + 1 \in Nat
  BY <1>1, SettingsAssumption DEF Unspoiled, SettingsTypes
<1>3. /\ values \in Values
      /\ \A s \in Setting \ sets : values[s] = Defaults[s]
      /\ \A s \in sets : values[s] = [change |-> changes + 1, key |-> 0]
  BY <1>2, FileFacts, ValueFacts
<1> HIDE DEF values
<1>4. r \in Loading /\ r.at = "loaded" /\ r.values = values /\ r.kind = kind
  BY <1>2, <1>3 DEF Loading, Saver, Unspoiled, SettingsTypes
<1> HIDE DEF r
<1>5. \A s \in Setting : values[s].key <= keysMade' /\ values[s].change <= MaxChanges
  BY <1>1, <1>2, <1>3, FileFacts
<1>6. writer'[w] = r
  BY <1>1 DEF Unspoiled, SettingsTypes
<1>7. Faithful(w)'
  BY <1>4, <1>5, <1>6 DEF Faithful, Stage, HasOpen, Dated
<1>8. r \in WriterState /\ tempFile' \in Files /\ changes' \in 0..MaxChanges
      /\ keyFile' \in Nat /\ keysMade' \in Nat /\ keysMade <= keysMade'
      /\ keyFile' <= keysMade' /\ (keyFile' = 0 => keysMade' = 0)
  BY <1>1, <1>2, <1>4 DEF WriterState, Unspoiled, SettingsTypes, KeysFollow
<1> QED
  BY <1>1, <1>4, <1>7, <1>8, WriterMoves

\* Nobody else has config.tmp open, as long as nothing is spoiled.
LEMMA OpenTempKeeps ==
  ASSUME Unspoiled, NEW w \in Writers, NEW key \in 1..MaxKeys, OpenTemp(w, key), ~spoiled'
  PROVE  Unspoiled'
<1>1. PICK v \in Loading : v = writer[w]
  BY WriterFacts DEF OpenTemp, Unspoiled
<1>2. /\ v.at = "loaded" /\ v.kind \in Saver /\ v.sets \in SUBSET Setting /\ v.seen \in [Setting -> Nat]
      /\ v.valid \in BOOLEAN /\ v.values \in Values /\ key \in Nat /\ keysMade \in Nat
  BY SettingsAssumption DEF Loading, Unspoiled, SettingsTypes
<1>3. TakeKey(key) /\ Others(w) = {} /\ tempFile' = Broken /\ UNCHANGED <<configFile, changes, lastSet, overtaken>>
  BY DEF OpenTemp
<1>4. /\ keyFile' = key /\ keysMade' \in Nat /\ keysMade <= keysMade' /\ keyFile' <= keysMade'
      /\ keyFile' # 0
  BY <1>2, <1>3, KeyFacts DEF Unspoiled, SettingsTypes, KeysFollow
<1>5. PICK dump : dump = IF v.valid THEN File("whole", SealedWith(key, v.values)) ELSE Invalid
  OBVIOUS
<1>6. PICK r : /\ r = [at |-> "writing", kind |-> v.kind, sets |-> v.sets, seen |-> v.seen, valid |-> v.valid,
                       values |-> v.values, file |-> "temp", dump |-> dump]
               /\ writer' = [writer EXCEPT ![w] = r]
  BY <1>1, <1>5 DEF OpenTemp
<1>7. \A s \in Setting : v.values[s].key <= keysMade /\ v.values[s].change <= MaxChanges
                         /\ v.values[s].key \in Nat
  BY <1>1, <1>2 DEF Unspoiled, Faithful, Stage, Dated, Values
<1>8. /\ dump \in Files
      /\ \A s \in Setting : dump.values[s].key <= keysMade' /\ dump.values[s].change <= MaxChanges
      /\ v.valid => dump.status = "whole" /\ \A s \in Setting : dump.values[s].change = v.values[s].change
      /\ ~v.valid => dump = Invalid
  <2>1. CASE v.valid
    <3>1. dump.status = "whole" /\ dump.values = SealedWith(key, v.values) /\ dump = File("whole", SealedWith(key, v.values))
      BY <1>5, <2>1 DEF File
    <3>2. /\ SealedWith(key, v.values) \in Values
          /\ \A s \in Setting : /\ SealedWith(key, v.values)[s].change = v.values[s].change
                                /\ SealedWith(key, v.values)[s].key \in {v.values[s].key, key}
      BY <1>2, ValueFacts
    <3>3. dump \in Files
      BY <3>1, <3>2 DEF File, Files
    <3> QED
      BY <1>2, <1>4, <1>7, <2>1, <3>1, <3>2, <3>3
  <2>2. CASE ~v.valid
    BY <1>2, <1>4, <1>5, <2>2, FileFacts, SettingsAssumption
  <2> QED
    BY <2>1, <2>2
<1>9. r \in Writing /\ r \in WriterState
  BY <1>2, <1>6, <1>8 DEF Writing, WriterState
<1>10. writer'[w] = r /\ \A u \in Writers \ {w} : writer'[u] = writer[u]
  BY <1>6 DEF Unspoiled, SettingsTypes
<1>11. SettingsTypes'
  BY <1>3, <1>4, <1>6, <1>9, FileFacts DEF Unspoiled, SettingsTypes
<1>12. KeysFollow'
  BY <1>3, <1>4, <1>2, DatedGrows DEF Unspoiled, SettingsTypes, KeysFollow, Dated, Files
<1>13. FileHoldsLast'
  BY <1>3 DEF Unspoiled, FileHoldsLast, NoFile, File, Defaults, Unset
<1>14. HasOpen(w)' /\ \A u \in Writers \ {w} : ~HasOpen(u)'
  BY <1>3, <1>6, <1>10 DEF HasOpen, Others
<1>15. Faithful(w)'
  <2>1. v.kind \in Wizard \/ FaithfulTo(v.values, v.seen, v.sets)
    BY <1>1, <1>2 DEF Unspoiled, Faithful, Stage
  <2>2. Dated(v.values)'
    BY <1>2, <1>4, <1>7 DEF Dated
  <2> QED
    BY <1>6, <1>10, <2>1, <2>2 DEF Faithful, Stage, FaithfulTo, Outdated
<1>16. WritesAlone(w)'
  <2>1. Dated(dump.values)'
    BY <1>8 DEF Dated
  <2> QED
    BY <1>6, <1>8, <1>10, <2>1 DEF WritesAlone, Stage, Invalid, File, Defaults, Unset
<1>17. \A u \in Writers \ {w} : Faithful(u)' /\ WritesAlone(u)'
  BY <1>3, <1>4, <1>10, OthersKeep
<1>18. OneWrites'
  BY <1>14 DEF OneWrites
<1> QED
  BY <1>11, <1>12, <1>13, <1>15, <1>16, <1>17, <1>18 DEF Unspoiled

LEMMA WriteTempKeeps ==
  ASSUME Unspoiled, NEW w \in Writers, WriteTemp(w)
  PROVE  Unspoiled'
<1>1. PICK v \in Writing : v = writer[w]
  BY WriterFacts DEF WriteTemp, Unspoiled, HasOpen, Stage
<1>2. Others(w) = {} /\ v.file = "temp" /\ v.dump \in Files /\ v.at = "writing"
  BY <1>1 DEF WriteTemp, Unspoiled, OneWrites, Others, HasOpen, Stage, WritesAlone, Writing
<1>3. /\ tempFile' = v.dump /\ configFile' = configFile
      /\ UNCHANGED <<keyFile, keysMade, changes, lastSet, overtaken, spoiled>>
  BY <1>1, <1>2 DEF WriteTemp, Written
<1>4. PICK r : r = [v EXCEPT !.at = "written"] /\ writer' = [writer EXCEPT ![w] = r]
  BY <1>1 DEF WriteTemp
<1>5. r \in Writing /\ r \in WriterState /\ r.at = "written"
      /\ r.kind = v.kind /\ r.sets = v.sets /\ r.seen = v.seen /\ r.valid = v.valid /\ r.values = v.values
      /\ r.file = v.file /\ r.dump = v.dump
  BY <1>4 DEF Writing, WriterState
<1>6. writer'[w] = r /\ \A u \in Writers \ {w} : writer'[u] = writer[u]
  BY <1>4 DEF Unspoiled, SettingsTypes
<1>7. SettingsTypes'
  BY <1>2, <1>3, <1>4, <1>5 DEF Unspoiled, SettingsTypes
<1>8. KeysFollow' /\ FileHoldsLast'
  BY <1>3 DEF Unspoiled, KeysFollow, Dated, FileHoldsLast, NoFile, File, Defaults, Unset
<1>9. OneWrites'
  BY <1>1, <1>2, <1>6 DEF Unspoiled, OneWrites, HasOpen, Others
<1>10. Faithful(w)'
  <2>1. Faithful(w) /\ HasOpen(w) /\ ~Stage(w, "rest")
    BY <1>1, <1>2 DEF Unspoiled, HasOpen, Stage
  <2> QED
    BY <1>1, <1>3, <1>5, <1>6, <2>1 DEF Faithful, Stage, FaithfulTo, Outdated, Dated
<1>11. WritesAlone(w)'
  <2>1. WritesAlone(w) /\ HasOpen(w)
    BY <1>1, <1>2 DEF Unspoiled, HasOpen, Stage
  <2> QED
    BY <1>1, <1>3, <1>5, <1>6, <2>1 DEF WritesAlone, Stage, HasOpen, Dated, Invalid, File, Defaults, Unset
<1>12. \A u \in Writers \ {w} : Faithful(u)' /\ WritesAlone(u)'
  <2>1. keysMade' \in Nat /\ keysMade <= keysMade'
    BY <1>3 DEF Unspoiled, SettingsTypes
  <2> QED
    BY <1>2, <1>6, <2>1, OthersKeep
<1> QED
  BY <1>7, <1>8, <1>9, <1>10, <1>11, <1>12 DEF Unspoiled

\* What a save leaves in config.json is the last value of all that was not overtaken.
LEMMA MoveTempKeeps ==
  ASSUME Unspoiled, NEW w \in Writers, MoveTemp(w), ~spoiled'
  PROVE  Unspoiled'
<1>1. PICK v \in Writing : v = writer[w]
  BY WriterFacts DEF MoveTemp, Unspoiled, HasOpen, Stage
<1>2. /\ v.at = "written" /\ v.kind \in Saver /\ v.sets \in SUBSET Setting /\ v.seen \in [Setting -> Nat]
      /\ v.valid \in BOOLEAN /\ v.values \in Values /\ v.dump \in Files
  BY <1>1 DEF MoveTemp, Stage, Writing
<1>3. HasOpen(w) /\ Stage(w, "written") /\ Faithful(w) /\ WritesAlone(w)
  BY <1>1, <1>2 DEF Unspoiled, HasOpen, Stage
<1>4. Others(w) = {} /\ tempFile = v.dump /\ v.dump # Invalid
  BY <1>1, <1>3 DEF MoveTemp, Unspoiled, OneWrites, Others, WritesAlone
<1>5. /\ v.dump.status = "whole"
      /\ \A s \in Setting : /\ v.dump.values[s].change = v.values[s].change
                            /\ v.dump.values[s].key <= keysMade /\ v.dump.values[s].change <= MaxChanges
                            /\ v.values[s].key <= keysMade /\ v.values[s].change <= MaxChanges
                            /\ v.values[s].change \in Nat
  <2>1. \A s \in Setting : v.values[s].change \in Nat
    BY <1>2 DEF Values
  <2>2. ~Stage(w, "rest")
    BY <1>1, <1>2 DEF Stage
  <2> QED
    BY <1>1, <1>3, <1>4, <2>1, <2>2 DEF Faithful, WritesAlone, Dated
<1>6. PICK own \in SUBSET Setting : own = Decides(w)
  BY <1>1, <1>2 DEF Decides
<1>7. v.sets \subseteq own /\ (v.kind \in Wizard => \A s \in Setting \ own : v.seen[s] # lastSet[s])
  BY <1>1, <1>6 DEF Decides
<1>8. PICK seen \in [Setting -> Nat] : seen = [s \in Setting |-> IF s \in own THEN v.values[s].change ELSE v.seen[s]]
  BY <1>2, <1>5
<1>9. PICK r : r = IF v.kind # "settings" THEN Resting ELSE [at |-> "saved", values |-> v.values, seen |-> seen]
  OBVIOUS
<1>10. r \in WriterState /\ r.at \notin {"loaded", "writing", "written"}
  BY <1>2, <1>8, <1>9 DEF WriterState, Saving, Resting
<1>11. writer \in [Writers -> WriterState] /\ Became(w, "config") = writer
  BY <1>4 DEF Became, Unspoiled, SettingsTypes
<1>12. /\ configFile' = v.dump /\ tempFile' = NoFile /\ UNCHANGED <<keyFile, keysMade, changes>>
       /\ lastSet' = [s \in Setting |-> IF s \in own THEN v.values[s].change ELSE lastSet[s]]
       /\ overtaken' = (overtaken \ own) \cup {s \in Setting \ own : v.seen[s] # lastSet[s]}
  BY <1>1, <1>4, <1>6 DEF MoveTemp
<1>13. writer' = [writer EXCEPT ![w] = r]
  BY <1>1, <1>6, <1>8, <1>9, <1>11 DEF MoveTemp
<1>14. writer'[w] = r /\ \A u \in Writers \ {w} : writer'[u] = writer[u]
  BY <1>11, <1>13
<1>15. MaxChanges \in Nat /\ lastSet \in [Setting -> 0..MaxChanges] /\ overtaken \subseteq Setting
       /\ keysMade \in Nat
  BY SettingsAssumption DEF Unspoiled, SettingsTypes
<1>16. lastSet' \in [Setting -> 0..MaxChanges] /\ overtaken' \subseteq Setting
  BY <1>5, <1>12, <1>15
<1>17. SettingsTypes'
  BY <1>2, <1>10, <1>11, <1>12, <1>13, <1>16, FileFacts DEF Unspoiled, SettingsTypes
<1>18. KeysFollow'
  BY <1>5, <1>12 DEF Unspoiled, KeysFollow, Dated
<1>19. FileHoldsLast'
  <2>1. ASSUME NEW s \in Setting, s \notin overtaken' PROVE v.dump.values[s].change = lastSet'[s]
    <3>1. CASE s \in own
      BY <1>5, <1>12, <3>1
    <3>2. CASE s \notin own
      <4>1. v.seen[s] = lastSet[s] /\ lastSet'[s] = lastSet[s] /\ s \notin v.sets
        BY <1>7, <1>12, <2>1, <3>2
      <4>2. v.seen[s] # Outdated
        BY <1>15, <4>1 DEF Outdated
      <4>3. v.values[s].change = v.seen[s]
        BY <1>1, <1>3, <1>7, <3>2, <4>1, <4>2 DEF Faithful, FaithfulTo
      <4> QED
        BY <1>5, <4>1, <4>3
    <3> QED
      BY <3>1, <3>2
  <2> QED
    BY <1>5, <1>12, <2>1 DEF FileHoldsLast
<1>20. ~HasOpen(w)' /\ \A u \in Writers \ {w} : HasOpen(u)' = HasOpen(u)
  BY <1>10, <1>14 DEF HasOpen
<1>21. OneWrites' /\ WritesAlone(w)'
  BY <1>20 DEF Unspoiled, OneWrites, WritesAlone
<1>22. Faithful(w)'
  <2>1. CASE v.kind # "settings"
    BY <1>9, <1>14, <2>1 DEF Faithful, Stage, HasOpen, Resting
  <2>2. CASE v.kind = "settings"
    <3>1. r.at = "saved" /\ r.values = v.values /\ r.seen = seen
      BY <1>9, <2>2
    <3>2. \A s \in Setting : v.values[s].change = seen[s] \/ seen[s] = Outdated
      BY <1>1, <1>3, <1>7, <1>8, <2>2 DEF Faithful, FaithfulTo, Wizard
    <3> QED
      BY <1>5, <1>12, <1>14, <3>1, <3>2 DEF Faithful, Stage, HasOpen, FaithfulTo, Outdated, Dated
  <2> QED
    BY <2>1, <2>2
<1>23. \A u \in Writers \ {w} : Faithful(u)' /\ WritesAlone(u)'
  BY <1>4, <1>12, <1>14, <1>15, OthersKeep
<1> QED
  BY <1>17, <1>18, <1>19, <1>21, <1>22, <1>23 DEF Unspoiled

\* Whoever gives up or is done rests.
LEMMA RestKeeps ==
  ASSUME Unspoiled, NEW w \in Writers, MissTemp(w) \/ FailToWrite(w) \/ EndSettings(w)
  PROVE  Unspoiled'
<1>1. UNCHANGED <<configFile, keyFile, keysMade, changes, lastSet, overtaken, spoiled>>
  BY DEF MissTemp, FailToWrite, EndSettings
<1>2. writer' = [writer EXCEPT ![w] = Resting] /\ tempFile' \in Files /\ (tempFile' = tempFile \/ Others(w) = {})
  <2>1. CASE MissTemp(w) \/ EndSettings(w)
    BY <2>1 DEF MissTemp, EndSettings, Unspoiled, SettingsTypes
  <2>2. CASE FailToWrite(w)
    <3>1. Others(w) = {}
      BY <2>2 DEF FailToWrite, Unspoiled, OneWrites, Others, HasOpen, Stage
    <3>2. Became(w, "gone") = writer
      BY <3>1 DEF Became, Unspoiled, SettingsTypes
    <3> QED
      BY <2>2, <3>1, <3>2, FileFacts DEF FailToWrite
  <2> QED
    BY <2>1, <2>2
<1>3. writer'[w] = Resting
  BY <1>2 DEF Unspoiled, SettingsTypes
<1>4. Faithful(w)' /\ Resting \in WriterState /\ Resting.at = "rest"
  BY <1>3 DEF Faithful, Stage, HasOpen, Resting, WriterState
<1>5. keyFile' \in Nat /\ keysMade' \in Nat /\ keysMade <= keysMade' /\ keyFile' <= keysMade'
      /\ (keyFile' = 0 => keysMade' = 0) /\ changes' \in 0..MaxChanges
  BY <1>1 DEF Unspoiled, SettingsTypes, KeysFollow
<1> QED
  BY <1>1, <1>2, <1>4, <1>5, WriterMoves

\* The second save of update_settings goes on with what the first one saved.
LEMMA SaveModeKeeps ==
  ASSUME Unspoiled, NEW w \in Writers, SaveMode(w)
  PROVE  Unspoiled'
<1>1. PICK v \in Saving : v = writer[w]
  BY WriterFacts DEF SaveMode, Unspoiled
<1>2. v.at = "saved" /\ v.values \in Values /\ v.seen \in [Setting -> Nat]
  BY <1>1 DEF Saving
<1>3. changes' = changes + 1 /\ changes < MaxChanges /\ UNCHANGED <<configFile, tempFile, keyFile, keysMade, lastSet, overtaken>>
  BY DEF SaveMode
<1>4. changes \in Nat /\ keysMade \in Nat /\ MaxChanges \in Nat /\ changes + 1 <= MaxChanges /\ changes + 1 \in Nat
  BY <1>3, SettingsAssumption DEF Unspoiled, SettingsTypes
<1>5. PICK values : values = WithChange(v.values, {"mode"}, changes + 1)
  OBVIOUS
<1>6. /\ values \in Values
      /\ \A s \in Setting \ {"mode"} : values[s] = v.values[s]
      /\ values["mode"] = [change |-> changes + 1, key |-> 0]
  BY <1>2, <1>4, <1>5, ValueFacts DEF Setting
<1>7. PICK r : /\ r = [at |-> "loaded", kind |-> "mode", sets |-> {"mode"}, seen |-> v.seen, valid |-> TRUE, values |-> values]
               /\ writer' = [writer EXCEPT ![w] = r]
  BY <1>1, <1>5 DEF SaveMode, ModeSettings
<1>8. r \in Loading /\ r \in WriterState
  BY <1>2, <1>6, <1>7 DEF Loading, Saver, Setting, WriterState
<1>9. Faithful(w) /\ Stage(w, "saved") /\ ~Stage(w, "rest")
  BY <1>1, <1>2 DEF Unspoiled, Stage
<1>10. \A s \in Setting : values[s].key <= keysMade /\ values[s].change <= MaxChanges
  BY <1>1, <1>4, <1>6, <1>9 DEF Faithful, Dated
<1>11. \A s \in Setting \ {"mode"} : values[s].change = v.seen[s] \/ v.seen[s] = Outdated
  BY <1>1, <1>6, <1>9 DEF Faithful, FaithfulTo
<1>12. writer'[w] = r
  BY <1>7 DEF Unspoiled, SettingsTypes
<1>13. Faithful(w)'
  BY <1>3, <1>7, <1>10, <1>11, <1>12 DEF Faithful, FaithfulTo, Stage, HasOpen, Dated, Outdated
<1>14. tempFile' \in Files /\ changes' \in 0..MaxChanges
      /\ keyFile' \in Nat /\ keysMade' \in Nat /\ keysMade <= keysMade'
      /\ keyFile' <= keysMade' /\ (keyFile' = 0 => keysMade' = 0)
  BY <1>3, <1>4 DEF Unspoiled, SettingsTypes, KeysFollow
<1> QED
  BY <1>3, <1>7, <1>8, <1>13, <1>14, WriterMoves

\* A crash leaves the files as they are.
LEMMA EndProcessKeeps ==
  ASSUME Unspoiled, NEW commandLine \in BOOLEAN, EndProcess(commandLine)
  PROVE  Unspoiled'
<1>1. /\ \A w \in Writers : writer'[w] = Resting \/ writer'[w] = writer[w]
      /\ writer' \in [Writers -> WriterState]
      /\ UNCHANGED <<configFile, tempFile, keyFile, keysMade, changes, lastSet, overtaken, spoiled>>
  BY DEF EndProcess, Unspoiled, SettingsTypes, WriterState
<1>2. SettingsTypes' /\ KeysFollow' /\ FileHoldsLast'
  BY <1>1 DEF Unspoiled, SettingsTypes, KeysFollow, Dated, FileHoldsLast, NoFile, File, Defaults, Unset
<1>3. \A w \in Writers : HasOpen(w)' => HasOpen(w)
  BY <1>1 DEF HasOpen, Resting
<1>4. OneWrites'
  BY <1>3 DEF Unspoiled, OneWrites
<1>5. ASSUME NEW w \in Writers PROVE Faithful(w)' /\ WritesAlone(w)'
  <2>1. Faithful(w) /\ WritesAlone(w)
    BY DEF Unspoiled
  <2>2. CASE writer'[w] = Resting
    BY <2>2 DEF Faithful, WritesAlone, Stage, HasOpen, Resting
  <2>3. CASE writer'[w] = writer[w]
    <3>1. Faithful(w)'
      BY <1>1, <2>1, <2>3 DEF Faithful, FaithfulTo, Outdated, Dated, Stage, HasOpen
    <3>2. WritesAlone(w)'
      BY <1>1, <2>1, <2>3 DEF WritesAlone, Dated, Stage, HasOpen, Invalid, File, Defaults, Unset
    <3> QED
      BY <3>1, <3>2
  <2> QED
    BY <1>1, <2>2, <2>3
<1> QED
  BY <1>2, <1>4, <1>5 DEF Unspoiled

LEMMA SettingsStep == SettingsInv /\ [SettingsNext]_settingsVars => SettingsInv'
<1> SUFFICES ASSUME SettingsInv, [SettingsNext]_settingsVars, ~spoiled' PROVE Unspoiled'
  BY DEF SettingsInv
<1>1. ~spoiled
  BY DEF SettingsNext, Request, Interview, OpenTemp, WriteTemp, MoveTemp, MissTemp, FailToWrite, SaveMode,
         EndSettings, EndProcess, settingsVars
<1>2. Unspoiled /\ MaxKeys \in Nat
  BY <1>1, SettingsAssumption DEF SettingsInv
<1>3. CASE UNCHANGED settingsVars
  <2>1. UNCHANGED <<configFile, tempFile, keyFile, keysMade, writer, changes, lastSet, overtaken>>
    BY <1>3 DEF settingsVars
  <2>2. \A w \in Writers : Faithful(w)' /\ WritesAlone(w)'
    BY <1>2, <2>1 DEF Unspoiled, Faithful, WritesAlone, FaithfulTo, Outdated, Dated, Stage, HasOpen,
                      Invalid, File, Defaults, Unset
  <2>3. SettingsTypes' /\ KeysFollow' /\ FileHoldsLast' /\ OneWrites'
    BY <1>2, <2>1 DEF Unspoiled, SettingsTypes, KeysFollow, Dated, FileHoldsLast, OneWrites, HasOpen,
                      NoFile, File, Defaults, Unset
  <2> QED
    BY <2>2, <2>3 DEF Unspoiled
<1>4. ASSUME NEW w \in Writers, NEW kind \in Kinds \cap Requests, NEW key \in 0..MaxKeys, NEW valid \in BOOLEAN,
             NEW sets \in Bodies(kind), Request(w, kind, sets, key, valid)
      PROVE  Unspoiled'
  <2>1. kind \in Requests /\ sets \in SUBSET Setting /\ key \in Nat
    BY <1>2, BodyFacts
  <2> QED
    BY <1>2, <1>4, <2>1, RequestKeeps
<1>5. ASSUME NEW w \in Writers, NEW kind \in Kinds \cap Wizard, NEW sets \in Bodies(kind), Interview(w, kind, sets)
      PROVE  Unspoiled'
  <2>1. kind \in Wizard /\ sets \in SUBSET Setting
    BY BodyFacts
  <2> QED
    BY <1>2, <1>5, <2>1, InterviewKeeps
<1>6. ASSUME NEW w \in Writers, NEW key \in 1..MaxKeys, OpenTemp(w, key) PROVE Unspoiled'
  BY <1>2, <1>6, OpenTempKeeps
<1>7. ASSUME NEW w \in Writers,
             \/ WriteTemp(w) \/ MoveTemp(w) \/ MissTemp(w) \/ FailToWrite(w) \/ SaveMode(w) \/ EndSettings(w)
      PROVE  Unspoiled'
  BY <1>2, <1>7, WriteTempKeeps, MoveTempKeeps, RestKeeps, SaveModeKeeps
<1>8. ASSUME NEW commandLine \in BOOLEAN, EndProcess(commandLine) PROVE Unspoiled'
  BY <1>2, <1>8, EndProcessKeeps
<1> QED
  BY <1>3, <1>4, <1>5, <1>6, <1>7, <1>8 DEF SettingsNext

\* As long as no two saves have had config.tmp open at once and no invalid value was
\* saved, config.json holds the last value saved of every setting that no one who had
\* loaded an older file saved over, and the only key there is opens it, for every
\* number of writers, changes and keys, and whatever fails or crashes between the
\* steps of load_config and save_config (crabclaw/config/secure_loader.py).
THEOREM SettingsStay == SettingsSpec => []SettingsKept
<1>1. SettingsInv => SettingsKept
  <2> SUFFICES ASSUME Unspoiled PROVE SettingsKept
    BY DEF SettingsInv, SettingsKept
  <2>1. configFile.status \in {"missing", "whole"}
    BY FileFacts DEF Unspoiled, FileHoldsLast
  <2>2. ASSUME NEW s \in Setting, keysMade < 2 PROVE configFile.values[s].key \in {0, keyFile}
    <3>1. keysMade \in Nat /\ keyFile \in Nat /\ configFile.values[s].key \in Nat
      BY DEF Unspoiled, SettingsTypes, Files, Values
    <3>2. configFile.values[s].key <= keysMade /\ keyFile <= keysMade /\ (keyFile = 0 => keysMade = 0)
      BY DEF Unspoiled, KeysFollow, Dated
    <3> QED
      BY <2>2, <3>1, <3>2
  <2>3. \A s \in Setting : s \notin overtaken => configFile.values[s].change = lastSet[s]
    BY DEF Unspoiled, FileHoldsLast
  <2> QED
    BY <2>1, <2>2, <2>3 DEF SettingsKept
<1> QED
  BY <1>1, SettingsStart, SettingsStep, PTL DEF SettingsSpec

\* What the files and the writers hold, whether or not the file is spoiled.
FileValues == [Setting -> [change : 0..MaxChanges, key : 0..MaxKeys]]
Loader == [at : {"loaded"}, kind : Saver, sets : SUBSET Setting, seen : [Setting -> Nat],
           valid : BOOLEAN, values : FileValues]
Scribe == [at : {"writing", "written"}, kind : Saver, sets : SUBSET Setting, seen : [Setting -> Nat],
           valid : BOOLEAN, values : FileValues, file : {"temp", "config", "gone"}, dump : FileType]
BetweenSaves == [at : {"saved"}, values : FileValues, seen : [Setting -> Nat]]
StateOfWriter == {Resting} \cup Loader \cup Scribe \cup BetweenSaves

SettingsBounds ==
  /\ configFile \in FileType /\ tempFile \in FileType
  /\ keyFile \in 0..MaxKeys /\ keysMade \in 0..MaxKeys /\ changes \in 0..MaxChanges
  /\ writer \in [Writers -> StateOfWriter]
  /\ lastSet \in [Setting -> 0..MaxChanges] /\ overtaken \subseteq Setting /\ spoiled \in BOOLEAN

LEMMA PlainFiles ==
  Defaults \in FileValues /\ NoFile \in FileType /\ Broken \in FileType /\ Invalid \in FileType
<1>1. Defaults \in FileValues
  BY SettingsAssumption DEF Defaults, Unset, FileValues
<1> QED
  BY <1>1 DEF NoFile, Broken, Invalid, File, FileType, FileValues

\* What a writer holds at each of its stages.
LEMMA HeldByWriter ==
  ASSUME SettingsBounds, NEW w \in Writers
  PROVE  /\ Stage(w, "loaded") => writer[w] \in Loader
         /\ HasOpen(w) => writer[w] \in Scribe
         /\ Stage(w, "saved") => writer[w] \in BetweenSaves
BY DEF SettingsBounds, StateOfWriter, Stage, HasOpen, Resting, Loader, Scribe, BetweenSaves

\* Sealing, opening and setting stay within the keys and the changes there are.
LEMMA SealedAndOpened ==
  ASSUME NEW values \in FileValues, NEW key \in 0..MaxKeys, NEW sets, NEW change \in 0..MaxChanges
  PROVE  /\ SealedWith(key, values) \in FileValues /\ Opened(key, values) \in FileValues
         /\ WithChange(values, sets, change) \in FileValues
<1>1. \A s \in Setting : values[s] \in [change : 0..MaxChanges, key : 0..MaxKeys]
  BY DEF FileValues
<1>2. 0 \in 0..MaxKeys
  BY SettingsAssumption
<1>3. SealedWith(key, values) \in FileValues
  BY <1>1 DEF SealedWith, FileValues
<1>4. Opened(key, values) \in FileValues
  BY <1>1, <1>2 DEF Opened, FileValues
<1>5. WithChange(values, sets, change) \in FileValues
  BY <1>1, <1>2 DEF WithChange, FileValues
<1> QED
  BY <1>3, <1>4, <1>5

LEMMA KeysBounded ==
  ASSUME SettingsBounds, NEW key, TakeKey(key)
  PROVE  key \in 0..MaxKeys /\ keyFile' \in 0..MaxKeys /\ keysMade' \in 0..MaxKeys
BY SettingsAssumption DEF SettingsBounds, TakeKey, KeyOptions

\* What becomes of the others' files is a file of theirs still.
LEMMA BecameBounded ==
  ASSUME SettingsBounds, NEW w \in Writers, NEW place \in {"config", "gone"}
  PROVE  Became(w, place) \in [Writers -> StateOfWriter] /\ Became(w, place)[w] = writer[w]
<1>1. ASSUME NEW v \in Writers
      PROVE  (IF v \in Others(w) /\ writer[v].file # "gone"
              THEN [writer[v] EXCEPT !.file = IF @ = "temp" THEN place
                                              ELSE IF place = "config" THEN "gone" ELSE @]
              ELSE writer[v]) \in StateOfWriter
  <2>1. CASE v \in Others(w)
    <3>1. PICK r \in Scribe : r = writer[v]
      BY <2>1, HeldByWriter DEF Others
    <3>2. PICK f \in {"temp", "config", "gone"} :
            f = IF r.file = "temp" THEN place ELSE IF place = "config" THEN "gone" ELSE r.file
      BY DEF Scribe
    <3>3. [r EXCEPT !.file = f] \in Scribe
      BY DEF Scribe
    <3>4. [r EXCEPT !.file = IF @ = "temp" THEN place
                             ELSE IF place = "config" THEN "gone" ELSE @] = [r EXCEPT !.file = f]
      BY <3>2 DEF Scribe
    <3> QED
      BY <3>1, <3>3, <3>4 DEF StateOfWriter
  <2>2. CASE v \notin Others(w)
    BY <2>2 DEF SettingsBounds
  <2> QED
    BY <2>1, <2>2
<1> QED
  BY <1>1 DEF Became, Others

LEMMA SettingsBoundsStep == SettingsBounds /\ [SettingsNext]_settingsVars => SettingsBounds'
<1> SUFFICES ASSUME SettingsBounds, [SettingsNext]_settingsVars PROVE SettingsBounds'
  OBVIOUS
<1>0. MaxChanges \in Nat /\ MaxKeys \in Nat
  BY SettingsAssumption
\* One writer moves, and the files stay.
<1>1. ASSUME NEW w \in Writers, NEW r \in StateOfWriter, writer' = [writer EXCEPT ![w] = r],
             configFile' \in FileType, tempFile' \in FileType,
             keyFile' \in 0..MaxKeys, keysMade' \in 0..MaxKeys, changes' \in 0..MaxChanges,
             UNCHANGED <<lastSet, overtaken>>, spoiled' \in BOOLEAN
      PROVE  SettingsBounds'
  BY <1>1 DEF SettingsBounds
<1>2. CASE UNCHANGED settingsVars
  BY <1>2 DEF settingsVars, SettingsBounds
<1>3. ASSUME NEW w \in Writers, NEW kind \in Kinds \cap Requests, NEW key \in 0..MaxKeys, NEW valid \in BOOLEAN,
             NEW sets \in Bodies(kind), Request(w, kind, sets, key, valid)
      PROVE  SettingsBounds'
  <2>1. changes + 1 \in 0..MaxChanges /\ changes' \in 0..MaxChanges
    BY <1>0, <1>3 DEF Request, SettingsBounds
  <2>2. Loaded(key) \in FileValues
    <3>1. configFile.values \in FileValues
      BY DEF SettingsBounds, FileType, FileValues
    <3> QED
      BY <2>1, <3>1, SealedAndOpened, PlainFiles DEF Loaded
  <2>3. PICK values \in FileValues : values = WithChange(Loaded(key), sets, changes + 1)
    BY <2>1, <2>2, SealedAndOpened
  <2>4. Seen \in [Setting -> Nat]
    BY <1>0 DEF Seen, Outdated, SettingsBounds
  <2>5. sets \in SUBSET Setting /\ kind \in Saver
    BY BodyFacts DEF Saver
  <2>6. PICK r : r = [at |-> "loaded", kind |-> kind, sets |-> sets, seen |-> Seen, valid |-> valid, values |-> values]
    OBVIOUS
  <2>7. r \in StateOfWriter
    BY <2>4, <2>5, <2>6 DEF StateOfWriter, Loader
  <2>8. keyFile' \in 0..MaxKeys /\ keysMade' \in 0..MaxKeys
    BY <1>3, KeysBounded DEF Request, Load, SettingsBounds
  <2>9. writer' = [writer EXCEPT ![w] = r]
    BY <1>3, <2>3, <2>6 DEF Request
  <2>10. /\ configFile' \in FileType /\ tempFile' \in FileType /\ spoiled' \in BOOLEAN
         /\ UNCHANGED <<lastSet, overtaken>>
    BY <1>3, Zenon DEF Request, SettingsBounds
  <2> QED
    BY <1>1, <2>1, <2>7, <2>8, <2>9, <2>10
<1>4. ASSUME NEW w \in Writers, NEW kind \in Kinds \cap Wizard, NEW sets \in Bodies(kind), Interview(w, kind, sets)
      PROVE  SettingsBounds'
  <2>1. changes + 1 \in 0..MaxChanges /\ changes' \in 0..MaxChanges
    BY <1>0, <1>4 DEF Interview, SettingsBounds
  <2>2. PICK values \in FileValues : values = WithChange(Defaults, sets, changes + 1)
    <3>1. 0 \in 0..MaxKeys
      BY <1>0
    <3> QED
      BY <2>1, <3>1, SealedAndOpened, PlainFiles
  <2>3. lastSet \in [Setting -> Nat]
    BY <1>0 DEF SettingsBounds
  <2>4. sets \in SUBSET Setting /\ kind \in Saver
    BY BodyFacts DEF Saver
  <2>5. PICK r : r = [at |-> "loaded", kind |-> kind, sets |-> sets, seen |-> lastSet, valid |-> TRUE, values |-> values]
    OBVIOUS
  <2>6. r \in StateOfWriter
    BY <2>3, <2>4, <2>5 DEF StateOfWriter, Loader
  <2>7. writer' = [writer EXCEPT ![w] = r]
    BY <1>4, <2>2, <2>5 DEF Interview
  <2>8. /\ configFile' \in FileType /\ tempFile' \in FileType /\ spoiled' \in BOOLEAN
        /\ keyFile' \in 0..MaxKeys /\ keysMade' \in 0..MaxKeys /\ UNCHANGED <<lastSet, overtaken>>
    BY <1>4, Zenon DEF Interview, SettingsBounds
  <2> QED
    BY <1>1, <2>1, <2>6, <2>7, <2>8
<1>5. ASSUME NEW w \in Writers, NEW key \in 1..MaxKeys, OpenTemp(w, key) PROVE SettingsBounds'
  <2>1. PICK v \in Loader : v = writer[w]
    BY <1>5, HeldByWriter DEF OpenTemp
  <2>2. /\ v.kind \in Saver /\ v.sets \in SUBSET Setting /\ v.seen \in [Setting -> Nat]
        /\ v.valid \in BOOLEAN /\ v.values \in FileValues
    BY DEF Loader
  <2>3. PICK dump : dump = IF v.valid THEN File("whole", SealedWith(key, v.values)) ELSE Invalid
    OBVIOUS
  <2>4. dump \in FileType
    <3>1. SealedWith(key, v.values) \in FileValues
      <4>1. key \in 0..MaxKeys /\ 0 \in 0..MaxChanges
        BY <1>0
      <4> QED
        BY <2>2, <4>1, SealedAndOpened
    <3>2. File("whole", SealedWith(key, v.values)) \in FileType
      BY <3>1 DEF File, FileType, FileValues
    <3> QED
      BY <2>3, <3>2, PlainFiles
  <2>5. PICK r : r = [at |-> "writing", kind |-> v.kind, sets |-> v.sets, seen |-> v.seen, valid |-> v.valid,
                      values |-> v.values, file |-> "temp", dump |-> dump]
    OBVIOUS
  <2>6. r \in StateOfWriter
    BY <2>2, <2>4, <2>5 DEF StateOfWriter, Scribe
  <2>7. writer' = [writer EXCEPT ![w] = r]
    BY <1>5, <2>1, <2>3, <2>5 DEF OpenTemp
  <2>8. keyFile' \in 0..MaxKeys /\ keysMade' \in 0..MaxKeys
    BY <1>5, KeysBounded DEF OpenTemp
  <2>9. configFile' \in FileType /\ tempFile' \in FileType /\ UNCHANGED <<lastSet, overtaken>> /\ changes' \in 0..MaxChanges
    BY <1>5, PlainFiles DEF OpenTemp, SettingsBounds
  <2>10. spoiled' \in BOOLEAN
    BY <1>5, Zenon DEF OpenTemp
  <2> QED
    BY <1>1, <2>6, <2>7, <2>8, <2>9, <2>10
<1>6. ASSUME NEW w \in Writers, WriteTemp(w) PROVE SettingsBounds'
  <2>1. PICK v \in Scribe : v = writer[w]
    BY <1>6, HeldByWriter DEF WriteTemp, Stage, HasOpen
  <2>2. PICK new \in Written(w) :
          /\ tempFile' = IF writer[w].file = "temp" THEN new ELSE tempFile
          /\ configFile' = IF writer[w].file = "config" THEN new ELSE configFile
    BY <1>6 DEF WriteTemp
  <2>3. new \in FileType
    BY <2>1, PlainFiles DEF Written, Scribe
  <2>4. [v EXCEPT !.at = "written"] \in StateOfWriter
    BY DEF StateOfWriter, Scribe
  <2>5. writer' = [writer EXCEPT ![w] = [v EXCEPT !.at = "written"]]
    BY <1>6, <2>1 DEF WriteTemp
  <2>6. configFile' \in FileType /\ tempFile' \in FileType
    BY <2>2, <2>3 DEF SettingsBounds
  <2>7. /\ keyFile' \in 0..MaxKeys /\ keysMade' \in 0..MaxKeys /\ changes' \in 0..MaxChanges
        /\ spoiled' \in BOOLEAN /\ UNCHANGED <<lastSet, overtaken>>
    BY <1>6, Zenon DEF WriteTemp, SettingsBounds
  <2> QED
    BY <1>1, <2>4, <2>5, <2>6, <2>7
<1>7. ASSUME NEW w \in Writers, MoveTemp(w) PROVE SettingsBounds'
  <2>1. PICK v \in Scribe : v = writer[w]
    BY <1>7, HeldByWriter DEF MoveTemp, Stage, HasOpen
  <2>2. v.values \in FileValues /\ \A s \in Setting : v.values[s].change \in 0..MaxChanges /\ v.seen[s] \in Nat
    BY DEF Scribe, FileValues
  <2>3. PICK own : own = Decides(w)
    OBVIOUS
  <2>4. PICK seen \in [Setting -> Nat] : seen = [s \in Setting |-> IF s \in own THEN v.values[s].change ELSE v.seen[s]]
    <3>1. \A s \in Setting : v.values[s].change \in Nat
      BY <1>0, <2>2
    <3> QED
      BY <2>2, <3>1
  <2>5. PICK r : r = IF v.kind # "settings" THEN Resting ELSE [at |-> "saved", values |-> v.values, seen |-> seen]
    OBVIOUS
  <2>6. r \in StateOfWriter
    BY <2>2, <2>5 DEF StateOfWriter, BetweenSaves
  <2>7. writer' = [Became(w, "config") EXCEPT ![w] = r]
    BY <1>7, <2>1, <2>3, <2>4, <2>5, BecameBounded DEF MoveTemp
  <2>8. writer' \in [Writers -> StateOfWriter]
    BY <2>6, <2>7, BecameBounded
  <2>9. lastSet' \in [Setting -> 0..MaxChanges]
    BY <1>7, <2>1, <2>2 DEF MoveTemp, SettingsBounds
  <2>10. overtaken' \subseteq Setting
    BY <1>7 DEF MoveTemp, SettingsBounds
  <2>11. configFile' \in FileType /\ tempFile' \in FileType
    BY <1>7, PlainFiles DEF MoveTemp, SettingsBounds
  <2>12. keyFile' \in 0..MaxKeys /\ keysMade' \in 0..MaxKeys /\ changes' \in 0..MaxChanges
    BY <1>7, Zenon DEF MoveTemp, SettingsBounds
  <2>13. spoiled' \in BOOLEAN
    BY <1>7, Zenon DEF MoveTemp
  <2> QED
    BY <2>8, <2>9, <2>10, <2>11, <2>12, <2>13 DEF SettingsBounds
<1>8. ASSUME NEW w \in Writers, MissTemp(w) \/ EndSettings(w) PROVE SettingsBounds'
  <2>1. writer' = [writer EXCEPT ![w] = Resting] /\ Resting \in StateOfWriter
    BY <1>8 DEF MissTemp, EndSettings, StateOfWriter
  <2>2. UNCHANGED <<configFile, tempFile, keyFile, keysMade, changes, lastSet, overtaken, spoiled>>
    BY <1>8 DEF MissTemp, EndSettings
  <2> QED
    BY <2>1, <2>2 DEF SettingsBounds
<1>9. ASSUME NEW w \in Writers, FailToWrite(w) PROVE SettingsBounds'
  <2>1. writer' \in [Writers -> StateOfWriter]
    BY <1>9, BecameBounded DEF FailToWrite, StateOfWriter
  <2>2. tempFile' \in FileType /\ UNCHANGED <<configFile, keyFile, keysMade, changes, lastSet, overtaken, spoiled>>
    BY <1>9, PlainFiles DEF FailToWrite
  <2> QED
    BY <2>1, <2>2 DEF SettingsBounds
<1>10. ASSUME NEW w \in Writers, SaveMode(w) PROVE SettingsBounds'
  <2>1. PICK v \in BetweenSaves : v = writer[w]
    BY <1>10, HeldByWriter DEF SaveMode
  <2>2. changes + 1 \in 0..MaxChanges /\ changes' \in 0..MaxChanges /\ 0 \in 0..MaxKeys
    BY <1>0, <1>10 DEF SaveMode, SettingsBounds
  <2>3. PICK values \in FileValues : values = WithChange(v.values, {"mode"}, changes + 1)
    BY <2>2, SealedAndOpened DEF BetweenSaves
  <2>4. PICK r : r = [at |-> "loaded", kind |-> "mode", sets |-> {"mode"}, seen |-> v.seen, valid |-> TRUE, values |-> values]
    OBVIOUS
  <2>5. r \in StateOfWriter
    BY <2>4 DEF StateOfWriter, Loader, BetweenSaves, Saver, Setting
  <2>6. writer' = [writer EXCEPT ![w] = r]
    BY <1>10, <2>1, <2>3, <2>4 DEF SaveMode, ModeSettings
  <2>7. UNCHANGED <<configFile, tempFile, keyFile, keysMade, lastSet, overtaken, spoiled>>
    BY <1>10 DEF SaveMode
  <2> QED
    BY <2>2, <2>5, <2>6, <2>7 DEF SettingsBounds
<1>11. ASSUME NEW commandLine \in BOOLEAN, EndProcess(commandLine) PROVE SettingsBounds'
  BY <1>11 DEF EndProcess, SettingsBounds, StateOfWriter
<1> QED
  BY <1>2, <1>3, <1>4, <1>5, <1>6, <1>7, <1>8, <1>9, <1>10, <1>11 DEF SettingsNext

\* The configuration file, the temporary file, the keys and the writers keep their types.
THEOREM SettingsStayTyped == SettingsSpec => []SettingsTypeOK
<1>1. SettingsInit => SettingsBounds
  <2> SUFFICES ASSUME SettingsInit PROVE SettingsBounds
    OBVIOUS
  <2>1. /\ configFile \in FileType /\ tempFile \in FileType
        /\ keyFile \in 0..MaxKeys /\ keysMade \in 0..MaxKeys /\ changes \in 0..MaxChanges
    BY PlainFiles, SettingsAssumption DEF SettingsInit
  <2>2. writer \in [Writers -> StateOfWriter]
    BY DEF SettingsInit, StateOfWriter
  <2>3. lastSet \in [Setting -> 0..MaxChanges] /\ overtaken \subseteq Setting
    BY SettingsAssumption DEF SettingsInit
  <2>4. spoiled \in BOOLEAN
    BY Zenon DEF SettingsInit
  <2> QED
    BY <2>1, <2>2, <2>3, <2>4 DEF SettingsBounds
<1>2. SettingsBounds => SettingsTypeOK
  BY DEF SettingsBounds, SettingsTypeOK, StateOfWriter, Resting, Loader, Scribe, BetweenSaves
<1> QED
  BY <1>1, <1>2, SettingsBoundsStep, PTL DEF SettingsSpec

-----------------------------------------------------------------------------
(* The stores together, as they are checked.                               *)

\* While one component moves the others stay, so that each of them behaves as it is
\* specified.
LEMMA StoresApart ==
  StoresSpec => /\ PromptSpec /\ FeedSpec /\ MemorySpec /\ UsersSpec /\ AuditSpec /\ SettingsSpec
                /\ ProvidersSpec /\ DialogueSpec
<1>1. StoresInit => /\ PromptInit /\ FeedInit /\ MemoryInit /\ UsersInit /\ AuditInit /\ SettingsInit
                    /\ ProvidersInit /\ DialogueInit
  BY Zenon DEF StoresInit
<1>2. [StoresNext]_storesVars =>
        /\ [PromptNext]_promptVars /\ [FeedNext]_feedVars /\ [MemoryNext]_memoryVars
        /\ [UsersNext]_usersVars /\ [AuditNext]_auditVars /\ [SettingsNext]_settingsVars
        /\ [ProvidersNext]_providerVars /\ [DialogueNext]_dialogueVars
  BY Zenon DEF StoresNext, storesVars, storedVars, modelVars, MovePrompts, MoveFeed, MoveMemory, MoveUsers,
               MoveAudit, MoveSettings, MoveProviders, MoveDialogue
<1> QED
  BY <1>1, <1>2, PTL DEF StoresSpec, PromptSpec, FeedSpec, MemorySpec, UsersSpec, AuditSpec, SettingsSpec,
                         ProvidersSpec, DialogueSpec

\* Whatever the stores do, every variable of theirs keeps its type and its bounds.
THEOREM StoresStayTyped == StoresSpec => []StoresTypeOK
<1>1. /\ PromptTypeOK /\ FeedTypeOK /\ MemoryTypeOK /\ UsersTypeOK /\ AuditTypeOK /\ SettingsTypeOK
      /\ ProvidersTypeOK /\ DialogueTypeOK
      => StoresTypeOK
  BY Zenon DEF StoresTypeOK
<1> QED
  BY <1>1, StoresApart, PromptsStayTyped, FeedStaysTyped, MemoryStaysTyped, UsersStayTyped, AuditStaysTyped,
     SettingsStayTyped, ProvidersStayTyped, DialogueStaysTyped, PTL

===============================================================================
