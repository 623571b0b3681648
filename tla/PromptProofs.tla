---------------------------- MODULE PromptProofs ----------------------------
(***************************************************************************)
(* Proofs about prompts and the calls of a model they are for.  About the  *)
(* prompt pipeline (PromptEvolution): what its deployments name is there,  *)
(* whenever the process dies; a candidate that was rejected is not under   *)
(* canary; and no text is overwritten without a copy.  About the calls     *)
(* (Providers, Dialogue): a key goes to its own provider, each call of a   *)
(* tool stands by its result, and an answer is read as it was sent.  They  *)
(* hold for every number of prompts, candidates and reviewers, callpoints, *)
(* providers, rounds, tool calls and pieces.                               *)
(***************************************************************************)
EXTENDS PromptEvolution, Dialogue, FiniteSetTheorems, QueueFacts

\* Candidates are numbered in the order they are written.
Numbered == DOMAIN docs = 1..Cardinality(DOMAIN docs)

\* A state of the pipeline whose deployments resolve and serve no rejected candidate.
Sound(s) ==
  /\ s \in PipelineState /\ Resolvable(s.deploy)
  /\ \A f \in Prompts : s.deploy[f].mode = "canary" => s.status[s.deploy[f].candidate] # "rejected"

PromptInv ==
  /\ PromptTypeOK /\ Numbered
  /\ Sound(pipeline) /\ Sound(stateFile) /\ Resolvable(serving)

-----------------------------------------------------------------------------
\* Nothing that is named goes away.
LEMMA SoundGrows ==
  ASSUME DOMAIN docs \subseteq DOMAIN docs', \A c \in DOMAIN docs : docs'[c] = docs[c],
         \A f \in Prompts : snapshots[f] \subseteq snapshots'[f]
  PROVE  /\ \A deploy : Resolvable(deploy) => Resolvable(deploy)'
         /\ \A s : Sound(s) => Sound(s)'
<1>1. ASSUME NEW deploy, Resolvable(deploy) PROVE Resolvable(deploy)'
  BY <1>1 DEF Resolvable
<1> QED
  BY <1>1 DEF Sound

\* However an operation ends, with the state it wants to save.
LEMMA EndsSound ==
  ASSUME PromptInv, NEW s, Sound(s)', Saved(s) \/ Raised(s) \/ Restarted,
         DOMAIN docs \subseteq DOMAIN docs', \A c \in DOMAIN docs : docs'[c] = docs[c],
         \A f \in Prompts : snapshots[f] \subseteq snapshots'[f]
  PROVE  /\ Sound(pipeline)' /\ Sound(stateFile)' /\ Resolvable(serving)'
         /\ pipeline' \in PipelineState /\ stateFile' \in PipelineState
         /\ serving' \in [Prompts -> Deployment]
<1>1. PICK p, q, v : p = pipeline /\ q = stateFile /\ v = serving
  OBVIOUS
<1>2. /\ Sound(p) /\ Sound(q) /\ Resolvable(v) /\ Resolvable(q.deploy)
      /\ v \in [Prompts -> Deployment] /\ q.deploy \in [Prompts -> Deployment]
  BY <1>1 DEF PromptInv, PromptTypeOK, Sound, PipelineState
<1>3. Sound(p)' /\ Sound(q)' /\ Resolvable(v)' /\ Resolvable(q.deploy)'
  BY <1>2, SoundGrows
<1>4. pipeline' \in {p, q, s} /\ stateFile' \in {q, s} /\ serving' \in {v, q.deploy}
  BY <1>1 DEF Saved, Raised, Restarted
<1>5. Sound(pipeline)' /\ Sound(stateFile)' /\ Resolvable(serving)'
  <2>1. PICK a, b, d : a = pipeline' /\ b = stateFile' /\ d = serving'
    OBVIOUS
  <2>2. Sound(a)' /\ Sound(b)' /\ Resolvable(d)'
    BY <1>3, <1>4, <2>1
  <2> QED
    BY <2>1, <2>2 DEF Sound, Resolvable
<1> QED
  BY <1>2, <1>4, <1>5 DEF Sound

\* An operation that changes no file but state.json.
LEMMA OnlyState ==
  ASSUME PromptInv, NEW s, Sound(s)', Saved(s) \/ Raised(s) \/ Restarted,
         operations' \in 0..MaxOperations, UNCHANGED <<second, text, snapshots, docs>>
  PROVE  PromptInv'
<1>1. /\ Sound(pipeline)' /\ Sound(stateFile)' /\ Resolvable(serving)'
      /\ pipeline' \in PipelineState /\ stateFile' \in PipelineState
      /\ serving' \in [Prompts -> Deployment]
  BY EndsSound
<1> QED
  BY <1>1 DEF PromptInv, PromptTypeOK, Numbered

\* An operation that overwrites a prompt file.
LEMMA OverwriteKeeps ==
  ASSUME PromptInv, NEW f \in Prompts, NEW new \in Text, NEW snaps \in [Prompts -> SUBSET Snapshot],
         \A g \in Prompts : snapshots[g] \subseteq snaps[g],
         NEW s, NEW known \in BOOLEAN, Overwrite(f, new, snaps, s, known),
         snapshots' = snaps => Sound(s)',
         operations' \in 0..MaxOperations, UNCHANGED <<second, docs>>
  PROVE  PromptInv'
<1>1. snapshots' = snaps /\ (text' = text \/ text' = [text EXCEPT ![f] = new])
      /\ (Saved(s) \/ Raised(s) \/ Restarted)
  BY DEF Overwrite
<1>2. /\ Sound(pipeline)' /\ Sound(stateFile)' /\ Resolvable(serving)'
      /\ pipeline' \in PipelineState /\ stateFile' \in PipelineState
      /\ serving' \in [Prompts -> Deployment]
  BY <1>1, EndsSound
<1>3. text' \in [Prompts -> Text]
  BY <1>1 DEF PromptInv, PromptTypeOK
<1> QED
  BY <1>1, <1>2, <1>3 DEF PromptInv, PromptTypeOK, Numbered

\* What an operation begins with.
LEMMA PromptFacts ==
  ASSUME PromptInv
  PROVE  /\ pipeline \in PipelineState /\ Sound(pipeline) /\ Resolvable(pipeline.deploy)
         /\ pipeline.deploy \in [Prompts -> Deployment]
         /\ pipeline.status \in [Candidates -> {"none", "created", "canary", "promoted", "rejected"}]
         /\ text \in [Prompts -> Text] /\ snapshots \in [Prompts -> SUBSET Snapshot]
         /\ \A f \in Prompts : Current(f) \in Snapshot
         /\ \A c \in DOMAIN docs : c \in Candidates /\ docs[c].file \in Prompts /\ docs[c].text \in Text
         /\ Operate => operations' \in 0..MaxOperations
<1>1. pipeline \in PipelineState /\ Sound(pipeline)
  BY DEF PromptInv, PromptTypeOK
<1>2. /\ Resolvable(pipeline.deploy) /\ pipeline.deploy \in [Prompts -> Deployment]
      /\ pipeline.status \in [Candidates -> {"none", "created", "canary", "promoted", "rejected"}]
  BY <1>1 DEF Sound, PipelineState
<1>3. text \in [Prompts -> Text] /\ snapshots \in [Prompts -> SUBSET Snapshot]
      /\ \A f \in Prompts : Current(f) \in Snapshot
  BY DEF PromptInv, PromptTypeOK, Current, Snapshot
<1>4. \A c \in DOMAIN docs : c \in Candidates /\ docs[c].file \in Prompts /\ docs[c].text \in Text
  BY DEF PromptInv, PromptTypeOK
<1>5. Operate => operations' \in 0..MaxOperations
  BY PromptAssumption DEF PromptInv, PromptTypeOK, Operate
<1> QED
  BY <1>1, <1>2, <1>3, <1>4, <1>5

-----------------------------------------------------------------------------
LEMMA PromptStart == PromptInit => PromptInv
<1> SUFFICES ASSUME PromptInit PROVE PromptInv
  OBVIOUS
<1>1. NoDeployment \in Deployment /\ NoDraft \in Draft /\ NoDeployment.mode = "none"
  BY PromptAssumption DEF NoDeployment, Deployment, NoSnapshot, Snapshot, NoCandidate, Factory, Text, NoDraft, Draft
<1>2. docs = <<>> /\ DOMAIN docs = {}
  BY DEF PromptInit
<1>3. Cardinality(DOMAIN docs) = 0
  BY <1>2, FS_EmptySet
<1>4. /\ second = 0 /\ operations = 0 /\ text = [f \in Prompts |-> Factory] /\ snapshots = [f \in Prompts |-> {}]
      /\ pipeline.deploy = [f \in Prompts |-> NoDeployment]
      /\ stateFile = pipeline /\ serving = pipeline.deploy
  BY DEF PromptInit
<1>5. pipeline \in PipelineState
  BY <1>1 DEF PromptInit, PipelineState
<1>6. PromptTypeOK
  BY <1>1, <1>2, <1>4, <1>5, PromptAssumption DEF PromptTypeOK, Factory, Text
<1>7. Resolvable(pipeline.deploy) /\ Sound(pipeline)
  BY <1>1, <1>4, <1>5 DEF Resolvable, Sound
<1> QED
  BY <1>2, <1>3, <1>4, <1>6, <1>7 DEF PromptInv, Numbered

LEMMA GenerateKeeps ==
  ASSUME PromptInv, NEW f \in Prompts, Generate(f)
  PROVE  PromptInv'
<1>1. PICK c \in Candidates : c = Cardinality(DOMAIN docs) + 1
  BY DEF Generate
<1>2. PICK s : s = [pipeline EXCEPT !.status[c] = "created"]
  OBVIOUS
<1>3. /\ docs' = WithEntry(docs, c, [file |-> f, text |-> text[f] \cup {c}])
      /\ (Saved(s) \/ Restarted) /\ UNCHANGED <<second, text, snapshots>> /\ Operate
  BY <1>1, <1>2 DEF Generate
<1>4. Cardinality(DOMAIN docs) \in Nat /\ DOMAIN docs = 1..(c - 1) /\ c \in Nat /\ c >= 1
  <2>1. IsFiniteSet(Candidates)
    BY FS_Interval, PromptAssumption DEF Candidates
  <2>2. IsFiniteSet(DOMAIN docs)
    BY <2>1, FS_Subset DEF PromptInv, PromptTypeOK
  <2> QED
    BY <1>1, <2>2, FS_CardinalityType DEF PromptInv, Numbered
<1>5. c \notin DOMAIN docs /\ DOMAIN docs' = 1..c
  <2>1. DOMAIN docs' = DOMAIN docs \cup {c}
    BY <1>3 DEF WithEntry
  <2>2. (1..(c - 1)) \cup {c} = 1..c /\ c \notin 1..(c - 1)
    BY <1>4
  <2> QED
    BY <1>4, <2>1, <2>2
<1>6. Cardinality(DOMAIN docs') = c
  BY <1>4, <1>5, FS_Interval
<1>7. \A d \in DOMAIN docs : d \in DOMAIN docs' /\ docs'[d] = docs[d]
  BY <1>3, <1>5 DEF WithEntry
<1>8. DOMAIN docs' \subseteq Candidates /\ \A d \in DOMAIN docs' : docs'[d] \in [file : Prompts, text : Text]
  <2>1. text[f] \cup {c} \in Text
    BY PromptFacts DEF Text
  <2>2. \A d \in DOMAIN docs : d \in Candidates /\ docs[d] \in [file : Prompts, text : Text]
    BY DEF PromptInv, PromptTypeOK
  <2> QED
    BY <1>3, <2>1, <2>2 DEF WithEntry
<1>9. s \in PipelineState /\ s.deploy = pipeline.deploy
      /\ \A d \in Candidates : s.status[d] = IF d = c THEN "created" ELSE pipeline.status[d]
  BY <1>2, PromptFacts DEF PipelineState
<1>10. Sound(s)'
  <2>1. Sound(s)
    BY <1>9, PromptFacts DEF Sound, Resolvable
  <2> QED
    BY <1>3, <1>7, <2>1, SoundGrows
<1>11. /\ Sound(pipeline)' /\ Sound(stateFile)' /\ Resolvable(serving)'
       /\ pipeline' \in PipelineState /\ stateFile' \in PipelineState
       /\ serving' \in [Prompts -> Deployment]
  BY <1>3, <1>7, <1>10, EndsSound
<1> QED
  BY <1>3, <1>5, <1>6, <1>8, <1>11, PromptFacts DEF PromptInv, PromptTypeOK, Numbered

LEMMA CanaryReleaseKeeps ==
  ASSUME PromptInv, NEW c \in DOMAIN docs, CanaryRelease(c)
  PROVE  PromptInv'
<1>1. PICK f \in Prompts : f = docs[c].file
  BY PromptFacts
<1>2. PICK canary : canary = [mode |-> "canary", candidate |-> c, previous |-> NoSnapshot]
  OBVIOUS
<1>3. PICK s, t : s = [pipeline EXCEPT !.deploy[f] = canary] /\ t = [s EXCEPT !.status[c] = "canary"]
  OBVIOUS
<1>4. (IF Listed(c) THEN Saved(t) ELSE Raised(s)) /\ UNCHANGED <<second, text, snapshots, docs>> /\ Operate
  BY <1>1, <1>2, <1>3 DEF CanaryRelease
<1>5. c \in Candidates /\ canary \in Deployment
  BY <1>2, PromptFacts, PromptAssumption DEF Deployment, NoSnapshot, Snapshot, Factory, Text
<1>6. /\ s \in PipelineState /\ t \in PipelineState
      /\ s.status = pipeline.status /\ t.deploy = s.deploy
      /\ \A g \in Prompts : s.deploy[g] = IF g = f THEN canary ELSE pipeline.deploy[g]
      /\ \A d \in Candidates : t.status[d] = IF d = c THEN "canary" ELSE s.status[d]
  <2>1. s \in PipelineState /\ s.status = pipeline.status
        /\ \A g \in Prompts : s.deploy[g] = IF g = f THEN canary ELSE pipeline.deploy[g]
    BY <1>3, <1>5, PromptFacts DEF PipelineState
  <2>2. t \in PipelineState /\ t.deploy = s.deploy
        /\ \A d \in Candidates : t.status[d] = IF d = c THEN "canary" ELSE s.status[d]
    BY <1>3, <1>5, <2>1 DEF PipelineState
  <2> QED
    BY <2>1, <2>2
<1>7. Resolvable(s.deploy) /\ Resolvable(t.deploy)
  BY <1>1, <1>2, <1>6, PromptFacts DEF Resolvable
<1>8. Listed(c) => Sound(t)
  BY <1>2, <1>5, <1>6, <1>7, PromptFacts DEF Sound, Resolvable
<1>9. ~Listed(c) => Sound(s)
  BY <1>2, <1>5, <1>6, <1>7, PromptFacts DEF Sound, Resolvable, Listed
<1>10. \A r : Sound(r) => Sound(r)'
  BY <1>4, SoundGrows
<1> QED
  BY <1>4, <1>8, <1>9, <1>10, OnlyState, PromptFacts

\* A copy of the text as it is is taken first.
LEMMA SnapshotFacts ==
  ASSUME PromptInv, NEW f \in Prompts
  PROVE  /\ WithSnapshot(f) \in [Prompts -> SUBSET Snapshot]
         /\ \A g \in Prompts : snapshots[g] \subseteq WithSnapshot(f)[g]
         /\ Current(f) \in WithSnapshot(f)[f]
BY PromptFacts DEF WithSnapshot

LEMMA PromoteKeeps ==
  ASSUME PromptInv, NEW c \in DOMAIN docs, Promote(c)
  PROVE  PromptInv'
<1>1. PICK f \in Prompts : f = docs[c].file
  BY PromptFacts
<1>2. PICK s, snaps, new, known : s = Promoted(pipeline, f, c) /\ snaps = WithSnapshot(f)
                                  /\ new = docs[c].text /\ known = Listed(c)
  OBVIOUS
<1>3. Overwrite(f, new, snaps, s, known) /\ UNCHANGED <<second, docs>> /\ Operate
  BY <1>1, <1>2 DEF Promote
<1>4. PICK d, e : /\ d = [mode |-> "promoted", candidate |-> c, previous |-> Current(f)]
                  /\ e = IF pipeline.status[c] = "none" THEN "none" ELSE "promoted"
  OBVIOUS
<1>5. c \in Candidates /\ d \in Deployment /\ new \in Text /\ known \in BOOLEAN
  BY <1>1, <1>2, <1>4, PromptFacts DEF Deployment, Listed
<1>6. snaps \in [Prompts -> SUBSET Snapshot] /\ (\A g \in Prompts : snapshots[g] \subseteq snaps[g])
      /\ Current(f) \in snaps[f]
  BY <1>2, SnapshotFacts
<1>7. /\ s \in PipelineState
      /\ \A g \in Prompts : s.deploy[g] = IF g = f THEN d ELSE pipeline.deploy[g]
      /\ \A x \in Candidates : s.status[x] = IF x = c THEN e ELSE pipeline.status[x]
  <2>1. s = [[pipeline EXCEPT !.deploy[f] = d] EXCEPT !.status[c] = e]
    BY <1>2, <1>4, <1>5, PromptFacts DEF Promoted, PipelineState
  <2>2. PICK r : r = [pipeline EXCEPT !.deploy[f] = d]
    OBVIOUS
  <2>3. r \in PipelineState /\ r.status = pipeline.status
        /\ \A g \in Prompts : r.deploy[g] = IF g = f THEN d ELSE pipeline.deploy[g]
    BY <1>5, <2>2, PromptFacts DEF PipelineState
  <2> QED
    BY <1>4, <1>5, <2>1, <2>2, <2>3 DEF PipelineState
<1>8. ASSUME snapshots' = snaps PROVE Sound(s)'
  <2>1. Resolvable(pipeline.deploy)
    BY PromptFacts
  <2>2. \A g \in Prompts :
          /\ s.deploy[g].mode \in {"canary", "promoted"} =>
               s.deploy[g].candidate \in DOMAIN docs' /\ docs'[s.deploy[g].candidate].file = g
          /\ s.deploy[g].mode = "promoted" => s.deploy[g].previous \in snapshots'[g]
    BY <1>1, <1>3, <1>4, <1>6, <1>7, <1>8, <2>1 DEF Resolvable
  <2>3. \A g \in Prompts : s.deploy[g].mode = "canary" => s.status[s.deploy[g].candidate] # "rejected"
    BY <1>4, <1>5, <1>7, <2>1, PromptFacts DEF Sound, Resolvable
  <2> QED
    BY <1>7, <2>2, <2>3 DEF Sound, Resolvable
<1> QED
  BY <1>3, <1>5, <1>6, <1>8, OverwriteKeeps, PromptFacts

\* A change of mode that does not deploy anything.
LEMMA ModeSound ==
  ASSUME PromptInv, NEW f \in Prompts, NEW mode \in {"rolled_back", "factory_reset"}
  PROVE  Sound(InMode(pipeline, f, mode))
<1>1. PICK s, d : s = InMode(pipeline, f, mode) /\ d = [pipeline.deploy[f] EXCEPT !.mode = mode]
  OBVIOUS
<1>2. Sound(pipeline) /\ pipeline \in PipelineState /\ pipeline.deploy \in [Prompts -> Deployment]
  BY PromptFacts
<1>3. CASE pipeline.deploy[f] = NoDeployment
  BY <1>2, <1>3 DEF InMode
<1>4. CASE pipeline.deploy[f] # NoDeployment
  <2>1. d \in Deployment /\ d.mode = mode
    BY <1>1, <1>2 DEF Deployment
  <2>2. s = [pipeline EXCEPT !.deploy[f] = d]
    BY <1>1, <1>2, <1>4 DEF InMode, PipelineState
  <2>3. s \in PipelineState /\ s.status = pipeline.status
        /\ \A g \in Prompts : s.deploy[g] = IF g = f THEN d ELSE pipeline.deploy[g]
    BY <1>2, <2>1, <2>2 DEF PipelineState
  <2>4. Resolvable(s.deploy)
    BY <1>2, <2>1, <2>3 DEF Sound, Resolvable
  <2> QED
    BY <1>1, <1>2, <2>1, <2>3, <2>4 DEF Sound
<1> QED
  BY <1>3, <1>4

LEMMA RollBackKeeps ==
  ASSUME PromptInv, NEW f \in Prompts, RollBack(f)
  PROVE  PromptInv'
<1>1. PICK s : s = InMode(pipeline, f, "rolled_back")
  OBVIOUS
<1>2. PICK v \in snapshots[f] : Overwrite(f, v.text, snapshots, s, TRUE)
  BY <1>1 DEF RollBack
<1>3. PICK snaps \in [Prompts -> SUBSET Snapshot] : snaps = snapshots
  BY PromptFacts
<1>4. v.text \in Text /\ UNCHANGED <<second, docs>> /\ Operate
  BY <1>2, PromptFacts DEF RollBack, Snapshot
<1>5. Sound(s)
  BY <1>1, ModeSound
<1>6. snapshots' = snaps => Sound(s)'
  BY <1>3, <1>4, <1>5, SoundGrows
<1> QED
  BY <1>2, <1>3, <1>4, <1>6, OverwriteKeeps, PromptFacts

LEMMA FactoryResetKeeps ==
  ASSUME PromptInv, NEW f \in Prompts, FactoryReset(f)
  PROVE  PromptInv'
<1>1. PICK s, snaps : s = InMode(pipeline, f, "factory_reset") /\ snaps = WithSnapshot(f)
  OBVIOUS
<1>2. Overwrite(f, Factory, snaps, s, TRUE) /\ UNCHANGED <<second, docs>> /\ Operate /\ Factory \in Text
  BY <1>1 DEF FactoryReset, Factory, Text
<1>3. snaps \in [Prompts -> SUBSET Snapshot] /\ \A g \in Prompts : snapshots[g] \subseteq snaps[g]
  BY <1>1, SnapshotFacts
<1>4. Sound(s)
  BY <1>1, ModeSound
<1>5. snapshots' = snaps => Sound(s)'
  BY <1>2, <1>3, <1>4, SoundGrows
<1> QED
  BY <1>2, <1>3, <1>5, OverwriteKeeps, PromptFacts

\* What is counted and reviewed changes no deployment and no status.
LEMMA CountsSound ==
  ASSUME PromptInv, NEW s \in PipelineState, s.deploy = pipeline.deploy, s.status = pipeline.status
  PROVE  Sound(s)
BY PromptFacts DEF Sound

LEMMA IngestKeeps ==
  ASSUME PromptInv, NEW success \in BOOLEAN, Ingest(success)
  PROVE  PromptInv'
<1>1. PICK C : Saved([pipeline EXCEPT
        !.calls     = [c \in Candidates |-> @[c] + IF c \in C THEN 1 ELSE 0],
        !.successes = [c \in Candidates |-> @[c] + IF c \in C /\ success THEN 1 ELSE 0]])
  BY DEF Ingest
<1>2. PICK m, n : /\ m = [c \in Candidates |-> pipeline.calls[c] + IF c \in C THEN 1 ELSE 0]
                  /\ n = [c \in Candidates |-> pipeline.successes[c] + IF c \in C /\ success THEN 1 ELSE 0]
  OBVIOUS
<1>3. PICK s : s = [pipeline EXCEPT !.calls = m, !.successes = n]
  OBVIOUS
<1>4. m \in [Candidates -> Nat] /\ n \in [Candidates -> Nat]
  BY <1>2, PromptFacts DEF PipelineState
<1>5. s \in PipelineState /\ s.deploy = pipeline.deploy /\ s.status = pipeline.status
  BY <1>3, <1>4, PromptFacts DEF PipelineState
<1>6. UNCHANGED <<second, text, snapshots, docs>> /\ Operate /\ Saved(s)
  BY <1>1, <1>2, <1>3 DEF Ingest
<1>7. Sound(s)'
  BY <1>5, <1>6, CountsSound, SoundGrows
<1> QED
  BY <1>6, <1>7, OnlyState, PromptFacts

LEMMA SaveDraftKeeps ==
  ASSUME PromptInv, NEW c \in DOMAIN docs, NEW r \in Reviewers, SaveDraft(c, r)
  PROVE  PromptInv'
<1>1. PICK yes \in SUBSET Hunks(c) : \E no \in SUBSET (Hunks(c) \ yes) :
        Saved([pipeline EXCEPT !.drafts[c][r] = [accepted |-> yes, rejected |-> no]])
  BY DEF SaveDraft
<1>2. PICK no \in SUBSET (Hunks(c) \ yes) :
        Saved([pipeline EXCEPT !.drafts[c][r] = [accepted |-> yes, rejected |-> no]])
  BY <1>1
<1>3. Hunks(c) \subseteq Candidates
  <2>1. Changed(c) \subseteq Candidates /\ IsFiniteSet(Candidates) /\ Cardinality(Candidates) = NumCandidates
    <3>1. Changed(c) \subseteq Candidates
      BY PromptFacts DEF Changed, Text
    <3>2. IsFiniteSet(1..NumCandidates) /\ Cardinality(1..NumCandidates) = NumCandidates
      BY PromptAssumption, FS_Interval
    <3> QED
      BY <3>1, <3>2 DEF Candidates
  <2>2. Cardinality(Changed(c)) <= NumCandidates /\ Cardinality(Changed(c)) \in Nat
    BY <2>1, FS_Subset, FS_CardinalityType
  <2> QED
    BY <2>2, PromptAssumption DEF Hunks, Candidates
<1>4. PICK draft \in Draft : draft = [accepted |-> yes, rejected |-> no]
  BY <1>3 DEF Draft
<1>5. PICK of, s : of = [pipeline.drafts[c] EXCEPT ![r] = draft] /\ s = [pipeline EXCEPT !.drafts[c] = of]
  OBVIOUS
<1>6. s = [pipeline EXCEPT !.drafts[c][r] = draft]
  BY <1>5
<1>7. c \in Candidates /\ of \in [Reviewers -> Draft]
  BY <1>5, PromptFacts DEF PipelineState
<1>8. s \in PipelineState /\ s.deploy = pipeline.deploy /\ s.status = pipeline.status
  BY <1>5, <1>7, PromptFacts DEF PipelineState
<1>9. UNCHANGED <<second, text, snapshots, docs>> /\ Operate /\ Saved(s)
  BY <1>2, <1>4, <1>6 DEF SaveDraft
<1>10. Sound(s)'
  BY <1>8, <1>9, CountsSound, SoundGrows
<1> QED
  BY <1>9, <1>10, OnlyState, PromptFacts

LEMMA ClearDraftsKeeps ==
  ASSUME PromptInv, NEW c \in DOMAIN docs, NEW R \in SUBSET Reviewers, ClearDrafts(c, R)
  PROVE  PromptInv'
<1>1. PICK of, s : /\ of = [r \in Reviewers |-> IF r \in R THEN NoDraft ELSE pipeline.drafts[c][r]]
                   /\ s = [pipeline EXCEPT !.drafts[c] = of]
  OBVIOUS
<1>2. c \in Candidates /\ of \in [Reviewers -> Draft]
  BY <1>1, PromptFacts DEF PipelineState, NoDraft, Draft
<1>3. s \in PipelineState /\ s.deploy = pipeline.deploy /\ s.status = pipeline.status
  BY <1>1, <1>2, PromptFacts DEF PipelineState
<1>4. UNCHANGED <<second, text, snapshots, docs>> /\ Operate /\ Saved(s)
  BY <1>1 DEF ClearDrafts
<1>5. Sound(s)'
  BY <1>3, <1>4, CountsSound, SoundGrows
<1> QED
  BY <1>4, <1>5, OnlyState, PromptFacts

LEMMA ApplyKeeps ==
  ASSUME PromptInv, NEW c \in DOMAIN docs, ApplyConclusion(c)
  PROVE  PromptInv'
<1>1. PICK f \in Prompts : f = docs[c].file
  BY PromptFacts
<1>2. PICK accepted : accepted = Accepted(c, 1)
  OBVIOUS
<1>3. PICK new \in Text :
        new = {x \in Candidates :
                 IF x \in {y \in Changed(c) : HunkOf(c, y) \in accepted} THEN x \in docs[c].text ELSE x \in text[f]}
  BY DEF Text
<1>4. PICK of, s, snaps : /\ of = [r \in Reviewers |-> NoDraft]
                          /\ s = [pipeline EXCEPT !.drafts[c] = of]
                          /\ snaps = WithSnapshot(f)
  OBVIOUS
<1>5. Overwrite(f, new, snaps, s, TRUE) /\ UNCHANGED <<second, docs>> /\ Operate
  BY <1>1, <1>2, <1>3, <1>4 DEF ApplyConclusion, ApplyHunks
<1>6. c \in Candidates /\ of \in [Reviewers -> Draft]
  BY <1>4, PromptFacts DEF NoDraft, Draft
<1>7. s \in PipelineState /\ s.deploy = pipeline.deploy /\ s.status = pipeline.status
  BY <1>4, <1>6, PromptFacts DEF PipelineState
<1>8. snaps \in [Prompts -> SUBSET Snapshot] /\ \A g \in Prompts : snapshots[g] \subseteq snaps[g]
  BY <1>4, SnapshotFacts
<1>9. snapshots' = snaps => Sound(s)'
  BY <1>5, <1>7, <1>8, CountsSound, SoundGrows
<1> QED
  BY <1>5, <1>8, <1>9, OverwriteKeeps, PromptFacts

\* A candidate is under canary for its own file only, so that what becomes of it is
\* decided once.
LEMMA AutoDecideKeeps ==
  ASSUME PromptInv, AutoDecide
  PROVE  PromptInv'
<1> DEFINE bad  == {f \in Prompts : Decision(f) = "rollback"}
           good == {f \in Prompts : Decision(f) = "promote"}
<1>6. PICK v \in [{f \in bad : snapshots[f] # {}} -> Snapshot] :
        text' = [f \in Prompts |-> CASE f \in good     -> docs[pipeline.deploy[f].candidate].text
                                     [] f \in DOMAIN v -> v[f].text
                                     [] OTHER          -> text[f]]
  BY DEF AutoDecide
<1>7. /\ snapshots' = [f \in Prompts |-> snapshots[f] \cup IF f \in good THEN {Current(f)} ELSE {}]
      /\ UNCHANGED <<second, docs>> /\ Operate
  BY DEF AutoDecide
<1>0. Saved([pipeline EXCEPT
        !.deploy = [f \in Prompts |->
          CASE f \in good -> [mode |-> "promoted", candidate |-> pipeline.deploy[f].candidate,
                              previous |-> Current(f)]
            [] f \in bad  -> AfterBadCanary(f)
            [] OTHER      -> pipeline.deploy[f]],
        !.status = [c \in Candidates |->
          CASE \E f \in good : pipeline.deploy[f].candidate = c -> "promoted"
            [] \E f \in bad  : pipeline.deploy[f].candidate = c -> "rejected"
            [] OTHER                                            -> pipeline.status[c]]])
  BY DEF AutoDecide
<1>1. /\ bad \in SUBSET Prompts /\ good \in SUBSET Prompts
      /\ \A f \in Prompts : (f \in bad <=> Decision(f) = "rollback") /\ (f \in good <=> Decision(f) = "promote")
  OBVIOUS
<1> HIDE DEF bad, good
<1>2. PICK cand, cur : /\ cand = [f \in Prompts |-> pipeline.deploy[f].candidate]
                       /\ cur = [f \in Prompts |-> Current(f)]
  OBVIOUS
<1>3. PICK dep : dep = [f \in Prompts |->
        CASE f \in good -> [mode |-> "promoted", candidate |-> cand[f], previous |-> cur[f]]
          [] f \in bad  -> AfterBadCanary(f)
          [] OTHER      -> pipeline.deploy[f]]
  OBVIOUS
<1>4. PICK st : st = [c \in Candidates |->
        CASE \E f \in good : cand[f] = c -> "promoted"
          [] \E f \in bad  : cand[f] = c -> "rejected"
          [] OTHER                       -> pipeline.status[c]]
  OBVIOUS
<1>5. PICK s : s = [pipeline EXCEPT !.deploy = dep, !.status = st]
  OBVIOUS
<1>8. Saved(s)
  <2>1. dep = [f \in Prompts |->
          CASE f \in good -> [mode |-> "promoted", candidate |-> pipeline.deploy[f].candidate,
                              previous |-> Current(f)]
            [] f \in bad  -> AfterBadCanary(f)
            [] OTHER      -> pipeline.deploy[f]]
    BY <1>2, <1>3
  <2>2. st = [c \in Candidates |->
          CASE \E f \in good : pipeline.deploy[f].candidate = c -> "promoted"
            [] \E f \in bad  : pipeline.deploy[f].candidate = c -> "rejected"
            [] OTHER                                            -> pipeline.status[c]]
    BY <1>1, <1>2, <1>4
  <2> QED
    BY <1>0, <1>5, <2>1, <2>2
<1>9. /\ \A f \in bad \cup good : pipeline.deploy[f].mode = "canary" /\ cand[f] \in DOMAIN docs /\ docs[cand[f]].file = f
      /\ \A f \in Prompts : ~(f \in bad /\ f \in good)
  <2>1. \A f \in Prompts : Decision(f) \in {"rollback", "promote"} => pipeline.deploy[f].mode = "canary"
    BY DEF Decision
  <2>2. Resolvable(pipeline.deploy)
    BY PromptFacts
  <2> QED
    BY <1>1, <1>2, <2>1, <2>2 DEF Resolvable
<1>10. /\ \A f \in good : /\ dep[f].mode = "promoted" /\ dep[f].candidate = cand[f]
                          /\ dep[f].previous = Current(f) /\ dep[f] \in Deployment
       /\ \A f \in bad : dep[f] \in Deployment /\ dep[f].mode \in {"none", "rolled_back"}
       /\ \A f \in Prompts \ (bad \cup good) : dep[f] = pipeline.deploy[f]
  <2>1. \A f \in bad : AfterBadCanary(f) \in Deployment /\ AfterBadCanary(f).mode \in {"none", "rolled_back"}
    <3>1. NoDeployment \in Deployment /\ NoDeployment.mode = "none"
      BY PromptAssumption DEF NoDeployment, Deployment, NoSnapshot, Snapshot, NoCandidate, Factory, Text
    <3>2. \A d \in Deployment : [d EXCEPT !.mode = "rolled_back"] \in Deployment
                                /\ [d EXCEPT !.mode = "rolled_back"].mode = "rolled_back"
      BY DEF Deployment
    <3> QED
      BY <1>1, <3>1, <3>2, PromptFacts DEF AfterBadCanary
  <2>2. \A f \in bad : dep[f] = AfterBadCanary(f)
    BY <1>1, <1>3, <1>9
  <2>3. ASSUME NEW f \in good
        PROVE  /\ dep[f].mode = "promoted" /\ dep[f].candidate = cand[f]
               /\ dep[f].previous = Current(f) /\ dep[f] \in Deployment
    <3>1. dep[f] = [mode |-> "promoted", candidate |-> cand[f], previous |-> cur[f]]
      BY <1>1, <1>3, <1>9
    <3>2. cand[f] \in Candidates /\ cur[f] = Current(f) /\ Current(f) \in Snapshot
      BY <1>1, <1>2, <1>9, PromptFacts
    <3> QED
      BY <3>1, <3>2 DEF Deployment
  <2>4. \A f \in Prompts \ (bad \cup good) : dep[f] = pipeline.deploy[f]
    BY <1>3
  <2> QED
    BY <2>1, <2>2, <2>3, <2>4
<1>11. dep \in [Prompts -> Deployment]
  <2>1. \A f \in Prompts : dep[f] \in Deployment
    BY <1>10, PromptFacts
  <2>2. dep = [f \in Prompts |-> dep[f]]
    BY <1>3
  <2> QED
    BY <2>1, <2>2
<1>12. st \in [Candidates -> {"none", "created", "canary", "promoted", "rejected"}]
       /\ \A c \in Candidates : (\A f \in bad \cup good : cand[f] # c) => st[c] = pipeline.status[c]
  <2>1. \A c \in Candidates : st[c] \in {"none", "created", "canary", "promoted", "rejected"}
    BY <1>4, PromptFacts
  <2>2. st = [c \in Candidates |-> st[c]]
    BY <1>4
  <2>3. \A c \in Candidates : (\A f \in bad \cup good : cand[f] # c) => st[c] = pipeline.status[c]
    BY <1>4
  <2> QED
    BY <2>1, <2>2, <2>3
<1>13. s \in PipelineState /\ s.deploy = dep /\ s.status = st
  BY <1>5, <1>11, <1>12, PromptFacts DEF PipelineState
<1>14. /\ snapshots' \in [Prompts -> SUBSET Snapshot]
       /\ \A f \in Prompts : snapshots[f] \subseteq snapshots'[f]
       /\ \A f \in good : Current(f) \in snapshots'[f]
  BY <1>1, <1>7, PromptFacts
<1>15. text' \in [Prompts -> Text]
  <2>1. \A f \in good : docs[pipeline.deploy[f].candidate].text \in Text
    BY <1>1, <1>2, <1>9, PromptFacts
  <2>2. \A f \in DOMAIN v : v[f].text \in Text
    BY DEF Snapshot
  <2>3. \A f \in Prompts : text[f] \in Text
    BY PromptFacts
  <2> QED
    BY <1>6, <2>1, <2>2, <2>3
<1>16. Sound(s)'
  <2>1. ASSUME NEW g \in Prompts
        PROVE  /\ dep[g].mode \in {"canary", "promoted"} =>
                    dep[g].candidate \in DOMAIN docs /\ docs[dep[g].candidate].file = g
               /\ dep[g].mode = "promoted" => dep[g].previous \in snapshots'[g]
               /\ dep[g].mode = "canary" => st[dep[g].candidate] # "rejected"
    <3>1. CASE g \in good
      <4>1. dep[g].mode = "promoted" /\ dep[g].candidate = cand[g] /\ dep[g].previous = Current(g)
        BY <1>10, <3>1
      <4> QED
        BY <1>9, <1>14, <3>1, <4>1
    <3>2. CASE g \in bad
      BY <1>10, <3>2
    <3>3. CASE g \notin bad \cup good
      <4>1. Sound(pipeline) /\ Resolvable(pipeline.deploy) /\ dep[g] = pipeline.deploy[g]
        BY <1>10, <3>3, PromptFacts
      <4>2. ASSUME dep[g].mode = "canary" PROVE st[dep[g].candidate] # "rejected"
        <5>1. dep[g].candidate \in DOMAIN docs /\ docs[dep[g].candidate].file = g
          BY <4>1, <4>2 DEF Resolvable
        <5>2. \A f \in bad \cup good : cand[f] # dep[g].candidate
          BY <1>9, <3>3, <5>1
        <5>3. st[dep[g].candidate] = pipeline.status[dep[g].candidate]
          BY <1>12, <5>1, <5>2, PromptFacts
        <5> QED
          BY <4>1, <4>2, <5>3 DEF Sound
      <4> QED
        BY <1>14, <4>1, <4>2 DEF Resolvable
    <3> QED
      BY <3>1, <3>2, <3>3
  <2>2. docs' = docs
    BY <1>7
  <2> QED
    BY <1>13, <2>1, <2>2 DEF Sound, Resolvable
<1>17. /\ Sound(pipeline)' /\ Sound(stateFile)' /\ Resolvable(serving)'
       /\ pipeline' \in PipelineState /\ stateFile' \in PipelineState
       /\ serving' \in [Prompts -> Deployment]
  BY <1>7, <1>8, <1>14, <1>16, EndsSound
<1> QED
  BY <1>7, <1>14, <1>15, <1>17, PromptFacts DEF PromptInv, PromptTypeOK, Numbered

LEMMA PromptStep == PromptInv /\ [PromptNext]_promptVars => PromptInv'
<1> SUFFICES ASSUME PromptInv, [PromptNext]_promptVars PROVE PromptInv'
  OBVIOUS
<1>1. CASE UNCHANGED promptVars
  BY <1>1 DEF promptVars, PromptInv, PromptTypeOK, Numbered, Sound, Resolvable
<1>2. CASE NextSecond
  <2>1. UNCHANGED <<text, snapshots, docs, pipeline, stateFile, serving, operations>>
        /\ second' \in 0..MaxSeconds
    BY <1>2, PromptAssumption DEF NextSecond, PromptInv, PromptTypeOK
  <2> QED
    BY <2>1 DEF PromptInv, PromptTypeOK, Numbered, Sound, Resolvable
<1>3. CASE RestartPipeline
  <2>1. PICK s : s = stateFile
    OBVIOUS
  <2>2. Sound(s) /\ Restarted /\ UNCHANGED <<second, text, snapshots, docs, operations>>
    BY <1>3, <2>1 DEF PromptInv, RestartPipeline
  <2>3. Sound(s)' /\ operations' \in 0..MaxOperations
    BY <2>2, SoundGrows DEF PromptInv, PromptTypeOK
  <2> QED
    BY <2>2, <2>3, OnlyState
<1>4. ASSUME NEW c \in DOMAIN docs, NEW r \in Reviewers, SaveDraft(c, r) \/ ClearDrafts(c, {r})
      PROVE  PromptInv'
  BY <1>4, SaveDraftKeeps, ClearDraftsKeeps
<1>5. ASSUME NEW c \in DOMAIN docs, ClearDrafts(c, Reviewers) PROVE PromptInv'
  BY <1>5, ClearDraftsKeeps
<1> QED
  BY <1>1, <1>2, <1>3, <1>4, <1>5, GenerateKeeps, RollBackKeeps, FactoryResetKeeps, CanaryReleaseKeeps,
     PromoteKeeps, ApplyKeeps, IngestKeeps, AutoDecideKeeps DEF PromptNext

\* The invariant of the pipeline.
LEMMA PipelineStaysSound == PromptSpec => []PromptInv
BY PromptStart, PromptStep, PTL DEF PromptSpec

-----------------------------------------------------------------------------
\* Whenever the process dies within an operation of PromptEvolutionPipeline
\* (crabclaw/agent/prompt_evolution.py), the candidates that the deployments of both
\* instances and of state.json name can be loaded, and the snapshots restored.
THEOREM DeploymentsStayResolvable == PromptSpec => []DeploymentsResolve
<1>1. PromptInv => DeploymentsResolve
  BY DEF PromptInv, DeploymentsResolve, Sound
<1> QED
  BY <1>1, PipelineStaysSound, PTL

\* No decision, release, promotion or crash leaves a rejected candidate under canary.
THEOREM RejectedStaysOff == PromptSpec => []RejectedIsNotServed
<1>1. PromptInv => RejectedIsNotServed
  BY DEF PromptInv, RejectedIsNotServed, Sound, UnderCanary
<1> QED
  BY <1>1, PipelineStaysSound, PTL

\* A file that an operation overwrites with one text was copied, or the text is a copy.
LEMMA OverwriteCopies ==
  ASSUME PromptInv, NEW f \in Prompts, NEW new, NEW snaps, NEW s, NEW known,
         Overwrite(f, new, snaps, s, known),
         Current(f) \in snaps[f] \/ \E v \in snapshots[f] : new = v.text
  PROVE  \A g \in Prompts : text'[g] # text[g] =>
           Current(g) \in snapshots'[g] \/ \E v \in snapshots[g] : text'[g] = v.text
<1>1. snapshots' = snaps /\ (text' = text \/ text' = [text EXCEPT ![f] = new])
  BY DEF Overwrite
<1>2. text'[f] = text[f] \/ text'[f] = new
  BY <1>1, PromptFacts
<1>3. \A g \in Prompts \ {f} : text'[g] = text[g]
  BY <1>1, PromptFacts
<1> QED
  BY <1>1, <1>2, <1>3

\* A text of a prompt file that is overwritten by a promotion, an automatic decision,
\* a reset or an application of hunks was copied to the file's snapshots first; one
\* overwritten by a roll-back gives way to such a copy.
THEOREM OverwrittenTextStays == PromptSpec => OverwrittenTextIsKept
<1> DEFINE Kept(f) == Current(f) \in snapshots'[f] \/ \E v \in snapshots[f] : text'[f] = v.text
<1>1. ASSUME PromptInv, [PromptNext]_promptVars, NEW f \in Prompts, text'[f] # text[f]
      PROVE  Kept(f)
  <2>1. ASSUME NEW g \in Prompts, RollBack(g) PROVE Kept(f)
    BY <1>1, <2>1, OverwriteCopies DEF RollBack
  <2>2. ASSUME NEW g \in Prompts, FactoryReset(g) PROVE Kept(f)
    BY <1>1, <2>2, OverwriteCopies, SnapshotFacts DEF FactoryReset
  <2>3. ASSUME NEW c \in DOMAIN docs, Promote(c) PROVE Kept(f)
    <3>1. docs[c].file \in Prompts
      BY <1>1, PromptFacts
    <3> QED
      BY <1>1, <2>3, <3>1, OverwriteCopies, SnapshotFacts DEF Promote
  <2>4. ASSUME NEW c \in DOMAIN docs, ApplyConclusion(c) PROVE Kept(f)
    <3>1. docs[c].file \in Prompts
      BY <1>1, PromptFacts
    <3> QED
      BY <1>1, <2>4, <3>1, OverwriteCopies, SnapshotFacts DEF ApplyConclusion, ApplyHunks
  <2>5. CASE AutoDecide
    <3> DEFINE bad  == {g \in Prompts : Decision(g) = "rollback"}
               good == {g \in Prompts : Decision(g) = "promote"}
    <3>2. PICK v \in [{g \in bad : snapshots[g] # {}} -> Snapshot] :
            /\ \A g \in DOMAIN v : v[g] \in Newest(g)
            /\ text' = [g \in Prompts |-> CASE g \in good     -> docs[pipeline.deploy[g].candidate].text
                                            [] g \in DOMAIN v -> v[g].text
                                            [] OTHER          -> text[g]]
      BY <2>5 DEF AutoDecide
    <3>3. snapshots' = [g \in Prompts |-> snapshots[g] \cup IF g \in good THEN {Current(g)} ELSE {}]
      BY <2>5 DEF AutoDecide
    <3> HIDE DEF bad, good
    <3>4. CASE f \in good
      BY <3>3, <3>4
    <3>5. CASE f \notin good
      <4>1. f \in DOMAIN v /\ text'[f] = v[f].text
        BY <1>1, <3>2, <3>5
      <4>2. v[f] \in snapshots[f]
        BY <3>2, <4>1 DEF Newest
      <4> QED
        BY <4>1, <4>2
    <3> QED
      BY <3>4, <3>5
  <2>6. text' = text \/ (\E g \in Prompts : RollBack(g) \/ FactoryReset(g))
        \/ (\E c \in DOMAIN docs : Promote(c) \/ ApplyConclusion(c)) \/ AutoDecide
    BY <1>1 DEF PromptNext, Generate, CanaryRelease, SaveDraft, ClearDrafts, Ingest, NextSecond,
                RestartPipeline, promptVars
  <2> QED
    BY <1>1, <2>1, <2>2, <2>3, <2>4, <2>5, <2>6
<1>2. PromptInv /\ [PromptNext]_promptVars =>
        [\A f \in Prompts : text'[f] # text[f] =>
             \/ Current(f) \in snapshots'[f]
             \/ \E v \in snapshots[f] : text'[f] = v.text]_promptVars
  BY <1>1
<1> QED
  BY <1>2, PipelineStaysSound, PTL DEF PromptSpec, OverwrittenTextIsKept

\* The prompts, their candidates, canaries and deployments keep their types.
THEOREM PromptsStayTyped == PromptSpec => []PromptTypeOK
<1>1. PromptInv => PromptTypeOK
  BY DEF PromptInv
<1> QED
  BY <1>1, PipelineStaysSound, PTL

-----------------------------------------------------------------------------
(* Calls of a model: the provider they go to (module Providers).           *)

Keyed(p) == p.key > 0 \/ Direct(p.name) \/ p.name \in OAuth

\* The providers there can be, with the keys they may have.
ProviderRecord == [name : Names \cup {None}, key : 0..MaxKeyChanges, own : BOOLEAN, audited : BOOLEAN]

ProviderTypes ==
  /\ keys \in [Names -> 0..MaxKeyChanges] /\ {addresses, models} \subseteq SUBSET Names
  /\ routes \in [Callpoints \cup {"agent"} -> Names \cup {None}]
  /\ held \in [Callpoints -> ProviderRecord] /\ stale \subseteq Callpoints
  /\ DOMAIN sent = Callpoints

\* A callpoint that works with a provider got it from its route, or has the standing one.
HeldFits(c) ==
  held[c] # NoProvider =>
    /\ Keyed(held[c])
    /\ c \in stale \/ held[c] = Routed(c) \/ (Routed(c) = NoProvider /\ held[c] = standing)

\* What it sent last it sent with that provider.
SentFits(c) ==
  sent[c] # NothingSent =>
    /\ held[c] # NoProvider /\ sent[c].provider = held[c]
    /\ sent[c].to = held[c].name \/ ~held[c].own

CallsInv ==
  /\ ProviderTypes /\ (standing # NoProvider => Keyed(standing))
  /\ standing \in ProviderRecord /\ apiBase \in Names \cup {None}
  /\ \A c \in Callpoints : HeldFits(c) /\ SentFits(c) /\ sent[c].to \in Names \cup {None}

LEMMA NoProviderIsTyped == NoProvider \in ProviderRecord
BY ProvidersAssumption DEF NoProvider, ProviderRecord

\* What a provider leaves in litellm is a name.
LEMMA SharedIsTyped ==
  ASSUME NEW p \in ProviderRecord, NEW before \in Names \cup {None}
  PROVE  Shared(p, before) \in Names \cup {None}
BY DEF Shared, ProviderRecord

\* What a route gives is a provider that can be used.
LEMMA RoutedFacts ==
  ASSUME ProviderTypes, NEW c \in Callpoints \cup {"agent"}
  PROVE  /\ Routed(c) \in ProviderRecord
         /\ Routed(c) # NoProvider => Keyed(Routed(c))
<1>1. PICK r \in Names \cup {None} : r = routes[c]
  BY DEF ProviderTypes
<1>2. CASE r # None /\ (Direct(r) \/ keys[r] > 0 \/ r \in OAuth)
  <2>1. r \in Names /\ keys[r] \in 0..MaxKeyChanges
    BY <1>2 DEF ProviderTypes
  <2>2. Routed(c) = Made(r)
    BY <1>1, <1>2 DEF Routed
  <2>3. (Direct(r) \/ r \in addresses \/ r \in WithAddress) \in BOOLEAN
    BY DEF Direct
  <2>4. Made(r) \in ProviderRecord
    BY <2>1, <2>3 DEF Made, ProviderRecord
  <2>5. Made(r).name = r /\ Made(r).key = keys[r]
    BY DEF Made
  <2> QED
    BY <1>2, <2>2, <2>4, <2>5 DEF Keyed
<1>3. CASE ~(r # None /\ (Direct(r) \/ keys[r] > 0 \/ r \in OAuth))
  <2>1. Routed(c) = NoProvider
    BY <1>1, <1>3 DEF Routed
  <2> QED
    BY <2>1, NoProviderIsTyped
<1> QED
  BY <1>2, <1>3

\* So is the first with a key and a model.
LEMMA StandingFacts ==
  ASSUME ProviderTypes
  PROVE  /\ Standing \in ProviderRecord
         /\ Standing # NoProvider => Keyed(Standing)
<1>1. Routed("agent") \in ProviderRecord
      /\ (Routed("agent") # NoProvider => Keyed(Routed("agent")))
  BY RoutedFacts
<1> DEFINE usable == {i \in DOMAIN Registry : keys[Registry[i]] > 0 /\ Registry[i] \in models}
           first == CHOOSE i \in usable : \A j \in usable : i <= j
<1>2. ASSUME usable # {}
      PROVE  /\ FirstUsable \in ProviderRecord
             /\ Keyed(FirstUsable)
  <2>1. usable \subseteq Nat
    BY ProvidersAssumption, LenProperties
  <2>2. \E i \in usable : \A j \in usable : i <= j
    BY <1>2, <2>1, LeastOf
  <2>3. first \in usable
    BY <2>2
  <2>4. PICK name \in Names : name = Registry[first] /\ keys[name] > 0
    BY <2>3 DEF Names
  <2>5. keys[name] \in 0..MaxKeyChanges
    BY DEF ProviderTypes
  <2>6. FirstUsable = [name |-> name, key |-> keys[name], audited |-> FALSE,
                       own |-> Direct(name) \/ name \in addresses]
    BY <1>2, <2>4 DEF FirstUsable
  <2>7. (Direct(name) \/ name \in addresses) \in BOOLEAN
    BY DEF Direct
  <2> HIDE DEF usable, first
  <2> QED
    BY <2>4, <2>5, <2>6, <2>7 DEF Keyed, ProviderRecord
<1>3. CASE usable = {}
  <2>1. FirstUsable = NoProvider
    BY <1>3 DEF FirstUsable
  <2> HIDE DEF usable
  <2> QED
    BY <1>1, <2>1, NoProviderIsTyped DEF Standing
<1>4. CASE usable # {}
  <2> HIDE DEF usable
  <2> QED
    BY <1>1, <1>2, <1>4 DEF Standing
<1> QED
  BY <1>3, <1>4

LEMMA CallsStart == ProvidersInit => CallsInv
<1> SUFFICES ASSUME ProvidersInit PROVE CallsInv
  OBVIOUS
<1>1. ProviderTypes
  BY ProvidersAssumption, NoProviderIsTyped DEF ProvidersInit, ProviderTypes
<1>2. standing = Standing /\ \A c \in Callpoints : held[c] = NoProvider /\ sent[c] = NothingSent
  BY DEF ProvidersInit
<1>3. standing \in ProviderRecord /\ (standing # NoProvider => Keyed(standing))
  BY <1>1, <1>2, StandingFacts
<1>4. apiBase \in Names \cup {None}
  BY <1>3, SharedIsTyped DEF ProvidersInit
<1>6. NothingSent.to = None
  BY DEF NothingSent
<1>5. \A c \in Callpoints : sent[c].to = None
  BY <1>2, <1>6
<1> QED
  BY <1>1, <1>2, <1>3, <1>4, <1>5 DEF CallsInv, HeldFits, SentFits

LEMMA CallsStep == CallsInv /\ [ProvidersNext]_providerVars => CallsInv'
<1> SUFFICES ASSUME CallsInv, [ProvidersNext]_providerVars PROVE CallsInv'
  OBVIOUS
<1> USE DEF CallsInv
<1>1. ASSUME NEW name \in Names, NEW key \in 0..MaxKeyChanges, Rekey(name, key) PROVE CallsInv'
  <2>1. ProviderTypes'
    BY <1>1 DEF ProviderTypes, Rekey
  <2>2. ASSUME NEW c \in Callpoints, held[c] # NoProvider, c \notin stale' PROVE Routed(c)' = Routed(c)
    <3>1. name # routes[c] /\ routes' = routes /\ addresses' = addresses
      BY <1>1, <2>2 DEF Rekey
    <3>2. PICK r \in Names \cup {None} : r = routes[c] /\ r = routes'[c] /\ r # name
      BY <3>1 DEF ProviderTypes
    <3>3. r # None => keys'[r] = keys[r]
      BY <1>1, <3>2 DEF Rekey, ProviderTypes
    <3> QED
      BY <3>1, <3>2, <3>3 DEF Routed, Made
  <2>3. ASSUME NEW c \in Callpoints PROVE HeldFits(c)' /\ SentFits(c)'
    <3>1. HeldFits(c) /\ SentFits(c) /\ held' = held /\ sent' = sent /\ standing' = standing /\ stale \subseteq stale'
      BY <1>1 DEF Rekey
    <3>2. SentFits(c)'
      BY <3>1 DEF SentFits
    <3>3. HeldFits(c)'
      BY <2>2, <3>1 DEF HeldFits, Keyed
    <3> QED
      BY <3>2, <3>3
  <2> QED
    BY <1>1, <2>1, <2>3 DEF Rekey, Keyed
<1>2. ASSUME NEW d \in Callpoints, NEW name \in Names \cup {None}, Reroute(d, name) PROVE CallsInv'
  <2>1. ProviderTypes'
    BY <1>2 DEF ProviderTypes, Reroute
  <2>2. ASSUME NEW c \in Callpoints, c \notin stale' PROVE Routed(c)' = Routed(c)
    <3>1. c # d /\ routes'[c] = routes[c] /\ keys' = keys /\ addresses' = addresses
      BY <1>2, <2>2 DEF Reroute, ProviderTypes
    <3> QED
      BY <3>1 DEF Routed, Made
  <2>3. ASSUME NEW c \in Callpoints PROVE HeldFits(c)' /\ SentFits(c)'
    <3>1. HeldFits(c) /\ SentFits(c) /\ held' = held /\ sent' = sent /\ standing' = standing /\ stale \subseteq stale'
      BY <1>2 DEF Reroute
    <3>2. SentFits(c)'
      BY <3>1 DEF SentFits
    <3>3. HeldFits(c)'
      BY <2>2, <3>1 DEF HeldFits, Keyed
    <3> QED
      BY <3>2, <3>3
  <2> QED
    BY <1>2, <2>1, <2>3 DEF Reroute, Keyed
<1>3. ASSUME NEW d \in Callpoints, Prepare(d) PROVE CallsInv'
  <2>1. PICK p : /\ p = (IF Routed(d) = NoProvider THEN standing ELSE Routed(d))
                 /\ p # NoProvider /\ held' = [held EXCEPT ![d] = p]
    BY <1>3 DEF Prepare
  <2>2. p \in ProviderRecord /\ Keyed(p)
    BY <2>1, RoutedFacts
  <2>3. ProviderTypes'
    BY <1>3, <2>1, <2>2 DEF ProviderTypes, Prepare
  <2>4. \A c \in Callpoints : Routed(c)' = Routed(c)
    BY <1>3 DEF Prepare, Routed, Made
  <2>5. ASSUME NEW c \in Callpoints PROVE HeldFits(c)' /\ SentFits(c)'
    <3>1. HeldFits(c) /\ SentFits(c) /\ sent' = sent /\ standing' = standing /\ stale' = stale \ {d}
          /\ held[d] = NoProvider
      BY <1>3 DEF Prepare
    <3>2. held'[d] = p /\ (c # d => held'[c] = held[c])
      BY <2>1 DEF ProviderTypes
    <3>3. SentFits(c)'
      BY <3>1, <3>2 DEF SentFits
    <3>4. HeldFits(c)'
      BY <2>1, <2>2, <2>4, <3>1, <3>2 DEF HeldFits, Keyed
    <3> QED
      BY <3>3, <3>4
  <2>6. apiBase' \in Names \cup {None}
    BY <1>3, RoutedFacts, SharedIsTyped DEF Prepare
  <2> QED
    BY <1>3, <2>3, <2>5, <2>6 DEF Prepare, Keyed
<1>4. ASSUME NEW d \in Callpoints, CallModel(d) PROVE CallsInv'
  <2>1. PICK to, logged : /\ sent' = [sent EXCEPT ![d] = [provider |-> held[d], to |-> to, logged |-> logged]]
                          /\ to \in {held[d].name, apiBase} /\ (to = held[d].name \/ ~held[d].own)
    BY <1>4 DEF CallModel
  <2>6. to \in Names \cup {None}
    BY <2>1 DEF ProviderTypes, ProviderRecord
  <2>2. held' = held /\ keys' = keys /\ routes' = routes /\ standing' = standing /\ stale' = stale
        /\ addresses' = addresses /\ models' = models /\ apiBase' = apiBase /\ held[d] # NoProvider
    BY <1>4 DEF CallModel
  <2>3. ProviderTypes'
    BY <2>1, <2>2 DEF ProviderTypes
  <2>4. ASSUME NEW c \in Callpoints PROVE HeldFits(c)' /\ SentFits(c)'
    <3>1. HeldFits(c) /\ SentFits(c)
      OBVIOUS
    <3>2. HeldFits(c)'
      BY <2>2, <3>1 DEF HeldFits, Keyed, Routed, Made
    <3>3. sent'[c] = IF c = d THEN [provider |-> held[d], to |-> to, logged |-> logged] ELSE sent[c]
      BY <2>1 DEF ProviderTypes
    <3>4. SentFits(c)'
      BY <2>1, <2>2, <3>1, <3>3 DEF SentFits
    <3> QED
      BY <3>2, <3>4
  <2>5. \A c \in Callpoints : sent'[c].to \in Names \cup {None}
    BY <2>1, <2>6 DEF ProviderTypes
  <2> QED
    BY <2>2, <2>3, <2>4, <2>5 DEF Keyed
<1>5. ASSUME NEW d \in Callpoints, Finish(d) PROVE CallsInv'
  <2>1. ProviderTypes'
    BY <1>5, NoProviderIsTyped DEF ProviderTypes, Finish
  <2>2. ASSUME NEW c \in Callpoints PROVE HeldFits(c)' /\ SentFits(c)'
    <3>1. /\ HeldFits(c) /\ SentFits(c) /\ keys' = keys /\ routes' = routes /\ addresses' = addresses
          /\ standing' = standing /\ stale' = stale
          /\ held'[c] = IF c = d THEN NoProvider ELSE held[c]
          /\ sent'[c] = IF c = d THEN NothingSent ELSE sent[c]
      BY <1>5 DEF Finish, ProviderTypes
    <3>2. HeldFits(c)'
      BY <3>1 DEF HeldFits, Keyed, Routed, Made
    <3>3. SentFits(c)'
      BY <3>1 DEF SentFits
    <3> QED
      BY <3>2, <3>3
  <2>3. \A c \in Callpoints : sent'[c].to \in Names \cup {None}
    BY <1>5 DEF Finish, ProviderTypes, NothingSent
  <2> QED
    BY <1>5, <2>1, <2>2, <2>3 DEF Finish, Keyed
<1>6. ASSUME UNCHANGED providerVars PROVE CallsInv'
  BY <1>6 DEF providerVars, ProviderTypes, HeldFits, SentFits, Keyed, Routed, Made
<1> QED
  BY <1>1, <1>2, <1>3, <1>4, <1>5, <1>6 DEF ProvidersNext

\* The callpoints, their providers and their requests keep their types.
THEOREM ProvidersStayTyped == ProvidersSpec => []ProvidersTypeOK
<1>1. CallsInv => ProvidersTypeOK
  <2> SUFFICES ASSUME CallsInv PROVE ProvidersTypeOK
    OBVIOUS
  <2>1. ProviderTypes /\ standing \in ProviderRecord /\ apiBase \in Names \cup {None}
    BY DEF CallsInv
  <2>2. ASSUME NEW c \in Callpoints PROVE sent[c].provider \in ProviderRecord /\ sent[c].to \in Names \cup {None}
    BY NoProviderIsTyped DEF CallsInv, SentFits, ProviderTypes, NothingSent
  <2> QED
    BY <2>1, <2>2 DEF ProvidersTypeOK, ProviderTypes, ProviderRecord
<1> QED
  BY <1>1, CallsStart, CallsStep, PTL DEF ProvidersSpec

\* A key goes to its own provider, or to the address another one left.
THEOREM KeysGoHome == ProvidersSpec => []CallsOwnEndpoint
<1>1. CallsInv => CallsOwnEndpoint
  BY DEF CallsInv, CallsOwnEndpoint, HeldFits, SentFits, Keyed
<1> QED
  BY <1>1, CallsStart, CallsStep, PTL DEF ProvidersSpec

-----------------------------------------------------------------------------
(* The exchange with a provider (module Dialogue).                         *)

Entries == [role : {"system", "user", "assistant", "tool", "call"}, text : Seq(Int), call : Int]

\* Requests can be put together in any order.
LEMMA EntriesAssociate ==
  \A u, v, w \in Seq(Entries) : (u \o v) \o w = u \o (v \o w)
BY ConcatAssociative

\* Every call is followed by its result, and every result comes behind its call.
Paired(w) ==
  \A i \in DOMAIN w :
    /\ w[i].call # NoCall /\ w[i].role # "tool" =>
         i < Len(w) /\ w[i + 1].role = "tool" /\ w[i + 1].call = w[i].call
    /\ w[i].role = "tool" => i > 1 /\ w[i - 1].call = w[i].call

LEMMA PairedJoin ==
  ASSUME NEW v \in Seq(Entries), NEW w \in Seq(Entries), Paired(v), Paired(w)
  PROVE  v \o w \in Seq(Entries) /\ Paired(v \o w)
<1>1. /\ v \o w \in Seq(Entries) /\ Len(v) \in Nat /\ Len(w) \in Nat
      /\ Len(v \o w) = Len(v) + Len(w) /\ DOMAIN (v \o w) = 1..(Len(v) + Len(w))
      /\ DOMAIN v = 1..Len(v) /\ DOMAIN w = 1..Len(w)
      /\ \A i \in 1..(Len(v) + Len(w)) : (v \o w)[i] = IF i <= Len(v) THEN v[i] ELSE w[i - Len(v)]
  BY ConcatProperties, LenProperties
<1>2. PICK x : x = v \o w
  OBVIOUS
<1>3. ASSUME NEW i \in 1..(Len(v) + Len(w))
      PROVE  /\ x[i].call # NoCall /\ x[i].role # "tool" =>
                  i < Len(x) /\ x[i + 1].role = "tool" /\ x[i + 1].call = x[i].call
             /\ x[i].role = "tool" => i > 1 /\ x[i - 1].call = x[i].call
  <2>1. CASE i <= Len(v)
    <3>1. i \in DOMAIN v /\ x[i] = v[i]
      BY <1>1, <1>2, <2>1
    <3>2. i < Len(v) => x[i + 1] = v[i + 1] /\ i < Len(x)
      BY <1>1, <1>2, <2>1
    <3>3. i > 1 => x[i - 1] = v[i - 1]
      BY <1>1, <1>2, <2>1
    <3> QED
      BY <3>1, <3>2, <3>3 DEF Paired
  <2>2. CASE ~(i <= Len(v))
    <3>1. PICK j \in 1..Len(w) : j = i - Len(v)
      BY <1>1, <2>2
    <3>2. j \in DOMAIN w /\ x[i] = w[j]
      BY <1>1, <1>2, <2>2, <3>1
    <3>3. j < Len(w) => x[i + 1] = w[j + 1] /\ i < Len(x)
      BY <1>1, <1>2, <2>2, <3>1
    <3>4. j > 1 => x[i - 1] = w[j - 1] /\ i > 1
      BY <1>1, <1>2, <2>2, <3>1
    <3> QED
      BY <3>2, <3>3, <3>4 DEF Paired
  <2> QED
    BY <2>1, <2>2
<1> QED
  BY <1>1, <1>2, <1>3 DEF Paired

\* The conversation: behind the first two entries, calls with their results.
Conversed ==
  /\ messages \in Seq(Entries) /\ messages # <<>> /\ messages[1].role = "system"
  /\ \A i \in DOMAIN messages :
       /\ messages[i].role \in {"system", "user"} => messages[i].call = NoCall
       /\ messages[i].role = "assistant" => /\ i < Len(messages) /\ messages[i].call # NoCall
                                            /\ messages[i + 1].role = "tool"
                                            /\ messages[i + 1].call = messages[i].call
       /\ messages[i].role = "tool" => /\ i > 1 /\ messages[i - 1].role = "assistant"
                                       /\ messages[i - 1].call = messages[i].call
       /\ messages[i].role # "call"

\* What OpenAI Codex is sent of an entry.
LEMMA ItemsFacts ==
  ASSUME NEW m \in Entries
  PROVE  /\ CodexItems(m) \in Seq(Entries)
         /\ m.role = "system" => CodexItems(m) = <<>>
         /\ m.role \notin {"system", "assistant"} => CodexItems(m) = <<m>>
         /\ m.role = "assistant" =>
              \A t \in Entries : t.role = "tool" /\ t.call = m.call =>
                CodexItems(m) \o <<t>> \in Seq(Entries) /\ Paired(CodexItems(m) \o <<t>>)
<1>1. m.role = "system" => CodexItems(m) = <<>>
  BY DEF CodexItems
<1>2. m.role \notin {"system", "assistant"} => CodexItems(m) = <<m>>
  BY DEF CodexItems
<1>3. m.text \in Seq(Int) /\ m.call \in Int /\ <<>> \in Seq(Int)
  BY EmptySeq DEF Entries
<1>4. PICK c \in Entries : c.role = "call" /\ c.call = m.call /\ c = Entry("call", <<>>, m.call)
  BY <1>3 DEF Entry, Entries
<1>5. PICK a \in Entries : a.role = "assistant" /\ a.call = NoCall /\ a = Entry("assistant", m.text, NoCall)
  <2>1. Entry("assistant", m.text, 0) \in Entries
    BY <1>3 DEF Entry, Entries
  <2> QED
    BY <2>1 DEF Entry, NoCall
<1>6. \A x \in Entries : <<x>> \in Seq(Entries) /\ Len(<<x>>) = 1 /\ <<x>>[1] = x
  OBVIOUS
<1>7. ASSUME NEW t \in Entries, t.role = "tool", t.call = m.call
      PROVE  <<c>> \o <<t>> \in Seq(Entries) /\ Paired(<<c>> \o <<t>>)
  <2>1. PICK w \in Seq(Entries) : /\ w = <<c>> \o <<t>> /\ Len(w) = 2 /\ DOMAIN w = 1..2
                                  /\ w[1] = c /\ w[2] = t
    <3>1. PICK one \in Seq(Entries), two \in Seq(Entries) :
            one = <<c>> /\ two = <<t>> /\ Len(one) = 1 /\ Len(two) = 1 /\ one[1] = c /\ two[1] = t
      BY <1>6
    <3>2. /\ one \o two \in Seq(Entries) /\ Len(one \o two) = 2
          /\ (one \o two)[1] = c /\ (one \o two)[2] = t
      BY <3>1, ConcatProperties
    <3> QED
      BY <3>1, <3>2, LenProperties
  <2>2. \A i \in 1..2 : i = 1 \/ i = 2
    OBVIOUS
  <2>3. w[1].role # "tool" /\ w[1].call = m.call /\ w[2].role = "tool" /\ w[2].call = m.call
    BY <1>4, <1>7, <2>1
  <2>4. Paired(w)
    BY <2>1, <2>2, <2>3 DEF Paired
  <2> QED
    BY <2>1, <2>4
<1>8. Paired(<<a>>)
  BY <1>5, <1>6 DEF Paired
<1>9. CASE m.role = "assistant" /\ m.text = <<>>
  <2>1. CodexItems(m) = <<>> \o <<c>>
    BY <1>4, <1>9 DEF CodexItems
  <2>2. CodexItems(m) = <<c>>
    BY <1>6, <2>1, ConcatEmptySeq
  <2> QED
    BY <1>6, <1>7, <1>9, <2>2
<1>10. CASE m.role = "assistant" /\ m.text # <<>>
  <2>1. CodexItems(m) = <<a>> \o <<c>>
    BY <1>4, <1>5, <1>10 DEF CodexItems
  <2>2. CodexItems(m) \in Seq(Entries)
    BY <1>6, <2>1, ConcatProperties
  <2>3. ASSUME NEW t \in Entries, t.role = "tool", t.call = m.call
        PROVE  CodexItems(m) \o <<t>> \in Seq(Entries) /\ Paired(CodexItems(m) \o <<t>>)
    <3>1. (<<a>> \o <<c>>) \o <<t>> = <<a>> \o (<<c>> \o <<t>>)
      BY <1>6, ConcatAssociative
    <3>2. PICK w \in Seq(Entries) : w = <<c>> \o <<t>> /\ Paired(w)
      BY <1>7, <2>3
    <3>3. PICK v \in Seq(Entries) : v = <<a>> /\ Paired(v)
      BY <1>6, <1>8
    <3>4. v \o w \in Seq(Entries) /\ Paired(v \o w)
      BY <3>2, <3>3, PairedJoin
    <3> QED
      BY <2>1, <3>1, <3>2, <3>3, <3>4
  <2> QED
    BY <1>10, <2>2, <2>3
<1>11. <<m>> \in Seq(Entries) /\ <<>> \in Seq(Entries)
  BY EmptySeq
<1> QED
  BY <1>1, <1>2, <1>9, <1>10, <1>11

\* What goes to the provider has each call with its result, and no empty text.
LEMMA WireFacts ==
  ASSUME Conversed, provider \in {"codex", "custom", "litellm"}
  PROVE  /\ Wire \in Seq(Entries) /\ Paired(Wire)
         /\ provider # "codex" => \A i \in DOMAIN Wire : Wire[i].text # <<>>
<1>1. PICK n \in Nat \ {0} : n = Len(messages) /\ DOMAIN messages = 1..n
  BY LenProperties, EmptySeq DEF Conversed
<1>2. \A i \in 1..n : messages[i] \in Entries
  BY <1>1, LenProperties DEF Conversed
<1>3. CASE provider # "codex"
  <2>1. ASSUME NEW i \in 1..n
        PROVE  /\ Sanitized(messages[i]) \in Entries /\ Sanitized(messages[i]).text # <<>>
               /\ Sanitized(messages[i]).role = messages[i].role /\ Sanitized(messages[i]).call = messages[i].call
    <3>1. <<NullText>> \in Seq(Int) /\ <<EmptyText>> \in Seq(Int) /\ <<NullText>> # <<>> /\ <<EmptyText>> # <<>>
      BY DEF NullText, EmptyText
    <3> QED
      BY <1>2, <3>1 DEF Sanitized, Entries
  <2>2. PICK w : w = [i \in 1..n |-> Sanitized(messages[i])]
    OBVIOUS
  <2>3. w \in Seq(Entries) /\ DOMAIN w = 1..n
    BY <2>1, <2>2, IsASeq
  <2>4. Len(w) = n
    BY <2>3, LenProperties
  <2>5. Wire = w
    BY <1>1, <1>3, <2>2 DEF Wire
  <2>6. \A i \in 1..n : /\ w[i].role = messages[i].role /\ w[i].call = messages[i].call /\ w[i].text # <<>>
                        /\ w[i].role # "call"
    BY <1>1, <2>1, <2>2 DEF Conversed
  <2>7. Paired(w)
    <3>1. ASSUME NEW i \in 1..n, w[i].call # NoCall, w[i].role # "tool"
          PROVE  i < n /\ w[i + 1].role = "tool" /\ w[i + 1].call = w[i].call
      <4>1. messages[i].role = "assistant"
        <5>1. PICK m \in Entries : m = messages[i]
          BY <1>2
        <5>2. m.call # NoCall /\ m.role # "tool" /\ m.role # "call"
          BY <2>6, <3>1, <5>1
        <5>3. m.role \notin {"system", "user"}
          BY <1>1, <5>1, <5>2 DEF Conversed
        <5>4. m.role \in {"system", "user", "assistant", "tool", "call"}
          BY DEF Entries
        <5> QED
          BY <5>1, <5>2, <5>3, <5>4
      <4> QED
        BY <1>1, <2>6, <4>1 DEF Conversed
    <3>2. ASSUME NEW i \in 1..n, w[i].role = "tool" PROVE i > 1 /\ w[i - 1].call = w[i].call
      BY <1>1, <2>6, <3>2 DEF Conversed
    <3> QED
      BY <2>3, <2>4, <3>1, <3>2 DEF Paired
  <2> QED
    BY <2>3, <2>5, <2>6, <2>7
<1>4. CASE provider = "codex"
  <2>1. PICK items : items = [i \in 1..n |-> CodexItems(messages[i])]
    OBVIOUS
  <2>2. items \in Seq(Seq(Entries)) /\ DOMAIN items = 1..n
    BY <1>2, <2>1, ItemsFacts, IsASeq
  <2>3. Len(items) = n /\ items # <<>>
    BY <2>2, LenProperties, EmptySeq
  <2>4. PICK f \in [1..n -> Seq(Entries)] :
          /\ f[1] = items[1] /\ \A i \in 2..n : f[i] = f[i - 1] \o items[i]
          /\ FlattenSeq(items) = f[n]
    BY <2>2, <2>3, Flattened
  <2>5. Wire = f[n]
    BY <1>1, <1>4, <2>1, <2>4 DEF Wire
  <2> DEFINE Fits(i) == IF messages[i].role = "assistant"
                        THEN f[i] \o <<messages[i + 1]>> \in Seq(Entries) /\ Paired(f[i] \o <<messages[i + 1]>>)
                        ELSE Paired(f[i])
             E == {i \in 0..n : i # 0 => Fits(i)}
  <2>6. Fits(1)
    <3>1. messages[1].role = "system" /\ messages[1] \in Entries
      BY <1>1, <1>2 DEF Conversed
    <3>2. f[1] = <<>>
      BY <1>1, <2>1, <2>4, <3>1, ItemsFacts
    <3>3. Paired(<<>>)
      BY DEF Paired
    <3> QED
      BY <3>1, <3>2, <3>3
  <2>7. ASSUME NEW i \in 2..n, Fits(i - 1) PROVE Fits(i)
    <3>1. /\ i \in 1..n /\ i - 1 \in 1..n /\ messages[i] \in Entries /\ messages[i - 1] \in Entries
          /\ f[i] = f[i - 1] \o CodexItems(messages[i]) /\ f[i - 1] \in Seq(Entries)
          /\ CodexItems(messages[i]) \in Seq(Entries)
      <4>1. i \in 1..n /\ i - 1 \in 1..n
        OBVIOUS
      <4>2. messages[i] \in Entries /\ messages[i - 1] \in Entries /\ f[i - 1] \in Seq(Entries)
        BY <1>2, <4>1
      <4>3. f[i] = f[i - 1] \o items[i] /\ items[i] = CodexItems(messages[i])
        BY <2>1, <2>4, <4>1
      <4> QED
        BY <4>1, <4>2, <4>3, ItemsFacts
    <3>2. CASE messages[i].role = "tool"
      <4>1. messages[i - 1].role = "assistant"
        BY <1>1, <3>1, <3>2 DEF Conversed
      <4>2. f[i] = f[i - 1] \o <<messages[i]>>
        BY <3>1, <3>2, ItemsFacts
      <4>3. Paired(f[i - 1] \o <<messages[i - 1 + 1]>>) /\ i - 1 + 1 = i
        BY <2>7, <4>1
      <4> QED
        BY <3>2, <4>2, <4>3
    <3>3. CASE messages[i].role # "tool"
      <4>1. messages[i - 1].role # "assistant"
        <5>1. messages[i - 1].role = "assistant" => messages[i - 1 + 1].role = "tool"
          BY <1>1, <3>1 DEF Conversed
        <5>2. i - 1 + 1 = i
          OBVIOUS
        <5> QED
          BY <3>3, <5>1, <5>2
      <4>2. Paired(f[i - 1])
        BY <2>7, <4>1
      <4>3. CASE messages[i].role = "assistant"
        <5>1. PICK t : t = messages[i + 1]
          OBVIOUS
        <5>2. t \in Entries /\ t.role = "tool" /\ t.call = messages[i].call
          <6>1. i < n /\ t.role = "tool" /\ t.call = messages[i].call
            BY <1>1, <3>1, <4>3, <5>1 DEF Conversed
          <6>2. i + 1 \in 1..n
            BY <6>1
          <6> QED
            BY <1>2, <5>1, <6>1, <6>2
        <5>3. PICK c \in Seq(Entries) : c = CodexItems(messages[i]) /\ c \o <<t>> \in Seq(Entries) /\ Paired(c \o <<t>>)
          BY <3>1, <4>3, <5>2, ItemsFacts
        <5>4. f[i - 1] \o (c \o <<t>>) \in Seq(Entries) /\ Paired(f[i - 1] \o (c \o <<t>>))
          BY <3>1, <4>2, <5>3, PairedJoin
        <5>5. <<t>> \in Seq(Entries)
          BY <5>2
        <5>6. (f[i - 1] \o c) \o <<t>> = f[i - 1] \o (c \o <<t>>)
          <6>1. /\ f[i - 1] \in Seq(Entries) /\ c \in Seq(Entries) /\ <<t>> \in Seq(Entries)
            BY <3>1, <5>3, <5>5
          <6> QED
            BY ONLY <6>1, EntriesAssociate
        <5> QED
          BY <3>1, <4>3, <5>1, <5>3, <5>4, <5>6
      <4>4. CASE messages[i].role # "assistant"
        <5>1. CodexItems(messages[i]) \in {<<>>, <<messages[i]>>} /\ messages[i].call = NoCall
          BY <1>1, <3>1, <3>3, <4>4, ItemsFacts DEF Conversed, Entries
        <5>2. Paired(CodexItems(messages[i]))
          BY <3>3, <5>1 DEF Paired
        <5>3. Paired(f[i])
          BY <3>1, <4>2, <5>2, PairedJoin
        <5> QED
          BY <4>4, <5>3
      <4> QED
        BY <4>3, <4>4
    <3> QED
      BY <3>2, <3>3
  <2>8. ASSUME NEW i \in 0..(n - 1), i \in E PROVE i + 1 \in E
    <3>1. CASE i = 0
      BY <2>6, <3>1
    <3>2. CASE i # 0
      <4>1. i + 1 \in 2..n /\ i + 1 - 1 = i /\ Fits(i)
        BY <2>8, <3>2
      <4> HIDE DEF Fits
      <4>2. Fits(i + 1)
        BY <2>7, <4>1
      <4> QED
        BY <4>1, <4>2
    <3> QED
      BY <3>1, <3>2
  <2>9. 0 \in E
    OBVIOUS
  <2>10. Fits(n)
    <3> HIDE DEF E
    <3>1. 0..n \subseteq E
      BY <2>8, <2>9, CountingUp
    <3>2. n \in E
      BY <3>1
    <3> HIDE DEF Fits
    <3> QED
      BY <3>2 DEF E
  <2>11. messages[n].role # "assistant"
    BY <1>1 DEF Conversed
  <2>12. Paired(f[n]) /\ f[n] \in Seq(Entries)
    BY <2>10, <2>11
  <2> QED
    BY <1>4, <2>5, <2>12
<1> QED
  BY <1>3, <1>4

\* A text without a section of it.
LEMMA WithoutFacts ==
  ASSUME NEW t \in Seq(Int), NEW section \in Int
  PROVE  Without(t, section) \in Seq(Int) /\ section \notin ToSet(Without(t, section))
<1>1. PICK n \in Nat : n = Len(t) /\ \A i \in 1..n : t[i] \in Int
  BY LenProperties
<1>2. PICK V : V = {s \in Seq(Int) : section \notin ToSet(s)}
  OBVIOUS
<1>3. PICK e \in V : e = <<>>
  <2>1. ToSet(<<>>) = {}
    BY DEF ToSet
  <2>2. <<>> \in Seq(Int)
    BY EmptySeq
  <2> QED
    BY <1>2, <2>1, <2>2
<1>4. PICK next : next = [i \in 1..n |-> [v \in V |-> IF t[i] = section THEN v ELSE Append(v, t[i])]]
  OBVIOUS
<1>5. next \in [1..n -> [V -> V]]
  <2>1. ASSUME NEW i \in 1..n, NEW v \in V, t[i] # section PROVE Append(v, t[i]) \in V
    <3>1. v \in Seq(Int) /\ section \notin ToSet(v) /\ t[i] \in Int
      BY <1>1, <1>2
    <3>2. /\ Append(v, t[i]) \in Seq(Int) /\ DOMAIN Append(v, t[i]) = 1..(Len(v) + 1)
          /\ DOMAIN v = 1..Len(v) /\ Len(v) \in Nat
          /\ \A j \in 1..Len(v) : Append(v, t[i])[j] = v[j]
          /\ Append(v, t[i])[Len(v) + 1] = t[i]
      BY <3>1, QueueShape
    <3>3. \A j \in 1..(Len(v) + 1) : j \in 1..Len(v) \/ j = Len(v) + 1
      BY <3>2
    <3>4. section \notin ToSet(Append(v, t[i]))
      BY <2>1, <3>1, <3>2, <3>3 DEF ToSet
    <3> QED
      BY <1>2, <3>2, <3>4
  <2>2. \A i \in 1..n, v \in V : (IF t[i] = section THEN v ELSE Append(v, t[i])) \in V
    BY <2>1
  <2> QED
    BY <1>4, <2>2
<1>6. PICK g \in [0..n -> V] : g[0] = e /\ Follows(g, next, n)
  BY <1>5, RecursionHasValue
<1>7. g = [i \in 0..n |-> IF i = 0 THEN <<>> ELSE IF t[i] = section THEN g[i - 1] ELSE Append(g[i - 1], t[i])]
  <2>1. ASSUME NEW i \in 0..n
        PROVE  g[i] = IF i = 0 THEN <<>> ELSE IF t[i] = section THEN g[i - 1] ELSE Append(g[i - 1], t[i])
    <3>1. CASE i = 0
      BY <1>3, <1>6, <3>1
    <3>2. CASE i # 0
      <4>1. i \in 1..n /\ i - 1 \in 0..n /\ g[i - 1] \in V
        BY <3>2
      <4>2. g[i] = next[i][g[i - 1]]
        BY <1>6, <4>1 DEF Follows
      <4> QED
        BY <1>4, <3>2, <4>1, <4>2
    <3> QED
      BY <3>1, <3>2
  <2> QED
    BY <2>1
<1>8. PICK h : /\ h = [i \in 0..n |-> IF i = 0 THEN <<>> ELSE IF t[i] = section THEN h[i - 1] ELSE Append(h[i - 1], t[i])]
               /\ Without(t, section) = h[n]
  <2>1. \E h : h = [i \in 0..Len(t) |-> IF i = 0 THEN <<>> ELSE IF t[i] = section THEN h[i - 1] ELSE Append(h[i - 1], t[i])]
    BY <1>1, <1>7
  <2>2. \E h : /\ h = [i \in 0..Len(t) |-> IF i = 0 THEN <<>> ELSE IF t[i] = section THEN h[i - 1] ELSE Append(h[i - 1], t[i])]
               /\ Without(t, section) = h[Len(t)]
    BY <2>1 DEF Without
  <2> QED
    BY <1>1, <2>2
<1>9. h[n] \in V
  <2>1. \A i \in 0..n : h[i] = IF i = 0 THEN <<>> ELSE IF t[i] = section THEN h[i - 1] ELSE Append(h[i - 1], t[i])
    BY <1>8
  <2> DEFINE E == {k \in 0..n : h[k] \in V}
  <2>2. 0 \in E
    BY <1>3, <2>1
  <2>3. ASSUME NEW k \in 0..(n - 1), k \in E PROVE k + 1 \in E
    <3>1. PICK j \in 1..n : j = k + 1 /\ j - 1 = k /\ j # 0 /\ j \in 0..n /\ h[k] \in V
      BY <2>3
    <3>2. h[j] = IF t[j] = section THEN h[k] ELSE Append(h[k], t[j])
      BY <2>1, <3>1
    <3>3. h[j] = next[j][h[k]]
      BY <1>4, <3>1, <3>2
    <3>4. next[j][h[k]] \in V
      BY <1>5, <3>1
    <3> QED
      BY <3>1, <3>3, <3>4
  <2> HIDE DEF E
  <2>4. 0..n \subseteq E
    BY <2>2, <2>3, CountingUp
  <2>5. n \in E
    BY <2>4
  <2> QED
    BY <2>5 DEF E
<1> QED
  BY <1>2, <1>8, <1>9

CallType == [id : Int, args : Int]

\* What is found in a text that may hold sections.
LEMMA TextCallsFacts ==
  ASSUME NEW t \in Seq(Int)
  PROVE  /\ TextCalls(t).text \in Seq(Int)
         /\ LET found == TextCalls(t).sections
            IN \/ found = <<>>
               \/ \E section \in Sections : found = <<section>> /\ section \notin ToSet(TextCalls(t).text)
<1>1. CASE \A i \in DOMAIN t : t[i] \notin Sections
  BY <1>1 DEF TextCalls
<1>2. CASE ~ \A i \in DOMAIN t : t[i] \notin Sections
  <2>1. PICK T : T = {i \in DOMAIN t : t[i] \in Sections}
    OBVIOUS
  <2>2. T \in SUBSET Nat /\ T # {} /\ DOMAIN t = 1..Len(t) /\ Len(t) \in Nat
    BY <1>2, <2>1, LenProperties
  <2>3. PICK i \in T : \A j \in T : i <= j
    BY <2>2, LeastOf
  <2>4. i \in DOMAIN t /\ t[i] \in Sections /\ \A j \in 1..i - 1 : t[j] \notin Sections
    <3>1. ASSUME NEW j \in 1..i - 1, t[j] \in Sections PROVE FALSE
      <4>1. j \in T
        BY <2>1, <2>2, <3>1
      <4> QED
        BY <2>2, <2>3, <4>1
    <3> QED
      BY <2>1, <3>1
  <2>5. t[FirstSection(t)] \in Sections
    BY <2>4 DEF FirstSection
  <2>6. PICK section \in Sections : section = t[FirstSection(t)]
    BY <2>5
  <2>7. section \in Int
    BY DEF Sections, Malformed
  <2>8. TextCalls(t) = [text |-> Without(t, section),
                        sections |-> IF section = Malformed THEN <<>> ELSE <<section>>]
    BY <1>2, <2>6 DEF TextCalls
  <2> QED
    BY <2>7, <2>8, WithoutFacts
<1> QED
  BY <1>1, <1>2

-----------------------------------------------------------------------------
DialogueTypes ==
  /\ provider \in {"codex", "custom", "litellm"} /\ round \in Nat
  /\ phase \in {"asking", "calling", "streaming", "answered", "running", "replied"}
  /\ finish \in {"stop", "length", "error"} /\ ended \in BOOLEAN
  /\ wire \in Seq(Entries) /\ content \in Seq(Int)
  /\ toolCalls \in Seq(CallType) /\ toRun \in Seq(CallType)

\* A request is well-formed when it is sent.
Requested == Paired(wire) /\ (provider # "codex" => \A i \in DOMAIN wire : wire[i].text # <<>>)

\* Every call has an id, and is run once the answer is there.
CallsNamed ==
  /\ \A i \in DOMAIN toolCalls : toolCalls[i].id # NoCall
  /\ \A i \in DOMAIN toRun : toRun[i].id # NoCall
  /\ phase = "running" => toRun # <<>>

\* Nothing has been read of an answer that has not begun, or that is being worked on.
NothingRead == streamed = 0 /\ meant = <<>> /\ stated = {} /\ buffers = <<>> /\ ended = FALSE /\ finish = "stop"

InPhase ==
  /\ phase \notin {"streaming", "answered"} => NothingRead
  /\ phase = "calling" => content = <<>> /\ toolCalls = <<>>
  /\ phase \in {"calling", "streaming", "answered"} => round > 0
  /\ phase = "streaming" => provider = "codex" /\ finish = "stop" /\ ended = FALSE

\* The number before that of the first call of this answer.
Before == (round - 1) * MaxParallel

\* Read is what was sent: the text, and of each call either all of its arguments or, if
\* the events did not name it, none.
ReadAsSent ==
  /\ streamed \in Nat /\ meant \in Seq(Nat) /\ buffers \in Seq(Nat) /\ Len(buffers) = Len(meant)
  /\ content = [i \in 1..streamed |-> i]
  /\ \A c \in DOMAIN meant :
       /\ buffers[c] \in {0, meant[c]}
       /\ "delta" \in withIds => buffers[c] = meant[c]
       /\ "delta" \notin withIds /\ c \notin stated => buffers[c] = 0
  /\ \A i \in DOMAIN toolCalls : \E c \in DOMAIN meant : toolCalls[i] = [id |-> Before + c, args |-> meant[c]]
  /\ \A i, j \in DOMAIN toolCalls : toolCalls[i].id = toolCalls[j].id => i = j

Streamed ==
  /\ provider = "codex" /\ phase \in {"streaming", "answered"} /\ finish # "error" => ReadAsSent
  /\ provider = "codex" /\ phase = "answered" /\ finish = "stop" /\ ~ended => DoneCalls = DOMAIN meant

DialogueInv == DialogueTypes /\ Conversed /\ Requested /\ CallsNamed /\ InPhase /\ Streamed /\ SectionRunOrShown

\* The calls that are finished are those of the list.
LEMMA DoneFacts ==
  ASSUME DialogueTypes, ReadAsSent, round > 0
  PROVE  /\ Before \in Nat /\ DoneCalls = {toolCalls[i].id - Before : i \in DOMAIN toolCalls}
         /\ \A c : Call(c, meant[c]) = [id |-> Before + c, args |-> meant[c]]
         /\ DoneCalls \subseteq DOMAIN meant /\ DOMAIN meant = 1..Len(meant) /\ Len(meant) \in Nat
         /\ \A c \in DOMAIN meant : meant[c] \in Nat
         /\ \A c \in DoneCalls : \E i \in DOMAIN toolCalls : toolCalls[i] = [id |-> Before + c, args |-> meant[c]]
<1>1. Before \in Nat
  <2>1. round - 1 \in Nat /\ MaxParallel \in Nat
    BY DialogueAssumption DEF DialogueTypes
  <2> QED
    BY <2>1 DEF Before
<1>2. PICK b \in Nat : b = Before
  BY <1>1
<1>3. DoneCalls = {toolCalls[i].id - b : i \in DOMAIN toolCalls}
  BY <1>2 DEF DoneCalls, Before
<1>4. DOMAIN meant = 1..Len(meant) /\ Len(meant) \in Nat /\ \A c \in DOMAIN meant : meant[c] \in Nat
  BY LenProperties DEF ReadAsSent
<1>5. \A i \in DOMAIN toolCalls : \E c \in DOMAIN meant : toolCalls[i] = [id |-> b + c, args |-> meant[c]]
  BY <1>2 DEF ReadAsSent
<1>6. \A i \in DOMAIN toolCalls : \E c \in DOMAIN meant :
        /\ toolCalls[i] = [id |-> b + c, args |-> meant[c]] /\ toolCalls[i].id - b = c
  BY <1>4, <1>5
<1>7. ASSUME NEW c \in DoneCalls
      PROVE  c \in DOMAIN meant /\ \E i \in DOMAIN toolCalls : toolCalls[i] = [id |-> b + c, args |-> meant[c]]
  BY <1>3, <1>6
<1>8. \A c : Call(c, meant[c]) = [id |-> b + c, args |-> meant[c]]
  BY <1>2 DEF Call, Before
<1> QED
  BY <1>1, <1>2, <1>3, <1>4, <1>7, <1>8

LEMMA DialogueStart == DialogueInit => DialogueInv
<1> SUFFICES ASSUME DialogueInit PROVE DialogueInv
  OBVIOUS
<1>1. PICK s \in Entries, u \in Entries :
        s.role = "system" /\ s.call = NoCall /\ u.role = "user" /\ u.call = NoCall /\ messages = <<s, u>>
  <2>1. <<1>> \in Seq(Int) /\ 0 \in Int
    OBVIOUS
  <2>2. \A r \in {"system", "user"} : /\ Entry(r, <<1>>, NoCall) \in Entries
                                      /\ Entry(r, <<1>>, NoCall).role = r /\ Entry(r, <<1>>, NoCall).call = NoCall
    BY <2>1 DEF Entry, Entries, NoCall
  <2> QED
    BY <2>2 DEF DialogueInit
<1>2. Conversed
  <2>1. messages \in Seq(Entries) /\ messages # <<>> /\ DOMAIN messages = 1..2 /\ messages[1] = s /\ messages[2] = u
    BY <1>1
  <2>2. \A i \in 1..2 : i = 1 \/ i = 2
    OBVIOUS
  <2> QED
    BY <1>1, <2>1, <2>2 DEF Conversed
<1>3. DialogueTypes /\ InPhase
  BY EmptySeq DEF DialogueInit, DialogueTypes, InPhase, NothingRead
<1>4. Requested /\ CallsNamed /\ Streamed /\ SectionRunOrShown
  BY DEF DialogueInit, Requested, Paired, CallsNamed, Streamed, SectionRunOrShown
<1> QED
  BY <1>2, <1>3, <1>4 DEF DialogueInv

\* An event of the stream that leaves what was read as it was sent.
LEMMA EventKeeps ==
  ASSUME DialogueInv, NEW now, StreamEvent(now), now \in {"streaming", "answered"},
         finish' \in {"stop", "length"}, ended' \in BOOLEAN, content' \in Seq(Int), toolCalls' \in Seq(CallType),
         \A i \in DOMAIN toolCalls' : toolCalls'[i].id # NoCall,
         now = "streaming" => finish' = "stop" /\ ended' = FALSE,
         now = "answered" /\ finish' = "stop" /\ ~ended' => DoneCalls' = (DOMAIN meant)',
         ReadAsSent'
  PROVE  DialogueInv'
<1>1. phase = "streaming" /\ phase' = now /\ provider = "codex" /\ round > 0
      /\ UNCHANGED <<provider, withIds, messages, round, wire, verify, toRun, reply>>
  BY DEF StreamEvent, DialogueInv, InPhase
<1>2. DialogueTypes'
  BY <1>1 DEF DialogueInv, DialogueTypes
<1>3. Conversed' /\ Requested'
  BY <1>1 DEF DialogueInv, Conversed, Requested
<1>4. CallsNamed' /\ InPhase' /\ Streamed' /\ SectionRunOrShown'
  BY <1>1 DEF DialogueInv, CallsNamed, InPhase, Streamed, SectionRunOrShown
<1> QED
  BY <1>2, <1>3, <1>4 DEF DialogueInv

\* What an event begins with.
LEMMA EventFacts ==
  ASSUME DialogueInv, NEW now, StreamEvent(now)
  PROVE  /\ ReadAsSent /\ round > 0 /\ DialogueTypes /\ finish = "stop" /\ ended = FALSE
         /\ withIds' = withIds /\ round' = round /\ Before' = Before
         /\ \A i \in DOMAIN toolCalls : toolCalls[i].id # NoCall
         /\ content \in Seq(Int) /\ toolCalls \in Seq(CallType)
<1>1. phase = "streaming" /\ withIds' = withIds /\ round' = round
  BY DEF StreamEvent
<1>2. provider = "codex" /\ finish = "stop" /\ ended = FALSE /\ round > 0
  BY <1>1 DEF DialogueInv, InPhase
<1>3. ReadAsSent
  BY <1>1, <1>2 DEF DialogueInv, Streamed
<1> QED
  BY <1>1, <1>2, <1>3 DEF DialogueInv, CallsNamed, DialogueTypes, Before

LEMMA TextDeltaStep ==
  ASSUME DialogueInv, TextDelta
  PROVE  DialogueInv'
<1>1. /\ StreamEvent("streaming") /\ streamed' = streamed + 1 /\ content' = Append(content, streamed')
      /\ UNCHANGED <<meant, stated, ended, buffers, toolCalls, finish>>
  BY DEF TextDelta
<1>2. /\ ReadAsSent /\ finish = "stop" /\ ended = FALSE /\ withIds' = withIds /\ Before' = Before
      /\ (\A i \in DOMAIN toolCalls : toolCalls[i].id # NoCall)
      /\ content \in Seq(Int) /\ toolCalls \in Seq(CallType)
  BY <1>1, EventFacts
<1>3. PICK n \in Nat : n = streamed /\ content = [i \in 1..n |-> i]
  BY <1>2 DEF ReadAsSent
<1>4. Len(content) = n
  BY <1>2, <1>3, LenProperties
<1>5. content' = [i \in 1..(n + 1) |-> i] /\ content' \in Seq(Int)
  <2>1. /\ Append(content, n + 1) \in Seq(Int) /\ DOMAIN Append(content, n + 1) = 1..(n + 1)
        /\ \A i \in 1..n : Append(content, n + 1)[i] = i
        /\ Append(content, n + 1)[n + 1] = n + 1
    BY <1>2, <1>3, <1>4, QueueShape
  <2>2. \A i \in 1..(n + 1) : Append(content, n + 1)[i] = i
    BY <2>1
  <2>3. PICK c \in Seq(Int) : c = Append(content, n + 1)
    BY <2>1
  <2>4. c = [i \in DOMAIN c |-> c[i]]
    OBVIOUS
  <2>5. c = [i \in 1..(n + 1) |-> i]
    BY <2>1, <2>2, <2>3, <2>4
  <2> QED
    BY <1>1, <1>3, <2>3, <2>5
<1>6. ReadAsSent'
  BY <1>1, <1>2, <1>3, <1>5 DEF ReadAsSent
<1> QED
  BY <1>1, <1>2, <1>5, <1>6, EventKeeps

LEMMA CallAddedStep ==
  ASSUME DialogueInv, CallAdded
  PROVE  DialogueInv'
<1>1. /\ StreamEvent("streaming") /\ meant' = Append(meant, 0) /\ buffers' = Append(buffers, 0)
      /\ UNCHANGED <<streamed, stated, ended, content, toolCalls, finish>>
  BY DEF CallAdded
<1>2. /\ ReadAsSent /\ finish = "stop" /\ ended = FALSE /\ withIds' = withIds /\ Before' = Before
      /\ (\A i \in DOMAIN toolCalls : toolCalls[i].id # NoCall)
      /\ content \in Seq(Int) /\ toolCalls \in Seq(CallType)
  BY <1>1, EventFacts
<1>3. PICK n \in Nat : /\ n = Len(meant) /\ n = Len(buffers) /\ DOMAIN meant = 1..n
                       /\ meant \in Seq(Nat) /\ buffers \in Seq(Nat)
  BY <1>2, LenProperties DEF ReadAsSent
<1>4. /\ meant' \in Seq(Nat) /\ DOMAIN meant' = 1..(n + 1) /\ meant'[n + 1] = 0
      /\ \A c \in 1..n : meant'[c] = meant[c]
  BY <1>1, <1>3, QueueShape
<1>5. /\ buffers' \in Seq(Nat) /\ DOMAIN buffers' = 1..(n + 1) /\ buffers'[n + 1] = 0
      /\ \A c \in 1..n : buffers'[c] = buffers[c]
  BY <1>1, <1>3, QueueShape
<1>6. Len(buffers') = Len(meant')
  BY <1>4, <1>5, LenProperties
<1>7. ASSUME NEW c \in 1..(n + 1)
      PROVE  /\ buffers'[c] \in {0, meant'[c]}
             /\ "delta" \in withIds => buffers'[c] = meant'[c]
             /\ "delta" \notin withIds /\ c \notin stated => buffers'[c] = 0
  <2>1. CASE c = n + 1
    BY <1>4, <1>5, <2>1
  <2>2. CASE c \in 1..n
    BY <1>2, <1>3, <1>4, <1>5, <2>2 DEF ReadAsSent
  <2> QED
    BY <2>1, <2>2
<1>8. \A i \in DOMAIN toolCalls : \E c \in 1..(n + 1) : toolCalls[i] = [id |-> Before + c, args |-> meant'[c]]
  <2>1. \A i \in DOMAIN toolCalls : \E c \in 1..n : toolCalls[i] = [id |-> Before + c, args |-> meant[c]]
    BY <1>2, <1>3 DEF ReadAsSent
  <2>2. \A c \in 1..n : c \in 1..(n + 1)
    OBVIOUS
  <2> QED
    BY <1>4, <2>1, <2>2
<1>9. ReadAsSent'
  BY <1>1, <1>2, <1>4, <1>5, <1>6, <1>7, <1>8 DEF ReadAsSent
<1> QED
  BY <1>1, <1>2, <1>9, EventKeeps

LEMMA ArgumentsDeltaStep ==
  ASSUME DialogueInv, NEW d \in 1..MaxParallel, ArgumentsDelta(d)
  PROVE  DialogueInv'
<1>1. /\ StreamEvent("streaming") /\ d \in DOMAIN meant /\ d \notin DoneCalls /\ d \notin stated
      /\ meant' = [meant EXCEPT ![d] = @ + 1]
      /\ buffers' = IF "delta" \in withIds THEN [buffers EXCEPT ![d] = @ + 1] ELSE buffers
      /\ UNCHANGED <<streamed, stated, ended, content, toolCalls, finish>>
  BY DEF ArgumentsDelta
<1>2. /\ ReadAsSent /\ finish = "stop" /\ ended = FALSE /\ withIds' = withIds /\ Before' = Before
      /\ (\A i \in DOMAIN toolCalls : toolCalls[i].id # NoCall)
      /\ content \in Seq(Int) /\ toolCalls \in Seq(CallType) /\ DialogueTypes /\ round > 0
  BY <1>1, EventFacts
<1>3. PICK n \in Nat : /\ n = Len(meant) /\ n = Len(buffers) /\ DOMAIN meant = 1..n /\ DOMAIN buffers = 1..n
                       /\ meant \in Seq(Nat) /\ buffers \in Seq(Nat)
                       /\ \A c \in 1..n : meant[c] \in Nat /\ buffers[c] \in Nat
  <2>1. meant \in Seq(Nat) /\ buffers \in Seq(Nat) /\ Len(meant) = Len(buffers)
    BY <1>2 DEF ReadAsSent
  <2>2. \A s \in Seq(Nat) : Len(s) \in Nat /\ DOMAIN s = 1..Len(s) /\ \A c \in 1..Len(s) : s[c] \in Nat
    BY LenProperties
  <2> QED
    BY <2>1, <2>2
<1>4. /\ meant' \in Seq(Nat) /\ DOMAIN meant' = 1..n /\ meant'[d] = meant[d] + 1
      /\ \A c \in 1..n : c # d => meant'[c] = meant[c]
  <2>1. meant[d] + 1 \in Nat
    BY <1>1, <1>3
  <2> QED
    BY <1>1, <1>3, <2>1, ExceptSeq
<1>5. /\ buffers' \in Seq(Nat) /\ DOMAIN buffers' = 1..n
      /\ buffers'[d] = IF "delta" \in withIds THEN buffers[d] + 1 ELSE buffers[d]
      /\ \A c \in 1..n : c # d => buffers'[c] = buffers[c]
  <2>1. buffers[d] + 1 \in Nat
    BY <1>1, <1>3
  <2>2. CASE "delta" \in withIds
    BY <1>1, <1>3, <2>1, <2>2, ExceptSeq
  <2>3. CASE "delta" \notin withIds
    BY <1>1, <1>3, <2>3
  <2> QED
    BY <2>2, <2>3
<1>6. Len(buffers') = n /\ Len(meant') = n
  BY <1>4, <1>5, LenProperties
<1>7. ASSUME NEW c \in 1..n
      PROVE  /\ buffers'[c] \in {0, meant'[c]}
             /\ "delta" \in withIds => buffers'[c] = meant'[c]
             /\ "delta" \notin withIds /\ c \notin stated => buffers'[c] = 0
  <2>1. CASE c = d
    BY <1>1, <1>2, <1>3, <1>4, <1>5, <2>1 DEF ReadAsSent
  <2>2. CASE c # d
    BY <1>2, <1>3, <1>4, <1>5, <2>2 DEF ReadAsSent
  <2> QED
    BY <2>1, <2>2
<1>8. \A i \in DOMAIN toolCalls : \E c \in 1..n : toolCalls[i] = [id |-> Before + c, args |-> meant'[c]]
  <2>1. ASSUME NEW i \in DOMAIN toolCalls
        PROVE  \E c \in 1..n : toolCalls[i] = [id |-> Before + c, args |-> meant'[c]]
    <3>1. PICK c \in 1..n : toolCalls[i] = [id |-> Before + c, args |-> meant[c]]
      BY <1>2, <1>3 DEF ReadAsSent
    <3>2. Before \in Nat /\ DoneCalls = {toolCalls[j].id - Before : j \in DOMAIN toolCalls}
      BY <1>2, DoneFacts
    <3>3. c \in DoneCalls
      <4>1. toolCalls[i].id - Before = c
        BY <3>1, <3>2
      <4> QED
        BY <3>2, <4>1
    <3> QED
      BY <1>1, <1>4, <3>1, <3>3
  <2> QED
    BY <2>1
<1>9. ReadAsSent'
  <2>1. streamed' \in Nat /\ content' = [i \in 1..streamed' |-> i]
        /\ \A i, j \in DOMAIN toolCalls' : toolCalls'[i].id = toolCalls'[j].id => i = j
    BY <1>1, <1>2 DEF ReadAsSent
  <2>2. \A c \in DOMAIN meant' : /\ buffers'[c] \in {0, meant'[c]}
                                 /\ "delta" \in withIds' => buffers'[c] = meant'[c]
                                 /\ "delta" \notin withIds' /\ c \notin stated' => buffers'[c] = 0
    BY <1>1, <1>2, <1>4, <1>7
  <2>3. \A i \in DOMAIN toolCalls' : \E c \in DOMAIN meant' : toolCalls'[i] = [id |-> Before' + c, args |-> meant'[c]]
    BY <1>1, <1>2, <1>4, <1>8
  <2> QED
    BY <1>4, <1>5, <1>6, <2>1, <2>2, <2>3 DEF ReadAsSent
<1> QED
  BY <1>1, <1>2, <1>9, EventKeeps

LEMMA ArgumentsDoneStep ==
  ASSUME DialogueInv, NEW d \in 1..MaxParallel, ArgumentsDone(d)
  PROVE  DialogueInv'
<1>1. /\ StreamEvent("streaming") /\ d \in DOMAIN meant
      /\ stated' = stated \cup {d}
      /\ buffers' = IF "done" \in withIds THEN [buffers EXCEPT ![d] = meant[d]] ELSE buffers
      /\ UNCHANGED <<streamed, meant, ended, content, toolCalls, finish>>
  BY DEF ArgumentsDone
<1>2. /\ ReadAsSent /\ finish = "stop" /\ ended = FALSE /\ withIds' = withIds /\ Before' = Before
      /\ (\A i \in DOMAIN toolCalls : toolCalls[i].id # NoCall)
      /\ content \in Seq(Int) /\ toolCalls \in Seq(CallType)
  BY <1>1, EventFacts
<1>3. PICK n \in Nat : /\ n = Len(meant) /\ n = Len(buffers) /\ DOMAIN meant = 1..n /\ DOMAIN buffers = 1..n
                       /\ meant \in Seq(Nat) /\ buffers \in Seq(Nat)
                       /\ \A c \in 1..n : meant[c] \in Nat /\ buffers[c] \in Nat
  <2>1. meant \in Seq(Nat) /\ buffers \in Seq(Nat) /\ Len(meant) = Len(buffers)
    BY <1>2 DEF ReadAsSent
  <2>2. \A s \in Seq(Nat) : Len(s) \in Nat /\ DOMAIN s = 1..Len(s) /\ \A c \in 1..Len(s) : s[c] \in Nat
    BY LenProperties
  <2> QED
    BY <2>1, <2>2
<1>4. /\ buffers' \in Seq(Nat) /\ DOMAIN buffers' = 1..n
      /\ buffers'[d] = IF "done" \in withIds THEN meant[d] ELSE buffers[d]
      /\ \A c \in 1..n : c # d => buffers'[c] = buffers[c]
  <2>1. CASE "done" \in withIds
    BY <1>1, <1>3, <2>1, ExceptSeq
  <2>2. CASE "done" \notin withIds
    BY <1>1, <1>3, <2>2
  <2> QED
    BY <2>1, <2>2
<1>5. Len(buffers') = n
  BY <1>4, LenProperties
<1>6. ASSUME NEW c \in 1..n
      PROVE  /\ buffers'[c] \in {0, meant[c]}
             /\ "delta" \in withIds => buffers'[c] = meant[c]
             /\ "delta" \notin withIds /\ c \notin stated' => buffers'[c] = 0
  <2>1. CASE c = d
    BY <1>1, <1>2, <1>3, <1>4, <2>1 DEF ReadAsSent
  <2>2. CASE c # d
    BY <1>1, <1>2, <1>3, <1>4, <2>2 DEF ReadAsSent
  <2> QED
    BY <2>1, <2>2
<1>7. ReadAsSent'
  BY <1>1, <1>2, <1>3, <1>4, <1>5, <1>6 DEF ReadAsSent
<1> QED
  BY <1>1, <1>2, <1>7, EventKeeps

LEMMA ItemDoneStep ==
  ASSUME DialogueInv, NEW d \in 1..MaxParallel, ItemDone(d)
  PROVE  DialogueInv'
<1>1. /\ StreamEvent("streaming") /\ d \in DOMAIN meant /\ d \notin DoneCalls
      /\ toolCalls' = Append(toolCalls, Call(d, IF buffers[d] > 0 THEN buffers[d] ELSE meant[d]))
      /\ UNCHANGED <<streamed, meant, stated, ended, content, buffers, finish>>
  BY DEF ItemDone
<1>2. /\ ReadAsSent /\ finish = "stop" /\ ended = FALSE /\ withIds' = withIds /\ Before' = Before
      /\ (\A i \in DOMAIN toolCalls : toolCalls[i].id # NoCall)
      /\ content \in Seq(Int) /\ toolCalls \in Seq(CallType) /\ DialogueTypes /\ round > 0
  BY <1>1, EventFacts
<1>3. /\ Before \in Nat /\ DoneCalls = {toolCalls[j].id - Before : j \in DOMAIN toolCalls}
      /\ Call(d, meant[d]) = [id |-> Before + d, args |-> meant[d]]
      /\ meant[d] \in Nat /\ d \in Nat /\ d > 0
  <2>1. /\ Before \in Nat /\ DoneCalls = {toolCalls[i].id - Before : i \in DOMAIN toolCalls}
        /\ \A c : Call(c, meant[c]) = [id |-> Before + c, args |-> meant[c]]
        /\ DOMAIN meant = 1..Len(meant) /\ Len(meant) \in Nat
        /\ \A c \in DOMAIN meant : meant[c] \in Nat
    BY <1>2, DoneFacts
  <2>2. d \in Nat /\ d > 0 /\ meant[d] \in Nat
    BY <1>1, <2>1
  <2>3. Call(d, meant[d]) = [id |-> Before + d, args |-> meant[d]]
    BY DEF Call, Before
  <2> QED
    BY <2>1, <2>2, <2>3
<1>4. (IF buffers[d] > 0 THEN buffers[d] ELSE meant[d]) = meant[d]
  <2>1. buffers[d] \in {0, meant[d]}
    BY <1>1, <1>2 DEF ReadAsSent
  <2> QED
    BY <1>3, <2>1
<1>5. PICK t \in CallType : t = [id |-> Before + d, args |-> meant[d]] /\ t.id = Before + d
  BY <1>3 DEF CallType
<1>6. toolCalls' = Append(toolCalls, t)
  BY <1>1, <1>3, <1>4, <1>5
<1>7. PICK n \in Nat : n = Len(toolCalls) /\ DOMAIN toolCalls = 1..n
  BY <1>2, LenProperties
<1>8. /\ toolCalls' \in Seq(CallType) /\ DOMAIN toolCalls' = 1..(n + 1) /\ toolCalls'[n + 1] = t
      /\ \A i \in 1..n : toolCalls'[i] = toolCalls[i]
  BY <1>2, <1>6, <1>7, QueueShape
<1>9. \A i \in 1..(n + 1) : i = n + 1 \/ i \in 1..n
  OBVIOUS
<1>10. \A i \in 1..(n + 1) : \E c \in DOMAIN meant : toolCalls'[i] = [id |-> Before + c, args |-> meant[c]]
  <2>1. \A i \in 1..n : \E c \in DOMAIN meant : toolCalls[i] = [id |-> Before + c, args |-> meant[c]]
    BY <1>2, <1>7 DEF ReadAsSent
  <2>2. \E c \in DOMAIN meant : t = [id |-> Before + c, args |-> meant[c]]
    BY <1>1, <1>5
  <2> QED
    BY <1>8, <1>9, <2>1, <2>2
<1>11. \A i \in 1..n : toolCalls[i].id # t.id
  <2>1. ASSUME NEW i \in 1..n, toolCalls[i].id = t.id PROVE FALSE
    <3>1. toolCalls[i].id - Before = d
      BY <1>3, <1>5, <2>1
    <3> QED
      BY <1>1, <1>3, <1>7, <3>1
  <2> QED
    BY <2>1
<1>12. \A i, j \in 1..(n + 1) : toolCalls'[i].id = toolCalls'[j].id => i = j
  <2>1. \A i, j \in 1..n : toolCalls[i].id = toolCalls[j].id => i = j
    BY <1>2, <1>7 DEF ReadAsSent
  <2> QED
    BY <1>8, <1>9, <1>11, <2>1
<1>13. \A i \in 1..(n + 1) : toolCalls'[i].id # NoCall
  <2>1. t.id # NoCall
    BY <1>3, <1>5 DEF NoCall
  <2> QED
    BY <1>2, <1>7, <1>8, <1>9, <2>1
<1>14. ReadAsSent'
  <2>1. \A i \in DOMAIN toolCalls' : \E c \in DOMAIN meant' : toolCalls'[i] = [id |-> Before' + c, args |-> meant'[c]]
    BY <1>1, <1>2, <1>8, <1>10
  <2>2. \A i, j \in DOMAIN toolCalls' : toolCalls'[i].id = toolCalls'[j].id => i = j
    BY <1>8, <1>12
  <2> QED
    BY <1>1, <1>2, <2>1, <2>2 DEF ReadAsSent
<1> QED
  BY <1>1, <1>2, <1>8, <1>13, <1>14, EventKeeps

LEMMA AnswerEndsStep ==
  ASSUME DialogueInv, CutOff \/ \E status \in {"completed", "incomplete"} : Completed(status)
  PROVE  DialogueInv'
<1>1. /\ StreamEvent("answered") /\ UNCHANGED <<streamed, meant, stated, content, buffers, toolCalls>>
      /\ finish' = "stop" /\ ~ended' => DoneCalls = DOMAIN meant
  BY DEF CutOff, Completed
<1>2. /\ ReadAsSent /\ finish = "stop" /\ ended = FALSE /\ withIds' = withIds /\ Before' = Before /\ round' = round
      /\ (\A i \in DOMAIN toolCalls : toolCalls[i].id # NoCall)
      /\ content \in Seq(Int) /\ toolCalls \in Seq(CallType)
  BY <1>1, EventFacts
<1>3. finish' \in {"stop", "length"} /\ ended' \in BOOLEAN
  BY <1>2 DEF CutOff, Completed
<1>4. DoneCalls' = DoneCalls
  BY <1>1, <1>2 DEF DoneCalls
<1>5. ReadAsSent'
  BY <1>1, <1>2 DEF ReadAsSent
<1> QED
  BY <1>1, <1>2, <1>3, <1>4, <1>5, EventKeeps

\* A failure is an answer without calls.
LEMMA ErrorStep ==
  ASSUME DialogueInv, Error, phase \in {"calling", "streaming"}, UNCHANGED <<verify, ended>>
  PROVE  DialogueInv'
<1>1. /\ phase' = "answered" /\ finish' = "error" /\ content' = <<ErrorText>> /\ toolCalls' = <<>>
      /\ UNCHANGED <<provider, withIds, messages, round, wire, streamed, meant, stated, buffers, toRun, reply, ended>>
  BY DEF Error
<1>2. <<ErrorText>> \in Seq(Int) /\ <<>> \in Seq(CallType)
  BY EmptySeq DEF ErrorText
<1>3. DialogueTypes'
  BY <1>1, <1>2 DEF DialogueInv, DialogueTypes
<1>4. Conversed' /\ Requested'
  BY <1>1 DEF DialogueInv, Conversed, Requested
<1>5. CallsNamed' /\ InPhase' /\ Streamed'
  BY <1>1 DEF DialogueInv, CallsNamed, InPhase, Streamed
<1>6. SectionRunOrShown'
  BY <1>1 DEF SectionRunOrShown
<1> QED
  BY <1>3, <1>4, <1>5, <1>6 DEF DialogueInv

LEMMA AskStep ==
  ASSUME DialogueInv, Ask
  PROVE  DialogueInv'
<1>1. /\ phase = "asking" /\ round' = round + 1 /\ wire' = Wire /\ phase' = "calling"
      /\ content' = <<>> /\ toolCalls' = <<>>
      /\ UNCHANGED <<provider, withIds, messages, verify, streamed, meant, stated, ended, buffers, finish, toRun, reply>>
  BY DEF Ask
<1>2. <<>> \in Seq(Int) /\ <<>> \in Seq(CallType)
  BY EmptySeq
<1>3. provider \in {"codex", "custom", "litellm"} /\ Conversed
  BY DEF DialogueInv, DialogueTypes
<1>4. Wire \in Seq(Entries) /\ Paired(Wire) /\ (provider # "codex" => \A i \in DOMAIN Wire : Wire[i].text # <<>>)
  BY <1>3, WireFacts
<1>5. PICK w \in Seq(Entries) : w = wire' /\ Paired(w) /\ (provider # "codex" => \A i \in DOMAIN w : w[i].text # <<>>)
  BY <1>1, <1>4
<1>6. Requested'
  BY <1>1, <1>5 DEF Requested, Paired
<1>7. DialogueTypes'
  BY <1>1, <1>2, <1>5 DEF DialogueInv, DialogueTypes
<1>8. Conversed'
  BY <1>1, <1>3 DEF Conversed
<1>9. CallsNamed' /\ Streamed' /\ SectionRunOrShown'
  BY <1>1 DEF DialogueInv, CallsNamed, Streamed, SectionRunOrShown
<1>10. InPhase'
  <2>1. round' > 0
    BY <1>1 DEF DialogueInv, DialogueTypes
  <2> QED
    BY <1>1, <2>1 DEF DialogueInv, InPhase, NothingRead
<1> QED
  BY <1>6, <1>7, <1>8, <1>9, <1>10 DEF DialogueInv

LEMMA OpenStreamStep ==
  ASSUME DialogueInv, OpenStream
  PROVE  DialogueInv'
<1>1. /\ provider = "codex" /\ phase = "calling" /\ phase' = "streaming"
      /\ UNCHANGED <<provider, withIds, messages, round, wire, streamVars, toRun, reply>>
  BY DEF OpenStream
<1>2. UNCHANGED <<streamed, meant, stated, ended, content, buffers, toolCalls, finish>>
  BY <1>1 DEF streamVars
<1>3. NothingRead /\ content = <<>> /\ toolCalls = <<>> /\ round > 0
  BY <1>1 DEF DialogueInv, InPhase
<1>4. ReadAsSent
  <2>1. <<>> \in Seq(Nat) /\ DOMAIN <<>> = {} /\ <<>> = [i \in 1..0 |-> i]
    BY EmptySeq
  <2> QED
    BY <1>3, <2>1 DEF ReadAsSent, NothingRead
<1>5. ReadAsSent'
  BY <1>1, <1>2, <1>4 DEF ReadAsSent, Before
<1>6. DialogueTypes' /\ Conversed' /\ Requested' /\ CallsNamed' /\ SectionRunOrShown'
  BY <1>1, <1>2 DEF DialogueInv, DialogueTypes, Conversed, Requested, CallsNamed, SectionRunOrShown
<1>7. InPhase' /\ Streamed'
  BY <1>1, <1>2, <1>3, <1>5 DEF InPhase, NothingRead, Streamed
<1> QED
  BY <1>6, <1>7 DEF DialogueInv

\* What changes neither the conversation nor the answer.
LEMMA IdleStep ==
  ASSUME DialogueInv,
         \/ GiveUp \/ CertificateFails \/ UNCHANGED dialogueVars
  PROVE  DialogueInv'
<1>1. /\ UNCHANGED <<provider, withIds, messages, round, wire, streamed, meant, stated, ended, content, buffers,
                     toolCalls, finish, toRun>>
      /\ phase' = phase \/ (phase = "asking" /\ phase' = "replied")
  BY DEF GiveUp, CertificateFails, dialogueVars, streamVars
<1>2. DialogueTypes'
  BY <1>1 DEF DialogueInv, DialogueTypes
<1>3. Conversed' /\ Requested'
  BY <1>1 DEF DialogueInv, Conversed, Requested
<1>4. CallsNamed' /\ InPhase' /\ SectionRunOrShown'
  BY <1>1 DEF DialogueInv, CallsNamed, InPhase, NothingRead, SectionRunOrShown
<1>5. Streamed'
  BY <1>1 DEF DialogueInv, Streamed, ReadAsSent, Before, DoneCalls
<1> QED
  BY <1>2, <1>3, <1>4, <1>5 DEF DialogueInv

\* The sections of a text that are run are not shown.
LEMMA WholeStep ==
  ASSUME DialogueInv, NEW t \in WholeTexts, NEW number \in {0, MaxParallel}, Whole(t, number)
  PROVE  DialogueInv'
<1>1. /\ provider # "codex" /\ phase = "calling" /\ phase' = "answered" /\ finish' = "stop"
      /\ UNCHANGED <<provider, withIds, messages, round, wire, verify, streamed, meant, stated, ended, buffers, toRun,
                     reply>>
  BY DEF Whole
<1>2. t \in Seq(Int) /\ number \in Nat
  <2>1. PICK n \in 0..MaxTokens : t \in [1..n -> {1} \cup Sections]
    BY DEF WholeTexts
  <2>2. {1} \cup Sections \subseteq Int /\ n \in Nat
    BY DialogueAssumption DEF Sections, Malformed
  <2>3. t \in [1..n -> Int]
    BY <2>1, <2>2
  <2> QED
    BY <2>2, <2>3, DialogueAssumption
<1>3. round > 0 /\ round \in Nat
  BY <1>1 DEF DialogueInv, DialogueTypes, InPhase
<1>4. Before \in Nat
  <2>1. round - 1 \in Nat /\ MaxParallel \in Nat
    BY <1>3, DialogueAssumption
  <2> QED
    BY <2>1 DEF Before
<1>5. /\ content' \in Seq(Int) /\ toolCalls' \in Seq(CallType)
      /\ \A i \in DOMAIN toolCalls' : toolCalls'[i].id # NoCall
      /\ \A i \in DOMAIN toolCalls' : toolCalls'[i].id \in Sections => toolCalls'[i].id \notin ToSet(content')
  <2>1. CASE provider = "custom" /\ number = 0
    <3>1. PICK found : found = TextCalls(t)
      OBVIOUS
    <3>2. /\ content' = found.text
          /\ toolCalls' = [i \in DOMAIN found.sections |-> [id |-> found.sections[i], args |-> 0]]
      BY <2>1, <3>1 DEF Whole
    <3>3. found.text \in Seq(Int)
          /\ (\/ found.sections = <<>>
              \/ \E section \in Sections : found.sections = <<section>> /\ section \notin ToSet(found.text))
      BY <1>2, <3>1, TextCallsFacts
    <3>4. CASE found.sections = <<>>
      <4>1. toolCalls' = <<>>
        BY <3>2, <3>4
      <4> QED
        BY <3>2, <3>3, <4>1, EmptySeq
    <3>5. ASSUME NEW section \in Sections, found.sections = <<section>>, section \notin ToSet(found.text)
          PROVE  <1>5!1 /\ <1>5!2 /\ <1>5!3
      <4>1. section \in Int /\ section # NoCall
        BY DEF Sections, Malformed, NoCall
      <4>2. PICK c \in CallType : c = [id |-> section, args |-> 0] /\ c.id = section
        <5>1. 0 \in Int
          OBVIOUS
        <5>2. [id |-> section, args |-> 0] \in CallType
          BY <4>1, <5>1 DEF CallType
        <5> QED
          BY <5>2
      <4>3. toolCalls' = [i \in 1..1 |-> c]
        BY <3>2, <3>5, <4>2
      <4>4. toolCalls' \in Seq(CallType) /\ DOMAIN toolCalls' = 1..1 /\ \A i \in 1..1 : toolCalls'[i] = c
        BY <4>3, IsASeq
      <4> QED
        BY <3>2, <3>3, <3>5, <4>1, <4>2, <4>4
    <3> QED
      BY <3>3, <3>4, <3>5
  <2>2. CASE ~(provider = "custom" /\ number = 0)
    <3>1. content' = t /\ toolCalls' = [i \in 1..number |-> Call(i, 0)]
      BY <2>2 DEF Whole
    <3>2. \A i \in 1..number : Call(i, 0) = [id |-> Before + i, args |-> 0]
      BY DEF Call, Before
    <3>3. \A i \in 1..number : Call(i, 0) \in CallType /\ Call(i, 0).id > 0
      BY <1>2, <1>4, <3>2 DEF CallType
    <3>4. toolCalls' \in Seq(CallType) /\ DOMAIN toolCalls' = 1..number
      BY <1>2, <3>1, <3>3, IsASeq
    <3>5. \A i \in 1..number : toolCalls'[i].id > 0 /\ toolCalls'[i].id \in Int
      BY <3>1, <3>3 DEF CallType
    <3>6. \A i \in 1..number : toolCalls'[i].id # NoCall /\ toolCalls'[i].id \notin Sections
      BY <3>5 DEF NoCall, Sections, Malformed
    <3> QED
      BY <1>2, <3>1, <3>4, <3>6
  <2> QED
    BY <2>1, <2>2
<1>6. DialogueTypes' /\ Conversed' /\ Requested'
  BY <1>1, <1>5 DEF DialogueInv, DialogueTypes, Conversed, Requested
<1>7. CallsNamed' /\ InPhase' /\ Streamed' /\ SectionRunOrShown'
  BY <1>1, <1>3, <1>5 DEF DialogueInv, CallsNamed, InPhase, NothingRead, Streamed, SectionRunOrShown
<1> QED
  BY <1>6, <1>7 DEF DialogueInv

LEMMA ConcludeStep ==
  ASSUME DialogueInv, Conclude
  PROVE  DialogueInv'
<1>1. /\ phase = "answered"
      /\ \/ toolCalls # <<>> /\ phase' = "running" /\ toRun' = toolCalls
         \/ phase' = "replied" /\ toRun' = toRun
      /\ streamed' = 0 /\ meant' = <<>> /\ stated' = {} /\ ended' = FALSE /\ buffers' = <<>> /\ finish' = "stop"
      /\ UNCHANGED <<provider, withIds, messages, round, wire, content, toolCalls>>
  BY DEF Conclude
<1>2. DialogueTypes' /\ Conversed' /\ Requested'
  BY <1>1 DEF DialogueInv, DialogueTypes, Conversed, Requested
<1>3. CallsNamed' /\ InPhase' /\ Streamed' /\ SectionRunOrShown'
  BY <1>1 DEF DialogueInv, CallsNamed, InPhase, NothingRead, Streamed, SectionRunOrShown
<1> QED
  BY <1>2, <1>3 DEF DialogueInv

\* A tool is run: its call and its result are added to the conversation.
LEMMA RunToolStep ==
  ASSUME DialogueInv, NEW result \in Results, RunTool(result)
  PROVE  DialogueInv'
<1>1. /\ phase = "running" /\ toRun' = Tail(toRun)
      /\ messages' = messages \o << Entry("assistant", content, Head(toRun).id), Entry("tool", result, Head(toRun).id) >>
      /\ phase' = IF toRun' = <<>> THEN "asking" ELSE "running"
      /\ UNCHANGED <<provider, withIds, round, wire, streamVars, reply>>
  BY DEF RunTool
<1>2. /\ UNCHANGED <<streamed, meant, stated, ended, content, buffers, toolCalls, finish>>
  BY <1>1 DEF streamVars
<1>3. toRun \in Seq(CallType) /\ toRun # <<>> /\ content \in Seq(Int) /\ Conversed
  BY <1>1 DEF DialogueInv, DialogueTypes, CallsNamed
<1>4. /\ Head(toRun) \in CallType /\ Head(toRun) = toRun[1] /\ 1 \in DOMAIN toRun
      /\ toRun' \in Seq(CallType)
      /\ \A i \in DOMAIN toRun' : i + 1 \in DOMAIN toRun /\ toRun'[i] = toRun[i + 1]
  BY <1>1, <1>3, QueueShape
<1>5. PICK call \in Int : call = Head(toRun).id /\ call # NoCall
  BY <1>4 DEF DialogueInv, CallsNamed, CallType
<1>6. result \in Seq(Int)
  <2>1. <<>> \in Seq(Int) /\ <<1>> \in Seq(Int)
    OBVIOUS
  <2> QED
    BY <2>1 DEF Results
<1>7. PICK a \in Entries, t \in Entries :
        /\ a.role = "assistant" /\ a.call = call /\ t.role = "tool" /\ t.call = call
        /\ messages' = messages \o <<a, t>>
  <2>1. Entry("assistant", content, call) \in Entries /\ Entry("tool", result, call) \in Entries
    BY <1>3, <1>6 DEF Entry, Entries
  <2> QED
    BY <1>1, <1>5, <2>1 DEF Entry
<1>8. PICK two \in Seq(Entries) : /\ two = <<a, t>> /\ Len(two) = 2 /\ two[1] = a /\ two[2] = t
  <2>1. <<a, t>> \in Seq(Entries) /\ Len(<<a, t>>) = 2 /\ <<a, t>>[1] = a /\ <<a, t>>[2] = t
    OBVIOUS
  <2> QED
    BY <2>1
<1>9. PICK n \in Nat : n = Len(messages) /\ DOMAIN messages = 1..n /\ n > 0 /\ messages \in Seq(Entries)
  BY <1>3, LenProperties, EmptySeq DEF Conversed
<1>10. /\ messages' \in Seq(Entries) /\ DOMAIN messages' = 1..(n + 2) /\ Len(messages') = n + 2
       /\ messages'[n + 1] = a /\ messages'[n + 2] = t
       /\ \A i \in 1..n : messages'[i] = messages[i]
  <2>1. /\ messages \o two \in Seq(Entries) /\ Len(messages \o two) = n + 2
        /\ \A i \in 1..(n + 2) : (messages \o two)[i] = IF i <= n THEN messages[i] ELSE two[i - n]
    BY <1>8, <1>9, ConcatProperties
  <2>2. PICK m \in Seq(Entries) : m = messages' /\ m = messages \o two
    BY <1>7, <1>8, <2>1
  <2>3. Len(m) = n + 2 /\ \A i \in 1..(n + 2) : m[i] = IF i <= n THEN messages[i] ELSE two[i - n]
    BY <2>1, <2>2
  <2>4. DOMAIN m = 1..(n + 2)
    BY <2>3, LenProperties
  <2>5. m[n + 1] = two[1] /\ m[n + 2] = two[2] /\ \A i \in 1..n : m[i] = messages[i]
    BY <2>3
  <2> QED
    BY <1>8, <2>2, <2>3, <2>4, <2>5
<1>11. Conversed'
  <2> DEFINE Fits(i) ==
        /\ messages'[i].role \in {"system", "user"} => messages'[i].call = NoCall
        /\ messages'[i].role = "assistant" => /\ i < Len(messages') /\ messages'[i].call # NoCall
                                             /\ messages'[i + 1].role = "tool"
                                             /\ messages'[i + 1].call = messages'[i].call
        /\ messages'[i].role = "tool" => /\ i > 1 /\ messages'[i - 1].role = "assistant"
                                        /\ messages'[i - 1].call = messages'[i].call
        /\ messages'[i].role # "call"
  <2>1. ASSUME NEW i \in 1..n PROVE Fits(i)
    <3>1. /\ messages[i].role \in {"system", "user"} => messages[i].call = NoCall
          /\ messages[i].role = "assistant" => /\ i < n /\ messages[i].call # NoCall
                                               /\ messages[i + 1].role = "tool"
                                               /\ messages[i + 1].call = messages[i].call
          /\ messages[i].role = "tool" => /\ i > 1 /\ messages[i - 1].role = "assistant"
                                          /\ messages[i - 1].call = messages[i].call
          /\ messages[i].role # "call"
      BY <1>3, <1>9 DEF Conversed
    <3>2. i < n => messages'[i + 1] = messages[i + 1]
      BY <1>10
    <3>3. i > 1 => messages'[i - 1] = messages[i - 1]
      BY <1>10
    <3>4. messages'[i] = messages[i] /\ i < Len(messages')
      BY <1>10
    <3> QED
      BY <3>1, <3>2, <3>3, <3>4
  <2>2. Fits(n + 1)
    <3>1. n + 1 < Len(messages') /\ n + 1 + 1 = n + 2 /\ messages'[n + 1] = a /\ messages'[n + 2] = t
      BY <1>10
    <3> QED
      BY <1>5, <1>7, <3>1
  <2>3. Fits(n + 2)
    <3>1. n + 2 > 1 /\ messages'[n + 2 - 1] = a /\ messages'[n + 2] = t
      BY <1>10
    <3>2. /\ messages'[n + 2].role = "tool" /\ messages'[n + 2 - 1].role = "assistant"
          /\ messages'[n + 2 - 1].call = messages'[n + 2].call
      BY <1>7, <3>1
    <3> QED
      BY <3>1, <3>2
  <2>4. \A i \in 1..(n + 2) : i \in 1..n \/ i = n + 1 \/ i = n + 2
    OBVIOUS
  <2>5. \A i \in DOMAIN messages' : Fits(i)
    <3> HIDE DEF Fits
    <3> QED
      BY <1>10, <2>1, <2>2, <2>3, <2>4
  <2>6. messages' # <<>> /\ messages'[1].role = "system"
    <3>1. messages'[1] = messages[1] /\ Len(messages') # 0
      BY <1>9, <1>10
    <3> QED
      BY <1>3, <1>10, <3>1, EmptySeq DEF Conversed
  <2> QED
    BY <1>10, <2>5, <2>6 DEF Conversed
<1>12. DialogueTypes' /\ Requested'
  BY <1>1, <1>2, <1>4 DEF DialogueInv, DialogueTypes, Requested
<1>13. CallsNamed'
  BY <1>1, <1>2, <1>4 DEF DialogueInv, CallsNamed
<1>14. InPhase' /\ Streamed' /\ SectionRunOrShown'
  BY <1>1, <1>2 DEF DialogueInv, InPhase, NothingRead, Streamed, SectionRunOrShown
<1> QED
  BY <1>11, <1>12, <1>13, <1>14 DEF DialogueInv

LEMMA DialogueStep == DialogueInv /\ [DialogueNext]_dialogueVars => DialogueInv'
<1> SUFFICES ASSUME DialogueInv, [DialogueNext]_dialogueVars PROVE DialogueInv'
  OBVIOUS
<1>1. CASE CodexFails \/ WholeFails
  <2>1. Error /\ phase \in {"calling", "streaming"} /\ UNCHANGED <<verify, ended>>
    BY <1>1 DEF CodexFails, WholeFails
  <2> QED
    BY <2>1, ErrorStep
<1>2. CASE StreamNext
  BY <1>2, TextDeltaStep, CallAddedStep, ArgumentsDeltaStep, ArgumentsDoneStep, ItemDoneStep, AnswerEndsStep
  DEF StreamNext
<1> QED
  BY <1>1, <1>2, AskStep, OpenStreamStep, IdleStep, WholeStep, ConcludeStep, RunToolStep DEF DialogueNext

\* Requests hold each call with its result, and what is read is what was sent.
LEMMA ExchangeKept == DialogueInv => DialogueKept
<1> SUFFICES ASSUME DialogueInv PROVE DialogueKept
  OBVIOUS
<1>1. RequestWellFormed
  BY DEF DialogueInv, Requested, Paired, RequestWellFormed
<1>2. AnswerAsStreamed
  <2> SUFFICES ASSUME provider = "codex", phase = "answered", finish # "error" PROVE AnswerAsStreamed
    BY DEF AnswerAsStreamed
  <2>1. ReadAsSent /\ DialogueTypes /\ round > 0
    BY DEF DialogueInv, Streamed, InPhase
  <2>2. /\ \A c : Call(c, meant[c]) = [id |-> Before + c, args |-> meant[c]]
        /\ \A c \in DoneCalls : \E i \in DOMAIN toolCalls : toolCalls[i] = [id |-> Before + c, args |-> meant[c]]
    BY <2>1, DoneFacts
  <2>3. \A c \in DoneCalls : Call(c, meant[c]) \in ToSet(toolCalls)
    BY <2>2 DEF ToSet
  <2>4. IsInjective(toolCalls)
    BY <2>1 DEF ReadAsSent, IsInjective
  <2>5. content = [i \in 1..streamed |-> i]
    BY <2>1 DEF ReadAsSent
  <2>6. finish = "stop" /\ ~ended => DoneCalls = DOMAIN meant
    BY DEF DialogueInv, Streamed
  <2> QED
    BY <2>3, <2>4, <2>5, <2>6 DEF AnswerAsStreamed
<1> QED
  BY <1>1, <1>2 DEF DialogueInv, DialogueKept

\* One answer of the mind: no call goes without its result, and none of the stream is lost.
THEOREM ExchangeStays == DialogueSpec => []DialogueKept
BY DialogueStart, DialogueStep, ExchangeKept, PTL DEF DialogueSpec

LEMMA FunctionsAreSequences ==
  ASSUME NEW S, NEW n \in Nat, NEW f \in [1..n -> S]
  PROVE  f \in Seq(S)
OBVIOUS

\* As many calls are finished as there are different ones in the list.
LEMMA FinishedAreFew ==
  DialogueTypes /\ ReadAsSent /\ round > 0 /\ Len(meant) <= MaxParallel => Len(toolCalls) <= MaxParallel
<1> SUFFICES ASSUME DialogueTypes, ReadAsSent, round > 0, Len(meant) <= MaxParallel
             PROVE  Len(toolCalls) <= MaxParallel
  OBVIOUS
<1>1. PICK b \in Nat : b = Before
  BY DoneFacts
<1>2. PICK n \in Nat : n = Len(toolCalls) /\ DOMAIN toolCalls = 1..n
  BY LenProperties DEF DialogueTypes
<1>3. PICK m \in Nat : m = Len(meant) /\ DOMAIN meant = 1..m
  BY LenProperties DEF ReadAsSent
<1>4. \A i \in 1..n : toolCalls[i].id \in Int /\ toolCalls[i].id - b \in 1..m
  <2>1. \A i \in DOMAIN toolCalls : \E c \in DOMAIN meant : toolCalls[i] = [id |-> b + c, args |-> meant[c]]
    BY <1>1 DEF ReadAsSent
  <2>2. \A i \in DOMAIN toolCalls : \E c \in DOMAIN meant : toolCalls[i].id = b + c
    BY <2>1
  <2>3. \A c \in DOMAIN meant : b + c \in Int /\ b + c - b = c
    BY <1>3
  <2>4. \A i \in DOMAIN toolCalls : toolCalls[i].id \in Int /\ toolCalls[i].id - b \in DOMAIN meant
    BY <2>2, <2>3
  <2> QED
    BY <1>2, <1>3, <2>4
<1>5. PICK f : f = [i \in 1..n |-> toolCalls[i].id - b]
  OBVIOUS
<1>6. \A i, j \in 1..n : f[i] = f[j] => i = j
  <2>1. \A i \in 1..n : toolCalls[i].id \in Int
    BY <1>4
  <2>2. \A i, j \in 1..n : toolCalls[i].id = toolCalls[j].id => i = j
    BY <1>2 DEF ReadAsSent
  <2> QED
    BY <1>1, <1>5, <2>1, <2>2
<1>7. f \in Injection(1..n, 1..m)
  BY <1>4, <1>5, <1>6 DEF Injection, IsInjective
<1>8. Cardinality(1..n) <= Cardinality(1..m)
  BY <1>7, FS_Injection, FS_Interval
<1>10. Cardinality(1..n) = n /\ Cardinality(1..m) = m
  <2>1. \A k \in Nat : Cardinality(1..k) = IF 1 > k THEN 0 ELSE k - 1 + 1
    BY FS_Interval
  <2> QED
    BY <2>1
<1>9. n <= m
  BY <1>8, <1>10
<1> QED
  BY <1>2, <1>3, <1>9, DialogueAssumption

\* Only a running answer has calls that are left.
DialogueTyped ==
  /\ DialogueTypeOK /\ Len(meant) <= MaxParallel
  /\ phase # "running" => toRun = <<>>

LEMMA DialogueTypedStep ==
  ASSUME DialogueInv, DialogueInv', DialogueTyped, DialogueNext
  PROVE  DialogueTyped'
<1> DEFINE Others ==
      /\ provider \in {"codex", "custom", "litellm"} /\ round \in 0..MaxRounds
      /\ phase \in {"asking", "calling", "streaming", "answered", "running", "replied"}
      /\ finish \in {"stop", "length", "error"} /\ ended \in BOOLEAN
      /\ \A i \in DOMAIN messages : messages[i].role \in {"system", "user", "assistant", "tool"}
<1> DEFINE Rest ==
      /\ verify \in BOOLEAN /\ withIds \subseteq {"delta", "done"} /\ stated \subseteq 1..MaxParallel
      /\ reply \in {"none", "text", "sorry", "complex"}
      /\ streamed \in 0..MaxPieces /\ meant \in Seq(0..MaxPieces) /\ buffers \in Seq(0..MaxPieces)
      /\ Len(toolCalls) <= MaxParallel /\ Len(toRun) <= Len(toolCalls)
      /\ Len(meant) <= MaxParallel /\ (phase # "running" => toRun = <<>>)
<1>1. Others' /\ Rest' => DialogueTyped'
  BY DEF DialogueTyped, DialogueTypeOK
<1>2. Rest /\ round \in 0..MaxRounds
  BY DEF DialogueTyped, DialogueTypeOK
<1>3. {MaxRounds, MaxParallel, MaxPieces, MaxTokens} \subseteq Nat \ {0}
  BY DialogueAssumption
<1>4. ASSUME round' \in 0..MaxRounds PROVE Others'
  <2>1. DialogueTypes' /\ Conversed'
    BY DEF DialogueInv
  <2>2. ASSUME NEW i \in (DOMAIN messages)' PROVE messages'[i].role \in {"system", "user", "assistant", "tool"}
    <3>2. messages' \in Seq(Entries) /\ messages'[i].role # "call"
      BY <2>1 DEF Conversed
    <3>1. messages'[i] \in Entries /\ messages'[i].role # "call"
      BY <3>2, ElementOfSeq, LenProperties
    <3> QED
      BY <3>1 DEF Entries
  <2> QED
    BY <1>4, <2>1, <2>2 DEF DialogueTypes
<1> HIDE DEF Others, Rest
<1>5. ASSUME Ask \/ GiveUp \/ OpenStream \/ CertificateFails PROVE DialogueTyped'
  <2>1. round' \in 0..MaxRounds
    BY <1>2, <1>3, <1>5 DEF Ask, GiveUp, OpenStream, CertificateFails, streamVars
  <2>2. phase # "running" /\ toRun = <<>> /\ toRun' = toRun
    BY <1>2, <1>5 DEF Rest, Ask, GiveUp, OpenStream, CertificateFails
  <2>3. toolCalls' \in {toolCalls, <<>>} /\ reply' \in {reply, "complex"} /\ verify' \in {verify, FALSE}
        /\ UNCHANGED <<withIds, stated, streamed, meant, buffers>>
    BY <1>5 DEF Ask, GiveUp, OpenStream, CertificateFails, streamVars
  <2>4. Len(toolCalls') <= MaxParallel /\ Len(toRun') <= Len(toolCalls')
    BY <1>2, <1>3, <2>2, <2>3 DEF Rest
  <2>5. Rest'
    BY <1>2, <2>2, <2>3, <2>4 DEF Rest
  <2> QED
    BY <1>1, <1>4, <2>1, <2>5
<1>6. ASSUME CodexFails \/ WholeFails PROVE DialogueTyped'
  <2>2. phase # "running" /\ toRun = <<>> /\ toRun' = toRun /\ toolCalls' = <<>>
    BY <1>2, <1>6 DEF Rest, CodexFails, WholeFails, Error
  <2>3. Len(toolCalls') <= MaxParallel /\ Len(toRun') <= Len(toolCalls')
    BY <1>3, <2>2
  <2>4. UNCHANGED <<withIds, stated, streamed, meant, buffers, reply, verify, round>>
    BY <1>6 DEF CodexFails, WholeFails, Error
  <2>1. Rest' /\ round' = round
    BY <1>2, <2>2, <2>3, <2>4 DEF Rest
  <2> QED
    BY <1>1, <1>2, <1>4, <2>1
<1>7. ASSUME StreamNext PROVE DialogueTyped'
  <2>1. phase = "streaming" /\ phase' \in {"streaming", "answered"}
        /\ round' = round /\ verify' = verify /\ toRun' = toRun /\ reply' = reply /\ withIds' = withIds
        /\ provider' = provider
    BY <1>7 DEF StreamNext, StreamEvent, TextDelta, CallAdded, CutOff, ArgumentsDelta, ArgumentsDone, ItemDone, Completed
  <2>2. toRun = <<>>
    BY <1>2, <2>1 DEF Rest
  <2>3. /\ streamed' \in 0..MaxPieces /\ meant' \in Seq(0..MaxPieces) /\ buffers' \in Seq(0..MaxPieces)
        /\ Len(meant') <= MaxParallel /\ stated' \subseteq 1..MaxParallel
    <3>1. CASE TextDelta \/ CutOff \/ \E status \in {"completed", "incomplete"} : Completed(status)
      <4>1. UNCHANGED <<meant, buffers, stated>> /\ streamed' \in 0..MaxPieces
        BY <1>2, <1>3, <3>1 DEF Rest, TextDelta, CutOff, Completed
      <4> QED
        BY <1>2, <4>1 DEF Rest
    <3>2. CASE CallAdded
      <4>1. meant' = Append(meant, 0) /\ buffers' = Append(buffers, 0) /\ 0 \in 0..MaxPieces
            /\ streamed' = streamed /\ stated' = stated /\ Len(meant) < MaxParallel
        BY <1>3, <3>2 DEF CallAdded
      <4>2. Len(meant') = Len(meant) + 1 /\ Len(meant) \in Nat
        BY <1>2, <4>1, AppendProperties, LenProperties DEF Rest
      <4> QED
        BY <1>2, <1>3, <4>1, <4>2, AppendProperties DEF Rest
    <3>3. ASSUME NEW c \in 1..MaxParallel, ArgumentsDelta(c)
          PROVE  /\ streamed' \in 0..MaxPieces /\ meant' \in Seq(0..MaxPieces) /\ buffers' \in Seq(0..MaxPieces)
                 /\ Len(meant') <= MaxParallel /\ stated' \subseteq 1..MaxParallel
      <4>1. c \in DOMAIN meant /\ meant[c] < MaxPieces /\ meant' = [meant EXCEPT ![c] = meant[c] + 1]
            /\ buffers' \in {buffers, [buffers EXCEPT ![c] = buffers[c] + 1]}
            /\ streamed' = streamed /\ stated' = stated
        BY <3>3 DEF ArgumentsDelta
      <4>2. meant[c] \in 0..MaxPieces /\ meant[c] + 1 \in 0..MaxPieces
        BY <1>2, <1>3, <4>1, ElementOfSeq DEF Rest
      <4>3. meant' \in Seq(0..MaxPieces) /\ Len(meant') = Len(meant)
        BY <1>2, <4>1, <4>2, ExceptSeq, LenProperties DEF Rest
      <4>4. ReadAsSent'
        BY <2>1, <3>3 DEF DialogueInv, Streamed, InPhase, ArgumentsDelta, StreamEvent
      <4>5. buffers' \in Seq(0..MaxPieces)
        <5>1. PICK m \in Nat : m = Len(meant') /\ DOMAIN meant' = 1..m /\ Len(buffers') = m /\ DOMAIN buffers' = 1..m
          BY <4>3, <4>4, LenProperties DEF ReadAsSent
        <5>2. \A d \in 1..m : buffers'[d] \in {0, meant'[d]} /\ meant'[d] \in 0..MaxPieces
          BY <4>3, <4>4, <5>1, ElementOfSeq DEF ReadAsSent
        <5>3. \A d \in 1..m : buffers'[d] \in 0..MaxPieces
          BY <1>3, <5>2
        <5>4. buffers' \in Seq(Nat)
          BY <4>4 DEF ReadAsSent
        <5>5. PICK b \in Seq(Nat) : b = buffers'
          BY <5>4
        <5>6. b \in [1..m -> 0..MaxPieces]
          BY <5>1, <5>3, <5>5
        <5>7. b \in Seq(0..MaxPieces)
          BY <5>6, FunctionsAreSequences
        <5> QED
          BY <5>5, <5>7
      <4> QED
        BY <1>2, <4>1, <4>3, <4>5 DEF Rest
    <3>4. ASSUME NEW c \in 1..MaxParallel, ArgumentsDone(c)
          PROVE  /\ streamed' \in 0..MaxPieces /\ meant' \in Seq(0..MaxPieces) /\ buffers' \in Seq(0..MaxPieces)
                 /\ Len(meant') <= MaxParallel /\ stated' \subseteq 1..MaxParallel
      <4>1. c \in DOMAIN meant /\ meant' = meant /\ buffers' \in {buffers, [buffers EXCEPT ![c] = meant[c]]}
            /\ streamed' = streamed /\ stated' = stated \cup {c}
        BY <3>4 DEF ArgumentsDone
      <4>2. meant[c] \in 0..MaxPieces
        BY <1>2, <4>1, ElementOfSeq, LenProperties DEF Rest
      <4>3. ReadAsSent
        BY <2>1, <3>4 DEF DialogueInv, Streamed, InPhase, ArgumentsDone, StreamEvent
      <4>4. c \in DOMAIN buffers
        BY <4>1, <4>3, LenProperties DEF ReadAsSent
      <4>5. buffers' \in Seq(0..MaxPieces)
        BY <1>2, <4>1, <4>2, <4>4, ExceptSeq, LenProperties DEF Rest
      <4> QED
        BY <1>2, <4>1, <4>5 DEF Rest
    <3>5. ASSUME NEW c \in 1..MaxParallel, ItemDone(c)
          PROVE  /\ streamed' \in 0..MaxPieces /\ meant' \in Seq(0..MaxPieces) /\ buffers' \in Seq(0..MaxPieces)
                 /\ Len(meant') <= MaxParallel /\ stated' \subseteq 1..MaxParallel
      BY <1>2, <3>5 DEF Rest, ItemDone
    <3> QED
      BY <1>7, <3>1, <3>2, <3>3, <3>4, <3>5 DEF StreamNext
  <2>4. provider = "codex" /\ round > 0 /\ finish' # "error"
    BY <1>7, <2>1 DEF DialogueInv, InPhase, StreamNext, TextDelta, CallAdded, CutOff, ArgumentsDelta, ArgumentsDone, ItemDone, Completed
  <2>5. ReadAsSent' /\ DialogueTypes'
    BY <2>1, <2>4 DEF DialogueInv, Streamed
  <2>6. Len(toolCalls') <= MaxParallel
    <3>1. (DialogueTypes /\ ReadAsSent /\ round > 0 /\ Len(meant) <= MaxParallel)'
      BY <2>1, <2>3, <2>4, <2>5
    <3>2. (DialogueTypes /\ ReadAsSent /\ round > 0 /\ Len(meant) <= MaxParallel => Len(toolCalls) <= MaxParallel)'
      BY FinishedAreFew, PTL
    <3> QED
      BY <3>1, <3>2
  <2>7. Len(toRun') = 0 /\ Len(toolCalls') \in Nat
    BY <2>1, <2>2, <2>5, LenProperties DEF DialogueTypes
  <2>8. Rest'
    BY <1>2, <2>1, <2>2, <2>3, <2>6, <2>7 DEF Rest
  <2> QED
    BY <1>1, <1>2, <1>4, <2>1, <2>8
<1>8. ASSUME Conclude PROVE DialogueTyped'
  <2>1. Rest' /\ round' = round
    <3>1. toRun' \in {toRun, toolCalls} /\ Len(toRun') <= Len(toolCalls') /\ toolCalls' = toolCalls
      BY <1>2, <1>8, LenProperties DEF Rest, Conclude, DialogueInv, DialogueTypes
    <3>2. phase' # "running" => toRun' = <<>>
      BY <1>2, <1>8 DEF Rest, Conclude
    <3>3. meant' = <<>> /\ buffers' = <<>> /\ <<>> \in Seq(0..MaxPieces) /\ Len(<<>>) = 0
      BY <1>8 DEF Conclude
    <3>4. stated' = {} /\ streamed' = 0 /\ verify' = TRUE /\ withIds' = withIds /\ reply' \in {reply, "text", "sorry"}
          /\ round' = round
      BY <1>8 DEF Conclude
    <3> QED
      BY <1>2, <1>3, <3>1, <3>2, <3>3, <3>4 DEF Rest
  <2> QED
    BY <1>1, <1>2, <1>4, <2>1
<1>9. ASSUME NEW t \in WholeTexts, NEW number \in {0, MaxParallel}, Whole(t, number) PROVE DialogueTyped'
  <2>1. /\ phase = "calling" /\ phase' = "answered"
        /\ UNCHANGED <<provider, withIds, messages, round, verify, streamed, meant, stated, ended, buffers, toRun, reply>>
    BY <1>9 DEF Whole
  <2>2. Len(toolCalls') <= MaxParallel /\ Len(toolCalls') \in Nat
    <3>1. CASE provider = "custom" /\ number = 0
      <4>1. PICK found : found = TextCalls(t).sections
        OBVIOUS
      <4>2. PICK bound \in 0..MaxTokens : t \in [1..bound -> {1} \cup Sections]
        BY <1>9 DEF WholeTexts
      <4>3. t \in Seq(Int)
        <5>1. \A s \in {1} \cup Sections : s \in Int
          BY DEF Sections, Malformed
        <5>2. bound \in Nat
          BY <1>3
        <5>3. t \in Seq({1} \cup Sections)
          BY <4>2, <5>2
        <5>4. {1} \cup Sections \subseteq Int
          BY <5>1
        <5> QED
          BY <5>3, <5>4
      <4>4. found = <<>> \/ \E s \in Sections : found = <<s>>
        BY <4>1, <4>3, TextCallsFacts
      <4>5. Len(found) \in {0, 1} /\ DOMAIN found = 1..Len(found)
        BY <4>4
      <4>6. toolCalls' = [i \in DOMAIN found |-> [id |-> found[i], args |-> 0]]
        BY <1>9, <3>1, <4>1 DEF Whole
      <4>7. Len(toolCalls') = Len(found)
        BY <4>5, <4>6
      <4> QED
        BY <1>3, <4>5, <4>7
    <3>2. CASE ~(provider = "custom" /\ number = 0)
      <4>1. toolCalls' = [i \in 1..number |-> Call(i, 0)] /\ number \in Nat
        BY <1>3, <1>9, <3>2 DEF Whole
      <4>2. Len(toolCalls') = number
        BY <4>1
      <4> QED
        BY <1>3, <4>1, <4>2
    <3> QED
      BY <3>1, <3>2
  <2>3. toRun = <<>> /\ Len(<<>>) = 0
    BY <1>2, <2>1 DEF Rest
  <2>4. Rest'
    BY <1>2, <2>1, <2>2, <2>3 DEF Rest
  <2> QED
    BY <1>1, <1>2, <1>4, <2>1, <2>4
<1>10. ASSUME NEW result \in Results, RunTool(result) PROVE DialogueTyped'
  <2>1. /\ toRun' = Tail(toRun) /\ phase' = IF toRun' = <<>> THEN "asking" ELSE "running"
        /\ phase = "running"
        /\ UNCHANGED <<withIds, round, verify, streamed, meant, stated, buffers, toolCalls, reply>>
    BY <1>10 DEF RunTool, streamVars
  <2>2. toRun # <<>> /\ toRun \in Seq(CallType)
    BY <2>1 DEF DialogueInv, CallsNamed, DialogueTypes
  <2>3. Len(toRun') = Len(toRun) - 1 /\ Len(toRun) \in Nat /\ Len(toolCalls) \in Nat
    BY <2>1, <2>2, HeadTailProperties, LenProperties DEF DialogueInv, DialogueTypes
  <2>4. Rest'
    BY <1>2, <2>1, <2>3 DEF Rest
  <2> QED
    BY <1>1, <1>2, <1>4, <2>1, <2>4
<1> QED
  BY <1>5, <1>6, <1>7, <1>8, <1>9, <1>10 DEF DialogueNext

\* The exchange with a provider keeps its types; no answer has more calls than it may.
THEOREM DialogueStaysTyped == DialogueSpec => []DialogueTypeOK
<1>1. DialogueInit => DialogueTyped
  <2> SUFFICES ASSUME DialogueInit PROVE DialogueTyped
    OBVIOUS
  <2>1. Len(<<>>) = 0 /\ <<>> \in Seq(0..MaxPieces)
    OBVIOUS
  <2>2. messages = <<Entry("system", <<1>>, NoCall), Entry("user", <<1>>, NoCall)>>
    BY DEF DialogueInit
  <2>3. \A i \in DOMAIN messages : messages[i].role \in {"system", "user", "assistant", "tool"}
    BY <2>2 DEF Entry
  <2>4. /\ round \in 0..MaxRounds /\ streamed \in 0..MaxPieces /\ Len(meant) <= MaxParallel
        /\ Len(toolCalls) <= MaxParallel /\ Len(toRun) <= Len(toolCalls)
        /\ meant \in Seq(0..MaxPieces) /\ buffers \in Seq(0..MaxPieces) /\ stated = {} /\ toRun = <<>>
    BY <2>1, DialogueAssumption DEF DialogueInit
  <2>5. provider \in {"codex", "custom", "litellm"} /\ withIds \subseteq {"delta", "done"} /\ phase = "asking"
        /\ verify = TRUE /\ ended = FALSE /\ finish = "stop" /\ reply = "none"
    BY DEF DialogueInit
  <2> QED
    BY <2>3, <2>4, <2>5 DEF DialogueTyped, DialogueTypeOK
<1>2. DialogueInv /\ DialogueInv' /\ DialogueTyped /\ [DialogueNext]_dialogueVars => DialogueTyped'
  <2>1. UNCHANGED dialogueVars /\ DialogueTyped => DialogueTyped'
    BY DEF dialogueVars, streamVars, DialogueTyped, DialogueTypeOK
  <2> QED
    BY <2>1, DialogueTypedStep
<1>3. DialogueTyped => DialogueTypeOK
  BY DEF DialogueTyped
<1> QED
  BY <1>1, <1>2, <1>3, DialogueStart, DialogueStep, PTL DEF DialogueSpec

\* Calls of a model go to the provider they are for, and come back whole.
THEOREM ModelCallsStay == ProvidersSpec /\ DialogueSpec => []ModelCallsKept
<1>1. CallsOwnEndpoint /\ DialogueKept => ModelCallsKept
  BY DEF ModelCallsKept
<1> QED
  BY <1>1, KeysGoHome, ExchangeStays, PTL

=============================================================================
