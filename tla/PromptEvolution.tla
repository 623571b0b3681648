--------------------------- MODULE PromptEvolution ---------------------------
(***************************************************************************)
(* The prompt pipeline (crabclaw/agent/prompt_evolution.py): candidates    *)
(* for a prompt file are generated, released to a share of the users       *)
(* (canary), measured, promoted into the file or rolled back, reviewed     *)
(* hunk by hunk and reset to the factory text.  Candidates and snapshots   *)
(* are files of their own; everything else is state.json, which is written *)
(* whole at the end of each operation.  The process may die between two    *)
(* writes.  A second instance, in the context builder, reads state.json    *)
(* when it is built and never again.                                       *)
(*                                                                         *)
(* A text is the set of sections that evolution has appended to the        *)
(* factory text; candidate c appends section c.  A hunk of a diff is a     *)
(* section that only one of the two texts has, numbered in file order.     *)
(* Scores, diffs for display and the history are left out.                 *)
(***************************************************************************)
EXTENDS Naturals, FiniteSets, Dicts

CONSTANTS
  Prompts,         \* the managed prompt files
  NumCandidates,   \* bound on candidates
  Reviewers,
  MinSamples,      \* outcomes before an automatic decision (12 in the life loop)
  MaxSamples,      \* bound on the outcomes counted per candidate
  MaxSeconds,      \* bound on the clock that snapshots are named by
  MaxOperations    \* bound on the operations, those of restarts apart

Candidates == 1..NumCandidates
NoCandidate == 0
Text == SUBSET Candidates
Factory == {}

ASSUME PromptAssumption ==
  /\ NumCandidates \in Nat /\ MinSamples \in Nat \ {0}
  /\ MaxSamples \in Nat /\ MaxSeconds \in Nat /\ MaxOperations \in Nat

VARIABLES
  second,      \* the clock, to the second
  text,        \* what each prompt file of the workspace holds
  snapshots,   \* versions/<file>/: the snapshots of each prompt file
  docs,        \* candidates/: for each candidate written, its file and text
  pipeline,    \* self._state of the instance that is operated
  stateFile,   \* state.json
  serving,     \* the deployments the context builder's instance has loaded
  operations   \* the number of operations so far

promptVars == <<second, text, snapshots, docs, pipeline, stateFile, serving, operations>>

Snapshot == [at : 0..MaxSeconds, text : Text]
NoSnapshot == [at |-> 0, text |-> Factory]
Deployment == [mode : {"none", "canary", "promoted", "rolled_back", "factory_reset"},
               candidate : Candidates \cup {NoCandidate}, previous : Snapshot]
NoDeployment == [mode |-> "none", candidate |-> NoCandidate, previous |-> NoSnapshot]
Draft == [accepted : SUBSET Candidates, rejected : SUBSET Candidates]
NoDraft == [accepted |-> {}, rejected |-> {}]

\* A status of "none" is a candidate that state.json does not list.
PipelineState ==
  [deploy : [Prompts -> Deployment],
   status : [Candidates -> {"none", "created", "canary", "promoted", "rejected"}],
   calls  : [Candidates -> Nat], successes : [Candidates -> Nat],
   drafts : [Candidates -> [Reviewers -> Draft]]]

PromptInit ==
  /\ second = 0 /\ operations = 0
  /\ text = [f \in Prompts |-> Factory]
  /\ snapshots = [f \in Prompts |-> {}]
  /\ docs = <<>>
  /\ pipeline = [deploy |-> [f \in Prompts |-> NoDeployment],
                 status |-> [c \in Candidates |-> "none"],
                 calls  |-> [c \in Candidates |-> 0], successes |-> [c \in Candidates |-> 0],
                 drafts |-> [c \in Candidates |-> [r \in Reviewers |-> NoDraft]]]
  /\ stateFile = pipeline /\ serving = pipeline.deploy

-----------------------------------------------------------------------------
(* How an operation begins and ends *)

Operate == operations < MaxOperations /\ operations' = operations + 1

\* _save_state, after which the operation returns.
Saved(s) == pipeline' = s /\ stateFile' = s /\ UNCHANGED serving

\* An exception leaves the changes made in memory, to be saved by a later operation.
Raised(s) == pipeline' = s /\ UNCHANGED <<stateFile, serving>>

(* The process dies and starts again: both instances run _load_state.      *)
Restarted == pipeline' = stateFile /\ serving' = stateFile.deploy /\ UNCHANGED stateFile

Listed(c) == pipeline.status[c] # "none"

(* _snapshot_current: the version of a file is named by the second and a   *)
(* hash of its text.                                                       *)
Current(f) == [at |-> second, text |-> text[f]]
WithSnapshot(f) == [snapshots EXCEPT ![f] = @ \cup {Current(f)}]

\* The last one in the order of the names; within a second that is the order of hashes.
Newest(f) == {v \in snapshots[f] : \A w \in snapshots[f] : w.at <= v.at}

(* The writes of an operation on a file's text, in their order: snapshot,  *)
(* text, and state.json, which is not reached when `known' does not hold.  *)
Overwrite(f, new, snaps, s, known) ==
  \/ snapshots' = snaps /\ UNCHANGED text /\ Restarted
  \/ /\ snapshots' = snaps
     /\ text' = [text EXCEPT ![f] = new]
     /\ \/ IF known THEN Saved(s) ELSE Raised(s)
        \/ Restarted

-----------------------------------------------------------------------------
(* Candidates and releases *)

(* generate_candidate_content and _create_candidate: the file of the       *)
(* candidate is written first, then state.json.                            *)
Generate(f) ==
  LET c == Cardinality(DOMAIN docs) + 1 IN
  /\ Operate
  /\ c \in Candidates
  /\ docs' = WithEntry(docs, c, [file |-> f, text |-> text[f] \cup {c}])
  /\ \/ Saved([pipeline EXCEPT !.status[c] = "created"])
     \/ Restarted
  /\ UNCHANGED <<second, text, snapshots>>

(* canary_release: of a candidate that state.json does not list, the       *)
(* deployment is entered before the KeyError.                              *)
CanaryRelease(c) ==
  LET canary == [mode |-> "canary", candidate |-> c, previous |-> NoSnapshot]
      s      == [pipeline EXCEPT !.deploy[docs[c].file] = canary]
  IN
  /\ Operate
  /\ IF Listed(c) THEN Saved([s EXCEPT !.status[c] = "canary"]) ELSE Raised(s)
  /\ UNCHANGED <<second, text, snapshots, docs>>

Promoted(s, f, c) ==
  [s EXCEPT !.deploy[f] = [mode |-> "promoted", candidate |-> c, previous |-> Current(f)],
            !.status[c] = IF @ = "none" THEN @ ELSE "promoted"]

\* Fault seed: the file is overwritten before it is copied.
PromoteThenSnapshot(c) ==
  LET f     == docs[c].file
      wrong == [at |-> second, text |-> docs[c].text]
  IN
  /\ Operate
  /\ Overwrite(f, docs[c].text, [snapshots EXCEPT ![f] = @ \cup {wrong}],
               [Promoted(pipeline, f, c) EXCEPT !.deploy[f].previous = wrong], Listed(c))
  /\ UNCHANGED <<second, docs>>

\* Fault seed: the deployment is saved before the version and the file are written.
PromoteStateFirst(c) ==
  LET f == docs[c].file
      s == Promoted(pipeline, f, c)
  IN
  /\ Operate
  /\ \/ Overwrite(f, docs[c].text, WithSnapshot(f), s, Listed(c))
     \/ pipeline' = s /\ stateFile' = s /\ serving' = s.deploy /\ UNCHANGED <<text, snapshots>>
  /\ UNCHANGED <<second, docs>>

(* promote *)
Promote(c) ==
  LET f == docs[c].file IN
  /\ Operate
  /\ Overwrite(f, docs[c].text, WithSnapshot(f), Promoted(pipeline, f, c), Listed(c))
  /\ UNCHANGED <<second, docs>>

\* A deployment's mode is changed when there is one; what it names stays.
InMode(s, f, mode) ==
  IF s.deploy[f] = NoDeployment THEN s ELSE [s EXCEPT !.deploy[f].mode = mode]

(* rollback, to the version asked for or to the newest, without a snapshot *)
(* of what it overwrites.                                                  *)
RollBack(f) ==
  /\ Operate
  /\ \E v \in snapshots[f] :
       Overwrite(f, v.text, snapshots, InMode(pipeline, f, "rolled_back"), TRUE)
  /\ UNCHANGED <<second, docs>>

(* factory_reset *)
FactoryReset(f) ==
  /\ Operate
  /\ Overwrite(f, Factory, WithSnapshot(f), InMode(pipeline, f, "factory_reset"), TRUE)
  /\ UNCHANGED <<second, docs>>

-----------------------------------------------------------------------------
(* Outcomes and automatic decisions, both called by the life loop *)

UnderCanary(s) == {s.deploy[f].candidate : f \in {g \in Prompts : s.deploy[g].mode = "canary"}}

(* ingest_runtime_outcome counts an action for every candidate under       *)
(* canary, in the order of the deployments; one that is not listed raises, *)
(* and those after it are not counted.                                     *)
Ingest(success) ==
  LET active == UnderCanary(pipeline)
      listed == {c \in active : Listed(c)}
      counted(C) == [pipeline EXCEPT
        !.calls     = [c \in Candidates |-> @[c] + IF c \in C THEN 1 ELSE 0],
        !.successes = [c \in Candidates |-> @[c] + IF c \in C /\ success THEN 1 ELSE 0]]
  IN
  /\ Operate
  /\ active # {} /\ \A c \in active : pipeline.calls[c] < MaxSamples
  /\ \E C \in SUBSET listed :
       /\ active = listed => C = listed
       /\ C # {} /\ Saved(counted(C))
  /\ UNCHANGED <<second, text, snapshots, docs>>

(* auto_decide_deployments for one file, with evaluate_candidate_online    *)
(* and the thresholds of the life loop: errors of 45 % roll back, a        *)
(* success rate of 78 % with errors of 20 % at most promotes.              *)
Decision(f) ==
  LET c      == pipeline.deploy[f].candidate
      calls  == pipeline.calls[c]
      good   == 100 * pipeline.successes[c]
      errors == 100 * calls - good
  IN
  IF pipeline.deploy[f].mode # "canary" \/ calls < MinSamples THEN "wait"
  ELSE CASE errors >= 45 * calls -> "rollback"
         [] errors < 45 * calls /\ good >= 78 * calls /\ errors <= 20 * calls -> "promote"
         [] OTHER -> "wait"

\* Fault seed: a rolled back deployment is left as it is when there is no snapshot.
LeftInPlace(f) == pipeline.deploy[f]

\* The deployment of a bad canary: rolled back, or dropped when no snapshot was ever taken.
AfterBadCanary(f) ==
  IF snapshots[f] = {} THEN NoDeployment
  ELSE [pipeline.deploy[f] EXCEPT !.mode = "rolled_back"]

(* auto_decide_deployments over all files.  Each promote and rollback in   *)
(* it also saves; a death in between leaves what the death in the middle   *)
(* of that operation leaves.                                               *)
AutoDecide ==
  LET bad  == {f \in Prompts : Decision(f) = "rollback"}
      good == {f \in Prompts : Decision(f) = "promote"}
      cand(f) == pipeline.deploy[f].candidate
      kept(f) == snapshots[f] # {}
      deployed(f) ==
        CASE f \in good -> [mode |-> "promoted", candidate |-> cand(f), previous |-> Current(f)]
          [] f \in bad  -> AfterBadCanary(f)
          [] OTHER      -> pipeline.deploy[f]
      status(c) == CASE \E f \in good : cand(f) = c -> "promoted"
                     [] \E f \in bad  : cand(f) = c -> "rejected"
                     [] OTHER                       -> pipeline.status[c]
  IN
  /\ Operate
  /\ bad \cup good # {}
  /\ \E v \in [{f \in bad : kept(f)} -> Snapshot] :
       /\ \A f \in DOMAIN v : v[f] \in Newest(f)
       /\ text' = [f \in Prompts |-> CASE f \in good     -> docs[cand(f)].text
                                       [] f \in DOMAIN v -> v[f].text
                                       [] OTHER          -> text[f]]
  /\ snapshots' = [f \in Prompts |-> snapshots[f] \cup IF f \in good THEN {Current(f)} ELSE {}]
  /\ Saved([pipeline EXCEPT !.deploy = [f \in Prompts |-> deployed(f)],
                            !.status = [c \in Candidates |-> status(c)]])
  /\ UNCHANGED <<second, docs>>

-----------------------------------------------------------------------------
(* Review of single hunks *)

(* _candidate_blocks compares the candidate with the file as it is now.    *)
Changed(c) ==
  LET f == docs[c].file IN (text[f] \ docs[c].text) \cup (docs[c].text \ text[f])
HunkOf(c, s) == Cardinality({x \in Changed(c) : x <= s})
Hunks(c) == 1..Cardinality(Changed(c))

(* save_review_draft replaces the reviewer's draft. *)
SaveDraft(c, r) ==
  /\ Operate
  /\ \E yes \in SUBSET Hunks(c) : \E no \in SUBSET (Hunks(c) \ yes) :
       Saved([pipeline EXCEPT !.drafts[c][r] = [accepted |-> yes, rejected |-> no]])
  /\ UNCHANGED <<second, text, snapshots, docs>>

(* clear_review_draft for one reviewer or for all of them *)
ClearDrafts(c, R) ==
  /\ Operate
  /\ \E r \in R : pipeline.drafts[c][r] # NoDraft
  /\ Saved([pipeline EXCEPT !.drafts[c] =
              [r \in Reviewers |-> IF r \in R THEN NoDraft ELSE @[r]]])
  /\ UNCHANGED <<second, text, snapshots, docs>>

(* review_conflicts and generate_review_conclusion: the hunks that a       *)
(* majority of at least minVotes votes accepts.                            *)
Accepted(c, minVotes) ==
  LET yes(h) == Cardinality({r \in Reviewers : h \in pipeline.drafts[c][r].accepted})
      no(h)  == Cardinality({r \in Reviewers : h \in pipeline.drafts[c][r].rejected})
  IN  {h \in Hunks(c) : yes(h) + no(h) >= minVotes /\ yes(h) > no(h)}

(* apply_selected_blocks: the file with the accepted hunks replaced by the *)
(* candidate's; the drafts of the candidate are dropped.                   *)
ApplyHunks(c, accepted) ==
  LET f      == docs[c].file
      taken  == {x \in Changed(c) : HunkOf(c, x) \in accepted}
      merged == {x \in Candidates : IF x \in taken THEN x \in docs[c].text ELSE x \in text[f]}
      s      == [pipeline EXCEPT !.drafts[c] = [r \in Reviewers |-> NoDraft]]
  IN
  /\ Operate
  /\ Overwrite(f, merged, WithSnapshot(f), s, TRUE)
  /\ UNCHANGED <<second, docs>>

ApplyConclusion(c) == ApplyHunks(c, Accepted(c, 1))

-----------------------------------------------------------------------------
NextSecond ==
  /\ second < MaxSeconds /\ second' = second + 1
  /\ UNCHANGED <<text, snapshots, docs, pipeline, stateFile, serving, operations>>

(* The process dies between two operations and starts again.               *)
RestartPipeline ==
  Restarted /\ UNCHANGED <<second, text, snapshots, docs, operations>>

PromptNext ==
  \/ \E f \in Prompts : Generate(f) \/ RollBack(f) \/ FactoryReset(f)
  \/ \E c \in DOMAIN docs : CanaryRelease(c) \/ Promote(c) \/ ApplyConclusion(c)
  \/ \E c \in DOMAIN docs, r \in Reviewers : SaveDraft(c, r) \/ ClearDrafts(c, {r})
  \/ \E c \in DOMAIN docs : ClearDrafts(c, Reviewers)
  \/ \E success \in BOOLEAN : Ingest(success)
  \/ AutoDecide
  \/ NextSecond
  \/ RestartPipeline

PromptSpec == PromptInit /\ [][PromptNext]_promptVars

-----------------------------------------------------------------------------
(* Properties *)

PromptTypeOK ==
  /\ second \in 0..MaxSeconds /\ operations \in 0..MaxOperations
  /\ text \in [Prompts -> Text]
  /\ snapshots \in [Prompts -> SUBSET Snapshot]
  /\ DOMAIN docs \subseteq Candidates
  /\ \A c \in DOMAIN docs : docs[c] \in [file : Prompts, text : Text]
  /\ pipeline \in PipelineState /\ stateFile \in PipelineState
  /\ serving \in [Prompts -> Deployment]

Resolvable(deploy) ==
  \A f \in Prompts :
    /\ deploy[f].mode \in {"canary", "promoted"} =>
         deploy[f].candidate \in DOMAIN docs /\ docs[deploy[f].candidate].file = f
    /\ deploy[f].mode = "promoted" => deploy[f].previous \in snapshots[f]

(* Whatever instance looks at a deployment, and whenever the process died, *)
(* the candidate it names can be loaded and the snapshot taken before a    *)
(* promotion can be restored.  resolve_runtime_content raises otherwise,   *)
(* for every prompt that is built.                                         *)
DeploymentsResolve ==
  Resolvable(pipeline.deploy) /\ Resolvable(stateFile.deploy) /\ Resolvable(serving)

(* A candidate that was rejected by its measurements is not left under     *)
(* canary, in memory or in the state that a restart finds.                 *)
RejectedIsNotServed ==
  \A s \in {pipeline, stateFile} : \A c \in UnderCanary(s) : s.status[c] # "rejected"

(* A text that is overwritten was copied before, by promotion, reset and   *)
(* application of hunks; only a roll-back, which goes back to a copy, does *)
(* not copy.                                                               *)
OverwrittenTextIsKept ==
  [][\A f \in Prompts : text'[f] # text[f] =>
       \/ Current(f) \in snapshots'[f]
       \/ \E v \in snapshots[f] : text'[f] = v.text]_promptVars
=============================================================================
