# sre-kb in TLA+

A verification development for `sre_kb`, the engine under `src/src/sre_kb/` that scans a
repository, turns what it finds into SRE artifacts (alerts, runbooks, flows, resiliency patterns
and gaps), gates how far each may be trusted, lets a language model *propose* but never decide,
and publishes the result by pull request.  Two more commands look at several projects at once: the
estate joins scanned services into a topology, the atlas draws the dependencies of a code base.
Paths below are relative to `src/src/sre_kb/`.

    tlc -workers 2 -config MCRunKB.cfg MCRunKB.tla      # model-check one run
    tlapm TargetProofs.tla                              # check one proof module

`PROJECT.json` lists the runs, the definitions with the code lines each stands for, the mutants,
the hazards and the theorems.

## 1. The system

| Component | State it keeps | Operations | What is hard, and what makes it correct |
|---|---|---|---|
| **Validation gates** `validation/gating.py`, `challenge.py`, `safety.py`, `substance.py`, `provenance.py`, `structural.py` | the status of an artifact: verified, needs-review, rejected | `final_status`, content gate, grounding challenge, `apply_challenge_gating` | Many gates in sequence, later commands in any order. *Trust only falls; verified is earned at every gate; rejected has a cause; order is irrelevant.* |
| **Cross-references** `validation/crossref.py` | set of verified keys, in a loop | `check_crossrefs`, `status_aware_downgrades` | Cycles, chains, iteration order of a set. *Result closed under trust dependencies, the largest such set, loop ends.* |
| **Run directory** `workspace/layout.py`, `pipeline/orchestrator.py` | `.work/<run>/`: facts, candidates, `kb/<status>/`, `reports/`, worklists | `run` (passes 1–3), `reset_kb` | Re-runs under one id, two documents of one name, death between files. *Directory, report and readiness agree; nothing of an earlier run leaks.* |
| **Re-gating commands** `pipeline/challenge_apply.py`, `pipeline/confirm.py` | the same files | `challenge-apply`, `confirm-apply` | A move is a write and an unlink. *No artifact lost; the directory tells the status; foundations stay verified.* |
| **Autopilot, worklist, providers** `pipeline/autopilot.py`, `worklist_run.py`, `challenge_run.py`, `llm/provider.py`, `synth/worklist.py` | cycles of run directories, proposals in `.sre/`, cached replies | scan → worklist → provider → apply → ingest drafts | Provider failure, stale proposals, retries, death while a reply is stored. *A failed call decides nothing; a confirmation counts once; a replay ends where the first drive did; every drive ends.* |
| **Gap finder** `collectors/llm/gap_finder.py`, `pipeline/gap_finder.py` | none between scans | locate, re-derive, refute or graduate a proposal, cap, scaffold | Noise budgets, labels that evade a probe, names shared with the engine's own gaps. *Only a rule verifies; no label evades a probe; the budget drops the least severe.* |
| **Drafting exchanges** `pipeline/{alerts_draft,runbooks_draft,architecture,contract,areas,pcf_review,diagram_narration}.py` | proposals files, the KB and reports of a run | re-ground, draft, decorate | The code is of today, the KB and its ledger of an older run; death or a broken file in the middle. *Drafts only add; they stand on the run; advice names what no fact covers.* |
| **Graduation** `graduation/state.py`, `pipeline/graduation_draft.py` | `.sre/graduation-tracker.yaml` in the target | load, confirm, refute, save, candidates | Overlapping load–modify–save, death in a save, hand edits. *No verdict invented, none lost unless commands overlap; one false positive blocks.* |
| **Rendering and staging** `render/`, `publish/pr_builder.py` | `projections/`, `pr/` | `render_projections`, `assemble_pr` | Three sources (memory, KB, report) drift apart. *What is published is what the KB holds, and REVIEW.md is complete.* |
| **Secret gate** `security/secret_scan.py` | none | scan, redact | *Nothing leaves with a finding.* |
| **Publishing** `publish/manifest.py`, `publish/forge/github.py` | `.sre/manifest.yaml` and `.proposed/` in the target repository | `merge_tree`, `open_pr` | Concurrent operator, failed pushes, fixed branch name. *An edit is never reverted; the manifest is truthful; a merge delivers.* |
| **Atlas** `atlas/` | the generated directory and its `manifest.json` | collect manifests, sources, overlays; coupling and cycles; `write_atlas`, `atlas-check` | Packages shared by projects and lock files, Tarjan's low-links, degraded inputs, death between files. *Cycles are the components; a dependency meets its own lock; no input makes a dangling edge; what was just written has no drift.* |
| **Estate** `estate/` | the KB and the questions of one run id | scan the targets, join, gate, write | Names, slugs, hosts and the order of the targets. *The drawing does not depend on the order; a client is drawn or asked about; whoever calls a sharer is in the blast radius.* |
| **Drift** `drift/diff.py` | none | `diff` | Statuses and moves count as drift. *An untouched target has none.* |
| **Collectors, parsing, synthesis** `collectors/`, `parsing/`, `synth/scaffold.py`, `scan_plan.py` … | none (`scan_plan`: a file of services already done) | pure functions of source text | Pattern matching. |
| **Reporting, evaluation, scoring** `reporting/`, `eval/`, `scoring/`, `flow/` | none | pure summaries | – |
| **Command line** `cli.py`, `config.py` | none | the commands above | The order in which they may be issued. |

How they interact: `run` calls collectors and synthesis, gates every document in memory
(pass 1), takes down what rests on unverified artifacts (pass 2), and writes files (pass 3),
readiness score, report and worklists.  The commands `challenge-apply`, `confirm-apply` and
`autopilot` find the run again through its files.  Rendering reads the KB or what the run still
has in memory; staging reads the KB, the report and the projections; the forge reads the staged
tree and the target repository.  There are no threads: what makes interleavings are separate
processes, crashes, a language model that answers late or never, and people who work in the target
repository.

## 2. The modules

    Foundations ── CrossrefSpec ◁── Crossref ─┬─ MCCrossref
         │                                     └──┬─ GateProofs
    TrustGate ─┬─ TrustLife ──────────────────────┤
               ├─ GapFinder ─┬────────────────────┘    (GapFinder implements GapChoice)
               │             └─ MCGapFinder
               ├─ RunKB ─┬─ MCRunKB
               │         └─ RunPublish ── MCRunPublish, RunProofs
               ├─ Autopilot ── MCAutopilot, AutopilotProofs
               └─ Estate ── MCEstate, EstateProofs
    Drafts ── MCDrafts, DraftsProofs
    MergeTree ── ForgePublish ─┬─ MCForgePublish
                               ├─ TargetProofs
                  Graduation ──┴─ MCGraduation
    AtlasGraph ── AtlasManifests ─┬─ AtlasSource ───┬─ Atlas ── MCAtlas, AtlasProofs
                                  └─ AtlasOverlays ─┘        (AtlasProofs instantiates FoldLaws)

`◁──` and "implements" stand for a refinement, the other lines for EXTENDS.

**TrustGate** is the pure part of the gates as operators.  A document is what the gates read of
it: its preset status, its tier and one Boolean for the outcome of each validator.  `FinalStatus`,
`ContentGate`, `ChallengeGate` and `Adjudicate` are `final_status`, the lint branch of `run`,
`apply_challenge_gating` and `GroundingChallenger.adjudicate`; `PassOne` composes them in the
order of `orchestrator.py:171-198`.

**TrustLife** follows one artifact from its scaffold through pass 1 (`GateOnce`), passes 2 and 3
(`Finalize`) and then any number of `ChallengeApply` and `ConfirmRefute` steps.  `doc` is chosen
in `Init` among all combinations of gate outcomes a scaffold may come with; the fence (a document
of tier `llm` is never preset to verified, `scaffold_gap`) is part of that choice.

**CrossrefSpec** promises what pass 2 does in one step: keep the largest closed subset of the
claimed keys (`Foundations!LargestClosed`).  **Crossref** is the loop of
`status_aware_downgrades`, one action per key visited: `StartPass` takes the snapshot
`list(verified)` and resets `changed`, `Visit` keeps or discards one key in any order, `EndPass`,
`Return`.  The refinement maps `kept` to `verified` at the end and to `claimed` before.

**RunKB** is the run directory.  `at[a]` is the set of directories (= statuses) holding a file of
artifact `a`; a set, because a gap found by a collector and proposed by a model too ("twin") has
two documents of one name and may lie in two directories at once, and because a crash can leave
two copies.  A run is `BeginRun` (scan, scaffold and passes 1–2, in memory: any set of documents,
any statuses pass 1 can give them), `ResetKB`, one `PersistDoc` per document, `WriteReadiness`,
`WriteReport`, `Return`.  `challenge-apply` is `BeginChallenge`, then for each verdict `Rewrite`
(write the file in its new directory) and `Unlink` (remove the old one), `EndApply`.
`confirm-apply` is `BeginConfirm`, `Refute` or `EmitDisabled` for each re-derived dispute, the
same `Unlink`.  `IngestDraft` is what autopilot writes after its last cycle.  `Crash` ends any
command between two writes; one in `reset_kb` leaves any part of the tree.  `whole`, `torn`,
`heard` and `refuted` are history variables: no action's guard reads them except `IngestDraft`,
which needs a completed run as `run_autopilot` does.

**RunPublish** adds the projections and the staged tree to RunKB: `RenderRun` and `StageRun` (a
run with `--to-stage render` or `publish`, from memory), `Render` and `Publish` (the commands,
from disk).  They may happen whenever the code allows.  `DiffKB` and `Rescan` are the drift check
of a staged KB against a fresh scan of the same target.

**MergeTree** is `merge_tree` as functions on trees: a commit is its live files, the hashes its
manifest recorded and its `.proposed/` drafts.  **ForgePublish** is `GitHubForge.open_pr` split at
every call that can fail (`Clone`, `Commit`, `Push`, `Post`, `Fail`), against an operator who edits,
deletes, drops proposals, merges or closes the pull request and deletes the branch at any time.
git's merge is modelled file by file and manifest entry by entry (`ThreeWay`, `Mergeable`).

**Graduation** is the tracker of confirmed gap categories: `Load`, `Confirm` and `Refute` on the
copy in memory, `Save` (replace the file), `Quit` (nothing to save, an error, death before the
replace), by any number of processes at once, and the maintainer who breaks a record, breaks the
file or marks a category as promoted.  `Read` is the tolerant `load`.  What the file should hold
is kept in history variables no guard but `Save`'s reads: `given` (verdicts of completed
commands), `pending` (recorded, not saved), `stale` and `lost` (a copy older than the file, and
that one was saved), `damaged`, `byHand`.  `Save` reads `pending` as `confirm-apply` reads
`changed`.

**Autopilot** is the command `autopilot`: cycles of `Scan` (gate the target and the gap proposals
left in it, write the worklist), `Ask` (one provider call, through the reply cache), `Land` (the
output of a task: a proposals file in the target or verdicts in the run) and `Apply` (challenge and
confirm verdicts, and on the last cycle the graduation counts), then `Ingest`.  A prompt is named by
what it is rendered from; one drafting exchange stands for the seven, which differ in prompt and
file only.  `Edit` is the operator, `Crash` the death of the process, which may leave an empty file
in the cache.

**GapFinder** takes any proposals file against any target, as the engine sees it: a place in the
code is the kind of file and what each probe makes of the enclosing type.  `Judge` takes one
proposal through location, universe, refutation and re-derivation; `Budgeted` sorts the pools and
caps them; `Gate` scaffolds and gates.  A proposal is known by its position in the file, an anchor by
the positions it occurs at.  **GapChoice** is what that promises, in one step; GapFinder
implements it.

**Drafts** folds the seven exchanges into a run directory in the order of `_ingest_drafts`, one
action per exchange, and the commands that fold a single one.  `code` is the target of the moment,
`ledger`, `kb` and `pages` belong to a run that may be older; a file may be missing, garbage, of
the wrong shape (which raises) or a list.

**Estate** is `run_estate`: `Scan` each target, `DrawService` for each in turn (`Draw` is the body
of the loop in `build_estate`), `Ask` writes the questions of `ambiguous_call_edges`, `ResetKB`,
`WriteDoc` with the gates of TrustGate, `WriteReport`.  `mirror` is a history variable: the graph
that the same loop draws of the services from the last to the first.  `Touch` is an edit between the scan and the
re-hashing of the evidence.

**AtlasGraph** holds the graph with its merging of nodes and edges, coupling, and Tarjan's
algorithm as it is written (`Enter`, `LowerLink`, `BackEdge`, `Leave`; `Visit` is a recursive function
of the state of the search and a node not visited in it, `Explore` is its body and `Follow` what it does
with an edge; the index of a node is its place in the order of discovery).  **AtlasManifests** is one
operator per manifest adapter over the index of packages; **AtlasSource** one per language, each
resolving the references of its files; **AtlasOverlays** one per overlay.  What a parser makes of a
file (its dependencies, its references) is the input, told in lists (`TreeAssumption`: also that a source
is of a configured project and lies under its root).  What a reader does with one element of a list has a name of its
own (`GoRefer`, `CsharpGroup`, `LinkComponents`), so that its fold can be reasoned about.  **Atlas** composes them in the order of
`build_atlas`, then writes the files one by one, may die among them, and checks them on a later
day against a tree that may have changed.  An exception that nothing catches ends a build before anything is
written, so the model looks at the end of a phase for what raises during it: `Uncaught` (manifests), `Nameless` and
`TriesTheRoot` (sources), `RuntimeRefused` and `CodeownersRefused` (overlays).  The state `oversized` stands for any file
that `EvidenceStore.lines` refuses: too large, or reached through a link.

**Mutants.** Operators commented "Mutant of X" are plausible bugs in the code that X models, one
for each property of each passing run; nothing in the models uses them.  Replacing X's body by
its mutant makes TLC find the property violated, which is how we know that the property says
something about the code.

## 3. The runs

| Run | Instance | Distinct states | What it shows |
|---|---|---|---|
| `trust_life` (TrustLife) | all documents, all subsets of five replies | 45 120 | trust only falls, verified is earned, rejection has a cause, order and grouping of verdicts do not matter |
| `crossref` (MCCrossref) | 3 artifacts, a missing one, every graph with ≤ 2 refs each | 453 674 | closed, largest, implements the one-step spec, terminates |
| `run_challenge` (MCRunKB) | flow → pattern, alert, drafted runbook, an emitted gap; 2 runs, 1 crash | 6 153 894 | nothing lost, directory = history of verdicts, foundations on disk, re-run forgets, report agrees, only runs raise trust |
| `run_publish` (MCRunPublish) | flow → pattern, two absence gaps, one a twin, an emitted gap; 1 run, 1 crash; drawing and staging at any moment | 6 287 331 | drift is what was moved, REVIEW.md is complete if nothing moved since the run |
| `forge` (MCForgePublish) | 1 file, 3 contents | 63 673 | edits kept, manifest truthful, merging twice is merging once, a merge delivers |
| `graduation` (MCGraduation) | 2 commands at once, 2 categories, 3 anchors of which 2 are kept; 4 verdicts and hand edits | 189 590 | tallies exact unless commands overlapped, nothing invented ever, candidates earned |
| `autopilot` (MCAutopilot) | 3 invocations of 2 cycles, 4 tasks, 1 crash or edit | 710 050 | counted as decided, silence decides nothing, a replay converges, every invocation ends |
| `gap_finder` (MCGapFinder) | 2 targets, every file of ≤ 3 of 15 proposals, budgets of 1 | 74 480 | only rules verify, probes cannot be evaded, implements the choice of the most severe |
| `drafts` (MCDrafts) | 2 versions of the code, 5 sets of files, 2 runs, 2 troubles | 72 834 | drafts stand on the run and only add, advice is blind to nothing the run has facts on |
| `estate` (MCEstate) | 28 pairs, 4 estates of three teams, a chain of six; every order of the targets (of the chain, two); 2 commands | 546 520 | order does not matter, a client is drawn or asked about, blast reaches callers |
| `atlas` (MCAtlas) | 2 079 trees, 3 commands, 1 crash | 171 807 | cycles are components, a dependency meets its own lock, edges end at nodes, no drift after writing |
| `poisoned` (MCAutopilot) | as `autopilot`, no troubles | – | *violates* one sentence of the repository, see section 6 |

*Bounds.*  `MaxRuns = 2` in RunKB is enough to see one run overwrite what the commands of another
left, and `MaxCrashes = 1` to see any command stopped anywhere and any command issued after that;
properties of a run look back no further than its reset.  `run_publish` has one run because its
drift check compares with the target the run scanned.  Three artifacts make a chain with two
links and a cycle, and with one document missing; a fourth adds no new kind of graph, and the
theorems cover them all.  Verdicts `supported` and `indeterminate` move nothing, like a garbled
reply, so RunKB has one of the three; TrustLife has them all.  `merge_tree` treats each file
alone, so one file with three contents (the recorded, the operator's and the new draft) shows what
can become of a file; what two files add is that a conflict in one holds back the other, which
weakens the environment only.  Two commands are enough for one to save over another, two
categories for one to be broken while the other counts; `MaxEvents = 4` verdicts and edits
are enough to reach `Threshold = 2` and disturb it twice.  The theorems hold for any number of all
of these.

The three invocations of `autopilot` are one that fills the cache, one that finds it full, and one
after a crash or an edit; two cycles are needed for the second to see what the first proposed.
Files of three proposals fill a budget of one, overflow it and leave a third in another pool; the
fifteen items have every category of probe, each label that might evade it, and each shape of an
item.  The two versions of the code in `drafts` differ in whatever an exchange grounds in.

In `estate` the pairs have one caller with each of 28 clients (key and host vary over all the ways
a name can resolve, look alike or not), the teams have services and resources of one name or one
slug, and the chain is one link longer than the three hops of the walk.  In `atlas`, 1 586 trees
are all graphs of up to five imports between four modules of two projects (Tarjan's algorithm and
the coupling over all of them; five imports make two cycles that share a module), 450 are every ordered pair of the fifteen manifests, in one project or two, and
the rest are manifests and overlays in each state they may be in, each input that aborts the build, and one tree with everything.
Each of those gets one command; two empty trees, with and without the HTML explorer, get histories
of three commands with a crash, because what a file says is named by its tree and only the set of
files matters to the directory.  A build writes nothing before it is complete, so a crash matters
only among the files.

*Symmetry* is used for the contents of `forge` and for the processes, categories and anchors of
`graduation`, where only invariants are checked.

*Deadlock* is not checked where the system may stop: the loop of Crossref returns, and elsewhere
the bounds on runs, invocations and crashes leave nothing to do.

*Fairness.*  `crossref` and `gap_finder` state `WF_vars(Next)`: a loop of sequential code is
executed as long as it can be.  `autopilot` states `WF_vars(Engine)`: the command keeps going,
because every provider call is cut off by a timeout (`llm/provider.py:95`) and then counts as
unanswered; crashes, edits and new invocations are not fair.  Everything else in the system waits
for a person or a network and promises no progress.

*Assumptions of the models.*
- A file is written whole, except for the cached reply (Autopilot) and the files of the atlas,
  where a crash may leave a torn one.  Elsewhere a crash in the middle of `write_text` leaves a
  truncated YAML file, on which later commands fail with a parse error.
- Commands on one run directory do not overlap; nothing in the code would prevent it, and nothing
  invites it.
- Worklists hand out runbooks, alerts and absence claims, and no flow or gap rests on one of
  these (`RestsAssumption`).  A verdict file written by hand may name a pattern;
  `challenge-apply` then takes the pattern down and does not look at what rests on it.
- `Overlap = FALSE`: no pull request is merged between the clone and the push of the next
  publish.  Without this assumption TLC finds `EditsKept` violated: the second publish carries
  the draft that the operator has undone meanwhile, and git merges it because its base is older.
- An operator's edit counts (`mine`) while the manifest records the file; a file that was deleted
  and created anew after the manifest forgot it is a new file for both.
- An excerpt of whole lines stands for itself (Autopilot, GapFinder, Drafts): where it occurs and
  what the probes see there is given, how the text is matched is not.
- The operator's own files in the directory of the atlas have names that the atlas never writes
  (`AtlasAssumption`).
- `Unambiguous` (Estate): order and blast radius are claimed for estates in which no two services
  share a name or a route and no resource is named like a service.

## 4. What is proved

All theorems are for every value of the constants and checked by TLAPS.

*GateProofs.*  Of TrustLife: `LifeTypeCorrect`, `VerifiedIsEarned`, `RejectionIsEarned`,
`CommandsCommute` and `TrustNeverRises`.  `NoFalsePass` is not inductive as it stands: a verified
artifact says nothing about the gates unless its status is known to be what `PassOne` made of the
document and every later step is known to be a lowering by something recorded in `seen` or
`refuted`; `LifeInv` says that.

Of GapFinder: `JudgementMeans` says what each outcome of `Judgement` excludes, and `GapInv` that every
result is the judgement of its proposal and that only survivors are kept, which gives `ProbesHold`;
with what the gates make of a scaffolded gap (`GapGate`) it gives `RulesVerify`, and
with what a proposal may say (`LoadedAreProposed`) `GapTypeCorrect`.
`FinderImplementsChoice` is about the budgets.  The position of a proposal in its pool is how many come
before it; `Before` is a strict order (`BeforeOrders`), so positions grow along it (`PositionsGrow`) and
those of a finite pool are exactly 0, 1, 2 and so on (`PositionsAreRanks`).  Hence a pool that loses
something uses its budget up (`BudgetUsedUp`), and what it loses is not more severe than what it keeps
(`LesserDropped`): the fair choice of GapChoice, pool by pool (`BudgetsAreFair`).

Of Crossref: `LoopTypeCorrect`; the invariant `LoopInv` adds to the properties that the keys already visited
in a pass without a discard rest on verified keys (`VisitedRestOnVerified`): a discard spoils that
and sets `changed`, which buys another pass.  From it follow `FoundationsVerified`,
`DowngradesAreNeeded` and, because a closed set that contains every closed subset is their union
(`LargestIsUnion`), the refinement `LoopImplementsSpine`.
`LoopIsBounded` is the part of `Terminates` that is safety, for any finite set of keys.  A pass over *v* keys takes
*v* + 2 steps, and one that discards is followed by a pass over a key less; so `StepsLeft`, which starts at
(*n* + 1)(*n* + 3), is lowered by every step (`StepsShrink`).

*RunProofs.*  All properties of RunKB, from one invariant.  `RunInv` follows a run: what it has in
memory, which documents are on disk already, what readiness and report were made of.  From it follow
`RunStartsAfresh` and `ReportIsTrue`.  `KBInv` adds what the commands do to the files: before a run
returns nobody was heard on it (`Unheard`), a copy waiting to be unlinked has another one
(`MoveKeepsACopy`), a gap without a twin never lies in two of the directories that a refutation
empties (`OneCopyOfGap`), and, once the move under way is over, a file lies where the verdicts and
disputes on it send it, unless a crash tore its move (`FilesTell`).  From it follow `NothingIsLost`,
`DirectoryIsTheStatus` and `FoundationsStand`; the last rests on `RestsAssumption`: commands take
down only what nothing rests on.

For RunPublish `RestInv` adds that what nobody touched still lies where the run put it
(`LeftAlone`) and that the report is still the run's (`StillReported`).  `ReviewIsComplete` follows;
`DriftIsExplained` needs besides that what was staged is what a scan finds, but for the causes in
`Moving` (`DriftInv`).

*TargetProofs.*  What others keep in the target repository: of ForgePublish, `MergeIdempotent` is the lemma behind `RepublishIsNoOp`; `MergeKeepsEdits` that
a git merge of what `merge_tree` made of a base keeps a file that diverged in that base or since.
`EditsSurvive` (which assumes `~Overlap`) and `DivergenceIsTheOperators` need `ForgeInv`: besides
the two properties, that an edit differs from the record (`EditsAreEdits`), that the working copy
is the merge of the cloned base (`WorkIsMerge`), and that the branch is the merge of its own base
and was made from a commit main has been through (`BranchIsMerge`).  `MergedIsDelivered` holds with overlapping
merges too: what the branch carries is fixed when it is pushed (`BranchDelivers`).

In Graduation what the file holds says nothing about what the next save writes, so
`GradInv` adds what the copies in memory hold: one that is not stale is the file plus what is
pending (`CopyExact`), and every copy, stale or not, holds only verdicts of completed commands and
its own (`CopyHonest`).  The latter is why an overlapping save may lose verdicts but never invents
one.  `NoVerdictLost`, `NoVerdictInvented` and `CandidatesAreEarned` follow for any number of
commands and any threshold.

*AutopilotProofs.*  What is due is defined while tasks are left (`DueIsLeft`), which gives the
types.  `OneCountPerDecision` needs to know that a scan starts every claim anew (`Counting`).
`SilenceIsHarmless` is not inductive: that a silent apply changes nothing rests on what the drive
before it put in the verdict files of this very cycle, whatever older verdicts lay there.  `Unheard`
says it task by task: still to be done, or done and without a word.

`ReplaysEndAlike` follows a calm invocation (every call answered) cycle by cycle (`Calmly`): what it was
told is in the cache, what it landed is what the cache would land again.  The first cycle may still
change the gap proposals, and with them the prompts of the others; from the second on they are at
rest, so the cache holds an answer to every prompt there will be.  That is why the theorem assumes
two cycles or more, which the code's default has.  `Converged` carries this over to later
invocations, however they end: the cache forgets nothing (`Grown`, `RestStays`), so another one is calm as
well, puts no new prompt and decides the same KB (`Decided`).

`CommandIsBounded` is the part of `Terminates` that is safety, for any finite set of claims.  A task takes a
call per claim at most and its landing, a cycle a scan, at most four tasks and what is applied of them; every step of
the engine lowers what is left of that (`EngineShrinks`), an edit leaves it as it is, and only the
start of another command raises it.  What is left for fairness to say is that the engine goes on.

*DraftsProofs.*  `DraftsTypeCorrect`, and `DraftsStand` and `DraftsAdd` from one invariant: the names
the engine gives are apart from those a draft may take (`EngineNames`), which rests on the assumption
that no alert of the engine is named by a log message; and while the code is calm, what the run
emitted is what the code still says (`Drafted`).  `AdviceStandsOnTheLedger` needs that no run is advised
before it begins.

*EstateProofs.*  `Drawing` says what a graph is of a *set* of services, whatever order they were drawn
in: edges, owners and nodes are unions, and in an unambiguous estate a settled type is the type that
each of its services gives (`DrawExtends`, `NodesSettle`).  `EstInv` says that the graph is a drawing of
the services so far, and the mirror of as many from the other end.  When all are drawn they are
drawings of one set, so equal: `OneGraph`; and since the invariant names nothing but the set, so would be
any other order.  Where the code looks a name up in a dictionary, the last service of that name
answers, and there is a last one (`LastIsThere`, by well-foundedness).  `NobodyGuesses` goes through the
ways `External` can fail to draw a client.  `BlastIsComplete` matches each hop of the walk over the edges
with a hop over what the facts depend on (`HopsAgree`).

*AtlasProofs.*  `WrittenMeansCurrent` from `DirInv`: outside of a write, every file of the directory is
listed by the manifest that lies there or known to be loose, so `Unlink` removes what the new tree does not
render; during a write, every file of the tree is written or still to be written.  A crash makes loose
what its manifest no longer lists; before any, only the operator's own files are loose.

Two theorems are about what the readers build.  `EdgesAreNeverDangling` is not inductive as it stands: that `Assemble`
never refuses a graph rests on every edge having ended at nodes since the first manifest was read, and an edge to a package
has a node because the index that named the package names nodes only.  `Sound` says both of a collection
(`Integrity`, `Filed`).  `DeclaredMeetsLock` rests besides on what the index knows of each project: a
registered name is registered as what the project locks, and what it locks is registered
(`Honest`); a declaration that is drawn therefore meets the lock, unless a lock file comes later.  None does: lock
files come first in the order of a project (`Sequenced`), so that one is read while its project has declared
nothing (`Undeclared`).  `BuildInv` puts this together per phase of the build.

Each reader is shown to be *quiet* (it adds nodes and edges, keeps the collection sound and touches no declared or locked
package: every language, every overlay), to *declare* for its project or to *lock* for it (`Quiet`, `Declaring`,
`Locking`).  These compose, so a reader that folds over a list is quiet if one step of it is.  That is an induction
over data, which the provers cannot instantiate from the library; **FoldLaws** does it once, with the operator of the
fold and the property of its steps as constants.  `FoldExists` builds the function that a fold is defined to be (the CHOOSE
in `MapThenFoldSet` has something to choose), `FoldKeeps` carries a property from the base over every step to
the result.  AtlasProofs has an instance of it for each fold (`JavaLaw`, `ServiceLaw`, ...) and cites
`JavaLaw!FoldKeeps`.  The set folded must be one whose parts do not descend without end, which the index
set of a list is and any finite set (`FiniteDwindles`).

The proofs corrected the model in one place: a manifest or overlay in a state of no name satisfied two cases of a CASE
or none; these are now IF and ELSE, as the code's `except` is.  And they told `DeclaredMeetsItsOwnLock` apart from what
an operator's runtime evidence may say: an edge of kind "declares" there is no package edge, so the property asks for the
scope too.

`CyclesOfEveryTree` is about what the build makes of the graph in the end; it rests on `CyclesFound`, the correctness of
Tarjan's algorithm for every finite graph whose edges join different nodes.  That the graph is finite is a part of
`Sound`; that an arc joins different nodes is how `Arcs` is defined (`MetricNodesAreFinite`).

1. *The function exists.*  `Visit` recurses on the states that its own calls return, so nothing says beforehand that
   the equation it is chosen for has a solution.  A call finds fewer nodes unvisited than the call that makes
   it (`LeftIs`), so the answers of the calls that find at most k determine those of the calls that find k + 1
   (`ExploreGrows`; that a fold needs only these answers is `FoldLaws!FoldAgrees`), and `VisitExists`
   goes on so up to the number of nodes.
2. *The invariant.*  `Searching` is what holds whenever a call begins or ends, K being the nodes whose calls are under
   way.  The stack is in the order of discovery and of two nodes on it the earlier reaches the later; each reaches an
   earlier or equal node of K (`Stacked`).  Every edge of a visited node outside of K has been followed; what was popped
   is popped with its component, and the components of more than one node are reported (`Settled`).  That a low
   link equal to the index means a complete component needs more: the link is the place of a node on the stack that is
   reached, and no edge leads from what this call has put on the stack to what lay there before any earlier than
   the link says (`Low`, `Crossing`).  `Found` is the promise of a call in these terms, `Looping` what holds among the
   edges of its node.
3. *The steps.*  `EnterLoops`, `BackLoops` (an edge to a visited node), `CallLoops` (a deeper call) and `LeaveFinds` (the
   component, or the link for the caller) keep them; `ExploreFinds` folds them over the edges, and `VisitFinds` concludes for
   all calls: of those that broke their promise, one would find the fewest nodes unvisited, but the deeper calls of that
   one kept theirs.  `SearchFinds` starts the search anew from each node; with no call under way the stack is empty
   and every node is popped.
4. *The definition that it is compared with.*  `StronglyConnected` looks around from every node as many times as there
   are nodes; `ReachableIsAhead` shows that this is enough (each look takes in a node more, or nothing is left to take
   in), `MutualIsAhead` that a node reaches itself just when its component has a second one.

This needed one change of the model: the states of the search are typed by what they are (`Search`: no node is twice on
the stack, what is on it was visited) and `Visit` is defined for nodes not visited yet (`Calls`), which the code
calls `visit` for and no others.

*Only model-checked:* `Terminates` of Crossref and of the autopilot (liveness is out of the prover's reach; that
their steps run out is proved, that the steps are taken is fairness).

## 5. What is not modelled, and the plan

Next, in this order:

1. **ScanPlan** (`scan_plan.py`): a monorepo scan that is resumed after a crash from the list of
   services already done.
2. The secret gate as gate, redact, gate again around `assemble_pr` and the context pack.

Left out for good: collectors, parsing, synthesis and rendering of text (pattern matching and
formatting, one pure function per technology), the regular expressions and entropy measures of the
secret detectors, reporting, evaluation and scoring (summaries of what the other components
decided), `validation/copilot_gap.py` (a measure of how well a model finds gaps, which no other
part reads), `pipeline/graduation_draft.py` (advice for a maintainer, computed from the
candidates), argument handling.  The LLM challenger hook has no caller that gives it a client.
Left out of modelled parts: contract proposals folded into the Interface artifact (they only preset
needs-review), the fan-out cap and the name claims of `assemble_pr`, the data-loss flags and the
changelog of the drift check, evidence lines and sizes in the atlas, the text of its diagrams and
pages, symbolic links that are skipped.

Simplified in modelled parts: the recursion of Tarjan's `visit` has no limit (`Visit`); groups are
sequences of segments, so that a directory `a/b` of JavaScript or Go and a package `a.b` are one
group (`JavascriptGroup`, `GoGroup`); a manifest other than a `.csproj` that raises halfway adds nothing, where the
code keeps what it had read (an empty name among the dependencies of a `package.json`); an alert drafted
from a log line is named by the first message of the line, where two messages that agree in
forty characters share a name (`DraftAlerts`); an anchor of an architecture proposal is found in any
file of the target, where the code looks at source and configuration files (`MapArchitecture`).

## 6. Where the code does not do what the repository says

TLC ends the run `poisoned` with a counterexample:

- `ScanSurvives`: "a malformed proposals file is self-gated to 'no proposals' ... it must not abort
  the whole scan" (`collectors/llm/gap_finder.py:662-664`).  Only a file that is not JSON is; one
  whose list is a number raises `TypeError`, in the drive that wrote it and in every scan of the
  target after that.

The modules state more sentences of the repository that TLC refutes when they are given to it as an
invariant; most are in the module's last section.

- `ReviewSurfacesAll` (RunPublish, with the `Ch` constants of MCRunPublish): "A REVIEW.md surfaces
  everything not auto-verified" (`publish/pr_builder.py:1-2`).  It lists the records of the run's
  report; a runbook drafted by autopilot afterwards, or an alert taken down by `challenge-apply`, is
  staged as needs-review and missing from the page.
- `OnlyKBIsPublished` (RunPublish): projections are made "from the validated KB"
  (`render/project.py:1-2`).  A run draws every document it has in memory, pages are never removed,
  and publish draws only if nothing was ever drawn: pages of rejected artifacts are published.
- `ContradictedLeavesKB` (RunKB): challenge-apply is "re-runnable" (`challenge_apply.py:44`) and
  moves each file.  After a crash between write and unlink its index finds only the new copy, so the
  verified one stays for good.
- `RefutedTwinsLeaveKB` (RunKB, with a twin): confirm-apply "drops a false-positive gap"
  (`cli.py:814-815`).  Of two copies in the KB only the first is dropped.
- `DeletionsKept` (ForgePublish): "A re-publish must never silently revert an operator's edit to a
  generated file" (`publish/manifest.py:3`).  A deletion is reverted: the missing file is written as
  if it were new.
- `AstWins` (GapFinder): "On overlap, AST wins; Tier-B only fills gaps" (`docs/HYBRID-PLAN.md:216`).
  The artifact scaffolded from a proposal depends on a pattern whether there is one or not; its
  dangling reference is keyed by Kind/name and takes the engine's gap of that name down too.
- `RunbooksHaveAlerts` (Drafts): "a drafted runbook must trigger on a real Alert in this run"
  (`pipeline/runbooks_draft.py:9`).  It is grounded against a fresh scaffold, so its alert may have
  been rejected in the run.
- `NoClientVanishes` (Estate): a client whose name reads like a scanned service is kept off the
  drawing because "ambiguous_call_edges routes it to confirmation" (`estate/topology.py:301-307`).
  That function asks about another set: nothing is asked if the host resolves to the caller itself,
  if the client has no base URL, or if the candidate is the caller.
- `RegeneratingSuffices` (Atlas): "Do not hand-edit it; update `.sre/atlas.yaml`, source, or imported
  evidence and regenerate" (`atlas/render.py:76-78`).  After a crash before `manifest.json` was
  written, a file that the next configuration does not render (`atlas.html`) is in no manifest: no
  regeneration removes it, and atlas-check reports it forever.

Seen while modelling, as behaviour of the models that no property states:

- A deferred task "simply contributes nothing" (`pipeline/autopilot.py:83-84`), but the proposals
  file an earlier invocation left for it is ingested (`Ingest`, `Grounded`).
- The reply cache is written in place: a process that dies there leaves an empty file, which is a hit
  from then on, although the comment at `llm/provider.py:175-177` wants the slot to be asked again.
- A drive that runs out of work before its last cycle breaks off and records no graduation
  (`Recorded`).
- A published KB that was challenged, confirmed or drafted into differs from a fresh scan for good:
  the weekly drift check (`--fail-on-drift`) fails although nothing changed (`Moving` in
  `DriftHasACause` lists the causes).
- In an estate, two shared resources of one slug write one file: one blast radius overwrites the
  other (`WriteDoc`); questions of an earlier command stay when there are none any more (`Ask`).
- In the atlas, of two Python files with one module name the imports of the first are never read
  (`ModuleByName`), and a dependency of a
  project whose `node_modules` key begins with "/" makes `_npm_lock_target` loop forever (not modelled).
- The overlays and resolvers of the atlas report what they cannot use as unknowns, but some of it
  aborts the build with an exception instead: a name that is empty, which `AtlasNode` refuses
  (`from . import x` above the root, a JavaScript path from "/", an unresolved import of one segment beside a
  Java file without a package: `Nameless`); a JavaScript path or alias that leads to the root of the
  repository, where `with_suffix` raises (`TriesTheRoot`); a runtime node or edge with an empty name, end, kind or
  source (`RuntimeRefused`); a manifest, SBOM or CODEOWNERS file that is too large or a link, although such a
  runtime or coverage file is reported (`Uncaught`, `ApplyOverlays`, `CodeownersRefused`); a framework in
  `project.assets.json` whose `dependencies` is a number (`Uncaught`).  Python's recursion limit (a chain of
  some thousand imports in `graph.py:193`, deeply nested JSON) aborts it too and is not modelled, so no
  property claims that the list is complete.
