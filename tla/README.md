# Formal model of the Code Gauntlet review workflow

TLA+ specifications of the parts of this repository whose correctness depends on
order, failure, retry and limits, the TLC configurations that check them on small
instances, and TLAPS proofs of the properties that matter most for every value of
the constants. Every definition is translated from the source; `PROJECT.json`
names, definition by definition, the lines it stands for.

## 1. The system

A *host* (a Claude Code session following `skills/code-gauntlet/SKILL.md`) prepares
a pull request, starts the *review workflow* (JavaScript, `workflows/src/`), awaits
its result, materializes its artifacts, and hands the delivery plan to a *delivery*
program (Python, `scripts/gauntlet/delivery/`) that posts to the forge. The workflow
itself runs *agents* (language models) for every judgement and *executor* agents for
every command and file write, so any answer may be missing, malformed or late. The
*benchmark* (Python, `bench/`) runs the product over pull requests with known bugs,
scores what it posted, and decides whether a treatment may ship.

| Component | State it keeps | Operations | Talks to |
|---|---|---|---|
| Review workflow: `run.js`, `discover.js`, `mergeFindings.js`, `verifyStage.js`, `reviewStages.js`, `dispose.js`, `checkpoints.js` | outputs per phase, gaps, supplied checkpoints, the two eager dispatches, accepted validator records | start (fresh, from the returned checkpoint, from the slim one on disk, from a garbled copy), one operation per phase, replay, throw, deliver | agents (calls), persistence (call), host (envelope) |
| Verify stage: `verifyStage.js`, `verifyWire.js`, `capacity.js` | the slices and oversize findings of the plan; per slice the accepted findings between two dispatches; gaps and the `inputProof` ledger | plan, dispatch, one retry under a nonce of its own, trust decision per finding, degrade | executor agents |
| Executor-side verification: `verify/decide.py`, `location.py`, `diff.py` | none (pure); the cached git log of a slice | locate quotes, ask blame, compare with the diff | run inside a verify slice |
| Artifact persistence: `persist.js`, `persistPlan.js`, `artifacts.py`, `materialize.py`, `stale.py` | files of the review on disk, receipts | clear stale files, write, assemble, retry once, salvage, materialize | executor agents, file system |
| Awaiter: `awaiting.py`, `tasks.py` | none between calls; an epoch carried in the command line | wait for the task file or the artifacts, hand over to the next attempt, time out | file system shared with the workflow |
| Delivery: `delivery/post.py`, `gate.py`, `compose.py`, `fold.py`, `prior_review.py` | on GitLab the markers in the notes themselves; on GitHub none | GitLab: read notes, post or extend the summary, post each discussion, exit. GitHub: one atomic review | forge (calls that may fail, or land and be reported as failed) |
| Prior review and eligibility: `prior_review.py`, `eligibility.py`, `pr_status.py`, `stale.py`, `incremental_diff.py` | the marker in the last comment | read the pull request, decide full, incremental or nothing, post a marker | forge, local clone |
| Preflight: `config.py`, `output_dir.py`, `shared_context.py`, `project_rules.py` | files named after a head; a receipt of rules | one-shot preparation by each host | file system shared by hosts |
| Fix tasks and patches: `fix_tasks.py`, `patches.py` | files | select what can be applied to the code as it is now | delivery plan, working tree |
| Measurement: `measurementTrace.js`, `bench/runner/stages.py`, `provenance.py` | the record of the stages, in the return | snapshot per stage, cut to a budget, bind to what was posted, attribute a missed bug | workflow, scorer |
| Benchmark runs: `bench/run.py`, `runner/invoke.py`, `validity.py`, `checkpoint.py`, `score.py`, `ledger.py` | run directory: manifest, immutable attempts, index, payloads, score packets, ledger | pass, resume, retry, kill, score, replay a row | child processes, operator |
| Benchmark windows and matrix: `runner/windows.py`, `validity.py`, `compare.py` | declarations of windows, runs of two arms with the tries of each pull request | open a window, start a run, review, retry, take runs as a complete matrix | benchmark runs, the host's CLI and checkouts |
| Benchmark gate: `runner/looks.py`, `compare.py`, `populations.py`, `audit.py` | one append-only ledger, reports, receipts | freeze, register, look, extend, unseal, review the holdout, audit, compare | benchmark runs, operator |
| Filter rules, registry and contract generation, report rendering, argument, path and wire encoding, agents and prompts | none (pure, data or external) | per call | everyone |

`PROJECT.json` lists the same components with their status.

### What is hard about it

* **Failure without a crash.** An agent that fails answers `null`. The workflow
  carries on with fewer findings, fewer scores or fewer challenges, so the danger is
  not a stopped run but a report that looks cleaner than the review was.
* **Resume.** A failed run returns the outputs it has; a delivered one leaves a
  *slim* checkpoint with the challenge output alone. The next run mixes replayed and
  fresh outputs, and what one run lost another must still disclose.
* **Two dispatches at once.** Summarize and discover start together and are awaited
  in order; either may reject before anyone awaits it.
* **Uncertain calls.** A note that GitLab accepted may be reported as an error. The
  hidden markers of the notes are the only memory of a delivery.
* **Stale files, late files.** Artifacts of an earlier review of the same commit sit
  at the same paths; the result of this one may arrive after its files, or never.
* **Code that moves.** The author pushes while a run looks; a fix is offered on lines
  that were verified on another commit; a context is written for a head that is gone.
* **Limits.** Bodies, traces, rule digests and copies of findings are cut to budgets,
  and what is cut must be told and never change the meaning of what is kept.
* **Children that outlive their pass.** A killed benchmark pass leaves its child
  running; attempts, index, payloads and scores are written one after another.
* **Runs that must be comparable.** The runs of two arms are made by separate commands
  over hours or days, on a host whose CLI and checkouts change meanwhile.
* **Decisions taken once.** A look at the gate and an opening of the holdout are
  spent by commands that race, die and hold no lock while they judge.

`PROJECT.json` lists these as hazards, each at its line, with the properties that
would catch it going wrong.

## 2. The modules

| Module | Models | Extends or instantiates |
|---|---|---|
| `ReviewPipeline` | the phase driver `runWith` of `run.js`, every phase, checkpoints, resume, delivery from the checkpoint | |
| `VerifySlices` | `planVerifySlices` of `capacity.js` and `verifyStage` of `verifyStage.js` | instantiates `VerifyContract` |
| `VerifyContract` | what the verify stage promises: the abstract specification | |
| `FindingLocation` | `verify/decide.py` and `location.py`: where a quote is found and whom it blames | |
| `FixOutlets` | what a located fix may touch: inline fences, patches, fix tasks | `FindingLocation` |
| `DiffWalk` | the walk of `diff.py`, line by line, over both shapes of a diff | |
| `GitlabDelivery` | `post_gitlab` of `delivery/post.py`, any number of processes and reruns | instantiates `MergeRequestNotes` |
| `MergeRequestNotes` | what the notes of a merge request promise: the abstract specification | |
| `GithubReview` | the one review posted to GitHub: groups, sizes, what the body leaves out | |
| `BodyFold` | what a Markdown body over the limit is folded to (`fold.py`) | |
| `ReviewRounds` | one pull request reviewed again and again while its author pushes | |
| `ArtifactFiles` | the algebra of artifact files: whose bytes a file holds, what the assembler makes of it, what a receipt says | |
| `ArtifactPersistence` | `writeArtifacts` of `persist.js` with the writer, the executor and `artifacts.py` | `ArtifactFiles` |
| `ArtifactHandover` | the host around it: `stale.py` before a run, `materialize.py` after one | composes with `ArtifactPersistence` |
| `WorkflowAwaiter` | `awaiting.py`: the chain of attempts, its clock and the files it looks at | |
| `ContextPreparation` | what hosts write before they start the workflow, and what is read of it later | |
| `ProjectRules` | which rule files of a repository reach the reviewers, within bounds, with a receipt | |
| `BenchSession` | a run directory of the benchmark: passes, kills, resumes, retries, attempts and their index | |
| `BenchScoring` | a scorer beside those passes: packets, pointer, ledger | composes with `BenchSession` |
| `MeasuredReview` | what the benchmark makes of one child: credentials, plugin tree, collected output, verdict | |
| `LossFunnel` | the record of the stages, its cut, its binding, and the stage a missed bug is charged to | |
| `ScoreEvidence` | what a score counts: two judged populations, an adjudicator, the diagnostics | |
| `Measurement` | a measurement as both tell it: any interleaving of the two | `LossFunnel`, `ScoreEvidence` |
| `GateRules` | populations, interleaving, audit labels and verdicts, as operators | |
| `GateProtocol` | the ledger of the gate and the holdout, under commands that race and die | `GateRules` |
| `ArmMatrix` | windows, the runs of two arms on a host that changes, and the matrix a comparison takes of them | `GateProtocol` |
| `*Proofs` | theorems of the module they are named after (`HostProofs`: of `WorkflowAwaiter`, `ContextPreparation`, `ReviewRounds` and `ProjectRules`; `GitlabDeliveryProofs`: also of `FindingLocation` and `FixOutlets`; `BenchProofs`: of `BenchSession`, `BenchScoring`, `GateProtocol`, `ArmMatrix` and `MeasuredReview`; `GithubReviewProofs`: also of `BodyFold`; `VerifySlicesProofs`: also of `DiffWalk`) | the module and `TLAPS` |
| `MC*` | values of the constants for TLC; `MCHandoff`, `MCPreparedReview`, `MCBench` and `MCPrograms` put parts that share no state into one run | the modules |

The verify phase appears twice. `ReviewPipeline` takes what it does to each finding
as a choice (a delta, or none); `VerifySlices` is the stage in full, and its
theorems (`PromiseKept`, `LossIsDisclosed`) say that the choice is the one the
pipeline assumes: a finding is known only by its own delta, and the findings that
are not leave a gap. What such a delta says of a place in the file is the subject of
`FindingLocation`.

### ReviewPipeline

`pc` is the phase `runPhase` attempts next, `out` is `phaseOutputs`, `cp` the
checkpoints supplied to the run, `task` the two dispatches that `settle` starts
eagerly (summarize and discover), `env` the envelope the last run returned, `disk`
the slim checkpoint persisted beside the report. Each phase has one action that
dispatches and stores its output, `Replay(p)` when a checkpoint supplies it, and
`Throw(p)` for the catch of `runWith`. `ValidateBatches` and `ValidateRetry` are the
two rounds of the validation stage. `Start*` are the four ways a host starts a run:
fresh, from the checkpoints a run returned, from the slim checkpoint on disk, and
from a copy that `makeCheckpointShapeRejectEnvelope` turns down.

A finding is a *card*: one record with where its line facts come from, its
validation, admission and challenge stamps, whether the filter stripped its
evidence, and how it was eliminated. Two fields are history: `heard`, which agents
really answered about a finding, and an output's `lineage`, the findings that entered
vetting in the run whose discovery it goes back to, and that run's number. No action
reads them; the properties compare the stamps, gaps and outputs with them.

### VerifySlices

The planner walks the input (`Plan`, one action per finding, three cases as in the
code; `Planned` is the last flush). The stage then takes the *least* unit still
pending, which is what sorting the units by position does. A unit is an oversize
finding (`Oversize`), a slice that cannot be dispatched because its ids collide
(`Undispatchable`), or a slice with a first dispatch and, if any finding is
unresolved, a second (`FirstDispatch`, `RetryDispatch`). An executor's `Answer` says
how each record arrived at the script (unchanged, changed, under another id,
dropped), how the receipt's token and document proofs came back, and what else is
wrong with the answer. `Accepted`, `Matched`, `Diagnostic` and `InputFault` are the
parts of what `trustSlice` returns. `ledger` holds, for each slice, the columns of
`inputProof` that it is counted in.

### FindingLocation, FixOutlets, DiffWalk

`Locate`, `Factual` and `DiffLines` are the three loops of `run_verification`, one
finding per step. A line is a number for its text and a mark for what a listing put
before it; quoted lines are looked up as they are and peeled of their marks. `FixOutlets` continues
with an outlet that looks at code of its own (`View`: nothing, part of a file, a file
that changed) and quotes it again at the site. `DiffWalk` reads the diff of a
change one raw line per step and may end after any line, so a diff is cut anywhere. A line
is rendered when it is read, from its place in the change (`at`: section, hunk, line;
`RawAt`, `After`), and `diff` keeps what is read, each line with its place. The state of the
walker is `w`; what the consumers keep in local variables is `block`, and what they
collect is `parsed` (`parse_diff`) and `annotated` (`annotate_diff`). The walk tells
lines apart by what they read like and by its counters, and takes from the place only what a
header spells (the names, the numbers of a hunk); the properties compare what is collected
with the places. A walk that raises at a line (`refused`) is told apart from one that
raises at the end (`cut`): the first needs a line that lost its blank, the second a hunk or
a pair of paths that is not complete, and an intact diff raises in neither way.
`PatchAssumption` says what kind of change git and glab render: a side of a hunk that has
lines has a first one, hunks of the head are in order, files have different names.

### GitlabDelivery

`notes` is the sequence of the tool's own notes on the merge request, each with its
hidden markers and the text a reader sees, both as sets of *coverage items* (a
finding key, or a further site of an issue). A run reads the notes (`ReadNotes`,
`ReadFails`), posts or extends the summary with a digest of the groups that cannot
be discussed again (`SummaryWritten`, `SummaryKept`, `SummaryOverBudget`), posts one
discussion per pending group (`DiscussionPosted`, `DiscussionRejected`) and exits.
Each call is answered "ok", "refused", or "uncertain": it landed and is reported as
an error. `Killed` ends a run between any two calls. Nothing local survives a run.
Groups that the body limit keeps out of the digest are `omitted` where the run writes a
summary and warns of them, and `unsaid` where it leaves the summary that is there.

### GithubReview, BodyFold

`Plan` validates the report and forms the groups (or refuses), `RenderInline` and
`RenderListed` take one group each, `Compose` fits the body under the limit, and
`Submit` posts the one review. Bodies are sizes there. `BodyFold` is the fold itself,
on sequences of symbols: `StartFold` takes the longest prefix that leaves room for the
notice, `Retreat` and `DropSuggestion` give up more of it while it ends inside a span,
inside a suggestion, or does not fit with the fence that closes it.

### ReviewRounds

The author's `Push`, `Reset` and `Comment`, the forge's `Conclude` and the account's
`Rotate` happen between the steps of a run: `Begin` (eligibility), `Checkout`,
`Detect` (the last marker of one's own), `Truncate`, `Decide`, then `ListFiles`,
`TakeDiff`, `Review`, `Post`. `examined` is the history of which contents were looked
at by the reviews that were posted.

### ArtifactFiles, ArtifactPersistence, ArtifactHandover

A file's content is whose bytes it holds: `Exact(run)`, `Other(run)` (what somebody
made of that run's bytes), or blank (absent, empty, broken). `ArtifactPersistence`
has the channels of `writeArtifacts`: *return* (nothing is written), *derived* (the
writer writes the primaries, the executor runs the assembler, a receipt proves what
landed, one retry, salvage of what is proved) and *by value* (nothing is proved).
An executor may relay the receipt with parts missing. `ArtifactHandover` adds the
host: `Truncate`, then `Materialize`, one `WriteEntry` per primary, each of which
may fail, then `Derive` or `PartialWrite`.

### WorkflowAwaiter

`now` ticks while an attempt waits, by at most `Slack` beyond its deadline. A poll
is `Observe` (the task file), then `Stat` (the artifacts and the decision), then
`Wake`. The workflow writes files and its task file in any order and owes nothing.
`NextCommand` is the host running the printed retry command; the floor `since` goes
with it. `whole` is a history variable: when all files first held this run's bytes.

### ContextPreparation, ProjectRules

`ContextPreparation` has one step per command of the preparation (`HostStep`), for
hosts that share a repository and its files, with kills, pushes and a tree that is
moved. `ProjectRules` keeps an agenda of visits: `VisitReview` and `VisitRules` for a
directory, `FollowImport` depth first, `WriteReceipt` at the end.

### BenchSession, BenchScoring, MeasuredReview

`pass` is the pass under way with its phase, what is still due (a set of places in
the order), its child and that child's outcome. The operator starts a new run, a
resume or a retry under a credential flag and confirms resets; `Kill` may end a pass
between any two steps; a child that was left running still writes to the one output
directory of the run. `attempts` are immutable, `selected` is the index over them.
`BenchScoring` adds the scorer's five places and its files. `MeasuredReview` is one
child in detail: what is taken down before it, what it does to the plugin, whose
output is collected, and the verdict; it starts with a clean plugin, one the operator
edits, or one with a staged change that was taken back in the tree.

### LossFunnel, ScoreEvidence

`LossFunnel` follows the claims of one review through `Discover`, `Stage(s)`, `Admit`,
`Dispose` and `Choose` while snapshots are taken, to `Return` (the cut to the budget)
and `Score` (binding, judgement, attribution). `fate` is the history of what really
happened to each claim. `ScoreEvidence` judges what was posted (`Judge`, `Sort`,
`ViewSurface`), writes the packet, and reads it again for the diagnostics; judge and
adjudicator may answer anything. `Measurement` puts the two side by side; they share no
state, and `MeasurementIsTrue` is the conjunction of what each promises.

### GateRules, GateProtocol, ArmMatrix

`ledger` is `golden/looks.jsonl`; its rows are referred to by their places. `desk`
holds what each command has between two of its steps: a comparison that has judged
(`Compare`), written its report (`WriteReport`) and now records its look
(`RecordLook`); a receipt minted and not yet appended (`Mint`, `Unseal`); an audit that
spent its use and has no sample yet (`StartAudit`, `WriteSample`); a holdout comparison
(`CompareHoldout`, `UseComparison`). `DeskDies` ends any of them where it stands.
`StartCandidate` and `ReviewHoldout` are the hooks of `bench/run.py`.

In `ArmMatrix` an operator opens windows (`OpenWindow`) and starts runs of an arm
(`StartRun`). A try of one pull request starts with the check of the host (`BeginTry`);
the mirror and the worktree are made, with anything happening meanwhile; the CLI is looked at
once more and the child launched (`LaunchTry`); and it is judged (`EndTry`), or its pass is killed and
it leaves no record (`PassKilled`). `HostChanges` updates the CLI or a checkout,
`MinutePasses` moves the clock. A comparison changes none of this state, so it is an operator: `Accepts`
says which listings of runs and windows (`Comparison`) are taken, with the order of
starts judged by `Interleaved` of `GateRules`.


## 3. What the runs check

Mutants: every property of a passing run is violated when one mapped definition is
replaced by a plausible bug. The mutated forms stand beside the definitions they
replace, each under a comment that says what is wrong with it.

Parts that share no state are checked in one run of TLC, side by side: a variable
`topic` says which part a behaviour is about, and the others stay as they started. The
runs `handoff`, `pipeline_*`, `bench` and `programs` are of this kind. Their
properties are those of the parts.

| Run | Instance | Question |
|---|---|---|
| `pipeline_one_run` | two findings, two reviewers, the second an audit loss that may lie on the first one's anchor; caps of 1 | does every finding that entered vetting have a place in the report, does each section hold what was earned, is each loss told, does every run return? |
| `pipeline_resume` | one finding, two runs with every kind of resume between them; and two hosts of one repository preparing their context, one push, one move of the tree, one kill | is anything skipped, re-earned, forgotten, or taken for clean; is a context true of the head it is named after? |
| `pipeline_broken_vetting` | one finding, two runs | violated: see findings |
| `pipeline_completed_work` | one finding, two runs | violated: see findings |
| `gitlab_reruns` | one deliverer; three plans of one commit that reword, regroup and extend each other; up to four faults; a body limit that may be hit | one summary, no finding discussed twice, honest markers, truthful exit; do reruns only add, and write nothing once all is told? |
| `gitlab_race` | two deliverers, two plans, one fault, reads that may fail, a group GitLab rejects | is a summary always first, do reruns repair what was lost? |
| `handoff` | persist: two runs over each other's files and an earlier review's, every input, every answer; awaiter: two attempts of two ticks, a grace of one, two artifacts, a slack of one | is what is called delivered or salvaged on disk, and what is not, told; what does each way of giving up imply about files and clock; do both end? |
| `handover_truth` | two runs on the return channel or the fallback it overflows into, writes and truncations that fail one by one | what does exit 0 mean, can derived documents mix two runs? |
| `handover_truncation` | one run | violated: see findings |
| `verify_slices` | every cut of up to three findings (short, long, oversize, without a checksum, with colliding or missing ids), slices of at most two, every pair of answers | is what is known computed from that very record; is the rest counted and disclosed? |
| `programs` | the programs around the workflow, each over the inputs named in `MCPrograms` | is a finding placed only where its quote is read; does a fix touch only what was quoted; does a walk account for every line of a diff or raise; do incremental reviews add up; does a fold fit and keep its meaning; is every finding of a GitHub delivery told once or named as missing; are rules bounded and what is left out told; is a missed bug charged to the stage that lost it, is what was posted credited once? |
| `bench` | two pull requests, three passes, one kill, one scorer; one wave with two desks; two reviews of two pull requests with children that edit the plugin, stage, commit or end in every way; up to two windows and four runs of two arms, with a change of the host | is money spent, merged and scored as the ledger says; are looks and the holdout spent once and earned; is a review credited with its own work; is what a comparison takes a fair matrix; do passes end? |

Several properties are conjunctions of named parts, so that what belongs together is
checked, and proved, together: `LossIsTold` (conservation and disclosure),
`HandedOverIsProven` (delivery and salvage), `ProofIsEarned` (facts and ledger),
`RerunsOnlyAdd` (coverage grows, quiet reruns), `HandoverTellsTruth`
(materialization, no mixed derivation), `SpendIsAccounted` (one credential, losses per kill,
retries that wait, own deliverables, confirmed terminals), `ScoresTellTruth`
(ledger and scores), `GateKept` (looks, holdout, the rules), `CreditIsOwn`, `ArmsAreComparable` (cells that are
earned, no arm ahead), `MeasurementIsTrue` (losses, credit). The type invariants are left to the proofs, which
state them for every value of the constants, and are not spent on runs.

### Why the bounds are enough

* Two runs of the pipeline show a failed run, a delivered run and both kinds of
  resume. One finding suffices there because a card never depends on another's except
  through the caps and the audit overlap, which the run with two findings has. The
  proofs lift these bounds; with three runs TLC refuted an earlier form of
  `WholeLineage`, see section 5.
* Two findings against caps of 1 is the smallest case in which a cap cuts. The overlap
  is a choice of the initial state, so the cap binds where it does not apply.
* Three keys make a group of two and a finding beside it; plans over them change the
  lead, the members and the sites, which is all that a rerun can change. Four
  faults cover a lost answer for the summary and for each discussion.
* One fault in the race: two deliverers already interleave every pair of calls.
* Two attempts of the awaiter show a first, a retry and a last one.
* Three findings of two to a slice give a full slice, a partial one and a unit
  between two slices; two dispatches per slice are all the code has.
* Three passes are a new one, a resume and a retry; one kill orphans a child, whose
  late output meets the next pass. The proofs have no such bound.
* Three looks by two desks: one more than may be recorded; the third candidate run starts
  once there is a report to extend. Two treatments and two review identities contend for
  one opening of the holdout.
* Runs of two arms are checked three ways, all of it at once being beyond TLC: one window
  with two runs of each arm over two minutes ("order"), where nothing fails and no minute
  passes without a start; two windows of one planned run each, between which a checkout may
  change ("blocks"); and two runs of one pull request beside each other with up to three
  tries, where the host may change, or the window end, between any two steps of a try
  ("cells"; not both in one behaviour, and of two tries under way the first run's is launched). Two pairs are the least that one arm can be ahead in, two
  tries what a counted failure needs.
* Two reviews of the same or of different pull requests show everything that a child
  leaves behind for the next.
* `programs`: a file of up to four lines with a repeated line, a blank one and a
  line that looks like a listing of another (`MaxLines` 2 for the code's 8); patches of
  two files with moves, deletions, creations and bodies that read like headers;
  three commits and seven events of a pull request; bodies of two or three blocks at every limit from none
  to all; reports of up to four findings at every limit; four rule files that
  import each other in a knot; two claims and one known bug; two pull requests with
  three posted occurrences.

### Findings

Three statements of the documentation differ from what the code does; each is a
run that must end in a violation, and `PROJECT.json` quotes both sides.

1. `README.md:76` says that findings whose verification or validation broke still
   face the blind challenge. `challengeStage` stamps them `admission_terminal` and
   dispatches no challenger.
2. `checkpoints.js:278` says that failure-path checkpoints stay full so that
   recovery can skip all completed work. A run resumed from the slim checkpoint that
   fails before the challenge phase returns a checkpoint without the challenge
   output it was given.
3. `phase2-preparation.md:149` says that exit 2 of the truncation truncated nothing.
   It stops at the first file it cannot open, with those before it already emptied.

### Observations

What the models show of the code and no run is spent on:

* *Delivery.* The digest of a group with several dimensions can put a later group's
  finding under the wrong heading (`compose.py:351`). A GitHub delivery has no memory:
  a rerun posts the review again. A summary whose extension is over the limit ends
  its run, and every rerun, before the discussions. Where a summary is there and has room for
  none of the fragments that are new, it is left as it is and the run exits 0 with no warning
  of what was kept out (`post.py:917`, `:956`; `_report_summary_budget` is called where a
  summary is written only). `tests/test_post_review.py:945` asserts that it suppresses these
  notices, so `ExitTellsTruth` counts such a group as kept out (`unsaid`) and not as told.
* *Executor.* The floor of 30 can raise a confidence that was below it (`decide.py`).
* *Preparation.* Two concurrent runs of one head overwrite each other's context; the
  diff the forge serves may be of a newer head than the file it is stored under; the
  `REVIEW.md` of the first phase is read before the interactive checkout.
* *Rules.* A file reached too deep and later directly is skipped as a duplicate, so
  what it imports stays out. A twin of a text in another directory is `duplicate_of`,
  and its own imports are neither followed nor disclosed.
* *Benchmark runs.* An attempt recorded and not yet marked when the pass is killed is
  run again. A stale `raw.json` can be taken into a retry that failed before its
  launch. A child that outlived its pass can deliver into the directory of a later
  pass (`bench/README.md:157`), and what it left can be what is merged and scored:
  `OwnDeliverables` excepts it. Only retries under a window wait, and only for a limit of
  the subscription (`bench/README.md:344`). Two resumes are not kept apart by a lock, and a kill in the
  middle of an append could tear the last line of the ledger.
* *Measurement.* A `git status` that cannot be read counts as a clean baseline,
  unlike what the docstring at `invoke.py:758` says of it. A duplicate of a carried inline hit is
  adjudicated on its own in the view of all surfaces and can count as noise there.
* *Matrix.* The checkout of an arm is compared before the mirror and the worktree of a pull
  request are made (`run.py:743`), which may take minutes; before the launch and after it only
  the CLI is (`invoke.py:1464`, `validity.py:875`), as `bench/README.md:487` says. A checkout
  that moves in between, or while the child reads it, is credited to its arm. `ArmsAreComparable` claims the treatment of a
  cell for tries between whose check and launch the host did not change (`Steady`), and TLC
  refutes the claim without that. Nothing keeps an index of a window from being run again, so which of its
  runs are compared is the operator's choice; the ledger of the gate is what bounds it.
* *Gate.* A report is on disk before its look is in the ledger, and a holdout
  comparison's report before its use; an audit spends its use before the sample is
  written. The time of a freeze is the operator's word.

## 4. Fairness

Safety is checked and proved without fairness. For liveness:

* `ReviewPipeline`: `WF(Step)` (`LiveSpec`, and `MCLiveSpec` for the run that holds it
  beside another part). Every dispatch is awaited and an agent call ends,
  with an answer or without; a run that can step does. Nothing obliges the host to
  start another run, so `EventuallyReturns` speaks of one that was started.
* `VerifySlices`: `WF(Next)`, for the same reason.
* `ArtifactPersistence`: `WF(PersistStep)`: every dispatch ends; a writer may end
  without having written anything.
* `WorkflowAwaiter`: `WF(Awaiter)` and `WF(Tick)`: the process runs, the host runs
  the printed command, time passes. The workflow has no fairness at all.
* `GitlabDelivery`: `WF` of each run's own steps, and `SF` of starting each plan: an
  assumption about the environment (someone reruns a failed delivery), without
  which nothing brings a lost note back. Faults are bounded, so they end.
* `BenchSession`: `WF(PassStep)`: a watchdog bounds every child, so a pass goes on.
  No operator is bound to come, so `PassEnds` speaks of a pass that was started.

## 5. What is proved

Each `*Proofs` module proves `Init => IInv` and `IInv /\ [Next]_vars => IInv'` action
by action, then derives its theorems from `Spec => []IInv`.

* **ReviewPipelineProofs** (`TypeCorrect`, `SectionsAreEarned`, `ResumeIsExact`).
  `SectionsEarned` speaks of the end of a run, so it is not inductive: what it says
  was stamped phases, or runs, ago. `IInv` says it of every stored output, in
  memory, in the returned envelope, in the supplied checkpoints and on disk: a
  stamp implies the answer behind it (`CardOK`), no card carries a stamp of a
  later phase (`Blank`), and the outputs stored are exactly those of the phases
  before `pc` (`Reached`), which is also what makes `ResumePoint` inductive.
  Its second half (`LossIsAlwaysTold`, `VettingAlwaysSurvives`, `NeverFalselyClean`) is
  about what a review loses. What a delivery tells was lost phases ago, maybe in another
  run, so `Lineal` says how outputs hang together: each one's own gaps tell what it lost
  (`Tells`), each is made from the one before it (`Link`, `Follows`), in memory, in a
  checkpoint and on disk alike (`Lines`); a run replays its checkpoint faithfully
  (`Faithful`); the gaps of the outputs at hand are those of the run (`Told`), and
  an envelope carries them (`Returned`). The proof attempt corrected the model: the
  exemption for slim resumes was stated by which findings entered vetting, and with
  three runs a slim resume that is delivered and not persisted, and then resumed itself,
  breaks that. `lineage` now names the run as well.
* **VerifySlicesProofs** (`StageTypes`, `PromiseKept`, `PlanIsAccepted`, `ProofsAreReal`,
  `LossIsDisclosed`). The order in which findings are decided
  depends on the planner: `IInv` says that slices are stretches of the input, pairwise
  disjoint and disjoint from the oversize findings (`Planning`, `Stretches`), so
  that a slice with the least pending finding is pending as a whole and everything
  else pending comes after it (`Wholesale`). `AtHand` carries the first dispatch's
  trust to the second: what is accepted between the two was computed.
  `PromiseKept` is the refinement of `VerifyContract`. `PlanIsAccepted` is the planner's
  contract. What a slice costs is summed by a recursive function over the input
  (`TotalCost`; `SumExists` shows that there is one), and `Filled` says that the count the
  planner keeps while it fills a slice is that sum, within the copy budget; what an
  accepted finding adds is `OneMoreCosts`, and the budget is passed only by a finding that
  exceeds it alone, which is set aside.
  `WalkAlwaysTellsTruth`, of `DiffWalk`, for every change of any size, both shapes, every
  reader and every cut. That a line is taken for what it is (`Kinds`) rests on the counters:
  `Fits` says that they are what the hunk has left at the place reached (`Drained`, with the
  lines of a side counted as a set), so that text which reads like a header is only met
  where the counts are not used up. `PairRead` shows that a pair of path headers gives the
  paths of its section, whichever rule takes the prefixes off. `BlockFits` keeps them for its hunks.
  What is known of a line is not overwritten because no two lines of the head share
  a file and a number (`Apart`, from the order of the hunks and from every line read being
  behind the place, `Behind`). For `annotate_diff`, `HunksFit` says that a hunk shown early
  has its body read by the time the walk may end, and `NamesFit` that a section is named before it is
  left, by its header, its paths or a rename line. `WhyRaised` says why it raises at a line,
  `EndFacts` why at the end. To be provable, the diff had to become lines read one at a time:
  rendered as a whole first, as it was, its lines were a fold over files and hunks, and
  what was said of a line needed an induction over that fold.
* **GitlabDeliveryProofs** (`TypeCorrect`, `HonestMarkers`, `SummaryAlwaysFirst`
  for any number of deliverers; `ExitIsTruthful`, `PromiseKept` and `RerunsAdd` for a
  single one). `ReadsAreHonest` carries the honesty of a note into the snapshot a run
  took of it, since the run writes back what it read. For one deliverer, `SingleInv` says
  that the snapshot is still what the notes are, and that every group is told, due,
  failed, or kept out of the digest with a warning (`omitted`) or without (`unsaid`); `PromiseInv`, that a group still due has no member on any
  note. `PromiseKept` (the refinement of `MergeRequestNotes`) and `RerunsAdd` also
  assume that the notes can be read: with a failed read the code posts again by
  design. `RerunsAdd` is an action property: a summary is only ever written as an
  extension of what was read (`SummaryAdds`), discussions only append
  (`DiscussionAdds`), and where all of a plan is told nothing is due (`NothingToAdd`).
  The module also proves `LocationsHold` (`FindingLocation`) and `FixesHold`
  (`FixOutlets`), what is delivered at a line, for any file, findings, views and offers.
  Which ruling comes first is settled by `FirstApplies`, from the definition of
  `SelectInSeq`; `LocInv` follows a finding through the three loops: as it was given, placed
  (`PlaceIsEarned`), judged by blame (`BlamedOnce`), compared with the diff (`SurfacedOnce`).
  `OutletInv` says that no outlet acts before all of a slice is verified. That fences do not
  overlap is about a function of the candidates' order: `Standing` says what that function
  is, `StandingExists` that there is one (the least length without one is impossible), and
  `WinnersAre` what it keeps.
* **ArtifactPersistenceProofs** (`PersistTypes`, `ReturnIsProven`, `HandoverHolds`).
  `ReceiptInv`: between the assembler's print and the executor's
  answer, what a receipt that echoes this run's plan says of a file is so on disk.
  `HandoverInv`, of `ArtifactHandover`: while the host writes, what has landed is of the
  one payload it took, and a derived document is of primaries of one run.
* **HostProofs**, of `WorkflowAwaiter` (`AwaiterTypes`, `SettlesForThisRun`,
  `TimeoutIsTruthful`, `PatienceHolds`), `ContextPreparation` (`ContextHolds`),
  `ReviewRounds` (`RoundsHold`) and `ProjectRules` (`RulesHold`).
  `Budget` says where the clock stands in the chain of attempts; `OneFloor`, that all
  attempts work with the first one's floor; `GraceInv`, that what an attempt has seen
  complete had been written by then. For the preparation, `DirectoryInv` says that whoever
  is about to make the output directory has seen it ignored, which nobody takes back;
  `OneWriting`, that a map names the very context and diff it was made with, on disk and in
  a host's hands, although the files themselves may be of several writings; `StillTree`,
  that heads and configurations are of the tree until somebody moves it. For the rounds,
  `ChainInv` says that what an unbroken review names was examined; `BasedInv`, that a run
  which builds on one has it among the comments; `AncestorInv` and `OwnInv`, that an
  ancestor is one, and by the tool's own hand; `DiffInv`, that a steady run of either kind
  takes all that is not examined yet; `LeftInv`, when artifacts are there. The proof found an
  assumption the model rested on unsaid: an absent note is of nobody (`"none"`
  is not an account). For the rules, `PointersInv` says that what a shown file points to is
  settled (shown, told of, or a copy of what is) or still to be visited; `TextsInv`, that a
  text which needs no second copy is shown or told of; `RoomInv`, that what is told missing
  for want of room is not shown under another name. That attempt corrected the model as
  well: why a file is turned away had been a `CASE` with overlapping guards, which leaves
  open what TLC takes from their order; it is now an `IF`, in the order of the code.
* **BenchProofs**, of a run directory (`BenchTypes`, `SpendHolds`, `ScoresHold`,
  `FinishedHolds`), over the specification with the scorer. `SessionInv` adds what a
  pass knows of its work: what is still due is what the index has pending, and a pass
  takes the least of it (`LeastOf`, from the well-foundedness of the naturals); whose
  payload lies where, before and after a child that outlived its pass; how attempts of
  one pull request link. `Books` counts: children are attempts, the child under way, or
  one loss per kill. `ScorerInv` ties each packet to the attempts it was judged
  from, through the rename, the pointer and the row.
  Then of what the benchmark concludes: `GateProtocol` with `GateRules` (`GateTypes`,
  `GateHolds`), `ArmMatrix` (`MatrixHolds`) and `MeasuredReview` (`CreditHolds`), for any
  number of desks, looks, runs and children.
  A look is judged, reported and recorded in steps that others interleave, so `LookInv`
  speaks of what a desk holds and what a report says before any of it is in the ledger
  (`Reported`, `AllSound`): it was judged on runs of one list and, when extended, on the
  report of the first look, so that it is earned whenever it is recorded. `HoldoutInv`
  ties each receipt, use and comparison to the one unsealing. `MatrixInv` says of each try,
  selected or not, what was so when it was made (`TrySound`), and of one that was checked and
  is not launched that the checkout stands as long as the host has not changed (`Stands`); what a comparison then
  concludes of any runs it may be given needs no more of the state: a balanced block has a
  run of each arm for each index (`BlockRuns`), and the pairs follow each other
  (`PairsFollow`, with the least and the greatest of the times). `PluginInv` says what lies in
  the plugin between two attempts: it is the operator's, or rests on what was
  staged (`Kept`). The proof attempt found a start the model had left out, a change that
  is staged and taken back in the tree: it must count as the operator's, and now does.
* **MeasurementProofs** (`LossesAreAlwaysTrue`, `CreditIsAlwaysCounted` and, of both,
  `MeasurementIsAlwaysTrue`), for any claims, bugs, reviews and bounds. For the losses,
  `LossInv` says that the record taken so far is sane: each snapshot holds what lived then
  and a decision for each claim that ended there, in the order of the stages. What a cut
  keeps of it is sane as well (`Sane`), and where a walk over such a record stops is the fate
  of the claim, or is said to be unknown. For the score, `EvidenceInv` says what judge and
  adjudicator were asked: a population lists what a review placed, each group from a
  position of its own (`From`, `Surfaced`), and a judgement partitions it (`JudgedFor`). The
  sums follow from the partition, `CoalescedOnce` from the groups grown so far being the
  classes of what the decisions taken so far connect. The recursive functions and folds are
  shown to exist by the least size at which there would be none (`PlacedExists`,
  `GrownExists`, `SummedExists`). The attempt corrected the model: that bugs of two reviews
  differ and that a traceable review names no finding twice had not been said, one of the
  reviews checked broke it, and burdens were taken over all reviews at once.
* **GithubReviewProofs** (`ReviewAlwaysTellsAll`, for any report, summary, limit and sizes;
  `FoldAlwaysKeepsMeaning`, for any body and limit).
  A finding passes through seven rearrangements before it is posted or listed, and the
  proof has a lemma for each: grouping (`GroupedPacks`), the stable sorts
  (`SortedPermutes`: ranks are a permutation), the lead moved to the front (`MovedFirst`),
  flattening (`FlatHolds`), the digest (`DigestHolds`). `Packed` says of a list of groups that
  none repeats a finding and no two share one; `Covered` is what they hold. `GInv` then
  divides the findings that may be told among the groups to render, the comments and the
  list for the body (`Divided`). For the sizes, what is shown takes exactly the room the
  digest lost (`PiecesOfBoth`: headings and entries of a concatenation add up), and a section
  is within what was reserved for its frame and closing line, whatever the counts
  (`SectionBound`, `BodyFits`), so that only a body reduced to its frame can be over the
  limit. The proof needs that a report names no finding twice, which `mergeFindings`
  establishes and the model now assumes.
  What a fold keeps is about two texts that begin alike: the body and the prefix with its
  closer. `Visited` says what a line does to the fences, `AlwaysSane` where an open fence
  and the closed ones lie, and `SamePrefix` and `SameToTheEnd` that texts agree about
  fences as far as they agree. Hence a text that goes on after what is kept is outside
  every fence (`KeptState`), and a suggestion it offers was closed before the cut, or by
  the line the cut is on (`OnlyWhole`). That no span begins inside another (`SpansApart`)
  is why one retreat is enough. `FoldInv` says that the cut is outside every span and that each
  turn gives something up. The attempt found what the fold rests on and does not look
  at: were a suggestion to propose a line that begins with its own fence and goes on, a cut
  inside that line would close it there, and half a patch could be applied. `fence_run`
  chooses a fence longer than any run of the payload, so that no body has such a line.
The assumptions are those the modules name: caps, costs and clock constants are
naturals, the copy budget does not exceed the hard limit (`planVerifySlices` throws
otherwise), a branch's head is a commit, plans are sequences of groups with disjoint members, a
slice that is dispatched has a finding, there is an
artifact to wait for, what a rule file points to has a name, a change is one that git prints (`PatchAssumption`), `Nil` is not an output or a card, the order of a tier lists
each pull request once, a report names no finding twice, no line of a suggestion begins
with a run as long as its fence but the one that closes it, a known bug belongs to one review, and a review whose comments
are bound to its findings names none of them twice (`map_delivery` refuses it).

### What is only model-checked

* Liveness (`EventuallyReturns`, `EventuallyPersisted`, `ChainEnds`,
  `RerunsConverge`, `EveryFindingDecided`, `PassEnds`): outside the prover's reach. Every
  invariant and every action property of a passing run is stated by a theorem.

## 6. Abstractions

**ReviewPipeline.** The text of findings is left out; filter rules, the admission
proof and the replay belt are choices over what they may do to a card. A gap that
an agent itself declares ("partial") is dropped. The report is rendered again in
each run, so its checkpoint has no effect. Normalizing replayed findings is taken to
change nothing in an unmodified copy. A finding suppressed in favour of an audit
loss counts as represented by it, also when the loss is eliminated later.
`selectDelivery` is any cut of whole groups. A slim resume runs the early phases
again, on a lineage whose losses the recorded challenge output does not carry;
disclosure of the verify and validation gaps is asked for only where the lineage is
whole (`WholeLineage`).

**VerifySlices.** A finding is its position. Checksums tell apart what they are
taken of. One defect per answer: any one turns the whole answer down. An executor
that answers from a leftover file of an earlier run with the same nonce cannot be
told from one that answers afresh, and is covered by the same outcomes. Delta
locations that do not parse are left out (the script raises rather than
emit them), as are eliminations (the verify script never eliminates) and the
advice in the fan-out gap. The narrower command budget of a Windows host is
another value of `Copy` and `Hard`. The counters `localised`, `retriedFindings` and
`degradedFindings` follow from the gaps.

**FindingLocation, FixOutlets, DiffWalk.** One file at a time; each finding is an issue
of its own; admission stamps are inputs; aliases of a path are left out. All files of a
patch have one shape ("git" or "plain"), and the plain shape cannot tell a new file
from one that was empty. GitLab's cap of 100 lines on a fence is out of reach of the
small files.

**GitlabDelivery.** Notes are sets of items. Findings have distinct keys and carry
a delivery group, as the pipeline gives them. Legacy group keys, dry runs, heads
that are not a SHA, and notes of other authors are left out. Which of several
summaries is extended is the first in GitLab's order. With two deliverers, one may
post what the other just posted, and a PUT may undo the other's extension: the code has
no guard, so for two only `SummaryFirst` and convergence are claimed. Convergence is
checked without the body limit, see the observation on over-long extensions.

**GithubReview, BodyFold.** A body is a size, a count has radix 2 for 10, and a fold
gives the brim or the notice alone. In `BodyFold` text is symbols with byte sizes; lines
end in LF; fences are backticks without indentation and tildes, those of prose have no info
word, and `suggestion` is one symbol.

**ReviewRounds.** Commits have one parent and one base, one host runs at a time, pushes
matter only before a step that looks, comments are posted between runs in the order of
their timestamps. One form of a signal stands for the others; author names are
compared as they are. "Steady" chains (no push while looking) are the ones the
property speaks of.

**Artifacts.** Version 2 of the plan file is left out. Executors lose parts of a
receipt but do not make parts up. A broken plan and the plan of another run
are both refused. The projection of findings that are not exact may fail or give
anything. Truncation may happen between any two runs, in any order of files. The host
stops a run before it resumes it, so its own steps fall between runs. The materializer
takes the newest payload of the nonce.

**WorkflowAwaiter.** The files of one poll are stat-ed at one instant. How a task
file is found and its return parsed is abstracted to none, open or terminal. A
receipt that cannot be printed is an error exit. The grace period may end while
persist retries; the code does not guard against it and the missing return is
disclosed.

**ContextPreparation, ProjectRules.** A step that fails ends its run, as a run that goes
no further. Texts, masking and framing are data; what a rule file imports is given
with it, and directories are not links. The failure receipt is left out.

**BenchSession, BenchScoring.** What a child costs and how long it runs is left out; its
outcome is one of those `validity.py` classifies. A window is whether the run has one.

**MeasuredReview.** No stragglers: a child has ended when it is judged (`BenchSession`
has the ones that have not). The last verdict is kept as history. Everything a child
may print or record is one of four kinds: none, ours, another's, an echo.

**LossFunnel, ScoreEvidence.** Claims are followed, not their versions; one reason
stands for each kind of ending, and "unanchored" for both ways to omit a comment. A
resumed run has no identities to follow. The delivery tier is "all", as the benchmark
pins it. Replaying a delivery under another treatment is left out. The judge's own
count of false positives is left out; errors of judge and adjudicator raise. Twin texts
are refused by the code, and `map_delivery` refuses repeated occurrences, so nothing is
merged in `surface_candidates`.

**ArmMatrix.** The pull requests of a run are reviewed in any order; a mirror that cannot be
made, inputs that drifted and another CLI end a try without a child, all in `EndTry`; the reset of a usage
limit is in `BenchSession`, whether a packet is whole in `BenchScoring`. What the
fingerprint compares is the CLI and the treatment.

**GateRules, GateProtocol.** One wave and its candidate arm. Recall, margins and bounds
are integers of one scale, bootstrap and Wilson intervals inputs, verdicts of guards
choices. Ship rules are covered by `VerdictsAreMonotone`; the run takes a wave, the only
kind with a second look.

## 7. What is not modelled

Rendering, outbound text, argument parsing, path and wire encoding are functions of one
input. The registry and contract generators are data and text. The agents' prompts
change no outcome; agents appear as environments that may answer anything. The filter
rules appear as a choice of what they may do to a finding. Of the benchmark, the
statistics (bootstrap, precision, Wilson bounds), the reports and the profile are left
out. `coarsenLimits`
(`capacity.js:164`) is left out.

## 8. Plan

1. `Coarsening`: `coarsenLimits` and the dispatch estimate of `capacity.js`, composed
   with the planner: the estimate bounds the dispatches `VerifySlices` makes, and
   coarsening ends below the ceiling or says that it cannot.
2. The pipeline's verify phase as an instance of `VerifyContract`, so that the two
   modules meet in a refinement rather than in prose.
