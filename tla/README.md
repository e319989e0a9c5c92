# A verification project for PR_Repair

PR_Repair ingests review findings about a pull request, plans bounded repairs,
applies them in a git checkout, verifies them with the repository's own command
and pushes them back to the pull request's branch. This directory holds TLA+
models of the parts of it whose correctness depends on order, failure or
accumulated state, the TLC runs that check them, and TLAPS proofs.

## 1. Inventory

Paths are under `src/src/pr_repair/`.

| Component | State | Operations | Correct when |
|---|---|---|---|
| PR loop, `orchestration/pr_loop.py` | its copy of the PR record | `on_pr_event`, `on_signals_completed`, `_attempt_repair` | guards come before mutation; the attempt limit holds per head; a failure is not retried unchanged; every event ends in a reported state |
| PR state store, `runtime/pr_state_store.py` | one JSON file per PR | `load`, `save`, `get_or_create`, `mark_terminal`, `record_failure` | what is on disk accounts for what was run |
| Repair executor, `repair/repair_executor.py` | the checkout, a backup ref | `execute_repair_plan` | only verified trees are published, made of the plan's edits; failure restores |
| LLM lane, `repair/llm_apply.py` | the checkout, a snapshot | `apply_llm_proposals`, one retry | the same contract; earlier autofix changes survive a rollback |
| Git workspace, `workspace/` | branch, origin, index, working tree | checkout, backup, commit, push, rollback, snapshot, restore, clean check | (used by both lanes) |
| Patch generator and applier, `repair/patch_*.py` | lines of files | `generate_patch_instructions`, `apply_patch_instructions` | an edit lands on the lines it was made for or the plan fails |
| Verification, `verification/` | none | `run_verification` | the verdict is the exit code |
| Governance, `planning/approval_gate.py`, `planning/repair_planner.py`, `classification/`, `repo_context/` | none | `classify_finding`, `build_repair_plan`, `requires_human_approval` | risky plans need approval, whatever else is in the plan |
| Pipeline, `pipeline/run_pipeline.py`, `runtime/__init__.py`, `state_store.py`, `orchestration/router.py` | run state, artifacts | `run_pipeline` | both lanes run over one checkout; artifacts tell what happened |
| LLM proposer and router bridge, `planning/llm_proposer.py`, `llm/` | none | `propose_repairs`, `generate` | every failure is an abstention; a proposal is bound to the bytes it was made for |
| Tool actuation, `orchestration/tool_dispatcher.py`, `tools/responder.py` | review threads, fix reports | `run_tool_actuation`, `respond` | each thread is answered once, for what became of it; one is resolved only for a kept fix within the gate |
| Tool adapters, `tools/` | none | `read_findings`, `to_payload_findings` | a tool's threads, and no others, become findings |
| PR commentary, `output/pr_commentary.py` | comments of the PR | `upsert_implementer_comment` | one marker comment converges, people's comments stay |
| Routing, `routing/fix_matrix.py`, `llm/model_router.py` | none | `resolve`, `resolve_for_finding` | the most specific rule wins |
| Review ingestion, `review_ingest.py`, `ingestion/payload_parser.py`, `.github/workflows/pr-repair.yml` | the workflow's queue, the payload file | the job, `run`, `collect_payload`, `parse` | the bot runs on the payload of its own job, made of every thread of the last review |
| Webhook, `server/github_webhook.py` | none | `detect_tool`, `parse_github_webhook` | a review is known by its tool |
| Corpus channels, `corpus/` | files in `.l9/corpus` | `write_*`, `read_*` | a reader sees a whole file |
| Telemetry, `telemetry/`; learning, `learning/` | none | aggregate executions | counts say what the executions say |

**How they interact.** `cli.py` starts `run_pipeline`, which parses the payload,
classifies and routes the findings, asks the LLM proposer about the manual ones,
builds a plan, calls `execute_repair_plan` and, if enabled, `apply_llm_proposals`
in the same checkout, then writes comment, telemetry and artifacts. The PR loop
is the event-driven alternative: an injected signal provider, finding provider
and executor around the persisted record. It is not wired to an entry point;
`.github/workflows/pr-repair.yml` runs the pipeline with one concurrency group per
pull request and `cancel-in-progress: false`, after an ingest step that turns the
review into the payload file. The tool dispatcher is a third caller of the
executor, for one tool's threads; it is not wired to an entry point either.

**What is hard.** Nothing in the repository is multi-threaded. What interleaves
are processes on one PR record, one checkout or one pull request's comments, GitHub events
(duplicated, late, replaced in a queue, out of order), the author's pushes, people
resolving threads, and deaths of the process between two external calls. Every git
or verification command and every GitHub call may fail, before or after it took
effect, and the code has handlers for some of that whose own commands may fail.
Line numbers and expected texts are read at one time and used at another. `PROJECT.json` lists each hazard
with its line and the properties that watch it.

## 2. Modules

| Module | Models |
|---|---|
| `RepairBudget` | abstract: at most `Max` repair runs for each head commit, heads only advance |
| `PRLoop` | the PR loop and its state store |
| `PRLoopProgress` | `PRLoop` with a history of the events handled since CI and review are decided |
| `MCPRLoop` | TLC instance of `PRLoop`: handler symmetry |
| `PRLoopProofs` | theorems about `PRLoop` and `PRLoopProgress` |
| `Checkout` | branch, origin, tracked and untracked files; the git commands both lanes issue |
| `RepairLane` | abstract: what a repair lane promises |
| `RepairExecutor` | `execute_repair_plan` |
| `RepairExecutorProofs` | theorems about `RepairExecutor` |
| `LLMApply` | `apply_llm_proposals` |
| `LLMApplyProofs` | theorems about `LLMApply` |
| `Governance` | classification, repair plan, approval gate, the LLM lane's gate |
| `Pipeline` | one `run_pipeline` over both lanes' outcomes |
| `MCPipeline` | TLC instance of `Pipeline`: a menu of findings, a run without interrupts |
| `PipelineProofs` | theorems about plans and gates, and about `Pipeline` |
| `Patching` | the line arithmetic of both lanes' instructions on one file |
| `MCPatching` | TLC instance of `Patching`: files with repeated lines, replacements of other lengths |
| `PatchingProofs` | theorems about `Patching` |
| `Routing` | fix matrix and model router, pure |
| `ToolAdapters` | the four tools' adapters, over `Governance`'s findings, pure |
| `ToolActuation` | `run_tool_actuation` and the responder, over `ToolAdapters` and `Routing` |
| `MCToolActuation` | TLC instance of `ToolActuation` |
| `ToolActuationProofs` | theorems about `Routing` and `ToolActuation` |
| `ReviewIngest` | the workflow, its ingest step and the payload file, over `ToolAdapters` |
| `MCReviewIngest` | TLC instance of `ReviewIngest` |
| `ReviewIngestProofs` | theorems about `ReviewIngest` |
| `Commentary` | the upsert of the status comment by concurrent runs |
| `CommentaryProofs` | theorems about `Commentary` |

### PRLoop

A handler (one call of `on_pr_event`) is `pc[h]` and its copy of the record
`st[h]`. A step runs up to the next call that leaves the process: `load`, `save`,
the signal and finding providers, the executor. `disk` and `file` are the JSON
file; `save` is a step of its own (`SaveThen` enters it, `Save` completes it), so
that a death or another handler can come before, inside and after it.
`write_text` truncates in place, so inside a save the file can be torn, and
`LoadRaises` is what `model_validate_json` then does.

`Receive` delivers an event for any head the branch has had; `InOrder` and
`Serial` are constants that restrict it to non-decreasing heads and one handler
at a time. The executor appears as its outcomes (`RepairPushed`, `RepairKept`,
`RepairRefused`, `RepairFailed`, `RepairRaises`): exactly the ways `RepairLane`
lets a run end. Fingerprints are model values; the finding provider may return
any. `Gated` are the findings whose plan needs approval. CI and review
describe the newest head, because the signal provider is asked when the event is
handled. That a caller omits `head_repo_full_name` only for a PR that is no fork is
an assumption of `Receive`.

`delivered`, `runs`, `lastRun` and `crashes` are history variables: no guard of the
program's actions reads them (`Receive` reads `delivered` only to restrict the
order of events). `PRLoopProgress` adds two more: `handled`, the events handled since CI
and review are decided and the head stands still, and `fresh`, the handlers that work on
such an event. They turn "some day" of `Settles` into "by which event".

### Checkout, RepairExecutor, LLMApply

A tree is a set of edits relative to the commit the PR had, and a `junk` flag for
content no instruction wrote. Edits outside `PlanEdits` / `ProposalEdits` are
foreign: a developer's changes in the checkout, or another push. The branch is
a sequence of trees; a push without force needs origin's to be a prefix.
`VerificationWrites` lets the verification command touch tracked files or leave
untracked ones.

In both lanes each external command is a step and may fail. A failure is `Raise`:
it takes the `except BaseException` branch, whose rollback is steps again. Two
raises inside a rollback differ, as in the code: in the one after a failed
verification it is caught and the rollback starts again, in the handler's it
escapes (`RollbackRaises`, `RestoreRaises`). A raise at `push` without its effect is
a rejected push, a raise at `return` is a push whose acknowledgement was lost.
`Kill` runs no handler. The next run starts in the checkout as it was left.

The edits of one `apply_patch_instructions` are written in any order, since the
properties depend on which were written and not on the order.
`run_pipeline` always passes `regenerate`, so the `None` case is left out.

`RepairLane` has only `status`, `vouched` and `published`: at most one commit
published a run, only while the tree is vouched for by a verification, never by a
run whose status says nothing was published, and always by one that says
`completed` if pushing is allowed. Both lanes implement it with
`vouched <- work.edits \in passed`.
A kill between commit and push leaves the commit on the local branch, from
where the next run's push takes it along, so a run's one commit may bring an earlier one's
to origin.

### Governance, Pipeline

A finding in `Governance` is the raw record of the payload; its category, tier and
whether it is protected or repairable are operators on it, as `classify_finding`
computes them. A path is what the rules look at in it: the area it is in,
whether it is below a subdirectory of that area, and whether the file itself is
listed. `says` is the set of keyword groups a message contains; `Hints` keeps
the order they are looked for. `Path.match` takes `**` for exactly one path
component, hence `nested`. Skip-review flags, contract ids, rationales and
messages decide nothing and are left out.

`Pipeline` is `_run_pipeline_traced` from parsing to `complete`, a step for each
thing that changes what later steps see. A lane appears as the outcomes
`RepairLane` allows, with the findings whose edits it kept. `stale` are the
proposals whose lines the first lane has changed since they were made;
`apply_patch_instructions` raises on them (`LLMRaisesOnStale`). `Raise` is every
other exception or death, and leaves the artifacts as they are. `mode` and
`allow_push` are independent, because `cli.py --mode` replaces the mode with
`model_copy`, which skips the validator that ties the two. `propose_only` takes
`dry_run`'s branches. Finding ids are taken to be distinct within a payload. The adapters
see to that only where no `databaseId` is null (`NoneId` in `ToolAdapters`): with two
findings of one id, `run_pipeline.py:252` pairs both with one proposal, which `Pipeline`
does not show.

### Patching

One file through one pipeline run: the proposer binds the model's answers to the
lines it reads (`Bound`), then the deterministic lane generates its instructions,
applies them in order, keeps or rolls back, and then the LLM lane applies the
proposals, with its one retry. A line is its text, which is all the code compares,
and the number it had when the run began (0 if an instruction wrote it), which
lets properties speak of lines rather than of numbers. `done` is a history of what
was applied where, what it was bound to (`meant`) and what it replaced (`found`).
`replace_line` is a range of one line: its replacement, too, is split at its
newlines when the file is read the next time. Which characters end a line is left out. A snapshot or backup ref that
gives the file back is `Restored`; that it does is the subject of `RepairExecutor`
and `LLMApply`. Which instructions pass the gates is the subject of `Pipeline`.

The model may answer a finding with any range, so a payload's findings carry the
range and replacement a model would choose. Every way an answer can be unusable
(no result, an error, an abstention, no JSON, another shape, lines outside the file)
is the first disjunct of `ProposeNext`; `RouterUnavailable` is
`LLMUnavailableError`, `RouterGarbage` a list that is not of results, whose
validation error nothing catches.

### Routing, ToolAdapters, ToolActuation

`Routing` and `ToolAdapters` are operators. A fix matrix is a sequence of rules; a
rule names some of a finding's dimensions and is scored as `_match_score` does. A
thread is its opener, the others who wrote in it, the keyword groups of its first
comment, and whether it has a suggestion block and still a line; two tools write
exact fixes, two never do.

`numbered` says whether GitHub gives the first comment a `databaseId`, which its schema
lets be null. Two things depend on it. A reply needs it (`responder.py:61`, `Answerable`);
a resolution does not, since it goes by the thread's own id, which is never null. And a
finding is named after it (`FindingId`): Copilot's adapter falls back to the thread
(`copilot.py:97-101`), the others write `coderabbit-None`, `sonar-None` or
`gitguardian-None` whatever the thread (their `get` has a default for an absent key, and the
query always asks for this one). That name is `NoneId`; any other id tells threads apart
as their positions do, and so is a position. The dispatcher keeps what was applied,
what was proposed, the strategies and the reports by id, and the model does too:
`execution.applied`, `proposals`, `Namesake`, `reports`. `Alike(i, j)` says that the
findings of two threads go by one id.

`ToolActuation` is `run_tool_actuation`, several runs one after the other, one
GitHub call a step. `ReplyRaises`, `ResolveRaises` and `ExecutorRaises` take their
effect or not; nothing catches them, so the run ends there. Between any two steps
people resolve and reopen threads. `landed` are the threads whose fix is at origin:
a second run that pushes cannot commit only those again. `vouched` and `replies` are
history. Unlike `run_pipeline`, the dispatcher gives the planner its autofix
findings only.

### ReviewIngest

`Submit` is a review and what GitHub's concurrency group does with it: one job
runs, one waits, and a newcomer takes the place of the one that waits. The job's
steps follow the workflow and `review_ingest.run`; a failure of any of them ends
the job. `file` is the payload's path on the runner, which starts as what the branch
has there (`committed` if it has a file of that name), is truncated and then
written. `since` tells from which head on a thread's line is what it is, so that
lines can be compared with the head checked out. That the workflow is armed at all
and that the pull request is of the same repository are assumed.

### Commentary

Runs are also the bodies they write. A run lists the first page (`Page`), then
creates, or deletes the duplicates in turn and updates the oldest. `Over` and
`Delete` may lose the answer of a call that took effect; `Raise` is a call that did
not. People comment, quote the marker, and delete. `last` and `view` tell whether a
run had the comments to itself and saw them all.

## 3. Runs

| Run | Question | Result |
|---|---|---|
| `pr_loop` | budget, record and end under pushes, redelivery and a death at any point | holds |
| `pr_loop_concurrent` | guards with two handlers interleaved at every save, repeated events, torn files | holds |
| `pr_loop_live` | events drive the record to a terminal state, a death in between or not | holds |
| `executor` | the lane's contract, what it commits, what it leaves behind, that it ends | holds |
| `llm_lane` | the contract through a retry, restoring what was found, that it ends | holds |
| `pipeline` | what either lane may keep, which rules are promoted, that a gate stays shut, for any payload of the menu | holds |
| `pipeline_approval` | "Approval-required status MUST stop mutation" | violated |
| `patching` | do instructions replace the lines they were made for and no others, and are they refused only on conflict | holds |
| `tool_actuation` | are threads answered once and resolved only for a kept, ungated fix, through failures and a second run | holds |
| `review_ingest` | does the bot read its own job's payload, with every thread of the last review | holds |
| `commentary` | do concurrent upserts converge and leave others alone | holds |
| `commentary_one` | "The bot maintains exactly ONE comment per PR" | violated |

The violated ones are disagreements between the code and a sentence of its
documents; `PROJECT.json` quotes each under `findings`. Other places
where the code does less than a sentence may be read to say, visible in the models
without a run of their own:

* a terminal record does not keep a redelivered event from starting a repair of
  other findings (`RUNTIME_MODEL.md:77`); the loop's own pushes renew its attempts
  (`README.md:82`), and so does a late event for an older head (`GOVERNANCE.md:87`);
  redelivery turns `approval_gate_denied` into `repeated_same_failure`;
* `git add -A` stages what the verification command wrote along with the
  instructions (`VerificationWrites`, `CommitAll`; `GOVERNANCE.md:74`);
* when the LLM lane's push is refused, its commit stays on the local branch, because
  `restore_worktree` resets to `HEAD` (`Reset` in `LLMApply`; the comment at
  `llm_apply.py:161` compares it with the deterministic lane, which drops it);
* a proposal whose lines the first lane has changed makes the LLM lane raise, and a
  repair already made is in no artifact (`LLMRaisesOnStale`; `GOVERNANCE.md:70`);
* a finding reported as `security_issue` whose message contains an earlier keyword is
  reclassified and may be patched (`InferCategory`; `docs/actuation/VALIDATION.md:34`);
  `AutofixWithinBounds` and `LLMWithinBounds` show that only such words let it through;
* the LLM lane's execution hides the rules of a rolled back autofix from telemetry
  (`LastExecution`); files in subdirectories of `kb/**` and the like are not protected
  (`MatchesAny`);
* a thread is resolved after a completed execution also where pushing is off and the
  fix is in the checkout only (`responder.py:58` speaks of a fix that "has landed"), and
  a thread a person opened counts as a tool's as soon as the tool has written in it;
* a fixed thread whose first comment has no `databaseId` is resolved without a word in it
  (`Reply`; `responder.py:61` guards the reply and `:66` asks only for the thread), so
  `AnsweredOnce` and `ResolvesHonestly` ask for a reply only where there is a number;
* of two such threads of CodeRabbit one is resolved for the other's fix, as both findings
  are `coderabbit-None` (`Outcome`; "Resolving a fixed thread is only honest once the fix
  has landed", `responder.py:58`), and only one of their reports survives. With `i = j` for
  `Alike(i, j)` TLC finds `ResolvedIsRepaired` and `ResolvesHonestly` violated in `tool_actuation`;
* with `post_comment` off the report of a fixed thread says `justified_skip`, because
  it reads the outcome off the reply (`Report`);
* after a push between the review and the job the threads' lines are those of a head
  newer than the checkout (`docs/actuation/review_ingest.md:39` speaks of the exact
  line), and a review in state `commented`, which the review tools mostly submit, does not
  start the job (`Armed`).

**Bounds.** `pr_loop` (which checks `PRLoopProgress`): two plain failures and a gated one
(so that one can come back after another), two attempts (so that a first failure, a
second and an exhausted budget differ, and the record must be terminal by the third
event), two heads (so that a reset happens, by a push of the author or of the loop), one
crash. CI `pending`, `success`, `failure` reach each branch of the signal tests but that of
review `changes_requested`, which `pr_loop_live` has, for one failure less; the left out
values (`unknown`, and `pending` for the review) take the same branches.
`pr_loop_concurrent`, where `GuardedRuns` is checked, pays for the second handler with one
head and one attempt.
`executor` and `llm_lane`: two edits of a plan (one may be written and the other
not) and a foreign one; two runs, so that the second meets what a first left;
two or three commits at origin, so that another push can come before ours. Their
deadlock check is off because `MaxRuns` ends every behaviour.
`pipeline`: payloads of at most three of the menu's twelve findings, one for each
way the rules can go (three put an autofix, a finding that raises the gate and
one the LLM lane may repair into the same run; two share a rule, so that one
repaired and one not differ), two rules, the ceilings T1 and T5, and every
combination of mode, push and LLM switch. Its deadlock check is off because a run
of the pipeline ends. `pipeline_approval` needs two findings and uses `SmoothSpec`, which
has no interrupts: what it shows is the code's own doing. Its configurations are those of
mode `repair_verify_and_push` with `allow_push` (`PushingConfigs`) and its payloads those with
an autofix the plan can target (`RepairPayloads`): a plan is then refused for what it
would do and not because it is empty, and a lane that completes has committed and pushed
(`llm_apply.py:114-120`), a step of `LLMApply` which `Pipeline` has as the lane's outcome.
`patching`: three lines, which suffice for a line above, inside and below a range,
with every pattern of equal lines up to renaming, and no file; two findings of any
kind and range, so that the second can meet what the first shifted, in the same lane or
in the other; replacements that keep, add or remove a line and one that equals a line of
the file.
`tool_actuation`: pairs of threads for each way they can differ (two fixes, a fix and
a question, a fix that closes the gate, a person's thread, a blank one, two tools; a fix
and a question of Copilot and two fixes of CodeRabbit without a `databaseId`), two runs, so
that the second meets what a failed first one left, four configurations (pushing, not
pushing, not commenting, proposing only) and a matrix whose rules compete.
`review_ingest`: three reviews, so that one runs, one waits and one replaces it, of
an enabled tool, a disabled one, a bare comment and an event that misses a field; one push;
a page of two threads. `commentary`: three runs (two can leave duplicates that a third
clears), five comments and pages of four, so that either all are seen or the last one
lies beyond the page; `commentary_one` has pages of two for GitHub's thirty. The deadlock check of
these is off because their runs, reviews and comments are bounded and then spent.

**Fairness.** `FairSpec` assumes that a started handler runs on (`WF` of `Handle`;
a call of Python code does) and that the newest head's event is delivered again
and again (`WF` of `Receive`; GitHub sends one for each check and review). It does
not assume that signals ever settle: that is in the antecedent of `Settles`, as is
that the file is never torn. Nothing is fair about crashes, pushes or reviewers.

**Why `Serial`.** The budget properties need one handler at a time: the code's
protection is the workflow's concurrency group and not a lock. `pr_loop_concurrent`
and the first two theorems show what remains without it.

## 4. Proofs

For every value of the constants, under each module's named ASSUME:

* `PRLoopProofs`. `TypeCorrect` (with `AttemptLeft`: a planned repair still has an
  attempt to spend, without which the bound on `attempt` is not inductive) and
  `RunsAreGuarded` (with `GuardsPassed`: what each guard has ruled out by each
  step) hold for concurrent, unordered handlers. `SerialCorrect` proves `SerialInv`
  for `Serial /\ InOrder`: the file accounts for the runs made (`FileAccounts`),
  the one active handler's copy does so up to the attempt it has spent and not
  yet run (`CopyAccounts`), and at rest the two differ by at most one attempt per
  crash (`RestAccounts`). `RestingRecordAccounts`, `KeepsBudget`,
  `NeverRetriesInVain` and `RecordAdvances` follow from it; `KeepsBudget` is the
  refinement of `RepairBudget`. `SettlesByTheLimit` is the safety core of `Settles`, about
  `PRLoopProgress`: `ProgressInv` says that each event counted has left the record
  terminal or spent an attempt (`PaysFor`), in the file and in the copy of the handler at
  work; when the attempts are spent the next event ends the record, so one event more
  than the limit suffices. A killed handler counts for nothing, and may have spent an
  attempt, which only brings the end nearer.
* `RepairExecutorProofs`. `TypeCorrect`; `TreeFollowsPlan` (how the working tree,
  the branch and the backup ref relate at each command, starting from the clean
  check) gives `OnlyThePlanIsCommitted` and `RollbackIsComplete`;
  `StatusFollowsPush` gives `KeepsLaneContract`, the refinement of `RepairLane`.
  `RunsDown`: `CommandsLeft`, a natural number, falls with every command of a run
  whichever of them fail, so a run ends as soon as its commands do; a rollback may start
  a second one but not a third.
* `LLMApplyProofs`. `TypeCorrect`; `WorkHasTip` and `SnapshotSuffices` (the branch
  found, plus the snapshot's diff, is the tree found, from the moment the snapshot
  is taken); with them `TreeFollowsAttempt` (the working tree is the found one plus
  edits of the present attempt only) gives `OnlyTheLastAttemptIsCommitted` and
  `RollbackRestoresSnapshot`; `StatusFollowsPush` gives `KeepsLaneContract`.
  `RunsDown` is as in the other lane; the retry is the only way back to an earlier command,
  and each one left pays for all the commands that follow it (`RetryCosts`).
* `PipelineProofs`. First the gate. A plan's tier bounds the tier of each finding and
  grows with the plan (`MaxTierBounds`, `MaxTierMonotone`). `OpenGateBoundsPlan`: a plan
  that needs no approval has low risk, touches nothing protected, stays within the
  ceiling and T2. `MoreFindingsKeepGate`: a larger plan of a gated one that targets
  something is gated (a plan without targets is gated because it is empty, and may well
  open when one comes). Then the run. `TypeCorrect`; `GateBoundsAutofix` and `GateBoundsLLM` look at
  the only steps that set `execution` and `llm` (`ExecutorSteps`, `LLMSteps`) and cite
  what the gates bound; `PromotedRulesAreVerified` needs `PromotionInv` (the two
  lanes keep disjoint findings, and nothing is promoted before telemetry, so the
  replaced execution cannot vouch for the wrong ones); `GateIsMonotone` is
  `MoreFindingsKeepGate` for the plans of a run.
* `PatchingProofs`. For files of any length and any findings. `LinesInv` keeps
  `Tracks`: where no applied instruction has named or shifted a line, it still has its
  number; it gives `TouchesOnlyBelow` and `ReplacesNamedLines`. `FreshInv`: an
  instruction still to be applied fits the file or conflicts with something applied, for
  the present file and for the one a rollback would restore; it gives
  `RefusesOnlyConflicts`. `KeptInv` relates the file, and the one a rollback would restore,
  to the one found: what an instruction takes away are the lines of its range and no
  others (`SpliceKeeps`), the rest keeps its order; it gives `KeepsOtherLines`, for which
  no text needs to be unique and nothing unshifted. `TellInv`: with texts all different, a
  line's text tells where it was; it gives `ReplacesBoundLines`.
* `CommentaryProofs`. For any number of runs. `TypeCorrect` with ids unique;
  `FoundIsMarked` (what a run has listed is marked or gone) gives `LeavesOthersAlone`;
  `FoundHasOldest` (every run that has listed any comment has the oldest, and takes it
  for its own) gives `KeepsOldest`; `LastSawAll` (as long as the last run to list is undisturbed,
  what it has still to handle are exactly the marked comments there are) gives `RunsConverge`.
* `ReviewIngestProofs`. For any reviews, threads and number of pushes. `TypeCorrect`,
  `BotRunsOnOwnPayload`, `NoToolIsSkipped`, `LastReviewReachesBot` and `LinesFit`
  follow from one invariant: `GroupInv` (only the last event waits, only the latest
  started runs, and each fate is what the job found) and `JobInv` (what the job has read
  at each step, among it `Covers`: as long as the job is that of the last event, its
  payload has all that its tool has still open).
* `ToolActuationProofs`. For any threads, any fix matrix and any number of runs.
  `SpecificRuleWins`: the scores of two levels of specificity never meet
  (`LevelsApart`), so no sum of weaker dimensions beats a stronger one
  (`StrategiesAreMostSpecific`). `FoundInv` (one finding a thread, named after it, which no
  step changes: `SameNames`) and `AnswerInv` (who is answered, and how, at each step) give
  `AnswersOnce`, for which two ids are one only if they are `NoneId` (`IdsApart`); with them
  `KeptInv` (for each id applied, a thread of that id has landed if the run pushes, and
  a fix is vouched for within the gate's bounds) gives `ResolvedHadRepair` and
  `ResolvesOnlyHonestly`. The gate's bounds are proved here again for the dispatcher's
  plan, which is made of autofix findings alone.

The bounds on a `security_issue` need `SecretsAreRead` in `PipelineProofs`: without a
keyword in its message the reported category stands, and it is never auto-repaired.

The inductive invariants (`AttemptLeft`, `GuardsPassed`, `SerialInv`, `ProgressInv`,
`TreeFollowsPlan`, `TreeFollowsAttempt`, `FoundHasOldest`, ...) stand in the components'
modules, where TLC can check them too; those of `Patching`, `ReviewIngest` and
`ToolActuation`, which say more than the components' own reader needs, stand with the
proofs.

The type invariants of `Patching`, `ToolActuation` and `Commentary` are proved, and no run
checks them besides.

Only model-checked: `Settles` itself, since liveness under fairness is out of the prover's
reach (`SettlesInTime`, what it asks of the code, is proved; what is left is that GitHub
delivers and Python runs on), and the two violated ones. `EndsInTime` likewise says of
the lanes' termination all but that each command returns.

## 5. Not modelled

* The index, `list_modified_files` and branch checkout of the git workspace: the lanes
  stage everything and stay on one branch, so a tree and a tip are all they can tell apart.
* The two lanes in full detail over one checkout. `Pipeline` composes their outcomes,
  which both are shown to implement, `Patching` their effect on a file.
* Settings that `load_config` refuses. Among them is the workflow's default for
  `PR_FIX_WRITE_CEILING`, `t1` (`pr-repair.yml:139`), where `TierLevel` has `T1`: it ends
  the job as any failure of the run does in `ReviewIngest`.
* Containment of paths in the repository, schema validation, signature checking,
  redaction: functions on text with one outcome each, which the models take as a
  finding dropped or a step that fails.
* `parse_github_webhook`, `list_open_prs` and the branch connector: no caller but tests.
  Collection and normalisation reshape records without choices of their own.
* Corpus channels: whole files written by a single writer; what could go wrong takes
  two, and nothing in the program starts two.
* The offline `--context` mode of the ingest step, the rest of `cli.py`, tracing, logging,
  the learning recommenders and report formatting, whose results nothing in the
  system reads back. Re-export packages (`patching`, `rollback`, `governance`,
  `artifacts`) hold no code.
