# A verification project for the Dal adaptive loop

TLA+ models of `dsh-adaptive-loop`: what its live controller does to its files,
to its provider and to the prompt it serves, what its spend ledger and the gateway
over it promise, what the commands that write evidence under `.dal` do to each
other, and what the host's plugins and the workflow benchmark record; checked with
TLC on small instances, and proved with TLAPS for every instance wherever the
prover reaches.  Line numbers refer to the repository's tree
(`src/live/loop.ts` is the file `PROJECT.json` calls `src/src/live/loop.ts`).

## 1. The system

The program is a command line tool (`dal`) with plugins for a host agent.  Every
command is a short-lived process.  What it knows is kept in files below `.dal/`:
almost all of them are published exclusively and never changed, and the code
re-verifies them whenever it reads them.  Commands interact through these files
only: several supervisors, a reviewer and an operator, a crash at any moment, and
a provider that answers once, late or never.  Plugins live in the host's process and
meet its other callbacks wherever they wait.

| Part | State | Operations | What is hard, and what makes it correct |
| --- | --- | --- | --- |
| live: call protocol (`live/loop.ts:278-336`, `live/authority.ts`) | `operations/<name>.intent.json`, `.receipt.json`, `revoked.json`, the grant | `call`, `authorize`, `revokeLive` | parallel callers, crash between intent and receipt, revocation at any step. No request is sent twice; the disk explains every send; the allocation and the revocation bind |
| live: campaign (`live/loop.ts`) | `state-NNNN.json` (hash-linked), `current.json`, `generations/`, `reviews/`, `lease.json` | prepare, run, promote, reject, rollback, task, revoke, recover | crash between snapshot and pointer, resume of a half finished batch or probe, review against promotion. A history stays loadable but for the length that rollbacks give it; only approved, measured, canaried prompts serve |
| live: discovery (`live/dream.ts`) | none | `selectDiscoveryBatch`, `replayDiscoveryTree` | order of parallel results. The recorded search replays |
| live: lease (`live/loop.ts:252-261, 705-717`) | `lease.json` | `withLease`, `recoverLive` | test and removal by name, reused pids. One supervisor works at a time, and one more for each recovery that was overtaken |
| live: driver and dashboard (`live/native.ts`, `live/dashboard.ts`) | none | one HTTP or native turn; a page | the external party of the call protocol |
| proposal budget (`proposal-budget.ts`) | lock directory, `cap.json`, chain of reservations and extensions | reserve, extend, snapshot | crash with the lock held, stale heads, half written records. Never over the approved cap |
| model gateway (`e2e-model-gateway.ts`) | one request at a time, outcome files, diagnostics | charge, forward, abort, record | abort after the reservation, timeout against answer, bounded diagnostics |
| artifact campaign (`artifact-campaign.ts`) | operation log, `writer.lock` | reserve, result, resolve, decide | unknown results that are resolved later; parallelism, budget and provenance hold throughout |
| campaign replay (`campaign-replay.ts`) | `plan.json`, `step-NNN.json` | prepare, replay, status | concurrent replays, a kill between two snapshots. The snapshots are those of one plan |
| saga, admission (`saga.ts`, `admission.ts`) | intent or challenge, receipt | begin and complete, issue and complete | a repetition after a kill, a probe that reports late. A receipt answers its intent |
| seal (`seal.ts`) | four files, the reveal | init, reveal, verify | a crash between two files, a second init. What is revealed was sealed, unless two inits ran into each other |
| branch evidence (`branch.ts`) | branches and evaluations | record, evaluate, verify, stats | the test for duplicates is separate from the publication. Nothing is counted twice |
| guardrail (`guardrail.ts`) | decisions | evaluate | counting before publishing, circumstances that change. The limit binds, a stale decision is not repeated |
| feedback, run records, clusters (`store.ts`, `runs.ts`, `clustering.ts`) | one file per record or cluster | ingest, query, cluster | the same, and a batch that grows. Answers and clusters say what is on file |
| control (`control/estimator.ts`, `control/store.ts`) | estimates | estimate, status | runs ingested between listing and publication. Estimates count comparable runs once |
| proposals, approval, evaluation (`improvement.ts`, `approval.ts`, `evaluation*.ts`, `propose*.ts`) | one file per stage, scorecards, decision files | transition, run a suite, verify | edits and expiry between check and use. What is applied was authorised |
| reset (`reset.ts`) | all stores, the receipt | inventory, execute | commands that go on, a kill half way. What git was asked about is not lost |
| plugin run-record (`plugins/dal-run-record`) | sessions, temporary files, records | listeners, flush, dispose | a write waits while its session goes on. Records claim what holds |
| plugin hmr-candidate (`plugins/dal-hmr-candidate`) | staged files, baseline | prepare, reject, observe | file by file, edits, a second client. Files of two candidates never mix |
| plugin unknown-effect-guard, workflow benchmark | locks per agent and key, effect journal | gate and result hooks; perform, status; grade | a retry against the resolution of an unknown outcome, call IDs that come again. Answers are true and final |
| optimizer, research, capsules, runtime generation, receipts | documents | validate, compute | sequential checks of documents |
| command line, init, install, doctor, docker, sandbox, release, provenance, other plugins, helpers | none of their own | - | - |

`PROJECT.json` lists all of them with their files and their status, and the hazards
with the properties that watch them.  The live controller comes first because it is
the part that spends money, acts under a human's authority and changes what users
are served.

## 2. The modules

| Module | Models | Proved in |
| --- | --- | --- |
| `EffectLedger` | abstract: a set of effects, each claimed at most once and settled at most once after it was claimed | implemented by `LiveOperations` and `LiveCampaign`: `LiveCampaign_proofs` |
| `LiveOperations` | `call()` with every check and publication as a step of its own | `LiveCampaign_proofs` |
| `LiveDiscovery` | batch selection and replay, operators over the tree | `LiveCampaign_proofs` |
| `LiveCampaign` | the campaign controller; EXTENDS the two above | `LiveCampaign_proofs` |
| `PromptPromotion` | abstract: a prompt serves only if it was approved or retained before | implemented by `LiveCampaign`: `LiveCampaign_proofs` |
| `LiveLease` | the lease, one file operation per step | `LiveLease_proofs` |
| `SpendCap` | abstract: a request is charged once, within the cap and before it is sent; the cap grows only over the charges an approval was given for | |
| `ProposalBudget` | the spend ledger, one file operation per step | `ModelGateway_proofs` |
| `ModelGateway` | the spend gateway; EXTENDS `ProposalBudget` | `ModelGateway_proofs` |
| `ArtifactCampaign` | the research ledger: transition function, log, writer lock | `ArtifactCampaign_proofs` |
| `EvidenceStore` | what the commands that write below `.dal` have in common | |
| `EffectSagas`, `FeedbackStore`, `ControllerEstimates`, `FailureClusters`, `Guardrail`, `BranchArchive`, `SealedHoldout`, `ImprovementProposals`, `CampaignReplay` | the commands of one store each; EXTEND `EvidenceStore` | `Workspace_proofs` |
| `WorkspaceReset` | the removal of all stores, and the version control it relies on | `Workspace_proofs` |
| `Workspace` | the stores and the reset together | `Workspace_proofs` |
| `WorkflowService` | the benchmark's service, its agents' calls, and the guard between them | `WorkflowEvaluation_proofs` |
| `WorkflowGrader` | the grader, as operators | `WorkflowEvaluation_proofs` |
| `WorkflowEvaluation` | service, snapshot and grader together | `WorkflowEvaluation_proofs` |
| `SessionRecorder` | the plugin that records runs | `PluginHost_proofs` |
| `CandidateCoordinator` | the plugin that stages candidates | `PluginHost_proofs` |
| `PluginHost` | the two plugins in one host | `PluginHost_proofs` |
| `FiniteSums` | lemmas: numbers from well-founded inclusion, sums over finite sets | itself |
| `MCLiveSearch`, `MCLivePromotion`, `MCProposalBudget`, `MCModelGateway`, `MCArtifactCampaign`, `MCWorkspace`, `MCWorkflow`, `MCPluginHost` | instances for TLC | |

**LiveOperations.** `intent[o]` and `receipt[o]` are the two files of operation
`o`: the generation the reservation binds, and the verified content (or failure)
of the receipt.  `call[c]` is where caller `c` stands: `admit` (304-319),
`reserve` (320), `recheck` (322), `send` (324), `answer` (327-335).  A succeeded
receipt found on disk is reused, any other reservation stops the caller.
`granted` and `revoked` are what `authorize()` reads; they change at any step.
`sent` and `late` are history variables.  A driver may answer, fail (timeout,
oversized or malformed reply: a failed receipt) or leave nothing recorded.
`Begin` assumes that no two callers hold one name: see `CallProtocol` below.

**LiveCampaign.** `history` is the sequence of snapshots, `pointer` is
`current.json`, `run` the command in progress and its next step, `chain[c]` what
parallel expansion `c` is doing.  A command is one step from one durable effect
to the next: `SaveState` publishes the snapshot and leaves the run at `point`,
`Point` moves the pointer, and `Crash` can fall on either side.  `loadState` is
the operator `SnapshotLoads`: it recomputes scores, tree and review evidence from
the receipts as the code does, which is why scores are not part of a snapshot.
Expansions of a batch outlive the command that failed (`Promise.all`), and so do
their chains here.  A prompt is a model value and a proposal's answer is the
generation it yields; a grade is `pass` or `miss`; cases and decision files are
names.  The lease is held or free; how it is taken, lost and recovered is
`LiveLease`.

**LiveLease.** `lease` holds who created the file and the pid written in it
(none between the open and the write); `proc[p]` is the step of the process that
currently has pid `p`, and a pid is reused as soon as its process is gone;
`rec[r]` is the recoverer's step and the pid it read.  Recoverers come at any time and
in any number; `late` and `overtakes` are history: who still goes by a lease that was
removed after they read it, and how often such a one removed the next lease in its
place.

**ProposalBudget.** A record of the ledger carries the digest of its predecessor,
and that one of its own; the model's record is the sequence its digest commits to,
so `files` is the set of completely written records (`cap.json` is the sequence of
length one) and `torn` the set of names whose content is not there yet.
`ReadChain` is `readChain` with every demand it makes (a record per sequence
number, linked, complete, within what is left of the cap).  `locked` is the lock
directory, `dir` how far `initialize` came, `proc[w]` the call of writer `w` with
what it has read: `reserveProposalBudget` takes the lock first, a snapshot tests
the lock before and after, `extendProposalBudget` is a snapshot, the verification
of the approval, then a second look under the lock.  `valid` are the approvals
that verify now; they expire at any step.  `IOFails` is an I/O error at any step
under the lock, including one after the content was written and one that leaves
the lock; `Die` kills any set of writers, as one process may run several calls.

**ModelGateway.** `handler[h]` is one POST from its arrival to its end, `aborted`
and `completed` as in the code, and its reservation is the ledger call of writer
`h`.  Diagnostics are a queue (`queued`), the numbered files (`slots`), the
overflow `marker` and what the process counts (`dropped`, `lossy`); `behind` is
the part of the queue a handler still waits for.  `Abort` (timer, disconnect,
shutdown) is enabled wherever the code listens for it and takes effect where the
code looks: after the reservation and in the race with the provider.  A crash
loses every counter, and a restart reads them back from the directory.

**ArtifactCampaign.** `log` is the sequence of events (each names its predecessor's
digest), `History` the fold that the loader performs: `Allowed` holds the checks of
`transition` and `recordResult`, `Apply` their assignments.  The state of a campaign
is never kept, it is recomputed by every call, as in the code.  An operation id is
the operation itself (reusing an id for something else is refused), `timed_out` is a
failure, and `Report` lists what a worker may say.  `RemoveLock` is the manual
recovery the `CAMPAIGN_BUSY` message speaks of, at any moment; that the log survives
it is due to the exclusive publication under the sequence number that was read.
The properties read the log, not the projection they check.

**EvidenceStore.** `files` is the content of every path that exists, `call[c]` a
command from its start to its answer: what it has read (`read`), what it wants to
publish (`want`) and where.  `Publish` is `publishJsonExclusive`: it stores, or it
finds the file there and goes on to compare, and `Killed` can fall between any two
steps.  Whatever a command reads in one go and decides from is one step; reading first
and publishing later are two.  `outside` is what the code reads that is not below
`.dal` (drafts, artifacts, inputs, an approval that lapses).  Nonces, random names and
seeds are `made`, the number of commands so far.  `outside.raced` is history: two
inits of the seal were under way at once.

- `EffectSagas`: `Begin` and `Complete` publish an intent and its receipt; `Issue` and
  `CompleteAdmission` a challenge with a fresh nonce and the receipt of a probe, which
  may be presented by anybody; `OldResults` are those of challenges that were issued
  elsewhere or before a reset, under an ID that is used again.
- `FeedbackStore`: `IngestFeedback` looks for the record, counts the store, publishes;
  `IngestRunRecord` does not count.  Nothing is read from a store above its limit.
- `ControllerEstimates`: `Estimate` lists, `ReadBatch` selects, compares, counts; the
  path of an estimate is its content (its ID is a digest of it).
- `FailureClusters`: `GroupRuns` groups the runs that were listed, `PublishCluster`
  publishes one cluster per step and ends at the first conflict.
- `Guardrail`: `EnforceRateLimit` counts the window, `Judge` applies the rules, `Repeat`
  answers for a decision that is there: the same, another action, or stale.
- `BranchArchive`: `RecordBranch`, `EvaluateBranch`, then `VerifyArchive` of all that is
  stored before an evaluation is published; `Visits` are the statistics.
- `SealedHoldout`: `SealInit` writes its four parts one by one (`PublishSealed`, by
  rename, which replaces) and several inits may do so at once, `SealReveal` reads two of
  them and links the fifth.
- `ImprovementProposals`: every stage is a file; `Transition` reads one that people may
  have edited (`Edited`) or written themselves (`Authored`, any stage), `Decide` and
  `Revalidate` are `validateProposal` before and after `transitionProposal`; `RunSuite`
  evaluates the artifact as it is.
- `CampaignReplay`: `PrepareReplay` and `ReplayCampaign` derive each snapshot from the
  one before; `LoadCampaign` replays all that is on file.
- `WorkspaceReset`: `ResetInventory`, `ResetCheck` (the question to git), `RemoveStores`
  or, killed half way, `RemoveSome`, and `WriteReceipt`; `lost` is a history variable.

**Workspace** lets the commands of one store run in a behaviour (`focus`): the stores
share nothing but the directory, and the one place where one reads another, the
guardrail and the evaluations, is inside its focus.  Resets run next to the feedback
and run stores, which version control tracks and a reset treats alike.

**WorkflowService.** `journal` is the file of effects, `torn` that it ends in a cut
entry.  `request[c]` is what a tool call asks, `stage[c]` where it stands at the
agent, `service[c]` at the service: its connection may be cut while the service goes
on with it, and `told[c]` what the agent saw of it.  A call carries the ID its host
gave it (`callId`), which may come again.  `PreExecute` claims the key in `locks`
before anything waits, unless another ID holds it, and notes in `calls` which key the
ID stands for; `ChainDenies` is another hook that refuses afterwards (`ReleaseCall`),
`ObserveResult` what the guard makes of an answer.  `Enter` reads the journal and
decides (`serialized` runs one operation at a time), `AppendEffect` appends: fully,
with a failing `sync`, or cut off.  A fault profile says which kinds of effect end
unknown and how a status query resolves them; it comes with what the agents may ask.

**WorkflowGrader, WorkflowEvaluation.** `GradeTask` is the grader: goals, policy,
required and forbidden effects, gating, totals.  `Snapshot` is the projection of the
journal that the evaluator fetches.

**SessionRecorder.** Accumulators are objects: a write keeps the one it began with
although the map of sessions forgets it, so they live in `heap` and `sessions` refers
to them.  `OnEvent` is a listener, which runs to its end; `Flush` and `Dispose` begin
a write, which then waits at `digest`, `open` and `rename`.  A record takes its
outcome and its batch when the write begins, its metrics after the first wait.
`WriteFails` leaves a temporary file, `Crash` ends the process.  `host`, `deviated`
and `transitions` say what really happened, for the properties.

**CandidateCoordinator.** `source` and `staged` are the live and the staged files,
`Enter` is `#exclusive`, `ReadLive` and `Stage` take one file per step, `Remember`
sets the baseline at the end.  `EditLive` and `EditStaged` are the developer and the
agent.  `touched` is history: the staged files that no longer stand for the remembered
candidate, since the agent edited them or a prepare that failed later had written them.

Mutant operators (`Mutant:` in their comment) stand before the definition they
distort and occur in no specification.

## 3. The runs

| Run | Result | Shows |
| --- | --- | --- |
| `live_search` | passes, 580,304 states | three candidates, two in the second round's batch, a crash at any step. Parents are the real ones, the finished search replays, and every step is one of the call protocol (`CallProtocol`), in which no request is repeated |
| `live_promotion` | passes, 437,906 states | one candidate, two decision files of either outcome that may expire, two tasks, authority granted, withdrawn and revoked at any step, one crash, and rollbacks until the loader refuses. `HistoryAccepted` (the history loads up to there, and the pointer follows it), `HumanGate`, `OnlyProvenPromptsWork`, `AllocationHeld`, `RevocationBound`, and both abstract specifications |
| `live_progress` | passes, 43,828 states | commands end; the campaign settles |
| `live_lease` | passes, 93,435 states | three pids, two recoverers at any time, crashes and pid reuse. The lease excludes until a recovery is overtaken, and lets in one more command for each that is (`ExclusionBounded`); it comes free |
| `budget` | passes, 228,286 states | two writers (reserve, extend, snapshot), two requests, one approval that may expire, a crash or an error at any step. The records form one verified chain, snapshots are real, and the ledger is a `SpendCap` |
| `artifacts` | passes, 260,320 states | two clients, two attempts, a crash and a lock removed under a live owner. The log always loads (`LogLoads`); the plan's limits bind work in flight; no artifact is made from itself; reviews stand and the incumbent is the best |
| `gateway` | passes, 1,569,372 states | three POSTs at once, one diagnostic slot, one crash. Outcome files tell the truth (`OutcomeIsTrue`); no failure vanishes uncounted (`FailuresAccounted`) |
| `gateway_ends` | passes, 133,636 states | two POSTs, one crash. A request reaches the provider once at most, after its charge and within the cap; every request ends |
| `workflow` | passes, 1,326,743 states | two agents, one key, three calls (four of one agent alone), call IDs that come again, injected unknown outcomes, a cut journal, a restart. What was answered is what the journal says (`AnswersAreTrue`), ends are final (`OutcomesStand`), no second effect call of an agent passes the guard before the agent was told how the effect ended, unless a call ID came twice (`NoBlindRetry`), and service and grader hold one policy (`ServiceKeepsPolicy`) |
| `workspace` | passes, 1,509,406 states | two commands of one store at a time, each killed at any step, resets next to ingestion. Answers hold in every store; receipts, seals, clusters and replays are sound (`EvidenceIsSound`); limits are passed by no more than the commands that run (`LimitsHold`); statistics count nothing twice, estimates only comparable sessions, and what is applied was authorised |
| `plugins` | passes, 2,208,714 states | a session with two writes under way and a generation that moves on; a candidate of two files with two clients. An outcome in a trace is that of its call (`TraceIsHonest`), records claim what holds (`ClaimsHold`), no disposed session is lost, staged files are those of one prepare, also when a later one fails half way |
| `live_evidence` | violated | the review may quote an evaluation that does not qualify |

**Bounds, live and ledgers.** A search needs three candidates for a second round with
two parallel parents, two cases for a development and a qualification verdict, and one
crash to meet every half finished batch; `BaselineMisses` keeps the baseline from
passing, since nothing can qualify over a perfect baseline and development verdicts of
the baseline alone order nothing.  `Requests` is 13 there: what the plan needs plus
what a resumed batch is charged again.  A promotion needs one candidate; two decision
files make the resume with *another* approval possible, two tasks a task before and
after a promotion.  `HistoryLimit` is 7 for 1001: a promotion is settled with six
snapshots, a rollback makes the seventh and another one the eighth, which the loader
refuses.  Only a task could pass the limit on requests, since a plan is refused unless
it can pay for its search and its probe, so `AllocationHeld` is checked here, where
tasks run; that parallel expansions, too, keep it is the theorem `AllocationIsHeld`.
`DevelopmentPasses` leaves development verdicts, which the promotion never reads, at
one value.  Decision files and tasks are symmetric.  The progress run has one decision
file, no tasks and no symmetry.  Three pids allow an owner, its successor and an
intruder, two recoverers one that overtakes the other; `MaxOvertakes` stops the count
at 2, where the invariant says no more.  In the research ledger two attempts of one or
two units meet a limit of two units and one slot, reports produce the second
workspace, claim the root one, end unknown or exceed the reservation; eight events
fill the loader's limit.  Two writers are a holder of the lock and somebody who comes
in between; two requests of costs 1 and 2 under caps 2 and 3 are one that fits, one
that does not and one that fits after an extension; the single approval covers one
chain and the other makes it stale.  The gateway needs three handlers for a queue
longer than one slot and the marker (`Slots` stands for 32), three POSTs so that one
request comes twice, and one crash; its cap has room for one of the two requests.
Liveness, where symmetry is not sound, is checked with two handlers: one that waits
and one that is waited for.

**Bounds, evidence.** Two commands at a time are what every race in these stores
takes: a test and a publication that comes in between.  `MaxCalls` starts three to
five of them, by store: an estimate or a cluster needs runs that were ingested before
and one that is ingested meanwhile, a proposal three transitions and a suite that is
run again.  Limits are 1, so that the first record fills the store and the second is
the one too many.  Two admissions, two candidates and the result of an older challenge
are an answer to each wrong question.  Two resets are the second one that an
uncommitted first one must stop; they run next to the feedback and run stores only,
since a reset treats every tracked store alike.  Two plans of two candidates, one that
retains the first and one the second.  Proposals start at `awaiting_decision`, or at
`approved`, as their author may have written them, because none gets there by
transitions (see below); two versions of the artifact, two times, and four decisions:
one is for the other version, one is a rejection, two have the same ID, and that pair
has different reviewers.  Callers and record names are symmetric.

**Bounds, workflow and plugins.** Two agents with one key meet the conflict of two
effects under it, three calls are an effect, a status query and a retry.  In one
profile an agent has four calls: a status query that finds an earlier end releases the
lock of a call in flight, a further call passes, and the answers of both meet the
lock.  Three call IDs give every call one of its own or one that came before; they are
symmetric. Profiles answer success, failure, unknown for good, and unknown until
asked.  One session with four events, two writes and two accumulators meets every
overlap of a flush, a disposal and a session that comes back; `TraceLimit` is 2 for
512, so that a third call finds the trace full.  A script says which kinds of event a
behaviour has: what a listener does with model and prompt does not depend on tool
calls.  Two files, two clients and two edits mix a prepare in every way there is.

Deadlock is not checked where the system really may stop (a settled campaign and
nobody starts a command, a ledger whose lock was left behind, commands, calls or
events used up); it is checked for the lease, the promotion and the progress run.

**Fairness.** `Progress` is weak fairness of the supervisor's own steps and of each
expansion: a live process continues, and the driver ends every call within
`timeout_ms` (plus a fixed grace in `live/native.ts`).  `OperatedSpec` adds what an
operator does, and says so in its name: recover a dead lease, prepare once, and run
again (strong fairness, because another command may hold the lease again and again).
Crashes, revocations and reviews are never fair.  `FairSpec` of the lease is weak
fairness of each process's and each recoverer's steps.  `FairSpec` of the gateway: the
event loop runs every handler and the queue on, file operations of the ledger end, the
timer of `policy.timeout_ms` fires, and the client's body is read and admitted or
refused, as the server's own request timeout ends a body that does not arrive.  The
provider's answer is not fair: `RequestsEnd` holds because the timer covers it.  The
evidence stores, the workflow and the plugins have safety properties only, and no
fairness: each command there ends after a few steps of its own, and nobody waits for
another.

**Known deviations.** Each of these definitions states a sentence of the documents
or of a comment, or what one might expect of the code, that it does not keep; TLC finds a behaviour for each.  The
first is the run `live_evidence`; the others are not runs, and the right column says
how to see them.  `MCLiveClaims.cfg` and `MCWorkspaceClaims.cfg` list several: TLC stops at the
first, so leave one of them in.

| Definition | What is said | How the code breaks it | Where |
| --- | --- | --- | --- |
| `EvidenceQualifies` | "Only a strict qualification gain ... qualifies for review" (`docs/live-text-loop.md:70`) | the review quotes the first grading of a prompt, not the one that qualified (`live/loop.ts:98`) | `live_evidence` |
| `CompensationIsSilent` | "It never sends another request" (`live/loop.ts:513`) | sibling expansions go on after one of them has failed the campaign | as a PROPERTY in `MCLiveSearch.cfg` |
| `SearchIsFunded` | "Resuming a completed operation reuses verified evidence" (`docs/live-text-loop.md:67`) | a resumed batch is charged again and runs out | `MCLiveClaims.cfg` |
| `PointerReconciled` | "An interrupted snapshot/pointer publication is reconciled by authorized `live run`" (`docs/live-text-loop.md:140`) | run rewrites the pointer in four phases only (`live/loop.ts:453`): after a crash between the snapshot of the end and its pointer, it returns and leaves the pointer behind, and task and rollback refuse with `LIVE_POINTER_DRIFT` | `MCLiveClaims.cfg` |
| `HistoryAccepted` without `OverLimit` | (no sentence says so) | rollback may be repeated (`live/loop.ts:674`); the one that publishes snapshot 1002 makes every later load fail (156) | `Len(history) <= HistoryLimit` as an INVARIANT in `MCLivePromotion.cfg` |
| `MutualExclusion` | "Concurrent supervisors cannot hold the same campaign lease" (`docs/live-text-loop.md:68`) | a recoverer that was overtaken removes by name the lease of the next supervisor | as an INVARIANT in `MCLiveLease.cfg` |
| `RetriesAskFirst` | "release only after a terminal `get_effect_status` result" (`docs/architecture.md:231`) | a call ID that comes again passes the key it holds unasked, and its denial by another listener releases the key (`dal-unknown-effect-guard/src/index.ts:64, 115`) | as a PROPERTY in `MCWorkflow.cfg` |
| `ApprovalIsOfApplied` | (no sentence says so) | only the ID of the decision is compared (`improvement.ts:236-248`): another decision of the same ID, or a file authored as `approved`, will do | `MCWorkspaceClaims.cfg` with `Authored <- MCAuthored` |
| `OrderCanBeFollowed` | "The machine model supports this ordered lifecycle" (`docs/spec.md:90`) | the prediction must be null before the transition to `proposed` and must not be after it (`improvement.ts:107-112`) | `MCWorkspaceClaims.cfg` |
| `ReclustersCleanly` | "repeated passes over a growing store re-cluster cleanly" (`docs/evaluation-and-guardrails.md:193`) | a group that has grown meets the file of the smaller one under its name | `MCWorkspaceClaims.cfg` |
| `ParallelWritersOnlyCollideOnIds` | "parallel writers only collide on duplicated IDs" (`docs/architecture.md:205`) | both pass the count, and nobody reads a store above its limit | `MCWorkspaceClaims.cfg` |
| `ResetSparesUncommitted` | "reset never deletes uncommitted evidence" (`docs/operator-guide.md:254`) | evidence that arrives between the question and the removal is gone | `MCWorkspaceClaims.cfg` |
| `SealIsOneShot` | "a seal is one-shot and cannot be re-initialized" (`seal.ts:171`) | two inits at once both pass the test; the second renames over the first | `MCWorkspaceClaims.cfg` |
| `CheckpointsArePerSeq` | "write an immutable per-seq record" (`dal-run-record/src/index.ts:690`) | metrics are read after a wait in which the session goes on | as an INVARIANT in `MCPluginHost.cfg` |

When two inits ran into each other, the reveal can show cases of another seal than the
one it names; `EvidenceIsSound` then only says that it shows as many as were committed to.

## 4. The proofs

`LiveCampaign_proofs` starts with the call protocol by itself.  For any finite set of
callers and any operations, generations, answers and allocation it proves
`AtMostOnceSend`, `SendsAreRecorded`, `OperationsAreFinal`, `ReservationBound`,
`RevocationBound`, and that the protocol implements `EffectLedger`.  None of them
is inductive.  The strengthening `CallInv` says that one caller holds an operation
(`OneHolder`) and what the disk and `sent` look like at every step of that holder
(`CallerKnows`): between the reservation and the send the intent is there, nothing
has been sent and no receipt exists.  `BudgetInv` counts callers between the
budget test and their reservation; `LateInv` counts callers that passed the second
authority check before the revocation.  Both are inductive over `CallInv` and use
cardinality facts of finite sets.

Then the campaign over it, for any plan (cases, candidates, rounds, parallelism,
strategy, allocation), any reviewers' files and tasks, and any number of crashes.
`CampaignInvariant` is the inductive invariant `CampaignInv`, whose conjuncts are:

- `Snapshots`: what `Holds` of each published snapshot, for good.  It is consistent in
  itself (`Shape`), receipts grade every evaluation in it (`IsGraded`), its tree is one
  that `selectDiscoveryBatch` can have grown, with the parents the proposals were really
  requested for (`TreeFits`), its review quotes a winner of an earlier snapshot
  and its decision is on record (`Backed`), what it retains has passed its canaries,
  and all its prompts are stored.  Receipts and reviews are exclusive, so a later step
  takes nothing away from this; that is most of why a history stays loadable.
- `Place` and `Work`: where the command in progress stands, by the phase of the last
  snapshot, and which expansions there may be at that step.  They outlive the command
  in one case only: the campaign has failed, and no command then starts a new batch.
- `Chains`: an expansion that calls holds an operation of its own, numbered apart from
  its siblings'.  This is what `Begin` of the call protocol assumes, and with it every
  step of the campaign is one of the protocol or none (`ImplementsProtocol`), so all that
  is proved of the protocol holds of the campaign (`CampaignSendsOnce`,
  `CampaignKeepsLedger`).
- `Answered` and `Grades`: what a chain has graded so far, and that the cases it has not
  graded are those it still has to do.
- `Funds`: the reservations on the disk *together with* those the open expansions
  still owe fit the allocation.  Each expansion counts the reservations before its
  siblings have theirs, so no test at a single call keeps the limit; the charge for the
  whole batch does (`AllocationIsHeld`).
- `Decided` and `Served`: decisions on record are those a reviewer wrote; before the
  candidate of a probe is activated nothing but the base prompt has ever served; the
  pointer names a snapshot's active prompt, and it is the current one wherever a prompt
  is put to work.
- `Grown`, `Stored`: the search ends with its rounds or its candidates used up;
  a prompt is published before it is graded.

From it follow `TreeNamesParents`, `WorkIsProven`, `HumansDecide`, and by one case for each command
`ImplementsPromotion`.  `DreamsReproduce` is a fact about trees: a recorded tree lists its
nodes by round, so what is there after a round is an initial segment `1..s`, the same
batch is selected from it, and the first child of each parent that has not been revealed
is the one the search recorded (`ChildrenRevealed`); induction over the rounds then gives
the replay and its count.

`LoaderAccepts` is the loader's demands, one by one, from `Holds`, with two facts about
growth and crashes in `Lasting`.  A snapshot that is no rollback is at most so far down the
history as its phase and its rounds allow (`Latest`, never more than `MaxRounds + 5`), so
only rollbacks can pass the limit.  The command that published a snapshot moves the pointer
next, so the pointer lags by what crashes cut off and the one snapshot whose command is at
`point`.

For this `SelectBatch` gives a node its place by the number of nodes that precede it; the
sort of the standard modules is a choice among permutations by an operator that is its
parameter, which the provers cannot reason about.  That a plan's cases and canaries
are sequences and `CandidateLimit` is a number (`PlanAssumption`), and that `None` is none of
the records and outcomes it stands beside (`NoneIsNothing`), was understood before and is
said now.  `ErrorCode` has the codes a command decides on, and one for all others.

`LiveLease_proofs` proves `ExclusionBounded`, and with it `MutualExclusion` as long as no
recovery was overtaken, for any set of pids and of recoverers.  `LeaseInv` is
`LeaseIsOwned` (a lease belongs to the process it records), `RecoversDeadLease` (what a
recoverer read is the lease still unless it is `late`, and once it has probed, a process
that reuses the pid has got no further than its open, where it meets the old lease), and
`DisplacedAreCounted`: the processes whose lease was removed under them are no more than
the overtaken recoveries.  A displaced process removes another one's lease in its turn,
by name, but is gone then, so their number does not grow.

`FiniteSums` is what takes the place of induction over data, which the provers do
not have: they cannot instantiate an induction theorem, whose parameter is an
operator.  That proper inclusion of finite sets is well-founded is a theorem about
all sets of sets, so it yields that every non-empty set of numbers has a least
element (`LeastNumber`) and hence induction over a *set* of numbers
(`NumbersInduct`).  A fold is defined by CHOOSE over recursive functions; the lemmas
build its function for each size of the set and so get the two equations that
determine it.  On them rest the sum of the charges (`SpendCap`), the reserved
amounts, and the fold of the artifact campaign's log.

`ModelGateway_proofs` proves, for any writers, requests, costs, caps and
approvals, that `BudgetSpec` implies `BudgetTypeOK`, `OneChain`, `SnapshotIsReal`
and `DamageStops`, and that the ledger implements `SpendCap` (`LedgerSpec`).
`BudgetInv` is the strengthening: one call holds the lock (`OneHolder`); the records
are one linked, verified chain with a longest element (`RecordsFit`); and each call
knows what its step needs (`Fits`): whoever is about to write has a record that
extends the longest one (`Grows`), at most one record is half written and it is the
one its holder is writing or one nobody is.  A dead owner's lock stays, so nobody
can meet the half written record as a writer; where an error leaves both the record
and a free lock, `ReadChain` refuses, which is `DamageIsFinal`.  A snapshot is real
because what it lists contains every record from before, and what it accepts is the
chain of complete records among them.  For `SpendCap`, `LedgerInv` adds that no
request is on the chain twice, that what is left of the cap is the cap without the
sum of the requests' costs, and that an extension about to be written carries an
approval for the very chain it extends.

Of the gateway, the same module proves `OutcomesAreTrue`, `NoFailureVanishes` and
`GatewayImplementsSpendCap`, for any handlers and slots.  `GatewayInv` is
`LedgerInv`, which every gateway step keeps because it is a ledger step or none,
with what each handler knows of its request (`Owner`: from the granted reservation to the
outcome it is the only one for that request, which is charged and has no outcome) and
what is on record of a request (`OnRecord`).  `DiagnosticsInv` weighs failures
against files: what the process knows of is in a slot, in the queue or dropped, and
whatever was dropped has left the marker behind or is remembered as lossy.

`ArtifactCampaign_proofs` proves, for any plan, clients, crashes and removals of the
lock, `ArtifactTypeOK`, `LogGrows`, `LogLoads`, `LimitsBind`, `ProvenanceIsSound` and
`ReviewsStand`.  `CampaignInv` relates the log to the projection that is folded from
it: what the log says of an attempt the projection shows (`Traced`), and the converse
(`Backed`); an attempt has each kind of event once and in order (`Once`, `Ordered`);
counters are cardinalities and sums over the log (`Counted`); the producer of an
artifact has reported it and an accepted one was accepted (`Sourced`); the incumbent
is the first of the best (`Led`).  A client whose event is about to be published
under the next number has a legal one (`Timely`); one that is late publishes nothing,
because the number is taken.  This is why the log survives a lock that is removed
under its owner.  A log never gets too long to load since an attempt has four events
at most (`LogIsShort`).  That provenance has no cycle is proved by descent: the
attempt that was reserved first on a cycle has a predecessor that was reserved before
it.

`Workspace_proofs` proves the properties of the evidence stores, for any number of
commands, any records and any inputs, killed anywhere:

- `Located` is the base: in the focus of a store, a call works on paths of that store
  only and knows at each step what it has read (`Fits`).
- `ResetIsSafe` (`CheckedEvidenceIsCommitted`) from `ResetInv`: between the question to
  git and the removal, nothing that was there at the question changes.
- `AnswersAreKept` (`AnswersHold`) from `AnswersInv`: a call that
  has its answer, or holds what it will answer from, finds its file as it says; the
  commitment of a seal that is being initialised stays once it is written.
- `LimitsBound` from `LimitsInv`: records plus calls about to add one stay within the
  limit and the number of commands.
- `VisitsAreSingle` (`NoDoubleVisit`) from `VisitsInv`: an evaluation lies at the name of
  its execution.
- `AppliedStandsApproved` (`AppliedIsAuthorized`) from `ProposalsInv`: every stored stage
  from the decision on is authorised and its evaluation passes.
- `EstimatesCountTheirRuns` (`EstimatesAreSound`) from `EstimatesInv`: what estimates of
  one batch have counted, or are about to, is ordered by inclusion.
- `EvidenceStands` (`EvidenceIsSound`) from `EvidenceInv`, one part per store: receipts
  answer intents and challenges, a reveal was sealed, a group's failed runs are in its
  cluster, snapshots replay.

Three of them need one hypothesis, which is stated in the theorems and holds in the run:
`ResetFocuses` without the stores in question, since a reset removes evidence, so what
holds of it only holds until then.  People may author a proposal at any stage (the code
reads whatever file it finds; nothing but the directory's permissions stops an author
from writing `approved`), decisions may share an ID (it is given by the caller, and
neither `approval.ts` nor `improvement.ts` makes sure of it), and any number of seal
inits may overlap: the properties say what is left then.

`WorkflowEvaluation_proofs` proves `AnswersAreTrue`, `OutcomesStand`, `NoBlindRetry`
and `ServiceKeepsPolicy`.  `ServiceInv` says that entries are numbered, that only an
entry without an end is followed by another of its key and for the same effect
(`JournalFits`), and that the one operation the service works on has read the journal
as it is (`WorkIsCurrent`).  `WorkflowInv` adds that, until an agent is told an end or
an ID comes twice, its calls past the gate hold the lock of their key (`GuardHolds`).
`PolicyIsKept` assumes that tasks are graded with the orders the service was started
with (`\A task \in Tasks : task.totals = Totals`), as the harness configures both.

`PluginHost_proofs` proves `StagedIsPrepared`, `TraceIsHonest`, `ClaimsHold` and
`DisposedIsRecorded`.  `CandidateInv` has one call in `#exclusive` which writes only
when it has read every file, and what it wrote is still there unless it was edited; files
that a prepare has written are `touched` if it fails.  `RecorderInv` says
what each accumulator in the heap knows (keys of open calls are distinct), that a
record under way says what was the case when it was begun (`DraftFits`), and that a
session that is away has its last record or a write that is about to make it
(`SessionFits`).

The assumptions are the named ASSUMEs of the modules, which TLC evaluates in the runs:
callers are finite and not empty; `None`, `Failed` and the like are no values of the
sets they stand beside (`OutcomeAssumption`, `NoneIsNothing`); the allocation, costs
and caps are positive; the loader's limit leaves room for a campaign's own snapshots
(`HistoryAssumption`: the schema has at most 8 rounds, the limit is 1001); a worker's
report has the fields `recordResult` reads, its metric any integer, since only the
order of metrics matters (`ReportAssumption`).

Only model-checked, because liveness under fairness is out of the prover's reach:
`LeaseComesFree`, `RequestsEnd`, `CommandEnds`, `CampaignSettles`.  Every invariant, action
property and refinement that a passing run checks is also a theorem.  `OperationTypes`,
`LeaseTypes`, `CampaignInvariant` and the other proved invariants that no run names are not
checked again.  What the code does *not* keep (section 3, known deviations) is no
theorem: `HumanGate`, for instance, says that a served prompt *has* a qualifying evaluation,
not that the review quotes it.

## 5. What is not modelled

Of the live loop: legacy snapshots (schema 1 and 2) and `resumeLegacyProbe`; I/O
errors inside `saveState` and partially written JSON; the dashboard and the driver,
which is the external party.  Digests, signatures and schema checks (a tampered file
is refused, which the models take for granted), and floating-point rates and
intervals (cases are counted), everywhere.  Of the ledger: symbolic links and
foreign files in its directory, input syntax.  Of the gateway: what makes a body or
an answer admissible (either may be refused at any step), the key and the `/receipt`
counts, a diagnostics directory that cannot be read at a restart (the gateway then
refuses everything).

Of the evidence stores: the composition of records, the grading and the plan limits
of a campaign replay, one run identity in two files, the tool lists and budgets of a
guardrail policy (one bit of the action), suites and policies that change under a
proposal.  Of the workflow: HTTP, authorization, input syntax, weights other than 1.
Of the recorder: usage, failures and the digests of a record; where the order of two
reads after the last wait makes no difference to a property, it is one step.

Not modelled at all: `propose*.ts` and `skill-proposal.ts`, `optimizer*.ts`,
`research.ts`, `runtime-generation.ts`, `capsule.ts`, `executor.ts` and
`execution-receipt.ts` (they validate, format or stage documents and keep no state
that another command changes); `init.ts`, `install.ts`, `doctor.ts` and the rest of
`cli.ts`; sandbox, docker and provenance (processes with fixed arguments); the
plugins dal-improve-tools, dal-native-text, dal-codex-oauth and dal-modes, which
adapt the functions above to tools of the host; the harnesses of the benchmarks.

## 6. The plan

1. Done: `LiveOperations`, `LiveDiscovery`, `LiveCampaign`, `LiveLease`, and the two
   abstract specifications.
2. Done: `ProposalBudget` and `ModelGateway` over it, `SpendCap`, and the proof of
   the chain for every number of writers.
3. Done: `ArtifactCampaign`, and the proof that its log only grows.
4. Done: the evidence stores and the reset, the workflow service with its guard and
   grader, the two plugins that keep state.
5. Done: the invariants of the ledger, the gateway, the artifact campaign, the
   evidence stores, the reset, the workflow and the plugins, and that the ledger and
   the gateway implement `SpendCap`.
6. Done: the campaign.  It implements the call protocol, the effect ledger and the prompt
   promotion, and all its safety properties are proved.
7. Done: the theorems about leases, proposals, seals and the guard without assumptions on
   who recovers, authors, initialises and numbers calls.
8. Open: what resets leave of the evidence in the stores other than those checked; the
   capsules, the optimizer exchange and the native driver are not modelled.
