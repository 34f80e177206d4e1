# Formal model of the Orac1e coding pipeline

Orac1e runs coding agents on disposable git worktrees and, after a person has
approved the result, promotes a run's patch into the canonical repository.
This directory holds TLA+ modules of that pipeline, the TLC configurations that
check them on small instances, and TLAPS proofs of what holds for every
instance. Paths below are relative to the repository root, and the Swift files
are under `third_party/oracle-os/Sources/OracleOS/Integration/`.

## The system

| Part | Code | State it keeps | Operations |
|---|---|---|---|
| Run lifecycle | `integration/lifecycle.py` | none (a table of legal transitions) | `transition`, `assert_state`, `is_terminal` |
| Promotion and rejection | `scripts/coding_run_promotion.py` | under `workspace/runs`: `runs.json`, `approvals.jsonl`, `promotions.jsonl`, `events.jsonl`, `promotions/<run>.json`, `validation/<run>.<kind>.json`; the canonical git repository | `promote_run`, `reject_run`, `_replace_run`, command line |
| Run server | `scripts/serve_coding_runs.py` | none of its own; FastAPI thread pool | approve, reject, read endpoints |
| Approval store | `runtime/approval_store.py` | reads the files above | queries; wrappers of `promote_run`, `reject_run` |
| Coding run service | `Orchestration/IntegratedCodingRunService.swift` | the run it executes; `runs.json` through `CodingRunLedger`, metadata, events | `execute`: created, retrieving, proposing, validating, awaiting approval or failed |
| Worktrees and patches | `Workspace/WorktreeCoordinator.swift`, `PatchApplyService.swift` | git worktrees | create, `git apply --check`, `git apply` |
| Validation | `Workspace/ValidationCoordinator.swift` | none | staged commands, time-outs |
| Controller | `Orchestration/OracleCodingRuntime.swift` | none | start a run; approve and reject through the run server |
| Policies | `Policy/MutationPolicy.swift`, `integration/shared_py/diff_utils.py` | none | which paths a patch may touch, and how much |
| Tools | `Tools/*.swift`, `integration/tool_sdk` | the registry of manifests | load, route, call |
| Retrieval broker | `integration/retrieval_broker` | a lock, a cache of modules, the modules' own globals; an index per repository | refresh, query |
| Planner, breaker, orchestrator | `integration/workers_planner.py`, `shared_py/production_utils.py`, `orchestrator.py` | the circuit breaker | one task; a batch of tasks |
| Workers | `integration/worker_hardened`, `integration/worker_aider` | they edit the worktree | produce a diff |

How they interact: the controller starts a run; the coding run service enters it
in `runs.json`, creates a worktree from the canonical HEAD, retrieves context,
has a worker edit the worktree and answer with a diff, checks the paths, applies
the diff, validates, and leaves the run in `awaiting_approval`. A person approves
or rejects through the controller, which calls the run server, or on the command
line; both end in `promote_run` or `reject_run`. All of them share `runs.json` and
the canonical repository. There is no lock: `_replace_run` and
`CodingRunLedger.upsert` read the whole file, replace one entry, and write the
whole file, the former by renaming a new file over it, the latter in place.

What is hard, and what has to hold:

- *Interleaving and stale state.* A promotion holds the run's dict for as long as
  validation takes and writes back a copy of everybody's entries. A status on
  record must nevertheless have its evidence; nothing may be committed twice; a
  run that awaits approval must be one that can be approved.
- *Partial failure and crash.* A promotion is a dozen writes to five places. The
  records must agree when the request is over, and a patch that was staged when
  the process died must not be taken along by the next commit.
- *Validation.* Nothing that was not validated, or explicitly waived, may be
  committed.
- *Shared modules, shared breaker.* The broker's Python modules and the planner's
  breaker are shared by requests that know nothing of each other.
- *Two gates.* What a worker may touch is judged twice, by different lists, on
  different descriptions of the same edits.
- *Liveness.* Requests, runs, batches end.

`PROJECT.json` lists each hazard with its line under `hazards`, and the properties
that cover it or the reason why none does.

## Modules

| Module | Models |
|---|---|
| `RunLifecycle` | The abstract specification of runs' statuses: `VALID_TRANSITIONS`, `TERMINAL_STATES` and the rule of `transition()`. |
| `Promotion` | `promote_run`, `reject_run`, their requests, faults and crashes, beside the coding service that rewrites the same `runs.json`. Shown to implement `RunLifecycle` until two rewrites overlap. |
| `CodingRun` | `IntegratedCodingRunService.execute` for several runs over one `runs.json`, with an operator who decides meanwhile. Its steps are compared with `RunLifecycle`. |
| `Validation` | `CodingValidationCoordinator`: profile inference, plan, stages and verdict as operators; `CodingRun` extends it. |
| `RunRecords` | The read endpoints and the approval store between the writes of service and promotion. |
| `RetrievalBroker` | `search_code` and the module loading under it. |
| `CircuitBreaker` | The breaker's methods, for threads without a lock. |
| `PlannerPool` | `ParallelOrchestrator` and `coding_planner_execute`; extends `CircuitBreaker`. |
| `DiffPolicy` | The path policies of both sides as operators. |
| `ProposalWorkers` | `run_hardened`, `run_aider` and Oracle's verdict; extends `DiffPolicy`. |
| `MC...` | Constants, and symmetry where it is sound, for TLC. |
| `...Proofs` | Theorems about the module of that name. |

Definitions whose name begins with `Mutant` are slips a programmer might have made
in place of the definition that follows; they are used to see that each property
notices one.

### Promotion

A worker is a thread of the server's pool or a process of the command line.
`pc[w]` is the next access it makes to shared state, so an action is what the code
does from one such access to the next:

| Action | Code |
|---|---|
| `ApproveEndpoint`, `RejectEndpoint`, `CommandLine` | the guards of the endpoints (run must be awaiting approval) and of `main` (none) |
| `LoadRun`, `Preflight` | `_load_run`, the refusals before validation, the idempotent answer |
| `ValidateWorktree`, `ValidateLineage` | validation in the worktree; HEAD must be the worktree's base |
| `CapturePatch`, `ApplyPatch` | `git diff --binary`, `git apply --index` |
| `SkipCanonicalValidation`, `ValidateCanonical` | the waiver or flag, or the commands in the canonical repository |
| `CommitPromotion`, `CommitRefused` | `git commit` and reading HEAD back |
| `RecordApproval`, `RecordReceipt`, `CleanUpWorktree` | the records after the commit |
| `ReadLedger`, `StoreLedger`, `LedgerFault` | the two halves of `_replace_run` |
| `Rollback`, `RecordFailure` | the exception handler |
| `LoadReject`, `RecordRejection` | `reject_run` |
| `StartRun`, `AdvanceRun`, `StoreRun`, `ServiceFails` | the service's changes of status: `record.status = ...`, and the two halves of `upsert` |
| `CreateWorktree` | the service's worktree of a run, from HEAD |
| `Crash` | the process dies; also an exception raised inside the handler |

Abstracted: a change is a pair of a run and a kind, `edited` (git tracks the file)
or `added` (it does not); the index is a set of changes and a commit is the run it
names and what was staged. Two runs' edits do not conflict textually: `Applies`
fails where the same change is there already, and `ApplyPatch` may fail anyway, so
a conflict is one of its outcomes. Validation answers `ok`, `failed` or a
time-out, nondeterministically, and the environments of worktree and canonical
repository match or do not. Events, timestamps, messages and the content of
receipts are left out, apart from the status a receipt reports.

Which commands validate a run is resolved as the code does it: `Settings[r]` is what
the metadata of the run say (flat commands, stages, a preferred profile, a waiver),
`Profile` what `.oracle-validation.json` says. `StagesOf` is the precedence of
`_resolve_validation_profile`, where a preferred profile replaces the file's by none,
`Waived` the four ways to allow no validation, `ValidationMode` what comes out: commands,
stages without a command (which hide the flat commands, and fail), nothing and
allowed, nothing and refused. The file, the environment variable and the flags are
constants: that somebody edits the file between the two validations is left out, and
so is the comparison of the two environments beyond its outcome.

The service writes for its own runs whatever the operators do. Its record is its own
(`record`), and an upsert is two steps, the reading of all entries (`items`) and the
writing of all entries, so that it may bring back what a promotion has replaced
meanwhile, and the other way round. That it empties the file in place before it
writes is `CodingRun`'s matter. `Awaiting` are runs that the service has done with
before the start.

`Serial` and `Faults` choose the environment. With `Serial`, operators send one request
at a time, as `docs/parallel_execution.md`, which calls parallel applies to one
repository unsafe, wants it; it says nothing of the coding service. `raced` becomes true
when a rewrite of `runs.json` begins while another one is under way, a promotion's or
the service's; it is a history variable that no guard looks at. Properties that such an
overlap breaks say so by `raced`. `Faults` may contain `io` (a read or write of a record
raises, git answers with an error after the fact) and `crash`.

### CodingRun

`pc[r]` is the await that `execute()` of run `r` is at: the actor is reentrant there, so
other runs go on. Every change of status is an upsert in three steps, `ReadLedger`,
`TruncateLedger` and `WriteLedger`, of a ledger object of its own; `content` says
whether the bytes of `runs.json` can be decoded, `writing` who has the present file
open. Two writers that have both emptied the file write over each other from its first
byte; the decision of an operator (`Decide`, `ReadDecided`, `StoreDecision`) renames a
new file over it, and what an open handle writes then goes to the old one. A run that is
applied then loses its worktree (`RemoveWorktree`), unless the command line was told to
keep it; an upsert of another run that had read the file before may write it back as
awaiting approval. `AskWorker` takes any answer that a worker may give, from a worker
that edits the worktree and describes its edits or from one that sends a patch; which of
them is asked (tool or direct route, fallback when the registry does not load) is part
of that choice. `ApplyPatch` is `git apply --check`, which refuses a patch that is empty
or there already. `Validate` makes its plan of any configuration and any contents of the
worktree that the constants offer, gives each command any result, and keeps of them what
`CodingValidationResult` tells apart (`validation`: whether anything was executed, and
in which kind of stage commands have failed). A validation is one step: its commands
touch nothing that other runs do. `ServiceFails` and `WorkerFails` are the places where
`execute()` throws, `WriteFails` the one where that leaves the file empty or cut off; it
catches nothing, so the run stays in the status it had. `Crash` is the end of the
controller's process.

### Validation

A plan is a function from the numbers of those stages that have commands to the
stages, so that neither the filter nor the flattening of the code needs a definition
of its own; a step of a validation is named by the numbers of its stage and command.
`Rules` is the chain of `inferProfileName`, `package.json` with a dependency on
TypeScript being a name of its own. A profile that is missing and one that cannot be
decoded are the same, as they are for `loadProfile`.

### RunRecords

Readers take the files in the order in which the handlers open them; the service
and the decisions write theirs in the order of the code, the operator's status by
reading and replacing all entries. `approvals.jsonl` and `promotions.jsonl` only
grow, so a reading is a set of lines. Of `events.jsonl` it matters whether it can
be parsed: the Swift event store seeks to the end and then writes, without
`O_APPEND`, over what others have appended in between.

### RetrievalBroker

Requests are coroutines of one event loop, so an action is what one does up to its
next await. `Reload` is `importlib.reload` of configuration and query module, which
rebinds the one copy that every request holds (`configured`), while
`shared.config` stays bound to the repository of the first import (`bound`), and the
connection with it. The lock is taken for the load and kept for the update only.
An update of an index that is there changes it file by file (`StartUpdate` makes it
`changing`, by the request that does it) until it has ended, and queries are made outside
the lock, so their rows may be of several versions. Time-outs end an await with an
error and release the lock; an update that is cut off leaves a database that exists,
half-built or half-changed.

### CircuitBreaker and PlannerPool

The interpreter the project asks for may switch threads at calls, so
`can_execute` and `record_failure` are two steps each, divided at `time.time()`.
The pool hands tasks to threads in order, a semaphore admits some of them,
`as_completed` yields them as they end. A worker answers with its diff under the
key `diff`, as the repository's does, or under `patch`, which is what the planner
looks for and what tests put in its place.

### DiffPolicy and ProposalWorkers

A path is the sequence of its names; which names begin which others, and which lead or
end with dots, is given by constants, so that the operators hold for every set of paths.
A prefix is a sequence of names with or without a slash at its end: Python drops dots
and slashes in front (`Normalized`), Swift at both ends (`Trimmed`), so that only for
Python the slash keeps `auth/f/` from allowing `auth/f.`. An edit is the pair of the
request that made it and the file; a diff is a set of edits with the form it names its
files in: as git prints it, as `difflib` does with `a/` and `b/` names, without such
names (the structured patcher), or lost (git failed, whose exit status nobody looks at).
Beside the diff a worker reports touched files, which is what Oracle's policy judges.
`Readable` are the files of the worktree and, for a structured patch, the test file that
its task asks it to add, which need not be there and which git does not track. Requests
run on the threads of the servers and may share a worktree.

## Runs

| Run | Instance | Shows |
|---|---|---|
| `promotion_serial` | 4 runs, the first begun by the service while the others are decided, 1 operator, no faults; metadata that prefer a profile with and without commands or a waiver, a file of bare stages that waives validation; mixed changes; 1.4 million states | types; nothing stays staged whatever overlaps; until two rewrites overlap failed and rejected runs leave the trunk alone, receipt and ledger agree, and only work that was validated, or waived where it may be, is committed |
| `promotion_faults` | 2 runs from their creation by the service, 1 operator, `io` and `crash`; 4.5 million states | a commit holds its own run's patch only; decisions have evidence; until two rewrites overlap the ledger implements `RunLifecycle` |
| `promotion_one_run` | 1 run from its creation by the service, 2 workers, concurrent, fair; 11 thousand states | evidence and no double commit under racing approvals and rejections; a promotion that reaches its try block decides the run |
| `coding_runs` | 2 runs, 3 configurations of validation (own commands; profiles with halting, non-halting, empty and no stages; nothing), 4 contents of the worktree, both kinds of worker, all faults, an operator, fair; 840 thousand states | what awaits approval has its patch in its worktree, unless overlapping rewrites brought it back after it was applied, and has passed what halts; until two rewrites of `runs.json` overlap the file follows `RunLifecycle` and tells how runs ended; every run ends |
| `retrieval` | 3 requests for 2 repositories, one indexed before, 2 edits of each, 1 restart, all faults, fair; 190 thousand states | updates are alone and nobody reloads under them; refreshes are honoured where the indexer was loaded; every request ends |
| `planner_batch` | 4 tasks, 4 threads, 2 permits, threshold 2, fair; 431 thousand states | the breaker opens for cause, does not miss its threshold, refuses for cause; a batch ends with one result for every task |
| `workers` | a hardened and an aider request, in one worktree or two, 4 paths (one git does not track, one in a hidden directory, one that Oracle protects, which git quotes and whose name ends with a dot), 4 lists of prefixes each (of no, one and two names, with and without a slash), all faults, fair; 770 thousand states | in a worktree of its own a proposal is what git prints there; no diff leaves outside its prefixes or below a blocked directory; what both gates pass is on neither list; every request ends |
| `records` | 2 runs, 1 reader of any kind; 1.7 million states | an answer that shows a decision shows what it rests on |

Four more runs check a property that a document, comment or test of the
repository states and that the code does not have; TLC finds the counterexample:

| Run | What happens |
|---|---|
| `promotion_two_approvals` | Two requests for one run: the slower one overwrites the terminal status. |
| `promotion_two_runs` | Two approvals at the same time: one commit takes both patches. |
| `retrieval_other_repo` | Two repositories, one broker process: the second is answered from the index of the first, since only configuration and query module are reloaded, and the connection stays. |
| `coding_run_applied_twice` | A worker that edits in place: its diff is applied to the worktree that has it already, and the run is stuck in `proposing`. |

*Bounds.* `Promotion`, `CodingRun`, `PlannerPool`, `ProposalWorkers` and `RunRecords`
are finite without a bound on steps: a run is started and decided once, a change
is committed once, a task is run once, an edit is made once. `RetrievalBroker` bounds
the edits of a repository (`MaxVersion`) and the restarts (`MaxRestarts`) in its guards.
Two workers, two runs, two requests are what a race between two accesses needs, and
a worker and the service are two writers; four runs cover the four validation modes, a
third request the case of a
cached repository that is asked for again after another one was loaded; four
tasks are a threshold of failures, a refusal and a recovery. One reader suffices,
as readers write nothing. Decisions are `applied` and `failed` in `coding_runs`, of which
the latter is also a status the service writes itself; `rejected` is handled by the
ledger as `applied` is. What is proved below does not depend on these sizes.
Symmetry is used only where no constant tells the permuted values apart, and never
with liveness. Deadlock is checked in every run; the modules say in `Terminating`
when everything is over.

*Fairness.* Weak fairness of each handler, coroutine or thread, never of requests,
faults, time or operators' decisions: validation, worker and retrieval calls have
time-outs, the event loop and the thread pool run whoever can go on, and
`git` commands are assumed to end. In `CodingRun` an operator's decision that is
under way is stored. `Elapse` of the breaker is not fair: batches end without it.

## Known disagreements that no run states

The models have these behaviours.

- `promote_run` records the approval after the commit, on purpose: the comment in front
  of it wants no stale approval after a failure. Two documents say the contrary:
  `docs/promotion_flow.md` (approve "records approval, validates the worktree again,
  applies the patch ...") and, in `ProjectMemory/known-good-patterns/promotion-flow.md` of
  oracle-os, the listing and the key invariant "Approval receipt is always persisted
  before apply". A promotion that fails therefore leaves no approval on record.
- The promotion's patch is `git diff --binary`, which leaves out files that git does not
  track: what a run adds is validated in its worktree, is in no commit, and is deleted
  with the worktree. A structured patch that creates a test file names it in its diff.
- The broker updates an index in its lock "so no other request queries a half-built
  index" (`coco_client.py`), but queries are made outside the lock and may read rows that
  are being changed.
- An error of `promote_run` after `git commit` fails a run whose commit stays, or
  leaves an approval record for an undecided run; a crash leaves the patch staged,
  and all later promotions are refused as dirty.
- After an error of `execute()` a run stays in its last non-terminal status for good.
- Two rewrites of `runs.json` that overlap lose an update, or leave a file that
  nobody can decode. An upsert that had read the file before a promotion brings the
  applied run back to `awaiting_approval`: it has no worktree any more, so that it cannot
  be approved again (and is not committed again), but it can be rejected, and then the
  file says so of a run whose patch is in the canonical repository.
- An error or the end of the process while `runs.json` is rewritten in place leaves it
  empty or cut off, and nobody can read it from then on.
- The commands stored for the promotion are resolved from the canonical repository
  before the run, the ones that validate it from the worktree after the edits; they
  differ where the edits change the profile that is inferred. The promotion also
  flattens the stages, so that a failure which did not halt the service's validation
  refuses the promotion. (As committed, `execute()` reads `commands` and `stageCount`
  of the plan, which the type does not have; `resolvedCommands` and the number of
  stages are meant.)
- A failing validation in Swift ends a run as `failed` without a trace of the reason
  in the ledger.
- After a restart `refresh_index` does nothing for a repository that has a database,
  be it half-built.
- The planner looks for `patch` where the worker answers with `diff`: every success
  counts as a failure.
- Edits of a request that was refused stay in the worktree; the direct fallback
  reports absolute names, which no list of Oracle's matches; structured patches and
  quoted names escape the path budget; a failing `git diff` is an empty diff.
- `/ready` is content with a garbled event log; `list_awaiting_approval` returns
  entries older than the state it judged them by.

## Proofs

All theorems are for any values of the constants that satisfy the named
assumptions, which TLC evaluates in every run. TLAPS checks them with SMT, Zenon
and, for the temporal steps, LS4.

`PromotionProofs` (from `ConstantsAssumption`; any runs, workers, faults, settings, serial or not,
beside the coding service):

- `TypeCorrect`: one lemma per group of actions, and `GotoType`, `SetStatusType`,
  `ReturnType` for the three ways a worker moves on.
- `EveryDecisionHasEvidence`: not inductive as it stands, since a status reaches the
  ledger from a run dict or from a copy of any age. `EvidenceInv` says the same of
  all of these (`LedgerBacked`, `CopiesBacked`, `LocalsBacked`) and that a worker
  about to record an approval has committed (`ApprovingCommitted`); the service decides
  nothing by itself, but what it has read and may write back is backed too
  (`ServiceBacked`). `EvidenceStays`
  shows that commits and approvals only grow, hence a status that was backed when
  read is backed when written.
- `NothingIsCommittedTwice`: strengthened by `StagedIsNew`, what is staged is not in
  the history yet.

`PromotionSerialProofs` (from `ConstantsAssumption` and `Serial`: operators send one request at
a time, so that at most one worker is busy, `Alone`; the coding service runs beside it):

- `CommitsAreOwn`, with any faults and crashes. Strengthened by `StagedIsOwn`: between
  preflight and `git apply` nothing is staged, from there to the commit only the run's
  patch. What an interrupted promotion left staged makes the next preflight refuse.
- `LedgerImplementsLifecycle`, the refinement, with any faults and crashes, until two
  rewrites of `runs.json` overlap. The invariant `FollowInv` says that they have (`raced`) or
  that everybody is `InStep`: `Follows`, what a worker knows of the status of its run at
  each control point; `Served`, what the service knows of each of its runs, whose status
  nobody else writes before it awaits approval; `OneRewrite`, that one at most is between
  reading and writing, which is what makes its copy the file as it is. `StepImplements`
  maps each step to a step of `RunLifecycle` or to a stutter. One operator at a time is
  not enough without `raced`: the file offers no way to tell a stale copy.
- `EndsAreFinal`, that under the same condition no status follows a final one. Without
  `Serial` a status can be overwritten by rewrites that do not overlap, as the run
  `promotion_two_approvals` shows, since a handler's dict is as old as its request.
- `NothingStaysStaged`, from `Faults = {}` as well (validation, the patch and `git commit` may
  fail, files can be read and written, and no process dies), whether rewrites overlap
  or not: `Staged` says of a worker that has something staged that it found the repository
  clean, so that its rollback resets it, and asks nothing of the ledger.
- `FailuresLeaveTrunk`, `ReceiptsMatch`, `CommitsAreValidated`, from `Faults = {}` and until two
  rewrites overlap. With faults these properties do not hold: the writes of commit,
  approval, ledger and receipt are not one step. `AgreeInv` says of a run nobody works on
  that its records are `Settled`, and of the worker what it has written so far, by
  phase: `Asked`, `Trying`, `Promoting`, `Ending`. `OneAgrees` reduces a step to the worker that
  moves and its run. `ValidationSays` translates what the resolution of the commands
  yields into what metadata, profile and flags say.

`CodingRunProofs` (from `RunAssumption`): `TypeCorrect`, and `AwaitingCanBePromoted`.
The ledger is again written from copies of any age, so the invariant says of ledger,
copies and the operator's copy alike that where they hold `awaiting_approval` the run's
own `status` does (`NobodyIsAhead`), and of each run that its worktree and proposal
agree with its control point (`RunsAgree`), where a run that awaits approval may have
lost its worktree again. That on record it has not, unless rewrites have overlapped, is
`Kept`: only what is on record as applied has lost it, which needs `Solo`, below. Two
lemmas about validation carry it to every configuration: `StagesHaveCommands`, that no
plan has an empty stage, and `VerdictMeans`, that a validation which is ok has executed
something and lost no failure in a stage that halts.

`LedgerFollowsLifecycle` and `EndsAreOnRecord`, in the same module, share `RecordInv`: two
rewrites have overlapped (`raced`) or the file is as one writer left it (`Solo`), with any
faults. `Solo` says that at most one rewrite is under way and that its copy is the file
(`OneRewriter`), and of each run that the file is one `upsert` behind what its process has
decided, or holds what the operator decided after that (`OnRecord`). What `OnRecord` needs
from the process, the statuses it can have at each control point, is `Stage`, which holds
with or without a race. `UpsertFollows`: written back, such a copy is the file with one
legal step of one run.

`RetrievalBrokerProofs` (from `BrokerAssumption`): `TypeCorrect` and
`TheLockKeepsUpdatesApart` are one invariant, with `ModulesAreBound`;
`NobodyReloadsUnderAnUpdate` follows from it. `RefreshesAreHonoured`, an action property,
needs that from the end of its update on the index of the bound repository is
whole and at least as new as the repository was when the request arrived, or is
being changed by another request's update (`Fresh`), and that an update reads a version
no older than any request before it (`UpdateIsNewer`).

`PlannerPoolProofs` (from `ThresholdAssumption`, `PoolAssumption`): the count of the breaker
is at most the number of tasks that have failed and have been counted; an open
breaker, and a task refused, have the threshold's number behind them; who has
counted and not judged is at `judge`.

`ProposalWorkersProofs` (from `PolicyAssumption`, `WorkersAssumption`): lemmas about the
policies for all paths and prefixes (`BlockedIsViolation`, `AllowedIsBelow`,
`AuthIsRefused`), `TypeCorrect`, and the invariant `Gates` of one request: past the
check the diff has no violations, accepted reports are allowed, and the report names
what the diff names, which needs to know that a heuristic patch grows with its report
and that git is asked by the direct fallback and aider only. `DiffsAreBudgeted`,
`BlockedNeverLeaves` and `BothGatesProtect` follow from it. `ProposalsAreWorktrees`
needs a second invariant, `InStepInv`: while no other request has the worktree
(`Alone`), the patch of a hardened worker is what has been edited there, with no new
file but a structured patch's and with what it is about to write over as it read it, and
past the check the patch of aider is what `git diff` prints, with the files that this
names.

`RunRecordsProofs` (from `RecordsAssumption`): `TypeCorrect`, and `DecisionsAreShown`. What a
reader shows is put together from files read one after the other, so the invariant
`RecordsInv` is about order on both sides. A writer records its decision before it
writes `runs.json` (`WritersInv`), so every status in the file and in a copy about to be
written is `Backed` by the approvals. What a request for one run has seen as its status
is backed by the approvals that it has read or, as long as it has not read them, by
those on file (`ReaderInv`). Lost updates of `runs.json` do not disturb this: they bring
back older statuses, and approvals are only appended.

Liveness itself is out of the prover's reach, and so is ENABLED. What the liveness
properties rest on, next to fairness, is proved where it is a matter of steps:

- `GoesForward`, in four of the modules: a number that every step of a request lowers and
  no step of anybody else raises, so that nothing is ever done again. Its values are
  bounds: seventeen accesses of a promotion (`Promotion`), twenty-three awaits of a run
  (`CodingRun`, which needs `Keeps`, what the status of a run is at each upsert), five steps
  of a search (`RetrievalBroker`), nine of a task (`PlannerPool`).
- `CanGoOn`, the guards of a step written out: a promotion's worker never waits
  (`WorkersNeverWait`), the holder of `_LOAD_LOCK` can always go on to release it
  (`RequestsAreNeverStuck`, from `OneUpdateAtATime`), and threads and permits are never all
  held by tasks that wait (`BatchIsNeverStuck`, for which `ResultsInv` says that who waits
  for a thread is in the queue and that results are of tasks done, each once).

That a step whose guards hold is then taken, and hence `CaptureDecides`, `EveryRunEnds`,
`EveryRequestEnds` and `BatchEnds`, is model-checked only. So is `EveryProposalEnds`
altogether: in a shared worktree the number of aider's edits has no such bound of its
own, since another worker's write may undo them.

## Plan

Done: the modules above. Left: the write and rename of `runs.json` as two steps.

## Not modelled

- The controller (`OracleCodingRuntime.swift`): no state; its retry is a second
  request of `Promotion`.
- `CommandApprovalPolicy`: a classification that nothing asks for. What the
  commands of the promotion's own validation print: `Promotion` resolves which commands
  there are and chooses their results freely.
- Tool registry and Tool SDK: tables filled once from JSON documents; which route a
  run takes is a free choice of `AskWorker`.
- Building queries, merging hits, prompts, metrics, logging, data models: no state
  that a property is about.
- The macOS host application around `OracleOS/Integration`, the vendored aider,
  cocoindex-code and code-agent-runtime, start-up and packaging scripts.

`PROJECT.json` lists every component with its status.
