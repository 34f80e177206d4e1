----------------------------- MODULE Promotion -----------------------------
(***************************************************************************)
(* Promotion of coding runs into the canonical repository, and their       *)
(* rejection: scripts/coding_run_promotion.py as scripts/serve_coding_runs *)
(* .py and its own command line call it.                                   *)
(*                                                                         *)
(* A worker is a thread of the run server's pool, or a process of the      *)
(* command line.  Each handles one request at a time, and each of its      *)
(* actions is one access to state it shares with the others: the ledger    *)
(* runs.json, the records kept per run, and the canonical git repository.  *)
(* The coding service, another process, rewrites the same runs.json for    *)
(* the runs it executes.  Nothing in the code makes two of them wait for   *)
(* each other.                                                             *)
(***************************************************************************)
EXTENDS Naturals, Sequences

CONSTANTS
  Runs,           \* identifiers of coding runs, all of one canonical repository
  Awaiting,       \* the runs that await approval from the start
  Workers,        \* threads of the run server, processes of the command line
  NoRun,          \* an idle worker's run
  Change,         \* Change[r]: the kinds of change run r leaves in its worktree
  Settings,       \* Settings[r]: what the metadata of r say of its validation
  Profile,        \* what .oracle-validation.json of the repository says of it
  NoValidationOK, \* the flag or the environment variable that lets promotion
                  \* do without validation is set
  SkipCanonical,  \* the same for skipping canonical validation
  Serial,         \* operators send one request at a time; the coding service
                  \* writes whenever it wants to
  Faults          \* what may go wrong outside the code: "io", "crash"

\* A change to a file that git tracks, or a file that git does not track yet.
Kinds == {"edited", "added"}

\* No stages; stages without a command in any of them; stages with commands.
StageLists == {"none", "bare", "full"}

\* validationCommands, validationStages, preferredValidationProfile and
\* allowNoValidation of the metadata; stages and allowNoValidation of the file
\* (neither where it is missing or cannot be decoded).
SettingsType == [commands : BOOLEAN, stages : StageLists, preferred : BOOLEAN, waived : BOOLEAN]
ProfileType  == [stages : StageLists, waived : BOOLEAN]

ASSUME ConstantsAssumption ==
  /\ NoRun \notin Runs
  /\ Awaiting \subseteq Runs
  /\ Change \in [Runs -> SUBSET Kinds]
  /\ Settings \in [Runs -> SettingsType]
  /\ Profile \in ProfileType
  /\ NoValidationOK \in BOOLEAN
  /\ SkipCanonical \in BOOLEAN
  /\ Serial \in BOOLEAN
  /\ Faults \subseteq {"io", "crash"}

VARIABLES
  (* The records under workspace/runs.                                     *)
  ledger,     \* ledger[r]: status of r in runs.json
  approvals,  \* approvals[r]: the decisions approvals.jsonl holds for r
  receipt,    \* receipt[r]: status in promotions/<r>.json, "none" without file
  artifact,   \* artifact[r]: results in validation/<r>.<kind>.json
  (* The canonical repository and the disposable worktrees.                *)
  history,    \* the commits promotion made, oldest first
  index,      \* changes staged in the canonical repository, not committed
  litter,     \* files in it that validation commands left behind
  worktree,   \* worktree[r]: the worktree of r exists
  base,       \* base[r]: length of history when the worktree was created
  (* The workers.                                                          *)
  pc,         \* pc[w]: the next access worker w makes
  job,        \* job[w]: the run it works on
  local,      \* local[w]: status in the run dict it holds
  copy,       \* copy[w]: runs.json as _replace_run read it
  preClean,   \* preClean[w]: pre_status_clean
  patched,    \* patched[w]: patch_applied
  (* The coding service, one execute() per run.                            *)
  record,     \* record[r]: status of the record it holds, Absent before
  stage,      \* stage[r]: it is in an upsert, between two, or has thrown
  items,      \* items[r]: runs.json as upsert read it
  (* History.                                                              *)
  raced       \* a rewrite of runs.json has begun while another was under way

recordVars  == <<ledger, approvals, receipt, artifact>>
repoVars    == <<history, index, litter, worktree, base>>
workerVars  == <<pc, job, local, copy, preClean, patched>>
serviceVars == <<record, stage, items>>
vars == <<recordVars, repoVars, workerVars, serviceVars, raced>>

Lifecycle == INSTANCE RunLifecycle WITH status <- ledger

Absent   == Lifecycle!Absent
Terminal == Lifecycle!TerminalStates
Statuses == Lifecycle!States \cup {Absent}

Marking == {"markInvalid", "markApplied", "markFailed", "markRejected"}
Storing == {"storeInvalid", "storeApplied", "storeFailed", "storeRejected"}
PCs == {"idle", "load", "preflight", "validate", "lineage", "capture", "apply",
        "canonical", "commit", "approve", "receipt", "cleanup", "rollback",
        "failedReceipt", "loadReject", "recordReject"} \cup Marking \cup Storing

Changes == Runs \X Kinds
NoCopy  == [r \in Runs |-> Absent]

Before == [r \in Runs |-> IF r \in Awaiting THEN "awaiting_approval" ELSE Absent]

Init ==
  /\ ledger = Before
  /\ approvals = [r \in Runs |-> {}]
  /\ receipt = [r \in Runs |-> "none"]
  /\ artifact = [r \in Runs |-> [worktree |-> "none", canonical |-> "none"]]
  /\ history = <<>>
  /\ index = {}
  /\ litter = FALSE
  /\ worktree = [r \in Runs |-> r \in Awaiting]
  /\ base = [r \in Runs |-> 0]
  /\ pc = [w \in Workers |-> "idle"]
  /\ job = [w \in Workers |-> NoRun]
  /\ local = [w \in Workers |-> Absent]
  /\ copy = [w \in Workers |-> NoCopy]
  /\ preClean = [w \in Workers |-> FALSE]
  /\ patched = [w \in Workers |-> FALSE]
  /\ record = Before
  /\ stage = [r \in Runs |-> "between"]
  /\ items = [r \in Runs |-> NoCopy]
  /\ raced = FALSE

-----------------------------------------------------------------------------
(* What the guards and the git commands look at.                           *)

AtRest == \A w \in Workers : pc[w] = "idle"

MayStart == Serial => AtRest

Fault(kind) == kind \in Faults

\* What the canonical repository's HEAD holds of the runs' changes.
Trunk == UNION {history[i].content : i \in 1..Len(history)}

\* A slip: only files that git does not track count as dirt.
MutantClean == ~litter

\* git status --porcelain prints nothing.
Clean == index = {} /\ ~litter

\* What "git diff --binary" prints for the worktree of r: a file that git does
\* not track is no part of it.
Patch(r) == {r} \X (Change[r] \cap {"edited"})

\* A slip: the patch is applied with whatever it takes to make it apply.
MutantApplies(r) == Patch(r) # {}

\* "git apply --index" finds the lines it expects: the patch is not there yet.
Applies(r) == Patch(r) \cap (index \cup Trunk) = {}

\* The canonical HEAD is still the commit that the worktree was created from.
LineageHolds(r) == worktree[r] /\ base[r] = Len(history)

\* The stages to run: those of the metadata, else those of the profile, which a
\* preferred profile replaces by none.
StagesOf(r) ==
  IF Settings[r].stages # "none" \/ Settings[r].preferred
  THEN Settings[r].stages ELSE Profile.stages

\* A slip: the profile is asked even where a run prefers another one.
MutantWaived(r) == Settings[r].waived \/ NoValidationOK \/ Profile.waived

Waived(r) ==
  \/ Settings[r].waived \/ NoValidationOK
  \/ ~Settings[r].preferred /\ Profile.waived

\* How r is validated.  "configured": there are commands to run, and stages hide
\* the flat commands of the metadata; "bare": there are stages but no command in
\* them; "waived": there is neither, and that is allowed; "none": it is not.
ValidationModes == {"configured", "bare", "waived", "none"}

ValidationMode(r) ==
  CASE StagesOf(r) = "bare"                           -> "bare"
    [] StagesOf(r) = "full" \/ (StagesOf(r) = "none" /\ Settings[r].commands)
                                                      -> "configured"
    [] OTHER                                          -> IF Waived(r) THEN "waived" ELSE "none"

Validation == [r \in Runs |-> ValidationMode(r)]

\* The checks between loading the run and validating its worktree.
PreflightPasses(w) ==
  LET r == job[w] IN
    /\ worktree[r]
    /\ local[w] = "awaiting_approval"
    /\ Clean
    /\ Validation[r] # "none"

-----------------------------------------------------------------------------
(* How a worker moves on.                                                  *)

Goto(w, to) ==
  /\ pc' = [pc EXCEPT ![w] = to]
  /\ UNCHANGED <<job, local, copy, preClean, patched>>

\* transition(run, status) on the worker's own dict, and on to the next step.
SetStatus(w, status, to) ==
  /\ pc' = [pc EXCEPT ![w] = to]
  /\ local' = [local EXCEPT ![w] = status]
  /\ UNCHANGED <<job, copy, preClean, patched>>

\* The handler returns or raises, and its local variables are gone.
Return(w) ==
  /\ pc' = [pc EXCEPT ![w] = "idle"]
  /\ job' = [job EXCEPT ![w] = NoRun]
  /\ local' = [local EXCEPT ![w] = Absent]
  /\ copy' = [copy EXCEPT ![w] = NoCopy]
  /\ preClean' = [preClean EXCEPT ![w] = FALSE]
  /\ patched' = [patched EXCEPT ![w] = FALSE]

-----------------------------------------------------------------------------
(* The coding service, which writes the same runs.json.                    *)

\* upsert reads the whole file, replaces or adds the entry of its run, and writes
\* the whole file, as _replace_run does.
RewriteUnderWay ==
  \/ \E w \in Workers : pc[w] \in Storing
  \/ \E r \in Runs : stage[r] = "upsert"

\* A rewrite begins if "begins" holds.
Watch(begins) == raced' = (raced \/ (begins /\ RewriteUnderWay))

\* record.status = status, and upsert up to the end of its reading.
Upsert(r, status) ==
  /\ stage[r] = "between"
  /\ record' = [record EXCEPT ![r] = status]
  /\ stage' = [stage EXCEPT ![r] = "upsert"]
  /\ items' = [items EXCEPT ![r] = ledger]
  /\ Watch(TRUE)

StartRun(r) ==
  /\ record[r] = Absent
  /\ Upsert(r, "created")
  /\ UNCHANGED <<recordVars, repoVars, workerVars>>

\* The worktree of a run that has been entered is created from HEAD.
CreateWorktree(r) ==
  /\ stage[r] = "between" /\ record[r] = "created"
  /\ ~worktree[r]
  /\ worktree' = [worktree EXCEPT ![r] = TRUE]
  /\ base' = [base EXCEPT ![r] = Len(history)]
  /\ UNCHANGED <<recordVars, history, index, litter, workerVars, serviceVars, raced>>

\* The statuses of the record, one after the other: a policy violation fails the
\* run while it is proposing, a failed validation while validating.
ServiceMoves ==
  { <<"created", "retrieving">>, <<"retrieving", "proposing">>,
    <<"proposing", "validating">>, <<"proposing", "failed">>,
    <<"validating", "awaiting_approval">>, <<"validating", "failed">> }

AdvanceRun(r) ==
  /\ record[r] = "created" => worktree[r]
  /\ \E move \in ServiceMoves : record[r] = move[1] /\ Upsert(r, move[2])
  /\ UNCHANGED <<recordVars, repoVars, workerVars>>

\* The second half of upsert.
StoreRun(r) ==
  /\ stage[r] = "upsert"
  /\ ledger' = [items[r] EXCEPT ![r] = record[r]]
  /\ stage' = [stage EXCEPT ![r] = "between"]
  /\ items' = [items EXCEPT ![r] = NoCopy]
  /\ UNCHANGED <<approvals, receipt, artifact, repoVars, workerVars, record, raced>>

\* upsert throws, and execute() with it, or the process of the service ends.
ServiceFails(r) ==
  /\ Fault("io") \/ Fault("crash")
  /\ stage[r] = "upsert"
  /\ stage' = [stage EXCEPT ![r] = "thrown"]
  /\ items' = [items EXCEPT ![r] = NoCopy]
  /\ UNCHANGED <<recordVars, repoVars, workerVars, record, raced>>

ServiceStep(r) ==
  StartRun(r) \/ CreateWorktree(r) \/ AdvanceRun(r) \/ StoreRun(r) \/ ServiceFails(r)

-----------------------------------------------------------------------------
(* Requests.  The endpoints answer by themselves unless the run awaits     *)
(* approval; the command line asks nothing.                                *)

\* A slip: the request is started without the run it is about.
MutantBegin(w, r, to) ==
  /\ MayStart
  /\ pc[w] = "idle"
  /\ pc' = [pc EXCEPT ![w] = to]
  /\ UNCHANGED <<job, local, copy, preClean, patched, recordVars, repoVars>>

Begin(w, r, to) ==
  /\ MayStart
  /\ pc[w] = "idle"
  /\ pc' = [pc EXCEPT ![w] = to]
  /\ job' = [job EXCEPT ![w] = r]
  /\ UNCHANGED <<local, copy, preClean, patched, recordVars, repoVars>>

ApproveEndpoint(w, r) == ledger[r] = "awaiting_approval" /\ Begin(w, r, "load")

RejectEndpoint(w, r) == ledger[r] = "awaiting_approval" /\ Begin(w, r, "loadReject")

CommandLine(w, r) == Begin(w, r, "load") \/ Begin(w, r, "loadReject")

-----------------------------------------------------------------------------
(* promote_run, up to the point where a failure fails the run.             *)

\* _load_run; without an entry for the run the request is refused.
LoadRun(w) ==
  /\ pc[w] = "load"
  /\ IF ledger[job[w]] = Absent
       THEN Return(w)
       ELSE SetStatus(w, ledger[job[w]], "preflight")
  /\ UNCHANGED <<recordVars, repoVars>>

\* An applied run is answered from its receipt, any other run that does not
\* pass is refused; neither writes anything.
Preflight(w) ==
  /\ pc[w] = "preflight"
  /\ IF PreflightPasses(w)
       THEN Goto(w, IF Validation[job[w]] = "waived" THEN "lineage" ELSE "validate")
       ELSE Return(w)
  /\ UNCHANGED <<recordVars, repoVars>>

\* Stages without commands come to the same as a command that fails.
ValidateWorktree(w) ==
  /\ pc[w] = "validate"
  /\ \/ /\ worktree[job[w]]
        /\ Validation[job[w]] = "configured"
        /\ artifact' = [artifact EXCEPT ![job[w]].worktree = "ok"]
        /\ Goto(w, "lineage")
     \/ /\ worktree[job[w]]
        /\ artifact' = [artifact EXCEPT ![job[w]].worktree = "failed"]
        /\ SetStatus(w, "failed", "markInvalid")
     \/ /\ Return(w)    \* TimeoutExpired, or no directory to run in
        /\ UNCHANGED artifact
  /\ UNCHANGED <<ledger, approvals, receipt, repoVars>>

\* A mismatch is refused: the run stays as it is.
ValidateLineage(w) ==
  /\ pc[w] = "lineage"
  /\ IF LineageHolds(job[w])
       THEN /\ pc' = [pc EXCEPT ![w] = "capture"]
            /\ preClean' = [preClean EXCEPT ![w] = Clean]
            /\ UNCHANGED <<job, local, copy, patched>>
       ELSE Return(w)
  /\ UNCHANGED <<recordVars, repoVars>>

-----------------------------------------------------------------------------
(* promote_run, inside its try block: an exception goes to "rollback".     *)

CapturePatch(w) ==
  /\ pc[w] = "capture"
  /\ LET found == worktree[job[w]] /\ Patch(job[w]) # {}
     IN  Goto(w, IF found THEN "apply" ELSE "rollback")
  /\ UNCHANGED <<recordVars, repoVars>>

\* git apply --index stages the whole patch or nothing.
ApplyPatch(w) ==
  /\ pc[w] = "apply"
  /\ \/ /\ Applies(job[w])
        /\ index' = index \cup Patch(job[w])
        /\ pc' = [pc EXCEPT ![w] = "canonical"]
        /\ patched' = [patched EXCEPT ![w] = TRUE]
        /\ UNCHANGED <<job, local, copy, preClean>>
     \/ /\ Goto(w, "rollback")
        /\ UNCHANGED index
  /\ UNCHANGED <<recordVars, history, litter, worktree, base>>

MaySkipCanonical(r) ==
  Validation[r] = "waived" \/ (SkipCanonical /\ Validation[r] = "configured")

SkipCanonicalValidation(w) ==
  /\ pc[w] = "canonical"
  /\ MaySkipCanonical(job[w])
  /\ artifact' = [artifact EXCEPT ![job[w]].canonical = "skipped"]
  /\ Goto(w, "commit")
  /\ UNCHANGED <<ledger, approvals, receipt, repoVars>>

\* The commands run in the canonical repository and may leave files there.
ValidateCanonical(w) ==
  /\ pc[w] = "canonical"
  /\ Validation[job[w]] = "configured"
  /\ litter' \in {litter, TRUE}
  /\ \/ /\ artifact' = [artifact EXCEPT ![job[w]].canonical = "ok"]
        /\ Goto(w, "commit")
     \/ /\ artifact' = [artifact EXCEPT ![job[w]].canonical = "failed"]
        /\ Goto(w, "rollback")
     \/ /\ Goto(w, "rollback")    \* TimeoutExpired
        /\ UNCHANGED artifact
  /\ UNCHANGED <<ledger, approvals, receipt, history, index, worktree, base>>

\* A slip: a repository that is not clean after the commit is an error.
MutantCommitPromotion(w) ==
  /\ pc[w] = "commit"
  /\ index # {}
  /\ history' = Append(history, [run |-> job[w], content |-> index])
  /\ index' = {}
  /\ Goto(w, IF litter THEN "rollback" ELSE "approve")
  /\ UNCHANGED <<recordVars, litter, worktree, base>>

\* git commit takes whatever is staged, then HEAD is read back.
CommitPromotion(w) ==
  /\ pc[w] = "commit"
  /\ index # {}
  /\ history' = Append(history, [run |-> job[w], content |-> index])
  /\ index' = {}
  /\ \/ Goto(w, "approve")
     \/ Fault("io") /\ Goto(w, "rollback")
  /\ UNCHANGED <<recordVars, litter, worktree, base>>

\* A slip: the exit status of git commit is not checked.
MutantCommitRefused(w) ==
  /\ pc[w] = "commit"
  /\ Goto(w, "approve")
  /\ UNCHANGED <<recordVars, repoVars>>

\* git commit refuses: nothing is staged, a hook or a lock is in the way.
CommitRefused(w) ==
  /\ pc[w] = "commit"
  /\ Goto(w, "rollback")
  /\ UNCHANGED <<recordVars, repoVars>>

\* approvals.jsonl, the receipt and the event, then transition(run, "applied").
RecordApproval(w) ==
  /\ pc[w] = "approve"
  /\ \/ /\ approvals' = [approvals EXCEPT ![job[w]] = @ \cup {"approved"}]
        /\ SetStatus(w, "applied", "markApplied")
     \/ /\ Fault("io")
        /\ \/ approvals' = [approvals EXCEPT ![job[w]] = @ \cup {"approved"}]
           \/ UNCHANGED approvals
        /\ Goto(w, "rollback")
  /\ UNCHANGED <<ledger, receipt, artifact, repoVars>>

\* A slip: the receipt goes to promotions.jsonl only.
MutantRecordReceipt(w) ==
  /\ pc[w] = "receipt"
  /\ Goto(w, "cleanup")
  /\ UNCHANGED <<recordVars, repoVars>>

RecordReceipt(w) ==
  /\ pc[w] = "receipt"
  /\ \/ /\ receipt' = [receipt EXCEPT ![job[w]] = "applied"]
        /\ Goto(w, "cleanup")
     \/ /\ Fault("io")
        /\ Goto(w, "rollback")
        /\ UNCHANGED receipt
  /\ UNCHANGED <<ledger, approvals, artifact, repoVars>>

\* Removes the worktree, unless the command line was told to keep it.
CleanUpWorktree(w) ==
  /\ pc[w] = "cleanup"
  /\ \/ /\ worktree' = [worktree EXCEPT ![job[w]] = FALSE]
        /\ Return(w) \/ (Fault("io") /\ Goto(w, "rollback"))
     \/ /\ Return(w)
        /\ UNCHANGED worktree
  /\ UNCHANGED <<recordVars, history, index, litter, base>>

-----------------------------------------------------------------------------
(* _replace_run: read the whole file, then write the whole file.           *)

AfterMark == [markInvalid |-> "storeInvalid", markApplied  |-> "storeApplied",
              markFailed  |-> "storeFailed",  markRejected |-> "storeRejected"]

\* _replace_run raises.  Only the call that stores "applied" is inside the try
\* block.
Unstored(w) ==
  IF pc[w] \in {"markApplied", "storeApplied"} THEN Goto(w, "rollback") ELSE Return(w)

Missing(w) == ledger[job[w]] = Absent

ReadLedger(w) ==
  /\ pc[w] \in Marking
  /\ \/ /\ ~Missing(w)
        /\ copy' = [copy EXCEPT ![w] = ledger]
        /\ pc' = [pc EXCEPT ![w] = AfterMark[pc[w]]]
        /\ UNCHANGED <<job, local, preClean, patched>>
     \/ Missing(w) /\ Unstored(w)
  /\ UNCHANGED <<recordVars, repoVars>>

StoreLedger(w) ==
  /\ pc[w] \in Storing
  /\ ledger' = [copy[w] EXCEPT ![job[w]] = local[w]]
  /\ CASE pc[w] = "storeApplied" -> Goto(w, "receipt")
       [] pc[w] = "storeFailed"  -> Goto(w, "failedReceipt")
       [] OTHER                  -> Return(w)
  /\ UNCHANGED <<approvals, receipt, artifact, repoVars>>

\* Reading or writing runs.json raises.
LedgerFault(w) ==
  /\ Fault("io")
  /\ pc[w] \in Marking \cup Storing
  /\ Unstored(w)
  /\ UNCHANGED <<recordVars, repoVars>>

-----------------------------------------------------------------------------
(* The handler of promote_run's exceptions.                                *)

\* A slip: whether the repository is clean is asked when the rollback is due.
MutantMustRollBack(w) == Clean /\ patched[w]

MustRollBack(w) == preClean[w] /\ patched[w]

\* A slip: the status is set directly and not through transition().
MutantRollbackUnguarded(w) ==
  /\ pc[w] = "rollback"
  /\ index' = {}
  /\ litter' = FALSE
  /\ SetStatus(w, "failed", "markFailed")
  /\ UNCHANGED <<recordVars, history, worktree, base>>

\* A slip: the repository is rolled back and the exception raised again.
MutantRollbackOnly(w) ==
  /\ pc[w] = "rollback"
  /\ index' = {}
  /\ litter' = FALSE
  /\ Return(w)
  /\ UNCHANGED <<recordVars, history, worktree, base>>

\* git reset --hard and git clean, whose exit status nobody checks, and then
\* transition(run, "failed"), which raises if the dict says "applied".
Rollback(w) ==
  /\ pc[w] = "rollback"
  /\ \/ /\ MustRollBack(w)
        /\ index' = {}
        /\ litter' = FALSE
     \/ /\ ~MustRollBack(w) \/ Fault("io")
        /\ UNCHANGED <<index, litter>>
  /\ IF Lifecycle!Allows(local[w], "failed")
       THEN SetStatus(w, "failed", "markFailed")
       ELSE Return(w)
  /\ UNCHANGED <<recordVars, history, worktree, base>>

RecordFailure(w) ==
  /\ pc[w] = "failedReceipt"
  /\ \/ receipt' = [receipt EXCEPT ![job[w]] = "failed"]
     \/ Fault("io") /\ UNCHANGED receipt
  /\ Return(w)
  /\ UNCHANGED <<ledger, approvals, artifact, repoVars>>

-----------------------------------------------------------------------------
(* reject_run.                                                             *)

LoadReject(w) ==
  /\ pc[w] = "loadReject"
  /\ IF ledger[job[w]] \in {"awaiting_approval", "rejected"}
       THEN SetStatus(w, ledger[job[w]], "recordReject")
       ELSE Return(w)
  /\ UNCHANGED <<recordVars, repoVars>>

\* The record is written before the status; a run that is rejected already
\* gets another record and nothing else.
RecordRejection(w) ==
  /\ pc[w] = "recordReject"
  /\ \/ /\ approvals' = [approvals EXCEPT ![job[w]] = @ \cup {"rejected"}]
        /\ IF local[w] = "rejected" THEN Return(w)
                                    ELSE SetStatus(w, "rejected", "markRejected")
     \/ /\ Fault("io")
        /\ Return(w)
        /\ UNCHANGED approvals
  /\ UNCHANGED <<ledger, receipt, artifact, repoVars>>

-----------------------------------------------------------------------------
\* The process dies: what is on disk stays, and nothing resumes the request.
\* An exception raised while another one is handled has the same effect.
Crash(w) ==
  /\ Fault("crash")
  /\ pc[w] # "idle"
  /\ Return(w)
  /\ UNCHANGED <<recordVars, repoVars, serviceVars, raced>>

PromoteStep(w) ==
  \/ LoadRun(w) \/ Preflight(w) \/ ValidateWorktree(w) \/ ValidateLineage(w)
  \/ CapturePatch(w) \/ ApplyPatch(w)
  \/ SkipCanonicalValidation(w) \/ ValidateCanonical(w)
  \/ CommitPromotion(w) \/ CommitRefused(w) \/ RecordApproval(w)
  \/ RecordReceipt(w) \/ CleanUpWorktree(w) \/ Rollback(w) \/ RecordFailure(w)

RejectStep(w) == LoadReject(w) \/ RecordRejection(w)

LedgerStep(w) == ReadLedger(w) \/ StoreLedger(w) \/ LedgerFault(w)

HandlerStep(w) ==
  /\ PromoteStep(w) \/ RejectStep(w) \/ LedgerStep(w)
  /\ Watch(pc[w] \in Marking /\ pc'[w] \in Storing)
  /\ UNCHANGED serviceVars

Request(w, r) ==
  /\ ApproveEndpoint(w, r) \/ RejectEndpoint(w, r) \/ CommandLine(w, r)
  /\ UNCHANGED <<serviceVars, raced>>

Next ==
  \/ \E r \in Runs : ServiceStep(r)
  \/ \E w \in Workers : HandlerStep(w) \/ Crash(w)
  \/ \E w \in Workers, r \in Runs : Request(w, r)

Spec == Init /\ [][Next]_vars

\* A request that is being handled goes on: every git and validation command
\* has a timeout, and threads are scheduled.
FairSpec == Spec /\ \A w \in Workers : WF_vars(HandlerStep(w))

-----------------------------------------------------------------------------
(* Properties.                                                             *)

Decisions == {"approved", "rejected"}

RecordTypes ==
  /\ ledger \in [Runs -> Statuses]
  /\ approvals \in [Runs -> SUBSET Decisions]
  /\ receipt \in [Runs -> {"none", "applied", "failed"}]
  /\ artifact \in [Runs -> [worktree  : {"none", "ok", "failed"},
                            canonical : {"none", "ok", "failed", "skipped"}]]

RepoTypes ==
  /\ history \in Seq([run : Runs, content : SUBSET Changes])
  /\ index \subseteq Changes
  /\ litter \in BOOLEAN
  /\ worktree \in [Runs -> BOOLEAN]
  /\ base \in [Runs -> Nat]

WorkerTypes ==
  /\ pc \in [Workers -> PCs]
  /\ job \in [Workers -> Runs \cup {NoRun}]
  /\ \A w \in Workers : pc[w] # "idle" => job[w] \in Runs
  /\ local \in [Workers -> Statuses]
  /\ copy \in [Workers -> [Runs -> Statuses]]
  /\ preClean \in [Workers -> BOOLEAN]
  /\ patched \in [Workers -> BOOLEAN]

ServiceTypes ==
  /\ record \in [Runs -> Statuses]
  /\ stage \in [Runs -> {"between", "upsert", "thrown"}]
  /\ items \in [Runs -> [Runs -> Statuses]]
  /\ raced \in BOOLEAN

\* Every variable has its type.
TypeOK == RecordTypes /\ RepoTypes /\ WorkerTypes /\ ServiceTypes

Committed(r) == \E i \in 1..Len(history) : history[i].run = r

\* A run on record as applied was committed to the canonical repository and
\* its approval was recorded; a run on record as rejected has its rejection
\* recorded.  So it is whatever other workers, faults and crashes come between
\* the commit, the record and the two halves of _replace_run, and however old
\* the copy of runs.json is that a worker or the coding service writes back.
DecisionsHaveEvidence ==
  \A r \in Runs :
    /\ ledger[r] = "applied"  => Committed(r) /\ "approved" \in approvals[r]
    /\ ledger[r] = "rejected" => "rejected" \in approvals[r]

\* No change reaches the canonical history twice, although two approvals of a
\* run may both pass every check: git refuses the second application.
CommittedOnce ==
  \A i, j \in 1..Len(history) :
    i # j => history[i].content \cap history[j].content = {}

\* A promotion commit holds the patch of the run it names and nothing else, in
\* particular nothing that an interrupted promotion left in the index.
CommitIsOwnPatch ==
  \A i \in 1..Len(history) : history[i].content = Patch(history[i].run)

\* A run that ends as failed or rejected leaves the canonical repository
\* untouched (docs/failure_modes.md, docs/approval_flow.md), as long as no two
\* rewrites of runs.json overlap: an upsert that brings an applied run back to
\* awaiting_approval lets it be rejected after its commit.
FailureLeavesTrunk ==
  raced \/ \A r \in Runs :
    ledger[r] \in {"failed", "rejected"} => Trunk \cap ({r} \X Kinds) = {}

\* Between requests nothing is staged in the canonical repository, whether
\* the last promotion succeeded, failed or was refused.
RestLeavesNothingStaged == AtRest => index = {}

\* Between requests the promotion receipt tells what the ledger tells, as long as
\* no two rewrites overlap: the idempotent path of promote_run relies on the
\* receipt of an applied run.
ReceiptMatchesLedger ==
  AtRest /\ ~raced => \A r \in Runs :
    /\ receipt[r] = "applied" <=> ledger[r] = "applied"
    /\ receipt[r] = "failed" => ledger[r] = "failed"

\* Fail-closed, whatever metadata, profile and flags say: what was committed had
\* commands that passed in the worktree and, unless the operator allowed to skip
\* them, in the canonical repository; or it had neither commands nor stages, and
\* the metadata, the environment or a profile that is not overridden waived that.
\* (A run that an overlapping rewrite brings back can be validated once more.)
CommitWasValidated ==
  raced \/ \A r \in Runs : Committed(r) =>
    \/ /\ artifact[r].worktree = "ok"
       /\ artifact[r].canonical = "ok" \/ (SkipCanonical /\ artifact[r].canonical = "skipped")
       /\ Settings[r].commands \/ "full" \in {Settings[r].stages, Profile.stages}
    \/ /\ artifact[r].canonical = "skipped"
       /\ ~Settings[r].commands /\ Settings[r].stages = "none"
       /\ Settings[r].preferred \/ Profile.stages = "none"
       /\ \/ Settings[r].waived \/ NoValidationOK
          \/ Profile.waived /\ ~Settings[r].preferred

\* No status follows applied, rejected or failed (integration/lifecycle.py).
TerminalIsFinal ==
  [][\A r \in Runs : ledger[r] \in Terminal => ledger'[r] = ledger[r]]_ledger

\* Until two rewrites of runs.json overlap, whoever makes them, the ledger goes
\* through the states of a run along the edges of VALID_TRANSITIONS only, although
\* _replace_run and upsert write every run's entry.
RefinesLifecycle == Lifecycle!Init /\ [][raced' \/ Lifecycle!Next]_ledger

\* Once a promotion has passed the checks that may refuse it, the run is
\* decided: it does not stay in awaiting_approval.
CaptureDecides ==
  \A w \in Workers, r \in Runs :
    (pc[w] = "capture" /\ job[w] = r) ~> (ledger[r] \in Terminal)
=============================================================================
