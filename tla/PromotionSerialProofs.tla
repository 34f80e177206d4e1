----------------------- MODULE PromotionSerialProofs -----------------------
(***************************************************************************)
(* What holds of Promotion when one operator at a time is at work, proved  *)
(* with TLAPS for all runs and all configurations of validation.  The      *)
(* coding service runs beside the operator and rewrites runs.json when it  *)
(* wants to.  Commits are of their own run whatever fails and whatever     *)
(* overlaps, and until two rewrites overlap the ledger follows the         *)
(* lifecycle whatever fails; while reading and writing files does not fail *)
(* and no process dies nothing stays staged, and until two rewrites        *)
(* overlap repository, ledger and receipts agree.                          *)
(***************************************************************************)
EXTENDS PromotionProofs

\* The definitions that only name things.
USE DEF Fault, recordVars, repoVars, workerVars, serviceVars

(***************************************************************************)
(* One at a time.                                                          *)
(***************************************************************************)

Alone == \A v, w \in Workers : pc[v] # "idle" /\ pc[w] # "idle" => v = w

\* The variables of all workers but one stay as they are.
OthersStay(w) ==
  \A v \in Workers \ {w} :
    /\ pc'[v] = pc[v] /\ job'[v] = job[v] /\ local'[v] = local[v]
    /\ copy'[v] = copy[v] /\ preClean'[v] = preClean[v] /\ patched'[v] = patched[v]

\* A handler's step is a step of one worker, which is not idle.
LEMMA StepIsOwn ==
  ASSUME TypeOK, NEW w \in Workers, HandlerStep(w) \/ Crash(w)
  PROVE  pc[w] # "idle" /\ OthersStay(w)
  <1> USE DEF TypeOK, WorkerTypes, OthersStay, Goto, SetStatus, Return
  <1>1. CASE PromoteStep(w)
    BY <1>1 DEF PromoteStep, LoadRun, Preflight, ValidateWorktree, ValidateLineage,
       CapturePatch, ApplyPatch, SkipCanonicalValidation, ValidateCanonical,
       CommitPromotion, CommitRefused, RecordApproval, RecordReceipt,
       CleanUpWorktree, Rollback, RecordFailure
  <1>2. CASE RejectStep(w) \/ Crash(w)
    BY <1>2 DEF RejectStep, LoadReject, RecordRejection, Crash
  <1>3. CASE LedgerStep(w)
    BY <1>3 DEF LedgerStep, ReadLedger, StoreLedger, LedgerFault, Unstored, Marking, Storing
  <1>4. QED
    BY <1>1, <1>2, <1>3 DEF HandlerStep

\* Who begins waits until nobody is at work.
LEMMA BeginsAlone ==
  ASSUME Serial, TypeOK, NEW w \in Workers, NEW r \in Runs, Request(w, r)
  PROVE  /\ AtRest /\ OthersStay(w)
         /\ pc'[w] \in {"load", "loadReject"} /\ job'[w] = r
         /\ UNCHANGED <<recordVars, repoVars, serviceVars, raced>>
  <1>1. PICK to \in {"load", "loadReject"} : Begin(w, r, to)
    BY DEF Request, ApproveEndpoint, RejectEndpoint, CommandLine
  <1>2. QED
    BY <1>1 DEF Request, Begin, MayStart, OthersStay, TypeOK, WorkerTypes

\* The coding service touches neither workers nor repository nor evidence.
LEMMA ServiceStaysAway ==
  ASSUME NEW r \in Runs, ServiceStep(r)
  PROVE  UNCHANGED <<approvals, receipt, artifact, history, index, litter, workerVars>>
  BY DEF ServiceStep, StartRun, CreateWorktree, AdvanceRun, StoreRun, ServiceFails

LEMMA AloneStays ==
  ASSUME Serial, TypeOK, Alone, [Next]_vars
  PROVE  Alone'
  <1> USE DEF Alone
  <1>1. ASSUME NEW w \in Workers, HandlerStep(w) \/ Crash(w) PROVE Alone'
    <2>1. pc[w] # "idle" /\ \A v \in Workers \ {w} : pc'[v] = pc[v]
      BY <1>1, StepIsOwn DEF OthersStay
    <2>2. \A v \in Workers \ {w} : pc'[v] = "idle"
      BY <2>1
    <2>3. QED
      BY <2>2
  <1>2. ASSUME NEW w \in Workers, NEW r \in Runs, Request(w, r) PROVE Alone'
    <2>1. AtRest /\ \A v \in Workers \ {w} : pc'[v] = pc[v]
      BY <1>2, BeginsAlone DEF OthersStay
    <2>2. \A v \in Workers \ {w} : pc'[v] = "idle"
      BY <2>1 DEF AtRest
    <2>3. QED
      BY <2>2
  <1>3. ASSUME NEW r \in Runs, ServiceStep(r) PROVE Alone'
    BY <1>3, ServiceStaysAway
  <1>4. CASE UNCHANGED vars
    BY <1>4 DEF vars
  <1>5. QED
    BY <1>1, <1>2, <1>3, <1>4 DEF Next

(***************************************************************************)
(* A commit is of its own run, with any faults.  What an interrupted       *)
(* promotion has staged is seen by the preflight of the next one, and      *)
(* nobody stages anything after that.                                      *)
(***************************************************************************)

\* What is staged at each point of a promotion between preflight and commit.
StagedIsOwn ==
  \A w \in Workers :
    /\ pc[w] \in {"validate", "lineage", "capture", "apply"} => index = {}
    /\ pc[w] \in {"canonical", "commit"} => index = Patch(job[w])

OwnInv == Alone /\ StagedIsOwn /\ CommitIsOwnPatch

\* It is enough to look at the worker that moves.
LEMMA OneOwns ==
  ASSUME Serial, TypeOK, OwnInv, [Next]_vars, CommitIsOwnPatch',
         NEW w \in Workers, HandlerStep(w) \/ Crash(w),
         pc'[w] \in {"validate", "lineage", "capture", "apply"} => index' = {},
         pc'[w] \in {"canonical", "commit"} => index' = Patch(job'[w])
  PROVE  OwnInv'
  <1>1. Alone'
    BY AloneStays DEF OwnInv
  <1>2. pc[w] # "idle" /\ \A v \in Workers \ {w} : pc'[v] = pc[v]
    BY StepIsOwn DEF OthersStay
  <1>3. \A v \in Workers \ {w} : pc'[v] = "idle"
    BY <1>2 DEF OwnInv, Alone
  <1>4. StagedIsOwn'
    BY <1>3 DEF StagedIsOwn, Patch
  <1>5. QED
    BY <1>1, <1>4 DEF OwnInv

LEMMA OwnPreserved ==
  ASSUME Serial, TypeOK, OwnInv, [Next]_vars
  PROVE  OwnInv'
  <1>1. ASSUME NEW w \in Workers, HandlerStep(w), CommitPromotion(w) PROVE OwnInv'
    <2>1. /\ history \in Seq([run : Runs, content : SUBSET Changes])
          /\ history' = Append(history, [run |-> job[w], content |-> index])
          /\ pc'[w] \in {"approve", "rollback"}
      BY <1>1 DEF CommitPromotion, Goto, TypeOK, RepoTypes, WorkerTypes
    <2>2. /\ Len(history') = Len(history) + 1
          /\ \A i \in 1 .. Len(history) : history'[i] = history[i]
          /\ history'[Len(history) + 1] = [run |-> job[w], content |-> index]
          /\ Len(history) \in Nat
      BY <2>1
    <2>3. index = Patch(job[w])
      BY <1>1 DEF CommitPromotion, OwnInv, StagedIsOwn
    <2>4. CommitIsOwnPatch'
      BY <2>2, <2>3 DEF OwnInv, CommitIsOwnPatch, Patch
    <2>5. QED
      BY <1>1, <2>1, <2>4, OneOwns
  <1>2. ASSUME NEW w \in Workers, HandlerStep(w) \/ Crash(w), ~(HandlerStep(w) /\ CommitPromotion(w))
        PROVE  OwnInv'
    <2> USE DEF Goto, SetStatus, Return, TypeOK, WorkerTypes
    <2>1. /\ pc[w] \in {"validate", "lineage", "capture", "apply"} => index = {}
          /\ pc[w] \in {"canonical", "commit"} => index = Patch(job[w])
      BY DEF OwnInv, StagedIsOwn
    <2>2. /\ history' = history
          /\ pc'[w] \in {"validate", "lineage", "capture", "apply"} => index' = {}
          /\ pc'[w] \in {"canonical", "commit"} => index' = Patch(job'[w])
      <3>1. CASE LoadRun(w) \/ ValidateWorktree(w) \/ ValidateLineage(w) \/ CapturePatch(w)
        BY <2>1, <3>1 DEF LoadRun, ValidateWorktree, ValidateLineage, CapturePatch
      <3>2. CASE Preflight(w)
        BY <3>2 DEF Preflight, PreflightPasses, Clean
      <3>3. CASE ApplyPatch(w)
        BY <2>1, <3>3 DEF ApplyPatch
      <3>4. CASE SkipCanonicalValidation(w) \/ ValidateCanonical(w)
        BY <2>1, <3>4 DEF SkipCanonicalValidation, ValidateCanonical
      <3>5. CASE CommitRefused(w) \/ RecordApproval(w) \/ RecordReceipt(w) \/ RecordFailure(w)
        BY <3>5 DEF CommitRefused, RecordApproval, RecordReceipt, RecordFailure
      <3>6. CASE CleanUpWorktree(w) \/ Rollback(w)
        BY <3>6 DEF CleanUpWorktree, Rollback
      <3>7. CASE RejectStep(w)
        BY <3>7 DEF RejectStep, LoadReject, RecordRejection
      <3>8. CASE LedgerStep(w) \/ Crash(w)
        <4>1. history' = history /\ pc'[w] \in Storing \cup {"idle", "receipt", "failedReceipt", "rollback"}
          BY <3>8, AfterMarkIsStoring
          DEF LedgerStep, ReadLedger, StoreLedger, LedgerFault, Unstored, Crash
        <4>2. QED
          BY <4>1 DEF Storing
      <3>9. QED
        BY <1>2, <3>1, <3>2, <3>3, <3>4, <3>5, <3>6, <3>7, <3>8 DEF HandlerStep, PromoteStep
    <2>3. CommitIsOwnPatch'
      BY <2>2 DEF OwnInv, CommitIsOwnPatch, Patch
    <2>4. QED
      BY <1>2, <2>2, <2>3, OneOwns
  <1>3. ASSUME UNCHANGED <<history, index>>,
               \A w \in Workers :
                 pc'[w] \in {"load", "loadReject"} \/ (pc'[w] = pc[w] /\ job'[w] = job[w])
        PROVE  OwnInv'
    <2>1. Alone'
      BY AloneStays DEF OwnInv
    <2>2. StagedIsOwn' /\ CommitIsOwnPatch'
      BY <1>3 DEF OwnInv, StagedIsOwn, CommitIsOwnPatch, Patch
    <2>3. QED
      BY <2>1, <2>2 DEF OwnInv
  <1>4. ASSUME NEW w \in Workers, NEW r \in Runs, Request(w, r) PROVE OwnInv'
    BY <1>3, <1>4, BeginsAlone DEF OthersStay
  <1>5. ASSUME NEW r \in Runs, ServiceStep(r) PROVE OwnInv'
    BY <1>3, <1>5, ServiceStaysAway
  <1>6. CASE UNCHANGED vars
    BY <1>3, <1>6 DEF vars
  <1>7. QED
    BY <1>1, <1>2, <1>4, <1>5, <1>6 DEF Next

\* Under one operator at a time, and with any faults and crashes: a commit of
\* promote_run holds the patch of the run it names and nothing else.
THEOREM CommitsAreOwn ==
  ASSUME Serial
  PROVE  Spec => []CommitIsOwnPatch
  <1>1. Init => OwnInv
    BY DEF Init, OwnInv, Alone, StagedIsOwn, CommitIsOwnPatch
  <1>2. TypeOK /\ OwnInv /\ [Next]_vars => OwnInv'
    BY OwnPreserved
  <1>3. OwnInv => CommitIsOwnPatch
    BY DEF OwnInv
  <1>4. QED
    BY TypeCorrect, <1>1, <1>2, <1>3, PTL DEF Spec

(***************************************************************************)
(* The ledger follows the lifecycle, with any faults, until two rewrites   *)
(* of runs.json overlap.  What promote_run and reject_run write is written *)
(* of a run that awaits approval, since nobody else has written its status *)
(* after they have read it: the service has done with the run.             *)
(***************************************************************************)

\* What a worker knows of the status of its run.
Follows(w) ==
  /\ pc[w] \in {"preflight", "recordReject"} /\ local[w] = "awaiting_approval" =>
       ledger[job[w]] = "awaiting_approval"
  /\ pc[w] = "recordReject" => local[w] \in {"awaiting_approval", "rejected"}
  /\ pc[w] \in {"validate", "lineage", "capture", "apply", "canonical", "commit", "approve"} =>
       ledger[job[w]] = "awaiting_approval" /\ local[w] = "awaiting_approval"
  /\ pc[w] \in Marking \cup Storing =>
       ledger[job[w]] = "awaiting_approval" /\ local[w] \in {"applied", "rejected", "failed"}
  /\ pc[w] \in {"markApplied", "storeApplied", "receipt", "cleanup"} => local[w] = "applied"
  /\ pc[w] \in Storing => copy[w] = ledger
  /\ pc[w] = "rollback" =>
       \/ local[w] = "applied"
       \/ local[w] = "awaiting_approval" /\ ledger[job[w]] = "awaiting_approval"

\* What the service knows of the status of a run: it is the only one to write it
\* until the run awaits approval, and then it has done with it.
Served(r) ==
  /\ stage[r] = "upsert" =>
       /\ items[r] = ledger
       /\ \/ ledger[r] = "absent" /\ record[r] = "created"
          \/ <<ledger[r], record[r]>> \in ServiceMoves
  /\ stage[r] = "between" =>
       \/ record[r] = ledger[r]
       \/ record[r] = "awaiting_approval" /\ ledger[r] \in {"applied", "rejected", "failed"}

\* Of the service and the workers one at most is between reading and writing.
OneRewrite ==
  /\ \A w \in Workers, r \in Runs : ~(pc[w] \in Storing /\ stage[r] = "upsert")
  /\ \A r, s \in Runs : stage[r] = "upsert" /\ stage[s] = "upsert" => r = s

InStep == (\A w \in Workers : Follows(w)) /\ (\A r \in Runs : Served(r)) /\ OneRewrite

FollowInv == Alone /\ (raced \/ InStep)

\* transition() lets a run that awaits approval end, and an applied one stay.
LEMMA AwaitingMayEnd ==
  /\ Lifecycle!Allows("awaiting_approval", "applied")
  /\ Lifecycle!Allows("awaiting_approval", "rejected")
  /\ Lifecycle!Allows("awaiting_approval", "failed")
  /\ ~Lifecycle!Allows("applied", "failed")
  BY DEF Lifecycle!Allows, Lifecycle!ValidTransitions, Lifecycle!TerminalStates

\* Only the service and StoreLedger write runs.json.
LEMMA OnlyStoreWrites ==
  ASSUME NEW w \in Workers, HandlerStep(w) \/ Crash(w), ~ StoreLedger(w)
  PROVE  ledger' = ledger
  BY DEF HandlerStep, PromoteStep, RejectStep, LedgerStep, Crash, LoadRun,
     Preflight, ValidateWorktree, ValidateLineage, CapturePatch, ApplyPatch,
     SkipCanonicalValidation, ValidateCanonical, CommitPromotion, CommitRefused,
     RecordApproval, RecordReceipt, CleanUpWorktree, Rollback, RecordFailure,
     LoadReject, RecordRejection, ReadLedger, LedgerFault

\* A handler's step keeps what its worker knows.
LEMMA StepFollows ==
  ASSUME TypeOK, NEW w \in Workers, Follows(w), HandlerStep(w) \/ Crash(w)
  PROVE  Follows(w)'
  <1> USE DEF Follows, Marking, Storing, Goto, SetStatus, Return, TypeOK, WorkerTypes
  <1>1. CASE LoadRun(w) \/ LoadReject(w)
    BY <1>1 DEF LoadRun, LoadReject
  <1>2. CASE Preflight(w)
    BY <1>2 DEF Preflight, PreflightPasses
  <1>3. CASE ValidateWorktree(w)
    BY <1>3 DEF ValidateWorktree
  <1>4. CASE ValidateLineage(w) \/ CapturePatch(w) \/ ApplyPatch(w)
    BY <1>4 DEF ValidateLineage, CapturePatch, ApplyPatch
  <1>5. CASE SkipCanonicalValidation(w) \/ ValidateCanonical(w)
    BY <1>5 DEF SkipCanonicalValidation, ValidateCanonical
  <1>6. CASE CommitPromotion(w) \/ CommitRefused(w)
    BY <1>6 DEF CommitPromotion, CommitRefused
  <1>7. CASE RecordApproval(w)
    BY <1>7 DEF RecordApproval
  <1>8. CASE RecordReceipt(w) \/ CleanUpWorktree(w) \/ RecordFailure(w)
    BY <1>8 DEF RecordReceipt, CleanUpWorktree, RecordFailure
  <1>9. CASE Rollback(w)
    BY <1>9, AwaitingMayEnd DEF Rollback
  <1>10. CASE RecordRejection(w)
    BY <1>10 DEF RecordRejection
  <1>11. CASE ReadLedger(w)
    BY <1>11, StatusesAre DEF ReadLedger, Missing, AfterMark
  <1>12. CASE StoreLedger(w)
    BY <1>12 DEF StoreLedger
  <1>13. CASE LedgerFault(w) \/ Crash(w)
    BY <1>13 DEF LedgerFault, Unstored, Crash
  <1>14. QED
    BY <1>1, <1>2, <1>3, <1>4, <1>5, <1>6, <1>7, <1>8, <1>9, <1>10, <1>11, <1>12, <1>13
    DEF HandlerStep, PromoteStep, RejectStep, LedgerStep

\* A handler is between reading and writing because it was, or because it has read.
LEMMA StoringFromMarking ==
  ASSUME TypeOK, NEW w \in Workers, HandlerStep(w) \/ Crash(w), pc'[w] \in Storing
  PROVE  pc[w] \in Marking /\ ReadLedger(w) /\ HandlerStep(w)
  <1> USE DEF Goto, SetStatus, Return, TypeOK, WorkerTypes, Storing
  <1>1. ~ PromoteStep(w)
    BY DEF PromoteStep, LoadRun, Preflight, ValidateWorktree,
     ValidateLineage, CapturePatch, ApplyPatch, SkipCanonicalValidation, ValidateCanonical,
     CommitPromotion, CommitRefused, RecordApproval, RecordReceipt, CleanUpWorktree,
     Rollback, RecordFailure
  <1>2. ~ RejectStep(w) /\ ~ Crash(w) /\ ~ StoreLedger(w) /\ ~ LedgerFault(w)
    BY DEF RejectStep, LoadReject, RecordRejection, Crash, StoreLedger, LedgerFault, Unstored
  <1>3. QED
    BY <1>1, <1>2 DEF HandlerStep, LedgerStep, ReadLedger

\* What a rewrite of the service writes, and of which run.
LEMMA ServiceWrites ==
  ASSUME TypeOK, NEW r \in Runs, Served(r), StoreRun(r)
  PROVE  /\ ledger' = [ledger EXCEPT ![r] = record[r]]
         /\ ledger[r] \notin {"awaiting_approval", "applied", "rejected", "failed"}
         /\ record[r] \notin {"applied", "rejected"}
         /\ ledger'[r] = record[r]
         /\ \A x \in Runs \ {r} : ledger'[x] = ledger[x]
  BY DEF StoreRun, Served, ServiceMoves, TypeOK, RecordTypes

\* The steps of the service keep what everybody knows.
LEMMA ServiceKeepsStep ==
  ASSUME TypeOK, InStep, NEW r \in Runs, ServiceStep(r), ~raced'
  PROVE  InStep'
  <1> USE DEF TypeOK, ServiceTypes, InStep
  <1>1. UNCHANGED workerVars
    BY ServiceStaysAway
  <1>2. CASE StartRun(r) \/ AdvanceRun(r)
    <2>1. PICK status :
            /\ Upsert(r, status)
            /\ \/ record[r] = "absent" /\ status = "created"
               \/ <<record[r], status>> \in ServiceMoves
      BY <1>2, StatusesAre DEF StartRun, AdvanceRun, ServiceMoves
    <2>2. ~RewriteUnderWay /\ UNCHANGED ledger
      BY <1>2, <2>1 DEF StartRun, AdvanceRun, Upsert, Watch
    <2>3. \A w \in Workers : Follows(w)'
      BY <1>1, <2>2 DEF Follows
    <2>4. /\ record' = [record EXCEPT ![r] = status]
          /\ stage' = [stage EXCEPT ![r] = "upsert"]
          /\ items' = [items EXCEPT ![r] = ledger]
          /\ stage[r] = "between"
      BY <2>1 DEF Upsert
    <2>5. ledger[r] = record[r]
      <3>1. record[r] # "awaiting_approval"
        BY <2>1 DEF ServiceMoves
      <3>2. QED
        BY <2>4, <3>1 DEF Served
    <2>6. ASSUME NEW x \in Runs PROVE Served(x)'
      <3>1. CASE x = r
        BY <2>1, <2>2, <2>4, <2>5, <3>1 DEF Served
      <3>2. CASE x # r
        BY <2>2, <2>4, <3>2 DEF Served
      <3>3. QED
        BY <3>1, <3>2
    <2>7. OneRewrite'
      BY <1>1, <2>2, <2>4 DEF OneRewrite, RewriteUnderWay
    <2>8. QED
      BY <2>3, <2>6, <2>7
  <1>3. CASE CreateWorktree(r)
    BY <1>1, <1>3 DEF CreateWorktree, Follows, Served, OneRewrite
  <1>4. CASE StoreRun(r)
    <2>1. /\ stage[r] = "upsert" /\ record' = record
          /\ stage' = [stage EXCEPT ![r] = "between"]
          /\ items' = [items EXCEPT ![r] = NoCopy]
      BY <1>4 DEF StoreRun
    <2>2. ASSUME NEW w \in Workers PROVE Follows(w)'
      <3>1. pc[w] \notin Storing
        BY <2>1 DEF OneRewrite
      <3>2. ASSUME pc[w] # "idle", ledger[job[w]] = "awaiting_approval"
            PROVE  ledger'[job[w]] = "awaiting_approval"
        BY <1>4, <3>2, ServiceWrites DEF WorkerTypes
      <3>3. Follows(w)
        OBVIOUS
      <3>4. QED
        BY <1>1, <3>1, <3>2, <3>3 DEF Follows, Marking, Storing
    <2>3. ASSUME NEW x \in Runs PROVE Served(x)'
      <3>1. CASE x = r
        BY <1>4, <2>1, <3>1, ServiceWrites DEF Served
      <3>2. CASE x # r
        <4>1. stage[x] # "upsert" /\ ledger'[x] = ledger[x]
          BY <1>4, <2>1, <3>2, ServiceWrites DEF OneRewrite
        <4>2. QED
          BY <2>1, <3>2, <4>1 DEF Served
      <3>3. QED
        BY <3>1, <3>2
    <2>4. OneRewrite'
      BY <1>1, <2>1 DEF OneRewrite
    <2>5. QED
      BY <2>2, <2>3, <2>4
  <1>5. CASE ServiceFails(r)
    <2>1. /\ UNCHANGED <<ledger, record>>
          /\ stage' = [stage EXCEPT ![r] = "thrown"]
          /\ items' = [items EXCEPT ![r] = NoCopy]
      BY <1>5 DEF ServiceFails
    <2>2. \A w \in Workers : Follows(w)'
      BY <1>1, <2>1 DEF Follows
    <2>3. \A x \in Runs : Served(x)'
      BY <2>1 DEF Served
    <2>4. OneRewrite'
      BY <1>1, <2>1 DEF OneRewrite
    <2>5. QED
      BY <2>2, <2>3, <2>4
  <1>6. QED
    BY <1>2, <1>3, <1>4, <1>5 DEF ServiceStep

\* So do the steps of the one handler at work.
LEMMA HandlerKeepsStep ==
  ASSUME TypeOK, Alone, InStep, NEW w \in Workers, HandlerStep(w) \/ Crash(w), ~raced'
  PROVE  InStep'
  <1> USE DEF TypeOK, ServiceTypes, InStep
  <1>1. /\ UNCHANGED serviceVars
        /\ pc[w] # "idle" /\ job[w] \in Runs
        /\ \A v \in Workers \ {w} : pc'[v] = "idle"
    <2>1. pc[w] # "idle" /\ OthersStay(w)
      BY StepIsOwn
    <2>2. QED
      BY <2>1 DEF HandlerStep, Crash, OthersStay, Alone, WorkerTypes
  <1>2. ASSUME NEW v \in Workers PROVE Follows(v)'
    <2>1. CASE v = w
      BY <2>1, StepFollows
    <2>2. CASE v # w
      BY <1>1, <2>2 DEF Follows, Marking, Storing
    <2>3. QED
      BY <2>1, <2>2
  <1>3. ASSUME NEW x \in Runs PROVE Served(x)'
    <2>1. CASE StoreLedger(w)
      <3>1. /\ stage[x] # "upsert" /\ ledger' = [ledger EXCEPT ![job[w]] = local[w]]
            /\ ledger[job[w]] = "awaiting_approval"
            /\ local[w] \in {"applied", "rejected", "failed"}
        BY <2>1 DEF StoreLedger, OneRewrite, Follows
      <3>2. stage'[x] = stage[x] /\ record'[x] = record[x]
        BY <1>1 DEF serviceVars
      <3>3. x # job[w] => ledger'[x] = ledger[x]
        BY <1>1, <3>1 DEF RecordTypes
      <3>4. x = job[w] => ledger'[x] = local[w]
        BY <1>1, <3>1 DEF RecordTypes
      <3>5. QED
        BY <3>1, <3>2, <3>3, <3>4 DEF Served
    <2>2. CASE ~ StoreLedger(w)
      BY <1>1, <2>2, OnlyStoreWrites DEF Served
    <2>3. QED
      BY <2>1, <2>2
  <1>4. OneRewrite'
    <2>1. ASSUME pc'[w] \in Storing PROVE \A r \in Runs : stage[r] # "upsert"
      BY <2>1, StoringFromMarking DEF HandlerStep, Watch, RewriteUnderWay
    <2>2. QED
      BY <1>1, <2>1 DEF OneRewrite, Storing
  <1>5. QED
    BY <1>2, <1>3, <1>4

\* A race is not forgotten.
LEMMA RacedStays ==
  ASSUME [Next]_vars, raced
  PROVE  raced'
  BY DEF Next, HandlerStep, Crash, Request, ServiceStep, StartRun, CreateWorktree,
         AdvanceRun, StoreRun, ServiceFails, Upsert, Watch, vars

LEMMA FollowPreserved ==
  ASSUME Serial, TypeOK, FollowInv, [Next]_vars
  PROVE  FollowInv'
  <1>1. Alone'
    BY AloneStays DEF FollowInv
  <1>2. SUFFICES ASSUME ~raced' PROVE InStep'
    BY <1>1 DEF FollowInv
  <1>3. Alone /\ InStep
    BY <1>2, RacedStays DEF FollowInv
  <1>4. ASSUME NEW w \in Workers, NEW r \in Runs, Request(w, r) PROVE InStep'
    <2>1. /\ UNCHANGED <<ledger, serviceVars>>
          /\ \A v \in Workers : pc'[v] \in {"idle", "load", "loadReject"}
      BY <1>4, BeginsAlone DEF OthersStay, AtRest
    <2>2. QED
      BY <1>3, <2>1 DEF InStep, Follows, Served, OneRewrite, Marking, Storing
  <1>5. CASE UNCHANGED vars
    BY <1>3, <1>5 DEF vars, InStep, Follows, Served, OneRewrite
  <1>6. QED
    BY <1>2, <1>3, <1>4, <1>5, ServiceKeepsStep, HandlerKeepsStep DEF Next

\* A step is a step of the lifecycle, or leaves the ledger alone.
LEMMA StepImplements ==
  ASSUME Serial, TypeOK, FollowInv, [Next]_vars
  PROVE  [raced' \/ Lifecycle!Next]_ledger
  <1> USE DEF Lifecycle!Next, Lifecycle!Create, Lifecycle!Transition, Lifecycle!Absent,
              Lifecycle!States, Lifecycle!TerminalStates
  <1>1. SUFFICES ASSUME ~raced' PROVE [Lifecycle!Next]_ledger
    OBVIOUS
  <1>2. InStep
    BY <1>1, RacedStays DEF FollowInv
  <1>3. ASSUME NEW w \in Workers, StoreLedger(w) PROVE Lifecycle!Next
    <2>1. /\ pc[w] # "idle" /\ copy[w] = ledger /\ ledger[job[w]] = "awaiting_approval"
          /\ local[w] \in {"applied", "rejected", "failed"}
      BY <1>2, <1>3 DEF StoreLedger, InStep, Follows, Storing
    <2>2. job[w] \in Runs /\ ledger' = [ledger EXCEPT ![job[w]] = local[w]]
      BY <1>3, <2>1 DEF StoreLedger, TypeOK, WorkerTypes
    <2>3. Lifecycle!Allows(ledger[job[w]], local[w])
      BY <2>1, AwaitingMayEnd
    <2>4. Lifecycle!Transition(job[w], local[w])
      BY <2>2, <2>3
    <2>5. QED
      BY <2>1, <2>2, <2>4
  <1>4. ASSUME NEW w \in Workers, HandlerStep(w) \/ Crash(w), ~ StoreLedger(w)
        PROVE  ledger' = ledger
    BY <1>4, OnlyStoreWrites
  <1>5. ASSUME NEW w \in Workers, NEW r \in Runs, Request(w, r) PROVE ledger' = ledger
    BY <1>5, BeginsAlone
  <1>6. ASSUME NEW r \in Runs, StoreRun(r) PROVE Lifecycle!Next
    <2>1. /\ ledger' = [ledger EXCEPT ![r] = record[r]]
          /\ \/ ledger[r] = "absent" /\ record[r] = "created"
             \/ <<ledger[r], record[r]>> \in ServiceMoves
      BY <1>2, <1>6, ServiceWrites DEF InStep, Served, StoreRun
    <2>2. CASE <<ledger[r], record[r]>> \in ServiceMoves
      <3>1. Lifecycle!Allows(ledger[r], record[r]) /\ record[r] \in Lifecycle!States
        BY <2>2 DEF ServiceMoves, Lifecycle!Allows, Lifecycle!ValidTransitions
      <3>2. QED
        BY <2>1, <3>1
    <2>3. QED
      BY <2>1, <2>2
  <1>7. ASSUME NEW r \in Runs, ServiceStep(r), ~ StoreRun(r) PROVE ledger' = ledger
    BY <1>7 DEF ServiceStep, StartRun, CreateWorktree, AdvanceRun, ServiceFails
  <1>8. QED
    BY <1>3, <1>4, <1>5, <1>6, <1>7 DEF Next, vars

\* What holds at the beginning: the service has done with the runs that await
\* approval.
LEMMA FollowInit == Init => FollowInv /\ Lifecycle!Init
  <1> SUFFICES ASSUME Init PROVE FollowInv /\ Lifecycle!Init
    OBVIOUS
  <1>1. Alone /\ InStep
    BY DEF Init, Alone, InStep, Follows, Served, OneRewrite, Marking, Storing
  <1>2. Before \in [Runs -> Statuses]
    BY StatusesAre DEF Before
  <1>3. QED
    BY <1>1, <1>2 DEF Init, FollowInv, Lifecycle!Init, Statuses, Absent

\* Under one operator at a time, and with any faults and crashes, the ledger
\* implements integration/lifecycle.py until two rewrites of runs.json overlap: no
\* entry changes but along an edge of VALID_TRANSITIONS, although promote_run
\* works for long with the status it has read while the coding service rewrites
\* the file, and every writer writes the entries of all runs.
THEOREM LedgerImplementsLifecycle ==
  ASSUME Serial
  PROVE  Spec => RefinesLifecycle
  <1>1. TypeOK /\ FollowInv /\ [Next]_vars =>
          FollowInv' /\ [raced' \/ Lifecycle!Next]_ledger
    BY FollowPreserved, StepImplements
  <1>2. QED
    BY TypeCorrect, FollowInit, <1>1, PTL DEF Spec, RefinesLifecycle

\* The lifecycle leaves a run that has ended as it is.
LEMMA EndedStays ==
  ASSUME NEW r \in Runs, ledger \in [Runs -> Statuses], ledger[r] \in Terminal,
         [Lifecycle!Next]_ledger
  PROVE  ledger'[r] = ledger[r]
  <1> USE DEF Terminal, Lifecycle!TerminalStates
  <1>1. ASSUME NEW x \in Runs, Lifecycle!Create(x)
        PROVE  ledger'[r] = ledger[r]
    <2>1. x # r
      BY <1>1 DEF Lifecycle!Create, Lifecycle!Absent
    <2>2. QED
      BY <1>1, <2>1 DEF Lifecycle!Create
  <1>2. ASSUME NEW x \in Runs, NEW new \in Lifecycle!States, Lifecycle!Transition(x, new)
        PROVE  ledger'[r] = ledger[r]
    <2>1. x = r => new = ledger[r]
      BY <1>2 DEF Lifecycle!Transition, Lifecycle!Allows
    <2>2. QED
      BY <1>2, <2>1 DEF Lifecycle!Transition
  <1>3. QED
    BY <1>1, <1>2 DEF Lifecycle!Next

\* No status follows applied, rejected or failed before two rewrites overlap.
EndsStay ==
  [][raced' \/ \A r \in Runs : ledger[r] \in Terminal => ledger'[r] = ledger[r]]_ledger

\* Under one operator at a time, whatever fails and whenever a process dies, it
\* takes a rewrite of runs.json that begins while another is under way, one of them
\* the coding service's, to overwrite a terminal status.
THEOREM EndsAreFinal ==
  ASSUME Serial
  PROVE  Spec => EndsStay
  <1>1. TypeOK /\ FollowInv /\ [Next]_vars =>
          /\ FollowInv'
          /\ [raced' \/ \A r \in Runs : ledger[r] \in Terminal => ledger'[r] = ledger[r]]_ledger
    BY FollowPreserved, StepImplements, EndedStays DEF TypeOK, RecordTypes
  <1>2. QED
    BY TypeCorrect, FollowInit, <1>1, PTL DEF Spec, EndsStay

(***************************************************************************)
(* Nothing stays staged.  Nothing fails but what promote_run expects to    *)
(* fail: validation, the application of the patch, and git commit.  What   *)
(* overlapping rewrites make of runs.json does not matter: whatever the    *)
(* status, who has staged something knows that the repository was clean.   *)
(***************************************************************************)

Staged(w) ==
  /\ pc[w] \in {"validate", "lineage"} => Clean
  /\ pc[w] \in {"capture", "apply", "canonical", "commit"} => preClean[w]
  /\ pc[w] \in {"canonical", "commit"} => patched[w]
  /\ pc[w] = "rollback" => index = {} \/ MustRollBack(w)
  /\ pc[w] \notin {"idle", "canonical", "commit", "rollback"} => index = {}

StagedInv == RestLeavesNothingStaged /\ \A w \in Workers : Staged(w)

LEMMA StepKeepsStaged ==
  ASSUME TypeOK, Faults = {}, NEW w \in Workers, Staged(w), HandlerStep(w)
  PROVE  Staged(w)' /\ (pc'[w] = "idle" => index' = {})
  <1> USE DEF Staged, MustRollBack, Clean, Goto, SetStatus, Return, TypeOK, WorkerTypes
  <1>1. CASE LoadRun(w) \/ LoadReject(w) \/ RecordRejection(w)
    BY <1>1 DEF LoadRun, LoadReject, RecordRejection
  <1>2. CASE Preflight(w)
    BY <1>2 DEF Preflight, PreflightPasses
  <1>3. CASE ValidateWorktree(w)
    BY <1>3 DEF ValidateWorktree
  <1>4. CASE ValidateLineage(w)
    <2>1. CASE Return(w)
      BY <1>4, <2>1 DEF ValidateLineage
    <2>2. CASE ~ Return(w)
      <3>1. /\ pc'[w] = "capture" /\ preClean'[w] = Clean /\ Clean /\ UNCHANGED <<index, litter>>
        BY <1>4, <2>2 DEF ValidateLineage
      <3>2. QED
        BY <3>1
    <2>3. QED
      BY <2>1, <2>2
  <1>5. CASE CapturePatch(w) \/ ApplyPatch(w) \/ CommitRefused(w)
    BY <1>5 DEF CapturePatch, ApplyPatch, CommitRefused
  <1>6. CASE SkipCanonicalValidation(w) \/ ValidateCanonical(w)
    BY <1>6 DEF SkipCanonicalValidation, ValidateCanonical
  <1>7. CASE CommitPromotion(w)
    BY <1>7 DEF CommitPromotion
  <1>8. CASE RecordApproval(w) \/ RecordReceipt(w) \/ CleanUpWorktree(w) \/ RecordFailure(w)
    BY <1>8 DEF RecordApproval, RecordReceipt, CleanUpWorktree, RecordFailure
  <1>9. CASE Rollback(w)
    BY <1>9 DEF Rollback
  <1>10. CASE ReadLedger(w)
    BY <1>10 DEF ReadLedger, Unstored, Marking, AfterMark
  <1>11. CASE StoreLedger(w)
    BY <1>11 DEF StoreLedger, Storing
  <1>12. CASE LedgerFault(w)
    BY <1>12 DEF LedgerFault
  <1>13. QED
    BY <1>1, <1>2, <1>3, <1>4, <1>5, <1>6, <1>7, <1>8, <1>9, <1>10, <1>11, <1>12
    DEF HandlerStep, PromoteStep, RejectStep, LedgerStep

LEMMA StagedPreserved ==
  ASSUME Serial, Faults = {}, TypeOK, Alone, StagedInv, [Next]_vars
  PROVE  StagedInv'
  <1>1. ASSUME NEW w \in Workers, HandlerStep(w) PROVE StagedInv'
    <2>1. \A v \in Workers \ {w} : pc'[v] = "idle"
      BY <1>1, StepIsOwn DEF OthersStay, Alone
    <2>2. Staged(w)' /\ (pc'[w] = "idle" => index' = {})
      BY <1>1, StepKeepsStaged DEF StagedInv
    <2>3. QED
      BY <2>1, <2>2 DEF StagedInv, Staged, RestLeavesNothingStaged, AtRest
  <1>2. ASSUME NEW w \in Workers, NEW r \in Runs, Request(w, r) PROVE StagedInv'
    <2>1. /\ index = {} /\ UNCHANGED index
          /\ \A v \in Workers : pc'[v] \in {"idle", "load", "loadReject"}
      BY <1>2, BeginsAlone DEF OthersStay, AtRest, StagedInv, RestLeavesNothingStaged
    <2>2. QED
      BY <2>1 DEF StagedInv, Staged, RestLeavesNothingStaged
  <1>3. ASSUME UNCHANGED <<index, litter, workerVars>> PROVE StagedInv'
    BY <1>3 DEF StagedInv, Staged, MustRollBack, Clean, RestLeavesNothingStaged, AtRest
  <1>4. ASSUME NEW r \in Runs, ServiceStep(r) PROVE StagedInv'
    BY <1>3, <1>4, ServiceStaysAway
  <1>5. ASSUME NEW w \in Workers, Crash(w) PROVE StagedInv'
    BY <1>5 DEF Crash
  <1>6. QED
    BY <1>1, <1>2, <1>3, <1>4, <1>5 DEF Next, vars

\* Under one operator at a time, and whatever overlapping rewrites make of the
\* ledger: between requests nothing is staged in the canonical repository, whether
\* the last promotion succeeded, failed or was refused.
THEOREM NothingStaysStaged ==
  ASSUME Serial, Faults = {}
  PROVE  Spec => []RestLeavesNothingStaged
  <1>1. Init => OwnInv /\ StagedInv
    BY DEF Init, OwnInv, Alone, StagedIsOwn, CommitIsOwnPatch, StagedInv, Staged,
           RestLeavesNothingStaged
  <1>2. TypeOK /\ OwnInv /\ StagedInv /\ [Next]_vars => OwnInv' /\ StagedInv'
    BY OwnPreserved, StagedPreserved DEF OwnInv
  <1>3. StagedInv => RestLeavesNothingStaged
    BY DEF StagedInv
  <1>4. QED
    BY TypeCorrect, <1>1, <1>2, <1>3, PTL DEF Spec

(***************************************************************************)
(* The records agree, until two rewrites of runs.json overlap, under the   *)
(* same assumptions.                                                       *)
(***************************************************************************)

\* What is written of a run that nobody works on.
Settled(r) ==
  /\ receipt[r] = "applied" <=> ledger[r] = "applied"
  /\ receipt[r] = "failed" => ledger[r] = "failed"
  /\ Committed(r) => ledger[r] = "applied"

\* What was validated of a run, in its worktree and in all.
WorktreeOk(r) ==
  \/ Validation[r] = "waived"
  \/ Validation[r] = "configured" /\ artifact[r].worktree = "ok"

Validated(r) ==
  \/ /\ Validation[r] = "configured"
     /\ artifact[r].worktree = "ok"
     /\ artifact[r].canonical = "ok" \/ (SkipCanonical /\ artifact[r].canonical = "skipped")
  \/ /\ Validation[r] = "waived"
     /\ artifact[r].canonical = "skipped"

\* A request, by how far it has come ...
Asked(w) ==
  pc[w] \in {"load", "loadReject", "preflight", "cleanup", "failedReceipt", "recordReject"} =>
    /\ Settled(job[w])
    /\ pc[w] = "failedReceipt" => ledger[job[w]] = "failed"

\* ... a promotion that has passed its preflight ...
Trying(w) ==
  pc[w] \in {"validate", "lineage", "capture", "apply", "canonical", "commit", "rollback"} =>
    /\ Settled(job[w])
    /\ pc[w] \in {"lineage", "capture", "apply", "canonical"} => WorktreeOk(job[w])
    /\ pc[w] = "commit" => Validated(job[w])
    /\ pc[w] = "rollback" => local[w] = "awaiting_approval"

\* ... one that has committed ...
Promoting(w) ==
  pc[w] \in {"approve", "markApplied", "storeApplied", "receipt"} =>
    /\ Committed(job[w]) /\ receipt[job[w]] = "none"
    /\ pc[w] = "receipt" => ledger[job[w]] = "applied"

\* ... and one about to write that the run has failed or is rejected.
Ending(w) ==
  pc[w] \in {"markInvalid", "markFailed", "markRejected",
             "storeInvalid", "storeFailed", "storeRejected"} =>
    /\ ~Committed(job[w]) /\ receipt[job[w]] = "none"
    /\ local[w] =
         IF pc[w] \in {"markRejected", "storeRejected"} THEN "rejected" ELSE "failed"

Phase(w) == Asked(w) /\ Trying(w) /\ Promoting(w) /\ Ending(w)

Busy(r) == \E w \in Workers : pc[w] # "idle" /\ job[w] = r

Phases        == \A w \in Workers : Phase(w)
OthersSettled == \A r \in Runs : Busy(r) \/ Settled(r)
AllValidated  == \A r \in Runs : Committed(r) => Validated(r)

Agree == Phases /\ OthersSettled /\ AllValidated

AgreeInv == raced \/ Agree

\* The control points divided as the invariant divides them.
LEMMA PhasesCover ==
  ASSUME TypeOK, NEW w \in Workers
  PROVE  \/ pc[w] = "idle"
         \/ pc[w] \in {"load", "loadReject", "preflight", "cleanup", "failedReceipt",
                       "recordReject"}
         \/ pc[w] \in {"validate", "lineage", "capture", "apply", "canonical",
                       "commit", "rollback"}
         \/ pc[w] \in {"approve", "markApplied", "storeApplied", "receipt"}
         \/ pc[w] \in {"markInvalid", "markFailed", "markRejected",
                       "storeInvalid", "storeFailed", "storeRejected"}
  BY PCsAre DEF TypeOK, WorkerTypes

\* A run that awaits approval and is settled has no records yet.
LEMMA AwaitingHasNoRecords ==
  ASSUME TypeOK, NEW r \in Runs, Settled(r), ledger[r] = "awaiting_approval"
  PROVE  receipt[r] = "none" /\ ~Committed(r)
  BY DEF TypeOK, RecordTypes, Settled

\* What a commit adds to the runs that are committed.
LEMMA CommitAdds ==
  ASSUME TypeOK, NEW w \in Workers, CommitPromotion(w), NEW x \in Runs
  PROVE  Committed(x)' <=> Committed(x) \/ x = job[w]
  <1>1. /\ Len(history') = Len(history) + 1
        /\ \A i \in 1 .. Len(history) : history'[i] = history[i]
        /\ history'[Len(history) + 1].run = job[w]
        /\ Len(history) \in Nat
    BY DEF CommitPromotion, TypeOK, RepoTypes
  <1>2. QED
    BY <1>1 DEF Committed

\* The other handlers' steps commit nothing.
LEMMA OnlyCommitCommits ==
  ASSUME NEW w \in Workers, HandlerStep(w) \/ Crash(w), ~ CommitPromotion(w)
  PROVE  history' = history
  BY DEF HandlerStep, PromoteStep, RejectStep, LedgerStep, Crash, LoadRun,
     Preflight, ValidateWorktree, ValidateLineage, CapturePatch, ApplyPatch,
     SkipCanonicalValidation, ValidateCanonical, CommitRefused, RecordApproval,
     RecordReceipt, CleanUpWorktree, Rollback, RecordFailure, LoadReject,
     RecordRejection, ReadLedger, StoreLedger, LedgerFault

\* The records of r stay as they are.
RecordsStay(r) ==
  /\ ledger'[r] = ledger[r]
  /\ receipt'[r] = receipt[r] /\ artifact'[r] = artifact[r]
  /\ Committed(r)' <=> Committed(r)

\* A handler writes nothing of other runs, for the copy that it writes back is
\* the ledger as it is.
LEMMA OtherRunsStay ==
  ASSUME TypeOK, NEW w \in Workers, Follows(w), HandlerStep(w), NEW r \in Runs, r # job[w]
  PROVE  RecordsStay(r)
  <1>1. Committed(r)' <=> Committed(r)
    <2>1. CASE CommitPromotion(w)
      BY <2>1, CommitAdds
    <2>2. CASE ~ CommitPromotion(w)
      BY <2>2, OnlyCommitCommits DEF Committed
    <2>3. QED
      BY <2>1, <2>2
  <1>2. ledger'[r] = ledger[r]
    <2>1. CASE StoreLedger(w)
      BY <2>1 DEF StoreLedger, Follows, TypeOK, RecordTypes
    <2>2. CASE ~ StoreLedger(w)
      <3>1. ledger' = ledger
        BY <2>2, OnlyStoreWrites
      <3>2. QED
        BY <3>1
    <2>3. QED
      BY <2>1, <2>2
  <1>3. receipt'[r] = receipt[r] /\ artifact'[r] = artifact[r]
    <2> USE DEF TypeOK, RecordTypes
    <2>1. CASE PromoteStep(w)
      BY <2>1 DEF PromoteStep, LoadRun, Preflight, ValidateWorktree, ValidateLineage,
         CapturePatch, ApplyPatch, SkipCanonicalValidation, ValidateCanonical,
         CommitPromotion, CommitRefused, RecordApproval, RecordReceipt,
         CleanUpWorktree, Rollback, RecordFailure
    <2>2. CASE RejectStep(w) \/ LedgerStep(w)
      BY <2>2 DEF RejectStep, LedgerStep, LoadReject, RecordRejection, ReadLedger,
         StoreLedger, LedgerFault
    <2>3. QED
      BY <2>1, <2>2 DEF HandlerStep
  <1>4. QED
    BY <1>1, <1>2, <1>3 DEF RecordsStay

\* It is enough to look at the worker that moves, and at its run.
LEMMA OneAgrees ==
  ASSUME TypeOK, Alone, InStep, Agree, NEW w \in Workers, HandlerStep(w),
         NEW r \in Runs, r = job[w],
         Phase(w)',
         pc'[w] # "idle" => job'[w] = r,
         pc'[w] = "idle" => Settled(r)',
         Committed(r)' => Validated(r)'
  PROVE  Agree'
  <1>1. /\ pc[w] # "idle"
        /\ \A v \in Workers \ {w} : pc'[v] = pc[v] /\ pc[v] = "idle"
    <2>1. pc[w] # "idle" /\ \A v \in Workers \ {w} : pc'[v] = pc[v]
      BY StepIsOwn DEF OthersStay
    <2>2. QED
      BY <2>1 DEF Alone
  <1>2. \A x \in Runs \ {r} : RecordsStay(x)
    BY OtherRunsStay DEF InStep
  <1>3. Phases'
    BY <1>1 DEF Phases, Phase, Asked, Trying, Promoting, Ending
  <1>4. OthersSettled'
    <2>1. ASSUME NEW x \in Runs, x # r PROVE Settled(x)'
      <3>1. ~Busy(x)
        BY <1>1, <2>1 DEF Busy
      <3>2. Settled(x)
        BY <3>1 DEF Agree, OthersSettled
      <3>3. QED
        BY <1>2, <2>1, <3>2 DEF Settled, RecordsStay
    <2>2. Busy(r)' \/ Settled(r)'
      BY DEF Busy
    <2>3. QED
      BY <2>1, <2>2 DEF OthersSettled
  <1>5. AllValidated'
    <2>1. ASSUME NEW x \in Runs, x # r, Committed(x)' PROVE Validated(x)'
      BY <1>2, <2>1 DEF RecordsStay, Agree, AllValidated, Validated
    <2>2. QED
      BY <2>1 DEF AllValidated
  <1>6. QED
    BY <1>3, <1>4, <1>5 DEF Agree

\* What a step that leaves the records of r and the history as they are may
\* assume about them.
LEMMA SettledStays ==
  ASSUME NEW r \in Runs, RecordsStay(r)
  PROVE  (Settled(r)' <=> Settled(r)) /\ (Validated(r)' <=> Validated(r))
  BY DEF Settled, Validated, RecordsStay

\* Steps that write no records of runs.
LEMMA QuietAgrees ==
  ASSUME TypeOK, Alone, InStep, Agree, Faults = {}, NEW w \in Workers, HandlerStep(w),
         \/ LoadRun(w) \/ Preflight(w) \/ ValidateLineage(w) \/ CapturePatch(w)
         \/ ApplyPatch(w) \/ CommitRefused(w) \/ CleanUpWorktree(w) \/ Rollback(w)
         \/ LoadReject(w) \/ ReadLedger(w) \/ LedgerFault(w)
  PROVE  Agree'
  <1> USE DEF TypeOK, WorkerTypes
  <1>2. PICK r \in Runs : r = job[w]
    BY StepIsOwn
  <1>3. Phase(w) /\ Follows(w)
    BY DEF Agree, Phases, InStep
  <1>4. UNCHANGED <<recordVars, history>>
    BY DEF LoadRun, Preflight, ValidateLineage, CapturePatch, ApplyPatch,
       CommitRefused, CleanUpWorktree, Rollback, LoadReject, ReadLedger, LedgerFault
  <1>5. RecordsStay(r)
    BY <1>4 DEF RecordsStay, Committed
  <1>6. Committed(r)' => Validated(r)'
    BY <1>4, <1>5, SettledStays DEF Agree, AllValidated, Committed, Validated
  <1>7. /\ pc'[w] # "idle" => job'[w] = r
        /\ pc'[w] = "idle" => Settled(r)'
        /\ Phase(w)'
    <2> USE DEF Phase, Asked, Trying, Promoting, Ending, Follows, Marking, Storing, Goto,
        SetStatus, Return
    <2>1. CASE LoadRun(w) \/ LoadReject(w)
      BY <1>2, <1>3, <1>4, <1>5, SettledStays, <2>1
      DEF LoadRun, LoadReject, Settled, Committed
    <2>2. CASE Preflight(w)
      BY <1>2, <1>3, <1>4, <1>5, SettledStays, <2>2
      DEF Preflight, PreflightPasses, Clean, WorktreeOk, ValidationModes, ConstantsAssumption, Settled, Committed
    <2>3. CASE ValidateLineage(w)
      <3>1. /\ Settled(r) /\ WorktreeOk(r)
            /\ ledger[r] = "awaiting_approval" /\ local[w] = "awaiting_approval"
        BY <1>2, <1>3, <2>3 DEF ValidateLineage
      <3>2. CASE pc'[w] = "idle"
        BY <1>5, <2>3, <3>1, <3>2, SettledStays DEF ValidateLineage
      <3>3. CASE pc'[w] # "idle"
        <4>1. pc'[w] = "capture" /\ job' = job /\ local' = local
          BY <2>3, <3>3 DEF ValidateLineage
        <4>2. QED
          BY <1>2, <1>4, <3>1, <4>1 DEF WorktreeOk, Settled, Committed
      <3>4. QED
        BY <3>2, <3>3
    <2>4. CASE CapturePatch(w) \/ ApplyPatch(w) \/ CommitRefused(w)
      BY <1>2, <1>3, <1>4, <1>5, SettledStays, <2>4
      DEF CapturePatch, ApplyPatch, CommitRefused, WorktreeOk, Settled, Committed
    <2>5. CASE CleanUpWorktree(w)
      BY <1>2, <1>3, <1>4, <1>5, SettledStays, <2>5
      DEF CleanUpWorktree
    <2>6. CASE Rollback(w)
      <3>1. receipt[r] = "none" /\ ~Committed(r)
        BY <1>2, <1>3, <2>6, AwaitingHasNoRecords DEF Rollback
      <3>2. pc'[w] = "markFailed" /\ local'[w] = "failed" /\ job' = job
        BY <1>2, <1>3, <2>6, AwaitingMayEnd DEF Rollback
      <3>3. QED
        BY <1>2, <1>3, <1>4, <3>1, <3>2, <2>6 DEF Rollback, Committed
    <2>7. CASE ReadLedger(w)
      BY <1>2, <1>3, <1>4, <1>5, <2>7, StatusesAre DEF ReadLedger, Missing, AfterMark, Committed
    <2>8. CASE LedgerFault(w)
      BY <2>8 DEF LedgerFault
    <2>9. QED
      BY <2>1, <2>2, <2>3, <2>4, <2>5, <2>6, <2>7, <2>8
  <1>8. QED
    BY <1>2, <1>6, <1>7, OneAgrees

\* Steps that write the result of a validation.
LEMMA ValidationAgrees ==
  ASSUME TypeOK, Alone, InStep, Agree, NEW w \in Workers, HandlerStep(w),
         ValidateWorktree(w) \/ SkipCanonicalValidation(w) \/ ValidateCanonical(w)
  PROVE  Agree'
  <1> USE DEF TypeOK, WorkerTypes, RecordTypes
  <1>2. PICK r \in Runs : r = job[w]
    BY StepIsOwn
  <1>3. Phase(w) /\ Follows(w)
    BY DEF Agree, Phases, InStep
  <1>4. UNCHANGED <<ledger, approvals, receipt, index, history>>
    BY DEF ValidateWorktree, SkipCanonicalValidation, ValidateCanonical
  <1>5. /\ Settled(r) /\ ledger[r] = "awaiting_approval"
        /\ receipt[r] = "none" /\ ~Committed(r)
    BY <1>2, <1>3, AwaitingHasNoRecords
    DEF Phase, Trying, Follows, ValidateWorktree, SkipCanonicalValidation, ValidateCanonical
  <1>6. Settled(r)' /\ ~Committed(r)'
    BY <1>4, <1>5 DEF Settled, Committed
  <1>7. /\ pc'[w] # "idle" => job'[w] = r
        /\ Phase(w)'
    <2> USE DEF Phase, Asked, Trying, Promoting, Ending, Follows, Marking, Storing, Goto,
        SetStatus, Return, WorktreeOk, Validated
    <2>1. CASE ValidateWorktree(w)
      <3>1. \/ /\ pc'[w] = "lineage" /\ artifact'[r].worktree = "ok"
               /\ Validation[r] = "configured"
               /\ job' = job /\ local' = local
            \/ pc'[w] = "markInvalid" /\ local'[w] = "failed" /\ job' = job
            \/ pc'[w] = "idle"
        BY <1>2, <2>1 DEF ValidateWorktree
      <3>2. QED
        BY <1>2, <1>4, <1>5, <3>1 DEF Settled, Committed
    <2>2. CASE SkipCanonicalValidation(w)
      BY <1>2, <1>3, <1>4, <1>5, <2>2
      DEF SkipCanonicalValidation, MaySkipCanonical, Settled, Committed
    <2>3. CASE ValidateCanonical(w)
      BY <1>2, <1>3, <1>4, <1>5, <2>3 DEF ValidateCanonical, Settled, Committed
    <2>4. QED
      BY <2>1, <2>2, <2>3
  <1>8. QED
    BY <1>2, <1>6, <1>7, OneAgrees

\* git commit, and the records that follow it.
LEMMA CommitAgrees ==
  ASSUME TypeOK, Alone, InStep, Agree, Faults = {}, NEW w \in Workers, HandlerStep(w),
         CommitPromotion(w)
  PROVE  Agree'
  <1> USE DEF TypeOK, WorkerTypes, RecordTypes
  <1>2. PICK r \in Runs : r = job[w]
    BY StepIsOwn
  <1>3. Phase(w) /\ Follows(w)
    BY DEF Agree, Phases, InStep
  <1>4. /\ Settled(r) /\ Validated(r)
        /\ ledger[r] = "awaiting_approval" /\ local[w] = "awaiting_approval"
    BY <1>2, <1>3 DEF Phase, Trying, Follows, CommitPromotion
  <1>5. receipt[r] = "none"
    BY <1>4, AwaitingHasNoRecords
  <1>6. /\ UNCHANGED recordVars /\ pc'[w] = "approve"
        /\ job' = job /\ local' = local
    BY DEF CommitPromotion, Goto
  <1>7. Committed(r)' /\ Validated(r)'
    BY <1>2, <1>4, <1>6, CommitAdds DEF Validated
  <1>8. Phase(w)'
    BY <1>2, <1>4, <1>5, <1>6, <1>7
    DEF Phase, Asked, Trying, Promoting, Ending, Committed
  <1>9. QED
    BY <1>2, <1>6, <1>7, <1>8, OneAgrees

LEMMA RecordAgrees ==
  ASSUME TypeOK, Alone, InStep, Agree, Faults = {}, NEW w \in Workers, HandlerStep(w),
         RecordApproval(w) \/ RecordReceipt(w) \/ RecordFailure(w) \/ RecordRejection(w)
  PROVE  Agree'
  <1> USE DEF TypeOK, WorkerTypes, RecordTypes
  <1>2. PICK r \in Runs : r = job[w]
    BY StepIsOwn
  <1>3. Phase(w) /\ Follows(w)
    BY DEF Agree, Phases, InStep
  <1>4. UNCHANGED <<ledger, artifact, index, history>>
    BY DEF RecordApproval, RecordReceipt, RecordFailure, RecordRejection
  <1>5. (Committed(r)' <=> Committed(r)) /\ (Validated(r)' <=> Validated(r))
    BY <1>4 DEF Committed, Validated
  <1>6. /\ Committed(r)' => Validated(r)'
        /\ Settled(r) /\ ledger[r] = "awaiting_approval" =>
             receipt[r] = "none" /\ ~Committed(r)
    BY <1>5, AwaitingHasNoRecords DEF Agree, AllValidated
  <1>7. /\ pc'[w] # "idle" => job'[w] = r
        /\ pc'[w] = "idle" => Settled(r)'
        /\ Phase(w)'
    <2> USE DEF Phase, Asked, Trying, Promoting, Ending, Follows, Marking, Storing, Goto,
        SetStatus, Return, Settled, Committed
    <2>1. CASE RecordApproval(w)
      BY <1>2, <1>3, <1>4, <2>1 DEF RecordApproval
    <2>2. CASE RecordReceipt(w)
      BY <1>2, <1>3, <1>4, <2>2 DEF RecordReceipt
    <2>3. CASE RecordFailure(w)
      BY <1>2, <1>3, <1>4, <2>3 DEF RecordFailure
    <2>4. CASE RecordRejection(w)
      <3>1. /\ Settled(r) /\ UNCHANGED receipt
            /\ local[w] \in {"awaiting_approval", "rejected"}
            /\ local[w] = "awaiting_approval" => ledger[r] = "awaiting_approval"
        BY <1>2, <1>3, <2>4 DEF RecordRejection
      <3>2. CASE local[w] = "rejected"
        <4>1. pc'[w] = "idle"
          BY <2>4, <3>2 DEF RecordRejection
        <4>2. QED
          BY <1>4, <3>1, <4>1
      <3>3. CASE local[w] = "awaiting_approval"
        <4>1. pc'[w] = "markRejected" /\ local'[w] = "rejected" /\ job' = job
          BY <2>4, <3>3 DEF RecordRejection
        <4>2. receipt[r] = "none" /\ ~Committed(r)
          BY <1>6, <3>1, <3>3
        <4>3. receipt'[r] = "none" /\ ~Committed(job[w])'
          BY <1>2, <1>4, <3>1, <4>1, <4>2
        <4>4. QED
          BY <1>2, <4>1, <4>3
      <3>4. QED
        BY <3>1, <3>2, <3>3
    <2>5. QED
      BY <2>1, <2>2, <2>3, <2>4
  <1>8. QED
    BY <1>2, <1>6, <1>7, OneAgrees

\* The second half of _replace_run.
LEMMA StoreAgrees ==
  ASSUME TypeOK, Alone, InStep, Agree, NEW w \in Workers, HandlerStep(w), StoreLedger(w)
  PROVE  Agree'
  <1> USE DEF TypeOK, WorkerTypes, RecordTypes
  <1>2. PICK r \in Runs : r = job[w]
    BY StepIsOwn
  <1>3. Phase(w) /\ Follows(w)
    BY DEF Agree, Phases, InStep
  <1>4. UNCHANGED <<approvals, receipt, artifact, index, history>> /\ ledger'[r] = local[w]
    BY <1>2 DEF StoreLedger
  <1>5. (Committed(r)' <=> Committed(r)) /\ (Validated(r)' <=> Validated(r))
    BY <1>4 DEF Committed, Validated
  <1>6. Committed(r)' => Validated(r)'
    BY <1>5 DEF Agree, AllValidated
  <1>7. /\ pc'[w] # "idle" => job'[w] = r
        /\ pc'[w] = "idle" => Settled(r)'
        /\ Phase(w)'
    <2> USE DEF Phase, Asked, Trying, Promoting, Ending, Follows, Marking, Storing, Goto,
        Return, Settled, Committed
    <2>1. CASE pc[w] = "storeApplied"
      BY <1>2, <1>3, <1>4, <2>1 DEF StoreLedger
    <2>2. CASE pc[w] = "storeFailed"
      BY <1>2, <1>3, <1>4, <2>2 DEF StoreLedger
    <2>3. CASE pc[w] \in {"storeInvalid", "storeRejected"}
      <3>1. /\ ~Committed(r) /\ receipt[r] = "none"
            /\ local[w] = IF pc[w] = "storeRejected" THEN "rejected" ELSE "failed"
        BY <1>2, <1>3, <2>3
      <3>2. pc'[w] = "idle"
        BY <2>3 DEF StoreLedger
      <3>3. QED
        BY <1>4, <2>3, <3>1, <3>2
    <2>4. QED
      BY <2>1, <2>2, <2>3 DEF StoreLedger
  <1>8. QED
    BY <1>2, <1>6, <1>7, OneAgrees

LEMMA AgreePreserved ==
  ASSUME Serial, Faults = {}, TypeOK, Alone, InStep, Agree, [Next]_vars
  PROVE  Agree'
  <1>1. ASSUME NEW w \in Workers, HandlerStep(w) PROVE Agree'
    BY <1>1, QuietAgrees, ValidationAgrees, CommitAgrees, RecordAgrees, StoreAgrees
    DEF HandlerStep, PromoteStep, RejectStep, LedgerStep
  <1>2. ASSUME NEW w \in Workers, Crash(w) PROVE Agree'
    BY <1>2 DEF Crash
  <1>3. ASSUME NEW w \in Workers, NEW r \in Runs, Request(w, r) PROVE Agree'
    <2>1. /\ AtRest /\ OthersStay(w)
          /\ pc'[w] \in {"load", "loadReject"} /\ job'[w] = r
          /\ UNCHANGED <<recordVars, repoVars>>
      BY <1>3, BeginsAlone
    <2>2. \A x \in Runs : Settled(x)
      BY <2>1 DEF AtRest, Agree, OthersSettled, Busy
    <2>3. \A x \in Runs : Settled(x)'
      BY <2>1, <2>2 DEF Settled, Committed
    <2>4. Phases'
      <3>1. Phase(w)'
        BY <2>1, <2>3 DEF Phase, Asked, Trying, Promoting, Ending
      <3>2. ASSUME NEW v \in Workers \ {w} PROVE Phase(v)'
        <4>1. pc'[v] = "idle"
          BY <2>1 DEF AtRest, OthersStay
        <4>2. QED
          BY <4>1 DEF Phase, Asked, Trying, Promoting, Ending
      <3>3. QED
        BY <3>1, <3>2 DEF Phases
    <2>5. OthersSettled'
      BY <2>3 DEF OthersSettled
    <2>6. AllValidated'
      BY <2>1 DEF Agree, AllValidated, Validated, Committed
    <2>7. QED
      BY <2>4, <2>5, <2>6 DEF Agree
  <1>4. ASSUME NEW r \in Runs, ServiceStep(r) PROVE Agree'
    <2>1. UNCHANGED <<receipt, artifact, history, workerVars>>
      BY <1>4, ServiceStaysAway
    <2>2. \A x \in Runs :
            \/ ledger'[x] = ledger[x]
            \/ ledger[x] \notin Terminal /\ ledger'[x] # "applied"
      <3>1. CASE StoreRun(r)
        BY <3>1, ServiceWrites DEF InStep, Terminal, Lifecycle!TerminalStates
      <3>2. CASE ~ StoreRun(r)
        BY <1>4, <3>2 DEF ServiceStep, StartRun, CreateWorktree, AdvanceRun, ServiceFails
      <3>3. QED
        BY <3>1, <3>2
    <2>3. ASSUME NEW x \in Runs, Settled(x) PROVE Settled(x)'
      BY <2>1, <2>2, <2>3 DEF Settled, Committed, Terminal, Lifecycle!TerminalStates
    <2>4. Phases'
      <3> SUFFICES ASSUME NEW w \in Workers PROVE Phase(w)'
        BY DEF Phases
      <3>1. Phase(w)
        BY DEF Agree, Phases
      <3>2. /\ pc[w] # "idle" => job[w] \in Runs
            /\ ledger[job[w]] \in Terminal /\ pc[w] # "idle" => ledger'[job[w]] = ledger[job[w]]
        BY <2>2 DEF TypeOK, WorkerTypes
      <3>3. QED
        BY <2>1, <2>3, <3>1, <3>2
        DEF Phase, Asked, Trying, Promoting, Ending, WorktreeOk, Validated, Committed,
            Terminal, Lifecycle!TerminalStates
    <2>5. OthersSettled'
      BY <2>1, <2>3 DEF OthersSettled, Agree, Busy
    <2>6. AllValidated'
      BY <2>1 DEF Agree, AllValidated, Validated, Committed
    <2>7. QED
      BY <2>4, <2>5, <2>6 DEF Agree
  <1>5. CASE UNCHANGED vars
    BY <1>5
    DEF vars, Agree, Phases, Phase, Asked, Trying, Promoting, Ending, OthersSettled, Busy,
        Settled, AllValidated, WorktreeOk, Validated, Committed
  <1>6. QED
    BY <1>1, <1>2, <1>3, <1>4, <1>5 DEF Next

LEMMA AgreeInit == Init => Agree
  <1> SUFFICES ASSUME Init PROVE Agree
    OBVIOUS
  <1>1. Phases
    BY DEF Init, Phases, Phase, Asked, Trying, Promoting, Ending
  <1>2. \A r \in Runs : ~Committed(r)
    <2>1. history = <<>> /\ Len(<<>>) = 0
      BY DEF Init
    <2>2. QED
      BY <2>1 DEF Committed
  <1>3. OthersSettled /\ AllValidated
    BY <1>2, StatusesAre DEF Init, Before, OthersSettled, AllValidated, Settled
  <1>4. QED
    BY <1>1, <1>3 DEF Agree

\* What the theorems below are read from.
LEMMA AgreeHolds ==
  ASSUME Serial, Faults = {}
  PROVE  Spec => [](TypeOK /\ OwnInv /\ FollowInv /\ AgreeInv)
  <1>1. Init => OwnInv /\ FollowInv /\ AgreeInv
    BY AgreeInit, FollowInit DEF Init, OwnInv, Alone, StagedIsOwn, CommitIsOwnPatch, AgreeInv
  <1>2. TypeOK /\ FollowInv /\ AgreeInv /\ [Next]_vars => AgreeInv'
    BY AgreePreserved, RacedStays DEF FollowInv, AgreeInv
  <1>3. QED
    BY TypeCorrect, OwnPreserved, FollowPreserved, <1>1, <1>2, PTL DEF Spec

\* At rest every run is settled.
LEMMA RestSettles ==
  ASSUME Agree, AtRest, NEW r \in Runs
  PROVE  Settled(r)
  BY DEF Agree, OthersSettled, Busy, AtRest

\* Between requests, and until two rewrites of runs.json overlap, the receipt of a
\* run tells what the ledger tells, as the idempotent path of promote_run expects.
THEOREM ReceiptsMatch ==
  ASSUME Serial, Faults = {}
  PROVE  Spec => []ReceiptMatchesLedger
  <1>1. AgreeInv => ReceiptMatchesLedger
    BY RestSettles DEF AgreeInv, ReceiptMatchesLedger, Settled
  <1>2. QED
    BY AgreeHolds, <1>1, PTL

\* What the three sources say where _validation_settings finds commands, or finds
\* neither commands nor stages and is told to do without.
LEMMA ValidationSays ==
  ASSUME NEW r \in Runs
  PROVE  /\ Validation[r] = "configured" =>
              Settings[r].commands \/ "full" \in {Settings[r].stages, Profile.stages}
         /\ Validation[r] = "waived" =>
              /\ ~Settings[r].commands /\ Settings[r].stages = "none"
              /\ Settings[r].preferred \/ Profile.stages = "none"
              /\ \/ Settings[r].waived \/ NoValidationOK
                 \/ Profile.waived /\ ~Settings[r].preferred
  BY ConstantsAssumption
  DEF Validation, ValidationMode, StagesOf, Waived, SettingsType, ProfileType, StageLists

\* What promote_run commits has passed the validation that metadata, profile and
\* flags ask for, until two rewrites of runs.json overlap.
THEOREM CommitsAreValidated ==
  ASSUME Serial, Faults = {}
  PROVE  Spec => []CommitWasValidated
  <1>1. AgreeInv => CommitWasValidated
    BY ValidationSays DEF AgreeInv, Agree, AllValidated, Validated, CommitWasValidated
  <1>2. QED
    BY AgreeHolds, <1>1, PTL

\* A run that ends as failed or rejected has left nothing in the canonical
\* repository (docs/failure_modes.md, docs/approval_flow.md), until two rewrites of
\* runs.json overlap.
THEOREM FailuresLeaveTrunk ==
  ASSUME Serial, Faults = {}
  PROVE  Spec => []FailureLeavesTrunk
  <1>1. ASSUME TypeOK, InStep, Agree,
               NEW r \in Runs, ledger[r] \in {"failed", "rejected"}
        PROVE  ~Committed(r)
    <2>1. CASE Settled(r)
      BY <1>1, <2>1 DEF Settled
    <2>2. CASE ~Settled(r)
      <3>1. PICK w \in Workers : pc[w] # "idle" /\ job[w] = r
        BY <1>1, <2>2 DEF Agree, OthersSettled, Busy
      <3>2. Phase(w) /\ Follows(w)
        BY <1>1 DEF Agree, Phases, InStep
      <3>3. QED
        BY <1>1, <2>2, <3>1, <3>2, PhasesCover 
           DEF Phase, Asked, Trying, Promoting, Ending, Follows, Marking, Storing
    <2>3. QED
      BY <2>1, <2>2
  <1>2. TypeOK /\ OwnInv /\ FollowInv /\ AgreeInv => FailureLeavesTrunk
    <2>1. ASSUME TypeOK, OwnInv, InStep, Agree,
                 NEW r \in Runs, ledger[r] \in {"failed", "rejected"},
                 NEW i \in 1 .. Len(history)
          PROVE  history[i].content \cap ({r} \X Kinds) = {}
      <3>1. history[i].run # r
        BY <1>1, <2>1 DEF Committed
      <3>2. history[i].content = {history[i].run} \X (Change[history[i].run] \cap {"edited"})
        BY <2>1 DEF OwnInv, CommitIsOwnPatch, Patch
      <3>3. QED
        BY <3>1, <3>2
    <2>2. QED
      BY <2>1 DEF FailureLeavesTrunk, Trunk, FollowInv, AgreeInv
  <1>3. QED
    BY AgreeHolds, <1>2, PTL
=============================================================================
