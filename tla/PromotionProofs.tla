-------------------------- MODULE PromotionProofs --------------------------
(***************************************************************************)
(* What holds of Promotion for all runs, all workers, all faults and all   *)
(* configurations of validation, proved with TLAPS.                        *)
(***************************************************************************)
EXTENDS Promotion, TLAPS

\* The definitions that only name things.
USE DEF Fault, recordVars, repoVars, workerVars, serviceVars

(***************************************************************************)
(* Types.                                                                  *)
(***************************************************************************)

\* Every status the ledger or a run dict can hold, written out.
LEMMA StatusesAre ==
  /\ Absent = "absent"
  /\ Statuses = {"absent", "created", "retrieving", "proposing", "validating",
                 "awaiting_approval", "applied", "rejected", "failed"}
  /\ NoCopy \in [Runs -> Statuses]
  BY DEF Absent, Statuses, NoCopy, Lifecycle!Absent, Lifecycle!States,
         Lifecycle!TerminalStates

\* The control points written out.
LEMMA PCsAre ==
  PCs = {"idle", "load", "preflight", "validate", "lineage", "capture", "apply",
         "canonical", "commit", "approve", "receipt", "cleanup", "rollback",
         "failedReceipt", "loadReject", "recordReject",
         "markInvalid", "markApplied", "markFailed", "markRejected",
         "storeInvalid", "storeApplied", "storeFailed", "storeRejected"}
  BY DEF PCs, Marking, Storing

\* _replace_run reads before it writes.
LEMMA AfterMarkIsStoring == \A c \in Marking : AfterMark[c] \in Storing
  BY DEF Marking, Storing, AfterMark

\* A step of a worker that only moves it on keeps the types of its variables.
LEMMA GotoType ==
  ASSUME WorkerTypes, NEW w \in Workers, NEW to \in PCs, pc[w] # "idle", Goto(w, to)
  PROVE  WorkerTypes'
  BY DEF WorkerTypes, Goto

\* So does a step that sets the status in its run dict.
LEMMA SetStatusType ==
  ASSUME WorkerTypes, NEW w \in Workers, NEW status \in Statuses, NEW to \in PCs,
         pc[w] # "idle", SetStatus(w, status, to)
  PROVE  WorkerTypes'
  BY DEF WorkerTypes, SetStatus

\* And so does the end of a request.
LEMMA ReturnType ==
  ASSUME WorkerTypes, NEW w \in Workers, Return(w)
  PROVE  WorkerTypes'
  BY StatusesAre, PCsAre DEF WorkerTypes, Return

LEMMA TypeInit == Init => TypeOK
  <1> SUFFICES ASSUME Init PROVE TypeOK
    OBVIOUS
  <1>1. Before \in [Runs -> Statuses]
    BY StatusesAre DEF Before
  <1>2. RecordTypes
    BY <1>1 DEF Init, RecordTypes
  <1>3. RepoTypes
    <2>1. <<>> \in Seq([run : Runs, content : SUBSET Changes])
      OBVIOUS
    <2>2. [r \in Runs |-> r \in Awaiting] \in [Runs -> BOOLEAN]
      OBVIOUS
    <2>3. worktree \in [Runs -> BOOLEAN]
      BY <2>2, Zenon DEF Init
    <2>4. QED
      BY <2>1, <2>3 DEF Init, RepoTypes
  <1>4. WorkerTypes
    BY StatusesAre, PCsAre DEF Init, WorkerTypes
  <1>5. ServiceTypes
    BY <1>1, StatusesAre DEF Init, ServiceTypes
  <1>6. QED
    BY <1>2, <1>3, <1>4, <1>5 DEF TypeOK

\* What stays boolean.
LEMMA WatchType ==
  ASSUME raced \in BOOLEAN, NEW begins, Watch(begins)
  PROVE  raced' \in BOOLEAN
  BY DEF Watch

\* An upsert begins.
LEMMA UpsertType ==
  ASSUME TypeOK, NEW r \in Runs, NEW status \in Statuses, Upsert(r, status)
  PROVE  ServiceTypes'
  <1>1. raced' \in BOOLEAN
    BY DEF Upsert, Watch, TypeOK, ServiceTypes
  <1>2. QED
    BY <1>1 DEF Upsert, TypeOK, ServiceTypes, RecordTypes

\* The steps of the coding service.
LEMMA TypeService ==
  ASSUME TypeOK, NEW r \in Runs, ServiceStep(r)
  PROVE  TypeOK'
  <1> USE DEF TypeOK
  <1>1. CASE StartRun(r) \/ AdvanceRun(r)
    <2>1. ServiceTypes'
      BY <1>1, UpsertType, StatusesAre DEF StartRun, AdvanceRun, ServiceMoves
    <2>2. RecordTypes' /\ RepoTypes' /\ WorkerTypes'
      BY <1>1 DEF StartRun, AdvanceRun, RecordTypes, RepoTypes, WorkerTypes
    <2>3. QED
      BY <2>1, <2>2
  <1>2. CASE CreateWorktree(r)
    <2>1. Len(history) \in Nat
      BY DEF RepoTypes
    <2>2. RepoTypes'
      BY <1>2, <2>1 DEF CreateWorktree, RepoTypes
    <2>3. QED
      BY <1>2, <2>2 DEF CreateWorktree, RecordTypes, WorkerTypes, ServiceTypes
  <1>3. CASE StoreRun(r)
    <2>1. RecordTypes' /\ ServiceTypes'
      BY <1>3, StatusesAre DEF StoreRun, RecordTypes, ServiceTypes
    <2>2. QED
      BY <1>3, <2>1 DEF StoreRun, RepoTypes, WorkerTypes
  <1>4. CASE ServiceFails(r)
    <2>1. ServiceTypes'
      BY <1>4, StatusesAre DEF ServiceFails, ServiceTypes
    <2>2. QED
      BY <1>4, <2>1 DEF ServiceFails, RecordTypes, RepoTypes, WorkerTypes
  <1>5. QED
    BY <1>1, <1>2, <1>3, <1>4 DEF ServiceStep

\* The arrival of a request.
LEMMA TypeRequest ==
  ASSUME TypeOK, NEW w \in Workers, NEW r \in Runs, Request(w, r)
  PROVE  TypeOK'
  <1>1. PICK to \in {"load", "loadReject"} : Begin(w, r, to)
    BY DEF Request, ApproveEndpoint, RejectEndpoint, CommandLine
  <1>2. RecordTypes' /\ RepoTypes'
    BY <1>1 DEF Begin, TypeOK, RecordTypes, RepoTypes
  <1>3. WorkerTypes'
    BY <1>1, PCsAre DEF Begin, TypeOK, WorkerTypes
  <1>4. QED
    BY <1>2, <1>3 DEF TypeOK, Request, ServiceTypes

\* The steps of promote_run.
LEMMA TypePromote ==
  ASSUME TypeOK, NEW w \in Workers, PromoteStep(w)
  PROVE  RecordTypes' /\ RepoTypes' /\ WorkerTypes'
  <1> USE DEF TypeOK
  <1>0. pc[w] # "idle" => job[w] \in Runs
    BY DEF WorkerTypes
  <1>1. CASE LoadRun(w)
    <2>1. pc[w] # "idle" /\ ledger[job[w]] \in Statuses
      BY <1>1, <1>0 DEF LoadRun, RecordTypes
    <2>2. WorkerTypes'
      BY <1>1, <2>1, PCsAre, SetStatusType, ReturnType DEF LoadRun
    <2>3. QED
      BY <1>1, <2>2 DEF LoadRun, RecordTypes, RepoTypes
  <1>2. CASE Preflight(w)
    <2>1. WorkerTypes'
      BY <1>2, PCsAre, GotoType, ReturnType DEF Preflight
    <2>2. QED
      BY <1>2, <2>1 DEF Preflight, RecordTypes, RepoTypes
  <1>3. CASE ValidateWorktree(w)
    <2>1. WorkerTypes'
      BY <1>3, PCsAre, StatusesAre, GotoType, SetStatusType, ReturnType DEF ValidateWorktree
    <2>2. RecordTypes'
      BY <1>3, <1>0 DEF ValidateWorktree, RecordTypes
    <2>3. QED
      BY <1>3, <2>1, <2>2 DEF ValidateWorktree, RepoTypes
  <1>4. CASE ValidateLineage(w)
    <2>1. Clean \in BOOLEAN
      BY DEF Clean, RepoTypes
    <2>2. WorkerTypes'
      BY <1>4, <2>1, PCsAre, ReturnType DEF ValidateLineage, WorkerTypes
    <2>3. QED
      BY <1>4, <2>2 DEF ValidateLineage, RecordTypes, RepoTypes
  <1>5. CASE CapturePatch(w)
    <2>1. WorkerTypes'
      BY <1>5, PCsAre, GotoType DEF CapturePatch
    <2>2. QED
      BY <1>5, <2>1 DEF CapturePatch, RecordTypes, RepoTypes
  <1>6. CASE ApplyPatch(w)
    <2>1. Patch(job[w]) \subseteq Changes
      BY <1>6, <1>0 DEF ApplyPatch, Patch, Changes, Kinds
    <2>2. WorkerTypes'
      BY <1>6, PCsAre, GotoType DEF ApplyPatch, WorkerTypes
    <2>3. QED
      BY <1>6, <2>1, <2>2 DEF ApplyPatch, RecordTypes, RepoTypes
  <1>7. CASE SkipCanonicalValidation(w)
    <2>1. WorkerTypes'
      BY <1>7, PCsAre, GotoType DEF SkipCanonicalValidation
    <2>2. RecordTypes'
      BY <1>7, <1>0 DEF SkipCanonicalValidation, RecordTypes
    <2>3. QED
      BY <1>7, <2>1, <2>2 DEF SkipCanonicalValidation, RepoTypes
  <1>8. CASE ValidateCanonical(w)
    <2>1. WorkerTypes'
      <3>1. pc[w] = "canonical" /\ (Goto(w, "commit") \/ Goto(w, "rollback"))
        BY <1>8 DEF ValidateCanonical
      <3>2. QED
        BY <3>1, PCsAre, GotoType
    <2>2. RecordTypes'
      <3>1. /\ UNCHANGED <<ledger, approvals, receipt>>
            /\ \/ artifact' = [artifact EXCEPT ![job[w]].canonical = "ok"]
               \/ artifact' = [artifact EXCEPT ![job[w]].canonical = "failed"]
               \/ UNCHANGED artifact
        BY <1>8 DEF ValidateCanonical
      <3>2. QED
        BY <1>0, <3>1 DEF RecordTypes
    <2>3. RepoTypes'
      <3>1. litter' \in BOOLEAN /\ UNCHANGED <<history, index, worktree, base>>
        BY <1>8 DEF ValidateCanonical, RepoTypes
      <3>2. QED
        BY <3>1 DEF RepoTypes
    <2>4. QED
      BY <2>1, <2>2, <2>3
  <1>9. CASE CommitPromotion(w)
    <2>1. WorkerTypes'
      BY <1>9, PCsAre, GotoType DEF CommitPromotion
    <2>2. [run |-> job[w], content |-> index] \in [run : Runs, content : SUBSET Changes]
      BY <1>9, <1>0 DEF CommitPromotion, RepoTypes
    <2>3. RepoTypes'
      BY <1>9, <2>2 DEF CommitPromotion, RepoTypes
    <2>4. QED
      BY <1>9, <2>1, <2>3 DEF CommitPromotion, RecordTypes
  <1>10. CASE CommitRefused(w)
    <2>1. WorkerTypes'
      BY <1>10, PCsAre, GotoType DEF CommitRefused
    <2>2. QED
      BY <1>10, <2>1 DEF CommitRefused, RecordTypes, RepoTypes
  <1>11. CASE RecordApproval(w)
    <2>1. WorkerTypes'
      BY <1>11, PCsAre, StatusesAre, GotoType, SetStatusType DEF RecordApproval
    <2>2. RecordTypes'
      BY <1>11, <1>0 DEF RecordApproval, RecordTypes, Decisions
    <2>3. QED
      BY <1>11, <2>1, <2>2 DEF RecordApproval, RepoTypes
  <1>12. CASE RecordReceipt(w)
    <2>1. WorkerTypes'
      BY <1>12, PCsAre, GotoType DEF RecordReceipt
    <2>2. RecordTypes'
      BY <1>12, <1>0 DEF RecordReceipt, RecordTypes
    <2>3. QED
      BY <1>12, <2>1, <2>2 DEF RecordReceipt, RepoTypes
  <1>13. CASE CleanUpWorktree(w)
    <2>1. WorkerTypes'
      BY <1>13, PCsAre, GotoType, ReturnType DEF CleanUpWorktree
    <2>2. RepoTypes'
      BY <1>13, <1>0 DEF CleanUpWorktree, RepoTypes
    <2>3. QED
      BY <1>13, <2>1, <2>2 DEF CleanUpWorktree, RecordTypes
  <1>14. CASE Rollback(w)
    <2>1. WorkerTypes'
      BY <1>14, PCsAre, StatusesAre, SetStatusType, ReturnType DEF Rollback
    <2>2. RepoTypes'
      BY <1>14 DEF Rollback, RepoTypes
    <2>3. QED
      BY <1>14, <2>1, <2>2 DEF Rollback, RecordTypes
  <1>15. CASE RecordFailure(w)
    <2>1. WorkerTypes'
      BY <1>15, ReturnType DEF RecordFailure
    <2>2. RecordTypes'
      BY <1>15, <1>0 DEF RecordFailure, RecordTypes
    <2>3. QED
      BY <1>15, <2>1, <2>2 DEF RecordFailure, RepoTypes
  <1>16. QED
    BY <1>1, <1>2, <1>3, <1>4, <1>5, <1>6, <1>7, <1>8, <1>9, <1>10, <1>11,
       <1>12, <1>13, <1>14, <1>15 DEF PromoteStep

\* The steps of reject_run, of _replace_run, and a crash.
LEMMA TypeOther ==
  ASSUME TypeOK, NEW w \in Workers, RejectStep(w) \/ LedgerStep(w) \/ Crash(w)
  PROVE  RecordTypes' /\ RepoTypes' /\ WorkerTypes'
  <1> USE DEF TypeOK
  <1>0. pc[w] # "idle" => job[w] \in Runs
    BY DEF WorkerTypes
  <1>1. CASE LoadReject(w)
    <2>1. pc[w] # "idle" /\ ledger[job[w]] \in Statuses
      BY <1>1, <1>0 DEF LoadReject, RecordTypes
    <2>2. WorkerTypes'
      BY <1>1, <2>1, PCsAre, SetStatusType, ReturnType DEF LoadReject
    <2>3. QED
      BY <1>1, <2>2 DEF LoadReject, RecordTypes, RepoTypes
  <1>2. CASE RecordRejection(w)
    <2>1. WorkerTypes'
      BY <1>2, PCsAre, StatusesAre, SetStatusType, ReturnType DEF RecordRejection
    <2>2. RecordTypes'
      BY <1>2, <1>0 DEF RecordRejection, RecordTypes, Decisions
    <2>3. QED
      BY <1>2, <2>1, <2>2 DEF RecordRejection, RepoTypes
  <1>3. CASE ReadLedger(w)
    <2>1. pc[w] # "idle" /\ AfterMark[pc[w]] \in PCs
      BY <1>3, AfterMarkIsStoring DEF ReadLedger, PCs, Marking
    <2>2. CASE Missing(w)
      BY <1>3, <2>1, <2>2, PCsAre, GotoType, ReturnType
      DEF ReadLedger, Unstored, RecordTypes, RepoTypes
    <2>3. CASE ~Missing(w)
      <3> DEFINE to == AfterMark[pc[w]]
      <3>1. /\ copy' = [copy EXCEPT ![w] = ledger] /\ pc' = [pc EXCEPT ![w] = to]
            /\ UNCHANGED <<job, local, preClean, patched>>
        BY <1>3, <2>3 DEF ReadLedger
      <3>2. ledger \in [Runs -> Statuses] /\ to \in PCs
        BY <2>1 DEF RecordTypes
      <3> HIDE DEF to
      <3>3. WorkerTypes'
        BY <2>1, <3>1, <3>2 DEF WorkerTypes
      <3>4. QED
        BY <1>3, <3>3 DEF ReadLedger, RecordTypes, RepoTypes
    <2>4. QED
      BY <2>2, <2>3
  <1>4. CASE StoreLedger(w)
    <2>1. pc[w] # "idle"
      BY <1>4 DEF StoreLedger, Storing
    <2>2. WorkerTypes'
      BY <1>4, <2>1, PCsAre, GotoType, ReturnType DEF StoreLedger
    <2>3. RecordTypes'
      BY <1>4, <2>1, <1>0 DEF StoreLedger, RecordTypes, WorkerTypes
    <2>4. QED
      BY <1>4, <2>2, <2>3 DEF StoreLedger, RepoTypes
  <1>5. CASE LedgerFault(w)
    <2>1. pc[w] # "idle"
      BY <1>5 DEF LedgerFault, Marking, Storing
    <2>2. WorkerTypes'
      BY <1>5, <2>1, PCsAre, GotoType, ReturnType DEF LedgerFault, Unstored
    <2>3. QED
      BY <1>5, <2>2 DEF LedgerFault, RecordTypes, RepoTypes
  <1>6. CASE Crash(w)
    <2>1. WorkerTypes'
      BY <1>6, ReturnType DEF Crash
    <2>2. QED
      BY <1>6, <2>1 DEF Crash, RecordTypes, RepoTypes
  <1>7. QED
    BY <1>1, <1>2, <1>3, <1>4, <1>5, <1>6 DEF RejectStep, LedgerStep

\* Every variable keeps its type, for every number of runs and workers and
\* whatever faults occur.
THEOREM TypeCorrect == Spec => []TypeOK
  <1>1. TypeOK /\ [Next]_vars => TypeOK'
    <2> SUFFICES ASSUME TypeOK, [Next]_vars PROVE TypeOK'
      OBVIOUS
    <2>1. ASSUME NEW w \in Workers, HandlerStep(w) \/ Crash(w) PROVE TypeOK'
      <3>1. RecordTypes' /\ RepoTypes' /\ WorkerTypes'
        BY <2>1, TypePromote, TypeOther DEF HandlerStep
      <3>2. UNCHANGED serviceVars /\ raced' \in BOOLEAN
        BY <2>1, WatchType DEF HandlerStep, Crash, TypeOK, ServiceTypes
      <3>3. QED
        BY <3>1, <3>2 DEF TypeOK, ServiceTypes
    <2>2. CASE Next
      BY <2>1, <2>2, TypeService, TypeRequest DEF Next
    <2>3. CASE UNCHANGED vars
      BY <2>3 DEF vars, TypeOK, RecordTypes, RepoTypes, WorkerTypes, ServiceTypes
    <2>4. QED
      BY <2>2, <2>3
  <1>2. QED
    BY TypeInit, <1>1, PTL DEF Spec

(***************************************************************************)
(* Every decision on record has its evidence.  The status of a run travels *)
(* from the ledger to run dicts and copies of the ledger and back, and a   *)
(* worker may write back a copy of any age.  What makes that harmless is   *)
(* that commits and approvals are never taken back: a status that has its  *)
(* evidence when it is read has it when it is written.                     *)
(***************************************************************************)

\* A status of r that has its evidence.
Backed(r, status) ==
  /\ status = "applied"  => Committed(r) /\ "approved" \in approvals[r]
  /\ status = "rejected" => "rejected" \in approvals[r]

LedgerBacked == \A r \in Runs : Backed(r, ledger[r])
CopiesBacked == \A w \in Workers, r \in Runs : Backed(r, copy[w][r])
LocalsBacked == \A w \in Workers :
  pc[w] \notin {"idle", "load", "loadReject"} => Backed(job[w], local[w])
ApprovingCommitted == \A w \in Workers : pc[w] = "approve" => Committed(job[w])


\* The service decides nothing by itself, and what it has read has its evidence.
ServiceBacked == \A r \in Runs :
  /\ record[r] \notin {"applied", "rejected"}
  /\ \A x \in Runs : Backed(x, items[r][x])

EvidenceInv ==
  LedgerBacked /\ ServiceBacked /\ CopiesBacked /\ LocalsBacked /\ ApprovingCommitted

\* Commits and approvals are never taken back.
EvidenceGrows == \A r \in Runs :
  /\ Committed(r) => Committed(r)'
  /\ approvals[r] \subseteq approvals'[r]

LEMMA EvidenceStays ==
  ASSUME TypeOK, [Next]_vars
  PROVE  EvidenceGrows
  <1> USE DEF TypeOK, EvidenceGrows, Committed
  <1>1. ASSUME history' = history, approvals' = approvals PROVE EvidenceGrows
    BY <1>1
  <1>2. ASSUME NEW w \in Workers, CommitPromotion(w) PROVE EvidenceGrows
    <2>1. /\ Len(history') = Len(history) + 1
          /\ \A i \in 1..Len(history) : history'[i] = history[i]
          /\ Len(history) \in Nat
      BY <1>2 DEF CommitPromotion, RepoTypes
    <2>2. approvals' = approvals
      BY <1>2 DEF CommitPromotion
    <2>3. QED
      BY <2>1, <2>2
  <1>3. ASSUME NEW w \in Workers, RecordApproval(w) \/ RecordRejection(w)
        PROVE  EvidenceGrows
    <2>1. history' = history
      BY <1>3 DEF RecordApproval, RecordRejection
    <2>2. \A r \in Runs : approvals[r] \subseteq approvals'[r]
      BY <1>3 DEF RecordApproval, RecordRejection, RecordTypes
    <2>3. QED
      BY <2>1, <2>2
  <1>4. ASSUME NEW w \in Workers, HandlerStep(w) \/ Crash(w),
               ~ CommitPromotion(w), ~ RecordApproval(w), ~ RecordRejection(w)
        PROVE  history' = history /\ approvals' = approvals
    BY <1>4 DEF HandlerStep, PromoteStep, RejectStep, LedgerStep, Crash, LoadRun,
       Preflight, ValidateWorktree, ValidateLineage, CapturePatch, ApplyPatch,
       SkipCanonicalValidation, ValidateCanonical, CommitRefused, RecordReceipt,
       CleanUpWorktree, Rollback, RecordFailure, LoadReject, ReadLedger, StoreLedger,
       LedgerFault
  <1>5. ASSUME NEW r \in Runs, ServiceStep(r)
        PROVE  history' = history /\ approvals' = approvals
    BY <1>5 DEF ServiceStep, StartRun, CreateWorktree, AdvanceRun, StoreRun, ServiceFails
  <1>6. ASSUME NEW w \in Workers, NEW r \in Runs, Request(w, r)
        PROVE  history' = history /\ approvals' = approvals
    BY <1>6 DEF Request, ApproveEndpoint, RejectEndpoint, CommandLine, Begin
  <1>7. CASE UNCHANGED vars
    BY <1>7, <1>1 DEF vars
  <1>8. QED
    BY <1>1, <1>2, <1>3, <1>4, <1>5, <1>6, <1>7 DEF Next

\* So a status that was backed stays backed.
LEMMA BackedStays ==
  ASSUME TypeOK, [Next]_vars, NEW r \in Runs, NEW status, Backed(r, status)
  PROVE  Backed(r, status)'
  BY EvidenceStays DEF EvidenceGrows, Backed

\* A ledger that nobody writes stays backed.
LEMMA LedgerStaysBacked ==
  ASSUME TypeOK, [Next]_vars, LedgerBacked, UNCHANGED ledger
  PROVE  LedgerBacked'
  BY BackedStays DEF LedgerBacked

\* So does what the service has read of it.
LEMMA ServiceStaysBacked ==
  ASSUME TypeOK, [Next]_vars, LedgerBacked, ServiceBacked
  PROVE  ServiceBacked'
  <1>1. ASSUME UNCHANGED serviceVars PROVE ServiceBacked'
    BY <1>1, BackedStays DEF ServiceBacked
  <1>2. ASSUME NEW r \in Runs, NEW status \in Statuses \ {"applied", "rejected"},
               Upsert(r, status)
        PROVE  ServiceBacked'
    <2>1. record' = [record EXCEPT ![r] = status] /\ items' = [items EXCEPT ![r] = ledger]
      BY <1>2 DEF Upsert
    <2>2. ASSUME NEW s \in Runs, NEW x \in Runs PROVE Backed(x, items[s][x])'
      <3>1. PICK seen : seen = items'[s][x]
        OBVIOUS
      <3>2. Backed(x, seen)
        BY <2>1, <3>1 DEF LedgerBacked, ServiceBacked, TypeOK, ServiceTypes
      <3>3. Backed(x, seen)'
        BY <3>2, BackedStays
      <3>4. QED
        BY <3>1, <3>3 DEF Backed
    <2>3. QED
      BY <2>1, <2>2 DEF ServiceBacked, TypeOK, ServiceTypes
  <1>3. ASSUME NEW r \in Runs, UNCHANGED record, items' = [items EXCEPT ![r] = NoCopy]
        PROVE  ServiceBacked'
    <2>1. ASSUME NEW s \in Runs, NEW x \in Runs PROVE Backed(x, items[s][x])'
      <3>1. CASE s = r
        BY <1>3, <3>1, StatusesAre DEF NoCopy, Backed, TypeOK, ServiceTypes
      <3>2. CASE s # r
        BY <1>3, <3>2, BackedStays DEF ServiceBacked, TypeOK, ServiceTypes
      <3>3. QED
        BY <3>1, <3>2
    <2>2. QED
      BY <1>3, <2>1 DEF ServiceBacked
  <1>4. ASSUME NEW r \in Runs, ServiceStep(r) PROVE ServiceBacked'
    <2>1. CASE StartRun(r) \/ AdvanceRun(r)
      BY <1>2, <2>1, StatusesAre DEF StartRun, AdvanceRun, ServiceMoves
    <2>2. CASE CreateWorktree(r)
      BY <1>1, <2>2 DEF CreateWorktree
    <2>3. CASE StoreRun(r) \/ ServiceFails(r)
      BY <1>3, <2>3 DEF StoreRun, ServiceFails
    <2>4. QED
      BY <1>4, <2>1, <2>2, <2>3 DEF ServiceStep
  <1>5. ASSUME NEW w \in Workers, HandlerStep(w) \/ Crash(w) PROVE ServiceBacked'
    BY <1>1, <1>5 DEF HandlerStep, Crash
  <1>6. ASSUME NEW w \in Workers, NEW r \in Runs, Request(w, r) PROVE ServiceBacked'
    BY <1>1, <1>6 DEF Request
  <1>7. CASE UNCHANGED vars
    BY <1>1, <1>7 DEF vars
  <1>8. QED
    BY <1>4, <1>5, <1>6, <1>7 DEF Next

WorkersBacked == CopiesBacked /\ LocalsBacked /\ ApprovingCommitted

\* So do the variables of the workers, while none of them moves ...
LEMMA WorkersStayBacked ==
  ASSUME TypeOK, [Next]_vars, WorkersBacked, UNCHANGED workerVars
  PROVE  WorkersBacked'
  <1>1. CopiesBacked'
    BY BackedStays DEF WorkersBacked, CopiesBacked
  <1>2. LocalsBacked'
    BY BackedStays DEF WorkersBacked, LocalsBacked, TypeOK, WorkerTypes
  <1>3. ApprovingCommitted'
    BY EvidenceStays DEF WorkersBacked, ApprovingCommitted, EvidenceGrows, TypeOK, WorkerTypes
  <1>4. QED
    BY <1>1, <1>2, <1>3 DEF WorkersBacked

\* ... when a worker only moves on, provided it does so to record an approval
\* after the commit only ...
LEMMA GotoBacked ==
  ASSUME TypeOK, [Next]_vars, WorkersBacked, NEW w \in Workers, NEW to \in PCs,
         pc[w] \notin {"idle", "load", "loadReject"}, Goto(w, to),
         to = "approve" => Committed(job[w])'
  PROVE  WorkersBacked'
  <1> USE DEF WorkersBacked, TypeOK, WorkerTypes, Goto
  <1>1. CopiesBacked'
    BY BackedStays DEF CopiesBacked
  <1>2. LocalsBacked'
    BY BackedStays DEF LocalsBacked
  <1>3. ApprovingCommitted'
    BY EvidenceStays DEF ApprovingCommitted, EvidenceGrows
  <1>4. QED
    BY <1>1, <1>2, <1>3

\* ... when it sets a status that has its evidence ...
LEMMA SetStatusBacked ==
  ASSUME TypeOK, [Next]_vars, WorkersBacked, NEW w \in Workers, NEW status, NEW to \in PCs,
         pc[w] # "idle", SetStatus(w, status, to),
         to # "approve", Backed(job[w], status)'
  PROVE  WorkersBacked'
  <1> USE DEF WorkersBacked, TypeOK, WorkerTypes, SetStatus
  <1>1. CopiesBacked'
    BY BackedStays DEF CopiesBacked
  <1>2. LocalsBacked'
    <2> SUFFICES ASSUME NEW v \in Workers, pc'[v] \notin {"idle", "load", "loadReject"}
                 PROVE  Backed(job[v], local[v])'
      BY DEF LocalsBacked
    <2>1. CASE v = w
      BY <2>1
    <2>2. CASE v # w
      BY <2>2, BackedStays DEF LocalsBacked
    <2>3. QED
      BY <2>1, <2>2
  <1>3. ApprovingCommitted'
    BY EvidenceStays DEF ApprovingCommitted, EvidenceGrows
  <1>4. QED
    BY <1>1, <1>2, <1>3

\* ... and when its request ends.
LEMMA ReturnBacked ==
  ASSUME TypeOK, [Next]_vars, WorkersBacked, NEW w \in Workers, Return(w)
  PROVE  WorkersBacked'
  <1> USE DEF WorkersBacked, TypeOK, WorkerTypes, Return
  <1>1. CopiesBacked'
    BY BackedStays, StatusesAre DEF CopiesBacked, NoCopy, Backed
  <1>2. LocalsBacked'
    BY BackedStays DEF LocalsBacked
  <1>3. ApprovingCommitted'
    BY EvidenceStays DEF ApprovingCommitted, EvidenceGrows
  <1>4. QED
    BY <1>1, <1>2, <1>3

\* Every step keeps the invariant.
LEMMA EvidencePreserved ==
  ASSUME TypeOK, EvidenceInv, [Next]_vars
  PROVE  EvidenceInv'
  <1>0. /\ LedgerBacked /\ WorkersBacked
        /\ LedgerBacked' /\ WorkersBacked' => EvidenceInv'
        /\ \A w \in Workers : pc[w] # "idle" => job[w] \in Runs
    BY ServiceStaysBacked DEF EvidenceInv, WorkersBacked, TypeOK, WorkerTypes
  <1>1. ASSUME UNCHANGED ledger, WorkersBacked' PROVE EvidenceInv'
    BY <1>0, <1>1, LedgerStaysBacked
  <1>2. ASSUME NEW r \in Runs, ServiceStep(r) PROVE EvidenceInv'
    <2>1. WorkersBacked'
      BY <1>0, <1>2, WorkersStayBacked
      DEF ServiceStep, StartRun, CreateWorktree, AdvanceRun, StoreRun, ServiceFails
    <2>2. CASE StoreRun(r)
      <3>1. LedgerBacked'
        <4> SUFFICES ASSUME NEW x \in Runs PROVE Backed(x, ledger[x])'
          BY DEF LedgerBacked
        <4>1. PICK s : s = items[r][x] /\ Backed(x, s)
          BY DEF EvidenceInv, ServiceBacked
        <4>2. ledger'[x] = IF x = r THEN record[r] ELSE s
          BY <2>2, <4>1 DEF StoreRun, TypeOK, ServiceTypes
        <4>3. record[r] \notin {"applied", "rejected"}
          BY DEF EvidenceInv, ServiceBacked
        <4>4. QED
          BY <4>1, <4>2, <4>3, BackedStays DEF Backed
      <3>2. QED
        BY <1>0, <2>1, <3>1
    <2>3. CASE ~ StoreRun(r)
      <3>1. UNCHANGED ledger
        BY <1>2, <2>3 DEF ServiceStep, StartRun, CreateWorktree, AdvanceRun, ServiceFails
      <3>2. QED
        BY <1>1, <2>1, <3>1
    <2>4. QED
      BY <2>2, <2>3
  <1>3. ASSUME NEW w \in Workers, NEW r \in Runs, Request(w, r) PROVE EvidenceInv'
    <2>1. PICK to \in {"load", "loadReject"} : Begin(w, r, to)
      BY <1>3 DEF Request, ApproveEndpoint, RejectEndpoint, CommandLine
    <2>2. CopiesBacked'
      BY <1>0, <2>1, BackedStays DEF Begin, WorkersBacked, CopiesBacked
    <2>3. LocalsBacked'
      BY <1>0, <2>1, BackedStays DEF Begin, WorkersBacked, LocalsBacked, TypeOK, WorkerTypes
    <2>4. ApprovingCommitted'
      BY <1>0, <2>1, EvidenceStays DEF Begin, WorkersBacked, ApprovingCommitted,
         EvidenceGrows, TypeOK, WorkerTypes
    <2>5. QED
      BY <1>1, <2>1, <2>2, <2>3, <2>4 DEF Begin, WorkersBacked
  <1>4. ASSUME NEW w \in Workers, PromoteStep(w) PROVE EvidenceInv'
    <2> USE <1>0, GotoBacked, SetStatusBacked, ReturnBacked, PCsAre
    <2>1. CASE LoadRun(w)
      <3>1. PICK status : status = ledger[job[w]]
        OBVIOUS
      <3>2. CASE ~ Return(w)
        <4>1. Backed(job[w], status)'
          BY <2>1, <3>1, <3>2, BackedStays DEF LoadRun, SetStatus, LedgerBacked
        <4>2. QED
          BY <1>1, <2>1, <3>1, <3>2, <4>1 DEF LoadRun
      <3>3. QED
        BY <1>1, <2>1, <3>2 DEF LoadRun
    <2>2. CASE Preflight(w)
      BY <1>1, <2>2 DEF Preflight
    <2>3. CASE ValidateWorktree(w)
      BY <1>1, <2>3 DEF ValidateWorktree, Backed
    <2>4. CASE ValidateLineage(w)
      <3>1. CASE ~ Return(w)
        <4>1. CopiesBacked'
          BY <2>4, <3>1, BackedStays DEF ValidateLineage, WorkersBacked, CopiesBacked
        <4>2. LocalsBacked'
          BY <2>4, <3>1, BackedStays DEF ValidateLineage, WorkersBacked, LocalsBacked,
             TypeOK, WorkerTypes
        <4>3. ApprovingCommitted'
          BY <2>4, <3>1, EvidenceStays DEF ValidateLineage, WorkersBacked,
             ApprovingCommitted, EvidenceGrows, TypeOK, WorkerTypes
        <4>4. QED
          BY <1>1, <2>4, <4>1, <4>2, <4>3 DEF ValidateLineage, WorkersBacked
      <3>2. QED
        BY <1>1, <2>4, <3>1 DEF ValidateLineage
    <2>5. CASE CapturePatch(w)
      BY <1>1, <2>5 DEF CapturePatch
    <2>6. CASE ApplyPatch(w)
      <3>1. CASE ~ Goto(w, "rollback")
        <4>1. CopiesBacked'
          BY <2>6, <3>1, BackedStays DEF ApplyPatch, WorkersBacked, CopiesBacked
        <4>2. LocalsBacked'
          <5>1. UNCHANGED <<job, local>> /\ pc[w] = "apply"
                /\ \A v \in Workers : pc'[v] \notin {"idle", "load", "loadReject"}
                                      => pc[v] \notin {"idle", "load", "loadReject"}
            BY <2>6, <3>1 DEF ApplyPatch, TypeOK, WorkerTypes
          <5>2. QED
            BY <5>1, BackedStays DEF WorkersBacked, LocalsBacked
        <4>3. ApprovingCommitted'
          BY <2>6, <3>1, EvidenceStays DEF ApplyPatch, WorkersBacked,
             ApprovingCommitted, EvidenceGrows, TypeOK, WorkerTypes
        <4>4. QED
          BY <1>1, <2>6, <4>1, <4>2, <4>3 DEF ApplyPatch, WorkersBacked
      <3>2. QED
        BY <1>1, <2>6, <3>1 DEF ApplyPatch
    <2>7. CASE SkipCanonicalValidation(w) \/ ValidateCanonical(w)
      BY <1>1, <2>7 DEF SkipCanonicalValidation, ValidateCanonical
    <2>8. CASE CommitPromotion(w)
      <3>1. Committed(job[w])'
        <4>1. /\ Len(history') = Len(history) + 1
              /\ history'[Len(history) + 1].run = job[w]
              /\ Len(history) \in Nat
          BY <2>8 DEF CommitPromotion, TypeOK, RepoTypes
        <4>2. job' = job
          BY <2>8 DEF CommitPromotion, Goto
        <4>3. QED
          BY <4>1, <4>2 DEF Committed
      <3>2. QED
        BY <1>1, <2>8, <3>1 DEF CommitPromotion
    <2>9. CASE CommitRefused(w)
      BY <1>1, <2>9 DEF CommitRefused
    <2>10. CASE RecordApproval(w)
      <3>1. CASE ~ Goto(w, "rollback")
        <4>1. Committed(job[w])' /\ "approved" \in approvals'[job[w]] /\ job' = job
          BY <2>10, <3>1, EvidenceStays DEF RecordApproval, SetStatus, EvidenceGrows,
             WorkersBacked, ApprovingCommitted, Committed, TypeOK, RecordTypes
        <4>2. Backed(job[w], "applied")'
          BY <4>1 DEF Backed
        <4>3. QED
          BY <1>1, <2>10, <3>1, <4>2 DEF RecordApproval
      <3>2. QED
        BY <1>1, <2>10, <3>1 DEF RecordApproval
    <2>11. CASE RecordReceipt(w) \/ RecordFailure(w)
      BY <1>1, <2>11 DEF RecordReceipt, RecordFailure
    <2>12. CASE CleanUpWorktree(w)
      BY <1>1, <2>12 DEF CleanUpWorktree
    <2>13. CASE Rollback(w)
      BY <1>1, <2>13 DEF Rollback, Backed
    <2>14. QED
      BY <1>4, <2>1, <2>2, <2>3, <2>4, <2>5, <2>6, <2>7, <2>8, <2>9, <2>10, <2>11,
         <2>12, <2>13 DEF PromoteStep
  <1>5. ASSUME NEW w \in Workers, RejectStep(w) \/ LedgerStep(w) \/ Crash(w)
        PROVE  EvidenceInv'
    <2> USE <1>0, GotoBacked, SetStatusBacked, ReturnBacked, PCsAre
    <2>1. CASE LoadReject(w)
      <3>1. PICK status : status = ledger[job[w]]
        OBVIOUS
      <3>2. CASE ~ Return(w)
        <4>1. Backed(job[w], status)'
          BY <2>1, <3>1, <3>2, BackedStays DEF LoadReject, SetStatus, LedgerBacked
        <4>2. QED
          BY <1>1, <2>1, <3>1, <3>2, <4>1 DEF LoadReject
      <3>3. QED
        BY <1>1, <2>1, <3>2 DEF LoadReject
    <2>2. CASE RecordRejection(w)
      <3>1. CASE ~ Return(w)
        <4>1. "rejected" \in approvals'[job[w]] /\ job' = job
          BY <2>2, <3>1 DEF RecordRejection, SetStatus, TypeOK, RecordTypes
        <4>2. Backed(job[w], "rejected")'
          BY <4>1 DEF Backed
        <4>3. QED
          BY <1>1, <2>2, <3>1, <4>2 DEF RecordRejection
      <3>2. QED
        BY <1>1, <2>2, <3>1 DEF RecordRejection
    <2>3. CASE ReadLedger(w) /\ Missing(w)
      BY <1>1, <2>3 DEF ReadLedger, Unstored, Marking
    <2>8. CASE ReadLedger(w) /\ ~Missing(w)
      <3>1. CopiesBacked'
        BY <2>8, BackedStays DEF ReadLedger, WorkersBacked, CopiesBacked, LedgerBacked,
           TypeOK, WorkerTypes
      <3>2. LocalsBacked'
        <4>1. UNCHANGED <<job, local>> /\ \A v \in Workers \ {w} : pc'[v] = pc[v]
          BY <2>8 DEF ReadLedger, TypeOK, WorkerTypes
        <4>2. pc[w] \notin {"idle", "load", "loadReject"}
          BY <2>8 DEF ReadLedger, Marking
        <4>3. ASSUME NEW v \in Workers, pc'[v] \notin {"idle", "load", "loadReject"}
              PROVE  job[v] \in Runs /\ Backed(job[v], local[v])
          BY <4>1, <4>2, <4>3 DEF WorkersBacked, LocalsBacked, TypeOK, WorkerTypes
        <4>4. QED
          BY <4>1, <4>3, BackedStays DEF LocalsBacked
      <3>3. ApprovingCommitted'
        <4>1. AfterMark[pc[w]] # "approve"
          BY <2>8, AfterMarkIsStoring DEF ReadLedger, Storing
        <4>2. QED
          BY <2>8, <4>1, EvidenceStays DEF ReadLedger, WorkersBacked,
             ApprovingCommitted, EvidenceGrows, TypeOK, WorkerTypes
      <3>4. QED
        BY <1>1, <2>8, <3>1, <3>2, <3>3 DEF ReadLedger, WorkersBacked
    <2>4. CASE StoreLedger(w)
      <3>1. pc[w] \notin {"idle", "load", "loadReject"}
        BY <2>4 DEF StoreLedger, Storing
      <3>2. WorkersBacked'
        BY <2>4, <3>1 DEF StoreLedger
      <3>3. LedgerBacked'
        <4> SUFFICES ASSUME NEW r \in Runs PROVE Backed(r, ledger[r])'
          BY DEF LedgerBacked
        <4>1. PICK s : s = copy[w][r] /\ Backed(r, s)
          BY DEF WorkersBacked, CopiesBacked
        <4>2. PICK l : l = local[w] /\ Backed(job[w], l)
          BY <3>1 DEF WorkersBacked, LocalsBacked
        <4>3. ledger'[r] = IF r = job[w] THEN l ELSE s
          BY <2>4, <4>1, <4>2 DEF StoreLedger, TypeOK, WorkerTypes
        <4>4. QED
          BY <4>1, <4>2, <4>3, BackedStays DEF Backed
      <3>4. QED
        BY <3>2, <3>3, <1>0
    <2>5. CASE LedgerFault(w)
      BY <1>1, <2>5 DEF LedgerFault, Unstored, Marking, Storing
    <2>6. CASE Crash(w)
      BY <1>1, <2>6 DEF Crash
    <2>7. QED
      BY <1>5, <2>1, <2>2, <2>3, <2>4, <2>5, <2>6, <2>8 DEF RejectStep, LedgerStep
  <1>6. CASE UNCHANGED vars
    BY <1>0, <1>1, <1>6, WorkersStayBacked DEF vars
  <1>7. QED
    BY <1>2, <1>3, <1>4, <1>5, <1>6 DEF Next, HandlerStep

\* Whoever else is at work, whatever fails and however old the copy of
\* runs.json is that some worker writes back: a run on record as applied was
\* committed and approved, and a run on record as rejected was rejected.
THEOREM EveryDecisionHasEvidence == Spec => []DecisionsHaveEvidence
  <1>1. Init => EvidenceInv
    <2> SUFFICES ASSUME Init PROVE EvidenceInv
      OBVIOUS
    <2>1. LedgerBacked /\ ServiceBacked /\ CopiesBacked
      BY StatusesAre DEF Init, Before, LedgerBacked, ServiceBacked, CopiesBacked, Backed, NoCopy
    <2>2. LocalsBacked /\ ApprovingCommitted
      BY DEF Init, LocalsBacked, ApprovingCommitted
    <2>3. QED
      BY <2>1, <2>2 DEF EvidenceInv
  <1>2. TypeOK /\ EvidenceInv /\ [Next]_vars => EvidenceInv'
    BY EvidencePreserved
  <1>3. EvidenceInv => DecisionsHaveEvidence
    BY DEF EvidenceInv, LedgerBacked, Backed, DecisionsHaveEvidence
  <1>4. QED
    BY TypeCorrect, <1>1, <1>2, <1>3, PTL DEF Spec

(***************************************************************************)
(* No change is committed twice.  What is staged is not in the history     *)
(* yet: the patch was not there when git applied it, and a commit takes    *)
(* all that is staged.                                                     *)
(***************************************************************************)

StagedIsNew == \A i \in 1..Len(history) : history[i].content \cap index = {}

OnceInv == CommittedOnce /\ StagedIsNew

\* The steps that touch neither the history nor the index, or empty the index.
LEMMA OnceElsewhere ==
  ASSUME [Next]_vars,
         \A w \in Workers : ~ ApplyPatch(w) /\ ~ CommitPromotion(w)
  PROVE  history' = history /\ index' \in {index, {}}
  <1> USE DEF LoadRun, Preflight, ValidateWorktree, ValidateLineage, CapturePatch,
       SkipCanonicalValidation, ValidateCanonical, CommitRefused, RecordApproval,
       RecordReceipt, CleanUpWorktree, Rollback, RecordFailure
  <1>1. ASSUME NEW w \in Workers, HandlerStep(w) \/ Crash(w)
        PROVE  history' = history /\ index' \in {index, {}}
    BY <1>1 DEF HandlerStep, PromoteStep, RejectStep, LedgerStep, Crash, LoadReject,
       RecordRejection, ReadLedger, StoreLedger, LedgerFault
  <1>2. ASSUME NEW r \in Runs, ServiceStep(r)
        PROVE  history' = history /\ index' = index
    BY <1>2 DEF ServiceStep, StartRun, CreateWorktree, AdvanceRun, StoreRun, ServiceFails
  <1>3. ASSUME NEW w \in Workers, NEW r \in Runs, Request(w, r)
        PROVE  history' = history /\ index' = index
    BY <1>3 DEF Request, ApproveEndpoint, RejectEndpoint, CommandLine, Begin
  <1>4. QED
    BY <1>1, <1>2, <1>3 DEF Next, vars

LEMMA OncePreserved ==
  ASSUME TypeOK, OnceInv, [Next]_vars
  PROVE  OnceInv'
  <1> USE DEF OnceInv, CommittedOnce, StagedIsNew
  <1>0. history \in Seq([run : Runs, content : SUBSET Changes])
    BY DEF TypeOK, RepoTypes
  <1>1. ASSUME NEW w \in Workers, ApplyPatch(w) PROVE OnceInv'
    <2>1. history' = history
      BY <1>1 DEF ApplyPatch
    <2>2. CASE index' = index
      BY <2>1, <2>2
    <2>3. CASE Applies(job[w]) /\ index' = index \cup Patch(job[w])
      <3>1. \A i \in 1..Len(history) : history[i].content \cap Patch(job[w]) = {}
        BY <2>3 DEF Applies, Trunk
      <3>2. QED
        BY <2>1, <2>3, <3>1
    <2>4. QED
      BY <1>1, <2>2, <2>3 DEF ApplyPatch
  <1>2. ASSUME NEW w \in Workers, CommitPromotion(w) PROVE OnceInv'
    <2>1. /\ Len(history') = Len(history) + 1
          /\ \A i \in 1..Len(history) : history'[i] = history[i]
          /\ history'[Len(history) + 1].content = index
          /\ Len(history) \in Nat
          /\ index' = {}
      BY <1>2, <1>0 DEF CommitPromotion
    <2>2. QED
      BY <2>1
  <1>3. ASSUME \A w \in Workers : ~ ApplyPatch(w) /\ ~ CommitPromotion(w) PROVE OnceInv'
    BY <1>3, OnceElsewhere
  <1>4. QED
    BY <1>1, <1>2, <1>3

\* However many workers promote whichever runs at the same time, no change is
\* in two commits of the canonical history.
THEOREM NothingIsCommittedTwice == Spec => []CommittedOnce
  <1>1. Init => OnceInv
    BY DEF Init, OnceInv, CommittedOnce, StagedIsNew
  <1>2. TypeOK /\ OnceInv /\ [Next]_vars => OnceInv'
    BY OncePreserved
  <1>3. OnceInv => CommittedOnce
    BY DEF OnceInv
  <1>4. QED
    BY TypeCorrect, <1>1, <1>2, <1>3, PTL DEF Spec

(***************************************************************************)
(* The end of a request.  That it comes, CaptureDecides, rests on fairness *)
(* and on these facts: no worker waits for another, and there is only so   *)
(* far to go.                                                              *)
(***************************************************************************)

\* How many accesses a worker makes at most until it is idle again.
Ahead == [load |-> 17, preflight |-> 16, validate |-> 15, lineage |-> 14, capture |-> 13,
          apply |-> 12, canonical |-> 11, commit |-> 10, approve |-> 9,
          markApplied |-> 8, storeApplied |-> 7, receipt |-> 6, cleanup |-> 5,
          rollback |-> 4, markFailed |-> 3, storeFailed |-> 2, failedReceipt |-> 1,
          markInvalid |-> 2, storeInvalid |-> 1, loadReject |-> 4, recordReject |-> 3,
          markRejected |-> 2, storeRejected |-> 1, idle |-> 0]

\* What handles a request brings it nearer to its end; who is idle, or is not
\* the worker that moves, stays where it is or has a new request.
GoesForward ==
  [][\A w \in Workers :
       /\ HandlerStep(w) \/ Crash(w) => Ahead[pc[w]]' < Ahead[pc[w]]
       /\ pc[w] # "idle" => Ahead[pc[w]]' <= Ahead[pc[w]]]_vars

\* Nothing but canonical validation asks for more than its turn.
CanGoOn(w) ==
  \/ pc[w] \in PCs \ {"idle", "canonical"}
  \/ pc[w] = "canonical" /\ (MaySkipCanonical(job[w]) \/ Validation[job[w]] = "configured")

\* A run without validation goes no further than preflight, and one whose stages
\* hold no commands no further than the validation of its worktree.
ValidationIsKnown ==
  \A w \in Workers :
    pc[w] \in {"lineage", "capture", "apply", "canonical"} =>
      Validation[job[w]] \in {"configured", "waived"}

\* The control points after an access, by group.
LEMMA HandlersMove ==
  ASSUME TypeOK, NEW w \in Workers, HandlerStep(w) \/ Crash(w)
  PROVE  /\ pc[w] # "idle" /\ pc'[w] \in PCs
         /\ Ahead[pc'[w]] < Ahead[pc[w]]
         /\ \A v \in Workers \ {w} : pc'[v] = pc[v] /\ job'[v] = job[v]
         /\ pc'[w] # "idle" => job'[w] = job[w]
         /\ pc'[w] \in {"lineage", "capture", "apply", "canonical"} =>
              \/ pc[w] \in {"lineage", "capture", "apply"}
              \/ Validation[job[w]] \in {"configured", "waived"}
  <1> USE PCsAre DEF TypeOK, WorkerTypes, Ahead, Goto, SetStatus, Return
  <1>1. CASE LoadRun(w) \/ ValidateWorktree(w) \/ ValidateLineage(w) \/ CapturePatch(w)
    BY <1>1 DEF LoadRun, ValidateWorktree, ValidateLineage, CapturePatch
  <1>2. CASE Preflight(w)
    BY <1>2 DEF Preflight
  <1>3. CASE ApplyPatch(w) \/ SkipCanonicalValidation(w) \/ ValidateCanonical(w)
    <2>1. /\ pc[w] \in {"apply", "canonical"} /\ job' = job
          /\ \/ pc' = [pc EXCEPT ![w] = "canonical"] /\ pc[w] = "apply"
             \/ pc' = [pc EXCEPT ![w] = "commit"]
             \/ pc' = [pc EXCEPT ![w] = "rollback"]
      BY <1>3 DEF ApplyPatch, SkipCanonicalValidation, ValidateCanonical
    <2>2. QED
      BY <2>1
  <1>4. CASE CommitPromotion(w) \/ CommitRefused(w) \/ RecordApproval(w) \/ RecordReceipt(w)
    BY <1>4 DEF CommitPromotion, CommitRefused, RecordApproval, RecordReceipt
  <1>5. CASE CleanUpWorktree(w) \/ Rollback(w) \/ RecordFailure(w)
    BY <1>5 DEF CleanUpWorktree, Rollback, RecordFailure
  <1>6. CASE RejectStep(w) \/ Crash(w)
    BY <1>6 DEF RejectStep, LoadReject, RecordRejection, Crash
  <1>7. CASE ReadLedger(w)
    BY <1>7 DEF ReadLedger, Unstored, Marking, AfterMark
  <1>8. CASE StoreLedger(w)
    BY <1>8 DEF StoreLedger, Storing
  <1>9. CASE LedgerFault(w)
    BY <1>9 DEF LedgerFault, Unstored, Marking, Storing
  <1>10. QED
    BY <1>1, <1>2, <1>3, <1>4, <1>5, <1>6, <1>7, <1>8, <1>9
       DEF HandlerStep, PromoteStep, LedgerStep

\* Every other step leaves the workers where they are, or begins a request.
LEMMA OthersBegin ==
  ASSUME TypeOK, [Next]_vars, \A w \in Workers : ~(HandlerStep(w) \/ Crash(w)),
         NEW w \in Workers
  PROVE  \/ pc'[w] = pc[w] /\ job'[w] = job[w]
         \/ pc[w] = "idle" /\ pc'[w] \in {"load", "loadReject"}
  <1>1. CASE \E v \in Workers, r \in Runs : Request(v, r)
    BY <1>1 DEF Request, ApproveEndpoint, RejectEndpoint, CommandLine, Begin, TypeOK,
                WorkerTypes
  <1>2. CASE (\E r \in Runs : ServiceStep(r)) \/ UNCHANGED vars
    BY <1>2 DEF ServiceStep, StartRun, CreateWorktree, AdvanceRun, StoreRun, ServiceFails, vars
  <1>3. QED
    BY <1>1, <1>2 DEF Next

\* A request is decided, refused or given up after seventeen accesses at most,
\* whatever fails and whoever else is at work: no failure makes promote_run or
\* its exception handler do anything again.
THEOREM RequestsGoForward == Spec => GoesForward
  <1>1. ASSUME TypeOK, [Next]_vars, NEW w \in Workers
        PROVE  /\ HandlerStep(w) \/ Crash(w) => Ahead[pc'[w]] < Ahead[pc[w]]
               /\ pc[w] # "idle" => Ahead[pc'[w]] <= Ahead[pc[w]]
    <2>1. Ahead[pc[w]] \in Nat
      BY <1>1, PCsAre DEF TypeOK, WorkerTypes, Ahead
    <2>2. ASSUME HandlerStep(w) \/ Crash(w) PROVE Ahead[pc'[w]] < Ahead[pc[w]]
      BY <1>1, <2>2, HandlersMove
    <2>3. ASSUME HandlerStep(w) \/ Crash(w) PROVE Ahead[pc'[w]] \in Nat
      BY <1>1, <2>3, HandlersMove, PCsAre DEF Ahead
    <2>4. ASSUME pc[w] # "idle", ~(HandlerStep(w) \/ Crash(w)) PROVE pc'[w] = pc[w]
      <3>1. CASE \E v \in Workers : HandlerStep(v) \/ Crash(v)
        BY <1>1, <2>4, <3>1, HandlersMove
      <3>2. CASE \A v \in Workers : ~(HandlerStep(v) \/ Crash(v))
        BY <1>1, <2>4, <3>2, OthersBegin
      <3>3. QED
        BY <3>1, <3>2
    <2>5. QED
      BY <2>1, <2>2, <2>3, <2>4
  <1>2. TypeOK /\ [Next]_vars =>
          [\A w \in Workers :
             /\ HandlerStep(w) \/ Crash(w) => Ahead[pc[w]]' < Ahead[pc[w]]
             /\ pc[w] # "idle" => Ahead[pc[w]]' <= Ahead[pc[w]]]_vars
    <2>1. ASSUME NEW w \in Workers PROVE Ahead[pc[w]]' = Ahead[pc'[w]]
      BY DEF Ahead
    <2>2. QED
      BY <1>1, <2>1
  <1>3. QED
    BY <1>2, TypeCorrect, PTL DEF Spec, GoesForward

\* And no worker at a request ever waits: its next access is always open to it.
THEOREM WorkersNeverWait == Spec => [](\A w \in Workers : pc[w] # "idle" => CanGoOn(w))
  <1>1. Init => ValidationIsKnown
    BY DEF Init, ValidationIsKnown
  <1>2. TypeOK /\ ValidationIsKnown /\ [Next]_vars => ValidationIsKnown'
    <2> SUFFICES ASSUME TypeOK, ValidationIsKnown, [Next]_vars PROVE ValidationIsKnown'
      OBVIOUS
    <2>1. ASSUME NEW v \in Workers, HandlerStep(v) \/ Crash(v) PROVE ValidationIsKnown'
      BY <2>1, HandlersMove DEF ValidationIsKnown
    <2>2. CASE \A v \in Workers : ~(HandlerStep(v) \/ Crash(v))
      BY <2>2, OthersBegin DEF ValidationIsKnown
    <2>3. QED
      BY <2>1, <2>2
  <1>3. TypeOK /\ ValidationIsKnown => \A w \in Workers : pc[w] # "idle" => CanGoOn(w)
    <2> SUFFICES ASSUME TypeOK, ValidationIsKnown, NEW w \in Workers, pc[w] # "idle"
                 PROVE  CanGoOn(w)
      OBVIOUS
    <2>1. pc[w] \in PCs /\ job[w] \in Runs
      BY DEF TypeOK, WorkerTypes
    <2>2. pc[w] = "canonical" => Validation[job[w]] \in {"configured", "waived"}
      BY <2>1 DEF ValidationIsKnown
    <2>3. QED
      BY <2>1, <2>2 DEF CanGoOn, MaySkipCanonical
  <1>4. QED
    BY <1>1, <1>2, <1>3, TypeCorrect, PTL DEF Spec
=============================================================================
