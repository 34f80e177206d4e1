---------------------------- MODULE PlannerPool ----------------------------
(***************************************************************************)
(* The parallel orchestrator over the coding planner and its breaker:      *)
(* ParallelOrchestrator of integration/orchestrator.py runs a batch on a   *)
(* thread pool, a semaphore admits some of the threads to                  *)
(* coding_planner_execute of integration/workers_planner.py, and that asks *)
(* planner_breaker before it calls the hardened worker.                    *)
(***************************************************************************)
EXTENDS CircuitBreaker, Sequences, FiniteSets, Functions

CONSTANTS
  Tasks,         \* the batch
  Batch,         \* the batch as the list execute_batch gets
  MaxWorkers,    \* threads of the pool
  Permits,       \* per_worker_semaphore
  ResponseKeys   \* keys under which a worker may answer with its diff: "diff"
                 \* in the repository, "patch" where tests replace the worker

ASSUME PoolAssumption ==
  /\ IsFiniteSet(Tasks)
  /\ Batch \in Seq(Tasks) /\ Range(Batch) = Tasks /\ IsInjective(Batch)
  /\ MaxWorkers \in Nat \ {0} /\ Permits \in Nat \ {0}
  /\ ResponseKeys \subseteq {"diff", "patch"}

VARIABLES
  queue,      \* tasks submitted and not yet taken by a thread
  pc,         \* pc[t]: where the thread that runs t is
  outcome,    \* outcome[t]: what coding_planner_execute returns for t
  results     \* the tasks of the results list, as as_completed yields them

pool == <<queue, pc, outcome, results>>
vars == <<breaker, pool>>

PCs == {"queued", "throttled", "check", "recover", "run", "success", "count",
        "judge", "release", "done"}
Outcomes == {"none", "proposal", "CIRCUIT_BREAKER_OPEN", "WORKER_FATAL",
             "PLANNER_FAILURE"}

\* What the worker does: it answers with a diff under some key, or with none,
\* or it raises.
Works == ResponseKeys \cup {"empty", "raise"}

Init ==
  /\ InitBreaker
  /\ queue = Batch
  /\ pc = [t \in Tasks |-> "queued"]
  /\ outcome = [t \in Tasks |-> "none"]
  /\ results = <<>>

Goto(t, to) == pc' = [pc EXCEPT ![t] = to]

\* Threads of the pool that have a task; tasks inside "with self.semaphore".
Busy   == {t \in Tasks : pc[t] \notin {"queued", "done"}}
Inside == {t \in Tasks : pc[t] \notin {"queued", "throttled", "done"}}

-----------------------------------------------------------------------------

\* A thread of the pool takes the next task.
Dispatch(t) ==
  /\ queue # <<>> /\ t = Head(queue)
  /\ Cardinality(Busy) < MaxWorkers
  /\ queue' = Tail(queue)
  /\ Goto(t, "throttled")
  /\ UNCHANGED <<breaker, outcome, results>>

PermitFree(t) == Cardinality(Inside) < Permits

Acquire(t) ==
  /\ pc[t] = "throttled"
  /\ PermitFree(t)
  /\ Goto(t, "check")
  /\ UNCHANGED <<breaker, queue, outcome, results>>

CheckBreaker(t) ==
  /\ pc[t] = "check"
  /\ Goto(t, IF LetsThrough THEN "run" ELSE "recover")
  /\ UNCHANGED <<breaker, queue, outcome, results>>

TryRecovery(t) ==
  /\ pc[t] = "recover"
  /\ Recover
  /\ Goto(t, "run")
  /\ UNCHANGED <<queue, outcome, results>>

Refuse(t) ==
  /\ pc[t] = "recover"
  /\ ~expired
  /\ outcome' = [outcome EXCEPT ![t] = "CIRCUIT_BREAKER_OPEN"]
  /\ Goto(t, "release")
  /\ UNCHANGED <<breaker, queue, results>>

\* result.get("patch") is not empty.
HasPatch(work) == work = "patch"

\* run_hardened returns or raises, and the planner looks at the result.
Work(t, work) ==
  /\ pc[t] = "run"
  /\ outcome' = [outcome EXCEPT ![t] = IF HasPatch(work) THEN "proposal"
                   ELSE IF work = "raise" THEN "WORKER_FATAL"
                   ELSE "PLANNER_FAILURE"]
  /\ Goto(t, IF HasPatch(work) THEN "success" ELSE "count")
  /\ UNCHANGED <<breaker, queue, results>>

Succeed(t) ==
  /\ pc[t] = "success"
  /\ RecordSuccess
  /\ Goto(t, "release")
  /\ UNCHANGED <<queue, outcome, results>>

Count(t) ==
  /\ pc[t] = "count"
  /\ CountFailure
  /\ Goto(t, "judge")
  /\ UNCHANGED <<queue, outcome, results>>

Judge(t) ==
  /\ pc[t] = "judge"
  /\ JudgeFailure
  /\ Goto(t, "release")
  /\ UNCHANGED <<queue, outcome, results>>

\* A slip: a refused task asks again, and keeps its permit meanwhile.
MutantRelease(t) ==
  /\ pc[t] = "release"
  /\ Goto(t, IF outcome[t] = "CIRCUIT_BREAKER_OPEN" THEN "check" ELSE "done")
  /\ UNCHANGED <<breaker, queue, outcome, results>>

\* The permit is given back, and the future is done.
Release(t) ==
  /\ pc[t] = "release"
  /\ Goto(t, "done")
  /\ UNCHANGED <<breaker, queue, outcome, results>>

Uncollected(t) == pc[t] = "done" /\ t \notin Range(results)

\* as_completed yields futures as they end, not as they were submitted.
Collect(t) ==
  /\ Uncollected(t)
  /\ results' = Append(results, t)
  /\ UNCHANGED <<breaker, queue, pc, outcome>>

-----------------------------------------------------------------------------

Step(t) ==
  \/ Dispatch(t) \/ Acquire(t) \/ CheckBreaker(t) \/ TryRecovery(t)
  \/ Refuse(t) \/ (\E work \in Works : Work(t, work))
  \/ Succeed(t) \/ Count(t) \/ Judge(t) \/ Release(t) \/ Collect(t)

BatchOver == Len(results) = Cardinality(Tasks)

Terminating == BatchOver /\ UNCHANGED vars

Next ==
  \/ \E t \in Tasks : Step(t)
  \/ Elapse /\ UNCHANGED pool
  \/ Terminating

Spec == Init /\ [][Next]_vars

\* The pool's threads run, and the worker's calls end.
FairSpec == Spec /\ \A t \in Tasks : WF_vars(Step(t))

-----------------------------------------------------------------------------
(* Properties.                                                             *)

TypeOK ==
  /\ failures \in 0..Cardinality(Tasks)
  /\ state \in {"CLOSED", "OPEN", "HALF-OPEN"}
  /\ expired \in BOOLEAN
  /\ queue \in Seq(Tasks)
  /\ pc \in [Tasks -> PCs]
  /\ outcome \in [Tasks -> Outcomes]
  /\ results \in Seq(Tasks)

\* However the threads' unlocked updates of the breaker fall: it is OPEN only
\* while the failures counted reach the threshold.
OpenHasFailures == state = "OPEN" => failures >= Threshold

\* And it does not miss the threshold: once the count reaches it, the breaker
\* has left CLOSED, or the thread that counted is about to open it.
ThresholdOpens ==
  failures >= Threshold /\ state = "CLOSED" => \E t \in Tasks : pc[t] = "judge"

Failed == {t \in Tasks : outcome[t] \in {"WORKER_FATAL", "PLANNER_FAILURE"}}

\* No task is refused before that many tasks of this process have failed.
RefusedForCause ==
  (\E t \in Tasks : outcome[t] = "CIRCUIT_BREAKER_OPEN")
    => Cardinality(Failed) >= Threshold

\* A batch ends, and its results list has every task once.
BatchEnds == <>[](BatchOver /\ Range(results) = Tasks)
=============================================================================
