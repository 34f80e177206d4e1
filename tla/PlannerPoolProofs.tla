------------------------- MODULE PlannerPoolProofs -------------------------
(***************************************************************************)
(* What holds of PlannerPool for all batches, thresholds, numbers of       *)
(* threads and permits, proved with TLAPS.                                 *)
(***************************************************************************)
EXTENDS PlannerPool, FiniteSetTheorems, TLAPS

\* The definitions that only name things.
USE DEF breaker, pool

-----------------------------------------------------------------------------
(* The tasks.                                                              *)

\* Where a task is that has not been worked on.
Before == {"queued", "throttled", "check", "recover", "run"}

TaskTypes ==
  /\ queue \in Seq(Tasks)
  /\ pc \in [Tasks -> PCs]
  /\ outcome \in [Tasks -> Outcomes]
  /\ results \in Seq(Tasks)

\* The queue has tasks that no thread has, each of them once.
QueueWaits ==
  /\ \A i \in 1..Len(queue) : pc[queue[i]] = "queued"
  /\ \A i, j \in 1..Len(queue) : queue[i] = queue[j] => i = j

\* Outcomes come with the work.
OutcomesFollow ==
  \A t \in Tasks :
    /\ pc[t] \in Before => outcome[t] = "none"
    /\ pc[t] = "count" => t \in Failed

TasksInv == TaskTypes /\ QueueWaits /\ OutcomesFollow

LEMMA TasksInit == Init => TasksInv
  <1> SUFFICES ASSUME Init PROVE TasksInv
    OBVIOUS
  <1>1. TaskTypes
    BY PoolAssumption DEF Init, TaskTypes, PCs, Outcomes
  <1>2. QueueWaits
    <2>1. \A i \in 1..Len(queue) : queue[i] \in Tasks
      BY <1>1 DEF TaskTypes
    <2>2. QED
      BY <2>1, PoolAssumption DEF Init, QueueWaits, IsInjective
  <1>3. OutcomesFollow
    BY DEF Init, OutcomesFollow, Before
  <1>4. QED
    BY <1>1, <1>2, <1>3 DEF TasksInv

\* A task that leaves the queue is its head.
LEMMA TasksDispatch ==
  ASSUME TasksInv, NEW t \in Tasks, Dispatch(t)
  PROVE  TasksInv' /\ pc[t] = "queued"
  <1> USE DEF TasksInv, TaskTypes
  <1>1. /\ queue # <<>> /\ t = queue[1] /\ queue' = Tail(queue)
        /\ pc' = [pc EXCEPT ![t] = "throttled"]
        /\ UNCHANGED <<outcome, results>>
    BY DEF Dispatch, Goto
  <1>2. /\ Len(queue) \in Nat \ {0}
        /\ Len(queue') = Len(queue) - 1
        /\ \A i \in 1..Len(queue') : queue'[i] = queue[i + 1]
    BY <1>1
  <1>3. pc[t] = "queued"
    BY <1>1, <1>2 DEF QueueWaits
  <1>4. TaskTypes'
    BY <1>1 DEF PCs
  <1>5. QueueWaits'
    <2>1. \A i \in 1..Len(queue') : i + 1 \in 1..Len(queue) /\ i + 1 # 1
      BY <1>2
    <2>2. \A i \in 1..Len(queue') : queue'[i] # t /\ pc[queue'[i]] = "queued"
      BY <1>1, <1>2, <2>1 DEF QueueWaits
    <2>3. \A i, j \in 1..Len(queue') : queue'[i] = queue'[j] => i = j
      BY <1>2, <2>1 DEF QueueWaits
    <2>4. \A i \in 1..Len(queue') : queue'[i] \in Tasks
      BY <1>2, <2>1
    <2>5. QED
      BY <1>1, <2>2, <2>3, <2>4 DEF QueueWaits
  <1>6. OutcomesFollow'
    BY <1>1, <1>3 DEF OutcomesFollow, Before, Failed
  <1>7. QED
    BY <1>3, <1>4, <1>5, <1>6

\* A step of a thread does not touch the queue.
LEMMA TasksRun ==
  ASSUME TasksInv, NEW t \in Tasks, Step(t), ~Dispatch(t)
  PROVE  TasksInv'
  <1> USE DEF TasksInv, TaskTypes
  <1>1. /\ queue' = queue
        /\ \A u \in Tasks \ {t} : pc'[u] = pc[u] /\ outcome'[u] = outcome[u]
        /\ pc[t] = "queued" => pc'[t] = "queued" /\ outcome'[t] = outcome[t]
    BY DEF Step, Acquire, CheckBreaker, TryRecovery, Refuse, Work, Succeed, Count,
           Judge, Release, Collect, Uncollected, Goto
  <1>2. TaskTypes'
    <2>1. pc' \in [Tasks -> PCs]
      BY DEF Step, Acquire, CheckBreaker, TryRecovery, Refuse, Work, Succeed, Count,
             Judge, Release, Collect, Goto, PCs
    <2>2. outcome' \in [Tasks -> Outcomes]
      BY DEF Step, Acquire, CheckBreaker, TryRecovery, Refuse, Work, Succeed, Count,
             Judge, Release, Collect, Outcomes
    <2>3. results' = results \/ results' = Append(results, t)
      BY DEF Step, Acquire, CheckBreaker, TryRecovery, Refuse, Work, Succeed, Count,
             Judge, Release, Collect
    <2>4. Append(results, t) \in Seq(Tasks)
      <3>1. results \in Seq(Tasks)
        OBVIOUS
      <3>2. \A s \in Seq(Tasks) : Append(s, t) \in Seq(Tasks)
        OBVIOUS
      <3>3. QED
        BY <3>1, <3>2
    <2>5. results' \in Seq(Tasks)
      BY <2>3, <2>4
    <2>6. queue' \in Seq(Tasks)
      BY <1>1
    <2>7. QED
      BY <2>1, <2>2, <2>5, <2>6
  <1>3. QueueWaits'
    <2>1. \A i \in 1..Len(queue) : queue[i] \in Tasks
      OBVIOUS
    <2>2. QED
      BY <1>1, <2>1 DEF QueueWaits
  <1>4. OutcomesFollow'
    <2>1. pc'[t] \in Before => outcome'[t] = "none"
      BY DEF Step, Acquire, CheckBreaker, TryRecovery, Refuse, Work, Succeed, Count,
             Judge, Release, Collect, Uncollected, Goto, Before, OutcomesFollow
    <2>2. pc'[t] = "count" => outcome'[t] \in {"WORKER_FATAL", "PLANNER_FAILURE"}
      BY DEF Step, Acquire, CheckBreaker, TryRecovery, Refuse, Work, Succeed, Count,
             Judge, Release, Collect, Uncollected, Goto, Outcomes
    <2>3. QED
      BY <1>1, <2>1, <2>2 DEF OutcomesFollow, Failed
  <1>5. QED
    BY <1>2, <1>3, <1>4

-----------------------------------------------------------------------------
(* The breaker.                                                            *)

\* The tasks whose failure has been counted.
Counted == {t \in Failed : pc[t] \in {"judge", "release", "done"}}

BreakerTypes ==
  /\ failures \in Nat
  /\ state \in {"CLOSED", "OPEN", "HALF-OPEN"}
  /\ expired \in BOOLEAN

\* The breaker has been open at some time.
Cause == Cardinality(Failed) >= Threshold

\* No failure is counted twice, and whatever shows that the breaker has been
\* open has its cause.
CausesKnown ==
  /\ failures <= Cardinality(Counted)
  /\ state # "CLOSED" => Cause
  /\ \A t \in Tasks : pc[t] = "recover" => Cause
  /\ \A t \in Tasks : outcome[t] = "CIRCUIT_BREAKER_OPEN" => Cause

BreakerInv ==
  TasksInv /\ BreakerTypes /\ OpenHasFailures /\ ThresholdOpens /\ CausesKnown

\* Sets of tasks are finite, and sets of failed tasks only grow.
LEMMA FailedFinite ==
  /\ IsFiniteSet(Failed) /\ Cardinality(Failed) \in Nat
  /\ IsFiniteSet(Counted) /\ Cardinality(Counted) \in Nat
  /\ Cardinality(Counted) <= Cardinality(Failed)
  /\ Cardinality(Failed) <= Cardinality(Tasks) /\ Cardinality(Tasks) \in Nat
  <1>1. Failed \subseteq Tasks /\ Counted \subseteq Failed
    BY DEF Failed, Counted
  <1>2. QED
    BY <1>1, PoolAssumption, FS_Subset, FS_CardinalityType

LEMMA CauseStays ==
  ASSUME Failed \subseteq Failed', Cause, IsFiniteSet(Failed'), Threshold \in Nat
  PROVE  Cause'
  <1>1. Cardinality(Failed) <= Cardinality(Failed')
    BY FS_Subset
  <1>2. Cardinality(Failed) \in Nat /\ Cardinality(Failed') \in Nat
    BY FailedFinite, FS_CardinalityType
  <1>3. QED
    BY <1>1, <1>2 DEF Cause

LEMMA BreakerInit == Init => BreakerInv
  <1> SUFFICES ASSUME Init PROVE BreakerInv
    OBVIOUS
  <1>1. failures = 0 /\ state = "CLOSED" /\ expired = TRUE
    BY DEF Init, InitBreaker
  <1>2. CausesKnown
    BY <1>1, FailedFinite DEF Init, CausesKnown
  <1>3. QED
    BY <1>1, <1>2, TasksInit, ThresholdAssumption
       DEF BreakerInv, BreakerTypes, OpenHasFailures, ThresholdOpens

\* What a step of a task does to the sets of failed tasks.
LEMMA FailedGrows ==
  ASSUME TasksInv, NEW t \in Tasks, Step(t)
  PROVE  /\ Failed \subseteq Failed' /\ IsFiniteSet(Failed')
         /\ Counted \subseteq Counted' /\ IsFiniteSet(Counted')
         /\ Count(t) => t \notin Counted /\ Counted' = Counted \cup {t}
  <1> USE DEF TasksInv, TaskTypes
  <1>1. /\ Failed \subseteq Failed'
        /\ \A u \in Failed : pc[u] \in {"judge", "release", "done"} =>
                               pc'[u] \in {"judge", "release", "done"}
    <2>1. CASE Dispatch(t)
      BY <2>1, TasksDispatch DEF Dispatch, Goto, Failed
    <2>2. CASE ~Dispatch(t)
      BY <2>2 DEF Step, Acquire, CheckBreaker, TryRecovery, Refuse, Work, Succeed,
             Count, Judge, Release, Collect, Uncollected, Goto, Failed, OutcomesFollow,
             Before
    <2>3. QED
      BY <2>1, <2>2
  <1>2. Failed' \subseteq Tasks /\ Counted' \subseteq Failed'
    BY DEF Failed, Counted
  <1>3. IsFiniteSet(Failed') /\ IsFiniteSet(Counted')
    BY <1>2, PoolAssumption, FS_Subset
  <1>4. Counted \subseteq Counted'
    BY <1>1 DEF Counted
  <1>5. Count(t) => t \notin Counted /\ Counted' = Counted \cup {t}
    BY DEF Count, Goto, Counted, Failed, OutcomesFollow
  <1>6. QED
    BY <1>1, <1>3, <1>4, <1>5

LEMMA BreakerStep ==
  ASSUME BreakerInv, NEW t \in Tasks, Step(t)
  PROVE  BreakerInv'
  <1> USE ThresholdAssumption DEF BreakerInv
  <1>1. TasksInv'
    BY TasksDispatch, TasksRun
  <1>2. Failed \subseteq Failed' /\ IsFiniteSet(Failed')
        /\ Counted \subseteq Counted' /\ IsFiniteSet(Counted')
    BY FailedGrows
  <1>3. /\ Cause => Cause'
        /\ Cardinality(Counted) \in Nat /\ Cardinality(Counted') \in Nat
        /\ Cardinality(Counted) <= Cardinality(Counted')
    BY <1>2, CauseStays, FailedFinite, FS_Subset, FS_CardinalityType
  <1>4. CASE CheckBreaker(t) \/ Dispatch(t) \/ Acquire(t) \/ Collect(t) \/ Release(t)
             \/ Refuse(t) \/ (\E work \in Works : Work(t, work))
    <2>1. /\ UNCHANGED <<failures, state, expired>>
          /\ pc[t] # "judge" /\ \A u \in Tasks \ {t} : pc'[u] = pc[u]
          /\ pc'[t] = "recover" => pc[t] = "recover" \/ state # "CLOSED"
          /\ \A u \in Tasks : outcome'[u] = "CIRCUIT_BREAKER_OPEN" =>
               outcome[u] = "CIRCUIT_BREAKER_OPEN" \/ pc[u] = "recover"
      BY <1>4, TasksDispatch DEF CheckBreaker, Dispatch, Acquire, Collect, Uncollected, Release,
         Refuse, Work, Goto, LetsThrough, TasksInv, TaskTypes
    <2>2. BreakerTypes' /\ OpenHasFailures'
      BY <2>1 DEF BreakerTypes, OpenHasFailures
    <2>3. ThresholdOpens'
      BY <2>1 DEF ThresholdOpens
    <2>4. CausesKnown'
      BY <1>3, <2>1 DEF CausesKnown, BreakerTypes
    <2>5. QED
      BY <1>1, <2>2, <2>3, <2>4
  <1>5. CASE TryRecovery(t)
    <2>1. /\ failures' = failures /\ state' = "HALF-OPEN" /\ expired' = expired
          /\ outcome' = outcome /\ pc[t] = "recover"
          /\ \A u \in Tasks : pc'[u] = "recover" => pc[u] = "recover"
      BY <1>5 DEF TryRecovery, Recover, Goto, TasksInv, TaskTypes
    <2>2. CausesKnown'
      BY <1>3, <2>1 DEF CausesKnown, BreakerTypes
    <2>3. QED
      BY <1>1, <2>1, <2>2 DEF BreakerTypes, OpenHasFailures, ThresholdOpens
  <1>6. CASE Succeed(t)
    <2>1. /\ failures' = 0 /\ state' = "CLOSED" /\ expired' = expired
          /\ outcome' = outcome
          /\ \A u \in Tasks : pc'[u] = "recover" => pc[u] = "recover"
      BY <1>6 DEF Succeed, RecordSuccess, Goto, TasksInv, TaskTypes
    <2>2. CausesKnown'
      BY <1>3, <2>1 DEF CausesKnown
    <2>3. QED
      BY <1>1, <2>1, <2>2 DEF BreakerTypes, OpenHasFailures, ThresholdOpens
  <1>7. CASE Count(t)
    <2>1. /\ failures' = failures + 1 /\ UNCHANGED <<state, expired, outcome>>
          /\ pc'[t] = "judge"
          /\ \A u \in Tasks : pc'[u] = "recover" => pc[u] = "recover"
      BY <1>7 DEF Count, CountFailure, Goto, TasksInv, TaskTypes
    <2>2. Cardinality(Counted') = Cardinality(Counted) + 1
      BY <1>7, FailedGrows, FailedFinite, FS_AddElement
    <2>3. CausesKnown'
      BY <1>3, <2>1, <2>2 DEF CausesKnown, BreakerTypes
    <2>4. QED
      BY <1>1, <2>1, <2>3 DEF BreakerTypes, OpenHasFailures, ThresholdOpens
  <1>8. CASE Judge(t)
    <2>1. /\ failures' = failures /\ expired' = FALSE /\ outcome' = outcome
          /\ state' = IF failures >= Threshold THEN "OPEN" ELSE state
          /\ \A u \in Tasks : pc'[u] = "recover" => pc[u] = "recover"
      BY <1>8 DEF Judge, JudgeFailure, Tripped, Goto, TasksInv, TaskTypes
    <2>2. failures >= Threshold => Cause
      BY FailedFinite DEF Cause, CausesKnown, BreakerTypes
    <2>3. CausesKnown'
      BY <1>3, <2>1, <2>2 DEF CausesKnown, BreakerTypes
    <2>4. QED
      BY <1>1, <2>1, <2>3 DEF BreakerTypes, OpenHasFailures, ThresholdOpens
  <1>9. QED
    BY <1>4, <1>5, <1>6, <1>7, <1>8 DEF Step

LEMMA BreakerNext == BreakerInv /\ [Next]_vars => BreakerInv'
  <1> SUFFICES ASSUME BreakerInv, [Next]_vars PROVE BreakerInv'
    OBVIOUS
  <1>1. CASE UNCHANGED pool /\ failures' = failures /\ state' = state
             /\ expired' \in {TRUE, expired}
    <2>1. Failed' = Failed /\ Counted' = Counted
      BY <1>1 DEF Failed, Counted
    <2>2. TasksInv'
      BY <1>1, <2>1 DEF BreakerInv, TasksInv, TaskTypes, QueueWaits, OutcomesFollow
    <2>3. CausesKnown'
      BY <1>1, <2>1 DEF BreakerInv, CausesKnown, Cause
    <2>4. QED
      BY <1>1, <2>2, <2>3 DEF BreakerInv, BreakerTypes, OpenHasFailures, ThresholdOpens
  <1>2. ASSUME NEW t \in Tasks, Step(t)
        PROVE  BreakerInv'
    BY <1>2, BreakerStep
  <1>3. QED
    BY <1>1, <1>2 DEF Next, Elapse, Terminating, vars

-----------------------------------------------------------------------------
(* Theorems.                                                               *)

\* Every variable keeps its type, for all batches, threads and permits; of no
\* failure is more than one counted.
THEOREM TypeCorrect == Spec => []TypeOK
  <1>1. BreakerInv => TypeOK
    BY FailedFinite DEF BreakerInv, BreakerTypes, TasksInv, TaskTypes, CausesKnown, TypeOK
  <1>2. QED
    BY <1>1, BreakerInit, BreakerNext, PTL DEF Spec

\* Threads that share the breaker without a lock do not leave it open without
\* as many failures as it takes.
THEOREM OpenBreakersHaveFailures == Spec => []OpenHasFailures
  <1>1. BreakerInv => OpenHasFailures
    BY DEF BreakerInv
  <1>2. QED
    BY <1>1, BreakerInit, BreakerNext, PTL DEF Spec

\* Nor do they miss the moment to open it.
THEOREM TheThresholdIsNotMissed == Spec => []ThresholdOpens
  <1>1. BreakerInv => ThresholdOpens
    BY DEF BreakerInv
  <1>2. QED
    BY <1>1, BreakerInit, BreakerNext, PTL DEF Spec

\* And no task is refused unless so many others have failed.
THEOREM RefusalsHaveACause == Spec => []RefusedForCause
  <1>1. BreakerInv => RefusedForCause
    BY DEF BreakerInv, CausesKnown, Cause, RefusedForCause
  <1>2. QED
    BY <1>1, BreakerInit, BreakerNext, PTL DEF Spec

-----------------------------------------------------------------------------
(* The end of a batch.  That it comes, BatchEnds, rests on fairness and on *)
(* these facts: as long as it has not come some task can go on, and there  *)
(* is only so far to go.                                                   *)

\* How many steps a task makes at most until it is collected.
Ahead == [queued |-> 9, throttled |-> 8, check |-> 7, recover |-> 6, run |-> 5,
          count |-> 4, success |-> 3, judge |-> 3, release |-> 2, done |-> 1]

StepsLeft(t) == IF t \in Range(results) THEN 0 ELSE Ahead[pc[t]]

\* A step of a task brings it nearer to its end, and no other further away.
GoesForward ==
  [][\A t \in Tasks :
       /\ StepsLeft(t)' <= StepsLeft(t)
       /\ Step(t) => StepsLeft(t)' < StepsLeft(t)]_vars

\* What the guards of Step(t) ask for.
CanGoOn(t) ==
  \/ queue # <<>> /\ t = Head(queue) /\ Cardinality(Busy) < MaxWorkers
  \/ pc[t] = "throttled" /\ PermitFree(t)
  \/ pc[t] \in PCs \ {"queued", "throttled", "done"}
  \/ Uncollected(t)

\* Results are of tasks that are done, and of each once; who waits for a thread
\* is in the queue.
ResultsInv ==
  /\ Cardinality(Range(results)) = Len(results)
  /\ \A t \in Range(results) : pc[t] = "done"
  /\ \A t \in Tasks : pc[t] = "queued" => t \in Range(queue)

EndInv == TasksInv /\ ResultsInv

\* The elements of a list.
LEMMA RangeIsTasks == ASSUME NEW s \in Seq(Tasks) PROVE Range(s) \subseteq Tasks
  BY DEF Range

LEMMA RangeOfAppend ==
  ASSUME NEW s \in Seq(Tasks), NEW t \in Tasks
  PROVE  Range(Append(s, t)) = Range(s) \cup {t}
  <1>1. /\ Len(Append(s, t)) = Len(s) + 1
        /\ DOMAIN s = 1..Len(s)
        /\ DOMAIN Append(s, t) = 1..Len(s) + 1
        /\ \A i \in 1..Len(s) : Append(s, t)[i] = s[i]
        /\ Append(s, t)[Len(s) + 1] = t
        /\ Len(s) \in Nat
    OBVIOUS
  <1>2. \A i \in 1..Len(s) + 1 : i \in 1..Len(s) \/ i = Len(s) + 1
    BY <1>1
  <1>3. 1..Len(s) \subseteq 1..Len(s) + 1 /\ Len(s) + 1 \in 1..Len(s) + 1
    BY <1>1
  <1>4. ASSUME NEW x \in Range(Append(s, t)) PROVE x \in Range(s) \cup {t}
    BY <1>1, <1>2 DEF Range
  <1>5. ASSUME NEW x \in Range(s) PROVE x \in Range(Append(s, t))
    BY <1>1, <1>3 DEF Range
  <1>6. t \in Range(Append(s, t))
    BY <1>1, <1>3 DEF Range
  <1>7. QED
    BY <1>4, <1>5, <1>6

\* Whoever is in a list is its first element or in the rest of it.
LEMMA RangeOfTail ==
  ASSUME NEW s \in Seq(Tasks), s # <<>>, NEW t \in Range(s), t # Head(s)
  PROVE  t \in Range(Tail(s))
  <1>1. PICK i \in 1..Len(s) : s[i] = t
    BY DEF Range
  <1>2. /\ Len(s) \in Nat \ {0} /\ i # 1
        /\ DOMAIN Tail(s) = 1..Len(s) - 1
        /\ \A j \in 1..Len(s) - 1 : Tail(s)[j] = s[j + 1]
    BY <1>1
  <1>3. i - 1 \in 1..Len(s) - 1 /\ (i - 1) + 1 = i
    BY <1>1, <1>2
  <1>4. Tail(s)[i - 1] = t
    BY <1>1, <1>2, <1>3
  <1>5. QED
    BY <1>2, <1>3, <1>4 DEF Range

LEMMA EndInit == Init => EndInv
  <1> SUFFICES ASSUME Init PROVE EndInv
    OBVIOUS
  <1>1. Range(results) = {}
    BY DEF Init, Range
  <1>2. Cardinality(Range(results)) = Len(results)
    BY <1>1, FS_EmptySet DEF Init
  <1>3. QED
    BY <1>1, <1>2, TasksInit, PoolAssumption DEF Init, EndInv, ResultsInv

LEMMA EndStep ==
  ASSUME EndInv, NEW t \in Tasks, Step(t)
  PROVE  EndInv'
  <1> USE DEF EndInv, TasksInv, TaskTypes
  <1>1. TasksInv'
    BY TasksDispatch, TasksRun DEF EndInv
  <1>2. CASE Dispatch(t)
    <2>1. /\ queue # <<>> /\ t = Head(queue) /\ queue' = Tail(queue)
          /\ pc' = [pc EXCEPT ![t] = "throttled"] /\ results' = results
          /\ pc[t] = "queued"
      BY <1>2, TasksDispatch DEF Dispatch, Goto
    <2>2. \A u \in Tasks : pc'[u] = "queued" => u \in Range(queue')
      BY <2>1, RangeOfTail DEF ResultsInv
    <2>3. \A u \in Range(results) : pc'[u] = "done"
      BY <2>1, RangeIsTasks DEF ResultsInv
    <2>4. QED
      BY <1>1, <2>1, <2>2, <2>3 DEF ResultsInv
  <1>3. CASE Collect(t)
    <2>1. /\ pc[t] = "done" /\ t \notin Range(results)
          /\ results' = Append(results, t) /\ UNCHANGED <<queue, pc>>
      BY <1>3 DEF Collect, Uncollected
    <2>2. Range(results') = Range(results) \cup {t}
      BY <2>1, RangeOfAppend
    <2>3. IsFiniteSet(Range(results))
      BY RangeIsTasks, PoolAssumption, FS_Subset
    <2>4. Cardinality(Range(results')) = Cardinality(Range(results)) + 1
      BY <2>1, <2>2, <2>3, FS_AddElement
    <2>5. Len(results') = Len(results) + 1
      BY <2>1
    <2>6. QED
      BY <1>1, <2>1, <2>2, <2>4, <2>5 DEF ResultsInv
  <1>4. CASE ~Dispatch(t) /\ ~Collect(t)
    <2>1. /\ UNCHANGED <<queue, results>>
          /\ pc[t] \notin {"queued", "done"} \/ pc'[t] = pc[t]
          /\ pc'[t] # "queued" \/ pc'[t] = pc[t]
          /\ \A u \in Tasks \ {t} : pc'[u] = pc[u]
      BY <1>4 DEF Step, Acquire, CheckBreaker, TryRecovery, Refuse, Work, Succeed,
                  Count, Judge, Release, Goto
    <2>2. \A u \in Range(results) : pc'[u] = "done"
      BY <2>1, RangeIsTasks DEF ResultsInv
    <2>3. QED
      BY <1>1, <2>1, <2>2 DEF ResultsInv
  <1>5. QED
    BY <1>2, <1>3, <1>4

LEMMA EndHolds == Spec => []EndInv
  <1>1. ASSUME EndInv, [Next]_vars PROVE EndInv'
    <2>1. CASE UNCHANGED pool
      BY <1>1, <2>1 DEF EndInv, TasksInv, TaskTypes, QueueWaits, OutcomesFollow, Failed,
                        ResultsInv
    <2>2. QED
      BY <1>1, <2>1, EndStep DEF Next, Terminating, vars
  <1>2. QED
    BY <1>1, EndInit, PTL DEF Spec

\* The results list of a batch that is over has every task, and every task is
\* done: the half of BatchEnds that needs no fairness.
THEOREM ResultsAreTheBatch ==
  Spec => [](BatchOver => Range(results) = Tasks /\ \A t \in Tasks : pc[t] = "done")
  <1>1. ASSUME EndInv, BatchOver
        PROVE  Range(results) = Tasks /\ \A t \in Tasks : pc[t] = "done"
    <2>1. Range(results) \subseteq Tasks
      BY <1>1, RangeIsTasks DEF EndInv, TasksInv, TaskTypes
    <2>2. Cardinality(Range(results)) = Cardinality(Tasks)
      BY <1>1 DEF EndInv, ResultsInv, BatchOver
    <2>3. Range(results) = Tasks
      BY <2>1, <2>2, PoolAssumption, FS_Subset
    <2>4. QED
      BY <1>1, <2>3 DEF EndInv, ResultsInv
  <1>2. QED
    BY <1>1, EndHolds, PTL

\* Threads and permits are never all taken by tasks that wait for each other:
\* as long as a batch is not over, the guard of some task's step holds.
THEOREM BatchIsNeverStuck == Spec => [](BatchOver \/ \E t \in Tasks : CanGoOn(t))
  <1>1. ASSUME EndInv, ~BatchOver PROVE \E t \in Tasks : CanGoOn(t)
    <2> USE DEF CanGoOn
    <2>1. Range(results) # Tasks
      BY <1>1 DEF EndInv, ResultsInv, BatchOver
    <2>2. PICK t \in Tasks : t \notin Range(results)
      BY <1>1, <2>1, RangeIsTasks DEF EndInv, TasksInv, TaskTypes
    <2>3. \A u \in Tasks : pc[u] \in PCs
      BY <1>1 DEF EndInv, TasksInv, TaskTypes
    <2>4. ASSUME NEW u \in Busy PROVE \E v \in Tasks : CanGoOn(v)
      <3>1. CASE Inside = {}
        <4>1. PermitFree(u)
          BY <3>1, FS_EmptySet, PoolAssumption DEF PermitFree
        <4>2. u \in Tasks /\ pc[u] = "throttled"
          BY <2>3, <3>1 DEF Busy, Inside
        <4>3. QED
          BY <4>1, <4>2
      <3>2. CASE Inside # {}
        <4>1. PICK v \in Inside : TRUE
          BY <3>2
        <4>2. v \in Tasks /\ pc[v] \in PCs \ {"queued", "throttled", "done"}
          BY <2>3 DEF Inside
        <4>3. QED
          BY <4>2
      <3>3. QED
        BY <3>1, <3>2
    <2>5. CASE Busy # {}
      BY <2>4, <2>5
    <2>6. CASE Busy = {} /\ pc[t] = "done"
      BY <2>2, <2>6 DEF Uncollected
    <2>7. CASE Busy = {} /\ pc[t] = "queued"
      <3>1. t \in Range(queue) /\ queue \in Seq(Tasks)
        BY <1>1, <2>7 DEF EndInv, ResultsInv, TasksInv, TaskTypes
      <3>2. queue # <<>>
        BY <3>1 DEF Range
      <3>3. Head(queue) \in Tasks
        BY <3>1, <3>2
      <3>4. Cardinality(Busy) < MaxWorkers
        BY <2>7, FS_EmptySet, PoolAssumption
      <3>5. QED
        BY <3>2, <3>3, <3>4
    <2>8. QED
      BY <2>3, <2>5, <2>6, <2>7 DEF Busy
  <1>2. QED
    BY <1>1, EndHolds, PTL

\* And a task goes from the queue to the results list in nine steps at most,
\* whatever the breaker, the worker and the other threads do.
THEOREM BatchGoesForward == Spec => GoesForward
  <1>1. ASSUME EndInv, NEW t \in Tasks, NEW u \in Tasks, Step(u)
        PROVE  /\ StepsLeft(t)' <= StepsLeft(t)
               /\ t = u => StepsLeft(t)' < StepsLeft(t)
    <2> USE <1>1 DEF EndInv, TasksInv, TaskTypes, Ahead, PCs
    <2>1. CASE Collect(u)
      <3>1. /\ Range(results') = Range(results) \cup {u} /\ pc' = pc
            /\ pc[u] = "done" /\ u \notin Range(results)
        BY <2>1, RangeOfAppend DEF Collect, Uncollected
      <3>2. Ahead[pc[t]] \in 1..9
        OBVIOUS
      <3>3. QED
        BY <3>1, <3>2 DEF StepsLeft
    <2>2. CASE ~Collect(u)
      <3>1. /\ results' = results /\ \A v \in Tasks \ {u} : pc'[v] = pc[v]
            /\ Ahead[pc'[u]] < Ahead[pc[u]]
        <4>1. CASE Dispatch(u)
          <5>1. pc[u] = "queued" /\ pc' = [pc EXCEPT ![u] = "throttled"] /\ results' = results
            BY <4>1, TasksDispatch DEF Dispatch, Goto
          <5>2. QED
            BY <5>1
        <4>2. CASE ~Dispatch(u)
          BY <2>2, <4>2 DEF Step, Acquire, CheckBreaker, TryRecovery, Refuse, Work, Succeed,
                            Count, Judge, Release, Goto
        <4>3. QED
          BY <4>1, <4>2
      <3>2. u \notin Range(results)
        <4>1. pc[u] # "done"
          BY <3>1, TasksDispatch DEF Step, Dispatch, Acquire, CheckBreaker, TryRecovery, Refuse,
                 Work, Succeed, Count, Judge, Release, Collect, Goto
        <4>2. QED
          BY <4>1 DEF ResultsInv
      <3>3. CASE t = u
        <4>1. t \notin Range(results') /\ t \notin Range(results)
          BY <3>1, <3>2, <3>3
        <4>2. StepsLeft(t)' = Ahead[pc'[t]] /\ StepsLeft(t) = Ahead[pc[t]]
          BY <4>1 DEF StepsLeft
        <4>3. Ahead[pc'[t]] \in Nat /\ Ahead[pc[t]] \in Nat
          BY <3>1, TasksDispatch, TasksRun DEF EndInv
        <4>4. QED
          BY <3>1, <3>3, <4>2, <4>3
      <3>4. CASE t # u
        <4>1. pc'[t] = pc[t] /\ Ahead[pc[t]] \in Nat
          BY <3>1, <3>4
        <4>2. QED
          BY <3>1, <3>4, <4>1 DEF StepsLeft
      <3>5. QED
        BY <3>3, <3>4
    <2>3. QED
      BY <2>1, <2>2
  <1>2. ASSUME EndInv, [Next]_vars, NEW t \in Tasks
        PROVE  /\ StepsLeft(t)' <= StepsLeft(t)
               /\ Step(t) => StepsLeft(t)' < StepsLeft(t)
    <2>1. CASE \E u \in Tasks : Step(u)
      BY <1>1, <1>2, <2>1
    <2>2. CASE UNCHANGED pool /\ ~Step(t)
      <3>1. StepsLeft(t)' = StepsLeft(t)
        BY <2>2 DEF StepsLeft
      <3>2. StepsLeft(t) \in Nat
        BY <1>2 DEF StepsLeft, EndInv, TasksInv, TaskTypes, PCs, Ahead
      <3>3. QED
        BY <2>2, <3>1, <3>2
    <2>3. QED
      BY <1>2, <2>1, <2>2 DEF Next, Terminating, vars
  <1>3. EndInv /\ [Next]_vars =>
          [\A t \in Tasks :
             /\ StepsLeft(t)' <= StepsLeft(t)
             /\ Step(t) => StepsLeft(t)' < StepsLeft(t)]_vars
    BY <1>2
  <1>4. QED
    BY <1>3, EndHolds, PTL DEF Spec, GoesForward
=============================================================================
