--------------------------- MODULE CircuitBreaker ---------------------------
(***************************************************************************)
(* CircuitBreaker of integration/shared_py/production_utils.py, shared by  *)
(* threads without a lock.  The project requires Python 3.11, where the    *)
(* interpreter may switch threads at a call and nowhere else in these      *)
(* methods: the call of time.time() divides can_execute and record_failure *)
(* in two, and everything else is one step.                                *)
(***************************************************************************)
EXTENDS Naturals

CONSTANT Threshold      \* failure_threshold

ASSUME ThresholdAssumption == Threshold \in Nat \ {0}

VARIABLES
  failures,   \* consecutive failures counted
  state,      \* "CLOSED", "OPEN" or "HALF-OPEN"
  expired     \* recovery_time has passed since last_failure_time

breaker == <<failures, state, expired>>

InitBreaker ==
  /\ failures = 0
  /\ state = "CLOSED"
  /\ expired = TRUE

\* Time passes.
Elapse ==
  /\ ~expired
  /\ expired' = TRUE
  /\ UNCHANGED <<failures, state>>

\* can_execute: the first look.
LetsThrough == state # "OPEN"

\* can_execute of a breaker that was OPEN at the first look: whoever finds the
\* recovery time over moves it to HALF-OPEN, whatever it is by now.
Recover ==
  /\ expired
  /\ state' = "HALF-OPEN"
  /\ UNCHANGED <<failures, expired>>

\* A slip: a failure is counted where it happens and once more by a handler.
MutantCountFailure == failures' = failures + 2 /\ UNCHANGED <<state, expired>>

\* record_failure, up to the call of time.time() ...
CountFailure ==
  /\ failures' = failures + 1
  /\ UNCHANGED <<state, expired>>

\* Slips: the breaker opens one failure early; it opens at one count only.
MutantTripped(n) == n + 1 >= Threshold
MutantExactly(n) == n = Threshold

Tripped(n) == n >= Threshold

\* ... and from there on.
JudgeFailure ==
  /\ expired' = FALSE
  /\ state' = IF Tripped(failures) THEN "OPEN" ELSE state
  /\ UNCHANGED failures

RecordSuccess ==
  /\ failures' = 0
  /\ state' = "CLOSED"
  /\ UNCHANGED expired
=============================================================================
