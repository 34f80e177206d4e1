---------------------------- MODULE RunLifecycle ----------------------------
(***************************************************************************)
(* The life of a coding run as integration/lifecycle.py promises it: the   *)
(* table of legal transitions and the rule that transition() enforces.     *)
(* This is the abstract specification of a run's status.  Everything that  *)
(* writes runs.json (the Swift coding service, the Python promotion code)  *)
(* has to implement it, whatever it does in between.                       *)
(***************************************************************************)

CONSTANT Runs        \* the identifiers of coding runs

VARIABLE status      \* status[r]: the status on record, or Absent

Absent == "absent"   \* runs.json has no entry for the run

\* VALID_TRANSITIONS, as the set of its edges.
ValidTransitions ==
  { <<"created", "retrieving">>,           <<"created", "failed">>,
    <<"retrieving", "proposing">>,         <<"retrieving", "failed">>,
    <<"proposing", "validating">>,         <<"proposing", "failed">>,
    <<"validating", "awaiting_approval">>, <<"validating", "failed">>,
    <<"awaiting_approval", "applied">>,    <<"awaiting_approval", "rejected">>,
    <<"awaiting_approval", "failed">> }

TerminalStates == {"applied", "rejected", "failed"}

States == {"created", "retrieving", "proposing", "validating",
           "awaiting_approval"} \cup TerminalStates

\* transition(run, new): TRUE where the call returns, FALSE where it raises
\* TransitionError.  A run that is in the state already is left alone.
Allows(current, new) ==
  \/ current = new
  \/ /\ current \notin TerminalStates
     /\ <<current, new>> \in ValidTransitions

\* The file may hold runs from before.
Init == status \in [Runs -> States \cup {Absent}]

Create(r) ==
  /\ status[r] = Absent
  /\ status' = [status EXCEPT ![r] = "created"]

Transition(r, new) ==
  /\ Allows(status[r], new)
  /\ status' = [status EXCEPT ![r] = new]

Next == \E r \in Runs : Create(r) \/ \E new \in States : Transition(r, new)

Spec == Init /\ [][Next]_status
=============================================================================
