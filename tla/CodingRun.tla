----------------------------- MODULE CodingRun -----------------------------
(***************************************************************************)
(* The coding run service: IntegratedCodingRunService.execute of           *)
(* OracleOS/Integration, from "created" to "awaiting_approval", with the   *)
(* run ledger it keeps in runs.json and the decisions that the Python      *)
(* promotion code stores in the same file.                                 *)
(*                                                                         *)
(* execute() is reentrant: while one run waits for a worker, others go on. *)
(* Every call has a CodingRunLedger of its own, so the upserts of two runs *)
(* are not serialised; an upsert reads the file, and then empties and      *)
(* rewrites it in place.                                                   *)
(***************************************************************************)
EXTENDS Validation, FiniteSets

CONSTANTS
  Runs,        \* the runs started, one call of execute() each
  NoRun,
  Tools,       \* workers that may answer: "inPlace" edits the worktree and
               \* describes its edits, "answers" sends a patch and edits nothing
  Configs,     \* the ways in which the service's validation may be configured
  Repos,       \* what tells the language of a worktree, Validation!Rules
  Decisions,   \* how an operator's request can end for a run
  Faults       \* "service": retrieval or the worker fails; "io": a record or
               \* git worktree does; "crash": the controller's process ends

ASSUME RunAssumption ==
  /\ NoRun \notin Runs
  /\ Tools \subseteq {"inPlace", "answers"}
  /\ Configs \subseteq Configuration
  /\ Decisions \subseteq {"applied", "rejected", "failed"}
  /\ Faults \subseteq {"service", "io", "crash"}

VARIABLES
  ledger,    \* ledger[r]: the status of r as runs.json was last written
  content,   \* the bytes of runs.json: "whole", "empty" or "garbled"
  writing,   \* upserts that have the present runs.json open for writing
  raced,     \* somebody has read runs.json while another was rewriting it
  pc,        \* pc[r]: the await execute() is at
  status,    \* status[r]: record.status
  copy,      \* copy[r]: the entries that the upsert of r has read
  tree,      \* tree[r]: the worktree: "none", "base" or "edited"
  proposal,  \* proposal[r]: the worker's answer
  validation,\* validation[r]: what the validation of the worktree has found
  events,    \* events[r]: how the end of r was recorded
  operator   \* the decision under way: its run, what it is, what it read, and
             \* whether it is stored and only the worktree is left to remove

Absent == "absent"
Lifecycle == INSTANCE RunLifecycle WITH status <- ledger

file == <<ledger, content, writing, raced>>
run  == <<pc, status, copy, tree, proposal, validation, events>>
vars == <<file, run, operator>>

PCs == {"new", "read", "truncate", "write", "worktree", "retrieve", "worker",
        "policy", "apply", "validate", "record", "done", "thrown", "dead"}
Over == {"done", "thrown", "dead"}

\* paths: what the mutation policy says of touched_files.  diff: the text.
NoProposal == [paths |-> "none", diff |-> "none"]
Proposals  == [paths : {"allowed", "blocked"}, diff : {"empty", "malformed", "edits"}]

NoValidation == [empty |-> TRUE, failing |-> {}]

Status == Lifecycle!States \cup {Absent}
Events == {"policy.blocked", "run.failed", "run.awaiting_approval"}

NoCopy == [r \in Runs |-> Absent]
Idle   == [run |-> NoRun, decision |-> "none", copy |-> NoCopy, read |-> FALSE,
           stored |-> FALSE]

Init ==
  /\ ledger = [r \in Runs |-> Absent]
  /\ content = "whole"
  /\ writing = {} /\ raced = FALSE
  /\ pc = [r \in Runs |-> "new"]
  /\ status = [r \in Runs |-> Absent]
  /\ copy = [r \in Runs |-> NoCopy]
  /\ tree = [r \in Runs |-> "none"]
  /\ proposal = [r \in Runs |-> NoProposal]
  /\ validation = [r \in Runs |-> NoValidation]
  /\ events = [r \in Runs |-> {}]
  /\ operator = Idle

Goto(r, to) == pc' = [pc EXCEPT ![r] = to]

-----------------------------------------------------------------------------
(* CodingRunLedger.upsert.                                                 *)

\* record.status = s; try await ledger.upsert(record)
Upsert(r, s) == status' = [status EXCEPT ![r] = s] /\ Goto(r, "read")

\* Some upsert or decision has read runs.json and not yet written it.
Rewriting == operator.read \/ \E r \in Runs : pc[r] \in {"truncate", "write"}

ReadLedger(r) ==
  /\ pc[r] = "read"
  /\ content = "whole"
  /\ raced' = (raced \/ Rewriting)
  /\ copy' = [copy EXCEPT ![r] = ledger]
  /\ Goto(r, "truncate")
  /\ UNCHANGED <<ledger, content, writing, status, tree, proposal, validation, events, operator>>

\* A slip: the read is tried again.
MutantGiveUp(r) == Goto(r, "read")

\* An error of the upsert is an error of the run.
GiveUp(r) == Goto(r, "thrown")

\* The file cannot be decoded.
LedgerUnreadable(r) ==
  /\ pc[r] = "read"
  /\ content # "whole"
  /\ GiveUp(r)
  /\ UNCHANGED <<file, status, copy, tree, proposal, validation, events, operator>>

TruncateLedger(r) ==
  /\ pc[r] = "truncate"
  /\ content' = "empty"
  /\ writing' = writing \cup {r}
  /\ Goto(r, "write")
  /\ UNCHANGED <<ledger, raced, status, copy, tree, proposal, validation, events, operator>>

\* A slip: the file is written with the run's own entry only.
MutantUpserted(r) == [NoCopy EXCEPT ![r] = status[r]]

\* All entries read, but its own, and its own as it is now.
Upserted(r) == [copy[r] EXCEPT ![r] = status[r]]

AfterUpsert(s) == CASE s = "created" -> "worktree"
                    [] s = "retrieving" -> "retrieve"
                    [] s = "proposing" -> "worker"
                    [] s = "validating" -> "validate"
                    [] s \in {"awaiting_approval", "failed"} -> "record"

\* A slip: the file is never closed.
MutantClosed(r) == writing

Closed(r) == writing \ {r}

\* Two writers that have emptied the file both write from its first byte, and
\* the longer text sticks out.  A file renamed over it meanwhile stays as it is.
WriteLedger(r) ==
  /\ pc[r] = "write"
  /\ IF r \in writing
     THEN /\ ledger' = Upserted(r)
          /\ content' \in IF content = "empty" THEN {"whole"} ELSE {"whole", "garbled"}
          /\ writing' = Closed(r)
          /\ UNCHANGED raced
     ELSE UNCHANGED file
  /\ copy' = [copy EXCEPT ![r] = NoCopy]
  /\ Goto(r, AfterUpsert(status[r]))
  /\ UNCHANGED <<status, tree, proposal, validation, events, operator>>

-----------------------------------------------------------------------------
(* execute().                                                              *)

Start(r) ==
  /\ pc[r] = "new"
  /\ Upsert(r, "created")
  /\ UNCHANGED <<file, copy, tree, proposal, validation, events, operator>>

CreateWorktree(r) ==
  /\ pc[r] = "worktree"
  /\ tree' = [tree EXCEPT ![r] = "base"]
  /\ Upsert(r, "retrieving")
  /\ UNCHANGED <<file, copy, proposal, validation, events, operator>>

Retrieve(r) ==
  /\ pc[r] = "retrieve"
  /\ Upsert(r, "proposing")
  /\ UNCHANGED <<file, copy, tree, proposal, validation, events, operator>>

\* The tool or the direct route answers.
AskWorker(r, tool, answer) ==
  /\ pc[r] = "worker"
  /\ proposal' = [proposal EXCEPT ![r] = answer]
  /\ tree' = [tree EXCEPT ![r] =
                IF tool = "inPlace" /\ answer.diff = "edits" THEN "edited" ELSE @]
  /\ Goto(r, "policy")
  /\ UNCHANGED <<file, status, copy, validation, events, operator>>

\* It does not answer in time, or with an error; its edits may be there.
WorkerFails(r, edited) ==
  /\ "service" \in Faults
  /\ pc[r] = "worker"
  /\ tree' = [tree EXCEPT ![r] = IF edited THEN "edited" ELSE @]
  /\ Goto(r, "thrown")
  /\ UNCHANGED <<file, status, copy, proposal, validation, events, operator>>

PolicyAllows(r) == proposal[r].paths = "allowed"

CheckPolicy(r) ==
  /\ pc[r] = "policy"
  /\ IF PolicyAllows(r)
     THEN Goto(r, "apply") /\ UNCHANGED status
     ELSE Upsert(r, "failed")
  /\ UNCHANGED <<file, copy, tree, proposal, validation, events, operator>>

\* A slip: an empty patch is nothing to complain about.
MutantGitApplies(r) == proposal[r].diff \in {"edits", "empty"} /\ tree[r] = "base"

\* git apply --check refuses a patch without hunks, and one whose hunks are in
\* the files already.
GitApplies(r) == proposal[r].diff = "edits" /\ tree[r] = "base"

ApplyPatch(r) ==
  /\ pc[r] = "apply"
  /\ IF GitApplies(r)
     THEN /\ tree' = [tree EXCEPT ![r] = "edited"]
          /\ Upsert(r, "validating")
     ELSE Goto(r, "thrown") /\ UNCHANGED <<tree, status>>
  /\ UNCHANGED <<file, copy, proposal, validation, events, operator>>

\* The plan is made anew, for what the worktree is after the worker's edits.
Plans == {ExecutionPlan(config, files) : config \in Configs, files \in Repos}

Validate(r, plan, result) ==
  /\ pc[r] = "validate"
  /\ validation' = [validation EXCEPT ![r] = Outcome(plan, result)]
  /\ Upsert(r, IF Verdict(plan, result) THEN "awaiting_approval" ELSE "failed")
  /\ UNCHANGED <<file, copy, tree, proposal, events, operator>>

\* The last event: "policy.blocked" (and then execute throws), "run.failed" or
\* "run.awaiting_approval".
RecordEnd(r) ==
  LET refused == ~PolicyAllows(r) IN
    /\ pc[r] = "record"
    /\ events' = [events EXCEPT ![r] = @ \cup
                    {IF refused THEN "policy.blocked"
                     ELSE IF status[r] = "failed" THEN "run.failed"
                     ELSE "run.awaiting_approval"}]
    /\ Goto(r, IF refused THEN "thrown" ELSE "done")
    /\ UNCHANGED <<file, status, copy, tree, proposal, validation, operator>>

\* Any other error leaves execute() as it is: there is no catch.
ServiceFails(r) ==
  /\ \/ "service" \in Faults /\ pc[r] = "retrieve"
     \/ "io" \in Faults /\ pc[r] \in {"read", "truncate", "worktree", "retrieve",
                                      "worker", "policy", "apply", "validate",
                                      "record"}
  /\ Goto(r, "thrown")
  /\ copy' = [copy EXCEPT ![r] = NoCopy]
  /\ UNCHANGED <<file, status, tree, proposal, validation, events, operator>>

\* Nor is there when the file is empty already: it stays so, or has some of the
\* bytes.
WriteFails(r) ==
  /\ "io" \in Faults
  /\ pc[r] = "write"
  /\ content' \in IF r \in writing THEN {content, "garbled"} ELSE {content}
  /\ writing' = Closed(r)
  /\ copy' = [copy EXCEPT ![r] = NoCopy]
  /\ Goto(r, "thrown")
  /\ UNCHANGED <<ledger, raced, status, tree, proposal, validation, events, operator>>

\* The controller's process ends: files stay as they are.
Crash ==
  /\ "crash" \in Faults
  /\ \E r \in Runs : pc[r] \notin Over \cup {"new"}
  /\ pc' = [r \in Runs |-> IF pc[r] \in Over \cup {"new"} THEN pc[r] ELSE "dead"]
  /\ copy' = [r \in Runs |-> NoCopy]
  /\ writing' = {}
  /\ UNCHANGED <<ledger, content, raced, status, tree, proposal, validation, events, operator>>

-----------------------------------------------------------------------------
(* The decision of an operator, by promote_run or reject_run.              *)

\* Without its worktree a run cannot be applied.
Decide(r, d) ==
  /\ operator.run = NoRun
  /\ content = "whole" /\ ledger[r] = "awaiting_approval"
  /\ d = "applied" => tree[r] # "none"
  /\ operator' = [Idle EXCEPT !.run = r, !.decision = d]
  /\ UNCHANGED <<file, run>>

\* _replace_run reads the file again; it raises where that is not whole.
ReadDecided ==
  /\ operator.run # NoRun /\ ~operator.read /\ ~operator.stored
  /\ raced' = (raced \/ Rewriting)
  /\ operator' = IF content = "whole" /\ ledger[operator.run] # Absent
                 THEN [operator EXCEPT !.copy = ledger, !.read = TRUE]
                 ELSE Idle
  /\ UNCHANGED <<ledger, content, writing, run>>

\* It renames a new file over the old one.  Only a run that is applied loses its
\* worktree.
StoreDecision ==
  /\ operator.read
  /\ ledger' = [operator.copy EXCEPT ![operator.run] = operator.decision]
  /\ content' = "whole"
  /\ writing' = {}
  /\ operator' = IF operator.decision = "applied"
                 THEN [Idle EXCEPT !.run = operator.run, !.decision = "applied", !.stored = TRUE]
                 ELSE Idle
  /\ UNCHANGED <<raced, run>>

\* The approve endpoint removes it, --keep-worktree does not.
RemoveWorktree(kept) ==
  /\ operator.stored
  /\ tree' = IF kept THEN tree ELSE [tree EXCEPT ![operator.run] = "none"]
  /\ operator' = Idle
  /\ UNCHANGED <<file, pc, status, copy, proposal, validation, events>>

-----------------------------------------------------------------------------

Step(r) ==
  \/ ReadLedger(r) \/ LedgerUnreadable(r) \/ TruncateLedger(r) \/ WriteLedger(r)
  \/ CreateWorktree(r) \/ Retrieve(r)
  \/ \E tool \in Tools, answer \in Proposals : AskWorker(r, tool, answer)
  \/ CheckPolicy(r) \/ ApplyPatch(r)
  \/ \E plan \in Plans : \E result \in [Positions(plan) -> StepResults] :
       Validate(r, plan, result)
  \/ RecordEnd(r)

Operator ==
  \/ \E r \in Runs, d \in Decisions : Decide(r, d)
  \/ ReadDecided \/ StoreDecision
  \/ \E kept \in BOOLEAN : RemoveWorktree(kept)

Terminating ==
  /\ \A r \in Runs : pc[r] \in Over
  /\ operator.run = NoRun
  /\ UNCHANGED vars

Next ==
  \/ \E r \in Runs :
       \/ Start(r) \/ Step(r) \/ ServiceFails(r) \/ WriteFails(r)
       \/ \E edited \in BOOLEAN : WorkerFails(r, edited)
  \/ Crash
  \/ Operator
  \/ Terminating

Spec == Init /\ [][Next]_vars

\* Calls have time-outs, and so have the commands of validation; an operator
\* who has asked for a decision gets it stored.
FairSpec ==
  /\ Spec
  /\ \A r \in Runs : WF_vars(Step(r))
  /\ WF_vars(ReadDecided \/ StoreDecision \/ \E kept \in BOOLEAN : RemoveWorktree(kept))

-----------------------------------------------------------------------------
(* Properties.                                                             *)

\* Who has runs.json open for writing is about to write it.
TypeOK ==
  /\ ledger \in [Runs -> Status]
  /\ content \in {"whole", "empty", "garbled"}
  /\ writing \subseteq {r \in Runs : pc[r] = "write"}
  /\ raced \in BOOLEAN
  /\ pc \in [Runs -> PCs]
  /\ status \in [Runs -> Status \ {"applied", "rejected"}]
  /\ \A r \in Runs : status[r] = Absent => pc[r] = "new"
  /\ copy \in [Runs -> [Runs -> Status]]
  /\ tree \in [Runs -> {"none", "base", "edited"}]
  /\ proposal \in [Runs -> Proposals \cup {NoProposal}]
  /\ validation \in [Runs -> Outcomes]
  /\ events \in [Runs -> SUBSET Events]
  /\ operator \in {Idle} \cup [run : Runs, decision : Decisions,
                               copy : [Runs -> Status], read : BOOLEAN,
                               stored : BOOLEAN]

\* As long as nobody has read runs.json while another rewrote it, and whatever
\* fails, the file as a whole goes through the steps of RunLifecycle: one run
\* moves along an edge of VALID_TRANSITIONS and no other run moves with it.
LifecycleSteps == [][raced' \/ Lifecycle!Next]_ledger

\* Whoever writes runs.json and however they interleave, a run on record as
\* awaiting approval has a patch that was allowed, commands were there to
\* validate it with, and none of them failed or timed out in a stage that halts.
\* Its worktree has the patch in it; only an upsert that overlapped with another
\* rewrite can bring back a run that has been applied, whose worktree is gone.
AwaitingIsActionable ==
  \A r \in Runs : ledger[r] = "awaiting_approval" =>
    /\ tree[r] = "edited" \/ (raced /\ tree[r] = "none")
    /\ proposal[r] = [paths |-> "allowed", diff |-> "edits"]
    /\ ~validation[r].empty /\ "halting" \notin validation[r].failing

\* When execute() has returned, and if rewrites of runs.json have never
\* overlapped, the file tells how the run ended, or how it was decided
\* afterwards, and the event log agrees.
EndIsOnRecord ==
  \A r \in Runs : pc[r] = "done" /\ content = "whole" /\ ~raced =>
    /\ \/ ledger[r] = status[r]
       \/ status[r] = "awaiting_approval" /\ ledger[r] \in Decisions
    /\ status[r] = "awaiting_approval" <=> "run.awaiting_approval" \in events[r]

\* Every run that was started comes to an end.
EveryRunEnds == \A r \in Runs : pc[r] = "read" ~> pc[r] \in Over

\* "A normal run ends in awaiting_approval after retrieval, proposal, policy
\* checks, and validation" (docs/approval_flow.md): where each of these is done
\* and nothing fails, it ends in no error.
NormalRunAwaits ==
  \A r \in Runs :
    pc[r] = "thrown" => proposal[r] # [paths |-> "allowed", diff |-> "edits"]
=============================================================================
