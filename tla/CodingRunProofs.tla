-------------------------- MODULE CodingRunProofs --------------------------
(***************************************************************************)
(* What holds of CodingRun for all runs, tools and faults, proved with     *)
(* TLAPS: its types, that what awaits approval can be promoted, and that   *)
(* runs.json follows the lifecycle as long as no two rewrites overlap.     *)
(***************************************************************************)
EXTENDS CodingRun, TLAPS

\* The definitions that only name things.
USE DEF file, run

\* The statuses written out.
LEMMA StatusIs ==
  /\ Absent = "absent"
  /\ Status = {"absent", "created", "retrieving", "proposing", "validating",
               "awaiting_approval", "applied", "rejected", "failed"}
  /\ NoCopy \in [Runs -> Status]
  BY DEF Absent, Status, NoCopy, Lifecycle!States, Lifecycle!TerminalStates

(***************************************************************************)
(* Types.                                                                  *)
(***************************************************************************)

LEMMA TypeInit == Init => TypeOK
  <1> SUFFICES ASSUME Init PROVE TypeOK
    OBVIOUS
  <1>1. /\ ledger \in [Runs -> Status]
        /\ content = "whole" /\ writing = {} /\ raced = FALSE
        /\ copy \in [Runs -> [Runs -> Status]]
        /\ tree \in [Runs -> {"none", "base", "edited"}]
        /\ proposal \in [Runs -> Proposals \cup {NoProposal}]
        /\ validation \in [Runs -> Outcomes]
        /\ events \in [Runs -> SUBSET Events]
    BY StatusIs DEF Init, NoValidation, Outcomes
  <1>2. /\ pc \in [Runs -> PCs]
        /\ status \in [Runs -> Status \ {"applied", "rejected"}]
        /\ \A r \in Runs : status[r] = Absent => pc[r] = "new"
    BY StatusIs DEF Init, PCs
  <1>3. operator = Idle
    BY DEF Init
  <1>4. QED
    BY <1>1, <1>2, <1>3 DEF TypeOK

(***************************************************************************)
(* Validation.                                                             *)
(***************************************************************************)

LEMMA OutcomeType ==
  ASSUME NEW plan, NEW result
  PROVE  Outcome(plan, result) \in Outcomes
  BY DEF Outcome, Outcomes

\* Whatever profile a plan comes from, no stage of it is empty.
LEMMA StagesHaveCommands ==
  ASSUME NEW plan \in Plans, NEW i \in DOMAIN plan
  PROVE  1 \in DOMAIN plan[i].commands
  <1>1. PICK config \in Configs, files \in Repos : plan = ExecutionPlan(config, files)
    BY DEF Plans
  <1>2. config \in Configuration
    BY <1>1, RunAssumption
  <1>3. InferProfileName(files) \in ProfileNames
    <2>0. DOMAIN Rules = 1 .. 8
      BY DEF Rules
    <2>1. \A k \in DOMAIN Rules : Rules[k][2] \in ProfileNames
      <3>1. /\ Rules[1][2] = "swift" /\ Rules[2][2] = "python"
            /\ Rules[3][2] = "typescript" /\ Rules[4][2] = "typescript"
            /\ Rules[5][2] = "javascript" /\ Rules[6][2] = "python"
            /\ Rules[7][2] = "typescript" /\ Rules[8][2] = "javascript"
        BY DEF Rules
      <3>2. QED
        BY <2>0, <3>1 DEF ProfileNames
    <2>2. DEFINE matching == {k \in DOMAIN Rules : Rules[k][1] \cap files # {}}
    <2>3. CASE matching = {}
      BY <2>3 DEF InferProfileName, ProfileNames
    <2>4. CASE matching # {}
      <3>1. \E k \in matching : \A j \in matching : k <= j
        <4>1. matching \subseteq 1 .. 8
          BY <2>0
        <4>2. HIDE DEF matching
        <4>3. \/ 1 \in matching \/ 2 \in matching \/ 3 \in matching \/ 4 \in matching
              \/ 5 \in matching \/ 6 \in matching \/ 7 \in matching \/ 8 \in matching
          <5>1. PICK k \in matching : TRUE
            BY <2>4
          <5>2. k \in matching /\ k \in Nat /\ 1 <= k /\ k <= 8
            BY <4>1, <5>1
          <5>3. k = 1 \/ k = 2 \/ k = 3 \/ k = 4 \/ k = 5 \/ k = 6 \/ k = 7 \/ k = 8
            BY <5>2
          <5>4. QED
            BY <5>2, <5>3
        <4>4. QED
          BY <4>1, <4>3
      <3>2. (CHOOSE k \in matching : \A j \in matching : k <= j) \in matching
        BY <3>1
      <3>3. QED
        BY <2>1, <2>4, <3>2 DEF InferProfileName
    <2>5. QED
      BY <2>3, <2>4
  <1>4. ASSUME NEW commands \in Seq(STRING), commands # <<>>
        PROVE  1 \in DOMAIN commands
    BY <1>4
  <1>5. ASSUME NEW commands \in Seq(STRING), i \in DOMAIN OneStage(commands)
        PROVE  1 \in DOMAIN OneStage(commands)[i].commands
    BY <1>4, <1>5 DEF OneStage
  <1>6. ASSUME NEW p \in Profile, i \in DOMAIN ProfilePlan(p)
        PROVE  1 \in DOMAIN ProfilePlan(p)[i].commands
    <2>1. CASE p.stages = <<>>
      BY <1>5, <1>6, <2>1 DEF ProfilePlan, Profile
    <2>2. CASE p.stages # <<>>
      <3>1. /\ i \in DOMAIN p.stages
            /\ p.stages[i].commands # <<>>
            /\ ProfilePlan(p)[i].commands = p.stages[i].commands
        BY <1>6, <2>2 DEF ProfilePlan
      <3>2. p.stages[i].commands \in Seq(STRING)
        <4>1. p.stages \in Seq(ProfileStage)
          BY DEF Profile
        <4>2. p.stages[i] \in ProfileStage
          BY <3>1, <4>1
        <4>3. QED
          BY <4>2 DEF ProfileStage
      <3>3. QED
        BY <1>4, <3>1, <3>2
    <2>3. QED
      BY <2>1, <2>2
  <1>7. config.custom \in Seq(STRING)
        /\ \A n \in ProfileNames : config.profiles[n] \in Profile
    BY <1>2 DEF Configuration
  <1>8. QED
    BY <1>1, <1>3, <1>5, <1>6, <1>7 DEF ExecutionPlan, ProfileNames

\* A validation that has passed has executed something, and no command of a
\* stage that halts has failed in it.
LEMMA VerdictMeans ==
  ASSUME NEW plan \in Plans, NEW result, Verdict(plan, result)
  PROVE  ~Outcome(plan, result).empty /\ "halting" \notin Outcome(plan, result).failing
  <1>1. Executed(plan, result) = Positions(plan)
    BY DEF Verdict, Executed
  <1>2. Positions(plan) # {}
    <2>1. PICK i \in DOMAIN plan : TRUE
      BY DEF Verdict, ToDo
    <2>2. <<i, 1>> \in Positions(plan)
      BY <2>1, StagesHaveCommands DEF Positions
    <2>3. QED
      BY <2>2
  <1>3. \A p \in Positions(plan) : ~StepOk(result[p]) => ~plan[p[1]].halts
    BY DEF Verdict, Halting
  <1>4. QED
    BY <1>1, <1>2, <1>3 DEF Outcome

\* What execute() sets record.status to.
Own == Status \ {Absent, "applied", "rejected"}

\* The variables of a run that a step of it changes most.
ProgressType ==
  /\ pc \in [Runs -> PCs]
  /\ status \in [Runs -> Status \ {"applied", "rejected"}]
  /\ \A r \in Runs : status[r] = Absent => pc[r] = "new"
  /\ writing \subseteq {r \in Runs : pc[r] = "write"}

\* A step that sets record.status and turns to the ledger keeps their types.
LEMMA UpsertType ==
  ASSUME TypeOK, NEW r \in Runs, NEW s \in Own, pc[r] # "write", Upsert(r, s),
         UNCHANGED writing
  PROVE  ProgressType'
  BY StatusIs DEF TypeOK, ProgressType, Upsert, Goto, PCs, Own

\* So does one that only moves on.
LEMMA GotoType ==
  ASSUME TypeOK, NEW r \in Runs, NEW to \in PCs, pc[r] \notin {"write", "new"},
         Goto(r, to), UNCHANGED <<status, writing>>
  PROVE  ProgressType'
  BY DEF TypeOK, ProgressType, Goto

\* The steps of upsert.
LEMMA TypeLedger ==
  ASSUME TypeOK, NEW r \in Runs,
         \/ ReadLedger(r) \/ LedgerUnreadable(r) \/ TruncateLedger(r) \/ WriteLedger(r)
         \/ WriteFails(r)
  PROVE  TypeOK'
  <1>1. CASE ReadLedger(r)
    <2>1. ProgressType'
      BY <1>1, GotoType DEF ReadLedger, PCs
    <2>2. raced' \in BOOLEAN /\ copy' \in [Runs -> [Runs -> Status]]
      BY <1>1 DEF ReadLedger, TypeOK, Rewriting
    <2>3. QED
      BY <1>1, <2>1, <2>2 DEF ReadLedger, TypeOK, ProgressType
  <1>2. CASE LedgerUnreadable(r)
    <2>1. ProgressType'
      BY <1>2, GotoType DEF LedgerUnreadable, GiveUp, PCs
    <2>2. QED
      BY <1>2, <2>1 DEF LedgerUnreadable, TypeOK, ProgressType
  <1>3. CASE TruncateLedger(r)
    BY <1>3 DEF TruncateLedger, Goto, TypeOK, PCs
  <1>4. CASE WriteLedger(r)
    <2>1. status[r] \in Own
      BY <1>4 DEF WriteLedger, TypeOK, Own
    <2>2. AfterUpsert(status[r]) \in PCs
      BY <2>1, StatusIs DEF AfterUpsert, PCs, Own
    <2>3. Upserted(r) \in [Runs -> Status]
      BY DEF Upserted, TypeOK
    <2>4. /\ ledger' \in [Runs -> Status]
          /\ content' \in {"whole", "empty", "garbled"}
          /\ writing' \subseteq writing \ {r}
          /\ raced' \in BOOLEAN
      BY <1>4, <2>3 DEF WriteLedger, TypeOK, Closed
    <2>5. copy' \in [Runs -> [Runs -> Status]]
      BY <1>4, StatusIs DEF WriteLedger, TypeOK
    <2>6. ProgressType'
      BY <1>4, <2>2, <2>4 DEF WriteLedger, Goto, TypeOK, ProgressType
    <2>7. QED
      BY <1>4, <2>4, <2>5, <2>6 DEF WriteLedger, TypeOK, ProgressType
  <1>5. CASE WriteFails(r)
    <2>1. ProgressType'
      BY <1>5 DEF WriteFails, Goto, TypeOK, ProgressType, PCs, Closed
    <2>2. /\ content' \in {"whole", "empty", "garbled"}
          /\ copy' \in [Runs -> [Runs -> Status]]
      BY <1>5, StatusIs DEF WriteFails, TypeOK
    <2>3. QED
      BY <1>5, <2>1, <2>2 DEF WriteFails, TypeOK, ProgressType
  <1>6. QED
    BY <1>1, <1>2, <1>3, <1>4, <1>5

\* The steps between two upserts.
LEMMA TypeExecute ==
  ASSUME TypeOK, NEW r \in Runs,
         \/ Start(r) \/ CreateWorktree(r) \/ Retrieve(r)
         \/ \E tool \in Tools, answer \in Proposals : AskWorker(r, tool, answer)
         \/ \E edited \in BOOLEAN : WorkerFails(r, edited)
         \/ CheckPolicy(r) \/ ApplyPatch(r)
         \/ \E plan \in Plans : \E result \in [Positions(plan) -> StepResults] :
              Validate(r, plan, result)
         \/ RecordEnd(r) \/ ServiceFails(r)
  PROVE  TypeOK'
  <1> USE StatusIs
  <1>1. CASE Start(r)
    <2>1. ProgressType'
      BY <1>1, UpsertType DEF Start, Own
    <2>2. QED
      BY <1>1, <2>1 DEF Start, TypeOK, ProgressType
  <1>2. CASE CreateWorktree(r)
    <2>1. ProgressType'
      BY <1>2, UpsertType DEF CreateWorktree, Own
    <2>2. QED
      BY <1>2, <2>1 DEF CreateWorktree, TypeOK, ProgressType
  <1>3. CASE Retrieve(r)
    <2>1. ProgressType'
      BY <1>3, UpsertType DEF Retrieve, Own
    <2>2. QED
      BY <1>3, <2>1 DEF Retrieve, TypeOK, ProgressType
  <1>4. ASSUME NEW tool \in Tools, NEW answer \in Proposals, AskWorker(r, tool, answer)
        PROVE  TypeOK'
    <2>1. ProgressType'
      BY <1>4, GotoType DEF AskWorker, PCs
    <2>2. tree' \in [Runs -> {"none", "base", "edited"}]
          /\ proposal' \in [Runs -> Proposals \cup {NoProposal}]
      BY <1>4 DEF AskWorker, TypeOK
    <2>3. QED
      BY <1>4, <2>1, <2>2 DEF AskWorker, TypeOK, ProgressType
  <1>5. ASSUME NEW edited \in BOOLEAN, WorkerFails(r, edited)
        PROVE  TypeOK'
    <2>1. ProgressType'
      BY <1>5, GotoType DEF WorkerFails, PCs
    <2>2. QED
      BY <1>5, <2>1 DEF WorkerFails, TypeOK, ProgressType
  <1>6. CASE CheckPolicy(r)
    <2>1. ProgressType'
      BY <1>6, GotoType, UpsertType DEF CheckPolicy, Own, PCs
    <2>2. QED
      BY <1>6, <2>1 DEF CheckPolicy, TypeOK, ProgressType
  <1>7. CASE ApplyPatch(r)
    <2>1. ProgressType'
      BY <1>7, GotoType, UpsertType DEF ApplyPatch, Own, PCs
    <2>2. QED
      BY <1>7, <2>1 DEF ApplyPatch, TypeOK, ProgressType
  <1>8. ASSUME NEW plan \in Plans, NEW result \in [Positions(plan) -> StepResults],
               Validate(r, plan, result)
        PROVE  TypeOK'
    <2>1. ProgressType'
      BY <1>8, UpsertType DEF Validate, Own
    <2>2. validation' \in [Runs -> Outcomes]
      BY <1>8, OutcomeType DEF Validate, TypeOK
    <2>3. QED
      BY <1>8, <2>1, <2>2 DEF Validate, TypeOK, ProgressType
  <1>9. CASE RecordEnd(r)
    <2>1. ProgressType'
      BY <1>9, GotoType DEF RecordEnd, PCs
    <2>2. events' \in [Runs -> SUBSET Events]
      BY <1>9 DEF RecordEnd, TypeOK, Events
    <2>3. QED
      BY <1>9, <2>1, <2>2 DEF RecordEnd, TypeOK, ProgressType
  <1>10. CASE ServiceFails(r)
    <2>1. ProgressType'
      BY <1>10, GotoType DEF ServiceFails, PCs
    <2>2. copy' \in [Runs -> [Runs -> Status]]
      BY <1>10 DEF ServiceFails, TypeOK
    <2>3. QED
      BY <1>10, <2>1, <2>2 DEF ServiceFails, TypeOK, ProgressType
  <1>11. QED
    BY <1>1, <1>2, <1>3, <1>4, <1>5, <1>6, <1>7, <1>8, <1>9, <1>10

\* A crash, and the operator.
LEMMA TypeOther ==
  ASSUME TypeOK, Crash \/ Operator
  PROVE  TypeOK'
  <1>1. CASE Crash
    <2>1. pc' \in [Runs -> PCs] /\ \A r \in Runs : pc[r] = "new" => pc'[r] = "new"
      BY <1>1 DEF Crash, TypeOK, PCs, Over
    <2>2. QED
      BY <1>1, <2>1, StatusIs DEF Crash, TypeOK
  <1>2. ASSUME NEW r \in Runs, NEW d \in Decisions, Decide(r, d)
        PROVE  TypeOK'
    <2>1. operator' = [run |-> r, decision |-> d, copy |-> NoCopy, read |-> FALSE,
                       stored |-> FALSE]
      BY <1>2 DEF Decide, Idle
    <2>2. operator' \in [run : Runs, decision : Decisions,
                         copy : [Runs -> Status], read : BOOLEAN,
                       stored : BOOLEAN]
      BY <2>1, StatusIs
    <2>3. QED
      BY <1>2, <2>2 DEF Decide, TypeOK
  <1>3. CASE ReadDecided
    <2>1. raced' \in BOOLEAN
      BY <1>3 DEF ReadDecided, TypeOK, Rewriting
    <2>2. operator # Idle
      BY <1>3, RunAssumption DEF ReadDecided, Idle
    <2>3. operator' = Idle \/ operator' = [operator EXCEPT !.copy = ledger, !.read = TRUE]
      BY <1>3 DEF ReadDecided
    <2>4. operator' \in {Idle} \cup [run : Runs, decision : Decisions,
                                     copy : [Runs -> Status], read : BOOLEAN,
                       stored : BOOLEAN]
      <3>1. operator \in [run : Runs, decision : Decisions,
                          copy : [Runs -> Status], read : BOOLEAN,
                       stored : BOOLEAN]
        BY <2>2 DEF TypeOK
      <3>2. ledger \in [Runs -> Status]
        BY DEF TypeOK
      <3>3. QED
        BY <2>3, <3>1, <3>2
    <2>5. QED
      BY <1>3, <2>1, <2>4 DEF ReadDecided, TypeOK
  <1>4. CASE StoreDecision
    <2>1. operator \in [run : Runs, decision : Decisions,
                        copy : [Runs -> Status], read : BOOLEAN,
                       stored : BOOLEAN]
      BY <1>4 DEF StoreDecision, TypeOK, Idle
    <2>2. Decisions \subseteq Status
      BY StatusIs, RunAssumption
    <2>3. ledger' \in [Runs -> Status]
      BY <1>4, <2>1, <2>2 DEF StoreDecision
    <2>4. operator' \in {Idle} \cup [run : Runs, decision : Decisions,
                                     copy : [Runs -> Status], read : BOOLEAN,
                                     stored : BOOLEAN]
      BY <1>4, <2>1, StatusIs DEF StoreDecision, Idle
    <2>5. QED
      BY <1>4, <2>3, <2>4 DEF StoreDecision, TypeOK
  <1>5. ASSUME NEW kept \in BOOLEAN, RemoveWorktree(kept)
        PROVE  TypeOK'
    BY <1>5 DEF RemoveWorktree, TypeOK
  <1>6. QED
    BY <1>1, <1>2, <1>3, <1>4, <1>5 DEF Operator

\* Every variable keeps its type, for all runs, tools and faults.
THEOREM TypeCorrect == Spec => []TypeOK
  <1>1. TypeOK /\ [Next]_vars => TypeOK'
    <2> SUFFICES ASSUME TypeOK, [Next]_vars PROVE TypeOK'
      OBVIOUS
    <2>1. CASE UNCHANGED vars
      BY <2>1 DEF TypeOK, vars
    <2>2. CASE Next
      BY <2>1, <2>2, TypeLedger, TypeExecute, TypeOther DEF Next, Step, Terminating
    <2>3. QED
      BY <2>1, <2>2
  <1>2. QED
    BY <1>1, TypeInit, PTL DEF Spec

(***************************************************************************)
(* What awaits approval can be promoted.                                   *)
(***************************************************************************)

\* What promotion needs of a run.
Proposed(r)   == proposal[r] = [paths |-> "allowed", diff |-> "edits"]
Actionable(r) == tree[r] = "edited" /\ Proposed(r)

Validated(r) == ~validation[r].empty /\ "halting" \notin validation[r].failing

\* Where execute() is when nothing about a run changes any more but its records.
Recording == {"read", "truncate", "write", "record"} \cup Over

\* The run as execute() knows it: the patch is applied before "validating" is
\* set, and validation has passed before "awaiting_approval" is; the worktree may
\* be removed after that.
RunsAgree ==
  \A r \in Runs :
    /\ pc[r] = "apply" => PolicyAllows(r)
    /\ pc[r] = "validate" => status[r] = "validating"
    /\ status[r] = "validating" =>
         Actionable(r) /\ pc[r] \in (Recording \ {"record"}) \cup {"validate"}
    /\ status[r] = "awaiting_approval" =>
         /\ tree[r] \in {"edited", "none"} /\ Proposed(r) /\ Validated(r)
         /\ pc[r] \in Recording

\* What is in runs.json, and in everybody's copy of it, is behind execute() but
\* never ahead of it; an operator decides what has been on record as awaiting it.
NobodyIsAhead ==
  \A r \in Runs :
    \/ ledger[r] = "awaiting_approval"
    \/ \E s \in Runs : copy[s][r] = "awaiting_approval"
    \/ operator.copy[r] = "awaiting_approval"
    \/ operator.run = r
    => status[r] = "awaiting_approval"

AwaitInv == TypeOK /\ RunsAgree /\ NobodyIsAhead

LEMMA AwaitInit == Init => AwaitInv
  <1> SUFFICES ASSUME Init PROVE AwaitInv
    OBVIOUS
  <1>1. RunsAgree
    BY StatusIs DEF Init, RunsAgree
  <1>2. NobodyIsAhead
    BY StatusIs, RunAssumption DEF Init, NobodyIsAhead, Idle, NoCopy
  <1>3. QED
    BY <1>1, <1>2, TypeInit DEF AwaitInv

\* A step that moves one run on, and leaves the records and the others alone.
Elsewhere(r) ==
  \A x \in Runs \ {r} :
    /\ pc'[x] = pc[x] /\ status'[x] = status[x]
    /\ tree'[x] = tree[x] /\ proposal'[x] = proposal[x]
    /\ validation'[x] = validation[x]

\* It is enough to look at that run.
LEMMA OneRunAgrees ==
  ASSUME RunsAgree, NEW r \in Runs, Elsewhere(r),
         /\ pc'[r] = "apply" => PolicyAllows(r)'
         /\ pc'[r] = "validate" => status'[r] = "validating"
         /\ status'[r] = "validating" =>
              Actionable(r)' /\ pc'[r] \in (Recording \ {"record"}) \cup {"validate"}
         /\ status'[r] = "awaiting_approval" =>
              /\ tree'[r] \in {"edited", "none"} /\ Proposed(r)' /\ Validated(r)'
              /\ pc'[r] \in Recording
  PROVE  RunsAgree'
  BY DEF RunsAgree, Elsewhere, Actionable, Proposed, Validated, PolicyAllows

\* The steps of upsert copy what nobody is ahead of.
LEMMA AwaitLedger ==
  ASSUME AwaitInv, NEW r \in Runs,
         \/ ReadLedger(r) \/ LedgerUnreadable(r) \/ TruncateLedger(r) \/ WriteLedger(r)
         \/ WriteFails(r)
  PROVE  RunsAgree' /\ NobodyIsAhead'
  <1> USE StatusIs DEF AwaitInv
  <1>1. UNCHANGED <<status, tree, proposal, validation, operator>>
    BY DEF ReadLedger, LedgerUnreadable, TruncateLedger, WriteLedger, WriteFails
  <1>2. RunsAgree'
    <2>1. Elsewhere(r)
      BY <1>1 DEF ReadLedger, LedgerUnreadable, TruncateLedger, WriteLedger, WriteFails,
                  Goto, GiveUp, TypeOK, Elsewhere
    <2>2. CASE ~WriteLedger(r)
      <3>1. /\ pc'[r] \in {"truncate", "write", "thrown"}
            /\ pc[r] \in {"read", "truncate", "write"}
        BY <2>2 DEF ReadLedger, LedgerUnreadable, TruncateLedger, WriteFails, Goto, GiveUp, TypeOK
      <3>2. QED
        BY <1>1, <2>1, <3>1, OneRunAgrees
        DEF RunsAgree, Actionable, Proposed, Validated, Recording, Over
    <2>3. CASE WriteLedger(r)
      <3>1. status[r] \in Own /\ pc[r] = "write"
        BY <2>3 DEF WriteLedger, TypeOK, Own
      <3>2. pc'[r] = AfterUpsert(status[r])
        BY <2>3 DEF WriteLedger, Goto, TypeOK
      <3>3. /\ status[r] = "validating" <=> pc'[r] = "validate"
            /\ status[r] = "awaiting_approval" => pc'[r] = "record"
            /\ pc'[r] # "apply"
        BY <3>1, <3>2 DEF AfterUpsert, Own
      <3>4. QED
        BY <1>1, <2>1, <3>1, <3>3, OneRunAgrees
        DEF RunsAgree, Actionable, Proposed, Validated, Recording
    <2>4. QED
      BY <2>2, <2>3
  <1>3. NobodyIsAhead'
    <2>1. CASE WriteLedger(r)
      <3>1. \A x \in Runs : Upserted(r)[x] = "awaiting_approval" =>
                              status[x] = "awaiting_approval"
        BY DEF Upserted, NobodyIsAhead, TypeOK
      <3>2. \A x \in Runs : ledger'[x] = "awaiting_approval" =>
                              status[x] = "awaiting_approval"
        BY <2>1, <3>1 DEF WriteLedger, NobodyIsAhead
      <3>3. \A s, x \in Runs : copy'[s][x] = "awaiting_approval" =>
                                 copy[s][x] = "awaiting_approval"
        BY <2>1 DEF WriteLedger, TypeOK, NoCopy
      <3>4. QED
        BY <1>1, <3>2, <3>3 DEF NobodyIsAhead
    <2>2. CASE ReadLedger(r)
      <3>1. \A s, x \in Runs : copy'[s][x] = copy[s][x] \/ copy'[s][x] = ledger[x]
        BY <2>2 DEF ReadLedger, TypeOK
      <3>2. QED
        BY <1>1, <2>2, <3>1 DEF ReadLedger, NobodyIsAhead
    <2>3. CASE LedgerUnreadable(r) \/ TruncateLedger(r)
      BY <1>1, <2>3 DEF LedgerUnreadable, TruncateLedger, NobodyIsAhead
    <2>4. CASE WriteFails(r)
      <3>1. \A s, x \in Runs : copy'[s][x] = "awaiting_approval" =>
                                 copy[s][x] = "awaiting_approval"
        BY <2>4 DEF WriteFails, TypeOK, NoCopy
      <3>2. QED
        BY <1>1, <2>4, <3>1 DEF WriteFails, NobodyIsAhead
    <2>5. QED
      BY <2>1, <2>2, <2>3, <2>4
  <1>4. QED
    BY <1>2, <1>3

\* The steps between two upserts: none is taken once a run awaits approval.
LEMMA AwaitExecute ==
  ASSUME AwaitInv, NEW r \in Runs,
         \/ Start(r) \/ CreateWorktree(r) \/ Retrieve(r)
         \/ \E tool \in Tools, answer \in Proposals : AskWorker(r, tool, answer)
         \/ \E edited \in BOOLEAN : WorkerFails(r, edited)
         \/ CheckPolicy(r) \/ ApplyPatch(r)
         \/ \E plan \in Plans : \E result \in [Positions(plan) -> StepResults] :
              Validate(r, plan, result)
         \/ RecordEnd(r) \/ ServiceFails(r)
  PROVE  RunsAgree' /\ NobodyIsAhead'
  <1> USE DEF AwaitInv
  <1>1. Elsewhere(r)
    BY DEF Start, CreateWorktree, Retrieve, AskWorker, WorkerFails, CheckPolicy,
           ApplyPatch, Validate, RecordEnd, ServiceFails, Upsert, Goto, TypeOK, Elsewhere
  <1>2. RunsAgree'
    <2>1. CASE Start(r) \/ CreateWorktree(r) \/ Retrieve(r)
      <3>1. pc'[r] = "read" /\ status'[r] \in {"created", "retrieving", "proposing"}
        BY <2>1 DEF Start, CreateWorktree, Retrieve, Upsert, Goto, TypeOK
      <3>2. QED
        BY <1>1, <3>1, OneRunAgrees
    <2>2. CASE \/ \E tool \in Tools, answer \in Proposals : AskWorker(r, tool, answer)
               \/ \E edited \in BOOLEAN : WorkerFails(r, edited)
      <3>1. pc[r] = "worker" /\ pc'[r] \in {"policy", "thrown"} /\ status'[r] = status[r]
        BY <2>2 DEF AskWorker, WorkerFails, Goto, TypeOK
      <3>2. status[r] \notin {"validating", "awaiting_approval"}
        BY <3>1 DEF RunsAgree, Recording, Over
      <3>3. QED
        BY <1>1, <3>1, <3>2, OneRunAgrees
    <2>3. CASE CheckPolicy(r)
      <3>1. status[r] \notin {"validating", "awaiting_approval"}
        BY <2>3 DEF CheckPolicy, RunsAgree, Recording, Over
      <3>2. \/ pc'[r] = "apply" /\ PolicyAllows(r) /\ UNCHANGED <<status, proposal>>
            \/ pc'[r] = "read" /\ status'[r] = "failed"
        BY <2>3 DEF CheckPolicy, Upsert, Goto, TypeOK
      <3>3. QED
        BY <1>1, <3>1, <3>2, OneRunAgrees DEF PolicyAllows
    <2>4. CASE ApplyPatch(r)
      <3>1. status[r] \notin {"validating", "awaiting_approval"} /\ PolicyAllows(r)
        BY <2>4 DEF ApplyPatch, RunsAgree, Recording, Over
      <3>2. CASE GitApplies(r)
        <4>1. proposal[r] \in Proposals /\ proposal[r].diff = "edits"
              /\ proposal[r].paths = "allowed"
          BY <3>1, <3>2 DEF GitApplies, PolicyAllows, TypeOK, NoProposal
        <4>2. proposal[r] = [paths |-> "allowed", diff |-> "edits"]
          BY <4>1 DEF Proposals
        <4>3. /\ pc'[r] = "read" /\ status'[r] = "validating"
              /\ tree'[r] = "edited" /\ proposal'[r] = proposal[r]
          BY <2>4, <3>2 DEF ApplyPatch, Upsert, Goto, TypeOK
        <4>4. QED
          BY <1>1, <4>2, <4>3, OneRunAgrees DEF Actionable, Proposed, Recording
      <3>3. CASE ~GitApplies(r)
        <4>1. pc'[r] = "thrown" /\ status'[r] = status[r]
          BY <2>4, <3>3 DEF ApplyPatch, Goto, TypeOK
        <4>2. QED
          BY <1>1, <3>1, <4>1, OneRunAgrees
      <3>4. QED
        BY <3>2, <3>3
    <2>5. ASSUME NEW plan \in Plans, NEW result \in [Positions(plan) -> StepResults],
                 Validate(r, plan, result)
          PROVE  RunsAgree'
      <3>1. Actionable(r)
        BY <2>5 DEF Validate, RunsAgree
      <3>2. /\ pc'[r] = "read"
            /\ status'[r] \in {"awaiting_approval", "failed"}
            /\ status'[r] = "awaiting_approval" => Verdict(plan, result)
            /\ validation'[r] = Outcome(plan, result)
            /\ tree'[r] = tree[r] /\ proposal'[r] = proposal[r]
        BY <2>5 DEF Validate, Upsert, Goto, TypeOK
      <3>3. status'[r] = "awaiting_approval" => Validated(r)'
        BY <3>2, VerdictMeans DEF Validated
      <3>4. QED
        BY <1>1, <3>1, <3>2, <3>3, OneRunAgrees DEF Actionable, Proposed, Recording
    <2>6. CASE RecordEnd(r) \/ ServiceFails(r)
      <3>1. /\ pc'[r] \in {"thrown", "done"}
            /\ UNCHANGED <<status, tree, proposal, validation>>
            /\ RecordEnd(r) => pc[r] = "record"
        BY <2>6 DEF RecordEnd, ServiceFails, Goto, TypeOK
      <3>2. QED
        BY <1>1, <3>1, OneRunAgrees
        DEF RunsAgree, Actionable, Proposed, Validated, Recording, Over
    <2>7. QED
      BY <2>1, <2>2, <2>3, <2>4, <2>5, <2>6
  <1>3. NobodyIsAhead'
    <2>1. status[r] = "awaiting_approval" => status'[r] = "awaiting_approval"
      BY DEF Start, CreateWorktree, Retrieve, AskWorker, WorkerFails, CheckPolicy,
             ApplyPatch, Validate, RecordEnd, ServiceFails, Upsert, TypeOK,
             RunsAgree, Recording, Over
    <2>2. \A x \in Runs : status[x] = "awaiting_approval" =>
                            status'[x] = "awaiting_approval"
      BY <1>1, <2>1 DEF Elsewhere
    <2>3. UNCHANGED <<ledger, operator>>
      BY DEF Start, CreateWorktree, Retrieve, AskWorker, WorkerFails, CheckPolicy,
             ApplyPatch, Validate, RecordEnd, ServiceFails
    <2>4. \A s, x \in Runs : copy'[s][x] = "awaiting_approval" =>
                               copy[s][x] = "awaiting_approval"
      <3>1. copy' \in {copy, [copy EXCEPT ![r] = NoCopy]}
        BY DEF Start, CreateWorktree, Retrieve, AskWorker, WorkerFails,
               CheckPolicy, ApplyPatch, Validate, RecordEnd, ServiceFails
      <3>2. \A x \in Runs : NoCopy[x] # "awaiting_approval"
        BY StatusIs DEF NoCopy
      <3>3. QED
        BY <3>1, <3>2 DEF TypeOK
    <2>5. QED
      BY <2>2, <2>3, <2>4 DEF NobodyIsAhead
  <1>4. QED
    BY <1>2, <1>3

\* A crash forgets copies, and the operator never writes "awaiting_approval" nor
\* removes the worktree of a run that has not reached it.
LEMMA AwaitOther ==
  ASSUME AwaitInv, Crash \/ Operator
  PROVE  RunsAgree' /\ NobodyIsAhead'
  <1> USE StatusIs DEF AwaitInv
  <1>1. UNCHANGED <<status, proposal, validation>>
    BY DEF Crash, Operator, Decide, ReadDecided, StoreDecision, RemoveWorktree
  <1>2. CASE Crash
    <2>1. UNCHANGED tree /\ \A r \in Runs : pc'[r] = pc[r] \/ pc'[r] = "dead"
      BY <1>2 DEF Crash
    <2>2. RunsAgree'
      BY <1>1, <2>1
      DEF RunsAgree, Actionable, Proposed, Validated, PolicyAllows, Recording, Over
    <2>3. NobodyIsAhead'
      BY <1>1, <1>2 DEF Crash, NobodyIsAhead, NoCopy
    <2>4. QED
      BY <2>2, <2>3
  <1>3. CASE Operator
    <2>1. UNCHANGED <<pc, copy>>
      BY <1>3 DEF Operator, Decide, ReadDecided, StoreDecision, RemoveWorktree
    <2>2. RunsAgree'
      <3>1. \A r \in Runs : \/ tree'[r] = tree[r]
                            \/ tree'[r] = "none" /\ status[r] = "awaiting_approval"
        <4>1. CASE \E kept \in BOOLEAN : RemoveWorktree(kept)
          BY <4>1 DEF RemoveWorktree, NobodyIsAhead, TypeOK
        <4>2. CASE ~\E kept \in BOOLEAN : RemoveWorktree(kept)
          BY <1>3, <4>2 DEF Operator, Decide, ReadDecided, StoreDecision
        <4>3. QED
          BY <4>1, <4>2
      <3>2. QED
        BY <1>1, <2>1, <3>1 DEF RunsAgree, Actionable, Proposed, Validated, PolicyAllows
    <2>3. \A r \in Runs : Idle.copy[r] # "awaiting_approval"
      BY DEF Idle, NoCopy
    <2>4. \A r \in Runs : operator'.copy[r] = "awaiting_approval" \/ operator'.run = r =>
                            status[r] = "awaiting_approval"
      <3>1. CASE operator' = Idle
        BY <2>3, <3>1, RunAssumption DEF Idle
      <3>2. CASE operator' # Idle
        <4>1. CASE ReadDecided
          <5>1. operator' = [operator EXCEPT !.copy = ledger, !.read = TRUE]
            BY <3>2, <4>1 DEF ReadDecided
          <5>2. operator # Idle
            BY <4>1, RunAssumption DEF ReadDecided, Idle
          <5>3. operator'.copy = ledger /\ operator'.run = operator.run
            BY <5>1, <5>2 DEF TypeOK
          <5>4. QED
            BY <5>3 DEF NobodyIsAhead
        <4>2. ASSUME NEW o \in Runs, NEW d \in Decisions, Decide(o, d)
              PROVE  \A r \in Runs :
                       operator'.copy[r] = "awaiting_approval" \/ operator'.run = r =>
                         status[r] = "awaiting_approval"
          <5>1. operator'.copy = NoCopy /\ operator'.run = o /\ ledger[o] = "awaiting_approval"
            BY <4>2 DEF Decide, Idle
          <5>2. QED
            BY <5>1 DEF NoCopy, NobodyIsAhead
        <4>3. CASE StoreDecision
          <5>1. operator'.copy = NoCopy /\ operator'.run = operator.run
            BY <3>2, <4>3 DEF StoreDecision, Idle
          <5>2. QED
            BY <5>1 DEF NoCopy, NobodyIsAhead
        <4>4. QED
          BY <1>3, <3>2, <4>1, <4>2, <4>3 DEF Operator, RemoveWorktree
      <3>3. QED
        BY <3>1, <3>2
    <2>5. \A r \in Runs : ledger'[r] = "awaiting_approval" =>
                            status[r] = "awaiting_approval"
      <3>1. CASE StoreDecision
        <4>1. operator \in [run : Runs, decision : Decisions,
                            copy : [Runs -> Status], read : BOOLEAN,
                       stored : BOOLEAN]
          BY <3>1 DEF StoreDecision, TypeOK, Idle
        <4>2. \A r \in Runs : ledger'[r] = operator.copy[r] \/ ledger'[r] \in Decisions
          BY <3>1, <4>1 DEF StoreDecision
        <4>3. QED
          BY <4>2, RunAssumption DEF NobodyIsAhead
      <3>2. CASE ~StoreDecision
        <4>1. UNCHANGED ledger
          BY <1>3, <3>2 DEF Operator, Decide, ReadDecided, RemoveWorktree
        <4>2. QED
          BY <4>1 DEF NobodyIsAhead
      <3>3. QED
        BY <3>1, <3>2
    <2>6. QED
      BY <1>1, <2>1, <2>2, <2>4, <2>5 DEF NobodyIsAhead
  <1>4. QED
    BY <1>2, <1>3

LEMMA AwaitStep == AwaitInv /\ [Next]_vars => AwaitInv'
  <1> SUFFICES ASSUME AwaitInv, [Next]_vars PROVE RunsAgree' /\ NobodyIsAhead' /\ TypeOK'
    BY DEF AwaitInv
  <1>1. CASE UNCHANGED vars
    BY <1>1 DEF AwaitInv, TypeOK, RunsAgree, NobodyIsAhead, Actionable, Proposed, Validated,
                PolicyAllows, vars
  <1>2. CASE Next
    <2>1. TypeOK'
      BY <1>2, TypeLedger, TypeExecute, TypeOther
         DEF AwaitInv, Next, Step, Terminating, TypeOK, vars
    <2>2. RunsAgree' /\ NobodyIsAhead'
      BY <1>1, <1>2, AwaitLedger, AwaitExecute, AwaitOther DEF Next, Step, Terminating
    <2>3. QED
      BY <2>1, <2>2
  <1>3. QED
    BY <1>1, <1>2

(***************************************************************************)
(* The ledger and the ends of runs.  As long as nobody has read runs.json  *)
(* while another rewrote it, there is one rewriter at a time and what it   *)
(* has read is the ledger: a write moves one run one step on.              *)
(***************************************************************************)

\* The steps of a run that an upsert may be about to write.
Upserts ==
  { <<Absent, "created">>, <<"created", "retrieving">>, <<"retrieving", "proposing">>,
    <<"proposing", "validating">>, <<"proposing", "failed">>,
    <<"validating", "awaiting_approval">>, <<"validating", "failed">> }

\* The status of a run between two upserts.
Stage == [worktree |-> "created", retrieve |-> "retrieving", worker |-> "proposing",
          policy |-> "proposing", apply |-> "proposing", validate |-> "validating"]

\* The record of a run says how far it is, and its events how it has ended.
Keeps(r) ==
  /\ pc[r] \in DOMAIN Stage => status[r] = Stage[pc[r]]
  /\ pc[r] \in {"record", "done"} => status[r] \in {"awaiting_approval", "failed"}
  /\ events[r] # {} => pc[r] \in {"done", "thrown"}
  /\ pc[r] = "done" =>
       (status[r] = "awaiting_approval" <=> "run.awaiting_approval" \in events[r])

\* The ledger is one upsert behind, or tells how the run has been decided.
OnRecord(r) ==
  /\ pc[r] = "new" => ledger[r] = Absent
  /\ pc[r] \in {"read", "truncate", "write"} => <<ledger[r], status[r]>> \in Upserts
  /\ pc[r] \in DOMAIN Stage => ledger[r] = status[r]
  /\ pc[r] \in {"record", "done"} =>
       \/ ledger[r] = status[r]
       \/ status[r] = "awaiting_approval" /\ ledger[r] \in Decisions

OneRewriter ==
  /\ \A r, s \in Runs :
       pc[r] \in {"truncate", "write"} /\ pc[s] \in {"truncate", "write"} => r = s
  /\ \A r \in Runs :
       /\ pc[r] \in {"truncate", "write"} => ~operator.read /\ copy[r] = ledger
       /\ pc[r] = "write" => r \in writing
  /\ operator.read => operator.copy = ledger
  /\ operator.run # NoRun =>
       ledger[operator.run] = IF operator.stored THEN "applied" ELSE "awaiting_approval"
  /\ operator.stored => operator.run # NoRun /\ ~operator.read

Solo == OneRewriter /\ \A r \in Runs : OnRecord(r)

RecordInv == (\A r \in Runs : Keeps(r)) /\ (raced \/ Solo)

\* Nothing is written of a run, and nothing said of its end, until it ends.
LEMMA KeepsStays ==
  ASSUME TypeOK, \A r \in Runs : Keeps(r), [Next]_vars
  PROVE  \A r \in Runs : Keeps(r)'
  <1> USE StatusIs DEF Keeps, Stage
  <1>1. ASSUME NEW r \in Runs,
               \/ Start(r) \/ Step(r) \/ ServiceFails(r) \/ WriteFails(r)
               \/ \E edited \in BOOLEAN : WorkerFails(r, edited),
               NEW x \in Runs
        PROVE  Keeps(x)'
    <2>1. CASE x # r
      <3>1. pc'[x] = pc[x] /\ status'[x] = status[x] /\ events'[x] = events[x]
        BY <1>1, <2>1
        DEF Step, Start, ReadLedger, LedgerUnreadable, GiveUp, TruncateLedger, WriteLedger,
            CreateWorktree, Retrieve, AskWorker, WorkerFails, CheckPolicy, ApplyPatch,
            Validate, RecordEnd, ServiceFails, WriteFails, Upsert, Goto, TypeOK
      <3>2. QED
        BY <3>1
    <2>2. CASE x = r
      <3>1. CASE Start(r) \/ CreateWorktree(r) \/ Retrieve(r)
        <4>1. /\ pc[r] \in {"new", "worktree", "retrieve"} /\ pc'[r] = "read"
              /\ events' = events
          BY <3>1 DEF Start, CreateWorktree, Retrieve, Upsert, Goto, TypeOK
        <4>2. QED
          BY <2>2, <4>1
      <3>2. CASE \/ \E tool \in Tools, answer \in Proposals : AskWorker(r, tool, answer)
                 \/ \E edited \in BOOLEAN : WorkerFails(r, edited)
        BY <2>2, <3>2 DEF AskWorker, WorkerFails, Goto, TypeOK
      <3>3. CASE CheckPolicy(r) \/ ApplyPatch(r)
        BY <2>2, <3>3 DEF CheckPolicy, ApplyPatch, Upsert, Goto, TypeOK
      <3>4. CASE \E plan \in Plans : \E result \in [Positions(plan) -> StepResults] :
                   Validate(r, plan, result)
        <4>1. pc[r] = "validate" /\ pc'[r] = "read" /\ events' = events
          BY <3>4 DEF Validate, Upsert, Goto, TypeOK
        <4>2. QED
          BY <2>2, <4>1
      <3>5. CASE \/ ReadLedger(r) \/ LedgerUnreadable(r) \/ TruncateLedger(r)
                 \/ ServiceFails(r) \/ WriteFails(r)
        BY <2>2, <3>5
        DEF ReadLedger, LedgerUnreadable, GiveUp, TruncateLedger, ServiceFails, WriteFails,
            Goto, TypeOK
      <3>6. CASE WriteLedger(r)
        <4>1. status[r] \in Own
          BY <3>6 DEF WriteLedger, TypeOK, Own
        <4>2. pc'[r] = AfterUpsert(status[r]) /\ UNCHANGED <<status, events>> /\ pc[r] = "write"
          BY <3>6 DEF WriteLedger, Goto, TypeOK
        <4>3. QED
          BY <2>2, <4>1, <4>2 DEF AfterUpsert, Own
      <3>7. CASE RecordEnd(r)
        <4>1. /\ status[r] \in {"awaiting_approval", "failed"} /\ events[r] = {}
              /\ status' = status
          BY <3>7 DEF RecordEnd
        <4>2. CASE PolicyAllows(r)
          <5>1. /\ pc'[r] = "done"
                /\ events'[r] = {IF status[r] = "failed" THEN "run.failed"
                                 ELSE "run.awaiting_approval"}
            BY <3>7, <4>1, <4>2 DEF RecordEnd, Goto, TypeOK
          <5>2. QED
            BY <2>2, <4>1, <5>1
        <4>3. CASE ~PolicyAllows(r)
          BY <2>2, <3>7, <4>1, <4>3 DEF RecordEnd, Goto, TypeOK
        <4>4. QED
          BY <4>2, <4>3
      <3>8. QED
        BY <1>1, <3>1, <3>2, <3>3, <3>4, <3>5, <3>6, <3>7 DEF Step
    <2>3. QED
      BY <2>1, <2>2
  <1>2. CASE Crash
    <2>1. /\ UNCHANGED <<status, events>>
          /\ \A r \in Runs : pc'[r] = IF pc[r] \in Over \cup {"new"} THEN pc[r] ELSE "dead"
      BY <1>2 DEF Crash
    <2>2. QED
      BY <2>1 DEF Over
  <1>3. CASE Operator \/ UNCHANGED vars
    BY <1>3 DEF Operator, Decide, ReadDecided, StoreDecision, RemoveWorktree, vars
  <1>4. QED
    BY <1>1, <1>2, <1>3 DEF Next, Terminating

\* A step of one run that leaves runs.json alone and does not open it.
LEMMA SoloMoves ==
  ASSUME TypeOK, Solo, NEW r \in Runs,
         UNCHANGED <<ledger, operator>>, writing \ {r} \subseteq writing',
         \A x \in Runs \ {r} : pc'[x] = pc[x] /\ status'[x] = status[x] /\ copy'[x] = copy[x],
         pc'[r] \notin {"truncate", "write"},
         OnRecord(r)'
  PROVE  Solo'
  <1>1. \A x \in Runs : OnRecord(x)'
    BY DEF Solo, OnRecord
  <1>2. OneRewriter'
    BY DEF Solo, OneRewriter
  <1>3. QED
    BY <1>1, <1>2 DEF Solo

LEMMA SoloExecute ==
  ASSUME TypeOK, Solo, NEW r \in Runs, Keeps(r),
         \/ Start(r) \/ CreateWorktree(r) \/ Retrieve(r)
         \/ \E tool \in Tools, answer \in Proposals : AskWorker(r, tool, answer)
         \/ \E edited \in BOOLEAN : WorkerFails(r, edited)
         \/ CheckPolicy(r) \/ ApplyPatch(r)
         \/ \E plan \in Plans : \E result \in [Positions(plan) -> StepResults] :
              Validate(r, plan, result)
         \/ RecordEnd(r) \/ ServiceFails(r) \/ WriteFails(r) \/ LedgerUnreadable(r)
  PROVE  Solo' /\ UNCHANGED ledger
  <1> USE StatusIs
  <1>1. /\ UNCHANGED <<ledger, operator>> /\ writing \ {r} \subseteq writing'
        /\ \A x \in Runs \ {r} :
             pc'[x] = pc[x] /\ status'[x] = status[x] /\ copy'[x] = copy[x]
        /\ pc'[r] \notin {"truncate", "write"}
    BY DEF Start, CreateWorktree, Retrieve, AskWorker, WorkerFails, CheckPolicy, ApplyPatch,
       Validate, RecordEnd, ServiceFails, WriteFails, Closed, LedgerUnreadable, GiveUp, Upsert, Goto, TypeOK
  <1>2. OnRecord(r)
    BY DEF Solo
  <1>3. OnRecord(r)'
    <2> USE DEF OnRecord, Upserts, Stage, Keeps, Goto, Upsert, TypeOK
    <2>1. CASE Start(r) \/ CreateWorktree(r) \/ Retrieve(r)
      BY <1>1, <1>2, <2>1 DEF Start, CreateWorktree, Retrieve
    <2>2. CASE \/ \E tool \in Tools, answer \in Proposals : AskWorker(r, tool, answer)
               \/ \E edited \in BOOLEAN : WorkerFails(r, edited)
      BY <1>1, <1>2, <2>2 DEF AskWorker, WorkerFails
    <2>3. CASE CheckPolicy(r) \/ ApplyPatch(r)
      BY <1>1, <1>2, <2>3 DEF CheckPolicy, ApplyPatch
    <2>4. CASE \E plan \in Plans : \E result \in [Positions(plan) -> StepResults] :
                 Validate(r, plan, result)
      BY <1>1, <1>2, <2>4 DEF Validate
    <2>5. CASE RecordEnd(r) \/ ServiceFails(r) \/ WriteFails(r) \/ LedgerUnreadable(r)
      BY <1>1, <1>2, <2>5 DEF RecordEnd, ServiceFails, WriteFails, LedgerUnreadable, GiveUp
    <2>6. QED
      BY <2>1, <2>2, <2>3, <2>4, <2>5
  <1>4. QED
    BY <1>1, <1>3, SoloMoves

\* The steps of upsert, but the one that writes.
LEMMA SoloOpens ==
  ASSUME TypeOK, Solo, NEW r \in Runs, ReadLedger(r) \/ TruncateLedger(r), ~raced'
  PROVE  Solo' /\ UNCHANGED ledger
  <1>1. /\ UNCHANGED <<ledger, status, operator>>
        /\ \A x \in Runs \ {r} : pc'[x] = pc[x] /\ copy'[x] = copy[x]
        /\ pc[r] \in {"read", "truncate"} /\ pc'[r] \in {"truncate", "write"}
    BY DEF ReadLedger, TruncateLedger, Goto, TypeOK
  <1>2. \A x \in Runs : OnRecord(x)'
    BY <1>1 DEF Solo, OnRecord, Stage
  <1>3. OneRewriter'
    <2>1. CASE ReadLedger(r)
      <3>1. /\ ~operator.read /\ \A x \in Runs : pc[x] \notin {"truncate", "write"}
            /\ pc'[r] = "truncate" /\ copy'[r] = ledger
        BY <2>1 DEF ReadLedger, Rewriting, Goto, TypeOK
      <3>2. QED
        BY <1>1, <3>1 DEF Solo, OneRewriter
    <2>2. CASE TruncateLedger(r)
      <3>1. copy' = copy /\ writing' = writing \cup {r} /\ pc[r] = "truncate"
        BY <2>2 DEF TruncateLedger
      <3>2. QED
        BY <1>1, <3>1 DEF Solo, OneRewriter
    <2>3. QED
      BY <2>1, <2>2
  <1>4. QED
    BY <1>1, <1>2, <1>3 DEF Solo

\* And that one.
LEMMA SoloWrites ==
  ASSUME TypeOK, Solo, NEW r \in Runs, WriteLedger(r)
  PROVE  /\ Solo'
         /\ ledger' = [ledger EXCEPT ![r] = status[r]]
         /\ <<ledger[r], status[r]>> \in Upserts
  <1> USE StatusIs
  <1>1. pc[r] = "write" /\ copy[r] = ledger /\ r \in writing /\ ~operator.read
    BY DEF WriteLedger, Solo, OneRewriter
  <1>2. <<ledger[r], status[r]>> \in Upserts
    BY <1>1 DEF Solo, OnRecord
  <1>3. ledger' = [ledger EXCEPT ![r] = status[r]]
    BY <1>1 DEF WriteLedger, Upserted
  <1>4. /\ UNCHANGED <<status, operator>> /\ status[r] \in Own
        /\ pc' = [pc EXCEPT ![r] = AfterUpsert(status[r])]
        /\ ledger'[r] = status[r]
        /\ \A x \in Runs \ {r} : ledger'[x] = ledger[x] /\ pc'[x] = pc[x]
    BY <1>1, <1>3 DEF WriteLedger, Goto, TypeOK, Own
  <1>5. \A x \in Runs : OnRecord(x)'
    <2>1. OnRecord(r)'
      BY <1>4 DEF OnRecord, AfterUpsert, Own, Stage, TypeOK
    <2>2. ASSUME NEW x \in Runs \ {r} PROVE OnRecord(x)'
      BY <1>4 DEF Solo, OnRecord
    <2>3. QED
      BY <2>1, <2>2
  <1>6. OneRewriter'
    <2>1. \A x \in Runs : pc'[x] \notin {"truncate", "write"}
      <3>1. pc'[r] \notin {"truncate", "write"}
        BY <1>4 DEF AfterUpsert, Own, TypeOK
      <3>2. \A x \in Runs \ {r} : pc[x] \notin {"truncate", "write"}
        BY <1>1 DEF Solo, OneRewriter
      <3>3. QED
        BY <1>4, <3>1, <3>2
    <2>2. operator.run # NoRun => operator.run # r /\ operator.run \in Runs
      <3>1. ledger[r] \notin {"awaiting_approval", "applied"}
        BY <1>2 DEF Upserts
      <3>2. QED
        BY <3>1 DEF Solo, OneRewriter, TypeOK, Idle
    <2>3. QED
      BY <1>1, <1>4, <2>1, <2>2 DEF Solo, OneRewriter
  <1>7. QED
    BY <1>2, <1>3, <1>5, <1>6 DEF Solo

\* A crash, and the operator.  One who has read runs.json while nobody rewrote
\* it decides a run that awaits approval in it still.
LEMMA SoloOther ==
  ASSUME TypeOK, Solo, \A r \in Runs : Keeps(r), Crash \/ Operator, ~raced'
  PROVE  Solo' /\ (UNCHANGED ledger \/ Lifecycle!Next)
  <1> USE StatusIs
  <1>1. CASE Crash
    <2>1. /\ UNCHANGED <<ledger, status, operator>>
          /\ \A r \in Runs : pc'[r] = pc[r] \/ pc'[r] = "dead"
          /\ \A r \in Runs : pc'[r] \notin {"truncate", "write"} \cup (DOMAIN Stage)
      BY <1>1 DEF Crash, Over, Stage
    <2>2. \A r \in Runs : OnRecord(r)'
      BY <2>1 DEF Solo, OnRecord
    <2>3. OneRewriter'
      BY <2>1 DEF Solo, OneRewriter
    <2>4. QED
      BY <2>1, <2>2, <2>3 DEF Solo
  <1>2. ASSUME NEW r \in Runs, NEW d \in Decisions, Decide(r, d)
        PROVE  Solo' /\ UNCHANGED ledger
    <2>1. /\ UNCHANGED <<ledger, writing, pc, status, copy>>
          /\ operator'.run = r /\ operator'.read = FALSE /\ operator'.stored = FALSE
          /\ ledger[r] = "awaiting_approval"
      BY <1>2 DEF Decide, Idle
    <2>2. QED
      BY <2>1 DEF Solo, OneRewriter, OnRecord, Stage
  <1>3. CASE ReadDecided
    <2>1. /\ UNCHANGED <<ledger, writing, pc, status, copy>>
          /\ \A r \in Runs : pc[r] \notin {"truncate", "write"}
      BY <1>3 DEF ReadDecided, Rewriting
    <2>2. operator \in [run : Runs, decision : Decisions,
                       copy : [Runs -> Status], read : BOOLEAN,
                       stored : BOOLEAN]
      BY <1>3, RunAssumption DEF ReadDecided, Idle, TypeOK
    <2>3. \/ operator' = Idle
          \/ operator' = [operator EXCEPT !.copy = ledger, !.read = TRUE]
      BY <1>3 DEF ReadDecided
    <2>4. /\ operator'.read => operator'.copy = ledger
          /\ operator'.run # NoRun => ledger[operator'.run] = "awaiting_approval"
          /\ ~operator'.stored
      <3>1. CASE operator' = Idle
        BY <3>1 DEF Idle
      <3>2. CASE operator' = [operator EXCEPT !.copy = ledger, !.read = TRUE]
        <4>1. /\ operator'.copy = ledger /\ operator'.run = operator.run
              /\ operator'.stored = operator.stored
          BY <2>2, <3>2
        <4>2. QED
          BY <1>3, <4>1 DEF ReadDecided, Solo, OneRewriter
      <3>3. QED
        BY <2>3, <3>1, <3>2
    <2>5. QED
      BY <2>1, <2>4 DEF Solo, OneRewriter, OnRecord, Stage
  <1>4. CASE StoreDecision
    <2>1. operator \in [run : Runs, decision : Decisions,
                       copy : [Runs -> Status], read : BOOLEAN,
                       stored : BOOLEAN]
      BY <1>4 DEF StoreDecision, Idle, TypeOK
    <2>2. PICK o \in Runs, d \in Decisions : operator.run = o /\ operator.decision = d
      BY <2>1
    <2>3. /\ d \in {"applied", "rejected", "failed"} /\ o # NoRun
          /\ UNCHANGED <<pc, status, copy>>
          /\ operator' = IF d = "applied"
                         THEN [Idle EXCEPT !.run = o, !.decision = "applied", !.stored = TRUE]
                         ELSE Idle
          /\ ledger' = [ledger EXCEPT ![o] = d]
          /\ ledger[o] = "awaiting_approval"
          /\ \A r \in Runs : pc[r] \notin {"truncate", "write"}
      BY <1>4, <2>2, RunAssumption DEF StoreDecision, Solo, OneRewriter
    <2>4. ledger'[o] = d /\ \A x \in Runs \ {o} : ledger'[x] = ledger[x]
      BY <2>2, <2>3 DEF TypeOK
    <2>5. OnRecord(o)'
      <3>1. OnRecord(o)
        BY <2>2 DEF Solo
      <3>2. pc[o] \notin {"new", "read"}
        BY <2>3, <3>1 DEF OnRecord, Upserts
      <3>3. pc[o] \in {"record", "done"} => status[o] = "awaiting_approval"
        BY <2>2, <2>3, <3>1, RunAssumption DEF OnRecord
      <3>4. pc[o] \notin DOMAIN Stage
        BY <2>2, <2>3, <3>1 DEF OnRecord, Keeps, Stage
      <3>5. QED
        BY <2>2, <2>3, <2>4, <3>2, <3>3, <3>4 DEF OnRecord
    <2>6. \A x \in Runs \ {o} : OnRecord(x)'
      BY <2>3, <2>4 DEF Solo, OnRecord, Stage
    <2>7. OneRewriter'
      <3>1. ~operator'.read /\ \/ operator'.run = NoRun /\ ~operator'.stored
                               \/ operator'.run = o /\ operator'.stored /\ d = "applied"
        BY <2>3 DEF Idle
      <3>2. QED
        BY <2>3, <2>4, <3>1 DEF OneRewriter
    <2>8. Lifecycle!Next
      <3>1. Lifecycle!Transition(o, d)
        BY <2>2, <2>3 DEF Lifecycle!Transition, Lifecycle!Allows,
           Lifecycle!TerminalStates, Lifecycle!ValidTransitions
      <3>2. d \in Lifecycle!States
        BY <2>3 DEF Lifecycle!States, Lifecycle!TerminalStates
      <3>3. QED
        BY <2>2, <3>1, <3>2 DEF Lifecycle!Next
    <2>9. QED
      BY <2>5, <2>6, <2>7, <2>8 DEF Solo
  <1>5. ASSUME NEW kept \in BOOLEAN, RemoveWorktree(kept)
        PROVE  Solo' /\ UNCHANGED ledger
    <2>1. UNCHANGED <<ledger, writing, pc, status, copy>> /\ operator' = Idle
      BY <1>5 DEF RemoveWorktree
    <2>2. QED
      BY <2>1 DEF Solo, OneRewriter, OnRecord, Stage, Idle
  <1>6. QED
    BY <1>1, <1>2, <1>3, <1>4, <1>5 DEF Operator

\* One upsert written is one step of the run's life.
LEMMA UpsertFollows ==
  ASSUME NEW r \in Runs, NEW s, ledger' = [ledger EXCEPT ![r] = s],
         <<ledger[r], s>> \in Upserts
  PROVE  Lifecycle!Next
  <1>1. CASE ledger[r] = Absent
    <2>1. s = "created"
      BY <1>1, StatusIs DEF Upserts
    <2>2. Lifecycle!Create(r)
      BY <1>1, <2>1 DEF Lifecycle!Create, Lifecycle!Absent, Absent
    <2>3. QED
      BY <2>2 DEF Lifecycle!Next
  <1>2. CASE ledger[r] # Absent
    <2>1. /\ <<ledger[r], s>> \in Lifecycle!ValidTransitions
          /\ ledger[r] \notin Lifecycle!TerminalStates
          /\ s \in Lifecycle!States
      BY <1>2 DEF Upserts, Lifecycle!ValidTransitions, Lifecycle!TerminalStates,
                  Lifecycle!States
    <2>2. Lifecycle!Transition(r, s)
      BY <2>1 DEF Lifecycle!Transition, Lifecycle!Allows
    <2>3. QED
      BY <2>1, <2>2 DEF Lifecycle!Next
  <1>3. QED
    BY <1>1, <1>2

LEMMA RecordInit == Init => RecordInv
  BY DEF Init, RecordInv, Solo, OneRewriter, OnRecord, Keeps, Stage, Idle

LEMMA RecordStep ==
  ASSUME TypeOK, RecordInv, [Next]_vars
  PROVE  RecordInv' /\ (raced' \/ Solo') /\ (raced' \/ [Lifecycle!Next]_ledger)
  <1>1. \A r \in Runs : Keeps(r)'
    BY KeepsStays DEF RecordInv
  <1>2. ASSUME ~raced'
        PROVE  Solo' /\ [Lifecycle!Next]_ledger
    <2>1. ~raced
      <3>1. UNCHANGED raced \/ raced' = (raced \/ Rewriting)
        BY DEF Next, Step, Start, ReadLedger, LedgerUnreadable, TruncateLedger, WriteLedger,
           CreateWorktree, Retrieve, AskWorker, WorkerFails, CheckPolicy, ApplyPatch,
           Validate, RecordEnd, ServiceFails, WriteFails, Crash, Operator, Decide,
           ReadDecided, StoreDecision, RemoveWorktree, Terminating, vars
      <3>2. QED
        BY <1>2, <3>1 DEF TypeOK
    <2>2. Solo /\ \A r \in Runs : Keeps(r)
      BY <2>1 DEF RecordInv
    <2>3. CASE UNCHANGED vars
      BY <2>2, <2>3 DEF vars, Solo, OneRewriter, OnRecord
    <2>4. CASE Crash \/ Operator
      BY <1>2, <2>2, <2>4, SoloOther
    <2>5. ASSUME NEW r \in Runs, WriteLedger(r)
          PROVE  Solo' /\ Lifecycle!Next
      <3>1. /\ Solo' /\ ledger' = [ledger EXCEPT ![r] = status[r]]
            /\ <<ledger[r], status[r]>> \in Upserts
        BY <2>2, <2>5, SoloWrites
      <3>2. QED
        BY <3>1, UpsertFollows
    <2>6. CASE \E r \in Runs :
                 \/ Start(r) \/ Step(r) \/ ServiceFails(r) \/ WriteFails(r)
                 \/ \E edited \in BOOLEAN : WorkerFails(r, edited)
      BY <1>2, <2>2, <2>5, <2>6, SoloExecute, SoloOpens DEF Step
    <2>7. QED
      BY <2>3, <2>4, <2>6 DEF Next, Terminating
  <1>3. QED
    BY <1>1, <1>2 DEF RecordInv

\* As long as no two rewrites of runs.json overlap, every change of the file is
\* one run's step along VALID_TRANSITIONS, whatever fails or crashes: upsert
\* and _replace_run together implement RunLifecycle.
THEOREM LedgerFollowsLifecycle == Spec => LifecycleSteps
  <1>1. TypeOK /\ RecordInv /\ [Next]_vars => RecordInv' /\ [raced' \/ Lifecycle!Next]_ledger
    BY RecordStep
  <1>2. QED
    BY <1>1, RecordInit, TypeCorrect, PTL DEF Spec, LifecycleSteps

\* Under the same condition, what runs.json says of a run that has returned is
\* how it ended or how it was decided since, and the event log says the same.
THEOREM EndsAreOnRecord == Spec => []EndIsOnRecord
  <1>1. TypeOK /\ RecordInv /\ [Next]_vars => RecordInv'
    BY RecordStep
  <1>2. RecordInv => EndIsOnRecord
    BY DEF RecordInv, Keeps, Solo, OnRecord, EndIsOnRecord
  <1>3. QED
    BY <1>1, <1>2, RecordInit, TypeCorrect, PTL DEF Spec

\* Only runs that have been applied lose their worktrees.
Kept ==
  \A r \in Runs : status[r] = "awaiting_approval" /\ tree[r] = "none" => ledger[r] = "applied"

LEMMA KeptStays ==
  ASSUME AwaitInv, AwaitInv', RecordInv, raced \/ Kept, [Next]_vars, ~raced'
  PROVE  Kept'
  <1> USE StatusIs DEF AwaitInv
  <1>1. ~raced
    <2>1. UNCHANGED raced \/ raced' = (raced \/ Rewriting)
      BY DEF Next, Step, Start, ReadLedger, LedgerUnreadable, TruncateLedger, WriteLedger,
         CreateWorktree, Retrieve, AskWorker, WorkerFails, CheckPolicy, ApplyPatch,
         Validate, RecordEnd, ServiceFails, WriteFails, Crash, Operator, Decide,
         ReadDecided, StoreDecision, RemoveWorktree, Terminating, vars
    <2>2. QED
      BY <2>1 DEF TypeOK
  <1>2. Kept /\ Solo
    BY <1>1 DEF RecordInv
  <1>3. ASSUME NEW r \in Runs, WriteLedger(r)
        PROVE  Kept'
    <2>1. /\ ledger' = [ledger EXCEPT ![r] = status[r]]
          /\ <<ledger[r], status[r]>> \in Upserts
          /\ UNCHANGED <<status, tree>>
      BY <1>2, <1>3, SoloWrites DEF WriteLedger
    <2>2. status[r] = "awaiting_approval" => tree[r] # "none"
      BY <1>2, <2>1 DEF Kept, Upserts
    <2>3. QED
      BY <1>2, <2>1, <2>2 DEF Kept, TypeOK
  <1>4. CASE StoreDecision
    <2>1. PICK o \in Runs, d \in Decisions : operator.run = o /\ operator.decision = d
      BY <1>4 DEF StoreDecision, TypeOK, Idle
    <2>2. /\ ledger' = [ledger EXCEPT ![o] = d] /\ ledger[o] = "awaiting_approval"
          /\ UNCHANGED <<status, tree>>
      BY <1>2, <1>4, <2>1, RunAssumption DEF StoreDecision, Solo, OneRewriter
    <2>3. tree[o] # "none" \/ status[o] # "awaiting_approval"
      BY <1>2, <2>2 DEF Kept
    <2>4. QED
      BY <1>2, <2>2, <2>3 DEF Kept, TypeOK
  <1>5. ASSUME NEW kept \in BOOLEAN, RemoveWorktree(kept)
        PROVE  Kept'
    <2>1. /\ UNCHANGED <<ledger, status>>
          /\ \A x \in Runs : tree'[x] = tree[x] \/ x = operator.run
          /\ operator.stored
      BY <1>5 DEF RemoveWorktree, TypeOK
    <2>2. operator.run # NoRun /\ ledger[operator.run] = "applied"
      BY <1>2, <2>1 DEF Solo, OneRewriter
    <2>3. QED
      BY <1>2, <2>1, <2>2 DEF Kept
  <1>6. ASSUME NEW r \in Runs,
               \/ Start(r) \/ CreateWorktree(r) \/ Retrieve(r)
               \/ \E tool \in Tools, answer \in Proposals : AskWorker(r, tool, answer)
               \/ \E edited \in BOOLEAN : WorkerFails(r, edited)
               \/ CheckPolicy(r) \/ ApplyPatch(r)
               \/ \E plan \in Plans : \E result \in [Positions(plan) -> StepResults] :
                    Validate(r, plan, result)
        PROVE  Kept'
    <2>1. /\ UNCHANGED ledger
          /\ \A x \in Runs \ {r} : status'[x] = status[x] /\ tree'[x] = tree[x]
      BY <1>6 DEF Start, CreateWorktree, Retrieve, AskWorker, WorkerFails, CheckPolicy,
         ApplyPatch, Validate, Upsert, TypeOK
    <2>2. status'[r] = "awaiting_approval" => tree'[r] # "none"
      <3>1. CASE \E plan \in Plans : \E result \in [Positions(plan) -> StepResults] :
                   Validate(r, plan, result)
        BY <3>1 DEF Validate, RunsAgree, Actionable
      <3>2. CASE Start(r) \/ CreateWorktree(r) \/ Retrieve(r)
        BY <3>2 DEF Start, CreateWorktree, Retrieve, Upsert, TypeOK
      <3>3. CASE \/ \E tool \in Tools, answer \in Proposals : AskWorker(r, tool, answer)
                 \/ \E edited \in BOOLEAN : WorkerFails(r, edited)
        BY <3>3 DEF AskWorker, WorkerFails, RunsAgree, Recording, Over
      <3>4. CASE CheckPolicy(r) \/ ApplyPatch(r)
        BY <3>4 DEF CheckPolicy, ApplyPatch, Upsert, RunsAgree, Recording, Over, TypeOK
      <3>5. QED
        BY <1>6, <3>1, <3>2, <3>3, <3>4
    <2>3. QED
      BY <1>2, <2>1, <2>2 DEF Kept
  <1>7. CASE \/ \E r \in Runs : \/ ReadLedger(r) \/ LedgerUnreadable(r) \/ TruncateLedger(r)
                               \/ RecordEnd(r) \/ ServiceFails(r) \/ WriteFails(r)
             \/ Crash \/ ReadDecided \/ UNCHANGED vars
             \/ \E r \in Runs, d \in Decisions : Decide(r, d)
    <2>1. UNCHANGED <<ledger, status, tree>>
      BY <1>7 DEF ReadLedger, LedgerUnreadable, TruncateLedger, RecordEnd, ServiceFails,
         WriteFails, Crash, ReadDecided, Decide, vars
    <2>2. QED
      BY <1>2, <2>1 DEF Kept
  <1>8. QED
    BY <1>3, <1>4, <1>5, <1>6, <1>7 DEF Next, Step, Operator, Terminating

\* However the rewrites of runs.json interleave, and whatever fails: a run that
\* is on record as awaiting approval has a patch that was allowed and validated,
\* and has it in its worktree, unless rewrites have overlapped: then a run that
\* was applied, and whose worktree is gone, may be back.
THEOREM AwaitingCanBePromoted == Spec => []AwaitingIsActionable
  <1>1. AwaitInv /\ RecordInv /\ (raced \/ Kept) => AwaitingIsActionable
    BY DEF AwaitInv, NobodyIsAhead, RunsAgree, Proposed, Validated, Kept, AwaitingIsActionable
  <1>2. Init => raced \/ Kept
    BY StatusIs DEF Init, Kept
  <1>3. /\ AwaitInv /\ AwaitInv' /\ RecordInv /\ (raced \/ Kept) /\ [Next]_vars
        => (raced \/ Kept)'
    BY KeptStays
  <1>4. AwaitInv /\ RecordInv /\ [Next]_vars => RecordInv'
    BY RecordStep DEF AwaitInv
  <1>5. QED
    BY <1>1, <1>2, <1>3, <1>4, AwaitInit, AwaitStep, RecordInit, PTL DEF Spec

(***************************************************************************)
(* The end of a run.  That it comes, EveryRunEnds, rests on fairness and   *)
(* on this: there is only so far to go.                                    *)
(***************************************************************************)

\* How many awaits are left after the upsert of a status, how many upsert has,
\* and how many there are from an await between two upserts.
AfterStatus == [created |-> 19, retrieving |-> 15, proposing |-> 11, validating |-> 5,
                awaiting_approval |-> 1, failed |-> 1]
InUpsert    == [read |-> 3, truncate |-> 2, write |-> 1]
InExecute   == [new |-> 23, worktree |-> 19, retrieve |-> 15, worker |-> 11, policy |-> 10,
                apply |-> 9, validate |-> 5, record |-> 1, done |-> 0, thrown |-> 0,
                dead |-> 0]

Left(at, s)  == IF at \in DOMAIN InUpsert THEN AfterStatus[s] + InUpsert[at] ELSE InExecute[at]
StepsLeft(r) == Left(pc[r], status[r])

\* A step of a run brings it nearer to its end, and no other further away.
GoesForward ==
  [][\A r \in Runs :
       /\ StepsLeft(r)' <= StepsLeft(r)
       /\ Start(r) \/ Step(r) => StepsLeft(r)' < StepsLeft(r)]_vars

\* What the numbers say of a status and of where it leads.
LEMMA NumbersAre ==
  /\ \A s \in Own : AfterStatus[s] \in 1..19 /\ AfterStatus[s] = InExecute[AfterUpsert(s)]
                    /\ AfterUpsert(s) \notin DOMAIN InUpsert
  /\ \A c \in PCs \ DOMAIN InUpsert : InExecute[c] \in 0..23
  /\ DOMAIN InUpsert = {"read", "truncate", "write"}
  /\ InUpsert["read"] = 3 /\ InUpsert["truncate"] = 2 /\ InUpsert["write"] = 1
  BY StatusIs DEF Own, AfterStatus, InUpsert, InExecute, AfterUpsert, PCs

LEMMA LeftIsNumber ==
  ASSUME NEW at \in PCs, NEW s \in Status, at \in DOMAIN InUpsert => s \in Own
  PROVE  Left(at, s) \in Nat
  <1>1. CASE at \in DOMAIN InUpsert
    BY <1>1, NumbersAre DEF Left
  <1>2. CASE at \notin DOMAIN InUpsert
    BY <1>2, NumbersAre DEF Left
  <1>3. QED
    BY <1>1, <1>2

LEMMA StepsAreNumbers ==
  ASSUME TypeOK, NEW r \in Runs
  PROVE  StepsLeft(r) \in Nat /\ (pc[r] \in DOMAIN InUpsert => status[r] \in Own)
  <1>1. pc[r] \in PCs /\ status[r] \in Status
    BY DEF TypeOK
  <1>2. pc[r] \in DOMAIN InUpsert => status[r] \in Own
    BY NumbersAre DEF TypeOK, Own
  <1>3. QED
    BY <1>1, <1>2, LeftIsNumber DEF StepsLeft

\* An await of execute() that leads to an upsert, to another await, or ends.
LEMMA StepsGoDown ==
  ASSUME TypeOK, \A x \in Runs : Keeps(x), NEW r \in Runs,
         \/ Start(r) \/ Step(r) \/ ServiceFails(r) \/ WriteFails(r)
         \/ \E edited \in BOOLEAN : WorkerFails(r, edited)
  PROVE  /\ StepsLeft(r)' < StepsLeft(r)
         /\ \A x \in Runs \ {r} : StepsLeft(x)' = StepsLeft(x)
  <1>1. ASSUME NEW x \in Runs \ {r} PROVE StepsLeft(x)' = StepsLeft(x)
    <2>1. pc'[x] = pc[x] /\ status'[x] = status[x]
      BY DEF Step, Start, ReadLedger, LedgerUnreadable, GiveUp, TruncateLedger, WriteLedger,
             CreateWorktree, Retrieve, AskWorker, WorkerFails, CheckPolicy, ApplyPatch,
             Validate, RecordEnd, ServiceFails, WriteFails, Upsert, Goto, TypeOK
    <2>2. QED
      BY <2>1 DEF StepsLeft, Left
  <1>2. pc[r] \in PCs /\ pc \in [Runs -> PCs] /\ status[r] \in Status /\ r \in DOMAIN status
    BY DEF TypeOK
  <1>3. CASE pc'[r] \in {"thrown", "done"} /\ pc[r] \notin Over
    <2>1. StepsLeft(r)' = 0
      BY <1>3, NumbersAre DEF StepsLeft, Left, InExecute
    <2>2. StepsLeft(r) > 0
      <3>1. CASE pc[r] \in DOMAIN InUpsert
        BY <3>1, NumbersAre, StepsAreNumbers DEF StepsLeft, Left
      <3>2. CASE pc[r] \notin DOMAIN InUpsert
        BY <1>2, <1>3, <3>2 DEF StepsLeft, Left, InExecute, PCs, Over, InUpsert
      <3>3. QED
        BY <3>1, <3>2
    <2>3. QED
      BY <1>1, <2>1, <2>2
  <1>4. CASE \E s \in Own : Upsert(r, s) /\ pc[r] \notin DOMAIN InUpsert
                            /\ AfterStatus[s] + 3 < InExecute[pc[r]]
    <2>1. PICK s \in Own : Upsert(r, s) /\ pc[r] \notin DOMAIN InUpsert
                           /\ AfterStatus[s] + 3 < InExecute[pc[r]]
      BY <1>4
    <2>2. pc'[r] = "read" /\ status'[r] = s
      BY <1>2, <2>1 DEF Upsert, Goto
    <2>3. StepsLeft(r)' = AfterStatus[s] + 3 /\ StepsLeft(r) = InExecute[pc[r]]
      BY <2>1, <2>2, NumbersAre DEF StepsLeft, Left
    <2>4. QED
      BY <1>1, <2>1, <2>3
  <1>5. CASE Start(r) \/ CreateWorktree(r) \/ Retrieve(r)
    BY <1>4, <1>5, StatusIs DEF Start, CreateWorktree, Retrieve, Own, AfterStatus, InExecute, InUpsert
  <1>6. CASE \E plan \in Plans : \E result \in [Positions(plan) -> StepResults] :
               Validate(r, plan, result)
    <2>1. /\ pc[r] = "validate"
          /\ Upsert(r, "awaiting_approval") \/ Upsert(r, "failed")
      BY <1>6 DEF Validate
    <2>2. QED
      BY <1>4, <2>1, StatusIs DEF Own, AfterStatus, InExecute, InUpsert
  <1>7. CASE CheckPolicy(r)
    <2>1. CASE PolicyAllows(r)
      <3>1. pc[r] = "policy" /\ pc'[r] = "apply"
        BY <1>2, <1>7, <2>1 DEF CheckPolicy, Goto
      <3>2. StepsLeft(r)' = 9 /\ StepsLeft(r) = 10
        BY <3>1 DEF StepsLeft, Left, InExecute, InUpsert
      <3>3. QED
        BY <1>1, <3>2
    <2>2. CASE ~PolicyAllows(r)
      BY <1>4, <1>7, <2>2, StatusIs DEF CheckPolicy, Own, AfterStatus, InExecute, InUpsert
    <2>3. QED
      BY <2>1, <2>2
  <1>8. CASE ApplyPatch(r)
    <2>1. CASE GitApplies(r)
      BY <1>4, <1>8, <2>1, StatusIs DEF ApplyPatch, Own, AfterStatus, InExecute, InUpsert
    <2>2. CASE ~GitApplies(r)
      BY <1>2, <1>3, <1>8, <2>2 DEF ApplyPatch, Goto, Over
    <2>3. QED
      BY <2>1, <2>2
  <1>9. CASE \E tool \in Tools, answer \in Proposals : AskWorker(r, tool, answer)
    <2>1. pc[r] = "worker" /\ pc'[r] = "policy"
      BY <1>2, <1>9 DEF AskWorker, Goto
    <2>2. StepsLeft(r)' = 10 /\ StepsLeft(r) = 11
      BY <2>1 DEF StepsLeft, Left, InExecute, InUpsert
    <2>3. QED
      BY <1>1, <2>2
  <1>10. CASE ReadLedger(r) \/ TruncateLedger(r) \/ WriteLedger(r)
    <2>1. /\ status' = status /\ pc[r] \in DOMAIN InUpsert /\ status[r] \in Own
          /\ \/ pc[r] = "read" /\ pc'[r] = "truncate"
             \/ pc[r] = "truncate" /\ pc'[r] = "write"
             \/ pc[r] = "write" /\ pc'[r] = AfterUpsert(status[r])
      BY <1>2, <1>10, NumbersAre, StepsAreNumbers
         DEF ReadLedger, TruncateLedger, WriteLedger, Goto
    <2>2. AfterStatus[status[r]] \in 1..19
      BY <2>1, NumbersAre
    <2>3. CASE pc[r] # "write"
      BY <1>1, <2>1, <2>2, <2>3, NumbersAre DEF StepsLeft, Left
    <2>4. CASE pc[r] = "write"
      <3>1. StepsLeft(r)' = AfterStatus[status[r]]
        BY <2>1, <2>4, NumbersAre DEF StepsLeft, Left
      <3>2. StepsLeft(r) = AfterStatus[status[r]] + 1
        BY <2>4, NumbersAre DEF StepsLeft, Left
      <3>3. QED
        BY <1>1, <2>2, <3>1, <3>2
    <2>5. QED
      BY <2>3, <2>4
  <1>11. CASE LedgerUnreadable(r) \/ RecordEnd(r) \/ ServiceFails(r) \/ WriteFails(r)
              \/ \E edited \in BOOLEAN : WorkerFails(r, edited)
    <2>1. pc'[r] \in {"thrown", "done"} /\ pc[r] \notin Over
      BY <1>2, <1>11 DEF LedgerUnreadable, GiveUp, RecordEnd, ServiceFails, WriteFails, WorkerFails, Goto,
                         Over
    <2>2. QED
      BY <1>3, <2>1
  <1>12. QED
    BY <1>5, <1>6, <1>7, <1>8, <1>9, <1>10, <1>11 DEF Step

\* A run ends twenty-three awaits after its start at most, whatever fails, and
\* whoever else rewrites runs.json: neither a failure nor a file that cannot be
\* read makes execute() try anything again.
THEOREM RunsGoForward == Spec => GoesForward
  <1>1. ASSUME TypeOK, TypeOK', RecordInv, [Next]_vars, NEW r \in Runs
        PROVE  /\ StepsLeft(r)' <= StepsLeft(r)
               /\ Start(r) \/ Step(r) => StepsLeft(r)' < StepsLeft(r)
    <2>1. \A x \in Runs : Keeps(x)
      BY <1>1 DEF RecordInv
    <2>2. StepsLeft(r) \in Nat
      BY <1>1, StepsAreNumbers
    <2>3. StepsLeft(r)' \in Nat
      <3>1. pc'[r] \in PCs /\ status'[r] \in Status
        BY <1>1 DEF TypeOK
      <3>2. pc'[r] \in DOMAIN InUpsert => status'[r] \in Own
        BY <1>1, NumbersAre DEF TypeOK, Own
      <3>3. QED
        BY <3>1, <3>2, LeftIsNumber DEF StepsLeft
    <2>4. CASE \E x \in Runs : \/ Start(x) \/ Step(x) \/ ServiceFails(x) \/ WriteFails(x)
                              \/ \E edited \in BOOLEAN : WorkerFails(x, edited)
      <3>1. PICK x \in Runs : \/ Start(x) \/ Step(x) \/ ServiceFails(x) \/ WriteFails(x)
                             \/ \E edited \in BOOLEAN : WorkerFails(x, edited)
        BY <2>4
      <3>2. /\ StepsLeft(x)' < StepsLeft(x)
            /\ x # r => StepsLeft(r)' = StepsLeft(r)
        BY <1>1, <2>1, <3>1, StepsGoDown
      <3>3. Start(r) \/ Step(r) => StepsLeft(r)' < StepsLeft(r)
        BY <1>1, <2>1, StepsGoDown
      <3>4. QED
        BY <2>2, <2>3, <3>2, <3>3
    <2>5. CASE ~\E x \in Runs : \/ Start(x) \/ Step(x) \/ ServiceFails(x) \/ WriteFails(x)
                               \/ \E edited \in BOOLEAN : WorkerFails(x, edited)
      <3>1. \/ pc'[r] = pc[r] /\ status'[r] = status[r]
            \/ pc'[r] = "dead"
        <4>1. CASE Crash
          BY <1>1, <4>1 DEF Crash, TypeOK
        <4>2. CASE Operator \/ Terminating \/ UNCHANGED vars
          BY <4>2 DEF Operator, Decide, ReadDecided, StoreDecision, RemoveWorktree,
                      Terminating, vars, run
        <4>3. QED
          BY <1>1, <2>5, <4>1, <4>2 DEF Next
      <3>2. CASE pc'[r] = pc[r] /\ status'[r] = status[r]
        BY <2>2, <2>5, <3>2 DEF StepsLeft
      <3>3. CASE pc'[r] = "dead"
        <4>1. StepsLeft(r)' = 0
          BY <3>3 DEF StepsLeft, Left, InUpsert, InExecute
        <4>2. QED
          BY <2>2, <2>5, <4>1
      <3>4. QED
        BY <3>1, <3>2, <3>3
    <2>6. QED
      BY <2>4, <2>5
  <1>2. TypeOK /\ TypeOK' /\ RecordInv /\ [Next]_vars =>
          [\A r \in Runs :
             /\ StepsLeft(r)' <= StepsLeft(r)
             /\ Start(r) \/ Step(r) => StepsLeft(r)' < StepsLeft(r)]_vars
    BY <1>1
  <1>3. TypeOK /\ RecordInv /\ [Next]_vars => RecordInv'
    BY RecordStep
  <1>4. QED
    BY <1>2, <1>3, RecordInit, TypeCorrect, PTL DEF Spec, GoesForward
=============================================================================
