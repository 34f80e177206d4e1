----------------------------- MODULE Validation -----------------------------
(***************************************************************************)
(* CodingValidationCoordinator of OracleOS/Integration: which commands     *)
(* validate a repository, and what their results say of it.                *)
(*                                                                         *)
(* A stage is a sequence of commands.  A step of a validation is named by  *)
(* its position, <<stage, command>>.                                       *)
(***************************************************************************)
EXTENDS Naturals, Sequences

ProfileNames == {"swift", "python", "typescript", "javascript", "default"}

\* A profile as it is in its file; haltOnFailure may be missing there.
ProfileStage == [commands : Seq(STRING), haltOnFailure : {"true", "false", "missing"}]
Profile      == [stages : Seq(ProfileStage), commands : Seq(STRING)]

\* A file that is missing, or that cannot be decoded, defines nothing.
NoProfile == [stages |-> <<>>, commands |-> <<>>]

\* What the coordinator is given: its own commands, and the profiles on disk.
Configuration == [custom : Seq(STRING), profiles : [ProfileNames -> Profile]]

-----------------------------------------------------------------------------
(* The plan.                                                               *)

\* What tells the language of a repository, and the profile it stands for, in
\* the order in which inferProfileName looks.
Rules == << <<{"Package.swift"}, "swift">>,
            <<{"pyproject.toml", "requirements.txt", "setup.py"}, "python">>,
            <<{"tsconfig.json"}, "typescript">>,
            <<{"package.json with typescript"}, "typescript">>,
            <<{"package.json"}, "javascript">>,
            <<{"*.py"}, "python">>,
            <<{"*.ts", "*.tsx"}, "typescript">>,
            <<{"*.js", "*.jsx"}, "javascript">> >>

\* files: those of the names above that are found, "*" among the first 1500.
InferProfileName(files) ==
  LET matching == {i \in DOMAIN Rules : Rules[i][1] \cap files # {}} IN
    IF matching = {} THEN "default"
    ELSE Rules[CHOOSE i \in matching : \A j \in matching : i <= j][2]

\* A plan has the stages that have commands, under their numbers.
ToDo(plan) == DOMAIN plan # {}

\* Commands that are not divided into stages halt.
OneStage(commands) ==
  [i \in IF commands = <<>> THEN {} ELSE {1} |-> [commands |-> commands, halts |-> TRUE]]

\* Stages that are there but empty leave the profile without a plan.
ProfilePlan(p) ==
  IF p.stages = <<>> THEN OneStage(p.commands)
  ELSE [i \in {k \in DOMAIN p.stages : p.stages[k].commands # <<>>} |->
          [commands |-> p.stages[i].commands,
           halts |-> p.stages[i].haltOnFailure # "false"]]

ExecutionPlan(config, files) ==
  LET own == ProfilePlan(config.profiles[InferProfileName(files)]) IN
    IF config.custom # <<>> THEN OneStage(config.custom)
    ELSE IF ToDo(own) THEN own
    ELSE ProfilePlan(config.profiles["default"])

-----------------------------------------------------------------------------
(* Its execution.                                                          *)

Positions(plan) == UNION {{i} \X DOMAIN plan[i].commands : i \in DOMAIN plan}

\* How a command may end.  The timer may fire when the command has ended and
\* before it is cancelled: then it has timed out whatever its exit status.
StepResults == {"passed", "exit_failure", "timeout", "process_start_failure"}

StepOk(result) == result = "passed"

\* Steps that end the validation, if they are reached.
Halting(plan, result) ==
  {p \in Positions(plan) : ~StepOk(result[p]) /\ plan[p[1]].halts}

Precedes(p, q) == p[1] < q[1] \/ (p[1] = q[1] /\ p[2] < q[2])

Executed(plan, result) ==
  {p \in Positions(plan) : \A q \in Halting(plan, result) : ~Precedes(q, p)}

\* A slip: the last command decides.
MutantVerdict(plan, result) ==
  /\ ToDo(plan)
  /\ \A p \in Positions(plan) :
       (\A q \in Positions(plan) : ~Precedes(p, q)) => StepOk(result[p])

\* ok: there was something to do, and nothing ended it.
Verdict(plan, result) == ToDo(plan) /\ Halting(plan, result) = {}

\* What is left of a result: whether anything was executed, and in which kind
\* of stage commands have failed.
Outcomes == [empty : BOOLEAN, failing : SUBSET {"halting", "other"}]

Outcome(plan, result) ==
  [empty   |-> Executed(plan, result) = {},
   failing |-> {IF plan[p[1]].halts THEN "halting" ELSE "other" :
                  p \in {q \in Executed(plan, result) : ~StepOk(result[q])}}]
=============================================================================
