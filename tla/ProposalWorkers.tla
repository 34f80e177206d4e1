-------------------------- MODULE ProposalWorkers --------------------------
(***************************************************************************)
(* The two workers that propose patches: run_hardened of                   *)
(* integration/worker_hardened/bridge.py and run_aider of                  *)
(* integration/worker_aider/runner.py, behind their /propose and /invoke   *)
(* endpoints.  Both edit the worktree they are given and then describe     *)
(* what they did; requests run on the threads of the server.  Oracle, who  *)
(* asks, judges the files of the answer by a policy of its own.            *)
(*                                                                         *)
(* An edit is a pair of the request that made it and the file.  The        *)
(* contents of a file are the edits it has seen.                           *)
(***************************************************************************)
EXTENDS DiffPolicy

CONSTANTS
  Requests,
  Worker,      \* Worker[q]: "hardened" or "aider"
  Trees,       \* worktrees
  Assignments, \* how requests may name them: together or apart
  New,         \* the paths that HEAD does not have: git does not track them
  Allowances,  \* lists of allowed_paths, as sets of prefixes
  MaxChanged,  \* max_changed_lines, where each edited file counts as one line
  Faults       \* "git": git diff fails; "timeout": aider is killed;
               \* "validator": the runtime's validation worker raises

ASSUME WorkersAssumption ==
  /\ Worker \in [Requests -> {"hardened", "aider"}]
  /\ Assignments \subseteq [Requests -> Trees]
  /\ New \subseteq Paths
  /\ \A prefixes \in Allowances : prefixes \subseteq Prefixes
  /\ MaxChanged \in Nat
  /\ Faults \subseteq {"git", "timeout", "validator"}

VARIABLES
  tree,      \* tree[q]: the worktree that q names
  allowed,   \* allowed[q]: its allowed_paths
  edits,     \* edits[w]: the edits that the files of worktree w show
  pc,        \* pc[q]: the next access of q to its worktree
  how,       \* how[q]: the way the hardened worker builds its patch
  reading,   \* reading[q]: the file q has read, and the edits it saw there
  patch,     \* patch[q]: the patch object
  reply      \* reply[q]: the status of the answer

vars == <<tree, allowed, edits, pc, how, reading, patch, reply>>

Files    == Paths
Edits    == Requests \X Files

\* The direct fallback reports the names it opens the files by.
Absolute(f) == <<"worktree">> \o f
Reported    == Files \cup {Absolute(f) : f \in Files}

NoFile   == [file |-> <<>>, saw |-> {}]
\* edits: what diff_text shows; form: "git" where git printed it, "difflib" where
\* the worker did and names files a/... and b/... as git does, "bare" where it
\* does not, "lost" where git failed and printed none; touched: the files
\* reported beside it.
NoPatch  == [edits |-> {}, form |-> "git", touched |-> {}]
Patches  == [edits : SUBSET Edits, form : {"git", "difflib", "bare", "lost"},
             touched : SUBSET Reported]
\* "ok" becomes "accepted" or "refused" when Oracle has judged the answer.
Left     == {"ok", "accepted", "refused"}
Ended    == {"accepted", "refused", "no_result", "error"}

Init ==
  /\ tree \in Assignments
  /\ allowed \in [Requests -> Allowances]
  /\ edits = [w \in Trees |-> {}]
  /\ pc = [q \in Requests |-> "start"]
  /\ how = [q \in Requests |-> "none"]
  /\ reading = [q \in Requests |-> NoFile]
  /\ patch = [q \in Requests |-> NoPatch]
  /\ reply = [q \in Requests |-> "none"]

-----------------------------------------------------------------------------

FilesOf(es) == {e[2] : e \in es}

\* The files that are there: those of HEAD and those somebody has added.
Present(w) == (Files \ New) \cup FilesOf(edits[w])

\* "git diff" prints the edits of tracked files, whoever made them.
GitDiffOf(w) == {e \in edits[w] : e[2] \notin New}

Goto(q, to) == pc' = [pc EXCEPT ![q] = to]

Answer(q, status) ==
  /\ reply' = [reply EXCEPT ![q] = status]
  /\ Goto(q, "end")

-----------------------------------------------------------------------------
(* The hardened worker.                                                    *)

\* The patch searcher finds a candidate, or the fallbacks get their turn.
Search(q, way) ==
  /\ pc[q] = "start" /\ Worker[q] = "hardened"
  /\ how' = [how EXCEPT ![q] = way]
  /\ Goto(q, "read")
  /\ UNCHANGED <<tree, allowed, edits, reading, patch, reply>>

\* The test file of a structured patch need not be there, and then reads as empty.
Readable(q) ==
  IF how[q] = "structured" THEN Present(tree[q]) \cup New ELSE Present(tree[q])

\* A file with a line to replace is read ...
ReadFile(q, f) ==
  /\ pc[q] = "read"
  /\ f \in Readable(q)
  /\ <<q, f>> \notin patch[q].edits
  /\ reading' = [reading EXCEPT ![q] =
                   [file |-> f, saw |-> {e \in edits[tree[q]] : e[2] = f}]]
  /\ Goto(q, "write")
  /\ UNCHANGED <<tree, allowed, edits, how, patch, reply>>

\* ... a structured patch is then complete, the direct fallback asks git for
\* its diff, and the heuristic looks at the next file.
AfterWrite(q) ==
  Goto(q, CASE how[q] = "structured" -> "check"
            [] how[q] = "fallback"   -> "gitDiff"
            [] how[q] = "heuristic"  -> "read")

\* A slip: the diff of each file replaces that of the file before.
MutantWithEdit(q, e) == {e}

WithEdit(q, e) == patch[q].edits \cup {e}

\* ... and written back whole: what others wrote in between is lost.
WriteFile(q) ==
  LET w == tree[q]
      f == reading[q].file IN
    /\ pc[q] = "write"
    /\ edits' = [edits EXCEPT ![w] =
                   {e \in @ : e[2] # f} \cup reading[q].saw \cup {<<q, f>>}]
    /\ patch' = [patch EXCEPT ![q] =
                   [edits   |-> WithEdit(q, <<q, f>>),
                    form    |-> IF how[q] = "structured" THEN "bare" ELSE "difflib",
                    touched |-> @.touched \cup
                                  {IF how[q] = "fallback" THEN Absolute(f) ELSE f}]]
    /\ reading' = [reading EXCEPT ![q] = NoFile]
    /\ AfterWrite(q)
    /\ UNCHANGED <<tree, allowed, how, reply>>

\* No candidate has a line to replace, or the heuristic has tried them all.
NothingMore(q) ==
  /\ pc[q] = "read"
  /\ how[q] # "structured"
  /\ IF patch[q].edits = {}
     THEN Answer(q, "no_result")
     ELSE Goto(q, "check") /\ UNCHANGED reply
  /\ UNCHANGED <<tree, allowed, edits, how, reading, patch>>

-----------------------------------------------------------------------------
(* The Aider worker.                                                       *)

\* aider edits or adds any file: the paths in its prompt are advice.
AiderEdits(q, f) ==
  /\ pc[q] = "start" /\ Worker[q] = "aider"
  /\ <<q, f>> \notin edits[tree[q]]
  /\ edits' = [edits EXCEPT ![tree[q]] = @ \cup {<<q, f>>}]
  /\ UNCHANGED <<tree, allowed, pc, how, reading, patch, reply>>

\* Whatever its exit status is.
AiderExits(q) ==
  /\ pc[q] = "start" /\ Worker[q] = "aider"
  /\ Goto(q, "gitDiff")
  /\ UNCHANGED <<tree, allowed, edits, how, reading, patch, reply>>

AiderTimesOut(q) ==
  /\ "timeout" \in Faults
  /\ pc[q] = "start" /\ Worker[q] = "aider"
  /\ Answer(q, "error")
  /\ UNCHANGED <<tree, allowed, edits, how, reading, patch>>

-----------------------------------------------------------------------------
(* Both workers.                                                           *)

\* The exit status of git is not looked at: a failure is an empty diff.
GitDiff(q, form) ==
  LET diff == IF form = "git" THEN GitDiffOf(tree[q]) ELSE {} IN
  /\ pc[q] = "gitDiff"
  /\ form = "git" \/ (form = "lost" /\ "git" \in Faults)
  /\ patch' = [patch EXCEPT ![q] =
                 [edits   |-> diff,
                  form    |-> form,
                  touched |-> IF Worker[q] = "aider"
                              THEN ExtractTouched(FilesOf(diff), TRUE)
                              ELSE @.touched]]
  /\ Goto(q, "check")
  /\ UNCHANGED <<tree, allowed, edits, how, reading, reply>>

\* extract_touched_files knows a file by its a/ and b/ names.
TouchedFiles(p) ==
  CASE p.form = "git"     -> ExtractTouched(FilesOf(p.edits), TRUE)
    [] p.form = "difflib" -> ExtractTouched(FilesOf(p.edits), FALSE)
    [] OTHER              -> {}

WithinBudget(q) ==
  /\ Violations(TouchedFiles(patch[q]), allowed[q]) = {}
  /\ Cardinality(patch[q].edits) <= MaxChanged

\* Slips: a patch that is over budget is tried again; it is answered with a
\* status that only /propose knows.
MutantBlocked(q) == Answer(q, "blocked")
MutantRefuse(q) == Goto(q, "gitDiff") /\ UNCHANGED reply

\* The handler raises, and the endpoint answers with the error.
Refuse(q) == Answer(q, "error")

Check(q) ==
  /\ pc[q] = "check"
  /\ IF ~WithinBudget(q) THEN Refuse(q)
     ELSE Goto(q, IF Worker[q] = "hardened" THEN "validate" ELSE "respond")
          /\ UNCHANGED reply
  /\ UNCHANGED <<tree, allowed, edits, how, reading, patch>>

\* The runtime's validation worker: its report does not decide anything.
Validate(q) ==
  /\ pc[q] = "validate"
  /\ \/ Goto(q, "respond") /\ UNCHANGED reply
     \/ "validator" \in Faults /\ Answer(q, "error")
  /\ UNCHANGED <<tree, allowed, edits, how, reading, patch>>

Respond(q) ==
  /\ pc[q] = "respond"
  /\ Answer(q, IF patch[q].edits = {} THEN "no_result" ELSE "ok")
  /\ UNCHANGED <<tree, allowed, edits, how, reading, patch>>

\* CodingMutationPolicy looks at the files that the answer reports.
OracleJudges(q) ==
  /\ reply[q] = "ok"
  /\ Answer(q, IF \A f \in patch[q].touched : OracleAllows(f, allowed[q])
               THEN "accepted" ELSE "refused")
  /\ UNCHANGED <<tree, allowed, edits, how, reading, patch>>

-----------------------------------------------------------------------------

Step(q) ==
  \/ \E way \in {"structured", "fallback", "heuristic"} : Search(q, way)
  \/ \E f \in Files : ReadFile(q, f) \/ AiderEdits(q, f)
  \/ WriteFile(q) \/ NothingMore(q)
  \/ AiderExits(q)
  \/ \E form \in {"git", "lost"} : GitDiff(q, form)
  \/ Check(q) \/ Validate(q) \/ Respond(q) \/ OracleJudges(q)

Terminating == (\A q \in Requests : reply[q] \in Ended) /\ UNCHANGED vars

Next == (\E q \in Requests : Step(q) \/ AiderTimesOut(q)) \/ Terminating

Spec == Init /\ [][Next]_vars

\* A call that has begun goes on: aider is killed after 900 seconds if need be.
FairSpec == Spec /\ \A q \in Requests : WF_vars(Step(q))

-----------------------------------------------------------------------------
(* Properties.                                                             *)

TypeOK ==
  /\ tree \in [Requests -> Trees]
  /\ allowed \in [Requests -> Allowances]
  /\ edits \in [Trees -> SUBSET Edits]
  /\ pc \in [Requests -> {"start", "read", "write", "gitDiff", "check",
                          "validate", "respond", "end"}]
  /\ how \in [Requests -> {"none", "structured", "fallback", "heuristic"}]
  /\ reading \in [Requests -> [file : Files \cup {<<>>}, saw : SUBSET Edits]]
  /\ \A q \in Requests :
       /\ pc[q] = "write" => reading[q].file \in Files
       /\ pc[q] \in {"read", "write"} => how[q] # "none"
  /\ patch \in [Requests -> Patches]
  /\ reply \in [Requests -> Left \cup Ended \cup {"none"}]

\* In a worktree of its own, and unless git fails, a worker that answers without
\* an error has described its worktree: what its diff, empty or not, says of
\* tracked files is what git diff prints there, only a structured patch names a
\* file that git does not track (its test file, which promotion will not capture
\* later), and the files it reports are those of the diff, so what Oracle checks
\* is what it says.  (The direct fallback reports absolute names, git hides
\* quoted ones from the report.)
ProposalIsWorktree ==
  \A q \in Requests :
    /\ reply[q] \in Left \cup {"no_result"}
    /\ patch[q].form # "lost"
    /\ \A other \in Requests \ {q} : tree[other] # tree[q]
    => /\ {e \in patch[q].edits : e[2] \notin New} = GitDiffOf(tree[q])
       /\ how[q] # "structured" => FilesOf(patch[q].edits) \cap New = {}
       /\ how[q] # "fallback" =>
            FilesOf(patch[q].edits) \ Quoted = patch[q].touched \ Quoted

\* The files by which a diff that names them has left a worker.
Named(q) ==
  IF reply[q] \in Left /\ patch[q].form \in {"git", "difflib"}
  THEN FilesOf(patch[q].edits) \ (IF patch[q].form = "git" THEN Quoted ELSE {})
  ELSE {}

\* A file is below a prefix when it has the prefix's names, one by one and with
\* a name after them; a prefix that no slash ends may end within a name.
Below(f, prefix) ==
  LET path  == Normalized(f)
      names == NormalizedPrefix(prefix).names IN
    /\ \A i \in DOMAIN names :
         /\ i \in DOMAIN path
         /\ \/ path[i] = names[i]
            \/ i = Len(names) /\ ~prefix.slash /\ <<names[i], path[i]>> \in Begins
    /\ prefix.slash => Len(path) > Len(names)

\* No diff that names its files leaves a worker unless every file is below an
\* allowed prefix, whoever else edits the worktree and whenever; and none does
\* when no prefix is allowed ("Fail-closed", diff_utils.py).
NamedDiffsAreBudgeted ==
  \A q \in Requests : \A f \in Named(q) : \E prefix \in allowed[q] : Below(f, prefix)

\* No such diff changes a file below a blocked directory, however the allowed
\* prefixes are written.
BlockedStays ==
  \A q \in Requests : \A f \in Named(q) : f[1] \notin BlockedPrefixes

\* The two gates have lists of their own, neither of them complete, and look at
\* different things, the diff and the report: a proposal that names its files
\* and passed both changes nothing that either list protects.  (The direct
\* fallback's absolute names pass Oracle's list.)
AcceptedIsUnprotected ==
  \A q \in Requests :
    reply[q] = "accepted" /\ how[q] # "fallback" =>
      \A f \in Named(q) : f[1] \notin BlockedPrefixes \cup {"auth"}

\* Every request is answered, and every proposal judged.
EveryProposalEnds == \A q \in Requests : <>(reply[q] \in Ended)
=============================================================================
