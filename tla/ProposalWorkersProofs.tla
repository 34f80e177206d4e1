----------------------- MODULE ProposalWorkersProofs -----------------------
(***************************************************************************)
(* What holds of ProposalWorkers and of the policies that judge their      *)
(* proposals, for all paths, prefixes, worktrees, requests and faults,     *)
(* proved with TLAPS.                                                      *)
(***************************************************************************)
EXTENDS ProposalWorkers, TLAPS

(***************************************************************************)
(* The policies.                                                           *)
(***************************************************************************)

\* A file below a blocked directory is always a violation, however it and the
\* prefixes are dotted.
LEMMA BlockedIsViolation ==
  ASSUME NEW f \in Paths, f[1] \in BlockedPrefixes
  PROVE  IsBlocked(f)
  <1>1. f \in Seq(Names) /\ f # <<>>
    BY PolicyAssumption
  <1>2. 1 \in DOMAIN f /\ f[1] \in Names
    BY <1>1
  <1>3. Normalized(f)[1] = Undotted[f[1]]
    BY <1>2 DEF Normalized
  <1>4. QED
    BY <1>2, <1>3, PolicyAssumption DEF IsBlocked, BlockedPrefixes

\* Normalisation keeps the number of names.
LEMMA NormalizedIsPath ==
  ASSUME NEW p \in Seq(Names), p # <<>>
  PROVE  /\ Normalized(p) \in Seq(Names) /\ Len(p) \in Nat \ {0}
         /\ DOMAIN Normalized(p) = 1..Len(p) /\ Len(Normalized(p)) = Len(p)
  <1>1. 1 \in DOMAIN p /\ p[1] \in Names /\ Len(p) \in Nat \ {0}
    OBVIOUS
  <1>2. Undotted[p[1]] \in Names
    BY <1>1, PolicyAssumption
  <1>3. QED
    BY <1>1, <1>2 DEF Normalized

\* A file that the budget lets start with a prefix is below it.
LEMMA AllowedIsBelow ==
  ASSUME NEW f \in Paths, NEW prefix \in Prefixes,
         StartsWith(Normalized(f), NormalizedPrefix(prefix))
  PROVE  Below(f, prefix)
  <1> DEFINE path  == Normalized(f)
             names == NormalizedPrefix(prefix).names
             k     == Len(names)
  <1>1. path \in Seq(Names) /\ Len(path) \in Nat \ {0} /\ DOMAIN path = 1..Len(path)
    BY NormalizedIsPath, PolicyAssumption
  <1>2. names \in Seq(Names) /\ k \in Nat /\ DOMAIN names = 1..k
    <2>1. prefix.names \in Seq(Names)
      BY DEF Prefixes
    <2>2. CASE prefix.names = <<>>
      <3>1. names = <<>>
        BY <2>2 DEF NormalizedPrefix
      <3> HIDE DEF names
      <3>2. QED
        BY <3>1
    <2>3. CASE prefix.names # <<>>
      <3>1. names = Normalized(prefix.names)
        BY <2>3 DEF NormalizedPrefix, Prefixes
      <3> HIDE DEF names
      <3>2. QED
        BY <2>1, <2>3, <3>1, NormalizedIsPath
    <2>4. QED
      BY <2>2, <2>3
  <1>3. NormalizedPrefix(prefix).slash = prefix.slash
    BY DEF NormalizedPrefix, Prefixes
  <1> HIDE DEF path, names
  <1>4. \/ k = 0
        \/ /\ Len(path) >= k
           /\ \A i \in 1..(k - 1) : path[i] = names[i]
           /\ IF prefix.slash THEN path[k] = names[k] /\ Len(path) > k
              ELSE <<names[k], path[k]>> \in Begins
    BY <1>3 DEF StartsWith, path, names
  <1>5. \A i \in DOMAIN names :
          /\ i \in DOMAIN path
          /\ \/ path[i] = names[i]
             \/ i = k /\ ~prefix.slash /\ <<names[i], path[i]>> \in Begins
    <2> SUFFICES ASSUME NEW i \in 1..k
                 PROVE  /\ i \in DOMAIN path
                        /\ \/ path[i] = names[i]
                           \/ i = k /\ ~prefix.slash /\ <<names[i], path[i]>> \in Begins
      BY <1>2
    <2>1. i \in DOMAIN path
      BY <1>1, <1>2, <1>4
    <2>2. CASE i = k
      BY <1>2, <1>4, <2>1, <2>2
    <2>3. CASE i # k
      <3>1. \A n \in Nat : \A m \in 1..n : m # n => m \in 1..(n - 1)
        OBVIOUS
      <3>2. i \in 1..(k - 1)
        BY <1>2, <2>3, <3>1
      <3>3. QED
        BY <1>2, <1>4, <2>1, <3>2
    <2>4. QED
      BY <2>2, <2>3
  <1>6. prefix.slash => Len(path) > k
    BY <1>1, <1>4
  <1>7. QED
    BY <1>5, <1>6 DEF Below, path, names

\* Oracle's policy lets nothing below "auth" pass.
LEMMA AuthIsRefused ==
  ASSUME NEW f \in Paths, f[1] = "auth", NEW prefixes, OracleAllows(f, prefixes)
  PROVE  FALSE
  <1>1. f \in Seq(Names) /\ f # <<>> /\ 1 \in DOMAIN f /\ f[1] \in Names
    BY PolicyAssumption
  <1>2. /\ Undotted["auth"] = "auth" /\ Unended["auth"] = "auth"
        /\ <<"auth", "auth">> \in Begins
    BY <1>1, PolicyAssumption
  <1>3. Trimmed(f)[1] = "auth"
    BY <1>1, <1>2 DEF Trimmed, Normalized
  <1>4. QED
    BY <1>2, <1>3 DEF OracleAllows

(***************************************************************************)
(* The workers.                                                            *)
(***************************************************************************)

\* Files are files, in diffs and in reports.
LEMMA FilesAreFiles ==
  /\ \A es \in SUBSET Edits : FilesOf(es) \subseteq Files
  /\ \A q \in Requests, f \in Files : <<q, f>> \in Edits
  /\ \A f \in Files : f \in Reported /\ Absolute(f) \in Reported
  /\ <<>> \notin Files
  /\ NoPatch \in Patches
  BY PolicyAssumption DEF FilesOf, Edits, Files, Reported, NoPatch, Patches

\* What describes one request.
RequestTypes(q) ==
  /\ pc[q] \in {"start", "read", "write", "gitDiff", "check", "validate", "respond", "end"}
  /\ how[q] \in {"none", "structured", "fallback", "heuristic"}
  /\ reading[q] \in [file : Files \cup {<<>>}, saw : SUBSET Edits]
  /\ pc[q] = "write" => reading[q].file \in Files
  /\ pc[q] \in {"read", "write"} => how[q] # "none"
  /\ patch[q] \in Patches
  /\ reply[q] \in Left \cup Ended \cup {"none"}

\* A step of a request leaves what describes the others alone.
OnlyOf(q) ==
  /\ UNCHANGED <<tree, allowed>>
  /\ \E v : pc' = [pc EXCEPT ![q] = v]
  /\ \E v : how' = [how EXCEPT ![q] = v]
  /\ \E v : reading' = [reading EXCEPT ![q] = v]
  /\ \E v : patch' = [patch EXCEPT ![q] = v]
  /\ \E v : reply' = [reply EXCEPT ![q] = v]

LEMMA OneRequestTyped ==
  ASSUME TypeOK, NEW q \in Requests, OnlyOf(q), edits' \in [Trees -> SUBSET Edits],
         RequestTypes(q)'
  PROVE  TypeOK'
  <1>1. \A p \in Requests \ {q} :
          /\ pc'[p] = pc[p] /\ how'[p] = how[p] /\ reading'[p] = reading[p]
          /\ patch'[p] = patch[p] /\ reply'[p] = reply[p]
    BY DEF OnlyOf, TypeOK
  <1>2. tree' \in [Requests -> Trees] /\ allowed' \in [Requests -> Allowances]
    BY DEF OnlyOf, TypeOK
  <1>3. pc' \in [Requests -> {"start", "read", "write", "gitDiff", "check",
                             "validate", "respond", "end"}]
    <2>1. PICK v : pc' = [pc EXCEPT ![q] = v]
      BY DEF OnlyOf
    <2>2. QED
      BY <2>1 DEF TypeOK, RequestTypes
  <1>4. how' \in [Requests -> {"none", "structured", "fallback", "heuristic"}]
    <2>1. PICK v : how' = [how EXCEPT ![q] = v]
      BY DEF OnlyOf
    <2>2. QED
      BY <2>1 DEF TypeOK, RequestTypes
  <1>5. patch' \in [Requests -> Patches]
    <2>1. PICK v : patch' = [patch EXCEPT ![q] = v]
      BY DEF OnlyOf
    <2>2. QED
      BY <2>1 DEF TypeOK, RequestTypes
  <1>6. reply' \in [Requests -> Left \cup Ended \cup {"none"}]
    <2>1. PICK v : reply' = [reply EXCEPT ![q] = v]
      BY DEF OnlyOf
    <2>2. QED
      BY <2>1 DEF TypeOK, RequestTypes
  <1>7. reading' \in [Requests -> [file : Files \cup {<<>>}, saw : SUBSET Edits]]
    <2>1. PICK v : reading' = [reading EXCEPT ![q] = v]
      BY DEF OnlyOf
    <2>2. QED
      BY <2>1 DEF TypeOK, RequestTypes
  <1>8. \A p \in Requests :
          /\ pc'[p] = "write" => reading'[p].file \in Files
          /\ pc'[p] \in {"read", "write"} => how'[p] # "none"
    BY <1>1 DEF TypeOK, RequestTypes
  <1>9. QED
    BY <1>2, <1>3, <1>4, <1>5, <1>6, <1>7, <1>8 DEF TypeOK

LEMMA TypeInit == Init => TypeOK
  <1> SUFFICES ASSUME Init PROVE TypeOK
    OBVIOUS
  <1>1. tree \in [Requests -> Trees] /\ allowed \in [Requests -> Allowances]
        /\ edits \in [Trees -> SUBSET Edits]
    BY WorkersAssumption DEF Init
  <1>2. \A q \in Requests : RequestTypes(q)
    BY FilesAreFiles DEF Init, RequestTypes, NoFile
  <1>3. QED
    BY <1>1, <1>2 DEF Init, TypeOK, RequestTypes

\* A file is read, and written back whole.
LEMMA TypeFile ==
  ASSUME TypeOK, NEW q \in Requests, (\E f \in Files : ReadFile(q, f)) \/ WriteFile(q)
  PROVE  TypeOK'
  <1>1. ASSUME NEW f \in Files, ReadFile(q, f)
        PROVE  TypeOK'
    <2> DEFINE new == [file |-> f, saw |-> {e \in edits[tree[q]] : e[2] = f}]
    <2>1. new \in [file : Files \cup {<<>>}, saw : SUBSET Edits]
      <3>1. {e \in edits[tree[q]] : e[2] = f} \subseteq Edits
        BY DEF TypeOK
      <3>2. QED
        BY <3>1
    <2>2. /\ UNCHANGED <<tree, allowed, edits, how, patch, reply>>
          /\ reading' = [reading EXCEPT ![q] = new]
          /\ pc' = [pc EXCEPT ![q] = "write"] /\ pc[q] = "read"
      BY <1>1 DEF ReadFile, Goto
    <2>3. OnlyOf(q) /\ reading'[q] = new
      <3>1. how' = [how EXCEPT ![q] = how[q]] /\ patch' = [patch EXCEPT ![q] = patch[q]]
            /\ reply' = [reply EXCEPT ![q] = reply[q]]
        BY <2>2 DEF TypeOK
      <3> HIDE DEF new
      <3>2. QED
        BY <2>2, <3>1 DEF OnlyOf, TypeOK
    <2>4. new.file = f
      OBVIOUS
    <2>5. RequestTypes(q)'
      <3> HIDE DEF new
      <3>1. QED
        BY <2>1, <2>2, <2>3, <2>4 DEF RequestTypes, TypeOK
    <2>6. QED
      BY <2>2, <2>3, <2>5, OneRequestTyped DEF TypeOK
  <1>2. CASE WriteFile(q)
    <2> DEFINE f == reading[q].file
    <2>1. f \in Files /\ <<q, f>> \in Edits /\ f \in Reported /\ Absolute(f) \in Reported
      BY <1>2, FilesAreFiles DEF WriteFile, TypeOK
    <2>2. edits' \in [Trees -> SUBSET Edits]
      BY <1>2, <2>1 DEF WriteFile, TypeOK
    <2>3. /\ UNCHANGED <<tree, allowed, how, reply>>
          /\ pc' = [pc EXCEPT ![q] = CASE how[q] = "structured" -> "check"
                                       [] how[q] = "fallback"   -> "gitDiff"
                                       [] how[q] = "heuristic"  -> "read"]
          /\ reading' = [reading EXCEPT ![q] = NoFile]
      BY <1>2 DEF WriteFile, AfterWrite, Goto
    <2>4. pc'[q] \in {"check", "gitDiff", "read"} /\ how'[q] = how[q] /\ reply'[q] = reply[q]
      BY <1>2, <2>3 DEF TypeOK, WriteFile
    <2>5. patch'[q] \in Patches /\ \E v : patch' = [patch EXCEPT ![q] = v]
      <3>1. patch[q] \in Patches
        BY DEF TypeOK
      <3> DEFINE form == IF how[q] = "structured" THEN "bare" ELSE "difflib"
                 name == IF how[q] = "fallback" THEN Absolute(f) ELSE f
                 new  == [edits |-> WithEdit(q, <<q, f>>), form |-> form,
                          touched |-> patch[q].touched \cup {name}]
      <3>2. patch' = [patch EXCEPT ![q] = new]
        BY <1>2 DEF WriteFile
      <3>3. WithEdit(q, <<q, f>>) \in SUBSET Edits
        BY <2>1, <3>1 DEF WithEdit, Patches
      <3>4. name \in Reported /\ form \in {"git", "difflib", "bare", "lost"}
        BY <2>1
      <3>5. patch[q].touched \cup {name} \in SUBSET Reported
        BY <3>1, <3>4 DEF Patches
      <3> HIDE DEF form, name
      <3>6. new \in Patches
        BY <3>3, <3>4, <3>5 DEF Patches
      <3> HIDE DEF new
      <3>7. QED
        BY <3>2, <3>6 DEF TypeOK
    <2>6. reading'[q] = NoFile
      BY <2>3 DEF TypeOK
    <2>7. RequestTypes(q)'
      <3>1. how[q] # "none"
        BY <1>2 DEF WriteFile, TypeOK
      <3>2. NoFile \in [file : Files \cup {<<>>}, saw : SUBSET Edits]
        BY DEF NoFile
      <3>3. how[q] \in {"none", "structured", "fallback", "heuristic"}
            /\ reply[q] \in Left \cup Ended \cup {"none"}
        BY DEF TypeOK
      <3>4. QED
        BY <2>4, <2>5, <2>6, <3>1, <3>2, <3>3 DEF RequestTypes
    <2>8. OnlyOf(q)
      <3>1. how' = [how EXCEPT ![q] = how[q]] /\ reply' = [reply EXCEPT ![q] = reply[q]]
        BY <2>3 DEF TypeOK
      <3>2. QED
        BY <2>3, <2>5, <3>1 DEF OnlyOf
    <2>9. QED
      BY <2>2, <2>7, <2>8, OneRequestTyped
  <1>3. QED
    BY <1>1, <1>2

\* git diff.
LEMMA TypeGitDiff ==
  ASSUME TypeOK, NEW q \in Requests, NEW form \in {"git", "lost"}, GitDiff(q, form)
  PROVE  TypeOK'
  <1> DEFINE diff == IF form = "git" THEN GitDiffOf(tree[q]) ELSE {}
             touched == IF Worker[q] = "aider" THEN ExtractTouched(FilesOf(diff), TRUE)
                        ELSE patch[q].touched
             new == [edits |-> diff, form |-> form, touched |-> touched]
  <1>1. /\ UNCHANGED <<tree, allowed, edits, how, reading, reply>>
        /\ pc' = [pc EXCEPT ![q] = "check"]
        /\ patch' = [patch EXCEPT ![q] = new]
    BY DEF GitDiff, Goto
  <1>2. diff \in SUBSET Edits
    BY DEF GitDiffOf, TypeOK
  <1>3. touched \in SUBSET Reported
    <2>1. ExtractTouched(FilesOf(diff), TRUE) \subseteq Reported
      <3> HIDE DEF diff
      <3>1. QED
        BY <1>2, FilesAreFiles DEF ExtractTouched, Reported
    <2>2. patch[q].touched \subseteq Reported
      BY DEF TypeOK, Patches
    <2>3. QED
      BY <2>1, <2>2
  <1> HIDE DEF diff, touched
  <1>4. new \in Patches
    BY <1>2, <1>3 DEF Patches
  <1> HIDE DEF new
  <1>5. QED
    BY <1>1, <1>4 DEF TypeOK

LEMMA TypeStep == TypeOK /\ [Next]_vars => TypeOK'
  <1> SUFFICES ASSUME TypeOK, [Next]_vars PROVE TypeOK'
    OBVIOUS
  <1>1. CASE UNCHANGED vars
    BY <1>1 DEF TypeOK, vars
  <1>2. ASSUME NEW q \in Requests, Step(q) \/ AiderTimesOut(q)
        PROVE  TypeOK'
    <2>1. ASSUME NEW way \in {"structured", "fallback", "heuristic"}, Search(q, way)
          PROVE  TypeOK'
      BY <2>1 DEF Search, Goto, TypeOK
    <2>2. ASSUME NEW f \in Files, AiderEdits(q, f)
          PROVE  TypeOK'
      BY <2>2, FilesAreFiles DEF AiderEdits, TypeOK
    <2>3. CASE NothingMore(q)
      BY <2>3 DEF NothingMore, Answer, Goto, TypeOK, Ended
    <2>4. CASE AiderExits(q) \/ AiderTimesOut(q)
      BY <2>4 DEF AiderExits, AiderTimesOut, Answer, Goto, TypeOK, Ended
    <2>5. CASE Check(q)
      BY <2>5 DEF Check, Refuse, Answer, Goto, TypeOK, Ended
    <2>6. CASE Validate(q)
      BY <2>6 DEF Validate, Answer, Goto, TypeOK, Ended
    <2>7. CASE Respond(q)
      BY <2>7 DEF Respond, Answer, Goto, TypeOK, Ended, Left
    <2>8. CASE OracleJudges(q)
      BY <2>8 DEF OracleJudges, Answer, Goto, TypeOK, Ended, Left
    <2>9. QED
      BY <1>2, <2>1, <2>2, <2>3, <2>4, <2>5, <2>6, <2>7, <2>8, TypeFile, TypeGitDiff DEF Step
  <1>3. QED
    BY <1>1, <1>2 DEF Next, Terminating

\* Every variable always has its type.
THEOREM TypeCorrect == Spec => []TypeOK
  <1>1. QED
    BY TypeInit, TypeStep, PTL DEF Spec

(***************************************************************************)
(* What the gates have established.                                        *)
(***************************************************************************)

\* A patch that is past the worker's gate, and so every answer with a patch, is
\* within its budget; Oracle's policy allows what is reported of an accepted
\* one; and the report names the files that the diff names, which needs to know
\* how a patch is built: from nothing, file by file, or by git.
Gates(q) ==
  /\ pc[q] \in {"validate", "respond"} \/ reply[q] \in Left
       => Violations(TouchedFiles(patch[q]), allowed[q]) = {}
  /\ reply[q] # "none" => pc[q] = "end"
  /\ reply[q] = "accepted" => \A f \in patch[q].touched : OracleAllows(f, allowed[q])
  /\ how[q] # "fallback" => TouchedFiles(patch[q]) \subseteq patch[q].touched
  /\ how[q] = "heuristic" => FilesOf(patch[q].edits) \subseteq patch[q].touched
  /\ pc[q] = "start" /\ Worker[q] = "hardened" => patch[q] = NoPatch
  /\ pc[q] = "gitDiff" /\ Worker[q] = "hardened" => how[q] = "fallback"
  /\ Worker[q] = "aider" => how[q] = "none"

GatesInv == TypeOK /\ \A q \in Requests : Gates(q)

\* What a diff names is among its files.
LEMMA TouchedAreFiles ==
  ASSUME NEW p \in Patches
  PROVE  TouchedFiles(p) \subseteq FilesOf(p.edits) /\ FilesOf(p.edits) \subseteq Paths
  <1>1. p.edits \in SUBSET Edits
    BY DEF Patches
  <1>2. QED
    BY <1>1, FilesAreFiles DEF TouchedFiles, ExtractTouched, Files

LEMMA FilesGrow ==
  ASSUME NEW es, NEW q, NEW f
  PROVE  FilesOf(es \cup {<<q, f>>}) = FilesOf(es) \cup {f}
  <1>1. <<q, f>>[2] = f
    OBVIOUS
  <1>2. QED
    BY <1>1 DEF FilesOf

LEMMA NothingTouched == TouchedFiles(NoPatch) = {} /\ FilesOf(NoPatch.edits) = {}
  BY DEF TouchedFiles, NoPatch, ExtractTouched, FilesOf

LEMMA GatesInit == Init => GatesInv
  BY TypeInit, NothingTouched DEF Init, GatesInv, Gates, Left

\* The write-back is where a patch grows.
LEMMA GatesWriteFile ==
  ASSUME GatesInv, NEW q \in Requests, WriteFile(q)
  PROVE  Gates(q)'
  <1> DEFINE f == reading[q].file
             old == patch[q]
  <1>1. /\ pc[q] = "write" /\ how[q] # "none" /\ reply[q] = "none"
        /\ Worker[q] = "hardened"
        /\ allowed'[q] = allowed[q] /\ how'[q] = how[q] /\ reply'[q] = "none"
    BY WorkersAssumption DEF GatesInv, Gates, TypeOK, WriteFile
  <1>2. patch'[q] = [edits   |-> old.edits \cup {<<q, f>>},
                     form    |-> IF how[q] = "structured" THEN "bare" ELSE "difflib",
                     touched |-> old.touched \cup
                                   {IF how[q] = "fallback" THEN Absolute(f) ELSE f}]
    BY DEF WriteFile, WithEdit, GatesInv, TypeOK
  <1>3. /\ pc'[q] \in {"check", "gitDiff", "read"}
        /\ pc'[q] = "gitDiff" => how[q] = "fallback"
    BY DEF WriteFile, AfterWrite, Goto, GatesInv, TypeOK
  <1>4. FilesOf(patch'[q].edits) = FilesOf(old.edits) \cup {f}
    <2>1. patch'[q].edits = old.edits \cup {<<q, f>>}
      BY <1>2
    <2> HIDE DEF f, old
    <2>2. FilesOf(old.edits \cup {<<q, f>>}) = FilesOf(old.edits) \cup {f}
      BY FilesGrow
    <2>3. QED
      BY <2>1, <2>2
  <1>5. how[q] = "heuristic" =>
          /\ FilesOf(patch'[q].edits) \subseteq patch'[q].touched
          /\ TouchedFiles(patch'[q]) = FilesOf(patch'[q].edits)
    <2> SUFFICES ASSUME how[q] = "heuristic"
                 PROVE  /\ FilesOf(patch'[q].edits) \subseteq patch'[q].touched
                        /\ TouchedFiles(patch'[q]) = FilesOf(patch'[q].edits)
      OBVIOUS
    <2>1. FilesOf(old.edits) \subseteq old.touched
      BY DEF GatesInv, Gates
    <2>2. patch'[q].touched = old.touched \cup {f} /\ patch'[q].form = "difflib"
      BY <1>2
    <2>3. QED
      BY <1>4, <2>1, <2>2 DEF TouchedFiles, ExtractTouched
  <1>6. how[q] = "structured" => TouchedFiles(patch'[q]) = {}
    BY <1>2 DEF TouchedFiles
  <1>7. how[q] \in {"structured", "fallback", "heuristic"}
    BY <1>1 DEF GatesInv, TypeOK
  <1>8. QED
    BY <1>1, <1>3, <1>5, <1>6, <1>7 DEF Gates, Left

LEMMA GatesGitDiff ==
  ASSUME GatesInv, NEW q \in Requests, NEW form \in {"git", "lost"}, GitDiff(q, form)
  PROVE  Gates(q)'
  <1> DEFINE diff == IF form = "git" THEN GitDiffOf(tree[q]) ELSE {}
  <1>1. /\ pc[q] = "gitDiff" /\ pc'[q] = "check" /\ how'[q] = how[q]
        /\ reply[q] = "none" /\ reply'[q] = "none"
    BY DEF GatesInv, Gates, TypeOK, GitDiff, Goto
  <1>2. patch'[q] = [edits |-> diff, form |-> form,
                     touched |-> IF Worker[q] = "aider"
                                 THEN ExtractTouched(FilesOf(diff), TRUE)
                                 ELSE patch[q].touched]
    BY DEF GitDiff, GatesInv, TypeOK
  <1> HIDE DEF diff
  <1>3. CASE Worker[q] = "aider"
    <2>1. TouchedFiles(patch'[q]) \subseteq patch'[q].touched
      <3>1. CASE form = "git"
        <4>1. /\ patch'[q].form = "git" /\ patch'[q].edits = diff
              /\ patch'[q].touched = ExtractTouched(FilesOf(diff), TRUE)
          BY <1>2, <1>3, <3>1
        <4>2. QED
          BY <4>1 DEF TouchedFiles
      <3>2. CASE form = "lost"
        <4>1. patch'[q].form = "lost"
          BY <1>2, <3>2
        <4>2. QED
          BY <4>1 DEF TouchedFiles
      <3>3. QED
        BY <3>1, <3>2
    <2>2. how[q] = "none"
      BY <1>3 DEF GatesInv, Gates
    <2>3. QED
      BY <1>1, <1>3, <2>1, <2>2 DEF Gates, Left
  <1>4. CASE Worker[q] = "hardened"
    <2>1. how[q] = "fallback"
      BY <1>1, <1>4 DEF GatesInv, Gates
    <2>2. QED
      BY <1>1, <1>4, <2>1 DEF Gates, Left
  <1>5. QED
    BY <1>3, <1>4, WorkersAssumption

LEMMA GatesStep == GatesInv /\ [Next]_vars => GatesInv'
  <1> SUFFICES ASSUME GatesInv, [Next]_vars PROVE GatesInv'
    OBVIOUS
  <1>1. TypeOK'
    BY TypeStep DEF GatesInv
  <1>2. CASE UNCHANGED vars
    <2>1. \A q \in Requests : Gates(q)'
      BY <1>2 DEF GatesInv, Gates, vars
    <2>2. QED
      BY <1>1, <2>1 DEF GatesInv
  <1>3. ASSUME NEW q \in Requests, Step(q) \/ AiderTimesOut(q), NEW p \in Requests
        PROVE  Gates(p)'
    <2>1. CASE p # q
      <3>1. /\ pc'[p] = pc[p] /\ how'[p] = how[p] /\ patch'[p] = patch[p]
            /\ reply'[p] = reply[p] /\ allowed'[p] = allowed[p]
        BY <1>3, <2>1
        DEF Step, Search, ReadFile, AiderEdits, WriteFile, AfterWrite, NothingMore,
            AiderExits, AiderTimesOut, GitDiff, Check, Refuse, Validate, Respond,
            OracleJudges, Answer, Goto, GatesInv, TypeOK
      <3>2. QED
        BY <3>1 DEF GatesInv, Gates
    <2>2. CASE p = q
      <3>1. ASSUME NEW way \in {"structured", "fallback", "heuristic"}, Search(q, way)
            PROVE  Gates(q)'
        BY <3>1, NothingTouched DEF Search, Goto, GatesInv, Gates, TypeOK, Left
      <3>2. ASSUME NEW f \in Files, ReadFile(q, f)
            PROVE  Gates(q)'
        BY <3>2 DEF ReadFile, Goto, GatesInv, Gates, TypeOK, Left
      <3>3. ASSUME NEW f \in Files, AiderEdits(q, f)
            PROVE  Gates(q)'
        BY <3>3 DEF AiderEdits, GatesInv, Gates
      <3>4. CASE NothingMore(q)
        BY <3>4 DEF NothingMore, Answer, Goto, GatesInv, Gates, TypeOK, Left
      <3>5. CASE AiderExits(q) \/ AiderTimesOut(q)
        BY <3>5 DEF AiderExits, AiderTimesOut, Answer, Goto, GatesInv, Gates, TypeOK, Left
      <3>6. CASE Check(q)
        BY <3>6 DEF Check, Refuse, WithinBudget, Answer, Goto, GatesInv, Gates, TypeOK, Left
      <3>7. CASE Validate(q)
        BY <3>7 DEF Validate, Answer, Goto, GatesInv, Gates, TypeOK, Left
      <3>8. CASE Respond(q)
        BY <3>8 DEF Respond, Answer, Goto, GatesInv, Gates, TypeOK, Left
      <3>9. CASE OracleJudges(q)
        BY <3>9 DEF OracleJudges, Answer, Goto, GatesInv, Gates, TypeOK, Left
      <3>10. QED
        BY <1>3, <2>2, <3>1, <3>2, <3>3, <3>4, <3>5, <3>6, <3>7, <3>8, <3>9,
           GatesWriteFile, GatesGitDiff DEF Step
    <2>3. QED
      BY <2>1, <2>2
  <1>4. QED
    BY <1>1, <1>2, <1>3 DEF Next, Terminating, GatesInv

LEMMA GatesHold == Spec => []GatesInv
  BY GatesInit, GatesStep, PTL DEF Spec

\* A named file of an answer is a file, and no violation.
LEMMA NamedFiles ==
  ASSUME GatesInv, NEW q \in Requests, NEW f \in Named(q)
  PROVE  /\ f \in Paths /\ reply[q] \in Left
         /\ f \in TouchedFiles(patch[q])
         /\ allowed[q] # {} /\ ~IsBlocked(f)
         /\ \E prefix \in allowed[q] : StartsWith(Normalized(f), NormalizedPrefix(prefix))
  <1>1. reply[q] \in Left /\ f \in TouchedFiles(patch[q])
    BY DEF Named, TouchedFiles, ExtractTouched
  <1>2. patch[q] \in Patches
    BY DEF GatesInv, TypeOK
  <1>3. f \in Paths
    BY <1>1, <1>2, TouchedAreFiles
  <1>4. f \notin Violations(TouchedFiles(patch[q]), allowed[q])
    BY <1>1 DEF GatesInv, Gates
  <1>5. QED
    BY <1>1, <1>3, <1>4 DEF Violations

\* Whatever the requests share and whatever fails, a diff that names its files
\* leaves a worker only when each is below a prefix of its own request, name by
\* name.
THEOREM DiffsAreBudgeted == Spec => []NamedDiffsAreBudgeted
  <1>1. GatesInv => NamedDiffsAreBudgeted
    <2> SUFFICES ASSUME GatesInv, NEW q \in Requests, NEW f \in Named(q)
                 PROVE  \E prefix \in allowed[q] : Below(f, prefix)
      BY DEF NamedDiffsAreBudgeted
    <2>1. PICK prefix \in allowed[q] : StartsWith(Normalized(f), NormalizedPrefix(prefix))
      BY NamedFiles
    <2>2. prefix \in Prefixes
      BY <2>1, WorkersAssumption DEF GatesInv, TypeOK
    <2>3. f \in Paths
      BY NamedFiles
    <2>4. QED
      BY <2>1, <2>2, <2>3, AllowedIsBelow
  <1>2. QED
    BY <1>1, GatesHold, PTL

\* Nor does one that names a file below a blocked directory.
THEOREM BlockedNeverLeaves == Spec => []BlockedStays
  <1>1. GatesInv => BlockedStays
    BY NamedFiles, BlockedIsViolation DEF BlockedStays
  <1>2. QED
    BY <1>1, GatesHold, PTL

\* What both gates have passed is on neither of their lists.
THEOREM BothGatesProtect == Spec => []AcceptedIsUnprotected
  <1>1. GatesInv => AcceptedIsUnprotected
    <2> SUFFICES ASSUME GatesInv, NEW q \in Requests, reply[q] = "accepted",
                        how[q] # "fallback", NEW f \in Named(q)
                 PROVE  f[1] \notin BlockedPrefixes \cup {"auth"}
      BY DEF AcceptedIsUnprotected
    <2>1. f \in Paths /\ f[1] \notin BlockedPrefixes
      BY NamedFiles, BlockedIsViolation
    <2>2. f \in patch[q].touched
      BY NamedFiles DEF GatesInv, Gates
    <2>3. OracleAllows(f, allowed[q])
      BY <2>2 DEF GatesInv, Gates
    <2>4. QED
      BY <2>1, <2>3, AuthIsRefused
  <1>2. QED
    BY <1>1, GatesHold, PTL
(***************************************************************************)
(* A worker that has its worktree to itself describes it.                  *)
(***************************************************************************)

Alone(q) == \A other \in Requests \ {q} : tree[other] # tree[q]

\* The hardened worker keeps its patch level with the worktree, where it finds
\* no files but those of HEAD, unless a structured patch adds one, and has read
\* what it is about to write over; git is asked when everything is written.
HardenedInStep(q) ==
  /\ how[q] # "structured" => \A e \in edits[tree[q]] : e[2] \notin New
  /\ pc[q] = "start" => edits[tree[q]] = {}
  /\ pc[q] = "write" =>
       /\ how[q] # "structured" => reading[q].file \notin New
       /\ reading[q].saw = {e \in edits[tree[q]] : e[2] = reading[q].file}
  /\ IF patch[q].form = "lost" THEN pc[q] \in {"check", "validate", "respond", "end"}
     ELSE patch[q].edits = edits[tree[q]]
  /\ how[q] # "fallback" => patch[q].touched = FilesOf(patch[q].edits)

\* Aider asks git at the end and reports what the diff names.
AiderInStep(q) ==
  pc[q] \in {"check", "validate", "respond"} \/ reply[q] \in Left \cup {"no_result"} =>
    /\ patch[q].form # "lost" => patch[q].edits = GitDiffOf(tree[q])
    /\ patch[q].touched = ExtractTouched(FilesOf(patch[q].edits), TRUE)

InStep(q) ==
  /\ Worker[q] = "hardened" => HardenedInStep(q)
  /\ Worker[q] = "aider" => AiderInStep(q)

InStepInv == \A q \in Requests : Alone(q) => InStep(q)

\* What others do stays in their worktrees.
LEMMA InStepOthers ==
  ASSUME TypeOK, NEW q \in Requests, Step(q) \/ AiderTimesOut(q),
         NEW p \in Requests \ {q}, Alone(p), InStep(p)
  PROVE  InStep(p)'
  <1>1. /\ tree' = tree
        /\ pc'[p] = pc[p] /\ how'[p] = how[p] /\ reading'[p] = reading[p]
        /\ patch'[p] = patch[p] /\ reply'[p] = reply[p]
    BY DEF Step, Search, ReadFile, AiderEdits, WriteFile, AfterWrite, NothingMore,
           AiderExits, AiderTimesOut, GitDiff, Check, Refuse, Validate, Respond,
           OracleJudges, Answer, Goto, TypeOK
  <1>2. edits'[tree[p]] = edits[tree[p]]
    <2>1. tree[p] # tree[q] /\ tree[p] \in Trees
      BY DEF Alone, TypeOK
    <2>2. UNCHANGED edits \/ \E v : edits' = [edits EXCEPT ![tree[q]] = v]
      BY DEF Step, Search, ReadFile, AiderEdits, WriteFile, NothingMore, AiderExits,
             AiderTimesOut, GitDiff, Check, Validate, Respond, OracleJudges
    <2>3. QED
      BY <2>1, <2>2 DEF TypeOK
  <1>3. QED
    BY <1>1, <1>2 DEF InStep, HardenedInStep, AiderInStep, GitDiffOf

LEMMA InStepReadFile ==
  ASSUME GatesInv, NEW q \in Requests, InStep(q), NEW f \in Files, ReadFile(q, f)
  PROVE  InStep(q)'
  <1>1. /\ UNCHANGED <<tree, edits, how, patch, reply>>
        /\ pc[q] = "read" /\ pc'[q] = "write"
        /\ reading'[q] = [file |-> f, saw |-> {e \in edits[tree[q]] : e[2] = f}]
    BY DEF ReadFile, Goto, GatesInv, TypeOK
  <1>2. Worker[q] = "hardened"
    BY <1>1, WorkersAssumption DEF GatesInv, Gates, TypeOK
  <1>3. how[q] # "structured" => f \notin New
    BY <1>2 DEF ReadFile, Readable, Present, FilesOf, InStep, HardenedInStep
  <1>4. QED
    BY <1>1, <1>2, <1>3 DEF InStep, HardenedInStep

\* What it writes back is what is there and its edit.
LEMMA InStepWriteFile ==
  ASSUME GatesInv, NEW q \in Requests, InStep(q), WriteFile(q)
  PROVE  InStep(q)'
  <1> DEFINE f == reading[q].file
             w == tree[q]
  <1>1. pc[q] = "write" /\ Worker[q] = "hardened"
    BY WorkersAssumption DEF GatesInv, Gates, TypeOK, WriteFile
  <1>2. /\ reading[q].saw = {e \in edits[w] : e[2] = f}
        /\ how[q] # "structured" => f \notin New /\ \A e \in edits[w] : e[2] \notin New
        /\ patch[q].edits = edits[w]
        /\ how[q] # "fallback" => patch[q].touched = FilesOf(patch[q].edits)
    BY <1>1 DEF InStep, HardenedInStep
  <1>3. /\ UNCHANGED <<tree, how>> /\ w \in Trees
        /\ pc'[q] \in {"check", "gitDiff", "read"}
    BY DEF WriteFile, AfterWrite, Goto, GatesInv, TypeOK
  <1>4. edits'[w] = edits[w] \cup {<<q, f>>}
    <2>1. edits'[w] = {e \in edits[w] : e[2] # f} \cup reading[q].saw \cup {<<q, f>>}
      BY <1>3 DEF WriteFile, GatesInv, TypeOK
    <2>2. QED
      BY <1>2, <2>1
  <1>5. patch'[q] = [edits   |-> patch[q].edits \cup {<<q, f>>},
                     form    |-> IF how[q] = "structured" THEN "bare" ELSE "difflib",
                     touched |-> patch[q].touched \cup
                                   {IF how[q] = "fallback" THEN Absolute(f) ELSE f}]
    BY DEF WriteFile, WithEdit, GatesInv, TypeOK
  <1>6. /\ patch'[q].edits = edits'[w] /\ patch'[q].form # "lost"
        /\ how[q] # "fallback" => patch'[q].touched = patch[q].touched \cup {f}
    BY <1>2, <1>4, <1>5
  <1>7. how[q] # "structured" => \A e \in edits'[w] : e[2] \notin New
    BY <1>2, <1>4
  <1>8. how[q] # "fallback" => patch'[q].touched = FilesOf(patch'[q].edits)
    <2>1. patch'[q].edits = patch[q].edits \cup {<<q, f>>}
      BY <1>5
    <2> HIDE DEF f
    <2>2. FilesOf(patch[q].edits \cup {<<q, f>>}) = FilesOf(patch[q].edits) \cup {f}
      BY FilesGrow
    <2>3. QED
      BY <1>2, <1>6, <2>1, <2>2
  <1>9. QED
    BY <1>1, <1>3, <1>6, <1>7, <1>8 DEF InStep, HardenedInStep

LEMMA InStepGitDiff ==
  ASSUME GatesInv, NEW q \in Requests, InStep(q), NEW form \in {"git", "lost"}, GitDiff(q, form)
  PROVE  InStep(q)'
  <1> DEFINE diff == IF form = "git" THEN GitDiffOf(tree[q]) ELSE {}
  <1>1. /\ UNCHANGED <<tree, edits, how, reading, reply>>
        /\ pc[q] = "gitDiff" /\ pc'[q] = "check"
    BY DEF GitDiff, Goto, GatesInv, TypeOK
  <1>2. patch'[q] = [edits |-> diff, form |-> form,
                     touched |-> IF Worker[q] = "aider"
                                 THEN ExtractTouched(FilesOf(diff), TRUE)
                                 ELSE patch[q].touched]
    BY DEF GitDiff, GatesInv, TypeOK
  <1>3. form = "git" => diff = GitDiffOf(tree[q])
    OBVIOUS
  <1> HIDE DEF diff
  <1>4. CASE Worker[q] = "aider"
    <2>1. /\ patch'[q].edits = diff /\ patch'[q].form = form
          /\ patch'[q].touched = ExtractTouched(FilesOf(diff), TRUE)
      BY <1>2, <1>4
    <2>2. GitDiffOf(tree[q])' = GitDiffOf(tree[q])
      BY <1>1 DEF GitDiffOf
    <2>3. form # "lost" => diff = GitDiffOf(tree[q])'
      BY <1>3, <2>2
    <2>4. QED
      BY <1>4, <2>1, <2>3 DEF InStep, AiderInStep
  <1>5. CASE Worker[q] = "hardened"
    <2>1. how[q] = "fallback" /\ HardenedInStep(q)
      BY <1>1, <1>5 DEF GatesInv, Gates, InStep
    <2>2. GitDiffOf(tree[q]) = edits[tree[q]]
      BY <2>1 DEF HardenedInStep, GitDiffOf
    <2>3. /\ patch'[q].form = form
          /\ form # "lost" => patch'[q].edits = edits[tree[q]]
      BY <1>2, <1>3, <2>2
    <2>4. QED
      BY <1>1, <1>5, <2>1, <2>3 DEF InStep, HardenedInStep
  <1>6. QED
    BY <1>4, <1>5, WorkersAssumption

\* The other steps write no file of the hardened worker's, and change no patch.
LEMMA InStepRest ==
  ASSUME GatesInv, NEW q \in Requests, InStep(q),
         \/ \E way \in {"structured", "fallback", "heuristic"} : Search(q, way)
         \/ \E f \in Files : AiderEdits(q, f)
         \/ NothingMore(q) \/ AiderExits(q) \/ AiderTimesOut(q)
         \/ Check(q) \/ Validate(q) \/ Respond(q) \/ OracleJudges(q)
  PROVE  InStep(q)'
  <1> USE DEF InStep, HardenedInStep, AiderInStep, GatesInv, Gates, TypeOK, Goto, Answer,
              GitDiffOf
  <1>1. ASSUME NEW way \in {"structured", "fallback", "heuristic"}, Search(q, way)
        PROVE  InStep(q)'
    <2>1. /\ Worker[q] = "hardened" /\ pc'[q] = "read"
          /\ UNCHANGED <<tree, edits, patch>>
      BY <1>1 DEF Search
    <2>2. edits[tree[q]] = {} /\ patch[q] = NoPatch
      BY <1>1 DEF Search
    <2>3. /\ NoPatch.form # "lost" /\ NoPatch.edits = {} /\ NoPatch.touched = {}
          /\ FilesOf(NoPatch.edits) = {}
      BY NothingTouched DEF NoPatch
    <2>4. QED
      BY <2>1, <2>2, <2>3
  <1>2. ASSUME NEW f \in Files, AiderEdits(q, f)
        PROVE  InStep(q)'
    BY <1>2 DEF AiderEdits, Left
  <1>3. CASE NothingMore(q)
    BY <1>3 DEF NothingMore, Left
  <1>4. CASE AiderExits(q) \/ AiderTimesOut(q)
    BY <1>4 DEF AiderExits, AiderTimesOut, Left
  <1>5. CASE Check(q) \/ Validate(q)
    BY <1>5 DEF Check, Refuse, Validate, Left
  <1>6. CASE Respond(q) \/ OracleJudges(q)
    BY <1>6 DEF Respond, OracleJudges, Left
  <1>7. QED
    BY <1>1, <1>2, <1>3, <1>4, <1>5, <1>6

LEMMA InStepStep == GatesInv /\ InStepInv /\ [Next]_vars => InStepInv'
  <1> SUFFICES ASSUME GatesInv, InStepInv, [Next]_vars, NEW p \in Requests, Alone(p)'
               PROVE  InStep(p)'
    BY DEF InStepInv
  <1>1. UNCHANGED tree
    BY DEF Next, Terminating, vars, Step, Search, ReadFile, AiderEdits, WriteFile,
           NothingMore, AiderExits, AiderTimesOut, GitDiff, Check, Validate, Respond,
           OracleJudges
  <1>2. Alone(p) /\ InStep(p)
    BY <1>1 DEF Alone, InStepInv
  <1>3. CASE UNCHANGED vars
    BY <1>2, <1>3 DEF vars, InStep, HardenedInStep, AiderInStep, GitDiffOf
  <1>4. ASSUME NEW q \in Requests, Step(q) \/ AiderTimesOut(q)
        PROVE  InStep(p)'
    <2>1. CASE p # q
      BY <1>2, <1>4, <2>1, InStepOthers DEF GatesInv
    <2>2. CASE p = q
      BY <1>2, <1>4, <2>2, InStepReadFile, InStepWriteFile, InStepGitDiff, InStepRest DEF Step
    <2>3. QED
      BY <2>1, <2>2
  <1>5. QED
    BY <1>3, <1>4 DEF Next, Terminating

\* A worker that has its worktree to itself, and whose git has not failed,
\* answers with what git diff prints of the tracked files there, and reports the
\* files of its diff: for all paths, new and quoted ones too, and whatever the
\* worker's way.  Only a structured patch names a file that git does not track.
THEOREM ProposalsAreWorktrees == Spec => []ProposalIsWorktree
  <1>1. Init => InStepInv
    <2> SUFFICES ASSUME Init, NEW q \in Requests PROVE InStep(q)
      BY DEF InStepInv
    <2>1. /\ edits[tree[q]] = {} /\ pc[q] = "start" /\ reply[q] = "none"
          /\ patch[q] = NoPatch
      BY WorkersAssumption DEF Init
    <2>2. /\ NoPatch.form # "lost" /\ NoPatch.edits = {} /\ NoPatch.touched = {}
          /\ FilesOf(NoPatch.edits) = {}
      BY NothingTouched DEF NoPatch
    <2>3. QED
      BY <2>1, <2>2 DEF InStep, HardenedInStep, AiderInStep, Left
  <1>2. GatesInv /\ InStepInv => ProposalIsWorktree
    <2> SUFFICES ASSUME GatesInv, NEW q \in Requests, InStep(q),
                        reply[q] \in Left \cup {"no_result"}, patch[q].form # "lost"
                 PROVE  /\ {e \in patch[q].edits : e[2] \notin New} = GitDiffOf(tree[q])
                        /\ how[q] # "structured" => FilesOf(patch[q].edits) \cap New = {}
                        /\ how[q] # "fallback" =>
                             FilesOf(patch[q].edits) \ Quoted = patch[q].touched \ Quoted
      BY DEF InStepInv, Alone, ProposalIsWorktree
    <2>1. CASE Worker[q] = "hardened"
      <3>1. HardenedInStep(q) /\ patch[q].edits = edits[tree[q]]
        BY <2>1 DEF InStep, HardenedInStep
      <3>2. QED
        BY <3>1 DEF HardenedInStep, GitDiffOf, FilesOf
    <2>2. CASE Worker[q] = "aider"
      <3>1. AiderInStep(q)
        BY <2>2 DEF InStep
      <3>2. patch[q].edits = GitDiffOf(tree[q])
            /\ patch[q].touched = ExtractTouched(FilesOf(patch[q].edits), TRUE)
        BY <3>1 DEF AiderInStep
      <3>3. \A e \in GitDiffOf(tree[q]) : e[2] \notin New
        BY DEF GitDiffOf
      <3>4. {e \in patch[q].edits : e[2] \notin New} = GitDiffOf(tree[q])
            /\ FilesOf(patch[q].edits) \cap New = {}
        BY <3>2, <3>3 DEF FilesOf
      <3>5. QED
        BY <3>2, <3>4 DEF ExtractTouched
    <2>3. QED
      BY <2>1, <2>2, WorkersAssumption
  <1>3. QED
    BY <1>1, <1>2, InStepStep, GatesHold, PTL DEF Spec
=============================================================================
