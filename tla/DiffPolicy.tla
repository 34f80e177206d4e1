----------------------------- MODULE DiffPolicy -----------------------------
(***************************************************************************)
(* The gates between a worker's diff and a run that may be promoted, as    *)
(* operators: extract_touched_files, is_path_blocked and                   *)
(* enforce_path_budget of integration/shared_py/diff_utils.py, and         *)
(* CodingMutationPolicy.validatePaths, with which Oracle judges the files  *)
(* that the worker says it has touched.                                    *)
(*                                                                         *)
(* A path is the sequence of its names.  How names begin and which dots    *)
(* they lead or end with is given by constants: the prefix tests look at   *)
(* nothing else.  No name is made of dots alone.                           *)
(***************************************************************************)
EXTENDS Naturals, FiniteSets, Sequences

CONSTANTS
  Paths,       \* the paths that diffs may name
  Quoted,      \* those that git prints in quotation marks
  Begins,      \* <<m, n>>: the name m is a beginning of the name n
  Undotted,    \* Undotted[n]: the name n without its leading dots
  Unended      \* Unended[n]: the name n without its trailing dots

Names == DOMAIN Undotted

\* An allowed prefix: names, the last of which need not be whole unless a slash
\* follows it.  The empty string is a prefix of everything.
Prefixes == [names : Seq(Names), slash : BOOLEAN]

ASSUME PolicyAssumption ==
  /\ Paths \subseteq Seq(Names) \ {<<>>}
  /\ Quoted \subseteq Paths
  /\ DOMAIN Unended = Names
  /\ \A n \in Names : <<n, n>> \in Begins /\ Undotted[n] \in Names /\ Unended[n] \in Names
  /\ ".git" \in Names => Undotted[".git"] = "git"
  /\ ".github" \in Names => Undotted[".github"] = "github"
  /\ \A n \in {"secrets", "infra", "deploy", "auth"} \cap Names :
       Undotted[n] = n /\ Unended[n] = n

-----------------------------------------------------------------------------
(* diff_utils.py                                                           *)

\* The patterns want "a/" and "b/" right after the space.
ExtractTouched(paths, printedByGit) ==
  IF printedByGit THEN paths \ Quoted ELSE paths

\* lstrip("./"): leading dots and slashes go.
Normalized(p) == [p EXCEPT ![1] = Undotted[@]]

NormalizedPrefix(prefix) ==
  IF prefix.names = <<>> THEN prefix
  ELSE [prefix EXCEPT !.names = Normalized(@)]

\* A slip: the slash after a prefix is not looked at.
MutantStartsWith(p, prefix) ==
  LET k == Len(prefix.names) IN
    \/ k = 0
    \/ /\ Len(p) >= k
       /\ \A i \in 1..(k - 1) : p[i] = prefix.names[i]
       /\ <<prefix.names[k], p[k]>> \in Begins

StartsWith(p, prefix) ==
  LET k == Len(prefix.names) IN
    \/ k = 0
    \/ /\ Len(p) >= k
       /\ \A i \in 1..(k - 1) : p[i] = prefix.names[i]
       /\ IF prefix.slash THEN p[k] = prefix.names[k] /\ Len(p) > k
          ELSE <<prefix.names[k], p[k]>> \in Begins

\* BLOCKED_PATH_PREFIXES
BlockedPrefixes == {".git", ".github", "secrets", "infra", "deploy"}

\* A slip: the blocked names keep their dots while those of the paths go.
MutantIsBlocked(p) == Normalized(p)[1] \in BlockedPrefixes

IsBlocked(p) == Normalized(p)[1] \in {"git", "github", "secrets", "infra", "deploy"}

\* enforce_path_budget: those of the touched files that are not allowed.
Violations(paths, prefixes) ==
  {p \in paths :
     \/ prefixes = {}
     \/ IsBlocked(p)
     \/ \A prefix \in prefixes : ~StartsWith(Normalized(p), NormalizedPrefix(prefix))}

-----------------------------------------------------------------------------
(* Oracle's policy.                                                        *)

\* trimmingCharacters(in: "./"): dots and slashes go at both ends.
Trimmed(p) == [Normalized(p) EXCEPT ![Len(p)] = Unended[@]]

TrimmedPrefix(prefix) ==
  [names |-> IF prefix.names = <<>> THEN <<>> ELSE Trimmed(prefix.names),
   slash |-> FALSE]

\* A slip: only the allowed prefixes are looked at.
MutantOracleAllows(p, prefixes) ==
  prefixes = {} \/ \E prefix \in prefixes : StartsWith(Trimmed(p), TrimmedPrefix(prefix))

\* validatePaths trims everything, and what remains of a blocked directory is
\* the beginning of a name.
OracleAllows(p, prefixes) ==
  /\ prefixes = {} \/ \E prefix \in prefixes : StartsWith(Trimmed(p), TrimmedPrefix(prefix))
  /\ \A blocked \in {"github", "infra", "deploy", "auth"} :
       <<blocked, Trimmed(p)[1]>> \notin Begins
=============================================================================
