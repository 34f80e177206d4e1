------------------------- MODULE MCProposalWorkers -------------------------
(* Instances of ProposalWorkers, with the paths and the prefixes that the  *)
(* policies judge, for TLC.                                                *)
EXTENDS ProposalWorkers, TLC

CONSTANTS q1, q2, w1, w2

MCBoth == (q1 :> "hardened") @@ (q2 :> "aider")

\* One worktree for both requests, or one for each.
MCAssignments == { (q1 :> w1) @@ (q2 :> w1), (q1 :> w1) @@ (q2 :> w2) }

MCPaths ==
  { <<"src", "f">>, <<"src", "new">>, <<".github", "f">>, <<"auth", "f.">> }
MCNew == { <<"src", "new">> }
MCQuoted == { <<"auth", "f.">> }

MCUndotted ==
  [n \in {"src", "f", "f.", "new", ".github", "github", "auth", "worktree"} |->
     IF n = ".github" THEN "github" ELSE n]
MCUnended == [n \in DOMAIN MCUndotted |-> IF n = "f." THEN "f" ELSE n]

MCBegins == {<<n, n>> : n \in DOMAIN MCUndotted} \cup {<<"f", "f.">>}

Prefix(names, slash) == [names |-> names, slash |-> slash]

\* No prefix, all paths, and directories, one of them hidden: "auth/f" may end
\* within a name and "auth/f/" may not.
MCAllowances ==
  { {}, {Prefix(<<>>, FALSE)},
    {Prefix(<<".github">>, TRUE), Prefix(<<"auth", "f">>, FALSE)},
    {Prefix(<<"src">>, TRUE), Prefix(<<"auth", "f">>, TRUE)} }
=============================================================================
