---------------------------- MODULE MCPromotion ----------------------------
(* Instances of Promotion for TLC.                                         *)
EXTENDS Promotion, TLC

CONSTANTS r1, r2, r3, r4, w1, w2

MCEditsOnly == [r \in Runs |-> {"edited"}]

\* One run only adds a file, another adds one as well.
MCMixedChange ==
  [r \in Runs |-> CASE r = r4 -> {"added"} [] r = r2 -> {"edited", "added"} [] OTHER -> {"edited"}]

\* What the metadata may say of a run's validation.
Says(commands, stages, preferred, waived) ==
  [commands |-> commands, stages |-> stages, preferred |-> preferred, waived |-> waived]

\* Every run has flat commands, as the coding service writes them, and the
\* repository has no .oracle-validation.json.
MCCommands  == [r \in Runs |-> Says(TRUE, "none", FALSE, FALSE)]
MCNoProfile == [stages |-> "none", waived |-> FALSE]

\* A profile of stages without commands that waives validation.  Three runs name a
\* profile of their own: one has commands, one has none and waives validation, one
\* has none.  The fourth has commands, which the stages of the profile hide.
MCBareProfile == [stages |-> "bare", waived |-> TRUE]
MCMixedSettings ==
  (r1 :> Says(TRUE, "none", TRUE, FALSE)) @@ (r2 :> Says(FALSE, "none", TRUE, TRUE))
    @@ (r3 :> Says(FALSE, "none", TRUE, FALSE)) @@ (r4 :> Says(TRUE, "none", FALSE, FALSE))
=============================================================================
