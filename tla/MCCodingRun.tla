---------------------------- MODULE MCCodingRun ----------------------------
(* Instances of CodingRun for TLC.                                         *)
EXTENDS CodingRun

CONSTANTS r1, r2

Staged(commands, haltOnFailure) ==
  [commands |-> commands, haltOnFailure |-> haltOnFailure]

\* Stages that halt, that do not, and that are empty; commands without stages;
\* a profile that cannot be read, and one to fall back on.
MCProfiles ==
  [n \in ProfileNames |->
     CASE n = "swift" -> [NoProfile EXCEPT !.stages =
            <<Staged(<<"build">>, "missing"), Staged(<<"lint">>, "false")>>]
       [] n = "python" -> [NoProfile EXCEPT !.commands = <<"test">>]
       [] n = "javascript" -> [NoProfile EXCEPT !.stages =
            <<Staged(<<>>, "true"), Staged(<<"lint">>, "false")>>]
       [] n = "typescript" -> NoProfile
       [] n = "default" -> [NoProfile EXCEPT !.stages = <<Staged(<<"status">>, "true")>>]]

\* Commands of one's own, the profiles above, and nothing at all.
MCConfigs ==
  {[custom |-> <<"check">>, profiles |-> MCProfiles],
   [custom |-> <<>>, profiles |-> MCProfiles],
   [custom |-> <<>>, profiles |-> [n \in ProfileNames |-> NoProfile]]}

MCRepos == {{"Package.swift", "*.py"}, {"setup.py"}, {"*.jsx"}, {"*.ts"}}
=============================================================================
