---------------------------- MODULE MCRunRecords ----------------------------
(* Instances of RunRecords for TLC.                                        *)
EXTENDS RunRecords, TLC

CONSTANTS r1, r2, q1, q2

\* Runs differ in nothing but their names, and readers in what they ask for.
Symmetry == Permutations(Runs) \cup Permutations(Readers)
=============================================================================
