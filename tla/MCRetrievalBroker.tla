------------------------- MODULE MCRetrievalBroker -------------------------
(* Instances of RetrievalBroker for TLC.                                   *)
EXTENDS RetrievalBroker

CONSTANTS A, B, q1, q2, q3

\* Two requests for one repository, and one for another.
MCTwoRepos == [q \in Requests |-> IF q = q2 THEN B ELSE A]

\* All requests keep the default refresh_index = True but one.
MCMostRefresh == [q \in Requests |-> q # q3]
=============================================================================
