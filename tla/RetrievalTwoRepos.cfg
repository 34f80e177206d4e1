CONSTANTS
  A = A
  B = B
  q1 = q1
  q2 = q2
  q3 = q3
  None = None
  Repos = {A, B}
  Requests = {q1, q2, q3}
  Repo <- MCTwoRepos
  Refresh <- MCMostRefresh
  Indexed = {B}
  MaxVersion = 2
  MaxRestarts = 1
  Faults = {"timeout", "load"}
SPECIFICATION FairSpec
INVARIANTS
  TypeOK
  OneUpdateAtATime
PROPERTIES
  ReloadsOutsideUpdates
  RefreshIsHonoured
  EveryRequestEnds
