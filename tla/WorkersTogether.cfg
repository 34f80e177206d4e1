CONSTANTS
  q1 = q1
  q2 = q2
  w1 = w1
  w2 = w2
  Requests = {q1, q2}
  Worker <- MCBoth
  Trees = {w1, w2}
  Assignments <- MCAssignments
  Paths <- MCPaths
  New <- MCNew
  Quoted <- MCQuoted
  Begins <- MCBegins
  Undotted <- MCUndotted
  Unended <- MCUnended
  Allowances <- MCAllowances
  MaxChanged = 2
  Faults = {"git", "timeout", "validator"}
SPECIFICATION FairSpec
INVARIANTS
  TypeOK
  ProposalIsWorktree
  NamedDiffsAreBudgeted
  BlockedStays
  AcceptedIsUnprotected
PROPERTY
  EveryProposalEnds
