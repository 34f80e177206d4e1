CONSTANTS
  r1 = r1
  r2 = r2
  r3 = r3
  r4 = r4
  w1 = w1
  w2 = w2
  NoRun = NoRun
  Runs = {r1, r2}
  Awaiting = {r1, r2}
  Workers = {w1, w2}
  Change <- MCEditsOnly
  Settings <- MCCommands
  Profile <- MCNoProfile
  NoValidationOK = FALSE
  SkipCanonical = FALSE
  Serial = FALSE
  Faults = {}
SPECIFICATION Spec
INVARIANT
  CommitIsOwnPatch
