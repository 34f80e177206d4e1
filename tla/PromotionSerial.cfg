CONSTANTS
  r1 = r1
  r2 = r2
  r3 = r3
  r4 = r4
  w1 = w1
  w2 = w2
  NoRun = NoRun
  Runs = {r1, r2, r3, r4}
  Awaiting = {r2, r3, r4}
  Workers = {w1}
  Change <- MCMixedChange
  Settings <- MCMixedSettings
  Profile <- MCBareProfile
  NoValidationOK = FALSE
  SkipCanonical = FALSE
  Serial = TRUE
  Faults = {}
SPECIFICATION Spec
INVARIANTS
  TypeOK
  FailureLeavesTrunk
  RestLeavesNothingStaged
  ReceiptMatchesLedger
  CommitWasValidated
