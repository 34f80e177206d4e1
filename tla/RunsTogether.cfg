CONSTANTS
  r1 = r1
  r2 = r2
  NoRun = NoRun
  Runs = {r1, r2}
  Tools = {"inPlace", "answers"}
  Configs <- MCConfigs
  Repos <- MCRepos
  Decisions = {"applied", "failed"}
  Faults = {"service", "io", "crash"}
SPECIFICATION FairSpec
INVARIANTS
  TypeOK
  AwaitingIsActionable
  EndIsOnRecord
PROPERTIES
  LifecycleSteps
  EveryRunEnds
