CONSTANTS
  r1 = r1
  r2 = r2
  NoRun = NoRun
  Runs = {r1}
  Tools = {"inPlace"}
  Configs <- MCConfigs
  Repos <- MCRepos
  Decisions = {"applied", "rejected", "failed"}
  Faults = {}
SPECIFICATION Spec
INVARIANT
  NormalRunAwaits
