SPECIFICATION FairSpec

CONSTANTS
  s1 = s1
  s2 = s2
  v1 = v1
  v2 = v2
  v3 = v3
  t1 = t1
  t2 = t2
  Services = {s1}
  Versions = {v1, v2, v3}
  NoVersion = NoVersion
  Triggers = {t1, t2}
  NoTrigger = NoTrigger
  NoService = NoService
  NoTarget = NoTarget
  Staged = {t1, t2}
  Histories <- TwoCommits
  FaultKinds = {"rejected"}
  MaxFaults = 1

PROPERTIES
  EventuallyDeployed
