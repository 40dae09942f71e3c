SPECIFICATION Spec
CONSTANTS
  j1 = j1
  j2 = j2
  j3 = j3
  s1 = s1
  s2 = s2
  v1 = v1
  v2 = v2
  t1 = t1
  t2 = t2
  Jobs = {j1}
  Services = {s1, s2}
  Versions = {v1, v2}
  NoVersion = NoVersion
  Triggers = {t1, t2}
  NoTrigger = NoTrigger
  Developer = Developer
  Edits <- SomeEdits
  Settings <- OnePipeline
  FaultKinds = {"failed"}
  MaxFaults = 11
  MaxRepetitions = 10
INVARIANT
  CommandPublishes
CHECK_DEADLOCK FALSE
