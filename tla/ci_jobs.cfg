SPECIFICATION FairSpec
CONSTANTS
  j1 = j1
  j2 = j2
  j3 = j3
  s1 = s1
  s2 = s2
  v1 = v1
  v2 = v2
  t1 = t1
  t2 = t2
  Jobs = {j1, j2, j3}
  Services = {s1, s2}
  Versions = {v1, v2}
  NoVersion = NoVersion
  Triggers = {t1, t2}
  NoTrigger = NoTrigger
  Developer = Developer
  Edits <- SomeEdits
  Settings <- ThreePipelines
  FaultKinds <- AllFaults
  MaxFaults = 1
  MaxRepetitions = 2
INVARIANTS
  TypeOK
  SuccessIsPublished
  RepetitionsAreEarned
  WorkFitsBranch
PROPERTIES
  PublishesAtomically
  JobsEnd
CHECK_DEADLOCK FALSE
