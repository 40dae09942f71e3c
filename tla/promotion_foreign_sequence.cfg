SPECIFICATION Spec
CONSTANTS
  j1 = j1
  j2 = j2
  p1 = p1
  p2 = p2
  s1 = s1
  s2 = s2
  v1 = v1
  v2 = v2
  dev = dev
  prod = prod
  qa = qa
  q1 = q1
  q2 = q2
  x1 = x1
  x2 = x2
  x3 = x3
  Jobs = {j1, j2}
  Promotions = {p1, p2}
  Services = {s1, s2}
  Stages = {dev, prod, qa}
  SequenceNames = {q1, q2}
  Versions = {v1, v2}
  NoVersion = NoVersion
  NoName = NoName
  NoTrigger = NoTrigger
  Nobody = Nobody
  Rest = Rest
  KeyPaths <- AllPaths
  Merged <- MergeOnce
  Occurs <- SomeNames
  Scenarios <- OneStageGiven
  Workspaces <- ThreeWorkspaces
  Initial <- Repository
  StageBranches <- TwoBranches
  FaultKinds = {}
  MaxFaults = 0
INVARIANT
  SequenceOfItsStage
CHECK_DEADLOCK FALSE
