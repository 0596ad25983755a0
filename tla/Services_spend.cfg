\* Two tenants that record spend under one policy and agent.
INIT MCInit
NEXT MCNext
CONSTANTS
  SigCalls = {h1, h2}
  Signers = {s1, s2}
  Digests = {d1, d2}
  s1 = s1
  s2 = s2
  d1 = d1
  d2 = d2
  SigRequests <- MCSigRequests
  Nobody = Nobody
  Skew = 1
  NonceGrace = 1
  AgentLease = 3
  SigLast = 4
  Requesters = {h1, h2, h3}
  Pool = 1
  NumMax = 4
  DayLength = 6
  RateWindow = 2
  WeekWindow = 4
  OpChoices = {"==", "<", ">=", "+", "-", "and", "or"}
  FieldChoices <- MCFieldChoices
  LeafChoices <- MCLeafChoices
  Scenarios <- MCScenarios
  MaxParts = 2
  Tenants = {"t1", "t2"}
  Policies = {"p1", "p2"}
  PolAgents = {"a1"}
  NoOne = NoOne
  Handlers = {h1, h2}
  Amounts = {1}
  Cap <- MCCap
  Home <- MCHome
  Uploads <- MCUploads
  Spenders <- MCSpenders
  MaxSpend = 2
  Submissions <- MCSubmissions
  Checkpointed = {"t1", "t2"}
  StatMetrics = {1, 2}
  CohortUploads <- MCCohortUploads
  Rotations <- MCRotations
  Publishers = {h1, h2}
  NoCohort = NoCohort
  NoBudget = NoBudget
  DeltaOne = 6
  CohortEnd = 1
  Callers = {h1, h2}
  Addresses = {i1}
  Cost = 2
  Refill = 1
  Burst = 3
  BucketTtl = 3
  NoBucket = NoBucket
  Unlocked = Unlocked
  IngressEnd = 4
  MaxEvents = 3
  MaxHeadFaults = 1
  n1 = n1
  n2 = n2
  k1 = k1
  Nonces = {n1, n2}
  PopKeys = {k1, k2}
  Readings = {"good", "other"}
  PcrSets <- MCPcrSets
  Deployments <- MCDeployments
  Enrolments = {h1, h2}
  Unset = Unset
  AttSkew = 1
  ChallengeTtl = 1
  AttEnd = 2
  MaxQuotes = 1
SYMMETRY MCSymmetry
CONSTRAINT MCFocus
INVARIANT TenantTotalsAreOwn
CHECK_DEADLOCK FALSE
