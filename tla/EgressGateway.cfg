\* Issuances and calls of the proxy on one connection, in two instances (MCFocus).
SPECIFICATION EgressSpec
CONSTANTS
  a1 = a1
  a2 = a2
  t1 = t1
  n1 = n1
  n2 = n2
  u1 = u1
  u2 = u2
  Nonces = {n1, n2}
  UsageNonces = {}
  UsageWindow = 1
  Genesis = Genesis
  NoEnvelope = NoEnvelope
  NoCall = NoCall
  Ended = Ended
  AgentTenant <- MCAgentTenant
  AgentExpiry <- MCAgentExpiry
  Envelopes <- MCEnvelopes
  Targets <- MCTargets
  Allowlist <- MCAllowlist
  Requests = {r1, r2}
  Calls = {c1, c2}
  Tenants = {t1}
  Legacy = {}
  Agents = {a1, a2}
  PoolSize = 1
  ReadsMayFail = FALSE
  CapLifetime = 2
  IssueLimit = 1
  WindowLen = 1
  VoluntaryLog = TRUE
  MaxReports = 1
  MaxTime = 2
INVARIANTS
  CapabilitySpentOnce
  LogMatchesCalls
  CallsAreAuthorised
PROPERTIES
  Spec
CHECK_DEADLOCK FALSE
CONSTRAINT MCFocus
SYMMETRY MCSymmetry
