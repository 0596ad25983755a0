\* Registrations and revocations against two submissions on two connections.
SPECIFICATION Spec
CONSTANTS
  a1 = a1
  a2 = a2
  a3 = a3
  t1 = t1
  t2 = t2
  n1 = n1
  n2 = n2
  Nonces = {n1, n2}
  UsageNonces = {}
  UsageWindow = 1
  Genesis = Genesis
  NoEnvelope = NoEnvelope
  AgentTenant <- MCAgentTenant
  AgentExpiry <- MCAgentExpiry
  Envelopes <- MCEnvelopes
  Requests = {r1, r2}
  Tenants = {t1, t2}
  Legacy = {old}
  Agents = {a1, a2, a3}
  PoolSize = 2
  ReadsMayFail = TRUE
  MaxTime = 2
INVARIANTS
  ReceiptsFromLiveRing
  SingleUseWhileFresh
  LinkedToPredecessor
PROPERTIES
  LedgerSpec
CONSTRAINT MCFocus
SYMMETRY MCSymmetry
CHECK_DEADLOCK FALSE
