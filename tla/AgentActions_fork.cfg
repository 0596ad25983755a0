\* Two connections: two receipts of one tenant written at the same time.
SPECIFICATION Spec
CONSTANTS
  a1 = a1
  a2 = a2
  a3 = a3
  t1 = t1
  t2 = t2
  n1 = n1
  n2 = n2
  Nonces = {n1, n2}
  UsageNonces = {}
  UsageWindow = 1
  Genesis = Genesis
  NoEnvelope = NoEnvelope
  AgentTenant <- MCAgentTenant
  AgentExpiry <- MCAgentExpiry
  Envelopes <- MCOneAgent
  Requests = {r1, r2}
  Tenants = {t1}
  Legacy = {}
  Agents = {a2}
  PoolSize = 2
  ReadsMayFail = FALSE
  MaxTime = 0
INVARIANTS
  ChainVerifies
CHECK_DEADLOCK FALSE
