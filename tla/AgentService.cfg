\* SAURON_DB_POOL_SIZE = 1: requests take turns on the only connection.
SPECIFICATION FairSpec
CONSTANTS
  a1 = a1
  a2 = a2
  a3 = a3
  t1 = t1
  t2 = t2
  n1 = n1
  n2 = n2
  Nonces = {n1, n2}
  UsageNonces = {}
  UsageWindow = 1
  Genesis = Genesis
  NoEnvelope = NoEnvelope
  AgentTenant <- MCAgentTenant
  AgentExpiry <- MCAgentExpiry
  Envelopes <- MCOneAgent
  Requests = {r1, r2, r3}
  Tenants = {t1}
  Legacy = {old}
  Agents = {a2}
  PoolSize = 1
  ReadsMayFail = FALSE
  MaxTime = 1
INVARIANTS
  ChainVerifies
PROPERTIES
  EveryRequestAnswered
CHECK_DEADLOCK FALSE
