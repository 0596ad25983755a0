\* A batch that includes the head of the security audit log.
INIT MCInit
NEXT MCNext
CONSTANTS
  t1 = t1
  Tenants = {t1}
  ReceiptIds = {1, 2}
  Runs = {u1, u2}
  NoRun = NoRun
  Ticker = u1
  Providers = {"btc", "sol"}
  BatchCap = 1
  MaxTime = 1
  MaxAudit = 1
  MaxFaults = 0
  ChainTenants = {"t1"}
  DefaultTenant = "default"
  Nets = {"ots"}
  PollLimit = 1
  Circuits = {"StatsHonestComputation", "ActionSumBound"}
  Production = TRUE
  MaxBatches = 2
  MaxOutages = 2
INVARIANT ProofMatchesRoot
CHECK_DEADLOCK FALSE
