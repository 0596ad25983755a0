\* Two receipts over two seconds, batches of one, overlapping runs; two
\* batches whose roots one poller follows, one at a time.
SPECIFICATION MCSpec
CONSTANTS
  t1 = t1
  Tenants = {t1}
  ReceiptIds = {1, 2}
  Runs = {u1, u2}
  NoRun = NoRun
  Ticker = u1
  Providers = {"btc", "sol"}
  BatchCap = 1
  MaxTime = 1
  MaxAudit = 0
  MaxFaults = 1
  ChainTenants = {"t1"}
  DefaultTenant = "default"
  Nets = {"ots"}
  PollLimit = 1
  Circuits = {"StatsHonestComputation", "ActionSumBound"}
  Production = TRUE
  MaxBatches = 2
  MaxOutages = 2
INVARIANTS
  CoveredUnlessLate
  RebuildExactUnlessLate
  ProofsRestOnUpgradedRoots
PROPERTIES
  WatermarkNeverRetreats
  EventuallyAnchored
  MinedRootsAreConfirmed
CHECK_DEADLOCK FALSE
