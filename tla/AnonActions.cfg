\* Ring policies against their operator, and usage reports against the budget, in
\* two instances (MCFocus).
SPECIFICATION Spec
CONSTANTS
  m1 = m1
  m2 = m2
  g1 = g1
  g2 = g2
  t1 = t1
  n1 = n1
  n2 = n2
  u1 = u1
  r1 = r1
  pay = pay
  d1 = d1
  Tenants = {t1}
  Nonces = {n1, n2, u1}
  UsageNonces = {u1}
  UsageWindow = 1
  Legacy = {}
  Genesis = Genesis
  NoEnvelope = NoEnvelope
  NoBody = NoBody
  SetUpRules <- MCSetUpRules
  SetUpMembers <- MCSetUpMembers
  ReportBodies <- MCReportBodies
  PoolSize = 2
  ReadsMayFail = FALSE
  Requests = {r1, r2}
  Envelopes <- MCEnvelopes
  Rings = {g1, g2}
  Members = {m1, m2}
  Rules <- MCRules
  Reports = {p1, p2}
  MaxVersion = 2
  MaxTime = 2
INVARIANTS
  AuthorisedByEveryRing
  BudgetGatesNewActions
  UsageIsSumOfReports
  ReportBilledOnce
CONSTRAINT MCFocus
SYMMETRY MCSymmetry
CHECK_DEADLOCK FALSE
