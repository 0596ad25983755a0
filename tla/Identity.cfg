\* One behaviour per identity service; every bound is named in its module.
INIT MCInit
NEXT MCNext
CONSTANTS
  a1 = a1 u1 = u1 u2 = u2 s1 = s1 s2 = s2 j1 = j1 j2 = j2 q1 = q1 m1 = m1
  c1 = c1 c2 = c2 p1 = p1 p2 = p2 p3 = p3 b1 = b1 b2 = b2 k1 = k1 k2 = k2
  l1 = l1 l2 = l2 t1 = t1 t2 = t2 y1 = y1 y2 = y2 read = read pay = pay f1 = f1 i1 = i1
  CallIds = {c1, c2}
  CallAgents = {a1}
  AgentEnd <- MCAgentEnd
  AgentOwner <- MCAgentOwner
  AgentLevel <- MCBank
  Ajwts <- MCAjwts
  Pops = {p1, p2}
  Orders <- MCOrders
  Kinds = {"consent", "payment", "policy", "verify"}
  Enforcement = "enforce"
  NeedBinding = TRUE
  MaxAction = 0
  PopLifetime = 1
  PayLifetime = 1
  CallConns = 1
  LastTime = 1
  NoMax = NoMax
  ConsentIds = {q1}
  Sites = {s1, s2}
  Users = {u1}
  Retrievals = {h1, h2}
  ConsentLife = 1
  CreditCap = 2
  NoAgent = NoAgent
  NoOwner = NoOwner
  Workers = {h1, h2}
  Tenants = {t1}
  People = {u1, u2}
  AuthKeys = {k1, k2}
  Attestations <- MCAttestations
  Enrolments <- MCEnrolments
  Challenges = {c1, c2}
  None = None
  BadLeaf = BadLeaf
  ChallengeTtl = 0
  PruneGrace = 0
  ActiveCap = 1
  LegacyAuth = TRUE
  OwnPoint <- MCOwnPoint
  AccountEnd = 1
  MaxRestarts = 1
  Tasks = {h1, h2}
  Ids = {i1, i2}
  Realms = {t1, t2}
  Humans = {u1}
  AgentKeys = {y1, y2}
  Scopes = {read, pay}
  Configs = {f1, f2}
  AttestIds = {q1}
  Registrations <- MCRegistrations
  VcRequests <- MCVcRequests
  RequireMandate = FALSE
  NoRow = NoRow
  VcCap = 1
  MaxDelegation = 1
  LeaseTtl = 1
  RegLast = 1
  RegRestarts = 1
SYMMETRY MCSymmetry
CONSTRAINT MCFocus
INVARIANTS
  DisclosureIsAuthorised
  TokenActsOnce
  SessionsAreTheKeyHolders
  AcceptedUsersAreInRing
  ReceiptsSurviveRestart
  ClaimStuckOnlyByFault
  AuthorityHasOneSource
  RingFollowsTable
  TrailIsAChain
PROPERTY KeepsPromise
CHECK_DEADLOCK FALSE
