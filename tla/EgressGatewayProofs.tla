------------------------ MODULE EgressGatewayProofs -------------------------
(***************************************************************************)
(* Proofs about AgentActions and about EgressGateway, which is built on    *)
(* it.  The identified path implements the ledger, so that what is proved  *)
(* of the ledger holds of it, and no receipt rests on a stale ring.  The   *)
(* gateway implements the identified path, lets out only authorised        *)
(* requests, one per capability, and logs them truly.                      *)
(***************************************************************************)
EXTENDS EgressGateway, ReceiptLedgerProofs

----------------------------------------------------------------------------
(* The identified path: refinement.                                        *)

\* Every step is a step of the ledger or leaves its tables and requests alone.
LEMMA StepImplements == [Next]_vars => [LedgerNext]_ledgerVars
<1> SUFFICES ASSUME [Next]_vars PROVE [LedgerNext]_ledgerVars
  OBVIOUS
<1>1. CASE \E a \in Agents : RegisterAgent(a) \/ RevokeAgent(a)
  BY <1>1 DEF RegisterAgent, RevokeAgent, ledgerVars
<1>2. CASE \E r \in Requests, e \in Envelopes, S \in SUBSET Agents : Submit(r, e, S)
  BY <1>2 DEF Submit, LedgerNext
<1>3. CASE \E r \in Requests : Acquire(r) \/ Commit(r) \/ Fail(r)
  BY <1>3 DEF LedgerNext
<1>4. CASE \E r \in Requests : CheckAgent(r)
  <2> PICK r \in Requests : CheckAgent(r)
    BY <1>4
  <2>1. CASE AgentRowOk(r)
    BY <2>1 DEF CheckAgent, ledgerVars
  <2>2. CASE ~AgentRowOk(r)
    <3>1. Fail(r)
      BY <2>2 DEF CheckAgent, Fail, Holding
    <3> QED BY <3>1 DEF LedgerNext
  <2> QED BY <2>1, <2>2
<1>5. CASE \E r \in Requests : CheckTenantRing(r)
  BY <1>5 DEF CheckTenantRing, LedgerNext
<1>6. CASE Crash \/ Tick
  BY <1>6 DEF LedgerNext
<1>7. CASE UNCHANGED vars
  BY <1>7 DEF vars, ledgerVars
<1> QED BY <1>1, <1>2, <1>3, <1>4, <1>5, <1>6, <1>7 DEF Next, Handle

\* validate_agent_action, with agents registered and revoked around it,
\* implements the receipt ledger.
THEOREM ImplementsLedger == Spec => LedgerSpec
<1>1. Init => LedgerInit
  BY DEF Init
<1> QED BY <1>1, StepImplements, PTL DEF Spec, LedgerSpec

\* Hence one envelope earns at most one receipt of the identified path while it
\* is valid, ...
THEOREM AgentSingleUse == Spec => []SingleUseWhileFresh
  BY ImplementsLedger, SingleUse, PTL

\* ... and with a single connection the chains it writes verify.
THEOREM AgentChainVerifiesAlone ==
  ASSUME PoolSize = 1, ~ReadsMayFail PROVE Spec => []ChainVerifies
  BY ImplementsLedger, ChainVerifiesAlone, PTL

----------------------------------------------------------------------------
(* Rings.                                                                  *)

\* The types, with those of a request's envelope.
AgentTypeInv == AgentTypeOK /\ EnvKnown

\* The requests whose checks have succeeded.
Passed(r) == stage[r] \in {"passed", "pruned", "burnt", "linked", "done"}

\* Nobody comes back from revocation.
GoneStaysGone == \A r \in Requests : \A a \in gone[r] : agents[a] = "revoked"

\* What CheckTenantRing establishes of the ring of r, about data of r alone.
LiveRing(r) ==
  /\ env[r].agent \in ring[r]
  /\ \A a \in ring[r] : /\ AgentTenant[a] = env[r].tenant
                        /\ AgentExpiry[a] > stamp[r]
                        /\ a \notin gone[r]

PassedLive == \A r \in Requests : Passed(r) => LiveRing(r)

\* A stored receipt carries the tenant and the timestamp of its request.
RowOfRequest ==
  \A x \in receipts : x.id \in Requests =>
    stage[x.id] = "done" /\ x.tenant = env[x.id].tenant /\ x.ts = stamp[x.id]

RingInv == AgentTypeInv /\ GoneStaysGone /\ PassedLive /\ RowOfRequest

\* The types hold initially.
LEMMA InitAgentTypeInv == Init => AgentTypeInv
  BY InitTypeInv DEF Init, AgentTypeInv, AgentTypeOK, TypeInv

\* The types are kept: the ledger's by refinement, the agents' by each action.
LEMMA NextAgentTypeInv == AgentTypeInv /\ [Next]_vars => AgentTypeInv'
<1> SUFFICES ASSUME AgentTypeInv, [Next]_vars PROVE AgentTypeInv'
  OBVIOUS
<1>t. TypeOK' /\ EnvKnown'
  BY StepImplements, NextTypeInv DEF AgentTypeInv, AgentTypeOK, TypeInv
<1> USE DEF AgentTypeInv, AgentTypeOK
<1>1. CASE \E a \in Agents : RegisterAgent(a) \/ RevokeAgent(a)
  BY <1>t, <1>1 DEF RegisterAgent, RevokeAgent
<1>2. CASE \E r \in Requests, e \in Envelopes, S \in SUBSET Agents : Submit(r, e, S)
  BY <1>t, <1>2 DEF Submit
<1>3. CASE \E r \in Requests : CheckAgent(r)
  BY <1>t, <1>3 DEF CheckAgent
<1>4. CASE UNCHANGED agentVars
  BY <1>t, <1>4 DEF agentVars
<1>5. CASE \E r \in Requests : CheckTenantRing(r)
  BY <1>4, <1>5 DEF CheckTenantRing
<1>6. CASE UNCHANGED vars
  BY <1>4, <1>6 DEF vars, agentVars
<1> QED BY <1>1, <1>2, <1>3, <1>4, <1>5, <1>6 DEF Next, Handle

\* The rows of `agents` and the progress of every request keep their types.
THEOREM AgentTypeCorrect == Spec => []AgentTypeOK
<1>1. AgentTypeInv => AgentTypeOK
  BY DEF AgentTypeInv
<1> QED BY <1>1, InitAgentTypeInv, NextAgentTypeInv, PTL DEF Spec

\* Only legacy receipts exist initially, and they belong to no request.
LEMMA InitRing == Init => RingInv
<1> SUFFICES ASSUME Init PROVE RingInv
  OBVIOUS
<1>1. \A x \in receipts : x.id \in Legacy
  BY DEF Init, LedgerInit
<1>2. RowOfRequest
  BY <1>1, LedgerAssumption DEF RowOfRequest
<1> QED BY <1>2, InitAgentTypeInv DEF Init, LedgerInit, RingInv, GoneStaysGone, PassedLive, Passed

\* A step after which no further request has passed, and that changes nothing
\* of those that had, keeps the invariant.
LEMMA KeepsRing ==
  ASSUME RingInv, AgentTypeInv', GoneStaysGone', receipts' = receipts,
         \A r \in Requests : Passed(r)' =>
           /\ Passed(r)
           /\ env'[r] = env[r] /\ ring'[r] = ring[r]
           /\ stamp'[r] = stamp[r] /\ gone'[r] = gone[r],
         \A r \in Requests : stage[r] = "done" =>
           stage'[r] = "done" /\ env'[r] = env[r] /\ stamp'[r] = stamp[r]
  PROVE  RingInv'
<1>1. PassedLive'
  BY DEF RingInv, PassedLive, LiveRing
<1>2. RowOfRequest'
  BY DEF RingInv, RowOfRequest
<1> QED BY <1>1, <1>2 DEF RingInv

\* Every step keeps the invariant: CheckTenantRing establishes it for its
\* request, and from then on it speaks of data that no step changes.
LEMMA NextRing == RingInv /\ [Next]_vars => RingInv'
<1> SUFFICES ASSUME RingInv, [Next]_vars PROVE RingInv'
  OBVIOUS
<1>t. AgentTypeInv /\ AgentTypeInv'
  BY NextAgentTypeInv DEF RingInv
<1>c. /\ stage \in [Requests -> Stages] /\ env \in [Requests -> Envelopes \cup {NoEnvelope}]
      /\ stamp \in [Requests -> 0..MaxTime]
      /\ agents \in [Agents -> {"none", "active", "revoked"}]
      /\ ring \in [Requests -> SUBSET Agents] /\ gone \in [Requests -> SUBSET Agents]
  BY <1>t DEF AgentTypeInv, AgentTypeOK, TypeOK
<1>1. CASE \E a \in Agents : RegisterAgent(a) \/ RevokeAgent(a)
  <2>1. GoneStaysGone'
    BY <1>1, <1>c DEF RingInv, GoneStaysGone, RegisterAgent, RevokeAgent
  <2> QED BY <1>1, <1>t, <2>1, KeepsRing DEF RegisterAgent, RevokeAgent, Passed
<1>2. CASE \E r \in Requests, e \in Envelopes, S \in SUBSET Agents : Submit(r, e, S)
  <2> PICK r \in Requests, e \in Envelopes, S \in SUBSET Agents : Submit(r, e, S)
    BY <1>2
  <2>1. GoneStaysGone'
    BY <1>c DEF RingInv, GoneStaysGone, Submit
  <2>2. \A q \in Requests : q # r =>
          /\ stage'[q] = stage[q] /\ env'[q] = env[q] /\ stamp'[q] = stamp[q]
          /\ ring'[q] = ring[q] /\ gone'[q] = gone[q]
    BY <1>c DEF Submit, Receive, MoveTo
  <2>3. stage[r] = "idle" /\ stage'[r] = "received" /\ receipts' = receipts
    BY <1>c DEF Submit, Receive, MoveTo
  <2> QED BY <1>t, <2>1, <2>2, <2>3, KeepsRing DEF Passed
<1>3. CASE /\ UNCHANGED <<agents, ring, gone, env, stamp, receipts>>
           /\ \A q \in Requests : /\ Passed(q)' => Passed(q)
                                  /\ stage[q] = "done" => stage'[q] = "done"
  <2>1. GoneStaysGone'
    BY <1>3 DEF RingInv, GoneStaysGone
  <2> QED BY <1>3, <1>t, <2>1, KeepsRing
<1>4. CASE \E r \in Requests : CheckAgent(r)
  BY <1>3, <1>4, <1>c DEF CheckAgent, MoveTo, Passed
<1>5. CASE \E r \in Requests : CheckTenantRing(r)
  <2> PICK r \in Requests : CheckTenantRing(r)
    BY <1>5
  <2>1. CASE Fail(r)
    BY <1>3, <2>1, <1>c DEF CheckTenantRing, Fail, MoveTo, agentVars, Passed, Holding
  <2>2. CASE Pass(r)
    <3> DEFINE current == ActiveTenantRing(env[r].tenant, stamp[r])
    <3>1. env[r].agent \in current /\ ring[r] = current
      BY <2>2, <1>c DEF CheckTenantRing, Pass, Fail, MoveTo
    <3>2. UNCHANGED <<agents, ring, gone, env, stamp, receipts>>
      BY <2>2 DEF CheckTenantRing, Pass, agentVars
    <3>3. \A a \in current : a \notin gone[r]
      BY <1>c DEF ActiveTenantRing, RingInv, GoneStaysGone
    <3>4. LiveRing(r)'
      BY <3>1, <3>2, <3>3 DEF LiveRing, ActiveTenantRing
    <3>5. \A q \in Requests : q # r => stage'[q] = stage[q]
      BY <2>2, <1>c DEF Pass, MoveTo
    <3>6. PassedLive'
      BY <3>2, <3>4, <3>5 DEF RingInv, PassedLive, Passed, LiveRing
    <3>7. RowOfRequest'
      BY <2>2, <3>2, <3>5 DEF Pass, RingInv, RowOfRequest
    <3>8. GoneStaysGone'
      BY <3>2 DEF RingInv, GoneStaysGone
    <3> QED BY <1>t, <3>6, <3>7, <3>8 DEF RingInv
  <2> QED BY <2>1, <2>2 DEF CheckTenantRing
<1>6. CASE \E r \in Requests : (Acquire(r) \/ Fail(r)) /\ UNCHANGED agentVars
  BY <1>3, <1>6, <1>c DEF Acquire, Fail, MoveTo, agentVars, Passed, Holding
<1>7. CASE \E r \in Requests : (PruneNonces(r) \/ InsertNonce(r)) /\ UNCHANGED agentVars
  BY <1>3, <1>7, <1>c DEF PruneNonces, InsertNonce, MoveTo, agentVars, Passed
<1>8. CASE \E r \in Requests : NextChainPosition(r) /\ UNCHANGED agentVars
  BY <1>3, <1>8, <1>c DEF NextChainPosition, MoveTo, agentVars, Passed
<1>9. CASE \E r \in Requests : WriteReceipt(r) /\ UNCHANGED agentVars
  <2> PICK r \in Requests : WriteReceipt(r) /\ UNCHANGED agentVars
    BY <1>9
  <2>1. UNCHANGED <<agents, ring, gone, env, stamp>>
    BY DEF WriteReceipt, agentVars
  <2>2. /\ stage[r] = "linked" /\ stage'[r] = "done"
        /\ \A q \in Requests : q # r => stage'[q] = stage[q]
    BY <1>c DEF WriteReceipt, MoveTo
  <2>3. PassedLive' /\ GoneStaysGone'
    BY <2>1, <2>2 DEF RingInv, PassedLive, Passed, LiveRing, GoneStaysGone
  <2>4. RowOfRequest'
    BY <2>1, <2>2 DEF WriteReceipt, RingInv, RowOfRequest
  <2> QED BY <1>t, <2>3, <2>4 DEF RingInv
<1>10. CASE (Crash \/ Tick) /\ UNCHANGED agentVars
  BY <1>3, <1>10, <1>c DEF Crash, Tick, agentVars, Passed, Holding
<1>11. CASE UNCHANGED vars
  BY <1>3, <1>11 DEF vars, Passed
<1> QED BY <1>1, <1>2, <1>4, <1>5, <1>6, <1>7, <1>8, <1>9, <1>10, <1>11
        DEF Next, Handle, Commit

\* No receipt rests on a stale ring, for every number of agents, tenants and
\* requests, and however their steps interleave with revocations.
THEOREM RingsAreLive == Spec => []ReceiptsFromLiveRing
<1>1. RingInv => ReceiptsFromLiveRing
  BY DEF RingInv, RowOfRequest, PassedLive, Passed, LiveRing, ReceiptsFromLiveRing
<1> QED BY <1>1, InitRing, NextRing, PTL DEF Spec

----------------------------------------------------------------------------
(* The gateway: refinement.                                                *)

\* Issuing starts a submission, a crash is the identified path's crash, and
\* every other step of the gateway leaves that path alone.
LEMMA EgressStepImplements == [EgressNext]_allVars => [Next]_vars
<1> SUFFICES ASSUME [EgressNext]_allVars PROVE [Next]_vars
  OBVIOUS
<1>1. CASE AgentStep
  BY <1>1 DEF AgentStep, Next
<1>2. CASE \E r \in Requests, e \in Envelopes, S \in SUBSET Agents : SubmitIssue(r, e, S)
  BY <1>2 DEF SubmitIssue, Next
<1>3. CASE EgressCrash
  BY <1>3 DEF EgressCrash, Next
<1>4. CASE UNCHANGED vars
  BY <1>4
<1>5. CASE UNCHANGED allVars
  BY <1>5 DEF allVars, vars
<1>6. CASE \E r \in Requests : IssueStep(r)
  BY <1>2, <1>4, <1>6 DEF IssueStep, Admit, DateCap, PruneCaps, InsertCap, FailIssue
<1>7. CASE \E c \in Calls : CallStep(c)
  BY <1>4, <1>7 DEF CallStep, Arrive, DenyUrl, CheckIntent, Vet, Spend, DenyHeader, Send, Record, FailCall
<1>8. CASE ReportStep
  BY <1>4, <1>8 DEF ReportStep, ReportEgress, LogDeniedEgress
<1> QED BY <1>1, <1>3, <1>5, <1>6, <1>7, <1>8 DEF EgressNext

\* A report changes the log alone, by a row of no call, allowed only where
\* voluntary reports are on.
LEMMA ReportsOnlyLog ==
  ASSUME ReportStep
  PROVE  /\ UNCHANGED vars /\ UNCHANGED <<counter, issue, caps, call, upstream>>
         /\ \E x \in LogRow : /\ egressLog' = egressLog \cup {x} /\ x.call = NoCall
                              /\ x.allowed => VoluntaryLog
<1> DEFINE row(a, q, ok) == [call |-> NoCall, agent |-> a, target |-> q, allowed |-> ok]
<1>1. \A a \in Agents, q \in Targets, ok \in BOOLEAN :
        /\ row(a, q, ok) \in LogRow
        /\ row(a, q, ok).call = NoCall /\ row(a, q, ok).allowed = ok
  BY DEF LogRow
<1>2. \E a \in Agents, q \in Targets, ok \in BOOLEAN :
        /\ egressLog' = egressLog \cup {row(a, q, ok)}
        /\ ok => VoluntaryLog
  BY DEF ReportStep, ReportEgress, LogDeniedEgress
<1>3. UNCHANGED vars /\ UNCHANGED <<counter, issue, caps, call, upstream>>
  BY DEF ReportStep, ReportEgress, LogDeniedEgress
<1> HIDE DEF row
<1> QED BY <1>1, <1>2, <1>3

\* The gateway implements the identified action path, so everything proved of
\* that path and of the ledger holds of it.
THEOREM ImplementsAgentActions == EgressSpec => Spec
<1>1. EgressInit => Init
  BY DEF EgressInit
<1> QED BY <1>1, EgressStepImplements, PTL DEF EgressSpec, Spec

\* Hence, of the receipts that capabilities rest on: no two for one envelope while
\* it is valid, no link to a receipt that is not stored, and no ring with an
\* agent that was revoked before the request arrived.
THEOREM GatewayReceipts ==
  EgressSpec => [](SingleUseWhileFresh /\ LinkedToPredecessor /\ ReceiptsFromLiveRing)
  BY ImplementsAgentActions, ImplementsLedger, SingleUse, LinksResolve, RingsAreLive, PTL

----------------------------------------------------------------------------
(* Types.                                                                  *)

\* A request of which a capability is being made has an envelope.
DatedEnv ==
  \A r \in Requests : issue[r].phase \in {"dated", "pruned"} => env[r] \in Envelopes

EgressTypeInv == EgressTypeOK /\ EnvKnown /\ DatedEnv

\* The window of a time within the bound is within the bound.
LEMMA WindowBound == ASSUME NEW t \in 0..MaxTime PROVE Window(t) \in 0..Window(MaxTime)
  BY LedgerAssumption, EgressAssumption DEF Window

\* Nothing has been issued or called initially.
LEMMA InitEgressTypeInv == EgressInit => EgressTypeInv
<1> SUFFICES ASSUME EgressInit PROVE EgressTypeInv
  OBVIOUS
<1>1. AgentTypeOK /\ EnvKnown
  BY InitAgentTypeInv DEF EgressInit, AgentTypeInv
<1>2. (CHOOSE a \in Agents : TRUE) \in Agents /\ (CHOOSE q \in Targets : TRUE) \in Targets
  BY EgressAssumption
<1>3. issue \in [Requests -> [phase: IssuePhases, agent: Agents, target: Targets,
                             now: 0..MaxTime]]
  BY <1>2, LedgerAssumption DEF EgressInit, NoIssue, IssuePhases
<1>4. DatedEnv
  BY DEF EgressInit, NoIssue, DatedEnv
<1> QED BY <1>1, <1>3, <1>4 DEF EgressInit, EgressTypeInv, EgressTypeOK

\* The expiry of a capability is a number.
LEMMA CapExpiryNat ==
  ASSUME NEW r \in Requests, env[r] \in Envelopes, issue[r].now \in Nat
  PROVE  CapExpiry(r) \in Nat
<1> DEFINE ends == {env[r].ajwtExp, env[r].exp, issue[r].now + CapLifetime}
<1>1. /\ env[r].ajwtExp \in Nat /\ env[r].exp \in Nat
      /\ issue[r].now + CapLifetime \in Nat
  BY LedgerAssumption, EgressAssumption
<1>2. \E x \in ends : \A y \in ends : x <= y
  BY <1>1
<1>3. (CHOOSE x \in ends : \A y \in ends : x <= y) \in ends
  BY <1>2
<1> QED BY <1>1, <1>3 DEF CapExpiry

\* Every step keeps the types: those of the identified path by refinement.
LEMMA NextEgressTypeInv == EgressTypeInv /\ [EgressNext]_allVars => EgressTypeInv'
<1> SUFFICES ASSUME EgressTypeInv, [EgressNext]_allVars PROVE EgressTypeInv'
  OBVIOUS
<1>t. AgentTypeOK' /\ EnvKnown'
  BY EgressStepImplements, NextAgentTypeInv DEF EgressTypeInv, EgressTypeOK, AgentTypeInv
<1>c. clock \in 0..MaxTime
  BY DEF EgressTypeInv, EgressTypeOK, AgentTypeOK, TypeOK
<1>e. \A r \in Requests : env[r] \in Envelopes => env'[r] \in Envelopes
  <2>1. /\ env \in [Requests -> Envelopes \cup {NoEnvelope}]
        /\ env' \in [Requests -> Envelopes \cup {NoEnvelope}]
        /\ stage \in [Requests -> Stages]
    BY <1>t DEF EgressTypeInv, EgressTypeOK, AgentTypeOK, TypeOK
  <2>2. env' = env \/ \E r \in Requests, e \in Envelopes : Receive(r, e)
    BY EgressStepImplements, StepImplements
       DEF LedgerNext, ledgerVars, Acquire, Pass, Commit, PruneNonces, InsertNonce,
           NextChainPosition, WriteReceipt, Fail, ConsumeUsageNonce, Crash, Tick
  <2> QED BY <2>1, <2>2 DEF Receive
<1> USE DEF EgressTypeInv, EgressTypeOK
<1>0. CASE UNCHANGED egressVars
  BY <1>0, <1>t, <1>e DEF egressVars, DatedEnv
<1>1. ASSUME NEW r \in Requests, NEW a \in Agents, NEW q \in Targets, Admit(r, a, q)
      PROVE  EgressTypeInv'
  <2>1. Window(clock) \in 0..Window(MaxTime)
    BY <1>c, WindowBound
  <2>2. counter' \in [Agents -> [0..Window(MaxTime) -> Nat]]
    <3> DEFINE n == counter[a][Window(clock)] + 1
    <3>0. counter[a] \in [0..Window(MaxTime) -> Nat]
      OBVIOUS
    <3>1. n \in Nat
      BY <2>1, <3>0
    <3>2. [counter[a] EXCEPT ![Window(clock)] = n] \in [0..Window(MaxTime) -> Nat]
      BY <3>0, <3>1
    <3>3. \/ counter' = counter
          \/ counter' = [counter EXCEPT ![a] = [counter[a] EXCEPT ![Window(clock)] = n]]
      BY <1>1 DEF Admit
    <3> QED BY <3>2, <3>3
  <2>3. issue' \in [Requests -> [phase: IssuePhases, agent: Agents, target: Targets,
                                now: 0..MaxTime]]
    BY <1>1, LedgerAssumption DEF Admit, IssuePhases
  <2>4. DatedEnv'
    BY <1>1, <1>e DEF Admit, DatedEnv
  <2> QED BY <1>1, <1>t, <2>2, <2>3, <2>4 DEF Admit
<1>2. ASSUME NEW r \in Requests, NEW e \in Envelopes, NEW S \in SUBSET Agents,
             SubmitIssue(r, e, S)
      PROVE  EgressTypeInv'
  BY <1>0, <1>2 DEF SubmitIssue
<1>3. ASSUME NEW r \in Requests, DateCap(r) PROVE EgressTypeInv'
  <2>1. env[r] \in Envelopes
    BY <1>3 DEF DateCap, EnvKnown
  <2>2. DatedEnv'
    BY <1>3, <1>e, <2>1 DEF DateCap, DatedEnv
  <2> QED BY <1>3, <1>t, <1>c, <2>2 DEF DateCap, IssuePhases
<1>4. ASSUME NEW r \in Requests, PruneCaps(r) PROVE EgressTypeInv'
  <2>1. DatedEnv'
    BY <1>4, <1>e DEF PruneCaps, SetIssue, DatedEnv
  <2>2. caps' \subseteq Capability
    <3>1. caps' \subseteq caps
      BY <1>4 DEF PruneCaps
    <3> QED BY <3>1
  <2>3. issue' \in [Requests -> [phase: IssuePhases, agent: Agents, target: Targets,
                                now: 0..MaxTime]]
    BY <1>4 DEF PruneCaps, SetIssue, IssuePhases
  <2> QED BY <1>4, <1>t, <2>1, <2>2, <2>3 DEF PruneCaps
<1>5. ASSUME NEW r \in Requests, InsertCap(r) PROVE EgressTypeInv'
  <2>1. CapExpiry(r) \in Nat
    BY <1>5, CapExpiryNat, LedgerAssumption DEF InsertCap, DatedEnv
  <2>2. caps' \subseteq Capability
    <3> DEFINE new == [token |-> r, agent |-> issue[r].agent, target |-> issue[r].target,
                       exp |-> CapExpiry(r), used |-> FALSE]
    <3>1. issue[r].agent \in Agents /\ issue[r].target \in Targets
      OBVIOUS
    <3>2. new \in Capability
      BY <2>1, <3>1 DEF Capability
    <3>3. caps' = caps \cup {new}
      BY <1>5 DEF InsertCap
    <3> QED BY <3>2, <3>3
  <2>3. DatedEnv'
    BY <1>5, <1>e DEF InsertCap, SetIssue, DatedEnv
  <2> QED BY <1>5, <1>t, <2>2, <2>3 DEF InsertCap, SetIssue, IssuePhases
<1>6. ASSUME NEW r \in Requests, FailIssue(r) PROVE EgressTypeInv'
  <2>1. DatedEnv'
    BY <1>6, <1>e DEF FailIssue, SetIssue, DatedEnv
  <2> QED BY <1>6, <1>t, <2>1 DEF FailIssue, SetIssue, IssuePhases
<1>7. ASSUME NEW c \in Calls, CallStep(c) PROVE EgressTypeInv'
  <2>1. DatedEnv' /\ counter' = counter /\ issue' = issue
    BY <1>7, <1>e DEF DatedEnv, CallStep, Arrive, DenyUrl, CheckIntent, Vet, Spend, DenyHeader, Send,
                      Record, FailCall
  <2>2. call' \in [Calls -> Call \cup {NoCall, Ended}]
    <3>1. CASE End(c)
      BY <3>1 DEF End
    <3>2. ASSUME NEW p \in CallPhases, Running(c), SetCall(c, p)
          PROVE  call' \in [Calls -> Call \cup {NoCall, Ended}]
      BY <3>2 DEF SetCall, Running, Call
    <3>3. ASSUME NEW a \in Agents, NEW q \in Targets, NEW r \in Requests, Arrive(c, a, q, r)
          PROVE  call' \in [Calls -> Call \cup {NoCall, Ended}]
      BY <3>3, <1>c DEF Arrive, Call, CallPhases
    <3> QED BY <1>7, <3>1, <3>2, <3>3
            DEF CallStep, DenyUrl, CheckIntent, Vet, Spend, DenyHeader, Send, Record, FailCall, At,
                Deny, CallPhases
  <2>3. caps' \subseteq Capability
    <3>1. CASE Spend(c)
      <4>1. \A k \in Capability : [k EXCEPT !.used = TRUE] \in Capability
        BY DEF Capability
      <4>2. Spendable(c) \subseteq Capability
        BY DEF Spendable
      <4>3. {[k EXCEPT !.used = TRUE] : k \in Spendable(c)} \subseteq Capability
        BY <4>1, <4>2
      <4> QED BY <3>1, <4>3 DEF Spend
    <3> QED BY <1>7, <3>1 DEF CallStep, Arrive, DenyUrl, CheckIntent, Vet, DenyHeader, Send, Record,
                              FailCall
  <2>4. upstream' \subseteq [id: Calls, by: Call]
    <3>1. CASE Send(c)
      BY <3>1 DEF Send, At, Running
    <3> QED BY <1>7, <3>1 DEF CallStep, Arrive, DenyUrl, CheckIntent, Vet, DenyHeader, Spend, Record,
                              FailCall
  <2>5. egressLog' \subseteq LogRow
    <3>1. \/ egressLog' = egressLog
          \/ Running(c) /\ \E ok \in BOOLEAN : LogCall(c, ok)
      BY <1>7 DEF CallStep, Arrive, DenyUrl, CheckIntent, Vet, DenyHeader, Spend, Send, Record,
                  FailCall, Deny, At
    <3>2. ASSUME Running(c), NEW ok \in BOOLEAN, LogCall(c, ok) PROVE egressLog' \subseteq LogRow
      <4>1. call[c] \in Call
        BY <3>2 DEF Running
      <4>2. [call |-> c, agent |-> call[c].agent, target |-> call[c].target, allowed |-> ok]
              \in LogRow
        BY <4>1 DEF Call, LogRow
      <4> QED BY <3>2, <4>2 DEF LogCall
    <3> QED BY <3>1, <3>2
  <2> QED BY <1>t, <2>1, <2>2, <2>3, <2>4, <2>5
<1>8. CASE EgressCrash
  <2>1. issue' \in [Requests -> [phase: IssuePhases, agent: Agents, target: Targets,
                                now: 0..MaxTime]]
    <3>1. \A r \in Requests :
            /\ issue[r] \in [phase: IssuePhases, agent: Agents, target: Targets,
                             now: 0..MaxTime]
            /\ [issue[r] EXCEPT !.phase = "failed"]
                 \in [phase: IssuePhases, agent: Agents, target: Targets, now: 0..MaxTime]
      BY DEF IssuePhases
    <3> QED BY <1>8, <3>1 DEF EgressCrash
  <2>2. DatedEnv'
    <3> SUFFICES ASSUME NEW r \in Requests, issue'[r].phase \in {"dated", "pruned"}
                 PROVE  env'[r] \in Envelopes
      BY DEF DatedEnv
    <3>1. issue[r].phase \notin {"admitted", "dated", "pruned"} /\ issue'[r] = issue[r]
      <4>1. [issue[r] EXCEPT !.phase = "failed"].phase = "failed"
        OBVIOUS
      <4> QED BY <1>8, <4>1 DEF EgressCrash
    <3> QED BY <3>1
  <2> QED BY <1>8, <1>t, <2>1, <2>2 DEF EgressCrash
<1>9. CASE UNCHANGED allVars
  BY <1>0, <1>9 DEF allVars, egressVars
<1>10. CASE ReportStep
  BY <1>10, <1>t, <1>e, ReportsOnlyLog DEF DatedEnv
<1> QED BY <1>0, <1>1, <1>2, <1>3, <1>4, <1>5, <1>6, <1>7, <1>8, <1>9, <1>10
        DEF EgressNext, IssueStep

\* The gateway's tables and the progress of every issuance and call keep their
\* types.
THEOREM EgressTypeCorrect == EgressSpec => []EgressTypeOK
<1>1. EgressTypeInv => EgressTypeOK
  BY DEF EgressTypeInv
<1> QED BY <1>1, InitEgressTypeInv, NextEgressTypeInv, PTL DEF EgressSpec

----------------------------------------------------------------------------
(* Capabilities.                                                           *)

\* A token has one row, written when its issuance ended.
OneRow ==
  /\ \A k, l \in caps : k.token = l.token => k = l
  /\ \A k \in caps : issue[k.token].phase = "issued"

\* The token has been spent: no call can spend it any more, since its row is
\* used or gone and is never written again.
SpentToken(r) ==
  /\ issue[r].phase = "issued"
  /\ \A k \in caps : k.token = r => k.used

\* Spent is what every call holds that may send or has sent its request.
HeldSpent ==
  /\ \A c \in Calls : At(c, "spent") => SpentToken(call[c].token)
  /\ \A x \in upstream : SpentToken(x.by.token)

\* Nobody else holds the token of a call that may send its request.
HeldAlone ==
  \A c \in Calls : At(c, "spent") =>
    /\ \A d \in Calls : At(d, "spent") /\ call[d].token = call[c].token => d = c
    /\ \A x \in upstream : x.by.token # call[c].token

SpendInv == EgressTypeInv /\ OneRow /\ HeldSpent /\ HeldAlone /\ CapabilitySpentOnce

\* Nothing has been issued or sent initially.
LEMMA InitSpend == EgressInit => SpendInv
  BY InitEgressTypeInv
     DEF EgressInit, SpendInv, OneRow, HeldSpent, HeldAlone, CapabilitySpentOnce, At, Running

\* A step that changes no call that may send and nothing sent, and after which
\* a token that was spent still is, keeps the invariant.
LEMMA KeepsSpend ==
  ASSUME SpendInv, EgressTypeInv', OneRow', upstream' = upstream,
         \A c \in Calls : At(c, "spent")' => At(c, "spent") /\ call'[c] = call[c],
         \A r \in Requests : SpentToken(r) => SpentToken(r)'
  PROVE  SpendInv'
<1>1. \A c \in Calls : At(c, "spent") => call[c].token \in Requests
  BY DEF SpendInv, EgressTypeInv, EgressTypeOK, At, Running, Call
<1>2. \A x \in upstream : x.by.token \in Requests
  BY DEF SpendInv, EgressTypeInv, EgressTypeOK, Call
<1>3. \A c \in Calls : At(c, "spent")' => SpentToken(call[c].token)'
  BY <1>1 DEF SpendInv, HeldSpent
<1>4. \A x \in upstream : SpentToken(x.by.token)'
  BY <1>2 DEF SpendInv, HeldSpent
<1>5. HeldSpent'
  BY <1>3, <1>4 DEF HeldSpent, SpentToken
<1>6. HeldAlone' /\ CapabilitySpentOnce'
  BY DEF SpendInv, HeldAlone, CapabilitySpentOnce
<1> QED BY <1>5, <1>6 DEF SpendInv

\* Every step keeps the invariant: Spend takes a token nobody holds, Send moves
\* it upstream, and the row of a token is written only once.
LEMMA NextSpend == SpendInv /\ [EgressNext]_allVars => SpendInv'
<1> SUFFICES ASSUME SpendInv, [EgressNext]_allVars PROVE SpendInv'
  OBVIOUS
<1>t. EgressTypeInv /\ EgressTypeInv'
  BY NextEgressTypeInv DEF SpendInv
<1>i. /\ issue \in [Requests -> [phase: IssuePhases, agent: Agents, target: Targets,
                               now: 0..MaxTime]]
      /\ \A k \in caps : k \in Capability /\ k.token \in Requests
      /\ call \in [Calls -> Call \cup {NoCall, Ended}]
  BY <1>t DEF EgressTypeInv, EgressTypeOK, Capability
<1>0. CASE UNCHANGED egressVars
  BY <1>0, <1>t, KeepsSpend DEF egressVars, SpendInv, OneRow, SpentToken, At, Running
<1>1. ASSUME NEW r \in Requests, issue[r].phase # "issued", caps' = caps,
             call' = call, upstream' = upstream,
             \A q \in Requests : q # r => issue'[q] = issue[q]
      PROVE  SpendInv'
  <2>1. OneRow'
    BY <1>1, <1>i DEF SpendInv, OneRow
  <2>2. \A q \in Requests : SpentToken(q) => SpentToken(q)'
    BY <1>1 DEF SpentToken
  <2> QED BY <1>1, <1>t, <2>1, <2>2, KeepsSpend DEF At, Running
<1>2. ASSUME NEW r \in Requests, PruneCaps(r) PROVE SpendInv'
  <2>1. caps' \subseteq caps /\ call' = call /\ upstream' = upstream
    BY <1>2 DEF PruneCaps
  <2>2. \A q \in Requests : issue[q].phase = "issued" => issue'[q] = issue[q]
    BY <1>2, <1>i DEF PruneCaps, SetIssue
  <2>3. OneRow'
    BY <2>1, <2>2, <1>i DEF SpendInv, OneRow
  <2>4. \A q \in Requests : SpentToken(q) => SpentToken(q)'
    BY <2>1, <2>2 DEF SpentToken
  <2> QED BY <1>t, <2>1, <2>3, <2>4, KeepsSpend DEF At, Running
<1>3. ASSUME NEW r \in Requests, InsertCap(r) PROVE SpendInv'
  <2> DEFINE new == [token |-> r, agent |-> issue[r].agent, target |-> issue[r].target,
                     exp |-> CapExpiry(r), used |-> FALSE]
  <2>1. /\ issue[r].phase = "pruned" /\ caps' = caps \cup {new}
        /\ call' = call /\ upstream' = upstream
    BY <1>3 DEF InsertCap
  <2>2. /\ issue'[r].phase = "issued"
        /\ \A q \in Requests : q # r => issue'[q] = issue[q]
    BY <1>3, <1>i DEF InsertCap, SetIssue
  <2>3. \A k \in caps : k.token # r
    BY <2>1 DEF SpendInv, OneRow
  <2>4. new.token = r
    OBVIOUS
  <2> HIDE DEF new
  <2>5. OneRow'
    BY <2>1, <2>2, <2>3, <2>4, <1>i DEF SpendInv, OneRow
  <2>6. \A q \in Requests : SpentToken(q) => SpentToken(q)'
    BY <2>1, <2>2, <2>4 DEF SpentToken
  <2> QED BY <1>t, <2>1, <2>5, <2>6, KeepsSpend DEF At, Running
<1>4. CASE \E r \in Requests : IssueStep(r)
  <2> PICK r \in Requests : IssueStep(r)
    BY <1>4
  <2>1. ASSUME NEW a \in Agents, NEW q \in Targets, Admit(r, a, q) PROVE SpendInv'
    BY <2>1, <1>1, <1>i DEF Admit
  <2>2. ASSUME NEW e \in Envelopes, NEW S \in SUBSET Agents, SubmitIssue(r, e, S)
        PROVE  SpendInv'
    BY <2>2, <1>0 DEF SubmitIssue
  <2>3. CASE DateCap(r)
    BY <2>3, <1>1, <1>i DEF DateCap
  <2>4. CASE FailIssue(r)
    BY <2>4, <1>1, <1>i DEF FailIssue, SetIssue
  <2> QED BY <1>2, <1>3, <2>1, <2>2, <2>3, <2>4 DEF IssueStep
<1>5. ASSUME NEW c \in Calls, Spend(c) PROVE SpendInv'
  <2>1. CASE Spendable(c) = {}
    <3>1. UNCHANGED <<issue, caps, upstream>> /\ call' = [call EXCEPT ![c] = Ended]
      BY <1>5, <2>1 DEF Spend, End
    <3>2. \A d \in Calls : At(d, "spent")' => At(d, "spent") /\ call'[d] = call[d]
      BY <3>1, <1>i DEF At, Running
    <3> QED BY <1>t, <3>1, <3>2, KeepsSpend DEF SpendInv, OneRow, SpentToken
  <2>2. CASE Spendable(c) # {}
    <3> DEFINE r == call[c].token
    <3>1. At(c, "vetted") /\ UNCHANGED <<issue, upstream>>
      BY <1>5 DEF Spend
    <3>2. call[c] \in Call /\ r \in Requests /\ call[c].phase = "vetted"
      BY <3>1, <1>i DEF At, Running, Call
    <3>3. PICK k \in caps : k.token = r /\ ~k.used
      BY <2>2 DEF Spendable
    <3>4. \A l \in caps : l.token = r => l = k
      BY <3>3 DEF SpendInv, OneRow
    <3>5. Spendable(c) = {k}
      BY <2>2, <3>3, <3>4 DEF Spendable
    <3> DEFINE k2 == [k EXCEPT !.used = TRUE]
    <3>6. caps' = (caps \ {k}) \cup {k2}
      BY <1>5, <2>2, <3>5 DEF Spend
    <3>7. k2.token = r /\ k2.used
      BY <3>3, <1>i DEF Capability
    <3>8. ~SpentToken(r) /\ issue[r].phase = "issued"
      BY <3>3 DEF SpentToken, SpendInv, OneRow
    <3>9. /\ \A d \in Calls : At(d, "spent") => call[d].token # r
          /\ \A x \in upstream : x.by.token # r
      BY <3>8 DEF SpendInv, HeldSpent
    <3>10. /\ call'[c].token = r /\ call'[c].phase = "spent"
           /\ \A d \in Calls : d # c => call'[d] = call[d]
      BY <1>5, <2>2, <3>2, <1>i DEF Spend, SetCall, Call
    <3> HIDE DEF k2, r
    <3>11. OneRow'
      BY <3>1, <3>3, <3>4, <3>6, <3>7, <3>8 DEF SpendInv, OneRow
    <3>12. \A q : (q = r \/ SpentToken(q)) => SpentToken(q)'
      BY <3>1, <3>3, <3>4, <3>6, <3>7, <3>8 DEF SpentToken
    <3>13. \A d \in Calls : d # c => (At(d, "spent")' <=> At(d, "spent"))
      BY <3>10 DEF At, Running
    <3>14. HeldSpent'
      <4>1. \A d \in Calls : At(d, "spent")' => SpentToken(call[d].token)'
        <5> SUFFICES ASSUME NEW d \in Calls, At(d, "spent")'
                     PROVE  SpentToken(call[d].token)'
          OBVIOUS
        <5>1. call'[d].token = r \/ SpentToken(call'[d].token)
          BY <3>10, <3>13 DEF SpendInv, HeldSpent
        <5> QED BY <5>1, <3>12 DEF SpentToken
      <4>2. \A x \in upstream' : SpentToken(x.by.token)'
        BY <3>1, <3>12 DEF SpendInv, HeldSpent
      <4> QED BY <4>1, <4>2 DEF HeldSpent, SpentToken
    <3>15. HeldAlone'
      BY <3>1, <3>9, <3>10, <3>13 DEF SpendInv, HeldAlone
    <3> QED BY <1>t, <3>1, <3>11, <3>14, <3>15 DEF SpendInv, CapabilitySpentOnce
  <2> QED BY <2>1, <2>2
<1>6. ASSUME NEW c \in Calls, Send(c) PROVE SpendInv'
  <2>1. /\ At(c, "spent") /\ UNCHANGED <<issue, caps>>
        /\ upstream' = upstream \/ upstream' = upstream \cup {[id |-> c, by |-> call[c]]}
    BY <1>6 DEF Send
  <2>2. \A d \in Calls : At(d, "spent")' => At(d, "spent") /\ d # c /\ call'[d] = call[d]
    BY <1>6, <1>i DEF Send, SetCall, End, At, Running, Call
  <2>3. OneRow' /\ HeldSpent'
    BY <2>1, <2>2 DEF SpendInv, OneRow, HeldSpent, SpentToken
  <2>4. HeldAlone'
    BY <2>1, <2>2 DEF SpendInv, HeldAlone
  <2>5. CapabilitySpentOnce'
    BY <2>1 DEF SpendInv, HeldAlone, CapabilitySpentOnce
  <2> QED BY <1>t, <2>3, <2>4, <2>5 DEF SpendInv
<1>7. ASSUME UNCHANGED <<issue, caps, upstream>>,
             \A d \in Calls : At(d, "spent")' => At(d, "spent") /\ call'[d] = call[d]
      PROVE  SpendInv'
  BY <1>7, <1>t, KeepsSpend DEF SpendInv, OneRow, SpentToken
<1>8. CASE \E c \in Calls : CallStep(c)
  <2> PICK c \in Calls : CallStep(c)
    BY <1>8
  <2>1. ASSUME NEW a \in Agents, NEW q \in Targets, NEW r \in Requests, Arrive(c, a, q, r)
        PROVE  SpendInv'
    BY <2>1, <1>7, <1>i DEF Arrive, At, Running
  <2>2. CASE UNCHANGED <<issue, caps, upstream>> /\ End(c)
    BY <2>2, <1>7, <1>i DEF End, At, Running
  <2>3. CASE /\ UNCHANGED <<issue, caps, upstream>> /\ Running(c)
             /\ SetCall(c, "permitted") \/ SetCall(c, "vetted")
    BY <2>3, <1>7, <1>i DEF SetCall, At, Running, Call
  <2>4. CASE CheckIntent(c) \/ Vet(c)
    BY <2>2, <2>3, <2>4 DEF CheckIntent, Vet, Deny, At
  <2>5. CASE DenyUrl(c) \/ DenyHeader(c) \/ Record(c) \/ FailCall(c)
    BY <2>2, <2>5 DEF DenyUrl, DenyHeader, Record, FailCall, Deny
  <2> QED BY <1>5, <1>6, <2>1, <2>4, <2>5 DEF CallStep
<1>9. CASE EgressCrash
  <2>1. caps' = caps /\ upstream' = upstream
    BY <1>9 DEF EgressCrash
  <2>2. \A r \in Requests : issue[r].phase = "issued" => issue'[r] = issue[r]
    BY <1>9 DEF EgressCrash
  <2>3. OneRow'
    BY <2>1, <2>2, <1>i DEF SpendInv, OneRow
  <2>4. \A r \in Requests : SpentToken(r) => SpentToken(r)'
    BY <2>1, <2>2 DEF SpentToken
  <2>5. \A d \in Calls : ~Running(d)'
    BY <1>9 DEF EgressCrash, Running
  <2> QED BY <1>t, <2>1, <2>3, <2>4, <2>5, KeepsSpend DEF At
<1>10. CASE UNCHANGED allVars
  BY <1>0, <1>10 DEF allVars, egressVars
<1>11. CASE ReportStep
  BY <1>7, <1>11, ReportsOnlyLog DEF At, Running
<1> QED BY <1>0, <1>4, <1>8, <1>9, <1>10, <1>11 DEF EgressNext

\* A capability lets at most one request out, for any number of issuances and
\* calls, any interleaving of them and any crash.
THEOREM SpentOnce == EgressSpec => []CapabilitySpentOnce
<1>1. SpendInv => CapabilitySpentOnce
  BY DEF SpendInv
<1> QED BY <1>1, InitSpend, NextSpend, PTL DEF EgressSpec

----------------------------------------------------------------------------
(* The log.                                                                *)

\* A call that has sent nothing yet, and may still.
Unsent(c) == call[c] = NoCall \/ (Running(c) /\ call[c].phase # "sent")

Logged(c) == \E x \in egressLog : x.call = c
Sent(c) == \E y \in upstream : y.id = c

\* What a call sent is what it was: its agent and its target.
SentAsCalled(c) ==
  \A y \in upstream : y.id = c =>
    y.by.agent = call[c].agent /\ y.by.target = call[c].target

\* A call is in the log only once it has ended, and upstream only once it has
\* gone out.
LogInv ==
  /\ EgressTypeInv
  /\ LogMatchesCalls
  /\ \A c \in Calls : Unsent(c) => ~Logged(c) /\ ~Sent(c)
  /\ \A c \in Calls : At(c, "sent") => ~Logged(c) /\ Sent(c) /\ SentAsCalled(c)

\* Nothing has been logged or sent initially.
LEMMA InitLog == EgressInit => LogInv
  BY InitEgressTypeInv
     DEF EgressInit, LogInv, LogMatchesCalls, Logged, Sent, At, Running

\* A step that writes neither table and sends no call keeps the invariant.
LEMMA KeepsLog ==
  ASSUME LogInv, EgressTypeInv', UNCHANGED <<upstream, egressLog>>,
         \A c \in Calls : \/ call'[c] = call[c] \/ call'[c] = Ended
                          \/ Unsent(c) /\ Unsent(c)'
  PROVE  LogInv'
<1>1. LogMatchesCalls'
  BY DEF LogInv, LogMatchesCalls
<1>2. \A c \in Calls : (Logged(c)' <=> Logged(c)) /\ (Sent(c)' <=> Sent(c))
  BY DEF Logged, Sent
<1>3. \A c \in Calls : /\ Unsent(c)' => Unsent(c)
                       /\ At(c, "sent")' => At(c, "sent") /\ call'[c] = call[c]
  BY EgressAssumption DEF Unsent, At, Running
<1>4. \A c \in Calls : At(c, "sent")' => SentAsCalled(c)'
  BY <1>3 DEF LogInv, SentAsCalled
<1> QED BY <1>1, <1>2, <1>3, <1>4 DEF LogInv

\* Every step keeps the invariant: a refusal is logged before the call is sent
\* and ends it, and so does the row of a call that was sent.
LEMMA NextLog == LogInv /\ [EgressNext]_allVars => LogInv'
<1> SUFFICES ASSUME LogInv, [EgressNext]_allVars PROVE LogInv'
  OBVIOUS
<1>t. EgressTypeInv /\ EgressTypeInv'
  BY NextEgressTypeInv DEF LogInv
<1>c. call \in [Calls -> Call \cup {NoCall, Ended}]
  BY <1>t DEF EgressTypeInv, EgressTypeOK
<1>0. CASE UNCHANGED <<call, upstream, egressLog>>
  BY <1>0, <1>t, KeepsLog
<1>1. ASSUME NEW c \in Calls, UNCHANGED <<upstream, egressLog>>, End(c)
      PROVE  LogInv'
  BY <1>1, <1>t, <1>c, KeepsLog DEF End
<1>2. ASSUME NEW c \in Calls, UNCHANGED upstream, Running(c), Deny(c), Unsent(c)
      PROVE  LogInv'
  <2> DEFINE new == [call |-> c, agent |-> call[c].agent, target |-> call[c].target,
                     allowed |-> FALSE]
  <2>1. /\ egressLog' = egressLog \cup {new}
        /\ call' = [call EXCEPT ![c] = Ended]
    BY <1>2 DEF Deny, End, LogCall
  <2>2. LogMatchesCalls'
    <3>1. new.call = c /\ ~new.allowed /\ c # NoCall
      BY EgressAssumption
    <3> QED BY <1>2, <2>1, <3>1 DEF LogInv, LogMatchesCalls, Sent
  <2>3. \A d \in Calls : d # c =>
          /\ (Logged(d)' <=> Logged(d)) /\ (Sent(d)' <=> Sent(d))
          /\ (Unsent(d)' <=> Unsent(d)) /\ (At(d, "sent")' <=> At(d, "sent"))
          /\ (SentAsCalled(d)' <=> SentAsCalled(d))
    BY <1>2, <1>c, <2>1 DEF Logged, Sent, SentAsCalled, Unsent, At, Running
  <2>4. ~Unsent(c)' /\ ~At(c, "sent")'
    BY <1>c, <2>1, EgressAssumption DEF Unsent, At, Running
  <2> QED BY <1>t, <2>2, <2>3, <2>4 DEF LogInv
<1>3. ASSUME NEW c \in Calls, Send(c) PROVE LogInv'
  <2> DEFINE new == [id |-> c, by |-> call[c]]
  <2>1. At(c, "spent") /\ egressLog' = egressLog
    BY <1>3 DEF Send
  <2>2. Unsent(c) /\ ~Logged(c) /\ ~Sent(c)
    BY <2>1 DEF LogInv, Unsent, At
  <2>3. CASE UNCHANGED upstream /\ End(c)
    BY <2>1, <2>3, <1>1
  <2>4. CASE upstream' = upstream \cup {new} /\ (SetCall(c, "sent") \/ End(c))
    <3>1. LogMatchesCalls'
      BY <2>1, <2>2, <2>4 DEF LogInv, LogMatchesCalls, Logged
    <3>2. \A d \in Calls : d # c =>
            /\ (Logged(d)' <=> Logged(d)) /\ (Sent(d)' <=> Sent(d))
            /\ (Unsent(d)' <=> Unsent(d)) /\ (At(d, "sent")' <=> At(d, "sent"))
            /\ (SentAsCalled(d)' <=> SentAsCalled(d))
      BY <1>c, <2>1, <2>4 DEF Logged, Sent, SentAsCalled, Unsent, At, Running, SetCall, End
    <3>3. ~Unsent(c)' /\ ~Logged(c)' /\ Sent(c)' /\ (At(c, "sent")' => SentAsCalled(c)')
      <4>1. ~Logged(c)' /\ Sent(c)'
        <5>1. new \in upstream' /\ new.id = c
          BY <2>4
        <5> QED BY <2>1, <2>2, <5>1 DEF Logged, Sent
      <4>2. CASE End(c)
        BY <4>1, <4>2, <1>c, EgressAssumption DEF End, Unsent, At, Running
      <4>3. CASE SetCall(c, "sent")
        <5>1. call[c] \in Call /\ call'[c] = [call[c] EXCEPT !.phase = "sent"]
          BY <4>3, <1>c, <2>1 DEF SetCall, At, Running
        <5>2. call'[c] \in Call /\ call'[c].phase = "sent"
          BY <5>1 DEF Call, CallPhases
        <5>3. call'[c].agent = call[c].agent /\ call'[c].target = call[c].target
          BY <5>1 DEF Call
        <5>4. SentAsCalled(c)'
          BY <2>2, <2>4, <5>3 DEF Sent, SentAsCalled
        <5> QED BY <4>1, <5>2, <5>4, CallAssumption DEF Unsent
      <4> QED BY <2>4, <4>2, <4>3
    <3> QED BY <1>t, <3>1, <3>2, <3>3 DEF LogInv
  <2> QED BY <1>3, <2>3, <2>4 DEF Send
<1>4. ASSUME NEW c \in Calls, Record(c), LogCall(c, TRUE) PROVE LogInv'
  <2> DEFINE new == [call |-> c, agent |-> call[c].agent, target |-> call[c].target,
                     allowed |-> TRUE]
  <2>1. /\ At(c, "sent") /\ upstream' = upstream
        /\ egressLog' = egressLog \cup {new}
        /\ call' = [call EXCEPT ![c] = Ended]
    BY <1>4 DEF Record, End, LogCall
  <2>2. LogMatchesCalls'
    <3>1. \E y \in upstream : /\ y.id = new.call /\ y.by.agent = new.agent
                              /\ y.by.target = new.target
      BY <2>1 DEF LogInv, Sent, SentAsCalled
    <3>2. new.call = c /\ new.allowed /\ c # NoCall
      BY EgressAssumption
    <3> QED BY <2>1, <3>1, <3>2 DEF LogInv, LogMatchesCalls
  <2>3. \A d \in Calls : d # c =>
          /\ (Logged(d)' <=> Logged(d)) /\ (Sent(d)' <=> Sent(d))
          /\ (Unsent(d)' <=> Unsent(d)) /\ (At(d, "sent")' <=> At(d, "sent"))
          /\ (SentAsCalled(d)' <=> SentAsCalled(d))
    BY <1>c, <2>1 DEF Logged, Sent, SentAsCalled, Unsent, At, Running
  <2>4. ~Unsent(c)' /\ ~At(c, "sent")'
    BY <1>c, <2>1, EgressAssumption DEF Unsent, At, Running
  <2> QED BY <1>t, <2>2, <2>3, <2>4 DEF LogInv
<1>5. CASE \E c \in Calls : CallStep(c)
  <2> PICK c \in Calls : CallStep(c)
    BY <1>5
  <2>1. ASSUME NEW p \in {"arrived", "permitted", "vetted", "spent"}, At(c, p)
        PROVE  Running(c) /\ Unsent(c)
    BY <2>1 DEF At, Unsent
  <2>2. ASSUME NEW a \in Agents, NEW q \in Targets, NEW r \in Requests, Arrive(c, a, q, r)
        PROVE  LogInv'
    <3>1. Unsent(c) /\ UNCHANGED <<upstream, egressLog>> /\ \A d \in Calls : d # c => call'[d] = call[d]
      BY <2>2, <1>c DEF Arrive, Unsent
    <3>2. call'[c].phase = "arrived" /\ call'[c] \in Call \cup {NoCall, Ended}
      BY <2>2, <1>c, <1>t DEF Arrive, EgressTypeInv, EgressTypeOK
    <3>3. Unsent(c)' \/ call'[c] = Ended
      BY <3>2 DEF Unsent, Running
    <3> QED BY <3>1, <3>3, <1>t, KeepsLog
  <2>3. ASSUME UNCHANGED <<upstream, egressLog>>, Running(c), Unsent(c),
               NEW p \in {"permitted", "vetted", "spent"}, SetCall(c, p)
        PROVE  LogInv'
    <3>1. call[c] \in Call /\ call'[c] = [call[c] EXCEPT !.phase = p]
      BY <2>3, <1>c DEF SetCall, Running
    <3>2. call'[c].phase = p /\ p # "sent"
      BY <3>1 DEF Call
    <3>3. Unsent(c)' \/ call'[c] = Ended
      BY <3>2, <3>1 DEF Unsent, Running
    <3>4. \A d \in Calls : d # c => call'[d] = call[d]
      BY <2>3, <1>c DEF SetCall
    <3> QED BY <2>3, <3>3, <3>4, <1>t, KeepsLog
  <2>4. CASE DenyUrl(c) \/ DenyHeader(c)
    BY <2>1, <2>4, <1>2 DEF DenyUrl, DenyHeader
  <2>5. CASE CheckIntent(c)
    BY <2>1, <2>3, <2>5, <1>1, <1>2 DEF CheckIntent
  <2>6. CASE Vet(c)
    BY <2>1, <2>3, <2>6, <1>2 DEF Vet
  <2>7. CASE Spend(c)
    BY <2>1, <2>3, <2>7, <1>1 DEF Spend
  <2>8. CASE Record(c)
    BY <2>8, <1>1, <1>4 DEF Record
  <2>9. CASE FailCall(c)
    BY <2>9, <1>1 DEF FailCall
  <2> QED BY <1>3, <2>2, <2>4, <2>5, <2>6, <2>7, <2>8, <2>9 DEF CallStep
<1>6. CASE EgressCrash
  <2>1. \A c \in Calls : call'[c] = call[c] \/ call'[c] = Ended
    BY <1>6 DEF EgressCrash
  <2> QED BY <1>6, <1>t, <2>1, KeepsLog DEF EgressCrash
<1>7. CASE \E r \in Requests : IssueStep(r)
  BY <1>0, <1>7 DEF IssueStep, Admit, SubmitIssue, egressVars, DateCap, PruneCaps, InsertCap, FailIssue
<1>8. CASE AgentStep /\ UNCHANGED egressVars
  BY <1>0, <1>8 DEF egressVars
<1>9. CASE UNCHANGED allVars
  BY <1>0, <1>9 DEF allVars
<1>10. CASE ReportStep
  <2> PICK x \in LogRow : /\ egressLog' = egressLog \cup {x} /\ x.call = NoCall
                          /\ x.allowed => VoluntaryLog
    BY <1>10, ReportsOnlyLog
  <2>1. upstream' = upstream /\ call' = call
    BY <1>10, ReportsOnlyLog
  <2>2. LogMatchesCalls'
    BY <2>1 DEF LogInv, LogMatchesCalls
  <2>3. \A c \in Calls : Logged(c)' <=> Logged(c)
    BY EgressAssumption DEF Logged
  <2>4. \A c \in Calls : /\ (Unsent(c)' <=> Unsent(c)) /\ (At(c, "sent")' <=> At(c, "sent"))
                         /\ (Sent(c)' <=> Sent(c)) /\ (SentAsCalled(c)' <=> SentAsCalled(c))
    BY <2>1 DEF Unsent, At, Running, Sent, SentAsCalled
  <2> QED BY <1>t, <2>2, <2>3, <2>4 DEF LogInv
<1> QED BY <1>5, <1>6, <1>7, <1>8, <1>9, <1>10 DEF EgressNext

\* The rows the gateway writes to agent_egress_log agree with what reached the
\* outside world, for any number of calls, any interleaving of them, any crash
\* and any reports that come in between.
THEOREM LogIsTrue == EgressSpec => []LogMatchesCalls
<1>1. LogInv => LogMatchesCalls
  BY DEF LogInv
<1> QED BY <1>1, InitLog, NextLog, PTL DEF EgressSpec

----------------------------------------------------------------------------
(* Authorisation.                                                          *)

\* The envelope of request r is about what the issuance asks for.
Matches(r) == env[r].agent = issue[r].agent /\ env[r].url = issue[r].target.url

\* The receipt of request r is stored and is about what the issuance asked for.
Receipted(r) ==
  /\ stage[r] = "done" /\ Matches(r)
  /\ \E row \in receipts : row.id = r

\* A capability is made only of a receipt that is stored.
IssueAuth(r) ==
  /\ stage[r] = "done" => \E row \in receipts : row.id = r
  /\ stage[r] # "idle" => issue[r].phase # "none"
  /\ issue[r].phase = "admitted" /\ stage[r] # "idle" => Matches(r)
  /\ issue[r].phase \in {"dated", "pruned", "issued"} => Receipted(r)

\* A capability is for what was asked, and ends with the envelope and the A-JWT.
CapAuth(k) ==
  /\ issue[k.token].phase = "issued"
  /\ issue[k.token].agent = k.agent /\ issue[k.token].target = k.target
  /\ k.exp <= env[k.token].exp /\ k.exp <= env[k.token].ajwtExp

\* What the capability a call has spent guarantees, then and ever after.
TokenAuth(k) ==
  /\ issue[k.token].phase = "issued"
  /\ issue[k.token].agent = k.agent /\ issue[k.token].target = k.target
  /\ k.now <= env[k.token].exp /\ k.now <= env[k.token].ajwtExp

\* What the agent's row guarantees of a call that it let through.
IntentAuth(k) == k.agent \notin k.gone /\ k.target \in Allowlist[k.agent]

\* A call knows which agents are revoked, and has passed the checks so far.
CallAuth(k) ==
  /\ \A a \in k.gone : agents[a] = "revoked"
  /\ k.phase # "arrived" => IntentAuth(k)
  /\ k.phase \in {"spent", "sent"} => TokenAuth(k)

AuthInv ==
  /\ EgressTypeInv
  /\ \A r \in Requests : IssueAuth(r)
  /\ \A k \in caps : CapAuth(k)
  /\ \A c \in Calls : Running(c) => CallAuth(call[c])
  /\ \A x \in upstream : IntentAuth(x.by) /\ TokenAuth(x.by)

\* The invariant says what the property says.
LEMMA AuthEnough == AuthInv => CallsAreAuthorised
<1> SUFFICES ASSUME AuthInv, NEW x \in upstream
             PROVE  LET k == x.by IN
                      /\ \E row \in receipts : row.id = k.token
                      /\ env[k.token].agent = k.agent
                      /\ env[k.token].url = k.target.url
                      /\ k.now <= env[k.token].exp /\ k.now <= env[k.token].ajwtExp
                      /\ k.agent \notin k.gone
                      /\ k.target \in Allowlist[k.agent]
  BY DEF CallsAreAuthorised
<1>1. x.by.token \in Requests
  BY DEF AuthInv, EgressTypeInv, EgressTypeOK, Call
<1>2. Receipted(x.by.token)
  BY <1>1 DEF AuthInv, TokenAuth, IssueAuth
<1> QED BY <1>2 DEF AuthInv, TokenAuth, IntentAuth, Receipted, Matches

\* Nothing has been received, issued or called initially.
LEMMA InitAuth == EgressInit => AuthInv
<1> SUFFICES ASSUME EgressInit PROVE AuthInv
  OBVIOUS
<1>1. \A r \in Requests : IssueAuth(r)
  BY DEF EgressInit, Init, LedgerInit, NoIssue, IssueAuth
<1> QED BY <1>1, InitEgressTypeInv DEF EgressInit, AuthInv, Running

\* What no step undoes: the envelope of a request that has been received, a
\* receipt that has been stored, and the revocation of an agent.
LEMMA Settled ==
  ASSUME EgressTypeInv, [EgressNext]_allVars
  PROVE  /\ \A r \in Requests : stage[r] # "idle" => env'[r] = env[r] /\ stage'[r] # "idle"
         /\ \A r \in Requests : stage[r] = "done" => stage'[r] = "done"
         /\ \A r \in Requests : stage'[r] = "done" =>
              stage[r] = "done" \/ \E row \in receipts' : row.id = r
         /\ receipts \subseteq receipts'
         /\ \A a \in Agents : agents[a] = "revoked" => agents'[a] = "revoked"
<1>t. /\ stage \in [Requests -> Stages] /\ env \in [Requests -> Envelopes \cup {NoEnvelope}]
      /\ agents \in [Agents -> {"none", "active", "revoked"}]
  BY DEF EgressTypeInv, EgressTypeOK, AgentTypeOK, TypeOK
<1>n. [Next]_vars /\ [LedgerNext]_ledgerVars
  BY EgressStepImplements, StepImplements
<1>1. \A a \in Agents : agents[a] = "revoked" => agents'[a] = "revoked"
  BY <1>n, <1>t DEF Next, vars, RegisterAgent, RevokeAgent, Submit, Handle, CheckAgent,
                    CheckTenantRing, agentVars
<1> DEFINE Kept == /\ \A r \in Requests : stage[r] # "idle" => env'[r] = env[r] /\ stage'[r] # "idle"
                   /\ \A r \in Requests : stage[r] = "done" => stage'[r] = "done"
                   /\ \A r \in Requests : stage'[r] = "done" =>
                        stage[r] = "done" \/ \E row \in receipts' : row.id = r
                   /\ receipts \subseteq receipts'
<1>2. ASSUME NEW r \in Requests, NEW e \in Envelopes, Receive(r, e) PROVE Kept
  BY <1>2, <1>t DEF Receive, MoveTo
<1>3. ASSUME NEW r \in Requests, env' = env, receipts' = receipts,
             stage[r] \in Holding \cup {"received"},
             NEW s \in Stages \ {"idle", "done"}, MoveTo(r, s)
      PROVE  Kept
  BY <1>3, <1>t DEF MoveTo, Holding
<1>4. ASSUME NEW r \in Requests, WriteReceipt(r) PROVE Kept
  <2> DEFINE new == [id |-> r, tenant |-> env[r].tenant, seq |-> link[r].seq,
                     prev |-> link[r].prev, ts |-> stamp[r]]
  <2>1. new \in receipts' /\ new.id = r /\ receipts \subseteq receipts'
    BY <1>4 DEF WriteReceipt
  <2>2. /\ stage[r] = "linked" /\ env' = env
        /\ stage'[r] = "done" /\ \A q \in Requests : q # r => stage'[q] = stage[q]
    BY <1>4, <1>t DEF WriteReceipt, MoveTo
  <2> HIDE DEF new
  <2> QED BY <2>1, <2>2
<1>5. ASSUME UNCHANGED <<env, receipts, stage>> PROVE Kept
  BY <1>5
<1>6. ASSUME Crash PROVE Kept
  <2>1. \A r \in Requests : stage'[r] = stage[r] \/ (stage[r] \notin {"idle", "done"} /\ stage'[r] = "failed")
    BY <1>6 DEF Crash, Holding
  <2>2. env' = env /\ receipts' = receipts
    BY <1>6 DEF Crash
  <2> QED BY <2>1, <2>2
<1>7. ASSUME NEW r \in Requests, Acquire(r) \/ Pass(r) \/ Fail(r) PROVE Kept
  BY <1>7, <1>3 DEF Acquire, Pass, Fail, Holding, Stages
<1>8. ASSUME NEW r \in Requests, Commit(r) PROVE Kept
  <2>1. CASE PruneNonces(r) \/ InsertNonce(r) \/ NextChainPosition(r)
    BY <2>1, <1>3 DEF PruneNonces, InsertNonce, NextChainPosition, Holding, Stages
  <2> QED BY <1>4, <1>8, <2>1 DEF Commit
<1>9. Kept
  BY <1>n, <1>2, <1>5, <1>6, <1>7, <1>8 DEF LedgerNext, ledgerVars, ConsumeUsageNonce, Tick
<1> QED BY <1>1, <1>9

\* The expiry of a capability is the least of the three.
LEMMA CapExpiryLeast ==
  ASSUME NEW r \in Requests, env[r] \in Envelopes, issue[r].now \in Nat
  PROVE  CapExpiry(r) <= env[r].exp /\ CapExpiry(r) <= env[r].ajwtExp
<1> DEFINE ends == {env[r].ajwtExp, env[r].exp, issue[r].now + CapLifetime}
<1>1. /\ env[r].ajwtExp \in Nat /\ env[r].exp \in Nat
      /\ issue[r].now + CapLifetime \in Nat
  BY LedgerAssumption, EgressAssumption
<1>2. \E x \in ends : \A y \in ends : x <= y
  BY <1>1
<1>3. \A y \in ends : (CHOOSE x \in ends : \A z \in ends : x <= z) <= y
  BY <1>2
<1> QED BY <1>3 DEF CapExpiry

\* An issued capability is not issued again, nor taken back.
LEMMA IssuedStays ==
  ASSUME EgressTypeInv, [EgressNext]_allVars
  PROVE  \A r \in Requests : issue[r].phase = "issued" => issue'[r] = issue[r]
<1>i. issue \in [Requests -> [phase: IssuePhases, agent: Agents, target: Targets, now: 0..MaxTime]]
  BY DEF EgressTypeInv, EgressTypeOK
<1>1. CASE \E r \in Requests : IssueStep(r)
  BY <1>1, <1>i DEF IssueStep, Admit, SubmitIssue, egressVars, DateCap, PruneCaps, InsertCap,
                    FailIssue, SetIssue
<1>2. CASE EgressCrash
  BY <1>2 DEF EgressCrash
<1>3. CASE \E c \in Calls : CallStep(c)
  BY <1>3 DEF CallStep, Arrive, DenyUrl, CheckIntent, Vet, Spend, DenyHeader, Send, Record, FailCall
<1> QED BY <1>1, <1>2, <1>3, ReportsOnlyLog DEF EgressNext, egressVars, allVars

\* Only the start of a submission takes a request out of "idle".
LEMMA StaysIdle ==
  ASSUME EgressTypeInv, AgentStep \/ UNCHANGED vars \/ EgressCrash
  PROVE  \A r \in Requests : stage[r] = "idle" => stage'[r] = "idle"
<1>t. stage \in [Requests -> Stages]
  BY DEF EgressTypeInv, EgressTypeOK, AgentTypeOK, TypeOK
<1>1. CASE AgentStep
  BY <1>1, <1>t DEF AgentStep, RegisterAgent, RevokeAgent, Handle, Acquire, Commit, PruneNonces,
                    InsertNonce, NextChainPosition, WriteReceipt, CheckAgent, CheckTenantRing,
                    Pass, Fail, Tick, MoveTo, Holding
<1>2. CASE EgressCrash
  BY <1>2, <1>t DEF EgressCrash, Crash, Holding, vars
<1> QED BY <1>1, <1>2 DEF vars

\* Every step keeps the invariant.  What the receipts, the envelopes, issued
\* capabilities and revocations guarantee is never undone, so each action only
\* has to establish what it adds.
LEMMA NextAuth == AuthInv /\ [EgressNext]_allVars => AuthInv'
<1> SUFFICES ASSUME AuthInv, [EgressNext]_allVars PROVE AuthInv'
  OBVIOUS
<1>t. EgressTypeInv /\ EgressTypeInv'
  BY NextEgressTypeInv DEF AuthInv
<1>i. /\ issue \in [Requests -> [phase: IssuePhases, agent: Agents, target: Targets,
                               now: 0..MaxTime]]
      /\ \A k \in caps : k \in Capability /\ k.token \in Requests
      /\ call \in [Calls -> Call \cup {NoCall, Ended}]
      /\ \A k \in Call : k.token \in Requests
      /\ \A x \in upstream : x.by \in Call
      /\ stage \in [Requests -> Stages]
      /\ agents \in [Agents -> {"none", "active", "revoked"}]
  BY <1>t DEF EgressTypeInv, EgressTypeOK, Capability, Call, AgentTypeOK, TypeOK
<1>s. /\ \A r \in Requests : stage[r] # "idle" => env'[r] = env[r] /\ stage'[r] # "idle"
      /\ \A r \in Requests : stage[r] = "done" => stage'[r] = "done"
      /\ \A r \in Requests : stage'[r] = "done" =>
           stage[r] = "done" \/ \E row \in receipts' : row.id = r
      /\ receipts \subseteq receipts'
      /\ \A a \in Agents : agents[a] = "revoked" => agents'[a] = "revoked"
  BY <1>t, Settled
<1>d. \A r \in Requests : issue[r].phase = "issued" => stage[r] = "done" /\ issue'[r] = issue[r]
  BY <1>t, IssuedStays DEF AuthInv, IssueAuth, Receipted
\* What is never undone.
<1>r. ASSUME NEW r \in Requests, Receipted(r), issue'[r].agent = issue[r].agent,
             issue'[r].target = issue[r].target
      PROVE  Receipted(r)'
  BY <1>r, <1>s DEF Receipted, Matches
<1>k. \A k \in caps : CapAuth(k)'
  BY <1>i, <1>s, <1>d DEF AuthInv, CapAuth
<1>o. \A k \in Call : TokenAuth(k) => TokenAuth(k)'
  BY <1>i, <1>s, <1>d DEF TokenAuth
<1>a. \A k \in Call : CallAuth(k) => CallAuth(k)'
  BY <1>o, <1>s DEF CallAuth, IntentAuth, Call
<1>u. \A x \in upstream : IntentAuth(x.by)' /\ TokenAuth(x.by)'
  BY <1>i, <1>o DEF AuthInv, IntentAuth
\* Requests.
<1>1. ASSUME NEW r \in Requests, stage'[r] = "idle" \/ stage[r] # "idle",
             issue'[r] = issue[r] \/ issue'[r].phase = "failed"
      PROVE  IssueAuth(r)'
  <2>1. IssueAuth(r)
    BY DEF AuthInv
  <2>2. stage'[r] = "done" => \E row \in receipts' : row.id = r
    BY <1>s, <2>1 DEF IssueAuth
  <2>3. CASE issue'[r].phase = "failed"
    BY <2>2, <2>3 DEF IssueAuth
  <2>4. CASE issue'[r] = issue[r]
    <3>1. issue'[r].phase = "admitted" /\ stage'[r] # "idle" => Matches(r)'
      BY <1>1, <1>s, <2>1, <2>4 DEF IssueAuth, Matches
    <3>2. issue'[r].phase \in {"dated", "pruned", "issued"} => Receipted(r)'
      BY <1>r, <2>1, <2>4 DEF IssueAuth
    <3> QED BY <1>1, <2>1, <2>2, <2>4, <3>1, <3>2 DEF IssueAuth
  <2> QED BY <1>1, <2>3, <2>4
<1>2. ASSUME NEW r \in Requests, UNCHANGED vars, issue[r].phase \in {"dated", "pruned"},
             issue'[r].phase \in {"dated", "pruned", "issued", "failed"},
             issue'[r].agent = issue[r].agent, issue'[r].target = issue[r].target
      PROVE  IssueAuth(r)'
  BY <1>2, <1>r DEF AuthInv, IssueAuth, vars
\* Steps that leave calls, capabilities and what was sent alone.
<1>3. ASSUME UNCHANGED <<caps, call, upstream>>, \A r \in Requests : IssueAuth(r)'
      PROVE  AuthInv'
  BY <1>3, <1>t, <1>i, <1>k, <1>a, <1>u DEF AuthInv, Running
<1>4. CASE AgentStep /\ UNCHANGED egressVars
  BY <1>1, <1>3, <1>4, <1>t, StaysIdle DEF egressVars
<1>5. CASE UNCHANGED allVars
  <2>1. UNCHANGED vars /\ UNCHANGED egressVars
    BY <1>5 DEF allVars, vars, egressVars
  <2> QED BY <1>1, <1>3, <2>1, <1>t, StaysIdle DEF egressVars
\* Issuing.
<1>6. ASSUME NEW r \in Requests, NEW a \in Agents, NEW q \in Targets, Admit(r, a, q)
      PROVE  AuthInv'
  <2>1. stage[r] = "idle" /\ stage' = stage
    BY <1>6 DEF Admit, AuthInv, IssueAuth, vars
  <2>2. issue'[r].phase \in {"admitted", "failed"} /\ \A s \in Requests : s # r => issue'[s] = issue[s]
    BY <1>6, <1>i DEF Admit
  <2>3. \A s \in Requests : IssueAuth(s)'
    BY <2>1, <2>2, <1>1 DEF IssueAuth
  <2> QED BY <1>3, <1>6, <2>3 DEF Admit
<1>7. ASSUME NEW r \in Requests, NEW e \in Envelopes, NEW S \in SUBSET Agents,
             SubmitIssue(r, e, S)
      PROVE  AuthInv'
  <2>1. /\ issue' = issue /\ issue[r].phase = "admitted"
        /\ e.agent = issue[r].agent /\ e.url = issue[r].target.url
        /\ stage' = [stage EXCEPT ![r] = "received"] /\ env' = [env EXCEPT ![r] = e]
    BY <1>7 DEF SubmitIssue, Submit, Receive, MoveTo, egressVars
  <2>2. env'[r] = e /\ stage'[r] = "received"
    BY <2>1, <1>t, <1>i DEF EgressTypeInv, EgressTypeOK, AgentTypeOK, TypeOK
  <2>3. IssueAuth(r)'
    BY <2>1, <2>2 DEF IssueAuth, Matches
  <2>4. \A s \in Requests : IssueAuth(s)'
    BY <2>1, <2>3, <1>i, <1>1
  <2> QED BY <1>3, <1>7, <2>4 DEF SubmitIssue, egressVars
<1>8. ASSUME NEW r \in Requests, DateCap(r) \/ PruneCaps(r) \/ InsertCap(r) \/ FailIssue(r)
      PROVE  \A s \in Requests : IssueAuth(s)'
  <2>1. UNCHANGED vars /\ \A s \in Requests : s # r => issue'[s] = issue[s]
    BY <1>8, <1>i DEF DateCap, PruneCaps, InsertCap, FailIssue, SetIssue
  <2>2. stage' = stage /\ receipts' = receipts /\ env' = env
    BY <2>1 DEF vars
  <2>3. CASE DateCap(r)
    <3>1. issue[r].phase = "admitted" /\ stage[r] = "done"
      BY <2>3 DEF DateCap
    <3>2. /\ issue'[r].phase = "dated"
          /\ issue'[r].agent = issue[r].agent /\ issue'[r].target = issue[r].target
      BY <2>3, <1>i DEF DateCap
    <3>3. Receipted(r)
      BY <3>1 DEF AuthInv, IssueAuth, Receipted
    <3>4. IssueAuth(r)'
      BY <3>2, <3>3, <1>r, <2>2 DEF IssueAuth, Receipted
    <3> QED BY <2>1, <2>2, <3>4, <1>1
  <2>4. CASE PruneCaps(r) \/ InsertCap(r)
    <3>1. issue[r].phase \in {"dated", "pruned"}
      BY <2>4 DEF PruneCaps, InsertCap
    <3>2. /\ issue'[r].phase \in {"pruned", "issued", "failed"}
          /\ issue'[r].agent = issue[r].agent /\ issue'[r].target = issue[r].target
      BY <2>4, <1>i DEF PruneCaps, InsertCap, SetIssue
    <3> QED BY <2>1, <2>2, <3>1, <3>2, <1>1, <1>2
  <2>5. CASE FailIssue(r)
    <3>1. issue'[r].phase = "failed"
      BY <2>5, <1>i DEF FailIssue, SetIssue
    <3> QED BY <2>1, <2>2, <3>1, <1>1
  <2> QED BY <1>8, <2>3, <2>4, <2>5
<1>9. ASSUME NEW r \in Requests, PruneCaps(r) PROVE AuthInv'
  <2>1. caps' \subseteq caps /\ call' = call /\ upstream' = upstream
    BY <1>9 DEF PruneCaps
  <2> QED BY <2>1, <1>8, <1>9, <1>t, <1>i, <1>k, <1>a, <1>u DEF AuthInv, Running
<1>10. ASSUME NEW r \in Requests, InsertCap(r) PROVE AuthInv'
  <2> DEFINE new == [token |-> r, agent |-> issue[r].agent, target |-> issue[r].target,
                     exp |-> CapExpiry(r), used |-> FALSE]
  <2>1. caps' = caps \cup {new} /\ call' = call /\ upstream' = upstream /\ env' = env
    BY <1>10 DEF InsertCap, vars
  <2>2. /\ issue'[r].phase = "issued"
        /\ issue'[r].agent = issue[r].agent /\ issue'[r].target = issue[r].target
    BY <1>10, <1>i DEF InsertCap, SetIssue
  <2>3. CapExpiry(r) <= env[r].exp /\ CapExpiry(r) <= env[r].ajwtExp
    BY <1>10, <1>t, <1>i, CapExpiryLeast, LedgerAssumption DEF InsertCap, EgressTypeInv, DatedEnv
  <2>4. /\ new.token = r /\ new.agent = issue[r].agent /\ new.target = issue[r].target
        /\ new.exp = CapExpiry(r)
    OBVIOUS
  <2> HIDE DEF new
  <2>5. \A k : k = new => CapAuth(k)'
    BY <2>1, <2>2, <2>3, <2>4 DEF CapAuth
  <2> QED BY <2>1, <2>5, <1>8, <1>10, <1>t, <1>i, <1>k, <1>a, <1>u DEF AuthInv, Running
<1>11. CASE \E r \in Requests : IssueStep(r)
  <2> PICK r \in Requests : IssueStep(r)
    BY <1>11
  <2>1. CASE DateCap(r) \/ FailIssue(r)
    BY <2>1, <1>3, <1>8 DEF DateCap, FailIssue
  <2> QED BY <1>6, <1>7, <1>9, <1>10, <2>1 DEF IssueStep
\* Calls.
<1>12. ASSUME NEW c \in Calls, UNCHANGED vars, issue' = issue,
              \A k \in caps' : k \in caps \/ CapAuth(k)',
              \A x \in upstream' : x \in upstream \/ x = [id |-> c, by |-> call[c]],
              upstream' = upstream \/ At(c, "spent"),
              \A d \in Calls : d # c => call'[d] = call[d],
              Running(c)' => CallAuth(call[c])'
       PROVE  AuthInv'
  <2>1. \A r \in Requests : IssueAuth(r)'
    BY <1>12, <1>1, <1>t, StaysIdle
  <2>2. \A d \in Calls : Running(d)' => CallAuth(call[d])'
    <3> SUFFICES ASSUME NEW d \in Calls, d # c, Running(d)' PROVE CallAuth(call[d])'
      BY <1>12
    <3>1. call'[d] = call[d] /\ call[d] \in Call /\ CallAuth(call[d])
      BY <1>12, <1>i DEF Running, AuthInv
    <3> QED BY <3>1, <1>a DEF CallAuth, IntentAuth, TokenAuth
  <2>3. \A x \in upstream' : IntentAuth(x.by)' /\ TokenAuth(x.by)'
    <3>1. At(c, "spent") => call[c] \in Call /\ IntentAuth(call[c]) /\ TokenAuth(call[c])
      BY <1>i DEF At, Running, AuthInv, CallAuth
    <3> SUFFICES ASSUME NEW x \in upstream', x \notin upstream
                 PROVE  IntentAuth(x.by)' /\ TokenAuth(x.by)'
      BY <1>u
    <3>2. At(c, "spent") /\ x.by = call[c]
      BY <1>12
    <3> QED BY <3>1, <3>2, <1>o DEF IntentAuth
  <2> QED BY <1>12, <1>t, <1>k, <2>1, <2>2, <2>3 DEF AuthInv
<1>13. ASSUME NEW c \in Calls, UNCHANGED <<caps, upstream, issue>>, UNCHANGED vars, End(c) PROVE AuthInv'
  BY <1>13, <1>12, <1>i DEF End, Running
<1>14. ASSUME NEW c \in Calls, Running(c), NEW p \in {"permitted", "vetted", "spent", "sent"},
              SetCall(c, p)
       PROVE  /\ call'[c].phase = p /\ call'[c].agent = call[c].agent
              /\ call'[c].target = call[c].target /\ call'[c].gone = call[c].gone
              /\ call'[c].token = call[c].token /\ call'[c].now = call[c].now
              /\ \A d \in Calls : d # c => call'[d] = call[d]
              /\ CallAuth(call[c])
  BY <1>14, <1>i DEF SetCall, Running, Call, AuthInv
<1>15. CASE \E c \in Calls : CallStep(c)
  <2> PICK c \in Calls : CallStep(c)
    BY <1>15
  <2>1. ASSUME NEW a \in Agents, NEW q \in Targets, NEW r \in Requests, Arrive(c, a, q, r)
        PROVE  AuthInv'
    <3>1. /\ call'[c].phase = "arrived" /\ call'[c].gone = {b \in Agents : agents[b] = "revoked"}
          /\ \A d \in Calls : d # c => call'[d] = call[d]
      BY <2>1, <1>i DEF Arrive
    <3>2. agents' = agents
      BY <2>1 DEF Arrive, vars
    <3>3. CallAuth(call[c])'
      BY <3>1, <3>2 DEF CallAuth
    <3> QED BY <2>1, <3>1, <3>3, <1>12 DEF Arrive
  <2>2. ASSUME CheckIntent(c), SetCall(c, "permitted"), agents[call[c].agent] = "active",
               call[c].target \in Allowlist[call[c].agent]
        PROVE  AuthInv'
    <3>1. Running(c) /\ UNCHANGED vars
      BY <2>2 DEF CheckIntent, At
    <3>2. call[c].agent \notin call[c].gone
      BY <2>2, <3>1, <1>14 DEF CallAuth
    <3>3. CallAuth(call[c])'
      BY <2>2, <3>1, <3>2, <1>14 DEF CallAuth, IntentAuth, vars
    <3> QED BY <2>2, <3>1, <3>3, <1>12, <1>14 DEF CheckIntent
  <2>3. ASSUME Vet(c), SetCall(c, "vetted") PROVE AuthInv'
    <3>1. Running(c) /\ UNCHANGED vars /\ call[c].phase = "permitted"
      BY <2>3 DEF Vet, At
    <3>2. CallAuth(call[c])'
      BY <2>3, <3>1, <1>14 DEF CallAuth, IntentAuth, vars
    <3> QED BY <2>3, <3>1, <3>2, <1>12, <1>14 DEF Vet
  <2>4. ASSUME Spend(c), Spendable(c) # {} PROVE AuthInv'
    <3>1. /\ Running(c) /\ UNCHANGED vars /\ call[c].phase = "vetted" /\ SetCall(c, "spent")
          /\ issue' = issue /\ upstream' = upstream
          /\ caps' = (caps \ Spendable(c)) \cup {[k EXCEPT !.used = TRUE] : k \in Spendable(c)}
      BY <2>4 DEF Spend, At
    <3>2. \A k \in caps' : k \in caps \/ CapAuth(k)'
      <4> SUFFICES ASSUME NEW k \in Spendable(c) PROVE CapAuth([k EXCEPT !.used = TRUE])'
        BY <3>1
      <4>1. k \in caps /\ k \in Capability /\ CapAuth(k)'
        BY <1>i, <1>k DEF Spendable
      <4> DEFINE l == [k EXCEPT !.used = TRUE]
      <4>2. l.token = k.token /\ l.agent = k.agent /\ l.target = k.target /\ l.exp = k.exp
        BY <4>1 DEF Capability
      <4> HIDE DEF l
      <4>3. CapAuth(l)'
        BY <4>1, <4>2 DEF CapAuth
      <4> QED BY <4>3 DEF l
    <3>3. TokenAuth(call[c])
      <4>1. PICK k \in caps : /\ k.token = call[c].token /\ k.agent = call[c].agent
                              /\ k.target = call[c].target /\ k.exp >= call[c].now
        BY <2>4 DEF Spendable
      <4>2. CapAuth(k) /\ k.exp \in Nat /\ issue[k.token].phase = "issued"
        BY <1>i DEF AuthInv, Capability, CapAuth
      <4>3. call[c].now \in Nat
        BY <3>1, <1>i, LedgerAssumption DEF Running, Call
      <4>4. env[k.token] \in Envelopes
        BY <4>2, <1>i, <1>d, <1>t DEF EgressTypeInv, EnvKnown
      <4>5. env[k.token].exp \in Nat /\ env[k.token].ajwtExp \in Nat
        BY <4>4, LedgerAssumption, EgressAssumption
      <4> QED BY <4>1, <4>2, <4>3, <4>5 DEF CapAuth, TokenAuth
    <3>4. CallAuth(call[c])'
      <4>1. TokenAuth(call[c])'
        BY <3>1, <3>3, <1>14 DEF TokenAuth, vars
      <4>2. IntentAuth(call[c])'
        BY <3>1, <1>14 DEF CallAuth, IntentAuth
      <4>3. \A a \in call'[c].gone : agents'[a] = "revoked"
        BY <3>1, <1>14 DEF CallAuth, vars
      <4> QED BY <4>1, <4>2, <4>3 DEF CallAuth
    <3> QED BY <3>1, <3>2, <3>4, <1>12, <1>14
  <2>5. CASE Send(c)
    <3>1. Running(c) /\ UNCHANGED vars /\ call[c].phase = "spent" /\ UNCHANGED <<issue, caps>>
      BY <2>5 DEF Send, At
    <3>2. CASE SetCall(c, "sent")
      <4>1. CallAuth(call[c])'
        <5>1. TokenAuth(call[c])'
          BY <3>1, <3>2, <1>14 DEF CallAuth, TokenAuth, vars
        <5>2. IntentAuth(call[c])'
          BY <3>1, <3>2, <1>14 DEF CallAuth, IntentAuth
        <5>3. \A a \in call'[c].gone : agents'[a] = "revoked"
          BY <3>1, <3>2, <1>14 DEF CallAuth, vars
        <5> QED BY <5>1, <5>2, <5>3 DEF CallAuth
      <4> QED BY <2>5, <3>1, <3>2, <4>1, <1>12, <1>14 DEF Send
    <3>3. CASE End(c)
      BY <2>5, <3>1, <3>3, <1>12, <1>i DEF Send, End, Running
    <3> QED BY <2>5, <3>2, <3>3 DEF Send
  <2>6. CASE CheckIntent(c)
    BY <2>2, <2>6, <1>13 DEF CheckIntent, Deny
  <2>7. CASE Vet(c)
    BY <2>3, <2>7, <1>13 DEF Vet, Deny
  <2>8. CASE Spend(c)
    BY <2>4, <2>8, <1>13 DEF Spend
  <2>9. CASE DenyUrl(c) \/ DenyHeader(c) \/ Record(c) \/ FailCall(c)
    BY <2>9, <1>13 DEF DenyUrl, DenyHeader, Record, FailCall, Deny
  <2> QED BY <2>1, <2>5, <2>6, <2>7, <2>8, <2>9 DEF CallStep
<1>16. CASE EgressCrash
  <2>1. \A c \in Calls : ~Running(c)'
    BY <1>16 DEF EgressCrash, Running
  <2>2. \A r \in Requests : IssueAuth(r)'
    <3> SUFFICES ASSUME NEW r \in Requests PROVE IssueAuth(r)'
      OBVIOUS
    <3>1. issue'[r] = issue[r] \/ issue'[r].phase = "failed"
      BY <1>16, <1>i DEF EgressCrash
    <3> QED BY <3>1, <1>1, <1>16, <1>t, StaysIdle
  <2> QED BY <1>16, <2>1, <2>2, <1>t, <1>k, <1>u DEF EgressCrash, AuthInv
<1>17. CASE ReportStep
  <2>1. UNCHANGED vars /\ UNCHANGED <<counter, issue, caps, call, upstream>>
    BY <1>17, ReportsOnlyLog
  <2> QED BY <1>1, <1>3, <2>1, <1>t, StaysIdle
<1> QED BY <1>4, <1>5, <1>11, <1>15, <1>16, <1>17 DEF EgressNext

\* Whatever reaches the outside was authorised by a stored receipt, a live
\* envelope and A-JWT, an agent not revoked and its allowlist, for any number of
\* agents, issuances and calls, any interleaving of them and any crash.
THEOREM CallsAuthorised == EgressSpec => []CallsAreAuthorised
  BY AuthEnough, InitAuth, NextAuth, PTL DEF EgressSpec
=============================================================================
