------------------------- MODULE AnonActionsProofs -------------------------
(***************************************************************************)
(* Proofs about AnonActions: the anonymous path implements the ledger, a   *)
(* receipt is authorised by every ring its envelope names and by the       *)
(* budget of the first, and a usage report is billed once.                 *)
(***************************************************************************)
EXTENDS AnonActions, ReceiptLedgerProofs, SumProofs

----------------------------------------------------------------------------
(* Types.                                                                  *)

ReportStages == {"idle", "received", "verified", "burnt", "logged", "done", "failed"}
Arrivals == [versions: [Rings -> Nat], used: Nat, outside: SUBSET Nat]

AnonTypeOK ==
  /\ rules \in [Rings -> Seq(Rules)]
  /\ members \in [Rings -> SUBSET Members]
  /\ usage \in [Pseudonyms -> Nat]
  /\ lists = [r \in Requests |-> lists[r]]
  /\ granted \in [Requests -> Seq(Nat)]
  /\ verified \in [Requests -> Nat]
  /\ arrival \in [Requests -> Arrivals]
  /\ report \in [Reports -> [stage: ReportStages, body: ReportBodies \cup {NoBody}, now: 0..MaxTime]]
  /\ \A p \in Reports : report[p].stage # "idle" => report[p].body \in ReportBodies
  /\ \A p \in Reports :
       report[p].stage \in {"verified", "burnt", "logged", "done"} =>
         stage[report[p].body.receipt] # "idle"
  /\ \A x \in receipts : x.id \in Requests => stage[x.id] # "idle"

AnonInv == TypeInv /\ AnonTypeOK

\* What an envelope of the anonymous path carries.
LEMMA EnvelopeFields ==
  ASSUME NEW e \in Envelopes
  PROVE  /\ e.rings \in Seq(Rings) /\ Len(e.rings) \in Nat \ {0}
         /\ e.signers \in Seq(Members) /\ Len(e.signers) = Len(e.rings)
         /\ \A i \in 1..Len(e.rings) : e.rings[i] \in Rings /\ e.signers[i] \in Members
         /\ Primary(e) \in Pseudonyms
<1>1. e.rings \in Seq(Rings) /\ e.rings # <<>> /\ e.signers \in Seq(Members) /\ Len(e.signers) = Len(e.rings)
  BY AnonAssumption
<1>2. Len(e.rings) \in Nat \ {0}
  BY <1>1
<1> QED BY <1>1, <1>2 DEF Primary, Pseudonyms

\* Every step is a step of the ledger or leaves its tables and requests alone.
LEMMA AnonStepImplements == AnonInv /\ [Next]_vars => [LedgerNext]_ledgerVars
<1> SUFFICES ASSUME AnonInv, [Next]_vars PROVE [LedgerNext]_ledgerVars
  OBVIOUS
<1>1. CASE Operate
  BY <1>1 DEF Operate
<1>2. CASE \E r \in Requests, e \in Envelopes : \E S \in [1..Len(e.rings) -> SUBSET Members] : SubmitAnon(r, e, S)
  BY <1>2 DEF SubmitAnon, LedgerNext
<1>3. CASE \E r \in Requests : Handle(r)
  <2> PICK r \in Requests : Handle(r)
    BY <1>3
  <2>1. CASE Acquire(r) \/ Commit(r)
    BY <2>1 DEF LedgerNext
  <2>2. ASSUME MoveTo(r, "failed"), stage[r] = "open", UNCHANGED <<clock, nonces, receipts, env, stamp, link>>
        PROVE  LedgerNext
    <3>1. Fail(r)
      BY <2>2 DEF Fail, Holding
    <3> QED BY <3>1 DEF LedgerNext
  <2>3. CASE CheckRule(r)
    BY <2>2, <2>3 DEF CheckRule, ledgerVars
  <2>4. CASE CheckMembers(r)
    BY <2>2, <2>4 DEF CheckMembers, ledgerVars
  <2>5. CASE CheckBudget(r)
    BY <2>5 DEF CheckBudget, LedgerNext
  <2> QED BY <2>1, <2>3, <2>4, <2>5 DEF Handle
<1>4. CASE \E r \in Requests : Fail(r)
  BY <1>4 DEF LedgerNext
<1>5. CASE \E p \in Reports : Report(p)
  <2> PICK p \in Reports : Report(p)
    BY <1>5
  <2>1. CASE BurnReportNonce(p)
    <3>1. report[p].body \in ReportBodies /\ report[p].now \in 0..MaxTime
      BY <2>1 DEF BurnReportNonce, AnonInv, AnonTypeOK
    <3>2. report[p].body.nonce \in UsageNonces
      BY <3>1, AnonAssumption
    <3> QED BY <2>1, <3>1, <3>2 DEF BurnReportNonce, LedgerNext
  <2> QED BY <2>1 DEF Report, SubmitReport, VerifyReport, LogUsage, AddUsage, FailReport
<1>6. CASE Crash \/ Tick
  BY <1>6 DEF LedgerNext
<1>7. CASE UNCHANGED vars
  BY <1>7 DEF vars, ledgerVars
<1> QED BY <1>1, <1>2, <1>3, <1>4, <1>5, <1>6, <1>7 DEF Next

LEMMA InitAnonInv == Init => AnonInv
<1> SUFFICES ASSUME Init PROVE AnonInv
  OBVIOUS
<1>1. TypeInv
  BY InitTypeInv DEF Init
<1>2. receipts \in SUBSET [id: Legacy, tenant: Tenants, seq: {0}, prev: {Genesis}, ts: {0}]
  BY DEF Init, LedgerInit
<1>3. \A x \in receipts : x.id \notin Requests
  BY <1>2, LedgerAssumption
<1> QED BY <1>1, <1>3, AnonAssumption, LedgerAssumption
        DEF Init, AnonInv, AnonTypeOK, Arrivals, NoArrival, ReportStages, Pseudonyms

\* A request that has been received never becomes idle again, and only such a
\* request has a receipt.
LEMMA ReceivedStays ==
  ASSUME AnonInv, TypeInv', [LedgerNext]_ledgerVars
  PROVE  /\ \A r \in Requests : stage[r] # "idle" => stage'[r] # "idle" /\ env'[r] = env[r]
         /\ \A x \in receipts' : x.id \in Requests => stage'[x.id] # "idle"
<1>t. /\ stage \in [Requests -> Stages] /\ env \in [Requests -> Envelopes \cup {NoEnvelope}]
      /\ \A x \in receipts : x.id \in Requests => stage[x.id] # "idle"
  BY DEF AnonInv, TypeInv, TypeOK, AnonTypeOK
<1>m. ASSUME NEW r \in Requests, NEW s, s # "idle", stage' = [stage EXCEPT ![r] = s],
             receipts' = receipts, env' = env
      PROVE  /\ \A q \in Requests : stage[q] # "idle" => stage'[q] # "idle" /\ env'[q] = env[q]
             /\ \A x \in receipts' : x.id \in Requests => stage'[x.id] # "idle"
  BY <1>t, <1>m
<1>1. CASE \E r \in Requests, e \in Envelopes : Receive(r, e)
  BY <1>1, <1>t DEF Receive, MoveTo
<1>2. CASE \E r \in Requests : Acquire(r) \/ Pass(r) \/ Fail(r)
  BY <1>2, <1>m DEF Acquire, Pass, Fail, MoveTo
<1>3. CASE \E r \in Requests : PruneNonces(r) \/ InsertNonce(r) \/ NextChainPosition(r)
  BY <1>3, <1>m DEF PruneNonces, InsertNonce, NextChainPosition, MoveTo
<1>4. CASE \E r \in Requests : WriteReceipt(r)
  <2> PICK r \in Requests : WriteReceipt(r)
    BY <1>4
  <2>1. stage' = [stage EXCEPT ![r] = "done"] /\ env' = env
    BY DEF WriteReceipt, MoveTo
  <2>2. \A x \in receipts' : x \in receipts \/ x.id = r
    BY DEF WriteReceipt
  <2> QED BY <1>t, <2>1, <2>2
<1>5. CASE \E k \in UsageNonces, now \in 0..MaxTime : ConsumeUsageNonce(k, now)
  BY <1>5, <1>t DEF ConsumeUsageNonce
<1>6. CASE Crash
  BY <1>6, <1>t DEF Crash
<1>7. CASE Tick
  BY <1>7, <1>t DEF Tick
<1>8. CASE UNCHANGED ledgerVars
  BY <1>8, <1>t DEF ledgerVars
<1> QED BY <1>1, <1>2, <1>3, <1>4, <1>5, <1>6, <1>7, <1>8 DEF LedgerNext, Commit

\* Every step keeps the types.
LEMMA NextAnonInv == AnonInv /\ [Next]_vars => AnonInv'
<1> SUFFICES ASSUME AnonInv, [Next]_vars PROVE AnonInv'
  OBVIOUS
<1>l. [LedgerNext]_ledgerVars
  BY AnonStepImplements
<1>0. TypeInv'
  BY <1>l, NextTypeInv DEF AnonInv
<1>s. /\ \A r \in Requests : stage[r] # "idle" => stage'[r] # "idle" /\ env'[r] = env[r]
      /\ \A x \in receipts' : x.id \in Requests => stage'[x.id] # "idle"
  BY <1>0, <1>l, ReceivedStays
<1> USE DEF AnonTypeOK
<1>t. AnonTypeOK
  BY DEF AnonInv
<1>r. \A p \in Reports : report[p].stage # "idle" => report[p].body.receipt \in Requests
  BY <1>t, AnonAssumption
<1>p. ASSUME UNCHANGED report
      PROVE  \A p \in Reports :
               report'[p].stage \in {"verified", "burnt", "logged", "done"} =>
                 stage'[report'[p].body.receipt] # "idle"
  BY <1>p, <1>t, <1>r, <1>s
<1>1. CASE Operate
  <2> PICK g \in Rings : \/ \E u \in Rules : UpsertRing(g, u)
                         \/ \E m \in Members : Subscribe(g, m) \/ RevokeMember(g, m)
    BY <1>1 DEF Operate
  <2>1. ASSUME NEW u \in Rules, UpsertRing(g, u) PROVE AnonTypeOK'
    BY <2>1, <1>t, <1>p, <1>s DEF UpsertRing
  <2>2. ASSUME NEW m \in Members, Subscribe(g, m) PROVE AnonTypeOK'
    <3>1. arrival' \in [Requests -> Arrivals]
      <4>1. ASSUME NEW r \in Requests, NEW O, O \subseteq arrival[r].outside
            PROVE  [arrival[r] EXCEPT !.outside = O] \in Arrivals
        BY <1>t, <4>1 DEF Arrivals
      <4> QED BY <2>2, <4>1 DEF Subscribe
    <3> QED BY <2>2, <1>t, <1>p, <1>s, <3>1 DEF Subscribe
  <2>3. ASSUME NEW m \in Members, RevokeMember(g, m) PROVE AnonTypeOK'
    BY <2>3, <1>t, <1>p, <1>s DEF RevokeMember
  <2> QED BY <1>0, <2>1, <2>2, <2>3 DEF AnonInv
<1>2. CASE \E r \in Requests, e \in Envelopes : \E S \in [1..Len(e.rings) -> SUBSET Members] : SubmitAnon(r, e, S)
  <2> PICK r, e, S : r \in Requests /\ e \in Envelopes /\ SubmitAnon(r, e, S)
    BY <1>2
  <2> DEFINE new == [versions |-> [g \in Rings |-> Len(rules[g])], used |-> usage[Primary(e)],
                     outside |-> {i \in 1..Len(e.rings) : e.signers[i] \notin members[e.rings[i]]}]
  <2>1. new \in Arrivals
    BY <1>t, EnvelopeFields DEF Arrivals
  <2>2. arrival' = [arrival EXCEPT ![r] = new]
    BY DEF SubmitAnon
  <2> HIDE DEF new
  <2> QED BY <1>0, <1>t, <1>p, <1>s, <2>1, <2>2 DEF SubmitAnon, AnonInv
<1>3. CASE \E r \in Requests : Handle(r)
  <2> PICK r \in Requests : Handle(r)
    BY <1>3
  <2>1. CASE UNCHANGED anonVars
    BY <1>0, <1>t, <1>p, <1>s, <2>1 DEF anonVars, AnonInv
  <2>2. CASE CheckRule(r)
    <3>1. UNCHANGED <<rules, members, usage, lists, verified, arrival, report>>
      BY <2>2 DEF CheckRule
    <3>2. granted' \in [Requests -> Seq(Nat)]
      <4> DEFINE g == env[r].rings[Len(granted[r]) + 1]
      <4>1. g \in Rings
        <5>1. env[r] \in Envelopes
          BY <2>2 DEF CheckRule, AnonInv, TypeInv, EnvKnown
        <5>2. Len(granted[r]) + 1 \in 1..Len(env[r].rings)
          BY <1>t, <2>2, <5>1, EnvelopeFields DEF CheckRule, RuleTurn
        <5> QED BY <5>1, <5>2, EnvelopeFields
      <4>2. Len(rules[g]) \in Nat
        BY <1>t, <4>1
      <4>3. Append(granted[r], Len(rules[g])) \in Seq(Nat)
        BY <1>t, <4>2
      <4> QED BY <1>t, <2>2, <4>3 DEF CheckRule
    <3> QED BY <1>0, <1>t, <1>p, <1>s, <3>1, <3>2 DEF AnonInv
  <2>3. CASE CheckMembers(r)
    <3>1. UNCHANGED <<rules, members, usage, lists, granted, arrival, report>>
      BY <2>3 DEF CheckMembers
    <3>2. verified' \in [Requests -> Nat]
      BY <1>t, <2>3 DEF CheckMembers
    <3> QED BY <1>0, <1>t, <1>p, <1>s, <3>1, <3>2 DEF AnonInv
  <2> QED BY <2>1, <2>2, <2>3 DEF Handle, CheckBudget
<1>4. CASE \E r \in Requests : Fail(r) /\ UNCHANGED anonVars
  BY <1>4, <1>0, <1>t, <1>p, <1>s DEF anonVars, AnonInv
<1>5. CASE \E p \in Reports : Report(p)
  <2> PICK p \in Reports : Report(p)
    BY <1>5
  <2>a. ASSUME NEW s \in ReportStages \ {"idle"}, Advance(p, s), report[p].stage # "idle",
               s \in {"verified", "burnt", "logged", "done"} => stage'[report[p].body.receipt] # "idle"
        PROVE  /\ report' \in [Reports -> [stage: ReportStages, body: ReportBodies \cup {NoBody}, now: 0..MaxTime]]
               /\ \A q \in Reports : report'[q].stage # "idle" => report'[q].body \in ReportBodies
               /\ \A q \in Reports :
                    report'[q].stage \in {"verified", "burnt", "logged", "done"} =>
                      stage'[report'[q].body.receipt] # "idle"
    <3>1. /\ report' = [report EXCEPT ![p].stage = s]
          /\ report'[p].stage = s /\ report'[p].body = report[p].body
          /\ \A q \in Reports \ {p} : report'[q] = report[q]
      BY <1>t, <2>a DEF Advance
    <3> QED BY <1>t, <1>r, <1>s, <2>a, <3>1
  <2>s. ReportStages = {"idle", "received", "verified", "burnt", "logged", "done", "failed"}
    BY DEF ReportStages
  <2>k. report[p].stage \in {"verified", "burnt", "logged"} => stage'[report[p].body.receipt] # "idle"
    BY <1>t, <1>r, <1>s
  <2>1. CASE \E b \in ReportBodies : SubmitReport(p, b)
    <3> PICK b \in ReportBodies : SubmitReport(p, b)
      BY <2>1
    <3> DEFINE new == [stage |-> "received", body |-> b, now |-> clock]
    <3>1. new \in [stage: ReportStages, body: ReportBodies \cup {NoBody}, now: 0..MaxTime]
          /\ new.stage = "received" /\ new.body = b
      BY <2>s DEF AnonInv, TypeInv, TypeOK
    <3>2. report' = [report EXCEPT ![p] = new]
      BY DEF SubmitReport
    <3> HIDE DEF new
    <3>3. /\ report' \in [Reports -> [stage: ReportStages, body: ReportBodies \cup {NoBody}, now: 0..MaxTime]]
          /\ \A q \in Reports : report'[q].stage # "idle" => report'[q].body \in ReportBodies
          /\ \A q \in Reports :
               report'[q].stage \in {"verified", "burnt", "logged", "done"} =>
                 stage'[report'[q].body.receipt] # "idle"
      BY <1>t, <1>r, <1>s, <3>1, <3>2
    <3> QED BY <1>0, <1>t, <1>s, <3>3 DEF SubmitReport, AnonInv
  <2>2. CASE VerifyReport(p)
    <3>1. UNCHANGED <<rules, members, usage, lists, granted, verified, arrival, stage, receipts>>
      BY <2>2 DEF VerifyReport, ledgerVars
    <3>2. CASE Advance(p, "failed")
      BY <1>0, <1>t, <1>s, <2>2, <2>a, <2>s, <3>1, <3>2 DEF VerifyReport, AnonInv
    <3>3. CASE Advance(p, "verified") /\ \E x \in receipts : x.id = report[p].body.receipt
      <4>1. stage'[report[p].body.receipt] # "idle"
        BY <1>r, <1>t, <2>2, <3>1, <3>3 DEF VerifyReport
      <4> QED BY <1>0, <1>t, <1>s, <2>2, <2>a, <2>s, <3>1, <3>3, <4>1 DEF VerifyReport, AnonInv
    <3> QED BY <2>2, <3>2, <3>3 DEF VerifyReport
  <2>3. CASE BurnReportNonce(p)
    <3>1. UNCHANGED <<rules, members, usage, lists, granted, verified, arrival>>
      BY <2>3 DEF BurnReportNonce
    <3>2. Advance(p, "burnt") \/ Advance(p, "failed")
      BY <2>3 DEF BurnReportNonce
    <3> QED BY <1>0, <1>t, <1>s, <2>3, <2>a, <2>k, <2>s, <3>1, <3>2 DEF BurnReportNonce, AnonInv
  <2>4. CASE LogUsage(p)
    BY <1>0, <1>t, <1>s, <2>4, <2>a, <2>k, <2>s DEF LogUsage, AnonInv
  <2>5. CASE AddUsage(p)
    <3>1. report[p].body \in ReportBodies
      BY <1>t, <2>5 DEF AddUsage
    <3>2. report[p].body.amount \in Nat
      BY <3>1, AnonAssumption
    <3>4. Billed(p) \in Pseudonyms
      <4>1. env[report[p].body.receipt] \in Envelopes
        BY <1>r, <1>t, <2>5 DEF AddUsage, AnonInv, TypeInv, EnvKnown
      <4> QED BY <4>1, EnvelopeFields DEF Billed
    <3>3. usage' \in [Pseudonyms -> Nat]
      BY <1>t, <2>5, <3>2, <3>4 DEF AddUsage
    <3> QED BY <1>0, <1>t, <1>s, <2>5, <2>a, <2>k, <2>s, <3>3 DEF AddUsage, AnonInv
  <2>6. CASE FailReport(p)
    BY <1>0, <1>t, <1>s, <2>6, <2>a, <2>s DEF FailReport, AnonInv
  <2> QED BY <2>1, <2>2, <2>3, <2>4, <2>5, <2>6 DEF Report
<1>6. CASE (Crash \/ Tick) /\ UNCHANGED anonVars
  BY <1>6, <1>0, <1>t, <1>p, <1>s DEF anonVars, AnonInv
<1>7. CASE UNCHANGED vars
  BY <1>7, <1>0, <1>t, <1>p, <1>s DEF vars, AnonInv
<1> QED BY <1>1, <1>2, <1>3, <1>4, <1>5, <1>6, <1>7 DEF Next

\* validate_anon_action, with rings, members and usage changing around it,
\* implements the receipt ledger.
THEOREM AnonImplementsLedger == Spec => LedgerSpec
<1>1. Init => LedgerInit
  BY DEF Init
<1> QED BY <1>1, InitAnonInv, NextAnonInv, AnonStepImplements, PTL DEF Spec, LedgerSpec

\* Hence one anonymous envelope earns at most one receipt while it is valid, and
\* every chained receipt links to a stored one.
THEOREM AnonReceipts == Spec => [](SingleUseWhileFresh /\ LinkedToPredecessor)
  BY AnonImplementsLedger, SingleUse, LinksResolve, PTL

----------------------------------------------------------------------------
(* Authorisation.                                                          *)

Live(r) == stage[r] \notin {"idle", "failed"}
Cleared(r) == stage[r] \in {"passed", "pruned", "burnt", "linked", "done"}

\* The rings of an envelope are checked in order, all of them before it passes.
Progress(r) ==
  /\ stage[r] \in {"idle", "received"} => granted[r] = <<>> /\ verified[r] = 0
  /\ Live(r) => /\ verified[r] <= Len(granted[r]) /\ Len(granted[r]) <= verified[r] + 1
                /\ Len(granted[r]) <= Len(env[r].rings)
  /\ Cleared(r) => verified[r] = Len(env[r].rings)

\* Version v of ring g has been in force since r arrived, and permits its action.
Permits(r, g, v) ==
  /\ v \in 1..Len(rules[g])
  /\ arrival[r].versions[g] <= v
  /\ EvaluateRule(rules[g][v], env[r].action, env[r].digest)

Permitted(r) ==
  Live(r) => /\ \A g \in Rings : arrival[r].versions[g] <= Len(rules[g])
             /\ \A i \in 1..Len(granted[r]) : Permits(r, env[r].rings[i], granted[r][i])

\* A signer that has been outside its ring since r arrived still is, and none of
\* those whose signature was verified is one.
Vouched(r) ==
  Live(r) => /\ \A i \in 1..Len(env[r].rings) : env[r].signers[i] \in lists[r][i]
             /\ \A i \in arrival[r].outside :
                  i \in 1..Len(env[r].rings) /\ env[r].signers[i] \notin members[env[r].rings[i]]
             /\ \A i \in 1..verified[r] : i \notin arrival[r].outside

AuthInv == \A r \in Requests : Progress(r) /\ Permitted(r) /\ Vouched(r)

\* The rules a ring has had are kept.
RulesGrow ==
  \A g \in Rings : Len(rules[g]) <= Len(rules'[g]) /\ \A v \in 1..Len(rules[g]) : rules'[g][v] = rules[g][v]

\* A request whose own state a step leaves alone, or that it ends.
LEMMA Bystander ==
  ASSUME AnonInv, NEW r \in Requests, Progress(r), Permitted(r), Vouched(r),
         stage'[r] \in {stage[r], "failed"}, RulesGrow,
         env'[r] = env[r], lists'[r] = lists[r], granted'[r] = granted[r], verified'[r] = verified[r],
         arrival'[r].versions = arrival[r].versions, arrival'[r].outside \subseteq arrival[r].outside,
         Live(r) => \A i \in arrival'[r].outside : env[r].signers[i] \notin members'[env[r].rings[i]]
  PROVE  Progress(r)' /\ Permitted(r)' /\ Vouched(r)'
<1>1. /\ Live(r)' => Live(r)
      /\ Cleared(r)' => Cleared(r)
      /\ stage'[r] \in {"idle", "received"} => stage[r] \in {"idle", "received"}
  BY DEF Live, Cleared
<1>2. Progress(r)'
  BY <1>1 DEF Progress
<1>3. ASSUME Live(r)' PROVE Permitted(r)'
  <2>1. env[r] \in Envelopes /\ Live(r)
    BY <1>1, <1>3 DEF AnonInv, TypeInv, EnvKnown, Live
  <2>2. /\ \A g \in Rings : arrival[r].versions[g] <= Len(rules[g]) /\ arrival[r].versions[g] \in Nat
        /\ \A g \in Rings : Len(rules[g]) \in Nat /\ Len(rules'[g]) >= Len(rules[g])
    BY <2>1 DEF AnonInv, AnonTypeOK, Permitted, Arrivals, RulesGrow
  <2>3. \A i \in 1..Len(granted[r]) : env[r].rings[i] \in Rings
    <3>1. Len(granted[r]) <= Len(env[r].rings) /\ Len(granted[r]) \in Nat
      BY <2>1 DEF Progress, AnonInv, AnonTypeOK
    <3> QED BY <2>1, <3>1, EnvelopeFields
  <2>4. ASSUME NEW g \in Rings, NEW v, Permits(r, g, v) PROVE Permits(r, g, v)'
    <3>1. v \in 1..Len(rules[g]) /\ arrival[r].versions[g] <= v
      BY <2>4 DEF Permits
    <3>2. rules'[g][v] = rules[g][v] /\ Len(rules[g]) <= Len(rules'[g])
      BY <3>1 DEF RulesGrow
    <3> QED
      \* Under its prime, v is a constant.
      BY <2>2, <2>4, <3>1, <3>2 DEF Permits
  <2>5. \A g \in Rings : arrival'[r].versions[g] <= Len(rules'[g])
    BY <2>2 DEF RulesGrow
  <2>6. \A i \in 1..Len(granted'[r]) : \A g, v : g = env'[r].rings[i] /\ v = granted'[r][i] => Permits(r, g, v)'
    BY <2>1, <2>3, <2>4 DEF Permitted
  <2> QED BY <2>5, <2>6 DEF Permitted, Permits
<1>4. ASSUME Live(r)' PROVE Vouched(r)'
  <2>1. Live(r)
    BY <1>1, <1>4
  <2> QED BY <2>1 DEF Vouched
<1> QED BY <1>2, <1>3, <1>4 DEF Permitted, Vouched

LEMMA InitAuthInv == Init => AuthInv
  BY DEF Init, LedgerInit, AuthInv, Progress, Permitted, Vouched, Live, Cleared, NoArrival

\* A step of the ledger that gives no request a new envelope leaves them as they
\* are but for the one that moves on.
LEMMA NextAuthInv == AnonInv /\ AnonInv' /\ AuthInv /\ [Next]_vars => AuthInv'
<1> SUFFICES ASSUME AnonInv, AnonInv', AuthInv, [Next]_vars PROVE AuthInv'
  OBVIOUS
<1>t. /\ stage \in [Requests -> Stages] /\ env \in [Requests -> Envelopes \cup {NoEnvelope}]
      /\ AnonTypeOK
      /\ \A r \in Requests : stage[r] # "idle" => env[r] \in Envelopes
  BY DEF AnonInv, TypeInv, TypeOK, EnvKnown
<1>a. \A r \in Requests : Progress(r) /\ Permitted(r) /\ Vouched(r)
  BY DEF AuthInv
<1>o. \A r \in Requests : Live(r) => \A i \in arrival[r].outside : env[r].signers[i] \notin members[env[r].rings[i]]
  BY <1>a DEF Vouched
<1>g. ASSUME UNCHANGED rules PROVE RulesGrow
  BY <1>g, <1>t DEF RulesGrow, AnonTypeOK
\* Requests a step does not move.
<1>b. ASSUME UNCHANGED <<rules, members, arrival>>, NEW r \in Requests, stage'[r] \in {stage[r], "failed"},
             env'[r] = env[r], lists'[r] = lists[r], granted'[r] = granted[r], verified'[r] = verified[r]
      PROVE  Progress(r)' /\ Permitted(r)' /\ Vouched(r)'
  BY <1>a, <1>b, <1>g, <1>o, Bystander
\* Steps of the ledger past the checks, and those before them.
<1>c. ASSUME UNCHANGED anonVars, NEW r \in Requests, NEW s, stage' = [stage EXCEPT ![r] = s], UNCHANGED env,
             \/ stage[r] \in {"received"} /\ s = "open"
             \/ Cleared(r) /\ s \in {"passed", "pruned", "burnt", "linked", "done"}
             \/ s = "failed"
      PROVE  AuthInv'
  <2>0. UNCHANGED <<rules, members, arrival, lists, granted, verified>>
    BY <1>c DEF anonVars
  <2>1. \A q \in Requests \ {r} : Progress(q)' /\ Permitted(q)' /\ Vouched(q)'
    BY <1>b, <1>c, <1>t, <2>0
  <2>2. stage'[r] = s
    BY <1>c, <1>t
  <2>3. CASE s = "failed"
    BY <1>b, <1>c, <2>0, <2>1, <2>2, <2>3 DEF AuthInv
  <2>4. CASE s # "failed"
    <3>1. Live(r) /\ Live(r)' /\ (Cleared(r)' => Cleared(r))
      BY <1>c, <2>2, <2>4 DEF Live, Cleared
    <3>2. stage'[r] \notin {"idle", "received"}
      BY <1>c, <2>2, <2>4
    <3>3. Progress(r)'
      BY <1>a, <1>c, <2>0, <3>1, <3>2 DEF Progress
    <3>4. Permitted(r)' /\ Vouched(r)'
      BY <1>a, <1>c, <2>0, <3>1 DEF Permitted, Permits, Vouched
    <3> QED BY <2>1, <3>3, <3>4 DEF AuthInv
  <2> QED BY <2>3, <2>4
<1>1. CASE Operate
  <2> PICK g \in Rings : \/ \E u \in Rules : UpsertRing(g, u)
                         \/ \E m \in Members : Subscribe(g, m) \/ RevokeMember(g, m)
    BY <1>1 DEF Operate
  <2>0. UNCHANGED ledgerVars
    BY <1>1 DEF Operate
  <2>1. ASSUME NEW u \in Rules, UpsertRing(g, u) PROVE AuthInv'
    <3>1. UNCHANGED <<stage, env, lists, granted, verified, arrival, members>>
      BY <2>0, <2>1 DEF UpsertRing, ledgerVars
    <3>2. RulesGrow
      <4>1. /\ rules' = [rules EXCEPT ![g] = Append(@, u)]
            /\ \A h \in Rings : rules[h] \in Seq(Rules)
        BY <1>t, <2>1 DEF UpsertRing, AnonTypeOK
      <4>2. rules'[g] = Append(rules[g], u) /\ \A h \in Rings \ {g} : rules'[h] = rules[h]
        BY <1>t, <4>1 DEF AnonTypeOK
      <4>3. \A v \in 1..Len(rules[g]) : Append(rules[g], u)[v] = rules[g][v]
        BY <4>1
      <4>4. Len(Append(rules[g], u)) = Len(rules[g]) + 1 /\ \A h \in Rings : Len(rules[h]) \in Nat
        BY <4>1
      <4> QED BY <4>2, <4>3, <4>4 DEF RulesGrow
    <3> QED BY <1>a, <1>o, <3>1, <3>2, Bystander DEF AuthInv
  <2>2. ASSUME NEW m \in Members, Subscribe(g, m) PROVE AuthInv'
    <3>1. UNCHANGED <<stage, env, lists, granted, verified, rules>>
      BY <2>0, <2>2 DEF Subscribe, ledgerVars
    <3>2. members' = [members EXCEPT ![g] = @ \cup {m}]
      BY <2>2 DEF Subscribe
    <3>3. ASSUME NEW r \in Requests
          PROVE  /\ arrival'[r].versions = arrival[r].versions
                 /\ arrival'[r].outside =
                      {i \in arrival[r].outside : ~(env[r].rings[i] = g /\ env[r].signers[i] = m)}
      BY <1>t, <2>2 DEF Subscribe, AnonTypeOK, Arrivals
    <3>4. ASSUME NEW r \in Requests, Live(r), NEW i \in arrival'[r].outside
          PROVE  env[r].signers[i] \notin members'[env[r].rings[i]]
      <4>1. i \in arrival[r].outside /\ ~(env[r].rings[i] = g /\ env[r].signers[i] = m)
        BY <3>3
      <4>2. env[r].signers[i] \notin members[env[r].rings[i]] /\ i \in 1..Len(env[r].rings)
        BY <1>a, <3>4, <4>1 DEF Vouched
      <4>3. env[r].rings[i] \in Rings
        BY <1>t, <3>4, <4>2, EnvelopeFields DEF Live
      <4> QED BY <1>t, <3>2, <4>1, <4>2, <4>3 DEF AnonTypeOK
    <3> QED BY <1>a, <1>g, <3>1, <3>3, <3>4, Bystander DEF AuthInv
  <2>3. ASSUME NEW m \in Members, RevokeMember(g, m) PROVE AuthInv'
    <3>1. UNCHANGED <<stage, env, lists, granted, verified, rules, arrival>>
      BY <2>0, <2>3 DEF RevokeMember, ledgerVars
    <3>2. members' = [members EXCEPT ![g] = @ \ {m}]
      BY <2>3 DEF RevokeMember
    <3>4. ASSUME NEW r \in Requests, Live(r), NEW i \in arrival'[r].outside
          PROVE  env[r].signers[i] \notin members'[env[r].rings[i]]
      <4>2. env[r].signers[i] \notin members[env[r].rings[i]] /\ i \in 1..Len(env[r].rings)
        BY <1>a, <3>1, <3>4 DEF Vouched
      <4>3. env[r].rings[i] \in Rings
        BY <1>t, <3>4, <4>2, EnvelopeFields DEF Live
      <4> QED BY <1>t, <3>2, <4>2, <4>3 DEF AnonTypeOK
    <3> QED BY <1>a, <1>g, <3>1, <3>4, Bystander DEF AuthInv
  <2> QED BY <2>1, <2>2, <2>3
<1>2. CASE \E r \in Requests, e \in Envelopes : \E S \in [1..Len(e.rings) -> SUBSET Members] : SubmitAnon(r, e, S)
  <2> PICK r, e, S : r \in Requests /\ e \in Envelopes /\ SubmitAnon(r, e, S)
    BY <1>2
  <2> DEFINE new == [versions |-> [g \in Rings |-> Len(rules[g])], used |-> usage[Primary(e)],
                     outside |-> {i \in 1..Len(e.rings) : e.signers[i] \notin members[e.rings[i]]}]
  <2>f. /\ new.versions = [g \in Rings |-> Len(rules[g])]
        /\ new.outside = {i \in 1..Len(e.rings) : e.signers[i] \notin members[e.rings[i]]}
    OBVIOUS
  <2>1. /\ stage[r] = "idle" /\ stage' = [stage EXCEPT ![r] = "received"]
        /\ env' = [env EXCEPT ![r] = e]
        /\ lists' = [lists EXCEPT ![r] = S]
        /\ arrival' = [arrival EXCEPT ![r] = new]
        /\ UNCHANGED <<rules, members, granted, verified>>
        /\ \A i \in 1..Len(e.rings) : e.signers[i] \in S[i]
    BY DEF SubmitAnon, Receive, MoveTo
  <2> HIDE DEF new
  <2>2. /\ stage'[r] = "received" /\ env'[r] = e /\ lists'[r] = S /\ arrival'[r] = new
        /\ \A q \in Requests \ {r} : /\ stage'[q] = stage[q] /\ env'[q] = env[q]
                                     /\ lists'[q] = lists[q] /\ arrival'[q] = arrival[q]
    BY <1>t, <2>1 DEF AnonTypeOK
  <2>3. \A q \in Requests \ {r} : Progress(q)' /\ Permitted(q)' /\ Vouched(q)'
    BY <1>a, <1>g, <1>o, <2>1, <2>2, Bystander
  <2>4. granted'[r] = <<>> /\ verified'[r] = 0
    BY <1>a, <2>1 DEF Progress
  <2>5. Len(e.rings) \in Nat
    BY EnvelopeFields
  <2>6. Progress(r)'
    BY <2>2, <2>4, <2>5 DEF Progress, Cleared
  <2>7. Permitted(r)'
    <3>1. \A g \in Rings : arrival'[r].versions[g] <= Len(rules'[g])
      BY <1>t, <2>1, <2>2, <2>f DEF AnonTypeOK
    <3> QED BY <2>4, <3>1 DEF Permitted
  <2>8. Vouched(r)'
    BY <2>1, <2>2, <2>4, <2>f DEF Vouched
  <2> QED BY <2>3, <2>6, <2>7, <2>8 DEF AuthInv
<1>3. ASSUME NEW r \in Requests, Acquire(r) \/ Commit(r), UNCHANGED anonVars PROVE AuthInv'
  <2>1. CASE Acquire(r)
    BY <1>3, <1>c, <2>1 DEF Acquire, MoveTo
  <2>2. CASE Commit(r)
    <3>1. /\ Cleared(r) /\ UNCHANGED env
          /\ \E s \in {"pruned", "burnt", "linked", "done", "failed"} : stage' = [stage EXCEPT ![r] = s]
      BY <2>2 DEF Commit, PruneNonces, InsertNonce, NextChainPosition, WriteReceipt, MoveTo, Cleared
    <3> QED BY <1>3, <1>c, <3>1
  <2> QED BY <1>3, <2>1, <2>2
\* A failed check ends the request.
<1>f. ASSUME NEW r \in Requests, MoveTo(r, "failed"),
             UNCHANGED <<rules, members, arrival, env, lists, granted, verified>>
      PROVE  AuthInv'
  <2>1. \A q \in Requests : stage'[q] \in {stage[q], "failed"}
    BY <1>f, <1>t DEF MoveTo
  <2> QED BY <1>b, <1>f, <2>1 DEF AuthInv
<1>4. ASSUME NEW r \in Requests, CheckRule(r) PROVE AuthInv'
  <2> DEFINE i == Len(granted[r]) + 1
             g == env[r].rings[i]
             v == Len(rules[g])
  <2>1. /\ stage[r] = "open" /\ RuleTurn(r)
        /\ UNCHANGED <<rules, members, arrival, env, lists, verified>>
    BY <1>4 DEF CheckRule
  <2>2. CASE MoveTo(r, "failed") /\ UNCHANGED granted
    BY <1>f, <2>1, <2>2
  <2>3. CASE /\ rules[g] # <<>> /\ EvaluateRule(rules[g][v], env[r].action, env[r].digest)
             /\ granted' = [granted EXCEPT ![r] = Append(@, v)] /\ UNCHANGED stage
    <3>1. env[r] \in Envelopes /\ Live(r) /\ ~Cleared(r)
      BY <1>t, <2>1 DEF Live, Cleared
    <3>2. /\ granted[r] \in Seq(Nat) /\ Len(granted[r]) \in Nat /\ verified[r] \in Nat
          /\ Len(granted[r]) = verified[r] /\ i \in 1..Len(env[r].rings) /\ Len(env[r].rings) \in Nat
      BY <1>t, <2>1, <3>1, EnvelopeFields DEF AnonTypeOK, RuleTurn
    <3>3. g \in Rings
      BY <3>1, <3>2, EnvelopeFields
    <3>4. rules[g] \in Seq(Rules) /\ v \in Nat /\ v # 0
      BY <1>t, <2>3, <3>3 DEF AnonTypeOK
    <3>5. /\ granted'[r] = Append(granted[r], v)
          /\ \A q \in Requests \ {r} : granted'[q] = granted[q]
      BY <1>t, <2>3 DEF AnonTypeOK
    <3>6. /\ Len(granted'[r]) = i /\ granted'[r][i] = v
          /\ \A j \in 1..Len(granted[r]) : granted'[r][j] = granted[r][j]
      BY <3>2, <3>5
    <3>7. \A q \in Requests \ {r} : Progress(q)' /\ Permitted(q)' /\ Vouched(q)'
      BY <1>b, <2>1, <2>3, <3>5
    <3> HIDE DEF i, g, v
    <3>8. Progress(r)'
      <4>1. Len(granted'[r]) = Len(granted[r]) + 1
        BY <3>6 DEF i
      <4>2. stage'[r] = "open"
        BY <2>1, <2>3
      <4> QED BY <2>1, <3>2, <3>6, <4>1, <4>2 DEF Progress, Cleared
    <3>9. Permitted(r)'
      <4>1. /\ \A h \in Rings : arrival[r].versions[h] <= Len(rules[h])
            /\ \A j \in 1..Len(granted[r]) : Permits(r, env[r].rings[j], granted[r][j])
        BY <1>a, <3>1 DEF Permitted
      <4>2. Permits(r, g, v)
        BY <2>3, <3>3, <3>4, <4>1 DEF Permits, v
      <4>3. \A j \in 1..Len(granted'[r]) : Permits(r, env[r].rings[j], granted'[r][j])
        <5>1. \A j \in 1..Len(granted'[r]) : j \in 1..Len(granted[r]) \/ j = i
          BY <3>2, <3>6 DEF i
        <5> QED BY <3>6, <4>1, <4>2, <5>1 DEF g
      <4> QED BY <2>1, <4>1, <4>3 DEF Permitted, Permits
    <3>10. Vouched(r)'
      BY <1>a, <2>1, <3>1 DEF Vouched
    <3> QED BY <3>7, <3>8, <3>9, <3>10 DEF AuthInv
  <2> QED BY <1>4, <2>2, <2>3 DEF CheckRule
<1>5. ASSUME NEW r \in Requests, CheckMembers(r) PROVE AuthInv'
  <2> DEFINE i == verified[r] + 1
             g == env[r].rings[i]
  <2>1. /\ stage[r] = "open" /\ MemberTurn(r)
        /\ UNCHANGED <<rules, members, arrival, env, lists, granted>>
    BY <1>5 DEF CheckMembers
  <2>2. CASE MoveTo(r, "failed") /\ UNCHANGED verified
    BY <1>f, <2>1, <2>2
  <2>3. CASE lists[r][i] = members[g] /\ verified' = [verified EXCEPT ![r] = i] /\ UNCHANGED stage
    <3>1. env[r] \in Envelopes /\ Live(r) /\ ~Cleared(r)
      BY <1>t, <2>1 DEF Live, Cleared
    <3>2. /\ Len(granted[r]) \in Nat /\ verified[r] \in Nat /\ Len(granted[r]) = i
          /\ Len(granted[r]) <= Len(env[r].rings) /\ Len(env[r].rings) \in Nat
      BY <1>a, <1>t, <2>1, <3>1, EnvelopeFields DEF AnonTypeOK, MemberTurn, Progress
    <3>3. /\ verified'[r] = i
          /\ \A q \in Requests \ {r} : verified'[q] = verified[q]
      BY <1>t, <2>3 DEF AnonTypeOK
    <3>7. \A q \in Requests \ {r} : Progress(q)' /\ Permitted(q)' /\ Vouched(q)'
      BY <1>b, <2>1, <2>3, <3>3
    <3>8. Progress(r)'
      BY <2>1, <2>3, <3>2, <3>3 DEF Progress, Cleared
    <3>9. Permitted(r)'
      BY <1>a, <2>1, <3>1 DEF Permitted, Permits
    <3>10. Vouched(r)'
      <4>1. /\ \A j \in 1..Len(env[r].rings) : env[r].signers[j] \in lists[r][j]
            /\ \A j \in arrival[r].outside :
                 j \in 1..Len(env[r].rings) /\ env[r].signers[j] \notin members[env[r].rings[j]]
            /\ \A j \in 1..verified[r] : j \notin arrival[r].outside
        BY <1>a, <3>1 DEF Vouched
      <4>2. i \notin arrival[r].outside
        BY <2>3, <3>2, <4>1
      <4>3. \A j \in 1..i : j \in 1..verified[r] \/ j = i
        BY <3>2
      <4> QED BY <2>1, <3>3, <4>1, <4>2, <4>3 DEF Vouched
    <3> QED BY <3>7, <3>8, <3>9, <3>10 DEF AuthInv
  <2> QED BY <1>5, <2>2, <2>3 DEF CheckMembers
<1>6. ASSUME NEW r \in Requests, CheckBudget(r) PROVE AuthInv'
  <2>1. stage[r] = "open" /\ verified[r] = Len(env[r].rings) /\ UNCHANGED anonVars /\ (Pass(r) \/ Fail(r))
    BY <1>6 DEF CheckBudget
  <2>2. CASE Fail(r)
    BY <1>c, <2>1, <2>2 DEF Fail, MoveTo
  <2>3. CASE Pass(r)
    <3>1. /\ stage' = [stage EXCEPT ![r] = "passed"] /\ UNCHANGED env
          /\ UNCHANGED <<rules, members, arrival, lists, granted, verified>>
      BY <2>1, <2>3 DEF Pass, MoveTo, anonVars
    <3>2. stage'[r] = "passed" /\ \A q \in Requests \ {r} : stage'[q] = stage[q]
      BY <1>t, <3>1
    <3>3. \A q \in Requests \ {r} : Progress(q)' /\ Permitted(q)' /\ Vouched(q)'
      BY <1>b, <3>1, <3>2
    <3>4. Live(r) /\ Live(r)'
      BY <2>1, <3>2 DEF Live
    <3>5. Progress(r)'
      BY <1>a, <2>1, <3>1, <3>2, <3>4 DEF Progress
    <3>6. Permitted(r)' /\ Vouched(r)'
      BY <1>a, <3>1, <3>4 DEF Permitted, Permits, Vouched
    <3> QED BY <3>3, <3>5, <3>6 DEF AuthInv
  <2> QED BY <2>1, <2>2, <2>3
<1>7. ASSUME NEW r \in Requests, Fail(r), UNCHANGED anonVars PROVE AuthInv'
  BY <1>c, <1>7 DEF Fail, MoveTo
<1>8. ASSUME NEW p \in Reports, Report(p) PROVE AuthInv'
  <2>1. UNCHANGED <<rules, members, arrival, env, lists, granted, verified, stage>>
    BY <1>8 DEF Report, SubmitReport, VerifyReport, BurnReportNonce, ConsumeUsageNonce, LogUsage,
                AddUsage, FailReport, ledgerVars
  <2> QED BY <1>b, <2>1 DEF AuthInv
<1>9. ASSUME Crash \/ Tick, UNCHANGED anonVars PROVE AuthInv'
  <2>1. /\ UNCHANGED <<rules, members, arrival, env, lists, granted, verified>>
        /\ \A r \in Requests : stage'[r] \in {stage[r], "failed"}
    BY <1>9 DEF Crash, Tick, anonVars
  <2> QED BY <1>b, <2>1 DEF AuthInv
<1>10. CASE UNCHANGED vars
  <2>1. UNCHANGED <<rules, members, arrival, env, lists, granted, verified, stage>>
    BY <1>10 DEF vars
  <2> QED BY <1>b, <2>1 DEF AuthInv
<1> QED BY <1>1, <1>2, <1>3, <1>4, <1>5, <1>6, <1>7, <1>8, <1>9, <1>10 DEF Next, Handle

\* Every receipt of the anonymous path is authorised by every ring its envelope
\* names, at a version in force since the request arrived and by a member since
\* then, whatever the operator changes meanwhile (validate_anon_action).
THEOREM EveryRingAuthorises == Spec => []AuthorisedByEveryRing
<1>1. AnonInv /\ AuthInv => AuthorisedByEveryRing
  <2> SUFFICES ASSUME AnonInv, AuthInv, NEW r \in Requests, stage[r] = "done"
               PROVE  /\ \A i \in 1..Len(env[r].rings) :
                           /\ granted[r][i] \in arrival[r].versions[env[r].rings[i]]..Len(rules[env[r].rings[i]])
                           /\ EvaluateRule(rules[env[r].rings[i]][granted[r][i]], env[r].action, env[r].digest)
                      /\ arrival[r].outside = {}
    BY DEF AuthorisedByEveryRing
  <2>1. Live(r) /\ Cleared(r) /\ env[r] \in Envelopes
    BY DEF Live, Cleared, AnonInv, TypeInv, EnvKnown
  <2>2. /\ verified[r] = Len(env[r].rings) /\ verified[r] <= Len(granted[r]) /\ verified[r] \in Nat
        /\ Len(granted[r]) <= Len(env[r].rings) /\ Len(granted[r]) \in Nat
    BY <2>1 DEF AuthInv, Progress, AnonInv, AnonTypeOK
  <2>3. \A i \in 1..Len(env[r].rings) : Permits(r, env[r].rings[i], granted[r][i])
    BY <2>1, <2>2 DEF AuthInv, Permitted
  <2>4. arrival[r].outside = {}
    BY <2>1, <2>2 DEF AuthInv, Vouched
  <2>5. \A g \in Rings : arrival[r].versions[g] \in Nat /\ Len(rules[g]) \in Nat
    BY DEF AnonInv, AnonTypeOK, Arrivals
  <2>6. \A i \in 1..Len(env[r].rings) : env[r].rings[i] \in Rings
    BY <2>1, EnvelopeFields
  <2> QED BY <2>3, <2>4, <2>5, <2>6 DEF Permits
<1> QED BY <1>1, InitAnonInv, NextAnonInv, InitAuthInv, NextAuthInv, PTL DEF Spec

----------------------------------------------------------------------------
(* Budgets.                                                                *)

\* Usage only grows, so what had been used when a request arrived is a lower
\* bound on what its budget check reads.
BudgetInv ==
  \A r \in Requests :
    /\ Live(r) => arrival[r].used <= usage[Primary(env[r])]
    /\ Cleared(r) => ~BudgetExceeded(arrival[r].used, PrimaryRule(r))

LEMMA InitBudgetInv == Init => BudgetInv
  BY DEF Init, LedgerInit, BudgetInv, Live, Cleared

\* A cleared request holds a version of its primary ring that is kept.
LEMMA PrimaryRuleKept ==
  ASSUME AnonInv, AuthInv, NEW r \in Requests, Cleared(r) \/ (Live(r) /\ verified[r] = Len(env[r].rings))
  PROVE  /\ env[r].rings[1] \in Rings
         /\ granted[r][1] \in 1..Len(rules[env[r].rings[1]])
         /\ PrimaryRule(r) \in Rules
<1>1. Live(r) /\ env[r] \in Envelopes
  BY DEF Cleared, Live, AnonInv, TypeInv, EnvKnown
<1>2. env[r].rings[1] \in Rings /\ Len(env[r].rings) \in Nat \ {0}
  BY <1>1, EnvelopeFields
<1>3. Len(granted[r]) \in Nat \ {0}
  BY <1>1, <1>2 DEF AuthInv, Progress, AnonInv, AnonTypeOK
<1>4. Permits(r, env[r].rings[1], granted[r][1])
  BY <1>1, <1>3 DEF AuthInv, Permitted
<1>5. rules[env[r].rings[1]] \in Seq(Rules)
  BY <1>2 DEF AnonInv, AnonTypeOK
<1> QED BY <1>2, <1>4, <1>5 DEF Permits, PrimaryRule

\* A lower total exceeds no cap that a higher one respects.
LEMMA ExceededGrows ==
  ASSUME NEW u \in Rules, NEW x \in Nat, NEW y \in Nat, x <= y, BudgetExceeded(x, u)
  PROVE  BudgetExceeded(y, u)
  BY AnonAssumption DEF BudgetExceeded

LEMMA NextBudgetInv ==
  ASSUME ~ReadsMayFail, AnonInv, AnonInv', AuthInv, BudgetInv, [Next]_vars PROVE BudgetInv'
<1>t. /\ stage \in [Requests -> Stages] /\ env \in [Requests -> Envelopes \cup {NoEnvelope}]
      /\ AnonTypeOK
      /\ \A r \in Requests : stage[r] # "idle" => env[r] \in Envelopes
  BY DEF AnonInv, TypeInv, TypeOK, EnvKnown
<1>u. \A r \in Requests : Live(r) =>
        /\ Primary(env[r]) \in Pseudonyms /\ usage[Primary(env[r])] \in Nat
        /\ arrival[r].used \in Nat
  BY <1>t, EnvelopeFields DEF Live, AnonTypeOK, Arrivals
<1>i. \A r \in Requests : /\ Live(r) => arrival[r].used <= usage[Primary(env[r])]
                          /\ Cleared(r) => ~BudgetExceeded(arrival[r].used, PrimaryRule(r))
  BY DEF BudgetInv
\* A request that keeps its place, or ends, while usage grows.
<1>b. ASSUME NEW r \in Requests, Live(r)' => Live(r), Cleared(r)' => Cleared(r),
             env'[r] = env[r], arrival'[r].used = arrival[r].used,
             Cleared(r) => PrimaryRule(r)' = PrimaryRule(r),
             \A k \in Pseudonyms : usage[k] <= usage'[k] /\ usage'[k] \in Nat
      PROVE  /\ Live(r)' => arrival'[r].used <= usage'[Primary(env'[r])]
             /\ Cleared(r)' => ~BudgetExceeded(arrival'[r].used, PrimaryRule(r)')
  BY <1>b, <1>i, <1>u DEF Primary
<1>v. UNCHANGED usage => \A k \in Pseudonyms : usage[k] <= usage'[k] /\ usage'[k] \in Nat
  BY <1>t DEF AnonTypeOK
<1>p. \A r \in Requests : UNCHANGED <<rules, env>> /\ granted'[r] = granted[r] => PrimaryRule(r)' = PrimaryRule(r)
  BY DEF PrimaryRule
<1>g. \A r \in Requests : UNCHANGED arrival => arrival'[r].used = arrival[r].used
  OBVIOUS
\* Steps that move one request and leave usage, rules and arrivals alone.
<1>m. ASSUME NEW r \in Requests, NEW s, stage' = [stage EXCEPT ![r] = s],
             UNCHANGED <<rules, env, usage, arrival>>, \A q \in Requests \ {r} : granted'[q] = granted[q],
             Cleared(r) => granted'[r] = granted[r],
             s \in {"passed", "pruned", "burnt", "linked", "done"} => Cleared(r),
             s = "failed" \/ Live(r)
      PROVE  BudgetInv'
  <2>1. stage'[r] = s /\ \A q \in Requests \ {r} : stage'[q] = stage[q]
    BY <1>m, <1>t
  <2>2. \A q \in Requests : (Live(q)' => Live(q)) /\ (Cleared(q)' => Cleared(q))
    BY <1>m, <2>1 DEF Live, Cleared
  <2>3. \A q \in Requests : Cleared(q) => PrimaryRule(q)' = PrimaryRule(q)
    BY <1>m, <1>p
  <2> QED BY <1>b, <1>m, <1>v, <2>2, <2>3 DEF BudgetInv
<1>1. CASE Operate
  <2> PICK g \in Rings : \/ \E u \in Rules : UpsertRing(g, u)
                         \/ \E m \in Members : Subscribe(g, m) \/ RevokeMember(g, m)
    BY <1>1 DEF Operate
  <2>0. UNCHANGED <<stage, env, usage, granted>>
    BY <1>1 DEF Operate, UpsertRing, Subscribe, RevokeMember, ledgerVars
  <2>l. \A r \in Requests : (Live(r)' => Live(r)) /\ (Cleared(r)' => Cleared(r))
    BY <2>0 DEF Live, Cleared
  <2>1. ASSUME NEW u \in Rules, UpsertRing(g, u) PROVE BudgetInv'
    <3>1. rules' = [rules EXCEPT ![g] = Append(@, u)] /\ UNCHANGED arrival
      BY <2>1 DEF UpsertRing
    <3>2. ASSUME NEW r \in Requests, Cleared(r) PROVE PrimaryRule(r)' = PrimaryRule(r)
      <4> DEFINE h == env[r].rings[1]
                 v == granted[r][1]
      <4>1. h \in Rings /\ v \in 1..Len(rules[h]) /\ rules[h] \in Seq(Rules)
        BY <1>t, <3>2, PrimaryRuleKept DEF AnonTypeOK
      <4>2. rules'[h] = IF h = g THEN Append(rules[h], u) ELSE rules[h]
        BY <1>t, <3>1, <4>1 DEF AnonTypeOK
      <4>3. Append(rules[h], u)[v] = rules[h][v]
        BY <4>1
      <4>4. rules'[h][v] = rules[h][v]
        BY <4>2, <4>3
      <4> QED BY <2>0, <4>4 DEF PrimaryRule
    <3> QED BY <1>b, <1>v, <2>0, <2>l, <3>1, <3>2 DEF BudgetInv
  <2>2. ASSUME NEW m \in Members, Subscribe(g, m) PROVE BudgetInv'
    <3>1. \A r \in Requests : arrival'[r].used = arrival[r].used
      BY <1>t, <2>2 DEF Subscribe, AnonTypeOK, Arrivals
    <3>2. UNCHANGED rules
      BY <2>2 DEF Subscribe
    <3> QED BY <1>b, <1>p, <1>v, <2>0, <2>l, <3>1, <3>2 DEF BudgetInv
  <2>3. ASSUME NEW m \in Members, RevokeMember(g, m) PROVE BudgetInv'
    <3>2. UNCHANGED <<rules, arrival>>
      BY <2>3 DEF RevokeMember
    <3> QED BY <1>b, <1>p, <1>v, <2>0, <2>l, <3>2 DEF BudgetInv
  <2> QED BY <2>1, <2>2, <2>3
<1>2. CASE \E r \in Requests, e \in Envelopes : \E S \in [1..Len(e.rings) -> SUBSET Members] : SubmitAnon(r, e, S)
  <2> PICK r, e, S : r \in Requests /\ e \in Envelopes /\ SubmitAnon(r, e, S)
    BY <1>2
  <2> DEFINE new == [versions |-> [g \in Rings |-> Len(rules[g])], used |-> usage[Primary(e)],
                     outside |-> {i \in 1..Len(e.rings) : e.signers[i] \notin members[e.rings[i]]}]
  <2>f. new.used = usage[Primary(e)]
    OBVIOUS
  <2>1. /\ stage' = [stage EXCEPT ![r] = "received"]
        /\ env' = [env EXCEPT ![r] = e]
        /\ arrival' = [arrival EXCEPT ![r] = new]
        /\ UNCHANGED <<rules, usage, granted>>
    BY DEF SubmitAnon, Receive, MoveTo
  <2> HIDE DEF new
  <2>2. /\ stage'[r] = "received" /\ env'[r] = e /\ arrival'[r] = new
        /\ \A q \in Requests \ {r} : stage'[q] = stage[q] /\ env'[q] = env[q] /\ arrival'[q] = arrival[q]
    BY <1>t, <2>1 DEF AnonTypeOK
  <2>3. \A q \in Requests \ {r} : (Live(q)' => Live(q)) /\ (Cleared(q)' => Cleared(q))
    BY <2>2 DEF Live, Cleared
  <2>4. \A q \in Requests \ {r} : PrimaryRule(q)' = PrimaryRule(q)
    BY <2>1, <2>2 DEF PrimaryRule
  <2>5. \A q \in Requests \ {r} :
          /\ Live(q)' => arrival'[q].used <= usage'[Primary(env'[q])]
          /\ Cleared(q)' => ~BudgetExceeded(arrival'[q].used, PrimaryRule(q)')
    BY <1>b, <1>v, <2>1, <2>2, <2>3, <2>4
  <2>6. arrival'[r].used <= usage'[Primary(env'[r])] /\ ~Cleared(r)'
    <3>1. usage[Primary(e)] \in Nat
      BY <1>t, EnvelopeFields DEF AnonTypeOK
    <3> QED BY <2>1, <2>2, <2>f, <3>1 DEF Cleared
  <2> QED BY <2>5, <2>6 DEF BudgetInv
<1>3. ASSUME NEW r \in Requests, Acquire(r) \/ Commit(r), UNCHANGED anonVars PROVE BudgetInv'
  <2>0. UNCHANGED <<rules, usage, arrival, granted>>
    BY <1>3 DEF anonVars
  <2>1. CASE Acquire(r)
    <3>1. Live(r)
      BY <2>1 DEF Acquire, Live
    <3> QED BY <1>m, <2>0, <2>1, <3>1 DEF Acquire, MoveTo
  <2>2. CASE Commit(r)
    <3>1. /\ Cleared(r) /\ Live(r) /\ UNCHANGED env
          /\ \E s \in {"pruned", "burnt", "linked", "done", "failed"} : stage' = [stage EXCEPT ![r] = s]
      BY <2>2 DEF Commit, PruneNonces, InsertNonce, NextChainPosition, WriteReceipt, MoveTo, Cleared, Live
    <3> QED BY <1>m, <2>0, <3>1
  <2> QED BY <1>3, <2>1, <2>2
<1>s. ASSUME UNCHANGED <<stage, rules, env, usage, arrival>>, NEW r \in Requests, ~Cleared(r),
             \A q \in Requests \ {r} : granted'[q] = granted[q]
      PROVE  BudgetInv'
  <2>1. \A q \in Requests : (Live(q)' => Live(q)) /\ (Cleared(q)' => Cleared(q))
    BY <1>s DEF Live, Cleared
  <2>2. \A q \in Requests : Cleared(q) => PrimaryRule(q)' = PrimaryRule(q)
    BY <1>p, <1>s
  <2> QED BY <1>b, <1>s, <1>v, <2>1, <2>2 DEF BudgetInv
<1>4. ASSUME NEW r \in Requests, CheckRule(r) PROVE BudgetInv'
  <2>1. /\ UNCHANGED <<rules, env, usage, arrival>> /\ ~Cleared(r)
        /\ \A q \in Requests \ {r} : granted'[q] = granted[q]
    BY <1>4, <1>t DEF CheckRule, AnonTypeOK, Cleared
  <2>2. UNCHANGED stage \/ stage' = [stage EXCEPT ![r] = "failed"]
    BY <1>4 DEF CheckRule, MoveTo
  <2> QED BY <1>m, <1>s, <2>1, <2>2
<1>5. ASSUME NEW r \in Requests, CheckMembers(r) PROVE BudgetInv'
  <2>1. UNCHANGED <<rules, env, usage, arrival, granted>> /\ ~Cleared(r)
    BY <1>5 DEF CheckMembers, Cleared
  <2>2. UNCHANGED stage \/ stage' = [stage EXCEPT ![r] = "failed"]
    BY <1>5 DEF CheckMembers, MoveTo
  <2> QED BY <1>m, <1>s, <2>1, <2>2
<1>6. ASSUME NEW r \in Requests, CheckBudget(r) PROVE BudgetInv'
  <2>0. UNCHANGED <<rules, usage, arrival, granted>> /\ stage[r] = "open" /\ verified[r] = Len(env[r].rings)
    BY <1>6 DEF CheckBudget, anonVars
  <2>1. Live(r)
    BY <2>0 DEF Live
  <2>2. PICK total \in GetUsage(Primary(env[r])) :
          IF BudgetExceeded(total, PrimaryRule(r)) THEN Fail(r) ELSE Pass(r)
    BY <1>6 DEF CheckBudget
  <2>3. total = usage[Primary(env[r])]
    BY <2>2 DEF GetUsage
  <2>4. CASE BudgetExceeded(total, PrimaryRule(r))
    BY <1>m, <2>0, <2>1, <2>2, <2>4 DEF Fail, MoveTo
  <2>5. CASE ~BudgetExceeded(total, PrimaryRule(r))
    <3>1. stage' = [stage EXCEPT ![r] = "passed"] /\ UNCHANGED env
      BY <2>2, <2>5 DEF Pass, MoveTo
    <3>2. stage'[r] = "passed" /\ \A q \in Requests \ {r} : stage'[q] = stage[q]
      BY <1>t, <3>1
    <3>3. ~BudgetExceeded(arrival[r].used, PrimaryRule(r))
      BY <1>i, <1>u, <2>0, <2>1, <2>3, <2>5, PrimaryRuleKept, ExceededGrows
    <3>4. \A q \in Requests : PrimaryRule(q)' = PrimaryRule(q)
      BY <1>p, <2>0, <3>1
    <3>5. \A q \in Requests \ {r} : (Live(q)' => Live(q)) /\ (Cleared(q)' => Cleared(q))
      BY <3>2 DEF Live, Cleared
    <3> QED BY <1>b, <1>i, <1>v, <2>0, <2>1, <3>1, <3>3, <3>4, <3>5 DEF BudgetInv
  <2> QED BY <2>4, <2>5
<1>7. ASSUME NEW r \in Requests, Fail(r), UNCHANGED anonVars PROVE BudgetInv'
  BY <1>m, <1>7 DEF Fail, MoveTo, anonVars
<1>8. ASSUME NEW p \in Reports, Report(p) PROVE BudgetInv'
  <2>1. UNCHANGED <<stage, rules, env, arrival, granted>>
    BY <1>8 DEF Report, SubmitReport, VerifyReport, BurnReportNonce, ConsumeUsageNonce, LogUsage,
                AddUsage, FailReport, ledgerVars
  <2>2. \A k \in Pseudonyms : usage[k] <= usage'[k] /\ usage'[k] \in Nat
    <3>1. CASE UNCHANGED usage
      BY <1>v, <3>1
    <3>2. CASE AddUsage(p)
      <4>1. report[p].body \in ReportBodies
        BY <1>t, <3>2 DEF AddUsage, AnonTypeOK
      <4>2. report[p].body.amount \in Nat
        BY <4>1, AnonAssumption
      <4> QED BY <1>t, <3>2, <4>2 DEF AddUsage, AnonTypeOK
    <3> QED BY <1>8, <3>1, <3>2
            DEF Report, SubmitReport, VerifyReport, BurnReportNonce, LogUsage, FailReport
  <2>3. \A q \in Requests : (Live(q)' => Live(q)) /\ (Cleared(q)' => Cleared(q))
    BY <2>1 DEF Live, Cleared
  <2> QED BY <1>b, <1>p, <2>1, <2>2, <2>3 DEF BudgetInv
<1>9. ASSUME ((Crash \/ Tick) /\ UNCHANGED anonVars) \/ UNCHANGED vars PROVE BudgetInv'
  <2>1. /\ UNCHANGED <<rules, env, usage, arrival, granted>>
        /\ \A r \in Requests : stage'[r] \in {stage[r], "failed"}
    BY <1>9 DEF Crash, Tick, anonVars, vars
  <2>2. \A q \in Requests : (Live(q)' => Live(q)) /\ (Cleared(q)' => Cleared(q))
    BY <2>1 DEF Live, Cleared
  <2> QED BY <1>b, <1>p, <1>v, <2>1, <2>2 DEF BudgetInv
<1> QED BY <1>1, <1>2, <1>3, <1>4, <1>5, <1>6, <1>7, <1>8, <1>9 DEF Next, Handle

\* Unless a lookup fails, whose error counts as no usage, no request obtains a
\* receipt under a cap its pseudonym had exceeded when it arrived.
THEOREM BudgetsGate ==
  ASSUME ~ReadsMayFail PROVE Spec => []BudgetGatesNewActions
<1>1. BudgetInv => BudgetGatesNewActions
  BY DEF BudgetInv, BudgetGatesNewActions, Cleared
<1>2. AnonInv /\ AnonInv' /\ AuthInv /\ BudgetInv /\ [Next]_vars => BudgetInv'
  BY NextBudgetInv
<1> QED BY <1>1, <1>2, InitAnonInv, NextAnonInv, InitAuthInv, NextAuthInv, InitBudgetInv, PTL DEF Spec

----------------------------------------------------------------------------
(* Usage reports.                                                          *)

Claimed(p) == report[p].stage \in {"burnt", "logged", "done"}
Lapsed(p) == report[p].now + UsageWindow < clock

\* The key of a report that claimed one is in the table until it lapses, and of
\* two reports that claimed one key one has lapsed.
BilledInv ==
  /\ \A p \in Reports : Claimed(p) =>
       Lapsed(p) \/ \E n \in nonces : n.nonce = report[p].body.nonce /\ n.exp = report[p].now + UsageWindow
  /\ \A p, q \in Reports :
       p # q /\ Claimed(p) /\ Claimed(q) /\ report[p].body.nonce = report[q].body.nonce =>
         Lapsed(p) \/ Lapsed(q)

LEMMA InitBilledInv == Init => BilledInv
  BY DEF Init, BilledInv, Claimed

\* The table only loses keys that have lapsed; a claimed key was not there.
LEMMA NextBilledInv ==
  AnonInv /\ AnonInv' /\ SingleUseInv /\ BilledInv /\ [Next]_vars => BilledInv'
<1> SUFFICES ASSUME AnonInv, AnonInv', SingleUseInv, BilledInv, [Next]_vars PROVE BilledInv'
  OBVIOUS
<1>t. /\ AnonTypeOK /\ clock \in Nat /\ UsageWindow \in Nat /\ \A p \in Reports : report[p].now \in Nat
      /\ nonces \subseteq [nonce: Nonces, exp: Nat]
  BY LedgerAssumption DEF AnonInv, AnonTypeOK, TypeInv, TypeOK
<1>i. /\ \A p \in Reports : Claimed(p) =>
           Lapsed(p) \/ \E n \in nonces : n.nonce = report[p].body.nonce /\ n.exp = report[p].now + UsageWindow
      /\ \A p, q \in Reports :
           p # q /\ Claimed(p) /\ Claimed(q) /\ report[p].body.nonce = report[q].body.nonce =>
             Lapsed(p) \/ Lapsed(q)
  BY DEF BilledInv
\* Steps in which no report claims a key and only lapsed keys leave the table.
<1>q. ASSUME \A p \in Reports : /\ Claimed(p)' => Claimed(p)
                                /\ report'[p].body.nonce = report[p].body.nonce \/ ~Claimed(p)'
                                /\ report'[p].now = report[p].now \/ ~Claimed(p)',
             clock <= clock', clock' \in Nat,
             \A n \in nonces : n \in nonces' \/ n.exp < clock
      PROVE  BilledInv'
  <2>1. \A p \in Reports : Claimed(p)' /\ Lapsed(p) => Lapsed(p)'
    BY <1>q, <1>t DEF Lapsed
  <2>2. ASSUME NEW p \in Reports, Claimed(p)'
        PROVE  Lapsed(p)' \/ \E n \in nonces' : n.nonce = report'[p].body.nonce /\ n.exp = report'[p].now + UsageWindow
    <3>1. Claimed(p) /\ report'[p].body.nonce = report[p].body.nonce /\ report'[p].now = report[p].now
      BY <1>q, <2>2
    <3>2. CASE Lapsed(p)
      BY <2>1, <2>2, <3>2
    <3>3. ASSUME NEW n \in nonces, n.nonce = report[p].body.nonce, n.exp = report[p].now + UsageWindow
          PROVE  Lapsed(p) \/ n \in nonces'
      BY <1>q, <3>3 DEF Lapsed
    <3> QED BY <1>i, <2>1, <2>2, <3>1, <3>2, <3>3
  <2>3. ASSUME NEW p \in Reports, NEW r \in Reports, p # r, Claimed(p)', Claimed(r)',
               report'[p].body.nonce = report'[r].body.nonce
        PROVE  Lapsed(p)' \/ Lapsed(r)'
    BY <1>i, <1>q, <2>1, <2>3
  <2> QED BY <2>2, <2>3 DEF BilledInv
<1>c. clock <= clock' /\ clock' \in Nat
  <2>1. [LedgerNext]_ledgerVars
    BY AnonStepImplements
  <2> QED BY <1>t, <2>1
          DEF LedgerNext, ledgerVars, Receive, Acquire, Pass, Commit, PruneNonces, InsertNonce,
              NextChainPosition, WriteReceipt, Fail, ConsumeUsageNonce, Crash, Tick
<1>r. ASSUME UNCHANGED report, \A n \in nonces : n \in nonces' \/ n.exp < clock PROVE BilledInv'
  BY <1>c, <1>q, <1>r DEF Claimed
<1>1. CASE Operate
  BY <1>1, <1>r DEF Operate, UpsertRing, Subscribe, RevokeMember, ledgerVars
<1>2. CASE \E r \in Requests, e \in Envelopes : \E S \in [1..Len(e.rings) -> SUBSET Members] : SubmitAnon(r, e, S)
  BY <1>2, <1>r DEF SubmitAnon, Receive
<1>3. ASSUME NEW r \in Requests, Handle(r) PROVE BilledInv'
  <2>1. CASE PruneNonces(r) /\ UNCHANGED anonVars
    <3>1. stamp[r] <= clock /\ stamp[r] \in Nat
      BY DEF SingleUseInv, StampPast, TypeInv, TypeOK
    <3>2. \A n \in nonces : n.exp \in Nat
      BY <1>t
    <3>3. \A n \in nonces : n \in nonces' \/ n.exp < clock
      BY <1>t, <2>1, <3>1, <3>2 DEF PruneNonces
    <3> QED BY <1>r, <2>1, <3>3 DEF anonVars
  <2>2. CASE ~PruneNonces(r)
    <3>1. UNCHANGED report /\ nonces \subseteq nonces'
      BY <1>3, <2>2 DEF Handle, Acquire, Commit, InsertNonce, NextChainPosition, WriteReceipt, CheckRule,
                        CheckMembers, CheckBudget, Pass, Fail, anonVars
    <3> QED BY <1>r, <3>1
  <2> QED BY <1>3, <2>1, <2>2 DEF Handle, Acquire, CheckRule, CheckMembers, CheckBudget, Commit, PruneNonces
<1>4. CASE \E r \in Requests : Fail(r) /\ UNCHANGED anonVars
  BY <1>4, <1>r DEF Fail, anonVars
<1>5. ASSUME NEW p \in Reports, Report(p) PROVE BilledInv'
  <2>a. ASSUME NEW s \in ReportStages, Advance(p, s)
        PROVE  /\ report'[p].stage = s /\ report'[p].body = report[p].body /\ report'[p].now = report[p].now
               /\ \A q \in Reports \ {p} : report'[q] = report[q]
    BY <1>t, <2>a DEF Advance, AnonTypeOK
  <2>s. ReportStages = {"idle", "received", "verified", "burnt", "logged", "done", "failed"}
    BY DEF ReportStages
  <2>1. CASE \E b \in ReportBodies : SubmitReport(p, b)
    <3>1. /\ report'[p].stage = "received" /\ \A q \in Reports \ {p} : report'[q] = report[q]
          /\ UNCHANGED nonces
      BY <1>t, <2>1 DEF SubmitReport, AnonTypeOK, ledgerVars
    <3> QED BY <1>c, <1>q, <3>1 DEF Claimed
  <2>2. CASE VerifyReport(p) \/ FailReport(p)
    <3>1. /\ UNCHANGED nonces /\ \E s \in {"verified", "failed"} : Advance(p, s)
      BY <2>2 DEF VerifyReport, FailReport, ledgerVars
    <3> QED BY <1>c, <1>q, <2>a, <2>s, <3>1 DEF Claimed
  <2>3. CASE LogUsage(p) \/ AddUsage(p)
    <3>1. UNCHANGED nonces /\ Claimed(p) /\ \E s \in {"logged", "done"} : Advance(p, s)
      BY <2>3 DEF LogUsage, AddUsage, ledgerVars, Claimed
    <3> QED BY <1>c, <1>q, <2>a, <2>s, <3>1 DEF Claimed
  <2>4. CASE BurnReportNonce(p) /\ Advance(p, "failed") /\ UNCHANGED ledgerVars
    BY <1>c, <1>q, <2>a, <2>s, <2>4 DEF Claimed, ledgerVars
  <2>5. CASE ConsumeUsageNonce(report[p].body.nonce, report[p].now) /\ Advance(p, "burnt")
    <3> DEFINE new == [nonce |-> report[p].body.nonce, exp |-> report[p].now + UsageWindow]
    <3>1. /\ nonces' = nonces \cup {new} /\ ~\E n \in nonces : n.nonce = report[p].body.nonce
          /\ UNCHANGED clock
      BY <2>5 DEF ConsumeUsageNonce
    <3>2. new.nonce = report[p].body.nonce /\ new.exp = report[p].now + UsageWindow
      OBVIOUS
    <3> HIDE DEF new
    <3>3. /\ report'[p].body = report[p].body /\ report'[p].now = report[p].now
          /\ \A q \in Reports \ {p} : report'[q] = report[q] /\ (Claimed(q)' <=> Claimed(q))
          /\ \A q \in Reports : Lapsed(q)' <=> Lapsed(q)
      BY <2>5, <2>a, <2>s, <3>1 DEF Claimed, Lapsed
    <3>4. \A q \in Reports \ {p} : Claimed(q) /\ report[q].body.nonce = report[p].body.nonce => Lapsed(q)
      BY <1>i, <3>1
    <3>5. ASSUME NEW q \in Reports, Claimed(q)'
          PROVE  Lapsed(q)' \/ \E n \in nonces' : n.nonce = report'[q].body.nonce /\ n.exp = report'[q].now + UsageWindow
      <4>1. CASE q = p
        BY <3>1, <3>2, <3>3, <4>1
      <4>2. CASE q # p
        BY <1>i, <3>1, <3>3, <3>5, <4>2
      <4> QED BY <4>1, <4>2
    <3>6. ASSUME NEW q \in Reports, NEW r \in Reports, q # r, Claimed(q)', Claimed(r)',
                 report'[q].body.nonce = report'[r].body.nonce
          PROVE  Lapsed(q)' \/ Lapsed(r)'
      <4>1. CASE q = p
        BY <3>3, <3>4, <3>6, <4>1
      <4>2. CASE r = p
        BY <3>3, <3>4, <3>6, <4>2
      <4>3. CASE q # p /\ r # p
        BY <1>i, <3>3, <3>6, <4>3
      <4> QED BY <4>1, <4>2, <4>3
    <3> QED BY <3>5, <3>6 DEF BilledInv
  <2> QED BY <1>5, <2>1, <2>2, <2>3, <2>4, <2>5 DEF Report, BurnReportNonce
<1>6. CASE (Crash \/ Tick) /\ UNCHANGED anonVars
  BY <1>6, <1>r DEF Crash, Tick, anonVars
<1>7. CASE UNCHANGED vars
  BY <1>7, <1>r DEF vars
<1> QED BY <1>1, <1>2, <1>3, <1>4, <1>5, <1>6, <1>7 DEF Next

\* A signed report is billed at most once while its key is kept, with any number
\* of copies in flight (verify_usage_report, record_usage_handler).
THEOREM BilledOnce == Spec => []ReportBilledOnce
<1>1. BilledInv => ReportBilledOnce
  BY DEF BilledInv, ReportBilledOnce, Claimed, Lapsed
<1>2. Init => SingleUseInv
  BY InitSingleUse DEF Init
<1>3. AnonInv /\ SingleUseInv /\ [Next]_vars => SingleUseInv'
  BY AnonStepImplements, NextSingleUse
<1> QED BY <1>1, <1>2, <1>3, InitAnonInv, NextAnonInv, InitBilledInv, NextBilledInv, PTL DEF Spec

----------------------------------------------------------------------------
(* The usage ledger.                                                       *)

Amount == [p \in Reports |-> report[p].body.amount]
Reached(S, k) == {p \in Reports : report[p].stage \in S /\ Billed(p) = k}
Logged == {"logged", "done"}

\* What is billed to a pseudonym is what its finished reports add up to, and
\* its log holds at least what its logged reports add up to.
UsageInv ==
  /\ usageLog \in [Pseudonyms -> Nat]
  /\ \A k \in Pseudonyms :
       /\ usage[k] = SumFunctionOnSet(Amount, Reached({"done"}, k))
       /\ SumFunctionOnSet(Amount, Reached(Logged, k)) <= usageLog[k]

\* The reports billed to a pseudonym are finitely many, with natural amounts.
LEMMA ReachedFinite ==
  ASSUME AnonInv, NEW S, S \subseteq Logged, NEW k
  PROVE  /\ IsFiniteSet(Reached(S, k))
         /\ \A p \in Reached(S, k) : Amount[p] \in Nat
         /\ SumFunctionOnSet(Amount, Reached(S, k)) \in Nat
<1>1. Reached(S, k) \subseteq Reports
  BY DEF Reached
<1>2. IsFiniteSet(Reached(S, k))
  BY <1>1, AnonAssumption, FS_Subset
<1>3. ASSUME NEW p \in Reached(S, k) PROVE Amount[p] \in Nat
  <2>1. p \in Reports /\ report[p].body \in ReportBodies
    BY DEF Reached, Logged, AnonInv, AnonTypeOK
  <2> QED BY <2>1, AnonAssumption DEF Amount
<1> QED BY <1>2, <1>3, SumNat

LEMMA InitUsageInv == Init => UsageInv
<1> SUFFICES ASSUME Init PROVE UsageInv
  OBVIOUS
<1>1. \A k \in Pseudonyms : Reached({"done"}, k) = {} /\ Reached(Logged, k) = {}
  BY DEF Init, Reached, Logged
<1>2. \A S : S = {} => SumFunctionOnSet(Amount, S) = 0
  BY SumEmpty
<1>3. usageLog \in [Pseudonyms -> Nat] /\ \A k \in Pseudonyms : usage[k] = 0 /\ usageLog[k] = 0
  BY DEF Init
<1> QED BY <1>1, <1>2, <1>3 DEF UsageInv

\* Only the two statements of record_usage, and a report that dies between them,
\* change what is added up.
LEMMA NextUsageInv == AnonInv /\ AnonInv' /\ UsageInv /\ [Next]_vars => UsageInv'
<1> SUFFICES ASSUME AnonInv, AnonInv', UsageInv, [Next]_vars PROVE UsageInv'
  OBVIOUS
<1>t. AnonTypeOK /\ usage \in [Pseudonyms -> Nat] /\ usageLog \in [Pseudonyms -> Nat]
  BY DEF AnonInv, AnonTypeOK, UsageInv
<1>s. \A r \in Requests : stage[r] # "idle" => env'[r] = env[r]
  BY AnonStepImplements, ReceivedStays DEF AnonInv
\* A report past its nonce keeps its amount and its pseudonym.
<1>k. ASSUME NEW p \in Reports, report[p].stage \in {"burnt", "logged", "done"},
             report'[p].body = report[p].body
      PROVE  Billed(p)' = Billed(p) /\ Billed(p) \in Pseudonyms /\ Amount'[p] = Amount[p]
             /\ Amount[p] = report[p].body.amount /\ Amount[p] \in Nat
  <2>1. report[p].body \in ReportBodies /\ stage[report[p].body.receipt] # "idle"
    BY <1>t, <1>k DEF AnonTypeOK
  <2>2. report[p].body.receipt \in Requests /\ report[p].body.amount \in Nat
    BY <2>1, AnonAssumption
  <2>3. env[report[p].body.receipt] \in Envelopes
    BY <2>1, <2>2 DEF AnonInv, TypeInv, EnvKnown
  <2> QED BY <1>k, <1>s, <2>1, <2>2, <2>3, EnvelopeFields DEF Billed, Amount
\* Steps after which the same reports are billed and logged.
<1>q. ASSUME \A p \in Reports :
               /\ report'[p].stage = "done" <=> report[p].stage = "done"
               /\ report'[p].stage \in Logged <=> report[p].stage \in Logged
               /\ report[p].stage \in Logged => report'[p].body = report[p].body,
             UNCHANGED <<usage, usageLog>>
      PROVE  UsageInv'
  <2>1. \A p \in Reports : report[p].stage \in Logged => Billed(p)' = Billed(p) /\ Amount'[p] = Amount[p]
    BY <1>k, <1>q DEF Logged
  <2>2. \A k \in Pseudonyms : Reached({"done"}, k)' = Reached({"done"}, k)
                              /\ Reached(Logged, k)' = Reached(Logged, k)
    BY <1>q, <2>1 DEF Reached, Logged
  <2>3. ASSUME NEW k \in Pseudonyms, NEW S, S \subseteq Logged
        PROVE  SumFunctionOnSet(Amount', Reached(S, k)) = SumFunctionOnSet(Amount, Reached(S, k))
    <3>1. \A p \in Reached(S, k) : Amount'[p] = Amount[p]
      BY <2>1, <2>3 DEF Reached
    <3> QED BY <2>3, <3>1, ReachedFinite, SumEqual
  <2>4. {"done"} \subseteq Logged /\ Logged \subseteq Logged
    BY DEF Logged
  <2> QED BY <1>q, <2>2, <2>3, <2>4 DEF UsageInv
<1>r. ASSUME UNCHANGED <<report, usage, usageLog>> PROVE UsageInv'
  BY <1>q, <1>r
<1>1. CASE Operate
  BY <1>1, <1>r DEF Operate, UpsertRing, Subscribe, RevokeMember
<1>2. CASE \E r \in Requests, e \in Envelopes : \E S \in [1..Len(e.rings) -> SUBSET Members] : SubmitAnon(r, e, S)
  BY <1>2, <1>r DEF SubmitAnon
<1>3. CASE \E r \in Requests : Handle(r)
  BY <1>3, <1>r DEF Handle, CheckRule, CheckMembers, CheckBudget, anonVars
<1>4. CASE \E r \in Requests : Fail(r) /\ UNCHANGED anonVars
  BY <1>4, <1>r DEF anonVars
<1>5. ASSUME NEW p \in Reports, Report(p) PROVE UsageInv'
  <2>a. ASSUME NEW s \in ReportStages, Advance(p, s)
        PROVE  /\ report'[p].stage = s /\ report'[p].body = report[p].body
               /\ \A q \in Reports \ {p} : report'[q] = report[q]
    BY <1>t, <2>a DEF Advance, AnonTypeOK
  <2>s. ReportStages = {"idle", "received", "verified", "burnt", "logged", "done", "failed"}
    BY DEF ReportStages
  <2>1. CASE \E b \in ReportBodies : SubmitReport(p, b)
    <3>1. /\ report'[p].stage = "received" /\ \A q \in Reports \ {p} : report'[q] = report[q]
          /\ report[p].stage = "idle" /\ UNCHANGED <<usage, usageLog>>
      BY <1>t, <2>1 DEF SubmitReport, AnonTypeOK
    <3> QED BY <1>q, <3>1 DEF Logged
  <2>2. CASE VerifyReport(p) \/ BurnReportNonce(p) \/ (FailReport(p) /\ report[p].stage # "logged")
    <3>1. /\ \E s \in {"verified", "burnt", "failed"} : Advance(p, s)
          /\ report[p].stage \in {"received", "verified", "burnt"} /\ UNCHANGED <<usage, usageLog>>
      BY <2>2 DEF VerifyReport, BurnReportNonce, FailReport
    <3> QED BY <1>q, <2>a, <2>s, <3>1 DEF Logged
\* In the remaining cases the reports other than p stay what and where they are.
  <2>b. ASSUME NEW s \in {"logged", "done", "failed"}, Advance(p, s),
               report[p].stage \in {"burnt", "logged"}
        PROVE  /\ Billed(p)' = Billed(p) /\ Billed(p) \in Pseudonyms
               /\ Amount[p] = report[p].body.amount /\ Amount[p] \in Nat
               /\ report'[p].stage = s
               /\ \A q \in Reports \ {p} : report'[q] = report[q]
               /\ \A q \in Reports : (report[q].stage \in Logged \/ q = p) =>
                    Billed(q)' = Billed(q) /\ Amount'[q] = Amount[q]
    <3>1. /\ report'[p].stage = s /\ report'[p].body = report[p].body
          /\ \A q \in Reports \ {p} : report'[q] = report[q]
      BY <2>a, <2>b, <2>s
    <3> QED BY <1>k, <2>b, <3>1 DEF Logged
  <2>n. ASSUME NEW S, S \subseteq Logged, NEW k \in Pseudonyms
        PROVE  /\ IsFiniteSet(Reached(S, k))
               /\ SumFunctionOnSet(Amount, Reached(S, k)) \in Nat
               /\ \A q \in Reached(S, k) : Amount[q] \in Nat
    BY <2>n, ReachedFinite
  <2>l. {"done"} \subseteq Logged /\ Logged \subseteq Logged
    BY DEF Logged
  <2>e. ASSUME NEW s \in {"logged", "done", "failed"}, Advance(p, s),
               report[p].stage \in {"burnt", "logged"}, NEW S, S \subseteq Logged, NEW k \in Pseudonyms
        PROVE  SumFunctionOnSet(Amount', Reached(S, k)) = SumFunctionOnSet(Amount, Reached(S, k))
    <3>1. \A q \in Reached(S, k) : Amount'[q] = Amount[q]
      BY <2>b, <2>e DEF Reached
    <3> QED BY <2>e, <2>n, <3>1, SumEqual
  <2>3. CASE LogUsage(p)
    <3>1. Advance(p, "logged") /\ report[p].stage = "burnt" /\ UNCHANGED usage
          /\ usageLog' = [usageLog EXCEPT ![Billed(p)] = @ + report[p].body.amount]
      BY <2>3 DEF LogUsage
    <3>2. \A k \in Pseudonyms : Reached({"done"}, k)' = Reached({"done"}, k)
      BY <2>b, <3>1 DEF Reached, Logged
    <3>3. \A k \in Pseudonyms : Reached(Logged, k)' =
            IF k = Billed(p) THEN Reached(Logged, k) \cup {p} ELSE Reached(Logged, k)
      BY <2>b, <3>1 DEF Reached, Logged
    <3>4. p \notin Reached(Logged, Billed(p))
      BY <3>1 DEF Reached, Logged
    <3>5. \A k \in Pseudonyms : SumFunctionOnSet(Amount', Reached({"done"}, k)) = SumFunctionOnSet(Amount, Reached({"done"}, k))
      BY <2>e, <2>l, <3>1
    <3>6. ASSUME NEW k \in Pseudonyms
          PROVE  SumFunctionOnSet(Amount', Reached(Logged, k)') <= usageLog'[k]
      <4>1. CASE k = Billed(p)
        <5>1. SumFunctionOnSet(Amount', Reached(Logged, k)) = SumFunctionOnSet(Amount, Reached(Logged, k))
          BY <2>e, <2>l, <3>1
        <5>2. \A q \in Reached(Logged, k) \cup {p} : Amount'[q] \in Nat
          BY <2>b, <2>n, <2>l, <3>1 DEF Reached
        <5>3. SumFunctionOnSet(Amount', Reached(Logged, k) \cup {p})
                = Amount'[p] + SumFunctionOnSet(Amount', Reached(Logged, k))
          BY <2>n, <2>l, <3>4, <4>1, <5>2, SumInsert
        <5>4. Amount'[p] = report[p].body.amount /\ report[p].body.amount \in Nat
          BY <2>b, <3>1
        <5>5. usageLog'[k] = usageLog[k] + report[p].body.amount
          BY <1>t, <3>1, <4>1
        <5>6. SumFunctionOnSet(Amount, Reached(Logged, k)) <= usageLog[k]
          BY DEF UsageInv
        <5>7. SumFunctionOnSet(Amount, Reached(Logged, k)) \in Nat /\ usageLog[k] \in Nat
          BY <1>t, <2>n, <2>l
        <5>8. Reached(Logged, k)' = Reached(Logged, k) \cup {p}
          BY <3>3, <4>1
        <5> QED BY <5>1, <5>3, <5>4, <5>5, <5>6, <5>7, <5>8
      <4>2. CASE k # Billed(p)
        <5>1. SumFunctionOnSet(Amount', Reached(Logged, k)) = SumFunctionOnSet(Amount, Reached(Logged, k))
          BY <2>e, <2>l, <3>1
        <5>2. usageLog'[k] = usageLog[k] /\ Reached(Logged, k)' = Reached(Logged, k)
          BY <1>t, <3>1, <3>3, <4>2
        <5> QED BY <5>1, <5>2 DEF UsageInv
      <4> QED BY <4>1, <4>2
    <3>7. usageLog' \in [Pseudonyms -> Nat]
      BY <1>t, <2>b, <3>1
    <3> QED BY <3>1, <3>2, <3>5, <3>6, <3>7 DEF UsageInv
  <2>4. CASE AddUsage(p)
    <3>1. Advance(p, "done") /\ report[p].stage = "logged" /\ UNCHANGED usageLog
          /\ usage' = [usage EXCEPT ![Billed(p)] = @ + report[p].body.amount]
      BY <2>4 DEF AddUsage
    <3>2. \A k \in Pseudonyms : Reached(Logged, k)' = Reached(Logged, k)
      BY <2>b, <3>1 DEF Reached, Logged
    <3>3. \A k \in Pseudonyms : Reached({"done"}, k)' =
            IF k = Billed(p) THEN Reached({"done"}, k) \cup {p} ELSE Reached({"done"}, k)
      BY <2>b, <3>1 DEF Reached, Logged
    <3>4. p \notin Reached({"done"}, Billed(p))
      BY <3>1 DEF Reached
    <3>5. \A k \in Pseudonyms : SumFunctionOnSet(Amount', Reached(Logged, k)) = SumFunctionOnSet(Amount, Reached(Logged, k))
      BY <2>e, <2>l, <3>1
    <3>6. ASSUME NEW k \in Pseudonyms
          PROVE  usage'[k] = SumFunctionOnSet(Amount', Reached({"done"}, k)')
      <4>0. usage[k] = SumFunctionOnSet(Amount, Reached({"done"}, k))
        BY DEF UsageInv
      <4>3. SumFunctionOnSet(Amount', Reached({"done"}, k)) = SumFunctionOnSet(Amount, Reached({"done"}, k))
        BY <2>e, <2>l, <3>1
      <4>1. CASE k = Billed(p)
        <5>2. \A q \in Reached({"done"}, k) \cup {p} : Amount'[q] \in Nat
          BY <2>b, <2>n, <2>l, <3>1 DEF Reached, Logged
        <5>3. SumFunctionOnSet(Amount', Reached({"done"}, k) \cup {p})
                = Amount'[p] + SumFunctionOnSet(Amount', Reached({"done"}, k))
          BY <2>n, <2>l, <3>4, <4>1, <5>2, SumInsert
        <5>4. Amount'[p] = report[p].body.amount /\ report[p].body.amount \in Nat /\ usage[k] \in Nat
          BY <1>t, <2>b, <3>1
        <5>5. usage'[k] = usage[k] + report[p].body.amount
          BY <1>t, <3>1, <4>1
        <5>8. Reached({"done"}, k)' = Reached({"done"}, k) \cup {p}
          BY <3>3, <4>1
        <5>9. SumFunctionOnSet(Amount', Reached({"done"}, k)') = report[p].body.amount + usage[k]
          BY <4>0, <4>3, <5>3, <5>4, <5>8
        <5> QED BY <5>4, <5>5, <5>9
      <4>2. CASE k # Billed(p)
        <5>2. usage'[k] = usage[k] /\ Reached({"done"}, k)' = Reached({"done"}, k)
          BY <1>t, <3>1, <3>3, <4>2
        <5> QED BY <4>0, <4>3, <5>2
      <4> QED BY <4>1, <4>2
    <3> QED BY <1>t, <3>1, <3>2, <3>5, <3>6 DEF UsageInv
  <2>5. CASE FailReport(p) /\ report[p].stage = "logged"
    <3>1. Advance(p, "failed") /\ report[p].stage = "logged" /\ UNCHANGED <<usage, usageLog>>
      BY <2>5 DEF FailReport
    <3>2. \A k \in Pseudonyms : /\ Reached({"done"}, k)' = Reached({"done"}, k)
                                /\ Reached(Logged, k)' \subseteq Reached(Logged, k)
      BY <2>b, <3>1 DEF Reached, Logged
    <3>3. ASSUME NEW k \in Pseudonyms
          PROVE  SumFunctionOnSet(Amount', Reached(Logged, k)') <= usageLog[k]
      <4>1. SumFunctionOnSet(Amount', Reached(Logged, k)) = SumFunctionOnSet(Amount, Reached(Logged, k))
        BY <2>e, <2>l, <3>1
      <4>2. IsFiniteSet(Reached(Logged, k)) /\ \A q \in Reached(Logged, k) : Amount'[q] \in Nat
        BY <2>b, <2>n, <2>l, <3>1 DEF Reached
      <4>3. SumFunctionOnSet(Amount', Reached(Logged, k)') <= SumFunctionOnSet(Amount', Reached(Logged, k))
        BY <3>2, <4>2, SumMonotone
      <4>4. IsFiniteSet(Reached(Logged, k)') /\ \A q \in Reached(Logged, k)' : Amount'[q] \in Nat
        BY <3>2, <4>2, FS_Subset
      <4>5. SumFunctionOnSet(Amount', Reached(Logged, k)') \in Nat
        BY <4>4, SumNat
      <4>6. SumFunctionOnSet(Amount, Reached(Logged, k)) <= usageLog[k]
            /\ SumFunctionOnSet(Amount, Reached(Logged, k)) \in Nat /\ usageLog[k] \in Nat
        BY <1>t, <2>n, <2>l DEF UsageInv
      <4> QED BY <4>1, <4>3, <4>5, <4>6
    <3>4. \A k \in Pseudonyms : SumFunctionOnSet(Amount', Reached({"done"}, k)) = SumFunctionOnSet(Amount, Reached({"done"}, k))
      BY <2>e, <2>l, <3>1
    <3> QED BY <1>t, <3>1, <3>2, <3>3, <3>4 DEF UsageInv
  <2> QED BY <1>5, <2>1, <2>2, <2>3, <2>4, <2>5 DEF Report
<1>6. CASE (Crash \/ Tick) /\ UNCHANGED anonVars
  BY <1>6, <1>r DEF anonVars
<1>7. CASE UNCHANGED vars
  BY <1>7, <1>r DEF vars
<1> QED BY <1>1, <1>2, <1>3, <1>4, <1>5, <1>6, <1>7 DEF Next

\* The running total of a pseudonym is the sum of its reports that ran to the end,
\* however many upserts interleave, and usage_log holds at least as much
\* (record_usage).
THEOREM UsageAddsUp == Spec => []UsageIsSumOfReports
<1>1. AnonInv /\ UsageInv => UsageIsSumOfReports
  <2> SUFFICES ASSUME AnonInv, UsageInv, NEW k \in Pseudonyms
               PROVE  /\ usage[k] = SumFunction([p \in Reached({"done"}, k) |-> report[p].body.amount])
                      /\ usage[k] <= usageLog[k]
    BY DEF UsageIsSumOfReports, Reached
  <2> DEFINE f == [p \in Reached({"done"}, k) |-> report[p].body.amount]
  <2>0. {"done"} \subseteq Logged /\ Reached({"done"}, k) \subseteq Reached(Logged, k)
    BY DEF Logged, Reached
  <2>1. \A p \in Reached({"done"}, k) : f[p] = Amount[p]
    BY DEF Reached, Amount
  <2>2. SumFunction(f) = SumFunctionOnSet(f, Reached({"done"}, k))
    BY DEF SumFunction
  <2> HIDE DEF f
  <2>3. SumFunction(f) = SumFunctionOnSet(Amount, Reached({"done"}, k))
    BY <2>0, <2>1, <2>2, ReachedFinite, SumEqual
  <2>4. SumFunctionOnSet(Amount, Reached({"done"}, k)) <= SumFunctionOnSet(Amount, Reached(Logged, k))
    BY <2>0, ReachedFinite, SumMonotone
  <2>5. /\ SumFunctionOnSet(Amount, Reached({"done"}, k)) \in Nat
        /\ SumFunctionOnSet(Amount, Reached(Logged, k)) \in Nat /\ usageLog[k] \in Nat
    BY <2>0, ReachedFinite DEF UsageInv
  <2>6. usage[k] <= usageLog[k]
    BY <2>4, <2>5 DEF UsageInv
  <2> QED BY <2>3, <2>6 DEF UsageInv, f
<1> QED BY <1>1, InitAnonInv, NextAnonInv, InitUsageInv, NextUsageInv, PTL DEF Spec
=============================================================================
