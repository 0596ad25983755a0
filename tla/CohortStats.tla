----------------------------- MODULE CohortStats -----------------------------
(***************************************************************************)
(* Cohort statistics under differential privacy: core/src/aggregation and  *)
(* core/src/dp.  Tenants submit statistics backed by a proof, an operator  *)
(* defines a cohort of tenants, and each publication of the cohort's       *)
(* quartiles is charged to a budget row per (metric, cycle).               *)
(*                                                                         *)
(* One cohort is modelled: every table and cache is keyed by cohort_id.    *)
(* Budgets are counted in units; DeltaOne units make a delta of 1.  Noise  *)
(* and quartiles are left out.  Every statement takes a connection of its  *)
(* own, so requests interleave between any two of them.                    *)
(***************************************************************************)
EXTENDS Naturals, FiniteSets

CONSTANTS
  Submissions,   \* the <<tenant, agent, metric>> that may be submitted
  Checkpointed,  \* tenants with a finalized StatsHonestComputation checkpoint
  StatMetrics,   \* numbers: metric ids in their BTreeMap order
  CohortUploads, \* the definitions an operator may upload
  Rotations,     \* the bodies of rotate requests: [cycle, cap, capD, metrics]
  Publishers,    \* requests in flight
  NoCohort,      \* no definition
  NoBudget,      \* no row of dp_budget_ledger
  DeltaOne,      \* units of delta in 1.0
  CohortEnd      \* bound on the clock (model bound)

ASSUME CohortAssumption ==
  /\ StatMetrics \subseteq Nat /\ IsFiniteSet(StatMetrics)
  /\ DeltaOne \in Nat \ {0}
  /\ CohortEnd \in Nat
  /\ IsFiniteSet(Publishers)
  /\ NoCohort \notin CohortUploads
  /\ NoBudget \notin [spent: [eps: Nat, delta: Nat], caps: [eps: Nat, delta: Nat]]
  /\ \A d \in CohortUploads :
       {d.eps, d.delta, d.k, d.len} \cup d.cap \cup d.capD \subseteq Nat
  /\ \A r \in Rotations : {r.cap, r.capD} \subseteq Nat

VARIABLES
  dpNow,      \* the clock
  stats,      \* rows of customer_stats
  cohTable,   \* the row of cohort_definitions
  cohCache,   \* CohortStore.inner
  budget,     \* dp_budget_ledger: the row of each (metric, cycle)
  peak,       \* history: the highest caps each row has had
  released,   \* history: what the answers have released of each row's budget
  views,      \* history: who contributed to the metrics that were released
  dpJobs      \* the local state of each request

cohortVars ==
  <<dpNow, stats, cohTable, cohCache, budget, peak, released, views, dpJobs>>

BudgetKeys == StatMetrics \X (0..CohortEnd)
Charge(e, d) == [eps |-> e, delta |-> d]
Nothing == Charge(0, 0)
Plus(x, y) == Charge(x.eps + y.eps, x.delta + y.delta)
AtMost(x, y) == x.eps <= y.eps /\ x.delta <= y.delta
Higher(x, y) == Charge(IF x.eps < y.eps THEN y.eps ELSE x.eps,
                       IF x.delta < y.delta THEN y.delta ELSE x.delta)

DpIdle == [op |-> "idle"]
DpDoing(h, op) == dpJobs[h].op = op
DpStep(h, job) == dpJobs' = [dpJobs EXCEPT ![h] = job]

----------------------------------------------------------------------------
(* Statistics.                                                             *)

\* submit_handler: the tenant of the session, a finalized checkpoint of that
\* tenant and a valid proof; then one transaction upserts the row (its key is
\* all that is modelled of it) and stores the digest of the statement.
SubmitStats(s) ==
  /\ s[1] \in Checkpointed
  /\ stats' = stats \cup {[tenant |-> s[1], agent |-> s[2], metric |-> s[3]]}
  /\ UNCHANGED <<dpNow, cohTable, cohCache, budget, peak, released, views, dpJobs>>

----------------------------------------------------------------------------
(* Cohort definitions.                                                     *)

\* CohortDefinition::validate.
ValidCohort(d) ==
  /\ d.eps > 0
  /\ d.delta < DeltaOne
  /\ d.k >= 1
  /\ d.len > 0
  /\ \A c \in d.cap : c > 0
  /\ \A c \in d.capD : c < DeltaOne

\* The optional caps are sets of at most one number.
EffectiveCap(given, per) == IF given = {} THEN 4 * per ELSE CHOOSE c \in given : TRUE
EffectiveCaps(d) == Charge(EffectiveCap(d.cap, d.eps), EffectiveCap(d.capD, d.delta))

CycleStartFor(d, now) == (now \div d.len) * d.len

UpsertCohortRow(h, d) ==
  /\ DpDoing(h, "idle")
  /\ ValidCohort(d)
  /\ cohTable' = d
  /\ DpStep(h, [op |-> "cache", def |-> d])
  /\ UNCHANGED <<dpNow, stats, cohCache, budget, peak, released, views>>

DeleteCohortRow(h) ==
  /\ DpDoing(h, "idle")
  /\ cohTable' = NoCohort
  /\ DpStep(h, [op |-> "cache", def |-> NoCohort])
  /\ UNCHANGED <<dpNow, stats, cohCache, budget, peak, released, views>>

\* The second half of upsert_at and of delete.
WriteCohortCache(h) ==
  /\ DpDoing(h, "cache")
  /\ cohCache' = dpJobs[h].def
  /\ DpStep(h, DpIdle)
  /\ UNCHANGED <<dpNow, stats, cohTable, budget, peak, released, views>>

\* The server stops, loses its requests and hydrates the store.
RestartCohorts ==
  /\ cohCache' = cohTable
  /\ dpJobs' = [h \in Publishers |-> DpIdle]
  /\ UNCHANGED <<dpNow, stats, cohTable, budget, peak, released, views>>

----------------------------------------------------------------------------
(* Publication: cohort_published_handler, publish_cohort_with_ledger.      *)

StartPublish(h) ==
  /\ DpDoing(h, "idle")
  /\ cohCache # NoCohort
  /\ DpStep(h, [op |-> "read", def |-> cohCache])
  /\ UNCHANGED <<dpNow, stats, cohTable, cohCache, budget, peak, released, views>>

InCohort(d, m) == {r \in stats : r.tenant \in d.tenants /\ r.metric = m}

\* by_metric: one row per tenant, whatever the number of its agents.  Which of
\* them is the latest does not matter to what is modelled.
Contributions(d, m) ==
  {CHOOSE r \in InCohort(d, m) : r.tenant = t : t \in {r.tenant : r \in InCohort(d, m)}}

Publishing(job, todo, out) ==
  [op |-> "ensure", def |-> job.def, cycle |-> job.cycle, by |-> job.by,
   todo |-> todo, out |-> out]

\* list_for_cohort, the k-anonymity gate and the cycle of this publication.
ReadStats(h) ==
  /\ DpDoing(h, "read")
  /\ LET d == dpJobs[h].def
         todo == {m \in StatMetrics : Cardinality(Contributions(d, m)) >= d.k}
         by == [m \in todo |-> {r.tenant : r \in Contributions(d, m)}]
         job == [def |-> d, cycle |-> CycleStartFor(d, dpNow), by |-> by] IN
       DpStep(h, Publishing(job, todo, {}))
  /\ UNCHANGED <<dpNow, stats, cohTable, cohCache, budget, peak, released, views>>

Current(job) == CHOOSE m \in job.todo : \A n \in job.todo : m <= n
RowKey(job) == <<Current(job), job.cycle>>
Asked(d) == Charge(d.eps, d.delta)
Skip(job, out) == Publishing(job, job.todo \ {Current(job)}, out)

\* validate_inputs of ensure_cycle and rotate_cycle.
ValidCaps(c) == c.eps > 0 /\ c.delta < DeltaOne

\* ensure_cycle: INSERT OR IGNORE.  Caps it refuses end the request.
EnsureCycle(h) ==
  /\ DpDoing(h, "ensure")
  /\ dpJobs[h].todo # {}
  /\ LET job == dpJobs[h]  caps == EffectiveCaps(job.def)  k == RowKey(job) IN
       \/ /\ ValidCaps(caps)
          /\ budget' = IF budget[k] = NoBudget
                         THEN [budget EXCEPT ![k] = [spent |-> Nothing, caps |-> caps]]
                         ELSE budget
          /\ peak' = IF budget[k] = NoBudget THEN [peak EXCEPT ![k] = Higher(@, caps)]
                                             ELSE peak
          /\ DpStep(h, [job EXCEPT !.op = "ask"])
       \/ /\ ~ValidCaps(caps)
          /\ DpStep(h, DpIdle)
          /\ UNCHANGED <<budget, peak>>
  /\ UNCHANGED <<dpNow, stats, cohTable, cohCache, released, views>>

Fits(row, x) == AtMost(Plus(row.spent, x), row.caps)

\* can_publish is advisory: a denial suppresses the metric.
CanPublish(h) ==
  /\ DpDoing(h, "ask")
  /\ LET job == dpJobs[h] IN
       DpStep(h, IF Fits(budget[RowKey(job)], Asked(job.def))
                   THEN [job EXCEPT !.op = "charge"] ELSE Skip(job, job.out))
  /\ UNCHANGED <<dpNow, stats, cohTable, cohCache, budget, peak, released, views>>

\* Bug: the charge trusts can_publish, as its own doc comment has it.
ChargeableBug(row, x) == TRUE

\* The WHERE clause of the UPDATE in record_publication.
Chargeable(row, x) == Fits(row, x)

\* record_publication in one transaction; a refused charge ends the request
\* with an error, the metrics charged before it included.
RecordPublication(h) ==
  /\ DpDoing(h, "charge")
  /\ LET job == dpJobs[h]  k == RowKey(job)  x == Asked(job.def) IN
       \/ /\ Chargeable(budget[k], x)
          /\ budget' = [budget EXCEPT ![k].spent = Plus(@, x)]
          /\ DpStep(h, Skip(job, job.out \cup {Current(job)}))
       \/ /\ ~Chargeable(budget[k], x)
          /\ DpStep(h, DpIdle)
          /\ UNCHANGED budget
  /\ UNCHANGED <<dpNow, stats, cohTable, cohCache, peak, released, views>>

\* The response: only now the noisy values leave the server.
Release(h) ==
  /\ DpDoing(h, "ensure")
  /\ dpJobs[h].todo = {}
  /\ LET job == dpJobs[h] IN
       /\ released' = [k \in BudgetKeys |->
            IF k[2] = job.cycle /\ k[1] \in job.out
              THEN Plus(released[k], Asked(job.def)) ELSE released[k]]
       /\ views' = views \cup {[k |-> job.def.k, from |-> job.by[m]] :
                               m \in job.out}
  /\ DpStep(h, DpIdle)
  /\ UNCHANGED <<dpNow, stats, cohTable, cohCache, budget, peak>>

----------------------------------------------------------------------------
(* cohort_budget_rotate_handler.                                           *)

\* No metric list means every metric the ledger has seen.
StartRotate(h, r) ==
  /\ DpDoing(h, "idle")
  /\ cohCache # NoCohort
  /\ LET seen == {k[1] : k \in {x \in BudgetKeys : budget[x] # NoBudget}} IN
       DpStep(h, [op |-> "rotate", to |-> r,
                  todo |-> IF r.metrics = {} THEN seen ELSE r.metrics])
  /\ UNCHANGED <<dpNow, stats, cohTable, cohCache, budget, peak, released, views>>

\* ON CONFLICT keeps what has been spent and replaces the caps.
Rotated(row, caps) ==
  IF row = NoBudget THEN [spent |-> Nothing, caps |-> caps] ELSE [row EXCEPT !.caps = caps]

\* rotate_cycle for the next metric; invalid caps end the request.
RotateCycle(h) ==
  /\ DpDoing(h, "rotate")
  /\ LET job == dpJobs[h]  caps == Charge(job.to.cap, job.to.capD) IN
       \/ /\ job.todo # {} /\ ValidCaps(caps)
          /\ LET k == <<Current(job), job.to.cycle>> IN
               /\ budget' = [budget EXCEPT ![k] = Rotated(@, caps)]
               /\ peak' = [peak EXCEPT ![k] = Higher(@, caps)]
          /\ DpStep(h, [job EXCEPT !.todo = @ \ {Current(job)}])
       \/ /\ job.todo = {} \/ ~ValidCaps(caps)
          /\ DpStep(h, DpIdle)
          /\ UNCHANGED <<budget, peak>>
  /\ UNCHANGED <<dpNow, stats, cohTable, cohCache, released, views>>

CohortTick ==
  /\ dpNow < CohortEnd
  /\ dpNow' = dpNow + 1
  /\ UNCHANGED <<stats, cohTable, cohCache, budget, peak, released, views, dpJobs>>

----------------------------------------------------------------------------
(* Specification.                                                          *)

CohortInit ==
  /\ dpNow = 0
  /\ stats = {}
  /\ cohTable = NoCohort
  /\ cohCache = NoCohort
  /\ budget = [k \in BudgetKeys |-> NoBudget]
  /\ peak = [k \in BudgetKeys |-> Nothing]
  /\ released = [k \in BudgetKeys |-> Nothing]
  /\ views = {}
  /\ dpJobs = [h \in Publishers |-> DpIdle]

CohortRequest(h) ==
  \/ \E d \in CohortUploads : UpsertCohortRow(h, d)
  \/ DeleteCohortRow(h)
  \/ WriteCohortCache(h)
  \/ StartPublish(h)
  \/ ReadStats(h)
  \/ EnsureCycle(h)
  \/ CanPublish(h)
  \/ RecordPublication(h)
  \/ Release(h)
  \/ \E r \in Rotations : StartRotate(h, r)
  \/ RotateCycle(h)

CohortNext ==
  \/ \E s \in Submissions : SubmitStats(s)
  \/ \E h \in Publishers : CohortRequest(h)
  \/ RestartCohorts
  \/ CohortTick

CohortSpec == CohortInit /\ [][CohortNext]_cohortVars

----------------------------------------------------------------------------
(* Properties.                                                             *)

\* Whatever publications overlap, fail half-way or are cut off by a restart,
\* and however often the cycle is rotated: all that has left the server of a
\* metric in a cycle has been charged to its row, and the row is never charged
\* beyond the highest caps an operator has given it.
ReleasesStayWithinBudget ==
  \A k \in BudgetKeys :
    budget[k] # NoBudget => /\ AtMost(released[k], budget[k].spent)
                            /\ AtMost(budget[k].spent, peak[k])

\* A metric is released only when k different tenants of the cohort contributed
\* to it; several agents of one tenant count once.
ReleasesNeedKTenants ==
  \A v \in views : Cardinality(v.from) >= v.k

\* What leaves the server of a cohort is within its budget, and about k tenants.
ReleasesArePrivate == ReleasesStayWithinBudget /\ ReleasesNeedKTenants
=============================================================================
