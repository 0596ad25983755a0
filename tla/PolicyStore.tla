-------------------------------- MODULE PolicyStore --------------------------------
(***************************************************************************)
(* The policy store (policy/store.rs), the bindings of agents to policies  *)
(* (policy/binding_handlers.rs), the spend ledger (repository.rs) and the  *)
(* gate the action endpoints call (policy/handlers.rs).                    *)
(*                                                                         *)
(* A policy's identifier is the hash of its text, so two tenants that      *)
(* upload one text share it; the table's key is the identifier alone and   *)
(* the cache's is the tenant and the identifier.  Each handler runs its    *)
(* statements one at a time: the table and the cache are written in two    *)
(* steps, the gate reads the binding, the cache and the ledger in three.   *)
(***************************************************************************)
EXTENDS Integers, FiniteSets

CONSTANTS
  Tenants, Policies, PolAgents,
  Home,          \* Home[a]: the tenant of agent a's row
  NoOne,         \* no tenant, no policy
  Handlers,      \* requests in progress
  Cap,           \* Cap[p]: max_budget_usd of policy p
  Amounts,       \* amounts of payments and of recorded spend
  Uploads,       \* bound: the <<tenant, policy>> pairs uploaded and deleted
  Spenders,      \* bound: the <<tenant, policy, agent>> triples with spend records
  MaxSpend       \* bound: what is recorded for one of them, which may exceed the cap

ASSUME StoreAssumption ==
  /\ NoOne \notin Tenants \cup Policies
  /\ Home \in [PolAgents -> Tenants]
  /\ Cap \in [Policies -> Nat] /\ Amounts \subseteq Nat /\ MaxSpend \in Nat
  /\ Uploads \subseteq Tenants \X Policies /\ Spenders \subseteq Tenants \X Policies \X PolAgents

VARIABLES
  polTable,   \* policies: the tenant of each stored row
  polCache,   \* by_id: the <<tenant, policy>> pairs served
  byAgent,    \* by_agent: the last policy cached per tenant (one agent label)
  bound,      \* agent_policy_bindings (a row's tenant is the agent's)
  ledger,     \* spend_ledger: one row per policy and agent
  spent,      \* spend_log, summed per tenant, policy and agent
  polJobs,    \* requests in progress
  admitted,   \* the last payment judged, if the gate admitted it
  contended,  \* policies whose cached copies may differ from the table
  unloaded    \* policies stored at the last start that it left out of the cache

storeVars ==
  <<polTable, polCache, byAgent, bound, ledger, spent, polJobs, admitted, contended, unloaded>>

Keys == Tenants \X Policies \X PolAgents
NoJob == [op |-> "none"]
NoRow == [tenant |-> NoOne, total |-> 0]

StoreInit ==
  /\ polTable = [p \in Policies |-> NoOne] /\ polCache = {}
  /\ byAgent = [t \in Tenants |-> NoOne]
  /\ bound = [a \in PolAgents |-> NoOne]
  /\ ledger = [pa \in Policies \X PolAgents |-> NoRow]
  /\ spent = [k \in Keys |-> 0]
  /\ polJobs = [h \in Handlers |-> NoJob] /\ admitted = {}
  /\ contended = {} /\ unloaded = {}

Begin(h, job) == polJobs[h] = NoJob /\ polJobs' = [polJobs EXCEPT ![h] = job]
Doing(h, op) == polJobs[h].op = op
End(h) == polJobs' = [polJobs EXCEPT ![h] = NoJob]

\* Another request has written the table for p and not yet the cache.
Overlaps(p) == \E h \in Handlers : polJobs[h].op \in {"cache", "uncache"} /\ polJobs[h].p = p

\* One of them is another request than job: it would write something else.
Rivals(job) ==
  \E h \in Handlers : /\ polJobs[h].op \in {"cache", "uncache"} /\ polJobs[h].p = job.p
                      /\ polJobs[h] # job

---------------------------------------------------------------------------
(* Uploading and deleting policies. *)

\* upsert_tenant: the row of p, whoever stored it, becomes the caller's.
UploadRow(h, t, p) ==
  LET job == [op |-> "cache", t |-> t, p |-> p] IN
  /\ Begin(h, job)
  /\ polTable' = [polTable EXCEPT ![p] = t]
  /\ contended' = IF Rivals(job) \/ polTable[p] \notin {t, NoOne} THEN contended \cup {p} ELSE contended
  /\ UNCHANGED <<polCache, byAgent, bound, ledger, spent, admitted, unloaded>>

UploadCache(h) ==
  /\ Doing(h, "cache")
  /\ polCache' = polCache \cup {<<polJobs[h].t, polJobs[h].p>>}
  /\ byAgent' = [byAgent EXCEPT ![polJobs[h].t] = polJobs[h].p]
  /\ unloaded' = unloaded \ {polJobs[h].p}
  /\ End(h)
  /\ UNCHANGED <<polTable, bound, ledger, spent, admitted, contended>>

\* delete_tenant: only the caller's own row goes.
DeleteRow(h, t, p) ==
  LET job == [op |-> "uncache", t |-> t, p |-> p] IN
  /\ Begin(h, job)
  /\ polTable' = [polTable EXCEPT ![p] = IF @ = t THEN NoOne ELSE @]
  /\ contended' = IF Rivals(job) THEN contended \cup {p} ELSE contended
  /\ UNCHANGED <<polCache, byAgent, bound, ledger, spent, admitted, unloaded>>

\* Bug: the cached copy of a deleted policy is left to the next restart.
DeleteCacheBug(h) ==
  /\ Doing(h, "uncache")
  /\ byAgent' = [byAgent EXCEPT ![polJobs[h].t] = NoOne]
  /\ End(h)
  /\ UNCHANGED <<polTable, polCache, bound, ledger, spent, admitted, contended, unloaded>>

\* The agent's index entry goes even when it names another policy.
DeleteCache(h) ==
  /\ Doing(h, "uncache")
  /\ LET key == <<polJobs[h].t, polJobs[h].p>> IN
     /\ polCache' = polCache \ {key}
     /\ byAgent' = IF key \in polCache THEN [byAgent EXCEPT ![polJobs[h].t] = NoOne] ELSE byAgent
  /\ End(h)
  /\ UNCHANGED <<polTable, bound, ledger, spent, admitted, contended, unloaded>>

Stored == {p \in Policies : polTable[p] # NoOne}

\* A restart: hydrate stops at the first row it cannot parse or compile, or reads
\* none at all, and the server starts with the rows taken so far, in whatever order
\* the table gave them.  Requests in progress are lost.
Hydrate ==
  /\ \E loaded \in SUBSET Stored :
       /\ polCache' = {<<polTable[p], p>> : p \in loaded}
       /\ byAgent' \in {f \in [Tenants -> Policies \cup {NoOne}] :
                          \A t \in Tenants :
                            LET own == {p \in loaded : polTable[p] = t} IN
                            IF own = {} THEN f[t] = NoOne ELSE f[t] \in own}
       /\ unloaded' = Stored \ loaded
  /\ polJobs' = [h \in Handlers |-> NoJob] /\ contended' = {}
  /\ UNCHANGED <<polTable, bound, ledger, spent, admitted>>

---------------------------------------------------------------------------
(* Bindings. *)

\* The policy is in the caller's cache and the agent in its table, then the row
\* is written.
CheckBinding(h, a, p) ==
  /\ <<Home[a], p>> \in polCache
  /\ Begin(h, [op |-> "bind", a |-> a, p |-> p])
  /\ UNCHANGED <<polTable, polCache, byAgent, bound, ledger, spent, admitted, contended, unloaded>>

BindPolicy(h) ==
  /\ Doing(h, "bind")
  /\ bound' = [bound EXCEPT ![polJobs[h].a] = polJobs[h].p]
  /\ End(h)
  /\ UNCHANGED <<polTable, polCache, byAgent, ledger, spent, admitted, contended, unloaded>>

UnbindPolicy(a) ==
  /\ bound[a] # NoOne
  /\ bound' = [bound EXCEPT ![a] = NoOne]
  /\ UNCHANGED <<polTable, polCache, byAgent, ledger, spent, polJobs, admitted, contended, unloaded>>

---------------------------------------------------------------------------
(* The spend ledger. *)

\* Bug: the total of a period that has just begun is read instead of the lifetime's.
SpendTotalBug(t, p, a) == 0

\* The total of a tenant: that of the row of the pair when it is the tenant's.
SpendTotal(t, p, a) == IF ledger[<<p, a>>].tenant = t THEN ledger[<<p, a>>].total ELSE 0

\* ON CONFLICT (policy_id, agent_id, period_start): an existing row keeps its tenant.
LedgerRow(t, row, x) ==
  [tenant |-> IF row.tenant = NoOne THEN t ELSE row.tenant, total |-> row.total + x]

\* get_spend_total_tenant: a statement that fails counts as an absent row.
TotalsRead(t, p, a) == {[ok |-> TRUE, total |-> SpendTotal(t, p, a)], [ok |-> FALSE, total |-> 0]}

\* One transaction inserts the log entry and adds to the pair's row.  No cap is
\* consulted: spend is reported after the fact.
RecordSpend(t, p, a, x) ==
  /\ spent[<<t, p, a>>] + x <= MaxSpend
  /\ spent' = [spent EXCEPT ![<<t, p, a>>] = @ + x]
  /\ ledger' = [ledger EXCEPT ![<<p, a>>] = LedgerRow(t, @, x)]
  /\ UNCHANGED <<polTable, polCache, byAgent, bound, polJobs, admitted, contended, unloaded>>

---------------------------------------------------------------------------
(* The gate: enforce_bound_policy_with_handles. *)

\* No row: nothing to enforce.  past is what the tenant had recorded by then.
LookupBinding(h, a) ==
  /\ bound[a] # NoOne
  /\ Begin(h, [op |-> "load", t |-> Home[a], a |-> a, p |-> bound[a],
               past |-> spent[<<Home[a], bound[a], a>>]])
  /\ UNCHANGED <<polTable, polCache, byAgent, bound, ledger, spent, admitted, contended, unloaded>>

\* A bound policy that is not served refuses the action (PolicyUnavailable).
LoadPolicy(h) ==
  /\ Doing(h, "load")
  /\ IF <<polJobs[h].t, polJobs[h].p>> \in polCache
     THEN polJobs' = [polJobs EXCEPT ![h].op = "judge"]
     ELSE End(h)
  /\ UNCHANGED <<polTable, polCache, byAgent, bound, ledger, spent, admitted, contended, unloaded>>

\* The total is read and the loaded policy evaluated; nothing is recorded.
Judge(h, x) ==
  /\ Doing(h, "judge")
  /\ LET j == polJobs[h] IN
     \E read \in TotalsRead(j.t, j.p, j.a) :
       admitted' = IF read.total + x > Cap[j.p] THEN {}
                   ELSE {[t |-> j.t, p |-> j.p, a |-> j.a, amount |-> x, past |-> j.past,
                          read |-> read.ok]}
  /\ End(h)
  /\ UNCHANGED <<polTable, polCache, byAgent, bound, ledger, spent, contended, unloaded>>

\* No connection for the total: the action is refused.
JudgeFails(h) ==
  /\ Doing(h, "judge")
  /\ End(h)
  /\ UNCHANGED <<polTable, polCache, byAgent, bound, ledger, spent, admitted, contended, unloaded>>

StoreNext ==
  \/ \E h \in Handlers, tp \in Uploads : UploadRow(h, tp[1], tp[2]) \/ DeleteRow(h, tp[1], tp[2])
  \/ \E h \in Handlers : UploadCache(h) \/ DeleteCache(h) \/ BindPolicy(h) \/ LoadPolicy(h)
                            \/ JudgeFails(h)
  \/ \E h \in Handlers, a \in PolAgents :
       LookupBinding(h, a) \/ \E p \in Policies : CheckBinding(h, a, p)
  \/ \E h \in Handlers, x \in Amounts : Judge(h, x)
  \/ \E a \in PolAgents : UnbindPolicy(a)
  \/ \E k \in Spenders, x \in Amounts : RecordSpend(k[1], k[2], k[3], x)
  \/ Hydrate

StoreSpec == StoreInit /\ [][StoreNext]_storeVars

---------------------------------------------------------------------------
(* Properties. *)

\* Another tenant's record, be it of nothing, opened the row of policy and agent,
\* or another tenant's spend is in it.
Shared(t, p, a) ==
  \/ ledger[<<p, a>>].tenant \notin {t, NoOne}
  \/ \E u \in Tenants \ {t} : spent[<<u, p, a>>] > 0

\* What is served is what is stored: with no upload or deletion between its two
\* writes, a policy is cached for the tenant its row names and for nobody else, so
\* that a deleted policy is served no longer; only a start that stopped half-way
\* leaves a stored one out.  Overlapping copies of one request do no harm: the
\* exceptions are an upload that overlaps a deletion and two tenants that upload
\* one text.  The index by agent names only cached policies (store.rs
\* upsert_tenant, delete_tenant, hydrate).
CacheFollowsTable ==
  /\ \A p \in Policies \ contended : ~Overlaps(p) =>
       /\ {t \in Tenants : <<t, p>> \in polCache} \subseteq {polTable[p]}
       /\ p \in Stored \ unloaded => <<polTable[p], p>> \in polCache
  /\ \A t \in Tenants : byAgent[t] # NoOne => <<t, byAgent[t]>> \in polCache

\* A payment the gate admits fits the policy's budget by itself, and together with
\* everything its tenant had recorded when the request began, although the total is
\* read two steps later, unless another tenant records under the same policy and
\* agent or the statement that reads the total failed, which opens the gate
\* (handlers.rs enforce_bound_policy_with_handles, repository.rs record_spend).
BudgetCoversPastSpend ==
  \A m \in admitted :
    /\ m.amount <= Cap[m.p]
    /\ m.read /\ ~Shared(m.t, m.p, m.a) => m.past + m.amount <= Cap[m.p]

\* docs/multi-tenancy-audit.md: cross-tenant writes for one agent, policy and
\* period land in distinct rows, so each tenant reads the sum of its own records.
TenantTotalsAreOwn == \A k \in Keys : SpendTotal(k[1], k[2], k[3]) = spent[k]
====================================================================================
