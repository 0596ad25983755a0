# A TLA+ development for the SauronID core

The repository is an authorisation server for software agents (Rust,
`core/src`) with clients around it. An agent acts by signing an *action
envelope*; the server checks it against the agent's registration or against
anonymous ring policies, stores a signed, hash-chained *receipt*, and anchors
receipts in Bitcoin (OpenTimestamps) and Solana. Around this path it registers
users and agents, keeps consents and discloses claims, authorises payments,
evaluates policies, verifies attestation evidence, publishes cohort statistics
and lets agents call the outside world through an egress gateway.

This directory models these services as concurrent requests over the database.
Paths below are relative to `core/src` unless they say otherwise.

## 1. How the system works, as far as concurrency goes

* Every HTTP request runs on a tokio worker. Shared state is the database and
  an `Arc<RwLock<ServerState>>` with the in-memory rings, the Merkle ledger and
  the policy and cohort caches.
* `DbHandle::lock` (`db.rs:21`) is **not** a mutex. It checks a connection out
  of an r2d2 pool (`SAURON_DB_POOL_SIZE`, 1..64, default 16). Two requests
  holding two connections interleave statement by statement.
* Nearly every statement commits by itself; the few transactions (risk
  counters, spend records, budget charges) are single steps of the models.
  SQLite runs in WAL mode with `synchronous = FULL`, so a committed row survives
  a crash, and a crash falls between any two statements.
* `now_secs()` is usually read *before* the wait for a connection, and used
  until the end of the handler.

The models therefore make a step of every statement, and of every change of
shared memory, and let steps of different requests interleave freely.

## 2. Inventory

| component | state | operations | what makes it correct |
|---|---|---|---|
| receipt ledger, `agent_action.rs` | `agent_action_nonces`, `agent_action_receipts` (per-tenant hash chain) | prune, claim nonce, read head, write receipt; verify chain | an envelope earns one receipt; links resolve; the chain verifies |
| identified path, `agent_action.rs` | rows of `agents` (tenant, lease, revoked) | register, revoke, `validate_agent_action` | a receipt rests on a ring of live agents of one tenant |
| ring policies, `rings.rs` | `rings` (rule, version), `ring_members` | upsert, subscribe, revoke, `validate_anon_action` | every ring named has authorised the action, a member of each has signed |
| usage, `usage.rs` | `usage_log`, `usage_ledger` | report usage, budget check | totals add up, a report is billed once, budgets gate actions |
| anchoring, `agent_action_anchor.rs` | `agent_action_anchors` | background and forced runs, inclusion proofs | no receipt is passed over, the rebuilt tree is the published one, every receipt is anchored in the end |
| providers, `bitcoin_anchor.rs`, `solana_anchor.rs`, `routes.rs` | `bitcoin_merkle_anchors`, `solana_merkle_anchors`, `zk_proof_checkpoints` | publish, poll, checkpoint, verify a proof | accepted proofs rest on an upgraded root; mined roots are confirmed |
| egress gateway, `egress_gateway.rs`, `risk.rs` | `agent_egress_capabilities`, `agent_egress_log`, `risk_rate_counters` | issue capability, proxy a call, report a call made elsewhere, log a refused signature | a capability lets one call out; what goes out was authorised; what the gateway logs is true |
| agent calls, `main.rs`, `ajwt_support.rs`, `policy/assurance.rs` | `ajwt_used_jtis`, `agent_pop_challenges`, `agent_payment_authorizations` | payment, policy and token endpoints, settlement | a token acts once, a payment settles once |
| consents, `main.rs`, `repository.rs` | `consent_log`, `clients.tokens_b` | request, consent, revoke, retrieve | claims are disclosed once, as promised, against a credit |
| user accounts, `main.rs`, `merkle.rs` | `users`, credentials, challenges, codes, `merkle_leaves`; user ring and ledger in memory | register (bank, partner), sign in (challenge, or password in development), claim a credential, restart | sessions belong to key holders, rings and receipts survive, claims are released |
| agent registry, `agent.rs`, `agent_checksum.rs`, `admin.rs` | `agents`, checksum inputs and audit, attestation challenges; agent ring in memory | register, issue VC, revoke, rotate, restart | authority within the parent's; ring follows table; rotation trail is a chain |
| call signatures, `agent.rs`, `dpop.rs` | `agent_call_nonces`, checksums | default-deny layer, two surfaces, pruning | a verified call is genuine and acts once |
| attestation, `attestation/`, `agent.rs` | `agent_attestation_challenges`, settings | challenge, verify evidence, enrol | hardware evidence is fresh, own and used once |
| state lock, `state.rs`, `sync_recover.rs`, `rings.rs` | `RwLock`, pool | nested reads, writes, timeouts | no deadlock but the nested read |
| audit log, `middleware/audit_log.rs` | HMAC chain, file sink | append under a mutex, verify | the chain verifies |
| rate limit, `middleware/rate_limit.rs` | token buckets per address | refill, take, prune | admissions are bounded |
| cohort statistics, `dp/ledger.rs`, `aggregation/` | `customer_stats`, cohorts, `dp_budget_ledger` | submit, define, publish, rotate | releases within budget and over k tenants |
| policy evaluation, `policy/` | none | lex, parse, compile, evaluate, preview | operators group and errors deny as they should |
| policy store, `policy/store.rs`, `policy/binding_handlers.rs`, `repository.rs` | `policies` and its cache, bindings, `spend_ledger`, `spend_log` | upsert, delete, bind, record spend, gate | cache and table agree; budgets hold |
| the rest: operator access and tenancy, zero-knowledge and other cryptography, noise, SQL translation, configuration, clients, on-chain program | | | section 9 |

They interact through the tables: usage reports put their nonces into the table
action requests prune; anchoring reads the receipts both action paths write, and
the head of the audit log; issuing a capability *is* an identified action; an
agent's consent is a call with an A-JWT. Hard to test are the interleavings of
statements of different requests, values read before a wait and used after it,
crashes between statements, caches written after their tables, overlapping
anchoring runs with failing providers, and comparisons of second-granular times.
`PROJECT.json` lists these hazards line by line, with the properties that watch
them.

## 3. Modules

```
ReceiptLedger <- AgentActions <- EgressGateway      ActionAnchor, ChainAnchors
                              -< AgentService
              <- AnonActions
AgentCalls -< Consents => ConsentPromise            UserAccounts, AgentRegistry
PolicyExpressions -< PolicyChecks -< PolicyRules    PolicyStore, CohortStats
CallSignatures, StateLock, Ingress, Attestation
```

`A <- B`: B extends A and B's specification implements A's. `A -< B`: B extends
A. `A => B`: A implements B under a refinement mapping (`INSTANCE ... WITH`).
Modules that share no state are checked by one MC module, in which a variable
`part` says which of them a behaviour explores. `*Proofs` modules hold the
theorems: those of AgentActions are in EgressGatewayProofs, those of AgentCalls,
Consents, UserAccounts and AgentRegistry in IdentityProofs, those of
CallSignatures, Attestation and Ingress in GuardProofs, those of StateLock,
PolicyStore and CohortStats in StateProofs; SumProofs is the theory of finite
sums they share. A definition whose name ends in `Bug`, or that a comment introduces
with "Bug:", is a mutated form of the definition after it; no specification
uses it.

**ReceiptLedger** is the abstract specification of what writes receipts. Its
variables are the two tables (`nonces`, `receipts`), the clock, and per request
its `stage`, envelope, the `stamp` it read and the chain position (`link`) it
reserved. The actions are the statements of `validate_agent_action` and
`validate_anon_action` from the wait for a connection on: `Receive`, `Acquire`,
`Pass`, `PruneNonces`, `InsertNonce`, `NextChainPosition`, `WriteReceipt`, then
`Fail`, `Crash`, `Tick`, and `ConsumeUsageNonce` for the usage reports that
share the nonce table. `Pass` is unconstrained: which checks precede it is left
to the modules below. A receipt's id is its request; a chain hash is the id of
the row hashed (rows are never updated, hashes do not collide). `ReadsMayFail`
says whether lookups whose errors become "no row" may fail.

**AgentActions** adds the `agents` rows and the checks of the identified path:
`RegisterAgent`, `RevokeAgent`, `Submit` (an envelope signed over a ring),
`CheckAgent` (the agent's row) and `CheckTenantRing` (the ring, read by another
statement). `gone` is history: the agents already revoked when a request
arrived. **AgentService** puts in front of it the read guard of the server state
that a handler takes before it asks for a connection, and the event `Jam` after
which this lock, as StateLock shows, grants nothing until the process restarts.
It carries the fairness of the handlers.

**AnonActions** adds rules with their versions, members, and per request the
rule versions granted so far and the rings verified so far, since
`validate_anon_action` goes through the rings of an envelope one by one; then
usage reports, from their nonce to the two statements of `record_usage`.
`arrival` is history, used to state what a receipt may rest on.

**EgressGateway** adds the rate counter, issuances (`Admit`, `SubmitIssue`,
`DateCap`, `PruneCaps`, `InsertCap`, `FailIssue`) and calls of the proxy
(`Arrive`, `DenyUrl`, `CheckIntent`, `Vet`, `Spend`, `DenyHeader`, `Send`,
`Record`, `FailCall`), and the two other writers of `agent_egress_log`:
`ReportEgress`, by which an agent reports a call of its own (`main.rs:4782`, always
marked allowed, nothing is sent), and `LogDeniedEgress` for refused call
signatures (`agent.rs:2400`). A row of the model says which call of the gateway it
is of, if any; the column does not exist in the table, whose readers cannot tell
the two kinds apart. A capability's random token is the request that obtained
it. `upstream` is what reached the outside world, with the state of the call
that sent it. A call whose agent is revoked while it waits for DNS still goes
out; the model has that behaviour, and the property promises no more than the
code does.

**ActionAnchor** needs of a receipt only its key `(created_at, receipt_id)` and
the moment it becomes visible, which are two steps (`StampReceipt`,
`StoreReceipt`). Runs proceed by `ReadWatermark`, `TakeReceipts`, `InsertBatch`,
`Publish`, `RecordOutcome`, or are lost (`LoseRun`). A Merkle root is its
sequence of leaves. `late` is history: the receipts that became visible behind
one a run had already taken. **ChainAnchors** follows a batch on: one row per
provider, a chain that mines a root, drops it or never answers (external), the
two pollers, whose rounds take any `LIMIT` unconfirmed rows as the statement has
no `ORDER BY`, checkpoints and accepted proofs. A calendar that answers 200 marks
a root upgraded although it may not be mined (`bitcoin_anchor.rs:367`): such a
root is "vouched" for. Only the circuits of `routes.rs:127` have the history of
their batch checked.

**AgentCalls** is the common course of the endpoints an agent calls with an
A-JWT: verify, read the row, read and delete the proof-of-possession challenge,
decide by the assurance matrix, store a receipt, spend the jti. Payments are
settled by a conditional update, which `Repo` offers but no handler of this
version calls; the action stands for a future caller. **Consents** completes the consent call and
adds requests, user consents, withdrawals and `kyc_retrieve` with its
middleware. **ConsentPromise** states what the person is promised: opened,
granted, perhaps withdrawn, used once and not after a withdrawal, disclosed
once.

**UserAccounts** has one worker per request and one step per statement of
`bank_register_user`, `handle_register`, `user_auth_challenge`,
`user_auth_finish`, `user_get_credential` and, where `LegacyAuth` is set, the
password login `user_auth`. An upload that is refused or fails after its first
statement leaves what it wrote (`AbandonRegister`); the release of a claim may
fail; a restart rebuilds ring and ledger from their rows, or from a part of them
where a read fails (`unwrap_or_default`). `lastWriter`, `disordered` and `faults`
remember these. **AgentRegistry** does the same for `register_agent` (owner's
mandate, attestation challenge, key, bank link, parent), `agent_vc_issue` (bank
link or accepted proof), revocation and checksum rotation. Keys are unique per
tenant (`Realms`), the ring is one for all. `StatementFails` ends a request after
any of its statements. The history variables `raced`, `kept`, `orphaned`,
`overlapped`, `cut` and `replaced` name the situations the properties except.

**CallSignatures** is `require_call_signature_default_deny` with both surfaces,
revocation, rotation and the pruning of nonces. **Attestation** has a host that
changes what its registers read, hardware that signs documents about it,
arbitrary forgeries, the settings of a deployment, and the registration that
reads a challenge, verifies evidence, marks the challenge used and writes the
row. `verified` is what the evidence showed, `pinned` what the row is given.
**Ingress** is what a request passes on its way in: token bucket and audit log.
**StateLock** reduces a handler to its sequence of acquisitions and releases of
the `RwLock` (which admits no reader while a writer waits) and of pooled
connections.

**PolicyExpressions** (lexemes, parser, evaluator), **PolicyChecks** (the 27
checks of a binding, validation, both evaluators and the contexts the endpoints
build) and **PolicyRules** (an operator composing a policy part by part) are
pure algorithms, checked against reference definitions. **PolicyStore** is the
table and its cache, a start that stops at the first row it cannot read and
serves what it had (`unloaded`), bindings, the spend ledger and the gate, for
which a total that cannot be read is 0. A policy's id is the hash of its text, so
two uploads of one id write the same row but for the tenant. **CohortStats**
is submissions, the cohort's definition and cache, the budget row of each metric
and cycle, rotation and publication.

## 4. Runs

| run | parts and bounds | shows |
|---|---|---|
| `agents` | 2 requests, 2 connections, 3 agents of 2 tenants with different leases, 4 envelopes, a legacy row, clock 0..2, failing lookups | receipts rest on live rings; single use while valid; links resolve; the path implements the ledger |
| `pool1` | 3 requests, 1 connection, a legacy row, a state lock that may jam, clock 0..1 | the chain verifies; every request is answered unless the lock jams |
| `anon` | 2 rings, 2 members, rules of 2 versions: either one submission naming up to two rings while the operator changes rules and members, or two submissions and two copies of a usage report, clock 0..2 | authority of every ring; budget gate; sums; billed once |
| `anchor` | *runs*: 2 receipts, 2 overlapping runs, batches of 1, 2 providers, 1 fault; *chains*: 2 batches, a poller with `LIMIT` 1, 2 outages, a circuit of each kind | coverage, exact rebuild, monotone watermark, eventual anchoring; proofs rest on upgraded roots, mined roots are confirmed |
| `egress` | 2 agents, 2 issuances, 2 calls, 2 targets, limit 1 per window, 1 voluntary report, clock 0..2 | one call per capability, true log, authorised calls, implements the identified path |
| `identity` | *consents*: 2 agent calls, 2 tokens, 1 consent, 2 sites, 2 retrievals; *accounts*: 2 workers, 2 users, 2 attestations, 4 enrolments, the password login, 1 restart; *registry*: 2 tasks, 2 tenants, 2 keys, registrations with and without mandate, challenge and parent, VC requests, 1 restart | section 3's properties of these modules, and that Consents implements ConsentPromise |
| `services` | *calls*: 2 requests out of 8 forms, clock 0..4; *lock*: 3 requests of any handler shape, 1 connection; *rules*: expressions and bindings of up to 2 parts, 4 scenarios; *store*: 2 tenants sharing a policy, 2 requests, spend records of 0 and 1 up to 2 in all, partial starts and failed reads; *cohort*: 2 tenants, k = 2, 2 metrics, 2 definitions, 1 rotation, 2 requests; *ingress*: 2 callers, 1 address, 3 events, 1 failed read of the head; *evidence*: 3 deployments, 2 challenges, keys and readings, 2 registrations, a stated register set | the properties of these modules |

Every bound is a named constant of its module or a conjunct of `MCFocus` in the
MC module, whose comments say which combinations are left out. Why the bounds
suffice: reusing an envelope, token, challenge or nonce takes two requests, and
pruning in between a later clock; a fork takes two requests, a wrong link after
a fork three; a batch boundary inside a second takes two receipts and batches of
one; overtaking takes two runs; a double spend takes two calls, and deleting the
used row a second issuance; presenting the token of another takes two agents; a
stale cache takes two writers of one policy; a budget overrun takes two
publications and a rotation between check and charge; a deadlock takes a nested
reader and a writer, and the pool a third request. Both sides of every
comparison of times occur in some run. Where `MCFocus` stops a behaviour at an
admitted payment nothing is lost: no step reads `admitted`, and a row once
shared stays shared.

Symmetry is used where the definitions do not tell the permuted names apart, and
only in runs without liveness properties. `CHECK_DEADLOCK FALSE`: instances are
finite, so when every request has been answered and the clock stands at its
bound nothing is left to do.

### Disagreements between comments and code

Five runs are expected to find a violation. Each property is what a comment or
document says; `PROJECT.json` quotes it.

* `fork`: with two connections, two requests read the same head and store the
  same `seq`; `verify_receipt_chain` rejects the tenant's chain from then on.
  The comment on `next_chain_position` says this cannot happen since callers
  hold "the write path's connection". With a pool of one it cannot, which is
  proved (`ChainVerifiesAlone`).
* `late`: a receipt stamped before, or with a smaller id in the same second,
  but stored after a batch was taken lies behind the watermark and is never
  anchored. All others are (`NothingHidden` for safety, `EventuallyAnchored` by
  the run `anchor`).
* `proof`: the anchored tree contains a leaf for the head of the audit chain,
  the tree rebuilt for an inclusion proof does not.
* `replace`: issuing a VC agent uses `INSERT OR REPLACE`; on a conflict with a
  unique index it deletes the row of the active agent that holds the key.
* `spend`: `spend_ledger`'s key lacks the tenant, so two tenants that record
  spend under one policy and agent add to one row.

Met on the way, without a run of their own:

* An envelope or a signed call may be used again by a copy that waited, after
  its time was compared, until the nonce had expired and was pruned; the
  properties name this exception (`SingleUseWhileFresh`, `GenuineCallsActOnce`,
  `TokenActsOnce`).
* A record of amount 0 by another tenant opens the shared row of `spend_ledger`;
  from then on the first tenant reads a total of 0. Proving `GateKeepsBudget`
  showed that the exception has to include it (`Shared`).
* `drop_ring_member` of a revoked VC agent also drops the key when another row
  took it over meanwhile; proving `RingFollows` required counting this among the
  races (`raced`).
* The gate evaluates policies with a fixed weekday and date
  (`policy/handlers.rs:729-790`), so `business_hours` and holiday rules do not
  follow the calendar there.
* `register_agent` stores the `tpm2_pcr_set` of the request, which nothing checks,
  in preference to the verified measurement (`agent.rs:1259-1263`), where the
  comment at `attestation/mod.rs:156-157` says that the confirmed measurement is
  "Pinned on the agent row";
  and `verify_pcr_digest` does not ask which registers a quote selects.
  `EnrolledHostsAreGenuine` is therefore about the verified measurement.
* A refused upload of the bank has already replaced the user's key
  (`main.rs:928`): row and ring differ until a restart.
* `drop_ring_member` drops a point for all tenants, while keys are unique per
  tenant only: revoking an agent takes the key of another tenant's agent out of
  the in-memory ring (`orphaned`).
* A failed read of a spend total counts as 0 (`repository.rs:2465`) and opens the
  gate.
* `register_agent` carries evidence in a string field, which a binary COSE
  document of Nitro cannot pass; only the JSON form is accepted in practice.
* Admin tokens are issued with a list of tenants (`admin.rs:1403-1404`) where
  `tenancy/mod.rs` reads an optional string.

## 5. Fairness

* `AgentService!Fairness` is weak fairness of each request's own steps
  (`HandleGuarded`). A handler on a worker thread runs on unless it waits for the
  read guard of the state or for a connection. The guard is granted unless the
  lock has jammed, and then `EveryRequestAnswered` promises nothing; a
  connection that is free is handed to a waiter; r2d2's
  timeout (`Fail`) would only end the wait sooner. Nothing is assumed about
  clients, operators or the clock. Weak fairness of waiting requests suffices
  because finitely many others can take the connection before them.
* `ActionAnchor!Fairness`: a run that has started is driven on (weak), and the
  background task begins a run for each tenant again and again (strong, as a
  start is possible only when its previous run has ended): the ticker of
  `spawn_action_anchor_task` never stops. Faults are bounded by `MaxFaults`,
  that is, providers and lookups do not fail for ever. Forced runs need never
  happen.
* `ChainAnchors!ChainFairness`: each poller's loop goes on (weak). Nothing is
  assumed about the chains; a root that is never mined is never confirmed, and
  `MinedRootsAreConfirmed` excepts a root beside which `PollLimit` others are
  unconfirmed: the statement may pick those every time.
* `EventuallyAnchored` excludes receipts in a second with more receipts than a
  batch holds: among batches ending in that second the watermark query has no
  second sort key, and a run may be given the same one every time.

## 6. What is proved

All theorems hold for every value of the constants that satisfies the named
`ASSUME`s: finitely many requests where a cardinality is taken, absent values
(`NoRow`, `None`, ...) outside the sets they are added to, well-formed inputs
(an envelope names an agent, as many signers as rings, ...), jtis that are not
drawn twice, a pool of at least one connection, amounts that are natural
numbers, random agent identifiers that differ from the ones derived from a
credential, a token bucket that is full again before it is idle long enough to
be pruned. TLC evaluates each of these
assumptions on the instances. Every proof has the same shape: an inductive
invariant holds initially, every action keeps it, and it implies the property.
The invariants say what a request *in progress* has established, which the
properties, being about results, do not say:

| theorem | property | what the inductive invariant adds |
|---|---|---|
| `TypeCorrect`, `AgentTypeCorrect`, `EgressTypeCorrect` | types of the ledger, the identified path, the gateway | a received request has an envelope; an issuance past its receipt too |
| `SingleUse` | `SingleUseWhileFresh` | `SingleUseInv`: stamps lie in the past (so pruning removes no valid nonce), the nonce of a request past its insert is kept until it expires |
| `LinksResolve` | `LinkedToPredecessor` | `LinkInv`: also a *reserved* position opens the chain or follows a stored row |
| `ChainVerifiesAlone` | `ChainVerifies`, if `PoolSize = 1` and lookups succeed | `ChainInv`: one request holds a connection, and its reserved position lies beyond every stored row |
| `ImplementsLedger`, `AnonImplementsLedger` | both action paths implement `LedgerSpec` | none, or types: every step is a ledger step or a stutter |
| `AgentSingleUse`, `AgentChainVerifiesAlone` | the results above for the identified path | by the refinement |
| `RingsAreLive` | `ReceiptsFromLiveRing` | what was checked of a request stays true of its ring, since `gone` is fixed on arrival and revocation is final |
| `EveryRingAuthorises` | `AuthorisedByEveryRing` | `AuthInv`: rings are checked in order; the versions granted so far permit the action; a signer outside a ring on arrival is not verified, although lists are read again |
| `BudgetsGate` | `BudgetGatesNewActions`, if lookups succeed | `BudgetInv`: totals only grow, so the total on arrival bounds the one the check reads from below |
| `BilledOnce` | `ReportBilledOnce` | `BilledInv`: a claimed key is in the table until it lapses |
| `NothingHidden`, `RebuildExact`, `NoRetreat` | `CoveredUnlessLate`, `RebuildExactUnlessLate`, `WatermarkNeverRetreats` | `AnchorInv`: whatever a run has *gathered*, a receipt not late and not beyond one of its rows is among its rows or covered, and among its rows if between two of them; a mark a run has read has only covered receipts behind it |
| `UpgradedRootsBackProofs` | `ProofsRestOnUpgradedRoots` | `ChainInv`: confirmed rows are mined or vouched for, batches name rows that exist, a checkpoint's batch is backed |
| `ImplementsAgentActions` | `EgressSpec => Spec` | none: a step on the gateway's own tables stutters |
| `SpentOnce` | `CapabilitySpentOnce` | `SpendInv`: a token has one row, written when its issuance ended; a call that may send holds a token whose row is used or gone, alone |
| `LogIsTrue` | `LogMatchesCalls` | `LogInv`: a call is logged only once it has ended, and is upstream exactly from `sent` on; rows of no call are refusals or reports |
| `CallsAuthorised` | `CallsAreAuthorised` | `AuthInv`: an issuance's envelope is about what it asks for; a capability ends with its envelope and its A-JWT; each phase of a call has the guarantees of its checks |
| `TokenSpentOnce` | `TokenActsOnce` | `CallInv`: the row of a spent jti is there while its token is valid; a payment rests on a finished call with a receipt |
| `DisclosedOnce` | `DisclosureIsAuthorised` | `RetrInv`: a retrieval that consumed a token is the only one of its consent; owner and agent are fixed by the grant; sites have paid for every retrieval past the charge (a cardinality) |
| `ConsentsKeepPromise` | `KeepsPromise`: Consents implements ConsentPromise | `ConsentInv`, by which each step maps to a promise step or a stutter |
| `AuthorityOneSource`, `RingFollows` | `AuthorityHasOneSource`, `RingFollowsTable` | `RegInv`: an approved registration is still within its parent's row; a challenge that vouched is used up; the one task still to change a key's ring entry knows whether an active agent of some tenant has the key |
| `SessionsHeld`, `AcceptedInRing`, `ReceiptsSurvive`, `ClaimsReleased` | the four properties of UserAccounts | `AccInv`: an answer that verified belongs to the stored key or its challenge is gone; a request that wrote a user's row and has not answered knows whether its key is in the ring; handed-out roots are prefixes of the rows a restart would load, as long as no row was lost or overtaken; keys are unique; whoever asks the issuer holds the claim |
| `VerifiedCallsAreGenuine` | `GenuineCallsActOnce` | `SigInv`: what each stage has checked, and that the nonce of a verified call is kept until it expires |
| `HostsAreGenuine` | `EnrolledHostsAreGenuine` | `AttInv`: a document of the hardware answers an issued challenge; verified evidence stays verified; a challenge that vouched is closed |
| `AuditChainVerifies` | `AuditLogVerifies` | `AuditInv`: the rows are 1 to n, and the holder of the lock inserts row n + 1 |
| `ServedIsStored` | `CacheFollowsTable` | `CacheInv`: the requests between the two writes on an uncontended policy agree with each other and with the table about what the cache will hold |
| `GateKeepsBudget` | `BudgetCoversPastSpend` | `SpendInv`: the row of an unshared pair is the sum of its tenant's records, and what a request saw of the past is in the total it read, if the read succeeded |
| `UsageAddsUp` | `UsageIsSumOfReports` | `UsageInv`: the log holds at least what the reports past the first statement of `record_usage` add up to, so the upsert of each is covered |
| `AdmissionsBounded` | `AdmissionsAreBounded` | `LimitInv`: what was let in since *any* tick plus what the bucket holds now is at most the burst plus the refill since; a pruned bucket was full |
| `OnlyNestedReadsBlock` | `StuckOnlyByNestedRead` | `LockInv`: a handler is within its program and only handlers at a write wait as writers; what a handler holds follows from its place, so one that can move no further holds no write guard, and a read guard only while it asks for another |
| `ReleasesPrivate` | `ReleasesArePrivate` | `CohortInv`: per row, what is released plus what publications have charged and not yet released is at most what is spent, and that is at most the peak cap; every metric a publication still has to release has k tenants |
| `TrailChains` | `TrailIsAChain` | `TrailInv`: a rotation on its way starts where the trail ends and has written its inputs before its row; the version is ahead of the trail by the rotations cut off and the one on its way; an agent gets inputs once |
| `GatewayReceipts`, `AnonReceipts` | the ledger's results for receipts written through the gateway and the anonymous path | by the refinements |

The sums in `UsageAddsUp`, `AdmissionsBounded` and `ReleasesPrivate` rest on
SumProofs: how `SumFunctionOnSet` changes when one element is added, removed or
changed, for every finite set. Since the provers cannot instantiate an induction
schema, these facts are proved by a smallest counterexample: a set of least
cardinality on which the fact fails, which removing one element contradicts.

`SpendInv` of the gateway answers the question a reader of
`issue_egress_capability` will ask: used rows are deleted, so what stops a token
from being spent again? That its row is written once, at the end of its
issuance. `AnchorInv` answers the one about overlapping runs: why may a run that
read an old watermark finish after a newer one? Because what it gathered is
complete up to its last row except for receipts already covered.

## 7. Only model-checked

* Liveness, which is out of the prover's reach: `EveryRequestAnswered`,
  `EventuallyAnchored`, `MinedRootsAreConfirmed`.
* The policy language (`ParserReadsBack`, `VerdictsAreSound`): the parser and
  the evaluator are recursive operators, and what they compute for every input
  needs induction over data.

Every other property of a passing run is stated by a theorem.

## 8. Abstractions that matter

* Time is an integer clock that never goes back; the server uses
  `SystemTime`, which could.
* Cryptography is ideal: a signature, ring signature or quote verifies for
  exactly what it was made over and by whom; hashes do not collide and stand
  for what they cover; random identifiers do not repeat.
* The SQLite path is modelled; the Postgres pool of `db.rs` is not.
* The connections of operator handlers, usage reports, anchoring and the
  gateway's own statements are not counted against the pool: they hold one
  connection for a few statements and wait for nothing else. StateLock has the
  handlers that hold one while they wait.
* Usage, tokens of a bucket and privacy budgets are integers in one unit of
  account.
* Allowlist entries are the set of targets they permit; redaction of bodies is
  left out, since a capability is bound to the body before redaction.
* Policy texts are sequences of lexemes; letter case is folded as the checks do.
* In AgentCalls the action path (`validate_agent_action`) is one step; its own
  interleavings are AgentActions'.
* Registrations without `agent_type`, which production refuses, leave no row of
  `agent_checksum_inputs` and cannot be rotated, as VC agents in the model.
* The best-effort rows of `api_usage` and `user_registrations` that `kyc_retrieve`
  writes (`main.rs:2866-2916`) are left out: no decision reads them.
* Windows of `risk_rate_counters` are never deleted: that happens 120 windows
  later, beyond every instance.

## 9. Not modelled

Operator access and tenancy (start-up checks, the admin JWT, tenant resolution;
the tenant columns of the modelled tables are in the modules); zero-knowledge
verification and other cryptography, pure functions assumed ideal; the noise of
differential privacy and homomorphic aggregation, floating point; identity and
site endpoints that only read; SQL translation; configuration and secrets,
except the settings that change a verdict; the endpoints of development that seed
users (`main.rs:1373` also pushes a point into the user ring); the operator's raw
view of cohort statistics, which is outside the privacy budget by design; the clients, the agentic layer, the
MCP server and the dashboard, which are callers of the core (some also enforce
policies in the agent's own process; the core does not rely on that); the
on-chain program and the archive, which the core does not use.

## 10. Plan

1. *(done)* The modules above with their runs.
2. *(done)* A theorem for every safety property that is within the prover's
   reach.
3. Further refinements: the audit log and the receipt chain as one abstract
   append-only chain; a one-use abstraction over nonces, jtis and challenges.
