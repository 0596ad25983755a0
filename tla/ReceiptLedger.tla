--------------------------- MODULE ReceiptLedger ---------------------------
(***************************************************************************)
(* The action-receipt ledger of core/src/agent_action.rs: the single-use   *)
(* nonce table agent_action_nonces, the per-tenant hash chain stored in    *)
(* agent_action_receipts, and the requests that write both.                *)
(*                                                                         *)
(* Every HTTP request runs on its own tokio worker and takes a connection  *)
(* from a pool (DbHandle::lock is r2d2's pool.get(), not a mutex).  Each   *)
(* SQL statement is its own autocommit transaction, so one request is the  *)
(* sequence of steps                                                       *)
(*                                                                         *)
(*   Receive - Acquire - Pass - PruneNonces - InsertNonce                  *)
(*           - NextChainPosition - WriteReceipt                            *)
(*                                                                         *)
(* and steps of other requests, and a crash, may fall between any two.     *)
(* validate_agent_action and validate_anon_action have the same shape and  *)
(* the same two tables; they differ in what they check, which is the       *)
(* business of module AgentActions.  Here Pass(r) stands for "all checks   *)
(* succeeded" and is left unconstrained.                                   *)
(***************************************************************************)
EXTENDS Integers, FiniteSets

CONSTANTS
  Requests,   \* one element per submission the server ever handles
  Envelopes,  \* signed action envelopes: [nonce, tenant, exp, ...] records
  Tenants,
  Nonces,     \* keys of agent_action_nonces
  Legacy,     \* receipts written before chaining existed (seq = 0)
  Genesis,    \* the empty prev_hash of the first chained receipt
  NoEnvelope, \* what a request that has not been received carries
  UsageNonces, \* the keys "usage|..." that usage reports put in the same table
  UsageWindow, \* how long such a key is kept (30 days)
  PoolSize,   \* SAURON_DB_POOL_SIZE, clamped to 1..64, default 16
  ReadsMayFail, \* whether the lookup of the chain head may return an error
  MaxTime     \* bound on the clock (model bound)

ASSUME LedgerAssumption ==
  /\ IsFiniteSet(Requests)
  /\ Legacy \cap Requests = {}
  /\ Genesis \notin Requests \cup Legacy
  /\ NoEnvelope \notin Envelopes
  /\ UsageNonces \subseteq Nonces
  /\ UsageWindow \in Nat
  /\ PoolSize \in Nat \ {0}
  /\ ReadsMayFail \in BOOLEAN
  /\ MaxTime \in Nat
  /\ \A e \in Envelopes : /\ e.nonce \in Nonces
                          /\ e.tenant \in Tenants
                          /\ e.exp \in Nat
  /\ Legacy # {} => Tenants # {}

VARIABLES
  clock,     \* wall clock in seconds (SystemTime), assumed monotonic
  nonces,    \* rows of agent_action_nonces: [nonce, exp]
  receipts,  \* rows of agent_action_receipts
  stage,     \* how far each request has got
  env,       \* the envelope each request carries
  stamp,     \* the `now` each request read before it asked for a connection
  link       \* the chain position a request has reserved: [seq, prev]

ledgerVars == <<clock, nonces, receipts, stage, env, stamp, link>>

ReceiptIds == Requests \cup Legacy

\* A row of agent_action_receipts.  receipt_id is random, so a request can be
\* its own receipt id.  The chain hash of a row is collision free and rows are
\* never updated, so it is represented by the row's id (see ChainHash).
Receipt == [id: ReceiptIds, tenant: Tenants, seq: Nat,
            prev: ReceiptIds \cup {Genesis}, ts: Nat]

Stages == {"idle", "received", "open", "passed", "pruned", "burnt", "linked",
           "done", "failed"}

\* Stages in which a request holds a pooled connection: the guard `db` lives
\* from st.db.lock() to the end of the block that stores the receipt.
Holding == {"open", "passed", "pruned", "burnt", "linked"}

\* Bug: the connection of a refused request is never handed back.
HoldersBug == {r \in Requests : stage[r] \in Holding \cup {"failed"}}

Holders == {r \in Requests : stage[r] \in Holding}

NoLink == [seq |-> 0, prev |-> Genesis]

TypeOK ==
  /\ clock \in 0..MaxTime
  /\ nonces \subseteq [nonce: Nonces, exp: Nat]
  /\ receipts \subseteq Receipt
  /\ stage \in [Requests -> Stages]
  /\ env \in [Requests -> Envelopes \cup {NoEnvelope}]
  /\ stamp \in [Requests -> 0..MaxTime]
  /\ link \in [Requests -> [seq: Nat, prev: ReceiptIds \cup {Genesis}]]

----------------------------------------------------------------------------
(* Helpers.                                                                *)

\* receipt_chain_hash: SHA-256 over every field of the row.
ChainHash(row) == row.id

RowsOf(t) == {x \in receipts : x.tenant = t}

\* The answers `ORDER BY seq DESC LIMIT 1` may give: any row of maximal seq.
Heads(t) == {x \in RowsOf(t) : \A y \in RowsOf(t) : y.seq <= x.seq}

MoveTo(r, s) == stage' = [stage EXCEPT ![r] = s]

----------------------------------------------------------------------------
(* The steps of one request.                                               *)

\* The envelope must not have expired when it is received; `now` is read here,
\* before the pool is asked for a connection, and used until the end.  (The
\* identified path reads the clock twice in a row here; one reading is kept.)
Receive(r, e) ==
  /\ stage[r] = "idle"
  /\ ~(e.exp < clock)
  /\ env' = [env EXCEPT ![r] = e]
  /\ stamp' = [stamp EXCEPT ![r] = clock]
  /\ MoveTo(r, "received")
  /\ UNCHANGED <<clock, nonces, receipts, link>>

\* st.db.lock().unwrap(): blocks until a pooled connection is free.
Acquire(r) ==
  /\ stage[r] = "received"
  /\ Cardinality(Holders) < PoolSize
  /\ MoveTo(r, "open")
  /\ UNCHANGED <<clock, nonces, receipts, env, stamp, link>>

\* Every check on the envelope, the agent and the ring signature succeeded.
Pass(r) ==
  /\ stage[r] = "open"
  /\ MoveTo(r, "passed")
  /\ UNCHANGED <<clock, nonces, receipts, env, stamp, link>>

\* Bug: <= for <, which forgets a nonce in the last second of its envelope.
PruneNoncesBug(r) ==
  /\ stage[r] = "passed"
  /\ nonces' = {n \in nonces : ~(n.exp <= stamp[r])}
  /\ MoveTo(r, "pruned")
  /\ UNCHANGED <<clock, receipts, env, stamp, link>>

\* DELETE FROM agent_action_nonces WHERE expires_at < now
PruneNonces(r) ==
  /\ stage[r] = "passed"
  /\ nonces' = {n \in nonces : ~(n.exp < stamp[r])}
  /\ MoveTo(r, "pruned")
  /\ UNCHANGED <<clock, receipts, env, stamp, link>>

\* INSERT INTO agent_action_nonces: the PRIMARY KEY violation is the replay
\* check.
InsertNonce(r) ==
  /\ stage[r] = "pruned"
  /\ IF \E n \in nonces : n.nonce = env[r].nonce
       THEN MoveTo(r, "failed") /\ UNCHANGED nonces
       ELSE /\ nonces' = nonces \cup {[nonce |-> env[r].nonce, exp |-> env[r].exp]}
            /\ MoveTo(r, "burnt")
  /\ UNCHANGED <<clock, receipts, env, stamp, link>>

\* Bug: the head is looked up without the tenant_id condition.
NextChainPositionAnyTenant(r) ==
  /\ stage[r] = "burnt"
  /\ \/ /\ receipts = {}
        /\ link' = [link EXCEPT ![r] = [seq |-> 1, prev |-> Genesis]]
     \/ \E h \in receipts :
          /\ \A y \in receipts : y.seq <= h.seq
          /\ link' = [link EXCEPT ![r] =
                        IF h.seq = 0 THEN [seq |-> 1, prev |-> Genesis]
                        ELSE [seq |-> h.seq + 1, prev |-> ChainHash(h)]]
  /\ MoveTo(r, "linked")
  /\ UNCHANGED <<clock, nonces, receipts, env, stamp>>

\* Bug: a legacy head is chained to like any other row.
NextChainPositionLegacy(r) ==
  /\ stage[r] = "burnt"
  /\ \/ /\ RowsOf(env[r].tenant) = {}
        /\ link' = [link EXCEPT ![r] = [seq |-> 1, prev |-> Genesis]]
     \/ \E h \in Heads(env[r].tenant) :
          link' = [link EXCEPT ![r] = [seq |-> h.seq + 1, prev |-> ChainHash(h)]]
  /\ MoveTo(r, "linked")
  /\ UNCHANGED <<clock, nonces, receipts, env, stamp>>

\* next_chain_position: read the head of the tenant's chain.  A head with
\* seq = 0 is a legacy row, after which the chain starts at 1.  An error of
\* the lookup is turned into "no row" by .ok().
NextChainPosition(r) ==
  /\ stage[r] = "burnt"
  /\ \/ /\ RowsOf(env[r].tenant) = {} \/ ReadsMayFail
        /\ link' = [link EXCEPT ![r] = [seq |-> 1, prev |-> Genesis]]
     \/ \E h \in Heads(env[r].tenant) :
          link' = [link EXCEPT ![r] =
                     IF h.seq = 0 THEN [seq |-> 1, prev |-> Genesis]
                     ELSE [seq |-> h.seq + 1, prev |-> ChainHash(h)]]
  /\ MoveTo(r, "linked")
  /\ UNCHANGED <<clock, nonces, receipts, env, stamp>>

\* INSERT OR REPLACE INTO agent_action_receipts; leaving the block returns the
\* connection to the pool.
WriteReceipt(r) ==
  /\ stage[r] = "linked"
  /\ receipts' = receipts \cup
       {[id |-> r, tenant |-> env[r].tenant, seq |-> link[r].seq,
         prev |-> link[r].prev, ts |-> stamp[r]]}
  /\ MoveTo(r, "done")
  /\ UNCHANGED <<clock, nonces, env, stamp, link>>

\* verify_usage_report, whose nonces live in the same table: a usage report
\* stamped `now` claims key k, and is refused if the key is there already.
ConsumeUsageNonce(k, now) ==
  /\ now <= clock
  /\ ~\E n \in nonces : n.nonce = k
  /\ nonces' = nonces \cup {[nonce |-> k, exp |-> now + UsageWindow]}
  /\ UNCHANGED <<clock, receipts, stage, env, stamp, link>>

\* A check fails, a statement returns SQLITE_BUSY after busy_timeout, or no
\* connection becomes free within r2d2's timeout: the request is refused and
\* what it has already committed stays committed.
Fail(r) ==
  /\ stage[r] \in Holding \cup {"received"}
  /\ MoveTo(r, "failed")
  /\ UNCHANGED <<clock, nonces, receipts, env, stamp, link>>

\* The process dies: requests in flight are lost, committed rows are not
\* (WAL with synchronous = FULL).
Crash ==
  /\ \E r \in Requests : stage[r] \in Holding \cup {"received"}
  /\ stage' = [r \in Requests |->
                 IF stage[r] \in Holding \cup {"received"} THEN "failed" ELSE stage[r]]
  /\ UNCHANGED <<clock, nonces, receipts, env, stamp, link>>

Tick ==
  /\ clock < MaxTime
  /\ clock' = clock + 1
  /\ UNCHANGED <<nonces, receipts, stage, env, stamp, link>>

----------------------------------------------------------------------------
(* Specification.                                                          *)

LedgerInit ==
  /\ clock = 0
  /\ nonces = {}
  /\ \E t \in [Legacy -> Tenants] :
       receipts = {[id |-> l, tenant |-> t[l], seq |-> 0, prev |-> Genesis, ts |-> 0] :
                     l \in Legacy}
  /\ stage = [r \in Requests |-> "idle"]
  /\ env = [r \in Requests |-> NoEnvelope]
  /\ stamp = [r \in Requests |-> 0]
  /\ link = [r \in Requests |-> NoLink]

\* What a request that has a connection does after its checks.
Commit(r) ==
  PruneNonces(r) \/ InsertNonce(r) \/ NextChainPosition(r) \/ WriteReceipt(r)

LedgerNext ==
  \/ \E r \in Requests, e \in Envelopes : Receive(r, e)
  \/ \E r \in Requests : Acquire(r) \/ Pass(r) \/ Commit(r) \/ Fail(r)
  \/ \E k \in UsageNonces, now \in 0..MaxTime : ConsumeUsageNonce(k, now)
  \/ Crash
  \/ Tick

LedgerSpec == LedgerInit /\ [][LedgerNext]_ledgerVars

----------------------------------------------------------------------------
(* Properties.                                                             *)

\* Two requests carrying one envelope never both obtain a receipt while the
\* envelope is still valid: until it expires, its row in agent_action_nonces
\* refuses the second one, whatever other requests prune meanwhile.
SingleUseWhileFresh ==
  \A r1, r2 \in Requests :
    (/\ stage[r1] = "done" /\ stage[r2] = "done"
     /\ env[r1] = env[r2] /\ r1 # r2)
    => env[r1].exp < clock

\* Every chained receipt points at a stored receipt of the same tenant with
\* the preceding sequence number, or opens the chain: concurrent writers may
\* fork the chain but never leave a dangling or cross-tenant link.
LinkedToPredecessor ==
  \A x \in receipts : x.seq > 0 =>
    \/ x.seq = 1 /\ x.prev = Genesis
    \/ \E y \in receipts : /\ y.tenant = x.tenant
                           /\ y.seq = x.seq - 1
                           /\ y.seq > 0
                           /\ x.prev = ChainHash(y)

\* verify_receipt_chain: walking the chained rows in seq order meets 1, 2, ...
\* without gap or repetition, each row carrying the hash of the one before.
VerifyReceiptChain(t) ==
  LET rows == {x \in RowsOf(t) : x.seq > 0} IN
    /\ \A x, y \in rows : x.seq = y.seq => x = y
    /\ \A x \in rows :
         IF x.seq = 1 THEN x.prev = Genesis
         ELSE \E y \in rows : y.seq = x.seq - 1 /\ x.prev = ChainHash(y)

\* What next_chain_position's comment claims: no two receipts of a tenant are
\* ever linked to one head, so the verifier accepts the chain in every state.
ChainVerifies == \A t \in Tenants : VerifyReceiptChain(t)
=============================================================================
