---------------------------- MODULE ActionAnchor ----------------------------
(***************************************************************************)
(* Anchoring of action receipts: core/src/agent_action_anchor.rs.  A run   *)
(* of anchor_pending_actions_for_tenant takes the receipts of one tenant   *)
(* after the last submitted batch, builds a Merkle tree over them and the  *)
(* head of the audit chain, stores a batch row and publishes the root with *)
(* the configured providers (OpenTimestamps and Solana).  The background   *)
(* task and the operator's forced runs may overlap, and every statement is *)
(* a transaction of its own.                                               *)
(*                                                                         *)
(* A receipt is ordered by (created_at, receipt_id).  Its id is random and *)
(* its created_at was read before the request waited for a connection (see *)
(* ReceiptLedger), so receipts do not become visible in that order.  A     *)
(* Merkle root is collision free: it is represented by its leaves, which   *)
(* are in the order of their keys wherever a tree is built, so by a set.   *)
(***************************************************************************)
EXTENDS Integers, FiniteSets

CONSTANTS
  Tenants,
  ReceiptIds,   \* a finite set of numbers: random ids, ordered as strings
  Runs,         \* the loops that anchor: the background task, forced runs
  Ticker,       \* the background task among them
  NoRun,        \* the owner of a batch row nobody is working on
  Providers,    \* the anchor providers configured: subset of {"btc", "sol"}
  BatchCap,     \* MAX_RECEIPTS_PER_BATCH
  MaxTime,      \* bound on the clock (model bound)
  MaxAudit,     \* bound on the audit chain (model bound)
  MaxFaults     \* bound on failed lookups, provider failures and lost runs
                \* (model bound)

ASSUME AnchorAssumption ==
  /\ ReceiptIds \subseteq Nat \ {0} /\ IsFiniteSet(ReceiptIds)
  /\ IsFiniteSet(Providers)
  /\ NoRun \notin Runs
  /\ Ticker \in Runs
  /\ BatchCap \in Nat \ {0}
  /\ MaxTime \in Nat /\ MaxAudit \in Nat /\ MaxFaults \in Nat

VARIABLES
  clock,
  stamped,   \* requests that have read `now` but not yet stored their receipt
  receipts,  \* rows of agent_action_receipts: [id, tenant, ts]
  run,       \* the local state of each run
  batches,   \* rows of agent_action_anchors
  faults,    \* how many failures have happened
  late       \* history: receipts stored behind what a run had already taken

vars == <<clock, stamped, receipts, run, batches, faults, late>>

KeyOf(x) == [ts |-> x.ts, id |-> x.id]
Before(k, l) == k.ts < l.ts \/ (k.ts = l.ts /\ k.id < l.id)
Upto(k, l) == k = l \/ Before(k, l)
Zero == [ts |-> 0, id |-> 0]

IdleRun == [phase |-> "idle", tenant |-> CHOOSE t \in Tenants : TRUE, mark |-> Zero,
            rows |-> {}, anchors |-> {}]

----------------------------------------------------------------------------
(* Receipts, as far as anchoring sees them.                                *)

\* A request reads `now`; its id is drawn later but no row depends on when.
StampReceipt(i, t) ==
  /\ \A x \in stamped \cup receipts : x.id # i
  /\ stamped' = stamped \cup {[id |-> i, tenant |-> t, ts |-> clock]}
  /\ UNCHANGED <<clock, receipts, run, batches, faults, late>>

\* The rows that runs have ever taken, under way or in a batch.
Taken == (UNION {run[u].rows : u \in Runs}) \cup (UNION {b.rows : b \in batches})

\* The receipt becomes visible.  It is late if a run has already taken a
\* receipt of the tenant that comes after it.
StoreReceipt(x) ==
  /\ x \in stamped
  /\ stamped' = stamped \ {x}
  /\ receipts' = receipts \cup {x}
  /\ late' = IF \E y \in Taken : y.tenant = x.tenant /\ Before(KeyOf(x), KeyOf(y))
               THEN late \cup {x.id} ELSE late
  /\ UNCHANGED <<clock, run, batches, faults>>

Tick ==
  /\ clock < MaxTime
  /\ clock' = clock + 1
  /\ UNCHANGED <<stamped, receipts, run, batches, faults, late>>

----------------------------------------------------------------------------
(* anchor_pending_actions_for_tenant.                                      *)

\* Where the batches in `found` whose rank is greatest end.
EndsOfGreatest(found, rank(_)) ==
  IF found = {} THEN {Zero}
  ELSE {b.last : b \in {c \in found : \A d \in found : rank(d) <= rank(c)}}

EndTime(b) == b.last.ts

\* Bug: failed and half-published batches count as well.
WatermarksAnyStatus(t) ==
  EndsOfGreatest({b \in batches : b.tenant = t /\ b.status # "pending"}, EndTime)

\* Bug: the youngest batch row is taken for the one that reaches furthest.
WatermarksByAge(t) ==
  EndsOfGreatest({b \in batches : b.tenant = t /\ b.status = "submitted"},
                 LAMBDA b : b.created)

\* The answers `ORDER BY to_created_at DESC LIMIT 1` may give over the
\* submitted batches of t: a tie is resolved arbitrarily.
Watermarks(t) ==
  EndsOfGreatest({b \in batches : b.tenant = t /\ b.status = "submitted"}, EndTime)

\* The run starts; a lookup that fails is taken for "nothing anchored yet".
ReadWatermark(u, t) ==
  /\ run[u].phase = "idle"
  /\ \/ /\ \E k \in Watermarks(t) :
              run' = [run EXCEPT ![u] = [IdleRun EXCEPT !.phase = "marked", !.tenant = t,
                                                        !.mark = k]]
        /\ UNCHANGED faults
     \/ /\ faults < MaxFaults
        /\ faults' = faults + 1
        /\ run' = [run EXCEPT ![u] = [IdleRun EXCEPT !.phase = "marked", !.tenant = t]]
  /\ UNCHANGED <<clock, stamped, receipts, batches, late>>

\* ORDER BY created_at, receipt_id LIMIT MAX_RECEIPTS_PER_BATCH.
Oldest(rows) ==
  {x \in rows : Cardinality({y \in rows : Before(KeyOf(y), KeyOf(x))}) < BatchCap}

\* The oldest BatchCap receipts of t strictly after key k.
PendingAfter(t, k) == Oldest({x \in receipts : x.tenant = t /\ Before(k, KeyOf(x))})

\* An empty selection ends the run without a batch.
TakeReceipts(u) ==
  /\ run[u].phase = "marked"
  /\ LET rows == PendingAfter(run[u].tenant, run[u].mark) IN
       run' = [run EXCEPT ![u] = IF rows = {} THEN IdleRun
                                 ELSE [@ EXCEPT !.phase = "taken", !.rows = rows]]
  /\ UNCHANGED <<clock, stamped, receipts, batches, faults, late>>

\* The first and the last of the rows, in the order they were selected in.
Ends(rows, a, z) ==
  \A x \in rows : Upto(KeyOf(a), KeyOf(x)) /\ Upto(KeyOf(x), KeyOf(z))

\* audit_chain_head, the Merkle tree over both, and the INSERT of the row.  Any
\* number of entries may be in the audit chain by now; 0 stands for none.
InsertBatch(u, h) ==
  /\ run[u].phase = "taken"
  /\ \E a, z \in run[u].rows :
       /\ Ends(run[u].rows, a, z)
       /\ batches' = batches \cup
            {[owner |-> u, tenant |-> run[u].tenant, rows |-> run[u].rows, head |-> h,
              first |-> KeyOf(a), last |-> KeyOf(z), status |-> "pending",
              created |-> clock]}
  /\ run' = [run EXCEPT ![u].phase = "pending"]
  /\ UNCHANGED <<clock, stamped, receipts, faults, late>>

\* Both providers are called; `ok` are the ones that accept the root.
Publish(u, ok) ==
  /\ run[u].phase = "pending"
  /\ ok # Providers => faults < MaxFaults
  /\ faults' = IF ok # Providers THEN faults + 1 ELSE faults
  /\ run' = [run EXCEPT ![u].phase = "published", ![u].anchors = ok]
  /\ UNCHANGED <<clock, stamped, receipts, batches, late>>

\* Bug: a run that reached every provider is recorded as partial.
OutcomeNeverFull(ok) == IF ok # {} THEN "partial" ELSE "failed"

Outcome(ok) ==
  IF Providers # {} /\ ok = Providers THEN "submitted"
  ELSE IF ok # {} THEN "partial" ELSE "failed"

\* What becomes of the rows when run u stops working on its own.
Release(u, status) ==
  {IF b.owner = u THEN [b EXCEPT !.owner = NoRun, !.status = status] ELSE b : b \in batches}

\* The final UPDATE of the batch row.
RecordOutcome(u) ==
  /\ run[u].phase = "published"
  /\ batches' = Release(u, Outcome(run[u].anchors))
  /\ run' = [run EXCEPT ![u] = IdleRun]
  /\ UNCHANGED <<clock, stamped, receipts, faults, late>>

\* The process dies or a statement fails: the run ends where it is and its
\* batch row, if it has one, stays pending for ever.
LoseRun(u) ==
  /\ run[u].phase \in {"marked", "taken", "pending", "published"}
  /\ faults < MaxFaults
  /\ faults' = faults + 1
  /\ run' = [run EXCEPT ![u] = IdleRun]
  /\ batches' = Release(u, "pending")
  /\ UNCHANGED <<clock, stamped, receipts, late>>

----------------------------------------------------------------------------
(* proof_for_receipt_for_tenant.                                           *)

\* Bug: the rows are selected by created_at alone.
RebuildBug(b) ==
  {x \in receipts : x.tenant = b.tenant /\ b.first.ts <= x.ts /\ x.ts <= b.last.ts}

\* The receipts fetched again for batch b, by tuple-ordered bounds.
Rebuild(b) ==
  {x \in receipts : x.tenant = b.tenant /\ Upto(b.first, KeyOf(x)) /\ Upto(KeyOf(x), b.last)}

\* The batches a proof for receipt x may be given for: of those whose time
\* range covers it, one of the oldest, whatever its status.
ProofBatches(x) ==
  LET covering == {b \in batches : /\ b.tenant = x.tenant
                                   /\ b.first.ts <= x.ts
                                   /\ x.ts <= EndTime(b)} IN
    {b \in covering : \A c \in covering : b.created <= c.created}

\* The leaves of the anchored tree, and those of the tree a proof is cut from.
AnchoredLeaves(b) == [rows |-> b.rows, head |-> b.head]
ProofLeaves(b) == [rows |-> Rebuild(b), head |-> 0]

----------------------------------------------------------------------------
(* Specification.                                                          *)

Init ==
  /\ clock = 0
  /\ stamped = {}
  /\ receipts = {}
  /\ run = [u \in Runs |-> IdleRun]
  /\ batches = {}
  /\ faults = 0
  /\ late = {}

\* One step of a run that is under way.
Anchor(u) ==
  \/ TakeReceipts(u)
  \/ \E h \in 0..MaxAudit : InsertBatch(u, h)
  \/ \E ok \in SUBSET Providers : Publish(u, ok)
  \/ RecordOutcome(u)

Next ==
  \/ \E i \in ReceiptIds, t \in Tenants : StampReceipt(i, t)
  \/ \E x \in stamped : StoreReceipt(x)
  \/ Tick
  \/ \E u \in Runs, t \in Tenants : ReadWatermark(u, t)
  \/ \E u \in Runs : Anchor(u) \/ LoseRun(u)

\* The background task starts a run for every tenant again and again, and a run
\* that has started is driven to its end; nobody need ever force a run.
Fairness ==
  /\ \A u \in Runs : WF_vars(Anchor(u))
  /\ \A t \in Tenants : SF_vars(ReadWatermark(Ticker, t))

Spec == Init /\ [][Next]_vars
FairSpec == Spec /\ Fairness

----------------------------------------------------------------------------
(* Properties.                                                             *)

Submitted == {b \in batches : b.status = "submitted"}

\* The part of anchoring that works: a receipt behind the watermark the next
\* run may start from is in a submitted batch, unless it became visible only
\* after a run had passed it.  Batches that failed, overlapped or were cut
\* short hide no receipt.
CoveredUnlessLate ==
  \A x \in receipts : \A k \in Watermarks(x.tenant) :
    (Upto(KeyOf(x), k) /\ x.id \notin late) => \E b \in Submitted : x \in b.rows

\* What the comments promise: no receipt is ever passed over.
NoReceiptDropped ==
  \A x \in receipts : \A k \in Watermarks(x.tenant) :
    Upto(KeyOf(x), k) => \E b \in Submitted : x \in b.rows

\* The rows fetched for a proof are those of the batch and late ones only, so
\* without late receipts the receipts of the tree are rebuilt exactly.
RebuildExactUnlessLate ==
  \A b \in batches : \A x \in Rebuild(b) : x \in b.rows \/ x.id \in late

\* What the comment in proof_for_receipt_for_tenant promises: the tree a proof
\* is cut from is the one that was anchored.
ProofMatchesRoot ==
  \A b \in Submitted : \A x \in b.rows : \A c \in ProofBatches(x) :
    ProofLeaves(c) = AnchoredLeaves(c)

\* The created_at a run starts from never moves back, also when runs overlap
\* and finish in the wrong order.
WatermarkNeverRetreats ==
  [][\A t \in Tenants : \A k \in Watermarks(t) : \A l \in Watermarks(t)' : k.ts <= l.ts]_vars

\* More receipts share x's second than one batch can hold: then the tie among
\* batches that end in that second may keep runs from moving on.
Crowded(x) == Cardinality({y \in receipts : y.tenant = x.tenant /\ y.ts = x.ts}) > BatchCap

\* A receipt that becomes visible in time is in the end part of a submitted
\* batch, once providers stop failing: also behind a backlog of more than one
\* batch, after failed runs, and with runs that overlap.
EventuallyAnchored ==
  \A i \in ReceiptIds :
    (\E x \in receipts : x.id = i) ~>
      \/ i \in late
      \/ \E x \in receipts : x.id = i /\ Crowded(x)
      \/ \E b \in Submitted : \E x \in b.rows : x.id = i
=============================================================================
