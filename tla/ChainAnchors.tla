---------------------------- MODULE ChainAnchors ----------------------------
(***************************************************************************)
(* The anchor providers and what waits for them: bitcoin_anchor.rs,        *)
(* solana_anchor.rs and the proof checkpoints of routes.rs.  A run of      *)
(* ActionAnchor publishes the root of a batch with each provider; two      *)
(* background tasks then ask the calendars and the Solana cluster, again   *)
(* and again, which roots have made it into a block.  A checkpoint over an *)
(* anchored batch lets proofs about its receipts be verified.              *)
(*                                                                         *)
(* What the calendars and the cluster do with a root is external: it is    *)
(* mined, dropped, or vouched for without being in any block, since the    *)
(* upgrader believes a calendar's answer as it comes.                      *)
(***************************************************************************)
EXTENDS Naturals, Sequences, FiniteSets

CONSTANTS
  ChainTenants,   \* the tenants that anchor
  DefaultTenant,  \* the tenant a provider row has at first
  Nets,           \* the providers configured: subset of {"ots", "sol"}
  PollLimit,      \* rows a poller asks about at a time (100)
  Circuits,       \* the proof circuits used: of ALLOWED_CHECKPOINT_CIRCUITS
  Production,     \* whether the runtime is a production one
  MaxBatches,     \* bound on the batches (model bound)
  MaxOutages      \* bound on failed calls and restarts (model bound)

ASSUME ChainAssumption ==
  /\ "ots" \in Nets /\ Nets \subseteq {"ots", "sol"}
  /\ PollLimit \in Nat \ {0}
  /\ Production \in BOOLEAN
  /\ MaxBatches \in Nat /\ MaxOutages \in Nat

VARIABLES
  anchored,    \* agent_action_anchors: [tenant, rows, status, intact]
  provRows,    \* bitcoin_ and solana_merkle_anchors, in the order of their ids
  fate,        \* external: what has become of each published root
  polled,      \* the rows each poller still has to look at in this round
  checkpoints, \* zk_proof_checkpoints: <<tenant, batch, circuit>>
  accepted,    \* history: the checkpoints against which proofs were accepted
  outages

chainVars == <<anchored, provRows, fate, polled, checkpoints, accepted, outages>>

RowsOfNet(n) == {i \in 1..Len(provRows) : provRows[i].net = n}

\* A failure or a restart, as long as the bound allows one.
Outage == outages < MaxOutages /\ outages' = outages + 1

----------------------------------------------------------------------------
(* Publishing the root of a batch.                                         *)

OpenBatch(t) ==
  /\ Len(anchored) < MaxBatches
  /\ anchored' = Append(anchored, [tenant |-> t, rows |-> [n \in Nets |-> 0],
                                   status |-> "pending", intact |-> TRUE])
  /\ UNCHANGED <<provRows, fate, polled, checkpoints, accepted, outages>>

\* A row with a confirmation still to come.
SentRow(n) == [net |-> n, tenant |-> DefaultTenant, done |-> FALSE]

\* publish_opentimestamps (the first calendar that takes the digest wins) and
\* publish_root.
PublishRoot(b, n) ==
  /\ anchored[b].status = "pending" /\ anchored[b].rows[n] = 0
  /\ provRows' = Append(provRows, SentRow(n))
  /\ fate' = Append(fate, "waiting")
  /\ anchored' = [anchored EXCEPT ![b].rows[n] = Len(provRows) + 1]
  /\ UNCHANGED <<polled, checkpoints, accepted, outages>>

\* The last step of the run: the rows get the tenant of the batch, and the
\* batch is submitted if both providers took the root.
SettleBatch(b) ==
  /\ anchored[b].status = "pending"
  /\ LET got == {n \in Nets : anchored[b].rows[n] # 0} IN
       /\ got = Nets \/ outages < MaxOutages
       /\ outages' = IF got = Nets THEN outages ELSE outages + 1
       /\ anchored' = [anchored EXCEPT ![b].status =
            IF got = Nets THEN "submitted" ELSE IF got # {} THEN "partial" ELSE "failed"]
       /\ provRows' = [i \in 1..Len(provRows) |->
            IF \E n \in got : anchored[b].rows[n] = i
              THEN [provRows[i] EXCEPT !.tenant = anchored[b].tenant] ELSE provRows[i]]
  /\ UNCHANGED <<fate, polled, checkpoints, accepted>>

Fates == {"mined", "dropped", "vouched"}

\* External: a root is included in a block, dropped, or reported as included
\* without being so.
Resolve(i, f) ==
  /\ fate[i] = "waiting"
  /\ fate' = [fate EXCEPT ![i] = f]
  /\ UNCHANGED <<anchored, provRows, polled, checkpoints, accepted, outages>>

----------------------------------------------------------------------------
(* The pollers: spawn_ots_upgrader, spawn_solana_confirmer.                *)

Unconfirmed(n) == {i \in RowsOfNet(n) : ~provRows[i].done}
LimitTo(S) == {R \in SUBSET S : Cardinality(R) = IF Cardinality(S) < PollLimit
                                                 THEN Cardinality(S) ELSE PollLimit}

\* Bug: rows already confirmed are asked about again.
PollBatchesBug(n) == LimitTo(RowsOfNet(n))

\* SELECT ... WHERE not confirmed LIMIT 100 names no order: any such rows.
PollBatches(n) == LimitTo(Unconfirmed(n))

StartRound(n) ==
  /\ polled[n] = {} /\ Unconfirmed(n) # {}
  /\ \E R \in PollBatches(n) : polled' = [polled EXCEPT ![n] = R]
  /\ UNCHANGED <<anchored, provRows, fate, checkpoints, accepted, outages>>

\* The answer about a root: 200 from the calendar, whatever it sends; confirmed
\* or finalized, without an error, from the cluster.
Included(i) == fate[i] \in {"mined", "vouched"}

\* The next row of the round.  A call that fails leaves the row for another
\* round; the cluster is asked about all rows at once.
LookAt(n) ==
  \E i \in polled[n] :
    /\ \/ /\ provRows' = IF Included(i) THEN [provRows EXCEPT ![i].done = TRUE] ELSE provRows
          /\ polled' = [polled EXCEPT ![n] = @ \ {i}]
          /\ UNCHANGED outages
       \/ /\ Outage
          /\ polled' = [polled EXCEPT ![n] = IF n = "sol" THEN {} ELSE @ \ {i}]
          /\ UNCHANGED provRows
    /\ UNCHANGED <<anchored, fate, checkpoints, accepted>>

\* The server restarts: the rounds are forgotten, and nobody settles the batches
\* that were under way any more (their rows stay pending).
RestartPollers ==
  /\ Outage
  /\ polled' = [n \in Nets |-> {}]
  /\ anchored' = [b \in 1..Len(anchored) |->
       IF anchored[b].status = "pending" THEN [anchored[b] EXCEPT !.status = "left pending"]
       ELSE anchored[b]]
  /\ UNCHANGED <<provRows, fate, checkpoints, accepted>>

----------------------------------------------------------------------------
(* Proof checkpoints.                                                      *)

\* A receipt becomes visible inside the range of a batch (see ActionAnchor), or
\* the range holds one that is not an ordinary action receipt.
Disturb(b) ==
  /\ anchored[b].intact
  /\ anchored' = [anchored EXCEPT ![b].intact = FALSE]
  /\ UNCHANGED <<provRows, fate, polled, checkpoints, accepted, outages>>

\* Bug: a proof that has not been upgraded is good enough.
BackedByBitcoinBug(t, b) == anchored[b].rows["ots"] # 0

\* The LEFT JOIN on the tenant's own bitcoin row, and what production asks of
\* it: an OpenTimestamps proof that has been upgraded.
BackedByBitcoin(t, b) ==
  LET i == anchored[b].rows["ots"] IN
    /\ i # 0
    /\ Production => provRows[i].tenant = t /\ provRows[i].done

\* The circuits about the whole batch of ordinary receipts.
Transparent == {"StatsHonestComputation", "TransparentActionPolicy"}

\* finalize_proof_checkpoint for a batch of the caller's tenant.  The receipts
\* are counted and their MACs verified for the transparent circuits only.
FinalizeCheckpoint(t, b, circuit) ==
  /\ anchored[b].tenant = t
  /\ circuit \in Transparent => anchored[b].intact
  /\ anchored[b].status = "submitted"
  /\ BackedByBitcoin(t, b)
  /\ checkpoints' = checkpoints \cup {<<t, b, circuit>>}
  /\ UNCHANGED <<anchored, provRows, fate, polled, accepted, outages>>

\* transparent_verify_handler, action_log_verify_handler: root and size of the
\* statement must be those of a finalized checkpoint of tenant and circuit.
VerifyProof(t, b, circuit) ==
  /\ <<t, b, circuit>> \in checkpoints
  /\ accepted' = accepted \cup {<<t, b, circuit>>}
  /\ UNCHANGED <<anchored, provRows, fate, polled, checkpoints, outages>>

----------------------------------------------------------------------------
(* Specification.                                                          *)

ChainInit ==
  /\ anchored = <<>>
  /\ provRows = <<>>
  /\ fate = <<>>
  /\ polled = [n \in Nets |-> {}]
  /\ checkpoints = {}
  /\ accepted = {}
  /\ outages = 0

Poll(n) == StartRound(n) \/ LookAt(n)

BatchStep(b) ==
  \/ \E n \in Nets : PublishRoot(b, n)
  \/ SettleBatch(b)
  \/ Disturb(b)
  \/ \E t \in ChainTenants, c \in Circuits : FinalizeCheckpoint(t, b, c) \/ VerifyProof(t, b, c)

ChainNext ==
  \/ \E t \in ChainTenants : OpenBatch(t)
  \/ \E b \in 1..Len(anchored) : BatchStep(b)
  \/ \E i \in 1..Len(fate), f \in Fates : Resolve(i, f)
  \/ \E n \in Nets : Poll(n)
  \/ RestartPollers

ChainSpec == ChainInit /\ [][ChainNext]_chainVars

\* The pollers run on their own tickers for as long as the server does.
ChainFairness == \A n \in Nets : WF_chainVars(Poll(n))

----------------------------------------------------------------------------
(* Properties.                                                             *)

\* A poller's rounds may be full of other rows that never confirm.
Blocked(i) == Cardinality(Unconfirmed(provRows[i].net) \ {i}) >= PollLimit

\* A root that has made it into a block is recorded as confirmed in the end,
\* across failed calls and restarts and whichever rows a round picks, unless
\* PollLimit other roots of the same provider are unconfirmed
\* (spawn_ots_upgrader, spawn_solana_confirmer).
MinedRootsAreConfirmed ==
  \A i \in 1..(MaxBatches * Cardinality(Nets)) :
    (i <= Len(fate) /\ fate[i] = "mined") ~>
      (i <= Len(provRows) /\ (provRows[i].done \/ Blocked(i)))

\* In production a proof is accepted only over a batch of the tenant's own whose
\* root is in a Bitcoin block, or whose calendar says so: a root still waiting,
\* dropped or never published backs nothing, at any order of publications,
\* polls, restarts and checkpoints (finalize_proof_checkpoint).
ProofsRestOnUpgradedRoots ==
  \A p \in accepted :
    LET b == anchored[p[2]] IN
      Production => /\ b.tenant = p[1] /\ b.rows["ots"] # 0
                    /\ fate[b.rows["ots"]] \in {"mined", "vouched"}
=============================================================================
