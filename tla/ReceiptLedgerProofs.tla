------------------------ MODULE ReceiptLedgerProofs -------------------------
(***************************************************************************)
(* Proofs about ReceiptLedger, for any number of requests, envelopes and   *)
(* tenants and any pool size.                                              *)
(***************************************************************************)
EXTENDS ReceiptLedger, FiniteSetTheorems, TLAPS

----------------------------------------------------------------------------
(* Types.                                                                  *)

\* A request that has been received carries an envelope.
EnvKnown == \A r \in Requests : stage[r] # "idle" => env[r] \in Envelopes

TypeInv == TypeOK /\ EnvKnown

\* The stored rows of a state in which no request has been received.
LEMMA InitTypeInv == LedgerInit => TypeInv
  BY LedgerAssumption DEF LedgerInit, TypeInv, TypeOK, EnvKnown, Stages, Receipt,
     ReceiptIds, NoLink

\* Every step keeps the types and the envelope of a received request.
LEMMA NextTypeInv == TypeInv /\ [LedgerNext]_ledgerVars => TypeInv'
<1> SUFFICES ASSUME TypeInv, [LedgerNext]_ledgerVars PROVE TypeInv'
  OBVIOUS
<1> USE LedgerAssumption DEF TypeInv, TypeOK, EnvKnown, Stages
<1>1. CASE \E r \in Requests, e \in Envelopes : Receive(r, e)
  <2> PICK r \in Requests, e \in Envelopes : Receive(r, e)
    BY <1>1
  <2> QED BY DEF Receive, MoveTo
<1>2. CASE \E r \in Requests : Acquire(r)
  BY <1>2 DEF Acquire, MoveTo
<1>3. CASE \E r \in Requests : Pass(r)
  BY <1>3 DEF Pass, MoveTo
<1>4. CASE \E r \in Requests : PruneNonces(r)
  BY <1>4 DEF PruneNonces, MoveTo
<1>5. CASE \E r \in Requests : InsertNonce(r)
  <2> PICK r \in Requests : InsertNonce(r)
    BY <1>5
  <2>1. env[r] \in Envelopes
    BY DEF InsertNonce
  <2>2. nonces' \subseteq [nonce: Nonces, exp: Nat]
    BY <2>1 DEF InsertNonce
  <2> QED BY <2>2 DEF InsertNonce, MoveTo
<1>6. CASE \E r \in Requests : NextChainPosition(r)
  <2> PICK r \in Requests : NextChainPosition(r)
    BY <1>6
  <2>1. link' \in [Requests -> [seq: Nat, prev: ReceiptIds \cup {Genesis}]]
    <3>1. CASE link' = [link EXCEPT ![r] = [seq |-> 1, prev |-> Genesis]]
      BY <3>1
    <3>2. CASE \E h \in Heads(env[r].tenant) :
                 link' = [link EXCEPT ![r] = [seq |-> h.seq + 1, prev |-> ChainHash(h)]]
      BY <3>2 DEF Heads, RowsOf, ChainHash, Receipt
    <3> QED BY <3>1, <3>2 DEF NextChainPosition
  <2> QED BY <2>1 DEF NextChainPosition, MoveTo
<1>7. CASE \E r \in Requests : WriteReceipt(r)
  <2> PICK r \in Requests : WriteReceipt(r)
    BY <1>7
  <2>1. env[r] \in Envelopes
    BY DEF WriteReceipt
  <2>2. receipts' \subseteq Receipt
    BY <2>1 DEF WriteReceipt, Receipt, ReceiptIds
  <2> QED BY <2>2 DEF WriteReceipt, MoveTo
<1>8. CASE \E r \in Requests : Fail(r)
  BY <1>8 DEF Fail, MoveTo, Holding
<1>9. CASE \E k \in UsageNonces, now \in 0..MaxTime : ConsumeUsageNonce(k, now)
  BY <1>9 DEF ConsumeUsageNonce
<1>10. CASE Crash
  BY <1>10 DEF Crash, Holding
<1>11. CASE Tick
  BY <1>11 DEF Tick
<1>12. CASE UNCHANGED ledgerVars
  BY <1>12 DEF ledgerVars
<1> QED BY <1>1, <1>2, <1>3, <1>4, <1>5, <1>6, <1>7, <1>8, <1>9, <1>10, <1>11, <1>12
        DEF LedgerNext, Commit

\* The rows of both tables and the state of every request keep their types,
\* for every set of requests and envelopes and every pool size.
THEOREM TypeCorrect == LedgerSpec => []TypeOK
<1>1. TypeInv => TypeOK
  BY DEF TypeInv
<1> QED BY <1>1, InitTypeInv, NextTypeInv, PTL DEF LedgerSpec

----------------------------------------------------------------------------
(* Single use.                                                             *)

\* The requests whose nonce is committed and that have not failed.
Used(r) == stage[r] \in {"burnt", "linked", "done"}

\* `now` was read in the past.
StampPast == \A r \in Requests : stamp[r] <= clock

\* Until its envelope expires, a used nonce stays in the table.
NonceKept ==
  \A r \in Requests : Used(r) =>
    \/ env[r].exp < clock
    \/ \E n \in nonces : n.nonce = env[r].nonce /\ n.exp = env[r].exp

\* Two requests that used one nonce: one of the envelopes has expired.
UsedOnce ==
  \A r, q \in Requests :
    (r # q /\ Used(r) /\ Used(q) /\ env[r].nonce = env[q].nonce)
      => env[r].exp < clock \/ env[q].exp < clock

SingleUseInv == TypeInv /\ StampPast /\ NonceKept /\ UsedOnce

\* No request has been received initially.
LEMMA InitSingleUse == LedgerInit => SingleUseInv
  BY InitTypeInv, LedgerAssumption
     DEF LedgerInit, SingleUseInv, StampPast, NonceKept, UsedOnce, Used

\* A step that adds no request to those that used a nonce and touches neither
\* the table nor their envelopes keeps the invariant, since the clock only
\* moves forward.
LEMMA QuietStep ==
  ASSUME SingleUseInv, TypeInv',
         nonces \subseteq nonces', clock <= clock',
         \A r \in Requests : Used(r)' => Used(r) /\ env'[r] = env[r],
         \A r \in Requests : stamp'[r] = stamp[r] \/ stamp'[r] = clock
  PROVE  SingleUseInv'
<1> USE LedgerAssumption
<1>1. \A r \in Requests : Used(r) => env[r] \in Envelopes /\ env[r].exp \in Nat
  BY DEF SingleUseInv, TypeInv, EnvKnown, Used
<1>2. clock \in Nat /\ clock' \in Nat /\ \A r \in Requests : stamp[r] \in Nat
  BY DEF SingleUseInv, TypeInv, TypeOK
<1>3. StampPast'
  BY <1>2 DEF SingleUseInv, StampPast
<1>4. NonceKept'
  <2> SUFFICES ASSUME NEW r \in Requests, Used(r)'
               PROVE  \/ env'[r].exp < clock'
                      \/ \E n \in nonces' : n.nonce = env'[r].nonce /\ n.exp = env'[r].exp
    BY DEF NonceKept
  <2>1. CASE env[r].exp < clock
    BY <2>1, <1>1, <1>2
  <2>2. CASE \E n \in nonces : n.nonce = env[r].nonce /\ n.exp = env[r].exp
    BY <2>2
  <2> QED BY <2>1, <2>2 DEF SingleUseInv, NonceKept
<1>5. UsedOnce'
  BY <1>1, <1>2 DEF SingleUseInv, UsedOnce
<1> QED BY <1>3, <1>4, <1>5 DEF SingleUseInv

\* Every step keeps the single-use invariant; the steps that matter are the
\* pruning of expired rows and the insertion of a new one.
LEMMA NextSingleUse == SingleUseInv /\ [LedgerNext]_ledgerVars => SingleUseInv'
<1> SUFFICES ASSUME SingleUseInv, [LedgerNext]_ledgerVars PROVE SingleUseInv'
  OBVIOUS
<1> USE LedgerAssumption
<1>t. TypeInv /\ TypeInv'
  BY NextTypeInv DEF SingleUseInv
<1>c. clock \in Nat /\ stage \in [Requests -> Stages] /\ env \in [Requests -> Envelopes \cup {NoEnvelope}]
      /\ stamp \in [Requests -> Nat]
  BY <1>t DEF TypeInv, TypeOK
<1>1. CASE \E r \in Requests, e \in Envelopes : Receive(r, e)
  <2> PICK r \in Requests, e \in Envelopes : Receive(r, e)
    BY <1>1
  <2>1. \A q \in Requests : Used(q)' => Used(q) /\ env'[q] = env[q]
    BY <1>c DEF Receive, MoveTo, Used
  <2>2. nonces' = nonces /\ clock' = clock
        /\ \A q \in Requests : stamp'[q] = stamp[q] \/ stamp'[q] = clock
    BY <1>c DEF Receive
  <2> QED BY <1>t, <1>c, <2>1, <2>2, QuietStep
<1>2. CASE \E r \in Requests : Acquire(r) \/ Pass(r) \/ Fail(r)
            \/ NextChainPosition(r) \/ WriteReceipt(r)
  <2> PICK r \in Requests : Acquire(r) \/ Pass(r) \/ Fail(r)
                            \/ NextChainPosition(r) \/ WriteReceipt(r)
    BY <1>2
  <2>1. \A q \in Requests : Used(q)' => Used(q) /\ env'[q] = env[q]
    BY <1>c DEF Acquire, Pass, Fail, NextChainPosition, WriteReceipt, MoveTo, Used
  <2>2. nonces' = nonces /\ clock' = clock /\ stamp' = stamp
    BY DEF Acquire, Pass, Fail, NextChainPosition, WriteReceipt
  <2> QED BY <1>t, <1>c, <2>1, <2>2, QuietStep
<1>3. CASE \E r \in Requests : PruneNonces(r)
  <2> PICK r \in Requests : PruneNonces(r)
    BY <1>3
  <2>1. stamp[r] <= clock /\ stamp[r] \in Nat
    BY <1>c DEF SingleUseInv, StampPast
  <2>2. \A q \in Requests : Used(q)' => Used(q)
    BY <1>c DEF PruneNonces, MoveTo, Used
  <2>3. StampPast' /\ UsedOnce'
    BY <2>2 DEF PruneNonces, SingleUseInv, StampPast, UsedOnce
  <2>4. NonceKept'
    <3> SUFFICES ASSUME NEW q \in Requests, Used(q), ~(env[q].exp < clock)
                 PROVE  \E n \in nonces' : n.nonce = env[q].nonce /\ n.exp = env[q].exp
      BY <2>2 DEF NonceKept, PruneNonces
    <3>1. PICK n \in nonces : n.nonce = env[q].nonce /\ n.exp = env[q].exp
      BY DEF SingleUseInv, NonceKept
    <3>2. env[q].exp \in Nat
      BY <1>t DEF Used, TypeInv, EnvKnown
    <3>3. ~(n.exp < stamp[r])
      BY <1>c, <2>1, <3>1, <3>2
    <3> QED BY <3>1, <3>3 DEF PruneNonces
  <2> QED BY <1>t, <2>3, <2>4 DEF SingleUseInv
<1>4. CASE \E r \in Requests : InsertNonce(r)
  <2> PICK r \in Requests : InsertNonce(r)
    BY <1>4
  <2>1. CASE \E n \in nonces : n.nonce = env[r].nonce
    <3>1. \A q \in Requests : Used(q)' => Used(q) /\ env'[q] = env[q]
      BY <1>c, <2>1 DEF InsertNonce, MoveTo, Used
    <3>2. nonces' = nonces /\ clock' = clock /\ stamp' = stamp
      BY <2>1 DEF InsertNonce
    <3> QED BY <1>t, <1>c, <3>1, <3>2, QuietStep
  <2>2. CASE ~\E n \in nonces : n.nonce = env[r].nonce
    <3> DEFINE row == [nonce |-> env[r].nonce, exp |-> env[r].exp]
    <3>1. nonces' = nonces \cup {row} /\ env' = env /\ clock' = clock /\ stamp' = stamp
      BY <2>2 DEF InsertNonce
    <3>2. \A q \in Requests : Used(q)' => Used(q) \/ q = r
      BY <1>c, <2>2 DEF InsertNonce, MoveTo, Used
    <3>3. StampPast'
      BY <3>1 DEF SingleUseInv, StampPast
    <3>4. NonceKept'
      <4> SUFFICES ASSUME NEW q \in Requests, Used(q)', ~(env[q].exp < clock)
                   PROVE  \E n \in nonces' : n.nonce = env[q].nonce /\ n.exp = env[q].exp
        BY <3>1 DEF NonceKept
      <4>1. CASE q = r
        <5>1. row \in nonces'
          BY <3>1
        <5>2. row.nonce = env[q].nonce /\ row.exp = env[q].exp
          BY <4>1
        <5> HIDE DEF row
        <5> QED BY <5>1, <5>2
      <4>2. CASE Used(q)
        BY <3>1, <4>2 DEF SingleUseInv, NonceKept
      <4> QED BY <3>2, <4>1, <4>2
    <3>5. \A q \in Requests : Used(q) /\ env[q].nonce = env[r].nonce => env[q].exp < clock
      BY <2>2 DEF SingleUseInv, NonceKept
    <3>6. UsedOnce'
      BY <3>1, <3>2, <3>5 DEF SingleUseInv, UsedOnce
    <3> QED BY <1>t, <3>3, <3>4, <3>6 DEF SingleUseInv
  <2> QED BY <2>1, <2>2
<1>5. CASE \E k \in UsageNonces, now \in 0..MaxTime : ConsumeUsageNonce(k, now)
  <2>1. \A q \in Requests : Used(q)' => Used(q) /\ env'[q] = env[q]
    BY <1>5 DEF ConsumeUsageNonce, Used
  <2>2. nonces \subseteq nonces' /\ clock' = clock /\ stamp' = stamp
    BY <1>5 DEF ConsumeUsageNonce
  <2> QED BY <1>t, <1>c, <2>1, <2>2, QuietStep
<1>6. CASE Crash
  <2>1. \A q \in Requests : Used(q)' => Used(q) /\ env'[q] = env[q]
    BY <1>6, <1>c DEF Crash, Used
  <2>2. nonces' = nonces /\ clock' = clock /\ stamp' = stamp
    BY <1>6 DEF Crash
  <2> QED BY <1>t, <1>c, <2>1, <2>2, QuietStep
<1>7. CASE Tick
  <2>1. \A q \in Requests : Used(q)' => Used(q) /\ env'[q] = env[q]
    BY <1>7 DEF Tick, Used
  <2>2. nonces' = nonces /\ clock <= clock' /\ stamp' = stamp
    BY <1>7, <1>c DEF Tick
  <2> QED BY <1>t, <2>1, <2>2, QuietStep
<1>8. CASE UNCHANGED ledgerVars
  <2>1. \A q \in Requests : Used(q)' => Used(q) /\ env'[q] = env[q]
    BY <1>8 DEF ledgerVars, Used
  <2>2. nonces' = nonces /\ clock' = clock /\ stamp' = stamp
    BY <1>8 DEF ledgerVars
  <2> QED BY <1>t, <1>c, <2>1, <2>2, QuietStep
<1> QED BY <1>1, <1>2, <1>3, <1>4, <1>5, <1>6, <1>7, <1>8 DEF LedgerNext, Commit

\* One envelope never earns two receipts before it expires, whatever the
\* number of connections, requests, crashes and prunings.
THEOREM SingleUse == LedgerSpec => []SingleUseWhileFresh
<1>1. SingleUseInv => SingleUseWhileFresh
  BY DEF SingleUseInv, UsedOnce, Used, SingleUseWhileFresh
<1> QED BY <1>1, InitSingleUse, NextSingleUse, PTL DEF LedgerSpec

----------------------------------------------------------------------------
(* The chain.                                                              *)

\* Position (s, p) of tenant t opens the chain or follows a stored receipt.
Follows(t, s, p) ==
  \/ s = 1 /\ p = Genesis
  \/ \E y \in receipts : /\ y.tenant = t
                         /\ y.seq = s - 1
                         /\ y.seq > 0
                         /\ p = ChainHash(y)

\* A reserved position stays a valid one, as receipts are never removed.
LinkReal ==
  \A r \in Requests : stage[r] = "linked" =>
    Follows(env[r].tenant, link[r].seq, link[r].prev)

LinkInv == TypeInv /\ LinkReal /\ LinkedToPredecessor

\* Legacy rows are not chained.
LEMMA InitLink == LedgerInit => LinkInv
  BY InitTypeInv DEF LedgerInit, LinkInv, LinkReal, LinkedToPredecessor

\* The position next_chain_position returns is a valid one.
LEMMA PositionFollows ==
  ASSUME TypeInv, NEW r \in Requests, NextChainPosition(r)
  PROVE  Follows(env[r].tenant, link'[r].seq, link'[r].prev)
<1>1. link \in [Requests -> [seq: Nat, prev: ReceiptIds \cup {Genesis}]]
      /\ receipts \subseteq Receipt
  BY DEF TypeInv, TypeOK
<1>2. CASE link' = [link EXCEPT ![r] = [seq |-> 1, prev |-> Genesis]]
  BY <1>1, <1>2 DEF Follows
<1>3. CASE \E h \in Heads(env[r].tenant) :
             /\ h.seq # 0
             /\ link' = [link EXCEPT ![r] = [seq |-> h.seq + 1, prev |-> ChainHash(h)]]
  <2> PICK h \in Heads(env[r].tenant) :
             /\ h.seq # 0
             /\ link' = [link EXCEPT ![r] = [seq |-> h.seq + 1, prev |-> ChainHash(h)]]
    BY <1>3
  <2>1. h \in receipts /\ h.tenant = env[r].tenant /\ h.seq \in Nat
    BY <1>1 DEF Heads, RowsOf, Receipt
  <2>2. link'[r].seq = h.seq + 1 /\ link'[r].prev = ChainHash(h)
    BY <1>1
  <2> QED BY <2>1, <2>2 DEF Follows
<1> QED BY <1>2, <1>3 DEF NextChainPosition

\* Every step keeps the links: receipts are only added, and only at positions
\* that were reserved from a stored head.
LEMMA NextLink == LinkInv /\ [LedgerNext]_ledgerVars => LinkInv'
<1> SUFFICES ASSUME LinkInv, [LedgerNext]_ledgerVars PROVE LinkInv'
  OBVIOUS
<1>t. TypeInv /\ TypeInv'
  BY NextTypeInv DEF LinkInv
<1>c. stage \in [Requests -> Stages] /\ link \in [Requests -> [seq: Nat, prev: ReceiptIds \cup {Genesis}]]
      /\ env \in [Requests -> Envelopes \cup {NoEnvelope}]
  BY <1>t DEF TypeInv, TypeOK
<1>1. CASE \E r \in Requests : NextChainPosition(r)
  <2> PICK r \in Requests : NextChainPosition(r)
    BY <1>1
  <2>1. receipts' = receipts /\ env' = env
    BY DEF NextChainPosition
  <2>2. \A q \in Requests : q # r => link'[q] = link[q] /\ stage'[q] = stage[q]
    BY <1>c DEF NextChainPosition, MoveTo
  <2>3. LinkReal'
    BY <2>1, <2>2, <1>t, PositionFollows DEF LinkInv, LinkReal, Follows
  <2> QED BY <1>t, <2>1, <2>3 DEF LinkInv, LinkedToPredecessor
<1>2. CASE \E r \in Requests : WriteReceipt(r)
  <2> PICK r \in Requests : WriteReceipt(r)
    BY <1>2
  <2> DEFINE row == [id |-> r, tenant |-> env[r].tenant, seq |-> link[r].seq,
                     prev |-> link[r].prev, ts |-> stamp[r]]
  <2>1. receipts' = receipts \cup {row} /\ env' = env /\ link' = link
    BY DEF WriteReceipt
  <2>2. \A q \in Requests : stage'[q] = "linked" => stage[q] = "linked"
    BY <1>c DEF WriteReceipt, MoveTo
  <2>3. LinkReal'
    BY <2>1, <2>2 DEF LinkInv, LinkReal, Follows
  <2>4. Follows(row.tenant, row.seq, row.prev)
    BY DEF WriteReceipt, LinkInv, LinkReal
  <2>5. LinkedToPredecessor'
    BY <2>1, <2>4 DEF LinkInv, LinkedToPredecessor, Follows
  <2> QED BY <1>t, <2>3, <2>5 DEF LinkInv
<1>3. CASE /\ receipts' = receipts
           /\ \A q \in Requests : stage'[q] = "linked" =>
                stage[q] = "linked" /\ env'[q] = env[q] /\ link'[q] = link[q]
  BY <1>3, <1>t DEF LinkInv, LinkReal, Follows, LinkedToPredecessor
<1>4. CASE \E r \in Requests, e \in Envelopes : Receive(r, e)
  BY <1>3, <1>4, <1>c DEF Receive, MoveTo
<1>5. CASE \E r \in Requests : Acquire(r) \/ Pass(r) \/ PruneNonces(r) \/ Fail(r)
  BY <1>3, <1>5, <1>c DEF Acquire, Pass, PruneNonces, Fail, MoveTo
<1>6. CASE \E r \in Requests : InsertNonce(r)
  BY <1>3, <1>6, <1>c DEF InsertNonce, MoveTo
<1>7. CASE \E k \in UsageNonces, now \in 0..MaxTime : ConsumeUsageNonce(k, now)
  BY <1>3, <1>7 DEF ConsumeUsageNonce
<1>8. CASE Crash
  BY <1>3, <1>8, <1>c DEF Crash
<1>9. CASE Tick \/ UNCHANGED ledgerVars
  BY <1>3, <1>9 DEF Tick, ledgerVars
<1> QED BY <1>1, <1>2, <1>4, <1>5, <1>6, <1>7, <1>8, <1>9 DEF LedgerNext, Commit

\* Concurrent writers may fork a tenant's chain, but every chained receipt
\* follows a stored receipt of its tenant or opens the chain.
THEOREM LinksResolve == LedgerSpec => []LinkedToPredecessor
<1>1. LinkInv => LinkedToPredecessor
  BY DEF LinkInv
<1> QED BY <1>1, InitLink, NextLink, PTL DEF LedgerSpec

----------------------------------------------------------------------------
(* A single connection.                                                    *)

\* With one connection at most one request is between lock and commit.
Exclusive == \A r, q \in Requests : (stage[r] \in Holding /\ stage[q] \in Holding) => r = q

\* A reserved position lies beyond every stored row of the tenant and extends
\* the last one.
Fresh(t, s, p) ==
  /\ s > 0
  /\ \A x \in RowsOf(t) : x.seq < s
  /\ IF s = 1 THEN p = Genesis
     ELSE \E y \in RowsOf(t) : y.seq > 0 /\ y.seq = s - 1 /\ p = ChainHash(y)

HeadReserved ==
  \A r \in Requests : stage[r] = "linked" => Fresh(env[r].tenant, link[r].seq, link[r].prev)

ChainInv == TypeInv /\ Exclusive /\ HeadReserved /\ ChainVerifies

\* Only legacy rows are stored initially.
LEMMA InitChain == LedgerInit => ChainInv
  BY InitTypeInv DEF LedgerInit, ChainInv, Exclusive, HeadReserved, ChainVerifies,
     VerifyReceiptChain, RowsOf, Holding

\* A connection is granted only while nobody holds one.
LEMMA NextExclusive ==
  ASSUME PoolSize = 1, TypeInv, Exclusive, [LedgerNext]_ledgerVars
  PROVE  Exclusive'
<1>c. stage \in [Requests -> Stages]
  BY DEF TypeInv, TypeOK
<1>1. CASE \E r \in Requests : Acquire(r)
  <2> PICK r \in Requests : Acquire(r)
    BY <1>1
  <2>1. IsFiniteSet(Holders)
    BY LedgerAssumption, FS_Subset DEF Holders
  <2>2. Cardinality(Holders) = 0
    BY <2>1, FS_CardinalityType DEF Acquire
  <2>3. Holders = {}
    BY <2>1, <2>2, FS_EmptySet
  <2> QED BY <1>c, <2>3 DEF Acquire, MoveTo, Exclusive, Holders
<1>2. CASE \A q \in Requests : stage'[q] \in Holding => stage[q] \in Holding
  BY <1>2 DEF Exclusive
<1>3. CASE \E r \in Requests, e \in Envelopes : Receive(r, e)
  BY <1>2, <1>3, <1>c DEF Receive, MoveTo, Holding
<1>4. CASE \E r \in Requests : Pass(r) \/ PruneNonces(r) \/ InsertNonce(r)
  BY <1>2, <1>4, <1>c DEF Pass, PruneNonces, InsertNonce, MoveTo, Holding
<1>5. CASE \E r \in Requests : NextChainPosition(r) \/ WriteReceipt(r) \/ Fail(r)
  BY <1>2, <1>5, <1>c DEF NextChainPosition, WriteReceipt, Fail, MoveTo, Holding
<1>6. CASE \E k \in UsageNonces, now \in 0..MaxTime : ConsumeUsageNonce(k, now)
  BY <1>2, <1>6 DEF ConsumeUsageNonce
<1>7. CASE Crash
  BY <1>2, <1>7, <1>c DEF Crash, Holding
<1>8. CASE Tick \/ UNCHANGED ledgerVars
  BY <1>2, <1>8 DEF Tick, ledgerVars
<1> QED BY <1>1, <1>3, <1>4, <1>5, <1>6, <1>7, <1>8 DEF LedgerNext, Commit

\* next_chain_position reads the head, so what it returns lies beyond it.
LEMMA PositionFresh ==
  ASSUME ~ReadsMayFail, TypeInv, NEW r \in Requests, NextChainPosition(r)
  PROVE  Fresh(env[r].tenant, link'[r].seq, link'[r].prev)
<1> DEFINE t == env[r].tenant
<1>1. link \in [Requests -> [seq: Nat, prev: ReceiptIds \cup {Genesis}]]
      /\ \A x \in RowsOf(t) : x.seq \in Nat
  BY DEF TypeInv, TypeOK, RowsOf, Receipt
<1>2. CASE RowsOf(t) = {} /\ link' = [link EXCEPT ![r] = [seq |-> 1, prev |-> Genesis]]
  BY <1>1, <1>2 DEF Fresh
<1>3. CASE \E h \in Heads(t) :
             /\ h.seq = 0
             /\ link' = [link EXCEPT ![r] = [seq |-> 1, prev |-> Genesis]]
  BY <1>1, <1>3 DEF Fresh, Heads
<1>4. CASE \E h \in Heads(t) :
             /\ h.seq # 0
             /\ link' = [link EXCEPT ![r] = [seq |-> h.seq + 1, prev |-> ChainHash(h)]]
  <2> PICK h \in Heads(t) :
             /\ h.seq # 0
             /\ link' = [link EXCEPT ![r] = [seq |-> h.seq + 1, prev |-> ChainHash(h)]]
    BY <1>4
  <2>1. h \in RowsOf(t) /\ h.seq \in Nat /\ \A y \in RowsOf(t) : y.seq <= h.seq
    BY <1>1 DEF Heads
  <2>2. link'[r].seq = h.seq + 1 /\ link'[r].prev = ChainHash(h)
    BY <1>1
  <2> QED BY <1>1, <2>1, <2>2 DEF Fresh
<1> QED BY <1>2, <1>3, <1>4 DEF NextChainPosition

\* Every step keeps the chain: the row written is beyond all others, and no
\* other request can have reserved a position meanwhile.
LEMMA NextChain ==
  ASSUME PoolSize = 1, ~ReadsMayFail, ChainInv, [LedgerNext]_ledgerVars
  PROVE  ChainInv'
<1>t. TypeInv /\ TypeInv' /\ Exclusive'
  BY NextTypeInv, NextExclusive DEF ChainInv
<1>c. stage \in [Requests -> Stages] /\ link \in [Requests -> [seq: Nat, prev: ReceiptIds \cup {Genesis}]]
      /\ env \in [Requests -> Envelopes \cup {NoEnvelope}] /\ receipts \subseteq Receipt
  BY <1>t DEF TypeInv, TypeOK
<1>1. CASE \E r \in Requests : NextChainPosition(r)
  <2> PICK r \in Requests : NextChainPosition(r)
    BY <1>1
  <2>1. receipts' = receipts /\ env' = env
    BY DEF NextChainPosition
  <2>2. \A q \in Requests : q # r => link'[q] = link[q] /\ stage'[q] = stage[q]
    BY <1>c DEF NextChainPosition, MoveTo
  <2>3. HeadReserved'
    BY <2>1, <2>2, <1>t, PositionFresh DEF ChainInv, HeadReserved, Fresh, RowsOf
  <2> QED BY <1>t, <2>1, <2>3 DEF ChainInv, ChainVerifies, VerifyReceiptChain, RowsOf
<1>2. CASE \E r \in Requests : WriteReceipt(r)
  <2> PICK r \in Requests : WriteReceipt(r)
    BY <1>2
  <2> DEFINE row == [id |-> r, tenant |-> env[r].tenant, seq |-> link[r].seq,
                     prev |-> link[r].prev, ts |-> stamp[r]]
  <2>1. receipts' = receipts \cup {row}
    BY DEF WriteReceipt
  <2>2. \A q \in Requests : stage'[q] # "linked"
    BY <1>c DEF WriteReceipt, MoveTo, ChainInv, Exclusive, Holding
  <2>3. Fresh(row.tenant, row.seq, row.prev)
    BY DEF WriteReceipt, ChainInv, HeadReserved
  <2>4. row.seq \in Nat /\ \A x \in receipts : x.seq \in Nat
    BY <1>c DEF Receipt
  <2> HIDE DEF row
  <2>5. ASSUME NEW t \in Tenants PROVE VerifyReceiptChain(t)'
    <3> DEFINE old == {x \in RowsOf(t) : x.seq > 0}
               new == {x \in RowsOf(t)' : x.seq > 0}
    <3>1. VerifyReceiptChain(t)
      BY DEF ChainInv, ChainVerifies
    <3>2. CASE row.tenant # t
      <4>1. RowsOf(t)' = RowsOf(t)
        BY <2>1, <3>2 DEF RowsOf
      <4> QED BY <3>1, <4>1 DEF VerifyReceiptChain, ChainHash
    <3>3. CASE row.tenant = t
      <4>1. new = old \cup {row} /\ \A x \in old : x.seq < row.seq /\ x.seq \in Nat
        BY <2>1, <2>3, <2>4, <3>3 DEF RowsOf, Fresh
      <4>2. IF row.seq = 1 THEN row.prev = Genesis
            ELSE \E y \in old : y.seq = row.seq - 1 /\ row.prev = ChainHash(y)
        BY <2>3, <3>3 DEF Fresh
      <4>3. /\ \A x, y \in old : x.seq = y.seq => x = y
            /\ \A x \in old : IF x.seq = 1 THEN x.prev = Genesis
                              ELSE \E y \in old : y.seq = x.seq - 1 /\ x.prev = ChainHash(y)
        BY <3>1 DEF VerifyReceiptChain
      <4> HIDE DEF old
      <4>4. \A x, y \in new : x.seq = y.seq => x = y
        BY <4>1, <4>3, <2>4
      <4>5. \A x \in new : IF x.seq = 1 THEN x.prev = Genesis
                           ELSE \E y \in new : y.seq = x.seq - 1 /\ x.prev = ChainHash(y)
        <5> HIDE DEF new
        <5> QED BY <4>1, <4>2, <4>3
      <4> QED BY <4>4, <4>5 DEF VerifyReceiptChain, ChainHash
    <3> QED BY <3>2, <3>3
  <2> QED BY <1>t, <2>2, <2>5 DEF ChainInv, HeadReserved, ChainVerifies
<1>3. CASE /\ receipts' = receipts
           /\ \A q \in Requests : stage'[q] = "linked" =>
                stage[q] = "linked" /\ env'[q] = env[q] /\ link'[q] = link[q]
  BY <1>3, <1>t DEF ChainInv, HeadReserved, Fresh, ChainVerifies, VerifyReceiptChain, RowsOf
<1>4. CASE \E r \in Requests, e \in Envelopes : Receive(r, e)
  BY <1>3, <1>4, <1>c DEF Receive, MoveTo
<1>5. CASE \E r \in Requests : Acquire(r) \/ Pass(r) \/ PruneNonces(r) \/ Fail(r)
  BY <1>3, <1>5, <1>c DEF Acquire, Pass, PruneNonces, Fail, MoveTo
<1>6. CASE \E r \in Requests : InsertNonce(r)
  BY <1>3, <1>6, <1>c DEF InsertNonce, MoveTo
<1>7. CASE \E k \in UsageNonces, now \in 0..MaxTime : ConsumeUsageNonce(k, now)
  BY <1>3, <1>7 DEF ConsumeUsageNonce
<1>8. CASE Crash
  BY <1>3, <1>8, <1>c DEF Crash
<1>9. CASE Tick \/ UNCHANGED ledgerVars
  BY <1>3, <1>9 DEF Tick, ledgerVars
<1> QED BY <1>1, <1>2, <1>4, <1>5, <1>6, <1>7, <1>8, <1>9 DEF LedgerNext, Commit

\* With SAURON_DB_POOL_SIZE = 1, and as long as no lookup of the head fails, the
\* chain of every tenant verifies in every state, whatever the number of
\* requests and wherever the process crashes: the reasoning in the comment of
\* next_chain_position is right for one connection.
THEOREM ChainVerifiesAlone ==
  ASSUME PoolSize = 1, ~ReadsMayFail PROVE LedgerSpec => []ChainVerifies
<1>1. ChainInv => ChainVerifies
  BY DEF ChainInv
<1>2. ChainInv /\ [LedgerNext]_ledgerVars => ChainInv'
  BY NextChain
<1> QED BY <1>1, <1>2, InitChain, PTL DEF LedgerSpec
=============================================================================
