------------------------ MODULE ActionAnchorProofs -------------------------
(***************************************************************************)
(* Proofs about ActionAnchor: the watermark never moves back, a receipt    *)
(* behind it is in a submitted batch unless it was late, and the rows      *)
(* fetched for a proof are those of the batch and late ones; and about     *)
(* ChainAnchors: an accepted proof rests on a root in a Bitcoin block.     *)
(***************************************************************************)
EXTENDS ActionAnchor, ChainAnchors, FiniteSetTheorems, TLAPS

----------------------------------------------------------------------------
(* Keys.                                                                   *)

Row == [id: ReceiptIds, tenant: Tenants, ts: 0..MaxTime]
Key == [ts: Nat, id: Nat]

LEMMA RowKey ==
  ASSUME NEW x \in Row
  PROVE  KeyOf(x) \in Key /\ KeyOf(x).ts = x.ts /\ KeyOf(x).id = x.id /\ ~Upto(KeyOf(x), Zero)
<1>1. x.id \in ReceiptIds /\ x.ts \in 0..MaxTime
  BY DEF Row
<1>2. x.id \in Nat /\ x.id > 0 /\ x.ts \in Nat
  <2>1. ReceiptIds \subseteq Nat \ {0} /\ MaxTime \in Nat
    BY AnchorAssumption
  <2>2. x.id \in Nat \ {0}
    BY <1>1, <2>1
  <2> QED BY <1>1, <2>1, <2>2
<1>3. KeyOf(x) \in Key /\ KeyOf(x).ts = x.ts /\ KeyOf(x).id = x.id
  BY <1>2 DEF Key, KeyOf
<1>4. Zero.ts = 0 /\ Zero.id = 0
  BY DEF Zero
<1> QED BY <1>2, <1>3, <1>4 DEF Upto, Before

\* The keys are totally ordered.
LEMMA KeyOrder ==
  ASSUME NEW k \in Key, NEW l \in Key, NEW m \in Key
  PROVE  /\ k = l \/ Before(k, l) \/ Before(l, k)
         /\ ~(Before(k, l) /\ Before(l, k)) /\ ~Before(k, k)
         /\ Before(k, l) /\ Before(l, m) => Before(k, m)
  BY DEF Key, Before

----------------------------------------------------------------------------
(* Types.                                                                  *)

Phases == {"idle", "marked", "taken", "pending", "published"}
RunState == [phase: Phases, tenant: Tenants \cup {IdleRun.tenant}, mark: Key, rows: SUBSET Row,
             anchors: SUBSET Providers]
Batch == [owner: Runs \cup {NoRun}, tenant: Tenants \cup {IdleRun.tenant}, rows: SUBSET Row,
          head: Nat, first: Key, last: Key, status: {"pending", "submitted", "partial", "failed"},
          created: Nat]

AnchorTypeOK ==
  /\ clock \in 0..MaxTime
  /\ stamped \subseteq Row
  /\ receipts \subseteq Row /\ IsFiniteSet(receipts)
  /\ run \in [Runs -> RunState]
  /\ batches \subseteq Batch

\* Receipt ids are random: no two requests draw the same.
IdsDiffer ==
  /\ \A x, y \in stamped \cup receipts : x.id = y.id => x = y
  /\ stamped \cap receipts = {}

\* A batch row is pending while a run works on it; its bounds are rows of its own.
BatchOk(b) ==
  /\ b.owner # NoRun => b.status = "pending"
  /\ \E a \in b.rows : b.first = KeyOf(a)
  /\ \E z \in b.rows : b.last = KeyOf(z)

LEMMA IdleRunFields ==
  /\ IdleRun \in RunState
  /\ IdleRun.phase = "idle" /\ IdleRun.rows = {} /\ IdleRun.mark = Zero
<1>1. Zero \in Key
  BY DEF Zero, Key
<1> QED BY <1>1 DEF IdleRun, RunState, Phases

----------------------------------------------------------------------------
(* What a run has gathered.                                                *)

Covered(x) == \E b \in batches : b.status = "submitted" /\ x \in b.rows

\* Rows R of tenant t: a receipt up to one of them is among them, covered or
\* late, and one between two of them is among them or late.
Gathered(t, R) ==
  /\ R \subseteq receipts /\ \A x \in R : x.tenant = t
  /\ \A x \in receipts : x.tenant = t /\ x.id \notin late =>
       \A y \in R : Upto(KeyOf(x), KeyOf(y)) =>
         /\ x \in R \/ Covered(x)
         /\ \A w \in R : Upto(KeyOf(w), KeyOf(x)) => x \in R

\* A run starts from nothing or from the end of a batch, behind which every
\* receipt that was not late is covered.
MarkOk(u) ==
  run[u].phase = "marked" =>
    /\ \/ run[u].mark = Zero
       \/ \E b \in batches : \E y \in b.rows : y.tenant = run[u].tenant /\ KeyOf(y) = run[u].mark
    /\ \A x \in receipts :
         x.tenant = run[u].tenant /\ x.id \notin late /\ Upto(KeyOf(x), run[u].mark) => Covered(x)

AnchorInv ==
  /\ AnchorTypeOK
  /\ IdsDiffer
  /\ \A b \in batches : BatchOk(b) /\ Gathered(b.tenant, b.rows)
  /\ \A u \in Runs : MarkOk(u) /\ Gathered(run[u].tenant, run[u].rows)

LEMMA InitAnchorInv == Init => AnchorInv
<1> SUFFICES ASSUME Init PROVE AnchorInv
  OBVIOUS
<1>1. AnchorTypeOK
  BY IdleRunFields, FS_EmptySet, AnchorAssumption DEF Init, AnchorTypeOK
<1> QED BY <1>1, IdleRunFields DEF Init, AnchorInv, IdsDiffer, MarkOk, Gathered

\* What is behind a watermark of t is covered or late, and a watermark is the
\* end of a batch of t.
LEMMA BehindWatermark ==
  ASSUME AnchorInv, NEW t \in Tenants, NEW k \in Watermarks(t)
  PROVE  /\ k \in Key
         /\ k = Zero \/ \E b \in batches : \E y \in b.rows : y.tenant = t /\ KeyOf(y) = k
         /\ \A x \in receipts : x.tenant = t /\ x.id \notin late /\ Upto(KeyOf(x), k) => Covered(x)
<1>1. CASE k = Zero
  <2>1. \A x \in receipts : ~Upto(KeyOf(x), k)
    BY <1>1, RowKey DEF AnchorInv, AnchorTypeOK
  <2>2. k \in Key
    BY <1>1 DEF Zero, Key
  <2> QED BY <1>1, <2>1, <2>2
<1>2. CASE k # Zero
  <2>1. PICK b \in batches : b.tenant = t /\ b.status = "submitted" /\ k = b.last
    BY <1>2 DEF Watermarks, EndsOfGreatest
  <2>2. PICK z \in b.rows : k = KeyOf(z)
    BY <2>1 DEF AnchorInv, BatchOk
  <2>3. Gathered(t, b.rows)
    BY <2>1 DEF AnchorInv
  <2>4. z \in receipts /\ z.tenant = t
    BY <2>2, <2>3 DEF Gathered
  <2>5. \A x \in receipts : x.tenant = t /\ x.id \notin late /\ Upto(KeyOf(x), k) => Covered(x)
    BY <2>1, <2>2, <2>3 DEF Gathered, Covered
  <2> QED BY <2>1, <2>2, <2>4, <2>5, RowKey DEF AnchorInv, AnchorTypeOK
<1> QED BY <1>1, <1>2

\* A submitted batch is never touched again.
LEMMA SubmittedStays ==
  ASSUME AnchorInv, NEW u \in Runs, NEW s, NEW b \in batches, b.status = "submitted"
  PROVE  b \in Release(u, s)
<1>1. b.owner # u
  BY AnchorAssumption DEF AnchorInv, BatchOk
<1> QED BY <1>1 DEF Release

\* A released row keeps what it says of its receipts.
LEMMA ReleasedFields ==
  ASSUME AnchorInv, NEW u \in Runs, NEW s \in {"pending", "submitted", "partial", "failed"},
         NEW c \in Release(u, s)
  PROVE  /\ c \in Batch
         /\ \E b \in batches : /\ c.rows = b.rows /\ c.tenant = b.tenant
                               /\ c.first = b.first /\ c.last = b.last
                               /\ c = b \/ c.owner = NoRun
<1>1. PICK b \in batches : c = IF b.owner = u THEN [b EXCEPT !.owner = NoRun, !.status = s] ELSE b
  BY DEF Release
<1>2. b \in Batch
  BY DEF AnchorInv, AnchorTypeOK
<1> QED BY <1>1, <1>2 DEF Batch

\* The oldest of a finite set of receipts are closed downwards.
LEMMA OldestClosed ==
  ASSUME NEW S, S \subseteq Row, IsFiniteSet(S), NEW y \in Oldest(S), NEW x \in S, Before(KeyOf(x), KeyOf(y))
  PROVE  x \in Oldest(S)
<1> DEFINE X == {w \in S : Before(KeyOf(w), KeyOf(x))}
           Y == {w \in S : Before(KeyOf(w), KeyOf(y))}
<1>1. X \subseteq Y
  <2> SUFFICES ASSUME NEW w \in S, Before(KeyOf(w), KeyOf(x)) PROVE Before(KeyOf(w), KeyOf(y))
    OBVIOUS
  <2>1. KeyOf(w) \in Key /\ KeyOf(x) \in Key /\ KeyOf(y) \in Key
    BY RowKey DEF Oldest
  <2> QED BY <2>1, KeyOrder
<1>2. IsFiniteSet(Y) /\ IsFiniteSet(X)
  BY FS_Subset
<1>3. Cardinality(X) <= Cardinality(Y) /\ Cardinality(X) \in Nat /\ Cardinality(Y) \in Nat
  BY <1>1, <1>2, FS_Subset, FS_CardinalityType
<1>4. Cardinality(Y) < BatchCap
  BY DEF Oldest
<1>5. Cardinality(X) < BatchCap
  BY <1>3, <1>4, AnchorAssumption
<1> QED BY <1>5 DEF Oldest

\* What a run takes after its mark is gathered.
LEMMA TakenGathered ==
  ASSUME AnchorInv, NEW u \in Runs, run[u].phase = "marked"
  PROVE  Gathered(run[u].tenant, PendingAfter(run[u].tenant, run[u].mark))
<1> DEFINE t == run[u].tenant
           k == run[u].mark
           S == {x \in receipts : x.tenant = t /\ Before(k, KeyOf(x))}
           R == PendingAfter(t, k)
<1>1. S \subseteq receipts /\ receipts \subseteq Row /\ IsFiniteSet(S) /\ k \in Key
  BY FS_Subset DEF AnchorInv, AnchorTypeOK, RunState
<1>2. R = Oldest(S) /\ R \subseteq S
  BY DEF PendingAfter, Oldest
<1>3. ASSUME NEW x \in receipts, x.tenant = t, x.id \notin late, NEW y \in R, Upto(KeyOf(x), KeyOf(y))
      PROVE  (x \in R \/ Covered(x)) /\ \A w \in R : Upto(KeyOf(w), KeyOf(x)) => x \in R
  <2>0. KeyOf(x) \in Key /\ \A w \in R : KeyOf(w) \in Key
    BY <1>1, <1>2, RowKey
  <2>1. ASSUME Before(k, KeyOf(x)) PROVE x \in R
    <3>1. x \in S
      BY <1>3, <2>1
    <3>2. CASE KeyOf(x) = KeyOf(y)
      <4>1. x.id = y.id
        BY <1>1, <1>2, <3>2, RowKey
      <4>2. x = y
        BY <1>1, <1>2, <4>1 DEF AnchorInv, IdsDiffer
      <4> QED BY <4>2
    <3>3. CASE Before(KeyOf(x), KeyOf(y))
      BY <1>1, <1>2, <3>1, <3>3, OldestClosed
    <3> QED BY <1>3, <3>2, <3>3 DEF Upto
  <2>2. ASSUME ~Before(k, KeyOf(x)) PROVE Covered(x)
    <3>1. Upto(KeyOf(x), k)
      BY <1>1, <2>0, <2>2, KeyOrder DEF Upto
    <3> QED BY <1>3, <3>1 DEF AnchorInv, MarkOk
  <2>3. ASSUME NEW w \in R, Upto(KeyOf(w), KeyOf(x)) PROVE Before(k, KeyOf(x))
    <3>1. Before(k, KeyOf(w))
      BY <1>2
    <3> QED BY <1>1, <2>0, <2>3, <3>1, KeyOrder DEF Upto
  <2> QED BY <2>1, <2>2, <2>3
<1>4. R \subseteq receipts /\ \A x \in R : x.tenant = t
  BY <1>1, <1>2
<1> QED BY <1>3, <1>4 DEF Gathered

----------------------------------------------------------------------------
(* Steps.                                                                  *)

\* Steps that leave the receipts alone keep what was gathered, as long as what
\* is covered stays so.
LEMMA GatheredKept ==
  ASSUME NEW t, NEW R, Gathered(t, R), UNCHANGED <<receipts, late>>,
         \A x \in receipts : Covered(x) => Covered(x)'
  PROVE  Gathered(t, R)'
  BY DEF Gathered

LEMMA MarkKept ==
  ASSUME NEW u \in Runs, MarkOk(u), run'[u] = run[u], UNCHANGED <<receipts, late>>,
         \A x \in receipts : Covered(x) => Covered(x)',
         \A b \in batches : \E c \in batches' : c.rows = b.rows
  PROVE  MarkOk(u)'
<1>1. ASSUME run[u].phase = "marked"
      PROVE  \A x \in receipts : x.tenant = run[u].tenant /\ x.id \notin late /\ Upto(KeyOf(x), run[u].mark) => Covered(x)'
  BY <1>1 DEF MarkOk
<1> QED BY <1>1 DEF MarkOk

\* A receipt that becomes visible behind a gathered row is late.
LEMMA GatheredStored ==
  ASSUME AnchorInv, NEW x \in stamped, StoreReceipt(x), NEW t, NEW R, Gathered(t, R), R \subseteq Taken
  PROVE  Gathered(t, R)'
<1>1. receipts' = receipts \cup {x} /\ late \subseteq late' /\ batches' = batches
  BY DEF StoreReceipt
<1>2. ASSUME NEW y \in R, x.tenant = t, Upto(KeyOf(x), KeyOf(y)) PROVE x.id \in late'
  <2>1. y \in receipts /\ y.tenant = t /\ x \in Row /\ y \in Row
    BY <1>2 DEF Gathered, AnchorInv, AnchorTypeOK
  <2>2. KeyOf(x) # KeyOf(y)
    <3>1. x # y
      BY <2>1 DEF AnchorInv, IdsDiffer
    <3>2. x.id # y.id
      BY <2>1, <3>1 DEF AnchorInv, IdsDiffer
    <3> QED BY <2>1, <3>2, RowKey
  <2>3. Before(KeyOf(x), KeyOf(y))
    BY <1>2, <2>2 DEF Upto
  <2> QED BY <1>2, <2>1, <2>3 DEF StoreReceipt
<1>3. \A y \in receipts : Covered(y)' <=> Covered(y)
  BY <1>1 DEF Covered
<1>4. ASSUME NEW z \in receipts', z.tenant = t, z.id \notin late', NEW y \in R, Upto(KeyOf(z), KeyOf(y))
      PROVE  (z \in R \/ Covered(z)') /\ \A w \in R : Upto(KeyOf(w), KeyOf(z)) => z \in R
  <2>1. z \in receipts /\ z.id \notin late
    BY <1>1, <1>2, <1>4
  <2> QED BY <1>3, <1>4, <2>1 DEF Gathered
<1> QED BY <1>1, <1>4 DEF Gathered

LEMMA NextAnchorInv == AnchorInv /\ [Next]_vars => AnchorInv'
<1> SUFFICES ASSUME AnchorInv, [Next]_vars PROVE AnchorInv'
  OBVIOUS
<1>t. AnchorTypeOK
  BY DEF AnchorInv
<1>i. /\ \A b \in batches : BatchOk(b) /\ Gathered(b.tenant, b.rows)
      /\ \A u \in Runs : MarkOk(u) /\ Gathered(run[u].tenant, run[u].rows)
  BY DEF AnchorInv
\* Steps that change the runs and the batches only.
<1>k. ASSUME UNCHANGED <<stamped, receipts, late>>, AnchorTypeOK',
             \A b \in batches' : BatchOk(b) /\ Gathered(b.tenant, b.rows),
             \A x \in receipts : Covered(x) => Covered(x)',
             \A b \in batches : \E c \in batches' : c.rows = b.rows,
             NEW u \in Runs, \A v \in Runs \ {u} : run'[v] = run[v],
             MarkOk(u)', Gathered(run'[u].tenant, run'[u].rows)
      PROVE  AnchorInv'
  <2>1. IdsDiffer'
    BY <1>k DEF AnchorInv, IdsDiffer
  <2>2. ASSUME NEW b \in batches' PROVE BatchOk(b)' /\ Gathered(b.tenant, b.rows)'
    <3>1. BatchOk(b) /\ Gathered(b.tenant, b.rows)
      BY <1>k
    <3>2. Gathered(b.tenant, b.rows)'
      BY <1>k, <3>1, GatheredKept
    <3> QED BY <3>1, <3>2 DEF BatchOk
  <2>3. ASSUME NEW v \in Runs \ {u} PROVE MarkOk(v)' /\ Gathered(run[v].tenant, run[v].rows)'
    <3>1. run'[v] = run[v] /\ MarkOk(v) /\ Gathered(run[v].tenant, run[v].rows)
      BY <1>i, <1>k
    <3>2. MarkOk(v)'
      BY <1>k, <3>1, MarkKept
    <3>3. ASSUME NEW t, NEW R, t = run[v].tenant, R = run[v].rows PROVE Gathered(t, R)'
      BY <1>k, <3>1, <3>3, GatheredKept
    <3> QED BY <3>1, <3>2, <3>3 DEF Gathered
  <2>4. ASSUME NEW t, NEW R, t = run'[u].tenant, R = run'[u].rows PROVE Gathered(t, R)'
    BY <1>k, <2>4, GatheredKept
  <2>5. MarkOk(u)' /\ Gathered(run[u].tenant, run[u].rows)'
    BY <1>k, <2>4 DEF Gathered
  <2> QED BY <1>k, <2>1, <2>2, <2>3, <2>5 DEF AnchorInv
<1>1. ASSUME NEW i \in ReceiptIds, NEW t \in Tenants, StampReceipt(i, t) PROVE AnchorInv'
  <2> DEFINE new == [id |-> i, tenant |-> t, ts |-> clock]
  <2>1. new \in Row /\ new.id = i
    BY <1>t DEF Row, AnchorTypeOK
  <2>2. /\ stamped' = stamped \cup {new} /\ UNCHANGED <<clock, receipts, run, batches, late>>
        /\ \A x \in stamped \cup receipts : x.id # i
    BY <1>1 DEF StampReceipt
  <2> HIDE DEF new
  <2>3. AnchorTypeOK' /\ IdsDiffer'
    BY <1>t, <2>1, <2>2 DEF AnchorInv, AnchorTypeOK, IdsDiffer
  <2> QED BY <1>i, <2>2, <2>3 DEF AnchorInv, BatchOk, MarkOk, Gathered, Covered
<1>2. ASSUME NEW x \in stamped, StoreReceipt(x) PROVE AnchorInv'
  <2>1. /\ stamped' = stamped \ {x} /\ receipts' = receipts \cup {x} /\ UNCHANGED <<clock, run, batches>>
        /\ late \subseteq late'
    BY <1>2 DEF StoreReceipt
  <2>2. IsFiniteSet(receipts')
    BY <1>t, <2>1, FS_AddElement DEF AnchorTypeOK
  <2>3. AnchorTypeOK' /\ IdsDiffer'
    BY <1>t, <2>1, <2>2 DEF AnchorInv, AnchorTypeOK, IdsDiffer
  <2>4. ASSUME NEW b \in batches PROVE BatchOk(b)' /\ Gathered(b.tenant, b.rows)'
    <3>1. b.rows \subseteq Taken
      BY DEF Taken
    <3>2. Gathered(b.tenant, b.rows)'
      BY <1>2, <1>i, <3>1, GatheredStored
    <3> QED BY <1>i, <3>2 DEF BatchOk
  <2>5. ASSUME NEW u \in Runs PROVE MarkOk(u)' /\ Gathered(run[u].tenant, run[u].rows)'
    <3>1. run[u].rows \subseteq Taken
      BY DEF Taken
    <3>2. ASSUME NEW t, NEW R, t = run[u].tenant, R = run[u].rows PROVE Gathered(t, R)'
      BY <1>2, <1>i, <3>1, <3>2, GatheredStored
    <3>3. ASSUME run[u].phase = "marked", x.tenant = run[u].tenant, Upto(KeyOf(x), run[u].mark)
          PROVE  x.id \in late'
      <4>1. x \in Row
        BY <1>t DEF AnchorTypeOK
      <4>2. run[u].mark # Zero
        BY <3>3, <4>1, RowKey
      <4>3. PICK b \in batches : \E y \in b.rows : y.tenant = run[u].tenant /\ KeyOf(y) = run[u].mark
        BY <1>i, <3>3, <4>2 DEF MarkOk
      <4>4. PICK y \in b.rows : y.tenant = run[u].tenant /\ KeyOf(y) = run[u].mark
        BY <4>3
      <4>5. y \in receipts /\ y \in Row /\ y \in Taken
        BY <1>i, <1>t DEF Gathered, AnchorTypeOK, Taken
      <4>6. x.id # y.id
        BY <4>5 DEF AnchorInv, IdsDiffer
      <4>7. Before(KeyOf(x), KeyOf(y))
        BY <3>3, <4>1, <4>4, <4>5, <4>6, RowKey DEF Upto
      <4> QED BY <1>2, <3>3, <4>4, <4>5, <4>7 DEF StoreReceipt
    <3>4. \A y \in receipts : Covered(y)' <=> Covered(y)
      BY <2>1 DEF Covered
    <3>5. MarkOk(u)'
      <4>1. ASSUME run[u].phase = "marked", NEW y \in receipts', y.tenant = run[u].tenant, y.id \notin late',
                   Upto(KeyOf(y), run[u].mark)
            PROVE  Covered(y)'
        <5>1. y \in receipts /\ y.id \notin late
          BY <2>1, <3>3, <4>1
        <5> QED BY <1>i, <3>4, <4>1, <5>1 DEF MarkOk
      <4> QED BY <1>i, <2>1, <4>1 DEF MarkOk
    <3> QED BY <2>1, <3>2, <3>5 DEF Gathered
  <2> QED BY <2>1, <2>3, <2>4, <2>5 DEF AnchorInv
<1>3. CASE Tick
  <2>1. UNCHANGED <<stamped, receipts, run, batches, late>> /\ clock' \in 0..MaxTime
    BY <1>3, <1>t, AnchorAssumption DEF Tick, AnchorTypeOK
  <2> QED BY <1>i, <1>t, <2>1 DEF AnchorInv, AnchorTypeOK, IdsDiffer, BatchOk, MarkOk, Gathered, Covered
<1>4. ASSUME NEW u \in Runs, NEW t \in Tenants, ReadWatermark(u, t) PROVE AnchorInv'
  <2>1. UNCHANGED <<clock, stamped, receipts, batches, late>>
    BY <1>4 DEF ReadWatermark
  <2>2. PICK k \in Watermarks(t) \cup {Zero} :
          run' = [run EXCEPT ![u] = [IdleRun EXCEPT !.phase = "marked", !.tenant = t, !.mark = k]]
    <3>1. [IdleRun EXCEPT !.phase = "marked", !.tenant = t] =
            [IdleRun EXCEPT !.phase = "marked", !.tenant = t, !.mark = Zero]
      BY IdleRunFields DEF RunState
    <3> QED BY <1>4, <3>1 DEF ReadWatermark
  <2> DEFINE new == [IdleRun EXCEPT !.phase = "marked", !.tenant = t, !.mark = k]
  <2>3. /\ k \in Key
        /\ k = Zero \/ \E b \in batches : \E y \in b.rows : y.tenant = t /\ KeyOf(y) = k
        /\ \A x \in receipts : x.tenant = t /\ x.id \notin late /\ Upto(KeyOf(x), k) => Covered(x)
    <3>1. CASE k \in Watermarks(t)
      BY <3>1, BehindWatermark
    <3>2. CASE k = Zero
      BY <1>t, <3>2, RowKey DEF AnchorTypeOK, Zero, Key
    <3> QED BY <3>1, <3>2
  <2>4. new \in RunState /\ new.phase = "marked" /\ new.tenant = t /\ new.mark = k /\ new.rows = {}
    BY <2>3, IdleRunFields DEF RunState, Phases
  <2> HIDE DEF new
  <2>5. run'[u] = new /\ \A v \in Runs \ {u} : run'[v] = run[v]
    BY <1>t, <2>2 DEF AnchorTypeOK, new
  <2>6. AnchorTypeOK'
    BY <1>t, <2>1, <2>2, <2>4 DEF AnchorTypeOK, new
  <2>7. \A x \in receipts : Covered(x)' <=> Covered(x)
    BY <2>1 DEF Covered
  <2>8. MarkOk(u)'
    BY <2>1, <2>3, <2>4, <2>5, <2>7 DEF MarkOk
  <2>9. Gathered(run'[u].tenant, run'[u].rows)
    BY <2>4, <2>5 DEF Gathered
  <2> QED BY <1>i, <1>k, <2>1, <2>5, <2>6, <2>7, <2>8, <2>9
<1>5. ASSUME NEW u \in Runs, TakeReceipts(u) PROVE AnchorInv'
  <2> DEFINE rows == PendingAfter(run[u].tenant, run[u].mark)
             new == IF rows = {} THEN IdleRun ELSE [run[u] EXCEPT !.phase = "taken", !.rows = rows]
  <2>1. /\ UNCHANGED <<clock, stamped, receipts, batches, late>> /\ run[u].phase = "marked"
        /\ run' = [run EXCEPT ![u] = new]
    BY <1>5 DEF TakeReceipts
  <2>2. Gathered(run[u].tenant, rows)
    BY <2>1, TakenGathered
  <2>3. rows \subseteq Row
    BY <1>t, <2>2 DEF Gathered, AnchorTypeOK
  <2>4. /\ new \in RunState /\ new.phase # "marked"
        /\ new.rows = {} \/ (new.tenant = run[u].tenant /\ new.rows = rows)
    <3>1. run[u] \in RunState
      BY <1>t DEF AnchorTypeOK
    <3>2. CASE rows = {}
      BY <3>2, IdleRunFields
    <3>3. CASE rows # {}
      BY <2>3, <3>1, <3>3 DEF RunState, Phases
    <3> QED BY <3>2, <3>3
  <2> HIDE DEF new, rows
  <2>5. run'[u] = new /\ \A v \in Runs \ {u} : run'[v] = run[v]
    BY <1>t, <2>1 DEF AnchorTypeOK
  <2>6. AnchorTypeOK'
    BY <1>t, <2>1, <2>4 DEF AnchorTypeOK
  <2>7. \A x \in receipts : Covered(x)' <=> Covered(x)
    BY <2>1 DEF Covered
  <2>8. MarkOk(u)'
    BY <2>4, <2>5 DEF MarkOk
  <2>9. Gathered(run'[u].tenant, run'[u].rows)
    BY <2>2, <2>4, <2>5 DEF Gathered
  <2> QED BY <1>i, <1>k, <2>1, <2>5, <2>6, <2>7, <2>8, <2>9
<1>6. ASSUME NEW u \in Runs, NEW h \in 0..MaxAudit, InsertBatch(u, h) PROVE AnchorInv'
  <2>1. PICK a \in run[u].rows, z \in run[u].rows :
          batches' = batches \cup
            {[owner |-> u, tenant |-> run[u].tenant, rows |-> run[u].rows, head |-> h,
              first |-> KeyOf(a), last |-> KeyOf(z), status |-> "pending", created |-> clock]}
    BY <1>6 DEF InsertBatch
  <2> DEFINE new == [owner |-> u, tenant |-> run[u].tenant, rows |-> run[u].rows, head |-> h,
                     first |-> KeyOf(a), last |-> KeyOf(z), status |-> "pending", created |-> clock]
             job == [run[u] EXCEPT !.phase = "pending"]
  <2>2. UNCHANGED <<clock, stamped, receipts, late>> /\ run' = [run EXCEPT ![u] = job]
    BY <1>6 DEF InsertBatch
  <2>3. run[u] \in RunState /\ clock \in Nat
    BY <1>t DEF AnchorTypeOK
  <2>4. KeyOf(a) \in Key /\ KeyOf(z) \in Key
    BY <2>3, RowKey DEF RunState
  <2>5. /\ new \in Batch /\ new.status = "pending" /\ new.tenant = run[u].tenant /\ new.rows = run[u].rows
        /\ new.first = KeyOf(a) /\ new.last = KeyOf(z)
    BY <2>3, <2>4, AnchorAssumption DEF Batch, RunState
  <2>6. job \in RunState /\ job.phase = "pending" /\ job.tenant = run[u].tenant /\ job.rows = run[u].rows
    BY <2>3 DEF RunState, Phases
  <2>n. batches' = batches \cup {new}
    BY <2>1
  <2> HIDE DEF new, job
  <2>7. run'[u] = job /\ \A v \in Runs \ {u} : run'[v] = run[v]
    BY <1>t, <2>2 DEF AnchorTypeOK
  <2>8. AnchorTypeOK'
    BY <1>t, <2>2, <2>5, <2>6, <2>n DEF AnchorTypeOK
  <2>9. \A x \in receipts : Covered(x) => Covered(x)'
    BY <2>n DEF Covered
  <2>10. BatchOk(new) /\ Gathered(new.tenant, new.rows)
    BY <1>i, <2>5 DEF BatchOk
  <2>11. MarkOk(u)' /\ Gathered(run'[u].tenant, run'[u].rows)
    BY <1>i, <2>6, <2>7 DEF MarkOk
  <2> QED BY <1>i, <1>k, <2>2, <2>7, <2>8, <2>9, <2>10, <2>11, <2>n
<1>7. ASSUME NEW u \in Runs, NEW ok \in SUBSET Providers, Publish(u, ok) PROVE AnchorInv'
  <2> DEFINE job == [run[u] EXCEPT !.phase = "published", !.anchors = ok]
  <2>1. UNCHANGED <<clock, stamped, receipts, batches, late>> /\ run' = [run EXCEPT ![u] = job]
    BY <1>7, <1>t DEF Publish, AnchorTypeOK
  <2>2. run[u] \in RunState
    BY <1>t DEF AnchorTypeOK
  <2>3. job \in RunState /\ job.phase = "published" /\ job.tenant = run[u].tenant /\ job.rows = run[u].rows
    BY <2>2 DEF RunState, Phases
  <2> HIDE DEF job
  <2>5. run'[u] = job /\ \A v \in Runs \ {u} : run'[v] = run[v]
    BY <1>t, <2>1 DEF AnchorTypeOK
  <2>6. AnchorTypeOK'
    BY <1>t, <2>1, <2>3 DEF AnchorTypeOK
  <2>7. \A x \in receipts : Covered(x)' <=> Covered(x)
    BY <2>1 DEF Covered
  <2>8. MarkOk(u)' /\ Gathered(run'[u].tenant, run'[u].rows)
    BY <1>i, <2>3, <2>5 DEF MarkOk
  <2> QED BY <1>i, <1>k, <2>1, <2>5, <2>6, <2>7, <2>8
\* The two ways a run ends.
<1>8. ASSUME NEW u \in Runs, NEW s \in {"pending", "submitted", "partial", "failed"},
             batches' = Release(u, s), run' = [run EXCEPT ![u] = IdleRun],
             UNCHANGED <<clock, stamped, receipts, late>>
      PROVE  AnchorInv'
  <2>1. run'[u] = IdleRun /\ \A v \in Runs \ {u} : run'[v] = run[v]
    BY <1>8, <1>t DEF AnchorTypeOK
  <2>2. AnchorTypeOK'
    BY <1>8, <1>t, IdleRunFields, ReleasedFields DEF AnchorTypeOK
  <2>3. \A x \in receipts : Covered(x) => Covered(x)'
    BY <1>8, SubmittedStays DEF Covered
  <2>4. ASSUME NEW c \in batches' PROVE BatchOk(c) /\ Gathered(c.tenant, c.rows)
    <3>1. PICK b \in batches : /\ c.rows = b.rows /\ c.tenant = b.tenant
                               /\ c.first = b.first /\ c.last = b.last
                               /\ c = b \/ c.owner = NoRun
      BY <1>8, ReleasedFields
    <3> QED BY <1>i, <3>1 DEF BatchOk
  <2>5. ASSUME NEW b \in batches PROVE \E c \in batches' : c.rows = b.rows
    <3>1. b \in Batch
      BY <1>t DEF AnchorTypeOK
    <3>2. [b EXCEPT !.owner = NoRun, !.status = s].rows = b.rows
      BY <3>1 DEF Batch
    <3> QED BY <1>8, <3>2 DEF Release
  <2>6. MarkOk(u)' /\ Gathered(run'[u].tenant, run'[u].rows)
    BY <2>1, IdleRunFields DEF MarkOk, Gathered
  <2> QED BY <1>8, <1>k, <2>1, <2>2, <2>3, <2>4, <2>5, <2>6
<1>9. ASSUME NEW u \in Runs, RecordOutcome(u) \/ LoseRun(u) PROVE AnchorInv'
  BY <1>8, <1>9 DEF RecordOutcome, LoseRun, Outcome
<1>10. CASE UNCHANGED vars
  BY <1>10 DEF vars, AnchorInv, AnchorTypeOK, IdsDiffer, BatchOk, MarkOk, Gathered, Covered
<1> QED BY <1>1, <1>2, <1>3, <1>4, <1>5, <1>6, <1>7, <1>9, <1>10 DEF Next, Anchor

----------------------------------------------------------------------------
(* Theorems.                                                               *)

\* However runs overlap, fail or are cut short, a receipt behind the watermark
\* is in a submitted batch unless it became visible after a run had passed it
\* (anchor_pending_actions_for_tenant).
THEOREM NothingHidden == Spec => []CoveredUnlessLate
<1>1. AnchorInv => CoveredUnlessLate
  <2> SUFFICES ASSUME AnchorInv, NEW x \in receipts, NEW k \in Watermarks(x.tenant),
                      Upto(KeyOf(x), k), x.id \notin late
               PROVE  \E b \in Submitted : x \in b.rows
    BY DEF CoveredUnlessLate
  <2>1. x.tenant \in Tenants
    BY DEF AnchorInv, AnchorTypeOK, Row
  <2>2. Covered(x)
    BY <2>1, BehindWatermark
  <2> QED BY <2>2 DEF Covered, Submitted
<1> QED BY <1>1, InitAnchorInv, NextAnchorInv, PTL DEF Spec

\* The rows fetched again for a proof are those of the batch and late ones
\* (proof_for_receipt_for_tenant).
THEOREM RebuildExact == Spec => []RebuildExactUnlessLate
<1>1. AnchorInv => RebuildExactUnlessLate
  <2> SUFFICES ASSUME AnchorInv, NEW b \in batches, NEW x \in Rebuild(b), x.id \notin late PROVE x \in b.rows
    BY DEF RebuildExactUnlessLate
  <2>1. x \in receipts /\ x.tenant = b.tenant /\ Upto(b.first, KeyOf(x)) /\ Upto(KeyOf(x), b.last)
    BY DEF Rebuild
  <2>2. BatchOk(b) /\ Gathered(b.tenant, b.rows)
    BY DEF AnchorInv
  <2> QED BY <2>1, <2>2 DEF BatchOk, Gathered
<1> QED BY <1>1, InitAnchorInv, NextAnchorInv, PTL DEF Spec

\* No step moves the watermark of a tenant back in time, since a submitted batch
\* is never touched again.
THEOREM NoRetreat == Spec => WatermarkNeverRetreats
<1>1. ASSUME AnchorInv, AnchorInv', [Next]_vars,
             NEW t \in Tenants, NEW k \in Watermarks(t), NEW l \in Watermarks(t)'
      PROVE  k.ts <= l.ts
  <2> DEFINE F == {b \in batches : b.tenant = t /\ b.status = "submitted"}
             G == {b \in batches' : b.tenant = t /\ b.status = "submitted"}
  <2>1. \A b \in batches : b.status = "submitted" => b \in batches'
    <3>1. CASE \E u \in Runs : RecordOutcome(u) \/ LoseRun(u)
      BY <1>1, <3>1, SubmittedStays DEF RecordOutcome, LoseRun
    <3> QED BY <1>1, <3>1
            DEF Next, vars, StampReceipt, StoreReceipt, Tick, ReadWatermark, Anchor, TakeReceipts, InsertBatch, Publish
  <2>2. F \subseteq G
    BY <2>1
  <2>3. \A b \in F \cup G : b.last \in Key /\ b.last.ts \in Nat
    BY <1>1 DEF AnchorInv, AnchorTypeOK, Batch, Key
  <2>4. k \in (IF F = {} THEN {Zero} ELSE {b.last : b \in {c \in F : \A d \in F : d.last.ts <= c.last.ts}})
    BY <1>1 DEF Watermarks, EndsOfGreatest, EndTime
  <2>5. l \in (IF G = {} THEN {Zero} ELSE {b.last : b \in {c \in G : \A d \in G : d.last.ts <= c.last.ts}})
    BY <1>1 DEF Watermarks, EndsOfGreatest, EndTime
  <2> HIDE DEF F, G
  <2>6. CASE F = {}
    <3>1. k.ts = 0
      BY <2>4, <2>6 DEF Zero
    <3>2. l.ts \in Nat
      BY <2>3, <2>5 DEF Zero
    <3> QED BY <3>1, <3>2
  <2>7. CASE F # {}
    BY <2>2, <2>4, <2>5, <2>7
  <2> QED BY <2>6, <2>7
<1>2. AnchorInv /\ AnchorInv' /\ [Next]_vars =>
        [\A t \in Tenants : \A k \in Watermarks(t) : \A l \in Watermarks(t)' : k.ts <= l.ts]_vars
  BY <1>1
<1> QED BY <1>2, InitAnchorInv, NextAnchorInv, PTL DEF Spec, WatermarkNeverRetreats

----------------------------------------------------------------------------
(* The anchor providers: what an accepted proof rests on.                  *)

AnchorRow == [tenant: ChainTenants, rows: [Nets -> Nat],
              status: {"pending", "submitted", "partial", "failed", "left pending"}, intact: BOOLEAN]
ProviderRow == [net: Nets, tenant: ChainTenants \cup {DefaultTenant}, done: BOOLEAN]

ChainTypeOK ==
  /\ anchored \in Seq(AnchorRow)
  /\ provRows \in Seq(ProviderRow)
  /\ fate \in Seq(({"waiting"} \cup Fates))
  /\ Len(fate) = Len(provRows)
  /\ checkpoints \subseteq ChainTenants \X (1..Len(anchored)) \X Circuits

\* A provider row is confirmed only when its root is in a block, or said to be.
Upgraded == {"mined", "vouched"}
ConfirmedAreMined == \A i \in 1..Len(provRows) : provRows[i].done => fate[i] \in Upgraded
\* A batch names rows that exist.
RowsExist == \A b \in 1..Len(anchored), n \in Nets : anchored[b].rows[n] <= Len(provRows)
\* A batch with a checkpoint is its tenant's and has been published.
Backed(t, b) ==
  LET i == anchored[b].rows["ots"] IN
    anchored[b].tenant = t /\ i # 0 /\ (Production => provRows[i].done)

ChainInv ==
  /\ ChainTypeOK /\ ConfirmedAreMined /\ RowsExist
  /\ \A t \in ChainTenants, b \in 1..Len(anchored), c \in Circuits :
       <<t, b, c>> \in checkpoints => Backed(t, b)
  /\ accepted \subseteq checkpoints

LEMMA BatchTypes ==
  ASSUME ChainTypeOK, NEW b \in 1..Len(anchored)
  PROVE  /\ anchored[b] \in AnchorRow /\ anchored[b].tenant \in ChainTenants
         /\ anchored[b].rows \in [Nets -> Nat] /\ \A n \in Nets : anchored[b].rows[n] \in Nat
<1>1. anchored[b] \in AnchorRow
  BY DEF ChainTypeOK
<1>2. anchored[b].tenant \in ChainTenants /\ anchored[b].rows \in [Nets -> Nat]
  BY <1>1 DEF AnchorRow
<1> QED BY <1>1, <1>2

\* What a step may do to the batches and the provider rows there are.
LEMMA BackedKept ==
  ASSUME ChainInv, ChainTypeOK', ConfirmedAreMined', RowsExist',
         Len(anchored) <= Len(anchored'), Len(provRows) <= Len(provRows'),
         \A b \in 1..Len(anchored) :
           /\ anchored'[b].tenant = anchored[b].tenant
           /\ anchored[b].rows["ots"] # 0 => anchored'[b].rows["ots"] = anchored[b].rows["ots"],
         \A i \in 1..Len(provRows) : provRows[i].done => provRows'[i].done,
         UNCHANGED checkpoints, accepted' \subseteq checkpoints
  PROVE  ChainInv'
<1>1. ASSUME NEW t \in ChainTenants, NEW b \in 1..Len(anchored'), NEW c \in Circuits,
             <<t, b, c>> \in checkpoints
      PROVE  Backed(t, b)'
  <2>1. b \in 1..Len(anchored) /\ Backed(t, b)
    BY <1>1 DEF ChainInv, ChainTypeOK
  <2>2. "ots" \in Nets
    BY ChainAssumption
  <2>3. anchored[b].rows["ots"] \in Nat /\ Len(provRows) \in Nat
    BY <2>1, <2>2, BatchTypes DEF ChainInv, ChainTypeOK
  <2>4. anchored[b].rows["ots"] \in 1..Len(provRows)
    BY <2>1, <2>2, <2>3 DEF ChainInv, RowsExist, Backed
  <2> QED BY <2>1, <2>4 DEF Backed
<1> QED BY <1>1 DEF ChainInv

LEMMA ChainStep ==
  ASSUME ChainInv, [ChainNext]_chainVars PROVE ChainInv'
<1>t. /\ ChainTypeOK /\ ConfirmedAreMined /\ RowsExist /\ "ots" \in Nets
      /\ Len(anchored) \in Nat /\ Len(provRows) \in Nat /\ accepted \subseteq checkpoints
  BY ChainAssumption DEF ChainInv, ChainTypeOK
<1>1. ASSUME NEW t \in ChainTenants, OpenBatch(t) PROVE ChainInv'
  <2> DEFINE row == [tenant |-> t, rows |-> [n \in Nets |-> 0], status |-> "pending", intact |-> TRUE]
  <2>1. /\ anchored' = Append(anchored, row)
        /\ UNCHANGED <<provRows, fate, checkpoints, accepted>>
    BY <1>1 DEF OpenBatch
  <2>2. row \in AnchorRow /\ \A n \in Nets : row.rows[n] = 0
    BY DEF AnchorRow
  <2> HIDE DEF row
  <2>3. /\ anchored' \in Seq(AnchorRow) /\ Len(anchored') = Len(anchored) + 1
        /\ anchored'[Len(anchored) + 1] = row
        /\ \A b \in 1..Len(anchored) : anchored'[b] = anchored[b]
    BY <1>t, <2>1, <2>2 DEF ChainTypeOK
  <2>4. ChainTypeOK' /\ ConfirmedAreMined'
    BY <1>t, <2>1, <2>3 DEF ChainTypeOK, ConfirmedAreMined
  <2>5. RowsExist'
    BY <1>t, <2>1, <2>2, <2>3 DEF RowsExist
  <2> QED BY <1>t, <2>1, <2>3, <2>4, <2>5, BackedKept
<1>2. ASSUME NEW b \in 1..Len(anchored), NEW n \in Nets, PublishRoot(b, n) PROVE ChainInv'
  <2> DEFINE nrows == [anchored[b].rows EXCEPT ![n] = Len(provRows) + 1]
             new == [anchored[b] EXCEPT !.rows = nrows]
  <2>1. /\ anchored[b].rows[n] = 0 /\ anchored' = [anchored EXCEPT ![b] = new]
        /\ provRows' = Append(provRows, SentRow(n)) /\ fate' = Append(fate, "waiting")
        /\ UNCHANGED <<checkpoints, accepted>>
    BY <1>2 DEF PublishRoot
  <2>2. anchored[b] \in AnchorRow
    BY <1>t DEF ChainTypeOK
  <2>3. /\ new \in AnchorRow /\ new.tenant = anchored[b].tenant
        /\ new.rows[n] = Len(provRows) + 1 /\ \A m \in Nets \ {n} : new.rows[m] = anchored[b].rows[m]
    <3>1. /\ nrows \in [Nets -> Nat] /\ nrows[n] = Len(provRows) + 1
          /\ \A m \in Nets \ {n} : nrows[m] = anchored[b].rows[m]
      BY <1>t, BatchTypes
    <3> HIDE DEF nrows
    <3>2. new \in AnchorRow /\ new.tenant = anchored[b].tenant /\ new.rows = nrows
      BY <2>2, <3>1 DEF AnchorRow
    <3> QED BY <3>1, <3>2
  <2> HIDE DEF new, nrows
  <2>4. /\ anchored' \in Seq(AnchorRow) /\ Len(anchored') = Len(anchored) /\ anchored'[b] = new
        /\ \A d \in 1..Len(anchored) : d # b => anchored'[d] = anchored[d]
    BY <1>t, <2>1, <2>3 DEF ChainTypeOK
  <2>5. SentRow(n) \in ProviderRow /\ ~SentRow(n).done
    BY DEF SentRow, ProviderRow
  <2>6. /\ provRows' \in Seq(ProviderRow) /\ Len(provRows') = Len(provRows) + 1
        /\ ~provRows'[Len(provRows) + 1].done
        /\ \A i \in 1..Len(provRows) : provRows'[i] = provRows[i]
        /\ fate' \in Seq(({"waiting"} \cup Fates)) /\ Len(fate') = Len(provRows')
        /\ \A i \in 1..Len(provRows) : fate'[i] = fate[i]
    BY <1>t, <2>1, <2>5 DEF ChainTypeOK
  <2>7. ChainTypeOK' /\ ConfirmedAreMined'
    BY <1>t, <2>1, <2>4, <2>6 DEF ChainTypeOK, ConfirmedAreMined
  <2>8. RowsExist'
    <3>1. \A d \in 1..Len(anchored), m \in Nets : anchored[d].rows[m] \in Nat
      BY <1>t, BatchTypes
    <3>2. \A d \in 1..Len(anchored), m \in Nets : anchored[d].rows[m] <= Len(provRows) + 1
      BY <1>t, <3>1 DEF RowsExist
    <3>3. \A m \in Nets : new.rows[m] <= Len(provRows) + 1
      BY <1>t, <2>3, <3>2
    <3>4. \A d \in 1..Len(anchored), m \in Nets : anchored'[d].rows[m] <= Len(provRows) + 1
      BY <2>4, <3>2, <3>3
    <3> QED BY <2>4, <2>6, <3>4 DEF RowsExist
  <2>9. \A d \in 1..Len(anchored) :
          /\ anchored'[d].tenant = anchored[d].tenant
          /\ anchored[d].rows["ots"] # 0 => anchored'[d].rows["ots"] = anchored[d].rows["ots"]
    BY <1>t, <2>1, <2>3, <2>4
  <2>10. Len(anchored) <= Len(anchored') /\ Len(provRows) <= Len(provRows')
    BY <1>t, <2>4, <2>6
  <2>11. (\A i \in 1..Len(provRows) : provRows[i].done => provRows'[i].done) /\ accepted' \subseteq checkpoints
    BY <1>t, <2>1, <2>6
  <2> QED BY <2>1, <2>7, <2>8, <2>9, <2>10, <2>11, BackedKept
<1>3. ASSUME NEW b \in 1..Len(anchored), SettleBatch(b) PROVE ChainInv'
  <2>1. PICK s \in {"submitted", "partial", "failed"} :
          anchored' = [anchored EXCEPT ![b] = [anchored[b] EXCEPT !.status = s]]
    BY <1>3 DEF SettleBatch
  <2> DEFINE new == [anchored[b] EXCEPT !.status = s]
  <2>2. /\ UNCHANGED <<fate, checkpoints, accepted>>
        /\ \E P \in SUBSET (1..Len(provRows)) : provRows' = [i \in 1..Len(provRows) |->
             IF i \in P THEN [provRows[i] EXCEPT !.tenant = anchored[b].tenant] ELSE provRows[i]]
    <3> DEFINE got == {n \in Nets : anchored[b].rows[n] # 0}
               P == {i \in 1..Len(provRows) : \E n \in got : anchored[b].rows[n] = i}
    <3>1. /\ UNCHANGED <<fate, checkpoints, accepted>>
          /\ provRows' = [i \in 1..Len(provRows) |->
               IF \E n \in got : anchored[b].rows[n] = i
                 THEN [provRows[i] EXCEPT !.tenant = anchored[b].tenant] ELSE provRows[i]]
      BY <1>3 DEF SettleBatch
    <3>2. \A i \in 1..Len(provRows) : i \in P <=> \E n \in got : anchored[b].rows[n] = i
      OBVIOUS
    <3> HIDE DEF P, got
    <3>3. P \in SUBSET (1..Len(provRows))
      BY DEF P
    <3>4. provRows' = [i \in 1..Len(provRows) |->
             IF i \in P THEN [provRows[i] EXCEPT !.tenant = anchored[b].tenant] ELSE provRows[i]]
      BY <3>1, <3>2
    <3> QED BY <3>1, <3>3, <3>4
  <2>3. anchored[b] \in AnchorRow
    BY <1>t DEF ChainTypeOK
  <2>4. new \in AnchorRow /\ new.tenant = anchored[b].tenant /\ new.rows = anchored[b].rows
    BY <2>3 DEF AnchorRow
  <2> HIDE DEF new
  <2>5. /\ anchored' \in Seq(AnchorRow) /\ Len(anchored') = Len(anchored) /\ anchored'[b] = new
        /\ \A d \in 1..Len(anchored) : d # b => anchored'[d] = anchored[d]
    <3>1. anchored' = [anchored EXCEPT ![b] = new]
      BY <2>1 DEF new
    <3> QED BY <1>t, <2>4, <3>1 DEF ChainTypeOK
  <2>6. /\ provRows' \in Seq(ProviderRow) /\ Len(provRows') = Len(provRows)
        /\ \A i \in 1..Len(provRows) : provRows'[i].done = provRows[i].done
    <3>1. PICK P \in SUBSET (1..Len(provRows)) : provRows' = [i \in 1..Len(provRows) |->
             IF i \in P THEN [provRows[i] EXCEPT !.tenant = anchored[b].tenant] ELSE provRows[i]]
      BY <2>2
    <3>2. ASSUME NEW i \in 1..Len(provRows)
          PROVE  /\ provRows'[i] \in ProviderRow /\ provRows'[i].done = provRows[i].done
      <4>1. provRows[i] \in ProviderRow /\ anchored[b].tenant \in ChainTenants
        BY <1>t, BatchTypes DEF ChainTypeOK
      <4>2. /\ [provRows[i] EXCEPT !.tenant = anchored[b].tenant] \in ProviderRow
            /\ [provRows[i] EXCEPT !.tenant = anchored[b].tenant].done = provRows[i].done
        BY <4>1 DEF ProviderRow
      <4>3. provRows'[i] = provRows[i] \/ provRows'[i] = [provRows[i] EXCEPT !.tenant = anchored[b].tenant]
        BY <3>1
      <4> QED BY <4>1, <4>2, <4>3
    <3>3. DOMAIN provRows' = 1..Len(provRows) /\ provRows' = [i \in 1..Len(provRows) |-> provRows'[i]]
      BY <3>1
    <3> HIDE <3>1
    <3>4. provRows' \in Seq(ProviderRow) /\ Len(provRows') = Len(provRows)
      BY <1>t, <3>2, <3>3
    <3> QED BY <3>2, <3>4
  <2>7. ChainTypeOK' /\ ConfirmedAreMined'
    BY <1>t, <2>2, <2>5, <2>6 DEF ChainTypeOK, ConfirmedAreMined
  <2>8. RowsExist'
    BY <1>t, <2>4, <2>5, <2>6 DEF RowsExist
  <2> QED BY <1>t, <2>2, <2>4, <2>5, <2>6, <2>7, <2>8, BackedKept
<1>4. ASSUME NEW b \in 1..Len(anchored), Disturb(b) PROVE ChainInv'
  <2> DEFINE new == [anchored[b] EXCEPT !.intact = FALSE]
  <2>1. /\ anchored' = [anchored EXCEPT ![b] = new]
        /\ UNCHANGED <<provRows, fate, checkpoints, accepted>>
    BY <1>4 DEF Disturb
  <2>2. anchored[b] \in AnchorRow
    BY <1>t DEF ChainTypeOK
  <2>3. new \in AnchorRow /\ new.tenant = anchored[b].tenant /\ new.rows = anchored[b].rows
    BY <2>2 DEF AnchorRow
  <2> HIDE DEF new
  <2>4. /\ anchored' \in Seq(AnchorRow) /\ Len(anchored') = Len(anchored) /\ anchored'[b] = new
        /\ \A d \in 1..Len(anchored) : d # b => anchored'[d] = anchored[d]
    BY <1>t, <2>1, <2>3 DEF ChainTypeOK
  <2>5. ChainTypeOK' /\ ConfirmedAreMined'
    BY <1>t, <2>1, <2>4 DEF ChainTypeOK, ConfirmedAreMined
  <2>6. RowsExist'
    BY <1>t, <2>1, <2>3, <2>4 DEF RowsExist
  <2> QED BY <1>t, <2>1, <2>3, <2>4, <2>5, <2>6, BackedKept
<1>5. ASSUME NEW t \in ChainTenants, NEW b \in 1..Len(anchored), NEW c \in Circuits,
             FinalizeCheckpoint(t, b, c) PROVE ChainInv'
  <2>1. /\ checkpoints' = checkpoints \cup {<<t, b, c>>} /\ anchored[b].tenant = t
        /\ BackedByBitcoin(t, b) /\ UNCHANGED <<anchored, provRows, fate, accepted>>
    BY <1>5 DEF FinalizeCheckpoint
  <2>2. Backed(t, b)
    BY <2>1 DEF Backed, BackedByBitcoin
  <2>3. ChainTypeOK' /\ ConfirmedAreMined' /\ RowsExist'
    BY <1>t, <2>1 DEF ChainTypeOK, ConfirmedAreMined, RowsExist
  <2>4. ASSUME NEW u \in ChainTenants, NEW d \in 1..Len(anchored'), NEW e \in Circuits,
               <<u, d, e>> \in checkpoints'
        PROVE  Backed(u, d)'
    <3>1. Backed(u, d)
      BY <2>1, <2>2, <2>4 DEF ChainInv
    <3> QED BY <2>1, <3>1 DEF Backed
  <2> QED BY <1>t, <2>1, <2>3, <2>4 DEF ChainInv
<1>6. ASSUME NEW t \in ChainTenants, NEW b \in 1..Len(anchored), NEW c \in Circuits,
             VerifyProof(t, b, c) PROVE ChainInv'
  <2>1. UNCHANGED <<anchored, provRows, fate, checkpoints>> /\ accepted' \subseteq checkpoints
    BY <1>t, <1>6 DEF VerifyProof
  <2>2. ChainTypeOK' /\ ConfirmedAreMined' /\ RowsExist'
    BY <1>t, <2>1 DEF ChainTypeOK, ConfirmedAreMined, RowsExist
  <2> QED BY <1>t, <2>1, <2>2, BackedKept
<1>7. ASSUME NEW i \in 1..Len(fate), NEW f \in Fates, Resolve(i, f) PROVE ChainInv'
  <2>1. /\ fate[i] = "waiting" /\ fate' = [fate EXCEPT ![i] = f]
        /\ UNCHANGED <<anchored, provRows, checkpoints, accepted>>
    BY <1>7 DEF Resolve
  <2>2. /\ fate' \in Seq(({"waiting"} \cup Fates)) /\ Len(fate') = Len(fate)
        /\ \A j \in 1..Len(fate) : fate[j] \in Upgraded => fate'[j] = fate[j]
    BY <1>t, <2>1 DEF ChainTypeOK, Upgraded
  <2>3. ChainTypeOK' /\ ConfirmedAreMined' /\ RowsExist'
    BY <1>t, <2>1, <2>2 DEF ChainTypeOK, ConfirmedAreMined, RowsExist
  <2> QED BY <1>t, <2>1, <2>3, BackedKept
<1>8. ASSUME NEW n \in Nets, StartRound(n) PROVE ChainInv'
  <2>1. UNCHANGED <<anchored, provRows, fate, checkpoints, accepted>>
    BY <1>8 DEF StartRound
  <2>2. ChainTypeOK' /\ ConfirmedAreMined' /\ RowsExist'
    BY <1>t, <2>1 DEF ChainTypeOK, ConfirmedAreMined, RowsExist
  <2> QED BY <1>t, <2>1, <2>2, BackedKept
<1>9. ASSUME NEW n \in Nets, LookAt(n) PROVE ChainInv'
  <2> PICK i \in polled[n] : 
         /\ \/ provRows' = IF Included(i) THEN [provRows EXCEPT ![i].done = TRUE] ELSE provRows
            \/ UNCHANGED provRows
         /\ UNCHANGED <<anchored, fate, checkpoints, accepted>>
    BY <1>9 DEF LookAt
  <2>1. /\ provRows' = provRows \/ (Included(i) /\ provRows' = [provRows EXCEPT ![i].done = TRUE])
        /\ UNCHANGED <<anchored, fate, checkpoints, accepted>>
    OBVIOUS
  <2>2. /\ provRows' \in Seq(ProviderRow) /\ Len(provRows') = Len(provRows)
        /\ \A j \in 1..Len(provRows) :
             /\ provRows[j].done => provRows'[j].done
             /\ provRows'[j].done => provRows[j].done \/ fate[j] \in Upgraded
    <3>1. CASE provRows' = provRows
      BY <1>t, <3>1 DEF ChainTypeOK
    <3>2. CASE /\ Included(i) /\ i \in 1..Len(provRows)
               /\ provRows' = [provRows EXCEPT ![i] = [provRows[i] EXCEPT !.done = TRUE]]
      <4> DEFINE new == [provRows[i] EXCEPT !.done = TRUE]
      <4>1. provRows[i] \in ProviderRow
        BY <1>t, <3>2 DEF ChainTypeOK
      <4>2. new \in ProviderRow /\ new.done
        BY <4>1 DEF ProviderRow
      <4>3. fate[i] \in Upgraded /\ provRows' = [provRows EXCEPT ![i] = new]
        BY <3>2 DEF Included, Upgraded
      <4>i. i \in 1..Len(provRows) /\ provRows \in Seq(ProviderRow)
        BY <1>t, <3>2 DEF ChainTypeOK
      <4> HIDE DEF new
      <4>4. /\ provRows' \in Seq(ProviderRow) /\ Len(provRows') = Len(provRows)
            /\ provRows'[i] = new /\ \A j \in 1..Len(provRows) : j # i => provRows'[j] = provRows[j]
        BY <4>2, <4>3, <4>i
      <4> QED BY <4>2, <4>3, <4>4
    <3>3. CASE i \notin 1..Len(provRows)
      <4>1. provRows' = provRows
        BY <1>t, <2>1, <3>3 DEF ChainTypeOK
      <4> QED BY <3>1, <4>1
    <3> QED BY <2>1, <3>1, <3>2, <3>3
  <2>3. ChainTypeOK' /\ ConfirmedAreMined' /\ RowsExist'
    BY <1>t, <2>1, <2>2 DEF ChainTypeOK, ConfirmedAreMined, RowsExist
  <2> QED BY <1>t, <2>1, <2>2, <2>3, BackedKept
<1>10. CASE RestartPollers
  <2>1. /\ anchored' = [b \in 1..Len(anchored) |->
             IF anchored[b].status = "pending" THEN [anchored[b] EXCEPT !.status = "left pending"]
             ELSE anchored[b]]
        /\ UNCHANGED <<provRows, fate, checkpoints, accepted>>
    BY <1>10 DEF RestartPollers
  <2>2. ASSUME NEW b \in 1..Len(anchored)
        PROVE  /\ anchored'[b] \in AnchorRow /\ anchored'[b].tenant = anchored[b].tenant
               /\ anchored'[b].rows = anchored[b].rows
    <3>1. anchored[b] \in AnchorRow
      BY <1>t DEF ChainTypeOK
    <3>2. /\ [anchored[b] EXCEPT !.status = "left pending"] \in AnchorRow
          /\ [anchored[b] EXCEPT !.status = "left pending"].tenant = anchored[b].tenant
          /\ [anchored[b] EXCEPT !.status = "left pending"].rows = anchored[b].rows
      BY <3>1 DEF AnchorRow
    <3>3. anchored'[b] = anchored[b] \/ anchored'[b] = [anchored[b] EXCEPT !.status = "left pending"]
      BY <2>1
    <3> QED BY <3>1, <3>2, <3>3
  <2>3. DOMAIN anchored' = 1..Len(anchored) /\ anchored' = [b \in 1..Len(anchored) |-> anchored'[b]]
    BY <2>1
  <2>4. anchored' \in Seq(AnchorRow) /\ Len(anchored') = Len(anchored)
    BY <1>t, <2>2, <2>3
  <2>5. UNCHANGED <<provRows, fate, checkpoints, accepted>>
    BY <2>1
  <2> HIDE <2>1
  <2>6. ChainTypeOK' /\ ConfirmedAreMined'
    BY <1>t, <2>4, <2>5 DEF ChainTypeOK, ConfirmedAreMined
  <2>7. RowsExist'
    BY <1>t, <2>2, <2>4, <2>5 DEF RowsExist
  <2> QED BY <1>t, <2>2, <2>4, <2>5, <2>6, <2>7, BackedKept
<1>11. CASE UNCHANGED chainVars
  <2>1. UNCHANGED <<anchored, provRows, fate, checkpoints, accepted>>
    BY <1>11 DEF chainVars
  <2>2. ChainTypeOK' /\ ConfirmedAreMined' /\ RowsExist'
    BY <1>t, <2>1 DEF ChainTypeOK, ConfirmedAreMined, RowsExist
  <2> QED BY <1>t, <2>1, <2>2, BackedKept
<1> QED BY <1>1, <1>2, <1>3, <1>4, <1>5, <1>6, <1>7, <1>8, <1>9, <1>10, <1>11
        DEF ChainNext, BatchStep, Poll

\* In production every proof the server accepts is over a batch of the caller's
\* tenant whose root its calendar has answered for, and is in a Bitcoin block if the
\* calendar told the truth, whatever the pollers, the calendars and restarts do.
THEOREM UpgradedRootsBackProofs == ChainSpec => []ProofsRestOnUpgradedRoots
<1>1. ChainInit => ChainInv
  BY DEF ChainInit, ChainInv, ChainTypeOK, ConfirmedAreMined, RowsExist
<1>2. ChainInv /\ [ChainNext]_chainVars => ChainInv'
  BY ChainStep
<1>3. ASSUME ChainInv PROVE ProofsRestOnUpgradedRoots
  <2> SUFFICES ASSUME NEW p \in accepted, Production
               PROVE  LET b == anchored[p[2]] IN
                        b.tenant = p[1] /\ b.rows["ots"] # 0 /\ fate[b.rows["ots"]] \in Upgraded
    BY DEF ProofsRestOnUpgradedRoots, Upgraded
  <2>1. PICK t \in ChainTenants, b \in 1..Len(anchored), c \in Circuits : p = <<t, b, c>> /\ p \in checkpoints
    BY <1>3 DEF ChainInv, ChainTypeOK
  <2>2. Backed(t, b)
    BY <1>3, <2>1 DEF ChainInv
  <2>3. anchored[b].rows["ots"] \in 1..Len(provRows)
    <3>1. anchored[b].rows["ots"] \in Nat /\ Len(provRows) \in Nat
      BY <1>3, ChainAssumption, BatchTypes DEF ChainInv, ChainTypeOK
    <3> QED BY <1>3, <2>2, <3>1, ChainAssumption DEF ChainInv, RowsExist, Backed
  <2> QED BY <1>3, <2>1, <2>2, <2>3 DEF Backed, ChainInv, ConfirmedAreMined
<1> QED BY <1>1, <1>2, <1>3, PTL DEF ChainSpec

=============================================================================
