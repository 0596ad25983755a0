---------------------------- MODULE StateProofs ----------------------------
(***************************************************************************)
(* Proofs about the state the requests share: the lock on it (StateLock),  *)
(* the policy store with its cache and the spend ledger (PolicyStore), and *)
(* cohort statistics with the privacy budget (CohortStats).                *)
(***************************************************************************)
EXTENDS StateLock, PolicyStore, CohortStats, SumProofs, SequenceTheorems

----------------------------------------------------------------------------
(* The lock on the server state.                                          *)

Marks == {"R", "W", "C", "L", "r", "w", "c"}

\* s consists of these four marks.
Four(s, a, b, c, d) ==
  s \in Seq(Marks) /\ Len(s) = 4 /\ s[1] = a /\ s[2] = b /\ s[3] = c /\ s[4] = d
Shifted(s, n, a, b, c, d) == s[n + 1] = a /\ s[n + 2] = b /\ s[n + 3] = c /\ s[n + 4] = d

\* j is s, m long, followed by t, n long.
Join(j, s, m, t, n) ==
  /\ j \in Seq(Marks) /\ Len(j) = m + n
  /\ \A i \in 1..m : j[i] = s[i]
  /\ \A i \in 1..n : j[m + i] = t[i]

LEMMA Joined ==
  ASSUME NEW s, NEW t, s \in Seq(Marks), t \in Seq(Marks),
         NEW m, NEW n, Len(s) = m, Len(t) = n, NEW j, j = s \o t
  PROVE  Join(j, s, m, t, n)
<1>1. /\ s \o t \in Seq(Marks) /\ Len(s \o t) = Len(s) + Len(t)
      /\ \A i \in 1..(Len(s) + Len(t)) : (s \o t)[i] = IF i <= Len(s) THEN s[i] ELSE t[i - Len(s)]
  BY ConcatProperties
<1>2. Len(s) \in Nat /\ Len(t) \in Nat
  OBVIOUS
<1> QED BY <1>1, <1>2 DEF Join

LEMMA StatementMarks == Four(Statement, "R", "C", "c", "r")
<1>1. \A x \in 1..4 : Statement[x] \in Marks
  BY DEF Statement, Marks
<1> QED BY DEF Statement, Marks, Four

LEMMA LogMarks == Four(Log, "R", "L", "c", "r")
  BY DEF Log, Marks, Four

LEMMA ReadSteps == Four(Steps("read"), "R", "C", "c", "r")
  BY StatementMarks DEF Steps

LEMMA RegisterMarks ==
  LET s == Steps("register") IN
    Len(s) = 8 /\ Shifted(s, 0, "R", "C", "c", "r") /\ Shifted(s, 4, "W", "L", "c", "w")
<1> DEFINE t == <<"W", "L", "c", "w">>
<1>1. Four(t, "W", "L", "c", "w")
  BY DEF Marks, Four
<1>2. Steps("register") = Statement \o t
  BY DEF RegisterSteps, Steps
<1> HIDE DEF t
<1>3. Statement \in Seq(Marks) /\ t \in Seq(Marks) /\ Len(Statement) = 4 /\ Len(t) = 4
  BY <1>1, StatementMarks DEF Four
<1> DEFINE s == Steps("register")
<1>4. Join(s, Statement, 4, t, 4)
  BY <1>2, <1>3, Joined
<1> HIDE DEF s
<1>5. Shifted(s, 0, "R", "C", "c", "r")
  BY <1>4, StatementMarks DEF Four, Shifted, Join
<1>6. Shifted(s, 4, "W", "L", "c", "w")
  BY <1>1, <1>4 DEF Four, Shifted, Join
<1>7. Len(s) = 8
  BY <1>4 DEF Join
<1> QED BY <1>5, <1>6, <1>7 DEF s

LEMMA RevokeMarks ==
  LET s == Steps("revoke") IN
    /\ Len(s) = 14 /\ Shifted(s, 0, "R", "C", "c", "r") /\ Shifted(s, 4, "R", "C", "c", "r")
    /\ s[9] = "W" /\ s[10] = "w" /\ Shifted(s, 10, "R", "L", "c", "r")
<1> DEFINE t == <<"W", "w">>
           u == Statement \o Statement
           v == u \o t
<1>1. t \in Seq(Marks) /\ Len(t) = 2 /\ t[1] = "W" /\ t[2] = "w"
  BY DEF Marks
<1>2. Steps("revoke") = v \o Log
  BY DEF RevokeAgentSteps, Steps
<1>3. Statement \in Seq(Marks) /\ Len(Statement) = 4 /\ Log \in Seq(Marks) /\ Len(Log) = 4
  BY StatementMarks, LogMarks DEF Four
<1> HIDE DEF t
<1>4. Join(u, Statement, 4, Statement, 4)
  BY <1>3, Joined
<1> HIDE DEF u
<1>5. u \in Seq(Marks) /\ Len(u) = 8
  BY <1>4 DEF Join
<1>6. Join(v, u, 8, t, 2)
  BY <1>1, <1>5, Joined
<1> HIDE DEF v
<1>7. v \in Seq(Marks) /\ Len(v) = 10
  BY <1>6 DEF Join
<1> DEFINE s == Steps("revoke")
<1>12. Join(s, v, 10, Log, 4)
  BY <1>2, <1>3, <1>7, Joined
<1> HIDE DEF s
<1>8. Shifted(u, 0, "R", "C", "c", "r") /\ Shifted(u, 4, "R", "C", "c", "r")
  BY <1>4, StatementMarks DEF Four, Shifted, Join
<1>9. Shifted(v, 0, "R", "C", "c", "r") /\ Shifted(v, 4, "R", "C", "c", "r") /\ v[9] = "W" /\ v[10] = "w"
  BY <1>1, <1>6, <1>8 DEF Shifted, Join
<1>10. Shifted(s, 0, "R", "C", "c", "r") /\ Shifted(s, 4, "R", "C", "c", "r") /\ s[9] = "W" /\ s[10] = "w"
  BY <1>12, <1>9 DEF Shifted, Join
<1>11. Shifted(s, 10, "R", "L", "c", "r")
  BY <1>12, LogMarks DEF Four, Shifted, Join
<1>13. Len(s) = 14
  BY <1>12 DEF Join
<1> QED BY <1>10, <1>11, <1>13 DEF s

LEMMA SubscribeMarks ==
  LET s == Steps("subscribe") IN
    Len(s) = 8 /\ Shifted(s, 0, "R", "C", "R", "L") /\ Shifted(s, 4, "c", "r", "c", "r")
  BY DEF Steps, SubscribeSteps, Shifted

----------------------------------------------------------------------------
LockHandlers == {"read", "revoke", "register", "subscribe"}

\* How often x occurs among the first p of the steps s.
Times(s, p, x) == Cardinality({i \in 1..p : s[i] \in {x}})

\* By step p, s has taken r read guards and w write guards more than it dropped.
Held(s, p, r, w) ==
  Times(s, p, "R") = Times(s, p, "r") + r /\ Times(s, p, "W") = Times(s, p, "w") + w

\* What a step adds to the guards held.
Adds(m, acq, rel) == IF m = acq THEN 1 ELSE IF m = rel THEN -1 ELSE 0

LEMMA TimesCounts ==
  ASSUME NEW s, NEW p \in Nat, NEW x
  PROVE  /\ Times(s, p, x) \in Nat
         /\ Times(s, p + 1, x) = IF s[p + 1] = x THEN Times(s, p, x) + 1 ELSE Times(s, p, x)
<1> DEFINE At(q) == {i \in 1..q : s[i] \in {x}}
<1>1. IsFiniteSet(At(p)) /\ Cardinality(At(p)) \in Nat
  <2>1. At(p) \subseteq 1..p
    OBVIOUS
  <2>2. IsFiniteSet(1..p)
    BY FS_Interval
  <2>3. IsFiniteSet(At(p))
    BY <2>1, <2>2, FS_Subset
  <2> QED BY <2>3, FS_CardinalityType
<1>2. CASE s[p + 1] = x
  <2>1. At(p + 1) = At(p) \cup {p + 1} /\ p + 1 \notin At(p)
    BY <1>2
  <2>2. Cardinality(At(p) \cup {p + 1}) = Cardinality(At(p)) + 1
    <3> HIDE DEF At
    <3> QED BY <1>1, <2>1, FS_AddElement
  <2> QED BY <1>1, <1>2, <2>1, <2>2 DEF Times
<1>3. CASE s[p + 1] # x
  <2>1. At(p + 1) = At(p)
    BY <1>3
  <2> QED BY <1>1, <1>3, <2>1 DEF Times
<1> QED BY <1>2, <1>3

LEMMA HeldAtFirst == ASSUME NEW s PROVE Held(s, 0, 0, 0)
<1>1. \A x : {i \in 1..0 : s[i] \in {x}} = {}
  OBVIOUS
<1>2. \A x : Times(s, 0, x) = 0
  BY <1>1, FS_EmptySet DEF Times
<1> QED BY <1>2 DEF Held

LEMMA HeldAfterStep ==
  ASSUME NEW s, NEW p \in Nat, NEW r \in Int, NEW w \in Int, Held(s, p, r, w), NEW m, s[p + 1] = m
  PROVE  Held(s, p + 1, r + Adds(m, "R", "r"), w + Adds(m, "W", "w"))
<1>1. \A x \in {"R", "r", "W", "w"} :
        /\ Times(s, p, x) \in Nat
        /\ Times(s, p + 1, x) = IF m = x THEN Times(s, p, x) + 1 ELSE Times(s, p, x)
  BY TimesCounts
<1> QED BY <1>1 DEF Held, Adds

LEMMA HeldAfterFour ==
  ASSUME NEW s, NEW p \in Nat, NEW r \in Int, NEW w \in Int, Held(s, p, r, w),
         NEW a, NEW b, NEW c, NEW d, Shifted(s, p, a, b, c, d)
  PROVE  Held(s, p + 4,
              r + Adds(a, "R", "r") + Adds(b, "R", "r") + Adds(c, "R", "r") + Adds(d, "R", "r"),
              w + Adds(a, "W", "w") + Adds(b, "W", "w") + Adds(c, "W", "w") + Adds(d, "W", "w"))
<1>0. \A m, x, y : Adds(m, x, y) \in Int
  BY DEF Adds
<1>1. Held(s, p + 1, r + Adds(a, "R", "r"), w + Adds(a, "W", "w"))
  BY HeldAfterStep DEF Shifted
<1> DEFINE r1 == r + Adds(a, "R", "r")
           w1 == w + Adds(a, "W", "w")
           r2 == r1 + Adds(b, "R", "r")
           w2 == w1 + Adds(b, "W", "w")
           r3 == r2 + Adds(c, "R", "r")
           w3 == w2 + Adds(c, "W", "w")
<1>2. r1 \in Int /\ w1 \in Int /\ r2 \in Int /\ w2 \in Int /\ r3 \in Int /\ w3 \in Int
  BY <1>0
<1>3. p + 1 \in Nat /\ p + 2 \in Nat /\ p + 3 \in Nat
      /\ p + 1 + 1 = p + 2 /\ p + 2 + 1 = p + 3 /\ p + 3 + 1 = p + 4
  OBVIOUS
<1>4. s[p + 1 + 1] = b /\ s[p + 2 + 1] = c /\ s[p + 3 + 1] = d
  BY <1>3 DEF Shifted
<1> HIDE DEF r1, w1, r2, w2, r3, w3
<1>5. Held(s, p + 1 + 1, r2, w2)
  BY <1>1, <1>2, <1>3, <1>4, HeldAfterStep DEF r1, w1, r2, w2
<1>6. Held(s, p + 2 + 1, r3, w3)
  BY <1>2, <1>3, <1>4, <1>5, HeldAfterStep DEF r3, w3
<1>7. Held(s, p + 3 + 1, r3 + Adds(d, "R", "r"), w3 + Adds(d, "W", "w"))
  BY <1>2, <1>3, <1>4, <1>6, HeldAfterStep
<1> QED BY <1>3, <1>7 DEF r1, w1, r2, w2, r3, w3

\* At p the steps s are over or ask for the lock.
AtLock(s, p) == p \in 0..Len(s) /\ (p < Len(s) => s[p + 1] \in {"R", "W"})

\* What is held there: no write guard, and a read guard only before a second one.
Free(s, p) == \E r \in Int : Held(s, p, r, 0) /\ (r = 0 \/ (p < Len(s) /\ s[p + 1] = "R"))

LEMMA GuardsDropped ==
  ASSUME NEW k \in LockHandlers, NEW p, AtLock(Steps(k), p)
  PROVE  Free(Steps(k), p)
<1> DEFINE s == Steps(k)
<1>0. Held(s, 0, 0, 0)
  BY HeldAtFirst
<1>s. ASSUME NEW q \in Nat, Held(s, q, 0, 0), Shifted(s, q, "R", "C", "c", "r")
      PROVE  Held(s, q + 4, 0, 0)
  <2>1. Held(s, q + 4,
             0 + Adds("R", "R", "r") + Adds("C", "R", "r") + Adds("c", "R", "r") + Adds("r", "R", "r"),
             0 + Adds("R", "W", "w") + Adds("C", "W", "w") + Adds("c", "W", "w") + Adds("r", "W", "w"))
    BY <1>s, HeldAfterFour
  <2> QED BY <2>1 DEF Adds
<1>1. CASE k = "read"
  <2>1. Len(s) = 4 /\ Shifted(s, 0, "R", "C", "c", "r")
    BY <1>1, ReadSteps DEF Four, Shifted
  <2>2. p \in {0, 4}
    BY <2>1 DEF AtLock, Shifted
  <2>3. Held(s, 4, 0, 0)
    BY <1>0, <1>s, <2>1
  <2> QED BY <1>0, <2>2, <2>3 DEF Free
<1>2. CASE k = "revoke"
  <2>1. /\ Len(s) = 14 /\ Shifted(s, 0, "R", "C", "c", "r") /\ Shifted(s, 4, "R", "C", "c", "r")
        /\ s[9] = "W" /\ s[10] = "w" /\ Shifted(s, 10, "R", "L", "c", "r")
    BY <1>2, RevokeMarks
  <2>2. p \in {0, 4, 8, 10, 14}
    BY <2>1 DEF AtLock, Shifted
  <2>3. Held(s, 4, 0, 0) /\ Held(s, 8, 0, 0)
    <3>1. Held(s, 4, 0, 0)
      BY <1>0, <1>s, <2>1
    <3> QED BY <3>1, <1>s, <2>1
  <2>4. Held(s, 10, 0, 0)
    <3>1. Held(s, 8 + 1, 0 + Adds("W", "R", "r"), 0 + Adds("W", "W", "w"))
      <4>1. s[8 + 1] = "W"
        BY <2>1
      <4> QED BY <2>3, <4>1, HeldAfterStep
    <3>2. Held(s, 9, 0, 1)
      BY <3>1 DEF Adds
    <3>3. Held(s, 9 + 1, 0 + Adds("w", "R", "r"), 1 + Adds("w", "W", "w"))
      <4>1. s[9 + 1] = "w"
        BY <2>1
      <4> QED BY <3>2, <4>1, HeldAfterStep
    <3> QED BY <3>3 DEF Adds
  <2>5. Held(s, 14, 0, 0)
    <3>1. ASSUME NEW q \in Nat, Held(s, q, 0, 0), Shifted(s, q, "R", "L", "c", "r")
          PROVE  Held(s, q + 4, 0, 0)
      <4>1. Held(s, q + 4,
               0 + Adds("R", "R", "r") + Adds("L", "R", "r") + Adds("c", "R", "r") + Adds("r", "R", "r"),
               0 + Adds("R", "W", "w") + Adds("L", "W", "w") + Adds("c", "W", "w") + Adds("r", "W", "w"))
        BY <3>1, HeldAfterFour
      <4> QED BY <4>1 DEF Adds
    <3> QED BY <2>1, <2>4, <3>1
  <2> QED BY <1>0, <2>2, <2>3, <2>4, <2>5 DEF Free
<1>3. CASE k = "register"
  <2>1. Len(s) = 8 /\ Shifted(s, 0, "R", "C", "c", "r") /\ Shifted(s, 4, "W", "L", "c", "w")
    BY <1>3, RegisterMarks
  <2>2. p \in {0, 4, 8}
    BY <2>1 DEF AtLock, Shifted
  <2>3. Held(s, 4, 0, 0)
    BY <1>0, <1>s, <2>1
  <2>4. Held(s, 8, 0, 0)
    <3>1. ASSUME NEW q \in Nat, Held(s, q, 0, 0), Shifted(s, q, "W", "L", "c", "w")
          PROVE  Held(s, q + 4, 0, 0)
      <4>1. Held(s, q + 4,
               0 + Adds("W", "R", "r") + Adds("L", "R", "r") + Adds("c", "R", "r") + Adds("w", "R", "r"),
               0 + Adds("W", "W", "w") + Adds("L", "W", "w") + Adds("c", "W", "w") + Adds("w", "W", "w"))
        BY <3>1, HeldAfterFour
      <4> QED BY <4>1 DEF Adds
    <3> QED BY <2>1, <2>3, <3>1
  <2> QED BY <1>0, <2>2, <2>3, <2>4 DEF Free
<1>4. CASE k = "subscribe"
  <2>1. Len(s) = 8 /\ Shifted(s, 0, "R", "C", "R", "L") /\ Shifted(s, 4, "c", "r", "c", "r")
    BY <1>4, SubscribeMarks
  <2>2. p \in {0, 2, 8}
    BY <2>1 DEF AtLock, Shifted
  <2>3. Held(s, 2, 1, 0) /\ s[3] = "R"
    <3>1. Held(s, 0 + 1, 0 + Adds("R", "R", "r"), 0 + Adds("R", "W", "w"))
      <4>1. s[0 + 1] = "R"
        BY <2>1 DEF Shifted
      <4> QED BY <1>0, <4>1, HeldAfterStep
    <3>2. Held(s, 1, 1, 0)
      BY <3>1 DEF Adds
    <3>3. Held(s, 1 + 1, 1 + Adds("C", "R", "r"), 0 + Adds("C", "W", "w"))
      <4>1. s[1 + 1] = "C"
        BY <2>1 DEF Shifted
      <4> QED BY <3>2, <4>1, HeldAfterStep
    <3> QED BY <2>1, <3>3 DEF Adds, Shifted
  <2>4. Held(s, 4, 2, 0)
    <3>1. ASSUME NEW q \in Nat, Held(s, q, 0, 0), Shifted(s, q, "R", "C", "R", "L")
          PROVE  Held(s, q + 4,
               0 + Adds("R", "R", "r") + Adds("C", "R", "r") + Adds("R", "R", "r") + Adds("L", "R", "r"),
               0 + Adds("R", "W", "w") + Adds("C", "W", "w") + Adds("R", "W", "w") + Adds("L", "W", "w"))
      BY <3>1, HeldAfterFour
    <3>2. ASSUME NEW q \in Nat, Held(s, q, 0, 0), Shifted(s, q, "R", "C", "R", "L")
          PROVE  Held(s, q + 4, 2, 0)
      BY <3>1, <3>2 DEF Adds
    <3> QED BY <1>0, <2>1, <3>2
  <2>5. Held(s, 8, 0, 0)
    <3>1. ASSUME NEW q \in Nat, Held(s, q, 2, 0), Shifted(s, q, "c", "r", "c", "r")
          PROVE  Held(s, q + 4, 0, 0)
      <4>1. Held(s, q + 4,
               2 + Adds("c", "R", "r") + Adds("r", "R", "r") + Adds("c", "R", "r") + Adds("r", "R", "r"),
               0 + Adds("c", "W", "w") + Adds("r", "W", "w") + Adds("c", "W", "w") + Adds("r", "W", "w"))
        BY <3>1, HeldAfterFour
      <4> QED BY <4>1 DEF Adds
    <3> QED BY <2>1, <2>4, <3>1
  <2> HIDE DEF s
  <2> QED BY <1>0, <2>1, <2>2, <2>3, <2>5 DEF Free, s
<1> QED BY <1>1, <1>2, <1>3, <1>4 DEF LockHandlers

----------------------------------------------------------------------------
\* A request is somewhere in its handler, and a request announced as a waiting
\* writer is still asking for the write lock.
LockInv ==
  /\ kind \in [Requesters -> LockHandlers]
  /\ pc \in [Requesters -> Nat]
  /\ dead \subseteq Requesters
  /\ \A h \in Requesters : pc[h] <= Len(Steps(kind[h]))
  /\ waiting \subseteq {h \in Running : Todo(h) = "W"}

LEMMA HandlerSteps ==
  ASSUME NEW k \in LockHandlers
  PROVE  /\ Len(Steps(k)) \in Nat
         /\ \A i \in 1..Len(Steps(k)) : Steps(k)[i] = "L" => i < Len(Steps(k))
<1>1. CASE k = "read"
  BY <1>1, ReadSteps DEF Four
<1>2. CASE k = "revoke"
  <2>1. Len(Steps(k)) = 14 /\ Steps(k)[10 + 4] = "r"
    BY <1>2, RevokeMarks DEF Shifted
  <2> QED BY <2>1
<1>3. CASE k = "register"
  <2>1. Len(Steps(k)) = 8 /\ Steps(k)[4 + 4] = "w"
    BY <1>3, RegisterMarks DEF Shifted
  <2> QED BY <2>1
<1>4. CASE k = "subscribe"
  <2>1. Len(Steps(k)) = 8 /\ Steps(k)[4 + 4] = "r"
    BY <1>4, SubscribeMarks DEF Shifted
  <2> QED BY <2>1
<1> QED BY <1>1, <1>2, <1>3, <1>4 DEF LockHandlers

LEMMA InitLockInv == LockInit => LockInv
<1> SUFFICES ASSUME LockInit PROVE LockInv
  OBVIOUS
<1>1. kind \in [Requesters -> LockHandlers] /\ pc = [h \in Requesters |-> 0]
  BY DEF LockInit, LockHandlers
<1>2. \A h \in Requesters : Len(Steps(kind[h])) \in Nat
  BY <1>1, HandlerSteps
<1> QED BY <1>1, <1>2 DEF LockInit, LockInv

LEMMA NextLockInv == LockInv /\ [LockNext]_lockVars => LockInv'
<1> SUFFICES ASSUME LockInv, [LockNext]_lockVars PROVE LockInv'
  OBVIOUS
<1>t. /\ kind \in [Requesters -> LockHandlers] /\ pc \in [Requesters -> Nat]
      /\ \A h \in Requesters : /\ Len(Steps(kind[h])) \in Nat /\ pc[h] <= Len(Steps(kind[h]))
                               /\ \A i \in 1..Len(Steps(kind[h])) :
                                    Steps(kind[h])[i] = "L" => i < Len(Steps(kind[h]))
  BY HandlerSteps DEF LockInv
<1>w. \A g \in waiting : /\ g \in Requesters /\ g \notin dead /\ pc[g] < Len(Steps(kind[g]))
                         /\ Steps(kind[g])[pc[g] + 1] = "W"
  BY DEF LockInv, Running, Todo
<1>1. ASSUME NEW h \in Requesters, Take(h) PROVE LockInv'
  <2>1. pc[h] < Len(Steps(kind[h])) /\ pc' = [pc EXCEPT ![h] = @ + 1] /\ waiting' = waiting \ {h}
        /\ UNCHANGED <<kind, dead>>
    BY <1>1 DEF Take, Running
  <2> QED BY <1>t, <1>w, <2>1 DEF LockInv, Running, Todo
<1>2. ASSUME NEW h \in Requesters, AwaitWrite(h) PROVE LockInv'
  <2>1. h \in Running /\ Todo(h) = "W" /\ waiting' = waiting \cup {h} /\ UNCHANGED <<kind, pc, dead>>
    BY <1>2 DEF AwaitWrite
  <2> QED BY <1>t, <1>w, <2>1 DEF LockInv, Running, Todo
<1>3. ASSUME NEW h \in Requesters, PoolTimeout(h) PROVE LockInv'
  <2>1. /\ h \notin dead /\ pc[h] < Len(Steps(kind[h])) /\ Todo(h) \in {"C", "L"}
        /\ UNCHANGED <<kind, waiting>>
    BY <1>3 DEF PoolTimeout, Running
  <2>2. h \notin waiting
    BY <1>w, <2>1 DEF Todo
  <2>3. CASE Todo(h) = "L"
    <3>1. pc' = [pc EXCEPT ![h] = @ + 2] /\ UNCHANGED dead
      BY <1>3, <2>3 DEF PoolTimeout
    <3>2. pc[h] + 2 <= Len(Steps(kind[h]))
      <4>1. pc[h] + 1 \in 1..Len(Steps(kind[h])) /\ Steps(kind[h])[pc[h] + 1] = "L"
        BY <1>t, <2>1, <2>3 DEF Todo
      <4>2. pc[h] + 1 < Len(Steps(kind[h])) /\ pc[h] \in Nat /\ Len(Steps(kind[h])) \in Nat
        BY <1>t, <4>1
      <4> QED BY <4>2
    <3> QED BY <1>t, <1>w, <2>1, <2>2, <3>1, <3>2 DEF LockInv, Running, Todo
  <2>4. CASE Todo(h) # "L"
    <3>1. dead' = dead \cup {h} /\ UNCHANGED pc
      BY <1>3, <2>4 DEF PoolTimeout
    <3> QED BY <1>t, <1>w, <2>1, <2>2, <3>1 DEF LockInv, Running, Todo
  <2> QED BY <2>3, <2>4
<1>4. CASE UNCHANGED lockVars
  BY <1>4, <1>t, <1>w DEF lockVars, LockInv, Running, Todo
<1> QED BY <1>1, <1>2, <1>3, <1>4 DEF LockNext

\* What a request holds when it asks for the lock, has finished or has died.
LEMMA HeldAtLock ==
  ASSUME LockInv, NEW h \in Requesters, h \in Running => Todo(h) \in {"R", "W"}
  PROVE  /\ h \notin Writing
         /\ h \in Reading => h \in Running /\ Todo(h) = "R"
<1>1. CASE h \in dead
  BY <1>1 DEF Writing, Reading, Writes, Reads, Holds
<1>2. CASE h \notin dead
  <2> DEFINE s == Steps(kind[h])
  <2>1. kind[h] \in LockHandlers /\ pc[h] \in Nat /\ pc[h] <= Len(s) /\ Len(s) \in Nat
    BY HandlerSteps DEF LockInv
  <2>2. AtLock(s, pc[h])
    BY <1>2, <2>1 DEF AtLock, Running, Todo
  <2>3. Free(s, pc[h])
    BY <2>1, <2>2, GuardsDropped
  <2>4. Writes(h) = Times(s, pc[h], "W") - Times(s, pc[h], "w")
        /\ Reads(h) = Times(s, pc[h], "R") - Times(s, pc[h], "r")
    BY <1>2 DEF Writes, Reads, Holds, Count, Times
  <2>5. \A x : Times(s, pc[h], x) \in Nat
    BY <2>1, TimesCounts
  <2> HIDE DEF s
  <2>6. h \notin Writing
    BY <2>3, <2>4, <2>5 DEF Free, Held, Writing
  <2>7. ASSUME h \in Reading PROVE pc[h] < Len(s) /\ s[pc[h] + 1] = "R"
    BY <2>3, <2>4, <2>5, <2>7 DEF Free, Held, Reading
  <2> QED BY <1>2, <2>6, <2>7 DEF Running, Todo, s
<1> QED BY <1>1, <1>2

\* With any number of requests and connections, requests wait on each other for
\* ever only when a ring handler asks for its second read guard while a writer
\* waits for the first (RwLock<ServerState>, subscribe_handler, revoke_handler).
THEOREM OnlyNestedReadsBlock == LockSpec => []StuckOnlyByNestedRead
<1>1. LockInv => StuckOnlyByNestedRead
  <2> SUFFICES ASSUME LockInv, Running # {}, \A h \in Running : ~CanMove(h)
               PROVE  Renewing # {} /\ waiting # {}
    BY DEF StuckOnlyByNestedRead
  <2>1. \A h \in Running : /\ ~Granted(h) /\ Todo(h) \notin {"C", "L"}
                           /\ Todo(h) = "W" => h \in waiting
    BY DEF CanMove
  <2>2. \A h \in Running : Todo(h) \in {"R", "W"}
    BY <2>1 DEF Granted
  <2>3. \A h \in Requesters : /\ h \notin Writing
                              /\ h \in Reading => h \in Running /\ Todo(h) = "R"
    BY <2>2, HeldAtLock
  <2>4. Writing = {}
    BY <2>3 DEF Writing
  <2>5. waiting # {}
    <3> PICK h \in Running : TRUE
      OBVIOUS
    <3> QED BY <2>1, <2>2, <2>4 DEF Granted
  <2>6. PICK w \in waiting : w \in Running /\ Todo(w) = "W"
    BY <2>5 DEF LockInv
  <2>7. PICK g \in Requesters : g \in Reading
    BY <2>1, <2>4, <2>6 DEF Granted, Reading
  <2>8. g \in Renewing
    BY <2>3, <2>7 DEF Renewing, Reading
  <2> QED BY <2>5, <2>8
<1> QED BY <1>1, InitLockInv, NextLockInv, PTL DEF LockSpec

----------------------------------------------------------------------------
(* The policy store.                                                       *)

WriteJob == [op: {"cache", "uncache"}, t: Tenants, p: Policies]
BindJob == [op: {"bind"}, a: PolAgents, p: Policies]
GateJob == [op: {"load", "judge"}, t: Tenants, a: PolAgents, p: Policies, past: Nat]
LedgerRows == [tenant: Tenants \cup {NoOne}, total: Nat]

StoreTypeOK ==
  /\ polTable \in [Policies -> Tenants \cup {NoOne}]
  /\ polCache \subseteq Tenants \X Policies
  /\ byAgent \in [Tenants -> Policies \cup {NoOne}]
  /\ bound \in [PolAgents -> Policies \cup {NoOne}]
  /\ ledger \in [Policies \X PolAgents -> LedgerRows]
  /\ spent \in [Keys -> Nat]
  /\ polJobs \in [Handlers -> WriteJob \cup BindJob \cup GateJob \cup {NoJob}]

\* A request of no kind says so, and the kinds differ.
LEMMA JobKinds ==
  ASSUME StoreTypeOK, NEW h \in Handlers
  PROVE  /\ polJobs[h].op \in {"cache", "uncache"} => polJobs[h] \in WriteJob
         /\ polJobs[h].op = "bind" => polJobs[h] \in BindJob
         /\ polJobs[h].op \in {"load", "judge"} => polJobs[h] \in GateJob
         /\ polJobs[h].op \in {"none", "cache", "uncache", "bind", "load", "judge"}
         /\ NoJob.op = "none"
  BY DEF StoreTypeOK, WriteJob, BindJob, GateJob, NoJob

LEMMA InitStoreType == StoreInit => StoreTypeOK
  BY StoreAssumption DEF StoreInit, StoreTypeOK, LedgerRows, NoRow

\* Every step keeps the types.
LEMMA NextStoreType == StoreTypeOK /\ [StoreNext]_storeVars => StoreTypeOK'
<1> SUFFICES ASSUME StoreTypeOK, [StoreNext]_storeVars PROVE StoreTypeOK'
  OBVIOUS
<1> USE DEF StoreTypeOK
<1>j. ASSUME NEW h \in Handlers, NEW j \in WriteJob \cup BindJob \cup GateJob \cup {NoJob},
             polJobs' = [polJobs EXCEPT ![h] = j]
      PROVE  polJobs' \in [Handlers -> WriteJob \cup BindJob \cup GateJob \cup {NoJob}]
  BY <1>j
<1>1. ASSUME NEW h \in Handlers, NEW tp \in Uploads, UploadRow(h, tp[1], tp[2]) PROVE StoreTypeOK'
  <2>1. /\ tp[1] \in Tenants /\ tp[2] \in Policies
        /\ [op |-> "cache", t |-> tp[1], p |-> tp[2]] \in WriteJob
    BY StoreAssumption DEF WriteJob
  <2> QED BY <1>1, <1>j, <2>1 DEF UploadRow, Begin
<1>2. ASSUME NEW h \in Handlers, NEW tp \in Uploads, DeleteRow(h, tp[1], tp[2]) PROVE StoreTypeOK'
  <2>1. /\ tp[1] \in Tenants /\ tp[2] \in Policies
        /\ [op |-> "uncache", t |-> tp[1], p |-> tp[2]] \in WriteJob
    BY StoreAssumption DEF WriteJob
  <2> QED BY <1>2, <1>j, <2>1 DEF DeleteRow, Begin
<1>3. ASSUME NEW h \in Handlers, UploadCache(h) PROVE StoreTypeOK'
  <2>1. polJobs[h].t \in Tenants /\ polJobs[h].p \in Policies
    BY <1>3, JobKinds DEF UploadCache, Doing, WriteJob
  <2> QED BY <1>3, <1>j, <2>1 DEF UploadCache, End
<1>4. ASSUME NEW h \in Handlers, DeleteCache(h) PROVE StoreTypeOK'
  <2>1. polJobs[h].t \in Tenants /\ polJobs[h].p \in Policies
    BY <1>4, JobKinds DEF DeleteCache, Doing, WriteJob
  <2>2. polCache' \subseteq polCache
    BY <1>4 DEF DeleteCache
  <2> QED BY <1>4, <1>j, <2>1, <2>2 DEF DeleteCache, End
<1>5. ASSUME NEW h \in Handlers, BindPolicy(h) PROVE StoreTypeOK'
  <2>1. polJobs[h].a \in PolAgents /\ polJobs[h].p \in Policies
    BY <1>5, JobKinds DEF BindPolicy, Doing, BindJob
  <2> QED BY <1>5, <1>j, <2>1 DEF BindPolicy, End
<1>6. ASSUME NEW h \in Handlers, LoadPolicy(h) PROVE StoreTypeOK'
  <2>1. polJobs[h] \in GateJob
    BY <1>6, JobKinds DEF LoadPolicy, Doing
  <2>2. [polJobs[h] EXCEPT !.op = "judge"] \in GateJob
    BY <2>1 DEF GateJob
  <2> QED BY <1>6, <1>j, <2>2 DEF LoadPolicy, End
<1>7. ASSUME NEW h \in Handlers, NEW a \in PolAgents, LookupBinding(h, a) PROVE StoreTypeOK'
  <2>1. bound[a] \in Policies /\ Home[a] \in Tenants
    BY <1>7, StoreAssumption DEF LookupBinding
  <2>2. <<Home[a], bound[a], a>> \in Keys
    BY <2>1 DEF Keys
  <2>3. [op |-> "load", t |-> Home[a], a |-> a, p |-> bound[a],
         past |-> spent[<<Home[a], bound[a], a>>]] \in GateJob
    BY <2>1, <2>2 DEF GateJob
  <2> QED BY <1>7, <1>j, <2>3 DEF LookupBinding, Begin
<1>8. ASSUME NEW h \in Handlers, NEW a \in PolAgents, NEW p \in Policies, CheckBinding(h, a, p)
      PROVE  StoreTypeOK'
  <2>1. [op |-> "bind", a |-> a, p |-> p] \in BindJob
    BY DEF BindJob
  <2> QED BY <1>8, <1>j, <2>1 DEF CheckBinding, Begin
<1>9. ASSUME NEW h \in Handlers, NEW x \in Amounts, Judge(h, x) PROVE StoreTypeOK'
  BY <1>9, <1>j DEF Judge, End
<1>14. ASSUME NEW h \in Handlers, JudgeFails(h) PROVE StoreTypeOK'
  BY <1>14, <1>j DEF JudgeFails, End
<1>10. ASSUME NEW a \in PolAgents, UnbindPolicy(a) PROVE StoreTypeOK'
  BY <1>10 DEF UnbindPolicy
<1>11. ASSUME NEW k \in Spenders, NEW x \in Amounts, RecordSpend(k[1], k[2], k[3], x)
       PROVE  StoreTypeOK'
  <2>1. k[1] \in Tenants /\ k[2] \in Policies /\ k[3] \in PolAgents /\ x \in Nat
    BY StoreAssumption
  <2>2. <<k[1], k[2], k[3]>> \in Keys /\ <<k[2], k[3]>> \in Policies \X PolAgents
    BY <2>1 DEF Keys
  <2>3. LedgerRow(k[1], ledger[<<k[2], k[3]>>], x) \in LedgerRows
    <3>1. ledger[<<k[2], k[3]>>] \in LedgerRows
      BY <2>2
    <3> QED BY <2>1, <3>1 DEF LedgerRow, LedgerRows
  <2>4. ledger' \in [Policies \X PolAgents -> LedgerRows]
    BY <1>11, <2>2, <2>3 DEF RecordSpend
  <2>5. spent' \in [Keys -> Nat]
    BY <1>11, <2>1, <2>2 DEF RecordSpend
  <2> QED BY <1>11, <2>4, <2>5 DEF RecordSpend
<1>12. CASE Hydrate
  <2>1. polCache' \subseteq Tenants \X Policies
    <3>1. \A p \in Stored : p \in Policies /\ polTable[p] \in Tenants
      BY DEF Stored
    <3> QED BY <1>12, <3>1 DEF Hydrate
  <2> QED BY <1>12, <2>1 DEF Hydrate
<1>13. CASE UNCHANGED storeVars
  BY <1>13 DEF storeVars
<1> QED BY <1>1, <1>2, <1>3, <1>4, <1>5, <1>6, <1>7, <1>8, <1>9, <1>10, <1>11, <1>12, <1>13, <1>14
        DEF StoreNext

----------------------------------------------------------------------------
(* What is served.                                                         *)

InFlight(h, p) == polJobs[h].op \in {"cache", "uncache"} /\ polJobs[h].p = p

\* Tenant t is served p if it is t's, and only then; a start may have left it out.
Kept(t, p) ==
  /\ <<t, p>> \in polCache => polTable[p] = t
  /\ p \notin unloaded /\ polTable[p] = t => <<t, p>> \in polCache

\* What is cached of p is what the table holds, but for a request, or copies of
\* it, that has written the table and not yet the cache.
Tracks(p) ==
  /\ \A h, g \in Handlers : InFlight(h, p) /\ InFlight(g, p) => polJobs[h] = polJobs[g]
  /\ ~Overlaps(p) => \A t \in Tenants : Kept(t, p)
  /\ \A h \in Handlers :
       polJobs[h].op = "cache" /\ polJobs[h].p = p =>
         /\ polTable[p] = polJobs[h].t
         /\ \A t \in Tenants : <<t, p>> \in polCache => t = polJobs[h].t
  /\ \A h \in Handlers :
       polJobs[h].op = "uncache" /\ polJobs[h].p = p =>
         /\ polTable[p] # polJobs[h].t
         /\ \A t \in Tenants \ {polJobs[h].t} : Kept(t, p)

IndexCached == \A t \in Tenants : byAgent[t] # NoOne => <<t, byAgent[t]>> \in polCache

CacheInv == (\A p \in Policies \ contended : Tracks(p)) /\ IndexCached

\* Steps that leave the cache, the table and the requests that write them alone.
LEMMA TracksKept ==
  ASSUME StoreTypeOK, StoreTypeOK', CacheInv,
         UNCHANGED <<polTable, polCache, byAgent, contended, unloaded>>,
         NEW h \in Handlers,
         ~\E p \in Policies : InFlight(h, p), ~\E p \in Policies : InFlight(h, p)',
         \A g \in Handlers \ {h} : polJobs'[g] = polJobs[g]
  PROVE  CacheInv'
<1>1. \A p \in Policies : InFlight(h, p) <=> FALSE
  OBVIOUS
<1>2. \A p \in Policies : \A g \in Handlers :
        /\ polJobs'[g].op = "cache" /\ polJobs'[g].p = p => g # h
        /\ polJobs'[g].op = "uncache" /\ polJobs'[g].p = p => g # h
  BY DEF InFlight
<1>3. \A p \in Policies : Overlaps(p)' <=> Overlaps(p)
  BY DEF Overlaps, InFlight
<1>4. ASSUME NEW p \in Policies \ contended PROVE Tracks(p)'
  <2>1. Tracks(p)
    BY DEF CacheInv
  <2>2. \A f, g \in Handlers : InFlight(f, p)' /\ InFlight(g, p)' => polJobs'[f] = polJobs'[g]
    BY <2>1 DEF Tracks, InFlight
  <2>5. \A t \in Tenants : Kept(t, p)' <=> Kept(t, p)
    BY DEF Kept
  <2>3. \A g \in Handlers :
          polJobs'[g].op = "cache" /\ polJobs'[g].p = p =>
            /\ polTable[p] = polJobs'[g].t
            /\ \A t \in Tenants : <<t, p>> \in polCache => t = polJobs'[g].t
    BY <1>2, <2>1 DEF Tracks
  <2>4. \A g \in Handlers :
          polJobs'[g].op = "uncache" /\ polJobs'[g].p = p =>
            /\ polTable[p] # polJobs'[g].t
            /\ \A t \in Tenants \ {polJobs'[g].t} : Kept(t, p)
    BY <1>2, <2>1 DEF Tracks
  <2> QED BY <1>3, <2>1, <2>2, <2>3, <2>4, <2>5 DEF Tracks
<1>5. IndexCached'
  BY DEF CacheInv, IndexCached
<1> QED BY <1>4, <1>5 DEF CacheInv

LEMMA InitCacheInv == StoreInit => CacheInv
  BY StoreAssumption DEF StoreInit, CacheInv, Tracks, Kept, Overlaps, InFlight, IndexCached, NoJob

\* Every step keeps it; a request that could disturb it makes p contended.
LEMMA NextCacheInv == StoreTypeOK /\ StoreTypeOK' /\ CacheInv /\ [StoreNext]_storeVars => CacheInv'
<1> SUFFICES ASSUME StoreTypeOK, StoreTypeOK', CacheInv, [StoreNext]_storeVars PROVE CacheInv'
  OBVIOUS
<1>t. polJobs \in [Handlers -> WriteJob \cup BindJob \cup GateJob \cup {NoJob}]
  BY DEF StoreTypeOK
<1>n. NoJob.op = "none"
  BY DEF NoJob
<1>k. ASSUME NEW h \in Handlers, NEW j, polJobs' = [polJobs EXCEPT ![h] = j],
             polJobs[h].op \notin {"cache", "uncache"}, j.op \notin {"cache", "uncache"},
             UNCHANGED <<polTable, polCache, byAgent, contended, unloaded>>
      PROVE  CacheInv'
  <2>1. polJobs'[h] = j /\ \A g \in Handlers \ {h} : polJobs'[g] = polJobs[g]
    BY <1>k, <1>t
  <2> QED BY <1>k, <2>1, TracksKept DEF InFlight
<1>1. ASSUME NEW h \in Handlers, NEW tp \in Uploads, UploadRow(h, tp[1], tp[2]) PROVE CacheInv'
  <2> DEFINE w == tp[1]
             q == tp[2]
             j == [op |-> "cache", t |-> w, p |-> q]
  <2>0. w \in Tenants /\ q \in Policies
    BY StoreAssumption
  <2>f. j.op = "cache" /\ j.t = w /\ j.p = q
    OBVIOUS
  <2>1. /\ polJobs[h] = NoJob /\ polJobs'[h] = j
        /\ \A g \in Handlers \ {h} : polJobs'[g] = polJobs[g]
        /\ polTable' = [polTable EXCEPT ![q] = w]
        /\ contended' = IF Rivals(j) \/ polTable[q] \notin {w, NoOne} THEN contended \cup {q} ELSE contended
        /\ polCache' = polCache /\ byAgent' = byAgent /\ unloaded' = unloaded
    BY <1>1, <1>t DEF UploadRow, Begin
  <2> HIDE DEF j, w, q
  <2>2. ASSUME NEW p \in Policies \ contended' PROVE Tracks(p)'
    <3>1. Tracks(p)
      BY <2>1, <2>2 DEF CacheInv
    <3>2. CASE p # q
      <4>1. polTable'[p] = polTable[p]
        BY <2>0, <2>1, <3>2 DEF StoreTypeOK
      <4>2. \A g \in Handlers : polJobs'[g].p = p /\ polJobs'[g].op \in {"cache", "uncache"} => g # h
        BY <2>1, <2>f, <3>2
      <4>3. Overlaps(p)' <=> Overlaps(p)
        BY <1>n, <2>1, <4>2 DEF Overlaps
      <4>4. \A f, g \in Handlers : InFlight(f, p)' /\ InFlight(g, p)' => polJobs'[f] = polJobs'[g]
        BY <2>1, <3>1, <4>2 DEF Tracks, InFlight
      <4>7. \A t \in Tenants : Kept(t, p)' <=> Kept(t, p)
        BY <2>1, <4>1 DEF Kept
      <4>5. \A g \in Handlers :
              polJobs'[g].op = "cache" /\ polJobs'[g].p = p =>
                /\ polTable'[p] = polJobs'[g].t
                /\ \A t \in Tenants : <<t, p>> \in polCache' => t = polJobs'[g].t
        BY <2>1, <3>1, <4>1, <4>2 DEF Tracks
      <4>6. \A g \in Handlers :
              polJobs'[g].op = "uncache" /\ polJobs'[g].p = p =>
                /\ polTable'[p] # polJobs'[g].t
                /\ \A t \in Tenants \ {polJobs'[g].t} : Kept(t, p)
        BY <2>1, <3>1, <4>1, <4>2 DEF Tracks
      <4> QED BY <2>1, <3>1, <4>1, <4>3, <4>4, <4>5, <4>6, <4>7 DEF Tracks
    <3>3. CASE p = q
      <4>1. ~Rivals(j) /\ polTable[q] \in {w, NoOne}
        BY <2>1, <2>2, <3>3
      <4>2. polTable'[q] = w
        BY <2>0, <2>1 DEF StoreTypeOK
      <4>0. \A g \in Handlers : InFlight(g, q) => polJobs[g] = j
        BY <2>f, <4>1 DEF Rivals, InFlight
      <4>3. \A g \in Handlers : InFlight(g, q)' => polJobs'[g] = j
        BY <2>1, <4>0 DEF InFlight
      <4>4. \A t \in Tenants : <<t, q>> \in polCache' => t = w
        <5>1. CASE Overlaps(q)
          <6>1. PICK g \in Handlers : polJobs[g] = j
            BY <4>0, <5>1 DEF Overlaps, InFlight
          <6> QED BY <2>1, <2>f, <3>1, <3>3, <6>1 DEF Tracks
        <5>2. CASE ~Overlaps(q)
          BY <2>1, <3>1, <3>3, <4>1, <5>2, StoreAssumption DEF Tracks, Kept
        <5> QED BY <5>1, <5>2
      <4>5. Overlaps(q)'
        BY <2>1, <2>f DEF Overlaps
      <4>6. \A g \in Handlers : polJobs'[g].op \in {"cache", "uncache"} /\ polJobs'[g].p = q =>
              polJobs'[g].op = "cache" /\ polJobs'[g].t = w
        BY <2>f, <4>3 DEF InFlight
      <4>7. \A f, g \in Handlers : InFlight(f, q)' /\ InFlight(g, q)' => polJobs'[f] = polJobs'[g]
        BY <4>3
      <4> QED BY <3>3, <4>2, <4>4, <4>5, <4>6, <4>7 DEF Tracks
    <3> QED BY <3>2, <3>3
  <2>3. IndexCached'
    BY <2>1 DEF CacheInv, IndexCached
  <2> QED BY <2>2, <2>3 DEF CacheInv
<1>2. ASSUME NEW h \in Handlers, NEW tp \in Uploads, DeleteRow(h, tp[1], tp[2]) PROVE CacheInv'
  <2> DEFINE w == tp[1]
             q == tp[2]
             j == [op |-> "uncache", t |-> w, p |-> q]
  <2>0. w \in Tenants /\ q \in Policies
    BY StoreAssumption
  <2>f. j.op = "uncache" /\ j.t = w /\ j.p = q
    OBVIOUS
  <2>1. /\ polJobs[h] = NoJob /\ polJobs'[h] = j
        /\ \A g \in Handlers \ {h} : polJobs'[g] = polJobs[g]
        /\ polTable' = [polTable EXCEPT ![q] = IF @ = w THEN NoOne ELSE @]
        /\ contended' = IF Rivals(j) THEN contended \cup {q} ELSE contended
        /\ polCache' = polCache /\ byAgent' = byAgent /\ unloaded' = unloaded
    BY <1>2, <1>t DEF DeleteRow, Begin
  <2> HIDE DEF j, w, q
  <2>2. ASSUME NEW p \in Policies \ contended' PROVE Tracks(p)'
    <3>1. Tracks(p)
      BY <2>1, <2>2 DEF CacheInv
    <3>2. CASE p # q
      <4>1. polTable'[p] = polTable[p]
        BY <2>0, <2>1, <3>2 DEF StoreTypeOK
      <4>2. \A g \in Handlers : polJobs'[g].p = p /\ polJobs'[g].op \in {"cache", "uncache"} => g # h
        BY <2>1, <2>f, <3>2
      <4>3. Overlaps(p)' <=> Overlaps(p)
        BY <1>n, <2>1, <4>2 DEF Overlaps
      <4>4. \A f, g \in Handlers : InFlight(f, p)' /\ InFlight(g, p)' => polJobs'[f] = polJobs'[g]
        BY <2>1, <3>1, <4>2 DEF Tracks, InFlight
      <4>7. \A t \in Tenants : Kept(t, p)' <=> Kept(t, p)
        BY <2>1, <4>1 DEF Kept
      <4>5. \A g \in Handlers :
              polJobs'[g].op = "cache" /\ polJobs'[g].p = p =>
                /\ polTable'[p] = polJobs'[g].t
                /\ \A t \in Tenants : <<t, p>> \in polCache' => t = polJobs'[g].t
        BY <2>1, <3>1, <4>1, <4>2 DEF Tracks
      <4>6. \A g \in Handlers :
              polJobs'[g].op = "uncache" /\ polJobs'[g].p = p =>
                /\ polTable'[p] # polJobs'[g].t
                /\ \A t \in Tenants \ {polJobs'[g].t} : Kept(t, p)
        BY <2>1, <3>1, <4>1, <4>2 DEF Tracks
      <4> QED BY <2>1, <3>1, <4>1, <4>3, <4>4, <4>5, <4>6, <4>7 DEF Tracks
    <3>3. CASE p = q
      <4>1. ~Rivals(j)
        BY <2>1, <2>2, <3>3
      <4>2. polTable'[q] = IF polTable[q] = w THEN NoOne ELSE polTable[q]
        BY <2>0, <2>1 DEF StoreTypeOK
      <4>0. \A g \in Handlers : InFlight(g, q) => polJobs[g] = j
        BY <2>f, <4>1 DEF Rivals, InFlight
      <4>3. \A g \in Handlers : InFlight(g, q)' => polJobs'[g] = j
        BY <2>1, <4>0 DEF InFlight
      <4>4. polTable'[q] # w
        BY <2>0, <4>2, StoreAssumption
      <4>8. \A t \in Tenants \ {w} : Kept(t, q)
        <5>1. CASE Overlaps(q)
          <6>1. PICK g \in Handlers : polJobs[g] = j
            BY <4>0, <5>1 DEF Overlaps, InFlight
          <6> QED BY <2>f, <3>1, <3>3, <6>1 DEF Tracks
        <5>2. CASE ~Overlaps(q)
          BY <3>1, <3>3, <5>2 DEF Tracks
        <5> QED BY <5>1, <5>2
      <4>9. \A t \in Tenants \ {w} : Kept(t, q)'
        <5>1. \A t \in Tenants \ {w} : polTable'[q] = t <=> polTable[q] = t
          BY <2>0, <4>2, StoreAssumption
        <5> QED BY <2>1, <4>8, <5>1 DEF Kept
      <4>5. Overlaps(q)'
        BY <2>1, <2>f DEF Overlaps
      <4>6. \A g \in Handlers : polJobs'[g].op \in {"cache", "uncache"} /\ polJobs'[g].p = q =>
              polJobs'[g].op = "uncache" /\ polJobs'[g].t = w
        BY <2>f, <4>3 DEF InFlight
      <4>7. \A f, g \in Handlers : InFlight(f, q)' /\ InFlight(g, q)' => polJobs'[f] = polJobs'[g]
        BY <4>3
      <4> QED BY <3>3, <4>4, <4>5, <4>6, <4>7, <4>9 DEF Tracks
    <3> QED BY <3>2, <3>3
  <2>3. IndexCached'
    BY <2>1 DEF CacheInv, IndexCached
  <2> QED BY <2>2, <2>3 DEF CacheInv
<1>3. ASSUME NEW h \in Handlers, UploadCache(h) \/ DeleteCache(h) PROVE CacheInv'
  <2> DEFINE w == polJobs[h].t
             q == polJobs[h].p
  <2>0. w \in Tenants /\ q \in Policies
    BY <1>3, JobKinds DEF UploadCache, DeleteCache, Doing, WriteJob
  <2>1. /\ polJobs[h].op \in {"cache", "uncache"} /\ polJobs'[h] = NoJob
        /\ \A g \in Handlers \ {h} : polJobs'[g] = polJobs[g]
        /\ polTable' = polTable /\ contended' = contended
    BY <1>3, <1>t DEF UploadCache, DeleteCache, Doing, End
  <2>2. \A t \in Tenants, p \in Policies : <<t, p>> # <<w, q>> => (<<t, p>> \in polCache' <=> <<t, p>> \in polCache)
    BY <1>3 DEF UploadCache, DeleteCache
  <2>3. /\ polJobs[h].op = "cache" => <<w, q>> \in polCache'
        /\ polJobs[h].op = "uncache" => <<w, q>> \notin polCache' /\ unloaded' = unloaded
        /\ \A p \in Policies \ {q} : p \in unloaded' <=> p \in unloaded
    BY <1>3 DEF UploadCache, DeleteCache, Doing
  <2> HIDE DEF w, q
  <2>4. ASSUME NEW p \in Policies \ contended' PROVE Tracks(p)'
    <3>1. Tracks(p)
      BY <2>1, <2>4 DEF CacheInv
    <3>g. \A g \in Handlers : polJobs'[g].op \in {"cache", "uncache"} => g # h
      BY <1>n, <2>1
    <3>4. \A f, g \in Handlers : InFlight(f, p)' /\ InFlight(g, p)' => polJobs'[f] = polJobs'[g]
      BY <2>1, <3>1, <3>g DEF Tracks, InFlight
    <3>2. CASE p # q
      <4>0. \A t \in Tenants : <<t, p>> \in polCache' <=> <<t, p>> \in polCache
        BY <2>2, <3>2
      <4>1. \A t \in Tenants : Kept(t, p)' <=> Kept(t, p)
        BY <2>1, <2>3, <3>2, <4>0 DEF Kept
      <4>3. Overlaps(p)' <=> Overlaps(p)
        BY <1>n, <2>1, <3>g, <3>2 DEF Overlaps, q
      <4>5. \A g \in Handlers :
              polJobs'[g].op = "cache" /\ polJobs'[g].p = p =>
                /\ polTable'[p] = polJobs'[g].t
                /\ \A t \in Tenants : <<t, p>> \in polCache' => t = polJobs'[g].t
        BY <2>1, <3>1, <3>g, <4>0 DEF Tracks
      <4>6. \A g \in Handlers :
              polJobs'[g].op = "uncache" /\ polJobs'[g].p = p =>
                /\ polTable'[p] # polJobs'[g].t
                /\ \A t \in Tenants \ {polJobs'[g].t} : Kept(t, p)
        BY <2>1, <3>1, <3>g DEF Tracks
      <4> QED BY <2>1, <3>1, <3>4, <4>0, <4>1, <4>3, <4>5, <4>6 DEF Tracks
    <3>3. CASE p = q
      <4>1. \A g \in Handlers : polJobs'[g].op \in {"cache", "uncache"} /\ polJobs'[g].p = p =>
              polJobs'[g].op = polJobs[h].op /\ polJobs'[g].t = w
        BY <2>1, <3>1, <3>3, <3>g DEF Tracks, InFlight, q, w
      <4>2. CASE polJobs[h].op = "cache"
        <5>1. polTable[p] = w /\ \A t \in Tenants : <<t, p>> \in polCache => t = w
          BY <3>1, <3>3, <4>2 DEF Tracks, q, w
        <5>2. \A t \in Tenants : <<t, p>> \in polCache' <=> t = w
          BY <2>0, <2>2, <2>3, <3>3, <4>2, <5>1
        <5>3. \A t \in Tenants : Kept(t, p)'
          BY <2>1, <5>1, <5>2 DEF Kept
        <5> QED BY <2>1, <3>4, <4>1, <4>2, <5>1, <5>2, <5>3 DEF Tracks
      <4>3. CASE polJobs[h].op = "uncache"
        <5>1. polTable[p] # w /\ \A t \in Tenants \ {w} : Kept(t, p)
          BY <3>1, <3>3, <4>3 DEF Tracks, q, w
        <5>2. \A t \in Tenants \ {w} : Kept(t, p)'
          BY <2>1, <2>2, <2>3, <3>3, <4>3, <5>1 DEF Kept
        <5>3. \A t \in Tenants : t = w => Kept(t, p)'
          BY <2>1, <2>3, <3>3, <4>3, <5>1 DEF Kept
        <5> QED BY <2>1, <3>4, <4>1, <4>3, <5>1, <5>2, <5>3 DEF Tracks
      <4> QED BY <2>1, <4>2, <4>3
    <3> QED BY <3>2, <3>3
  <2>5. IndexCached'
    <3>1. CASE UploadCache(h)
      <4>1. byAgent' = [byAgent EXCEPT ![w] = q]
        BY <3>1 DEF UploadCache, w, q
      <4>2. polCache \subseteq polCache' /\ <<w, q>> \in polCache'
        BY <3>1 DEF UploadCache, w, q
      <4> QED BY <2>0, <4>1, <4>2 DEF CacheInv, IndexCached, StoreTypeOK
    <3>2. CASE DeleteCache(h)
      <4>1. /\ polCache' = polCache \ {<<w, q>>}
            /\ byAgent' = IF <<w, q>> \in polCache THEN [byAgent EXCEPT ![w] = NoOne] ELSE byAgent
        BY <3>2 DEF DeleteCache, w, q
      <4> QED BY <2>0, <4>1 DEF CacheInv, IndexCached, StoreTypeOK
    <3> QED BY <1>3, <3>1, <3>2
  <2> QED BY <2>4, <2>5 DEF CacheInv
<1>5. ASSUME NEW h \in Handlers, BindPolicy(h) PROVE CacheInv'
  BY <1>5, <1>k, <1>n DEF BindPolicy, Doing, End
<1>6. ASSUME NEW h \in Handlers, LoadPolicy(h) PROVE CacheInv'
  <2>1. polJobs[h].op = "load" /\ polJobs[h] \in GateJob
    BY <1>6, JobKinds DEF LoadPolicy, Doing
  <2>2. [polJobs[h] EXCEPT !.op = "judge"].op = "judge"
    BY <2>1 DEF GateJob
  <2> QED BY <1>6, <1>k, <1>n, <2>1, <2>2 DEF LoadPolicy, End
<1>7. ASSUME NEW h \in Handlers, NEW a \in PolAgents, LookupBinding(h, a) PROVE CacheInv'
  BY <1>7, <1>k, <1>n DEF LookupBinding, Begin
<1>8. ASSUME NEW h \in Handlers, NEW a \in PolAgents, NEW p \in Policies, CheckBinding(h, a, p)
      PROVE  CacheInv'
  BY <1>8, <1>k, <1>n DEF CheckBinding, Begin
<1>9. ASSUME NEW h \in Handlers, NEW x \in Amounts, Judge(h, x) PROVE CacheInv'
  BY <1>9, <1>k, <1>n DEF Judge, Doing, End
<1>14. ASSUME NEW h \in Handlers, JudgeFails(h) PROVE CacheInv'
  BY <1>14, <1>k, <1>n DEF JudgeFails, Doing, End
<1>u. ASSUME UNCHANGED <<polTable, polCache, byAgent, polJobs, contended, unloaded>> PROVE CacheInv'
  BY <1>u DEF CacheInv, Tracks, Kept, Overlaps, InFlight, IndexCached
<1>10. ASSUME NEW a \in PolAgents, UnbindPolicy(a) PROVE CacheInv'
  BY <1>10, <1>u DEF UnbindPolicy
<1>11. ASSUME NEW k \in Spenders, NEW x \in Amounts, RecordSpend(k[1], k[2], k[3], x)
       PROVE  CacheInv'
  BY <1>11, <1>u DEF RecordSpend
<1>12. CASE Hydrate
  <2>1. /\ \A h \in Handlers : polJobs'[h].op = "none"
        /\ polTable' = polTable
    BY <1>12, <1>n DEF Hydrate
  <2>2. PICK loaded \in SUBSET Stored :
          /\ polCache' = {<<polTable[p], p>> : p \in loaded}
          /\ \A t \in Tenants : byAgent'[t] # NoOne => byAgent'[t] \in loaded /\ polTable[byAgent'[t]] = t
          /\ unloaded' = Stored \ loaded
    BY <1>12 DEF Hydrate
  <2>3. \A t \in Tenants, p \in Policies : <<t, p>> \in polCache' <=> p \in loaded /\ polTable[p] = t
    BY <2>2
  <2>4. IndexCached'
    BY <2>2, <2>3 DEF IndexCached, Stored
  <2>6. \A t \in Tenants, p \in Policies : Kept(t, p)'
    BY <2>1, <2>2, <2>3, StoreAssumption DEF Kept, Stored
  <2>5. ASSUME NEW p \in Policies PROVE Tracks(p)'
    BY <2>1, <2>6 DEF Tracks, Overlaps, InFlight
  <2> QED BY <2>4, <2>5 DEF CacheInv
<1>13. CASE UNCHANGED storeVars
  BY <1>13, <1>u DEF storeVars
<1> QED BY <1>1, <1>2, <1>3, <1>5, <1>6, <1>7, <1>8, <1>9, <1>10, <1>11, <1>12, <1>13, <1>14
        DEF StoreNext

\* What is served is what is stored, but for what a start left out, with no request
\* between its two writes, in every behaviour of the store (upsert_tenant,
\* delete_tenant, hydrate).
THEOREM ServedIsStored == StoreSpec => []CacheFollowsTable
<1>1. StoreTypeOK /\ CacheInv => CacheFollowsTable
  <2> SUFFICES ASSUME StoreTypeOK, CacheInv PROVE CacheFollowsTable
    OBVIOUS
  <2>1. ASSUME NEW p \in Policies \ contended, ~Overlaps(p)
        PROVE  /\ {t \in Tenants : <<t, p>> \in polCache} \subseteq {polTable[p]}
               /\ p \in Stored \ unloaded => <<polTable[p], p>> \in polCache
    <3>1. \A t \in Tenants : Kept(t, p)
      BY <2>1 DEF CacheInv, Tracks
    <3>2. polTable[p] \in Tenants \cup {NoOne}
      BY DEF StoreTypeOK
    <3> QED BY <3>1, <3>2 DEF Kept, Stored
  <2> QED BY <2>1 DEF CacheFollowsTable, CacheInv, IndexCached
<1> QED BY <1>1, InitStoreType, NextStoreType, InitCacheInv, NextCacheInv, PTL DEF StoreSpec

----------------------------------------------------------------------------
(* The spend ledger and the gate.                                          *)

\* The row of a policy and an agent adds up the records of the one tenant that
\* has any; an empty row has none.
RowsAddUp ==
  /\ \A p \in Policies, a \in PolAgents : ledger[<<p, a>>].tenant = NoOne =>
       ledger[<<p, a>>].total = 0 /\ \A t \in Tenants : spent[<<t, p, a>>] = 0
  /\ \A t \in Tenants, p \in Policies, a \in PolAgents :
       ~Shared(t, p, a) => ledger[<<p, a>>].total = spent[<<t, p, a>>]

\* What a request at the gate has seen of the past is still recorded.
PastKept ==
  \A h \in Handlers : polJobs[h].op \in {"load", "judge"} =>
    polJobs[h].past <= spent[<<polJobs[h].t, polJobs[h].p, polJobs[h].a>>]

Payments == [t: Tenants, p: Policies, a: PolAgents, amount: Nat, past: Nat, read: BOOLEAN]
SpendInv == RowsAddUp /\ PastKept /\ admitted \subseteq Payments /\ BudgetCoversPastSpend

LEMMA InitSpendInv == StoreInit => SpendInv
  BY DEF StoreInit, SpendInv, RowsAddUp, PastKept, BudgetCoversPastSpend, NoRow, NoJob, Keys

\* Once another tenant's record is in a row it stays there.
LEMMA SharedStays ==
  ASSUME StoreTypeOK, NEW k \in Spenders, NEW x \in Amounts, RecordSpend(k[1], k[2], k[3], x),
         NEW t \in Tenants, NEW p \in Policies, NEW a \in PolAgents, Shared(t, p, a)
  PROVE  Shared(t, p, a)'
<1>1. k[1] \in Tenants /\ k[2] \in Policies /\ k[3] \in PolAgents /\ x \in Nat
  BY StoreAssumption
<1>2. /\ ledger' = [ledger EXCEPT ![<<k[2], k[3]>>] = LedgerRow(k[1], @, x)]
      /\ spent' = [spent EXCEPT ![<<k[1], k[2], k[3]>>] = @ + x]
  BY DEF RecordSpend
<1>3. <<p, a>> \in Policies \X PolAgents /\ \A u \in Tenants : <<u, p, a>> \in Keys
  BY DEF Keys
<1>4. ledger[<<p, a>>].tenant # NoOne => ledger'[<<p, a>>].tenant = ledger[<<p, a>>].tenant
  BY <1>1, <1>2, <1>3 DEF LedgerRow, StoreTypeOK
<1>5. \A u \in Tenants : spent'[<<u, p, a>>] >= spent[<<u, p, a>>] /\ spent'[<<u, p, a>>] \in Nat
  BY <1>1, <1>2, <1>3 DEF StoreTypeOK
<1>6. \A u \in Tenants : spent[<<u, p, a>>] \in Nat
  BY <1>3 DEF StoreTypeOK
<1> QED BY <1>4, <1>5, <1>6 DEF Shared

\* Every step keeps it.
LEMMA NextSpendInv == StoreTypeOK /\ StoreTypeOK' /\ SpendInv /\ [StoreNext]_storeVars => SpendInv'
<1> SUFFICES ASSUME StoreTypeOK, StoreTypeOK', SpendInv, [StoreNext]_storeVars PROVE SpendInv'
  OBVIOUS
<1>t. polJobs \in [Handlers -> WriteJob \cup BindJob \cup GateJob \cup {NoJob}]
  BY DEF StoreTypeOK
<1>n. NoJob.op = "none"
  BY DEF NoJob
<1>s. \A t \in Tenants, p \in Policies, a \in PolAgents : <<t, p, a>> \in Keys /\ spent[<<t, p, a>>] \in Nat
  BY DEF Keys, StoreTypeOK
\* Steps that leave the ledger alone.
<1>r. ASSUME UNCHANGED <<ledger, spent>>
      PROVE  RowsAddUp' /\ \A t, p, a : Shared(t, p, a)' <=> Shared(t, p, a)
  BY <1>r DEF SpendInv, RowsAddUp, Shared
<1>b. ASSUME UNCHANGED <<ledger, spent, admitted>> PROVE BudgetCoversPastSpend' /\ admitted' \subseteq Payments
  BY <1>b, <1>r DEF SpendInv, BudgetCoversPastSpend
<1>k. ASSUME NEW h \in Handlers, NEW j, polJobs' = [polJobs EXCEPT ![h] = j],
             UNCHANGED spent,
             j.op \in {"load", "judge"} => j.past <= spent[<<j.t, j.p, j.a>>]
      PROVE  PastKept'
  <2>1. polJobs'[h] = j /\ \A g \in Handlers \ {h} : polJobs'[g] = polJobs[g]
    BY <1>k, <1>t
  <2> QED BY <1>k, <2>1 DEF SpendInv, PastKept
<1>1. ASSUME NEW h \in Handlers, NEW tp \in Uploads,
             UploadRow(h, tp[1], tp[2]) \/ DeleteRow(h, tp[1], tp[2])
      PROVE  SpendInv'
  <2>1. PastKept'
    BY <1>1, <1>k DEF UploadRow, DeleteRow, Begin
  <2> QED BY <1>1, <1>r, <1>b, <2>1 DEF SpendInv, UploadRow, DeleteRow
<1>3. ASSUME NEW h \in Handlers, UploadCache(h) \/ DeleteCache(h) \/ BindPolicy(h) PROVE SpendInv'
  <2>1. PastKept'
    BY <1>3, <1>k, <1>n DEF UploadCache, DeleteCache, BindPolicy, End
  <2> QED BY <1>3, <1>r, <1>b, <2>1 DEF SpendInv, UploadCache, DeleteCache, BindPolicy
<1>6. ASSUME NEW h \in Handlers, LoadPolicy(h) PROVE SpendInv'
  <2>1. polJobs[h].op = "load" /\ polJobs[h] \in GateJob
    BY <1>6, JobKinds DEF LoadPolicy, Doing
  <2> DEFINE j == [polJobs[h] EXCEPT !.op = "judge"]
  <2>2. j.past = polJobs[h].past /\ j.t = polJobs[h].t /\ j.p = polJobs[h].p /\ j.a = polJobs[h].a
    BY <2>1 DEF GateJob
  <2>3. j.past <= spent[<<j.t, j.p, j.a>>]
    BY <2>1, <2>2 DEF SpendInv, PastKept
  <2>4. PastKept'
    BY <1>6, <1>k, <1>n, <2>3 DEF LoadPolicy, End
  <2> QED BY <1>6, <1>r, <1>b, <2>4 DEF SpendInv, LoadPolicy
<1>7. ASSUME NEW h \in Handlers, NEW a \in PolAgents, LookupBinding(h, a) PROVE SpendInv'
  <2>1. bound[a] \in Policies /\ Home[a] \in Tenants
    BY <1>7, StoreAssumption DEF LookupBinding, StoreTypeOK
  <2>2. spent[<<Home[a], bound[a], a>>] \in Nat
    BY <1>s, <2>1
  <2> DEFINE j == [op |-> "load", t |-> Home[a], a |-> a, p |-> bound[a],
                   past |-> spent[<<Home[a], bound[a], a>>]]
  <2>3. j.past <= spent[<<j.t, j.p, j.a>>]
    BY <2>2
  <2>4. PastKept'
    BY <1>7, <1>k, <2>3 DEF LookupBinding, Begin
  <2> QED BY <1>7, <1>r, <1>b, <2>4 DEF SpendInv, LookupBinding
<1>8. ASSUME NEW h \in Handlers, NEW a \in PolAgents, NEW p \in Policies, CheckBinding(h, a, p)
      PROVE  SpendInv'
  <2>1. PastKept'
    BY <1>8, <1>k DEF CheckBinding, Begin
  <2> QED BY <1>8, <1>r, <1>b, <2>1 DEF SpendInv, CheckBinding
<1>9. ASSUME NEW h \in Handlers, NEW x \in Amounts, Judge(h, x) PROVE SpendInv'
  <2> DEFINE j == polJobs[h]
  <2>0. x \in Nat
    BY StoreAssumption
  <2>1. j.op = "judge" /\ j \in GateJob
    BY <1>9, JobKinds DEF Judge, Doing
  <2>2. /\ j.t \in Tenants /\ j.p \in Policies /\ j.a \in PolAgents /\ j.past \in Nat
        /\ <<j.p, j.a>> \in Policies \X PolAgents
    BY <2>1 DEF GateJob
  <2>3. PastKept'
    BY <1>9, <1>k, <1>n DEF Judge, End
  <2>r. PICK read \in TotalsRead(j.t, j.p, j.a) :
          admitted' = IF read.total + x > Cap[j.p] THEN {}
                      ELSE {[t |-> j.t, p |-> j.p, a |-> j.a, amount |-> x, past |-> j.past,
                             read |-> read.ok]}
    BY <1>9 DEF Judge
  <2> DEFINE total == read.total
             ok == read.ok
  <2>4. /\ ok \in BOOLEAN
        /\ \/ ok = TRUE /\ total = SpendTotal(j.t, j.p, j.a)
           \/ ok = FALSE /\ total = 0
    <3>1. \/ read = [ok |-> TRUE, total |-> SpendTotal(j.t, j.p, j.a)]
          \/ read = [ok |-> FALSE, total |-> 0]
      BY <2>r DEF TotalsRead
    <3>2. CASE read = [ok |-> TRUE, total |-> SpendTotal(j.t, j.p, j.a)]
      <4>1. ok = TRUE /\ total = SpendTotal(j.t, j.p, j.a)
        BY <3>2
      <4> QED BY <4>1
    <3>3. CASE read = [ok |-> FALSE, total |-> 0]
      <4>1. ok = FALSE /\ total = 0
        BY <3>3
      <4> QED BY <4>1
    <3> QED BY <3>1, <3>2, <3>3
  <2> DEFINE m == [t |-> j.t, p |-> j.p, a |-> j.a, amount |-> x, past |-> j.past, read |-> ok]
  <2>5. /\ m.t = j.t /\ m.p = j.p /\ m.a = j.a /\ m.amount = x /\ m.past = j.past /\ m.read = ok
        /\ m \in Payments
    BY <2>0, <2>2, <2>4 DEF Payments
  <2>6. j.past <= spent[<<j.t, j.p, j.a>>]
    BY <2>1 DEF SpendInv, PastKept
  <2>7. ledger[<<j.p, j.a>>].tenant \in Tenants \cup {NoOne} /\ ledger[<<j.p, j.a>>].total \in Nat
    BY <2>2 DEF StoreTypeOK, LedgerRows
  <2>8. Cap[j.p] \in Nat /\ spent[<<j.t, j.p, j.a>>] \in Nat
    BY <1>s, <2>2, StoreAssumption
  <2>t. total \in Nat
    BY <2>4, <2>7 DEF SpendTotal
  <2>m. admitted' = IF total + x > Cap[j.p] THEN {} ELSE {m}
    BY <2>r
  <2> HIDE DEF m, j, total, ok
  <2>9. ASSUME ok, ~Shared(j.t, j.p, j.a), ~(total + x > Cap[j.p])
        PROVE  j.past + x <= Cap[j.p]
    <3>1. ledger[<<j.p, j.a>>].tenant \in {j.t, NoOne}
      BY <2>9 DEF Shared
    <3>2. ledger[<<j.p, j.a>>].total = spent[<<j.t, j.p, j.a>>]
      BY <2>2, <2>9 DEF SpendInv, RowsAddUp
    <3>3. ledger[<<j.p, j.a>>].tenant = NoOne => ledger[<<j.p, j.a>>].total = 0
      BY <2>2 DEF SpendInv, RowsAddUp
    <3>4. SpendTotal(j.t, j.p, j.a) = spent[<<j.t, j.p, j.a>>]
      BY <3>1, <3>2, <3>3 DEF SpendTotal
    <3>5. total = spent[<<j.t, j.p, j.a>>]
      <4>1. ok # FALSE
        BY <2>9
      <4> QED BY <2>4, <3>4, <4>1
    <3> QED BY <2>0, <2>2, <2>6, <2>8, <2>9, <3>5
  <2>12. ~(total + x > Cap[j.p]) => x <= Cap[j.p]
    BY <2>0, <2>8, <2>t
  <2>10. UNCHANGED <<ledger, spent>>
    BY <1>9 DEF Judge
  <2>11. BudgetCoversPastSpend'
    <3>1. ASSUME NEW n \in admitted'
          PROVE  /\ n.amount <= Cap[n.p]
                 /\ n.read /\ ~Shared(n.t, n.p, n.a) => n.past + n.amount <= Cap[n.p]
      <4>1. n = m /\ ~(total + x > Cap[j.p])
        BY <2>m, <3>1
      <4> QED BY <2>5, <2>9, <2>12, <4>1
    <3> QED BY <1>r, <2>10, <3>1 DEF BudgetCoversPastSpend
  <2>13. admitted' \subseteq Payments
    BY <2>5, <2>m
  <2> QED BY <1>r, <2>3, <2>10, <2>11, <2>13 DEF SpendInv
<1>14. ASSUME NEW h \in Handlers, JudgeFails(h) PROVE SpendInv'
  <2>1. PastKept'
    BY <1>14, <1>k, <1>n DEF JudgeFails, End
  <2> QED BY <1>14, <1>r, <1>b, <2>1 DEF SpendInv, JudgeFails
<1>10. ASSUME NEW a \in PolAgents, UnbindPolicy(a) PROVE SpendInv'
  BY <1>10, <1>r, <1>b DEF UnbindPolicy, SpendInv, PastKept
<1>11. ASSUME NEW k \in Spenders, NEW x \in Amounts, RecordSpend(k[1], k[2], k[3], x)
       PROVE  SpendInv'
  <2> DEFINE w == k[1]
             q == k[2]
             b == k[3]
  <2>1. w \in Tenants /\ q \in Policies /\ b \in PolAgents /\ x \in Nat
    BY StoreAssumption
  <2>2. /\ ledger' = [ledger EXCEPT ![<<q, b>>] = LedgerRow(w, @, x)]
        /\ spent' = [spent EXCEPT ![<<w, q, b>>] = @ + x]
        /\ polJobs' = polJobs /\ admitted' = admitted
    BY <1>11 DEF RecordSpend
  <2>m. \A t \in Tenants, p \in Policies, a \in PolAgents : Shared(t, p, a) => Shared(t, p, a)'
    BY <1>11, SharedStays
  <2> HIDE DEF w, q, b
  <2>3. \A t \in Tenants, p \in Policies, a \in PolAgents :
          spent'[<<t, p, a>>] = IF <<t, p, a>> = <<w, q, b>> THEN spent[<<t, p, a>>] + x
                                                              ELSE spent[<<t, p, a>>]
    BY <1>s, <2>2 DEF StoreTypeOK
  <2>4. \A p \in Policies, a \in PolAgents : <<p, a>> # <<q, b>> => ledger'[<<p, a>>] = ledger[<<p, a>>]
    BY <2>2 DEF StoreTypeOK
  <2>5. /\ ledger'[<<q, b>>].tenant = IF ledger[<<q, b>>].tenant = NoOne THEN w ELSE ledger[<<q, b>>].tenant
        /\ ledger'[<<q, b>>].total = ledger[<<q, b>>].total + x
        /\ ledger[<<q, b>>].total \in Nat
    <3>1. <<q, b>> \in Policies \X PolAgents
      BY <2>1
    <3>2. ledger'[<<q, b>>] = LedgerRow(w, ledger[<<q, b>>], x) /\ ledger[<<q, b>>] \in LedgerRows
      BY <2>2, <3>1 DEF StoreTypeOK
    <3> QED BY <3>2 DEF LedgerRow, LedgerRows
  <2>6. RowsAddUp'
    <3>1. ASSUME NEW p \in Policies, NEW a \in PolAgents, ledger'[<<p, a>>].tenant = NoOne
          PROVE  ledger'[<<p, a>>].total = 0 /\ \A t \in Tenants : spent'[<<t, p, a>>] = 0
      <4>1. <<p, a>> # <<q, b>>
        BY <2>1, <2>5, <3>1, StoreAssumption
      <4> QED BY <2>3, <2>4, <3>1, <4>1 DEF SpendInv, RowsAddUp
    <3>2. ASSUME NEW t \in Tenants, NEW p \in Policies, NEW a \in PolAgents, ~Shared(t, p, a)'
          PROVE  ledger'[<<p, a>>].total = spent'[<<t, p, a>>]
      <4>1. ledger[<<p, a>>].total = spent[<<t, p, a>>]
        BY <2>m, <3>2 DEF SpendInv, RowsAddUp
      <4>2. CASE <<p, a>> # <<q, b>>
        BY <2>3, <2>4, <4>1, <4>2
      <4>3. CASE <<p, a>> = <<q, b>> /\ t = w
        BY <2>3, <2>5, <4>1, <4>3
      <4>4. CASE <<p, a>> = <<q, b>> /\ t # w
        <5>1. ~(spent'[<<w, q, b>>] > 0)
          BY <2>1, <3>2, <4>4 DEF Shared
        <5>2. spent'[<<w, q, b>>] = spent[<<w, q, b>>] + x /\ spent[<<w, q, b>>] \in Nat
          BY <1>s, <2>1, <2>3
        <5>3. x = 0
          BY <2>1, <5>1, <5>2
        <5> QED BY <2>3, <2>5, <4>1, <4>4, <5>3
      <4> QED BY <4>2, <4>3, <4>4
    <3> QED BY <3>1, <3>2 DEF RowsAddUp
  <2>7. PastKept'
    <3> SUFFICES ASSUME NEW h \in Handlers, polJobs'[h].op \in {"load", "judge"}
                 PROVE  polJobs'[h].past <= spent'[<<polJobs'[h].t, polJobs'[h].p, polJobs'[h].a>>]
      BY DEF PastKept
    <3>1. polJobs[h] \in GateJob
      BY <2>2, JobKinds
    <3>2. /\ polJobs[h].t \in Tenants /\ polJobs[h].p \in Policies
          /\ polJobs[h].a \in PolAgents /\ polJobs[h].past \in Nat
      BY <3>1 DEF GateJob
    <3>3. polJobs[h].past <= spent[<<polJobs[h].t, polJobs[h].p, polJobs[h].a>>]
      BY <2>2 DEF SpendInv, PastKept
    <3> QED BY <1>s, <2>1, <2>2, <2>3, <3>2, <3>3
  <2>8. BudgetCoversPastSpend'
    <3>1. \A m \in admitted : m.t \in Tenants /\ m.p \in Policies /\ m.a \in PolAgents
      BY DEF SpendInv, Payments
    <3> QED BY <2>m, <2>2, <3>1 DEF SpendInv, BudgetCoversPastSpend
  <2> QED BY <2>2, <2>6, <2>7, <2>8 DEF SpendInv
<1>12. CASE Hydrate
  <2>1. PastKept'
    BY <1>12, <1>n DEF Hydrate, PastKept
  <2> QED BY <1>12, <1>r, <1>b, <2>1 DEF SpendInv, Hydrate
<1>13. CASE UNCHANGED storeVars
  BY <1>13, <1>r, <1>b DEF storeVars, SpendInv, PastKept
<1> QED BY <1>1, <1>3, <1>6, <1>7, <1>8, <1>9, <1>10, <1>11, <1>12, <1>13, <1>14 DEF StoreNext

\* The gate admits no payment that does not fit with what its tenant had recorded
\* when the request began, if it could read it, in every behaviour of the store, the
\* gate and the ledger.
THEOREM GateKeepsBudget == StoreSpec => []BudgetCoversPastSpend
<1>1. SpendInv => BudgetCoversPastSpend
  BY DEF SpendInv
<1> QED BY <1>1, InitStoreType, NextStoreType, InitSpendInv, NextSpendInv, PTL DEF StoreSpec

----------------------------------------------------------------------------
(* Cohort statistics.                                                      *)

Charges == [eps: Nat, delta: Nat]
Rows == [spent: Charges, caps: Charges]

\* A publication on its way: the metrics it has still to charge and those it has
\* charged are apart, and k tenants contributed to each.
PubJob(j) ==
  /\ j = [op |-> j.op, def |-> j.def, cycle |-> j.cycle, by |-> j.by, todo |-> j.todo, out |-> j.out]
  /\ j.op \in {"ensure", "ask", "charge"}
  /\ j.def \in CohortUploads
  /\ j.todo \subseteq StatMetrics /\ j.todo \cap j.out = {}
  /\ \A m \in j.todo \cup j.out : Cardinality(j.by[m]) >= j.def.k
  /\ j.op # "ensure" => j.todo # {}

GoodJob(j) ==
  \/ j = DpIdle
  \/ j.op = "cache" /\ j.def \in CohortUploads \cup {NoCohort}
  \/ j.op = "read" /\ j.def \in CohortUploads
  \/ j.op = "rotate" /\ j = [op |-> j.op, to |-> j.to, todo |-> j.todo] /\ j.to \in Rotations
  \/ PubJob(j)

CohortTypeOK ==
  /\ IsFiniteSet(stats)
  /\ cohCache \in CohortUploads \cup {NoCohort} /\ cohTable \in CohortUploads \cup {NoCohort}
  /\ budget \in [BudgetKeys -> Rows \cup {NoBudget}]
  /\ peak \in [BudgetKeys -> Charges] /\ released \in [BudgetKeys -> Charges]
  /\ dpJobs = [h \in Publishers |-> dpJobs[h]]
  /\ \A h \in Publishers : GoodJob(dpJobs[h])

\* What a request has charged to row k and not released yet.
Unreleased(j, k) ==
  IF j.op \in {"ensure", "ask", "charge"} /\ k[2] = j.cycle /\ k[1] \in j.out
    THEN Asked(j.def) ELSE Nothing
OwedEps(k) == SumFunctionOnSet([h \in Publishers |-> Unreleased(dpJobs[h], k).eps], Publishers)
OwedDelta(k) == SumFunctionOnSet([h \in Publishers |-> Unreleased(dpJobs[h], k).delta], Publishers)

SpentOf(k) == IF budget[k] = NoBudget THEN Nothing ELSE budget[k].spent
CapsOf(k) == IF budget[k] = NoBudget THEN Nothing ELSE budget[k].caps

\* The books balance: what was released of a row and what its requests have yet
\* to release has been charged to it, within the highest caps it ever had.
Balanced(k) ==
  /\ released[k].eps + OwedEps(k) <= SpentOf(k).eps
  /\ released[k].delta + OwedDelta(k) <= SpentOf(k).delta
  /\ AtMost(SpentOf(k), peak[k]) /\ AtMost(CapsOf(k), peak[k])

\* A request that is about to ask or to charge finds its row.
RowOpen(j) ==
  j.op \in {"ask", "charge"} /\ RowKey(j) \in BudgetKeys => budget[RowKey(j)] # NoBudget

CohortInv ==
  /\ CohortTypeOK
  /\ \A k \in BudgetKeys : Balanced(k)
  /\ \A h \in Publishers : RowOpen(dpJobs[h])
  /\ ReleasesNeedKTenants

LEMMA UploadFields ==
  ASSUME NEW d \in CohortUploads
  PROVE  /\ d.eps \in Nat /\ d.delta \in Nat /\ d.k \in Nat
         /\ Asked(d) \in Charges /\ Asked(d).eps = d.eps /\ Asked(d).delta = d.delta
         /\ EffectiveCaps(d) \in Charges
<1>1. d.eps \in Nat /\ d.delta \in Nat /\ d.k \in Nat /\ d.cap \subseteq Nat /\ d.capD \subseteq Nat
  BY CohortAssumption
<1>2. ASSUME NEW g \in SUBSET Nat, NEW n \in Nat PROVE EffectiveCap(g, n) \in Nat
  <2>1. CASE g = {}
    BY <2>1 DEF EffectiveCap
  <2>2. CASE g # {}
    <3>1. (CHOOSE c \in g : TRUE) \in g
      BY <2>2
    <3> QED BY <2>2, <3>1 DEF EffectiveCap
  <2> QED BY <2>1, <2>2
<1> QED BY <1>1, <1>2 DEF Asked, Charge, Charges, EffectiveCaps

LEMMA NoBudgetRow == NoBudget \notin Rows
  BY CohortAssumption DEF Rows, Charges

LEMMA CurrentIn ==
  ASSUME NEW j, j.todo # {}, j.todo \subseteq StatMetrics
  PROVE  Current(j) \in j.todo
<1>1. j.todo \subseteq Nat
  BY CohortAssumption
<1>2. \E m \in j.todo : \A n \in j.todo : m <= n
  BY <1>1, LeastNat
<1> QED BY <1>2 DEF Current

LEMMA UnreleasedType ==
  ASSUME NEW j, GoodJob(j), NEW k
  PROVE  /\ Unreleased(j, k) \in Charges
         /\ Unreleased(j, k).eps \in Nat /\ Unreleased(j, k).delta \in Nat
         /\ ~PubJob(j) => Unreleased(j, k) = Nothing
<1>0. Nothing \in Charges
  BY DEF Nothing, Charge, Charges
<1>1. CASE PubJob(j)
  <2>1. Asked(j.def) \in Charges
    BY <1>1, UploadFields DEF PubJob
  <2>2. Unreleased(j, k) \in Charges
    BY <1>0, <2>1 DEF Unreleased
  <2> QED BY <1>1, <2>2 DEF Charges
<1>2. CASE ~PubJob(j)
  <2>1. Unreleased(j, k) = Nothing
    BY <1>2 DEF GoodJob, Unreleased, DpIdle
  <2> QED BY <1>0, <2>1 DEF Charges
<1> QED BY <1>1, <1>2

\* Requests that owe no more than before.
LEMMA OwedSmaller ==
  ASSUME CohortTypeOK, NEW k, \A h \in Publishers : GoodJob(dpJobs'[h]),
         \A h \in Publishers : AtMost(Unreleased(dpJobs'[h], k), Unreleased(dpJobs[h], k))
  PROVE  /\ OwedEps(k) \in Nat /\ OwedDelta(k) \in Nat /\ OwedEps(k)' \in Nat /\ OwedDelta(k)' \in Nat
         /\ OwedEps(k)' <= OwedEps(k) /\ OwedDelta(k)' <= OwedDelta(k)
<1>0. IsFiniteSet(Publishers)
  BY CohortAssumption
<1>1. \A h \in Publishers : GoodJob(dpJobs[h])
  BY DEF CohortTypeOK
<1> DEFINE f == [h \in Publishers |-> Unreleased(dpJobs[h], k).eps]
           g == [h \in Publishers |-> Unreleased(dpJobs'[h], k).eps]
           u == [h \in Publishers |-> Unreleased(dpJobs[h], k).delta]
           v == [h \in Publishers |-> Unreleased(dpJobs'[h], k).delta]
<1>2. (\A h \in Publishers : f[h] \in Nat) /\ (\A h \in Publishers : u[h] \in Nat)
  BY <1>1, UnreleasedType
<1>3. (\A h \in Publishers : g[h] \in Nat) /\ (\A h \in Publishers : v[h] \in Nat)
  BY UnreleasedType
<1>4. (\A h \in Publishers : g[h] <= f[h]) /\ (\A h \in Publishers : v[h] <= u[h])
  BY DEF AtMost
<1>5. OwedEps(k) = SumFunctionOnSet(f, Publishers) /\ OwedDelta(k) = SumFunctionOnSet(u, Publishers)
      /\ OwedEps(k)' = SumFunctionOnSet(g, Publishers) /\ OwedDelta(k)' = SumFunctionOnSet(v, Publishers)
  BY DEF OwedEps, OwedDelta
<1> HIDE DEF f, g, u, v
<1>6. SumFunctionOnSet(f, Publishers) \in Nat /\ SumFunctionOnSet(u, Publishers) \in Nat
      /\ SumFunctionOnSet(g, Publishers) \in Nat /\ SumFunctionOnSet(v, Publishers) \in Nat
  BY <1>0, <1>2, <1>3, SumNat
<1>7. SumFunctionOnSet(g, Publishers) <= SumFunctionOnSet(f, Publishers)
  BY <1>0, <1>2, <1>3, <1>4, SumSmaller
<1>8. SumFunctionOnSet(v, Publishers) <= SumFunctionOnSet(u, Publishers)
  BY <1>0, <1>2, <1>3, <1>4, SumSmaller
<1> QED BY <1>5, <1>6, <1>7, <1>8

\* One request that owes more or less than before.
LEMMA OwedChange ==
  ASSUME CohortTypeOK, NEW k, \A h \in Publishers : GoodJob(dpJobs'[h]),
         NEW h \in Publishers, \A g \in Publishers \ {h} : dpJobs'[g] = dpJobs[g]
  PROVE  /\ OwedEps(k) \in Nat /\ OwedDelta(k) \in Nat /\ OwedEps(k)' \in Nat /\ OwedDelta(k)' \in Nat
         /\ OwedEps(k)' = OwedEps(k) - Unreleased(dpJobs[h], k).eps + Unreleased(dpJobs'[h], k).eps
         /\ OwedDelta(k)' = OwedDelta(k) - Unreleased(dpJobs[h], k).delta + Unreleased(dpJobs'[h], k).delta
<1>0. IsFiniteSet(Publishers)
  BY CohortAssumption
<1>1. \A g \in Publishers : GoodJob(dpJobs[g])
  BY DEF CohortTypeOK
<1> DEFINE f == [g \in Publishers |-> Unreleased(dpJobs[g], k).eps]
           e == [g \in Publishers |-> Unreleased(dpJobs'[g], k).eps]
           u == [g \in Publishers |-> Unreleased(dpJobs[g], k).delta]
           v == [g \in Publishers |-> Unreleased(dpJobs'[g], k).delta]
<1>2. (\A g \in Publishers : f[g] \in Nat) /\ (\A g \in Publishers : u[g] \in Nat)
  BY <1>1, UnreleasedType
<1>3. (\A g \in Publishers : e[g] \in Nat) /\ (\A g \in Publishers : v[g] \in Nat)
  BY UnreleasedType
<1>4. (\A g \in Publishers \ {h} : f[g] = e[g]) /\ (\A g \in Publishers \ {h} : u[g] = v[g])
  OBVIOUS
<1>5. OwedEps(k) = SumFunctionOnSet(f, Publishers) /\ OwedDelta(k) = SumFunctionOnSet(u, Publishers)
      /\ OwedEps(k)' = SumFunctionOnSet(e, Publishers) /\ OwedDelta(k)' = SumFunctionOnSet(v, Publishers)
  BY DEF OwedEps, OwedDelta
<1>6. f[h] = Unreleased(dpJobs[h], k).eps /\ e[h] = Unreleased(dpJobs'[h], k).eps
      /\ u[h] = Unreleased(dpJobs[h], k).delta /\ v[h] = Unreleased(dpJobs'[h], k).delta
  OBVIOUS
<1> HIDE DEF f, e, u, v
<1>7. /\ SumFunctionOnSet(f, Publishers) \in Nat /\ SumFunctionOnSet(e, Publishers) \in Nat
      /\ SumFunctionOnSet(e, Publishers) = SumFunctionOnSet(f, Publishers) - f[h] + e[h]
  <2>1. \A g \in Publishers : f[g] \in Nat
    BY <1>2
  <2>2. \A g \in Publishers : e[g] \in Nat
    BY <1>3
  <2>3. \A g \in Publishers \ {h} : f[g] = e[g]
    BY <1>4
  <2>4. SumFunctionOnSet(f, Publishers) \in Nat /\ SumFunctionOnSet(e, Publishers) \in Nat
    BY <1>0, <2>1, <2>2, SumNat
  <2> QED BY <1>0, <2>1, <2>2, <2>3, <2>4, SumChange
<1>8. /\ SumFunctionOnSet(u, Publishers) \in Nat /\ SumFunctionOnSet(v, Publishers) \in Nat
      /\ SumFunctionOnSet(v, Publishers) = SumFunctionOnSet(u, Publishers) - u[h] + v[h]
  <2>1. \A g \in Publishers : u[g] \in Nat
    BY <1>2
  <2>2. \A g \in Publishers : v[g] \in Nat
    BY <1>3
  <2>3. \A g \in Publishers \ {h} : u[g] = v[g]
    BY <1>4
  <2>4. SumFunctionOnSet(u, Publishers) \in Nat /\ SumFunctionOnSet(v, Publishers) \in Nat
    BY <1>0, <2>1, <2>2, SumNat
  <2> QED BY <1>0, <2>1, <2>2, <2>3, <2>4, SumChange
<1> QED BY <1>5, <1>6, <1>7, <1>8

\* Rows as records of charges.
LEMMA RowFields ==
  ASSUME CohortTypeOK, NEW k \in BudgetKeys
  PROVE  /\ SpentOf(k) \in Charges /\ CapsOf(k) \in Charges /\ peak[k] \in Charges /\ released[k] \in Charges
         /\ SpentOf(k).eps \in Nat /\ SpentOf(k).delta \in Nat
         /\ CapsOf(k).eps \in Nat /\ CapsOf(k).delta \in Nat
         /\ peak[k].eps \in Nat /\ peak[k].delta \in Nat
         /\ released[k].eps \in Nat /\ released[k].delta \in Nat
         /\ budget[k] # NoBudget => budget[k] \in Rows
<1>1. budget[k] # NoBudget => budget[k] \in Rows
  BY DEF CohortTypeOK
<1>2. SpentOf(k) \in Charges /\ CapsOf(k) \in Charges
  BY <1>1 DEF SpentOf, CapsOf, Nothing, Charge, Charges, Rows
<1>3. peak[k] \in Charges /\ released[k] \in Charges
  BY DEF CohortTypeOK
<1> QED BY <1>1, <1>2, <1>3 DEF Charges

\* A step that leaves the ledger alone and after which nobody owes more.
LEMMA LedgerAlone ==
  ASSUME CohortInv, CohortTypeOK', UNCHANGED <<budget, peak, released>>,
         \A h \in Publishers, k \in BudgetKeys : AtMost(Unreleased(dpJobs'[h], k), Unreleased(dpJobs[h], k))
  PROVE  \A k \in BudgetKeys : Balanced(k)'
<1> TAKE k \in BudgetKeys
<1>1. /\ OwedEps(k) \in Nat /\ OwedDelta(k) \in Nat /\ OwedEps(k)' \in Nat /\ OwedDelta(k)' \in Nat
      /\ OwedEps(k)' <= OwedEps(k) /\ OwedDelta(k)' <= OwedDelta(k)
  BY OwedSmaller DEF CohortInv, CohortTypeOK
<1>2. SpentOf(k)' = SpentOf(k) /\ CapsOf(k)' = CapsOf(k) /\ peak' = peak /\ released' = released
  BY DEF SpentOf, CapsOf
<1>3. Balanced(k)
  BY DEF CohortInv
<1>4. SpentOf(k).eps \in Nat /\ SpentOf(k).delta \in Nat /\ released[k].eps \in Nat /\ released[k].delta \in Nat
  BY RowFields DEF CohortInv
<1> QED BY <1>1, <1>2, <1>3, <1>4 DEF Balanced

LEMMA InitCohort == CohortInit => CohortInv
<1> SUFFICES ASSUME CohortInit PROVE CohortInv
  OBVIOUS
<1>1. /\ stats = {} /\ cohTable = NoCohort /\ cohCache = NoCohort /\ views = {}
      /\ budget = [k \in BudgetKeys |-> NoBudget] /\ peak = [k \in BudgetKeys |-> Nothing]
      /\ released = [k \in BudgetKeys |-> Nothing] /\ dpJobs = [h \in Publishers |-> DpIdle]
  BY DEF CohortInit
<1>2. Nothing \in Charges /\ Nothing.eps = 0 /\ Nothing.delta = 0
  BY DEF Nothing, Charge, Charges
<1>3. CohortTypeOK
  <2>1. IsFiniteSet(stats)
    BY <1>1, FS_EmptySet
  <2> QED BY <1>1, <1>2, <2>1 DEF CohortTypeOK, GoodJob
<1>4. ASSUME NEW k \in BudgetKeys PROVE Balanced(k)
  <2> DEFINE f == [h \in Publishers |-> Unreleased(dpJobs[h], k).eps]
             u == [h \in Publishers |-> Unreleased(dpJobs[h], k).delta]
             z == [h \in Publishers |-> 0]
  <2>1. \A h \in Publishers : f[h] = 0 /\ u[h] = 0
    BY <1>1, <1>2 DEF Unreleased, DpIdle
  <2>2. f = z /\ u = z
    BY <2>1
  <2>3. OwedEps(k) = SumFunctionOnSet(z, Publishers) /\ OwedDelta(k) = SumFunctionOnSet(z, Publishers)
    BY <2>2 DEF OwedEps, OwedDelta
  <2>4. SumFunctionOnSet(z, Publishers) = 0
    <3>1. IsFiniteSet(Publishers) /\ \A h \in Publishers : z[h] = 0
      BY CohortAssumption
    <3> HIDE DEF z
    <3> QED BY <3>1, SumZero
  <2>5. SpentOf(k) = Nothing /\ CapsOf(k) = Nothing /\ peak[k] = Nothing /\ released[k] = Nothing
    BY <1>1 DEF SpentOf, CapsOf
  <2> HIDE DEF f, u, z
  <2> QED BY <1>2, <2>3, <2>4, <2>5 DEF Balanced, AtMost
<1>5. \A h \in Publishers : RowOpen(dpJobs[h])
  BY <1>1 DEF RowOpen, DpIdle
<1> QED BY <1>1, <1>3, <1>4, <1>5 DEF CohortInv, ReleasesNeedKTenants

\* The state of one request is replaced by a good one.
LEMMA OneJob ==
  ASSUME CohortTypeOK, NEW h \in Publishers, NEW j, GoodJob(j), DpStep(h, j)
  PROVE  /\ dpJobs' = [g \in Publishers |-> dpJobs'[g]]
         /\ dpJobs'[h] = j
         /\ \A g \in Publishers \ {h} : dpJobs'[g] = dpJobs[g]
         /\ \A g \in Publishers : GoodJob(dpJobs'[g])
<1>1. dpJobs = [g \in Publishers |-> dpJobs[g]]
  BY DEF CohortTypeOK
<1>2. dpJobs' = [dpJobs EXCEPT ![h] = j]
  BY DEF DpStep
<1>3. dpJobs' = [g \in Publishers |-> IF g = h THEN j ELSE dpJobs[g]]
  BY <1>1, <1>2
<1>4. dpJobs' = [g \in Publishers |-> dpJobs'[g]]
  BY <1>3
<1>5. dpJobs'[h] = j /\ \A g \in Publishers \ {h} : dpJobs'[g] = dpJobs[g]
  BY <1>3
<1>6. \A g \in Publishers : GoodJob(dpJobs[g])
  BY DEF CohortTypeOK
<1> QED BY <1>4, <1>5, <1>6

\* A request moves on, charges nothing and releases nothing.
LEMMA QuietJob ==
  ASSUME CohortInv, NEW h \in Publishers, NEW j, GoodJob(j), DpStep(h, j), RowOpen(j),
         UNCHANGED <<stats, budget, peak, released, views>>,
         cohCache' \in CohortUploads \cup {NoCohort}, cohTable' \in CohortUploads \cup {NoCohort},
         \A k \in BudgetKeys : AtMost(Unreleased(j, k), Unreleased(dpJobs[h], k))
  PROVE  CohortInv'
<1>0. CohortTypeOK
  BY DEF CohortInv
<1>1. /\ dpJobs' = [g \in Publishers |-> dpJobs'[g]]
      /\ dpJobs'[h] = j
      /\ \A g \in Publishers \ {h} : dpJobs'[g] = dpJobs[g]
      /\ \A g \in Publishers : GoodJob(dpJobs'[g])
  BY <1>0, OneJob
<1>2. CohortTypeOK'
  BY <1>0, <1>1 DEF CohortTypeOK
<1>3. ASSUME NEW g \in Publishers, NEW k \in BudgetKeys
      PROVE  AtMost(Unreleased(dpJobs'[g], k), Unreleased(dpJobs[g], k))
  <2>1. CASE g = h
    BY <1>1, <2>1
  <2>2. CASE g # h
    <3>1. Unreleased(dpJobs[g], k).eps \in Nat /\ Unreleased(dpJobs[g], k).delta \in Nat
      BY <1>0, UnreleasedType DEF CohortTypeOK
    <3>2. dpJobs'[g] = dpJobs[g]
      BY <1>1, <2>2
    <3> QED BY <3>1, <3>2 DEF AtMost
  <2> QED BY <2>1, <2>2
<1>4. \A k \in BudgetKeys : Balanced(k)'
  BY <1>2, <1>3, LedgerAlone
<1>5. ASSUME NEW g \in Publishers PROVE RowOpen(dpJobs[g])'
  <2>1. RowOpen(dpJobs[g])
    BY DEF CohortInv
  <2>2. CASE g = h
    BY <1>1, <2>2 DEF RowOpen
  <2>3. CASE g # h
    <3>1. dpJobs'[g] = dpJobs[g]
      BY <1>1, <2>3
    <3> QED BY <2>1, <3>1 DEF RowOpen
  <2> QED BY <2>2, <2>3
<1>6. ReleasesNeedKTenants'
  BY DEF CohortInv, ReleasesNeedKTenants
<1> QED BY <1>2, <1>4, <1>5, <1>6 DEF CohortInv

\* A request that is no publication, or no longer.
LEMMA QuietEnd ==
  ASSUME CohortInv, NEW h \in Publishers, NEW j, GoodJob(j), DpStep(h, j),
         j.op \notin {"ensure", "ask", "charge"},
         UNCHANGED <<stats, budget, peak, released, views>>,
         cohCache' \in CohortUploads \cup {NoCohort}, cohTable' \in CohortUploads \cup {NoCohort}
  PROVE  CohortInv'
<1>1. ASSUME NEW k \in BudgetKeys
      PROVE  AtMost(Unreleased(j, k), Unreleased(dpJobs[h], k))
  <2>1. Unreleased(j, k) = Nothing
    BY DEF Unreleased
  <2>2. Unreleased(dpJobs[h], k).eps \in Nat /\ Unreleased(dpJobs[h], k).delta \in Nat
    BY UnreleasedType DEF CohortInv, CohortTypeOK
  <2> QED BY <2>1, <2>2 DEF AtMost, Nothing, Charge
<1>2. RowOpen(j)
  BY DEF RowOpen
<1> QED BY <1>1, <1>2, QuietJob

\* One row per tenant: as many contributions as tenants.
LEMMA TenantsCounted ==
  ASSUME IsFiniteSet(stats), NEW d, NEW m, NEW n \in Nat, Cardinality(Contributions(d, m)) >= n
  PROVE  Cardinality({r.tenant : r \in Contributions(d, m)}) >= n
<1> DEFINE C == InCohort(d, m)
           T == {r.tenant : r \in C}
           Latest(t) == CHOOSE r \in C : r.tenant = t
           D == Contributions(d, m)
           E == {r.tenant : r \in D}
<1>1. D = {Latest(t) : t \in T}
  BY DEF Contributions
<1>2. ASSUME NEW t \in T PROVE Latest(t) \in C /\ Latest(t).tenant = t
  OBVIOUS
<1>3. E = T
  <2>1. ASSUME NEW t \in T PROVE t \in E
    <3>1. Latest(t) \in D /\ Latest(t).tenant = t
      BY <1>1, <1>2
    <3> HIDE DEF D, Latest
    <3> QED BY <3>1
  <2>2. ASSUME NEW x \in E PROVE x \in T
    <3>1. PICK r \in D : x = r.tenant
      OBVIOUS
    <3>2. PICK t \in T : r = Latest(t)
      BY <1>1
    <3>3. x = t
      BY <1>2, <3>1, <3>2
    <3> QED BY <3>3
  <2> HIDE DEF D, E, T
  <2> QED BY <2>1, <2>2
<1>4. IsFiniteSet(C)
  BY FS_Subset DEF InCohort
<1>5. IsFiniteSet(T)
  <2> DEFINE f == [r \in C |-> r.tenant]
  <2>1. f \in Surjection(C, T)
    BY DEF Surjection
  <2> HIDE DEF f, C, T
  <2> QED BY <1>4, <2>1, FS_Surjection
<1>6. IsFiniteSet(D) /\ Cardinality(D) <= Cardinality(T)
  <2> DEFINE f == [t \in T |-> Latest(t)]
  <2>1. f \in Surjection(T, D)
    <3>1. f \in [T -> D]
      BY <1>1
    <3>2. \A r \in D : \E t \in T : f[t] = r
      BY <1>1
    <3> QED BY <3>1, <3>2 DEF Surjection
  <2> HIDE DEF f, C, T, D
  <2> QED BY <1>5, <2>1, FS_Surjection
<1>7. Cardinality(T) \in Nat /\ Cardinality(D) \in Nat
  <2> HIDE DEF C, T, D
  <2> QED BY <1>5, <1>6, FS_CardinalityType
<1>8. Cardinality(D) >= n
  OBVIOUS
<1> HIDE DEF C, T, D, E
<1>9. Cardinality(E) >= n
  BY <1>3, <1>6, <1>7, <1>8
<1> QED BY <1>9 DEF D, E

\* What is known of a request from what it is doing.
LEMMA CohortJobs ==
  ASSUME CohortInv, NEW h \in Publishers
  PROVE  /\ GoodJob(dpJobs[h]) /\ RowOpen(dpJobs[h])
         /\ DpDoing(h, "cache") => dpJobs[h].def \in CohortUploads \cup {NoCohort}
         /\ DpDoing(h, "read") => dpJobs[h].def \in CohortUploads
         /\ DpDoing(h, "rotate") => dpJobs[h] = [op |-> "rotate", to |-> dpJobs[h].to, todo |-> dpJobs[h].todo]
                                    /\ dpJobs[h].to \in Rotations
         /\ DpDoing(h, "ensure") \/ DpDoing(h, "ask") \/ DpDoing(h, "charge") => PubJob(dpJobs[h])
<1>1. GoodJob(dpJobs[h]) /\ RowOpen(dpJobs[h])
  BY DEF CohortInv, CohortTypeOK
<1>2. DpIdle.op = "idle"
  BY DEF DpIdle
<1> QED BY <1>1, <1>2 DEF GoodJob, PubJob, DpDoing

\* The next metric is dealt with: what was charged before, or that and more.
LEMMA SkipJob ==
  ASSUME NEW j, PubJob(j), j.todo # {}, NEW out, out = j.out \/ out = j.out \cup {Current(j)}
  PROVE  /\ PubJob(Skip(j, out)) /\ Skip(j, out).op = "ensure" /\ Skip(j, out).out = out
         /\ Skip(j, out).cycle = j.cycle /\ Skip(j, out).def = j.def
<1>1. Current(j) \in j.todo
  BY CurrentIn DEF PubJob
<1> DEFINE n == Skip(j, out)
<1>2. n = [op |-> "ensure", def |-> j.def, cycle |-> j.cycle, by |-> j.by,
           todo |-> j.todo \ {Current(j)}, out |-> out]
  BY DEF Skip, Publishing
<1>3. /\ n = [op |-> n.op, def |-> n.def, cycle |-> n.cycle, by |-> n.by, todo |-> n.todo, out |-> n.out]
      /\ n.op = "ensure" /\ n.def = j.def /\ n.cycle = j.cycle /\ n.by = j.by
      /\ n.todo = j.todo \ {Current(j)} /\ n.out = out
  BY <1>2
<1> HIDE DEF n
<1>4. n.todo \subseteq StatMetrics /\ n.todo \cap n.out = {} /\ n.todo \cup n.out \subseteq j.todo \cup j.out
  BY <1>1, <1>3 DEF PubJob
<1>5. PubJob(n)
  BY <1>3, <1>4 DEF PubJob
<1> QED BY <1>3, <1>5 DEF n

LEMMA OpJob ==
  ASSUME NEW j, PubJob(j), j.todo # {}, NEW o \in {"ask", "charge"}
  PROVE  /\ PubJob([j EXCEPT !.op = o]) /\ [j EXCEPT !.op = o].op = o
         /\ [j EXCEPT !.op = o].cycle = j.cycle /\ [j EXCEPT !.op = o].def = j.def
         /\ [j EXCEPT !.op = o].todo = j.todo /\ [j EXCEPT !.op = o].out = j.out
         /\ RowKey([j EXCEPT !.op = o]) = RowKey(j)
         /\ \A k \in BudgetKeys : Unreleased([j EXCEPT !.op = o], k) = Unreleased(j, k)
<1> DEFINE n == [j EXCEPT !.op = o]
<1>1. j = [op |-> j.op, def |-> j.def, cycle |-> j.cycle, by |-> j.by, todo |-> j.todo, out |-> j.out]
  BY DEF PubJob
<1>2. n = [op |-> o, def |-> j.def, cycle |-> j.cycle, by |-> j.by, todo |-> j.todo, out |-> j.out]
  BY <1>1
<1>3. /\ n = [op |-> n.op, def |-> n.def, cycle |-> n.cycle, by |-> n.by, todo |-> n.todo, out |-> n.out]
      /\ n.op = o /\ n.def = j.def /\ n.cycle = j.cycle /\ n.by = j.by
      /\ n.todo = j.todo /\ n.out = j.out
  BY <1>2
<1> HIDE DEF n
<1>4. PubJob(n)
  BY <1>3 DEF PubJob
<1>5. RowKey(n) = RowKey(j)
  BY <1>3 DEF RowKey, Current
<1>6. \A k \in BudgetKeys : Unreleased(n, k) = Unreleased(j, k)
  BY <1>3 DEF Unreleased, PubJob
<1> QED BY <1>3, <1>4, <1>5, <1>6 DEF n

\* The requests that neither charge nor release.
LEMMA QuietCohort ==
  ASSUME CohortInv, NEW h \in Publishers,
         \/ \E d \in CohortUploads : UpsertCohortRow(h, d)
         \/ DeleteCohortRow(h) \/ WriteCohortCache(h) \/ StartPublish(h)
         \/ ReadStats(h) \/ CanPublish(h)
         \/ \E r \in Rotations : StartRotate(h, r)
  PROVE  CohortInv'
<1>0. CohortTypeOK /\ cohCache \in CohortUploads \cup {NoCohort} /\ cohTable \in CohortUploads \cup {NoCohort}
  BY DEF CohortInv, CohortTypeOK
<1>1. ASSUME NEW d \in CohortUploads, UpsertCohortRow(h, d) PROVE CohortInv'
  <2> DEFINE j == [op |-> "cache", def |-> d]
  <2>1. GoodJob(j) /\ j.op = "cache"
    BY DEF GoodJob
  <2>2. DpStep(h, j) /\ cohTable' = d /\ cohCache' = cohCache /\ UNCHANGED <<stats, budget, peak, released, views>>
    BY <1>1 DEF UpsertCohortRow
  <2> HIDE DEF j
  <2> QED BY <1>0, <2>1, <2>2, QuietEnd
<1>2. CASE DeleteCohortRow(h)
  <2> DEFINE j == [op |-> "cache", def |-> NoCohort]
  <2>1. GoodJob(j) /\ j.op = "cache"
    BY DEF GoodJob
  <2>2. DpStep(h, j) /\ cohTable' = NoCohort /\ cohCache' = cohCache
        /\ UNCHANGED <<stats, budget, peak, released, views>>
    BY <1>2 DEF DeleteCohortRow
  <2> HIDE DEF j
  <2> QED BY <1>0, <2>1, <2>2, QuietEnd
<1>3. CASE WriteCohortCache(h)
  <2>1. GoodJob(DpIdle) /\ DpIdle.op = "idle"
    BY DEF GoodJob, DpIdle
  <2>2. DpStep(h, DpIdle) /\ cohTable' = cohTable /\ cohCache' = dpJobs[h].def
        /\ UNCHANGED <<stats, budget, peak, released, views>> /\ DpDoing(h, "cache")
    BY <1>3 DEF WriteCohortCache
  <2>3. dpJobs[h].def \in CohortUploads \cup {NoCohort}
    BY <2>2, CohortJobs
  <2> QED BY <1>0, <2>1, <2>2, <2>3, QuietEnd
<1>4. CASE StartPublish(h)
  <2> DEFINE j == [op |-> "read", def |-> cohCache]
  <2>1. DpStep(h, j) /\ cohTable' = cohTable /\ cohCache' = cohCache
        /\ UNCHANGED <<stats, budget, peak, released, views>> /\ cohCache # NoCohort
    BY <1>4 DEF StartPublish
  <2>2. GoodJob(j) /\ j.op = "read"
    BY <1>0, <2>1 DEF GoodJob
  <2> HIDE DEF j
  <2> QED BY <1>0, <2>1, <2>2, QuietEnd
<1>5. CASE ReadStats(h)
  <2> DEFINE d == dpJobs[h].def
             todo == {m \in StatMetrics : Cardinality(Contributions(d, m)) >= d.k}
             by == [m \in todo |-> {r.tenant : r \in Contributions(d, m)}]
             cycle == CycleStartFor(d, dpNow)
             j == [op |-> "ensure", def |-> d, cycle |-> cycle, by |-> by, todo |-> todo, out |-> {}]
  <2>1. DpStep(h, j) /\ cohTable' = cohTable /\ cohCache' = cohCache
        /\ UNCHANGED <<stats, budget, peak, released, views>> /\ DpDoing(h, "read")
    BY <1>5 DEF ReadStats, Publishing
  <2>2. d \in CohortUploads
    BY <2>1, CohortJobs
  <2>3. d.k \in Nat
    BY <2>2, UploadFields
  <2>4. IsFiniteSet(stats)
    BY <1>0 DEF CohortTypeOK
  <2>5. \A m \in todo : Cardinality(by[m]) >= d.k
    <3> HIDE DEF d
    <3> QED BY <2>3, <2>4, TenantsCounted
  <2>6. /\ j = [op |-> j.op, def |-> j.def, cycle |-> j.cycle, by |-> j.by, todo |-> j.todo, out |-> j.out]
        /\ j.op = "ensure" /\ j.def = d /\ j.by = by /\ j.todo = todo /\ j.out = {}
    OBVIOUS
  <2>7. todo \subseteq StatMetrics
    OBVIOUS
  <2> HIDE DEF d, todo, by, cycle, j
  <2>8. PubJob(j)
    BY <2>2, <2>5, <2>6, <2>7 DEF PubJob
  <2>9. GoodJob(j) /\ RowOpen(j)
    BY <2>6, <2>8 DEF GoodJob, RowOpen
  <2>10. ASSUME NEW k \in BudgetKeys PROVE AtMost(Unreleased(j, k), Unreleased(dpJobs[h], k))
    <3>1. Unreleased(j, k) = Nothing
      BY <2>6 DEF Unreleased
    <3>2. Unreleased(dpJobs[h], k).eps \in Nat /\ Unreleased(dpJobs[h], k).delta \in Nat
      BY UnreleasedType DEF CohortInv, CohortTypeOK
    <3> QED BY <3>1, <3>2 DEF AtMost, Nothing, Charge
  <2> QED BY <1>0, <2>1, <2>9, <2>10, QuietJob
<1>6. CASE CanPublish(h)
  <2> DEFINE c == dpJobs[h]
             yes == [c EXCEPT !.op = "charge"]
             no == Skip(c, c.out)
  <2>1. (DpStep(h, yes) \/ DpStep(h, no)) /\ cohTable' = cohTable /\ cohCache' = cohCache
        /\ UNCHANGED <<stats, budget, peak, released, views>> /\ DpDoing(h, "ask")
    BY <1>6 DEF CanPublish
  <2>2. PubJob(c) /\ c.todo # {} /\ RowOpen(c) /\ c.op = "ask" /\ GoodJob(c)
    BY <2>1, CohortJobs DEF PubJob, DpDoing
  <2>3. ASSUME NEW k \in BudgetKeys PROVE AtMost(Unreleased(c, k), Unreleased(c, k))
    <3>1. Unreleased(c, k).eps \in Nat /\ Unreleased(c, k).delta \in Nat
      BY <2>2, UnreleasedType
    <3> QED BY <3>1 DEF AtMost
  <2>4. CASE DpStep(h, yes)
    <3> HIDE DEF c
    <3>1. PubJob(yes) /\ RowKey(yes) = RowKey(c) /\ \A k \in BudgetKeys : Unreleased(yes, k) = Unreleased(c, k)
      BY <2>2, OpJob
    <3>2. GoodJob(yes) /\ RowOpen(yes)
      BY <2>2, <3>1 DEF GoodJob, RowOpen
    <3>3. \A k \in BudgetKeys : AtMost(Unreleased(yes, k), Unreleased(c, k))
      BY <2>3, <3>1
    <3> HIDE DEF yes
    <3> QED BY <1>0, <2>1, <2>4, <3>2, <3>3, QuietJob DEF c
  <2>5. CASE DpStep(h, no)
    <3> HIDE DEF c
    <3>1. PubJob(no) /\ no.op = "ensure" /\ no.out = c.out /\ no.cycle = c.cycle /\ no.def = c.def
      BY <2>2, SkipJob
    <3> HIDE DEF no
    <3>2. GoodJob(no) /\ RowOpen(no)
      BY <2>2, <3>1 DEF GoodJob, RowOpen
    <3>3. \A k \in BudgetKeys : Unreleased(no, k) = Unreleased(c, k)
      BY <2>2, <3>1 DEF Unreleased
    <3>4. \A k \in BudgetKeys : AtMost(Unreleased(no, k), Unreleased(c, k))
      BY <2>3, <3>3
    <3> QED BY <1>0, <2>1, <2>5, <3>2, <3>4, QuietJob DEF c
  <2> QED BY <2>1, <2>4, <2>5
<1>7. ASSUME NEW r \in Rotations, StartRotate(h, r) PROVE CohortInv'
  <2>1. PICK todo : /\ DpStep(h, [op |-> "rotate", to |-> r, todo |-> todo])
                    /\ cohTable' = cohTable /\ cohCache' = cohCache
                    /\ UNCHANGED <<stats, budget, peak, released, views>>
    BY <1>7 DEF StartRotate
  <2> DEFINE j == [op |-> "rotate", to |-> r, todo |-> todo]
  <2>2. GoodJob(j) /\ j.op = "rotate"
    BY DEF GoodJob
  <2>3. DpStep(h, j)
    BY <2>1
  <2> HIDE DEF j
  <2> QED BY <1>0, <2>1, <2>2, <2>3, QuietEnd
<1> QED BY <1>1, <1>2, <1>3, <1>4, <1>5, <1>6, <1>7

\* A row is created or gets other caps; what has been spent of it stays.
LEMMA RecapRow ==
  ASSUME CohortInv, NEW h \in Publishers, NEW j, GoodJob(j), DpStep(h, j),
         NEW q, NEW row, NEW caps \in Charges,
         budget' = [budget EXCEPT ![q] = row], peak' = [peak EXCEPT ![q] = Higher(@, caps)],
         q \in BudgetKeys => row = [spent |-> SpentOf(q), caps |-> caps],
         j.op \in {"ask", "charge"} /\ RowKey(j) \in BudgetKeys
           => RowKey(j) = q \/ budget[RowKey(j)] # NoBudget,
         \A k \in BudgetKeys : AtMost(Unreleased(j, k), Unreleased(dpJobs[h], k)),
         UNCHANGED <<stats, cohTable, cohCache, released, views>>
  PROVE  CohortInv'
<1>0. CohortTypeOK
  BY DEF CohortInv
<1>1. /\ dpJobs' = [g \in Publishers |-> dpJobs'[g]]
      /\ dpJobs'[h] = j
      /\ \A g \in Publishers \ {h} : dpJobs'[g] = dpJobs[g]
      /\ \A g \in Publishers : GoodJob(dpJobs'[g])
  BY <1>0, OneJob
<1>2. q \in BudgetKeys => row \in Rows /\ row # NoBudget
  <2>1. q \in BudgetKeys => SpentOf(q) \in Charges
    BY <1>0, RowFields
  <2>2. q \in BudgetKeys => row \in Rows
    BY <2>1 DEF Rows
  <2> QED BY <2>2, NoBudgetRow
<1>3. q \in BudgetKeys => Higher(peak[q], caps) \in Charges /\ AtMost(peak[q], Higher(peak[q], caps))
                          /\ AtMost(caps, Higher(peak[q], caps))
  <2> SUFFICES ASSUME q \in BudgetKeys
               PROVE  Higher(peak[q], caps) \in Charges /\ AtMost(peak[q], Higher(peak[q], caps))
                      /\ AtMost(caps, Higher(peak[q], caps))
    OBVIOUS
  <2>1. peak[q].eps \in Nat /\ peak[q].delta \in Nat
    BY <1>0, RowFields
  <2>2. caps.eps \in Nat /\ caps.delta \in Nat
    BY DEF Charges
  <2> QED BY <2>1, <2>2 DEF Higher, Charge, Charges, AtMost
<1>4. budget \in [BudgetKeys -> Rows \cup {NoBudget}] /\ peak \in [BudgetKeys -> Charges]
  BY <1>0 DEF CohortTypeOK
<1>5. budget' \in [BudgetKeys -> Rows \cup {NoBudget}]
      /\ \A k \in BudgetKeys : budget'[k] = IF k = q THEN row ELSE budget[k]
  BY <1>2, <1>4
<1>6. peak' \in [BudgetKeys -> Charges]
      /\ \A k \in BudgetKeys : peak'[k] = IF k = q THEN Higher(peak[q], caps) ELSE peak[k]
  BY <1>3, <1>4
<1>7. CohortTypeOK'
  BY <1>0, <1>1, <1>5, <1>6 DEF CohortTypeOK
<1>8. ASSUME NEW g \in Publishers, NEW k \in BudgetKeys
      PROVE  AtMost(Unreleased(dpJobs'[g], k), Unreleased(dpJobs[g], k))
  <2>1. CASE g = h
    BY <1>1, <2>1
  <2>2. CASE g # h
    <3>1. Unreleased(dpJobs[g], k).eps \in Nat /\ Unreleased(dpJobs[g], k).delta \in Nat
      BY <1>0, UnreleasedType DEF CohortTypeOK
    <3>2. dpJobs'[g] = dpJobs[g]
      BY <1>1, <2>2
    <3> QED BY <3>1, <3>2 DEF AtMost
  <2> QED BY <2>1, <2>2
<1>9. ASSUME NEW k \in BudgetKeys PROVE Balanced(k)'
  <2>1. /\ OwedEps(k) \in Nat /\ OwedDelta(k) \in Nat /\ OwedEps(k)' \in Nat /\ OwedDelta(k)' \in Nat
        /\ OwedEps(k)' <= OwedEps(k) /\ OwedDelta(k)' <= OwedDelta(k)
    BY <1>0, <1>1, <1>8, OwedSmaller
  <2>2. Balanced(k)
    BY DEF CohortInv
  <2>3. /\ SpentOf(k).eps \in Nat /\ SpentOf(k).delta \in Nat
        /\ peak[k].eps \in Nat /\ peak[k].delta \in Nat
        /\ released[k].eps \in Nat /\ released[k].delta \in Nat
    BY <1>0, RowFields
  <2>4. SpentOf(k)' = SpentOf(k)
    <3>1. CASE k = q
      BY <1>2, <1>5, <3>1 DEF SpentOf
    <3>2. CASE k # q
      BY <1>5, <3>2 DEF SpentOf
    <3> QED BY <3>1, <3>2
  <2>5. AtMost(CapsOf(k)', peak'[k]) /\ AtMost(peak[k], peak'[k])
    <3>1. CASE k = q
      BY <1>2, <1>3, <1>5, <1>6, <3>1 DEF CapsOf
    <3>2. CASE k # q
      <4>1. CapsOf(k)' = CapsOf(k) /\ peak'[k] = peak[k]
        BY <1>5, <1>6, <3>2 DEF CapsOf
      <4> QED BY <2>2, <2>3, <4>1 DEF Balanced, AtMost
    <3> QED BY <3>1, <3>2
  <2>6. peak'[k].eps \in Nat /\ peak'[k].delta \in Nat
    BY <1>6 DEF Charges
  <2>7. AtMost(SpentOf(k), peak'[k])
    BY <2>2, <2>3, <2>5, <2>6 DEF Balanced, AtMost
  <2>8. released'[k] = released[k]
    OBVIOUS
  <2>9. released[k].eps + OwedEps(k)' <= SpentOf(k).eps /\ released[k].delta + OwedDelta(k)' <= SpentOf(k).delta
    BY <2>1, <2>2, <2>3 DEF Balanced
  <2> QED BY <2>4, <2>5, <2>7, <2>8, <2>9 DEF Balanced
<1>10. ASSUME NEW k \in BudgetKeys, budget[k] # NoBudget \/ k = q PROVE budget'[k] # NoBudget
  BY <1>2, <1>5, <1>10
<1>11. ASSUME NEW g \in Publishers PROVE RowOpen(dpJobs[g])'
  <2>1. RowOpen(dpJobs[g])
    BY DEF CohortInv
  <2>2. CASE g = h
    BY <1>1, <1>10, <2>2 DEF RowOpen
  <2>3. CASE g # h
    <3>1. dpJobs'[g] = dpJobs[g]
      BY <1>1, <2>3
    <3> QED BY <1>10, <2>1, <3>1 DEF RowOpen
  <2> QED BY <2>2, <2>3
<1>12. ReleasesNeedKTenants'
  BY DEF CohortInv, ReleasesNeedKTenants
<1> QED BY <1>7, <1>9, <1>11, <1>12 DEF CohortInv

LEMMA EnsureCohort ==
  ASSUME CohortInv, NEW h \in Publishers, EnsureCycle(h)
  PROVE  CohortInv'
<1> DEFINE c == dpJobs[h]
           caps == EffectiveCaps(c.def)
           q == RowKey(c)
           j == [c EXCEPT !.op = "ask"]
           row == [spent |-> Nothing, caps |-> caps]
<1>0. CohortTypeOK /\ cohCache \in CohortUploads \cup {NoCohort} /\ cohTable \in CohortUploads \cup {NoCohort}
  BY DEF CohortInv, CohortTypeOK
<1>1. /\ DpDoing(h, "ensure") /\ c.todo # {}
      /\ \/ /\ budget' = IF budget[q] = NoBudget THEN [budget EXCEPT ![q] = row] ELSE budget
            /\ peak' = IF budget[q] = NoBudget THEN [peak EXCEPT ![q] = Higher(@, caps)] ELSE peak
            /\ DpStep(h, j)
         \/ DpStep(h, DpIdle) /\ UNCHANGED <<budget, peak>>
      /\ UNCHANGED <<stats, cohTable, cohCache, released, views>>
  BY DEF EnsureCycle
<1>2. PubJob(c) /\ GoodJob(c)
  BY <1>1, CohortJobs
<1>3. caps \in Charges
  BY <1>2, UploadFields DEF PubJob
<1>4. PubJob(j) /\ j.op = "ask" /\ RowKey(j) = q /\ \A k \in BudgetKeys : Unreleased(j, k) = Unreleased(c, k)
  <2> HIDE DEF c
  <2> QED BY <1>1, <1>2, OpJob DEF q
<1>5. \A k \in BudgetKeys : AtMost(Unreleased(j, k), Unreleased(c, k))
  <2>1. \A k \in BudgetKeys : Unreleased(c, k).eps \in Nat /\ Unreleased(c, k).delta \in Nat
    BY <1>2, UnreleasedType
  <2> QED BY <1>4, <2>1 DEF AtMost
<1>6. GoodJob(j)
  BY <1>4 DEF GoodJob
<1>7. CASE DpStep(h, DpIdle) /\ UNCHANGED <<budget, peak>>
  <2>1. GoodJob(DpIdle) /\ DpIdle.op = "idle"
    BY DEF GoodJob, DpIdle
  <2> QED BY <1>0, <1>1, <1>7, <2>1, QuietEnd
<1>8. CASE DpStep(h, j) /\ budget[q] = NoBudget /\ budget' = [budget EXCEPT ![q] = row]
           /\ peak' = [peak EXCEPT ![q] = Higher(@, caps)]
  <2>1. q \in BudgetKeys => row = [spent |-> SpentOf(q), caps |-> caps]
    BY <1>8 DEF SpentOf
  <2> HIDE DEF c, caps, q, j, row
  <2> QED BY <1>1, <1>3, <1>4, <1>5, <1>6, <1>8, <2>1, RecapRow DEF c
<1>9. CASE DpStep(h, j) /\ budget[q] # NoBudget /\ budget' = budget /\ peak' = peak
  <2>1. RowOpen(j)
    BY <1>4, <1>9 DEF RowOpen
  <2> HIDE DEF caps, q, j, row
  <2> QED BY <1>0, <1>1, <1>5, <1>6, <1>9, <2>1, QuietJob
<1> QED BY <1>1, <1>7, <1>8, <1>9

LEMMA RotateCohort ==
  ASSUME CohortInv, NEW h \in Publishers, RotateCycle(h)
  PROVE  CohortInv'
<1> DEFINE c == dpJobs[h]
           caps == Charge(c.to.cap, c.to.capD)
           q == <<Current(c), c.to.cycle>>
           j == [c EXCEPT !.todo = @ \ {Current(c)}]
           row == Rotated(budget[q], caps)
<1>0. CohortTypeOK /\ cohCache \in CohortUploads \cup {NoCohort} /\ cohTable \in CohortUploads \cup {NoCohort}
  BY DEF CohortInv, CohortTypeOK
<1>1. /\ DpDoing(h, "rotate")
      /\ \/ /\ budget' = [budget EXCEPT ![q] = row]
            /\ peak' = [peak EXCEPT ![q] = Higher(@, caps)]
            /\ DpStep(h, j)
         \/ DpStep(h, DpIdle) /\ UNCHANGED <<budget, peak>>
      /\ UNCHANGED <<stats, cohTable, cohCache, released, views>>
  BY DEF RotateCycle
<1>2. c = [op |-> "rotate", to |-> c.to, todo |-> c.todo] /\ c.to \in Rotations /\ GoodJob(c)
  BY <1>1, CohortJobs
<1>3. caps \in Charges
  <2>1. c.to.cap \in Nat /\ c.to.capD \in Nat
    BY <1>2, CohortAssumption
  <2> QED BY <2>1 DEF Charge, Charges
<1>4. j = [op |-> "rotate", to |-> c.to, todo |-> c.todo \ {Current(c)}]
  BY <1>2
<1>5. GoodJob(j) /\ j.op = "rotate"
  BY <1>2, <1>4 DEF GoodJob
<1>6. CASE DpStep(h, DpIdle) /\ UNCHANGED <<budget, peak>>
  <2>1. GoodJob(DpIdle) /\ DpIdle.op = "idle"
    BY DEF GoodJob, DpIdle
  <2> QED BY <1>0, <1>1, <1>6, <2>1, QuietEnd
<1>7. CASE DpStep(h, j) /\ budget' = [budget EXCEPT ![q] = row]
           /\ peak' = [peak EXCEPT ![q] = Higher(@, caps)]
  <2>1. q \in BudgetKeys => row = [spent |-> SpentOf(q), caps |-> caps]
    <3>1. q \in BudgetKeys /\ budget[q] # NoBudget => budget[q] \in Rows
      BY <1>0, RowFields
    <3> HIDE DEF q, caps
    <3>2. CASE budget[q] = NoBudget
      BY <3>2 DEF Rotated, SpentOf
    <3>3. CASE budget[q] # NoBudget
      BY <3>1, <3>3 DEF Rotated, SpentOf, Rows
    <3> QED BY <3>2, <3>3
  <2>2. ASSUME NEW k \in BudgetKeys PROVE AtMost(Unreleased(j, k), Unreleased(c, k))
    <3>1. Unreleased(j, k) = Nothing
      BY <1>5 DEF Unreleased
    <3>2. Unreleased(c, k).eps \in Nat /\ Unreleased(c, k).delta \in Nat
      BY <1>2, UnreleasedType
    <3> QED BY <3>1, <3>2 DEF AtMost, Nothing, Charge
  <2> HIDE DEF c, caps, q, j, row
  <2> QED BY <1>1, <1>3, <1>5, <1>7, <2>1, <2>2, RecapRow DEF c
<1> QED BY <1>1, <1>6, <1>7

\* The charge: what the row has spent and what the request owes grow alike.
LEMMA RecordCohort ==
  ASSUME CohortInv, NEW h \in Publishers, RecordPublication(h)
  PROVE  CohortInv'
<1> DEFINE c == dpJobs[h]
           q == RowKey(c)
           x == Asked(c.def)
           j == Skip(c, c.out \cup {Current(c)})
<1>0. CohortTypeOK /\ cohCache \in CohortUploads \cup {NoCohort} /\ cohTable \in CohortUploads \cup {NoCohort}
  BY DEF CohortInv, CohortTypeOK
<1>1. /\ DpDoing(h, "charge")
      /\ \/ Fits(budget[q], x) /\ budget' = [budget EXCEPT ![q].spent = Plus(@, x)] /\ DpStep(h, j)
         \/ DpStep(h, DpIdle) /\ UNCHANGED budget
      /\ UNCHANGED <<stats, cohTable, cohCache, peak, released, views>>
  BY DEF RecordPublication, Chargeable
<1>2. CASE DpStep(h, DpIdle) /\ UNCHANGED budget
  <2>1. GoodJob(DpIdle) /\ DpIdle.op = "idle"
    BY DEF GoodJob, DpIdle
  <2> QED BY <1>0, <1>1, <1>2, <2>1, QuietEnd
<1>3. CASE Fits(budget[q], x) /\ budget' = [budget EXCEPT ![q].spent = Plus(@, x)] /\ DpStep(h, j)
  <2>1. PubJob(c) /\ GoodJob(c) /\ RowOpen(c) /\ c.op = "charge" /\ c.todo # {}
    BY <1>1, CohortJobs DEF PubJob, DpDoing
  <2>2. x \in Charges /\ x.eps \in Nat /\ x.delta \in Nat
    BY <2>1, UploadFields DEF PubJob, Charges
  <2>3. Current(c) \in c.todo /\ c.todo \subseteq StatMetrics /\ c.todo \cap c.out = {}
    BY <2>1, CurrentIn DEF PubJob
  <2>4. PubJob(j) /\ j.op = "ensure" /\ j.out = c.out \cup {Current(c)} /\ j.cycle = c.cycle /\ j.def = c.def
    <3> HIDE DEF c
    <3> QED BY <2>1, SkipJob
  <2>5. GoodJob(j) /\ RowOpen(j)
    BY <2>4 DEF GoodJob, RowOpen
  <2>6. q = <<Current(c), c.cycle>>
    BY DEF RowKey
  <2> HIDE DEF j
  <2>7. /\ dpJobs' = [g \in Publishers |-> dpJobs'[g]]
        /\ dpJobs'[h] = j
        /\ \A g \in Publishers \ {h} : dpJobs'[g] = dpJobs[g]
        /\ \A g \in Publishers : GoodJob(dpJobs'[g])
    BY <1>0, <1>3, <2>5, OneJob
  <2>8. ASSUME NEW k \in BudgetKeys, k # q PROVE Unreleased(j, k) = Unreleased(c, k)
    <3>1. k = <<k[1], k[2]>>
      BY DEF BudgetKeys
    <3>2. k[1] # Current(c) \/ k[2] # c.cycle
      BY <2>6, <2>8, <3>1
    <3> QED BY <2>1, <2>4, <3>2 DEF Unreleased
  <2>9. Unreleased(c, q) = Nothing /\ Unreleased(j, q) = x
    <3>1. q[1] = Current(c) /\ q[2] = c.cycle
      BY <2>6
    <3> HIDE DEF q, c
    <3>2. Unreleased(c, q) = Nothing
      BY <2>3, <3>1 DEF Unreleased
    <3>3. Unreleased(j, q) = x
      BY <2>4, <3>1 DEF Unreleased
    <3> QED BY <3>2, <3>3
  <2>10. q \in BudgetKeys => budget[q] # NoBudget /\ budget[q] \in Rows
    BY <1>0, <2>1, RowFields DEF RowOpen
  <2> DEFINE row == [spent |-> Plus(budget[q].spent, x), caps |-> budget[q].caps]
  <2>11. q \in BudgetKeys => row \in Rows /\ row # NoBudget /\ row.spent = Plus(budget[q].spent, x)
                             /\ row.caps = budget[q].caps
    <3> SUFFICES ASSUME q \in BudgetKeys PROVE row \in Rows
      BY NoBudgetRow
    <3>1. /\ budget[q].spent.eps \in Nat /\ budget[q].spent.delta \in Nat /\ budget[q].caps \in Charges
      BY <2>10 DEF Rows, Charges
    <3>2. Plus(budget[q].spent, x) \in Charges
      BY <2>2, <3>1 DEF Plus, Charge, Charges
    <3> QED BY <3>1, <3>2 DEF Rows
  <2>12. budget \in [BudgetKeys -> Rows \cup {NoBudget}]
    BY <1>0 DEF CohortTypeOK
  <2>13. /\ DOMAIN budget' = BudgetKeys
         /\ \A k \in BudgetKeys \ {q} : budget'[k] = budget[k]
         /\ q \in BudgetKeys => budget'[q] = row
    <3> HIDE DEF q, x, c
    <3>1. DOMAIN budget' = BudgetKeys /\ \A k \in BudgetKeys \ {q} : budget'[k] = budget[k]
      BY <1>3, <2>12
    <3>2. q \in BudgetKeys => budget'[q] = [budget[q] EXCEPT !.spent = Plus(@, x)]
      BY <1>3, <2>12
    <3>3. ASSUME q \in BudgetKeys PROVE [budget[q] EXCEPT !.spent = Plus(@, x)] = row
      <4>1. budget[q] \in Rows
        BY <2>10, <3>3
      <4> QED BY <4>1 DEF Rows
    <3> QED BY <3>1, <3>2, <3>3
  <2> HIDE DEF row, q, x
  <2>14. budget' \in [BudgetKeys -> Rows \cup {NoBudget}]
    <3>1. budget' = [k \in BudgetKeys |-> budget'[k]]
      BY <1>3, <2>12, <2>13
    <3>2. \A k \in BudgetKeys : budget'[k] \in Rows \cup {NoBudget}
      BY <2>11, <2>12, <2>13
    <3> QED BY <3>1, <3>2
  <2>15. CohortTypeOK'
    BY <1>0, <1>1, <2>7, <2>14 DEF CohortTypeOK
  <2>16. ASSUME NEW k \in BudgetKeys PROVE Balanced(k)'
    <3>1. /\ OwedEps(k) \in Nat /\ OwedDelta(k) \in Nat /\ OwedEps(k)' \in Nat /\ OwedDelta(k)' \in Nat
          /\ OwedEps(k)' = OwedEps(k) - Unreleased(c, k).eps + Unreleased(j, k).eps
          /\ OwedDelta(k)' = OwedDelta(k) - Unreleased(c, k).delta + Unreleased(j, k).delta
      BY <1>0, <2>7, OwedChange
    <3>2. Balanced(k)
      BY DEF CohortInv
    <3>3. /\ SpentOf(k).eps \in Nat /\ SpentOf(k).delta \in Nat
          /\ CapsOf(k).eps \in Nat /\ CapsOf(k).delta \in Nat
          /\ peak[k].eps \in Nat /\ peak[k].delta \in Nat
          /\ released[k].eps \in Nat /\ released[k].delta \in Nat
      BY <1>0, RowFields
    <3>4. released'[k] = released[k] /\ peak'[k] = peak[k]
      BY <1>1
    <3>5. CASE k = q
      <4>1. SpentOf(k) = budget[q].spent /\ CapsOf(k) = budget[q].caps
        BY <2>10, <3>5 DEF SpentOf, CapsOf
      <4>2. SpentOf(k)' = Plus(budget[q].spent, x) /\ CapsOf(k)' = budget[q].caps
        BY <2>11, <2>13, <3>5 DEF SpentOf, CapsOf
      <4>3. SpentOf(k)'.eps = SpentOf(k).eps + x.eps /\ SpentOf(k)'.delta = SpentOf(k).delta + x.delta
        BY <4>1, <4>2 DEF Plus, Charge
      <4>4. AtMost(SpentOf(k)', CapsOf(k))
        BY <1>3, <4>1, <4>2 DEF Fits
      <4>5. Unreleased(c, k).eps = 0 /\ Unreleased(c, k).delta = 0 /\ Unreleased(j, k) = x
        BY <2>9, <3>5 DEF Nothing, Charge
      <4>6. OwedEps(k)' = OwedEps(k) + x.eps /\ OwedDelta(k)' = OwedDelta(k) + x.delta
        BY <2>2, <3>1, <4>5
      <4>7. released[k].eps + OwedEps(k)' <= SpentOf(k)'.eps /\ released[k].delta + OwedDelta(k)' <= SpentOf(k)'.delta
        BY <2>2, <3>1, <3>2, <3>3, <4>3, <4>6 DEF Balanced
      <4>8. AtMost(SpentOf(k)', peak[k])
        BY <2>2, <3>2, <3>3, <4>3, <4>4 DEF Balanced, AtMost
      <4>9. AtMost(CapsOf(k)', peak[k])
        BY <3>2, <4>1, <4>2 DEF Balanced
      <4> QED BY <3>4, <4>7, <4>8, <4>9 DEF Balanced
    <3>6. CASE k # q
      <4>1. SpentOf(k)' = SpentOf(k) /\ CapsOf(k)' = CapsOf(k)
        BY <2>13, <3>6 DEF SpentOf, CapsOf
      <4>2. Unreleased(j, k) = Unreleased(c, k) /\ Unreleased(c, k).eps \in Nat /\ Unreleased(c, k).delta \in Nat
        BY <2>1, <2>8, <3>6, UnreleasedType
      <4>3. OwedEps(k)' = OwedEps(k) /\ OwedDelta(k)' = OwedDelta(k)
        BY <3>1, <4>2
      <4> QED BY <3>2, <3>4, <4>1, <4>3 DEF Balanced
    <3> QED BY <3>5, <3>6
  <2>17. ASSUME NEW g \in Publishers PROVE RowOpen(dpJobs[g])'
    <3>1. RowOpen(dpJobs[g])
      BY DEF CohortInv
    <3>2. \A k \in BudgetKeys : budget[k] # NoBudget => budget'[k] # NoBudget
      BY <2>11, <2>13
    <3>3. CASE g = h
      BY <2>4, <2>7, <3>3 DEF RowOpen
    <3>4. CASE g # h
      <4>1. dpJobs'[g] = dpJobs[g]
        BY <2>7, <3>4
      <4> QED BY <3>1, <3>2, <4>1 DEF RowOpen
    <3> QED BY <3>3, <3>4
  <2>18. ReleasesNeedKTenants'
    BY <1>1 DEF CohortInv, ReleasesNeedKTenants
  <2> QED BY <2>15, <2>16, <2>17, <2>18 DEF CohortInv
<1> QED BY <1>1, <1>2, <1>3

\* The answer: what the request owed is released.
LEMMA ReleaseCohort ==
  ASSUME CohortInv, NEW h \in Publishers, Release(h)
  PROVE  CohortInv'
<1> DEFINE c == dpJobs[h]
           x == Asked(c.def)
<1>0. CohortTypeOK
  BY DEF CohortInv
<1>1. /\ DpDoing(h, "ensure") /\ DpStep(h, DpIdle)
      /\ released' = [k \in BudgetKeys |-> IF k[2] = c.cycle /\ k[1] \in c.out
                                             THEN Plus(released[k], x) ELSE released[k]]
      /\ views' = views \cup {[k |-> c.def.k, from |-> c.by[m]] : m \in c.out}
      /\ UNCHANGED <<stats, cohTable, cohCache, budget, peak>>
  BY DEF Release
<1>2. PubJob(c) /\ GoodJob(c) /\ c.op = "ensure"
  BY <1>1, CohortJobs DEF DpDoing
<1>3. x.eps \in Nat /\ x.delta \in Nat
  BY <1>2, UploadFields DEF PubJob
<1>4. /\ dpJobs' = [g \in Publishers |-> dpJobs'[g]]
      /\ dpJobs'[h] = DpIdle
      /\ \A g \in Publishers \ {h} : dpJobs'[g] = dpJobs[g]
      /\ \A g \in Publishers : GoodJob(dpJobs'[g])
  <2>1. GoodJob(DpIdle)
    BY DEF GoodJob
  <2> QED BY <1>0, <1>1, <2>1, OneJob
<1>5. ASSUME NEW k \in BudgetKeys
      PROVE  /\ released'[k].eps = released[k].eps + Unreleased(c, k).eps
             /\ released'[k].delta = released[k].delta + Unreleased(c, k).delta
             /\ released'[k] \in Charges
  <2>1. released[k] \in Charges /\ released[k].eps \in Nat /\ released[k].delta \in Nat
    BY <1>0, RowFields
  <2>2. CASE k[2] = c.cycle /\ k[1] \in c.out
    <3>1. Unreleased(c, k) = x
      BY <1>2, <2>2 DEF Unreleased
    <3>2. released'[k] = Plus(released[k], x)
      BY <1>1, <2>2
    <3> HIDE DEF c, x
    <3> QED BY <1>3, <2>1, <3>1, <3>2 DEF Plus, Charge, Charges
  <2>3. CASE ~(k[2] = c.cycle /\ k[1] \in c.out)
    <3>1. Unreleased(c, k) = Nothing
      BY <2>3 DEF Unreleased
    <3>2. released'[k] = released[k]
      BY <1>1, <2>3
    <3> QED BY <2>1, <3>1, <3>2 DEF Nothing, Charge
  <2> QED BY <2>2, <2>3
<1>6. CohortTypeOK'
  <2>1. released' \in [BudgetKeys -> Charges]
    BY <1>1, <1>5
  <2> QED BY <1>0, <1>1, <1>4, <2>1 DEF CohortTypeOK
<1>7. ASSUME NEW k \in BudgetKeys PROVE Balanced(k)'
  <2>1. /\ OwedEps(k) \in Nat /\ OwedDelta(k) \in Nat /\ OwedEps(k)' \in Nat /\ OwedDelta(k)' \in Nat
        /\ OwedEps(k)' = OwedEps(k) - Unreleased(c, k).eps + Unreleased(DpIdle, k).eps
        /\ OwedDelta(k)' = OwedDelta(k) - Unreleased(c, k).delta + Unreleased(DpIdle, k).delta
    BY <1>0, <1>4, OwedChange
  <2>2. Unreleased(DpIdle, k).eps = 0 /\ Unreleased(DpIdle, k).delta = 0
    BY DEF Unreleased, DpIdle, Nothing, Charge
  <2>3. Unreleased(c, k).eps \in Nat /\ Unreleased(c, k).delta \in Nat
    BY <1>2, UnreleasedType
  <2>4. Balanced(k)
    BY DEF CohortInv
  <2>5. released[k].eps \in Nat /\ released[k].delta \in Nat
    BY <1>0, RowFields
  <2>6. SpentOf(k)' = SpentOf(k) /\ CapsOf(k)' = CapsOf(k) /\ peak'[k] = peak[k]
    BY <1>1 DEF SpentOf, CapsOf
  <2>7. released'[k].eps + OwedEps(k)' = released[k].eps + OwedEps(k)
        /\ released'[k].delta + OwedDelta(k)' = released[k].delta + OwedDelta(k)
    BY <1>5, <2>1, <2>2, <2>3, <2>5
  <2> QED BY <2>4, <2>6, <2>7 DEF Balanced
<1>8. ASSUME NEW g \in Publishers PROVE RowOpen(dpJobs[g])'
  <2>1. RowOpen(dpJobs[g])
    BY DEF CohortInv
  <2>2. CASE g = h
    BY <1>4, <2>2 DEF RowOpen, DpIdle
  <2>3. CASE g # h
    <3>1. dpJobs'[g] = dpJobs[g]
      BY <1>4, <2>3
    <3> QED BY <1>1, <2>1, <3>1 DEF RowOpen
  <2> QED BY <2>2, <2>3
<1>9. ReleasesNeedKTenants'
  <2>1. \A m \in c.out : Cardinality(c.by[m]) >= c.def.k
    BY <1>2 DEF PubJob
  <2>2. \A v \in views : Cardinality(v.from) >= v.k
    BY DEF CohortInv, ReleasesNeedKTenants
  <2>3. ASSUME NEW v \in views' PROVE Cardinality(v.from) >= v.k
    <3>1. CASE v \in views
      BY <2>2, <3>1
    <3>2. CASE v \notin views
      <4>1. PICK m \in c.out : v = [k |-> c.def.k, from |-> c.by[m]]
        BY <1>1, <3>2
      <4>2. v.k = c.def.k /\ v.from = c.by[m]
        BY <4>1
      <4> QED BY <2>1, <4>2
    <3> QED BY <3>1, <3>2
  <2> QED BY <2>3 DEF ReleasesNeedKTenants
<1> QED BY <1>6, <1>7, <1>8, <1>9 DEF CohortInv

LEMMA NextCohort == CohortInv /\ [CohortNext]_cohortVars => CohortInv'
<1> SUFFICES ASSUME CohortInv, [CohortNext]_cohortVars PROVE CohortInv'
  OBVIOUS
<1>0. CohortTypeOK /\ cohCache \in CohortUploads \cup {NoCohort} /\ cohTable \in CohortUploads \cup {NoCohort}
  BY DEF CohortInv, CohortTypeOK
<1>1. ASSUME NEW h \in Publishers, CohortRequest(h) PROVE CohortInv'
  BY <1>1, QuietCohort, EnsureCohort, RecordCohort, ReleaseCohort, RotateCohort DEF CohortRequest
<1>2. ASSUME IsFiniteSet(stats'), UNCHANGED <<cohTable, budget, peak, released, views>>,
             cohCache' \in CohortUploads \cup {NoCohort},
             dpJobs' = dpJobs \/ dpJobs' = [h \in Publishers |-> DpIdle]
      PROVE  CohortInv'
  <2>1. CohortTypeOK'
    BY <1>0, <1>2 DEF CohortTypeOK, GoodJob
  <2>2. ASSUME NEW h \in Publishers, NEW k \in BudgetKeys
        PROVE  AtMost(Unreleased(dpJobs'[h], k), Unreleased(dpJobs[h], k))
    <3>1. Unreleased(dpJobs[h], k).eps \in Nat /\ Unreleased(dpJobs[h], k).delta \in Nat
      BY <1>0, UnreleasedType DEF CohortTypeOK
    <3>2. Unreleased(DpIdle, k) = Nothing
      BY DEF Unreleased, DpIdle
    <3>3. dpJobs'[h] = dpJobs[h] \/ dpJobs'[h] = DpIdle
      BY <1>2
    <3> QED BY <3>1, <3>2, <3>3 DEF AtMost, Nothing, Charge
  <2>3. \A k \in BudgetKeys : Balanced(k)'
    BY <1>2, <2>1, <2>2, LedgerAlone
  <2>4. \A h \in Publishers : RowOpen(dpJobs[h])'
    BY <1>2 DEF CohortInv, RowOpen, DpIdle
  <2> QED BY <1>2, <2>1, <2>3, <2>4 DEF CohortInv, ReleasesNeedKTenants
<1>3. IsFiniteSet(stats)
  BY <1>0 DEF CohortTypeOK
<1>4. ASSUME NEW s \in Submissions, SubmitStats(s) PROVE CohortInv'
  <2>1. IsFiniteSet(stats')
    BY <1>3, <1>4, FS_AddElement DEF SubmitStats
  <2> QED BY <1>0, <1>2, <1>4, <2>1 DEF SubmitStats
<1>5. CASE RestartCohorts
  BY <1>0, <1>2, <1>3, <1>5 DEF RestartCohorts
<1>6. CASE CohortTick
  BY <1>0, <1>2, <1>3, <1>6 DEF CohortTick
<1>7. CASE UNCHANGED cohortVars
  BY <1>0, <1>2, <1>3, <1>7 DEF cohortVars
<1> QED BY <1>1, <1>4, <1>5, <1>6, <1>7 DEF CohortNext

\* Publications of a cohort in any number, overlapping, refused half-way, cut
\* off by a restart, with the cycle rotated under them: what record_publication
\* admits keeps the releases of every (metric, cycle) within the charges of its
\* row, the charges within the highest caps the row has had, and the gate of
\* list_for_cohort lets no metric of fewer than k tenants out.
THEOREM ReleasesPrivate == CohortSpec => []ReleasesArePrivate
<1>1. CohortInv => ReleasesArePrivate
  <2> SUFFICES ASSUME CohortInv PROVE ReleasesStayWithinBudget
    BY DEF ReleasesArePrivate, CohortInv
  <2>1. ASSUME NEW k \in BudgetKeys, budget[k] # NoBudget
        PROVE  AtMost(released[k], budget[k].spent) /\ AtMost(budget[k].spent, peak[k])
    <3>1. Balanced(k) /\ CohortTypeOK
      BY DEF CohortInv
    <3>2. OwedEps(k) \in Nat /\ OwedDelta(k) \in Nat
      <4> DEFINE f == [h \in Publishers |-> Unreleased(dpJobs[h], k).eps]
                 u == [h \in Publishers |-> Unreleased(dpJobs[h], k).delta]
      <4>1. \A h \in Publishers : f[h] \in Nat
        BY <3>1, UnreleasedType DEF CohortTypeOK
      <4>2. \A h \in Publishers : u[h] \in Nat
        BY <3>1, UnreleasedType DEF CohortTypeOK
      <4>3. OwedEps(k) = SumFunctionOnSet(f, Publishers) /\ OwedDelta(k) = SumFunctionOnSet(u, Publishers)
        BY DEF OwedEps, OwedDelta
      <4>4. IsFiniteSet(Publishers)
        BY CohortAssumption
      <4> HIDE DEF f, u
      <4> QED BY <4>1, <4>2, <4>3, <4>4, SumNat
    <3>3. /\ SpentOf(k).eps \in Nat /\ SpentOf(k).delta \in Nat
          /\ released[k].eps \in Nat /\ released[k].delta \in Nat
      BY <3>1, RowFields
    <3>4. SpentOf(k) = budget[k].spent
      BY <2>1 DEF SpentOf
    <3> QED BY <3>1, <3>2, <3>3, <3>4 DEF Balanced, AtMost
  <2> QED BY <2>1 DEF ReleasesStayWithinBudget
<1> QED BY <1>1, InitCohort, NextCohort, PTL DEF CohortSpec
=============================================================================
