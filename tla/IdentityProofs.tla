--------------------------- MODULE IdentityProofs ---------------------------
(***************************************************************************)
(* Proofs about one-use call tokens (AgentCalls), consents (Consents),     *)
(* which implement ConsentPromise, the registry of agents (AgentRegistry)  *)
(* and user accounts (UserAccounts).                                       *)
(***************************************************************************)
EXTENDS Consents, AgentRegistry, UserAccounts, FiniteSetTheorems, TLAPS

----------------------------------------------------------------------------
(* Calls with an A-JWT.                                                    *)

CallStages == {"arrived", "vetted", "popRead", "popTaken", "decided", "recorded", "spent", "done"}
Ongoing == [stage: CallStages, kind: Kinds, ajwt: Ajwts, pop: Pops, order: Orders, at: Nat,
            spentAt: Nat, revoked: BOOLEAN]
Payment == [call: CallIds, jti: {t.jti : t \in Ajwts}, exp: Nat, settled: {0, 1}]

CallTypeOK ==
  /\ now \in Nat /\ now <= LastTime
  /\ call \in [CallIds -> Ongoing \cup {Fresh, Lost}]
  /\ payments \subseteq Payment

\* A call that got past the agent's row found the agent in force; one that is
\* past validate_agent_action has a receipt; the row of a jti that was spent is
\* there for as long as its token is valid.
CallOk(c) ==
  LET s == call[c] IN
    s \in Ongoing =>
      /\ s.ajwt.agent \in live => ~s.revoked
      /\ s.stage # "arrived" => ~s.revoked
      /\ s.stage = "recorded" \/ (s.stage = "spent" /\ s.kind = "payment") => c \in receipts
      /\ s.spentAt <= LastTime /\ s.ajwt.exp >= now =>
           [jti |-> s.ajwt.jti, exp |-> s.ajwt.exp] \in usedJtis

\* Of two calls that spent one jti, one did so after the token had expired.
SpentApart(c, d) ==
  /\ c # d /\ call[c] \in Ongoing /\ call[d] \in Ongoing
  /\ call[c].spentAt <= LastTime /\ call[d].spentAt <= LastTime
  /\ call[c].ajwt.jti = call[d].ajwt.jti
  => call[c].spentAt > call[c].ajwt.exp \/ call[d].spentAt > call[d].ajwt.exp

PaymentOk(p) ==
  /\ p.call \in receipts
  /\ call[p.call] \in Ongoing /\ call[p.call].stage = "done" /\ ~call[p.call].revoked
  /\ \A q \in payments : p.jti = q.jti => p = q

CallInv ==
  /\ CallTypeOK
  /\ \A c \in CallIds : CallOk(c)
  /\ \A c, d \in CallIds : SpentApart(c, d)
  /\ \A p \in payments : PaymentOk(p)

\* A call in progress is neither fresh nor lost.
LEMMA OngoingCall ==
  ASSUME CallTypeOK, NEW c \in CallIds
  PROVE  /\ call[c].stage \in CallStages <=> call[c] \in Ongoing
         /\ call[c] \notin {Fresh, Lost} <=> call[c] \in Ongoing
         /\ call[c].stage = "idle" => call[c] = Fresh
BY DEF CallTypeOK, Ongoing, CallStages, Fresh, Lost

\* What moving to a stage does to the call.
LEMMA GotoFacts ==
  ASSUME CallTypeOK, NEW c \in CallIds, call[c] \in Ongoing,
         NEW s \in CallStages \cup {"failed"}, Goto(c, s)
  PROVE  /\ call' \in [CallIds -> Ongoing \cup {Fresh, Lost}]
         /\ \A d \in CallIds \ {c} : call'[d] = call[d]
         /\ s = "failed" => call'[c] = Lost /\ call'[c] \notin Ongoing
         /\ s # "failed" => /\ call'[c] \in Ongoing /\ call'[c].stage = s
                            /\ call'[c].kind = call[c].kind /\ call'[c].ajwt = call[c].ajwt
                            /\ call'[c].spentAt = call[c].spentAt
                            /\ call'[c].revoked = call[c].revoked
                            /\ call'[c].order = call[c].order
<1>1. call' = [call EXCEPT ![c] = IF s = "failed" THEN Lost ELSE [call[c] EXCEPT !.stage = s]]
  BY DEF Goto
<1>2. Lost \notin Ongoing
  BY DEF Lost, Ongoing, CallStages
<1>3. ASSUME s # "failed"
      PROVE  LET e == [call[c] EXCEPT !.stage = s] IN
             /\ e \in Ongoing /\ e.stage = s /\ e.kind = call[c].kind /\ e.ajwt = call[c].ajwt
             /\ e.spentAt = call[c].spentAt /\ e.revoked = call[c].revoked
             /\ e.order = call[c].order
  BY <1>3 DEF Ongoing
<1> QED BY <1>1, <1>2, <1>3 DEF CallTypeOK

\* A step of one call, or of none, that keeps what the others rely on.
LEMMA CallFrame ==
  ASSUME CallInv, CallTypeOK', NEW c \in CallIds,
         \A d \in CallIds \ {c} : call'[d] = call[d],
         live' \subseteq live, receipts \subseteq receipts', now <= now',
         \A u \in usedJtis : u.exp >= now' => u \in usedJtis',
         CallOk(c)', \A d \in CallIds \ {c} : SpentApart(c, d)',
         \A p \in payments' : PaymentOk(p)'
  PROVE  CallInv'
<1>1. ASSUME NEW d \in CallIds \ {c} PROVE CallOk(d)'
  <2>1. CallOk(d) /\ call'[d] = call[d]
    BY DEF CallInv
  <2>2. ASSUME call[d] \in Ongoing, call[d].spentAt <= LastTime, call[d].ajwt.exp >= now'
        PROVE  [jti |-> call[d].ajwt.jti, exp |-> call[d].ajwt.exp] \in usedJtis'
    <3>1. call[d].ajwt \in Ajwts /\ call[d].ajwt.exp \in Nat
      BY <2>2, CallAssumption DEF Ongoing
    <3>2. call[d].ajwt.exp >= now
      BY <2>2, <3>1 DEF CallInv, CallTypeOK
    <3>3. [jti |-> call[d].ajwt.jti, exp |-> call[d].ajwt.exp] \in usedJtis
      BY <2>1, <2>2, <3>2 DEF CallOk
    <3> QED BY <2>2, <3>3
  <2> QED BY <2>1, <2>2 DEF CallOk
<1>2. ASSUME NEW d \in CallIds, NEW e \in CallIds PROVE SpentApart(d, e)'
  <2>1. CASE d # c /\ e # c
    BY <2>1 DEF CallInv, SpentApart
  <2>2. CASE d = c
    BY <2>2 DEF SpentApart
  <2>3. CASE e = c
    BY <2>3 DEF SpentApart
  <2> QED BY <2>1, <2>2, <2>3
<1> QED BY <1>1, <1>2 DEF CallInv

\* A call moves on, and nothing but receipts is written.
LEMMA GotoKeeps ==
  ASSUME CallInv, NEW c \in CallIds, call[c] \in Ongoing, call[c].stage # "done",
         NEW s \in CallStages \cup {"failed"}, Goto(c, s), s # "arrived",
         UNCHANGED <<now, live, usedJtis, payments>>, receipts \subseteq receipts',
         s # "failed" => ~call[c].revoked,
         s = "recorded" \/ (s = "spent" /\ call[c].kind = "payment") => c \in receipts'
  PROVE  CallInv'
<1>1. /\ call' \in [CallIds -> Ongoing \cup {Fresh, Lost}]
      /\ \A d \in CallIds \ {c} : call'[d] = call[d]
      /\ s = "failed" => call'[c] \notin Ongoing
      /\ s # "failed" => /\ call'[c] \in Ongoing /\ call'[c].stage = s
                         /\ call'[c].kind = call[c].kind /\ call'[c].ajwt = call[c].ajwt
                         /\ call'[c].spentAt = call[c].spentAt
                         /\ call'[c].revoked = call[c].revoked
  BY GotoFacts DEF CallInv
<1>2. CallTypeOK'
  BY <1>1 DEF CallInv, CallTypeOK
<1>3. CallOk(c)'
  <2>1. CallOk(c)
    BY DEF CallInv
  <2> QED BY <1>1, <2>1 DEF CallOk
<1>4. ASSUME NEW d \in CallIds \ {c} PROVE SpentApart(c, d)'
  <2>1. SpentApart(c, d) /\ call'[d] = call[d]
    BY <1>1 DEF CallInv
  <2> QED BY <1>1, <2>1 DEF SpentApart
<1>5. ASSUME NEW p \in payments' PROVE PaymentOk(p)'
  <2>1. p \in payments /\ PaymentOk(p)
    BY DEF CallInv
  <2>2. p.call \in CallIds /\ p.call # c
    BY <2>1 DEF CallInv, CallTypeOK, Payment, PaymentOk
  <2> QED BY <1>1, <2>1, <2>2 DEF PaymentOk
<1> QED BY <1>1, <1>2, <1>3, <1>4, <1>5, CallFrame DEF CallInv, CallTypeOK

\* What is not about calls may change as long as the rows of valid jtis stay.
LEMMA CallsStay ==
  ASSUME CallInv, CallTypeOK', UNCHANGED <<call, receipts>>,
         live' \subseteq live, now <= now',
         \A u \in usedJtis : u.exp >= now' => u \in usedJtis',
         \A p \in payments' : PaymentOk(p)'
  PROVE  CallInv'
<1>1. CASE CallIds = {}
  BY <1>1 DEF CallInv
<1>2. ASSUME NEW c \in CallIds PROVE CallInv'
  <2>1. CallOk(c) /\ \A d \in CallIds : SpentApart(c, d)
    BY DEF CallInv
  <2>2. ASSUME call[c] \in Ongoing, call[c].spentAt <= LastTime, call[c].ajwt.exp >= now'
        PROVE  [jti |-> call[c].ajwt.jti, exp |-> call[c].ajwt.exp] \in usedJtis'
    <3>1. call[c].ajwt \in Ajwts /\ call[c].ajwt.exp \in Nat
      BY <2>2, CallAssumption DEF Ongoing
    <3>2. call[c].ajwt.exp >= now
      BY <2>2, <3>1 DEF CallInv, CallTypeOK
    <3>3. [jti |-> call[c].ajwt.jti, exp |-> call[c].ajwt.exp] \in usedJtis
      BY <2>1, <2>2, <3>2 DEF CallOk
    <3> QED BY <2>2, <3>3
  <2>3. CallOk(c)'
    BY <2>1, <2>2 DEF CallOk
  <2>4. \A d \in CallIds \ {c} : SpentApart(c, d)'
    BY <2>1 DEF SpentApart
  <2> QED BY <2>3, <2>4, CallFrame
<1> QED BY <1>1, <1>2

\* Pruning and inserting keep the rows of tokens that are still valid.
LEMMA PruneKeeps ==
  ASSUME NEW r, usedJtis' = {u \in usedJtis : u.exp >= now} \cup {r}, now' = now
  PROVE  \A u \in usedJtis : u.exp >= now' => u \in usedJtis'
OBVIOUS

\* Nothing has been called initially.
LEMMA InitCall == CallInit => CallInv
<1> SUFFICES ASSUME CallInit PROVE CallInv
  OBVIOUS
<1>1. CallTypeOK
  BY CallAssumption DEF CallInit, CallTypeOK
<1>2. Fresh \notin Ongoing
  BY DEF Fresh, Ongoing, CallStages
<1> QED BY <1>1, <1>2 DEF CallInit, CallInv, CallOk, SpentApart

\* Every step of a call keeps the invariant.
LEMMA NextServe ==
  ASSUME CallInv, NEW c \in CallIds, Serve(c) PROVE CallInv'
<1>t. CallTypeOK /\ CallOk(c)
  BY DEF CallInv
<1>o. call[c].stage \in CallStages => call[c] \in Ongoing
  BY <1>t, OngoingCall
<1>1. ASSUME NEW k \in Kinds, NEW t \in Ajwts, NEW p \in Pops, NEW o \in Orders,
             Arrive(c, k, t, p, o)
      PROVE  CallInv'
  <2> DEFINE new == [stage |-> "arrived", kind |-> k, ajwt |-> t, pop |-> p, order |-> o,
                     at |-> now, spentAt |-> LastTime + 1, revoked |-> t.agent \notin live]
  <2>1. /\ new \in Ongoing /\ new.stage = "arrived" /\ new.ajwt = t
        /\ new.spentAt = LastTime + 1 /\ (new.revoked <=> t.agent \notin live)
    <3>1. now \in Nat /\ LastTime + 1 \in Nat
      BY <1>t, CallAssumption DEF CallTypeOK
    <3>2. (t.agent \notin live) \in BOOLEAN
      OBVIOUS
    <3>3. new \in Ongoing
      BY <3>1, <3>2 DEF Ongoing, CallStages
    <3> QED BY <3>3
  <2>2. /\ call' = [call EXCEPT ![c] = new] /\ call[c] = Fresh
        /\ UNCHANGED <<now, live, usedJtis, pops, receipts, payments>>
    BY <1>1, <1>t, OngoingCall DEF Arrive, AtStage
  <2> HIDE DEF new
  <2>3. call'[c] = new /\ \A d \in CallIds \ {c} : call'[d] = call[d]
    BY <1>t, <2>2 DEF CallTypeOK
  <2>4. CallTypeOK'
    BY <1>t, <2>1, <2>2 DEF CallTypeOK
  <2>5. ~(LastTime + 1 <= LastTime)
    BY CallAssumption
  <2>6. CallOk(c)'
    BY <2>1, <2>2, <2>3, <2>5 DEF CallOk
  <2>7. \A d \in CallIds \ {c} : SpentApart(c, d)'
    BY <2>1, <2>3, <2>5 DEF SpentApart
  <2>8. ASSUME NEW q \in payments' PROVE PaymentOk(q)'
    <3>1. q \in payments /\ PaymentOk(q)
      BY <2>2 DEF CallInv
    <3>2. q.call \in CallIds /\ q.call # c
      BY <2>2, <3>1 DEF CallInv, CallTypeOK, Payment, PaymentOk, Ongoing, Fresh
    <3> QED BY <2>2, <2>3, <3>1, <3>2 DEF PaymentOk
  <2> QED BY <1>t, <2>2, <2>3, <2>4, <2>6, <2>7, <2>8, CallFrame DEF CallTypeOK
<1>2. CASE Vet(c)
  <2>1. /\ call[c].stage = "arrived" /\ call[c] \in Ongoing
        /\ Goto(c, IF RowOk(c) THEN "vetted" ELSE "failed")
        /\ UNCHANGED <<now, live, usedJtis, pops, receipts, payments>>
    BY <1>2, <1>o DEF Vet, AtStage, CallStages
  <2>2. RowOk(c) => ~call[c].revoked
    BY <1>t, <2>1 DEF RowOk, CallOk, AgentOf
  <2> QED BY <2>1, <2>2, GotoKeeps DEF CallStages
<1>3. CASE ReadPop(c)
  <2>1. /\ call[c].stage = "vetted" /\ call[c] \in Ongoing /\ ~call[c].revoked
        /\ Goto(c, "popRead") \/ Goto(c, "failed")
        /\ UNCHANGED <<now, live, usedJtis, receipts, payments>>
    BY <1>3, <1>o, <1>t DEF ReadPop, AtStage, CallStages, CallOk
  <2> QED BY <2>1, GotoKeeps DEF CallStages
<1>4. CASE DeletePop(c)
  <2>1. /\ call[c].stage = "popRead" /\ call[c] \in Ongoing /\ ~call[c].revoked
        /\ Goto(c, "popTaken")
        /\ UNCHANGED <<now, live, usedJtis, receipts, payments>>
    BY <1>4, <1>o, <1>t DEF DeletePop, AtStage, CallStages, CallOk
  <2> QED BY <2>1, GotoKeeps DEF CallStages
<1>5. ASSUME NEW o \in Outcomes, Decide(c, o) PROVE CallInv'
  <2>1. /\ call[c].stage \in {"popTaken", "vetted"} /\ call[c] \in Ongoing /\ ~call[c].revoked
        /\ Goto(c, "decided") \/ Goto(c, "failed")
        /\ UNCHANGED <<now, live, usedJtis, receipts, payments>>
    BY <1>5, <1>o, <1>t DEF Decide, AtStage, CallStages, CallOk
  <2> QED BY <2>1, GotoKeeps DEF CallStages
<1>6. CASE Record(c)
  <2>1. /\ call[c].stage = "decided" /\ call[c] \in Ongoing /\ ~call[c].revoked
        /\ \/ receipts' = receipts \cup {c} /\ Goto(c, "recorded")
           \/ UNCHANGED receipts /\ Goto(c, "failed")
        /\ UNCHANGED <<now, live, usedJtis, pops, payments>>
    BY <1>6, <1>o, <1>t DEF Record, AtStage, CallStages, CallOk
  <2> QED BY <2>1, GotoKeeps DEF CallStages
<1>7. CASE SpendJti(c)
  <2>1. /\ call[c].stage \in {"recorded", "popTaken"} /\ call[c] \in Ongoing /\ ~call[c].revoked
        /\ call[c].kind = "payment" => c \in receipts
        /\ UNCHANGED <<now, live, pops, receipts, payments>>
    BY <1>7, <1>o, <1>t DEF SpendJti, MaySpend, AtStage, CallStages, CallOk
  <2> DEFINE t == call[c].ajwt
             fresh == {u \in usedJtis : u.exp >= now}
             row == [jti |-> t.jti, exp |-> t.exp]
             new == [call[c] EXCEPT !.stage = "spent", !.spentAt = now]
  <2>2. t \in Ajwts /\ t.exp \in Nat
    BY <2>1, CallAssumption DEF Ongoing
  <2>3. CASE Goto(c, "failed") /\ UNCHANGED usedJtis
    BY <2>1, <2>3, GotoKeeps DEF CallStages
  <2>4. CASE /\ ~\E u \in fresh : u.jti = t.jti
             /\ usedJtis' = fresh \cup {row}
             /\ call' = [call EXCEPT ![c] = new]
    <3>1. /\ new \in Ongoing /\ new.stage = "spent" /\ new.spentAt = now /\ new.ajwt = t
          /\ new.kind = call[c].kind /\ new.revoked = call[c].revoked
      BY <1>t, <2>1 DEF Ongoing, CallStages, CallTypeOK
    <3> HIDE DEF new
    <3>2. call'[c] = new /\ \A d \in CallIds \ {c} : call'[d] = call[d]
      BY <1>t, <2>4 DEF CallTypeOK
    <3>3. CallTypeOK'
      BY <1>t, <2>1, <2>4, <3>1 DEF CallTypeOK
    <3>4. CallOk(c)'
      BY <2>1, <2>4, <3>1, <3>2 DEF CallOk
    <3>5. ASSUME NEW d \in CallIds \ {c} PROVE SpentApart(c, d)'
      <4>1. CallOk(d) /\ call'[d] = call[d]
        BY <3>2 DEF CallInv
      <4>2. ASSUME call[d] \in Ongoing, call[d].spentAt <= LastTime, call[d].ajwt.jti = t.jti
            PROVE  now > t.exp
        <5>1. call[d].ajwt = t
          BY <2>2, <4>2, CallAssumption DEF Ongoing
        <5>2. CASE t.exp >= now
          <6>1. row \in usedJtis
            BY <4>1, <4>2, <5>1, <5>2 DEF CallOk
          <6>2. row \in fresh /\ row.jti = t.jti
            BY <5>2, <6>1
          <6> QED BY <2>4, <6>2
        <5> QED BY <1>t, <2>2, <5>2 DEF CallTypeOK
      <4> QED BY <3>1, <3>2, <4>1, <4>2 DEF SpentApart
    <3>6. ASSUME NEW p \in payments' PROVE PaymentOk(p)'
      <4>1. p \in payments /\ PaymentOk(p)
        BY <2>1 DEF CallInv
      <4>2. p.call \in CallIds /\ p.call # c
        BY <2>1, <4>1 DEF CallInv, CallTypeOK, Payment, PaymentOk
      <4> QED BY <2>1, <3>2, <4>1, <4>2 DEF PaymentOk
    <3>7. \A u \in usedJtis : u.exp >= now' => u \in usedJtis'
      BY <2>1, <2>4
    <3> QED BY <1>t, <2>1, <3>2, <3>3, <3>4, <3>5, <3>6, <3>7, CallFrame DEF CallTypeOK
  <2> QED BY <1>7, <2>3, <2>4 DEF SpendJti
<1>8. CASE InsertPayment(c)
  <2>1. /\ call[c].stage = "spent" /\ call[c] \in Ongoing /\ ~call[c].revoked
        /\ call[c].kind = "payment" /\ c \in receipts
        /\ UNCHANGED <<now, live, usedJtis, pops, receipts>>
    BY <1>8, <1>o, <1>t DEF InsertPayment, AtStage, CallStages, CallOk
  <2> DEFINE new == [call |-> c, jti |-> call[c].ajwt.jti, exp |-> PayExpiry(c), settled |-> 0]
  <2>2. CASE Goto(c, "failed") /\ UNCHANGED payments
    BY <2>1, <2>2, GotoKeeps DEF CallStages
  <2>3. CASE /\ ~\E p \in payments : p.jti = call[c].ajwt.jti
             /\ payments' = payments \cup {new} /\ Goto(c, "done")
    <3>1. call[c].ajwt \in Ajwts /\ call[c].ajwt.exp \in Nat /\ call[c].at \in Nat
      BY <2>1, CallAssumption DEF Ongoing
    <3>2. PayExpiry(c) \in Nat
      BY <3>1, CallAssumption DEF PayExpiry
    <3>3. new \in Payment /\ new.call = c /\ new.jti = call[c].ajwt.jti
      BY <3>1, <3>2 DEF Payment
    <3> HIDE DEF new
    <3>4. /\ call' \in [CallIds -> Ongoing \cup {Fresh, Lost}]
          /\ \A d \in CallIds \ {c} : call'[d] = call[d]
          /\ call'[c] \in Ongoing /\ call'[c].stage = "done"
          /\ call'[c].kind = call[c].kind /\ call'[c].ajwt = call[c].ajwt
          /\ call'[c].spentAt = call[c].spentAt /\ call'[c].revoked = call[c].revoked
      BY <1>t, <2>1, <2>3, GotoFacts DEF CallStages
    <3>5. CallTypeOK'
      BY <1>t, <2>1, <2>3, <3>3, <3>4 DEF CallTypeOK
    <3>6. CallOk(c)'
      BY <1>t, <2>1, <3>4 DEF CallOk
    <3>7. ASSUME NEW d \in CallIds \ {c} PROVE SpentApart(c, d)'
      <4>1. SpentApart(c, d) /\ call'[d] = call[d]
        BY <3>4 DEF CallInv
      <4> QED BY <2>1, <3>4, <4>1 DEF SpentApart
    <3>8. ASSUME NEW p \in payments' PROVE PaymentOk(p)'
      <4>1. CASE p = new
        BY <2>1, <2>3, <3>3, <3>4, <4>1 DEF PaymentOk
      <4>2. CASE p \in payments
        <5>1. PaymentOk(p) /\ p.call \in CallIds /\ p.call # c
          BY <2>1, <4>2 DEF CallInv, CallTypeOK, Payment, PaymentOk
        <5> QED BY <2>1, <2>3, <3>3, <3>4, <4>2, <5>1 DEF PaymentOk
      <4> QED BY <2>3, <4>1, <4>2
    <3> QED BY <1>t, <2>1, <3>4, <3>5, <3>6, <3>7, <3>8, CallFrame DEF CallTypeOK
  <2> QED BY <1>8, <2>2, <2>3 DEF InsertPayment
<1>9. CASE Answer(c)
  <2>1. /\ call[c].stage \in {"spent", "popTaken"} /\ call[c] \in Ongoing /\ ~call[c].revoked
        /\ Goto(c, "done")
        /\ UNCHANGED <<now, live, usedJtis, receipts, payments>>
    BY <1>9, <1>o, <1>t DEF Answer, AtStage, CallStages, CallOk
  <2> QED BY <2>1, GotoKeeps DEF CallStages
<1>10. CASE Abandon(c)
  <2>1. /\ call[c].stage # "done" /\ call[c] \in Ongoing /\ Goto(c, "failed")
        /\ UNCHANGED <<now, live, usedJtis, receipts, payments>>
    BY <1>10, <1>t DEF Abandon, CallTypeOK, Fresh, Lost
  <2> QED BY <2>1, GotoKeeps DEF CallStages
<1> QED BY <1>1, <1>2, <1>3, <1>4, <1>5, <1>6, <1>7, <1>8, <1>9, <1>10 DEF Serve

\* So does what happens around the calls.
LEMMA NextAround == ASSUME CallInv, CallEnvironment PROVE CallInv' /\ live' \subseteq live
<1>t. CallTypeOK
  BY DEF CallInv
<1>1. ASSUME NEW a \in CallAgents, NEW i \in Pops, IssuePop(a, i) PROVE CallInv' /\ live' \subseteq live
  BY <1>1 DEF IssuePop, CallInv, CallTypeOK, CallOk, SpentApart, PaymentOk
<1>2. ASSUME NEW p \in payments, Settle(p) PROVE CallInv' /\ live' \subseteq live
  <2> DEFINE new == [p EXCEPT !.settled = 1 + @]
  <2>1. /\ p.settled = 0 /\ payments' = (payments \ {p}) \cup {new}
        /\ UNCHANGED <<now, live, usedJtis, pops, call, receipts>>
    BY <1>2 DEF Settle
  <2>2. new \in Payment /\ new.call = p.call /\ new.jti = p.jti
    BY <1>t, <2>1 DEF CallTypeOK, Payment
  <2> HIDE DEF new
  <2>3. CallTypeOK'
    BY <1>t, <2>1, <2>2 DEF CallTypeOK
  <2>4. ASSUME NEW q \in payments' PROVE PaymentOk(q)'
    <3>1. PaymentOk(p) /\ \A x \in payments : PaymentOk(x)
      BY DEF CallInv
    <3> QED BY <2>1, <2>2, <3>1 DEF PaymentOk
  <2>5. \A u \in usedJtis : u.exp >= now' => u \in usedJtis'
    BY <2>1
  <2> QED BY <1>t, <2>1, <2>3, <2>4, <2>5, CallsStay DEF CallTypeOK
<1>3. ASSUME NEW a \in CallAgents, Revoke(a) PROVE CallInv' /\ live' \subseteq live
  BY <1>3 DEF Revoke, CallInv, CallTypeOK, CallOk, SpentApart, PaymentOk
<1>4. CASE Advance
  <2>1. /\ now' = now + 1 /\ now < LastTime
        /\ UNCHANGED <<live, usedJtis, pops, call, receipts, payments>>
    BY <1>4 DEF Advance
  <2>2. CallTypeOK' /\ now <= now'
    BY <1>t, <2>1, CallAssumption DEF CallTypeOK
  <2>3. \A p \in payments' : PaymentOk(p)'
    BY <2>1 DEF CallInv, PaymentOk
  <2> QED BY <2>1, <2>2, <2>3, CallsStay
<1> QED BY <1>1, <1>2, <1>3, <1>4 DEF CallEnvironment

----------------------------------------------------------------------------
(* Consents and retrievals.                                                *)

RetrStages == {"arrived", "bound", "claimed", "proved", "charged", "trusted", "recorded", "done"}
Claimed == RetrStages \ {"arrived", "bound"}
Charged == {"charged", "trusted", "recorded", "done"}

Subjects == {t.sub : t \in Ajwts}
ConsentRow == [site: Sites, owner: Users \cup {NoOwner} \cup Subjects,
               agent: CallAgents \cup {NoAgent}, granted: BOOLEAN, exp: Nat, used: BOOLEAN,
               revoked: BOOLEAN]
Retrieval == [stage: RetrStages, consent: ConsentIds, site: Sites, ajwt: Ajwts, at: Nat,
              binding: {NoBinding} \cup [agent: CallAgents, sub: Subjects],
              gone: SUBSET CallAgents, withdrawn: BOOLEAN]

ConsentTypeOK ==
  /\ consent \in [ConsentIds -> ConsentRow \cup {Absent}]
  /\ credits \in [Sites -> Nat] /\ charges \in [Sites -> Nat]
  /\ retr \in [Retrievals -> Retrieval \cup {Fresh, Lost}]

\* Nobody owns a row before it is granted.
OwnedOnce(q) == Stored(q) /\ ~consent[q].granted => consent[q].owner = NoOwner

\* What a retrieval has established so far.  A consent's site is fixed when it is
\* opened, its owner and agent when it is granted; a retrieval that has consumed
\* the token is the only one to have done so.
RetrOk(r) ==
  LET p == retr[r]
      w == consent[p.consent] IN
    p \in Retrieval =>
      /\ Stored(p.consent)
      /\ p.withdrawn => w.revoked
      /\ p.gone \cap live = {}
      /\ p.stage # "arrived" =>
           /\ w.granted /\ ~p.withdrawn
           /\ w.agent # NoAgent =>
                p.ajwt.agent = w.agent /\ p.ajwt.sub = w.owner /\ w.agent \notin p.gone
      /\ p.stage \in Claimed =>
           /\ w.used /\ w.site = p.site
           /\ \A v \in Retrievals \ {r} :
                retr[v] \in Retrieval /\ retr[v].stage \in Claimed => retr[v].consent # p.consent

\* A disclosure is what a retrieval that is done has handed out.
Told(d) ==
  /\ d.retr \in Retrievals
  /\ retr[d.retr] \in Retrieval /\ retr[d.retr].stage = "done"
  /\ d = [retr |-> d.retr, consent |-> retr[d.retr].consent, site |-> retr[d.retr].site]

\* A site has paid for every retrieval that got past the charge.
PaidFor(s) == {r \in Retrievals : retr[r] \in Retrieval /\ retr[r].stage \in Charged /\ retr[r].site = s}
Paid(s) == IsFiniteSet(PaidFor(s)) /\ Cardinality(PaidFor(s)) <= charges[s]

RetrInv ==
  /\ ConsentTypeOK
  /\ \A q \in ConsentIds : OwnedOnce(q)
  /\ \A r \in Retrievals : RetrOk(r)
  /\ \A d \in disclosure : Told(d)
  /\ \A s \in Sites : Paid(s)

\* A row is not the absent one.
LEMMA RowIsStored == ASSUME NEW w \in ConsentRow PROVE w # Absent
<1>1. "owner" \in DOMAIN w
  BY DEF ConsentRow
<1>2. "owner" \notin DOMAIN Absent
  BY DEF Absent
<1> QED BY <1>1, <1>2

LEMMA StoredRow ==
  ASSUME ConsentTypeOK, NEW q \in ConsentIds
  PROVE  Stored(q) <=> consent[q] \in ConsentRow
BY RowIsStored DEF ConsentTypeOK, Stored

LEMMA OngoingRetr ==
  ASSUME ConsentTypeOK, NEW r \in Retrievals
  PROVE  /\ retr[r].stage \in RetrStages <=> retr[r] \in Retrieval
         /\ retr[r] \notin {Fresh, Lost} <=> retr[r] \in Retrieval
         /\ Fresh \notin Retrieval /\ Lost \notin Retrieval
BY DEF ConsentTypeOK, Retrieval, RetrStages, Fresh, Lost

\* What moving to a stage does to a retrieval.
LEMMA RetrFacts ==
  ASSUME ConsentTypeOK, NEW r \in Retrievals, retr[r] \in Retrieval,
         NEW s \in RetrStages \cup {"failed"}, GotoRetr(r, s)
  PROVE  /\ retr' \in [Retrievals -> Retrieval \cup {Fresh, Lost}]
         /\ \A v \in Retrievals \ {r} : retr'[v] = retr[v]
         /\ s = "failed" => retr'[r] \notin Retrieval
         /\ s # "failed" => /\ retr'[r] \in Retrieval /\ retr'[r].stage = s
                            /\ retr'[r].consent = retr[r].consent /\ retr'[r].site = retr[r].site
                            /\ retr'[r].ajwt = retr[r].ajwt /\ retr'[r].gone = retr[r].gone
                            /\ retr'[r].withdrawn = retr[r].withdrawn
<1>1. retr' = [retr EXCEPT ![r] = IF s = "failed" THEN Lost ELSE [retr[r] EXCEPT !.stage = s]]
  BY DEF GotoRetr
<1>2. Lost \notin Retrieval
  BY DEF Lost, Retrieval, RetrStages
<1>3. ASSUME s # "failed"
      PROVE  LET e == [retr[r] EXCEPT !.stage = s] IN
             /\ e \in Retrieval /\ e.stage = s /\ e.consent = retr[r].consent
             /\ e.site = retr[r].site /\ e.ajwt = retr[r].ajwt /\ e.gone = retr[r].gone
             /\ e.withdrawn = retr[r].withdrawn
  BY <1>3 DEF Retrieval
<1> QED BY <1>1, <1>2, <1>3 DEF ConsentTypeOK

\* What no step undoes in a row of consent_log.
RowKept(q) ==
  LET w == consent[q]
      v == consent'[q] IN
    Stored(q) =>
      /\ Stored(q)' /\ v.site = w.site
      /\ w.revoked => v.revoked
      /\ w.used => v.used
      /\ w.granted => v.granted /\ v.owner = w.owner /\ v.agent = w.agent

\* A retrieval that does not move keeps what it has established.
LEMMA RetrStays ==
  ASSUME RetrInv, NEW v \in Retrievals, retr'[v] = retr[v], live' \subseteq live,
         \A q \in ConsentIds : RowKept(q),
         retr[v] \in Retrieval /\ retr[v].stage \in Claimed =>
           \A u \in Retrievals \ {v} :
             retr'[u] \in Retrieval /\ retr'[u].stage \in Claimed => retr'[u].consent # retr[v].consent
  PROVE  RetrOk(v)'
<1>1. RetrOk(v)
  BY DEF RetrInv
<1>2. ASSUME retr[v] \in Retrieval PROVE RowKept(retr[v].consent)
  BY <1>2 DEF Retrieval
<1> QED BY <1>1, <1>2 DEF RetrOk, RowKept

\* A step around the retrievals.
LEMMA ConsentFrame ==
  ASSUME RetrInv, ConsentTypeOK', UNCHANGED <<retr, disclosure, charges>>, live' \subseteq live,
         \A q \in ConsentIds : RowKept(q) /\ OwnedOnce(q)'
  PROVE  RetrInv'
<1>1. ASSUME NEW v \in Retrievals PROVE RetrOk(v)'
  <2>1. RetrOk(v)
    BY DEF RetrInv
  <2> QED BY <2>1, RetrStays DEF RetrOk
<1>2. \A d \in disclosure' : Told(d)'
  BY DEF RetrInv, Told
<1>3. \A s \in Sites : Paid(s)'
  BY DEF RetrInv, Paid, PaidFor
<1> QED BY <1>1, <1>2, <1>3 DEF RetrInv

\* A step of one retrieval.
LEMMA RetrFrame ==
  ASSUME RetrInv, ConsentTypeOK', NEW r \in Retrievals,
         \A v \in Retrievals \ {r} : retr'[v] = retr[v],
         live' \subseteq live, \A q \in ConsentIds : RowKept(q) /\ OwnedOnce(q)',
         RetrOk(r)', \A d \in disclosure' : Told(d)', \A s \in Sites : Paid(s)'
  PROVE  RetrInv'
<1>1. ASSUME NEW v \in Retrievals \ {r} PROVE RetrOk(v)'
  <2>1. RetrOk(v) /\ retr'[v] = retr[v]
    BY DEF RetrInv
  <2>2. ASSUME retr[v] \in Retrieval, retr[v].stage \in Claimed, NEW u \in Retrievals \ {v},
               retr'[u] \in Retrieval, retr'[u].stage \in Claimed
        PROVE  retr'[u].consent # retr[v].consent
    <3>1. CASE u = r
      BY <2>1, <2>2, <3>1 DEF RetrOk
    <3>2. CASE u # r
      BY <2>1, <2>2, <3>2 DEF RetrOk
    <3> QED BY <3>1, <3>2
  <2> QED BY <2>1, <2>2, RetrStays
<1> QED BY <1>1 DEF RetrInv

\* Fewer retrievals to pay for.
LEMMA PaidShrinks ==
  ASSUME NEW s \in Sites, Paid(s), PaidFor(s)' \subseteq PaidFor(s), charges'[s] = charges[s],
         charges[s] \in Nat
  PROVE  Paid(s)'
<1>1. IsFiniteSet(PaidFor(s)') /\ Cardinality(PaidFor(s)') <= Cardinality(PaidFor(s))
  BY FS_Subset DEF Paid
<1>2. Cardinality(PaidFor(s)') \in Nat /\ Cardinality(PaidFor(s)) \in Nat
  BY <1>1, FS_CardinalityType DEF Paid
<1> QED BY <1>1, <1>2 DEF Paid

\* A retrieval moves on or fails, without a charge or a disclosure.
LEMMA RetrMoves ==
  ASSUME RetrInv, ConsentTypeOK', NEW r \in Retrievals, retr[r] \in Retrieval,
         retr[r].stage # "done", NEW s \in RetrStages \cup {"failed"}, GotoRetr(r, s),
         s \in Charged => retr[r].stage \in Charged,
         UNCHANGED <<live, charges, disclosure>>,
         \A q \in ConsentIds : RowKept(q) /\ OwnedOnce(q)',
         s # "failed" => RetrOk(r)'
  PROVE  RetrInv'
<1>1. /\ \A v \in Retrievals \ {r} : retr'[v] = retr[v]
      /\ s = "failed" => retr'[r] \notin Retrieval
      /\ s # "failed" => retr'[r].stage = s /\ retr'[r].site = retr[r].site
  BY RetrFacts DEF RetrInv
<1>2. RetrOk(r)'
  BY <1>1 DEF RetrOk
<1>3. ASSUME NEW d \in disclosure' PROVE Told(d)'
  <2>1. d \in disclosure /\ Told(d)
    BY DEF RetrInv
  <2>2. d.retr # r
    BY <2>1 DEF Told
  <2> QED BY <1>1, <2>1, <2>2 DEF Told
<1>4. ASSUME NEW z \in Sites PROVE Paid(z)'
  <2>1. PaidFor(z)' \subseteq PaidFor(z)
    BY <1>1 DEF PaidFor, Charged
  <2> QED BY <2>1, PaidShrinks DEF RetrInv, ConsentTypeOK
<1> QED BY <1>1, <1>2, <1>3, <1>4, RetrFrame

LEMMA SameRows ==
  ASSUME RetrInv, consent' = consent
  PROVE  \A q \in ConsentIds : RowKept(q) /\ OwnedOnce(q)'
BY DEF RetrInv, RowKept, OwnedOnce, Stored

\* A stage that establishes nothing new.
LEMMA StageOk ==
  ASSUME RetrInv, NEW r \in Retrievals, retr[r] \in Retrieval, retr[r].stage # "arrived",
         NEW s \in RetrStages, GotoRetr(r, s), s \in Claimed => retr[r].stage \in Claimed,
         UNCHANGED <<live, consent>>
  PROVE  RetrOk(r)'
<1>1. /\ \A v \in Retrievals \ {r} : retr'[v] = retr[v]
      /\ retr'[r] \in Retrieval /\ retr'[r].stage = s
      /\ retr'[r].consent = retr[r].consent /\ retr'[r].site = retr[r].site
      /\ retr'[r].ajwt = retr[r].ajwt /\ retr'[r].gone = retr[r].gone
      /\ retr'[r].withdrawn = retr[r].withdrawn
  BY RetrFacts DEF RetrInv, RetrStages
<1>2. RetrOk(r)
  BY DEF RetrInv
<1> QED BY <1>1, <1>2 DEF RetrOk, Stored

\* Moving on without writing anything, or failing.
LEMMA PlainMove ==
  ASSUME RetrInv, NEW r \in Retrievals, retr[r] \in Retrieval, retr[r].stage # "done",
         NEW s \in RetrStages \cup {"failed"}, GotoRetr(r, s),
         s # "failed" => retr[r].stage # "arrived",
         s \in Claimed => retr[r].stage \in Claimed,
         s \in Charged => retr[r].stage \in Charged,
         UNCHANGED <<live, consent, credits, charges, disclosure>>
  PROVE  RetrInv'
<1>1. ConsentTypeOK'
  BY RetrFacts DEF RetrInv, ConsentTypeOK
<1>2. s # "failed" => RetrOk(r)'
  BY StageOk
<1> QED BY <1>1, <1>2, SameRows, RetrMoves

\* Claims leave: the retrieval is done and its disclosure recorded.
LEMMA DiscloseKeeps ==
  ASSUME RetrInv, NEW r \in Retrievals, retr[r] \in Retrieval,
         retr[r].stage \in {"trusted", "recorded"}, Disclose(r),
         UNCHANGED <<live, consent, credits, charges>>
  PROVE  RetrInv'
<1> DEFINE new == [retr |-> r, consent |-> retr[r].consent, site |-> retr[r].site]
<1>1. GotoRetr(r, "done") /\ disclosure' = disclosure \cup {new} /\ new.retr = r
  BY DEF Disclose
<1>2. /\ retr' \in [Retrievals -> Retrieval \cup {Fresh, Lost}]
      /\ \A v \in Retrievals \ {r} : retr'[v] = retr[v]
      /\ retr'[r] \in Retrieval /\ retr'[r].stage = "done"
      /\ retr'[r].consent = retr[r].consent /\ retr'[r].site = retr[r].site
  BY <1>1, RetrFacts DEF RetrInv, RetrStages
<1>3. ConsentTypeOK'
  BY <1>2 DEF RetrInv, ConsentTypeOK
<1>4. RetrOk(r)'
  BY <1>1, StageOk DEF RetrStages, Claimed
<1>5. ASSUME NEW d \in disclosure' PROVE Told(d)'
  <2>1. CASE d = new
    BY <1>1, <1>2, <2>1 DEF Told
  <2>2. CASE d \in disclosure
    <3>1. Told(d) /\ d.retr # r
      BY <2>2 DEF RetrInv, Told
    <3> QED BY <1>2, <3>1 DEF Told
  <2> QED BY <1>1, <2>1, <2>2
<1>6. ASSUME NEW z \in Sites PROVE Paid(z)'
  <2>1. PaidFor(z)' \subseteq PaidFor(z)
    BY <1>2 DEF PaidFor, Charged
  <2> QED BY <2>1, PaidShrinks DEF RetrInv, ConsentTypeOK
<1> QED BY <1>2, <1>3, <1>4, <1>5, <1>6, SameRows, RetrFrame

\* Every step of a retrieval keeps the invariant.
LEMMA NextRetrieve ==
  ASSUME CallTypeOK, RetrInv, NEW r \in Retrievals, Retrieve(r)
  PROVE  RetrInv'
<1>t. ConsentTypeOK /\ RetrOk(r)
  BY DEF RetrInv
<1>o. retr[r].stage \in RetrStages => retr[r] \in Retrieval
  BY <1>t, OngoingRetr
<1>1. ASSUME NEW q \in ConsentIds, NEW s \in Sites, NEW t \in Ajwts, Present(r, q, s, t)
      PROVE  RetrInv'
  <2> DEFINE new == [stage |-> "arrived", consent |-> q, site |-> s, ajwt |-> t, at |-> 0,
                     binding |-> NoBinding, gone |-> CallAgents \ live,
                     withdrawn |-> consent[q].revoked]
  <2>1. /\ retr[r] = Fresh /\ Stored(q) /\ retr' = [retr EXCEPT ![r] = new]
        /\ UNCHANGED <<now, live, usedJtis, pops, call, receipts, payments>>
        /\ UNCHANGED <<consent, credits, charges, disclosure>>
    BY <1>1 DEF Present, callVars
  <2>2. consent[q].revoked \in BOOLEAN
    BY <1>t, <2>1, StoredRow DEF ConsentRow
  <2>3. /\ new \in Retrieval /\ new.stage = "arrived" /\ new.consent = q
        /\ new.gone = CallAgents \ live /\ new.withdrawn = consent[q].revoked
    BY <2>2 DEF Retrieval, RetrStages
  <2> HIDE DEF new
  <2>4. retr'[r] = new /\ \A v \in Retrievals \ {r} : retr'[v] = retr[v]
    BY <1>t, <2>1 DEF ConsentTypeOK
  <2>5. ConsentTypeOK'
    BY <1>t, <2>1, <2>3 DEF ConsentTypeOK
  <2>6. RetrOk(r)'
    BY <2>1, <2>3, <2>4 DEF RetrOk, Stored, Claimed
  <2>7. retr[r] \notin Retrieval
    BY <1>t, <2>1, OngoingRetr
  <2>8. ASSUME NEW d \in disclosure' PROVE Told(d)'
    <3>1. Told(d) /\ d.retr # r
      BY <2>1, <2>7 DEF RetrInv, Told
    <3> QED BY <2>4, <3>1 DEF Told
  <2>9. ASSUME NEW z \in Sites PROVE Paid(z)'
    <3>1. PaidFor(z)' \subseteq PaidFor(z)
      BY <2>3, <2>4 DEF PaidFor, Charged
    <3> QED BY <2>1, <3>1, PaidShrinks DEF RetrInv, ConsentTypeOK
  <2> QED BY <2>1, <2>4, <2>5, <2>6, <2>8, <2>9, SameRows, RetrFrame
<1>2. CASE Bind(r)
  <2>1. /\ retr[r].stage = "arrived" /\ retr[r] \in Retrieval
        /\ UNCHANGED <<now, live, usedJtis, pops, call, receipts, payments>>
        /\ UNCHANGED <<consent, credits, charges, disclosure>>
    BY <1>2, <1>o DEF Bind, AtRetr, RetrStages, callVars
  <2> DEFINE w == RowOf(r)
  <2>2. CASE GotoRetr(r, "failed")
    BY <2>1, <2>2, PlainMove DEF Claimed, Charged, RetrStages
  <2>3. ASSUME NEW b \in {NoBinding} \cup [agent: CallAgents, sub: Subjects],
               retr' = [retr EXCEPT ![r] = [retr[r] EXCEPT !.stage = "bound", !.at = now, !.binding = b]],
               w.granted, ~w.revoked,
               w.agent # NoAgent =>
                 retr[r].ajwt.agent = w.agent /\ retr[r].ajwt.sub = w.owner /\ w.agent \in live
        PROVE  RetrInv'
    <3> DEFINE new == [retr[r] EXCEPT !.stage = "bound", !.at = now, !.binding = b]
    <3>1. /\ new \in Retrieval /\ new.stage = "bound" /\ new.consent = retr[r].consent
          /\ new.ajwt = retr[r].ajwt /\ new.gone = retr[r].gone /\ new.withdrawn = retr[r].withdrawn
      <4>1. now \in Nat
        BY DEF CallTypeOK
      <4>2. new \in Retrieval
        BY <2>1, <2>3, <4>1 DEF Retrieval, RetrStages
      <4> QED BY <2>1, <4>2 DEF Retrieval
    <3> HIDE DEF new
    <3>2. retr'[r] = new /\ \A v \in Retrievals \ {r} : retr'[v] = retr[v]
      BY <1>t, <2>3 DEF ConsentTypeOK, new
    <3>3. ConsentTypeOK'
      BY <1>t, <2>1, <2>3, <3>1 DEF ConsentTypeOK, new
    <3>4. RetrOk(r)'
      BY <1>t, <2>1, <2>3, <3>1, <3>2 DEF RetrOk, RowOf, Stored, Claimed
    <3>5. ASSUME NEW d \in disclosure' PROVE Told(d)'
      <4>1. Told(d) /\ d.retr # r
        BY <2>1 DEF RetrInv, Told
      <4> QED BY <3>2, <4>1 DEF Told
    <3>6. ASSUME NEW z \in Sites PROVE Paid(z)'
      <4>1. PaidFor(z)' \subseteq PaidFor(z)
        BY <3>1, <3>2 DEF PaidFor, Charged
      <4> QED BY <2>1, <4>1, PaidShrinks DEF RetrInv, ConsentTypeOK
    <3> QED BY <2>1, <3>2, <3>3, <3>4, <3>5, <3>6, SameRows, RetrFrame
  <2>4. CASE /\ w.granted /\ ~w.revoked /\ w.agent = NoAgent
             /\ retr' = [retr EXCEPT ![r].stage = "bound", ![r].at = now]
    <3>1. retr[r].stage = "arrived" => retr[r].binding \in {NoBinding} \cup [agent: CallAgents, sub: Subjects]
      BY <2>1 DEF Retrieval
    <3>2. [retr[r] EXCEPT !.stage = "bound", !.at = now] =
            [retr[r] EXCEPT !.stage = "bound", !.at = now, !.binding = retr[r].binding]
      BY <2>1 DEF Retrieval
    <3>3. retr' = [retr EXCEPT ![r] = [retr[r] EXCEPT !.stage = "bound", !.at = now]]
      BY <1>t, <2>4 DEF ConsentTypeOK
    <3> QED BY <2>1, <2>3, <2>4, <3>1, <3>2, <3>3
  <2>5. CASE /\ w.granted /\ ~w.revoked /\ w.agent # NoAgent /\ BindingOk(r, w.agent)
             /\ retr' = [retr EXCEPT ![r].stage = "bound", ![r].at = now,
                           ![r].binding = [agent |-> w.agent, sub |-> retr[r].ajwt.sub]]
    <3> DEFINE b == [agent |-> w.agent, sub |-> retr[r].ajwt.sub]
    <3>1. retr[r].ajwt \in Ajwts /\ retr[r].ajwt.agent = w.agent /\ retr[r].ajwt.sub = w.owner /\ w.agent \in live
      BY <2>1, <2>5 DEF Retrieval, BindingOk
    <3>2. b \in [agent: CallAgents, sub: Subjects]
      BY <3>1, CallAssumption DEF Subjects
    <3>3. retr' = [retr EXCEPT ![r] = [retr[r] EXCEPT !.stage = "bound", !.at = now, !.binding = b]]
      BY <1>t, <2>5 DEF ConsentTypeOK
    <3> QED BY <2>3, <2>5, <3>1, <3>2, <3>3
  <2> QED BY <1>2, <2>2, <2>4, <2>5 DEF Bind
<1>3. CASE ClaimToken(r)
  <2>1. /\ retr[r].stage = "bound" /\ retr[r] \in Retrieval
        /\ UNCHANGED <<now, live, usedJtis, pops, call, receipts, payments>>
        /\ UNCHANGED <<credits, charges, disclosure>>
    BY <1>3, <1>o DEF ClaimToken, AtRetr, RetrStages, callVars
  <2> DEFINE q == retr[r].consent
             w == RowOf(r)
  <2>2. CASE GotoRetr(r, "failed") /\ UNCHANGED consent
    BY <2>1, <2>2, PlainMove DEF Claimed, Charged, RetrStages
  <2>3. ASSUME TokenUsable(r), consent' = [consent EXCEPT ![q].used = TRUE],
               NEW s \in {"claimed", "failed"}, GotoRetr(r, s), s = "claimed" => w.site = retr[r].site
        PROVE  RetrInv'
    <3>1. q \in ConsentIds /\ Stored(q) /\ consent[q] \in ConsentRow /\ ~consent[q].used
      BY <1>t, <2>1, <2>3, StoredRow DEF Retrieval, RetrOk, TokenUsable, RowOf
    <3> DEFINE new == [consent[q] EXCEPT !.used = TRUE]
    <3>2. /\ new \in ConsentRow /\ new.used /\ new.site = consent[q].site
          /\ new.revoked = consent[q].revoked /\ new.granted = consent[q].granted
          /\ new.owner = consent[q].owner /\ new.agent = consent[q].agent
      BY <3>1 DEF ConsentRow
    <3>3. consent' = [consent EXCEPT ![q] = new]
      BY <2>3
    <3> HIDE DEF new
    <3>4. consent'[q] = new /\ \A x \in ConsentIds \ {q} : consent'[x] = consent[x]
      BY <1>t, <3>1, <3>3 DEF ConsentTypeOK
    <3>5. /\ retr' \in [Retrievals -> Retrieval \cup {Fresh, Lost}]
          /\ \A v \in Retrievals \ {r} : retr'[v] = retr[v]
          /\ s # "failed" => /\ retr'[r] \in Retrieval /\ retr'[r].stage = s
                             /\ retr'[r].consent = retr[r].consent /\ retr'[r].site = retr[r].site
                             /\ retr'[r].ajwt = retr[r].ajwt /\ retr'[r].gone = retr[r].gone
                             /\ retr'[r].withdrawn = retr[r].withdrawn
      BY <1>t, <2>1, <2>3, RetrFacts DEF RetrStages
    <3>6. ConsentTypeOK'
      BY <1>t, <2>1, <3>2, <3>3, <3>5 DEF ConsentTypeOK
    <3>7. new # Absent
      BY <3>2, RowIsStored
    <3>8. \A x \in ConsentIds : RowKept(x) /\ OwnedOnce(x)'
      BY <3>1, <3>2, <3>4, <3>7 DEF RetrInv, RowKept, OwnedOnce, Stored
    <3>9. ASSUME s # "failed" PROVE RetrOk(r)'
      <4>1. ASSUME NEW v \in Retrievals \ {r}, retr[v] \in Retrieval, retr[v].stage \in Claimed
            PROVE  retr[v].consent # q
        <5>1. RetrOk(v)
          BY DEF RetrInv
        <5> QED BY <3>1, <4>1, <5>1 DEF RetrOk
      <4>2. /\ retr'[r].consent = q /\ consent'[q] = new /\ consent'[retr'[r].consent] = new
            /\ Stored(retr[r].consent)' /\ retr'[r].stage = "claimed"
        BY <2>3, <3>4, <3>5, <3>7, <3>9 DEF Stored
      <4>3. /\ retr[r].withdrawn => new.revoked
            /\ retr[r].gone \cap live = {}
            /\ new.granted /\ ~retr[r].withdrawn
            /\ new.agent # NoAgent => /\ retr[r].ajwt.agent = new.agent /\ retr[r].ajwt.sub = new.owner
                                      /\ new.agent \notin retr[r].gone
        BY <1>t, <2>1, <3>2 DEF RetrOk
      <4>4. new.used /\ new.site = retr'[r].site
        BY <2>3, <3>2, <3>5, <3>9 DEF RowOf
      <4> QED BY <2>1, <3>5, <3>9, <4>1, <4>2, <4>3, <4>4 DEF RetrOk
    <3> QED BY <2>1, <2>3, <3>6, <3>8, <3>9, RetrMoves DEF Charged, RetrStages
  <2> QED BY <1>3, <2>2, <2>3 DEF ClaimToken
<1>4. CASE VerifyProof(r)
  <2>1. /\ retr[r].stage = "claimed" /\ retr[r] \in Retrieval /\ GotoRetr(r, "proved")
        /\ UNCHANGED <<live, consent, credits, charges, disclosure>>
    BY <1>4, <1>o DEF VerifyProof, AtRetr, RetrStages, callVars
  <2> QED BY <2>1, PlainMove DEF Claimed, Charged, RetrStages
<1>5. CASE Charge(r)
  <2>1. /\ retr[r].stage = "proved" /\ retr[r] \in Retrieval /\ retr[r].site \in Sites
        /\ UNCHANGED <<live, consent, disclosure>>
    BY <1>5, <1>o DEF Charge, AtRetr, RetrStages, callVars, Retrieval
  <2> DEFINE s == retr[r].site
  <2>2. CASE GotoRetr(r, "failed") /\ UNCHANGED <<credits, charges>>
    BY <2>1, <2>2, PlainMove DEF Claimed, Charged, RetrStages
  <2>3. CASE /\ credits[s] > 0 /\ credits' = [credits EXCEPT ![s] = @ - 1]
             /\ charges' = [charges EXCEPT ![s] = @ + 1] /\ GotoRetr(r, "charged")
    <3>1. /\ retr' \in [Retrievals -> Retrieval \cup {Fresh, Lost}]
          /\ \A v \in Retrievals \ {r} : retr'[v] = retr[v]
          /\ retr'[r] \in Retrieval /\ retr'[r].stage = "charged" /\ retr'[r].site = s
      BY <1>t, <2>1, <2>3, RetrFacts DEF RetrStages
    <3>2. ConsentTypeOK'
      BY <1>t, <2>1, <2>3, <3>1 DEF ConsentTypeOK
    <3>3. RetrOk(r)'
      BY <2>1, <2>3, StageOk DEF RetrStages, Claimed
    <3>4. ASSUME NEW d \in disclosure' PROVE Told(d)'
      <4>1. Told(d) /\ d.retr # r
        BY <2>1 DEF RetrInv, Told
      <4> QED BY <3>1, <4>1 DEF Told
    <3>5. ASSUME NEW z \in Sites PROVE Paid(z)'
      <4>1. CASE z # s
        <5>1. PaidFor(z)' \subseteq PaidFor(z) /\ charges'[z] = charges[z]
          BY <1>t, <2>3, <3>1, <4>1 DEF PaidFor, Charged, ConsentTypeOK
        <5> QED BY <5>1, PaidShrinks DEF RetrInv, ConsentTypeOK
      <4>2. CASE z = s
        <5>1. PaidFor(z)' = PaidFor(z) \cup {r} /\ r \notin PaidFor(z)
          BY <2>1, <3>1, <4>2 DEF PaidFor, Charged
        <5>2. Paid(z) /\ Cardinality(PaidFor(z)) \in Nat
          BY FS_CardinalityType DEF RetrInv, Paid
        <5>3. IsFiniteSet(PaidFor(z)') /\ Cardinality(PaidFor(z)') = Cardinality(PaidFor(z)) + 1
          BY <5>1, <5>2, FS_AddElement DEF Paid
        <5>4. charges'[z] = charges[z] + 1 /\ charges[z] \in Nat
          BY <1>t, <2>1, <2>3, <4>2 DEF ConsentTypeOK
        <5> QED BY <5>2, <5>3, <5>4 DEF Paid
      <4> QED BY <4>1, <4>2
    <3> QED BY <2>1, <3>1, <3>2, <3>3, <3>4, <3>5, SameRows, RetrFrame
  <2> QED BY <1>5, <2>2, <2>3 DEF Charge
<1>6. CASE CheckTrust(r)
  <2>1. /\ retr[r].stage = "charged" /\ retr[r] \in Retrieval
        /\ GotoRetr(r, "trusted") \/ GotoRetr(r, "failed")
        /\ UNCHANGED <<live, consent, credits, charges, disclosure>>
    BY <1>6, <1>o DEF CheckTrust, AtRetr, RetrStages, callVars
  <2> QED BY <2>1, PlainMove DEF Claimed, Charged, RetrStages
<1>7. CASE DiscloseToSite(r)
  <2>1. /\ retr[r].stage = "trusted" /\ retr[r] \in Retrieval /\ Disclose(r)
        /\ UNCHANGED <<live, consent, credits, charges>>
    BY <1>7, <1>o DEF DiscloseToSite, AtRetr, RetrStages, callVars
  <2> QED BY <2>1, DiscloseKeeps
<1>8. CASE RecordRetr(r)
  <2>1. /\ retr[r].stage = "trusted" /\ retr[r] \in Retrieval
        /\ GotoRetr(r, "recorded") \/ GotoRetr(r, "failed")
        /\ UNCHANGED <<live, consent, credits, charges, disclosure>>
    BY <1>8, <1>o DEF RecordRetr, AtRetr, RetrStages, callVars
  <2> QED BY <2>1, PlainMove DEF Claimed, Charged, RetrStages
<1>9. CASE DiscloseViaAgent(r)
  <2>1. /\ retr[r].stage = "recorded" /\ retr[r] \in Retrieval
        /\ (GotoRetr(r, "failed") /\ UNCHANGED disclosure) \/ Disclose(r)
        /\ UNCHANGED <<live, consent, credits, charges>>
    BY <1>9, <1>o DEF DiscloseViaAgent, AtRetr, RetrStages
  <2>2. CASE Disclose(r)
    BY <2>1, <2>2, DiscloseKeeps
  <2>3. CASE GotoRetr(r, "failed") /\ UNCHANGED disclosure
    BY <2>1, <2>3, PlainMove DEF Claimed, Charged, RetrStages
  <2> QED BY <2>1, <2>2, <2>3
<1>10. CASE AbandonRetr(r)
  <2>1. /\ retr[r].stage # "done" /\ retr[r] \in Retrieval /\ GotoRetr(r, "failed")
        /\ UNCHANGED <<live, consent, credits, charges, disclosure>>
    BY <1>10, <1>t DEF AbandonRetr, callVars, ConsentTypeOK, Fresh, Lost
  <2> QED BY <2>1, PlainMove DEF Claimed, Charged, RetrStages
<1> QED BY <1>1, <1>2, <1>3, <1>4, <1>5, <1>6, <1>7, <1>8, <1>9, <1>10 DEF Retrieve

\* No consent has been asked for initially.
LEMMA InitRetr == ConsentInit => RetrInv
<1> SUFFICES ASSUME ConsentInit PROVE RetrInv
  OBVIOUS
<1>1. ConsentTypeOK
  BY DEF ConsentInit, ConsentTypeOK
<1>2. \A r \in Retrievals : retr[r] \notin Retrieval
  BY <1>1, OngoingRetr DEF ConsentInit
<1>3. \A s \in Sites : Paid(s)
  <2>1. ASSUME NEW s \in Sites PROVE PaidFor(s) = {} /\ charges[s] = 0
    BY <1>2 DEF PaidFor, ConsentInit
  <2> QED BY <2>1, FS_EmptySet DEF Paid
<1> QED BY <1>1, <1>2, <1>3 DEF ConsentInit, RetrInv, RetrOk, OwnedOnce, Stored

\* The rows while one of them is written.
LEMMA RowWritten ==
  ASSUME RetrInv, NEW q \in ConsentIds, NEW new \in ConsentRow, consent' = [consent EXCEPT ![q] = new],
         Stored(q) =>
           /\ new.site = consent[q].site
           /\ consent[q].revoked => new.revoked
           /\ consent[q].used => new.used
           /\ consent[q].granted =>
                new.granted /\ new.owner = consent[q].owner /\ new.agent = consent[q].agent,
         ~new.granted => new.owner = NoOwner,
         UNCHANGED <<retr, disclosure, charges>>, credits' \in [Sites -> Nat], live' \subseteq live
  PROVE  RetrInv'
<1>1. consent'[q] = new /\ \A x \in ConsentIds \ {q} : consent'[x] = consent[x]
  BY DEF RetrInv, ConsentTypeOK
<1>2. ConsentTypeOK'
  BY DEF RetrInv, ConsentTypeOK
<1>3. new # Absent
  BY RowIsStored
<1>4. \A x \in ConsentIds : RowKept(x) /\ OwnedOnce(x)'
  BY <1>1, <1>3 DEF RetrInv, RowKept, OwnedOnce, Stored
<1> QED BY <1>2, <1>4, ConsentFrame

\* grant_consent_token.
LEMMA GrantKeeps ==
  ASSUME CallTypeOK, RetrInv, NEW q \in ConsentIds, NEW u \in Users \cup Subjects,
         NEW a \in CallAgents \cup {NoAgent}, Grantable(q), GrantToken(q, u, a),
         UNCHANGED <<live, credits, charges, retr, disclosure>>
  PROVE  RetrInv'
<1> DEFINE new == [consent[q] EXCEPT !.owner = u, !.agent = a, !.granted = TRUE, !.exp = now + ConsentLife]
<1>1. consent[q] \in ConsentRow /\ ~consent[q].granted
  BY StoredRow DEF RetrInv, Grantable
<1>2. now + ConsentLife \in Nat
  BY ConsentAssumption DEF CallTypeOK
<1>3. /\ new \in ConsentRow /\ new.granted /\ new.site = consent[q].site
      /\ new.revoked = consent[q].revoked /\ new.used = consent[q].used
  BY <1>1, <1>2 DEF ConsentRow
<1>4. consent' = [consent EXCEPT ![q] = new]
  BY DEF GrantToken
<1> HIDE DEF new
<1> QED BY <1>1, <1>3, <1>4, RowWritten DEF RetrInv, ConsentTypeOK

\* Every step around the retrievals keeps both invariants.
LEMMA NextConsent ==
  ASSUME CallInv, RetrInv, ConsentStep
  PROVE  CallInv' /\ RetrInv'
<1>t. CallTypeOK /\ ConsentTypeOK
  BY DEF CallInv, RetrInv
<1>c. ASSUME UNCHANGED callVars PROVE CallInv'
  BY <1>c DEF callVars, CallInv, CallTypeOK, CallOk, SpentApart, PaymentOk
<1>1. ASSUME NEW q \in ConsentIds, NEW s \in Sites, KycRequest(q, s) PROVE CallInv' /\ RetrInv'
  <2> DEFINE new == [site |-> s, owner |-> NoOwner, agent |-> NoAgent, granted |-> FALSE, exp |-> 0,
                     used |-> FALSE, revoked |-> FALSE]
  <2>1. /\ ~Stored(q) /\ consent' = [consent EXCEPT ![q] = new]
        /\ UNCHANGED callVars /\ UNCHANGED <<live, credits, charges, retr, disclosure>>
    BY <1>1 DEF KycRequest, callVars
  <2>2. new \in ConsentRow /\ ~new.granted /\ new.owner = NoOwner
    BY DEF ConsentRow
  <2> HIDE DEF new
  <2>3. RetrInv'
    BY <1>t, <2>1, <2>2, RowWritten DEF ConsentTypeOK
  <2> QED BY <1>c, <2>1, <2>3
<1>2. ASSUME NEW q \in ConsentIds, NEW u \in Users, KycConsent(q, u) PROVE CallInv' /\ RetrInv'
  <2>1. /\ Grantable(q) /\ GrantToken(q, u, NoAgent) /\ UNCHANGED callVars
        /\ UNCHANGED <<live, credits, charges, retr, disclosure>>
    BY <1>2 DEF KycConsent, callVars
  <2>2. RetrInv'
    BY <1>t, <2>1, GrantKeeps
  <2> QED BY <1>c, <2>1, <2>2
<1>3. ASSUME NEW q \in ConsentIds, NEW u \in Users, RevokeConsent(q, u) PROVE CallInv' /\ RetrInv'
  <2> DEFINE new == [consent[q] EXCEPT !.revoked = TRUE]
  <2>1. /\ Stored(q) /\ consent[q].owner = u /\ consent' = [consent EXCEPT ![q] = new]
        /\ UNCHANGED callVars /\ UNCHANGED <<live, credits, charges, retr, disclosure>>
    BY <1>3 DEF RevokeConsent, callVars
  <2>2. consent[q] \in ConsentRow
    BY <1>t, <2>1, StoredRow
  <2>3. consent[q].granted
    BY <2>1, ConsentAssumption DEF RetrInv, OwnedOnce
  <2>4. /\ new \in ConsentRow /\ new.revoked /\ new.site = consent[q].site /\ new.used = consent[q].used
        /\ new.granted = consent[q].granted /\ new.owner = consent[q].owner
        /\ new.agent = consent[q].agent
    BY <2>2 DEF ConsentRow
  <2> HIDE DEF new
  <2>5. RetrInv'
    BY <1>t, <2>1, <2>3, <2>4, RowWritten DEF ConsentTypeOK
  <2> QED BY <1>c, <2>1, <2>5
<1>4. ASSUME NEW c \in CallIds, DecideConsent(c) PROVE CallInv' /\ RetrInv'
  <2>1. /\ call[c].stage = "popTaken" /\ call[c] \in Ongoing
        /\ Goto(c, "decided") \/ Goto(c, "failed")
        /\ UNCHANGED <<now, live, usedJtis, receipts, payments>>
        /\ UNCHANGED <<consent, credits, charges, retr, disclosure>>
    BY <1>4, <1>t, OngoingCall DEF DecideConsent, AtStage, CallStages, consentVars
  <2>2. ~call[c].revoked
    BY <2>1 DEF CallInv, CallOk
  <2>3. CallInv'
    BY <2>1, <2>2, GotoKeeps DEF CallStages
  <2>4. RetrInv'
    BY <1>t, <2>1, SameRows, ConsentFrame DEF ConsentTypeOK
  <2> QED BY <2>3, <2>4
<1>5. ASSUME NEW c \in CallIds, GrantByAgent(c) PROVE CallInv' /\ RetrInv'
  <2>1. /\ call[c].stage = "spent" /\ call[c] \in Ongoing /\ call[c].kind = "consent"
        /\ UNCHANGED <<now, live, usedJtis, receipts, payments>>
        /\ UNCHANGED <<credits, charges, retr, disclosure>>
    BY <1>5, <1>t, OngoingCall DEF GrantByAgent, AtStage, CallStages
  <2>2. /\ ~call[c].revoked
        /\ call[c].order.request \in ConsentIds /\ call[c].ajwt.sub \in Subjects /\ AgentOf(c) \in CallAgents
    <3>1. call[c].order \in Orders /\ call[c].ajwt \in Ajwts
      BY <2>1 DEF Ongoing
    <3> QED BY <2>1, <3>1, CallAssumption, ConsentAssumption DEF CallInv, CallOk, Subjects, AgentOf
  <2>3. CASE /\ Grantable(call[c].order.request)
             /\ GrantToken(call[c].order.request, call[c].ajwt.sub, AgentOf(c)) /\ Goto(c, "done")
    <3>1. CallInv'
      BY <2>1, <2>2, <2>3, GotoKeeps DEF CallStages
    <3>2. RetrInv'
      BY <1>t, <2>1, <2>2, <2>3, GrantKeeps
    <3> QED BY <3>1, <3>2
  <2>4. CASE UNCHANGED consent /\ Goto(c, "failed")
    <3>1. CallInv'
      BY <2>1, <2>4, GotoKeeps DEF CallStages
    <3>2. RetrInv'
      BY <1>t, <2>1, <2>4, SameRows, ConsentFrame DEF ConsentTypeOK
    <3> QED BY <3>1, <3>2
  <2> QED BY <1>5, <2>3, <2>4 DEF GrantByAgent
<1>6. ASSUME NEW s \in Sites, BuyCredit(s) PROVE CallInv' /\ RetrInv'
  <2>1. /\ credits' = [credits EXCEPT ![s] = @ + 1] /\ UNCHANGED callVars
        /\ UNCHANGED <<live, consent, charges, retr, disclosure>>
    BY <1>6 DEF BuyCredit, callVars
  <2>2. ConsentTypeOK'
    BY <1>t, <2>1 DEF ConsentTypeOK
  <2>3. RetrInv'
    BY <2>1, <2>2, SameRows, ConsentFrame
  <2> QED BY <1>c, <2>1, <2>3
<1> QED BY <1>1, <1>2, <1>3, <1>4, <1>5, <1>6 DEF ConsentStep

\* A retrieval touches no call, and of the jtis only prunes the expired.
LEMMA RetrieveKeepsCalls ==
  ASSUME CallInv, NEW r \in Retrievals, Retrieve(r)
  PROVE  CallInv'
<1>1. CASE UNCHANGED callVars
  BY <1>1 DEF callVars, CallInv, CallTypeOK, CallOk, SpentApart, PaymentOk
<1>2. CASE DiscloseViaAgent(r)
  <2>1. /\ UNCHANGED <<now, live, pops, call, receipts, payments>>
        /\ \/ UNCHANGED usedJtis
           \/ \E x : usedJtis' = {u \in usedJtis : u.exp >= now} \cup {x}
    BY <1>2 DEF DiscloseViaAgent
  <2>2. \A u \in usedJtis : u.exp >= now' => u \in usedJtis'
    BY <2>1
  <2>3. CallTypeOK' /\ now <= now' /\ \A p \in payments' : PaymentOk(p)'
    BY <2>1 DEF CallInv, CallTypeOK, PaymentOk
  <2> QED BY <2>1, <2>2, <2>3, CallsStay
<1> QED BY <1>1, <1>2 DEF Retrieve, Present, Bind, ClaimToken, VerifyProof, Charge, CheckTrust,
                         DiscloseToSite, RecordRetr, AbandonRetr

ConsentInv == CallInv /\ RetrInv

LEMMA NextConsents == ConsentInv /\ [ConsentNext]_claimVars => ConsentInv'
<1> SUFFICES ASSUME CallInv, RetrInv, [ConsentNext]_claimVars PROVE CallInv' /\ RetrInv'
  BY DEF ConsentInv
<1>t. ConsentTypeOK
  BY DEF RetrInv
<1>1. CASE UNCHANGED claimVars
  <2>1. RetrInv'
    BY <1>1, <1>t, SameRows, ConsentFrame DEF claimVars, ConsentTypeOK
  <2> QED BY <1>1, <2>1 DEF claimVars, CallInv, CallTypeOK, CallOk, SpentApart, PaymentOk
<1>2. CASE CallNext /\ UNCHANGED consentVars
  <2>1. CallInv' /\ live' \subseteq live
    <3>1. ASSUME NEW c \in CallIds, Serve(c) PROVE CallInv' /\ live' \subseteq live
      <4>1. UNCHANGED live
        BY <3>1 DEF Serve, Arrive, Vet, ReadPop, DeletePop, Decide, Record, SpendJti, InsertPayment, Answer, Abandon
      <4> QED BY <3>1, <4>1, NextServe
    <3> QED BY <1>2, <3>1, NextAround DEF CallNext
  <2>2. RetrInv'
    BY <1>2, <1>t, <2>1, SameRows, ConsentFrame DEF consentVars, ConsentTypeOK
  <2> QED BY <2>1, <2>2
<1>3. CASE ConsentStep
  BY <1>3, NextConsent
<1>4. ASSUME NEW r \in Retrievals, Retrieve(r) PROVE CallInv' /\ RetrInv'
  BY <1>4, NextRetrieve, RetrieveKeepsCalls DEF CallInv
<1> QED BY <1>1, <1>2, <1>3, <1>4 DEF ConsentNext

LEMMA ConsentsInvariant == ConsentSpec => []ConsentInv
<1>1. ConsentInit => ConsentInv
  BY InitCall, InitRetr DEF ConsentInit, ConsentInv
<1> QED BY <1>1, NextConsents, PTL DEF ConsentSpec

\* With any number of calls and retrievals, while an A-JWT is valid one call gets
\* past consume_ajwt_jti with it, and a payment authorisation is settled once.
THEOREM TokenSpentOnce == ConsentSpec => []TokenActsOnce
<1>1. ConsentInv => TokenActsOnce
  <2> SUFFICES ASSUME CallInv PROVE TokenActsOnce
    BY DEF ConsentInv
  <2>1. \A c \in CallIds : HasSpent(c) => call[c] \in Ongoing /\ call[c].spentAt <= LastTime
    BY OngoingCall DEF CallInv, HasSpent
  <2>2. \A p \in payments : p.settled <= 1
    BY DEF CallInv, CallTypeOK, Payment
  <2> QED BY <2>1, <2>2 DEF TokenActsOnce, CallInv, SpentApart, PaymentOk
<1> QED BY <1>1, ConsentsInvariant, PTL

\* Claims are disclosed once per consent, to the site it names, on an authority
\* in force when the request arrived, and for a credit each.
THEOREM DisclosedOnce == ConsentSpec => []DisclosureIsAuthorised
<1>1. ConsentInv => DisclosureIsAuthorised
  <2> SUFFICES ASSUME RetrInv PROVE DisclosureIsAuthorised
    BY DEF ConsentInv
  <2>1. ASSUME NEW d \in disclosure
        PROVE  LET w == consent[d.consent]
                   p == retr[d.retr] IN
               /\ w.granted /\ w.site = d.site /\ ~p.withdrawn
               /\ w.agent # NoAgent => p.ajwt.agent = w.agent /\ p.ajwt.sub = w.owner /\ w.agent \notin p.gone
               /\ \A e \in disclosure : e.consent = d.consent => e = d
    <3>1. Told(d) /\ RetrOk(d.retr)
      BY DEF RetrInv, Told
    <3>2. d.consent = retr[d.retr].consent /\ d.site = retr[d.retr].site
      BY <3>1 DEF Told
    <3>3. ASSUME NEW e \in disclosure, e.consent = d.consent PROVE e = d
      <4>1. Told(e) /\ e.consent = retr[e.retr].consent
        BY DEF RetrInv, Told
      <4>2. e.retr = d.retr
        BY <3>1, <3>2, <3>3, <4>1 DEF Told, RetrOk, Claimed, RetrStages
      <4> QED BY <3>1, <4>1, <4>2 DEF Told
    <3> QED BY <3>1, <3>2, <3>3 DEF Told, RetrOk, Claimed, RetrStages
  <2>2. ASSUME NEW s \in Sites PROVE Cardinality({d \in disclosure : d.site = s}) <= charges[s]
    <3> DEFINE D == {d \in disclosure : d.site = s}
               f == [d \in D |-> d.retr]
    <3>1. f \in [D -> PaidFor(s)]
      <4>1. ASSUME NEW d \in D PROVE d.retr \in PaidFor(s)
        BY DEF RetrInv, Told, PaidFor, Charged
      <4> QED BY <4>1
    <3>2. ASSUME NEW d \in D, NEW e \in D, f[d] = f[e] PROVE d = e
      BY <3>2 DEF RetrInv, Told
    <3>3. f \in Injection(D, PaidFor(s))
      BY <3>1, <3>2 DEF Injection, IsInjective
    <3>4. Paid(s) /\ charges[s] \in Nat
      BY DEF RetrInv, ConsentTypeOK
    <3>5. IsFiniteSet(D) /\ Cardinality(D) <= Cardinality(PaidFor(s))
      <4> HIDE DEF D, f
      <4> QED BY <3>3, <3>4, FS_Injection DEF Paid
    <3>6. Cardinality(D) \in Nat /\ Cardinality(PaidFor(s)) \in Nat
      BY <3>4, <3>5, FS_CardinalityType DEF Paid
    <3> QED BY <3>4, <3>5, <3>6 DEF Paid
  <2> QED BY <2>1, <2>2 DEF DisclosureIsAuthorised
<1> QED BY <1>1, ConsentsInvariant, PTL

----------------------------------------------------------------------------
(* The consents implement ConsentPromise.                                  *)

\* A step that leaves the rows and the disclosures alone is a stutter.
LEMMA PromiseStutters ==
  ASSUME UNCHANGED <<consent, disclosure>> PROVE UNCHANGED Promise!promiseVars
BY DEF Promise!promiseVars, Stored

\* One row is written: what the sets of the promise become.
LEMMA PromiseRow ==
  ASSUME RetrInv, NEW q \in ConsentIds, NEW new \in ConsentRow, consent' = [consent EXCEPT ![q] = new],
         UNCHANGED disclosure
  PROVE  /\ ~Stored(q) /\ ~new.granted /\ ~new.revoked /\ ~new.used => Promise!Open(q)
         /\ Stored(q) /\ ~consent[q].granted /\ new.granted
            /\ new.revoked = consent[q].revoked /\ new.used = consent[q].used => Promise!Grant(q)
         /\ Stored(q) /\ consent[q].granted /\ new.granted /\ new.revoked
            /\ new.used = consent[q].used => Promise!Withdraw(q)
         /\ Stored(q) /\ consent[q].granted /\ ~consent[q].used /\ ~consent[q].revoked
            /\ new.granted /\ new.used /\ ~new.revoked => Promise!Use(q)
<1>1. consent'[q] = new /\ \A x \in ConsentIds \ {q} : consent'[x] = consent[x]
  BY DEF RetrInv, ConsentTypeOK
<1>2. new # Absent
  BY RowIsStored
<1>3. ASSUME ~Stored(q), ~new.granted, ~new.revoked, ~new.used PROVE Promise!Open(q)
  BY <1>1, <1>2, <1>3 DEF Promise!Open, Stored
<1>4. ASSUME Stored(q), ~consent[q].granted, new.granted,
             new.revoked = consent[q].revoked, new.used = consent[q].used
      PROVE  Promise!Grant(q)
  BY <1>1, <1>2, <1>4 DEF Promise!Grant, Stored
<1>5. ASSUME Stored(q), consent[q].granted, new.granted, new.revoked, new.used = consent[q].used
      PROVE  Promise!Withdraw(q)
  BY <1>1, <1>2, <1>5 DEF Promise!Withdraw, Stored
<1>6. ASSUME Stored(q), consent[q].granted, ~consent[q].used, ~consent[q].revoked,
             new.granted, new.used, ~new.revoked
      PROVE  Promise!Use(q)
  BY <1>1, <1>2, <1>6 DEF Promise!Use, Stored
<1> QED BY <1>3, <1>4, <1>5, <1>6

\* A disclosure takes a used consent, and no consent twice.
LEMMA PromiseDisclosed ==
  ASSUME RetrInv, NEW r \in Retrievals, retr[r] \in Retrieval,
         retr[r].stage \in {"trusted", "recorded"}, Disclose(r), UNCHANGED consent,
         NEW q, q = retr[r].consent
  PROVE  Promise!Disclose(q)
<1>1. RetrOk(r) /\ retr[r].consent \in ConsentIds
  BY DEF RetrInv, Retrieval
<1>2. Stored(retr[r].consent) /\ consent[retr[r].consent].used
  BY <1>1 DEF RetrOk, Claimed, RetrStages
<1>3. ASSUME NEW d \in disclosure PROVE d.consent # retr[r].consent
  <2>1. Told(d) /\ d.consent = retr[d.retr].consent /\ d.retr # r
    BY DEF RetrInv, Told
  <2> QED BY <1>1, <2>1 DEF Told, RetrOk, Claimed, RetrStages
<1>4. {d.consent : d \in disclosure'} = {d.consent : d \in disclosure} \cup {retr[r].consent}
  <2> DEFINE new == [retr |-> r, consent |-> retr[r].consent, site |-> retr[r].site]
  <2>1. disclosure' = disclosure \cup {new} /\ new.consent = retr[r].consent
    BY DEF Disclose
  <2> HIDE DEF new
  <2> QED BY <2>1
<1> QED BY <1>1, <1>2, <1>3, <1>4 DEF Promise!Disclose, Stored

LEMMA PromiseStep ==
  ConsentInv /\ [ConsentNext]_claimVars => [Promise!PromiseNext]_(Promise!promiseVars)
<1> SUFFICES ASSUME CallInv, RetrInv, [ConsentNext]_claimVars
             PROVE  [Promise!PromiseNext]_(Promise!promiseVars)
  BY DEF ConsentInv
<1>t. CallTypeOK /\ ConsentTypeOK
  BY DEF CallInv, RetrInv
<1>u. ASSUME UNCHANGED <<consent, disclosure>> PROVE [Promise!PromiseNext]_(Promise!promiseVars)
  BY <1>u, PromiseStutters
<1>n. ASSUME NEW q \in ConsentIds,
             Promise!Open(q) \/ Promise!Grant(q) \/ Promise!Withdraw(q) \/ Promise!Use(q) \/ Promise!Disclose(q)
      PROVE  [Promise!PromiseNext]_(Promise!promiseVars)
  BY <1>n DEF Promise!PromiseNext
<1>g. ASSUME NEW q \in ConsentIds, NEW u \in Users \cup Subjects, NEW a \in CallAgents \cup {NoAgent},
             Grantable(q), GrantToken(q, u, a), UNCHANGED disclosure
      PROVE  Promise!Grant(q)
  <2> DEFINE new == [consent[q] EXCEPT !.owner = u, !.agent = a, !.granted = TRUE, !.exp = now + ConsentLife]
  <2>1. Stored(q) /\ consent[q] \in ConsentRow /\ ~consent[q].granted
    BY <1>t, <1>g, StoredRow DEF Grantable
  <2>2. now + ConsentLife \in Nat
    BY <1>t, ConsentAssumption DEF CallTypeOK
  <2>3. /\ new \in ConsentRow /\ new.granted
        /\ new.revoked = consent[q].revoked /\ new.used = consent[q].used
    BY <1>g, <2>1, <2>2 DEF ConsentRow
  <2>4. consent' = [consent EXCEPT ![q] = new]
    BY <1>g DEF GrantToken
  <2> HIDE DEF new
  <2> QED BY <1>g, <2>1, <2>3, <2>4, PromiseRow
<1>1. CASE UNCHANGED claimVars
  BY <1>1, <1>u DEF claimVars
<1>2. CASE CallNext /\ UNCHANGED consentVars
  BY <1>2, <1>u DEF consentVars
<1>3. ASSUME NEW q \in ConsentIds, NEW s \in Sites, KycRequest(q, s)
      PROVE  [Promise!PromiseNext]_(Promise!promiseVars)
  <2> DEFINE new == [site |-> s, owner |-> NoOwner, agent |-> NoAgent, granted |-> FALSE, exp |-> 0,
                     used |-> FALSE, revoked |-> FALSE]
  <2>1. ~Stored(q) /\ consent' = [consent EXCEPT ![q] = new] /\ UNCHANGED disclosure
    BY <1>3 DEF KycRequest
  <2>2. new \in ConsentRow /\ ~new.granted /\ ~new.revoked /\ ~new.used
    BY DEF ConsentRow
  <2> HIDE DEF new
  <2> QED BY <1>n, <2>1, <2>2, PromiseRow
<1>4. ASSUME NEW q \in ConsentIds, NEW u \in Users, KycConsent(q, u)
      PROVE  [Promise!PromiseNext]_(Promise!promiseVars)
  BY <1>4, <1>g, <1>n DEF KycConsent
<1>5. ASSUME NEW q \in ConsentIds, NEW u \in Users, RevokeConsent(q, u)
      PROVE  [Promise!PromiseNext]_(Promise!promiseVars)
  <2> DEFINE new == [consent[q] EXCEPT !.revoked = TRUE]
  <2>1. /\ Stored(q) /\ consent[q].owner = u /\ consent' = [consent EXCEPT ![q] = new]
        /\ UNCHANGED disclosure
    BY <1>5 DEF RevokeConsent
  <2>2. consent[q] \in ConsentRow
    BY <1>t, <2>1, StoredRow
  <2>3. consent[q].granted
    BY <2>1, ConsentAssumption DEF RetrInv, OwnedOnce
  <2>4. new \in ConsentRow /\ new.revoked /\ new.used = consent[q].used /\ new.granted = consent[q].granted
    BY <2>2 DEF ConsentRow
  <2> HIDE DEF new
  <2> QED BY <1>n, <2>1, <2>3, <2>4, PromiseRow
<1>6. ASSUME NEW c \in CallIds, DecideConsent(c) PROVE [Promise!PromiseNext]_(Promise!promiseVars)
  BY <1>6, <1>u DEF DecideConsent, consentVars
<1>7. ASSUME NEW c \in CallIds, GrantByAgent(c) PROVE [Promise!PromiseNext]_(Promise!promiseVars)
  <2>1. call[c].order \in Orders /\ call[c].ajwt \in Ajwts /\ UNCHANGED disclosure
    BY <1>7, <1>t, OngoingCall DEF GrantByAgent, AtStage, CallStages, Ongoing
  <2>2. call[c].order.request \in ConsentIds /\ call[c].ajwt.sub \in Subjects /\ AgentOf(c) \in CallAgents
    BY <2>1, CallAssumption, ConsentAssumption DEF Subjects, AgentOf
  <2>3. CASE /\ Grantable(call[c].order.request)
             /\ GrantToken(call[c].order.request, call[c].ajwt.sub, AgentOf(c))
    BY <1>g, <1>n, <2>1, <2>2, <2>3
  <2> QED BY <1>7, <1>u, <2>1, <2>3 DEF GrantByAgent
<1>8. ASSUME NEW s \in Sites, BuyCredit(s) PROVE [Promise!PromiseNext]_(Promise!promiseVars)
  BY <1>8, <1>u DEF BuyCredit
<1>9. ASSUME NEW r \in Retrievals, Retrieve(r) PROVE [Promise!PromiseNext]_(Promise!promiseVars)
  <2>o. retr[r].stage \in RetrStages => retr[r] \in Retrieval
    BY <1>t, OngoingRetr
  <2>1. CASE ClaimToken(r)
    <3> DEFINE q == retr[r].consent
               new == [consent[q] EXCEPT !.used = TRUE]
    <3>1. retr[r].stage = "bound" /\ retr[r] \in Retrieval /\ UNCHANGED disclosure
      BY <2>1, <2>o DEF ClaimToken, AtRetr, RetrStages
    <3>2. CASE UNCHANGED consent
      BY <1>u, <3>1, <3>2
    <3>3. CASE TokenUsable(r) /\ consent' = [consent EXCEPT ![q] = new]
      <4>1. q \in ConsentIds /\ Stored(q) /\ consent[q] \in ConsentRow
        BY <1>t, <3>1, StoredRow DEF Retrieval, RetrInv, RetrOk
      <4>2. consent[q].granted /\ ~consent[q].used /\ ~consent[q].revoked
        BY <3>3 DEF TokenUsable, RowOf
      <4>3. new \in ConsentRow /\ new.used /\ new.granted = consent[q].granted /\ new.revoked = consent[q].revoked
        BY <4>1 DEF ConsentRow
      <4> HIDE DEF new
      <4> QED BY <1>n, <3>1, <3>3, <4>1, <4>2, <4>3, PromiseRow
    <3> QED BY <2>1, <3>2, <3>3 DEF ClaimToken
  <2>2. CASE DiscloseToSite(r)
    <3>1. retr[r].stage = "trusted" /\ retr[r] \in Retrieval /\ Disclose(r) /\ UNCHANGED consent
      BY <2>2, <2>o DEF DiscloseToSite, AtRetr, RetrStages
    <3>2. retr[r].consent \in ConsentIds
      BY <3>1 DEF Retrieval
    <3>3. ASSUME NEW q \in ConsentIds, q = retr[r].consent PROVE [Promise!PromiseNext]_(Promise!promiseVars)
      BY <1>n, <3>1, <3>3, PromiseDisclosed
    <3> QED BY <3>2, <3>3
  <2>3. CASE DiscloseViaAgent(r)
    <3>1. /\ retr[r].stage = "recorded" /\ retr[r] \in Retrieval /\ UNCHANGED consent
          /\ Disclose(r) \/ UNCHANGED disclosure
      BY <2>3, <2>o DEF DiscloseViaAgent, AtRetr, RetrStages
    <3>2. retr[r].consent \in ConsentIds
      BY <3>1 DEF Retrieval
    <3>3. ASSUME NEW q \in ConsentIds, q = retr[r].consent, Disclose(r)
          PROVE  [Promise!PromiseNext]_(Promise!promiseVars)
      BY <1>n, <3>1, <3>3, PromiseDisclosed
    <3> QED BY <1>u, <3>1, <3>2, <3>3
  <2>4. CASE UNCHANGED <<consent, disclosure>>
    BY <1>u, <2>4
  <2> QED BY <1>9, <2>1, <2>2, <2>3, <2>4
          DEF Retrieve, Present, Bind, VerifyProof, Charge, CheckTrust, RecordRetr, AbandonRetr
<1> QED BY <1>1, <1>2, <1>3, <1>4, <1>5, <1>6, <1>7, <1>8, <1>9 DEF ConsentNext, ConsentStep

\* The consents implement the promise: granted once, used once, disclosed once,
\* and not used after they were withdrawn.
THEOREM ConsentsKeepPromise == ConsentSpec => KeepsPromise
<1>1. ConsentInit => Promise!PromiseInit
  BY DEF ConsentInit, Promise!PromiseInit, Stored
<1> QED BY <1>1, PromiseStep, ConsentsInvariant, PTL DEF ConsentSpec, KeepsPromise, Promise!PromiseSpec


----------------------------------------------------------------------------
(* The registry of agents: types.                                          *)

RegTask == [step: {"challenged", "attestOk", "keyFree", "linked", "approved", "rowInserted", "ringDue"},
            realm: Realms, human: Humans, key: AgentKeys, scope: SUBSET Scopes,
            parent: AgentIds \cup {NoRow}, cfg: Configs, chal: AttestIds \cup {NoRow}, depth: Nat, id: AgentIds \cup {NoRow}]
VcTask == [step: {"vcTrusted", "vcChecked", "vcInserted", "ringDue"}, realm: Realms,
           human: Humans, key: AgentKeys, scope: SUBSET Scopes, cfg: Configs, chal: {NoRow}, id: AgentIds \cup {NoRow}]
RevokeTask == [step: {"rowRevoked"}, id: AgentIds, key: AgentKeys, chal: {NoRow}]
RotateTask == [step: {"rotateRead", "rotated", "bound"}, id: AgentIds, cfg: Configs, chal: {NoRow},
               from: Configs, version: Nat]
InputRow == [cfg: Configs, version: Nat]
AttestRow == [realm: Realms, human: Humans, key: AgentKeys, exp: Nat, used: BOOLEAN]
Working == RegTask \cup VcTask \cup RevokeTask \cup RotateTask

RegTypeOK ==
  /\ rtime \in 0..RegLast
  /\ agents \in [AgentIds -> AgentRow \cup {NoRow}]
  /\ inputs \in [AgentIds -> InputRow \cup {NoRow}]
  /\ attests \in [AttestIds -> AttestRow \cup {NoRow}]
  /\ task \in [Tasks -> Working \cup {NoTask}]
  /\ attested \in [AttestIds -> SUBSET AgentIds]

\* The step a task is at says what kind of task it is.
LEMMA TaskKinds ==
  ASSUME RegTypeOK, NEW k \in Tasks
  PROVE  /\ task[k].step \in {"challenged", "attestOk", "keyFree", "linked", "approved", "rowInserted"} =>
              task[k] \in RegTask
         /\ task[k].step \in {"vcTrusted", "vcChecked", "vcInserted"} => task[k] \in VcTask
         /\ task[k].step = "ringDue" => task[k] \in RegTask \cup VcTask
         /\ task[k].step = "rowRevoked" => task[k] \in RevokeTask
         /\ task[k].step \in {"rotateRead", "rotated", "bound"} => task[k] \in RotateTask
         /\ NoTask.step = "free"
BY DEF RegTypeOK, Working, RegTask, VcTask, RevokeTask, RotateTask, NoTask

\* A row that is there is a row.
LEMMA RowTypes ==
  ASSUME RegTypeOK, NEW a \in AgentIds
  PROVE  a \in Rows <=> agents[a] \in AgentRow
BY RegistryAssumption DEF RegTypeOK, Rows

\* What moving to a step does to a task.
LEMMA StepFacts ==
  ASSUME RegTypeOK, NEW k \in Tasks, NEW s, Step(k, s),
         \/ task[k] \in RegTask /\ s \in {"attestOk", "keyFree", "linked", "approved", "ringDue"}
         \/ task[k] \in VcTask /\ s \in {"vcChecked", "ringDue"}
         \/ task[k] \in RotateTask /\ s \in {"rotated", "bound"}
  PROVE  /\ task' \in [Tasks -> Working \cup {NoTask}]
         /\ \A m \in Tasks \ {k} : task'[m] = task[m]
         /\ task'[k].step = s /\ task'[k].chal = task[k].chal
         /\ task[k] \in RegTask =>
              /\ task'[k] \in RegTask /\ task'[k].key = task[k].key /\ task'[k].id = task[k].id
              /\ task'[k].parent = task[k].parent /\ task'[k].human = task[k].human
              /\ task'[k].scope = task[k].scope /\ task'[k].depth = task[k].depth
         /\ task[k] \in VcTask =>
              task'[k] \in VcTask /\ task'[k].key = task[k].key /\ task'[k].id = task[k].id
         /\ task[k] \in RotateTask => task'[k] \in RotateTask
<1> DEFINE new == [task[k] EXCEPT !.step = s]
<1>1. task' = [task EXCEPT ![k] = new]
  BY DEF Step
<1>2. task[k] \in RegTask /\ s \in {"attestOk", "keyFree", "linked", "approved", "ringDue"} =>
        /\ new \in RegTask /\ new.key = task[k].key /\ new.id = task[k].id
        /\ new.parent = task[k].parent /\ new.human = task[k].human /\ new.step = s
        /\ new.scope = task[k].scope /\ new.depth = task[k].depth /\ new.chal = task[k].chal
  BY DEF RegTask
<1>3. task[k] \in VcTask /\ s \in {"vcChecked", "ringDue"} =>
        /\ new \in VcTask /\ new.key = task[k].key /\ new.id = task[k].id /\ new.step = s
        /\ new.chal = task[k].chal
  BY DEF VcTask
<1>4. task[k] \in RotateTask /\ s \in {"rotated", "bound"} =>
        new \in RotateTask /\ new.step = s /\ new.chal = task[k].chal
  BY DEF RotateTask
<1>5. /\ ~(task[k] \in RegTask /\ task[k] \in VcTask)
      /\ ~(task[k] \in RegTask /\ task[k] \in RotateTask)
      /\ ~(task[k] \in VcTask /\ task[k] \in RotateTask)
  <2>1. task[k] \in RegTask => "parent" \in DOMAIN task[k] /\ "version" \notin DOMAIN task[k]
    BY DEF RegTask
  <2>2. task[k] \in VcTask => "parent" \notin DOMAIN task[k] /\ "version" \notin DOMAIN task[k]
    BY DEF VcTask
  <2>3. task[k] \in RotateTask => "version" \in DOMAIN task[k]
    BY DEF RotateTask
  <2> QED BY <2>1, <2>2, <2>3
<1> HIDE DEF new
<1>6. task'[k] = new /\ \A m \in Tasks \ {k} : task'[m] = task[m]
  BY <1>1 DEF RegTypeOK
<1>7. new \in Working
  BY <1>2, <1>3, <1>4 DEF Working
<1>8. task' \in [Tasks -> Working \cup {NoTask}]
  BY <1>1, <1>7 DEF RegTypeOK
<1> QED BY <1>2, <1>3, <1>4, <1>5, <1>6, <1>8

LEMMA FinishFacts ==
  ASSUME RegTypeOK, NEW k \in Tasks, Finish(k)
  PROVE  /\ task' \in [Tasks -> Working \cup {NoTask}]
         /\ \A m \in Tasks \ {k} : task'[m] = task[m]
         /\ task'[k] = NoTask /\ task'[k].step = "free"
BY DEF RegTypeOK, Finish, NoTask

\* A task is given something to do.
LEMMA TaskSet ==
  ASSUME RegTypeOK, NEW k \in Tasks, NEW new \in Working, task' = [task EXCEPT ![k] = new]
  PROVE  /\ task' \in [Tasks -> Working \cup {NoTask}]
         /\ \A m \in Tasks \ {k} : task'[m] = task[m]
         /\ task'[k] = new
BY DEF RegTypeOK

\* The steps of a task that has changed a row and not yet the ring.
Pending == {"rowInserted", "vcInserted", "ringDue", "rowRevoked"}
Joining == Pending \ {"rowRevoked"}
Vouched == {"attestOk", "keyFree", "linked", "approved"}

\* Steps that change neither a row nor the ring.
QuietTask(k) ==
  \/ \E r \in Registrations : BeginRegister(k, r)
  \/ ConsumeAttestation(k) \/ CheckKeyFree(k) \/ CheckBankLink(k) \/ CheckParent(k)
  \/ \E r \in VcRequests : BeginVc(k, r)
  \/ CheckVc(k)
  \/ \E a \in AgentIds, cfg \in Configs : BeginRotate(k, a, cfg)
  \/ RotateInputs(k) \/ AuditRotation(k)

\* What such a step does.
LEMMA QuietFacts ==
  ASSUME RegTypeOK, NEW k \in Tasks, QuietTask(k)
  PROVE  /\ RegTypeOK'
         /\ UNCHANGED <<agents, group, attested, raced, kept, orphaned, replaced>>
         /\ \A m \in Tasks \ {k} : task'[m] = task[m]
         /\ task[k].step \notin Pending /\ task'[k].step \notin Pending
<1> DEFINE Goal == /\ RegTypeOK'
                   /\ UNCHANGED <<agents, group, attested, raced, kept, orphaned, replaced>>
                   /\ \A m \in Tasks \ {k} : task'[m] = task[m]
                   /\ task[k].step \notin Pending /\ task'[k].step \notin Pending
<1>f. ASSUME Finish(k), UNCHANGED <<rtime, agents, inputs, group, regHistory>>,
             attests' \in [AttestIds -> AttestRow \cup {NoRow}], task[k].step \notin Pending
      PROVE  Goal
  BY <1>f, FinishFacts DEF RegTypeOK, regHistory, Pending
<1>1. ASSUME NEW r \in Registrations, BeginRegister(k, r) PROVE Goal
  <2> DEFINE new == [step |-> IF r.chal = NoRow THEN "attestOk" ELSE "challenged", realm |-> r.realm,
                     human |-> r.human, key |-> r.key, scope |-> r.scope, parent |-> r.parent,
                     cfg |-> r.cfg, chal |-> r.chal, depth |-> 0, id |-> NoRow]
  <2>1. /\ task[k] = NoTask /\ task' = [task EXCEPT ![k] = new]
        /\ UNCHANGED <<rtime, agents, inputs, attests, group, attested, raced, kept, orphaned, replaced>>
    BY <1>1 DEF BeginRegister, regTables, regHistory
  <2>2. new \in RegTask /\ new.step \in {"attestOk", "challenged"}
    BY RegistryAssumption DEF RegTask
  <2> HIDE DEF new
  <2>3. /\ task' \in [Tasks -> Working \cup {NoTask}] /\ task'[k] = new
        /\ \A m \in Tasks \ {k} : task'[m] = task[m]
    BY <2>1, <2>2, TaskSet DEF Working
  <2> QED BY <2>1, <2>2, <2>3 DEF RegTypeOK, NoTask, Pending
<1>2. CASE ConsumeAttestation(k)
  <2> DEFINE c == task[k].chal
  <2>1. /\ task[k].step = "challenged" /\ task[k] \in RegTask
        /\ UNCHANGED <<rtime, agents, inputs, group, attested, raced, kept, orphaned, replaced, overlapped, cut>>
    BY <1>2, TaskKinds DEF ConsumeAttestation, At, regHistory
  <2>2. CASE UNCHANGED attests /\ Finish(k)
    BY <1>f, <2>1, <2>2 DEF RegTypeOK, regHistory, Pending
  <2>3. CASE attests' = [attests EXCEPT ![c].used = TRUE] /\ Step(k, "attestOk")
    <3>1. attests' \in [AttestIds -> AttestRow \cup {NoRow}]
      <4>1. CASE c \in AttestIds /\ attests[c] \in AttestRow
        <5>1. [attests[c] EXCEPT !.used = TRUE] \in AttestRow
          BY <4>1 DEF AttestRow
        <5> QED BY <2>3, <5>1 DEF RegTypeOK
      <4>2. CASE c \notin AttestIds
        BY <2>3, <4>2 DEF RegTypeOK
      <4>3. CASE c \in AttestIds /\ attests[c] = NoRow
        BY <1>2, <4>3, <2>1, <2>3 DEF ConsumeAttestation, ChallengeOpen, Finish, Step, RegTypeOK, NoTask, RegTask
      <4> QED BY <4>1, <4>2, <4>3 DEF RegTypeOK
    <3> QED BY <2>1, <2>3, <3>1, StepFacts DEF RegTypeOK, Pending
  <2> QED BY <1>2, <2>2, <2>3 DEF ConsumeAttestation
<1>3. CASE CheckKeyFree(k)
  <2>1. /\ task[k].step = "attestOk" /\ task[k] \in RegTask
        /\ Finish(k) \/ Step(k, "keyFree")
        /\ UNCHANGED <<rtime, agents, inputs, attests, group, attested, raced, kept, orphaned, replaced, overlapped, cut>>
    BY <1>3, TaskKinds DEF CheckKeyFree, At, regTables, regHistory
  <2>2. CASE Finish(k)
    BY <1>f, <2>1, <2>2 DEF RegTypeOK, regHistory, Pending
  <2>3. CASE Step(k, "keyFree")
    BY <2>1, <2>3, StepFacts DEF RegTypeOK, Pending
  <2> QED BY <2>1, <2>2, <2>3
<1>4. CASE CheckBankLink(k)
  <2>1. /\ task[k].step = "keyFree" /\ task[k] \in RegTask
        /\ Finish(k) \/ Step(k, "linked")
        /\ UNCHANGED <<rtime, agents, inputs, attests, group, attested, raced, kept, orphaned, replaced, overlapped, cut>>
    BY <1>4, TaskKinds DEF CheckBankLink, At, regTables, regHistory
  <2>2. CASE Finish(k)
    BY <1>f, <2>1, <2>2 DEF RegTypeOK, regHistory, Pending
  <2>3. CASE Step(k, "linked")
    BY <2>1, <2>3, StepFacts DEF RegTypeOK, Pending
  <2> QED BY <2>1, <2>2, <2>3
<1>5. CASE CheckParent(k)
  <2> DEFINE p == task[k].parent
             new == [task[k] EXCEPT !.step = "approved", !.depth = agents[p].depth + 1]
  <2>1. /\ task[k].step = "linked" /\ task[k] \in RegTask
        /\ UNCHANGED <<rtime, agents, inputs, attests, group, attested, raced, kept, orphaned, replaced, overlapped, cut>>
    BY <1>5, TaskKinds DEF CheckParent, At, regTables, regHistory
  <2>2. CASE Finish(k)
    BY <1>f, <2>1, <2>2 DEF RegTypeOK, regHistory, Pending
  <2>3. CASE Step(k, "approved")
    BY <2>1, <2>3, StepFacts DEF RegTypeOK, Pending
  <2>4. CASE p # NoRow /\ MayDelegate(p, k) /\ task' = [task EXCEPT ![k] = new]
    <3>1. p \in AgentIds /\ agents[p] \in AgentRow
      BY <2>1, <2>4 DEF RegTask, MayDelegate, RegTypeOK
    <3>2. agents[p].depth + 1 \in Nat
      BY <3>1 DEF AgentRow
    <3>3. new \in RegTask /\ new.step = "approved"
      BY <2>1, <3>2 DEF RegTask
    <3> HIDE DEF new
    <3>4. /\ task' \in [Tasks -> Working \cup {NoTask}] /\ task'[k] = new
          /\ \A m \in Tasks \ {k} : task'[m] = task[m]
      BY <2>4, <3>3, TaskSet DEF Working
    <3> QED BY <2>1, <3>3, <3>4 DEF RegTypeOK, Pending
  <2> QED BY <1>5, <2>2, <2>3, <2>4 DEF CheckParent
<1>6. ASSUME NEW r \in VcRequests, BeginVc(k, r) PROVE Goal
  <2> DEFINE new == [step |-> "vcTrusted", realm |-> r.realm, human |-> r.human, key |-> r.key,
                     scope |-> r.scope, cfg |-> r.cfg, chal |-> NoRow, id |-> NoRow]
  <2>1. /\ task[k] = NoTask /\ task' = [task EXCEPT ![k] = new]
        /\ UNCHANGED <<rtime, agents, inputs, attests, group, attested, raced, kept, orphaned, replaced>>
    BY <1>6 DEF BeginVc, regTables, regHistory
  <2>2. new \in VcTask /\ new.step = "vcTrusted"
    BY RegistryAssumption DEF VcTask
  <2> HIDE DEF new
  <2>3. /\ task' \in [Tasks -> Working \cup {NoTask}] /\ task'[k] = new
        /\ \A m \in Tasks \ {k} : task'[m] = task[m]
    BY <2>1, <2>2, TaskSet DEF Working
  <2> QED BY <2>1, <2>2, <2>3 DEF RegTypeOK, NoTask, Pending
<1>7. CASE CheckVc(k)
  <2>1. /\ task[k].step = "vcTrusted" /\ task[k] \in VcTask
        /\ Finish(k) \/ Step(k, "vcChecked")
        /\ UNCHANGED <<rtime, agents, inputs, attests, group, attested, raced, kept, orphaned, replaced, overlapped, cut>>
    BY <1>7, TaskKinds DEF CheckVc, At, regTables, regHistory
  <2>2. CASE Finish(k)
    BY <1>f, <2>1, <2>2 DEF RegTypeOK, regHistory, Pending
  <2>3. CASE Step(k, "vcChecked")
    BY <2>1, <2>3, StepFacts DEF RegTypeOK, Pending
  <2> QED BY <2>1, <2>2, <2>3
<1>8. ASSUME NEW a \in AgentIds, NEW cfg \in Configs, BeginRotate(k, a, cfg) PROVE Goal
  <2> DEFINE new == [step |-> "rotateRead", id |-> a, cfg |-> cfg, chal |-> NoRow,
                     from |-> inputs[a].cfg, version |-> inputs[a].version]
  <2>1. /\ task[k] = NoTask /\ task' = [task EXCEPT ![k] = new] /\ inputs[a] # NoRow
        /\ UNCHANGED <<rtime, agents, inputs, attests, group, attested, raced, kept, orphaned, replaced>>
    BY <1>8 DEF BeginRotate, regTables
  <2>2. inputs[a] \in InputRow
    BY <2>1 DEF RegTypeOK
  <2>3. new \in RotateTask /\ new.step = "rotateRead"
    BY <2>2 DEF RotateTask, InputRow
  <2> HIDE DEF new
  <2>4. /\ task' \in [Tasks -> Working \cup {NoTask}] /\ task'[k] = new
        /\ \A m \in Tasks \ {k} : task'[m] = task[m]
    BY <2>1, <2>3, TaskSet DEF Working
  <2> QED BY <2>1, <2>3, <2>4 DEF RegTypeOK, NoTask, Pending
<1>9. CASE RotateInputs(k)
  <2> DEFINE new == [cfg |-> task[k].cfg, version |-> task[k].version + 1]
  <2>1. /\ task[k].step = "rotateRead" /\ task[k] \in RotateTask /\ Step(k, "rotated")
        /\ inputs' = [inputs EXCEPT ![task[k].id] = new]
        /\ UNCHANGED <<rtime, agents, attests, group, attested, raced, kept, orphaned, replaced>>
    BY <1>9, TaskKinds DEF RotateInputs, At, regHistory
  <2>2. new \in InputRow
    BY <2>1 DEF RotateTask, InputRow
  <2> HIDE DEF new
  <2>3. inputs' \in [AgentIds -> InputRow \cup {NoRow}]
    BY <2>1, <2>2 DEF RegTypeOK
  <2> QED BY <2>1, <2>3, StepFacts DEF RegTypeOK, Pending
<1>10. CASE AuditRotation(k)
  <2>1. /\ task[k].step = "bound" /\ Finish(k)
        /\ UNCHANGED <<rtime, agents, inputs, attests, group, attested, raced, kept, orphaned, replaced, overlapped, cut>>
    BY <1>10 DEF AuditRotation, At, regHistory
  <2> QED BY <1>f, <2>1 DEF RegTypeOK, regHistory, Pending
<1> QED BY <1>1, <1>2, <1>3, <1>4, <1>5, <1>6, <1>7, <1>8, <1>9, <1>10 DEF QuietTask

----------------------------------------------------------------------------
(* Where authority comes from, and what the ring holds.                    *)

\* The authority w (of a row, or of a registration) is within its parent's.
Descends(w) ==
  \/ w.parent \in replaced
  \/ /\ w.parent \in Rows
     /\ w.human = agents[w.parent].human
     /\ w.scope \subseteq agents[w.parent].scope
     /\ w.depth = agents[w.parent].depth + 1

Derived(a) == a \in Rows /\ agents[a].parent # NoRow => Descends(agents[a])
Approved(k) == task[k].step = "approved" /\ task[k].parent # NoRow => Descends(task[k])

\* A challenge has vouched for one agent, or for one registration still to
\* become an agent, or for none; once it has, it is used up.
HasVouched(k, c) == task[k].step \in Vouched /\ task[k].chal = c
VouchesOnce(c) ==
  /\ attested[c] = {} \/ \E a \in AgentIds : attested[c] = {a}
  /\ attested[c] # {} => attests[c] = NoRow \/ attests[c].used
  /\ \A k \in Tasks : HasVouched(k, c) =>
       /\ attested[c] = {}
       /\ attests[c] = NoRow \/ attests[c].used
       /\ \A m \in Tasks : HasVouched(m, c) => m = k

\* Of a key that no two tasks changed at once: the one task still to change its
\* entry knows whether an agent has it, and without one the ring does.
InUse(key) == \E a \in Active : agents[a].key = key
RingRight(key) == IF InUse(key) THEN key \in group \cup orphaned ELSE key \in group => key \in kept
RingKnows(key) ==
  key \notin raced =>
    /\ \A k, m \in RingPending(key) : k = m
    /\ RingPending(key) = {} => RingRight(key)
    /\ \A k \in RingPending(key) :
         /\ task[k].step # "rowRevoked" => InUse(key)
         /\ task[k].step = "rowRevoked" =>
              /\ InUse(key) => key \in orphaned
              /\ task[k].id \in Rows /\ agents[task[k].id].key = key

RegInv ==
  /\ RegTypeOK
  /\ \A a \in AgentIds : Derived(a)
  /\ \A k \in Tasks : Approved(k)
  /\ \A c \in AttestIds : VouchesOnce(c)
  /\ \A key \in AgentKeys : RingKnows(key)

\* What no step undoes in a row, unless it replaces the row.
RowsKept ==
  /\ replaced \subseteq replaced'
  /\ \A p \in Rows : \/ p \in replaced'
                     \/ /\ p \in Rows' /\ agents'[p].human = agents[p].human
                        /\ agents'[p].scope = agents[p].scope /\ agents'[p].depth = agents[p].depth

\* Authority stays within its parent's.
LEMMA SourceKept ==
  ASSUME RegInv, RowsKept, NEW k \in Tasks, \A m \in Tasks \ {k} : task'[m] = task[m],
         Approved(k)',
         \A a \in Rows' : \/ Derived(a)'
                          \/ /\ a \in Rows /\ agents'[a].parent = agents[a].parent
                             /\ agents'[a].human = agents[a].human
                             /\ agents'[a].scope = agents[a].scope
                             /\ agents'[a].depth = agents[a].depth
  PROVE  (\A a \in AgentIds : Derived(a)') /\ (\A m \in Tasks : Approved(m)')
<1>1. ASSUME NEW a \in AgentIds, a \in Rows', a \in Rows, agents'[a].parent = agents[a].parent,
             agents'[a].human = agents[a].human, agents'[a].scope = agents[a].scope,
             agents'[a].depth = agents[a].depth
      PROVE  Derived(a)'
  <2>1. Derived(a)
    BY DEF RegInv
  <2> QED BY <1>1, <2>1 DEF Derived, Descends, RowsKept
<1>2. ASSUME NEW m \in Tasks \ {k} PROVE Approved(m)'
  <2>1. Approved(m) /\ task'[m] = task[m]
    BY DEF RegInv
  <2> QED BY <2>1 DEF Approved, Descends, RowsKept
<1>3. ASSUME NEW a \in AgentIds PROVE Derived(a)'
  BY <1>1 DEF Derived
<1> QED BY <1>2, <1>3

\* A task that vouches for nothing new.
LEMMA VouchKept ==
  ASSUME RegInv, NEW k \in Tasks, \A m \in Tasks \ {k} : task'[m] = task[m],
         UNCHANGED <<attests, attested>>, NEW c \in AttestIds,
         HasVouched(k, c)' => HasVouched(k, c)
  PROVE  VouchesOnce(c)'
<1>1. VouchesOnce(c)
  BY DEF RegInv
<1>2. ASSUME NEW m \in Tasks, HasVouched(m, c)' PROVE HasVouched(m, c)
  BY <1>2 DEF HasVouched
<1> QED BY <1>1, <1>2 DEF VouchesOnce

\* A task that has nothing to do with the ring.
LEMMA RingSame ==
  ASSUME RegInv, NEW k \in Tasks, \A m \in Tasks \ {k} : task'[m] = task[m],
         task[k].step \notin Pending, task'[k].step \notin Pending,
         UNCHANGED <<agents, group, raced, kept, orphaned>>, NEW key \in AgentKeys
  PROVE  RingKnows(key)'
<1>1. RingKnows(key)
  BY DEF RegInv
<1>2. RingPending(key)' = RingPending(key) /\ k \notin RingPending(key)
  BY DEF RingPending, Pending
<1>3. \A m \in RingPending(key) : task'[m] = task[m]
  BY <1>2 DEF RingPending
<1> QED BY <1>1, <1>2, <1>3 DEF RingKnows, RingRight, InUse, Active, Rows

\* The quiet steps keep the invariant.
LEMMA QuietKeeps ==
  ASSUME RegInv, NEW k \in Tasks, QuietTask(k) PROVE RegInv'
<1>t. RegTypeOK
  BY DEF RegInv
<1>q. /\ RegTypeOK'
      /\ UNCHANGED <<agents, group, attested, raced, kept, orphaned, replaced>>
      /\ \A m \in Tasks \ {k} : task'[m] = task[m]
      /\ task[k].step \notin Pending /\ task'[k].step \notin Pending
  BY <1>t, QuietFacts
<1>1. Approved(k)' /\ \A c \in AttestIds : VouchesOnce(c)'
  <2>u. ASSUME task'[k].step \notin Vouched, UNCHANGED attests
        PROVE  Approved(k)' /\ \A c \in AttestIds : VouchesOnce(c)'
    BY <1>q, <2>u, VouchKept DEF Approved, HasVouched, Vouched
  <2>s. ASSUME NEW s \in Vouched, Step(k, s), task[k] \in RegTask, task[k].step \in Vouched, UNCHANGED attests,
               s = "approved" => task[k].parent = NoRow
        PROVE  Approved(k)' /\ \A c \in AttestIds : VouchesOnce(c)'
    <3>1. task'[k].step = s /\ task'[k].chal = task[k].chal /\ task'[k].parent = task[k].parent
      BY <1>t, <2>s, StepFacts DEF Vouched
    <3> QED BY <1>q, <2>s, <3>1, VouchKept DEF Approved, HasVouched
  <2>1. ASSUME NEW r \in Registrations, BeginRegister(k, r)
        PROVE  Approved(k)' /\ \A c \in AttestIds : VouchesOnce(c)'
    <3>1. /\ task'[k].step = (IF r.chal = NoRow THEN "attestOk" ELSE "challenged")
          /\ task'[k].chal = r.chal /\ UNCHANGED attests
      BY <1>t, <2>1 DEF BeginRegister, RegTypeOK, regTables
    <3>2. \A c \in AttestIds : ~HasVouched(k, c)'
      BY <3>1, RegistryAssumption DEF HasVouched, Vouched
    <3> QED BY <1>q, <3>1, <3>2, VouchKept DEF Approved
  <2>2. CASE ConsumeAttestation(k)
    <3> DEFINE d == task[k].chal
    <3>1. task[k].step = "challenged" /\ task[k] \in RegTask
      BY <1>t, <2>2, TaskKinds DEF ConsumeAttestation, At
    <3>2. CASE UNCHANGED attests /\ Finish(k)
      BY <1>t, <2>u, <3>2, FinishFacts DEF Vouched
    <3>3. CASE /\ ChallengeOpen(d, task[k])
               /\ attests' = [attests EXCEPT ![d].used = TRUE] /\ Step(k, "attestOk")
      <4>1. task'[k].step = "attestOk" /\ task'[k].chal = d
        BY <1>t, <3>1, <3>3, StepFacts
      <4>2. \A c \in AttestIds \ {d} : attests'[c] = attests[c]
        BY <1>t, <3>3 DEF RegTypeOK
      <4>3. ASSUME NEW c \in AttestIds \ {d} PROVE VouchesOnce(c)'
        <5>1. VouchesOnce(c)
          BY DEF RegInv
        <5>2. \A m \in Tasks : HasVouched(m, c)' => HasVouched(m, c)
          BY <1>q, <4>1 DEF HasVouched
        <5> QED BY <1>q, <4>2, <5>1, <5>2 DEF VouchesOnce
      <4>4. ASSUME d \in AttestIds PROVE VouchesOnce(d)'
        <5>1. VouchesOnce(d)
          BY <4>4 DEF RegInv
        <5>2. attests[d] \in AttestRow /\ ~attests[d].used
          BY <1>t, <3>3, <4>4 DEF RegTypeOK, ChallengeOpen
        <5>3. attests[d] # NoRow
          BY <3>3 DEF ChallengeOpen
        <5>4. attests'[d].used
          <6>1. [attests[d] EXCEPT !.used = TRUE].used
            BY <5>2 DEF AttestRow
          <6>2. attests'[d] = [attests[d] EXCEPT !.used = TRUE]
            BY <1>t, <3>3, <4>4 DEF RegTypeOK
          <6> QED BY <6>1, <6>2
        <5>5. attested[d] = {} /\ \A m \in Tasks : ~HasVouched(m, d)
          BY <5>1, <5>2, <5>3 DEF VouchesOnce
        <5>6. \A m \in Tasks : m # k => ~(task'[m].step \in Vouched /\ task'[m].chal = d)
          BY <1>q, <5>5 DEF HasVouched
        <5>7. ASSUME NEW c, c = d PROVE VouchesOnce(c)'
          BY <1>q, <5>4, <5>5, <5>6, <5>7 DEF VouchesOnce, HasVouched
        <5> QED BY <4>1, <5>7 DEF VouchesOnce, HasVouched
      <4> QED BY <4>1, <4>3, <4>4 DEF Approved
    <3> QED BY <2>2, <3>2, <3>3 DEF ConsumeAttestation
  <2>3. CASE CheckKeyFree(k)
    <3>1. /\ task[k].step = "attestOk" /\ task[k] \in RegTask /\ UNCHANGED attests
          /\ Finish(k) \/ Step(k, "keyFree")
      BY <1>t, <2>3, TaskKinds DEF CheckKeyFree, At, regTables
    <3>2. CASE Finish(k)
      BY <1>t, <2>u, <3>1, <3>2, FinishFacts DEF Vouched
    <3> QED BY <2>s, <3>1, <3>2 DEF Vouched
  <2>4. CASE CheckBankLink(k)
    <3>1. /\ task[k].step = "keyFree" /\ task[k] \in RegTask /\ UNCHANGED attests
          /\ Finish(k) \/ Step(k, "linked")
      BY <1>t, <2>4, TaskKinds DEF CheckBankLink, At, regTables
    <3>2. CASE Finish(k)
      BY <1>t, <2>u, <3>1, <3>2, FinishFacts DEF Vouched
    <3> QED BY <2>s, <3>1, <3>2 DEF Vouched
  <2>5. CASE CheckParent(k)
    <3> DEFINE p == task[k].parent
               new == [task[k] EXCEPT !.step = "approved", !.depth = agents[p].depth + 1]
    <3>1. task[k].step = "linked" /\ task[k] \in RegTask /\ UNCHANGED attests
      BY <1>t, <2>5, TaskKinds DEF CheckParent, At, regTables
    <3>2. CASE Finish(k)
      BY <1>t, <2>u, <3>1, <3>2, FinishFacts DEF Vouched
    <3>3. CASE p = NoRow /\ Step(k, "approved")
      BY <2>s, <3>1, <3>3 DEF Vouched
    <3>4. CASE p # NoRow /\ MayDelegate(p, k) /\ task' = [task EXCEPT ![k] = new]
      <4>1. /\ new.step = "approved" /\ new.chal = task[k].chal /\ new.parent = p
            /\ new.human = task[k].human /\ new.scope = task[k].scope
            /\ new.depth = agents[p].depth + 1
        BY <3>1 DEF RegTask
      <4> HIDE DEF new
      <4>2. task'[k] = new
        BY <1>t, <3>4 DEF RegTypeOK
      <4>3. p \in Rows /\ agents[p].human = task[k].human /\ task[k].scope \subseteq agents[p].scope
        BY <3>1, <3>4 DEF MayDelegate, Rows, RegTask
      <4>4. Approved(k)'
        BY <1>q, <4>1, <4>2, <4>3 DEF Approved, Descends, Rows
      <4>5. \A c \in AttestIds : HasVouched(k, c)' => HasVouched(k, c)
        BY <3>1, <4>1, <4>2 DEF HasVouched, Vouched
      <4> QED BY <1>q, <3>1, <4>4, <4>5, VouchKept
    <3> QED BY <2>5, <3>2, <3>3, <3>4 DEF CheckParent
  <2>6. ASSUME NEW r \in VcRequests, BeginVc(k, r)
        PROVE  Approved(k)' /\ \A c \in AttestIds : VouchesOnce(c)'
    BY <1>t, <2>u, <2>6 DEF BeginVc, RegTypeOK, regTables, Vouched
  <2>7. CASE CheckVc(k)
    <3>1. /\ task[k] \in VcTask /\ UNCHANGED attests
          /\ Finish(k) \/ Step(k, "vcChecked")
      BY <1>t, <2>7, TaskKinds DEF CheckVc, At, regTables
    <3>2. task'[k].step \in {"free", "vcChecked"}
      BY <1>t, <3>1, FinishFacts, StepFacts
    <3> QED BY <2>u, <3>1, <3>2 DEF Vouched
  <2>8. ASSUME NEW a \in AgentIds, NEW cfg \in Configs, BeginRotate(k, a, cfg)
        PROVE  Approved(k)' /\ \A c \in AttestIds : VouchesOnce(c)'
    BY <1>t, <2>u, <2>8 DEF BeginRotate, RegTypeOK, regTables, Vouched
  <2>9. CASE RotateInputs(k)
    <3>1. task[k] \in RotateTask /\ UNCHANGED attests /\ Step(k, "rotated")
      BY <1>t, <2>9, TaskKinds DEF RotateInputs, At
    <3>2. task'[k].step = "rotated"
      BY <1>t, <3>1, StepFacts
    <3> QED BY <2>u, <3>1, <3>2 DEF Vouched
  <2>10. CASE AuditRotation(k)
    BY <1>t, <2>u, <2>10, FinishFacts DEF AuditRotation, Vouched
  <2> QED BY <2>1, <2>2, <2>3, <2>4, <2>5, <2>6, <2>7, <2>8, <2>9, <2>10 DEF QuietTask
<1>2. (\A a \in AgentIds : Derived(a)') /\ (\A m \in Tasks : Approved(m)')
  <2>1. RowsKept /\ Rows' = Rows
    BY <1>q DEF RowsKept, Rows
  <2> QED BY <1>q, <1>1, <2>1, SourceKept
<1>3. \A key \in AgentKeys : RingKnows(key)'
  BY <1>q, RingSame
<1> QED BY <1>q, <1>1, <1>2, <1>3 DEF RegInv

\* The entry of another key than the one a task works on.
LEMMA RingElsewhere ==
  ASSUME RegInv, NEW k \in Tasks, \A m \in Tasks \ {k} : task'[m] = task[m], NEW key \in AgentKeys,
         k \notin RingPending(key), k \notin RingPending(key)', raced \subseteq raced',
         kept \subseteq kept', orphaned \subseteq orphaned',
         key \notin raced' => /\ key \in group' <=> key \in group
                              /\ InUse(key)' <=> InUse(key)
                              /\ \A a \in Rows : agents[a].key = key => a \in Rows' /\ agents'[a].key = key
  PROVE  RingKnows(key)'
<1> SUFFICES ASSUME key \notin raced'
             PROVE  /\ \A l, m \in RingPending(key)' : l = m
                    /\ RingPending(key)' = {} => RingRight(key)'
                    /\ \A m \in RingPending(key)' :
                         /\ task'[m].step # "rowRevoked" => InUse(key)'
                         /\ task'[m].step = "rowRevoked" =>
                              /\ InUse(key)' => key \in orphaned'
                              /\ task'[m].id \in Rows' /\ agents'[task'[m].id].key = key
  BY DEF RingKnows
<1>1. RingKnows(key) /\ key \notin raced
  BY DEF RegInv
<1>2. RingPending(key)' = RingPending(key)
  BY DEF RingPending
<1>3. \A m \in RingPending(key) : task'[m] = task[m]
  BY DEF RingPending
<1>4. RingRight(key) => RingRight(key)'
  BY DEF RingRight
<1> QED BY <1>1, <1>2, <1>3, <1>4 DEF RingKnows

\* The entry of the key a task works on, when no other task does.
LEMMA RingHere ==
  ASSUME RegInv, NEW k \in Tasks, \A m \in Tasks \ {k} : task'[m] = task[m], NEW key \in AgentKeys,
         raced \subseteq raced', key \notin raced' => RingPending(key) \ {k} = {},
         key \notin raced' =>
           IF k \in RingPending(key)'
             THEN /\ task'[k].step # "rowRevoked" => InUse(key)'
                  /\ task'[k].step = "rowRevoked" =>
                       /\ InUse(key)' => key \in orphaned'
                       /\ task'[k].id \in Rows' /\ agents'[task'[k].id].key = key
             ELSE RingRight(key)'
  PROVE  RingKnows(key)'
<1>1. ASSUME key \notin raced', NEW m \in RingPending(key)' PROVE m = k
  BY <1>1 DEF RingPending
<1> QED BY <1>1 DEF RingKnows

\* register_agent inserts the row.
LEMMA InsertAgentKeeps ==
  ASSUME RegInv, NEW k \in Tasks, NEW a \in Ids, InsertAgent(k, a) PROVE RegInv'
<1>t. RegTypeOK
  BY DEF RegInv
<1>1. /\ task[k].step = "approved" /\ task[k] \in RegTask /\ a \in AgentIds
      /\ a \notin Rows /\ a \notin replaced
      /\ UNCHANGED <<rtime, inputs, attests, group, kept, orphaned, replaced>>
  BY <1>t, TaskKinds DEF InsertAgent, At, AgentIds
<1>2. CASE Finish(k) /\ UNCHANGED <<agents, attested, raced>>
  <2>1. /\ task' \in [Tasks -> Working \cup {NoTask}]
        /\ \A m \in Tasks \ {k} : task'[m] = task[m]
        /\ task'[k].step = "free"
    BY <1>t, <1>2, FinishFacts
  <2>2. RegTypeOK'
    BY <1>t, <1>1, <1>2, <2>1 DEF RegTypeOK
  <2>3. RowsKept /\ Rows' = Rows
    BY <1>1, <1>2 DEF RowsKept, Rows
  <2>4. (\A b \in AgentIds : Derived(b)') /\ (\A m \in Tasks : Approved(m)')
    BY <1>2, <2>1, <2>3, SourceKept DEF Approved
  <2>5. \A c \in AttestIds : VouchesOnce(c)'
    BY <1>1, <1>2, <2>1, VouchKept DEF HasVouched, Vouched
  <2>6. \A key \in AgentKeys : RingKnows(key)'
    BY <1>1, <1>2, <2>1, RingSame DEF Pending
  <2> QED BY <2>2, <2>4, <2>5, <2>6 DEF RegInv
<1> DEFINE row == NewRow(k, task[k].depth, task[k].parent)
           new == [task[k] EXCEPT !.step = "rowInserted", !.id = a]
           d == task[k].chal
<1>3. CASE /\ agents' = [agents EXCEPT ![a] = row]
           /\ attested' = IF d = NoRow THEN attested ELSE [attested EXCEPT ![d] = @ \cup {a}]
           /\ task' = [task EXCEPT ![k] = new]
           /\ NoteRace(k, task[k].key)
  <2>1. rtime + LeaseTtl \in Nat
    BY <1>t, RegistryAssumption DEF RegTypeOK
  <2>2. /\ row \in AgentRow /\ row.key = task[k].key /\ ~row.revoked /\ row.parent = task[k].parent
        /\ row.human = task[k].human /\ row.scope = task[k].scope /\ row.depth = task[k].depth
    BY <1>1, <2>1 DEF NewRow, AgentRow, RegTask
  <2>3. /\ new \in RegTask /\ new.step = "rowInserted" /\ new.key = task[k].key /\ new.id = a
        /\ task[k].key \in AgentKeys
    BY <1>1 DEF RegTask
  <2> HIDE DEF row, new
  <2>4. /\ task' \in [Tasks -> Working \cup {NoTask}] /\ task'[k] = new
        /\ \A m \in Tasks \ {k} : task'[m] = task[m]
    BY <1>t, <1>3, <2>3, TaskSet DEF Working
  <2>5. agents'[a] = row /\ \A b \in AgentIds \ {a} : agents'[b] = agents[b]
    BY <1>t, <1>1, <1>3 DEF RegTypeOK
  <2>6. row # NoRow
    BY <2>2, RegistryAssumption
  <2>7. Rows' = Rows \cup {a}
    BY <1>1, <2>5, <2>6 DEF Rows
  <2>8. RegTypeOK'
    <3>1. attested' \in [AttestIds -> SUBSET AgentIds]
      BY <1>t, <1>1, <1>3 DEF RegTypeOK
    <3> QED BY <1>t, <1>1, <1>3, <2>2, <2>4, <3>1 DEF RegTypeOK
  <2>9. RowsKept
    BY <1>1, <2>5, <2>7 DEF RowsKept, Rows
  <2>10. Derived(a)'
    <3>1. Approved(k)
      BY DEF RegInv
    <3>2. row.parent # NoRow => Descends(task[k])
      BY <1>1, <2>2, <3>1 DEF Approved
    <3>3. task[k].parent \in Rows => agents'[task[k].parent] = agents[task[k].parent]
      BY <1>1, <2>5 DEF Rows
    <3> QED BY <1>1, <2>2, <2>5, <2>7, <3>2, <3>3 DEF Derived, Descends
  <2>11. (\A b \in AgentIds : Derived(b)') /\ (\A m \in Tasks : Approved(m)')
    <3>1. \A b \in Rows' : \/ Derived(b)'
                           \/ /\ b \in Rows /\ agents'[b].parent = agents[b].parent
                              /\ agents'[b].human = agents[b].human /\ agents'[b].scope = agents[b].scope
                              /\ agents'[b].depth = agents[b].depth
      BY <1>1, <2>5, <2>7, <2>10 DEF Rows
    <3>2. Approved(k)'
      BY <2>3, <2>4 DEF Approved
    <3> QED BY <2>4, <2>9, <3>1, <3>2, SourceKept
  <2>12. ASSUME NEW c \in AttestIds PROVE VouchesOnce(c)'
    <3>1. VouchesOnce(c)
      BY DEF RegInv
    <3>2. \A m \in Tasks : HasVouched(m, c)' => HasVouched(m, c) /\ m # k
      BY <2>3, <2>4 DEF HasVouched, Vouched
    <3>3. CASE c # d
      <4>1. attested'[c] = attested[c]
        BY <1>t, <1>3, <3>3 DEF RegTypeOK
      <4> QED BY <1>1, <3>1, <3>2, <4>1 DEF VouchesOnce
    <3>4. CASE c = d
      <4>1. HasVouched(k, c)
        BY <1>1, <3>4 DEF HasVouched, Vouched
      <4>2. attested'[c] = {a} /\ (attests[c] = NoRow \/ attests[c].used)
        BY <1>t, <1>3, <3>1, <3>4, <4>1, RegistryAssumption DEF VouchesOnce, RegTypeOK
      <4>3. \A m \in Tasks : ~HasVouched(m, c)'
        BY <3>1, <3>2, <4>1 DEF VouchesOnce
      <4> QED BY <1>1, <4>2, <4>3 DEF VouchesOnce
    <3> QED BY <3>3, <3>4
  <2>13. ASSUME NEW key \in AgentKeys PROVE RingKnows(key)'
    <3>1. /\ raced \subseteq raced'
          /\ task[k].key \notin raced' => RingPending(task[k].key) \ {k} = {}
      BY <1>3 DEF NoteRace
    <3>2. CASE key = task[k].key
      <4>1. k \in RingPending(key)' /\ InUse(key)'
        BY <1>1, <2>2, <2>3, <2>4, <2>5, <2>7, <3>2 DEF RingPending, InUse, Active
      <4> QED BY <2>3, <2>4, <3>1, <3>2, <4>1, RingHere
    <3>3. CASE key # task[k].key
      <4>1. k \notin RingPending(key) /\ k \notin RingPending(key)'
        BY <1>1, <2>3, <2>4, <3>3 DEF RingPending
      <4>2. InUse(key)' <=> InUse(key)
        BY <1>1, <2>2, <2>5, <2>7, <3>3 DEF InUse, Active, Rows
      <4>3. \A b \in Rows : agents[b].key = key => b \in Rows' /\ agents'[b].key = key
        BY <1>1, <2>5, <2>7 DEF Rows
      <4> QED BY <1>1, <2>4, <3>1, <4>1, <4>2, <4>3, RingElsewhere
    <3> QED BY <3>2, <3>3
  <2> QED BY <2>8, <2>11, <2>12, <2>13 DEF RegInv
<1> QED BY <1>2, <1>3 DEF InsertAgent

\* A step that changes neither rows nor challenges, and vouches for nothing: what
\* is left to look at is the ring.
LEMMA TablesKept ==
  ASSUME RegInv, RegTypeOK', NEW k \in Tasks, \A m \in Tasks \ {k} : task'[m] = task[m],
         UNCHANGED <<agents, attests, attested, replaced>>, task'[k].step \notin Vouched,
         \A key \in AgentKeys : RingKnows(key)'
  PROVE  RegInv'
<1>1. RowsKept /\ Rows' = Rows
  BY DEF RowsKept, Rows
<1>2. (\A b \in AgentIds : Derived(b)') /\ (\A m \in Tasks : Approved(m)')
  BY <1>1, SourceKept DEF Approved, Vouched
<1>3. \A c \in AttestIds : VouchesOnce(c)'
  BY VouchKept DEF HasVouched
<1> QED BY <1>2, <1>3 DEF RegInv

\* The row's inputs, or its credential, are stored.
LEMMA PersistKeeps ==
  ASSUME RegInv, NEW k \in Tasks, PersistInputs(k) \/ PersistVc(k) PROVE RegInv'
<1>t. RegTypeOK
  BY DEF RegInv
<1>1. /\ task[k].step \in {"rowInserted", "vcInserted"} /\ task[k] \in RegTask \cup VcTask
      /\ Step(k, "ringDue")
      /\ UNCHANGED <<rtime, agents, attests, group, attested, raced, kept, orphaned, replaced>>
  BY <1>t, TaskKinds DEF PersistInputs, PersistVc, At, regHistory
<1>2. inputs' \in [AgentIds -> InputRow \cup {NoRow}]
  <2>1. CASE PersistVc(k)
    BY <1>t, <2>1 DEF PersistVc, RegTypeOK
  <2>2. CASE PersistInputs(k)
    <3>1. task[k] \in RegTask
      BY <1>t, <2>2, TaskKinds DEF PersistInputs, At
    <3>2. [cfg |-> task[k].cfg, version |-> 1] \in InputRow
      BY <3>1 DEF RegTask, InputRow
    <3> QED BY <1>t, <2>2, <3>2 DEF PersistInputs, RegTypeOK
  <2> QED BY <2>1, <2>2
<1>3. /\ task' \in [Tasks -> Working \cup {NoTask}]
      /\ \A m \in Tasks \ {k} : task'[m] = task[m]
      /\ task'[k].step = "ringDue" /\ task'[k].key = task[k].key
  BY <1>t, <1>1, StepFacts
<1>4. RegTypeOK'
  BY <1>t, <1>1, <1>2, <1>3 DEF RegTypeOK
<1>5. ASSUME NEW key \in AgentKeys PROVE RingKnows(key)'
  <2>1. RingKnows(key)
    BY DEF RegInv
  <2>2. RingPending(key)' = RingPending(key)
    BY <1>1, <1>3 DEF RingPending
  <2>3. \A m \in RingPending(key) :
          \/ task'[m] = task[m]
          \/ task'[m].step # "rowRevoked" /\ task[m].step # "rowRevoked"
    BY <1>1, <1>3 DEF RingPending
  <2> QED BY <1>1, <2>1, <2>2, <2>3 DEF RingKnows, RingRight, InUse, Active, Rows
<1> QED BY <1>1, <1>3, <1>4, <1>5, TablesKept DEF Vouched

\* The point joins the ring.
LEMMA JoinKeeps ==
  ASSUME RegInv, NEW k \in Tasks, JoinGroup(k) PROVE RegInv'
<1>t. RegTypeOK
  BY DEF RegInv
<1>1. /\ task[k].step = "ringDue" /\ task[k] \in RegTask \cup VcTask
      /\ group' = group \cup {task[k].key} /\ NoteRace(k, task[k].key) /\ Finish(k)
      /\ UNCHANGED <<rtime, agents, inputs, attests, attested, kept, orphaned, replaced>>
  BY <1>t, TaskKinds DEF JoinGroup, At, regTables
<1>2. /\ task' \in [Tasks -> Working \cup {NoTask}]
      /\ \A m \in Tasks \ {k} : task'[m] = task[m]
      /\ task'[k].step = "free"
  BY <1>t, <1>1, FinishFacts
<1>3. RegTypeOK'
  BY <1>t, <1>1, <1>2 DEF RegTypeOK
<1>4. /\ raced \subseteq raced'
      /\ task[k].key \notin raced' => RingPending(task[k].key) \ {k} = {}
  BY <1>1 DEF NoteRace
<1>5. ASSUME NEW key \in AgentKeys PROVE RingKnows(key)'
  <2>1. k \notin RingPending(key)' /\ (InUse(key)' <=> InUse(key)) /\ Rows' = Rows
    BY <1>1, <1>2 DEF RingPending, InUse, Active, Rows
  <2>2. CASE key = task[k].key
    <3>1. k \in RingPending(key)
      BY <1>1, <2>2 DEF RingPending
    <3>2. key \notin raced => InUse(key)
      BY <1>1, <3>1 DEF RegInv, RingKnows
    <3>3. key \notin raced' => RingRight(key)'
      BY <1>1, <1>4, <2>1, <2>2, <3>2 DEF RingRight
    <3> QED BY <1>1, <1>2, <1>4, <2>1, <2>2, <3>3, RingHere
  <2>3. CASE key # task[k].key
    <3>1. k \notin RingPending(key)
      BY <2>3 DEF RingPending
    <3> QED BY <1>1, <1>2, <1>4, <2>1, <2>3, <3>1, RingElsewhere
  <2> QED BY <2>2, <2>3
<1> QED BY <1>1, <1>2, <1>3, <1>5, TablesKept DEF Vouched

\* The point leaves the ring, or its key could not be read.
LEMMA DropKeeps ==
  ASSUME RegInv, NEW k \in Tasks, DropRingMember(k) PROVE RegInv'
<1>t. RegTypeOK
  BY DEF RegInv
<1> DEFINE a == task[k].id
<1>1. /\ task[k].step = "rowRevoked" /\ task[k] \in RevokeTask /\ Finish(k)
      /\ UNCHANGED <<rtime, agents, inputs, attests, attested, orphaned, replaced>>
      /\ \/ /\ agents[a] # NoRow
            /\ group' = group \ {agents[a].key}
            /\ raced' = raced \cup {key \in {task[k].key} : RingPending(key) \ {k} # {}}
                              \cup ({agents[a].key} \ {task[k].key})
            /\ kept' = kept
         \/ /\ kept' = kept \cup {task[k].key}
            /\ raced' = raced \cup {key \in {task[k].key} : RingPending(key) \ {k} # {}}
            /\ group' = group
  BY <1>t, TaskKinds DEF DropRingMember, At, regTables
<1>2. /\ task' \in [Tasks -> Working \cup {NoTask}]
      /\ \A m \in Tasks \ {k} : task'[m] = task[m]
      /\ task'[k].step = "free"
  BY <1>t, <1>1, FinishFacts
<1>3. RegTypeOK'
  BY <1>t, <1>1, <1>2 DEF RegTypeOK
<1>4. /\ raced \subseteq raced' /\ kept \subseteq kept'
      /\ task[k].key \notin raced' => RingPending(task[k].key) \ {k} = {}
  BY <1>1
<1>5. ASSUME NEW key \in AgentKeys PROVE RingKnows(key)'
  <2>1. k \notin RingPending(key)' /\ (InUse(key)' <=> InUse(key)) /\ Rows' = Rows
    BY <1>1, <1>2 DEF RingPending, InUse, Active, Rows
  <2>2. CASE key = task[k].key
    <3>1. k \in RingPending(key)
      BY <1>1, <2>2 DEF RingPending
    <3>2. key \notin raced => (InUse(key) => key \in orphaned) /\ agents[a] # NoRow /\ agents[a].key = key
      BY <1>1, <3>1 DEF RegInv, RingKnows, Rows
    <3>3. key \notin raced' => key \notin group' \/ key \in kept'
      BY <1>1, <1>4, <2>2, <3>2
    <3>4. key \notin raced' => RingRight(key)'
      BY <1>1, <1>4, <2>1, <3>2, <3>3 DEF RingRight
    <3> QED BY <1>2, <1>4, <2>1, <2>2, <3>4, RingHere
  <2>3. CASE key # task[k].key
    <3>1. k \notin RingPending(key)
      BY <2>3 DEF RingPending
    <3>2. key \notin raced' => (key \in group' <=> key \in group)
      BY <1>1, <1>4, <2>3
    <3>3. \A b \in Rows : agents[b].key = key => b \in Rows' /\ agents'[b].key = key
      BY <1>1, <2>1
    <3> QED BY <1>1, <1>2, <1>4, <2>1, <3>1, <3>2, <3>3, RingElsewhere
  <2> QED BY <2>2, <2>3
<1> QED BY <1>1, <1>2, <1>3, <1>5, TablesKept DEF Vouched

\* A statement fails: an agent whose row is stored stays outside the ring.
LEMMA FailKeeps ==
  ASSUME RegInv, NEW k \in Tasks, StatementFails(k) PROVE RegInv'
<1>t. RegTypeOK
  BY DEF RegInv
<1>1. /\ task[k].step \notin {"free", "ringDue", "rowRevoked"} /\ Finish(k)
      /\ orphaned' = IF task[k].step \in Written THEN orphaned \cup {task[k].key} ELSE orphaned
      /\ UNCHANGED <<rtime, agents, inputs, attests, group, attested, raced, kept, replaced>>
  BY DEF StatementFails, regTables
<1>2. /\ task' \in [Tasks -> Working \cup {NoTask}]
      /\ \A m \in Tasks \ {k} : task'[m] = task[m]
      /\ task'[k].step = "free"
  BY <1>t, <1>1, FinishFacts
<1>3. RegTypeOK'
  BY <1>t, <1>1, <1>2 DEF RegTypeOK
<1>4. ASSUME NEW key \in AgentKeys PROVE RingKnows(key)'
  <2>1. k \notin RingPending(key)' /\ (InUse(key)' <=> InUse(key)) /\ Rows' = Rows
    BY <1>1, <1>2 DEF RingPending, InUse, Active, Rows
  <2>2. CASE k \in RingPending(key)
    <3>1. task[k].step \in Written /\ task[k].key = key
      BY <1>1, <2>2 DEF RingPending, Written
    <3>2. key \notin raced => InUse(key) /\ RingPending(key) \ {k} = {}
      BY <2>2, <3>1 DEF RegInv, RingKnows, Written
    <3>3. key \notin raced' => RingRight(key)'
      BY <1>1, <2>1, <3>1, <3>2 DEF RingRight
    <3> QED BY <1>1, <1>2, <2>1, <3>2, <3>3, RingHere
  <2>3. CASE k \notin RingPending(key)
    BY <1>1, <1>2, <2>1, <2>3, RingElsewhere
  <2> QED BY <2>2, <2>3
<1> QED BY <1>1, <1>2, <1>3, <1>4, TablesKept DEF Vouched

\* A row changes in what is neither its authority nor its key.
LEMMA RowChanged ==
  ASSUME RegInv, RegTypeOK', NEW k \in Tasks, \A m \in Tasks \ {k} : task'[m] = task[m],
         NEW a \in Rows, NEW row \in AgentRow, agents' = [agents EXCEPT ![a] = row],
         row.parent = agents[a].parent, row.human = agents[a].human, row.scope = agents[a].scope,
         row.depth = agents[a].depth,
         UNCHANGED <<attests, attested, replaced>>, task'[k].step \notin Vouched,
         \A key \in AgentKeys : RingKnows(key)'
  PROVE  RegInv'
<1>1. a \in AgentIds /\ agents'[a] = row /\ \A b \in AgentIds \ {a} : agents'[b] = agents[b]
  BY DEF RegInv, RegTypeOK, Rows
<1>2. row # NoRow
  BY RegistryAssumption
<1>3. Rows' = Rows
  BY <1>1, <1>2 DEF Rows
<1>4. RowsKept
  BY <1>1, <1>3 DEF RowsKept, Rows
<1>5. Approved(k)'
  BY DEF Approved, Vouched
<1>6. \A b \in Rows' : /\ b \in Rows /\ agents'[b].parent = agents[b].parent
                       /\ agents'[b].human = agents[b].human /\ agents'[b].scope = agents[b].scope
                       /\ agents'[b].depth = agents[b].depth
  BY <1>1, <1>3 DEF Rows
<1>7. (\A b \in AgentIds : Derived(b)') /\ (\A m \in Tasks : Approved(m)')
  BY <1>4, <1>5, <1>6, SourceKept
<1>8. \A c \in AttestIds : VouchesOnce(c)'
  BY VouchKept DEF HasVouched
<1> QED BY <1>7, <1>8 DEF RegInv

\* revoke_agent marks the row.
LEMMA RevokeKeeps ==
  ASSUME RegInv, NEW k \in Tasks, NEW a \in AgentIds, RevokeRow(k, a) PROVE RegInv'
<1>t. RegTypeOK
  BY DEF RegInv
<1> DEFINE row == [agents[a] EXCEPT !.revoked = TRUE]
           new == [step |-> "rowRevoked", id |-> a, key |-> agents[a].key, chal |-> NoRow]
           key0 == agents[a].key
<1>1. /\ task[k] = NoTask /\ a \in Rows /\ agents' = [agents EXCEPT ![a] = row]
      /\ task' = [task EXCEPT ![k] = new]
      /\ raced' = raced \cup {key \in {key0} : RingPending(key) # {}}
      /\ orphaned' = orphaned \cup {key \in {key0} : \E b \in Active \ {a} : agents[b].key = key}
      /\ UNCHANGED <<rtime, inputs, attests, group, attested, kept, replaced>>
  BY DEF RevokeRow
<1>2. agents[a] \in AgentRow
  BY <1>t, <1>1, RowTypes
<1>3. /\ row \in AgentRow /\ row.revoked /\ row.key = key0 /\ row.parent = agents[a].parent
      /\ row.human = agents[a].human /\ row.scope = agents[a].scope /\ row.depth = agents[a].depth
      /\ key0 \in AgentKeys
  BY <1>2 DEF AgentRow
<1>4. new \in RevokeTask /\ new.step = "rowRevoked" /\ new.key = key0 /\ new.id = a
  BY <1>3 DEF RevokeTask
<1> HIDE DEF row, new, key0
<1>5. /\ task' \in [Tasks -> Working \cup {NoTask}] /\ task'[k] = new
      /\ \A m \in Tasks \ {k} : task'[m] = task[m]
  BY <1>t, <1>1, <1>4, TaskSet DEF Working
<1>6. agents'[a] = row /\ \A b \in AgentIds \ {a} : agents'[b] = agents[b]
  BY <1>t, <1>1 DEF RegTypeOK
<1>7. RegTypeOK'
  BY <1>t, <1>1, <1>3, <1>5 DEF RegTypeOK
<1>8. Rows' = Rows
  BY <1>1, <1>3, <1>6, RegistryAssumption DEF Rows
<1>9. ASSUME NEW key \in AgentKeys PROVE RingKnows(key)'
  <2>1. /\ raced \subseteq raced' /\ orphaned \subseteq orphaned'
        /\ key0 \notin raced' => RingPending(key0) = {}
        /\ (\E b \in Active \ {a} : agents[b].key = key0) => key0 \in orphaned'
    BY <1>1
  <2>2. CASE key = key0
    <3>1. k \in RingPending(key)'
      BY <1>4, <1>5, <2>2 DEF RingPending
    <3>2. InUse(key)' => key \in orphaned'
      BY <1>3, <1>6, <1>8, <2>1, <2>2 DEF InUse, Active, Rows
    <3>3. task'[k].id \in Rows' /\ agents'[task'[k].id].key = key
      BY <1>1, <1>3, <1>4, <1>5, <1>6, <1>8, <2>2
    <3> QED BY <1>4, <1>5, <2>1, <2>2, <3>1, <3>2, <3>3, RingHere
  <2>3. CASE key # key0
    <3>1. k \notin RingPending(key) /\ k \notin RingPending(key)'
      BY <1>1, <1>4, <1>5, <2>3 DEF RingPending, NoTask
    <3>2. InUse(key)' <=> InUse(key)
      BY <1>3, <1>6, <1>8, <2>3 DEF InUse, Active, Rows, key0
    <3>3. \A b \in Rows : agents[b].key = key => b \in Rows' /\ agents'[b].key = key
      BY <1>3, <1>6, <1>8, <2>3 DEF Rows, key0
    <3> QED BY <1>1, <1>5, <2>1, <3>1, <3>2, <3>3, RingElsewhere
  <2> QED BY <2>2, <2>3
<1> QED BY <1>1, <1>3, <1>4, <1>5, <1>7, <1>9, RowChanged DEF Vouched

\* update_agent_checksum binds the new configuration.
LEMMA BindKeeps ==
  ASSUME RegInv, NEW k \in Tasks, BindConfig(k) PROVE RegInv'
<1>t. RegTypeOK
  BY DEF RegInv
<1> DEFINE a == task[k].id
           row == [agents[a] EXCEPT !.cfg = task[k].cfg]
<1>1. /\ task[k].step = "rotated" /\ task[k] \in RotateTask /\ Step(k, "bound")
      /\ agents' = IF a \in Rows THEN [agents EXCEPT ![a] = row] ELSE agents
      /\ UNCHANGED <<rtime, inputs, attests, group, attested, raced, kept, orphaned, replaced>>
  BY <1>t, TaskKinds DEF BindConfig, At, regHistory
<1>2. /\ task' \in [Tasks -> Working \cup {NoTask}]
      /\ \A m \in Tasks \ {k} : task'[m] = task[m]
      /\ task'[k].step = "bound"
  BY <1>t, <1>1, StepFacts
<1>3. CASE a \notin Rows
  <2>1. RegTypeOK' /\ UNCHANGED agents
    BY <1>t, <1>1, <1>2, <1>3 DEF RegTypeOK
  <2>2. \A key \in AgentKeys : RingKnows(key)'
    BY <1>1, <1>2, <2>1, RingSame DEF Pending
  <2> QED BY <1>1, <1>2, <2>1, <2>2, TablesKept DEF Vouched
<1>4. CASE a \in Rows
  <2>1. agents[a] \in AgentRow
    BY <1>t, <1>4, RowTypes DEF Rows
  <2>2. /\ row \in AgentRow /\ row.revoked = agents[a].revoked /\ row.key = agents[a].key
        /\ row.parent = agents[a].parent /\ row.human = agents[a].human
        /\ row.scope = agents[a].scope /\ row.depth = agents[a].depth
    BY <1>1, <2>1 DEF AgentRow, RotateTask
  <2> HIDE DEF row
  <2>3. agents'[a] = row /\ \A b \in AgentIds \ {a} : agents'[b] = agents[b]
    BY <1>t, <1>1, <1>4 DEF RegTypeOK, Rows
  <2>4. RegTypeOK'
    BY <1>t, <1>1, <1>2, <1>4, <2>2 DEF RegTypeOK
  <2>5. Rows' = Rows
    BY <1>4, <2>2, <2>3, RegistryAssumption DEF Rows
  <2>6. ASSUME NEW key \in AgentKeys PROVE RingKnows(key)'
    <3>1. k \notin RingPending(key) /\ k \notin RingPending(key)'
      BY <1>1, <1>2 DEF RingPending
    <3>2. InUse(key)' <=> InUse(key)
      BY <2>2, <2>3, <2>5 DEF InUse, Active, Rows
    <3>3. \A b \in Rows : agents[b].key = key => b \in Rows' /\ agents'[b].key = key
      BY <2>2, <2>3, <2>5 DEF Rows
    <3> QED BY <1>1, <1>2, <3>1, <3>2, <3>3, RingElsewhere
  <2> QED BY <1>1, <1>2, <1>4, <2>2, <2>4, <2>6, RowChanged DEF Vouched
<1> QED BY <1>3, <1>4

\* agent_vc_issue replaces the rows the new one conflicts with.
LEMMA InsertVcKeeps ==
  ASSUME RegInv, NEW k \in Tasks, InsertVc(k) PROVE RegInv'
<1>t. RegTypeOK
  BY DEF RegInv
<1> DEFINE a == <<task[k].human, task[k].cfg, rtime>>
           key0 == task[k].key
           row == NewRow(k, 0, NoRow)
           new == [task[k] EXCEPT !.step = "vcInserted", !.id = a]
           D == Displaced(a, task[k].realm, key0)
<1>1. /\ task[k].step = "vcChecked" /\ task[k] \in VcTask
      /\ agents' = [b \in AgentIds |-> IF b = a THEN row ELSE IF b \in D THEN NoRow ELSE agents[b]]
      /\ replaced' = replaced \cup D
      /\ raced' = raced \cup {agents[b].key : b \in D}
                        \cup (IF RingPending(key0) \ {k} = {} THEN {} ELSE {key0})
      /\ task' = [task EXCEPT ![k] = new]
      /\ UNCHANGED <<rtime, inputs, attests, group, attested, kept, orphaned>>
  BY <1>t, TaskKinds DEF InsertVc, At
<1>2. a \in AgentIds
  BY <1>t, <1>1 DEF VcTask, RegTypeOK, AgentIds, VcIds
<1>3. rtime + LeaseTtl \in Nat
  BY <1>t, RegistryAssumption DEF RegTypeOK
<1>4. /\ row \in AgentRow /\ row.key = key0 /\ ~row.revoked /\ row.parent = NoRow
      /\ key0 \in AgentKeys
  BY <1>1, <1>3 DEF NewRow, AgentRow, VcTask
<1>5. new \in VcTask /\ new.step = "vcInserted" /\ new.key = key0 /\ new.id = a
  BY <1>1, <1>2 DEF VcTask
<1>6. D = {b \in Rows : b = a \/ b \in Holders(task[k].realm, key0)}
  BY DEF Displaced
<1> HIDE DEF row, new, key0, a, D
<1>7. /\ task' \in [Tasks -> Working \cup {NoTask}] /\ task'[k] = new
      /\ \A m \in Tasks \ {k} : task'[m] = task[m]
  BY <1>t, <1>1, <1>5, TaskSet DEF Working
<1>8. /\ agents'[a] = row /\ row # NoRow
      /\ \A b \in D \ {a} : b \in AgentIds /\ agents'[b] = NoRow
      /\ \A b \in AgentIds \ (D \cup {a}) : agents'[b] = agents[b]
  BY <1>1, <1>2, <1>4, <1>6, RegistryAssumption DEF Rows
<1>9. Rows' = (Rows \ D) \cup {a}
  BY <1>2, <1>8 DEF Rows
<1>10. RegTypeOK'
  BY <1>t, <1>1, <1>4, <1>7 DEF RegTypeOK
<1>11. RowsKept
  BY <1>1, <1>6, <1>8, <1>9 DEF RowsKept, Rows
<1>12. (\A b \in AgentIds : Derived(b)') /\ (\A m \in Tasks : Approved(m)')
  <2>1. Approved(k)'
    BY <1>5, <1>7 DEF Approved
  <2>2. ASSUME NEW b \in Rows', b = a PROVE Derived(b)'
    BY <1>4, <1>8, <2>2 DEF Derived
  <2>3. \A b \in Rows' : b # a => b \in Rows /\ agents'[b] = agents[b]
    BY <1>8, <1>9 DEF Rows
  <2> QED BY <1>7, <1>11, <2>1, <2>2, <2>3, SourceKept
<1>13. \A c \in AttestIds : VouchesOnce(c)'
  BY <1>1, <1>5, <1>7, VouchKept DEF HasVouched, Vouched
<1>14. ASSUME NEW key \in AgentKeys PROVE RingKnows(key)'
  <2>1. /\ raced \subseteq raced'
        /\ key0 \notin raced' => RingPending(key0) \ {k} = {}
        /\ \A b \in D : agents[b].key \in raced'
    BY <1>1
  <2>2. CASE key = key0
    <3>1. k \in RingPending(key)' /\ InUse(key)'
      BY <1>4, <1>5, <1>7, <1>8, <1>9, <2>2 DEF RingPending, InUse, Active
    <3> QED BY <1>5, <1>7, <2>1, <2>2, <3>1, RingHere
  <2>3. CASE key # key0
    <3>1. k \notin RingPending(key) /\ k \notin RingPending(key)'
      BY <1>1, <1>5, <1>7, <2>3 DEF RingPending
    <3>2. ASSUME key \notin raced'
          PROVE  /\ \A b \in Rows : agents[b].key = key => b \in Rows' /\ agents'[b] = agents[b]
                 /\ \A b \in Rows' : agents'[b].key = key => b \in Rows /\ agents'[b] = agents[b]
      <4>1. \A b \in D : agents[b].key # key
        BY <2>1, <3>2
      <4>2. \A b \in Rows : agents[b].key = key => b \in Rows' /\ agents'[b] = agents[b]
        BY <1>6, <1>8, <1>9, <4>1 DEF Rows
      <4>3. \A b \in Rows' : agents'[b].key = key => b \in Rows /\ agents'[b] = agents[b]
        BY <1>4, <1>8, <1>9, <2>3 DEF Rows
      <4> QED BY <4>2, <4>3
    <3>3. key \notin raced' => (InUse(key)' <=> InUse(key))
      BY <3>2 DEF InUse, Active
    <3> QED BY <1>1, <1>7, <2>1, <3>1, <3>2, <3>3, RingElsewhere
  <2> QED BY <2>2, <2>3
<1> QED BY <1>10, <1>12, <1>13, <1>14 DEF RegInv

\* agent_attestation_challenge stores a challenge nobody has used.
LEMMA ChallengeKeeps ==
  ASSUME RegInv, NEW c \in AttestIds, NEW t \in Realms, NEW h \in Humans, NEW key0 \in AgentKeys,
         IssueAttestChallenge(c, t, h, key0)
  PROVE  RegInv'
<1>t. RegTypeOK
  BY DEF RegInv
<1> DEFINE new == [realm |-> t, human |-> h, key |-> key0, exp |-> rtime + LeaseTtl, used |-> FALSE]
<1>1. /\ attested[c] = {}
      /\ \A k \in Tasks : task[k].step # "free" => task[k].chal # c
      /\ attests' = [d \in AttestIds |->
             IF d = c THEN new
             ELSE IF attests[d] = NoRow THEN NoRow
             ELSE IF attests[d].used \/ attests[d].exp < rtime THEN NoRow ELSE attests[d]]
      /\ UNCHANGED <<rtime, agents, inputs, group, task, attested, raced, kept, orphaned, replaced>>
  BY DEF IssueAttestChallenge, regHistory
<1>2. new \in AttestRow
  <2>1. rtime + LeaseTtl \in Nat
    BY <1>t, RegistryAssumption DEF RegTypeOK
  <2> QED BY <2>1 DEF AttestRow
<1> HIDE DEF new
<1>3. /\ attests' \in [AttestIds -> AttestRow \cup {NoRow}]
      /\ \A d \in AttestIds \ {c} : attests'[d] = NoRow \/ attests'[d] = attests[d]
  BY <1>t, <1>1, <1>2 DEF RegTypeOK
<1>4. RegTypeOK'
  BY <1>t, <1>1, <1>3 DEF RegTypeOK
<1>5. ASSUME NEW d \in AttestIds PROVE VouchesOnce(d)'
  <2>1. VouchesOnce(d)
    BY DEF RegInv
  <2>2. \A k \in Tasks : HasVouched(k, d)' <=> HasVouched(k, d)
    BY <1>1 DEF HasVouched
  <2>3. CASE d = c
    <3>1. \A k \in Tasks : ~HasVouched(k, d)
      BY <1>1, <2>3 DEF HasVouched, Vouched
    <3> QED BY <1>1, <2>2, <2>3, <3>1 DEF VouchesOnce
  <2>4. CASE d # c
    BY <1>1, <1>3, <2>1, <2>2, <2>4 DEF VouchesOnce
  <2> QED BY <2>3, <2>4
<1>6. /\ \A a \in AgentIds : Derived(a)'
      /\ \A k \in Tasks : Approved(k)'
      /\ \A key \in AgentKeys : RingKnows(key)'
  BY <1>1 DEF RegInv, Derived, Approved, Descends, Rows, RingKnows, RingRight, RingPending, InUse, Active
<1> QED BY <1>4, <1>5, <1>6 DEF RegInv

\* Nothing the invariant is about changes.
LEMMA SameKeeps ==
  ASSUME RegInv, rtime' \in 0..RegLast,
         UNCHANGED <<agents, inputs, attests, group, task, attested, raced, kept, orphaned, replaced>>
  PROVE  RegInv'
BY DEF RegInv, RegTypeOK, Derived, Approved, Descends, Rows, VouchesOnce, HasVouched, RingKnows,
       RingRight, RingPending, InUse, Active

\* ServerState::init loads the ring from the table, or a part of it; no request
\* outlives the crash.
LEMMA RegRestartKeeps ==
  ASSUME RegInv, RegRestart PROVE RegInv'
<1>t. RegTypeOK
  BY DEF RegInv
<1>1. /\ \E S \in SUBSET Active : /\ group' = {agents[a].key : a \in S}
                                   /\ orphaned' = {agents[a].key : a \in Active \ S}
      /\ task' = [k \in Tasks |-> NoTask]
      /\ UNCHANGED <<rtime, agents, inputs, attests, attested, replaced>>
  BY DEF RegRestart, regTables
<1>2. \A k \in Tasks : task'[k] = NoTask /\ task'[k].step = "free"
  BY <1>1 DEF NoTask
<1>3. RegTypeOK'
  BY <1>t, <1>1 DEF RegTypeOK
<1>4. \A a \in AgentIds : Derived(a)'
  BY <1>1 DEF RegInv, Derived, Descends, Rows
<1>5. \A k \in Tasks : Approved(k)'
  BY <1>2 DEF Approved
<1>6. \A c \in AttestIds : VouchesOnce(c)'
  BY <1>1, <1>2 DEF RegInv, VouchesOnce, HasVouched, Vouched
<1>7. ASSUME NEW key \in AgentKeys PROVE RingKnows(key)'
  <2>1. RingPending(key)' = {}
    BY <1>2 DEF RingPending
  <2>2. InUse(key)' <=> InUse(key)
    BY <1>1 DEF InUse, Active, Rows
  <2>3. RingRight(key)'
    BY <1>1, <2>2 DEF RingRight, InUse
  <2> QED BY <2>1, <2>3 DEF RingKnows
<1> QED BY <1>3, <1>4, <1>5, <1>6, <1>7 DEF RegInv

LEMMA RegInit ==
  ASSUME RegistryInit PROVE RegInv
<1>1. \A k \in Tasks : task[k] = NoTask /\ task[k].step = "free"
  BY DEF RegistryInit, NoTask
<1>2. RegTypeOK
  BY RegistryAssumption DEF RegistryInit, RegTypeOK
<1>3. Rows = {} /\ Active = {}
  BY DEF RegistryInit, Rows, Active
<1>4. \A key \in AgentKeys : RingKnows(key)
  BY <1>1, <1>3 DEF RegistryInit, RingKnows, RingRight, RingPending, InUse
<1>5. \A c \in AttestIds : VouchesOnce(c)
  BY <1>1 DEF RegistryInit, VouchesOnce, HasVouched, Vouched
<1> QED BY <1>1, <1>2, <1>3, <1>4, <1>5 DEF RegInv, Derived, Approved

LEMMA RegStep ==
  ASSUME RegInv, [RegistryNext]_registryVars PROVE RegInv'
<1>1. ASSUME NEW k \in Tasks, RegistersAgent(k) PROVE RegInv'
  BY <1>1, QuietKeeps, InsertAgentKeeps, PersistKeeps, JoinKeeps DEF RegistersAgent, QuietTask
<1>2. ASSUME NEW k \in Tasks, IssuesVc(k) PROVE RegInv'
  BY <1>2, QuietKeeps, InsertVcKeeps, PersistKeeps DEF IssuesVc, QuietTask
<1>3. ASSUME NEW k \in Tasks, Maintains(k) PROVE RegInv'
  BY <1>3, QuietKeeps, RevokeKeeps, DropKeeps, BindKeeps DEF Maintains, QuietTask
<1>4. ASSUME NEW h \in Humans, LinkChanges(h) PROVE RegInv'
  BY <1>4, SameKeeps DEF LinkChanges, regHistory, RegInv, RegTypeOK
<1>5. CASE RegTick
  <2>1. rtime' \in 0..RegLast
    BY <1>5, RegistryAssumption DEF RegTick, RegInv, RegTypeOK
  <2> QED BY <1>5, <2>1, SameKeeps DEF RegTick, regTables, regHistory
<1>6. CASE UNCHANGED registryVars
  BY <1>6, SameKeeps DEF registryVars, regTables, regHistory, RegInv, RegTypeOK
<1> QED BY <1>1, <1>2, <1>3, <1>4, <1>5, <1>6, FailKeeps, ChallengeKeeps, RegRestartKeeps DEF RegistryNext

LEMMA RegAlways == RegistrySpec => []RegInv
BY RegInit, RegStep, PTL DEF RegistrySpec

\* Authority within the parent's along every chain of delegation, and one agent
\* per attestation challenge, for any number of concurrent registrations,
\* issuances, revocations, rotations and restarts.
THEOREM AuthorityOneSource == RegistrySpec => []AuthorityHasOneSource
<1>1. ASSUME RegInv PROVE AuthorityHasOneSource
  <2>1. ASSUME NEW a \in Rows, agents[a].parent # NoRow
        PROVE  LET p == agents[a].parent IN
               p \in replaced \/ ( /\ p \in Rows
                                   /\ agents[a].human = agents[p].human
                                   /\ agents[a].scope \subseteq agents[p].scope
                                   /\ agents[a].depth = agents[p].depth + 1 )
    BY <1>1, <2>1 DEF RegInv, Derived, Descends, Rows
  <2>2. ASSUME NEW c \in AttestIds PROVE Cardinality(attested[c]) <= 1
    <3>1. attested[c] = {} \/ \E a \in AgentIds : attested[c] = {a}
      BY <1>1 DEF RegInv, VouchesOnce
    <3>2. Cardinality({}) = 0 /\ \A a \in AgentIds : Cardinality({a}) = 1
      BY FS_EmptySet, FS_Singleton
    <3> QED BY <3>1, <3>2
  <2> QED BY <2>1, <2>2 DEF AuthorityHasOneSource
<1> QED BY <1>1, RegAlways, PTL

\* The in-memory ring of agents, shared by any number of realms, agrees with the
\* table after any sequence of requests, failed statements and crashes, but for
\* the cases the property names.
THEOREM RingFollows == RegistrySpec => []RingFollowsTable
<1>1. ASSUME RegInv PROVE RingFollowsTable
  BY <1>1 DEF RegInv, RingKnows, RingRight, InUse, RingFollowsTable
<1> QED BY <1>1, RegAlways, PTL

----------------------------------------------------------------------------
(* The history of an agent's configuration.                                *)

Inserting(a) == {k \in Tasks : task[k].step = "rowInserted" /\ task[k].id = a}
Count(a) == Cardinality(RotationsOf(a)) + cut[a]

\* Of an agent none of whose rotations ended half-way: its row has configuration
\* c; its last rotation was to c; its rotations follow each other.
ConfigIs(a, c) == cut[a] = 0 /\ agents[a] # NoRow => agents[a].cfg = c
EndsAt(a, c) ==
  cut[a] = 0 => \A i \in RotationsOf(a) : (\A n \in RotationsOf(a) : n <= i) => trail[i].to = c
Chained(a) ==
  cut[a] = 0 => \A i, j \in RotationsOf(a) :
    i < j /\ (i + 1 .. j - 1) \cap RotationsOf(a) = {} => trail[i].to = trail[j].from

\* A rotation on its way starts from the end of the trail; it has written the
\* inputs, then the row.
RotationOk(k, a) ==
  /\ task[k].version = Count(a) + 1 /\ EndsAt(a, task[k].from)
  /\ task[k].step = "rotateRead" =>
       inputs[a].version = task[k].version /\ inputs[a].cfg = task[k].from /\ ConfigIs(a, task[k].from)
  /\ task[k].step # "rotateRead" => inputs[a] = [cfg |-> task[k].cfg, version |-> task[k].version + 1]
  /\ task[k].step = "bound" => ConfigIs(a, task[k].cfg)

\* An agent gets inputs once, from the task that inserted its row; an identifier
\* that was ever inserted is a row or was replaced.
TrailOk(a) ==
  a \notin overlapped =>
    /\ cut[a] \in Nat /\ Chained(a)
    /\ inputs[a] = NoRow => RotationsOf(a) = {} /\ Rotating(a) = {} /\ cut[a] = 0
    /\ inputs[a] # NoRow => a \in Rows \cup replaced /\ Inserting(a) = {}
    /\ inputs[a] # NoRow /\ Rotating(a) = {} =>
         /\ inputs[a].version = Count(a) + 1
         /\ EndsAt(a, inputs[a].cfg) /\ ConfigIs(a, inputs[a].cfg)
    /\ \A k \in Rotating(a) : (\A m \in Rotating(a) : m = k) /\ RotationOk(k, a)
    /\ \A k \in Inserting(a) : /\ \A m \in Inserting(a) : m = k
                               /\ a \in Rows \cup replaced /\ ConfigIs(a, task[k].cfg)

TrailInv ==
  /\ trail \in Seq([id: AgentIds, from: Configs, to: Configs])
  /\ \A a \in Ids : TrailOk(a)

Involved(k, a) == task[k].step \in {"rowInserted", "rotateRead", "rotated", "bound"} /\ task[k].id = a

\* What TrailOk says of an agent's row and of its inputs stays.
RowStays(a) ==
  /\ overlapped \subseteq overlapped' /\ cut'[a] = cut[a]
  /\ a \in Rows \cup replaced => a \in Rows' \cup replaced'
  /\ agents'[a] # NoRow => agents[a] # NoRow /\ agents'[a].cfg = agents[a].cfg

\* A step that has nothing to do with the agent.
LEMMA TrailElsewhere ==
  ASSUME NEW a \in Ids, TrailOk(a), RowStays(a), inputs'[a] = inputs[a], UNCHANGED trail,
         NEW k \in Tasks, \A m \in Tasks \ {k} : task'[m] = task[m],
         ~Involved(k, a), ~Involved(k, a)'
  PROVE  TrailOk(a)'
<1>1. RotationsOf(a)' = RotationsOf(a) /\ Count(a)' = Count(a)
  BY DEF RotationsOf, Count, RowStays
<1>2. Rotating(a)' = Rotating(a) /\ Inserting(a)' = Inserting(a)
  BY DEF Rotating, Inserting, Involved
<1>3. \A m \in Rotating(a) \cup Inserting(a) : task'[m] = task[m]
  BY DEF Rotating, Inserting, Involved
<1>4. Chained(a)' <=> Chained(a)
  BY <1>1 DEF Chained, RowStays
<1>5. \A c : EndsAt(a, c)' <=> EndsAt(a, c)
  BY <1>1 DEF EndsAt, RowStays
<1>6. \A c : ConfigIs(a, c) => ConfigIs(a, c)'
  BY DEF ConfigIs, RowStays
<1>7. ASSUME NEW m \in Rotating(a), RotationOk(m, a) PROVE RotationOk(m, a)'
  <2>1. task'[m] = task[m]
    BY <1>3
  <2> QED BY <1>1, <1>5, <1>6, <1>7, <2>1 DEF RotationOk, EndsAt, ConfigIs, RowStays
<1>8. SUFFICES ASSUME a \notin overlapped'
               PROVE  /\ cut'[a] \in Nat /\ Chained(a)'
                      /\ inputs'[a] = NoRow => RotationsOf(a)' = {} /\ Rotating(a)' = {} /\ cut'[a] = 0
                      /\ inputs'[a] # NoRow => a \in Rows' \cup replaced' /\ Inserting(a)' = {}
                      /\ inputs'[a] # NoRow /\ Rotating(a)' = {} =>
                           /\ inputs'[a].version = Count(a)' + 1
                           /\ EndsAt(a, inputs[a].cfg)' /\ ConfigIs(a, inputs[a].cfg)'
                      /\ \A m \in Rotating(a)' : (\A n \in Rotating(a)' : n = m) /\ RotationOk(m, a)'
                      /\ \A m \in Inserting(a)' : /\ \A n \in Inserting(a)' : n = m
                                                  /\ a \in Rows' \cup replaced' /\ ConfigIs(a, task[m].cfg)'
  BY DEF TrailOk
<1>9. a \notin overlapped
  BY <1>8 DEF RowStays
<1>10. inputs'[a] # NoRow /\ Rotating(a)' = {} => EndsAt(a, inputs[a].cfg)' /\ ConfigIs(a, inputs[a].cfg)'
  BY <1>1, <1>2, <1>9 DEF TrailOk, EndsAt, ConfigIs, RowStays
<1>11. \A m \in Inserting(a)' : ConfigIs(a, task[m].cfg)'
  BY <1>2, <1>3, <1>9 DEF TrailOk, ConfigIs, RowStays
<1> QED BY <1>1, <1>2, <1>4, <1>7, <1>9, <1>10, <1>11 DEF TrailOk, RowStays

\* The steps of registrations and rotations that the trail depends on.
Recorded == {"rowInserted", "rotateRead", "rotated", "bound"}

\* A step of a task that is at none of these.
LEMMA TrailAway ==
  ASSUME TrailInv, NEW k \in Tasks, \A m \in Tasks \ {k} : task'[m] = task[m],
         task[k].step \notin Recorded, task'[k].step \notin Recorded,
         UNCHANGED <<trail, inputs>>, \A a \in Ids : RowStays(a)
  PROVE  TrailInv'
<1>1. ASSUME NEW a \in Ids PROVE TrailOk(a)'
  <2>1. ~Involved(k, a) /\ ~Involved(k, a)'
    BY DEF Involved, Recorded
  <2> QED BY <2>1, TrailElsewhere DEF TrailInv
<1> QED BY <1>1 DEF TrailInv

LEMMA TrailQuiet ==
  ASSUME RegInv, TrailInv, NEW k \in Tasks,
         \/ \E r \in Registrations : BeginRegister(k, r)
         \/ ConsumeAttestation(k) \/ CheckKeyFree(k) \/ CheckBankLink(k) \/ CheckParent(k)
         \/ \E r \in VcRequests : BeginVc(k, r)
         \/ CheckVc(k) \/ PersistVc(k) \/ JoinGroup(k) \/ DropRingMember(k)
         \/ \E a \in AgentIds : RevokeRow(k, a)
  PROVE  TrailInv'
<1>t. RegTypeOK
  BY DEF RegInv
<1>u. ASSUME UNCHANGED <<agents, overlapped, cut, replaced>>, NEW a \in Ids PROVE RowStays(a)
  BY <1>u DEF RowStays, Rows
<1>f. ASSUME Finish(k), task[k].step \notin Recorded, UNCHANGED <<agents, inputs, trail, overlapped, cut, replaced>>
      PROVE  TrailInv'
  <2>1. (\A m \in Tasks \ {k} : task'[m] = task[m]) /\ task'[k].step = "free"
    BY <1>t, <1>f, FinishFacts
  <2>2. task'[k].step \notin Recorded
    BY <2>1 DEF Recorded
  <2> QED BY <1>f, <1>u, <2>1, <2>2, TrailAway
<1>s. ASSUME NEW s \in {"attestOk", "keyFree", "linked", "approved", "vcChecked", "ringDue"}, Step(k, s),
             task[k].step \notin Recorded, UNCHANGED <<agents, inputs, trail, overlapped, cut, replaced>>,
             \/ task[k] \in RegTask /\ s # "vcChecked"
             \/ task[k] \in VcTask /\ s \in {"vcChecked", "ringDue"}
      PROVE  TrailInv'
  <2>1. (\A m \in Tasks \ {k} : task'[m] = task[m]) /\ task'[k].step = s
    BY <1>t, <1>s, StepFacts
  <2>2. task'[k].step \notin Recorded
    BY <2>1 DEF Recorded
  <2> QED BY <1>s, <1>u, <2>1, <2>2, TrailAway
<1>n. ASSUME NEW new, task[k] = NoTask, task' = [task EXCEPT ![k] = new], new.step \notin Recorded,
             UNCHANGED <<inputs, trail>>, \A a \in Ids : RowStays(a)
      PROVE  TrailInv'
  <2>1. (\A m \in Tasks \ {k} : task'[m] = task[m]) /\ task'[k] = new
    BY <1>t, <1>n DEF RegTypeOK
  <2>2. task[k].step \notin Recorded
    BY <1>n DEF Recorded, NoTask
  <2> QED BY <1>n, <2>1, <2>2, TrailAway
<1>1. ASSUME NEW r \in Registrations, BeginRegister(k, r) PROVE TrailInv'
  <2> DEFINE new == [step |-> IF r.chal = NoRow THEN "attestOk" ELSE "challenged", realm |-> r.realm,
                     human |-> r.human, key |-> r.key, scope |-> r.scope, parent |-> r.parent,
                     cfg |-> r.cfg, chal |-> r.chal, depth |-> 0, id |-> NoRow]
  <2>1. /\ task[k] = NoTask /\ task' = [task EXCEPT ![k] = new]
        /\ UNCHANGED <<agents, inputs, trail, overlapped, cut, replaced>>
    BY <1>1 DEF BeginRegister, regTables, regHistory
  <2>2. new.step \notin Recorded
    BY DEF Recorded
  <2> HIDE DEF new
  <2> QED BY <1>n, <1>u, <2>1, <2>2
<1>2. ASSUME NEW r \in VcRequests, BeginVc(k, r) PROVE TrailInv'
  <2> DEFINE new == [step |-> "vcTrusted", realm |-> r.realm, human |-> r.human, key |-> r.key,
                     scope |-> r.scope, cfg |-> r.cfg, chal |-> NoRow, id |-> NoRow]
  <2>1. /\ task[k] = NoTask /\ task' = [task EXCEPT ![k] = new]
        /\ UNCHANGED <<agents, inputs, trail, overlapped, cut, replaced>>
    BY <1>2 DEF BeginVc, regTables, regHistory
  <2>2. new.step \notin Recorded
    BY DEF Recorded
  <2> HIDE DEF new
  <2> QED BY <1>n, <1>u, <2>1, <2>2
<1>3. CASE ConsumeAttestation(k)
  <2>1. /\ task[k].step = "challenged" /\ task[k] \in RegTask /\ (Step(k, "attestOk") \/ Finish(k))
        /\ UNCHANGED <<agents, inputs, trail, overlapped, cut, replaced>>
    BY <1>t, <1>3, TaskKinds DEF ConsumeAttestation, At, regHistory
  <2>2. task[k].step \notin Recorded
    BY <2>1 DEF Recorded
  <2> QED BY <1>f, <1>s, <2>1, <2>2
<1>4. CASE CheckKeyFree(k)
  <2>1. /\ task[k].step = "attestOk" /\ task[k] \in RegTask /\ (Step(k, "keyFree") \/ Finish(k))
        /\ UNCHANGED <<agents, inputs, trail, overlapped, cut, replaced>>
    BY <1>t, <1>4, TaskKinds DEF CheckKeyFree, At, regTables, regHistory
  <2>2. task[k].step \notin Recorded
    BY <2>1 DEF Recorded
  <2> QED BY <1>f, <1>s, <2>1, <2>2
<1>5. CASE CheckBankLink(k)
  <2>1. /\ task[k].step = "keyFree" /\ task[k] \in RegTask /\ (Step(k, "linked") \/ Finish(k))
        /\ UNCHANGED <<agents, inputs, trail, overlapped, cut, replaced>>
    BY <1>t, <1>5, TaskKinds DEF CheckBankLink, At, regTables, regHistory
  <2>2. task[k].step \notin Recorded
    BY <2>1 DEF Recorded
  <2> QED BY <1>f, <1>s, <2>1, <2>2
<1>6. CASE CheckParent(k)
  <2> DEFINE new == [task[k] EXCEPT !.step = "approved", !.depth = agents[task[k].parent].depth + 1]
  <2>1. /\ task[k].step = "linked" /\ task[k] \in RegTask
        /\ Step(k, "approved") \/ Finish(k) \/ task' = [task EXCEPT ![k] = new]
        /\ UNCHANGED <<agents, inputs, trail, overlapped, cut, replaced>>
    BY <1>t, <1>6, TaskKinds DEF CheckParent, At, regTables, regHistory
  <2>2. task[k].step \notin Recorded
    BY <2>1 DEF Recorded
  <2>3. CASE task' = [task EXCEPT ![k] = new]
    <3>1. new.step = "approved"
      BY <2>1 DEF RegTask
    <3> HIDE DEF new
    <3>2. (\A m \in Tasks \ {k} : task'[m] = task[m]) /\ task'[k] = new
      BY <1>t, <2>3 DEF RegTypeOK
    <3>3. task'[k].step \notin Recorded
      BY <3>1, <3>2 DEF Recorded
    <3> QED BY <1>u, <2>1, <2>2, <3>2, <3>3, TrailAway
  <2> QED BY <1>f, <1>s, <2>1, <2>2, <2>3
<1>7. CASE CheckVc(k)
  <2>1. /\ task[k].step = "vcTrusted" /\ task[k] \in VcTask /\ (Step(k, "vcChecked") \/ Finish(k))
        /\ UNCHANGED <<agents, inputs, trail, overlapped, cut, replaced>>
    BY <1>t, <1>7, TaskKinds DEF CheckVc, At, regTables, regHistory
  <2>2. task[k].step \notin Recorded
    BY <2>1 DEF Recorded
  <2> QED BY <1>f, <1>s, <2>1, <2>2
<1>8. CASE PersistVc(k)
  <2>1. /\ task[k].step = "vcInserted" /\ task[k] \in VcTask /\ Step(k, "ringDue")
        /\ UNCHANGED <<agents, inputs, trail, overlapped, cut, replaced>>
    BY <1>t, <1>8, TaskKinds DEF PersistVc, At, regHistory
  <2>2. task[k].step \notin Recorded
    BY <2>1 DEF Recorded
  <2> QED BY <1>s, <2>1, <2>2
<1>9. CASE JoinGroup(k) \/ DropRingMember(k)
  <2>1. /\ task[k].step \in {"ringDue", "rowRevoked"} /\ Finish(k)
        /\ UNCHANGED <<agents, inputs, trail, overlapped, cut, replaced>>
    BY <1>9 DEF JoinGroup, DropRingMember, At, regTables
  <2>2. task[k].step \notin Recorded
    BY <2>1 DEF Recorded
  <2> QED BY <1>f, <2>1, <2>2
<1>10. ASSUME NEW b \in AgentIds, RevokeRow(k, b) PROVE TrailInv'
  <2> DEFINE new == [step |-> "rowRevoked", id |-> b, key |-> agents[b].key, chal |-> NoRow]
             row == [agents[b] EXCEPT !.revoked = TRUE]
  <2>1. /\ task[k] = NoTask /\ task' = [task EXCEPT ![k] = new] /\ b \in Rows
        /\ agents' = [agents EXCEPT ![b] = row]
        /\ UNCHANGED <<inputs, trail, overlapped, cut, replaced>>
    BY <1>10 DEF RevokeRow
  <2>2. new.step \notin Recorded
    BY DEF Recorded
  <2>3. agents[b] \in AgentRow
    BY <1>t, <2>1, RowTypes
  <2>4. row \in AgentRow /\ row.cfg = agents[b].cfg
    BY <2>3 DEF AgentRow
  <2> HIDE DEF new, row
  <2>5. agents'[b] = row /\ row # NoRow /\ \A a \in AgentIds \ {b} : agents'[a] = agents[a]
    BY <1>t, <2>1, <2>4, RegistryAssumption DEF RegTypeOK
  <2>6. ASSUME NEW a \in Ids PROVE RowStays(a)
    <3>1. a \in AgentIds
      BY DEF AgentIds
    <3> QED BY <2>1, <2>4, <2>5, <3>1 DEF RowStays, Rows
  <2> QED BY <1>n, <2>1, <2>2, <2>6
<1> QED BY <1>1, <1>2, <1>3, <1>4, <1>5, <1>6, <1>7, <1>8, <1>9, <1>10

\* A registration inserts a row under an identifier that never had one.
LEMMA TrailInsert ==
  ASSUME RegInv, TrailInv, NEW k \in Tasks, NEW b \in Ids, InsertAgent(k, b) PROVE TrailInv'
<1>t. RegTypeOK
  BY DEF RegInv
<1>1. /\ task[k].step = "approved" /\ task[k] \in RegTask /\ b \in AgentIds
      /\ b \notin Rows /\ b \notin replaced
      /\ \A m \in Tasks : task[m].step # "free" => task[m].id # b
      /\ UNCHANGED <<inputs, trail, overlapped, cut, replaced>>
  BY <1>t, TaskKinds DEF InsertAgent, At, AgentIds
<1>2. task[k].step \notin Recorded
  BY <1>1 DEF Recorded
<1>3. CASE Finish(k) /\ UNCHANGED agents
  <2>1. (\A m \in Tasks \ {k} : task'[m] = task[m]) /\ task'[k].step = "free"
    BY <1>t, <1>3, FinishFacts
  <2>2. task'[k].step \notin Recorded
    BY <2>1 DEF Recorded
  <2>3. \A a \in Ids : RowStays(a)
    BY <1>1, <1>3 DEF RowStays, Rows
  <2> QED BY <1>1, <1>2, <2>1, <2>2, <2>3, TrailAway
<1> DEFINE row == NewRow(k, task[k].depth, task[k].parent)
           new == [task[k] EXCEPT !.step = "rowInserted", !.id = b]
<1>4. CASE agents' = [agents EXCEPT ![b] = row] /\ task' = [task EXCEPT ![k] = new]
  <2>1. rtime + LeaseTtl \in Nat
    BY <1>t, RegistryAssumption DEF RegTypeOK
  <2>2. row \in AgentRow /\ row.cfg = task[k].cfg
    BY <1>1, <2>1 DEF NewRow, AgentRow, RegTask
  <2>3. new.step = "rowInserted" /\ new.id = b /\ new.cfg = task[k].cfg
    BY <1>1 DEF RegTask
  <2> HIDE DEF row, new
  <2>4. (\A m \in Tasks \ {k} : task'[m] = task[m]) /\ task'[k] = new
    BY <1>t, <1>4 DEF RegTypeOK
  <2>5. agents'[b] = row /\ row # NoRow /\ \A a \in AgentIds \ {b} : agents'[a] = agents[a]
    BY <1>t, <1>1, <1>4, <2>2, RegistryAssumption DEF RegTypeOK
  <2>6. ASSUME NEW a \in Ids \ {b} PROVE TrailOk(a)'
    <3>1. a \in AgentIds
      BY DEF AgentIds
    <3>2. RowStays(a)
      BY <1>1, <2>5, <3>1 DEF RowStays, Rows
    <3>3. ~Involved(k, a) /\ ~Involved(k, a)'
      BY <1>1, <2>3, <2>4 DEF Involved
    <3>4. TrailOk(a) /\ inputs'[a] = inputs[a] /\ trail' = trail
      BY <1>1 DEF TrailInv
    <3> QED BY <2>4, <3>2, <3>3, <3>4, TrailElsewhere
  <2>7. ASSUME b \notin overlapped' PROVE TrailOk(b)'
    <3>1. TrailOk(b) /\ b \notin overlapped
      BY <1>1, <2>7 DEF TrailInv
    <3>2. inputs[b] = NoRow /\ RotationsOf(b) = {} /\ Rotating(b) = {} /\ cut[b] = 0
      BY <1>1, <3>1 DEF TrailOk
    <3>3. RotationsOf(b)' = {} /\ inputs'[b] = NoRow /\ cut'[b] = 0
      BY <1>1, <3>2 DEF RotationsOf
    <3>4. Rotating(b)' = {}
      BY <2>3, <2>4, <3>2 DEF Rotating
    <3>5. \A m \in Inserting(b)' : m = k
      BY <1>1, <2>4 DEF Inserting
    <3>6. b \in Rows'
      BY <1>1, <2>5 DEF Rows
    <3>7. ConfigIs(b, task[k].cfg)'
      BY <2>2, <2>3, <2>4, <2>5 DEF ConfigIs
    <3>8. Chained(b)'
      BY <3>3 DEF Chained
    <3> QED BY <3>3, <3>4, <3>5, <3>6, <3>7, <3>8 DEF TrailOk
  <2>8. \A a \in Ids : TrailOk(a)'
    BY <2>6, <2>7 DEF TrailOk
  <2> QED BY <1>1, <2>8 DEF TrailInv
<1> QED BY <1>3, <1>4 DEF InsertAgent

\* persist_inputs: the first version.
LEMMA TrailPersist ==
  ASSUME RegInv, TrailInv, NEW k \in Tasks, PersistInputs(k) PROVE TrailInv'
<1>t. RegTypeOK
  BY DEF RegInv
<1> SUFFICES ASSUME NEW b, b = task[k].id PROVE TrailInv'
  OBVIOUS
<1> DEFINE new == [cfg |-> task[k].cfg, version |-> 1]
<1>1. /\ task[k].step = "rowInserted" /\ task[k] \in RegTask /\ Step(k, "ringDue")
      /\ inputs' = [inputs EXCEPT ![b] = new]
      /\ UNCHANGED <<agents, trail, overlapped, cut, replaced>>
  BY <1>t, TaskKinds DEF PersistInputs, At, regHistory
<1>n. new \in InputRow /\ new # NoRow /\ new.version = 1 /\ new.cfg = task[k].cfg
  BY <1>1, RegistryAssumption DEF RegTask, InputRow
<1> HIDE DEF new
<1>2. (\A m \in Tasks \ {k} : task'[m] = task[m]) /\ task'[k].step = "ringDue"
  BY <1>t, <1>1, StepFacts
<1>3. ~Involved(k, b)' /\ \A a : a # b => ~Involved(k, a) /\ ~Involved(k, a)'
  BY <1>1, <1>2 DEF Involved
<1>4. \A a \in Ids : RowStays(a)
  BY <1>1 DEF RowStays, Rows
<1>5. ASSUME NEW a \in Ids, a # b PROVE TrailOk(a)'
  <2>1. inputs'[a] = inputs[a]
    BY <1>t, <1>1, <1>5 DEF RegTypeOK, AgentIds
  <2>2. TrailOk(a) /\ RowStays(a) /\ ~Involved(k, a) /\ ~Involved(k, a)' /\ trail' = trail
    BY <1>1, <1>3, <1>4, <1>5 DEF TrailInv
  <2> QED BY <1>2, <2>1, <2>2, TrailElsewhere
<1>6. ASSUME b \in Ids, b \notin overlapped' PROVE TrailOk(b)'
  <2>1. TrailOk(b) /\ b \notin overlapped
    BY <1>1, <1>6 DEF TrailInv
  <2>2. k \in Inserting(b)
    BY <1>1 DEF Inserting
  <2>3. inputs[b] = NoRow /\ RotationsOf(b) = {} /\ Rotating(b) = {} /\ cut[b] = 0 /\ b \in Rows \cup replaced
        /\ ConfigIs(b, task[k].cfg) /\ \A m \in Inserting(b) : m = k
    BY <2>1, <2>2 DEF TrailOk
  <2>4. inputs'[b] = new
    BY <1>t, <1>1, <1>6 DEF RegTypeOK, AgentIds
  <2>5. new # NoRow /\ new.version = 1 /\ new.cfg = task[k].cfg
    BY <1>n
  <2>6. RotationsOf(b)' = {} /\ cut'[b] = 0
    BY <1>1, <2>3 DEF RotationsOf
  <2>7. Count(b)' = 0
    BY <2>6, FS_EmptySet DEF Count
  <2>8. Rotating(b)' = {} /\ Inserting(b)' = {}
    BY <1>2, <2>3 DEF Rotating, Inserting
  <2>9. b \in Rows' \cup replaced' /\ ConfigIs(b, inputs[b].cfg)'
    BY <1>1, <2>3, <2>4, <2>5 DEF ConfigIs, Rows
  <2>10. Chained(b)' /\ EndsAt(b, inputs[b].cfg)'
    BY <2>6 DEF Chained, EndsAt
  <2>11. inputs'[b].version = Count(b)' + 1
    BY <2>4, <2>5, <2>7
  <2>12. inputs'[b] # NoRow
    BY <2>4, <2>5
  <2> QED BY <2>6, <2>8, <2>9, <2>10, <2>11, <2>12 DEF TrailOk
<1>7. \A a \in Ids : TrailOk(a)'
  BY <1>5, <1>6 DEF TrailOk
<1> QED BY <1>1, <1>7 DEF TrailInv

\* A rotation reads the inputs.
LEMMA TrailBegin ==
  ASSUME RegInv, TrailInv, NEW k \in Tasks, NEW b \in AgentIds, NEW cfg \in Configs, BeginRotate(k, b, cfg)
  PROVE  TrailInv'
<1>t. RegTypeOK
  BY DEF RegInv
<1> DEFINE new == [step |-> "rotateRead", id |-> b, cfg |-> cfg, chal |-> NoRow,
                   from |-> inputs[b].cfg, version |-> inputs[b].version]
<1>1. /\ task[k] = NoTask /\ task' = [task EXCEPT ![k] = new] /\ inputs[b] # NoRow
      /\ overlapped' = IF Rotating(b) = {} THEN overlapped ELSE overlapped \cup {b}
      /\ UNCHANGED <<agents, inputs, trail, cut, replaced>>
  BY DEF BeginRotate, regTables
<1>2. new.step = "rotateRead" /\ new.id = b /\ new.from = inputs[b].cfg /\ new.version = inputs[b].version
  OBVIOUS
<1> HIDE DEF new
<1>3. (\A m \in Tasks \ {k} : task'[m] = task[m]) /\ task'[k] = new
  BY <1>t, <1>1 DEF RegTypeOK
<1>4. task[k].step = "free"
  BY <1>1 DEF NoTask
<1>5. \A a \in Ids : RowStays(a)
  BY <1>1 DEF RowStays, Rows
<1>6. ASSUME NEW a \in Ids, a # b PROVE TrailOk(a)'
  <2>1. ~Involved(k, a) /\ ~Involved(k, a)'
    BY <1>2, <1>3, <1>4, <1>6 DEF Involved
  <2>2. TrailOk(a) /\ RowStays(a) /\ inputs'[a] = inputs[a] /\ trail' = trail
    BY <1>1, <1>5 DEF TrailInv
  <2> QED BY <1>3, <2>1, <2>2, TrailElsewhere
<1>7. ASSUME b \in Ids, b \notin overlapped' PROVE TrailOk(b)'
  <2>1. TrailOk(b) /\ b \notin overlapped /\ Rotating(b) = {}
    BY <1>1, <1>7 DEF TrailInv
  <2>2. /\ inputs[b].version = Count(b) + 1 /\ EndsAt(b, inputs[b].cfg) /\ ConfigIs(b, inputs[b].cfg)
        /\ cut[b] \in Nat
        /\ Chained(b) /\ b \in Rows \cup replaced /\ Inserting(b) = {}
    BY <1>1, <2>1 DEF TrailOk
  <2>3. Rotating(b)' = {k}
    BY <1>2, <1>3, <2>1 DEF Rotating
  <2>4. Inserting(b)' = {}
    BY <1>2, <1>3, <2>2 DEF Inserting
  <2>5. Chained(b)' /\ b \in Rows' \cup replaced' /\ Count(b)' = Count(b)
    BY <1>1, <2>2 DEF Chained, RotationsOf, Rows, Count
  <2>6. EndsAt(b, task[k].from)'
    BY <1>1, <1>2, <1>3, <2>2 DEF EndsAt, RotationsOf
  <2>7. RotationOk(k, b)'
    BY <1>1, <1>2, <1>3, <2>2, <2>5, <2>6 DEF RotationOk, ConfigIs
  <2>8. inputs'[b] # NoRow /\ cut'[b] \in Nat
    BY <1>1, <2>2
  <2> QED BY <2>3, <2>4, <2>5, <2>7, <2>8 DEF TrailOk
<1>8. \A a \in Ids : TrailOk(a)'
  BY <1>6, <1>7 DEF TrailOk
<1> QED BY <1>1, <1>8 DEF TrailInv

\* rotate_inputs writes the next version.
LEMMA TrailRotate ==
  ASSUME RegInv, TrailInv, NEW k \in Tasks, RotateInputs(k) PROVE TrailInv'
<1>t. RegTypeOK
  BY DEF RegInv
<1> SUFFICES ASSUME NEW b, b = task[k].id PROVE TrailInv'
  OBVIOUS
<1> DEFINE new == [cfg |-> task[k].cfg, version |-> task[k].version + 1]
<1>1. /\ task[k].step = "rotateRead" /\ task[k] \in RotateTask /\ task' = [task EXCEPT ![k].step = "rotated"]
      /\ inputs' = [inputs EXCEPT ![b] = new] /\ b \in AgentIds
      /\ UNCHANGED <<agents, trail, overlapped, cut, replaced>>
  BY <1>t, TaskKinds DEF RotateInputs, At, Step, regHistory, RotateTask
<1>2. new \in InputRow /\ new # NoRow
  BY <1>1, RegistryAssumption DEF RotateTask, InputRow
<1>3. inputs'[b] = new /\ \A a \in AgentIds \ {b} : inputs'[a] = inputs[a]
  BY <1>t, <1>1 DEF RegTypeOK
<1>4. /\ \A m \in Tasks \ {k} : task'[m] = task[m]
      /\ task'[k].step = "rotated" /\ task'[k].id = b /\ task'[k].cfg = task[k].cfg
      /\ task'[k].from = task[k].from /\ task'[k].version = task[k].version
  BY <1>t, <1>1 DEF RegTypeOK, RotateTask
<1>5. \A a \in Ids : RowStays(a)
  BY <1>1 DEF RowStays, Rows
<1>6. ASSUME NEW a \in Ids, a # b PROVE TrailOk(a)'
  <2>1. ~Involved(k, a) /\ ~Involved(k, a)'
    BY <1>4, <1>6 DEF Involved
  <2>2. TrailOk(a) /\ RowStays(a) /\ inputs'[a] = inputs[a] /\ trail' = trail
    BY <1>1, <1>3, <1>5, <1>6 DEF TrailInv, AgentIds
  <2> QED BY <1>4, <2>1, <2>2, TrailElsewhere
<1>7. ASSUME b \in Ids, b \notin overlapped' PROVE TrailOk(b)'
  <2>1. TrailOk(b) /\ b \notin overlapped /\ k \in Rotating(b)
    BY <1>1, <1>7 DEF TrailInv, Rotating
  <2>2. /\ inputs[b] # NoRow /\ cut[b] \in Nat /\ RotationOk(k, b) /\ \A m \in Rotating(b) : m = k
        /\ Chained(b) /\ b \in Rows \cup replaced /\ Inserting(b) = {}
    BY <2>1 DEF TrailOk
  <2>3. Rotating(b)' = {k}
    BY <1>4, <2>1, <2>2 DEF Rotating
  <2>4. Inserting(b)' = {}
    BY <1>4, <2>2 DEF Inserting
  <2>5. Chained(b)' /\ b \in Rows' \cup replaced' /\ Count(b)' = Count(b)
    BY <1>1, <2>2 DEF Chained, RotationsOf, Rows, Count
  <2>6. EndsAt(b, task[k].from)'
    BY <1>1, <1>4, <2>2 DEF RotationOk, EndsAt, RotationsOf
  <2>7. RotationOk(k, b)'
    BY <1>3, <1>4, <2>2, <2>5, <2>6 DEF RotationOk
  <2> HIDE DEF new
  <2>8. inputs'[b] # NoRow /\ cut'[b] \in Nat
    BY <1>1, <1>2, <1>3, <2>2
  <2> QED BY <2>3, <2>4, <2>5, <2>7, <2>8 DEF TrailOk
<1>8. \A a \in Ids : TrailOk(a)'
  BY <1>6, <1>7 DEF TrailOk
<1> QED BY <1>1, <1>8 DEF TrailInv

\* The row of the agent, if there still is one, gets the new checksum.
LEMMA TrailBind ==
  ASSUME RegInv, TrailInv, NEW k \in Tasks, BindConfig(k) PROVE TrailInv'
<1>t. RegTypeOK
  BY DEF RegInv
<1> SUFFICES ASSUME NEW b, b = task[k].id PROVE TrailInv'
  OBVIOUS
<1> DEFINE row == [agents[b] EXCEPT !.cfg = task[k].cfg]
<1>1. /\ task[k].step = "rotated" /\ task[k] \in RotateTask /\ task' = [task EXCEPT ![k].step = "bound"]
      /\ agents' = IF b \in Rows THEN [agents EXCEPT ![b] = row] ELSE agents
      /\ b \in AgentIds
      /\ UNCHANGED <<inputs, trail, overlapped, cut, replaced>>
  BY <1>t, TaskKinds DEF BindConfig, At, Step, regHistory, RotateTask
<1>2. b \in Rows => row \in AgentRow /\ row.cfg = task[k].cfg /\ row # NoRow
  BY <1>t, <1>1, RowTypes, RegistryAssumption DEF AgentRow, RotateTask
<1> HIDE DEF row
<1>3. (\A a \in AgentIds \ {b} : agents'[a] = agents[a]) /\ agents'[b] = IF b \in Rows THEN row ELSE agents[b]
  BY <1>t, <1>1 DEF RegTypeOK
<1>4. /\ \A m \in Tasks \ {k} : task'[m] = task[m]
      /\ task'[k].step = "bound" /\ task'[k].id = b /\ task'[k].cfg = task[k].cfg
      /\ task'[k].from = task[k].from /\ task'[k].version = task[k].version
  BY <1>t, <1>1 DEF RegTypeOK, RotateTask
<1>5. Rows' = Rows
  BY <1>1, <1>2, <1>3 DEF Rows
<1>6. ASSUME NEW a \in Ids, a # b PROVE TrailOk(a)'
  <2>1. ~Involved(k, a) /\ ~Involved(k, a)'
    BY <1>4, <1>6 DEF Involved
  <2>2. TrailOk(a) /\ inputs'[a] = inputs[a] /\ trail' = trail
    BY <1>1 DEF TrailInv
  <2>3. RowStays(a)
    BY <1>1, <1>3, <1>5, <1>6 DEF RowStays, AgentIds
  <2> QED BY <1>4, <2>1, <2>2, <2>3, TrailElsewhere
<1>7. ASSUME b \in Ids, b \notin overlapped' PROVE TrailOk(b)'
  <2>1. TrailOk(b) /\ b \notin overlapped /\ k \in Rotating(b)
    BY <1>1, <1>7 DEF TrailInv, Rotating
  <2>2. /\ inputs[b] # NoRow /\ cut[b] \in Nat /\ RotationOk(k, b) /\ \A m \in Rotating(b) : m = k
        /\ Chained(b) /\ b \in Rows \cup replaced /\ Inserting(b) = {}
    BY <2>1 DEF TrailOk
  <2>3. Rotating(b)' = {k}
    BY <1>4, <2>1, <2>2 DEF Rotating
  <2>4. Inserting(b)' = {}
    BY <1>4, <2>2 DEF Inserting
  <2>5. Chained(b)' /\ b \in Rows' \cup replaced' /\ Count(b)' = Count(b)
    BY <1>1, <1>5, <2>2 DEF Chained, RotationsOf, Count
  <2>6. EndsAt(b, task[k].from)'
    BY <1>1, <1>4, <2>2 DEF RotationOk, EndsAt, RotationsOf
  <2>7. ConfigIs(b, task[k].cfg)'
    BY <1>1, <1>2, <1>3, <1>4 DEF ConfigIs, Rows
  <2>8. RotationOk(k, b)'
    BY <1>1, <1>4, <2>2, <2>5, <2>6, <2>7 DEF RotationOk
  <2>9. inputs'[b] # NoRow /\ cut'[b] \in Nat
    BY <1>1, <2>2
  <2> QED BY <2>3, <2>4, <2>5, <2>8, <2>9 DEF TrailOk
<1>8. \A a \in Ids : TrailOk(a)'
  BY <1>6, <1>7 DEF TrailOk
<1> QED BY <1>1, <1>8 DEF TrailInv

\* The trail gets the rotation, and is as long as the version says.
LEMMA TrailAudit ==
  ASSUME RegInv, TrailInv, NEW k \in Tasks, AuditRotation(k) PROVE TrailInv'
<1>t. RegTypeOK
  BY DEF RegInv
<1> SUFFICES ASSUME NEW b, b = task[k].id, NEW n, n = Len(trail) + 1 PROVE TrailInv'
  OBVIOUS
<1> DEFINE e == [id |-> b, from |-> task[k].from, to |-> task[k].cfg]
<1>1. /\ task[k].step = "bound" /\ task[k] \in RotateTask /\ Finish(k)
      /\ trail' = Append(trail, e)
      /\ UNCHANGED <<agents, inputs, overlapped, cut, replaced>>
  BY <1>t, TaskKinds DEF AuditRotation, At, regHistory
<1>c. \A a : cut'[a] = cut[a]
  BY <1>1
<1>2. e \in [id: AgentIds, from: Configs, to: Configs] /\ e.id = b /\ e.from = task[k].from /\ e.to = task[k].cfg
  BY <1>1 DEF RotateTask
<1> HIDE DEF e
<1>3. trail \in Seq([id: AgentIds, from: Configs, to: Configs])
  BY DEF TrailInv
<1>4. /\ trail' \in Seq([id: AgentIds, from: Configs, to: Configs])
      /\ Len(trail') = n /\ n \in Nat /\ trail'[n] = e
      /\ \A i \in 1..Len(trail) : trail'[i] = trail[i]
  BY <1>1, <1>2, <1>3
<1>5. \A a : RotationsOf(a)' = IF a = b THEN RotationsOf(a) \cup {n} ELSE RotationsOf(a)
  BY <1>2, <1>3, <1>4 DEF RotationsOf
<1>6. \A a : \A i \in RotationsOf(a) : i \in Nat /\ i < n /\ trail'[i] = trail[i]
  BY <1>3, <1>4 DEF RotationsOf
<1>7. (\A m \in Tasks \ {k} : task'[m] = task[m]) /\ task'[k].step = "free"
  BY <1>t, <1>1, FinishFacts
<1>8. ASSUME NEW a \in Ids, a # b PROVE TrailOk(a)'
  <2>1. Rotating(a)' = Rotating(a) /\ Inserting(a)' = Inserting(a)
    BY <1>1, <1>7, <1>8 DEF Rotating, Inserting
  <2>2. \A m \in Rotating(a) \cup Inserting(a) : task'[m] = task[m]
    BY <1>1, <1>7, <1>8 DEF Rotating, Inserting
  <2>3. RotationsOf(a)' = RotationsOf(a) /\ Count(a)' = Count(a) /\ cut'[a] = cut[a]
    <3>1. RotationsOf(a)' = RotationsOf(a)
      BY <1>5, <1>8
    <3> QED BY <1>c, <3>1 DEF Count
  <2>4. Chained(a)' <=> Chained(a)
    <3>1. cut'[a] = cut[a] /\ RotationsOf(a)' = RotationsOf(a)
      BY <2>3
    <3>2. \A i \in RotationsOf(a) : trail'[i] = trail[i]
      BY <1>6
    <3> QED BY <3>1, <3>2 DEF Chained
  <2>5. ASSUME NEW c PROVE (cut[a] = 0 => \A i \in RotationsOf(a) : (\A m \in RotationsOf(a) : m <= i) => trail'[i].to = c)
                           <=> EndsAt(a, c)
    BY <1>6 DEF EndsAt
  <2>6. ASSUME NEW m \in Rotating(a), RotationOk(m, a) PROVE RotationOk(m, a)'
    <3>1. task'[m] = task[m]
      BY <2>2
    <3>2. EndsAt(a, task[m].from)'
      <4>1. EndsAt(a, task[m].from)
        BY <2>6 DEF RotationOk
      <4> QED BY <2>3, <2>5, <3>1, <4>1 DEF EndsAt
    <3> QED BY <1>1, <2>3, <2>6, <3>1, <3>2 DEF RotationOk, ConfigIs
  <2>7. inputs[a] # NoRow /\ Rotating(a) = {} /\ a \notin overlapped => EndsAt(a, inputs[a].cfg)'
    <3> SUFFICES ASSUME inputs[a] # NoRow, Rotating(a) = {}, a \notin overlapped PROVE EndsAt(a, inputs[a].cfg)'
      OBVIOUS
    <3>1. EndsAt(a, inputs[a].cfg)
      BY DEF TrailInv, TrailOk
    <3> QED BY <1>1, <2>3, <2>5, <3>1 DEF EndsAt
  <2>8. TrailOk(a)
    BY DEF TrailInv
  <2>9. \A m \in Inserting(a) : ConfigIs(a, task[m].cfg) => ConfigIs(a, task[m].cfg)'
    BY <1>1, <2>2 DEF ConfigIs
  <2> QED BY <1>1, <2>1, <2>3, <2>4, <2>6, <2>7, <2>8, <2>9 DEF TrailOk, ConfigIs, Rows
<1>9. ASSUME b \in Ids, b \notin overlapped' PROVE TrailOk(b)'
  <2>1. TrailOk(b) /\ b \notin overlapped /\ k \in Rotating(b)
    BY <1>1, <1>9 DEF TrailInv, Rotating
  <2>2. /\ inputs[b] # NoRow /\ cut[b] \in Nat /\ RotationOk(k, b) /\ \A m \in Rotating(b) : m = k
        /\ Chained(b) /\ b \in Rows \cup replaced /\ Inserting(b) = {}
    BY <2>1 DEF TrailOk
  <2>3. Rotating(b)' = {}
    BY <1>7, <2>1, <2>2 DEF Rotating
  <2>4. Inserting(b)' = {}
    BY <1>7, <2>2 DEF Inserting
  <2>5. RotationsOf(b)' = RotationsOf(b) \cup {n} /\ n \notin RotationsOf(b)
    BY <1>5, <1>6
  <2>6. Count(b) \in Nat /\ Count(b)' = Count(b) + 1
    <3>1. IsFiniteSet(RotationsOf(b))
      <4>1. IsFiniteSet(1..Len(trail))
        BY <1>3, FS_Interval
      <4> QED BY <4>1, FS_Subset DEF RotationsOf
    <3>2. Cardinality(RotationsOf(b) \cup {n}) = Cardinality(RotationsOf(b)) + 1
      BY <2>5, <3>1, FS_AddElement
    <3>3. Cardinality(RotationsOf(b)) \in Nat
      BY <3>1, FS_CardinalityType
    <3>4. Count(b)' = Cardinality(RotationsOf(b) \cup {n}) + cut[b]
      BY <1>c, <2>5 DEF Count
    <3> QED BY <2>2, <3>2, <3>3, <3>4 DEF Count
  <2>7. inputs'[b] = [cfg |-> task[k].cfg, version |-> task[k].version + 1] /\ task[k].version = Count(b) + 1
    BY <1>1, <2>2 DEF RotationOk
  <2>8. inputs'[b].version = Count(b)' + 1 /\ inputs'[b].cfg = task[k].cfg
    BY <2>6, <2>7
  <2>9. EndsAt(b, inputs[b].cfg)'
    <3>1. ASSUME NEW i \in RotationsOf(b)', \A m \in RotationsOf(b)' : m <= i PROVE trail'[i].to = task[k].cfg
      <4>1. n <= i
        BY <2>5, <3>1
      <4>2. i = n
        BY <1>4, <1>6, <2>5, <4>1
      <4> QED BY <1>2, <1>4, <4>2
    <3> QED BY <2>8, <3>1 DEF EndsAt
  <2>10. Chained(b)'
    <3>1. ASSUME cut[b] = 0, NEW i \in RotationsOf(b)', NEW j \in RotationsOf(b)', i < j,
                 (i + 1 .. j - 1) \cap RotationsOf(b)' = {}
          PROVE  trail'[i].to = trail'[j].from
      <4>1. i \in Nat /\ j \in Nat /\ i # n
        BY <1>4, <1>6, <2>5, <3>1
      <4>2. i \in RotationsOf(b)
        BY <2>5, <4>1
      <4>3. CASE j = n
        <5>1. ASSUME NEW m \in RotationsOf(b) PROVE m <= i
          <6>1. m \in Nat /\ m < n
            BY <1>6
          <6>2. m \notin i + 1 .. j - 1
            BY <2>5, <3>1
          <6> QED BY <1>4, <4>1, <4>3, <6>1, <6>2
        <5>2. trail[i].to = task[k].from
          BY <2>2, <3>1, <4>2, <5>1 DEF RotationOk, EndsAt
        <5> QED BY <1>2, <1>4, <1>6, <4>2, <4>3, <5>2
      <4>4. CASE j # n
        <5>1. j \in RotationsOf(b)
          BY <2>5, <4>4
        <5>2. (i + 1 .. j - 1) \cap RotationsOf(b) = {}
          BY <2>5, <3>1
        <5> QED BY <1>6, <2>2, <3>1, <4>2, <5>1, <5>2 DEF Chained
      <4> QED BY <4>3, <4>4
    <3> QED BY <1>1, <3>1 DEF Chained
  <2>11. b \in Rows' \cup replaced' /\ inputs'[b] # NoRow /\ cut'[b] \in Nat
    BY <1>1, <2>2 DEF Rows
  <2>12. ConfigIs(b, inputs[b].cfg)'
    BY <1>1, <2>2, <2>8 DEF RotationOk, ConfigIs
  <2> QED BY <2>3, <2>4, <2>8, <2>9, <2>10, <2>11, <2>12 DEF TrailOk
<1>10. \A a \in Ids : TrailOk(a)'
  BY <1>8, <1>9 DEF TrailOk
<1> QED BY <1>4, <1>10 DEF TrailInv

\* agent_vc_issue takes rows of registered agents away, and gives them none.
LEMMA TrailVc ==
  ASSUME RegInv, TrailInv, NEW k \in Tasks, InsertVc(k) PROVE TrailInv'
<1>t. RegTypeOK
  BY DEF RegInv
<1> DEFINE v == <<task[k].human, task[k].cfg, rtime>>
           D == Displaced(v, task[k].realm, task[k].key)
           new == [task[k] EXCEPT !.step = "vcInserted", !.id = v]
           row == NewRow(k, 0, NoRow)
<1>1. /\ task[k].step = "vcChecked" /\ task[k] \in VcTask
      /\ agents' = [b \in AgentIds |-> IF b = v THEN row ELSE IF b \in D THEN NoRow ELSE agents[b]]
      /\ replaced' = replaced \cup D /\ task' = [task EXCEPT ![k] = new]
      /\ UNCHANGED <<inputs, trail, overlapped, cut>>
  BY <1>t, TaskKinds DEF InsertVc, At
<1>2. v \in VcIds
  BY <1>t, <1>1 DEF VcTask, RegTypeOK, VcIds
<1>3. new.step = "vcInserted"
  BY <1>1 DEF VcTask
<1> HIDE DEF v, D, new, row
<1>4. (\A m \in Tasks \ {k} : task'[m] = task[m]) /\ task'[k] = new
  BY <1>t, <1>1 DEF RegTypeOK
<1>5. ASSUME NEW a \in Ids PROVE RowStays(a)
  <2>1. a \in AgentIds /\ a # v
    BY <1>2, RegistryAssumption DEF AgentIds
  <2>2. agents'[a] = IF a \in D THEN NoRow ELSE agents[a]
    BY <1>1, <2>1
  <2> QED BY <1>1, <2>1, <2>2 DEF RowStays, Rows
<1>6. task[k].step \notin Recorded /\ task'[k].step \notin Recorded
  BY <1>1, <1>3, <1>4 DEF Recorded
<1> QED BY <1>1, <1>4, <1>5, <1>6, TrailAway

\* A rotation is given up, by an error or a crash; half-way, it counts as cut.
\* Nothing else happens to the agent.
LEMMA TrailGivenUp ==
  ASSUME RegInv, TrailInv, NEW a \in Ids, UNCHANGED <<agents, inputs, trail, overlapped, replaced>>,
         NEW k \in Rotating(a), Rotating(a)' = {}, Inserting(a)' = {},
         cut'[a] = IF task[k].step = "rotateRead" THEN cut[a] ELSE cut[a] + 1
  PROVE  TrailOk(a)'
<1> SUFFICES ASSUME a \notin overlapped PROVE TrailOk(a)'
  BY DEF TrailOk
<1>1. TrailOk(a)
  BY DEF TrailInv
<1>2. /\ cut[a] \in Nat /\ Chained(a) /\ inputs[a] # NoRow /\ a \in Rows \cup replaced /\ RotationOk(k, a)
  BY <1>1 DEF TrailOk
<1>3. Rows' = Rows /\ RotationsOf(a)' = RotationsOf(a)
  BY DEF Rows, RotationsOf
<1>4. Cardinality(RotationsOf(a)) \in Nat
  <2>1. IsFiniteSet(1..Len(trail))
    BY FS_Interval DEF TrailInv
  <2> QED BY <2>1, FS_Subset, FS_CardinalityType DEF RotationsOf
<1>5. task[k].step \in {"rotateRead", "rotated", "bound"}
  BY DEF Rotating
<1>6. CASE task[k].step = "rotateRead"
  <2>1. cut'[a] = cut[a]
    BY <1>6
  <2>2. inputs'[a].version = Count(a)' + 1 /\ inputs'[a].cfg = task[k].from
    BY <1>2, <1>3, <1>6, <2>1 DEF RotationOk, Count
  <2>3. EndsAt(a, task[k].from) /\ ConfigIs(a, task[k].from)
    BY <1>2, <1>6 DEF RotationOk
  <2>4. EndsAt(a, inputs[a].cfg)' /\ ConfigIs(a, inputs[a].cfg)' /\ Chained(a)'
    BY <1>2, <1>3, <2>1, <2>2, <2>3 DEF EndsAt, ConfigIs, Chained
  <2> QED BY <1>2, <1>3, <2>1, <2>2, <2>4 DEF TrailOk
<1>7. CASE task[k].step # "rotateRead"
  <2>1. cut'[a] = cut[a] + 1 /\ cut'[a] \in Nat /\ cut'[a] # 0
    BY <1>2, <1>7
  <2>2. inputs[a] = [cfg |-> task[k].cfg, version |-> task[k].version + 1] /\ task[k].version = Count(a) + 1
    BY <1>2, <1>7 DEF RotationOk
  <2>3. inputs'[a].version = Count(a)' + 1
    BY <1>2, <1>3, <1>4, <2>1, <2>2 DEF Count
  <2>4. EndsAt(a, inputs[a].cfg)' /\ ConfigIs(a, inputs[a].cfg)' /\ Chained(a)'
    BY <2>1 DEF EndsAt, ConfigIs, Chained
  <2> QED BY <1>2, <1>3, <2>1, <2>3, <2>4 DEF TrailOk
<1> QED BY <1>6, <1>7

\* Of an agent that nobody rotates, tasks may go away and its row, its inputs
\* and its trail stay.
LEMMA TrailLeft ==
  ASSUME TrailInv, NEW a \in Ids, UNCHANGED <<agents, inputs, trail, overlapped, replaced>>,
         Rotating(a) = {}, Rotating(a)' = {}, Inserting(a)' = {}, cut'[a] = cut[a]
  PROVE  TrailOk(a)'
<1>1. TrailOk(a)
  BY DEF TrailInv
<1>2. Rows' = Rows /\ RotationsOf(a)' = RotationsOf(a) /\ Count(a)' = Count(a)
  BY DEF Rows, RotationsOf, Count
<1>3. /\ Chained(a)' <=> Chained(a)
      /\ EndsAt(a, inputs[a].cfg)' <=> EndsAt(a, inputs[a].cfg)
      /\ ConfigIs(a, inputs[a].cfg)' <=> ConfigIs(a, inputs[a].cfg)
  BY <1>2 DEF Chained, EndsAt, ConfigIs
<1> QED BY <1>1, <1>2, <1>3 DEF TrailOk

\* A request ends with an error.
LEMMA TrailFails ==
  ASSUME RegInv, TrailInv, NEW k \in Tasks, StatementFails(k) PROVE TrailInv'
<1>t. RegTypeOK
  BY DEF RegInv
<1>1. /\ Finish(k) /\ UNCHANGED <<agents, inputs, trail, overlapped, replaced>>
      /\ cut' = [a \in AgentIds |-> IF k \in HalfRotated(a) THEN cut[a] + 1 ELSE cut[a]]
  BY DEF StatementFails, regTables
<1>2. (\A m \in Tasks \ {k} : task'[m] = task[m]) /\ task'[k].step = "free"
  BY <1>t, <1>1, FinishFacts
<1>3. ASSUME NEW a \in Ids, ~Involved(k, a) PROVE TrailOk(a)'
  <2>1. ~Involved(k, a)' /\ k \notin HalfRotated(a)
    BY <1>2, <1>3 DEF Involved, HalfRotated
  <2>2. RowStays(a)
    BY <1>1, <2>1 DEF RowStays, Rows, AgentIds
  <2>3. TrailOk(a) /\ inputs'[a] = inputs[a] /\ trail' = trail
    BY <1>1 DEF TrailInv
  <2> QED BY <1>2, <1>3, <2>1, <2>2, <2>3, TrailElsewhere
<1>4. ASSUME NEW a \in Ids, Involved(k, a), a \notin overlapped PROVE TrailOk(a)'
  <2>1. TrailOk(a)
    BY DEF TrailInv
  <2>2. cut'[a] = IF k \in HalfRotated(a) THEN cut[a] + 1 ELSE cut[a]
    BY <1>1 DEF AgentIds
  <2>3. CASE task[k].step = "rowInserted"
    <3>1. k \in Inserting(a)
      BY <1>4, <2>3 DEF Inserting, Involved
    <3>2. Rotating(a) = {} /\ \A m \in Inserting(a) : m = k
      BY <1>4, <2>1, <3>1 DEF TrailOk
    <3>3. Rotating(a)' = {} /\ Inserting(a)' = {}
      BY <1>2, <3>2 DEF Rotating, Inserting
    <3>4. cut'[a] = cut[a]
      BY <2>2, <2>3 DEF HalfRotated
    <3> QED BY <1>1, <3>2, <3>3, <3>4, TrailLeft
  <2>4. CASE task[k].step # "rowInserted"
    <3>1. k \in Rotating(a)
      BY <1>4, <2>4 DEF Rotating, Involved
    <3>2. Inserting(a) = {} /\ \A m \in Rotating(a) : m = k
      BY <1>4, <2>1, <3>1 DEF TrailOk
    <3>3. Rotating(a)' = {} /\ Inserting(a)' = {}
      BY <1>2, <3>2 DEF Rotating, Inserting
    <3>4. cut'[a] = IF task[k].step = "rotateRead" THEN cut[a] ELSE cut[a] + 1
      BY <2>2, <3>1 DEF HalfRotated, Rotating
    <3> QED BY <1>1, <3>1, <3>3, <3>4, TrailGivenUp
  <2> QED BY <2>3, <2>4
<1>5. \A a \in Ids : TrailOk(a)'
  <2>1. ASSUME NEW a \in Ids, a \in overlapped PROVE TrailOk(a)'
    BY <1>1, <2>1 DEF TrailOk
  <2> QED BY <1>3, <1>4, <2>1
<1> QED BY <1>1, <1>5 DEF TrailInv

\* A crash cuts the rotations that were half-way.
LEMMA TrailRestart ==
  ASSUME RegInv, TrailInv, RegRestart PROVE TrailInv'
<1>1. /\ task' = [k \in Tasks |-> NoTask]
      /\ cut' = [a \in AgentIds |-> cut[a] + Cardinality(HalfRotated(a))]
      /\ UNCHANGED <<agents, inputs, trail, overlapped, replaced>>
  BY DEF RegRestart, regTables
<1>2. \A k \in Tasks : task'[k].step = "free"
  BY <1>1 DEF NoTask
<1>3. ASSUME NEW a \in Ids, a \notin overlapped PROVE TrailOk(a)'
  <2>1. TrailOk(a) /\ cut[a] \in Nat
    BY <1>3 DEF TrailInv, TrailOk
  <2>2. Rotating(a)' = {} /\ Inserting(a)' = {}
    BY <1>2 DEF Rotating, Inserting
  <2>3. cut'[a] = cut[a] + Cardinality(HalfRotated(a))
    BY <1>1 DEF AgentIds
  <2>4. ASSUME HalfRotated(a) = {} PROVE cut'[a] = cut[a]
    BY <2>1, <2>3, <2>4, FS_EmptySet
  <2>5. CASE Rotating(a) = {}
    <3>1. HalfRotated(a) = {}
      BY <2>5 DEF Rotating, HalfRotated
    <3> QED BY <1>1, <2>2, <2>4, <2>5, <3>1, TrailLeft
  <2>6. ASSUME NEW k \in Rotating(a) PROVE TrailOk(a)'
    <3>1. \A m \in Rotating(a) : m = k
      BY <1>3, <2>1, <2>6 DEF TrailOk
    <3>2. CASE task[k].step = "rotateRead"
      <4>1. HalfRotated(a) = {}
        BY <3>1, <3>2 DEF Rotating, HalfRotated
      <4> QED BY <1>1, <2>2, <2>4, <2>6, <3>2, <4>1, TrailGivenUp
    <3>3. CASE task[k].step # "rotateRead"
      <4>1. HalfRotated(a) = {k}
        BY <2>6, <3>1, <3>3 DEF Rotating, HalfRotated
      <4>2. cut'[a] = cut[a] + 1
        BY <2>3, <4>1, FS_Singleton
      <4> QED BY <1>1, <2>2, <2>6, <3>3, <4>2, TrailGivenUp
    <3> QED BY <3>2, <3>3
  <2> QED BY <2>5, <2>6
<1>4. \A a \in Ids : TrailOk(a)'
  <2>1. ASSUME NEW a \in Ids, a \in overlapped PROVE TrailOk(a)'
    BY <1>1, <2>1 DEF TrailOk
  <2> QED BY <1>3, <2>1
<1> QED BY <1>1, <1>4 DEF TrailInv

LEMMA TrailStep ==
  ASSUME RegInv, TrailInv, [RegistryNext]_registryVars PROVE TrailInv'
<1>0. ASSUME UNCHANGED <<agents, inputs, trail, task, overlapped, cut, replaced>> PROVE TrailInv'
  <2>1. ASSUME NEW a \in Ids PROVE TrailOk(a)'
    <3>1. Rows' = Rows /\ RotationsOf(a)' = RotationsOf(a) /\ Count(a)' = Count(a)
      BY <1>0 DEF Rows, RotationsOf, Count
    <3>2. Rotating(a)' = Rotating(a) /\ Inserting(a)' = Inserting(a)
      BY <1>0 DEF Rotating, Inserting
    <3>3. Chained(a)' <=> Chained(a)
      BY <1>0, <3>1 DEF Chained
    <3>4. \A m \in Tasks : RotationOk(m, a)' <=> RotationOk(m, a)
      BY <1>0, <3>1 DEF RotationOk, EndsAt, ConfigIs
    <3>5. EndsAt(a, inputs[a].cfg)' <=> EndsAt(a, inputs[a].cfg)
      BY <1>0, <3>1 DEF EndsAt
    <3>6. ConfigIs(a, inputs[a].cfg)' <=> ConfigIs(a, inputs[a].cfg)
      BY <1>0 DEF ConfigIs
    <3>7. \A m \in Tasks : ConfigIs(a, task[m].cfg)' <=> ConfigIs(a, task[m].cfg)
      BY <1>0 DEF ConfigIs
    <3>8. Rotating(a) \subseteq Tasks /\ Inserting(a) \subseteq Tasks
      BY DEF Rotating, Inserting
    <3>9. TrailOk(a)
      BY DEF TrailInv
    <3> QED BY <1>0, <3>1, <3>2, <3>3, <3>4, <3>5, <3>6, <3>7, <3>8, <3>9 DEF TrailOk
  <2> QED BY <1>0, <2>1 DEF TrailInv
<1>1. ASSUME NEW k \in Tasks, RegistersAgent(k) PROVE TrailInv'
  BY <1>1, TrailQuiet, TrailInsert, TrailPersist DEF RegistersAgent
<1>2. ASSUME NEW k \in Tasks, IssuesVc(k) PROVE TrailInv'
  BY <1>2, TrailQuiet, TrailVc DEF IssuesVc
<1>3. ASSUME NEW k \in Tasks, Maintains(k) PROVE TrailInv'
  BY <1>3, TrailQuiet, TrailBegin, TrailRotate, TrailBind, TrailAudit DEF Maintains
<1>4. ASSUME NEW c \in AttestIds, NEW t \in Realms, NEW h \in Humans, NEW key \in AgentKeys,
             IssueAttestChallenge(c, t, h, key)
      PROVE  TrailInv'
  BY <1>0, <1>4 DEF IssueAttestChallenge, regHistory
<1>5. ASSUME NEW h \in Humans, LinkChanges(h) PROVE TrailInv'
  BY <1>0, <1>5 DEF LinkChanges, regHistory
<1>6. CASE RegTick
  BY <1>0, <1>6 DEF RegTick, regTables, regHistory
<1>7. CASE UNCHANGED registryVars
  BY <1>0, <1>7 DEF registryVars, regTables, regHistory
<1> QED BY <1>1, <1>2, <1>3, <1>4, <1>5, <1>6, <1>7, TrailFails, TrailRestart DEF RegistryNext

\* An agent's configuration has one history: for any number of agents and of
\* concurrent requests, errors and restarts included, the version of an agent
\* whose rotations did not overlap counts all of them, also those that ended
\* half-way; without such a one they form a chain, and the checksum in the row is
\* that of the stored inputs.
THEOREM TrailChains == RegistrySpec => []TrailIsAChain
<1>1. ASSUME RegistryInit PROVE TrailInv
  <2>1. \A a \in Ids : RotationsOf(a) = {} /\ inputs[a] = NoRow /\ cut[a] = 0
    BY <1>1 DEF RegistryInit, RotationsOf, AgentIds
  <2>2. \A a \in Ids : Rotating(a) = {} /\ Inserting(a) = {}
    BY <1>1 DEF RegistryInit, Rotating, Inserting, NoTask
  <2>3. \A a \in Ids : TrailOk(a)
    BY <2>1, <2>2 DEF TrailOk, Chained
  <2>4. trail \in Seq([id: AgentIds, from: Configs, to: Configs])
    BY <1>1 DEF RegistryInit
  <2> QED BY <2>3, <2>4 DEF TrailInv
<1>2. RegInv /\ TrailInv /\ [RegistryNext]_registryVars => TrailInv'
  BY TrailStep
<1>3. TrailInv => TrailIsAChain
  BY DEF TrailInv, TrailOk, Chained, ConfigIs, Count, TrailIsAChain
<1> QED BY <1>1, <1>2, <1>3, RegAlways, PTL DEF RegistrySpec

----------------------------------------------------------------------------
(* User accounts: types.                                                   *)

BankJob == [stage: {"attested", "nonceTaken", "stored", "keyed", "bound", "linked"}, by: {"bank"},
            reg: Attestations]
PartnerJob == [stage: {"signed", "stored", "keyed", "bound"}, by: {"partner"}, reg: Enrolments]
Handout == [commitment: Commitments, index: Nat, root: Seq(Commitments)]
LeafJob == [stage: {"committed"}, by: {"partner"}, reg: Enrolments, receipt: Handout]
CountJob == [stage: {"counted"}, tenant: Tenants, user: People, at: Nat]
AuthJob == [stage: {"verified"}, challenge: Challenges, signer: AuthKeys, at: Nat]
ClaimJob == [stage: {"claiming", "asking"}, user: People]
Busy == BankJob \cup PartnerJob \cup LeafJob \cup CountJob \cup AuthJob \cup ClaimJob
OpenRow == [tenant: Tenants, user: People, exp: Nat, used: BOOLEAN]
Session == [worker: Workers, challenge: Challenges \cup {None}, tenant: Tenants, user: People,
            signer: AuthKeys \cup {None}]
Hows == {"none", "answered", "refused", "unloaded"}
Points == {a.pk : a \in Attestations} \cup {e.pk : e \in Enrolments}

AccTypeOK ==
  /\ clock \in Nat
  /\ directory \in [People -> Points \cup {None}]
  /\ authKey \in [People -> AuthKeys \cup {None}]
  /\ challenge \in [Challenges -> OpenRow \cup {None}]
  /\ job \in [Workers -> Busy \cup {Idle}]
  /\ lastWriter \in [People -> Workers \cup Hows]
  /\ sessions \subseteq Session
  /\ leaves \in Seq(Commitments)

\* The stage a job is at says what kind of job it is.
LEMMA JobKinds ==
  ASSUME AccTypeOK, NEW w \in Workers
  PROVE  /\ job[w].stage \in {"attested", "nonceTaken", "linked"} => job[w] \in BankJob
         /\ job[w].stage = "signed" => job[w] \in PartnerJob
         /\ job[w].stage = "committed" => job[w] \in LeafJob
         /\ job[w].stage \in {"stored", "keyed", "bound"} => job[w] \in BankJob \cup PartnerJob
         /\ job[w].stage = "counted" => job[w] \in CountJob
         /\ job[w].stage = "verified" => job[w] \in AuthJob
         /\ job[w].stage \in {"claiming", "asking"} => job[w] \in ClaimJob
         /\ Idle.stage = "idle"
BY DEF AccTypeOK, Busy, BankJob, PartnerJob, LeafJob, CountJob, AuthJob, ClaimJob, Idle

\* What a job's registration is.
LEMMA RegTypes ==
  ASSUME NEW w \in Workers, job[w] \in BankJob \cup PartnerJob
  PROVE  /\ Reg(w).user \in People /\ Reg(w).tenant \in Tenants
         /\ Reg(w).auth \in AuthKeys \cup {None}
         /\ job[w] \in BankJob => Reg(w).auth \in AuthKeys
BY AccountsAssumption DEF BankJob, PartnerJob, Reg

LEMMA MoveFacts ==
  ASSUME AccTypeOK, NEW w \in Workers, NEW s, Move(w, s),
         \/ job[w] \in BankJob /\ s \in {"nonceTaken", "stored", "keyed", "bound", "linked"}
         \/ job[w] \in PartnerJob /\ s \in {"stored", "keyed", "bound"}
         \/ job[w] \in ClaimJob /\ s = "asking"
  PROVE  /\ job' \in [Workers -> Busy \cup {Idle}]
         /\ \A v \in Workers \ {w} : job'[v] = job[v]
         /\ job'[w].stage = s
         /\ job[w] \in BankJob => job'[w] \in BankJob /\ job'[w].reg = job[w].reg
         /\ job[w] \in PartnerJob => job'[w] \in PartnerJob /\ job'[w].reg = job[w].reg
         /\ job[w] \in ClaimJob => job'[w] \in ClaimJob /\ job'[w].user = job[w].user
<1> DEFINE new == [job[w] EXCEPT !.stage = s]
<1>1. job' = [job EXCEPT ![w] = new]
  BY DEF Move
<1>2. job[w] \in BankJob /\ s \in {"nonceTaken", "stored", "keyed", "bound", "linked"} =>
        new \in BankJob /\ new.reg = job[w].reg /\ new.stage = s
  BY DEF BankJob
<1>3. job[w] \in PartnerJob /\ s \in {"stored", "keyed", "bound"} =>
        new \in PartnerJob /\ new.reg = job[w].reg /\ new.stage = s
  BY DEF PartnerJob
<1>4. job[w] \in ClaimJob /\ s = "asking" => new \in ClaimJob /\ new.user = job[w].user /\ new.stage = s
  BY DEF ClaimJob
<1>5. /\ ~(job[w] \in BankJob /\ job[w] \in PartnerJob)
      /\ ~(job[w] \in BankJob /\ job[w] \in ClaimJob)
      /\ ~(job[w] \in PartnerJob /\ job[w] \in ClaimJob)
  <2>1. job[w] \in BankJob => "by" \in DOMAIN job[w] /\ job[w].by = "bank"
    BY DEF BankJob
  <2>2. job[w] \in PartnerJob => "by" \in DOMAIN job[w] /\ job[w].by = "partner"
    BY DEF PartnerJob
  <2>3. job[w] \in ClaimJob => "by" \notin DOMAIN job[w]
    BY DEF ClaimJob
  <2> QED BY <2>1, <2>2, <2>3
<1> HIDE DEF new
<1>6. job'[w] = new /\ \A v \in Workers \ {w} : job'[v] = job[v]
  BY <1>1 DEF AccTypeOK
<1>7. new \in Busy
  BY <1>2, <1>3, <1>4 DEF Busy
<1>8. job' \in [Workers -> Busy \cup {Idle}]
  BY <1>1, <1>7 DEF AccTypeOK
<1> QED BY <1>2, <1>3, <1>4, <1>5, <1>6, <1>8

LEMMA ReplyFacts ==
  ASSUME AccTypeOK, NEW w \in Workers, Reply(w)
  PROVE  /\ job' \in [Workers -> Busy \cup {Idle}]
         /\ \A v \in Workers \ {w} : job'[v] = job[v]
         /\ job'[w] = Idle /\ job'[w].stage = "idle"
BY DEF AccTypeOK, Reply, Idle

LEMMA JobSet ==
  ASSUME AccTypeOK, NEW w \in Workers, NEW new \in Busy, job' = [job EXCEPT ![w] = new]
  PROVE  /\ job' \in [Workers -> Busy \cup {Idle}]
         /\ \A v \in Workers \ {w} : job'[v] = job[v]
         /\ job'[w] = new
BY DEF AccTypeOK


\* The types hold on, and a step is the step of one worker.
WorkerStep(w) == Registers(w) \/ SignsIn(w) \/ Claims(w)

LEMMA WorkerTypes ==
  ASSUME AccTypeOK, NEW w \in Workers, WorkerStep(w)
  PROVE  AccTypeOK' /\ \A v \in Workers \ {w} : job'[v] = job[v]
<1> DEFINE Goal == AccTypeOK' /\ \A v \in Workers \ {w} : job'[v] = job[v]
           Quiet == UNCHANGED <<clock, directory, authKey, challenge, lastWriter, sessions, leaves>>
<1>j. ASSUME Quiet, NEW new \in Busy, job' = [job EXCEPT ![w] = new] PROVE Goal
  BY <1>j, JobSet DEF AccTypeOK
<1>m. ASSUME Quiet, NEW s, Move(w, s),
             \/ job[w] \in BankJob /\ s \in {"nonceTaken", "stored", "keyed", "bound", "linked"}
             \/ job[w] \in PartnerJob /\ s \in {"stored", "keyed", "bound"}
             \/ job[w] \in ClaimJob /\ s = "asking"
      PROVE  Goal
  BY <1>m, MoveFacts DEF AccTypeOK
<1>r. ASSUME UNCHANGED <<clock, directory, authKey, challenge, sessions, leaves>>, Reply(w),
             UNCHANGED lastWriter \/ \E how \in {"answered", "refused"} : Settled(w, how)
      PROVE  Goal
  <2>1. lastWriter' \in [People -> Workers \cup Hows]
    BY <1>r DEF AccTypeOK, Settled, Hows
  <2> QED BY <1>r, <2>1, ReplyFacts DEF AccTypeOK
<1>1. ASSUME NEW a \in Attestations, BankRegister(w, a) PROVE Goal
  <2>1. [stage |-> "attested", by |-> "bank", reg |-> a] \in Busy
    BY DEF Busy, BankJob
  <2> QED BY <1>1, <1>j, <2>1 DEF BankRegister, tables, histories
<1>2. CASE ConsumeNonce(w)
  BY <1>2, <1>m, <1>r, JobKinds DEF ConsumeNonce, Refuse
<1>3. CASE UpsertUser(w)
  <2>1. job[w] \in BankJob /\ Move(w, "stored") /\ UNCHANGED <<clock, authKey, challenge, sessions, leaves>>
    BY <1>3, JobKinds DEF UpsertUser
  <2>2. Reg(w).pk \in Points /\ Reg(w).user \in People
    BY <2>1, RegTypes DEF BankJob, Reg, Points
  <2>3. /\ directory' \in [People -> Points \cup {None}]
        /\ lastWriter' \in [People -> Workers \cup Hows]
    BY <1>3, <2>2 DEF UpsertUser, AccTypeOK
  <2> QED BY <2>1, <2>3, MoveFacts DEF AccTypeOK
<1>4. CASE LinkCustomer(w)
  <2>1. job[w] \in BankJob
    BY <1>4, JobKinds DEF LinkCustomer, PartnerJob
  <2> QED BY <1>4, <1>m, <2>1 DEF LinkCustomer, histories
<1>5. CASE JoinRing(w)
  BY <1>5, <1>r DEF JoinRing, tables
<1>6. ASSUME NEW e \in Enrolments, PartnerRegister(w, e) PROVE Goal
  <2>1. [stage |-> "signed", by |-> "partner", reg |-> e] \in Busy
    BY DEF Busy, PartnerJob
  <2> QED BY <1>6, <1>j, <2>1 DEF PartnerRegister, tables, histories
<1>7. CASE InsertIfAbsent(w)
  <2>1. /\ job[w] \in PartnerJob /\ Move(w, IF Reg(w).auth = None THEN "bound" ELSE "stored")
        /\ UNCHANGED <<clock, authKey, challenge, sessions, leaves>>
    BY <1>7, JobKinds DEF InsertIfAbsent
  <2>2. Reg(w).pk \in Points /\ Reg(w).user \in People
    BY <2>1, RegTypes DEF PartnerJob, Reg, Points
  <2>3. /\ directory' \in [People -> Points \cup {None}]
        /\ lastWriter' \in [People -> Workers \cup Hows]
    BY <1>7, <2>2 DEF InsertIfAbsent, AccTypeOK
  <2> QED BY <2>1, <2>3, MoveFacts DEF AccTypeOK
<1>8. CASE CommitLeaf(w)
  <2>1. job[w] \in PartnerJob
    BY <1>8, JobKinds DEF CommitLeaf, BankJob
  <2>2. UNCHANGED <<clock, directory, authKey, challenge, sessions>>
    BY <1>8 DEF CommitLeaf, tables
  <2>3. CASE Reply(w) /\ UNCHANGED leaves /\ \E how \in {"answered", "refused"} : Settled(w, how)
    BY <1>r, <2>2, <2>3
  <2> DEFINE new == [stage |-> "committed", by |-> "partner", reg |-> Reg(w),
                     receipt |-> Receipt(Reg(w).commitment)]
  <2>4. CASE /\ Reg(w).commitment \in Commitments /\ leaves' = Append(leaves, Reg(w).commitment)
             /\ job' = [job EXCEPT ![w] = new] /\ UNCHANGED lastWriter
    <3>1. Append(leaves, Reg(w).commitment) \in Seq(Commitments) /\ Len(leaves) + 1 \in Nat
      BY <2>4 DEF AccTypeOK
    <3>2. Receipt(Reg(w).commitment) \in Handout
      BY <2>4, <3>1 DEF Receipt, Handout
    <3>3. new \in Busy
      BY <2>1, <3>2 DEF Busy, LeafJob, PartnerJob, Reg
    <3> HIDE DEF new
    <3> QED BY <2>2, <2>4, <3>1, <3>3, JobSet DEF AccTypeOK
  <2> QED BY <1>8, <2>3, <2>4 DEF CommitLeaf, Refuse
<1>9. CASE PersistLeaf(w)
  BY <1>9, <1>r DEF PersistLeaf
<1>10. CASE StoreAuthKey(w)
  <2>1. job[w] \in BankJob \cup PartnerJob /\ UNCHANGED <<clock, directory, challenge, sessions, leaves>>
    BY <1>10, JobKinds DEF StoreAuthKey
  <2>2. authKey' \in [People -> AuthKeys \cup {None}]
    BY <1>10, <2>1, RegTypes DEF StoreAuthKey, AccTypeOK
  <2>3. CASE Move(w, "keyed") /\ UNCHANGED lastWriter
    BY <2>1, <2>2, <2>3, MoveFacts DEF AccTypeOK
  <2>4. CASE Refuse(w)
    <3>1. lastWriter' \in [People -> Workers \cup Hows]
      BY <2>4 DEF AccTypeOK, Refuse, Settled, Hows
    <3> QED BY <2>1, <2>2, <2>4, <3>1, ReplyFacts DEF AccTypeOK, Refuse
  <2> QED BY <1>10, <2>3, <2>4 DEF StoreAuthKey
<1>11. CASE BindTenant(w)
  BY <1>11, <1>m, JobKinds DEF BindTenant, histories
<1>12. ASSUME NEW t \in Tenants, NEW u \in People, RequestChallenge(w, t, u) PROVE Goal
  <2> DEFINE new == [stage |-> "counted", tenant |-> t, user |-> u, at |-> clock]
  <2>1. new \in Busy
    BY DEF Busy, CountJob, AccTypeOK
  <2>2. /\ job' = job \/ job' = [job EXCEPT ![w] = new]
        /\ challenge' = [c \in Challenges |-> IF Prunable(c) THEN None ELSE challenge[c]]
        /\ UNCHANGED <<clock, directory, authKey, lastWriter, sessions, leaves>>
    BY <1>12 DEF RequestChallenge, histories
  <2> HIDE DEF new
  <2>3. challenge' \in [Challenges -> OpenRow \cup {None}]
    BY <2>2 DEF AccTypeOK
  <2> QED BY <2>1, <2>2, <2>3, JobSet DEF AccTypeOK
<1>13. ASSUME NEW c \in Challenges, InsertChallenge(w, c) PROVE Goal
  <2> DEFINE row == [tenant |-> job[w].tenant, user |-> job[w].user,
                     exp |-> job[w].at + ChallengeTtl, used |-> FALSE]
  <2>1. /\ job[w] \in CountJob /\ Reply(w) /\ challenge' = [challenge EXCEPT ![c] = row]
        /\ UNCHANGED <<clock, directory, authKey, lastWriter, sessions, leaves>>
    BY <1>13, JobKinds DEF InsertChallenge, histories
  <2>2. row \in OpenRow
    BY <2>1, AccountsAssumption DEF CountJob, OpenRow
  <2> HIDE DEF row
  <2> QED BY <2>1, <2>2, ReplyFacts DEF AccTypeOK
<1>14. ASSUME NEW c \in Challenges, NEW k \in AuthKeys, FinishAuth(w, c, k) PROVE Goal
  <2>1. [stage |-> "verified", challenge |-> c, signer |-> k, at |-> clock] \in Busy
    BY DEF Busy, AuthJob, AccTypeOK
  <2> QED BY <1>14, <1>j, <2>1 DEF FinishAuth, tables, histories
<1>15. CASE ConsumeChallenge(w)
  <2> DEFINE c == job[w].challenge
             s == [worker |-> w, challenge |-> c, tenant |-> challenge[c].tenant,
                   user |-> challenge[c].user, signer |-> job[w].signer]
  <2>1. job[w] \in AuthJob /\ Reply(w) /\ UNCHANGED <<clock, directory, authKey, lastWriter, leaves>>
    BY <1>15, JobKinds DEF ConsumeChallenge
  <2>2. CASE UNCHANGED <<challenge, sessions>>
    BY <2>1, <2>2, ReplyFacts DEF AccTypeOK
  <2>3. CASE /\ Consumable(w) /\ challenge' = [challenge EXCEPT ![c].used = TRUE]
             /\ sessions' = sessions \cup {s}
    <3>1. c \in Challenges /\ challenge[c] \in OpenRow
      BY <2>1, <2>3 DEF AuthJob, Consumable, AccTypeOK
    <3>2. [challenge[c] EXCEPT !.used = TRUE] \in OpenRow
      BY <3>1 DEF OpenRow
    <3>3. s \in Session
      BY <2>1, <3>1 DEF Session, AuthJob, OpenRow
    <3>4. challenge' \in [Challenges -> OpenRow \cup {None}]
      BY <2>3, <3>1, <3>2 DEF AccTypeOK
    <3> HIDE DEF s, c
    <3> QED BY <2>1, <2>3, <3>3, <3>4, ReplyFacts DEF AccTypeOK
  <2> QED BY <1>15, <2>2, <2>3 DEF ConsumeChallenge
<1>16. ASSUME NEW u \in People, GetCredential(w, u) PROVE Goal
  <2>1. [stage |-> "claiming", user |-> u] \in Busy
    BY DEF Busy, ClaimJob
  <2> QED BY <1>16, <1>j, <2>1 DEF GetCredential, tables, histories
<1>17. CASE ClaimCode(w)
  BY <1>17, <1>m, <1>r, JobKinds DEF ClaimCode, histories
<1>18. CASE IssuerFails(w) \/ IssuerAnswers(w) \/ Disconnect(w)
  BY <1>18, <1>r DEF IssuerFails, IssuerAnswers, Disconnect, tables
<1>19. CASE AbandonRegister(w)
  BY <1>19, <1>r DEF AbandonRegister, Refuse, tables
<1>20. ASSUME NEW t \in Tenants, NEW u \in People, PasswordLogin(w, t, u) PROVE Goal
  <2> DEFINE s == [worker |-> w, challenge |-> None, tenant |-> t, user |-> u, signer |-> None]
  <2>1. /\ sessions' = sessions \cup {s}
        /\ UNCHANGED <<clock, directory, authKey, challenge, job, lastWriter, leaves>>
    BY <1>20 DEF PasswordLogin, tables, memory
  <2>2. s \in Session
    BY DEF Session
  <2> HIDE DEF s
  <2> QED BY <2>1, <2>2 DEF AccTypeOK
<1> QED BY <1>1, <1>2, <1>3, <1>4, <1>5, <1>6, <1>7, <1>8, <1>9, <1>10, <1>11, <1>12, <1>13, <1>14,
           <1>15, <1>16, <1>17, <1>18, <1>19, <1>20 DEF WorkerStep, Registers, SignsIn, Claims

----------------------------------------------------------------------------
(* Sessions.                                                               *)

\* The challenge a session answered is used up or gone.
HeldByKey(s) ==
  IF s.challenge = None THEN LegacyAuth
  ELSE /\ s.signer \in AuthKeys /\ s.signer = authKey[s.user] /\ <<s.tenant, s.user>> \in bindings
       /\ challenge[s.challenge] = None \/ challenge[s.challenge].used
\* The challenge of an answer that verified is the one it answered, or gone.
Answered(w) ==
  job[w].stage = "verified" =>
    LET ch == challenge[job[w].challenge] IN
      ch = None \/ (authKey[ch.user] = job[w].signer /\ <<ch.tenant, ch.user>> \in bindings)
SessionInv ==
  /\ \A s \in sessions : HeldByKey(s)
  /\ \A r, s \in sessions : s.challenge # None /\ r.challenge = s.challenge => r = s
  /\ \A u, v \in People : authKey[u] # None /\ authKey[u] = authKey[v] => u = v
  /\ \A w \in Workers : Answered(w)

\* Keys and bindings stay, challenges may go.
LEMMA SessionFrame ==
  ASSUME AccTypeOK, AccTypeOK', SessionInv, NEW w \in Workers,
         \A v \in Workers \ {w} : job'[v] = job[v],
         sessions' = sessions, bindings \subseteq bindings',
         \A u \in People : authKey[u] # None => authKey'[u] = authKey[u],
         \A u, v \in People : authKey'[u] # None /\ authKey'[u] = authKey'[v] => u = v,
         \A c \in Challenges : challenge'[c] = None \/ challenge'[c] = challenge[c],
         Answered(w)'
  PROVE  SessionInv'
<1>1. ASSUME NEW s \in sessions PROVE HeldByKey(s)'
  <2>1. HeldByKey(s) /\ s \in Session
    BY DEF SessionInv, AccTypeOK
  <2>2. s.user \in People /\ s.challenge \in Challenges \cup {None}
    BY <2>1 DEF Session
  <2> QED BY <2>1, <2>2, AccountsAssumption DEF HeldByKey
<1>2. ASSUME NEW v \in Workers \ {w}, job[v].stage = "verified" PROVE Answered(v)'
  <2>1. Answered(v) /\ job'[v] = job[v] /\ job[v] \in AuthJob
    BY <1>2, JobKinds DEF SessionInv
  <2>2. job[v].signer \in AuthKeys /\ job[v].challenge \in Challenges
    BY <2>1 DEF AuthJob
  <2>3. CASE challenge'[job[v].challenge] = None
    BY <2>1, <2>3 DEF Answered
  <2>4. CASE challenge'[job[v].challenge] # None
    <3>1. /\ challenge'[job[v].challenge] = challenge[job[v].challenge]
          /\ challenge[job[v].challenge] \in OpenRow
      BY <2>2, <2>4 DEF AccTypeOK
    <3>2. challenge[job[v].challenge].user \in People
      BY <3>1 DEF OpenRow
    <3> QED BY <1>2, <2>1, <2>2, <2>4, <3>1, <3>2, AccountsAssumption DEF Answered
  <2> QED BY <2>3, <2>4
<1>3. ASSUME NEW v \in Workers PROVE Answered(v)'
  BY <1>2 DEF Answered
<1> QED BY <1>1, <1>3 DEF SessionInv

LEMMA SessionStep ==
  ASSUME AccTypeOK, SessionInv, NEW w \in Workers, WorkerStep(w) PROVE SessionInv'
<1>t. AccTypeOK' /\ \A v \in Workers \ {w} : job'[v] = job[v]
  BY WorkerTypes
<1> DEFINE Same == UNCHANGED <<sessions, bindings, authKey, challenge>>
<1>k. \A u, v \in People : authKey[u] # None /\ authKey[u] = authKey[v] => u = v
  BY DEF SessionInv
<1>s. ASSUME Same, job'[w].stage # "verified" PROVE SessionInv'
  <2>1. Answered(w)'
    BY <1>s DEF Answered
  <2> QED BY <1>k, <1>t, <1>s, <2>1, SessionFrame
<1>m. ASSUME Same, NEW x, Move(w, x), x # "verified",
             \/ job[w] \in BankJob /\ x \in {"nonceTaken", "stored", "keyed", "bound", "linked"}
             \/ job[w] \in PartnerJob /\ x \in {"stored", "keyed", "bound"}
             \/ job[w] \in ClaimJob /\ x = "asking"
      PROVE  SessionInv'
  BY <1>m, <1>s, MoveFacts
<1>r. ASSUME Same, Reply(w) PROVE SessionInv'
  BY <1>r, <1>s, ReplyFacts
<1>1. ASSUME NEW a \in Attestations, BankRegister(w, a) PROVE SessionInv'
  BY <1>s, <1>1 DEF BankRegister, tables, histories, AccTypeOK
<1>2. CASE ConsumeNonce(w)
  BY <1>m, <1>r, <1>2, JobKinds DEF ConsumeNonce, Refuse
<1>3. CASE UpsertUser(w)
  BY <1>m, <1>3, JobKinds DEF UpsertUser
<1>4. CASE LinkCustomer(w)
  <2>1. job[w] \in BankJob
    BY <1>4, JobKinds DEF LinkCustomer, PartnerJob
  <2> QED BY <1>m, <1>4, <2>1 DEF LinkCustomer, histories
<1>5. CASE JoinRing(w)
  BY <1>r, <1>5 DEF JoinRing, tables
<1>6. ASSUME NEW e \in Enrolments, PartnerRegister(w, e) PROVE SessionInv'
  BY <1>s, <1>6 DEF PartnerRegister, tables, histories, AccTypeOK
<1>7. CASE InsertIfAbsent(w)
  BY <1>m, <1>7, JobKinds DEF InsertIfAbsent
<1>8. CASE CommitLeaf(w)
  <2>1. Same /\ (Reply(w) \/ job'[w].stage = "committed")
    BY <1>8 DEF CommitLeaf, tables, Refuse, AccTypeOK
  <2> QED BY <1>r, <1>s, <2>1
<1>9. CASE PersistLeaf(w)
  BY <1>r, <1>9 DEF PersistLeaf
<1>10. CASE StoreAuthKey(w)
  <2>1. /\ job[w] \in BankJob \cup PartnerJob /\ UNCHANGED <<sessions, bindings, challenge>>
        /\ Reply(w) \/ Move(w, "keyed")
    BY <1>10, JobKinds DEF StoreAuthKey, Refuse
  <2>2. \A u \in People : authKey[u] # None => authKey'[u] = authKey[u]
    BY <1>10 DEF StoreAuthKey, AccTypeOK
  <2>4. \A u, v \in People : authKey'[u] # None /\ authKey'[u] = authKey'[v] => u = v
    <3>1. CASE UNCHANGED authKey
      BY <1>k, <3>1
    <3>2. CASE /\ \A u \in People : authKey[u] # Reg(w).auth
               /\ authKey' = [authKey EXCEPT ![Reg(w).user] = Reg(w).auth]
      BY <1>k, <3>2 DEF AccTypeOK
    <3> QED BY <1>10, <3>1, <3>2 DEF StoreAuthKey
  <2>3. job'[w].stage # "verified"
    BY <2>1, MoveFacts, ReplyFacts
  <2> QED BY <1>t, <2>1, <2>2, <2>3, <2>4, SessionFrame DEF Answered
<1>11. CASE BindTenant(w)
  <2>1. /\ job[w] \in BankJob \cup PartnerJob /\ UNCHANGED <<sessions, authKey, challenge>>
        /\ Move(w, "bound") /\ bindings \subseteq bindings'
    BY <1>11, JobKinds DEF BindTenant, histories
  <2>2. job'[w].stage # "verified"
    BY <2>1, MoveFacts
  <2> QED BY <1>k, <1>t, <2>1, <2>2, SessionFrame DEF Answered
<1>12. ASSUME NEW t \in Tenants, NEW u \in People, RequestChallenge(w, t, u) PROVE SessionInv'
  <2>1. /\ UNCHANGED <<sessions, bindings, authKey>>
        /\ \A c \in Challenges : challenge'[c] = None \/ challenge'[c] = challenge[c]
    BY <1>12 DEF RequestChallenge, histories
  <2>2. job'[w].stage # "verified"
    BY <1>12 DEF RequestChallenge, AccTypeOK, Idle
  <2> QED BY <1>k, <1>t, <2>1, <2>2, SessionFrame DEF Answered
<1>13. ASSUME NEW c \in Challenges, InsertChallenge(w, c) PROVE SessionInv'
  <2>1. /\ Reply(w) /\ FreshChallenge(c) /\ UNCHANGED <<sessions, bindings, authKey>>
        /\ \A d \in Challenges \ {c} : challenge'[d] = challenge[d]
    BY <1>13 DEF InsertChallenge, histories, AccTypeOK
  <2>2. ASSUME NEW s \in sessions PROVE HeldByKey(s)'
    <3>1. s.challenge \in Challenges \cup {None} /\ s.challenge # c
      BY <2>1 DEF FreshChallenge, AccTypeOK, Session
    <3> QED BY <2>1, <3>1 DEF HeldByKey, SessionInv
  <2>3. ASSUME NEW v \in Workers PROVE Answered(v)'
    <3>1. job'[w].stage # "verified"
      BY <2>1, ReplyFacts
    <3>2. CASE v # w /\ job[v].stage = "verified"
      <4>1. job'[v] = job[v] /\ job[v].challenge \in Challenges \ {c}
        BY <1>t, <2>1, <3>2, JobKinds DEF FreshChallenge, AuthJob
      <4> QED BY <2>1, <4>1 DEF Answered, SessionInv
    <3> QED BY <1>t, <3>1, <3>2 DEF Answered
  <2> QED BY <1>k, <2>1, <2>2, <2>3 DEF SessionInv
<1>14. ASSUME NEW c \in Challenges, NEW k \in AuthKeys, FinishAuth(w, c, k) PROVE SessionInv'
  <2>1. /\ Same /\ <<challenge[c].tenant, challenge[c].user>> \in bindings
        /\ authKey[challenge[c].user] = k /\ job'[w].challenge = c /\ job'[w].signer = k
    BY <1>14 DEF FinishAuth, tables, histories, AccTypeOK
  <2>2. Answered(w)'
    BY <2>1 DEF Answered
  <2> QED BY <1>k, <1>t, <2>1, <2>2, SessionFrame
<1>15. CASE ConsumeChallenge(w)
  <2> DEFINE c == job[w].challenge
             s == [worker |-> w, challenge |-> c, tenant |-> challenge[c].tenant,
                   user |-> challenge[c].user, signer |-> job[w].signer]
  <2>1. /\ job[w].stage = "verified" /\ job[w] \in AuthJob /\ Reply(w)
        /\ UNCHANGED <<bindings, authKey>>
    BY <1>15, JobKinds DEF ConsumeChallenge
  <2>2. CASE UNCHANGED <<challenge, sessions>>
    BY <1>r, <2>1, <2>2
  <2>3. CASE /\ Consumable(w) /\ challenge' = [challenge EXCEPT ![c].used = TRUE]
             /\ sessions' = sessions \cup {s}
    <3>1. c \in Challenges /\ challenge[c] # None /\ ~challenge[c].used /\ challenge[c] \in OpenRow
      BY <2>1, <2>3 DEF AuthJob, Consumable, AccTypeOK
    <3>2. /\ \A d \in Challenges \ {c} : challenge'[d] = challenge[d]
          /\ challenge'[c].used /\ challenge'[c].tenant = challenge[c].tenant
          /\ challenge'[c].user = challenge[c].user
      <4>1. /\ [challenge[c] EXCEPT !.used = TRUE].used
            /\ [challenge[c] EXCEPT !.used = TRUE].tenant = challenge[c].tenant
            /\ [challenge[c] EXCEPT !.used = TRUE].user = challenge[c].user
        BY <3>1 DEF OpenRow
      <4>2. challenge'[c] = [challenge[c] EXCEPT !.used = TRUE]
        BY <2>3, <3>1 DEF AccTypeOK
      <4> QED BY <2>3, <4>1, <4>2 DEF AccTypeOK
    <3>3. \A r \in sessions : r.challenge \in (Challenges \cup {None}) \ {c}
      BY <3>1, AccountsAssumption DEF SessionInv, HeldByKey, AccTypeOK, Session
    <3>4. /\ s.challenge = c /\ s.signer = authKey[s.user] /\ <<s.tenant, s.user>> \in bindings
          /\ s.signer \in AuthKeys /\ c # None
      BY <2>1, <3>1, AccountsAssumption DEF SessionInv, Answered, AuthJob
    <3> HIDE DEF s
    <3>5. ASSUME NEW r \in sessions' PROVE HeldByKey(r)'
      <4>1. CASE r \in sessions
        BY <2>1, <3>2, <3>3, <4>1 DEF HeldByKey, SessionInv
      <4>2. CASE r = s
        BY <2>1, <3>2, <3>4, <4>2 DEF HeldByKey
      <4> QED BY <2>3, <4>1, <4>2
    <3>6. ASSUME NEW v \in Workers PROVE Answered(v)'
      <4>1. CASE v = w
        BY <2>1, <4>1, ReplyFacts DEF Answered
      <4>2. CASE v # w
        <5>1. job'[v] = job[v] /\ Answered(v)
          BY <1>t, <4>2 DEF SessionInv
        <5>2. CASE job[v].stage = "verified"
          <6>1. job[v].challenge \in Challenges
            BY <5>2, JobKinds DEF AuthJob
          <6> QED BY <2>1, <3>1, <3>2, <5>1, <5>2, <6>1 DEF Answered
        <5> QED BY <5>1, <5>2 DEF Answered
      <4> QED BY <4>1, <4>2
    <3> QED BY <1>k, <2>1, <2>3, <3>3, <3>4, <3>5, <3>6 DEF SessionInv
  <2> QED BY <1>15, <2>2, <2>3 DEF ConsumeChallenge
<1>16. ASSUME NEW u \in People, GetCredential(w, u) PROVE SessionInv'
  BY <1>s, <1>16 DEF GetCredential, tables, histories, AccTypeOK
<1>17. CASE ClaimCode(w)
  BY <1>m, <1>r, <1>17, JobKinds DEF ClaimCode, histories
<1>18. CASE IssuerFails(w) \/ IssuerAnswers(w) \/ Disconnect(w)
  BY <1>r, <1>18 DEF IssuerFails, IssuerAnswers, Disconnect, tables
<1>19. CASE AbandonRegister(w)
  BY <1>r, <1>19 DEF AbandonRegister, Refuse, tables
<1>20. ASSUME NEW t \in Tenants, NEW u \in People, PasswordLogin(w, t, u) PROVE SessionInv'
  <2> DEFINE s == [worker |-> w, challenge |-> None, tenant |-> t, user |-> u, signer |-> None]
  <2>1. LegacyAuth /\ sessions' = sessions \cup {s} /\ UNCHANGED <<authKey, bindings, challenge, job>>
    BY <1>20 DEF PasswordLogin, tables, memory
  <2>2. s.challenge = None
    OBVIOUS
  <2> HIDE DEF s
  <2>3. ASSUME NEW r \in sessions' PROVE HeldByKey(r)'
    BY <2>1, <2>2, <2>3 DEF SessionInv, HeldByKey
  <2>4. \A v \in Workers : Answered(v)'
    BY <2>1 DEF SessionInv, Answered
  <2> QED BY <2>1, <2>2, <2>3, <2>4 DEF SessionInv
<1> QED BY <1>1, <1>2, <1>3, <1>4, <1>5, <1>6, <1>7, <1>8, <1>9, <1>10, <1>11, <1>12, <1>13, <1>14,
           <1>15, <1>16, <1>17, <1>18, <1>19, <1>20 DEF WorkerStep, Registers, SignsIn, Claims

----------------------------------------------------------------------------
(* The ring of users.                                                      *)

\* A job that has written the row of its user and not yet answered; from
\* "committed" on its key is in the ring.
Unanswered == {"stored", "keyed", "bound", "linked", "committed"}
Wrote(w, u) ==
  lastWriter[u] = w =>
    /\ job[w].stage \in Unanswered
    /\ job[w].reg.user = u /\ directory[u] = job[w].reg.pk
    /\ job[w].stage = "committed" => directory[u] \in ring
Accepted(u) ==
  /\ lastWriter[u] = "answered" => directory[u] \in ring
  /\ lastWriter[u] = "none" => directory[u] = None
RingInv ==
  /\ \A w \in Workers, u \in People : Wrote(w, u)
  /\ \A u \in People : Accepted(u)

\* No row changes hands.
LEMMA RingFrame ==
  ASSUME AccTypeOK, RingInv, NEW w \in Workers, \A v \in Workers \ {w} : job'[v] = job[v],
         UNCHANGED <<directory, lastWriter>>, ring \subseteq ring',
         \/ job[w].stage \notin Unanswered
         \/ /\ job'[w].stage \in Unanswered /\ job'[w].reg = job[w].reg
            /\ job'[w].stage = "committed" => job[w].reg.pk \in ring'
  PROVE  RingInv'
<1>1. ASSUME NEW v \in Workers, NEW u \in People PROVE Wrote(v, u)'
  BY DEF RingInv, Wrote
<1>2. ASSUME NEW u \in People PROVE Accepted(u)'
  BY DEF RingInv, Accepted
<1> QED BY <1>1, <1>2 DEF RingInv

\* A job answers for the row it wrote.
LEMMA RingSettled ==
  ASSUME AccTypeOK, RingInv, NEW w \in Workers, \A v \in Workers \ {w} : job'[v] = job[v],
         UNCHANGED directory, ring \subseteq ring',
         NEW how \in {"answered", "refused"}, Settled(w, how),
         how = "answered" => \A u \in People : lastWriter[u] = w => directory[u] \in ring'
  PROVE  RingInv'
<1>1. \A u \in People : lastWriter'[u] = IF lastWriter[u] = w THEN how ELSE lastWriter[u]
  BY DEF Settled
<1>2. w # "answered" /\ w # "none" /\ \A v \in Workers : v # how
  BY AccountsAssumption
<1>3. ASSUME NEW v \in Workers, NEW u \in People PROVE Wrote(v, u)'
  BY <1>1, <1>2 DEF RingInv, Wrote
<1>4. ASSUME NEW u \in People PROVE Accepted(u)'
  BY <1>1, <1>2 DEF RingInv, Accepted
<1> QED BY <1>3, <1>4 DEF RingInv

\* A job writes the row of its user.
LEMMA RingWritten ==
  ASSUME AccTypeOK, RingInv, NEW w \in Workers, \A v \in Workers \ {w} : job'[v] = job[v],
         job[w] \in BankJob \cup PartnerJob, job[w].stage \notin Unanswered,
         job'[w].stage \in {"stored", "bound"}, job'[w].reg = job[w].reg, UNCHANGED ring,
         directory' = [directory EXCEPT ![Reg(w).user] = Reg(w).pk],
         lastWriter' = [lastWriter EXCEPT ![Reg(w).user] = w]
  PROVE  RingInv'
<1>1. Reg(w).user \in People /\ w # "answered" /\ w # "none"
  BY RegTypes, AccountsAssumption
<1>2. /\ directory'[Reg(w).user] = job[w].reg.pk /\ lastWriter'[Reg(w).user] = w
      /\ \A u \in People : u # Reg(w).user => directory'[u] = directory[u] /\ lastWriter'[u] = lastWriter[u]
  BY <1>1 DEF AccTypeOK, Reg
<1>3. ASSUME NEW v \in Workers, NEW u \in People PROVE Wrote(v, u)'
  BY <1>1, <1>2 DEF RingInv, Wrote, Reg, Unanswered
<1>4. ASSUME NEW u \in People PROVE Accepted(u)'
  BY <1>1, <1>2 DEF RingInv, Accepted
<1> QED BY <1>3, <1>4 DEF RingInv

LEMMA RingStep ==
  ASSUME AccTypeOK, RingInv, NEW w \in Workers, WorkerStep(w) PROVE RingInv'
<1>t. AccTypeOK' /\ \A v \in Workers \ {w} : job'[v] = job[v]
  BY WorkerTypes
<1> DEFINE Same == UNCHANGED <<directory, lastWriter, ring>>
<1>q. ASSUME Same, job[w].stage \notin Unanswered PROVE RingInv'
  BY <1>t, <1>q, RingFrame
<1>m. ASSUME Same, NEW x \in {"keyed", "bound", "linked"}, Move(w, x),
             \/ job[w] \in BankJob
             \/ job[w] \in PartnerJob /\ x # "linked"
      PROVE  RingInv'
  <2>1. job'[w].stage = x /\ job'[w].reg = job[w].reg
    BY <1>m, MoveFacts
  <2> QED BY <1>t, <1>m, <2>1, RingFrame DEF Unanswered
<1>1. ASSUME NEW a \in Attestations, BankRegister(w, a) PROVE RingInv'
  BY <1>q, <1>1 DEF BankRegister, tables, histories, Idle, Unanswered
<1>2. CASE ConsumeNonce(w)
  <2>1. job[w].stage \notin Unanswered /\ UNCHANGED <<directory, ring>>
    BY <1>2 DEF ConsumeNonce, Unanswered
  <2>2. CASE UNCHANGED lastWriter
    BY <1>q, <2>1, <2>2
  <2>3. CASE Refuse(w)
    BY <1>t, <2>1, <2>3, RingSettled DEF Refuse
  <2> QED BY <1>2, <2>2, <2>3 DEF ConsumeNonce
<1>3. CASE UpsertUser(w)
  <2>1. /\ job[w] \in BankJob /\ job[w].stage \notin Unanswered /\ Move(w, "stored") /\ UNCHANGED ring
        /\ directory' = [directory EXCEPT ![Reg(w).user] = Reg(w).pk]
        /\ lastWriter' = [lastWriter EXCEPT ![Reg(w).user] = w]
    BY <1>3, JobKinds DEF UpsertUser, Unanswered
  <2>2. job'[w].stage = "stored" /\ job'[w].reg = job[w].reg
    BY <2>1, MoveFacts
  <2> QED BY <1>t, <2>1, <2>2, RingWritten
<1>4. CASE LinkCustomer(w)
  <2>1. job[w] \in BankJob
    BY <1>4, JobKinds DEF LinkCustomer, PartnerJob
  <2> QED BY <1>m, <1>4, <2>1 DEF LinkCustomer, histories
<1>5. CASE JoinRing(w)
  <2>1. /\ Settled(w, "answered") /\ UNCHANGED directory /\ ring' = ring \cup {job[w].reg.pk}
    BY <1>5 DEF JoinRing, tables, Reg
  <2>2. \A u \in People : lastWriter[u] = w => directory[u] \in ring'
    BY <2>1 DEF RingInv, Wrote
  <2> QED BY <1>t, <2>1, <2>2, RingSettled
<1>6. ASSUME NEW e \in Enrolments, PartnerRegister(w, e) PROVE RingInv'
  BY <1>q, <1>6 DEF PartnerRegister, tables, histories, Idle, Unanswered
<1>7. CASE InsertIfAbsent(w)
  <2>1. /\ job[w] \in PartnerJob /\ job[w].stage \notin Unanswered /\ UNCHANGED ring
        /\ Move(w, IF Reg(w).auth = None THEN "bound" ELSE "stored")
    BY <1>7, JobKinds DEF InsertIfAbsent, Unanswered
  <2>2. job'[w].stage \in {"stored", "bound"} /\ job'[w].reg = job[w].reg
    BY <2>1, MoveFacts
  <2>3. CASE UNCHANGED <<directory, lastWriter>>
    BY <1>q, <2>1, <2>3
  <2>4. CASE /\ directory' = [directory EXCEPT ![Reg(w).user] = Reg(w).pk]
             /\ lastWriter' = [lastWriter EXCEPT ![Reg(w).user] = w]
    BY <1>t, <2>1, <2>2, <2>4, RingWritten
  <2> QED BY <1>7, <2>3, <2>4 DEF InsertIfAbsent
<1>8. CASE CommitLeaf(w)
  <2>1. /\ job[w] \in PartnerJob /\ job[w].stage \in Unanswered /\ UNCHANGED directory
        /\ ring' = ring \cup {job[w].reg.pk}
    BY <1>8, JobKinds DEF CommitLeaf, BankJob, tables, Reg, Unanswered
  <2>2. \A u \in People : lastWriter[u] = w => directory[u] \in ring'
    BY <2>1 DEF RingInv, Wrote
  <2>3. CASE Settled(w, "answered") \/ Settled(w, "refused")
    BY <1>t, <2>1, <2>2, <2>3, RingSettled
  <2>4. CASE job'[w].stage = "committed" /\ job'[w].reg = job[w].reg /\ UNCHANGED lastWriter
    BY <1>t, <2>1, <2>4, RingFrame DEF Unanswered
  <2> QED BY <1>8, <2>3, <2>4 DEF CommitLeaf, Refuse, AccTypeOK, Reg
<1>9. CASE PersistLeaf(w)
  <2>1. /\ Settled(w, "answered") /\ UNCHANGED <<directory, ring>> /\ job[w].stage = "committed"
    BY <1>9 DEF PersistLeaf
  <2>2. \A u \in People : lastWriter[u] = w => directory[u] \in ring'
    BY <2>1 DEF RingInv, Wrote
  <2> QED BY <1>t, <2>1, <2>2, RingSettled
<1>10. CASE StoreAuthKey(w)
  <2>1. job[w] \in BankJob \cup PartnerJob /\ UNCHANGED <<directory, ring>>
    BY <1>10, JobKinds DEF StoreAuthKey
  <2>2. CASE Move(w, "keyed") /\ UNCHANGED lastWriter
    BY <1>m, <2>1, <2>2
  <2>3. CASE Refuse(w)
    BY <1>t, <2>1, <2>3, RingSettled DEF Refuse
  <2> QED BY <1>10, <2>2, <2>3 DEF StoreAuthKey
<1>11. CASE BindTenant(w)
  BY <1>m, <1>11, JobKinds DEF BindTenant, histories
<1>12. ASSUME NEW t \in Tenants, NEW u \in People, RequestChallenge(w, t, u) PROVE RingInv'
  BY <1>q, <1>12 DEF RequestChallenge, histories, Idle, Unanswered
<1>13. ASSUME NEW c \in Challenges, InsertChallenge(w, c) PROVE RingInv'
  BY <1>q, <1>13 DEF InsertChallenge, histories, Unanswered
<1>14. ASSUME NEW c \in Challenges, NEW k \in AuthKeys, FinishAuth(w, c, k) PROVE RingInv'
  BY <1>q, <1>14 DEF FinishAuth, tables, histories, Idle, Unanswered
<1>15. CASE ConsumeChallenge(w)
  BY <1>q, <1>15 DEF ConsumeChallenge, Unanswered
<1>16. ASSUME NEW u \in People, GetCredential(w, u) PROVE RingInv'
  BY <1>q, <1>16 DEF GetCredential, tables, histories, Idle, Unanswered
<1>17. CASE ClaimCode(w)
  BY <1>q, <1>17 DEF ClaimCode, histories, Unanswered
<1>18. CASE IssuerFails(w) \/ IssuerAnswers(w) \/ Disconnect(w)
  BY <1>q, <1>18 DEF IssuerFails, IssuerAnswers, Disconnect, tables, Unanswered
<1>19. CASE AbandonRegister(w)
  BY <1>t, <1>19, RingSettled DEF AbandonRegister, Refuse, tables
<1>20. ASSUME NEW t \in Tenants, NEW u \in People, PasswordLogin(w, t, u) PROVE RingInv'
  BY <1>q, <1>20 DEF PasswordLogin, tables, memory, Idle, Unanswered
<1> QED BY <1>1, <1>2, <1>3, <1>4, <1>5, <1>6, <1>7, <1>8, <1>9, <1>10, <1>11, <1>12, <1>13, <1>14,
           <1>15, <1>16, <1>17, <1>18, <1>19, <1>20 DEF WorkerStep, Registers, SignsIn, Claims

----------------------------------------------------------------------------
(* The claims on credential codes.                                         *)

Asked == {job[w].user : w \in Asking}
ClaimInv ==
  /\ \A v, w \in Asking : job[v].user = job[w].user => v = w
  /\ Asked \subseteq claimed
  /\ claimed \ (vcs \cup Asked) \subseteq faults

\* Registration and sign-in have nothing to do with the codes.
LEMMA OtherJobs ==
  ASSUME AccTypeOK, NEW w \in Workers, Registers(w) \/ SignsIn(w)
  PROVE  UNCHANGED <<claimed, vcs, faults>> /\ job[w].stage # "asking" /\ job'[w].stage # "asking"
<1> DEFINE Goal == /\ UNCHANGED <<claimed, vcs, faults>>
                   /\ job[w].stage # "asking" /\ job'[w].stage # "asking"
<1>1. ASSUME NEW a \in Attestations, BankRegister(w, a) PROVE Goal
  BY <1>1 DEF BankRegister, tables, histories, AccTypeOK, Idle
<1>2. CASE ConsumeNonce(w)
  BY <1>2, JobKinds, MoveFacts, ReplyFacts DEF ConsumeNonce, Refuse
<1>3. CASE UpsertUser(w)
  BY <1>3, JobKinds, MoveFacts DEF UpsertUser
<1>4. CASE LinkCustomer(w)
  <2>1. job[w] \in BankJob
    BY <1>4, JobKinds DEF LinkCustomer, PartnerJob
  <2> QED BY <1>4, <2>1, MoveFacts DEF LinkCustomer, histories
<1>5. CASE JoinRing(w)
  BY <1>5, ReplyFacts DEF JoinRing, tables
<1>6. ASSUME NEW e \in Enrolments, PartnerRegister(w, e) PROVE Goal
  BY <1>6 DEF PartnerRegister, tables, histories, AccTypeOK, Idle
<1>7. CASE InsertIfAbsent(w)
  BY <1>7, JobKinds, MoveFacts DEF InsertIfAbsent
<1>8. CASE CommitLeaf(w)
  <2>1. job[w].stage = "bound" /\ UNCHANGED <<claimed, vcs, faults>>
    BY <1>8 DEF CommitLeaf, tables
  <2>2. Reply(w) \/ job'[w].stage = "committed"
    BY <1>8 DEF CommitLeaf, Refuse, AccTypeOK
  <2> QED BY <2>1, <2>2, ReplyFacts
<1>9. CASE PersistLeaf(w)
  BY <1>9, ReplyFacts DEF PersistLeaf
<1>10. CASE StoreAuthKey(w)
  BY <1>10, JobKinds, MoveFacts, ReplyFacts DEF StoreAuthKey, Refuse
<1>11. CASE BindTenant(w)
  BY <1>11, JobKinds, MoveFacts DEF BindTenant, histories
<1>12. ASSUME NEW t \in Tenants, NEW u \in People, RequestChallenge(w, t, u) PROVE Goal
  BY <1>12 DEF RequestChallenge, histories, AccTypeOK, Idle
<1>13. ASSUME NEW c \in Challenges, InsertChallenge(w, c) PROVE Goal
  BY <1>13, ReplyFacts DEF InsertChallenge, histories
<1>14. ASSUME NEW c \in Challenges, NEW k \in AuthKeys, FinishAuth(w, c, k) PROVE Goal
  BY <1>14 DEF FinishAuth, tables, histories, AccTypeOK, Idle
<1>15. CASE ConsumeChallenge(w)
  BY <1>15, ReplyFacts DEF ConsumeChallenge
<1>16. CASE AbandonRegister(w)
  BY <1>16, ReplyFacts DEF AbandonRegister, Registering, Refuse, tables
<1>17. ASSUME NEW t \in Tenants, NEW u \in People, PasswordLogin(w, t, u) PROVE Goal
  BY <1>17 DEF PasswordLogin, tables, memory, Idle
<1> QED BY <1>1, <1>2, <1>3, <1>4, <1>5, <1>6, <1>7, <1>8, <1>9, <1>10, <1>11, <1>12, <1>13, <1>14,
           <1>15, <1>16, <1>17 DEF Registers, SignsIn

LEMMA ClaimStep ==
  ASSUME AccTypeOK, ClaimInv, NEW w \in Workers, WorkerStep(w) PROVE ClaimInv'
<1>t. AccTypeOK' /\ \A v \in Workers \ {w} : job'[v] = job[v]
  BY WorkerTypes
<1>q. ASSUME UNCHANGED <<claimed, vcs, faults>>, job[w].stage # "asking", job'[w].stage # "asking"
      PROVE  ClaimInv'
  <2>1. Asking' = Asking /\ \A v \in Asking : job'[v] = job[v]
    BY <1>t, <1>q DEF Asking
  <2> QED BY <1>q, <2>1 DEF ClaimInv, Asked
<1>e. ASSUME job[w].stage = "asking", Reply(w), NEW u, u = job[w].user,
             \/ claimed' = claimed \ {u} /\ UNCHANGED <<vcs, faults>>
             \/ UNCHANGED claimed /\ vcs' = vcs \cup {u} /\ UNCHANGED faults
             \/ UNCHANGED <<claimed, vcs>> /\ faults' = faults \cup {u}
      PROVE  ClaimInv'
  <2>1. Asking' = Asking \ {w} /\ (\A v \in Asking \ {w} : job'[v] = job[v]) /\ w \in Asking
    BY <1>t, <1>e, ReplyFacts DEF Asking
  <2>2. Asked' = Asked \ {u}
    BY <1>e, <2>1 DEF Asked, ClaimInv
  <2>3. \A v, x \in Asking' : job'[v].user = job'[x].user => v = x
    BY <2>1 DEF ClaimInv
  <2> QED BY <1>e, <2>2, <2>3 DEF ClaimInv
<1>1. CASE Registers(w) \/ SignsIn(w)
  BY <1>q, <1>1, OtherJobs
<1>3. ASSUME NEW u \in People, GetCredential(w, u) PROVE ClaimInv'
  BY <1>q, <1>3 DEF GetCredential, tables, histories, AccTypeOK, Idle
<1>4. CASE ClaimCode(w)
  <2>1. job[w].stage = "claiming" /\ job[w] \in ClaimJob /\ UNCHANGED <<vcs, faults>>
    BY <1>4, JobKinds DEF ClaimCode, histories
  <2>2. CASE Reply(w) /\ UNCHANGED claimed
    BY <1>q, <2>1, <2>2, ReplyFacts
  <2>3. CASE /\ job[w].user \notin claimed /\ claimed' = claimed \cup {job[w].user}
             /\ Move(w, "asking")
    <3>1. job'[w].stage = "asking" /\ job'[w].user = job[w].user
      BY <2>1, <2>3, MoveFacts
    <3>2. Asking' = Asking \cup {w} /\ w \notin Asking /\ \A v \in Asking : job'[v] = job[v]
      BY <1>t, <2>1, <3>1 DEF Asking
    <3>3. Asked' = Asked \cup {job[w].user}
      BY <3>1, <3>2 DEF Asked
    <3>4. \A v \in Asking : job[v].user # job[w].user
      BY <2>3 DEF ClaimInv, Asked
    <3>5. \A v, x \in Asking' : job'[v].user = job'[x].user => v = x
      BY <3>1, <3>2, <3>4 DEF ClaimInv
    <3> QED BY <2>1, <2>3, <3>3, <3>5 DEF ClaimInv
  <2> QED BY <1>4, <2>2, <2>3 DEF ClaimCode
<1>5. CASE IssuerFails(w)
  BY <1>e, <1>5 DEF IssuerFails
<1>6. CASE IssuerAnswers(w)
  BY <1>e, <1>6 DEF IssuerAnswers
<1>7. CASE Disconnect(w)
  BY <1>e, <1>7 DEF Disconnect, tables
<1> QED BY <1>1, <1>3, <1>4, <1>5, <1>6, <1>7 DEF WorkerStep, Claims

----------------------------------------------------------------------------
(* Merkle receipts.                                                        *)

\* The jobs whose leaf has no row yet.
Writing == {w \in Workers : job[w].stage = "committed"}

\* The receipt r commits to the first leaves of s, and ends with its own.
Pledged(r, s) ==
  /\ r.index \in 1..Len(s) /\ s[r.index] = r.commitment
  /\ r.root \in Seq(Commitments) /\ Len(r.root) = r.index
  /\ \A i \in 1..r.index : r.root[i] = s[i]

\* The rows are the first leaves, and what was handed out rests on rows.
Rising ==
  /\ Len(leafRows) <= Len(leaves)
  /\ \A i \in 1..Len(leafRows) : leafRows[i] = leaves[i]
  /\ \A r \in proofs : Pledged(r, leafRows)

\* The other leaves are those of the jobs that will write their rows.
InStep ==
  /\ Rising
  /\ \A w \in Writing : /\ Pledged(job[w].receipt, leaves) /\ job[w].receipt.index > Len(leafRows)
                        /\ job[w].reg.commitment = job[w].receipt.commitment
  /\ \A v, w \in Writing : job[v].receipt.index = job[w].receipt.index => v = w
  /\ \A i \in 1..Len(leaves) : i > Len(leafRows) => \E w \in Writing : job[w].receipt.index = i

ReceiptInv ==
  /\ leafRows \in Seq(Commitments)
  /\ \A w \in Writing : job[w].reg.commitment \in Commitments
  /\ ~disordered => InStep

\* Sequences that agree leaf by leaf.
LEMMA PrefixByLeaf ==
  ASSUME NEW S, NEW s \in Seq(S), NEW t \in Seq(S), Len(s) <= Len(t), \A i \in 1..Len(s) : s[i] = t[i]
  PROVE  IsPrefix(s, t)
<1>1. Len(s) \in Nat /\ Len(t) \in Nat
  OBVIOUS
<1>2. SubSeq(s, 1, Len(s)) = [i \in 1..Len(s) |-> s[i]] /\ SubSeq(t, 1, Len(s)) = [i \in 1..Len(s) |-> t[i]]
  BY <1>1
<1>3. SubSeq(s, 1, Len(s)) = SubSeq(t, 1, Len(s))
  BY <1>2
<1> QED BY <1>1, <1>3 DEF IsPrefix

\* What is pledged of a sequence is pledged of a longer one.
LEMMA PledgedLonger ==
  ASSUME NEW s \in Seq(Commitments), NEW x \in Commitments, NEW r, Pledged(r, s)
  PROVE  Pledged(r, Append(s, x))
<1>1. /\ Len(Append(s, x)) = Len(s) + 1 /\ Len(s) \in Nat
      /\ \A i \in 1..Len(s) : Append(s, x)[i] = s[i]
  OBVIOUS
<1> QED BY <1>1 DEF Pledged

LEMMA ReceiptStep ==
  ASSUME AccTypeOK, ReceiptInv, NEW w \in Workers, WorkerStep(w) PROVE ReceiptInv'
<1>t. AccTypeOK' /\ \A v \in Workers \ {w} : job'[v] = job[v]
  BY WorkerTypes
<1>l. /\ leaves \in Seq(Commitments) /\ leafRows \in Seq(Commitments)
      /\ Len(leaves) \in Nat /\ Len(leafRows) \in Nat
  BY DEF AccTypeOK, ReceiptInv
<1>q. ASSUME UNCHANGED <<leaves, leafRows, proofs, disordered>>, job[w].stage # "committed",
             job'[w].stage # "committed"
      PROVE  ReceiptInv'
  <2>1. Writing' = Writing /\ \A v \in Writing : job'[v] = job[v]
    BY <1>t, <1>q DEF Writing
  <2>2. Rising' <=> Rising
    BY <1>q DEF Rising, Pledged
  <2>3. InStep => InStep'
    BY <1>q, <2>1, <2>2 DEF InStep, Pledged
  <2> QED BY <1>q, <2>1, <2>3 DEF ReceiptInv
<1>m. ASSUME UNCHANGED <<leaves, leafRows, proofs, disordered>>, NEW x, Move(w, x),
             \/ job[w] \in BankJob /\ x \in {"nonceTaken", "stored", "keyed", "bound", "linked"}
             \/ job[w] \in PartnerJob /\ x \in {"stored", "keyed", "bound"}
             \/ job[w] \in ClaimJob /\ x = "asking"
      PROVE  ReceiptInv'
  <2>1. job[w].stage # "committed"
    BY <1>m DEF BankJob, PartnerJob, ClaimJob
  <2> QED BY <1>m, <1>q, <2>1, MoveFacts
<1>r. ASSUME UNCHANGED <<leaves, leafRows, proofs, disordered>>, job[w].stage # "committed", Reply(w)
      PROVE  ReceiptInv'
  BY <1>r, <1>q, ReplyFacts
<1>1. CASE CommitLeaf(w)
  <2>1. /\ job[w] \in PartnerJob /\ job[w].stage = "bound" /\ UNCHANGED <<leafRows, proofs, disordered>>
    BY <1>1, JobKinds DEF CommitLeaf, BankJob, tables
  <2>2. CASE Reply(w) /\ UNCHANGED leaves
    BY <1>r, <2>1, <2>2
  <2>3. ASSUME NEW x \in Commitments, x = Reg(w).commitment, leaves' = Append(leaves, x),
               NEW new, new = [stage |-> "committed", by |-> "partner", reg |-> Reg(w), receipt |-> Receipt(x)],
               job' = [job EXCEPT ![w] = new]
        PROVE  ReceiptInv'
    <3>1. /\ Len(leaves') = Len(leaves) + 1 /\ leaves' \in Seq(Commitments)
          /\ leaves'[Len(leaves) + 1] = x /\ \A i \in 1..Len(leaves) : leaves'[i] = leaves[i]
      BY <1>l, <2>3
    <3>2. /\ Receipt(x).index = Len(leaves) + 1 /\ Receipt(x).commitment = x /\ Receipt(x).root = leaves'
      BY <2>3 DEF Receipt
    <3>3. /\ job'[w].stage = "committed" /\ job'[w].receipt = Receipt(x)
          /\ job'[w].reg.commitment = x
      BY <2>3 DEF AccTypeOK, Reg
    <3>4. Writing' = Writing \cup {w} /\ w \notin Writing /\ \A v \in Writing : job'[v] = job[v]
      BY <1>t, <2>1, <3>3 DEF Writing
    <3>5. \A v \in Writing' : job'[v].reg.commitment \in Commitments
      BY <3>3, <3>4 DEF ReceiptInv
    <3>6. Pledged(Receipt(x), leaves')
      BY <1>l, <3>1, <3>2 DEF Pledged
    <3>7. ASSUME InStep PROVE InStep'
      <4>1. Rising'
        BY <1>l, <2>1, <3>1, <3>7 DEF InStep, Rising, Pledged
      <4>2. \A v \in Writing : job[v].receipt.index \in Nat /\ job[v].receipt.index <= Len(leaves)
        BY <1>l, <3>7 DEF InStep, Pledged
      <4>3. ASSUME NEW v \in Writing
            PROVE  /\ Pledged(job'[v].receipt, leaves') /\ job'[v].receipt.index > Len(leafRows')
                   /\ job'[v].reg.commitment = job'[v].receipt.commitment
        <5>1. Pledged(job[v].receipt, leaves)
          BY <3>7 DEF InStep
        <5>2. Pledged(job[v].receipt, leaves')
          BY <1>l, <2>3, <5>1, PledgedLonger
        <5> QED BY <2>1, <3>4, <3>7, <5>2 DEF InStep
      <4>4. /\ Pledged(job'[w].receipt, leaves') /\ job'[w].receipt.index > Len(leafRows')
            /\ job'[w].reg.commitment = job'[w].receipt.commitment
        BY <1>l, <2>1, <3>2, <3>3, <3>6, <3>7 DEF InStep, Rising
      <4>5. \A u, v \in Writing' : job'[u].receipt.index = job'[v].receipt.index => u = v
        <5>1. \A v \in Writing : job'[v].receipt.index # job'[w].receipt.index
          BY <1>l, <3>2, <3>3, <3>4, <4>2
        <5> QED BY <3>4, <3>7, <5>1 DEF InStep
      <4>6. ASSUME NEW i \in 1..Len(leaves'), i > Len(leafRows')
            PROVE  \E v \in Writing' : job'[v].receipt.index = i
        <5>1. CASE i = Len(leaves) + 1
          BY <3>2, <3>3, <3>4, <5>1
        <5>2. CASE i \in 1..Len(leaves)
          <6>1. PICK v \in Writing : job[v].receipt.index = i
            BY <2>1, <3>7, <4>6, <5>2 DEF InStep
          <6> QED BY <3>4, <6>1
        <5> QED BY <1>l, <3>1, <4>6, <5>1, <5>2
      <4>7. \A v \in Writing' : /\ Pledged(job'[v].receipt, leaves') /\ job'[v].receipt.index > Len(leafRows')
                                /\ job'[v].reg.commitment = job'[v].receipt.commitment
        BY <3>4, <4>3, <4>4
      <4> QED BY <4>1, <4>5, <4>6, <4>7 DEF InStep, Pledged
    <3> QED BY <1>l, <2>1, <3>5, <3>7 DEF ReceiptInv
  <2> QED BY <1>1, <2>2, <2>3 DEF CommitLeaf, Refuse
<1>2. CASE PersistLeaf(w)
  <2> DEFINE c == Reg(w).commitment
  <2>1. /\ job[w].stage = "committed" /\ w \in Writing /\ Reply(w) /\ UNCHANGED leaves
        /\ proofs' = proofs \cup {job[w].receipt}
    BY <1>2 DEF PersistLeaf, Writing
  <2>2. c \in Commitments /\ c = job[w].reg.commitment
    BY <2>1 DEF ReceiptInv, Reg
  <2>3. leafRows' \in Seq(Commitments)
    BY <1>l, <1>2, <2>2 DEF PersistLeaf
  <2>4. Writing' = Writing \ {w} /\ \A v \in Writing' : job'[v] = job[v]
    BY <1>t, <2>1, ReplyFacts DEF Writing
  <2>5. \A v \in Writing' : job'[v].reg.commitment \in Commitments
    BY <2>4 DEF ReceiptInv
  <2>6. ASSUME ~disordered' PROVE InStep'
    <3>1. ~disordered /\ ~Overtakes(w) /\ leafRows' = Append(leafRows, c)
      BY <1>2, <2>6 DEF PersistLeaf
    <3>2. InStep
      BY <3>1 DEF ReceiptInv
    <3>3. /\ Pledged(job[w].receipt, leaves) /\ job[w].receipt.index > Len(leafRows)
          /\ c = job[w].receipt.commitment /\ job[w].receipt.index \in 1..Len(leaves)
      BY <2>1, <2>2, <3>2 DEF InStep, Pledged
    <3>4. job[w].receipt.index = Len(leafRows) + 1
      <4>1. CASE job[w].receipt.index > Len(leafRows) + 1
        <5>0. Len(leafRows) + 1 \in 1..Len(leaves) /\ Len(leafRows) + 1 > Len(leafRows)
          BY <1>l, <3>3, <4>1
        <5>1. PICK v \in Writing : job[v].receipt.index = Len(leafRows) + 1
          BY <3>2, <5>0 DEF InStep
        <5> QED BY <3>1, <4>1, <5>1 DEF Overtakes, Writing
      <4> QED BY <1>l, <3>3, <4>1
    <3> DEFINE n == Len(leafRows) + 1
    <3>5. /\ Len(leafRows') = n /\ n \in 1..Len(leaves) /\ leafRows'[n] = c
          /\ \A i \in 1..Len(leafRows) : leafRows'[i] = leafRows[i]
      BY <1>l, <2>2, <3>1, <3>3, <3>4
    <3>6. \A i \in 1..n : leafRows'[i] = leaves[i]
      BY <1>l, <3>2, <3>3, <3>4, <3>5 DEF InStep, Rising, Pledged
    <3>7. ASSUME NEW r \in proofs' PROVE Pledged(r, leafRows')
      <4>1. CASE r \in proofs
        <5>1. Pledged(r, leafRows)
          BY <3>2, <4>1 DEF InStep, Rising
        <5> QED BY <1>l, <2>2, <3>1, <5>1, PledgedLonger
      <4>2. CASE r = job[w].receipt
        BY <1>l, <3>3, <3>4, <3>5, <3>6, <4>2 DEF Pledged
      <4> QED BY <2>1, <4>1, <4>2
    <3>8. Rising'
      BY <1>l, <2>1, <3>5, <3>6, <3>7 DEF Rising, Pledged
    <3>9. ASSUME NEW v \in Writing'
          PROVE  /\ Pledged(job[v].receipt, leaves) /\ job[v].receipt.index > Len(leafRows')
                 /\ job[v].reg.commitment = job[v].receipt.commitment
      <4>1. v \in Writing /\ v # w
        BY <2>4
      <4>2. /\ Pledged(job[v].receipt, leaves) /\ job[v].receipt.index > Len(leafRows)
            /\ job[v].reg.commitment = job[v].receipt.commitment
            /\ job[v].receipt.index # Len(leafRows) + 1 /\ job[v].receipt.index \in 1..Len(leaves)
        BY <2>1, <3>2, <3>4, <4>1 DEF InStep, Pledged
      <4> QED BY <1>l, <3>5, <4>2
    <3>10. ASSUME NEW i \in 1..Len(leaves), i > Len(leafRows') PROVE \E v \in Writing' : job[v].receipt.index = i
      <4>1. PICK v \in Writing : job[v].receipt.index = i
        BY <1>l, <3>2, <3>5, <3>10 DEF InStep
      <4> QED BY <1>l, <2>4, <3>4, <3>5, <3>10, <4>1
    <3>11. \A u, v \in Writing' : job[u].receipt.index = job[v].receipt.index => u = v
      BY <2>4, <3>2 DEF InStep
    <3>12. \A v \in Writing' : /\ Pledged(job'[v].receipt, leaves') /\ job'[v].receipt.index > Len(leafRows')
                               /\ job'[v].reg.commitment = job'[v].receipt.commitment
      BY <2>1, <2>4, <3>9
    <3>13. \A u, v \in Writing' : job'[u].receipt.index = job'[v].receipt.index => u = v
      BY <2>4, <3>11
    <3>14. \A i \in 1..Len(leaves') : i > Len(leafRows') => \E v \in Writing' : job'[v].receipt.index = i
      BY <2>1, <2>4, <3>10
    <3>15. \A v \in Writing' : Pledged(job'[v].receipt, leaves') <=> Pledged(job[v].receipt, leaves)'
      BY DEF Pledged
    <3> QED BY <3>8, <3>12, <3>13, <3>14, <3>15 DEF InStep
  <2> QED BY <2>3, <2>5, <2>6 DEF ReceiptInv
<1>3. ASSUME NEW a \in Attestations, BankRegister(w, a) PROVE ReceiptInv'
  BY <1>q, <1>3 DEF BankRegister, tables, histories, AccTypeOK, Idle
<1>4. CASE ConsumeNonce(w)
  BY <1>m, <1>r, <1>4, JobKinds DEF ConsumeNonce, Refuse
<1>5. CASE UpsertUser(w)
  BY <1>m, <1>5, JobKinds DEF UpsertUser
<1>6. CASE LinkCustomer(w)
  <2>1. job[w] \in BankJob
    BY <1>6, JobKinds DEF LinkCustomer, PartnerJob
  <2> QED BY <1>m, <1>6, <2>1 DEF LinkCustomer, histories
<1>7. CASE JoinRing(w)
  BY <1>r, <1>7 DEF JoinRing, tables
<1>8. ASSUME NEW e \in Enrolments, PartnerRegister(w, e) PROVE ReceiptInv'
  BY <1>q, <1>8 DEF PartnerRegister, tables, histories, AccTypeOK, Idle
<1>9. CASE InsertIfAbsent(w)
  BY <1>m, <1>9, JobKinds DEF InsertIfAbsent
<1>10. CASE StoreAuthKey(w)
  BY <1>m, <1>r, <1>10, JobKinds DEF StoreAuthKey, Refuse
<1>11. CASE BindTenant(w)
  BY <1>m, <1>11, JobKinds DEF BindTenant, histories
<1>12. ASSUME NEW t \in Tenants, NEW u \in People, RequestChallenge(w, t, u) PROVE ReceiptInv'
  BY <1>q, <1>12 DEF RequestChallenge, histories, AccTypeOK, Idle
<1>13. ASSUME NEW c \in Challenges, InsertChallenge(w, c) PROVE ReceiptInv'
  BY <1>r, <1>13 DEF InsertChallenge, histories
<1>14. ASSUME NEW c \in Challenges, NEW k \in AuthKeys, FinishAuth(w, c, k) PROVE ReceiptInv'
  BY <1>q, <1>14 DEF FinishAuth, tables, histories, AccTypeOK, Idle
<1>15. CASE ConsumeChallenge(w)
  BY <1>r, <1>15 DEF ConsumeChallenge
<1>16. ASSUME NEW u \in People, GetCredential(w, u) PROVE ReceiptInv'
  BY <1>q, <1>16 DEF GetCredential, tables, histories, AccTypeOK, Idle
<1>17. CASE ClaimCode(w)
  BY <1>m, <1>r, <1>17, JobKinds DEF ClaimCode, histories
<1>18. CASE IssuerFails(w) \/ IssuerAnswers(w) \/ Disconnect(w)
  BY <1>r, <1>18 DEF IssuerFails, IssuerAnswers, Disconnect, tables
<1>19. CASE AbandonRegister(w)
  <2>1. /\ Reply(w) /\ UNCHANGED <<leaves, leafRows, proofs>>
        /\ disordered' = (disordered \/ job[w].stage = "committed")
    BY <1>19 DEF AbandonRegister, Refuse, tables
  <2>2. CASE job[w].stage # "committed"
    <3>1. ReceiptInv => (~disordered' => ~disordered)
      BY <2>1
    <3>2. Writing' = Writing /\ \A v \in Writing : job'[v] = job[v]
      BY <1>t, <2>1, <2>2, ReplyFacts DEF Writing
    <3>3. Rising' <=> Rising
      BY <2>1 DEF Rising, Pledged
    <3>4. InStep => InStep'
      BY <2>1, <3>2, <3>3 DEF InStep, Pledged
    <3> QED BY <2>1, <3>1, <3>2, <3>4 DEF ReceiptInv
  <2>3. CASE job[w].stage = "committed"
    <3>1. Writing' \subseteq Writing /\ (\A v \in Writing' : job'[v] = job[v]) /\ disordered'
      BY <1>t, <2>1, <2>3, ReplyFacts DEF Writing
    <3> QED BY <2>1, <3>1 DEF ReceiptInv
  <2> QED BY <2>2, <2>3
<1>20. ASSUME NEW t \in Tenants, NEW u \in People, PasswordLogin(w, t, u) PROVE ReceiptInv'
  BY <1>q, <1>20 DEF PasswordLogin, tables, memory, Idle
<1> QED BY <1>1, <1>2, <1>3, <1>4, <1>5, <1>6, <1>7, <1>8, <1>9, <1>10, <1>11, <1>12, <1>13, <1>14,
           <1>15, <1>16, <1>17, <1>18, <1>19, <1>20 DEF WorkerStep, Registers, SignsIn, Claims

----------------------------------------------------------------------------
(* The invariant of user accounts.                                         *)

AccInv == AccTypeOK /\ SessionInv /\ RingInv /\ ClaimInv /\ ReceiptInv

LEMMA AccInit ==
  ASSUME AccountInit PROVE AccInv
<1>1. \A w \in Workers : job[w] = Idle /\ job[w].stage = "idle"
  BY DEF AccountInit, Idle
<1>2. AccTypeOK
  <2>1. <<>> \in Seq(Commitments) /\ "none" \in Workers \cup Hows
    BY DEF Hows
  <2> QED BY <2>1, AccountsAssumption DEF AccountInit, AccTypeOK
<1>3. SessionInv
  BY <1>1 DEF AccountInit, SessionInv, Answered
<1>4. RingInv
  BY AccountsAssumption DEF AccountInit, RingInv, Wrote, Accepted
<1>5. ClaimInv
  BY <1>1 DEF AccountInit, ClaimInv, Asked, Asking
<1>6. ReceiptInv
  BY <1>1 DEF AccountInit, ReceiptInv, InStep, Rising, Writing
<1> QED BY <1>2, <1>3, <1>4, <1>5, <1>6 DEF AccInv

\* ServerState::init: the ring and the ledger are those of the tables, or a part.
LEMMA RestartKeeps ==
  ASSUME AccInv, Restart PROVE AccInv'
<1>1. PICK S \in SUBSET People, n \in 0..Len(leafRows) :
        /\ job' = [w \in Workers |-> Idle] /\ ring' = {directory[u] : u \in S} \ {None}
        /\ lastWriter' = [u \in People |-> IF directory[u] = None THEN "none"
                                           ELSE IF u \in S THEN "answered" ELSE "unloaded"]
        /\ leaves' = SubSeq(leafRows, 1, n) /\ disordered' = (disordered \/ n < Len(leafRows))
        /\ faults' = faults \cup Asked
        /\ UNCHANGED <<clock, directory, authKey, bindings, leafRows, challenge, claimed, vcs, proofs,
                       sessions>>
  BY DEF Restart, RestoredRing, tables, Asked
<1>2. \A w \in Workers : job'[w] = Idle /\ job'[w].stage = "idle"
  BY <1>1 DEF Idle
<1>l. leafRows \in Seq(Commitments)
  BY DEF AccInv, ReceiptInv
<1>s. leaves' \in Seq(Commitments)
  <2>1. /\ n \in Nat /\ n <= Len(leafRows) /\ Len(leafRows) \in Nat
        /\ \A i \in 1..Len(leafRows) : leafRows[i] \in Commitments
    BY <1>1, <1>l
  <2>2. SubSeq(leafRows, 1, n) = [i \in 1..n |-> leafRows[i]]
    BY <1>l, <2>1
  <2>3. [i \in 1..n |-> leafRows[i]] \in [1..n -> Commitments]
    BY <2>1
  <2> QED BY <1>1, <2>1, <2>2, <2>3
<1>3. AccTypeOK'
  BY <1>1, <1>s DEF AccInv, AccTypeOK, Hows
<1>4. SessionInv'
  BY <1>1, <1>2 DEF AccInv, SessionInv, HeldByKey, Answered
<1>5. RingInv'
  BY <1>1, AccountsAssumption DEF RingInv, Wrote, Accepted
<1>6. ClaimInv'
  BY <1>1, <1>2 DEF AccInv, ClaimInv, Asked, Asking
<1>7. ReceiptInv'
  <2>1. ASSUME ~disordered' PROVE ~disordered /\ leaves' = leafRows /\ Len(leafRows) \in Nat
    <3>1. disordered' = (disordered \/ n < Len(leafRows))
      BY <1>1
    <3>2. ~disordered /\ ~(n < Len(leafRows))
      BY <2>1, <3>1, Zenon
    <3>3. n \in 0..Len(leafRows) /\ Len(leafRows) \in Nat /\ leaves' = SubSeq(leafRows, 1, n)
      BY <1>1, <1>l
    <3>4. n = Len(leafRows)
      BY <3>2, <3>3
    <3>5. SubSeq(leafRows, 1, Len(leafRows)) = leafRows
      BY <1>l
    <3> QED BY <3>2, <3>3, <3>4, <3>5
  <2>2. Writing' = {}
    BY <1>2 DEF Writing
  <2>3. ASSUME ~disordered' PROVE InStep'
    <3>1. Rising
      BY <2>1, <2>3 DEF AccInv, ReceiptInv, InStep
    <3> QED BY <1>1, <2>1, <2>2, <2>3, <3>1 DEF InStep, Rising
  <2>4. leafRows' \in Seq(Commitments)
    BY <1>1, <1>l
  <2> QED BY <2>2, <2>3, <2>4 DEF ReceiptInv
<1> QED BY <1>3, <1>4, <1>5, <1>6, <1>7 DEF AccInv

LEMMA AccSame ==
  ASSUME AccInv, clock' \in Nat, UNCHANGED <<tables, memory, histories>> PROVE AccInv'
<1>1. UNCHANGED <<directory, authKey, bindings, leafRows, challenge, claimed, vcs, ring, leaves, job,
                  lastWriter, proofs, sessions, faults, disordered>>
  BY DEF tables, memory, histories
<1> QED BY <1>1 DEF AccInv, AccTypeOK, SessionInv, HeldByKey, Answered, RingInv, Wrote, Accepted,
                    ClaimInv, Asked, Asking, ReceiptInv, InStep, Rising, Pledged, Writing

LEMMA AccStep ==
  ASSUME AccInv, [AccountNext]_accountVars PROVE AccInv'
<1>1. ASSUME NEW w \in Workers, WorkerStep(w) PROVE AccInv'
  BY <1>1, WorkerTypes, SessionStep, RingStep, ClaimStep, ReceiptStep DEF AccInv
<1>2. CASE Tick
  BY <1>2, AccSame DEF Tick, AccInv, AccTypeOK
<1>3. CASE UNCHANGED accountVars
  BY <1>3, AccSame DEF accountVars, AccInv, AccTypeOK
<1> QED BY <1>1, <1>2, <1>3, RestartKeeps DEF AccountNext, WorkerStep

LEMMA AccAlways == AccountSpec => []AccInv
BY AccInit, AccStep, PTL DEF AccountSpec

\* A session that answered a challenge belongs to the holder of the user's first
\* key, and of the answers to one challenge one receives it, for any number of
\* racing requests and crashes; a session without one needs the password login.
THEOREM SessionsHeld == AccountSpec => []SessionsAreTheKeyHolders
<1>1. ASSUME AccInv PROVE SessionsAreTheKeyHolders
  <2>1. ASSUME NEW s \in sessions, s.challenge # None
        PROVE  /\ \A u \in People : s.signer = authKey[u] <=> u = s.user
               /\ <<s.tenant, s.user>> \in bindings
               /\ \A r \in sessions : r.challenge = s.challenge => r = s
    <3>1. HeldByKey(s) /\ s.user \in People
      BY <1>1 DEF AccInv, SessionInv, AccTypeOK, Session
    <3>2. s.signer # None /\ s.signer = authKey[s.user] /\ <<s.tenant, s.user>> \in bindings
      BY <2>1, <3>1, AccountsAssumption DEF HeldByKey
    <3>3. \A u \in People : s.signer = authKey[u] <=> u = s.user
      BY <1>1, <3>1, <3>2 DEF AccInv, SessionInv
    <3> QED BY <1>1, <2>1, <3>2, <3>3 DEF AccInv, SessionInv
  <2>2. ASSUME NEW s \in sessions, s.challenge = None PROVE LegacyAuth
    BY <1>1, <2>2 DEF AccInv, SessionInv, HeldByKey
  <2> QED BY <2>1, <2>2 DEF SessionsAreTheKeyHolders
<1> QED BY <1>1, AccAlways, PTL

\* No order of registrations, and no restart, leaves a user outside
\* ServerState::user_group whose row was written by an accepted registration and
\* could be read.
THEOREM AcceptedInRing == AccountSpec => []AcceptedUsersAreInRing
<1>1. ASSUME AccInv PROVE AcceptedUsersAreInRing
  <2>1. \A u \in People : lastWriter[u] \in Workers \cup Hows /\ Accepted(u)
    BY <1>1 DEF AccInv, AccTypeOK, RingInv
  <2> QED BY <2>1 DEF Hows, Accepted, AcceptedUsersAreInRing
<1> QED BY <1>1, AccAlways, PTL

\* A Merkle receipt stays provable through any number of crashes that rebuild the
\* ledger from its rows, while the rows are written in the order of the leaves.
THEOREM ReceiptsSurvive == AccountSpec => []ReceiptsSurviveRestart
<1>1. ASSUME AccInv, ~disordered, NEW r \in proofs
      PROVE  /\ r.index <= Len(leaves) /\ leaves[r.index] = r.commitment
             /\ IsPrefix(r.root, leaves)
  <2>1. /\ leaves \in Seq(Commitments) /\ leafRows \in Seq(Commitments)
        /\ InStep /\ Pledged(r, leafRows)
    <3>1. leaves \in Seq(Commitments) /\ leafRows \in Seq(Commitments) /\ InStep
      BY <1>1 DEF AccInv, AccTypeOK, ReceiptInv
    <3>2. Rising
      BY <3>1 DEF InStep
    <3> QED BY <1>1, <3>1, <3>2 DEF Rising
  <2>2. /\ Len(leafRows) \in Nat /\ Len(leaves) \in Nat /\ Len(leafRows) <= Len(leaves)
        /\ \A i \in 1..Len(leafRows) : leafRows[i] = leaves[i]
    BY <2>1 DEF InStep, Rising
  <2>3. /\ r.index \in 1..Len(leafRows) /\ leafRows[r.index] = r.commitment
        /\ r.root \in Seq(Commitments) /\ Len(r.root) = r.index
        /\ \A i \in 1..r.index : r.root[i] = leafRows[i]
    BY <2>1 DEF Pledged
  <2>4. Len(r.root) <= Len(leaves) /\ \A i \in 1..Len(r.root) : r.root[i] = leaves[i]
    BY <2>2, <2>3
  <2> QED BY <2>1, <2>2, <2>3, <2>4, PrefixByLeaf
<1>2. ASSUME AccInv PROVE ReceiptsSurviveRestart
  BY <1>1, <1>2 DEF ReceiptsSurviveRestart
<1> QED BY <1>2, AccAlways, PTL

\* user_get_credential: one request at a time asks the issuer about a code, and
\* a claim is stranded by a crash, a disconnect or a failed write only.
THEOREM ClaimsReleased == AccountSpec => []ClaimStuckOnlyByFault
<1>1. AccInv => ClaimStuckOnlyByFault
  BY DEF AccInv, ClaimInv, Asked, ClaimStuckOnlyByFault
<1> QED BY <1>1, AccAlways, PTL

=============================================================================
