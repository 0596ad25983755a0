--------------------------- MODULE GuardProofs ----------------------------
(***************************************************************************)
(* Proofs about the guards a request passes before a handler runs: a call  *)
(* that verified was signed by its agent and acted once (CallSignatures),  *)
(* an enrolled host answered a challenge with a measurement in force       *)
(* (Attestation), the audit log is one chain and the rate limit holds in   *)
(* every interval (Ingress).                                               *)
(***************************************************************************)
EXTENDS CallSignatures, Attestation, Ingress, SumProofs

----------------------------------------------------------------------------
(* Call signatures.                                                        *)

SigHandled ==
  [stage: {"arrived", "read", "checked", "verified"}, req: SigRequests, gone: BOOLEAN,
   digests: SUBSET Digests, at: Int, spentAt: Int]
SigAnswered == [stage: {"none", "refused", "passed"}]

\* The types of the signature layer's state.
SigTypeOK ==
  /\ sclock \in Int
  /\ checksum \in [Signers -> Digests]
  /\ sig \in [SigCalls -> SigHandled \cup SigAnswered]

\* What has been established of a request so far.  A row read in force was in
\* force on arrival, and the digests registered while the request is handled
\* include the current one.
SoFar(s) ==
  LET r == s.req IN
    /\ s.stage # "verified" =>
         checksum[r.agent] \in s.digests /\ (r.agent \in unrevoked => ~s.gone)
    /\ s.stage # "arrived" => r.key = r.agent /\ ~s.gone
    /\ s.stage = "read" => r.surface = "dpop"
    /\ s.stage \in {"checked", "verified"} /\ r.surface = "sig" =>
         r.covers = r.body /\ r.digest \in s.digests
    /\ s.stage = "verified" => r.bodyAgent \in {Nobody, r.agent}

\* The nonce of a verified call is in the table until it expires.
NonceKept(s) ==
  /\ s.spentAt <= sclock
  /\ \/ \E n \in nonces : /\ n.agent = s.req.agent /\ n.nonce = NonceKey(s.req)
                          /\ n.exp = s.req.ts + Skew + NonceGrace
     \/ sclock > s.req.ts + Skew + NonceGrace

Handled(c) == sig[c].stage \in {"arrived", "read", "checked", "verified"}

SigInv ==
  /\ SigTypeOK
  /\ \A c \in SigCalls : Handled(c) => SoFar(sig[c])
  /\ \A c \in Verified : NonceKept(sig[c])
  /\ GenuineCallsActOnce

\* No request has arrived initially.
LEMMA InitSig == SigInit => SigInv
<1> SUFFICES ASSUME SigInit PROVE SigInv
  OBVIOUS
<1>1. \A c \in SigCalls : sig[c] = NoSig /\ sig[c].stage = "none"
  BY DEF SigInit, NoSig
<1>2. SigTypeOK
  BY DEF SigInit, SigTypeOK, SigAnswered, NoSig
<1> QED BY <1>1, <1>2 DEF SigInv, Handled, Verified, SigAt, GenuineCallsActOnce

\* The progress of a request tells whether it is being handled.
LEMMA HandledType ==
  ASSUME SigTypeOK, NEW c \in SigCalls, Handled(c)
  PROVE  sig[c] \in SigHandled
  BY DEF SigTypeOK, Handled, SigAnswered

\* A step that consumes no nonce keeps the nonces of the verified calls.
LEMMA KeepsSig ==
  ASSUME SigInv, SigTypeOK',
         \A c \in SigCalls : Handled(c)' => SoFar(sig[c])',
         \A c \in SigCalls : SigAt(c, "verified")' => SigAt(c, "verified") /\ sig'[c] = sig[c],
         \A c \in Verified : NonceKept(sig[c])'
  PROVE  SigInv'
<1>1. Verified' \subseteq Verified /\ \A c \in Verified' : sig'[c] = sig[c]
  BY DEF Verified
<1>2. \A c \in Verified' : NonceKept(sig[c])'
  BY <1>1 DEF NonceKept
<1>3. \A c \in Verified' : Genuine(c)'
  BY <1>1 DEF SigInv, GenuineCallsActOnce, Genuine, Req
<1>4. GenuineCallsActOnce'
  BY <1>1, <1>3 DEF SigInv, GenuineCallsActOnce, Req
<1> QED BY <1>2, <1>4 DEF SigInv

\* Every step keeps the invariant: the row, the signature and the timestamp of
\* a request are checked before its nonce is consumed, and a row that would
\* refuse the nonce is pruned only after it has expired.
LEMMA NextSig == SigInv /\ [SigNext]_sigVars => SigInv'
<1> SUFFICES ASSUME SigInv, [SigNext]_sigVars PROVE SigInv'
  OBVIOUS
<1>t. /\ sclock \in Int
      /\ checksum \in [Signers -> Digests]
      /\ sig \in [SigCalls -> SigHandled \cup SigAnswered]
      /\ \A r \in SigRequests : r.agent \in Signers /\ r.ts \in Int
      /\ Skew \in Nat /\ NonceGrace \in Nat
  BY SignatureAssumption DEF SigInv, SigTypeOK
<1>h. \A c \in SigCalls : Handled(c) =>
        /\ sig[c] \in SigHandled /\ Req(c) \in SigRequests /\ SoFar(sig[c])
        /\ \A s \in {"read", "checked", "verified"} :
             LET n == [sig[c] EXCEPT !.stage = s] IN
               /\ n \in SigHandled /\ n.stage = s /\ n.req = Req(c) /\ n.gone = sig[c].gone
               /\ n.digests = sig[c].digests
  BY HandledType DEF SigInv, SigHandled, Req
<1>v. \A c \in Verified : /\ c \in SigCalls /\ sig[c] \in SigHandled
                          /\ sig[c].req.ts \in Int /\ sig[c].spentAt \in Int
  BY <1>h, <1>t DEF Verified, SigAt, Handled, Req, SigHandled
\* A step of request c that neither ends verified nor touches the other tables.
<1>1. ASSUME NEW c \in SigCalls, UNCHANGED <<sclock, unrevoked, checksum, nonces>>,
             ~SigAt(c, "verified"),
             NEW s \in SigHandled \cup SigAnswered, s.stage # "verified",
             sig' = [sig EXCEPT ![c] = s],
             s \in SigHandled => SoFar(s)
      PROVE  SigInv'
  <2>1. SigTypeOK'
    BY <1>1, <1>t DEF SigTypeOK
  <2>2. sig'[c] = s /\ \A d \in SigCalls : d # c => sig'[d] = sig[d]
    BY <1>1, <1>t
  <2>3. \A d \in SigCalls : Handled(d)' => SoFar(sig[d])'
    <3>1. ASSUME NEW d \in SigCalls, Handled(d)', d # c PROVE SoFar(sig[d])'
      BY <3>1, <2>2, <1>1 DEF SigInv, Handled, SoFar
    <3>2. ASSUME Handled(c)' PROVE SoFar(sig[c])'
      <4>1. s \in SigHandled
        BY <3>2, <2>2 DEF Handled, SigAnswered
      <4> QED BY <4>1, <2>2, <1>1 DEF SoFar
    <3> QED BY <3>1, <3>2
  <2>4. \A d \in SigCalls : SigAt(d, "verified")' => SigAt(d, "verified") /\ sig'[d] = sig[d]
    BY <2>2, <1>1 DEF SigAt
  <2>5. \A d \in Verified : NonceKept(sig[d])'
    <3> SUFFICES ASSUME NEW d \in Verified PROVE NonceKept(sig[d])'
      OBVIOUS
    <3>1. d # c /\ d \in SigCalls
      BY <1>1 DEF Verified
    <3> QED BY <3>1, <2>2, <1>1 DEF SigInv, NonceKept
  <2> QED BY <2>1, <2>3, <2>4, <2>5, KeepsSig
<1>2. ASSUME NEW c \in SigCalls, Reject(c), ~SigAt(c, "verified"),
             UNCHANGED <<sclock, unrevoked, checksum, nonces>>
      PROVE  SigInv'
  <2>1. PICK p \in {"refused", "passed"} : sig' = [sig EXCEPT ![c] = [stage |-> p]]
    BY <1>2 DEF Reject, SigEnd
  <2>2. [stage |-> p] \in SigAnswered /\ [stage |-> p] \notin SigHandled
    BY DEF SigAnswered, SigHandled
  <2> QED BY <1>1, <1>2, <2>1, <2>2 DEF SigAnswered
<1>3. ASSUME NEW c \in SigCalls, Handled(c), ~SigAt(c, "verified"),
             NEW s \in {"read", "checked"}, SigGoto(c, s),
             UNCHANGED <<sclock, unrevoked, checksum, nonces>>,
             Req(c).key = Req(c).agent, Req(c).agent \in unrevoked \/ ~SigAt(c, "arrived"),
             s = "read" => Req(c).surface = "dpop",
             s = "checked" /\ Req(c).surface = "sig" =>
               Req(c).covers = Req(c).body /\ Req(c).digest = checksum[Req(c).agent]
      PROVE  SigInv'
  <2> DEFINE n == [sig[c] EXCEPT !.stage = s]
  <2>1. /\ n \in SigHandled /\ n.stage = s /\ n.req = Req(c) /\ n.gone = sig[c].gone
        /\ n.digests = sig[c].digests /\ SoFar(sig[c])
    BY <1>3, <1>h
  <2>2. sig' = [sig EXCEPT ![c] = n]
    BY <1>3 DEF SigGoto
  <2> HIDE DEF n
  <2>3. SoFar(n)
    BY <1>3, <2>1 DEF SoFar, Req, SigAt
  <2> QED BY <1>1, <1>3, <2>1, <2>2, <2>3
<1>4. ASSUME NEW c \in SigCalls, NEW r \in SigRequests, SigArrive(c, r) PROVE SigInv'
  <2>1. ~SigAt(c, "verified")
    BY <1>4 DEF SigArrive, NoSig, SigAt
  <2>2. CASE CallSigRequired(r.path)
    <3> DEFINE n == [stage |-> "arrived", req |-> r, gone |-> r.agent \notin unrevoked,
                     digests |-> {checksum[r.agent]}, at |-> sclock, spentAt |-> -1]
    <3>1. n \in SigHandled
      BY <1>t DEF SigHandled
    <3>2. /\ n.stage = "arrived" /\ n.req = r /\ n.gone = (r.agent \notin unrevoked)
          /\ n.digests = {checksum[r.agent]}
      OBVIOUS
    <3>3. sig' = [sig EXCEPT ![c] = n]
      BY <1>4, <2>2 DEF SigArrive
    <3> HIDE DEF n
    <3>4. SoFar(n)
      BY <3>2 DEF SoFar
    <3> QED BY <1>1, <1>4, <2>1, <3>1, <3>2, <3>3, <3>4 DEF SigArrive
  <2>3. CASE ~CallSigRequired(r.path)
    <3>1. sig' = [sig EXCEPT ![c] = [stage |-> "passed"]]
      BY <1>4, <2>3 DEF SigArrive, SigEnd
    <3>2. [stage |-> "passed"] \in SigAnswered /\ [stage |-> "passed"] \notin SigHandled
      BY DEF SigAnswered, SigHandled
    <3> QED BY <1>1, <1>4, <2>1, <3>1, <3>2 DEF SigAnswered, SigArrive
  <2> QED BY <2>2, <2>3
<1>5. ASSUME NEW c \in SigCalls, TryVerifyCallSig(c) PROVE SigInv'
  <2>1. Handled(c) /\ ~SigAt(c, "verified") /\ UNCHANGED <<sclock, unrevoked, checksum, nonces>>
    BY <1>5 DEF TryVerifyCallSig, SigAt, Handled
  <2>2. CASE CallSigGood(c)
    BY <1>3, <1>5, <2>1, <2>2 DEF TryVerifyCallSig, CallSigGood, RowInForce
  <2> QED BY <1>2, <1>5, <2>1, <2>2 DEF TryVerifyCallSig
<1>6. ASSUME NEW c \in SigCalls, VerifyProofOf(c) PROVE SigInv'
  <2>1. Handled(c) /\ ~SigAt(c, "verified") /\ UNCHANGED <<sclock, unrevoked, checksum, nonces>>
    BY <1>6 DEF VerifyProofOf, SigAt, Handled
  <2>2. CASE RowInForce(Req(c).agent) /\ Req(c).key = Req(c).agent
    BY <1>3, <1>6, <2>1, <2>2 DEF VerifyProofOf, RowInForce
  <2> QED BY <1>2, <1>6, <2>1, <2>2 DEF VerifyProofOf
<1>7. ASSUME NEW c \in SigCalls, CheckContext(c) PROVE SigInv'
  <2>1. /\ Handled(c) /\ ~SigAt(c, "verified") /\ UNCHANGED <<sclock, unrevoked, checksum, nonces>>
        /\ ~SigAt(c, "arrived") /\ sig[c].stage = "read"
    BY <1>7 DEF CheckContext, SigAt, Handled
  <2>2. Req(c).surface = "dpop" /\ Req(c).key = Req(c).agent
    BY <2>1 DEF SigInv, SoFar, Req
  <2>3. CASE Within(sclock, Req(c).ts)
    BY <1>3, <1>7, <2>1, <2>2, <2>3 DEF CheckContext
  <2> QED BY <1>2, <1>7, <2>1, <2>3 DEF CheckContext
<1>8. ASSUME NEW c \in SigCalls, Malformed(c) PROVE SigInv'
  BY <1>2, <1>8 DEF Malformed, SigAt
<1>9. ASSUME NEW c \in SigCalls, ConsumeCallNonce(c) PROVE SigInv'
  <2> DEFINE r == Req(c)
             row == [agent |-> r.agent, nonce |-> NonceKey(r), exp |-> NonceExp(r)]
             n == [sig[c] EXCEPT !.stage = "verified", !.spentAt = sclock]
  <2>1. /\ Handled(c) /\ sig[c].stage = "checked" /\ ~SigAt(c, "verified")
        /\ UNCHANGED <<sclock, unrevoked, checksum>>
    BY <1>9 DEF ConsumeCallNonce, SigAt, Handled
  <2>2. CASE Spent(r)
    BY <1>2, <1>9, <2>1, <2>2 DEF ConsumeCallNonce
  <2>3. ASSUME ~Spent(r), BodyBinding(r) PROVE SigInv'
    <3>1. /\ n \in SigHandled /\ n.stage = "verified" /\ n.req = r /\ n.gone = sig[c].gone
          /\ n.digests = sig[c].digests /\ n.spentAt = sclock
      BY <1>h, <1>t, <2>1 DEF SigHandled, Req
    <3>2. nonces' = nonces \cup {row} /\ sig' = [sig EXCEPT ![c] = n]
      BY <1>9, <2>3 DEF ConsumeCallNonce
    <3>3. row.agent = r.agent /\ row.nonce = NonceKey(r) /\ row.exp = r.ts + Skew + NonceGrace
      BY DEF NonceExp
    <3> HIDE DEF n, row
    <3>4. sig'[c] = n /\ \A d \in SigCalls : d # c => sig'[d] = sig[d]
      BY <3>2, <1>t
    <3>5. SigTypeOK'
      BY <2>1, <3>1, <3>2, <1>t DEF SigTypeOK
    <3>6. SoFar(sig[c])'
      BY <2>1, <2>3, <3>1, <3>4, <1>h DEF SoFar, BodyBinding, Req
    <3>7. \A d \in SigCalls : Handled(d)' => SoFar(sig[d])'
      BY <2>1, <3>4, <3>6 DEF SigInv, Handled, SoFar
    <3>8. Verified' = Verified \cup {c} /\ c \notin Verified
      BY <2>1, <3>1, <3>4 DEF Verified, SigAt
    <3>9. NonceKept(sig[c])'
      BY <2>1, <3>1, <3>2, <3>3, <3>4, <1>t DEF NonceKept
    <3>10. \A d \in Verified : NonceKept(sig[d])'
      BY <2>1, <3>2, <3>4, <3>8, <1>v DEF SigInv, NonceKept
    <3>11. \A d \in Verified' : Genuine(d)'
      <4>1. Genuine(c)'
        BY <3>1, <3>4, <3>6 DEF Genuine, SoFar, Req
      <4>2. \A d \in Verified : Genuine(d)'
        BY <3>4, <3>8, <1>v DEF SigInv, GenuineCallsActOnce, Genuine, Req
      <4> QED BY <4>1, <4>2, <3>8
    <3>12. ASSUME NEW d \in Verified, sig[d].req.agent = r.agent, NonceKey(sig[d].req) = NonceKey(r)
           PROVE  n.spentAt > sig[d].req.ts + Skew + NonceGrace
      <4>1. ~\E m \in nonces : m.agent = sig[d].req.agent /\ m.nonce = NonceKey(sig[d].req)
        BY <2>3, <3>12 DEF Spent
      <4> QED BY <3>1, <4>1 DEF SigInv, NonceKept
    <3>13. GenuineCallsActOnce'
      <4> SUFFICES ASSUME NEW d \in Verified', NEW e \in Verified', d # e,
                          Req(d)'.agent = Req(e)'.agent, NonceKey(Req(d))' = NonceKey(Req(e))'
                   PROVE  \/ sig'[d].spentAt > Req(e)'.ts + Skew + NonceGrace
                          \/ sig'[e].spentAt > Req(d)'.ts + Skew + NonceGrace
        BY <3>11 DEF GenuineCallsActOnce
      <4>1. Req(c)' = r /\ \A f \in Verified : sig'[f] = sig[f] /\ Req(f)' = sig[f].req
        BY <3>1, <3>4, <3>8, <1>v DEF Req
      <4>2. CASE d = c
        <5>1. e \in Verified
          BY <4>2, <3>8
        <5> QED BY <3>4, <3>12, <4>1, <4>2, <5>1 DEF NonceKey
      <4>3. CASE e = c
        <5>1. d \in Verified
          BY <4>3, <3>8
        <5> QED BY <3>4, <3>12, <4>1, <4>3, <5>1 DEF NonceKey
      <4>4. CASE d # c /\ e # c
        <5>1. d \in Verified /\ e \in Verified
          BY <4>4, <3>8
        <5> QED BY <4>1, <5>1 DEF SigInv, GenuineCallsActOnce, NonceKey, Req
      <4> QED BY <4>2, <4>3, <4>4
    <3> QED BY <3>5, <3>7, <3>8, <3>9, <3>10, <3>13 DEF SigInv
  <2>4. ASSUME ~Spent(r), ~BodyBinding(r) PROVE SigInv'
    <3>1. nonces' = nonces \cup {row} /\ sig' = [sig EXCEPT ![c] = [stage |-> "refused"]]
      BY <1>9, <2>4 DEF ConsumeCallNonce, SigEnd
    <3> HIDE DEF row
    <3>2. [stage |-> "refused"] \in SigAnswered /\ [stage |-> "refused"].stage = "refused"
      BY DEF SigAnswered
    <3>3. sig'[c].stage = "refused" /\ \A d \in SigCalls : d # c => sig'[d] = sig[d]
      BY <3>1, <3>2, <1>t
    <3>4. SigTypeOK'
      BY <2>1, <3>1, <3>2, <1>t DEF SigTypeOK
    <3>5. \A d \in SigCalls : Handled(d)' => SoFar(sig[d])'
      BY <2>1, <3>3 DEF SigInv, Handled, SoFar
    <3>6. \A d \in SigCalls : SigAt(d, "verified")' => SigAt(d, "verified") /\ sig'[d] = sig[d]
      BY <3>3 DEF SigAt
    <3>7. \A d \in Verified : NonceKept(sig[d])'
      <4>1. \A d \in Verified : d \in SigCalls /\ d # c
        BY <2>1 DEF Verified
      <4> QED BY <2>1, <3>1, <3>3, <4>1 DEF SigInv, NonceKept
    <3> QED BY <3>4, <3>5, <3>6, <3>7, KeepsSig
  <2> QED BY <2>2, <2>3, <2>4
\* The rest of the server.
<1>10. ASSUME NEW a \in Signers, NEW d \in Digests, RotateChecksum(a, d) PROVE SigInv'
  <2>1. /\ checksum' = [checksum EXCEPT ![a] = d] /\ UNCHANGED <<sclock, unrevoked, nonces>>
        /\ sig' = [c \in SigCalls |->
             IF c \in InFlight /\ Req(c).agent = a
               THEN [sig[c] EXCEPT !.digests = sig[c].digests \cup {d}] ELSE sig[c]]
    BY <1>10 DEF RotateChecksum
  <2>2. \A c \in SigCalls : c \in InFlight <=> Handled(c) /\ ~SigAt(c, "verified")
    BY DEF InFlight, Handled, SigAt
  <2>3. ASSUME NEW c \in SigCalls, Handled(c)
        PROVE  LET n == [sig[c] EXCEPT !.digests = sig[c].digests \cup {d}] IN
                 /\ n \in SigHandled /\ n.stage = sig[c].stage /\ n.req = sig[c].req
                 /\ n.gone = sig[c].gone /\ n.digests = sig[c].digests \cup {d}
    BY <2>3, <1>h DEF SigHandled
  <2>4. \A c \in SigCalls :
          /\ sig'[c].stage = sig[c].stage
          /\ SigAt(c, "verified") => sig'[c] = sig[c]
          /\ Handled(c) => /\ sig'[c] \in SigHandled /\ sig'[c].req = sig[c].req
                           /\ sig'[c].gone = sig[c].gone
                           /\ sig[c].digests \subseteq sig'[c].digests
                           /\ ~SigAt(c, "verified") /\ sig[c].req.agent = a => d \in sig'[c].digests
    <3> SUFFICES ASSUME NEW c \in SigCalls
                 PROVE  /\ sig'[c].stage = sig[c].stage
                        /\ SigAt(c, "verified") => sig'[c] = sig[c]
                        /\ Handled(c) =>
                             /\ sig'[c] \in SigHandled /\ sig'[c].req = sig[c].req
                             /\ sig'[c].gone = sig[c].gone
                             /\ sig[c].digests \subseteq sig'[c].digests
                             /\ ~SigAt(c, "verified") /\ sig[c].req.agent = a => d \in sig'[c].digests
      OBVIOUS
    <3>1. CASE c \in InFlight /\ Req(c).agent = a
      <4>1. Handled(c) /\ ~SigAt(c, "verified")
        BY <3>1, <2>2
      <4>2. sig'[c] = [sig[c] EXCEPT !.digests = sig[c].digests \cup {d}]
        BY <3>1, <2>1
      <4> QED BY <4>1, <4>2, <2>3
    <3>2. CASE ~(c \in InFlight /\ Req(c).agent = a)
      <4>1. sig'[c] = sig[c]
        BY <3>2, <2>1
      <4> QED BY <4>1, <3>2, <2>2, <1>h DEF Req
    <3> QED BY <3>1, <3>2
  <2>5. SigTypeOK'
    <3>1. \A c \in SigCalls : sig'[c] \in SigHandled \cup SigAnswered
      <4> SUFFICES ASSUME NEW c \in SigCalls PROVE sig'[c] \in SigHandled \cup SigAnswered
        OBVIOUS
      <4>1. CASE Handled(c)
        BY <4>1, <2>4
      <4>2. CASE ~Handled(c)
        BY <4>2, <2>1, <2>2, <1>t
      <4> QED BY <4>1, <4>2
    <3>2. sig' \in [SigCalls -> SigHandled \cup SigAnswered]
      BY <3>1, <2>1
    <3> QED BY <2>1, <3>2, <1>t DEF SigTypeOK
  <2>6. ASSUME NEW c \in SigCalls, Handled(c)' PROVE SoFar(sig[c])'
    <3>1. Handled(c)
      BY <2>6, <2>4 DEF Handled
    <3>2. SoFar(sig[c]) /\ sig[c].req \in SigRequests /\ sig[c].req.agent \in Signers
      BY <3>1, <1>h, <1>t DEF Req
    <3>3. sig[c].stage # "verified" => checksum'[sig[c].req.agent] \in sig'[c].digests
      BY <2>1, <2>4, <3>1, <3>2, <1>t DEF SoFar, SigAt
    <3> QED BY <2>1, <2>4, <3>1, <3>2, <3>3 DEF SoFar
  <2>7. \A c \in SigCalls : SigAt(c, "verified")' => SigAt(c, "verified") /\ sig'[c] = sig[c]
    BY <2>4 DEF SigAt
  <2>8. \A c \in Verified : NonceKept(sig[c])'
    <3>1. \A c \in Verified : sig'[c] = sig[c]
      BY <2>4 DEF Verified
    <3> QED BY <2>1, <3>1 DEF SigInv, NonceKept
  <2> QED BY <2>5, <2>6, <2>7, <2>8, KeepsSig
<1>11. ASSUME UNCHANGED <<sig, checksum>>, unrevoked' \subseteq unrevoked, sclock' \in Int,
              \A c \in Verified : NonceKept(sig[c])'
       PROVE  SigInv'
  <2>1. \A c \in SigCalls : Handled(c)' => SoFar(sig[c])'
    BY <1>11 DEF SigInv, Handled, SoFar
  <2> QED BY <1>11, <1>t, <2>1, KeepsSig DEF SigTypeOK, SigAt
<1>12. ASSUME NEW a \in Signers, RevokeSigner(a) PROVE SigInv'
  <2>1. \A c \in Verified : NonceKept(sig[c])'
    BY <1>12 DEF RevokeSigner, SigInv, NonceKept
  <2> QED BY <1>11, <1>12, <1>t, <2>1 DEF RevokeSigner
<1>13. CASE PruneCallNonces
  <2>1. ASSUME NEW c \in Verified PROVE NonceKept(sig[c])'
    <3>1. UNCHANGED <<sclock, sig>> /\ nonces' = {n \in nonces : ~(n.exp < sclock)}
      BY <1>13 DEF PruneCallNonces, Expired
    <3>2. NonceKept(sig[c]) /\ sig[c].req.ts + Skew + NonceGrace \in Int
      BY <1>v, <1>t DEF SigInv
    <3> QED BY <3>1, <3>2, <1>t DEF NonceKept
  <2> QED BY <1>11, <1>13, <1>t, <2>1 DEF PruneCallNonces
<1>14. CASE SigTick
  <2>1. ASSUME NEW c \in Verified PROVE NonceKept(sig[c])'
    <3>1. UNCHANGED <<nonces, sig>> /\ sclock' = sclock + 1
      BY <1>14 DEF SigTick
    <3>2. NonceKept(sig[c]) /\ sig[c].req.ts + Skew + NonceGrace \in Int /\ sig[c].spentAt \in Int
      BY <1>v, <1>t DEF SigInv
    <3> QED BY <3>1, <3>2, <1>t DEF NonceKept
  <2> QED BY <1>11, <1>14, <1>t, <2>1 DEF SigTick
<1>15. CASE UNCHANGED sigVars
  <2>1. \A c \in Verified : NonceKept(sig[c])'
    BY <1>15 DEF sigVars, SigInv, NonceKept
  <2> QED BY <1>11, <1>15, <1>t, <2>1 DEF sigVars
<1> QED BY <1>4, <1>5, <1>6, <1>7, <1>8, <1>9, <1>10, <1>12, <1>13, <1>14, <1>15 DEF SigNext

\* A call that runs as a verified agent is genuine and acts once, whatever the
\* skew, the grace and the lease, for any number of agents and requests and any
\* interleaving with revocations, rotations and the garbage collection.
THEOREM VerifiedCallsAreGenuine == SigSpec => []GenuineCallsActOnce
<1>1. SigInv => GenuineCallsActOnce
  BY DEF SigInv
<1> QED BY <1>1, InitSig, NextSig, PTL DEF SigSpec

----------------------------------------------------------------------------
(* Evidence.                                                               *)

AttTypeOK ==
  /\ attNow \in Int
  /\ challenges \in [Nonces -> ChallengeRow \cup {Unset}]

\* A document of the hardware answers a challenge that had been issued.
Answers(d) ==
  /\ d.form = "tpm2" /\ d.nonce \in Nonces /\ d.ts \in Int
  /\ challenges[d.nonce] # Unset
  /\ challenges[d.nonce].exp - ChallengeTtl <= d.ts /\ d.ts <= attNow

\* What VerifyEvidence established of a request, and what the enrolled agent
\* keeps of it.
Evidence(e) ==
  /\ e.chal \in Nonces /\ challenges[e.chal] # Unset
  /\ e.doc.form = "tpm2" =>
       e.doc \in quotes /\ e.doc.key = e.key /\ e.doc.nonce = e.chal /\ Measurement(e.doc) = e.verified
  /\ deployment.requireHardware /\ deployment.rejectDev => e.doc.form = "tpm2"
  /\ deployment.preregistered => e.verified \in deployment.golden

\* A challenge that has vouched for an agent is closed.
Closed(e) ==
  /\ ~challenges[e.chal].open
  /\ e.at \in Int /\ e.at <= attNow /\ e.at <= challenges[e.chal].exp
  /\ e.doc.form = "tpm2" => e.doc.ts <= e.at

AttInv ==
  /\ AttTypeOK
  /\ \A c \in Nonces : challenges[c] # Unset => challenges[c].exp - ChallengeTtl <= attNow
  /\ \A d \in quotes : Answers(d)
  /\ enrolling = [r \in Enrolments |-> enrolling[r]]
  /\ \A r \in Enrolments : enrolling[r] # Unset => Evidence(enrolling[r])
  /\ \A e \in enrolled : IF e.chal = Unset THEN ~deployment.requireHardware
                         ELSE Evidence(e) /\ Closed(e)
  /\ \A e, f \in enrolled : e.chal # Unset /\ f.chal = e.chal => f = e
  /\ \A e \in enrolled : e.pinned \in PcrSets \cup {e.verified}

\* The invariant says what the property says.
LEMMA AttEnough == AttInv => EnrolledHostsAreGenuine
<1> SUFFICES ASSUME AttInv, NEW e \in enrolled
             PROVE  /\ e.chal # Unset =>
                         /\ e.doc.form = "tpm2" =>
                              /\ e.doc \in quotes /\ e.doc.key = e.key
                              /\ Measurement(e.doc) = e.verified
                              /\ e.at - ChallengeTtl <= e.doc.ts /\ e.doc.ts <= e.at
                         /\ \A f \in enrolled : f.chal = e.chal => f = e
                    /\ deployment.requireHardware /\ deployment.rejectDev =>
                         e.chal # Unset /\ e.doc.form = "tpm2"
                    /\ deployment.preregistered /\ e.chal # Unset => e.verified \in deployment.golden
                    /\ e.pinned \in PcrSets \cup {e.verified}
  BY DEF EnrolledHostsAreGenuine
<1>0. e.pinned \in PcrSets \cup {e.verified}
  BY DEF AttInv
<1>1. CASE e.chal = Unset
  BY <1>0, <1>1 DEF AttInv
<1>2. CASE e.chal # Unset
  <2>1. Evidence(e) /\ Closed(e) /\ \A f \in enrolled : f.chal = e.chal => f = e
    BY <1>2 DEF AttInv
  <2>2. ASSUME e.doc.form = "tpm2" PROVE e.at - ChallengeTtl <= e.doc.ts
    <3>1. Answers(e.doc) /\ e.doc.nonce = e.chal
      BY <2>1, <2>2 DEF Evidence, AttInv
    <3>2. challenges[e.chal].exp \in Int
      BY <2>1 DEF Evidence, AttInv, AttTypeOK, ChallengeRow
    <3> QED BY <2>1, <3>1, <3>2, AttestationAssumption DEF Answers, Closed
  <2> QED BY <1>0, <1>2, <2>1, <2>2 DEF Evidence, Closed
<1> QED BY <1>1, <1>2

\* Nothing has been challenged, signed or enrolled initially.
LEMMA InitAtt == AttInit => AttInv
  BY DEF AttInit, AttInv, AttTypeOK

\* What anyone can make carries no vendor's signature.
LEMMA ForgeriesDoNotVerify ==
  ASSUME NEW c, NEW k, NEW d \in Forgeries(c, k)
  PROVE  ~VerifyTpm2Quote(d)
  BY DEF Forgeries, VerifyTpm2Quote, AikCertChain, AikSignature

\* What a step that deletes no challenge and no document preserves.
LEMMA EvidenceStays ==
  ASSUME deployment' = deployment, quotes \subseteq quotes',
         \A c \in Nonces : challenges[c] # Unset => challenges'[c] # Unset
  PROVE  \A e : Evidence(e) => Evidence(e)'
  BY DEF Evidence, Measurement, PcrDigest, NitroMeasurement

\* Every step keeps the invariant: only a document of the hardware passes as a
\* TPM's quote, it answers the challenge, and the challenge is used once.
LEMMA NextAtt == AttInv /\ [AttNext]_attVars => AttInv'
<1> SUFFICES ASSUME AttInv, [AttNext]_attVars PROVE AttInv'
  OBVIOUS
<1>t. attNow \in Int /\ challenges \in [Nonces -> ChallengeRow \cup {Unset}]
      /\ ChallengeTtl \in Nat /\ Unset \notin Nonces /\ Unset \notin ChallengeRow
  BY AttestationAssumption DEF AttInv, AttTypeOK
<1>1. ASSUME UNCHANGED <<deployment, challenges, enrolling, enrolled, quotes>>,
             attNow' \in Int, attNow <= attNow'
      PROVE  AttInv'
  <2>1. \A e : Evidence(e) => Evidence(e)'
    BY <1>1, EvidenceStays
  <2>2. \A e \in enrolled : Closed(e) => Closed(e)'
    BY <1>1, <1>t DEF Closed
  <2>3. \A d \in quotes : Answers(d)'
    BY <1>1, <1>t DEF AttInv, Answers
  <2>4. \A c \in Nonces : challenges[c] # Unset => challenges[c].exp \in Int
    BY <1>t DEF ChallengeRow
  <2>5. \A c \in Nonces : challenges'[c] # Unset => challenges'[c].exp - ChallengeTtl <= attNow'
    BY <1>1, <1>t, <2>4 DEF AttInv
  <2>6. \A e \in enrolled' : IF e.chal = Unset THEN ~deployment'.requireHardware
                             ELSE Evidence(e)' /\ Closed(e)'
    BY <1>1, <2>1, <2>2 DEF AttInv
  <2>7. \A r \in Enrolments : enrolling'[r] # Unset => Evidence(enrolling[r])'
    BY <1>1, <2>1 DEF AttInv, Evidence
  <2> QED BY <1>1, <1>t, <2>3, <2>5, <2>6, <2>7 DEF AttInv, AttTypeOK
<1>2. CASE AttTick
  BY <1>1, <1>2, <1>t DEF AttTick
<1>4. CASE UNCHANGED attVars
  BY <1>1, <1>4, <1>t DEF attVars
<1>5. ASSUME NEW i \in Readings, NEW c \in Nonces, NEW k \in PopKeys, Quote("tpm2", i, c, k)
      PROVE  AttInv'
  <2> DEFINE new == Document("tpm2", i, c, k, attNow, TRUE, TRUE)
  <2>1. /\ UNCHANGED <<attNow, deployment, challenges, enrolling, enrolled>>
        /\ challenges[c] # Unset /\ quotes' = quotes \cup {new}
    BY <1>5 DEF Quote
  <2>2. new.form = "tpm2" /\ new.nonce = c /\ new.ts = attNow
    BY DEF Document
  <2> HIDE DEF new
  <2>3. \A d : d = new => Answers(d)'
    BY <2>1, <2>2, <1>t DEF AttInv, Answers
  <2>4. \A d \in quotes' : Answers(d)'
    BY <2>1, <2>3 DEF AttInv, Answers
  <2>5. \A e : Evidence(e) => Evidence(e)'
    BY <2>1, EvidenceStays
  <2>6. \A e : Closed(e) => Closed(e)'
    BY <2>1 DEF Closed
  <2>7. \A r \in Enrolments : enrolling'[r] # Unset => Evidence(enrolling[r])'
    BY <2>1, <2>5 DEF AttInv, Evidence
  <2>8. \A e \in enrolled' : IF e.chal = Unset THEN ~deployment'.requireHardware
                             ELSE Evidence(e)' /\ Closed(e)'
    BY <2>1, <2>5, <2>6 DEF AttInv
  <2> QED BY <2>1, <2>4, <2>7, <2>8, <1>t DEF AttInv, AttTypeOK

<1>6. ASSUME NEW c \in Nonces, NEW k \in PopKeys, ChallengeHost(c, k) PROVE AttInv'
  <2> DEFINE Row(d) == IF d = c THEN [key |-> k, exp |-> attNow + ChallengeTtl, open |-> TRUE]
                       ELSE IF challenges[d] = Unset THEN Unset
                       ELSE [challenges[d] EXCEPT !.open = challenges[d].open /\ challenges[d].exp >= attNow]
  <2>1. /\ UNCHANGED <<attNow, deployment, quotes, enrolling, enrolled>>
        /\ challenges[c] = Unset /\ challenges' = [d \in Nonces |-> Row(d)]
    BY <1>6 DEF ChallengeHost
  <2>2. Row(c) \in ChallengeRow /\ Row(c).exp = attNow + ChallengeTtl
    BY <1>t DEF ChallengeRow
  <2>3. ASSUME NEW d \in Nonces, challenges[d] # Unset
        PROVE  /\ Row(d) \in ChallengeRow /\ Row(d).exp = challenges[d].exp
               /\ ~challenges[d].open => ~Row(d).open
    <3>1. challenges[d] \in ChallengeRow /\ d # c
      BY <2>1, <2>3, <1>t
    <3> QED BY <2>3, <3>1 DEF ChallengeRow
  <2>4. \A d \in Nonces : d # c /\ challenges[d] = Unset => Row(d) = Unset
    OBVIOUS
  <2>5. \A d \in Nonces : challenges'[d] = Row(d)
    BY <2>1
  <2> HIDE DEF Row
  <2>6. challenges' \in [Nonces -> ChallengeRow \cup {Unset}]
    BY <2>1, <2>2, <2>3, <2>4
  <2>7. \A d \in Nonces : challenges'[d] # Unset => challenges'[d].exp - ChallengeTtl <= attNow
    BY <2>2, <2>3, <2>4, <2>5, <1>t DEF AttInv
  <2>8. \A d \in Nonces : challenges[d] # Unset =>
          /\ challenges'[d] # Unset /\ challenges'[d].exp = challenges[d].exp
          /\ ~challenges[d].open => ~challenges'[d].open
    BY <2>3, <2>5, <1>t
  <2>9. \A d \in quotes : Answers(d)'
    BY <2>1, <2>8 DEF AttInv, Answers
  <2>10. \A e : Evidence(e) => Evidence(e)'
    BY <2>1, <2>8, EvidenceStays
  <2>11. \A e : Evidence(e) /\ Closed(e) => Closed(e)'
    BY <2>1, <2>8 DEF Evidence, Closed
  <2>12. \A r \in Enrolments : enrolling'[r] # Unset => Evidence(enrolling[r])'
    BY <2>1, <2>10 DEF AttInv, Evidence
  <2>13. \A e \in enrolled' : IF e.chal = Unset THEN ~deployment'.requireHardware
                              ELSE Evidence(e)' /\ Closed(e)'
    BY <2>1, <2>10, <2>11 DEF AttInv
  <2> QED BY <2>1, <2>6, <2>7, <2>9, <2>12, <2>13, <1>t DEF AttInv, AttTypeOK
<1>7. ASSUME NEW r \in Enrolments, NEW c \in Nonces, NEW k \in PopKeys, VerifyEvidence(r, c, k)
      PROVE  AttInv'
  <2>1. /\ UNCHANGED <<attNow, deployment, quotes, challenges, enrolled>>
        /\ ChallengeStands(c)
    BY <1>7 DEF VerifyEvidence, ReadChallenge
  <2>2. PICK doc \in quotes \cup Forgeries(c, k) :
          /\ Carried(doc) /\ EnforceRegistration(doc, Measurement(doc)) /\ BoundToChallenge(doc, c, k)
          /\ enrolling' = [enrolling EXCEPT ![r] =
               [chal |-> c, key |-> k, verified |-> Measurement(doc), doc |-> doc]]
    BY <1>7 DEF VerifyEvidence
  <2> DEFINE e == [chal |-> c, key |-> k, verified |-> Measurement(doc), doc |-> doc]
  <2>3. e.chal = c /\ e.key = k /\ e.verified = Measurement(doc) /\ e.doc = doc
    OBVIOUS
  <2>4. enrolling' = [enrolling EXCEPT ![r] = e]
    BY <2>2
  <2> HIDE DEF e
  <2>5. challenges[c] # Unset
    BY <2>1 DEF ChallengeStands
  <2>6. doc.form = "tpm2" => doc \in quotes /\ doc.key = k /\ doc.nonce = c
    <3>1. ASSUME doc.form = "tpm2" PROVE VerifyTpm2Quote(doc)
      BY <2>2, <3>1 DEF EnforceRegistration, VerifyAttestation
    <3> QED BY <2>2, <3>1, ForgeriesDoNotVerify DEF BoundToChallenge
  <2>7. deployment.requireHardware /\ deployment.rejectDev => doc.form = "tpm2"
    BY <2>2 DEF EnforceRegistration, VerifyAttestation, VerifyNitroJson, Carried, NitroForms
  <2>8. deployment.preregistered => Measurement(doc) \in deployment.golden
    BY <2>2 DEF EnforceRegistration
  <2>9. Evidence(e)
    BY <2>3, <2>5, <2>6, <2>7, <2>8 DEF Evidence
  <2>10. \A x : Evidence(x) => Evidence(x)'
    BY <2>1, EvidenceStays
  <2>11. \A x : Closed(x) => Closed(x)'
    BY <2>1 DEF Closed
  <2>12. \A q \in Enrolments : enrolling'[q] = e \/ enrolling'[q] = enrolling[q]
    BY <2>4 DEF AttInv
  <2>13. \A q \in Enrolments : enrolling'[q] # Unset => Evidence(enrolling'[q])
    BY <2>9, <2>12 DEF AttInv
  <2>14. \A q \in Enrolments : enrolling'[q] # Unset => Evidence(enrolling[q])'
    BY <2>1, <2>13 DEF Evidence
  <2>15. \A x \in enrolled' : IF x.chal = Unset THEN ~deployment'.requireHardware
                              ELSE Evidence(x)' /\ Closed(x)'
    BY <2>1, <2>10, <2>11 DEF AttInv
  <2>16. \A d \in quotes' : Answers(d)'
    BY <2>1 DEF AttInv, Answers
  <2>17. enrolling' = [q \in Enrolments |-> enrolling'[q]]
    BY <2>4 DEF AttInv
  <2> QED BY <2>1, <2>14, <2>15, <2>16, <2>17, <1>t DEF AttInv, AttTypeOK
<1>8. ASSUME NEW r \in Enrolments, NEW stated \in PcrSets \cup {Unset}, UseChallenge(r, stated)
      PROVE  AttInv'
  <2> DEFINE e == enrolling[r]
             new == [chal |-> e.chal, key |-> e.key, verified |-> e.verified,
                     pinned |-> Pinned(stated, e.verified), doc |-> e.doc, by |-> r, at |-> attNow]
  <2>1. /\ UNCHANGED <<attNow, deployment, quotes>> /\ e # Unset
        /\ enrolling' = [enrolling EXCEPT ![r] = Unset]
    BY <1>8 DEF UseChallenge
  <2>2. Evidence(e) /\ e.chal \in Nonces
    BY <2>1 DEF AttInv, Evidence
  <2>3. \A q \in Enrolments : enrolling'[q] # Unset => enrolling'[q] = enrolling[q]
    BY <2>1 DEF AttInv
  <2>4. enrolling' = [q \in Enrolments |-> enrolling'[q]]
    BY <2>1 DEF AttInv
  <2>5. CASE ~ChallengeStands(e.chal)
    <3>1. UNCHANGED <<challenges, enrolled>>
      BY <1>8, <2>5 DEF UseChallenge
    <3>2. \A x : (Evidence(x) => Evidence(x)') /\ (Closed(x) => Closed(x)')
      BY <2>1, <3>1 DEF Closed, Evidence
    <3>3. \A q \in Enrolments : enrolling'[q] # Unset => Evidence(enrolling[q])'
      BY <2>1, <2>3, <3>1 DEF AttInv, Evidence
    <3>4. \A x \in enrolled' : IF x.chal = Unset THEN ~deployment'.requireHardware
                               ELSE Evidence(x)' /\ Closed(x)'
      BY <2>1, <3>1, <3>2 DEF AttInv
    <3>5. \A d \in quotes' : Answers(d)'
      BY <2>1, <3>1 DEF AttInv, Answers
    <3> QED BY <2>1, <2>4, <3>1, <3>3, <3>4, <3>5, <1>t DEF AttInv, AttTypeOK
  <2>6. CASE ChallengeStands(e.chal)
    <3> DEFINE c == e.chal
               row == [challenges[c] EXCEPT !.open = FALSE]
    <3>1. challenges' = [challenges EXCEPT ![c] = row] /\ enrolled' = enrolled \cup {new}
      BY <1>8, <2>6 DEF UseChallenge
    <3>2. challenges[c] \in ChallengeRow /\ challenges[c].open /\ challenges[c].exp >= attNow
      BY <2>2, <2>6, <1>t DEF ChallengeStands
    <3>3. row \in ChallengeRow /\ ~row.open /\ row.exp = challenges[c].exp /\ row # Unset
      BY <3>2, <1>t DEF ChallengeRow
    <3>4. /\ new.chal = c /\ new.key = e.key /\ new.verified = e.verified /\ new.doc = e.doc
          /\ new.at = attNow /\ new.pinned \in PcrSets \cup {new.verified}
      BY DEF Pinned
    <3> HIDE DEF new, row, c, e
    <3>5. c \in Nonces /\ c = e.chal
      BY <2>2 DEF c
    <3>6. challenges'[c] = row /\ \A d \in Nonces : d # c => challenges'[d] = challenges[d]
      BY <3>1, <3>5, <1>t
    <3>7. challenges' \in [Nonces -> ChallengeRow \cup {Unset}]
      BY <3>1, <3>3, <3>5, <1>t
    <3>8. \A d \in Nonces : /\ challenges'[d] # Unset <=> challenges[d] # Unset
                            /\ challenges[d] # Unset => challenges'[d].exp = challenges[d].exp
                            /\ ~challenges[d].open => ~challenges'[d].open
      BY <3>2, <3>3, <3>6, <1>t
    <3>9. \A x : Evidence(x) => Evidence(x)'
      BY <2>1, <3>8, EvidenceStays
    <3>10. \A x : Evidence(x) /\ Closed(x) => Closed(x)'
      BY <2>1, <3>8 DEF Evidence, Closed
    <3>11. Evidence(new)
      BY <2>2, <3>4, <3>5 DEF Evidence
    <3>12. \A x : x = new => Closed(x)'
      <4>1. e.doc.form = "tpm2" => e.doc.ts <= attNow
        BY <2>2 DEF AttInv, Evidence, Answers
      <4> QED BY <2>1, <3>2, <3>3, <3>4, <3>6, <4>1, <1>t DEF Closed, ChallengeRow
    <3>13. \A x \in enrolled' : IF x.chal = Unset THEN ~deployment'.requireHardware
                                ELSE Evidence(x)' /\ Closed(x)'
      <4>1. \A x \in enrolled : IF x.chal = Unset THEN ~deployment'.requireHardware
                                ELSE Evidence(x)' /\ Closed(x)'
        BY <2>1, <3>9, <3>10 DEF AttInv
      <4>2. \A x : x = new => x.chal # Unset /\ Evidence(x)' /\ Closed(x)'
        BY <3>4, <3>5, <3>9, <3>11, <3>12, <1>t
      <4> QED BY <3>1, <4>1, <4>2
    <3>14. \A x, y \in enrolled' : x.chal # Unset /\ y.chal = x.chal => y = x
      <4>1. \A x \in enrolled : x.chal # c
        BY <3>2, <3>5, <1>t DEF AttInv, Closed
      <4> QED BY <3>1, <3>4, <4>1 DEF AttInv
    <3>15. \A q \in Enrolments : enrolling'[q] # Unset => Evidence(enrolling[q])'
      <4>1. \A q \in Enrolments : enrolling'[q] # Unset => Evidence(enrolling'[q])
        BY <2>3 DEF AttInv
      <4> QED BY <2>1, <3>8, <4>1 DEF Evidence, Measurement, PcrDigest, NitroMeasurement
    <3>16. \A d \in quotes' : Answers(d)'
      BY <2>1, <3>8 DEF AttInv, Answers
    <3>17. \A d \in Nonces : challenges'[d] # Unset => challenges'[d].exp - ChallengeTtl <= attNow'
      BY <2>1, <3>8 DEF AttInv
    <3>18. \A x \in enrolled' : x.pinned \in PcrSets \cup {x.verified}
      BY <3>1, <3>4 DEF AttInv
    <3> QED BY <2>1, <2>4, <3>7, <3>13, <3>14, <3>15, <3>16, <3>17, <3>18, <1>t DEF AttInv, AttTypeOK
  <2> QED BY <2>5, <2>6
<1>9. ASSUME NEW k \in PopKeys, NEW b \in BOOLEAN, NEW stated \in PcrSets \cup {Unset},
             EnrolUnattested(k, b, stated)
      PROVE  AttInv'
  <2> DEFINE new == [chal |-> Unset, key |-> k, verified |-> Unset, pinned |-> Pinned(stated, Unset),
                     doc |-> Unset, by |-> Unset, at |-> 0]
  <2>1. /\ UNCHANGED <<attNow, deployment, quotes, challenges, enrolling>>
        /\ ~deployment.requireHardware /\ enrolled' = enrolled \cup {new}
    BY <1>9 DEF EnrolUnattested
  <2>2. new.chal = Unset /\ new.pinned \in PcrSets \cup {new.verified}
    BY DEF Pinned
  <2> HIDE DEF new
  <2>3. \A x : (Evidence(x) => Evidence(x)') /\ (Closed(x) => Closed(x)')
    BY <2>1 DEF Closed, Evidence
  <2>4. \A x \in enrolled' : IF x.chal = Unset THEN ~deployment'.requireHardware
                             ELSE Evidence(x)' /\ Closed(x)'
    BY <2>1, <2>2, <2>3 DEF AttInv
  <2>5. \A x, y \in enrolled' : x.chal # Unset /\ y.chal = x.chal => y = x
    BY <2>1, <2>2 DEF AttInv
  <2>6. \A q \in Enrolments : enrolling'[q] # Unset => Evidence(enrolling[q])'
    BY <2>1 DEF AttInv, Evidence
  <2>7. \A d \in quotes' : Answers(d)'
    BY <2>1 DEF AttInv, Answers
  <2>8. \A x \in enrolled' : x.pinned \in PcrSets \cup {x.verified}
    BY <2>1, <2>2 DEF AttInv
  <2> QED BY <2>1, <2>4, <2>5, <2>6, <2>7, <2>8, <1>t DEF AttInv, AttTypeOK
<1> QED BY <1>2, <1>4, <1>5, <1>6, <1>7, <1>8, <1>9 DEF AttNext, HardwareForms

\* Every agent enrolled on hardware evidence is genuine, for any deployment,
\* any number of hosts' documents, challenges and requests in flight and any
\* replay or forgery.
THEOREM HostsAreGenuine == AttSpec => []EnrolledHostsAreGenuine
  BY AttEnough, InitAtt, NextAtt, PTL DEF AttSpec

----------------------------------------------------------------------------
(* The audit chain.                                                        *)

InHand == [at: {"file", "connect", "lock", "head"}, id: Nat]

\* A caller between the lock and the INSERT holds the lock.
IngressTypeOK ==
  /\ events \in Nat /\ headFaults \in Nat
  /\ caller = [c \in Callers |-> caller[c]]
  /\ \A c \in Callers :
       /\ caller[c].at \in {"outside", "file", "connect", "lock", "head", "insert"}
       /\ caller[c].at \in {"file", "connect", "lock", "head"} => caller[c] \in InHand
       /\ caller[c].at \in {"head", "insert"} => chainLock = c

\* The log is a chain of rows 1 to n, and what the holder of the lock is about
\* to insert is row n + 1.
Chained ==
  /\ IsFiniteSet(auditLog)
  /\ \A r \in auditLog : r.seq \in Nat
  /\ VerifyAuditChain
  /\ \A c \in Callers : caller[c].at = "insert" =>
       /\ caller[c].seq = Cardinality(auditLog) + 1
       /\ \/ caller[c].seq = 1 /\ caller[c].prev = Genesis
          \/ \E q \in auditLog : q.seq + 1 = caller[c].seq /\ q.hash = caller[c].prev

AuditInv == IngressTypeOK /\ (headFaults = 0 => Chained)

\* The log is empty initially.
LEMMA InitAudit == IngressInit => AuditInv
<1> SUFFICES ASSUME IngressInit PROVE AuditInv
  OBVIOUS
<1>1. IngressTypeOK
  BY DEF IngressInit, IngressTypeOK, Outside
<1>2. IsFiniteSet({}) /\ Cardinality({}) = 0
  BY FS_EmptySet
<1>3. {r.seq : r \in auditLog} = 1..Cardinality(auditLog)
  BY <1>2 DEF IngressInit
<1>4. Chained
  BY <1>2, <1>3 DEF IngressInit, Chained, VerifyAuditChain, Outside
<1> QED BY <1>1, <1>4 DEF AuditInv

\* A step that neither writes the log nor reads its head keeps the chain.
LEMMA KeepsChain ==
  ASSUME AuditInv, IngressTypeOK', UNCHANGED <<auditLog, headFaults>>,
         \A c \in Callers : caller'[c].at = "insert" => caller'[c] = caller[c]
  PROVE  AuditInv'
  BY DEF AuditInv, Chained, VerifyAuditChain

\* Every step keeps the invariant: the lock is held from reading the head to the
\* INSERT, so nobody else extends the chain in between.
LEMMA NextAudit == AuditInv /\ [IngressNext]_ingressVars => AuditInv'
<1> SUFFICES ASSUME AuditInv, [IngressNext]_ingressVars PROVE AuditInv'
  OBVIOUS
<1>t. IngressTypeOK
  BY DEF AuditInv
<1>1. ASSUME UNCHANGED <<caller, chainLock, auditLog, headFaults, events>> PROVE AuditInv'
  BY <1>1, KeepsChain DEF AuditInv, IngressTypeOK
<1>2. ASSUME NEW c \in Callers, NEW l, caller' = [caller EXCEPT ![c] = l],
             UNCHANGED <<auditLog, headFaults>>, events' \in Nat,
             l = Outside \/ l \in InHand,
             \/ l.at # "head" /\ chainLock' = chainLock
             \/ chainLock = Unlocked /\ chainLock' = c
      PROVE  AuditInv'
  <2>1. caller'[c] = l /\ \A d \in Callers : d # c => caller'[d] = caller[d]
    BY <1>2, <1>t DEF IngressTypeOK
  <2>2. l.at # "insert" /\ l.at \in {"outside", "file", "connect", "lock", "head"}
    BY <1>2 DEF Outside, InHand
  <2>3. caller' = [d \in Callers |-> caller'[d]]
    BY <1>2, <1>t DEF IngressTypeOK
  <2>4. ASSUME NEW d \in Callers
        PROVE  /\ caller'[d].at \in {"outside", "file", "connect", "lock", "head", "insert"}
               /\ caller'[d].at \in {"file", "connect", "lock", "head"} => caller'[d] \in InHand
               /\ caller'[d].at \in {"head", "insert"} => chainLock' = d
    <3>1. CASE d = c
      BY <3>1, <2>1, <2>2, <1>2 DEF Outside
    <3>2. CASE d # c
      BY <3>2, <2>1, <1>2, <1>t, IngressAssumption DEF IngressTypeOK
    <3> QED BY <3>1, <3>2
  <2>5. IngressTypeOK'
    BY <1>2, <2>3, <2>4, <1>t DEF IngressTypeOK
  <2> QED BY <1>2, <2>1, <2>2, <2>5, KeepsChain
<1>3. ASSUME NEW c \in Callers, NEW p \in {"connect", "lock", "head"},
             caller[c].at \in {"file", "connect", "lock", "head"}
      PROVE  [caller[c] EXCEPT !.at = p] \in InHand /\ [caller[c] EXCEPT !.at = p].at = p
  BY <1>3, <1>t DEF IngressTypeOK, InHand
<1>4. Recording \in InHand /\ Recording.at = "file" /\ Outside.at = "outside"
  BY <1>t DEF Recording, InHand, IngressTypeOK, Outside
<1>5. ASSUME NEW c \in Callers, NEW ip \in Addresses, NEW denied \in BOOLEAN, Admit(c, ip, denied)
      PROVE  AuditInv'
  BY <1>2, <1>4, <1>5, <1>t DEF Admit, Becomes, IngressTypeOK
<1>6. ASSUME NEW c \in Callers, NEW ip \in Addresses, TurnAway(c, ip) PROVE AuditInv'
  BY <1>2, <1>4, <1>6, <1>t DEF TurnAway, Becomes, IngressTypeOK
<1>7. ASSUME NEW c \in Callers, WriteFileSink(c) PROVE AuditInv'
  <2>1. [caller[c] EXCEPT !.at = "connect"] \in InHand /\ [caller[c] EXCEPT !.at = "connect"].at = "connect"
    BY <1>3, <1>7 DEF WriteFileSink, CallerAt
  <2> QED BY <1>2, <1>7, <2>1, <1>t DEF WriteFileSink, Becomes, IngressTypeOK
<1>8. ASSUME NEW c \in Callers, Connect(c) PROVE AuditInv'
  <2>1. [caller[c] EXCEPT !.at = "lock"] \in InHand /\ [caller[c] EXCEPT !.at = "lock"].at = "lock"
    BY <1>3, <1>8 DEF Connect, CallerAt
  <2> QED BY <1>2, <1>4, <1>8, <2>1, <1>t DEF Connect, Becomes, IngressTypeOK
<1>9. ASSUME NEW c \in Callers, LockChain(c) PROVE AuditInv'
  <2>1. [caller[c] EXCEPT !.at = "head"] \in InHand
    BY <1>3, <1>9 DEF LockChain, CallerAt
  <2> QED BY <1>2, <1>9, <2>1, <1>t DEF LockChain, ChainFree, Becomes, IngressTypeOK
<1>10. ASSUME NEW c \in Callers, ReadHead(c) PROVE AuditInv'
  <2>1. /\ caller[c].at = "head" /\ UNCHANGED <<auditLog, chainLock, events>>
        /\ chainLock = c
    BY <1>10, <1>t DEF ReadHead, CallerAt, IngressTypeOK
  <2>2. PICK seq, prev :
          /\ caller' = [caller EXCEPT ![c] = [at |-> "insert", id |-> caller[c].id, seq |-> seq + 1, prev |-> prev]]
          /\ \/ headFaults' = headFaults + 1
             \/ /\ headFaults' = headFaults
                /\ \/ auditLog = {} /\ seq = 0 /\ prev = Genesis
                   \/ auditLog # {} /\ \E r \in ChainHeads : seq = r.seq /\ prev = r.hash
    BY <1>10 DEF ReadHead, ReadRow, Becomes
  <2> DEFINE l == [at |-> "insert", id |-> caller[c].id, seq |-> seq + 1, prev |-> prev]
  <2>3. l.at = "insert" /\ l.seq = seq + 1 /\ l.prev = prev
    OBVIOUS
  <2>4. caller' = [caller EXCEPT ![c] = l]
    BY <2>2
  <2> HIDE DEF l
  <2>5. caller'[c] = l /\ \A d \in Callers : d # c => caller'[d] = caller[d]
    BY <2>4, <1>t DEF IngressTypeOK
  <2>6. IngressTypeOK'
    <3>1. caller' = [d \in Callers |-> caller'[d]]
      BY <2>4, <1>t DEF IngressTypeOK
    <3>2. headFaults' \in Nat
      BY <2>2, <1>t DEF IngressTypeOK
    <3> QED BY <2>1, <2>3, <2>5, <3>1, <3>2, <1>t DEF IngressTypeOK
  <2>7. ASSUME headFaults' = 0 PROVE Chained'
    <3>1. headFaults = 0 /\ headFaults' = headFaults
      BY <2>2, <2>7, <1>t DEF IngressTypeOK
    <3>2. Chained
      BY <3>1 DEF AuditInv
    <3>3. /\ seq + 1 = Cardinality(auditLog) + 1
          /\ \/ seq + 1 = 1 /\ prev = Genesis
             \/ \E q \in auditLog : q.seq + 1 = seq + 1 /\ q.hash = prev
      <4>1. CASE auditLog = {} /\ seq = 0 /\ prev = Genesis
        BY <4>1, FS_EmptySet
      <4>2. ASSUME NEW r \in ChainHeads, seq = r.seq, prev = r.hash
            PROVE  /\ seq + 1 = Cardinality(auditLog) + 1
                   /\ \E q \in auditLog : q.seq + 1 = seq + 1 /\ q.hash = prev
        <5> DEFINE n == Cardinality(auditLog)
        <5>1. r \in auditLog /\ \A q \in auditLog : q.seq <= r.seq
          BY DEF ChainHeads
        <5>2. n \in Nat
          BY <3>2, FS_CardinalityType DEF Chained
        <5>3. {q.seq : q \in auditLog} = 1..n
          BY <3>2 DEF Chained, VerifyAuditChain
        <5>4. r.seq \in 1..n
          BY <5>1, <5>3
        <5>5. n \in 1..n
          BY <5>2, <5>4
        <5>6. PICK q \in auditLog : q.seq = n
          BY <5>3, <5>5
        <5>7. r.seq = n
          BY <5>1, <5>2, <5>4, <5>6
        <5> QED BY <4>2, <5>1, <5>7
      <4> QED BY <2>2, <3>1, <4>1, <4>2, <1>t DEF IngressTypeOK
    <3>4. ASSUME NEW d \in Callers, caller'[d].at = "insert" PROVE d = c
      BY <3>4, <2>1, <2>5, <1>t DEF IngressTypeOK
    <3>5. VerifyAuditChain'
      BY <2>1, <3>2 DEF Chained, VerifyAuditChain
    <3> QED BY <2>1, <2>3, <2>5, <3>2, <3>3, <3>4, <3>5 DEF Chained
  <2> QED BY <2>6, <2>7 DEF AuditInv
<1>11. ASSUME NEW c \in Callers, InsertEntry(c) PROVE AuditInv'
  <2> DEFINE e == caller[c]
             row == [seq |-> e.seq, prev |-> e.prev, hash |-> EntryHash(e.seq, e.prev, e.id)]
  <2>1. /\ e.at = "insert" /\ chainLock = c /\ UNCHANGED <<events, headFaults>>
        /\ caller' = [caller EXCEPT ![c] = Outside]
        /\ auditLog' = auditLog \/ auditLog' = auditLog \cup {row}
    BY <1>11, <1>t DEF InsertEntry, CallerAt, IngressTypeOK, Becomes
  <2>2. row.seq = e.seq /\ row.prev = e.prev
    OBVIOUS
  <2> HIDE DEF row
  <2>3. caller'[c] = Outside /\ \A d \in Callers : d # c => caller'[d] = caller[d]
    BY <2>1, <1>t DEF IngressTypeOK
  <2>4. \A d \in Callers : caller'[d].at \notin {"head", "insert"}
    BY <2>1, <2>3, <1>t DEF IngressTypeOK, Outside
  <2>5. IngressTypeOK'
    <3>1. caller' = [d \in Callers |-> caller'[d]]
      BY <2>1, <1>t DEF IngressTypeOK
    <3> QED BY <2>1, <2>3, <2>4, <3>1, <1>t DEF IngressTypeOK, Outside
  <2>6. ASSUME headFaults' = 0, auditLog' = auditLog \cup {row} PROVE Chained'
    <3> DEFINE n == Cardinality(auditLog)
    <3>1. Chained
      BY <2>1, <2>6 DEF AuditInv
    <3>2. n \in Nat /\ {q.seq : q \in auditLog} = 1..n
      BY <3>1, FS_CardinalityType DEF Chained, VerifyAuditChain
    <3>3. /\ row.seq = n + 1
          /\ \/ row.seq = 1 /\ row.prev = Genesis
             \/ \E q \in auditLog : q.seq + 1 = row.seq /\ q.hash = row.prev
      BY <2>1, <2>2, <3>1 DEF Chained
    <3>4. row \notin auditLog
      <4>1. n + 1 \notin 1..n
        BY <3>2
      <4>2. \A q \in auditLog : q.seq \in 1..n
        BY <3>2
      <4> QED BY <3>3, <4>1, <4>2
    <3>5. IsFiniteSet(auditLog') /\ Cardinality(auditLog') = n + 1
      <4>1. IsFiniteSet(auditLog)
        BY <3>1 DEF Chained
      <4>2. /\ IsFiniteSet(auditLog \cup {row})
            /\ Cardinality(auditLog \cup {row}) =
                 IF row \in auditLog THEN Cardinality(auditLog) ELSE Cardinality(auditLog) + 1
        BY <4>1, FS_AddElement
      <4> QED BY <2>6, <3>4, <4>2
    <3>6. {q.seq : q \in auditLog'} = 1..(n + 1)
      <4>1. {q.seq : q \in auditLog'} = {q.seq : q \in auditLog} \cup {row.seq}
        BY <2>6
      <4>2. 1..(n + 1) = (1..n) \cup {n + 1}
        BY <3>2
      <4> QED BY <4>1, <4>2, <3>2, <3>3
    <3>7. VerifyAuditChain'
      BY <2>6, <3>1, <3>3, <3>5, <3>6 DEF Chained, VerifyAuditChain
    <3>8. \A r \in auditLog' : r.seq \in Nat
      BY <2>6, <3>1, <3>2, <3>3 DEF Chained
    <3> QED BY <2>4, <3>5, <3>7, <3>8 DEF Chained
  <2>7. CASE auditLog' = auditLog
    BY <2>1, <2>4, <2>5, <2>7, KeepsChain
  <2> QED BY <2>1, <2>5, <2>6, <2>7 DEF AuditInv
<1>12. CASE \E c \in Callers : CallerStep(c)
  BY <1>5, <1>6, <1>7, <1>8, <1>9, <1>10, <1>11, <1>12 DEF CallerStep
<1> QED BY <1>1, <1>12 DEF IngressNext, Prune, IngressTick, ingressVars

\* The audit log verifies as long as no read of its head has failed, for any
\* number of requests recording at once and any losses.
THEOREM AuditChainVerifies == IngressSpec => []AuditLogVerifies
<1>1. AuditInv => AuditLogVerifies
  BY DEF AuditInv, AuditLogVerifies, Chained
<1> QED BY <1>1, InitAudit, NextAudit, PTL DEF IngressSpec

----------------------------------------------------------------------------
(* The rate limit.                                                         *)

Bucket == [tokens: 0..Burst, last: 0..inNow]
Admitted(ip, s) == SumFunctionOnSet(letIn[ip], s..inNow)

\* A bucket holds at most Burst units, nothing is let in in the future, and what
\* has been let in since any tick and what is left would have been let in together.
LimitInv ==
  /\ inNow \in 0..IngressEnd
  /\ buckets \in [Addresses -> Bucket \cup {NoBucket}]
  /\ letIn \in [Addresses -> [0..IngressEnd -> Nat]]
  /\ \A ip \in Addresses : \A t \in 0..IngressEnd : t > inNow => letIn[ip][t] = 0
  /\ \A ip \in Addresses : \A s \in 0..inNow :
       Cost * Admitted(ip, s) + Refilled(buckets[ip]) <= Burst + Refill * (inNow - s)

LEMMA LimitConstants ==
  /\ Cost \in Nat /\ Refill \in Nat /\ Burst \in Nat /\ BucketTtl \in Nat
  /\ IngressEnd \in Nat /\ Burst <= Refill * BucketTtl
  BY IngressAssumption

\* Arithmetic of the bucket.
LEMMA Products ==
  ASSUME NEW a \in Nat, NEW b \in Nat
  PROVE  a * b \in Nat /\ a * (b + 1) = a * b + a /\ (b + 1) * a = b * a + a /\ b * a = a * b
  OBVIOUS

LEMMA ProductsGrow ==
  ASSUME NEW a \in Nat, NEW b \in Nat, NEW c \in Nat, b <= c
  PROVE  b * a <= c * a
  OBVIOUS

LEMMA RefilledType ==
  ASSUME LimitInv, NEW ip \in Addresses
  PROVE  Refilled(buckets[ip]) \in 0..Burst
<1>1. CASE buckets[ip] = NoBucket
  BY <1>1, LimitConstants DEF Refilled
<1>2. CASE buckets[ip] # NoBucket
  <2>1. buckets[ip] \in Bucket
    BY <1>2 DEF LimitInv
  <2>2. buckets[ip].tokens \in Nat /\ inNow - buckets[ip].last \in Nat
    BY <2>1 DEF LimitInv, Bucket
  <2>3. (inNow - buckets[ip].last) * Refill \in Nat
    BY <2>2, LimitConstants, Products
  <2> QED BY <1>2, <2>2, <2>3, LimitConstants DEF Refilled, Least
<1> QED BY <1>1, <1>2

LEMMA AdmittedType ==
  ASSUME LimitInv, NEW ip \in Addresses, NEW s \in 0..inNow
  PROVE  /\ IsFiniteSet(s..inNow) /\ \A t \in s..inNow : letIn[ip][t] \in Nat
         /\ Admitted(ip, s) \in Nat
<1>1. IsFiniteSet(s..inNow)
  BY FS_Interval DEF LimitInv
<1>2. \A t \in s..inNow : letIn[ip][t] \in Nat
  BY LimitConstants DEF LimitInv
<1> QED BY <1>1, <1>2, SumNat DEF Admitted

LEMMA InitLimit == IngressInit => LimitInv
<1> SUFFICES ASSUME IngressInit PROVE LimitInv
  OBVIOUS
<1>1. inNow = 0 /\ inNow \in 0..IngressEnd /\ buckets = [ip \in Addresses |-> NoBucket]
      /\ letIn = [ip \in Addresses |-> [t \in 0..IngressEnd |-> 0]]
  BY LimitConstants DEF IngressInit
<1>2. ASSUME NEW ip \in Addresses, NEW s \in 0..inNow
      PROVE  Cost * Admitted(ip, s) + Refilled(buckets[ip]) <= Burst + Refill * (inNow - s)
  <2>1. s = 0 /\ s..inNow = {0} /\ letIn[ip][0] = 0
    BY <1>1, LimitConstants
  <2>3. Admitted(ip, s) = 0
    <3> DEFINE f == letIn[ip]
    <3>1. f[0] = 0 /\ f[0] \in Nat
      BY <2>1
    <3> HIDE DEF f
    <3>2. SumFunctionOnSet(f, s..inNow) = f[0]
      BY <2>1, <3>1, SumSingle
    <3> QED BY <3>1, <3>2 DEF Admitted, f
  <2>4. Refilled(buckets[ip]) = Burst /\ inNow - s = 0
    BY <1>1, <2>1 DEF Refilled
  <2>5. Cost * 0 = 0 /\ Refill * 0 = 0
    BY LimitConstants
  <2> QED BY <2>3, <2>4, <2>5, LimitConstants
<1> QED BY <1>1, <1>2 DEF LimitInv

\* A step that leaves the clock and the admissions alone and no bucket fuller.
LEMMA NotFuller ==
  ASSUME LimitInv, UNCHANGED <<inNow, letIn>>, buckets' \in [Addresses -> Bucket \cup {NoBucket}],
         \A ip \in Addresses : Refilled(buckets[ip])' = Refilled(buckets[ip])
  PROVE  LimitInv'
  BY DEF LimitInv, Admitted, Bucket

LEMMA NextLimit == LimitInv /\ [IngressNext]_ingressVars => LimitInv'
<1> SUFFICES ASSUME LimitInv, [IngressNext]_ingressVars PROVE LimitInv'
  OBVIOUS
<1>t. /\ inNow \in Nat /\ inNow \in 0..IngressEnd
      /\ buckets \in [Addresses -> Bucket \cup {NoBucket}]
      /\ letIn \in [Addresses -> [0..IngressEnd -> Nat]]
      /\ \A ip \in Addresses : \A t \in 0..IngressEnd : t > inNow => letIn[ip][t] = 0
  BY LimitConstants DEF LimitInv
<1>i. \A ip \in Addresses : \A s \in 0..inNow :
        Cost * Admitted(ip, s) + Refilled(buckets[ip]) <= Burst + Refill * (inNow - s)
  BY DEF LimitInv
<1>b. \A b : b \in Bucket => b # NoBucket
  BY <1>t, IngressAssumption DEF Bucket
\* A bucket written now holds what was written.
<1>w. ASSUME NEW n \in 0..Burst
      PROVE  LET b == [tokens |-> n, last |-> inNow] IN b \in Bucket /\ Refilled(b) = n
  <2> DEFINE b == [tokens |-> n, last |-> inNow]
  <2>1. b \in Bucket /\ b.tokens = n /\ b.last = inNow
    BY <1>t DEF Bucket
  <2>2. b # NoBucket
    BY <1>b, <2>1
  <2>3. (inNow - inNow) * Refill = 0
    BY <1>t, LimitConstants
  <2> HIDE DEF b
  <2>4. Refilled(b) = Least(Burst, n + (inNow - inNow) * Refill)
    BY <2>1, <2>2 DEF Refilled
  <2>5. Least(Burst, n + 0) = n
    BY LimitConstants DEF Least
  <2> QED BY <2>1, <2>3, <2>4, <2>5 DEF b
<1>u. ASSUME UNCHANGED <<inNow, letIn, buckets>> PROVE LimitInv'
  BY <1>t, <1>u, NotFuller DEF Refilled
<1>1. ASSUME NEW c \in Callers, NEW ip \in Addresses, TurnAway(c, ip) PROVE LimitInv'
  <2> DEFINE n == Refilled(buckets[ip])
  <2>1. /\ buckets' = [buckets EXCEPT ![ip] = [tokens |-> n, last |-> inNow]]
        /\ UNCHANGED <<inNow, letIn>>
    BY <1>1 DEF TurnAway
  <2>2. n \in 0..Burst
    BY RefilledType
  <2> HIDE DEF n
  <2>3. /\ [tokens |-> n, last |-> inNow] \in Bucket
        /\ Refilled([tokens |-> n, last |-> inNow]) = n
    BY <1>w, <2>2
  <2>4. buckets' \in [Addresses -> Bucket \cup {NoBucket}]
    BY <1>t, <2>1, <2>3
  <2>5. ASSUME NEW a \in Addresses PROVE Refilled(buckets[a])' = Refilled(buckets[a])
    <3>1. Refilled(buckets[a])' = Refilled(buckets'[a])
      BY <2>1 DEF Refilled
    <3> QED BY <1>t, <2>1, <2>3, <3>1 DEF n
  <2> QED BY <2>1, <2>4, <2>5, NotFuller
<1>2. ASSUME NEW c \in Callers, NEW ip \in Addresses, NEW d \in BOOLEAN, Admit(c, ip, d) PROVE LimitInv'
  <2> DEFINE m == Refilled(buckets[ip])
             n == m - Cost
  <2>1. /\ m >= Cost
        /\ buckets' = [buckets EXCEPT ![ip] = [tokens |-> n, last |-> inNow]]
        /\ letIn' = [letIn EXCEPT ![ip][inNow] = @ + 1]
        /\ UNCHANGED inNow
    BY <1>2 DEF Admit
  <2>2. m \in 0..Burst /\ n \in 0..Burst
    BY <2>1, RefilledType, LimitConstants
  <2>3. /\ [tokens |-> n, last |-> inNow] \in Bucket
        /\ Refilled([tokens |-> n, last |-> inNow]) = n
    BY <1>w, <2>2
  <2>4. buckets' \in [Addresses -> Bucket \cup {NoBucket}] /\ Bucket' = Bucket
    BY <1>t, <2>1, <2>3 DEF Bucket
  <2>5. /\ letIn' \in [Addresses -> [0..IngressEnd -> Nat]]
        /\ letIn'[ip][inNow] = letIn[ip][inNow] + 1
        /\ \A t \in 0..IngressEnd : t # inNow => letIn'[ip][t] = letIn[ip][t]
        /\ \A a \in Addresses \ {ip} : letIn'[a] = letIn[a]
    <3> DEFINE f == letIn[ip]
               row == [f EXCEPT ![inNow] = @ + 1]
    <3>1. letIn' = [letIn EXCEPT ![ip] = row]
      BY <2>1
    <3>2. letIn[ip] \in [0..IngressEnd -> Nat] /\ inNow \in 0..IngressEnd
      BY <1>t
    <3>3. /\ row \in [0..IngressEnd -> Nat] /\ row[inNow] = letIn[ip][inNow] + 1
          /\ \A t \in 0..IngressEnd : t # inNow => row[t] = letIn[ip][t]
      <4> HIDE DEF f
      <4>1. f \in [0..IngressEnd -> Nat] /\ inNow \in 0..IngressEnd /\ f[inNow] \in Nat
        BY <3>2 DEF f
      <4>2. row \in [0..IngressEnd -> Nat] /\ row[inNow] = f[inNow] + 1
        BY <4>1
      <4>3. \A t \in 0..IngressEnd : t # inNow => row[t] = f[t]
        BY <4>1
      <4> HIDE DEF row
      <4> QED BY <4>2, <4>3 DEF f
    <3> HIDE DEF row
    <3> QED BY <1>t, <3>1, <3>3
  <2>6. ASSUME NEW a \in Addresses, NEW s \in 0..inNow
        PROVE  Cost * Admitted(a, s)' + Refilled(buckets[a])' <= Burst + Refill * (inNow - s)
    <3>0. Refilled(buckets[a])' = Refilled(buckets'[a]) /\ Admitted(a, s)' = SumFunctionOnSet(letIn'[a], s..inNow)
      BY <2>1 DEF Refilled, Admitted
    <3>1. CASE a = ip
      <4>1. Refilled(buckets'[a]) = n
        BY <1>t, <2>1, <2>3, <3>1
      <4>2. SumFunctionOnSet(letIn'[a], s..inNow) = Admitted(a, s) + 1
        <5>1. inNow \in s..inNow /\ \A t \in s..inNow : t \in 0..IngressEnd
          <6>1. inNow \in Nat /\ IngressEnd \in Nat /\ inNow <= IngressEnd
            BY <1>t, LimitConstants
          <6> QED BY <6>1
        <5>2. \A t \in s..inNow : letIn[a][t] \in Nat /\ letIn'[a][t] \in Nat
          BY <1>t, <2>5, <5>1
        <5>3. \A t \in (s..inNow) \ {inNow} : letIn[a][t] = letIn'[a][t]
          BY <2>5, <3>1, <5>1
        <5>4. IsFiniteSet(s..inNow)
          BY AdmittedType
        <5>5. /\ SumFunctionOnSet(letIn[a], s..inNow) \in Nat
              /\ SumFunctionOnSet(letIn'[a], s..inNow)
                   = SumFunctionOnSet(letIn[a], s..inNow) - letIn[a][inNow] + letIn'[a][inNow]
          <6> DEFINE S == s..inNow
                     f == letIn[a]
                     g == letIn'[a]
          <6>1. IsFiniteSet(S) /\ inNow \in S
            BY <5>1, <5>4
          <6>3. (\A y \in S : f[y] \in Nat) /\ (\A y \in S : g[y] \in Nat)
            BY <5>2
          <6>4. \A y \in S \ {inNow} : f[y] = g[y]
            BY <5>3
          <6> HIDE DEF S, f, g
          <6>2. /\ SumFunctionOnSet(f, S) \in Nat
                /\ SumFunctionOnSet(g, S) = SumFunctionOnSet(f, S) - f[inNow] + g[inNow]
            BY <6>1, <6>3, <6>4, SumChange
          <6> QED BY <6>2 DEF S, f, g
        <5> QED BY <2>5, <3>1, <5>1, <5>2, <5>5 DEF Admitted
      <4>3. Admitted(a, s) \in Nat
        BY AdmittedType
      <4>4. Cost * (Admitted(a, s) + 1) = Cost * Admitted(a, s) + Cost /\ Cost * Admitted(a, s) \in Nat
        BY <4>3, LimitConstants, Products
      <4>5. Refill * (inNow - s) \in Nat
        BY <1>t, LimitConstants, Products
      <4>6. Cost * Admitted(a, s) + m <= Burst + Refill * (inNow - s)
        BY <1>i, <3>1
      <4> HIDE DEF m
      <4> QED BY <2>2, <3>0, <4>1, <4>2, <4>4, <4>5, <4>6, LimitConstants
    <3>2. CASE a # ip
      <4>1. buckets'[a] = buckets[a] /\ letIn'[a] = letIn[a]
        BY <1>t, <2>1, <2>5, <3>2
      <4> QED BY <1>i, <3>0, <4>1 DEF Admitted
    <3> QED BY <3>1, <3>2
  <2>7. ASSUME NEW a \in Addresses, NEW t \in 0..IngressEnd, t > inNow PROVE letIn'[a][t] = 0
    <3>1. letIn[a][t] = 0 /\ t # inNow
      BY <1>t, <2>7
    <3> QED BY <2>5, <3>1
  <2> HIDE DEF n, m
  <2> QED BY <1>t, <2>1, <2>4, <2>5, <2>6, <2>7 DEF LimitInv
<1>3. CASE Prune
  <2>1. /\ buckets' = [ip \in Addresses |-> IF Idle(ip) THEN NoBucket ELSE buckets[ip]]
        /\ UNCHANGED <<inNow, letIn>>
    BY <1>3 DEF Prune
  <2>2. ASSUME NEW a \in Addresses PROVE Refilled(buckets[a])' = Refilled(buckets[a])
    <3>0. Refilled(buckets[a])' = Refilled(buckets'[a])
      BY <2>1 DEF Refilled
    <3>1. CASE Idle(a)
      <4>1. buckets[a] # NoBucket /\ inNow - buckets[a].last >= BucketTtl /\ buckets'[a] = NoBucket
        BY <2>1, <3>1 DEF Idle
      <4>2. buckets[a] \in Bucket
        BY <1>t, <4>1
      <4>3. buckets[a].tokens \in Nat /\ inNow - buckets[a].last \in Nat
        BY <1>t, <4>2 DEF Bucket
      <4> DEFINE w == inNow - buckets[a].last
      <4>4. BucketTtl * Refill <= w * Refill /\ w * Refill \in Nat /\ Burst <= BucketTtl * Refill
            /\ BucketTtl * Refill \in Nat
        BY <4>1, <4>3, LimitConstants, Products, ProductsGrow
      <4>5. Refilled(buckets[a]) = Least(Burst, buckets[a].tokens + w * Refill)
        BY <4>1 DEF Refilled
      <4> HIDE DEF w
      <4>6. Refilled(buckets[a]) = Burst
        BY <4>3, <4>4, <4>5, LimitConstants DEF Least
      <4> QED BY <3>0, <4>1, <4>6 DEF Refilled
    <3>2. CASE ~Idle(a)
      BY <2>1, <3>0, <3>2
    <3> QED BY <3>1, <3>2
  <2>3. buckets' \in [Addresses -> Bucket \cup {NoBucket}]
    BY <1>t, <2>1
  <2> QED BY <2>1, <2>2, <2>3, NotFuller
<1>4. CASE IngressTick
  <2>1. inNow < IngressEnd /\ inNow' = inNow + 1 /\ UNCHANGED <<buckets, letIn>>
    BY <1>4 DEF IngressTick
  <2>2. inNow' \in 0..IngressEnd /\ inNow' \in Nat
    BY <1>t, <2>1, LimitConstants
  <2>3. Bucket \subseteq Bucket' /\ buckets' \in [Addresses -> Bucket' \cup {NoBucket}]
    BY <1>t, <2>1 DEF Bucket
  <2>4. ASSUME NEW a \in Addresses
        PROVE  /\ Refilled(buckets[a])' \in 0..Burst
               /\ Refilled(buckets[a])' <= Refilled(buckets[a]) + Refill
    <3>1. CASE buckets[a] = NoBucket
      BY <2>1, <3>1, LimitConstants DEF Refilled
    <3>2. CASE buckets[a] # NoBucket
      <4>1. buckets[a] \in Bucket
        BY <1>t, <3>2
      <4> DEFINE w == inNow - buckets[a].last
      <4>2. buckets[a].tokens \in Nat /\ w \in Nat /\ inNow' - buckets[a].last = w + 1
        BY <1>t, <2>1, <4>1 DEF Bucket
      <4>3. (w + 1) * Refill = w * Refill + Refill /\ w * Refill \in Nat
        BY <4>2, LimitConstants, Products
      <4>4. Refilled(buckets[a]) = Least(Burst, buckets[a].tokens + w * Refill)
            /\ Refilled(buckets[a])' = Least(Burst, buckets[a].tokens + (w + 1) * Refill)
        BY <2>1, <3>2, <4>2 DEF Refilled
      <4> HIDE DEF w
      <4> QED BY <4>2, <4>3, <4>4, LimitConstants DEF Least
    <3> QED BY <3>1, <3>2
  <2>5. ASSUME NEW a \in Addresses, NEW s \in 0..inNow'
        PROVE  Cost * Admitted(a, s)' + Refilled(buckets[a])' <= Burst + Refill * (inNow' - s)
    <3>0. Admitted(a, s)' = SumFunctionOnSet(letIn[a], s..inNow') /\ letIn[a][inNow'] = 0
      BY <1>t, <2>1, <2>2 DEF Admitted
    <3>1. CASE s = inNow'
      <4>1. s..inNow' = {inNow'} /\ inNow' - s = 0
        <5>1. ASSUME NEW i \in Nat PROVE i..i = {i} /\ i - i = 0
          OBVIOUS
        <5> QED BY <2>2, <3>1, <5>1
      <4>3. Admitted(a, s)' = 0
        BY <3>0, <4>1, SumSingle
      <4>4. Cost * 0 = 0 /\ Refill * 0 = 0
        BY LimitConstants
      <4> QED BY <2>4, <4>1, <4>3, <4>4, LimitConstants
    <3>2. CASE s # inNow'
      <4>1. s \in 0..inNow /\ s..inNow' = (s..inNow) \cup {inNow'} /\ inNow' \notin s..inNow
        BY <1>t, <2>1, <2>2, <3>2
      <4>2. IsFiniteSet(s..inNow) /\ (\A t \in s..inNow : letIn[a][t] \in Nat) /\ Admitted(a, s) \in Nat
        BY <4>1, AdmittedType
      <4>3. SumFunctionOnSet(letIn[a], (s..inNow) \cup {inNow'}) = letIn[a][inNow'] + SumFunctionOnSet(letIn[a], s..inNow)
        <5>1. \A t \in (s..inNow) \cup {inNow'} : letIn[a][t] \in Nat
          BY <3>0, <4>2
        <5> QED BY <4>1, <4>2, <5>1, SumInsert
      <4>4. Admitted(a, s)' = Admitted(a, s)
        <5>1. Admitted(a, s)' = 0 + Admitted(a, s)
          BY <3>0, <4>1, <4>3 DEF Admitted
        <5> QED BY <4>2, <5>1
      <4>5. inNow - s \in Nat /\ inNow' - s = (inNow - s) + 1
        BY <1>t, <2>1, <4>1
      <4>6. Refill * ((inNow - s) + 1) = Refill * (inNow - s) + Refill /\ Refill * (inNow - s) \in Nat
        BY <4>5, LimitConstants, Products
      <4>7. Cost * Admitted(a, s) + Refilled(buckets[a]) <= Burst + Refill * (inNow - s)
        BY <1>i, <4>1
      <4>8. Refilled(buckets[a]) \in 0..Burst /\ Cost * Admitted(a, s) \in Nat
        BY <4>2, RefilledType, LimitConstants, Products
      <4> DEFINE x == Cost * Admitted(a, s)
                 y == Refill * (inNow - s)
      <4>9. x \in Nat /\ y \in Nat /\ x + Refilled(buckets[a]) <= Burst + y
        BY <4>6, <4>7, <4>8
      <4>10. Cost * Admitted(a, s)' = x /\ Refill * (inNow' - s) = y + Refill
        BY <4>4, <4>5, <4>6
      <4> HIDE DEF x, y
      <4> QED BY <2>4, <4>8, <4>9, <4>10, LimitConstants
    <3> QED BY <3>1, <3>2
  <2>6. \A a \in Addresses : \A t \in 0..IngressEnd : t > inNow' => letIn'[a][t] = 0
    BY <1>t, <2>1, <2>2
  <2> QED BY <1>t, <2>1, <2>2, <2>3, <2>5, <2>6 DEF LimitInv
<1>5. ASSUME NEW c \in Callers, CallerStep(c), UNCHANGED <<inNow, letIn, buckets>> PROVE LimitInv'
  BY <1>5, <1>u
<1>6. CASE UNCHANGED ingressVars
  BY <1>6, <1>u DEF ingressVars
<1> QED BY <1>1, <1>2, <1>3, <1>4, <1>5, <1>6
        DEF IngressNext, CallerStep, WriteFileSink, Connect, LockChain, ReadHead, InsertEntry

\* Since any tick an address has been let in for at most a full bucket and what was
\* refilled since, whatever the pruner evicts meanwhile (check_global_rate_limit).
THEOREM AdmissionsBounded == IngressSpec => []AdmissionsAreBounded
<1>1. LimitInv => AdmissionsAreBounded
  <2> SUFFICES ASSUME LimitInv, NEW ip \in Addresses, NEW s \in 0..inNow
               PROVE  Cost * Admitted(ip, s) <= Burst + Refill * (inNow - s)
    BY DEF AdmissionsAreBounded, Admitted
  <2>1. Cost * Admitted(ip, s) + Refilled(buckets[ip]) <= Burst + Refill * (inNow - s)
    BY DEF LimitInv
  <2>2. Refilled(buckets[ip]) \in Nat
    BY RefilledType, LimitConstants
  <2>3. Cost * Admitted(ip, s) \in Nat /\ Refill * (inNow - s) \in Nat
    BY AdmittedType, LimitConstants, Products DEF LimitInv
  <2> QED BY <2>1, <2>2, <2>3, LimitConstants
<1> QED BY <1>1, InitLimit, NextLimit, PTL DEF IngressSpec
=============================================================================
