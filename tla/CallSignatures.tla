--------------------------- MODULE CallSignatures ---------------------------
(***************************************************************************)
(* The per-call signature layer of the agent routes (agent.rs, dpop.rs):   *)
(* require_call_signature_default_deny, the call-signature and the DPoP    *)
(* surface, the single-use nonces of both and the background garbage       *)
(* collection that prunes them.                                            *)
(*                                                                         *)
(* A nonce is consumed last, after the agent's row was read and the        *)
(* signature verified; the clock that the timestamp is compared with was   *)
(* read before.  Signatures are ideal: a request says by which key it is   *)
(* signed and what the signature covers.  One unit of time is a second.    *)
(***************************************************************************)
EXTENDS Integers, FiniteSets

CONSTANTS
  SigCalls,     \* one element per request the layer handles
  Signers,      \* agents, each named like the PoP key of its row
  Digests,      \* checksums of agent configurations
  SigRequests,  \* [path, surface, agent, key, ts, nonce, covers, body, bodyAgent, digest]
  Nobody,       \* no agent named in the body
  Skew,         \* SAURON_CALL_SIG_SKEW_MS (60 s)
  NonceGrace,   \* how much longer a nonce is kept (60 s)
  AgentLease,   \* agents.expires_at
  SigLast       \* bound: the last value of the clock

ASSUME SignatureAssumption ==
  /\ Skew \in Nat \ {0} /\ NonceGrace \in Nat /\ AgentLease \in Nat /\ SigLast \in Nat
  /\ Nobody \notin Signers
  /\ \A r \in SigRequests : r.agent \in Signers /\ r.ts \in Int

VARIABLES
  sclock,      \* the clock
  enforce,     \* SAURON_REQUIRE_CALL_SIG
  unrevoked,   \* agents whose row is not revoked
  checksum,    \* agents.agent_checksum
  nonces,      \* rows of agent_call_nonces: [agent, nonce, exp]
  sig,         \* progress of each request
  denials      \* rows of agent_egress_log with allowed = 0: requests

sigVars == <<sclock, enforce, unrevoked, checksum, nonces, sig, denials>>

NoSig == [stage |-> "none"]

Req(c) == sig[c].req
SigAt(c, s) == sig[c].stage = s
SigGoto(c, s) == sig' = [sig EXCEPT ![c].stage = s]
SigEnd(c, s) == sig' = [sig EXCEPT ![c] = [stage |-> s]]

\* Routes below /agent/ are signed, but for the listed ones and the reads of a
\* single record.
CallSigRequired(path) == path \notin {"exempt", "record", "other"}

Within(t, ts) == t - ts <= Skew /\ ts - t <= Skew

\* log_denied_egress and the answer; in advisory mode the request goes through
\* without a verified agent.  A body that names no agent is not logged.
Reject(c) ==
  IF enforce
    THEN /\ SigEnd(c, "refused")
         /\ denials' = IF Req(c).path = "egressLog" /\ Req(c).bodyAgent # Nobody
                       THEN denials \cup {c} ELSE denials
    ELSE SigEnd(c, "passed") /\ UNCHANGED denials

----------------------------------------------------------------------------
(* One request.                                                            *)

\* require_call_signature_default_deny.
SigArrive(c, r) ==
  /\ sig[c] = NoSig
  /\ IF CallSigRequired(r.path)
       THEN sig' = [sig EXCEPT ![c] =
              [stage |-> "arrived", req |-> r, gone |-> r.agent \notin unrevoked,
               digests |-> {checksum[r.agent]}, at |-> sclock, spentAt |-> -1]]
       ELSE SigEnd(c, "passed")
  /\ UNCHANGED <<sclock, enforce, unrevoked, checksum, nonces, denials>>

\* The WHERE clause of the SELECT; the clock is read just before it.
RowInForce(a) == a \in unrevoked /\ AgentLease > sclock

\* The call-signature surface compares the timestamp first, then the row and the
\* digest; a signature covers the body, the digest, the path and the timestamp.
CallSigGood(c) ==
  LET r == Req(c) IN
    /\ Within(sig[c].at, r.ts)
    /\ RowInForce(r.agent)
    /\ r.digest = checksum[r.agent]
    /\ r.key = r.agent /\ r.covers = r.body

\* try_verify_call_sig up to the nonce.
TryVerifyCallSig(c) ==
  /\ SigAt(c, "arrived") /\ Req(c).surface = "sig"
  /\ IF CallSigGood(c) THEN SigGoto(c, "checked") /\ UNCHANGED denials ELSE Reject(c)
  /\ UNCHANGED <<sclock, enforce, unrevoked, checksum, nonces>>

\* verify_dpop_request: the row and the proof.  Neither the body nor the digest
\* is covered.
VerifyProofOf(c) ==
  /\ SigAt(c, "arrived") /\ Req(c).surface = "dpop"
  /\ IF RowInForce(Req(c).agent) /\ Req(c).key = Req(c).agent
       THEN SigGoto(c, "read") /\ UNCHANGED denials ELSE Reject(c)
  /\ UNCHANGED <<sclock, enforce, unrevoked, checksum, nonces>>

\* check_context, by the clock of this moment, and check_ath.
CheckContext(c) ==
  /\ SigAt(c, "read")
  /\ IF Within(sclock, Req(c).ts)
       THEN SigGoto(c, "checked") /\ UNCHANGED denials ELSE Reject(c)
  /\ UNCHANGED <<sclock, enforce, unrevoked, checksum, nonces>>

\* Headers are missing or malformed, or a statement fails.
Malformed(c) ==
  /\ sig[c].stage \in {"arrived", "read", "checked"}
  /\ Req(c).surface = "none" \/ SigAt(c, "checked")
  /\ Reject(c)
  /\ UNCHANGED <<sclock, enforce, unrevoked, checksum, nonces>>

\* Bug: a nonce is kept no longer than its call may be presented again.
NonceExpBug(r) == r.ts

NonceExp(r) == r.ts + Skew + NonceGrace

\* A jti is kept in the table of the nonces, under a prefix of its own.
NonceKey(r) == <<r.surface, r.nonce>>

Spent(r) == \E n \in nonces : n.agent = r.agent /\ n.nonce = NonceKey(r)

\* Bug: the body's agent is not compared with the signer.
BodyBindingBug(r) == TRUE

\* enforce_signed_agent_body_binding, after the nonce was consumed.
BodyBinding(r) == r.bodyAgent \in {Nobody, r.agent}

\* consume_call_nonce: the primary key decides.  A body that names another agent
\* is refused in either mode, with the nonce gone and without a denial logged.
ConsumeCallNonce(c) ==
  LET r == Req(c) IN
    /\ SigAt(c, "checked")
    /\ IF Spent(r) THEN Reject(c) /\ UNCHANGED nonces
       ELSE /\ nonces' = nonces \cup {[agent |-> r.agent, nonce |-> NonceKey(r), exp |-> NonceExp(r)]}
            /\ IF BodyBinding(r)
                 THEN sig' = [sig EXCEPT ![c].stage = "verified", ![c].spentAt = sclock]
                 ELSE SigEnd(c, "refused")
            /\ UNCHANGED denials
    /\ UNCHANGED <<sclock, enforce, unrevoked, checksum>>

----------------------------------------------------------------------------
(* The rest of the server.                                                 *)

InFlight == {c \in SigCalls : sig[c].stage \in {"arrived", "read", "checked"}}

\* update_agent_checksum.
RotateChecksum(a, d) ==
  /\ checksum[a] # d
  /\ checksum' = [checksum EXCEPT ![a] = d]
  /\ sig' = [c \in SigCalls |->
       IF c \in InFlight /\ Req(c).agent = a THEN [sig[c] EXCEPT !.digests = @ \cup {d}] ELSE sig[c]]
  /\ UNCHANGED <<sclock, enforce, unrevoked, nonces, denials>>

\* revoke_agent.
RevokeSigner(a) ==
  /\ a \in unrevoked
  /\ unrevoked' = unrevoked \ {a}
  /\ UNCHANGED <<sclock, enforce, checksum, nonces, sig, denials>>

\* The rows prune_call_nonces deletes.
Expired == {n \in nonces : n.exp < sclock}

\* spawn_background_gc.
PruneCallNonces ==
  /\ Expired # {}
  /\ nonces' = nonces \ Expired
  /\ UNCHANGED <<sclock, enforce, unrevoked, checksum, sig, denials>>

SigTick ==
  /\ sclock < SigLast
  /\ sclock' = sclock + 1
  /\ UNCHANGED <<enforce, unrevoked, checksum, nonces, sig, denials>>

SigInit ==
  /\ sclock = 0
  /\ enforce \in BOOLEAN
  /\ unrevoked = Signers
  /\ checksum \in [Signers -> Digests]
  /\ nonces = {}
  /\ sig = [c \in SigCalls |-> NoSig]
  /\ denials = {}

SigNext ==
  \/ \E c \in SigCalls :
       \/ \E r \in SigRequests : SigArrive(c, r)
       \/ TryVerifyCallSig(c) \/ VerifyProofOf(c) \/ CheckContext(c) \/ Malformed(c)
       \/ ConsumeCallNonce(c)
  \/ \E a \in Signers : RevokeSigner(a) \/ \E d \in Digests : RotateChecksum(a, d)
  \/ PruneCallNonces
  \/ SigTick

SigSpec == SigInit /\ [][SigNext]_sigVars

----------------------------------------------------------------------------
(* Properties.                                                             *)

Verified == {c \in SigCalls : SigAt(c, "verified")}

\* What runs as a verified agent was signed with that agent's key, by an agent
\* not revoked when the request arrived, names no other agent in its body, and
\* on the call-signature surface is the body that was signed, under a
\* configuration registered at some moment while the request was handled.
Genuine(c) ==
  LET r == Req(c) IN
    /\ r.key = r.agent /\ ~sig[c].gone /\ r.bodyAgent \in {Nobody, r.agent}
    /\ r.surface = "sig" => r.covers = r.body /\ r.digest \in sig[c].digests

\* A verified call is genuine and acts once: of two verified calls of one agent
\* with one nonce (or one jti), the later consumed it after the nonce of the
\* earlier had expired.  A copy of one request has therefore waited longer than
\* the grace between the check of its timestamp and the INSERT, so that the
\* garbage collection could remove the row of the other (agent.rs
\* require_call_signature, consume_call_nonce; dpop.rs).
GenuineCallsActOnce ==
  /\ \A c \in Verified : Genuine(c)
  /\ \A c, d \in Verified :
       c # d /\ Req(c).agent = Req(d).agent /\ NonceKey(Req(c)) = NonceKey(Req(d)) =>
         \/ sig[c].spentAt > Req(d).ts + Skew + NonceGrace
         \/ sig[d].spentAt > Req(c).ts + Skew + NonceGrace
=============================================================================
