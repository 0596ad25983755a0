------------------------------ MODULE Consents ------------------------------
(***************************************************************************)
(* Consents to disclose KYC claims: kyc_request, kyc_consent and           *)
(* agent_kyc_consent grant them, user_revoke_consent withdraws them, and   *)
(* kyc_retrieve, behind delegated_agent_binding_middleware, uses them.     *)
(*                                                                         *)
(* kyc_retrieve consumes the consent token first, charges the site later   *)
(* and checks the rings, the agent's action and its A-JWT after that, so   *)
(* a refusal may cost the token and a credit; what it must never do is     *)
(* disclose twice, to another site, without payment, or on an authority    *)
(* that had ended before it began.  The zero-knowledge proof is verified   *)
(* by the issuer service, whose answer is any.                             *)
(***************************************************************************)
EXTENDS AgentCalls

CONSTANTS
  ConsentIds,     \* request ids of consent_log
  Sites,          \* clients registered as ZKP_ONLY
  Users,          \* registered users, in user_group
  Retrievals,     \* calls of /kyc/retrieve
  ConsentLife,    \* lifetime of a granted token (300 s)
  CreditCap,      \* bound on the credits a site ever buys
  NoAgent,        \* issuing_agent_id of a consent the user gave
  NoOwner         \* user_key_image of a row that is not granted

ASSUME ConsentAssumption ==
  /\ ConsentLife \in Nat /\ CreditCap \in Nat
  /\ NoAgent \notin CallAgents /\ NoOwner \notin Users
  /\ \A o \in Orders : o.request \in ConsentIds

VARIABLES
  consent,    \* rows of consent_log, by request id
  credits,    \* clients.tokens_b
  charges,    \* credits taken from each site
  retr,       \* progress of each retrieval
  disclosure  \* claims handed out: [retrieval, consent, site]

consentVars == <<consent, credits, charges, retr, disclosure>>
claimVars == <<now, live, usedJtis, pops, call, receipts, payments,
               consent, credits, charges, retr, disclosure>>

Absent == [site |-> "none"]
NoBinding == [agent |-> NoAgent]

Stored(q) == consent[q] # Absent
AtRetr(r, s) == retr[r].stage = s
GotoRetr(r, s) == retr' = [retr EXCEPT ![r] = IF s = "failed" THEN Lost ELSE [@ EXCEPT !.stage = s]]
RowOf(r) == consent[retr[r].consent]

----------------------------------------------------------------------------
(* Opening, granting and withdrawing.                                      *)

\* kyc_request of a ZKP_ONLY site.  The +600 s it answers are not stored.
KycRequest(q, s) ==
  /\ ~Stored(q)
  /\ consent' = [consent EXCEPT ![q] =
       [site |-> s, owner |-> NoOwner, agent |-> NoAgent, granted |-> FALSE, exp |-> 0,
        used |-> FALSE, revoked |-> FALSE]]
  /\ UNCHANGED callVars
  /\ UNCHANGED <<credits, charges, retr, disclosure>>

\* The WHERE clause of grant_consent_token.
Grantable(q) == Stored(q) /\ ~consent[q].granted /\ ~consent[q].revoked /\ ~consent[q].used

GrantToken(q, u, a) ==
  consent' = [consent EXCEPT ![q] =
    [@ EXCEPT !.owner = u, !.agent = a, !.granted = TRUE, !.exp = now + ConsentLife]]

\* kyc_consent: the user authenticates; the conditional update decides a race,
\* so that the read before it adds nothing.
KycConsent(q, u) ==
  /\ Grantable(q)
  /\ GrantToken(q, u, NoAgent)
  /\ UNCHANGED callVars
  /\ UNCHANGED <<credits, charges, retr, disclosure>>

\* agent_kyc_consent after the challenge: the level may issue consents and the
\* request is open, ungranted and of the site the call names.
DecideConsent(c) ==
  /\ AtStage(c, "popTaken")
  /\ call[c].kind = "consent"
  /\ Goto(c, IF /\ Matrix(AgentLevel[AgentOf(c)]) # {}
                /\ Grantable(call[c].order.request)
             THEN "decided" ELSE "failed")
  /\ UNCHANGED <<now, live, usedJtis, pops, receipts, payments>>
  /\ UNCHANGED consentVars

\* The receipt is stored and the jti spent; grant_consent_token may still lose.
GrantByAgent(c) ==
  /\ AtStage(c, "spent")
  /\ call[c].kind = "consent"
  /\ IF Grantable(call[c].order.request)
       THEN /\ GrantToken(call[c].order.request, call[c].ajwt.sub, AgentOf(c))
            /\ Goto(c, "done")
       ELSE UNCHANGED consent /\ Goto(c, "failed")
  /\ UNCHANGED <<now, live, usedJtis, pops, receipts, payments>>
  /\ UNCHANGED <<credits, charges, retr, disclosure>>

\* user_revoke_consent: any row of the session's user, used or not.
RevokeConsent(q, u) ==
  /\ Stored(q) /\ consent[q].owner = u
  /\ consent' = [consent EXCEPT ![q].revoked = TRUE]
  /\ UNCHANGED callVars
  /\ UNCHANGED <<credits, charges, retr, disclosure>>

\* dev_buy_tokens, admin_add_credits: bounded here.
BuyCredit(s) ==
  /\ credits[s] + charges[s] < CreditCap
  /\ credits' = [credits EXCEPT ![s] = @ + 1]
  /\ UNCHANGED callVars
  /\ UNCHANGED <<consent, charges, retr, disclosure>>

----------------------------------------------------------------------------
(* Retrieval.                                                              *)

\* Somebody presents the token of consent q for site s, with an A-JWT.
Present(r, q, s, t) ==
  /\ retr[r] = Fresh
  /\ Stored(q)
  /\ retr' = [retr EXCEPT ![r] =
       [stage |-> "arrived", consent |-> q, site |-> s, ajwt |-> t, at |-> 0, binding |-> NoBinding,
        gone |-> CallAgents \ live, withdrawn |-> consent[q].revoked]]
  /\ UNCHANGED callVars
  /\ UNCHANGED <<consent, credits, charges, disclosure>>

\* The middleware's conditions on a consent an agent issued.
BindingOk(r, a) ==
  LET t == retr[r].ajwt IN
    /\ now <= t.exp /\ t.agent = a /\ t.sub = RowOf(r).owner
    /\ a \in live /\ AgentEnd[a] >= now /\ AgentOwner[a] = t.sub

\* delegated_agent_binding_middleware: the consent is not revoked, and one that
\* an agent issued is presented by that agent, in force, for its owner.
Bind(r) ==
  /\ AtRetr(r, "arrived")
  /\ LET w == RowOf(r) IN
       IF ~w.granted \/ w.revoked THEN GotoRetr(r, "failed")
       ELSE IF w.agent = NoAgent
         THEN retr' = [retr EXCEPT ![r].stage = "bound", ![r].at = now]
         ELSE IF BindingOk(r, w.agent)
           THEN retr' = [retr EXCEPT ![r].stage = "bound", ![r].at = now,
                  ![r].binding = [agent |-> w.agent, sub |-> retr[r].ajwt.sub]]
           ELSE GotoRetr(r, "failed")
  /\ UNCHANGED callVars
  /\ UNCHANGED <<consent, credits, charges, disclosure>>

\* Bug: the update that flips token_used does not ask for token_used = 0.
TokenUsableTwice(r) == RowOf(r).granted /\ ~RowOf(r).revoked /\ RowOf(r).exp > retr[r].at

\* Bug: it does not ask for revoked = 0, which the middleware has read before.
TokenUsableRevoked(r) == RowOf(r).granted /\ ~RowOf(r).used /\ RowOf(r).exp > retr[r].at

\* The WHERE clause of consume_consent_token.
TokenUsable(r) ==
  /\ RowOf(r).granted /\ ~RowOf(r).used /\ ~RowOf(r).revoked
  /\ RowOf(r).exp = 0 \/ RowOf(r).exp > retr[r].at

\* consume_consent_token, then the site and the binding are compared: the token
\* is spent even when they differ.
ClaimToken(r) ==
  /\ AtRetr(r, "bound")
  /\ IF TokenUsable(r)
       THEN /\ consent' = [consent EXCEPT ![retr[r].consent].used = TRUE]
            /\ LET w == RowOf(r) IN
                 GotoRetr(r, IF /\ w.site = retr[r].site
                                /\ w.agent # NoAgent =>
                                     retr[r].binding = [agent |-> w.agent, sub |-> w.owner]
                             THEN "claimed" ELSE "failed")
       ELSE GotoRetr(r, "failed") /\ UNCHANGED consent
  /\ UNCHANGED callVars
  /\ UNCHANGED <<credits, charges, disclosure>>

\* Rate and jurisdiction pass, the issuer confirms the proof, and it covers the
\* claims that were asked for; otherwise AbandonRetr.
VerifyProof(r) ==
  /\ AtRetr(r, "claimed")
  /\ GotoRetr(r, "proved")
  /\ UNCHANGED callVars
  /\ UNCHANGED <<consent, credits, charges, disclosure>>

\* UPDATE clients SET tokens_b = tokens_b - 1 WHERE tokens_b > 0.  The rows of
\* api_usage and user_registrations that follow are best effort, and no decision
\* reads them.
Charge(r) ==
  /\ AtRetr(r, "proved")
  /\ LET s == retr[r].site IN
       IF credits[s] > 0
         THEN /\ credits' = [credits EXCEPT ![s] = @ - 1]
              /\ charges' = [charges EXCEPT ![s] = @ + 1]
              /\ GotoRetr(r, "charged")
         ELSE GotoRetr(r, "failed") /\ UNCHANGED <<credits, charges>>
  /\ UNCHANGED callVars
  /\ UNCHANGED <<consent, disclosure>>

\* Ring membership of the owner, and of the agent whose row is still active,
\* then the matrix for the action the agent is to perform.
CheckTrust(r) ==
  /\ AtRetr(r, "charged")
  /\ LET a == RowOf(r).agent IN
       GotoRetr(r, IF /\ RowOf(r).owner \in Users
                      /\ a # NoAgent => a \in live /\ AuthorizeAction(AgentLevel[a], "prove_age")
                   THEN "trusted" ELSE "failed")
  /\ UNCHANGED callVars
  /\ UNCHANGED <<consent, credits, charges, disclosure>>

Disclose(r) ==
  /\ GotoRetr(r, "done")
  /\ disclosure' = disclosure \cup {[retr |-> r, consent |-> retr[r].consent, site |-> retr[r].site]}

\* A consent the user gave: the claims are returned.
DiscloseToSite(r) ==
  /\ AtRetr(r, "trusted")
  /\ RowOf(r).agent = NoAgent
  /\ Disclose(r)
  /\ UNCHANGED callVars
  /\ UNCHANGED <<consent, credits, charges>>

\* validate_agent_action stores the agent's receipt.
RecordRetr(r) ==
  /\ AtRetr(r, "trusted")
  /\ RowOf(r).agent # NoAgent
  /\ GotoRetr(r, IF RowOf(r).agent \in live THEN "recorded" ELSE "failed")
  /\ UNCHANGED callVars
  /\ UNCHANGED <<consent, credits, charges, disclosure>>

\* consume_ajwt_jti with the A-JWT of the binding; only then claims are returned.
DiscloseViaAgent(r) ==
  /\ AtRetr(r, "recorded")
  /\ LET t == retr[r].ajwt
         kept == {u \in usedJtis : u.exp >= now} IN
       IF \E u \in kept : u.jti = t.jti
         THEN GotoRetr(r, "failed") /\ UNCHANGED <<usedJtis, disclosure>>
         ELSE usedJtis' = kept \cup {[jti |-> t.jti, exp |-> t.exp]} /\ Disclose(r)
  /\ UNCHANGED <<now, live, pops, call, receipts, payments>>
  /\ UNCHANGED <<consent, credits, charges>>

\* Every other refusal, and a crash: token and credit stay spent.
AbandonRetr(r) ==
  /\ retr[r].stage \notin {"idle", "done", "failed"}
  /\ GotoRetr(r, "failed")
  /\ UNCHANGED callVars
  /\ UNCHANGED <<consent, credits, charges, disclosure>>

----------------------------------------------------------------------------
Retrieve(r) ==
  \/ \E q \in ConsentIds, s \in Sites, t \in Ajwts : Present(r, q, s, t)
  \/ Bind(r) \/ ClaimToken(r) \/ VerifyProof(r) \/ Charge(r) \/ CheckTrust(r)
  \/ DiscloseToSite(r) \/ RecordRetr(r) \/ DiscloseViaAgent(r) \/ AbandonRetr(r)

ConsentStep ==
  \/ \E q \in ConsentIds, s \in Sites : KycRequest(q, s)
  \/ \E q \in ConsentIds, u \in Users : KycConsent(q, u) \/ RevokeConsent(q, u)
  \/ \E c \in CallIds : DecideConsent(c) \/ GrantByAgent(c)
  \/ \E s \in Sites : BuyCredit(s)

ConsentInit ==
  /\ CallInit
  /\ consent = [q \in ConsentIds |-> Absent]
  /\ credits = [s \in Sites |-> 0]
  /\ charges = [s \in Sites |-> 0]
  /\ retr = [r \in Retrievals |-> Fresh]
  /\ disclosure = {}

ConsentNext ==
  \/ CallNext /\ UNCHANGED consentVars
  \/ ConsentStep
  \/ \E r \in Retrievals : Retrieve(r)

ConsentSpec == ConsentInit /\ [][ConsentNext]_claimVars

----------------------------------------------------------------------------
(* Properties.                                                             *)

\* Claims go to the site the consent names, on a consent not withdrawn when the
\* request for them arrived and, when an agent gave it, through that agent, not
\* revoked by then; each consent is disclosed once, and never for free: the site
\* has paid a credit for every disclosure (kyc_retrieve).
DisclosureIsAuthorised ==
  /\ \A d \in disclosure :
       LET w == consent[d.consent]
           p == retr[d.retr] IN
         /\ w.granted /\ w.site = d.site /\ ~p.withdrawn
         /\ w.agent # NoAgent =>
              /\ p.ajwt.agent = w.agent /\ p.ajwt.sub = w.owner
              /\ w.agent \notin p.gone
         /\ \A e \in disclosure : e.consent = d.consent => e = d
  /\ \A s \in Sites : Cardinality({d \in disclosure : d.site = s}) <= charges[s]

\* consent_log keeps the promise: granted once, used once, disclosed once, and
\* not used after it was withdrawn.
Promise ==
  INSTANCE ConsentPromise WITH
    Ids <- ConsentIds,
    open <- {q \in ConsentIds : Stored(q)},
    granted <- {q \in ConsentIds : Stored(q) /\ consent[q].granted},
    withdrawn <- {q \in ConsentIds : Stored(q) /\ consent[q].revoked},
    used <- {q \in ConsentIds : Stored(q) /\ consent[q].used},
    disclosed <- {d.consent : d \in disclosure}

\* The consents implement ConsentPromise, under the mapping above.
KeepsPromise == Promise!PromiseSpec
=============================================================================
