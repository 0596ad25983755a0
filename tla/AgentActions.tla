---------------------------- MODULE AgentActions ----------------------------
(***************************************************************************)
(* Registered agents and the identified action path: the agents table of   *)
(* core/src/agent.rs, the tenant ring rebuilt from it, and                 *)
(* validate_agent_action of core/src/agent_action.rs, which authorises a   *)
(* ring-signed envelope and writes its receipt through ReceiptLedger.      *)
(*                                                                         *)
(* action_challenge stores nothing: it returns the tenant ring, which the  *)
(* agent signs together with the envelope.  The server never compares an   *)
(* envelope with a challenge, so a submission is any envelope with a       *)
(* signature over any ring that contains its agent's key (only the agent   *)
(* holds that key).  ring::verify accepts the signature only for exactly   *)
(* the ring it was made over.                                              *)
(*                                                                         *)
(* Registering and revoking an agent also update agent_group in memory and *)
(* the request log, which no step modelled here reads; both are left out,  *)
(* and so are the connections those handlers hold for single statements.   *)
(***************************************************************************)
EXTENDS ReceiptLedger

CONSTANTS
  Agents,
  AgentTenant,   \* [Agents -> Tenants]: tenant_id of the agent's row
  AgentExpiry    \* [Agents -> Nat]: expires_at of the agent's row

ASSUME AgentAssumption ==
  /\ AgentTenant \in [Agents -> Tenants]
  /\ AgentExpiry \in [Agents -> Nat]
  /\ \A e \in Envelopes : e.agent \in Agents

VARIABLES
  agents,   \* status of each row of `agents`: "none", "active" or "revoked"
  ring,     \* the ring each request's signature was made over
  checked,  \* the requests whose agent row has been read and accepted
  gone      \* history: the agents already revoked when a request arrived

agentVars == <<agents, ring, checked, gone>>
vars == <<clock, nonces, receipts, stage, env, stamp, link, agents, ring, checked, gone>>

AgentTypeOK ==
  /\ TypeOK
  /\ agents \in [Agents -> {"none", "active", "revoked"}]
  /\ ring \in [Requests -> SUBSET Agents]
  /\ checked \subseteq Requests
  /\ gone \in [Requests -> SUBSET Agents]

----------------------------------------------------------------------------
(* The ring a tenant's agents sign over.                                   *)

\* Bug: revoked agents stay in the ring until their lease expires.
ActiveTenantRingBug(t, now) ==
  {a \in Agents : agents[a] # "none" /\ AgentTenant[a] = t /\ AgentExpiry[a] > now}

\* active_tenant_ring: the rows with revoked = 0 and expires_at > now.
ActiveTenantRing(t, now) ==
  {a \in Agents : agents[a] = "active" /\ AgentTenant[a] = t /\ AgentExpiry[a] > now}

----------------------------------------------------------------------------
(* Agent lifecycle.                                                        *)

\* register_agent: a plain INSERT of a fresh agent_id whose lease ends later.
RegisterAgent(a) ==
  /\ agents[a] = "none"
  /\ AgentExpiry[a] > clock
  /\ agents' = [agents EXCEPT ![a] = "active"]
  /\ UNCHANGED <<clock, nonces, receipts, stage, env, stamp, link, ring, checked, gone>>

\* Bug: revoking also "cleans up" the nonces of the replay table.
RevokeAgentBug(a) ==
  /\ agents[a] = "active"
  /\ agents' = [agents EXCEPT ![a] = "revoked"]
  /\ nonces' = {}
  /\ UNCHANGED <<clock, receipts, stage, env, stamp, link, ring, checked, gone>>

\* revoke_agent and revoke_agent_admin: UPDATE agents SET revoked = 1.  No
\* statement ever clears the flag.
RevokeAgent(a) ==
  /\ agents[a] = "active"
  /\ agents' = [agents EXCEPT ![a] = "revoked"]
  /\ UNCHANGED <<clock, nonces, receipts, stage, env, stamp, link, ring, checked, gone>>

----------------------------------------------------------------------------
(* validate_agent_action.                                                  *)

\* The request arrives with envelope e signed over ring S.
Submit(r, e, S) ==
  /\ e.agent \in S
  /\ Receive(r, e)
  /\ ring' = [ring EXCEPT ![r] = S]
  /\ gone' = [gone EXCEPT ![r] = {a \in Agents : agents[a] = "revoked"}]
  /\ UNCHANGED <<agents, checked>>

\* SELECT ... FROM agents WHERE agent_id AND tenant_id, then the checks of
\* `revoked` and `expires_at < now`.
AgentRowOk(r) ==
  LET a == env[r].agent IN
    /\ agents[a] = "active"
    /\ AgentTenant[a] = env[r].tenant
    /\ ~(AgentExpiry[a] < stamp[r])

CheckAgent(r) ==
  /\ stage[r] = "open"
  /\ r \notin checked
  /\ IF AgentRowOk(r)
       THEN checked' = checked \cup {r} /\ UNCHANGED stage
       ELSE MoveTo(r, "failed") /\ UNCHANGED checked
  /\ UNCHANGED <<clock, nonces, receipts, env, stamp, link, agents, ring, gone>>

\* active_tenant_ring is read again, in a statement of its own, and the
\* signature is verified over what it returns.
CheckTenantRing(r) ==
  LET current == ActiveTenantRing(env[r].tenant, stamp[r]) IN
    /\ r \in checked
    /\ IF env[r].agent \in current /\ ring[r] = current
         THEN Pass(r)
         ELSE stage[r] = "open" /\ Fail(r)
    /\ UNCHANGED agentVars

----------------------------------------------------------------------------
(* Specification.                                                          *)

Init ==
  /\ LedgerInit
  /\ agents = [a \in Agents |-> "none"]
  /\ ring = [r \in Requests |-> {}]
  /\ checked = {}
  /\ gone = [r \in Requests |-> {}]

\* What the worker running request r does of its own accord.
Handle(r) ==
  \/ (Acquire(r) \/ Commit(r)) /\ UNCHANGED agentVars
  \/ CheckAgent(r)
  \/ CheckTenantRing(r)

Next ==
  \/ \E a \in Agents : RegisterAgent(a) \/ RevokeAgent(a)
  \/ \E r \in Requests, e \in Envelopes, S \in SUBSET Agents : Submit(r, e, S)
  \/ \E r \in Requests : Handle(r)
  \/ \E r \in Requests : Fail(r) /\ UNCHANGED agentVars
  \/ (Crash \/ Tick) /\ UNCHANGED agentVars

Spec == Init /\ [][Next]_vars

----------------------------------------------------------------------------
(* Properties.                                                             *)

\* No receipt rests on a stale ring: every agent in the ring a stored receipt
\* was signed over belongs to the receipt's tenant, was not yet revoked when
\* the request arrived, and has a lease reaching past the receipt's timestamp,
\* however the checks interleave with registrations and revocations.
ReceiptsFromLiveRing ==
  \A x \in receipts : x.id \in Requests =>
    /\ env[x.id].agent \in ring[x.id]
    /\ \A a \in ring[x.id] : /\ AgentTenant[a] = x.tenant
                             /\ AgentExpiry[a] > x.ts
                             /\ a \notin gone[x.id]
=============================================================================
