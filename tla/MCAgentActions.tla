--------------------------- MODULE MCAgentActions ---------------------------
(* Instances of AgentActions for TLC: two agents of one tenant, one of them  *)
(* with a lease that ends while envelopes may still be valid, and an agent   *)
(* of another tenant.                                                        *)
EXTENDS AgentActions, TLC

CONSTANTS a1, a2, a3, t1, t2, n1, n2

MCAgentTenant == [a \in Agents |-> IF a = a3 THEN t2 ELSE t1]
MCAgentExpiry == [a \in Agents |-> IF a = a1 THEN 2 ELSE 3]

\* One envelope of each agent, and one presented under a foreign tenant.
MCEnvelopes == {[agent |-> a1, nonce |-> n1, tenant |-> t1, exp |-> 1],
                [agent |-> a2, nonce |-> n2, tenant |-> t1, exp |-> 2],
                [agent |-> a1, nonce |-> n1, tenant |-> t2, exp |-> 1],
                [agent |-> a3, nonce |-> n2, tenant |-> t2, exp |-> 2]}

\* Two envelopes of one agent that expire at different times.
MCOneAgent == {[agent |-> a2, nonce |-> n1, tenant |-> t1, exp |-> 1],
               [agent |-> a2, nonce |-> n2, tenant |-> t1, exp |-> 2]}

\* Bound: the agent of the other tenant is not revoked, and is registered in place
\* of a2.  Signatures are over the agents of one tenant.
MCFocus ==
  /\ agents[a3] # "revoked" /\ (agents[a3] = "active" => agents[a2] = "none")
  /\ \A r \in Requests : ring[r] \subseteq {a1, a2} \/ ring[r] = {a3}

MCSymmetry == Permutations(Requests)
=============================================================================
