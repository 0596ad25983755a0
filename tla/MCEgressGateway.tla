-------------------------- MODULE MCEgressGateway ---------------------------
(* Instances of EgressGateway for TLC: two targets, one of them on the       *)
(* allowlist of every agent.                                                 *)
EXTENDS EgressGateway, TLC

CONSTANTS a1, a2, t1, n1, n2, u1, u2

MCAgentTenant == [a \in Agents |-> t1]
MCAgentExpiry == [a \in Agents |-> 3]
MCAllowed == [url |-> u1, rest |-> "get"]
MCTargets == {MCAllowed, [url |-> u2, rest |-> "get"]}
MCAllowlist == [a \in Agents |-> {MCAllowed}]

\* An envelope of a1 whose A-JWT ends before it, and one that ends before its
\* A-JWT.
MCEnvelopes ==
  {[agent |-> a1, nonce |-> n1, tenant |-> t1, exp |-> 2, ajwtExp |-> 1, url |-> u1],
   [agent |-> a1, nonce |-> n2, tenant |-> t1, exp |-> 1, ajwtExp |-> 2, url |-> u1]}

\* Either one agent with two issuances and two calls of the proxy, the first after
\* a capability was issued, or one issuance and one call, of either agent, until
\* the capability has expired, at first with a report about the target that is
\* allowed.
\* Only a1 asks for capabilities.
MCFocus ==
  LET issued == {r \in Requests : issue[r].phase # "none"}
      called == {c \in Calls : call[c] # NoCall} IN
    /\ \A r \in issued : issue[r].agent = a1
    /\ \A x \in Reported : /\ x.agent = a1 /\ x.target = MCAllowed
                           /\ clock = 0 /\ agents[a2] = "none"
    /\ \/ /\ clock <= 1 /\ agents[a2] = "none" /\ Reported = {}
          /\ \A r \in issued : ring[r] \subseteq {a1}
          /\ \A c \in called : call[c] # Ended => call[c].agent = a1
          /\ called # {} => \E r \in issued : issue[r].phase = "issued"
       \/ Cardinality(issued) <= 1 /\ Cardinality(called) <= 1

\* No definition of the model tells requests, or calls, apart.
MCSymmetry == Permutations(Requests) \cup Permutations(Calls)
=============================================================================
