--------------------------- MODULE MCAnonActions ----------------------------
(* Instances of AnonActions for TLC: two rings, two agents.                  *)
EXTENDS AnonActions, TLC

CONSTANTS m1, m2, g1, g2, t1, n1, n2, u1, r1, pay, d1

\* A rule with a cap, and one that permits nothing.
Capped == [actions |-> {pay}, digests |-> {d1}, caps |-> {0}]
Closed == [actions |-> {}, digests |-> {}, caps |-> {}]

MCSetUpRules == [g \in Rings |-> IF g = g1 THEN <<Capped>> ELSE <<>>]
MCSetUpMembers == [g \in Rings |-> IF g = g1 THEN {m1} ELSE {}]

\* Envelopes of one pseudonym in ring g1 that expire at different times, and one
\* that also names g2.
InOneRing(n, e) ==
  [rings |-> <<g1>>, signers |-> <<m1>>, action |-> pay, digest |-> d1,
   nonce |-> n, tenant |-> t1, exp |-> e]
MCOneRing == {InOneRing(n1, 1), InOneRing(n2, 2)}
MCTwoRings ==
  {InOneRing(n1, 1),
   [InOneRing(n2, 1) EXCEPT !.rings = <<g1, g2>>, !.signers = <<m1, m2>>]}
MCEnvelopes == MCTwoRings \cup MCOneRing
MCReportBodies == {[receipt |-> r1, nonce |-> u1, amount |-> 1]}
MCRules == {Capped, Closed}

\* Either one submission naming up to two rings against the operator's changes of
\* rules and members, within a second, or two submissions and two copies of a
\* usage report of one pseudonym of one ring, whose rule does not change and whose
\* member leaves, if at all, after the reported receipt.
MCFocus ==
  \/ /\ clock = 0
     /\ \A r \in Requests : stage[r] # "idle" => r = r1 /\ env[r] \in MCTwoRings
     /\ \A p \in Reports : report[p].stage = "idle"
  \/ /\ rules = SetUpRules
     /\ members[g2] = {}
     /\ members[g1] = {m1} \/ (stage[r1] = "done" /\ members[g1] = {})
     /\ \A r \in Requests : stage[r] # "idle" =>
          env[r] \in MCOneRing /\ lists[r][1] \subseteq {m1}

\* No definition of the model tells the reports apart.
MCSymmetry == Permutations(Reports)
=============================================================================
