----------------------------- MODULE MCIdentity -----------------------------
(* The identity services, for TLC: consents with the calls of agents, user  *)
(* accounts, and the registry of agents.  Each keeps tables of its own, so   *)
(* a behaviour explores one: `part` says which, the others keep their        *)
(* initial state.                                                            *)
EXTENDS Consents, UserAccounts, AgentRegistry, TLC

CONSTANTS a1, u1, u2, s1, s2, j1, j2, q1, m1, c1, c2, p1, p2, p3, b1, b2, k1, k2,
          l1, l2, t1, t2, y1, y2, read, pay, f1, i1

VARIABLE part

----------------------------------------------------------------------------
(* One consent, two sites, two A-JWTs of one agent.                          *)

PayIntent == [scope |-> {"payment_initiation"}, max |-> 1, currency |-> "EUR",
              allowlist |-> TRUE, merchants |-> {m1}]
MCAgentEnd == [a \in CallAgents |-> 1]
MCAgentOwner == [a \in CallAgents |-> u1]
MCBank == [a \in CallAgents |-> "delegated_bank"]
MCAjwts ==
  {[jti |-> j1, agent |-> a1, sub |-> u1, exp |-> 0, intent |-> PayIntent],
   [jti |-> j2, agent |-> a1, sub |-> u1, exp |-> 1, intent |-> PayIntent]}
MCOrders ==
  {[action |-> "payment_initiation", amount |-> 1, currency |-> "EUR", merchant |-> m1, request |-> q1]}

\* Either consents with one agent call, or two agent calls without consents, the
\* first a payment or a consent; retrievals come when the agent's call is over.
ConsentFocus ==
  /\ credits[s2] = 0
  /\ call[c1] = Fresh => call[c2] = Fresh
  /\ call[c1] \notin {Fresh, Lost} => call[c1].pop = p1 /\ call[c1].kind \in {"payment", "consent"}
  /\ \/ /\ \A q \in ConsentIds : ~Stored(q)
        /\ \A s \in Sites : credits[s] = 0
     \/ /\ call[c2] = Fresh
        /\ \A q \in ConsentIds : Stored(q) => consent[q].site = s1
        /\ \A p \in pops : p.id = p1
        /\ call[c1] \notin {Fresh, Lost} => call[c1].kind = "consent"
        /\ \A r \in Retrievals : retr[r] \notin {Fresh, Lost} =>
             retr[r].ajwt.jti = j2 /\ call[c1].stage \in {"idle", "done", "failed"}

----------------------------------------------------------------------------
(* Two users, two bank attestations for the first one (with different keys), *)
(* four partner enrolments.                                                  *)

MCAttestations ==
  {[id |-> b1, tenant |-> t1, user |-> u1, pk |-> p1, auth |-> k1, customer |-> b1, until |-> 1],
   [id |-> b2, tenant |-> t1, user |-> u1, pk |-> p2, auth |-> k2, customer |-> b1, until |-> 0]}
MCOwnPoint == [u \in People |-> IF u = u1 THEN p1 ELSE p3]
MCEnrolments ==
  {[tenant |-> t1, user |-> u1, pk |-> p2, auth |-> None, commitment |-> l1],
   [tenant |-> t1, user |-> u2, pk |-> p3, auth |-> k2, commitment |-> l2],
   [tenant |-> t1, user |-> u2, pk |-> p3, auth |-> None, commitment |-> BadLeaf],
   [tenant |-> t1, user |-> u2, pk |-> p3, auth |-> None, commitment |-> None]}

\* Bounds: two Merkle leaves; only the first user signs in, with the challenges
\* in order or once by password, and no partner registers meanwhile; nobody registers while a
\* credential is claimed; time does not pass in a run with a restart, a refused
\* registration or a leaf; after a start that missed a user only the bank
\* registers; a behaviour ends where a leaf and its row part.
SigningIn == sessions # {} \/ \E c \in Challenges : challenge[c] # None
AccountFocus ==
  /\ Len(leaves) <= 2
  /\ clock # 0 => restarts = 0 /\ leaves = <<>> /\ \A u \in People : lastWriter[u] # "refused"
  /\ ~disordered
  /\ (\E u \in People : lastWriter[u] = "unloaded") =>
       ~SigningIn /\ \A w \in Workers : job[w].stage # "signed"
  /\ SigningIn => /\ leaves = <<>> /\ directory[u2] = None
                  /\ \A w \in Workers : job[w].stage \notin {"signed", "committed"}
  /\ \A c \in Challenges : challenge[c] # None => challenge[c].user = u1
  /\ (\E s \in sessions : s.challenge = None) =>
       Cardinality(sessions) = 1 /\ clock = 0 /\ \A c \in Challenges : challenge[c] = None
  /\ challenge[c2] # None => challenge[c1] # None \/ \E s \in sessions : s.challenge = c1
  /\ claimed # {} => Cardinality(sessions) = 1 /\ clock = 0 /\ Cardinality(spent) < 2
                     /\ \A w \in Workers : job[w].stage # "attested"
  /\ \A v, w \in Workers : job[v].stage \in {"claiming", "asking"} =>
       job[w].stage \in {"idle", "claiming", "asking"} /\ Cardinality(spent) < 2

----------------------------------------------------------------------------
(* One human, two keys, an attested and two plain registrations (one of them *)
(* delegated), a request for a credential.                                   *)

\* The owner signs a mandate for one scope, or none.
Registration(t, key, scope, parent, chal, signed) ==
  [realm |-> t, human |-> u1, key |-> key, scope |-> scope, parent |-> parent, cfg |-> f1,
   chal |-> chal, mandate |-> IF signed = NoRow THEN NoRow
                              ELSE [realm |-> t, human |-> u1, key |-> key, scope |-> signed]]
\* The last asks for more than its owner signed, and is refused.
MCRegistrations ==
  {Registration(t1, y1, {read}, NoRow, q1, {read}),
   Registration(t1, y1, {read, pay}, NoRow, NoRow, NoRow),
   Registration(t1, y2, {pay}, i1, NoRow, {pay}),
   Registration(t2, y1, {read}, NoRow, NoRow, NoRow),
   Registration(t1, y2, {read, pay}, NoRow, NoRow, {read})}
MCVcRequests ==
  {[realm |-> t1, human |-> u1, key |-> y1, scope |-> {read}, cfg |-> f1, proof |-> proof] :
     proof \in BOOLEAN}

\* Bounds: two agents (one with an attestation), two rotations of a single agent and no registration
\* meanwhile; rotations and issued credentials combine, but neither with hardware
\* attestations, a second realm or a fault; one request at a time after a fault;
\* no restart with the passing of time or an issued credential; a human with
\* agents stays verified.
VcActive == replaced # {} \/ \E a \in VcIds : agents[a] # NoRow
RotationActive == trail # <<>> \/ \E a \in AgentIds : Rotating(a) # {} \/ cut[a] # 0
SecondRealm == \E a \in Rows : agents[a].realm = t2
Faulty == kept \cup orphaned # {}
RegistryFocus ==
  /\ Cardinality(Rows) <= 2
  /\ \A a \in AgentIds : cut[a] + Len(trail) <= 2
  /\ RotationActive => /\ Cardinality(Rows) = 1 /\ rtime = 0
                       /\ VcActive => trail = <<>>
                       /\ \A k \in Tasks : task[k].step \notin
                            {"challenged", "attestOk", "keyFree", "linked", "approved"}
  /\ SecondRealm \/ Faulty =>
       rtime = 0 /\ ~VcActive /\ ~RotationActive /\ attests[q1] = NoRow
  /\ Faulty => Cardinality({k \in Tasks : task[k] # NoTask}) <= 1
  /\ attests[q1] # NoRow => /\ ~VcActive /\ ~RotationActive /\ boots = 0 /\ Cardinality(Rows) <= 1
                            /\ attests[q1].realm = t1 /\ attests[q1].key = y1
  /\ VcActive => Cardinality(Rows \cup replaced) <= 2
  /\ verified = {} => boots = 0 /\ rtime = 0 /\ ~RotationActive /\ attests[q1] = NoRow
  /\ boots # 0 => rtime = 0 /\ ~VcActive
  /\ Rows # {} => verified # {}

----------------------------------------------------------------------------
Parts == {"consents", "accounts", "registry"}

MCInit == part \in Parts /\ ConsentInit /\ AccountInit /\ RegistryInit

MCNext ==
  /\ UNCHANGED part
  /\ \/ part = "consents" /\ ConsentNext /\ UNCHANGED <<accountVars, registryVars>>
     \/ part = "accounts" /\ AccountNext /\ UNCHANGED <<claimVars, registryVars>>
     \/ part = "registry" /\ RegistryNext /\ UNCHANGED <<claimVars, accountVars>>

MCFocus ==
  CASE part = "consents" -> ConsentFocus
    [] part = "accounts" -> AccountFocus
    [] part = "registry" -> RegistryFocus

\* The same two requests serve every part.
MCSymmetry == Permutations(Workers)
=============================================================================
