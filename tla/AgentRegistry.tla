--------------------------- MODULE AgentRegistry ---------------------------
(***************************************************************************)
(* The registry of agents (agent.rs, agent_checksum.rs, admin.rs, and      *)
(* agent_vc_issue in main.rs): delegated registration, self-sovereign      *)
(* issuance, revocation, rotation of the registered configuration and the  *)
(* in-memory ring of agents that follows the table.                        *)
(*                                                                         *)
(* A task is one request.  Its statements autocommit on pooled             *)
(* connections and are separate steps; the ring is changed under the       *)
(* state's write lock, after the row.                                      *)
(***************************************************************************)
EXTENDS Naturals, FiniteSets, Sequences

CONSTANTS Tasks,
          Ids,          \* random identifiers of registered agents
          Realms,       \* tenants: they share the ring, and keys are unique in each
          Humans,       \* owners, by key image
          AgentKeys,    \* an agent's key pair: ring key, key image and PoP key
          Scopes,
          Configs,      \* checksums of typed configurations
          Registrations,\* requests: [realm, human, key, scope, parent, cfg, chal, mandate]
          VcRequests,   \* requests: [realm, human, key, scope, cfg, proof]
          RequireMandate,\* SAURON_REQUIRE_OWNER_MANDATE, the default in production
          AttestIds,    \* attestation challenges
          NoRow,        \* an absent row or field
          VcCap,        \* active credentials per human (10)
          MaxDelegation,\* policy::MAX_DELEGATION_DEPTH
          LeaseTtl,     \* how long an agent lives
          RegLast,      \* bound: the last value of the clock
          RegRestarts   \* bound: restarts of the server

\* agent_vc_issue derives the identifier from owner, checksum and second.
VcIds == Humans \X Configs \X (0..RegLast)
AgentIds == Ids \cup VcIds

\* A row of table agents.
AgentRow == [realm: Realms, human: Humans, key: AgentKeys, scope: SUBSET Scopes,
             parent: AgentIds \cup {NoRow}, depth: Nat, cfg: Configs, exp: Nat, revoked: BOOLEAN]

ASSUME RegistryAssumption ==
    /\ VcCap \in Nat \ {0} /\ MaxDelegation \in Nat /\ LeaseTtl \in Nat
    /\ RegLast \in Nat /\ RegRestarts \in Nat /\ RequireMandate \in BOOLEAN
    /\ \A r \in Registrations \cup VcRequests :
         /\ r.realm \in Realms /\ r.human \in Humans /\ r.key \in AgentKeys
         /\ r.scope \subseteq Scopes /\ r.cfg \in Configs
    /\ \A r \in Registrations :
         r.parent \in AgentIds \cup {NoRow} /\ r.chal \in AttestIds \cup {NoRow}
    /\ Ids \cap VcIds = {}
    /\ NoRow \notin AgentIds \cup AttestIds \cup AgentRow \cup [cfg: Configs, version: Nat]

VARIABLES rtime,
          agents,     \* table agents
          inputs,     \* table agent_checksum_inputs
          trail,      \* table agent_checksum_audit
          vcRows,     \* table agent_vcs: the expiry of each credential
          attests,    \* table agent_attestation_challenges
          verified,   \* humans with a row in bank_kyc_links
          group,      \* ServerState::agent_group
          task,
          boots,
          attested,   \* history: the agents each challenge vouched for
          raced,      \* history: keys whose ring entry two tasks changed at once
          kept,       \* history: keys a revocation could not read
          orphaned,   \* history: keys left out by a fault, or dropped for somebody else
          overlapped, \* history: agents two rotations of which overlapped
          cut,        \* history: how many rotations of an agent ended half-way
          replaced    \* history: agents whose row another issuance replaced

regTables == <<agents, inputs, trail, vcRows, attests, verified>>
regHistory == <<attested, raced, kept, orphaned, overlapped, cut, replaced>>
registryVars == <<rtime, regTables, group, task, boots, regHistory>>

NoTask == [step |-> "free"]

RegistryInit ==
    /\ rtime = 0
    /\ agents = [a \in AgentIds |-> NoRow]
    /\ inputs = [a \in AgentIds |-> NoRow]
    /\ trail = <<>>
    /\ vcRows = [a \in AgentIds |-> NoRow]
    /\ attests = [c \in AttestIds |-> NoRow]
    /\ verified = {}
    /\ group = {}
    /\ task = [k \in Tasks |-> NoTask]
    /\ boots = 0
    /\ attested = [c \in AttestIds |-> {}]
    /\ raced = {} /\ kept = {} /\ orphaned = {}
    /\ overlapped = {} /\ replaced = {}
    /\ cut = [a \in AgentIds |-> 0]

Rows == {a \in AgentIds : agents[a] # NoRow}
Active == {a \in Rows : ~agents[a].revoked}
Unexpired == {a \in Active : agents[a].exp > rtime}

Step(k, s) == task' = [task EXCEPT ![k].step = s]
Finish(k) == task' = [task EXCEPT ![k] = NoTask]
At(k, s) == task[k].step = s

\* The holders of a key: unique in a realm, by the index on active agents.
Holders(t, key) == {a \in Active : agents[a].realm = t /\ agents[a].key = key}

\* A task that has changed the row of an agent and not yet the ring.
RingPending(key) ==
    {k \in Tasks : task[k].step \in {"rowInserted", "vcInserted", "ringDue", "rowRevoked"}
                   /\ task[k].key = key}

-----------------------------------------------------------------------------
(* agent_attestation_challenge and register_agent.                         *)

IssueAttestChallenge(c, t, h, key) ==
    /\ attests[c] = NoRow /\ attested[c] = {}
    /\ \A k \in Tasks : task[k].step # "free" => task[k].chal # c
    /\ attests' = [d \in AttestIds |->
           IF d = c THEN [realm |-> t, human |-> h, key |-> key, exp |-> rtime + LeaseTtl,
                          used |-> FALSE]
           ELSE IF attests[d] = NoRow THEN NoRow
           ELSE IF attests[d].used \/ attests[d].exp < rtime THEN NoRow ELSE attests[d]]
    /\ UNCHANGED <<rtime, agents, inputs, trail, vcRows, verified, group, task, boots, regHistory>>

ChallengeOpen(c, r) ==
    IF attests[c] = NoRow THEN FALSE
    ELSE /\ attests[c].realm = r.realm /\ attests[c].human = r.human /\ attests[c].key = r.key
         /\ ~attests[c].used /\ attests[c].exp >= rtime

\* verify_owner_mandate: what the owner signed is exactly what is registered.
OwnerMandate(r) ==
    IF r.mandate = NoRow THEN ~RequireMandate
    ELSE r.mandate = [realm |-> r.realm, human |-> r.human, key |-> r.key, scope |-> r.scope]

\* The session, the owner's mandate, the typed checksum and the shape of the
\* request are validated; a hardware attestation needs an open challenge.
BeginRegister(k, r) ==
    /\ task[k] = NoTask
    /\ OwnerMandate(r)
    /\ r.chal # NoRow => ChallengeOpen(r.chal, r)
    /\ task' = [task EXCEPT ![k] =
           [step |-> IF r.chal = NoRow THEN "attestOk" ELSE "challenged", realm |-> r.realm,
            human |-> r.human, key |-> r.key, scope |-> r.scope, parent |-> r.parent,
            cfg |-> r.cfg, chal |-> r.chal, depth |-> 0, id |-> NoRow]]
    /\ UNCHANGED <<rtime, regTables, group, boots, regHistory>>

\* The evidence is verified outside the lock; the conditional UPDATE decides.
ConsumeAttestation(k) ==
    LET c == task[k].chal IN
    /\ At(k, "challenged")
    /\ IF ChallengeOpen(c, task[k])
       THEN attests' = [attests EXCEPT ![c].used = TRUE] /\ Step(k, "attestOk")
       ELSE UNCHANGED attests /\ Finish(k)
    /\ UNCHANGED <<rtime, agents, inputs, trail, vcRows, verified, group, boots, regHistory>>

\* The pre-check does not look at expiry: an expired agent holds its keys
\* until it is revoked.  A count that fails is zero.
CheckKeyFree(k) ==
    /\ At(k, "attestOk")
    /\ \/ Holders(task[k].realm, task[k].key) # {} /\ Finish(k)
       \/ Step(k, "keyFree")
    /\ UNCHANGED <<rtime, regTables, group, boots, regHistory>>

CheckBankLink(k) ==
    /\ At(k, "keyFree")
    /\ IF task[k].human \in verified THEN Step(k, "linked") ELSE Finish(k)
    /\ UNCHANGED <<rtime, regTables, group, boots, regHistory>>

\* assert_child_scopes_subset_of_parent, with the other conditions on a parent.
MayDelegate(p, k) ==
    IF agents[p] = NoRow THEN FALSE
    ELSE /\ agents[p].realm = task[k].realm /\ ~agents[p].revoked
         /\ agents[p].human = task[k].human
         /\ agents[p].scope # {} /\ task[k].scope # {}
         /\ task[k].scope \subseteq agents[p].scope
         /\ agents[p].depth + 1 <= MaxDelegation

\* Bug: any parent of the same human will do.
CheckParentBug(k) ==
    LET p == task[k].parent IN
    /\ At(k, "linked")
    /\ IF p = NoRow
       THEN Step(k, "approved")
       ELSE IF agents[p] # NoRow
       THEN task' = [task EXCEPT ![k].step = "approved", ![k].depth = agents[p].depth + 1]
       ELSE Finish(k)
    /\ UNCHANGED <<rtime, regTables, group, boots, regHistory>>

CheckParent(k) ==
    LET p == task[k].parent IN
    /\ At(k, "linked")
    /\ IF p = NoRow
       THEN Step(k, "approved")
       ELSE IF MayDelegate(p, k)
       THEN task' = [task EXCEPT ![k].step = "approved", ![k].depth = agents[p].depth + 1]
       ELSE Finish(k)
    /\ UNCHANGED <<rtime, regTables, group, boots, regHistory>>

NewRow(k, depth, parent) ==
    [realm |-> task[k].realm, human |-> task[k].human, key |-> task[k].key,
     scope |-> task[k].scope, parent |-> parent, depth |-> depth, cfg |-> task[k].cfg,
     exp |-> rtime + LeaseTtl, revoked |-> FALSE]

\* Ring changes of a key by two tasks at once are remembered.
NoteRace(k, key) == raced' = IF RingPending(key) \ {k} = {} THEN raced ELSE raced \cup {key}

\* A plain INSERT: the unique index on active keys refuses a second agent of the
\* realm.
InsertAgent(k, a) ==
    /\ At(k, "approved")
    /\ a \in Ids \ (Rows \cup replaced) /\ \A m \in Tasks : task[m].step # "free" => task[m].id # a
    /\ IF Holders(task[k].realm, task[k].key) # {}
       THEN Finish(k) /\ UNCHANGED <<agents, attested, raced>>
       ELSE /\ agents' = [agents EXCEPT ![a] = NewRow(k, task[k].depth, task[k].parent)]
            /\ attested' = IF task[k].chal = NoRow THEN attested
                           ELSE [attested EXCEPT ![task[k].chal] = @ \cup {a}]
            /\ task' = [task EXCEPT ![k].step = "rowInserted", ![k].id = a]
            /\ NoteRace(k, task[k].key)
    /\ UNCHANGED <<rtime, inputs, trail, vcRows, attests, verified, group, boots, kept, orphaned,
                   overlapped, cut, replaced>>

PersistInputs(k) ==
    /\ At(k, "rowInserted")
    /\ inputs' = [inputs EXCEPT ![task[k].id] = [cfg |-> task[k].cfg, version |-> 1]]
    /\ Step(k, "ringDue")
    /\ UNCHANGED <<rtime, agents, trail, vcRows, attests, verified, group, boots, regHistory>>

\* Bug: the point of an agent is added to the ring only if it was never there.
JoinGroupBug(k) ==
    /\ At(k, "ringDue")
    /\ group' = IF \E a \in Rows : a # task[k].id /\ agents[a].key = task[k].key
                THEN group ELSE group \cup {task[k].key}
    /\ NoteRace(k, task[k].key)
    /\ Finish(k)
    /\ UNCHANGED <<rtime, regTables, boots, attested, kept, orphaned, overlapped, cut, replaced>>

JoinGroup(k) ==
    /\ At(k, "ringDue")
    /\ group' = group \cup {task[k].key}
    /\ NoteRace(k, task[k].key)
    /\ Finish(k)
    /\ UNCHANGED <<rtime, regTables, boots, attested, kept, orphaned, overlapped, cut, replaced>>

-----------------------------------------------------------------------------
(* agent_vc_issue: trust from the bank link or from a proof, a count and   *)
(* two key look-ups, then INSERT OR REPLACE into agents and agent_vcs.     *)

\* The root of trust: a bank's link, of a human in the user ring, or a proof the
\* issuer accepts.
RootOfTrust(r) == r.human \in verified \/ r.proof

BeginVc(k, r) ==
    /\ task[k] = NoTask
    /\ RootOfTrust(r)
    /\ task' = [task EXCEPT ![k] = [step |-> "vcTrusted", realm |-> r.realm, human |-> r.human,
                                    key |-> r.key, scope |-> r.scope, cfg |-> r.cfg,
                                    chal |-> NoRow, id |-> NoRow]]
    /\ UNCHANGED <<rtime, regTables, group, boots, regHistory>>

\* Revocation does not touch agent_vcs: its own flag is never set.
ActiveVcs(t, h) ==
    {a \in Rows : agents[a].realm = t /\ agents[a].human = h
                  /\ vcRows[a] # NoRow /\ vcRows[a] > rtime}

\* As in CheckKeyFree, a count that fails is zero.
CheckVc(k) ==
    /\ At(k, "vcTrusted")
    /\ \/ /\ \/ Cardinality(ActiveVcs(task[k].realm, task[k].human)) >= VcCap
             \/ Holders(task[k].realm, task[k].key) \cap Unexpired # {}
          /\ Finish(k)
       \/ Step(k, "vcChecked")
    /\ UNCHANGED <<rtime, regTables, group, boots, regHistory>>

\* REPLACE deletes every row the new one conflicts with: the same identifier,
\* which does not depend on the realm, or an active agent with the same key.
Displaced(a, t, key) == {b \in Rows : b = a \/ b \in Holders(t, key)}

InsertVc(k) ==
    LET a == <<task[k].human, task[k].cfg, rtime>>
        gone == Displaced(a, task[k].realm, task[k].key) IN
    /\ At(k, "vcChecked")
    /\ agents' = [b \in AgentIds |-> IF b = a THEN NewRow(k, 0, NoRow)
                                     ELSE IF b \in gone THEN NoRow
                                     ELSE agents[b]]
    /\ replaced' = replaced \cup gone
    /\ raced' = raced \cup {agents[b].key : b \in gone}
                      \cup (IF RingPending(task[k].key) \ {k} = {} THEN {} ELSE {task[k].key})
    /\ task' = [task EXCEPT ![k].step = "vcInserted", ![k].id = a]
    /\ UNCHANGED <<rtime, inputs, trail, vcRows, attests, verified, group, boots, attested,
                   kept, orphaned, overlapped, cut>>

PersistVc(k) ==
    /\ At(k, "vcInserted")
    /\ vcRows' = [vcRows EXCEPT ![task[k].id] = rtime + LeaseTtl]
    /\ Step(k, "ringDue")
    /\ UNCHANGED <<rtime, agents, inputs, trail, attests, verified, group, boots, regHistory>>

-----------------------------------------------------------------------------
(* revoke_agent and revoke_agent_admin: the row, then its ring member.     *)

\* A row may be revoked again, after another agent has taken its key, and one
\* of another realm may have it all the time.
RevokeRow(k, a) ==
    /\ task[k] = NoTask
    /\ a \in Rows
    /\ agents' = [agents EXCEPT ![a].revoked = TRUE]
    /\ task' = [task EXCEPT ![k] = [step |-> "rowRevoked", id |-> a, key |-> agents[a].key,
                                    chal |-> NoRow]]
    /\ raced' = raced \cup {key \in {agents[a].key} : RingPending(key) # {}}
    /\ orphaned' = orphaned \cup {key \in {agents[a].key} :
                                   \E b \in Active \ {a} : agents[b].key = key}
    /\ UNCHANGED <<rtime, inputs, trail, vcRows, attests, verified, group, boots, attested,
                   kept, overlapped, cut, replaced>>

\* The key of the row is read again, and a failed read ends the request.
\* drop_ring_member drops the point whoever else uses it, in every realm; when
\* the row was replaced since, it is the new row's key that is dropped.
DropRingMember(k) ==
    LET a == task[k].id IN
    /\ At(k, "rowRevoked")
    /\ \/ /\ agents[a] # NoRow
          /\ group' = group \ {agents[a].key}
          /\ raced' = raced \cup {key \in {task[k].key} : RingPending(key) \ {k} # {}}
                            \cup ({agents[a].key} \ {task[k].key})
          /\ UNCHANGED kept
       \/ /\ kept' = kept \cup {task[k].key}
          /\ raced' = raced \cup {key \in {task[k].key} : RingPending(key) \ {k} # {}}
          /\ UNCHANGED group
    /\ Finish(k)
    /\ UNCHANGED <<rtime, regTables, boots, attested, orphaned, overlapped, cut, replaced>>

-----------------------------------------------------------------------------
(* update_agent_checksum and rotate_inputs: the owner is checked, the      *)
(* current version read, then three updates.                               *)

Rotating(a) == {k \in Tasks : task[k].step \in {"rotateRead", "rotated", "bound"} /\ task[k].id = a}

BeginRotate(k, a, cfg) ==
    /\ task[k] = NoTask
    /\ a \in Active
    /\ inputs[a] # NoRow
    /\ task' = [task EXCEPT ![k] = [step |-> "rotateRead", id |-> a, cfg |-> cfg, chal |-> NoRow,
                                    from |-> inputs[a].cfg, version |-> inputs[a].version]]
    /\ overlapped' = IF Rotating(a) = {} THEN overlapped ELSE overlapped \cup {a}
    /\ UNCHANGED <<rtime, regTables, group, boots, attested, raced, kept, orphaned, cut, replaced>>

RotateInputs(k) ==
    /\ At(k, "rotateRead")
    /\ inputs' = [inputs EXCEPT ![task[k].id] = [cfg |-> task[k].cfg,
                                                version |-> task[k].version + 1]]
    /\ Step(k, "rotated")
    /\ UNCHANGED <<rtime, agents, trail, vcRows, attests, verified, group, boots, regHistory>>

BindConfig(k) ==
    LET a == task[k].id IN
    /\ At(k, "rotated")
    /\ agents' = IF a \in Rows THEN [agents EXCEPT ![a].cfg = task[k].cfg] ELSE agents
    /\ Step(k, "bound")
    /\ UNCHANGED <<rtime, inputs, trail, vcRows, attests, verified, group, boots, regHistory>>

\* Bug: the trail names the configuration in force when the row is written.
AuditRotationBug(k) ==
    /\ At(k, "bound")
    /\ trail' = Append(trail, [id |-> task[k].id, from |-> inputs[task[k].id].cfg,
                               to |-> task[k].cfg])
    /\ Finish(k)
    /\ UNCHANGED <<rtime, agents, inputs, vcRows, attests, verified, group, boots, regHistory>>

AuditRotation(k) ==
    /\ At(k, "bound")
    /\ trail' = Append(trail, [id |-> task[k].id, from |-> task[k].from, to |-> task[k].cfg])
    /\ Finish(k)
    /\ UNCHANGED <<rtime, agents, inputs, vcRows, attests, verified, group, boots, regHistory>>

-----------------------------------------------------------------------------
(* Failures and the environment.                                           *)

Written == {"rowInserted", "vcInserted"}
HalfRotated(a) == {k \in Tasks : task[k].step \in {"rotated", "bound"} /\ task[k].id = a}

\* A statement fails: the request ends with an error, and what it stored stays.
\* No agent whose inputs or credential were not stored is put into the ring.
StatementFails(k) ==
    /\ task[k].step \notin {"free", "ringDue", "rowRevoked"}
    /\ Finish(k)
    /\ orphaned' = IF task[k].step \in Written THEN orphaned \cup {task[k].key} ELSE orphaned
    /\ cut' = [a \in AgentIds |-> IF k \in HalfRotated(a) THEN cut[a] + 1 ELSE cut[a]]
    /\ UNCHANGED <<rtime, regTables, group, boots, attested, raced, kept, overlapped, replaced>>

\* A bank registers the human; later its customer may become somebody else's.
LinkChanges(h) ==
    /\ verified' = IF h \in verified THEN verified \ {h} ELSE verified \cup {h}
    /\ UNCHANGED <<rtime, agents, inputs, trail, vcRows, attests, group, task, boots, regHistory>>

RegTick ==
    /\ rtime < RegLast
    /\ rtime' = rtime + 1
    /\ UNCHANGED <<regTables, group, task, boots, regHistory>>

\* ServerState::init loads the keys of all agents that are not revoked, as far
\* as it can read them.  What a crash cut short stays: rows without inputs,
\* credentials without a row, rotations without their entry in the trail.
RegRestart ==
    /\ boots < RegRestarts
    /\ boots' = boots + 1
    /\ \E S \in SUBSET Active :
         /\ group' = {agents[a].key : a \in S}
         /\ orphaned' = {agents[a].key : a \in Active \ S}
    /\ task' = [k \in Tasks |-> NoTask]
    /\ raced' = {} /\ kept' = {}
    /\ cut' = [a \in AgentIds |-> cut[a] + Cardinality(HalfRotated(a))]
    /\ UNCHANGED <<rtime, regTables, attested, overlapped, replaced>>

RegistersAgent(k) ==
    \/ \E r \in Registrations : BeginRegister(k, r)
    \/ ConsumeAttestation(k) \/ CheckKeyFree(k) \/ CheckBankLink(k) \/ CheckParent(k)
    \/ \E a \in Ids : InsertAgent(k, a)
    \/ PersistInputs(k) \/ JoinGroup(k)

IssuesVc(k) ==
    \/ \E r \in VcRequests : BeginVc(k, r)
    \/ CheckVc(k) \/ InsertVc(k) \/ PersistVc(k)

Maintains(k) ==
    \/ \E a \in AgentIds : RevokeRow(k, a)
    \/ DropRingMember(k)
    \/ \E a \in AgentIds, cfg \in Configs : BeginRotate(k, a, cfg)
    \/ RotateInputs(k) \/ BindConfig(k) \/ AuditRotation(k)

RegistryNext ==
    \/ \E k \in Tasks : RegistersAgent(k) \/ IssuesVc(k) \/ Maintains(k) \/ StatementFails(k)
    \/ \E c \in AttestIds, t \in Realms, h \in Humans, key \in AgentKeys :
         IssueAttestChallenge(c, t, h, key)
    \/ \E h \in Humans : LinkChanges(h)
    \/ RegTick
    \/ RegRestart

RegistrySpec == RegistryInit /\ [][RegistryNext]_registryVars

-----------------------------------------------------------------------------
(* Properties.                                                             *)

\* An agent's authority has one source.  A delegated agent's is within its
\* parent's, along the whole chain: same human, no more scopes, one level
\* deeper, whatever happened to the parent since, unless an issuance replaced
\* the parent's row.  An attestation challenge vouches for one agent: a quote
\* does not serve a second registration, also when the first is revoked.
AuthorityHasOneSource ==
    /\ \A a \in Rows : agents[a].parent # NoRow =>
         LET p == agents[a].parent IN
         p \in replaced \/ ( /\ p \in Rows
                             /\ agents[a].human = agents[p].human
                             /\ agents[a].scope \subseteq agents[p].scope
                             /\ agents[a].depth = agents[p].depth + 1 )
    /\ \A c \in AttestIds : Cardinality(attested[c]) <= 1

\* Once the tasks that changed an agent's row are done, the one ring of all
\* realms agrees with the table, unless two of them changed the entry of one
\* key at once.  A key that no active agent has is a member only where a
\* revocation could not read it back; and the key of an active agent is missing
\* only where a fault came between its row and the ring, a start could not read
\* it, or another agent with the same key was revoked: in another realm, or for
\* the second time.
RingFollowsTable ==
    \A key \in AgentKeys :
        RingPending(key) = {} /\ key \notin raced =>
            IF \E a \in Active : agents[a].key = key
            THEN key \in group \cup orphaned
            ELSE key \in group => key \in kept

\* The rows of agent_checksum_audit that are about an agent, by position.
RotationsOf(a) == {i \in 1..Len(trail) : trail[i].id = a}

\* The registered configuration has one history, unless rotations of the agent
\* overlapped (rotate_inputs reads, then writes).  The version counts every
\* rotation: those in the trail and, nothing being rolled back, those that an
\* error or a crash ended half-way.  Without one of these, every rotation starts
\* where the previous one ended, and the checksum a call is compared with is that
\* of the stored inputs, also when the agent is revoked or replaced meanwhile.
TrailIsAChain ==
    \A a \in Ids : a \notin overlapped =>
        /\ inputs[a] # NoRow /\ Rotating(a) = {} =>
             inputs[a].version = Cardinality(RotationsOf(a)) + cut[a] + 1
        /\ cut[a] = 0 =>
             /\ \A i, j \in RotationsOf(a) :
                  i < j /\ (i + 1 .. j - 1) \cap RotationsOf(a) = {} => trail[i].to = trail[j].from
             /\ inputs[a] # NoRow /\ Rotating(a) = {} /\ agents[a] # NoRow =>
                  agents[a].cfg = inputs[a].cfg

\* "This closes concurrent-register TOCTOU races": no request removes the row
\* of an agent that is active and not expired.
ActiveAgentsAreKept == [][\A a \in Unexpired : agents'[a] # NoRow]_registryVars
=============================================================================
