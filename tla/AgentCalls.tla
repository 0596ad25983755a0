----------------------------- MODULE AgentCalls -----------------------------
(***************************************************************************)
(* Calls an agent makes with an A-JWT: agent_payment_authorize,            *)
(* policy_authorize and verify_agent_token, and the skeleton of            *)
(* agent_kyc_consent, which module Consents completes.                     *)
(*                                                                         *)
(* A handler verifies the A-JWT, reads the agent's row, takes a            *)
(* proof-of-possession challenge, decides, has validate_agent_action store *)
(* a receipt and only then spends the A-JWT's jti.  Every one of these is  *)
(* a statement or a transaction of its own, on any pooled connection.      *)
(*                                                                         *)
(* validate_agent_action, the subject of module AgentActions, is one step  *)
(* here.  Signatures are ideal: a call presents a token and a challenge.   *)
(***************************************************************************)
EXTENDS Naturals, FiniteSets

CONSTANTS
  CallIds,      \* one element per call the server ever handles
  CallAgents,   \* agent ids
  AgentEnd,     \* [CallAgents -> Nat]: agents.expires_at
  AgentOwner,   \* [CallAgents -> users]: agents.human_key_image
  AgentLevel,   \* [CallAgents -> STRING]: agents.assurance_level
  Ajwts,        \* A-JWTs: [jti, agent, sub, exp, intent]
  Pops,         \* ids of proof-of-possession challenges
  Orders,       \* what is asked for: [action, amount, currency, merchant, request]
  Kinds,        \* which endpoints are called
  Enforcement,  \* SAURON_POLICY_ENFORCEMENT: "off", "advisory" or "enforce"
  NeedBinding,  \* SAURON_POLICY_REQUIRE_BINDING
  MaxAction,    \* SAURON_MAX_ACTION_USD in minor units; 0 for none
  PopLifetime,  \* ttl of a challenge (300 s)
  PayLifetime,  \* the most a payment authorisation lives (300 s)
  CallConns,    \* pooled connections
  LastTime,     \* bound on the clock
  NoMax         \* an intent without a usable maxAmount

ASSUME CallAssumption ==
  /\ AgentEnd \in [CallAgents -> Nat]
  /\ \A t \in Ajwts : t.agent \in CallAgents /\ t.exp \in Nat
  /\ \A t, u \in Ajwts : t.jti = u.jti => t = u   \* a jti is drawn at random
  /\ Kinds \subseteq {"payment", "policy", "verify", "consent"}
  /\ Enforcement \in {"off", "advisory", "enforce"} /\ NeedBinding \in BOOLEAN
  /\ MaxAction \in Nat /\ PopLifetime \in Nat /\ PayLifetime \in Nat
  /\ CallConns \in Nat \ {0} /\ LastTime \in Nat /\ NoMax \notin Nat

VARIABLES
  now,       \* the clock
  live,      \* agents whose row is not revoked
  usedJtis,  \* rows of ajwt_used_jtis: [jti, exp]
  pops,      \* rows of agent_pop_challenges: [id, agent, exp]
  call,      \* progress of each call
  receipts,  \* calls for which an accepted receipt is stored
  payments   \* rows of agent_payment_authorizations

callVars == <<now, live, usedJtis, pops, call, receipts, payments>>

Outcomes == {"allow", "deny", "unavailable", "none", "error"}
Fresh == [stage |-> "idle"]
Lost == [stage |-> "failed"]

AgentOf(c) == call[c].ajwt.agent
AtStage(c, s) == call[c].stage = s
\* The next stage; nothing is remembered of a call that has failed.
Goto(c, s) == call' = [call EXCEPT ![c] = IF s = "failed" THEN Lost ELSE [@ EXCEPT !.stage = s]]

\* Calls that hold a connection from one statement to the next.
CallHolders == {c \in CallIds : call[c].stage \in {"vetted", "popRead"} /\ call[c].kind # "policy"}

----------------------------------------------------------------------------
(* Pure decisions.                                                         *)

\* The actions of the KYA matrix; an unknown level counts as delegated_nonbank.
SharedActions == {"read_identity", "prove_age", "prove_nationality", "kyc_lookup", "kyc_consent",
                  "zkp_login", "web3_sign"}
Matrix(level) ==
  CASE level = "delegated_bank" -> SharedActions \cup {"payment_initiation", "payment_consume"}
    [] level = "autonomous_web3" -> SharedActions \cup {"web3_trade_small"}
    [] OTHER -> {}

AuthorizeAction(level, action) == action \in Matrix(level)

\* enforce_strict_payment_intent.
StrictIntent(intent, order) ==
  /\ "payment_initiation" \in intent.scope
  /\ intent.max # NoMax /\ order.amount <= intent.max
  /\ intent.currency = order.currency
  /\ intent.allowlist => order.merchant \in intent.merchants

\* The outcome of the bound policy against the enforcement mode.
PolicyRefuses(o) ==
  /\ Enforcement = "enforce"
  /\ o \in {"deny", "unavailable", "error"} \cup (IF NeedBinding THEN {"none"} ELSE {})

----------------------------------------------------------------------------
(* The calls.                                                              *)

\* The arguments are checked and verify_ajwt_for_tenant accepts the token,
\* which is valid up to and including its exp.  A payment above the global
\* ceiling is refused at once.
Arrive(c, k, t, p, o) ==
  /\ AtStage(c, "idle")
  /\ k \in Kinds
  /\ now <= t.exp
  /\ k = "payment" => o.action = "payment_initiation" /\ (MaxAction = 0 \/ o.amount <= MaxAction)
  /\ call' = [call EXCEPT ![c] =
       [stage |-> "arrived", kind |-> k, ajwt |-> t, pop |-> p, order |-> o, at |-> now,
        spentAt |-> LastTime + 1, revoked |-> t.agent \notin live]]
  /\ UNCHANGED <<now, live, usedJtis, pops, receipts, payments>>

\* What the agent's row must say.  verify_agent_token looks at `revoked` only.
RowOk(c) ==
  LET a == AgentOf(c) IN
    /\ a \in live
    /\ call[c].kind # "verify" =>
         /\ AgentEnd[a] >= call[c].at
         /\ AgentOwner[a] = call[c].ajwt.sub

\* SELECT ... FROM agents, on the connection the challenge is taken on.
Vet(c) ==
  /\ AtStage(c, "arrived")
  /\ Cardinality(CallHolders) < CallConns
  /\ Goto(c, IF RowOk(c) THEN "vetted" ELSE "failed")
  /\ UNCHANGED <<now, live, usedJtis, pops, receipts, payments>>

\* The challenges a call may take: its own agent's, under the id it presents.
PopsOf(c) == {p \in pops : p.id = call[c].pop /\ p.agent = AgentOf(c)}

\* take_pop_challenge: SELECT.  An expired challenge is deleted and refused.
ReadPop(c) ==
  /\ AtStage(c, "vetted")
  /\ call[c].kind # "policy"
  /\ Goto(c, IF \E p \in PopsOf(c) : p.exp >= now THEN "popRead" ELSE "failed")
  /\ pops' = {p \in pops : ~(p \in PopsOf(c) /\ p.exp < now)}
  /\ UNCHANGED <<now, live, usedJtis, receipts, payments>>

\* take_pop_challenge: DELETE, whose number of rows is not looked at.
DeletePop(c) ==
  /\ AtStage(c, "popRead")
  /\ Goto(c, "popTaken")
  /\ pops' = {p \in pops : p.id # call[c].pop}
  /\ UNCHANGED <<now, live, usedJtis, receipts, payments>>

\* The matrix, the bound policy and the intent of the A-JWT.
Decide(c, o) ==
  /\ \/ AtStage(c, "popTaken") /\ call[c].kind = "payment"
     \/ AtStage(c, "vetted") /\ call[c].kind = "policy"
  /\ Goto(c, IF /\ AuthorizeAction(AgentLevel[AgentOf(c)], call[c].order.action)
                /\ call[c].kind = "payment" =>
                     /\ ~PolicyRefuses(o)
                     /\ StrictIntent(call[c].ajwt.intent, call[c].order)
             THEN "decided" ELSE "failed")
  /\ UNCHANGED <<now, live, usedJtis, pops, receipts, payments>>

\* validate_agent_action finds the agent active and stores an accepted receipt.
Record(c) ==
  /\ AtStage(c, "decided")
  /\ IF AgentOf(c) \in live
       THEN receipts' = receipts \cup {c} /\ Goto(c, "recorded")
       ELSE UNCHANGED receipts /\ Goto(c, "failed")
  /\ UNCHANGED <<now, live, usedJtis, pops, payments>>

\* Where consume_ajwt_jti comes: after the receipt, and in verify_agent_token,
\* when consume_jti is asked for, after the challenge.
MaySpend(c) == AtStage(c, "recorded") \/ (AtStage(c, "popTaken") /\ call[c].kind = "verify")

\* consume_ajwt_jti: one immediate transaction prunes the expired jtis by the
\* clock of this moment and inserts; a jti that is there is a replay, rolled back.
SpendJti(c) ==
  /\ MaySpend(c)
  /\ LET t == call[c].ajwt
         kept == {u \in usedJtis : u.exp >= now} IN
       IF \E u \in kept : u.jti = t.jti
         THEN Goto(c, "failed") /\ UNCHANGED usedJtis
         ELSE /\ usedJtis' = kept \cup {[jti |-> t.jti, exp |-> t.exp]}
              /\ call' = [call EXCEPT ![c].stage = "spent", ![c].spentAt = now]
  /\ UNCHANGED <<now, live, pops, receipts, payments>>

PayExpiry(c) ==
  IF call[c].ajwt.exp < call[c].at + PayLifetime THEN call[c].ajwt.exp
                                                ELSE call[c].at + PayLifetime

\* Bug: the table has no unique index on jti.
InsertPaymentBug(c) ==
  /\ AtStage(c, "spent")
  /\ call[c].kind = "payment"
  /\ payments' = payments \cup {[call |-> c, jti |-> call[c].ajwt.jti, exp |-> PayExpiry(c), settled |-> 0]}
  /\ Goto(c, "done")
  /\ UNCHANGED <<now, live, usedJtis, pops, receipts>>

\* insert_payment_authorization: a second row for a jti is a conflict.
InsertPayment(c) ==
  /\ AtStage(c, "spent")
  /\ call[c].kind = "payment"
  /\ IF \E p \in payments : p.jti = call[c].ajwt.jti
       THEN Goto(c, "failed") /\ UNCHANGED payments
       ELSE /\ payments' = payments \cup {[call |-> c, jti |-> call[c].ajwt.jti,
                                            exp |-> PayExpiry(c), settled |-> 0]}
            /\ Goto(c, "done")
  /\ UNCHANGED <<now, live, usedJtis, pops, receipts>>

\* policy_authorize answers; so does verify_agent_token, with or without
\* spending the jti.
Answer(c) ==
  /\ \/ AtStage(c, "spent") /\ call[c].kind \in {"policy", "verify"}
     \/ AtStage(c, "popTaken") /\ call[c].kind = "verify"
  /\ Goto(c, "done")
  /\ UNCHANGED <<now, live, usedJtis, pops, receipts, payments>>

\* Any other refusal (rate, jurisdiction, signatures, a failing statement), a
\* lost connection or a restart: what is committed stays.
Abandon(c) ==
  /\ call[c].stage \notin {"idle", "done", "failed"}
  /\ Goto(c, "failed")
  /\ UNCHANGED <<now, live, usedJtis, pops, receipts, payments>>

----------------------------------------------------------------------------
(* The rest of the server.                                                 *)

\* agent_pop_challenge, for an agent in force: DELETE, then INSERT.
IssuePop(a, i) ==
  /\ a \in live /\ AgentEnd[a] >= now
  /\ \A p \in pops : p.id # i
  /\ \A c \in CallIds : call[c] \notin {Fresh, Lost} => call[c].pop # i
  /\ pops' = {p \in pops : p.exp >= now} \cup {[id |-> i, agent |-> a, exp |-> now + PopLifetime]}
  /\ UNCHANGED <<now, live, usedJtis, call, receipts, payments>>

\* consume_payment_authorization, which Repo offers to a settlement service: no
\* handler of this version calls it.
Settle(p) ==
  /\ p.settled = 0 /\ p.exp > now
  /\ payments' = (payments \ {p}) \cup {[p EXCEPT !.settled = 1 + @]}
  /\ UNCHANGED <<now, live, usedJtis, pops, call, receipts>>

\* revoke_agent.
Revoke(a) ==
  /\ a \in live
  /\ live' = live \ {a}
  /\ UNCHANGED <<now, usedJtis, pops, call, receipts, payments>>

Advance ==
  /\ now < LastTime
  /\ now' = now + 1
  /\ UNCHANGED <<live, usedJtis, pops, call, receipts, payments>>

CallInit ==
  /\ now = 0
  /\ live = CallAgents
  /\ usedJtis = {} /\ pops = {} /\ receipts = {} /\ payments = {}
  /\ call = [c \in CallIds |-> Fresh]

Serve(c) ==
  \/ \E k \in Kinds, t \in Ajwts, p \in Pops, o \in Orders : Arrive(c, k, t, p, o)
  \/ Vet(c) \/ ReadPop(c) \/ DeletePop(c)
  \/ \E o \in Outcomes : Decide(c, o)
  \/ Record(c) \/ SpendJti(c) \/ InsertPayment(c) \/ Answer(c) \/ Abandon(c)

CallEnvironment ==
  \/ \E a \in CallAgents, i \in Pops : IssuePop(a, i)
  \/ \E p \in payments : Settle(p)
  \/ \E a \in CallAgents : Revoke(a)
  \/ Advance

CallNext == (\E c \in CallIds : Serve(c)) \/ CallEnvironment
CallSpec == CallInit /\ [][CallNext]_callVars

----------------------------------------------------------------------------
(* Properties.                                                             *)

HasSpent(c) == call[c] \notin {Fresh, Lost} /\ call[c].spentAt <= LastTime

\* While an A-JWT is valid, one call gets past consume_ajwt_jti with it, whatever
\* the endpoint: of two that did, one spent the jti after the token had expired
\* (it was verified at the start, and its row pruned since).  Valid or not, it
\* never yields two payment authorisations, and an authorisation is settled at
\* most once and rests on a receipt of an agent in force when the call arrived.
TokenActsOnce ==
  /\ \A c, d \in CallIds :
       /\ c # d /\ HasSpent(c) /\ HasSpent(d)
       /\ call[c].ajwt.jti = call[d].ajwt.jti
       => call[c].spentAt > call[c].ajwt.exp \/ call[d].spentAt > call[d].ajwt.exp
  /\ \A p, q \in payments : p.jti = q.jti => p = q
  /\ \A p \in payments : p.settled <= 1 /\ p.call \in receipts /\ ~call[p.call].revoked
=============================================================================
