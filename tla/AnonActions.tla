---------------------------- MODULE AnonActions -----------------------------
(***************************************************************************)
(* Anonymous ring policies: the rings and ring_members tables of           *)
(* core/src/rings.rs, validate_anon_action of core/src/agent_action.rs,    *)
(* which writes its receipts through ReceiptLedger, and the usage ledger   *)
(* of core/src/usage.rs, against which ring budgets are enforced.          *)
(*                                                                         *)
(* A ring is a rule.  An envelope names a primary ring and further rings   *)
(* that must admit the action too, and carries one signature per ring.  A  *)
(* signature is made with the signer's pseudonym in that ring, over a list *)
(* of the ring's members; ring::verify accepts it for exactly that list.   *)
(* A pseudonym is identified here with the pair of its ring and its agent. *)
(*                                                                         *)
(* Rules, members and usage are read by separate statements, between which *)
(* the operator may change any of them.  The connections of the operator's *)
(* handlers and of usage reports are not counted against the pool: with a  *)
(* busy pool they only wait.  Of the three units of a budget (usd, input   *)
(* and output tokens), which are accounted alike, one is kept.             *)
(***************************************************************************)
EXTENDS ReceiptLedger, Sequences, Functions

CONSTANTS
  Rings,
  Members,      \* agents, as holders of per-ring pseudonyms
  Rules,        \* [actions, digests, caps]; caps is {} for an unlimited ring
  SetUpRules,   \* [Rings -> Seq(Rules)]: what the operator configured before
  SetUpMembers, \* [Rings -> SUBSET Members]
  Reports,      \* one element per usage report the server ever handles
  ReportBodies, \* signed reports: [receipt, nonce, amount]
  NoBody,
  MaxVersion    \* bound on the version of a rule (model bound)

ASSUME AnonAssumption ==
  /\ IsFiniteSet(Reports)
  /\ SetUpRules \in [Rings -> Seq(Rules)]
  /\ SetUpMembers \in [Rings -> SUBSET Members]
  /\ MaxVersion \in Nat
  /\ \A u \in Rules : u.caps \subseteq Nat
  /\ \A e \in Envelopes : /\ e.rings \in Seq(Rings) /\ e.rings # <<>>
                          /\ e.signers \in Seq(Members)
                          /\ Len(e.signers) = Len(e.rings)
  /\ \A b \in ReportBodies : /\ b.receipt \in Requests
                             /\ b.nonce \in UsageNonces
                             /\ b.amount \in Nat

VARIABLES
  rules,    \* every rule a ring ever had: the row holds the last, at version Len
  members,  \* ring_members
  usage,    \* usage_ledger: the running total of each pseudonym
  usageLog, \* the sum of the pseudonym's usage_log rows
  lists,    \* the member lists each request was signed over, one per ring
  granted,  \* the rule versions a request has been checked against so far
  verified, \* how many of its rings have had their signature verified
  report,   \* progress of each usage report: [stage, body, now]
  arrival   \* history: versions and usage when a request arrived, and which of
            \* its signers have been outside their ring ever since

anonVars == <<rules, members, usage, usageLog, lists, granted, verified, report, arrival>>
vars == <<clock, nonces, receipts, stage, env, stamp, link,
          rules, members, usage, usageLog, lists, granted, verified, report, arrival>>

Pseudonyms == Rings \X Members
Primary(e) == <<e.rings[1], e.signers[1]>>
NoArrival == [versions |-> [g \in Rings |-> 0], used |-> 0, outside |-> {}]

----------------------------------------------------------------------------
(* The operator's handlers.                                                *)

\* upsert_ring: create the ring at version 1 or replace its rule.
UpsertRing(g, u) ==
  /\ Len(rules[g]) < MaxVersion
  /\ rules' = [rules EXCEPT ![g] = Append(@, u)]
  /\ UNCHANGED <<members, usage, usageLog, lists, granted, verified, report, arrival>>

\* subscribe_handler: the ring must exist; INSERT OR IGNORE.
Subscribe(g, m) ==
  /\ rules[g] # <<>>
  /\ members' = [members EXCEPT ![g] = @ \cup {m}]
  /\ arrival' = [r \in Requests |->
                   [arrival[r] EXCEPT !.outside =
                      {i \in @ : ~(env[r].rings[i] = g /\ env[r].signers[i] = m)}]]
  /\ UNCHANGED <<rules, usage, usageLog, lists, granted, verified, report>>

\* revoke_handler: DELETE FROM ring_members.
RevokeMember(g, m) ==
  /\ members' = [members EXCEPT ![g] = @ \ {m}]
  /\ UNCHANGED <<rules, usage, usageLog, lists, granted, verified, report, arrival>>

----------------------------------------------------------------------------
(* validate_anon_action.                                                   *)

\* evaluate_rule: an empty digest set does not pin the configuration.
EvaluateRule(u, action, digest) ==
  /\ action \in u.actions
  /\ u.digests # {} => digest \in u.digests

\* budget_exceeded: the total is strictly above the cap.
BudgetExceeded(total, u) == \E c \in u.caps : total > c

\* No ring is named twice.
DistinctRings(e) == \A i, j \in 1..Len(e.rings) : e.rings[i] = e.rings[j] => i = j

\* submit_anon_action: the request arrives, signed over lists S.
SubmitAnon(r, e, S) ==
  /\ DistinctRings(e)
  /\ \A i \in 1..Len(e.rings) : e.signers[i] \in S[i]
  /\ Receive(r, e)
  /\ lists' = [lists EXCEPT ![r] = S]
  /\ arrival' = [arrival EXCEPT ![r] =
       [versions |-> [g \in Rings |-> Len(rules[g])],
        used     |-> usage[Primary(e)],
        outside  |-> {i \in 1..Len(e.rings) : e.signers[i] \notin members[e.rings[i]]}]]
  /\ UNCHANGED <<rules, members, usage, usageLog, granted, verified, report>>

\* The rings of r's envelope are taken in order, the rule before the members.
RuleTurn(r) == Len(granted[r]) = verified[r] /\ verified[r] < Len(env[r].rings)
MemberTurn(r) == Len(granted[r]) = verified[r] + 1

\* Bug: every ring is judged by the rule of the primary one.
CheckRuleBug(r) ==
  LET g == env[r].rings[1] IN
    /\ stage[r] = "open"
    /\ RuleTurn(r)
    /\ IF rules[g] # <<>>
          /\ EvaluateRule(rules[g][Len(rules[g])], env[r].action, env[r].digest)
         THEN granted' = [granted EXCEPT ![r] = Append(@, Len(rules[env[r].rings[Len(granted[r]) + 1]]))]
              /\ UNCHANGED stage
         ELSE MoveTo(r, "failed") /\ UNCHANGED granted
    /\ UNCHANGED <<clock, nonces, receipts, env, stamp, link>>
    /\ UNCHANGED <<rules, members, usage, usageLog, lists, verified, report, arrival>>

\* get_ring and evaluate_rule for the next ring of the envelope.
CheckRule(r) ==
  LET g == env[r].rings[Len(granted[r]) + 1] IN
    /\ stage[r] = "open"
    /\ RuleTurn(r)
    /\ IF rules[g] # <<>>
          /\ EvaluateRule(rules[g][Len(rules[g])], env[r].action, env[r].digest)
         THEN granted' = [granted EXCEPT ![r] = Append(@, Len(rules[g]))]
              /\ UNCHANGED stage
         ELSE MoveTo(r, "failed") /\ UNCHANGED granted
    /\ UNCHANGED <<clock, nonces, receipts, env, stamp, link>>
    /\ UNCHANGED <<rules, members, usage, usageLog, lists, verified, report, arrival>>

\* list_member_points and ring::verify for that ring.
CheckMembers(r) ==
  LET i == verified[r] + 1
      g == env[r].rings[i] IN
    /\ stage[r] = "open"
    /\ MemberTurn(r)
    /\ IF members[g] # {} /\ lists[r][i] = members[g]
         THEN verified' = [verified EXCEPT ![r] = i] /\ UNCHANGED stage
         ELSE MoveTo(r, "failed") /\ UNCHANGED verified
    /\ UNCHANGED <<clock, nonces, receipts, env, stamp, link>>
    /\ UNCHANGED <<rules, members, usage, usageLog, lists, granted, report, arrival>>

\* The budget cap a request is held to: the primary ring's, as it was read.
PrimaryRule(r) == rules[env[r].rings[1]][granted[r][1]]

\* Bug: the usage is looked up but not compared with the cap.
CheckBudgetBug(r) ==
  /\ stage[r] = "open"
  /\ verified[r] = Len(env[r].rings)
  /\ Pass(r)
  /\ UNCHANGED anonVars

\* What get_usage may return: an error of the lookup is turned into zero totals.
GetUsage(k) == {usage[k]} \cup (IF ReadsMayFail THEN {0} ELSE {})

\* get_usage and budget_exceeded, for the primary ring alone.
CheckBudget(r) ==
  /\ stage[r] = "open"
  /\ verified[r] = Len(env[r].rings)
  /\ \E total \in GetUsage(Primary(env[r])) :
       IF BudgetExceeded(total, PrimaryRule(r)) THEN Fail(r) ELSE Pass(r)
  /\ UNCHANGED anonVars

----------------------------------------------------------------------------
(* record_usage_handler.                                                   *)

Advance(p, s) == report' = [report EXCEPT ![p].stage = s]

SubmitReport(p, b) ==
  /\ report[p].stage = "idle"
  /\ report' = [report EXCEPT ![p] = [stage |-> "received", body |-> b, now |-> clock]]
  /\ UNCHANGED ledgerVars
  /\ UNCHANGED <<rules, members, usage, usageLog, lists, granted, verified, arrival>>

\* The pseudonym a stored receipt was issued to.
Billed(p) == Primary(env[report[p].body.receipt])

\* verify_usage_report up to the signature: the receipt exists and its
\* pseudonym has signed over the ring's current members, so is one of them.
\* (A report signed over another list is refused: FailReport.)
VerifyReport(p) ==
  /\ report[p].stage = "received"
  /\ IF /\ \E x \in receipts : x.id = report[p].body.receipt
        /\ Billed(p)[2] \in members[Billed(p)[1]]
       THEN Advance(p, "verified")
       ELSE Advance(p, "failed")
  /\ UNCHANGED ledgerVars
  /\ UNCHANGED <<rules, members, usage, usageLog, lists, granted, verified, arrival>>

\* Bug: the report is logged whether or not its nonce was new.
BurnReportNonceBug(p) ==
  /\ report[p].stage = "verified"
  /\ Advance(p, "burnt")
  /\ \/ ConsumeUsageNonce(report[p].body.nonce, report[p].now)
     \/ /\ \E n \in nonces : n.nonce = report[p].body.nonce
        /\ UNCHANGED ledgerVars
  /\ UNCHANGED <<rules, members, usage, usageLog, lists, granted, verified, arrival>>

\* The single-use check of verify_usage_report.
BurnReportNonce(p) ==
  /\ report[p].stage = "verified"
  /\ \/ /\ ConsumeUsageNonce(report[p].body.nonce, report[p].now)
        /\ Advance(p, "burnt")
     \/ /\ \E n \in nonces : n.nonce = report[p].body.nonce
        /\ Advance(p, "failed")
        /\ UNCHANGED ledgerVars
  /\ UNCHANGED <<rules, members, usage, usageLog, lists, granted, verified, arrival>>

\* record_usage, first statement: append to usage_log.
LogUsage(p) ==
  /\ report[p].stage = "burnt"
  /\ usageLog' = [usageLog EXCEPT ![Billed(p)] = @ + report[p].body.amount]
  /\ Advance(p, "logged")
  /\ UNCHANGED ledgerVars
  /\ UNCHANGED <<rules, members, usage, lists, granted, verified, arrival>>

\* Bug: the upsert overwrites the running total instead of adding to it.
AddUsageBug(p) ==
  /\ report[p].stage = "logged"
  /\ usage' = [usage EXCEPT ![Billed(p)] = report[p].body.amount]
  /\ Advance(p, "done")
  /\ UNCHANGED ledgerVars
  /\ UNCHANGED <<rules, members, usageLog, lists, granted, verified, arrival>>

\* record_usage, second statement: the upsert adds to the running total.
AddUsage(p) ==
  /\ report[p].stage = "logged"
  /\ usage' = [usage EXCEPT ![Billed(p)] = @ + report[p].body.amount]
  /\ Advance(p, "done")
  /\ UNCHANGED ledgerVars
  /\ UNCHANGED <<rules, members, usageLog, lists, granted, verified, arrival>>

\* A statement fails or the process dies: what was committed stays.
FailReport(p) ==
  /\ report[p].stage \in {"received", "verified", "burnt", "logged"}
  /\ Advance(p, "failed")
  /\ UNCHANGED ledgerVars
  /\ UNCHANGED <<rules, members, usage, usageLog, lists, granted, verified, arrival>>

----------------------------------------------------------------------------
(* Specification.                                                          *)

Init ==
  /\ LedgerInit
  /\ rules = SetUpRules
  /\ members = SetUpMembers
  /\ usage = [k \in Pseudonyms |-> 0]
  /\ usageLog = [k \in Pseudonyms |-> 0]
  /\ lists = [r \in Requests |-> <<>>]
  /\ granted = [r \in Requests |-> <<>>]
  /\ verified = [r \in Requests |-> 0]
  /\ report = [p \in Reports |-> [stage |-> "idle", body |-> NoBody, now |-> 0]]
  /\ arrival = [r \in Requests |-> NoArrival]

Operate ==
  \E g \in Rings :
    \/ \E u \in Rules : UpsertRing(g, u) /\ UNCHANGED ledgerVars
    \/ \E m \in Members : (Subscribe(g, m) \/ RevokeMember(g, m)) /\ UNCHANGED ledgerVars

Handle(r) ==
  \/ (Acquire(r) \/ Commit(r)) /\ UNCHANGED anonVars
  \/ CheckRule(r)
  \/ CheckMembers(r)
  \/ CheckBudget(r)

Report(p) ==
  \/ \E b \in ReportBodies : SubmitReport(p, b)
  \/ VerifyReport(p)
  \/ BurnReportNonce(p)
  \/ LogUsage(p)
  \/ AddUsage(p)
  \/ FailReport(p)

Next ==
  \/ Operate
  \/ \E r \in Requests, e \in Envelopes :
       \E S \in [1..Len(e.rings) -> SUBSET Members] : SubmitAnon(r, e, S)
  \/ \E r \in Requests : Handle(r)
  \/ \E r \in Requests : Fail(r) /\ UNCHANGED anonVars
  \/ \E p \in Reports : Report(p)
  \/ (Crash \/ Tick) /\ UNCHANGED anonVars

Spec == Init /\ [][Next]_vars

----------------------------------------------------------------------------
(* Properties.                                                             *)

\* The policy_version a receipt records names, for every ring of its envelope,
\* a version that permits the action and that was in force no earlier than the
\* request's arrival, and the envelope was signed, in every one of them, by an
\* agent that was a member at some moment since: naming more rings only narrows
\* authority, and replacing a rule or revoking a member is effective for every
\* request that arrives afterwards.
AuthorisedByEveryRing ==
  \A r \in Requests : stage[r] = "done" =>
    /\ \A i \in 1..Len(env[r].rings) :
         LET g == env[r].rings[i]
             v == granted[r][i] IN
           /\ v \in arrival[r].versions[g]..Len(rules[g])
           /\ EvaluateRule(rules[g][v], env[r].action, env[r].digest)
    /\ arrival[r].outside = {}

\* A pseudonym whose recorded usage is above the cap when its request arrives
\* obtains no receipt under that cap, whatever is reported meanwhile.
BudgetGatesNewActions ==
  \A r \in Requests : stage[r] = "done" =>
    ~BudgetExceeded(arrival[r].used, PrimaryRule(r))

\* The running total of a pseudonym is what its reports that ran to the end
\* add up to, concurrent upserts included, and never more than what usage_log
\* holds: a report cut short between the two statements is logged but not
\* counted.
UsageIsSumOfReports ==
  \A k \in Pseudonyms :
    /\ usage[k] = SumFunction([p \in {q \in Reports : report[q].stage = "done" /\ Billed(q) = k} |->
                                 report[p].body.amount])
    /\ usage[k] <= usageLog[k]

\* One signed report is billed at most once while its key is kept.
ReportBilledOnce ==
  \A p, q \in Reports :
    (/\ p # q /\ report[p].body = report[q].body
     /\ report[p].stage \in {"logged", "done"} /\ report[q].stage \in {"logged", "done"})
    => \/ report[p].now + UsageWindow < clock
       \/ report[q].now + UsageWindow < clock
=============================================================================
