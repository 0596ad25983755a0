---------------------------- MODULE EgressGateway ---------------------------
(***************************************************************************)
(* The egress gateway of core/src/egress_gateway.rs, on top of the         *)
(* identified action path.                                                 *)
(*                                                                         *)
(* issue_egress_capability counts the caller in risk_rate_counters, has    *)
(* validate_agent_action authorise the request (which stores a receipt)    *)
(* and stores a capability, a one-use bearer token bound to one method,    *)
(* URL and body.  agent_egress_proxy checks the agent's allowlist, waits   *)
(* for DNS, spends the capability and only then calls upstream.            *)
(*                                                                         *)
(* The random token of a capability is represented by the request that     *)
(* obtained it.  The connections these handlers take for single statements *)
(* are not counted against the pool.                                       *)
(***************************************************************************)
EXTENDS AgentActions

CONSTANTS
  Calls,        \* one element per call of the proxy the server ever handles
  Targets,      \* outbound requests: [url, rest], rest being method and body
  Allowlist,    \* [Agents -> SUBSET Targets]: intent_json.egress_allowlist
  CapLifetime,  \* the most a capability lives (120 s)
  IssueLimit,   \* limit_egress_capability; 0 for no limit
  WindowLen,    \* risk window_secs
  VoluntaryLog, \* SAURON_ENABLE_VOLUNTARY_EGRESS_LOG: on in development only
  MaxReports,   \* bound: rows that reports about egress may add to the log
  NoCall,       \* what an element of Calls is before it arrives
  Ended         \* and once it has been answered or lost

ASSUME EgressAssumption ==
  /\ Allowlist \in [Agents -> SUBSET Targets]
  /\ CapLifetime \in Nat /\ IssueLimit \in Nat /\ WindowLen \in Nat \ {0}
  /\ VoluntaryLog \in BOOLEAN /\ MaxReports \in Nat
  /\ NoCall # Ended /\ NoCall \notin Calls /\ Targets # {} /\ Agents # {}
  /\ \A e \in Envelopes : e.ajwtExp \in Nat /\ \E q \in Targets : q.url = e.url

VARIABLES
  counter,   \* risk_rate_counters of each agent, by window
  issue,     \* progress of each issuance: [phase, agent, target, now]
  caps,      \* rows of agent_egress_capabilities
  call,      \* progress of each call of the proxy
  upstream,  \* what has reached the outside world, with the call's history
  egressLog  \* rows of agent_egress_log; `call` is not a column: NoCall in a report

egressVars == <<counter, issue, caps, call, upstream, egressLog>>
allVars == <<clock, nonces, receipts, stage, env, stamp, link, agents, ring, checked, gone,
             counter, issue, caps, call, upstream, egressLog>>

Window(now) == now \div WindowLen
Capability == [token: Requests, agent: Agents, target: Targets, exp: Nat, used: BOOLEAN]
IssuePhases == {"none", "admitted", "dated", "pruned", "issued", "failed"}
LogRow == [call: Calls \cup {NoCall}, agent: Agents, target: Targets, allowed: BOOLEAN]
CallPhases == {"arrived", "permitted", "vetted", "spent", "sent"}
Call == [phase: CallPhases, agent: Agents, target: Targets, token: Requests,
         now: 0..MaxTime, gone: SUBSET Agents]

\* NoCall and Ended are not the progress of a running call.
ASSUME CallAssumption == NoCall \notin Call /\ Ended \notin Call

EgressTypeOK ==
  /\ AgentTypeOK
  /\ counter \in [Agents -> [0..Window(MaxTime) -> Nat]]
  /\ issue \in [Requests -> [phase: IssuePhases, agent: Agents, target: Targets, now: 0..MaxTime]]
  /\ caps \subseteq Capability
  /\ call \in [Calls -> Call \cup {NoCall, Ended}]
  /\ upstream \subseteq [id: Calls, by: Call]
  /\ egressLog \subseteq LogRow

----------------------------------------------------------------------------
(* issue_egress_capability.                                                *)

SetIssue(r, p) == issue' = [issue EXCEPT ![r].phase = p]

\* check_and_increment: one immediate transaction counts the attempt, refused
\* ones included.  (Windows are deleted 120 windows later, past any instance.)
Admit(r, a, q) ==
  /\ issue[r].phase = "none"
  /\ LET n == counter[a][Window(clock)] + 1 IN
       /\ counter' = IF IssueLimit = 0 THEN counter
                     ELSE [counter EXCEPT ![a][Window(clock)] = n]
       /\ issue' = [issue EXCEPT ![r] =
            [phase |-> IF IssueLimit > 0 /\ n > IssueLimit THEN "failed" ELSE "admitted",
             agent |-> a, target |-> q, now |-> 0]]
  /\ UNCHANGED vars
  /\ UNCHANGED <<caps, call, upstream, egressLog>>

\* validate_agent_action begins: the envelope must name the caller and the URL.
SubmitIssue(r, e, S) ==
  /\ issue[r].phase = "admitted"
  /\ e.agent = issue[r].agent
  /\ e.url = issue[r].target.url
  /\ Submit(r, e, S)
  /\ UNCHANGED egressVars

\* The capability lives no longer than its A-JWT, its envelope and 120 s.
CapExpiry(r) ==
  LET ends == {env[r].ajwtExp, env[r].exp, issue[r].now + CapLifetime} IN
    CHOOSE x \in ends : \A y \in ends : x <= y

\* The receipt is stored and the clock is read again.
DateCap(r) ==
  /\ issue[r].phase = "admitted"
  /\ stage[r] = "done"
  /\ issue' = [issue EXCEPT ![r].phase = "dated", ![r].now = clock]
  /\ UNCHANGED vars
  /\ UNCHANGED <<counter, caps, call, upstream, egressLog>>

\* Bug: the nonces of the replay table are purged along with the capabilities.
PruneCapsBug(r) ==
  /\ issue[r].phase = "dated"
  /\ caps' = {k \in caps : ~(k.exp < issue[r].now \/ k.used)}
  /\ SetIssue(r, "pruned")
  /\ nonces' = {}
  /\ UNCHANGED <<clock, receipts, stage, env, stamp, link>>
  /\ UNCHANGED agentVars
  /\ UNCHANGED <<counter, call, upstream, egressLog>>

\* DELETE FROM agent_egress_capabilities: the used and the expired ones.  A
\* capability that would be expired at once is refused before that.
PruneCaps(r) ==
  /\ issue[r].phase = "dated"
  /\ IF CapExpiry(r) <= issue[r].now
       THEN SetIssue(r, "failed") /\ UNCHANGED caps
       ELSE /\ caps' = {k \in caps : ~(k.exp < issue[r].now \/ k.used)}
            /\ SetIssue(r, "pruned")
  /\ UNCHANGED vars
  /\ UNCHANGED <<counter, call, upstream, egressLog>>

\* INSERT INTO agent_egress_capabilities.
InsertCap(r) ==
  /\ issue[r].phase = "pruned"
  /\ caps' = caps \cup {[token |-> r, agent |-> issue[r].agent, target |-> issue[r].target,
                          exp |-> CapExpiry(r), used |-> FALSE]}
  /\ SetIssue(r, "issued")
  /\ UNCHANGED vars
  /\ UNCHANGED <<counter, call, upstream, egressLog>>

\* The A-JWT lacks a claim, validate_agent_action refuses the action, or a
\* statement fails; what is committed stays, the receipt included.
FailIssue(r) ==
  /\ \/ issue[r].phase = "admitted" /\ stage[r] \in {"idle", "failed"}
     \/ issue[r].phase \in {"dated", "pruned"}
  /\ SetIssue(r, "failed")
  /\ UNCHANGED vars
  /\ UNCHANGED <<counter, caps, call, upstream, egressLog>>

----------------------------------------------------------------------------
(* agent_egress_proxy.                                                     *)

SetCall(c, p) == call' = [call EXCEPT ![c].phase = p]
LogCall(c, ok) ==
  egressLog' = egressLog \cup {[call |-> c, agent |-> call[c].agent, target |-> call[c].target,
                                allowed |-> ok]}
End(c) == call' = [call EXCEPT ![c] = Ended]
Running(c) == call[c] \notin {NoCall, Ended}
At(c, p) == Running(c) /\ call[c].phase = p

\* A call signed by agent a arrives with somebody's token; `now` is read here.
Arrive(c, a, q, r) ==
  /\ call[c] = NoCall
  /\ call' = [call EXCEPT ![c] =
       [phase |-> "arrived", agent |-> a, target |-> q, token |-> r, now |-> clock,
        gone |-> {b \in Agents : agents[b] = "revoked"}]]
  /\ UNCHANGED vars
  /\ UNCHANGED <<counter, issue, caps, upstream, egressLog>>

\* deny: the refusal is logged and the call ends.
Deny(c) == End(c) /\ LogCall(c, FALSE)

\* A URL with user information or a query is refused before anything is read.
DenyUrl(c) ==
  /\ At(c, "arrived")
  /\ Deny(c)
  /\ UNCHANGED vars
  /\ UNCHANGED <<counter, issue, caps, upstream>>

\* Bug: the agent's row is looked up without `revoked = 0`.
CheckIntentBug(c) ==
  /\ At(c, "arrived")
  /\ IF call[c].target \in Allowlist[call[c].agent]
       THEN SetCall(c, "permitted") /\ UNCHANGED egressLog
       ELSE Deny(c)
  /\ UNCHANGED vars
  /\ UNCHANGED <<counter, issue, caps, upstream>>

\* agent_intent and egress_match: an agent that is not active gets an error, a
\* target that is not on its allowlist a logged refusal.
CheckIntent(c) ==
  /\ At(c, "arrived")
  /\ IF agents[call[c].agent] # "active"
       THEN End(c) /\ UNCHANGED egressLog
       ELSE IF call[c].target \in Allowlist[call[c].agent]
         THEN SetCall(c, "permitted") /\ UNCHANGED egressLog
         ELSE Deny(c)
  /\ UNCHANGED vars
  /\ UNCHANGED <<counter, issue, caps, upstream>>

\* resolve_and_vet, which waits for DNS, and the limits on the body.
Vet(c) ==
  /\ At(c, "permitted")
  /\ \/ SetCall(c, "vetted") /\ UNCHANGED egressLog
     \/ Deny(c)
  /\ UNCHANGED vars
  /\ UNCHANGED <<counter, issue, caps, upstream>>

\* Bug: a used capability matches as well.
SpendableBug(c) ==
  {k \in caps : /\ k.token = call[c].token
                /\ k.agent = call[c].agent
                /\ k.target = call[c].target
                /\ k.exp >= call[c].now}

\* The rows `UPDATE agent_egress_capabilities ... WHERE` matches.
Spendable(c) ==
  {k \in caps : /\ k.token = call[c].token
                /\ k.agent = call[c].agent
                /\ k.target = call[c].target
                /\ ~k.used
                /\ k.exp >= call[c].now}

\* The capability is spent in one statement, before anything is sent.
Spend(c) ==
  /\ At(c, "vetted")
  /\ IF Spendable(c) = {}
       THEN End(c) /\ UNCHANGED caps
       ELSE /\ caps' = (caps \ Spendable(c)) \cup {[k EXCEPT !.used = TRUE] : k \in Spendable(c)}
            /\ SetCall(c, "spent")
  /\ UNCHANGED vars
  /\ UNCHANGED <<counter, issue, upstream, egressLog>>

\* Bug: the headers are checked after the request has gone out.
DenyHeaderBug(c) ==
  /\ At(c, "sent")
  /\ Deny(c)
  /\ UNCHANGED vars
  /\ UNCHANGED <<counter, issue, caps, upstream>>

\* A header the policy does not allow is found after the token is spent.
DenyHeader(c) ==
  /\ At(c, "spent")
  /\ Deny(c)
  /\ UNCHANGED vars
  /\ UNCHANGED <<counter, issue, caps, upstream>>

\* The request goes out.  With no answer within 15 s the caller gets an error
\* and nothing is logged, whether or not the request arrived.
Send(c) ==
  /\ At(c, "spent")
  /\ \/ upstream' = upstream \cup {[id |-> c, by |-> call[c]]} /\ SetCall(c, "sent")
     \/ upstream' = upstream \cup {[id |-> c, by |-> call[c]]} /\ End(c)
     \/ UNCHANGED upstream /\ End(c)
  /\ UNCHANGED vars
  /\ UNCHANGED <<counter, issue, caps, egressLog>>

\* record_egress, whose failure is ignored.
Record(c) ==
  /\ At(c, "sent")
  /\ End(c)
  /\ LogCall(c, TRUE) \/ UNCHANGED egressLog
  /\ UNCHANGED vars
  /\ UNCHANGED <<counter, issue, caps, upstream>>

\* A statement fails, a credential is missing or the body is too large.
FailCall(c) ==
  /\ Running(c) /\ call[c].phase # "sent"
  /\ End(c)
  /\ UNCHANGED vars
  /\ UNCHANGED <<counter, issue, caps, upstream, egressLog>>

----------------------------------------------------------------------------
(* POST /agent/egress/log: rows about calls the gateway never sees.        *)

Reported == {x \in egressLog : x.call = NoCall}

\* agent_egress_log: an agent whose signature was accepted reports a call of its
\* own.  The row is always marked allowed, whatever happened.
ReportEgress(a, q) ==
  /\ VoluntaryLog
  /\ agents[a] # "none"
  /\ Cardinality(Reported) < MaxReports
  /\ egressLog' = egressLog \cup {[call |-> NoCall, agent |-> a, target |-> q, allowed |-> TRUE]}
  /\ UNCHANGED vars
  /\ UNCHANGED <<counter, issue, caps, call, upstream>>

\* log_denied_egress: such a report whose signature is refused leaves a row in the
\* name of the agent its body claims.  (A failed insert is ignored.)
LogDeniedEgress(a, q) ==
  /\ Cardinality(Reported) < MaxReports
  /\ egressLog' = egressLog \cup {[call |-> NoCall, agent |-> a, target |-> q, allowed |-> FALSE]}
  /\ UNCHANGED vars
  /\ UNCHANGED <<counter, issue, caps, call, upstream>>

----------------------------------------------------------------------------
(* Specification.                                                          *)

NoIssue(a, q) == [phase |-> "none", agent |-> a, target |-> q, now |-> 0]

EgressInit ==
  /\ Init
  /\ counter = [a \in Agents |-> [w \in 0..Window(MaxTime) |-> 0]]
  /\ issue = [r \in Requests |-> NoIssue(CHOOSE a \in Agents : TRUE,
                                         CHOOSE q \in Targets : TRUE)]
  /\ caps = {}
  /\ call = [c \in Calls |-> NoCall]
  /\ upstream = {}
  /\ egressLog = {}

\* The process dies: handlers in flight are lost, rows and what was sent stay.
EgressCrash ==
  /\ IF \E r \in Requests : stage[r] \in Holding \cup {"received"}
       THEN Crash /\ UNCHANGED agentVars
       ELSE UNCHANGED vars
  /\ issue' = [r \in Requests |->
       IF issue[r].phase \in {"admitted", "dated", "pruned"}
         THEN [issue[r] EXCEPT !.phase = "failed"] ELSE issue[r]]
  /\ call' = [c \in Calls |->
       IF call[c] = NoCall THEN NoCall ELSE Ended]
  /\ UNCHANGED <<counter, caps, upstream, egressLog>>

\* A step of the identified path that is not the start of a submission.
AgentStep ==
  \/ \E a \in Agents : RegisterAgent(a) \/ RevokeAgent(a)
  \/ \E r \in Requests : Handle(r)
  \/ \E r \in Requests : Fail(r) /\ UNCHANGED agentVars
  \/ Tick /\ UNCHANGED agentVars

IssueStep(r) ==
  \/ \E a \in Agents, q \in Targets : Admit(r, a, q)
  \/ \E e \in Envelopes, S \in SUBSET Agents : SubmitIssue(r, e, S)
  \/ DateCap(r) \/ PruneCaps(r) \/ InsertCap(r) \/ FailIssue(r)

CallStep(c) ==
  \/ \E a \in Agents, q \in Targets, r \in Requests : Arrive(c, a, q, r)
  \/ DenyUrl(c) \/ CheckIntent(c) \/ Vet(c) \/ Spend(c) \/ DenyHeader(c) \/ Send(c)
  \/ Record(c) \/ FailCall(c)

ReportStep == \E a \in Agents, q \in Targets : ReportEgress(a, q) \/ LogDeniedEgress(a, q)

EgressNext ==
  \/ AgentStep /\ UNCHANGED egressVars
  \/ \E r \in Requests : IssueStep(r)
  \/ \E c \in Calls : CallStep(c)
  \/ ReportStep
  \/ EgressCrash

EgressSpec == EgressInit /\ [][EgressNext]_allVars

----------------------------------------------------------------------------
(* Properties.                                                             *)

\* One capability lets at most one request out, however many calls present it
\* at once, whichever of them fail or crash, and although the rows of used
\* capabilities are deleted.
CapabilitySpentOnce ==
  \A x, y \in upstream : x.by.token = y.by.token => x = y

\* Whatever reaches the outside was authorised all the way: its capability's
\* action receipt is stored, for the calling agent and the URL called; the
\* envelope and the A-JWT behind it were valid when the call arrived; the agent
\* was not revoked at that time; and the target is on the agent's allowlist.
CallsAreAuthorised ==
  \A x \in upstream :
    LET k == x.by IN
      /\ \E row \in receipts : row.id = k.token
      /\ env[k.token].agent = k.agent
      /\ env[k.token].url = k.target.url
      /\ k.now <= env[k.token].exp /\ k.now <= env[k.token].ajwtExp
      /\ k.agent \notin k.gone
      /\ k.target \in Allowlist[k.agent]

\* What the gateway writes to agent_egress_log is true: a row of one of its calls
\* is marked allowed exactly when that call went out, by the agent and to the
\* target the row names, and no call has rows of both kinds.  A row marked allowed
\* that is of no call of the gateway is there only because voluntary reports are
\* switched on.
LogMatchesCalls ==
  \A x \in egressLog :
    /\ x.call # NoCall =>
         (x.allowed <=> \E y \in upstream : /\ y.id = x.call
                                          /\ y.by.agent = x.agent
                                          /\ y.by.target = x.target)
    /\ x.call = NoCall /\ x.allowed => VoluntaryLog
=============================================================================
