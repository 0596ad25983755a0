------------------------------- MODULE PolicyChecks -------------------------------
(***************************************************************************)
(* The rules of a policy (policy/invariants), the order they are compiled  *)
(* in (policy/compiler.rs), the validation of an uploaded policy           *)
(* (policy/parser.rs), the two evaluators (policy/evaluator.rs) and the    *)
(* contexts the two endpoints build for them (policy/handlers.rs).         *)
(*                                                                         *)
(* A binding is a partial function from the configured fields to their     *)
(* values; an action's metadata is a partial function from the keys it     *)
(* carries.  Upper and lower case are not told apart: the checks fold it.  *)
(* Seconds and minutes are one unit of time; a time of day is below        *)
(* DayLength, and a time zone is an offset to the clock.                   *)
(***************************************************************************)
EXTENDS PolicyExpressions

CONSTANTS
  DayLength,    \* units of time in a day
  RateWindow,   \* seconds of the rate_limit window (60)
  WeekWindow    \* seconds of the weekly_rate window (7 days)

ASSUME DayAssumption == DayLength \in Nat \ {0} /\ RateWindow \in Nat /\ WeekWindow \in Nat

Has(f, k) == k \in DOMAIN f
Amount(c) == IF Has(c.action.meta, "amount_usd") THEN c.action.meta["amount_usd"] ELSE 0

---------------------------------------------------------------------------
(* What each check denies, given its configuration p and a context c.      *)

OverBudget(p, c) == c.spend + Amount(c) > p
OverDailyBudget(p, c) == c.daily + Amount(c) > p
OverActionCap(p, c) == Amount(c) > p

\* An action that carries no classification is in every scope.
OutOfScope(p, c) ==
  /\ Has(c.action.meta, "data_classification")
  /\ LET tag == c.action.meta["data_classification"] IN
     tag \in p.deny \/ (p.allow # {} /\ tag \notin p.allow)

ToolNotAllowed(p, c) == c.action.tool \notin p
ToolDenied(p, c) == c.action.tool \in p

CallsWithin(calls, now, window) == {i \in DOMAIN calls : calls[i] > now - window /\ calls[i] <= now}
RateReached(p, c) == Cardinality(CallsWithin(c.recent, c.now, RateWindow)) >= p
WeeklyRateReached(p, c) == Cardinality(CallsWithin(c.weekly, c.now, WeekWindow)) >= p
ConcurrencyReached(p, c) == c.inFlight >= p
CoolingDown(p, c) == c.last # {} /\ \E t \in c.last : c.now - t < p

\* Both ends belong to the window; a window that ends before it starts runs
\* over midnight.
InWindow(start, end, t) ==
  IF start <= end THEN t >= start /\ t <= end ELSE t >= start \/ t <= end

OutsideWindow(p, c) == ~InWindow(p.start, p.end, c.hhmm)

\* A weekday without a window is no business day.
OutsideBusinessHours(p, c) ==
  ~(c.weekday \in DOMAIN p.days /\ InWindow(p.days[c.weekday].start, p.days[c.weekday].end, c.hhmm))

OnHoliday(p, c) == c.date # "" /\ c.date \in p
Undersigned(p, c) == \E r \in p : DistinctRoleSignatures(c.action.signatures, r.role) < r.threshold
TooDeep(p, c) == c.action.delegation_depth > p

\* Lists that deny an action which does not carry the key.
Unlisted(p, c, key) == ~(Has(c.action.meta, key) /\ c.action.meta[key] \in p)
DomainDenied(p, c) == Has(c.action.meta, "target_domain") /\ c.action.meta["target_domain"] \in p
DomainNotAllowed(p, c) == Unlisted(p, c, "target_domain")
ContentTypeNotAllowed(p, c) == Unlisted(p, c, "content_type")
LanguageNotAllowed(p, c) == Unlisted(p, c, "detected_language")
CurrencyNotAllowed(p, c) == Unlisted(p, c, "currency")
VersionNotPinned(p, c) == Unlisted({p}, c, "agent_version")

\* Caps on a declared number; an action that declares none has zero.
Exceeds(p, c, key) == Has(c.action.meta, key) /\ c.action.meta[key] > p
PayloadTooLarge(p, c) == Exceeds(p, c, "payload_bytes")
TooManyRecipients(p, c) == Exceeds(p, c, "recipient_count")
ChainTooDeep(p, c) == Exceeds(p, c, "chain_depth")

\* The caller's flag, or a payload that matches one of the two patterns.
PiiFound(p, c) ==
  \E flag \in {"pii_detected", "payload_matches"} : Has(c.action.meta, flag) /\ c.action.meta[flag]

\* The deny list comes first; a non-empty allow list needs the country.
GeoBlocked(p, c) ==
  \/ Has(c.action.meta, "client_country") /\ c.action.meta["client_country"] \in p.deny
  \/ p.allow # {} /\ Unlisted(p.allow, c, "client_country")

\* A dry run is reported by the endpoint and denies nothing.
DryRun(p, c) == FALSE

---------------------------------------------------------------------------
(* Compilation: the checks of the configured fields in this order, then    *)
(* one per invariant expression.                                           *)

CheckOrder ==
  <<"max_budget_usd", "data_scope", "allowed_tools", "rate_limit", "time_window",
    "required_signatures", "delegation", "domain_denylist", "domain_allowlist", "tool_denylist",
    "daily_budget_usd", "max_single_action_usd", "weekly_rate", "max_concurrent",
    "cooldown_seconds", "max_payload_bytes", "content_type_allowlist", "max_recipients",
    "max_chain_depth", "pii_block", "language_allowlist", "currency_allowlist", "geo",
    "business_hours", "holiday_blackout_dates", "pinned_version", "dry_run">>

\* pii_block and dry_run compile only when true, geo only when a list is not empty.
Configured(b, k) ==
  /\ Has(b, k)
  /\ k \in {"pii_block", "dry_run"} => b[k]
  /\ k = "geo" => b[k].allow # {} \/ b[k].deny # {}

Compile(pol) ==
  SelectSeq([i \in DOMAIN CheckOrder |-> [kind |-> CheckOrder[i], e |-> Leaf("none", "")]],
            LAMBDA ch : Configured(pol.binding, ch.kind))
  \o [i \in DOMAIN pol.invariants |-> [kind |-> "invariant_expr", e |-> Parse(pol.invariants[i]).e]]

\* Semantic validation of an uploaded policy.
Validate(pol) ==
  LET b == pol.binding IN
  /\ pol.version = "1" /\ pol.agent # ""
  /\ \A k \in {"max_budget_usd", "daily_budget_usd", "max_single_action_usd"} : Has(b, k) => b[k] >= 0
  /\ \A k \in {"rate_limit", "weekly_rate"} : Has(b, k) => b[k] > 0
  /\ Has(b, "time_window") => {b["time_window"].start, b["time_window"].end} \subseteq 0..(DayLength - 1)
  /\ Has(b, "data_scope") => b["data_scope"].allow \cap b["data_scope"].deny = {}
  /\ Has(b, "required_signatures") => \A r \in b["required_signatures"] : r.threshold > 0 /\ r.role # ""
  /\ Has(b, "business_hours") =>
       \A wd \in DOMAIN b["business_hours"].days :
         /\ wd \in 0..6
         /\ {b["business_hours"].days[wd].start, b["business_hours"].days[wd].end}
              \subseteq 0..(DayLength - 1)

Denies(ch, b, c) ==
  LET k == ch.kind  p == IF Has(b, k) THEN b[k] ELSE 0 IN
  CASE k = "max_budget_usd" -> OverBudget(p, c)
    [] k = "data_scope" -> OutOfScope(p, c)
    [] k = "allowed_tools" -> ToolNotAllowed(p, c)
    [] k = "rate_limit" -> RateReached(p, c)
    [] k = "time_window" -> OutsideWindow(p, c)
    [] k = "required_signatures" -> Undersigned(p, c)
    [] k = "delegation" -> TooDeep(p, c)
    [] k = "domain_denylist" -> DomainDenied(p, c)
    [] k = "domain_allowlist" -> DomainNotAllowed(p, c)
    [] k = "tool_denylist" -> ToolDenied(p, c)
    [] k = "daily_budget_usd" -> OverDailyBudget(p, c)
    [] k = "max_single_action_usd" -> OverActionCap(p, c)
    [] k = "weekly_rate" -> WeeklyRateReached(p, c)
    [] k = "max_concurrent" -> ConcurrencyReached(p, c)
    [] k = "cooldown_seconds" -> CoolingDown(p, c)
    [] k = "max_payload_bytes" -> PayloadTooLarge(p, c)
    [] k = "content_type_allowlist" -> ContentTypeNotAllowed(p, c)
    [] k = "max_recipients" -> TooManyRecipients(p, c)
    [] k = "max_chain_depth" -> ChainTooDeep(p, c)
    [] k = "pii_block" -> PiiFound(p, c)
    [] k = "language_allowlist" -> LanguageNotAllowed(p, c)
    [] k = "currency_allowlist" -> CurrencyNotAllowed(p, c)
    [] k = "geo" -> GeoBlocked(p, c)
    [] k = "business_hours" -> OutsideBusinessHours(p, c)
    [] k = "holiday_blackout_dates" -> OnHoliday(p, c)
    [] k = "pinned_version" -> VersionNotPinned(p, c)
    [] k = "dry_run" -> DryRun(p, c)
    [] k = "invariant_expr" -> ~ExpressionAllows(ch.e, [action |-> c.action, spend |-> c.spend,
                                                        now |-> c.now, binding |-> b])

---------------------------------------------------------------------------
(* The evaluators.  A verdict is "allow" or the kind of the check that     *)
(* denied.                                                                 *)

\* Stops at the first check that denies.
Evaluate(pol, c) ==
  LET checks == Compile(pol)
      denied == {i \in DOMAIN checks : Denies(checks[i], pol.binding, c)} IN
  IF denied = {} THEN "allow"
  ELSE checks[CHOOSE i \in denied : \A j \in denied : i <= j].kind

\* Runs every check; the overall verdict is the first denial met.
EvaluateWithTrace(pol, c) ==
  LET checks == Compile(pol)
      trace == [i \in DOMAIN checks |->
                  [check |-> checks[i].kind, allow |-> ~Denies(checks[i], pol.binding, c)]]
      keep[i \in 0..Len(trace)] ==
        IF i = 0 THEN "allow"
        ELSE IF keep[i - 1] = "allow" /\ ~trace[i].allow THEN trace[i].check ELSE keep[i - 1] IN
  [overall |-> keep[Len(trace)], trace |-> trace]

\* The time of day in the zone of the policy's time window, else in UTC.
ComputeTzHhmm(pol, now) ==
  (now + (IF Has(pol.binding, "time_window") THEN pol.binding["time_window"].offset ELSE 0)) % DayLength

\* The part of the context nothing on the server fills in.
DefaultContext(action) ==
  [action |-> action, spend |-> 0, recent |-> <<>>, now |-> 0, hhmm |-> 0, daily |-> 0,
   weekly |-> <<>>, inFlight |-> 0, last |-> {}, weekday |-> 0, date |-> ""]

\* The ledger's total when an agent is named, else the client's own figure.
ResolveSpend(ledger, agent, override) ==
  IF agent # "" THEN ledger ELSE IF override = {} THEN 0 ELSE CHOOSE x \in override : TRUE

\* POST /v1/policy/evaluate: the client may give the spend, the clock and the
\* recent calls.
PreviewContext(pol, action, now, ledger, agent, override, recent) ==
  [DefaultContext(action) EXCEPT
     !.spend = ResolveSpend(ledger, agent, override), !.now = now,
     !.hhmm = ComputeTzHhmm(pol, now), !.recent = recent]

\* The gate of the action endpoints, always a Monday of one fixed date.
GateContext(pol, action, now, ledger, agent) ==
  [DefaultContext(action) EXCEPT
     !.spend = ResolveSpend(ledger, agent, {}), !.now = now,
     !.hhmm = ComputeTzHhmm(pol, now), !.weekday = 1, !.date = "2026-05-21"]
===================================================================================
