----------------------------- MODULE MCServices -----------------------------
(* The services around the action path, for TLC: call signatures, the state *)
(* lock, policy rules, the policy store, cohort statistics, what every      *)
(* request passes on its way in and the evidence about hosts.  No two of    *)
(* them share state, so a behaviour explores one: `part` says which, the    *)
(* others keep one initial state.                                           *)
EXTENDS CallSignatures, StateLock, PolicyRules, PolicyStore, CohortStats, Ingress,
        Attestation

CONSTANTS s1, s2, d1, d2, n1, n2, k1

VARIABLE part

----------------------------------------------------------------------------
(* Two copies of one signed call and of one DPoP proof, one of each for a    *)
(* body that was not signed or that names another agent, an unsigned request,*)
(* an exempt route and a later call under a nonce that was used before.      *)

SignedCall ==
  [path |-> "egressLog", surface |-> "sig", agent |-> s1, key |-> s1, ts |-> 1, nonce |-> 1,
   covers |-> "a", body |-> "a", bodyAgent |-> s1, digest |-> d1]
MCSigRequests ==
  {SignedCall, [SignedCall EXCEPT !.body = "b"],
   [SignedCall EXCEPT !.bodyAgent = s2, !.nonce = 2],
   [SignedCall EXCEPT !.surface = "dpop", !.bodyAgent = Nobody],
   [SignedCall EXCEPT !.surface = "dpop", !.key = s2],
   [SignedCall EXCEPT !.surface = "none"], [SignedCall EXCEPT !.path = "exempt"],
   [SignedCall EXCEPT !.ts = SigLast]}

----------------------------------------------------------------------------
(* Every field of a binding, two windows (one over midnight), and leaves     *)
(* that are true, a number, an optional name and an unknown one.             *)

MCFieldChoices ==
  {<<"max_budget_usd", 3>>, <<"daily_budget_usd", 1>>, <<"max_single_action_usd", 1>>,
   <<"data_scope", [allow |-> {"public"}, deny |-> {"pii"}]>>, <<"allowed_tools", {"pay"}>>,
   <<"tool_denylist", {"pay"}>>, <<"rate_limit", 1>>, <<"weekly_rate", 1>>,
   <<"max_concurrent", 0>>, <<"cooldown_seconds", 1>>,
   <<"time_window", [start |-> 1, end |-> 3, offset |-> 0]>>,
   <<"time_window", [start |-> 4, end |-> 1, offset |-> 1]>>,
   <<"required_signatures", {[role |-> "cfo", threshold |-> 2]}>>, <<"delegation", 0>>,
   <<"domain_denylist", {"x.com"}>>, <<"domain_allowlist", {"x.com"}>>,
   <<"max_payload_bytes", 1>>, <<"content_type_allowlist", {"json"}>>, <<"max_recipients", 1>>,
   <<"max_chain_depth", 1>>, <<"pii_block", TRUE>>, <<"pii_block", FALSE>>,
   <<"language_allowlist", {"en"}>>, <<"currency_allowlist", {"EUR"}>>,
   <<"geo", [allow |-> {"FR"}, deny |-> {"KP"}]>>, <<"geo", [allow |-> {}, deny |-> {}]>>,
   <<"business_hours", [days |-> (1 :> [start |-> 1, end |-> 4])]>>,
   <<"holiday_blackout_dates", {"2026-05-21"}>>, <<"pinned_version", "v1">>, <<"dry_run", TRUE>>}

MCLeafChoices ==
  {Leaf("true", ""), Node("num", "", 2, <<>>), Leaf("ident", "payment_currency"),
   Leaf("ident", "unknown")}

MCAction(tool, meta, sigs, depth) ==
  [tool |-> tool, meta |-> meta, signatures |-> sigs, delegation_depth |-> depth, timestamp |-> 1]
MCPayment ==
  MCAction("pay", ("amount_usd" :> 2) @@ ("currency" :> "EUR") @@ ("target_domain" :> "x.com"),
           <<[role |-> "cfo", id |-> "a"], [role |-> "cfo", id |-> "a"]>>, 0)
MCBare == MCAction("read", <<>>, <<>>, 0)
MCRich ==
  MCAction("pay",
    ("amount_usd" :> 1) @@ ("data_classification" :> "public") @@ ("content_type" :> "json")
      @@ ("payload_bytes" :> 2) @@ ("detected_language" :> "en") @@ ("agent_version" :> "v1")
      @@ ("client_country" :> "FR") @@ ("pii_detected" :> TRUE) @@ ("recipient_count" :> 2)
      @@ ("chain_depth" :> 2) @@ ("currency" :> "USD"),
    <<[role |-> "cfo", id |-> "a"], [role |-> "cfo", id |-> "b"]>>, 1)
MCScenarios ==
  {[action |-> MCPayment, now |-> 4, ledger |-> 0, override |-> {}],
   [action |-> MCPayment, now |-> 0, ledger |-> 2, override |-> {0}],
   [action |-> MCBare, now |-> 2, ledger |-> 2, override |-> {0}],
   [action |-> MCRich, now |-> 1, ledger |-> 2, override |-> {3}]}

----------------------------------------------------------------------------
(* Two tenants that upload one text; the agent is t1's.                      *)

MCCap == [p \in Policies |-> 1]
MCHome == [a \in PolAgents |-> "t1"]
MCUploads == {<<"t1", "p1">>, <<"t2", "p1">>, <<"t1", "p2">>}
MCSpenders == {<<"t1", "p1", "a1">>, <<"t2", "p1", "a1">>}

----------------------------------------------------------------------------
(* A cohort of two tenants with a budget of one publication, a second        *)
(* definition whose default cap on delta is refused, and one rotation.       *)

MCCohort(e, d, len, cap) ==
  [tenants |-> {"t1", "t2"}, k |-> 2, eps |-> e, delta |-> d, len |-> len, cap |-> cap, capD |-> {}]
MCCohortUploads == {MCCohort(1, 1, 2, {1}), MCCohort(1, 2, 1, {})}
MCRotations == {[cycle |-> 0, cap |-> 2, capD |-> 1, metrics |-> {}]}
MCSubmissions ==
  {<<"t1", "a", 1>>, <<"t1", "none", 1>>, <<"t2", "none", 1>>, <<"t1", "a", 2>>, <<"t2", "none", 2>>}

----------------------------------------------------------------------------

(* A server that insists on hardware and registered readings, one with the     *)
(* defaults of production and one with those of development.                 *)

MCProduction ==
  [vendorRoots |-> TRUE, rejectDev |-> TRUE, nitroRoot |-> FALSE, requireRoot |-> TRUE,
   requireHardware |-> FALSE, preregistered |-> FALSE, golden |-> {}, serverDerived |-> FALSE]
MCPcrSets == {<<"stated">>}
MCDeployments ==
  {MCProduction,
   [MCProduction EXCEPT !.requireHardware = TRUE, !.preregistered = TRUE, !.golden = {<<"good">>}],
   [MCProduction EXCEPT !.vendorRoots = FALSE, !.rejectDev = FALSE, !.requireRoot = FALSE,
                        !.serverDerived = TRUE]}

----------------------------------------------------------------------------

Parts == {"calls", "lock", "rules", "store", "cohort", "ingress", "evidence"}

MCInit ==
  /\ part \in Parts
  /\ SigInit /\ LockInit /\ RulesInit /\ StoreInit /\ CohortInit /\ IngressInit /\ AttInit
  /\ checksum = [a \in Signers |-> d1]
  /\ part # "calls" => enforce
  /\ part # "evidence" => deployment = MCProduction
  /\ part # "lock" => kind = [h \in Requesters |-> "read"]

MCNext ==
  /\ UNCHANGED part
  /\ \/ /\ part = "calls" /\ SigNext
        /\ UNCHANGED <<lockVars, ruleVars, storeVars, cohortVars, ingressVars, attVars>>
     \/ /\ part = "lock" /\ LockNext
        /\ UNCHANGED <<sigVars, ruleVars, storeVars, cohortVars, ingressVars, attVars>>
     \/ /\ part = "rules" /\ RulesNext
        /\ UNCHANGED <<sigVars, lockVars, storeVars, cohortVars, ingressVars, attVars>>
     \/ /\ part = "store" /\ StoreNext
        /\ UNCHANGED <<sigVars, lockVars, ruleVars, cohortVars, ingressVars, attVars>>
     \/ /\ part = "cohort" /\ CohortNext
        /\ UNCHANGED <<sigVars, lockVars, ruleVars, storeVars, ingressVars, attVars>>
     \/ /\ part = "ingress" /\ IngressNext
        /\ UNCHANGED <<sigVars, lockVars, ruleVars, storeVars, cohortVars, attVars>>
     \/ /\ part = "evidence" /\ AttNext
        /\ UNCHANGED <<sigVars, lockVars, ruleVars, storeVars, cohortVars, ingressVars>>

\* Only s1 signs: what happens to the row of s2 matters to no request.  Spend is
\* recorded for p1 alone, in behaviours where p2 is neither stored nor served.
\* An admitted payment ends the behaviour: no step reads admitted and a shared row
\* stays shared, so what follows is a behaviour without the payment.  Only t2 opens
\* a row with a record of nothing.
\* One agent or request relies on anything but hardware evidence, which then claims
\* the good reading; the first of the interchangeable challenges and keys come first.
MCSoft == {e \in enrolled \cup {enrolling[r] : r \in {r \in Enrolments : enrolling[r] # Unset}} :
            IF e.chal = Unset THEN TRUE ELSE e.doc.form # "tpm2"}
MCFocus ==
  /\ Cardinality(MCSoft) <= 1 /\ \A e \in MCSoft : e.chal = Unset \/ e.doc.reading = "good"
  /\ Cardinality(enrolled) <= 2
  /\ challenges[n2] = Unset \/ challenges[n1] # Unset
  /\ IF challenges[n1] = Unset THEN TRUE ELSE challenges[n1].key = k1
  /\ s2 \in unrevoked /\ checksum[s2] = d1
  /\ \/ \A pa \in Policies \X PolAgents : ledger[pa] = NoRow
     \/ polTable["p2"] = NoOne /\ \A t \in Tenants : <<t, "p2">> \notin polCache
  /\ admitted = {}
  /\ \A pa \in Policies \X PolAgents : ledger[pa].tenant = "t1" => ledger[pa].total # 0

\* The same two requests serve every part.
MCSymmetry == Permutations(Handlers)
=============================================================================
