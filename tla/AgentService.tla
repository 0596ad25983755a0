---------------------------- MODULE AgentService ----------------------------
(***************************************************************************)
(* The identified action path as a service: its handlers take a read guard *)
(* of the server state before they ask for a connection                    *)
(* (agent_action.rs: state.read_or_recover(), then st.db.lock()).  Module  *)
(* StateLock shows that this lock can come to a stop for good; a request   *)
(* that has its guard by then still runs to its end, one that has not      *)
(* waits until the process is restarted.                                   *)
(***************************************************************************)
EXTENDS AgentActions

VARIABLE jammed  \* the state's lock grants nothing any more

serviceVars == <<clock, nonces, receipts, stage, env, stamp, link, agents, ring, checked, gone,
                 jammed>>

\* The deadlock of StateLock: a handler that has a read guard asks for another
\* one while a writer waits.
Jam ==
  /\ ~jammed
  /\ jammed' = TRUE
  /\ UNCHANGED vars

\* A request without a read guard gets one only while the lock works; the
\* connection it then waits for, or gives up, comes after.
Guarded(r) == stage[r] = "received" => ~jammed

HandleGuarded(r) == Guarded(r) /\ Handle(r) /\ UNCHANGED jammed

ServiceInit == Init /\ jammed = FALSE

ServiceNext ==
  \/ \E r \in Requests : HandleGuarded(r)
  \/ /\ \/ \E r \in Requests, e \in Envelopes, S \in SUBSET Agents : Submit(r, e, S)
        \/ \E r \in Requests : Guarded(r) /\ Fail(r) /\ UNCHANGED agentVars
        \/ ~jammed /\ \E a \in Agents : RegisterAgent(a) \/ RevokeAgent(a)
        \/ Tick /\ UNCHANGED agentVars
     /\ UNCHANGED jammed
  \/ Crash /\ UNCHANGED agentVars /\ jammed' = FALSE
  \/ Jam

\* A handler that has a worker thread runs to its end: it waits for the read
\* guard and for a pooled connection, and for nothing else.
Fairness == \A r \in Requests : WF_serviceVars(HandleGuarded(r))

FairSpec == ServiceInit /\ [][ServiceNext]_serviceVars /\ Fairness

----------------------------------------------------------------------------
(* Properties.                                                             *)

\* Every request that arrives is answered, whatever the load on the pool, unless
\* the state's lock jams: the connections it waits for are handed back on every
\* path, by requests that are refused, fail half-way or get their receipt.
EveryRequestAnswered ==
  \A r \in Requests : (stage[r] = "received") ~> (stage[r] \in {"done", "failed"} \/ jammed)
=============================================================================
