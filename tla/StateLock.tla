------------------------------ MODULE StateLock ------------------------------
(***************************************************************************)
(* The RwLock around ServerState and the connection pool, as the handlers  *)
(* take them (state.rs, sync_recover.rs, db.rs, rings.rs).                 *)
(*                                                                         *)
(* A handler is its sequence of acquisitions and releases.  The lock is    *)
(* std::sync::RwLock, which lets no reader in while a writer waits; the    *)
(* pool hands out a connection or gives up after its timeout.              *)
(***************************************************************************)
EXTENDS Naturals, Sequences, FiniteSets, FiniteSetsExt

CONSTANTS Requesters,  \* requests in flight
          Pool       \* connections of the pool

ASSUME LockAssumption == Pool \in Nat \ {0}

VARIABLES kind,     \* the handler each request runs
          pc,       \* how many of its steps each request has done
          waiting,  \* requests that wait for the write lock
          dead      \* requests that gave up waiting for a connection

lockVars == <<kind, pc, waiting, dead>>

\* Acquisitions (R, W, C) and releases (r, w, c), guards dropped in the reverse
\* order.  L is the connection ServerState::log asks for.
Statement == <<"R", "C", "c", "r">>
Log == <<"R", "L", "c", "r">>

\* Bug: the read guard of the SELECT lives until the point has been dropped.
RevokeAgentStepsBug == Statement \o <<"R", "C", "c", "W", "w", "r">> \o Log

\* revoke_agent: two statements, the ring under the write lock, the log.
RevokeAgentSteps == Statement \o Statement \o <<"W", "w">> \o Log

\* handle_register logs under the write guard.
RegisterSteps == Statement \o <<"W", "L", "c", "w">>

\* subscribe_handler and revoke_handler log under a second read guard and with
\* a second connection, while they hold the first ones.
SubscribeSteps == <<"R", "C", "R", "L", "c", "r", "c", "r">>

Steps(k) ==
  CASE k = "read" -> Statement
    [] k = "revoke" -> RevokeAgentSteps
    [] k = "register" -> RegisterSteps
    [] k = "subscribe" -> SubscribeSteps

Running == {h \in Requesters : h \notin dead /\ pc[h] < Len(Steps(kind[h]))}
Todo(h) == Steps(kind[h])[pc[h] + 1]

\* What a request holds: how often it has acquired x more than released it.
Count(h, x) == Cardinality({i \in 1..pc[h] : Steps(kind[h])[i] \in x})
Holds(h, acq, rel) == IF h \in dead THEN 0 ELSE Count(h, acq) - Count(h, rel)
Reads(h) == Holds(h, {"R"}, {"r"})
Writes(h) == Holds(h, {"W"}, {"w"})
Conns(h) == Holds(h, {"C", "L"}, {"c"})

InUse == MapThenSumSet(Conns, Requesters)

Writing == {h \in Requesters : Writes(h) > 0}
Reading == {h \in Requesters : Reads(h) > 0}

\* Whether the next acquisition is granted now.
Granted(h) ==
  CASE Todo(h) = "R" -> Writing = {} /\ waiting = {}
    [] Todo(h) = "W" -> Writing = {} /\ Reading = {}
    [] Todo(h) \in {"C", "L"} -> InUse < Pool
    [] OTHER -> TRUE

Take(h) ==
  /\ h \in Running
  /\ Granted(h)
  /\ pc' = [pc EXCEPT ![h] = @ + 1]
  /\ waiting' = waiting \ {h}
  /\ UNCHANGED <<kind, dead>>

\* A writer that finds the lock taken announces itself.
AwaitWrite(h) ==
  /\ h \in Running \ waiting
  /\ Todo(h) = "W" /\ ~Granted(h)
  /\ waiting' = waiting \cup {h}
  /\ UNCHANGED <<kind, pc, dead>>

\* Pool::get times out: a log entry is dropped, with its connection; any other
\* handler panics, which releases what it holds and poisons nothing for good.
PoolTimeout(h) ==
  /\ h \in Running
  /\ Todo(h) \in {"C", "L"} /\ ~Granted(h)
  /\ IF Todo(h) = "L"
       THEN pc' = [pc EXCEPT ![h] = @ + 2] /\ UNCHANGED dead
       ELSE dead' = dead \cup {h} /\ UNCHANGED pc
  /\ UNCHANGED <<kind, waiting>>

LockInit ==
  /\ kind \in [Requesters -> {"read", "revoke", "register", "subscribe"}]
  /\ pc = [h \in Requesters |-> 0]
  /\ waiting = {} /\ dead = {}

LockNext == \E h \in Requesters : Take(h) \/ AwaitWrite(h) \/ PoolTimeout(h)

LockSpec == LockInit /\ [][LockNext]_lockVars

----------------------------------------------------------------------------
(* Properties.                                                             *)

CanMove(h) == Granted(h) \/ Todo(h) \in {"C", "L"} \/ (Todo(h) = "W" /\ h \notin waiting)

\* A request that asks for a second read guard while it has one.
Renewing == {h \in Running : Todo(h) = "R" /\ Reads(h) > 0}

\* Requests wait on each other for ever only when one of the ring handlers asks
\* for its second read guard while a writer waits for the first; no other mix of
\* handlers, guards and pool sizes comes to a stop.
StuckOnlyByNestedRead ==
  Running # {} /\ (\A h \in Running : ~CanMove(h)) => Renewing # {} /\ waiting # {}
=============================================================================
