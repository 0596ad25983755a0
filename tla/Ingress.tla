------------------------------- MODULE Ingress -------------------------------
(***************************************************************************)
(* What every request passes on its way in and out: the per-address token  *)
(* bucket of core/src/middleware/rate_limit.rs, and the security audit log *)
(* of core/src/middleware/audit_log.rs that rejected requests end up in.   *)
(*                                                                         *)
(* Tokens are counted in units: a request costs Cost of them and a tick of *)
(* the clock refills Refill.  The hash of an audit entry is collision free *)
(* and is represented by what it covers.                                   *)
(***************************************************************************)
EXTENDS Naturals, Sequences, FiniteSets, Functions

CONSTANTS
  Callers,      \* requests in flight
  Addresses,    \* remote addresses
  Cost,         \* units a request costs
  Refill,       \* units a bucket gains per tick
  Burst,        \* units a bucket holds
  BucketTtl,    \* ticks after which an idle bucket is pruned
  NoBucket,     \* no bucket for an address
  Unlocked,     \* nobody holds AUDIT_CHAIN_LOCK
  IngressEnd,   \* bound on the clock (model bound)
  MaxEvents,    \* bound on the events recorded (model bound)
  MaxHeadFaults \* bound on failed reads of the chain's head (model bound)

\* The limiter is on, and a bucket that has been idle for BucketTtl is full
\* again: true of the defaults, 50 tokens, 200 per second and 300 seconds.
ASSUME IngressAssumption ==
  /\ {Cost, Refill, Burst, BucketTtl} \subseteq Nat \ {0}
  /\ Burst <= Refill * BucketTtl
  /\ NoBucket \notin [tokens: Nat, last: Nat]
  /\ Unlocked \notin Callers
  /\ IngressEnd \in Nat

VARIABLES
  inNow,      \* the clock
  buckets,    \* GlobalRateLimiter.buckets
  letIn,   \* history: requests let in, per address and tick
  caller,     \* where each request is
  fileSink,   \* lines of the file sink
  auditLog,   \* rows of security_audit_log that carry a seq
  chainLock,  \* who holds AUDIT_CHAIN_LOCK
  events,     \* how many events have been recorded
  sinkLosses, \* AUDIT_SINK_FAILURES
  headFaults  \* history: reads of the head that failed

ingressVars == <<inNow, buckets, letIn, caller, fileSink, auditLog, chainLock,
                 events, sinkLosses, headFaults>>

Outside == [at |-> "outside"]
CallerAt(c, at) == caller[c].at = at
Becomes(c, local) == caller' = [caller EXCEPT ![c] = local]

----------------------------------------------------------------------------
(* The token bucket.                                                       *)

Least(x, y) == IF x < y THEN x ELSE y

\* The tokens of a bucket now; an address without one gets a full bucket.
Refilled(b) == IF b = NoBucket THEN Burst ELSE Least(Burst, b.tokens + (inNow - b.last) * Refill)

\* Recording an event starts with its id.
Recording == [at |-> "file", id |-> events + 1]

\* global_rate_limit_middleware and, around the handler, audit_log_middleware.
\* A request that is let in is answered at once: with 401 or 403 (denied), on
\* a path other than the audit query's own, it is recorded.
Admit(c, ip, denied) ==
  /\ CallerAt(c, "outside")
  /\ Refilled(buckets[ip]) >= Cost
  /\ buckets' = [buckets EXCEPT ![ip] = [tokens |-> Refilled(buckets[ip]) - Cost, last |-> inNow]]
  /\ letIn' = [letIn EXCEPT ![ip][inNow] = @ + 1]
  /\ denied => events < MaxEvents
  /\ events' = IF denied THEN events + 1 ELSE events
  /\ Becomes(c, IF denied THEN Recording ELSE Outside)
  /\ UNCHANGED <<inNow, fileSink, auditLog, chainLock, sinkLosses, headFaults>>

\* An empty bucket: 429, and the trip is recorded.
TurnAway(c, ip) ==
  /\ CallerAt(c, "outside")
  /\ Refilled(buckets[ip]) < Cost
  /\ buckets' = [buckets EXCEPT ![ip] = [tokens |-> Refilled(buckets[ip]), last |-> inNow]]
  /\ events < MaxEvents
  /\ events' = events + 1
  /\ Becomes(c, Recording)
  /\ UNCHANGED <<inNow, letIn, fileSink, auditLog, chainLock, sinkLosses, headFaults>>

\* Bug: the sweep evicts buckets that are not full again.
IdleBug(ip) == buckets[ip] # NoBucket /\ inNow > buckets[ip].last

Idle(ip) == buckets[ip] # NoBucket /\ inNow - buckets[ip].last >= BucketTtl

\* The pruner's sweep.
Prune ==
  /\ \E ip \in Addresses : Idle(ip)
  /\ buckets' = [ip \in Addresses |-> IF Idle(ip) THEN NoBucket ELSE buckets[ip]]
  /\ UNCHANGED <<inNow, letIn, caller, fileSink, auditLog, chainLock, events, sinkLosses,
                 headFaults>>

IngressTick ==
  /\ inNow < IngressEnd
  /\ inNow' = inNow + 1
  /\ UNCHANGED <<buckets, letIn, caller, fileSink, auditLog, chainLock, events, sinkLosses,
                 headFaults>>

----------------------------------------------------------------------------
(* record: the file sink, then the database sink.                          *)

Genesis == <<>>
EntryHash(seq, prev, id) == Append(prev, <<seq, id>>)

\* write_file_sink; a failure is counted and the event goes on.
WriteFileSink(c) ==
  /\ CallerAt(c, "file")
  /\ \/ /\ fileSink' = fileSink \cup {caller[c].id}
        /\ UNCHANGED sinkLosses
     \/ /\ sinkLosses' = sinkLosses + 1
        /\ UNCHANGED fileSink
  /\ Becomes(c, [caller[c] EXCEPT !.at = "connect"])
  /\ UNCHANGED <<inNow, buckets, letIn, auditLog, chainLock, events, headFaults>>

\* write_db_sink asks the pool for a connection, or counts a loss.
Connect(c) ==
  /\ CallerAt(c, "connect")
  /\ \/ /\ Becomes(c, [caller[c] EXCEPT !.at = "lock"])
        /\ UNCHANGED sinkLosses
     \/ /\ Becomes(c, Outside)
        /\ sinkLosses' = sinkLosses + 1
  /\ UNCHANGED <<inNow, buckets, letIn, fileSink, auditLog, chainLock, events, headFaults>>

\* Bug: nothing serialises reading the head and inserting after it.
ChainFreeBug(c) == TRUE

ChainFree(c) == chainLock = Unlocked

LockChain(c) ==
  /\ CallerAt(c, "lock")
  /\ ChainFree(c)
  /\ chainLock' = c
  /\ Becomes(c, [caller[c] EXCEPT !.at = "head"])
  /\ UNCHANGED <<inNow, buckets, letIn, fileSink, auditLog, events, sinkLosses, headFaults>>

\* The row audit_chain_head returns, one of the greatest seq.
ChainHeads == {r \in auditLog : \A q \in auditLog : q.seq <= r.seq}
ReadRow(c, seq, prev) ==
  Becomes(c, [at |-> "insert", id |-> caller[c].id, seq |-> seq + 1, prev |-> prev])

\* The head of the chain; a read that fails is taken for an empty log.
ReadHead(c) ==
  /\ CallerAt(c, "head")
  /\ \/ /\ IF auditLog = {} THEN ReadRow(c, 0, Genesis)
           ELSE \E r \in ChainHeads : ReadRow(c, r.seq, r.hash)
        /\ UNCHANGED headFaults
     \/ /\ headFaults < MaxHeadFaults
        /\ headFaults' = headFaults + 1
        /\ ReadRow(c, 0, Genesis)
  /\ UNCHANGED <<inNow, buckets, letIn, fileSink, auditLog, chainLock, events, sinkLosses>>

\* The INSERT, or a loss that is counted; the lock is dropped either way.
InsertEntry(c) ==
  /\ CallerAt(c, "insert")
  /\ LET e == caller[c] IN
       \/ /\ auditLog' = auditLog \cup
               {[seq |-> e.seq, prev |-> e.prev, hash |-> EntryHash(e.seq, e.prev, e.id)]}
          /\ UNCHANGED sinkLosses
       \/ /\ sinkLosses' = sinkLosses + 1
          /\ UNCHANGED auditLog
  /\ chainLock' = Unlocked
  /\ Becomes(c, Outside)
  /\ UNCHANGED <<inNow, buckets, letIn, fileSink, events, headFaults>>

\* verify_audit_chain: seq counts from 1 without gaps and every prev_hash is
\* the entry_hash of the row before.
VerifyAuditChain ==
  /\ {r.seq : r \in auditLog} = 1..Cardinality(auditLog)
  /\ \A r \in auditLog :
       \/ r.seq = 1 /\ r.prev = Genesis
       \/ \E q \in auditLog : q.seq + 1 = r.seq /\ q.hash = r.prev

----------------------------------------------------------------------------
(* Specification.                                                          *)

IngressInit ==
  /\ inNow = 0
  /\ buckets = [ip \in Addresses |-> NoBucket]
  /\ letIn = [ip \in Addresses |-> [t \in 0..IngressEnd |-> 0]]
  /\ caller = [c \in Callers |-> Outside]
  /\ fileSink = {}
  /\ auditLog = {}
  /\ chainLock = Unlocked
  /\ events = 0
  /\ sinkLosses = 0
  /\ headFaults = 0

CallerStep(c) ==
  \/ \E ip \in Addresses : TurnAway(c, ip) \/ \E denied \in BOOLEAN : Admit(c, ip, denied)
  \/ WriteFileSink(c)
  \/ Connect(c)
  \/ LockChain(c)
  \/ ReadHead(c)
  \/ InsertEntry(c)

IngressNext ==
  \/ \E c \in Callers : CallerStep(c)
  \/ Prune
  \/ IngressTick

IngressSpec == IngressInit /\ [][IngressNext]_ingressVars

----------------------------------------------------------------------------
(* Properties.                                                             *)

\* The audit log passes its own verification whatever requests record at the
\* same time and whichever of their writes are lost, as long as no read of the
\* head has failed.
AuditLogVerifies == headFaults = 0 => VerifyAuditChain

\* Whatever the pruner evicts in between: since any earlier tick an address has
\* been let in for no more than a full bucket and what was refilled since.
AdmissionsAreBounded ==
  \A ip \in Addresses : \A s \in 0..inNow :
    Cost * SumFunctionOnSet(letIn[ip], s..inNow) <= Burst + Refill * (inNow - s)
=============================================================================
