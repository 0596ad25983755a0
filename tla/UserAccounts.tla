---------------------------- MODULE UserAccounts ----------------------------
(***************************************************************************)
(* The user directory of the server (main.rs, merkle.rs, repository.rs):   *)
(* registration through a bank's attestation or through a partner's ring   *)
(* signature, the in-memory ring of users and the Merkle ledger of KYC     *)
(* commitments that both survive a restart only through their tables, the  *)
(* sign-in by challenge, and the single claim of a pre-authorised          *)
(* credential.                                                             *)
(*                                                                         *)
(* A handler is a job of one worker.  A job is a sequence of statements,   *)
(* each its own step: every statement autocommits on a pooled connection,  *)
(* so steps of two jobs interleave between any two of them.                *)
(***************************************************************************)
EXTENDS Naturals, Sequences, SequencesExt, FiniteSets

CONSTANTS Workers,      \* handler tasks
          Tenants,
          People,        \* key images
          AuthKeys,     \* Ed25519 sign-in keys
          Attestations, \* bank attestations: [tenant, user, pk, auth, customer, until]
          Enrolments,   \* partner registrations: [tenant, user, pk, auth, commitment]
          Challenges,   \* identifiers of sign-in challenges
          None,         \* an absent row or field
          BadLeaf,      \* a commitment that is not 32 bytes of hex
          ChallengeTtl, \* how long a challenge may be answered (120 s)
          PruneGrace,   \* how long an expired challenge is kept (300 s)
          ActiveCap,    \* open challenges one user may have (5)
          LegacyAuth,   \* SAURON_ENABLE_LEGACY_OPRF_AUTH: on in development only
          OwnPoint,     \* [People -> point]: the public key behind a user's password
          AccountEnd,     \* bound: the last value of the clock
          MaxRestarts   \* bound: restarts of the server

ASSUME AccountsAssumption ==
    /\ ChallengeTtl \in Nat /\ PruneGrace \in Nat /\ AccountEnd \in Nat
    /\ ActiveCap \in Nat \ {0} /\ MaxRestarts \in Nat /\ LegacyAuth \in BOOLEAN
    /\ \A a \in Attestations : a.user \in People /\ a.tenant \in Tenants /\ a.auth \in AuthKeys
    /\ \A e \in Enrolments : e.user \in People /\ e.tenant \in Tenants
                             /\ e.auth \in AuthKeys \cup {None}
    /\ None \notin AuthKeys /\ None \notin Challenges
    /\ Workers \cap {"none", "answered", "refused", "unloaded"} = {}

VARIABLES clock,      \* SystemTime::now()
          directory,  \* users: the public key stored under each key image
          authKey,    \* user_auth_credentials
          bindings,   \* user_auth_tenant_bindings
          links,      \* bank_kyc_links: the user of each bank customer
          spent,      \* bank_attestation_nonces
          ring,       \* ServerState::user_group
          leaves,     \* ServerState::merkle_ledger
          leafRows,   \* merkle_leaves, in the order of its AUTOINCREMENT key
          challenge,  \* user_auth_challenges
          claimed,    \* credential_codes.claimed
          vcs,        \* user_credentials: users whose credential is cached
          job,        \* the handlers in flight
          restarts,
          lastWriter, \* history: who wrote the directory row, and how that ended
          proofs,     \* history: the Merkle receipts handed out
          sessions,   \* history: the sessions issued
          faults,     \* history: users whose claim a fault cut short
          disordered  \* history: a leaf has no row, or not the row of its turn

tables == <<directory, authKey, bindings, links, spent, leafRows, challenge, claimed, vcs>>
memory == <<ring, leaves, job, restarts>>
histories == <<lastWriter, proofs, sessions, faults, disordered>>
accountVars == <<clock, tables, memory, histories>>

Commitments == {e.commitment : e \in Enrolments} \ {None, BadLeaf}
Customers == {a.customer : a \in Attestations}

Idle == [stage |-> "idle"]

\* The server starts from its tables: the ring of the users' stored keys, as far
\* as they could be read, and the leaves in the order of their rows.
RestoredRing(S) == {directory[u] : u \in S} \ {None}

AccountInit ==
    /\ clock = 0
    /\ directory = [u \in People |-> None]
    /\ authKey = [u \in People |-> None]
    /\ bindings = {}
    /\ links = [c \in Customers |-> None]
    /\ spent = {}
    /\ ring = {}
    /\ leaves = <<>>
    /\ leafRows = <<>>
    /\ challenge = [c \in Challenges |-> None]
    /\ claimed = {}
    /\ vcs = {}
    /\ job = [w \in Workers |-> Idle]
    /\ restarts = 0
    /\ lastWriter = [u \in People |-> "none"]
    /\ proofs = {}
    /\ sessions = {}
    /\ faults = {}
    /\ disordered = FALSE

-----------------------------------------------------------------------------
(* Jobs.                                                                   *)

Move(w, stage) == job' = [job EXCEPT ![w].stage = stage]

Reply(w) == job' = [job EXCEPT ![w] = Idle]

\* A directory row is settled once the job that wrote it has answered.
Settled(w, how) ==
    lastWriter' = [u \in People |-> IF lastWriter[u] = w THEN how ELSE lastWriter[u]]

Refuse(w) == Reply(w) /\ Settled(w, "refused")

Registering == {"attested", "nonceTaken", "signed", "stored", "keyed", "bound", "linked", "committed"}

\* The registration a job carries is that of its request.
Reg(w) == job[w].reg

-----------------------------------------------------------------------------
(* bank_register_user: the attestation, its nonce, the profile (which      *)
(* overwrites the stored one), the sign-in key, the bank link, the ring.   *)

BankRegister(w, a) ==
    /\ job[w] = Idle
    /\ clock <= a.until
    /\ job' = [job EXCEPT ![w] = [stage |-> "attested", by |-> "bank", reg |-> a]]
    /\ UNCHANGED <<clock, tables, ring, leaves, restarts, histories>>

\* The nonce is consumed before anything is written.
ConsumeNonce(w) ==
    /\ job[w].stage = "attested"
    /\ IF Reg(w) \in spent
       THEN Refuse(w) /\ UNCHANGED spent
       ELSE /\ spent' = spent \cup {Reg(w)}
            /\ Move(w, "nonceTaken")
            /\ UNCHANGED lastWriter
    /\ UNCHANGED <<clock, directory, authKey, bindings, links, leafRows, challenge, claimed,
                   vcs, ring, leaves, restarts, proofs, sessions, faults, disordered>>

\* upsert_user replaces the public key of a user that is already there.
UpsertUser(w) ==
    /\ job[w].stage = "nonceTaken"
    /\ directory' = [directory EXCEPT ![Reg(w).user] = Reg(w).pk]
    /\ lastWriter' = [lastWriter EXCEPT ![Reg(w).user] = w]
    /\ Move(w, "stored")
    /\ UNCHANGED <<clock, authKey, bindings, links, spent, leafRows, challenge, claimed, vcs,
                   ring, leaves, restarts, proofs, sessions, faults, disordered>>

\* A statement fails, or the client leaves while it runs, at any point of either
\* registration; what was stored stays, and a leaf may be left without its row.
AbandonRegister(w) ==
    /\ job[w].stage \in Registering
    /\ Refuse(w)
    /\ disordered' = (disordered \/ job[w].stage = "committed")
    /\ UNCHANGED <<clock, tables, ring, leaves, restarts, proofs, sessions, faults>>

\* Only a bank's request names a customer, and its row replaces an older one.
LinkCustomer(w) ==
    /\ job[w].stage = "bound" /\ job[w].by = "bank"
    /\ links' = [links EXCEPT ![Reg(w).customer] = Reg(w).user]
    /\ Move(w, "linked")
    /\ UNCHANGED <<clock, directory, authKey, bindings, spent, leafRows, challenge, claimed,
                   vcs, ring, leaves, restarts, histories>>

\* Bug: the stored key is not added to the ring.
JoinRingBug(w) ==
    /\ job[w].stage = "linked"
    /\ Reply(w)
    /\ Settled(w, "answered")
    /\ UNCHANGED <<clock, tables, ring, leaves, restarts, proofs, sessions, faults, disordered>>

JoinRing(w) ==
    /\ job[w].stage = "linked"
    /\ ring' = ring \cup {Reg(w).pk}
    /\ Reply(w)
    /\ Settled(w, "answered")
    /\ UNCHANGED <<clock, tables, leaves, restarts, proofs, sessions, faults, disordered>>

-----------------------------------------------------------------------------
(* handle_register: a partner of the tenant's FULL_KYC ring signed the     *)
(* request.  The user is inserted only if absent; ring and ledger change   *)
(* under one write guard, the leaf is persisted after it.                  *)

PartnerRegister(w, e) ==
    /\ job[w] = Idle
    /\ job' = [job EXCEPT ![w] = [stage |-> "signed", by |-> "partner", reg |-> e]]
    /\ UNCHANGED <<clock, tables, ring, leaves, restarts, histories>>

InsertIfAbsent(w) ==
    /\ job[w].stage = "signed"
    /\ IF directory[Reg(w).user] = None
       THEN /\ directory' = [directory EXCEPT ![Reg(w).user] = Reg(w).pk]
            /\ lastWriter' = [lastWriter EXCEPT ![Reg(w).user] = w]
       ELSE UNCHANGED <<directory, lastWriter>>
    /\ Move(w, IF Reg(w).auth = None THEN "bound" ELSE "stored")
    /\ UNCHANGED <<clock, authKey, bindings, links, spent, leafRows, challenge, claimed, vcs,
                   ring, leaves, restarts, proofs, sessions, faults, disordered>>

\* Bug: the index is that of the row to come.
ReceiptBug(c) == [commitment |-> c, index |-> Len(leafRows) + 1, root |-> Append(leaves, c)]

\* MerkleCommitmentLedger::add_commitment: the receipt names the leaf and the
\* root, which is the sequence of leaves it commits to.
Receipt(c) == [commitment |-> c, index |-> Len(leaves) + 1, root |-> Append(leaves, c)]

\* A commitment that does not decode is refused after the user was stored and
\* added to the ring.
CommitLeaf(w) ==
    /\ job[w].stage = "bound" /\ job[w].by = "partner"
    /\ ring' = ring \cup {Reg(w).pk}
    /\ \/ /\ Reg(w).commitment = None
          /\ Reply(w) /\ Settled(w, "answered")
          /\ UNCHANGED leaves
       \/ /\ Reg(w).commitment = BadLeaf
          /\ Refuse(w)
          /\ UNCHANGED leaves
       \/ /\ Reg(w).commitment \in Commitments
          /\ leaves' = Append(leaves, Reg(w).commitment)
          /\ job' = [job EXCEPT ![w] = [stage |-> "committed", by |-> "partner", reg |-> Reg(w),
                                        receipt |-> Receipt(Reg(w).commitment)]]
          /\ UNCHANGED lastWriter
    /\ UNCHANGED <<clock, tables, restarts, proofs, sessions, faults, disordered>>

\* An earlier leaf is still without its row.
Overtakes(w) ==
    \E v \in Workers : job[v].stage = "committed" /\ job[v].receipt.index < job[w].receipt.index

\* insert_merkle_leaf ignores a commitment that has a row, and a failure is only
\* logged: the receipt is handed out all the same.
PersistLeaf(w) ==
    LET c == Reg(w).commitment IN
    /\ job[w].stage = "committed"
    /\ \/ /\ c \notin Range(leafRows)
          /\ leafRows' = Append(leafRows, c)
          /\ disordered' = (disordered \/ Overtakes(w))
       \/ UNCHANGED leafRows /\ disordered' = TRUE
    /\ proofs' = proofs \cup {job[w].receipt}
    /\ Reply(w) /\ Settled(w, "answered")
    /\ UNCHANGED <<clock, directory, authKey, bindings, links, spent, challenge, claimed, vcs,
                   ring, leaves, restarts, sessions, faults>>

-----------------------------------------------------------------------------
(* store_user_auth_credential: the first key of a user stays, and no two   *)
(* users have one key (UNIQUE); a request with another one is refused, and *)
(* leaves what it stored before.                                           *)

\* Bug: INSERT OR REPLACE instead of INSERT OR IGNORE.
StoreAuthKeyBug(w) ==
    /\ job[w].stage = "stored"
    /\ authKey' = [authKey EXCEPT ![Reg(w).user] = Reg(w).auth]
    /\ Move(w, "keyed")
    /\ UNCHANGED <<clock, directory, bindings, links, spent, leafRows, challenge, claimed,
                   vcs, ring, leaves, restarts, histories>>

StoreAuthKey(w) ==
    /\ job[w].stage = "stored"
    /\ authKey' = IF authKey[Reg(w).user] = None /\ \A u \in People : authKey[u] # Reg(w).auth
                  THEN [authKey EXCEPT ![Reg(w).user] = Reg(w).auth] ELSE authKey
    /\ IF authKey'[Reg(w).user] = Reg(w).auth
       THEN Move(w, "keyed") /\ UNCHANGED lastWriter
       ELSE Refuse(w)
    /\ UNCHANGED <<clock, directory, bindings, links, spent, leafRows, challenge, claimed,
                   vcs, ring, leaves, restarts, proofs, sessions, faults, disordered>>

BindTenant(w) ==
    /\ job[w].stage = "keyed"
    /\ bindings' = bindings \cup {<<Reg(w).tenant, Reg(w).user>>}
    /\ Move(w, "bound")
    /\ UNCHANGED <<clock, directory, authKey, links, spent, leafRows, challenge, claimed,
                   vcs, ring, leaves, restarts, histories>>

-----------------------------------------------------------------------------
(* user_auth_challenge: prune, count, then insert, on one connection but   *)
(* in three statements.                                                    *)

Open(t, u) ==
    {c \in Challenges : challenge[c] # None
        /\ challenge[c].tenant = t /\ challenge[c].user = u
        /\ ~challenge[c].used /\ challenge[c].exp >= clock}

Prunable(c) ==
    challenge[c] # None /\ (challenge[c].used \/ challenge[c].exp + PruneGrace < clock)

RequestChallenge(w, t, u) ==
    /\ job[w] = Idle
    /\ challenge' = [c \in Challenges |-> IF Prunable(c) THEN None ELSE challenge[c]]
    /\ IF Cardinality(Open(t, u)) >= ActiveCap
       THEN UNCHANGED job
       ELSE job' = [job EXCEPT ![w] = [stage |-> "counted", tenant |-> t, user |-> u,
                                       at |-> clock]]
    /\ UNCHANGED <<clock, directory, authKey, bindings, links, spent, leafRows, claimed, vcs,
                   ring, leaves, restarts, histories>>

\* The identifier is random: one that no row, request or session names.
FreshChallenge(c) ==
    /\ challenge[c] = None
    /\ \A s \in sessions : s.challenge # c
    /\ \A w \in Workers : job[w].stage = "verified" => job[w].challenge # c

InsertChallenge(w, c) ==
    /\ job[w].stage = "counted"
    /\ FreshChallenge(c)
    /\ challenge' = [challenge EXCEPT ![c] =
           [tenant |-> job[w].tenant, user |-> job[w].user,
            exp |-> job[w].at + ChallengeTtl, used |-> FALSE]]
    /\ Reply(w)
    /\ UNCHANGED <<clock, directory, authKey, bindings, links, spent, leafRows, claimed, vcs,
                   ring, leaves, restarts, histories>>

-----------------------------------------------------------------------------
(* user_auth_finish: the open challenge and the user's key are read, the   *)
(* signature is verified, and the conditional UPDATE decides.              *)

FinishAuth(w, c, signer) ==
    LET ch == challenge[c] IN
    /\ job[w] = Idle
    /\ ch # None
    /\ ~ch.used /\ ch.exp >= clock
    /\ <<ch.tenant, ch.user>> \in bindings
    /\ authKey[ch.user] = signer
    /\ job' = [job EXCEPT ![w] = [stage |-> "verified", challenge |-> c, signer |-> signer,
                                  at |-> clock]]
    /\ UNCHANGED <<clock, tables, ring, leaves, restarts, histories>>

\* The UPDATE compares with the time read at the start of the request.
Consumable(w) ==
    LET ch == challenge[job[w].challenge] IN
    IF ch = None THEN FALSE ELSE ~ch.used /\ ch.exp >= job[w].at

ConsumeChallenge(w) ==
    LET c == job[w].challenge IN
    /\ job[w].stage = "verified"
    /\ IF Consumable(w)
       THEN /\ challenge' = [challenge EXCEPT ![c].used = TRUE]
            /\ sessions' = sessions \cup
                 {[worker |-> w, challenge |-> c, tenant |-> challenge[c].tenant,
                   user |-> challenge[c].user, signer |-> job[w].signer]}
       ELSE UNCHANGED <<challenge, sessions>>
    /\ Reply(w)
    /\ UNCHANGED <<clock, directory, authKey, bindings, links, spent, leafRows, claimed, vcs,
                   ring, leaves, restarts, lastWriter, proofs, faults, disordered>>

\* user_auth, where it is enabled: e-mail and password yield a key pair, and a
\* member of the ring gets a session of the tenant the request names; there is
\* no challenge, no sign-in key and no tenant binding.
PasswordLogin(w, t, u) ==
    /\ LegacyAuth
    /\ job[w] = Idle
    /\ OwnPoint[u] \in ring
    /\ sessions' = sessions \cup
         {[worker |-> w, challenge |-> None, tenant |-> t, user |-> u, signer |-> None]}
    /\ UNCHANGED <<clock, tables, memory, lastWriter, proofs, faults, disordered>>

-----------------------------------------------------------------------------
(* user_get_credential: a cached credential is returned; otherwise the     *)
(* code is claimed, the issuer asked, and the claim released when it fails.*)

GetCredential(w, u) ==
    /\ job[w] = Idle
    /\ \E s \in sessions : s.user = u
    /\ u \notin vcs
    /\ job' = [job EXCEPT ![w] = [stage |-> "claiming", user |-> u]]
    /\ UNCHANGED <<clock, tables, ring, leaves, restarts, histories>>

\* The conditional UPDATE has one winner; the others answer from the cache or
\* with "retry shortly".
ClaimCode(w) ==
    /\ job[w].stage = "claiming"
    /\ IF job[w].user \in claimed
       THEN Reply(w) /\ UNCHANGED claimed
       ELSE claimed' = claimed \cup {job[w].user} /\ Move(w, "asking")
    /\ UNCHANGED <<clock, directory, authKey, bindings, links, spent, leafRows, challenge, vcs,
                   ring, leaves, restarts, histories>>

\* Bug: the claim is kept when the issuer fails.
IssuerFailsBug(w) ==
    /\ job[w].stage = "asking"
    /\ Reply(w)
    /\ UNCHANGED <<clock, tables, ring, leaves, restarts, histories>>

\* Unreachable, refused or unreadable: the claim is released, unless that fails,
\* which goes unnoticed.
IssuerFails(w) ==
    /\ job[w].stage = "asking"
    /\ \/ claimed' = claimed \ {job[w].user} /\ UNCHANGED faults
       \/ faults' = faults \cup {job[w].user} /\ UNCHANGED claimed
    /\ Reply(w)
    /\ UNCHANGED <<clock, directory, authKey, bindings, links, spent, leafRows, challenge, vcs,
                   ring, leaves, restarts, lastWriter, proofs, sessions, disordered>>

\* The result of caching the credential is ignored.
IssuerAnswers(w) ==
    /\ job[w].stage = "asking"
    /\ \/ vcs' = vcs \cup {job[w].user} /\ UNCHANGED faults
       \/ faults' = faults \cup {job[w].user} /\ UNCHANGED vcs
    /\ Reply(w)
    /\ UNCHANGED <<clock, directory, authKey, bindings, links, spent, leafRows, challenge,
                   claimed, ring, leaves, restarts, lastWriter, proofs, sessions, disordered>>

\* The client disconnects while the issuer is asked: the handler is dropped.
Disconnect(w) ==
    /\ job[w].stage = "asking"
    /\ faults' = faults \cup {job[w].user}
    /\ Reply(w)
    /\ UNCHANGED <<clock, tables, ring, leaves, restarts, lastWriter, proofs, sessions, disordered>>

-----------------------------------------------------------------------------
(* The environment.                                                        *)

Tick ==
    /\ clock < AccountEnd
    /\ clock' = clock + 1
    /\ UNCHANGED <<tables, memory, histories>>

Asking == {w \in Workers : job[w].stage = "asking"}

\* ServerState::init after a crash.  A failed read of the users or of the leaves
\* counts as its end, and the server starts with what it has.
Restart ==
    /\ restarts < MaxRestarts
    /\ restarts' = restarts + 1
    /\ job' = [w \in Workers |-> Idle]
    /\ \E S \in SUBSET People :
         /\ ring' = RestoredRing(S)
         /\ lastWriter' = [u \in People |-> IF directory[u] = None THEN "none"
                                            ELSE IF u \in S THEN "answered" ELSE "unloaded"]
    /\ \E n \in 0..Len(leafRows) :
         /\ leaves' = SubSeq(leafRows, 1, n)
         /\ disordered' = (disordered \/ n < Len(leafRows))
    /\ faults' = faults \cup {job[w].user : w \in Asking}
    /\ UNCHANGED <<clock, tables, proofs, sessions>>

Registers(w) ==
    \/ \E a \in Attestations : BankRegister(w, a)
    \/ ConsumeNonce(w) \/ UpsertUser(w) \/ LinkCustomer(w) \/ JoinRing(w)
    \/ \E e \in Enrolments : PartnerRegister(w, e)
    \/ InsertIfAbsent(w) \/ CommitLeaf(w) \/ PersistLeaf(w)
    \/ StoreAuthKey(w) \/ BindTenant(w) \/ AbandonRegister(w)

SignsIn(w) ==
    \/ \E t \in Tenants, u \in People : RequestChallenge(w, t, u)
    \/ \E c \in Challenges : InsertChallenge(w, c)
    \/ \E c \in Challenges, k \in AuthKeys : FinishAuth(w, c, k)
    \/ ConsumeChallenge(w)
    \/ \E t \in Tenants, u \in People : PasswordLogin(w, t, u)

Claims(w) ==
    \/ \E u \in People : GetCredential(w, u)
    \/ ClaimCode(w) \/ IssuerFails(w) \/ IssuerAnswers(w) \/ Disconnect(w)

AccountNext ==
    \/ \E w \in Workers : Registers(w) \/ SignsIn(w) \/ Claims(w)
    \/ Tick
    \/ Restart

AccountSpec == AccountInit /\ [][AccountNext]_accountVars

-----------------------------------------------------------------------------
(* Properties.                                                             *)

\* store_user_auth_credential keeps a user's first key for ever, across racing
\* registrations and restarts: whoever obtained a session through a challenge
\* signed with the key the directory still names, in a tenant the user is bound
\* to, and nobody else has that key.  Of two valid answers to one challenge that
\* race to the conditional UPDATE "exactly one receives a session", whatever is
\* pruned meanwhile.  A session without a challenge exists only where the
\* password login of development is switched on.
SessionsAreTheKeyHolders ==
    \A s \in sessions :
        IF s.challenge = None THEN LegacyAuth
        ELSE /\ \A u \in People : s.signer = authKey[u] <=> u = s.user
             /\ <<s.tenant, s.user>> \in bindings
             /\ \A r \in sessions : r.challenge = s.challenge => r = s

\* The key in a user's row is a member of the ring, whatever the order of the
\* registrations of one user, and after a restart, but for three cases: the
\* request that wrote the row is still running; it was refused or failed after it
\* had replaced the row (the ring then has the older key, until a restart); or
\* the last start could not read the row.
AcceptedUsersAreInRing ==
    \A u \in People :
        directory[u] # None /\ lastWriter[u] \notin Workers \cup {"refused", "unloaded"}
            => directory[u] \in ring

\* A Merkle receipt proves its commitment against the ledger, also after crashes
\* and restarts that rebuild it from merkle_leaves: rows in the order of their
\* AUTOINCREMENT key are the leaves, and a crash between a leaf and its row costs
\* no receipt that was handed out.  The exceptions are those of the code: a row
\* that was not written, one that was there already, one written before the row
\* of an earlier leaf, and a start that could not read the rows.
ReceiptsSurviveRestart ==
    ~disordered =>
        \A r \in proofs :
            /\ r.index <= Len(leaves) /\ leaves[r.index] = r.commitment
            /\ IsPrefix(r.root, leaves)

\* The claim on a credential code serialises the requests to the issuer, and one
\* that no handler holds and that produced no credential was left there by a
\* disconnect, a crash, a failed cache write or a failed release: an issuer that
\* fails never strands it while the database works.
ClaimStuckOnlyByFault ==
    /\ \A v, w \in Asking : job[v].user = job[w].user => v = w
    /\ \A u \in claimed \ (vcs \cup {job[w].user : w \in Asking}) : u \in faults
=============================================================================
