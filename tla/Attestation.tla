-------------------------------- MODULE Attestation --------------------------------
(***************************************************************************)
(* The evidence about a host that register_agent asks for                  *)
(* (attestation/mod.rs and its verifiers, agent.rs).  The hardware of a    *)
(* host signs documents about its registers; whoever registers an agent    *)
(* may also present documents no hardware has signed.  Signatures and      *)
(* certificate chains are ideal: only the hardware makes a document whose  *)
(* signature verifies under a vendor's certificate.                        *)
(*                                                                         *)
(* AgentRegistry models the other conditions of a registration; here the   *)
(* requests differ in their evidence only.                                 *)
(***************************************************************************)
EXTENDS Integers, FiniteSets

CONSTANTS
  Nonces,        \* challenges, each named like its nonce
  PopKeys,       \* keys agents register, each with its session and tenant
  Readings,      \* what a document may report of the registers it covers
  PcrSets,       \* what a request may state as its tpm2_pcr_set
  Deployments,   \* the settings a server may run with
  Enrolments,    \* requests in flight
  Unset,         \* no row, no measurement, no statement
  AttSkew,       \* require_fresh_timestamp: 300 s
  ChallengeTtl,  \* lifetime of a challenge: 300 s
  AttEnd,        \* bound on the clock
  MaxQuotes      \* bound on the documents the hardware signs

\* A row of agent_attestation_challenges: open until used or deleted.
ChallengeRow == [key: PopKeys, exp: Int, open: BOOLEAN]

ASSUME AttestationAssumption ==
  /\ AttSkew \in Nat /\ ChallengeTtl \in Nat /\ AttEnd \in Nat /\ MaxQuotes \in Nat
  /\ Unset \notin Nonces /\ Unset \notin ChallengeRow

VARIABLES
  attNow,      \* the clock
  deployment,  \* the settings of the running server
  quotes,      \* the documents its hardware has signed
  challenges,  \* agent_attestation_challenges
  enrolling,   \* requests whose evidence has been verified
  enrolled     \* history: the agents registered, with their evidence

attVars == <<attNow, deployment, quotes, challenges, enrolling, enrolled>>

AttInit ==
  /\ attNow = 0 /\ deployment \in Deployments
  /\ quotes = {} /\ enrolled = {}
  /\ challenges = [c \in Nonces |-> Unset]
  /\ enrolling = [r \in Enrolments |-> Unset]

---------------------------------------------------------------------------
(* Documents. *)

\* What the hardware signs that a request can carry (Carried, below).
HardwareForms == {"tpm2"}
\* A Nitro document comes as unsigned JSON or as a signed COSE structure.
NitroForms == {"nitroJson", "nitroCose"}

Document(form, reading, c, key, ts, vendor, signed) ==
  [form |-> form, reading |-> reading, nonce |-> c, key |-> key, ts |-> ts, vendor |-> vendor, signed |-> signed]

\* What anyone can make for a challenge and a key: no signature that verifies under
\* a vendor's certificate.
Forgeries(c, k) ==
  {d \in {Document(f, i, c, k, attNow, vendor, signed) :
            f \in {"self", "tpm2", "sgx"} \cup NitroForms, i \in Readings,
            vendor \in BOOLEAN, signed \in BOOLEAN} : ~(d.vendor /\ d.signed)}

\* pcr_digest: the digest of the registers the quote selects; which those are is
\* not compared with anything.
PcrDigest(doc) == <<doc.reading>>

\* measurement_hash over Nitro's PCR0, the key and the module.
NitroMeasurement(doc) == <<doc.reading, doc.key>>

\* What is compared with expected_measurement_hex.
Measurement(doc) == IF doc.form \in NitroForms THEN NitroMeasurement(doc) ELSE PcrDigest(doc)

VerifySelf(doc) == doc.signed

\* The signature is checked with the key of the certificate whose chain was walked.
AikCertChain(doc) == deployment.vendorRoots /\ doc.vendor
AikSignature(doc) == doc.signed
VerifyTpm2Quote(doc) == AikCertChain(doc) /\ AikSignature(doc)

VerifyNitroJson == ~deployment.rejectDev /\ ~deployment.nitroRoot
CoseSignature(doc) == doc.signed
NitroCertChain(doc) == doc.vendor
VerifyNitroCose(doc) ==
  /\ deployment.nitroRoot \/ ~deployment.requireRoot
  /\ CoseSignature(doc)
  /\ deployment.nitroRoot => NitroCertChain(doc)

\* verify_attestation: the kinds without a verifier are refused.
VerifyAttestation(doc, asserted) ==
  /\ Measurement(doc) = asserted
  /\ \/ doc.form = "self" /\ VerifySelf(doc)
     \/ doc.form = "tpm2" /\ VerifyTpm2Quote(doc)
     \/ doc.form = "nitroJson" /\ VerifyNitroJson
     \/ doc.form = "nitroCose" /\ VerifyNitroCose(doc)

\* enforce_registration_attestation
EnforceRegistration(doc, asserted) ==
  /\ deployment.requireHardware => doc.form \in {"tpm2"} \cup NitroForms
  /\ deployment.preregistered => asserted \in deployment.golden
  /\ VerifyAttestation(doc, asserted)

FreshTimestamp(ts) == attNow - ts <= AttSkew /\ ts - attNow <= AttSkew

\* Bug: the nonce of the document is not compared with the challenge's.
BoundToChallengeBug(doc, c, key) == doc.key = key /\ (doc.form # "tpm2" => FreshTimestamp(doc.ts))

\* enforce_registration_attestation_bound: a TPM's quote has no clock to compare.
BoundToChallenge(doc, c, key) ==
  /\ doc.nonce = c /\ doc.key = key
  /\ doc.form # "tpm2" => FreshTimestamp(doc.ts)

---------------------------------------------------------------------------
(* Hosts. *)

\* Whoever controls the host chooses the registers, some of which it may set to any
\* reading, the nonce (one that is known) and the key.
Quote(f, reading, c, key) ==
  /\ challenges[c] # Unset /\ Cardinality(quotes) < MaxQuotes
  /\ quotes' = quotes \cup {Document(f, reading, c, key, attNow, TRUE, TRUE)}
  /\ UNCHANGED <<attNow, deployment, challenges, enrolling, enrolled>>

---------------------------------------------------------------------------
(* agent_attestation_challenge and register_agent. *)

\* Challenges that are used or have expired are deleted first.
ChallengeHost(c, key) ==
  /\ challenges[c] = Unset
  /\ challenges' = [d \in Nonces |->
       IF d = c THEN [key |-> key, exp |-> attNow + ChallengeTtl, open |-> TRUE]
       ELSE IF challenges[d] = Unset THEN Unset
       ELSE [challenges[d] EXCEPT !.open = @ /\ challenges[d].exp >= attNow]]
  /\ UNCHANGED <<attNow, deployment, quotes, enrolling, enrolled>>

ChallengeStands(c) ==
  IF challenges[c] = Unset THEN FALSE ELSE challenges[c].open /\ challenges[c].exp >= attNow

\* attestation_blob is a string: the bytes of a COSE structure are not valid UTF-8,
\* so no request carries one here.
Carried(doc) == doc.form # "nitroCose"

\* The challenge must be that of the key, whose session and tenant are its owner's.
ReadChallenge(c, key) == ChallengeStands(c) /\ challenges[c].key = key

\* The evidence is put together from the request's fields and verified; no other
\* request has a part in it.
VerifyEvidence(r, c, key) ==
  /\ enrolling[r] = Unset
  /\ ReadChallenge(c, key)
  /\ \E doc \in {d \in quotes \cup Forgeries(c, key) : Carried(d)} :
       /\ EnforceRegistration(doc, Measurement(doc)) /\ BoundToChallenge(doc, c, key)
       /\ enrolling' = [enrolling EXCEPT ![r] =
            [chal |-> c, key |-> key, verified |-> Measurement(doc), doc |-> doc]]
  /\ UNCHANGED <<attNow, deployment, quotes, challenges, enrolled>>

\* attestation_pcr_set of the row: what the request states, unchecked, or else the
\* measurement that was verified.
Pinned(stated, verified) == IF stated # Unset THEN stated ELSE verified

\* UPDATE ... WHERE used_at IS NULL AND expires_at >= now, then the agent's row.
UseChallenge(r, stated) ==
  /\ enrolling[r] # Unset
  /\ LET e == enrolling[r] IN
     IF ChallengeStands(e.chal)
     THEN /\ challenges' = [challenges EXCEPT ![e.chal].open = FALSE]
          /\ enrolled' = enrolled \cup
               {[chal |-> e.chal, key |-> e.key, verified |-> e.verified,
                 pinned |-> Pinned(stated, e.verified), doc |-> e.doc, by |-> r, at |-> attNow]}
     ELSE UNCHANGED <<challenges, enrolled>>
  /\ enrolling' = [enrolling EXCEPT ![r] = Unset]
  /\ UNCHANGED <<attNow, deployment, quotes>>

\* No evidence: the key is one the server derives, or unattested.
EnrolUnattested(key, derived, stated) ==
  /\ ~deployment.requireHardware
  /\ derived => deployment.serverDerived
  /\ enrolled' = enrolled \cup
       {[chal |-> Unset, key |-> key, verified |-> Unset, pinned |-> Pinned(stated, Unset),
         doc |-> Unset, by |-> Unset, at |-> 0]}
  /\ UNCHANGED <<attNow, deployment, quotes, challenges, enrolling>>

AttTick ==
  /\ attNow < AttEnd /\ attNow' = attNow + 1
  /\ UNCHANGED <<deployment, quotes, challenges, enrolling, enrolled>>

AttNext ==
  \/ AttTick
  \/ \E f \in HardwareForms, i \in Readings, c \in Nonces, k \in PopKeys : Quote(f, i, c, k)
  \/ \E c \in Nonces, k \in PopKeys : ChallengeHost(c, k)
  \/ \E r \in Enrolments, c \in Nonces, k \in PopKeys : VerifyEvidence(r, c, k)
  \/ \E r \in Enrolments, stated \in PcrSets \cup {Unset} : UseChallenge(r, stated)
  \/ \E k \in PopKeys, derived \in BOOLEAN, stated \in PcrSets \cup {Unset} :
       EnrolUnattested(k, derived, stated)

AttSpec == AttInit /\ [][AttNext]_attVars

---------------------------------------------------------------------------
(* Properties. *)

\* An agent enrolled on a TPM's quote has a host whose hardware signed the reading
\* that was verified, for this key and this challenge, within a challenge's lifetime
\* before the enrolment, whatever has been replayed or forged; a challenge vouches
\* for one agent; where hardware is required and documents of development are
\* refused, nothing but such a quote enrols an agent; and where measurements are
\* registered beforehand, the verified one is among them.  It is the verified
\* measurement that is vouched for: the row has another if the request states one,
\* and which registers a quote covers is not checked (attestation/mod.rs
\* enforce_registration_attestation_bound, agent.rs).
EnrolledHostsAreGenuine ==
  \A e \in enrolled :
    /\ e.chal # Unset =>
         /\ e.doc.form = "tpm2" =>
              /\ e.doc \in quotes /\ e.doc.key = e.key /\ Measurement(e.doc) = e.verified
              /\ e.at - ChallengeTtl <= e.doc.ts /\ e.doc.ts <= e.at
         /\ \A f \in enrolled : f.chal = e.chal => f = e
    /\ deployment.requireHardware /\ deployment.rejectDev =>
         e.chal # Unset /\ e.doc.form = "tpm2"
    /\ deployment.preregistered /\ e.chal # Unset => e.verified \in deployment.golden
    /\ e.pinned \in PcrSets \cup {e.verified}
===================================================================================
