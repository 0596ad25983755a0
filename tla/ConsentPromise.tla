--------------------------- MODULE ConsentPromise ---------------------------
(***************************************************************************)
(* What a consent promises, independently of how it is stored: it is       *)
(* opened, granted, possibly withdrawn, used once and disclosed once.      *)
(***************************************************************************)
CONSTANT Ids

VARIABLES
  open,       \* requests a site has made
  granted,    \* those somebody has consented to
  withdrawn,  \* those the user has revoked
  used,       \* those whose token has been presented
  disclosed   \* those whose claims have been handed out

promiseVars == <<open, granted, withdrawn, used, disclosed>>

PromiseInit == open = {} /\ granted = {} /\ withdrawn = {} /\ used = {} /\ disclosed = {}

Open(i) ==
  /\ i \notin open
  /\ open' = open \cup {i}
  /\ UNCHANGED <<granted, withdrawn, used, disclosed>>

Grant(i) ==
  /\ i \in open \ granted
  /\ granted' = granted \cup {i}
  /\ UNCHANGED <<open, withdrawn, used, disclosed>>

Withdraw(i) ==
  /\ i \in granted
  /\ withdrawn' = withdrawn \cup {i}
  /\ UNCHANGED <<open, granted, used, disclosed>>

\* A withdrawn consent is not used any more.
Use(i) ==
  /\ i \in granted \ (withdrawn \cup used)
  /\ used' = used \cup {i}
  /\ UNCHANGED <<open, granted, withdrawn, disclosed>>

\* Claims leave once, and only for a token that was used.
Disclose(i) ==
  /\ i \in used \ disclosed
  /\ disclosed' = disclosed \cup {i}
  /\ UNCHANGED <<open, granted, withdrawn, used>>

PromiseNext == \E i \in Ids : Open(i) \/ Grant(i) \/ Withdraw(i) \/ Use(i) \/ Disclose(i)
PromiseSpec == PromiseInit /\ [][PromiseNext]_promiseVars
=============================================================================
