--------------------------- MODULE MCActionAnchor ---------------------------
(* Anchoring for TLC: the runs that batch receipts (ActionAnchor) and the    *)
(* providers and checkpoints behind them (ChainAnchors).  They share no      *)
(* state that either one's properties read, so a behaviour explores one of   *)
(* them: `part` says which.                                                  *)
EXTENDS ActionAnchor, ChainAnchors

CONSTANT t1

VARIABLE part

mcVars == <<vars, chainVars, part>>

InRuns(A) == part = "runs" /\ A /\ UNCHANGED <<chainVars, part>>
InChains(A) == part = "chains" /\ A /\ UNCHANGED <<vars, part>>

MCInit == part \in {"runs", "chains"} /\ Init /\ ChainInit
MCNext == InRuns(Next) \/ InChains(ChainNext)

\* Fairness and ChainFairness, each where its part moves.
MCSpec ==
  /\ MCInit /\ [][MCNext]_mcVars
  /\ \A u \in Runs : WF_mcVars(InRuns(Anchor(u)))
  /\ \A t \in Tenants : SF_mcVars(InRuns(ReadWatermark(Ticker, t)))
  /\ \A n \in Nets : WF_mcVars(InChains(Poll(n)))
=============================================================================
