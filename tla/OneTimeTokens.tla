---------------------------- MODULE OneTimeTokens ----------------------------
(***************************************************************************)
(* What the commit values of the TPM promise, with no counters, slots or   *)
(* windows: a token is issued, may expire, and is redeemed at most once.   *)
(* Part 1 clause 44.2.2, as core/commit.rs quotes it: the secret is "to be *)
(* used only once".                                                        *)
(***************************************************************************)
CONSTANT Token

VARIABLES
  outstanding,   \* issued, neither redeemed nor expired
  redeemed       \* redeemed once; never again

otVars == <<outstanding, redeemed>>

OTInit == outstanding = {} /\ redeemed = {}

\* A token that is not known is issued; others may expire to make room for it.
Issue(t) ==
  /\ t \notin outstanding \cup redeemed
  /\ outstanding' \in SUBSET (outstanding \cup {t})
  /\ t \in outstanding'
  /\ UNCHANGED redeemed

Redeem(t) ==
  /\ t \in outstanding \ redeemed
  /\ outstanding' = outstanding \ {t}
  /\ redeemed' = redeemed \cup {t}

Expire ==
  /\ outstanding' \in SUBSET outstanding
  /\ UNCHANGED redeemed

OTNext ==
  \/ Expire
  \/ \E t \in Token : Issue(t) \/ Redeem(t)

OTSpec == OTInit /\ [][OTNext]_otVars
=============================================================================
