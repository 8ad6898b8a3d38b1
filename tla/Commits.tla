------------------------------- MODULE Commits -------------------------------
(***************************************************************************)
(* Commit values for split ECC operations (src/src/tpm/core/commit.rs).    *)
(*                                                                         *)
(* TPM2_Commit and TPM2_EC_Ephemeral hand out a counter that stands for a  *)
(* secret derived from (random, counter); a later signing command or       *)
(* TPM2_ZGen_2Phase names the counter by its low order bits and spends it. *)
(* The secret itself is never kept: what is kept is the nonce, the full    *)
(* counter, and one bit per array slot.  The value KDFa derives is         *)
(* identified here with the pair <<random, counter>> it is derived from.   *)
(***************************************************************************)
EXTENDS Integers

CONSTANTS
  N,          \* MAX_COMMIT_SEQUENCES, the slots of the bit array (128)
  W,          \* the width of the counter a caller is given (2^16)
  MaxCount,   \* bound: commits in one epoch (2^64 in the code)
  MaxEpoch    \* bound: TPM Resets, each with a nonce of its own

ASSUME SizesAssumption ==
  /\ N \in Nat \ {0}
  /\ W \in Nat \ {0}
  /\ W % N = 0          \* both are powers of two and N <= W
  /\ MaxCount \in Nat
  /\ MaxEpoch \in Nat

VARIABLES
  random,     \* Commits.random: 0 is the empty nonce, e > 0 the e-th one drawn
  count,      \* Commits.count
  used,       \* Commits.used: the slots whose bit is set
  uses        \* history: how often the value <<epoch, counter>> was derived for use

vars == <<random, count, used, uses>>

Slots    == 0 .. N - 1
Counters == 0 .. MaxCount
Epochs   == 0 .. MaxEpoch

TypeOK ==
  /\ random \in Epochs
  /\ count \in Counters
  /\ used \in SUBSET Slots
  /\ uses \in [Epochs \X Counters -> Nat]

Init ==
  /\ random = 0
  /\ count = 0
  /\ used = {}
  /\ uses = [v \in Epochs \X Counters |-> 0]

-----------------------------------------------------------------------------
Ready == random # 0

Index(c) == c % N

IsSet(c) == Index(c) \in used

\* How far behind the next counter the caller's sixteen bits reach.
Age(c) == ((count % W) - c) % W

\* Mutant: The window check is missing: a counter from an earlier turn is accepted.
InWindowDropped(c) == Age(c) # 0

InWindow(c) == Age(c) # 0 /\ Age(c) < N

\* full_counter answers with a counter: the window, the bit, and the
\* subtraction that may not go below zero.
Names(c) == InWindow(c) /\ IsSet(c) /\ Age(c) <= count

\* Mutant: The counter is rebuilt from the low order bits alone.
FullCounterNarrow(c) == c

FullCounter(c) == count - Age(c)

-----------------------------------------------------------------------------
\* A TPM Reset draws a fresh nonce and drops every outstanding commit.
Reset ==
  /\ random < MaxEpoch
  /\ random' = random + 1
  /\ count' = 0
  /\ used' = {}
  /\ UNCHANGED uses

\* TPM2_Commit and TPM2_EC_Ephemeral: next, then take once every point has
\* been computed.  A command that fails in between records nothing.
Commit ==
  /\ Ready
  /\ count < MaxCount
  /\ used' = used \cup {Index(count)}
  /\ count' = count + 1
  /\ UNCHANGED <<random, uses>>

\* Mutant: use_counter forgets step 9 and leaves the bit set.
UseCounterKeepsBit(c) ==
  /\ Ready
  /\ Names(c)
  /\ uses' = [uses EXCEPT ![<<random, FullCounter(c)>>] = @ + 1]
  /\ UNCHANGED <<random, count, used>>

\* use_counter, reached from an ECDAA signature and from TPM2_ZGen_2Phase.
UseCounter(c) ==
  /\ Ready
  /\ Names(c)
  /\ uses' = [uses EXCEPT ![<<random, FullCounter(c)>>] = @ + 1]
  /\ used' = used \ {Index(FullCounter(c))}
  /\ UNCHANGED <<random, count>>

Next ==
  \/ Reset
  \/ Commit
  \/ \E c \in 0 .. W - 1 : UseCounter(c)

Spec == Init /\ [][Next]_vars

-----------------------------------------------------------------------------
(* Correctness.                                                            *)

\* No commit value is ever derived for use twice, however often the sixteen
\* bit counter and the bit array wrap around: "Using a commit clears its
\* bit, so the same counter cannot be used twice" (commit.rs:21).
SingleUse == \A v \in Epochs \X Counters : uses[v] <= 1

\* Every commit of this epoch that has not been used and is younger than the
\* array is long can still be used: the sixteen bits its caller was given
\* name it, and no other counter, to full_counter.
StillUsable ==
  \A k \in Counters :
    /\ Ready /\ k < count /\ count - k < N
    /\ uses[<<random, k>>] = 0
    => Names(k % W) /\ FullCounter(k % W) = k

\* Only a counter that some TPM2_Commit of this epoch handed out is ever
\* derived for use; a caller cannot name one the TPM has yet to reach.
OnlyIssued ==
  \A v \in Epochs \X Counters :
    uses[v] > 0 => v[1] < random \/ (v[1] = random /\ v[2] < count)

\* The commits that are still good for one use: the last N of the epoch whose
\* bit is set.
Outstanding ==
  {v \in Epochs \X Counters :
     /\ v[1] = random /\ v[2] < count /\ count - v[2] <= N
     /\ Index(v[2]) \in used}

Redeemed == {v \in Epochs \X Counters : uses[v] > 0}

OneTime == INSTANCE OneTimeTokens WITH
  Token <- Epochs \X Counters, outstanding <- Outstanding, redeemed <- Redeemed

\* The counters, the window and the bit array implement one-time tokens:
\* every commit is a token that was never seen before, and only a token that
\* is outstanding and was never redeemed is redeemed.
ImplementsOneTime == OneTime!OTSpec

-----------------------------------------------------------------------------
(* The inductive invariant behind them.                                    *)

\* Over the last N counters of the epoch the bit array is exactly the record
\* of the unused ones.
SlotsTrackUse ==
  \A k \in Counters :
    k < count /\ count - k <= N
      => (Index(k) \in used <=> uses[<<random, k>>] = 0)

\* Before the first commit of an epoch, and before the first epoch, no bit is set.
NoStraySlot == \A i \in used : i < count

IInv ==
  /\ TypeOK
  /\ SlotsTrackUse
  /\ NoStraySlot
  /\ SingleUse
  /\ OnlyIssued
=============================================================================
