------------------------------- MODULE Signing -------------------------------
(***************************************************************************)
(* What the signing keys are used for (src/src/tpm/commands/crypto.rs,     *)
(* signing.rs, attest.rs and x509.rs), composed with the commit values the *)
(* anonymous scheme spends.                                                *)
(*                                                                         *)
(* A restricted key signs two things: what the TPM made itself, which      *)
(* begins with TPM_GENERATED_VALUE, and what a caller gave, which may not. *)
(* The caller hands its message over whole or in buffers of any length,    *)
(* to sequences of four kinds that any completing command takes, and       *)
(* proves with a ticket that the TPM looked at the first octets.           *)
(*                                                                         *)
(* A message is its first octets, in halves of TPM_GENERATED_VALUE: "g" is *)
(* a half that agrees with the value and "x" one that does not.  Four      *)
(* octets are two halves; a digest stands for the message it was made of.  *)
(***************************************************************************)
EXTENDS Commits, Sequences

CONSTANT Keys     \* signing keys; the caller may load any of them at any handle

ASSUME KeysAssumption ==
  Keys \subseteq [restricted : BOOLEAN, scheme : {"ecdsa", "ecdaa", "hmac"},
                  x509sign : BOOLEAN]

VARIABLES
  sequence,    \* the sequence object, or NoSequence
  kept,        \* what the caller keeps: a ticket or a saved sequence, or Nothing
  passedOff    \* history: restricted keys that signed a caller's message as the TPM's own

signing == <<sequence, kept, passedOff>>
commits == <<random, count, used, uses>>

\* After a half that does not agree nothing matters, so of the short pieces one
\* that agrees is enough.
Pieces == {<<>>, <<"g">>, <<"g", "g">>, <<"g", "x">>, <<"x", "x">>}

\* starts_with_generated_value.
Generated(m) == m = <<"g", "g">>

First(m) ==
  IF Len(m) < 2 THEN m
  ELSE IF Head(m) = "x" THEN <<"x", "x">> ELSE SubSeq(m, 1, 2)

None == W
Counts == 0 .. W - 1

NoSequence == [kind |-> "none"]
Nothing == [tag |-> "null", over |-> <<>>]

\* A signing sequence begins with a header: the key's handle, its hash and the
\* counter of a commit.  A handle is no half of TPM_GENERATED_VALUE.
Header == <<"x", "x">>

Sequence(kind, counter) ==
  [kind |-> kind, counter |-> counter, data |-> <<>>, short |-> FALSE]

SigningInit ==
  /\ Init
  /\ sequence = NoSequence
  /\ kept = Nothing
  /\ passedOff = {}

-----------------------------------------------------------------------------
(* Sequences and tickets.                                                  *)

\* The buffer of a sequence as the code holds it.
Buffer(s) == IF s.kind = "bound" THEN Header ELSE s.data

\* hash_ticket: the TPM answers for a message only if it cannot be taken for
\* one of its own.
HashTicket(m) == IF Generated(m) THEN Nothing ELSE [tag |-> "hashcheck", over |-> m]

\* verify_hash_ticket: the tag is part of what the ticket is computed over.
VerifyHashTicket(m) == kept = [tag |-> "hashcheck", over |-> m]

\* TPM2_Hash.
Hash(m) ==
  /\ kept' = HashTicket(m)
  /\ UNCHANGED <<commits, sequence, passedOff>>

\* hmac_key: there is no ticket with these commands, so a restricted key may
\* not take them.
HmacKeys == {k \in Keys : k.scheme = "hmac" /\ ~k.restricted}

\* TPM2_HashSequenceStart, for a hash or for an event, and TPM2_HMAC_Start.
SequenceStart(kind) ==
  /\ sequence = NoSequence
  /\ kind = "hmac" => HmacKeys # {}
  /\ sequence' = Sequence(kind, None)
  /\ UNCHANGED <<commits, kept, passedOff>>

\* The first buffer was short, whichever command brought it.
ShortFirst(p) == sequence.short \/ (Buffer(sequence) = <<>> /\ Len(p) < 2)

\* TPM2_SequenceUpdate, the same for every kind.
SequenceUpdate(p) ==
  /\ sequence # NoSequence
  /\ sequence' = [sequence EXCEPT !.data = First(@ \o p),
                                  !.short = ShortFirst(p)]
  /\ UNCHANGED <<commits, kept, passedOff>>

\* The whole message of a sequence that ends with p.
Whole(p) == First(Buffer(sequence) \o p)

\* Mutant: the first octets that are looked at are those of the last buffer.
SafeInLastBuffer(p) == ~ShortFirst(p) /\ ~Generated(p)

SafeToSign(p) == ~ShortFirst(p) /\ ~Generated(Whole(p))

\* TPM2_SequenceComplete: an event sequence has a command of its own, and an
\* HMAC comes with no ticket.
SequenceComplete(p) ==
  /\ sequence # NoSequence
  /\ sequence.kind # "event"
  /\ kept' = IF sequence.kind # "hmac" /\ SafeToSign(p)
               THEN [tag |-> "hashcheck", over |-> Whole(p)] ELSE Nothing
  /\ sequence' = NoSequence
  /\ UNCHANGED <<commits, passedOff>>

EventSequenceComplete ==
  /\ sequence.kind = "event"
  /\ sequence' = NoSequence
  /\ UNCHANGED <<commits, kept, passedOff>>

\* The ticket for a signature that was verified; its three tags are one here.
VerifiedTicket(m) == [tag |-> "verified", over |-> m]

\* TPM2_VerifySignature: a caller has a key of its own and a signature over
\* whatever it likes.
VerifySignature(m) ==
  /\ kept' = VerifiedTicket(m)
  /\ UNCHANGED <<commits, sequence, passedOff>>

\* TPM2_VerifyDigestSignature leaves the HMAC keys out; no caller needs one.
VerifyDigestSignature(m) ==
  /\ kept' = VerifiedTicket(m)
  /\ UNCHANGED <<commits, sequence, passedOff>>

\* TPM2_Create and TPM2_CreatePrimary give out a ticket for the creation data,
\* part of which the caller chose: its digest stands for the worst of messages.
Create ==
  /\ kept' = [tag |-> "creation", over |-> <<"g", "g">>]
  /\ UNCHANGED <<commits, sequence, passedOff>>

-----------------------------------------------------------------------------
(* Signatures.                                                             *)

\* check_signing_key.
MaySign(k) == ~k.x509sign

\* What signs under the scheme and the counter: an anonymous signature spends
\* the commit its counter names.
SignDigest(c) == IF c = None THEN UNCHANGED commits ELSE UseCounter(c)

\* The counters a caller may give with k: only the anonymous scheme has one.
CountersOf(k) == IF k.scheme = "ecdaa" THEN Counts ELSE {None}

\* A caller's message m is signed by k.
Signed(k, m) ==
  passedOff' = IF k.restricted /\ Generated(m) THEN passedOff \cup {k} ELSE passedOff

\* TPM2_HMAC.
HmacCommand(k, m) ==
  /\ k \in HmacKeys
  /\ Signed(k, m)
  /\ UNCHANGED <<commits, sequence, kept>>

\* TPM2_Sign.
Sign(k, m, c) ==
  /\ MaySign(k)
  /\ k.restricted => VerifyHashTicket(m)
  /\ SignDigest(c)
  /\ Signed(k, m)
  /\ UNCHANGED <<sequence, kept>>

\* TPM2_SignDigest leaves the HMAC keys out.
SignDigestCommand(k, m, c) ==
  /\ k.scheme # "hmac"
  /\ Sign(k, m, c)

\* TPM2_SignSequenceStart with k, which records the counter for the end.
SignSequenceStart(k, c) ==
  /\ sequence = NoSequence
  /\ MaySign(k)
  /\ sequence' = Sequence("bound", c)
  /\ UNCHANGED <<commits, kept, passedOff>>

\* TPM2_VerifySequenceStart records no counter.
VerifySequenceStart ==
  /\ sequence = NoSequence
  /\ sequence' = Sequence("bound", None)
  /\ UNCHANGED <<commits, kept, passedOff>>

\* sequence_binding: the header and the rest.  Nothing tells a sequence that
\* was started with a header from one whose first buffer begins with a handle;
\* of that one the rest and the counter are whatever the caller put there.
Bindings ==
  IF sequence.kind = "bound" THEN {[counter |-> sequence.counter, rest |-> sequence.data]}
  ELSE IF sequence # NoSequence /\ sequence.data = Header
       THEN [counter : Counts \cup {None}, rest : Pieces] ELSE {}

\* The last buffer; it adds nothing to a rest that may be anything.
Endings == IF sequence.kind = "bound" THEN Pieces ELSE {<<>>}

\* scheme_with_counter: a counter in the header makes the scheme anonymous,
\* whatever the scheme of an elliptic curve key; without one the counter is
\* the one in the public area, zero.
SchemeWithCounter(k, c) == IF k.scheme = "ecdaa" /\ c = None THEN 0 ELSE c

\* sign_message: an HMAC key signs the message itself and has no counter.
SignMessage(k, m, c) ==
  /\ k.scheme = "hmac" => c = None
  /\ SignDigest(c)
  /\ Signed(k, m)

\* TPM2_SignSequenceComplete with the key the bound handle names by now, which
\* may be any key.
SignSequenceComplete(k, b, p) ==
  LET m == First(b.rest \o p)
  IN  /\ MaySign(k)
      /\ ~(k.scheme = "hmac" /\ k.restricted)
      /\ k.restricted => ~Generated(m)
      /\ SignMessage(k, m, SchemeWithCounter(k, b.counter))
      /\ sequence' = NoSequence
      /\ UNCHANGED kept

\* TPM2_VerifySequenceComplete.
VerifySequenceComplete(b) ==
  /\ kept' = VerifiedTicket(b.rest)
  /\ sequence' = NoSequence
  /\ UNCHANGED <<commits, passedOff>>

\* attest_and_sign: what is signed is the TPM's own, whatever the key is for.
\* With the null handle nothing is signed.
AttestAndSign(k, c) ==
  /\ SignDigest(c)
  /\ UNCHANGED signing

\* The commands that attest.  What they attest to, an object, the PCR, the
\* time, an Index, an audit, is read from the state; TPM2_CertifyCreation takes
\* the caller's word for the creation data on a ticket.
Certify(k, c) == AttestAndSign(k, c)
CertifyCreation(k, c) == kept.tag = "creation" /\ AttestAndSign(k, c)
Quote(k, c) == AttestAndSign(k, c)
GetTime(k, c) == AttestAndSign(k, c)
NvCertify(k, c) == AttestAndSign(k, c)
GetSessionAuditDigest(k, c) == AttestAndSign(k, c)
GetCommandAuditDigest(k, c) == AttestAndSign(k, c)

\* TPM2_CertifyX509: the certificate begins with the tag of a sequence.
CertifyX509(k, c) ==
  /\ SignDigest(c)
  /\ Signed(k, <<"x", "x">>)
  /\ UNCHANGED <<sequence, kept>>

-----------------------------------------------------------------------------
\* TPM2_EC_Ephemeral and TPM2_Commit take a counter, TPM2_ZGen_2Phase spends one.
Ephemeral == Commit /\ UNCHANGED signing
ZGen2Phase(c) == UseCounter(c) /\ UNCHANGED signing

\* TPM2_ContextSave of the sequence leaves it in its slot; the whole of it is
\* in the context, what the first buffer said included.
ContextSave ==
  /\ sequence # NoSequence
  /\ kept' = [tag |-> "context", over |-> sequence]
  /\ UNCHANGED <<commits, sequence, passedOff>>

\* TPM2_ContextLoad, any number of times.
ContextLoad ==
  /\ sequence = NoSequence /\ kept.tag = "context"
  /\ sequence' = kept.over
  /\ UNCHANGED <<commits, kept, passedOff>>

\* A TPM Reset also takes the sequence, and with the proof of the NULL hierarchy
\* every context of one; the proofs behind a ticket stay.
TpmReset ==
  /\ Reset
  /\ sequence' = NoSequence
  /\ kept' = IF kept.tag = "context" THEN Nothing ELSE kept
  /\ UNCHANGED passedOff

\* TPM2_FlushContext of the sequence.
Flush ==
  /\ sequence # NoSequence
  /\ sequence' = NoSequence
  /\ UNCHANGED <<commits, kept, passedOff>>

\* TPM2_Clear changes the proof the ticket was computed with.
Clear ==
  /\ kept.tag \notin {"null", "context"}
  /\ kept' = Nothing
  /\ UNCHANGED <<commits, sequence, passedOff>>

SigningNext ==
  \/ \E m \in Pieces :
       \/ Hash(m) \/ SequenceUpdate(m) \/ SequenceComplete(m)
       \/ VerifySignature(m) \/ VerifyDigestSignature(m)
       \/ \E k \in Keys : HmacCommand(k, m)
  \/ Create
  \/ \E kind \in {"hash", "hmac", "event"} : SequenceStart(kind)
  \/ EventSequenceComplete
  \/ VerifySequenceStart
  \/ \E k \in Keys : \E c \in CountersOf(k) :
       \/ SignSequenceStart(k, c) \/ CertifyX509(k, c)
       \/ Certify(k, c) \/ CertifyCreation(k, c) \/ Quote(k, c) \/ GetTime(k, c)
       \/ NvCertify(k, c) \/ GetSessionAuditDigest(k, c) \/ GetCommandAuditDigest(k, c)
       \/ \E m \in Pieces : Sign(k, m, c) \/ SignDigestCommand(k, m, c)
  \/ \E b \in Bindings :
       \/ VerifySequenceComplete(b)
       \/ \E k \in Keys, p \in Endings : SignSequenceComplete(k, b, p)
  \/ Ephemeral
  \/ \E c \in Counts : ZGen2Phase(c)
  \/ ContextSave \/ ContextLoad
  \/ TpmReset \/ Flush \/ Clear

SigningSpec == SigningInit /\ [][SigningNext]_<<signing, commits>>

-----------------------------------------------------------------------------
(* Correctness, with SingleUse, StillUsable and ImplementsOneTime.         *)

\* No restricted key has signed a caller's message that begins like what the
\* TPM makes itself, however the message was split over buffers, whichever
\* command started and completed the sequence, and whatever ticket came with
\* it: "A restricted asymmetric key may not sign anything that could be taken
\* for an attestation the TPM produced" (signing.rs:314).
NothingPassedOff == passedOff = {}
=============================================================================
