-------------------------------- MODULE Policy --------------------------------
(***************************************************************************)
(* Policy sessions: the assertions of src/src/tpm/commands/policy.rs, the  *)
(* tickets they give out, check_policy of dispatch.rs, and what ends a     *)
(* session: use, restart, a startup.  Assertions are made at one time and  *)
(* used at another, with PCR, Time, presence, NV and authValues moving in  *)
(* between, and the session may have been saved across a startup.          *)
(*                                                                         *)
(* A digest is the sequence of what was hashed into it: <<kind, argument>> *)
(* for each assertion, and one entry for an OR or an authorized policy in  *)
(* the place of what it replaced.                                          *)
(***************************************************************************)
EXTENDS Integers, FiniteSetsExt, SequencesExt

CONSTANTS
  Policies,    \* what the authPolicy of the entity may be
  Approved,    \* digests the key of TPM2_PolicyAuthorize has signed
  NvPolicy,    \* the digest the Index of TPM2_PolicyAuthorizeNV holds
  Requests,    \* commands to be authorized: [code, names, params, locality]
  Restricted,  \* those of them a signer may restrict an authorization to
  Limit,       \* what a signer or a caller asks as expiration, in units of Time
  MaxTime, MaxBoots, MaxNonces, MaxMoves   \* bounds

ASSUME PolicyAssumption ==
  /\ Restricted \subseteq Requests
  /\ {Limit, MaxTime, MaxBoots, MaxNonces, MaxMoves} \subseteq Nat

\* What may be absent is a set of at most one element.
None == {}
CpHash(r) == <<r.code, r.names, r.params>>
Template(r) == r.params
PHash(r) == <<r.code, r.params>>

VARIABLES
  policy,    \* the authPolicy of the entity that is to be used
  s,         \* the policy session; `made` is history: what was asserted
  place,     \* where it is: "nowhere", "memory" or "saved"
  pcr,       \* a register of the D-RTM, and pcrUpdateCounter
  pp,        \* physical presence
  nv,        \* an NV Index: whether it is written, and what it holds
  auth,      \* the authValue of the entity, by version
  proof,     \* proof of the hierarchy of the tickets, by version
  time, epoch, resets,
  moves,     \* changes to the five above, for the bound
  tickets,   \* those that were given out
  nonces,    \* nonceTPM values that were drawn
  spent,     \* history: nonces in authorizations that led to a command
  twice,     \* history: one of them led to two
  stale,     \* history: assertions that did not hold when a command ran
  unmet      \* history: a command ran with no branch of the policy asserted

env == <<policy, pcr, pp, nv, auth, proof, time, epoch, resets, moves>>
history == <<spent, twice, stale, unmet>>
policyVars == <<s, place, env, tickets, nonces, history>>

EmptyPolicy ==
  [digest |-> <<>>, cc |-> None, cp |-> None, name |-> None, template |-> None,
   parameters |-> None, locality |-> None, pcr |-> None, need |-> None, written |-> None,
   pp |-> FALSE, channel |-> FALSE, exp |-> None]

NoSession ==
  [trial |-> FALSE, bound |-> FALSE, start |-> 0, epoch |-> 0, nonce |-> 0,
   p |-> EmptyPolicy, made |-> {}]

PolicyInit ==
  /\ policy \in Policies
  /\ s = NoSession /\ place = "nowhere"
  /\ pcr = [value |-> 0, counter |-> 0]
  /\ pp = FALSE /\ nv = [written |-> FALSE, value |-> 0]
  /\ auth = 0 /\ proof = 0
  /\ time = 0 /\ epoch = 0 /\ resets = 0 /\ moves = 0
  /\ tickets = {} /\ nonces = 0
  /\ spent = {} /\ twice = FALSE /\ stale = {} /\ unmet = FALSE

-----------------------------------------------------------------------------
(* The session.                                                            *)

StartAuthSession(trial, bound) ==
  /\ place = "nowhere"
  /\ nonces < MaxNonces
  /\ nonces' = nonces + 1
  /\ s' = [NoSession EXCEPT !.trial = trial, !.bound = bound, !.nonce = nonces + 1,
                            !.start = time, !.epoch = epoch]
  /\ place' = "memory"
  /\ UNCHANGED <<env, tickets, history>>

RestartPolicy(ss) == [ss EXCEPT !.p = EmptyPolicy, !.made = {}]

PolicyRestart ==
  /\ place = "memory"
  /\ s' = RestartPolicy(s)
  /\ UNCHANGED <<place, env, tickets, nonces, history>>

\* The whole session is in its context, with every restriction it recorded.
ContextSave ==
  /\ place = "memory" /\ place' = "saved"
  /\ UNCHANGED <<s, env, tickets, nonces, history>>

ContextLoad ==
  /\ place = "saved" /\ place' = "memory"
  /\ UNCHANGED <<s, env, tickets, nonces, history>>

FlushContext ==
  /\ place # "nowhere" /\ place' = "nowhere"
  /\ s' = NoSession
  /\ UNCHANGED <<env, tickets, nonces, history>>

\* The digests that an entry of a policy can take the place of.
Behind(entry) ==
  CASE entry[1] = "OR" -> entry[2]
    [] entry[1] = "AUTHORIZE" -> Approved
    [] entry[1] = "AUTHORIZENV" -> {NvPolicy}
    [] OTHER -> {}

\* Bound: only digests on the way to the policy.
Useful(d) ==
  \E p \in {policy} \cup UNION {Behind(policy[i]) : i \in DOMAIN policy} : IsPrefix(d, p)

\* The end of every assertion: the digest takes the entry, the policy the
\* restriction, and history the assertion.  A trial session keeps no digest
\* that could be used.
Asserted(p, d, made) ==
  /\ place = "memory"
  /\ Useful(d)
  /\ s' = [s EXCEPT !.p = [p EXCEPT !.digest = d], !.made = @ \cup made]
  /\ UNCHANGED <<place, env, nonces, history>>

ExtendPolicy(p, entry) == Asserted(p, Append(s.p.digest, entry), {entry})

-----------------------------------------------------------------------------
(* Assertions about the command.                                           *)

\* check_cp_hash and set_cp_hash: the cpHashA of an authorization.
CpHashFits(cp) == cp # None /\ ~s.trial => s.p.cp \subseteq cp
WithCpHash(p, cp) == IF cp = None THEN p ELSE [p EXCEPT !.cp = cp]

SharedCpHashTaken ==
  /\ ~s.trial
  /\ s.bound \/ s.p.cp # None \/ s.p.name # None \/ s.p.parameters # None \/ s.p.template # None

PolicyCpHash(h) ==
  /\ SharedCpHashTaken => s.p.cp = {h}
  /\ ExtendPolicy([s.p EXCEPT !.cp = {h}], <<"CP", h>>)
  /\ UNCHANGED tickets

PolicyNameHash(n) ==
  /\ ~SharedCpHashTaken
  /\ ExtendPolicy([s.p EXCEPT !.name = {n}], <<"NAME", n>>)
  /\ UNCHANGED tickets

PolicyTemplate(t) ==
  /\ IF s.p.template # None THEN s.p.template = {t} \/ s.trial ELSE ~SharedCpHashTaken
  /\ ExtendPolicy([s.p EXCEPT !.template = {t}], <<"TEMPLATE", t>>)
  /\ UNCHANGED tickets

PolicyParameters(h) ==
  /\ ~SharedCpHashTaken
  /\ ExtendPolicy([s.p EXCEPT !.parameters = {h}], <<"PARAMETERS", h>>)
  /\ UNCHANGED tickets

PolicyCommandCode(c) ==
  /\ ~s.trial => s.p.cc \subseteq {c}
  /\ ExtendPolicy([s.p EXCEPT !.cc = {c}], <<"CC", c>>)
  /\ UNCHANGED tickets

\* A selection names the handles and the command, whichever command was named
\* before.
Select(c, n) ==
  /\ ~SharedCpHashTaken
  /\ ExtendPolicy([s.p EXCEPT !.name = {n}, !.cc = {c}], <<"SELECT", <<c, n>> >>)
  /\ UNCHANGED tickets

PolicyDuplicationSelect(n) == Select("Duplicate", n)
PolicyACSendSelect(n) == Select("AC_Send", n)

PolicyLocality(mask) ==
  LET both == IF s.p.locality = None THEN mask ELSE s.p.locality \cap mask
  IN  /\ ~s.trial => both # {}
      /\ ExtendPolicy([s.p EXCEPT !.locality = both], <<"LOCALITY", mask>>)
      /\ UNCHANGED tickets

-----------------------------------------------------------------------------
(* Assertions about the TPM, which hold when they are made.                *)

PolicyPCR(v) ==
  /\ ~s.trial => pcr.value = v /\ s.p.pcr \subseteq {pcr.counter}
  /\ ExtendPolicy([s.p EXCEPT !.pcr = IF s.trial THEN @ ELSE {pcr.counter}], <<"PCR", v>>)
  /\ UNCHANGED tickets

PolicyNvWritten(b) ==
  /\ ~s.trial => s.p.written \subseteq {b}
  /\ ExtendPolicy([s.p EXCEPT !.written = {b}], <<"WRITTEN", b>>)
  /\ UNCHANGED tickets

\* A comparison is made once, when it is asserted.
Compared(holds, entry) ==
  /\ ~s.trial => holds
  /\ ExtendPolicy(s.p, entry)
  /\ UNCHANGED tickets

\* One comparison of each: Time below the operand, the Index equal to it, and a
\* property that is not there, which satisfies the unequal alone.
PolicyCounterTimer(k) == Compared(time < k, <<"TIMER", k>>)
PolicyNV(v) == Compared(nv.written /\ nv.value = v, <<"NV", v>>)
PolicyCapability(op) == Compared(op = "neq", <<"CAPABILITY", op>>)

PolicyPhysicalPresence ==
  ExtendPolicy([s.p EXCEPT !.pp = TRUE], <<"PP", TRUE>>) /\ UNCHANGED tickets

\* TPM2_PolicyAuthValue and TPM2_PolicyPassword put the same in the digest,
\* and the later of the two decides how the value is given.
PolicyAuthValue(need) ==
  ExtendPolicy([s.p EXCEPT !.need = {need}], <<"AUTH", TRUE>>) /\ UNCHANGED tickets

PolicyTransportSPDM ==
  /\ ~s.trial => ~s.p.channel
  /\ ExtendPolicy([s.p EXCEPT !.channel = TRUE], <<"CHANNEL", TRUE>>)
  /\ UNCHANGED tickets

-----------------------------------------------------------------------------
(* Authorizations by a key or a secret, and tickets for them.              *)

\* authorization_timeout: measured from the start of the session when the
\* nonce of the TPM ties it to one, and absolute when it does not.
Timeout(exp, tied) == IF exp = 0 THEN None ELSE {IF tied THEN s.start + Limit ELSE Limit}

Earlier(a, b) == IF a \cup b = None THEN None ELSE {Min(a \cup b)}

\* Mutant: a later authorization replaces the limit of an earlier one.
LaterExpiration(p, t) == IF t = None THEN p ELSE [p EXCEPT !.exp = t]

\* record_expiration.
RecordExpiration(p, t) == [p EXCEPT !.exp = Earlier(@, t)]

\* What history keeps of one: who gave it, the nonce and the cpHash it was
\* tied to, and until when, in which run of Time, it was meant to be used.
Obligations(kind, nonce, cp, t) ==
  {<<kind, "by">>}
    \cup {<<"NONCE", n>> : n \in nonce} \cup {<<"CP", h>> : h \in cp}
    \cup {<<"UNTIL", <<e, epoch>> >> : e \in t}

\* authorization_ticket_hmac: the proof, and the run of Time and the resets the
\* limit was counted in.
AuthorizationTicket(kind, tied, cp, t) ==
  [kind |-> kind, cp |-> cp, until |-> t, proof |-> proof, epoch |-> epoch,
   resets |-> IF tied THEN None ELSE {resets}]

\* The authorization is over exactly what is given; the signer chose it for the
\* nonce that was current.  `kept` is the limit that is recorded and that the
\* ticket has.
Authorization(kind, tied, cp, t, kept) ==
  /\ t # None /\ ~s.trial => s.epoch = epoch /\ \A e \in t : time <= e
  /\ CpHashFits(cp)
  /\ Asserted(RecordExpiration(WithCpHash(s.p, cp), kept),
              Append(s.p.digest, <<kind, "by">>),
              Obligations(kind, IF tied THEN {s.nonce} ELSE None, cp, kept))
  /\ tickets' = IF kept = None \/ s.trial THEN tickets
                ELSE {AuthorizationTicket(kind, tied, cp, t)}

PolicySigned(tied, cp, exp) ==
  Authorization("SIGNED", tied, cp, Timeout(exp, tied), Timeout(exp, tied))

\* The use of the secret of an entity; one that is a PIN Pass Index gives no
\* ticket and records no limit.
PolicySecret(tied, cp, exp, pass) ==
  Authorization("SECRET", tied, cp, Timeout(exp, tied), IF pass THEN None ELSE Timeout(exp, tied))

\* validate_ticket and TPM2_PolicyTicket.
Valid(k) ==
  /\ k.proof = proof /\ k.epoch = epoch
  /\ k.resets \subseteq {resets}
  /\ \A e \in k.until : time <= e

PolicyTicket(k) ==
  /\ ~s.trial => Valid(k)
  /\ CpHashFits(k.cp)
  /\ Asserted(RecordExpiration(WithCpHash(s.p, k.cp), k.until),
              Append(s.p.digest, <<k.kind, "by">>),
              Obligations(k.kind, None, k.cp, k.until))
  /\ UNCHANGED tickets

-----------------------------------------------------------------------------
(* Assertions that stand for a digest reached before.                      *)

Replaced(entry) == Asserted(s.p, <<entry>>, {entry})

\* Mutant: the list need not hold the digest.
PolicyORAny(list) ==
  /\ Replaced(<<"OR", list>>)
  /\ UNCHANGED tickets

PolicyOR(list) ==
  /\ ~s.trial => s.p.digest \in list
  /\ Replaced(<<"OR", list>>)
  /\ UNCHANGED tickets

\* The ticket is for a signature over the digest that was approved.
PolicyAuthorize ==
  /\ ~s.trial => s.p.digest \in Approved
  /\ Replaced(<<"AUTHORIZE", "key">>)
  /\ UNCHANGED tickets

PolicyAuthorizeNV ==
  /\ ~s.trial => s.p.digest = NvPolicy
  /\ Replaced(<<"AUTHORIZENV", "index">>)
  /\ UNCHANGED tickets

-----------------------------------------------------------------------------
(* A command that the session authorizes.                                  *)

\* check_policy, for a caller that gives the authValue, or another.
CheckPolicy(r, given) ==
  /\ s.p.digest = policy
  /\ s.p.cc \subseteq {r.code}
  /\ s.p.cp \subseteq {CpHash(r)}
  /\ s.p.locality # None => r.locality \in s.p.locality
  /\ s.p.pcr \subseteq {pcr.counter}
  /\ \A e \in s.p.exp : s.epoch = epoch /\ time <= e
  /\ ~s.p.channel
  /\ s.p.pp => pp
  /\ s.p.written \subseteq {nv.written}
  /\ s.p.name \subseteq {r.names}
  /\ s.p.template \subseteq {Template(r)}
  /\ s.p.parameters \subseteq {PHash(r)}
  /\ s.p.need # None => given = auth

\* What an assertion says of the moment a command is carried out.
Holds(a, r, given) ==
  CASE a[1] = "CC" -> r.code = a[2]
    [] a[1] = "CP" -> CpHash(r) = a[2]
    [] a[1] = "NAME" -> r.names = a[2]
    [] a[1] = "TEMPLATE" -> Template(r) = a[2]
    [] a[1] = "PARAMETERS" -> PHash(r) = a[2]
    [] a[1] = "SELECT" -> <<r.code, r.names>> = a[2]
    [] a[1] = "LOCALITY" -> r.locality \in a[2]
    [] a[1] = "PCR" -> pcr.value = a[2]
    [] a[1] = "WRITTEN" -> nv.written = a[2]
    [] a[1] = "PP" -> pp
    [] a[1] = "AUTH" -> given = auth
    [] a[1] = "UNTIL" -> time <= a[2][1] /\ epoch = a[2][2]
    [] OTHER -> TRUE

Replacing == {"OR", "AUTHORIZE", "AUTHORIZENV"}

\* Each entry of the policy was asserted, and all of a digest behind each one that stands for
\* others.
Met(made) ==
  /\ ToSet(policy) \subseteq made
  /\ \A a \in made : a[1] \in Replacing => \E d \in Behind(a) : ToSet(d) \subseteq made

\* Mutant: what was asserted for one command serves the next.
CloseKeeping(keep) ==
  IF keep THEN place' = place /\ s' = [s EXCEPT !.nonce = nonces']
  ELSE place' = "nowhere" /\ s' = NoSession

\* roll_response_nonces and close_sessions: a session that goes on has a new
\* nonce and starts over; without continueSession it is gone, and so is the
\* nonce that was drawn for it.
CloseSession(keep) ==
  IF keep THEN place' = place /\ s' = [RestartPolicy(s) EXCEPT !.nonce = nonces']
  ELSE place' = "nowhere" /\ s' = NoSession

Execute(r, given, keep) ==
  /\ place = "memory" /\ ~s.trial
  /\ CheckPolicy(r, given)
  /\ keep => nonces < MaxNonces
  /\ nonces' = IF keep THEN nonces + 1 ELSE nonces
  /\ CloseSession(keep)
  /\ LET tied == {a[2] : a \in {b \in s.made : b[1] = "NONCE"}}
     IN  spent' = spent \cup tied /\ twice' = (twice \/ tied \cap spent # {})
  /\ stale' = stale \cup
       {[kind |-> a[1], old |-> s.epoch # epoch,
         replaced |-> \E b \in s.made : b[1] = "SELECT"] :
           a \in {b \in s.made : ~Holds(b, r, given)}}
  /\ unmet' = (unmet \/ ~Met(s.made))
  /\ UNCHANGED <<env, tickets>>

-----------------------------------------------------------------------------
(* What moves in between.                                                  *)

Tick ==
  /\ time < MaxTime
  /\ time' = time + 1
  /\ UNCHANGED <<s, place, policy, pcr, pp, nv, auth, proof, epoch, resets, moves, tickets, nonces, history>>

Moving == moves < MaxMoves /\ moves' = moves + 1

\* An extend or a reset of the register, at any time after startup.
ChangePcr ==
  /\ Moving
  /\ pcr' = [value |-> 1 - pcr.value, counter |-> pcr.counter + 1]
  /\ UNCHANGED <<s, place, policy, pp, nv, auth, proof, time, epoch, resets, tickets, nonces, history>>

\* The signal of the platform, a write to the Index, a new authValue.
ChangeOther ==
  /\ Moving
  /\ \/ pp' = ~pp /\ UNCHANGED <<nv, auth>>
     \/ nv' = [written |-> TRUE, value |-> 1] /\ UNCHANGED <<pp, auth>>
     \/ auth' = 1 /\ UNCHANGED <<pp, nv>>
  /\ UNCHANGED <<s, place, policy, pcr, proof, time, epoch, resets, tickets, nonces, history>>

\* TPM2_Clear: new proofs, and the update counter moves.
Clear ==
  /\ Moving
  /\ pcr' = [pcr EXCEPT !.counter = @ + 1]
  /\ proof' = proof + 1
  /\ UNCHANGED <<s, place, policy, pp, nv, auth, time, epoch, resets, tickets, nonces, history>>

\* TPM2_Startup.  A TPM Reset ends every session; the others end what is in
\* memory, and put the register back without moving the update counter.
TpmStartup(type) ==
  /\ epoch < MaxBoots
  /\ epoch' = epoch + 1 /\ time' = 0
  /\ resets' = IF type = "RESET" THEN resets + 1 ELSE resets
  /\ pcr' = [value |-> 0, counter |-> IF type = "RESET" THEN 0 ELSE pcr.counter]
  /\ IF type = "RESET" \/ place = "memory"
     THEN place' = "nowhere" /\ s' = NoSession
     ELSE UNCHANGED <<place, s>>
  /\ UNCHANGED <<policy, pp, nv, auth, proof, moves, tickets, nonces, history>>

Lists == {e[2] : e \in {f \in ToSet(policy) : f[1] = "OR"}}

Assertion ==
  \/ \E r \in Requests :
       \/ PolicyCpHash(CpHash(r)) \/ PolicyNameHash(r.names) \/ PolicyTemplate(Template(r))
       \/ PolicyParameters(PHash(r)) \/ PolicyCommandCode(r.code)
       \/ PolicyDuplicationSelect(r.names) \/ PolicyACSendSelect(r.names)
       \/ PolicyLocality({r.locality})
  \/ \E v \in 0 .. 1 : PolicyPCR(v)
  \/ \E b \in BOOLEAN : PolicyNvWritten(b)
  \/ \E k \in 1 .. MaxTime : PolicyCounterTimer(k)
  \/ \E v \in 0 .. 1 : PolicyNV(v)
  \/ \E op \in {"eq", "neq"} : PolicyCapability(op)
  \/ PolicyPhysicalPresence
  \/ \E need \in {"auth", "password"} : PolicyAuthValue(need)
  \/ PolicyTransportSPDM
  \/ \E tied \in BOOLEAN, exp \in 0 .. 1, cp \in {None} \cup {{CpHash(r)} : r \in Restricted} :
       PolicySigned(tied, cp, exp) \/ PolicySecret(tied, cp, exp, FALSE)
  \/ \E exp \in 0 .. 1 : PolicySecret(FALSE, None, exp, TRUE)
  \/ \E k \in tickets : PolicyTicket(k)
  \/ \E list \in Lists : PolicyOR(list)
  \/ PolicyAuthorize
  \/ PolicyAuthorizeNV

PolicyNext ==
  \/ \E bound \in BOOLEAN : StartAuthSession(FALSE, bound)
  \/ StartAuthSession(TRUE, FALSE)
  \/ PolicyRestart
  \/ ContextSave \/ ContextLoad \/ FlushContext
  \/ Assertion
  \/ \E r \in Requests, given \in 0 .. 1, keep \in BOOLEAN :
       Execute(r, given, keep)
  \/ Tick \/ ChangePcr \/ ChangeOther \/ Clear
  \/ \E type \in {"RESET", "RESTART", "RESUME"} : TpmStartup(type)

PolicySpec == PolicyInit /\ [][PolicyNext]_policyVars

-----------------------------------------------------------------------------
(* Correctness.                                                            *)

\* "Assertions the policy recorded must still hold" (dispatch.rs:1217): when
\* a command is carried out, every assertion made in the session since it was
\* restarted holds of that command and of the TPM at that moment, those that
\* an OR or an authorized policy has taken out of the digest included.  Two
\* cases are left out: a PCR assertion of a session older than the last
\* startup, and a command code before a selection that replaces it.
AssertionsHold ==
  \A x \in stale : (x.kind = "PCR" /\ x.old) \/ (x.kind = "CC" /\ x.replaced)

\* A command runs under a policy only after all the assertions of one of the
\* ways to satisfy it were made, in this session and since its last use.
PolicyMet == ~unmet

\* An authorization tied to a nonce of the TPM leads to one command at most,
\* however it is presented again: in the same session, in a restarted or a
\* reloaded one, or in one that another session made room for.
TiedOnce == ~twice

=============================================================================
