----------------------------- MODULE Authorization -----------------------------
(***************************************************************************)
(* Password and HMAC authorization: execute.rs, dispatch.rs and the        *)
(* Session of core/session.rs.  Callers that know different authValues     *)
(* prepare requests; the transport delivers each one late, twice, out of   *)
(* order or never; the TPM carries out those that check_authorization,     *)
(* check_unauthorized_session and check_audit_session accept.  A refused   *)
(* request changes nothing here (Lockout has what it does change).         *)
(*                                                                         *)
(* A nonce is the number of its draw.  A key is <<session key, authValue>>,*)
(* where a session key is the number of the session's first nonce, and 0   *)
(* is the empty session key and the Empty Buffer.  An HMAC is the record   *)
(* of what it is computed over; the command, its Names and attributes are  *)
(* those of the request that carries it.                                   *)
(***************************************************************************)
EXTENDS Naturals, FiniteSets

CONSTANTS
  Callers,
  Knows,        \* the authValues each caller knows
  Entities,
  MaxSessions,  \* loaded sessions
  MaxNonces,    \* bound: nonces that are drawn
  MaxNet        \* bound: requests that are kept under way

Empty == 0
Values == {Empty} \cup UNION {Knows[c] : c \in Callers}
Handles == 1 .. MaxSessions
None == 0
PW == MaxSessions + 1

ASSUME AuthorizationAssumption ==
  /\ \A c \in Callers : Empty \in Knows[c] /\ Knows[c] \subseteq Nat
  /\ MaxSessions \in Nat /\ MaxNonces \in Nat /\ MaxNet \in Nat

VARIABLES
  sessions,    \* the loaded HMAC sessions
  auth,        \* the authValue of each entity
  exclusive,   \* AuditState.exclusive_session
  nonces,      \* how many were drawn
  net,         \* requests that were prepared and may arrive
  redeemed,    \* history: nonces of HMACs that were accepted
  replayed,    \* history: one of them was accepted twice
  blind,       \* history: values in force when someone else's request ran
  gapped       \* history: an exclusive audit left a command out

history == <<redeemed, replayed, blind, gapped>>
authorizationVars == <<sessions, auth, exclusive, nonces, net, history>>

\* Nonces that a request or a session still holds; no others can be presented.
Known == {sessions'[h].nonce : h \in Handles} \cup {x.nonce : x \in UNION {m.mac \cup m.mac2 : m \in net}}

\* `missed` is history: an auditable command ran since the session's last entry.
NoSession == [by |-> "nobody", key |-> 0, bind |-> {}, nonce |-> 0,
              audit |-> FALSE, missed |-> FALSE]
Loaded == {h \in Handles : sessions[h] # NoSession}

AuthorizationInit ==
  /\ sessions = [h \in Handles |-> NoSession]
  /\ auth = [e \in Entities |-> Empty]
  /\ exclusive = None
  /\ nonces = 0
  /\ net = {}
  /\ redeemed = {} /\ replayed = FALSE /\ blind = {} /\ gapped = FALSE

-----------------------------------------------------------------------------
(* Keys and HMACs.                                                         *)

\* entity: the authValue of what a handle names.
EntityAuth(e) == auth[e]

\* Mutant: a bound entity is known by its Name alone.
SameName(s, e) == \E b \in s.bind : b[1] = e

\* is_bound_to: by its Name and the authValue it had.
IsBoundTo(s, e) == <<e, EntityAuth(e)>> \in s.bind

HmacKey(s, e) == <<s.key, IF IsBoundTo(s, e) THEN Empty ELSE EntityAuth(e)>>

\* auth_hmac_with_nonces; `aux` is the nonce of a session that encrypts.
Hmac(key, nonce, aux) == [key |-> key, nonce |-> nonce, aux |-> aux]

\* auth_hmac_accepted: it may be left out when the key is empty.
Accepted(key, expected, mac) == mac = {expected} \/ (mac = {} /\ key = <<0, Empty>>)

\* auxiliary_nonces, which the HMAC of the first session takes in.
Auxiliary(h2, why) == IF why = "encrypt" THEN sessions[h2].nonce ELSE 0

-----------------------------------------------------------------------------
(* Callers.                                                                *)

Missing(ss) == [h \in Handles |-> [ss[h] EXCEPT !.missed = ss[h].audit]]

\* TPM2_StartAuthSession: bound to an entity, or to none and then without a
\* key.  A salted session that is not bound is like one that has lost its
\* binding, and is left out.
StartAuthSession(c, bind) ==
  \E h \in Handles \ Loaded :
    /\ \A g \in Handles \ Loaded : h <= g
    /\ nonces < MaxNonces
    /\ nonces' = nonces + 1
    /\ sessions' = [Missing(sessions) EXCEPT ![h] =
         [NoSession EXCEPT !.by = c, !.nonce = nonces + 1,
                           !.bind = {<<e, EntityAuth(e)>> : e \in bind},
                           !.key = IF bind = {} THEN 0 ELSE nonces + 1]]
    /\ exclusive' = None
    /\ UNCHANGED <<auth, net, history>>

FlushContext(h) ==
  /\ h \in Loaded
  /\ sessions' = [sessions EXCEPT ![h] = NoSession]
  /\ exclusive' = IF exclusive = h THEN None ELSE exclusive
  /\ UNCHANGED <<auth, nonces, net, history>>

\* A session key can be computed by the caller that made the session, if it
\* knows the value the session was bound with.
CanKey(c, s) == s.key = 0 \/ (s.by = c /\ \A b \in s.bind : b[2] \in Knows[c])

\* One without an HMAC need not be kept: it can be prepared again later.  Bound:
\* of the others those for one command, with one HMAC, stand for all.
Keep(m) ==
  /\ Cardinality(net) < MaxNet
  /\ Cardinality(m.mac \cup m.mac2) = 1 /\ m.code = "Use" /\ m.keep
  /\ net' = net \cup {m}
  /\ UNCHANGED <<sessions, auth, exclusive, nonces, history>>

Lose(m) ==
  /\ net' = net \ {m}
  /\ UNCHANGED <<sessions, auth, exclusive, nonces, history>>

-----------------------------------------------------------------------------
(* The TPM.                                                                *)

\* check_session_handles.
SessionsLoaded(m) == {m.h, m.h2} \cap Handles \subseteq Loaded

\* check_authorization of the first handle.
CheckAuthorization(m) ==
  CASE m.h = None -> TRUE
    [] m.h = PW -> m.value = EntityAuth(m.e)
    [] OTHER -> LET s == sessions[m.h]
                    key == HmacKey(s, m.e)
                IN  Accepted(key, Hmac(key, s.nonce, Auxiliary(m.h2, m.why)), m.mac)

\* check_unauthorized_session of the other.
CheckUnauthorized(m) ==
  m.h2 # None =>
    LET s == sessions[m.h2]
        key == <<s.key, Empty>>
    IN  Accepted(key, Hmac(key, s.nonce, 0), m.mac2)

Audits(m) == m.why \in {"audit", "exclusive"}

CheckAuditSession(m) == m.why = "exclusive" => exclusive = m.h2

\* Mutant: only a session that authorizes has its nonce rolled.
Authorizing(m) == {m.h} \cap Handles

\* roll_response_nonces: every session of the area.
Rolled(m) == {m.h, m.h2} \cap Handles

\* Mutant: a command that nobody audits leaves the exclusive session alone.
ExclusiveKept(m) == IF Audits(m) THEN m.h2 ELSE exclusive

\* update_audit for the TPM.
ExclusiveAfter(m) ==
  IF Audits(m) THEN m.h2 ELSE IF m.code = "ReadClock" THEN exclusive ELSE None

\* update_audit for the session, and close_sessions: without continueSession
\* it goes, and one that audits is not bound any longer.
Closed(m, h, s) ==
  IF h \in {m.h, m.h2} /\ ~m.keep THEN NoSession
  ELSE IF h = m.h2 /\ Audits(m) THEN [s EXCEPT !.bind = {}, !.audit = TRUE, !.missed = FALSE]
  ELSE s

\* TPM2_HierarchyChangeAuth, and the value every other command leaves.
ChangeAuth(m) == IF m.code = "ChangeAuth" THEN [auth EXCEPT ![m.e] = m.new] ELSE auth

Deliver(m) ==
  /\ SessionsLoaded(m)
  /\ CheckAuthorization(m)
  /\ CheckUnauthorized(m)
  /\ CheckAuditSession(m)
  /\ auth' = ChangeAuth(m)
  /\ LET rolled == Rolled(m)
         used == {x.nonce : x \in m.mac \cup m.mac2}
         before == IF m.code = "ReadClock" /\ ~Audits(m) THEN sessions ELSE Missing(sessions)
     IN  /\ nonces' = nonces + Cardinality(rolled)
         /\ nonces' <= MaxNonces
         /\ sessions' = [h \in Handles |->
              Closed(m, h, IF h = m.h /\ h \in rolled THEN [before[h] EXCEPT !.nonce = nonces + 1]
                           ELSE IF h \in rolled THEN [before[h] EXCEPT !.nonce = nonces']
                           ELSE before[h])]
         /\ redeemed' = (redeemed \cup used) \cap Known
         /\ replayed' = (replayed \/ used \cap redeemed # {})
  /\ exclusive' = IF ~m.keep /\ ExclusiveAfter(m) \in {m.h, m.h2} THEN None
                  ELSE ExclusiveAfter(m)
  /\ blind' = blind \cup (IF m.h = None THEN {} ELSE {auth[m.e]} \ Knows[m.by])
  /\ gapped' = (gapped \/ (m.why = "exclusive" /\ sessions[m.h2].missed))
  /\ UNCHANGED net

-----------------------------------------------------------------------------
(* Requests.                                                               *)

\* What a caller can send for a session: HMACs of which at most one is right,
\* or, for a session with no key, none.  A password and a session that is not
\* there have none.
Hmacs(h, values, aux) ==
  IF h \notin Handles THEN {{}}
  ELSE {{Hmac(<<sessions[h].key, v>>, sessions[h].nonce, aux)} : v \in values}
         \cup (IF sessions[h].key = 0 THEN {{}} ELSE {})

\* What a second session may be there for (check_session_attributes): one
\* that does not audit encrypts or decrypts, and auditExclusive comes with audit.
\* auditReset starts the digest over and is otherwise like audit.
Purposes(h) == IF h = None THEN {"none"} ELSE {"encrypt", "audit", "exclusive"}

\* A request that a caller can prepare from what it knows now, to be delivered
\* at once or kept under way: how the handle of the command is authorized, by
\* a password or in a session, and what a second session is for.
\* TPM2_ReadClock has no handle.  Bound: continueSession is CLEAR only in
\* requests with one session.
Prepare(c, code, e) ==
  LET usable == {h \in Loaded : nonces < MaxNonces /\ CanKey(c, sessions[h])}
  IN  \E h2 \in {None} \cup usable :
      \E why \in Purposes(h2), mac2 \in Hmacs(h2, {Empty}, 0),
         new \in IF code = "ChangeAuth" THEN Knows[c] \ {Empty} ELSE {Empty},
         h \in IF code = "ReadClock" THEN {None} ELSE {PW} \cup usable :
      \E mac \in Hmacs(h, Knows[c], Auxiliary(h2, why)),
         value \in IF h = PW THEN Knows[c] ELSE {Empty},
         keep \in IF (h \in Handles) = (h2 # None) THEN {TRUE} ELSE BOOLEAN :
        LET m == [by |-> c, code |-> code, e |-> e, new |-> new, keep |-> keep, h |-> h,
                  value |-> value, mac |-> mac, h2 |-> h2, why |-> why, mac2 |-> mac2]
        IN  Keep(m) \/ Deliver(m)

AuthorizationNext ==
  \/ \E c \in Callers, e \in Entities : StartAuthSession(c, {e})
  \/ StartAuthSession("anyone", {})
  \/ \E h \in Handles : FlushContext(h)
  \/ \E c \in Callers, code \in {"Use", "ChangeAuth", "ReadClock"}, e \in Entities :
       Prepare(c, code, e)
  \/ \E m \in net : Lose(m) \/ Deliver(m)

AuthorizationSpec == AuthorizationInit /\ [][AuthorizationNext]_authorizationVars

-----------------------------------------------------------------------------
(* Correctness.                                                            *)

\* However a request is delivered, again, late or after others, an HMAC leads
\* to one command at most: the nonces of every session in its area are rolled
\* when the command succeeds (roll_response_nonces).
NoReplay == ~replayed

\* A command on an entity is carried out only for a caller that knows the
\* authValue the entity has then: a change of the value cuts off those who
\* knew the old one, with requests under way and sessions bound to it
\* (hmac_key, is_bound_to).
OldValueCutOff == blind = {}

\* A command that is audited with auditExclusive follows the session's entry
\* before it with no other auditable command in between: exclusivity is taken
\* away by every such command, and does not pass on with a handle.
LogUnbroken == ~gapped
=============================================================================
