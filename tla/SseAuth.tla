------------------------------- MODULE SseAuth -------------------------------
(***************************************************************************)
(* Authentication over the SSE endpoint: handle_auth and its table of      *)
(* sessions in relay/sse_handler.py, authenticate and its steps in         *)
(* relay/nostr_sse_client.py.  A user is one client object with one        *)
(* caller.  It asks for a challenge, signs it with the key it has by then, *)
(* and submits; each of the two requests may be lost, or its answer may.   *)
(* The relay forgets the challenge as soon as it has sent it, so any       *)
(* challenge a signed event brings is the right one, also after a restart, *)
(* and what this client sends is refused by nobody: requests fail for      *)
(* want of a relay or of an answer.  Keys and signatures are key names.    *)
(***************************************************************************)
EXTENDS Naturals, FiniteSets, Functions

CONSTANTS
  Users, Keys, None,
  Ttl         \* the life of a session, 3600 seconds in the code

VARIABLES
  now, serving,     \* the clock; the relay runs
  sessions,   \* AUTH_SESSIONS: the pubkey and the end of each token's session
  given,      \* how many tokens the relay has ever drawn
  key,        \* private_key of each client, and with it pubkey_hex; None before the first
  token,      \* _auth_token
  pubkey,     \* _auth_pubkey
  stage,      \* where authenticate stands
  attempted,  \* history: the keys authenticate took since it last succeeded
  tries       \* bound: authentications still to come

auth == <<sessions, given, key, token, pubkey, stage, attempted, tries>>

Stages  == {"idle", "asking", "signed"}
Session == [pubkey : Keys, expires : Nat]

AuthInit ==
  /\ sessions = <<>> /\ given = 0
  /\ key = [u \in Users |-> None]
  /\ token = [u \in Users |-> None] /\ pubkey = [u \in Users |-> None]
  /\ stage = [u \in Users |-> "idle"] /\ attempted = [u \in Users |-> {}]

-----------------------------------------------------------------------------
\* cleanup_auth_sessions, which every AUTH request begins with.
Alive == Restrict(sessions, {t \in DOMAIN sessions : sessions[t].expires >= now})

TakesKey(u, k) ==
  /\ stage[u] = "idle" /\ tries > 0 /\ tries' = tries - 1
  /\ key' = [key EXCEPT ![u] = k]
  /\ attempted' = [attempted EXCEPT ![u] = @ \cup {k}]
  /\ UNCHANGED <<now, serving, sessions, given, token, pubkey>>

Authenticate(u, k) ==   \* with a new key or with the one the client has
  /\ TakesKey(u, k)
  /\ stage' = [stage EXCEPT ![u] = "asking"]

Misread(u) ==           \* an nsec that holds no key: authenticate raises, past the assignment
  /\ TakesKey(u, None)
  /\ UNCHANGED stage

Fail(u) ==              \* authenticate returns an error
  /\ stage' = [stage EXCEPT ![u] = "idle"]
  /\ UNCHANGED <<now, serving, key, token, pubkey, attempted, tries>>

\* What verify_signed_auth makes of the event: the key that signed it.
Signed(u) == key[u]

\* The first request: a challenge, signed at once.
Challenge(u) ==
  /\ stage[u] = "asking" /\ serving
  /\ sessions' = Alive
  /\ stage' = [stage EXCEPT ![u] = "signed"]
  /\ UNCHANGED <<now, serving, given, key, token, pubkey, attempted, tries>>

ChallengeFails(u) ==
  /\ stage[u] = "asking"
  /\ sessions' \in {sessions} \cup (IF serving THEN {Alive} ELSE {})
  /\ Fail(u) /\ UNCHANGED given

\* The second: verify_signed_auth finds nothing wrong, and a session begins.
Open(u) ==
  /\ given' = given + 1
  /\ sessions' = [t \in DOMAIN Alive \cup {given} |->
                    IF t = given THEN [pubkey |-> Signed(u), expires |-> now + Ttl] ELSE Alive[t]]

SubmitKeepsToken(u) ==  \* altered: a client that has a token keeps it
  /\ stage[u] = "signed" /\ serving
  /\ Open(u)
  /\ token' = [token EXCEPT ![u] = IF @ = None THEN given ELSE @]
  /\ pubkey' = [pubkey EXCEPT ![u] = IF token[u] = None THEN Signed(u) ELSE @]
  /\ stage' = [stage EXCEPT ![u] = "idle"] /\ attempted' = [attempted EXCEPT ![u] = {}]
  /\ UNCHANGED <<now, serving, key, tries>>

Submit(u) ==
  /\ stage[u] = "signed" /\ serving
  /\ Open(u)
  /\ token' = [token EXCEPT ![u] = given] /\ pubkey' = [pubkey EXCEPT ![u] = Signed(u)]
  /\ stage' = [stage EXCEPT ![u] = "idle"] /\ attempted' = [attempted EXCEPT ![u] = {}]
  /\ UNCHANGED <<now, serving, key, tries>>

SubmitLost(u) ==        \* the session begins, and its token never arrives
  /\ stage[u] = "signed" /\ serving
  /\ Open(u) /\ Fail(u)

SubmitFails(u) ==
  /\ stage[u] = "signed"
  /\ Fail(u) /\ UNCHANGED <<sessions, given>>

AuthNext ==
  \E u \in Users :
    \/ \E k \in Keys : Authenticate(u, k)
    \/ Misread(u)
    \/ Challenge(u) \/ ChallengeFails(u)
    \/ Submit(u) \/ SubmitLost(u) \/ SubmitFails(u)

AuthTypeOK ==
  /\ DOMAIN sessions \subseteq 0 .. given - 1
  /\ \A t \in DOMAIN sessions : sessions[t] \in Session
  /\ key \in [Users -> Keys \cup {None}] /\ stage \in [Users -> Stages]
  /\ token \in [Users -> 0 .. given - 1 \cup {None}]
  /\ pubkey \in [Users -> Keys \cup {None}]
  /\ attempted \in [Users -> SUBSET (Keys \cup {None})]

(***************************************************************************)
(* The token a client sends with its requests stands for the key it signs  *)
(* with, as long as the relay knows the token: unless the client took that *)
(* key in an authentication that has not succeeded since.  (A failed one   *)
(* leaves the new key with the old token.)  So with every answer lost on   *)
(* the way, with a relay that restarts, and with clients that take each    *)
(* other's keys.                                                           *)
(***************************************************************************)
TokenNamesItsKey ==
  \A u \in Users :
    token[u] \in DOMAIN sessions => key[u] \in {sessions[token[u]].pubkey} \cup attempted[u]
==============================================================================
