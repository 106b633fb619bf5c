------------------------------ MODULE SseProofs ------------------------------
(***************************************************************************)
(* Proofs about SseSystem: the queues of the endpoint, the ids and the     *)
(* filters of its subscriptions, the sessions and the monitor.             *)
(*                                                                         *)
(* The four parts share the relay process and little else, so the          *)
(* inductive invariant is a conjunction of one per part, each kept by      *)
(* every step of the whole system.                                         *)
(***************************************************************************)
EXTENDS SseSystem, FiniteSetTheorems, SequenceTheorems, TLAPS

-----------------------------------------------------------------------------
(***************************************************************************)
(* The monitor.  While it sleeps no check has gone unnamed for longer than *)
(* the last alert is old; the minute that passes before the next checks    *)
(* makes the alert strictly older, unless its age has met the cooldown     *)
(* already, and then the cycle that finds a failure names it.              *)
(***************************************************************************)
NamedInTime ==
  \A x \in M!Checks :
    /\ unnamed[x] < Cooldown
    /\ phase = "asleep" => unnamed[x] <= age
    /\ phase # "asleep" => unnamed[x] < age \/ age = Cooldown

MonitorInv == M!MonitorTypeOK /\ NamedInTime

LEMMA CapWithinCooldown ==
  ASSUME NEW n \in Nat
  PROVE  /\ M!UpTo(n) \in 0 .. Cooldown /\ M!UpTo(n) <= n
         /\ n < Cooldown => M!UpTo(n) = n
         /\ M!UpTo(n) = n \/ M!UpTo(n) = Cooldown
  BY SystemAssumption DEF M!UpTo

LEMMA InitMonitor == M!MonitorInit => MonitorInv
  BY SystemAssumption DEF M!MonitorInit, MonitorInv, M!MonitorTypeOK, NamedInTime

LEMMA StepMonitor ==
  ASSUME MonitorInv,
         \/ M!CheckWss \/ M!CheckSse \/ M!Alert \/ M!MonitorRestarts
         \/ UNCHANGED <<phase, failed, age, unnamed>>
  PROVE  MonitorInv'
<1>1. CASE M!CheckWss
  <2>1. age' = M!UpTo(age + 1) /\ age + 1 \in Nat
    BY <1>1 DEF M!CheckWss, MonitorInv, M!MonitorTypeOK
  <2>2. M!MonitorTypeOK'
    BY <1>1, <2>1, CapWithinCooldown
       DEF M!CheckWss, MonitorInv, M!MonitorTypeOK, M!Checks
  <2>3. NamedInTime'
    BY <1>1, <2>1, CapWithinCooldown, SystemAssumption
       DEF M!CheckWss, MonitorInv, M!MonitorTypeOK, NamedInTime
  <2> QED
    BY <2>2, <2>3 DEF MonitorInv
<1>2. CASE M!CheckSse
  BY <1>2 DEF M!CheckSse, MonitorInv, M!MonitorTypeOK, NamedInTime, M!Checks
<1>3. CASE M!Alert
  <2>1. PICK more \in M!Failures, reachable \in M!Reachable :
          LET bad  == failed \cup more
              sent == M!Due(bad) /\ reachable
          IN  /\ failed' = bad
              /\ age' = IF sent THEN 0 ELSE age
              /\ unnamed' = [x \in M!Checks |-> IF x \in bad /\ reachable /\ ~sent
                                                THEN M!UpTo(unnamed[x] + 1) ELSE 0]
    BY <1>3 DEF M!Alert
  <2>2. phase = "sse" /\ phase' = "asleep"
    BY <1>3 DEF M!Alert
  <2>3. failed' \subseteq M!Checks /\ age' \in 0 .. Cooldown
    BY <2>1, SystemAssumption DEF M!Failures, M!Checks, MonitorInv, M!MonitorTypeOK
  <2>4. ASSUME NEW x \in M!Checks
        PROVE  unnamed'[x] \in 0 .. Cooldown /\ unnamed'[x] < Cooldown /\ unnamed'[x] <= age'
    <3>1. CASE unnamed'[x] = 0
      BY <2>3, <3>1, SystemAssumption
    <3>2. CASE unnamed'[x] # 0
      <4>1. /\ x \in failed' /\ ~M!Due(failed') /\ age' = age
            /\ unnamed'[x] = M!UpTo(unnamed[x] + 1)
        BY <2>1, <3>2
      <4>2. age # Cooldown
        BY <4>1 DEF M!Due
      <4>3. unnamed[x] \in Nat /\ unnamed[x] < age /\ age < Cooldown /\ age \in Nat
        BY <2>2, <4>2, SystemAssumption DEF MonitorInv, M!MonitorTypeOK, NamedInTime
      <4>4. M!UpTo(unnamed[x] + 1) = unnamed[x] + 1
        BY <4>3, CapWithinCooldown, SystemAssumption
      <4> QED
        BY <4>1, <4>3, <4>4, SystemAssumption
    <3> QED
      BY <3>1, <3>2
  <2>5. unnamed' = [x \in M!Checks |-> unnamed'[x]]
    BY <2>1
  <2>6. unnamed' \in [M!Checks -> 0 .. Cooldown]
    BY <2>4, <2>5
  <2> QED
    BY <2>2, <2>3, <2>4, <2>6 DEF MonitorInv, M!MonitorTypeOK, NamedInTime, M!Checks
<1>4. CASE M!MonitorRestarts
  BY <1>4, SystemAssumption
     DEF M!MonitorRestarts, MonitorInv, M!MonitorTypeOK, NamedInTime, M!Checks
<1>5. CASE UNCHANGED <<phase, failed, age, unnamed>>
  BY <1>5 DEF MonitorInv, M!MonitorTypeOK, NamedInTime, M!Checks
<1> QED
  BY <1>1, <1>2, <1>3, <1>4, <1>5

-----------------------------------------------------------------------------
(***************************************************************************)
(* The sessions.  A token that a client holds has been drawn, and the      *)
(* relay has not drawn it again: each session begins under a number of its *)
(* own, so no session a client holds the token of is another's.  The key   *)
(* it signs with is the token's, or among those it took since.             *)
(***************************************************************************)
KeyAtHand == \A u \in Users : stage[u] # "idle" => key[u] \in Keys

AuthInv == given \in Nat /\ A!AuthTypeOK /\ KeyAtHand /\ TokenNamesItsKey

LEMMA InitAuth == A!AuthInit => AuthInv
<1> SUFFICES ASSUME A!AuthInit PROVE AuthInv
  OBVIOUS
<1>1. DOMAIN sessions = {} /\ given = 0
  BY DEF A!AuthInit
<1> QED
  BY <1>1 DEF A!AuthInit, AuthInv, A!AuthTypeOK, A!Stages, KeyAtHand, TokenNamesItsKey, A!TokenNamesItsKey

\* What is left of the sessions after a clean-up is as it was.
LEMMA AliveSessions ==
  /\ DOMAIN A!Alive \subseteq DOMAIN sessions
  /\ \A t \in DOMAIN A!Alive : A!Alive[t] = sessions[t]
  BY DEF A!Alive, A!Restrict

\* Fewer sessions, and nothing else about the tokens: all that a step but the
\* two that begin a session does to them.
LEMMA FewerSessions ==
  ASSUME AuthInv, DOMAIN sessions' \subseteq DOMAIN sessions,
         \A t \in DOMAIN sessions' : sessions'[t] = sessions[t],
         UNCHANGED <<given, token, pubkey>>,
         key' \in [Users -> Keys \cup {None}], stage' \in [Users -> A!Stages], KeyAtHand',
         attempted' \in [Users -> SUBSET (Keys \cup {None})],
         \A u \in Users : attempted[u] \subseteq attempted'[u] /\ key'[u] \in {key[u]} \cup attempted'[u]
  PROVE  AuthInv'
<1>1. A!AuthTypeOK'
  BY DEF AuthInv, A!AuthTypeOK, A!Session, A!Stages
<1>2. TokenNamesItsKey'
  BY DEF AuthInv, TokenNamesItsKey, A!TokenNamesItsKey
<1> QED
  BY <1>1, <1>2 DEF AuthInv

\* A session begins, and its token, a new one, goes to the client or is lost.
LEMMA OpenSession ==
  ASSUME AuthInv, NEW u \in Users, A!Open(u), stage[u] = "signed",
         \/ /\ token' = [token EXCEPT ![u] = given] /\ pubkey' = [pubkey EXCEPT ![u] = key[u]]
            /\ attempted' = [attempted EXCEPT ![u] = {}]
         \/ UNCHANGED <<token, pubkey, attempted>>,
         UNCHANGED key, stage' = [stage EXCEPT ![u] = "idle"], now \in Nat
  PROVE  AuthInv'
<1>1. /\ given' = given + 1 /\ DOMAIN sessions' = DOMAIN A!Alive \cup {given}
      /\ sessions'[given] = [pubkey |-> key[u], expires |-> now + Ttl]
      /\ \A t \in DOMAIN A!Alive : t # given => sessions'[t] = A!Alive[t]
  BY DEF A!Open, A!Signed
<1>2. /\ given \in Nat /\ given \notin DOMAIN sessions /\ DOMAIN A!Alive \subseteq 0 .. given - 1
      /\ key[u] \in Keys
  BY AliveSessions DEF AuthInv, A!AuthTypeOK, KeyAtHand
<1>3. \A t \in DOMAIN sessions' : t # given => t \in DOMAIN sessions /\ sessions'[t] = sessions[t]
  BY <1>1, AliveSessions
<1>4. A!AuthTypeOK'
  <2>1. DOMAIN sessions' \subseteq 0 .. given' - 1
    BY <1>1, <1>2
  <2>2. \A t \in DOMAIN sessions' : sessions'[t] \in A!Session
    BY <1>1, <1>2, <1>3, SystemAssumption DEF AuthInv, A!AuthTypeOK, A!Session
  <2>3. /\ token' \in [Users -> 0 .. given' - 1 \cup {None}] /\ pubkey' \in [Users -> Keys \cup {None}]
        /\ attempted' \in [Users -> SUBSET (Keys \cup {None})]
    BY <1>1, <1>2 DEF AuthInv, A!AuthTypeOK
  <2> QED
    BY <2>1, <2>2, <2>3 DEF AuthInv, A!AuthTypeOK, A!Stages, A!Session
<1>5. TokenNamesItsKey'
  <2> SUFFICES ASSUME NEW v \in Users, token'[v] \in DOMAIN sessions'
               PROVE  key'[v] \in {sessions'[token'[v]].pubkey} \cup attempted'[v]
    BY DEF TokenNamesItsKey, A!TokenNamesItsKey
  <2>1. CASE token'[v] = given
    <3>1. v = u
      BY <1>2, <2>1, HandlerAssumption DEF AuthInv, A!AuthTypeOK
    <3> QED
      BY <1>1, <2>1, <3>1
  <2>2. CASE token'[v] # given
    <3>1. token'[v] = token[v] /\ attempted'[v] = attempted[v]
      BY <2>2 DEF AuthInv, A!AuthTypeOK
    <3> QED
      BY <1>3, <2>2, <3>1 DEF AuthInv, TokenNamesItsKey, A!TokenNamesItsKey
  <2> QED
    BY <2>1, <2>2
<1>6. KeyAtHand'
  BY DEF AuthInv, A!AuthTypeOK, KeyAtHand
<1> QED
  BY <1>1, <1>2, <1>4, <1>5, <1>6 DEF AuthInv

LEMMA AuthStep ==
  ASSUME AuthInv, A!AuthNext, now \in Nat
  PROVE  AuthInv'
<1>1. ASSUME NEW u \in Users, NEW k \in Keys \cup {None}, A!TakesKey(u, k),
             \/ k \in Keys /\ stage' = [stage EXCEPT ![u] = "asking"]
             \/ UNCHANGED stage
      PROVE  AuthInv'
  <2>1. /\ key' \in [Users -> Keys \cup {None}] /\ stage' \in [Users -> A!Stages] /\ KeyAtHand'
        /\ attempted' \in [Users -> SUBSET (Keys \cup {None})]
    BY <1>1 DEF A!TakesKey, AuthInv, A!AuthTypeOK, A!Stages, KeyAtHand
  <2>2. \A v \in Users : attempted[v] \subseteq attempted'[v] /\ key'[v] \in {key[v]} \cup attempted'[v]
    BY <1>1 DEF A!TakesKey, AuthInv, A!AuthTypeOK
  <2> QED
    BY <1>1, <2>1, <2>2, FewerSessions DEF A!TakesKey
<1>2. ASSUME NEW u \in Users, UNCHANGED <<given, key, token, pubkey, attempted>>, sessions' \in {sessions, A!Alive},
             \/ stage' = [stage EXCEPT ![u] = "idle"]
             \/ stage[u] = "asking" /\ stage' = [stage EXCEPT ![u] = "signed"]
      PROVE  AuthInv'
  <2>1. /\ key' \in [Users -> Keys \cup {None}] /\ stage' \in [Users -> A!Stages] /\ KeyAtHand'
    BY <1>2 DEF AuthInv, A!AuthTypeOK, A!Stages, KeyAtHand
  <2>2. DOMAIN sessions' \subseteq DOMAIN sessions /\ \A t \in DOMAIN sessions' : sessions'[t] = sessions[t]
    BY <1>2, AliveSessions
  <2>3. attempted' \in [Users -> SUBSET (Keys \cup {None})]
    BY <1>2 DEF AuthInv, A!AuthTypeOK
  <2> QED
    BY <1>2, <2>1, <2>2, <2>3, FewerSessions
<1>3. ASSUME NEW u \in Users, A!Challenge(u) \/ A!ChallengeFails(u) \/ A!SubmitFails(u)
      PROVE  AuthInv'
  BY <1>2, <1>3 DEF A!Challenge, A!ChallengeFails, A!SubmitFails, A!Fail
<1>4. ASSUME NEW u \in Users, A!Submit(u) \/ A!SubmitLost(u)
      PROVE  AuthInv'
  BY <1>4, OpenSession DEF A!Submit, A!SubmitLost, A!Fail, A!Signed
<1>5. ASSUME NEW u \in Users, A!Misread(u) \/ \E k \in Keys : A!Authenticate(u, k)
      PROVE  AuthInv'
  BY <1>1, <1>5 DEF A!Misread, A!Authenticate
<1> QED
  BY <1>3, <1>4, <1>5 DEF A!AuthNext

\* The streams leave the sessions alone, or take them all with the relay.
LEMMA OthersKeepAuth ==
  ASSUME AuthInv, sessions' = sessions \/ sessions' = <<>>,
         UNCHANGED <<given, key, token, pubkey, stage, attempted>>
  PROVE  AuthInv'
<1>1. DOMAIN sessions' \subseteq DOMAIN sessions /\ \A t \in DOMAIN sessions' : sessions'[t] = sessions[t]
  OBVIOUS
<1> QED
  BY <1>1, FewerSessions DEF AuthInv, A!AuthTypeOK, KeyAtHand, A!Stages

-----------------------------------------------------------------------------
(***************************************************************************)
(* The endpoint: its types, and NoQueueLeft, which needs no more of the    *)
(* state than that queues belong to connections.                           *)
(***************************************************************************)
Frames == Events \cup {Eose, Eof}

ServerTypes ==
  /\ db \subseteq Events /\ IsFiniteSet(db) /\ serving \in BOOLEAN /\ held \subseteq Conns
  /\ DOMAIN stream = Conns /\ stream = [c \in Conns |-> stream[c]]
  /\ \A c \in Conns : stream[c].phase \in Phases /\ stream[c].limit \in Nat \ {0}
  /\ line \in [Conns -> Seq(Frames)]
  /\ asked \in [Conns -> SUBSET db]
  /\ \A s \in DOMAIN queues : queues[s] \in Conns

ServerInv == ServerTypes /\ NoQueueLeft

\* An answer holds rows of the set it is drawn from; what it does not hold was
\* crowded out by as many others, none of them older.
LEMMA AnswerIsNewest ==
  ASSUME NEW es \in SUBSET Events, IsFiniteSet(es), NEW n \in Nat \ {0}, NEW q \in Answers(es, n)
  PROVE  /\ q \in Seq(es)
         /\ \A e \in es : \/ \E i \in 1 .. Len(q) : q[i] = e
                          \/ Cardinality({f \in es \ {e} : created[f] >= created[e]}) >= n
<1> DEFINE k == Cardinality(es)
<1>1. k \in Nat
  BY FS_CardinalityType
<1>2. PICK p \in SetToSeqs(es) : Sorted(p) /\ q = SubSeq(p, 1, IF n < Len(p) THEN n ELSE Len(p))
  BY DEF Answers
<1>3. p \in [1 .. k -> es] /\ \A i, j \in 1 .. k : i # j => p[i] # p[j]
  BY <1>2 DEF SetToSeqs
<1>4. p \in Seq(es) /\ Len(p) = k /\ DOMAIN p = 1 .. k
  BY <1>1, <1>3, IsASeq, LenProperties
<1> DEFINE m == IF n < k THEN n ELSE k
<1>5. m \in 0 .. k /\ q = SubSeq(p, 1, m)
  BY <1>1, <1>2, <1>4
<1>6. /\ q \in Seq(es) /\ Len(q) = m
      /\ \A i \in 1 .. m : q[i] = p[i]
  BY <1>1, <1>4, <1>5, SubSeqProperties
<1>7. \A e \in es : \E i \in 1 .. k : p[i] = e
  <2>1. IsFiniteSet(1 .. k) /\ Cardinality(1 .. k) = k
    BY <1>1, FS_Interval
  <2>2. p \in Injection(1 .. k, es)
    BY <1>3 DEF Injection, IsInjective
  <2>3. p \in Surjection(1 .. k, es)
    BY <2>1, <2>2, FS_Injection
  <2> QED
    BY <2>3 DEF Surjection
<1> SUFFICES ASSUME NEW e \in es, ~ \E i \in 1 .. Len(q) : q[i] = e
             PROVE  Cardinality({f \in es \ {e} : created[f] >= created[e]}) >= n
  BY <1>6
<1> DEFINE N == {f \in es \ {e} : created[f] >= created[e]}
           g == [j \in 1 .. n |-> p[j]]
<1>8. PICK i \in 1 .. k : p[i] = e
  BY <1>7
<1>9. m < i /\ m = n /\ n < k
  BY <1>1, <1>5, <1>6, <1>8
<1>10. \A j \in 1 .. n : p[j] \in N
  <2> SUFFICES ASSUME NEW j \in 1 .. n PROVE p[j] \in N
    OBVIOUS
  <2>1. j \in 1 .. k /\ j < i
    BY <1>1, <1>9
  <2>2. p[j] \in es /\ p[j] # e
    BY <1>3, <1>8, <2>1
  <2>3. created[p[j]] >= created[e]
    BY <1>2, <1>4, <1>8, <2>1 DEF Sorted
  <2> QED
    BY <2>2, <2>3
<1>11. g \in Injection(1 .. n, N)
  <2>1. g \in [1 .. n -> N]
    BY <1>10
  <2>2. \A i1, j1 \in 1 .. n : g[i1] = g[j1] => i1 = j1
    BY <1>1, <1>3, <1>9
  <2> QED
    BY <2>1, <2>2 DEF Injection, IsInjective
<1>12. IsFiniteSet(N)
  BY FS_Subset
<1>13. Cardinality(1 .. n) <= Cardinality(N)
  BY <1>11, <1>12, FS_Injection
<1>14. Cardinality(1 .. n) = n
  BY FS_Interval
<1> QED
  BY <1>13, <1>14

-----------------------------------------------------------------------------
LEMMA Records ==
  /\ Unused.phase = "unused" /\ Unused.limit \in Nat \ {0}
  /\ Ended.phase = "ended" /\ Ended.limit \in Nat \ {0}
  /\ \A c : /\ Waiting(c).phase = "waiting" /\ Waiting(c).sub = stream[c].sub
            /\ Waiting(c).limit \in Nat \ {0}
  BY HandlerAssumption DEF Unused, Ended, Waiting

LEMMA InitServer == ServerInit => ServerInv
<1> SUFFICES ASSUME ServerInit PROVE ServerInv
  OBVIOUS
<1>1. DOMAIN queues = {}
  BY DEF ServerInit
<1>2. <<>> \in Seq(Frames)
  BY EmptySeq
<1> QED
  BY <1>1, <1>2, Records, FS_EmptySet DEF ServerInit, ServerInv, ServerTypes, NoQueueLeft, Phases

LEMMA AcceptKeeps ==
  ASSUME ServerInv, NEW c \in Conns, NEW s, NEW i, NEW n \in Nat \ {0}, Accept(c, s, i, n)
  PROVE  ServerInv'
<1>1. /\ stream' = [stream EXCEPT ![c] = stream'[c]]
      /\ stream'[c].phase = "asked" /\ stream'[c].sub = s /\ stream'[c].limit = n
      /\ stream[c].phase = "unused"
      /\ \A d \in Conns \ {c} : stream'[d] = stream[d]
  BY DEF Accept, ServerInv, ServerTypes, Unused, At
<1>2. /\ DOMAIN queues' = DOMAIN queues \cup {s} /\ queues'[s] = c
      /\ \A r \in DOMAIN queues \ {s} : queues'[r] = queues[r]
  BY DEF Accept
<1>3. ServerTypes'
  <2>1. DOMAIN stream' = Conns /\ stream' = [d \in Conns |-> stream'[d]]
    BY DEF Accept, ServerInv, ServerTypes
  <2>2. \A d \in Conns : stream'[d].phase \in Phases /\ stream'[d].limit \in Nat \ {0}
    BY <1>1 DEF ServerInv, ServerTypes, Phases
  <2>3. \A r \in DOMAIN queues' : queues'[r] \in Conns
    BY <1>2 DEF ServerInv, ServerTypes
  <2> QED
    BY <2>1, <2>2, <2>3 DEF Accept, ServerInv, ServerTypes
<1>4. NoQueueLeft'
  <2> SUFFICES ASSUME NEW r \in DOMAIN queues', r # s
               PROVE  LET d == queues[r] IN
                        stream'[d].phase # "unused" /\ stream'[d].phase # "ended" /\ stream'[d].sub = r
    BY <1>1, <1>2 DEF NoQueueLeft, At
  <2>1. queues[r] \in Conns /\ queues[r] # c
    BY <1>1, <1>2 DEF ServerInv, ServerTypes, NoQueueLeft, At
  <2> QED
    BY <1>1, <1>2, <2>1 DEF ServerInv, NoQueueLeft, At
<1> QED
  BY <1>3, <1>4 DEF ServerInv

\* The stream of c ends and takes the queue of its id with it, whosever it is.
LEMMA EndKeeps ==
  ASSUME ServerInv, NEW c \in Conns, End(c), line' \in [Conns -> Seq(Frames)]
  PROVE  ServerInv'
<1>1. /\ stream' = [stream EXCEPT ![c] = Ended]
      /\ DOMAIN queues' = DOMAIN queues \ {stream[c].sub}
      /\ \A r \in DOMAIN queues' : queues'[r] = queues[r]
  BY DEF End, Without, Restrict
<1>2. ServerTypes'
  <2>1. DOMAIN stream' = Conns /\ stream' = [d \in Conns |-> stream'[d]]
    BY <1>1 DEF ServerInv, ServerTypes
  <2>2. \A d \in Conns : stream'[d].phase \in Phases /\ stream'[d].limit \in Nat \ {0}
    BY <1>1, Records DEF ServerInv, ServerTypes, Phases
  <2>3. \A r \in DOMAIN queues' : queues'[r] \in Conns
    BY <1>1 DEF ServerInv, ServerTypes
  <2> QED
    BY <2>1, <2>2, <2>3 DEF End, ServerInv, ServerTypes
<1>3. NoQueueLeft'
  <2> SUFFICES ASSUME NEW r \in DOMAIN queues'
               PROVE  LET d == queues'[r] IN
                        stream'[d].phase # "unused" /\ stream'[d].phase # "ended" /\ stream'[d].sub = r
    BY DEF NoQueueLeft, At
  <2>1. queues'[r] \in Conns /\ queues'[r] # c
    BY <1>1 DEF ServerInv, ServerTypes, NoQueueLeft
  <2> QED
    BY <1>1, <2>1 DEF ServerInv, ServerTypes, NoQueueLeft, At
<1> QED
  BY <1>2, <1>3 DEF ServerInv

\* The stream of c has answered and waits, under the id and the queue it had.
LEMMA WaitKeeps ==
  ASSUME ServerInv, NEW c \in Conns, At(c, "asked"), stream' = [stream EXCEPT ![c] = Waiting(c)],
         UNCHANGED <<db, serving, queues, held>>,
         line' \in [Conns -> Seq(Frames)], asked' \in [Conns -> SUBSET db]
  PROVE  ServerInv'
<1>1. /\ stream'[c].phase = "waiting" /\ stream'[c].sub = stream[c].sub
      /\ \A d \in Conns \ {c} : stream'[d] = stream[d]
  BY Records DEF ServerInv, ServerTypes
<1>2. ServerTypes'
  BY Records DEF ServerInv, ServerTypes, Phases
<1>3. NoQueueLeft'
  BY <1>1 DEF ServerInv, ServerTypes, NoQueueLeft, At
<1> QED
  BY <1>2, <1>3 DEF ServerInv

LEMMA AnswerLine ==
  ASSUME ServerTypes, NEW c \in Conns, NEW i, NEW q \in Answers(Matching(db, i), stream[c].limit)
  PROVE  q \o <<Eose>> \in Seq(Frames)
<1>1. Matching(db, i) \in SUBSET Events /\ IsFiniteSet(Matching(db, i))
  BY FS_Subset DEF Matching, ServerTypes
<1>2. q \in Seq(Matching(db, i))
  BY <1>1, AnswerIsNewest DEF ServerTypes
<1>3. q \in Seq(Frames)
  BY <1>1, <1>2, SeqMonotonic DEF Frames
<1>4. <<Eose>> \in Seq(Frames)
  BY DEF Frames
<1> QED
  BY <1>3, <1>4, ConcatProperties

LEMMA ServeKeeps ==
  ASSUME ServerInv, NEW c \in Conns, Serve(c)
  PROVE  ServerInv'
<1>1. CASE Answer(c)
  <2>1. line' \in [Conns -> Seq(Frames)]
    <3>1. PICK q \in Answers(Matching(db, stream[c].since), stream[c].limit) :
            line' = [line EXCEPT ![c] = q \o <<Eose>>]
      BY <1>1 DEF Answer
    <3>2. q \o <<Eose>> \in Seq(Frames)
      BY AnswerLine DEF ServerInv
    <3> QED
      BY <3>1, <3>2 DEF ServerInv, ServerTypes
  <2>2. asked' \in [Conns -> SUBSET db]
    BY <1>1 DEF Answer, ServerInv, ServerTypes
  <2> QED
    BY <1>1, <2>1, <2>2, WaitKeeps DEF Answer
<1>2. CASE AnswerVanishes(c)
  BY <1>2, WaitKeeps DEF AnswerVanishes, ServerInv, ServerTypes
<1>3. CASE AnswerFails(c)
  BY <1>3, EndKeeps DEF AnswerFails, ServerInv, ServerTypes
<1>4. CASE QueryFails(c)
  <2>1. <<Eof>> \in Seq(Frames)
    BY DEF Frames
  <2>2. line' \in [Conns -> Seq(Frames)]
    BY <1>4, <2>1 DEF QueryFails, ServerInv, ServerTypes
  <2> QED
    BY <1>4, <2>2, EndKeeps DEF QueryFails
<1> QED
  BY <1>1, <1>2, <1>3, <1>4 DEF Serve

LEMMA StoreKeeps ==
  ASSUME ServerInv, NEW e \in Events, Store(e)
  PROVE  ServerInv'
<1>1. IsFiniteSet(db')
  BY FS_AddElement DEF Store, ServerInv, ServerTypes
<1> QED
  BY <1>1 DEF Store, ServerInv, ServerTypes, NoQueueLeft, At

LEMMA RestartKeeps ==
  ASSUME ServerInv, ServerStops \/ ServerStarts
  PROVE  ServerInv'
<1>1. CASE ServerStops
  <2>1. DOMAIN queues' = {} /\ held' = {} /\ serving' = FALSE /\ UNCHANGED <<db, line, asked>>
    BY <1>1 DEF ServerStops
  <2>2. DOMAIN stream' = Conns /\ stream' = [c \in Conns |-> stream'[c]]
    BY <1>1 DEF ServerStops
  <2>3. \A c \in Conns : stream'[c] = Unused \/ stream'[c] = Ended
    BY <1>1 DEF ServerStops
  <2>4. \A c \in Conns : stream'[c].phase \in Phases /\ stream'[c].limit \in Nat \ {0}
    BY <2>3, Records DEF Phases
  <2> QED
    BY <2>1, <2>2, <2>4 DEF ServerInv, ServerTypes, NoQueueLeft
<1>2. CASE ServerStarts
  BY <1>2 DEF ServerStarts, ServerInv, ServerTypes, NoQueueLeft, At
<1> QED
  BY <1>1, <1>2

\* What happens on the connections alone.
LEMMA TransportKeeps ==
  ASSUME ServerInv, UNCHANGED <<db, serving, stream, queues>>, held' \subseteq held,
         line' \in [Conns -> Seq(Frames)], asked' \in [Conns -> SUBSET db]
  PROVE  ServerInv'
  BY DEF ServerInv, ServerTypes, NoQueueLeft, At

LEMMA CutKeeps ==
  ASSUME ServerInv, NEW c \in Conns, Cut(c)
  PROVE  ServerInv'
<1>1. PICK n \in 0 .. Len(line[c]) : line' = [line EXCEPT ![c] = Append(SubSeq(line[c], 1, n), Eof)]
  BY DEF Cut
<1>2. line[c] \in Seq(Frames)
  BY DEF ServerInv, ServerTypes
<1>3. SubSeq(line[c], 1, n) \in Seq(Frames)
  BY <1>2, SubSeqProperties, LenProperties
<1>4. Append(SubSeq(line[c], 1, n), Eof) \in Seq(Frames)
  BY <1>3, AppendProperties DEF Frames
<1> QED
  BY <1>1, <1>4, TransportKeeps DEF Cut, ServerInv, ServerTypes

LEMMA ReleaseKeeps ==
  ASSUME ServerInv, probe \in Conns \cup {None}, Release
  PROVE  ServerInv'
<1>1. <<>> \in Seq(Frames)
  BY EmptySeq
<1> QED
  BY <1>1, TransportKeeps DEF Release, ServerInv, ServerTypes

-----------------------------------------------------------------------------
(***************************************************************************)
(* The ids.  In a second in which nothing has left the table, every        *)
(* subscription with a callback made in it is still there, and each id of  *)
(* that second carries a number below the size of the table: the next one  *)
(* is new.  Ids of earlier seconds are never given again.                  *)
(***************************************************************************)
Sealed ==               \* what holds of the ids of a second without removals
  /\ \A t \in Threads \ Generators : sub[t] # None /\ sub[t][1] = now => sub[t] \in DOMAIN table
  /\ \A s \in DOMAIN table : s[1] = now => s[2] < Cardinality(DOMAIN table)

IdTypes ==
  /\ now \in Nat
  /\ at \in [Threads -> Points] /\ sub = [t \in Threads |-> sub[t]]
  /\ \A t \in Threads : IF at[t] = "unused" THEN sub[t] = None ELSE sub[t] \in (0 .. now) \X Nat
  /\ IsFiniteSet(DOMAIN table)
  /\ \A s \in DOMAIN table : /\ table[s] \in Threads \ Generators /\ at[table[s]] # "unused"
                             /\ sub[table[s]] = s

IdsInv == IdTypes /\ (now \notin shrunk => Sealed) /\ IdsDiffer

LEMMA InitIds == Init => IdsInv
<1> SUFFICES ASSUME Init PROVE IdsInv
  OBVIOUS
<1>1. DOMAIN table = {}
  BY DEF Init
<1> QED
  BY <1>1, FS_EmptySet DEF Init, IdsInv, IdTypes, Sealed, IdsDiffer, Points

\* A step that makes no id and takes none out of the table.
LEMMA SameIds ==
  ASSUME IdsInv, UNCHANGED <<now, sub, table, shrunk>>, at' \in [Threads -> Points],
         \A t \in Threads : at'[t] = "unused" <=> at[t] = "unused"
  PROVE  IdsInv'
<1>1. IdTypes'
  BY DEF IdsInv, IdTypes
<1> QED
  BY <1>1 DEF IdsInv, Sealed, IdsDiffer

LEMMA TakeOutIds ==
  ASSUME IdsInv, NEW s, TakeOut(s), UNCHANGED <<now, sub>>, at' \in [Threads -> Points],
         \A t \in Threads : at'[t] = "unused" <=> at[t] = "unused"
  PROVE  IdsInv'
<1>1. /\ DOMAIN table' = DOMAIN table \ {s}
      /\ \A r \in DOMAIN table' : table'[r] = table[r]
  BY DEF TakeOut, Without, Restrict
<1>2. IsFiniteSet(DOMAIN table')
  BY <1>1, FS_RemoveElement DEF IdsInv, IdTypes
<1>3. IdTypes'
  BY <1>1, <1>2 DEF IdsInv, IdTypes
<1>4. shrunk \subseteq shrunk' /\ (s \in DOMAIN table => now' \in shrunk')
  BY DEF TakeOut
<1>5. IdsDiffer'
  BY <1>4 DEF IdsInv, IdsDiffer
<1>6. now' \notin shrunk' => Sealed'
  <2> SUFFICES ASSUME now' \notin shrunk' PROVE Sealed'
    OBVIOUS
  <2>1. s \notin DOMAIN table /\ now \notin shrunk
    BY <1>4
  <2>2. DOMAIN table' = DOMAIN table
    BY <1>1, <2>1
  <2> QED
    BY <2>1, <2>2 DEF IdsInv, Sealed
<1> QED
  BY <1>3, <1>5, <1>6 DEF IdsInv

LEMMA TickIds ==
  ASSUME IdsInv, Tick
  PROVE  IdsInv'
<1>1. now' = now + 1 /\ UNCHANGED <<at, sub, table, shrunk>>
  BY DEF Tick
<1>2. IdTypes'
  BY <1>1 DEF IdsInv, IdTypes
<1>3. \A t \in Threads : sub[t] # None => sub[t][1] \in 0 .. now
  BY DEF IdsInv, IdTypes
<1>4. Sealed'
  <2>1. \A t \in Threads : sub[t] # None => sub[t][1] # now'
    BY <1>1, <1>3 DEF IdsInv, IdTypes
  <2>2. \A s \in DOMAIN table : s[1] # now'
    <3> SUFFICES ASSUME NEW s \in DOMAIN table PROVE s[1] # now'
      OBVIOUS
    <3>1. s \in (0 .. now) \X Nat
      BY DEF IdsInv, IdTypes
    <3> QED
      BY <1>1, <3>1 DEF IdsInv, IdTypes
  <2> QED
    BY <1>1, <2>1, <2>2 DEF Sealed
<1> QED
  BY <1>1, <1>2, <1>4 DEF IdsInv, IdsDiffer

LEMMA SubscribeIds ==
  ASSUME IdsInv, NEW t \in Threads, Subscribe(t)
  PROVE  IdsInv'
<1> DEFINE n == Cardinality(DOMAIN table)
           id == <<now, n>>
<1>1. /\ at[t] = "unused" /\ at' = [at EXCEPT ![t] = "calling"] /\ sub' = [sub EXCEPT ![t] = id]
      /\ now' = now /\ shrunk' = shrunk
      /\ t \in Generators => table' = table
      /\ t \notin Generators => table' = [s \in DOMAIN table \cup {id} |-> IF s = id THEN t ELSE table[s]]
  BY DEF Subscribe, NewId
<1>2. n \in Nat /\ id \in (0 .. now) \X Nat
  BY FS_CardinalityType DEF IdsInv, IdTypes
<1>3. /\ sub'[t] = id /\ at'[t] = "calling"
      /\ \A u \in Threads \ {t} : sub'[u] = sub[u] /\ at'[u] = at[u]
  BY <1>1 DEF IdsInv, IdTypes
<1>4. sub[t] = None
  BY <1>1 DEF IdsInv, IdTypes
<1>5. \A s \in DOMAIN table : table[s] # t
  BY <1>1 DEF IdsInv, IdTypes
<1>6. IsFiniteSet(DOMAIN table') /\ DOMAIN table \subseteq DOMAIN table'
  BY <1>1, FS_AddElement DEF IdsInv, IdTypes
<1>7. IdTypes'
  <2>1. /\ at' \in [Threads -> Points] /\ sub' = [u \in Threads |-> sub'[u]]
        /\ \A u \in Threads : IF at'[u] = "unused" THEN sub'[u] = None ELSE sub'[u] \in (0 .. now) \X Nat
    BY <1>1, <1>2, <1>3 DEF IdsInv, IdTypes, Points
  <2>2. ASSUME NEW s \in DOMAIN table'
        PROVE  table'[s] \in Threads \ Generators /\ at'[table'[s]] # "unused" /\ sub'[table'[s]] = s
    <3>1. CASE t \notin Generators /\ s = id
      BY <1>1, <1>3, <3>1
    <3>2. CASE ~(t \notin Generators /\ s = id)
      <4>1. s \in DOMAIN table /\ table'[s] = table[s] /\ table[s] # t
        BY <1>1, <1>5, <3>2
      <4> QED
        BY <1>3, <4>1 DEF IdsInv, IdTypes
    <3> QED
      BY <3>1, <3>2
  <2> QED
    BY <1>1, <1>6, <2>1, <2>2 DEF IdsInv, IdTypes
<1>8. now \notin shrunk => /\ id \notin DOMAIN table
                           /\ \A u \in Threads \ Generators : u # t /\ sub[u] # None => sub[u] # id
  <2> SUFFICES ASSUME Sealed
               PROVE  /\ id \notin DOMAIN table
                      /\ \A u \in Threads \ Generators : u # t /\ sub[u] # None => sub[u] # id
    BY DEF IdsInv
  <2>1. id \notin DOMAIN table
    BY <1>2 DEF Sealed
  <2> QED
    BY <2>1 DEF Sealed
<1>9. IdsDiffer'
  <2>1. \A u \in Threads \ Generators : u # t /\ t \notin Generators /\ sub[u] # None /\ sub[u] = id
           => id[1] \in shrunk
    BY <1>8
  <2> QED
    BY <1>1, <1>3, <1>4, <2>1 DEF IdsInv, IdsDiffer
<1>10. now' \notin shrunk' => Sealed'
  <2> SUFFICES ASSUME now \notin shrunk PROVE Sealed'
    BY <1>1
  <2>1. Sealed /\ id \notin DOMAIN table
    BY <1>8 DEF IdsInv
  <2>2. CASE t \in Generators
    BY <1>1, <1>3, <2>1, <2>2 DEF Sealed
  <2>3. CASE t \notin Generators
    <3>1. DOMAIN table' = DOMAIN table \cup {id}
      BY <1>1, <2>3
    <3>2. Cardinality(DOMAIN table \cup {id}) = n + 1
      BY <2>1, FS_AddElement DEF IdsInv, IdTypes
    <3>3. \A s \in DOMAIN table' : s[1] = now' => s[2] < Cardinality(DOMAIN table')
      <4> SUFFICES ASSUME NEW s \in DOMAIN table', s[1] = now
                   PROVE  s[2] < n + 1
        BY <1>1, <3>1, <3>2
      <4>1. CASE s = id
        BY <1>2, <4>1
      <4>2. CASE s \in DOMAIN table
        <5>1. s[2] < n
          BY <2>1, <4>2 DEF Sealed
        <5>2. s[2] \in Nat
          BY <4>2 DEF IdsInv, IdTypes
        <5> QED
          BY <1>2, <5>1, <5>2
      <4> QED
        BY <3>1, <4>1, <4>2
    <3>4. \A u \in Threads \ Generators : sub'[u] # None /\ sub'[u][1] = now' => sub'[u] \in DOMAIN table'
      BY <1>1, <1>3, <2>1, <3>1 DEF Sealed
    <3> QED
      BY <3>3, <3>4 DEF Sealed
  <2> QED
    BY <2>2, <2>3
<1> QED
  BY <1>7, <1>9, <1>10 DEF IdsInv

-----------------------------------------------------------------------------
(***************************************************************************)
(* The types of the client.                                                *)
(***************************************************************************)
Locals == [since : 0 .. MaxTime, limit : {Limit, Default}, retries : 0 .. MaxRetries - 1]

ClientTypes ==
  /\ now \in 1 .. MaxTime
  /\ at \in [Threads -> Points] /\ conn \in [Threads -> Conns \cup {None}]
  /\ \A t \in Threads : at[t] = "reading" <=> conn[t] # None
  /\ loop \in [Threads -> Locals]
  /\ eose \in [Threads -> 0 .. MaxTime] /\ read \in [Threads -> SUBSET Events]
  /\ probe \in Conns \cup {None}

LEMMA InitClientTypes == Init /\ probe = None => ClientTypes
<1> SUFFICES ASSUME Init, probe = None PROVE ClientTypes
  OBVIOUS
<1>1. Fresh \in Locals
  BY ClientAssumption DEF Fresh, Locals
<1> QED
  BY <1>1, ClientAssumption DEF Init, ClientTypes, Points

\* The round of a thread that was or was not reading is over: it leaves or goes on.
LEMMA RoundEnds ==
  ASSUME ClientTypes, NEW t \in Threads, NEW l \in Locals, Leave(t) \/ Again(t, l),
         conn' = [conn EXCEPT ![t] = None], eose' = [eose EXCEPT ![t] = 0],
         UNCHANGED <<now, probe>>
  PROVE  ClientTypes'
<1>1. Fresh \in Locals
  BY ClientAssumption DEF Fresh, Locals
<1>2. PICK p \in {"calling", "done"} : at' = [at EXCEPT ![t] = p]
  BY DEF Leave, Again
<1>3. loop' \in [Threads -> Locals] /\ read' \in [Threads -> SUBSET Events]
  BY <1>1 DEF Leave, Again, ClientTypes
<1>4. at' \in [Threads -> Points] /\ conn' \in [Threads -> Conns \cup {None}]
  BY <1>2 DEF ClientTypes, Points
<1>5. \A u \in Threads : at'[u] = "reading" <=> conn'[u] # None
  BY <1>2 DEF ClientTypes
<1>6. eose' \in [Threads -> 0 .. MaxTime]
  BY ClientAssumption DEF ClientTypes
<1> QED
  BY <1>3, <1>4, <1>5, <1>6 DEF ClientTypes

LEMMA CountedLocals ==
  ASSUME ClientTypes, NEW t \in Threads, Counted(t)
  PROVE  \E l \in Locals : Leave(t) \/ Again(t, l)
<1>1. CASE t \in Followers /\ loop[t].retries + 1 < MaxRetries
  <2>1. [loop[t] EXCEPT !.retries = @ + 1] \in Locals
    BY <1>1, ClientAssumption DEF ClientTypes, Locals
  <2> QED
    BY <1>1, <2>1 DEF Counted
<1>2. CASE ~(t \in Followers /\ loop[t].retries + 1 < MaxRetries)
  BY <1>2 DEF Counted, ClientTypes
<1> QED
  BY <1>1, <1>2

LEMMA MovedLocals ==
  ASSUME ClientTypes, NEW t \in Threads
  PROVE  Moved(t) \in Locals
  BY DEF ClientTypes, Locals, Moved

\* What a thread does when its stream ends, in one of three ways.
EndsRound(t) ==
  /\ at[t] = "reading" /\ Drop(t) /\ UNCHANGED <<now, sub, calls, probe>>
  /\ \/ Leave(t)
     \/ Counted(t)
     \/ Again(t, Moved(t))

LEMMA ThreadTypes ==
  ASSUME ClientTypes, NEW t \in Threads,
         \/ Subscribe(t) /\ UNCHANGED probe
         \/ CallFails(t) /\ eose[t] = 0 /\ UNCHANGED probe
         \/ (ReadEvent(t) \/ ReadEose(t)) /\ UNCHANGED probe
         \/ EndsRound(t)
         \/ \E c \in Conns : Call(t, c) /\ UNCHANGED probe
  PROVE  ClientTypes'
<1>1. CASE Subscribe(t) /\ UNCHANGED probe
  BY <1>1 DEF Subscribe, ClientTypes, Points
<1>2. CASE CallFails(t) /\ eose[t] = 0 /\ UNCHANGED probe
  <2>1. PICK l \in Locals : Leave(t) \/ Again(t, l)
    BY <1>2, CountedLocals DEF CallFails
  <2>2. conn' = [conn EXCEPT ![t] = None] /\ eose' = [eose EXCEPT ![t] = 0]
    BY <1>2 DEF CallFails, ClientTypes
  <2> QED
    BY <1>2, <2>1, <2>2, RoundEnds DEF CallFails
<1>3. CASE (ReadEvent(t) \/ ReadEose(t)) /\ UNCHANGED probe
  BY <1>3, ClientAssumption DEF ReadEvent, ReadEose, ClientTypes
<1>4. CASE EndsRound(t)
  <2>1. PICK l \in Locals : Leave(t) \/ Again(t, l)
    BY <1>4, CountedLocals, MovedLocals DEF EndsRound, ClientTypes
  <2> QED
    BY <1>4, <2>1, RoundEnds DEF EndsRound, Drop
<1>5. ASSUME NEW c \in Conns, Call(t, c), UNCHANGED probe
      PROVE  ClientTypes'
  <2>1. c # None
    BY HandlerAssumption
  <2>2. [loop[t] EXCEPT !.retries = 0] \in Locals
    BY ClientAssumption DEF ClientTypes, Locals
  <2>3. loop' = [loop EXCEPT ![t] = [loop[t] EXCEPT !.retries = 0]]
    BY <1>5 DEF Call
  <2> QED
    BY <1>5, <2>1, <2>2, <2>3 DEF Call, ClientTypes, Points
<1> QED
  BY <1>1, <1>2, <1>3, <1>4, <1>5

-----------------------------------------------------------------------------
(***************************************************************************)
(* What a follower may leave behind.  An answer owes its filter the rows   *)
(* that no limit crowds out.  As long as an EOSE is on its way, each of    *)
(* them has been read or comes before it on the line; when it has been     *)
(* read, so have they.  That takes connections nobody shares: not with     *)
(* another thread, nor with the monitor, which empties the line it leaves. *)
(***************************************************************************)
Owed(rows, l) ==
  LET es == Matching(rows, l.since)
  IN  {e \in es : ~(Cardinality({f \in es \ {e} : created[f] >= created[e]}) >= l.limit)}

Faithful(t) ==
  LET c == conn[t] IN
    at[t] = "reading" =>
      /\ At(c, "asked") => /\ stream[c].since = loop[t].since /\ stream[c].limit = loop[t].limit
                           /\ eose[t] = 0
      /\ eose[t] # 0 => Owed(asked[c], loop[t]) \subseteq read[t]
      /\ \A i \in 1 .. Len(line[c]) : line[c][i] = Eose =>
           \A e \in Owed(asked[c], loop[t]) : e \in read[t] \/ \E j \in 1 .. i - 1 : line[c][j] = e

Quiet ==                \* no EOSE before the answer
  \A c \in Conns : stream[c].phase \in {"unused", "asked"} =>
    \A i \in 1 .. Len(line[c]) : line[c][i] # Eose

Own ==
  /\ \A t \in Threads : conn[t] # None => ~At(conn[t], "unused") /\ conn[t] # probe
  /\ \A t, u \in Threads : t # u /\ conn[t] # None => conn[t] # conn[u]
  /\ probe # None => ~At(probe, "unused")
  /\ \A t \in Threads : at[t] # "reading" => eose[t] = 0

TransferInv == Own /\ Quiet /\ \A t \in Threads : Faithful(t)

LEMMA InitTransfer == Init /\ probe = None => TransferInv
  BY DEF Init, ServerInit, TransferInv, Own, Quiet, Faithful, Unused

\* A thread whose connection, locals and place a step leaves alone.
LEMMA Elsewhere ==
  ASSUME NEW t \in Threads, Faithful(t), at'[t] = at[t], conn'[t] = conn[t],
         eose'[t] = eose[t], read'[t] = read[t], loop'[t] = loop[t],
         at[t] = "reading" => /\ line'[conn[t]] = line[conn[t]] /\ asked'[conn[t]] = asked[conn[t]]
                              /\ At(conn[t], "asked")' => stream'[conn[t]] = stream[conn[t]]
  PROVE  Faithful(t)'
  BY DEF Faithful, At

\* A step on the streams alone, which answers nothing: lines may lose frames
\* and end, but no EOSE comes on them and none moves.
LEMMA StreamsMove ==
  ASSUME ServerTypes, ClientTypes, TransferInv,
         UNCHANGED <<at, conn, eose, read, loop, probe, asked>>,
         \A c \in Conns :
           /\ At(c, "unused")' <=> At(c, "unused")
           /\ At(c, "asked")' => stream'[c] = stream[c]
           /\ \A i \in 1 .. Len(line'[c]) : line'[c][i] = Eose =>
                i \in 1 .. Len(line[c]) /\ \A j \in 1 .. i : line'[c][j] = line[c][j]
  PROVE  TransferInv'
<1>1. Own'
  BY DEF ClientTypes, TransferInv, Own
<1>2. Quiet'
  <2> SUFFICES ASSUME NEW c \in Conns, stream'[c].phase \in {"unused", "asked"},
                      NEW i \in 1 .. Len(line'[c]), line'[c][i] = Eose
               PROVE  FALSE
    BY DEF Quiet
  <2>1. stream[c].phase \in {"unused", "asked"}
    BY DEF At
  <2>2. i \in 1 .. Len(line[c]) /\ line'[c][i] = line[c][i]
    BY SMT
  <2> QED
    BY <2>1, <2>2 DEF TransferInv, Quiet
<1>3. ASSUME NEW t \in Threads, at[t] = "reading"
      PROVE  Faithful(t)'
  <2>1. conn[t] \in Conns
    BY <1>3 DEF ClientTypes
  <2>2. Faithful(t)
    BY DEF TransferInv
  <2>3. ASSUME NEW i \in 1 .. Len(line'[conn[t]]), line'[conn[t]][i] = Eose
        PROVE  \A e \in Owed(asked[conn[t]], loop[t]) :
                 e \in read[t] \/ \E j \in 1 .. i - 1 : line'[conn[t]][j] = e
    <3>1. i \in 1 .. Len(line[conn[t]]) /\ \A j \in 1 .. i : line'[conn[t]][j] = line[conn[t]][j]
      BY <2>1, <2>3
    <3>2. line[conn[t]][i] = Eose
      BY <2>3, <3>1
    <3>3. \A e \in Owed(asked[conn[t]], loop[t]) :
            e \in read[t] \/ \E j \in 1 .. i - 1 : line[conn[t]][j] = e
      BY <1>3, <2>2, <3>1, <3>2 DEF Faithful
    <3> QED
      BY <3>1, <3>3
  <2> QED
    BY <1>3, <2>1, <2>2, <2>3 DEF Faithful, At
<1>4. ASSUME NEW t \in Threads, at[t] # "reading"
      PROVE  Faithful(t)'
  BY <1>4 DEF Faithful
<1> QED
  BY <1>1, <1>2, <1>3, <1>4 DEF TransferInv

\* The answer of c owes nothing that is not on its line.
LEMMA AnswerTransfers ==
  ASSUME ServerInv, ClientTypes, TransferInv, NEW c \in Conns, Answer(c),
         UNCHANGED <<at, conn, eose, read, loop, probe>>
  PROVE  TransferInv'
<1>1. PICK q \in Answers(Matching(db, stream[c].since), stream[c].limit) :
        line' = [line EXCEPT ![c] = q \o <<Eose>>]
  BY DEF Answer
<1> DEFINE es == Matching(db, stream[c].since)
<1>2. es \in SUBSET Events /\ IsFiniteSet(es) /\ stream[c].limit \in Nat \ {0}
  BY FS_Subset DEF Matching, ServerInv, ServerTypes
<1>3. /\ q \in Seq(es)
      /\ \A e \in es : \/ \E i \in 1 .. Len(q) : q[i] = e
                       \/ Cardinality({f \in es \ {e} : created[f] >= created[e]}) >= stream[c].limit
  BY <1>1, <1>2, AnswerIsNewest
<1>4. /\ line'[c] = q \o <<Eose>> /\ Len(line'[c]) = Len(q) + 1 /\ Len(q) \in Nat
      /\ \A i \in 1 .. Len(q) : line'[c][i] = q[i] /\ q[i] \in Events
      /\ \A d \in Conns \ {c} : line'[d] = line[d]
  <2>1. line'[c] = q \o <<Eose>> /\ \A d \in Conns \ {c} : line'[d] = line[d]
    BY <1>1 DEF ServerInv, ServerTypes
  <2>2. Len(q) \in Nat /\ \A i \in 1 .. Len(q) : q[i] \in es
    BY <1>3, LenProperties, ElementOfSeq
  <2>3. Len(<<Eose>>) = 1 /\ <<Eose>> \in Seq({Eose})
    OBVIOUS
  <2>4. q \in Seq(es \cup {Eose}) /\ <<Eose>> \in Seq(es \cup {Eose})
    BY <1>3, SeqMonotonic
  <2>5. Len(q \o <<Eose>>) = Len(q) + 1 /\ \A i \in 1 .. Len(q) : (q \o <<Eose>>)[i] = q[i]
    BY <2>2, <2>3, <2>4, ConcatProperties
  <2> QED
    BY <1>2, <2>1, <2>2, <2>5
<1>5. /\ stream'[c].phase = "waiting" /\ asked'[c] = db /\ stream[c].phase = "asked"
      /\ \A d \in Conns \ {c} : stream'[d] = stream[d] /\ asked'[d] = asked[d]
  BY Records DEF Answer, At, ServerInv, ServerTypes
<1>6. Own'
  BY <1>5 DEF ClientTypes, TransferInv, Own, At
<1>7. Quiet'
  BY <1>4, <1>5 DEF TransferInv, Quiet
<1>8. ASSUME NEW t \in Threads
      PROVE  Faithful(t)'
  <2>1. CASE at[t] = "reading" /\ conn[t] = c
    <3>1. stream[c].since = loop[t].since /\ stream[c].limit = loop[t].limit /\ eose[t] = 0
      BY <1>5, <2>1 DEF TransferInv, Faithful, At
    <3>2. \A e \in Owed(db, loop[t]) : \E i \in 1 .. Len(q) : q[i] = e
      BY <1>3, <3>1 DEF Owed
    <3>3. \A i \in 1 .. Len(line'[c]) : line'[c][i] = Eose => i - 1 = Len(q)
      BY <1>4, HandlerAssumption
    <3> QED
      BY <1>4, <1>5, <2>1, <3>1, <3>2, <3>3 DEF Faithful, At
  <2>2. CASE ~(at[t] = "reading" /\ conn[t] = c)
    BY <1>4, <1>5, <2>2, Elsewhere DEF TransferInv, ClientTypes
  <2> QED
    BY <2>1, <2>2
<1> QED
  BY <1>6, <1>7, <1>8 DEF TransferInv

\* A request of the monitor or of a thread, on a connection that nobody had.
LEMMA AcceptTransfers ==
  ASSUME ServerInv, ClientTypes, TransferInv, NEW c \in Conns, NEW s, NEW i, NEW n, Accept(c, s, i, n),
         UNCHANGED <<eose, read>>,
         \/ probe' = c /\ UNCHANGED <<at, conn, loop>>
         \/ \E t \in Threads :
              /\ at[t] = "calling" /\ at' = [at EXCEPT ![t] = "reading"] /\ conn' = [conn EXCEPT ![t] = c]
              /\ loop' = [loop EXCEPT ![t].retries = 0] /\ UNCHANGED probe
              /\ i = loop[t].since /\ n = loop[t].limit
  PROVE  TransferInv'
<1>1. /\ stream'[c] = [Unused EXCEPT !.phase = "asked", !.sub = s, !.since = i, !.limit = n]
      /\ \A d \in Conns \ {c} : stream'[d] = stream[d]
      /\ At(c, "unused") /\ line' = line /\ asked' = asked
  BY DEF Accept, ServerInv, ServerTypes
<1>2. stream'[c].phase = "asked" /\ stream'[c].since = i /\ stream'[c].limit = n
  BY <1>1 DEF Unused
<1>3. \A u \in Threads : conn[u] # c
  BY <1>1, HandlerAssumption DEF TransferInv, Own
<1>4. probe # c /\ c # None
  BY <1>1, HandlerAssumption DEF TransferInv, Own
<1>5. Quiet'
  BY <1>1, <1>2 DEF TransferInv, Quiet, At
<1>6. \A i1 \in 1 .. Len(line[c]) : line[c][i1] # Eose
  BY <1>1 DEF TransferInv, Quiet, At
<1>7. CASE probe' = c /\ UNCHANGED <<at, conn, loop>>
  <2>1. Own'
    <3>1. \A t \in Threads : conn[t] # None => conn[t] \in Conns \ {c} /\ ~At(conn[t], "unused")
      BY <1>3 DEF TransferInv, ClientTypes, Own
    <3>2. \A t \in Threads : conn[t] # None => stream'[conn[t]].phase # "unused" /\ conn[t] # c
      BY <1>1, <3>1 DEF At
    <3>3. \A t, u \in Threads : t # u /\ conn[t] # None => conn[t] # conn[u]
      BY DEF TransferInv, Own
    <3>4. \A t \in Threads : at[t] # "reading" => eose[t] = 0
      BY DEF TransferInv, Own
    <3> QED
      BY <1>2, <1>7, <3>2, <3>3, <3>4 DEF Own, At
  <2>2. \A t \in Threads : Faithful(t)'
    BY <1>1, <1>3, <1>7, Elsewhere DEF TransferInv, ClientTypes
  <2> QED
    BY <1>5, <2>1, <2>2 DEF TransferInv
<1>8. ASSUME NEW t \in Threads, at[t] = "calling",
             at' = [at EXCEPT ![t] = "reading"], conn' = [conn EXCEPT ![t] = c],
             loop' = [loop EXCEPT ![t].retries = 0], UNCHANGED probe,
             i = loop[t].since, n = loop[t].limit
      PROVE  TransferInv'
  <2>1. /\ at'[t] = "reading" /\ conn'[t] = c
        /\ loop'[t].since = loop[t].since /\ loop'[t].limit = loop[t].limit
        /\ \A u \in Threads \ {t} : at'[u] = at[u] /\ conn'[u] = conn[u] /\ loop'[u] = loop[u]
    BY <1>8 DEF ClientTypes, Locals
  <2>2. Own'
    <3>1. \A u \in Threads : conn[u] # None => conn[u] \in Conns \ {c} /\ ~At(conn[u], "unused")
      BY <1>3 DEF TransferInv, ClientTypes, Own
    <3>2. \A u \in Threads : conn'[u] # None => stream'[conn'[u]].phase # "unused" /\ conn'[u] # probe
      <4>1. stream'[c].phase # "unused" /\ conn'[t] # probe
        BY <1>2, <1>4, <2>1
      <4>2. \A u \in Threads \ {t} : conn'[u] # None =>
              stream'[conn'[u]].phase # "unused" /\ conn'[u] # probe
        BY <1>1, <2>1, <3>1 DEF At, TransferInv, Own
      <4> QED
        BY <2>1, <4>1, <4>2
    <3>3. \A u, v \in Threads : u # v /\ conn'[u] # None => conn'[u] # conn'[v]
      BY <1>3, <2>1 DEF TransferInv, Own
    <3>4. probe # None => stream'[probe].phase # "unused"
      BY <1>1, <1>4 DEF TransferInv, Own, At, ClientTypes
    <3>5. \A u \in Threads : at'[u] # "reading" => eose[u] = 0
      BY <2>1 DEF TransferInv, Own
    <3> QED
      BY <1>8, <3>2, <3>3, <3>4, <3>5 DEF Own, At
  <2>3. eose[t] = 0
    BY <1>8 DEF TransferInv, Own
  <2>4. Faithful(t)'
    <3>1. \A i1 \in 1 .. Len(line'[c]) : line'[c][i1] # Eose
      BY <1>1, <1>6
    <3>2. stream'[c].since = loop'[t].since /\ stream'[c].limit = loop'[t].limit /\ eose'[t] = 0
      BY <1>2, <1>8, <2>1, <2>3
    <3> QED
      BY <2>1, <3>1, <3>2 DEF Faithful
  <2>5. \A u \in Threads \ {t} : Faithful(u)'
    BY <1>1, <1>3, <2>1, Elsewhere DEF TransferInv, ClientTypes
  <2> QED
    BY <1>5, <2>2, <2>4, <2>5 DEF TransferInv
<1> QED
  BY <1>7, <1>8

\* The connection of c is emptied by the only one who had it: a thread at the
\* end of a round, or the monitor.
LEMMA LeftTransfers ==
  ASSUME ServerInv, ClientTypes, TransferInv, NEW c \in Conns,
         UNCHANGED stream, line' = [line EXCEPT ![c] = <<>>], asked' = [asked EXCEPT ![c] = {}],
         \/ probe = c /\ probe' = None /\ UNCHANGED <<at, conn, eose, read, loop>>
         \/ \E t \in Threads :
              /\ conn[t] = c /\ conn' = [conn EXCEPT ![t] = None] /\ eose' = [eose EXCEPT ![t] = 0]
              /\ at'[t] # "reading" /\ UNCHANGED probe
              /\ \A u \in Threads \ {t} : at'[u] = at[u] /\ read'[u] = read[u] /\ loop'[u] = loop[u]
  PROVE  TransferInv'
<1>1. /\ line'[c] = <<>> /\ \A d \in Conns \ {c} : line'[d] = line[d] /\ asked'[d] = asked[d]
  BY DEF ServerInv, ServerTypes
<1>2. Quiet'
  BY <1>1 DEF TransferInv, Quiet
<1>3. CASE probe = c /\ probe' = None /\ UNCHANGED <<at, conn, eose, read, loop>>
  <2>1. \A t \in Threads : conn[t] # c
    BY <1>3, HandlerAssumption DEF TransferInv, Own
  <2>2. \A t \in Threads : Faithful(t)'
    BY <1>1, <1>3, <2>1, Elsewhere DEF TransferInv, ClientTypes
  <2>3. Own'
    BY <1>3 DEF TransferInv, Own, At
  <2> QED
    BY <1>2, <2>2, <2>3 DEF TransferInv
<1>4. ASSUME NEW t \in Threads,
             conn[t] = c, conn' = [conn EXCEPT ![t] = None], eose' = [eose EXCEPT ![t] = 0],
             at'[t] # "reading", UNCHANGED probe,
             \A u \in Threads \ {t} : at'[u] = at[u] /\ read'[u] = read[u] /\ loop'[u] = loop[u]
      PROVE  TransferInv'
  <2>1. /\ conn'[t] = None /\ eose'[t] = 0
        /\ \A u \in Threads \ {t} : conn'[u] = conn[u] /\ eose'[u] = eose[u] /\ conn[u] # c
    BY <1>4, HandlerAssumption DEF ClientTypes, TransferInv, Own
  <2>2. Faithful(t)'
    BY <1>4 DEF Faithful
  <2>3. \A u \in Threads \ {t} : Faithful(u)'
    BY <1>1, <1>4, <2>1, Elsewhere DEF TransferInv, ClientTypes
  <2>4. Own'
    BY <1>4, <2>1 DEF TransferInv, Own, At
  <2> QED
    BY <1>2, <2>2, <2>3, <2>4 DEF TransferInv
<1> QED
  BY <1>3, <1>4

\* A thread takes the next frame of its line, an event or EOSE.
LEMMA ReadTransfers ==
  ASSUME ServerInv, ClientTypes, TransferInv, NEW t \in Threads, ReadEvent(t) \/ ReadEose(t),
         UNCHANGED probe
  PROVE  TransferInv'
<1> DEFINE c == conn[t]
           l == line[c]
<1>1. /\ at[t] = "reading" /\ c \in Conns /\ l \in Seq(Frames) /\ l # <<>>
      /\ line' = [line EXCEPT ![c] = Tail(l)]
      /\ UNCHANGED <<stream, asked, at, conn, loop>>
  BY DEF ReadEvent, ReadEose, Reading, Consume, ClientTypes, ServerInv, ServerTypes
<1>2. /\ Len(l) \in Nat \ {0} /\ Len(Tail(l)) = Len(l) - 1
      /\ \A i \in 1 .. Len(l) - 1 : Tail(l)[i] = l[i + 1]
      /\ Head(l) = l[1]
  BY <1>1, HeadTailProperties, LenProperties
<1>3. /\ line'[c] = Tail(l)
      /\ \A d \in Conns \ {c} : line'[d] = line[d]
  BY <1>1 DEF ServerInv, ServerTypes
<1>4. \A u \in Threads \ {t} : eose'[u] = eose[u] /\ read'[u] = read[u] /\ conn[u] # c
  BY <1>1, HandlerAssumption DEF ReadEvent, ReadEose, ClientTypes, TransferInv, Own
<1>5. \A u \in Threads \ {t} : Faithful(u)'
  BY <1>1, <1>3, <1>4, Elsewhere DEF TransferInv, ClientTypes
<1>6. Quiet'
  BY <1>1, <1>2, <1>3 DEF TransferInv, Quiet
<1>7. Own'
  BY <1>1, <1>4 DEF TransferInv, Own, At
<1> DEFINE owed == Owed(asked[c], loop[t])
<1>8. /\ At(c, "asked") => stream[c].since = loop[t].since /\ stream[c].limit = loop[t].limit
                           /\ eose[t] = 0
      /\ eose[t] # 0 => owed \subseteq read[t]
      /\ \A i \in 1 .. Len(l) : l[i] = Eose =>
           \A e \in owed : e \in read[t] \/ \E j \in 1 .. i - 1 : l[j] = e
  BY <1>1 DEF TransferInv, Faithful
<1>9. owed \subseteq Events
  BY <1>1 DEF Owed, Matching, ServerInv, ServerTypes
<1> HIDE DEF owed
<1>10. ASSUME NEW i \in 1 .. Len(l) - 1, Tail(l)[i] = Eose, NEW e \in owed, l[1] = e => e \in read'[t],
              read[t] \subseteq read'[t]
       PROVE  e \in read'[t] \/ \E j \in 1 .. i - 1 : Tail(l)[j] = e
  <2>1. i + 1 \in 1 .. Len(l) /\ l[i + 1] = Eose
    BY <1>2, <1>10
  <2>2. CASE e \in read[t]
    BY <1>10, <2>2
  <2>3. ASSUME NEW j \in 1 .. i, l[j] = e
        PROVE  e \in read'[t] \/ \E k \in 1 .. i - 1 : Tail(l)[k] = e
    <3>1. CASE j = 1
      BY <1>10, <2>3, <3>1
    <3>2. CASE j # 1
      <4>1. j - 1 \in 1 .. i - 1 /\ j - 1 \in 1 .. Len(l) - 1
        BY <1>2, <3>2
      <4>2. Tail(l)[j - 1] = l[j]
        BY <1>2, <4>1
      <4> QED
        BY <2>3, <4>1, <4>2
    <3> QED
      BY <3>1, <3>2
  <2> QED
    BY <1>8, <2>1, <2>2, <2>3
<1>11. CASE ReadEvent(t)
  <2>1. read'[t] = read[t] \cup {l[1]} /\ eose' = eose
    BY <1>2, <1>11 DEF ReadEvent, Frame, ClientTypes
  <2>2. \A i \in 1 .. Len(Tail(l)) : Tail(l)[i] = Eose =>
          \A e \in owed : e \in read'[t] \/ \E j \in 1 .. i - 1 : Tail(l)[j] = e
    BY <1>2, <1>10, <2>1
  <2>3. Faithful(t)'
    <3>1. /\ conn'[t] = c /\ line'[c] = Tail(l) /\ stream' = stream /\ loop' = loop
          /\ Owed(asked'[c], loop'[t]) = owed /\ eose'[t] = eose[t]
      BY <1>1, <1>3, <2>1 DEF owed
    <3>2. eose[t] # 0 => owed \subseteq read'[t]
      BY <1>8, <2>1
    <3> QED
      BY <1>8, <2>2, <3>1, <3>2 DEF Faithful, At
  <2> QED
    BY <1>5, <1>6, <1>7, <2>3 DEF TransferInv
<1>12. CASE ReadEose(t)
  <2>1. l[1] = Eose /\ read' = read
    BY <1>2, <1>12 DEF ReadEose, Frame
  <2>2. owed \subseteq read[t]
    BY <1>2, <1>8, <2>1
  <2>3. ~At(c, "asked")
    BY <1>1, <1>2, <2>1 DEF TransferInv, Quiet, At
  <2>4. Faithful(t)'
    BY <1>1, <1>3, <2>1, <2>2, <2>3 DEF Faithful, At, owed
  <2> QED
    BY <1>5, <1>6, <1>7, <2>4 DEF TransferInv
<1> QED
  BY <1>11, <1>12

\* Threads that do not read, before or after, do not matter.
LEMMA ThreadsMove ==
  ASSUME TransferInv, UNCHANGED <<stream, line, asked, conn, eose, probe>>,
         \A t \in Threads :
           \/ at'[t] = at[t] /\ read'[t] = read[t] /\ loop'[t] = loop[t]
           \/ at[t] # "reading" /\ at'[t] # "reading"
  PROVE  TransferInv'
<1>1. Own' /\ Quiet'
  BY DEF TransferInv, Own, Quiet, At
<1>2. \A t \in Threads : Faithful(t)'
  BY Elsewhere DEF TransferInv, Faithful
<1> QED
  BY <1>1, <1>2 DEF TransferInv

-----------------------------------------------------------------------------
(***************************************************************************)
(* Every step of the streams keeps all of this.                            *)
(***************************************************************************)
StreamInv == ServerInv /\ IdsInv /\ ClientTypes /\ TransferInv

\* The same endpoint, by the same names.
LEMMA SameServer == ServerInv /\ UNCHANGED server => ServerInv'
  BY DEF server, ServerInv, ServerTypes, NoQueueLeft, At

LEMMA SameClient == IdsInv /\ ClientTypes /\ UNCHANGED <<client, probe>> => IdsInv' /\ ClientTypes'
<1> SUFFICES ASSUME IdsInv, ClientTypes, UNCHANGED <<client, probe>> PROVE IdsInv' /\ ClientTypes'
  OBVIOUS
<1>1. ClientTypes'
  BY DEF client, ClientTypes
<1> QED
  BY <1>1, SameIds DEF client, ClientTypes

\* A thread that has called or read leaves, or goes on.
LEMMA RoundIds ==
  ASSUME IdsInv, ClientTypes, NEW t \in Threads, at[t] # "unused", NEW l, Leave(t) \/ Again(t, l),
         UNCHANGED <<now, sub>>
  PROVE  IdsInv'
<1>1. PICK p \in {"calling", "done"} : at' = [at EXCEPT ![t] = p]
  BY DEF Leave, Again
<1>2. /\ at' \in [Threads -> Points]
      /\ \A u \in Threads : at'[u] = "unused" <=> at[u] = "unused"
  BY <1>1 DEF ClientTypes, Points
<1> QED
  BY <1>2, SameIds, TakeOutIds DEF Leave, Again

LEMMA SubscribeStep ==
  ASSUME StreamInv, NEW t \in Threads, Subscribe(t), UNCHANGED probe
  PROVE  StreamInv'
<1>1. TransferInv'
  <2>1. at[t] = "unused" /\ at' = [at EXCEPT ![t] = "calling"]
    BY DEF Subscribe
  <2> QED
    BY <2>1, ThreadsMove DEF Subscribe, StreamInv, ClientTypes, server
<1> QED
  BY <1>1, SameServer, SubscribeIds, ThreadTypes DEF StreamInv, Subscribe

LEMMA CallStep ==
  ASSUME StreamInv, NEW t \in Threads, NEW c \in Conns, Call(t, c), UNCHANGED probe
  PROVE  StreamInv'
<1>1. /\ at[t] = "calling" /\ at' = [at EXCEPT ![t] = "reading"]
      /\ conn' = [conn EXCEPT ![t] = c] /\ loop' = [loop EXCEPT ![t].retries = 0]
      /\ Accept(c, sub[t], loop[t].since, loop[t].limit)
      /\ UNCHANGED <<now, sub, eose, read, table, shrunk>>
  BY DEF Call
<1>2. loop[t].limit \in Nat \ {0}
  BY HandlerAssumption DEF StreamInv, ClientTypes, Locals
<1>3. ServerInv'
  BY <1>1, <1>2, AcceptKeeps DEF StreamInv
<1>4. IdsInv'
  <2>1. at' \in [Threads -> Points] /\ \A u \in Threads : at'[u] = "unused" <=> at[u] = "unused"
    BY <1>1 DEF StreamInv, ClientTypes, Points
  <2> QED
    BY <1>1, <2>1, SameIds DEF StreamInv
<1>5. ClientTypes'
  BY ThreadTypes DEF StreamInv
<1>6. TransferInv'
  BY <1>1, AcceptTransfers DEF StreamInv
<1> QED
  BY <1>3, <1>4, <1>5, <1>6 DEF StreamInv

LEMMA CallFailsStep ==
  ASSUME StreamInv, NEW t \in Threads, CallFails(t), UNCHANGED probe
  PROVE  StreamInv'
<1>1. at[t] = "calling" /\ Counted(t) /\ UNCHANGED <<server, now, sub, conn, eose, calls>>
  BY DEF CallFails
<1>2. PICK l \in Locals : Leave(t) \/ Again(t, l)
  BY <1>1, CountedLocals DEF StreamInv
<1>3. eose[t] = 0
  BY <1>1 DEF StreamInv, TransferInv, Own
<1>4. ClientTypes'
  BY <1>3, ThreadTypes DEF StreamInv
<1>5. IdsInv'
  BY <1>1, <1>2, RoundIds DEF StreamInv
<1>6. TransferInv'
  <2>1. /\ at'[t] # "reading"
        /\ \A u \in Threads \ {t} : at'[u] = at[u] /\ read'[u] = read[u] /\ loop'[u] = loop[u]
    BY <1>2 DEF Leave, Again, StreamInv, ClientTypes
  <2> QED
    BY <1>1, <2>1, ThreadsMove DEF StreamInv, server
<1> QED
  BY <1>1, <1>4, <1>5, <1>6, SameServer DEF StreamInv

LEMMA ReadStep ==
  ASSUME StreamInv, NEW t \in Threads, ReadEvent(t) \/ ReadEose(t), UNCHANGED probe
  PROVE  StreamInv'
<1>1. /\ line' = [line EXCEPT ![conn[t]] = Tail(@)] /\ line[conn[t]] # <<>> /\ at[t] = "reading"
      /\ UNCHANGED <<db, serving, stream, queues, held, asked, now, at, sub, table, shrunk>>
  BY DEF ReadEvent, ReadEose, Reading, Consume
<1>2. conn[t] \in Conns
  BY <1>1 DEF StreamInv, ClientTypes
<1>3. Tail(line[conn[t]]) \in Seq(Frames)
  BY <1>1, <1>2, HeadTailProperties DEF StreamInv, ServerInv, ServerTypes
<1>4. ServerInv'
  <2>1. line' \in [Conns -> Seq(Frames)]
    BY <1>1, <1>3 DEF StreamInv, ServerInv, ServerTypes
  <2> QED
    BY <1>1, <2>1, TransportKeeps DEF StreamInv, ServerInv, ServerTypes
<1>5. IdsInv'
  BY <1>1, SameIds DEF StreamInv, ClientTypes
<1> QED
  BY <1>4, <1>5, ThreadTypes, ReadTransfers DEF StreamInv

LEMMA RoundStep ==
  ASSUME StreamInv, NEW t \in Threads, EndsRound(t)
  PROVE  StreamInv'
<1>1. /\ at[t] = "reading" /\ Drop(t) /\ UNCHANGED <<now, sub, probe>>
  BY DEF EndsRound
<1>2. PICK l \in Locals : Leave(t) \/ Again(t, l)
  BY CountedLocals, MovedLocals DEF EndsRound, StreamInv, ClientTypes
<1>3. conn[t] \in Conns
  BY <1>1 DEF StreamInv, ClientTypes
<1>4. ServerInv'
  <2>1. line' \in [Conns -> Seq(Frames)] /\ asked' \in [Conns -> SUBSET db]
    BY <1>1, EmptySeq DEF Drop, StreamInv, ServerInv, ServerTypes
  <2> QED
    BY <1>1, <2>1, TransportKeeps DEF Drop, StreamInv
<1>5. IdsInv'
  BY <1>1, <1>2, RoundIds DEF StreamInv
<1>6. ClientTypes'
  BY ThreadTypes DEF StreamInv
<1>7. TransferInv'
  <2>1. /\ at'[t] # "reading"
        /\ \A u \in Threads \ {t} : at'[u] = at[u] /\ read'[u] = read[u] /\ loop'[u] = loop[u]
    BY <1>2 DEF Leave, Again, StreamInv, ClientTypes
  <2>2. /\ UNCHANGED stream /\ line' = [line EXCEPT ![conn[t]] = <<>>]
        /\ asked' = [asked EXCEPT ![conn[t]] = {}]
        /\ conn' = [conn EXCEPT ![t] = None] /\ eose' = [eose EXCEPT ![t] = 0]
    BY <1>1 DEF Drop
  <2> QED
    BY <1>1, <1>3, <2>1, <2>2, LeftTransfers DEF StreamInv
<1> QED
  BY <1>4, <1>5, <1>6, <1>7 DEF StreamInv

\* What the client does not see: the endpoint, the network and the clock.
LEMMA ClientIdle ==
  ASSUME StreamInv, ServerInv', UNCHANGED <<client, probe, asked>>,
         \A c \in Conns :
           /\ At(c, "unused")' <=> At(c, "unused")
           /\ At(c, "asked")' => stream'[c] = stream[c]
           /\ \A i \in 1 .. Len(line'[c]) : line'[c][i] = Eose =>
                i \in 1 .. Len(line[c]) /\ \A j \in 1 .. i : line'[c][j] = line[c][j]
  PROVE  StreamInv'
<1>1. TransferInv'
  BY StreamsMove DEF StreamInv, ServerInv, client
<1> QED
  BY <1>1, SameClient DEF StreamInv

LEMMA ServeStep ==
  ASSUME StreamInv, NEW c \in Conns, Serve(c), UNCHANGED <<client, probe>>
  PROVE  StreamInv'
<1>1. ServerInv'
  BY ServeKeeps DEF StreamInv
<1>2. CASE Answer(c)
  <2>1. TransferInv'
    BY <1>2, AnswerTransfers DEF StreamInv, client
  <2> QED
    BY <1>1, <2>1, SameClient DEF StreamInv
<1>3. ASSUME AnswerVanishes(c) \/ AnswerFails(c) \/ QueryFails(c)
      PROVE  StreamInv'
  <2>1. /\ At(c, "asked") /\ asked' = asked
        /\ stream' = [stream EXCEPT ![c] = Waiting(c)] \/ stream' = [stream EXCEPT ![c] = Ended]
    BY <1>3 DEF AnswerVanishes, AnswerFails, QueryFails, End
  <2>2. /\ stream'[c].phase \in {"waiting", "ended"} /\ stream[c].phase = "asked"
        /\ \A d \in Conns \ {c} : stream'[d] = stream[d]
    BY <2>1, Records DEF At, StreamInv, ServerInv, ServerTypes
  <2>3. line' = line \/ line' = [line EXCEPT ![c] = <<Eof>>]
    BY <1>3 DEF AnswerVanishes, AnswerFails, QueryFails
  <2>4. \A i \in 1 .. Len(<<Eof>>) : <<Eof>>[i] # Eose
    BY HandlerAssumption
  <2>5. ASSUME NEW d \in Conns, NEW i \in 1 .. Len(line'[d]), line'[d][i] = Eose
        PROVE  i \in 1 .. Len(line[d]) /\ \A j \in 1 .. i : line'[d][j] = line[d][j]
    <3>1. line'[d] = line[d] \/ line'[d] = <<Eof>>
      BY <2>3 DEF StreamInv, ServerInv, ServerTypes
    <3>2. line'[d] = line[d]
      BY <2>4, <2>5, <3>1
    <3> QED
      BY <3>2
  <2>6. ASSUME NEW d \in Conns
        PROVE  (At(d, "unused")' <=> At(d, "unused")) /\ (At(d, "asked")' => stream'[d] = stream[d])
    BY <2>2 DEF At
  <2> QED
    BY <1>1, <2>1, <2>5, <2>6, ClientIdle
<1> QED
  BY <1>2, <1>3 DEF Serve

LEMMA CutStep ==
  ASSUME StreamInv, NEW c \in Conns, Cut(c), UNCHANGED probe
  PROVE  StreamInv'
<1>1. UNCHANGED <<client, asked, stream>>
  BY DEF Cut
<1>2. PICK n \in 0 .. Len(line[c]) : line' = [line EXCEPT ![c] = Append(SubSeq(line[c], 1, n), Eof)]
  BY DEF Cut
<1>3. line[c] \in Seq(Frames) /\ Len(line[c]) \in Nat
  BY LenProperties DEF StreamInv, ServerInv, ServerTypes
<1>4. /\ SubSeq(line[c], 1, n) \in Seq(Frames) /\ Len(SubSeq(line[c], 1, n)) = n
      /\ \A i \in 1 .. n : SubSeq(line[c], 1, n)[i] = line[c][i]
  BY <1>3, SubSeqProperties
<1>5. /\ Len(Append(SubSeq(line[c], 1, n), Eof)) = n + 1
      /\ Append(SubSeq(line[c], 1, n), Eof)[n + 1] = Eof
      /\ \A i \in 1 .. n : Append(SubSeq(line[c], 1, n), Eof)[i] = line[c][i]
  BY <1>4, AppendProperties DEF Frames
<1>6. /\ Len(line'[c]) = n + 1 /\ line'[c][n + 1] = Eof
      /\ \A i \in 1 .. n : line'[c][i] = line[c][i]
      /\ \A d \in Conns \ {c} : line'[d] = line[d]
  BY <1>2, <1>5 DEF StreamInv, ServerInv, ServerTypes
<1>7. ASSUME NEW d \in Conns, NEW i \in 1 .. Len(line'[d]), line'[d][i] = Eose
      PROVE  i \in 1 .. Len(line[d]) /\ \A j \in 1 .. i : line'[d][j] = line[d][j]
  <2>1. CASE d = c
    <3>1. i # n + 1
      BY <1>6, <1>7, <2>1, HandlerAssumption
    <3>2. i \in 1 .. n
      BY <1>6, <1>7, <2>1, <3>1
    <3> QED
      BY <1>3, <1>6, <2>1, <3>2
  <2>2. CASE d # c
    BY <1>6, <1>7, <2>2
  <2> QED
    BY <2>1, <2>2
<1> QED
  BY <1>1, <1>7, CutKeeps, ClientIdle DEF StreamInv, At

LEMMA RelayStep ==
  ASSUME StreamInv, UNCHANGED <<client, probe>>,
         \/ \E e \in Events : Store(e)
         \/ ServerStops \/ ServerStarts
  PROVE  StreamInv'
<1>1. ServerInv' /\ UNCHANGED <<line, asked>>
  BY StoreKeeps, RestartKeeps DEF StreamInv, Store, ServerStops, ServerStarts
<1>2. ASSUME NEW c \in Conns
      PROVE  (At(c, "unused")' <=> At(c, "unused")) /\ (At(c, "asked")' => stream'[c] = stream[c])
  <2>1. CASE UNCHANGED stream
    BY <2>1 DEF At
  <2>2. CASE ServerStops
    BY <2>2, Records DEF ServerStops, At
  <2> QED
    BY <2>1, <2>2 DEF Store, ServerStarts
<1> QED
  BY <1>1, <1>2, ClientIdle

LEMMA CloseStep ==
  ASSUME StreamInv, NEW s, Close(s), UNCHANGED probe
  PROVE  StreamInv'
<1>1. /\ UNCHANGED <<server, now, at, sub, loop, conn, eose, read>> /\ TakeOut(s)
  BY DEF Close
<1>2. IdsInv' /\ ClientTypes'
  BY <1>1, TakeOutIds DEF StreamInv, ClientTypes
<1>3. TransferInv'
  BY <1>1, ThreadsMove DEF StreamInv, server
<1> QED
  BY <1>1, <1>2, <1>3, SameServer DEF StreamInv

LEMMA TickStep ==
  ASSUME StreamInv, Tick, UNCHANGED probe
  PROVE  StreamInv'
<1>1. ClientTypes'
  BY ClientAssumption DEF Tick, StreamInv, ClientTypes
<1>2. TransferInv'
  BY ThreadsMove DEF Tick, StreamInv, server
<1> QED
  BY <1>1, <1>2, TickIds, SameServer DEF StreamInv, Tick

LEMMA StreamStep ==
  ASSUME StreamInv, Next, UNCHANGED probe
  PROVE  StreamInv'
<1>1. ASSUME NEW t \in Threads, Run(t)
      PROVE  StreamInv'
  <2>1. CASE ReadEof(t)
    <3>1. EndsRound(t)
      BY <2>1 DEF ReadEof, Reading, EndsRound
    <3> QED
      BY <3>1, RoundStep
  <2> QED
    BY <1>1, <2>1, CallStep, CallFailsStep, ReadStep DEF Run
<1>2. ASSUME NEW t \in Threads, ReadFails(t) \/ Abandon(t)
      PROVE  StreamInv'
  BY <1>2, RoundStep DEF ReadFails, Abandon, EndsRound
<1>3. ASSUME NEW c \in Conns, Endpoint(Serve(c)) \/ Cut(c)
      PROVE  StreamInv'
  BY <1>3, ServeStep, CutStep DEF Endpoint
<1>4. CASE \/ \E e \in Events : created[e] <= now /\ Endpoint(Store(e))
           \/ Endpoint(ServerStops) \/ Endpoint(ServerStarts)
  BY <1>4, RelayStep DEF Endpoint
<1> QED
  BY <1>1, <1>2, <1>3, <1>4, SubscribeStep, CloseStep, TickStep DEF Next

-----------------------------------------------------------------------------
(***************************************************************************)
(* The whole system.                                                       *)
(***************************************************************************)
SystemInv == StreamInv /\ AuthInv /\ MonitorInv

LEMMA InitSystem == SystemInit => SystemInv
<1> SUFFICES ASSUME SystemInit PROVE SystemInv
  OBVIOUS
<1>1. Init /\ A!AuthInit /\ M!MonitorInit /\ probe = None
  BY DEF SystemInit
<1>2. ServerInv
  BY <1>1, InitServer DEF Init
<1> QED
  BY <1>1, <1>2, InitIds, InitClientTypes, InitTransfer, InitAuth, InitMonitor
     DEF SystemInv, StreamInv

\* The check of the monitor begins, or lets go of its connection.
LEMMA ProbeStep ==
  ASSUME StreamInv, Follow \/ Release, UNCHANGED client
  PROVE  StreamInv'
<1>1. IdsInv'
  BY SameIds DEF StreamInv, ClientTypes, client
<1>2. probe \in Conns \cup {None}
  BY DEF StreamInv, ClientTypes
<1>3. CASE Release
  <2>1. ServerInv'
    BY <1>2, <1>3, ReleaseKeeps DEF StreamInv
  <2>2. ClientTypes'
    BY <1>3 DEF Release, StreamInv, ClientTypes, client
  <2>3. TransferInv'
    <3>1. probe \in Conns
      BY <1>2, <1>3 DEF Release
    <3> QED
      BY <1>3, <3>1, LeftTransfers DEF Release, StreamInv, client
  <2> QED
    BY <1>1, <2>1, <2>2, <2>3 DEF StreamInv
<1>4. ASSUME NEW c \in Conns, Accept(c, Probe, 0, Limit), probe' = c
      PROVE  StreamInv'
  <2>1. ServerInv'
    BY <1>4, AcceptKeeps, HandlerAssumption DEF StreamInv
  <2>2. ClientTypes'
    BY <1>4 DEF StreamInv, ClientTypes, client
  <2>3. TransferInv'
    BY <1>4, AcceptTransfers DEF StreamInv, client
  <2> QED
    BY <1>1, <2>1, <2>2, <2>3 DEF StreamInv
<1>5. CASE UNCHANGED <<server, probe>>
  <2>1. UNCHANGED <<asked, stream, line>>
    BY <1>5 DEF server
  <2> QED
    BY <1>5, <2>1, SameServer, ClientIdle DEF StreamInv, At
<1> QED
  BY <1>3, <1>4, <1>5 DEF Follow

LEMMA SystemStep == SystemInv /\ [SystemNext]_system => SystemInv'
<1> SUFFICES ASSUME SystemInv, [SystemNext]_system PROVE SystemInv'
  OBVIOUS
<1>1. ASSUME UNCHANGED <<server, client, probe>>
      PROVE  StreamInv'
  <2>1. UNCHANGED <<asked, stream, line>>
    BY <1>1 DEF server
  <2> QED
    BY <1>1, <2>1, SameServer, ClientIdle DEF SystemInv, StreamInv, At
<1>2. CASE Stream
  <2>1. Next /\ UNCHANGED probe
    BY <1>2 DEF Stream, watch
  <2>2. StreamInv'
    BY <2>1, StreamStep DEF SystemInv
  <2>3. AuthInv'
    BY <1>2, OthersKeepAuth DEF Stream, SystemInv
  <2>4. MonitorInv'
    BY <1>2, StepMonitor DEF Stream, SystemInv, watch
  <2> QED
    BY <2>2, <2>3, <2>4 DEF SystemInv
<1>3. CASE Authentication
  <2>1. UNCHANGED <<now, serving>>
    BY <1>3 DEF Authentication, A!AuthNext, A!Authenticate, A!Misread, A!TakesKey, A!Challenge, A!ChallengeFails,
                A!Submit, A!SubmitLost, A!SubmitFails, A!Fail
  <2>2. StreamInv'
    BY <1>1, <1>3, <2>1 DEF Authentication, server, client, watch
  <2>3. now \in Nat
    BY DEF SystemInv, StreamInv, ClientTypes
  <2>4. AuthInv'
    BY <1>3, <2>3, AuthStep DEF Authentication, SystemInv
  <2>5. MonitorInv'
    BY <1>3, StepMonitor DEF Authentication, SystemInv, watch
  <2> QED
    BY <2>2, <2>4, <2>5 DEF SystemInv
<1>4. CASE Watch
  <2>1. UNCHANGED client /\ AuthInv'
    BY <1>4, OthersKeepAuth DEF Watch, SystemInv, accounts
  <2>2. StreamInv'
    BY <1>1, <1>4, <2>1, ProbeStep DEF Watch, SystemInv
  <2>3. MonitorInv'
    BY <1>4, StepMonitor DEF Watch, SystemInv
  <2> QED
    BY <2>1, <2>2, <2>3 DEF SystemInv
<1>5. CASE UNCHANGED system
  <2>1. UNCHANGED <<server, client, accounts, watch>>
    BY <1>5 DEF system, vars
  <2>2. StreamInv'
    BY <1>1, <2>1 DEF watch
  <2>3. AuthInv'
    BY <2>1, OthersKeepAuth DEF SystemInv, accounts
  <2>4. MonitorInv'
    BY <2>1, StepMonitor DEF SystemInv, watch
  <2> QED
    BY <2>2, <2>3, <2>4 DEF SystemInv
<1> QED
  BY <1>2, <1>3, <1>4, <1>5 DEF SystemNext

\* What the theorems below rest on, in every reachable state of the endpoint, its
\* clients and the monitor.
THEOREM SystemInvariance == SystemSpec => []SystemInv
<1>1. SystemInit => SystemInv
  BY InitSystem
<1>2. SystemInv /\ [SystemNext]_system => SystemInv'
  BY SystemStep
<1> QED
  BY <1>1, <1>2, PTL DEF SystemSpec

\* Every variable of the endpoint, the subscriptions, the sessions and the monitor
\* keeps its type.
THEOREM TypeCorrect == SystemSpec => []SystemTypeOK
<1>1. SystemInv => SystemTypeOK
  BY DEF SystemInv, StreamInv, ServerInv, ServerTypes, IdsInv, IdTypes, ClientTypes, Locals,
         AuthInv, MonitorInv, SystemTypeOK, TypeOK, Frames
<1> QED
  BY <1>1, SystemInvariance, PTL

\* However a stream ends, no queue is left for it at the endpoint.
THEOREM QueuesAreTakenBack == SystemSpec => []NoQueueLeft
<1>1. SystemInv => NoQueueLeft
  BY DEF SystemInv, StreamInv, ServerInv
<1> QED
  BY <1>1, SystemInvariance, PTL

\* The ids of two subscriptions with callbacks are the same only if they were made
\* in a second in which one was taken out of the table.
THEOREM IdsAreUnique == SystemSpec => []IdsDiffer
<1>1. SystemInv => IdsDiffer
  BY DEF SystemInv, StreamInv, IdsInv
<1> QED
  BY <1>1, SystemInvariance, PTL

\* The relay takes a client's token for the key the client signs with, unless an
\* authentication with that key has not succeeded since the token came.
THEOREM TokensAreTrue == SystemSpec => []TokenNamesItsKey
<1>1. SystemInv => TokenNamesItsKey
  BY DEF SystemInv, AuthInv
<1> QED
  BY <1>1, SystemInvariance, PTL

\* No failing check stays unnamed for as long as a cooldown while Telegram answers.
THEOREM FailuresAreNamed == SystemSpec => []FailureNamed
<1>1. SystemInv => FailureNamed
  BY DEF SystemInv, MonitorInv, NamedInTime, FailureNamed, M!FailureNamed
<1> QED
  BY <1>1, SystemInvariance, PTL

-----------------------------------------------------------------------------
(***************************************************************************)
(* What a follower leaves behind.  A filter moves on in one place only, at *)
(* the end of a stream whose EOSE was read, where TransferInv says what    *)
(* the thread has read by then.                                            *)
(***************************************************************************)
\* A round that fails, or whose thread leaves, moves no filter on.
LEMMA FailuresMoveNothing ==
  ASSUME ClientTypes, NEW u \in Threads, Counted(u) \/ Leave(u), NEW t \in Threads
  PROVE  ~MovesOn(t)
<1>1. loop[t].since \in Nat /\ loop[u] \in Locals
  BY DEF ClientTypes, Locals
<1>2. loop'[t] = loop[t] \/ loop'[t].since = 0 \/ loop'[t].since = loop[t].since
  <2>1. CASE Leave(u)
    BY <2>1 DEF Leave, Fresh, ClientTypes
  <2>2. CASE Again(u, [loop[u] EXCEPT !.retries = @ + 1])
    BY <2>2 DEF Again, ClientTypes, Locals
  <2> QED
    BY <2>1, <2>2 DEF Counted
<1> QED
  BY <1>1, <1>2 DEF MovesOn

LEMMA FilterMovesAfterEose ==
  ASSUME ClientTypes, Next, NEW t \in Threads, MovesOn(t)
  PROVE  at[t] = "reading" /\ eose[t] # 0
<1>1. loop[t] \in Locals /\ ~(loop'[t] = loop[t])
  BY DEF ClientTypes, Locals, MovesOn
<1>2. ASSUME NEW u \in Threads, Subscribe(u) \/ Run(u) \/ ReadFails(u) \/ Abandon(u)
      PROVE  at[t] = "reading" /\ eose[t] # 0
  <2>1. ~(CallFails(u) \/ ReadFails(u) \/ Abandon(u))
    BY FailuresMoveNothing DEF CallFails, ReadFails, Abandon
  <2>2. ~(Subscribe(u) \/ ReadEvent(u) \/ ReadEose(u))
    BY <1>1 DEF Subscribe, ReadEvent, ReadEose
  <2>3. ASSUME NEW c \in Conns, Call(u, c) PROVE FALSE
    <3>1. loop' = [loop EXCEPT ![u] = [loop[u] EXCEPT !.retries = 0]]
      BY <2>3 DEF Call
    <3>2. loop'[t].since = loop[t].since
      BY <3>1 DEF ClientTypes, Locals
    <3> QED
      BY <1>1, <3>2 DEF MovesOn, Locals
  <2>4. ReadEof(u)
    BY <1>2, <2>1, <2>2, <2>3 DEF Run
  <2>5. Again(u, Moved(u)) /\ at[u] = "reading"
    BY <2>4, FailuresMoveNothing DEF ReadEof, Reading
  <2>6. t = u /\ loop'[t] = Moved(t)
    BY <1>1, <2>5 DEF Again, ClientTypes
  <2> QED
    BY <1>1, <2>5, <2>6 DEF Moved
<1>3. CASE \/ \E s \in DOMAIN table : Close(s)
           \/ \E c \in Conns : Endpoint(Serve(c)) \/ Cut(c)
           \/ \E e \in Events : created[e] <= now /\ Endpoint(Store(e))
           \/ Endpoint(ServerStops) \/ Endpoint(ServerStarts)
           \/ Tick
  BY <1>1, <1>3 DEF Close, Endpoint, Cut, Tick, client
<1> QED
  BY <1>2, <1>3 DEF Next

LEMMA ReadWhatIsOwed ==
  ASSUME SystemInv, NEW t \in Threads, at[t] = "reading", eose[t] # 0, NEW e \in AskedFor(db, t)
  PROVE  e \in read[t] \/ e \notin asked[conn[t]] \/ CrowdedOut(e, t)
<1>1. Owed(asked[conn[t]], loop[t]) \subseteq read[t]
  BY DEF SystemInv, StreamInv, TransferInv, Faithful
<1>2. e \in asked[conn[t]] => e \in Matching(asked[conn[t]], loop[t].since)
  BY DEF AskedFor, Matching
<1> QED
  BY <1>1, <1>2 DEF Owed, CrowdedOut, AskedFor

\* Where a follower's filter moves on, it has read what the answer owed it, whatever
\* was cut, lost, dropped or asked again before.
THEOREM FollowersKeepUp == SystemSpec => LeavesNothingBehind
<1> DEFINE KeptUp ==
      \A t \in Threads : MovesOn(t) =>
        \A e \in AskedFor(db, t) \ AskedFor(db, t)' :
          e \in read[t] \/ e \notin asked[conn[t]] \/ CrowdedOut(e, t)
<1>1. SystemInv /\ [SystemNext]_system => [KeptUp]_vars
  <2> SUFFICES ASSUME SystemInv, [SystemNext]_system, NEW t \in Threads, MovesOn(t)
               PROVE  at[t] = "reading" /\ eose[t] # 0
    BY ReadWhatIsOwed
  <2>1. ClientTypes
    BY DEF SystemInv, StreamInv
  <2>2. loop' # loop
    BY <2>1 DEF MovesOn, ClientTypes, Locals
  <2>3. Next
    BY <2>2 DEF SystemNext, Stream, Authentication, Watch, system, vars, client
  <2> QED
    BY <2>1, <2>3, FilterMovesAfterEose
<1> QED
  BY <1>1, SystemInvariance, PTL DEF SystemSpec, LeavesNothingBehind
=============================================================================
