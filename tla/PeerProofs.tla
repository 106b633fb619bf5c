------------------------------ MODULE PeerProofs ------------------------------
(***************************************************************************)
(* Proofs about the two parts that keep up with peers.  MeshFetch: its     *)
(* types, and that the time up to which a relay counts as fetched moves    *)
(* only over events that are stored.  GossipShard: its types, and that a   *)
(* shard never has two connections to a peer or a task for a second one.   *)
(* They share no state.                                                    *)
(***************************************************************************)
EXTENDS MeshFetch, GossipShard, FiniteSetTheorems, WellFoundedInduction, TLAPS

\* A request asks at least as far back as the relay's last fetch, or as the window.
AsksFarEnough ==
  \A r \in DOMAIN since : since[r] <= Later(now - Window, last[r])

\* A complete answer has all that the relay held and that was asked for, and
\* nothing that breaks the cycle.
WholeIsAll ==
  \A r \in DOMAIN answers :
    \A e \in answers[r].held :
      ~answers[r].odd /\ (Created[e] >= since[r] => e \in answers[r].got)

IInv == TypeOK /\ AsksFarEnough /\ WholeIsAll

-----------------------------------------------------------------------------
\* Under the limit, the newest events of a set are all of it.
LEMMA NewestOfFew ==
  ASSUME NEW S \in SUBSET Events, NEW T \in Newest(S), Cardinality(S) <= Limit
  PROVE  T = S
<1>1. IsFiniteSet(S)
  BY MeshAssumption, FS_Subset
<1>2. T \subseteq S /\ Cardinality(T) = Cardinality(S)
  <2>1. Cardinality(S) \in Nat
    BY <1>1, FS_CardinalityType
  <2> QED
    BY <2>1, MeshAssumption DEF Newest
<1> QED
  BY <1>1, <1>2, FS_Subset

\* Recording an answer adds it and keeps those of the other relays.
LEMMA RecordAnswer ==
  ASSUME TypeOK, NEW r \in Asked, NEW got, NEW whole, Answers(r, got, whole)
  PROVE  /\ DOMAIN answers' = DOMAIN answers \cup {r}
         /\ \A q \in DOMAIN answers : answers'[q] = answers[q]
         /\ talking' = talking \ {r}
<1>1. PICK odd \in BOOLEAN :
        answers' = [q \in DOMAIN answers \cup {r} |->
                      IF q # r THEN answers[q]
                      ELSE [got |-> got, odd |-> odd,
                            held |-> IF whole /\ ~odd THEN posted[r] ELSE {}]]
  BY DEF Answers
<1> QED
  BY <1>1 DEF Answers, Asked

LEMMA InitInvariant == Init => IInv
<1> SUFFICES ASSUME Init PROVE IInv
  OBVIOUS
<1>1. DOMAIN since = {} /\ DOMAIN answers = {}
  BY DEF Init, Nothing
<1>2. 0 \in 0 .. MaxTime /\ 0 \in 0 .. MaxRestarts
  BY MeshAssumption
<1>3. TypeOK
  BY <1>1, <1>2 DEF Init, TypeOK, Asked
<1> QED
  BY <1>1, <1>3 DEF IInv, AsksFarEnough, WholeIsAll

-----------------------------------------------------------------------------
(***************************************************************************)
(* The invariant is inductive.                                             *)
(***************************************************************************)
\* Steps that leave the cycle under way alone; the clock may go on.
LEMMA CycleUntouched ==
  ASSUME IInv, TypeOK', UNCHANGED <<since, answers, last>>, now' \in {now, now + 1}
  PROVE  IInv'
<1>1. AsksFarEnough'
  BY MeshAssumption DEF IInv, TypeOK, AsksFarEnough, Later
<1>2. WholeIsAll'
  BY DEF IInv, WholeIsAll
<1> QED
  BY <1>1, <1>2 DEF IInv

LEMMA PulseInvariant == IInv /\ Pulse => IInv'
<1> SUFFICES ASSUME IInv, Pulse PROVE IInv'
  OBVIOUS
<1>1. UNCHANGED <<world, fetch, restarts>>
  BY DEF Pulse, BeginPulse, EndPulse, Ping, Dial
<1>2. TypeOK'
  <2>1. /\ pulsing' \in BOOLEAN /\ unpinged' \subseteq Relays /\ dialling' \subseteq Relays
        /\ found' \subseteq Relays /\ alive' \subseteq Relays
    <3>1. CASE BeginPulse
      BY <3>1 DEF BeginPulse, IInv, TypeOK
    <3>2. CASE EndPulse
      BY <3>2 DEF EndPulse, IInv, TypeOK
    <3>3. CASE \E r \in Relays : Ping(r)
      BY <3>3 DEF Ping, IInv, TypeOK
    <3>4. CASE \E r \in Relays : Dial(r)
      BY <3>4 DEF Dial, IInv, TypeOK
    <3> QED
      BY <3>1, <3>2, <3>3, <3>4 DEF Pulse
  <2> QED
    BY <1>1, <2>1 DEF IInv, TypeOK, Asked, world, fetch
<1> QED
  BY <1>1, <1>2, CycleUntouched DEF world, fetch

LEMMA WorldInvariant ==
  ASSUME IInv,
         \/ Tick
         \/ \E r \in Unsteady : GoesOrComes(r) \/ ListsOrUnlists(r)
         \/ \E r \in Relays, e \in Events : Post(r, e)
  PROVE  IInv'
<1>1. UNCHANGED <<pulse, fetch, restarts>> /\ now' \in {now, now + 1}
  BY DEF Tick, GoesOrComes, ListsOrUnlists, Post
<1>2. TypeOK'
  <2>1. /\ now' \in 0 .. MaxTime /\ posted' \in [Relays -> SUBSET Events]
        /\ up' \subseteq Relays /\ listed' \subseteq Relays
    <3>1. CASE Tick
      BY <3>1, MeshAssumption DEF Tick, IInv, TypeOK
    <3>2. CASE \E r \in Unsteady : GoesOrComes(r) \/ ListsOrUnlists(r)
      BY <3>2, MeshAssumption DEF GoesOrComes, ListsOrUnlists, IInv, TypeOK
    <3>3. CASE \E r \in Relays, e \in Events : Post(r, e)
      BY <3>3 DEF Post, IInv, TypeOK
    <3> QED
      BY <3>1, <3>2, <3>3
  <2> QED
    BY <1>1, <2>1 DEF IInv, TypeOK, Asked, pulse, fetch
<1> QED
  BY <1>1, <1>2, CycleUntouched DEF fetch

LEMMA RestartInvariant == IInv /\ Restart => IInv'
<1> SUFFICES ASSUME IInv, Restart PROVE IInv'
  OBVIOUS
<1>1. DOMAIN since' = {} /\ DOMAIN answers' = {}
  BY DEF Restart, Nothing
<1>2. last' \in [Relays -> 0 .. MaxTime] /\ restarts' \in 0 .. MaxRestarts
  BY MeshAssumption DEF Restart, IInv, TypeOK
<1>3. TypeOK'
  BY <1>1, <1>2 DEF Restart, IInv, TypeOK, Asked, world
<1> QED
  BY <1>1, <1>3 DEF IInv, AsksFarEnough, WholeIsAll

LEMMA BeginCycleInvariant == IInv /\ BeginCycle => IInv'
<1> SUFFICES ASSUME IInv, BeginCycle PROVE IInv'
  OBVIOUS
<1>1. DOMAIN answers = {} /\ UNCHANGED answers
  BY DEF BeginCycle, IInv, TypeOK
<1>2. \A r \in alive : since'[r] = Later(now - Window, last[r]) /\ since'[r] \in Int
  BY MeshAssumption DEF BeginCycle, IInv, TypeOK, Later
<1>3. DOMAIN since' = alive
  BY DEF BeginCycle
<1>4. TypeOK'
  BY <1>1, <1>2, <1>3 DEF BeginCycle, IInv, TypeOK, Asked, world, pulse
<1>5. AsksFarEnough'
  BY <1>2, <1>3, MeshAssumption DEF BeginCycle, AsksFarEnough, world, IInv, TypeOK, Later
<1>6. WholeIsAll'
  BY <1>1 DEF WholeIsAll
<1> QED
  BY <1>4, <1>5, <1>6 DEF IInv

\* An answer that is whole must have all the relay held: its limit was not reached.
LEMMA AnswerInvariant ==
  ASSUME IInv, NEW r \in Asked, NEW got \in SUBSET Wanted(r), NEW whole \in BOOLEAN,
         whole => got = Wanted(r), Answers(r, got, whole)
  PROVE  IInv'
<1>1. /\ DOMAIN answers' = DOMAIN answers \cup {r}
      /\ \A q \in DOMAIN answers : answers'[q] = answers[q]
      /\ talking' = talking \ {r}
  BY RecordAnswer DEF IInv
<1>0. PICK odd \in BOOLEAN :
        answers' = [q \in DOMAIN answers \cup {r} |->
                      IF q # r THEN answers[q]
                      ELSE [got |-> got, odd |-> odd,
                            held |-> IF whole /\ ~odd THEN posted[r] ELSE {}]]
  BY DEF Answers
<1>a. answers'[r] = [got |-> got, odd |-> odd, held |-> IF whole /\ ~odd THEN posted[r] ELSE {}]
  BY <1>0
<1>2. UNCHANGED <<world, pulse, last, since, db, refused, restarts>>
  BY DEF Answers
<1>3. r \in Relays /\ r \in DOMAIN since /\ posted[r] \in SUBSET Events
  BY DEF Asked, IInv, TypeOK
<1>4. answers'[r] \in Answer
  BY <1>a, <1>3 DEF Answer, Wanted
<1>5. TypeOK'
  BY <1>1, <1>2, <1>3, <1>4 DEF IInv, TypeOK, Asked, world, pulse
<1>6. AsksFarEnough'
  BY <1>2 DEF IInv, AsksFarEnough, world
<1>7. WholeIsAll'
  <2> SUFFICES ASSUME NEW q \in DOMAIN answers', NEW e \in answers'[q].held
               PROVE  ~answers'[q].odd /\ (Created[e] >= since'[q] => e \in answers'[q].got)
    BY DEF WholeIsAll
  <2>1. CASE q = r
    <3>1. whole /\ ~odd /\ e \in posted[r] /\ answers'[q].odd = odd /\ answers'[q].got = got
      BY <2>1, <1>a
    <3> QED
      BY <2>1, <3>1, <1>2 DEF Wanted
  <2>2. CASE q # r
    BY <2>2, <1>1, <1>2 DEF IInv, WholeIsAll
  <2> QED
    BY <2>1, <2>2
<1> QED
  BY <1>5, <1>6, <1>7 DEF IInv

\* The end of a cycle, broken or not.
Ends(moved, some) ==
  DOMAIN since # {} /\ Asked = {} /\ moved \subseteq DOMAIN answers /\ some \subseteq Events
    /\ Stores(moved, some)

LEMMA EndCycleEnds ==
  ASSUME IInv, EndCycle
  PROVE  Ends(DOMAIN answers, Fetched(DOMAIN answers))
<1>1. Fetched(DOMAIN answers) \subseteq Events
  BY DEF Fetched, IInv, TypeOK, Answer
<1> QED
  BY <1>1 DEF EndCycle, Ends

LEMMA BreakCycleEnds ==
  ASSUME IInv, NEW q \in Relays, BreakCycle(q)
  PROVE  \E before \in SUBSET DOMAIN answers, part \in SUBSET Events :
           answers[q].odd /\ Ends(before \cup {q}, Fetched(before) \cup part)
<1>1. PICK before \in SUBSET {p \in DOMAIN answers \ {q} : ~answers[p].odd},
           part \in SUBSET answers[q].got :
             Stores(before \cup {q}, Fetched(before) \cup part)
  BY DEF BreakCycle
<1>2. Fetched(before) \subseteq Events /\ part \subseteq Events /\ q \in DOMAIN answers
  BY DEF BreakCycle, Fetched, IInv, TypeOK, Answer
<1>3. Ends(before \cup {q}, Fetched(before) \cup part)
  BY <1>1, <1>2 DEF BreakCycle, Ends
<1> QED
  BY <1>2, <1>3 DEF BreakCycle

LEMMA EndInvariant ==
  ASSUME IInv, NEW moved, NEW some, Ends(moved, some)
  PROVE  IInv'
<1>1. DOMAIN since' = {} /\ DOMAIN answers' = {}
  BY DEF Ends, Stores, Nothing
<1>2. last' \in [Relays -> 0 .. MaxTime] /\ db' \subseteq Events /\ refused' \subseteq Events
  BY DEF Ends, Stores, IInv, TypeOK
<1>3. talking' = {}
  BY DEF Ends, Stores, IInv, TypeOK
<1>4. TypeOK'
  BY <1>1, <1>2, <1>3 DEF Ends, Stores, IInv, TypeOK, Asked, world, pulse
<1> QED
  BY <1>1, <1>4 DEF IInv, AsksFarEnough, WholeIsAll

LEMMA StepInvariant == IInv /\ [Next]_vars => IInv'
<1> SUFFICES ASSUME IInv, [Next]_vars PROVE IInv'
  OBVIOUS
<1>1. CASE Pulse
  BY <1>1, PulseInvariant
<1>2. CASE BeginCycle
  BY <1>2, BeginCycleInvariant
<1>3. CASE EndCycle \/ \E r \in Relays : BreakCycle(r)
  BY <1>3, EndCycleEnds, BreakCycleEnds, EndInvariant
<1>4. ASSUME NEW r \in Relays, AnswerFull(r) PROVE IInv'
  <2>1. PICK got \in Newest(Wanted(r)) : Answers(r, got, Cardinality(Wanted(r)) <= Limit)
    BY <1>4 DEF AnswerFull
  <2>2. r \in Asked /\ Wanted(r) \in SUBSET Events /\ got \in SUBSET Wanted(r)
    BY <1>4, <2>1 DEF AnswerFull, Wanted, IInv, TypeOK, Newest
  <2>3. Cardinality(Wanted(r)) <= Limit => got = Wanted(r)
    BY <2>1, <2>2, NewestOfFew
  <2>4. Cardinality(Wanted(r)) \in Nat /\ Limit \in Nat
    BY <2>2, MeshAssumption, FS_Subset, FS_CardinalityType
  <2>5. CASE Cardinality(Wanted(r)) <= Limit
    <3>1. (Cardinality(Wanted(r)) <= Limit) = TRUE
      BY <2>4, <2>5
    <3>2. Answers(r, got, TRUE)
      BY <2>1, <3>1
    <3> QED
      BY <2>2, <2>3, <2>5, <3>2, AnswerInvariant
  <2>6. CASE ~(Cardinality(Wanted(r)) <= Limit)
    <3>1. (Cardinality(Wanted(r)) <= Limit) = FALSE
      BY <2>4, <2>6
    <3>2. Answers(r, got, FALSE)
      BY <2>1, <3>1
    <3> QED
      BY <2>2, <3>2, AnswerInvariant
  <2> QED
    BY <2>5, <2>6
<1>5. ASSUME NEW r \in Relays, AnswerCut(r) PROVE IInv'
  BY <1>5, AnswerInvariant DEF AnswerCut
<1>6. CASE Restart
  BY <1>6, RestartInvariant
<1>9. ASSUME NEW r \in Talkers, TalksOrStops(r) PROVE IInv'
  <2>1. /\ UNCHANGED <<world, pulse, last, since, answers, db, refused, restarts>>
        /\ talking' \subseteq Asked
    BY <1>9 DEF TalksOrStops, IInv, TypeOK
  <2>2. TypeOK'
    BY <2>1 DEF IInv, TypeOK, Asked, world, pulse
  <2> QED
    BY <2>1, <2>2, CycleUntouched DEF world
<1>7. CASE World /\ ~Restart /\ ~\E r \in Talkers : TalksOrStops(r)
  BY <1>7, WorldInvariant DEF World
<1>8. CASE UNCHANGED vars
  <2>1. TypeOK'
    BY <1>8 DEF IInv, TypeOK, Asked, vars, world, pulse, fetch
  <2> QED
    BY <1>8, <2>1, CycleUntouched DEF vars, world, fetch
<1> QED
  BY <1>1, <1>2, <1>3, <1>4, <1>5, <1>6, <1>7, <1>8, <1>9 DEF Next, Cycle, World

\* The inductive invariant holds in every reachable state.
THEOREM Invariant == Spec => []IInv
<1>1. Init => IInv
  BY InitInvariant
<1>2. IInv /\ [Next]_vars => IInv'
  BY StepInvariant
<1> QED
  BY <1>1, <1>2, PTL DEF Spec

\* Type correctness: in particular answers come only from relays the cycle asked.
THEOREM TypeCorrect == Spec => []TypeOK
<1>1. IInv => TypeOK
  BY DEF IInv
<1> QED
  BY <1>1, Invariant, PTL

-----------------------------------------------------------------------------
(***************************************************************************)
(* The step that moves the time of a relay's last fetch is the end of a    *)
(* cycle that asked it.                                                    *)
(***************************************************************************)
MovedOver(r) ==
  /\ r \in DOMAIN answers
  /\ \A e \in answers[r].held :
       Created[e] >= Later(now - Window, last[r]) => e \in db' \cup refused'

\* The events of a relay that moved, if all it sent was tried, are stored or refused.
LEMMA EndMovesOver ==
  ASSUME IInv, NEW moved, NEW some, Ends(moved, some), NEW r \in Relays, last'[r] # last[r],
         \A q \in moved : answers[q].odd \/ answers[q].got \subseteq some
  PROVE  MovedOver(r)
<1>1. r \in moved /\ r \in DOMAIN since /\ r \in DOMAIN answers
  BY DEF Ends, Stores, IInv, TypeOK
<1>2. ASSUME NEW e \in answers[r].held, Created[e] >= Later(now - Window, last[r])
      PROVE  e \in db' \cup refused'
  <2>1. /\ since[r] \in Int /\ since[r] <= Later(now - Window, last[r])
        /\ Later(now - Window, last[r]) \in Int
    BY <1>1, MeshAssumption DEF IInv, TypeOK, AsksFarEnough, Later
  <2>2. e \in Events /\ Created[e] \in Int
    BY <1>1, MeshAssumption DEF IInv, TypeOK, Answer
  <2>3. Created[e] >= since[r]
    BY <1>2, <2>1, <2>2
  <2>4. e \in answers[r].got /\ ~answers[r].odd
    BY <1>1, <2>3 DEF IInv, WholeIsAll
  <2>5. e \in some
    BY <1>1, <2>4
  <2> QED
    BY <2>5 DEF Ends, Stores
<1> QED
  BY <1>1, <1>2 DEF MovedOver

LEMMA EndCycleMovesOver ==
  ASSUME IInv, EndCycle \/ \E q \in Relays : BreakCycle(q), NEW r \in Relays, last'[r] # last[r]
  PROVE  MovedOver(r)
<1>1. CASE EndCycle
  <2>1. \A q \in DOMAIN answers : answers[q].got \subseteq Fetched(DOMAIN answers)
    BY DEF Fetched
  <2> QED
    BY <1>1, <2>1, EndCycleEnds, EndMovesOver
<1>2. ASSUME NEW q \in Relays, BreakCycle(q)
      PROVE  MovedOver(r)
  <2>1. PICK before \in SUBSET DOMAIN answers, part \in SUBSET Events :
          answers[q].odd /\ Ends(before \cup {q}, Fetched(before) \cup part)
    BY <1>2, BreakCycleEnds
  <2>2. \A p \in before \cup {q} : answers[p].odd \/ answers[p].got \subseteq Fetched(before) \cup part
    BY <2>1 DEF Fetched
  <2> QED
    BY <2>1, <2>2, EndMovesOver
<1> QED
  BY <1>1, <1>2

LEMMA OnlyEndCycleMoves ==
  ASSUME [Next]_vars, ~EndCycle, \A q \in Relays : ~BreakCycle(q), restarts' = restarts, TypeOK
  PROVE  last' = last
<1>1. ~Restart
  BY DEF Restart, TypeOK
<1> QED
  BY <1>1 DEF Next, Pulse, BeginPulse, EndPulse, Ping, Dial, Cycle, BeginCycle, AnswerFull,
       AnswerCut, Answers, World, Tick, GoesOrComes, ListsOrUnlists, TalksOrStops, Post, vars, fetch

\* The time up to which a relay counts as fetched moves only over events that
\* are stored, for any number of relays, events, pulses and restarts.
THEOREM MovesPastSeen == Spec => MovesOnlyPastSeen
<1>1. ASSUME IInv, [Next]_vars
      PROVE  [\A r \in Relays : last'[r] # last[r] /\ restarts' = restarts => MovedOver(r)]_vars
  BY <1>1, EndCycleMovesOver, OnlyEndCycleMoves DEF IInv
<1>2. Spec => [][\A r \in Relays : last'[r] # last[r] /\ restarts' = restarts => MovedOver(r)]_vars
  BY <1>1, Invariant, PTL DEF Spec
<1> QED
  BY <1>2 DEF MovesOnlyPastSeen, MovedOver

-----------------------------------------------------------------------------
(***************************************************************************)
(* GossipShard.  The invariant: a pair of shards has a connection or one   *)
(* task that will make it, and neither before the first has tried the      *)
(* second, nor while the first is down.  OneLinkPerPeer alone is not       *)
(* inductive: the loop of connect_peer_shards and the tasks both connect.  *)
(***************************************************************************)
Fresh(pair) == pair \notin links /\ pending[pair] = 0

Tidy(pair) ==
  /\ pair \in links => pending[pair] = 0
  /\ pending[pair] <= 1
  /\ pair[1] \notin running \/ pair[2] \in todo[pair[1]] => Fresh(pair)

ShardInv ==
  /\ ShardTypeOK
  /\ \A s \in Shards : s \notin todo[s]
  /\ \A pair \in Pairs : Tidy(pair)

\* A nonempty set of shards has a lowest one, which is the one tried first.
LEMMA FirstOfShards ==
  ASSUME NEW S \in SUBSET Shards, S # {}
  PROVE  First(S) \in S
<1>1. S \subseteq Nat
  BY GossipAssumption
<1>2. \E p \in S : \A q \in S : ~(<<q, p>> \in OpToRel(<, Nat))
  BY <1>1, NatLessThanWellFounded, WFMin, Zenon
<1>3. \E p \in S : \A q \in S : ~(q < p)
  BY <1>1, <1>2, Zenon DEF OpToRel
<1>4. \E p \in S : \A q \in S : p <= q
  BY <1>1, <1>3
<1> QED
  BY <1>4 DEF First

\* The names: what registering and forgetting does to their types.
LEMMA NamesStay ==
  ASSUME ShardTypeOK, NEW s \in Shards, NEW n, Register(s, n) \/ Forget(s, n)
  PROVE  agents' \in [Shards -> SUBSET Watched]
  BY DEF ShardTypeOK, Register, Forget

\* A pair of different shards, taken apart and put together.
LEMMA PairOfPeers ==
  /\ \A s \in Shards : \A p \in Peers(s) : <<s, p>> \in Pairs
  /\ \A pair \in Pairs : pair[1] \in Shards /\ pair[2] \in Peers(pair[1]) /\ pair = <<pair[1], pair[2]>>
  BY DEF Pairs, Peers

LEMMA ShardInitHolds == ShardInit => ShardInv
<1> SUFFICES ASSUME ShardInit PROVE ShardInv
  OBVIOUS
<1>1. 0 \in 0 .. Attempts /\ 0 \in 0 .. MaxMessages /\ 0 \in 0 .. MaxCrashes
  BY GossipAssumption
<1>2. ShardTypeOK
  BY <1>1 DEF ShardInit, ShardTypeOK
<1>3. \A pair \in Pairs : pending[pair] = 0 /\ pair \notin links
  BY DEF ShardInit
<1> QED
  BY <1>2, <1>3 DEF ShardInv, Tidy, Fresh, ShardInit

-----------------------------------------------------------------------------
(***************************************************************************)
(* The steps of a starting shard.                                          *)
(***************************************************************************)
LEMMA StartKeeps ==
  ASSUME ShardInv, NEW s \in Shards, Start(s)
  PROVE  ShardInv'
<1>1. Attempts \in 0 .. Attempts
  BY GossipAssumption
<1>2. ShardTypeOK'
  BY <1>1 DEF Start, ShardInv, ShardTypeOK, Peers, net
<1>3. \A q \in Shards : q \notin todo'[q]
  BY DEF Start, ShardInv, ShardTypeOK, Peers
<1>4. ASSUME NEW pair \in Pairs PROVE Tidy(pair)'
  <2>1. pair[1] \in Shards /\ Tidy(pair) /\ UNCHANGED <<links, pending>>
    BY PairOfPeers DEF Start, net, ShardInv
  <2>2. CASE pair[1] = s
    BY <2>1, <2>2 DEF Start, Tidy, Fresh
  <2>3. CASE pair[1] # s
    BY <2>1, <2>3 DEF Start, Tidy, Fresh, ShardInv, ShardTypeOK
  <2> QED
    BY <2>2, <2>3
<1> QED
  BY <1>2, <1>3, <1>4 DEF ShardInv

\* A shard that goes on to its next peer has fewer to try.
LEMMA NextPeerShortens ==
  ASSUME ShardInv, NEW s \in Shards, todo[s] # {}, NextPeer(s)
  PROVE  /\ todo' \in [Shards -> SUBSET Shards] /\ tries' \in [Shards -> 0 .. Attempts]
         /\ \A q \in Shards : todo'[q] \subseteq todo[q]
         /\ First(todo[s]) \in todo[s] \ todo'[s]
<1>1. First(todo[s]) \in todo[s]
  BY FirstOfShards DEF ShardInv, ShardTypeOK
<1>2. Attempts \in 0 .. Attempts
  BY GossipAssumption
<1> QED
  BY <1>1, <1>2 DEF NextPeer, ShardInv, ShardTypeOK

LEMMA RefusedKeeps ==
  ASSUME ShardInv, NEW s \in Shards, Refused(s)
  PROVE  ShardInv'
<1>1. /\ todo' \in [Shards -> SUBSET Shards] /\ tries' \in [Shards -> 0 .. Attempts]
      /\ \A q \in Shards : todo'[q] \subseteq todo[q]
  <2>1. CASE tries[s] > 1
    <3>1. tries[s] - 1 \in 0 .. Attempts
      BY <2>1, GossipAssumption DEF ShardInv, ShardTypeOK
    <3> QED
      BY <2>1, <3>1 DEF Refused, ShardInv, ShardTypeOK
  <2>2. CASE ~(tries[s] > 1)
    BY <2>2, NextPeerShortens DEF Refused
  <2> QED
    BY <2>1, <2>2
<1>2. UNCHANGED <<running, net, agents, conn, sent, crashes>>
  BY DEF Refused
<1>3. ShardTypeOK'
  BY <1>1, <1>2 DEF ShardInv, ShardTypeOK, net
<1>4. ASSUME NEW pair \in Pairs PROVE Tidy(pair)'
  BY <1>1, <1>2, PairOfPeers DEF ShardInv, Tidy, Fresh, net
<1> QED
  BY <1>1, <1>3, <1>4 DEF ShardInv

LEMMA ReachKeeps ==
  ASSUME ShardInv, NEW s \in Shards, Reach(s)
  PROVE  ShardInv'
<1> DEFINE p == First(todo[s])
<1>1. /\ todo' \in [Shards -> SUBSET Shards] /\ tries' \in [Shards -> 0 .. Attempts]
      /\ \A q \in Shards : todo'[q] \subseteq todo[q]
      /\ p \in todo[s] \ todo'[s]
  BY NextPeerShortens DEF Reach
<1>2. p \in Peers(s) /\ <<s, p>> \in Pairs
  BY <1>1, PairOfPeers DEF ShardInv, ShardTypeOK, Peers
<1>3. /\ UNCHANGED <<running, closing, pending, agents, conn, sent, crashes>>
      /\ links' = links \cup {<<s, p>>} /\ greetings' = greetings \cup {<<s, p>>}
      /\ s \in running
  BY DEF Reach
<1>4. ShardTypeOK'
  BY <1>1, <1>2, <1>3 DEF ShardInv, ShardTypeOK
<1>5. ASSUME NEW pair \in Pairs PROVE Tidy(pair)'
  <2>1. CASE pair = <<s, p>>
    <3>1. Fresh(pair)
      BY <1>1, <2>1 DEF ShardInv, Tidy
    <3>2. pair[1] \in running' /\ pair[2] \notin todo'[pair[1]] /\ pending'[pair] = 0
      BY <1>1, <1>3, <2>1, <3>1 DEF Fresh
    <3> QED
      BY <3>2 DEF Tidy
  <2>2. CASE pair # <<s, p>>
    BY <1>1, <1>3, <2>2, PairOfPeers DEF ShardInv, Tidy, Fresh
  <2> QED
    BY <2>1, <2>2
<1> QED
  BY <1>1, <1>4, <1>5 DEF ShardInv

-----------------------------------------------------------------------------
(***************************************************************************)
(* A message: every link of the shard that is not closing becomes a task.  *)
(***************************************************************************)
LEMMA GossipSwaps ==
  ASSUME ShardInv, NEW s, Gossip(s), UNCHANGED <<running, todo, closing>>
  PROVE  /\ links' \subseteq Pairs /\ closing' \subseteq links' /\ pending' \in [Pairs -> Nat]
         /\ \A pair \in Pairs : Tidy(pair)'
<1>1. Dropped(s) \subseteq links \ closing
  BY DEF Dropped
<1>2. /\ links' = links \ Dropped(s)
      /\ pending' = [pair \in Pairs |-> IF pair \in Dropped(s) THEN pending[pair] + 1 ELSE pending[pair]]
  BY DEF Gossip
<1>3. links' \subseteq Pairs /\ closing' \subseteq links' /\ pending' \in [Pairs -> Nat]
  BY <1>1, <1>2 DEF ShardInv, ShardTypeOK
<1>4. ASSUME NEW pair \in Pairs PROVE Tidy(pair)'
  <2>1. Tidy(pair)
    BY DEF ShardInv
  <2>2. CASE pair \in Dropped(s)
    <3>1. pair \in links /\ pending[pair] = 0
      BY <1>1, <2>1, <2>2 DEF Tidy
    <3>2. pair[1] \in running /\ pair[2] \notin todo[pair[1]]
      BY <2>1, <3>1 DEF Tidy, Fresh
    <3>3. pair \notin links' /\ pending'[pair] = 1
      BY <1>2, <2>2, <3>1
    <3> QED
      BY <3>2, <3>3 DEF Tidy
  <2>3. CASE pair \notin Dropped(s)
    BY <1>2, <2>1, <2>3 DEF Tidy, Fresh
  <2> QED
    BY <2>2, <2>3
<1> QED
  BY <1>3, <1>4

LEMMA GreetKeeps ==
  ASSUME ShardInv, NEW s \in Shards, NEW p \in Shards, Greet(s, p)
  PROVE  ShardInv'
<1>1. UNCHANGED <<running, todo, tries, closing, conn, sent, crashes>>
  BY DEF Greet
<1>2. /\ links' \subseteq Pairs /\ closing' \subseteq links' /\ pending' \in [Pairs -> Nat]
      /\ \A pair \in Pairs : Tidy(pair)'
  BY <1>1, GossipSwaps DEF Greet
<1>3. agents' \in [Shards -> SUBSET Watched] /\ greetings' \subseteq Pairs
  BY NamesStay DEF Greet, ShardInv, ShardTypeOK
<1>4. ShardTypeOK'
  BY <1>1, <1>2, <1>3 DEF ShardInv, ShardTypeOK
<1> QED
  BY <1>1, <1>2, <1>4 DEF ShardInv

\* The end of a task's sleep, whether the peer is reached or not: there was
\* no connection beside the task.
LEMMA RestedWasAlone ==
  ASSUME ShardInv, NEW s \in Shards, NEW p \in Peers(s), Rested(s, p)
  PROVE  /\ <<s, p>> \in Pairs /\ <<s, p>> \notin links
         /\ s \in running /\ p \notin todo[s]
         /\ pending' \in [Pairs -> Nat] /\ pending'[<<s, p>>] = 0
         /\ \A pair \in Pairs : pair # <<s, p>> => pending'[pair] = pending[pair]
<1>1. <<s, p>> \in Pairs /\ Tidy(<<s, p>>)
  BY PairOfPeers DEF ShardInv
<1>2. pending \in [Pairs -> Nat] /\ pending[<<s, p>>] \in Nat
  BY <1>1 DEF ShardInv, ShardTypeOK
<1>3. pending[<<s, p>>] = 1
  BY <1>1, <1>2 DEF Rested, Tidy
<1>4. <<s, p>> \notin links /\ s \in running /\ p \notin todo[s]
  BY <1>1, <1>3 DEF Tidy, Fresh
<1> QED
  BY <1>1, <1>2, <1>3, <1>4 DEF Rested

LEMMA ReconnectKeeps ==
  ASSUME ShardInv, NEW s \in Shards, NEW p \in Peers(s), Reconnect(s, p) \/ GiveUp(s, p)
  PROVE  ShardInv'
<1>1. /\ Rested(s, p) /\ UNCHANGED <<running, todo, tries, closing, agents, conn, sent, crashes>>
      /\ links \subseteq links' /\ links' \subseteq links \cup {<<s, p>>}
      /\ greetings' \subseteq greetings \cup {<<s, p>>}
  BY DEF Reconnect, GiveUp
<1>2. /\ <<s, p>> \in Pairs /\ <<s, p>> \notin links
      /\ s \in running /\ p \notin todo[s]
      /\ pending' \in [Pairs -> Nat] /\ pending'[<<s, p>>] = 0
      /\ \A pair \in Pairs : pair # <<s, p>> => pending'[pair] = pending[pair]
  BY <1>1, RestedWasAlone
<1>3. ShardTypeOK'
  BY <1>1, <1>2 DEF ShardInv, ShardTypeOK
<1>4. ASSUME NEW pair \in Pairs PROVE Tidy(pair)'
  <2>1. CASE pair = <<s, p>>
    BY <1>1, <1>2, <2>1 DEF Tidy
  <2>2. CASE pair # <<s, p>>
    BY <1>1, <1>2, <2>2 DEF ShardInv, Tidy, Fresh
  <2> QED
    BY <2>1, <2>2
<1> QED
  BY <1>1, <1>3, <1>4 DEF ShardInv

-----------------------------------------------------------------------------
(***************************************************************************)
(* The connections of the router, and the sweep.                           *)
(***************************************************************************)
\* An open connection of the router leads to a shard and has the name of an agent.
LEMMA OpenConnection ==
  ASSUME ShardTypeOK, NEW k \in Conns, conn[k] # Idle
  PROVE  conn[k] \in [shard : Shards, name : Agents]
  BY DEF ShardTypeOK

\* Steps that touch no link and no task.
LEMMA LinksUntouched ==
  ASSUME ShardInv, ShardTypeOK', UNCHANGED <<running, todo, links, pending>>
  PROVE  ShardInv'
  BY DEF ShardInv, Tidy, Fresh

\* Steps that gossip a message.
LEMMA MessageKeeps ==
  ASSUME ShardInv, NEW s, Gossip(s), UNCHANGED <<running, todo, tries, closing, greetings, crashes>>,
         agents' \in [Shards -> SUBSET Watched],
         conn' \in [Conns -> [shard : Shards, name : Agents] \cup {Idle}],
         sent' \in 0 .. MaxMessages
  PROVE  ShardInv'
<1>1. /\ links' \subseteq Pairs /\ closing' \subseteq links' /\ pending' \in [Pairs -> Nat]
      /\ \A pair \in Pairs : Tidy(pair)'
  BY GossipSwaps
<1>2. ShardTypeOK'
  BY <1>1 DEF ShardInv, ShardTypeOK
<1> QED
  BY <1>1, <1>2 DEF ShardInv

LEMMA RouterKeeps == ShardInv /\ Router => ShardInv'
<1> SUFFICES ASSUME ShardInv, Router PROVE ShardInv'
  OBVIOUS
<1>1. ShardTypeOK /\ Fed \subseteq Shards /\ MaxMessages \in Nat
  BY GossipAssumption DEF ShardInv
<1>2. ASSUME NEW k \in Conns, NEW n \in Agents, NEW s \in Fed, Open(k, s, n) PROVE ShardInv'
  <2>1. s \in Shards /\ agents' \in [Shards -> SUBSET Watched] /\ sent' \in 0 .. MaxMessages
    <3>1. s \in Shards
      BY <1>1
    <3>2. agents' \in [Shards -> SUBSET Watched]
      BY <1>1, <1>2, <3>1, NamesStay DEF Open
    <3>3. sent' \in 0 .. MaxMessages
      BY <1>1, <1>2 DEF Open, ShardTypeOK
    <3> QED
      BY <3>1, <3>2, <3>3
  <2>2. conn' \in [Conns -> [shard : Shards, name : Agents] \cup {Idle}]
    BY <1>1, <1>2, <2>1 DEF Open, ShardTypeOK
  <2> QED
    BY <1>2, <2>1, <2>2, MessageKeeps DEF Open
<1>3. ASSUME NEW k \in Conns, NEW n \in Agents, Message(k, n) PROVE ShardInv'
  <2>1. conn[k] \in [shard : Shards, name : Agents]
    BY <1>1, <1>3, OpenConnection DEF Message
  <2>2. [conn[k] EXCEPT !.name = n] \in [shard : Shards, name : Agents]
    BY <2>1
  <2>3. conn' = [conn EXCEPT ![k] = [conn[k] EXCEPT !.name = n]]
    BY <1>3 DEF Message
  <2>4. conn' \in [Conns -> [shard : Shards, name : Agents] \cup {Idle}]
    BY <1>1, <2>2, <2>3 DEF ShardTypeOK
  <2>5. agents' \in [Shards -> SUBSET Watched] /\ sent' \in 0 .. MaxMessages
    BY <1>1, <1>3 DEF Message, ShardTypeOK
  <2> QED
    BY <1>3, <2>4, <2>5, MessageKeeps DEF Message
<1>4. ASSUME NEW k \in Conns, Close(k) PROVE ShardInv'
  <2>1. conn[k].shard \in Shards
    BY <1>1, <1>4, OpenConnection DEF Close
  <2>2. agents' \in [Shards -> SUBSET Watched]
    BY <1>1, <1>4, <2>1, NamesStay DEF Close
  <2>3. UNCHANGED <<running, todo, tries, net, sent, crashes>>
    BY <1>4 DEF Close
  <2>4. conn' \in [Conns -> [shard : Shards, name : Agents] \cup {Idle}]
    BY <1>1, <1>4 DEF Close, ShardTypeOK
  <2>5. ShardTypeOK'
    BY <1>1, <2>2, <2>3, <2>4 DEF ShardTypeOK, net
  <2> QED
    BY <2>3, <2>5, LinksUntouched DEF net
<1>5. ASSUME NEW s \in Fed, NEW n \in Agents, Misroute(s, n) PROVE ShardInv'
  <2>1. agents' \in [Shards -> SUBSET Watched]
    BY <1>1, <1>5, NamesStay DEF Misroute
  <2>2. UNCHANGED <<running, todo, tries, net, conn, crashes>> /\ sent' \in 0 .. MaxMessages
    BY <1>1, <1>5 DEF Misroute, ShardTypeOK
  <2>3. ShardTypeOK'
    BY <1>1, <2>1, <2>2 DEF ShardTypeOK, net
  <2> QED
    BY <2>2, <2>3, LinksUntouched DEF net
<1> QED
  BY <1>2, <1>3, <1>4, <1>5 DEF Router

LEMMA ExpireKeeps ==
  ASSUME ShardInv, NEW s \in Shards, NEW n, Expire(s, n)
  PROVE  ShardInv'
<1>1. ShardTypeOK /\ agents' \in [Shards -> SUBSET Watched]
  BY NamesStay DEF Expire, ShardInv
<1>2. UNCHANGED <<running, todo, tries, net, conn, sent, crashes>>
  BY DEF Expire
<1>3. ShardTypeOK'
  BY <1>1, <1>2 DEF ShardTypeOK, net
<1> QED
  BY <1>2, <1>3, LinksUntouched DEF net

-----------------------------------------------------------------------------
\* A crash takes the shard's connections and tasks with it; those of the
\* others to it stay, closing if they were told.
LEMMA CrashKeeps ==
  ASSUME ShardInv, NEW s \in Shards, Crash(s)
  PROVE  ShardInv'
<1>1. PICK told \in SUBSET {pair \in links : pair[2] = s} :
        closing' = {pair \in closing : pair[1] # s} \cup told
  BY DEF Crash
<1>2. /\ running' = running \ {s} /\ todo' = [todo EXCEPT ![s] = {}]
      /\ links' = {pair \in links : pair[1] # s}
      /\ pending' = [pair \in Pairs |-> IF pair[1] = s THEN 0 ELSE pending[pair]]
      /\ greetings' \subseteq greetings
  BY DEF Crash
<1>3. links' \subseteq Pairs /\ closing' \subseteq links' /\ pending' \in [Pairs -> Nat]
  <2>1. \A pair \in told : pair \in links /\ pair[1] # s
    BY <1>1 DEF ShardInv, ShardTypeOK, Pairs
  <2> QED
    BY <1>1, <1>2, <2>1 DEF ShardInv, ShardTypeOK
<1>4. tries' \in [Shards -> 0 .. Attempts] /\ crashes' \in 0 .. MaxCrashes /\ sent' = sent
  BY GossipAssumption DEF Crash, ShardInv, ShardTypeOK
<1>5. /\ agents' \in [Shards -> SUBSET Watched]
      /\ conn' \in [Conns -> [shard : Shards, name : Agents] \cup {Idle}]
  BY DEF Crash, ShardInv, ShardTypeOK
<1>6. ShardTypeOK'
  BY <1>2, <1>3, <1>4, <1>5 DEF ShardInv, ShardTypeOK
<1>7. \A q \in Shards : q \notin todo'[q]
  BY <1>2 DEF ShardInv, ShardTypeOK
<1>8. ASSUME NEW pair \in Pairs PROVE Tidy(pair)'
  <2>1. CASE pair[1] = s
    BY <1>2, <2>1 DEF Tidy, Fresh
  <2>2. CASE pair[1] # s
    <3>1. todo'[pair[1]] = todo[pair[1]] /\ (pair[1] \in running' <=> pair[1] \in running)
      BY <1>2, <2>2, PairOfPeers DEF ShardInv, ShardTypeOK
    <3>2. (pair \in links' <=> pair \in links) /\ pending'[pair] = pending[pair]
      BY <1>2, <2>2
    <3> QED
      BY <3>1, <3>2 DEF ShardInv, Tidy, Fresh
  <2> QED
    BY <2>1, <2>2
<1> QED
  BY <1>6, <1>7, <1>8 DEF ShardInv

LEMMA ShardStepKeeps == ShardInv /\ [ShardNext]_shardVars => ShardInv'
<1> SUFFICES ASSUME ShardInv, [ShardNext]_shardVars PROVE ShardInv'
  OBVIOUS
<1>1. ASSUME NEW s \in Shards, Shard(s) PROVE ShardInv'
  <2>1. CASE Reach(s) \/ Refused(s)
    BY <2>1, ReachKeeps, RefusedKeeps
  <2>2. ASSUME NEW p \in Peers(s), Greet(p, s) \/ Reconnect(s, p) \/ GiveUp(s, p) PROVE ShardInv'
    <3>1. p \in Shards
      BY DEF Peers
    <3> QED
      BY <2>2, <3>1, GreetKeeps, ReconnectKeeps
  <2> QED
    BY <1>1, <2>1, <2>2 DEF Shard
<1>2. CASE UNCHANGED shardVars
  <2>1. ShardTypeOK'
    BY <1>2 DEF shardVars, net, ShardInv, ShardTypeOK
  <2> QED
    BY <1>2, <2>1, LinksUntouched DEF shardVars, net
<1> QED
  BY <1>1, <1>2, RouterKeeps, StartKeeps, CrashKeeps, ExpireKeeps DEF ShardNext

(***************************************************************************)
(* The inductive invariant holds in every state of the shards.             *)
(***************************************************************************)
THEOREM ShardInvariance == ShardSpec => []ShardInv
BY ShardInitHolds, ShardStepKeeps, PTL DEF ShardSpec

(***************************************************************************)
(* Type correctness, for any shards, agents, connections of the router and *)
(* bounds: a closing link is one that the shard still has.                 *)
(***************************************************************************)
THEOREM ShardTypesCorrect == ShardSpec => []ShardTypeOK
<1>1. ShardInv => ShardTypeOK
  BY DEF ShardInv
<1> QED
  BY ShardInvariance, <1>1, PTL

(***************************************************************************)
(* _reconnect_peer: however messages, crashes and sleeps interleave, a     *)
(* shard has at most one connection to a peer or task that will make it.   *)
(***************************************************************************)
THEOREM LinksAreSingle == ShardSpec => []OneLinkPerPeer
<1>1. ShardInv => OneLinkPerPeer
  <2> SUFFICES ASSUME ShardInv, NEW pair \in Pairs
               PROVE  pending[pair] + (IF pair \in links THEN 1 ELSE 0) <= 1
    BY DEF OneLinkPerPeer
  <2>1. pending[pair] \in Nat /\ Tidy(pair)
    BY DEF ShardInv, ShardTypeOK
  <2> QED
    BY <2>1 DEF Tidy
<1> QED
  BY ShardInvariance, <1>1, PTL
=============================================================================
