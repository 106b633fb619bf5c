----------------------------- MODULE FanoutProofs -----------------------------
(***************************************************************************)
(* Proofs about Fanout: its types, the order of the queue, that no target  *)
(* of a finished job was left out, and where an event may be sent.         *)
(***************************************************************************)
EXTENDS Fanout, FiniteSetTheorems, SequenceTheorems, TLAPS

\* What an agent prefers and what the cache says it does was preferred since the cache was cleared.
HeldCovers ==
  \A a \in Agents : prefs[a] \subseteq held[a] /\ (a \in DOMAIN cache => cache[a] \subseteq held[a])

IInv == TypeOK /\ QueueIsTail /\ EveryTargetOffered /\ RoutedByPreferences /\ HeldCovers

-----------------------------------------------------------------------------
(***************************************************************************)
(* The two ends at which a queue changes keep it a tail of the calls.      *)
(***************************************************************************)
LEMMA PopIsTail ==
  ASSUME NEW S, NEW q \in Seq(S), NEW o \in Seq(S), IsTailOf(q, o), q # <<>>
  PROVE  /\ Tail(q) \in Seq(S) /\ Len(Tail(q)) = Len(q) - 1
         /\ IsTailOf(Tail(q), o)
<1>1. /\ Tail(q) \in Seq(S) /\ Len(Tail(q)) = Len(q) - 1
      /\ \A i \in 1 .. Len(Tail(q)) : Tail(q)[i] = q[i + 1]
      /\ Len(q) \in Nat /\ Len(o) \in Nat /\ Len(q) <= Len(o)
  BY HeadTailProperties, LenProperties DEF IsTailOf
<1>2. ASSUME NEW i \in 1 .. Len(Tail(q))
      PROVE  Tail(q)[i] = o[Len(o) - Len(Tail(q)) + i]
  <2>1. i + 1 \in 1 .. Len(q) /\ Tail(q)[i] = q[i + 1]
    BY <1>1, <1>2
  <2>2. q[i + 1] = o[Len(o) - Len(q) + (i + 1)]
    BY <2>1 DEF IsTailOf
  <2>3. Len(o) - Len(q) + (i + 1) = Len(o) - Len(Tail(q)) + i
    BY <1>1
  <2> QED
    BY <2>1, <2>2, <2>3
<1>3. Len(Tail(q)) <= Len(o)
  BY <1>1
<1> QED
  BY <1>1, <1>2, <1>3 DEF IsTailOf

LEMMA PushIsTail ==
  ASSUME NEW S, NEW q \in Seq(S), NEW o \in Seq(S), NEW e \in S, IsTailOf(q, o)
  PROVE  /\ Append(q, e) \in Seq(S) /\ Len(Append(q, e)) = Len(q) + 1
         /\ Append(o, e) \in Seq(S)
         /\ IsTailOf(Append(q, e), Append(o, e))
<1> DEFINE p == Append(q, e)
           r == Append(o, e)
<1>1. Len(q) \in Nat /\ Len(o) \in Nat /\ Len(q) <= Len(o)
  BY LenProperties DEF IsTailOf
<1>2. /\ p \in Seq(S) /\ Len(p) = Len(q) + 1 /\ p[Len(q) + 1] = e
      /\ \A i \in 1 .. Len(q) : p[i] = q[i]
  BY AppendProperties
<1>3. /\ r \in Seq(S) /\ Len(r) = Len(o) + 1 /\ r[Len(o) + 1] = e
      /\ \A i \in 1 .. Len(o) : r[i] = o[i]
  BY AppendProperties
<1> HIDE DEF p, r
<1>4. ASSUME NEW i \in 1 .. Len(p)
      PROVE  p[i] = r[Len(r) - Len(p) + i]
  <2>1. Len(r) - Len(p) + i = Len(o) - Len(q) + i
    BY <1>1, <1>2, <1>3
  <2>2. CASE i = Len(q) + 1
    <3>1. Len(o) - Len(q) + i = Len(o) + 1
      BY <2>2, <1>1
    <3> QED
      BY <2>1, <2>2, <3>1, <1>2, <1>3
  <2>3. CASE i # Len(q) + 1
    <3>1. i \in 1 .. Len(q) /\ Len(o) - Len(q) + i \in 1 .. Len(o)
      BY <2>3, <1>1, <1>2
    <3>2. q[i] = o[Len(o) - Len(q) + i]
      BY <3>1 DEF IsTailOf
    <3> QED
      BY <2>1, <3>1, <3>2, <1>2, <1>3
  <2> QED
    BY <2>2, <2>3
<1>5. Len(p) <= Len(r)
  BY <1>1, <1>2, <1>3
<1>6. IsTailOf(p, r)
  BY <1>4, <1>5 DEF IsTailOf
<1> QED
  BY <1>2, <1>3, <1>6 DEF p, r

LEMMA PushKeepsTail ==
  ASSUME TypeOK, QueueIsTail, NEW e \in Events
  PROVE  /\ Push(e) \in Seq(Events) /\ Len(Push(e)) <= QueueMax
         /\ Append(order, e) \in Seq(Events)
         /\ IsTailOf(Push(e), Append(order, e))
<1>1. /\ queue \in Seq(Events) /\ order \in Seq(Events) /\ IsTailOf(queue, order)
      /\ Len(queue) \in Nat /\ Len(queue) <= QueueMax /\ QueueMax \in Nat \ {0}
  BY FanoutAssumption, LenProperties DEF TypeOK, QueueIsTail
<1>2. CASE Len(queue) < QueueMax
  BY <1>1, <1>2, PushIsTail DEF Push
<1>3. CASE ~(Len(queue) < QueueMax)
  <2>1. Len(queue) = QueueMax /\ Len(queue) # 0 /\ Push(e) = Append(Tail(queue), e)
    BY <1>1, <1>3 DEF Push
  <2>2. queue # <<>>
    BY <2>1, EmptySeq
  <2>3. /\ Tail(queue) \in Seq(Events) /\ Len(Tail(queue)) = Len(queue) - 1
        /\ IsTailOf(Tail(queue), order)
    BY <1>1, <2>2, PopIsTail
  <2>4. /\ Append(Tail(queue), e) \in Seq(Events)
        /\ Len(Append(Tail(queue), e)) = Len(Tail(queue)) + 1
        /\ Append(order, e) \in Seq(Events)
        /\ IsTailOf(Append(Tail(queue), e), Append(order, e))
    BY <1>1, <2>3, PushIsTail
  <2> QED
    BY <1>1, <2>1, <2>3, <2>4
<1> QED
  BY <1>2, <1>3

-----------------------------------------------------------------------------
(***************************************************************************)
(* What an agent is taken to want, and the relays an event is sent to.     *)
(***************************************************************************)
LEMMA WantedIsHeld ==
  ASSUME TypeOK, HeldCovers, NEW old \in BOOLEAN, NEW failing, NEW a \in Agents
  PROVE  /\ Wanted(Fresh(old), a, failing) \subseteq (IF old THEN prefs ELSE held)[a]
         /\ Wanted(Fresh(old), a, failing) \subseteq Relays
<1>1. /\ prefs[a] \subseteq held[a] /\ held[a] \subseteq Relays /\ prefs[a] \subseteq Relays
      /\ a \in DOMAIN cache => cache[a] \subseteq held[a]
  BY DEF TypeOK, HeldCovers
<1>2. CASE old
  <2>1. DOMAIN Fresh(old) = {}
    BY <1>2 DEF Fresh, Cleared
  <2> QED
    BY <1>1, <1>2, <2>1 DEF Wanted
<1>3. CASE ~old
  BY <1>1, <1>3 DEF Wanted, Fresh
<1> QED
  BY <1>2, <1>3

LEMMA TargetsAreLive ==
  ASSUME TypeOK, NEW e, NEW c, NEW failing
  PROVE  /\ Targets(e, c, failing) \subseteq GetAlive
         /\ Targets(e, c, failing) # GetAlive =>
              Targets(e, c, failing) \subseteq UNION {Wanted(c, a, failing) : a \in Mentions[e]}
         /\ GetAlive # {} => Targets(e, c, failing) # {}
<1> DEFINE wanted == UNION {Wanted(c, a, failing) : a \in Mentions[e]}
<1>1. Targets(e, c, failing) =
        IF wanted \cap GetAlive # {} THEN wanted \cap GetAlive ELSE GetAlive
  BY DEF Targets
<1> HIDE DEF wanted
<1>2. /\ Targets(e, c, failing) \subseteq GetAlive
      /\ Targets(e, c, failing) # GetAlive => Targets(e, c, failing) \subseteq wanted
      /\ GetAlive # {} => Targets(e, c, failing) # {}
  BY <1>1
<1> QED
  BY <1>2 DEF wanted

-----------------------------------------------------------------------------
(***************************************************************************)
(* The invariant, action by action.                                        *)
(***************************************************************************)
LEMMA InitHolds == Init => IInv
<1> SUFFICES ASSUME Init PROVE IInv
  OBVIOUS
<1>1. prefs \in [Agents -> SUBSET Relays] /\ held = prefs
  BY FanoutAssumption DEF Init
<1>2. /\ queue = <<>> /\ order = <<>> /\ <<>> \in Seq(Events) /\ Len(<<>>) = 0
  BY EmptySeq DEF Init
<1>3. TypeOK
  BY <1>1, <1>2, FanoutAssumption DEF TypeOK, Init, Idle, Jobs, Cleared, Resting, Scans
<1>4. QueueIsTail
  BY <1>2 DEF QueueIsTail, IsTailOf
<1>5. EveryTargetOffered /\ RoutedByPreferences
  BY DEF EveryTargetOffered, RoutedByPreferences, Init, Idle
<1>6. HeldCovers
  BY <1>1 DEF HeldCovers, Init, Cleared
<1> QED
  BY <1>3, <1>4, <1>5, <1>6 DEF IInv

LEMMA EnqueueHolds ==
  ASSUME IInv, NEW e \in Events, Enqueue(e)
  PROVE  IInv'
<1>1. /\ Push(e) \in Seq(Events) /\ Len(Push(e)) <= QueueMax
      /\ Append(order, e) \in Seq(Events)
      /\ IsTailOf(Push(e), Append(order, e))
  BY PushKeepsTail DEF IInv
<1>2. queue' = Push(e) /\ order' = Append(order, e)
  BY DEF Enqueue
<1>3. QueueIsTail'
  BY <1>1, <1>2 DEF QueueIsTail
<1>4. TypeOK'
  BY <1>1, <1>2 DEF IInv, TypeOK, Enqueue, scanVars
<1>5. EveryTargetOffered' /\ RoutedByPreferences' /\ HeldCovers'
  BY DEF IInv, EveryTargetOffered, RoutedByPreferences, HeldCovers, Enqueue
<1> QED
  BY <1>3, <1>4, <1>5 DEF IInv

LEMMA PopHolds ==
  ASSUME IInv, queue # <<>>
  PROVE  /\ Head(queue) \in Events
         /\ Tail(queue) \in Seq(Events) /\ Len(Tail(queue)) <= QueueMax
         /\ IsTailOf(Tail(queue), order)
<1>1. queue \in Seq(Events) /\ order \in Seq(Events) /\ IsTailOf(queue, order)
  BY DEF IInv, TypeOK, QueueIsTail
<1>2. Head(queue) \in Events /\ Len(queue) \in Nat
  BY <1>1, HeadTailProperties, LenProperties
<1>3. /\ Tail(queue) \in Seq(Events) /\ Len(Tail(queue)) = Len(queue) - 1
      /\ IsTailOf(Tail(queue), order)
  BY <1>1, PopIsTail
<1>4. Len(queue) <= QueueMax /\ QueueMax \in Nat
  BY FanoutAssumption DEF IInv, TypeOK
<1> QED
  BY <1>2, <1>3, <1>4

LEMMA LoseHolds ==
  ASSUME IInv, Lose
  PROVE  IInv'
<1>1. /\ Tail(queue) \in Seq(Events) /\ Len(Tail(queue)) <= QueueMax
      /\ IsTailOf(Tail(queue), order) /\ queue' = Tail(queue) /\ order' = order
  BY PopHolds DEF Lose
<1>2. QueueIsTail'
  BY <1>1 DEF QueueIsTail
<1>3. TypeOK'
  BY <1>1 DEF IInv, TypeOK, Lose, scanVars
<1>4. EveryTargetOffered' /\ RoutedByPreferences' /\ HeldCovers'
  BY DEF IInv, EveryTargetOffered, RoutedByPreferences, HeldCovers, Lose
<1> QED
  BY <1>2, <1>3, <1>4 DEF IInv

LEMMA TakeHolds ==
  ASSUME IInv, Take
  PROVE  IInv'
<1> DEFINE e == Head(queue)
<1>1. /\ Tail(queue) \in Seq(Events) /\ Len(Tail(queue)) <= QueueMax
      /\ IsTailOf(Tail(queue), order) /\ queue' = Tail(queue) /\ order' = order
      /\ e \in Events /\ GetAlive # {}
  BY PopHolds DEF Take
<1>2. PICK old \in Ages(e), failing \in SUBSET Mentions[e] :
        LET c == Fresh(old)
            t == Targets(e, c, failing)
        IN  /\ job' = [event |-> e, targets |-> t, smart |-> t # GetAlive, todo |-> t, offered |-> {}]
            /\ cache' = LookedUp(e, c, failing)
            /\ held' = IF old THEN prefs ELSE held
  BY DEF Take
<1> DEFINE c == Fresh(old)
           t == Targets(e, c, failing)
<1>3. /\ job' = [event |-> e, targets |-> t, smart |-> t # GetAlive, todo |-> t, offered |-> {}]
      /\ cache' = LookedUp(e, c, failing)
      /\ held' = IF old THEN prefs ELSE held
  BY <1>2
<1>4. old \in BOOLEAN /\ TypeOK /\ HeldCovers /\ Mentions[e] \subseteq Agents
  BY <1>1, FanoutAssumption DEF Ages, IInv
<1>5. \A a \in Agents : Wanted(c, a, failing) \subseteq held'[a] /\ Wanted(c, a, failing) \subseteq Relays
  BY <1>3, <1>4, WantedIsHeld
<1>6. /\ t \subseteq GetAlive /\ GetAlive \subseteq Relays /\ t # {}
      /\ t # GetAlive => t \subseteq UNION {Wanted(c, a, failing) : a \in Mentions[e]}
  BY <1>1, <1>4, TargetsAreLive DEF TypeOK, GetAlive
<1>7. /\ DOMAIN cache' = DOMAIN c \cup (Mentions[e] \ failing)
      /\ \A a \in DOMAIN cache' : cache'[a] = Wanted(c, a, failing)
  BY <1>3 DEF LookedUp
<1>8. DOMAIN c \subseteq Agents
  BY <1>4 DEF TypeOK, Fresh, Cleared
<1> HIDE DEF e, c, t
<1>9. QueueIsTail'
  BY <1>1 DEF QueueIsTail
<1>10. TypeOK'
  <2>1. job' \in Jobs
    BY <1>1, <1>3, <1>6 DEF Jobs
  <2>2. DOMAIN cache' \subseteq Agents /\ \A a \in DOMAIN cache' : cache'[a] \subseteq Relays
    BY <1>4, <1>5, <1>7, <1>8
  <2>3. held' \in [Agents -> SUBSET Relays] /\ prefs' = prefs
    BY <1>3, <1>4 DEF TypeOK, Take
  <2> QED
    BY <1>1, <1>4, <2>1, <2>2, <2>3 DEF TypeOK, Take, scanVars
<1>11. EveryTargetOffered'
  BY <1>3, <1>6 DEF IInv, EveryTargetOffered, Take
<1>12. RoutedByPreferences'
  <2>1. \A a \in Mentions[e] : Wanted(c, a, failing) \subseteq held'[a]
    BY <1>4, <1>5
  <2>2. UNION {Wanted(c, a, failing) : a \in Mentions[e]} \subseteq UNION {held'[a] : a \in Mentions[e]}
    BY <2>1
  <2>3. job'.smart => job'.targets \subseteq UNION {held'[a] : a \in Mentions[job'.event]}
    BY <1>3, <1>6, <2>2
  <2> QED
    BY <2>3 DEF RoutedByPreferences
<1>13. HeldCovers'
  <2>1. \A a \in Agents : prefs[a] \subseteq held'[a] /\ prefs' = prefs
    BY <1>3, <1>4 DEF HeldCovers, Take
  <2>2. \A a \in DOMAIN cache' : cache'[a] \subseteq held'[a]
    BY <1>4, <1>5, <1>7, <1>8
  <2> QED
    BY <2>1, <2>2 DEF HeldCovers
<1> QED
  BY <1>9, <1>10, <1>11, <1>12, <1>13 DEF IInv

LEMMA OfferHolds ==
  ASSUME IInv, Offer
  PROVE  IInv'
<1>1. job # Idle /\ job \in Jobs /\ missed = {} /\ job.todo # {} /\ job.todo = job.targets \ job.offered
  BY DEF IInv, TypeOK, EveryTargetOffered, Offer
<1>2. PICK batch \in Slices(job.todo, BatchSize) :
        LET all == job.offered \cup batch IN
        IF batch = job.todo
        THEN job' = Idle /\ missed' = missed \cup ({job.event} \X (job.targets \ all))
        ELSE job' = [job EXCEPT !.todo = @ \ batch, !.offered = all] /\ UNCHANGED missed
  BY DEF Offer
<1>3. batch \subseteq job.todo
  BY DEF Slices
<1>4. /\ missed' = {} /\ job' \in Jobs
      /\ job' # Idle => job'.todo # {} /\ job'.todo = job'.targets \ job'.offered
      /\ job'.smart => job.smart /\ job'.targets = job.targets /\ job'.event = job.event
  <2>1. CASE batch = job.todo
    <3>1. job.targets \ (job.offered \cup batch) = {}
      BY <1>1, <2>1
    <3>2. job' = Idle /\ missed' = {}
      BY <1>1, <1>2, <2>1, <3>1
    <3> QED
      BY <3>2 DEF Idle, Jobs
  <2>2. CASE batch # job.todo
    <3>1. /\ job' = [job EXCEPT !.todo = @ \ batch, !.offered = job.offered \cup batch]
          /\ missed' = missed
      BY <1>2, <2>2
    <3> QED
      BY <1>1, <1>3, <2>2, <3>1 DEF Jobs
  <2> QED
    BY <2>1, <2>2
<1>5. TypeOK'
  BY <1>4 DEF IInv, TypeOK, Offer, scanVars
<1>6. QueueIsTail' /\ HeldCovers'
  BY DEF IInv, QueueIsTail, HeldCovers, Offer
<1>7. EveryTargetOffered'
  BY <1>4 DEF EveryTargetOffered
<1>8. RoutedByPreferences'
  BY <1>4 DEF IInv, RoutedByPreferences, Offer
<1> QED
  BY <1>5, <1>6, <1>7, <1>8 DEF IInv

LEMMA ScanHolds ==
  ASSUME IInv, Scanner
  PROVE  IInv'
<1>1. TypeOK'
  <2>1. CASE BeginScan
    BY <2>1 DEF IInv, TypeOK, BeginScan, Scans, outVars
  <2>2. CASE CheckBatch
    <3>1. PICK batch \in Slices(scan.todo, ScanSize) : \E unsaved \in SUBSET batch :
             /\ failures + Cardinality(unsaved) <= Failures
             /\ failures' = failures + Cardinality(unsaved)
             /\ table' = (table \ (batch \ unsaved)) \cup ((batch \ unsaved) \cap up)
             /\ scan' = [scan EXCEPT !.todo = @ \ batch, !.found = @ \cup (batch \cap up)]
      BY <2>2 DEF CheckBatch
    <3>2. PICK unsaved \in SUBSET batch :
             /\ failures + Cardinality(unsaved) <= Failures
             /\ failures' = failures + Cardinality(unsaved)
             /\ table' = (table \ (batch \ unsaved)) \cup ((batch \ unsaved) \cap up)
             /\ scan' = [scan EXCEPT !.todo = @ \ batch, !.found = @ \cup (batch \cap up)]
      BY <3>1
    <3>3. scan \in Scans /\ batch \subseteq scan.todo /\ batch \subseteq Relays /\ up \subseteq Relays
      BY DEF Slices, IInv, TypeOK, Scans
    <3>4. Cardinality(unsaved) \in Nat
      BY <3>3, FanoutAssumption, FS_Subset, FS_CardinalityType
    <3>5. failures' \in 0 .. Failures
      BY <3>2, <3>4, FanoutAssumption DEF IInv, TypeOK
    <3>6. table' \subseteq Relays /\ scan' \in Scans
      BY <3>2, <3>3 DEF IInv, TypeOK, Scans
    <3> QED
      BY <2>2, <3>5, <3>6 DEF IInv, TypeOK, CheckBatch, outVars
  <2>3. CASE EndScan
    BY <2>3 DEF IInv, TypeOK, EndScan, Scans, Resting, outVars
  <2> QED
    BY <2>1, <2>2, <2>3 DEF Scanner
<1>2. UNCHANGED <<queue, job, cache, order, missed, prefs, held>>
  BY DEF Scanner, BeginScan, CheckBatch, EndScan, outVars
<1>3. QueueIsTail' /\ EveryTargetOffered' /\ RoutedByPreferences' /\ HeldCovers'
  BY <1>2 DEF IInv, QueueIsTail, EveryTargetOffered, RoutedByPreferences, HeldCovers
<1> QED
  BY <1>1, <1>3 DEF IInv

LEMMA PreferHolds ==
  ASSUME IInv, NEW a \in Agents, NEW w \in Wishes, Prefer(a, w)
  PROVE  IInv'
<1>1. /\ prefs \in [Agents -> SUBSET Relays] /\ held \in [Agents -> SUBSET Relays] /\ w \subseteq Relays
      /\ prefs' = [prefs EXCEPT ![a] = w]
      /\ held' = [held EXCEPT ![a] = held[a] \cup w]
  BY FanoutAssumption DEF IInv, TypeOK, Prefer
<1>2. /\ prefs' \in [Agents -> SUBSET Relays] /\ held' \in [Agents -> SUBSET Relays]
      /\ \A b \in Agents : held[b] \subseteq held'[b]
      /\ \A b \in Agents : prefs'[b] \subseteq held'[b] \/ prefs'[b] = prefs[b]
  BY <1>1
<1>3. /\ UNCHANGED <<outVars, scanVars, up, restarts>>
      /\ UNCHANGED <<queue, job, cache, order, missed>>
  BY DEF Prefer, outVars
<1>4. TypeOK'
  BY <1>2, <1>3 DEF IInv, TypeOK, scanVars
<1>5. QueueIsTail' /\ EveryTargetOffered'
  BY <1>3 DEF IInv, QueueIsTail, EveryTargetOffered
<1>6. RoutedByPreferences'
  <2> SUFFICES ASSUME job.smart
               PROVE  job.targets \subseteq UNION {held'[b] : b \in Mentions[job.event]}
    BY <1>3 DEF RoutedByPreferences
  <2>1. job.targets \subseteq UNION {held[b] : b \in Mentions[job.event]}
    BY DEF IInv, RoutedByPreferences
  <2>2. job.event \in Events
    BY DEF IInv, TypeOK, Jobs, Idle
  <2>3. Mentions[job.event] \subseteq Agents
    BY <2>2, FanoutAssumption
  <2> QED
    BY <2>1, <2>3, <1>2
<1>7. HeldCovers'
  BY <1>2, <1>3 DEF IInv, HeldCovers
<1> QED
  BY <1>4, <1>5, <1>6, <1>7 DEF IInv

LEMMA RestartHolds ==
  ASSUME IInv, Restart
  PROVE  IInv'
<1>1. /\ queue' = <<>> /\ job' = Idle /\ cache' = Cleared /\ held' = prefs /\ prefs' = prefs
      /\ order' = order /\ missed' = missed
  BY DEF Restart
<1>2. <<>> \in Seq(Events) /\ Len(<<>>) = 0 /\ Len(order) \in Nat
  BY LenProperties DEF IInv, TypeOK
<1>3. TypeOK'
  BY <1>1, <1>2, FanoutAssumption DEF IInv, TypeOK, Restart, Jobs, Cleared, Resting, Scans
<1>4. QueueIsTail'
  BY <1>1, <1>2 DEF QueueIsTail, IsTailOf
<1>5. EveryTargetOffered' /\ RoutedByPreferences'
  BY <1>1 DEF IInv, EveryTargetOffered, RoutedByPreferences, Idle
<1>6. HeldCovers'
  BY <1>1 DEF HeldCovers, Cleared
<1> QED
  BY <1>3, <1>4, <1>5, <1>6 DEF IInv

LEMMA OutsideHolds ==
  ASSUME IInv, (\E r \in Relays : Change(r)) \/ UNCHANGED vars
  PROVE  IInv'
<1>1. up' \subseteq Relays
  BY DEF IInv, TypeOK, Change, vars
<1>2. /\ UNCHANGED <<outVars, scanVars, prefs, restarts, held>>
      /\ UNCHANGED <<queue, job, cache, order, missed>>
  BY DEF Change, vars, outVars, scanVars
<1> QED
  BY <1>1, <1>2 DEF IInv, TypeOK, QueueIsTail, EveryTargetOffered, RoutedByPreferences, HeldCovers, scanVars

(***************************************************************************)
(* The invariant holds in every reachable state.                           *)
(***************************************************************************)
THEOREM Invariance == Spec => []IInv
<1>1. Init => IInv
  BY InitHolds
<1>2. IInv /\ [Next]_vars => IInv'
  <2> SUFFICES ASSUME IInv, [Next]_vars PROVE IInv'
    OBVIOUS
  <2>1. CASE \E e \in Events : Enqueue(e)
    BY <2>1, EnqueueHolds
  <2>2. CASE Worker
    BY <2>2, TakeHolds, LoseHolds, OfferHolds DEF Worker
  <2>3. CASE Scanner
    BY <2>3, ScanHolds
  <2>4. CASE \E a \in Agents, w \in Wishes : Prefer(a, w)
    BY <2>4, PreferHolds
  <2>5. CASE Restart
    BY <2>5, RestartHolds
  <2>6. CASE (\E r \in Relays : Change(r)) \/ UNCHANGED vars
    BY <2>6, OutsideHolds
  <2> QED
    BY <2>1, <2>2, <2>3, <2>4, <2>5, <2>6 DEF Next
<1> QED
  BY <1>1, <1>2, PTL DEF Spec

(***************************************************************************)
(* The types of the two tasks, with the bound of the queue.                *)
(***************************************************************************)
THEOREM TypeCorrect == Spec => []TypeOK
<1>1. IInv => TypeOK
  BY DEF IInv
<1> QED
  BY <1>1, Invariance, PTL

(***************************************************************************)
(* However long the queue, what waits in it is what was enqueued last, in  *)
(* that order: an event is never overtaken.                                *)
(***************************************************************************)
THEOREM KeepsOrder == Spec => []QueueIsTail
<1>1. IInv => QueueIsTail
  BY DEF IInv
<1> QED
  BY <1>1, Invariance, PTL

(***************************************************************************)
(* Whatever the size of the batches and whatever the scanner, the agents   *)
(* and the relays do between two of them, publishing ends only when every  *)
(* target has been offered the event.                                      *)
(***************************************************************************)
THEOREM OffersEveryTarget == Spec => []EveryTargetOffered
<1>1. IInv => EveryTargetOffered
  BY DEF IInv
<1> QED
  BY <1>1, Invariance, PTL

(***************************************************************************)
(* An event that is not sent to all live relays is sent to relays that an  *)
(* agent it mentions has preferred since the cache was cleared, and to no  *)
(* others.                                                                 *)
(***************************************************************************)
THEOREM Routes == Spec => []RoutedByPreferences
<1>1. IInv => RoutedByPreferences
  BY DEF IInv
<1> QED
  BY <1>1, Invariance, PTL
==============================================================================
