---------------------------- MODULE RoutingProofs ----------------------------
(***************************************************************************)
(* Proofs about the route engine, the content router and both together:    *)
(* the engine implements LossyLink, the router's window and its reconnects *)
(* are sound, and between the two no event vanishes.                       *)
(***************************************************************************)
EXTENDS Routing, SequenceTheorems, TLAPS

-----------------------------------------------------------------------------
(***************************************************************************)
(* The route engine: types.                                                *)
(***************************************************************************)
LEMMA InitTypes == Init => TypeOK
  BY DEF Init, TypeOK

LEMMA StepTypes == TypeOK /\ [Next]_vars => TypeOK'
<1> SUFFICES ASSUME TypeOK, [Next]_vars
             PROVE  TypeOK'
  OBVIOUS
<1> USE EngineAssumption DEF TypeOK
<1>1. ASSUME NEW e \in Events, Add(e)
      PROVE  TypeOK'
  <2>1. CASE AddDao(e)
    BY <2>1 DEF AddDao
  <2>2. CASE AddHeartbeat(e)
    BY <2>2 DEF AddHeartbeat, vars
  <2>3. CASE AddBatched(e)
    BY <2>3 DEF AddBatched
  <2> QED
    BY <1>1, <2>1, <2>2, <2>3 DEF Add
<1>2. CASE Posted
  BY <1>2 DEF Posted
<1>3. CASE PostFails
  BY <1>3 DEF PostFails
<1>4. CASE Flush
  BY <1>4 DEF Flush
<1>5. CASE FlushNowhere
  BY <1>5 DEF FlushNowhere
<1>6. CASE Sent
  BY <1>6 DEF Sent
<1>7. CASE SendFails
  BY <1>7 DEF SendFails
<1>8. CASE PingFails
  BY <1>8 DEF PingFails
<1>9. CASE Connected
  BY <1>9 DEF Connected
<1>10. CASE LinkDrops
  BY <1>10 DEF LinkDrops
<1>11. CASE MeshStops
  BY <1>11 DEF MeshStops
<1>12. CASE MeshStarts
  BY <1>12 DEF MeshStarts
<1>13. CASE Crash
  BY <1>13 DEF Crash, InHand
<1>14. CASE UNCHANGED vars
  BY <1>14 DEF vars
<1> QED
  BY <1>1, <1>2, <1>3, <1>4, <1>5, <1>6, <1>7, <1>8, <1>9, <1>10, <1>11, <1>12, <1>13, <1>14
  DEF Next, Reader, Tick, Faults

\* Type correctness: in particular no DAO event or heartbeat is ever collected for a flush.
THEOREM TypeCorrect == Spec => []TypeOK
<1>1. TypeOK /\ [Next]_vars => TypeOK'
  BY StepTypes
<1> QED
  BY InitTypes, <1>1, PTL DEF Spec

-----------------------------------------------------------------------------
(***************************************************************************)
(* The route engine: the refinement.                                       *)
(***************************************************************************)
LEMMA InitLink == Init => Link!Init
  BY DEF Init, Link!Init, InHand

\* What is being posted is neither collected nor in the message.
LEMMA PostedAlone ==
  ASSUME TypeOK
  PROVE  posting \notin batches \cup sending
  BY EngineAssumption DEF TypeOK

LEMMA AddTakes ==
  ASSUME TypeOK, NEW e \in Events, Add(e)
  PROVE  Link!Take(e) \/ UNCHANGED Link!vars
<1>1. CASE AddDao(e)
  <2>1. e # None
    BY EngineAssumption
  <2>2. InHand' = InHand \cup {e}
    BY <1>1, <2>1 DEF AddDao, InHand
  <2> QED
    BY <1>1, <2>2 DEF AddDao, Link!Take
<1>2. CASE AddHeartbeat(e)
  BY <1>2 DEF AddHeartbeat, vars, InHand, Link!vars
<1>3. CASE AddBatched(e)
  <2>1. InHand' = InHand \cup {e}
    BY <1>3 DEF AddBatched, InHand
  <2>2. CASE e \in sending
    BY <1>3, <2>1, <2>2 DEF AddBatched, InHand, Link!Take
  <2>3. CASE e \notin sending
    BY <1>3, <2>1, <2>3 DEF AddBatched, InHand, Link!Take
  <2> QED
    BY <2>2, <2>3
<1> QED
  BY <1>1, <1>2, <1>3 DEF Add

LEMMA ReaderSettles ==
  ASSUME TypeOK, Reader
  PROVE  \E es \in SUBSET Events : Link!Arrive(es) \/ Link!Lose(es)
<1>0. /\ posting # None /\ posting' = None /\ posting \notin batches \cup sending
      /\ UNCHANGED <<batches, sending>>
  BY PostedAlone DEF Reader, Posted, PostFails
<1>1. /\ posting \in Events /\ {posting} \in SUBSET Events
      /\ {posting} \subseteq InHand
      /\ InHand' = InHand \ ({posting} \ (batches \cap sending))
      /\ (batches \cap sending)' = (batches \cap sending) \ {posting}
  BY <1>0, EngineAssumption DEF TypeOK, InHand
<1>2. CASE Posted
  <2>1. Link!Arrive({posting})
    BY <1>1, <1>2 DEF Posted, Link!Arrive, Link!Settle
  <2> QED
    BY <1>1, <2>1
<1>3. CASE PostFails
  <2>1. Link!Lose({posting})
    BY <1>1, <1>3 DEF PostFails, Link!Lose, Link!Settle
  <2> QED
    BY <1>1, <2>1
<1> QED
  BY <1>2, <1>3 DEF Reader

LEMMA TickMoves ==
  ASSUME TypeOK, Tick
  PROVE  \/ \E es \in SUBSET Events : Link!Arrive(es) \/ Link!Lose(es) \/ Link!Doubt(es)
         \/ Link!Turn \/ UNCHANGED Link!vars
<1>1. CASE Flush
  BY <1>1 DEF Flush, InHand, Link!vars
<1>2. CASE FlushNowhere
  <2>1. /\ batches \in SUBSET Events /\ batches \subseteq InHand
        /\ InHand' = InHand \ (batches \ (batches \cap sending))
        /\ (batches \cap sending)' = (batches \cap sending) \ batches
    BY <1>2, PostedAlone DEF TypeOK, FlushNowhere, InHand
  <2>2. Link!Lose(batches)
    BY <1>2, <2>1 DEF FlushNowhere, Link!Lose, Link!Settle
  <2> QED
    BY <2>1, <2>2
<1>3. CASE Sent
  <2>1. /\ sending \in SUBSET Events /\ sending \subseteq InHand
        /\ InHand' = InHand \ (sending \ (batches \cap sending))
        /\ (batches \cap sending)' = (batches \cap sending) \ sending
    BY <1>3, PostedAlone DEF TypeOK, Sent, InHand
  <2>2. CASE link
    <3>1. Link!Arrive(sending)
      BY <1>3, <2>1, <2>2 DEF Sent, Link!Arrive, Link!Settle
    <3> QED
      BY <2>1, <3>1
  <2>3. CASE ~link
    <3>1. Link!Lose(sending)
      BY <1>3, <2>1, <2>3 DEF Sent, Link!Lose, Link!Settle
    <3> QED
      BY <2>1, <3>1
  <2> QED
    BY <2>2, <2>3
<1>4. CASE SendFails
  <2>1. /\ sending \in SUBSET Events /\ sending \subseteq InHand
        /\ InHand' = InHand
        /\ (batches \cap sending)' = (batches \cap sending) \ sending
    BY <1>4 DEF TypeOK, SendFails, InHand
  <2>2. Link!Doubt(sending)
    BY <1>4, <2>1 DEF SendFails, Link!Doubt
  <2> QED
    BY <2>1, <2>2
<1>5. CASE PingFails
  BY <1>5 DEF PingFails, InHand, Link!Turn
<1> QED
  BY <1>1, <1>2, <1>3, <1>4, <1>5 DEF Tick

LEMMA StepLink == TypeOK /\ TypeOK' /\ [Next]_vars => [Link!Next]_(Link!vars)
<1> SUFFICES ASSUME TypeOK, TypeOK', [Next]_vars
             PROVE  Link!Next \/ UNCHANGED Link!vars
  OBVIOUS
<1>1. ASSUME NEW e \in Events, Add(e)
      PROVE  Link!Next \/ UNCHANGED Link!vars
  BY <1>1, AddTakes DEF Link!Next
<1>2. CASE Reader
  BY <1>2, ReaderSettles DEF Link!Next
<1>3. CASE Tick
  BY <1>3, TickMoves DEF Link!Next
<1>4. CASE Connected \/ LinkDrops \/ MeshStops \/ MeshStarts
  <2>1. Link!Turn
    BY <1>4 DEF TypeOK, Connected, LinkDrops, MeshStops, MeshStarts, InHand, Link!Turn
  <2> QED
    BY <2>1 DEF Link!Next
<1>5. CASE Crash
  <2>1. InHand' = {} /\ (batches \cap sending)' = {}
    BY <1>5 DEF Crash, InHand
  <2>2. Link!Crash
    BY <1>5, <2>1 DEF Crash, Link!Crash
  <2> QED
    BY <2>2 DEF Link!Next
<1>6. CASE UNCHANGED vars
  BY <1>6 DEF vars, InHand, Link!vars
<1> QED
  BY <1>1, <1>2, <1>3, <1>4, <1>5, <1>6 DEF Next, Faults

\* The engine implements the lossy link: an event it took is in its hands until it
\* arrives, it is lost or sent twice only while the WebSocket or the mesh is down,
\* or by a crash, and this for any number of events taken in any order.
THEOREM ImplementsLink == Spec => LosesOnlyInOutages
<1>1. Init => Link!Init
  BY InitLink
<1>2. TypeOK /\ TypeOK' /\ [Next]_vars => [Link!Next]_(Link!vars)
  BY StepLink
<1> QED
  BY <1>1, <1>2, TypeCorrect, PTL DEF Spec, LosesOnlyInOutages, Link!Spec

-----------------------------------------------------------------------------
(***************************************************************************)
(* The content router: types.                                              *)
(***************************************************************************)
\* The part about the coroutines.
Hands ==
  /\ at \in [Clients -> CR!Points] /\ cur \in [Clients -> Events \cup {None}]
  /\ \A c \in Clients : at[c] = "reading" <=> cur[c] = None

\* The part about the window and what is remembered of events.
Window ==
  /\ queue \in Seq(Events) /\ seen \subseteq Events /\ bloom \subseteq Events
  /\ lost \subseteq Events

\* The part about the connection to the engine.
Line ==
  /\ writer \in {"none", "good", "broken"} /\ reconnecting \in BOOLEAN
  /\ delayed \in {"none", "waiting", "connecting"} /\ listening \in BOOLEAN
  /\ wire \in Seq(Events)

LEMMA RouterParts == CR!TypeOK <=> Hands /\ Window /\ Line
  BY DEF CR!TypeOK, Hands, Window, Line

LEMMA InitRouterTypes == CR!Init => CR!TypeOK
<1> SUFFICES ASSUME CR!Init
             PROVE  CR!TypeOK
  OBVIOUS
<1>1. Hands
  <2>1. "reading" \in CR!Points
    BY DEF CR!Points
  <2> QED
    BY <2>1 DEF CR!Init, Hands
<1>2. Window
  BY DEF CR!Init, Window
<1>3. Line
  <2>1. reconnecting \in BOOLEAN /\ listening \in BOOLEAN
    BY Zenon DEF CR!Init
  <2> QED
    BY <2>1 DEF CR!Init, Line
<1> QED
  BY <1>1, <1>2, <1>3, RouterParts

\* The event of a coroutine that works on one.
LEMMA HandsFull ==
  ASSUME Hands, NEW c \in Clients, at[c] # "reading"
  PROVE  cur[c] \in Events
  BY DEF Hands

LEMMA DropKeepsHands ==
  ASSUME Hands, NEW c \in Clients, CR!Drop(c)
  PROVE  Hands'
<1>1. "reading" \in CR!Points
  BY DEF CR!Points
<1> QED
  BY <1>1 DEF Hands, CR!Drop

LEMMA GoKeepsHands ==
  ASSUME Hands, NEW c \in Clients, NEW p \in CR!Points \ {"reading"},
         at[c] # "reading", CR!Go(c, p), UNCHANGED cur
  PROVE  Hands'
  BY DEF Hands, CR!Go

LEMMA TakeKeepsHands ==
  ASSUME Hands, NEW c \in Clients, NEW e \in Events, NEW p \in CR!Points \ {"reading"},
         CR!Go(c, p), cur' = [cur EXCEPT ![c] = e]
  PROVE  Hands'
<1>1. e # None
  BY EngineAssumption
<1> QED
  BY <1>1 DEF Hands, CR!Go

\* Dropping the oldest quarter leaves a sequence of events.
LEMMA KeptType ==
  ASSUME queue \in Seq(Events)
  PROVE  CR!Kept \in Seq(Events)
<1>1. CASE Len(queue) >= MaxEvents
  <2>1. /\ Quarter + 1 \in 1 .. (Len(queue) + 1) /\ Len(queue) \in Nat
        /\ \A i \in (Quarter + 1) .. Len(queue) : queue[i] \in Events
    BY <1>1, RouterAssumption
  <2>2. SubSeq(queue, Quarter + 1, Len(queue)) \in Seq(Events)
    BY <2>1, RouterAssumption
  <2> QED
    BY <1>1, <2>2 DEF CR!Kept
<1>2. CASE ~(Len(queue) >= MaxEvents)
  BY <1>2 DEF CR!Kept
<1> QED
  BY <1>1, <1>2

LEMMA OverflowKeepsWindow ==
  ASSUME Window, NEW e \in Events,
         \/ CR!Add(e)
         \/ queue' = CR!Kept /\ seen' = CR!KeptSet
  PROVE  queue' \in Seq(Events) /\ seen' \subseteq Events
<1>1. CR!Kept \in Seq(Events) /\ Append(CR!Kept, e) \in Seq(Events)
  BY KeptType DEF Window
<1>2. CR!KeptSet \subseteq Events
  BY DEF Window, CR!KeptSet
<1> QED
  BY <1>1, <1>2 DEF CR!Add

\* Reading from the client.
LEMMA IntakeTypes ==
  ASSUME Hands, Window, Line, NEW c \in Clients, NEW e \in Events,
         CR!Refuse(c, e) \/ CR!Receive(c, e)
  PROVE  Hands' /\ Window' /\ Line'
<1>1. CASE CR!Refuse(c, e)
  <2>1. Hands' /\ Line'
    BY <1>1 DEF CR!Refuse, CR!line, Hands, Line
  <2>2. Window'
    BY <1>1, OverflowKeepsWindow DEF CR!Refuse, Window
  <2> QED
    BY <2>1, <2>2
<1>2. CASE CR!Receive(c, e)
  <2>1. PICK p \in {"deciding", "forwarding"} :
          CR!Go(c, p) /\ bloom' \subseteq bloom \cup {e}
    BY <1>2 DEF CR!Receive
  <2>2. p \in CR!Points \ {"reading"}
    BY DEF CR!Points
  <2>3. Hands'
    BY <1>2, <2>1, <2>2, TakeKeepsHands DEF CR!Receive
  <2>4. Window'
    BY <1>2, <2>1, OverflowKeepsWindow DEF CR!Receive, Window
  <2>5. Line'
    BY <1>2 DEF CR!Receive, CR!line, Line
  <2> QED
    BY <2>3, <2>4, <2>5
<1> QED
  BY <1>1, <1>2

\* Deciding: Bloom filter and Redis.
LEMMA DecideTypes ==
  ASSUME Hands, Window, Line, NEW c \in Clients,
         CR!LetThrough(c) \/ CR!RefuseByKey(c) \/ CR!GetFails(c)
  PROVE  Hands' /\ Window' /\ Line'
<1>1. at[c] = "deciding" /\ at[c] # "reading"
  BY DEF CR!LetThrough, CR!RefuseByKey, CR!GetFails
<1>2. cur[c] \in Events
  BY <1>1, HandsFull
<1>3. CASE CR!LetThrough(c)
  <2>1. "forwarding" \in CR!Points \ {"reading"}
    BY DEF CR!Points
  <2>2. Hands'
    BY <1>1, <1>3, <2>1, GoKeepsHands DEF CR!LetThrough
  <2> QED
    BY <1>2, <1>3, <2>2 DEF CR!LetThrough, CR!line, Window, Line
<1>4. CASE CR!RefuseByKey(c) \/ CR!GetFails(c)
  <2>1. Hands'
    BY <1>4, DropKeepsHands DEF CR!RefuseByKey, CR!GetFails
  <2> QED
    BY <1>2, <1>4, <2>1 DEF CR!RefuseByKey, CR!GetFails, CR!window, CR!line, Window, Line
<1> QED
  BY <1>3, <1>4

\* Forwarding: the line is written, or is not.
LEMMA ForwardTypes ==
  ASSUME Hands, Window, Line, NEW c \in Clients,
         \/ CR!Write(c) \/ CR!WriteFails(c) \/ CR!GiveUp(c)
         \/ CR!Reconnected(c) \/ CR!NotReconnected(c)
  PROVE  Hands' /\ Window' /\ Line'
<1> USE DEF CR!Write, CR!WriteFails, CR!GiveUp, CR!Reconnected, CR!NotReconnected
<1>1. at[c] # "reading" /\ CR!Drop(c)
  OBVIOUS
<1>2. cur[c] \in Events
  BY <1>1, HandsFull
<1>3. Hands'
  BY <1>1, DropKeepsHands
<1>4. Window'
  BY <1>2 DEF Window, CR!window
<1>5. Append(wire, cur[c]) \in Seq(Events)
  BY <1>2 DEF Line
<1>6. wire' \in {wire, Append(wire, cur[c])}
  BY DEF CR!line
<1>7. Line'
  BY <1>5, <1>6 DEF Line, CR!line
<1> QED
  BY <1>3, <1>4, <1>7

LEMMA ConnectTypes ==
  ASSUME Hands, Window, Line, NEW c \in Clients, CR!Connect(c)
  PROVE  Hands' /\ Window' /\ Line'
<1>1. "connecting" \in CR!Points \ {"reading"}
  BY DEF CR!Points
<1>2. Hands'
  BY <1>1, GoKeepsHands DEF CR!Connect
<1> QED
  BY <1>2 DEF CR!Connect, CR!window, Window, Line

\* What happens beside the coroutines.
LEMMA LineTypes ==
  ASSUME Hands, Window, Line,
         \/ CR!ReconnectStarts \/ CR!ReconnectEnds \/ CR!EngineStops \/ CR!EngineStarts
         \/ CR!HangUp \/ \E e \in Events : CR!Read(e)
  PROVE  Hands' /\ Window' /\ Line'
<1> USE DEF CR!ReconnectStarts, CR!ReconnectEnds, CR!EngineStops, CR!EngineStarts,
            CR!HangUp, CR!Read
<1>1. Hands'
  BY DEF Hands
<1>2. CR!ToSet(wire) \subseteq Events
  BY DEF Line, CR!ToSet
<1>3. Window'
  BY <1>2 DEF Window, CR!window
<1>4. Line'
  <2>1. wire # <<>> => Tail(wire) \in Seq(Events)
    BY DEF Line
  <2>2. wire' \in Seq(Events)
    <3>1. wire' = wire \/ wire' = <<>> \/ (wire # <<>> /\ wire' = Tail(wire))
      BY Zenon
    <3>2. <<>> \in Seq(Events)
      BY EmptySeq
    <3> QED
      BY <2>1, <3>1, <3>2 DEF Line
  <2>3. reconnecting' \in BOOLEAN /\ listening' \in BOOLEAN
    BY Zenon DEF Line
  <2>4. writer' \in {"none", "good", "broken"} /\ delayed' \in {"none", "waiting", "connecting"}
    BY DEF Line
  <2> QED
    BY <2>2, <2>3, <2>4 DEF Line
<1> QED
  BY <1>1, <1>3, <1>4

LEMMA ExpireTypes ==
  ASSUME Hands, Window, Line, CR!Expire
  PROVE  Hands' /\ Window' /\ Line'
  BY DEF CR!Expire, CR!line, Hands, Window, Line

LEMMA StepRouterTypes == CR!TypeOK /\ [CR!Next]_(CR!vars) => CR!TypeOK'
<1> SUFFICES ASSUME Hands, Window, Line, CR!Next \/ UNCHANGED CR!vars
             PROVE  Hands' /\ Window' /\ Line'
  BY RouterParts DEF CR!TypeOK, Hands, Window, Line
<1>1. ASSUME NEW c \in Clients, CR!Serve(c)
      PROVE  Hands' /\ Window' /\ Line'
  BY <1>1, IntakeTypes, DecideTypes, ForwardTypes, ConnectTypes DEF CR!Serve, CR!Work
<1>2. CASE UNCHANGED CR!vars
  BY <1>2 DEF CR!vars, CR!window, CR!line, Hands, Window, Line
<1> QED
  BY <1>1, <1>2, LineTypes, ExpireTypes DEF CR!Next, CR!Reconnect

-----------------------------------------------------------------------------
(***************************************************************************)
(* The content router: the window.  First what its operations on the queue *)
(* do to the set of its ids.                                               *)
(***************************************************************************)
Distinct(s) == \A i, j \in DOMAIN s : s[i] = s[j] => i = j

LEMMA SetOfSeq ==
  ASSUME NEW S, NEW s \in Seq(S)
  PROVE  CR!ToSet(s) = {s[i] : i \in 1 .. Len(s)} /\ CR!ToSet(s) \subseteq S
  BY DEF CR!ToSet

LEMMA SetOfAppend ==
  ASSUME NEW S, NEW s \in Seq(S), NEW e \in S
  PROVE  CR!ToSet(Append(s, e)) = CR!ToSet(s) \cup {e}
<1> DEFINE t == Append(s, e)
<1>1. /\ t \in Seq(S) /\ Len(t) = Len(s) + 1 /\ t[Len(s) + 1] = e
      /\ \A i \in 1 .. Len(s) : t[i] = s[i]
  BY AppendProperties
<1>2. Len(s) \in Nat /\ 1 .. (Len(s) + 1) = (1 .. Len(s)) \cup {Len(s) + 1}
  OBVIOUS
<1>3. CR!ToSet(t) = {t[i] : i \in (1 .. Len(s)) \cup {Len(s) + 1}}
  BY <1>1, <1>2, SetOfSeq
<1>4. CR!ToSet(s) = {s[i] : i \in 1 .. Len(s)}
  BY SetOfSeq
<1> QED
  BY <1>1, <1>3, <1>4, Zenon

LEMMA SetOfTail ==
  ASSUME NEW S, NEW s \in Seq(S), s # <<>>
  PROVE  CR!ToSet(s) = {Head(s)} \cup CR!ToSet(Tail(s))
<1>1. /\ Tail(s) \in Seq(S) /\ Len(Tail(s)) = Len(s) - 1 /\ Head(s) = s[1]
      /\ \A i \in 1 .. Len(Tail(s)) : Tail(s)[i] = s[i + 1]
  BY HeadTailProperties
<1>2. CR!ToSet(s) = {s[i] : i \in 1 .. Len(s)}
  BY SetOfSeq
<1>3. CR!ToSet(Tail(s)) = {Tail(s)[i] : i \in 1 .. Len(Tail(s))}
  BY <1>1, SetOfSeq
<1>4. Len(s) \in Nat \ {0}
  BY EmptySeq
<1>5. ASSUME NEW i \in 1 .. Len(s)
      PROVE  s[i] \in {Head(s)} \cup CR!ToSet(Tail(s))
  <2>1. CASE i = 1
    BY <1>1, <2>1
  <2>2. CASE i # 1
    <3>1. i - 1 \in 1 .. Len(Tail(s)) /\ Tail(s)[i - 1] = s[i]
      BY <1>1, <1>4, <2>2
    <3> QED
      BY <1>3, <3>1
  <2> QED
    BY <2>1, <2>2
<1>6. ASSUME NEW i \in 1 .. Len(Tail(s))
      PROVE  Tail(s)[i] \in CR!ToSet(s)
  <2>1. i + 1 \in 1 .. Len(s) /\ Tail(s)[i] = s[i + 1]
    BY <1>1, <1>4
  <2> QED
    BY <1>2, <2>1
<1>7. Head(s) \in CR!ToSet(s)
  BY <1>1, <1>2, <1>4
<1> QED
  BY <1>2, <1>3, <1>5, <1>6, <1>7

LEMMA DistinctAppend ==
  ASSUME NEW S, NEW s \in Seq(S), NEW e \in S, Distinct(s), e \notin CR!ToSet(s)
  PROVE  Distinct(Append(s, e))
<1> DEFINE t == Append(s, e)
<1>1. /\ t \in Seq(S) /\ Len(t) = Len(s) + 1 /\ t[Len(s) + 1] = e
      /\ \A i \in 1 .. Len(s) : t[i] = s[i]
  BY AppendProperties
<1>2. \A i \in 1 .. Len(s) : s[i] # e
  BY SetOfSeq
<1>3. ASSUME NEW i \in 1 .. (Len(s) + 1), NEW j \in 1 .. (Len(s) + 1), t[i] = t[j]
      PROVE  i = j
  <2>1. CASE i \in 1 .. Len(s) /\ j \in 1 .. Len(s)
    BY <1>1, <1>3, <2>1 DEF Distinct
  <2>2. CASE i = Len(s) + 1 \/ j = Len(s) + 1
    BY <1>1, <1>2, <1>3, <2>2
  <2> QED
    BY <2>1, <2>2
<1>4. DOMAIN t = 1 .. (Len(s) + 1)
  BY <1>1
<1> HIDE DEF t
<1>5. Distinct(t)
  BY <1>3, <1>4 DEF Distinct
<1> QED
  BY <1>5 DEF t

LEMMA DistinctTail ==
  ASSUME NEW S, NEW s \in Seq(S), s # <<>>, Distinct(s)
  PROVE  Distinct(Tail(s)) /\ CR!ToSet(Tail(s)) = CR!ToSet(s) \ {Head(s)}
<1>1. /\ Tail(s) \in Seq(S) /\ Len(Tail(s)) = Len(s) - 1 /\ Head(s) = s[1]
      /\ \A i \in 1 .. Len(Tail(s)) : Tail(s)[i] = s[i + 1]
      /\ Len(s) \in Nat \ {0}
  BY HeadTailProperties, EmptySeq
<1>2. Distinct(Tail(s))
  BY <1>1 DEF Distinct
<1>3. ASSUME NEW i \in 1 .. Len(Tail(s))
      PROVE  Tail(s)[i] # Head(s)
  BY <1>1 DEF Distinct
<1>4. Head(s) \notin CR!ToSet(Tail(s))
  <2>1. CR!ToSet(Tail(s)) = {Tail(s)[i] : i \in 1 .. Len(Tail(s))}
    BY <1>1, SetOfSeq
  <2> QED
    BY <1>3, <2>1, Zenon
<1> QED
  BY <1>2, <1>4, SetOfTail

\* An overflow drops ids, oldest first, and makes room for one.
LEMMA KeptProperties ==
  ASSUME queue \in Seq(Events), Len(queue) <= MaxEvents, Distinct(queue)
  PROVE  /\ CR!Kept \in Seq(Events) /\ Len(CR!Kept) + 1 <= MaxEvents
         /\ Distinct(CR!Kept) /\ CR!ToSet(CR!Kept) \subseteq CR!ToSet(queue)
<1>1. CR!Kept \in Seq(Events)
  BY KeptType
<1>2. CASE ~(Len(queue) >= MaxEvents)
  BY <1>1, <1>2, RouterAssumption DEF CR!Kept
<1>3. CASE Len(queue) >= MaxEvents
  <2> DEFINE k == SubSeq(queue, Quarter + 1, Len(queue))
  <2>1. /\ Len(queue) = MaxEvents /\ MaxEvents \in Nat
        /\ Quarter \in Nat /\ 1 <= Quarter /\ Quarter <= MaxEvents
    BY <1>3, RouterAssumption
  <2>2. CR!Kept = k
    BY <1>3 DEF CR!Kept
  <2>3. \A i \in (Quarter + 1) .. Len(queue) : queue[i] \in Events
    BY <2>1
  <2>4. /\ Len(k) = IF Quarter + 1 <= Len(queue) THEN Len(queue) - Quarter ELSE 0
        /\ \A i \in 1 .. (Len(queue) - Quarter) : k[i] = queue[Quarter + i]
    BY <2>1, <2>3, SubSeqProperties
  <2>5. Len(k) = MaxEvents - Quarter
    BY <2>1, <2>4
  <2>6. DOMAIN k = 1 .. (MaxEvents - Quarter) /\ DOMAIN queue = 1 .. MaxEvents
    BY <1>1, <2>1, <2>2, <2>5
  <2>7. \A i \in DOMAIN k : Quarter + i \in DOMAIN queue /\ k[i] = queue[Quarter + i]
    BY <2>1, <2>4, <2>6
  <2> HIDE DEF k
  <2>8. Distinct(k)
    <3> SUFFICES ASSUME NEW i \in DOMAIN k, NEW j \in DOMAIN k, k[i] = k[j]
                 PROVE  i = j
      BY DEF Distinct
    <3>1. Quarter + i = Quarter + j
      BY <2>7 DEF Distinct
    <3> QED
      BY <2>1, <2>6, <3>1
  <2>9. CR!ToSet(k) \subseteq CR!ToSet(queue)
    BY <2>7 DEF CR!ToSet
  <2> QED
    BY <1>1, <2>1, <2>2, <2>5, <2>8, <2>9
<1> QED
  BY <1>2, <1>3

-----------------------------------------------------------------------------
(***************************************************************************)
(* The content router: the window and the reconnects.                      *)
(***************************************************************************)
\* The events the router answers for: let through, lost, or being decided on.
Remembered == bloom \cup lost \cup {cur[c] : c \in Clients}

\* What a coroutine forwards was let through.
Passed == \A c \in Clients : at[c] \in {"forwarding", "connecting"} => cur[c] \in bloom

InStep == seen = CR!ToSet(queue) /\ Len(queue) <= MaxEvents /\ Distinct(queue)

LEMMA SoundParts == DedupSound <=> InStep /\ seen \subseteq Remembered
  BY DEF DedupSound, CR!DedupSound, InStep, Distinct, Remembered

RouterInv == CR!TypeOK /\ Passed /\ DedupSound /\ OneReconnect

LEMMA InitRouter == CR!Init => RouterInv
<1> SUFFICES ASSUME CR!Init
             PROVE  RouterInv
  OBVIOUS
<1>1. Passed
  BY DEF CR!Init, Passed
<1>2. queue = <<>> /\ seen = {}
  BY DEF CR!Init
<1>3. DOMAIN queue = {} /\ Len(queue) = 0
  BY <1>2
<1>4. InStep
  BY <1>2, <1>3, RouterAssumption DEF InStep, Distinct, CR!ToSet
<1>5. OneReconnect
  <2>1. \A c \in Clients : ~CR!Connecting(c)
    BY DEF CR!Init, CR!Connecting
  <2> QED
    BY <2>1 DEF CR!Init, OneReconnect, CR!OneReconnect
<1> QED
  BY <1>1, <1>2, <1>4, <1>5, InitRouterTypes, SoundParts DEF RouterInv

\* The three ways a step treats the queue and the set.
LEMMA KeptInStep ==
  ASSUME queue \in Seq(Events), InStep
  PROVE  CR!KeptSet = CR!ToSet(CR!Kept)
  BY KeptProperties DEF InStep, CR!KeptSet

LEMMA OverflowInStep ==
  ASSUME Window, InStep, queue' = CR!Kept, seen' = CR!KeptSet
  PROVE  InStep' /\ seen' \subseteq seen
<1>1. queue \in Seq(Events)
  BY DEF Window
<1>2. Len(CR!Kept) <= MaxEvents
  BY <1>1, KeptProperties, RouterAssumption DEF InStep
<1> QED
  BY <1>1, <1>2, KeptInStep, KeptProperties DEF InStep, CR!KeptSet, Distinct

LEMMA AddInStep ==
  ASSUME Window, InStep, NEW e \in Events, ~CR!Known(e), CR!Add(e)
  PROVE  InStep' /\ seen' \subseteq seen \cup {e}
<1>1. /\ queue \in Seq(Events) /\ queue' = Append(CR!Kept, e)
      /\ seen' = CR!KeptSet \cup {e} /\ CR!KeptSet \subseteq seen
  BY DEF Window, CR!Add, CR!KeptSet
<1>2. /\ CR!Kept \in Seq(Events) /\ Len(CR!Kept) + 1 <= MaxEvents
      /\ Distinct(CR!Kept) /\ CR!KeptSet = CR!ToSet(CR!Kept)
  BY <1>1, KeptProperties, KeptInStep DEF InStep
<1>3. e \notin CR!ToSet(CR!Kept)
  BY <1>2 DEF CR!Known
<1>4. Distinct(queue')
  BY <1>1, <1>2, <1>3, DistinctAppend
<1>5. seen' = CR!ToSet(queue')
  BY <1>1, <1>2, SetOfAppend
<1>6. Len(queue') <= MaxEvents
  BY <1>1, <1>2, AppendProperties
<1> QED
  BY <1>1, <1>4, <1>5, <1>6 DEF InStep, Distinct, CR!ToSet

LEMMA ExpireInStep ==
  ASSUME Window, InStep, CR!Expire
  PROVE  InStep' /\ seen' \subseteq seen
<1>1. /\ queue \in Seq(Events) /\ queue # <<>> /\ queue' = Tail(queue)
      /\ seen' = seen \ {Head(queue)}
  BY DEF Window, CR!Expire
<1>2. Distinct(queue') /\ seen' = CR!ToSet(queue')
  BY <1>1, DistinctTail DEF InStep
<1>3. Len(queue') <= MaxEvents
  BY <1>1, HeadTailProperties, RouterAssumption DEF InStep
<1> QED
  BY <1>1, <1>2, <1>3 DEF InStep, Distinct, CR!ToSet

LEMMA SameQueueInStep ==
  ASSUME InStep, UNCHANGED <<queue, seen>>
  PROVE  InStep'
  BY DEF InStep, Distinct, CR!ToSet

\* A coroutine that is done with its event leaves it remembered.
LEMMA DropRemembers ==
  ASSUME Hands, Window, seen \subseteq Remembered, seen' \subseteq seen,
         NEW c \in Clients, CR!Drop(c), cur[c] \in bloom' \cup lost',
         bloom \subseteq bloom', lost \subseteq lost'
  PROVE  seen' \subseteq Remembered'
<1>1. \A d \in Clients : d # c => cur'[d] = cur[d]
  BY DEF CR!Drop, Hands
<1> QED
  BY <1>1 DEF Remembered

LEMMA SameHandsRemember ==
  ASSUME seen \subseteq Remembered, seen' \subseteq seen, UNCHANGED cur,
         bloom \subseteq bloom', lost \subseteq lost'
  PROVE  seen' \subseteq Remembered'
  BY DEF Remembered

LEMMA TakeRemembers ==
  ASSUME Hands, Window, seen \subseteq Remembered, NEW c \in Clients, NEW e \in Events,
         at[c] = "reading", cur' = [cur EXCEPT ![c] = e],
         seen' \subseteq seen \cup {e}, bloom \subseteq bloom', lost \subseteq lost'
  PROVE  seen' \subseteq Remembered'
<1>1. /\ cur[c] \notin Events /\ cur'[c] = e
      /\ \A d \in Clients : d # c => cur'[d] = cur[d]
  BY EngineAssumption DEF Hands
<1> QED
  BY <1>1 DEF Remembered, Window

\* And what it goes on with is in the filter.
LEMMA DropKeepsPassed ==
  ASSUME Hands, Passed, NEW c \in Clients, CR!Drop(c), bloom \subseteq bloom'
  PROVE  Passed'
  BY DEF Hands, Passed, CR!Drop

LEMMA GoKeepsPassed ==
  ASSUME Hands, Passed, NEW c \in Clients, NEW p, CR!Go(c, p), bloom \subseteq bloom',
         \A d \in Clients : d # c => cur'[d] = cur[d],
         p \in {"forwarding", "connecting"} => cur'[c] \in bloom'
  PROVE  Passed'
  BY DEF Hands, Passed, CR!Go

\* What the steps below have to show; the types are done.
WindowSound == Passed /\ InStep /\ seen \subseteq Remembered

LEMMA IntakeSound ==
  ASSUME Hands, Window, WindowSound, NEW c \in Clients, NEW e \in Events,
         CR!Refuse(c, e) \/ CR!Receive(c, e)
  PROVE  WindowSound'
<1>1. CASE CR!Refuse(c, e)
  <2>1. InStep' /\ seen' \subseteq seen
    BY <1>1, OverflowInStep DEF CR!Refuse, WindowSound
  <2>2. UNCHANGED <<at, cur, bloom, lost>>
    BY <1>1 DEF CR!Refuse
  <2>3. Passed'
    BY <2>2 DEF WindowSound, Passed
  <2>4. seen' \subseteq Remembered'
    BY <2>1, <2>2 DEF WindowSound, Remembered
  <2> QED
    BY <2>1, <2>3, <2>4 DEF WindowSound
<1>2. CASE CR!Receive(c, e)
  <2>1. InStep' /\ seen' \subseteq seen \cup {e}
    BY <1>2, AddInStep DEF CR!Receive, WindowSound
  <2>2. /\ at[c] = "reading" /\ cur' = [cur EXCEPT ![c] = e] /\ lost' = lost
        /\ bloom \subseteq bloom'
    BY <1>2 DEF CR!Receive, CR!line
  <2>3. seen' \subseteq Remembered'
    BY <2>1, <2>2, TakeRemembers DEF WindowSound
  <2>4. cur'[c] = e /\ \A d \in Clients : d # c => cur'[d] = cur[d]
    BY <2>2 DEF Hands
  <2>5. PICK p \in {"deciding", "forwarding"} :
          CR!Go(c, p) /\ (p = "forwarding" => e \in bloom')
    BY <1>2 DEF CR!Receive
  <2>6. Passed'
    BY <2>2, <2>4, <2>5, GoKeepsPassed DEF WindowSound
  <2> QED
    BY <2>1, <2>3, <2>6 DEF WindowSound
<1> QED
  BY <1>1, <1>2

LEMMA WorkSound ==
  ASSUME Hands, Window, WindowSound, NEW c \in Clients, CR!Work(c)
  PROVE  WindowSound'
<1>1. /\ UNCHANGED <<queue, seen>> /\ bloom \subseteq bloom' /\ lost \subseteq lost'
  BY DEF CR!Work, CR!LetThrough, CR!RefuseByKey, CR!GetFails, CR!Write, CR!WriteFails,
         CR!GiveUp, CR!Connect, CR!Reconnected, CR!NotReconnected, CR!window, CR!line
<1>2. InStep'
  BY <1>1, SameQueueInStep DEF WindowSound
<1>3. CASE CR!LetThrough(c)
  <2>1. UNCHANGED cur /\ CR!Go(c, "forwarding") /\ cur[c] \in bloom'
    BY <1>3 DEF CR!LetThrough
  <2> QED
    BY <1>1, <1>2, <2>1, SameHandsRemember, GoKeepsPassed DEF WindowSound
<1>4. CASE CR!Connect(c)
  <2>1. /\ UNCHANGED <<cur, bloom>> /\ CR!Go(c, "connecting") /\ at[c] = "forwarding"
    BY <1>4 DEF CR!Connect, CR!window
  <2>2. cur'[c] \in bloom'
    BY <2>1 DEF WindowSound, Passed
  <2> QED
    BY <1>1, <1>2, <2>1, <2>2, SameHandsRemember, GoKeepsPassed DEF WindowSound
<1>5. CASE ~CR!LetThrough(c) /\ ~CR!Connect(c)
  <2>1. CR!Drop(c)
    BY <1>5 DEF CR!Work, CR!RefuseByKey, CR!GetFails, CR!Write, CR!WriteFails,
                CR!GiveUp, CR!Reconnected, CR!NotReconnected
  <2>2. cur[c] \in bloom \cup lost'
    BY <1>5 DEF CR!Work, CR!RefuseByKey, CR!GetFails, CR!Write, CR!WriteFails,
                CR!GiveUp, CR!Reconnected, CR!NotReconnected, WindowSound, Passed
  <2> QED
    BY <1>1, <1>2, <2>1, <2>2, DropRemembers, DropKeepsPassed DEF WindowSound
<1> QED
  BY <1>3, <1>4, <1>5

LEMMA BesideSound ==
  ASSUME Hands, Window, WindowSound,
         \/ CR!ReconnectStarts \/ CR!ReconnectEnds \/ CR!EngineStops \/ CR!EngineStarts
         \/ CR!HangUp \/ CR!Expire \/ \E e \in Events : CR!Read(e)
  PROVE  WindowSound'
<1>1. UNCHANGED <<at, cur, bloom>> /\ lost \subseteq lost'
  BY DEF CR!ReconnectStarts, CR!ReconnectEnds, CR!EngineStops, CR!EngineStarts,
         CR!HangUp, CR!Read, CR!Expire, CR!window, CR!line
<1>2. Passed'
  BY <1>1 DEF WindowSound, Passed
<1>3. InStep' /\ seen' \subseteq seen
  <2>1. CASE CR!Expire
    BY <2>1, ExpireInStep DEF WindowSound
  <2>2. CASE UNCHANGED <<queue, seen>>
    BY <2>2, SameQueueInStep DEF WindowSound
  <2> QED
    BY <2>1, <2>2 DEF CR!ReconnectStarts, CR!ReconnectEnds, CR!EngineStops,
       CR!EngineStarts, CR!HangUp, CR!Read, CR!window
<1> QED
  BY <1>1, <1>2, <1>3, SameHandsRemember DEF WindowSound

\* The reconnects.  A step that touches neither the flag, the task nor the writer,
\* and lets no coroutine begin or end a reconnect, leaves them as they are.
LEMMA CalmStep ==
  ASSUME OneReconnect, UNCHANGED <<writer, reconnecting, delayed>>,
         \A c \in Clients : CR!Connecting(c)' <=> CR!Connecting(c)
  PROVE  OneReconnect'
  BY DEF OneReconnect, CR!OneReconnect

\* After a coroutine dropped its event only the others may still be connecting.
LEMMA DropConnecting ==
  ASSUME Hands, NEW c \in Clients, CR!Drop(c)
  PROVE  \A d \in Clients : CR!Connecting(d)' <=> CR!Connecting(d) /\ d # c
  BY DEF Hands, CR!Drop, CR!Connecting

LEMMA GoConnecting ==
  ASSUME Hands, NEW c \in Clients, NEW p, CR!Go(c, p)
  PROVE  /\ CR!Connecting(c)' <=> p = "connecting"
         /\ \A d \in Clients : d # c => (CR!Connecting(d)' <=> CR!Connecting(d))
  BY DEF Hands, CR!Go, CR!Connecting

LEMMA CalmWork ==
  ASSUME Hands, OneReconnect, NEW c \in Clients,
         \/ CR!LetThrough(c) \/ CR!RefuseByKey(c) \/ CR!GetFails(c)
         \/ CR!Write(c) \/ CR!GiveUp(c)
  PROVE  OneReconnect'
<1>1. /\ UNCHANGED <<writer, reconnecting, delayed>> /\ ~CR!Connecting(c)
      /\ CR!Drop(c) \/ CR!Go(c, "forwarding")
  BY DEF CR!LetThrough, CR!RefuseByKey, CR!GetFails, CR!Write, CR!GiveUp, CR!line,
         CR!Connecting
<1>2. \A d \in Clients : CR!Connecting(d)' <=> CR!Connecting(d)
  BY <1>1, DropConnecting, GoConnecting
<1> QED
  BY <1>1, <1>2, CalmStep

LEMMA IntakeCalm ==
  ASSUME Hands, OneReconnect, NEW c \in Clients, NEW e \in Events,
         CR!Refuse(c, e) \/ CR!Receive(c, e)
  PROVE  OneReconnect'
<1>1. UNCHANGED <<writer, reconnecting, delayed>>
  BY DEF CR!Refuse, CR!Receive, CR!line
<1>2. at[c] = "reading" /\ ~CR!Connecting(c)
  BY DEF CR!Refuse, CR!Receive, CR!Connecting
<1>3. UNCHANGED at \/ CR!Go(c, "deciding") \/ CR!Go(c, "forwarding")
  BY DEF CR!Refuse, CR!Receive
<1>4. \A d \in Clients : CR!Connecting(d)' <=> CR!Connecting(d)
  <2>1. CASE UNCHANGED at
    BY <2>1 DEF CR!Connecting
  <2>2. CASE CR!Go(c, "deciding") \/ CR!Go(c, "forwarding")
    BY <1>2, <2>2, GoConnecting
  <2> QED
    BY <1>3, <2>1, <2>2
<1> QED
  BY <1>1, <1>4, CalmStep

\* A write that fails finds nobody reconnecting, for there was a connection.
LEMMA WriteFailsOnce ==
  ASSUME Hands, Line, OneReconnect, NEW c \in Clients, CR!WriteFails(c)
  PROVE  OneReconnect'
<1>1. ~reconnecting /\ delayed = "none" /\ \A d \in Clients : ~CR!Connecting(d)
  BY DEF CR!WriteFails, OneReconnect, CR!OneReconnect
<1>2. reconnecting' = TRUE /\ delayed' = "waiting" /\ writer' = "none" /\ CR!Drop(c)
  BY <1>1 DEF CR!WriteFails
<1>3. \A d \in Clients : ~CR!Connecting(d)'
  BY <1>1, <1>2, DropConnecting
<1> QED
  BY <1>2, <1>3 DEF OneReconnect, CR!OneReconnect

LEMMA ConnectOnce ==
  ASSUME Hands, Line, OneReconnect, NEW c \in Clients, CR!Connect(c)
  PROVE  OneReconnect'
<1>1. ~reconnecting /\ delayed = "none" /\ \A d \in Clients : ~CR!Connecting(d)
  BY DEF CR!Connect, OneReconnect, CR!OneReconnect
<1>2. /\ reconnecting' = TRUE /\ delayed' = "none" /\ writer' = "none"
      /\ CR!Go(c, "connecting")
  BY <1>1 DEF CR!Connect
<1>3. CR!Connecting(c)' /\ \A d \in Clients : d # c => ~CR!Connecting(d)'
  BY <1>1, <1>2, GoConnecting
<1> QED
  BY <1>2, <1>3 DEF OneReconnect, CR!OneReconnect

LEMMA ConnectedOnce ==
  ASSUME Hands, Line, OneReconnect, NEW c \in Clients,
         CR!Reconnected(c) \/ CR!NotReconnected(c)
  PROVE  OneReconnect'
<1>1. CR!Connecting(c)
  BY DEF CR!Reconnected, CR!NotReconnected, CR!Connecting
<1>2. delayed = "none" /\ \A d \in Clients : CR!Connecting(d) => d = c
  BY <1>1 DEF OneReconnect, CR!OneReconnect
<1>3. reconnecting' = FALSE /\ delayed' = "none" /\ CR!Drop(c)
  BY <1>2 DEF CR!Reconnected, CR!NotReconnected
<1>4. \A d \in Clients : ~CR!Connecting(d)'
  BY <1>2, <1>3, DropConnecting
<1> QED
  BY <1>3, <1>4 DEF OneReconnect, CR!OneReconnect

\* The delayed task, and the engine's side.
LEMMA BesideOnce ==
  ASSUME Line, OneReconnect,
         \/ CR!ReconnectStarts \/ CR!ReconnectEnds \/ CR!EngineStops \/ CR!EngineStarts
         \/ CR!HangUp \/ CR!Expire \/ \E e \in Events : CR!Read(e)
  PROVE  OneReconnect'
<1>1. \A c \in Clients : CR!Connecting(c)' <=> CR!Connecting(c)
  BY DEF CR!ReconnectStarts, CR!ReconnectEnds, CR!EngineStops, CR!EngineStarts,
         CR!HangUp, CR!Read, CR!Expire, CR!Connecting
<1>2. CASE CR!ReconnectStarts
  BY <1>1, <1>2 DEF CR!ReconnectStarts, OneReconnect, CR!OneReconnect
<1>3. CASE CR!ReconnectEnds
  <2>1. \A c \in Clients : ~CR!Connecting(c)'
    BY <1>1, <1>3 DEF CR!ReconnectEnds, OneReconnect, CR!OneReconnect
  <2> QED
    BY <1>3, <2>1 DEF CR!ReconnectEnds, OneReconnect, CR!OneReconnect
<1>4. CASE CR!EngineStops \/ CR!HangUp
  <2>1. UNCHANGED <<reconnecting, delayed>> /\ (writer = "none" => writer' = "none")
    BY <1>4 DEF CR!EngineStops, CR!HangUp
  <2> QED
    BY <1>1, <2>1 DEF OneReconnect, CR!OneReconnect
<1>5. CASE CR!EngineStarts \/ CR!Expire \/ \E e \in Events : CR!Read(e)
  <2>1. UNCHANGED <<writer, reconnecting, delayed>>
    BY <1>5 DEF CR!EngineStarts, CR!Expire, CR!Read, CR!line
  <2> QED
    BY <1>1, <2>1, CalmStep
<1> QED
  BY <1>2, <1>3, <1>4, <1>5

LEMMA StepRouter == RouterInv /\ [CR!Next]_(CR!vars) => RouterInv'
<1> SUFFICES ASSUME RouterInv, [CR!Next]_(CR!vars)
             PROVE  RouterInv'
  OBVIOUS
<1>1. CR!TypeOK /\ Hands /\ Window /\ Line /\ WindowSound /\ OneReconnect
  BY RouterParts, SoundParts DEF RouterInv, WindowSound
<1>2. CR!TypeOK'
  BY <1>1, StepRouterTypes
<1>3. ASSUME NEW c \in Clients, CR!Serve(c)
      PROVE  WindowSound' /\ OneReconnect'
  BY <1>1, <1>3, IntakeSound, WorkSound, IntakeCalm, CalmWork, WriteFailsOnce,
     ConnectOnce, ConnectedOnce
     DEF CR!Serve, CR!Work
<1>4. ASSUME UNCHANGED CR!vars
      PROVE  WindowSound' /\ OneReconnect'
  <2>1. UNCHANGED <<at, cur, queue, seen, bloom, lost, writer, reconnecting, delayed>>
    BY <1>4 DEF CR!vars, CR!window, CR!line
  <2>2. WindowSound'
    BY <1>1, <2>1, SameQueueInStep DEF WindowSound, Passed, Remembered
  <2>3. OneReconnect'
    BY <1>1, <2>1, CalmStep DEF CR!Connecting
  <2> QED
    BY <2>2, <2>3
<1>5. WindowSound' /\ OneReconnect'
  BY <1>1, <1>3, <1>4, BesideSound, BesideOnce DEF CR!Next, CR!Reconnect
<1>6. DedupSound'
  BY <1>5 DEF WindowSound, DedupSound, CR!DedupSound, InStep, Distinct, Remembered
<1> QED
  BY <1>2, <1>5, <1>6 DEF RouterInv, WindowSound

-----------------------------------------------------------------------------
(***************************************************************************)
(* Both together: every step is one of the router's, one of the engine's,  *)
(* or both at once, and a stop or the handing over of a line is both.      *)
(***************************************************************************)
LEMMA RouterSteps == [RoutingNext]_routing => [CR!Next]_(CR!vars)
<1> SUFFICES ASSUME RoutingNext \/ UNCHANGED routing
             PROVE  CR!Next \/ UNCHANGED CR!vars
  OBVIOUS
<1> USE DEF CR!Next
<1>1. ASSUME UNCHANGED router
      PROVE  UNCHANGED CR!vars
  BY <1>1 DEF router, CR!vars, CR!window, CR!line
<1>2. ASSUME NEW c \in Clients, Router(CR!Work(c))
      PROVE  CR!Next
  BY <1>2 DEF Router, CR!Serve
<1>3. CASE Take
  BY <1>3 DEF Take, CR!Serve
<1>4. ASSUME NEW e \in Events, Handover(e)
      PROVE  CR!Next
  BY <1>4 DEF Handover
<1>5. CASE Fault
  BY <1>1, <1>5 DEF Fault, Stop
<1>6. CASE UNCHANGED routing
  BY <1>1, <1>6 DEF routing
<1>7. ASSUME Engine(Reader) \/ Engine(Tick) \/ Engine(Connected) \/ Engine(MeshStarts)
      PROVE  UNCHANGED CR!vars
  BY <1>1, <1>7 DEF Engine
<1>8. ASSUME NEW c \in Clients, NEW e \in Events, Router(CR!Refuse(c, e))
      PROVE  CR!Next
  BY <1>8 DEF Router, CR!Serve
<1>9. CASE Router(CR!Reconnect) \/ Router(CR!Expire) \/ Router(CR!EngineStarts)
           \/ Router(CR!HangUp)
  BY <1>9 DEF Router
<1> QED
  BY <1>2, <1>3, <1>4, <1>5, <1>6, <1>7, <1>8, <1>9 DEF RoutingNext

LEMMA EngineSteps == [RoutingNext]_routing => [Next]_vars
<1> SUFFICES ASSUME RoutingNext \/ UNCHANGED routing
             PROVE  Next \/ UNCHANGED vars
  OBVIOUS
<1>1. ASSUME UNCHANGED engine
      PROVE  UNCHANGED vars
  BY <1>1 DEF engine
<1>2. ASSUME NEW c \in Clients, Router(CR!Work(c))
      PROVE  UNCHANGED vars
  BY <1>1, <1>2 DEF Router
<1>3. CASE Take
  BY <1>1, <1>3 DEF Take
<1>4. ASSUME NEW e \in Events, Handover(e)
      PROVE  Next
  BY <1>4 DEF Handover, Next
<1>5. CASE Fault
  BY <1>5 DEF Fault, Stop, Next, Faults
<1>6. CASE UNCHANGED routing
  BY <1>1, <1>6 DEF routing
<1>7. ASSUME Engine(Reader) \/ Engine(Tick) \/ Engine(Connected) \/ Engine(MeshStarts)
      PROVE  Next
  BY <1>7 DEF Engine, Next
<1>8. ASSUME NEW c \in Clients, NEW e \in Events, Router(CR!Refuse(c, e))
      PROVE  UNCHANGED vars
  BY <1>1, <1>8 DEF Router
<1>9. CASE Router(CR!Reconnect) \/ Router(CR!Expire) \/ Router(CR!EngineStarts)
           \/ Router(CR!HangUp)
  BY <1>1, <1>9 DEF Router
<1> QED
  BY <1>2, <1>3, <1>4, <1>5, <1>6, <1>7, <1>8, <1>9 DEF RoutingNext

\* Type correctness of both, and what holds of the router alone, holds of it here.
THEOREM RouterInvariance == RoutingSpec => [](RouterInv /\ TypeOK)
<1>1. RoutingInit => RouterInv /\ TypeOK
  BY InitRouter, InitTypes DEF RoutingInit
<1>2. RouterInv /\ TypeOK /\ [RoutingNext]_routing => RouterInv' /\ TypeOK'
  BY RouterSteps, EngineSteps, StepRouter, StepTypes
<1> QED
  BY <1>1, <1>2, PTL DEF RoutingSpec

\* FastDedup's queue and set agree, whatever expires or overflows, and what it refuses
\* was let through, was lost, or is being decided on: the Bloom filter, which errs and
\* is never reset, loses nothing on its own.
THEOREM WindowIsSound == RoutingSpec => []DedupSound
<1>1. RouterInv => DedupSound
  BY DEF RouterInv
<1> QED
  BY <1>1, RouterInvariance, PTL

\* The flag is up exactly while one coroutine, or the delayed task, reconnects.
THEOREM ReconnectsOnce == RoutingSpec => []OneReconnect
<1>1. RouterInv => OneReconnect
  BY DEF RouterInv
<1> QED
  BY <1>1, RouterInvariance, PTL

\* The refinement holds where the engine is fed by the router and stopped with it.
THEOREM RoutingImplementsLink == RoutingSpec => LosesOnlyInOutages
<1>1. RoutingInit => Link!Init
  BY InitLink DEF RoutingInit
<1>2. RouterInv /\ TypeOK /\ RouterInv' /\ TypeOK' /\ [RoutingNext]_routing
      => [Link!Next]_(Link!vars)
  BY EngineSteps, StepLink
<1> QED
  BY <1>1, <1>2, RouterInvariance, PTL DEF RoutingSpec, LosesOnlyInOutages, Link!Spec

-----------------------------------------------------------------------------
(***************************************************************************)
(* Nothing vanishes: what the router carries it keeps, hands over or       *)
(* counts as lost, and what the engine was handed it keeps, delivers or    *)
(* counts as missing.                                                      *)
(***************************************************************************)
Forwarding == {c \in Clients : at[c] \in {"forwarding", "connecting"}}
Carried    == {cur[c] : c \in Forwarding} \cup CR!ToSet(wire) \cup lost
Handled    == InHand \cup arrived \cup missing
Accounted  == bloom \subseteq Carried \cup Handled \cup Heartbeats

LEMMA AccountedSuffices == Accounted => NothingVanishes
<1>1. {cur[c] : c \in Forwarding} \subseteq {cur[c] : c \in Clients}
  BY DEF Forwarding
<1>2. CR!ToSet(wire) = {wire[i] : i \in DOMAIN wire}
  BY DEF CR!ToSet
<1> QED
  BY <1>1, <1>2 DEF Accounted, Carried, Handled, NothingVanishes, Underway

\* What a coroutine carried is in its hands still, or was put down as the step says.
LEMMA DropCarries ==
  ASSUME Hands, NEW c \in Clients, CR!Drop(c),
         c \in Forwarding => cur[c] \in CR!ToSet(wire') \cup lost',
         CR!ToSet(wire) \cup lost \subseteq CR!ToSet(wire') \cup lost'
  PROVE  Carried \subseteq Carried'
<1>1. \A d \in Forwarding : d # c => d \in Forwarding' /\ cur'[d] = cur[d]
  BY DEF CR!Drop, Hands, Forwarding
<1>2. Carried' = {cur'[d] : d \in Forwarding'} \cup CR!ToSet(wire') \cup lost'
  BY DEF Carried, CR!ToSet
<1>3. ASSUME NEW d \in Forwarding
      PROVE  cur[d] \in Carried'
  BY <1>1, <1>2
<1> QED
  BY <1>2, <1>3 DEF Carried

LEMMA GoCarries ==
  ASSUME Hands, NEW c \in Clients, NEW p, CR!Go(c, p), UNCHANGED <<wire, lost>>,
         \A d \in Clients : d # c => cur'[d] = cur[d],
         c \in Forwarding => p \in {"forwarding", "connecting"} /\ cur'[c] = cur[c]
  PROVE  /\ Carried \subseteq Carried'
         /\ p = "forwarding" => cur'[c] \in Carried'
<1>1. \A d \in Forwarding : d \in Forwarding' /\ cur'[d] = cur[d]
  BY DEF CR!Go, Hands, Forwarding
<1>2. Carried' = {cur'[d] : d \in Forwarding'} \cup CR!ToSet(wire) \cup lost
  BY DEF Carried, CR!ToSet
<1>3. p = "forwarding" => c \in Forwarding'
  BY DEF CR!Go, Hands, Forwarding
<1> QED
  BY <1>1, <1>2, <1>3 DEF Carried

LEMMA WorkCarries ==
  ASSUME Hands, Line, NEW c \in Clients, CR!Work(c)
  PROVE  Carried \subseteq Carried' /\ bloom' \subseteq bloom \cup Carried'
<1>1. CASE CR!LetThrough(c)
  <2>1. /\ CR!Go(c, "forwarding") /\ UNCHANGED <<cur, wire, lost>> /\ c \notin Forwarding
        /\ bloom' = bloom \cup {cur[c]}
    BY <1>1 DEF CR!LetThrough, CR!line, Forwarding
  <2> QED
    BY <2>1, GoCarries
<1>2. CASE CR!Connect(c)
  <2>1. /\ CR!Go(c, "connecting") /\ UNCHANGED <<cur, wire, lost, bloom>>
    BY <1>2 DEF CR!Connect, CR!window
  <2> QED
    BY <2>1, GoCarries
<1>3. CASE CR!RefuseByKey(c) \/ CR!GetFails(c)
  <2>1. /\ CR!Drop(c) /\ UNCHANGED <<wire, bloom>> /\ c \notin Forwarding
        /\ lost \subseteq lost'
    BY <1>3 DEF CR!RefuseByKey, CR!GetFails, CR!window, CR!line, Forwarding
  <2> QED
    BY <2>1, DropCarries
<1>4. CASE \/ CR!Write(c) \/ CR!WriteFails(c) \/ CR!GiveUp(c)
           \/ CR!Reconnected(c) \/ CR!NotReconnected(c)
  <2>1. CR!Drop(c) /\ bloom' = bloom /\ lost \subseteq lost' /\ at[c] # "reading"
    BY <1>4 DEF CR!Write, CR!WriteFails, CR!GiveUp, CR!Reconnected, CR!NotReconnected,
                CR!window
  <2>2. cur[c] \in Events /\ wire \in Seq(Events)
    BY <2>1, HandsFull DEF Line
  <2>3. CR!ToSet(Append(wire, cur[c])) = CR!ToSet(wire) \cup {cur[c]}
    BY <2>2, SetOfAppend
  <2>4. wire' = Append(wire, cur[c]) \/ (wire' = wire /\ cur[c] \in lost')
    BY <1>4 DEF CR!Write, CR!WriteFails, CR!GiveUp, CR!Reconnected, CR!NotReconnected,
                CR!line
  <2>5. CR!ToSet(wire) \cup {cur[c]} \subseteq CR!ToSet(wire') \cup lost'
    BY <2>3, <2>4
  <2> QED
    BY <2>1, <2>5, DropCarries
<1> QED
  BY <1>1, <1>2, <1>3, <1>4 DEF CR!Work

LEMMA IntakeCarries ==
  ASSUME Hands, NEW c \in Clients, NEW e \in Events, CR!Refuse(c, e) \/ CR!Receive(c, e)
  PROVE  Carried \subseteq Carried' /\ bloom' \subseteq bloom \cup Carried'
<1>1. CASE CR!Refuse(c, e)
  BY <1>1 DEF CR!Refuse, CR!line, Carried, Forwarding, CR!ToSet
<1>2. CASE CR!Receive(c, e)
  <2>1. /\ UNCHANGED <<wire, lost>> /\ c \notin Forwarding
        /\ cur'[c] = e /\ \A d \in Clients : d # c => cur'[d] = cur[d]
    BY <1>2 DEF CR!Receive, CR!line, Forwarding, Hands
  <2>2. PICK p \in {"deciding", "forwarding"} :
          /\ CR!Go(c, p) /\ (p = "deciding" => bloom' = bloom)
          /\ (p = "forwarding" => bloom' = bloom \cup {e})
    BY <1>2 DEF CR!Receive
  <2> QED
    BY <2>1, <2>2, GoCarries
<1> QED
  BY <1>1, <1>2

LEMMA BesideCarries ==
  ASSUME \/ CR!ReconnectStarts \/ CR!ReconnectEnds \/ CR!EngineStops \/ CR!EngineStarts
         \/ CR!HangUp \/ CR!Expire
  PROVE  Carried \subseteq Carried' /\ bloom' = bloom
<1>1. UNCHANGED <<at, cur, bloom>>
  BY DEF CR!ReconnectStarts, CR!ReconnectEnds, CR!EngineStops, CR!EngineStarts,
         CR!HangUp, CR!Expire, CR!window
<1>2. CR!ToSet(wire) \cup lost \subseteq CR!ToSet(wire') \cup lost'
  BY DEF CR!ReconnectStarts, CR!ReconnectEnds, CR!EngineStops, CR!EngineStarts,
         CR!HangUp, CR!Expire, CR!line
<1>3. Carried' = {cur[c] : c \in Forwarding} \cup CR!ToSet(wire') \cup lost'
  BY <1>1 DEF Carried, Forwarding, CR!ToSet
<1> QED
  BY <1>1, <1>2, <1>3 DEF Carried

LEMMA ReadCarries ==
  ASSUME Line, NEW e \in Events, CR!Read(e)
  PROVE  Carried \subseteq Carried' \cup {e} /\ bloom' = bloom
<1>1. UNCHANGED <<at, cur, bloom, lost>> /\ wire # <<>> /\ e = Head(wire) /\ wire' = Tail(wire)
  BY DEF CR!Read, CR!window
<1>2. CR!ToSet(wire) = CR!ToSet(wire') \cup {e}
  BY <1>1, SetOfTail DEF Line
<1>3. Carried' = {cur[c] : c \in Forwarding} \cup CR!ToSet(wire') \cup lost
  BY <1>1 DEF Carried, Forwarding, CR!ToSet
<1> QED
  BY <1>1, <1>2, <1>3 DEF Carried

\* The engine lets go of nothing it was handed, and takes what it is handed, a
\* heartbeat excepted.
LEMMA EngineHandles ==
  ASSUME TypeOK, [Next]_vars
  PROVE  Handled \subseteq Handled'
<1> USE DEF Handled, InHand
<1>1. ASSUME NEW e \in Events, Add(e)
      PROVE  Handled \subseteq Handled'
  BY <1>1 DEF Add, AddDao, AddHeartbeat, AddBatched, vars
<1>2. CASE Reader
  BY <1>2 DEF Reader, Posted, PostFails
<1>3. CASE Flush \/ FlushNowhere \/ PingFails
  BY <1>3 DEF Flush, FlushNowhere, PingFails
<1>4. CASE Sent
  BY <1>4 DEF Sent
<1>5. CASE SendFails
  BY <1>5 DEF SendFails
<1>6. CASE Connected \/ LinkDrops \/ MeshStops \/ MeshStarts
  BY <1>6 DEF Connected, LinkDrops, MeshStops, MeshStarts
<1>7. CASE Crash
  BY <1>7 DEF Crash
<1>8. CASE UNCHANGED vars
  BY <1>8 DEF vars
<1> QED
  BY <1>1, <1>2, <1>3, <1>4, <1>5, <1>6, <1>7, <1>8 DEF Next, Tick, Faults

LEMMA AddHandles ==
  ASSUME NEW e \in Events, Add(e)
  PROVE  e \in Handled' \cup Heartbeats
<1>1. e # None
  BY EngineAssumption
<1> QED
  BY <1>1 DEF Add, AddDao, AddHeartbeat, AddBatched, Handled, InHand

LEMMA StepAccounted ==
  RouterInv /\ TypeOK /\ Accounted /\ [RoutingNext]_routing => Accounted'
<1> SUFFICES ASSUME RouterInv, TypeOK, Accounted, RoutingNext \/ UNCHANGED routing
             PROVE  Accounted'
  OBVIOUS
<1>1. Hands /\ Line /\ Handled \subseteq Handled'
  BY RouterParts, EngineSteps, EngineHandles DEF RouterInv
<1>2. ASSUME Carried \subseteq Carried', bloom' \subseteq bloom \cup Carried'
      PROVE  Accounted'
  BY <1>1, <1>2 DEF Accounted
<1>3. ASSUME UNCHANGED router
      PROVE  Accounted'
  <2>1. Carried' = Carried /\ bloom' = bloom
    BY <1>3 DEF router, Carried, Forwarding, CR!ToSet
  <2> QED
    BY <1>2, <2>1
<1>4. ASSUME NEW c \in Clients, Router(CR!Work(c))
      PROVE  Accounted'
  BY <1>1, <1>2, <1>4, WorkCarries DEF Router
<1>5. ASSUME NEW c \in Clients, NEW e \in Events, Router(CR!Refuse(c, e))
      PROVE  Accounted'
  BY <1>1, <1>2, <1>5, IntakeCarries DEF Router
<1>6. CASE Take
  BY <1>1, <1>2, <1>6, IntakeCarries DEF Take
<1>7. CASE Router(CR!Reconnect) \/ Router(CR!Expire) \/ Router(CR!EngineStarts)
           \/ Router(CR!HangUp)
  BY <1>2, <1>7, BesideCarries DEF Router, CR!Reconnect
<1>8. ASSUME NEW e \in Events, Handover(e)
      PROVE  Accounted'
  BY <1>1, <1>8, ReadCarries, AddHandles DEF Handover, Accounted
<1>9. CASE Engine(Reader) \/ Engine(Tick) \/ Engine(Connected) \/ Engine(MeshStarts)
  BY <1>3, <1>9 DEF Engine
<1>10. CASE Fault
  BY <1>2, <1>3, <1>10, BesideCarries DEF Fault, Stop
<1>11. CASE UNCHANGED routing
  BY <1>3, <1>11 DEF routing
<1> QED
  BY <1>4, <1>5, <1>6, <1>7, <1>8, <1>9, <1>10, <1>11 DEF RoutingNext

\* Of the events that passed the router's test none vanishes between the two, for any
\* number of clients, events and faults: not one that comes in while a message is being
\* sent, nor one whose write fails, nor what a stop finds unread.
THEOREM EventsDoNotVanish == RoutingSpec => []NothingVanishes
<1>1. RoutingInit => Accounted
  BY DEF RoutingInit, CR!Init, Accounted
<1>2. RouterInv /\ TypeOK /\ Accounted /\ [RoutingNext]_routing => Accounted'
  BY StepAccounted
<1>3. Accounted => NothingVanishes
  BY AccountedSuffices
<1> QED
  BY <1>1, <1>2, <1>3, RouterInvariance, PTL DEF RoutingSpec
==============================================================================
