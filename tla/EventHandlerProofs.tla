------------------------- MODULE EventHandlerProofs -------------------------
(***************************************************************************)
(* Proofs about EventHandler, for every set of events, keys and groups:    *)
(* the tables keep their type, the indexes stay sound and complete, what   *)
(* was acknowledged stays committed (and a payment logged) through every   *)
(* handler and every crash, only its author removes an event, at most one  *)
(* version of an addressable event is kept, and the bans match the         *)
(* reports.                                                                *)
(***************************************************************************)
EXTENDS EventHandler, SequenceTheorems, FiniteSetTheorems, TLAPS

(***************************************************************************)
(* What holds of the tables by themselves, after every statement.          *)
(***************************************************************************)
\* The indexes point to events the database has.
Sound(t) == \A i \in {r[1] : r \in t.tags} \cup t.fts : i \in IdsOf(t.events)

\* The id is the primary key.
OneRow(t) == \A x, y \in t.events : x.id = y.id => x = y

\* What was stored by the statement that indexes is in the indexes.
Findable(t) ==
  \A e \in Events \ Remote :
    e.id \in IdsOf(t.events) /\ e.bad = 0 /\ e.kind # 5
      => TagRows(e, Len(e.tags) + 1) \subseteq t.tags /\ e.id \in t.fts

\* Two versions of one address, of those that are kept apart.
Rivals(x, y) ==
  /\ SameAddress(x, y) /\ First(x, "d") \in Plain /\ x.kind # 30000
  /\ x \notin SsePosted /\ y \notin SsePosted

Distinguished(t) == \A x, y \in t.events : Rivals(x, y) => x = y

\* An automatic ban rests on enough reports, and they can be counted.
Earned(t) ==
  \A p \in Pubkeys :
    /\ IsFiniteSet(Reporters(t, p))
    /\ <<p, "nip56_auto">> \in t.banned => Cardinality(Reporters(t, p)) >= BanAt

Good ==
  {t \in Tables : Sound(t) /\ OneRow(t) /\ Findable(t) /\ Distinguished(t) /\ Earned(t)}

-----------------------------------------------------------------------------
(***************************************************************************)
(* Tags.                                                                   *)
(***************************************************************************)
(***************************************************************************)
(* A non-empty set of positions has a first and, if bounded, a last one:   *)
(* finite sets are well-founded under inclusion.                           *)
(***************************************************************************)
LEMMA Leftmost ==
  ASSUME NEW S \in SUBSET Nat, S # {}
  PROVE  \E i \in S : \A j \in S : i <= j
<1> DEFINE T == {1 .. i : i \in S}
<1>0. \A i \in S : 1 .. i \in SUBSET Nat /\ IsFiniteSet(1 .. i)
  BY FS_Interval
<1>1. T \subseteq FiniteSubsetsOf(Nat) /\ T # {}
  BY <1>0 DEF FiniteSubsetsOf
<1>2. PICK X \in T : \A Y \in T : ~(<<Y, X>> \in StrictSubsetOrdering(Nat))
  BY <1>1, FS_StrictSubsetOrderingWellFounded, WFMin
<1>3. PICK i \in S : X = 1 .. i
  OBVIOUS
<1>4. ASSUME NEW j \in S, ~(i <= j) PROVE FALSE
  <2>1. j < i /\ i \in Nat /\ j \in Nat
    BY <1>4
  <2>2. 1 .. j \subseteq 1 .. i /\ i \in 1 .. i /\ i \notin 1 .. j
    BY <2>1
  <2>3. <<1 .. j, 1 .. i>> \in StrictSubsetOrdering(Nat)
    BY <2>2 DEF StrictSubsetOrdering
  <2> QED BY <1>2, <1>3, <2>3
<1> QED BY <1>4

LEMMA Rightmost ==
  ASSUME NEW S \in SUBSET Nat, S # {}, NEW n \in Nat, \A i \in S : i <= n
  PROVE  \E i \in S : \A j \in S : j <= i
<1> DEFINE T == {(i + 1) .. n : i \in S}
<1>0. \A i \in S : (i + 1) .. n \in SUBSET Nat /\ IsFiniteSet((i + 1) .. n)
  BY FS_Interval
<1>1. T \subseteq FiniteSubsetsOf(Nat) /\ T # {}
  BY <1>0 DEF FiniteSubsetsOf
<1>2. PICK X \in T : \A Y \in T : ~(<<Y, X>> \in StrictSubsetOrdering(Nat))
  BY <1>1, FS_StrictSubsetOrderingWellFounded, WFMin
<1>3. PICK i \in S : X = (i + 1) .. n
  OBVIOUS
<1>4. ASSUME NEW j \in S, ~(j <= i) PROVE FALSE
  <2>1. i < j /\ j <= n /\ i \in Nat /\ j \in Nat
    BY <1>4
  <2>2. (j + 1) .. n \subseteq (i + 1) .. n /\ j \in (i + 1) .. n /\ j \notin (j + 1) .. n
    BY <2>1
  <2>3. <<(j + 1) .. n, (i + 1) .. n>> \in StrictSubsetOrdering(Nat)
    BY <2>2 DEF StrictSubsetOrdering
  <2> QED BY <1>2, <1>3, <2>3
<1> QED BY <1>4

LEMMA EventTags ==
  ASSUME NEW e \in Events
  PROVE  /\ e \in Event
         /\ Len(e.tags) \in Nat
         /\ DOMAIN e.tags = 1 .. Len(e.tags)
         /\ \A i \in DOMAIN e.tags : /\ e.tags[i] \in TagNames \X Values
                                     /\ e.tags[i][1] \in TagNames
                                     /\ e.tags[i][2] \in Values
<1>1. e \in Event /\ e.tags \in Seq(TagNames \X Values)
  BY EventsAssumption DEF Event
<1> QED BY <1>1

LEMMA RowTags ==
  ASSUME NEW x \in Rows
  PROVE  /\ Len(x.tags) \in Nat /\ DOMAIN x.tags = 1 .. Len(x.tags)
         /\ \A i \in DOMAIN x.tags : x.tags[i] \in TagNames \X Values
<1>1. x.tags \in Seq(TagNames \X Values)
  <2>1. CASE x \in Events
    BY <2>1, EventsAssumption DEF Event
  <2>2. ASSUME NEW e \in Events, x = Fetched(e)
        PROVE  x.tags \in Seq(TagNames \X Values)
    <3>1. e \in Event
      BY EventsAssumption
    <3>2. x.tags = e.tags \o << <<"source", "relay">>, <<"original", "relay">> >>
      BY <2>2, <3>1 DEF Fetched, Event
    <3>3. "relay" \in Values /\ {"source", "original"} \subseteq TagNames
      BY KeysAssumption DEF TagNames
    <3>4. << <<"source", "relay">>, <<"original", "relay">> >> \in Seq(TagNames \X Values)
      BY <3>3
    <3>5. e.tags \in Seq(TagNames \X Values)
      BY <3>1 DEF Event
    <3> QED BY <3>2, <3>4, <3>5, ConcatProperties
  <2> QED BY <2>1, <2>2 DEF Rows
<1> QED BY <1>1

LEMMA FirstValue ==
  ASSUME NEW e \in Events, NEW name
  PROVE  First(e, name) \in ValuesOf(e, name) \cup {Empty}
<1>1. CASE Positions(e, name) = {}
  BY <1>1 DEF First
<1>2. CASE Positions(e, name) # {}
  <2>1. Positions(e, name) \in SUBSET Nat
    BY EventTags DEF Positions
  <2>2. \E i \in Positions(e, name) : \A j \in Positions(e, name) : i <= j
    BY <1>2, <2>1, Leftmost
  <2> QED BY <1>2, <2>2 DEF First, ValuesOf
<1> QED BY <1>1, <1>2

LEMMA LastValue ==
  ASSUME NEW e \in Events, NEW name
  PROVE  Last(e, name) \in ValuesOf(e, name) \cup {Empty}
<1>1. CASE Positions(e, name) = {}
  BY <1>1 DEF Last
<1>2. CASE Positions(e, name) # {}
  <2>1. Positions(e, name) \in SUBSET Nat /\ \A i \in Positions(e, name) : i <= Len(e.tags)
    BY EventTags DEF Positions
  <2>2. \E i \in Positions(e, name) : \A j \in Positions(e, name) : j <= i
    BY <1>2, <2>1, EventTags, Rightmost
  <2> QED BY <1>2, <2>2 DEF Last, ValuesOf
<1> QED BY <1>1, <1>2

\* The value of a p or delegation tag is a key; of any tag, a value.
LEMMA TagValues ==
  ASSUME NEW e \in Events, NEW name
  PROVE  /\ ValuesOf(e, name) \subseteq Values
         /\ name \in {"p", "delegation"} => ValuesOf(e, name) \subseteq Pubkeys
<1>1. \A i \in Positions(e, name) : i \in DOMAIN e.tags /\ e.tags[i][1] = name
  BY DEF Positions
<1> QED BY <1>1, EventTags, EventsAssumption DEF ValuesOf

(***************************************************************************)
(* A row whose first d tag reads v matches the pattern for v, so that the  *)
(* statement that deletes predecessors finds every version of the address. *)
(***************************************************************************)
LEMMA FirstFound ==
  ASSUME NEW x \in Rows, First(x, "d") # Empty, First(x, "d") \in Plain
  PROVE  TagsLike(x, First(x, "d"))
<1>1. Positions(x, "d") \in SUBSET Nat /\ Positions(x, "d") # {}
  <2>1. Positions(x, "d") # {}
    BY DEF First
  <2>2. Positions(x, "d") \in SUBSET Nat
    BY RowTags DEF Positions
  <2> QED BY <2>1, <2>2
<1>2. \E i \in Positions(x, "d") : \A j \in Positions(x, "d") : i <= j
  BY <1>1, Leftmost
<1>3. PICK i \in Positions(x, "d") : First(x, "d") = x.tags[i][2]
  BY <1>1, <1>2 DEF First
<1>4. i \in 1 .. Len(x.tags) /\ x.tags[i][1] = "d" /\ Len(x.tags) \in Nat
  BY RowTags DEF Positions
<1>5. /\ 2 * i - 1 \in 1 .. 2 * Len(x.tags) /\ 2 * i \in 1 .. 2 * Len(x.tags)
      /\ 2 * i - 1 < 2 * i
  BY <1>4
<1>6. /\ (2 * i - 1 + 1) \div 2 = i /\ (2 * i - 1) % 2 = 1
      /\ (2 * i + 1) \div 2 = i /\ (2 * i) % 2 = 0
  BY <1>4
<1>7. Token(x, 2 * i - 1) = "d" /\ Token(x, 2 * i) = First(x, "d")
  BY <1>3, <1>4, <1>6 DEF Token
<1> QED BY <1>5, <1>7 DEF TagsLike

-----------------------------------------------------------------------------
(***************************************************************************)
(* The operators on the tables of events.                                  *)
(***************************************************************************)
LEMMA RowIds ==
  /\ \A x \in Rows : x.id \in Ids /\ x.pubkey \in Pubkeys
  /\ Events \subseteq Rows
  /\ \A e \in Events : Fetched(e) \in Rows /\ Fetched(e).id = e.id /\ Fetched(e).kind = e.kind
  BY EventsAssumption DEF Rows, Fetched, Ids, Event

LEMMA TagRowsType ==
  ASSUME NEW e \in Events, NEW n
  PROVE  /\ TagRows(e, n) \subseteq Ids \X TagNames \X Values
         /\ \A r \in TagRows(e, n) : r[1] = e.id
  BY EventTags DEF TagRows, Ids

LEMMA RivalsEither == ASSUME NEW x, NEW y, Rivals(x, y) PROVE Rivals(y, x)
  BY DEF Rivals, SameAddress

\* No other version of e's address is there.
Fits(t, e) == \A x \in t.events : x.id # e.id => ~Rivals(x, e)

SameSide(t, u) == u.reports = t.reports /\ u.banned = t.banned /\ u.payments = t.payments

LEMMA SameSideEarned == ASSUME NEW t, NEW u, Earned(t), SameSide(t, u) PROVE Earned(u)
  BY DEF Earned, SameSide, Reporters

LEMMA DropGood ==
  ASSUME NEW t \in Good, NEW rows \in SUBSET t.events
  PROVE  /\ Drop(t, rows) \in Good
         /\ Drop(t, rows).events = t.events \ rows
         /\ SameSide(t, Drop(t, rows))
<1> DEFINE u == Drop(t, rows)
<1>0. t \in Tables /\ Sound(t) /\ OneRow(t) /\ Findable(t) /\ Distinguished(t) /\ Earned(t)
  BY DEF Good
<1>1. u \in Tables /\ u.events = t.events \ rows /\ SameSide(t, u)
  BY <1>0 DEF Tables, Drop, SameSide
<1>2. /\ u.tags = {r \in t.tags : r[1] \notin IdsOf(rows)}
      /\ u.fts = t.fts \ IdsOf(rows)
  BY <1>0 DEF Tables, Drop
<1> HIDE DEF u
<1>3. \A i \in IdsOf(t.events) \ IdsOf(rows) : i \in IdsOf(u.events)
  BY <1>1 DEF IdsOf
<1>4. \A i \in IdsOf(u.events) : i \in IdsOf(t.events) \ IdsOf(rows)
  BY <1>0, <1>1 DEF IdsOf, OneRow
<1>5. Sound(u)
  BY <1>0, <1>2, <1>3 DEF Sound
<1>6. OneRow(u) /\ Distinguished(u)
  BY <1>0, <1>1 DEF OneRow, Distinguished
<1>7. Findable(u)
  <2> SUFFICES ASSUME NEW e \in Events \ Remote, e.id \in IdsOf(u.events), e.bad = 0, e.kind # 5
               PROVE  TagRows(e, Len(e.tags) + 1) \subseteq u.tags /\ e.id \in u.fts
    BY DEF Findable
  <2>1. TagRows(e, Len(e.tags) + 1) \subseteq t.tags /\ e.id \in t.fts /\ e.id \notin IdsOf(rows)
    BY <1>0, <1>4 DEF Findable
  <2>2. \A r \in TagRows(e, Len(e.tags) + 1) : r[1] = e.id
    BY TagRowsType
  <2> QED BY <1>2, <2>1, <2>2
<1>8. Earned(u)
  BY <1>0, <1>1, SameSideEarned
<1>9. u \in Good
  BY <1>1, <1>5, <1>6, <1>7, <1>8 DEF Good
<1> QED BY <1>1, <1>9 DEF u

\* A row is added: what its id, its address and its indexes have to satisfy.
LEMMA AddedGood ==
  ASSUME NEW t \in Good, NEW x \in Rows, NEW u \in Tables,
         x.id \notin IdsOf(t.events), Fits(t, x),
         u.events = t.events \cup {x}, SameSide(t, u),
         t.tags \subseteq u.tags, t.fts \subseteq u.fts,
         \A r \in u.tags \ t.tags : r[1] = x.id, u.fts \subseteq t.fts \cup {x.id},
         \A e \in Events \ Remote :
           e.id = x.id /\ e.bad = 0 /\ e.kind # 5
             => TagRows(e, Len(e.tags) + 1) \subseteq u.tags /\ e.id \in u.fts
  PROVE  u \in Good
<1>0. Sound(t) /\ OneRow(t) /\ Findable(t) /\ Distinguished(t) /\ Earned(t)
  BY DEF Good
<1>1. IdsOf(u.events) = IdsOf(t.events) \cup {x.id}
  BY DEF IdsOf
<1>2. Sound(u)
  BY <1>0, <1>1 DEF Sound
<1>3. OneRow(u)
  BY <1>0 DEF OneRow, IdsOf
<1>4. Distinguished(u)
  BY <1>0, RivalsEither DEF Distinguished, Fits, IdsOf
<1>5. Findable(u)
  <2> SUFFICES ASSUME NEW e \in Events \ Remote, e.id \in IdsOf(u.events), e.bad = 0, e.kind # 5
               PROVE  TagRows(e, Len(e.tags) + 1) \subseteq u.tags /\ e.id \in u.fts
    BY DEF Findable
  <2>1. CASE e.id = x.id
    BY <2>1
  <2>2. CASE e.id \in IdsOf(t.events)
    <3>1. TagRows(e, Len(e.tags) + 1) \subseteq t.tags /\ e.id \in t.fts
      BY <1>0, <2>2 DEF Findable
    <3> QED BY <3>1
  <2> QED BY <1>1, <2>1, <2>2
<1>6. Earned(u)
  BY <1>0, SameSideEarned
<1> QED BY <1>2, <1>3, <1>4, <1>5, <1>6 DEF Good

LEMMA StoreRowGood ==
  ASSUME NEW t \in Good, NEW e \in Events, ~Known(t, e), Fits(t, e)
  PROVE  /\ StoreRow(t, e) \in Good
         /\ StoreRow(t, e).events = t.events \cup {e}
         /\ SameSide(t, StoreRow(t, e))
<1> DEFINE u == StoreRow(t, e)
<1>1. /\ u \in Tables
      /\ u.events = t.events \cup {e}
      /\ u.tags = t.tags \cup TagRows(e, Len(e.tags) + 1)
      /\ u.fts = t.fts \cup {e.id}
      /\ SameSide(t, u)
  BY TagRowsType, RowIds DEF Good, Tables, StoreRow, SameSide
<1> HIDE DEF u
<1>2. e \in Rows /\ \A r \in TagRows(e, Len(e.tags) + 1) : r[1] = e.id
  BY RowIds, TagRowsType
<1>3. \A f \in Events \ Remote :
        f.id = e.id => TagRows(f, Len(f.tags) + 1) \subseteq u.tags /\ f.id \in u.fts
  <2> SUFFICES ASSUME NEW f \in Events, f.id = e.id
               PROVE  TagRows(f, Len(f.tags) + 1) \subseteq u.tags /\ f.id \in u.fts
    OBVIOUS
  <2>1. f = e
    BY EventsAssumption
  <2> QED BY <1>1, <2>1
<1>4. \A r \in u.tags \ t.tags : r[1] = e.id
  BY <1>1, <1>2
<1>5. t.tags \subseteq u.tags /\ t.fts \subseteq u.fts /\ u.fts \subseteq t.fts \cup {e.id}
  BY <1>1
<1>6. u \in Good
  BY <1>1, <1>2, <1>3, <1>4, <1>5, AddedGood DEF Known
<1> QED BY <1>1, <1>6 DEF u

LEMMA PartRowGood ==
  ASSUME NEW t \in Good, NEW e \in Events, ~Known(t, e), Fits(t, e),
         e.bad \notin {0, RowItself}
  PROVE  /\ PartRow(t, e) \in Good
         /\ PartRow(t, e).events = t.events \cup {e}
         /\ SameSide(t, PartRow(t, e))
<1> DEFINE u == PartRow(t, e)
<1>1. /\ u \in Tables
      /\ u.events = t.events \cup {e}
      /\ u.tags = t.tags \cup TagRows(e, e.bad)
      /\ u.fts = t.fts
      /\ SameSide(t, u)
  BY TagRowsType, RowIds DEF Good, Tables, PartRow, SameSide
<1> HIDE DEF u
<1>2. e \in Rows /\ \A r \in TagRows(e, e.bad) : r[1] = e.id
  BY RowIds, TagRowsType
<1>3. \A f \in Events : f.id = e.id => f.bad # 0
  BY EventsAssumption
<1>4. /\ \A r \in u.tags \ t.tags : r[1] = e.id
      /\ t.tags \subseteq u.tags /\ t.fts \subseteq u.fts /\ u.fts \subseteq t.fts \cup {e.id}
  BY <1>1, <1>2
<1>5. u \in Good
  BY <1>1, <1>2, <1>3, <1>4, AddedGood DEF Known
<1> QED BY <1>1, <1>5 DEF u

\* The rows the statements insert that index nothing.
LEMMA BareRowGood ==
  ASSUME NEW t \in Good, NEW x \in Rows, x.kind \in {1, 5},
         \A e \in Events \ Remote : e.id = x.id => e.kind = 5
  PROVE  /\ BareRow(t, x) \in Good
         /\ x.bad # RowItself => x.id \in IdsOf(BareRow(t, x).events)
         /\ t.events \subseteq BareRow(t, x).events
         /\ SameSide(t, BareRow(t, x))
<1>1. CASE Known(t, x) \/ x.bad = RowItself
  BY <1>1 DEF BareRow, Known, IdsOf, SameSide
<1>2. CASE ~Known(t, x) /\ x.bad # RowItself
  <2> DEFINE u == BareRow(t, x)
  <2>1. /\ u \in Tables /\ u.events = t.events \cup {x}
        /\ u.tags = t.tags /\ u.fts = t.fts /\ SameSide(t, u)
    BY <1>2 DEF Good, Tables, BareRow, SameSide
  <2> HIDE DEF u
  <2>2. Fits(t, x)
    <3>1. ~Addressable(1) /\ ~Addressable(5)
      BY DEF Addressable
    <3> QED BY <3>1 DEF Fits, Rivals, SameAddress
  <2>3. u \in Good
    BY <1>2, <2>1, <2>2, AddedGood DEF Known
  <2> QED BY <2>1, <2>3 DEF u, IdsOf
<1> QED BY <1>1, <1>2

-----------------------------------------------------------------------------
(***************************************************************************)
(* The operators on the side tables leave the events and indexes alone,    *)
(* take no payment out of the log, and change no report and lift no ban    *)
(* but of the keys R.                                                      *)
(***************************************************************************)
Moderates(t, u, R) ==
  \A p \in Pubkeys \ R :
    Reporters(u, p) = Reporters(t, p) /\ (Banned(t, p) => Banned(u, p))

Aside(t, u, R) ==
  /\ u \in Good /\ u.events = t.events
  /\ t.payments \subseteq u.payments
  /\ Moderates(t, u, R)

LEMMA AsideByIndexes ==
  ASSUME NEW t \in Good, NEW u \in Tables, NEW R,
         u.events = t.events, u.tags = t.tags, u.fts = t.fts,
         t.payments \subseteq u.payments, Earned(u), Moderates(t, u, R)
  PROVE  Aside(t, u, R)
<1>1. Sound(u) /\ OneRow(u) /\ Distinguished(u)
  BY DEF Good, Sound, OneRow, Distinguished
<1>2. Findable(u)
  BY DEF Good, Findable
<1> QED BY <1>1, <1>2 DEF Good, Aside

LEMMA SameModerates ==
  ASSUME NEW t, NEW u, NEW R, u.reports = t.reports, u.banned = t.banned
  PROVE  Moderates(t, u, R) /\ (Earned(t) => Earned(u))
  BY DEF Moderates, Earned, Reporters, Banned

LEMMA SideTables ==
  ASSUME NEW t \in Good, NEW e \in Events, NEW p \in Pubkeys, NEW q \in Pubkeys,
         NEW n, NEW R
  PROVE  /\ Aside(t, IndexRelays(t, e), R)
         /\ Aside(t, LogPayment(t, e), R)
         /\ Aside(t, StoreDelegation(t, p, q), R)
         /\ Aside(t, StoreListItems(t, e, n), R)
<1>0. t \in Tables /\ Earned(t)
  BY DEF Good
<1> USE <1>0 DEF Tables
<1>1. Aside(t, IndexRelays(t, e), R)
  <2> DEFINE u == IndexRelays(t, e)
  <2>1. /\ u \in Tables /\ u.events = t.events /\ u.tags = t.tags /\ u.fts = t.fts
        /\ u.reports = t.reports /\ u.banned = t.banned /\ u.payments = t.payments
    BY TagValues, EventTags DEF IndexRelays, Event
  <2> HIDE DEF u
  <2> QED BY <2>1, AsideByIndexes, SameModerates DEF u
<1>2. Aside(t, LogPayment(t, e), R)
  <2> DEFINE u == LogPayment(t, e)
  <2>1. /\ u \in Tables /\ u.events = t.events /\ u.tags = t.tags /\ u.fts = t.fts
        /\ u.reports = t.reports /\ u.banned = t.banned /\ t.payments \subseteq u.payments
    BY RowIds DEF LogPayment
  <2> HIDE DEF u
  <2> QED BY <2>1, AsideByIndexes, SameModerates DEF u
<1>3. Aside(t, StoreDelegation(t, p, q), R)
  <2> DEFINE u == StoreDelegation(t, p, q)
  <2>1. /\ u \in Tables /\ u.events = t.events /\ u.tags = t.tags /\ u.fts = t.fts
        /\ u.reports = t.reports /\ u.banned = t.banned /\ u.payments = t.payments
    BY DEF StoreDelegation
  <2> HIDE DEF u
  <2> QED BY <2>1, AsideByIndexes, SameModerates DEF u
<1>4. Aside(t, StoreListItems(t, e, n), R)
  <2> DEFINE u == StoreListItems(t, e, n)
  <2>1. e.pubkey \in Pubkeys /\ e.kind \in Kinds
    BY EventTags DEF Event
  <2>2. \A i \in Positions(e, "p") : e.tags[i][2] \in Pubkeys
    BY TagValues DEF ValuesOf
  <2>3. {<<e.pubkey, e.kind, e.tags[i][2]>> : i \in Positions(e, "p") \cap 1 .. n}
          \subseteq Pubkeys \X Kinds \X Pubkeys
    BY <2>1, <2>2
  <2>4. /\ u \in Tables /\ u.events = t.events /\ u.tags = t.tags /\ u.fts = t.fts
        /\ u.reports = t.reports /\ u.banned = t.banned /\ u.payments = t.payments
    BY <2>3 DEF StoreListItems
  <2> HIDE DEF u
  <2> QED BY <2>4, AsideByIndexes, SameModerates DEF u
<1> QED BY <1>1, <1>2, <1>3, <1>4

\* A report adds its reporter to those of its target.
LEMMA ReportAside ==
  ASSUME NEW t \in Good, NEW p \in Pubkeys, NEW q \in Pubkeys, NEW R, p \in R
  PROVE  Aside(t, StoreReport(t, p, q), R)
<1> DEFINE u == StoreReport(t, p, q)
<1>0. t \in Tables /\ Earned(t)
  BY DEF Good
<1>1. /\ u \in Tables /\ u.events = t.events /\ u.tags = t.tags /\ u.fts = t.fts
      /\ u.reports = t.reports \cup {<<p, q>>} /\ u.banned = t.banned
      /\ u.payments = t.payments
  BY <1>0 DEF Tables, StoreReport
<1> HIDE DEF u
<1>2. Reporters(u, p) = Reporters(t, p) \cup {q}
  BY <1>1 DEF Reporters
<1>3. \A r \in Pubkeys : r # p => Reporters(u, r) = Reporters(t, r)
  BY <1>1 DEF Reporters
<1>4. /\ IsFiniteSet(Reporters(t, p)) /\ IsFiniteSet(Reporters(u, p))
      /\ Cardinality(Reporters(t, p)) \in Nat /\ Cardinality(Reporters(u, p)) \in Nat
      /\ Cardinality(Reporters(u, p)) >= Cardinality(Reporters(t, p))
  <2>1. IsFiniteSet(Reporters(t, p))
    BY <1>0 DEF Earned
  <2>2. /\ IsFiniteSet(Reporters(u, p))
        /\ \/ Cardinality(Reporters(u, p)) = Cardinality(Reporters(t, p))
           \/ Cardinality(Reporters(u, p)) = Cardinality(Reporters(t, p)) + 1
    BY <1>2, <2>1, FS_AddElement
  <2>3. Cardinality(Reporters(t, p)) \in Nat
    BY <2>1, FS_CardinalityType
  <2> QED BY <2>1, <2>2, <2>3
<1>5. BanAt \in Nat
  BY KeysAssumption
<1>6. Earned(u)
  <2> SUFFICES ASSUME NEW r \in Pubkeys
               PROVE  /\ IsFiniteSet(Reporters(u, r))
                      /\ <<r, "nip56_auto">> \in u.banned => Cardinality(Reporters(u, r)) >= BanAt
    BY DEF Earned
  <2>1. CASE r # p
    BY <1>0, <1>1, <1>3, <2>1 DEF Earned
  <2>2. CASE r = p
    <3>1. <<p, "nip56_auto">> \in t.banned => Cardinality(Reporters(t, p)) >= BanAt
      BY <1>0 DEF Earned
    <3> QED BY <1>1, <1>4, <1>5, <2>2, <3>1
  <2> QED BY <2>1, <2>2
<1>7. Moderates(t, u, R)
  BY <1>1, <1>3 DEF Moderates, Banned
<1> QED BY <1>1, <1>6, <1>7, AsideByIndexes DEF u

\* A ban is set on p alone, an automatic one on enough reports.
LEMMA BanAside ==
  ASSUME NEW t \in Good, NEW p \in Pubkeys, NEW by \in BannedBy, NEW R,
         by = "nip56_auto" => Cardinality(Reporters(t, p)) >= BanAt
  PROVE  Aside(t, Ban(t, p, by), R) /\ Banned(Ban(t, p, by), p)
<1> DEFINE u == Ban(t, p, by)
<1>0. t \in Tables /\ Earned(t)
  BY DEF Good
<1>1. /\ u \in Tables /\ u.events = t.events /\ u.tags = t.tags /\ u.fts = t.fts
      /\ u.reports = t.reports /\ u.payments = t.payments
      /\ u.banned = {b \in t.banned : b[1] # p} \cup {<<p, by>>}
  BY <1>0 DEF Tables, Ban
<1> HIDE DEF u
<1>2. \A r \in Pubkeys : Reporters(u, r) = Reporters(t, r)
  BY <1>1 DEF Reporters
<1>3. Banned(u, p)
  BY <1>1 DEF Banned
<1>4. \A r \in Pubkeys, b \in BannedBy : r # p => (<<r, b>> \in u.banned <=> <<r, b>> \in t.banned)
  BY <1>1
<1>5. \A b \in BannedBy : <<p, b>> \in u.banned => b = by
  BY <1>1
<1>6. Earned(u)
  <2>1. "nip56_auto" \in BannedBy
    BY DEF BannedBy
  <2> QED BY <1>0, <1>2, <1>4, <1>5, <2>1 DEF Earned
<1>7. Moderates(t, u, R)
  BY <1>2, <1>3, <1>4 DEF Moderates, Banned
<1> QED BY <1>1, <1>3, <1>6, <1>7, AsideByIndexes DEF u

LEMMA AllowAside ==
  ASSUME NEW t \in Good, NEW p \in Pubkeys
  PROVE  Aside(t, Allow(t, p), {p})
<1> DEFINE u == Allow(t, p)
<1>0. t \in Tables /\ Earned(t)
  BY DEF Good
<1>1. /\ u \in Tables /\ u.events = t.events /\ u.tags = t.tags /\ u.fts = t.fts
      /\ u.reports = t.reports /\ u.payments = t.payments
      /\ u.banned = {b \in t.banned : b[1] # p}
  BY <1>0 DEF Tables, Allow
<1> HIDE DEF u
<1>2. Earned(u)
  BY <1>0, <1>1 DEF Earned, Reporters
<1>3. Moderates(t, u, {p})
  BY <1>1 DEF Moderates, Reporters, Banned
<1> QED BY <1>1, <1>2, <1>3, AsideByIndexes DEF u

LEMMA StartupAside ==
  ASSUME NEW t \in Good
  PROVE  Startup(t) \in Good /\ Startup(t).events = t.events /\ SameSide(t, Startup(t))
<1> DEFINE u == Startup(t)
<1>1. Named \subseteq Pubkeys
  BY KeysAssumption
<1>2. /\ u \in Tables /\ u.events = t.events /\ u.tags = t.tags /\ u.fts = t.fts
      /\ SameSide(t, u)
  BY <1>1 DEF Good, Tables, Startup, SameSide
<1> HIDE DEF u
<1>3. Earned(u)
  BY <1>2, SameSideEarned DEF Good
<1>4. Aside(t, u, {})
  BY <1>2, <1>3, AsideByIndexes, SameModerates DEF SameSide
<1> QED BY <1>2, <1>4 DEF Aside, u

LEMMA FreshGood == Fresh \in Good /\ Fresh.events = {} /\ Fresh.reports = {}
<1>1. /\ Fresh \in Tables /\ Fresh.events = {} /\ Fresh.tags = {} /\ Fresh.fts = {}
      /\ Fresh.reports = {} /\ Fresh.banned = {}
  BY DEF Fresh, Tables
<1>2. IdsOf(Fresh.events) = {}
  BY <1>1 DEF IdsOf
<1>3. Earned(Fresh)
  BY <1>1, FS_EmptySet DEF Earned, Reporters
<1>4. Sound(Fresh) /\ OneRow(Fresh) /\ Findable(Fresh) /\ Distinguished(Fresh)
  BY <1>1, <1>2 DEF Sound, OneRow, Findable, Distinguished
<1> QED BY <1>1, <1>3, <1>4 DEF Good

-----------------------------------------------------------------------------
(***************************************************************************)
(* The inductive invariant.                                                *)
(***************************************************************************)
(***************************************************************************)
(* How the committed tables d and the connection's view c may differ: the  *)
(* view has besides only rows whose storing raised, and lacks only what a  *)
(* deletion that raised has taken; the side tables are the same.           *)
(***************************************************************************)
Matches(d, c) ==
  /\ \A e \in Events : e.bad = 0 /\ e.id \in IdsOf(c.events) => e.id \in IdsOf(d.events)
  /\ SameSide(d, c)

\* What is acknowledged is in the view, and a payment in its log.
Vouched ==
  /\ \A e \in Events : e.id \in acked /\ e.bad = 0 => e.id \in IdsOf(conn.events)
  /\ \A e \in Events \ SsePosted : e.id \in acked /\ e.kind = 30000 => e.id \in conn.payments

\* The second half of AutoBanMatchesReports; the first is a part of Good.
Moderated ==
  \A p \in Pubkeys :
    Cardinality(Reporters(disk, p)) >= BanAt => Banned(disk, p) \/ p \in excused

(***************************************************************************)
(* AckedIsDurable is not inductive: a duplicate is acknowledged because    *)
(* the view has it, so the view must not have more good rows than the      *)
(* disk; and a commit commits what a deletion that raised has taken from   *)
(* the view, so what is acknowledged must be in the view.  Nor is          *)
(* OneVersion: the view must have one version too.                         *)
(***************************************************************************)
IInv ==
  /\ TypeOK
  /\ conn \in Good /\ disk \in Good
  /\ Matches(disk, conn)
  /\ Vouched /\ Moderated

LEMMA VouchedOnDisk == ASSUME IInv PROVE AckedIsDurable /\ AckedPaymentIsLogged
  BY DEF IInv, AckedIsDurable, AckedPaymentIsLogged, Matches, SameSide, Vouched

(***************************************************************************)
(* What a handler may commit: good tables with rows of the ids i of the    *)
(* view, no payment less, and the reports and bans of the view but for the    *)
(* keys R.                                                                 *)
(***************************************************************************)
Keep(i, R) ==
  {t \in Good : /\ i \subseteq IdsOf(t.events)
                /\ conn.payments \subseteq t.payments
                /\ Moderates(conn, t, R)}

-----------------------------------------------------------------------------
(***************************************************************************)
(* Sequences of commits.                                                   *)
(***************************************************************************)
LEMMA KeepSeq ==
  ASSUME NEW K
  PROVE  /\ <<>> \in Seq(K)
         /\ \A a \in K : <<a>> \in Seq(K)
         /\ \A a, b \in K : <<a, b>> \in Seq(K)
  OBVIOUS

LEMMA WiderSeq ==
  ASSUME NEW K, NEW L, K \subseteq L, NEW s \in Seq(K)
  PROVE  s \in Seq(L)
  OBVIOUS

LEMMA LatestOf ==
  ASSUME NEW K, NEW s \in Seq(K), NEW t
  PROVE  /\ s = <<>> => Latest(t, s) = t
         /\ s # <<>> => /\ Latest(t, s) \in K
                        /\ \A u : Latest(u, s) = Latest(t, s)
         /\ t \in K => Latest(t, s) \in K
<1>1. s # <<>> => Len(s) \in 1 .. Len(s)
  BY EmptySeq
<1>2. s # <<>> => s[Len(s)] \in K
  BY <1>1, ElementOfSeq
<1> QED BY <1>2 DEF Latest

LEMMA LatestConcat ==
  ASSUME NEW K, NEW r \in Seq(K), NEW s \in Seq(K), NEW t
  PROVE  /\ r \o s \in Seq(K)
         /\ Latest(t, r \o s) = Latest(Latest(t, r), s)
<1>1. /\ r \o s \in Seq(K)
      /\ Len(r \o s) = Len(r) + Len(s)
      /\ \A n \in 1 .. Len(r) + Len(s) :
           (r \o s)[n] = IF n <= Len(r) THEN r[n] ELSE s[n - Len(r)]
  BY ConcatProperties
<1>2. Len(r) \in Nat /\ Len(s) \in Nat
  BY LenProperties
<1>3. CASE s = <<>>
  BY <1>3, ConcatEmptySeq DEF Latest
<1>4. CASE s # <<>>
  <2>1. Len(s) > 0 /\ r \o s # <<>>
    BY <1>1, <1>2, <1>4, EmptySeq
  <2>2. (r \o s)[Len(r \o s)] = s[Len(s)]
    BY <1>1, <1>2, <2>1
  <2> QED BY <1>4, <2>1, <2>2 DEF Latest
<1> QED BY <1>1, <1>3, <1>4

\* What a step may leave: tables that match, and no row on disk that is neither
\* there already nor in the view.
Agrees(d, c) ==
  Matches(d, c) /\ IdsOf(d.events) \subseteq IdsOf(disk.events) \cup IdsOf(c.events)

LEMMA AgreesSelf == ASSUME NEW t PROVE Agrees(t, t)
  BY DEF Agrees, Matches, SameSide

LEMMA AgreesAtFirst == ASSUME IInv PROVE Agrees(disk, conn)
  BY DEF IInv, Agrees

LEMMA AgreesLatest ==
  ASSUME NEW K, NEW s \in Seq(K), NEW d, NEW c, Agrees(d, c)
  PROVE  Agrees(Latest(d, s), Latest(c, s))
<1>1. CASE s = <<>>
  BY <1>1 DEF Latest
<1>2. CASE s # <<>>
  BY <1>2, AgreesSelf DEF Latest
<1> QED BY <1>1, <1>2

LEMMA AsideKeeps ==
  ASSUME NEW i, NEW R, NEW t \in Keep(i, R), NEW u, Aside(t, u, R)
  PROVE  u \in Keep(i, R)
<1>1. Moderates(conn, u, R)
  BY DEF Aside, Keep, Moderates
<1> QED BY <1>1 DEF Aside, Keep

LEMMA KeepLess ==
  ASSUME NEW i, NEW j, NEW R, j \subseteq i
  PROVE  Keep(i, R) \subseteq Keep(j, R)
  BY DEF Keep

LEMMA OwnIds == ASSUME IInv, NEW R PROVE conn \in Keep(IdsOf(conn.events), R)
<1>1. Moderates(conn, conn, R)
  BY DEF Moderates
<1> QED BY <1>1 DEF Keep, IInv

-----------------------------------------------------------------------------
(***************************************************************************)
(* The side effects.                                                       *)
(***************************************************************************)
LEMMA Target ==
  ASSUME NEW e \in Events
  PROVE  /\ Last(e, "p") # Empty => Last(e, "p") \in Pubkeys
         /\ First(e, "delegation") # Empty => First(e, "delegation") \in Pubkeys
         /\ e.pubkey \in Pubkeys /\ e.id \in Ids
<1>1. Last(e, "p") \in ValuesOf(e, "p") \cup {Empty}
  BY LastValue
<1>2. First(e, "delegation") \in ValuesOf(e, "delegation") \cup {Empty}
  BY FirstValue
<1>3. ValuesOf(e, "p") \subseteq Pubkeys /\ ValuesOf(e, "delegation") \subseteq Pubkeys
  BY TagValues
<1>4. e.pubkey \in Pubkeys /\ e.id \in Ids
  BY EventTags DEF Event, Ids
<1> QED BY <1>1, <1>2, <1>3, <1>4

LEMMA ReportCommitsKeep ==
  ASSUME NEW i, NEW e \in Events, e.kind = 1984, NEW t \in Keep(i, Reported(e))
  PROVE  /\ ReportCommits(t, e) \in Seq(Keep(i, Reported(e)))
         /\ \A p \in Reported(e) : \A c :
              \/ /\ ReportCommits(t, e) # <<>>
                 /\ Banned(Latest(c, ReportCommits(t, e)), p)
              \/ /\ Len(ReportCommits(t, e)) = 1
                 /\ ~(Cardinality(Reporters(Latest(c, ReportCommits(t, e)), p)) >= BanAt)
<1> DEFINE target == Last(e, "p")
           R == Reported(e)
           filed  == StoreReport(t, target, e.pubkey)
           banned == Ban(filed, target, "nip56_auto")
<1>1. CASE target = Empty
  <2>1. ReportCommits(t, e) = <<>> /\ Reported(e) = {}
    BY <1>1 DEF ReportCommits, Reported
  <2> QED BY <2>1, KeepSeq
<1>2. CASE target # Empty
  <2>1. target \in Pubkeys /\ e.pubkey \in Pubkeys /\ R = {target}
    BY <1>2, Target DEF Reported
  <2>2. t \in Good /\ "nip56_auto" \in BannedBy
    BY DEF Keep, BannedBy
  <2>3. filed \in Keep(i, R) /\ filed \in Good
    <3>1. Aside(t, filed, R)
      BY <2>1, <2>2, ReportAside
    <3> QED BY <3>1, AsideKeeps DEF Aside
  <2>4. CASE Cardinality(Reporters(filed, target)) >= BanAt
    <3>1. ReportCommits(t, e) = <<filed, banned>>
      BY <1>2, <2>4 DEF ReportCommits
    <3> HIDE DEF filed
    <3>2. Aside(filed, banned, R) /\ Banned(banned, target)
      BY <2>1, <2>2, <2>3, <2>4, BanAside
    <3>3. banned \in Keep(i, R)
      BY <2>3, <3>2, AsideKeeps
    <3> HIDE DEF banned, target, R
    <3>4. <<filed, banned>> \in Seq(Keep(i, R))
      BY <2>3, <3>3, KeepSeq
    <3>5. \A c : Latest(c, <<filed, banned>>) = banned
      BY DEF Latest
    <3> QED BY <2>1, <3>1, <3>2, <3>4, <3>5 DEF R
  <2>5. CASE ~(Cardinality(Reporters(filed, target)) >= BanAt)
    <3>1. ReportCommits(t, e) = <<filed>>
      BY <1>2, <2>5 DEF ReportCommits
    <3> HIDE DEF filed, target, R
    <3>2. <<filed>> \in Seq(Keep(i, R)) /\ Len(<<filed>>) = 1
      BY <2>3, KeepSeq
    <3>3. \A c : Latest(c, <<filed>>) = filed
      BY DEF Latest
    <3> QED BY <2>1, <2>5, <3>1, <3>2, <3>3 DEF R
  <2> QED BY <2>4, <2>5
<1> QED BY <1>1, <1>2

LEMMA EffectsKeep ==
  ASSUME NEW i, NEW e \in Events, NEW t \in Keep(i, Reported(e))
  PROVE  Effects(t, e) \in Seq(Keep(i, Reported(e)))
<1>1. t \in Good /\ e.pubkey \in Pubkeys
  BY Target DEF Keep
<1>2. CASE e.kind = 10002
  <2>1. IndexRelays(t, e) \in Keep(i, Reported(e))
    BY <1>1, SideTables, AsideKeeps
  <2> QED BY <1>2, <2>1, KeepSeq DEF Effects
<1>3. CASE e.kind = 1984
  BY <1>3, ReportCommitsKeep DEF Effects
<1>4. CASE e.kind \in {10000, 10001}
  <2>1. \A n \in DOMAIN e.tags : StoreListItems(t, e, n) \in Keep(i, Reported(e))
    BY <1>1, SideTables, AsideKeeps
  <2>2. [n \in DOMAIN e.tags |-> StoreListItems(t, e, n)] \in Seq(Keep(i, Reported(e)))
    BY <2>1, EventTags
  <2> QED BY <1>4, <2>2, KeepSeq DEF Effects
<1>5. CASE e.kind \notin {10002, 1984, 10000, 10001}
  BY <1>5, KeepSeq DEF Effects
<1> QED BY <1>2, <1>3, <1>4, <1>5

-----------------------------------------------------------------------------
(***************************************************************************)
(* Storing, replacing and deleting.                                        *)
(***************************************************************************)
LEMMA MoreKeeps ==
  ASSUME NEW i, NEW R, NEW t \in Keep(i, R), NEW u \in Good,
         t.events \subseteq u.events, SameSide(t, u)
  PROVE  u \in Keep(i, R)
<1>1. IdsOf(t.events) \subseteq IdsOf(u.events)
  BY DEF IdsOf
<1>2. Moderates(conn, u, R)
  BY DEF Keep, Moderates, SameSide, Reporters, Banned
<1> QED BY <1>1, <1>2 DEF Keep, SameSide

LEMMA StoreStep ==
  ASSUME NEW i, NEW R, NEW t \in Keep(i, R), NEW e \in Events, Fits(t, e),
         NEW d, Agrees(d, t)
  PROVE  /\ StoreCommits(t, e) \in Seq(Keep(i, R))
         /\ StoreLeaves(t, e) \in Keep(i, R)
         /\ e.bad = 0 => e.id \in IdsOf(StoreLeaves(t, e).events)
         /\ SameSide(t, StoreLeaves(t, e))
         /\ Agrees(Latest(d, StoreCommits(t, e)), StoreLeaves(t, e))
<1>0. t \in Good
  BY DEF Keep
<1>1. CASE Known(t, e) \/ e.bad = RowItself
  <2>1. StoreCommits(t, e) = <<>> /\ StoreLeaves(t, e) = t
    BY <1>1 DEF StoreCommits, StoreLeaves, Latest, PartRow, RowItself
  <2>2. e.bad = 0 => e.id \in IdsOf(t.events)
    BY <1>1 DEF Known, RowItself
  <2> QED BY <2>1, <2>2, KeepSeq DEF Latest, SameSide
<1>2. CASE ~Known(t, e) /\ e.bad \notin {0, RowItself}
  <2> DEFINE u == PartRow(t, e)
  <2>1. StoreCommits(t, e) = <<>> /\ StoreLeaves(t, e) = u
    BY <1>2 DEF StoreCommits, StoreLeaves
  <2>2. u \in Good /\ u.events = t.events \cup {e} /\ SameSide(t, u)
    BY <1>0, <1>2, PartRowGood
  <2> HIDE DEF u
  <2>3. IdsOf(u.events) = IdsOf(t.events) \cup {e.id}
    BY <2>2 DEF IdsOf
  <2>4. u \in Keep(i, R)
    BY <2>2, MoreKeeps
  <2>5. Agrees(d, u)
    BY <1>2, <2>2, <2>3, EventsAssumption DEF Agrees, Matches, SameSide
  <2> QED BY <1>2, <2>1, <2>2, <2>3, <2>4, <2>5, KeepSeq DEF Latest
<1>3. CASE ~Known(t, e) /\ e.bad = 0
  <2> DEFINE u == StoreRow(t, e)
  <2>1. StoreCommits(t, e) = <<u>> /\ StoreLeaves(t, e) = u
    BY <1>3 DEF StoreCommits, StoreLeaves, Latest
  <2>2. u \in Good /\ u.events = t.events \cup {e} /\ SameSide(t, u)
    BY <1>0, <1>3, StoreRowGood
  <2> HIDE DEF u
  <2>3. e.id \in IdsOf(u.events)
    BY <2>2 DEF IdsOf
  <2>4. u \in Keep(i, R)
    BY <2>2, MoreKeeps
  <2>5. Latest(d, StoreCommits(t, e)) = u
    BY <2>1 DEF Latest
  <2> QED BY <2>1, <2>2, <2>3, <2>4, <2>5, KeepSeq, AgreesSelf
<1> QED BY <1>1, <1>2, <1>3

LEMMA DropKeeps ==
  ASSUME IInv, NEW rows \in SUBSET conn.events, NEW R
  PROVE  Drop(conn, rows) \in Keep(IdsOf(conn.events) \ IdsOf(rows), R)
<1> DEFINE u == Drop(conn, rows)
<1>1. u \in Good /\ u.events = conn.events \ rows /\ SameSide(conn, u)
  BY DropGood DEF IInv
<1> HIDE DEF u
<1>2. IdsOf(conn.events) \ IdsOf(rows) \subseteq IdsOf(conn.events \ rows)
  BY DEF IdsOf
<1>3. Moderates(conn, u, R)
  BY <1>1, SameModerates DEF SameSide
<1>4. u \in Keep(IdsOf(conn.events) \ IdsOf(rows), R)
  BY <1>1, <1>2, <1>3 DEF Keep, SameSide
<1> QED BY <1>4 DEF u

LEMMA AddressableKinds ==
  ASSUME NEW k, Addressable(k)
  PROVE  k \notin {1, 5, 10000, 10001, 10002, 1984}
<1>1. k \in 30000 .. 39999
  BY DEF Addressable
<1>2. k \in Int /\ k >= 30000
  BY <1>1
<1> QED BY <1>2

LEMMA SupersededRows == ASSUME NEW e PROVE Superseded(conn, e) \in SUBSET conn.events
  BY DEF Superseded

\* An event of a kind that is not addressable has no other version, nor has one the
\* relay does not keep apart.
LEMMA OthersFit ==
  ASSUME NEW t, NEW e, ~Addressable(e.kind) \/ e.kind = 30000 \/ e \in SsePosted
  PROVE  Fits(t, e)
  BY DEF Fits, Rivals, SameAddress

\* When the predecessors were deleted none is left, whatever the escape or the order
\* of its tags.
LEMMA ReplacedFits ==
  ASSUME IInv, NEW e \in Events
  PROVE  Fits(Latest(conn, Replace(conn, e)), e)
<1> DEFINE old == Superseded(conn, e)
           u   == Latest(conn, Replace(conn, e))
<1>1. conn.events \subseteq Rows /\ conn \in Good
  BY DEF IInv, Good, Tables
<1>2. u.events = conn.events \ old
  <2>1. CASE old = {}
    BY <2>1 DEF Replace, Latest
  <2>2. CASE old # {}
    <3>1. Latest(conn, Replace(conn, e)) = Drop(conn, old)
      BY <2>2 DEF Replace, Latest
    <3> QED BY <1>1, <3>1, DropGood, SupersededRows
  <2> QED BY <2>1, <2>2
<1> HIDE DEF u
<1>3. Fits(u, e)
  <2> SUFFICES ASSUME NEW x \in u.events, x.id # e.id, Rivals(x, e)
               PROVE  FALSE
    BY DEF Fits
  <2>1. x \in conn.events /\ x \in Rows /\ x \notin old
    BY <1>1, <1>2
  <2>2. /\ First(x, "d") # Empty /\ First(x, "d") \in Plain /\ First(e, "d") = First(x, "d")
        /\ x.pubkey = e.pubkey /\ x.kind = e.kind /\ Addressable(e.kind)
    BY DEF Rivals, SameAddress
  <2>3. TagsLike(x, First(e, "d"))
    BY <2>1, <2>2, FirstFound
  <2>4. x \in old
    BY <2>1, <2>2, <2>3 DEF Superseded
  <2> QED BY <2>1, <2>4
<1> QED BY <1>3 DEF u

LEMMA PreparedKeeps ==
  ASSUME IInv, NEW e \in Events, e \notin waiting \/ ~Addressable(e.kind)
  PROVE  /\ Prepared(e) \in Seq(Keep(IdsOf(conn.events) \ Removed(e), Reported(e)))
         /\ Accepted(e) => Fits(Latest(conn, Prepared(e)), e)
         /\ ~Addressable(e.kind) => Prepared(e) = Effects(conn, e)
<1> DEFINE i == IdsOf(conn.events)
           j == i \ Removed(e)
           R == Reported(e)
<1>1. conn \in Keep(i, R) /\ conn \in Keep(j, R) /\ conn \in Good
  BY OwnIds, KeepLess DEF IInv
<1>2. Effects(conn, e) \in Seq(Keep(j, R))
  BY <1>1, EffectsKeep
<1>3. CASE ~Addressable(e.kind)
  <2>1. Superseded(Latest(conn, Effects(conn, e)), e) = {}
    BY <1>3 DEF Superseded
  <2>2. Prepared(e) = Effects(conn, e) \o <<>> \/ Prepared(e) = Effects(conn, e)
    BY <2>1 DEF Prepared, Replace
  <2>3. Prepared(e) = Effects(conn, e)
    BY <1>2, <2>2, ConcatEmptySeq
  <2> QED BY <1>2, <1>3, <2>3, OthersFit
<1>4. CASE Addressable(e.kind)
  <2>0. e.kind \notin {5, 10000, 10001, 10002, 1984}
    BY <1>4, AddressableKinds
  <2>1. Effects(conn, e) = <<>>
    BY <2>0 DEF Effects
  <2>2. Latest(conn, Effects(conn, e)) = conn
    BY <2>1 DEF Latest
  <2>3. CASE ~Accepted(e)
    BY <1>2, <1>4, <2>3 DEF Prepared
  <2>4. CASE Accepted(e)
    <3>1. Removed(e) = IdsOf(Superseded(conn, e))
      BY <1>4, <2>0, <2>4 DEF Removed
    <3>2. Drop(conn, Superseded(conn, e)) \in Keep(j, R)
      BY <3>1, DropKeeps, SupersededRows
    <3>3. Replace(conn, e) \in Seq(Keep(j, R))
      BY <3>2, KeepSeq DEF Replace
    <3>4. Prepared(e) = <<>> \o Replace(conn, e)
      BY <2>1, <2>2, <2>4 DEF Prepared
    <3>5. Prepared(e) = Replace(conn, e)
      BY <3>3, <3>4, ConcatEmptySeq
    <3> QED BY <1>4, <3>3, <3>5, ReplacedFits
  <2> QED BY <2>3, <2>4
<1> QED BY <1>3, <1>4

LEMMA GoodLatest ==
  ASSUME IInv, NEW j, NEW R, NEW s \in Seq(Keep(j, R))
  PROVE  Latest(disk, s) \in Good
<1>1. CASE s = <<>>
  BY <1>1, LatestOf DEF IInv
<1>2. CASE s # <<>>
  BY <1>2, LatestOf DEF Keep
<1> QED BY <1>1, <1>2

LEMMA PublishStep ==
  ASSUME IInv, NEW e \in Events, e \notin waiting \/ ~Addressable(e.kind)
  PROVE  LET j == IdsOf(conn.events) \ Removed(e)
             R == Reported(e)
             c == Latest(conn, Prepared(e))
         IN  /\ Prepared(e) \in Seq(Keep(j, R)) /\ PublishCommits(e) \in Seq(Keep(j, R))
             /\ c \in Keep(j, R)
             /\ Agrees(Latest(disk, Prepared(e)), c)
             /\ Accepted(e) =>
                  /\ StoreLeaves(c, e) \in Keep(j, R)
                  /\ e.bad = 0 => e.id \in IdsOf(StoreLeaves(c, e).events)
                  /\ SameSide(c, StoreLeaves(c, e))
                  /\ Agrees(Latest(disk, PublishCommits(e)), StoreLeaves(c, e))
<1> DEFINE j == IdsOf(conn.events) \ Removed(e)
           R == Reported(e)
           c == Latest(conn, Prepared(e))
           d == Latest(disk, Prepared(e))
<1>1. Prepared(e) \in Seq(Keep(j, R)) /\ (Accepted(e) => Fits(c, e))
  BY PreparedKeeps
<1>2. conn \in Keep(j, R)
  BY OwnIds, KeepLess
<1>3. c \in Keep(j, R)
  BY <1>1, <1>2, LatestOf
<1>5. Agrees(d, c)
  BY <1>1, AgreesLatest, AgreesAtFirst
<1>6. CASE ~Accepted(e)
  BY <1>1, <1>3, <1>5, <1>6 DEF PublishCommits
<1>7. CASE Accepted(e)
  <2>1. /\ StoreCommits(c, e) \in Seq(Keep(j, R))
        /\ StoreLeaves(c, e) \in Keep(j, R)
        /\ e.bad = 0 => e.id \in IdsOf(StoreLeaves(c, e).events)
        /\ SameSide(c, StoreLeaves(c, e))
        /\ Agrees(Latest(d, StoreCommits(c, e)), StoreLeaves(c, e))
    BY <1>1, <1>3, <1>5, <1>7, StoreStep
  <2>2. /\ Prepared(e) \o StoreCommits(c, e) \in Seq(Keep(j, R))
        /\ Latest(disk, Prepared(e) \o StoreCommits(c, e)) = Latest(d, StoreCommits(c, e))
    BY <1>1, <2>1, LatestConcat
  <2>3. PublishCommits(e) = Prepared(e) \o StoreCommits(c, e)
    BY <1>7 DEF PublishCommits
  <2> QED BY <1>1, <1>3, <1>5, <2>1, <2>2, <2>3
<1> QED BY <1>6, <1>7

LEMMA DeleteStep ==
  ASSUME IInv, NEW e \in Events, e.kind = 5
  PROVE  LET j == IdsOf(conn.events) \ Removed(e)
             R == Reported(e)
             u == Latest(Gone(e), DeleteCommits(e))
         IN  /\ DeleteCommits(e) \in Seq(Keep(j, R))
             /\ u \in Keep(j, R)
             /\ e.bad = 0 => e.id \in IdsOf(u.events)
             /\ Agrees(Latest(disk, DeleteCommits(e)), u)
<1> DEFINE j == IdsOf(conn.events) \ Removed(e)
           R == Reported(e)
           gone == Gone(e)
           kept == BareRow(gone, e)
<1>0. DeleteTargets(conn, e) \in SUBSET conn.events
  BY DEF DeleteTargets
<1>1. gone \in Keep(j, R)
  <2>1. Removed(e) = IdsOf(DeleteTargets(conn, e))
    BY DEF Removed
  <2> QED BY <1>0, <2>1, DropKeeps DEF Gone
<1>2. gone.events \subseteq conn.events /\ SameSide(conn, gone)
  BY <1>0, DropGood DEF Gone, IInv
<1>3. gone \in Good
  BY <1>1 DEF Keep
<1> HIDE DEF gone
<1>4. CASE BreaksOff(e)
  <2>1. DeleteCommits(e) = <<>> /\ e.bad # 0
    BY <1>4, EventTags DEF DeleteCommits, BreaksOff, Positions
  <2>2. Agrees(disk, gone)
    BY <1>2 DEF IInv, Agrees, Matches, SameSide, IdsOf
  <2> QED BY <1>1, <2>1, <2>2, KeepSeq DEF Latest, gone
<1>5. CASE ~BreaksOff(e) /\ e.bad = RowItself
  <2>1. DeleteCommits(e) = <<gone>> /\ e.bad # 0
    BY <1>5 DEF DeleteCommits, RowItself, gone
  <2>2. \A t : Latest(t, <<gone>>) = gone
    BY DEF Latest
  <2> QED BY <1>1, <2>1, <2>2, KeepSeq, AgreesSelf
<1>6. CASE ~BreaksOff(e) /\ e.bad # RowItself
  <2>1. e \in Rows /\ \A f \in Events : f.id = e.id => f.kind = 5
    BY RowIds, EventsAssumption
  <2>2. /\ kept \in Good /\ e.id \in IdsOf(kept.events)
        /\ gone.events \subseteq kept.events /\ SameSide(gone, kept)
    BY <1>3, <1>6, <2>1, BareRowGood
  <2>3. DeleteCommits(e) = <<gone, kept>>
    BY <1>6 DEF DeleteCommits, gone, kept
  <2> HIDE DEF kept
  <2>4. kept \in Keep(j, R)
    BY <1>1, <2>2, MoreKeeps
  <2>5. <<gone, kept>> \in Seq(Keep(j, R))
    BY <1>1, <2>4, KeepSeq
  <2>6. \A t : Latest(t, <<gone, kept>>) = kept
    BY DEF Latest
  <2> QED BY <2>2, <2>3, <2>4, <2>5, <2>6, AgreesSelf
<1> QED BY <1>4, <1>5, <1>6

\* A payment: the log first, then the row.
LEMMA PayStep ==
  ASSUME IInv, NEW e \in Events, e.kind = 30000
  PROVE  LET j == IdsOf(conn.events)
             R == Reported(e)
             u == StoreLeaves(LogPayment(conn, e), e)
         IN  /\ PayCommits(e) \in Seq(Keep(j, R))
             /\ u \in Keep(j, R)
             /\ (e.bad = 0 => e.id \in IdsOf(u.events)) /\ e.id \in u.payments
             /\ Agrees(Latest(disk, PayCommits(e)), u)
<1> DEFINE j == IdsOf(conn.events)
           R == Reported(e)
           c == LogPayment(conn, e)
           log == <<c>>
<1>1. conn \in Keep(j, R) /\ conn \in Good /\ e.pubkey \in Pubkeys
  BY OwnIds, Target DEF IInv
<1>2. c \in Keep(j, R) /\ e.id \in c.payments
  <2>1. e.id \in c.payments
    BY <1>1 DEF LogPayment, Good, Tables
  <2>2. Aside(conn, c, R)
    BY <1>1, SideTables
  <2> QED BY <1>1, <2>1, <2>2, AsideKeeps
<1> HIDE DEF c
<1>3. /\ StoreCommits(c, e) \in Seq(Keep(j, R))
      /\ StoreLeaves(c, e) \in Keep(j, R)
      /\ e.bad = 0 => e.id \in IdsOf(StoreLeaves(c, e).events)
      /\ SameSide(c, StoreLeaves(c, e))
      /\ Agrees(Latest(c, StoreCommits(c, e)), StoreLeaves(c, e))
  BY <1>2, AgreesSelf, StoreStep, OthersFit
<1>4. log \in Seq(Keep(j, R)) /\ Latest(disk, log) = c
  BY <1>2, KeepSeq DEF Latest
<1> HIDE DEF log
<1>5. /\ log \o StoreCommits(c, e) \in Seq(Keep(j, R))
      /\ Latest(disk, log \o StoreCommits(c, e)) = Latest(c, StoreCommits(c, e))
  BY <1>3, <1>4, LatestConcat
<1>6. PayCommits(e) = log \o StoreCommits(c, e)
  BY DEF PayCommits, c, log
<1> QED BY <1>2, <1>3, <1>5, <1>6 DEF c, SameSide

-----------------------------------------------------------------------------
(***************************************************************************)
(* When a step preserves the invariant, and removes nobody else's event:   *)
(* its view and its disk keep rows of the ids j that stand, the two agree, *)
(* and what is acknowledged, logged and excused fits.                      *)
(***************************************************************************)
Bookkeeping ==
  /\ waiting \subseteq Publishable /\ \A e \in waiting : e.kind \in {1984, 30000}
  /\ crashes \in 0 .. Crashes
  /\ acked \subseteq Ids
  /\ excused \subseteq Pubkeys
  /\ reply \in Replies

RowsKept(j) == Standing \cap j \subseteq IdsOf(disk'.events)

ByAuthor(j) ==
  \A i \in Standing \ j : \E f \in Actor(reply'.to) : f.pubkey = AuthorOf[i]

\* Enough reports of a key in R end in a ban, or an excuse; nobody else loses his.
Excuses(R) ==
  /\ excused \ R \subseteq excused'
  /\ \A p \in R : \/ ~(Cardinality(Reporters(conn', p)) >= BanAt)
                  \/ Banned(conn', p) \/ p \in excused'

Authored ==
  /\ \A i \in Standing \ Standing' : \E f \in Actor(reply'.to) : f.pubkey = AuthorOf[i]
  /\ IdsOf(disk'.events) \subseteq IdsOf(disk.events) \cup IdsOf(conn'.events)

LEMMA StepKeeps ==
  ASSUME IInv, NEW j, NEW R, conn' \in Keep(j, R), disk' \in Good, Agrees(disk', conn'),
         RowsKept(j), ByAuthor(j), Vouched', Excuses(R), Bookkeeping'
  PROVE  IInv' /\ Authored
<1>1. conn' \in Good /\ Moderates(conn, conn', R)
  BY DEF Keep
<1>2. TypeOK'
  <2>1. conn' \in Tables /\ disk' \in Tables
    BY <1>1 DEF Good
  <2> QED BY <2>1 DEF TypeOK, Bookkeeping
<1>3. Matches(disk', conn')
  BY DEF Agrees
<1>4. Matches(disk, conn)'
  BY <1>3 DEF Matches, SameSide
<1>5. Moderated'
  <2> SUFFICES ASSUME NEW p \in Pubkeys, Cardinality(Reporters(disk', p)) >= BanAt
               PROVE  Banned(disk', p) \/ p \in excused'
    BY DEF Moderated, Reporters, Banned
  <2>1. /\ Reporters(disk', p) = Reporters(conn', p)
        /\ Banned(disk', p) <=> Banned(conn', p)
    BY <1>3 DEF Matches, SameSide, Reporters, Banned
  <2>2. CASE p \in R
    BY <2>1, <2>2 DEF Excuses
  <2>3. CASE p \notin R
    <3>1. /\ Reporters(disk, p) = Reporters(conn, p)
          /\ Banned(disk, p) <=> Banned(conn, p)
      BY DEF IInv, Matches, SameSide, Reporters, Banned
    <3>2. /\ Reporters(conn', p) = Reporters(conn, p)
          /\ Banned(conn, p) => Banned(conn', p)
      BY <1>1, <2>3 DEF Moderates
    <3>3. Banned(disk, p) \/ p \in excused
      BY <2>1, <3>1, <3>2 DEF IInv, Moderated
    <3> QED BY <2>1, <2>3, <3>1, <3>2, <3>3 DEF Excuses
  <2> QED BY <2>2, <2>3
<1>6. Authored
  <2>1. j \subseteq IdsOf(conn'.events)
    BY DEF Keep
  <2>2. Standing \cap j \subseteq Standing'
    BY <2>1 DEF RowsKept, Standing
  <2> QED BY <2>2 DEF Authored, ByAuthor, Agrees
<1> QED BY <1>1, <1>2, <1>4, <1>5, <1>6 DEF IInv

LEMMA BookkeepingOf == ASSUME IInv PROVE Bookkeeping
  BY DEF IInv, TypeOK, Bookkeeping

LEMMA VouchedOf == ASSUME IInv PROVE Vouched
  BY DEF IInv

\* Nothing new is acknowledged, and what is removed no longer is.
LEMMA NothingAcked ==
  ASSUME IInv, NEW j, NEW R, conn' \in Keep(j, R), acked' \subseteq acked,
         \A f \in Events : f.bad = 0 /\ f.id \in acked' \cap IdsOf(conn.events)
                           => f.id \in IdsOf(conn'.events)
  PROVE  Vouched'
  BY VouchedOf DEF Vouched, Keep

LEMMA OneAcked ==
  ASSUME IInv, NEW j, NEW R, conn' \in Keep(j, R), NEW e \in Events,
         IdsOf(conn.events) \ Removed(e) \subseteq j,
         acked' \subseteq (acked \ Removed(e)) \cup {e.id},
         e.bad = 0 => e.id \in IdsOf(conn'.events),
         e.kind = 30000 => e \in SsePosted \/ e.id \in conn'.payments
  PROVE  Vouched'
<1>1. Vouched /\ j \subseteq IdsOf(conn'.events) /\ conn.payments \subseteq conn'.payments
  BY VouchedOf DEF Keep
<1>2. \A f \in Events : f.id = e.id => f = e
  BY EventsAssumption
<1> QED BY <1>1, <1>2 DEF Vouched

LEMMA ReplyType ==
  ASSUME NEW e \in Events, NEW says \in Answers
  PROVE  [to |-> e.id, says |-> says] \in Replies
  BY DEF Ids, Replies

\* Commits keep the rows of the ids they keep.
LEMMA DiskKeeps ==
  ASSUME IInv, NEW j, NEW R, NEW s \in Seq(Keep(j, R)), disk' = Latest(disk, s)
  PROVE  RowsKept(j) /\ disk' \in Good
<1>1. CASE s = <<>>
  BY <1>1, LatestOf, GoodLatest DEF RowsKept, Standing
<1>2. CASE s # <<>>
  <2>1. disk' \in Keep(j, R)
    BY <1>2, LatestOf
  <2> QED BY <2>1 DEF Keep, RowsKept
<1> QED BY <1>1, <1>2

LEMMA ViewKeeps ==
  ASSUME IInv, NEW j, NEW R, conn' \in Keep(j, R), disk' = conn'
  PROVE  RowsKept(j) /\ disk' \in Good /\ Agrees(disk', conn')
  BY AgreesSelf DEF Keep, RowsKept

LEMMA AllIds == ASSUME NEW j, Standing \subseteq j PROVE ByAuthor(j)
  BY DEF ByAuthor

LEMMA AllOwnIds == ByAuthor(IdsOf(conn.events))
  BY DEF ByAuthor, Standing

LEMMA RowAuthor == \A x \in Rows : x.id \in Ids /\ AuthorOf[x.id] = x.pubkey
<1>1. ASSUME NEW e \in Events PROVE e.id \in Ids /\ AuthorOf[e.id] = e.pubkey
  <2>1. (CHOOSE f \in Events : f.id = e.id) = e
    BY EventsAssumption
  <2> QED BY <2>1 DEF AuthorOf, Ids
<1>2. \A e \in Events : Fetched(e).id = e.id /\ Fetched(e).pubkey = e.pubkey
  BY EventsAssumption DEF Fetched, Event
<1> QED BY <1>1, <1>2 DEF Rows

\* What a handler removes is its author's.
LEMMA RemovedOwn ==
  ASSUME IInv, NEW e \in Events, NEW i \in Removed(e)
  PROVE  i \in Ids /\ AuthorOf[i] = e.pubkey
<1>1. PICK y \in DeleteTargets(conn, e) \cup Superseded(conn, e) : y.id = i
  BY DEF Removed, IdsOf
<1>2. y \in conn.events /\ y.pubkey = e.pubkey
  BY DEF DeleteTargets, Superseded
<1>3. y \in Rows
  BY <1>2 DEF IInv, Good, Tables
<1> QED BY <1>1, <1>2, <1>3, RowAuthor

LEMMA RemovedRows ==
  ASSUME IInv, NEW e \in Events, reply'.to = e.id
  PROVE  ByAuthor(IdsOf(conn.events) \ Removed(e))
<1> SUFFICES ASSUME NEW i \in Standing, i \notin IdsOf(conn.events) \ Removed(e)
             PROVE  e.pubkey = AuthorOf[i]
  BY DEF ByAuthor, Actor
<1>1. i \in Removed(e)
  BY DEF Standing
<1> QED BY <1>1, RemovedOwn

LEMMA NoExcuse ==
  ASSUME IInv, excused \subseteq excused' PROVE Excuses({})
  BY DEF Excuses

LEMMA UnreportedExcuse ==
  ASSUME NEW e, e.kind # 1984
  PROVE  Reported(e) = {}
  BY DEF Reported

-----------------------------------------------------------------------------
(***************************************************************************)
(* One lemma per handler.                                                  *)
(***************************************************************************)
LEMMA RefuseStep ==
  ASSUME IInv, NEW e \in Publishable, NEW who \in Sessions, Refuse(e, who)
  PROVE  IInv' /\ Authored
<1> DEFINE j == IdsOf(conn.events)
<1>1. e \in Events /\ "false" \in Answers
  BY SourcesAssumption DEF Answers
<1>2. conn' = conn /\ disk' = disk /\ acked' = acked /\ excused' = excused
  BY DEF Refuse
<1>3. conn' \in Keep(j, {}) /\ disk' \in Good /\ Agrees(disk', conn')
  BY <1>2, OwnIds, AgreesAtFirst DEF IInv
<1>4. Bookkeeping'
  BY <1>1, BookkeepingOf, ReplyType DEF Bookkeeping, Refuse
<1>5. Vouched' /\ RowsKept(j) /\ Excuses({})
  BY <1>2, VouchedOf, NoExcuse DEF Vouched, RowsKept, Standing
<1> QED BY <1>3, <1>4, <1>5, AllOwnIds, StepKeeps

LEMMA DeleteHandlerStep ==
  ASSUME IInv, NEW e \in Publishable, NEW who \in Sessions, Delete(e, who)
  PROVE  IInv' /\ Authored
<1> DEFINE j == IdsOf(conn.events) \ Removed(e)
<1>1. e \in Events /\ e.id \in Ids /\ {"true", "nothing"} \subseteq Answers /\ e.kind = 5
  BY SourcesAssumption DEF Answers, Ids, Delete
<1>2. Reported(e) = {}
  BY <1>1, UnreportedExcuse
<1>3. /\ disk' = Latest(disk, DeleteCommits(e)) /\ conn' = Latest(Gone(e), DeleteCommits(e))
      /\ reply'.to = e.id /\ reply' \in Replies
      /\ acked' \subseteq (acked \ Removed(e)) \cup {e.id} /\ excused' = excused
  BY <1>1, ReplyType DEF Delete, Finish
<1>4. /\ DeleteCommits(e) \in Seq(Keep(j, {})) /\ conn' \in Keep(j, {})
      /\ e.bad = 0 => e.id \in IdsOf(conn'.events)
      /\ Agrees(disk', conn')
  <2>1. /\ DeleteCommits(e) \in Seq(Keep(j, Reported(e))) /\ conn' \in Keep(j, Reported(e))
        /\ e.bad = 0 => e.id \in IdsOf(conn'.events)
        /\ Agrees(disk', conn')
    BY <1>1, <1>3, DeleteStep
  <2> QED BY <1>2, <2>1
<1>5. Vouched'
  BY <1>1, <1>3, <1>4, OneAcked
<1>6. Bookkeeping'
  BY <1>1, <1>3, BookkeepingOf DEF Bookkeeping, Delete
<1>7. ByAuthor(j) /\ Excuses({})
  BY <1>1, <1>3, RemovedRows, NoExcuse
<1>8. RowsKept(j) /\ disk' \in Good
  BY <1>3, <1>4, DiskKeeps
<1> QED BY <1>4, <1>5, <1>6, <1>7, <1>8, StepKeeps

LEMMA DelegateStep ==
  ASSUME IInv, NEW e \in Events, Delegates(e), NEW R
  PROVE  LET j == IdsOf(conn.events)
             s == <<StoreDelegation(conn, e.pubkey, First(e, "delegation"))>>
         IN  /\ s \in Seq(Keep(j, R))
             /\ Latest(conn, s) \in Keep(j, R) /\ Latest(disk, s) = Latest(conn, s)
<1> DEFINE u == StoreDelegation(conn, e.pubkey, First(e, "delegation"))
<1>1. conn \in Keep(IdsOf(conn.events), R) /\ conn \in Good
  BY OwnIds DEF IInv
<1>2. First(e, "delegation") \in Pubkeys /\ e.pubkey \in Pubkeys
  <2>1. First(e, "delegation") # Empty
    BY DEF Delegates
  <2> QED BY <2>1, Target
<1>3. u \in Keep(IdsOf(conn.events), R)
  <2>1. Aside(conn, u, R)
    BY <1>1, <1>2, SideTables
  <2> QED BY <1>1, <2>1, AsideKeeps
<1> HIDE DEF u
<1>4. <<u>> \in Seq(Keep(IdsOf(conn.events), R)) /\ Latest(conn, <<u>>) = u /\ Latest(disk, <<u>>) = u
  BY <1>3, KeepSeq DEF Latest
<1> QED BY <1>3, <1>4 DEF u

LEMMA DelegateHandlerStep ==
  ASSUME IInv, NEW e \in Publishable, NEW who \in Sessions, Delegate(e, who)
  PROVE  IInv' /\ Authored
<1> DEFINE j == IdsOf(conn.events)
<1>1. e \in Events /\ "true" \in Answers
  BY SourcesAssumption DEF Answers
<1>2. HandlerCommits(e) = <<StoreDelegation(conn, e.pubkey, First(e, "delegation"))>>
  <2>1. Delegates(e) /\ e.kind = 22222
    BY DEF Delegate, Delegates
  <2> QED BY <2>1 DEF HandlerCommits
<1>3. Latest(conn, HandlerCommits(e)) \in Keep(j, {})
      /\ Latest(disk, HandlerCommits(e)) = Latest(conn, HandlerCommits(e))
  <2>1. Delegates(e)
    BY DEF Delegate
  <2> QED BY <1>1, <1>2, <2>1, DelegateStep
<1>4. conn' \in Keep(j, {}) /\ disk' = conn' /\ acked' = acked /\ excused' = excused
  BY <1>3 DEF Delegate, Finish
<1>5. Bookkeeping'
  BY <1>1, BookkeepingOf, ReplyType DEF Bookkeeping, Delegate, Finish
<1>6. Vouched' /\ Excuses({})
  <2>1. IdsOf(conn.events) \subseteq IdsOf(conn'.events)
    BY <1>4 DEF Keep
  <2> QED BY <1>4, <2>1, NothingAcked, NoExcuse
<1> QED BY <1>4, <1>5, <1>6, ViewKeeps, AllOwnIds, StepKeeps

\* A report that does not ban leaves too few reports to ban.
LEMMA PublishExcuses ==
  ASSUME IInv, NEW e \in Events, ~Bans(e), excused' = excused \ Reported(e),
         SameSide(Latest(conn, Prepared(e)), conn')
  PROVE  Excuses(Reported(e))
<1>1. CASE e.kind # 1984
  BY <1>1, UnreportedExcuse, NoExcuse
<1>2. CASE e.kind = 1984
  <2>1. ~Addressable(e.kind)
    BY <1>2, AddressableKinds
  <2>2. Prepared(e) = ReportCommits(conn, e)
    <3>1. Prepared(e) = Effects(conn, e)
      BY <2>1, PreparedKeeps
    <3>2. Effects(conn, e) = ReportCommits(conn, e)
      BY <1>2 DEF Effects
    <3> QED BY <3>1, <3>2
  <2>3. Len(ReportCommits(conn, e)) # 2
    BY <1>2 DEF Bans
  <2>4. conn \in Keep(IdsOf(conn.events), Reported(e))
    BY OwnIds
  <2>5. \A p \in Reported(e) :
          ~(Cardinality(Reporters(Latest(conn, ReportCommits(conn, e)), p)) >= BanAt)
    <3> SUFFICES ASSUME NEW p \in Reported(e)
                 PROVE  ~(Cardinality(Reporters(Latest(conn, ReportCommits(conn, e)), p)) >= BanAt)
      OBVIOUS
    <3>1. Last(e, "p") # Empty /\ p = Last(e, "p")
      BY DEF Reported
    <3> DEFINE filed == StoreReport(conn, Last(e, "p"), e.pubkey)
    <3>2. ReportCommits(conn, e) = <<filed>> /\ ~(Cardinality(Reporters(filed, p)) >= BanAt)
      BY <2>3, <3>1 DEF ReportCommits
    <3>3. Latest(conn, <<filed>>) = filed
      BY DEF Latest
    <3> QED BY <3>2, <3>3
  <2>6. \A p : Reporters(conn', p) = Reporters(Latest(conn, ReportCommits(conn, e)), p)
    BY <2>2 DEF SameSide, Reporters
  <2> QED BY <2>5, <2>6 DEF Excuses
<1> QED BY <1>1, <1>2

LEMMA PublishHandlerStep ==
  ASSUME IInv, NEW e \in Publishable, NEW who \in Sessions, Publish(e, who)
  PROVE  IInv' /\ Authored
<1> DEFINE j == IdsOf(conn.events) \ Removed(e)
           R == Reported(e)
           c == Latest(conn, Prepared(e))
<1>1. e \in Events /\ e.id \in Ids /\ {"true", "false"} \subseteq Answers
  BY SourcesAssumption DEF Answers, Ids
<1>2. e \notin waiting \/ ~Addressable(e.kind)
  <2>1. e \in waiting => e.kind = 1984
    BY DEF IInv, TypeOK, Publish, Simple
  <2>2. ~Addressable(1984)
    BY AddressableKinds
  <2> QED BY <2>1, <2>2
<1>3. /\ Prepared(e) \in Seq(Keep(j, R)) /\ PublishCommits(e) \in Seq(Keep(j, R))
      /\ c \in Keep(j, R)
      /\ Agrees(Latest(disk, Prepared(e)), c)
      /\ Accepted(e) => /\ StoreLeaves(c, e) \in Keep(j, R)
                        /\ e.bad = 0 => e.id \in IdsOf(StoreLeaves(c, e).events)
                        /\ SameSide(c, StoreLeaves(c, e))
                        /\ Agrees(Latest(disk, PublishCommits(e)), StoreLeaves(c, e))
  BY <1>1, <1>2, PublishStep
<1>4. /\ waiting' = waiting /\ crashes' = crashes /\ excused' = excused \ Reported(e)
      /\ reply'.to = e.id /\ reply' \in Replies /\ ~Bans(e) /\ e.kind # 30000
  <2>1. e.kind # 30000 /\ ~Bans(e)
    BY DEF Publish, Simple
  <2>2. reply' \in {[to |-> e.id, says |-> "true"], [to |-> e.id, says |-> "false"]}
    BY DEF Publish, Finish
  <2>3. [to |-> e.id, says |-> "true"] \in Replies /\ [to |-> e.id, says |-> "false"] \in Replies
    BY <1>1, ReplyType
  <2> QED BY <2>1, <2>2, <2>3 DEF Publish
<1>5. CASE Accepted(e)
  <2>1. /\ disk' = Latest(disk, PublishCommits(e)) /\ conn' = StoreLeaves(c, e)
        /\ acked' = (acked \ Removed(e)) \cup {e.id}
    BY <1>5 DEF Publish, Finish
  <2>2. /\ conn' \in Keep(j, R) /\ Agrees(disk', conn')
        /\ e.bad = 0 => e.id \in IdsOf(conn'.events)
        /\ SameSide(c, conn')
    BY <1>3, <1>5, <2>1
  <2>3. Vouched'
    BY <1>1, <1>4, <2>1, <2>2, OneAcked
  <2>4. Bookkeeping'
    BY <1>1, <1>4, <2>1, BookkeepingOf DEF Bookkeeping
  <2>5. Excuses(R)
    BY <1>1, <1>4, <2>2, PublishExcuses
  <2>6. RowsKept(j) /\ disk' \in Good
    BY <1>3, <2>1, DiskKeeps
  <2> QED BY <1>1, <1>4, <2>2, <2>3, <2>4, <2>5, <2>6, RemovedRows, StepKeeps
<1>6. CASE ~Accepted(e)
  <2>1. disk' = Latest(disk, Prepared(e)) /\ conn' = c /\ acked' = acked
    BY <1>6 DEF Publish, Finish
  <2>2. conn' \in Keep(j, R) /\ Agrees(disk', conn')
    BY <1>3, <2>1
  <2>3. Removed(e) = {}
    <3>1. e.kind # 5
      BY DEF Publish, Simple
    <3> QED BY <1>6, <3>1 DEF Removed, IdsOf
  <2>4. Vouched'
    <3>1. IdsOf(conn.events) \subseteq IdsOf(conn'.events)
      BY <2>2, <2>3 DEF Keep
    <3> QED BY <2>1, <2>2, <3>1, NothingAcked
  <2>5. Bookkeeping'
    BY <1>4, <2>1, BookkeepingOf DEF Bookkeeping
  <2>6. Excuses(R)
    <3>1. SameSide(c, conn')
      BY <2>1 DEF SameSide
    <3> QED BY <1>1, <1>4, <3>1, PublishExcuses
  <2>7. RowsKept(j) /\ disk' \in Good
    BY <1>3, <2>1, DiskKeeps
  <2> QED BY <1>1, <1>4, <2>2, <2>4, <2>5, <2>6, <2>7, RemovedRows, StepKeeps
<1> QED BY <1>5, <1>6

\* One more event is acknowledged.
LEMMA AlsoAcked ==
  ASSUME IInv, NEW R, conn' \in Keep(IdsOf(conn.events), R), NEW e \in Events,
         acked' = acked \cup {e.id}, e.bad = 0 => e.id \in IdsOf(conn'.events),
         e.kind = 30000 => e \in SsePosted \/ e.id \in conn'.payments
  PROVE  Vouched'
<1>1. /\ Vouched /\ IdsOf(conn.events) \subseteq IdsOf(conn'.events)
      /\ conn.payments \subseteq conn'.payments
  BY VouchedOf DEF Keep
<1>2. \A f \in Events : f.id = e.id => f = e
  BY EventsAssumption
<1> QED BY <1>1, <1>2 DEF Vouched

\* A step that sets both views to tables with the view's rows, acknowledging nothing.
LEMMA BothStep ==
  ASSUME IInv, NEW R, conn' \in Keep(IdsOf(conn.events), R), disk' = conn', acked' = acked,
         Excuses(R), Bookkeeping'
  PROVE  IInv' /\ Authored
<1>1. Vouched'
  <2>1. IdsOf(conn.events) \subseteq IdsOf(conn'.events)
    BY DEF Keep
  <2> QED BY <2>1, NothingAcked
<1> QED BY <1>1, ViewKeeps, AllOwnIds, StepKeeps

\* A step that leaves the tables and the acknowledgements alone.
LEMMA IdleStep ==
  ASSUME IInv, conn' = conn, disk' = disk, acked' = acked, excused' = excused, Bookkeeping'
  PROVE  IInv' /\ Authored
<1> DEFINE j == IdsOf(conn.events)
<1>1. conn' \in Keep(j, {}) /\ disk' \in Good /\ Agrees(disk', conn')
  BY OwnIds, AgreesAtFirst DEF IInv
<1>2. Vouched' /\ RowsKept(j) /\ Excuses({})
  BY VouchedOf, NoExcuse DEF Vouched, RowsKept, Standing
<1> QED BY <1>1, <1>2, AllOwnIds, StepKeeps

LEMMA ReportBeginStep ==
  ASSUME IInv, NEW e \in Publishable, NEW who \in Sessions, ReportBegin(e, who)
  PROVE  IInv' /\ Authored
<1> DEFINE j == IdsOf(conn.events)
           R == Reported(e)
           s == ReportCommits(conn, e)
<1>1. e \in Events /\ "nothing" \in Answers /\ e.kind = 1984
  BY SourcesAssumption DEF Answers, ReportBegin, Bans
<1>2. conn \in Keep(j, R)
  BY OwnIds
<1>3. /\ disk' = Latest(disk, s) /\ conn' = Latest(conn, s)
      /\ reply' = [to |-> e.id, says |-> "nothing"]
      /\ waiting' = waiting \cup {e} /\ excused' = excused \ R
      /\ crashes' = crashes /\ acked' = acked
  BY DEF ReportBegin, Finish
<1>4. s \in Seq(Keep(j, R))
  BY <1>1, <1>2, ReportCommitsKeep
<1>5. Excuses(R)
  <2>1. Len(s) = 2
    BY DEF ReportBegin, Bans
  <2>2. \A p \in R : \A c : Banned(Latest(c, s), p) \/ Len(s) = 1
    BY <1>1, <1>2, ReportCommitsKeep
  <2>3. \A p \in R : Banned(Latest(conn, s), p)
    BY <2>1, <2>2
  <2> QED BY <1>3, <2>3 DEF Excuses
<1> HIDE DEF s
<1>6. conn' \in Keep(j, R) /\ RowsKept(j) /\ disk' \in Good
  BY <1>2, <1>3, <1>4, LatestOf, DiskKeeps
<1>7. Agrees(disk', conn')
  BY <1>3, <1>4, AgreesLatest, AgreesAtFirst
<1>8. Bookkeeping'
  BY <1>1, <1>3, BookkeepingOf, ReplyType DEF Bookkeeping
<1>9. Vouched'
  <2>1. IdsOf(conn.events) \subseteq IdsOf(conn'.events)
    BY <1>6 DEF Keep
  <2> QED BY <1>3, <1>6, <2>1, NothingAcked
<1> QED BY <1>5, <1>6, <1>7, <1>8, <1>9, AllOwnIds, StepKeeps

LEMMA ReportEndStep ==
  ASSUME IInv, NEW e \in waiting, ReportEnd(e)
  PROVE  IInv' /\ Authored
<1> DEFINE j == IdsOf(conn.events)
<1>1. e \in Events /\ e.id \in Ids /\ {"true", "false", "nothing"} \subseteq Answers
      /\ e.kind = 1984
  BY SourcesAssumption DEF IInv, TypeOK, Answers, Ids, ReportEnd
<1>2. /\ waiting' = waiting \ {e} /\ crashes' = crashes /\ excused' = excused
      /\ reply' \in Replies
  BY <1>1, ReplyType DEF ReportEnd, Finish
<1>3. CASE disk' = Latest(disk, <<>>) /\ conn' = conn /\ acked' = acked
  <2>1. disk' = disk
    BY <1>3 DEF Latest
  <2>2. Bookkeeping'
    BY <1>2, <1>3, BookkeepingOf DEF Bookkeeping
  <2> QED BY <1>2, <1>3, <2>1, <2>2, IdleStep
<1>4. CASE /\ disk' = Latest(disk, StoreCommits(conn, e))
           /\ conn' = StoreLeaves(conn, e)
           /\ acked' = acked \cup {e.id}
  <2>1. conn \in Keep(j, {}) /\ Agrees(disk, conn) /\ Fits(conn, e)
    BY <1>1, OwnIds, OthersFit, AddressableKinds, AgreesAtFirst
  <2>2. /\ StoreCommits(conn, e) \in Seq(Keep(j, {}))
        /\ conn' \in Keep(j, {}) /\ (e.bad = 0 => e.id \in IdsOf(conn'.events))
        /\ Agrees(disk', conn')
    BY <1>1, <1>4, <2>1, StoreStep
  <2>3. RowsKept(j) /\ disk' \in Good
    BY <1>4, <2>2, DiskKeeps
  <2>4. Vouched' /\ Excuses({})
    BY <1>1, <1>2, <1>4, <2>2, AlsoAcked, NoExcuse
  <2>5. Bookkeeping'
    BY <1>1, <1>2, <1>4, BookkeepingOf DEF Bookkeeping
  <2> QED BY <2>2, <2>3, <2>4, <2>5, AllOwnIds, StepKeeps
<1> QED BY <1>3, <1>4 DEF ReportEnd, Finish

LEMMA PayBeginStep ==
  ASSUME IInv, NEW e \in Publishable, NEW who \in Sessions, PayBegin(e, who)
  PROVE  IInv' /\ Authored
<1> DEFINE j == IdsOf(conn.events) \ Removed(e)
           c == Latest(conn, Prepared(e))
<1>1. e \in Events /\ {"false", "nothing"} \subseteq Answers /\ e \notin waiting
      /\ e.kind \in {30000, 30001}
  BY SourcesAssumption DEF Answers, PayBegin
<1>2. Reported(e) = {}
  BY <1>1, UnreportedExcuse
<1>3. /\ waiting' \subseteq waiting \cup {e}
      /\ e \in waiting' => e \in waiting \/ e.kind = 30000
      /\ crashes' = crashes /\ excused' = excused /\ acked' \subseteq acked
      /\ reply' \in Replies /\ reply'.to = e.id
  BY <1>1, ReplyType DEF PayBegin, Finish, Awaits
<1>4. Bookkeeping'
  BY <1>3, BookkeepingOf DEF Bookkeeping
<1>5. CASE ~e.valid
  <2>1. conn' = conn /\ disk' = disk /\ acked' = acked
    BY <1>5 DEF PayBegin, Finish, Latest
  <2> QED BY <1>3, <1>4, <2>1, IdleStep
<1>6. CASE e.valid
  <2>1. conn' = c /\ disk' = Latest(disk, Prepared(e)) /\ acked' = acked \ Removed(e)
    BY <1>6 DEF PayBegin, Finish
  <2>2. /\ Prepared(e) \in Seq(Keep(j, {})) /\ c \in Keep(j, {})
        /\ Agrees(Latest(disk, Prepared(e)), c)
    <3>1. /\ Prepared(e) \in Seq(Keep(j, Reported(e))) /\ c \in Keep(j, Reported(e))
          /\ Agrees(Latest(disk, Prepared(e)), c)
      BY <1>1, PublishStep
    <3> QED BY <1>2, <3>1
  <2>3. RowsKept(j) /\ disk' \in Good
    BY <2>1, <2>2, DiskKeeps
  <2>4. Vouched'
    <3>1. j \subseteq IdsOf(conn'.events)
      BY <2>1, <2>2 DEF Keep
    <3> QED BY <2>1, <2>2, <3>1, NothingAcked
  <2>5. ByAuthor(j) /\ Excuses({})
    BY <1>1, <1>3, RemovedRows, NoExcuse
  <2> QED BY <1>4, <2>1, <2>2, <2>3, <2>4, <2>5, StepKeeps
<1> QED BY <1>5, <1>6

LEMMA PayEndStep ==
  ASSUME IInv, NEW e \in waiting, PayEnd(e)
  PROVE  IInv' /\ Authored
<1> DEFINE j == IdsOf(conn.events)
           u == StoreLeaves(LogPayment(conn, e), e)
<1>1. e \in Events /\ e.id \in Ids /\ {"true", "false"} \subseteq Answers
      /\ e.kind = 30000
  BY SourcesAssumption DEF IInv, TypeOK, Answers, Ids, PayEnd
<1>2. /\ waiting' = waiting \ {e} /\ crashes' = crashes /\ excused' = excused
      /\ reply' \in Replies
  BY <1>1, ReplyType DEF PayEnd, Finish
<1>3. CASE disk' = Latest(disk, <<>>) /\ conn' = conn /\ acked' = acked
  <2>1. disk' = disk
    BY <1>3 DEF Latest
  <2>2. Bookkeeping'
    BY <1>2, <1>3, BookkeepingOf DEF Bookkeeping
  <2> QED BY <1>2, <1>3, <2>1, <2>2, IdleStep
<1>4. CASE /\ disk' = Latest(disk, PayCommits(e))
           /\ conn' = u
           /\ acked' = acked \cup {e.id}
  <2>0. Reported(e) = {}
    BY <1>1, UnreportedExcuse
  <2>1. /\ PayCommits(e) \in Seq(Keep(j, {})) /\ u \in Keep(j, {})
        /\ (e.bad = 0 => e.id \in IdsOf(u.events)) /\ e.id \in u.payments
        /\ Agrees(Latest(disk, PayCommits(e)), u)
    <3>1. /\ PayCommits(e) \in Seq(Keep(j, Reported(e))) /\ u \in Keep(j, Reported(e))
          /\ (e.bad = 0 => e.id \in IdsOf(u.events)) /\ e.id \in u.payments
          /\ Agrees(Latest(disk, PayCommits(e)), u)
      BY <1>1, PayStep
    <3> QED BY <2>0, <3>1
  <2>2. RowsKept(j) /\ disk' \in Good
    BY <1>4, <2>1, DiskKeeps
  <2>3. Vouched' /\ Excuses({})
    BY <1>1, <1>2, <1>4, <2>1, AlsoAcked, NoExcuse
  <2>4. Bookkeeping'
    BY <1>1, <1>2, <1>4, BookkeepingOf DEF Bookkeeping
  <2> QED BY <1>4, <2>1, <2>2, <2>3, <2>4, AllOwnIds, StepKeeps
<1> QED BY <1>3, <1>4 DEF PayEnd, Finish

-----------------------------------------------------------------------------
(***************************************************************************)
(* The other writers, and crashes.                                         *)
(***************************************************************************)
\* A fetched row is of kind 1, and no event held by external relays need be Findable.
LEMMA FetchStep ==
  ASSUME IInv, NEW e \in Remote, Fetch(e)
  PROVE  IInv' /\ Authored
<1> DEFINE j == IdsOf(conn.events)
           x == Fetched(e)
           u == BareRow(conn, x)
<1>1. e \in Events /\ x \in Rows /\ x.id = e.id /\ x.kind = 1
  BY SourcesAssumption, RowIds
<1>2. conn \in Good /\ conn \in Keep(j, {})
  BY OwnIds DEF IInv
<1>3. \A f \in Events \ Remote : f.id = x.id => f.kind = 5
  BY <1>1, EventsAssumption
<1>4. u \in Good /\ conn.events \subseteq u.events /\ SameSide(conn, u)
  BY <1>1, <1>2, <1>3, BareRowGood
<1>5. conn' = (IF Known(conn, e) THEN conn ELSE u) /\ disk' = conn'
      /\ acked' = acked /\ excused' = excused
  BY DEF Fetch
<1> HIDE DEF u
<1>6. conn' \in Keep(j, {})
  BY <1>2, <1>4, <1>5, MoreKeeps
<1>7. Bookkeeping'
  BY BookkeepingOf DEF Bookkeeping, Fetch, Quiet, Replies, Answers
<1> QED BY <1>5, <1>6, <1>7, NoExcuse, BothStep

LEMMA PostStep ==
  ASSUME IInv, NEW e \in SsePosted, Post(e)
  PROVE  IInv' /\ Authored
<1> DEFINE j == IdsOf(conn.events)
<1>1. e \in Events /\ e.id \in Ids /\ "true" \in Answers
  BY SourcesAssumption DEF Answers, Ids
<1>2. conn \in Keep(j, {}) /\ Agrees(disk, conn) /\ Fits(conn, e)
  BY OwnIds, OthersFit, AgreesAtFirst
<1>3. /\ disk' = Latest(disk, StoreCommits(conn, e)) /\ conn' = StoreLeaves(conn, e)
      /\ acked' = acked \cup {e.id} /\ excused' = excused
  BY DEF Post, Finish
<1>4. /\ StoreCommits(conn, e) \in Seq(Keep(j, {}))
      /\ conn' \in Keep(j, {}) /\ (e.bad = 0 => e.id \in IdsOf(conn'.events))
      /\ Agrees(disk', conn')
  BY <1>1, <1>2, <1>3, StoreStep
<1>5. RowsKept(j) /\ disk' \in Good
  BY <1>3, <1>4, DiskKeeps
<1>6. Vouched' /\ Excuses({})
  BY <1>1, <1>3, <1>4, AlsoAcked, NoExcuse
<1>7. Bookkeeping'
  BY <1>1, BookkeepingOf, ReplyType DEF Bookkeeping, Post, Finish
<1> QED BY <1>4, <1>5, <1>6, <1>7, AllOwnIds, StepKeeps

LEMMA AdminStep ==
  ASSUME IInv, NEW p \in Managed, AdminBan(p) \/ AdminAllow(p)
  PROVE  IInv' /\ Authored
<1> DEFINE j == IdsOf(conn.events)
<1>1. p \in Pubkeys /\ conn \in Good
      /\ "nip86_api" \in BannedBy /\ "nip86_api" # "nip56_auto"
  BY SourcesAssumption DEF IInv, BannedBy
<1>2. Bookkeeping'
  BY <1>1, BookkeepingOf DEF Bookkeeping, AdminBan, AdminAllow, Quiet, Replies, Answers
<1>3. CASE AdminBan(p)
  <2>1. conn' = Ban(conn, p, "nip86_api") /\ disk' = conn' /\ acked' = acked
        /\ excused' = excused
    BY <1>3 DEF AdminBan
  <2>2. Aside(conn, conn', {})
    BY <1>1, <2>1, BanAside
  <2>3. conn' \in Keep(j, {})
    BY <2>2, OwnIds, AsideKeeps
  <2> QED BY <1>2, <2>1, <2>3, NoExcuse, BothStep
<1>4. CASE AdminAllow(p)
  <2>1. conn' = Allow(conn, p) /\ disk' = conn' /\ acked' = acked
        /\ excused' = excused \cup {p}
    BY <1>4 DEF AdminAllow
  <2>2. Aside(conn, conn', {p})
    BY <1>1, <2>1, AllowAside
  <2>3. conn' \in Keep(j, {p})
    BY <2>2, OwnIds, AsideKeeps
  <2>4. Excuses({p})
    BY <2>1 DEF Excuses
  <2> QED BY <1>2, <2>1, <2>3, <2>4, BothStep
<1> QED BY <1>3, <1>4

LEMMA HandlerCommitsKeep ==
  ASSUME IInv, NEW e \in Events
  PROVE  HandlerCommits(e) \in Seq(Keep(IdsOf(conn.events) \ Removed(e), Reported(e)))
<1> DEFINE i == IdsOf(conn.events)
           j == i \ Removed(e)
           R == Reported(e)
<1>0. Keep(i, R) \subseteq Keep(j, R) /\ conn \in Keep(i, R)
  BY KeepLess, OwnIds
<1>wider. \A s \in Seq(Keep(i, R)) : s \in Seq(Keep(j, R))
  BY <1>0, WiderSeq
<1>1. CASE e.kind = 5
  BY <1>1, DeleteStep DEF HandlerCommits
<1>2. CASE e.kind # 5 /\ Delegates(e)
  <2>1. HandlerCommits(e) = <<StoreDelegation(conn, e.pubkey, First(e, "delegation"))>>
    BY <1>2 DEF HandlerCommits
  <2> QED BY <1>wider, <1>2, <2>1, DelegateStep
<1>3. CASE e.kind # 5 /\ ~Delegates(e) /\ e \in waiting
  <2>1. HandlerCommits(e) = Resumed(e) /\ e.kind \in {1984, 30000}
    BY <1>3 DEF HandlerCommits, IInv, TypeOK
  <2>2. CASE e.kind = 30000
    <3>1. Resumed(e) = PayCommits(e)
      BY <2>2 DEF Resumed
    <3>2. PayCommits(e) \in Seq(Keep(i, R))
      BY <2>2, PayStep
    <3>3. PayCommits(e) \in Seq(Keep(j, R))
      BY <1>0, <3>2, WiderSeq
    <3> QED BY <2>1, <3>1, <3>3
  <2>3. CASE e.kind = 1984
    <3>1. Fits(conn, e) /\ Agrees(disk, conn)
      BY <2>3, OthersFit, AddressableKinds, AgreesAtFirst
    <3>2. StoreCommits(conn, e) \in Seq(Keep(i, R)) /\ <<>> \in Seq(Keep(i, R))
      BY <1>0, <3>1, StoreStep, KeepSeq
    <3>3. StoreCommits(conn, e) \in Seq(Keep(j, R)) /\ <<>> \in Seq(Keep(j, R))
      BY <1>0, <3>2, WiderSeq, KeepSeq
    <3>4. CASE e.valid
      <4>1. HandlerCommits(e) = StoreCommits(conn, e)
        BY <2>1, <2>3, <3>4 DEF Resumed
      <4> QED BY <3>3, <4>1
    <3>5. CASE ~e.valid
      <4>1. HandlerCommits(e) = <<>>
        BY <2>1, <2>3, <3>5 DEF Resumed
      <4> QED BY <3>3, <4>1
    <3> QED BY <3>4, <3>5
  <2> QED BY <2>1, <2>2, <2>3
<1>4. CASE e.kind # 5 /\ ~Delegates(e) /\ e \notin waiting /\ Bans(e)
  <2>1. HandlerCommits(e) = ReportCommits(conn, e) /\ e.kind = 1984
    BY <1>4 DEF HandlerCommits, Bans
  <2>2. conn \in Keep(j, Reported(e)) /\ e.kind = 1984
    BY <1>0, <2>1
  <2>3. ReportCommits(conn, e) \in Seq(Keep(j, Reported(e)))
    <3> HIDE DEF j
    <3> QED BY <2>2, ReportCommitsKeep
  <2> QED BY <2>1, <2>3
<1>5. CASE e.kind # 5 /\ ~Delegates(e) /\ e \notin waiting /\ ~Bans(e)
  <2>1. HandlerCommits(e) \in {PublishCommits(e), Prepared(e)}
    BY <1>5 DEF HandlerCommits
  <2>2. PublishCommits(e) \in Seq(Keep(j, R)) /\ Prepared(e) \in Seq(Keep(j, R))
    BY <1>5, PublishStep
  <2> QED BY <2>1, <2>2
<1> QED BY <1>1, <1>2, <1>3, <1>4, <1>5

\* Restarting on committed tables t keeps the invariant if t has what stays
\* acknowledged, and what else is gone was its author's.
LEMMA RestartKeeps ==
  ASSUME IInv, NEW j, NEW R, NEW t \in Keep(j, R), Restart(t), acked' \subseteq acked,
         \A f \in Events : f.bad = 0 /\ f.id \in acked' \cap IdsOf(conn.events)
                           => f.id \in IdsOf(t.events),
         excused \subseteq excused', R \subseteq excused', excused' \subseteq Pubkeys,
         reply' \in Replies, ByAuthor(j)
  PROVE  IInv' /\ Authored
<1>1. Startup(t) \in Good /\ Startup(t).events = t.events /\ SameSide(t, Startup(t))
  BY StartupAside DEF Keep
<1>2. conn' = Startup(t) /\ disk' = conn' /\ waiting' = {} /\ crashes' = crashes + 1
      /\ crashes < Crashes
  BY DEF Restart
<1>3. conn' \in Keep(j, R)
  BY <1>1, <1>2, MoreKeeps
<1>4. crashes' \in 0 .. Crashes
  BY <1>2, SourcesAssumption DEF IInv, TypeOK
<1>5. Bookkeeping'
  BY <1>2, <1>4, BookkeepingOf DEF Bookkeeping
<1>6. Vouched' /\ Excuses(R)
  BY <1>1, <1>2, <1>3, NothingAcked DEF Excuses
<1> QED BY <1>2, <1>3, <1>5, <1>6, ViewKeeps, StepKeeps

\* What is not committed is lost, and none of it was acknowledged.
LEMMA CrashStep == ASSUME IInv, Crash PROVE IInv' /\ Authored
<1> DEFINE j == IdsOf(disk.events)
<1>1. disk \in Good /\ acked' = acked /\ excused' = excused /\ Restart(disk)
  BY DEF IInv, Crash
<1>2. disk \in Keep(j, {})
  <2>1. SameSide(disk, conn)
    BY DEF IInv, Matches
  <2>2. Moderates(conn, disk, {})
    BY <2>1, SameModerates DEF SameSide
  <2> QED BY <1>1, <2>1, <2>2 DEF Keep, SameSide
<1>3. reply' \in Replies
  BY DEF Crash, Quiet, Replies, Answers
<1>4. \A f \in Events : f.bad = 0 /\ f.id \in acked' \cap IdsOf(conn.events)
                         => f.id \in IdsOf(disk.events)
  BY DEF IInv, Matches
<1>5. ByAuthor(j)
  BY AllIds DEF Standing
<1> QED BY <1>1, <1>2, <1>3, <1>4, <1>5, BookkeepingOf, RestartKeeps DEF Bookkeeping

LEMMA CrashInsideStep ==
  ASSUME IInv, NEW e \in Publishable, NEW who \in Sessions, CrashInside(e, who)
  PROVE  IInv' /\ Authored
<1> DEFINE j == IdsOf(conn.events) \ Removed(e)
           R == Reported(e)
<1>1. e \in Events /\ "nothing" \in Answers
  BY SourcesAssumption DEF Answers
<1>2. PICK n \in DOMAIN HandlerCommits(e) :
        /\ Restart(HandlerCommits(e)[n])
        /\ acked' = acked \ (Removed(e) \ IdsOf(HandlerCommits(e)[n].events))
  BY DEF CrashInside
<1> DEFINE t == HandlerCommits(e)[n]
<1>3. t \in Keep(j, R)
  BY <1>1, HandlerCommitsKeep
<1>4. Restart(t) /\ acked' = acked \ (Removed(e) \ IdsOf(t.events))
  BY <1>2
<1> HIDE DEF t
<1>5. acked' \subseteq acked /\ acked' \cap IdsOf(conn.events) \subseteq IdsOf(t.events)
  <2>1. j \subseteq IdsOf(t.events)
    BY <1>3 DEF Keep
  <2> QED BY <1>4, <2>1
<1>6. R \subseteq Pubkeys
  BY <1>1, Target DEF Reported
<1>7. /\ excused' = excused \cup R /\ excused' \subseteq Pubkeys
      /\ reply' \in Replies /\ reply'.to = e.id
  BY <1>1, <1>6, BookkeepingOf, ReplyType DEF CrashInside, Bookkeeping
<1>8. ByAuthor(j)
  BY <1>1, <1>7, RemovedRows
<1> QED BY <1>3, <1>4, <1>5, <1>7, <1>8, RestartKeeps

-----------------------------------------------------------------------------
(***************************************************************************)
(* The invariant, and what follows from it.                                *)
(***************************************************************************)
LEMMA InitIInv == Init => IInv
<1> SUFFICES ASSUME Init PROVE IInv
  OBVIOUS
<1>1. conn \in Good /\ disk \in Good /\ Matches(disk, conn)
  BY FreshGood DEF Init, Matches, SameSide
<1>2. TypeOK
  BY <1>1, SourcesAssumption DEF Init, TypeOK, Good, Quiet, Replies, Answers
<1>3. Vouched
  BY DEF Init, Vouched
<1>4. Moderated
  <2> SUFFICES ASSUME NEW p \in Pubkeys PROVE ~(Cardinality(Reporters(disk, p)) >= BanAt)
    BY DEF Moderated
  <2>1. Reporters(disk, p) = {}
    BY FreshGood DEF Init, Reporters
  <2> QED BY <2>1, FS_EmptySet, KeysAssumption
<1> QED BY <1>1, <1>2, <1>3, <1>4 DEF IInv

LEMMA IdleIInv == ASSUME IInv, UNCHANGED vars PROVE IInv'
<1> USE DEF vars
<1>1. TypeOK'
  BY DEF IInv, TypeOK
<1>2. conn' \in Good /\ disk' \in Good /\ Matches(disk, conn)'
  BY DEF IInv, Matches, SameSide
<1>3. Vouched' /\ Moderated'
  BY DEF IInv, Vouched, Moderated, Reporters, Banned
<1> QED BY <1>1, <1>2, <1>3 DEF IInv

LEMMA NextIInv == ASSUME IInv, Next PROVE IInv' /\ Authored
<1>1. ASSUME NEW e \in Publishable, NEW who \in Sessions, Refuse(e, who)
      PROVE  IInv' /\ Authored
  BY <1>1, RefuseStep
<1>2. ASSUME NEW e \in Publishable, NEW who \in Sessions, Delete(e, who)
      PROVE  IInv' /\ Authored
  BY <1>2, DeleteHandlerStep
<1>3. ASSUME NEW e \in Publishable, NEW who \in Sessions, Delegate(e, who)
      PROVE  IInv' /\ Authored
  BY <1>3, DelegateHandlerStep
<1>4. ASSUME NEW e \in Publishable, NEW who \in Sessions, Publish(e, who)
      PROVE  IInv' /\ Authored
  BY <1>4, PublishHandlerStep
<1>5. ASSUME NEW e \in Publishable, NEW who \in Sessions, ReportBegin(e, who)
      PROVE  IInv' /\ Authored
  BY <1>5, ReportBeginStep
<1>6. ASSUME NEW e \in Publishable, NEW who \in Sessions, PayBegin(e, who)
      PROVE  IInv' /\ Authored
  BY <1>6, PayBeginStep
<1>7. ASSUME NEW e \in Publishable, NEW who \in Sessions, CrashInside(e, who)
      PROVE  IInv' /\ Authored
  BY <1>7, CrashInsideStep
<1>8. ASSUME NEW e \in waiting, PayEnd(e) PROVE IInv' /\ Authored
  BY <1>8, PayEndStep
<1>9. ASSUME NEW e \in waiting, ReportEnd(e) PROVE IInv' /\ Authored
  BY <1>9, ReportEndStep
<1>10. ASSUME NEW e \in Remote, Fetch(e) PROVE IInv' /\ Authored
  BY <1>10, FetchStep
<1>11. ASSUME NEW e \in SsePosted, Post(e) PROVE IInv' /\ Authored
  BY <1>11, PostStep
<1>12. ASSUME NEW p \in Managed, AdminBan(p) \/ AdminAllow(p) PROVE IInv' /\ Authored
  BY <1>12, AdminStep
<1>13. CASE Crash
  BY <1>13, CrashStep
<1> QED BY <1>1, <1>2, <1>3, <1>4, <1>5, <1>6, <1>7, <1>8, <1>9, <1>10, <1>11,
           <1>12, <1>13 DEF Next

\* IInv holds in every reachable state of the event handler, the mesh fetcher,
\* the SSE endpoint, the administration calls and the crashes together.
THEOREM Invariance == Spec => []IInv
<1>1. Init => IInv
  BY InitIInv
<1>2. IInv /\ [Next]_vars => IInv'
  BY NextIInv, IdleIInv
<1> QED BY <1>1, <1>2, PTL DEF Spec

\* The tables, the suspended handlers and the histories keep their types.
THEOREM TypeCorrect == Spec => []TypeOK
<1>1. IInv => TypeOK
  BY DEF IInv
<1> QED BY <1>1, Invariance, PTL

\* What _handle_event acknowledged with OK true stays committed until its
\* author deletes or replaces it, whatever other writers and crashes do.
THEOREM Durability == Spec => []AckedIsDurable
<1>1. IInv => AckedIsDurable
  BY VouchedOnDisk
<1> QED BY <1>1, Invariance, PTL

\* Neither event_tags nor events_fts ever names an event that is gone.
THEOREM IndexesSound == Spec => []IndexSound
<1>1. IInv => IndexSound
  BY DEF IInv, Good, Sound, IndexSound
<1> QED BY <1>1, Invariance, PTL

\* What _handle_event or the SSE endpoint acknowledged and _store_event_sync stored is
\* found by every indexed tag and by its text.
THEOREM IndexesComplete == Spec => []AckedIsIndexed
<1>1. IInv => AckedIsIndexed
  BY VouchedOnDisk DEF IInv, Good, Findable, AckedIsDurable, AckedIsIndexed
<1> QED BY <1>1, Invariance, PTL

\* The NIP-33 branch leaves at most one version of an address: whatever the order of
\* the tags, the deletions and the crashes.
THEOREM VersionsAreUnique == Spec => []OneVersion
<1>1. IInv => OneVersion
  BY DEF IInv, Good, Distinguished, Rivals, OneVersion
<1> QED BY <1>1, Invariance, PTL

\* A payment acknowledged over the WebSocket is in the payments table, though the
\* handler was suspended while it was verified.
THEOREM PaymentsAreLogged == Spec => []AckedPaymentIsLogged
<1>1. IInv => AckedPaymentIsLogged
  BY VouchedOnDisk
<1> QED BY <1>1, Invariance, PTL

\* An automatic ban rests on BanAt reports, and as many reports end in a ban unless
\* the administrator or a crash came between.
THEOREM BansMatchReports == Spec => []AutoBanMatchesReports
<1>1. IInv => AutoBanMatchesReports
  BY DEF IInv, Good, Earned, Moderated, AutoBanMatchesReports
<1> QED BY <1>1, Invariance, PTL

\* No step, of no handler and no crash, deletes a committed event, or opens a
\* transaction that does, but that of an event by the same author.
THEOREM OnlyAuthorsRemove == Spec => RemovedByAuthor
<1>1. IInv /\ [Next]_vars =>
        [\A i \in Standing \ Standing' :
           \E e \in Actor(reply'.to) : e.pubkey = AuthorOf[i]]_vars
  BY NextIInv DEF Authored
<1> QED BY <1>1, Invariance, PTL DEF Spec, RemovedByAuthor

-----------------------------------------------------------------------------
(***************************************************************************)
(* The refinement of EventStore.                                           *)
(***************************************************************************)
Kept     == IdsOf(disk.events)
Pending  == IdsOf(disk.events) \ IdsOf(conn.events)
Promised == {e.id : e \in {f \in Events : f.id \in acked /\ f.bad = 0}}

\* What the step of an event's handler, or a crash inside it, says and unsays:
\* it answers that event, and what it takes back is what it removes.
Answered(e) ==
  /\ reply'.to = e.id
  /\ acked \ acked' \subseteq Removed(e) /\ acked' \subseteq acked \cup {e.id}

LEMMA StepAnswers ==
  ASSUME NEW e, NEW who,
         \/ Refuse(e, who) \/ Delete(e, who) \/ Delegate(e, who) \/ Publish(e, who)
         \/ ReportBegin(e, who) \/ PayBegin(e, who) \/ CrashInside(e, who)
         \/ PayEnd(e) \/ ReportEnd(e) \/ Post(e)
  PROVE  Answered(e)
<1>1. CASE Refuse(e, who)
  BY <1>1 DEF Refuse, Answered
<1>2. CASE Delete(e, who)
  BY <1>2 DEF Delete, Finish, Answered
<1>3. CASE Delegate(e, who)
  BY <1>3 DEF Delegate, Finish, Answered
<1>4. CASE Publish(e, who)
  BY <1>4 DEF Publish, Finish, Answered
<1>5. CASE ReportBegin(e, who)
  BY <1>5 DEF ReportBegin, Finish, Answered
<1>6. CASE PayBegin(e, who)
  BY <1>6 DEF PayBegin, Finish, Answered
<1>7. CASE CrashInside(e, who)
  BY <1>7 DEF CrashInside, Answered
<1>8. CASE PayEnd(e)
  BY <1>8 DEF PayEnd, Finish, Answered
<1>9. CASE ReportEnd(e)
  BY <1>9 DEF ReportEnd, Finish, Answered
<1>10. CASE Post(e)
  BY <1>10 DEF Post, Finish, Answered
<1> QED
  BY <1>1, <1>2, <1>3, <1>4, <1>5, <1>6, <1>7, <1>8, <1>9, <1>10

LEMMA KeptTypes ==
  ASSUME IInv
  PROVE  Kept \subseteq Ids /\ Promised \subseteq Kept \ Pending
<1>1. disk.events \subseteq Rows
  BY DEF IInv, Good, Tables
<1>2. Kept \subseteq Ids
  BY <1>1, RowAuthor DEF Kept, IdsOf
<1>3. Promised \subseteq IdsOf(disk.events) \cap IdsOf(conn.events)
  BY VouchedOnDisk DEF IInv, Vouched, AckedIsDurable, Promised
<1> QED BY <1>2, <1>3 DEF Kept, Pending

LEMMA KeptTypesAfter ==
  ASSUME IInv' PROVE Kept' \in SUBSET Ids /\ Promised' \in SUBSET (Kept' \ Pending')
<1>1. disk'.events \subseteq Rows /\ Vouched' /\ Matches(disk', conn')
  BY DEF IInv, Good, Tables, Matches, SameSide
<1>2. Kept' \subseteq Ids
  BY <1>1, RowAuthor DEF Kept, IdsOf
<1>3. Promised' \subseteq IdsOf(disk'.events) \cap IdsOf(conn'.events)
  BY <1>1 DEF Vouched, Matches, Promised
<1> QED BY <1>2, <1>3 DEF Kept, Pending

LEMMA AnsweredServes ==
  ASSUME IInv, IInv', Authored, NEW e \in Events, Answered(e)
  PROVE  Promise!Serve(e.pubkey)
<1> DEFINE own == Promise!Own(e.pubkey)
<1>1. {f.pubkey : f \in Actor(reply.to)}' = {e.pubkey}
  BY EventsAssumption DEF Answered, Actor
<1>2. Kept' \in SUBSET Ids /\ Promised' \in SUBSET (Kept' \ Pending')
  BY KeptTypesAfter
<1>3. Standing \ Standing' \subseteq own
  <2> SUFFICES ASSUME NEW i \in Standing \ Standing' PROVE i \in own
    OBVIOUS
  <2>1. i \in Ids
    BY KeptTypes DEF Standing, Kept
  <2>2. PICK f \in Actor(reply'.to) : f.pubkey = AuthorOf[i]
    BY DEF Authored
  <2>3. AuthorOf[i] = e.pubkey
    BY <2>2, EventsAssumption DEF Actor, Answered
  <2> QED BY <2>1, <2>3 DEF Promise!Own
<1>4. Kept \ Kept' \subseteq own \cup Pending
  BY <1>3 DEF Kept, Pending, Standing
<1>5. Pending' \in SUBSET (Kept' \cap (Pending \cup own))
  <2>1. IdsOf(disk'.events) \subseteq IdsOf(disk.events) \cup IdsOf(conn'.events)
    BY DEF Authored
  <2> QED BY <1>3, <2>1 DEF Kept, Pending, Standing
<1>6. Promised \ Promised' \subseteq own
  <2> SUFFICES ASSUME NEW f \in Events, f.bad = 0, f.id \in acked \ acked'
               PROVE  f.id \in own
    BY DEF Promised
  <2> QED BY RemovedOwn DEF Answered, Promise!Own
<1>7. e.id \in own /\ Promised' \subseteq Promised \cup {e.id}
  <2>1. e.id \in own
    BY RowAuthor DEF Rows, Promise!Own
  <2> QED BY <2>1 DEF Answered, Promised
<1> QED
  BY <1>1, <1>2, <1>4, <1>5, <1>6, <1>7 DEF Promise!Serve, Kept, Pending, Promised

\* The other writers leave the promises, and remove nothing but what a deletion
\* that raised had taken; a crash gives that back.
LEMMA OthersGain ==
  ASSUME IInv, IInv',
         \/ \E e \in Remote : Fetch(e)
         \/ \E p \in Managed : AdminBan(p) \/ AdminAllow(p)
         \/ Crash
  PROVE  Promise!Gain
<1>1. /\ \/ IdsOf(conn.events) \subseteq Kept'
         \/ Kept' = Kept
      /\ Pending' = {} /\ acked' = acked
  <2>1. CASE \E e \in Remote : Fetch(e)
    <3>1. PICK e \in Remote : Fetch(e)
      BY <2>1
    <3>2. conn.events \subseteq BareRow(conn, Fetched(e)).events
      BY DEF IInv, Good, Tables, BareRow
    <3> QED
      BY <3>1, <3>2 DEF Fetch, Kept, Pending, IdsOf
  <2>2. CASE \E p \in Managed : AdminBan(p) \/ AdminAllow(p)
    <3>1. PICK p \in Managed : AdminBan(p) \/ AdminAllow(p)
      BY <2>2
    <3>2. Ban(conn, p, "nip86_api").events = conn.events /\ Allow(conn, p).events = conn.events
      BY DEF IInv, Good, Tables, Ban, Allow
    <3> QED
      BY <3>1, <3>2 DEF AdminBan, AdminAllow, Kept, Pending
  <2>3. CASE Crash
    <3>1. Startup(disk).events = disk.events
      BY StartupAside DEF IInv
    <3> QED BY <2>3, <3>1 DEF Crash, Restart, Kept, Pending
  <2> QED
    BY <2>1, <2>2, <2>3
<1>2. Kept' \in SUBSET Ids /\ Kept \ Kept' \subseteq Pending
  BY <1>1, KeptTypesAfter DEF Kept, Pending
<1>3. Pending' \in SUBSET (Kept' \cap Pending) /\ Promised' = Promised
  BY <1>1 DEF Promised
<1>4. {f.pubkey : f \in Actor(reply.to)}' \in SUBSET Pubkeys
  BY RowIds DEF Actor
<1> QED
  BY <1>2, <1>3, <1>4 DEF Promise!Gain, Kept, Pending, Promised

LEMMA StepKeepsPromise == ASSUME IInv, Next PROVE Promise!Next
<1>1. IInv' /\ Authored
  BY NextIInv
<1>2. ASSUME NEW e \in Events, Answered(e) PROVE Promise!Next
  <2>1. e.pubkey \in Pubkeys
    BY <1>2, RowIds
  <2> QED
    BY <1>1, <1>2, <2>1, AnsweredServes DEF Promise!Next
<1>3. ASSUME NEW e \in Publishable, NEW who \in Sessions,
             \/ Refuse(e, who) \/ Delete(e, who) \/ Delegate(e, who) \/ Publish(e, who)
             \/ ReportBegin(e, who) \/ PayBegin(e, who) \/ CrashInside(e, who)
      PROVE  Promise!Next
  BY <1>2, <1>3, StepAnswers, SourcesAssumption
<1>4. ASSUME NEW e \in waiting, PayEnd(e) \/ ReportEnd(e) PROVE Promise!Next
  <2>1. e \in Events
    BY <1>4, SourcesAssumption DEF IInv, TypeOK
  <2> QED
    BY <1>2, <1>4, <2>1, StepAnswers
<1>5. ASSUME NEW e \in SsePosted, Post(e) PROVE Promise!Next
  BY <1>2, <1>5, StepAnswers, SourcesAssumption
<1>6. CASE \/ \E e \in Remote : Fetch(e)
           \/ \E p \in Managed : AdminBan(p) \/ AdminAllow(p)
           \/ Crash
  BY <1>1, <1>6, OthersGain DEF Promise!Next
<1> QED
  BY <1>3, <1>4, <1>5, <1>6 DEF Next

\* The event handler, the mesh fetcher, the SSE endpoint, the administration calls
\* and the crashes implement the promise of EventStore to each author.
THEOREM KeepsPromise == Spec => PromiseKept
<1>1. Init => Promise!Init
  <2> SUFFICES ASSUME Init PROVE Promise!Init
    OBVIOUS
  <2>1. Kept = {} /\ Pending = {} /\ Promised = {}
    BY FreshGood DEF Init, IdsOf, Kept, Pending, Promised
  <2>2. {f.pubkey : f \in Actor(reply.to)} \in SUBSET Pubkeys
    BY RowIds DEF Actor
  <2> QED
    BY <2>1, <2>2 DEF Promise!Init, Kept, Pending, Promised
<1>2. IInv /\ [Next]_vars => [Promise!Next]_(Promise!vars)
  <2>1. ASSUME UNCHANGED vars PROVE UNCHANGED Promise!vars
    BY <2>1 DEF vars, Promise!vars, Actor, IdsOf
  <2> QED
    BY <2>1, StepKeepsPromise
<1> QED
  BY <1>1, <1>2, Invariance, PTL DEF Spec, PromiseKept, Promise!Spec
=============================================================================
