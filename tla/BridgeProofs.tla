----------------------------- MODULE BridgeProofs -----------------------------
(***************************************************************************)
(* Proofs about Bridge: its types, that it passes over no event and that   *)
(* it offers none again that it saw taken, for every table, batch size and *)
(* number of crashes.                                                      *)
(***************************************************************************)
EXTENDS Bridge, FiniteSetTheorems, TLAPS

\* The events that are stored have different row numbers.
Numbered ==
  \A e, f \in Events : Stored(e) /\ Stored(f) /\ row[e] = row[f] => e = f

\* What a batch was read from: an event still has the row it was read with,
\* or was removed, or stored again.
BatchRead ==
  /\ at # "posting" => batch = {}
  /\ \A x \in batch : /\ x[1] \in Forwarded /\ row[x[1]] # Never
                      /\ x[1] \notin again => row[x[1]] \in {x[2], Removed}
  /\ \A x, y \in batch : x[1] = y[1] \/ x[2] = y[2] => x = y

\* Cursors and histories hold events the mesh has taken.
CursorTaken ==
  /\ \A c \in {last_id, file} : c # None => c \in ingested
  /\ passed \subseteq ingested /\ settled \subseteq ingested
  /\ \A e \in ingested : row[e] # Never
  /\ at # "down" /\ last_id = None => passed = {}
  /\ file = None => settled = {}
  /\ at = "down" => passed = settled

\* No event the bridge has seen taken lies above the cursor that covers it.
Behind(es, c) ==
  c # None => \A e \in es \ again : Stored(e) /\ Stored(c) => row[e] <= row[c]

\* The batch lies above them all, and in order.
BatchAhead ==
  \A x \in batch, e \in passed \ again :
    Stored(e) /\ Stored(x[1]) => row[e] < row[x[1]]

BatchSorted ==
  \A x, y \in batch :
    x[2] < y[2] /\ x[1] \notin again /\ Stored(x[1]) /\ Stored(y[1])
      => row[x[1]] < row[y[1]]

\* Below an event of the batch every event was taken or is in the batch.
Dense == again \cap Forwarded = {}

BatchComplete ==
  Dense => \A x \in batch, e \in Forwarded :
    Stored(e) /\ Stored(x[1]) /\ row[e] < row[x[1]] => e \in ingested \/ <<e, row[e]>> \in batch

IInv ==
  /\ TypeOK /\ Numbered /\ BatchRead /\ CursorTaken
  /\ (at # "down" => Behind(passed, last_id)) /\ Behind(settled, file)
  /\ BatchAhead /\ BatchSorted /\ BatchComplete
  /\ NothingSkipped /\ NothingSentTwice

-----------------------------------------------------------------------------
LEMMA RowsAre ==
  ASSUME NEW x \in Rows
  PROVE  x = <<x[1], x[2]>> /\ x[1] \in Events /\ x[2] \in 1 .. MaxRow
BY DEF Rows

(***************************************************************************)
(* A row that is stored gets a number above all others.                    *)
(***************************************************************************)
LEMMA StoreKeeps ==
  ASSUME IInv, NEW e \in Events, StoreRow(e)
  PROVE  IInv'
<1>1. PICK n \in 1 .. MaxRow : NextNumber(n) /\ row' = [row EXCEPT ![e] = n]
  BY DEF StoreRow
<1>2. /\ row \in [Events -> Removed .. MaxRow] /\ MaxRow \in Nat
      /\ \A f \in Events : row'[f] = IF f = e THEN n ELSE row[f]
      /\ \A f \in Events : row[f] < n
      /\ \A f \in Events : row[f] \in Int
  BY <1>1, BridgeAssumption DEF IInv, TypeOK, NextNumber, Removed
<1>3. /\ ~Stored(e) /\ again \subseteq again' /\ again' \subseteq again \cup {e}
      /\ row[e] # Never => e \in again'
      /\ UNCHANGED <<at, last_id, file, batch, crashes, ingested, passed, settled>>
  BY <1>2 DEF StoreRow, Stored, Never, Removed, IInv, TypeOK
<1>4. \A f \in Events : Stored(f)' <=> f = e \/ Stored(f)
  BY <1>2 DEF Stored
<1>5. TypeOK'
  BY <1>1, <1>2, <1>3 DEF IInv, TypeOK, Removed
<1>6. Numbered'
  BY <1>2, <1>4 DEF IInv, Numbered
<1>7. \A x \in batch : x \in Rows /\ x[1] \in Events /\ row[x[1]] # Never
  BY RowsAre DEF IInv, TypeOK, BatchRead
<1>8. ingested \subseteq Events /\ \A f \in ingested : row[f] # Never
  BY BridgeAssumption DEF IInv, TypeOK, CursorTaken
<1>9. BatchRead'
  BY <1>2, <1>3, <1>7 DEF IInv, BatchRead, Never
<1>10. CursorTaken'
  BY <1>2, <1>3, <1>8 DEF IInv, CursorTaken, Never
<1>11. ASSUME NEW es \in SUBSET ingested, NEW c \in Cursor, c # None => c \in ingested, Behind(es, c)
       PROVE  Behind(es, c)'
  BY <1>2, <1>3, <1>4, <1>8, <1>11 DEF Behind
<1>12. (at # "down" => Behind(passed, last_id))' /\ Behind(settled, file)'
  BY <1>3, <1>11 DEF IInv, CursorTaken, TypeOK, Behind
<1>13. BatchAhead'
  BY <1>2, <1>3, <1>4, <1>7, <1>8 DEF IInv, BatchAhead, CursorTaken
<1>14. BatchSorted'
  BY <1>2, <1>3, <1>4, <1>7 DEF IInv, BatchSorted, BatchRead
<1>15. Dense' => Dense /\ (e \in Forwarded => row[e] = Never)
  BY <1>3 DEF Dense
<1>16. BatchComplete'
  BY <1>2, <1>3, <1>4, <1>7, <1>15, BridgeAssumption DEF IInv, BatchComplete, BatchRead
<1>17. NothingSkipped'
  <2> SUFFICES ASSUME Dense', NEW c \in {last_id, file} \ {None}, NEW f \in Forwarded,
                      Stored(f)', Stored(c)', row'[f] < row'[c]
               PROVE  f \in ingested
    BY <1>3 DEF NothingSkipped, Dense
  <2>1. c \in ingested /\ c \in Events /\ c \in Forwarded /\ f \in Events /\ row[c] # Never
    BY <1>8, BridgeAssumption DEF IInv, CursorTaken, TypeOK
  <2>2. c # e /\ Stored(c)
    BY <1>4, <1>15, <2>1
  <2>3. f # e /\ Stored(f)
    BY <1>2, <1>4, <2>1, <2>2
  <2> QED
    BY <1>2, <1>15, <2>1, <2>2, <2>3 DEF IInv, NothingSkipped, Dense
<1>18. NothingSentTwice'
  BY <1>3 DEF IInv, NothingSentTwice
<1> QED
  BY <1>5, <1>6, <1>9, <1>10, <1>12, <1>13, <1>14, <1>16, <1>17, <1>18 DEF IInv

LEMMA RemoveKeeps ==
  ASSUME IInv, NEW e \in Events, RemoveRow(e)
  PROVE  IInv'
<1>1. /\ row \in [Events -> Removed .. MaxRow] /\ MaxRow \in Nat
      /\ row' = [row EXCEPT ![e] = Removed]
      /\ \A f \in Events : row'[f] = IF f = e THEN Removed ELSE row[f]
      /\ UNCHANGED <<at, last_id, file, batch, crashes, ingested, passed, settled, again>>
  BY BridgeAssumption DEF RemoveRow, IInv, TypeOK
<1>2. \A f \in Events : Stored(f)' <=> f # e /\ Stored(f)
  BY <1>1 DEF Stored, Removed
<1>3. TypeOK'
  BY <1>1 DEF IInv, TypeOK, Removed
<1>4. \A x \in batch : x \in Rows /\ x[1] \in Events
  BY RowsAre DEF IInv, TypeOK
<1>5. ingested \subseteq Events /\ passed \subseteq Events /\ settled \subseteq Events
      /\ Forwarded \subseteq Events
  BY BridgeAssumption DEF IInv, TypeOK
<1>6. Numbered' /\ BatchRead'
  BY <1>1, <1>2, <1>4 DEF IInv, Numbered, BatchRead, Never, Removed
<1>7. CursorTaken'
  BY <1>1, <1>5 DEF IInv, CursorTaken, Never, Removed
<1>8. (at # "down" => Behind(passed, last_id))' /\ Behind(settled, file)'
  BY <1>1, <1>2, <1>5 DEF IInv, Behind, CursorTaken
<1>9. BatchAhead' /\ BatchSorted'
  BY <1>1, <1>2, <1>4, <1>5 DEF IInv, BatchAhead, BatchSorted
<1>10. BatchComplete'
  BY <1>1, <1>2, <1>4, <1>5 DEF IInv, BatchComplete, Dense
<1>11. NothingSkipped' /\ NothingSentTwice'
  BY <1>1, <1>2, <1>5 DEF IInv, NothingSkipped, NothingSentTwice, CursorTaken
<1> QED
  BY <1>3, <1>6, <1>7, <1>8, <1>9, <1>10, <1>11 DEF IInv

-----------------------------------------------------------------------------
(***************************************************************************)
(* The lowest rows of an answer: with a row, every row below it.           *)
(***************************************************************************)
LEMMA LowestIsClosed ==
  ASSUME NEW xs \in SUBSET Rows, IsFiniteSet(xs),
         NEW x \in LowestOf(xs), NEW y \in xs, y[2] <= x[2]
  PROVE  y \in LowestOf(xs)
<1> DEFINE below(z) == {w \in xs : w[2] <= z[2]}
<1>1. below(y) \subseteq below(x)
  BY RowsAre, BridgeAssumption DEF LowestOf
<1>2. IsFiniteSet(below(x))
  BY FS_Subset
<1>3. Cardinality(below(y)) <= Cardinality(below(x))
  BY <1>1, <1>2, FS_Subset
<1>4. IsFiniteSet(below(y)) /\ Cardinality(below(y)) \in Nat /\ Cardinality(below(x)) \in Nat
  BY <1>1, <1>2, FS_Subset, FS_CardinalityType
<1>5. Cardinality(below(x)) <= Limit
  BY DEF LowestOf
<1> QED
  BY <1>3, <1>4, <1>5, BridgeAssumption DEF LowestOf

LEMMA NewIsFinite == ASSUME TypeOK PROVE IsFiniteSet(New) /\ New \subseteq Rows
<1>1. IsFiniteSet(1 .. MaxRow)
  BY FS_Interval, BridgeAssumption
<1>2. IsFiniteSet(Rows)
  BY <1>1, FS_Product, BridgeAssumption DEF Rows
<1> QED
  BY <1>2, FS_Subset DEF New

LEMMA PollKeeps ==
  ASSUME IInv, Poll
  PROVE  IInv'
<1>1. /\ at = "polling" /\ at' = "posting" /\ batch' = LowestOf(New) /\ batch' \subseteq New
      /\ UNCHANGED <<row, last_id, file, crashes, ingested, passed, settled, again>>
  BY DEF Poll, LowestOf
<1>2. /\ row \in [Events -> Removed .. MaxRow] /\ MaxRow \in Nat /\ Forwarded \subseteq Events
      /\ \A f \in Events : row[f] \in Int
      /\ passed \subseteq Events /\ last_id \in Cursor
  BY BridgeAssumption DEF IInv, TypeOK, Removed
<1>3. \A x \in New : /\ x \in Rows /\ x = <<x[1], x[2]>> /\ x[1] \in Forwarded
                     /\ row[x[1]] = x[2] /\ Stored(x[1])
                     /\ last_id # None => Stored(last_id) /\ x[2] > row[last_id]
  BY RowsAre, <1>2 DEF New, Stored
<1>4. TypeOK'
  BY <1>1, <1>3 DEF IInv, TypeOK, Points
<1>5. Numbered' /\ CursorTaken'
  BY <1>1 DEF IInv, Numbered, CursorTaken, Stored
<1>6. BatchRead'
  <2>1. \A x, y \in New : x[1] = y[1] \/ x[2] = y[2] => x = y
    BY <1>2, <1>3 DEF IInv, Numbered
  <2>2. \A x \in New : row[x[1]] # Never
    BY <1>3 DEF Stored, Never
  <2> QED
    BY <1>1, <1>3, <2>1, <2>2 DEF BatchRead
<1>7. (at # "down" => Behind(passed, last_id))' /\ Behind(settled, file)'
  BY <1>1 DEF IInv, Behind, Stored
<1>8. ASSUME NEW x \in New, NEW e \in passed \ again, Stored(e)
      PROVE  row[e] < row[x[1]]
  <2>1. last_id # None
    BY <1>1, <1>8 DEF IInv, CursorTaken
  <2>2. last_id \in Events /\ Stored(last_id)
    BY <1>2, <1>3, <2>1 DEF Cursor
  <2>3. row[e] <= row[last_id]
    BY <1>1, <1>8, <2>1, <2>2 DEF IInv, Behind
  <2> QED
    BY <1>2, <1>3, <1>8, <2>1, <2>2, <2>3
<1>9. BatchAhead'
  BY <1>1, <1>8 DEF BatchAhead, Stored
<1>10. BatchSorted'
  BY <1>1, <1>3 DEF BatchSorted
<1>11. NothingSentTwice'
  <2>1. \A x \in New : x[1] \in passed => x[1] \in again
    BY <1>2, <1>3, <1>8
  <2> QED
    BY <1>1, <2>1 DEF NothingSentTwice
<1>12. ASSUME Dense, NEW x \in LowestOf(New), NEW e \in Forwarded, Stored(e), row[e] < row[x[1]]
       PROVE  e \in ingested \/ <<e, row[e]>> \in LowestOf(New)
  <2>1. <<e, row[e]>> \in Rows
    BY <1>2, <1>12 DEF Rows, Stored
  <2>2. CASE <<e, row[e]>> \in New
    <3>1. x \in New
      BY DEF LowestOf
    <3> QED
      BY <2>2, <3>1, <1>2, <1>3, <1>12, NewIsFinite, LowestIsClosed DEF IInv
  <2>3. CASE <<e, row[e]>> \notin New
    <3>1. x \in New
      BY DEF LowestOf
    <3>2. last_id # None /\ Stored(last_id) /\ last_id \in Events /\ ~(row[e] > row[last_id])
      BY <1>2, <1>3, <2>1, <2>3, <3>1 DEF New, Cursor
    <3>3. CASE row[e] < row[last_id]
      BY <3>2, <3>3, <1>12 DEF IInv, NothingSkipped, Dense
    <3>4. CASE row[e] = row[last_id]
      BY <3>2, <3>4, <1>2, <1>12 DEF IInv, Numbered, CursorTaken
    <3> QED
      BY <3>2, <3>3, <3>4, <1>2
  <2> QED
    BY <2>2, <2>3
<1>13. BatchComplete'
  BY <1>1, <1>12 DEF BatchComplete, Dense, Stored
<1>14. NothingSkipped'
  BY <1>1 DEF IInv, NothingSkipped, Stored
<1> QED
  BY <1>4, <1>5, <1>6, <1>7, <1>9, <1>10, <1>11, <1>13, <1>14 DEF IInv

(***************************************************************************)
(* The first event of the batch is taken and becomes the cursor.           *)
(***************************************************************************)
LEMMA PostedKeeps ==
  ASSUME IInv, NEW x \in Rows, Posted(x)
  PROVE  IInv'
<1>1. /\ at = "posting" /\ x \in batch /\ \A y \in batch : x[2] <= y[2]
      /\ ingested' = ingested \cup {x[1]} /\ passed' = passed \cup {x[1]}
      /\ last_id' = x[1] /\ batch' = batch \ {x} /\ batch' \subseteq batch
      /\ at' \in {"saving", "posting"} /\ (batch' = {} <=> at' = "saving")
      /\ UNCHANGED <<row, file, crashes, settled, again>>
  BY DEF Posted, First
<1>2. /\ row \in [Events -> Removed .. MaxRow] /\ MaxRow \in Nat /\ Forwarded \subseteq Events
      /\ \A f \in Events : row[f] \in Int
      /\ ingested \subseteq Forwarded /\ passed \subseteq Forwarded
  BY BridgeAssumption DEF IInv, TypeOK, Removed
<1>3. \A y \in batch : /\ y \in Rows /\ y = <<y[1], y[2]>> /\ y[1] \in Forwarded
                       /\ y[2] \in Int /\ row[y[1]] # Never
  BY RowsAre, <1>2 DEF IInv, TypeOK, BatchRead
<1>4. x[1] \in Forwarded /\ x[1] \in Events /\ x[1] # None
  BY <1>1, <1>2, <1>3, BridgeAssumption
<1>5. \A y \in batch' : y \in batch /\ y[1] # x[1] /\ x[2] < y[2]
  BY <1>1, <1>3 DEF IInv, BatchRead
<1>6. TypeOK'
  BY <1>1, <1>2, <1>4 DEF IInv, TypeOK, Points, Cursor
<1>7. Numbered'
  BY <1>1 DEF IInv, Numbered, Stored
<1>8. BatchRead'
  BY <1>1, <1>5 DEF IInv, BatchRead
<1>9. CursorTaken'
  BY <1>1, <1>3, <1>4 DEF IInv, CursorTaken
<1>10. Behind(passed, last_id)'
  BY <1>1, <1>2, <1>4 DEF IInv, Behind, BatchAhead, Stored
<1>11. Behind(settled, file)'
  BY <1>1 DEF IInv, Behind, Stored
<1>12. BatchAhead'
  BY <1>1, <1>5 DEF IInv, BatchAhead, BatchSorted, Stored
<1>13. BatchSorted'
  BY <1>1 DEF IInv, BatchSorted, Stored
<1>14. BatchComplete'
  <2> SUFFICES ASSUME Dense, NEW y \in batch', NEW e \in Forwarded,
                      Stored(e), Stored(y[1]), row[e] < row[y[1]]
               PROVE  e \in ingested' \/ <<e, row[e]>> \in batch'
    BY <1>1 DEF BatchComplete, Dense, Stored
  <2>1. e \in ingested \/ <<e, row[e]>> \in batch
    BY <1>5 DEF IInv, BatchComplete
  <2> QED
    BY <2>1, <1>1
<1>15. NothingSkipped'
  <2> SUFFICES ASSUME Dense, NEW c \in {x[1], file} \ {None}, NEW e \in Forwarded,
                      Stored(e), Stored(c), row[e] < row[c]
               PROVE  e \in ingested'
    BY <1>1 DEF NothingSkipped, Dense, Stored
  <2>1. CASE c = file
    BY <2>1, <1>1 DEF IInv, NothingSkipped, Dense
  <2>2. CASE c = x[1]
    <3>1. row[x[1]] = x[2]
      BY <2>2, <1>1, <1>4 DEF IInv, BatchRead, Dense, Stored, Removed
    <3>2. <<e, row[e]>> \notin batch
      BY <2>2, <3>1, <1>1, <1>2, <1>3
    <3> QED
      BY <2>2, <3>2, <1>1 DEF IInv, BatchComplete
  <2> QED
    BY <2>1, <2>2
<1>16. NothingSentTwice'
  BY <1>1, <1>5 DEF IInv, NothingSentTwice
<1> QED
  BY <1>6, <1>7, <1>8, <1>9, <1>10, <1>11, <1>12, <1>13, <1>14, <1>15, <1>16 DEF IInv

LEMMA RefusedKeeps ==
  ASSUME IInv, NEW x \in Rows, Refused(x)
  PROVE  IInv'
<1>1. /\ at = "posting" /\ at' \in {"saving", "polling"} /\ x \in batch /\ batch' = {}
      /\ ingested \subseteq ingested' /\ ingested' \subseteq ingested \cup {x[1]}
      /\ UNCHANGED <<row, last_id, file, crashes, passed, settled, again>>
  BY DEF Refused, First
<1>2. x[1] \in Forwarded /\ row[x[1]] # Never
  BY <1>1 DEF IInv, BatchRead
<1>3. TypeOK'
  BY <1>1, <1>2 DEF IInv, TypeOK, Points
<1>4. Numbered' /\ BatchRead' /\ CursorTaken'
  BY <1>1, <1>2 DEF IInv, Numbered, BatchRead, CursorTaken, Stored
<1>5. (at # "down" => Behind(passed, last_id))' /\ Behind(settled, file)'
  BY <1>1 DEF IInv, Behind, Stored
<1>6. BatchAhead' /\ BatchSorted' /\ BatchComplete' /\ NothingSentTwice'
  BY <1>1 DEF BatchAhead, BatchSorted, BatchComplete, NothingSentTwice
<1>7. NothingSkipped'
  BY <1>1 DEF IInv, NothingSkipped, Stored
<1> QED
  BY <1>3, <1>4, <1>5, <1>6, <1>7 DEF IInv

-----------------------------------------------------------------------------
(***************************************************************************)
(* Saves, crashes and restarts leave table and mesh alone and move the     *)
(* cursors together with what they cover.                                  *)
(***************************************************************************)
LEMMA CursorKeeps ==
  ASSUME IInv, Save \/ SaveFails \/ Crash \/ Restart
  PROVE  IInv'
<1>1. UNCHANGED <<row, ingested, again>> /\ batch' = {} /\ at' # "posting"
  BY DEF Save, SaveFails, Crash, Restart, IInv, BatchRead
<1>2. TypeOK'
  <2>1. CASE Save \/ SaveFails \/ Restart
    BY <2>1 DEF Save, SaveFails, Restart, IInv, TypeOK, Points, Cursor
  <2>2. CASE Crash
    <3>1. crashes' \in 0 .. Crashes
      BY <2>2, BridgeAssumption DEF Crash, IInv, TypeOK
    <3> QED
      BY <2>2, <3>1 DEF Crash, IInv, TypeOK, Points, Cursor
  <2> QED
    BY <2>1, <2>2
<1>3. Numbered' /\ BatchRead' /\ BatchAhead' /\ BatchSorted' /\ BatchComplete' /\ NothingSentTwice'
  BY <1>1 DEF IInv, Numbered, BatchRead, BatchAhead, BatchSorted, BatchComplete,
              NothingSentTwice, Stored
<1>4. /\ file' \in {file, last_id, None} /\ last_id' \in {last_id, file, None}
  BY DEF Save, SaveFails, Crash, Restart
<1>5. CursorTaken'
  <2>1. CASE Save \/ SaveFails
    BY <2>1 DEF Save, SaveFails, IInv, CursorTaken
  <2>2. CASE Crash
    BY <2>2 DEF Crash, IInv, CursorTaken
  <2>3. CASE Restart
    BY <2>3 DEF Restart, IInv, CursorTaken
  <2> QED
    BY <2>1, <2>2, <2>3
<1>6. (at # "down" => Behind(passed, last_id))' /\ Behind(settled, file)'
  <2>1. CASE Save
    BY <2>1 DEF Save, IInv, Behind, Stored
  <2>2. CASE SaveFails
    BY <2>2 DEF SaveFails, IInv, Behind, Stored
  <2>3. CASE Crash
    BY <2>3 DEF Crash, IInv, Behind, Stored
  <2>4. CASE Restart
    BY <2>4 DEF Restart, IInv, Behind, Stored, CursorTaken
  <2> QED
    BY <2>1, <2>2, <2>3, <2>4
<1>7. NothingSkipped'
  BY <1>1, <1>4 DEF IInv, NothingSkipped, Stored
<1> QED
  BY <1>2, <1>3, <1>5, <1>6, <1>7 DEF IInv

LEMMA InitHolds == Init => IInv
BY BridgeAssumption
   DEF Init, IInv, TypeOK, Points, Cursor, Never, Removed, Stored, Numbered, BatchRead,
       CursorTaken, Behind, BatchAhead, BatchSorted, BatchComplete, NothingSkipped,
       NothingSentTwice

LEMMA StepKeeps == IInv /\ [Next]_vars => IInv'
<1> SUFFICES ASSUME IInv, [Next]_vars PROVE IInv'
  OBVIOUS
<1>1. CASE Relay
  BY <1>1, StoreKeeps, RemoveKeeps DEF Relay
<1>2. CASE Loop
  BY <1>2, PollKeeps, PostedKeeps, RefusedKeeps, CursorKeeps DEF Loop
<1>3. CASE Crash \/ Restart
  BY <1>3, CursorKeeps
<1>4. CASE UNCHANGED vars
  BY <1>4 DEF vars, IInv, TypeOK, Stored, Numbered, BatchRead, CursorTaken, Behind, BatchAhead,
              BatchSorted, BatchComplete, Dense, NothingSkipped, NothingSentTwice
<1> QED
  BY <1>1, <1>2, <1>3, <1>4 DEF Next

(***************************************************************************)
(* The inductive invariant holds in every state of the bridge.             *)
(***************************************************************************)
THEOREM Invariance == Spec => []IInv
BY InitHolds, StepKeeps, PTL DEF Spec

(***************************************************************************)
(* Type correctness for every finite set of events, batch size and bound.  *)
(***************************************************************************)
THEOREM TypeCorrect == Spec => []TypeOK
<1>1. IInv => TypeOK
  BY DEF IInv
<1> QED
  BY Invariance, <1>1, PTL

(***************************************************************************)
(* bridge_loop passes over no event, in memory or in the file, however     *)
(* posts, saves, crashes and deletions fall together.                      *)
(***************************************************************************)
THEOREM SkipsNothing == Spec => []NothingSkipped
<1>1. IInv => NothingSkipped
  BY DEF IInv
<1> QED
  BY Invariance, <1>1, PTL

(***************************************************************************)
(* bridge_loop offers no event again that it saw the mesh take and did not *)
(* forget in a crash, unless the event was stored again.                   *)
(***************************************************************************)
THEOREM SendsNothingTwice == Spec => []NothingSentTwice
<1>1. IInv => NothingSentTwice
  BY DEF IInv
<1> QED
  BY Invariance, <1>1, PTL
=============================================================================
