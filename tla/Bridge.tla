-------------------------------- MODULE Bridge --------------------------------
(***************************************************************************)
(* The bridge to the agent mesh (relay/bridge.py): a process of its own    *)
(* that polls the events table of the relay, posts the new rows to the     *)
(* mesh one after the other and keeps the id of the last one, in memory    *)
(* and in a file, as its cursor.                                           *)
(*                                                                         *)
(* A poll reads the rows above the row of the cursor.  SQLite numbers a    *)
(* row one above the highest there is, so a number is used again when the  *)
(* highest row is deleted; a row that replaces another (NIP-33) is a       *)
(* Remove and a Store.  The relay changes the table while the bridge       *)
(* awaits an answer.  An operator marked "altered" is not the code's: it   *)
(* is a plausible mistake in the one after it, which a property must       *)
(* notice when it takes its place.                                         *)
(***************************************************************************)
EXTENDS Integers, FiniteSets

CONSTANTS
  Events,     \* the ids of the events the relay may store
  Forwarded,  \* those of a kind in FORWARD_KINDS
  Deleted,    \* bound: the events the relay may remove
  Limit,      \* rows a poll returns at most (50 in the code)
  MaxRow,     \* bound: the highest row number
  Crashes,    \* bound: how often the bridge is killed
  None        \* no cursor: the empty string

ASSUME BridgeAssumption ==
  /\ Forwarded \subseteq Events /\ Deleted \subseteq Events
  /\ Limit \in Nat \ {0} /\ MaxRow \in Nat /\ Crashes \in Nat
  /\ None \notin Events /\ IsFiniteSet(Events)

VARIABLES
  row,        \* the row of each event: Never stored, Removed, or its number
  at,         \* where the bridge stands
  last_id,    \* the cursor in memory
  file,       \* the cursor load_state would return
  batch,      \* the rows read and not yet posted
  crashes,    \* how often it was killed
  ingested,   \* history: events the mesh has taken
  passed,     \* history: events whose acknowledgement the bridge has seen and not forgotten
  settled,    \* history: those of them the file covers
  again       \* history: events stored again after they had been removed

vars == <<row, at, last_id, file, batch, crashes, ingested, passed, settled, again>>

Never   == 0
Removed == -1
Stored(e) == row[e] > 0
Rows    == Events \X (1 .. MaxRow)
Cursor  == Events \cup {None}
Points  == {"polling", "posting", "saving", "down"}

NextNumber(n) ==        \* one above the highest row number there is
  /\ \A e \in Events : row[e] < n
  /\ n = 1 \/ \E e \in Events : row[e] = n - 1

Init ==
  /\ row = [e \in Events |-> Never]
  /\ at = "polling" /\ last_id = None /\ file = None /\ batch = {}
  /\ crashes = 0
  /\ ingested = {} /\ passed = {} /\ settled = {} /\ again = {}

-----------------------------------------------------------------------------
(***************************************************************************)
(* The relay, as far as row numbers are concerned.                         *)
(***************************************************************************)
StoreRow(e) ==
  /\ ~Stored(e)
  /\ \E n \in 1 .. MaxRow : NextNumber(n) /\ row' = [row EXCEPT ![e] = n]
  /\ again' = IF row[e] = Removed THEN again \cup {e} ELSE again
  /\ UNCHANGED <<at, last_id, file, batch, crashes, ingested, passed, settled>>

RemoveRow(e) ==
  /\ Stored(e) /\ e \in Deleted
  /\ row' = [row EXCEPT ![e] = Removed]
  /\ UNCHANGED <<at, last_id, file, batch, crashes, ingested, passed, settled, again>>

-----------------------------------------------------------------------------
(***************************************************************************)
(* query_new_events.  Without a cursor every row is new; with a cursor     *)
(* whose event is not stored the subquery is NULL and no row is.           *)
(***************************************************************************)
NewFromCursor ==        \* altered: the row of the cursor is read again
  {x \in Rows : /\ x[1] \in Forwarded /\ row[x[1]] = x[2]
                /\ last_id # None => Stored(last_id) /\ x[2] >= row[last_id]}

New ==
  {x \in Rows : /\ x[1] \in Forwarded /\ row[x[1]] = x[2]
                /\ last_id # None => Stored(last_id) /\ x[2] > row[last_id]}

HighestOf(xs) ==        \* altered: ORDER BY rowid DESC
  {x \in xs : Cardinality({y \in xs : y[2] >= x[2]}) <= Limit}

LowestOf(xs) == {x \in xs : Cardinality({y \in xs : y[2] <= x[2]}) <= Limit}

Poll ==                 \* an empty answer changes nothing
  /\ at = "polling" /\ New # {}
  /\ batch' = LowestOf(New)
  /\ at' = "posting"
  /\ UNCHANGED <<row, last_id, file, crashes, ingested, passed, settled, again>>

(***************************************************************************)
(* One step of the for loop of bridge_loop, with the answer of the mesh.   *)
(* The event may have been removed since it was read.                      *)
(***************************************************************************)
First(x) == x \in batch /\ \A y \in batch : x[2] <= y[2]

Posted(x) ==            \* the mesh takes the event and says so
  /\ at = "posting" /\ First(x)
  /\ ingested' = ingested \cup {x[1]}
  /\ passed' = passed \cup {x[1]}
  /\ last_id' = x[1]
  /\ batch' = batch \ {x}
  /\ at' = IF batch' = {} THEN "saving" ELSE "posting"
  /\ UNCHANGED <<row, file, crashes, settled, again>>

RefusedSkips(x) ==      \* altered: the loop goes on with the next event
  /\ at = "posting" /\ First(x)
  /\ ingested' \in {ingested, ingested \cup {x[1]}}
  /\ batch' = batch \ {x}
  /\ at' = IF batch' = {} THEN "saving" ELSE "posting"
  /\ UNCHANGED <<row, last_id, file, crashes, passed, settled, again>>

Refused(x) ==           \* an error or no answer in time; it may have been taken all the same
  /\ at = "posting" /\ First(x)
  /\ ingested' \in {ingested, ingested \cup {x[1]}}
  /\ batch' = {}
  /\ at' \in {"saving", "polling"}    \* an unreadable answer raises and skips the save
  /\ UNCHANGED <<row, last_id, file, crashes, passed, settled, again>>

(***************************************************************************)
(* save_state truncates the file and writes it.  Whatever stops it in      *)
(* between leaves a file load_state reads as no cursor.                    *)
(***************************************************************************)
Save ==
  /\ at = "saving"
  /\ file' = last_id
  /\ settled' = passed
  /\ at' = "polling"
  /\ UNCHANGED <<row, last_id, batch, crashes, ingested, passed, again>>

SaveFails ==            \* the exception is logged and the loop goes on
  /\ at = "saving"
  /\ file' = None
  /\ settled' = {}
  /\ at' = "polling"
  /\ UNCHANGED <<row, last_id, batch, crashes, ingested, passed, again>>

Crash ==                \* while an answer is awaited it amounts to Refused and then Crash
  /\ at # "down" /\ crashes < Crashes
  /\ crashes' = crashes + 1
  /\ \E torn \in IF at = "saving" THEN BOOLEAN ELSE {FALSE} :
       /\ file' = IF torn THEN None ELSE file
       /\ settled' = IF torn THEN {} ELSE settled
  /\ passed' = settled'
  /\ at' = "down" /\ last_id' = None /\ batch' = {}
  /\ UNCHANGED <<row, ingested, again>>

Restart ==              \* load_state
  /\ at = "down"
  /\ last_id' = file
  /\ at' = "polling"
  /\ UNCHANGED <<row, file, batch, crashes, ingested, passed, settled, again>>

Relay == \E e \in Events : StoreRow(e) \/ RemoveRow(e)
Loop  == Poll \/ (\E x \in Rows : Posted(x) \/ Refused(x)) \/ Save \/ SaveFails
Next  == Relay \/ Loop \/ Crash \/ Restart

Spec == Init /\ [][Next]_vars

(***************************************************************************)
(* The loop runs as long as the process lives and forward_event ends by    *)
(* its timeout; the supervisor starts the process again.  The mesh takes   *)
(* an event that is offered again and again.                               *)
(***************************************************************************)
Fairness ==
  /\ WF_vars(Loop) /\ WF_vars(Restart)
  /\ SF_vars(\E x \in Rows : Posted(x))

FairSpec == Spec /\ Fairness

-----------------------------------------------------------------------------
(***************************************************************************)
(* The type invariant.                                                     *)
(***************************************************************************)
TypeOK ==
  /\ row \in [Events -> Removed .. MaxRow]
  /\ at \in Points
  /\ last_id \in Cursor /\ file \in Cursor
  /\ batch \subseteq Rows
  /\ crashes \in 0 .. Crashes
  /\ ingested \subseteq Forwarded /\ passed \subseteq Forwarded
  /\ settled \subseteq Forwarded /\ again \subseteq Events

(***************************************************************************)
(* bridge_loop never moves its cursor over an event the mesh has not       *)
(* taken, whatever fails, is lost or is deleted in between: every row      *)
(* below the cursor's has been ingested.  (An event that is stored again   *)
(* gets a new, higher row and takes the cursor along; then rows are passed *)
(* over.)                                                                  *)
(***************************************************************************)
NothingSkipped ==
  again \cap Forwarded = {} =>
    \A c \in {last_id, file} \ {None} : \A e \in Forwarded :
      Stored(e) /\ Stored(c) /\ row[e] < row[c] => e \in ingested

(***************************************************************************)
(* The bridge offers the mesh an event a second time only when the answer  *)
(* was lost, when it was killed before the save that follows the batch,    *)
(* or when the event was stored again: never one it saw taken.             *)
(***************************************************************************)
NothingSentTwice ==
  at = "posting" => \A x \in batch : x[1] \in passed => x[1] \in again

(***************************************************************************)
(* The retry after a refusal, a lost answer, a failed save or a restart    *)
(* leaves no event behind: one that stays in the table reaches the mesh,   *)
(* unless the event under the cursor is removed or one is stored again.    *)
(***************************************************************************)
CursorMoved == (last_id # None /\ ~Stored(last_id)) \/ again \cap Forwarded # {}

ForwardedWhileCursorStays ==
  \A e \in Forwarded : Stored(e) ~> (e \in ingested \/ ~Stored(e) \/ CursorMoved)

=============================================================================
