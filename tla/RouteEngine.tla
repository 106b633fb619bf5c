----------------------------- MODULE RouteEngine -----------------------------
(***************************************************************************)
(* The route engine (class RouteEngine of relay/route_engine.py): it takes *)
(* events from the content router line by line, posts those of the DAO     *)
(* kinds at once and collects the others, which a tick sends to the relay  *)
(* mesh as one message over a WebSocket.                                   *)
(*                                                                         *)
(* The lists by type of "batches" are one set here: a flush collects all   *)
(* of them, the list "recovery" with the rest.  What a flush collected is  *)
(* no longer in the lists when the code comes to its HTTP fallback, which  *)
(* therefore posts nothing.  The reader of the connection and the tick are *)
(* two coroutines, so an event may be added while a message is being sent. *)
(* There is one reader: that the reader of a connection the router has     *)
(* given up may still be posting its last event beside that of the next    *)
(* one is left out.                                                        *)
(* An operator marked "altered" is not the code's: it is a plausible       *)
(* mistake in the one after it, which a property must notice when it takes *)
(* its place.                                                              *)
(***************************************************************************)
CONSTANTS
  Events,
  Dao,        \* the events classified "dao"
  Heartbeats, \* the events classified "heartbeat"
  None

ASSUME EngineAssumption ==
  /\ Dao \subseteq Events /\ Heartbeats \subseteq Events
  /\ Dao \cap Heartbeats = {}
  /\ None \notin Events

VARIABLES
  batches,    \* the events collected for the next flush
  sending,    \* the events in the message the tick is sending
  posting,    \* the event the reader is posting, or None
  ws_mode,    \* the engine takes its WebSocket for usable
  link,       \* it is
  mesh,       \* the relay mesh answers
  arrived,    \* history: events that reached the mesh
  missing     \* history: events the engine gave up

vars == <<batches, sending, posting, ws_mode, link, mesh, arrived, missing>>

Init ==
  /\ batches = {} /\ sending = {} /\ posting = None
  /\ ws_mode = FALSE /\ link = FALSE /\ mesh = TRUE
  /\ arrived = {} /\ missing = {}

-----------------------------------------------------------------------------
(***************************************************************************)
(* add, called by handle_client, which reads no further before it returns. *)
(* The line for a heartbeat is bytes to which a string is added: the       *)
(* exception is counted and the log stays as it is.                        *)
(***************************************************************************)
AddDao(e) ==
  /\ posting = None /\ e \in Dao
  /\ posting' = e
  /\ UNCHANGED <<batches, sending, ws_mode, link, mesh, arrived, missing>>

AddHeartbeat(e) ==
  /\ posting = None /\ e \in Heartbeats
  /\ UNCHANGED vars

AddBatched(e) ==
  /\ posting = None /\ e \in Events \ (Dao \cup Heartbeats)
  /\ batches' = batches \cup {e}
  /\ UNCHANGED <<sending, posting, ws_mode, link, mesh, arrived, missing>>

Add(e) == AddDao(e) \/ AddHeartbeat(e) \/ AddBatched(e)

(***************************************************************************)
(* _send_immediate: one attempt.  Whatever the mesh answers, the event has *)
(* reached it; a failure is only counted.                                  *)
(***************************************************************************)
Posted ==
  /\ posting # None /\ mesh
  /\ arrived' = arrived \cup {posting}
  /\ posting' = None
  /\ UNCHANGED <<batches, sending, ws_mode, link, mesh, missing>>

PostFails ==
  /\ posting # None /\ ~mesh
  /\ arrived' \in {arrived, arrived \cup {posting}}
  /\ missing' = missing \cup {posting}
  /\ posting' = None
  /\ UNCHANGED <<batches, sending, ws_mode, link, mesh>>

-----------------------------------------------------------------------------
(***************************************************************************)
(* _flush_batch, called by tick.                                           *)
(***************************************************************************)
Flush ==                \* the events are collected before the send is awaited
  /\ sending = {} /\ batches # {} /\ ws_mode
  /\ sending' = batches /\ batches' = {}
  /\ UNCHANGED <<posting, ws_mode, link, mesh, arrived, missing>>

FlushNowhere ==         \* without a WebSocket what was collected is forgotten
  /\ sending = {} /\ batches # {} /\ ~ws_mode
  /\ batches' = {}
  /\ missing' = missing \cup batches
  /\ UNCHANGED <<sending, posting, ws_mode, link, mesh, arrived>>

SentClearing ==         \* altered: the lists are emptied when the message is sent
  /\ sending # {}
  /\ IF link THEN arrived' = arrived \cup sending /\ UNCHANGED missing
             ELSE missing' = missing \cup sending /\ UNCHANGED arrived
  /\ sending' = {} /\ batches' = {}
  /\ UNCHANGED <<posting, ws_mode, link, mesh>>

Sent ==                 \* on a connection that is dead and not known to be, into the void
  /\ sending # {}
  /\ IF link THEN arrived' = arrived \cup sending /\ UNCHANGED missing
             ELSE missing' = missing \cup sending /\ UNCHANGED arrived
  /\ sending' = {}
  /\ UNCHANGED <<batches, posting, ws_mode, link, mesh>>

SendForgets ==          \* altered: the events are not put back
  /\ sending # {} /\ ~link
  /\ arrived' \in {arrived, arrived \cup sending}
  /\ sending' = {}
  /\ ws_mode' = FALSE
  /\ UNCHANGED <<batches, posting, link, mesh, missing>>

SendRetries ==          \* altered: the WebSocket is still taken for usable
  /\ sending # {} /\ ~link
  /\ arrived' \in {arrived, arrived \cup sending}
  /\ batches' = batches \cup sending /\ sending' = {}
  /\ UNCHANGED <<ws_mode, posting, link, mesh, missing>>

SendFails ==            \* the events go back into the lists, under "recovery"
  /\ sending # {} /\ ~link
  /\ arrived' \in {arrived, arrived \cup sending}
  /\ batches' = batches \cup sending /\ sending' = {}
  /\ ws_mode' = FALSE
  /\ UNCHANGED <<posting, link, mesh, missing>>

PingFails ==            \* an idle tick after 20 seconds
  /\ sending = {} /\ batches = {} /\ ws_mode /\ ~link
  /\ ws_mode' = FALSE
  /\ UNCHANGED <<batches, sending, posting, link, mesh, arrived, missing>>

Connected ==            \* keep_ws_alive
  /\ ~ws_mode /\ mesh
  /\ ws_mode' = TRUE /\ link' = TRUE
  /\ UNCHANGED <<batches, sending, posting, mesh, arrived, missing>>

-----------------------------------------------------------------------------
(***************************************************************************)
(* Faults.                                                                 *)
(***************************************************************************)
LinkDrops ==
  /\ link
  /\ link' = FALSE
  /\ UNCHANGED <<batches, sending, posting, ws_mode, mesh, arrived, missing>>

MeshStops ==
  /\ mesh
  /\ mesh' = FALSE /\ link' = FALSE
  /\ UNCHANGED <<batches, sending, posting, ws_mode, arrived, missing>>

MeshStarts ==
  /\ ~mesh
  /\ mesh' = TRUE
  /\ UNCHANGED <<batches, sending, posting, ws_mode, link, arrived, missing>>

InHand == batches \cup sending \cup ({posting} \ {None})

Crash ==                \* the engine is killed and started again
  /\ batches' = {} /\ sending' = {} /\ posting' = None
  /\ ws_mode' = FALSE /\ link' = FALSE
  /\ missing' = missing \cup InHand
  /\ UNCHANGED <<mesh, arrived>>

Tick   == Flush \/ FlushNowhere \/ Sent \/ SendFails \/ PingFails
Reader == Posted \/ PostFails
Faults == LinkDrops \/ MeshStops \/ Crash

Next == (\E e \in Events : Add(e)) \/ Reader \/ Tick \/ Connected \/ Faults \/ MeshStarts

Spec == Init /\ [][Next]_vars

-----------------------------------------------------------------------------
(***************************************************************************)
(* The type invariant; the reader posts DAO events and nothing else, and   *)
(* those and heartbeats are never collected.                               *)
(***************************************************************************)
TypeOK ==
  /\ batches \subseteq Events \ (Dao \cup Heartbeats)
  /\ sending \subseteq Events \ (Dao \cup Heartbeats)
  /\ posting \in Dao \cup {None}
  /\ ws_mode \in BOOLEAN /\ link \in BOOLEAN /\ mesh \in BOOLEAN
  /\ arrived \subseteq Events /\ missing \subseteq Events

(***************************************************************************)
(* The engine implements LossyLink: whatever is added while a message is   *)
(* being sent, and however often a failed message is put back, no event it *)
(* took leaves it without having arrived, except while the WebSocket is    *)
(* down, or the mesh, or by a crash; only then is one sent twice.          *)
(***************************************************************************)
Link == INSTANCE LossyLink WITH
          waiting <- InHand,
          anew <- batches \cap sending,
          open <- ws_mode /\ link /\ mesh

LosesOnlyInOutages == Link!Spec
==============================================================================
