---------------------------- MODULE ContentRouter ----------------------------
(***************************************************************************)
(* The content router (class ContentRouterV2 of relay/content_router.py):  *)
(* one coroutine per client connection reads events, drops the ones it has *)
(* let through before and writes the others to its one connection to the   *)
(* route engine.                                                           *)
(*                                                                         *)
(* A coroutine runs undisturbed between two awaits: of a Redis command, of *)
(* a write, of the sleeps of a reconnect.  Redis and the circuit breaker   *)
(* before it are an oracle here, which answers or does not, whatever was   *)
(* stored.  The clock is not a number: it takes the oldest entry out of    *)
(* the window (in the code the next call of check_and_add does) at any     *)
(* time.  A write that fails does so within half a second, long before the *)
(* five seconds of a reconnect are over, so that writing and awaiting the  *)
(* drain are one step, and a line written before it has been read by then. *)
(* An event stands for its id.  (Events without one get a hash of sender   *)
(* and number: those with the same hash are one event here, so that the    *)
(* loss of the second of two different ones does not show.)                *)
(* An operator marked "altered" is not the code's: it is a plausible       *)
(* mistake in the one after it, which a property must notice when it takes *)
(* its place.                                                              *)
(***************************************************************************)
EXTENDS Integers, Sequences, SequencesExt

CONSTANTS
  Clients,    \* the connections of those who send events
  Events,
  Odd,        \* of kind 39000, whose content is JSON and no object
  MaxEvents,  \* entries the window holds (max_events, 10000 in the code)
  Quarter,    \* entries an overflow drops (max_events // 4)
  None

VARIABLES
  at,         \* where the coroutine of each connection stands
  cur,        \* the event it works on
  queue,      \* fast_dedup.queue: the ids in the order of their time
  seen,       \* fast_dedup.seen
  bloom,      \* the ids added to the Bloom filter, which nothing resets
  writer,     \* the connection to the route engine: none, good or broken
  reconnecting,
  delayed,    \* where the task of _reconnect_delayed stands: none, waiting, connecting
  listening,  \* the route engine accepts connections
  wire,       \* the lines written and not yet read by the engine
  lost        \* history: events that met a fault on their way through the router

window == <<queue, seen, bloom>>
line   == <<writer, reconnecting, delayed, wire, listening>>
vars   == <<at, cur, window, line, lost>>

Points == {"reading", "deciding", "forwarding", "connecting"}

Init ==
  /\ at = [c \in Clients |-> "reading"] /\ cur = [c \in Clients |-> None]
  /\ queue = <<>> /\ seen = {} /\ bloom = {}
  /\ writer = "good" /\ reconnecting = FALSE /\ delayed = "none"
  /\ listening = TRUE /\ wire = <<>> /\ lost = {}

Go(c, p) == at' = [at EXCEPT ![c] = p]
Drop(c)  == at' = [at EXCEPT ![c] = "reading"] /\ cur' = [cur EXCEPT ![c] = None]

-----------------------------------------------------------------------------
(***************************************************************************)
(* FastDedup.check_and_add.  Every call first drops the oldest quarter if  *)
(* the set is full.                                                        *)
(***************************************************************************)
Kept     == IF Len(queue) >= MaxEvents THEN SubSeq(queue, Quarter + 1, Len(queue)) ELSE queue
KeptSet  == seen \ (ToSet(queue) \ ToSet(Kept))
Known(e) == e \in KeptSet

AddSeenOnly(e) ==       \* altered: the id is noted as seen and not queued
  queue' = Kept /\ seen' = KeptSet \cup {e}

Add(e) == queue' = Append(Kept, e) /\ seen' = KeptSet \cup {e}

Expire ==               \* the oldest entry is older than the window
  /\ queue # <<>>
  /\ queue' = Tail(queue) /\ seen' = seen \ {Head(queue)}
  /\ UNCHANGED <<at, cur, bloom, line, lost>>

(***************************************************************************)
(* process and _is_duplicate.  The Bloom filter may err on the side of     *)
(* "seen"; then Redis is asked.                                            *)
(***************************************************************************)
Refuse(c, e) ==         \* seen within the window; a full window is trimmed all the same
  /\ at[c] = "reading" /\ Known(e)
  /\ queue' = Kept /\ seen' = KeptSet
  /\ UNCHANGED <<at, cur, bloom, line, lost>>

Receive(c, e) ==
  /\ at[c] = "reading" /\ ~Known(e)
  /\ Add(e)
  /\ cur' = [cur EXCEPT ![c] = e]
  /\ \/ Go(c, "deciding") /\ UNCHANGED bloom
     \/ e \notin bloom /\ Go(c, "forwarding") /\ bloom' = bloom \cup {e}
  /\ UNCHANGED <<line, lost>>

LetThrough(c) ==        \* no key, or Redis is not to be asked
  /\ at[c] = "deciding"
  /\ Go(c, "forwarding") /\ bloom' = bloom \cup {cur[c]}
  /\ UNCHANGED <<cur, queue, seen, line, lost>>

RefuseByKey(c) ==       \* Redis holds a key, of an event that was let through
  /\ at[c] = "deciding" /\ cur[c] \in bloom
  /\ Drop(c)
  /\ UNCHANGED <<window, line, lost>>

GetFails(c) ==          \* the exception ends the client's connection; it makes another
  /\ at[c] = "deciding"
  /\ Drop(c)
  /\ lost' = lost \cup {cur[c]}
  /\ UNCHANGED <<window, line>>

-----------------------------------------------------------------------------
(***************************************************************************)
(* _forward_roundrobin and connect_route_engine.                           *)
(***************************************************************************)
Write(c) ==             \* on a broken connection the first lines vanish without an error
  /\ at[c] = "forwarding" /\ writer # "none"
  /\ IF writer = "good" THEN wire' = Append(wire, cur[c]) /\ UNCHANGED lost
                        ELSE lost' = lost \cup {cur[c]} /\ UNCHANGED wire
  /\ Drop(c)
  /\ UNCHANGED <<window, writer, reconnecting, delayed, listening>>

WriteFails(c) ==        \* a reset, or a drain that takes too long
  /\ at[c] = "forwarding" /\ writer # "none"
  /\ wire' \in IF writer = "good" THEN {wire, Append(wire, cur[c])} ELSE {wire}
  /\ lost' = lost \cup {cur[c]}
  /\ writer' = "none"
  /\ reconnecting' = TRUE
  /\ delayed' = IF reconnecting THEN delayed ELSE "waiting"
  /\ Drop(c)
  /\ UNCHANGED <<window, listening>>

GiveUp(c) ==            \* another reconnect is under way
  /\ at[c] = "forwarding" /\ writer = "none" /\ reconnecting
  /\ lost' = lost \cup {cur[c]}
  /\ Drop(c)
  /\ UNCHANGED <<window, line>>

ConnectUnguarded(c) ==  \* altered: the flag is not looked at
  /\ at[c] = "forwarding" /\ writer = "none"
  /\ reconnecting' = TRUE
  /\ Go(c, "connecting")
  /\ UNCHANGED <<cur, window, lost, writer, delayed, wire, listening>>

Connect(c) ==           \* the coroutine itself reconnects, with its event in hand
  /\ at[c] = "forwarding" /\ writer = "none" /\ ~reconnecting
  /\ reconnecting' = TRUE
  /\ Go(c, "connecting")
  /\ UNCHANGED <<cur, window, lost, writer, delayed, wire, listening>>

Reconnected(c) ==       \* one of the three attempts succeeds, and the line is written
  /\ at[c] = "connecting" /\ listening
  /\ writer' = "good" /\ reconnecting' = FALSE
  /\ wire' = Append(wire, cur[c])
  /\ Drop(c)
  /\ UNCHANGED <<window, lost, delayed, listening>>

NotReconnected(c) ==
  /\ at[c] = "connecting" /\ ~listening
  /\ reconnecting' = FALSE
  /\ lost' = lost \cup {cur[c]}
  /\ Drop(c)
  /\ UNCHANGED <<window, writer, delayed, wire, listening>>

ReconnectStarts ==      \* _reconnect_delayed after three seconds: closes what there is
  /\ delayed = "waiting"
  /\ delayed' = "connecting" /\ writer' = "none"
  /\ UNCHANGED <<at, cur, window, lost, reconnecting, wire, listening>>

ReconnectEnds ==
  /\ delayed = "connecting"
  /\ delayed' = "none" /\ reconnecting' = FALSE
  /\ writer' = IF listening THEN "good" ELSE "none"
  /\ UNCHANGED <<at, cur, window, lost, wire, listening>>

-----------------------------------------------------------------------------
(***************************************************************************)
(* The route engine's end of the connection.                               *)
(***************************************************************************)
EngineStops ==          \* what it has not read is gone
  /\ listening
  /\ listening' = FALSE
  /\ writer' = IF writer = "good" THEN "broken" ELSE writer
  /\ lost' = lost \cup ToSet(wire) /\ wire' = <<>>
  /\ UNCHANGED <<at, cur, window, reconnecting, delayed>>

EngineStarts ==
  /\ ~listening
  /\ listening' = TRUE
  /\ UNCHANGED <<at, cur, window, lost, writer, reconnecting, delayed, wire>>

Read(e) ==              \* the engine reads a line
  /\ wire # <<>> /\ Head(wire) = e /\ e \notin Odd
  /\ wire' = Tail(wire)
  /\ UNCHANGED <<at, cur, window, lost, writer, reconnecting, delayed, listening>>

HangUp ==               \* classify raises: the engine closes the router's connection
  /\ wire # <<>> /\ Head(wire) \in Odd
  /\ writer' = IF writer = "good" THEN "broken" ELSE writer
  /\ lost' = lost \cup ToSet(wire) /\ wire' = <<>>
  /\ UNCHANGED <<at, cur, window, reconnecting, delayed, listening>>

-----------------------------------------------------------------------------
Work(c) ==              \* the steps a coroutine takes without waiting for its client
  \/ LetThrough(c) \/ RefuseByKey(c) \/ GetFails(c)
  \/ Write(c) \/ WriteFails(c) \/ GiveUp(c)
  \/ Connect(c) \/ Reconnected(c) \/ NotReconnected(c)

Serve(c) == Work(c) \/ \E e \in Events : Refuse(c, e) \/ Receive(c, e)

Reconnect == ReconnectStarts \/ ReconnectEnds

Next ==
  \/ \E c \in Clients : Serve(c)
  \/ Reconnect \/ Expire \/ EngineStops \/ EngineStarts
  \/ \E e \in Events : Read(e)
  \/ HangUp

Spec == Init /\ [][Next]_vars

-----------------------------------------------------------------------------
\* The types, and that a coroutine has an event exactly while it works on one.
TypeOK ==
  /\ at \in [Clients -> Points] /\ cur \in [Clients -> Events \cup {None}]
  /\ \A c \in Clients : at[c] = "reading" <=> cur[c] = None
  /\ queue \in Seq(Events) /\ seen \subseteq Events /\ bloom \subseteq Events
  /\ writer \in {"none", "good", "broken"} /\ reconnecting \in BOOLEAN
  /\ delayed \in {"none", "waiting", "connecting"} /\ listening \in BOOLEAN
  /\ wire \in Seq(Events) /\ lost \subseteq Events

\* FastDedup keeps its queue and its set in step, whatever expires or overflows:
\* an id in the set that left the queue would be refused for ever.  And what is
\* refused (it is in the set) was let through (the Bloom filter has it), was
\* lost, or is being decided on: a filter that errs, and is never reset, does
\* not decide on its own.
DedupSound ==
  /\ seen = ToSet(queue) /\ Len(queue) <= MaxEvents
  /\ \A i, j \in DOMAIN queue : queue[i] = queue[j] => i = j
  /\ seen \subseteq bloom \cup lost \cup {cur[c] : c \in Clients}

Connecting(c) == at[c] = "connecting"

\* The flag is up exactly while somebody reconnects, one coroutine or the
\* delayed task: it is always put down again, and nobody reconnects while there
\* is a connection to lose.
OneReconnect ==
  /\ \A c, d \in Clients : Connecting(c) /\ Connecting(d) => c = d
  /\ (\E c \in Clients : Connecting(c)) => delayed = "none"
  /\ reconnecting <=> delayed # "none" \/ \E c \in Clients : Connecting(c)
  /\ reconnecting => writer = "none"
==============================================================================
