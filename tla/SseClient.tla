------------------------------- MODULE SseClient -------------------------------
(***************************************************************************)
(* The subscriptions of the SSE client (relay/nostr_sse_client.py) against *)
(* the endpoint of SseHandler.  A subscription with a callback has a       *)
(* thread of its own and an entry in a table; one without is a generator   *)
(* its consumer may drop.  Both read their stream, and one that follows    *)
(* asks again when it ends: from the second of EOSE on if it ended in an   *)
(* orderly way after EOSE, from the beginning if not.  There is no timeout *)
(* on reading.  The table is shared by the threads; the id of a            *)
(* subscription is the second and the size of the table.                   *)
(***************************************************************************)
EXTENDS SseHandler

CONSTANTS
  Threads,
  Followers,  \* those with follow=True
  Generators, \* those without a callback
  MaxRetries, \* max_retries, 10 in the code
  MaxTime,    \* bound: of the clock, in seconds
  Plans       \* bound: functions from the threads that run to the answers they may get

ASSUME ClientAssumption ==
  /\ Followers \subseteq Threads /\ Generators \subseteq Threads
  /\ MaxRetries \in Nat \ {0} /\ MaxTime \in Nat \ {0}
  /\ \A p \in Plans : DOMAIN p \subseteq Threads

VARIABLES
  now,        \* the clock, of client, relay and authors
  at,         \* where each thread stands
  sub,        \* its id
  loop,       \* the locals of its loop: the since (0 if there is none) and the limit
              \* of its filter, and its failures since it was last answered
  conn,       \* its connection, or None
  eose,       \* eose_time of the stream it reads, 0 before EOSE
  read,       \* history: the events it has read, until it ends
  table,      \* _subscriptions: the thread whose callback an id has
  shrunk,     \* history: the seconds in which an id was taken out of the table
  calls       \* the answers each thread may still get

client == <<now, at, sub, loop, conn, eose, read, table, shrunk, calls>>
vars   == <<server, client>>

Points == {"unused", "calling", "reading", "done"}

Fresh == [since |-> 0, limit |-> Limit, retries |-> 0]

Init ==
  /\ ServerInit
  /\ now = 1
  /\ at = [t \in Threads |-> "unused"] /\ sub = [t \in Threads |-> None]
  /\ loop = [t \in Threads |-> Fresh] /\ conn = [t \in Threads |-> None]
  /\ eose = [t \in Threads |-> 0] /\ read = [t \in Threads |-> {}]
  /\ table = <<>> /\ shrunk = {}
  /\ calls \in Plans

-----------------------------------------------------------------------------
(***************************************************************************)
(* subscribe.                                                              *)
(***************************************************************************)
NewIdBySecond == <<now, 0>>                       \* altered: the second only
NewId         == <<now, Cardinality(DOMAIN table)>>

Subscribe(t) ==
  /\ at[t] = "unused" /\ t \in DOMAIN calls
  /\ at' = [at EXCEPT ![t] = "calling"]
  /\ sub' = [sub EXCEPT ![t] = NewId]
  /\ table' = IF t \in Generators THEN table
              ELSE [s \in DOMAIN table \cup {NewId} |-> IF s = NewId THEN t ELSE table[s]]
  /\ UNCHANGED <<server, now, loop, conn, eose, read, shrunk, calls>>

TakeOut(s) ==           \* out of the table, whosever entry it is by now
  /\ table' = Without(table, s)
  /\ shrunk' = IF s \in DOMAIN table THEN shrunk \cup {now} ELSE shrunk

Leave(t) ==             \* the end of the loop
  /\ at' = [at EXCEPT ![t] = "done"]
  /\ loop' = [loop EXCEPT ![t] = Fresh] /\ read' = [read EXCEPT ![t] = {}]
  /\ IF t \in Generators THEN UNCHANGED <<table, shrunk>> ELSE TakeOut(sub[t])

Again(t, l) ==          \* the next round, with the locals l
  /\ at' = [at EXCEPT ![t] = "calling"] /\ loop' = [loop EXCEPT ![t] = l]
  /\ UNCHANGED <<read, table, shrunk>>

-----------------------------------------------------------------------------
(***************************************************************************)
(* One round of the loop of _run_subscription and _stream_events.          *)
(***************************************************************************)
Call(t, c) ==           \* answered with 200
  /\ at[t] = "calling"
  /\ calls[t] > 0 /\ calls' = [calls EXCEPT ![t] = @ - 1]
  /\ \A d \in Conns : d < c => ~At(d, "unused")
  /\ Accept(c, sub[t], loop[t].since, loop[t].limit)
  /\ at' = [at EXCEPT ![t] = "reading"] /\ conn' = [conn EXCEPT ![t] = c]
  /\ loop' = [loop EXCEPT ![t].retries = 0]
  /\ UNCHANGED <<now, sub, eose, read, table, shrunk>>

CountedAfresh(t) ==     \* altered: the count is reset before the relay has answered
  IF t \in Followers /\ 1 < MaxRetries
  THEN Again(t, [loop[t] EXCEPT !.retries = 1])
  ELSE Leave(t)

Counted(t) ==           \* a failure, and its sleep
  IF t \in Followers /\ loop[t].retries + 1 < MaxRetries
  THEN Again(t, [loop[t] EXCEPT !.retries = @ + 1])
  ELSE Leave(t)

CallFails(t) ==         \* refused, timed out, or not answered with 200, also while the relay runs
  /\ at[t] = "calling"
  /\ Counted(t)
  /\ UNCHANGED <<server, now, sub, conn, eose, calls>>

Frame(t) == Head(line[conn[t]])

Reading(t) == at[t] = "reading" /\ line[conn[t]] # <<>>

Consume(t) ==
  /\ line' = [line EXCEPT ![conn[t]] = Tail(@)]
  /\ UNCHANGED <<db, serving, stream, queues, held, asked>>

ReadEvent(t) ==
  /\ Reading(t) /\ Frame(t) \in Events
  /\ Consume(t)
  /\ read' = [read EXCEPT ![t] = @ \cup {Frame(t)}]
  /\ UNCHANGED <<now, at, sub, loop, conn, eose, table, shrunk, calls>>

ReadEose(t) ==
  /\ Reading(t) /\ Frame(t) = Eose
  /\ Consume(t)
  /\ eose' = [eose EXCEPT ![t] = now]
  /\ UNCHANGED <<now, at, sub, loop, conn, read, table, shrunk, calls>>

Drop(t) ==              \* the client closes its end, if it is not closed
  /\ held' = held \ {conn[t]} /\ line' = [line EXCEPT ![conn[t]] = <<>>]
  /\ asked' = [asked EXCEPT ![conn[t]] = {}]
  /\ conn' = [conn EXCEPT ![t] = None] /\ eose' = [eose EXCEPT ![t] = 0]
  /\ UNCHANGED <<db, serving, stream, queues>>

MovedAlways(t) ==       \* altered: the filter moves on whether EOSE came or not
  [loop[t] EXCEPT !.since = now, !.limit = Default]

Moved(t) ==
  IF eose[t] # 0 THEN [loop[t] EXCEPT !.since = eose[t], !.limit = Default] ELSE loop[t]

ReadEof(t) ==
  /\ Reading(t) /\ Frame(t) = Eof
  /\ Drop(t)
  /\ IF t \in Followers THEN Again(t, Moved(t)) ELSE Leave(t)
  /\ UNCHANGED <<now, sub, calls>>

ReadFails(t) ==         \* the connection is lost, or the callback raises
  /\ at[t] = "reading"
  /\ Drop(t)
  /\ Counted(t)
  /\ UNCHANGED <<now, sub, calls>>

Abandon(t) ==           \* the consumer drops the generator
  /\ t \in Generators /\ at[t] = "reading"
  /\ Drop(t) /\ Leave(t)
  /\ UNCHANGED <<now, sub, calls>>

(***************************************************************************)
(* close_subscription: the endpoint refuses CLOSE, and the thread goes on  *)
(* reading for a callback that is no longer there.                         *)
(***************************************************************************)
Close(s) ==
  /\ s \in DOMAIN table
  /\ TakeOut(s)
  /\ UNCHANGED <<server, now, at, sub, loop, conn, eose, read, calls>>

-----------------------------------------------------------------------------
Tick ==
  /\ now < MaxTime /\ now' = now + 1
  /\ UNCHANGED <<server, at, sub, loop, conn, eose, read, table, shrunk, calls>>

Cut(c) ==               \* a proxy between the two ends the stream in an orderly way
  /\ c \in held
  /\ held' = held \ {c}
  /\ \E n \in 0 .. Len(line[c]) : line' = [line EXCEPT ![c] = Append(SubSeq(@, 1, n), Eof)]
  /\ UNCHANGED <<db, serving, stream, queues, asked, client>>

Endpoint(step) == step /\ UNCHANGED client

Run(t) ==               \* what a thread does without its user
  \/ \E c \in Conns : Call(t, c)
  \/ CallFails(t) \/ ReadEvent(t) \/ ReadEose(t) \/ ReadEof(t)

Next ==
  \/ \E t \in Threads : Subscribe(t) \/ Run(t) \/ ReadFails(t) \/ Abandon(t)
  \/ \E s \in DOMAIN table : Close(s)
  \/ \E c \in Conns : Endpoint(Serve(c)) \/ Cut(c)
  \/ \E e \in Events : created[e] <= now /\ Endpoint(Store(e))
  \/ Endpoint(ServerStops) \/ Endpoint(ServerStarts)
  \/ Tick

Spec == Init /\ [][Next]_vars

(***************************************************************************)
(* The scheduler of the operating system runs each thread, the event loop  *)
(* of the relay each coroutine, and a reader whose connection is dead      *)
(* notices; a host that vanishes without a reset is not noticed, and not   *)
(* modelled.  Nobody has to start the relay again.                         *)
(***************************************************************************)
Fairness ==
  /\ \A t \in Threads :
       /\ WF_vars(Run(t))
       /\ WF_vars(at[t] = "reading" /\ conn[t] \notin held /\ line[conn[t]] = <<>> /\ ReadFails(t))
  /\ \A c \in Conns : WF_vars(Endpoint(Serve(c)))

FairSpec == Spec /\ Fairness

-----------------------------------------------------------------------------
\* The types, and that a thread has a connection exactly while it reads.
TypeOK ==
  /\ db \subseteq Events /\ serving \in BOOLEAN /\ held \subseteq Conns
  /\ \A c \in Conns : stream[c].phase \in Phases /\ line[c] \in Seq(Events \cup {Eose, Eof})
  /\ at \in [Threads -> Points] /\ conn \in [Threads -> Conns \cup {None}]
  /\ \A t \in Threads : at[t] = "reading" <=> conn[t] # None
  /\ loop \in [Threads -> [since : 0 .. MaxTime, limit : {Limit, Default},
                            retries : 0 .. MaxRetries - 1]]
  /\ eose \in [Threads -> 0 .. MaxTime] /\ read \in [Threads -> SUBSET Events]
  /\ \A s \in DOMAIN table : sub[table[s]] = s /\ table[s] \notin Generators

(***************************************************************************)
(* When a follower's filter moves on, it leaves no event behind that the   *)
(* answer it got should have held: what lies before the new since and was  *)
(* asked for was read, or came to the table after the query, or was        *)
(* crowded out by a limit of newer ones.  (Those are lost: nothing is sent *)
(* live, and the next query begins at the second of EOSE.)                 *)
(***************************************************************************)
AskedFor(es, t) == Matching(es, loop[t].since)

CrowdedOut(e, t) ==
  LET newer == {f \in AskedFor(asked[conn[t]], t) \ {e} : created[f] >= created[e]}
  IN  Cardinality(newer) >= loop[t].limit

MovesOn(t) == loop'[t].since > loop[t].since

LeavesNothingBehind ==
  [][\A t \in Threads : MovesOn(t) =>
       \A e \in AskedFor(db, t) \ AskedFor(db, t)' :
         e \in read[t] \/ e \notin asked[conn[t]] \/ CrowdedOut(e, t)]_vars

(***************************************************************************)
(* Two subscriptions that run have different ids, so that neither takes    *)
(* the other's place in the table or its queue at the relay, unless they   *)
(* were made in a second in which one had been closed or had ended, or     *)
(* one of them has no callback.                                            *)
(***************************************************************************)
IdsDiffer ==
  \A t, u \in Threads \ Generators :
    t # u /\ sub[t] # None /\ sub[t] = sub[u] => sub[t][1] \in shrunk

(***************************************************************************)
(* If the relay does not come back, every subscription ends, whatever it   *)
(* was doing and however often it was answered before.                     *)
(***************************************************************************)
GivesUp ==
  \A t \in Threads : <>[]~serving => <>[](at[t] \in {"unused", "done"})
==============================================================================
