------------------------------ MODULE SseHandler ------------------------------
(***************************************************************************)
(* The REQ streams of the SSE endpoint (relay/sse_handler.py).  One        *)
(* coroutine per request registers a queue under the id of the             *)
(* subscription, whoever's it is, asks the table once, sends the rows and  *)
(* EOSE, and then waits for its queue.  Nobody puts anything into a queue: *)
(* the calls of broadcast in relay_server_v2.py are commented out.  So the *)
(* queues are names without contents here, and a stream that waits does    *)
(* not learn that its client is gone.                                      *)
(*                                                                         *)
(* A connection is a line of frames in transit, closed by Eof if the       *)
(* stream ended in an orderly way, and "held" until either end or the      *)
(* network lets go.  The frames of an answer enter the line together: how  *)
(* many of them arrive is decided at its other end.  An operator marked    *)
(* "altered" is not the code's: it is a plausible mistake in the one after *)
(* it, which a property must notice when it takes its place.               *)
(***************************************************************************)
EXTENDS Integers, Sequences, FiniteSets, Functions, SequencesExt

CONSTANTS
  Events,
  created,    \* [Events -> Nat]: created_at
  Conns,      \* connections, in the order of their requests
  Limit,      \* of a filter that has one
  Default,    \* of a filter that has none
  Eose, Eof, None

ASSUME HandlerAssumption ==
  /\ Conns \subseteq Nat
  /\ created \in [Events -> Nat]
  /\ Limit \in Nat \ {0} /\ Default \in Nat \ {0}
  /\ {Eose, Eof, None} \cap Events = {} /\ Eose # Eof /\ None \notin Nat

VARIABLES
  db,         \* the events of the filter's kinds and authors in the table
  serving,    \* the relay runs
  stream,     \* what the coroutine of each connection still needs
  queues,     \* broadcaster._queues: the connection whose queue an id has
  line,       \* the frames in transit on each connection
  held,       \* the connections nobody has let go
  asked       \* history: what was in the table when the answer was drawn up

server == <<db, serving, stream, queues, line, held, asked>>

Phases == {"unused", "asked", "waiting", "ended"}

Unused     == [phase |-> "unused", sub |-> None, since |-> 0, limit |-> Default]
Waiting(c) == [Unused EXCEPT !.phase = "waiting", !.sub = stream[c].sub]
Ended      == [Unused EXCEPT !.phase = "ended"]

ServerInit ==
  /\ db = {} /\ serving = TRUE
  /\ stream = [c \in Conns |-> Unused]
  /\ queues = <<>>
  /\ line = [c \in Conns |-> <<>>] /\ held = {}
  /\ asked = [c \in Conns |-> {}]

At(c, p)      == stream[c].phase = p
Without(f, x) == Restrict(f, DOMAIN f \ {x})

-----------------------------------------------------------------------------
(***************************************************************************)
(* handle_req.                                                             *)
(***************************************************************************)
Accept(c, sub, since, limit) ==
  /\ serving /\ At(c, "unused")
  /\ stream' = [stream EXCEPT ![c] = [Unused EXCEPT !.phase = "asked", !.sub = sub,
                                        !.since = since, !.limit = limit]]
  /\ queues' = [s \in DOMAIN queues \cup {sub} |-> IF s = sub THEN c ELSE queues[s]]
  /\ held' = held \cup {c}
  /\ UNCHANGED <<db, serving, line, asked>>

(***************************************************************************)
(* build_sse_query and query_events_sse: the newest rows not older than    *)
(* since, newest first, up to the limit; of equally old ones in any order. *)
(***************************************************************************)
Matching(es, since) == {e \in es : created[e] >= since}

Sorted(q) == \A i, j \in DOMAIN q : i < j => created[q[i]] >= created[q[j]]

Answers(es, n) ==
  {SubSeq(q, 1, IF n < Len(q) THEN n ELSE Len(q)) : q \in {p \in SetToSeqs(es) : Sorted(p)}}

Answer(c) ==            \* the rows and EOSE
  /\ At(c, "asked") /\ c \in held
  /\ \E q \in Answers(Matching(db, stream[c].since), stream[c].limit) :
       line' = [line EXCEPT ![c] = q \o <<Eose>>]
  /\ stream' = [stream EXCEPT ![c] = Waiting(c)]
  /\ asked' = [asked EXCEPT ![c] = db]
  /\ UNCHANGED <<db, serving, queues, held>>

AnswerVanishes(c) ==    \* the client is gone and no write has noticed
  /\ At(c, "asked") /\ c \notin held
  /\ stream' = [stream EXCEPT ![c] = Waiting(c)]
  /\ UNCHANGED <<db, serving, queues, line, held, asked>>

EndKeeping(c) ==        \* altered: the queue is not taken back
  /\ stream' = [stream EXCEPT ![c] = Ended]
  /\ UNCHANGED <<db, serving, held, queues, asked>>

End(c) ==
  /\ stream' = [stream EXCEPT ![c] = Ended]
  /\ queues' = Without(queues, stream[c].sub)
  /\ UNCHANGED <<db, serving, held, asked>>

AnswerFails(c) ==       \* a write did notice
  /\ At(c, "asked") /\ c \notin held
  /\ End(c) /\ UNCHANGED line

QueryFails(c) ==        \* the stream ends as if it were complete, without EOSE
  /\ At(c, "asked")
  /\ line' = IF c \in held THEN [line EXCEPT ![c] = <<Eof>>] ELSE line
  /\ End(c)

Serve(c) == Answer(c) \/ AnswerVanishes(c) \/ AnswerFails(c) \/ QueryFails(c)

-----------------------------------------------------------------------------
Store(e) ==             \* by any writer of the table, perhaps long after its creation
  /\ serving /\ e \notin db
  /\ db' = db \cup {e}
  /\ UNCHANGED <<serving, stream, queues, line, held, asked>>

ServerStops ==
  /\ serving
  /\ serving' = FALSE
  /\ stream' = [c \in Conns |-> IF At(c, "unused") THEN Unused ELSE Ended]
  /\ queues' = <<>> /\ held' = {}
  /\ UNCHANGED <<db, line, asked>>

ServerStarts ==
  /\ ~serving
  /\ serving' = TRUE
  /\ UNCHANGED <<db, stream, queues, line, held, asked>>

-----------------------------------------------------------------------------
(***************************************************************************)
(* A queue is registered for a stream that may still use it, under its id: *)
(* on whatever way a stream ends, and whichever other stream of the same   *)
(* id it takes the queue from, none is left behind.                        *)
(***************************************************************************)
NoQueueLeft ==
  \A s \in DOMAIN queues :
    LET c == queues[s] IN ~At(c, "unused") /\ ~At(c, "ended") /\ stream[c].sub = s
==============================================================================
