----------------------------- MODULE MeshFetch -----------------------------
(***************************************************************************)
(* Reading the agents' events from other relays: PulseSync, which finds    *)
(* out which relays answer, and MeshFetcher, which asks those for what is  *)
(* new.  Both loops run in the relay's event loop with nothing between     *)
(* them but the table of results, which a pulse replaces as a whole when   *)
(* its last ping is done; a fetch cycle under way keeps the relays it set  *)
(* out with.                                                               *)
(*                                                                         *)
(* The other relays, the blacklist file and the clock change at any        *)
(* moment.  Batches of pings and the five fetches allowed at a time only   *)
(* put the answers in some order: any order is allowed here.  What a       *)
(* fetched event does to the tables is in EventHandler.                    *)
(***************************************************************************)
EXTENDS Integers, FiniteSets

CONSTANTS
  Relays,       \* PulseSync._relays
  Events,       \* the agents' notes
  Created,      \* Created[e]: created_at
  Reaches,      \* Reaches[r]: the events that are ever sent to relay r
  Unsteady,     \* the relays that come and go, and that may be blacklisted
  Talkers,      \* the relays that may go on sending without an EOSE
  Odd,          \* the relays that may send an EVENT that is no object
  Window,       \* how far back a cycle asks at most (six hours)
  Limit,        \* "limit" of the request (100)
  MaxTime,      \* bound: the clock
  MaxRefused,   \* bound: inserts that fail
  MaxRestarts   \* bound: restarts of the relay

ASSUME MeshAssumption ==
  /\ IsFiniteSet(Relays) /\ IsFiniteSet(Events)
  /\ Created \in [Events -> Nat]
  /\ Reaches \in [Relays -> SUBSET Events]
  /\ Unsteady \cup Talkers \cup Odd \subseteq Relays
  /\ Window \in Nat /\ Limit \in Nat \ {0}
  /\ MaxTime \in Nat /\ MaxRefused \in Nat /\ MaxRestarts \in Nat

VARIABLES
  now,        \* the clock
  posted,     \* the events each relay holds
  up,         \* the relays that accept a connection in time
  listed,     \* the blacklist file
  pulsing,    \* a pulse is under way
  unpinged,   \* ... the relays it has yet to ping
  dialling,   \* ... those it is connecting to, past the blacklist
  found,      \* ... those it connected to
  alive,      \* the relays that are alive in _results
  last,       \* _last_fetch
  since,      \* the cycle under way: relay -> since of its request
  answers,    \* ... and what the relays answered so far
  talking,    \* ... and the relays that go on sending, without an EOSE
  db,         \* the events stored
  refused,    \* history: events whose insert raised
  restarts

world == <<now, posted, up, listed>>
pulse == <<pulsing, unpinged, dialling, found, alive>>
fetch == <<last, since, answers, talking, db, refused>>
vars  == <<world, pulse, fetch, restarts>>

Nothing  == [r \in {} |-> 0]     \* no cycle under way, no answer yet
Answer   == [got : SUBSET Events, odd : BOOLEAN, held : SUBSET Events]   \* held: if complete
Later(a, b) == IF a > b THEN a ELSE b

-----------------------------------------------------------------------------
(***************************************************************************)
(* PulseSync.  A ping reads the blacklist, then connects.                  *)
(***************************************************************************)
BeginPulse ==
  /\ ~pulsing
  /\ pulsing' = TRUE /\ unpinged' = Relays
  /\ found' = {}
  /\ UNCHANGED <<world, dialling, alive, fetch, restarts>>

Ping(r) ==
  /\ r \in unpinged
  /\ unpinged' = unpinged \ {r}
  /\ dialling' = IF r \in listed THEN dialling ELSE dialling \cup {r}
  /\ UNCHANGED <<world, pulsing, found, alive, fetch, restarts>>

Dial(r) ==
  /\ r \in dialling
  /\ dialling' = dialling \ {r}
  /\ found' = IF r \in up THEN found \cup {r} ELSE found
  /\ UNCHANGED <<world, pulsing, unpinged, alive, fetch, restarts>>

PulseMerges ==          \* altered: the results are added to the earlier ones
  /\ pulsing /\ unpinged = {} /\ dialling = {}
  /\ pulsing' = FALSE /\ alive' = alive \cup found /\ found' = {}
  /\ UNCHANGED <<world, unpinged, dialling, fetch, restarts>>

EndPulse ==
  /\ pulsing /\ unpinged = {} /\ dialling = {}
  /\ pulsing' = FALSE /\ alive' = found /\ found' = {}
  /\ UNCHANGED <<world, unpinged, dialling, fetch, restarts>>

-----------------------------------------------------------------------------
(***************************************************************************)
(* MeshFetcher.  A relay answers with its newest events up to the limit;   *)
(* three silent seconds, a closed connection or an exception cut the       *)
(* answer short, which the cycle cannot tell from a complete one.  As long *)
(* as a relay goes on sending, and sends no EOSE, nothing ends its answer. *)
(* When all relays have answered, one after the other counts as fetched up *)
(* to now and has its events stored; an insert that raises is logged and   *)
(* forgotten, an EVENT that is no object ends the cycle.                   *)
(***************************************************************************)
CycleSharesClock ==     \* altered: one time of the last fetch for all relays
  /\ DOMAIN since = {} /\ alive # {}
  /\ LET latest == CHOOSE t \in {last[r] : r \in Relays} : \A r \in Relays : last[r] <= t
     IN  since' = [r \in alive |-> Later(now - Window, latest)]
  /\ UNCHANGED <<world, pulse, last, answers, talking, db, refused, restarts>>

BeginCycle ==
  /\ DOMAIN since = {} /\ alive # {}
  /\ since' = [r \in alive |-> Later(now - Window, last[r])]
  /\ UNCHANGED <<world, pulse, last, answers, talking, db, refused, restarts>>

Wanted(r) == {e \in posted[r] : Created[e] >= since[r]}

Newest(S) ==            \* the possible answers under the limit
  {T \in SUBSET S :
     /\ Cardinality(T) = IF Cardinality(S) > Limit THEN Limit ELSE Cardinality(S)
     /\ \A e \in T, f \in S \ T : Created[e] >= Created[f]}

Answers(r, got, whole) ==
  /\ \E odd \in {o \in BOOLEAN : o => r \in Odd} :
       answers' = [q \in DOMAIN answers \cup {r} |->
                     IF q # r THEN answers[q]
                     ELSE [got |-> got, odd |-> odd,
                           held |-> IF whole /\ ~odd THEN posted[r] ELSE {}]]
  /\ talking' = talking \ {r}
  /\ UNCHANGED <<world, pulse, last, since, db, refused, restarts>>

Asked == DOMAIN since \ DOMAIN answers

GoesOn(r) == r \in talking \cap up

AnswerFull(r) ==
  /\ r \in Asked /\ r \in up /\ ~GoesOn(r)
  /\ \E got \in Newest(Wanted(r)) : Answers(r, got, Cardinality(Wanted(r)) <= Limit)

AnswerCut(r) ==
  /\ r \in Asked /\ ~GoesOn(r)
  /\ \E got \in SUBSET Wanted(r) : Answers(r, got, FALSE)

Fetched(rs) == UNION {answers[r].got : r \in rs}

Stores(moved, some) ==  \* the relays whose cursor moves, the events that are tried
  /\ last' = [r \in Relays |-> IF r \in moved THEN now ELSE last[r]]
  /\ \E bad \in SUBSET (some \ db) :
       /\ Cardinality(refused \cup bad) <= MaxRefused
       /\ db' = db \cup (some \ bad)
       /\ refused' = refused \cup bad
  /\ since' = Nothing /\ answers' = Nothing
  /\ UNCHANGED <<world, pulse, talking, restarts>>

EndCycle ==
  /\ DOMAIN since # {} /\ Asked = {}
  /\ \A r \in DOMAIN answers : ~answers[r].odd
  /\ Stores(DOMAIN answers, Fetched(DOMAIN answers))

BreakCycle(r) ==        \* store_event raises on r's answer; the relays after it are dropped
  /\ DOMAIN since # {} /\ Asked = {}
  /\ r \in DOMAIN answers /\ answers[r].odd
  /\ \E before \in SUBSET {q \in DOMAIN answers \ {r} : ~answers[q].odd}, part \in SUBSET answers[r].got :
       Stores(before \cup {r}, Fetched(before) \cup part)

-----------------------------------------------------------------------------
(***************************************************************************)
(* What changes around the two loops, and the restart of the relay: what   *)
(* is in memory is lost.                                                   *)
(***************************************************************************)
Tick ==
  /\ now < MaxTime
  /\ now' = now + 1
  /\ UNCHANGED <<posted, up, listed, pulse, fetch, restarts>>

Post(r, e) ==
  /\ e \in Reaches[r] \ posted[r] /\ Created[e] <= now
  /\ posted' = [posted EXCEPT ![r] = @ \cup {e}]
  /\ UNCHANGED <<now, up, listed, pulse, fetch, restarts>>

GoesOrComes(r) ==
  /\ up' = IF r \in up THEN up \ {r} ELSE up \cup {r}
  /\ UNCHANGED <<now, posted, listed, pulse, fetch, restarts>>

ListsOrUnlists(r) ==
  /\ listed' = IF r \in listed THEN listed \ {r} ELSE listed \cup {r}
  /\ UNCHANGED <<now, posted, up, pulse, fetch, restarts>>

TalksOrStops(r) ==      \* stops: EOSE, three silent seconds, a closed connection
  /\ r \in Asked
  /\ talking' = IF r \in talking THEN talking \ {r} ELSE talking \cup {r}
  /\ UNCHANGED <<world, pulse, last, since, answers, db, refused, restarts>>

Restart ==
  /\ restarts < MaxRestarts
  /\ restarts' = restarts + 1
  /\ pulsing' = FALSE /\ unpinged' = {} /\ dialling' = {} /\ found' = {} /\ alive' = {}
  /\ last' = [r \in Relays |-> 0] /\ since' = Nothing /\ answers' = Nothing /\ talking' = {}
  /\ UNCHANGED <<world, db, refused>>

-----------------------------------------------------------------------------
Init ==
  /\ now = 0 /\ posted = [r \in Relays |-> {}] /\ up = Relays /\ listed = {}
  /\ talking = {}
  /\ pulsing = FALSE /\ unpinged = {} /\ dialling = {} /\ found = {} /\ alive = {}
  /\ last = [r \in Relays |-> 0] /\ since = Nothing /\ answers = Nothing
  /\ db = {} /\ refused = {} /\ restarts = 0

Pulse == BeginPulse \/ EndPulse \/ \E r \in Relays : Ping(r) \/ Dial(r)
Cycle ==
  \/ BeginCycle \/ EndCycle
  \/ \E r \in Relays : AnswerFull(r) \/ AnswerCut(r) \/ BreakCycle(r)
World ==
  \/ Tick \/ Restart
  \/ \E r \in Unsteady : GoesOrComes(r) \/ ListsOrUnlists(r)
  \/ \E r \in Talkers : TalksOrStops(r)
  \/ \E r \in Relays, e \in Events : Post(r, e)

Next == Pulse \/ Cycle \/ World
Spec == Init /\ [][Next]_vars

(***************************************************************************)
(* pulse_loop and mesh_loop come round again for ever, whatever an         *)
(* iteration raises, and a ping has a timeout.  An answer has none as a    *)
(* whole, only each wait for a message: gather, and with it mesh_loop,     *)
(* waits for a relay that goes on sending.  Once it stops, its answer ends *)
(* whether or not it would start again.                                    *)
(***************************************************************************)
Held == \E r \in Asked : GoesOn(r)

FairSpec == Spec /\ WF_vars(Pulse) /\ SF_vars(~Held /\ Cycle)

-----------------------------------------------------------------------------
\* Every variable keeps its type; the relays a cycle waits for are those it set
\* out with.
TypeOK ==
  /\ now \in 0 .. MaxTime /\ posted \in [Relays -> SUBSET Events]
  /\ up \subseteq Relays /\ listed \subseteq Relays
  /\ pulsing \in BOOLEAN
  /\ unpinged \subseteq Relays /\ dialling \subseteq Relays
  /\ found \subseteq Relays /\ alive \subseteq Relays
  /\ last \in [Relays -> 0 .. MaxTime]
  /\ DOMAIN since \subseteq Relays /\ DOMAIN answers \subseteq DOMAIN since
  /\ talking \subseteq Asked
  /\ \A r \in DOMAIN since : since[r] \in Int
  /\ \A r \in DOMAIN answers : answers[r] \in Answer
  /\ db \subseteq Events /\ refused \subseteq Events
  /\ restarts \in 0 .. MaxRestarts

\* The time up to which a relay counts as fetched moves only over events that
\* are stored: those the relay held when it answered, created since the relay's
\* own last fetch and within the window, unless the answer was cut short or held
\* something that is no object, or an insert raised.  It moves for no relay that
\* the cycle did not ask, however many pulses ended in between, and for none that
\* a broken cycle dropped.
MovesOnlyPastSeen ==
  [][\A r \in Relays : last'[r] # last[r] /\ restarts' = restarts =>
       /\ r \in DOMAIN answers
       /\ \A e \in answers[r].held :
            Created[e] >= Later(now - Window, last[r]) => e \in db' \cup refused'
    ]_vars

\* A relay that stays reachable and off the blacklist is asked again and again;
\* one that stays unreachable, or stays listed, is from some moment on left
\* alone: unless, from some moment on, the cycle is held by one of its relays
\* that goes on sending without an EOSE.
MeshFollowsRelays ==
  \/ <>[]Held
  \/ \A r \in Relays :
       /\ <>[](r \in up \ listed) => []<>(r \in DOMAIN since)
       /\ <>[](r \notin up) \/ <>[](r \in listed) => <>[](r \notin DOMAIN since)
==============================================================================
