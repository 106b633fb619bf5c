-------------------------------- MODULE Fanout --------------------------------
(***************************************************************************)
(* The fanout of stored events to external relays (relay/fanout.py) and    *)
(* the scanner that tells it which of them are alive (relay/mass_pulse.py).*)
(* A worker takes events from a bounded queue and offers each, batch after *)
(* batch, to the relays alive at its start, or only to those preferred by  *)
(* the agents it mentions; the scanner checks all relays and replaces its  *)
(* set of live ones when a pass is complete.  Both suspend between         *)
(* batches, and whoever stores an event enqueues in between.               *)
(*                                                                         *)
(* An event is lost when the queue is full, when no relay is alive, when   *)
(* publishing raises and when the process stops: nothing is retried.       *)
(* _mark_dead counts failures in a column nothing reads and is left out.   *)
(* An operator marked "altered" is not the code's: it is a plausible       *)
(* mistake in the one after it, which a property must notice when it takes *)
(* its place.                                                              *)
(***************************************************************************)
EXTENDS Integers, Sequences, FiniteSets

CONSTANTS
  Events,     \* the calls of enqueue, each with its event
  Relays,     \* MassPulse._relays; rows of relays that left the list are left out
  Agents,     \* the keys of AGENT_PUBHEX
  Mentions,   \* the agents each event mentions in its p tags
  Wishes,     \* the sets of relays an agent may prefer
  QueueMax,   \* FANOUT_QUEUE_MAX
  BatchSize,  \* relays an event is offered to at a time
  ScanSize,   \* relays the scanner checks at a time
  Failures,   \* bound: rows the scanner fails to save
  Restarts,   \* bound: how often the relay starts again
  None

ASSUME FanoutAssumption ==
  /\ Mentions \in [Events -> SUBSET Agents]
  /\ Wishes \subseteq SUBSET Relays
  /\ IsFiniteSet(Relays)
  /\ QueueMax \in Nat \ {0} /\ BatchSize \in Nat \ {0} /\ ScanSize \in Nat \ {0}
  /\ Failures \in Nat /\ Restarts \in Nat
  /\ None \notin Events

VARIABLES
  queue,      \* Fanout._queue
  job,        \* the event being published, its targets, whether they are not all that live, and those left
  alive,      \* MassPulse._alive
  table,      \* the relays whose row in all_relays says alive
  scan,       \* the pass of the scanner: what is left to check and what was found alive
  prefs,      \* what the tables say each agent prefers
  cache,      \* _agent_relay_cache: the entries of some agents
  up,         \* the relays that would answer a check
  failures, restarts,
  order,      \* history: the calls of enqueue, in order
  missed,     \* history: events and targets they were not offered to when publishing ended
  held        \* history: the relays each agent preferred since the cache was cleared

outVars  == <<queue, job, cache, order, missed>>
scanVars == <<alive, table, scan, failures>>
vars == <<queue, job, alive, table, scan, prefs, cache, up, failures, restarts,
          order, missed, held>>

Idle == [event |-> None, targets |-> {}, smart |-> FALSE, todo |-> {}, offered |-> {}]
Jobs == {Idle} \cup [event : Events, targets : SUBSET Relays, smart : BOOLEAN,
                    todo : SUBSET Relays, offered : SUBSET Relays]
Cleared == [a \in {} |-> {}]
Resting == [on |-> FALSE, todo |-> {}, found |-> {}]
Scans == [on : BOOLEAN, todo : SUBSET Relays, found : SUBSET Relays]

\* get_alive: the set of the last complete pass, or the table if that is empty.
GetAlive == IF alive # {} THEN alive ELSE table

\* The next slice of a list: n of the relays left, or all if there are fewer.
Slices(todo, n) ==
  {b \in SUBSET todo : Cardinality(b) = IF Cardinality(todo) < n THEN Cardinality(todo) ELSE n}

Init ==
  /\ queue = <<>> /\ job = Idle
  /\ alive = {} /\ table \in SUBSET Relays /\ scan = Resting
  /\ prefs \in [Agents -> Wishes] /\ cache = Cleared
  /\ up \in SUBSET Relays
  /\ failures = 0 /\ restarts = 0
  /\ order = <<>> /\ missed = {}
  /\ held = prefs

-----------------------------------------------------------------------------
(***************************************************************************)
(* The queue: a deque with a maximal length, which drops its oldest.       *)
(***************************************************************************)

Push(e) ==
  IF Len(queue) < QueueMax THEN Append(queue, e) ELSE Append(Tail(queue), e)

Enqueue(e) ==
  /\ \A i \in 1 .. Len(order) : order[i] # e
  /\ queue' = Push(e)
  /\ order' = Append(order, e)
  /\ UNCHANGED <<job, cache, missed, scanVars, prefs, up, restarts, held>>

(***************************************************************************)
(* get_target_relays with the cached preferences c.  A look-up that raises *)
(* is taken for no preference and not cached.                              *)
(***************************************************************************)
FreshAlways(old) == cache   \* altered: the cache is never cleared

Fresh(old) == IF old THEN Cleared ELSE cache

\* The age of the cache is looked at only for an event that mentions an agent.
Ages(e) == IF Mentions[e] = {} THEN {FALSE} ELSE BOOLEAN

Wanted(c, a, failing) ==
  CASE a \in DOMAIN c -> c[a] [] a \in failing \ DOMAIN c -> {} [] OTHER -> prefs[a]

Targets(e, c, failing) ==
  LET some == (UNION {Wanted(c, a, failing) : a \in Mentions[e]}) \cap GetAlive
  IN  IF some # {} THEN some ELSE GetAlive

LookedUp(e, c, failing) ==
  [a \in DOMAIN c \cup (Mentions[e] \ failing) |-> Wanted(c, a, failing)]

(***************************************************************************)
(* The worker.                                                             *)
(***************************************************************************)
Take ==                 \* up to the first await of _publish
  /\ job = Idle /\ queue # <<>> /\ GetAlive # {}
  /\ \E old \in Ages(Head(queue)), failing \in SUBSET Mentions[Head(queue)] :
       LET e == Head(queue)
           c == Fresh(old)
           t == Targets(e, c, failing)
       IN  /\ job' = [event |-> e, targets |-> t, smart |-> t # GetAlive, todo |-> t, offered |-> {}]
           /\ cache' = LookedUp(e, c, failing)
           /\ held' = IF old THEN prefs ELSE held
  /\ queue' = Tail(queue)
  /\ UNCHANGED <<order, missed, scanVars, prefs, up, restarts>>

LoseKeeps ==            \* altered: the event goes back to the head of the queue
  /\ job = Idle /\ queue # <<>> /\ GetAlive = {}
  /\ UNCHANGED <<outVars, scanVars, prefs, up, restarts, held>>

Lose ==                 \* no relay is alive, or what precedes the first await raises
  /\ job = Idle /\ queue # <<>>
  /\ queue' = Tail(queue)
  /\ UNCHANGED <<job, cache, order, missed, scanVars, prefs, up, restarts, held>>

OfferOnce ==            \* altered: the end of the job has slipped into the loop
  /\ job # Idle
  /\ \E batch \in Slices(job.todo, BatchSize) :
       /\ missed' = missed \cup ({job.event} \X (job.todo \ batch))
       /\ job' = Idle
  /\ UNCHANGED <<queue, cache, order, scanVars, prefs, up, restarts, held>>

Offer ==                \* one batch, whatever its relays answer; the last one ends the job
  /\ job # Idle
  /\ \E batch \in Slices(job.todo, BatchSize) :
       LET all == job.offered \cup batch IN
       IF batch = job.todo
       THEN job' = Idle /\ missed' = missed \cup ({job.event} \X (job.targets \ all))
       ELSE job' = [job EXCEPT !.todo = @ \ batch, !.offered = all] /\ UNCHANGED missed
  /\ UNCHANGED <<queue, cache, order, scanVars, prefs, up, restarts, held>>

-----------------------------------------------------------------------------
(***************************************************************************)
(* The scanner: scan_once, again and again.                                *)
(***************************************************************************)
BeginScanOnTop ==       \* altered: a pass starts from the last result
  /\ ~scan.on
  /\ scan' = [on |-> TRUE, todo |-> Relays, found |-> alive]
  /\ UNCHANGED <<outVars, alive, table, failures, prefs, up, restarts, held>>

BeginScan ==
  /\ ~scan.on
  /\ scan' = [on |-> TRUE, todo |-> Relays, found |-> {}]
  /\ UNCHANGED <<outVars, alive, table, failures, prefs, up, restarts, held>>

CheckBatch ==           \* a row that cannot be saved keeps its status
  /\ scan.on /\ scan.todo # {}
  /\ \E batch \in Slices(scan.todo, ScanSize) : \E unsaved \in SUBSET batch :
       /\ failures + Cardinality(unsaved) <= Failures
       /\ failures' = failures + Cardinality(unsaved)
       /\ table' = (table \ (batch \ unsaved)) \cup ((batch \ unsaved) \cap up)
       /\ scan' = [scan EXCEPT !.todo = @ \ batch, !.found = @ \cup (batch \cap up)]
  /\ UNCHANGED <<outVars, alive, prefs, up, restarts, held>>

EndScan ==
  /\ scan.on /\ scan.todo = {}
  /\ alive' = scan.found
  /\ scan' = Resting
  /\ UNCHANGED <<outVars, table, failures, prefs, up, restarts, held>>

-----------------------------------------------------------------------------
Prefer(a, w) ==         \* a kind-10002 event or a note from the mesh is stored
  /\ prefs' = [prefs EXCEPT ![a] = w]
  /\ held' = [held EXCEPT ![a] = @ \cup w]
  /\ UNCHANGED <<outVars, scanVars, up, restarts>>

Change(r) ==            \* a relay goes down or comes back
  /\ up' = IF r \in up THEN up \ {r} ELSE up \cup {r}
  /\ UNCHANGED <<outVars, scanVars, prefs, restarts, held>>

Restart ==
  /\ restarts < Restarts
  /\ restarts' = restarts + 1
  /\ queue' = <<>> /\ job' = Idle
  /\ cache' = Cleared /\ held' = prefs
  /\ alive' = {} /\ scan' = Resting
  /\ UNCHANGED <<table, failures, prefs, up, order, missed>>

Worker  == Take \/ Lose \/ Offer
Scanner == BeginScan \/ CheckBatch \/ EndScan

Next ==
  \/ \E e \in Events : Enqueue(e)
  \/ Worker \/ Scanner
  \/ \E a \in Agents, w \in Wishes : Prefer(a, w)
  \/ \E r \in Relays : Change(r)
  \/ Restart

Spec == Init /\ [][Next]_vars

\* Two tasks of the event loop; every check and every offer has a timeout.
FairSpec == Spec /\ WF_vars(Worker) /\ WF_vars(Scanner)

-----------------------------------------------------------------------------
(***************************************************************************)
(* The type invariant.                                                     *)
(***************************************************************************)
TypeOK ==
  /\ queue \in Seq(Events) /\ Len(queue) <= QueueMax
  /\ job \in Jobs
  /\ alive \subseteq Relays /\ table \subseteq Relays /\ scan \in Scans
  /\ prefs \in [Agents -> SUBSET Relays] /\ held \in [Agents -> SUBSET Relays]
  /\ DOMAIN cache \subseteq Agents /\ \A a \in DOMAIN cache : cache[a] \subseteq Relays
  /\ up \subseteq Relays
  /\ failures \in 0 .. Failures /\ restarts \in 0 .. Restarts
  /\ order \in Seq(Events) /\ missed \subseteq Events \X Relays

\* q is what o ends with.
IsTailOf(q, o) ==
  Len(q) <= Len(o) /\ \A i \in 1 .. Len(q) : q[i] = o[Len(o) - Len(q) + i]

(***************************************************************************)
(* What waits is what came last, in the order it came: the worker and the  *)
(* bound of the queue take events from its head only, so an event is       *)
(* published before all later ones or not at all.                          *)
(***************************************************************************)
QueueIsTail == IsTailOf(queue, order)

(***************************************************************************)
(* An event whose publishing comes to its end has been offered to each of  *)
(* its targets, however they are cut into batches and whatever the scanner *)
(* finds meanwhile.                                                        *)
(***************************************************************************)
EveryTargetOffered ==
  missed = {} /\ (job # Idle => job.todo # {} /\ job.todo = job.targets \ job.offered)

(***************************************************************************)
(* get_target_relays: an event goes to all live relays, or only to live    *)
(* ones that an agent it mentions has preferred since the cache was        *)
(* cleared, though the cache may be behind the tables.                     *)
(***************************************************************************)
RoutedByPreferences ==
  job.smart => job.targets \subseteq UNION {held[a] : a \in Mentions[job.event]}

(***************************************************************************)
(* The worker never stops taking events, whoever answers or not: an event  *)
(* leaves the queue in the end.                                            *)
(***************************************************************************)
InQueue(e) == \E i \in 1 .. Len(queue) : queue[i] = e
QueueDrains == \A e \in Events : InQueue(e) ~> ~InQueue(e)

(***************************************************************************)
(* The pool follows the relays: one that stays up is published to from     *)
(* some time on and one that stays down is not, whether the set in memory  *)
(* or the table is used, and though rows were not saved for a while.       *)
(***************************************************************************)
PoolFollowsRelays ==
  \A r \in Relays :
    /\ <>[](r \in up)    => <>[](r \in GetAlive)
    /\ <>[](r \notin up) => <>[](r \notin GetAlive)
=============================================================================
