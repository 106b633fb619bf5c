# SNIN Relay V2: specifications, model checking and proofs

This directory specifies the relay in TLA+, checks small instances of the
specifications with TLC and proves theorems about them with TLAPS. Every
definition is translated from the source; `PROJECT.json` names the lines each
one stands for. Paths below are relative to `src/`.

## 1. The system

One asyncio process (`relay/relay_server_v2.py`) serves Nostr clients over
WebSocket and HTTP, keeps everything in one SQLite database, and drives
several in-process services. Satellite programs run beside it.

| Component | State | Operations | Meets |
|---|---|---|---|
| Event handler and tables (`relay_server_v2.py`: `RelayDB`, `NostrWSHandler._handle_event`, `admin_nip86`) | tables events, tags, events_fts, agents, banned_pubkeys, reports, lists, delegations, payments on **one** shared connection with one open transaction | EVENT by kind: store, delete (5), report (1984), lists (10000/10001), relay list (10002), delegation (22222), groups (39000-39003), replaceable (30000-39999), payment (30000), balance (30001); ban, unban; start-up backfill | mesh fetcher and SSE write the same tables; DAO voting is called after the store; payments are verified by an awaited call |
| Connections and live delivery (`NostrWSHandler.handle`, `_handle_req`) | `_subscriptions`, `_sessions`, connections per address | connect, REQ, CLOSE, EVENT, AUTH, idle close, session sweep | every send is an await: coroutines interleave there |
| DAO voting (`dao_voting.py`) | dao_proposals, dao_votes, by short connections of its own | proposal, vote, quorum check | called with each stored (or repeated) event |
| Rates (`RateLimiter`) | time stamps per address, authenticated connections | message, event | the receive loop |
| Payments (`snin_payments.py`, `solana_rpc.py`) | set of seen transactions, cache of answers, endpoint | verify, account, balance | event handler; a Solana endpoint |
| Mesh fetcher and pulse (`mesh_fetch.py`, `pulse_sync.py`) | cursor per relay; table of ping results | fetch cycle, store; ping | external relays; a blacklist file; the tables |
| SSE endpoint (`sse_handler.py`) | queues of the streams, authentication sessions | post, stream, authenticate | the tables, fanout |
| SSE client (`nostr_sse_client.py`) | subscriptions with their threads, key, token | subscribe, close, authenticate | the SSE endpoint |
| Fanout (`fanout.py`) and mass pulse (`mass_pulse.py`) | bounded queue, cache of preferences; set of live relays and its table | enqueue, route, publish; scan | each other, the event handler, external relays |
| Mass fanout script | none | publish once | external relays |
| Bridge (`bridge.py`) | cursor in a file | query, forward | the database of another relay |
| Content router (`content_router.py`) | window of seen ids, Bloom filter, writer to the engine | deduplicate, write, reconnect | gossip shards, Redis, the route engine |
| Route engine (`route_engine.py`) | lists by priority, WebSocket | classify, post, flush | the content router, the relay mesh |
| Gossip shard (`gossip_shard.py`) | links to other shards, agents | link, gossip, register, expire | the smart router, other shards, Redis |
| Relay monitor (`relay_monitor.py`) | time of the last alert | check, alert | the relay, Telegram |
| DHT, signature gate, heartbeat, gateway, zap handler, IPFS, dashboards | little or none | | |

What is hard here: handlers that suspend between two effects; several commits
per handler and a crash between them; one connection and one transaction for
everybody, so that anybody's commit makes another's unfinished work durable;
sends that fail while a loop runs over a copy; caches and cursors that are read
before an await and used after it; events that arrive late, twice or in the
wrong order.

What makes each part correct: for the tables, that what was acknowledged is
durable and can be found, that only authors remove events, that indexes and
events agree, that moderation counts agree with bans; for delivery, that nothing
falls between the stored and the live events and nothing is left in the tables
of a connection that ended; for voting, that counters equal votes and decisions
are justified and final; for the bridge and the payments, that nothing is
skipped, sent or paid twice; for the fanout, that the queue keeps its order and
drains, that a job leaves no target out, and that the set of live relays follows
the relays; for router and engine, that an event taken in arrives or meets a
fault they count; for fetcher and SSE client, that a cursor moves only past what
was read; for the shards, that links and the messages that remake them do not
multiply; for sessions, that a token means the key its client signs with; for
the payments, that the endpoint they share comes back after a fallback; for the
monitor, that a lasting failure is reported.

## 2. Modules

| Module | Models | Checked by |
|---|---|---|
| `RelayTables` | the tables and each statement of the handlers as operators on a record of tables | through `EventHandler` |
| `EventHandler` | the handlers, mesh and SSE writers, administration, crashes | `MCEventHandler` |
| `EventStore` | what the relay promises publishers, without tables and handlers | refined by `EventHandler` |
| `EventHandlerProofs` | proofs about the three | TLAPS |
| `RelayHub` | connections, subscriptions, queries, live delivery | `MCRelayHub` |
| `RelayHubProofs` | proofs about it | TLAPS |
| `DaoVoting` | the voting engine as the relay drives it | `MCDaoVoting` |
| `Referendum` | what the engine promises, with no counters | refined by `DaoVoting` |
| `Bridge` | the bridge process, its cursor and state file, and the row numbers it reads | `MCBridge` |
| `BridgeProofs` | proofs about it | TLAPS |
| `Payments` | the payment handler with the verifier it awaits | `MCPayments` |
| `DaoProofs` | proofs about the voting engine and the payments | TLAPS |
| `Fanout` | the fanout queue, its worker and routing, and the scanner it takes live relays from | `MCFanout` |
| `FanoutProofs` | proofs about it | TLAPS |
| `LossyLink` | what the route engine promises: an abstract link that loses or repeats only in outages | refined by `RouteEngine` |
| `RouteEngine`, `ContentRouter` | the two processes | through `Routing` |
| `Routing` | both composed over the TCP connection between them | `MCRouting` |
| `RoutingProofs` | the refinement, for the engine alone and composed; the router's window; that nothing vanishes between the two | TLAPS |
| `MeshFetch` | the pulse and the fetch cycle | `MCMesh` |
| `SseHandler` | streams and queues of the endpoint | through `SseSystem` |
| `SseClient` | subscriptions, against `SseHandler` | through `SseSystem` |
| `SseAuth` | sessions of the endpoint, `authenticate` of the client | through `SseSystem` |
| `RelayMonitor` | checks and alerts | through `SseSystem` |
| `SseSystem` | the four composed: one relay process | `MCSse` |
| `SseProofs` | proofs about them | TLAPS |
| `GossipShard` | shards, links, agents | `MCGossip` |
| `PeerProofs` | proofs about the mesh fetcher and the gossip shards | TLAPS |

Operators marked "altered" in a module are not the code's: each is a plausible
mistake in the operator after it, and replacing that operator by it must break
the property `PROJECT.json` pairs it with.

### EventHandler and RelayTables

`conn` is the database as the shared connection sees it, `disk` what is
committed; `Finish` ends a handler by installing the last of its commits on disk
and what it leaves behind on the connection. An action is a whole handler, since
the loop does not interrupt one: `async with self._write_lock` does not suspend,
because nobody holds the lock across an await. Two handlers do suspend before
they answer: a payment awaits its verification (`PayBegin`, `PayEnd`) and a
banning report awaits its NOTICE (`ReportBegin`, `ReportEnd`); `waiting` holds
their events. `HandlerCommits` lists the states a handler commits, in order, and
`CrashInside` stops the process after any of them; `Restart` applies what `main`
does to the agents table. `Admitted` is the ban and permission check
(`local`, `authed`, `anon` are loopback, authenticated and other connections);
the delegation in force is `Effective`.

An event carries `valid` (its id is the hash of its content) and `bad`: 0, or what
of it makes a handler raise. A positive number is a position: the tag whose value
SQLite cannot bind, or past the last tag when the content is a number; `RowItself`
means that the row of `events` itself cannot be inserted. `PartRow` is what such a
store leaves in the open transaction. A deletion (kind 5) has no `try` at all: an
`e` value that cannot be bound ends the handler at its SELECT (`BreaksOff`, line
1187) after the rows of the tags before it (`ToDelete`) are gone from the
connection, and a row that cannot be inserted ends it at line 1195 after all of
them are. Nobody is answered, `conn` lacks rows that `disk` still has, and the
next commit of anyone takes them from the disk as well. `Fetched` is an event with
the two tags the fetcher appends, and `BareRow` an insertion without index rows.
`TagsLike` is the LIKE pattern of the NIP-33 branch: a quoted `d` and later a
quoted value anywhere in the list, never equal to a value json.dumps escapes.

Left out: signatures; wording; time (received_at, expiry of delegations and
events); agents' counters; wildcards in LIKE patterns and letter case; blank
contents (which have no full-text row); tags of less than two elements;
two handlers of the same event suspended at once (bound: `e \notin waiting`).

An id identifies an event here (`EventsAssumption`). The code does not always
enforce it: the check of the id comes after the deletions and the side effects and
not at all for kind 5, and the SSE endpoint has none while `SNIN_RELAY_DEV_MODE`
is 1, to which `main` sets it (line 2077). What the properties say about ids they
say of clients who do not reuse one.

`EventStore` is the promise the tables make, without them: a set of events kept,
those of them whose deletion was begun and not committed (`pending`), and a set of
events promised. `Serve(a)` is the handling of an event of `a`, cut off by a crash
or not, and takes only events of `a`, or pending ones, away; `Gain` is everybody
else, who adds, and makes pending deletions final. Nothing pending is promised.
`PromiseKept` maps the committed rows to the first set, those of them the
connection no longer sees to the second, and the acknowledged events to the third.
`RemovedByAuthor` says accordingly that an event stops standing (committed, and
deleted by no open transaction) only in a step of its author; the disk may follow
later, in anybody's.

Three properties name what the other writers do not promise. The fetcher inserts
without index rows, and a duplicate is not stored again, so `AckedIsIndexed`
speaks of events no external relay holds. The SSE endpoint neither deletes the
predecessors of a replaceable event nor logs a payment, so `OneVersion` and
`AckedPaymentIsLogged` speak of events that are not posted there.

### RelayHub

`at` says where the coroutine of each connection stands. Each send is an action; a
send to a peer that has gone raises, which ends the connection in `End` (the
finally block) or removes the subscription in the notification loop; a send to a
peer that does not read (`peer` is "stalled") waits, for no send has a timeout and
no connection a heartbeat. The loop works on `Snapshot`, taken after the
acknowledgement. `Hangup` and `Leave` are the ends of the receive loop: a closed
peer, the KeyError of a session that `Sweep` removed, the idle timeout, or a
message whose handling raises (a REQ after its entry was made).

`Connect` takes the slot of the address before the AUTH challenge is sent, and
`Greet` sends it, outside the `try` whose finally returns the slot: a peer that is
gone by then leaves slot and session behind ("broken"), which
`SlotsMatchConnections` says. A filter is a name: `Finds` is what its SQL finds,
`Suits` what `_match_filter` says of an announced event, and for the pairs in
`Clashes` that comparison raises (a `created_at` that is a string against a
number). The bare `except` of the loop covers it too and pops the subscription of
a client that is there, which `SubscriptionKept` has as its exception. `Answers`
is what `query_events` may return, at most `QueryLimit` events (500; the filter's
own "limit" is not read), and stored events are skipped when they have expired or
their author is muted; `NoGap` has these as its exceptions. `got`, `asked`,
`opened`, `tried`, `missed` are histories. Left out: several filters per
subscription, the order of an answer, NIP-42, the rates, more than one connection
number per client.

### DaoVoting

`rows` is dao_proposals, `votes` dao_votes. The engine commits the vote with its
counter, then the decision; `CrashBeforeQuorum` stops the process between the two.
The relay hands every stored or repeated event of kinds 1111 and 1112 to the
engine (`store_event_async` answers True for a duplicate), so each action can
happen again, in any order. A stop before the engine is called and a kind-5 event
change nothing the engine keeps and are therefore no actions. `Referendum` has the
set of ballots counted in place of rows and counters, and decides by counting that
set (`CountsAsReferendum`); a crash between vote and decision is its `Interrupt`.
Left out: the lock a failed store can hold against the engine's own connection
(the vote then stays uncounted until it is sent again), titles and times.

### Bridge

`row` gives each event its row number in the relay's table. SQLite numbers a new
row one above the highest, so a number comes back when the highest row goes;
`NextNumber` says so and is external to the repository. `StoreRow` and
`RemoveRow` are the relay, which may act between any two steps of the bridge.
`Poll` is `query_new_events`; each pass of the for loop is `Posted` or
`Refused`, where a refusal includes a lost answer to an event the mesh has
taken, and an answer whose reading raises, which skips the save. `Save` and
`SaveFails` are the two outcomes of `save_state`, which truncates the file
before it writes; `Crash` is a kill at any point, inside the save too; `Restart`
is `load_state`. `passed` and `settled` record which acknowledgements the
cursors in memory and in the file cover, `ingested` what the mesh has. Left out:
the bodies, the interval, the absence of the database.

### Payments

Every kind-30000 event has a coroutine: `at` says whether it awaits the first or
the second endpoint. `seen`, `cache` and `url` are the module-level variables they
share; `original` is the local of each. `Seen`, `Cached` and `Ask` are the three
ways a payment starts; the answers `FirstValid`, `FirstInvalid`, `SecondValid`,
`SecondInvalid` end with everything up to the next await, the seen set with its
bound (`Accept`) included. `Raises` is an answer whose reading raises, the first
or the second: the coroutine ends, nothing is cached, and an endpoint that was
exchanged stays so. `EndpointRestored` says what is true of the exchange: the main
endpoint is back when nobody asks the fallback, unless two asked it at once or one
that asked it raised since the start (`strayed`). `set.pop` takes any element. An
answer is valid only for a confirmed transaction (`Confirm`, external). Left out:
fields that are missing, amounts and receivers (the verifier is given neither),
and the call of the accounting service, which always raises because `asyncio.run`
is called inside a running loop, and is caught. `EventHandler` takes the verdict
as a choice and has the rest of the handler.

### Fanout

The worker and the scanner are two tasks that suspend between batches. `Take` is
the worker from `popleft` to the first await of `_publish`: it decides the
targets by `get_target_relays`, whose cache of preferences is cleared when it is
older than a minute (`old`, looked at only for events that mention an agent) and
whose look-ups may raise (`failing`). `Offer` is one batch; the job ends with the
last. `Lose` is an empty list of relays or anything raised before the first
await. `BeginScan`, `CheckBatch`, `EndScan` are `scan_once`: the status of each
relay is saved as it is checked, unless saving raises, and the set in memory is
replaced at the end. `GetAlive` takes the set if it is not empty, else the table.
`order`, `missed` and `held` are histories: the calls of `enqueue`, what a job
left out, and what each agent preferred since the cache was cleared. Left out:
what relays answer to an offer, which changes only counters; the order within
the lists; how a preference is read from tags; rows of relays that are no longer
in the list.

### LossyLink, RouteEngine, ContentRouter, Routing

`LossyLink` has the events in hand, arrived and missing and whether there is an
outage; it hands over, and loses or sends twice only in one. `RouteEngine`
implements it (`LosesOnlyInOutages`, with `InHand` for the lists, the message
being sent and the DAO event being posted). Its actions are `Add` by class,
`Posted` and `PostFails` for the DAO event, `Flush`, `FlushNowhere`, `Sent`,
`SendFails`, `PingFails` for a tick, `Connected` for `_ws_connect`, `Crash`. The
lists are emptied before the tick looks whether there is a WebSocket
(`FlushNowhere`), and a failed send puts the message back. In `ContentRouter`
`at` says where the coroutine of each client stands; `queue` and `seen` are
FastDedup, `bloom` what the Bloom filter holds (which may also err), `wire` the
lines written and not read. One coroutine may reconnect at once, the rest give
up their event (`lost`); `_reconnect_delayed` tries again. An event is its id: two
events without one that hash to the same sender and number are one event here. The
engine has one reader (`posting`); that the reader of a connection given up may
still be posting beside the next one is left out. `Routing` joins the
two: the engine reads a line at a time and stops with all that it holds.
`NothingVanishes` says where each event is, `TakenArrives` that it gets on. Left
out: statistics, Redis behind its breaker (an oracle of the verdict), the order
of priorities within one tick, events that are no object.

### MeshFetch

`BeginPulse`, `Ping`, `Dial`, `EndPulse` are one pulse: a ping looks at the
blacklist and then dials, and the table of results is replaced at the end.
`BeginCycle` takes the relays alive by the last table and their cursors,
`AnswerFull` or `AnswerCut` is what each sends (the newest, up to a limit),
`EndCycle` inserts, or fails to, and moves the cursors to the time it ends. An
EVENT that is no object (`odd`) raises in `store_event`, outside the `try` of the
insert: `BreakCycle` is a cycle that ends there, the cursors of the relays up to
and with that one moved, the rest of its events and the relays after it dropped. A
relay in `talking` goes on sending without an EOSE; only the wait for each message
has a timeout, so its answer does not end, and with it neither do the gather and
the cycle (`Held`). `MovesOnlyPastSeen` speaks of what the relay held when it
answered: what comes between that answer and the end of the cycle is passed over,
which is the code's behaviour and named in the property. Left out: what is not a
note, the time outs of single reads (a cut answer), the added tags (in
`RelayTables`).

### SseHandler, SseClient, SseAuth, RelayMonitor, SseSystem

A stream is a coroutine at the relay (`stream`), frames in transit (`line`) and a
thread at the client (`at`). The relay answers once from the table, sends EOSE and
then waits on a queue nobody fills: the calls of `broadcast` are commented out. A
follower goes on by asking again when a proxy or a restart cuts the stream: from
the second of EOSE on, or from the beginning if there was none. `asked`, `read`,
`shrunk` are histories. `SseAuth` has `authenticate` with its two requests, either
of which may be lost with or without its answer; the relay keeps no challenge, so
a signed event is right whichever challenge it carries. `authenticate` takes the
new key before it asks, and an nsec that holds no key raises only after that
(`Misread`), so a client may sign with one key and present the token of another
until an authentication succeeds. `TokenNamesItsKey` compares the session of the
token with that key, and has the keys taken since the last success (`attempted`)
as its exception. `CallFails` is a request that is refused, times out or is not
answered with 200, whether the relay runs or not. `IdsDiffer` exempts
subscriptions made in a second in which one had ended or was closed, and those
without a callback: there ids do collide, and nothing in the code prevents it.
`RelayMonitor` has one cycle in three steps; age and cooldown count cycles.
`SseSystem` composes them: a stop of the relay ends the streams, empties the
sessions and makes the first two checks fail; the check of the endpoint is a
subscription called "test" that is dropped as soon as it was accepted (`Follow`,
`Release`) and leaves its coroutine waiting at the relay. Left out: callbacks that
raise where an error is reported to them, connections that die without a reset
(there is no read timeout), publishing, messages.

### GossipShard

A shard first connects to those that listen already, then listens (`Start`,
`Reach`, `Refused`), so that links go one way. `json.dumps` is orjson's and
gives bytes, and `.encode()` of bytes raises: no message is ever passed on.
What a message does is break all links of the shard that gets it and make a task
for each that connects again (`Gossip`, `Reconnect`, `GiveUp`); the greeting it
sends is a message at the other end. `Open`, `Misroute`, `Message`, `Close` are
`handle_agent`, whose finally clause removes the name of the last message, and
`Expire` the sweep. Left out: batchers, which stay empty, the Redis table, the
writer to the content router, broken by the first message in the same way.

## 3. Runs

All of them pass:

| Run | Question | Instance |
|---|---|---|
| `EventHandlerStore` | Is what was acknowledged durable, are the indexes sound, is there one version per address, and do the handlers implement `EventStore`? | 10 events of 2 keys: note, versions, one of which cannot be stored whole, deletions by two authors, two that raise; mesh; 1 crash |
| `EventHandlerKinds` | Do bans agree with reports; are acknowledged payments logged and acknowledged events indexed? | 8 events of 7 kinds over WebSocket, a delegation and a relay list that cannot be stored whole among them, a report over SSE too, ban and unban, 1 crash |
| `RelayHubDelivery` | Does a subscription stay until its client ends it, and miss nothing? | 2 connections, 2 filters, 2 events, answers of 1, a match that raises, an expiration that is no number, an import, a muted author |
| `RelayHubTables` | Do the tables match the live connections, and does every handler return? | 3 connections, limit 2, one of them challenged and able to stall, fair |
| `DaoVotingVotes` | Do counters equal votes; does the engine implement `Referendum`? | 4 proposals (quorum 2, quorum 3, unlisted group, no group), 14 ballots |
| `BridgeForward` | Is anything skipped, sent twice, or left behind? | 4 events, batches of 2, 2 removable, 1 kill, fair |
| `PaymentsVerified` | Who is paid twice, does the endpoint come back, and is a confirmed transaction accepted in the end? | 3 payments, 2 transactions, seen set of 1, 1 restart, fair |
| `FanoutPool` | Does the queue drain, is every target offered, and does the pool follow the relays? | 2 events, queue of 1, 2 relays, batches of 1, 1 unsaved row, 1 restart, fair |
| `Routing` | Is anything lost silently between router and engine; does what was taken arrive; does the engine implement the lossy link? | 2 clients, 2 batched events, a DAO event, a heartbeat, an odd one; 2 taken; window of 2; 1 fault, fair |
| `MeshSync` | Do cursors pass anything unseen, and do the relays asked follow the relays? | 2 relays, one of which comes and goes and sends odd events, the other may talk on, 2 notes, limit 1, 2 seconds, 1 failed insert, 1 restart, fair |
| `SseStreams` | What do followers miss, what is left at the relay, does every subscription end; whom does a token name; is a failure reported? | 2 events, 2 connections, 3 threads in four plans, 2 users and 2 keys with 3 authentications, cooldown of 2 cycles, 2 seconds, fair |
| `GossipLinks` | Do links or reconnections multiply, do greetings end, are agents forgotten? | 3 shards in every order of start, 1 crash, 2 messages, fair |

The bounds. A conflict in the tables takes two events of one address or an event
and its deletion, and a third that goes between; the keys needed are an author,
another and one that only reports; the threshold of the automatic ban is 2 in the
runs instead of 3, which leaves "one short of it" and "at it". One crash reaches
every point between two commits; a second starts from a state the first one also
reaches. The deletions that raise need a row removed before they do, and somebody
else to commit: `UnsayBad` meets the first in its first tag, `UnsayRow` in its
only one. A second payment in `EventHandlerKinds` would meet the first only in the
shared transaction and would cost more than a run may take; overlapping payments
are the subject of `PaymentsVerified`. For delivery, publishers and subscribers
that may be the same or swap roles suffice, since coroutines meet only in the
subscription table; two events separate "received" from "about to be sent", and
are one more than an answer holds; the limit of connections is below their number.
In voting the two group sizes are the ones whose quorum is rounded (4) and exact
(5), with ballots to go over either. The bridge has more new rows than a batch
holds, one of them of a kind it does not forward, and `MaxRow` equal to the number
of events, so that every event can be stored at once. Two payments share a
transaction, the third evicts it from a seen set of one. The fanout's queue of one
is full with the first of its two events, which the second pushes out unless the
worker was faster; an event is offered to one relay at a time while a scan checks
both at once, so that a job and a scan can each begin and end within the other. In
`Routing` a window of two overflows with the third id, and one fault meets every
point of a send, a post or a reconnect; a second one finds a state a first one
also reaches. `MeshSync` has a relay with more notes than one answer holds, and a
second, which is asked and has none, that delays the end of the cycle or holds it
by talking on. In `SseStreams` a plan says which threads run and how often they
are answered: two answers are needed for a filter to move and be used, and a
second thread to take an id. Users and the monitor have plans of their own,
because the endpoint treats requests with and without a token alike; all share
stops and starts of the relay. A session lasts to the end of its second there, so
that it can expire between two requests; a cooldown of two cycles has a cycle
inside and one outside it. Three shards are the fewest that could form a ring.
`Crashes`, `Restarts`, `Failures`, `Deleted`, `MaxRow`, `Managed`, `MaxWire`,
`MaxFaults`, `MaxTaken`, `MaxTime`, `MaxMessages`, `MaxCrashes`, `Plans`, `Tries`
and the sets of events are the bounds; nothing else is cut off.

`CHECK_DEADLOCK FALSE` stands in the RelayHub runs, where each connection is
made once and nothing is left to happen when all have ended, in the Bridge
run, where a table that no longer changes leaves the bridge nothing to read, and in
`MeshSync`, `Routing`, `SseStreams` and `GossipLinks`, where inputs are used up.

Fairness.
- `RelayHub!Fairness`: strong fairness of the steps a coroutine takes without its
  client, counted only while no stalled peer holds it (`Held`): the event loop
  runs every ready coroutine, and a send completes once its peer reads, even if
  the peer stops again. Nothing makes a peer read and no send has a timeout, so
  `HandlerReturns` has "held for ever" as the other way to end. No fairness of
  clients.
- `Bridge!Fairness`: weak fairness of the loop, which sleeps and goes on
  whatever is raised and whose posts have a timeout of five seconds, and of the
  supervisor's restart; strong fairness of an accepted post, which is an
  assumption about the mesh: an event offered again and again is taken.
- `Fanout!FairSpec`: weak fairness of the worker and of the scanner, two tasks of
  one event loop whose every connection has a timeout. None of the relays, the
  agents or the callers of `enqueue`.
- `Payments!FairPaymentSpec`: weak fairness of answers (the client has a timeout
  of 15 seconds; an answer that raises is one) and of the expiry of cached
  answers; that a payment is sent again and that endpoints do not err for ever is
  assumed of the environment. The property says that the caches do not prevent
  acceptance under those assumptions.

- `Routing!RoutingFairness`: weak fairness of each coroutine of the two event
  loops, whose posts and sends have timeouts, and of whoever starts the engine
  and the mesh again. None of clients.
- `MeshFetch!FairSpec`: weak fairness of the pulse, whose pings have a timeout, and
  strong fairness of the cycle, counted only while no relay holds it: both loops
  catch what is raised and sleep, but an answer as a whole has no timeout. None of
  the relays; `MeshFollowsRelays` has "held for ever" as the other way to end.
- `SseClient!Fairness`: weak fairness of threads and coroutines, and of noticing
  a connection that is dead. Nobody has to start the relay again.
- `GossipShard!FairShardSpec`: weak fairness of a running shard and of the expiry of
  a name without a connection. None of the router.

### Where code and documents disagree

The properties say what holds; these statements of the repository do not.
- "duplicate" (comment at `relay/relay_server_v2.py:1444`): OK true without
  storing also means that storing raised, since `store_event_async` turns the
  exception into False. The half-written row becomes durable with the next
  commit of anyone, without its indexes.
- The bridge forwards new events (`relay/bridge.py:5`): not after the event under
  its cursor is deleted or replaced. The subquery for its row is NULL then, no row
  is new, and the file keeps that cursor over restarts
  (`ForwardedWhileCursorStays` has this as its exception).
- "Double-spend prevention with in-memory seen set" (`README.md:26`): two
  verifications that overlap both pay, for the set is read before the await and
  not again (the exception of `SpentTwiceOnlyInARace`).
- The endpoint is changed temporarily (`relay/solana_rpc.py:53`): of two
  overlapping fallbacks the second saves the first one's endpoint and puts that
  back, and an answer that raises on the fallback puts nothing back
  (the exception of `EndpointRestored`).
- "recovery alert when resolved" (`relay_monitor.py:5`): never sent. The results
  of the cycle are written to `last_errors` before it is looked at for errors
  that are over. The memory check measures the monitor, not the relay.
- The HTTP fallback of the route engine (`relay/route_engine.py:212`) has nothing
  to send: the lists were emptied before. The heartbeat is never logged (bytes
  plus a string); answers other than 200 count as arrived.
- The Bloom filter is said to be reset (`relay/content_router.py:13`); nothing
  resets it.

Also noticed while modelling, and not given a run:
- a deletion that raises after its first rows (`relay/relay_server_v2.py:1187`,
  `:1195`) leaves them deleted in the shared transaction: its author gets no answer,
  and whoever commits next makes the deletion final;
- a failed AUTH challenge (`relay/relay_server_v2.py:1022`) leaks a slot of the
  address and a session; only a restart returns them;
- an event whose match raises takes away the subscription of every client whose
  filter bounds its time; a peer that keeps its connection and does not read holds
  each publisher whose event it subscribed to; a relay that talks on holds the mesh
  loop; an EVENT that is no object drops what follows it after the cursor has moved;
- after a failed `authenticate` a client signs with the new key and presents the
  token of the old one;
- the comment above the live loop says "skip muted pubkeys"; only stored events
  are withheld from a user that mutes their author;
- two payments with one d tag that overlap in their await are both kept;
- NIP-33 predecessors are found by a LIKE pattern: events that carry the value in
  another tag go too, d tags outside ASCII are never found, and an older version
  that arrives late removes the newer one;
- a deleted event can be stored again; what the mesh stored first is never
  indexed; reports, lists and relay lists are written before the id is checked;
- subscription ids are global, so two clients with one id displace each other;
  an event whose publisher is gone at its OK is announced to nobody;
- the quorum of 60 % rounds down (2 of 4), abstentions do not count against a
  majority, votes of keys outside the group count, a withdrawn proposal can still
  pass; DAO_PROTOCOL.md describes kinds 39002 and 39003 where the engine handles
  1111 and 1112;
- the trim of the seen set says "the oldest" and takes any; accounting is never
  reached;
- a permanent failure is to "mark dead" a relay, and `Fanout._mark_dead` only
  counts it, in a column the live list does not read;
- the router marks an event as seen before its fate is known, and a kind-39000
  event whose content is no object makes the engine close the router's
  connection;
- the fetcher's cursor moves past what a relay got between its answer and the end
  of the cycle, also after a cut answer or a failed insert; the tags it adds
  change the id; a blacklist entry that is no object makes its ping raise;
- a follower loses what was stored in the second of EOSE and before, after its
  query; CLOSE is refused by the endpoint, and a closed follower goes on; the `#p`
  filter is ignored, so `fetch_inbox` returns other people's messages; ids of
  subscriptions can collide after one is closed;
- each check of the endpoint by the monitor leaves a coroutine that waits for
  ever at the relay; no request asks for a session, challenges are not
  remembered, and `is_authenticated` stays true after the session is gone;
- gossip shards pass nothing on; shards that start at the same time stay without
  links; one failed reconnection loses a link for good, and a link whose peer
  reset it is never replaced; after one crash and restart the links can form a
  ring, and the greetings then go round for ever (which is why `StormSettles`
  speaks of runs without a crash); agents expire after a minute although they
  are connected;
- the dashboard reads `ipfs_obj`, which is not defined
  (`relay/relay_server_v2.py:1499`).

## 4. Proofs

All theorems hold for every value of the constants under the named assumptions:
`EventsAssumption` (ids identify events; p and delegation tags hold keys),
`KeysAssumption`, `SourcesAssumption`, `HubAssumption`, `VotingAssumption`,
`BridgeAssumption` (finitely many events), `PaymentsAssumption`,
`FanoutAssumption` (finitely many relays), `EngineAssumption`, `RouterAssumption`,
`MeshAssumption`, `HandlerAssumption` (connections are numbered, the marks on a
line are no events), `ClientAssumption`, `SystemAssumption` and `GossipAssumption`
(shards are finitely many port numbers). Each inductive invariant was checked by
TLC on the instances of section 3 before it was proved.

`EventHandlerProofs` proves all properties of the two event handler runs, and the
types, from one inductive invariant, `IInv`:

- the types, and both views of the database in `Good`: index rows only of events
  that are there (`Sound`); one row per id (`OneRow`); rows that were stored with
  their index rows still have them (`Findable`); no two versions of an address
  (`Distinguished`); automatic bans only on enough reports (`Earned`);
- `Matches(disk, conn)`: both have the same reports, bans and payments, and what
  the connection sees is on disk, but for rows whose storing raised; the disk may
  have more, the rows a deletion that raised took from the connection.
  `AckedIsDurable` alone is not inductive: a duplicate is acknowledged because the
  connection has it, so one must know that it is also on disk; and what is
  acknowledged must be in the connection's view too (`Vouched`), because the next
  commit takes from the disk whatever is not. Nor is `OneVersion`: anybody's
  commit makes durable what the connection sees, so it must have one version too;
- `Moderated`, the second half of `AutoBanMatchesReports`.

`Findable` is about the rows and not about what was acknowledged, since an
acknowledged duplicate is found by the rows of whoever stored it first. That the
NIP-33 branch finds every earlier version (`ReplacedFits`) rests on `FirstFound`:
in a row whose first d tag reads v there is a quoted d before a quoted v, so the
LIKE pattern matches it wherever its other tags stand.

One lemma per operator on the tables says what it keeps: of the rows (`DropGood`,
`StoreRowGood`, `PartRowGood`, `BareRowGood`) or of the side tables (`Aside`).
`Keep(i, R)` is the set of good tables with at least the connection's rows of the
ids `i`, no payment less, and its reports and bans but for the keys `R`. A handler
is a sequence of commits in `Keep(ids of conn minus Removed(e), Reported(e))`,
whence both its end and a crash after any of its commits (`CrashInsideStep`) keep
the invariant by one lemma each (`StepKeeps`, `RestartKeeps`). The same two lemmas
conclude `Authored`, that whatever stops standing, on the disk and in the view,
belonged to the author of the event the step handles, which gives the action
property `OnlyAuthorsRemove`: only ids in `Removed(e)` may go, and `RemovedRows`
says whose rows those are. A deletion that raises is one of these steps.

`KeepsPromise` is the refinement of `EventStore`. A step of a publisher's handler
maps to `Serve` of that publisher, any other to `Gain` or a stutter. The mapping
needs three facts: that what is promised is kept and not pending (`Vouched`); that
only events of the author, or pending ones, go (`Authored`); and, by one look at
each handler (`StepAnswers`, `AnsweredServes`), that it promises or withdraws
nothing but events of the one it serves. `OthersGain` says that mesh, SSE endpoint,
administration and restart take no committed event away that was not pending.

`RelayHubProofs` proves the types and the four invariants of the hub. What makes
them inductive: a coroutine's job fits the point it stands at (`JobsFit`); only
challenged connections are greeted, and they have no subscription by then
(`Greeted`), so that slot and session are all that a failed challenge loses; an
entry, and every entry copied into a snapshot, is under an id its client uses and
with a filter it used (`Owners`, `Copies`), so that a notification loop that finds
a dead peer or a match that raises, and pops by the id alone, pops nothing of a
client that is there with filters that do not clash; and, for `NoGap`, `Complete`.
`NoGap` is silent about a subscription whose stored events are still being sent;
the invariant says that each event due is received, in what is left to send, or
announced by a coroutine that acknowledges it or still has the entry in its
snapshot (`Answered`, `Announced`).

`DaoProofs` proves of the voting engine `TypeCorrect`, `TallyCorrect`,
`DecisionCorrect` and `Finality` (an action property) from types, finiteness of
the set of votes, "votes only on proposals with a row" and the two invariants
themselves. `DecisionMatchesVotes` and `Final` are proved and not run any more:
the run checks `CountsAsReferendum` in their place, which is proved as
`ImplementsReferendum`. `Propose` maps to `Put`, `Vote` to `Count`,
`CrashBeforeQuorum` to `Interrupt`, whatever is ignored to a stutter. That the
engine's three counters give the verdict of the set takes two lemmas:
`TurnoutIsTotal`, the ballots on a proposal are the disjoint union of those for
each choice, and `QuorumIsEnough`, a row whose counters are those numbers reaches
its quorum exactly when the ballots are enough; `TallyCorrect` says that its
counters are.

`BridgeProofs` proves `TypeCorrect`, `SkipsNothing` and `SendsNothingTwice`.
That the cursor skips nothing is not inductive by itself: the batch was read
before the table changed. The invariant therefore says what the table may have
done to it since: numbers of stored rows differ (`Numbered`), a row in the batch
was that event's (`BatchRead`), rows of the batch lie above the cursor's and in
order (`BatchAhead`, `BatchSorted`), and an event below a row of the batch is in
the batch or taken (`BatchComplete`); and of each cursor that everything it
acknowledged lies at or below it (`Behind`), which the file inherits from the
memory at a save and returns at a restart. The finiteness of the events is what
makes a poll start from the lowest rows.

Of the payments it proves `PaymentTypesCorrect` (with the bound of the seen set),
`OnlyConfirmed`, `SpentOnceOutsideRaces` and `EndpointComesBack`. `OnlyConfirmed`
(proved, and not run) needs that a valid answer in the cache is of a confirmed
transaction; `SpentOnceOutsideRaces` that an accepted transaction is in the seen
set or forgotten, and that a coroutine which was started before another payment of
its transaction was accepted is recorded as having raced it. For `EndpointComesBack`
the invariant is `Exchanged`: as long as nothing strayed, at most one coroutine asks
the fallback, and the address it has put away is the main one.

`FanoutProofs` proves `TypeCorrect`, `KeepsOrder`, `OffersEveryTarget` and
`Routes` from one invariant. The first three parts are inductive with the types;
routing needs besides that what an agent prefers and what the cache says of it
both lie in what it preferred since the cache was cleared (`HeldCovers`), because
a job may be routed by either. `PopIsTail` and `PushIsTail` are about sequences
alone: a queue that ends a list still does when its head goes or both grow.

`RoutingProofs` proves `TypeCorrect` and `ImplementsLink`: the route engine
implements `LossyLink` under the mapping of `InHand`. Initial states map to
initial states; each action maps to a step of the link or leaves its variables
alone, with one step of the proof per action. The types are the
invariant it needs, because they say what each place may hold: no DAO event or
heartbeat is ever collected, hence what is being posted is neither in a list nor
in the message, and an event leaves the engine's hands with its last place.
`RoutingImplementsLink` says the same of the engine inside `Routing`, where it is
fed by the router over the wire and stopped with what it has not read.

Of the router it proves `WindowIsSound` and `ReconnectsOnce`. That a refused event
was let through, lost, or is being decided on needs that what a coroutine carries
to the writer was let through (`Passed`); the window's queue and set agree because the
queue has no element twice, whatever is taken from its front. `EventsDoNotVanish`
is proved by splitting the place of an event in two: what the router carries it
keeps, hands over or counts as lost, and what the engine was handed it keeps,
delivers or counts as missing (`Accounted`). One lemma per side then says what a
step moves, and the actions of one side leave the other's part alone.

`PeerProofs` proves of the fetcher `TypeCorrect` and `MovesPastSeen`. The action
property needs, of each relay the current cycle asked, that it was asked from its
cursor or earlier (`AsksFarEnough`), and of each complete answer that it has all
that was held and asked for and nothing that would break the cycle off in the
middle of it (`WholeIsAll`); answers come only from relays the cycle asked.

Of the shards it proves `ShardTypesCorrect` and `LinksAreSingle`, the invariant
`OneLinkPerPeer` for any number of shards, crashes and messages. It is not
inductive alone, because both the loop that connects to the listening shards and
the reconnection tasks make links. `ShardInv` says of each pair that it is
`Tidy`: it has a link or a task but not both, and not two tasks, and neither
while the first shard is down or has the second still to try.

`SseProofs` proves the safety properties of `SseSystem` from `SystemInv`, whose
parts are:

- `ServerInv` for `NoQueueLeft`: the types of the endpoint and the property, which
  is inductive with them, since a stream that ends takes out a queue only if it
  is under its id, and an accepted one replaces the queue it finds there;
- `IdsInv` for `IdsDiffer`: an id is a second and the size of the table, so ids
  differ as long as nothing has left the table in this second (after that they may
  not, and the property says nothing). `Sealed` says this of the second in
  progress: all subscriptions made in it are in the table, and their numbers are
  below its size. Closed seconds need only that the clock goes forward;
- `AuthInv` for `TokenNamesItsKey`: a token a client holds has been drawn, and each
  session begins under a number of its own; a client with a request under way has
  a key (`KeyAtHand`), the one that signs it;
- `MonitorInv` for `FailureNamed`: a failure nobody has been told of is younger than
  the last alert (`NamedInTime`), unless the cooldown is over, when the cycle
  that finds it names it;
- `ClientTypes` and `TransferInv` for the action property `LeavesNothingBehind`,
  proved as `FollowersKeepUp`: of what an answer owes its filter (`Owed`: the rows
  no limit crowds out), each row has been read or comes before the EOSE on the
  line (`Faithful`). This takes `Own`, that no two threads share a connection,
  nor a thread and the monitor's check, and `Quiet`, no EOSE before the answer.
  `AnswerIsNewest` is the lemma on the query: a row that `ORDER BY ... LIMIT`
  drops was crowded out by as many others, none of them older.

Type correctness is proved for all components and not repeated in the runs. All
invariants and action properties that the runs check are proved, and so are the
three refinements.

Only model-checked are the liveness properties: `HandlerReturns`, `QueueDrains`,
`PoolFollowsRelays`, `StormSettles`, `GoneAreForgotten`, `MeshFollowsRelays`,
`ForwardedWhileCursorStays`, `ConfirmedIsAccepted`, `TakenArrives` and `GivesUp`.
They are out of the prover's reach: fairness, and with it ENABLED, has no backend
there.

## 5. Plan

1. (done) tables, event handler, delivery, voting, bridge, payments, fanout with
the scanner; router and engine; the mesh fetcher; the SSE endpoint, its client and
the monitor; gossip shards; the abstract link, referendum and store of events; the
proofs above. 2. More models: the rates of messages and events, the Blossom upload
and delete, the DHT client and the window of the signature gate; gossip shards
feeding the content router. 3. Proofs: nothing that TLC checks and the prover can
reach is left. Abstract specifications for live delivery (each subscriber a set of
events received) and for the bridge (a prefix of the table forwarded) would state
in one formula what their invariants now say in parts.

## 6. Not modelled

Rendering, read-only queries and statistics; cryptography (a verdict is a
choice); Redis, IPFS, Telegram and Solana (the environment); programs without
state of their own: the heartbeat daemon, the DAO group poster, the zap handler,
the gateway, the logger, the feeder, the mass fanout script; and the command line.
