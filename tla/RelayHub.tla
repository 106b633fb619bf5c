------------------------------ MODULE RelayHub ------------------------------
(***************************************************************************)
(* Connections, subscriptions and live delivery: NostrWSHandler.handle,    *)
(* _handle_req and the end of _handle_event.                               *)
(*                                                                         *)
(* One coroutine serves each connection.  It runs undisturbed between two  *)
(* awaits; every send to a WebSocket is an await, so every send is an      *)
(* action of its own and the other coroutines interleave with it.  A send  *)
(* to a connection whose peer has gone raises; one to a peer that does not *)
(* read, once the buffers are full, waits.                                 *)
(*                                                                         *)
(* A filter is a name: "Finds" says what the SQL of query_events finds for *)
(* it, "Suits" what _match_filter finds when an event is announced, and    *)
(* the two differ (several values of one tag are all wanted by the one,    *)
(* any by the other).  What the event handler does to the tables is the    *)
(* subject of EventHandler: here "stored" is the set of events a query can *)
(* find, deletions and what decides the order of an answer are left out.   *)
(* So are the short answers of the reading loop itself (NOTICE, refusals). *)
(* An operator marked "altered" is not the code's: it is a plausible       *)
(* mistake in the one after it, which a property must notice when it takes *)
(* its place.                                                              *)
(***************************************************************************)
EXTENDS Integers, FiniteSets

CONSTANTS
  Clients,    \* the connections that may be made, each once
  Challenged, \* those whose request has a Nostr Authorization header
  Slow,       \* those whose peer may stop reading
  SubIds,     \* subscription ids
  Uses,       \* Uses[c]: the ids and filters the client of connection c chooses
  Events,     \* the events that may be published
  Filters,    \* the filters a client may subscribe with
  Finds,      \* Finds[f]: the events the query for f finds
  Suits,      \* Suits[f]: the events that match f when they are announced
  Clashes,    \* the pairs <<f, e>> whose match raises: f bounds created_at by
              \* numbers and e's is a string
  Expiring,   \* the events with an expiration tag: its time may be over
  Spoilt,     \* those whose expiration is no number
  Imports,    \* the events that reach the database without being announced
  Mutes,      \* the pairs <<c, e>>: the user authenticated on c mutes e's author
  QueryLimit, \* events in an answer (500 in the code)
  MaxConn,    \* connections admitted from one address (RATE_MAX_CONN)
  None

ASSUME HubAssumption ==
  /\ Challenged \cup Slow \subseteq Clients
  /\ Uses \in [Clients -> SUBSET (SubIds \X Filters)]
  /\ IsFiniteSet(Events)
  /\ Finds \in [Filters -> SUBSET Events] /\ Suits \in [Filters -> SUBSET Events]
  /\ Clashes \subseteq Filters \X Events
  /\ Expiring \cup Spoilt \cup Imports \subseteq Events
  /\ Mutes \subseteq Clients \X Events
  /\ QueryLimit \in Nat /\ MaxConn \in Nat
  /\ None \notin Clients \cup SubIds \cup Events \cup Filters

VARIABLES
  at,         \* where the coroutine of each connection stands
  peer,       \* whether the other end is there, and reads
  sessions,   \* _sessions
  admitted,   \* the rate limiter's set of connections of the address
  subs,       \* _subscriptions: id -> connection and filter
  stored,     \* events in the database
  job,        \* the request a coroutine works on
  got,        \* history: what each client received on each subscription
  asked,      \* history: what was stored when a subscription was last opened
  opened,     \* history: the filter of each subscription a client has open
  tried,      \* history: every filter a client opened a subscription with
  missed      \* history: events that were stored without being announced

hist == <<got, asked, opened, tried, missed>>
vars == <<at, peer, sessions, admitted, subs, stored, job, hist>>

Points == {"off", "greeting", "reading", "querying", "acking", "notifying", "ended", "broken"}
Peers  == {"there", "stalled", "gone"}
Sub    == [ws : Clients, filter : Filters]
NoSub  == [ws |-> None, filter |-> None]
Targets == [sid : SubIds, ws : Clients, filter : Filters]
NoJob  == [sid |-> None, todo |-> {}, event |-> None, rest |-> {}]
Jobs   == [sid : SubIds \cup {None}, todo : SUBSET Events,
           event : Events \cup {None}, rest : SUBSET Targets]

Working == {"querying", "acking", "notifying"}
Serving == {"greeting", "reading"} \cup Working
Live(c) == at[c] \in Serving

-----------------------------------------------------------------------------
(***************************************************************************)
(* The finally block of handle.                                            *)
(***************************************************************************)
Forgotten(c) ==         \* the client is no longer there: its history ends
  /\ got' = [got EXCEPT ![c] = [s \in SubIds |-> {}]]
  /\ asked' = [asked EXCEPT ![c] = [s \in SubIds |-> {}]]
  /\ opened' = [opened EXCEPT ![c] = [s \in SubIds |-> None]]
  /\ tried' = [tried EXCEPT ![c] = [s \in SubIds |-> {}]]

EndKeeps(c, lost) ==    \* altered: the subscriptions stay
  /\ at' = [at EXCEPT ![c] = "ended"]
  /\ admitted' = admitted \ {c} /\ sessions' = sessions \ {c}
  /\ subs' = subs
  /\ job' = [job EXCEPT ![c] = NoJob]
  /\ Forgotten(c)

EndAll(c, lost) ==      \* altered: the subscriptions of every connection go
  /\ at' = [at EXCEPT ![c] = "ended"]
  /\ admitted' = admitted \ {c} /\ sessions' = sessions \ {c}
  /\ subs' = [s \in SubIds |-> NoSub]
  /\ job' = [job EXCEPT ![c] = NoJob]
  /\ Forgotten(c)

End(c, lost) ==         \* lost: the ids c took over in the same step
  /\ at' = [at EXCEPT ![c] = "ended"]
  /\ admitted' = admitted \ {c}
  /\ sessions' = sessions \ {c}
  /\ subs' = [s \in SubIds |-> IF subs[s].ws = c \/ s \in lost THEN NoSub ELSE subs[s]]
  /\ job' = [job EXCEPT ![c] = NoJob]
  /\ Forgotten(c)

ConnectCounted(c) ==    \* altered: a refused connection is counted
  /\ at[c] = "off"
  /\ sessions' = sessions \cup {c}
  /\ at' = [at EXCEPT ![c] = IF Cardinality(admitted) >= MaxConn THEN "ended" ELSE "reading"]
  /\ admitted' = admitted \cup {c}
  /\ UNCHANGED <<peer, subs, stored, job, hist>>

Connect(c) ==           \* the session is registered before the limit is tested
  /\ at[c] = "off"
  /\ sessions' = sessions \cup {c}
  /\ IF Cardinality(admitted) >= MaxConn
     THEN /\ at' = [at EXCEPT ![c] = "ended"]
          /\ UNCHANGED admitted
     ELSE /\ at' = [at EXCEPT ![c] = IF c \in Challenged THEN "greeting" ELSE "reading"]
          /\ admitted' = admitted \cup {c}
  /\ UNCHANGED <<peer, subs, stored, job, hist>>

Greet(c) ==             \* the challenge is sent outside the try: a failure ends in no finally
  /\ at[c] = "greeting" /\ peer[c] # "stalled"
  /\ at' = [at EXCEPT ![c] = IF peer[c] = "gone" THEN "broken" ELSE "reading"]
  /\ UNCHANGED <<peer, sessions, admitted, subs, stored, job, hist>>

Becomes(c, p) ==
  /\ Live(c) /\ peer' = [peer EXCEPT ![c] = p]
  /\ UNCHANGED <<at, sessions, admitted, subs, stored, job, missed>>

Vanish(c) == peer[c] # "gone" /\ Becomes(c, "gone") /\ Forgotten(c)      \* closed or lost
Stall(c)  == c \in Slow /\ peer[c] = "there" /\ Becomes(c, "stalled") /\ UNCHANGED hist
Resume(c) == peer[c] = "stalled" /\ Becomes(c, "there") /\ UNCHANGED hist

Hangup(c) ==            \* the read fails, or the message finds no session
  /\ at[c] = "reading"
  /\ peer[c] = "gone" \/ c \notin sessions
  /\ End(c, {})
  /\ UNCHANGED <<peer, stored, missed>>

Chosen(c) == {u[1] : u \in Uses[c]}

Reads(c) == at[c] = "reading" /\ peer[c] # "gone" /\ c \in sessions

Leave(c) ==             \* idle for a minute, or a message whose handling raises
  /\ Reads(c)
  /\ \/ End(c, {})
     \/ \E s \in Chosen(c) : End(c, {s})       \* a REQ: its entry was made
  /\ UNCHANGED <<peer, stored, missed>>

Sweep(c) ==             \* _ws_session_cleanup: no text frame for ten minutes
  /\ c \in sessions
  /\ sessions' = sessions \ {c}
  /\ UNCHANGED <<at, peer, admitted, subs, stored, job, hist>>

-----------------------------------------------------------------------------
(***************************************************************************)
(* REQ and CLOSE.                                                          *)
(***************************************************************************)
Found(f) == stored \cap Finds[f]

Answers(f) ==           \* what query_events may return
  {A \in SUBSET Found(f) :
     Cardinality(A) = IF Cardinality(Found(f)) > QueryLimit THEN QueryLimit
                      ELSE Cardinality(Found(f))}

Req(c, s, f) ==         \* registered and queried in one go, then sent piecemeal
  /\ Reads(c) /\ <<s, f>> \in Uses[c]
  /\ subs' = [subs EXCEPT ![s] = [ws |-> c, filter |-> f]]
  /\ at' = [at EXCEPT ![c] = "querying"]
  /\ \E A \in Answers(f) : job' = [job EXCEPT ![c] = [NoJob EXCEPT !.sid = s, !.todo = A]]
  /\ got' = [got EXCEPT ![c][s] = {}]
  /\ asked' = [asked EXCEPT ![c][s] = stored]
  /\ opened' = [opened EXCEPT ![c][s] = f]
  /\ tried' = [tried EXCEPT ![c][s] = @ \cup {f}]
  /\ UNCHANGED <<peer, sessions, admitted, stored, missed>>

Skips(c, e) == e \in Expiring \/ <<c, e>> \in Mutes

SendStored(c) ==
  /\ at[c] = "querying"
  /\ \E e \in job[c].todo :
       /\ job' = [job EXCEPT ![c].todo = @ \ {e}]
       /\ \/ Skips(c, e) /\ got' = got
          \/ /\ e \notin Spoilt /\ <<c, e>> \notin Mutes /\ peer[c] = "there"
             /\ got' = [got EXCEPT ![c][job[c].sid] = @ \cup {e}]
  /\ UNCHANGED <<at, peer, sessions, admitted, subs, stored, asked, opened, tried, missed>>

SendEose(c) ==
  /\ at[c] = "querying" /\ peer[c] = "there" /\ job[c].todo = {}
  /\ at' = [at EXCEPT ![c] = "reading"]
  /\ job' = [job EXCEPT ![c] = NoJob]
  /\ UNCHANGED <<peer, sessions, admitted, subs, stored, hist>>

Close(c, s) ==          \* deletes the entry whoever owns it
  /\ Reads(c) /\ s \in Chosen(c)
  /\ subs[s] # NoSub
  /\ subs' = [subs EXCEPT ![s] = NoSub]
  /\ opened' = [opened EXCEPT ![c][s] = None]
  /\ UNCHANGED <<at, peer, sessions, admitted, stored, job, got, asked, tried, missed>>

-----------------------------------------------------------------------------
(***************************************************************************)
(* EVENT: stored (or already there), acknowledged, then announced to a     *)
(* copy of the subscriptions taken after the acknowledgement.              *)
(***************************************************************************)
Publish(c, e) ==
  /\ Reads(c)
  /\ stored' = stored \cup {e}
  /\ at' = [at EXCEPT ![c] = "acking"]
  /\ job' = [job EXCEPT ![c] = [NoJob EXCEPT !.event = e]]
  /\ UNCHANGED <<peer, sessions, admitted, subs, hist>>

Snapshot == {t \in Targets : subs[t.sid] = [ws |-> t.ws, filter |-> t.filter]}

Ack(c) ==
  /\ at[c] = "acking" /\ peer[c] = "there"
  /\ at' = [at EXCEPT ![c] = "notifying"]
  /\ job' = [job EXCEPT ![c].rest = Snapshot]
  /\ UNCHANGED <<peer, sessions, admitted, subs, stored, hist>>

Dead(c) == peer[c] = "gone" \/ ~Live(c)     \* a send to c raises

Clash(c, t) == <<t.filter, job[c].event>> \in Clashes
Hit(c, t)   == ~Clash(c, t) /\ job[c].event \in Suits[t.filter]
Fails(c, t) == Clash(c, t) \/ (Hit(c, t) /\ Dead(t.ws))
Sends(c, t) == Hit(c, t) /\ ~Dead(t.ws)

Deliver(c, t) == got' = [got EXCEPT ![t.ws][t.sid] = @ \cup {job[c].event}]

NotifyOnce(c, t) ==     \* altered: a failed subscriber ends the loop
  /\ at[c] = "notifying" /\ t \in job[c].rest
  /\ job' = [job EXCEPT ![c].rest = IF Fails(c, t) THEN {} ELSE @ \ {t}]
  /\ \/ ~Hit(c, t) /\ ~Clash(c, t) /\ UNCHANGED <<got, subs>>
     \/ Sends(c, t) /\ peer[t.ws] = "there" /\ Deliver(c, t) /\ UNCHANGED subs
     \/ Fails(c, t) /\ subs' = [subs EXCEPT ![t.sid] = NoSub] /\ UNCHANGED got
  /\ UNCHANGED <<at, peer, sessions, admitted, stored, asked, opened, tried, missed>>

NotifyAgain(c, t) ==    \* altered: a failed send is tried again
  /\ at[c] = "notifying" /\ t \in job[c].rest
  /\ \/ ~Hit(c, t) /\ job' = [job EXCEPT ![c].rest = @ \ {t}] /\ UNCHANGED got
     \/ /\ Sends(c, t) /\ peer[t.ws] = "there" /\ Deliver(c, t)
        /\ job' = [job EXCEPT ![c].rest = @ \ {t}]
     \/ Hit(c, t) /\ Dead(t.ws) /\ UNCHANGED <<job, got>>
  /\ UNCHANGED <<at, peer, sessions, admitted, subs, stored, asked, opened, tried, missed>>

Notify(c, t) ==
  /\ at[c] = "notifying" /\ t \in job[c].rest
  /\ job' = [job EXCEPT ![c].rest = @ \ {t}]
  /\ \/ ~Hit(c, t) /\ ~Clash(c, t) /\ UNCHANGED <<got, subs>>
     \/ Sends(c, t) /\ peer[t.ws] = "there" /\ Deliver(c, t) /\ UNCHANGED subs
     \/ /\ Fails(c, t)                              \* the bare except: the match
        /\ subs' = [subs EXCEPT ![t.sid] = NoSub]   \* raised, or the send; pop,
        /\ UNCHANGED got                            \* whoever owns the id by now
  /\ UNCHANGED <<at, peer, sessions, admitted, stored, asked, opened, tried, missed>>

Notified(c) ==
  /\ at[c] = "notifying" /\ job[c].rest = {}
  /\ at' = [at EXCEPT ![c] = "reading"]
  /\ job' = [job EXCEPT ![c] = NoJob]
  /\ UNCHANGED <<peer, sessions, admitted, subs, stored, hist>>

SendFails(c) ==         \* a send to the connection's own peer raises, or int(expiration) does
  /\ \/ at[c] \in {"querying", "acking"} /\ peer[c] = "gone"
     \/ at[c] = "querying" /\ job[c].todo \cap Spoilt # {}
  /\ End(c, {})
  /\ missed' = IF at[c] = "acking" THEN missed \cup {job[c].event} ELSE missed
  /\ UNCHANGED <<peer, stored>>

Import(e) ==            \* the mesh fetch, an event over SSE, a handler that raises once it stored
  /\ e \notin stored
  /\ stored' = stored \cup {e}
  /\ missed' = missed \cup {e}
  /\ UNCHANGED <<at, peer, sessions, admitted, subs, job, got, asked, opened, tried>>

-----------------------------------------------------------------------------
Init ==
  /\ at = [c \in Clients |-> "off"]
  /\ peer = [c \in Clients |-> "there"]
  /\ sessions = {} /\ admitted = {}
  /\ subs = [s \in SubIds |-> NoSub]
  /\ stored = {}
  /\ job = [c \in Clients |-> NoJob]
  /\ got = [c \in Clients |-> [s \in SubIds |-> {}]]
  /\ asked = [c \in Clients |-> [s \in SubIds |-> {}]]
  /\ opened = [c \in Clients |-> [s \in SubIds |-> None]]
  /\ tried = [c \in Clients |-> [s \in SubIds |-> {}]]
  /\ missed = {}

Serve(c) ==             \* the steps a coroutine takes without a message from its client
  \/ Greet(c) \/ SendStored(c) \/ SendEose(c) \/ Ack(c) \/ Notified(c) \/ SendFails(c)
  \/ \E t \in Targets : Notify(c, t)

Next ==
  \/ \E c \in Clients :
       \/ Connect(c) \/ Vanish(c) \/ Stall(c) \/ Resume(c)
       \/ Hangup(c) \/ Leave(c) \/ Sweep(c) \/ Serve(c)
       \/ \E s \in SubIds : Close(c, s) \/ \E f \in Filters : Req(c, s, f)
       \/ \E e \in Events : Publish(c, e)
  \/ \E e \in Imports : Import(e)

Spec == Init /\ [][Next]_vars

(***************************************************************************)
(* The event loop runs every coroutine that can run.  No send has a        *)
(* timeout and no connection a heartbeat, so a send to a peer that does    *)
(* not read waits as long as that lasts; once the peer reads, the send     *)
(* completes, even if the peer stops again.  Nothing makes a peer read.    *)
(***************************************************************************)
Awaits(c, d) ==         \* c has yet to send to d
  \/ d = c /\ at[c] \in {"greeting", "querying", "acking"}
  \/ \E t \in job[c].rest : t.ws = d /\ Sends(c, t)

Held(c) == \E d \in Clients : peer[d] = "stalled" /\ Awaits(c, d)

Fairness == \A c \in Clients : SF_vars(~Held(c) /\ Serve(c))
FairSpec == Spec /\ Fairness

-----------------------------------------------------------------------------
\* Every variable keeps its type; a coroutine has a job exactly while it works
\* on one.
TypeOK ==
  /\ at \in [Clients -> Points]
  /\ peer \in [Clients -> Peers]
  /\ sessions \subseteq Clients /\ admitted \subseteq Clients
  /\ subs \in [SubIds -> Sub \cup {NoSub}]
  /\ stored \subseteq Events /\ missed \subseteq Events
  /\ job \in [Clients -> Jobs]
  /\ got \in [Clients -> [SubIds -> SUBSET Events]]
  /\ asked \in [Clients -> [SubIds -> SUBSET Events]]
  /\ opened \in [Clients -> [SubIds -> Filters \cup {None}]]
  /\ tried \in [Clients -> [SubIds -> SUBSET Filters]]

\* The subscription table holds no entry of a connection whose coroutine has
\* ended: handle's finally block misses none, whatever another coroutine's
\* notification loop removes or re-adds meanwhile.
NoOrphanSubscription ==
  \A s \in SubIds : subs[s] # NoSub => Live(subs[s].ws)

\* A slot of the rate limiter is held by every connection being served, and for
\* good by those whose challenge could not be sent: that send stands between
\* check_connect and the try whose finally returns the slot.  No other slot is
\* lost, and none is returned early.
SlotsMatchConnections ==
  admitted = {c \in Clients : Live(c)} \cup {c \in Challenged : at[c] = "broken"}

\* A subscription a client opened, under an id nobody else uses, is in the table
\* with that client and its filter until the client closes it or its connection
\* ends: no notification loop takes it for one that failed.  The exception is a
\* match that raises, for one of the filters the client used under the id: the
\* bare except then removes the subscription of a client that is there.
SubscriptionKept ==
  \A c \in Clients, s \in SubIds :
    /\ opened[c][s] # None /\ ~Dead(c)
    /\ \A d \in Clients \ {c} : s \notin Chosen(d)
    /\ (tried[c][s] \X stored) \cap Clashes = {}
    => subs[s] = [ws |-> c, filter |-> opened[c][s]]

Announcing(c, s, e) ==  \* some coroutine has yet to send e to subscription s of c
  \E p \in Clients :
    /\ job[p].event = e
    /\ \/ at[p] = "acking"
       \/ \E t \in job[p].rest : t.sid = s /\ t.ws = c /\ t.filter = subs[s].filter

Crowded(c, s) ==        \* more was stored for the subscription than one answer holds
  Cardinality(asked[c][s] \cap Finds[opened[c][s]]) > QueryLimit

\* No event falls between the stored ones and the live ones.  When its answer is
\* complete, an open subscription has received every event that was stored when
\* it was opened and that its query finds, unless the author is muted, the event
\* may have expired, or there were more than query_events returns; and every
\* event stored since that suits its filter, or a coroutine is about to send it,
\* unless it was never announced at all.
NoGap ==
  \A c \in Clients, s \in SubIds :
    opened[c][s] # None /\ ~Dead(c) /\ subs[s].ws = c /\ job[c].sid # s =>
      /\ \A e \in asked[c][s] \cap Finds[opened[c][s]] :
           e \in got[c][s] \/ Skips(c, e) \/ Crowded(c, s)
      /\ \A e \in ((stored \ asked[c][s]) \cap Suits[opened[c][s]]) \ missed :
           e \in got[c][s] \/ Announcing(c, s, e)

\* A coroutine that answers a request comes back to reading or ends.  The one
\* thing that holds it for ever is a peer it has yet to send to and that keeps
\* its connection without reading: for a publisher, any of the subscribers.
HandlerReturns ==
  \A c \in Clients : []<>(at[c] \notin Working \cup {"greeting"}) \/ <>[]Held(c)
==============================================================================
