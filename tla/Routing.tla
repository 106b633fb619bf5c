------------------------------- MODULE Routing -------------------------------
(***************************************************************************)
(* The content router and the route engine together: what the router       *)
(* writes (wire) the engine reads, one line at a time, and not while it    *)
(* posts a DAO event; a stop of the engine takes its lists, the lines it   *)
(* has not read and the router's connection with it.  Both modules mean    *)
(* the same events.                                                        *)
(***************************************************************************)
EXTENDS RouteEngine, Integers, Sequences

CONSTANTS
  Clients, Odd, MaxEvents, Quarter,
  MaxWire,    \* bound: lines in transit
  MaxFaults,  \* bound: stops of the engine, of the mesh and of the WebSocket
  MaxTaken    \* bound: events the router takes in

VARIABLES
  at, cur, queue, seen, bloom, writer, reconnecting, delayed, listening, wire, lost,
  faults,     \* how many there were
  taken       \* how many it took in

ASSUME RouterAssumption ==
  Odd \subseteq Events /\ MaxEvents \in Nat /\ Quarter \in 1 .. MaxEvents

CR == INSTANCE ContentRouter

router  == <<at, cur, queue, seen, bloom, writer, reconnecting, delayed, listening,
             wire, lost>>
engine  == vars
routing == <<router, engine, faults, taken>>

RoutingInit == CR!Init /\ Init /\ faults = 0 /\ taken = 0

Steady  == UNCHANGED <<faults, taken>>
Router(step) == step /\ Len(wire') <= MaxWire /\ UNCHANGED engine /\ Steady
Engine(step) == step /\ UNCHANGED router /\ Steady

Take ==
  /\ taken < MaxTaken /\ taken' = taken + 1
  /\ \E c \in Clients, e \in Events : CR!Receive(c, e)
  /\ UNCHANGED <<engine, faults>>

Handover(e) == CR!Read(e) /\ Add(e) /\ Steady

Stop ==
  /\ listening /\ CR!EngineStops /\ Crash

Fault ==
  /\ faults < MaxFaults /\ faults' = faults + 1 /\ UNCHANGED taken
  /\ \/ (LinkDrops \/ MeshStops) /\ UNCHANGED router
     \/ Stop

\* The engine acts only while its process runs.
RoutingNext ==
  \/ \E c \in Clients : Router(CR!Work(c)) \/ \E e \in Events : Router(CR!Refuse(c, e))
  \/ Take
  \/ Router(CR!Reconnect) \/ Router(CR!Expire) \/ Router(CR!EngineStarts)
  \/ \E e \in Events : Handover(e)
  \/ posting = None /\ Router(CR!HangUp)
  \/ listening /\ (Engine(Reader) \/ Engine(Tick) \/ Engine(Connected))
  \/ Engine(MeshStarts)
  \/ Fault

RoutingSpec == RoutingInit /\ [][RoutingNext]_routing

(***************************************************************************)
(* The event loops of both processes run what can run; a process that was  *)
(* stopped is started again, by whoever runs it, and so is the mesh.       *)
(* Nothing is assumed of clients.                                          *)
(***************************************************************************)
RoutingFairness ==
  /\ \A c \in Clients : WF_routing(Router(CR!Work(c)))
  /\ WF_routing(Router(CR!Reconnect))
  /\ WF_routing((\E e \in Events : Handover(e)) \/ (posting = None /\ Router(CR!HangUp)))
  /\ WF_routing(listening /\ Engine(Reader)) /\ WF_routing(listening /\ Engine(Tick))
  /\ WF_routing(listening /\ Engine(Connected))
  /\ WF_routing(Router(CR!EngineStarts)) /\ WF_routing(Engine(MeshStarts))

FairRouting == RoutingSpec /\ RoutingFairness

-----------------------------------------------------------------------------
DedupSound   == CR!DedupSound
OneReconnect == CR!OneReconnect

(***************************************************************************)
(* Of the events that passed the router's test none vanishes: it is in the *)
(* hands of a coroutine, on the wire, in the lists or the message of the   *)
(* engine, or at the mesh, unless it met one of the faults either side     *)
(* counts (no connection, a reset, a stop, no WebSocket).  In particular   *)
(* an event that comes in while a message is being sent is not cleared     *)
(* with the message.  Heartbeats go no further than the engine.            *)
(***************************************************************************)
Underway == {cur[c] : c \in Clients} \cup {wire[i] : i \in DOMAIN wire} \cup InHand

NothingVanishes ==
  bloom \subseteq Underway \cup arrived \cup lost \cup missing \cup Heartbeats

(***************************************************************************)
(* And it does not wait for ever either: not behind a post that fails, nor *)
(* in a list nobody flushes, nor for a reconnect nobody makes.             *)
(***************************************************************************)
TakenArrives ==
  \A e \in Events \ Heartbeats :
    e \in bloom ~> e \in arrived \cup lost \cup missing
==============================================================================
