---------------------------- MODULE GossipShard ----------------------------
(***************************************************************************)
(* The gossip shards: how they link to each other, how links break and are *)
(* made again, and the table of agents each keeps.                         *)
(*                                                                         *)
(* A shard connects to its peers first and listens afterwards.  Every      *)
(* message it is handed, the greeting of another shard included, goes to   *)
(* all its links: json.dumps is orjson's and gives bytes, so that          *)
(* json.dumps(msg).encode() raises for each of them.  No message is ever   *)
(* passed on; what happens is what the except clause does: the link is     *)
(* forgotten and a task made that connects again five seconds later, which *)
(* sends a greeting.  The writer to the content router, lost in the same   *)
(* way with every message to forward, is left out.                         *)
(***************************************************************************)
EXTENDS Integers, FiniteSets

CONSTANTS
  Shards,       \* a set of numbers: shards are tried in their order
  Agents,       \* names of agents
  Watched,      \* the names of agents and shards whose registration is looked at
  Conns,        \* the connections the smart router makes, each once
  Fed,          \* the shards the smart router connects to
  Attempts,     \* attempts to reach a peer at the start (3)
  MaxMessages,  \* bound: messages of the router
  Frail,        \* the shards that may crash
  MaxCrashes    \* bound: how often

ASSUME GossipAssumption ==
  /\ Shards \subseteq Nat /\ IsFiniteSet(Shards)
  /\ Agents \cap Shards = {} /\ Watched \subseteq Shards \cup Agents
  /\ Frail \subseteq Shards /\ Fed \subseteq Shards
  /\ Attempts \in Nat \ {0} /\ MaxMessages \in Nat /\ MaxCrashes \in Nat

VARIABLES
  running,      \* the shards whose process runs
  todo,         \* peers a starting shard has yet to try
  tries,        \* ... attempts left for the lowest of them
  links,        \* peer_shards: <<s, p>> when s holds a connection to p
  closing,      \* ... of which p has crashed and s was told, so that its writer is closing
  pending,      \* _reconnect_peer tasks: their number for each <<s, p>>
  greetings,    \* <<s, p>>: s has greeted p, which has not read it
  agents,       \* agents: the names each shard has registered
  conn,         \* the shard and the current agent_name of a router connection
  sent,         \* messages of the router so far
  crashes

net == <<links, closing, pending, greetings>>
shardVars == <<running, todo, tries, net, agents, conn, sent, crashes>>

Pairs == {pair \in Shards \X Shards : pair[1] # pair[2]}
Idle  == [shard |-> -1, name |-> -1]
Peers(s) == Shards \ {s}
First(S) == CHOOSE p \in S : \A q \in S : p <= q

ServingEarly(s) == s \in running      \* altered: it listens before it connects
Serving(s) == s \in running /\ todo[s] = {}

-----------------------------------------------------------------------------
(***************************************************************************)
(* Start: connect_peer_shards, then start_server.                          *)
(***************************************************************************)
Start(s) ==
  /\ s \notin running
  /\ running' = running \cup {s}
  /\ todo' = [todo EXCEPT ![s] = Peers(s)]
  /\ tries' = [tries EXCEPT ![s] = Attempts]
  /\ UNCHANGED <<net, agents, conn, sent, crashes>>

NextPeer(s) ==
  /\ todo' = [todo EXCEPT ![s] = @ \ {First(@)}]
  /\ tries' = [tries EXCEPT ![s] = Attempts]

Reach(s) ==
  /\ s \in running /\ todo[s] # {}
  /\ LET p == First(todo[s]) IN
       /\ Serving(p)
       /\ links' = links \cup {<<s, p>>}
       /\ greetings' = greetings \cup {<<s, p>>}
  /\ NextPeer(s)
  /\ UNCHANGED <<running, closing, pending, agents, conn, sent, crashes>>

Refused(s) ==            \* or timed out
  /\ s \in running /\ todo[s] # {}
  /\ IF tries[s] > 1 THEN tries' = [tries EXCEPT ![s] = @ - 1] /\ UNCHANGED todo
                     ELSE NextPeer(s)
  /\ UNCHANGED <<running, net, agents, conn, sent, crashes>>

-----------------------------------------------------------------------------
(***************************************************************************)
(* _gossip_to_peers and _p2p_to_shards: nothing is sent, every link that   *)
(* is not known to be closing is dropped and will be made again.           *)
(***************************************************************************)
Dropped(s) == {pair \in links \ closing : pair[1] = s}

GossipKeeps(s) ==       \* altered: a task for each link, and the link is kept
  /\ pending' = [pair \in Pairs |-> IF pair \in Dropped(s) THEN pending[pair] + 1 ELSE pending[pair]]
  /\ UNCHANGED links

Gossip(s) ==
  /\ links' = links \ Dropped(s)
  /\ pending' = [pair \in Pairs |-> IF pair \in Dropped(s) THEN pending[pair] + 1 ELSE pending[pair]]

\* Registered, or only its last_seen is new; removed by the finally clause,
\* whoever the name belongs to by then.
Register(s, n) == agents' = [agents EXCEPT ![s] = @ \cup ({n} \cap Watched)]
Forget(s, n)   == agents' = [agents EXCEPT ![s] = @ \ {n}]

Greet(s, p) ==          \* p reads the greeting: s becomes an agent of p, the greeting is gossiped
  /\ <<s, p>> \in greetings /\ Serving(p)
  /\ greetings' = greetings \ {<<s, p>>}
  /\ Register(p, s)
  /\ Gossip(p)
  /\ UNCHANGED <<running, todo, tries, closing, conn, sent, crashes>>

(***************************************************************************)
(* _reconnect_peer, five seconds later, by when an earlier greeting has    *)
(* been read.  One attempt, no more.                                       *)
(***************************************************************************)
Rested(s, p) ==
  /\ s \in running /\ pending[<<s, p>>] > 0 /\ <<s, p>> \notin greetings
  /\ pending' = [pending EXCEPT ![<<s, p>>] = @ - 1]

Reconnect(s, p) ==
  /\ Rested(s, p) /\ Serving(p)
  /\ links' = links \cup {<<s, p>>}
  /\ greetings' = greetings \cup {<<s, p>>}
  /\ UNCHANGED <<running, todo, tries, closing, agents, conn, sent, crashes>>

GiveUp(s, p) ==         \* refused, or timed out
  /\ Rested(s, p)
  /\ UNCHANGED <<running, todo, tries, links, closing, greetings, agents, conn, sent, crashes>>

-----------------------------------------------------------------------------
(***************************************************************************)
(* handle_agent for the smart router: one connection carries the messages  *)
(* of many agents, of which only the first is registered and only the last *)
(* is removed.  A first message of an agent that hashes to another shard   *)
(* ends in a KeyError, and the finally clause removes its name all the     *)
(* same.                                                                   *)
(***************************************************************************)
Open(k, s, n) ==
  /\ conn[k] = Idle /\ Serving(s) /\ sent < MaxMessages
  /\ conn' = [conn EXCEPT ![k] = [shard |-> s, name |-> n]]
  /\ sent' = sent + 1
  /\ Register(s, n)
  /\ Gossip(s)
  /\ UNCHANGED <<running, todo, tries, closing, greetings, crashes>>

Misroute(s, n) ==
  /\ Serving(s) /\ sent < MaxMessages
  /\ sent' = sent + 1
  /\ Forget(s, n)
  /\ UNCHANGED <<running, todo, tries, net, conn, crashes>>

Message(k, n) ==
  /\ conn[k] # Idle /\ sent < MaxMessages
  /\ conn' = [conn EXCEPT ![k].name = n]
  /\ sent' = sent + 1
  /\ Gossip(conn[k].shard)
  /\ UNCHANGED <<running, todo, tries, closing, greetings, agents, crashes>>

Close(k) ==
  /\ conn[k] # Idle
  /\ Forget(conn[k].shard, conn[k].name)
  /\ conn' = [conn EXCEPT ![k] = Idle]
  /\ UNCHANGED <<running, todo, tries, net, sent, crashes>>

-----------------------------------------------------------------------------
(***************************************************************************)
(* anti_entropy: a name registered more than HEARTBEAT_TTL ago expires,    *)
(* its connection open or not.  A connection that a shard dropped is not   *)
(* closed; when the collector does it, the finally clause at the other end *)
(* removes the shard's name in the same way, even if it has a newer        *)
(* connection.  The clock is left out.                                     *)
(***************************************************************************)
ExpirePeer(s, n) ==     \* altered: only names in peer_map, where nothing is ever put
  /\ n \in {} /\ Forget(s, n)
  /\ UNCHANGED <<running, todo, tries, net, conn, sent, crashes>>

Expire(s, n) ==
  /\ n \in agents[s] /\ Forget(s, n)
  /\ UNCHANGED <<running, todo, tries, net, conn, sent, crashes>>

-----------------------------------------------------------------------------
Crash(s) ==
  /\ s \in running \cap Frail /\ crashes < MaxCrashes
  /\ crashes' = crashes + 1
  /\ running' = running \ {s}
  /\ todo' = [todo EXCEPT ![s] = {}] /\ tries' = [tries EXCEPT ![s] = 0]
  /\ links' = {pair \in links : pair[1] # s}
  /\ \E told \in SUBSET {pair \in links : pair[2] = s} :   \* a reset, not just the end
       closing' = {pair \in closing : pair[1] # s} \cup told
  /\ pending' = [pair \in Pairs |-> IF pair[1] = s THEN 0 ELSE pending[pair]]
  /\ greetings' = {pair \in greetings : pair[2] # s}
  /\ agents' = [agents EXCEPT ![s] = {}]
  /\ conn' = [k \in Conns |-> IF conn[k].shard = s THEN Idle ELSE conn[k]]
  /\ UNCHANGED sent

ShardInit ==
  /\ running = {} /\ todo = [s \in Shards |-> {}] /\ tries = [s \in Shards |-> 0]
  /\ links = {} /\ closing = {} /\ pending = [pair \in Pairs |-> 0]
  /\ greetings = {}
  /\ agents = [s \in Shards |-> {}]
  /\ conn = [k \in Conns |-> Idle] /\ sent = 0 /\ crashes = 0

Shard(s) ==             \* what a shard does when it runs
  \/ Reach(s) \/ Refused(s)
  \/ \E p \in Peers(s) : Greet(p, s) \/ Reconnect(s, p) \/ GiveUp(s, p)

Router ==
  \/ \E k \in Conns : Close(k) \/ \E n \in Agents : Message(k, n) \/ \E s \in Fed : Open(k, s, n)
  \/ \E s \in Fed, n \in Agents : Misroute(s, n)

ShardNext ==
  \/ Router
  \/ \E s \in Shards :
       \/ Start(s) \/ Shard(s) \/ Crash(s)
       \/ \E n \in Watched : Expire(s, n)

ShardSpec == ShardInit /\ [][ShardNext]_shardVars

Connected(s, n) ==      \* some connection registered n at s and is open
  \/ \E k \in Conns : conn[k] = [shard |-> s, name |-> n]
  \/ n \in Shards /\ <<n, s>> \in links

(***************************************************************************)
(* A shard that runs takes its steps and its sleeps end; the name of an    *)
(* agent without a connection is not seen again and expires.               *)
(***************************************************************************)
FairShardSpec ==
  /\ ShardSpec
  /\ \A s \in Shards :
       WF_shardVars(Shard(s)) /\ \A n \in Watched : WF_shardVars(~Connected(s, n) /\ Expire(s, n))

-----------------------------------------------------------------------------
\* Every variable keeps its type.
ShardTypeOK ==
  /\ running \subseteq Shards
  /\ todo \in [Shards -> SUBSET Shards] /\ tries \in [Shards -> 0 .. Attempts]
  /\ links \subseteq Pairs /\ closing \subseteq links
  /\ pending \in [Pairs -> Nat]
  /\ greetings \subseteq Pairs
  /\ agents \in [Shards -> SUBSET Watched]
  /\ conn \in [Conns -> [shard : Shards, name : Agents] \cup {Idle}]
  /\ sent \in 0 .. MaxMessages /\ crashes \in 0 .. MaxCrashes

\* A shard has one connection to a peer or one task that will make it: however
\* many messages arrive while a task sleeps, a peer is not greeted twice for it.
OneLinkPerPeer ==
  \A pair \in Pairs : pending[pair] + (IF pair \in links THEN 1 ELSE 0) <= 1

\* The greetings and reconnections that a message sets off come to an end when
\* the router is silent, unless a shard crashed.
StormSettles ==
  [](crashes = 0) => <>[](greetings = {} /\ \A pair \in Pairs : pending[pair] = 0)

\* An agent whose connections have ended is forgotten or comes back, although the
\* end of a connection removes the name that its last message carried and no other.
GoneAreForgotten ==
  \A s \in Fed, n \in Watched :
    n \in agents[s] /\ ~Connected(s, n) ~> n \notin agents[s] \/ Connected(s, n)
==============================================================================
