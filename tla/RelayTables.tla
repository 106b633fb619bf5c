----------------------------- MODULE RelayTables -----------------------------
(***************************************************************************)
(* The SQLite tables of the relay (class RelayDB of                        *)
(* relay/relay_server_v2.py) and what each statement of the event handler  *)
(* does to them.  A value of Tables is the content of the database as one  *)
(* connection sees it; every operator below maps Tables to Tables and      *)
(* leaves the moment of the commit to the module EventHandler.  An operator *)
(* marked "altered" is not the code's: it is a plausible mistake in the    *)
(* one after it, which a property must notice when it takes its place.     *)
(*                                                                         *)
(* An event is a record.  "tags" is the tag list as <<name, value>> pairs, *)
(* "valid" says whether the id is the hash of the event.  "bad" is 0, or   *)
(* says what of the event SQLite cannot take: the index of a tag whose     *)
(* value it cannot bind; Len(tags) + 1 when the content is a number, which *)
(* it binds and strip() refuses; RowItself when the signature, or except   *)
(* in a report and a payment the content, is a list or an object, so that  *)
(* not even the row can be inserted.  Contents, signatures and wording are *)
(* abstracted away.                                                        *)
(***************************************************************************)
EXTENDS Integers, Sequences, FiniteSets

CONSTANTS
  Events,      \* every event a client or a remote relay may hold
  Pubkeys,     \* every public key that occurs in an event
  Values,      \* every tag value that occurs in an event
  Plain,       \* the tag values json.dumps writes unchanged (ASCII, no escapes)
  Whitelist,   \* the public keys with full write access
  Named,       \* the whitelisted keys main() seeds into the agents table
  Members,     \* group id -> the members seeded by init_groups
  BanAt        \* number of reports that bans a key (3 in the code)

Empty    == "empty"     \* the empty string; no tag value reads "empty" otherwise
TagNames == {"p", "e", "a", "t", "d", "r", "g", "h", "delegation", "source", "original"}
Indexed  == {"p", "e", "a", "t", "d", "r", "g", "h"}
Kinds    == 0 .. 39003
Event    == [id : STRING, pubkey : Pubkeys, kind : Kinds, created_at : Nat,
             tags : Seq(TagNames \X Values), valid : BOOLEAN, bad : Int]

RowItself == -1         \* the value of "bad" of an event whose row cannot be bound

(***************************************************************************)
(* An id stands for one event: its check comes after the deletions and the *)
(* side effects and not for kind 5, and the SSE endpoint has none while    *)
(* main() runs it in its development mode, so clients who reuse an id are  *)
(* left out.  A value that cannot be bound is not one a handler looks up.  *)
(***************************************************************************)
ASSUME EventsAssumption ==
  /\ Events \subseteq Event
  /\ \A e, f \in Events : e.id = f.id => e = f
  /\ \A e \in Events : \A i \in DOMAIN e.tags :
       /\ e.tags[i][1] \in {"p", "delegation"} => e.tags[i][2] \in Pubkeys
       /\ e.tags[i][1] \in {"p", "delegation", "h"} => e.bad # i

ASSUME KeysAssumption ==
  /\ Named \subseteq Whitelist
  /\ Whitelist \subseteq Pubkeys
  /\ Plain \subseteq Values
  /\ BanAt \in Nat \ {0}
  /\ {Empty, "relay"} \subseteq Values

Ids == {e.id : e \in Events}

(***************************************************************************)
(* An event as mesh_fetch stores it: two bookkeeping tags are appended.    *)
(***************************************************************************)
Fetched(e) == [e EXCEPT !.tags = @ \o << <<"source", "relay">>, <<"original", "relay">> >>]

Rows == Events \cup {Fetched(e) : e \in Events}

BannedBy == {"nip86_api", "nip56_auto"}

Tables ==
  [events      : SUBSET Rows,
   tags        : SUBSET (Ids \X TagNames \X Values),
   fts         : SUBSET Ids,
   agents      : SUBSET Pubkeys,
   relay_list  : [Pubkeys -> SUBSET Values],
   banned      : SUBSET (Pubkeys \X BannedBy),
   reports     : SUBSET (Pubkeys \X Pubkeys),
   lists       : SUBSET (Pubkeys \X Kinds \X Pubkeys),
   delegations : SUBSET (Pubkeys \X Pubkeys),
   payments    : SUBSET Ids]

Fresh ==                \* the database after the first start
  [events |-> {}, tags |-> {}, fts |-> {}, agents |-> {},
   relay_list |-> [p \in Pubkeys |-> {}], banned |-> {}, reports |-> {},
   lists |-> {}, delegations |-> {}, payments |-> {}]

(***************************************************************************)
(* What main() does to the agents table at every start: seed the named     *)
(* keys, count the events of each agent, drop the agents that have none.   *)
(***************************************************************************)
Startup(t) ==
  LET live == {p \in t.agents \cup Named : \E x \in t.events : x.pubkey = p}
  IN  [t EXCEPT !.agents = live,
                !.relay_list = [p \in Pubkeys |-> IF p \in live THEN @[p] ELSE {}]]

IdsOf(rows) == {x.id : x \in rows}

(***************************************************************************)
(* Reading the tag list.                                                   *)
(***************************************************************************)
Positions(e, name) == {i \in DOMAIN e.tags : e.tags[i][1] = name}
ValuesOf(e, name)  == {e.tags[i][2] : i \in Positions(e, name)}

First(e, name) ==       \* Empty when the event has no such tag
  IF Positions(e, name) = {} THEN Empty
  ELSE e.tags[CHOOSE i \in Positions(e, name) :
                \A j \in Positions(e, name) : i <= j][2]

Last(e, name) ==        \* likewise
  IF Positions(e, name) = {} THEN Empty
  ELSE e.tags[CHOOSE i \in Positions(e, name) :
                \A j \in Positions(e, name) : j <= i][2]

(***************************************************************************)
(* tags_json LIKE '%"d"%"v"%': somewhere a quoted d, and later a quoted v, *)
(* whichever tags they belong to.  The list was written by json.dumps, so  *)
(* a value it escapes is never equal to the value in the pattern.  Values  *)
(* that match only as LIKE patterns (wildcards, letter case) are left out. *)
(***************************************************************************)
Token(e, n) == e.tags[(n + 1) \div 2][2 - (n % 2)]

TagsLike(e, v) ==
  /\ v \in Plain
  /\ \E i, j \in 1 .. 2 * Len(e.tags) : i < j /\ Token(e, i) = "d" /\ Token(e, j) = v

Addressable(k) == k \in 30000 .. 39999 /\ k \notin 39000 .. 39003

SupersededIfOlder(t, e) ==  \* altered: only the rows with a smaller timestamp
  {x \in t.events : /\ x.pubkey = e.pubkey /\ x.kind = e.kind
                    /\ x.created_at < e.created_at
                    /\ TagsLike(x, First(e, "d"))}

Superseded(t, e) ==     \* the rows the NIP-33 branch deletes
  IF Addressable(e.kind) /\ First(e, "d") # Empty
  THEN {x \in t.events : /\ x.pubkey = e.pubkey
                         /\ x.kind = e.kind
                         /\ x.id # e.id
                         /\ TagsLike(x, First(e, "d"))}
  ELSE {}

BreaksOff(e) ==         \* looking up one of its e tags raises, outside any try
  e.bad \in Positions(e, "e")

ToDelete(e) ==          \* the ids a kind-5 event gets to
  {e.tags[i][2] : i \in {j \in Positions(e, "e") : BreaksOff(e) => j < e.bad}}

DeleteTargetsOfAnyone(t, e) ==  \* altered: the author is not compared
  {x \in t.events : x.id \in ToDelete(e)}

DeleteTargets(t, e) ==  \* the rows a kind-5 event deletes
  {x \in t.events : x.id \in ToDelete(e) /\ x.pubkey = e.pubkey}

DropButText(t, rows) ==  \* altered: the full-text index is forgotten
  [t EXCEPT !.events = @ \ rows, !.tags = {r \in @ : r[1] \notin IdsOf(rows)}]

Drop(t, rows) ==
  [t EXCEPT !.events = @ \ rows,
            !.tags   = {r \in @ : r[1] \notin IdsOf(rows)},
            !.fts    = @ \ IdsOf(rows)]

(***************************************************************************)
(* _store_event_sync.  StoreRow is the run that ends in the commit;        *)
(* PartRow is what an exception leaves in the open transaction: the row    *)
(* and the tags before the bad one, or nothing when the row is bad.        *)
(***************************************************************************)
Known(t, e) == e.id \in IdsOf(t.events)

TagRows(e, upto) ==
  {<<e.id, e.tags[i][1], e.tags[i][2]>> :
     i \in {j \in DOMAIN e.tags : j < upto /\ e.tags[j][1] \in Indexed}}

StoreRowShort(t, e) ==   \* altered: the last tag is not indexed
  [t EXCEPT !.events = @ \cup {e},
            !.tags   = @ \cup TagRows(e, Len(e.tags)),
            !.fts    = @ \cup {e.id}]

StoreRow(t, e) ==
  [t EXCEPT !.events = @ \cup {e},
            !.tags   = @ \cup TagRows(e, Len(e.tags) + 1),
            !.fts    = @ \cup {e.id},
            !.agents = IF e.kind = 0 THEN @ \cup {e.pubkey} ELSE @]

PartRow(t, e) ==
  IF e.bad = RowItself THEN t
  ELSE [t EXCEPT !.events = @ \cup {e},
                 !.tags   = @ \cup TagRows(e, e.bad)]

BareRow(t, e) ==        \* the INSERT OR IGNOREs that index nothing: kind 5, mesh
  IF Known(t, e) \/ e.bad = RowItself THEN t ELSE [t EXCEPT !.events = @ \cup {e}]

(***************************************************************************)
(* Side tables.                                                            *)
(***************************************************************************)
IndexRelays(t, e) ==    \* NIP-65: UPDATE agents, a no-op for an unknown key
  IF e.pubkey \in t.agents
  THEN [t EXCEPT !.relay_list[e.pubkey] = ValuesOf(e, "r")]
  ELSE t

Reporters(t, p) == {q \in Pubkeys : <<p, q>> \in t.reports}

StoreReport(t, p, q) == [t EXCEPT !.reports = @ \cup {<<p, q>>}]
Allow(t, p)          == [t EXCEPT !.banned = {b \in @ : b[1] # p}]
Ban(t, p, by)        == [t EXCEPT !.banned = {b \in @ : b[1] # p} \cup {<<p, by>>}]
Banned(t, p)         == \E by \in BannedBy : <<p, by>> \in t.banned
LogPayment(t, e)     == [t EXCEPT !.payments = @ \cup {e.id}]

StoreListItems(t, e, n) ==   \* the p tags among the first n tags
  [t EXCEPT !.lists = @ \cup {<<e.pubkey, e.kind, e.tags[i][2]>> :
                                i \in Positions(e, "p") \cap 1 .. n}]

StoreDelegation(t, p, q) ==
  [t EXCEPT !.delegations = {d \in @ : d[1] # p} \cup {<<p, q>>}]

Effective(t, p) ==      \* get_delegator, for keys outside the whitelist
  IF p \notin Whitelist /\ \E q \in Pubkeys : <<p, q>> \in t.delegations
  THEN CHOOSE q \in Pubkeys : <<p, q>> \in t.delegations
  ELSE p
==============================================================================
