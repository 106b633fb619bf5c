---------------------------- MODULE EventHandler ----------------------------
(***************************************************************************)
(* What the relay does with a published event: _handle_event of class      *)
(* NostrWSHandler up to its acknowledgement, the mesh fetcher and the SSE  *)
(* endpoint that write the same tables, the NIP-86 administration calls,   *)
(* and crashes.                                                            *)
(*                                                                         *)
(* All writers share one SQLite connection.  "conn" is the database as     *)
(* that connection sees it, with the open transaction; "disk" is what is   *)
(* committed.  A commit by anyone commits everything on the connection.    *)
(* The server is one asyncio loop: between two suspensions a handler is    *)
(* not interrupted, so it is one action, except that the process may stop  *)
(* after any of its commits (CrashInside).  Two handlers suspend before    *)
(* they acknowledge: a payment while it is verified (PayBegin, PayEnd) and *)
(* a report that bans, while its NOTICE is sent (ReportBegin, ReportEnd).  *)
(* Operators marked "altered" are mistakes to be noticed, see RelayTables. *)
(***************************************************************************)
EXTENDS RelayTables

CONSTANTS
  Publishable,  \* the events clients send over the WebSocket
  Remote,       \* the events external relays hold (kind 1)
  SsePosted,    \* the events clients send to the SSE endpoint
  Managed,      \* bound: the keys the administrator bans and allows
  Crashes       \* bound: how often the process may stop

ASSUME SourcesAssumption ==
  /\ Publishable \cup Remote \cup SsePosted \subseteq Events
  /\ \A e \in Remote : e.kind = 1
  /\ Managed \subseteq Pubkeys
  /\ Crashes \in Nat

VARIABLES
  conn,      \* the tables seen by the shared connection
  disk,      \* the committed tables
  waiting,   \* the events whose handler is suspended before the acknowledgement
  crashes,   \* how often the process has stopped
  acked,     \* history: ids acknowledged as stored and not deleted since
  excused,   \* history: keys unbanned by the administrator, or whose ban a crash cut off
  reply      \* the answer of the last step: whose event, and what was said

vars == <<conn, disk, waiting, crashes, acked, excused, reply>>

Sessions == {"local", "authed", "anon"}
PUBLIC_WRITE_KINDS == {1, 7, 9734, 9735, 10002}

Quiet == [to |-> Empty, says |-> "nothing"]
Answers == {"nothing", "true", "false"}
Replies == [to : Ids \cup {Empty}, says : Answers]

-----------------------------------------------------------------------------
(***************************************************************************)
(* The checks and the side effects of a handler.                           *)
(***************************************************************************)
Admitted(e, who) ==
  /\ ~Banned(conn, e.pubkey)
  /\ \/ who = "local"
     \/ {e.pubkey, Effective(conn, e.pubkey)} \cap Whitelist # {}
     \/ who = "authed" /\ e.kind \in PUBLIC_WRITE_KINDS

GroupAllows(t, e) ==
  e.kind \in 39000 .. 39003 =>
    LET group == First(e, "h")
        keys  == {e.pubkey, Effective(t, e.pubkey)}
    IN  /\ group # Empty
        /\ e.kind = 39003 => group \in DOMAIN Members /\ keys \cap Members[group] # {}
        /\ e.kind # 39003 => keys \cap Whitelist # {}

(***************************************************************************)
(* The states committed before the id of the event is checked.             *)
(***************************************************************************)
ReportCommitsLate(t, e) ==   \* altered: bans above the threshold, not at it
  LET filed == StoreReport(t, Last(e, "p"), e.pubkey)
  IN  IF Cardinality(Reporters(filed, Last(e, "p"))) > BanAt
      THEN <<filed, Ban(filed, Last(e, "p"), "nip56_auto")>> ELSE <<filed>>

ReportCommits(t, e) ==
  LET target == Last(e, "p")
      filed  == StoreReport(t, target, e.pubkey)
  IN  IF target = Empty THEN <<>>
      ELSE IF Cardinality(Reporters(filed, target)) >= BanAt
           THEN <<filed, Ban(filed, target, "nip56_auto")>>
           ELSE <<filed>>

Effects(t, e) ==
  CASE e.kind = 10002 -> IF ValuesOf(e, "r") = {} THEN <<>> ELSE <<IndexRelays(t, e)>>
    [] e.kind = 1984  -> ReportCommits(t, e)
    [] e.kind \in {10000, 10001} ->
         IF Positions(e, "p") = {} THEN <<>>
         ELSE [n \in DOMAIN e.tags |-> StoreListItems(t, e, n)]
    [] OTHER          -> <<>>

Latest(t, commits) == IF commits = <<>> THEN t ELSE commits[Len(commits)]

(***************************************************************************)
(* Store e on top of t: the states committed, and the state left behind.   *)
(***************************************************************************)
StoreCommits(t, e) == IF Known(t, e) \/ e.bad # 0 THEN <<>> ELSE <<StoreRow(t, e)>>
StoreLeaves(t, e)  == IF ~Known(t, e) /\ e.bad # 0 THEN PartRow(t, e)
                      ELSE Latest(t, StoreCommits(t, e))

Replace(t, e) == IF Superseded(t, e) = {} THEN <<>> ELSE <<Drop(t, Superseded(t, e))>>

(***************************************************************************)
(* The commits of the handlers, in order, from the state conn.             *)
(***************************************************************************)
Gone(e) == Drop(conn, DeleteTargets(conn, e))   \* the rows a kind-5 event takes

DeleteCommits(e) ==     \* none if an e tag raised, and no row if it cannot be bound
  IF BreaksOff(e) THEN <<>>
  ELSE IF e.bad = RowItself THEN <<Gone(e)>>
  ELSE <<Gone(e), BareRow(Gone(e), e)>>

Accepted(e) == GroupAllows(Latest(conn, Effects(conn, e)), e) /\ e.valid

Prepared(e) ==          \* side effects, and then the NIP-33 branch
  LET fx == Effects(conn, e)
  IN  IF Accepted(e) THEN fx \o Replace(Latest(conn, fx), e) ELSE fx

PublishCommits(e) ==
  IF Accepted(e)
  THEN Prepared(e) \o StoreCommits(Latest(conn, Prepared(e)), e)
  ELSE Prepared(e)

PayCommitsUnlogged(e) ==  \* altered: stored but not logged
  StoreCommits(conn, e)

PayCommits(e) ==
  LET logged == LogPayment(conn, e)
  IN  <<logged>> \o StoreCommits(logged, e)

Delegates(e) == e.kind = 22222 /\ First(e, "delegation") # Empty
Bans(e)      == e.kind = 1984 /\ Len(ReportCommits(conn, e)) = 2
Simple(e)    == e.kind \notin {5, 30000, 30001} /\ ~Delegates(e)

Resumed(e) ==           \* what is left after the suspension
  IF e.kind = 30000 THEN PayCommits(e)
  ELSE IF e.valid THEN StoreCommits(conn, e) ELSE <<>>

HandlerCommits(e) ==
  IF e.kind = 5 THEN DeleteCommits(e)
  ELSE IF Delegates(e) THEN <<StoreDelegation(conn, e.pubkey, First(e, "delegation"))>>
  ELSE IF e \in waiting THEN Resumed(e)
  ELSE IF Bans(e) THEN ReportCommits(conn, e)
  ELSE IF Simple(e) THEN PublishCommits(e)
  ELSE Prepared(e)

Removed(e) ==           \* the ids the handler removes on behalf of the author
  IdsOf(IF e.kind = 5 THEN DeleteTargets(conn, e)
        ELSE IF Accepted(e) /\ e \notin waiting THEN Superseded(conn, e)
        ELSE {})

-----------------------------------------------------------------------------
(***************************************************************************)
(* The actions.                                                            *)
(***************************************************************************)
FinishUncommitted(e, commits, leaves, says) ==  \* altered: answers before the last commit
  /\ disk'  = Latest(disk, SubSeq(commits, 1, Len(commits) - 1))
  /\ conn'  = leaves
  /\ reply' = [to |-> e.id, says |-> says]

Finish(e, commits, leaves, says) ==
  /\ disk'  = Latest(disk, commits)
  /\ conn'  = leaves
  /\ reply' = [to |-> e.id, says |-> says]

Refuse(e, who) ==
  /\ ~Admitted(e, who)
  /\ reply' = [to |-> e.id, says |-> "false"]
  /\ UNCHANGED <<conn, disk, waiting, crashes, acked, excused>>

Delete(e, who) ==
  /\ e.kind = 5 /\ Admitted(e, who)
  /\ LET answered == ~BreaksOff(e) /\ e.bad # RowItself
     IN  /\ Finish(e, DeleteCommits(e), Latest(Gone(e), DeleteCommits(e)),
                   IF answered THEN "true" ELSE "nothing")
         /\ acked' = (acked \ Removed(e)) \cup (IF answered THEN {e.id} ELSE {})
  /\ UNCHANGED <<waiting, crashes, excused>>

Delegate(e, who) ==
  /\ Delegates(e) /\ Admitted(e, who)
  /\ Finish(e, HandlerCommits(e), Latest(conn, HandlerCommits(e)), "true")
  /\ UNCHANGED <<waiting, crashes, acked, excused>>

Reported(e) == IF e.kind = 1984 THEN {Last(e, "p")} \ {Empty} ELSE {}

Publish(e, who) ==
  /\ Simple(e) /\ ~Bans(e) /\ Admitted(e, who)
  /\ \/ /\ Accepted(e)
        /\ Finish(e, PublishCommits(e),
                  StoreLeaves(Latest(conn, Prepared(e)), e), "true")
        /\ acked' = (acked \ Removed(e)) \cup {e.id}
     \/ /\ ~Accepted(e)
        /\ Finish(e, Prepared(e), Latest(conn, Prepared(e)), "false")
        /\ acked' = acked
  /\ excused' = excused \ Reported(e)
  /\ UNCHANGED <<waiting, crashes>>

ReportBegin(e, who) ==
  /\ Bans(e) /\ Admitted(e, who)
  /\ e \notin waiting
  /\ Finish(e, ReportCommits(conn, e), Latest(conn, ReportCommits(conn, e)), "nothing")
  /\ waiting' = waiting \cup {e}
  /\ excused' = excused \ Reported(e)
  /\ UNCHANGED <<crashes, acked>>

ReportEnd(e) ==
  /\ e \in waiting /\ e.kind = 1984
  /\ waiting' = waiting \ {e}
  /\ \/ /\ Finish(e, <<>>, conn, "nothing")     \* the reporter has gone
        /\ acked' = acked
     \/ /\ ~e.valid
        /\ Finish(e, <<>>, conn, "false")
        /\ acked' = acked
     \/ /\ e.valid
        /\ Finish(e, StoreCommits(conn, e), StoreLeaves(conn, e), "true")
        /\ acked' = acked \cup {e.id}
  /\ UNCHANGED <<crashes, excused>>

(***************************************************************************)
(* A payment replaces its predecessor, then awaits handle_snin_payment;    *)
(* the verdict is the environment's.  A balance request (30001) takes the  *)
(* same path to the same point and is then answered, never stored.         *)
(***************************************************************************)

Awaits(e) == e.kind = 30000

PayBegin(e, who) ==
  /\ e.kind \in {30000, 30001} /\ Admitted(e, who)
  /\ e \notin waiting
  /\ IF ~e.valid
     THEN Finish(e, <<>>, conn, "false") /\ UNCHANGED <<waiting, acked>>
     ELSE /\ Finish(e, Prepared(e), Latest(conn, Prepared(e)), "nothing")
          /\ waiting' = IF Awaits(e) THEN waiting \cup {e} ELSE waiting
          /\ acked' = acked \ Removed(e)
  /\ UNCHANGED <<crashes, excused>>

PayEnd(e) ==
  /\ e \in waiting /\ e.kind = 30000
  /\ waiting' = waiting \ {e}
  /\ \/ /\ Finish(e, <<>>, conn, "false")
        /\ acked' = acked
     \/ /\ Finish(e, PayCommits(e), StoreLeaves(LogPayment(conn, e), e), "true")
        /\ acked' = acked \cup {e.id}
  /\ UNCHANGED <<crashes, excused>>

(***************************************************************************)
(* The other writers of the tables.                                        *)
(***************************************************************************)
Fetch(e) ==             \* MeshFetcher.store_event
  LET stored == IF Known(conn, e) THEN conn ELSE BareRow(conn, Fetched(e))
  IN  /\ conn' = stored /\ disk' = stored
      /\ reply' = Quiet
      /\ UNCHANGED <<waiting, crashes, acked, excused>>

Post(e) ==              \* sse_handler.handle_event: stored, and "ok" whatever happened
  /\ Finish(e, StoreCommits(conn, e), StoreLeaves(conn, e), "true")
  /\ acked' = acked \cup {e.id}
  /\ UNCHANGED <<waiting, crashes, excused>>

AdminBan(p) ==
  /\ conn' = Ban(conn, p, "nip86_api") /\ disk' = Ban(conn, p, "nip86_api")
  /\ reply' = Quiet
  /\ UNCHANGED <<waiting, crashes, acked, excused>>

AdminAllow(p) ==
  /\ conn' = Allow(conn, p) /\ disk' = Allow(conn, p)
  /\ excused' = excused \cup {p}
  /\ reply' = Quiet
  /\ UNCHANGED <<waiting, crashes, acked>>

(***************************************************************************)
(* The process stops: between handlers, or inside one after its n-th       *)
(* commit; it is restarted at once.                                        *)
(***************************************************************************)
Restart(tables) ==
  /\ crashes < Crashes
  /\ crashes' = crashes + 1
  /\ disk' = Startup(tables) /\ conn' = Startup(tables)
  /\ waiting' = {}

Crash ==
  /\ Restart(disk)
  /\ reply' = Quiet
  /\ UNCHANGED <<acked, excused>>

CrashInside(e, who) ==
  /\ e \in waiting \/ (e \in Publishable /\ Admitted(e, who))
  /\ \E n \in DOMAIN HandlerCommits(e) :
       /\ Restart(HandlerCommits(e)[n])
       /\ acked' = acked \ (Removed(e) \ IdsOf(HandlerCommits(e)[n].events))
  /\ excused' = excused \cup Reported(e)
  /\ reply' = [to |-> e.id, says |-> "nothing"]

-----------------------------------------------------------------------------
Init ==
  /\ conn = Fresh /\ disk = Fresh
  /\ waiting = {} /\ crashes = 0
  /\ acked = {} /\ excused = {}
  /\ reply = Quiet

Next ==
  \/ \E e \in Publishable, who \in Sessions :
       \/ Refuse(e, who)   \/ Delete(e, who)   \/ Delegate(e, who)
       \/ Publish(e, who)  \/ ReportBegin(e, who) \/ PayBegin(e, who)
       \/ CrashInside(e, who)
  \/ \E e \in waiting   : PayEnd(e) \/ ReportEnd(e)
  \/ \E e \in Remote    : Fetch(e)
  \/ \E e \in SsePosted : Post(e)
  \/ \E p \in Managed   : AdminBan(p) \/ AdminAllow(p)
  \/ Crash

Spec == Init /\ [][Next]_vars

-----------------------------------------------------------------------------
(***************************************************************************)
(* Types.                                                                  *)
(***************************************************************************)

\* Every variable keeps its type: both views of the database are tables of
\* published events, and only payments and reports are suspended.
TypeOK ==
  /\ conn \in Tables /\ disk \in Tables
  /\ waiting \subseteq Publishable /\ \A e \in waiting : e.kind \in {1984, 30000}
  /\ crashes \in 0 .. Crashes
  /\ acked \subseteq Ids
  /\ excused \subseteq Pubkeys
  /\ reply \in Replies

(***************************************************************************)
(* Storage.                                                                *)
(***************************************************************************)

\* An event the relay acknowledged stays in the committed database until its
\* author deletes or replaces it, whatever crashes and whoever else writes:
\* the OK is never sent before the commit of _store_event_sync.  (An event whose
\* storing raises is acknowledged and not stored.)
AckedIsDurable ==
  \A e \in Events : e.id \in acked /\ e.bad = 0 => e.id \in IdsOf(disk.events)

\* The tag index and the full-text index never point to an event that is
\* gone: each of the three places that delete events deletes their index rows.
IndexSound ==
  \A t \in {conn, disk} :
    \A i \in {r[1] : r \in t.tags} \cup t.fts : i \in IdsOf(t.events)

\* An acknowledged event can be found by each of its indexed tags and by its
\* text, except a deletion and an event the mesh fetcher may have stored before
\* (both are inserted without an index entry, and a duplicate is not stored).
AckedIsIndexed ==
  \A e \in Events \ Remote :
    e.id \in acked /\ e.bad = 0 /\ e.kind # 5
      => TagRows(e, Len(e.tags) + 1) \subseteq disk.tags /\ e.id \in disk.fts

SameAddress(x, y) ==
  /\ Addressable(x.kind)
  /\ x.pubkey = y.pubkey /\ x.kind = y.kind
  /\ First(x, "d") # Empty /\ First(x, "d") = First(y, "d")

\* NIP-33: at most one version per author, kind and d tag is ever committed,
\* for d tags that json.dumps leaves as they are, for every kind whose handler
\* does not suspend between the deletion of the predecessors and the insertion,
\* and for events that do not come in by the SSE endpoint, which replaces none.
OneVersion ==
  \A x, y \in disk.events \ SsePosted :
    SameAddress(x, y) /\ First(x, "d") \in Plain /\ x.kind # 30000 => x = y

Actor(i) == {e \in Events : e.id = i}

AuthorOf == [i \in Ids |-> (CHOOSE e \in Events : e.id = i).pubkey]

\* The events that are committed and that no open transaction deletes.
Standing == IdsOf(disk.events) \cap IdsOf(conn.events)

\* A committed event is deleted only in a step of the handler of an event by
\* the same author, crashes included: nobody else's step takes it, or opens a
\* transaction that takes it.  (What a handler that raised has deleted, the
\* commit of anyone makes final.)
RemovedByAuthor ==
  [][\A i \in Standing \ Standing' :
       \E e \in Actor(reply'.to) : e.pubkey = AuthorOf[i]]_vars

\* A payment acknowledged over the WebSocket is in the payments table: it is
\* logged before it is stored, and both are committed before the OK.  (The SSE
\* endpoint stores a payment like any event.)
AckedPaymentIsLogged ==
  \A e \in Events \ SsePosted :
    e.id \in acked /\ e.kind = 30000 => e.id \in disk.payments

(***************************************************************************)
(* Moderation.                                                             *)
(***************************************************************************)

\* NIP-56: a key carries the automatic ban only if BanAt different keys have
\* reported it, and once they have it is banned, unless the administrator
\* allowed it since the last report or the process stopped between the commit
\* of that report and the commit of the ban.
AutoBanMatchesReports ==
  \A p \in Pubkeys :
    /\ <<p, "nip56_auto">> \in disk.banned => Cardinality(Reporters(disk, p)) >= BanAt
    /\ Cardinality(Reporters(disk, p)) >= BanAt => Banned(disk, p) \/ p \in excused

(***************************************************************************)
(* The promise.                                                            *)
(***************************************************************************)
\* The handlers, the other writers and the crashes implement EventStore, whose
\* events are those that are committed: what one connection, shared transactions
\* and several commits for one event amount to for an author, and what a deletion
\* that raises midway leaves to others.  (An event whose storing raises is no promise.)
Promise == INSTANCE EventStore WITH
             Authors <- Pubkeys,
             AuthorOf <- AuthorOf,
             kept <- IdsOf(disk.events),
             pending <- IdsOf(disk.events) \ IdsOf(conn.events),
             promised <- {e.id : e \in {f \in Events : f.id \in acked /\ f.bad = 0}},
             serving <- {e.pubkey : e \in Actor(reply.to)}

PromiseKept == Promise!Spec
==============================================================================
