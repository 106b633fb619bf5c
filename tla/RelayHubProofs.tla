--------------------------- MODULE RelayHubProofs ---------------------------
(***************************************************************************)
(* Proofs about RelayHub, for every number of connections, subscription    *)
(* ids and events: the tables of the hub agree with its connections, and   *)
(* no subscription loses an event.                                         *)
(***************************************************************************)
EXTENDS RelayHub, FiniteSetTheorems, TLAPS

(***************************************************************************)
(* What a coroutine works on, by the place where it stands.                *)
(***************************************************************************)
JobFits(c) ==
  /\ at[c] \in {"off", "greeting", "reading", "ended", "broken"} => job[c] = NoJob
  /\ at[c] = "querying"  => job[c].event = None /\ job[c].rest = {} /\ job[c].sid # None
  /\ at[c] = "acking"    => job[c].event # None /\ job[c].rest = {} /\ job[c].sid = None
  /\ at[c] = "notifying" => job[c].event # None /\ job[c].sid = None

JobsFit == \A c \in Clients : JobFits(c)

-----------------------------------------------------------------------------
(***************************************************************************)
(* Types.                                                                  *)
(***************************************************************************)
LEMMA InitTypes == Init => TypeOK
  BY HubAssumption DEF Init, TypeOK, Points, Peers, NoJob, Jobs, NoSub, Sub

LEMMA JobTypes ==
  ASSUME NEW j \in Jobs, NEW es \in SUBSET Events, NEW ts \in SUBSET Targets
  PROVE  [j EXCEPT !.todo = es] \in Jobs /\ [j EXCEPT !.rest = ts] \in Jobs
  BY DEF Jobs

LEMMA ForgottenTypes ==
  ASSUME TypeOK, NEW c \in Clients, Forgotten(c)
  PROVE  /\ got' \in [Clients -> [SubIds -> SUBSET Events]]
         /\ asked' \in [Clients -> [SubIds -> SUBSET Events]]
         /\ opened' \in [Clients -> [SubIds -> Filters \cup {None}]]
         /\ tried' \in [Clients -> [SubIds -> SUBSET Filters]]
  BY DEF TypeOK, Forgotten

LEMMA EndTypes ==
  ASSUME TypeOK, NEW c \in Clients, NEW lost, End(c, lost)
  PROVE  /\ at' \in [Clients -> Points]
         /\ sessions' \subseteq Clients /\ admitted' \subseteq Clients
         /\ subs' \in [SubIds -> Sub \cup {NoSub}]
         /\ job' \in [Clients -> Jobs]
         /\ got' \in [Clients -> [SubIds -> SUBSET Events]]
         /\ asked' \in [Clients -> [SubIds -> SUBSET Events]]
         /\ opened' \in [Clients -> [SubIds -> Filters \cup {None}]]
         /\ tried' \in [Clients -> [SubIds -> SUBSET Filters]]
<1>1. Forgotten(c)
  BY DEF End
<1>2. /\ at' \in [Clients -> Points]
      /\ sessions' \subseteq Clients /\ admitted' \subseteq Clients
      /\ job' \in [Clients -> Jobs]
  BY DEF TypeOK, End, Points, NoJob, Jobs
<1>3. subs' \in [SubIds -> Sub \cup {NoSub}]
  BY DEF TypeOK, End
<1> QED
  BY <1>1, <1>2, <1>3, ForgottenTypes

\* What a notification does to its job, the table and the deliveries.
LEMMA NotifyEffect ==
  ASSUME NEW c, NEW t, Notify(c, t)
  PROVE  /\ at[c] = "notifying" /\ t \in job[c].rest
         /\ job' = [job EXCEPT ![c].rest = @ \ {t}]
         /\ UNCHANGED <<at, peer, sessions, admitted, stored, asked, opened, tried, missed>>
         /\ \/ ~Hit(c, t) /\ ~Clash(c, t) /\ got' = got /\ subs' = subs
            \/ Sends(c, t) /\ Deliver(c, t) /\ subs' = subs
            \/ Fails(c, t) /\ got' = got /\ subs' = [subs EXCEPT ![t.sid] = NoSub]
  BY DEF Notify

LEMMA NotifyGot ==
  ASSUME NEW c, NEW t, Notify(c, t)
  PROVE  \/ got' = got
         \/ got' = [got EXCEPT ![t.ws][t.sid] = @ \cup {job[c].event}]
  BY NotifyEffect DEF Deliver

LEMMA StepTypes == TypeOK /\ JobsFit /\ [Next]_vars => TypeOK'
<1> SUFFICES ASSUME TypeOK, JobsFit, [Next]_vars
             PROVE  TypeOK'
  OBVIOUS
<1> USE HubAssumption DEF TypeOK
<1>1. ASSUME NEW c \in Clients, Connect(c)
      PROVE  TypeOK'
  <2>1. at' \in [Clients -> Points] /\ admitted' \subseteq Clients
    <3>1. CASE Cardinality(admitted) >= MaxConn
      BY <1>1, <3>1 DEF Connect, Points
    <3>2. CASE ~(Cardinality(admitted) >= MaxConn)
      BY <1>1, <3>2 DEF Connect, Points
    <3> QED
      BY <3>1, <3>2
  <2> QED
    BY <1>1, <2>1 DEF Connect, hist
<1>2. ASSUME NEW c \in Clients, Vanish(c) \/ Stall(c) \/ Resume(c) \/ Greet(c)
      PROVE  TypeOK'
  <2>1. CASE Vanish(c)
    BY <2>1, ForgottenTypes DEF Vanish, Becomes, Peers
  <2>2. CASE Stall(c) \/ Resume(c)
    BY <2>2 DEF Stall, Resume, Becomes, Peers, hist
  <2>3. CASE Greet(c)
    BY <2>3 DEF Greet, Points, hist
  <2> QED
    BY <1>2, <2>1, <2>2, <2>3
<1>3. ASSUME NEW c \in Clients, Hangup(c) \/ Leave(c)
      PROVE  TypeOK'
  <2>1. PICK lost : End(c, lost)
    BY <1>3 DEF Hangup, Leave
  <2> QED
    BY <1>3, <2>1, EndTypes DEF Hangup, Leave
<1>4. ASSUME NEW c \in Clients, Sweep(c)
      PROVE  TypeOK'
  BY <1>4 DEF Sweep, hist
<1>5. ASSUME NEW c \in Clients, NEW s \in SubIds, NEW f \in Filters, Req(c, s, f)
      PROVE  TypeOK'
  <2>1. PICK A \in Answers(f) : job' = [job EXCEPT ![c] = [NoJob EXCEPT !.sid = s, !.todo = A]]
    BY <1>5 DEF Req
  <2>2. A \subseteq Events
    BY <2>1 DEF Answers, Found
  <2>3. [NoJob EXCEPT !.sid = s, !.todo = A] \in Jobs
    BY <2>2 DEF NoJob, Jobs
  <2>4. [ws |-> c, filter |-> f] \in Sub
    BY DEF Sub
  <2>5. job' \in [Clients -> Jobs] /\ subs' \in [SubIds -> Sub \cup {NoSub}]
    BY <1>5, <2>1, <2>3, <2>4 DEF Req
  <2>6. at' \in [Clients -> Points]
    BY <1>5 DEF Req, Points
  <2>7. got' \in [Clients -> [SubIds -> SUBSET Events]]
    BY <1>5 DEF Req
  <2>8. asked' \in [Clients -> [SubIds -> SUBSET Events]]
    BY <1>5 DEF Req
  <2>9. opened' \in [Clients -> [SubIds -> Filters \cup {None}]]
    BY <1>5 DEF Req
  <2>10. tried' \in [Clients -> [SubIds -> SUBSET Filters]]
    BY <1>5 DEF Req
  <2> QED
    BY <1>5, <2>5, <2>6, <2>7, <2>8, <2>9, <2>10 DEF Req
<1>6. ASSUME NEW c \in Clients, SendStored(c)
      PROVE  TypeOK'
  <2>1. PICK e \in job[c].todo :
          /\ got' \in {got, [got EXCEPT ![c][job[c].sid] = @ \cup {e}]}
          /\ job' = [job EXCEPT ![c].todo = @ \ {e}]
    BY <1>6 DEF SendStored
  <2>2. job[c] \in Jobs /\ job[c].todo \subseteq Events /\ e \in Events
    BY DEF Jobs
  <2>3. [job[c] EXCEPT !.todo = job[c].todo \ {e}] \in Jobs
    BY <2>2, JobTypes
  <2>4. job[c].sid \in SubIds
    BY <1>6, <2>2 DEF SendStored, JobsFit, JobFits, Jobs
  <2>5. got' \in [Clients -> [SubIds -> SUBSET Events]]
    <3>1. ASSUME NEW r \in SubIds, got' = [got EXCEPT ![c][r] = @ \cup {e}]
          PROVE  got' \in [Clients -> [SubIds -> SUBSET Events]]
      BY <2>2, <3>1
    <3> QED
      BY <2>1, <2>4, <3>1
  <2> QED
    BY <1>6, <2>1, <2>3, <2>5 DEF SendStored
<1>7. ASSUME NEW c \in Clients, SendEose(c)
      PROVE  TypeOK'
  BY <1>7 DEF SendEose, Jobs, NoJob, Points, hist
<1>8. ASSUME NEW c \in Clients, NEW s \in SubIds, Close(c, s)
      PROVE  TypeOK'
  BY <1>8 DEF Close
<1>9. ASSUME NEW c \in Clients, NEW e \in Events, Publish(c, e)
      PROVE  TypeOK'
  BY <1>9 DEF Publish, Jobs, NoJob, Points, hist
<1>10. ASSUME NEW c \in Clients, Ack(c)
       PROVE  TypeOK'
  <2>1. Snapshot \subseteq Targets
    BY DEF Snapshot
  <2>2. [job[c] EXCEPT !.rest = Snapshot] \in Jobs
    BY <2>1, JobTypes
  <2> QED
    BY <1>10, <2>2 DEF Ack, Points, hist
<1>11. ASSUME NEW c \in Clients, NEW t \in Targets, Notify(c, t)
       PROVE  TypeOK'
  <2>1. t.sid \in SubIds /\ t.ws \in Clients
    BY DEF Targets
  <2>2. job' \in [Clients -> Jobs]
    <3>1. job[c] \in Jobs /\ job[c].rest \ {t} \subseteq Targets
      BY DEF Jobs
    <3>2. [job[c] EXCEPT !.rest = job[c].rest \ {t}] \in Jobs
      BY <3>1, JobTypes
    <3> QED
      BY <1>11, <3>2 DEF Notify
  <2>3. got' \in [Clients -> [SubIds -> SUBSET Events]]
    <3>1. job[c].event \in Events
      BY <1>11, NotifyEffect DEF JobsFit, JobFits, Jobs
    <3>2. ASSUME NEW e \in Events, got' = [got EXCEPT ![t.ws][t.sid] = @ \cup {e}]
          PROVE  got' \in [Clients -> [SubIds -> SUBSET Events]]
      BY <2>1, <3>2
    <3> QED
      BY <1>11, <3>1, <3>2, NotifyGot
  <2>4. subs' \in [SubIds -> Sub \cup {NoSub}]
    BY <1>11, <2>1 DEF Notify
  <2> QED
    BY <1>11, <2>2, <2>3, <2>4 DEF Notify
<1>12. ASSUME NEW c \in Clients, Notified(c)
       PROVE  TypeOK'
  BY <1>12 DEF Notified, Jobs, NoJob, Points, hist
<1>13. ASSUME NEW c \in Clients, SendFails(c)
       PROVE  TypeOK'
  <2>1. at[c] = "acking" => job[c].event # None
    BY DEF JobsFit, JobFits
  <2>2. missed' \subseteq Events
    BY <1>13, <2>1 DEF SendFails, Jobs
  <2> QED
    BY <1>13, <2>2, EndTypes DEF SendFails
<1>14. ASSUME NEW e \in Imports, Import(e)
       PROVE  TypeOK'
  BY <1>14 DEF Import
<1>15. CASE UNCHANGED vars
  BY <1>15 DEF vars, hist
<1> QED
  BY <1>1, <1>2, <1>3, <1>4, <1>5, <1>6, <1>7, <1>8, <1>9, <1>10, <1>11, <1>12,
     <1>13, <1>14, <1>15 DEF Next, Serve

-----------------------------------------------------------------------------
(***************************************************************************)
(* An action of one coroutine leaves the others' place and job alone, so   *)
(* that only its own job has to fit again.                                 *)
(***************************************************************************)
Local(c) == \A d \in Clients \ {c} : at'[d] = at[d] /\ job'[d] = job[d]

LEMMA LocalFits ==
  ASSUME JobsFit, NEW c \in Clients, Local(c), JobFits(c)'
  PROVE  JobsFit'
<1> SUFFICES ASSUME NEW d \in Clients
             PROVE  JobFits(d)'
  BY DEF JobsFit
<1>1. CASE d = c
  BY <1>1
<1>2. CASE d # c
  BY <1>2 DEF Local, JobsFit, JobFits
<1> QED
  BY <1>1, <1>2

LEMMA EndFits ==
  ASSUME TypeOK, NEW c \in Clients, NEW lost, End(c, lost)
  PROVE  Local(c) /\ JobFits(c)'
  BY DEF TypeOK, End, Local, JobFits

LEMMA InitFits == Init => JobsFit
  BY DEF Init, JobsFit, JobFits

LEMMA StepFits == TypeOK /\ JobsFit /\ [Next]_vars => JobsFit'
<1> SUFFICES ASSUME TypeOK, JobsFit, [Next]_vars
             PROVE  JobsFit'
  OBVIOUS
<1> USE HubAssumption
<1>0. at \in [Clients -> Points] /\ job \in [Clients -> Jobs]
  BY DEF TypeOK
<1>1. ASSUME NEW c \in Clients, Connect(c)
      PROVE  JobsFit'
  <2>1. Local(c) /\ JobFits(c)'
    <3>1. CASE Cardinality(admitted) >= MaxConn
      BY <1>0, <1>1, <3>1 DEF Connect, Local, JobsFit, JobFits
    <3>2. CASE ~(Cardinality(admitted) >= MaxConn)
      BY <1>0, <1>1, <3>2 DEF Connect, Local, JobsFit, JobFits
    <3> QED
      BY <3>1, <3>2
  <2> QED
    BY <2>1, LocalFits
<1>2. ASSUME NEW c \in Clients, Vanish(c) \/ Stall(c) \/ Resume(c) \/ Sweep(c)
      PROVE  JobsFit'
  BY <1>2 DEF Vanish, Stall, Resume, Becomes, Sweep, JobsFit, JobFits
<1>3. ASSUME NEW c \in Clients, Hangup(c) \/ Leave(c) \/ SendFails(c)
      PROVE  JobsFit'
  <2>1. PICK lost : End(c, lost)
    BY <1>3 DEF Hangup, Leave, SendFails
  <2> QED
    BY <2>1, EndFits, LocalFits
<1>13. ASSUME NEW c \in Clients, Greet(c)
       PROVE  JobsFit'
  <2>1. Local(c) /\ JobFits(c)'
    BY <1>0, <1>13 DEF Greet, Local, JobsFit, JobFits
  <2> QED
    BY <2>1, LocalFits
<1>4. ASSUME NEW c \in Clients, NEW s \in SubIds, NEW f \in Filters, Req(c, s, f)
      PROVE  JobsFit'
  <2>1. Local(c) /\ JobFits(c)'
    BY <1>0, <1>4 DEF Req, Local, JobFits, NoJob
  <2> QED
    BY <2>1, LocalFits
<1>5. ASSUME NEW c \in Clients, SendStored(c)
      PROVE  JobsFit'
  <2>1. Local(c) /\ JobFits(c)'
    BY <1>0, <1>5 DEF SendStored, Local, JobsFit, JobFits, Jobs
  <2> QED
    BY <2>1, LocalFits
<1>6. ASSUME NEW c \in Clients, SendEose(c) \/ Notified(c)
      PROVE  JobsFit'
  <2>1. Local(c) /\ JobFits(c)'
    BY <1>0, <1>6 DEF SendEose, Notified, Local, JobFits
  <2> QED
    BY <2>1, LocalFits
<1>7. ASSUME NEW c \in Clients, NEW s \in SubIds, Close(c, s)
      PROVE  JobsFit'
  BY <1>7 DEF Close, JobsFit, JobFits
<1>8. ASSUME NEW c \in Clients, NEW e \in Events, Publish(c, e)
      PROVE  JobsFit'
  <2>1. Local(c) /\ JobFits(c)'
    BY <1>0, <1>8 DEF Publish, Local, JobFits, NoJob
  <2> QED
    BY <2>1, LocalFits
<1>9. ASSUME NEW c \in Clients, Ack(c)
      PROVE  JobsFit'
  <2>1. Local(c) /\ JobFits(c)'
    BY <1>0, <1>9 DEF Ack, Local, JobsFit, JobFits, Jobs
  <2> QED
    BY <2>1, LocalFits
<1>10. ASSUME NEW c \in Clients, NEW t \in Targets, Notify(c, t)
       PROVE  JobsFit'
  <2>1. job' = [job EXCEPT ![c].rest = @ \ {t}] /\ at' = at /\ at[c] = "notifying"
    BY <1>10, NotifyEffect
  <2>2. Local(c) /\ JobFits(c)'
    BY <1>0, <2>1 DEF Local, JobsFit, JobFits, Jobs
  <2> QED
    BY <2>2, LocalFits
<1>11. ASSUME NEW e \in Imports, Import(e)
       PROVE  JobsFit'
  BY <1>11 DEF Import, JobsFit, JobFits
<1>12. CASE UNCHANGED vars
  BY <1>12 DEF vars, JobsFit, JobFits
<1> QED
  BY <1>1, <1>2, <1>3, <1>4, <1>5, <1>6, <1>7, <1>8, <1>9, <1>10, <1>11, <1>12, <1>13
  DEF Next, Serve

-----------------------------------------------------------------------------
(***************************************************************************)
(* The subscription table and the rate limiter's slots.  A connection that *)
(* is being greeted has yet to read its first message, so that it leaves   *)
(* no entry behind when its challenge fails.                               *)
(***************************************************************************)
Greeted ==
  \A c \in Clients : at[c] = "greeting" => c \in Challenged /\ \A s \in SubIds : subs[s].ws # c

Tables == NoOrphanSubscription /\ SlotsMatchConnections /\ Greeted

LEMMA InitTables == Init => Tables
  BY HubAssumption DEF Init, Tables, NoOrphanSubscription, SlotsMatchConnections, Greeted, Live,
     Serving, Working, NoSub

\* A step that moves no coroutine in or out of service and only removes entries.
SamePlaces ==
  \A c \in Clients : /\ Live(c)' <=> Live(c)
                     /\ at'[c] = "broken" <=> at[c] = "broken"
                     /\ at'[c] = "greeting" => at[c] = "greeting"

LEMMA RemovingKeepsTables ==
  ASSUME TypeOK, Tables, SamePlaces, admitted' = admitted,
         \A s \in SubIds : subs'[s] \in {subs[s], NoSub}
  PROVE  Tables'
<1>1. NoOrphanSubscription'
  <2> SUFFICES ASSUME NEW s \in SubIds, subs'[s] # NoSub
               PROVE  at'[subs'[s].ws] \in Serving
    BY DEF NoOrphanSubscription, Live
  <2>1. subs'[s] = subs[s] /\ Live(subs[s].ws) /\ subs[s].ws \in Clients
    BY DEF Tables, NoOrphanSubscription, TypeOK, Sub
  <2> QED
    BY <2>1 DEF Live, SamePlaces
<1>2. SlotsMatchConnections'
  BY HubAssumption DEF Tables, SlotsMatchConnections, SamePlaces
<1>3. Greeted'
  <2> SUFFICES ASSUME NEW c \in Clients, at'[c] = "greeting"
               PROVE  c \in Challenged /\ \A s \in SubIds : subs'[s].ws # c
    BY DEF Greeted
  <2>1. c \in Challenged /\ \A s \in SubIds : subs[s].ws # c
    BY DEF Tables, Greeted, SamePlaces
  <2> QED
    BY <2>1, HubAssumption DEF NoSub
<1> QED
  BY <1>1, <1>2, <1>3 DEF Tables

LEMMA EndTables ==
  ASSUME TypeOK, Tables, NEW c \in Clients, NEW lost, Live(c), End(c, lost)
  PROVE  Tables'
<1>1. /\ \A d \in Clients : Live(d)' <=> Live(d) /\ d # c
      /\ \A d \in Clients : at'[d] = "broken" <=> at[d] = "broken"
      /\ \A d \in Clients : at'[d] = "greeting" => at[d] = "greeting" /\ d # c
  BY DEF End, Live, Serving, Working, TypeOK
<1>2. NoOrphanSubscription'
  <2> SUFFICES ASSUME NEW s \in SubIds, subs'[s] # NoSub
               PROVE  at'[subs'[s].ws] \in Serving
    BY DEF NoOrphanSubscription, Live
  <2>1. subs'[s] = subs[s] /\ subs[s].ws # c
    BY DEF End, TypeOK
  <2>2. Live(subs[s].ws) /\ subs[s].ws \in Clients
    BY <2>1 DEF Tables, NoOrphanSubscription, TypeOK, Sub
  <2>3. at'[subs[s].ws] = at[subs[s].ws]
    BY <2>1, <2>2 DEF End, TypeOK
  <2> QED
    BY <2>1, <2>2, <2>3 DEF Live
<1>3. SlotsMatchConnections'
  <2>1. admitted' = admitted \ {c} /\ at[c] # "broken"
    BY DEF End, Live, Serving, Working
  <2> QED
    BY <1>1, <2>1, HubAssumption DEF Tables, SlotsMatchConnections
<1>4. Greeted'
  <2>1. \A s \in SubIds : subs'[s] \in {subs[s], NoSub}
    BY DEF End, TypeOK
  <2> QED
    BY <1>1, <2>1, HubAssumption DEF Tables, Greeted, NoSub
<1> QED
  BY <1>2, <1>3, <1>4 DEF Tables

LEMMA StepTables == TypeOK /\ Tables /\ [Next]_vars => Tables'
<1> SUFFICES ASSUME TypeOK, Tables, [Next]_vars
             PROVE  Tables'
  OBVIOUS
<1>0. at \in [Clients -> Points] /\ subs \in [SubIds -> Sub \cup {NoSub}]
  BY DEF TypeOK
<1>1. ASSUME NEW c \in Clients, Connect(c)
      PROVE  Tables'
  <2>1. CASE Cardinality(admitted) >= MaxConn
    <3>1. SamePlaces
      BY <1>0, <1>1, <2>1 DEF Connect, Live, Serving, Working, SamePlaces
    <3> QED
      BY <1>1, <2>1, <3>1, RemovingKeepsTables DEF Connect
  <2>2. CASE ~(Cardinality(admitted) >= MaxConn)
    <3>1. /\ at' = [at EXCEPT ![c] = IF c \in Challenged THEN "greeting" ELSE "reading"]
          /\ at[c] = "off" /\ subs' = subs /\ admitted' = admitted \cup {c}
      BY <1>1, <2>2 DEF Connect
    <3>2. /\ \A d \in Clients : Live(d)' <=> Live(d) \/ d = c
          /\ \A d \in Clients : at'[d] = "broken" <=> at[d] = "broken"
      BY <1>0, <3>1 DEF Live, Serving, Working
    <3>3. SlotsMatchConnections'
      BY <3>1, <3>2 DEF Tables, SlotsMatchConnections
    <3>4. ASSUME NEW s \in SubIds, subs[s] # NoSub
          PROVE  at'[subs[s].ws] \in Serving /\ subs[s].ws # c
      <4>1. Live(subs[s].ws) /\ subs[s].ws \in Clients
        BY <1>0, <3>4 DEF Tables, NoOrphanSubscription, Sub
      <4> QED
        BY <3>1, <3>2, <4>1 DEF Live, Serving, Working
    <3>5. Greeted'
      <4> SUFFICES ASSUME NEW d \in Clients, at'[d] = "greeting"
                   PROVE  d \in Challenged /\ \A s \in SubIds : subs[s].ws # d
        BY <3>1 DEF Greeted
      <4>1. CASE d = c
        <5>1. \A s \in SubIds : subs[s].ws # c
          BY <3>4, HubAssumption DEF NoSub
        <5> QED
          BY <1>0, <3>1, <4>1, <5>1
      <4>2. CASE d # c
        BY <1>0, <3>1, <4>2 DEF Tables, Greeted
      <4> QED
        BY <4>1, <4>2
    <3> QED
      BY <3>1, <3>3, <3>4, <3>5 DEF Tables, NoOrphanSubscription, Live
  <2> QED
    BY <2>1, <2>2
<1>2. ASSUME NEW c \in Clients, Hangup(c) \/ Leave(c) \/ SendFails(c)
      PROVE  Tables'
  <2>1. PICK lost : Live(c) /\ End(c, lost)
    BY <1>2 DEF Hangup, Leave, Reads, SendFails, Live, Serving, Working
  <2> QED
    BY <2>1, EndTables
<1>9. ASSUME NEW c \in Clients, Greet(c)
      PROVE  Tables'
  <2>1. CASE peer[c] # "gone"
    <3>1. SamePlaces /\ admitted' = admitted /\ subs' = subs
      BY <1>0, <1>9, <2>1 DEF Greet, Live, Serving, Working, SamePlaces
    <3> QED
      BY <3>1, RemovingKeepsTables
  <2>2. CASE peer[c] = "gone"
    <3>1. /\ at' = [at EXCEPT ![c] = "broken"] /\ at[c] = "greeting"
          /\ admitted' = admitted /\ subs' = subs
      BY <1>9, <2>2 DEF Greet
    <3>2. c \in Challenged /\ \A s \in SubIds : subs[s].ws # c
      BY <3>1 DEF Tables, Greeted
    <3>3. /\ \A d \in Clients : Live(d)' <=> Live(d) /\ d # c
          /\ \A d \in Clients : at'[d] = "broken" <=> at[d] = "broken" \/ d = c
          /\ Live(c)
      BY <1>0, <3>1 DEF Live, Serving, Working
    <3>4. SlotsMatchConnections'
      BY <3>1, <3>2, <3>3 DEF Tables, SlotsMatchConnections
    <3>5. ASSUME NEW s \in SubIds, subs[s] # NoSub
          PROVE  at'[subs[s].ws] \in Serving
      <4>1. Live(subs[s].ws) /\ subs[s].ws \in Clients /\ subs[s].ws # c
        BY <1>0, <3>2, <3>5 DEF Tables, NoOrphanSubscription, Sub
      <4> QED
        BY <3>3, <4>1 DEF Live
    <3>6. Greeted'
      BY <1>0, <3>1 DEF Tables, Greeted
    <3> QED
      BY <3>1, <3>4, <3>5, <3>6 DEF Tables, NoOrphanSubscription, Live
  <2> QED
    BY <2>1, <2>2
<1>3. ASSUME NEW c \in Clients, NEW s \in SubIds, NEW f \in Filters, Req(c, s, f)
      PROVE  Tables'
  <2>1. SamePlaces /\ at[c] = "reading" /\ admitted' = admitted
    BY <1>0, <1>3 DEF Req, Reads, Live, Serving, Working, SamePlaces
  <2>2. ASSUME NEW r \in SubIds, subs'[r] # NoSub
        PROVE  at'[subs'[r].ws] \in Serving
    <3>1. CASE r = s
      <4>1. subs'[r].ws = c /\ Live(c)
        BY <1>0, <1>3, <3>1 DEF Req, Reads, Live, Serving
      <4> QED
        BY <2>1, <4>1 DEF Live, SamePlaces
    <3>2. CASE r # s
      <4>1. subs'[r] = subs[r]
        BY <1>0, <1>3, <3>2 DEF Req
      <4>2. Live(subs[r].ws) /\ subs[r].ws \in Clients
        BY <1>0, <2>2, <4>1 DEF Tables, NoOrphanSubscription, Sub
      <4> QED
        BY <2>1, <4>1, <4>2 DEF Live, SamePlaces
    <3> QED
      BY <3>1, <3>2
  <2>3. SlotsMatchConnections'
    BY <2>1, HubAssumption DEF Tables, SlotsMatchConnections, SamePlaces
  <2>4. Greeted'
    <3>1. \A r \in SubIds : subs'[r] = IF r = s THEN [ws |-> c, filter |-> f] ELSE subs[r]
      BY <1>0, <1>3 DEF Req
    <3> QED
      BY <2>1, <3>1 DEF Tables, Greeted, SamePlaces
  <2> QED
    BY <2>2, <2>3, <2>4 DEF Tables, NoOrphanSubscription, Live
<1>4. ASSUME NEW c \in Clients, NEW s \in SubIds, Close(c, s)
      PROVE  Tables'
  BY <1>0, <1>4, RemovingKeepsTables DEF Close, Live, SamePlaces
<1>5. ASSUME NEW c \in Clients, NEW t \in Targets, Notify(c, t)
      PROVE  Tables'
  <2>1. t.sid \in SubIds /\ at' = at /\ admitted' = admitted
    BY <1>5, NotifyEffect DEF Targets
  <2>2. subs' = subs \/ subs' = [subs EXCEPT ![t.sid] = NoSub]
    BY <1>5, NotifyEffect
  <2> QED
    BY <1>0, <2>1, <2>2, RemovingKeepsTables DEF Live, SamePlaces
<1>6. ASSUME NEW c \in Clients,
             SendStored(c) \/ SendEose(c) \/ Ack(c) \/ Notified(c) \/ Sweep(c)
               \/ Vanish(c) \/ Stall(c) \/ Resume(c) \/ \E e \in Events : Publish(c, e)
      PROVE  Tables'
  <2>1. subs' = subs /\ admitted' = admitted
    BY <1>6 DEF SendStored, SendEose, Ack, Notified, Vanish, Stall, Resume, Becomes, Sweep, Publish
  <2>2. SamePlaces
    BY <1>0, <1>6 DEF SendStored, SendEose, Ack, Notified, Vanish, Stall, Resume, Becomes, Sweep,
       Publish, Reads, Live, Serving, Working, SamePlaces
  <2> QED
    BY <2>1, <2>2, RemovingKeepsTables
<1>7. ASSUME NEW e \in Imports, Import(e)
      PROVE  Tables'
  BY <1>7, RemovingKeepsTables DEF Import, Live, SamePlaces
<1>8. CASE UNCHANGED vars
  BY <1>8, RemovingKeepsTables DEF vars, Live, SamePlaces
<1> QED
  BY <1>1, <1>2, <1>3, <1>4, <1>5, <1>6, <1>7, <1>8, <1>9 DEF Next, Serve

-----------------------------------------------------------------------------
(***************************************************************************)
(* Subscriptions.  SubscriptionKept is not inductive by itself: the loop   *)
(* of another coroutine removes entries by their id alone, from a copy of  *)
(* the table made earlier.  One has to know that entries, in the table and *)
(* in every copy, are under ids and filters their clients have used, that  *)
(* only stored events are announced, and that a connection still to be     *)
(* made has opened nothing.                                                *)
(***************************************************************************)
Owners ==
  \A s \in SubIds : subs[s] # NoSub =>
    /\ s \in Chosen(subs[s].ws)
    /\ ~Dead(subs[s].ws) => /\ opened[subs[s].ws][s] = subs[s].filter
                            /\ subs[s].filter \in tried[subs[s].ws][s]

Copies ==
  \A p \in Clients :
    /\ job[p].event # None => job[p].event \in stored
    /\ \A t \in job[p].rest :
         /\ t.sid \in Chosen(t.ws) /\ at[t.ws] # "off"
         /\ ~Dead(t.ws) => t.filter \in tried[t.ws][t.sid]

NothingOpenedYet == \A c \in Clients : at[c] = "off" => \A s \in SubIds : opened[c][s] = None

Kept == Owners /\ Copies /\ NothingOpenedYet /\ SubscriptionKept

LEMMA InitKept == Init => Kept
  BY DEF Init, Kept, Owners, Copies, NothingOpenedYet, SubscriptionKept, NoJob, NoSub

\* What the end of a coroutine leaves.
LEMMA EndEffect ==
  ASSUME TypeOK, NEW c \in Clients, NEW lost, End(c, lost)
  PROVE  /\ \A d \in Clients \ {c} :
              /\ at'[d] = at[d] /\ job'[d] = job[d] /\ got'[d] = got[d]
              /\ asked'[d] = asked[d] /\ opened'[d] = opened[d] /\ tried'[d] = tried[d]
         /\ at'[c] = "ended" /\ job'[c] = NoJob
         /\ \A s \in SubIds :
              subs'[s] = IF subs[s].ws = c \/ s \in lost THEN NoSub ELSE subs[s]
  BY DEF TypeOK, End, Forgotten

\* What most steps do: no connection comes into service or back, a client that
\* is there keeps its history, the copies only shrink, and an entry is only
\* removed from a client that is gone, whose id is contested, or whose match
\* raised.
OnlyLeave ==
  \A c \in Clients :
    /\ at'[c] = "off" <=> at[c] = "off"
    /\ at'[c] = "off" => opened'[c] = opened[c]
    /\ ~Dead(c)' => ~Dead(c) /\ opened'[c] = opened[c] /\ tried'[c] = tried[c]

OnlyShrink ==
  /\ stored \subseteq stored'
  /\ \A p \in Clients : /\ job'[p].rest \subseteq job[p].rest
                        /\ job'[p].event \in {None, job[p].event} \cup stored'

Contested(s, c) == \E d \in Clients \ {c} : s \in Chosen(d)

OnlyRemove ==
  \A s \in SubIds :
    subs'[s] # subs[s] =>
      /\ subs'[s] = NoSub
      /\ \A c \in Clients : subs[s].ws = c =>
           Dead(c)' \/ Contested(s, c) \/ (tried[c][s] \X stored) \cap Clashes # {}

LEMMA RemovingKeeps ==
  ASSUME Kept, TypeOK, OnlyLeave, OnlyShrink, OnlyRemove
  PROVE  Kept'
<1>1. Owners'
  <2> SUFFICES ASSUME NEW s \in SubIds, subs'[s] # NoSub
               PROVE  /\ s \in Chosen(subs[s].ws) /\ subs'[s] = subs[s]
                      /\ ~Dead(subs[s].ws)' => /\ opened'[subs[s].ws][s] = subs[s].filter
                                               /\ subs[s].filter \in tried'[subs[s].ws][s]
    BY DEF Owners, Chosen
  <2>1. subs'[s] = subs[s]
    BY DEF OnlyRemove
  <2>2. subs[s].ws \in Clients
    BY <2>1 DEF TypeOK, Sub
  <2> QED
    BY <2>1, <2>2 DEF Kept, Owners, OnlyLeave
<1>2. Copies'
  <2> SUFFICES ASSUME NEW p \in Clients
               PROVE  /\ job'[p].event # None => job'[p].event \in stored'
                      /\ \A t \in job'[p].rest :
                           /\ t.sid \in Chosen(t.ws) /\ at'[t.ws] # "off"
                           /\ ~Dead(t.ws)' => t.filter \in tried'[t.ws][t.sid]
    BY DEF Copies, Chosen
  <2>1. job'[p].event # None => job'[p].event \in stored'
    BY DEF Kept, Copies, OnlyShrink
  <2>2. ASSUME NEW t \in job'[p].rest
        PROVE  /\ t.sid \in Chosen(t.ws) /\ at'[t.ws] # "off"
               /\ ~Dead(t.ws)' => t.filter \in tried'[t.ws][t.sid]
    <3>1. t \in job[p].rest /\ t.ws \in Clients
      BY DEF OnlyShrink, TypeOK, Jobs, Targets
    <3> QED
      BY <3>1 DEF Kept, Copies, OnlyLeave
  <2> QED
    BY <2>1, <2>2
<1>3. NothingOpenedYet'
  BY DEF Kept, NothingOpenedYet, OnlyLeave
<1>4. SubscriptionKept'
  <2> SUFFICES ASSUME NEW c \in Clients, NEW s \in SubIds, opened'[c][s] # None, ~Dead(c)',
                      \A d \in Clients \ {c} : s \notin Chosen(d),
                      (tried'[c][s] \X stored') \cap Clashes = {}
               PROVE  subs'[s] = [ws |-> c, filter |-> opened'[c][s]]
    BY DEF SubscriptionKept, Chosen
  <2>1. ~Dead(c) /\ opened'[c] = opened[c] /\ tried'[c] = tried[c]
    BY DEF OnlyLeave
  <2>2. (tried[c][s] \X stored) \cap Clashes = {}
    BY <2>1 DEF OnlyShrink
  <2>3. subs[s] = [ws |-> c, filter |-> opened[c][s]]
    BY <2>1, <2>2 DEF Kept, SubscriptionKept
  <2> QED
    BY <2>1, <2>2, <2>3 DEF OnlyRemove, Contested
<1> QED
  BY <1>1, <1>2, <1>3, <1>4 DEF Kept

LEMMA StepKept == TypeOK /\ JobsFit /\ Tables /\ Kept /\ [Next]_vars => Kept'
<1> SUFFICES ASSUME TypeOK, JobsFit, Tables, Kept, [Next]_vars
             PROVE  Kept'
  OBVIOUS
<1> USE HubAssumption
<1>0. /\ at \in [Clients -> Points] /\ subs \in [SubIds -> Sub \cup {NoSub}]
      /\ job \in [Clients -> Jobs] /\ peer \in [Clients -> Peers]
      /\ opened \in [Clients -> [SubIds -> Filters \cup {None}]]
      /\ tried \in [Clients -> [SubIds -> SUBSET Filters]]
  BY DEF TypeOK
<1>1. ASSUME NEW c \in Clients, Connect(c)
      PROVE  Kept'
  <2>1. /\ at'[c] # "off" /\ \A d \in Clients \ {c} : at'[d] = at[d]
    <3>1. CASE Cardinality(admitted) >= MaxConn
      BY <1>0, <1>1, <3>1 DEF Connect
    <3>2. CASE ~(Cardinality(admitted) >= MaxConn)
      BY <1>0, <1>1, <3>2 DEF Connect
    <3> QED
      BY <3>1, <3>2
  <2>2. /\ at[c] = "off" /\ UNCHANGED <<subs, job, peer, opened, tried, stored>>
    BY <1>1 DEF Connect, hist
  <2>3. \A s \in SubIds : opened[c][s] = None
    BY <2>2 DEF Kept, NothingOpenedYet
  <2>4. \A s \in SubIds : subs[s] # NoSub => subs[s].ws \in Clients /\ subs[s].ws # c
    <3> SUFFICES ASSUME NEW s \in SubIds, subs[s] # NoSub
                 PROVE  subs[s].ws \in Clients /\ subs[s].ws # c
      OBVIOUS
    <3>1. subs[s] \in Sub /\ Live(subs[s].ws)
      BY <1>0 DEF Tables, NoOrphanSubscription
    <3> QED
      BY <2>2, <3>1 DEF Sub, Live, Serving, Working
  <2>5. \A d \in Clients \ {c} : Dead(d)' <=> Dead(d)
    BY <2>1, <2>2 DEF Dead, Live
  <2>6. Owners'
    BY <2>2, <2>4, <2>5 DEF Kept, Owners, Chosen
  <2>7. Copies'
    <3>1. \A p \in Clients : \A t \in job[p].rest : t.ws \in Clients /\ t.ws # c
      BY <1>0, <2>2 DEF Kept, Copies, Jobs, Targets
    <3> QED
      BY <2>1, <2>2, <2>5, <3>1 DEF Kept, Copies, Chosen
  <2>8. NothingOpenedYet'
    BY <2>1, <2>2 DEF Kept, NothingOpenedYet
  <2>9. SubscriptionKept'
    BY <2>2, <2>3, <2>5 DEF Kept, SubscriptionKept, Chosen
  <2> QED
    BY <2>6, <2>7, <2>8, <2>9 DEF Kept
<1>2. ASSUME NEW c \in Clients, Hangup(c) \/ Leave(c) \/ SendFails(c)
      PROVE  Kept'
  <2>1. PICK lost \in SUBSET Chosen(c) : End(c, lost)
    BY <1>2 DEF Hangup, Leave, SendFails
  <2>2. peer' = peer /\ stored' = stored /\ at[c] # "off"
    BY <1>2 DEF Hangup, Leave, Reads, SendFails
  <2>3. \A d \in Clients \ {c} :
          /\ at'[d] = at[d] /\ job'[d] = job[d] /\ opened'[d] = opened[d] /\ tried'[d] = tried[d]
    BY <2>1, EndEffect
  <2>4. /\ at'[c] = "ended" /\ job'[c].rest = {} /\ job'[c].event = None
        /\ \A s \in SubIds : subs'[s] = IF subs[s].ws = c \/ s \in lost THEN NoSub ELSE subs[s]
    BY <2>1, EndEffect DEF NoJob
  <2>5. Dead(c)' /\ \A d \in Clients \ {c} : Dead(d)' <=> Dead(d)
    BY <2>2, <2>3, <2>4 DEF Dead, Live, Serving, Working
  <2>6. OnlyLeave /\ OnlyShrink
    BY <2>2, <2>3, <2>4, <2>5 DEF OnlyLeave, OnlyShrink
  <2>7. OnlyRemove
    <3> SUFFICES ASSUME NEW s \in SubIds, subs'[s] # subs[s],
                        NEW d \in Clients, subs[s].ws = d
                 PROVE  subs'[s] = NoSub /\ (Dead(d)' \/ Contested(s, d))
      <4>1. \A s \in SubIds : subs'[s] # subs[s] => subs'[s] = NoSub
        BY <2>4
      <4> QED
        BY <4>1 DEF OnlyRemove
    <3>1. subs'[s] = NoSub /\ (d = c \/ s \in Chosen(c))
      BY <2>1, <2>4
    <3> QED
      BY <2>5, <3>1 DEF Contested
  <2> QED
    BY <2>6, <2>7, RemovingKeeps
<1>3. ASSUME NEW c \in Clients, NEW s \in SubIds, NEW f \in Filters, Req(c, s, f)
      PROVE  Kept'
  <2>1. /\ <<s, f>> \in Uses[c] /\ at[c] = "reading" /\ peer' = peer /\ stored' = stored
        /\ subs' = [subs EXCEPT ![s] = [ws |-> c, filter |-> f]]
        /\ at' = [at EXCEPT ![c] = "querying"]
        /\ opened' = [opened EXCEPT ![c][s] = f]
        /\ tried' = [tried EXCEPT ![c][s] = @ \cup {f}]
    BY <1>3 DEF Req, Reads
  <2>2. s \in Chosen(c)
    BY <2>1 DEF Chosen
  <2>3. \A p \in Clients : job'[p].rest \subseteq job[p].rest /\ job'[p].event \in {None, job[p].event}
    BY <1>0, <1>3 DEF Req, NoJob
  <2>4. \A d \in Clients : (Dead(d)' <=> Dead(d)) /\ (at'[d] = "off" <=> at[d] = "off")
    BY <1>0, <2>1 DEF Dead, Live, Serving, Working
  <2>5. \A d \in Clients, r \in SubIds : tried[d][r] \subseteq tried'[d][r]
    BY <1>0, <2>1
  <2>6. /\ f \in tried'[c][s] /\ opened'[c][s] = f
        /\ \A d \in Clients, r \in SubIds : <<d, r>> # <<c, s>> => opened'[d][r] = opened[d][r]
    BY <1>0, <2>1
  <2>7. /\ subs'[s] = [ws |-> c, filter |-> f]
        /\ \A r \in SubIds \ {s} : subs'[r] = subs[r]
    BY <1>0, <2>1
  <2>8. Owners'
    <3> SUFFICES ASSUME NEW r \in SubIds, NEW d \in Clients, subs'[r] # NoSub, subs'[r].ws = d
                 PROVE  /\ r \in Chosen(d)
                        /\ ~Dead(d)' => /\ opened'[d][r] = subs'[r].filter
                                        /\ subs'[r].filter \in tried'[d][r]
      <4>1. \A r \in SubIds : subs'[r] # NoSub => subs'[r].ws \in Clients
        BY StepTypes DEF TypeOK, Sub
      <4> QED
        BY <4>1 DEF Owners, Chosen
    <3>1. CASE r = s
      BY <2>2, <2>6, <2>7, <3>1
    <3>2. CASE r # s
      <4>1. subs'[r] = subs[r]
        BY <2>7, <3>2
      <4>2. r \in Chosen(d) /\ (~Dead(d) => opened[d][r] = subs[r].filter /\ subs[r].filter \in tried[d][r])
        BY <4>1 DEF Kept, Owners
      <4> QED
        BY <2>4, <2>5, <2>6, <3>2, <4>1, <4>2
    <3> QED
      BY <3>1, <3>2
  <2>9. Copies'
    <3>1. \A p \in Clients : \A t \in job[p].rest : t.ws \in Clients /\ t.sid \in SubIds
      BY <1>0 DEF Jobs, Targets
    <3> QED
      BY <2>1, <2>3, <2>4, <2>5, <3>1 DEF Kept, Copies, Chosen
  <2>10. NothingOpenedYet'
    <3>1. \A d \in Clients : at'[d] = "off" => d # c
      BY <2>1, <2>4
    <3> QED
      BY <2>4, <2>6, <3>1 DEF Kept, NothingOpenedYet
  <2>11. SubscriptionKept'
    <3> SUFFICES ASSUME NEW d \in Clients, NEW r \in SubIds, opened'[d][r] # None, ~Dead(d)',
                        \A b \in Clients \ {d} : r \notin Chosen(b),
                        (tried'[d][r] \X stored') \cap Clashes = {}
                 PROVE  subs'[r] = [ws |-> d, filter |-> opened'[d][r]]
      BY DEF SubscriptionKept, Chosen
    <3>1. CASE r = s
      <4>1. d = c
        BY <2>2, <3>1
      <4> QED
        BY <2>6, <2>7, <3>1, <4>1
    <3>2. CASE r # s
      <4>1. opened'[d][r] = opened[d][r] /\ (tried[d][r] \X stored) \cap Clashes = {}
        BY <2>1, <2>5, <2>6, <3>2
      <4>2. subs[r] = [ws |-> d, filter |-> opened[d][r]]
        BY <2>4, <4>1 DEF Kept, SubscriptionKept
      <4> QED
        BY <2>7, <3>2, <4>1, <4>2
    <3> QED
      BY <3>1, <3>2
  <2> QED
    BY <2>8, <2>9, <2>10, <2>11 DEF Kept
<1>4. ASSUME NEW c \in Clients, NEW s \in SubIds, Close(c, s)
      PROVE  Kept'
  <2>1. /\ s \in Chosen(c) /\ at[c] = "reading" /\ UNCHANGED <<at, peer, job, stored, tried>>
        /\ subs' = [subs EXCEPT ![s] = NoSub]
        /\ opened' = [opened EXCEPT ![c][s] = None]
    BY <1>4 DEF Close, Reads
  <2>2. /\ subs'[s] = NoSub /\ \A r \in SubIds \ {s} : subs'[r] = subs[r]
        /\ \A d \in Clients, r \in SubIds :
             opened'[d][r] = IF d = c /\ r = s THEN None ELSE opened[d][r]
        /\ \A d \in Clients : Dead(d)' <=> Dead(d)
    BY <1>0, <2>1 DEF Dead, Live
  <2>3. Owners'
    <3> SUFFICES ASSUME NEW r \in SubIds, NEW d \in Clients, subs'[r] # NoSub, subs'[r].ws = d
                 PROVE  /\ r \in Chosen(d)
                        /\ ~Dead(d)' => /\ opened'[d][r] = subs'[r].filter
                                        /\ subs'[r].filter \in tried'[d][r]
      <4>1. \A r \in SubIds : subs'[r] # NoSub => subs'[r].ws \in Clients
        BY StepTypes DEF TypeOK, Sub
      <4> QED
        BY <4>1 DEF Owners, Chosen
    <3>1. r # s /\ subs'[r] = subs[r]
      BY <2>2
    <3>2. r \in Chosen(d) /\ (~Dead(d) => opened[d][r] = subs[r].filter /\ subs[r].filter \in tried[d][r])
      BY <3>1 DEF Kept, Owners
    <3> QED
      BY <2>1, <2>2, <3>1, <3>2
  <2>4. Copies' /\ NothingOpenedYet'
    <3>1. \A p \in Clients : \A t \in job[p].rest : t.ws \in Clients
      BY <1>0 DEF Jobs, Targets
    <3> QED
      BY <2>1, <2>2, <3>1 DEF Kept, Copies, NothingOpenedYet, Chosen
  <2>5. SubscriptionKept'
    <3> SUFFICES ASSUME NEW d \in Clients, NEW r \in SubIds, opened'[d][r] # None, ~Dead(d)',
                        \A b \in Clients \ {d} : r \notin Chosen(b),
                        (tried'[d][r] \X stored') \cap Clashes = {}
                 PROVE  subs'[r] = [ws |-> d, filter |-> opened'[d][r]]
      BY DEF SubscriptionKept, Chosen
    <3>1. r # s
      BY <2>1, <2>2
    <3> QED
      BY <2>1, <2>2, <3>1 DEF Kept, SubscriptionKept
  <2> QED
    BY <2>3, <2>4, <2>5 DEF Kept
<1>5. ASSUME NEW c \in Clients, Ack(c)
      PROVE  Kept'
  <2>1. /\ at' = [at EXCEPT ![c] = "notifying"] /\ at[c] = "acking"
        /\ job' = [job EXCEPT ![c].rest = Snapshot]
        /\ UNCHANGED <<peer, subs, stored, opened, tried>>
    BY <1>5 DEF Ack, hist
  <2>2. \A d \in Clients : (Dead(d)' <=> Dead(d)) /\ (at'[d] = "off" <=> at[d] = "off")
    BY <1>0, <2>1 DEF Dead, Live, Serving, Working
  <2>3. ASSUME NEW t \in Snapshot
        PROVE  /\ t.sid \in Chosen(t.ws) /\ at[t.ws] # "off" /\ t.ws \in Clients
               /\ ~Dead(t.ws) => t.filter \in tried[t.ws][t.sid]
    <3>1. t.sid \in SubIds /\ t.ws \in Clients /\ subs[t.sid] = [ws |-> t.ws, filter |-> t.filter]
      BY DEF Snapshot, Targets
    <3>2. subs[t.sid] # NoSub /\ subs[t.sid].ws = t.ws /\ subs[t.sid].filter = t.filter
      BY <3>1 DEF NoSub
    <3>3. Live(t.ws)
      BY <3>1, <3>2 DEF Tables, NoOrphanSubscription
    <3> QED
      BY <3>1, <3>2, <3>3 DEF Kept, Owners, Live, Serving, Working
  <2>4. \A p \in Clients : /\ job'[p].rest = IF p = c THEN Snapshot ELSE job[p].rest
                           /\ job'[p].event = job[p].event
    BY <1>0, <2>1 DEF Jobs
  <2>5. Copies'
    <3> SUFFICES ASSUME NEW p \in Clients
                 PROVE  /\ job'[p].event # None => job'[p].event \in stored'
                        /\ \A t \in job'[p].rest :
                             /\ t.sid \in Chosen(t.ws) /\ at'[t.ws] # "off"
                             /\ ~Dead(t.ws)' => t.filter \in tried'[t.ws][t.sid]
      BY DEF Copies, Chosen
    <3>1. \A t \in job[p].rest : t.ws \in Clients
      BY <1>0 DEF Jobs, Targets
    <3>2. job'[p].event # None => job'[p].event \in stored'
      BY <2>1, <2>4 DEF Kept, Copies
    <3>3. CASE p = c
      BY <2>1, <2>2, <2>3, <2>4, <3>2, <3>3
    <3>4. CASE p # c
      BY <2>1, <2>2, <2>4, <3>1, <3>2, <3>4 DEF Kept, Copies
    <3> QED
      BY <3>3, <3>4
  <2>6. Owners'
    <3>1. \A s \in SubIds : subs[s] # NoSub => subs[s].ws \in Clients
      BY <1>0 DEF Sub
    <3> QED
      BY <2>1, <2>2, <3>1 DEF Kept, Owners, Chosen
  <2>7. NothingOpenedYet' /\ SubscriptionKept'
    BY <2>1, <2>2 DEF Kept, NothingOpenedYet, SubscriptionKept, Chosen
  <2> QED
    BY <2>5, <2>6, <2>7 DEF Kept
<1>6. ASSUME NEW c \in Clients, NEW t \in Targets, Notify(c, t)
      PROVE  Kept'
  <2>1. /\ t.sid \in SubIds /\ t.ws \in Clients /\ t \in job[c].rest /\ at[c] = "notifying"
        /\ UNCHANGED <<at, peer, stored, opened, tried>>
        /\ job' = [job EXCEPT ![c].rest = @ \ {t}]
        /\ subs' = subs \/ (subs' = [subs EXCEPT ![t.sid] = NoSub] /\ Fails(c, t))
    BY <1>6, NotifyEffect DEF Targets
  <2>2. /\ t.sid \in Chosen(t.ws) /\ (~Dead(t.ws) => t.filter \in tried[t.ws][t.sid])
        /\ job[c].event \in stored
    BY <2>1 DEF Kept, Copies, JobsFit, JobFits
  <2>3. \A d \in Clients : Dead(d)' <=> Dead(d)
    BY <2>1 DEF Dead, Live
  <2>4. OnlyLeave
    BY <2>1, <2>3 DEF OnlyLeave
  <2>5. OnlyShrink
    BY <1>0, <2>1 DEF OnlyShrink, Jobs
  <2>6. OnlyRemove
    <3> SUFFICES ASSUME subs' = [subs EXCEPT ![t.sid] = NoSub], Fails(c, t),
                        NEW d \in Clients, ~Dead(d), ~Contested(t.sid, d)
                 PROVE  (tried[d][t.sid] \X stored) \cap Clashes # {}
      BY <1>0, <2>1, <2>3 DEF OnlyRemove
    <3>1. d = t.ws
      BY <2>1, <2>2 DEF Contested
    <3>2. <<t.filter, job[c].event>> \in Clashes
      BY <3>1 DEF Fails, Clash
    <3> QED
      BY <2>2, <3>1, <3>2
  <2> QED
    BY <2>4, <2>5, <2>6, RemovingKeeps
<1>7. ASSUME NEW c \in Clients, Vanish(c) \/ Stall(c) \/ Resume(c)
      PROVE  Kept'
  <2>1. /\ at[c] # "off" /\ peer[c] # "gone" /\ UNCHANGED <<at, subs, stored, job>>
        /\ \A d \in Clients \ {c} : peer'[d] = peer[d] /\ opened'[d] = opened[d] /\ tried'[d] = tried[d]
        /\ peer'[c] = "gone" \/ (opened' = opened /\ tried' = tried)
    BY <1>0, <1>7 DEF Vanish, Stall, Resume, Becomes, Forgotten, Live, Serving, Working, hist
  <2>2. OnlyLeave
    BY <2>1 DEF OnlyLeave, Dead, Live
  <2>3. OnlyShrink /\ OnlyRemove
    BY <2>1 DEF OnlyShrink, OnlyRemove
  <2> QED
    BY <2>2, <2>3, RemovingKeeps
<1>8. ASSUME NEW c \in Clients,
             Greet(c) \/ Sweep(c) \/ SendStored(c) \/ SendEose(c) \/ Notified(c)
               \/ \E e \in Events : Publish(c, e)
      PROVE  Kept'
  <2>1. UNCHANGED <<peer, subs, opened, tried>> /\ stored \subseteq stored'
    BY <1>8 DEF Greet, Sweep, SendStored, SendEose, Notified, Publish, hist
  <2>2. \A d \in Clients : (at'[d] = "off" <=> at[d] = "off") /\ (Live(d)' => Live(d))
    BY <1>0, <1>8 DEF Greet, Sweep, SendStored, SendEose, Notified, Publish, Reads, Live, Serving,
       Working
  <2>3. OnlyLeave
    BY <2>1, <2>2 DEF OnlyLeave, Dead
  <2>4. OnlyShrink
    <3>1. CASE Greet(c) \/ Sweep(c)
      BY <3>1 DEF Greet, Sweep, OnlyShrink
    <3>2. CASE SendStored(c)
      BY <1>0, <3>2 DEF SendStored, Jobs, OnlyShrink
    <3>3. CASE SendEose(c) \/ Notified(c)
      BY <1>0, <3>3 DEF SendEose, Notified, NoJob, OnlyShrink
    <3>4. CASE \E e \in Events : Publish(c, e)
      BY <1>0, <3>4 DEF Publish, NoJob, OnlyShrink
    <3> QED
      BY <1>8, <3>1, <3>2, <3>3, <3>4
  <2> QED
    BY <2>1, <2>3, <2>4, RemovingKeeps DEF OnlyRemove
<1>9. ASSUME NEW e \in Imports, Import(e)
      PROVE  Kept'
  BY <1>9, RemovingKeeps DEF Import, OnlyLeave, OnlyShrink, OnlyRemove, Dead, Live
<1>10. CASE UNCHANGED vars
  BY <1>10, RemovingKeeps DEF vars, hist, OnlyLeave, OnlyShrink, OnlyRemove, Dead, Live
<1> QED
  BY <1>1, <1>2, <1>3, <1>4, <1>5, <1>6, <1>7, <1>8, <1>9, <1>10 DEF Next, Serve

-----------------------------------------------------------------------------
(***************************************************************************)
(* Delivery.  NoGap says nothing of a subscription whose stored events are *)
(* being sent; the invariant does: what was not sent yet is still to do.   *)
(***************************************************************************)
AnnouncedBy(p, c, s, e) ==
  /\ job[p].event = e
  /\ \/ at[p] = "acking"
     \/ \E t \in job[p].rest : t.sid = s /\ t.ws = c /\ t.filter = subs[s].filter

Answered(c, s, e) ==
  e \in asked[c][s] \cap Finds[opened[c][s]] =>
    e \in got[c][s] \/ Skips(c, e) \/ Crowded(c, s) \/ (job[c].sid = s /\ e \in job[c].todo)

Announced(c, s, e) ==
  e \in ((stored \ asked[c][s]) \cap Suits[opened[c][s]]) \ missed =>
    e \in got[c][s] \/ \E p \in Clients : AnnouncedBy(p, c, s, e)

Open(c, s) == opened[c][s] # None /\ ~Dead(c) /\ subs[s].ws = c

Complete ==
  \A c \in Clients, s \in SubIds : Open(c, s) =>
    \A e \in Events : Answered(c, s, e) /\ Announced(c, s, e)

LEMMA InitComplete == Init => Complete
  BY DEF Init, Complete, Open

LEMMA CompleteHasNoGap == TypeOK /\ Complete => NoGap
<1> SUFFICES ASSUME TypeOK, Complete, NEW c \in Clients, NEW s \in SubIds,
                    Open(c, s), job[c].sid # s
             PROVE  /\ \A e \in asked[c][s] \cap Finds[opened[c][s]] :
                         e \in got[c][s] \/ Skips(c, e) \/ Crowded(c, s)
                    /\ \A e \in ((stored \ asked[c][s]) \cap Suits[opened[c][s]]) \ missed :
                         e \in got[c][s] \/ Announcing(c, s, e)
  BY DEF NoGap, Open
<1>1. stored \subseteq Events /\ asked[c][s] \subseteq Events
  BY DEF TypeOK
<1> QED
  BY <1>1 DEF Complete, Answered, Announced, Announcing, AnnouncedBy

\* A subscription's answer and its announcements stay complete if the step of
\* coroutine p leaves the subscription and its history alone, got only grows,
\* what p had to do is done or still to do, what p announces it goes on with or
\* has brought, and an event newly stored is announced or counted as missed.
LEMMA CompleteStays ==
  ASSUME NEW p \in Clients, NEW c \in Clients, NEW s \in SubIds, NEW e \in Events,
         Answered(c, s, e), Announced(c, s, e), Local(p), subs'[s] = subs[s],
         opened'[c][s] = opened[c][s], asked'[c][s] = asked[c][s],
         got[c][s] \subseteq got'[c][s],
         c = p /\ job[c].sid = s /\ e \in job[c].todo
           => e \in got'[c][s] \/ Skips(c, e) \/ (job'[c].sid = s /\ e \in job'[c].todo),
         AnnouncedBy(p, c, s, e) => e \in got'[c][s] \/ AnnouncedBy(p, c, s, e)' \/ e \in missed',
         e \in stored' \ missed' => e \in stored \ missed \/ AnnouncedBy(p, c, s, e)'
  PROVE  Answered(c, s, e)' /\ Announced(c, s, e)'
<1>1. Answered(c, s, e)'
  <2>1. Crowded(c, s)' <=> Crowded(c, s)
    BY DEF Crowded
  <2>2. CASE job[c].sid = s /\ e \in job[c].todo
    <3>1. CASE c = p
      BY <2>2, <3>1 DEF Answered, Skips
    <3>2. CASE c # p
      BY <2>2, <3>2 DEF Local, Answered
    <3> QED
      BY <3>1, <3>2
  <2>3. CASE ~(job[c].sid = s /\ e \in job[c].todo)
    BY <2>1, <2>3 DEF Answered, Skips
  <2> QED
    BY <2>2, <2>3
<1>2. Announced(c, s, e)'
  <2> SUFFICES ASSUME e \in ((stored' \ asked[c][s]) \cap Suits[opened[c][s]]) \ missed'
               PROVE  e \in got'[c][s] \/ \E q \in Clients : AnnouncedBy(q, c, s, e)'
    BY DEF Announced
  <2>1. CASE AnnouncedBy(p, c, s, e)'
    BY <2>1
  <2>2. CASE e \in got[c][s]
    BY <2>2
  <2>3. CASE \E q \in Clients : AnnouncedBy(q, c, s, e)
    <3>1. PICK q \in Clients : AnnouncedBy(q, c, s, e)
      BY <2>3
    <3>2. CASE q = p
      BY <3>1, <3>2
    <3>3. CASE q # p
      <4>1. AnnouncedBy(q, c, s, e)'
        BY <3>1, <3>3 DEF Local, AnnouncedBy
      <4> QED
        BY <4>1
    <3> QED
      BY <3>2, <3>3
  <2> QED
    BY <2>1, <2>2, <2>3 DEF Announced
<1> QED
  BY <1>1, <1>2

\* A coroutine between requests, or sending stored events, announces nothing.
LEMMA OnlyEventsAnnounced ==
  ASSUME JobsFit, NEW p \in Clients,
         at[p] \in {"off", "greeting", "reading", "querying", "ended", "broken"},
         NEW c, NEW s, NEW e \in Events
  PROVE  ~AnnouncedBy(p, c, s, e)
<1>1. job[p].event = None
  BY DEF JobsFit, JobFits, NoJob
<1> QED
  BY <1>1, HubAssumption DEF AnnouncedBy

\* Between requests nothing is left to do.
LEMMA NothingToDo ==
  ASSUME JobsFit, NEW p \in Clients, at[p] \in {"off", "greeting", "reading", "ended", "broken"},
         NEW s \in SubIds
  PROVE  job[p].sid # s
  BY HubAssumption DEF JobsFit, JobFits, NoJob

\* An answer of as many events as were found is all that was found.
LEMMA FullAnswer ==
  ASSUME TypeOK, NEW f \in Filters, NEW A \in Answers(f),
         ~(Cardinality(Found(f)) > QueryLimit)
  PROVE  A = Found(f)
<1>1. Found(f) \subseteq Events /\ IsFiniteSet(Events) /\ A \subseteq Found(f)
  BY HubAssumption DEF Found, TypeOK, Answers
<1>2. IsFiniteSet(Found(f))
  BY <1>1, FS_Subset
<1>3. Cardinality(A) = Cardinality(Found(f))
  BY DEF Answers
<1> QED
  BY <1>1, <1>2, <1>3, FS_Subset

LEMMA StepComplete == TypeOK /\ JobsFit /\ Kept /\ Complete /\ [Next]_vars => Complete'
<1> SUFFICES ASSUME TypeOK, JobsFit, Kept, Complete, [Next]_vars
             PROVE  Complete'
  OBVIOUS
<1> SUFFICES ASSUME NEW c \in Clients, NEW s \in SubIds, NEW e \in Events, Open(c, s)'
             PROVE  Answered(c, s, e)' /\ Announced(c, s, e)'
  BY DEF Complete
<1> USE HubAssumption
<1>0. /\ at \in [Clients -> Points] /\ subs \in [SubIds -> Sub \cup {NoSub}]
      /\ job \in [Clients -> Jobs] /\ peer \in [Clients -> Peers]
      /\ opened \in [Clients -> [SubIds -> Filters \cup {None}]]
      /\ got \in [Clients -> [SubIds -> SUBSET Events]]
      /\ asked \in [Clients -> [SubIds -> SUBSET Events]]
  BY DEF TypeOK
<1>a. Open(c, s) => Answered(c, s, e) /\ Announced(c, s, e)
  BY DEF Complete
<1>b. opened'[c][s] # None /\ ~Dead(c)' /\ subs'[s].ws = c /\ subs'[s] # NoSub
  BY DEF Open, NoSub
<1>1. ASSUME NEW p \in Clients, Connect(p)
      PROVE  Answered(c, s, e)' /\ Announced(c, s, e)'
  <2>1. /\ at[p] = "off" /\ UNCHANGED <<peer, subs, stored, job, got, asked, opened, missed>>
        /\ \A d \in Clients \ {p} : at'[d] = at[d]
    <3>1. CASE Cardinality(admitted) >= MaxConn
      BY <1>0, <1>1, <3>1 DEF Connect, hist
    <3>2. CASE ~(Cardinality(admitted) >= MaxConn)
      BY <1>0, <1>1, <3>2 DEF Connect, hist
    <3> QED
      BY <3>1, <3>2
  <2>2. c # p
    BY <1>b, <2>1 DEF Kept, NothingOpenedYet
  <2>3. Open(c, s) /\ Local(p) /\ ~AnnouncedBy(p, c, s, e)
    BY <1>b, <2>1, <2>2, OnlyEventsAnnounced DEF Open, Dead, Live, Local
  <2> QED
    BY <1>a, <2>1, <2>2, <2>3, CompleteStays
<1>2. ASSUME NEW p \in Clients, Vanish(p) \/ Stall(p) \/ Resume(p)
      PROVE  Answered(c, s, e)' /\ Announced(c, s, e)'
  <2>1. /\ UNCHANGED <<at, subs, stored, job, missed>>
        /\ peer[p] # "gone" /\ \A d \in Clients \ {p} : peer'[d] = peer[d]
        /\ \A d \in Clients \ {p} : got'[d] = got[d] /\ asked'[d] = asked[d] /\ opened'[d] = opened[d]
        /\ peer'[p] = "gone" \/ (got' = got /\ asked' = asked /\ opened' = opened)
    BY <1>0, <1>2 DEF Vanish, Stall, Resume, Becomes, Forgotten, hist
  <2>2. got'[c] = got[c] /\ asked'[c] = asked[c] /\ opened'[c] = opened[c] /\ peer[c] # "gone"
    BY <1>b, <2>1 DEF Dead
  <2>3. Open(c, s)
    BY <1>b, <2>1, <2>2 DEF Open, Dead, Live
  <2>4. Local(p) /\ (AnnouncedBy(p, c, s, e) => AnnouncedBy(p, c, s, e)')
    BY <2>1 DEF Local, AnnouncedBy
  <2> QED
    BY <1>a, <2>1, <2>2, <2>3, <2>4, CompleteStays
<1>3. ASSUME NEW p \in Clients, Hangup(p) \/ Leave(p) \/ SendFails(p)
      PROVE  Answered(c, s, e)' /\ Announced(c, s, e)'
  <2>1. PICK lost : End(p, lost)
    BY <1>3 DEF Hangup, Leave, SendFails
  <2>2. peer' = peer /\ stored' = stored
    BY <1>3 DEF Hangup, Leave, SendFails
  <2>3. /\ \A d \in Clients \ {p} :
             /\ at'[d] = at[d] /\ job'[d] = job[d] /\ got'[d] = got[d]
             /\ asked'[d] = asked[d] /\ opened'[d] = opened[d]
        /\ at'[p] = "ended"
        /\ subs'[s] = IF subs[s].ws = p \/ s \in lost THEN NoSub ELSE subs[s]
    BY <2>1, EndEffect
  <2>4. c # p /\ subs'[s] = subs[s] /\ Local(p)
    BY <1>b, <2>3 DEF Dead, Live, Serving, Working, Local
  <2>5. Open(c, s)
    BY <1>b, <2>2, <2>3, <2>4 DEF Open, Dead, Live
  <2>6. /\ AnnouncedBy(p, c, s, e) => e \in missed'
        /\ missed \subseteq missed'
    <3>1. CASE at[p] \in {"reading", "querying"}
      BY <1>3, <3>1, OnlyEventsAnnounced DEF Hangup, Leave, SendFails
    <3>2. CASE at[p] = "acking"
      <4>1. missed' = missed \cup {job[p].event}
        BY <1>3, <3>2 DEF Hangup, Leave, Reads, SendFails
      <4> QED
        BY <4>1 DEF AnnouncedBy
    <3> QED
      BY <1>3, <3>1, <3>2 DEF Hangup, Leave, Reads, SendFails
  <2> QED
    BY <1>a, <2>2, <2>3, <2>4, <2>5, <2>6, CompleteStays
<1>4. ASSUME NEW p \in Clients, NEW r \in SubIds, NEW f \in Filters, Req(p, r, f)
      PROVE  Answered(c, s, e)' /\ Announced(c, s, e)'
  <2>1. /\ at[p] = "reading" /\ UNCHANGED <<peer, stored, missed>>
        /\ subs' = [subs EXCEPT ![r] = [ws |-> p, filter |-> f]]
        /\ at' = [at EXCEPT ![p] = "querying"]
        /\ got' = [got EXCEPT ![p][r] = {}]
        /\ asked' = [asked EXCEPT ![p][r] = stored]
        /\ opened' = [opened EXCEPT ![p][r] = f]
    BY <1>4 DEF Req, Reads
  <2>2. PICK A \in Answers(f) : job' = [job EXCEPT ![p] = [NoJob EXCEPT !.sid = r, !.todo = A]]
    BY <1>4 DEF Req
  <2>3. CASE s = r
    <3>1. /\ c = p /\ asked'[c][s] = stored /\ opened'[c][s] = f
          /\ job'[c].sid = s /\ job'[c].todo = A
      BY <1>0, <1>b, <2>1, <2>2, <2>3 DEF NoJob
    <3>2. Announced(c, s, e)'
      BY <2>1, <3>1 DEF Announced
    <3>3. Crowded(c, s)' \/ A = Found(f)
      BY <3>1, <2>2, FullAnswer DEF Crowded, Found
    <3>4. Answered(c, s, e)'
      BY <3>1, <3>3 DEF Answered, Found
    <3> QED
      BY <3>2, <3>4
  <2>4. CASE s # r
    <3>1. /\ subs'[s] = subs[s] /\ got'[c][s] = got[c][s] /\ Local(p)
          /\ asked'[c][s] = asked[c][s] /\ opened'[c][s] = opened[c][s]
      BY <1>0, <2>1, <2>2, <2>4 DEF Local
    <3>2. Live(c)' => Live(c)
      BY <1>0, <2>1 DEF Live, Serving, Working
    <3>3. Open(c, s)
      BY <1>b, <2>1, <3>1, <3>2 DEF Open, Dead
    <3>4. job[p].sid # s /\ ~AnnouncedBy(p, c, s, e)
      BY <2>1, OnlyEventsAnnounced, NothingToDo
    <3> QED
      BY <1>a, <2>1, <3>1, <3>3, <3>4, CompleteStays
  <2> QED
    BY <2>3, <2>4
<1>5. ASSUME NEW p \in Clients, SendStored(p)
      PROVE  Answered(c, s, e)' /\ Announced(c, s, e)'
  <2>1. PICK d \in job[p].todo :
          /\ (Skips(p, d) /\ got' = got) \/ got' = [got EXCEPT ![p][job[p].sid] = @ \cup {d}]
          /\ job' = [job EXCEPT ![p].todo = @ \ {d}]
    BY <1>5 DEF SendStored
  <2>2. at[p] = "querying" /\ UNCHANGED <<at, peer, subs, stored, asked, opened, missed>>
    BY <1>5 DEF SendStored
  <2>3. job[p].sid \in SubIds
    BY <1>0, <2>2 DEF JobsFit, JobFits, Jobs
  <2>4. Local(p) /\ job'[p].sid = job[p].sid /\ job'[p].todo = job[p].todo \ {d}
    BY <1>0, <2>1, <2>2 DEF Local, Jobs
  <2>5. /\ got[c][s] \subseteq got'[c][s]
        /\ c = p /\ job[c].sid = s => d \in got'[c][s] \/ Skips(c, d)
    BY <1>0, <2>1, <2>3
  <2>6. Open(c, s) /\ ~AnnouncedBy(p, c, s, e)
    BY <1>b, <2>2, OnlyEventsAnnounced DEF Open, Dead, Live
  <2> QED
    BY <1>a, <2>2, <2>4, <2>5, <2>6, CompleteStays
<1>6. ASSUME NEW p \in Clients, SendEose(p) \/ Notified(p)
      PROVE  Answered(c, s, e)' /\ Announced(c, s, e)'
  <2>1. /\ \/ at[p] = "querying" /\ job[p].todo = {}
           \/ at[p] = "notifying" /\ job[p].rest = {}
        /\ at' = [at EXCEPT ![p] = "reading"] /\ job' = [job EXCEPT ![p] = NoJob]
        /\ UNCHANGED <<peer, subs, stored, got, asked, opened, missed>>
    BY <1>6 DEF SendEose, Notified, hist
  <2>2. Local(p) /\ (Live(c)' => Live(c))
    BY <1>0, <2>1 DEF Local, Live, Serving, Working
  <2>3. Open(c, s) /\ ~AnnouncedBy(p, c, s, e)
    BY <1>b, <2>1, <2>2, OnlyEventsAnnounced DEF Open, Dead, AnnouncedBy
  <2>4. ~(job[p].sid = s /\ e \in job[p].todo)
    BY <2>1 DEF JobsFit, JobFits
  <2> QED
    BY <1>a, <2>1, <2>2, <2>3, <2>4, CompleteStays
<1>7. ASSUME NEW p \in Clients, NEW r \in SubIds, Close(p, r)
      PROVE  Answered(c, s, e)' /\ Announced(c, s, e)'
  <2>1. /\ subs' = [subs EXCEPT ![r] = NoSub]
        /\ opened' = [opened EXCEPT ![p][r] = None]
        /\ UNCHANGED <<at, peer, stored, job, got, asked, missed>>
    BY <1>7 DEF Close
  <2>2. subs'[s] = subs[s] /\ opened'[c][s] = opened[c][s]
    BY <1>0, <1>b, <2>1
  <2>3. Open(c, s) /\ Local(p) /\ (AnnouncedBy(p, c, s, e) => AnnouncedBy(p, c, s, e)')
    BY <1>b, <2>1, <2>2 DEF Open, Dead, Live, Local, AnnouncedBy
  <2> QED
    BY <1>a, <2>1, <2>2, <2>3, CompleteStays
<1>8. ASSUME NEW p \in Clients, NEW d \in Events, Publish(p, d)
      PROVE  Answered(c, s, e)' /\ Announced(c, s, e)'
  <2>1. /\ at[p] = "reading" /\ stored' = stored \cup {d}
        /\ at' = [at EXCEPT ![p] = "acking"]
        /\ job' = [job EXCEPT ![p] = [NoJob EXCEPT !.event = d]]
        /\ UNCHANGED <<peer, subs, got, asked, opened, missed>>
    BY <1>8 DEF Publish, Reads, hist
  <2>2. e = d => AnnouncedBy(p, c, s, e)'
    BY <1>0, <2>1 DEF AnnouncedBy, NoJob
  <2>3. Local(p) /\ (Live(c)' => Live(c))
    BY <1>0, <2>1 DEF Local, Live, Serving, Working
  <2>4. Open(c, s)
    BY <1>b, <2>1, <2>3 DEF Open, Dead
  <2>5. job[p].sid # s /\ ~AnnouncedBy(p, c, s, e)
    BY <2>1, OnlyEventsAnnounced, NothingToDo
  <2> QED
    BY <1>a, <2>1, <2>2, <2>3, <2>4, <2>5, CompleteStays
<1>9. ASSUME NEW p \in Clients, Ack(p)
      PROVE  Answered(c, s, e)' /\ Announced(c, s, e)'
  <2>1. /\ at[p] = "acking" /\ at' = [at EXCEPT ![p] = "notifying"]
        /\ job' = [job EXCEPT ![p].rest = Snapshot]
        /\ UNCHANGED <<peer, subs, stored, got, asked, opened, missed>>
    BY <1>9 DEF Ack, hist
  <2>2. /\ Local(p) /\ (Live(c)' => Live(c))
        /\ job'[p].rest = Snapshot /\ job'[p].event = job[p].event
        /\ job'[p].sid = job[p].sid /\ job'[p].todo = job[p].todo
    BY <1>0, <2>1 DEF Local, Live, Serving, Working, Jobs
  <2>3. Open(c, s)
    BY <1>b, <2>1, <2>2 DEF Open, Dead
  <2>4. AnnouncedBy(p, c, s, e) => AnnouncedBy(p, c, s, e)'
    <3> DEFINE t == [sid |-> s, ws |-> c, filter |-> subs[s].filter]
    <3>1. subs[s] \in Sub /\ subs[s] = [ws |-> c, filter |-> subs[s].filter]
      BY <1>0, <1>b, <2>1 DEF Sub
    <3>2. t \in Snapshot
      BY <3>1 DEF Snapshot, Targets, Sub
    <3> QED
      BY <2>1, <2>2, <3>2 DEF AnnouncedBy
  <2> QED
    BY <1>a, <2>1, <2>2, <2>3, <2>4, CompleteStays
<1>10. ASSUME NEW p \in Clients, NEW t \in Targets, Notify(p, t)
       PROVE  Answered(c, s, e)' /\ Announced(c, s, e)'
  <2>1. /\ at[p] = "notifying" /\ job' = [job EXCEPT ![p].rest = @ \ {t}]
        /\ UNCHANGED <<at, peer, stored, asked, opened, missed>>
        /\ subs' = subs \/ subs' = [subs EXCEPT ![t.sid] = NoSub]
        /\ t.sid \in SubIds /\ t.ws \in Clients
    BY <1>10, NotifyEffect DEF Targets
  <2>2. subs'[s] = subs[s]
    BY <1>0, <1>b, <2>1
  <2>3. /\ Local(p) /\ job'[p].rest = job[p].rest \ {t} /\ job'[p].event = job[p].event
        /\ job'[p].sid = job[p].sid /\ job'[p].todo = job[p].todo
    BY <1>0, <2>1 DEF Local, Jobs
  <2>4. got[c][s] \subseteq got'[c][s]
    <3>2. CASE got' = got
      BY <3>2
    <3>3. CASE got' = [got EXCEPT ![t.ws][t.sid] = @ \cup {job[p].event}]
      BY <1>0, <2>1, <3>3
    <3> QED
      BY <1>10, <3>2, <3>3, NotifyGot
  <2>5. Open(c, s)
    BY <1>b, <2>1, <2>2 DEF Open, Dead, Live
  <2>6. CASE e \in Suits[opened[c][s]]
    <3>1. AnnouncedBy(p, c, s, e) => e \in got'[c][s] \/ AnnouncedBy(p, c, s, e)'
      <4> SUFFICES ASSUME AnnouncedBy(p, c, s, e)
                   PROVE  e \in got'[c][s] \/ AnnouncedBy(p, c, s, e)'
        OBVIOUS
      <4>1. PICK u \in job[p].rest : u.sid = s /\ u.ws = c /\ u.filter = subs[s].filter
        BY <2>1 DEF AnnouncedBy
      <4>2. job[p].event = e
        BY DEF AnnouncedBy
      <4>3. CASE u = t
        <5>1. subs[s].filter = opened[c][s]
          BY <1>b, <2>2, <2>5 DEF Kept, Owners, Open
        <5>2. Hit(p, t) \/ Clash(p, t)
          BY <2>6, <4>1, <4>2, <4>3, <5>1 DEF Hit
        <5>3. ~Fails(p, t) \/ subs' = subs
          <6>1. subs' # [subs EXCEPT ![t.sid] = NoSub]
            BY <1>0, <1>b, <4>1, <4>3
          <6> QED
            BY <1>10, <6>1, NotifyEffect
        <5>4. Sends(p, t) /\ Deliver(p, t)
          <6>1. subs' # [subs EXCEPT ![t.sid] = NoSub]
            BY <1>0, <1>b, <4>1, <4>3
          <6> QED
            BY <1>10, <5>2, <6>1, NotifyEffect
        <5>5. got' = [got EXCEPT ![c][s] = @ \cup {e}]
          BY <4>1, <4>2, <4>3, <5>4 DEF Deliver
        <5> QED
          BY <1>0, <5>5
      <4>4. CASE u # t
        BY <2>1, <2>2, <2>3, <4>1, <4>2, <4>4 DEF AnnouncedBy
      <4> QED
        BY <4>3, <4>4
    <3> QED
      BY <1>a, <2>1, <2>2, <2>3, <2>4, <2>5, <3>1, CompleteStays
  <2>7. CASE e \notin Suits[opened[c][s]]
    <3>1. Announced(c, s, e)'
      BY <2>1, <2>7 DEF Announced
    <3>2. job'[c].sid = job[c].sid /\ job'[c].todo = job[c].todo
      BY <2>3 DEF Local
    <3>3. Answered(c, s, e)'
      BY <1>a, <2>1, <2>4, <2>5, <3>2 DEF Answered, Crowded, Skips
    <3> QED
      BY <3>1, <3>3
  <2> QED
    BY <2>6, <2>7
<1>11. ASSUME NEW d \in Imports, Import(d)
       PROVE  Answered(c, s, e)' /\ Announced(c, s, e)'
  <2>1. /\ stored' = stored \cup {d} /\ missed' = missed \cup {d}
        /\ UNCHANGED <<at, peer, subs, job, got, asked, opened>>
    BY <1>11 DEF Import
  <2>2. Open(c, s) /\ Local(c) /\ (AnnouncedBy(c, c, s, e) => AnnouncedBy(c, c, s, e)')
    BY <1>b, <2>1 DEF Open, Dead, Live, Local, AnnouncedBy
  <2> QED
    BY <1>a, <2>1, <2>2, CompleteStays
<1>12. ASSUME NEW p \in Clients, Greet(p) \/ Sweep(p)
       PROVE  Answered(c, s, e)' /\ Announced(c, s, e)'
  <2>1. /\ UNCHANGED <<peer, subs, stored, job, got, asked, opened, missed>>
        /\ at' = at \/ (at[p] = "greeting" /\ at'[p] \in {"reading", "broken"}
                         /\ \A d \in Clients \ {p} : at'[d] = at[d])
    BY <1>0, <1>12 DEF Greet, Sweep, hist
  <2>2. Live(c)' => Live(c)
    BY <2>1 DEF Live, Serving, Working
  <2>3. Open(c, s) /\ Local(p)
    BY <1>b, <2>1, <2>2 DEF Open, Dead, Local
  <2>4. AnnouncedBy(p, c, s, e) => AnnouncedBy(p, c, s, e)'
    <3>1. CASE at' = at
      BY <2>1, <3>1 DEF AnnouncedBy
    <3>2. CASE at[p] = "greeting"
      BY <3>2, OnlyEventsAnnounced
    <3> QED
      BY <2>1, <3>1, <3>2
  <2> QED
    BY <1>a, <2>1, <2>3, <2>4, CompleteStays
<1>13. CASE UNCHANGED vars
  <2>1. UNCHANGED <<at, peer, subs, stored, job, got, asked, opened, missed>>
    BY <1>13 DEF vars, hist
  <2>2. Open(c, s) /\ Local(c) /\ (AnnouncedBy(c, c, s, e) => AnnouncedBy(c, c, s, e)')
    BY <1>b, <2>1 DEF Open, Dead, Live, Local, AnnouncedBy
  <2> QED
    BY <1>a, <2>1, <2>2, CompleteStays
<1> QED
  BY <1>1, <1>2, <1>3, <1>4, <1>5, <1>6, <1>7, <1>8, <1>9, <1>10, <1>11, <1>12, <1>13
  DEF Next, Serve

-----------------------------------------------------------------------------
(***************************************************************************)
(* The invariant, and what follows from it.                                *)
(***************************************************************************)
IInv == TypeOK /\ JobsFit /\ Tables /\ Kept /\ Complete

\* IInv holds in every reachable state of the hub, however its coroutines, the session
\* sweep and the imports interleave.
THEOREM Invariance == Spec => []IInv
<1>1. Init => IInv
  BY InitTypes, InitFits, InitTables, InitKept, InitComplete DEF IInv
<1>2. IInv /\ [Next]_vars => IInv'
  BY StepTypes, StepFits, StepTables, StepKept, StepComplete DEF IInv
<1> QED
  BY <1>1, <1>2, PTL DEF Spec

\* The tables of the hub, the jobs of its coroutines and the histories keep their types.
THEOREM TypeCorrect == Spec => []TypeOK
<1>1. IInv => TypeOK
  BY DEF IInv
<1> QED
  BY <1>1, Invariance, PTL

\* However the coroutines interleave, the finally block of handle leaves no entry of
\* its connection in _subscriptions, and none is added for one that has ended.
THEOREM NoOrphans == Spec => []NoOrphanSubscription
<1>1. IInv => NoOrphanSubscription
  BY DEF IInv, Tables
<1> QED
  BY <1>1, Invariance, PTL

\* The slots the rate limiter counts are those of the connections being served and of
\* the ones whose challenge could not be sent, which keep theirs for ever: a refused
\* connection takes none, and every other end gives its slot back.
THEOREM SlotsCorrect == Spec => []SlotsMatchConnections
<1>1. IInv => SlotsMatchConnections
  BY DEF IInv, Tables
<1> QED
  BY <1>1, Invariance, PTL

\* Nobody but its client, and its client's end, takes a subscription under an id of
\* its own out of the table, as long as no stored event clashes with a filter the
\* client used under that id: a notification loop pops by the id alone, also when it
\* was the match that raised.
THEOREM SubscriptionsKept == Spec => []SubscriptionKept
<1>1. IInv => SubscriptionKept
  BY DEF IInv, Kept
<1> QED
  BY <1>1, Invariance, PTL

\* Between the query of the stored events and the announcement of new ones no event
\* is lost to an open subscription, for any number of publishers at any point of
\* their acknowledgements, unless the query found more than it returns.
THEOREM GapFree == Spec => []NoGap
<1>1. IInv => NoGap
  BY CompleteHasNoGap DEF IInv
<1> QED
  BY <1>1, Invariance, PTL
=============================================================================
