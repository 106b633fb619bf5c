------------------------------- MODULE SseSystem -------------------------------
(***************************************************************************)
(* The SSE endpoint with all that talk to it: the subscriptions of         *)
(* SseClient, the authentications of SseAuth, and the monitor, whose check *)
(* of the endpoint is a subscription it never ends (RelayMonitor).  They   *)
(* share the relay process: when it stops, its sessions and its streams    *)
(* go, and the checks fail.  The endpoint never asks for a session, so     *)
(* streams and authentications do not touch each other otherwise.          *)
(***************************************************************************)
EXTENDS SseClient

CONSTANTS
  Users, Keys, Ttl,
  Wss, Sse, Others, Cooldown,
  Probe,      \* the id the monitor subscribes under, "test"
  Tries,      \* bound: the authentications of each plan
  Watched     \* bound: the plans in which the monitor runs

ASSUME SystemAssumption ==
  /\ Ttl \in Nat /\ None \notin Keys
  /\ Wss # Sse /\ {Wss, Sse} \cap Others = {}
  /\ Cooldown \in Nat \ {0}
  /\ Tries \in [Plans -> Nat] /\ Watched \subseteq Plans

VARIABLES
  sessions, given, key, token, pubkey, stage, attempted, tries,
  phase, failed, age, unnamed,
  probe       \* the connection of the monitor's check, or None

A == INSTANCE SseAuth
M == INSTANCE RelayMonitor

accounts == <<sessions, given, key, token, pubkey, stage, attempted, tries>>
watch    == <<phase, failed, age, unnamed, probe>>
system   == <<vars, accounts, watch>>

SystemInit ==
  /\ Init /\ A!AuthInit /\ M!MonitorInit
  /\ tries = Tries[calls] /\ probe = None

-----------------------------------------------------------------------------
\* A step of the endpoint or of a subscription; a stop takes the sessions.
Stream ==
  /\ Next
  /\ sessions' = IF serving' THEN sessions ELSE <<>>
  /\ UNCHANGED <<given, key, token, pubkey, stage, attempted, tries, watch>>

Authentication ==
  /\ A!AuthNext
  /\ UNCHANGED <<db, stream, queues, line, held, asked>>
  /\ UNCHANGED <<at, sub, loop, conn, eose, read, table, shrunk, calls, watch>>

(***************************************************************************)
(* check_sse: a request, and its connection closed when the check returns. *)
(* Bound: requests for which Conns has no connection left are not          *)
(* followed at the endpoint.                                               *)
(***************************************************************************)
Follow ==
  IF serving /\ \E c \in Conns : At(c, "unused")
  THEN \E c \in Conns :
         /\ \A d \in Conns : d < c => ~At(d, "unused")
         /\ Accept(c, Probe, 0, Limit) /\ probe' = c
  ELSE UNCHANGED <<server, probe>>

Release ==
  /\ probe # None /\ probe' = None
  /\ held' = held \ {probe} /\ line' = [line EXCEPT ![probe] = <<>>]
  /\ asked' = [asked EXCEPT ![probe] = {}]
  /\ UNCHANGED <<db, serving, stream, queues>>

Watch ==
  /\ calls \in Watched /\ UNCHANGED <<client, accounts>>
  /\ \/ M!CheckWss /\ UNCHANGED <<server, probe>>
     \/ M!CheckSse /\ Follow
     \/ Release /\ UNCHANGED <<phase, failed, age, unnamed>>
     \/ M!Alert /\ probe = None /\ UNCHANGED <<server, probe>>
     \/ M!MonitorRestarts /\ probe = None /\ UNCHANGED <<server, probe>>

SystemNext == Stream \/ Authentication \/ Watch

SystemSpec == SystemInit /\ [][SystemNext]_system /\ Fairness

-----------------------------------------------------------------------------
SystemTypeOK     == TypeOK /\ A!AuthTypeOK /\ M!MonitorTypeOK
TokenNamesItsKey == A!TokenNamesItsKey
FailureNamed     == M!FailureNamed
==============================================================================
