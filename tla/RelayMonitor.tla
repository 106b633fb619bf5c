----------------------------- MODULE RelayMonitor -----------------------------
(***************************************************************************)
(* The monitor daemon (relay_monitor.py): once a minute it runs its checks *)
(* one after the other and, if one failed and the last alert is long       *)
(* enough ago, sends a message that names the failed ones.  The first two  *)
(* checks ask the relay, the outcome of the others is their environment's. *)
(* No check raises, so a cycle always ends.                                *)
(*                                                                         *)
(* The message that a check has recovered is never sent: last_errors takes *)
(* the results of the cycle before it is looked at, so that it holds no    *)
(* error when there is none.  It is therefore no variable here.            *)
(***************************************************************************)
EXTENDS Naturals

CONSTANTS
  Wss, Sse,   \* check_wss, check_sse
  Others,     \* check_db, check_memory, check_disk, check_ipfs, check_last_event
  Cooldown    \* ALERT_COOLDOWN in cycles, 5 by default

VARIABLES
  serving,    \* the relay runs
  phase,      \* where the cycle stands
  failed,     \* the checks that failed in it
  age,        \* cycles since last_alert_time, up to the cooldown
  unnamed     \* history: the cycles in a row, of those with Telegram reachable,
              \* in which a check failed and no alert named it

monitor == <<phase, failed, age, unnamed>>

Checks == {Wss, Sse} \cup Others

UpTo(n) == IF n < Cooldown THEN n ELSE Cooldown

MonitorInit ==
  /\ phase = "asleep" /\ failed = {} /\ age = Cooldown
  /\ unnamed = [x \in Checks |-> 0]

-----------------------------------------------------------------------------
CheckWss ==             \* a minute later
  /\ phase = "asleep" /\ phase' = "wss"
  /\ age' = UpTo(age + 1)
  /\ failed' = IF serving THEN {} ELSE {Wss}
  /\ UNCHANGED <<serving, unnamed>>

\* Answered as soon as the relay has accepted the request, whatever it then sends.
CheckSse ==
  /\ phase = "wss" /\ phase' = "sse"
  /\ failed' = IF serving THEN failed ELSE failed \cup {Sse}
  /\ UNCHANGED <<serving, age, unnamed>>

NewlyDue(bad) ==        \* altered: an alert only when something has just begun to fail
  bad # {} /\ age = Cooldown /\ \E x \in bad : unnamed[x] = 0

\* n sleeps take a little more than n intervals.
Due(bad) == bad # {} /\ age = Cooldown

\* What the other checks may find, and whether tg_send gets its message through.
Failures  == SUBSET Others
Reachable == BOOLEAN

(***************************************************************************)
(* The rest of the checks and of monitor_cycle.  The clock of the cooldown *)
(* starts again only when the message was taken.                           *)
(***************************************************************************)
Alert ==
  /\ phase = "sse" /\ phase' = "asleep"
  /\ \E more \in Failures, reachable \in Reachable :
       LET bad  == failed \cup more
           sent == Due(bad) /\ reachable
       IN  /\ failed' = bad
           /\ age' = IF sent THEN 0 ELSE age
           /\ unnamed' = [x \in Checks |-> IF x \in bad /\ reachable /\ ~sent
                                           THEN UpTo(unnamed[x] + 1) ELSE 0]
  /\ UNCHANGED serving

MonitorRestarts ==
  /\ phase' = "asleep" /\ failed' = {} /\ age' = Cooldown
  /\ UNCHANGED <<serving, unnamed>>

MonitorTypeOK ==
  /\ phase \in {"asleep", "wss", "sse"} /\ failed \subseteq Checks
  /\ age \in 0 .. Cooldown /\ unnamed \in [Checks -> 0 .. Cooldown]

(***************************************************************************)
(* A check that goes on failing is named before the cooldown has passed    *)
(* once more, if Telegram can be reached: also if it began to fail right   *)
(* after an alert about another one, if alerts were lost in between, and   *)
(* if the monitor was restarted.                                           *)
(***************************************************************************)
FailureNamed == \A x \in Checks : unnamed[x] < Cooldown
==============================================================================
