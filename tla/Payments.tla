------------------------------- MODULE Payments -------------------------------
(***************************************************************************)
(* The payment handler (relay/snin_payments.py) with the verifier it       *)
(* awaits (relay/solana_rpc.py).  One coroutine handles each kind-30000    *)
(* event; they share the set of seen transactions, the cache of answers    *)
(* and the address of the endpoint, and suspend while an endpoint is       *)
(* asked.  The module EventHandler has the rest of the handler: there a    *)
(* payment is accepted or refused by choice, here by these rules.          *)
(*                                                                         *)
(* An answer of an endpoint is valid only for a confirmed transaction; it  *)
(* may be invalid at any time (an error, a timeout, an endpoint that lags  *)
(* behind), and it may be such that reading it raises (a null where an     *)
(* object is expected), which ends the coroutine.  Amounts, receivers and  *)
(* accounting play no part: the verifier is never given an amount or a     *)
(* receiver, and the call of the accounting service raises inside a        *)
(* running event loop and is caught.  An operator marked "altered" is not  *)
(* the code's: it is a plausible mistake in the one after it, which a      *)
(* property must notice when it takes its place.                           *)
(***************************************************************************)
EXTENDS Integers, FiniteSets

CONSTANTS
  Payments,   \* the kind-30000 events with all fields, not expired
  Txs,        \* transaction signatures
  Tx,         \* the transaction each payment names
  MaxSeen,    \* MAX_SEEN_TX
  Restarts    \* bound: how often the relay starts again

ASSUME PaymentsAssumption ==
  /\ Tx \in [Payments -> Txs]
  /\ MaxSeen \in Nat /\ Restarts \in Nat

VARIABLES
  at,         \* what the coroutine of each payment awaits
  original,   \* original_url, the local variable of each coroutine
  seen,       \* SEEN_TX_SET
  cache,      \* SOLANA_TX_CACHE, entries younger than an hour
  url,        \* SOLANA_RPC_URL
  confirmed,  \* transactions the chain has confirmed
  restarts,   \* how often the relay was restarted
  accepted,   \* history: payments that were accepted
  raced,      \* history: pairs of payments of one transaction verified at the same time
  forgotten,  \* history: accepted transactions that dropped out of the seen set
  strayed     \* history: two coroutines asked the fallback at the same time, or one that
              \* asked it raised, since the last start

paymentVars ==
  <<at, original, seen, cache, url, confirmed, restarts, accepted, raced, forgotten, strayed>>

Endpoints == {"main", "fallback"}
Points    == {"idle", "first", "second"}
Verdicts  == {"none", "valid", "invalid"}

PaymentInit ==
  /\ at = [e \in Payments |-> "idle"]
  /\ original = [e \in Payments |-> "main"]
  /\ seen = {} /\ cache = [t \in Txs |-> "none"] /\ url = "main"
  /\ confirmed = {} /\ restarts = 0
  /\ accepted = {} /\ raced = {} /\ forgotten = {} /\ strayed = FALSE

Pending     == {e \in Payments : at[e] # "idle"}
FallingBack == {e \in Payments : at[e] = "second"}

-----------------------------------------------------------------------------
(***************************************************************************)
(* The end of handle_snin_payment.  set.pop() takes any element, the one   *)
(* just added included.                                                    *)
(***************************************************************************)
AcceptUnseen(e) ==      \* altered: the transaction is not added
  /\ accepted' = accepted \cup {e}
  /\ UNCHANGED <<seen, forgotten>>

Accept(e) ==
  /\ accepted' = accepted \cup {e}
  /\ LET all == seen \cup {Tx[e]} IN
       IF Cardinality(all) > MaxSeen
       THEN \E t \in all : seen' = all \ {t} /\ forgotten' = forgotten \cup {t}
       ELSE seen' = all /\ UNCHANGED forgotten

Refuse == UNCHANGED <<seen, accepted, forgotten>>

-----------------------------------------------------------------------------
(***************************************************************************)
(* A payment arrives, for the first time or again.  One that is seen or    *)
(* has a fresh answer in the cache is decided at once; for any other the   *)
(* endpoint is asked.                                                      *)
(***************************************************************************)
Seen(e) ==
  /\ at[e] = "idle" /\ Tx[e] \in seen
  /\ Refuse
  /\ UNCHANGED <<at, original, cache, url, confirmed, restarts, raced, strayed>>

Cached(e) ==
  /\ at[e] = "idle" /\ Tx[e] \notin seen
  /\ \/ cache[Tx[e]] = "valid" /\ Accept(e)
     \/ cache[Tx[e]] = "invalid" /\ Refuse
  /\ UNCHANGED <<at, original, cache, url, confirmed, restarts, raced, strayed>>

Ask(e) ==
  /\ at[e] = "idle" /\ Tx[e] \notin seen /\ cache[Tx[e]] = "none"
  /\ at' = [at EXCEPT ![e] = "first"]
  /\ raced' = raced \cup {{e, f} : f \in {f \in Pending : Tx[f] = Tx[e]}}
  /\ UNCHANGED <<original, seen, cache, url, confirmed, restarts, accepted, forgotten, strayed>>

(***************************************************************************)
(* The answer of the endpoint asked first.  If it is not valid the shared  *)
(* address is replaced for as long as the second one is asked.             *)
(***************************************************************************)
FirstValid(e) ==
  /\ at[e] = "first" /\ Tx[e] \in confirmed
  /\ at' = [at EXCEPT ![e] = "idle"]
  /\ cache' = [cache EXCEPT ![Tx[e]] = "valid"]
  /\ Accept(e)
  /\ UNCHANGED <<original, url, confirmed, restarts, raced, strayed>>

FirstInvalidKeepsNew(e) ==  \* altered: the address is put away after it was replaced
  /\ at[e] = "first"
  /\ at' = [at EXCEPT ![e] = "second"]
  /\ original' = [original EXCEPT ![e] = "fallback"]
  /\ url' = "fallback"
  /\ strayed' = (strayed \/ FallingBack # {})
  /\ UNCHANGED <<seen, cache, confirmed, restarts, accepted, raced, forgotten>>

FirstInvalid(e) ==
  /\ at[e] = "first"
  /\ at' = [at EXCEPT ![e] = "second"]
  /\ original' = [original EXCEPT ![e] = url]
  /\ url' = "fallback"
  /\ strayed' = (strayed \/ FallingBack # {})
  /\ UNCHANGED <<seen, cache, confirmed, restarts, accepted, raced, forgotten>>

SecondValid(e) ==
  /\ at[e] = "second" /\ Tx[e] \in confirmed
  /\ at' = [at EXCEPT ![e] = "idle"]
  /\ url' = original[e]
  /\ cache' = [cache EXCEPT ![Tx[e]] = "valid"]
  /\ Accept(e)
  /\ UNCHANGED <<original, confirmed, restarts, raced, strayed>>

SecondInvalid(e) ==
  /\ at[e] = "second"
  /\ at' = [at EXCEPT ![e] = "idle"]
  /\ url' = original[e]
  /\ cache' = [cache EXCEPT ![Tx[e]] = "invalid"]
  /\ Refuse
  /\ UNCHANGED <<original, confirmed, restarts, raced, strayed>>

Raises(e) ==            \* _query_transaction, on the first answer or on the second
  /\ at[e] # "idle"
  /\ at' = [at EXCEPT ![e] = "idle"]
  /\ strayed' = (strayed \/ e \in FallingBack)
  /\ UNCHANGED <<original, seen, cache, url, confirmed, restarts, accepted, raced, forgotten>>

-----------------------------------------------------------------------------
Confirm(t) ==           \* the chain
  /\ t \notin confirmed
  /\ confirmed' = confirmed \cup {t}
  /\ UNCHANGED <<at, original, seen, cache, url, restarts, accepted, raced, forgotten, strayed>>

ExpireValid(t) ==       \* altered: only valid answers grow old
  /\ cache[t] = "valid"
  /\ cache' = [cache EXCEPT ![t] = "none"]
  /\ UNCHANGED <<at, original, seen, url, confirmed, restarts, accepted, raced, forgotten, strayed>>

Expire(t) ==            \* an answer is an hour old
  /\ cache[t] # "none"
  /\ cache' = [cache EXCEPT ![t] = "none"]
  /\ UNCHANGED <<at, original, seen, url, confirmed, restarts, accepted, raced, forgotten, strayed>>

Restart ==              \* everything but the chain is in memory
  /\ restarts < Restarts
  /\ restarts' = restarts + 1
  /\ at' = [e \in Payments |-> "idle"]
  /\ original' = [e \in Payments |-> "main"]
  /\ seen' = {} /\ cache' = [t \in Txs |-> "none"] /\ url' = "main"
  /\ forgotten' = forgotten \cup seen /\ strayed' = FALSE
  /\ UNCHANGED <<confirmed, accepted, raced>>

Arrives(e) == Seen(e) \/ Cached(e) \/ Ask(e)
Answered(e) ==
  FirstValid(e) \/ FirstInvalid(e) \/ SecondValid(e) \/ SecondInvalid(e) \/ Raises(e)

PaymentNext ==
  \/ \E e \in Payments : Arrives(e) \/ Answered(e)
  \/ \E t \in Txs : Confirm(t) \/ Expire(t)
  \/ Restart

PaymentSpec == PaymentInit /\ [][PaymentNext]_paymentVars

(***************************************************************************)
(* An endpoint answers or times out; hours pass; a client that keeps       *)
(* sending a payment is answered truthfully now and then.                  *)
(***************************************************************************)
Fairness ==
  /\ \A e \in Payments : WF_paymentVars(Arrives(e)) /\ WF_paymentVars(Answered(e))
  /\ \A e \in Payments : SF_paymentVars(FirstValid(e) \/ SecondValid(e))
  /\ \A t \in Txs : WF_paymentVars(Expire(t))

FairPaymentSpec == PaymentSpec /\ Fairness

-----------------------------------------------------------------------------
(***************************************************************************)
(* The type invariant.                                                     *)
(***************************************************************************)
PaymentTypeOK ==
  /\ at \in [Payments -> Points]
  /\ original \in [Payments -> Endpoints]
  /\ seen \subseteq Txs /\ Cardinality(seen) <= MaxSeen
  /\ cache \in [Txs -> Verdicts]
  /\ url \in Endpoints
  /\ confirmed \subseteq Txs /\ forgotten \subseteq Txs
  /\ restarts \in 0 .. Restarts
  /\ accepted \subseteq Payments
  /\ raced \subseteq SUBSET Payments
  /\ strayed \in BOOLEAN

(***************************************************************************)
(* handle_snin_payment accepts a payment only of a transaction the chain   *)
(* has confirmed, whichever endpoint said so, when, and whoever asked.     *)
(***************************************************************************)
AcceptedAreConfirmed == \A e \in accepted : Tx[e] \in confirmed

(***************************************************************************)
(* The shared address, exchanged for the time the fallback is asked, is    *)
(* the main endpoint again when nobody asks it: unless two asked at the    *)
(* same time, the later of which has put the fallback away as the address  *)
(* to restore, or one that asked raised.  (It may then stay the fallback   *)
(* until the next start.)                                                  *)
(***************************************************************************)
EndpointRestored == FallingBack = {} /\ url # "main" => strayed

(***************************************************************************)
(* What the seen set does guarantee: two payments by one transaction are   *)
(* both accepted only if they were verified at the same time or the        *)
(* transaction had dropped out of the set, by its bound or by a restart.   *)
(***************************************************************************)
SpentTwiceOnlyInARace ==
  \A e, f \in accepted :
    e # f /\ Tx[e] = Tx[f] => {e, f} \in raced \/ Tx[e] \in forgotten

(***************************************************************************)
(* A transaction that was asked for too early is refused from the cache,   *)
(* but not for ever: once it is confirmed, a payment by it that is sent    *)
(* again and again is accepted.                                            *)
(***************************************************************************)
ConfirmedIsAccepted ==
  \A t \in Txs : (t \in confirmed /\ \E e \in Payments : Tx[e] = t)
                   ~> \E e \in accepted : Tx[e] = t

=============================================================================
