---------------------------- MODULE LegacyIntents ----------------------------
(***************************************************************************)
(* The second loop of poll_once (poller.rs): the addresses of old deposit  *)
(* intents, one for each, are watched until a day past their expiry.  The  *)
(* earliest transfer to one settles its intent, in three writes.           *)
(*                                                                         *)
(* Intents are numbered in the order of their creation.  What arrives at   *)
(* an address is a sequence, in the order it landed.                       *)
(***************************************************************************)
EXTENDS Naturals, Sequences, FiniteSets

CONSTANTS
  Intents,      \* the intents there are, numbered
  Amounts,      \* what a transfer may move; 0 is address-poisoning dust
  MaxArrivals,  \* bound: transfers to one address
  MaxDue,       \* MAX_LEGACY_INTENTS_PER_PASS
  MaxLegacyFails\* bound: failures

ASSUME LegacyAssumption ==
  /\ Intents \subseteq Nat \ {0} /\ Amounts \subseteq Nat
  /\ {MaxArrivals, MaxDue, MaxLegacyFails} \subseteq Nat

VARIABLES
  lstatus,      \* deposit_intents.status; invoiced and paying are as created
  closed,       \* payment_window_closed
  evidence,     \* tron_tx_id: which of the arrivals, 0 while there is none
  received,     \* received_usdt, 0 while there is none
  age,          \* "open", "past" its expiry, or "stale": past it by the watch window
  arrivals,     \* the amounts of the transfers that TRON shows, by intent
  lpc,          \* where the pass is
  ldue,         \* the intents it has listed and not dealt with
  hand,         \* the intent in hand, 0 when there is none
  early,        \* history: the intents paid before the pass listed what is due
  spoiled,      \* history: those it could not deal with, or did not list
  legacyFails   \* history: failures so far

intentVars == <<lstatus, closed, evidence, received>>
legacyPassVars == <<lpc, ldue, hand, early, spoiled>>
legacyVars == <<intentVars, age, arrivals, legacyPassVars, legacyFails>>

LegacyTypeOK ==
  /\ lstatus \in [Intents -> {"created", "expired", "confirmed"}]
  /\ closed \subseteq Intents
  /\ evidence \in [Intents -> Nat] /\ received \in [Intents -> Nat]
  /\ age \in [Intents -> {"open", "past", "stale"}]
  /\ \A i \in Intents : Len(arrivals[i]) <= MaxArrivals /\ evidence[i] <= Len(arrivals[i])
  /\ lpc \in {"idle", "match", "evidence", "received", "confirm", "close"}
  /\ ldue \subseteq Intents /\ early \subseteq Intents /\ spoiled \subseteq Intents
  /\ hand \in Intents \cup {0} /\ (hand # 0 <=> lpc \in {"evidence", "received", "confirm"})
  /\ legacyFails \in 0..MaxLegacyFails

LegacyInit ==
  /\ lstatus = [i \in Intents |-> "created"] /\ closed = {}
  /\ evidence = [i \in Intents |-> 0] /\ received = [i \in Intents |-> 0]
  /\ age = [i \in Intents |-> "open"] /\ arrivals = [i \in Intents |-> << >>]
  /\ lpc = "idle" /\ ldue = {} /\ hand = 0 /\ early = {} /\ spoiled = {}
  /\ legacyFails = 0

(***************************************************************************)
(* The chain and the clock                                                 *)
(***************************************************************************)

Arrive(i) ==
  /\ Len(arrivals[i]) < MaxArrivals
  /\ \E a \in Amounts : arrivals' = [arrivals EXCEPT ![i] = Append(@, a)]
  /\ UNCHANGED <<intentVars, age, legacyPassVars, legacyFails>>

GrowOld(i) ==
  /\ age[i] # "stale"
  /\ age' = [age EXCEPT ![i] = IF @ = "open" THEN "past" ELSE "stale"]
  /\ UNCHANGED <<intentVars, arrivals, legacyPassVars, legacyFails>>

(***************************************************************************)
(* poll_once, loop (b)                                                     *)
(***************************************************************************)

Payable == {i \in Intents \ closed : lstatus[i] # "confirmed"}

\* due_intents: oldest first, capped
ListDue ==
  /\ lpc = "idle"
  /\ ldue' = {i \in Payable : Cardinality({j \in Payable : j < i}) < MaxDue}
  /\ early' = {i \in Intents : arrivals[i] # << >>} /\ spoiled' = Payable \ ldue'
  /\ lpc' = "match"
  /\ UNCHANGED <<intentVars, age, arrivals, hand, legacyFails>>

LegacyTrouble ==
  /\ legacyFails < MaxLegacyFails
  /\ legacyFails' = legacyFails + 1

\* An unread list is an empty one.
DueUnread ==
  /\ lpc = "idle"
  /\ LegacyTrouble
  /\ ldue' = {} /\ spoiled' = Payable /\ lpc' = "match"
  /\ UNCHANGED <<intentVars, age, arrivals, hand, early>>

GoOn(i) == ldue' = ldue \ {i} /\ hand' = 0 /\ lpc' = "match"

ReadLegacy(i) ==
  /\ lpc = "match" /\ i \in ldue
  /\ IF arrivals[i] = << >> THEN GoOn(i) ELSE hand' = i /\ lpc' = "evidence" /\ UNCHANGED ldue
  /\ UNCHANGED <<intentVars, age, arrivals, early, spoiled, legacyFails>>

\* set_tron_tx_id, then set_received_usdt; each keeps what is there.  Whatever else
\* arrived meanwhile, the earliest transfer stays the earliest.
StoreEvidence ==
  /\ lpc = "evidence"
  /\ evidence' = [evidence EXCEPT ![hand] = IF @ = 0 THEN 1 ELSE @]
  /\ lpc' = "received"
  /\ UNCHANGED <<lstatus, closed, received, age, arrivals, ldue, hand, early, spoiled, legacyFails>>

Earliest(i) == Head(arrivals[i])

\* The column is checked to be positive.
StoreReceived ==
  /\ lpc = "received" /\ Earliest(hand) > 0
  /\ received' = [received EXCEPT ![hand] = IF @ = 0 THEN Earliest(hand) ELSE @]
  /\ lpc' = "confirm"
  /\ UNCHANGED <<lstatus, closed, evidence, age, arrivals, ldue, hand, early, spoiled, legacyFails>>

NoLegacyWrite == UNCHANGED <<intentVars, age, arrivals, early>>

DustRefused ==
  /\ lpc = "received" /\ Earliest(hand) = 0
  /\ GoOn(hand)
  /\ spoiled' = spoiled \cup {hand}
  /\ NoLegacyWrite /\ UNCHANGED legacyFails

Confirm ==
  /\ lpc = "confirm"
  /\ lstatus' = [lstatus EXCEPT ![hand] = "confirmed"]
  /\ GoOn(hand)
  /\ UNCHANGED <<closed, evidence, received, age, arrivals, early, spoiled, legacyFails>>

\* TRON cannot be read for an intent, or a write of it fails: the pass goes on.
IntentFails ==
  /\ LegacyTrouble
  /\ \E i \in Intents :
       /\ (lpc = "match" /\ i \in ldue) \/ i = hand
       /\ GoOn(i) /\ spoiled' = spoiled \cup {i}
  /\ NoLegacyWrite

\* sweep_expired, and close_stale_watch_windows; either may fail and is only logged.
SweepExpired ==
  /\ lpc = "match" /\ ldue = {}
  /\ \/ lstatus' = [i \in Intents |-> IF lstatus[i] = "created" /\ age[i] # "open" THEN "expired" ELSE lstatus[i]]
        /\ UNCHANGED legacyFails
     \/ LegacyTrouble /\ UNCHANGED lstatus
  /\ lpc' = "close"
  /\ UNCHANGED <<closed, evidence, received, age, arrivals, ldue, hand, early, spoiled>>

CloseAnyDue == \* mutant: the window closes on the clock alone
  /\ lpc \in {"match", "close"}
  /\ closed' = closed \cup {i \in Intents : age[i] = "stale"}
  /\ lpc' = "idle"
  /\ UNCHANGED <<lstatus, evidence, received, age, arrivals, ldue, hand, early, spoiled, legacyFails>>

CloseWindows ==
  /\ lpc = "close"
  /\ closed' = closed \cup {i \in Intents : lstatus[i] = "expired" /\ age[i] = "stale"}
  /\ lpc' = "idle"
  /\ UNCHANGED <<lstatus, evidence, received, age, arrivals, ldue, hand, early, spoiled, legacyFails>>

LegacyCrash ==
  /\ lpc # "idle"
  /\ LegacyTrouble
  /\ lpc' = "idle" /\ ldue' = {} /\ hand' = 0
  /\ UNCHANGED <<intentVars, age, arrivals, early, spoiled>>

LegacyNext ==
  \/ ListDue \/ DueUnread \/ StoreEvidence \/ StoreReceived \/ DustRefused \/ Confirm
  \/ IntentFails \/ SweepExpired \/ CloseWindows \/ LegacyCrash
  \/ \E i \in Intents : Arrive(i) \/ GrowOld(i) \/ ReadLegacy(i)

(***************************************************************************)
(* What it promises                                                        *)
(***************************************************************************)

\* A confirmed intent is worth what its evidence moved, whatever arrived beside it and
\* whichever write was repeated.
LegacyRightly ==
  \A i \in Intents :
    lstatus[i] = "confirmed" =>
      /\ evidence[i] # 0
      /\ received[i] = arrivals[i][evidence[i]] /\ received[i] > 0

\* Nobody looks at the address any more; nothing had arrived when the pass listed it.
LegacyBehind(i) == i \in closed
LegacySettled(i) == lstatus[i] = "confirmed" \/ i \notin early

=============================================================================
