--------------------------- MODULE DepositPoller ---------------------------
(***************************************************************************)
(* How payment-orchestrator finds what was paid to the users' permanent    *)
(* deposit addresses: TieredPoller polls a bounded slice of them per pass, *)
(* hot ones first, and credit_from_addresses records every transfer it is  *)
(* handed (poller.rs, addresses.rs).                                       *)
(*                                                                         *)
(* Each address keeps a watermark, the time of its last successful read,   *)
(* and a read asks for what landed since the watermark less an overlap.    *)
(* The watermark is written before the transfers read are recorded.        *)
(*                                                                         *)
(* TRON shows a transfer some time after it landed.  Time is counted in    *)
(* ticks; deposit_intents is the set of transfers recorded, by the unique  *)
(* index on tron_tx_id.  Legacy per-intent addresses are not modelled.     *)
(***************************************************************************)
EXTENDS Integers, FiniteSets

CONSTANTS
  Addresses,    \* the deposit addresses there can be
  Transfers,    \* the USDT transfers there can be to them
  PaidTo,       \* the address each goes to
  Dust,         \* the transfers of nothing
  Budget,       \* MAX_ADDRESSES_PER_PASS
  MaxHot,       \* how many users are about to pay at once
  ReadOverlap,  \* the hour a read goes back behind the watermark
  ListingLag,   \* assumption: TRON shows a transfer this long after it landed
  PassLife,     \* assumption: a pass reads its addresses within this time
  MaxTicks      \* bound: ticks

NotPolled == -1  \* last_polled_at IS NULL

ASSUME SetsAssumption ==
  /\ PaidTo \in [Transfers -> Addresses]
  /\ Dust \subseteq Transfers
ASSUME TimesAssumption ==
  /\ ReadOverlap \in Nat /\ ListingLag \in Nat /\ PassLife \in Nat /\ MaxTicks \in Nat
  /\ ListingLag + PassLife <= ReadOverlap
ASSUME LimitsAssumption ==
  /\ Budget \in Nat \ {0}
  /\ MaxHot \in Nat

VARIABLES
  issued,      \* deposit_addresses: the rows there are
  hot,         \* those whose hot_until has not passed
  ahead,       \* <<a, b>>: a's last_attempt_at is before b's, or NULL and b's is not
  polledAt,    \* last_polled_at
  recorded,    \* deposit_intents: the transfers recorded as deposits
  pc,          \* where the pass is
  due,         \* the addresses of this pass
  todo,        \* those it has still to read
  fetched,     \* those it has read
  found,       \* the transfers read and not yet recorded
  dropped,     \* history: those a read found and that were not recorded then
  began,       \* when the pass began
  clock,       \* the time
  landed,      \* the transfers that landed
  landTime,    \* when
  listed       \* those TRON shows

panelVars == <<issued, hot, ahead, polledAt>>
pollVars == <<pc, due, todo, fetched, found, began, dropped>>
tronVars == <<clock, landed, landTime, listed>>
pollerVars == <<panelVars, recorded, pollVars, tronVars>>

PollerTypeOK ==
  /\ issued \subseteq Addresses
  /\ hot \subseteq issued
  /\ ahead \subseteq Addresses \X Addresses
  /\ polledAt \in [Addresses -> Nat \cup {NotPolled}]
  /\ recorded \subseteq landed
  /\ pc \in {"idle", "fetch", "watermark", "credit"}
  /\ due \subseteq issued
  /\ todo \subseteq due
  /\ fetched \subseteq due \ todo
  /\ found \subseteq listed
  /\ dropped \subseteq listed
  /\ began \in Nat
  /\ clock \in Nat
  /\ landed \subseteq Transfers
  /\ landTime \in [Transfers -> Nat]
  /\ listed \subseteq landed

PollerInit ==
  /\ issued = {} /\ hot = {}
  /\ ahead = {}
  /\ polledAt = [a \in Addresses |-> NotPolled]
  /\ recorded = {}
  /\ pc = "idle" /\ due = {} /\ todo = {} /\ fetched = {} /\ found = {} /\ began = 0
  /\ dropped = {}
  /\ clock = 0
  /\ landed = {} /\ landTime = [t \in Transfers |-> 0] /\ listed = {}

-----------------------------------------------------------------------------
(* The user opens the deposit panel.                                       *)

\* Mutant of OpenPanel: the row that mark_hot updates is not stored yet.
OpenPanelUnstored(a) ==
  /\ a \notin hot
  /\ Cardinality(hot) < MaxHot
  /\ hot' = hot \cup {a}
  /\ UNCHANGED <<issued, ahead, polledAt, recorded, pollVars, tronVars>>

\* address_for_user stores a new row, and mark_hot puts it on the fast tier.
OpenPanel(a) ==
  /\ a \notin hot
  /\ Cardinality(hot) < MaxHot
  /\ issued' = issued \cup {a}
  /\ hot' = hot \cup {a}
  /\ UNCHANGED <<ahead, polledAt, recorded, pollVars, tronVars>>

\* mark_hot errors: the address is left to the cold rotation.
IssueOnly(a) ==
  /\ a \notin issued
  /\ issued' = issued \cup {a}
  /\ UNCHANGED <<hot, ahead, polledAt, recorded, pollVars, tronVars>>

\* hot_until passes.
Cool(a) ==
  /\ a \in hot
  /\ hot' = hot \ {a}
  /\ UNCHANGED <<issued, ahead, polledAt, recorded, pollVars, tronVars>>

-----------------------------------------------------------------------------
(* TieredPoller::poll.                                                     *)

\* Mutant of PolledBefore: hot addresses only, then in no order.
PolledBeforeHotOnly(b, a) == b \in hot /\ a \notin hot

\* due_addresses' ORDER BY: b comes strictly before a.
PolledBefore(b, a) ==
  \/ b \in hot /\ a \notin hot
  \/ (b \in hot <=> a \in hot) /\ <<b, a>> \in ahead

\* The first Budget addresses in that order, ties as the database likes.
DueSets ==
  {D \in SUBSET issued :
     /\ Cardinality(D) = IF Cardinality(issued) < Budget THEN Cardinality(issued) ELSE Budget
     /\ \A a \in D, b \in issued \ D : ~PolledBefore(b, a)}

\* Before the watermarks are written.
Reading == pc \in {"fetch", "watermark"}

SelectDue ==
  /\ pc = "idle"
  /\ \E D \in DueSets : due' = D /\ todo' = D
  /\ fetched' = {} /\ found' = {}
  /\ began' = clock
  /\ pc' = "fetch"
  /\ UNCHANGED <<panelVars, recorded, dropped, tronVars>>

\* transfers_to(a, since): everything while nothing was ever read.
Reads(a, t) ==
  /\ PaidTo[t] = a /\ t \in listed
  /\ polledAt[a] # NotPolled => landTime[t] >= polledAt[a] - ReadOverlap

Fetch(a) ==
  /\ pc = "fetch" /\ a \in todo
  /\ found' = found \cup {t \in Transfers : Reads(a, t)}
  /\ fetched' = fetched \cup {a}
  /\ todo' = todo \ {a}
  /\ UNCHANGED <<panelVars, recorded, pc, due, began, dropped, tronVars>>

\* Mutant of FetchFails: the watermark of an address that could not be read is
\* stamped with the others.
FetchFailsStamped(a) ==
  /\ pc = "fetch" /\ a \in todo
  /\ fetched' = fetched \cup {a}
  /\ todo' = todo \ {a}
  /\ UNCHANGED <<panelVars, recorded, pc, due, found, began, dropped, tronVars>>

\* TronGrid fails for one address; the pass goes on.
FetchFails(a) ==
  /\ pc = "fetch" /\ a \in todo
  /\ todo' = todo \ {a}
  /\ UNCHANGED <<panelVars, recorded, pc, due, fetched, found, began, dropped, tronVars>>

\* last_attempt_at of every due address, read or not.
StampAttempts ==
  /\ pc = "fetch" /\ todo = {}
  /\ ahead' = {p \in ahead : p[1] \notin due /\ p[2] \notin due} \cup (Addresses \ due) \X due
  /\ pc' = "watermark"
  /\ UNCHANGED <<issued, hot, polledAt, recorded, due, todo, fetched, found, began, dropped, tronVars>>

\* last_polled_at of those read.
StampWatermarks ==
  /\ pc = "watermark"
  /\ polledAt' = [a \in Addresses |-> IF a \in fetched THEN clock ELSE polledAt[a]]
  /\ fetched' = {}
  /\ pc' = "credit"
  /\ UNCHANGED <<issued, hot, ahead, recorded, due, todo, found, began, dropped, tronVars>>

EndPass ==
  /\ pc' = "idle" /\ due' = {} /\ todo' = {} /\ fetched' = {} /\ found' = {} /\ began' = 0

\* A select or a stamp errors, or the service stops: what was read is dropped,
\* the watermarks are where they were.
PassAborts ==
  /\ Reading
  /\ EndPass
  /\ UNCHANGED <<panelVars, recorded, dropped, tronVars>>

-----------------------------------------------------------------------------
(* credit_from_addresses.                                                  *)

\* credit_transfer: once, and nothing for a transfer of nothing.
Credit(t) ==
  /\ pc = "credit" /\ t \in found
  /\ recorded' = IF t \in Dust THEN recorded ELSE recorded \cup {t}
  /\ found' = found \ {t}
  /\ UNCHANGED <<panelVars, pc, due, todo, fetched, began, dropped, tronVars>>

\* The owner's lookup or the INSERT errors: logged, and the rest goes on.
CreditErrors(t) ==
  /\ pc = "credit" /\ t \in found
  /\ found' = found \ {t}
  /\ dropped' = dropped \cup {t}
  /\ UNCHANGED <<panelVars, recorded, pc, due, todo, fetched, began, tronVars>>

\* The service stops with transfers in hand.
CreditsLost ==
  /\ pc = "credit" /\ found # {}
  /\ EndPass
  /\ dropped' = dropped \cup found
  /\ UNCHANGED <<panelVars, recorded, tronVars>>

EndOfCredits ==
  /\ pc = "credit" /\ found = {}
  /\ EndPass
  /\ UNCHANGED <<panelVars, recorded, dropped, tronVars>>

-----------------------------------------------------------------------------
(* TRON.                                                                   *)

Lands(t) ==
  /\ t \notin landed /\ PaidTo[t] \in issued
  /\ landed' = landed \cup {t}
  /\ landTime' = [landTime EXCEPT ![t] = clock]
  /\ UNCHANGED <<panelVars, recorded, pollVars, clock, listed>>

\* only_confirmed lets it through, and TronGrid has indexed it.
Appears(t) ==
  /\ t \in landed \ listed
  /\ listed' = listed \cup {t}
  /\ UNCHANGED <<panelVars, recorded, pollVars, clock, landed, landTime>>

ClockTick ==
  /\ clock < MaxTicks
  /\ \A t \in landed \ listed : clock < landTime[t] + ListingLag
  /\ Reading => clock < began + PassLife
  /\ clock' = clock + 1
  /\ UNCHANGED <<panelVars, recorded, pollVars, landed, landTime, listed>>

-----------------------------------------------------------------------------

User == \E a \in Addresses : OpenPanel(a) \/ IssueOnly(a) \/ Cool(a)

Poll ==
  \/ SelectDue
  \/ \E a \in Addresses : Fetch(a) \/ FetchFails(a)
  \/ StampAttempts \/ StampWatermarks

Credits == (\E t \in Transfers : Credit(t) \/ CreditErrors(t)) \/ CreditsLost \/ EndOfCredits

Tron == ClockTick \/ \E t \in Transfers : Lands(t) \/ Appears(t)

PollerNext == User \/ Poll \/ PassAborts \/ Credits \/ Tron

PollerSpec == PollerInit /\ [][PollerNext]_pollerVars

\* The loop never stops, TRON shows what landed, no address is unreadable for ever,
\* and the database and the service are up for good in the end.
FairPollerSpec ==
  /\ PollerSpec
  /\ WF_pollerVars(Poll \/ Credits)
  /\ \A a \in Addresses : SF_pollerVars(Fetch(a))
  /\ \A t \in Transfers : WF_pollerVars(Appears(t))
  /\ <>[][~PassAborts]_pollerVars

-----------------------------------------------------------------------------
(* Properties.                                                             *)

\* Of a transfer to a user's address that is worth something.
Owed(t) == t \in landed /\ t \notin Dust

\* What the next read of its address still reaches back to.
InReach(t) == polledAt[PaidTo[t]] # NotPolled => landTime[t] >= polledAt[PaidTo[t]] - ReadOverlap

\* No deposit is skipped by the reading: one that is not recorded is in this pass's
\* hands, or the next read of its address still reaches back to it, whatever an
\* outage, a slow pass or a late listing did to the watermarks ("silently skips
\* whatever arrived", TieredPoller). Only one that was read and then not recorded
\* is exempt.
NothingSkipped ==
  \A t \in Transfers :
    Owed(t) /\ t \notin recorded \cup found \cup dropped => InReach(t)

\* Nor by the recording: one that was read and could not be recorded is read again
\* ("credited late rather than lost", the deposit address handler in api.rs).
NothingLost == \A t \in Transfers : Owed(t) /\ t \notin recorded \cup found => InReach(t)

\* Every deposit is read in the end, and recorded unless that fails: no address
\* starves behind failing ones, nor behind hot ones while these are fewer than the
\* budget (due_addresses).
EveryDepositRead == \A t \in Transfers : Owed(t) ~> t \in recorded \cup dropped

=============================================================================
