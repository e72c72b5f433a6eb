--------------------------- MODULE DepositVerifier ---------------------------
(***************************************************************************)
(* The treasury's approver of deposits: the intents the orchestrator asks  *)
(* for (api.rs, intents.rs), the evidence the verifier reads on the chains *)
(* (tron_verifier.rs, bsc_verifier.rs), what that evidence may mint        *)
(* (gasfree_rail.rs, service_fee.rs), and a human's approval beside it.    *)
(* What becomes of an approved intent is the subject of MintOutbox; here   *)
(* it is credited, held or given up, and an intent that is submitted is    *)
(* still an approved one.                                                  *)
(*                                                                         *)
(* A deposit is named by its client_ref.  Ask says what the orchestrator   *)
(* asks for it: where the money went, from whom if it is a direct top-up,  *)
(* the transfer if it knows one, whose it is and how much arrived.  Paid   *)
(* says what the transfers really moved; late are those the treasury's     *)
(* nodes do not yet show, ages those that may outlive the match window.    *)
(***************************************************************************)
EXTENDS Integers, FiniteSets, Sums

CONSTANTS
  Deposits,     \* the deposits there can be
  Transfers,    \* the confirmed USDT transfers there can be
  NoTransfer,   \* no transfer
  NoOne,        \* no sender: the deposit is known by its address
  Scenes,       \* what a behaviour may be about: [ask, paid, late, ages], as below
  Plain,        \* the plain deposit addresses that the signer derives
  Accounts,     \* the GasFree accounts that it derives
  Own,          \* the treasury's other addresses: custody, the floats, the BSC pay-in address
  MinDeposit,   \* min_deposit_usdt
  ActivateMax,  \* activate_fee_max_usdt
  TransferMax,  \* transfer_fee_max_usdt
  Bps,          \* the service fee, in basis points
  MinFee,       \* and its least amount
  MaxTroubles   \* bound: failures of every kind

ASSUME NoneAssumption == NoTransfer \notin Transfers /\ NoTransfer \notin Deposits

ASSUME SceneAssumption ==
  /\ \A s \in Scenes : \A t \in Transfers : s.paid[t].amount \in Nat \ {0}
  /\ \A s \in Scenes : \A d \in Deposits :
       /\ s.ask[d].network \in {"tron", "bsc"} /\ s.ask[d].amount \in Nat \ {0}
       /\ s.ask[d].tx \in Transfers \cup {NoTransfer}
       /\ s.ask[d].tx = NoTransfer => s.ask[d].network = "tron" /\ s.ask[d].from = NoOne
       /\ s.ask[d].to \in Accounts => s.ask[d].network = "tron" /\ s.ask[d].from = NoOne
  /\ \A s \in Scenes : s.late \subseteq Transfers /\ s.ages \subseteq Transfers

ASSUME VerifierAssumption ==
  /\ Plain \cap Accounts = {}
  /\ MinDeposit \in Nat /\ ActivateMax \in Nat /\ TransferMax \in Nat /\ MaxTroubles \in Nat
  /\ Bps \in 0..10000 /\ MinFee \in Nat

\* There are only so many rows, and a chain has only so many transfers.
ASSUME FinitelyMany == IsFiniteSet(Deposits) /\ IsFiniteSet(Transfers)

VARIABLES
  scene,     \* what this behaviour is about: what is asked, and what was paid
  ts,        \* mint_intents.status, "none" before the intent exists
  claim,     \* deposit_tx_id
  clt,       \* amount_clt
  fee,       \* service_fee_clt: the amount of the operator's own intent
  entered,   \* the custody_deposit event's amount, 0 while there is none
  beyond,    \* the transfers from before an intent's match window
  seen,      \* the transfers that the treasury's nodes show as final
  aged,      \* the transfers that are older than the match window
  swept,     \* the GasFree accounts with first_transfer_at
  vpc,       \* where the verifier is with the intent in hand
  vcur,      \* that intent, the transfer that is evidence for it, and the cap
  authorised,\* history: the intents that were ever approved, by the verifier on evidence
  forced,    \* history: those a human approved before any evidence
  full,      \* history: the intents last judged before their account's first sweep was recorded
  troubles   \* history: the failures so far

rowVars == <<ts, claim, clt, fee, entered, beyond>>
worldVars == <<scene, seen, aged, swept>>
passVars == <<vpc, vcur>>
historyVars == <<authorised, forced, full>>
verifierVars == <<rowVars, worldVars, passVars, historyVars>>

\* [network, to, from, tx, user, amount], and [to, from, amount]
Ask == scene.ask
Paid == scene.paid

Uncapped == -1
NoCase == [of |-> NoTransfer, tx |-> NoTransfer, cap |-> Uncapped]

Statuses ==
  {"none", "created", "approved", "needs_manual", "rejected", "credited", "failed"}

VerifierTypeOK ==
  /\ scene \in Scenes
  /\ ts \in [Deposits -> Statuses]
  /\ claim \in [Deposits -> Transfers \cup {NoTransfer}]
  /\ clt \in [Deposits -> Nat] /\ fee \in [Deposits -> Nat] /\ entered \in [Deposits -> Nat]
  /\ beyond \in [Deposits -> SUBSET Transfers]
  /\ seen \subseteq Transfers /\ aged \subseteq Transfers /\ swept \subseteq Accounts
  /\ vpc \in {"idle", "claim", "judge", "approve", "hold", "reject"}
  /\ vpc = "idle" <=> vcur = NoCase
  /\ authorised \subseteq Deposits /\ forced \subseteq Deposits /\ full \subseteq Deposits
  /\ troubles \in 0..MaxTroubles

VerifierInit ==
  /\ scene \in Scenes
  /\ ts = [d \in Deposits |-> "none"]
  /\ claim = [d \in Deposits |-> NoTransfer]
  /\ clt = [d \in Deposits |-> 0] /\ fee = [d \in Deposits |-> 0]
  /\ entered = [d \in Deposits |-> 0]
  /\ beyond = [d \in Deposits |-> {}]
  /\ seen = Transfers \ scene.late /\ aged = {} /\ swept = {}
  /\ vpc = "idle" /\ vcur = NoCase
  /\ authorised = {} /\ forced = {} /\ full = {}
  /\ troubles = 0

Trouble ==
  /\ troubles < MaxTroubles
  /\ troubles' = troubles + 1

(***************************************************************************)
(* The request: create_mint_intent_handler.  A known client_ref is         *)
(* answered with the intent there is.                                      *)
(***************************************************************************)

\* uq_mint_intents_deposit_tx: one transfer backs one intent.
Claimed(t) == t # NoTransfer /\ \E d \in Deposits : claim[d] = t

Creates(d) ==
  IF ts[d] # "none" THEN UNCHANGED rowVars
  ELSE /\ ~Claimed(Ask[d].tx)
       /\ ts' = [ts EXCEPT ![d] = "created"]
       /\ claim' = [claim EXCEPT ![d] = Ask[d].tx]
       /\ clt' = [clt EXCEPT ![d] = Ask[d].amount]
       /\ beyond' = [beyond EXCEPT ![d] = aged]
       /\ UNCHANGED <<fee, entered>>

(***************************************************************************)
(* The evidence: evaluate, evaluate_direct, check_transfer and their       *)
(* counterpart for BSC.                                                    *)
(***************************************************************************)

Direct(d) == Ask[d].from # NoOne
OnBsc(d) == Ask[d].network = "bsc"
ByWindow(d) == ~OnBsc(d) /\ (Direct(d) \/ Ask[d].tx = NoTransfer)

\* The transfer is in what the verifier reads: the history of the address, which for
\* a direct top-up and for a match without a hash starts at the window, or a receipt.
Found(d, t) ==
  /\ t \in seen
  /\ OnBsc(d) \/ Ask[d].to \in {Paid[t].to, Paid[t].from}
  /\ ~OnBsc(d) /\ (Direct(d) \/ claim[d] = NoTransfer) => t \notin beyond[d]

Matches(d, t) ==
  /\ Paid[t].to = Ask[d].to
  /\ Direct(d) => Paid[t].from = Ask[d].from
  /\ Paid[t].amount >= Ask[d].amount

Underived(d) == OnBsc(d) /\ ~Direct(d) /\ Ask[d].to \notin Plain

\* A recorded hash is that transfer or nothing; without one it is any that matches.
Passes(d, t) == Found(d, t) /\ Matches(d, t) /\ ~Underived(d) /\ claim[d] \in {t, NoTransfer}
HardMismatch(d) == Underived(d) \/ (Found(d, claim[d]) /\ ~Matches(d, claim[d]))

\* verify_once: every pass takes every created intent, one after the other; one whose
\* evidence neither passes nor mismatches stays created.
Done == vpc' = "idle" /\ vcur' = NoCase

Take(d, stage, t) ==
  /\ vpc = "idle" /\ ts[d] = "created"
  /\ vpc' = stage
  /\ vcur' = [of |-> d, tx |-> t, cap |-> Uncapped]
  /\ UNCHANGED <<rowVars, worldVars, historyVars, troubles>>

EvidencePasses(d, t) ==
  /\ Passes(d, t)
  /\ Take(d, IF claim[d] = NoTransfer THEN "claim" ELSE "judge", t)

AbsentIsHard(d) == \* mutant: a hash that is not there yet is a mismatch
  /\ ~Passes(d, claim[d]) /\ claim[d] # NoTransfer
  /\ Take(d, "reject", NoTransfer)

EvidenceMismatches(d) ==
  /\ HardMismatch(d)
  /\ Take(d, "reject", NoTransfer)

\* A node, the signer or the database fails: nothing is decided in this pass.
VerifierFails ==
  /\ vpc # "idle"
  /\ Trouble
  /\ Done
  /\ UNCHANGED <<rowVars, worldVars, historyVars>>

ClaimAnyway == \* mutant: no unique index on the transfer
  /\ vpc = "claim"
  /\ claim' = [claim EXCEPT ![vcur.of] = vcur.tx] /\ vpc' = "judge"
  /\ UNCHANGED <<ts, clt, fee, entered, beyond, worldVars, vcur, historyVars, troubles>>

\* backfill_deposit_tx_id: a transfer that backs another intent is false evidence.
ClaimTransfer ==
  /\ vpc = "claim"
  /\ IF Claimed(vcur.tx)
     THEN vpc' = "reject" /\ UNCHANGED claim
     ELSE vpc' = "judge" /\ claim' = [claim EXCEPT ![vcur.of] = vcur.tx]
  /\ UNCHANGED <<ts, clt, fee, entered, beyond, worldVars, vcur, historyVars, troubles>>

(***************************************************************************)
(* The verdict: direct_verdict, gasfree_verdict, bsc_verifier::verdict.    *)
(***************************************************************************)

\* A sweep or a payout is not a top-up.
FromUs(d) == Ask[d].from \in Own \cup Accounts \cup {Ask[e].to : e \in {f \in Deposits : ts[f] # "none"}}

HoldFor(account) == IF account \in swept THEN TransferMax ELSE ActivateMax + TransferMax

\* The most a deposit of an amount may mint.
Cap(d, amount) ==
  IF Direct(d) \/ OnBsc(d) THEN amount
  ELSE IF Ask[d].to \in Plain THEN Uncapped
  ELSE amount - HoldFor(Ask[d].to)

Verdict(d, amount) ==
  IF \/ Direct(d) /\ FromUs(d)
     \/ Ask[d].to \in Accounts /\ Cap(d, amount) < 1
     \/ ~Direct(d) /\ Ask[d].to \notin Plain \cup Accounts
  THEN "reject"
  ELSE IF Cap(d, amount) = Uncapped \/ Cap(d, amount) >= MinDeposit THEN "approve"
  ELSE "hold"

Judge ==
  /\ vpc = "judge"
  /\ LET d == vcur.of
         amount == Paid[vcur.tx].amount
     IN /\ vpc' = Verdict(d, amount)
        /\ vcur' = [vcur EXCEPT !.cap = Cap(d, amount)]
        /\ full' = IF Ask[d].to \in Accounts \ swept THEN full \cup {d} ELSE full \ {d}
  /\ UNCHANGED <<rowVars, worldVars, authorised, forced, troubles>>

(***************************************************************************)
(* The write: approve_and_ledger with split_off, and reject_and_alert; all *)
(* of them for an intent that is still created.                            *)
(***************************************************************************)

Least(a, b) == IF a < b THEN a ELSE b
Greatest(a, b) == IF a < b THEN b ELSE a
CapIgnored(amount) == amount \* mutant: the mint is what was proposed
Capped(amount) == IF vcur.cap = Uncapped THEN amount ELSE Least(amount, vcur.cap)

service_fee(minted) ==
  LET share == Greatest((minted * Bps) \div 10000, MinFee)
  IN IF Bps = 0 \/ share >= minted THEN 0 ELSE share

\* Not on the first top-up that mints or minted.
HasEarlier(d) ==
  \E e \in Deposits \ {d} :
    Ask[e].user = Ask[d].user /\ ts[e] \in {"approved", "credited"}

ApproveWrite ==
  /\ vpc = "approve"
  /\ LET d == vcur.of
         minted == Capped(clt[d])
         split == IF HasEarlier(d) THEN service_fee(minted) ELSE 0
     IN /\ IF ts[d] # "created" THEN UNCHANGED <<ts, clt, fee, entered, authorised>>
           ELSE /\ ts' = [ts EXCEPT ![d] = "approved"]
                /\ clt' = [clt EXCEPT ![d] = minted - split]
                /\ fee' = [fee EXCEPT ![d] = split]
                /\ entered' = [entered EXCEPT ![d] = Paid[vcur.tx].amount]
                /\ authorised' = authorised \cup {d}
        /\ Done
  /\ UNCHANGED <<claim, beyond, worldVars, forced, full, troubles>>

HoldWrite ==
  /\ vpc = "hold"
  /\ LET d == vcur.of
     IN /\ IF ts[d] # "created" THEN UNCHANGED <<ts, clt, entered>>
           ELSE /\ ts' = [ts EXCEPT ![d] = "needs_manual"]
                /\ clt' = [clt EXCEPT ![d] = Capped(@)]
                /\ entered' = [entered EXCEPT ![d] = Paid[vcur.tx].amount]
        /\ Done
  /\ UNCHANGED <<claim, fee, beyond, worldVars, historyVars, troubles>>

RejectWrite ==
  /\ vpc = "reject"
  /\ LET d == vcur.of
     IN /\ ts' = IF ts[d] = "created" THEN [ts EXCEPT ![d] = "rejected"] ELSE ts
        /\ Done
  /\ UNCHANGED <<claim, clt, fee, entered, beyond, worldVars, historyVars, troubles>>

(***************************************************************************)
(* A human, the outbox and the watcher, and the world.                     *)
(***************************************************************************)

\* approve_mint_intent takes a created intent as well as a held one.
HumanApproves(d) ==
  /\ ts[d] \in {"created", "needs_manual"}
  /\ ts' = [ts EXCEPT ![d] = "approved"]
  /\ authorised' = authorised \cup {d}
  /\ forced' = forced \cup IF entered[d] = 0 THEN {d} ELSE {}
  /\ UNCHANGED <<claim, clt, fee, entered, beyond, worldVars, passVars, full, troubles>>

Outbox(d) ==
  /\ ts[d] = "approved" /\ ts' = [ts EXCEPT ![d] = "credited"]
  /\ UNCHANGED <<claim, clt, fee, entered, beyond, worldVars, passVars, historyVars, troubles>>

\* Over a cap, or given up.
OutboxRefuses(d) ==
  /\ ts[d] = "approved" /\ \E s \in {"needs_manual", "failed"} : ts' = [ts EXCEPT ![d] = s]
  /\ Trouble
  /\ UNCHANGED <<claim, clt, fee, entered, beyond, worldVars, passVars, historyVars>>

Settles(t) ==
  /\ t \notin seen
  /\ seen' = seen \cup {t}
  /\ UNCHANGED <<rowVars, scene, aged, swept, passVars, historyVars, troubles>>

Ages(t) ==
  /\ t \in (seen \cap scene.ages) \ aged
  /\ aged' = aged \cup {t}
  /\ UNCHANGED <<rowVars, scene, seen, swept, passVars, historyVars, troubles>>

\* The treasury sees its first sweep of an account run.
FirstSweep(a) ==
  /\ a \notin swept /\ \E t \in seen : Paid[t].to = a
  /\ swept' = swept \cup {a}
  /\ UNCHANGED <<rowVars, scene, seen, aged, passVars, historyVars, troubles>>

VerifierSteps == ClaimTransfer \/ Judge \/ ApproveWrite \/ HoldWrite \/ RejectWrite

Evaluate(d) == EvidenceMismatches(d) \/ \E t \in Transfers : EvidencePasses(d, t)

World ==
  \/ \E t \in Transfers : Settles(t) \/ Ages(t)
  \/ \E a \in Accounts : FirstSweep(a)

Treasury ==
  \/ VerifierSteps \/ VerifierFails \/ World
  \/ \E d \in Deposits : Evaluate(d) \/ HumanApproves(d) \/ Outbox(d) \/ OutboxRefuses(d)

(***************************************************************************)
(* Properties                                                              *)
(***************************************************************************)

Total(D) == SumOver([d \in Deposits |-> clt[d] + fee[d]], D)
Arrived(T) == SumOver([t \in Transfers |-> Paid[t].amount], T)
Spare(d) ==
  IF Ask[d].to \notin Accounts THEN 0
  ELSE IF d \in full THEN ActivateMax + TransferMax ELSE TransferMax

\* What the verifier authorised, the operator's fee included, is backed: by transfers
\* that really arrived and were counted once, each less what its sweep may cost; and
\* the user is left with something.
MintedIsBacked ==
  LET D == authorised \ forced
  IN /\ Total(D) <= Arrived({claim[d] : d \in D})
     /\ \A d \in D : /\ Matches(d, claim[d]) /\ claim[d] \in seen
                     /\ clt[d] >= 1
                     /\ clt[d] + fee[d] <= Paid[claim[d]].amount - Spare(d)

\* A deposit whose own transfer is what it says is never rejected, however the nodes,
\* the signer and the database fail (tron_verifier.rs:7-12); unless it came without a
\* hash, is one of ours, or is no more than the fee that its sweep may cost.
RejectedOnEvidence ==
  \A d \in Deposits :
    /\ ts[d] = "rejected" /\ Ask[d].tx # NoTransfer /\ Matches(d, Ask[d].tx)
    => \/ Direct(d) /\ FromUs(d)
       \/ ~Direct(d) /\ Ask[d].to \notin Plain \cup Accounts
       \/ Ask[d].to \in Accounts /\ Paid[Ask[d].tx].amount <= ActivateMax + TransferMax

=============================================================================
