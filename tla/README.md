# A verification project for clutch-treasury

clutch-treasury keeps CLT, a token of the Clutch chain, backed one to one by USDT. Users deposit USDT on
TRON or BSC and CLT is minted to them; they burn CLT and are paid USDT. This directory models the parts of
it where money can be created, paid twice or lost. TLC checks the models on small instances, and TLAPS
proves most of the safety results for every size.

All paths below are under `src/crates/`.

## The system

| Part | State it keeps | Operations | Hard behaviour |
|---|---|---|---|
| Payout worker (`treasury-service/src/payout.rs`) | `redemption_intents` rows, the day's total of a pass | claim, call the signer, record the reply, confirm on chain, settle GasFree permits | lost replies, failing writes after money has moved, a crash between claim and reply, stale nonce reads |
| Mint outbox (`outbox.rs`, `breakers.rs`) | `chain_outbox`, `mint_intents` | requeue stuck rows, gate, submit, back off, park, give up | rows selected and then acted on later, lost replies, a node behind its peers, attempts running out |
| Watcher (`watcher.rs`) | `chain_cursor`, `treasury_events` | scan confirmed blocks, credit mints, confirm burns, rewind | crash between a block and the cursor, reorganisations, chain resets |
| Deposit verifier (`tron_verifier.rs`, `bsc_verifier.rs`, `gasfree_rail.rs`, `service_fee.rs`) | `mint_intents`, `treasury_events` | find the transfer on chain, approve, hold, reject, split off a fee | two intents claiming one transfer, weak evidence, recorded holds |
| Sweeper (`sweeper.rs`, `sweeper/gasfree_sweep.rs`) | sweep columns of `mint_intents` | ask the signer to sweep an index, follow a permit, mark swept | a permit that may still run, deposits arriving during a sweep |
| Reconciliation (`reconciliation.rs`) | `reconciliation_runs` | read reserve, ledger and chain; judge | readings taken one after the other while money moves |
| Treasury API (`api.rs`, `intents.rs`, `ledger.rs`) | the same tables | create, approve, halt, resume | checks and writes that are not one transaction |
| Signer (`tron-signer/src`) | none; keys, and the chain's nonces | payout, sweep, activate and fund the float, BSC sweep | no memory between calls; a relay whose word is not proof |
| Deposit poller (`payment-orchestrator/src/poller.rs`, `addresses.rs`) | `deposit_addresses`, `deposit_intents` | give out an address, pick the due ones, read, stamp, record | watermarks against late listings, failing reads, a crash between stamp and record, a rotation under a budget |
| Orchestrator, the rest (`payment-orchestrator/src`) | `deposit_intents`, `redemptions`, cursors | bridge to the treasury, pay-in by sender, watch BSC, redeem | two services' rows about one deposit, retries, expiry against late transfers |
| Libraries (`clutch-chain`, `gasfree`, `bsc`) | a websocket connection | submit, read, encode, derive | a reply dropped when the connection is lost |

The services share no memory. Inside the treasury, the workers are separate tasks that share only the
database; a row lock is held for single transactions and never across a call. Treasury and signer speak
HTTP, orchestrator and treasury too; the chain is reached over a websocket. So the models' steps end
where the code awaits something it goes on to use, and everybody else may move in between.

What makes each part correct:

* **Payouts.** One burn is paid at most once, by a transfer that moved the money and that pays no other
  burn; a day's outflow stays within the cap; every permit is settled in the end.
* **Mints.** Nothing is minted without an approval, nothing in two blocks; the ledger and the settled chain
  agree; what a day's intents have in flight stays within the cap; every approved mint ends credited, failed or with a
  human, unless it is put off for ever or left half given up.
* **Verifier.** One transfer backs one intent; an approved amount never exceeds what arrived, less what its
  sweep may cost; a true deposit is never rejected.
* **Sweeper.** An index is marked swept only when its USDT is in custody; one permit per account at a time.
* **Reconciliation.** `ok` and `mismatch` mean what they say although its readings are not simultaneous.
* **Poller.** Every transfer to a user's address is read, whatever outages do to the watermarks, and recorded.
* **Intake.** Nobody's money is credited to somebody else, twice, or after it was reported for a refund, and a
  watcher gives up no payment that is not settled.
* **Bridge.** A confirmed deposit becomes exactly one mint intent and is credited once that is.

## Modules

| Module | What it is |
|---|---|
| `PayoutPromise` | what redemption owes: burn, then at most one transfer, then one record of it |
| `RedemptionPayout` | the payout worker, burn confirmation, signer, relay, chain and operator |
| `RedemptionPayoutProofs` | what is proved of it: one payout per burn, the books and the promise, the day's cap |
| `MintPromise` | what minting owes, of one chain: approve, mint in one block, record once after settlement |
| `MintOutbox` | approval, outbox worker, gate, node, watcher and chain |
| `MintOutboxProofs` | what is proved of it: its queue, the cap on what is in flight, its ledger and the promise |
| `DepositVerifier` | the treasury's intents of deposits: evidence, claims, verdicts, fees, a human's approval |
| `DepositBridge` | `DepositVerifier` composed with the orchestrator's bridge, which asks for the intents and follows them |
| `DepositBridgeProofs` | what is proved of the two together |
| `AddressBook`, `DirectTopUps`, `BscTopUps`, `LegacyIntents` | four ways in which a payment is attributed: the addresses that are given out, TRON payments to the pay-in address, BSC, the addresses of old intents |
| `DepositIntake` | the four of them, and the properties that they share |
| `DepositPoller` | the tiered poller of permanent deposit addresses, TRON's listing of transfers |
| `DepositIntakeProofs` | what is proved of `DepositIntake`, by one invariant for each of the four, and of `DepositPoller` |
| `GasFreeSweep` | one GasFree account: the verifier's hold, the sweeper, the signer's permits, relay and controller |
| `GasFreeSweepProofs` | what is proved of it |
| `SweepPromise` | what sweeping a plain address comes to: one transfer at a time, marked when it has left |
| `PlainSweep` | the pass over plain TRON and BSC addresses, the signer's calls and the gas |
| `PlainSweepProofs` | what is proved of it |
| `Reconciliation` | the reconciliation run, among the sweeps (`SweepPromise`), the mints, a redemption and the operator |
| `ReconciliationProofs` | what is proved of it |
| `Sums` | the total of a function over a finite set, which the caps, the reserve and the backing are about |
| `SumsProofs` | the facts about such totals that the other proofs cite |

The composition follows what the parts share. `DepositBridge` EXTENDS `DepositVerifier`: a treasury step leaves the
bridge's variables alone and the other way round, but for the request that creates an intent. `Reconciliation` EXTENDS
`SweepPromise` rather than `PlainSweep`: what it reads are balances and marks, and `PlainSweep` is checked, and
proved, to move these only as the promise does. Each `MC...` module only gives values to constants.

### RedemptionPayout

The worker is `main.rs`'s loop: `drain_once`, `confirm_payouts_once`, `confirm_gasfree_payouts_once`, again.
`pc` says where it is; `todo`, `cur` and `charged` are its local variables (`charged` is `day_total`, kept
as the set of redemptions that make it up). The columns of `redemption_intents` are one variable each.

* Each arm of the match on the signer's reply is an action: `OnPaid`, `OnSubmitted`, `OnRelayRefused`,
  `OnFloatNotActive`, `OnRefused` (the four proven non-broadcasts together), `OnAmbiguous`. `OnAmbiguous`
  needs no reply: a timeout may come before the signer acts, and then the signer may still act.
* `Write(u)` is a write that may fail and is only alerted on (`WritesFail`). The claim is different:
  `ClaimErrors` is the UPDATE that reports an error, committed or not.
* `calls[r]` is how long a request may still reach its signing step; it survives the worker's crash.
* A transfer or permit is one element of `Txns`, with the redemption it pays, its nonce and the last
  moment it can run. A permit runs only at the controller's nonce and before its deadline.
* `NonceReads` is what a TronGrid node may answer: behind the chain by at most `Lag`.
* The confirmation passes visit rows one at a time in any order: nothing in them depends on the order.
* The operator does what the alerts ask and reads the chain first: sets `payout_ref` to a transfer that
  moved the money, or returns a row when nothing signed for it can still run.

Abstractions: a tick is any length; `PermitLife` is `LONGEST_PERMIT_SECS` (payout.rs:211), `Grace` is
`DEADLINE_GRACE_SECS` (218). The signer's checks before it signs are one refusal. TRX transfers have no
nonce. A trace id and its transaction are one identifier; when `RelayHonest` is FALSE the relay may name
any transaction instead. **Environment assumption:** `Lag <= Grace` (`ClockAssumption`), which is what the
comment at payout.rs:213-217 relies on.

### MintOutbox

Two tasks, the outbox worker (`pc`) and the watcher (`wpc`), and the columns of `mint_intents` and
`chain_outbox` they share. `requeue_stuck_submissions` is the stages `stuck` and `give_up`; the last is a
stage because the code closes the row and then the intent in two statements. `drain_once` is `select`,
`sync`, `rows`, `send` and `record`. The gate's outcomes are one action each.

The chain is a sequence of blocks with at most one mint (main.rs:161), `pool` is what the node has taken.
`Reorg` removes a block that is not yet `Confirmations` deep below the highest the chain has been;
`ChainReset` starts a new chain. A transaction (`MintTx`) pays an intent and carries a ref. `CreditRef` is the intent's
one ref, stored with it, and the node processes a ref once (`RefProcessed`, its `processed_ref_` markers, which go with the
blocks); it knows nothing of intents. So what keeps a mint from landing twice is the code's ref, and a ref per
submission (`CreditRefPerAttempt`) lets TLC find two blocks that pay one intent. `events` counts the `mint_executed` events of each
intent. `overtaken` is history: after a reset, the new chain has reached a height the watcher had been through of the old one.

The daily cap sums the intents "created in the last 24 hours" (breakers.rs:43 and 84): `recent` is the set of those that
are, `Ages` takes one out of it, and an intent out of it is missing from everybody else's sum, while its own amount is still
compared with the cap when its turn comes.

Abstractions: waiting is a set (`due`, `stale`) rather than a time; the backing ratio and the last
reconciliation are choices (`GateTrips`, `GateDenies` under `BreakerTrips`); one cosigner stands for the
threshold; the reduction of a mint's amount by caps and fees is `DepositVerifier`'s; `CreditMint` is one step, as its
transaction commits. `MaxTroubles` bounds crashes and resets together, and each reset leaves one block fewer to come, so that the watcher
cannot be outrun by resets without end.

### DepositPoller

One pass is `SelectDue`, a `Fetch` or `FetchFails` per address, `StampAttempts`, `StampWatermarks`, then
`credit_from_addresses` one transfer at a time. `last_attempt_at` is kept as the order it induces (`ahead`), the
only thing the query's ORDER BY uses; `last_polled_at` is a time, since the reads subtract the overlap from
it. `hot` is a set: `Cool` is `hot_until` passing. `deposit_intents` is the set of transfers recorded, the
unique index on `tron_tx_id` being what makes it a set. `PassAborts` is any `?` of the pass or the service stopping
in it; `CreditErrors` and `CreditsLost` are what can go wrong after the watermark is written, and `dropped`
remembers, for the properties only, what went wrong there.

**Environment assumption:** `ListingLag + PassLife <= ReadOverlap` (`TimesAssumption`): TRON lists a transfer within `ListingLag`,
a pass reads its addresses within `PassLife`, and the two fit in the hour of overlap. The code has no timer
that enforces the second. The legacy per-intent addresses (`due_intents`, loop (b) of `poll_once`) are `LegacyIntents`.

### GasFreeSweep

One GasFree account from its deposits to custody. Four actors share it: the verifier (`VerifierReads`, which is
`record_account`, then `VerifierDecides`, the transaction), the sweeper's pass (`pc`), the signer's call
(`signer`), and the relay with the controller. `settle` is `SeesItRan`, `MarkSwept`, `ClearSettled` on one side
and `SeesItExpired`, `ClearExpired` on the other, each UPDATE a step that may fail (`SettleWriteFails`).
`sweep_account` is `AskForPermit`, the signer's answer, and `RecordPermit` or `RecordFails`. Its own
database reads and the request are one step, since nothing it reads is changed by anybody but itself, except
that rows may be verified, which `requested_at` is there to exclude. The signer's reading (`SignerReads`) and its
signing (`SignerSubmits`) are two steps, because deposits arrive and permits run between them. The list's `submitted` and
`credited` are one status.

Times are kept as what the code asks of them: `verified_at <= requested_at` is the set of rows verified when
the permit was asked for (`covers`), and the recorded permit's phase is `live`, `closed` (after its deadline)
or `lapsed` (after the grace, too). `nonce` is the controller's, `shownNonce` TronGrid's.

What may go wrong is `Trouble`: a failing write, an unreadable answer, a lost reply, a permit the relay drops, a stop of
the treasury (the signer goes on with its call) and, under `Strays`, somebody else asking the signer for a sweep.
`MaxTroubles` bounds them all together.

**Environment assumptions.** The relay holds one permit of an account at a time and says so, charges activation once, and keeps to
`maxFee`; the signer serves one call for the account at a time. TronGrid shows within the grace what ran by the deadline
(`Lapse`). Nobody approves by hand a deposit the verifier has not seen (`approve_mint_intent` would allow it, and
then nothing is held back of it). Both services get a raised maximum together, and nobody but the sweeper asks for a
sweep after that: only the sweeper compares the new fee with the old holds.

`outrun` is history: some permit was signed although the account had changed (another permit showed) since the signer read the
balance and the activation. `ReserveCoversMinted` excepts it, and `sweep_outrun` shows why it must (Findings).

### DepositVerifier and DepositBridge

`create_mint_intent_handler` is `Creates`, with its two unique indexes: the `client_ref`, which is the deposit's name
here, and `uq_mint_intents_deposit_tx`, which is `Claimed`. The verifier's pass reads the chain, then claims, judges and
writes; `vpc` and `vcur` say where it is and what it has in hand, and everybody else may move between these steps.
The evidence of every rail is `Found`, `Matches` and `Underived`, with the differences spelt out by `Direct` and `OnBsc`:
a receipt on BSC, the history of an address on TRON, which for a direct top-up and for a match without a hash begins at
the window. What the rails may conclude is `Cap` and `Verdict` (`direct_verdict`, `gasfree_verdict`,
`bsc_verifier::verdict`), and what is then written `ApproveWrite`, `HoldWrite` and `RejectWrite`, each for an intent
that is still `created`. `split_off` is part of `ApproveWrite`, `service_fee` and `fee_to_hold` are operators.

The bridge's steps are those between its awaits: ask (`CreateAnswered`, or one of its failures), `StoreId`, `MintRequested`,
`PollAnswered` and what follows from the answer. `waits` is `next_attempt_at` in the future. `Crash` may come between any two.

What is asked for and what was really paid is a `scene`, chosen at the start: the request, the transfers, which of them the
nodes show late and which may grow older than `deposit_match_window_hours`. What happens to an approved intent is
`MintOutbox`'s: here it is credited, held or given up. `MaxTroubles` bounds failures of all kinds.

**Environment assumptions** (`VerifierAssumption`, `SceneAssumption`): the plain and the GasFree addresses that the signer derives differ; a
deposit to a GasFree account is a TRON deposit known by its address; only a TRON deposit that is not direct comes without a hash.

### DepositIntake

A behaviour follows one of four watchers: they share the table `deposit_intents` and the unique index on the
transaction, but a transaction is of one chain and one kind of address, so no row.

* `AddressBook`: `address_for_user` in the steps `LookUp`, `Allocate`, `Insert` (ON CONFLICT DO NOTHING) and `ReRead`,
  for any requests of any users side by side.
* `DirectTopUps`: a pass of `direct.rs` reads what landed since the watermark less an overlap, handles each transfer (credited to
  a sender registered before it landed, ours, or reported), and writes the time before the read as the watermark.
* `BscTopUps`: `watch_once` from the cursor to the head less the confirmations, in ranges of `MaxRange`, first the pay-in
  address, then the users' addresses, then the cursor. `origin` remembers where the first whole pass began.
* `LegacyIntents`: the listing, the match in order of landing, the three writes that settle an intent (`tron_tx_id`,
  `received_usdt`, `confirmed`), `sweep_expired` and `close_stale_watch_windows`, which run after a failed fetch too.

**Environment assumptions:** TRON shows a transfer within the overlap of `direct.rs` (`DirectAssumption`); BSC's
reorganisations are no deeper than the confirmations, and a transaction's payments are in one block (`Together`); one transaction
makes one payment to us on TRON. `PaymentsAssumption` is no assumption about the world: `by_transaction` and `by_deposit` add up
what a transaction pays to one address, so two of its payments differ in their receiver.

### PlainSweep

`bsc_sweep_pass` and the TRON part of `sweep_once`: a pass lists rows, visits each address with a row once, asks the signer,
and marks the rows it listed. On BSC the signer's call waits (`bsc_fund`, `bsc_wait`) for the gas and then for the receipt; on TRON it
answers at the broadcast. `place` says where a deposit's USDT is, `tx` what the pending transfer of an address moves.
A transfer or a funding may be lost, an account may be dry, and any call or write may fail.

### Reconciliation

`run_once` with one step per reading, in the code's order: supply, ledger, mints in flight, the unswept TRON addresses, custody,
float, each address, custody and float again, and the same on BSC; then `judge` and `record`. In between, everything moves that moves
what it reads. A treasury that loses nothing is covered in every state of the model, so each mismatch of it is a false alarm;
`cause` remembers what took part in the run that the readings cannot show, and `NoUnexplainedAlarm` says that there is no other reason:

* `credited`: a mint is credited between the reading of the ledger and that of the mints in flight;
* `unsubmitted`: a mint is in a block while its row still reads `approved`;
* `burned` and `paid`: a burn is confirmed, or confirmed and paid, between the readings;
* `marked`: a TRON row is marked swept on its broadcast and the transfer has not run (or never does);
* `unlisted`: the list of unswept addresses could not be read and counts as empty;
* `swept`: a BSC transfer arrives between the reading of the pay-in address and that of its own.

Custody and float are read twice so that a move between them is noticed, but custody is compared by its figure only. What the operator moved to
the float between the two first readings (`filled`) is in both, and a sweep of the same amount that lands before custody is read again
(`landed`) hides it. `Cancelled` is that pair; `NeverOverCounted` and `OkMeansBacked` except it and nothing else, see Findings.

Bounds: no run begins while minting is halted, the operator fills the float once by `Filling`, `Loss` is lost at most once and before a
run, and a sweep's pass marks every row it may. In the run the deposits bring 1, 2 and 4 and the filling is 3, what the two at the TRON address
bring together, so the cancellation happens: without the exception both properties fail.

## Runs

| Run | Question | Bounds worth knowing |
|---|---|---|
| `payout_trx` | the day's cap, and only real transfers are booked, on the TRX rail | 3 redemptions: one fits the cap, the second exceeds it with the first, the third never fits; failing writes; 1 crash |
| `payout_twins` | one payout per burn on the GasFree rail; redemptions alike in payee and amount, a relay that names the wrong transaction | 2 twins, 2 permits, failing writes, 1 spend elsewhere; the crash is in `payout_trx` |
| `payout_live` | refinement of `PayoutPromise`; every recorded permit is settled | the clock passes every deadline and its grace |
| `mint_chain` | ledger and chain agree; refinement of `MintPromise`; every mint is resolved and credited but for the named exceptions | 1 intent, 2 attempts, 3 blocks of which 2 can settle, depth 1, 1 crash or reset, breaker, lagging node, missing cosigner, 1 approval by hand; both loops weakly fair |
| `mint_gate` | denials, parking, second approval, chain reset; the cap on what a day's intents have in flight | 2 intents that fit the cap one by one and not together, both may outgrow the 24 hours; 1 block, depth 0, 2 crashes or resets, 2 approvals by hand |
| `bridge` | minted is backed and counted once; true deposits are not rejected; what is credited reaches the user; every confirmed deposit is resolved or told of | 4 scenes of 2 deposits and 2 transfers, 1 failure |
| `intake` | nothing is credited wrongly, nothing given up unsettled, and what is handed out is watched | 3 requests of 2 users; 3 top-ups; 4 payments, two of them of one transaction, 3 blocks; 2 intents with 2 arrivals; 1 failure each |
| `poller_pass` | no deposit is skipped by the reading; every one is read in the end | 3 addresses, budget 2, 1 hot, overlap 1 tick |
| `sweep_gasfree` | the fees of permits against the holds of deposits; what is marked swept was moved; permits are settled and money moves on | 1 account, 2 deposits (the second below the minimum until activation is paid), 2 maxima, 2 failures of any kind |
| `sweep_outrun` | expected to fail: the reserve rule without the exception for a permit that was outrun | 2 deposits alike, 1 failure |
| `sweep_plain` | refinement of `SweepPromise`; credited money leaves its address | 2 deposits at a TRON and 1 at a BSC address, no gas at the start, 1 failure |
| `reconcile` | never counts too much; an `ok` can be believed; no false alarm but the seven | 3 deposits, 1 redemption, 1 filling, 1 loss |

Why the bounds are enough. The payout hazards and those of the mint cap are about one redemption (or mint) interfering with a
second, so two suffice for every pairwise race and a third only for the cap's skip rule. Two transfers are
the least that can pay one burn twice. `MaxNow` passes every deadline plus its grace after the last
signature. `MaxAttempts` of 1 or 2 reaches both the retry and the last attempt. The chain's side of a mint concerns one
intent: its submissions, its blocks and its event; of another it sees only that a block does not hold it, which an empty
block shows too. Three blocks at depth one give two that settle, in either of which the mint or its repetition may be, and one
that may give way; after a reset two blocks are left, enough for the new chain to settle a mint and to outgrow the cursor. Three addresses under a budget of two, one
of which a hot address may hold for ever, are the least where the cold rotation has to rotate; two ticks
after a landing put it behind an overlap of one. Two deposits at a GasFree account are the least where one is
verified between the request for a permit and its settlement. The first brings 4 and mints 1, so that what it
holds covers a raised maximum; the second's hold does not. Two failures give a stray permit and a lost answer
in one behaviour.

The four scenes of `bridge` pair the deposits that can meet: two that may claim one transfer, a first and a later one of
a user at one GasFree account (so that the fee, both holds and the order of the sweep matter), a true direct top-up and
one somebody else paid, and a BSC deposit beside one too small for its sweep. In `intake`, the user's top-up, a stranger's and a
sweep of ours are the three things that can arrive at the pay-in address; one BSC transaction pays two of our addresses; two legacy intents with a
limit of one per pass make the listing rotate, and the amounts include dust. Three blocks at one confirmation give a block behind the
cursor, one that may still be replaced, and one that is new. One TRON address with two rows and one BSC address are the
least where a deposit arrives beside a sweep, and where an address has one balance and two rows in `reconcile`.

`InFlightWithinCap` bounds what is on its way of the intents of the last 24 hours. Of all that is on its way the cap does not
hold, because of the window (`AllInFlightWithinCap`, Findings). Nor is what lands bounded: an intent out of
attempts leaves the sum of `daily_mint_total` while its mint can still land, and the watcher may credit it on
top of a day that has been filled since; `NoMintAbandoned` and `InFlightIsUncredited` state the causes.

`CHECK_DEADLOCK FALSE` is said of `bridge`, `intake` and the two mint runs: when every deposit and every mint is settled and
the bounded failures and blocks are used up, nothing is left to do.

Fairness. `RedemptionPayout!FairSpec`: the loop never stops (weak fairness of the worker, `main.rs:311`
loops for ever), time passes, and a nonce read that can succeed is not refused for ever (strong
fairness, because each pass may find the node unreadable). Nothing is assumed of the signer, the relay,
the chain or the operator. `MintOutbox!FairSpec`: both loops are weakly fair and a waiting row falls due;
nothing is assumed of the chain, the operator or the other authorities: a mint that never lands ends with a human through its attempts.
`MintResolved` therefore has two exceptions by name. `PutsOff`: the worker parks a row without spending an attempt because the node is behind, the
gate is closed to a deposit, or a signature is missing, and while that goes on for ever so does the wait. `HalfGivenUp`: the failure
between the two statements of giving up. `MintIsCredited` has one, `overtaken`. The run has crashes, resets,
a breaker, a lagging node and a missing cosigner, so none of the three is empty.
`FairPollerSpec`: the loop never stops (`poller::run`), TRON lists what landed, no address is unreadable for
ever (strong fairness of each `Fetch`: the failure alternates with the success), and passes are cut short only
finitely often (`<>[][~PassAborts]_vars`). Hot addresses are fewer than the budget (`MaxHot < Budget`): with as
many, the ORDER BY starves the cold ones by design and the run would fail.
`GasFreeSweep!FairSpec`: verifier, sweeper and signer go on, credits arrive, time passes and is shown, and a relay does not keep a
permit for ever: it runs it or gives it up. No fairness is put on failures, deposits or the operator.
`PlainSweep!FairSpec`: the sweeper's loop never stops, the chains run what they are sent, deposits grow old, and somebody
fills a dry account (the code alerts for it). Failures are bounded and get no fairness.
`DepositBridge!FairSpec`: both services' loops go on; a pass of the bridge takes every row that is due, so each row's
own request is strongly fair (the bridge is busy with another row in between); transfers become final, a retry's time comes, and outbox and watcher
get to an approved intent, which is what `mint_chain` shows of them. Humans, failures and the ageing of transfers get none.

## Findings

Sentences of the code's comments, or of its tests and docs, that were seen not to hold while modelling. Where one limits what a
property says, the property's comment names the exception. First the one that a run shows:

* The reserve rule, "assert `reserve ≥ supply` after the step. It is the property this design exists for"
  (docs/superpowers/specs/2026-09-24-gasfree-transfer-rail-design.md:338-340), does not always hold (`ReserveRule`, run `sweep_outrun`).
  The signer reads an account's balance and activation (gasfree_rail.rs:427) before its nonce (437). If a permit that nobody recorded shows
  in between, the next one is signed with the new nonce but sized on the old account. In the run its fee is sized on an activation that
  is paid already, so its value falls short; what it leaves behind is moved by one more permit, and no deposit held back that one's fee.
  An attempt to prove the rule found it: the proof needed that a permit is sized on the account it will find. Reading the nonce
  first, and once more what depends on it, would close it.

Those that a definition of the models states and TLC violates, but no run checks:

* "One payout permit alive at a time" (payout.rs:269-272, `OnePermitAlive`): after an unclear reply the float is held from
  the moment the worker gave up; a request still on its way is signed later and outlives the hold. The
  controller's nonce still lets only one of two such permits run, which is why `AtMostOnePayout` holds.
* "The halted breaker gates this too" (payout.rs, `NoClaimWhileHalted`): it is read once per pass, and a pass that read it before
  goes on claiming.
* `submitted` is said to mean "on-chain but not yet watcher-credited" (reconciliation.rs:149, `InFlightIsUncredited`): `submit_ok`
  (outbox.rs:324) and `mark_submitted_no_hash` are unguarded and take a credited intent back to `submitted`; reconciliation then
  counts it twice and it ends with a human.
* "Marking it failed would abandon a mint that already happened" (outbox.rs:308-312, `NoMintAbandoned`): a reply lost on the last
  attempt does mark failed a mint that has happened.
* A deposit "is credited late rather than lost" (api.rs:186-187, poller.rs:367-368, `NothingLost`): the watermark is written before the transfers
  are recorded (poller.rs:417), and a failing INSERT is only logged: a transfer older than the overlap is never read again.
  In `direct.rs` the watermark comes last, but a failing `handle` is only logged, too: after an outage, a transfer whose handling fails
  in the pass that reads far back lies behind the next one.

* The "rolling 24h mint total" (breakers.rs:34) is of the intents created in the last 24 hours, not of what was minted in them
  (`AllInFlightWithinCap`): intents that waited for more than a day, behind a tripped breaker, a lagging node or a missing cosigner,
  are in nobody else's sum; the gate lets them through one by one and they are in flight together above the cap. With two
  intents that do not fit together, TLC finds it under the bounds of `mint_gate`. The payouts' total is by the day of the
  submission (`payout_submitted_at`, migration 0009) and has no such gap.
* Giving a mint up is two statements (outbox.rs:89-99), and a failure between them leaves an intent `submitted` with a closed
  row, which nobody takes up again (`HalfGivenUp`, the exception of `MintResolved`).
* "Mints made since the reset were never credited and are picked up on the rescan" (watcher.rs:190): a reset is noticed only while
  the cursor is above the new head; if the new chain has grown to it first, its blocks up to the cursor are never scanned
  (`overtaken`, the exception of `MintIsCredited`).

And those that no definition states:

* `approve_mint_intent` takes a `created` intent of a deposit, for which the verifier has seen no evidence; `forced` marks those.
* A match without a hash takes any transfer that fits (tron_verifier.rs:773 ff.), also one that another deposit names: if the other
  comes first, the deposit without a hash is rejected although its own transfer exists; if it comes second, its request gets an error for ever.
  This is `Excused` in `ConfirmedIsResolved`.
* A direct top-up that is older than `deposit_match_window_hours` when the treasury first hears of it stays `created` for ever.
* The service fee is taken "never on a user's first top-up" (service_fee.rs:1-2), but what counts as an earlier one may fail later.
* The reserve is said to be "identical before and after a sweep" (sweeper.rs:16-18); a TRON row is marked on the broadcast, and
  until the transfer runs its USDT is counted nowhere (`marked`). If it never runs, it is counted nowhere for ever.
* "The next pass will find a now-empty address" (sweeper.rs:264-266): `should_sweep` is false for a balance of zero, so the signer
  is never asked and the rows stay unswept.
* Custody and float are read twice (tron_verifier.rs:325-326) to notice a move. When a filling of the float between the two reads and a sweep
  of the same amount come together, the second reading of custody equals the first, and the reserve is counted too high. This is
  `Cancelled`; `NeverCountsTooMuch` proves that there is no other way.
* `previous_drift_gap` is said to give None if the previous run was no drift; it reads the latest drift there ever was.
* The list of unswept addresses is "not fatal" (reconciliation.rs:216), but read as empty it makes a mismatch, which halts minting.
* "No intent is advanced or expired on the strength of an unread chain" (poller.rs): `sweep_expired` and
  `close_stale_watch_windows` run after a failed fetch.
* A zero-value transfer that is the earliest one at a legacy address fails the table's check on `received_usdt` in every pass, and
  its intent is never confirmed.
* Until the first whole pass of the BSC watcher succeeds, its first block is computed anew from the head, so payments older than the
  lookback are skipped if the first passes keep failing. `NothingIsLost` speaks of what lies behind `origin`.
* Of two transfers to us in one TRON transaction only the first is credited and the other is not reported; BSC reports it.

## Proofs

Everything here holds for every value of the constants that satisfies the modules' named assumptions; the assumptions that say
something about the world are quoted with each module above.

`RedemptionPayoutProofs` proves, for every set of redemptions and transfers, every bound and both rails:

* `TypeCorrect`: `Spec => []TypeOK`.
* `PayoutInvariant`: `Spec => []PayoutInv`.
* `OnePayoutPerBurn`: `Spec => []AtMostOnePayout`.

They rest on the named assumptions of `RedemptionPayout`, of which only `Lag \in 0..Grace` says something
about the world.

`AtMostOnePayout` is not inductive: it says nothing of a transfer that is signed and has not run. The
invariant says when a redemption may be paid again and what must then be true of what was signed for it:

* `RepayableIsClean`: whatever was signed for a `created`, `payout_pending` or `failed` redemption is dead (it
  has not moved the money and can no longer run), and no call for it can still sign;
* `OneLive`: of what was signed for one redemption, at most one is not dead;
* `CallIsAlone`: while a call can still sign for a redemption, all that was signed before is dead;
* `PermitIsRecorded`: a row's recorded nonce and deadline are those of its one live permit, so that the
  settlement judges the right one;
* `AnswerIsTrue`: the reply on its way names what was signed, and a refusal means nothing live was;
* `NonceIsDecisive`: between the deadline check and the nonce read, the deadline and grace stay past;
* `ChainIsSound`: a permit that ran did so before its deadline and moved the nonce.

The one step that pays again after a permit is `ReturnExpired`. There, the deadline and `Grace` are past
(`NonceIsDecisive`), so a permit that ran did so more than `Lag` ago (`ChainIsSound` and `Lag <= Grace`), so any
read of the nonce is above the permit's, against the guard. Each action has a lemma or a step; `StepInv`
collects them.

The books follow from that invariant and one more, `BookInv`:

* `BookedWasTransferred`: `Spec => []PaidWasTransferred`;
* `TransfersAreNotShared`: `Spec => []NoSharedTransfer`;
* `PayoutRefinesPromise`: with a relay that names what it ran, `Spec => PayoutKeepsPromise`.

A row is marked paid some steps after its transfer was looked at, so what was seen must stay true: the recorded reference is
a transfer that pays the row's payee once it moved (`RefsPay`), no two rows hold one reference (`RefsDiffer`: a
relay's transaction is taken only after `paid_by_another`; that read and the write are one step of the model, which
assumes that no human writes a reference just in between), and a row is in the books only behind its burn (`BurnIsFirst`).
The refinement maps the promise's transfers to the moved ones of `Txns`; `AtMostOnePayout` gives that there is no second.
`RelayHonest` is needed because the promise records the transfer that was sent for this very burn.

The day's cap is `OutflowStaysCapped`, `Spec => []DailyOutflowCapped`, by the invariant `OutflowInv`. What left for the day's claims
is not inductive either: the next reply adds to it. A redemption is *exposed* when its claim is in the day and USDT left for it, or still may. A
pass that may still claim has charged all that is exposed, the row it is asking the signer about excepted; the total of the exposed is within the
cap; and only a claim exposes (`OnlyClaimExposes`), which `WithinCap` lets through against `charged`. That nothing exposed is in
neither the pass's sum nor the query's (`BudgetStep`) is where a failed write or a lost reply would bite.

`MintOutboxProofs` proves, for any intents, amounts, attempts, heights and depths:

* `TypeCorrect`, `ApprovedQueued` (`[]ApprovedIsQueued`), `RejectedNeverMinted` (`[]RejectedIsNeverMinted`) and `MintsInFlightCapped`
  (`[]InFlightWithinCap`), always;
* `LedgerFollowsChain` (`[]EventsFollowChain`) and `MintRefinesPromise` (`MintKeepsPromise`); both properties speak of the
  time until the chain is reset.

Three invariants carry them. `RowInv` speaks of the rows: an intent without an outbox row was never handed to a node, and what the stages of
a pass hold in hand are rows that were sent. `LedgerInv` speaks of the chain: the watcher scans only blocks that are deep enough, a
reorganisation removes none of those, a credited intent has its event, and no two blocks, settled or not, mint one intent
(`MintedOnce`). The last is not assumed of the chain: it follows from one ref per intent and from the node, which processes a ref once
(`AppendMintsOnce`). `LedgerInv` holds until a reset (`LedgerInvUntilReset`), since a new chain takes back blocks that were settled; no step
takes a reset back (`ResetsGrow`). What the watcher owes after one is `MintIsCredited`, which TLC checks. `InFlightInv` is the cap: between the gate's answer
and the record of the reply, what the day's intents have in flight together with the one in hand stays within it, since nobody but the worker
adds to what is in flight and the day's intents only grow fewer (`RecentShrinks`).

`DepositBridgeProofs` proves, for any deposits, transfers, scenes, fees and failures:

* `TypeCorrect`: `Spec => []TypeOK`, in which a deposit is requested only when the treasury has its intent and its id is stored;
* `RejectedHadReason`: `Spec => []RejectedOnEvidence`;
* `DepositsAreBacked`: `Spec => []EachIsBacked`, deposit by deposit;
* `MintedStaysBacked`: `Spec => []MintedIsBacked`, the sum over them, since no two claim one transfer (`SumInjected`).

The verifier reads, claims, judges and writes in separate steps. What makes this safe is `CaseIsTrue`: the intent in hand has not
been entered by anybody else, its transfer was seen and matches, it is claimed for it once the claim was made, the cap leaves what
the sweep may cost, and a rejection has a reason; and every step of every other actor keeps that. `EnteredIsBacked` says the same of
what was written, which no step writes again. All of the bridge is, for the treasury, either a request or nothing
(`BridgeStepIsVerifierStep`), so the two sides' invariants are proved apart and joined in `BridgeInvHolds`.

`DepositIntakeProofs` proves, for any requests, top-ups, payments, intents, times and failures:

* `IntakeTypes`: `Spec => []TypeOK`;
* `AddressesAreWatched`: `Spec => []HandedOutIsWatched`;
* `CreditsAreRight`: `Spec => []RightlyCredited`;
* `NoPaymentIsLost`: `Spec => NothingIsLost`, an action property.

The addresses: the sequence gives an index once (`IndicesAreOwn`), a row's index was allocated by a request of its user (`RowsAreAllocated`),
and an answer is the row's (`AnswersAreRows`). The three watchers have invariants of one shape: *a pass has read all that its last write will take
from the passes after it, and each thing it read is at hand or settled*. For top-ups this is `DirectReadInFull`, of the watermark that will be
written, which rests on TRON showing in time (`ShownInTime`); for BSC `BscReadInFull`, of the blocks up to the new cursor, which
rests on those blocks being deep enough to stay (`BscPassInv` with `BscChainInv`) and so has to follow the head; for
the old intents `LegacyDealtWith`, of the windows that are about to be closed. That a credit is right takes what the rows
themselves say (`BscRowInv`, `WritesInOrder`): who asked, when, and that what was reported is not credited in a later pass.

Of `DepositPoller` it proves, for any addresses, transfers, budget and times with `ListingLag + PassLife <= ReadOverlap`:

* `PollerTypes`: `PollerSpec => []PollerTypeOK`;
* `ReadingSkipsNothing`: `PollerSpec => []NothingSkipped`.

`NothingSkipped` is not inductive either: it must be known, when the watermark moves to now, that what the read
missed is recent. `FetchedSawAll` says it: what a pass did not find at an address it read landed no earlier than
`ListingLag` before the pass began, because TRON did not show it yet or it had not landed. With the pass no longer
than `PassLife` (`Timely`) that is within the overlap behind the new watermark. `InHand` adds that what a pass holds before
the watermark moves is still in reach, so a pass cut short loses nothing.

`GasFreeSweepProofs` proves, for any deposits, amounts, maxima and numbers of failures:

* `TypeCorrect`: `Spec => []TypeOK`;
* `SweptDepositsMoved`: `Spec => []SweptWasMoved`;
* `FeesWithinHolds`: `Spec => []FeeWithinHold`;
* `ReserveStaysCovered`: `Spec => []ReserveCoversMinted`.

For `SweptWasMoved`, the settlement sees no more than a nonce above the permit's, so the invariant must say that whatever
moved the nonce moved the deposits, even when it was not the recorded permit: of the permits at a nonce one runs (`OneNonce`), and each
that may still be signed or run is sized on all the deposits that a permit on the books at that nonce covers (`SignsForAll`, `RunsForAll`);
past the nonce they are in `moved` (`PastIsMoved`). For `FeeWithinHold`, the sweeper compares its own fee, and the signer
computes another from the chain: `RecordImpliesActive` says the treasury's record of a first transfer implies the
chain's, so the signer's is never the higher, and `CallWithinHold` carries the comparison through the call.

For `ReserveCoversMinted` the two are not enough: they speak of one permit, and the reserve is what all the permits left. The invariant
`ReserveInv` says what custody has of the deposits that were moved, whatever the maximum of the last run (`level`) was: what all of them
may mint, and, whichever one of them is picked, all that this one brought beside what the others may mint, less one fee of that level and, until somebody else
pays for it (`Spared`), the activation. So the fee of the next permit can be charged to the deposit for which it was asked: that one held back at least the
permit's maximum (`CallPayer`, `RelayPayer`), and every deposit that is still to move held back at least `level` (`Paid`). What
was not moved is at the account (`StillThere`), and a permit moves what is there (`CallSized`, `RelaySized`), which is what being outrun breaks.

`PlainSweepProofs` proves, for any deposits, addresses, amounts and failures:

* `TypeCorrect`: `Spec => []TypeOK`;
* `SweptMoneyHasLeft`: `Spec => []SweptHasLeft`;
* `SweepRefinesPromise`: `Spec => SweepKeepsPromise`.

What must be known between the pass's steps: the rows it listed can still be swept (`ListedIsSweepable`), what the signer saw at a BSC address is
there until its transfer runs, and the listed rows that it did not see had been moved before (`SeesThemAll`), and when rows are
about to be marked, all the listed rows of that address have left it (`AboutToMark`). Rows that arrived after the list are not
in it, so they are not marked with it.

`ReconciliationProofs` proves, for any deposits, addresses, amounts, balances and orders of events:

* `ReconciliationTypes`: `Spec => []TypeOK`, in which the float is never negative;
* `NeverCountsTooMuch`: `Spec => []NeverOverCounted`;
* `OkCanBeBelieved`: `Spec => []OkMeansBacked`;
* `AlarmsAreExplained`: `Spec => []NoUnexplainedAlarm`.

The three speak of the moment of the verdict, so the invariant must say at each of the run's stages what its figures are worth by then, against
what is there now and what is still to be read. `CountedOnce` does it from above: what was read is at most custody, float, what was paid
out meanwhile and what the addresses already read still hold (`Counted`), and between the two readings of custody up to one filling more
(`Twice`), which the second reading excludes unless a sweep landed. `NothingMissed` does it from below: the liability that was
read is at most what was counted, what waits at the addresses left to read (`Waiting`), and what custody and float gained since they were read. There the
order of the readings matters: a sweep takes from `Waiting` and gives to custody, which the second reading compares, but on BSC nothing is
compared, and what arrives after the pay-in address was read is `swept`. That nothing verified is missing from the lists is
`KnownOnTron` (up to `marked`) and `KnownOnBsc`, and `OwedIsKnown` and `NothingLeft` tie the ledger to the money. `MintedIsOwed` follows the
supply through the ledger and the mints in flight. `RowsAreTrue` is what the rows may claim, `FloatIsKept` what is in the float, and
`InOrder` which causes a stage can have. The sums change by what a step moves (`LandSums`, `ArriveSums`, `ReadSums`), for any amounts.

Totals. `SumOver` is the community modules' fold, which takes the elements of a set in an order nobody knows. `SumsProofs` proves that the recursion behind it
exists (`TableExists`), that taking an element out of a sum takes its own amount (`SumRemove`), and from these what the
proofs cite: `SumAdd`, `SumMonotone`, `SumUnion`, `SumSame`, `SumInjected`. The library's induction theorems take an operator and cannot be
used; instead each lemma takes a smallest subset for which it fails (`MinimalSubset`, by the well-foundedness of strict inclusion).
Sums need finite sets, so `RedemptionPayout`, `MintOutbox`, `DepositVerifier`, `GasFreeSweep` and `Reconciliation` assume `FinitelyMany`: a table has finitely many rows,
and a chain finitely many transfers.

Every invariant that a passing run checks is one of these theorems, and so are the action property `NothingIsLost` and the refinements of `PayoutPromise`,
`MintPromise` and `SweepPromise`. Only model-checked: everything about liveness (fairness and ENABLED are outside what TLAPS proves here).

## What is left

In the order of their worth: the lag computed by the chain sync guard
and the cut of BSC amounts as operators with their widths; a redemption intent's creation and expiry in front of `RedemptionPayout`.

## Not modelled

Keys, signatures, address and transaction encodings, and the key-management signer: pure functions with
published test vectors. Metrics, alerts, logging and configuration parsing. The HTTP layer beyond
what a handler does to the state: authentication, rate limits and the routes that only read. The orchestrator's redemption routes
forward a request and keep a pair of ids; they decide nothing. The relay client's parsing and the self test.
The tripwire of the GasFree sweeper beyond its effect, which is to end the pass. The conversion of 18-decimal BSC amounts: amounts
are micro-USDT in the models, and what is less than one is `TooSmall`. In `Reconciliation`, the GasFree accounts: what a permit leaves
in one is `GasFreeSweep`'s, and they are read as the other addresses are; and `previous_drift_gap`, which decides only how loud the alert about a drift is. In
`MintOutbox`, the gap inside `credit_mint`'s transaction (watcher.rs:29-42): at READ COMMITTED a worker's write may come between its insert of
the event and its updates, which here are one step. Alerts are left out even where a comment relies
on a human reading them; the operator's actions need no alert to happen.
