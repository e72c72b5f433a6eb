-------------------------- MODULE RedemptionPayout --------------------------
(***************************************************************************)
(* The redemption payout worker of treasury-service (payout.rs), with the  *)
(* burn confirmation that feeds it (watcher.rs), the signer it calls, the  *)
(* relay and chain the signer's permits and transfers reach, and the       *)
(* operator its alerts ask for help.                                       *)
(*                                                                         *)
(* The worker is one sequential task: drain_once, confirm_payouts_once and *)
(* confirm_gasfree_payouts_once, in turn, forever.  Everything else runs   *)
(* between its steps: a step here ends at each await whose answer the      *)
(* worker goes on to use.  A crash loses the worker's variables and keeps  *)
(* the rows.                                                               *)
(*                                                                         *)
(* Time is a clock of abstract ticks.  PermitLife stands for               *)
(* LONGEST_PERMIT_SECS, Grace for DEADLINE_GRACE_SECS.                     *)
(***************************************************************************)
EXTENDS Integers, FiniteSets, Sums

CONSTANTS
  Redemptions,   \* redemption intents, numbered in the order of created_at
  Txns,          \* transfers and permits: a trace id and its transaction are one
  NoTx,          \* SQL NULL for a transaction or a trace
  Amount,        \* amount_clt of each redemption
  Payee,         \* payout_address and quoted amount of each redemption
  DailyCap,      \* daily_payout_cap_clt
  GasFreeRail,   \* TRUE: the float pays by GasFree permit; FALSE: in TRX
  RelayHonest,   \* TRUE: the relay's record of a permit names that permit's transaction
  RelayTracks,   \* TRUE: the relay reports every permit it accepted as in flight
  PermitLife,    \* the longest a signed permit or transfer can still run
  Grace,         \* how long after a deadline a read of the nonce is trusted
  CallBound,     \* how long a call can be on its way to the signing step
  Lag,           \* how far behind a nonce read can be
  Day,           \* the 24 hours of the payout budget
  WritesFail,    \* TRUE: a database write may fail
  MaxNow,        \* bound: the clock stops here
  SignUntil,     \* bound: nothing is signed later
  BreakerTrips,  \* TRUE: the breaker is tripped and reset while the worker runs
  MaxNonce,      \* bound: spends outside this service stop here
  MaxCrashes     \* bound: crashes of the worker

None == -1       \* SQL NULL for a number
NoOne == 0       \* no redemption

ASSUME RedemptionsAssumption == Redemptions \subseteq Nat \ {NoOne}
ASSUME FinitelyMany == IsFiniteSet(Redemptions)
ASSUME TxnsAssumption == NoTx \notin Txns
ASSUME ConfigAssumption ==
  /\ Amount \in [Redemptions -> Nat]
  /\ DailyCap \in Nat
  /\ GasFreeRail \in BOOLEAN
  /\ RelayHonest \in BOOLEAN
  /\ RelayTracks \in BOOLEAN
  /\ WritesFail \in BOOLEAN
  /\ BreakerTrips \in BOOLEAN
ASSUME ClockAssumption ==
  /\ PermitLife \in Nat \ {0}
  /\ Grace \in Nat
  /\ CallBound \in Nat
  /\ Lag \in 0..Grace
  /\ Day \in Nat
  /\ MaxNow \in Nat
  /\ SignUntil \in Nat
  /\ MaxNonce \in Nat
  /\ MaxCrashes \in Nat

VARIABLES
  status,         \* redemption_intents.status
  payoutRef,      \* redemption_intents.payout_ref
  traceId,        \* redemption_intents.payout_trace_id
  permitNonce,    \* redemption_intents.payout_permit_nonce
  permitDeadline, \* redemption_intents.payout_permit_deadline
  claimedAt,      \* redemption_intents.payout_submitted_at
  events,     \* treasury_events: <<kind, redemption>>, unique by its index
  halted,     \* breaker_state.minting_halted
  pc,         \* where the worker is
  todo,       \* rows of the current pass still to visit
  cur,        \* the row of the current signer call or nonce check
  charged,    \* the redemptions whose amounts make up day_total in this pass
  answer,     \* the signer's reply on its way back to the worker
  calls,      \* until when a request at the signer can reach its signing step
  paysFor,    \* the redemption each signed transfer or permit pays
  atNonce,    \* the nonce a permit was signed at
  runsUntil,  \* the last moment it can run
  held,       \* the relay accepted it
  fate,       \* what became of it
  ranAt,      \* when
  chainNonce, \* the float owner's nonce on the GasFree controller
  now,        \* the clock
  crashes     \* how often the worker has crashed

rowVars == <<status, payoutRef, traceId, permitNonce, permitDeadline, claimedAt>>
dbVars == <<rowVars, events, halted>>
workerVars == <<pc, todo, cur, charged, answer>>
txVars == <<paysFor, atNonce, runsUntil, held, fate, ranAt>>
chainVars == <<txVars, chainNonce>>
vars == <<dbVars, workerVars, calls, chainVars, now, crashes>>

Statuses == {"created", "payout_pending", "payout_submitted", "paid", "failed"}
Stages == {"idle", "gate", "select", "rows", "calling", "confirm", "settle", "deadline"}
EventKinds == {"burn_redeemed", "custody_withdrawal"}
Fates == {"none", "moved", "reverted"}

NoAnswer == [kind |-> "none", tx |-> NoTx]
AnswerKinds == {"none", "paid", "submitted", "relay_refused", "not_active", "refused"}

TypeOK ==
  /\ status \in [Redemptions -> Statuses]
  /\ payoutRef \in [Redemptions -> Txns \cup {NoTx}]
  /\ traceId \in [Redemptions -> Txns \cup {NoTx}]
  /\ permitNonce \in [Redemptions -> Nat \cup {None}]
  /\ permitDeadline \in [Redemptions -> Nat \cup {None}]
  /\ claimedAt \in [Redemptions -> Nat \cup {None}]
  /\ events \subseteq EventKinds \X Redemptions
  /\ halted \in BOOLEAN
  /\ pc \in Stages
  /\ todo \subseteq Redemptions
  /\ cur \in Redemptions \cup {NoOne}
  /\ charged \subseteq Redemptions
  /\ answer \in [kind : AnswerKinds, tx : Txns \cup {NoTx}]
  /\ pc = "calling" =>
       /\ cur \in Redemptions
       /\ answer.kind \in {"paid", "submitted", "relay_refused"} => answer.tx \in Txns
  /\ pc # "calling" => answer = NoAnswer
  /\ calls \in [Redemptions -> Nat \cup {None}]
  /\ paysFor \in [Txns -> Redemptions \cup {NoOne}]
  /\ atNonce \in [Txns -> Nat]
  /\ runsUntil \in [Txns -> Nat]
  /\ held \in [Txns -> BOOLEAN]
  /\ fate \in [Txns -> Fates]
  /\ ranAt \in [Txns -> Nat]
  /\ chainNonce \in Nat
  /\ now \in Nat
  /\ crashes \in Nat

Init ==
  /\ status = [r \in Redemptions |-> "created"]
  /\ payoutRef = [r \in Redemptions |-> NoTx]
  /\ traceId = [r \in Redemptions |-> NoTx]
  /\ permitNonce = [r \in Redemptions |-> None]
  /\ permitDeadline = [r \in Redemptions |-> None]
  /\ claimedAt = [r \in Redemptions |-> None]
  /\ events = {}
  /\ halted = FALSE
  /\ pc = "idle"
  /\ todo = {}
  /\ cur = NoOne
  /\ charged = {}
  /\ answer = NoAnswer
  /\ calls = [r \in Redemptions |-> None]
  /\ paysFor = [t \in Txns |-> NoOne]
  /\ atNonce = [t \in Txns |-> 0]
  /\ runsUntil = [t \in Txns |-> 0]
  /\ held = [t \in Txns |-> FALSE]
  /\ fate = [t \in Txns |-> "none"]
  /\ ranAt = [t \in Txns |-> 0]
  /\ chainNonce = 0
  /\ now = 0
  /\ crashes = 0

-----------------------------------------------------------------------------
(* Helpers.                                                                *)

\* A write of a redemption row whose failure the worker only reports.
Write(update) == update \/ (WritesFail /\ UNCHANGED rowVars)

SetStatus(r, s) ==
  /\ status' = [status EXCEPT ![r] = s]
  /\ UNCHANGED <<payoutRef, traceId, permitNonce, permitDeadline, claimedAt>>

SetRef(r, t) ==
  /\ payoutRef' = [payoutRef EXCEPT ![r] = t]
  /\ UNCHANGED <<status, traceId, permitNonce, permitDeadline, claimedAt>>

SetPermit(r, t, n, d) ==
  /\ traceId' = [traceId EXCEPT ![r] = t]
  /\ permitNonce' = [permitNonce EXCEPT ![r] = n]
  /\ permitDeadline' = [permitDeadline EXCEPT ![r] = d]

Submitted(r) == status[r] = "payout_submitted"

\* The rolling window of daily_payout_total, keyed on payout_submitted_at.
InWindow(r) == claimedAt[r] # None /\ claimedAt[r] > now - Day
SpentToday ==
  {r \in Redemptions : status[r] \in {"payout_submitted", "paid"} /\ InWindow(r)}
TotalOf(S) == SumOver(Amount, S)

\* Mutant of PermitInDoubt: an unclear payout, whose nonce is unknown, holds nothing.
PermitInDoubtByNonce ==
  \E r \in Redemptions : Submitted(r) /\ payoutRef[r] = NoTx /\ permitNonce[r] # None

\* The query behind "one payout permit alive at a time".
PermitInDoubt ==
  \E r \in Redemptions :
    /\ Submitted(r) /\ payoutRef[r] = NoTx
    /\ permitNonce[r] # None \/ permitDeadline[r] > now

\* The transfers and permits signed for a redemption, and what they can still do.
SignedFor(r) == {t \in Txns : paysFor[t] = r}
MayRun(t) == paysFor[t] # NoOne /\ fate[t] = "none" /\ now <= runsUntil[t]
Moved(t) == fate[t] = "moved"

\* A request at the signer that can still reach the signing step.
Callable(r) == calls[r] # None /\ now <= calls[r]
CallOver(r) == calls' = [calls EXCEPT ![r] = None]

NextRow(r) == r \in todo /\ \A s \in todo : r <= s

-----------------------------------------------------------------------------
(* watcher::confirm_burn: one burn in a confirmed block.                   *)

\* Mutant of ConfirmBurn: the status moves and the ledger is not told.
ConfirmBurnUnledgered(r) ==
  /\ status[r] = "created"
  /\ SetStatus(r, "payout_pending")
  /\ UNCHANGED <<events, halted, workerVars, calls, chainVars, now, crashes>>

ConfirmBurn(r) ==
  /\ status[r] = "created"
  /\ SetStatus(r, "payout_pending")
  /\ events' = events \cup {<<"burn_redeemed", r>>}
  /\ UNCHANGED <<halted, workerVars, calls, chainVars, now, crashes>>

\* The burn names the redemption but its sender or amount is wrong: never paid.
MismatchedBurn(r) ==
  /\ status[r] = "created"
  /\ SetStatus(r, "failed")
  /\ UNCHANGED <<events, halted, workerVars, calls, chainVars, now, crashes>>

\* Reconciliation, the breakers and an operator, all outside this worker.
SetHalted ==
  /\ BreakerTrips
  /\ halted' = ~halted
  /\ UNCHANGED <<rowVars, events, workerVars, calls, chainVars, now, crashes>>

-----------------------------------------------------------------------------
(* payout::drain_once.                                                     *)

\* On to the next row, charging the budget or not; or out of drain_once.
NextInPass(spent) == pc' = "rows" /\ todo' = todo /\ charged' = charged \cup spent
EndPass == pc' = "confirm" /\ todo' = {} /\ charged' = {}

ReadBreaker ==
  /\ pc = "idle"
  /\ pc' = IF halted THEN "confirm" ELSE "gate"
  /\ UNCHANGED <<dbVars, todo, cur, charged, answer, calls, chainVars, now, crashes>>

CheckPermits ==
  /\ pc = "gate"
  /\ pc' = IF PermitInDoubt THEN "confirm" ELSE "select"
  /\ UNCHANGED <<dbVars, todo, cur, charged, answer, calls, chainVars, now, crashes>>

SelectDue ==
  /\ pc = "select"
  /\ todo' = {r \in Redemptions : status[r] = "payout_pending"}
  /\ charged' = SpentToday
  /\ pc' = "rows"
  /\ UNCHANGED <<dbVars, cur, answer, calls, chainVars, now, crashes>>

\* More than a whole day's budget: skipped, so that it blocks nobody behind it.
SkipOverCap(r) ==
  /\ pc = "rows" /\ NextRow(r)
  /\ Amount[r] > DailyCap
  /\ todo' = todo \ {r}
  /\ UNCHANGED <<dbVars, pc, cur, charged, answer, calls, chainVars, now, crashes>>

WithinCap(r) == Amount[r] <= DailyCap /\ TotalOf(charged) + Amount[r] <= DailyCap

StopAtDailyCap(r) ==
  /\ pc = "rows" /\ NextRow(r)
  /\ Amount[r] <= DailyCap
  /\ TotalOf(charged) + Amount[r] > DailyCap
  /\ EndPass
  /\ UNCHANGED <<dbVars, cur, answer, calls, chainVars, now, crashes>>

SetClaimed(r) ==
  /\ status' = [status EXCEPT ![r] = "payout_submitted"]
  /\ claimedAt' = [claimedAt EXCEPT ![r] = now]
  /\ UNCHANGED <<payoutRef, traceId, permitNonce, permitDeadline>>

\* The claim is committed before the signer is called.  Its UPDATE always finds the
\* row: one worker runs, and nobody else moves a pending row.
Claim(r) ==
  /\ pc = "rows" /\ NextRow(r) /\ WithinCap(r)
  /\ status[r] = "payout_pending"
  /\ SetClaimed(r)
  /\ calls' = [calls EXCEPT ![r] = now + CallBound]
  /\ pc' = "calling" /\ cur' = r /\ todo' = todo \ {r}
  /\ UNCHANGED <<events, halted, charged, answer, chainVars, now, crashes>>

\* The claim's UPDATE errors, having committed or not: no call is made.
ClaimErrors(r) ==
  /\ WritesFail
  /\ pc = "rows" /\ NextRow(r) /\ WithinCap(r)
  /\ status[r] = "payout_pending"
  /\ Write(SetClaimed(r))
  /\ todo' = todo \ {r}
  /\ UNCHANGED <<events, halted, pc, cur, charged, answer, calls, chainVars, now, crashes>>

EndOfRows ==
  /\ pc = "rows" /\ todo = {}
  /\ EndPass
  /\ UNCHANGED <<dbVars, cur, answer, calls, chainVars, now, crashes>>

\* Any read of the pass fails: drain_once returns Err and the confirmations run.
DrainReadFails ==
  /\ pc \in {"idle", "gate", "select"}
  /\ pc' = "confirm"
  /\ UNCHANGED <<dbVars, todo, cur, charged, answer, calls, chainVars, now, crashes>>

\* The signer's reply, taken: the call is over.
Answered(kind) == pc = "calling" /\ answer.kind = kind /\ answer' = NoAnswer /\ cur' = NoOne

\* Mutant of OnPaid: the budget is charged only when the write succeeds.
OnPaidChargedAfterWrite ==
  /\ Answered("paid")
  /\ \/ SetRef(cur, answer.tx) /\ NextInPass({cur})
     \/ WritesFail /\ UNCHANGED rowVars /\ NextInPass({})
  /\ UNCHANGED <<events, halted, calls, chainVars, now, crashes>>

\* Charged before the write, which may fail after the money has left.
OnPaid ==
  /\ Answered("paid")
  /\ Write(SetRef(cur, answer.tx))
  /\ NextInPass({cur})
  /\ UNCHANGED <<events, halted, calls, chainVars, now, crashes>>

\* The signed permit's nonce and deadline, and its trace when the relay took it.
RecordPermit(trace) ==
  /\ SetPermit(cur, trace, atNonce[answer.tx], runsUntil[answer.tx])
  /\ UNCHANGED <<status, payoutRef, claimedAt>>

\* Mutant of OnSubmitted: a permit that could not be recorded is taken as not sent.
OnSubmittedReturned ==
  /\ Answered("submitted")
  /\ \/ RecordPermit(answer.tx)
     \/ WritesFail /\ SetStatus(cur, "payout_pending")
  /\ EndPass
  /\ UNCHANGED <<events, halted, calls, chainVars, now, crashes>>

OnSubmitted ==
  /\ Answered("submitted")
  /\ Write(RecordPermit(answer.tx))
  /\ EndPass
  /\ UNCHANGED <<events, halted, calls, chainVars, now, crashes>>

OnRelayRefused ==
  /\ Answered("relay_refused")
  /\ Write(RecordPermit(NoTx))
  /\ EndPass
  /\ UNCHANGED <<events, halted, calls, chainVars, now, crashes>>

\* Mutant of BackToPending: a status the schema does not have.
BackToPendingMisspelt(r) == SetStatus(r, "pending")

BackToPending(r) ==
  IF Submitted(r) THEN SetStatus(r, "payout_pending") ELSE UNCHANGED rowVars

OnFloatNotActive ==
  /\ Answered("not_active")
  /\ Write(BackToPending(cur))
  /\ EndPass
  /\ UNCHANGED <<events, halted, calls, chainVars, now, crashes>>

\* FloatDry, CapExceeded, NeedsTrx and Refused: provably nothing was broadcast.
OnRefused ==
  /\ Answered("refused")
  /\ Write(BackToPending(cur))
  /\ NextInPass({})
  /\ UNCHANGED <<events, halted, calls, chainVars, now, crashes>>

\* Nothing else is signed until a permit of unknown nonce can no longer run.
HoldFloat(until) ==
  /\ permitDeadline' = [permitDeadline EXCEPT ![cur] = until]
  /\ UNCHANGED <<status, payoutRef, traceId, permitNonce, claimedAt>>

\* Mutant of OnAmbiguous: an unclear reply is retried like a refusal.
OnAmbiguousRetried ==
  /\ pc = "calling"
  /\ answer' = NoAnswer /\ cur' = NoOne
  /\ SetStatus(cur, "payout_pending")
  /\ NextInPass({})
  /\ UNCHANGED <<events, halted, calls, chainVars, now, crashes>>

\* A timeout, a 500, an unreadable body: it may have been broadcast.  The reply
\* can be lost at any time, before the signer acts or after.
OnAmbiguous ==
  /\ pc = "calling"
  /\ answer' = NoAnswer /\ cur' = NoOne
  /\ IF GasFreeRail
       THEN /\ Write(HoldFloat(now + PermitLife + Grace))
            /\ EndPass
       ELSE UNCHANGED rowVars /\ NextInPass({cur})
  /\ UNCHANGED <<events, halted, calls, chainVars, now, crashes>>

-----------------------------------------------------------------------------
(* payout::confirm_payouts_once.                                           *)

PayIntent(r, t) ==
  /\ events' = events \cup {<<"custody_withdrawal", r>>}
  /\ status' = [status EXCEPT ![r] = "paid"]
  /\ payoutRef' = [payoutRef EXCEPT ![r] = t]
  /\ UNCHANGED <<traceId, permitNonce, permitDeadline, claimedAt>>

\* Mutant of ConfirmPaid: a transaction in a block counts as paid, moved or not.
ConfirmPaidWhenMined(r) ==
  /\ pc = "confirm"
  /\ Submitted(r) /\ payoutRef[r] # NoTx
  /\ fate[payoutRef[r]] # "none"
  /\ PayIntent(r, payoutRef[r])
  /\ UNCHANGED <<halted, workerVars, calls, chainVars, now, crashes>>

\* A submitted row with a reference, in an irreversible block and successful.
\* Any other answer leaves the row for a later pass.
ConfirmPaid(r) ==
  /\ pc = "confirm"
  /\ Submitted(r) /\ payoutRef[r] # NoTx
  /\ Moved(payoutRef[r])
  /\ PayIntent(r, payoutRef[r])
  /\ UNCHANGED <<halted, workerVars, calls, chainVars, now, crashes>>

EndOfConfirm ==
  /\ pc = "confirm"
  /\ pc' = IF GasFreeRail THEN "settle" ELSE "idle"
  /\ UNCHANGED <<dbVars, todo, cur, charged, answer, calls, chainVars, now, crashes>>

-----------------------------------------------------------------------------
(* payout::confirm_gasfree_payouts_once.                                   *)

\* Mutant of PermitRow: only a permit with a trace is followed.
PermitRowTraced(r) ==
  Submitted(r) /\ payoutRef[r] = NoTx /\ permitNonce[r] # None /\ traceId[r] # NoTx

\* The rows it visits, each with the permit recorded for it.
PermitRow(r) == Submitted(r) /\ payoutRef[r] = NoTx /\ permitNonce[r] # None

\* The transactions the relay may name for a trace.
RelayNames(t) == IF RelayHonest THEN {t} ELSE Txns

\* confirmed_transfer: from the float, to this payee, of this amount.
ConfirmedTransfer(t, r) == Moved(t) /\ Payee[paysFor[t]] = Payee[r]

\* Mutant of PaidByAnother: not checked.
PaidByAnotherUnchecked(r, t) == FALSE

PaidByAnother(r, t) == \E s \in Redemptions \ {r} : payoutRef[s] = t

SettleAsPaid(r) ==
  /\ pc = "settle" /\ PermitRow(r)
  /\ traceId[r] # NoTx
  /\ \E t \in RelayNames(traceId[r]) :
       /\ ConfirmedTransfer(t, r)
       /\ ~PaidByAnother(r, t)
       /\ PayIntent(r, t)
  /\ UNCHANGED <<halted, workerVars, calls, chainVars, now, crashes>>

\* Mutant of SettleByNonce: no margin for a node that lags.
SettleAtDeadline(r) ==
  /\ pc = "settle" /\ PermitRow(r)
  /\ now > permitDeadline[r]
  /\ pc' = "deadline" /\ cur' = r
  /\ UNCHANGED <<dbVars, todo, charged, answer, calls, chainVars, now, crashes>>

\* No transfer found, and the deadline and its margin are past: the nonce decides.
SettleByNonce(r) ==
  /\ pc = "settle" /\ PermitRow(r)
  /\ now > permitDeadline[r] + Grace
  /\ pc' = "deadline" /\ cur' = r
  /\ UNCHANGED <<dbVars, todo, charged, answer, calls, chainVars, now, crashes>>

\* What a read of the nonce may say: a node lags the chain by at most Lag.
NonceReads == {n \in 0..chainNonce :
  \A t \in Txns : (Moved(t) /\ ranAt[t] < now - Lag) => n > atNonce[t]}

NextPermit == pc' = "settle" /\ cur' = NoOne

\* The permit never ran and no longer can: the redemption is paid again.
ReturnExpired(r) ==
  /\ pc = "deadline" /\ cur = r
  /\ \E n \in NonceReads : n <= permitNonce[r]
  /\ Submitted(r) /\ payoutRef[r] = NoTx
  /\ Write(/\ status' = [status EXCEPT ![r] = "payout_pending"]
           /\ SetPermit(r, NoTx, None, None)
           /\ UNCHANGED <<payoutRef, claimedAt>>)
  /\ NextPermit
  /\ UNCHANGED <<events, halted, todo, charged, answer, calls, chainVars, now, crashes>>

\* The nonce moved past the permit and no transfer was found: a human's now.
HandToHuman(r) ==
  /\ pc = "deadline" /\ cur = r
  /\ \E n \in NonceReads : n > permitNonce[r]
  /\ Write(/\ permitNonce' = [permitNonce EXCEPT ![r] = None]
           /\ UNCHANGED <<status, payoutRef, traceId, permitDeadline, claimedAt>>)
  /\ NextPermit
  /\ UNCHANGED <<events, halted, todo, charged, answer, calls, chainVars, now, crashes>>

\* The signer cannot name the float's owner, or the nonce is unreadable.
NonceUnread(r) ==
  /\ pc = "deadline" /\ cur = r
  /\ NextPermit
  /\ UNCHANGED <<dbVars, todo, charged, answer, calls, chainVars, now, crashes>>

EndOfSettle ==
  /\ pc = "settle"
  /\ pc' = "idle"
  /\ UNCHANGED <<dbVars, todo, cur, charged, answer, calls, chainVars, now, crashes>>

-----------------------------------------------------------------------------
(* tron-signer, payout and payout_gasfree.  A reply reaches the worker     *)
(* only while it still waits for this call.                                *)

Reply(r, kind, t) ==
  answer' = IF pc = "calling" /\ cur = r THEN [kind |-> kind, tx |-> t] ELSE answer

\* SignUntil bounds signing, where every deadline and its margin must fit the clock.
CanSign(r, t) ==
  /\ Callable(r)
  /\ paysFor[t] = NoOne
  /\ now <= SignUntil

Sign(r, t, nonce, until, accepted) ==
  /\ paysFor' = [paysFor EXCEPT ![t] = r]
  /\ atNonce' = [atNonce EXCEPT ![t] = nonce]
  /\ runsUntil' = [runsUntil EXCEPT ![t] = until]
  /\ held' = [held EXCEPT ![t] = accepted]
  /\ UNCHANGED <<fate, ranAt>>

\* A check before signing says no: cap, balance, energy, code, activation, nonce.
SignerRefuses(r) ==
  /\ Callable(r)
  /\ CallOver(r)
  /\ \E kind \in {"refused"} \cup (IF GasFreeRail THEN {"not_active"} ELSE {}) :
       Reply(r, kind, NoTx)
  /\ UNCHANGED <<dbVars, pc, todo, cur, charged, chainVars, now, crashes>>

\* sign_and_broadcast: the transaction can be mined until it expires.
SignerBroadcasts(r, t) ==
  /\ ~GasFreeRail
  /\ CanSign(r, t)
  /\ CallOver(r)
  /\ Sign(r, t, 0, now + PermitLife, FALSE)
  /\ Reply(r, "paid", t)
  /\ UNCHANGED <<dbVars, pc, todo, cur, charged, chainNonce, now, crashes>>

\* next_nonce: nothing is signed while the relay reports a transfer in flight.
RelayInFlight == RelayTracks /\ \E t \in Txns : held[t] /\ MayRun(t)

\* A permit is signed at the chain's nonce and the relay accepts or refuses it.
\* A refused one stays valid: only the relay's word says it will not run.
SignerSignsPermit(r, t) ==
  /\ GasFreeRail
  /\ CanSign(r, t)
  /\ ~RelayInFlight
  /\ CallOver(r)
  /\ \E accepted \in BOOLEAN, life \in 1..PermitLife :
       /\ Sign(r, t, chainNonce, now + life, accepted)
       /\ Reply(r, IF accepted THEN "submitted" ELSE "relay_refused", t)
  /\ UNCHANGED <<dbVars, pc, todo, cur, charged, chainNonce, now, crashes>>

\* The request never arrives, or its handler dies with the connection.
CallLost(r) ==
  /\ calls[r] # None
  /\ CallOver(r)
  /\ UNCHANGED <<dbVars, workerVars, chainVars, now, crashes>>

-----------------------------------------------------------------------------
(* The chain: TRON, and the GasFree controller on it.                      *)

Run(t, outcome) ==
  /\ fate' = [fate EXCEPT ![t] = outcome]
  /\ ranAt' = [ranAt EXCEPT ![t] = now]
  /\ UNCHANGED <<paysFor, atNonce, runsUntil, held>>

\* A TRX-rail transfer is mined: it moves the USDT, or reverts and moves nothing.
Mine(t) ==
  /\ ~GasFreeRail /\ MayRun(t)
  /\ \E outcome \in {"moved", "reverted"} : Run(t, outcome)
  /\ UNCHANGED <<dbVars, workerVars, calls, chainNonce, now, crashes>>

\* The controller runs a permit: before its deadline, at its nonce, once.
RunPermit(t) ==
  /\ GasFreeRail /\ MayRun(t)
  /\ atNonce[t] = chainNonce
  /\ Run(t, "moved")
  /\ chainNonce' = chainNonce + 1
  /\ UNCHANGED <<dbVars, workerVars, calls, now, crashes>>

\* The float's activation, or a transfer made by hand, spends a nonce.
SpendElsewhere ==
  /\ GasFreeRail
  /\ chainNonce < MaxNonce
  /\ chainNonce' = chainNonce + 1
  /\ UNCHANGED <<dbVars, workerVars, calls, txVars, now, crashes>>

Tick ==
  /\ now < MaxNow
  /\ now' = now + 1
  /\ UNCHANGED <<dbVars, workerVars, calls, chainVars, crashes>>

-----------------------------------------------------------------------------
(* The operator the alerts address, who acts on a row the worker has left  *)
(* to them and reads the chain first.                                      *)

\* Submitted, with nothing the worker would still settle by itself.
LeftToHuman(r) ==
  /\ Submitted(r) /\ permitNonce[r] = None
  /\ ~(pc = "calling" /\ cur = r)

\* "Found it?  Set payout_ref to that tx hash."
HumanSetsRef(r, t) ==
  /\ LeftToHuman(r)
  /\ t \in SignedFor(r) /\ Moved(t)
  /\ \A s \in Redemptions : payoutRef[s] # t
  /\ SetRef(r, t)
  /\ UNCHANGED <<events, halted, workerVars, calls, chainVars, now, crashes>>

\* "Found nothing?  Return the intent to payout_pending by hand", once nothing
\* signed for it can run; the same for a transfer that reverted.
HumanReturns(r) ==
  /\ LeftToHuman(r)
  /\ ~Callable(r)
  /\ \A t \in SignedFor(r) : ~Moved(t) /\ ~MayRun(t)
  /\ SetStatus(r, "payout_pending")
  /\ UNCHANGED <<events, halted, workerVars, calls, chainVars, now, crashes>>

Crash ==
  /\ crashes < MaxCrashes
  /\ pc # "idle"
  /\ crashes' = crashes + 1
  /\ pc' = "idle" /\ todo' = {} /\ cur' = NoOne /\ charged' = {} /\ answer' = NoAnswer
  /\ UNCHANGED <<dbVars, calls, chainVars, now>>

-----------------------------------------------------------------------------
Drain ==
  \/ ReadBreaker \/ CheckPermits \/ SelectDue \/ EndOfRows \/ DrainReadFails
  \/ OnPaid \/ OnSubmitted \/ OnRelayRefused \/ OnFloatNotActive \/ OnRefused \/ OnAmbiguous
  \/ \E r \in Redemptions :
       SkipOverCap(r) \/ StopAtDailyCap(r) \/ Claim(r) \/ ClaimErrors(r)

Confirm ==
  EndOfConfirm \/ \E r \in Redemptions : ConfirmPaid(r)

Settle ==
  \/ EndOfSettle
  \/ \E r \in Redemptions :
       \/ SettleAsPaid(r) \/ SettleByNonce(r)
       \/ ReturnExpired(r) \/ HandToHuman(r) \/ NonceUnread(r)

Watcher == \E r \in Redemptions : ConfirmBurn(r) \/ MismatchedBurn(r)

Signer ==
  \E r \in Redemptions :
    \/ SignerRefuses(r) \/ CallLost(r)
    \/ \E t \in Txns : SignerBroadcasts(r, t) \/ SignerSignsPermit(r, t)

Chain == SpendElsewhere \/ Tick \/ \E t \in Txns : Mine(t) \/ RunPermit(t)

Human ==
  \E r \in Redemptions : HumanReturns(r) \/ \E t \in Txns : HumanSetsRef(r, t)

Next == Drain \/ Confirm \/ Settle \/ Watcher \/ Signer \/ Chain \/ Human
        \/ SetHalted \/ Crash

Spec == Init /\ [][Next]_vars

\* The worker's loop never stops, time passes, and a read that can succeed is not
\* refused forever.  Nothing is assumed of the signer, the chain or the operator.
FairSpec ==
  /\ Spec
  /\ WF_vars(Tick)
  /\ WF_vars(Drain \/ Confirm \/ Settle)
  /\ \A r \in Redemptions :
       /\ SF_vars(SettleByNonce(r))
       /\ SF_vars(ReturnExpired(r) \/ HandToHuman(r))

-----------------------------------------------------------------------------
(* Safety.                                                                 *)

\* One burn is never paid by two transfers, whatever is lost, crashes or times
\* out: a row goes back to be paid again only when nothing signed for it ran or
\* can still run (drain_once, confirm_gasfree_payouts_once).
AtMostOnePayout ==
  \A t, u \in Txns :
    (Moved(t) /\ Moved(u) /\ paysFor[t] = paysFor[u]) => t = u

\* A redemption is booked as paid only against a transfer to its payee that moved,
\* and the reserve is debited for it exactly then (pay_intent).
PaidWasTransferred ==
  \A r \in Redemptions :
    /\ (status[r] = "paid") <=> (<<"custody_withdrawal", r>> \in events)
    /\ status[r] = "paid" =>
         payoutRef[r] # NoTx /\ ConfirmedTransfer(payoutRef[r], r)

\* One transfer never settles two redemptions, even when the relay names the
\* wrong transaction and both pay the same amount to the same address
\* (paid_by_another).
NoSharedTransfer ==
  \A r, s \in Redemptions :
    (status[r] = "paid" /\ status[s] = "paid" /\ payoutRef[r] = payoutRef[s]) => r = s

\* What left the float, or still can, for claims inside the rolling day stays
\* within daily_payout_cap_clt: no failed write and no lost reply undercounts it.
DailyOutflowCapped ==
  TotalOf({r \in Redemptions :
             InWindow(r) /\ \E t \in SignedFor(r) : Moved(t) \/ MayRun(t)}) <= DailyCap

\* "GasFree: one payout permit alive at a time" (drain_once): two permits that
\* can both still run at the same nonce never exist.
OnePermitAlive ==
  \A t, u \in Txns :
    (GasFreeRail /\ MayRun(t) /\ MayRun(u) /\ atNonce[t] = atNonce[u]
       /\ atNonce[t] = chainNonce) => t = u

\* "The halted breaker gates this too": no redemption is claimed while halted.
NoClaimWhileHalted ==
  [][\A r \in Redemptions :
       (status[r] = "payout_pending" /\ status'[r] = "payout_submitted")
         => ~halted]_vars

\* What a redemption is owed, what left the float for it and what is booked.
Promise == INSTANCE PayoutPromise WITH
  owed <- {r \in Redemptions : <<"burn_redeemed", r>> \in events},
  sent <- {p \in Redemptions \X Txns : paysFor[p[2]] = p[1] /\ Moved(p[2])},
  booked <- {r \in Redemptions : <<"custody_withdrawal", r>> \in events}

\* The payout worker implements PayoutPromise: burn first, then at most one
\* transfer, then the books (drain_once's "burn first, payout second, always").
PayoutKeepsPromise == Promise!Spec

-----------------------------------------------------------------------------
(* The inductive invariant.  A transfer is dead when it did not move the   *)
(* USDT and no longer can.  Everything rests on one fact: a redemption that *)
(* may be paid again has only dead transfers.                              *)

Dead(t) == ~Moved(t) /\ ~MayRun(t)
AllDead(r) == \A t \in Txns : paysFor[t] = r => Dead(t)
Repayable(r) == status[r] \in {"created", "payout_pending", "failed"}

\* A redemption has at most one transfer that moved or may still move.
OneLive ==
  \A t, u \in Txns :
    (paysFor[t] # NoOne /\ paysFor[t] = paysFor[u] /\ ~Dead(t) /\ ~Dead(u)) => t = u

\* What can be claimed has nothing alive, and no request or permit on record.
RepayableIsClean ==
  \A r \in Redemptions :
    Repayable(r) => ~Callable(r) /\ permitNonce[r] = None /\ AllDead(r)

\* A request that can still be signed is the only thing the redemption has.
CallIsAlone ==
  \A r \in Redemptions : Callable(r) => AllDead(r)

\* A recorded permit is the only one its redemption can still be paid by.
PermitIsRecorded ==
  \A r \in Redemptions :
    (Submitted(r) /\ permitNonce[r] # None) =>
      /\ permitDeadline[r] # None
      /\ ~Callable(r)
      /\ \A t \in Txns : paysFor[t] = r =>
           \/ Dead(t)
           \/ atNonce[t] = permitNonce[r] /\ runsUntil[t] = permitDeadline[r]

\* While the worker waits, its row is claimed and carries no permit yet; a reply
\* on its way names the only transfer that can be alive, or says there is none.
AnswerIsTrue ==
  pc = "calling" =>
    /\ Submitted(cur) /\ permitNonce[cur] = None
    /\ answer.kind # "none" => ~Callable(cur)
    /\ answer.kind \in {"refused", "not_active"} => AllDead(cur)
    /\ answer.kind \in {"submitted", "relay_refused"} =>
         \A t \in Txns : paysFor[t] = cur => t = answer.tx \/ Dead(t)

\* The worker asks the nonce only of a permit whose deadline and margin are past.
NonceIsDecisive ==
  pc = "deadline" =>
    /\ cur \in Redemptions
    /\ Submitted(cur) /\ permitNonce[cur] # None
    /\ now > permitDeadline[cur] + Grace

\* What ran had been signed, and ran before its deadline.
ChainIsSound ==
  \A t \in Txns :
    /\ paysFor[t] = NoOne => fate[t] = "none"
    /\ Moved(t) => ranAt[t] <= runsUntil[t]

\* The inductive invariant behind AtMostOnePayout (drain_once, the confirmations).
PayoutInv ==
  /\ OneLive /\ RepayableIsClean /\ CallIsAlone /\ PermitIsRecorded
  /\ AnswerIsTrue /\ NonceIsDecisive /\ ChainIsSound

-----------------------------------------------------------------------------
(* The inductive invariant behind the daily cap.  A redemption is exposed  *)
(* when its claim is in the rolling day and USDT left for it or still may. *)

Exposed(r) == InWindow(r) /\ (Callable(r) \/ ~AllDead(r))
ExposedToday == {r \in Redemptions : Exposed(r)}

\* What is exposed fits the cap, and a pass that may still claim has charged all of
\* it, the row it is asking the signer about excepted (drain_once's day_total).
OutflowInv ==
  /\ TotalOf(ExposedToday) <= DailyCap
  /\ pc = "rows" => ExposedToday \subseteq charged
  /\ pc = "calling" => ExposedToday \subseteq charged \cup {cur}

-----------------------------------------------------------------------------
(* Liveness.                                                               *)

\* A recorded permit never holds the float for good: its redemption is paid, goes
\* back to be paid again, or is handed to a human (confirm_gasfree_payouts_once).
PermitSettled ==
  \A r \in Redemptions :
    (Submitted(r) /\ permitNonce[r] # None) ~> ~(Submitted(r) /\ permitNonce[r] # None)

=============================================================================
