---------------------------- MODULE GasFreeSweep ----------------------------
(***************************************************************************)
(* One user's GasFree account, from deposit to custody.  The verifier      *)
(* holds back the relay's fee from what it lets a deposit mint             *)
(* (tron_verifier.rs, gasfree_rail.rs); the sweeper settles the permit in  *)
(* flight and asks for the next one (sweeper.rs, gasfree_sweep.rs); the    *)
(* signer sizes and signs it (tron-signer, sweep_gasfree); the relay runs  *)
(* it and takes its fee.  Accounts share nothing but the pass that visits  *)
(* them in turn, so one is enough.                                         *)
(*                                                                         *)
(* verified_at <= requested_at is kept as the set of rows verified when    *)
(* the permit was asked for; the deadline and its grace as the phase of    *)
(* the recorded permit.  Custody and the payout float, either of which a   *)
(* sweep may fill, are one sum.                                            *)
(***************************************************************************)
EXTENDS Integers, FiniteSets, Sums

CONSTANTS
  Deposits,        \* the deposits there can be
  Arrives,         \* the USDT each brings
  Proposed,        \* the mint the orchestrator proposes for it
  ActivateMax,     \* activate_fee_max_usdt
  TransferMaxima,  \* the values transfer_fee_max_usdt takes, one after the other
  MinDeposit,      \* min_deposit_usdt
  Strays,          \* whether anybody but the sweeper asks the signer for sweeps
  MaxTroubles      \* bound: failures of every kind

ASSUME AmountsAssumption ==
  /\ Arrives \in [Deposits -> Nat] /\ Proposed \in [Deposits -> Nat \ {0}]
  /\ ActivateMax \in Nat /\ MinDeposit \in Nat \ {0}
  /\ TransferMaxima \subseteq Nat \ {0} /\ TransferMaxima # {}
ASSUME EnvironmentAssumption == Strays \in BOOLEAN /\ MaxTroubles \in Nat
\* One account receives only so many deposits.
ASSUME FinitelyMany == IsFiniteSet(Deposits)

None == [id |-> 0]

VARIABLES
  row,            \* mint_intents.status; "created" before the deposit arrives too
  feeHeld,        \* fee_held_usdt; what a verified deposit mints is Arrives less this
  swept,          \* the rows with swept_at
  firstTransfer,  \* gasfree_accounts.first_transfer_at is set
  pending,        \* its permit in flight, or None
  verdict,        \* the verifier, between reading the account and writing its verdict
  pc,             \* where the sweeper's pass is
  asked,          \* the rows verified when it asked for a permit
  answer,         \* the signer's answer to it, a permit
  signer,         \* the call the signer serves
  transferMax,    \* transfer_fee_max_usdt of both services
  signed,         \* how many permits were signed
  outrun,         \* history: whether one was signed after another ran since its account was read
  relay,          \* the permit the relay holds, or None
  arrived,        \* the deposits on chain
  balance,        \* the account's USDT
  collected,      \* the USDT swept to custody and the float
  nonce,          \* nonces(owner) on the controller; the account is active from 1
  shownNonce,     \* what TronGrid shows of it
  moved,          \* history: the deposits that some permit that ran was sized to move
  troubles        \* history: the failures so far

dbVars == <<row, feeHeld, swept, firstTransfer, pending>>
workerVars == <<pc, asked, answer>>
chainVars == <<arrived, balance, collected, nonce, shownNonce, moved>>
vars == <<dbVars, verdict, workerVars, signer, transferMax, signed, outrun, relay, chainVars, troubles>>

Verified == {d \in Deposits : row[d] \in {"approved", "held", "credited"}}
Minted(d) == Arrives[d] - feeHeld[d]

Permits == [id : Nat \ {0}, nonce : Nat]
PendingPermits ==
  [id : Nat \ {0}, nonce : Nat, phase : {"live", "closed", "lapsed"}, covers : SUBSET Deposits]
RelayPermits ==
  [id : Nat \ {0}, nonce : Nat, value : Nat, maxFee : Nat, of : SUBSET Deposits, covers : SUBSET Deposits]
Calls ==
  [at : {"reads", "signs"}, by : {"sweeper", "other"}, balance : Nat, maxFee : Nat, of : SUBSET Deposits,
   shown : Nat]
NoCall == [at |-> "none"]
NoVerdict == [at |-> "none"]

TypeOK ==
  /\ row \in [Deposits -> {"created", "approved", "held", "rejected", "credited"}]
  /\ feeHeld \in [Deposits -> Nat]
  /\ \A d \in Verified : feeHeld[d] < Arrives[d]
  /\ swept \subseteq Deposits
  /\ firstTransfer \in BOOLEAN
  /\ pending \in PendingPermits \cup {None}
  /\ verdict \in [of : Deposits, fee : Nat] \cup {NoVerdict}
  /\ pc \in {"idle", "mark", "clear", "expired", "list", "wait", "record"}
  /\ asked \subseteq Deposits
  /\ answer \in Permits \cup {None}
  /\ pc = "record" => answer # None
  /\ signer \in Calls \cup {NoCall}
  /\ signer # NoCall /\ signer.at = "signs" => signer.maxFee < signer.balance
  /\ transferMax \in TransferMaxima
  /\ signed \in Nat /\ outrun \in BOOLEAN
  /\ relay \in RelayPermits \cup {None}
  /\ arrived \subseteq Deposits
  /\ balance \in Nat /\ collected \in Nat
  /\ nonce \in Nat /\ shownNonce \in 0..nonce
  /\ moved \subseteq Deposits
  /\ troubles \in 0..MaxTroubles

Init ==
  /\ row = [d \in Deposits |-> "created"]
  /\ feeHeld = [d \in Deposits |-> 0]
  /\ swept = {} /\ firstTransfer = FALSE /\ pending = None
  /\ verdict = NoVerdict
  /\ pc = "idle" /\ asked = {} /\ answer = None
  /\ signer = NoCall
  /\ transferMax \in TransferMaxima
  /\ \A m \in TransferMaxima : transferMax <= m
  /\ signed = 0 /\ outrun = FALSE /\ relay = None
  /\ arrived = {} /\ balance = 0 /\ collected = 0
  /\ nonce = 0 /\ shownNonce = 0 /\ moved = {}
  /\ troubles = 0

\* A failure: an unreadable answer, a failed write, a lost reply, a stop of the service.
Trouble == troubles < MaxTroubles /\ troubles' = troubles + 1

\* fee_to_hold
FeeToHold(activated) == IF activated THEN transferMax ELSE ActivateMax + transferMax

-----------------------------------------------------------------------------
(* The verifier: tron_verifier.rs.                                         *)

\* Mutant of HoldFor: the chain says whether the account was activated.
HoldForActivated == FeeToHold(nonce > 0)

\* gasfree_verdict sizes the hold from the treasury's own record.
HoldFor == FeeToHold(firstTransfer)

\* record_account: the row is inserted, and read for first_transfer_at.
VerifierReads(d) ==
  /\ verdict = NoVerdict
  /\ d \in arrived /\ row[d] = "created"
  /\ verdict' = [of |-> d, fee |-> HoldFor]
  /\ UNCHANGED <<dbVars, workerVars, signer, transferMax, signed, outrun, relay, chainVars, troubles>>

\* Mutant of DepositMint: the fee may take all of it.
DepositMintAnything(cap) == IF cap < MinDeposit THEN "held" ELSE "approved"

\* deposit_mint
DepositMint(cap) ==
  IF cap < 1 THEN "rejected" ELSE IF cap < MinDeposit THEN "held" ELSE "approved"

\* approve_and_ledger's one transaction, or reject_and_alert; either on a created row only.
VerifierDecides ==
  /\ verdict # NoVerdict /\ row[verdict.of] = "created"
  /\ LET d == verdict.of
         cap == Arrives[d] - verdict.fee
         status == DepositMint(cap)
         amount == IF Proposed[d] < cap THEN Proposed[d] ELSE cap
     IN /\ row' = [row EXCEPT ![d] = status]
        /\ feeHeld' = [feeHeld EXCEPT ![d] = IF status = "rejected" THEN @ ELSE Arrives[d] - amount]
  /\ verdict' = NoVerdict
  /\ UNCHANGED <<swept, firstTransfer, pending, workerVars, signer, transferMax, signed, outrun, relay, chainVars,
                 troubles>>

\* The transaction fails: the intent stays created, for the next tick.
VerifierFails ==
  /\ verdict # NoVerdict
  /\ Trouble
  /\ verdict' = NoVerdict
  /\ UNCHANGED <<dbVars, workerVars, signer, transferMax, signed, outrun, relay, chainVars>>

\* A human approves a deposit below the minimum, for at most what it was held at.  (Nobody
\* approves a deposit that is not verified yet: nothing would be held back of it.)
ApproveHeld(d) ==
  /\ row[d] = "held"
  /\ row' = [row EXCEPT ![d] = "approved"]
  /\ UNCHANGED <<feeHeld, swept, firstTransfer, pending, verdict, workerVars, signer, transferMax, signed, outrun,
                 relay, chainVars, troubles>>

\* The outbox submits the mint, which the sweeper lists from then on, and the watcher credits it.
Credit(d) ==
  /\ row[d] = "approved"
  /\ row' = [row EXCEPT ![d] = "credited"]
  /\ UNCHANGED <<feeHeld, swept, firstTransfer, pending, verdict, workerVars, signer, transferMax, signed, outrun,
                 relay, chainVars, troubles>>

-----------------------------------------------------------------------------
(* The sweeper settles the permit in flight: gasfree_sweep.rs, settle.     *)

Goto(label) == pc' = label /\ UNCHANGED <<asked, answer>>

sweeperKeeps == <<verdict, signer, transferMax, signed, outrun, relay, chainVars>>

\* The controller is past the permit's nonce: it ran.
SeesItRan ==
  /\ pc = "idle" /\ pending # None
  /\ shownNonce > pending.nonce
  /\ Goto("mark")
  /\ UNCHANGED <<dbVars, sweeperKeeps, troubles>>

\* It did not, and the deadline and the grace are over.
SeesItExpired ==
  /\ pc = "idle" /\ pending # None
  /\ shownNonce <= pending.nonce /\ pending.phase = "lapsed"
  /\ Goto("expired")
  /\ UNCHANGED <<dbVars, sweeperKeeps, troubles>>

\* No permit in flight, or one that may still run, or an unreadable nonce.
NothingToSettle ==
  /\ pc = "idle"
  /\ \/ pending = None /\ UNCHANGED troubles
     \/ pending # None /\ shownNonce <= pending.nonce /\ pending.phase # "lapsed" /\ UNCHANGED troubles
     \/ pending # None /\ Trouble
  /\ Goto("list")
  /\ UNCHANGED <<dbVars, sweeperKeeps>>

\* Mutant of CoveredRows: every verified row is marked swept, whenever it was verified.
CoveredRowsAll == Verified

\* The rows verified before the permit was asked for.
CoveredRows == Verified \cap pending.covers

MarkSwept ==
  /\ pc = "mark"
  /\ swept' = swept \cup CoveredRows
  /\ Goto("clear")
  /\ UNCHANGED <<row, feeHeld, firstTransfer, pending, sweeperKeeps, troubles>>

\* first_transfer_at is set and the permit cleared in one UPDATE.
ClearSettled ==
  /\ pc = "clear"
  /\ firstTransfer' = TRUE /\ pending' = None
  /\ Goto("list")
  /\ UNCHANGED <<row, feeHeld, swept, sweeperKeeps, troubles>>

\* Mutant of ClearExpired: nothing is cleared.
ClearExpiredNot ==
  /\ pc = "expired"
  /\ Goto("list")
  /\ UNCHANGED <<dbVars, sweeperKeeps, troubles>>

ClearExpired ==
  /\ pc = "expired"
  /\ pending' = None
  /\ Goto("list")
  /\ UNCHANGED <<row, feeHeld, swept, firstTransfer, sweeperKeeps, troubles>>

\* One of the three UPDATEs fails: the next pass retries.
SettleWriteFails ==
  /\ pc \in {"mark", "clear", "expired"}
  /\ Trouble
  /\ Goto("list")
  /\ UNCHANGED <<dbVars, sweeperKeeps>>

-----------------------------------------------------------------------------
(* The sweeper asks for the next permit: sweep_once and sweep_account.     *)

\* Mutant of WorthAsking: activation counts for ever.
WorthAskingActivation == balance > FeeToHold(FALSE)

\* A sweep would move something.
WorthAsking == balance > FeeToHold(firstTransfer)

\* Mutant of HeldEnough: what was held back is not compared.
HeldEnoughUnchecked == \E d \in Verified : d \notin swept

\* MAX(fee_held_usdt) over the rows this permit would settle covers the fee.
HeldEnough == \E d \in Verified : d \notin swept /\ FeeToHold(firstTransfer) <= feeHeld[d]

\* The account is listed, has no permit in flight, and passes every check.
MayAsk ==
  /\ \E d \in Deposits : row[d] = "credited" /\ d \notin swept
  /\ pending = None
  /\ WorthAsking /\ HeldEnough

\* requested_at is taken, and the signer is called.
AskForPermit ==
  /\ pc = "list" /\ MayAsk
  /\ signer = NoCall
  /\ pc' = "wait" /\ asked' = Verified /\ UNCHANGED answer
  /\ signer' = [at |-> "reads", by |-> "sweeper", balance |-> 0, maxFee |-> 0, of |-> {}, shown |-> 0]
  /\ UNCHANGED <<dbVars, verdict, transferMax, signed, outrun, relay, chainVars, troubles>>

\* Nothing to ask for, a read failed, or GasFree's code changed and the pass leaves its accounts.
EndPass ==
  /\ pc = "list"
  /\ \/ ~MayAsk /\ UNCHANGED troubles
     \/ MayAsk /\ Trouble
  /\ Goto("idle")
  /\ UNCHANGED <<dbVars, sweeperKeeps>>

\* The permit is recorded as pending.
RecordPermit ==
  /\ pc = "record"
  /\ pending' = [id |-> answer.id, nonce |-> answer.nonce, phase |-> "live", covers |-> asked]
  /\ pc' = "idle" /\ asked' = {} /\ answer' = None
  /\ UNCHANGED <<row, feeHeld, swept, firstTransfer, sweeperKeeps, troubles>>

\* Recording fails: the permit is with the relay, and nobody here knows.
RecordFails ==
  /\ pc = "record"
  /\ Trouble
  /\ pc' = "idle" /\ asked' = {} /\ answer' = None
  /\ UNCHANGED <<dbVars, sweeperKeeps>>

\* The treasury stops.  The signer goes on with a call it has.
Crash ==
  /\ pc # "idle"
  /\ Trouble
  /\ pc' = "idle" /\ asked' = {} /\ answer' = None
  /\ signer' = IF signer # NoCall THEN [signer EXCEPT !.by = "other"] ELSE signer
  /\ UNCHANGED <<dbVars, verdict, transferMax, signed, outrun, relay, chainVars>>

-----------------------------------------------------------------------------
(* The signer: sweep.rs, sweep; gasfree_rail.rs, sweep_gasfree.            *)

signerKeeps == <<dbVars, verdict, transferMax, chainVars>>

\* The reply is anything but a permit: the sweeper goes on with its pass.
AnswerNothing ==
  /\ signer' = NoCall
  /\ IF signer.by = "sweeper" THEN pc' = "idle" /\ asked' = {} /\ UNCHANGED answer
                              ELSE UNCHANGED workerVars

\* Somebody else asks the signer to sweep the index.  Not once a maximum was raised: only the
\* sweeper compares the new one with what deposits held back before.
StrayCall ==
  /\ Strays /\ signer = NoCall
  /\ \A m \in TransferMaxima : transferMax <= m
  /\ Trouble
  /\ signer' = [at |-> "reads", by |-> "other", balance |-> 0, maxFee |-> 0, of |-> {}, shown |-> 0]
  /\ UNCHANGED <<dbVars, verdict, workerVars, transferMax, signed, outrun, relay, chainVars>>

\* The balance, and whether the chain has the account's contract; shown is history.
SignerReads ==
  /\ signer # NoCall /\ signer.at = "reads"
  /\ LET maxFee == FeeToHold(shownNonce > 0)
     IN /\ balance > maxFee
        /\ signer' = [signer EXCEPT !.at = "signs", !.balance = balance, !.maxFee = maxFee, !.of = arrived,
                                    !.shown = shownNonce]
  /\ UNCHANGED <<workerVars, signed, outrun, relay, signerKeeps, troubles>>

\* BelowFee
SignerFindsTooLittle ==
  /\ signer # NoCall /\ signer.at = "reads"
  /\ balance <= FeeToHold(shownNonce > 0)
  /\ AnswerNothing
  /\ UNCHANGED <<signed, outrun, relay, signerKeeps, troubles>>

\* next_nonce: the relay holds a permit, or its nonce is not the chain's.
InFlight == relay # None \/ shownNonce # nonce

\* The permit moves the balance read, less the most the relay may take.
NextPermit ==
  [id |-> signed + 1, nonce |-> shownNonce, value |-> signer.balance - signer.maxFee, maxFee |-> signer.maxFee,
   of |-> signer.of, covers |-> IF signer.by = "sweeper" THEN asked ELSE {}]

\* The relay takes the permit.
Submitted ==
  /\ relay' = NextPermit /\ signed' = signed + 1
  /\ outrun' = (outrun \/ signer.shown # shownNonce)

\* And the sweeper is told.
SignerSubmits ==
  /\ signer # NoCall /\ signer.at = "signs"
  /\ ~InFlight
  /\ Submitted
  /\ signer' = NoCall
  /\ IF signer.by = "sweeper"
     THEN pc' = "record" /\ answer' = [id |-> NextPermit.id, nonce |-> NextPermit.nonce] /\ UNCHANGED asked
     ELSE UNCHANGED workerVars
  /\ UNCHANGED <<signerKeeps, troubles>>

\* The relay takes it, and the answer is lost on one of its two ways.
AnswerIsLost ==
  /\ signer # NoCall /\ signer.at = "signs"
  /\ ~InFlight
  /\ Trouble
  /\ Submitted
  /\ AnswerNothing
  /\ UNCHANGED signerKeeps

\* Busy; or halted, or the relay refuses, as it must where the account holds too little by now.
SignerSignsNothing ==
  /\ signer # NoCall /\ signer.at = "signs"
  /\ \/ InFlight /\ UNCHANGED troubles
     \/ ~InFlight /\ balance < signer.balance /\ UNCHANGED troubles
     \/ ~InFlight /\ Trouble
  /\ AnswerNothing
  /\ UNCHANGED <<signed, outrun, relay, signerKeeps>>

-----------------------------------------------------------------------------
(* The relay, the controller and the user.                                 *)

\* A permit's fee is within its maxFee, and activation is charged once.
LiveFees == {f \in 0..relay.maxFee : f <= FeeToHold(nonce > 0)}

\* The controller runs the permit.
Run ==
  /\ relay # None
  /\ \E fee \in LiveFees :
       /\ relay.value + fee <= balance
       /\ balance' = balance - relay.value - fee
  /\ collected' = collected + relay.value
  /\ nonce' = nonce + 1
  /\ moved' = moved \cup relay.of
  /\ relay' = None
  /\ UNCHANGED <<dbVars, verdict, workerVars, signer, transferMax, signed, outrun, arrived, shownNonce, troubles>>

\* The relay gives it up, or its deadline passes.
Dies ==
  /\ relay # None
  /\ \/ relay.value > balance /\ UNCHANGED troubles
     \/ Trouble
  /\ relay' = None
  /\ UNCHANGED <<dbVars, verdict, workerVars, signer, transferMax, signed, outrun, chainVars>>

\* The recorded permit's deadline passes.
Close ==
  /\ pending # None /\ pending.phase = "live"
  /\ relay = None \/ relay.id # pending.id
  /\ pending' = [pending EXCEPT !.phase = "closed"]
  /\ UNCHANGED <<row, feeHeld, swept, firstTransfer, verdict, workerVars, signer, transferMax, signed, outrun,
                 relay, chainVars, troubles>>

\* The grace passes: TronGrid shows by now what ran before the deadline.
Lapse ==
  /\ pending # None /\ pending.phase = "closed"
  /\ shownNonce = nonce
  /\ pending' = [pending EXCEPT !.phase = "lapsed"]
  /\ UNCHANGED <<row, feeHeld, swept, firstTransfer, verdict, workerVars, signer, transferMax, signed, outrun,
                 relay, chainVars, troubles>>

Show ==
  /\ shownNonce < nonce
  /\ shownNonce' = nonce
  /\ UNCHANGED <<dbVars, verdict, workerVars, signer, transferMax, signed, outrun, relay, arrived, balance,
                 collected, nonce, moved, troubles>>

Arrive(d) ==
  /\ d \notin arrived
  /\ arrived' = arrived \cup {d}
  /\ balance' = balance + Arrives[d]
  /\ UNCHANGED <<dbVars, verdict, workerVars, signer, transferMax, signed, outrun, relay, collected, nonce,
                 shownNonce, moved, troubles>>

\* Both services are restarted with a higher maximum.
RaiseMaximum ==
  /\ pc = "idle" /\ verdict = NoVerdict /\ signer = NoCall
  /\ \E m \in TransferMaxima : m > transferMax /\ transferMax' = m
  /\ UNCHANGED <<dbVars, verdict, workerVars, signer, signed, outrun, relay, chainVars, troubles>>

-----------------------------------------------------------------------------
Verifier == (\E d \in Deposits : VerifierReads(d)) \/ VerifierDecides
Settle == SeesItRan \/ SeesItExpired \/ NothingToSettle \/ MarkSwept \/ ClearSettled \/ ClearExpired
Sweep == AskForPermit \/ EndPass \/ RecordPermit
Signer == SignerReads \/ SignerFindsTooLittle \/ SignerSubmits \/ SignerSignsNothing

Next ==
  \/ Verifier \/ VerifierFails
  \/ \E d \in Deposits : ApproveHeld(d) \/ Credit(d) \/ Arrive(d)
  \/ Settle \/ SettleWriteFails
  \/ Sweep \/ RecordFails \/ Crash
  \/ Signer \/ AnswerIsLost \/ StrayCall
  \/ Run \/ Dies \/ Close \/ Lapse \/ Show
  \/ RaiseMaximum

Spec == Init /\ [][Next]_vars

\* The workers and the signer go on, time passes, and the relay does not sit on a permit.
Fairness ==
  /\ WF_vars(Verifier) /\ WF_vars(\E d \in Deposits : Credit(d))
  /\ WF_vars(Settle) /\ WF_vars(Sweep) /\ WF_vars(Signer)
  /\ WF_vars(Run \/ Dies) /\ WF_vars(Close) /\ WF_vars(Lapse) /\ WF_vars(Show)

FairSpec == Spec /\ Fairness

-----------------------------------------------------------------------------
(* Properties.                                                             *)

\* The reserve rule (2026-09-24-gasfree-transfer-rail-design.md:338): what is at the account, in
\* custody and in the float covers every CLT that the deposits were let mint.
ReserveRule == balance + collected >= SumOver([d \in Deposits |-> Minted(d)], Verified)

\* It holds whichever fees the permits cost and whoever asked for them, as long as no permit is
\* signed on an account that another permit changed since it was read.
ReserveCoversMinted == ~outrun => ReserveRule

\* A deposit is marked swept only when a permit that ran was sized on a balance it was in.
SweptWasMoved == swept \subseteq moved

\* A permit the sweeper asked for can cost no more than one deposit it settles held back.
FeeWithinHold ==
  relay # None /\ relay.covers # {} => \E d \in relay.covers : d \in Verified /\ relay.maxFee <= feeHeld[d]

\* Every permit recorded is settled in the end, whether it ran, was given up or expired.
PermitSettled == pending # None ~> pending = None

\* A credited deposit that held back today's fee does not for good keep money at the account that
\* a permit could move: failures end, and no deposit is left behind by those that came before it.
MoneyMovesOn ==
  []<>((\E d \in Deposits : row[d] = "credited" /\ d \notin swept /\ FeeToHold(firstTransfer) <= feeHeld[d])
         => balance <= FeeToHold(firstTransfer))
=============================================================================
