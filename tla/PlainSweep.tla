----------------------------- MODULE PlainSweep -----------------------------
(***************************************************************************)
(* Deposit addresses of the plain TRON rail and of BSC, from a credited    *)
(* deposit to custody: the treasury's sweeper (sweeper.rs), the signer's   *)
(* calls (tron-signer, Sweeper::sweep and BscSweeper::sweep), the gas both *)
(* addresses need first, and the two chains.  GasFree accounts are the     *)
(* subject of GasFreeSweep.                                                *)
(*                                                                         *)
(* A deposit is a row of mint_intents and the USDT that backs it, so what  *)
(* an address holds is a set of deposits.  An address of ours is asked     *)
(* about once in a pass, by its index.                                     *)
(***************************************************************************)
EXTENDS Integers, FiniteSets, FiniteSetsExt

CONSTANTS
  Deposits,     \* the deposits there can be
  Addresses,    \* the deposit addresses, one per index
  NoAddress,    \* no address
  Bsc,          \* those on BNB Smart Chain
  Home,         \* the address each deposit is sent to
  Amount,       \* the USDT it brings
  Credited,     \* the deposits credited before the model starts
  HasGas,       \* the addresses that hold the gas of a transfer at the start
  TopUps,       \* whether anybody fills the fee and the gas account
  CanAge,       \* the deposits that may wait for longer than sweep_max_age_hours
  Threshold,    \* sweep_threshold_usdt
  MinSweep,     \* sweep_min_usdt
  GasFreeOn,    \* whether the treasury has GasFree settings
  MaxTroubles   \* bound: failures of every kind

ASSUME SweepAssumption ==
  /\ NoAddress \notin Addresses
  /\ Bsc \subseteq Addresses /\ Home \in [Deposits -> Addresses]
  /\ Amount \in [Deposits -> Nat \ {0}] /\ Credited \subseteq Deposits
  /\ HasGas \subseteq Addresses /\ TopUps \in BOOLEAN /\ CanAge \subseteq Deposits
  /\ Threshold \in Nat /\ MinSweep \in Nat
  /\ GasFreeOn \in BOOLEAN /\ MaxTroubles \in Nat

Rails == {"tron", "bsc"}
Rail(a) == IF a \in Bsc THEN "bsc" ELSE "tron"

VARIABLES
  status,    \* mint_intents.status; "none" until the verifier has seen the deposit
  swept,     \* the rows with swept_at
  aged,      \* the rows older than sweep_max_age_hours
  place,     \* where a deposit's USDT is
  gas,       \* whether an address has the TRX or BNB of a transfer, or it is on its way
  fuel,      \* the rails whose fee or gas account can fund another address
  tx,        \* the deposits that the transfer pending from an address moves
  pc,        \* where the sweeper's pass is
  listed,    \* the rows the pass has listed and not yet dealt with
  cur,       \* the address it asks about
  sees,      \* the deposits the signer saw there
  sent,      \* history: the deposits some broadcast transfer was sized to move
  troubles   \* history: the failures so far

rowVars == <<status, swept>>
chainVars == <<place, gas, fuel, tx>>
passVars == <<pc, listed, cur, sees>>
vars == <<rowVars, aged, chainVars, passVars, sent, troubles>>

Here(a) == {d \in Deposits : Home[d] = a /\ place[d] = "here"}
SumOf(D) == MapThenSumSet(LAMBDA d : Amount[d], D)
Balance(a) == SumOf(Here(a))
OnBsc(d) == Home[d] \in Bsc
Group(a) == {d \in listed : Home[d] = a}

Statuses == {"none", "needs_manual", "approved", "submitted", "credited"}

TypeOK ==
  /\ status \in [Deposits -> Statuses]
  /\ swept \subseteq Deposits /\ aged \subseteq Deposits
  /\ sent \subseteq Deposits /\ listed \subseteq Deposits /\ sees \subseteq Deposits
  /\ place \in [Deposits -> {"away", "here", "moved"}]
  /\ gas \in [Addresses -> {"none", "sent", "has"}]
  /\ fuel \subseteq Rails
  /\ tx \in [Addresses -> SUBSET Deposits]
  /\ pc \in {"idle", "bsc", "bsc_fund", "bsc_wait", "bsc_mark", "tron", "tron_ask", "tron_mark"}
  /\ cur \in Addresses \cup {NoAddress}
  /\ cur = NoAddress <=> pc \in {"idle", "bsc", "tron"}
  /\ troubles \in 0..MaxTroubles

Init ==
  /\ status = [d \in Deposits |-> IF d \in Credited THEN "credited" ELSE "none"]
  /\ swept = {} /\ aged = {} /\ sent = {} /\ listed = {} /\ sees = {}
  /\ place = [d \in Deposits |-> IF d \in Credited THEN "here" ELSE "away"]
  /\ gas = [a \in Addresses |-> IF a \in HasGas THEN "has" ELSE "none"]
  /\ fuel = {}
  /\ tx = [a \in Addresses |-> {}]
  /\ pc = "idle" /\ cur = NoAddress
  /\ troubles = 0

Trouble ==
  /\ troubles < MaxTroubles
  /\ troubles' = troubles + 1

(***************************************************************************)
(* The pass of the sweeper: BSC first, then TRON.                          *)
(***************************************************************************)

\* The rows a pass may sweep; those of an earlier status are left to the verifier.
Sweepable(rail) ==
  {d \in Deposits \ swept : Rail(Home[d]) = rail /\ status[d] \in {"credited", "submitted"}}

ListBsc ==
  /\ pc = "idle"
  /\ listed' = Sweepable("bsc")
  /\ pc' = "bsc"
  /\ UNCHANGED <<rowVars, aged, chainVars, cur, sees, sent, troubles>>

ListTron ==
  /\ pc = "bsc" /\ listed = {}
  /\ listed' = Sweepable("tron")
  /\ pc' = "tron"
  /\ UNCHANGED <<rowVars, aged, chainVars, cur, sees, sent, troubles>>

\* An error reading BSC's rows goes on to TRON, one reading TRON's ends the pass.
ListFails ==
  /\ \/ pc = "idle"
     \/ pc = "bsc" /\ listed = {}
  /\ Trouble
  /\ pc' = IF pc = "idle" THEN "bsc" ELSE "idle"
  /\ UNCHANGED <<rowVars, aged, chainVars, listed, cur, sees, sent>>

EndOfPass ==
  /\ pc = "tron" /\ listed = {}
  /\ pc' = "idle"
  /\ UNCHANGED <<rowVars, aged, chainVars, listed, cur, sees, sent, troubles>>

LeaveHolding(loop, rest) == \* mutant: the index asked about is not let go
  /\ pc' = loop /\ listed' = rest
  /\ UNCHANGED <<cur, sees>>

\* On to the next index, or with rest = {} to the end of the loop.
Leave(loop, rest) ==
  /\ pc' = loop /\ listed' = rest
  /\ cur' = NoAddress /\ sees' = {}
Skip(loop, a) == Leave(loop, listed \ Group(a))

MarkSwept ==
  /\ pc \in {"bsc_mark", "tron_mark"}
  /\ swept' = swept \cup Group(cur)
  /\ Skip(IF pc = "bsc_mark" THEN "bsc" ELSE "tron", cur)
  /\ UNCHANGED <<status, aged, chainVars, sent, troubles>>

\* The UPDATE fails, or the signer's answer is lost before it.
MarkFails ==
  /\ pc \in {"bsc_mark", "tron_mark"}
  /\ Trouble
  /\ Skip(IF pc = "bsc_mark" THEN "bsc" ELSE "tron", cur)
  /\ UNCHANGED <<rowVars, aged, chainVars, sent>>

(***************************************************************************)
(* BSC: the signer waits for each receipt before it answers.               *)
(***************************************************************************)

Broadcast(a, D) ==
  /\ tx' = [tx EXCEPT ![a] = D]
  /\ sent' = sent \cup D

\* A transaction of the address, or one of the gas account it needs, is not mined yet.
Busy(a) == tx[a] # {} \/ (gas[a] # "has" /\ \E b \in Bsc : gas[b] = "sent")

BscEmpty(a) ==
  /\ pc = "bsc" /\ Group(a) # {} /\ Here(a) = {}
  /\ pc' = "bsc_mark" /\ cur' = a /\ sees' = {}
  /\ UNCHANGED <<rowVars, aged, chainVars, listed, sent, troubles>>

BscBusy(a) ==
  /\ pc = "bsc" /\ Group(a) # {} /\ Here(a) # {} /\ Busy(a)
  /\ Skip("bsc", a)
  /\ UNCHANGED <<rowVars, aged, chainVars, sent, troubles>>

\* GasAccountDry ends the BSC part of the pass: every other address would hear the same.
BscDry(a) ==
  /\ pc = "bsc" /\ Group(a) # {} /\ Here(a) # {} /\ ~Busy(a)
  /\ gas[a] = "none" /\ "bsc" \notin fuel
  /\ Leave("bsc", {})
  /\ UNCHANGED <<rowVars, aged, chainVars, sent, troubles>>

BscFund(a) ==
  /\ pc = "bsc" /\ Group(a) # {} /\ Here(a) # {} /\ ~Busy(a)
  /\ gas[a] = "none" /\ "bsc" \in fuel
  /\ gas' = [gas EXCEPT ![a] = "sent"] /\ fuel' = fuel \ {"bsc"}
  /\ pc' = "bsc_fund" /\ cur' = a /\ sees' = Here(a)
  /\ UNCHANGED <<rowVars, aged, place, tx, listed, sent, troubles>>

\* With its gas there, the address sends what the signer saw at the start of the call.
BscSend(a) ==
  /\ \/ pc = "bsc" /\ Group(a) # {} /\ Here(a) # {} /\ ~Busy(a) /\ sees' = Here(a)
     \/ pc = "bsc_fund" /\ cur = a /\ sees' = sees
  /\ gas[a] = "has"
  /\ Broadcast(a, sees')
  /\ pc' = "bsc_wait" /\ cur' = a
  /\ UNCHANGED <<rowVars, aged, place, gas, fuel, listed, troubles>>

BscSent == \* mutant: Swept once it is broadcast, as on TRON
  /\ pc = "bsc_wait"
  /\ pc' = "bsc_mark"
  /\ UNCHANGED <<rowVars, aged, chainVars, listed, cur, sees, sent, troubles>>

BscMined ==
  /\ pc = "bsc_wait" /\ sees \cap Here(cur) = {}
  /\ pc' = "bsc_mark"
  /\ UNCHANGED <<rowVars, aged, chainVars, listed, cur, sees, sent, troubles>>

\* Funded or NotMined: the wait for a receipt is over, and a later call reads the chain again.
BscNotMined ==
  /\ \/ pc = "bsc_fund" /\ gas[cur] # "has"
     \/ pc = "bsc_wait" /\ sees \subseteq Here(cur)
  /\ Skip("bsc", cur)
  /\ UNCHANGED <<rowVars, aged, chainVars, sent, troubles>>

\* Refused, Reverted, an unreadable answer or none at all: nothing is recorded.
BscFails ==
  /\ pc \in {"bsc", "bsc_fund", "bsc_wait"}
  /\ Trouble
  /\ IF pc = "bsc" THEN \E a \in Addresses : Group(a) # {} /\ Skip("bsc", a)
                   ELSE Skip("bsc", cur)
  /\ UNCHANGED <<rowVars, aged, chainVars, sent>>

(***************************************************************************)
(* TRON: the signer answers Swept once the transfer is broadcast.          *)
(***************************************************************************)

WorthNow(a) == Balance(a) >= MinSweep /\ Balance(a) >= Threshold \* mutant: no age limit

\* should_sweep, on the balance the treasury reads itself
Worth(a) ==
  /\ Balance(a) > 0 /\ Balance(a) >= MinSweep
  /\ Balance(a) >= Threshold \/ Group(a) \cap aged # {}

TronSkip(a) ==
  /\ pc = "tron" /\ Group(a) # {} /\ ~Worth(a)
  /\ Skip("tron", a)
  /\ UNCHANGED <<rowVars, aged, chainVars, sent, troubles>>

TronAsk(a) ==
  /\ pc = "tron" /\ Group(a) # {} /\ Worth(a)
  /\ pc' = "tron_ask" /\ cur' = a
  /\ UNCHANGED <<rowVars, aged, chainVars, listed, sees, sent, troubles>>

TronEmpty ==
  /\ pc = "tron_ask" /\ Here(cur) = {}
  /\ pc' = "tron_mark"
  /\ UNCHANGED <<rowVars, aged, chainVars, listed, cur, sees, sent, troubles>>

\* A fresh address holds no TRX; receiving tokens gives it none.
TronFund ==
  /\ pc = "tron_ask" /\ Here(cur) # {} /\ gas[cur] # "has" /\ "tron" \in fuel
  /\ gas' = [gas EXCEPT ![cur] = "sent"] /\ fuel' = fuel \ {"tron"}
  /\ Skip("tron", cur)
  /\ UNCHANGED <<rowVars, aged, place, tx, sent, troubles>>

\* FeeAccountDry ends the pass on the TRX rail, and not where GasFree accounts may follow.
TronDry ==
  /\ pc = "tron_ask" /\ Here(cur) # {} /\ gas[cur] # "has" /\ "tron" \notin fuel
  /\ Leave("tron", IF GasFreeOn THEN listed \ Group(cur) ELSE {})
  /\ UNCHANGED <<rowVars, aged, chainVars, sent, troubles>>

\* A transfer runs or expires within a minute, and passes are no less than that apart.
TronSend ==
  /\ pc = "tron_ask" /\ Here(cur) # {} /\ gas[cur] = "has" /\ tx[cur] = {}
  /\ Broadcast(cur, Here(cur))
  /\ pc' = "tron_mark"
  /\ UNCHANGED <<rowVars, aged, place, gas, fuel, listed, cur, sees, troubles>>

\* The balance is unreadable, or the signer fails.
TronFails ==
  /\ pc \in {"tron", "tron_ask"}
  /\ Trouble
  /\ IF pc = "tron" THEN \E a \in Addresses : Group(a) # {} /\ Skip("tron", a)
                    ELSE Skip("tron", cur)
  /\ UNCHANGED <<rowVars, aged, chainVars, sent>>

(***************************************************************************)
(* The chains, the operator and time.                                      *)
(***************************************************************************)

FundLands(a) ==
  /\ gas[a] = "sent"
  /\ gas' = [gas EXCEPT ![a] = "has"]
  /\ UNCHANGED <<rowVars, aged, place, fuel, tx, passVars, sent, troubles>>

FundLost(a) ==
  /\ gas[a] = "sent"
  /\ Trouble
  /\ gas' = [gas EXCEPT ![a] = "none"]
  /\ UNCHANGED <<rowVars, aged, place, fuel, tx, passVars, sent>>

\* A transfer spends its gas.
TxRuns(a) ==
  /\ tx[a] # {} /\ tx[a] \subseteq Here(a)
  /\ place' = [d \in Deposits |-> IF d \in tx[a] THEN "moved" ELSE place[d]]
  /\ tx' = [tx EXCEPT ![a] = {}] /\ gas' = [gas EXCEPT ![a] = "none"]
  /\ UNCHANGED <<rowVars, aged, fuel, passVars, sent, troubles>>

\* It expires, or runs and fails.
TxLost(a) ==
  /\ tx[a] # {}
  /\ Trouble
  /\ tx' = [tx EXCEPT ![a] = {}]
  /\ UNCHANGED <<rowVars, aged, place, gas, fuel, passVars, sent>>

\* Somebody sends TRX to the fee account or BNB to the gas account.
TopUp(rail) ==
  /\ TopUps /\ rail \notin fuel
  /\ fuel' = fuel \cup {rail}
  /\ UNCHANGED <<rowVars, aged, place, gas, tx, passVars, sent, troubles>>

Age(d) ==
  /\ d \in CanAge \ aged /\ status[d] # "none"
  /\ aged' = aged \cup {d}
  /\ UNCHANGED <<rowVars, chainVars, passVars, sent, troubles>>

Sweeper ==
  \/ ListBsc \/ ListTron \/ EndOfPass \/ MarkSwept
  \/ BscMined \/ BscNotMined \/ TronEmpty \/ TronFund \/ TronDry \/ TronSend
  \/ \E a \in Addresses :
       BscEmpty(a) \/ BscBusy(a) \/ BscDry(a) \/ BscFund(a) \/ BscSend(a) \/ TronSkip(a) \/ TronAsk(a)
SweeperFails == ListFails \/ MarkFails \/ BscFails \/ TronFails

Chains == \E a \in Addresses : FundLands(a) \/ TxRuns(a)
ChainsFail == \E a \in Addresses : FundLost(a) \/ TxLost(a)

(***************************************************************************)
(* The component alone: deposits arrive and are credited, the treasury may *)
(* stop.                                                                   *)
(***************************************************************************)

Arrive(d) ==
  /\ place[d] = "away"
  /\ place' = [place EXCEPT ![d] = "here"]
  /\ UNCHANGED <<rowVars, aged, gas, fuel, tx, passVars, sent, troubles>>

Credit(d) ==
  /\ status[d] = "none" /\ place[d] = "here"
  /\ status' = [status EXCEPT ![d] = "credited"]
  /\ UNCHANGED <<swept, aged, chainVars, passVars, sent, troubles>>

PassStops ==
  /\ pc # "idle"
  /\ Trouble
  /\ Leave("idle", {})
  /\ UNCHANGED <<rowVars, aged, chainVars, sent>>

Next ==
  \/ Sweeper \/ SweeperFails \/ Chains \/ ChainsFail \/ PassStops
  \/ \E rail \in Rails : TopUp(rail)
  \/ \E d \in Deposits : Age(d) \/ Arrive(d) \/ Credit(d)

Spec == Init /\ [][Next]_vars

\* The sweeper's loop never ends (sweeper::run), the chains mine what they are sent,
\* deposits grow old, and somebody answers the alerts of a dry account.
FairSpec ==
  /\ Spec
  /\ WF_vars(Sweeper)
  /\ \A a \in Addresses : WF_vars(FundLands(a)) /\ WF_vars(TxRuns(a))
  /\ \A rail \in Rails : WF_vars(TopUp(rail))
  /\ \A d \in Deposits : WF_vars(Age(d))

(***************************************************************************)
(* A row is marked swept only once its USDT has left the address: on BSC   *)
(* it is at the pay-in address, on TRON a transfer of it was broadcast.    *)
(* sweeper.rs marks the rows it listed, while deposits go on arriving.     *)
(***************************************************************************)
SweptHasLeft ==
  \A d \in swept : IF OnBsc(d) THEN place[d] = "moved" ELSE d \in sent

\* The pass, the gas and the signer together do no more to the rows and to the money
\* than SweepPromise: one transfer of an address at a time, marked when it has left.
Promise == INSTANCE SweepPromise
SweepKeepsPromise == Promise!PromiseSpec

\* Credited money is not forgotten at its address: on BSC it reaches the pay-in
\* address, on TRON a transfer of it is broadcast, though fundings and transfers are
\* lost, calls fail, the accounts run dry and the service stops.
CreditedIsSwept ==
  \A d \in Deposits :
    (status[d] = "credited") ~> IF OnBsc(d) THEN place[d] = "moved" ELSE d \in sent

=============================================================================
