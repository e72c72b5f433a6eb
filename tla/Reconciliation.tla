--------------------------- MODULE Reconciliation ---------------------------
(***************************************************************************)
(* The reconciliation run (reconciliation.rs), which reads the supply, the *)
(* ledger, the mints in flight and the reserve one after the other, and    *)
(* halts minting on a mismatch; composed with everything that moves what   *)
(* it reads: the sweeps, as SweepPromise has them, the mints and the       *)
(* redemption of the ledger, and the moves of custody and of the float.    *)
(*                                                                         *)
(* A treasury that loses nothing covers every CLT in every state, so each  *)
(* mismatch recorded of it is a false alarm: the question is which the     *)
(* readings can produce, and whether an `ok' may be believed when          *)
(* something was lost.                                                     *)
(***************************************************************************)
EXTENDS SweepPromise, Sums

CONSTANTS
  Amount,      \* the USDT of a deposit, and the CLT minted for it
  Base,        \* the CLT minted before the model starts, and the USDT that backs it
  InFloat,     \* how much of that is in the payout float, the rest being in custody
  Redeemed,    \* the CLT that the redemption burns
  Filling,     \* the USDT that the operator moves from custody to the float
  Loss         \* the USDT that is lost, if any is

ASSUME ReserveAssumption ==
  /\ Amount \in [Deposits -> Nat \ {0}]
  /\ Base \in Nat /\ InFloat \in 0..Base
  /\ Redeemed \in 1..Base
  /\ Filling \in Nat \ {0} /\ Loss \in Nat \ {0}

\* There are only so many rows.
ASSUME FinitelyMany == IsFiniteSet(Deposits)

VARIABLES
  mint,      \* how far the mint of a deposit is
  burn,      \* how far the redemption is
  filled,    \* the USDT moved from custody to the float
  lost,      \* the USDT that has left custody for anywhere else
  float,     \* the USDT of the payout float
  halted,    \* breaker_state.minting_halted
  rpc,       \* where the reconciliation run is
  left,      \* the addresses it has still to read
  rd,        \* what it has read
  out,       \* history: the USDT paid out since the run began
  cause      \* history: what happened in the run that its readings cannot see

ledgerVars == <<mint, burn>>
moneyVars == <<filled, lost, float>>
runVars == <<rpc, left, rd>>
historyVars == <<out, cause>>
vars == <<promiseVars, ledgerVars, moneyVars, halted, runVars, historyVars>>

SumOf(D) == SumOver(Amount, D)
Balance(a) == SumOf(Here(a))
OnChain == {d \in Deposits : mint[d] = "chain"}
Of(s) == {d \in Deposits : status[d] = s}
Moved(rail) == {d \in Deposits : place[d] = "moved" /\ Rail(Home[d]) = rail}

Custody == Base - InFloat - filled - lost + SumOf(Moved("tron"))
PayIn == SumOf(Moved("bsc"))
Supply == Base + SumOf(OnChain) - IF burn # "none" THEN Redeemed ELSE 0
Liability == Base + SumOf(Of("credited")) - IF burn \in {"confirmed", "paid"} THEN Redeemed ELSE 0
NothingInFlight == 0 \* mutant: the liability is the ledger's alone
InFlight == SumOf(Of("submitted"))
Reserve == Custody + float + PayIn + SumOf({d \in Deposits : place[d] = "here"})

NoReading == [minted |-> 0, owed |-> 0, total |-> 0, custody |-> 0, float |-> 0]
Reading == [minted : Int, owed : Int, total : Int, custody : Int, float : Int]
Causes ==
  {"burning", "burned", "unsubmitted", "credited", "marked", "unlisted", "confirmed", "paid", "swept",
   "filled", "landed"}
Stages ==
  {"idle", "ledger", "flight", "list", "custody", "float", "walk", "again", "list_bsc", "pay_in", "bsc"}

TypeOK ==
  /\ status \in [Deposits -> Statuses] /\ swept \subseteq Deposits /\ sent \subseteq Deposits
  /\ place \in [Deposits -> {"away", "here", "moved"}] /\ tx \in [Addresses -> SUBSET Deposits]
  /\ mint \in [Deposits -> {"no", "pool", "chain"}]
  /\ burn \in {"none", "burned", "confirmed", "paid"}
  /\ filled \in {0, Filling} /\ lost \in {0, Loss} /\ float \in Nat
  /\ halted \in BOOLEAN
  /\ rpc \in Stages /\ left \subseteq Addresses /\ rd \in Reading
  /\ out \in Nat /\ cause \subseteq Causes

Init ==
  /\ PromiseInit
  /\ filled = 0 /\ lost = 0 /\ float = InFloat
  /\ mint = [d \in Deposits |-> IF d \in Credited THEN "chain" ELSE "no"]
  /\ burn = "none"
  /\ halted = FALSE
  /\ rpc = "idle" /\ left = {} /\ rd = NoReading
  /\ out = 0 /\ cause = {}

(***************************************************************************)
(* The ledger and the chain it follows.                                    *)
(***************************************************************************)

SetMint(d, s) == mint' = [mint EXCEPT ![d] = s]

DepositArrives(d) ==
  /\ Arrive(d)
  /\ UNCHANGED <<ledgerVars, moneyVars, halted, runVars, historyVars>>

\* The sweeper and its chains, in no more than SweepPromise allows them.  Custody is read
\* before the TRON addresses, the pay-in address before those of BSC.
SendSweep(a) ==
  /\ Send(a, Here(a))
  /\ UNCHANGED <<ledgerVars, moneyVars, halted, runVars, historyVars>>

SweepLands(a) ==
  /\ Land(a)
  /\ cause' = cause \cup CASE rpc = "bsc" /\ a \in Bsc -> {"swept"}
                           [] rpc = "walk" /\ a \notin Bsc -> {"landed"}
                           [] OTHER -> {}
  /\ UNCHANGED <<ledgerVars, moneyVars, halted, runVars, out>>

SweepLost(a) ==
  /\ Lose(a)
  /\ UNCHANGED <<ledgerVars, moneyVars, halted, runVars, out, cause>>

\* Bound: a pass marks every row it may; those that come after it listed wait for the next.
MarkSwept(a) ==
  /\ Mark(a, {d \in Sweepable(Rail(a)) : Home[d] = a /\ HasLeft(d)})
  /\ UNCHANGED <<ledgerVars, moneyVars, halted, runVars, historyVars>>

\* approve_and_ledger: approved, or over a cap and held for a human
Verify(d) ==
  /\ status[d] = "none"
  /\ \E s \in {"approved", "needs_manual"} : SetStatus(d, s)
  /\ UNCHANGED <<ledgerVars, moneyVars, halted, runVars, historyVars>>

HumanApproves(d) ==
  /\ status[d] = "needs_manual"
  /\ SetStatus(d, "approved")
  /\ UNCHANGED <<ledgerVars, moneyVars, halted, runVars, historyVars>>

\* The outbox sends the mint, and then writes that it did.
SendMint(d) ==
  /\ status[d] = "approved" /\ mint[d] = "no" /\ ~halted
  /\ SetMint(d, "pool")
  /\ UNCHANGED <<promiseVars, burn, moneyVars, halted, runVars, historyVars>>

MarkSubmitted(d) ==
  /\ status[d] = "approved" /\ mint[d] # "no"
  /\ SetStatus(d, "submitted")
  /\ UNCHANGED <<ledgerVars, moneyVars, halted, runVars, historyVars>>

LandMint(d) ==
  /\ mint[d] = "pool"
  /\ SetMint(d, "chain")
  /\ UNCHANGED <<promiseVars, burn, moneyVars, halted, runVars, historyVars>>

\* The watcher's credit_mint.  Between the ledger's reading and that of the mints
\* in flight, it takes a mint out of the second without being in the first.
CreditMint(d) ==
  /\ mint[d] = "chain" /\ status[d] \in {"approved", "submitted"}
  /\ SetStatus(d, "credited")
  /\ cause' = cause \cup IF rpc = "flight" THEN {"credited"} ELSE {}
  /\ UNCHANGED <<ledgerVars, moneyVars, halted, runVars, out>>

Burn ==
  /\ burn = "none"
  /\ burn' = "burned"
  /\ cause' = cause \cup IF rpc = "ledger" THEN {"burning"} ELSE {}
  /\ UNCHANGED <<promiseVars, mint, moneyVars, halted, runVars, out>>

\* confirm_burn: the liability falls
ConfirmBurn ==
  /\ burn = "burned"
  /\ burn' = "confirmed"
  /\ cause' = cause \cup CASE rpc = "ledger" /\ "burning" \in cause -> {"burned"}
                           [] rpc \notin {"idle", "ledger"} -> {"confirmed"}
                           [] OTHER -> {}
  /\ UNCHANGED <<promiseVars, mint, moneyVars, halted, runVars, out>>

PayOverdrawn == \* mutant: the float is not read first
  /\ burn = "confirmed"
  /\ burn' = "paid"
  /\ float' = float - Redeemed
  /\ out' = out + IF rpc = "idle" THEN 0 ELSE Redeemed
  /\ UNCHANGED <<promiseVars, mint, filled, lost, halted, runVars, cause>>

Pay ==
  /\ burn = "confirmed" /\ float >= Redeemed
  /\ burn' = "paid"
  /\ float' = float - Redeemed
  /\ out' = out + IF rpc = "idle" THEN 0 ELSE Redeemed
  /\ cause' = cause \cup IF "confirmed" \in cause THEN {"paid"} ELSE {}
  /\ UNCHANGED <<promiseVars, mint, filled, lost, halted, runVars>>

\* The operator fills the float from custody.  Bound: once.
FillFloat ==
  /\ filled = 0 /\ Custody >= Filling
  /\ filled' = Filling /\ float' = float + Filling
  /\ cause' = cause \cup IF rpc = "float" THEN {"filled"} ELSE {}
  /\ UNCHANGED <<promiseVars, ledgerVars, lost, halted, runVars, out>>

\* What reconciliation is there to notice.  Bound: once, and before a run: what is lost
\* while one reads may be in its figures or not, as what is paid out then.
Leak ==
  /\ lost = 0 /\ Custody >= Loss /\ rpc = "idle"
  /\ lost' = Loss
  /\ UNCHANGED <<promiseVars, ledgerVars, filled, float, halted, runVars, historyVars>>

Resume ==
  /\ halted
  /\ halted' = FALSE
  /\ UNCHANGED <<promiseVars, ledgerVars, moneyVars, runVars, historyVars>>

(***************************************************************************)
(* One run: run_once, get_reserve_balance, reserve_micro, record.          *)
(***************************************************************************)

Goto(s) ==
  /\ rpc' = s
  /\ UNCHANGED <<promiseVars, ledgerVars, moneyVars, halted, out>>

\* The addresses of verified rows that are not marked swept, each once.
UnsweptRows(rail) ==
  {d \in Deposits \ swept : Rail(Home[d]) = rail /\ status[d] # "none"}
Unswept(rail) == {Home[d] : d \in UnsweptRows(rail)}

\* Verified USDT on TRON at an address whose rows are all marked swept.
MarkedButHere ==
  \E d \in Deposits : /\ status[d] # "none" /\ place[d] = "here" /\ ~OnBsc(d)
                      /\ Home[d] \notin Unswept("tron")

\* Bound: no run while minting is halted, which would read what one before the halt reads.
ReadSupply ==
  /\ rpc = "idle" /\ ~halted
  /\ rpc' = "ledger"
  /\ rd' = [NoReading EXCEPT !.minted = Supply]
  /\ UNCHANGED <<promiseVars, ledgerVars, moneyVars, halted, left, historyVars>>

ReadLedger ==
  /\ rpc = "ledger" /\ Goto("flight")
  /\ rd' = [rd EXCEPT !.owed = Liability]
  /\ UNCHANGED <<left, cause>>

ReadInFlight ==
  /\ rpc = "flight" /\ Goto("list")
  /\ rd' = [rd EXCEPT !.owed = @ + InFlight]
  /\ cause' = cause \cup IF \E d \in OnChain : status[d] = "approved" THEN {"unsubmitted"} ELSE {}
  /\ UNCHANGED left

ListUnswept ==
  /\ rpc = "list" /\ Goto("custody")
  /\ left' = Unswept("tron")
  /\ cause' = cause \cup IF MarkedButHere THEN {"marked"} ELSE {}
  /\ UNCHANGED rd

\* A list that cannot be read is an empty list.
ListUnread ==
  /\ rpc = "list" /\ Goto("custody")
  /\ left' = {}
  /\ cause' = cause \cup {"unlisted"}
  /\ UNCHANGED rd

ReadCustody ==
  /\ rpc = "custody" /\ Goto("float")
  /\ rd' = [rd EXCEPT !.custody = Custody, !.total = Custody]
  /\ UNCHANGED <<left, cause>>

ReadFloat ==
  /\ rpc = "float" /\ Goto("walk")
  /\ rd' = [rd EXCEPT !.float = float, !.total = @ + float]
  /\ UNCHANGED <<left, cause>>

ReadRows(a) == \* mutant: no DISTINCT
  /\ rpc = "walk" /\ a \in left /\ Goto("walk")
  /\ rd' = [rd EXCEPT !.total = @ + Balance(a) * Cardinality({d \in UnsweptRows("tron") : Home[d] = a})]
  /\ left' = left \ {a}
  /\ UNCHANGED cause

ReadAddress(a) ==
  /\ rpc = "walk" /\ a \in left /\ Goto("walk")
  /\ rd' = [rd EXCEPT !.total = @ + Balance(a)]
  /\ left' = left \ {a}
  /\ UNCHANGED cause

ReadCustodyOnce == \* mutant: not compared with the first reading
  /\ rpc = "walk" /\ left = {}
  /\ Goto("again")
  /\ UNCHANGED <<left, rd, cause>>

ReadCustodyAgain ==
  /\ rpc = "walk" /\ left = {} /\ Custody = rd.custody
  /\ Goto("again")
  /\ UNCHANGED <<left, rd, cause>>

ReadFloatAgain ==
  /\ rpc = "again" /\ float = rd.float
  /\ Goto("list_bsc")
  /\ rd' = [NoReading EXCEPT !.minted = rd.minted, !.owed = rd.owed, !.total = rd.total]
  /\ UNCHANGED <<left, cause>>

ListUnsweptBsc ==
  /\ rpc = "list_bsc" /\ Goto("pay_in")
  /\ left' = Unswept("bsc")
  /\ UNCHANGED <<rd, cause>>

ReadPayIn ==
  /\ rpc = "pay_in" /\ Goto("bsc")
  /\ rd' = [rd EXCEPT !.total = @ + PayIn]
  /\ UNCHANGED <<left, cause>>

ReadBscAddress(a) ==
  /\ rpc = "bsc" /\ a \in left /\ Goto("bsc")
  /\ rd' = [rd EXCEPT !.total = @ + Balance(a)]
  /\ left' = left \ {a}
  /\ UNCHANGED cause

EndRun ==
  /\ rpc' = "idle" /\ left' = {} /\ rd' = NoReading /\ out' = 0 /\ cause' = {}
  /\ UNCHANGED <<promiseVars, ledgerVars, moneyVars>>

MovedMeanwhile ==
  /\ \/ rpc = "walk" /\ left = {} /\ Custody # rd.custody
     \/ rpc = "again" /\ float # rd.float
  /\ EndRun
  /\ UNCHANGED halted

\* An error leaves no row: the run did not happen.  Nor does one when the treasury stops.
ReadFails ==
  /\ rpc # "idle"
  /\ EndRun
  /\ UNCHANGED halted

Judgement ==
  IF rd.minted > rd.owed \/ rd.total < rd.owed THEN "mismatch"
  ELSE IF rd.minted < rd.owed THEN "over_backed_drift" ELSE "ok"

AtVerdict == rpc = "bsc" /\ left = {}

\* The halt is a statement of its own and may fail; the row is there by then, and
\* the mint gate reads it.
Record ==
  /\ AtVerdict
  /\ halted' = (halted \/ Judgement = "mismatch")
  /\ EndRun

Sweep ==
  \E a \in Addresses : SendSweep(a) \/ SweepLands(a) \/ SweepLost(a) \/ MarkSwept(a)

Ledger ==
  \/ Burn \/ ConfirmBurn \/ Pay \/ FillFloat \/ Leak \/ Resume
  \/ \E d \in Deposits :
       \/ DepositArrives(d) \/ Verify(d) \/ HumanApproves(d)
       \/ SendMint(d) \/ MarkSubmitted(d) \/ LandMint(d) \/ CreditMint(d)

Run ==
  \/ ReadSupply \/ ReadLedger \/ ReadInFlight \/ ListUnswept \/ ListUnread
  \/ ReadCustody \/ ReadFloat \/ ReadCustodyAgain \/ ReadFloatAgain
  \/ ListUnsweptBsc \/ ReadPayIn \/ MovedMeanwhile \/ ReadFails \/ Record
  \/ \E a \in Addresses : ReadAddress(a) \/ ReadBscAddress(a)

Next == Sweep \/ Ledger \/ Run

Spec == Init /\ [][Next]_vars

(***************************************************************************)
(* Properties                                                              *)
(***************************************************************************)

\* What custody gave to the float between the two readings, a sweep may have given back
\* before custody is read again: the figures agree, although both moved.
Cancelled == {"filled", "landed"} \subseteq cause

\* An over-count licenses minting that nothing backs (reconciliation.rs:165-169): the
\* figure a run judges exceeds the reserve by no more than was paid out while it ran,
\* although custody, the float and the addresses are read one after the other.
NeverOverCounted == AtVerdict /\ ~Cancelled => rd.total <= Reserve + out

\* `ok' can be believed: the CLT the run read is backed by what is there when it is
\* recorded and was paid out meanwhile; so a loss from before the run is noticed.
OkMeansBacked ==
  AtVerdict /\ ~Cancelled /\ Judgement = "ok" => rd.minted <= Reserve + out

\* A mismatch of a treasury that lost nothing is one of seven races or failures, each of
\* which took part in this very run; any other halt of minting would be a miscount.
Excuses == Causes \ {"burning", "confirmed", "filled", "landed"}
NoUnexplainedAlarm ==
  AtVerdict /\ Judgement = "mismatch" /\ lost = 0 => cause \cap Excuses # {}

=============================================================================
