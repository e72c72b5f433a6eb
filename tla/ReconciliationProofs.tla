------------------------ MODULE ReconciliationProofs ------------------------
(***************************************************************************)
(* What is proved of Reconciliation, for any deposits, addresses, amounts  *)
(* and balances: its types; that a run never counts too much; that an `ok' *)
(* can be believed; and that a treasury that lost nothing is halted only   *)
(* for one of the seven reasons.                                           *)
(*                                                                         *)
(* Each of the three has an invariant that compares, stage by stage, what  *)
(* the run has read with what there is now, including what it has still to *)
(* read: CountedOnce from above, NothingMissed from below, MintedIsOwed    *)
(* for the supply.  They compare sums over the deposits, so the lemmas say *)
(* what a step does to each sum.                                           *)
(***************************************************************************)
EXTENDS Reconciliation, SumsProofs, TLAPS

\* The USDT at the addresses of a rail: all, what the walk has still to read, the rest.
AtAddresses(rail) == SumOf({d \in Deposits : place[d] = "here" /\ Rail(Home[d]) = rail})
Waiting(rail) ==
  SumOf({d \in Deposits : place[d] = "here" /\ Rail(Home[d]) = rail /\ Home[d] \in left})
Counted(rail) ==
  SumOf({d \in Deposits : place[d] = "here" /\ Rail(Home[d]) = rail /\ Home[d] \notin left})

\* The deposits that were verified.
Known(rail) == SumOf({d \in Deposits : status[d] # "none" /\ Rail(Home[d]) = rail})

\* The redemption, as far as the liability the run read takes it off; and as far as the
\* float has not paid it.
TakenOff == IF burn \in {"confirmed", "paid"} /\ "confirmed" \notin cause THEN Redeemed ELSE 0
Unpaid == IF burn = "confirmed" /\ "confirmed" \notin cause THEN Redeemed ELSE 0

Paid == IF burn = "paid" THEN Redeemed ELSE 0
Unexcused == cause \cap Excuses = {}

\* What the rows say is so: what was minted was approved, what was verified has arrived,
\* what was credited is on chain, and what is marked swept on BSC has moved.
RowsAreTrue ==
  \A d \in Deposits :
    /\ mint[d] # "no" => status[d] \in {"approved", "submitted", "credited"}
    /\ status[d] # "none" => place[d] # "away"
    /\ status[d] = "credited" => mint[d] = "chain"
    /\ d \in swept /\ OnBsc(d) => place[d] = "moved"

FloatIsKept == float = InFloat + filled - Paid

\* What can be a cause at a stage, and which addresses are listed.
InOrder ==
  /\ rpc = "idle" => cause = {}
  /\ rpc = "ledger" => cause \subseteq {"burning", "burned"}
  /\ "filled" \in cause => filled = Filling /\ rpc \in Stages \ {"idle", "ledger", "flight", "list", "custody"}
  /\ "landed" \in cause => rpc \in Stages \ {"idle", "ledger", "flight", "list", "custody", "float"}
  /\ "burning" \in cause => burn # "none"
  /\ rpc = "ledger" /\ "burning" \in cause /\ "burned" \notin cause => burn = "burned"
  /\ "confirmed" \in cause /\ burn = "paid" => "paid" \in cause
  /\ rpc \in {"custody", "float", "walk"} => left \cap Bsc = {}
  /\ rpc \in {"pay_in", "bsc"} => left \subseteq Bsc

\* What custody gave to the float between the readings of the two, and is in both.
Twice == IF "filled" \in cause THEN Filling ELSE 0

\* What was read is there, but for what is in two figures.
CountedOnce ==
  /\ rpc = "float" => rd.total = rd.custody /\ rd.custody <= Custody + Twice
  /\ rpc = "walk" =>
       /\ rd.total <= Custody + float + out + Counted("tron") + Twice
       /\ "filled" \in cause /\ "landed" \notin cause
            => rd.total <= rd.custody + float + out + Counted("tron")
  /\ rpc \in {"again", "list_bsc", "pay_in"} /\ ~Cancelled
       => rd.total <= Custody + float + out + AtAddresses("tron")
  /\ rpc = "bsc" /\ ~Cancelled
       => rd.total <= Custody + float + out + AtAddresses("tron") + PayIn + Counted("bsc")

\* The supply that was read is in the liability, or will be once the mints in flight are.
MintedIsOwed ==
  Unexcused =>
    /\ rpc = "ledger" =>
         rd.minted <= Base + SumOf(OnChain)
                      - (IF burn # "none" /\ "burning" \notin cause THEN Redeemed ELSE 0)
    /\ rpc = "flight" => rd.minted <= rd.owed + SumOf(OnChain \ Of("credited"))
    /\ rpc \notin {"idle", "ledger", "flight"} => rd.minted <= rd.owed

\* The liability that was read is covered by what was read and what is still to be read.
NothingMissed ==
  Unexcused /\ lost = 0 =>
    /\ rpc = "flight" => rd.owed <= Base + SumOf(Of("credited")) - TakenOff
    /\ rpc = "list" => rd.owed <= Base + Known("tron") + Known("bsc") - TakenOff
    /\ rpc \in {"custody", "float"} =>
         rd.owed <= Custody + float + Waiting("tron") + Known("bsc") - Unpaid
    /\ rpc = "walk" =>
         rd.owed <= rd.total + (Custody - rd.custody) + (float - rd.float)
                    + Waiting("tron") + Known("bsc") - Unpaid
    /\ rpc = "again" => rd.owed <= rd.total + (float - rd.float) + Known("bsc") - Unpaid
    /\ rpc = "list_bsc" => rd.owed <= rd.total + Known("bsc")
    /\ rpc = "pay_in" => rd.owed <= rd.total + PayIn + Waiting("bsc")
    /\ rpc = "bsc" => rd.owed <= rd.total + Waiting("bsc")

Inv == TypeOK /\ RowsAreTrue /\ FloatIsKept /\ InOrder /\ CountedOnce /\ MintedIsOwed /\ NothingMissed

-----------------------------------------------------------------------------
(* The sums.                                                               *)

\* Every sum over deposits is a natural number, and adds up over disjoint sets.
LEMMA SumOfTwo ==
  ASSUME NEW A, NEW B, A \subseteq Deposits, B \subseteq Deposits, A \cap B = {}
  PROVE  /\ SumOf(A) \in Nat /\ SumOf(B) \in Nat
         /\ SumOf(A \cup B) = SumOf(A) + SumOf(B)
<1>1. IsFiniteSet(A) /\ IsFiniteSet(B)
  BY FinitelyMany, FS_Subset
<1>2. \A d \in Deposits : Amount[d] \in Nat /\ Amount[d] \in Int
  BY ReserveAssumption
<1>3. /\ \A d \in A : Amount[d] \in Nat /\ Amount[d] \in Int
      /\ \A d \in B : Amount[d] \in Nat /\ Amount[d] \in Int
  BY <1>2
<1>4. SumOver(Amount, A) \in Nat /\ SumOver(Amount, B) \in Nat
  BY <1>1, <1>3, SumIsNat
<1>5. SumOver(Amount, A \cup B) = SumOver(Amount, A) + SumOver(Amount, B)
  BY <1>1, <1>3, SumUnion
<1> QED
  BY <1>4, <1>5 DEF SumOf

\* What is taken out of a set is taken out of its sum.
LEMMA SumOfLess ==
  ASSUME NEW B, B \subseteq Deposits, NEW A, A \subseteq B
  PROVE  /\ SumOf(A) \in Nat /\ SumOf(B) \in Nat /\ SumOf(A) <= SumOf(B)
         /\ SumOf(B \ A) = SumOf(B) - SumOf(A)
<1>1. A \cup (B \ A) = B /\ A \cap (B \ A) = {} /\ A \subseteq Deposits /\ B \ A \subseteq Deposits
  OBVIOUS
<1>2. /\ SumOf(A) \in Nat /\ SumOf(B \ A) \in Nat
      /\ SumOf(A \cup (B \ A)) = SumOf(A) + SumOf(B \ A)
  BY <1>1, SumOfTwo
<1>3. SumOf(B) = SumOf(A) + SumOf(B \ A)
  BY <1>1, <1>2
<1> QED
  BY <1>2, <1>3

\* The two rails are all the addresses there are.
LEMMA RailIsOne == \A a : Rail(a) \in Rails /\ (Rail(a) = "bsc" <=> a \in Bsc)
  BY DEF Rail, Rails

\* Every sum of the model is a natural number, before and after a step.
LEMMA SumsAreNat ==
  /\ \A r : /\ SumOf(Moved(r)) \in Nat /\ AtAddresses(r) \in Nat /\ Waiting(r) \in Nat
            /\ Counted(r) \in Nat /\ Known(r) \in Nat
  /\ \A s : SumOf(Of(s)) \in Nat
  /\ \A a : Balance(a) \in Nat
  /\ SumOf(OnChain) \in Nat /\ PayIn \in Nat /\ InFlight \in Nat
<1>1. \A A : A \subseteq Deposits => SumOf(A) \in Nat
  BY SumOfLess
<1> QED
  BY <1>1 DEF Moved, AtAddresses, Waiting, Counted, Known, Of, Balance, Here, OnChain, PayIn, InFlight

\* A step that moves no USDT changes no sum of USDT.
LEMMA PlaceKept ==
  ASSUME place' = place
  PROVE  /\ \A r : (SumOf(Moved(r)))' = SumOf(Moved(r)) /\ AtAddresses(r)' = AtAddresses(r)
         /\ PayIn' = PayIn
         /\ left' = left => \A r : Waiting(r)' = Waiting(r) /\ Counted(r)' = Counted(r)
<1>1. \A r : Moved(r)' = Moved(r)
  BY DEF Moved
<1>2. \A r : (SumOf(Moved(r)))' = SumOf(Moved(r))
  BY <1>1 DEF SumOf
<1>3. \A r : AtAddresses(r)' = AtAddresses(r)
  BY DEF AtAddresses, SumOf
<1>4. left' = left => \A r : Waiting(r)' = Waiting(r) /\ Counted(r)' = Counted(r)
  BY DEF Waiting, Counted, SumOf
<1> QED
  BY <1>2, <1>3, <1>4 DEF PayIn

\* A step that writes no status changes no sum over statuses.
LEMMA StatusKept ==
  ASSUME status' = status
  PROVE  /\ \A r : Known(r)' = Known(r)
         /\ \A s : Of(s)' = Of(s) /\ (SumOf(Of(s)))' = SumOf(Of(s))
<1>1. \A s : Of(s)' = Of(s)
  BY DEF Of
<1>2. \A r : Known(r)' = Known(r)
  BY DEF Known, SumOf
<1> QED
  BY <1>1, <1>2 DEF SumOf

\* USDT that arrives at an address adds to the sums there and takes from none.
LEMMA ArriveSums ==
  ASSUME TypeOK, NEW d \in Deposits, Arrive(d), left' = left
  PROVE  \A r : /\ (SumOf(Moved(r)))' = SumOf(Moved(r)) /\ PayIn' = PayIn
                /\ AtAddresses(r) <= AtAddresses(r)' /\ AtAddresses(r)' \in Nat
                /\ Waiting(r) <= Waiting(r)' /\ Waiting(r)' \in Nat
                /\ Counted(r) <= Counted(r)' /\ Counted(r)' \in Nat
<1>1. place[d] = "away" /\ place' = [place EXCEPT ![d] = "here"] /\ place \in [Deposits -> {"away", "here", "moved"}]
  BY DEF Arrive, TypeOK
<1>2. \A e \in Deposits : /\ place[e] = "here" => place'[e] = "here"
                          /\ place[e] = "moved" <=> place'[e] = "moved"
  BY <1>1
<1>3. \A r : Moved(r)' = Moved(r)
  BY <1>2 DEF Moved
<1>4. \A r : (SumOf(Moved(r)))' = SumOf(Moved(r))
  BY <1>3 DEF SumOf
<1>5. ASSUME NEW r
      PROVE  /\ AtAddresses(r) <= AtAddresses(r)' /\ AtAddresses(r)' \in Nat
             /\ Waiting(r) <= Waiting(r)' /\ Waiting(r)' \in Nat
             /\ Counted(r) <= Counted(r)' /\ Counted(r)' \in Nat
  <2>1. AtAddresses(r) <= AtAddresses(r)' /\ AtAddresses(r)' \in Nat
    <3> DEFINE A == {e \in Deposits : place[e] = "here" /\ Rail(Home[e]) = r}
    <3>1. A \subseteq A' /\ A' \subseteq Deposits
      BY <1>2
    <3>2. SumOf(A) <= SumOf(A') /\ SumOf(A') \in Nat
      BY <3>1, SumOfLess
    <3> QED
      BY <3>2 DEF AtAddresses, SumOf
  <2>2. Waiting(r) <= Waiting(r)' /\ Waiting(r)' \in Nat
    <3> DEFINE A == {e \in Deposits : place[e] = "here" /\ Rail(Home[e]) = r /\ Home[e] \in left}
    <3>1. A \subseteq A' /\ A' \subseteq Deposits
      BY <1>2
    <3>2. SumOf(A) <= SumOf(A') /\ SumOf(A') \in Nat
      BY <3>1, SumOfLess
    <3> QED
      BY <3>2 DEF Waiting, SumOf
  <2>3. Counted(r) <= Counted(r)' /\ Counted(r)' \in Nat
    <3> DEFINE A == {e \in Deposits : place[e] = "here" /\ Rail(Home[e]) = r /\ Home[e] \notin left}
    <3>1. A \subseteq A' /\ A' \subseteq Deposits
      BY <1>2
    <3>2. SumOf(A) <= SumOf(A') /\ SumOf(A') \in Nat
      BY <3>1, SumOfLess
    <3> QED
      BY <3>2 DEF Counted, SumOf
  <2> QED
    BY <2>1, <2>2, <2>3
<1> QED
  BY <1>4, <1>5 DEF PayIn

\* A sweep that lands moves what it was sized on from its address to where its rail ends,
\* whether the address has been read or not.
LEMMA LandSums ==
  ASSUME TypeOK, NEW a \in Addresses, Land(a), left' = left
  PROVE  /\ SumOf(tx[a]) \in Nat
         /\ (SumOf(Moved(Rail(a))))' = SumOf(Moved(Rail(a))) + SumOf(tx[a])
         /\ AtAddresses(Rail(a))' = AtAddresses(Rail(a)) - SumOf(tx[a])
         /\ Waiting(Rail(a))' = Waiting(Rail(a)) - (IF a \in left THEN SumOf(tx[a]) ELSE 0)
         /\ Counted(Rail(a))' = Counted(Rail(a)) - (IF a \in left THEN 0 ELSE SumOf(tx[a]))
         /\ \A r : r # Rail(a) => /\ (SumOf(Moved(r)))' = SumOf(Moved(r))
                                  /\ AtAddresses(r)' = AtAddresses(r)
                                  /\ Waiting(r)' = Waiting(r) /\ Counted(r)' = Counted(r)
<1> DEFINE D == tx[a]
           M(r) == Moved(r)
           H(r) == {e \in Deposits : place[e] = "here" /\ Rail(Home[e]) = r}
           W(r) == {e \in Deposits : place[e] = "here" /\ Rail(Home[e]) = r /\ Home[e] \in left}
           C(r) == {e \in Deposits : place[e] = "here" /\ Rail(Home[e]) = r /\ Home[e] \notin left}
<1>1. /\ D \subseteq Deposits
      /\ \A d \in D : Home[d] = a /\ place[d] = "here"
      /\ \A d \in Deposits : place'[d] = IF d \in D THEN "moved" ELSE place[d]
  BY DEF Land, Here
<1>2. /\ M(Rail(a))' = M(Rail(a)) \cup D /\ M(Rail(a)) \cap D = {} /\ M(Rail(a)) \subseteq Deposits
      /\ \A r : r # Rail(a) => M(r)' = M(r)
  BY <1>1 DEF Moved
<1>3. /\ H(Rail(a))' = H(Rail(a)) \ D /\ D \subseteq H(Rail(a)) /\ H(Rail(a)) \subseteq Deposits
      /\ \A r : r # Rail(a) => H(r)' = H(r)
  BY <1>1
<1>4. /\ a \in left => W(Rail(a))' = W(Rail(a)) \ D /\ D \subseteq W(Rail(a)) /\ C(Rail(a))' = C(Rail(a))
      /\ a \notin left => C(Rail(a))' = C(Rail(a)) \ D /\ D \subseteq C(Rail(a)) /\ W(Rail(a))' = W(Rail(a))
      /\ W(Rail(a)) \subseteq Deposits /\ C(Rail(a)) \subseteq Deposits
      /\ \A r : r # Rail(a) => W(r)' = W(r) /\ C(r)' = C(r)
  BY <1>1
<1>5. SumOf(D) \in Nat /\ SumOf(M(Rail(a)) \cup D) = SumOf(M(Rail(a))) + SumOf(D)
  BY <1>1, <1>2, SumOfTwo
<1>6. SumOf(H(Rail(a)) \ D) = SumOf(H(Rail(a))) - SumOf(D)
  BY <1>3, SumOfLess
<1>7. /\ a \in left => SumOf(W(Rail(a)) \ D) = SumOf(W(Rail(a))) - SumOf(D)
      /\ a \notin left => SumOf(C(Rail(a)) \ D) = SumOf(C(Rail(a))) - SumOf(D)
  BY <1>4, SumOfLess
<1>8. /\ \A r : (SumOf(Moved(r)))' = SumOf(M(r)') /\ SumOf(Moved(r)) = SumOf(M(r))
      /\ \A r : AtAddresses(r)' = SumOf(H(r)') /\ AtAddresses(r) = SumOf(H(r))
      /\ \A r : Waiting(r)' = SumOf(W(r)') /\ Waiting(r) = SumOf(W(r))
      /\ \A r : Counted(r)' = SumOf(C(r)') /\ Counted(r) = SumOf(C(r))
  BY DEF AtAddresses, Waiting, Counted, SumOf
<1>9. \A r : Waiting(r) \in Nat /\ Counted(r) \in Nat
  BY SumsAreNat
<1> HIDE DEF M, H, W, C
<1>10. /\ (SumOf(Moved(Rail(a))))' = SumOf(Moved(Rail(a))) + SumOf(D)
       /\ \A r : r # Rail(a) => (SumOf(Moved(r)))' = SumOf(Moved(r))
  BY <1>2, <1>5, <1>8
<1>11. /\ AtAddresses(Rail(a))' = AtAddresses(Rail(a)) - SumOf(D)
       /\ \A r : r # Rail(a) => AtAddresses(r)' = AtAddresses(r)
  BY <1>3, <1>6, <1>8
<1>12. /\ Waiting(Rail(a))' = Waiting(Rail(a)) - (IF a \in left THEN SumOf(D) ELSE 0)
       /\ Counted(Rail(a))' = Counted(Rail(a)) - (IF a \in left THEN 0 ELSE SumOf(D))
  BY <1>4, <1>7, <1>8, <1>9
<1>13. \A r : r # Rail(a) => Waiting(r)' = Waiting(r) /\ Counted(r)' = Counted(r)
  BY <1>4, <1>8
<1> QED
  BY <1>5, <1>10, <1>11, <1>12, <1>13

\* An address that is read passes from what waits to what is counted.
LEMMA ReadSums ==
  ASSUME NEW a \in left, place' = place, left' = left \ {a}
  PROVE  /\ Waiting(Rail(a))' = Waiting(Rail(a)) - Balance(a)
         /\ Counted(Rail(a))' = Counted(Rail(a)) + Balance(a)
<1> DEFINE r == Rail(a)
           D == Here(a)
           W == {e \in Deposits : place[e] = "here" /\ Rail(Home[e]) = r /\ Home[e] \in left}
           C == {e \in Deposits : place[e] = "here" /\ Rail(Home[e]) = r /\ Home[e] \notin left}
<1>1. W' = W \ D /\ D \subseteq W /\ W \subseteq Deposits
  BY DEF Here
<1>2. C' = C \cup D /\ C \cap D = {} /\ C \subseteq Deposits /\ D \subseteq Deposits
  BY DEF Here
<1>3. SumOf(W \ D) = SumOf(W) - SumOf(D)
  BY <1>1, SumOfLess
<1>4. SumOf(C \cup D) = SumOf(C) + SumOf(D)
  BY <1>2, SumOfTwo
<1>5. /\ Waiting(r)' = SumOf(W') /\ Waiting(r) = SumOf(W)
      /\ Counted(r)' = SumOf(C') /\ Counted(r) = SumOf(C)
  BY DEF Waiting, Counted, SumOf
<1> HIDE DEF W, C, D
<1>6. Waiting(r)' = Waiting(r) - SumOf(D) /\ Counted(r)' = Counted(r) + SumOf(D)
  BY <1>1, <1>2, <1>3, <1>4, <1>5
<1> QED
  BY <1>6 DEF Balance, D

-----------------------------------------------------------------------------
(* Types.                                                                  *)

\* What a run reads are integers.
LEMMA FiguresAreInts ==
  ASSUME TypeOK
  PROVE  /\ Custody \in Int /\ PayIn \in Int /\ Supply \in Int /\ Liability \in Int
         /\ InFlight \in Int /\ float \in Int /\ \A a : Balance(a) \in Int
<1>1. /\ Base \in Int /\ InFloat \in Int /\ Redeemed \in Int
      /\ filled \in Int /\ lost \in Int /\ float \in Int
  BY ReserveAssumption DEF TypeOK
<1> QED
  BY <1>1, SumsAreNat DEF Custody, PayIn, Supply, Liability, InFlight

\* The sweeper's and the chains' steps keep the types.
LEMMA TypeSweepStep == ASSUME TypeOK, Sweep PROVE TypeOK'
<1> PICK a \in Addresses : SendSweep(a) \/ SweepLands(a) \/ SweepLost(a) \/ MarkSwept(a)
  BY DEF Sweep
<1> USE DEF TypeOK, promiseVars, ledgerVars, moneyVars, runVars, historyVars
<1>1. CASE SendSweep(a)
  BY <1>1 DEF SendSweep, Send, Here
<1>2. CASE SweepLands(a)
  BY <1>2 DEF SweepLands, Land, Causes
<1>3. CASE SweepLost(a)
  BY <1>3 DEF SweepLost, Lose
<1>4. CASE MarkSwept(a)
  <2>1. swept' \subseteq Deposits
    BY <1>4 DEF MarkSwept, Mark, Sweepable
  <2>2. UNCHANGED <<status, place, tx, sent, ledgerVars, moneyVars, halted, runVars, historyVars>>
    BY <1>4 DEF MarkSwept, Mark
  <2> QED
    BY <2>1, <2>2
<1> QED
  BY <1>1, <1>2, <1>3, <1>4

\* The steps of the ledger, the chain it follows and the operator keep the types.
LEMMA TypeLedgerStep == ASSUME TypeOK, Ledger PROVE TypeOK'
<1> USE DEF TypeOK, promiseVars, ledgerVars, moneyVars, runVars, historyVars
<1>0. /\ Base \in Nat /\ InFloat \in Nat /\ Redeemed \in Nat /\ Filling \in Nat /\ Loss \in Nat
  BY ReserveAssumption
<1>1. ASSUME NEW d \in Deposits, DepositArrives(d) PROVE TypeOK'
  BY <1>1 DEF DepositArrives, Arrive
<1>2. ASSUME NEW d \in Deposits, Verify(d) PROVE TypeOK'
  BY <1>2 DEF Verify, SetStatus, Statuses
<1>3. ASSUME NEW d \in Deposits, HumanApproves(d) \/ MarkSubmitted(d) PROVE TypeOK'
  BY <1>3 DEF HumanApproves, MarkSubmitted, SetStatus, Statuses
<1>4. ASSUME NEW d \in Deposits, SendMint(d) \/ LandMint(d) PROVE TypeOK'
  BY <1>4 DEF SendMint, LandMint, SetMint
<1>5. ASSUME NEW d \in Deposits, CreditMint(d) PROVE TypeOK'
  BY <1>5 DEF CreditMint, SetStatus, Statuses, Causes
<1>6. CASE Burn
  BY <1>6 DEF Burn, Causes
<1>7. CASE ConfirmBurn
  BY <1>7 DEF ConfirmBurn, Causes
<1>8. CASE Pay
  <2>1. float' \in Nat /\ out' \in Nat
    BY <1>0, <1>8 DEF Pay
  <2> QED
    BY <1>8, <2>1 DEF Pay, Causes
<1>9. CASE FillFloat
  <2>1. float' \in Nat
    BY <1>0, <1>9 DEF FillFloat
  <2> QED
    BY <1>9, <2>1 DEF FillFloat, Causes
<1>10. CASE Leak \/ Resume
  BY <1>10 DEF Leak, Resume
<1> QED
  BY <1>1, <1>2, <1>3, <1>4, <1>5, <1>6, <1>7, <1>8, <1>9, <1>10 DEF Ledger

\* The end of a run leaves nothing of it.
LEMMA EndRunTypes == ASSUME TypeOK, EndRun, halted' \in BOOLEAN PROVE TypeOK'
<1>1. rd' \in Reading
  BY DEF EndRun, NoReading, Reading
<1> QED
  BY <1>1 DEF TypeOK, EndRun, Stages, promiseVars, ledgerVars, moneyVars

\* The readings keep the types.
LEMMA TypeRunStep == ASSUME TypeOK, Run PROVE TypeOK'
<1> USE DEF Goto, promiseVars, ledgerVars, moneyVars, runVars, historyVars
<1>0. /\ \A r : Unswept(r) \subseteq Addresses
      /\ rd \in Reading /\ left \subseteq Addresses /\ cause \subseteq Causes
  BY AddressAssumption DEF Unswept, UnsweptRows, TypeOK
<1>1. ASSUME rpc' \in Stages, left' \subseteq Addresses, rd' \in Reading, cause' \subseteq Causes,
             UNCHANGED <<promiseVars, ledgerVars, moneyVars, halted, out>>
      PROVE  TypeOK'
  BY <1>1 DEF TypeOK
<1>2. ASSUME ReadSupply PROVE TypeOK'
  <2>1. rd' \in Reading
    BY <1>2, FiguresAreInts DEF ReadSupply, NoReading, Reading
  <2> QED
    BY <1>0, <1>1, <1>2, <2>1 DEF ReadSupply, Stages
<1>3. ASSUME ReadLedger PROVE TypeOK'
  <2>1. rd' \in Reading
    BY <1>0, <1>3, FiguresAreInts DEF ReadLedger, Reading
  <2> QED
    BY <1>0, <1>1, <1>3, <2>1 DEF ReadLedger, Stages
<1>4. ASSUME ReadInFlight PROVE TypeOK'
  <2>1. rd' \in Reading
    BY <1>0, <1>4, FiguresAreInts DEF ReadInFlight, Reading
  <2> QED
    BY <1>0, <1>1, <1>4, <2>1 DEF ReadInFlight, Stages, Causes
<1>5. ASSUME ListUnswept \/ ListUnread PROVE TypeOK'
  BY <1>0, <1>1, <1>5 DEF ListUnswept, ListUnread, Stages, Causes
<1>6. ASSUME ReadCustody PROVE TypeOK'
  <2>1. rd' \in Reading
    BY <1>0, <1>6, FiguresAreInts DEF ReadCustody, Reading
  <2> QED
    BY <1>0, <1>1, <1>6, <2>1 DEF ReadCustody, Stages
<1>7. ASSUME ReadFloat PROVE TypeOK'
  <2>0. rd.total + float \in Int
    BY <1>0, FiguresAreInts DEF Reading
  <2>1. rd' \in Reading
    BY <1>0, <1>7, <2>0, FiguresAreInts DEF ReadFloat, Reading
  <2> QED
    BY <1>0, <1>1, <1>7, <2>1 DEF ReadFloat, Stages
<1>8. ASSUME NEW a \in Addresses, ReadAddress(a) PROVE TypeOK'
  <2>0. rd.total + Balance(a) \in Int
    BY <1>0, FiguresAreInts DEF Reading
  <2>1. rd' \in Reading
    BY <1>0, <1>8, <2>0, FiguresAreInts DEF ReadAddress, Reading
  <2> QED
    BY <1>0, <1>1, <1>8, <2>1 DEF ReadAddress, Stages
<1>9. ASSUME ReadCustodyAgain PROVE TypeOK'
  BY <1>0, <1>1, <1>9 DEF ReadCustodyAgain, Stages
<1>10. ASSUME ReadFloatAgain PROVE TypeOK'
  <2>0. rd.minted \in Int /\ rd.owed \in Int /\ rd.total \in Int
    BY <1>0 DEF Reading
  <2>1. rd' = [NoReading EXCEPT !.minted = rd.minted, !.owed = rd.owed, !.total = rd.total]
    BY <1>10 DEF ReadFloatAgain
  <2>2. rd' = [minted |-> rd.minted, owed |-> rd.owed, total |-> rd.total, custody |-> 0, float |-> 0]
    BY <2>1 DEF NoReading
  <2>3. rd' \in Reading
    BY <2>0, <2>2 DEF Reading
  <2> QED
    BY <1>0, <1>1, <1>10, <2>3 DEF ReadFloatAgain, Stages
<1>11. ASSUME ListUnsweptBsc PROVE TypeOK'
  BY <1>0, <1>1, <1>11 DEF ListUnsweptBsc, Stages
<1>12. ASSUME ReadPayIn PROVE TypeOK'
  <2>0. rd.total + PayIn \in Int
    BY <1>0, FiguresAreInts DEF Reading
  <2>1. rd' \in Reading
    BY <1>0, <1>12, <2>0, FiguresAreInts DEF ReadPayIn, Reading
  <2> QED
    BY <1>0, <1>1, <1>12, <2>1 DEF ReadPayIn, Stages
<1>13. ASSUME NEW a \in Addresses, ReadBscAddress(a) PROVE TypeOK'
  <2>0. rd.total + Balance(a) \in Int
    BY <1>0, FiguresAreInts DEF Reading
  <2>1. rd' \in Reading
    BY <1>0, <1>13, <2>0, FiguresAreInts DEF ReadBscAddress, Reading
  <2> QED
    BY <1>0, <1>1, <1>13, <2>1 DEF ReadBscAddress, Stages
<1>14. ASSUME MovedMeanwhile \/ ReadFails \/ Record PROVE TypeOK'
  <2>1. EndRun /\ halted' \in BOOLEAN
    BY <1>14 DEF MovedMeanwhile, ReadFails, Record, TypeOK
  <2> QED
    BY <2>1, EndRunTypes
<1> QED
  BY <1>2, <1>3, <1>4, <1>5, <1>6, <1>7, <1>8, <1>9, <1>10, <1>11, <1>12, <1>13, <1>14 DEF Run

\* Every step keeps the types.
LEMMA TypeStep == TypeOK /\ [Next]_vars => TypeOK'
<1>1. ASSUME TypeOK, UNCHANGED vars PROVE TypeOK'
  BY <1>1 DEF TypeOK, vars, promiseVars, ledgerVars, moneyVars, runVars, historyVars
<1> QED
  BY <1>1, TypeSweepStep, TypeLedgerStep, TypeRunStep DEF Next

\* A new treasury is typed.
LEMMA TypeAtFirst == Init => TypeOK
<1> SUFFICES ASSUME Init PROVE TypeOK
  OBVIOUS
<1>1. rd \in Reading
  BY DEF Init, NoReading, Reading
<1>2. float \in Nat
  BY ReserveAssumption DEF Init
<1> QED
  BY <1>1, <1>2, AddressAssumption DEF Init, PromiseInit, TypeOK, Statuses, Stages

\* Every variable has its type in every state: above all the float is never negative,
\* since a redemption is paid only out of what the float holds (payout.rs's check of it).
THEOREM ReconciliationTypes == Spec => []TypeOK
  BY TypeAtFirst, TypeStep, PTL DEF Spec

-----------------------------------------------------------------------------
(* What the rows and the float say, and what a stage excludes.             *)

\* A run writes nothing that it reads.
LEMMA RunKeepsWorld ==
  ASSUME Run PROVE UNCHANGED <<promiseVars, ledgerVars, moneyVars>>
<1>1. ASSUME NEW a \in Addresses, ReadAddress(a) \/ ReadBscAddress(a)
      PROVE  UNCHANGED <<promiseVars, ledgerVars, moneyVars>>
  BY <1>1 DEF ReadAddress, ReadBscAddress, Goto
<1> QED
  BY <1>1 DEF Run, ReadSupply, ReadLedger, ReadInFlight, ListUnswept, ListUnread, ReadCustody, ReadFloat,
    ReadCustodyAgain, ReadFloatAgain, ListUnsweptBsc, ReadPayIn, MovedMeanwhile, ReadFails, Record, EndRun, Goto

\* The rows stay true.
LEMMA RowsStep == ASSUME TypeOK, RowsAreTrue, [Next]_vars PROVE RowsAreTrue'
<1> USE DEF TypeOK, RowsAreTrue, promiseVars, ledgerVars
<1>1. ASSUME UNCHANGED <<promiseVars, ledgerVars>> PROVE RowsAreTrue'
  BY <1>1 DEF OnBsc
<1>2. ASSUME NEW a \in Addresses, SendSweep(a) \/ SweepLost(a) PROVE RowsAreTrue'
  BY <1>2 DEF SendSweep, Send, SweepLost, Lose, OnBsc
<1>3. ASSUME NEW a \in Addresses, SweepLands(a) PROVE RowsAreTrue'
  BY <1>3 DEF SweepLands, Land, OnBsc
<1>4. ASSUME NEW a \in Addresses, MarkSwept(a) PROVE RowsAreTrue'
  BY <1>4 DEF MarkSwept, Mark, OnBsc, HasLeft
<1>5. ASSUME NEW d \in Deposits, DepositArrives(d) PROVE RowsAreTrue'
  BY <1>5 DEF DepositArrives, Arrive, OnBsc
<1>6. ASSUME NEW d \in Deposits, Verify(d) \/ HumanApproves(d) PROVE RowsAreTrue'
  BY <1>6 DEF Verify, HumanApproves, SetStatus, OnBsc
<1>7. ASSUME NEW d \in Deposits, MarkSubmitted(d) \/ CreditMint(d) PROVE RowsAreTrue'
  BY <1>7 DEF MarkSubmitted, CreditMint, SetStatus, OnBsc
<1>8. ASSUME NEW d \in Deposits, SendMint(d) \/ LandMint(d) PROVE RowsAreTrue'
  BY <1>8 DEF SendMint, LandMint, SetMint, OnBsc
<1>9. ASSUME Burn \/ ConfirmBurn \/ Pay \/ FillFloat \/ Leak \/ Resume PROVE RowsAreTrue'
  BY <1>9 DEF Burn, ConfirmBurn, Pay, FillFloat, Leak, Resume, OnBsc
<1>10. ASSUME Run PROVE RowsAreTrue'
  BY <1>1, <1>10, RunKeepsWorld
<1>11. ASSUME UNCHANGED vars PROVE RowsAreTrue'
  BY <1>1, <1>11 DEF vars
<1> QED
  BY <1>2, <1>3, <1>4, <1>5, <1>6, <1>7, <1>8, <1>9, <1>10, <1>11 DEF Next, Sweep, Ledger

\* The float has what was put in and not paid.
LEMMA FloatStep == ASSUME TypeOK, FloatIsKept, [Next]_vars PROVE FloatIsKept'
<1> USE DEF FloatIsKept, Paid
<1>0. /\ InFloat \in Int /\ Redeemed \in Int /\ Filling \in Int /\ filled \in Int /\ float \in Int
  BY ReserveAssumption DEF TypeOK
<1>1. ASSUME UNCHANGED <<burn, float, filled>> PROVE FloatIsKept'
  BY <1>1
<1>2. ASSUME Sweep PROVE UNCHANGED <<burn, float, filled>>
  BY <1>2 DEF Sweep, SendSweep, SweepLands, SweepLost, MarkSwept, ledgerVars, moneyVars
<1>3. ASSUME NEW d \in Deposits,
             \/ DepositArrives(d) \/ Verify(d) \/ HumanApproves(d)
             \/ SendMint(d) \/ MarkSubmitted(d) \/ LandMint(d) \/ CreditMint(d)
      PROVE  UNCHANGED <<burn, float, filled>>
  BY <1>3 DEF DepositArrives, Verify, HumanApproves, SendMint, MarkSubmitted, LandMint, CreditMint,
    ledgerVars, moneyVars
<1>4. ASSUME Burn \/ ConfirmBurn PROVE FloatIsKept'
  BY <1>4 DEF Burn, ConfirmBurn, moneyVars
<1>5. ASSUME Pay PROVE FloatIsKept'
  BY <1>0, <1>5 DEF Pay
<1>6. ASSUME FillFloat PROVE FloatIsKept'
  BY <1>0, <1>6 DEF FillFloat, ledgerVars
<1>7. ASSUME Leak \/ Resume PROVE FloatIsKept'
  BY <1>7 DEF Leak, Resume, ledgerVars, moneyVars
<1>8. ASSUME Run PROVE UNCHANGED <<burn, float, filled>>
  BY <1>8, RunKeepsWorld DEF ledgerVars, moneyVars
<1>9. ASSUME UNCHANGED vars PROVE UNCHANGED <<burn, float, filled>>
  BY <1>9 DEF vars, ledgerVars, moneyVars
<1> QED
  BY <1>1, <1>2, <1>3, <1>4, <1>5, <1>6, <1>7, <1>8, <1>9 DEF Next, Ledger

\* The causes follow the stages, and the addresses that are left those that were listed.
LEMMA OrderStep == ASSUME TypeOK, InOrder, [Next]_vars PROVE InOrder'
<1> USE DEF InOrder, Stages, runVars, historyVars, ledgerVars, moneyVars
<1>1. ASSUME UNCHANGED <<rpc, left, burn, filled, cause>> PROVE InOrder'
  BY <1>1
<1>2. ASSUME NEW a \in Addresses, SendSweep(a) \/ SweepLost(a) \/ MarkSwept(a)
      PROVE  UNCHANGED <<rpc, left, burn, filled, cause>>
  BY <1>2 DEF SendSweep, SweepLost, MarkSwept
<1>3. ASSUME NEW a \in Addresses, SweepLands(a) PROVE InOrder'
  BY <1>3 DEF SweepLands
<1>4. ASSUME NEW d \in Deposits,
             \/ DepositArrives(d) \/ Verify(d) \/ HumanApproves(d)
             \/ SendMint(d) \/ MarkSubmitted(d) \/ LandMint(d)
      PROVE  UNCHANGED <<rpc, left, burn, filled, cause>>
  BY <1>4 DEF DepositArrives, Verify, HumanApproves, SendMint, MarkSubmitted, LandMint
<1>5. ASSUME NEW d \in Deposits, CreditMint(d) PROVE InOrder'
  BY <1>5 DEF CreditMint
<1>6. CASE Burn
  BY <1>6 DEF Burn
<1>7. CASE ConfirmBurn
  BY <1>7 DEF ConfirmBurn
<1>8. CASE Pay
  BY <1>8 DEF Pay
<1>9. CASE FillFloat
  BY <1>9, ReserveAssumption DEF FillFloat
<1>10. CASE Leak \/ Resume
  BY <1>10 DEF Leak, Resume
<1>11. CASE Run
  <2> USE RunKeepsWorld DEF Goto
  <2>1. CASE ReadSupply \/ ReadLedger \/ ReadInFlight
    BY <2>1 DEF ReadSupply, ReadLedger, ReadInFlight
  <2>2. CASE ListUnswept \/ ListUnread \/ ListUnsweptBsc
    <3>1. Unswept("tron") \cap Bsc = {} /\ Unswept("bsc") \subseteq Bsc
      BY RailIsOne DEF Unswept, UnsweptRows, Rails
    <3> QED
      BY <2>2, <3>1 DEF ListUnswept, ListUnread, ListUnsweptBsc
  <2>3. CASE ReadCustody \/ ReadFloat \/ ReadPayIn
    BY <2>3 DEF ReadCustody, ReadFloat, ReadPayIn
  <2>4. ASSUME NEW a \in Addresses, ReadAddress(a) \/ ReadBscAddress(a) PROVE InOrder'
    BY <2>4 DEF ReadAddress, ReadBscAddress
  <2>5. CASE ReadCustodyAgain \/ ReadFloatAgain
    BY <2>5 DEF ReadCustodyAgain, ReadFloatAgain
  <2>6. CASE MovedMeanwhile \/ ReadFails \/ Record
    BY <2>6 DEF MovedMeanwhile, ReadFails, Record, EndRun
  <2> QED
    BY <1>11, <2>1, <2>2, <2>3, <2>4, <2>5, <2>6 DEF Run
<1>12. ASSUME UNCHANGED vars PROVE UNCHANGED <<rpc, left, burn, filled, cause>>
  BY <1>12 DEF vars
<1> QED
  BY <1>1, <1>2, <1>3, <1>4, <1>5, <1>6, <1>7, <1>8, <1>9, <1>10, <1>11, <1>12 DEF Next, Sweep, Ledger

-----------------------------------------------------------------------------
(* A run counts nothing twice.                                             *)

\* Custody is what it was unless USDT moves.
LEMMA CustodyKept ==
  ASSUME UNCHANGED <<place, filled, lost>> PROVE Custody' = Custody
BY PlaceKept DEF Custody

LEMMA CancelledIsBoth == Cancelled <=> "filled" \in cause /\ "landed" \in cause
  BY DEF Cancelled

\* A step that touches neither the money nor what the run has read of it.
LEMMA CountedQuiet ==
  ASSUME CountedOnce, UNCHANGED <<place, left, float, out, filled, lost, rpc, rd>>,
         "filled" \in cause' <=> "filled" \in cause, "landed" \in cause' <=> "landed" \in cause
  PROVE  CountedOnce'
<1>1. /\ Custody' = Custody /\ PayIn' = PayIn
      /\ \A r : AtAddresses(r)' = AtAddresses(r) /\ Counted(r)' = Counted(r)
  BY PlaceKept, CustodyKept
<1>2. Twice' = Twice /\ (Cancelled' <=> Cancelled)
  BY DEF Twice, Cancelled
<1> QED
  BY <1>1, <1>2 DEF CountedOnce

\* The figures of the money, and how they compare, as integers.
LEMMA MoneyIsInt ==
  ASSUME TypeOK
  PROVE  /\ Custody \in Int /\ float \in Int /\ out \in Nat /\ PayIn \in Nat
         /\ AtAddresses("tron") \in Nat /\ Counted("tron") \in Nat /\ Counted("bsc") \in Nat
         /\ Waiting("tron") \in Nat /\ Waiting("bsc") \in Nat
         /\ Known("tron") \in Nat /\ Known("bsc") \in Nat
         /\ rd.total \in Int /\ rd.custody \in Int /\ rd.float \in Int /\ rd.owed \in Int
         /\ rd.minted \in Int
         /\ Redeemed \in Nat /\ Filling \in Nat \ {0} /\ Twice \in Nat
<1>1. rd.total \in Int /\ rd.custody \in Int /\ rd.float \in Int /\ rd.owed \in Int /\ rd.minted \in Int
  BY DEF TypeOK, Reading
<1>2. Redeemed \in Nat /\ Filling \in Nat \ {0} /\ Twice \in Nat
  BY ReserveAssumption DEF Twice
<1> QED
  BY <1>1, <1>2, SumsAreNat, FiguresAreInts DEF TypeOK

\* USDT that arrives is only more.
LEMMA CountedArrive == ASSUME Inv, NEW d \in Deposits, DepositArrives(d) PROVE CountedOnce'
<1>1. /\ UNCHANGED <<left, float, out, filled, lost, rpc, rd, cause>> /\ Arrive(d)
  BY DEF DepositArrives, moneyVars, runVars, historyVars
<1>2. /\ PayIn' = PayIn /\ (SumOf(Moved("tron")))' = SumOf(Moved("tron"))
      /\ AtAddresses("tron") <= AtAddresses("tron")' /\ AtAddresses("tron")' \in Nat
      /\ Counted("tron") <= Counted("tron")' /\ Counted("tron")' \in Nat
      /\ Counted("bsc") <= Counted("bsc")' /\ Counted("bsc")' \in Nat
  BY <1>1, ArriveSums DEF Inv
<1>3. Custody' = Custody
  BY <1>1, <1>2 DEF Custody
<1>4. Twice' = Twice /\ (Cancelled' <=> Cancelled)
  BY <1>1 DEF Twice, Cancelled
<1>5. CountedOnce /\ TypeOK
  BY DEF Inv
<1> QED
  BY <1>1, <1>2, <1>3, <1>4, <1>5, MoneyIsInt DEF CountedOnce

\* USDT that lands passes from an address to custody or to the pay-in address: what was
\* read of it is still there, but custody was read without it.
LEMMA CountedLand == ASSUME Inv, NEW a \in Addresses, SweepLands(a) PROVE CountedOnce'
<1>1. /\ UNCHANGED <<left, float, out, filled, lost, rpc, rd>> /\ Land(a)
      /\ cause' = cause \cup CASE rpc = "bsc" /\ a \in Bsc -> {"swept"}
                               [] rpc = "walk" /\ a \notin Bsc -> {"landed"}
                               [] OTHER -> {}
  BY DEF SweepLands, moneyVars, runVars
<1>2. TypeOK /\ CountedOnce
  BY DEF Inv
<1> DEFINE m == SumOf(tx[a])
<1>3. m \in Nat
  BY <1>1, <1>2, LandSums
<1>4. /\ "filled" \in cause' <=> "filled" \in cause
      /\ "landed" \in cause => "landed" \in cause'
      /\ rpc # "walk" => ("landed" \in cause' <=> "landed" \in cause)
      /\ rpc = "walk" /\ a \notin Bsc => "landed" \in cause'
      /\ a \in Bsc => ("landed" \in cause' <=> "landed" \in cause)
  BY <1>1
<1>5. Twice' = Twice
  BY <1>4 DEF Twice
<1>6. Cancelled => Cancelled'
  BY <1>4 DEF Cancelled
<1>7. CASE a \in Bsc
  <2>1. Rail(a) = "bsc" /\ Rail(a) # "tron"
    BY <1>7 DEF Rail
  <2>2. /\ (SumOf(Moved("tron")))' = SumOf(Moved("tron")) /\ (SumOf(Moved("bsc")))' = SumOf(Moved("bsc")) + m
        /\ AtAddresses("tron")' = AtAddresses("tron") /\ Counted("tron")' = Counted("tron")
        /\ Counted("bsc")' = Counted("bsc") - (IF a \in left THEN 0 ELSE m)
    BY <1>1, <1>2, <2>1, LandSums
  <2>3. Custody' = Custody /\ PayIn' = PayIn + m
    BY <1>1, <2>2 DEF Custody, PayIn
  <2> HIDE DEF m
  <2> QED
    BY <1>1, <1>2, <1>3, <1>4, <1>5, <1>6, <1>7, <2>2, <2>3, MoneyIsInt DEF CountedOnce
<1>8. CASE a \notin Bsc
  <2>1. Rail(a) = "tron" /\ Rail(a) # "bsc"
    BY <1>8 DEF Rail
  <2>2. /\ (SumOf(Moved("bsc")))' = SumOf(Moved("bsc")) /\ (SumOf(Moved("tron")))' = SumOf(Moved("tron")) + m
        /\ Counted("bsc")' = Counted("bsc") /\ AtAddresses("tron")' = AtAddresses("tron") - m
        /\ Counted("tron")' = Counted("tron") - (IF a \in left THEN 0 ELSE m)
    BY <1>1, <1>2, <2>1, LandSums
  <2>3. Custody' = Custody + m
    <3>1. SumOf(Moved("tron")) \in Int /\ Base \in Int /\ InFloat \in Int /\ filled \in Int /\ lost \in Int
      BY SumsAreNat, ReserveAssumption, <1>2 DEF TypeOK
    <3> QED
      BY <1>1, <1>3, <2>2, <3>1 DEF Custody
  <2>4. PayIn' = PayIn
    BY <2>2 DEF PayIn
  <2> HIDE DEF m
  <2> QED
    BY <1>1, <1>2, <1>3, <1>4, <1>5, <1>6, <1>8, <2>2, <2>3, <2>4, MoneyIsInt DEF CountedOnce
<1> QED
  BY <1>7, <1>8

\* What is paid out while a run reads is in `out'.
LEMMA CountedPay == ASSUME Inv, Pay PROVE CountedOnce'
<1>1. /\ UNCHANGED <<place, left, filled, lost, rpc, rd>>
      /\ float' = float - Redeemed /\ out' = out + IF rpc = "idle" THEN 0 ELSE Redeemed
      /\ cause' = cause \cup IF "confirmed" \in cause THEN {"paid"} ELSE {}
  BY DEF Pay, promiseVars, runVars
<1>2. /\ Custody' = Custody /\ PayIn' = PayIn
      /\ \A r : AtAddresses(r)' = AtAddresses(r) /\ Counted(r)' = Counted(r)
  BY <1>1, PlaceKept, CustodyKept
<1>3. Twice' = Twice /\ (Cancelled' <=> Cancelled) /\ ("landed" \in cause' <=> "landed" \in cause)
      /\ ("filled" \in cause' <=> "filled" \in cause)
  BY <1>1 DEF Twice, Cancelled
<1>4. rpc # "idle" => float' + out' = float + out
  BY <1>1, MoneyIsInt DEF Inv
<1>5. float' \in Int /\ out' \in Int
  BY <1>1, MoneyIsInt DEF Inv
<1> QED
  BY <1>1, <1>2, <1>3, <1>4, <1>5, MoneyIsInt DEF CountedOnce, Inv

\* What fills the float between the readings of custody and of the float is in both; at
\* any other time it is in one.
LEMMA CountedFill == ASSUME Inv, FillFloat PROVE CountedOnce'
<1>1. /\ UNCHANGED <<place, left, lost, rpc, rd, out>>
      /\ filled = 0 /\ filled' = Filling /\ float' = float + Filling
      /\ cause' = cause \cup IF rpc = "float" THEN {"filled"} ELSE {}
  BY DEF FillFloat, promiseVars, runVars
<1>2. /\ PayIn' = PayIn /\ (SumOf(Moved("tron")))' = SumOf(Moved("tron"))
      /\ \A r : AtAddresses(r)' = AtAddresses(r) /\ Counted(r)' = Counted(r)
  BY <1>1, PlaceKept
<1>3. Custody' = Custody - Filling
  <2>1. SumOf(Moved("tron")) \in Int /\ Base \in Int /\ InFloat \in Int /\ lost \in Int /\ Filling \in Int
    BY SumsAreNat, ReserveAssumption DEF TypeOK, Inv
  <2> QED
    BY <1>1, <1>2, <2>1 DEF Custody
<1>4. "filled" \notin cause /\ Twice = 0
  BY <1>1, MoneyIsInt DEF Inv, InOrder, Twice
<1>5. Twice' = (IF rpc = "float" THEN Filling ELSE 0) /\ ("landed" \in cause' <=> "landed" \in cause)
      /\ (rpc # "float" => "filled" \notin cause')
  BY <1>1, <1>4 DEF Twice
<1>6. Cancelled' => rpc = "float"
  BY <1>5 DEF Cancelled
<1> QED
  BY <1>1, <1>2, <1>3, <1>4, <1>5, <1>6, CancelledIsBoth, MoneyIsInt DEF CountedOnce, Inv

\* The readings: of custody and the float, of the addresses, and of custody once more.
LEMMA CountedRun == ASSUME Inv, Run PROVE CountedOnce'
<1>1. UNCHANGED <<place, float, filled, lost>>
  BY RunKeepsWorld DEF promiseVars, moneyVars
<1>2. /\ Custody' = Custody /\ PayIn' = PayIn /\ \A r : AtAddresses(r)' = AtAddresses(r)
      /\ left' = left => \A r : Counted(r)' = Counted(r)
  BY <1>1, PlaceKept, CustodyKept
<1>3. /\ TypeOK /\ CountedOnce /\ InOrder /\ rd \in Reading
      /\ "filled" \in cause' <=> "filled" \in cause => Twice' = Twice
  BY DEF Inv, Twice, TypeOK
<1> USE DEF Goto, CountedOnce
<1>4. ASSUME ReadSupply \/ ReadLedger \/ ReadInFlight \/ ListUnswept \/ ListUnread PROVE CountedOnce'
  BY <1>4 DEF ReadSupply, ReadLedger, ReadInFlight, ListUnswept, ListUnread
<1>5. ASSUME ReadCustody PROVE CountedOnce'
  <2>1. rpc' = "float" /\ rd'.total = Custody /\ rd'.custody = Custody /\ cause' = cause
    BY <1>3, <1>5 DEF ReadCustody, Reading
  <2>2. Twice' \in Nat
    BY <2>1, MoneyIsInt, <1>3 DEF Twice
  <2> QED
    BY <1>2, <1>3, <2>1, <2>2, MoneyIsInt
<1>6. ASSUME ReadFloat PROVE CountedOnce'
  <2>1. /\ rpc = "float" /\ rpc' = "walk" /\ cause' = cause /\ left' = left /\ out' = out
        /\ rd'.total = rd.total + float /\ rd'.custody = rd.custody
    BY <1>3, <1>6 DEF ReadFloat, Reading
  <2> QED
    BY <1>1, <1>2, <1>3, <2>1, MoneyIsInt DEF Twice
<1>7. ASSUME NEW a \in Addresses, ReadAddress(a) PROVE CountedOnce'
  <2>1. /\ rpc = "walk" /\ rpc' = "walk" /\ cause' = cause /\ left' = left \ {a} /\ out' = out /\ a \in left
        /\ rd'.total = rd.total + Balance(a) /\ rd'.custody = rd.custody
    BY <1>3, <1>7 DEF ReadAddress, Reading
  <2>2. Rail(a) = "tron"
    BY <1>3, <2>1 DEF InOrder, Rail
  <2>3. Counted("tron")' = Counted("tron") + Balance(a) /\ Balance(a) \in Nat
    BY <1>1, <2>1, <2>2, ReadSums, SumsAreNat
  <2> QED
    BY <1>1, <1>2, <1>3, <2>1, <2>3, MoneyIsInt DEF Twice
<1>8. ASSUME ReadCustodyAgain PROVE CountedOnce'
  <2>1. /\ rpc = "walk" /\ rpc' = "again" /\ cause' = cause /\ out' = out /\ rd' = rd
        /\ Custody = rd.custody
    BY <1>8 DEF ReadCustodyAgain
  <2>2. Counted("tron") <= AtAddresses("tron")
    BY SumOfLess DEF Counted, AtAddresses
  <2>3. Cancelled' <=> Cancelled
    BY <2>1 DEF Cancelled
  <2> QED
    BY <1>1, <1>2, <1>3, <2>1, <2>2, <2>3, CancelledIsBoth, MoneyIsInt DEF Twice
<1>9. ASSUME ReadFloatAgain \/ ListUnsweptBsc PROVE CountedOnce'
  <2>1. /\ rpc \in {"again", "list_bsc"} /\ rpc' \in {"list_bsc", "pay_in"} /\ cause' = cause /\ out' = out
        /\ rd'.total = rd.total
    BY <1>3, <1>9 DEF ReadFloatAgain, ListUnsweptBsc, NoReading
  <2>2. Cancelled' <=> Cancelled
    BY <2>1 DEF Cancelled
  <2> QED
    BY <1>1, <1>2, <1>3, <2>1, <2>2
<1>10. ASSUME ReadPayIn PROVE CountedOnce'
  <2>1. /\ rpc = "pay_in" /\ rpc' = "bsc" /\ cause' = cause /\ out' = out /\ left' = left
        /\ rd'.total = rd.total + PayIn
    BY <1>3, <1>10 DEF ReadPayIn, Reading
  <2>2. Cancelled' <=> Cancelled
    BY <2>1 DEF Cancelled
  <2> QED
    BY <1>1, <1>2, <1>3, <2>1, <2>2, MoneyIsInt
<1>11. ASSUME NEW a \in Addresses, ReadBscAddress(a) PROVE CountedOnce'
  <2>1. /\ rpc = "bsc" /\ rpc' = "bsc" /\ cause' = cause /\ left' = left \ {a} /\ out' = out /\ a \in left
        /\ rd'.total = rd.total + Balance(a)
    BY <1>3, <1>11 DEF ReadBscAddress, Reading
  <2>2. Rail(a) = "bsc"
    BY <1>3, <2>1 DEF InOrder, Rail
  <2>3. Counted("bsc")' = Counted("bsc") + Balance(a) /\ Balance(a) \in Nat
    BY <1>1, <2>1, <2>2, ReadSums, SumsAreNat
  <2>4. Cancelled' <=> Cancelled
    BY <2>1 DEF Cancelled
  <2> QED
    BY <1>1, <1>2, <1>3, <2>1, <2>3, <2>4, MoneyIsInt
<1>12. ASSUME MovedMeanwhile \/ ReadFails \/ Record PROVE CountedOnce'
  BY <1>12 DEF MovedMeanwhile, ReadFails, Record, EndRun
<1> QED
  BY <1>4, <1>5, <1>6, <1>7, <1>8, <1>9, <1>10, <1>11, <1>12 DEF Run

\* Every step keeps it.
LEMMA CountedStep == ASSUME Inv, [Next]_vars PROVE CountedOnce'
<1> USE DEF promiseVars, ledgerVars, moneyVars, runVars, historyVars
<1>0. CountedOnce
  BY DEF Inv
<1>1. ASSUME NEW a \in Addresses, SendSweep(a) \/ SweepLost(a) \/ MarkSwept(a) PROVE CountedOnce'
  <2>1. UNCHANGED <<place, left, float, out, filled, lost, rpc, rd, cause>>
    BY <1>1 DEF SendSweep, Send, SweepLost, Lose, MarkSwept, Mark
  <2> QED
    BY <1>0, <2>1, CountedQuiet
<1>2. ASSUME NEW d \in Deposits, Verify(d) \/ HumanApproves(d) \/ MarkSubmitted(d) \/ CreditMint(d)
      PROVE  CountedOnce'
  <2>1. /\ UNCHANGED <<place, left, float, out, filled, lost, rpc, rd>>
        /\ "filled" \in cause' <=> "filled" \in cause
        /\ "landed" \in cause' <=> "landed" \in cause
    BY <1>2 DEF Verify, HumanApproves, MarkSubmitted, CreditMint, SetStatus
  <2> QED
    BY <1>0, <2>1, CountedQuiet
<1>3. ASSUME NEW d \in Deposits, SendMint(d) \/ LandMint(d) PROVE CountedOnce'
  <2>1. UNCHANGED <<place, left, float, out, filled, lost, rpc, rd, cause>>
    BY <1>3 DEF SendMint, LandMint
  <2> QED
    BY <1>0, <2>1, CountedQuiet
<1>4. CASE Burn \/ ConfirmBurn \/ Resume
  <2>1. /\ UNCHANGED <<place, left, float, out, filled, lost, rpc, rd>>
        /\ "filled" \in cause' <=> "filled" \in cause
        /\ "landed" \in cause' <=> "landed" \in cause
    BY <1>4 DEF Burn, ConfirmBurn, Resume
  <2> QED
    BY <1>0, <2>1, CountedQuiet
<1>5. CASE Leak
  BY <1>5 DEF Leak, CountedOnce
<1>6. CASE UNCHANGED vars
  BY <1>0, <1>6, CountedQuiet DEF vars
<1> QED
  BY <1>1, <1>2, <1>3, <1>4, <1>5, <1>6, CountedArrive, CountedLand, CountedPay, CountedFill, CountedRun
  DEF Next, Sweep, Ledger

-----------------------------------------------------------------------------
(* The supply is no more than the liability and the mints in flight.       *)

\* The seven reasons for which a mismatch is excused.
LEMMA TheExcuses ==
  Excuses = {"burned", "unsubmitted", "credited", "marked", "unlisted", "paid", "swept"}
  BY DEF Excuses, Causes

\* What is excused once is excused until the run ends.
LEMMA StaysExcused == cause \subseteq cause' /\ Unexcused' => Unexcused
  BY TheExcuses DEF Unexcused

\* A step that neither mints, credits nor burns.
LEMMA MintedQuiet ==
  ASSUME MintedIsOwed, UNCHANGED <<rpc, rd, burn>>, cause \subseteq cause',
         OnChain' = OnChain, Of("credited")' = Of("credited"),
         "burning" \in cause' <=> "burning" \in cause
  PROVE  MintedIsOwed'
<1>1. (SumOf(OnChain))' = SumOf(OnChain) /\ (SumOf(OnChain \ Of("credited")))' = SumOf(OnChain \ Of("credited"))
  BY DEF SumOf
<1> QED
  BY <1>1, StaysExcused DEF MintedIsOwed

\* A mint that lands adds to the supply that is not credited, and nothing else does.
LEMMA MintedLand == ASSUME Inv, NEW d \in Deposits, LandMint(d) PROVE MintedIsOwed'
<1>1. /\ UNCHANGED <<rpc, rd, burn, cause, status>>
      /\ mint' = [mint EXCEPT ![d] = "chain"] /\ mint \in [Deposits -> {"no", "pool", "chain"}]
  BY DEF LandMint, SetMint, promiseVars, runVars, historyVars, Inv, TypeOK
<1>2. Of("credited")' = Of("credited")
  BY <1>1, StatusKept
<1>3. OnChain \subseteq OnChain' /\ OnChain' \subseteq Deposits
  BY <1>1 DEF OnChain
<1>4. OnChain \ Of("credited") \subseteq (OnChain \ Of("credited"))' /\ (OnChain \ Of("credited"))' \subseteq Deposits
  BY <1>2, <1>3
<1>5. /\ SumOf(OnChain) <= SumOf(OnChain') /\ SumOf(OnChain) \in Nat /\ SumOf(OnChain') \in Nat
      /\ SumOf(OnChain \ Of("credited")) <= SumOf((OnChain \ Of("credited"))')
      /\ SumOf(OnChain \ Of("credited")) \in Nat /\ SumOf((OnChain \ Of("credited"))') \in Nat
  BY <1>3, <1>4, SumOfLess
<1>6. /\ (SumOf(OnChain))' = SumOf(OnChain')
      /\ (SumOf(OnChain \ Of("credited")))' = SumOf((OnChain \ Of("credited"))')
  BY DEF SumOf
<1>7. /\ MintedIsOwed /\ rd.minted \in Int /\ rd.owed \in Int /\ Base \in Int /\ Redeemed \in Int
      /\ Unexcused' => Unexcused
  BY <1>1, MoneyIsInt, ReserveAssumption, StaysExcused DEF Inv
<1> QED
  BY <1>1, <1>5, <1>6, <1>7 DEF MintedIsOwed

\* A mint that is credited between the readings of the ledger and of what is in flight is
\* an excuse; at any other time it is in one of the two.
LEMMA MintedCredit == ASSUME Inv, NEW d \in Deposits, CreditMint(d) PROVE MintedIsOwed'
<1>1. /\ UNCHANGED <<rpc, rd, burn, mint>>
      /\ cause' = cause \cup IF rpc = "flight" THEN {"credited"} ELSE {}
  BY DEF CreditMint, SetStatus, ledgerVars, runVars
<1>2. OnChain' = OnChain /\ (SumOf(OnChain))' = SumOf(OnChain)
  BY <1>1 DEF OnChain, SumOf
<1>3. Unexcused' => Unexcused /\ rpc # "flight"
  BY <1>1, StaysExcused, TheExcuses DEF Unexcused
<1>4. MintedIsOwed /\ ("burning" \in cause' <=> "burning" \in cause)
  BY <1>1 DEF Inv
<1> QED
  BY <1>1, <1>2, <1>3, <1>4 DEF MintedIsOwed

\* A burn while the run holds the supply and not yet the ledger's figure is known to it.
LEMMA MintedBurn == ASSUME Inv, Burn \/ ConfirmBurn \/ Pay PROVE MintedIsOwed'
<1>1. /\ UNCHANGED <<rpc, rd, mint, status>> /\ cause \subseteq cause' /\ burn' # "none"
      /\ burn = "none" /\ rpc = "ledger" => "burning" \in cause'
      /\ burn # "none" => ("burning" \in cause' <=> "burning" \in cause)
  BY DEF Burn, ConfirmBurn, Pay, promiseVars, runVars
<1>2. /\ (SumOf(OnChain))' = SumOf(OnChain)
      /\ (SumOf(OnChain \ Of("credited")))' = SumOf(OnChain \ Of("credited"))
  BY <1>1 DEF OnChain, Of, SumOf
<1>3. MintedIsOwed /\ (Unexcused' => Unexcused) /\ InOrder
  BY <1>1, StaysExcused DEF Inv
<1> QED
  BY <1>1, <1>2, <1>3 DEF MintedIsOwed, InOrder

\* The readings of the supply, the ledger and what is in flight.
LEMMA MintedRun == ASSUME Inv, Run PROVE MintedIsOwed'
<1>1. UNCHANGED <<mint, status, burn>>
  BY RunKeepsWorld DEF promiseVars, ledgerVars
<1>2. /\ (SumOf(OnChain))' = SumOf(OnChain)
      /\ (SumOf(OnChain \ Of("credited")))' = SumOf(OnChain \ Of("credited"))
  BY <1>1 DEF OnChain, Of, SumOf
<1>3. MintedIsOwed /\ InOrder /\ rd \in Reading /\ rd.minted \in Int /\ rd.owed \in Int
  BY MoneyIsInt DEF Inv, TypeOK
<1>4. /\ SumOf(OnChain) \in Nat /\ SumOf(Of("credited")) \in Nat /\ InFlight \in Nat
      /\ Base \in Nat /\ Redeemed \in Nat
  BY SumsAreNat, ReserveAssumption
<1>5. Of("credited") \subseteq OnChain /\ OnChain \subseteq Deposits
  BY DEF Inv, RowsAreTrue, Of, OnChain
<1>6. /\ SumOf(OnChain \ Of("credited")) = SumOf(OnChain) - SumOf(Of("credited"))
      /\ SumOf(OnChain \ Of("credited")) \in Nat
  BY <1>5, SumOfLess
<1>7. ASSUME ReadSupply PROVE MintedIsOwed'
  <2>1. rpc' = "ledger" /\ rd'.minted = Supply /\ cause' = {}
    BY <1>7 DEF ReadSupply, NoReading, historyVars, Inv, InOrder
  <2> QED
    BY <1>1, <1>2, <1>4, <2>1 DEF MintedIsOwed, Supply
<1>8. ASSUME ReadLedger PROVE MintedIsOwed'
  <2>1. /\ rpc = "ledger" /\ rpc' = "flight" /\ cause' = cause
        /\ rd'.minted = rd.minted /\ rd'.owed = Liability
    BY <1>3, <1>8 DEF ReadLedger, Goto, Reading
  <2>2. SUFFICES ASSUME Unexcused PROVE (rd.minted <= Liability + SumOf(OnChain \ Of("credited")))
    BY <1>2, <2>1 DEF MintedIsOwed, Unexcused
  <2>3. rd.minted <= Base + SumOf(OnChain)
                     - (IF burn # "none" /\ "burning" \notin cause THEN Redeemed ELSE 0)
    BY <1>3, <2>1, <2>2 DEF MintedIsOwed
  <2>4. burn \in {"confirmed", "paid"} => "burning" \notin cause
    BY <1>3, <2>1, <2>2, TheExcuses DEF InOrder, Unexcused
  <2> QED
    BY <1>3, <1>4, <1>6, <2>3, <2>4 DEF Liability
<1>9. ASSUME ReadInFlight PROVE MintedIsOwed'
  <2>1. /\ rpc = "flight" /\ rpc' = "list"
        /\ cause' = cause \cup IF \E d \in OnChain : status[d] = "approved" THEN {"unsubmitted"} ELSE {}
        /\ rd'.minted = rd.minted /\ rd'.owed = rd.owed + InFlight
    BY <1>3, <1>9 DEF ReadInFlight, Goto, Reading
  <2>2. SUFFICES ASSUME Unexcused' PROVE rd.minted <= rd.owed + InFlight
    BY <2>1 DEF MintedIsOwed
  <2>3. rd.minted <= rd.owed + SumOf(OnChain \ Of("credited"))
    BY <1>3, <2>1, <2>2, StaysExcused DEF MintedIsOwed
  <2>4. \A d \in OnChain : status[d] # "approved"
    BY <2>1, <2>2, TheExcuses DEF Unexcused
  <2>5. OnChain \ Of("credited") \subseteq Of("submitted") /\ Of("submitted") \subseteq Deposits
    BY <2>4 DEF Inv, RowsAreTrue, OnChain, Of
  <2>6. SumOf(OnChain \ Of("credited")) <= InFlight
    BY <2>5, SumOfLess DEF InFlight
  <2> QED
    BY <1>3, <1>4, <1>6, <2>3, <2>6
<1>10. ASSUME rpc \notin {"idle", "ledger", "flight"}, rd'.minted = rd.minted, rd'.owed = rd.owed,
              rpc' \notin {"ledger", "flight"}, cause \subseteq cause'
       PROVE  MintedIsOwed'
  BY <1>3, <1>10, StaysExcused DEF MintedIsOwed
<1> USE DEF Goto, Reading
<1>11. ASSUME ListUnswept \/ ListUnread \/ ListUnsweptBsc \/ ReadCustodyAgain PROVE MintedIsOwed'
  BY <1>10, <1>11 DEF ListUnswept, ListUnread, ListUnsweptBsc, ReadCustodyAgain
<1>12. ASSUME ReadCustody \/ ReadFloat \/ ReadPayIn PROVE MintedIsOwed'
  BY <1>3, <1>10, <1>12 DEF ReadCustody, ReadFloat, ReadPayIn
<1>13. ASSUME ReadFloatAgain PROVE MintedIsOwed'
  BY <1>3, <1>10, <1>13 DEF ReadFloatAgain, NoReading
<1>14. ASSUME NEW a \in Addresses, ReadAddress(a) \/ ReadBscAddress(a) PROVE MintedIsOwed'
  BY <1>3, <1>10, <1>14 DEF ReadAddress, ReadBscAddress
<1>15. ASSUME MovedMeanwhile \/ ReadFails \/ Record PROVE MintedIsOwed'
  BY <1>15 DEF MovedMeanwhile, ReadFails, Record, EndRun, MintedIsOwed
<1> QED
  BY <1>7, <1>8, <1>9, <1>11, <1>12, <1>13, <1>14, <1>15 DEF Run

\* Every step keeps it.
LEMMA MintedStep == ASSUME Inv, [Next]_vars PROVE MintedIsOwed'
<1> USE DEF promiseVars, ledgerVars, moneyVars, runVars, historyVars
<1>0. MintedIsOwed /\ status \in [Deposits -> Statuses]
  BY DEF Inv, TypeOK
<1>1. ASSUME UNCHANGED <<rpc, rd, burn, mint, status>>, cause \subseteq cause',
             "burning" \in cause' <=> "burning" \in cause
      PROVE  MintedIsOwed'
  <2>1. OnChain' = OnChain /\ Of("credited")' = Of("credited")
    BY <1>1 DEF OnChain, Of
  <2> QED
    BY <1>0, <1>1, <2>1, MintedQuiet
<1>2. ASSUME NEW a \in Addresses, SendSweep(a) \/ SweepLost(a) \/ MarkSwept(a) \/ SweepLands(a)
      PROVE MintedIsOwed'
  BY <1>1, <1>2 DEF SendSweep, Send, SweepLost, Lose, MarkSwept, Mark, SweepLands, Land
<1>3. ASSUME NEW d \in Deposits, Verify(d) \/ HumanApproves(d) \/ MarkSubmitted(d) PROVE MintedIsOwed'
  <2>1. /\ UNCHANGED <<rpc, rd, burn, mint, cause>> /\ status[d] # "credited"
        /\ \E s \in Statuses \ {"credited"} : status' = [status EXCEPT ![d] = s]
    BY <1>3 DEF Verify, HumanApproves, MarkSubmitted, SetStatus, Statuses
  <2>2. OnChain' = OnChain /\ Of("credited")' = Of("credited")
    BY <1>0, <2>1 DEF OnChain, Of
  <2> QED
    BY <1>0, <2>1, <2>2, MintedQuiet
<1>4. ASSUME NEW d \in Deposits, SendMint(d) PROVE MintedIsOwed'
  <2>1. /\ UNCHANGED <<rpc, rd, burn, status, cause>> /\ mint[d] = "no" /\ mint' = [mint EXCEPT ![d] = "pool"]
    BY <1>4 DEF SendMint, SetMint
  <2>2. OnChain' = OnChain /\ Of("credited")' = Of("credited")
    BY <2>1 DEF OnChain, Of, Inv, TypeOK
  <2> QED
    BY <1>0, <2>1, <2>2, MintedQuiet
<1>5. ASSUME NEW d \in Deposits, DepositArrives(d) PROVE MintedIsOwed'
  BY <1>1, <1>5 DEF DepositArrives, Arrive
<1>6. ASSUME FillFloat \/ Leak \/ Resume PROVE MintedIsOwed'
  BY <1>1, <1>6 DEF FillFloat, Leak, Resume
<1>7. ASSUME UNCHANGED vars PROVE MintedIsOwed'
  BY <1>1, <1>7 DEF vars
<1> QED
  BY <1>2, <1>3, <1>4, <1>5, <1>6, <1>7, MintedLand, MintedCredit, MintedBurn, MintedRun
  DEF Next, Sweep, Ledger

-----------------------------------------------------------------------------
(* What is owed is counted, or still to be counted.                        *)

\* A step that touches neither the money, nor what is known, nor the redemption.
LEMMA MissedQuiet ==
  ASSUME NothingMissed, UNCHANGED <<place, left, float, filled, lost, rpc, rd, burn, status>>,
         cause \subseteq cause', "confirmed" \in cause' <=> "confirmed" \in cause
  PROVE  NothingMissed'
<1>1. /\ Custody' = Custody /\ PayIn' = PayIn
      /\ \A r : Waiting(r)' = Waiting(r) /\ Known(r)' = Known(r)
      /\ (SumOf(Of("credited")))' = SumOf(Of("credited"))
  BY PlaceKept, CustodyKept, StatusKept
<1>2. TakenOff' = TakenOff /\ Unpaid' = Unpaid
  BY DEF TakenOff, Unpaid
<1> QED
  BY <1>1, <1>2, StaysExcused DEF NothingMissed

\* The redemption's figures as integers.
LEMMA RedemptionIsInt ==
  /\ TakenOff \in Nat /\ Unpaid \in Nat /\ Paid \in Nat /\ Base \in Nat /\ SumOf(Of("credited")) \in Nat
  BY SumsAreNat, ReserveAssumption DEF TakenOff, Unpaid, Paid

\* USDT that arrives is only more.
LEMMA MissedArrive == ASSUME Inv, NEW d \in Deposits, DepositArrives(d) PROVE NothingMissed'
<1>1. /\ UNCHANGED <<left, float, filled, lost, rpc, rd, burn, cause, status>> /\ Arrive(d)
  BY DEF DepositArrives, Arrive, moneyVars, runVars, historyVars, ledgerVars
<1>2. /\ PayIn' = PayIn /\ (SumOf(Moved("tron")))' = SumOf(Moved("tron"))
      /\ Waiting("tron") <= Waiting("tron")' /\ Waiting("tron")' \in Nat
      /\ Waiting("bsc") <= Waiting("bsc")' /\ Waiting("bsc")' \in Nat
  BY <1>1, ArriveSums DEF Inv
<1>3. Custody' = Custody
  BY <1>1, <1>2 DEF Custody
<1>4. /\ Known("tron")' = Known("tron") /\ Known("bsc")' = Known("bsc")
      /\ (SumOf(Of("credited")))' = SumOf(Of("credited"))
  BY <1>1, StatusKept
<1>5. TakenOff' = TakenOff /\ Unpaid' = Unpaid /\ (Unexcused' <=> Unexcused)
  BY <1>1 DEF TakenOff, Unpaid, Unexcused
<1>6. NothingMissed /\ TypeOK
  BY DEF Inv
<1> QED
  BY <1>1, <1>2, <1>3, <1>4, <1>5, <1>6, MoneyIsInt, RedemptionIsInt DEF NothingMissed

\* What lands comes to custody while its address waits to be read, or was read; on BSC
\* that is so until the pay-in address has been read.
LEMMA MissedLand == ASSUME Inv, NEW a \in Addresses, SweepLands(a) PROVE NothingMissed'
<1>1. /\ UNCHANGED <<left, float, filled, lost, rpc, rd, burn, status>> /\ Land(a)
      /\ cause' = cause \cup CASE rpc = "bsc" /\ a \in Bsc -> {"swept"}
                               [] rpc = "walk" /\ a \notin Bsc -> {"landed"}
                               [] OTHER -> {}
  BY DEF SweepLands, Land, moneyVars, runVars, ledgerVars
<1>2. TypeOK /\ NothingMissed
  BY DEF Inv
<1> DEFINE m == SumOf(tx[a])
<1>3. m \in Nat
  BY <1>1, <1>2, LandSums
<1>4. /\ cause \subseteq cause' /\ ("confirmed" \in cause' <=> "confirmed" \in cause)
      /\ rpc = "bsc" /\ a \in Bsc => "swept" \in cause'
  BY <1>1
<1>5. /\ TakenOff' = TakenOff /\ Unpaid' = Unpaid /\ (Unexcused' => Unexcused)
      /\ rpc = "bsc" /\ a \in Bsc => ~Unexcused'
  BY <1>1, <1>4, StaysExcused, TheExcuses DEF TakenOff, Unpaid, Unexcused
<1>6. /\ Known("tron")' = Known("tron") /\ Known("bsc")' = Known("bsc")
      /\ (SumOf(Of("credited")))' = SumOf(Of("credited"))
  BY <1>1, StatusKept
<1>7. CASE a \in Bsc
  <2>1. Rail(a) = "bsc" /\ Rail(a) # "tron"
    BY <1>7 DEF Rail
  <2>2. /\ (SumOf(Moved("tron")))' = SumOf(Moved("tron")) /\ (SumOf(Moved("bsc")))' = SumOf(Moved("bsc")) + m
        /\ Waiting("tron")' = Waiting("tron")
        /\ Waiting("bsc")' = Waiting("bsc") - (IF a \in left THEN m ELSE 0)
    BY <1>1, <1>2, <2>1, LandSums
  <2>3. Custody' = Custody /\ PayIn' = PayIn + m
    BY <1>1, <2>2 DEF Custody, PayIn
  <2> HIDE DEF m
  <2> QED
    BY <1>1, <1>2, <1>3, <1>5, <1>6, <1>7, <2>2, <2>3, MoneyIsInt, RedemptionIsInt DEF NothingMissed
<1>8. CASE a \notin Bsc
  <2>1. Rail(a) = "tron" /\ Rail(a) # "bsc"
    BY <1>8 DEF Rail
  <2>2. /\ (SumOf(Moved("bsc")))' = SumOf(Moved("bsc")) /\ (SumOf(Moved("tron")))' = SumOf(Moved("tron")) + m
        /\ Waiting("bsc")' = Waiting("bsc")
        /\ Waiting("tron")' = Waiting("tron") - (IF a \in left THEN m ELSE 0)
    BY <1>1, <1>2, <2>1, LandSums
  <2>3. Custody' = Custody + m
    <3>1. SumOf(Moved("tron")) \in Int /\ Base \in Int /\ InFloat \in Int /\ filled \in Int /\ lost \in Int
      BY SumsAreNat, ReserveAssumption, <1>2 DEF TypeOK
    <3> QED
      BY <1>1, <1>3, <2>2, <3>1 DEF Custody
  <2>4. PayIn' = PayIn
    BY <2>2 DEF PayIn
  <2> HIDE DEF m
  <2> QED
    BY <1>1, <1>2, <1>3, <1>5, <1>6, <1>8, <2>2, <2>3, <2>4, MoneyIsInt, RedemptionIsInt DEF NothingMissed
<1> QED
  BY <1>7, <1>8

\* A deposit that is verified or credited is only more.
LEMMA MissedStatus ==
  ASSUME Inv, NEW d \in Deposits, Verify(d) \/ HumanApproves(d) \/ MarkSubmitted(d) \/ CreditMint(d)
  PROVE  NothingMissed'
<1>1. /\ UNCHANGED <<place, left, float, filled, lost, rpc, rd, burn>> /\ cause \subseteq cause'
      /\ "confirmed" \in cause' <=> "confirmed" \in cause
      /\ \E s \in Statuses \ {"none"} : status' = [status EXCEPT ![d] = s]
      /\ status[d] # "credited" /\ status \in [Deposits -> Statuses]
  BY DEF Verify, HumanApproves, MarkSubmitted, CreditMint, SetStatus, Statuses, ledgerVars, moneyVars,
    runVars, historyVars, Inv, TypeOK
<1>2. Custody' = Custody /\ PayIn' = PayIn /\ \A r : Waiting(r)' = Waiting(r)
  BY <1>1, PlaceKept, CustodyKept
<1>3. \A r : Known(r) <= Known(r)' /\ Known(r)' \in Nat
  <2> SUFFICES ASSUME NEW r PROVE Known(r) <= Known(r)' /\ Known(r)' \in Nat
    OBVIOUS
  <2> DEFINE A == {e \in Deposits : status[e] # "none" /\ Rail(Home[e]) = r}
  <2>1. A \subseteq A' /\ A' \subseteq Deposits
    BY <1>1
  <2>2. SumOf(A) <= SumOf(A') /\ SumOf(A') \in Nat
    BY <2>1, SumOfLess
  <2> QED
    BY <2>2 DEF Known, SumOf
<1>4. SumOf(Of("credited")) <= (SumOf(Of("credited")))' /\ (SumOf(Of("credited")))' \in Nat
  <2>1. Of("credited") \subseteq Of("credited")' /\ Of("credited")' \subseteq Deposits
    BY <1>1 DEF Of
  <2>2. SumOf(Of("credited")) <= SumOf(Of("credited")') /\ SumOf(Of("credited")') \in Nat
    BY <2>1, SumOfLess
  <2> QED
    BY <2>2 DEF SumOf
<1>5. TakenOff' = TakenOff /\ Unpaid' = Unpaid /\ (Unexcused' => Unexcused)
  BY <1>1, StaysExcused DEF TakenOff, Unpaid
<1>6. NothingMissed /\ TypeOK
  BY DEF Inv
<1> QED
  BY <1>1, <1>2, <1>3, <1>4, <1>5, <1>6, MoneyIsInt, RedemptionIsInt DEF NothingMissed

\* A redemption that is confirmed after the ledger was read is not taken off, and is an
\* excuse once it is paid; one that was confirmed before is, and its payment counts for it.
LEMMA MissedBurn == ASSUME Inv, Burn \/ ConfirmBurn \/ Pay PROVE NothingMissed'
<1>1. UNCHANGED <<place, left, filled, lost, rpc, rd, status>> /\ cause \subseteq cause'
  BY DEF Burn, ConfirmBurn, Pay, promiseVars, moneyVars, runVars
<1>2. /\ Custody' = Custody /\ PayIn' = PayIn
      /\ \A r : Waiting(r)' = Waiting(r) /\ Known(r)' = Known(r)
      /\ (SumOf(Of("credited")))' = SumOf(Of("credited"))
  BY <1>1, PlaceKept, CustodyKept, StatusKept
<1>3. Unexcused' => Unexcused
  BY <1>1, StaysExcused
<1>4. NothingMissed /\ TypeOK /\ Redeemed \in Nat
  BY ReserveAssumption DEF Inv
<1>5. CASE Burn \/ ConfirmBurn
  <2>1. float' = float
    BY <1>5 DEF Burn, ConfirmBurn, moneyVars
  <2>2. rpc \notin {"idle", "ledger"} => TakenOff' = TakenOff /\ Unpaid' = Unpaid
    BY <1>5 DEF Burn, ConfirmBurn, TakenOff, Unpaid
  <2> QED
    BY <1>1, <1>2, <1>3, <1>4, <2>1, <2>2 DEF NothingMissed
<1>6. CASE Pay
  <2>1. /\ burn = "confirmed" /\ burn' = "paid" /\ float' = float - Redeemed
        /\ cause' = cause \cup IF "confirmed" \in cause THEN {"paid"} ELSE {}
    BY <1>6 DEF Pay
  <2>2. Unexcused' => "confirmed" \notin cause /\ "confirmed" \notin cause'
    BY <2>1, TheExcuses DEF Unexcused
  <2>3. Unexcused' => TakenOff' = TakenOff /\ Unpaid = Redeemed /\ Unpaid' = 0
    BY <2>1, <2>2 DEF TakenOff, Unpaid
  <2> QED
    BY <1>1, <1>2, <1>3, <1>4, <2>1, <2>3, MoneyIsInt, RedemptionIsInt DEF NothingMissed
<1> QED
  BY <1>5, <1>6

\* What fills the float leaves custody.
LEMMA MissedFill == ASSUME Inv, FillFloat PROVE NothingMissed'
<1>1. /\ UNCHANGED <<place, left, lost, rpc, rd, burn, status>>
      /\ filled = 0 /\ filled' = Filling /\ float' = float + Filling /\ cause \subseteq cause'
      /\ "confirmed" \in cause' <=> "confirmed" \in cause
  BY DEF FillFloat, promiseVars, ledgerVars, runVars
<1>2. /\ PayIn' = PayIn /\ (SumOf(Moved("tron")))' = SumOf(Moved("tron"))
      /\ \A r : Waiting(r)' = Waiting(r) /\ Known(r)' = Known(r)
      /\ (SumOf(Of("credited")))' = SumOf(Of("credited"))
  BY <1>1, PlaceKept, StatusKept
<1>3. Custody' = Custody - Filling
  <2>1. SumOf(Moved("tron")) \in Int /\ Base \in Int /\ InFloat \in Int /\ lost \in Int /\ Filling \in Int
    BY SumsAreNat, ReserveAssumption DEF TypeOK, Inv
  <2> QED
    BY <1>1, <1>2, <2>1 DEF Custody
<1>4. TakenOff' = TakenOff /\ Unpaid' = Unpaid /\ (Unexcused' => Unexcused)
  BY <1>1, StaysExcused DEF TakenOff, Unpaid
<1>5. NothingMissed /\ TypeOK
  BY DEF Inv
<1> QED
  BY <1>1, <1>2, <1>3, <1>4, <1>5, MoneyIsInt, RedemptionIsInt DEF NothingMissed

\* Verified USDT of TRON is in custody or at an address that is listed, unless one is
\* marked swept that has not left.
LEMMA KnownOnTron ==
  ASSUME TypeOK, RowsAreTrue, ~MarkedButHere, place' = place, left' = Unswept("tron")
  PROVE  Known("tron") <= SumOf(Moved("tron")) + Waiting("tron")' /\ Waiting("tron")' \in Nat
<1> DEFINE K == {d \in Deposits : status[d] # "none" /\ Rail(Home[d]) = "tron"}
           M == Moved("tron")
           W == {d \in Deposits : place[d] = "here" /\ Rail(Home[d]) = "tron" /\ Home[d] \in left}
<1>1. M \cap W' = {} /\ M \subseteq Deposits /\ W' \subseteq Deposits
  BY DEF Moved
<1>2. K \subseteq M \cup W'
  <2> SUFFICES ASSUME NEW d \in K, d \notin M PROVE d \in W'
    OBVIOUS
  <2>1. place[d] = "here"
    BY DEF TypeOK, RowsAreTrue, Moved
  <2>2. Home[d] \in Unswept("tron")
    BY <2>1 DEF MarkedButHere, OnBsc, Rail
  <2> QED
    BY <2>1, <2>2
<1>3. SumOf(M \cup W') = SumOf(M) + SumOf(W') /\ SumOf(W') \in Nat
  BY <1>1, SumOfTwo
<1>4. SumOf(K) <= SumOf(M \cup W')
  BY <1>1, <1>2, SumOfLess
<1>5. Waiting("tron")' = SumOf(W') /\ Known("tron") = SumOf(K)
  BY DEF Waiting, Known, SumOf
<1> HIDE DEF K, M, W
<1> QED
  BY <1>3, <1>4, <1>5 DEF M

\* On BSC a row is marked only once its USDT has moved.
LEMMA KnownOnBsc ==
  ASSUME TypeOK, RowsAreTrue, place' = place, left' = Unswept("bsc")
  PROVE  Known("bsc") <= PayIn + Waiting("bsc")' /\ Waiting("bsc")' \in Nat
<1> DEFINE K == {d \in Deposits : status[d] # "none" /\ Rail(Home[d]) = "bsc"}
           M == Moved("bsc")
           W == {d \in Deposits : place[d] = "here" /\ Rail(Home[d]) = "bsc" /\ Home[d] \in left}
<1>1. M \cap W' = {} /\ M \subseteq Deposits /\ W' \subseteq Deposits
  BY DEF Moved
<1>2. K \subseteq M \cup W'
  <2> SUFFICES ASSUME NEW d \in K, d \notin M PROVE d \in W'
    OBVIOUS
  <2>1. place[d] = "here" /\ d \notin swept
    BY DEF TypeOK, RowsAreTrue, Moved, OnBsc, Rail
  <2>2. Home[d] \in Unswept("bsc")
    BY <2>1 DEF Unswept, UnsweptRows
  <2> QED
    BY <2>1, <2>2
<1>3. SumOf(M \cup W') = SumOf(M) + SumOf(W') /\ SumOf(W') \in Nat
  BY <1>1, SumOfTwo
<1>4. SumOf(K) <= SumOf(M \cup W')
  BY <1>1, <1>2, SumOfLess
<1>5. Waiting("bsc")' = SumOf(W') /\ Known("bsc") = SumOf(K) /\ PayIn = SumOf(M)
  BY DEF Waiting, Known, SumOf, PayIn
<1> HIDE DEF K, M, W
<1> QED
  BY <1>3, <1>4, <1>5

\* What is credited or in flight was verified.
LEMMA OwedIsKnown ==
  SumOf(Of("credited")) + InFlight <= Known("tron") + Known("bsc")
<1> DEFINE K(r) == {d \in Deposits : status[d] # "none" /\ Rail(Home[d]) = r}
<1>1. /\ Of("credited") \subseteq Deposits /\ Of("submitted") \subseteq Deposits
      /\ Of("credited") \cap Of("submitted") = {}
      /\ K("tron") \subseteq Deposits /\ K("bsc") \subseteq Deposits /\ K("tron") \cap K("bsc") = {}
  BY DEF Of
<1>2. Of("credited") \cup Of("submitted") \subseteq K("tron") \cup K("bsc")
  BY RailIsOne DEF Of, Rails
<1>3. SumOf(Of("credited") \cup Of("submitted")) = SumOf(Of("credited")) + SumOf(Of("submitted"))
  BY <1>1, SumOfTwo
<1>4. SumOf(K("tron") \cup K("bsc")) = SumOf(K("tron")) + SumOf(K("bsc"))
  BY <1>1, SumOfTwo
<1>5. SumOf(Of("credited") \cup Of("submitted")) <= SumOf(K("tron") \cup K("bsc"))
  BY <1>1, <1>2, SumOfLess
<1>6. Known("tron") = SumOf(K("tron")) /\ Known("bsc") = SumOf(K("bsc"))
  BY DEF Known
<1> HIDE DEF K
<1> QED
  BY <1>3, <1>4, <1>5, <1>6 DEF InFlight

\* What a treasury that lost nothing has in custody and in the float.
LEMMA NothingLeft ==
  ASSUME TypeOK, FloatIsKept, InOrder, lost = 0, Unexcused
  PROVE  Base + SumOf(Moved("tron")) - TakenOff <= Custody + float - Unpaid
<1>1. Base \in Int /\ InFloat \in Int /\ filled \in Int /\ Redeemed \in Nat /\ SumOf(Moved("tron")) \in Int
  BY ReserveAssumption, SumsAreNat DEF TypeOK
<1>2. Custody + float = Base + SumOf(Moved("tron")) - Paid
  BY <1>1, RedemptionIsInt DEF Custody, FloatIsKept
<1>3. burn = "paid" => "confirmed" \notin cause
  BY TheExcuses DEF Unexcused, InOrder
<1>4. Paid + Unpaid <= TakenOff
  BY <1>1, <1>3 DEF Paid, Unpaid, TakenOff
<1> QED
  BY <1>1, <1>2, <1>4, RedemptionIsInt, MoneyIsInt

\* Once no address of a rail is left to be read, nothing waits.
LEMMA NoneWaits == left = {} => \A r : Waiting(r) = 0
<1> SUFFICES ASSUME left = {}, NEW r PROVE Waiting(r) = 0
  OBVIOUS
<1>1. {d \in Deposits : place[d] = "here" /\ Rail(Home[d]) = r /\ Home[d] \in left} = {}
  OBVIOUS
<1>2. Waiting(r) = SumOf({})
  BY <1>1 DEF Waiting
<1> QED
  BY <1>2, SumEmpty DEF SumOf

\* The readings themselves: each adds what it stops waiting for.
LEMMA MissedRun == ASSUME Inv, Run PROVE NothingMissed'
<1>1. UNCHANGED <<place, float, filled, lost, burn, status>>
  BY RunKeepsWorld DEF promiseVars, ledgerVars, moneyVars
<1>2. /\ Custody' = Custody /\ PayIn' = PayIn /\ \A r : Known(r)' = Known(r)
      /\ (SumOf(Of("credited")))' = SumOf(Of("credited"))
      /\ left' = left => \A r : Waiting(r)' = Waiting(r)
  BY <1>1, PlaceKept, CustodyKept, StatusKept
<1>3. /\ TypeOK /\ NothingMissed /\ InOrder /\ rd \in Reading /\ RowsAreTrue /\ FloatIsKept /\ CountedOnce
      /\ Custody \in Int /\ float \in Int /\ PayIn \in Nat
      /\ Waiting("tron") \in Nat /\ Waiting("bsc") \in Nat /\ Known("tron") \in Nat /\ Known("bsc") \in Nat
      /\ rd.total \in Int /\ rd.custody \in Int /\ rd.float \in Int /\ rd.owed \in Int
  BY MoneyIsInt DEF Inv, TypeOK
<1>4. TakenOff \in Nat /\ Unpaid \in Nat /\ Base \in Nat /\ SumOf(Of("credited")) \in Nat
  BY RedemptionIsInt
<1>5. ("confirmed" \in cause' <=> "confirmed" \in cause) => TakenOff' = TakenOff /\ Unpaid' = Unpaid
  BY <1>1 DEF TakenOff, Unpaid
<1>6. cause' = cause => (Unexcused' <=> Unexcused)
  BY DEF Unexcused
<1> USE DEF Goto, NothingMissed
<1>7. ASSUME ReadSupply PROVE NothingMissed'
  BY <1>7 DEF ReadSupply
<1>8. ASSUME ReadLedger PROVE NothingMissed'
  <2>1. /\ rpc = "ledger" /\ rpc' = "flight" /\ cause' = cause /\ rd'.owed = Liability
    BY <1>3, <1>8 DEF ReadLedger, Reading
  <2>2. Liability = Base + SumOf(Of("credited")) - TakenOff
    BY <1>3, <2>1 DEF Liability, TakenOff, InOrder
  <2>3. Liability \in Int
    BY <1>3, FiguresAreInts
  <2> QED
    BY <1>2, <1>4, <1>5, <2>1, <2>2, <2>3
<1>9. ASSUME ReadInFlight PROVE NothingMissed'
  <2>1. /\ rpc = "flight" /\ rpc' = "list" /\ cause \subseteq cause'
        /\ "confirmed" \in cause' <=> "confirmed" \in cause
        /\ rd'.owed = rd.owed + InFlight
    BY <1>3, <1>9 DEF ReadInFlight, Reading
  <2>2. InFlight \in Nat
    BY SumsAreNat
  <2> QED
    BY <1>1, <1>2, <1>3, <1>4, <1>5, <2>1, <2>2, OwedIsKnown, StaysExcused
<1>10. ASSUME ListUnswept PROVE NothingMissed'
  <2>1. /\ rpc = "list" /\ rpc' = "custody" /\ cause \subseteq cause' /\ left' = Unswept("tron")
        /\ "confirmed" \in cause' <=> "confirmed" \in cause
        /\ MarkedButHere => "marked" \in cause'
    BY <1>10 DEF ListUnswept
  <2>2. rd' = rd
    BY <1>10 DEF ListUnswept
  <2>3. SUFFICES ASSUME Unexcused', lost' = 0
                 PROVE  rd.owed <= Custody + float + Waiting("tron")' + Known("bsc") - Unpaid
    BY <1>1, <1>2, <1>5, <2>1, <2>2
  <2>4. ~MarkedButHere /\ Unexcused /\ lost = 0
    BY <1>1, <2>1, <2>3, TheExcuses, StaysExcused DEF Unexcused
  <2>5. Known("tron") <= SumOf(Moved("tron")) + Waiting("tron")' /\ Waiting("tron")' \in Nat
    BY <1>1, <1>3, <2>1, <2>4, KnownOnTron
  <2>6. Base + SumOf(Moved("tron")) - TakenOff <= Custody + float - Unpaid
    BY <1>3, <2>4, NothingLeft
  <2>7. rd.owed <= Base + Known("tron") + Known("bsc") - TakenOff
    BY <1>3, <2>1, <2>4
  <2>8. SumOf(Moved("tron")) \in Nat
    BY SumsAreNat
  <2> QED
    BY <1>3, <1>4, <2>5, <2>6, <2>7, <2>8
<1>11. ASSUME ListUnread PROVE NothingMissed'
  BY <1>11, TheExcuses DEF ListUnread, Unexcused
<1>12. ASSUME ReadCustody PROVE NothingMissed'
  <2>1. /\ rpc = "custody" /\ rpc' = "float" /\ cause' = cause /\ left' = left /\ rd'.owed = rd.owed
    BY <1>3, <1>12 DEF ReadCustody, Reading
  <2> QED
    BY <1>1, <1>2, <1>3, <1>5, <1>6, <2>1
<1>13. ASSUME ReadFloat PROVE NothingMissed'
  <2>1. /\ rpc = "float" /\ rpc' = "walk" /\ cause' = cause /\ left' = left /\ rd'.owed = rd.owed
        /\ rd'.total = rd.total + float /\ rd'.custody = rd.custody /\ rd'.float = float
    BY <1>3, <1>13 DEF ReadFloat, Reading
  <2>2. rd.total = rd.custody
    BY <1>3, <2>1 DEF CountedOnce
  <2>3. Unexcused /\ lost = 0 => rd.owed <= Custody + float + Waiting("tron") + Known("bsc") - Unpaid
    BY <1>3, <2>1
  <2>4. rd'.total + (Custody - rd.custody) + (float - rd'.float) = Custody + float
    BY <1>3, <2>1, <2>2
  <2>5. Unexcused /\ lost = 0 => rd'.owed <= rd'.total + (Custody - rd'.custody) + (float - rd'.float)
                                    + Waiting("tron") + Known("bsc") - Unpaid
    BY <1>3, <2>1, <2>3, <2>4
  <2> QED
    BY <1>1, <1>2, <1>5, <1>6, <2>1, <2>5
<1>14. ASSUME NEW a \in Addresses, ReadAddress(a) PROVE NothingMissed'
  <2>1. /\ rpc = "walk" /\ rpc' = "walk" /\ cause' = cause /\ left' = left \ {a} /\ a \in left
        /\ rd'.owed = rd.owed /\ rd'.total = rd.total + Balance(a)
        /\ rd'.custody = rd.custody /\ rd'.float = rd.float
    BY <1>3, <1>14 DEF ReadAddress, Reading
  <2>2. Rail(a) = "tron"
    BY <1>3, <2>1 DEF InOrder, Rail
  <2>3. Waiting("tron")' = Waiting("tron") - Balance(a) /\ Balance(a) \in Nat
    BY <1>1, <2>1, <2>2, ReadSums, SumsAreNat
  <2> QED
    BY <1>1, <1>2, <1>3, <1>4, <1>5, <1>6, <2>1, <2>3
<1>15. ASSUME ReadCustodyAgain PROVE NothingMissed'
  <2>1. /\ rpc = "walk" /\ rpc' = "again" /\ cause' = cause /\ left = {} /\ rd' = rd
        /\ Custody = rd.custody
    BY <1>15 DEF ReadCustodyAgain
  <2>2. Waiting("tron") = 0
    BY <2>1, NoneWaits
  <2> QED
    BY <1>1, <1>2, <1>3, <1>4, <1>5, <1>6, <2>1, <2>2
<1>16. ASSUME ReadFloatAgain PROVE NothingMissed'
  <2>1. /\ rpc = "again" /\ rpc' = "list_bsc" /\ cause' = cause /\ float = rd.float
        /\ rd'.owed = rd.owed /\ rd'.total = rd.total
    BY <1>3, <1>16 DEF ReadFloatAgain, NoReading
  <2> QED
    BY <1>1, <1>2, <1>3, <1>4, <1>6, <2>1
<1>17. ASSUME ListUnsweptBsc PROVE NothingMissed'
  <2>1. /\ rpc = "list_bsc" /\ rpc' = "pay_in" /\ cause' = cause /\ left' = Unswept("bsc") /\ rd' = rd
    BY <1>17 DEF ListUnsweptBsc
  <2>2. Known("bsc") <= PayIn + Waiting("bsc")' /\ Waiting("bsc")' \in Nat
    BY <1>1, <1>3, <2>1, KnownOnBsc
  <2> QED
    BY <1>1, <1>2, <1>3, <1>6, <2>1, <2>2
<1>18. ASSUME ReadPayIn PROVE NothingMissed'
  <2>1. /\ rpc = "pay_in" /\ rpc' = "bsc" /\ cause' = cause /\ left' = left
        /\ rd'.owed = rd.owed /\ rd'.total = rd.total + PayIn
    BY <1>3, <1>18 DEF ReadPayIn, Reading
  <2> QED
    BY <1>1, <1>2, <1>3, <1>6, <2>1
<1>19. ASSUME NEW a \in Addresses, ReadBscAddress(a) PROVE NothingMissed'
  <2>1. /\ rpc = "bsc" /\ rpc' = "bsc" /\ cause' = cause /\ left' = left \ {a} /\ a \in left
        /\ rd'.owed = rd.owed /\ rd'.total = rd.total + Balance(a)
    BY <1>3, <1>19 DEF ReadBscAddress, Reading
  <2>2. Rail(a) = "bsc"
    BY <1>3, <2>1 DEF InOrder, Rail
  <2>3. Waiting("bsc")' = Waiting("bsc") - Balance(a) /\ Balance(a) \in Nat
    BY <1>1, <2>1, <2>2, ReadSums, SumsAreNat
  <2> QED
    BY <1>1, <1>3, <1>6, <2>1, <2>3
<1>20. ASSUME MovedMeanwhile \/ ReadFails \/ Record PROVE NothingMissed'
  BY <1>20 DEF MovedMeanwhile, ReadFails, Record, EndRun
<1> QED
  BY <1>7, <1>8, <1>9, <1>10, <1>11, <1>12, <1>13, <1>14, <1>15, <1>16, <1>17, <1>18, <1>19, <1>20 DEF Run

\* Every step keeps it; what is lost is lost while no run reads.
LEMMA MissedStep == ASSUME Inv, [Next]_vars PROVE NothingMissed'
<1> USE DEF promiseVars, ledgerVars, moneyVars, runVars, historyVars
<1>0. NothingMissed
  BY DEF Inv
<1>1. ASSUME UNCHANGED <<place, left, float, filled, lost, rpc, rd, burn, status, cause>> PROVE NothingMissed'
  BY <1>0, <1>1, MissedQuiet
<1>2. ASSUME NEW a \in Addresses, SendSweep(a) \/ SweepLost(a) \/ MarkSwept(a) PROVE NothingMissed'
  BY <1>1, <1>2 DEF SendSweep, Send, SweepLost, Lose, MarkSwept, Mark
<1>3. ASSUME NEW d \in Deposits, SendMint(d) \/ LandMint(d) PROVE NothingMissed'
  BY <1>1, <1>3 DEF SendMint, LandMint
<1>4. ASSUME Resume PROVE NothingMissed'
  BY <1>1, <1>4 DEF Resume
<1>5. ASSUME Leak PROVE NothingMissed'
  BY <1>5 DEF Leak, NothingMissed
<1>6. ASSUME UNCHANGED vars PROVE NothingMissed'
  BY <1>1, <1>6 DEF vars
<1> QED
  BY <1>2, <1>3, <1>4, <1>5, <1>6, MissedArrive, MissedLand, MissedStatus, MissedBurn, MissedFill, MissedRun
  DEF Next, Sweep, Ledger

-----------------------------------------------------------------------------
(* The invariant, and what a run may say.                                  *)

\* Before the first run nothing was read, and every row is credited and on chain.
LEMMA InvAtFirst == Init => Inv
<1> SUFFICES ASSUME Init PROVE Inv
  OBVIOUS
<1>1. RowsAreTrue
  BY DEF Init, PromiseInit, RowsAreTrue
<1>2. FloatIsKept
  BY ReserveAssumption DEF Init, FloatIsKept, Paid
<1>3. InOrder /\ CountedOnce
  BY DEF Init, InOrder, CountedOnce
<1>4. MintedIsOwed /\ NothingMissed
  BY DEF Init, MintedIsOwed, NothingMissed
<1> QED
  BY <1>1, <1>2, <1>3, <1>4, TypeAtFirst DEF Inv

\* Every step keeps the invariant.
LEMMA InvStep == Inv /\ [Next]_vars => Inv'
<1> SUFFICES ASSUME Inv, [Next]_vars PROVE Inv'
  OBVIOUS
<1>1. TypeOK' /\ RowsAreTrue' /\ FloatIsKept' /\ InOrder'
  BY TypeStep, RowsStep, FloatStep, OrderStep DEF Inv
<1>2. CountedOnce' /\ MintedIsOwed' /\ NothingMissed'
  BY CountedStep, MintedStep, MissedStep
<1> QED
  BY <1>1, <1>2 DEF Inv

\* At the verdict, what was read is no more than the reserve and what was paid meanwhile.
LEMMA CountedAtVerdict ==
  ASSUME Inv, AtVerdict, ~Cancelled PROVE rd.total <= Reserve + out
<1> DEFINE H(r) == {d \in Deposits : place[d] = "here" /\ Rail(Home[d]) = r}
           here == {d \in Deposits : place[d] = "here"}
<1>1. rd.total <= Custody + float + out + AtAddresses("tron") + PayIn + Counted("bsc")
  BY DEF Inv, CountedOnce, AtVerdict
<1>2. Counted("bsc") <= AtAddresses("bsc") /\ AtAddresses("bsc") \in Nat
  BY SumOfLess DEF Counted, AtAddresses
<1>3. H("tron") \cup H("bsc") = here /\ H("tron") \cap H("bsc") = {}
      /\ H("tron") \subseteq Deposits /\ H("bsc") \subseteq Deposits
  BY RailIsOne DEF Rails
<1>4. SumOf(H("tron") \cup H("bsc")) = SumOf(H("tron")) + SumOf(H("bsc"))
  BY <1>3, SumOfTwo
<1>5. SumOf(here) = SumOf(H("tron")) + SumOf(H("bsc"))
  BY <1>3, <1>4
<1>6. AtAddresses("tron") = SumOf(H("tron")) /\ AtAddresses("bsc") = SumOf(H("bsc"))
      /\ Reserve = Custody + float + PayIn + SumOf(here)
  BY DEF AtAddresses, Reserve
<1> HIDE DEF H, here
<1>7. Reserve = Custody + float + PayIn + AtAddresses("tron") + AtAddresses("bsc")
  BY <1>5, <1>6, <1>2, MoneyIsInt DEF Inv
<1> QED
  BY <1>1, <1>2, <1>7, MoneyIsInt DEF Inv

\* Whatever moves while a run reads, its figure of the reserve is not above what there is
\* and was paid out meanwhile, unless a filling of the float and a sweep that landed hid
\* each other from the second reading of custody (reserve_micro's two readings).
THEOREM NeverCountsTooMuch == Spec => []NeverOverCounted
<1>1. Inv => NeverOverCounted
  BY CountedAtVerdict DEF NeverOverCounted
<1> QED
  BY <1>1, InvAtFirst, InvStep, PTL DEF Spec

\* So the CLT of a run that is recorded as `ok' is backed (run_once's comparison): the
\* judgement puts the supply at the liability, and the liability below what was read.
THEOREM OkCanBeBelieved == Spec => []OkMeansBacked
<1>1. ASSUME Inv, AtVerdict, ~Cancelled, Judgement = "ok" PROVE rd.minted <= Reserve + out
  <2>1. rd.total <= Reserve + out
    BY <1>1, CountedAtVerdict
  <2>2. ~(rd.minted > rd.owed) /\ ~(rd.total < rd.owed)
    BY <1>1 DEF Judgement
  <2>3. Reserve \in Int /\ out \in Int /\ rd.minted \in Int /\ rd.owed \in Int /\ rd.total \in Int
    <3>1. {d \in Deposits : place[d] = "here"} \subseteq Deposits
      OBVIOUS
    <3>2. SumOf({d \in Deposits : place[d] = "here"}) \in Nat
      BY <3>1, SumOfLess
    <3> QED
      BY <1>1, <3>2, MoneyIsInt DEF Reserve, Inv
  <2> QED
    BY <2>1, <2>2, <2>3
<1>2. Inv => OkMeansBacked
  BY <1>1 DEF OkMeansBacked
<1> QED
  BY <1>2, InvAtFirst, InvStep, PTL DEF Spec

\* Minting is not halted for nothing: where nothing was lost, a mismatch is one of the
\* seven races and failures of this run, and no other order of its readings makes one.
THEOREM AlarmsAreExplained == Spec => []NoUnexplainedAlarm
<1>1. ASSUME Inv, AtVerdict, lost = 0, Unexcused PROVE Judgement # "mismatch"
  <2>1. rd.minted <= rd.owed
    BY <1>1 DEF Inv, MintedIsOwed, AtVerdict
  <2>2. Waiting("bsc") = 0
    BY <1>1, NoneWaits DEF AtVerdict
  <2>3. rd.owed <= rd.total + Waiting("bsc")
    BY <1>1 DEF Inv, NothingMissed, AtVerdict
  <2>4. rd.minted \in Int /\ rd.owed \in Int /\ rd.total \in Int
    BY <1>1, MoneyIsInt DEF Inv
  <2> QED
    BY <2>1, <2>2, <2>3, <2>4 DEF Judgement
<1>2. Inv => NoUnexplainedAlarm
  BY <1>1 DEF NoUnexplainedAlarm, Unexcused
<1> QED
  BY <1>2, InvAtFirst, InvStep, PTL DEF Spec

=============================================================================
