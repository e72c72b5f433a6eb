------------------------- MODULE GasFreeSweepProofs -------------------------
(* What TLAPS proves of GasFreeSweep for any deposits, amounts, maxima and *)
(* failures: a deposit marked swept was moved, a permit the sweeper asked  *)
(* for costs no more than a deposit it settles held back, and the account, *)
(* custody and the float together cover what the deposits may mint.        *)
EXTENDS GasFreeSweep, SumsProofs

\* What the sweeper's labels say of its variables.
InPass ==
  /\ pc \in {"mark", "clear", "expired"} => pending # None
  /\ pc = "mark" => nonce > pending.nonce

\* A row is decided, covered or asked about only once its deposit is on chain.
OnChain ==
  /\ \A d \in Deposits : row[d] # "created" => d \in arrived
  /\ verdict # NoVerdict => verdict.of \in arrived
  /\ asked \subseteq arrived
  /\ pending # None => pending.covers \subseteq arrived

\* The permit the relay holds carries the next nonce, so one of them runs per nonce.
OneNonce ==
  /\ relay # None => relay.nonce = nonce
  /\ pending # None => pending.nonce <= nonce
  /\ pc = "record" => answer.nonce <= nonce

\* Whatever may still be signed is sized on every deposit a permit on the books covers.
SignsForAll ==
  signer # NoCall /\ signer.at = "signs" =>
    /\ asked \subseteq signer.of
    /\ pending # None => pending.covers \subseteq signer.of
    /\ signer.of \subseteq arrived

\* So is the permit that can move the chain past the nonce the books know.
RunsForAll ==
  /\ relay # None => relay.of \subseteq arrived
  /\ relay # None /\ pending # None /\ pending.nonce = nonce => pending.covers \subseteq relay.of
  /\ relay # None /\ pc = "record" /\ answer.nonce = nonce => asked \subseteq relay.of

\* Past that nonce, what the permit covers has been moved.
PastIsMoved ==
  /\ pending # None /\ pending.nonce < nonce => pending.covers \subseteq moved
  /\ pc = "record" /\ answer.nonce < nonce => asked \subseteq moved

MovedInv == InPass /\ OnChain /\ OneNonce /\ SignsForAll /\ RunsForAll /\ PastIsMoved /\ SweptWasMoved

\* The treasury's record of a first transfer implies the chain's, and TronGrid shows that one.
RecordImpliesActive ==
  /\ firstTransfer => shownNonce > 0
  /\ pc = "mark" => shownNonce > pending.nonce
  /\ pc = "clear" => shownNonce > 0

\* Some row asked about held back at least this fee.
HeldBack(fee, rows) == \E d \in rows : d \in Verified /\ fee <= feeHeld[d]

\* A call of the sweeper is sized on a fee some row asked about held back.
CallWithinHold ==
  signer # NoCall /\ signer.by = "sweeper" =>
    /\ HeldBack(FeeToHold(firstTransfer), asked)
    /\ signer.at = "signs" => HeldBack(signer.maxFee, asked)
    /\ pc = "wait"

HoldInv == InPass /\ RecordImpliesActive /\ CallWithinHold /\ FeeWithinHold

-----------------------------------------------------------------------------
(* Types.                                                                  *)

USE AmountsAssumption, EnvironmentAssumption
USE DEF None, NoCall, NoVerdict, dbVars, workerVars, chainVars, sweeperKeeps, signerKeeps, Goto

\* Every action keeps the types (TypeOK).
LEMMA TypePreserved ==
  TypeOK /\ [Next]_vars => TypeOK'
<1> SUFFICES ASSUME TypeOK, [Next]_vars PROVE TypeOK'
  OBVIOUS
<1> USE DEF TypeOK, Verified, Permits, PendingPermits, RelayPermits, Calls
<1>1. ASSUME NEW d \in Deposits, VerifierReads(d) PROVE TypeOK'
  BY <1>1 DEF VerifierReads, HoldFor, FeeToHold
<1>2. ASSUME VerifierDecides PROVE TypeOK'
  BY <1>2 DEF VerifierDecides, DepositMint
<1>3. ASSUME VerifierFails PROVE TypeOK'
  BY <1>3 DEF VerifierFails, Trouble
<1>4. ASSUME NEW d \in Deposits, ApproveHeld(d) PROVE TypeOK'
  BY <1>4 DEF ApproveHeld
<1>5. ASSUME NEW d \in Deposits, Credit(d) PROVE TypeOK'
  BY <1>5 DEF Credit
<1>6. ASSUME NEW d \in Deposits, Arrive(d) PROVE TypeOK'
  BY <1>6 DEF Arrive
<1>7. ASSUME SeesItRan PROVE TypeOK'
  BY <1>7 DEF SeesItRan
<1>8. ASSUME SeesItExpired PROVE TypeOK'
  BY <1>8 DEF SeesItExpired
<1>9. ASSUME NothingToSettle PROVE TypeOK'
  BY <1>9 DEF NothingToSettle, Trouble
<1>10. ASSUME MarkSwept PROVE TypeOK'
  BY <1>10 DEF MarkSwept, CoveredRows
<1>11. ASSUME ClearSettled PROVE TypeOK'
  BY <1>11 DEF ClearSettled
<1>12. ASSUME ClearExpired PROVE TypeOK'
  BY <1>12 DEF ClearExpired
<1>13. ASSUME SettleWriteFails PROVE TypeOK'
  BY <1>13 DEF SettleWriteFails, Trouble
<1>14. ASSUME AskForPermit PROVE TypeOK'
  BY <1>14 DEF AskForPermit
<1>15. ASSUME EndPass PROVE TypeOK'
  BY <1>15 DEF EndPass, Trouble
<1>16. ASSUME RecordPermit PROVE TypeOK'
  BY <1>16 DEF RecordPermit
<1>17. ASSUME RecordFails PROVE TypeOK'
  BY <1>17 DEF RecordFails, Trouble
<1>18. ASSUME Crash PROVE TypeOK'
  BY <1>18 DEF Crash, Trouble
<1>19. ASSUME StrayCall PROVE TypeOK'
  BY <1>19 DEF StrayCall, Trouble
<1>20. ASSUME SignerReads PROVE TypeOK'
  <2>1. FeeToHold(shownNonce > 0) \in Nat
    BY DEF FeeToHold
  <2>2. signer \in Calls /\ shownNonce \in Nat /\ balance \in Nat
    BY <1>20 DEF SignerReads
  <2>3. signer' \in Calls /\ signer'.maxFee < signer'.balance
    BY <1>20, <2>1, <2>2 DEF SignerReads
  <2> QED
    BY <1>20, <2>3 DEF SignerReads
<1>21. ASSUME SignerFindsTooLittle PROVE TypeOK'
  BY <1>21 DEF SignerFindsTooLittle, AnswerNothing
<1>22. ASSUME SignerSubmits PROVE TypeOK'
  BY <1>22 DEF SignerSubmits, Submitted, NextPermit
<1>23. ASSUME AnswerIsLost PROVE TypeOK'
  BY <1>23 DEF AnswerIsLost, Submitted, AnswerNothing, NextPermit, Trouble
<1>24. ASSUME SignerSignsNothing PROVE TypeOK'
  BY <1>24 DEF SignerSignsNothing, AnswerNothing, Trouble
<1>25. ASSUME Run PROVE TypeOK'
  <2>1. PICK fee \in LiveFees : relay.value + fee <= balance /\ balance' = balance - relay.value - fee
    BY <1>25 DEF Run
  <2>2. balance' \in Nat /\ collected' \in Nat
    BY <1>25, <2>1 DEF Run, LiveFees
  <2> QED
    BY <1>25, <2>2 DEF Run
<1>26. ASSUME Dies PROVE TypeOK'
  BY <1>26 DEF Dies, Trouble
<1>27. ASSUME Close PROVE TypeOK'
  BY <1>27 DEF Close
<1>28. ASSUME Lapse PROVE TypeOK'
  BY <1>28 DEF Lapse
<1>29. ASSUME Show PROVE TypeOK'
  BY <1>29 DEF Show
<1>30. ASSUME RaiseMaximum PROVE TypeOK'
  BY <1>30 DEF RaiseMaximum
<1>31. CASE UNCHANGED vars
  BY <1>31 DEF vars
<1> QED
  BY <1>1, <1>2, <1>3, <1>4, <1>5, <1>6, <1>7, <1>8, <1>9, <1>10, <1>11, <1>12, <1>13, <1>14,
     <1>15, <1>16, <1>17, <1>18, <1>19, <1>20, <1>21, <1>22, <1>23, <1>24, <1>25, <1>26, <1>27,
     <1>28, <1>29, <1>30, <1>31
     DEF Next, Verifier, Settle, Sweep, Signer

\* Every state is well typed (TypeOK).
THEOREM TypeCorrect == Spec => []TypeOK
<1>1. ASSUME Init PROVE TypeOK
  <2>1. Verified = {}
    BY <1>1 DEF Init, Verified
  <2>2. pending = None /\ answer = None /\ relay = None /\ signer = NoCall /\ verdict = NoVerdict
    BY <1>1 DEF Init
  <2>3. shownNonce \in 0..nonce /\ troubles \in 0..MaxTroubles
    BY <1>1 DEF Init
  <2>4. /\ row \in [Deposits -> {"created", "approved", "held", "rejected", "credited"}]
        /\ feeHeld \in [Deposits -> Nat]
    BY <1>1 DEF Init
  <2>5. pc = "idle" /\ signer.at = "none"
    BY <1>1 DEF Init
  <2>6. /\ swept = {} /\ firstTransfer = FALSE /\ asked = {} /\ transferMax \in TransferMaxima
        /\ outrun = FALSE
        /\ signed = 0 /\ arrived = {} /\ balance = 0 /\ collected = 0 /\ nonce = 0 /\ moved = {}
    BY <1>1 DEF Init
  <2> HIDE DEF None, NoCall, NoVerdict
  <2> QED
    BY <2>1, <2>2, <2>3, <2>4, <2>5, <2>6 DEF TypeOK
<1> QED
  BY <1>1, TypePreserved, PTL DEF Spec

-----------------------------------------------------------------------------
(* A deposit marked swept was moved.                                       *)

\* Every action keeps the invariant behind SweptWasMoved.
LEMMA MovedPreserved ==
  TypeOK /\ MovedInv /\ [Next]_vars => MovedInv'
<1> SUFFICES ASSUME TypeOK, MovedInv, [Next]_vars PROVE MovedInv'
  OBVIOUS
<1> USE DEF TypeOK, Permits, PendingPermits, RelayPermits, Calls
<1> USE DEF MovedInv, InPass, OnChain, OneNonce, SignsForAll, RunsForAll, PastIsMoved, SweptWasMoved
<1>1. ASSUME NEW d \in Deposits, VerifierReads(d) PROVE MovedInv'
  BY <1>1 DEF VerifierReads
<1>2. ASSUME VerifierDecides PROVE MovedInv'
  BY <1>2 DEF VerifierDecides
<1>3. ASSUME VerifierFails PROVE MovedInv'
  BY <1>3 DEF VerifierFails
<1>4. ASSUME NEW d \in Deposits, ApproveHeld(d) PROVE MovedInv'
  BY <1>4 DEF ApproveHeld
<1>5. ASSUME NEW d \in Deposits, Credit(d) PROVE MovedInv'
  BY <1>5 DEF Credit
<1>6. ASSUME NEW d \in Deposits, Arrive(d) PROVE MovedInv'
  BY <1>6 DEF Arrive
<1>7. ASSUME SeesItRan PROVE MovedInv'
  BY <1>7 DEF SeesItRan
<1>8. ASSUME SeesItExpired PROVE MovedInv'
  BY <1>8 DEF SeesItExpired
<1>9. ASSUME NothingToSettle PROVE MovedInv'
  BY <1>9 DEF NothingToSettle
<1>10. ASSUME MarkSwept PROVE MovedInv'
  BY <1>10 DEF MarkSwept, CoveredRows
<1>11. ASSUME ClearSettled PROVE MovedInv'
  BY <1>11 DEF ClearSettled
<1>12. ASSUME ClearExpired PROVE MovedInv'
  BY <1>12 DEF ClearExpired
<1>13. ASSUME SettleWriteFails PROVE MovedInv'
  BY <1>13 DEF SettleWriteFails
<1>14. ASSUME AskForPermit PROVE MovedInv'
  BY <1>14 DEF AskForPermit, Verified
<1>15. ASSUME EndPass PROVE MovedInv'
  BY <1>15 DEF EndPass
<1>16. ASSUME RecordPermit PROVE MovedInv'
  BY <1>16 DEF RecordPermit
<1>17. ASSUME RecordFails PROVE MovedInv'
  BY <1>17 DEF RecordFails
<1>18. ASSUME Crash PROVE MovedInv'
  BY <1>18 DEF Crash
<1>19. ASSUME StrayCall PROVE MovedInv'
  BY <1>19 DEF StrayCall
<1>20. ASSUME SignerReads PROVE MovedInv'
  BY <1>20 DEF SignerReads
<1>21. ASSUME SignerFindsTooLittle PROVE MovedInv'
  BY <1>21 DEF SignerFindsTooLittle, AnswerNothing
<1>22. ASSUME SignerSubmits PROVE MovedInv'
  BY <1>22 DEF SignerSubmits, Submitted, NextPermit, InFlight
<1>23. ASSUME AnswerIsLost PROVE MovedInv'
  BY <1>23 DEF AnswerIsLost, Submitted, AnswerNothing, NextPermit, InFlight
<1>24. ASSUME SignerSignsNothing PROVE MovedInv'
  BY <1>24 DEF SignerSignsNothing, AnswerNothing
<1>25. ASSUME Run PROVE MovedInv'
  BY <1>25 DEF Run
<1>26. ASSUME Dies PROVE MovedInv'
  BY <1>26 DEF Dies
<1>27. ASSUME Close PROVE MovedInv'
  BY <1>27 DEF Close
<1>28. ASSUME Lapse PROVE MovedInv'
  BY <1>28 DEF Lapse
<1>29. ASSUME Show PROVE MovedInv'
  BY <1>29 DEF Show
<1>30. ASSUME RaiseMaximum PROVE MovedInv'
  BY <1>30 DEF RaiseMaximum
<1>31. CASE UNCHANGED vars
  BY <1>31 DEF vars
<1> QED
  BY <1>1, <1>2, <1>3, <1>4, <1>5, <1>6, <1>7, <1>8, <1>9, <1>10, <1>11, <1>12, <1>13, <1>14,
     <1>15, <1>16, <1>17, <1>18, <1>19, <1>20, <1>21, <1>22, <1>23, <1>24, <1>25, <1>26, <1>27,
     <1>28, <1>29, <1>30, <1>31
     DEF Next, Verifier, Settle, Sweep, Signer

\* For any deposits, amounts, maxima and failures, a deposit is marked swept only when a permit that
\* ran was sized on a balance it was in (SweptWasMoved).
THEOREM SweptDepositsMoved == Spec => []SweptWasMoved
<1>1. Init => MovedInv
  BY DEF Init, MovedInv, InPass, OnChain, OneNonce, SignsForAll, RunsForAll, PastIsMoved, SweptWasMoved
<1>2. MovedInv => SweptWasMoved
  BY DEF MovedInv
<1> QED
  BY <1>1, <1>2, TypeCorrect, MovedPreserved, PTL DEF Spec

-----------------------------------------------------------------------------
(* A permit costs no more than a deposit it settles held back.             *)

\* Every action keeps the invariant behind FeeWithinHold.
LEMMA HoldPreserved ==
  TypeOK /\ HoldInv /\ [Next]_vars => HoldInv'
<1> SUFFICES ASSUME TypeOK, HoldInv, [Next]_vars PROVE HoldInv'
  OBVIOUS
<1> USE DEF TypeOK, Permits, PendingPermits, RelayPermits, Calls
<1> USE DEF HoldInv, InPass, RecordImpliesActive, CallWithinHold, FeeWithinHold
<1>1. ASSUME NEW d \in Deposits, VerifierReads(d) PROVE HoldInv'
  BY <1>1 DEF VerifierReads, HeldBack, Verified, FeeToHold
<1>2. ASSUME VerifierDecides PROVE HoldInv'
  BY <1>2 DEF VerifierDecides, HeldBack, Verified, FeeToHold
<1>3. ASSUME VerifierFails PROVE HoldInv'
  BY <1>3 DEF VerifierFails, HeldBack, Verified, FeeToHold
<1>4. ASSUME NEW d \in Deposits, ApproveHeld(d) PROVE HoldInv'
  BY <1>4 DEF ApproveHeld, HeldBack, Verified, FeeToHold
<1>5. ASSUME NEW d \in Deposits, Credit(d) PROVE HoldInv'
  BY <1>5 DEF Credit, HeldBack, Verified, FeeToHold
<1>6. ASSUME NEW d \in Deposits, Arrive(d) PROVE HoldInv'
  BY <1>6 DEF Arrive, HeldBack, Verified, FeeToHold
<1>7. ASSUME SeesItRan PROVE HoldInv'
  BY <1>7 DEF SeesItRan, HeldBack, Verified, FeeToHold
<1>8. ASSUME SeesItExpired PROVE HoldInv'
  BY <1>8 DEF SeesItExpired, HeldBack, Verified, FeeToHold
<1>9. ASSUME NothingToSettle PROVE HoldInv'
  BY <1>9 DEF NothingToSettle, HeldBack, Verified, FeeToHold
<1>10. ASSUME MarkSwept PROVE HoldInv'
  BY <1>10 DEF MarkSwept, CoveredRows, HeldBack, Verified, FeeToHold
<1>11. ASSUME ClearSettled PROVE HoldInv'
  BY <1>11 DEF ClearSettled, HeldBack, Verified, FeeToHold
<1>12. ASSUME ClearExpired PROVE HoldInv'
  BY <1>12 DEF ClearExpired, HeldBack, Verified, FeeToHold
<1>13. ASSUME SettleWriteFails PROVE HoldInv'
  BY <1>13 DEF SettleWriteFails, HeldBack, Verified, FeeToHold
<1>14. ASSUME AskForPermit PROVE HoldInv'
  <2>1. HeldBack(FeeToHold(firstTransfer), Verified)
    BY <1>14 DEF AskForPermit, MayAsk, HeldEnough, HeldBack
  <2>2. FeeToHold(firstTransfer)' = FeeToHold(firstTransfer) /\ Verified' = Verified
    BY <1>14 DEF AskForPermit, FeeToHold, Verified
  <2>3. HeldBack(FeeToHold(firstTransfer), asked)'
    BY <2>1, <2>2, <1>14 DEF AskForPermit, HeldBack
  <2>4. pc' = "wait" /\ signer'.by = "sweeper" /\ signer'.at = "reads"
    BY <1>14 DEF AskForPermit
  <2>5. FeeWithinHold'
    BY <2>2, <1>14 DEF AskForPermit
  <2> QED
    BY <1>14, <2>3, <2>4, <2>5 DEF AskForPermit
<1>15. ASSUME EndPass PROVE HoldInv'
  BY <1>15 DEF EndPass, HeldBack, Verified, FeeToHold
<1>16. ASSUME RecordPermit PROVE HoldInv'
  BY <1>16 DEF RecordPermit, HeldBack, Verified, FeeToHold
<1>17. ASSUME RecordFails PROVE HoldInv'
  BY <1>17 DEF RecordFails, HeldBack, Verified, FeeToHold
<1>18. ASSUME Crash PROVE HoldInv'
  BY <1>18 DEF Crash, HeldBack, Verified, FeeToHold
<1>19. ASSUME StrayCall PROVE HoldInv'
  BY <1>19 DEF StrayCall, HeldBack, Verified, FeeToHold
<1>20. ASSUME SignerReads PROVE HoldInv'
  <2>1. FeeToHold(shownNonce > 0) <= FeeToHold(firstTransfer)
    BY DEF FeeToHold
  <2>2. FeeToHold(shownNonce > 0) \in Nat /\ FeeToHold(firstTransfer) \in Nat
    BY DEF FeeToHold
  <2>3. ASSUME signer.by = "sweeper" PROVE HeldBack(FeeToHold(shownNonce > 0), asked)
    <3>1. HeldBack(FeeToHold(firstTransfer), asked)
      BY <2>3, <1>20 DEF SignerReads
    <3>2. PICK d \in asked : d \in Verified /\ FeeToHold(firstTransfer) <= feeHeld[d]
      BY <3>1 DEF HeldBack
    <3>3. feeHeld[d] \in Nat
      BY <3>2
    <3> QED
      BY <2>1, <2>2, <3>2, <3>3 DEF HeldBack
  <2>4. /\ FeeToHold(firstTransfer)' = FeeToHold(firstTransfer)
        /\ Verified' = Verified /\ asked' = asked /\ feeHeld' = feeHeld
    BY <1>20 DEF SignerReads, FeeToHold, Verified
  <2>5. /\ signer # NoCall /\ signer'.by = signer.by
        /\ signer'.maxFee = FeeToHold(shownNonce > 0)
    BY <1>20 DEF SignerReads
  <2>6. CallWithinHold'
    <3>1. ASSUME signer.by = "sweeper"
          PROVE HeldBack(FeeToHold(firstTransfer), asked) /\ pc = "wait"
      BY <3>1, <2>5
    <3> QED
      BY <3>1, <2>3, <2>4, <2>5, <1>20 DEF SignerReads, HeldBack
  <2>7. InPass' /\ RecordImpliesActive' /\ FeeWithinHold'
    BY <1>20, <2>4 DEF SignerReads
  <2> QED
    BY <2>6, <2>7
<1>21. ASSUME SignerFindsTooLittle PROVE HoldInv'
  BY <1>21 DEF SignerFindsTooLittle, AnswerNothing, HeldBack, Verified, FeeToHold
<1>22. ASSUME SignerSubmits PROVE HoldInv'
  BY <1>22 DEF SignerSubmits, Submitted, NextPermit, InFlight, HeldBack, Verified, FeeToHold
<1>23. ASSUME AnswerIsLost PROVE HoldInv'
  BY <1>23 DEF AnswerIsLost, Submitted, AnswerNothing, NextPermit, InFlight, HeldBack, Verified, FeeToHold
<1>24. ASSUME SignerSignsNothing PROVE HoldInv'
  BY <1>24 DEF SignerSignsNothing, AnswerNothing, HeldBack, Verified, FeeToHold
<1>25. ASSUME Run PROVE HoldInv'
  BY <1>25 DEF Run, HeldBack, Verified, FeeToHold
<1>26. ASSUME Dies PROVE HoldInv'
  BY <1>26 DEF Dies, HeldBack, Verified, FeeToHold
<1>27. ASSUME Close PROVE HoldInv'
  BY <1>27 DEF Close, HeldBack, Verified, FeeToHold
<1>28. ASSUME Lapse PROVE HoldInv'
  BY <1>28 DEF Lapse, HeldBack, Verified, FeeToHold
<1>29. ASSUME Show PROVE HoldInv'
  BY <1>29 DEF Show, HeldBack, Verified, FeeToHold
<1>30. ASSUME RaiseMaximum PROVE HoldInv'
  BY <1>30 DEF RaiseMaximum, HeldBack, Verified, FeeToHold
<1>31. CASE UNCHANGED vars
  BY <1>31 DEF vars, HeldBack, Verified, FeeToHold
<1> QED
  BY <1>1, <1>2, <1>3, <1>4, <1>5, <1>6, <1>7, <1>8, <1>9, <1>10, <1>11, <1>12, <1>13, <1>14,
     <1>15, <1>16, <1>17, <1>18, <1>19, <1>20, <1>21, <1>22, <1>23, <1>24, <1>25, <1>26, <1>27,
     <1>28, <1>29, <1>30, <1>31
     DEF Next, Verifier, Settle, Sweep, Signer

\* For any deposits, amounts, maxima and failures, a permit the sweeper asked for can cost no more
\* than some deposit it settles held back (FeeWithinHold).
THEOREM FeesWithinHolds == Spec => []FeeWithinHold
<1>1. Init => HoldInv
  BY DEF Init, HoldInv, InPass, RecordImpliesActive, CallWithinHold, FeeWithinHold
<1>2. HoldInv => FeeWithinHold
  BY DEF HoldInv
<1> QED
  BY <1>1, <1>2, TypeCorrect, HoldPreserved, PTL DEF Spec

-----------------------------------------------------------------------------
(* The reserve.  The money of a deposit that a permit was sized to move is *)
(* in custody by now, but for the permits' maximal fees; that of the others*)
(* is still at the account.  So it is enough to bound the fees: each run   *)
(* costs at most a transfer at the maximum of its day, the first one also  *)
(* the activation.  Whoever is moved next held back at least the maximum of*)
(* the run before (level), and that run's permit was asked for because     *)
(* some deposit held back its own maximum: so a raised maximum is paid by  *)
(* the one that held enough, and the difference by nobody twice.           *)

\* The most a deposit can still mint, whatever is decided of it.
MayMint(d) ==
  IF d \in Verified THEN Minted(d)
  ELSE IF row[d] = "rejected" \/ Arrives[d] <= transferMax THEN 0
  ELSE Arrives[d] - transferMax
May == [d \in Deposits |-> MayMint(d)]

\* What is held back of a deposit while the maximum is this.
Hold(level) == IF firstTransfer THEN level ELSE ActivateMax + level

\* All that d brought, and what the others that moved may mint.
AllOf(d) == SumOver(May, moved \ {d}) + Arrives[d]

\* A deposit besides which somebody else pays for the activation.
Spared(d) == IF firstTransfer THEN d \notin swept ELSE \E e \in moved \cap Verified : e # d

\* Custody has what the moved deposits may mint, where the last permit ran at this maximum.
Paid(level) ==
  /\ level <= transferMax
  /\ \A d \in Verified \ moved : feeHeld[d] >= Hold(level)
  /\ collected >= SumOver(May, moved) - ActivateMax
  /\ \A d \in moved : collected >= AllOf(d) - ActivateMax - level
  /\ \A d \in moved : Spared(d) => collected >= AllOf(d) - level
  /\ firstTransfer \/ moved \cap Verified # {} => collected >= SumOver(May, moved)

Lowest(level) == \A m \in TransferMaxima : level <= m

\* A call that read the account as it still is, but for what arrived since.
CallSized ==
  signer # NoCall /\ signer.at = "signs" /\ signer.shown = nonce =>
    /\ signer.maxFee = FeeToHold(nonce > 0)
    /\ moved \subseteq signer.of /\ signer.of \subseteq arrived
    /\ balance = signer.balance + SumOver(Arrives, arrived \ signer.of)
    /\ \A d \in Verified \ signer.of : feeHeld[d] >= Hold(transferMax)

\* The maximum the relay's permit was sized at, without the activation.
RelayLevel == IF nonce > 0 THEN relay.maxFee ELSE relay.maxFee - ActivateMax

\* Nobody asks for a permit that no deposit pays for.
RelayPayer ==
  \/ Lowest(RelayLevel)
  \/ /\ \E d \in (Verified \cap relay.of) \ swept : feeHeld[d] >= Hold(RelayLevel)
     /\ pending # None => pending.nonce = nonce
     /\ pc = "record" => answer.nonce = nonce

RelaySized(level) ==
  relay # None =>
    /\ level <= RelayLevel /\ RelayLevel <= transferMax
    /\ moved \subseteq relay.of /\ relay.of \subseteq arrived
    /\ balance = relay.value + relay.maxFee + SumOver(Arrives, arrived \ relay.of)
    /\ \A d \in Verified \ relay.of : feeHeld[d] >= Hold(RelayLevel)
    /\ RelayPayer

\* What was not moved is still at the account.
StillThere == balance >= SumOver(Arrives, arrived \ moved)

ReserveInv ==
  ~outrun => /\ StillThere /\ CallSized
             /\ \E level \in Nat : Paid(level) /\ RelaySized(level)

\* Somebody pays for the call the signer serves.
CallPayer ==
  signer # NoCall =>
    /\ signer.at = "signs" => signer.shown <= nonce
    /\ \/ Lowest(transferMax)
       \/ /\ pending = None /\ pc # "record"
          /\ \E d \in Verified \ swept : /\ feeHeld[d] >= Hold(transferMax)
                                         /\ signer.at = "signs" => d \in signer.of

\* What was held back, and for what.
HoldsSuffice ==
  /\ nonce = 0 => moved = {} /\ collected = 0
  /\ moved \subseteq arrived
  /\ verdict # NoVerdict => verdict.fee >= Hold(transferMax)
  /\ \A d \in Verified : \A m \in Nat : Lowest(m) => feeHeld[d] >= Hold(m)
  /\ CallPayer
  /\ pc \in {"wait", "record"} => asked \cap Verified # {}
  /\ pending # None => pending.covers \cap Verified # {}
  /\ pc = "clear" => swept \cap Verified # {}

\* Nobody's sum passes what arrived.
LEMMA SumsFit ==
  ASSUME NEW may \in [Deposits -> Nat], \A d \in Deposits : may[d] <= Arrives[d], NEW S \in SUBSET Deposits
  PROVE  /\ IsFiniteSet(S) /\ SumOver(may, S) \in Nat /\ SumOver(Arrives, S) \in Nat
         /\ SumOver(may, S) <= SumOver(Arrives, S)
<1>1. IsFiniteSet(S) /\ \A d \in S : may[d] \in Nat /\ Arrives[d] \in Nat /\ may[d] <= Arrives[d]
  BY FinitelyMany, FS_Subset
<1> QED
  BY <1>1, SumIsNat, SumMonotone

\* A sum falls by what one of its terms does, when no term grows.
LEMMA SumsShrink ==
  ASSUME NEW may \in [Deposits -> Nat], NEW may2 \in [Deposits -> Nat],
         \A d \in Deposits : may2[d] <= may[d], NEW S \in SUBSET Deposits
  PROVE  /\ SumOver(may2, S) <= SumOver(may, S)
         /\ \A d \in S : \A k \in Nat : may2[d] + k <= may[d] => SumOver(may2, S) + k <= SumOver(may, S)
<1>1. \A T \in SUBSET S : /\ IsFiniteSet(T) /\ SumOver(may, T) \in Nat /\ SumOver(may2, T) \in Nat
                          /\ SumOver(may2, T) <= SumOver(may, T)
  <2> SUFFICES ASSUME NEW T \in SUBSET S
      PROVE /\ IsFiniteSet(T) /\ SumOver(may, T) \in Nat /\ SumOver(may2, T) \in Nat
            /\ SumOver(may2, T) <= SumOver(may, T)
    OBVIOUS
  <2>1. IsFiniteSet(T) /\ \A d \in T : may[d] \in Nat /\ may2[d] \in Nat /\ may2[d] <= may[d]
    BY FinitelyMany, FS_Subset
  <2> QED
    BY <2>1, SumIsNat, SumMonotone
<1>2. ASSUME NEW d \in S, NEW k \in Nat, may2[d] + k <= may[d]
      PROVE  SumOver(may2, S) + k <= SumOver(may, S)
  <2> DEFINE a == SumOver(may, S \ {d})
             b == SumOver(may2, S \ {d})
  <2>1. IsFiniteSet(S) /\ \A x \in S : may[x] \in Int /\ may2[x] \in Int
    BY <1>1
  <2>2. SumOver(may, S) = may[d] + a /\ SumOver(may2, S) = may2[d] + b
    BY <2>1, SumRemove
  <2>3. a \in Nat /\ b \in Nat /\ b <= a
    BY <1>1
  <2>4. may[d] \in Nat /\ may2[d] \in Nat
    OBVIOUS
  <2> HIDE DEF a, b
  <2> QED
    BY <1>2, <2>2, <2>3, <2>4
<1> QED
  BY <1>1, <1>2

\* What a permit of value V and maximal fee F takes of the new deposits it moves.
LEMMA PermitTakes ==
  ASSUME NEW may \in [Deposits -> Nat], \A d \in Deposits : may[d] <= Arrives[d],
         NEW N \in SUBSET Deposits, NEW V \in Nat, NEW F \in Nat,
         V + F >= SumOver(Arrives, N)
  PROVE  /\ \A d \in N : V >= SumOver(may, N \ {d}) + Arrives[d] - F
         /\ \A d \in N : V >= SumOver(may, N) + (Arrives[d] - may[d]) - F
         /\ \A d, e \in N : d # e =>
              V >= SumOver(may, N \ {d}) + Arrives[d] + (Arrives[e] - may[e]) - F
         /\ (\A d \in N : may[d] = 0) => SumOver(may, N) = 0
<1>1. \A S \in SUBSET N : /\ IsFiniteSet(S) /\ SumOver(may, S) \in Nat /\ SumOver(Arrives, S) \in Nat
                          /\ SumOver(may, S) <= SumOver(Arrives, S)
  BY SumsFit
<1>2. ASSUME NEW S \in SUBSET N, NEW d \in S
      PROVE  /\ SumOver(may, S) = may[d] + SumOver(may, S \ {d})
             /\ SumOver(Arrives, S) = Arrives[d] + SumOver(Arrives, S \ {d})
  <2>1. IsFiniteSet(S) /\ \A x \in S : may[x] \in Int /\ Arrives[x] \in Int
    BY <1>1
  <2> QED
    BY <2>1, SumRemove
<1>3. ASSUME NEW d \in N
      PROVE  /\ V >= SumOver(may, N \ {d}) + Arrives[d] - F
             /\ V >= SumOver(may, N) + (Arrives[d] - may[d]) - F
  <2> DEFINE a == SumOver(Arrives, N \ {d})
             m == SumOver(may, N \ {d})
  <2>1. a \in Nat /\ m \in Nat /\ m <= a
    BY <1>1
  <2>2. SumOver(Arrives, N) = Arrives[d] + a /\ SumOver(may, N) = may[d] + m
    BY <1>2
  <2>3. Arrives[d] \in Nat /\ may[d] \in Nat
    OBVIOUS
  <2> HIDE DEF a, m
  <2>4. V >= m + Arrives[d] - F /\ V >= SumOver(may, N) + (Arrives[d] - may[d]) - F
    BY <2>1, <2>2, <2>3
  <2> QED
    BY <2>4 DEF m
<1>4. ASSUME NEW d \in N, NEW e \in N, d # e
      PROVE  V >= SumOver(may, N \ {d}) + Arrives[d] + (Arrives[e] - may[e]) - F
  <2> DEFINE R == N \ {d}
             a == SumOver(Arrives, R \ {e})
             m == SumOver(may, R \ {e})
  <2>1. R \in SUBSET N /\ e \in R /\ R \ {e} \in SUBSET N
    BY <1>4
  <2>2. a \in Nat /\ m \in Nat /\ m <= a
    BY <1>1, <2>1
  <2>3. SumOver(Arrives, N) = Arrives[d] + SumOver(Arrives, R)
    BY <1>2
  <2>4. SumOver(Arrives, R) = Arrives[e] + a /\ SumOver(may, R) = may[e] + m
    BY <1>2, <2>1
  <2>5. Arrives[d] \in Nat /\ may[d] \in Nat /\ Arrives[e] \in Nat /\ may[e] \in Nat
    OBVIOUS
  <2> HIDE DEF R, a, m
  <2>6. V >= SumOver(may, R) + Arrives[d] + (Arrives[e] - may[e]) - F
    BY <2>2, <2>3, <2>4, <2>5
  <2> QED
    BY <2>6 DEF R
<1>5. (\A d \in N : may[d] = 0) => SumOver(may, N) = 0
  BY <1>1, SumZero
<1> QED
  BY <1>3, <1>4, <1>5

\* The sums over the deposits moved before and now.
LEMMA SumsJoin ==
  ASSUME NEW may \in [Deposits -> Nat], NEW M \in SUBSET Deposits, NEW N \in SUBSET Deposits, M \cap N = {}
  PROVE  /\ SumOver(may, M \cup N) = SumOver(may, M) + SumOver(may, N)
         /\ \A d \in M : SumOver(may, (M \cup N) \ {d}) = SumOver(may, M \ {d}) + SumOver(may, N)
         /\ \A d \in N : SumOver(may, (M \cup N) \ {d}) = SumOver(may, M) + SumOver(may, N \ {d})
<1>1. ASSUME NEW S \in SUBSET Deposits, NEW T \in SUBSET Deposits, S \cap T = {}
      PROVE  SumOver(may, S \cup T) = SumOver(may, S) + SumOver(may, T)
  <2>1. /\ IsFiniteSet(S) /\ \A x \in S : may[x] \in Int
        /\ IsFiniteSet(T) /\ \A x \in T : may[x] \in Int
    BY FinitelyMany, FS_Subset
  <2> QED
    BY <1>1, <2>1, SumUnion
<1>2. ASSUME NEW d \in M PROVE SumOver(may, (M \cup N) \ {d}) = SumOver(may, M \ {d}) + SumOver(may, N)
  <2>1. (M \cup N) \ {d} = (M \ {d}) \cup N /\ (M \ {d}) \cap N = {} /\ M \ {d} \in SUBSET Deposits
    OBVIOUS
  <2>2. SumOver(may, (M \ {d}) \cup N) = SumOver(may, M \ {d}) + SumOver(may, N)
    BY <1>1, <2>1
  <2> QED
    BY <2>1, <2>2
<1>3. ASSUME NEW d \in N PROVE SumOver(may, (M \cup N) \ {d}) = SumOver(may, M) + SumOver(may, N \ {d})
  <2>1. (M \cup N) \ {d} = M \cup (N \ {d}) /\ M \cap (N \ {d}) = {} /\ N \ {d} \in SUBSET Deposits
    OBVIOUS
  <2>2. SumOver(may, M \cup (N \ {d})) = SumOver(may, M) + SumOver(may, N \ {d})
    BY <1>1, <2>1
  <2> QED
    BY <2>1, <2>2
<1> QED
  BY <1>1, <1>2, <1>3

\* Every action keeps what the holds are known to be.
LEMMA HoldsPreserved ==
  TypeOK /\ MovedInv /\ HoldInv /\ HoldsSuffice /\ [Next]_vars => HoldsSuffice'
<1> SUFFICES ASSUME TypeOK, MovedInv, HoldInv, HoldsSuffice, [Next]_vars PROVE HoldsSuffice'
  OBVIOUS
<1> USE DEF TypeOK, Permits, PendingPermits, RelayPermits, Calls
<1> USE DEF MovedInv, InPass, OnChain, OneNonce, RunsForAll, SweptWasMoved
<1> USE DEF HoldsSuffice, CallPayer, Lowest, Hold, Verified
<1>1. ASSUME NEW d \in Deposits, VerifierReads(d) PROVE HoldsSuffice'
  BY <1>1 DEF VerifierReads, HoldFor, FeeToHold
<1>2. ASSUME VerifierDecides PROVE HoldsSuffice'
  <2> DEFINE of == verdict.of
  <2>1. /\ of \in Deposits /\ row[of] = "created" /\ verdict.fee \in Nat /\ verdict.fee >= Hold(transferMax)
        /\ Hold(transferMax)' = Hold(transferMax)
    BY <1>2 DEF VerifierDecides
  <2>2. \A d \in Deposits : d # of => (d \in Verified' <=> d \in Verified) /\ feeHeld'[d] = feeHeld[d]
    BY <1>2, <2>1 DEF VerifierDecides
  <2>3. of \in Verified' => feeHeld'[of] >= verdict.fee
    <3>1. of \in Verified' => feeHeld'[of] = Arrives[of] - (IF Proposed[of] < Arrives[of] - verdict.fee
                                                             THEN Proposed[of] ELSE Arrives[of] - verdict.fee)
      BY <1>2, <2>1 DEF VerifierDecides, DepositMint
    <3>2. Arrives[of] \in Nat /\ Proposed[of] \in Nat
      BY <2>1
    <3> QED
      BY <2>1, <3>1, <3>2
  <2>4. \A d \in Verified' : \A m \in Nat : Lowest(m) => feeHeld'[d] >= Hold(m)
    <3>1. ASSUME NEW m \in Nat, Lowest(m), of \in Verified' PROVE feeHeld'[of] >= Hold(m)
      <4>1. m \in Nat /\ transferMax \in Nat /\ m <= transferMax /\ feeHeld'[of] \in Int
        BY <3>1, <1>2, <2>1, TypePreserved
      <4> QED
        BY <2>1, <2>3, <3>1, <4>1
    <3>2. ASSUME NEW d \in Verified', d # of, NEW m \in Nat, Lowest(m) PROVE feeHeld'[d] >= Hold(m)
      <4>1. d \in Verified /\ feeHeld'[d] = feeHeld[d]
        BY <2>2, <3>2 DEF Verified
      <4> QED
        BY <3>2, <4>1
    <3> QED
      BY <3>1, <3>2
  <2>5. CallPayer'
    BY <1>2, <2>1, <2>2 DEF VerifierDecides
  <2> QED
    BY <1>2, <2>2, <2>4, <2>5 DEF VerifierDecides
<1>3. ASSUME VerifierFails PROVE HoldsSuffice'
  BY <1>3 DEF VerifierFails
<1>4. ASSUME NEW d \in Deposits, ApproveHeld(d) PROVE HoldsSuffice'
  BY <1>4 DEF ApproveHeld
<1>5. ASSUME NEW d \in Deposits, Credit(d) PROVE HoldsSuffice'
  BY <1>5 DEF Credit
<1>6. ASSUME NEW d \in Deposits, Arrive(d) PROVE HoldsSuffice'
  BY <1>6 DEF Arrive
<1>7. ASSUME SeesItRan PROVE HoldsSuffice'
  BY <1>7 DEF SeesItRan
<1>8. ASSUME SeesItExpired PROVE HoldsSuffice'
  BY <1>8 DEF SeesItExpired
<1>9. ASSUME NothingToSettle PROVE HoldsSuffice'
  BY <1>9 DEF NothingToSettle
<1>10. ASSUME MarkSwept PROVE HoldsSuffice'
  BY <1>10 DEF MarkSwept, CoveredRows
<1>11. ASSUME ClearSettled PROVE HoldsSuffice'
  BY <1>11 DEF ClearSettled
<1>12. ASSUME ClearExpired PROVE HoldsSuffice'
  BY <1>12 DEF ClearExpired
<1>13. ASSUME SettleWriteFails PROVE HoldsSuffice'
  BY <1>13 DEF SettleWriteFails
<1>14. ASSUME AskForPermit PROVE HoldsSuffice'
  BY <1>14 DEF AskForPermit, MayAsk, HeldEnough, FeeToHold
<1>15. ASSUME EndPass PROVE HoldsSuffice'
  BY <1>15 DEF EndPass
<1>16. ASSUME RecordPermit PROVE HoldsSuffice'
  BY <1>16 DEF RecordPermit
<1>17. ASSUME RecordFails PROVE HoldsSuffice'
  BY <1>17 DEF RecordFails
<1>18. ASSUME Crash PROVE HoldsSuffice'
  BY <1>18 DEF Crash
<1>19. ASSUME StrayCall PROVE HoldsSuffice'
  BY <1>19 DEF StrayCall
<1>20. ASSUME SignerReads PROVE HoldsSuffice'
  BY <1>20 DEF SignerReads
<1>21. ASSUME SignerFindsTooLittle PROVE HoldsSuffice'
  BY <1>21 DEF SignerFindsTooLittle, AnswerNothing
<1>22. ASSUME SignerSubmits PROVE HoldsSuffice'
  BY <1>22 DEF SignerSubmits, Submitted, HoldInv, CallWithinHold
<1>23. ASSUME AnswerIsLost PROVE HoldsSuffice'
  BY <1>23 DEF AnswerIsLost, Submitted, AnswerNothing
<1>24. ASSUME SignerSignsNothing PROVE HoldsSuffice'
  BY <1>24 DEF SignerSignsNothing, AnswerNothing
<1>25. ASSUME Run PROVE HoldsSuffice'
  BY <1>25 DEF Run
<1>26. ASSUME Dies PROVE HoldsSuffice'
  BY <1>26 DEF Dies
<1>27. ASSUME Close PROVE HoldsSuffice'
  BY <1>27 DEF Close
<1>28. ASSUME Lapse PROVE HoldsSuffice'
  BY <1>28 DEF Lapse
<1>29. ASSUME Show PROVE HoldsSuffice'
  BY <1>29 DEF Show
<1>30. ASSUME RaiseMaximum PROVE HoldsSuffice'
  BY <1>30 DEF RaiseMaximum
<1>31. CASE UNCHANGED vars
  BY <1>31 DEF vars
<1> QED
  BY <1>1, <1>2, <1>3, <1>4, <1>5, <1>6, <1>7, <1>8, <1>9, <1>10, <1>11, <1>12, <1>13, <1>14,
     <1>15, <1>16, <1>17, <1>18, <1>19, <1>20, <1>21, <1>22, <1>23, <1>24, <1>25, <1>26, <1>27,
     <1>28, <1>29, <1>30, <1>31
     DEF Next, Verifier, Settle, Sweep, Signer

\* What a deposit can still mint is never more than it brought.
LEMMA MayIsNat ==
  TypeOK => May \in [Deposits -> Nat] /\ \A d \in Deposits : May[d] <= Arrives[d]
<1> SUFFICES ASSUME TypeOK PROVE May \in [Deposits -> Nat] /\ \A d \in Deposits : May[d] <= Arrives[d]
  OBVIOUS
<1>1. ASSUME NEW d \in Deposits PROVE MayMint(d) \in Nat /\ MayMint(d) <= Arrives[d]
  <2>1. transferMax \in Nat /\ Arrives[d] \in Nat /\ feeHeld[d] \in Nat
    BY DEF TypeOK
  <2>2. d \in Verified => feeHeld[d] < Arrives[d]
    BY DEF TypeOK
  <2> QED
    BY <2>1, <2>2 DEF MayMint, Minted
<1> QED
  BY <1>1 DEF May

\* Custody still has it all when what may be minted shrinks, and each deposit verified held back
\* the maximum, and the activation where it may not have happened.
LEMMA PaidShrinks ==
  ASSUME TypeOK, TypeOK', NEW level \in Nat, Paid(level),
         \A d \in Deposits : May'[d] <= May[d],
         moved' = moved, collected' = collected, firstTransfer' = firstTransfer, swept \subseteq swept',
         transferMax <= transferMax', Verified \subseteq Verified',
         \A d \in Verified : feeHeld'[d] = feeHeld[d],
         \A d \in Verified' \ Verified : /\ feeHeld'[d] >= Hold(transferMax)
                                         /\ ~firstTransfer => May'[d] + ActivateMax <= May[d]
  PROVE  Paid(level)'
<1>1. /\ transferMax \in Nat /\ transferMax' \in Nat /\ collected \in Nat /\ moved \in SUBSET Deposits
      /\ firstTransfer \in BOOLEAN /\ Verified' \subseteq Deposits
      /\ \A d \in Deposits : Arrives[d] \in Nat /\ feeHeld'[d] \in Nat
  BY DEF TypeOK, Verified
<1>2. May \in [Deposits -> Nat] /\ May' \in [Deposits -> Nat]
  <2>1. (May \in [Deposits -> Nat])'
    BY MayIsNat, PTL
  <2> QED
    BY <2>1, MayIsNat
<1>3. \A S \in SUBSET Deposits :
        /\ SumOver(May, S) \in Nat /\ SumOver(May', S) \in Nat
        /\ SumOver(May', S) <= SumOver(May, S)
        /\ \A d \in S : May'[d] + ActivateMax <= May[d] => SumOver(May', S) + ActivateMax <= SumOver(May, S)
  <2>1. \A S \in SUBSET Deposits : IsFiniteSet(S) /\ \A d \in S : May[d] \in Nat /\ May'[d] \in Nat
    BY <1>2, FinitelyMany, FS_Subset
  <2> QED
    BY <1>2, <2>1, SumIsNat, SumsShrink
<1>4. level <= transferMax /\ Hold(level)' = Hold(level) /\ Hold(level) <= Hold(transferMax)
  BY <1>1 DEF Paid, Hold
<1>5. \A d \in Verified' \ moved' : feeHeld'[d] >= Hold(level)'
  <2>1. Hold(level) \in Nat /\ Hold(transferMax) \in Nat
    BY <1>1 DEF Hold
  <2>2. SUFFICES ASSUME NEW d \in Verified', d \notin moved PROVE feeHeld'[d] >= Hold(level)
    BY <1>4
  <2>3. CASE d \in Verified
    BY <2>2, <2>3 DEF Paid
  <2>4. CASE d \notin Verified
    <3>1. feeHeld'[d] >= Hold(transferMax) /\ feeHeld'[d] \in Nat
      BY <1>1, <2>2, <2>4
    <3> QED
      BY <1>4, <2>1, <3>1
  <2> QED
    BY <2>3, <2>4
<1>6. collected' >= SumOver(May', moved') - ActivateMax
  <2>1. collected >= SumOver(May, moved) - ActivateMax
    BY DEF Paid
  <2>2. SumOver(May', moved') = SumOver(May', moved)
    OBVIOUS
  <2> QED
    BY <1>1, <1>3, <2>1, <2>2
<1>7. ASSUME NEW d \in moved
      PROVE  /\ collected' >= AllOf(d)' - ActivateMax - level
             /\ Spared(d)' => collected' >= AllOf(d)' - level
  <2> DEFINE a == SumOver(May, moved \ {d})
             b == SumOver(May', moved \ {d})
  <2>1. AllOf(d) = a + Arrives[d] /\ AllOf(d)' = b + Arrives[d]
    BY DEF AllOf
  <2>2. /\ a \in Nat /\ b \in Nat /\ b <= a
        /\ \A e \in moved \ {d} : May'[e] + ActivateMax <= May[e] => b + ActivateMax <= a
    BY <1>1, <1>3
  <2>3. /\ collected >= AllOf(d) - ActivateMax - level
        /\ Spared(d) => collected >= AllOf(d) - level
    BY DEF Paid
  <2>4. Spared(d)' => Spared(d) \/ b + ActivateMax <= a
    <3>1. CASE firstTransfer
      BY <3>1 DEF Spared
    <3>2. ASSUME ~firstTransfer, NEW e \in moved, e \in Verified', e # d
          PROVE  Spared(d) \/ b + ActivateMax <= a
      <4>1. CASE e \in Verified
        BY <3>2, <4>1 DEF Spared
      <4>2. CASE e \notin Verified
        BY <2>2, <3>2, <4>2
      <4> QED
        BY <4>1, <4>2
    <3> QED
      BY <1>1, <3>1, <3>2 DEF Spared
  <2>5. Arrives[d] \in Nat
    BY <1>1
  <2> HIDE DEF a, b
  <2> QED
    BY <1>1, <2>1, <2>2, <2>3, <2>4, <2>5
<1>8. firstTransfer' \/ moved' \cap Verified' # {} => collected' >= SumOver(May', moved')
  <2> DEFINE a == SumOver(May, moved)
             b == SumOver(May', moved)
  <2>1. a \in Nat /\ b \in Nat /\ b <= a
    BY <1>1, <1>3
  <2>2. /\ collected >= a - ActivateMax
        /\ firstTransfer \/ moved \cap Verified # {} => collected >= a
    BY DEF Paid
  <2>3. firstTransfer' \/ moved' \cap Verified' # {} =>
          \/ firstTransfer \/ moved \cap Verified # {}
          \/ b + ActivateMax <= a
    <3>1. ASSUME ~firstTransfer, NEW e \in moved, e \in Verified', e \notin Verified
          PROVE  b + ActivateMax <= a
      <4>1. e \in Deposits /\ May'[e] + ActivateMax <= May[e]
        BY <1>1, <3>1
      <4> QED
        BY <1>1, <1>3, <4>1
    <3> QED
      BY <3>1
  <2>4. SumOver(May', moved') = b
    OBVIOUS
  <2> HIDE DEF a, b
  <2> QED
    BY <1>1, <2>1, <2>2, <2>3, <2>4
<1>9. level <= transferMax'
  BY <1>1, <1>4
<1> QED
  BY <1>5, <1>6, <1>7, <1>8, <1>9 DEF Paid

\* What is true of a deposit that some permit may move next: it pays for the maximum of the run
\* before, or mints nothing; and with the lowest maximum for any.
LEMMA UnmovedPays ==
  ASSUME TypeOK, HoldsSuffice, NEW level \in Nat, Paid(level), NEW T \in Nat, level <= T, T <= transferMax,
         NEW d \in Deposits \ moved
  PROVE  /\ d \in Verified => May[d] \in Nat /\ Arrives[d] - May[d] >= Hold(level)
         /\ d \in Verified /\ Lowest(T) => Arrives[d] - May[d] >= Hold(T)
         /\ May[d] = 0 \/ Arrives[d] - May[d] >= level
         /\ Lowest(T) => May[d] = 0 \/ Arrives[d] - May[d] >= T
<1>1. /\ May[d] \in Nat /\ Arrives[d] \in Nat /\ transferMax \in Nat /\ feeHeld[d] \in Nat
      /\ Hold(level) \in Nat /\ Hold(T) \in Nat /\ Hold(level) >= level /\ Hold(T) >= T
  BY MayIsNat DEF TypeOK, Hold
<1>2. CASE d \in Verified
  <2>1. Arrives[d] - May[d] = feeHeld[d]
    BY <1>1, <1>2 DEF May, MayMint, Minted
  <2>2. feeHeld[d] >= Hold(level) /\ (Lowest(T) => feeHeld[d] >= Hold(T))
    BY <1>2 DEF Paid, HoldsSuffice
  <2> QED
    BY <1>1, <2>1, <2>2
<1>3. CASE d \notin Verified
  <2>1. May[d] = 0 \/ May[d] = Arrives[d] - transferMax
    BY <1>3 DEF May, MayMint
  <2> QED
    BY <1>1, <1>3, <2>1
<1> QED
  BY <1>2, <1>3

\* When the permit runs, custody has what the deposits moved by then may mint.
LEMMA RunPays ==
  ASSUME TypeOK, HoldInv, HoldsSuffice, StillThere, NEW level \in Nat, Paid(level), RelaySized(level),
         relay # None, NEW T \in Nat, T = RelayLevel
  PROVE  /\ collected + relay.value >= SumOver(May, relay.of) - ActivateMax
         /\ \A d \in relay.of :
              collected + relay.value >= (SumOver(May, relay.of \ {d}) + Arrives[d]) - ActivateMax - T
         /\ \A d \in relay.of :
              (IF firstTransfer THEN d \notin swept ELSE \E e \in relay.of \cap Verified : e # d)
                => collected + relay.value >= (SumOver(May, relay.of \ {d}) + Arrives[d]) - T
         /\ firstTransfer \/ relay.of \cap Verified # {} => collected + relay.value >= SumOver(May, relay.of)
<1> DEFINE M == moved
           N == relay.of \ moved
           V == relay.value
           F == relay.maxFee
           sM == SumOver(May, M)
           sN == SumOver(May, N)
           A == ActivateMax
<1>1. /\ V \in Nat /\ F \in Nat /\ collected \in Nat /\ balance \in Nat /\ nonce \in Nat /\ A \in Nat
      /\ M \in SUBSET Deposits /\ N \in SUBSET Deposits /\ M \cap N = {}
      /\ firstTransfer \in BOOLEAN /\ transferMax \in Nat
      /\ \A d \in Deposits : Arrives[d] \in Nat
  BY DEF TypeOK, RelayPermits
<1>2. /\ May \in [Deposits -> Nat]
      /\ \A d \in Deposits : May[d] \in Nat /\ May[d] <= Arrives[d]
  BY MayIsNat
<1>3. /\ relay.of = M \cup N /\ relay.of \subseteq arrived
      /\ level <= T /\ T <= transferMax
      /\ F = T + (IF nonce > 0 THEN 0 ELSE A)
  <2>1. T = IF nonce > 0 THEN F ELSE F - A
    BY DEF RelayLevel
  <2> QED
    BY <1>1, <2>1 DEF RelaySized
<1>4. V + F >= SumOver(Arrives, N)
  <2> DEFINE R == arrived \ relay.of
             aN == SumOver(Arrives, N)
             aR == SumOver(Arrives, R)
  <2>1. arrived \ moved = N \cup R /\ N \cap R = {} /\ R \in SUBSET Deposits
    BY <1>3 DEF TypeOK
  <2>2. Arrives \in [Deposits -> Nat]
    OBVIOUS
  <2>3. SumOver(Arrives, N \cup R) = aN + aR
    BY <1>1, <2>1, <2>2, SumsJoin
  <2>4. SumOver(Arrives, arrived \ moved) = aN + aR
    BY <2>1, <2>3
  <2>5. aN \in Nat /\ aR \in Nat
    BY <1>1, <1>2, <2>1, SumsFit
  <2>6. balance = V + F + aR /\ balance >= SumOver(Arrives, arrived \ moved)
    BY DEF RelaySized, StillThere
  <2> HIDE DEF R, aN, aR, N, V, F
  <2>7. V + F >= aN
    BY <1>1, <2>4, <2>5, <2>6
  <2> QED
    BY <2>7 DEF aN
<1>5. /\ \A d \in N : V >= SumOver(May, N \ {d}) + Arrives[d] - F
      /\ \A d \in N : V >= sN + (Arrives[d] - May[d]) - F
      /\ \A d, e \in N : d # e => V >= SumOver(May, N \ {d}) + Arrives[d] + (Arrives[e] - May[e]) - F
      /\ (\A d \in N : May[d] = 0) => sN = 0
  <2> HIDE DEF N, V, F
  <2> QED
    BY <1>1, <1>2, <1>4, PermitTakes
<1>6. /\ sM \in Nat /\ sN \in Nat
      /\ \A d \in M : SumOver(May, M \ {d}) \in Nat
      /\ \A d \in N : SumOver(May, N \ {d}) \in Nat
  BY <1>1, <1>2, SumsFit
<1>7. /\ SumOver(May, relay.of) = sM + sN
      /\ \A d \in M : SumOver(May, relay.of \ {d}) = SumOver(May, M \ {d}) + sN
      /\ \A d \in N : SumOver(May, relay.of \ {d}) = sM + SumOver(May, N \ {d})
  <2>1. /\ SumOver(May, M \cup N) = sM + sN
        /\ \A d \in M : SumOver(May, (M \cup N) \ {d}) = SumOver(May, M \ {d}) + sN
        /\ \A d \in N : SumOver(May, (M \cup N) \ {d}) = sM + SumOver(May, N \ {d})
    BY <1>1, <1>2, SumsJoin
  <2> QED
    BY <1>3, <2>1
<1>8. /\ collected >= sM - A
      /\ \A d \in M : collected >= AllOf(d) - A - level
      /\ \A d \in M : Spared(d) => collected >= AllOf(d) - level
      /\ firstTransfer \/ M \cap Verified # {} => collected >= sM
      /\ \A d \in M : AllOf(d) = SumOver(May, M \ {d}) + Arrives[d]
  BY DEF Paid, AllOf
<1>9. nonce = 0 => M = {} /\ ~firstTransfer /\ collected = 0 /\ sM = 0
  <2>1. nonce = 0 => M = {} /\ collected = 0
    BY DEF HoldsSuffice
  <2>2. nonce = 0 => ~firstTransfer
    BY DEF HoldInv, RecordImpliesActive, TypeOK
  <2>3. SumOver(May, {}) = 0
    BY SumEmpty
  <2> QED
    BY <2>1, <2>2, <2>3
\* Who pays for the permit.
<1>10. \/ Lowest(T)
       \/ \E p \in (Verified \cap relay.of) \ swept : Arrives[p] - May[p] >= Hold(T)
  <2>1. ASSUME NEW p \in Verified, feeHeld[p] >= Hold(T) PROVE Arrives[p] - May[p] >= Hold(T)
    <3>1. p \in Deposits /\ feeHeld[p] \in Nat
      BY DEF Verified, TypeOK
    <3>2. Arrives[p] - May[p] = feeHeld[p]
      BY <1>1, <3>1 DEF May, MayMint, Minted
    <3> QED
      BY <2>1, <3>2
  <2> QED
    BY <2>1 DEF RelaySized, RelayPayer
<1>11. /\ Hold(level) = IF firstTransfer THEN level ELSE A + level
       /\ Hold(T) = IF firstTransfer THEN T ELSE A + T
  BY DEF Hold
<1>12. \A d \in N :
         /\ d \in Verified => Arrives[d] - May[d] >= Hold(level)
         /\ d \in Verified /\ Lowest(T) => Arrives[d] - May[d] >= Hold(T)
         /\ May[d] = 0 \/ Arrives[d] - May[d] >= level
         /\ Lowest(T) => May[d] = 0 \/ Arrives[d] - May[d] >= T
  BY <1>1, <1>3, UnmovedPays
<1> HIDE DEF M, N, V, F, sM, sN, A
<1>13. V >= sN + level - F
  <2>1. CASE \A d \in N : May[d] = 0
    BY <1>1, <1>3, <1>5, <2>1
  <2>2. ASSUME NEW d \in N, May[d] # 0 PROVE V >= sN + level - F
    <3>1. Arrives[d] - May[d] >= level /\ V >= sN + (Arrives[d] - May[d]) - F
      BY <1>5, <1>12, <2>2
    <3>2. Arrives[d] \in Nat /\ May[d] \in Nat
      BY <1>1, <1>2
    <3> QED
      BY <1>1, <1>6, <3>1, <3>2
  <2> QED
    BY <2>1, <2>2
\* With the lowest maximum, or paid for by a deposit it moves, the permit costs nobody else.
<1>14. ASSUME NEW k \in Nat, \E d \in N : Arrives[d] - May[d] >= k
       PROVE  V >= sN + k - F
  <2>1. PICK d \in N : Arrives[d] - May[d] >= k
    BY <1>14
  <2>2. V >= sN + (Arrives[d] - May[d]) - F /\ Arrives[d] \in Nat /\ May[d] \in Nat
    BY <1>1, <1>2, <1>5
  <2> QED
    BY <1>1, <1>6, <2>1, <2>2
<1>15. Lowest(T) => V >= sN + T - F
  <2>1. ASSUME Lowest(T), \A d \in N : May[d] = 0 PROVE V >= sN + T - F
    BY <1>1, <1>3, <1>5, <2>1
  <2>2. ASSUME Lowest(T), NEW d \in N, May[d] # 0 PROVE V >= sN + T - F
    BY <1>12, <1>14, <2>2
  <2> QED
    BY <2>1, <2>2
\* Paid for by one moved before, it costs what that one left over.
<1>16. ASSUME NEW p \in M, p \notin swept, Arrives[p] - May[p] >= Hold(T)
       PROVE  collected >= sM + T - level
  <2> DEFINE r == SumOver(May, M \ {p})
  <2>1. sM = May[p] + r
    <3>1. IsFiniteSet(M) /\ \A x \in M : May[x] \in Int
      BY <1>1, <1>2, SumsFit
    <3> QED
      BY <3>1, SumRemove DEF sM
  <2>2. Arrives[p] \in Nat /\ May[p] \in Nat /\ r \in Nat /\ AllOf(p) = r + Arrives[p]
    BY <1>1, <1>2, <1>6, <1>8
  <2>3. /\ collected >= AllOf(p) - A - level
        /\ firstTransfer => collected >= AllOf(p) - level
    BY <1>8, <1>16 DEF Spared
  <2> HIDE DEF r
  <2> QED
    BY <1>1, <1>11, <1>16, <2>1, <2>2, <2>3
<1>17. ASSUME NEW p \in (Verified \cap relay.of) \ swept, Arrives[p] - May[p] >= Hold(T)
       PROVE  \/ p \in N /\ V >= sN + T - F
              \/ p \in M /\ nonce # 0 /\ collected + V >= sM + sN
  <2>1. CASE p \in N
    <3>1. p \in Deposits /\ Arrives[p] \in Nat /\ May[p] \in Nat
      BY <1>1, <1>2, <2>1
    <3>2. Arrives[p] - May[p] >= T
      BY <1>1, <1>11, <1>17, <3>1
    <3>3. \E e \in N : Arrives[e] - May[e] >= T
      BY <2>1, <3>2
    <3> QED
      BY <1>14, <2>1, <3>3
  <2>2. CASE p \in M
    <3>1. nonce # 0 /\ collected >= sM + T - level
      BY <1>9, <1>16, <1>17, <2>2
    <3>2. F = T
      BY <1>1, <1>3, <3>1
    <3> QED
      BY <1>1, <1>6, <1>13, <2>2, <3>1, <3>2
  <2> QED
    BY <1>3, <1>17, <2>1, <2>2
<1>18. V >= sN + T - F \/ (nonce # 0 /\ collected + V >= sM + sN)
  BY <1>10, <1>15, <1>17
<1>19. collected + V >= sM + sN - A
  BY <1>1, <1>3, <1>6, <1>8, <1>9, <1>18
<1>20. firstTransfer \/ relay.of \cap Verified # {} => collected + V >= sM + sN
  <2>1. CASE firstTransfer \/ M \cap Verified # {}
    <3>1. nonce # 0 /\ collected >= sM
      BY <1>8, <1>9, <2>1
    <3> QED
      BY <1>1, <1>3, <1>6, <1>18, <3>1
  <2>2. ASSUME ~firstTransfer, M \cap Verified = {}, NEW e \in relay.of \cap Verified
        PROVE  collected + V >= sM + sN
    <3>1. e \in N
      BY <1>3, <2>2
    <3>2. \E d \in N : Arrives[d] - May[d] >= A + T
      BY <1>3, <1>10, <1>11, <1>12, <2>2, <3>1
    <3>3. V >= sN + (A + T) - F
      BY <1>1, <1>14, <3>2
    <3> QED
      BY <1>1, <1>3, <1>6, <1>8, <1>9, <3>3
  <2> QED
    BY <1>1, <2>1, <2>2
<1> DEFINE AllIn(d) == SumOver(May, relay.of \ {d}) + Arrives[d]
<1>21. ASSUME NEW d \in M
       PROVE  /\ collected + V >= AllIn(d) - A - T
              /\ Spared(d) \/ (~firstTransfer /\ \E e \in N \cap Verified : e # d)
                   => collected + V >= AllIn(d) - T
  <2> DEFINE r == SumOver(May, M \ {d})
  <2>1. /\ AllIn(d) = r + sN + Arrives[d] /\ AllOf(d) = r + Arrives[d]
        /\ r \in Nat /\ Arrives[d] \in Nat
    BY <1>1, <1>6, <1>7, <1>8
  <2>2. nonce # 0 /\ F = T
    BY <1>1, <1>3, <1>9
  <2>3. collected >= AllOf(d) - A - level /\ (Spared(d) => collected >= AllOf(d) - level)
    BY <1>8
  <2>4. ASSUME ~firstTransfer, NEW e \in N \cap Verified PROVE V >= sN + (A + level) - F
    <3>1. Arrives[e] - May[e] >= A + level
      BY <1>11, <1>12, <2>4
    <3> QED
      BY <1>1, <1>14, <3>1
  <2> HIDE DEF r, AllIn
  <2> QED
    BY <1>1, <1>6, <1>13, <2>1, <2>2, <2>3, <2>4
<1>22. ASSUME NEW d \in N
       PROVE  /\ collected + V >= AllIn(d) - A - T
              /\ firstTransfer \/ (\E e \in relay.of \cap Verified : e # d)
                   => collected + V >= AllIn(d) - T
  <2> DEFINE r == SumOver(May, N \ {d})
  <2>1. AllIn(d) = sM + r + Arrives[d] /\ r \in Nat /\ Arrives[d] \in Nat
    BY <1>1, <1>2, <1>6, <1>7
  <2>2. V >= r + Arrives[d] - F
    BY <1>5
  <2>3. ASSUME ~firstTransfer, NEW e \in N \cap Verified, e # d
        PROVE  V >= r + Arrives[d] + A - F
    <3>1. V >= r + Arrives[d] + (Arrives[e] - May[e]) - F
      BY <1>5, <2>3
    <3>2. Arrives[e] - May[e] >= A + level /\ Arrives[e] \in Nat /\ May[e] \in Nat
      BY <1>1, <1>2, <1>11, <1>12, <2>3
    <3> HIDE DEF r
    <3> QED
      BY <1>1, <2>1, <3>1, <3>2
  <2>4. firstTransfer \/ (\E e \in M \cap Verified : e # d) => nonce # 0 /\ collected >= sM
    BY <1>8, <1>9
  <2>5. firstTransfer \/ (\E e \in relay.of \cap Verified : e # d)
          => \/ firstTransfer \/ (\E e \in M \cap Verified : e # d)
             \/ ~firstTransfer /\ \E e \in N \cap Verified : e # d
    BY <1>1, <1>3
  <2> HIDE DEF r, AllIn
  <2>6. collected + V >= AllIn(d) - A - T
    BY <1>1, <1>3, <1>6, <1>8, <1>9, <2>1, <2>2
  <2>7. ASSUME nonce # 0, collected >= sM PROVE collected + V >= AllIn(d) - T
    BY <1>1, <1>3, <1>6, <2>1, <2>2, <2>7
  <2>8. ASSUME V >= r + Arrives[d] + A - F PROVE collected + V >= AllIn(d) - T
    BY <1>1, <1>3, <1>6, <1>8, <1>9, <2>1, <2>8
  <2> QED
    BY <2>3, <2>4, <2>5, <2>6, <2>7, <2>8
<1>23. ASSUME NEW d \in relay.of
       PROVE  /\ collected + V >= AllIn(d) - A - T
              /\ (IF firstTransfer THEN d \notin swept ELSE \E e \in relay.of \cap Verified : e # d)
                   => collected + V >= AllIn(d) - T
  <2>1. CASE d \in M
    <3>1. (IF firstTransfer THEN d \notin swept ELSE \E e \in relay.of \cap Verified : e # d)
            => Spared(d) \/ (~firstTransfer /\ \E e \in N \cap Verified : e # d)
      BY <1>1, <1>3 DEF Spared, M
    <3> HIDE DEF AllIn
    <3> QED
      BY <1>21, <2>1, <3>1
  <2>2. CASE d \in N
    <3> HIDE DEF AllIn
    <3> QED
      BY <1>22, <2>2
  <2> QED
    BY <1>3, <1>23, <2>1, <2>2
<1>24. /\ collected + V >= SumOver(May, relay.of) - A
       /\ firstTransfer \/ relay.of \cap Verified # {} => collected + V >= SumOver(May, relay.of)
  BY <1>1, <1>6, <1>7, <1>19, <1>20
<1> HIDE DEF AllIn
<1>25. \A d \in relay.of : collected + V >= AllIn(d) - A - T
  BY <1>23
<1>26. \A d \in relay.of :
         (IF firstTransfer THEN d \notin swept ELSE \E e \in relay.of \cap Verified : e # d)
           => collected + V >= AllIn(d) - T
  BY <1>23
<1>27. \A d \in relay.of :
         collected + relay.value >= (SumOver(May, relay.of \ {d}) + Arrives[d]) - ActivateMax - T
  BY <1>25 DEF AllIn, V, A
<1>28. \A d \in relay.of :
         (IF firstTransfer THEN d \notin swept ELSE \E e \in relay.of \cap Verified : e # d)
           => collected + relay.value >= (SumOver(May, relay.of \ {d}) + Arrives[d]) - T
  BY <1>26 DEF AllIn, V
<1> QED
  BY <1>24, <1>27, <1>28 DEF V, A

\* A step that leaves the money and what may be minted as they are, but for rows marked swept.
SameMoney ==
  /\ UNCHANGED <<Verified, May, feeHeld, firstTransfer, transferMax, moved, collected, nonce, balance, arrived>>
  /\ swept \subseteq swept'

\* And the sizes of the call the signer serves.
SameCall ==
  signer' # NoCall /\ signer'.at = "signs" =>
    /\ signer # NoCall /\ signer.at = "signs"
    /\ signer'.shown = signer.shown /\ signer'.balance = signer.balance
    /\ signer'.maxFee = signer.maxFee /\ signer'.of = signer.of

\* And the permit with the relay, and the nonces on the books; rows are marked only for a past one.
SameRelay ==
  /\ relay' = relay \/ relay' = None
  /\ swept' = swept \/ (pending # None /\ pending.nonce # nonce)
  /\ pending' # None => \/ pending # None /\ pending'.nonce = pending.nonce
                        \/ pc = "record" /\ pending'.nonce = answer.nonce
  /\ pc' = "record" => pc = "record" /\ answer' = answer

\* Whether a row is verified, and what it may mint, depends on these.
LEMMA SameRows ==
  UNCHANGED <<row, feeHeld, transferMax>> => UNCHANGED <<Verified, May>>
BY DEF Verified, May, MayMint, Minted

\* A row approved by a human or credited was verified, and stays so.
LEMMA SameVerified ==
  ASSUME TypeOK, NEW d \in Verified, NEW status \in {"approved", "credited"},
         row' = [row EXCEPT ![d] = status], UNCHANGED <<feeHeld, transferMax>>
  PROVE  UNCHANGED <<Verified, May>>
<1>1. /\ row \in [Deposits -> {"created", "approved", "held", "rejected", "credited"}]
      /\ d \in Deposits /\ row[d] \in {"approved", "held", "credited"}
  BY DEF TypeOK, Verified
<1>2. \A e \in Deposits :
        /\ row'[e] \in {"approved", "held", "credited"} <=> row[e] \in {"approved", "held", "credited"}
        /\ row'[e] = "rejected" <=> row[e] = "rejected"
  BY <1>1
<1>3. Verified' = Verified
  BY <1>2 DEF Verified
<1>4. \A e \in Deposits : MayMint(e)' = MayMint(e)
  BY <1>2, <1>3 DEF MayMint, Minted
<1> QED
  BY <1>3, <1>4 DEF May

LEMMA QuietMoney ==
  ASSUME TypeOK, TypeOK', SameMoney, NEW level \in Nat, Paid(level), StillThere
  PROVE  Paid(level)' /\ StillThere'
<1>1. \A d \in Deposits : May'[d] <= May[d]
  <2>1. \A d \in Deposits : May[d] \in Nat
    BY MayIsNat
  <2> QED
    BY <2>1 DEF SameMoney
<1>2. transferMax \in Nat /\ transferMax <= transferMax'
  BY DEF TypeOK, SameMoney
<1>3. Paid(level)'
  BY <1>1, <1>2, PaidShrinks DEF SameMoney
<1> QED
  BY <1>3 DEF SameMoney, StillThere

LEMMA QuietCall ==
  ASSUME SameMoney, SameCall, CallSized
  PROVE  CallSized'
BY DEF SameMoney, SameCall, CallSized, FeeToHold, Hold

LEMMA QuietRelay ==
  ASSUME SameMoney, SameRelay, NEW level \in Nat, RelaySized(level)
  PROVE  RelaySized(level)'
<1> SUFFICES ASSUME relay' # None PROVE RelaySized(level)'
  BY DEF RelaySized
<1>1. relay' = relay /\ RelayLevel' = RelayLevel /\ Hold(RelayLevel)' = Hold(RelayLevel)
  BY DEF SameRelay, SameMoney, RelayLevel, Hold
<1>2. RelayPayer'
  BY <1>1 DEF RelaySized, RelayPayer, SameMoney, SameRelay, Lowest
<1> QED
  BY <1>1, <1>2 DEF RelaySized, SameMoney

\* The signer sizes the call on what it reads.
LEMMA FreshCall ==
  ASSUME TypeOK, MovedInv, HoldsSuffice, SignerReads, SameMoney
  PROVE  CallSized'
<1> SUFFICES ASSUME signer'.shown = nonce' PROVE CallSized'
  BY DEF CallSized
<1>1. signer \in Calls
  BY DEF TypeOK, SignerReads
<1>2. /\ signer'.shown = shownNonce /\ signer'.balance = balance /\ signer'.of = arrived
      /\ signer'.maxFee = FeeToHold(shownNonce > 0) /\ shownNonce = nonce
  BY <1>1 DEF SignerReads, Calls, SameMoney
<1>3. FeeToHold(nonce > 0)' = FeeToHold(nonce > 0)
  BY DEF SameMoney, FeeToHold
<1>4. moved' \subseteq signer'.of /\ signer'.of \subseteq arrived'
  BY <1>2 DEF HoldsSuffice, SameMoney
<1>5. balance' = signer'.balance + SumOver(Arrives, arrived' \ signer'.of)
  <2>1. arrived' \ signer'.of = {}
    BY <1>2 DEF SameMoney
  <2>2. SumOver(Arrives, arrived' \ signer'.of) = 0
    BY <2>1, SumEmpty
  <2> QED
    BY <1>2, <2>2 DEF TypeOK, SameMoney
<1>6. Verified' \ signer'.of = {}
  BY <1>2 DEF MovedInv, OnChain, Verified, SameMoney
<1> QED
  BY <1>2, <1>3, <1>4, <1>5, <1>6 DEF CallSized

\* What it signs moves what it read, and a deposit pays for it; unless another permit ran since.
LEMMA PermitSized ==
  ASSUME TypeOK, CallSized, HoldsSuffice, NEW level \in Nat, level <= transferMax, ~outrun',
         signer # NoCall, signer.at = "signs", ~InFlight, Submitted,
         UNCHANGED <<signerKeeps>>, SameMoney,
         pc' = "record" => answer'.nonce = nonce \/ (pc = "record" /\ answer' = answer)
  PROVE  RelaySized(level)'
<1>1. signer \in Calls /\ shownNonce = nonce /\ signer.shown = nonce /\ nonce \in Nat /\ transferMax \in Nat
  BY DEF TypeOK, InFlight, Submitted
<1>2. /\ signer.maxFee = FeeToHold(nonce > 0)
      /\ moved \subseteq signer.of /\ signer.of \subseteq arrived
      /\ balance = signer.balance + SumOver(Arrives, arrived \ signer.of)
      /\ \A d \in Verified \ signer.of : feeHeld[d] >= Hold(transferMax)
  BY <1>1 DEF CallSized
<1>3. /\ relay'.value = signer.balance - signer.maxFee /\ relay'.maxFee = signer.maxFee
      /\ relay'.of = signer.of
  BY DEF Submitted, NextPermit
<1>4. RelayLevel' = transferMax /\ Hold(RelayLevel)' = Hold(transferMax)
  <2>1. nonce' = nonce /\ firstTransfer' = firstTransfer
    BY DEF SameMoney
  <2>2. RelayLevel' = transferMax
    BY <1>1, <1>2, <1>3, <2>1 DEF RelayLevel, FeeToHold
  <2> QED
    BY <2>1, <2>2 DEF Hold
<1>5. RelayPayer'
  <2>1. \/ Lowest(transferMax)
        \/ /\ pending = None /\ pc # "record"
           /\ \E d \in Verified \ swept : feeHeld[d] >= Hold(transferMax) /\ d \in signer.of
    BY DEF HoldsSuffice, CallPayer
  <2>2. Lowest(RelayLevel)' <=> Lowest(transferMax)
    BY <1>4 DEF Lowest
  <2>3. UNCHANGED <<pending, swept, Verified, feeHeld, nonce>>
    BY DEF SameMoney
  <2> QED
    BY <1>3, <1>4, <2>1, <2>2, <2>3 DEF RelayPayer
<1>6. balance = (signer.balance - signer.maxFee) + signer.maxFee + SumOver(Arrives, arrived \ signer.of)
  <2>1. signer.balance \in Nat /\ signer.maxFee \in Nat /\ signer.of \in SUBSET Deposits
    BY <1>1 DEF Calls
  <2>2. SumOver(Arrives, arrived \ signer.of) \in Nat
    <3>1. arrived \ signer.of \in SUBSET Deposits
      BY DEF TypeOK
    <3>2. IsFiniteSet(arrived \ signer.of) /\ \A d \in arrived \ signer.of : Arrives[d] \in Nat
      BY <3>1, FinitelyMany, FS_Subset
    <3> QED
      BY <3>2, SumIsNat
  <2> QED
    BY <1>2, <2>1, <2>2
<1> QED
  BY <1>1, <1>2, <1>3, <1>4, <1>5, <1>6 DEF RelaySized, SameMoney

\* What a deposit may mint falls when the verifier decides, by the activation if that may be due.
LEMMA DecisionShrinks ==
  ASSUME TypeOK, TypeOK', HoldsSuffice, VerifierDecides
  PROVE  /\ Verified \subseteq Verified' /\ Verified' \ Verified \subseteq {verdict.of}
         /\ \A d \in Verified : d # verdict.of /\ feeHeld'[d] = feeHeld[d]
         /\ \A d \in Deposits : May'[d] <= May[d]
         /\ verdict.of \in Verified' =>
              /\ feeHeld'[verdict.of] \in Nat /\ feeHeld'[verdict.of] >= Hold(transferMax)
              /\ ~firstTransfer => May'[verdict.of] + ActivateMax <= May[verdict.of]
<1> DEFINE of == verdict.of
           cap == Arrives[of] - verdict.fee
           amount == IF Proposed[of] < cap THEN Proposed[of] ELSE cap
<1>1. /\ of \in Deposits /\ verdict.fee \in Nat /\ row[of] = "created" /\ verdict.fee >= Hold(transferMax)
      /\ row \in [Deposits -> {"created", "approved", "held", "rejected", "credited"}]
      /\ feeHeld \in [Deposits -> Nat] /\ transferMax \in Nat /\ transferMax' = transferMax
      /\ Arrives[of] \in Nat /\ Proposed[of] \in Nat /\ firstTransfer \in BOOLEAN
  BY DEF VerifierDecides, TypeOK, HoldsSuffice
<1>2. /\ of \notin Verified
      /\ \A d \in Deposits : d # of => row'[d] = row[d] /\ feeHeld'[d] = feeHeld[d]
  BY <1>1 DEF VerifierDecides, Verified
<1>3. /\ Verified \subseteq Verified' /\ Verified' \ Verified \subseteq {of}
      /\ \A d \in Verified : d # of /\ feeHeld'[d] = feeHeld[d]
  BY <1>2 DEF Verified
<1>4. \/ row'[of] = "rejected" /\ of \notin Verified'
      \/ of \in Verified' /\ cap >= 1 /\ feeHeld'[of] = Arrives[of] - amount
  BY <1>1 DEF VerifierDecides, DepositMint, Verified
<1>5. May[of] = IF Arrives[of] <= transferMax THEN 0 ELSE Arrives[of] - transferMax
  BY <1>1, <1>2 DEF May, MayMint
<1>6. ASSUME of \in Verified'
      PROVE  /\ feeHeld'[of] \in Nat /\ feeHeld'[of] >= Hold(transferMax)
             /\ May'[of] <= May[of]
             /\ ~firstTransfer => May'[of] + ActivateMax <= May[of]
  <2>1. feeHeld'[of] = Arrives[of] - amount /\ cap >= 1
    BY <1>4, <1>6
  <2>2. May'[of] = Arrives[of] - feeHeld'[of]
    BY <1>1, <1>6 DEF May, MayMint, Minted
  <2>3. amount \in Int /\ cap \in Int /\ amount <= cap /\ amount <= Arrives[of]
    BY <1>1
  <2>4. Hold(transferMax) = (IF firstTransfer THEN transferMax ELSE ActivateMax + transferMax)
    BY DEF Hold
  <2>5. feeHeld'[of] >= verdict.fee /\ feeHeld'[of] \in Nat /\ May'[of] = amount
    BY <1>1, <2>1, <2>2, <2>3
  <2>6. Arrives[of] >= 1 + verdict.fee /\ amount <= Arrives[of] - verdict.fee
    BY <1>1, <2>1, <2>3
  <2> HIDE DEF cap, amount
  <2> QED
    BY <1>1, <1>5, <2>3, <2>4, <2>5, <2>6
<1>7. ASSUME of \notin Verified' PROVE May'[of] <= May[of]
  <2>1. May'[of] = 0
    BY <1>1, <1>4, <1>7 DEF May, MayMint
  <2>2. May[of] \in Nat
    BY <1>1, MayIsNat
  <2> QED
    BY <2>1, <2>2
<1>8. ASSUME NEW d \in Deposits, d # of PROVE May'[d] = May[d] /\ May[d] \in Nat
  <2>1. d \in Verified' <=> d \in Verified
    BY <1>3, <1>8
  <2> QED
    BY <1>1, <1>2, <1>8, <2>1, MayIsNat DEF May, MayMint, Minted
<1> QED
  BY <1>3, <1>6, <1>7, <1>8

LEMMA OutrunStays ==
  ASSUME TypeOK, [Next]_vars, ~outrun'
  PROVE  ~outrun
BY DEF Next, vars, Verifier, Settle, Sweep, Signer, VerifierReads, VerifierDecides, VerifierFails, ApproveHeld,
       Credit, Arrive, SeesItRan, SeesItExpired, NothingToSettle, MarkSwept, ClearSettled, ClearExpired,
       SettleWriteFails, AskForPermit, EndPass, RecordPermit, RecordFails, Crash, StrayCall, SignerReads,
       SignerFindsTooLittle, SignerSubmits, AnswerIsLost, SignerSignsNothing, Submitted, Run, Dies, Close, Lapse,
       Show, RaiseMaximum

\* Every action keeps the reserve, where no permit is signed on a balance that another one changed.
LEMMA ReservePreserved ==
  TypeOK /\ TypeOK' /\ MovedInv /\ HoldInv /\ HoldsSuffice /\ ReserveInv /\ [Next]_vars => ReserveInv'
<1> SUFFICES ASSUME TypeOK, TypeOK', MovedInv, HoldInv, HoldsSuffice, ReserveInv, [Next]_vars, ~outrun'
             PROVE  StillThere' /\ CallSized' /\ \E level \in Nat : Paid(level)' /\ RelaySized(level)'
  BY DEF ReserveInv
<1>0. StillThere /\ CallSized /\ \E level \in Nat : Paid(level) /\ RelaySized(level)
  BY OutrunStays DEF ReserveInv
<1> PICK level \in Nat : Paid(level) /\ RelaySized(level)
  BY <1>0
<1> DEFINE Kept == StillThere' /\ CallSized' /\ \E l \in Nat : Paid(l)' /\ RelaySized(l)'
<1>100. ASSUME SameMoney, SameCall, SameRelay PROVE Kept
  BY <1>0, <1>100, QuietMoney, QuietCall, QuietRelay
<1> USE DEF MovedInv, InPass, OneNonce
<1>1. ASSUME NEW d \in Deposits, VerifierReads(d) PROVE Kept
  BY <1>1, <1>100, SameRows DEF VerifierReads, HoldFor, SameMoney, SameCall, SameRelay
<1>2. ASSUME VerifierDecides PROVE Kept
  <2> DEFINE of == verdict.of
  <2>1. /\ Verified \subseteq Verified' /\ Verified' \ Verified \subseteq {of}
        /\ \A d \in Verified : d # of /\ feeHeld'[d] = feeHeld[d]
        /\ \A d \in Deposits : May'[d] <= May[d]
        /\ of \in Verified' => feeHeld'[of] \in Nat /\ feeHeld'[of] >= Hold(transferMax)
        /\ of \in Verified' /\ ~firstTransfer => May'[of] + ActivateMax <= May[of]
    BY <1>2, DecisionShrinks
  <2>2. /\ UNCHANGED <<swept, firstTransfer, transferMax, moved, collected, nonce, balance, arrived>>
        /\ UNCHANGED <<pending, pc, answer, signer, relay>>
    BY <1>2 DEF VerifierDecides
  <2>3. Paid(level)'
    <3>1. transferMax \in Nat /\ transferMax <= transferMax' /\ swept \subseteq swept'
      BY <2>2 DEF TypeOK
    <3>2. \A d \in Verified' \ Verified : /\ feeHeld'[d] >= Hold(transferMax)
                                          /\ ~firstTransfer => May'[d] + ActivateMax <= May[d]
      BY <2>1
    <3> QED
      BY <2>1, <2>2, <3>1, <3>2, PaidShrinks
  <2>30. transferMax \in Nat
    BY DEF TypeOK
  <2>4. transferMax \in Nat /\ Hold(transferMax) \in Nat
    BY <2>30 DEF Hold
  <2>5. CallSized'
    <3>1. Hold(transferMax)' = Hold(transferMax) /\ FeeToHold(nonce > 0)' = FeeToHold(nonce > 0)
      BY <2>2 DEF Hold, FeeToHold
    <3>2. ASSUME NEW of2 \in SUBSET Deposits, \A d \in Verified \ of2 : feeHeld[d] >= Hold(transferMax)
          PROVE  \A d \in Verified' \ of2 : feeHeld'[d] >= Hold(transferMax)
      BY <2>1, <3>2
    <3>3. signer # NoCall => signer \in Calls
      BY DEF TypeOK
    <3> QED
      BY <1>0, <2>2, <3>1, <3>2, <3>3 DEF CallSized, Calls
  <2>6. RelaySized(level)'
    <3> SUFFICES ASSUME relay # None PROVE RelaySized(level)'
      BY <2>2 DEF RelaySized
    <3>1. RelayLevel' = RelayLevel /\ Hold(RelayLevel)' = Hold(RelayLevel)
      BY <2>2 DEF RelayLevel, Hold
    <3>2. of \in Verified' => feeHeld'[of] >= Hold(RelayLevel)
      <4>1. RelayLevel \in Int /\ RelayLevel <= transferMax
        BY DEF RelaySized, RelayLevel, TypeOK, RelayPermits
      <4> QED
        BY <2>1, <2>4, <4>1 DEF Hold
    <3>3. RelayPayer'
      BY <2>1, <2>2, <3>1 DEF RelaySized, RelayPayer, Lowest
    <3> QED
      BY <2>1, <2>2, <3>1, <3>2, <3>3 DEF RelaySized
  <2> QED
    BY <1>0, <2>2, <2>3, <2>5, <2>6 DEF StillThere
<1>3. ASSUME VerifierFails PROVE Kept
  BY <1>3, <1>100, SameRows DEF VerifierFails, SameMoney, SameCall, SameRelay
<1>4. ASSUME NEW d \in Deposits, ApproveHeld(d) PROVE Kept
  <2>1. d \in Verified /\ row' = [row EXCEPT ![d] = "approved"] /\ UNCHANGED <<feeHeld, transferMax>>
    BY <1>4 DEF ApproveHeld, Verified
  <2>2. UNCHANGED <<Verified, May>>
    BY <2>1, SameVerified
  <2> QED
    BY <1>4, <1>100, <2>2 DEF ApproveHeld, SameMoney, SameCall, SameRelay
<1>5. ASSUME NEW d \in Deposits, Credit(d) PROVE Kept
  <2>1. d \in Verified /\ row' = [row EXCEPT ![d] = "credited"] /\ UNCHANGED <<feeHeld, transferMax>>
    BY <1>5 DEF Credit, Verified
  <2>2. UNCHANGED <<Verified, May>>
    BY <2>1, SameVerified
  <2> QED
    BY <1>5, <1>100, <2>2 DEF Credit, SameMoney, SameCall, SameRelay
<1>6. ASSUME NEW d \in Deposits, Arrive(d) PROVE Kept
  <2>1. /\ UNCHANGED <<row, feeHeld, swept, firstTransfer, transferMax, moved, collected, nonce>>
        /\ UNCHANGED <<pending, pc, answer, signer, relay, Verified, May>>
        /\ d \notin arrived /\ arrived' = arrived \cup {d} /\ balance' = balance + Arrives[d]
    BY <1>6, SameRows DEF Arrive
  <2>2. Paid(level)'
    <3>1. transferMax \in Nat /\ \A e \in Deposits : May[e] \in Nat
      BY MayIsNat DEF TypeOK
    <3> QED
      BY <2>1, <3>1, PaidShrinks
  <2>3. ASSUME NEW S \in SUBSET arrived
        PROVE  /\ SumOver(Arrives, arrived' \ S) = Arrives[d] + SumOver(Arrives, arrived \ S)
               /\ SumOver(Arrives, arrived \ S) \in Nat
    <3>1. arrived \ S \in SUBSET Deposits /\ d \notin arrived \ S
      BY <2>1 DEF TypeOK
    <3>2. IsFiniteSet(arrived \ S) /\ \A e \in arrived \ S : Arrives[e] \in Nat
      BY <3>1, FinitelyMany, FS_Subset
    <3>3. SumOver(Arrives, (arrived \ S) \cup {d}) = Arrives[d] + SumOver(Arrives, arrived \ S)
      BY <3>1, <3>2, SumAdd
    <3>4. arrived' \ S = (arrived \ S) \cup {d}
      BY <2>1, <2>3
    <3> QED
      BY <3>2, <3>3, <3>4, SumIsNat
  <2>4. Arrives[d] \in Nat /\ balance \in Nat
    BY DEF TypeOK
  <2>5. StillThere'
    <3>1. moved \in SUBSET arrived
      BY DEF HoldsSuffice
    <3>2. /\ SumOver(Arrives, arrived' \ moved) = Arrives[d] + SumOver(Arrives, arrived \ moved)
          /\ SumOver(Arrives, arrived \ moved) \in Nat
      BY <2>3, <3>1
    <3>3. balance >= SumOver(Arrives, arrived \ moved)
      BY <1>0 DEF StillThere
    <3>4. balance' >= SumOver(Arrives, arrived' \ moved)
      BY <2>1, <2>4, <3>2, <3>3
    <3> QED
      BY <2>1, <3>4 DEF StillThere
  <2>6. CallSized'
    <3> SUFFICES ASSUME signer # NoCall, signer.at = "signs", signer.shown = nonce PROVE CallSized'
      BY <2>1 DEF CallSized
    <3>1. signer.balance \in Nat /\ signer.of \in SUBSET arrived
      BY <1>0 DEF CallSized, TypeOK, Calls
    <3>2. balance' = signer.balance + SumOver(Arrives, arrived' \ signer.of)
      <4>1. /\ SumOver(Arrives, arrived' \ signer.of) = Arrives[d] + SumOver(Arrives, arrived \ signer.of)
            /\ SumOver(Arrives, arrived \ signer.of) \in Nat
        BY <2>3, <3>1
      <4>2. balance = signer.balance + SumOver(Arrives, arrived \ signer.of)
        BY <1>0 DEF CallSized
      <4> QED
        BY <2>1, <2>4, <3>1, <4>1, <4>2
    <3>3. Hold(transferMax)' = Hold(transferMax) /\ FeeToHold(nonce > 0)' = FeeToHold(nonce > 0)
      BY <2>1 DEF Hold, FeeToHold
    <3> QED
      BY <1>0, <2>1, <3>2, <3>3 DEF CallSized
  <2>7. RelaySized(level)'
    <3> SUFFICES ASSUME relay # None PROVE RelaySized(level)'
      BY <2>1 DEF RelaySized
    <3>1. relay.value \in Nat /\ relay.maxFee \in Nat /\ relay.of \in SUBSET arrived
      BY DEF RelaySized, TypeOK, RelayPermits
    <3>2. balance' = relay.value + relay.maxFee + SumOver(Arrives, arrived' \ relay.of)
      <4>1. /\ SumOver(Arrives, arrived' \ relay.of) = Arrives[d] + SumOver(Arrives, arrived \ relay.of)
            /\ SumOver(Arrives, arrived \ relay.of) \in Nat
        BY <2>3, <3>1
      <4>2. balance = relay.value + relay.maxFee + SumOver(Arrives, arrived \ relay.of)
        BY DEF RelaySized
      <4> QED
        BY <2>1, <2>4, <3>1, <4>1, <4>2
    <3>3. RelayLevel' = RelayLevel /\ Hold(RelayLevel)' = Hold(RelayLevel)
      BY <2>1 DEF RelayLevel, Hold
    <3>4. RelayPayer'
      BY <2>1, <3>3 DEF RelaySized, RelayPayer, Lowest
    <3> QED
      BY <2>1, <3>2, <3>3, <3>4 DEF RelaySized
  <2> QED
    BY <2>2, <2>5, <2>6, <2>7
<1>7. ASSUME SeesItRan PROVE Kept
  BY <1>7, <1>100, SameRows DEF SeesItRan, SameMoney, SameCall, SameRelay
<1>8. ASSUME SeesItExpired PROVE Kept
  BY <1>8, <1>100, SameRows DEF SeesItExpired, SameMoney, SameCall, SameRelay
<1>9. ASSUME NothingToSettle PROVE Kept
  BY <1>9, <1>100, SameRows DEF NothingToSettle, SameMoney, SameCall, SameRelay
<1>10. ASSUME MarkSwept PROVE Kept
  <2>1. pending # None /\ pending.nonce # nonce
    BY <1>10 DEF MarkSwept, TypeOK, PendingPermits
  <2> QED
    BY <1>10, <1>100, <2>1, SameRows DEF MarkSwept, SameMoney, SameCall, SameRelay
<1>11. ASSUME ClearSettled PROVE Kept
  <2>1. /\ UNCHANGED <<row, feeHeld, swept, transferMax, moved, collected, nonce, balance, arrived>>
        /\ UNCHANGED <<answer, signer, relay, Verified, May>>
        /\ firstTransfer' = TRUE /\ pending' = None /\ pc' = "list"
    BY <1>11, SameRows DEF ClearSettled
  <2>2. \E e \in moved \cap Verified : e \in swept
    BY <1>11 DEF ClearSettled, HoldsSuffice, SweptWasMoved
  <2>3. \A m \in Nat : Hold(m)' = m /\ Hold(m) >= m /\ Hold(m) \in Nat
    BY <2>1 DEF Hold
  <2>4. Paid(level)'
    <3>1. \A d \in Verified \ moved : feeHeld[d] >= level
      BY <2>3 DEF Paid, Verified, TypeOK
    <3>2. \A d \in moved : AllOf(d)' = AllOf(d) /\ (d \notin swept => Spared(d))
      BY <2>1, <2>2 DEF AllOf, Spared
    <3>3. /\ \A d \in moved : collected >= AllOf(d) - ActivateMax - level
          /\ \A d \in moved : d \notin swept => collected >= AllOf(d) - level
      BY <3>2 DEF Paid
    <3>4. \A d \in moved : Spared(d)' => d \notin swept
      BY <2>1 DEF Spared
    <3>5. collected >= SumOver(May, moved) /\ collected >= SumOver(May, moved) - ActivateMax /\ level <= transferMax
      BY <2>2 DEF Paid
    <3> QED
      BY <2>1, <2>3, <3>1, <3>2, <3>3, <3>4, <3>5 DEF Paid
  <2>5. CallSized'
    <3>1. transferMax \in Nat /\ \A d \in Verified : feeHeld[d] \in Nat
      BY DEF TypeOK, Verified
    <3>2. Hold(transferMax)' = transferMax /\ FeeToHold(nonce > 0)' = FeeToHold(nonce > 0)
      BY <2>1 DEF Hold, FeeToHold
    <3>3. \A d \in Verified : feeHeld[d] >= Hold(transferMax) => feeHeld[d] >= transferMax
      BY <2>3, <3>1
    <3> QED
      BY <1>0, <2>1, <3>2, <3>3 DEF CallSized
  <2>6. RelaySized(level)'
    <3> SUFFICES ASSUME relay # None PROVE RelaySized(level)'
      BY <2>1 DEF RelaySized
    <3>1. RelayLevel' = RelayLevel /\ RelayLevel \in Nat
      BY <2>1 DEF RelaySized, RelayLevel, TypeOK, RelayPermits
    <3>2. Hold(RelayLevel)' = RelayLevel
      BY <2>1, <3>1 DEF Hold
    <3>3. \A d \in Verified : feeHeld[d] >= Hold(RelayLevel) => feeHeld[d] >= RelayLevel
      BY <2>3, <3>1 DEF TypeOK, Verified
    <3>4. RelayPayer'
      BY <2>1, <3>1, <3>2, <3>3 DEF RelaySized, RelayPayer, Lowest
    <3> QED
      BY <2>1, <3>1, <3>2, <3>3, <3>4 DEF RelaySized
  <2> QED
    BY <1>0, <2>1, <2>4, <2>5, <2>6 DEF StillThere
<1>12. ASSUME ClearExpired PROVE Kept
  BY <1>12, <1>100, SameRows DEF ClearExpired, SameMoney, SameCall, SameRelay
<1>13. ASSUME SettleWriteFails PROVE Kept
  BY <1>13, <1>100, SameRows DEF SettleWriteFails, SameMoney, SameCall, SameRelay
<1>14. ASSUME AskForPermit PROVE Kept
  BY <1>14, <1>100, SameRows DEF AskForPermit, SameMoney, SameCall, SameRelay
<1>15. ASSUME EndPass PROVE Kept
  BY <1>15, <1>100, SameRows DEF EndPass, SameMoney, SameCall, SameRelay
<1>16. ASSUME RecordPermit PROVE Kept
  BY <1>16, <1>100, SameRows DEF RecordPermit, SameMoney, SameCall, SameRelay
<1>17. ASSUME RecordFails PROVE Kept
  BY <1>17, <1>100, SameRows DEF RecordFails, SameMoney, SameCall, SameRelay
<1>18. ASSUME Crash PROVE Kept
  BY <1>18, <1>100, SameRows DEF Crash, SameMoney, SameCall, SameRelay
<1>19. ASSUME StrayCall PROVE Kept
  BY <1>19, <1>100, SameRows DEF StrayCall, SameMoney, SameCall, SameRelay
<1>20. ASSUME SignerReads PROVE Kept
  <2>1. SameMoney /\ SameRelay
    BY <1>20, SameRows DEF SignerReads, SameMoney, SameRelay
  <2>2. CallSized'
    BY <1>20, <2>1, FreshCall
  <2> QED
    BY <1>0, <2>1, <2>2, QuietMoney, QuietRelay
<1>21. ASSUME SignerFindsTooLittle PROVE Kept
  BY <1>21, <1>100, SameRows DEF SignerFindsTooLittle, AnswerNothing, SameMoney, SameCall, SameRelay
<1>22. ASSUME SignerSubmits PROVE Kept
  <2>1. SameMoney /\ signer' = NoCall
    BY <1>22, SameRows DEF SignerSubmits, SameMoney
  <2>2. RelaySized(level)'
    <3>1. pc' = "record" => answer'.nonce = nonce \/ (pc = "record" /\ answer' = answer)
      BY <1>22 DEF SignerSubmits, NextPermit, InFlight
    <3> QED
      BY <1>0, <1>22, <2>1, <3>1, PermitSized DEF SignerSubmits, Paid
  <2> QED
    BY <1>0, <2>1, <2>2, QuietMoney DEF CallSized
<1>23. ASSUME AnswerIsLost PROVE Kept
  <2>1. SameMoney /\ signer' = NoCall
    BY <1>23, SameRows DEF AnswerIsLost, AnswerNothing, SameMoney
  <2>2. RelaySized(level)'
    BY <1>0, <1>23, <2>1, PermitSized DEF AnswerIsLost, AnswerNothing, Paid
  <2> QED
    BY <1>0, <2>1, <2>2, QuietMoney DEF CallSized
<1>24. ASSUME SignerSignsNothing PROVE Kept
  BY <1>24, <1>100, SameRows DEF SignerSignsNothing, AnswerNothing, SameMoney, SameCall, SameRelay
<1>25. ASSUME Run PROVE Kept
  <2>1. /\ UNCHANGED <<row, feeHeld, swept, firstTransfer, transferMax, arrived, signer, Verified, May>>
        /\ relay # None /\ relay' = None /\ nonce' = nonce + 1
        /\ collected' = collected + relay.value
    BY <1>25, SameRows DEF Run
  <2>2. PICK T \in Nat : T = RelayLevel
    BY <2>1 DEF RelaySized, RelayLevel, TypeOK, RelayPermits
  <2>3. moved' = relay.of
    BY <1>25, <2>1 DEF Run, RelaySized
  <2>4. Paid(T)'
    <3>1. /\ collected' >= SumOver(May, relay.of) - ActivateMax
          /\ \A d \in relay.of :
               collected' >= (SumOver(May, relay.of \ {d}) + Arrives[d]) - ActivateMax - T
          /\ \A d \in relay.of :
               (IF firstTransfer THEN d \notin swept ELSE \E e \in relay.of \cap Verified : e # d)
                 => collected' >= (SumOver(May, relay.of \ {d}) + Arrives[d]) - T
          /\ firstTransfer \/ relay.of \cap Verified # {} => collected' >= SumOver(May, relay.of)
      BY <1>0, <2>1, <2>2, RunPays
    <3>2. \A d \in relay.of : AllOf(d)' = SumOver(May, relay.of \ {d}) + Arrives[d]
      BY <2>1, <2>3 DEF AllOf
    <3>3. \A d \in relay.of :
            Spared(d)' <=> (IF firstTransfer THEN d \notin swept ELSE \E e \in relay.of \cap Verified : e # d)
      BY <2>1, <2>3 DEF Spared
    <3>4. T <= transferMax' /\ Hold(T)' = Hold(T) /\ \A d \in Verified \ relay.of : feeHeld[d] >= Hold(T)
      BY <2>1, <2>2 DEF RelaySized, Hold
    <3> QED
      BY <2>1, <2>3, <3>1, <3>2, <3>3, <3>4 DEF Paid
  <2>5. StillThere'
    <3> DEFINE rest == SumOver(Arrives, arrived \ relay.of)
    <3>1. PICK fee \in LiveFees : balance' = balance - relay.value - fee
      BY <1>25 DEF Run
    <3>2. relay.value \in Nat /\ relay.maxFee \in Nat /\ fee \in Int /\ fee <= relay.maxFee
      BY <2>1, <3>1 DEF LiveFees, TypeOK, RelayPermits
    <3>3. rest \in Nat
      <4>1. arrived \ relay.of \in SUBSET Deposits
        BY DEF TypeOK
      <4>2. IsFiniteSet(arrived \ relay.of) /\ \A e \in arrived \ relay.of : Arrives[e] \in Nat
        BY <4>1, FinitelyMany, FS_Subset
      <4> QED
        BY <4>2, SumIsNat
    <3>4. balance = relay.value + relay.maxFee + rest
      BY <2>1 DEF RelaySized
    <3>5. SumOver(Arrives, arrived' \ moved') = rest
      BY <2>1, <2>3
    <3> HIDE DEF rest
    <3> QED
      BY <3>1, <3>2, <3>3, <3>4, <3>5 DEF StillThere
  <2>6. CallSized'
    <3>1. signer # NoCall /\ signer.at = "signs" => signer.shown <= nonce /\ signer.shown \in Nat /\ nonce \in Nat
      BY DEF HoldsSuffice, CallPayer, TypeOK, Calls
    <3> QED
      BY <2>1, <3>1 DEF CallSized
  <2> QED
    BY <2>1, <2>4, <2>5, <2>6 DEF RelaySized
<1>26. ASSUME Dies PROVE Kept
  BY <1>26, <1>100, SameRows DEF Dies, SameMoney, SameCall, SameRelay
<1>27. ASSUME Close PROVE Kept
  BY <1>27, <1>100, SameRows DEF Close, SameMoney, SameCall, SameRelay
<1>28. ASSUME Lapse PROVE Kept
  BY <1>28, <1>100, SameRows DEF Lapse, SameMoney, SameCall, SameRelay
<1>29. ASSUME Show PROVE Kept
  BY <1>29, <1>100, SameRows DEF Show, SameMoney, SameCall, SameRelay
<1>30. ASSUME RaiseMaximum PROVE Kept
  <2>1. /\ UNCHANGED <<row, feeHeld, swept, firstTransfer, moved, collected, nonce, balance, arrived>>
        /\ UNCHANGED <<pending, pc, answer, relay, Verified>> /\ signer' = NoCall
        /\ transferMax \in Nat /\ transferMax' \in Nat /\ transferMax < transferMax'
    BY <1>30 DEF RaiseMaximum, Verified, TypeOK
  <2>2. ASSUME NEW d \in Deposits PROVE May'[d] <= May[d]
    <3>1. Arrives[d] \in Nat /\ feeHeld[d] \in Nat /\ May[d] \in Nat
      BY MayIsNat DEF TypeOK
    <3> QED
      BY <2>1, <3>1 DEF May, MayMint, Minted
  <2>3. Paid(level)'
    BY <2>1, <2>2, PaidShrinks
  <2>4. RelaySized(level)'
    <3> SUFFICES ASSUME relay # None PROVE RelaySized(level)'
      BY <2>1 DEF RelaySized
    <3>1. RelayLevel' = RelayLevel /\ Hold(RelayLevel)' = Hold(RelayLevel) /\ RelayLevel \in Int
      BY <2>1 DEF RelayLevel, Hold, TypeOK, RelayPermits
    <3>2. RelayPayer'
      BY <2>1, <3>1 DEF RelaySized, RelayPayer, Lowest
    <3> QED
      BY <2>1, <3>1, <3>2 DEF RelaySized
  <2> QED
    BY <1>0, <2>1, <2>3, <2>4 DEF StillThere, CallSized
<1>31. CASE UNCHANGED vars
  BY <1>31, <1>100, SameRows DEF vars, SameMoney, SameCall, SameRelay
<1> QED
  BY <1>1, <1>2, <1>3, <1>4, <1>5, <1>6, <1>7, <1>8, <1>9, <1>10, <1>11, <1>12, <1>13, <1>14,
     <1>15, <1>16, <1>17, <1>18, <1>19, <1>20, <1>21, <1>22, <1>23, <1>24, <1>25, <1>26, <1>27,
     <1>28, <1>29, <1>30, <1>31
     DEF Next, Verifier, Settle, Sweep, Signer

\* Nothing has arrived yet.
LEMMA ReserveAtFirst ==
  Init => HoldsSuffice /\ ReserveInv
<1> SUFFICES ASSUME Init PROVE HoldsSuffice /\ ReserveInv
  OBVIOUS
<1>1. /\ Verified = {} /\ moved = {} /\ arrived = {} /\ collected = 0 /\ balance = 0
      /\ verdict = NoVerdict /\ signer = NoCall /\ pending = None /\ relay = None /\ pc = "idle"
      /\ transferMax \in TransferMaxima
  BY DEF Init, Verified
<1>2. HoldsSuffice
  BY <1>1 DEF HoldsSuffice, CallPayer
<1>3. SumOver(May, {}) = 0 /\ SumOver(Arrives, {}) = 0
  BY SumEmpty
<1>4. arrived \ moved = {}
  BY <1>1
<1>5. StillThere /\ CallSized /\ RelaySized(0)
  BY <1>1, <1>3, <1>4 DEF StillThere, CallSized, RelaySized
<1>6. Paid(0)
  <2>1. collected >= SumOver(May, moved) - ActivateMax /\ collected >= SumOver(May, moved)
    BY <1>1, <1>3
  <2>2. 0 <= transferMax
    BY <1>1
  <2> QED
    BY <1>1, <2>1, <2>2 DEF Paid
<1> QED
  BY <1>2, <1>5, <1>6 DEF ReserveInv

\* What custody has of the deposits moved, and the account of the others, covers what they mint.
LEMMA ReserveSuffices ==
  TypeOK /\ MovedInv /\ HoldsSuffice /\ ReserveInv => ReserveCoversMinted
<1> SUFFICES ASSUME TypeOK, MovedInv, HoldsSuffice, ReserveInv, ~outrun PROVE ReserveRule
  BY DEF ReserveCoversMinted
<1> DEFINE minted == [d \in Deposits |-> Minted(d)]
           rest == arrived \ moved
           sM == SumOver(May, moved)
           sR == SumOver(May, rest)
           aR == SumOver(Arrives, rest)
           sV == SumOver(May, Verified)
<1>1. /\ moved \in SUBSET arrived /\ Verified \in SUBSET arrived /\ arrived \in SUBSET Deposits
      /\ balance \in Nat /\ collected \in Nat
  BY DEF TypeOK, HoldsSuffice, MovedInv, OnChain, Verified
<1>2. /\ moved \in SUBSET Deposits /\ rest \in SUBSET Deposits /\ moved \cap rest = {}
      /\ moved \cup rest = arrived /\ Verified \in SUBSET Deposits
  BY <1>1
<1>3. May \in [Deposits -> Nat] /\ \A d \in Deposits : May[d] <= Arrives[d]
  BY MayIsNat
<1>4. SumOver(minted, Verified) = sV
  <2>1. \A d \in Verified : May[d] \in Int /\ minted[d] = May[d]
    BY <1>2, <1>3 DEF May, MayMint
  <2>2. IsFiniteSet(Verified)
    BY <1>2, FinitelyMany, FS_Subset
  <2> HIDE DEF minted
  <2> QED
    BY <2>1, <2>2, SumSame
<1>5. sM \in Nat /\ sR \in Nat /\ aR \in Nat /\ sR <= aR /\ sV \in Nat
  <2> HIDE DEF rest
  <2> QED
    BY <1>2, <1>3, SumsFit
<1>6. SumOver(May, arrived) = sM + sR
  <2> HIDE DEF rest
  <2>1. SumOver(May, moved \cup rest) = sM + sR
    BY <1>2, <1>3, SumsJoin
  <2> QED
    BY <1>2, <2>1
<1>7. ASSUME NEW S \in SUBSET Deposits, Verified \subseteq S PROVE sV <= SumOver(May, S)
  <2>1. IsFiniteSet(S) /\ \A d \in S : May[d] \in Nat
    BY <1>3, FinitelyMany, FS_Subset
  <2> QED
    BY <1>7, <2>1, SumSubset
<1>8. balance >= aR
  BY DEF ReserveInv, StillThere
<1>9. CASE moved \cap Verified = {}
  <2>1. sV <= sR
    BY <1>1, <1>2, <1>7, <1>9
  <2> HIDE DEF minted, rest, sM, sR, aR, sV
  <2>2. balance + collected >= sV
    BY <1>1, <1>5, <1>8, <2>1
  <2> QED
    BY <1>4, <2>2 DEF ReserveRule, minted
<1>10. CASE moved \cap Verified # {}
  <2>1. sV <= sM + sR
    BY <1>1, <1>6, <1>7
  <2>2. collected >= sM
    BY <1>10 DEF ReserveInv, Paid
  <2> HIDE DEF minted, rest, sM, sR, aR, sV
  <2>3. balance + collected >= sV
    BY <1>1, <1>5, <1>8, <2>1, <2>2
  <2> QED
    BY <1>4, <2>3 DEF ReserveRule, minted
<1> QED
  BY <1>9, <1>10

\* For any deposits, amounts, maxima and failures, the account, custody and the float together cover
\* what the deposits may mint, as long as no permit is signed on an account that another permit
\* changed since it was read (ReserveCoversMinted).
THEOREM ReserveStaysCovered == Spec => []ReserveCoversMinted
<1>1. Init => MovedInv /\ HoldInv
  BY DEF Init, MovedInv, InPass, OnChain, OneNonce, SignsForAll, RunsForAll, PastIsMoved, SweptWasMoved,
         HoldInv, RecordImpliesActive, CallWithinHold, FeeWithinHold
<1>2. Spec => [](MovedInv /\ HoldInv)
  BY <1>1, TypeCorrect, MovedPreserved, HoldPreserved, PTL DEF Spec
<1> QED
  BY <1>2, TypeCorrect, ReserveAtFirst, HoldsPreserved, ReservePreserved, ReserveSuffices, PTL DEF Spec
=============================================================================
