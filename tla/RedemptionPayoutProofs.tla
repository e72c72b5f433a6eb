----------------------- MODULE RedemptionPayoutProofs -----------------------
(***************************************************************************)
(* Proofs about RedemptionPayout, for every set of redemptions and every   *)
(* value of the bounds: the type invariant, that one burn is never paid by *)
(* two transfers, that the books agree with the chain and the worker keeps *)
(* PayoutPromise, and that a day's outflow stays within its cap.           *)
(***************************************************************************)
EXTENDS RedemptionPayout, SumsProofs

-----------------------------------------------------------------------------
(* Type correctness.                                                       *)

\* The rows as the burn webhook inserts them, and a chain nothing was paid on.
LEMMA InitType == Init => TypeOK
<1> SUFFICES ASSUME Init PROVE TypeOK
  OBVIOUS
<1> QED
  BY RedemptionsAssumption, TxnsAssumption
  DEF TypeOK, Init, Stages, Statuses, Fates, NoAnswer, AnswerKinds, NoOne, None

\* Every step of drain_once keeps the type invariant.
LEMMA DrainType == TypeOK /\ Drain => TypeOK'
<1> SUFFICES ASSUME TypeOK, Drain PROVE TypeOK'
  OBVIOUS
<1> USE RedemptionsAssumption, TxnsAssumption, ConfigAssumption, ClockAssumption
<1> USE DEF TypeOK, Statuses, Stages, NoAnswer, AnswerKinds, None, NoOne, EndPass,
            NextInPass, dbVars, rowVars, chainVars, txVars
<1>1. CASE ReadBreaker  BY <1>1 DEF ReadBreaker
<1>2. CASE CheckPermits  BY <1>2 DEF CheckPermits
<1>3. CASE SelectDue  BY <1>3 DEF SelectDue, SpentToday
<1>4. CASE EndOfRows  BY <1>4 DEF EndOfRows
<1>5. CASE DrainReadFails  BY <1>5 DEF DrainReadFails
<1>6. CASE OnPaid  BY <1>6 DEF OnPaid, Answered, Write, SetRef
<1>7. CASE OnSubmitted
  BY <1>7 DEF OnSubmitted, Answered, Write, RecordPermit, SetPermit
<1>8. CASE OnRelayRefused
  BY <1>8 DEF OnRelayRefused, Answered, Write, RecordPermit, SetPermit
<1>9. CASE OnFloatNotActive
  BY <1>9 DEF OnFloatNotActive, Answered, Write, BackToPending, SetStatus
<1>10. CASE OnRefused
  BY <1>10 DEF OnRefused, Answered, Write, BackToPending, SetStatus
<1>11. CASE OnAmbiguous
  <2>1. CASE GasFreeRail
    <3>1. now + PermitLife + Grace \in Nat
      OBVIOUS
    <3>2. permitDeadline' \in [Redemptions -> Nat \cup {None}]
      BY <1>11, <2>1, <3>1 DEF OnAmbiguous, Write, HoldFloat
    <3>3. UNCHANGED <<status, payoutRef, traceId, permitNonce, claimedAt>>
      BY <1>11, <2>1 DEF OnAmbiguous, Write, HoldFloat
    <3>4. pc' = "confirm" /\ todo' = {} /\ charged' = {} /\ answer' = NoAnswer /\ cur' = NoOne
      BY <1>11, <2>1 DEF OnAmbiguous
    <3>5. UNCHANGED <<events, halted, calls, chainVars, now, crashes>>
      BY <1>11 DEF OnAmbiguous
    <3> QED
      BY <3>2, <3>3, <3>4, <3>5
  <2>2. CASE ~GasFreeRail
    <3>1. UNCHANGED <<rowVars, events, halted, calls, chainVars, now, crashes>>
      BY <1>11, <2>2 DEF OnAmbiguous
    <3>2. pc' = "rows" /\ todo' = todo /\ charged' = charged \cup {cur} /\ answer' = NoAnswer
      BY <1>11, <2>2 DEF OnAmbiguous
    <3>3. cur \in Redemptions /\ cur' = NoOne
      BY <1>11 DEF OnAmbiguous
    <3> QED
      BY <3>1, <3>2, <3>3
  <2> QED
    BY <2>1, <2>2
<1>12. ASSUME NEW r \in Redemptions, SkipOverCap(r) PROVE TypeOK'
  BY <1>12 DEF SkipOverCap
<1>13. ASSUME NEW r \in Redemptions, StopAtDailyCap(r) PROVE TypeOK'
  BY <1>13 DEF StopAtDailyCap
<1>14. ASSUME NEW r \in Redemptions, Claim(r) PROVE TypeOK'
  <2>1. answer = NoAnswer
    BY <1>14 DEF Claim
  <2> QED
    BY <1>14, <2>1 DEF Claim, SetClaimed
<1>15. ASSUME NEW r \in Redemptions, ClaimErrors(r) PROVE TypeOK'
  BY <1>15 DEF ClaimErrors, Write, SetClaimed
<1> QED
  BY <1>1, <1>2, <1>3, <1>4, <1>5, <1>6, <1>7, <1>8, <1>9, <1>10, <1>11, <1>12,
     <1>13, <1>14, <1>15 DEF Drain

\* So does every step that is not drain_once's: the signer, the confirmations,
\* the watcher, the operator, the breaker, a crash and TRON.
LEMMA OtherType ==
  TypeOK /\ (Confirm \/ Settle \/ Watcher \/ Signer \/ Chain \/ Human \/ SetHalted \/ Crash)
    => TypeOK'
<1> SUFFICES ASSUME TypeOK,
                    Confirm \/ Settle \/ Watcher \/ Signer \/ Chain \/ Human
                      \/ SetHalted \/ Crash
             PROVE TypeOK'
  OBVIOUS
<1> USE RedemptionsAssumption, TxnsAssumption, ConfigAssumption, ClockAssumption
<1> USE DEF TypeOK, Statuses, Stages, EventKinds, NoAnswer, AnswerKinds, Fates, None,
            NoOne, dbVars, rowVars, workerVars, chainVars, txVars
<1>1. CASE Confirm
  <2>1. CASE EndOfConfirm
    <3>1. pc' \in {"settle", "idle"} /\ answer = NoAnswer
      BY <2>1 DEF EndOfConfirm
    <3> QED
      BY <2>1, <3>1 DEF EndOfConfirm
  <2>2. ASSUME NEW r \in Redemptions, ConfirmPaid(r) PROVE TypeOK'
    <3>1. events' \subseteq EventKinds \X Redemptions
      BY <2>2 DEF ConfirmPaid, PayIntent
    <3> QED
      BY <2>2, <3>1 DEF ConfirmPaid, PayIntent
  <2> QED
    BY <1>1, <2>1, <2>2 DEF Confirm
<1>2. CASE Settle
  <2>1. CASE EndOfSettle  BY <2>1 DEF EndOfSettle
  <2>2. ASSUME NEW r \in Redemptions, SettleAsPaid(r) PROVE TypeOK'
    <3>1. PICK t \in Txns : PayIntent(r, t)
      BY <2>2 DEF SettleAsPaid, RelayNames
    <3>2. events' \subseteq EventKinds \X Redemptions
      BY <3>1 DEF PayIntent
    <3> QED
      BY <2>2, <3>1, <3>2 DEF SettleAsPaid, PayIntent
  <2>3. ASSUME NEW r \in Redemptions, SettleByNonce(r) PROVE TypeOK'
    BY <2>3 DEF SettleByNonce
  <2>4. ASSUME NEW r \in Redemptions, ReturnExpired(r) PROVE TypeOK'
    BY <2>4 DEF ReturnExpired, Write, NextPermit, SetPermit
  <2>5. ASSUME NEW r \in Redemptions, HandToHuman(r) PROVE TypeOK'
    BY <2>5 DEF HandToHuman, Write, NextPermit
  <2>6. ASSUME NEW r \in Redemptions, NonceUnread(r) PROVE TypeOK'
    BY <2>6 DEF NonceUnread, NextPermit
  <2> QED
    BY <1>2, <2>1, <2>2, <2>3, <2>4, <2>5, <2>6 DEF Settle
<1>3. CASE Watcher
  <2>1. ASSUME NEW r \in Redemptions, ConfirmBurn(r) PROVE TypeOK'
    BY <2>1 DEF ConfirmBurn, SetStatus
  <2>2. ASSUME NEW r \in Redemptions, MismatchedBurn(r) PROVE TypeOK'
    BY <2>2 DEF MismatchedBurn, SetStatus
  <2> QED
    BY <1>3, <2>1, <2>2 DEF Watcher
<1>4. CASE Signer
  <2>1. ASSUME NEW r \in Redemptions, SignerRefuses(r) PROVE TypeOK'
    BY <2>1 DEF SignerRefuses, CallOver, Reply
  <2>2. ASSUME NEW r \in Redemptions, CallLost(r) PROVE TypeOK'
    BY <2>2 DEF CallLost, CallOver
  <2>3. ASSUME NEW r \in Redemptions, NEW t \in Txns, SignerBroadcasts(r, t) PROVE TypeOK'
    BY <2>3 DEF SignerBroadcasts, CallOver, Reply, Sign
  <2>4. ASSUME NEW r \in Redemptions, NEW t \in Txns, SignerSignsPermit(r, t) PROVE TypeOK'
    BY <2>4 DEF SignerSignsPermit, CallOver, Reply, Sign
  <2> QED
    BY <1>4, <2>1, <2>2, <2>3, <2>4 DEF Signer
<1>5. CASE Chain
  <2>1. CASE SpendElsewhere  BY <2>1 DEF SpendElsewhere
  <2>2. CASE Tick  BY <2>2 DEF Tick
  <2>3. ASSUME NEW t \in Txns, Mine(t) PROVE TypeOK'
    BY <2>3 DEF Mine, Run
  <2>4. ASSUME NEW t \in Txns, RunPermit(t) PROVE TypeOK'
    BY <2>4 DEF RunPermit, Run
  <2> QED
    BY <1>5, <2>1, <2>2, <2>3, <2>4 DEF Chain
<1>6. CASE Human
  <2>1. ASSUME NEW r \in Redemptions, HumanReturns(r) PROVE TypeOK'
    BY <2>1 DEF HumanReturns, SetStatus
  <2>2. ASSUME NEW r \in Redemptions, NEW t \in Txns, HumanSetsRef(r, t) PROVE TypeOK'
    BY <2>2 DEF HumanSetsRef, SetRef
  <2> QED
    BY <1>6, <2>1, <2>2 DEF Human
<1>7. CASE SetHalted
  BY <1>7 DEF SetHalted
<1>8. CASE Crash
  BY <1>8 DEF Crash
<1> QED
  BY <1>1, <1>2, <1>3, <1>4, <1>5, <1>6, <1>7, <1>8

\* Every step keeps the type invariant.
LEMMA StepType == TypeOK /\ [Next]_vars => TypeOK'
<1> SUFFICES ASSUME TypeOK, [Next]_vars PROVE TypeOK'
  OBVIOUS
<1>1. CASE Next
  BY <1>1, DrainType, OtherType DEF Next
<1>2. CASE UNCHANGED vars
  BY <1>2 DEF TypeOK, vars, dbVars, rowVars, workerVars, chainVars, txVars
<1> QED
  BY <1>1, <1>2

\* Every reachable state is well typed, for every set of redemptions and every
\* value of the bounds.
THEOREM TypeCorrect == Spec => []TypeOK
  BY InitType, StepType, PTL DEF Spec

-----------------------------------------------------------------------------
(* The inductive invariant is kept.                                        *)

\* Before the first transfer nothing is alive, so the invariant holds.
LEMMA InitInv == Init => PayoutInv
<1> SUFFICES ASSUME Init PROVE PayoutInv
  OBVIOUS
<1>1. \A t \in Txns : Dead(t)
  BY DEF Init, Dead, Moved, MayRun
<1>2. \A r \in Redemptions : ~Callable(r) /\ ~Submitted(r) /\ permitNonce[r] = None
  BY DEF Init, Callable, Submitted
<1>3. ChainIsSound
  BY DEF Init, ChainIsSound, Moved
<1> QED
  BY <1>1, <1>2, <1>3
  DEF Init, PayoutInv, OneLive, RepayableIsClean, CallIsAlone, PermitIsRecorded,
      AnswerIsTrue, NonceIsDecisive, AllDead

\* The worker stops waiting for the signer and the nonce, or goes on waiting.
WorkerQuiet ==
  pc' \notin {"calling", "deadline"} \/ UNCHANGED <<pc, cur, answer>>

\* A step that changes no row, signs nothing and brings nothing to life.
LEMMA QuietStep ==
  ASSUME TypeOK, PayoutInv, TypeOK',
         UNCHANGED <<status, permitNonce, permitDeadline, paysFor, atNonce, runsUntil>>,
         \A t \in Txns : Dead(t) => Dead(t)',
         \A r \in Redemptions : Callable(r)' => Callable(r),
         now' >= now, ChainIsSound', WorkerQuiet
  PROVE  PayoutInv'
<1> USE DEF PayoutInv
<1>1. OneLive'
  BY DEF OneLive
<1>2. RepayableIsClean'
  BY DEF RepayableIsClean, Repayable, AllDead
<1>3. CallIsAlone'
  BY DEF CallIsAlone, AllDead
<1>4. PermitIsRecorded'
  BY DEF PermitIsRecorded, Submitted
<1>5. AnswerIsTrue'
  BY DEF AnswerIsTrue, Submitted, AllDead, WorkerQuiet, TypeOK
<1>6. NonceIsDecisive'
  BY ClockAssumption DEF NonceIsDecisive, Submitted, WorkerQuiet, TypeOK, None
<1> QED
  BY <1>1, <1>2, <1>3, <1>4, <1>5, <1>6

\* A step that changes one row only, which the worker is not waiting for.
LEMMA RowStep ==
  ASSUME TypeOK, PayoutInv, TypeOK', NEW r \in Redemptions,
         UNCHANGED <<calls, paysFor, atNonce, runsUntil, fate, ranAt, now>>,
         \A s \in Redemptions \ {r} :
           /\ status'[s] = status[s]
           /\ permitNonce'[s] = permitNonce[s]
           /\ permitDeadline'[s] = permitDeadline[s],
         WorkerQuiet,
         pc' \in {"calling", "deadline"} => cur # r,
         Repayable(r)' => ~Callable(r) /\ permitNonce'[r] = None /\ AllDead(r),
         Submitted(r)' /\ permitNonce'[r] # None =>
           /\ permitDeadline'[r] # None
           /\ ~Callable(r)
           /\ \A t \in Txns : paysFor[t] = r =>
                \/ Dead(t)
                \/ atNonce[t] = permitNonce'[r] /\ runsUntil[t] = permitDeadline'[r]
  PROVE  PayoutInv'
<1> USE DEF PayoutInv
<1>1. \A t \in Txns : Dead(t)' <=> Dead(t)
  BY DEF Dead, Moved, MayRun
<1>2. \A s \in Redemptions : (Callable(s)' <=> Callable(s)) /\ (AllDead(s)' <=> AllDead(s))
  BY <1>1 DEF Callable, AllDead
<1>3. OneLive'
  BY <1>1 DEF OneLive
<1>4. RepayableIsClean'
  BY <1>2 DEF RepayableIsClean, Repayable
<1>5. CallIsAlone'
  BY <1>2 DEF CallIsAlone
<1>6. PermitIsRecorded'
  BY <1>1, <1>2 DEF PermitIsRecorded, Submitted
<1>7. AnswerIsTrue'
  BY <1>1, <1>2 DEF AnswerIsTrue, Submitted, WorkerQuiet, TypeOK
<1>8. NonceIsDecisive'
  BY DEF NonceIsDecisive, Submitted, WorkerQuiet
<1>9. ChainIsSound'
  BY DEF ChainIsSound, Moved
<1> QED
  BY <1>3, <1>4, <1>5, <1>6, <1>7, <1>8, <1>9


\* The steps of drain_once.
LEMMA DrainInv == TypeOK /\ TypeOK' /\ PayoutInv /\ Drain => PayoutInv'
<1> SUFFICES ASSUME TypeOK, TypeOK', PayoutInv, Drain PROVE PayoutInv'
  OBVIOUS
<1> DEFINE Quiet == ReadBreaker \/ CheckPermits \/ SelectDue \/ EndOfRows \/ DrainReadFails
                    \/ OnPaid
<1> DEFINE QuietRow(r) == SkipOverCap(r) \/ StopAtDailyCap(r)
<1>1. ASSUME Quiet \/ \E r \in Redemptions : QuietRow(r) PROVE PayoutInv'
  <2>1. UNCHANGED <<status, permitNonce, permitDeadline, calls, txVars, now>>
    BY <1>1 DEF ReadBreaker, CheckPermits, SelectDue, EndOfRows, DrainReadFails, OnPaid,
      SkipOverCap, StopAtDailyCap, Write, SetRef, dbVars, rowVars, chainVars
  <2>2. WorkerQuiet
    BY <1>1 DEF WorkerQuiet, ReadBreaker, CheckPermits, SelectDue, EndOfRows,
      DrainReadFails, OnPaid, SkipOverCap, StopAtDailyCap, EndPass, NextInPass
  <2>3. ChainIsSound'
    BY <2>1 DEF PayoutInv, ChainIsSound, Moved, txVars
  <2> QED
    BY <2>1, <2>2, <2>3, QuietStep DEF Dead, Moved, MayRun, Callable, txVars, TypeOK
<1>2. ASSUME NEW r \in Redemptions, Claim(r) PROVE PayoutInv'
  <2> USE DEF PayoutInv
  <2>1. ~Callable(r) /\ permitNonce[r] = None /\ AllDead(r)
    BY <1>2 DEF Claim, RepayableIsClean, Repayable
  <2>2. /\ UNCHANGED <<permitNonce, permitDeadline, txVars, now>>
        /\ status' = [status EXCEPT ![r] = "payout_submitted"]
        /\ \A s \in Redemptions \ {r} : calls'[s] = calls[s]
    BY <1>2 DEF Claim, SetClaimed, chainVars, TypeOK
  <2>3. answer' = NoAnswer /\ pc' = "calling" /\ cur' = r
    BY <1>2 DEF Claim, TypeOK
  <2>4. \A t \in Txns : Dead(t)' <=> Dead(t)
    BY <2>2 DEF Dead, Moved, MayRun, txVars
  <2>5. \A s \in Redemptions : AllDead(s)' <=> AllDead(s)
    BY <2>2, <2>4 DEF AllDead, txVars
  <2>6. \A s \in Redemptions \ {r} : Callable(s)' <=> Callable(s)
    BY <2>2 DEF Callable
  <2>7. OneLive'
    BY <2>2, <2>4 DEF OneLive, txVars
  <2>8. RepayableIsClean'
    BY <2>2, <2>5, <2>6 DEF RepayableIsClean, Repayable, TypeOK
  <2>9. CallIsAlone'
    BY <2>1, <2>5, <2>6 DEF CallIsAlone
  <2>10. PermitIsRecorded'
    BY <2>1, <2>2, <2>4, <2>6 DEF PermitIsRecorded, Submitted, TypeOK, txVars
  <2>11. AnswerIsTrue'
    BY <2>1, <2>2, <2>3 DEF AnswerIsTrue, Submitted, NoAnswer, TypeOK
  <2>12. NonceIsDecisive' /\ ChainIsSound'
    BY <2>2, <2>3 DEF NonceIsDecisive, ChainIsSound, Moved, txVars
  <2> QED
    BY <2>7, <2>8, <2>9, <2>10, <2>11, <2>12
<1>3. ASSUME NEW r \in Redemptions, ClaimErrors(r) PROVE PayoutInv'
  <2>1. permitNonce[r] = None /\ (Repayable(r)' => ~Callable(r) /\ AllDead(r))
    BY <1>3 DEF ClaimErrors, PayoutInv, RepayableIsClean, Repayable
  <2>2. UNCHANGED <<calls, txVars, now, permitNonce, permitDeadline, pc, cur, answer>>
    BY <1>3 DEF ClaimErrors, Write, SetClaimed, rowVars, chainVars
  <2>3. \A s \in Redemptions \ {r} : status'[s] = status[s]
    BY <1>3 DEF ClaimErrors, Write, SetClaimed, rowVars, TypeOK
  <2>4. pc' = "rows"
    BY <1>3 DEF ClaimErrors
  <2> QED
    BY <2>1, <2>2, <2>3, <2>4, RowStep DEF WorkerQuiet, txVars
<1>4. ASSUME OnSubmitted \/ OnRelayRefused PROVE PayoutInv'
  <2> DEFINE t == answer.tx
  <2>1. /\ pc = "calling" /\ cur \in Redemptions /\ t \in Txns
        /\ answer.kind \in {"submitted", "relay_refused"}
    BY <1>4 DEF OnSubmitted, OnRelayRefused, Answered, TypeOK
  <2>2. /\ Submitted(cur) /\ permitNonce[cur] = None /\ ~Callable(cur)
        /\ \A u \in Txns : paysFor[u] = cur => u = t \/ Dead(u)
    BY <2>1 DEF PayoutInv, AnswerIsTrue
  <2>3. UNCHANGED <<status, calls, txVars, now>>
    BY <1>4 DEF OnSubmitted, OnRelayRefused, Write, RecordPermit, rowVars, chainVars
  <2>4. \/ UNCHANGED <<permitNonce, permitDeadline>>
        \/ /\ permitNonce' = [permitNonce EXCEPT ![cur] = atNonce[t]]
           /\ permitDeadline' = [permitDeadline EXCEPT ![cur] = runsUntil[t]]
    BY <1>4 DEF OnSubmitted, OnRelayRefused, Write, RecordPermit, SetPermit, rowVars
  <2>5. pc' \in {"rows", "confirm"}
    BY <1>4 DEF OnSubmitted, OnRelayRefused, NextInPass, EndPass
  <2>6. runsUntil[t] # None
    BY <2>1 DEF TypeOK, None
  <2>7. status'[cur] = "payout_submitted"
    BY <2>2, <2>3 DEF Submitted
  <2> QED
    BY <2>1, <2>2, <2>3, <2>4, <2>5, <2>6, <2>7, RowStep
    DEF WorkerQuiet, Repayable, txVars, TypeOK
<1>5. ASSUME OnFloatNotActive \/ OnRefused PROVE PayoutInv'
  <2>1. /\ pc = "calling" /\ cur \in Redemptions
        /\ answer.kind \in {"refused", "not_active"}
    BY <1>5 DEF OnFloatNotActive, OnRefused, Answered, TypeOK
  <2>2. permitNonce[cur] = None /\ ~Callable(cur) /\ AllDead(cur)
    BY <2>1 DEF PayoutInv, AnswerIsTrue
  <2>3. BackToPending(cur) \/ UNCHANGED rowVars
    BY <1>5 DEF OnFloatNotActive, OnRefused, Write
  <2>4. /\ UNCHANGED <<permitNonce, permitDeadline>>
        /\ \A s \in Redemptions \ {cur} : status'[s] = status[s]
    BY <2>3 DEF BackToPending, SetStatus, rowVars, TypeOK
  <2>5. UNCHANGED <<calls, txVars, now>>
    BY <1>5 DEF OnFloatNotActive, OnRefused, chainVars
  <2>6. pc' \in {"rows", "confirm"}
    BY <1>5 DEF OnFloatNotActive, OnRefused, NextInPass, EndPass
  <2> QED
    BY <2>1, <2>2, <2>4, <2>5, <2>6, RowStep DEF WorkerQuiet, txVars
<1>6. ASSUME OnAmbiguous PROVE PayoutInv'
  <2>1. pc = "calling" /\ cur \in Redemptions
    BY <1>6 DEF OnAmbiguous, TypeOK
  <2>2. Submitted(cur) /\ permitNonce[cur] = None
    BY <2>1 DEF PayoutInv, AnswerIsTrue
  <2>3. (\E until : HoldFloat(until)) \/ UNCHANGED rowVars
    <3>1. CASE GasFreeRail
      BY <1>6, <3>1 DEF OnAmbiguous, Write
    <3>2. CASE ~GasFreeRail
      BY <1>6, <3>2 DEF OnAmbiguous
    <3> QED
      BY <3>1, <3>2
  <2>4. /\ UNCHANGED <<status, permitNonce>>
        /\ \A s \in Redemptions \ {cur} : permitDeadline'[s] = permitDeadline[s]
    BY <2>3 DEF HoldFloat, rowVars, TypeOK
  <2>7. UNCHANGED <<calls, txVars, now>>
    BY <1>6 DEF OnAmbiguous, chainVars
  <2>5. pc' \in {"rows", "confirm"}
    BY <1>6 DEF OnAmbiguous, NextInPass, EndPass
  <2>6. status'[cur] = "payout_submitted"
    BY <2>2, <2>4 DEF Submitted
  <2> QED
    BY <2>1, <2>2, <2>4, <2>5, <2>6, <2>7, RowStep
    DEF WorkerQuiet, Repayable, txVars
<1> QED
  BY <1>1, <1>2, <1>3, <1>4, <1>5, <1>6 DEF Drain

\* The steps of the two confirmations.
LEMMA ConfirmInv == TypeOK /\ TypeOK' /\ PayoutInv /\ (Confirm \/ Settle) => PayoutInv'
<1> SUFFICES ASSUME TypeOK, TypeOK', PayoutInv, Confirm \/ Settle PROVE PayoutInv'
  OBVIOUS
<1>1. ASSUME EndOfConfirm \/ EndOfSettle \/ \E r \in Redemptions : NonceUnread(r)
      PROVE  PayoutInv'
  <2>1. UNCHANGED <<status, permitNonce, permitDeadline, calls, txVars, now>>
    BY <1>1 DEF EndOfConfirm, EndOfSettle, NonceUnread, dbVars, rowVars, chainVars
  <2>2. WorkerQuiet
    BY <1>1 DEF WorkerQuiet, EndOfConfirm, EndOfSettle, NonceUnread, NextPermit
  <2>3. ChainIsSound'
    BY <2>1 DEF PayoutInv, ChainIsSound, Moved, txVars
  <2> QED
    BY <2>1, <2>2, <2>3, QuietStep DEF Dead, Moved, MayRun, Callable, txVars, TypeOK
<1>2. ASSUME NEW r \in Redemptions, ConfirmPaid(r) \/ SettleAsPaid(r) PROVE PayoutInv'
  <2>1. PICK t \in Txns : PayIntent(r, t)
    BY <1>2 DEF ConfirmPaid, SettleAsPaid, RelayNames, TypeOK
  <2>2. UNCHANGED <<calls, txVars, now, permitNonce, permitDeadline>>
    BY <1>2, <2>1 DEF ConfirmPaid, SettleAsPaid, PayIntent, chainVars
  <2>3. status' = [status EXCEPT ![r] = "paid"]
    BY <2>1 DEF PayIntent
  <2>4. pc' \in {"confirm", "settle"}
    BY <1>2 DEF ConfirmPaid, SettleAsPaid, workerVars
  <2> QED
    BY <2>2, <2>3, <2>4, RowStep DEF WorkerQuiet, Repayable, Submitted, txVars, TypeOK
<1>3. ASSUME NEW r \in Redemptions, SettleByNonce(r) PROVE PayoutInv'
  <2> USE DEF PayoutInv
  <2>1. UNCHANGED <<status, permitNonce, permitDeadline, calls, txVars, now>>
    BY <1>3 DEF SettleByNonce, dbVars, rowVars, chainVars
  <2>2. \A t \in Txns : Dead(t)' <=> Dead(t)
    BY <2>1 DEF Dead, Moved, MayRun, txVars
  <2>3. \A s \in Redemptions : (Callable(s)' <=> Callable(s)) /\ (AllDead(s)' <=> AllDead(s))
    BY <2>1, <2>2 DEF Callable, AllDead, txVars
  <2>4. OneLive'
    BY <2>1, <2>2 DEF OneLive, txVars
  <2>5. RepayableIsClean' /\ CallIsAlone'
    BY <2>1, <2>3 DEF RepayableIsClean, Repayable, CallIsAlone
  <2>6. PermitIsRecorded'
    BY <2>1, <2>2, <2>3 DEF PermitIsRecorded, Submitted, txVars
  <2>7. NonceIsDecisive'
    BY <1>3, <2>1 DEF NonceIsDecisive, SettleByNonce, PermitRow, Submitted
  <2>8. AnswerIsTrue'
    BY <1>3 DEF AnswerIsTrue, SettleByNonce
  <2>9. ChainIsSound'
    BY <2>1 DEF ChainIsSound, Moved, txVars
  <2> QED
    BY <2>4, <2>5, <2>6, <2>7, <2>8, <2>9
<1>4. ASSUME NEW r \in Redemptions, ReturnExpired(r) PROVE PayoutInv'
  <2>1. /\ Submitted(r) /\ permitNonce[r] # None
        /\ now > permitDeadline[r] + Grace
    BY <1>4 DEF ReturnExpired, PayoutInv, NonceIsDecisive
  <2>2. /\ ~Callable(r)
        /\ permitDeadline[r] \in Nat /\ permitNonce[r] \in Nat
        /\ \A t \in Txns : paysFor[t] = r =>
             Dead(t) \/ (atNonce[t] = permitNonce[r] /\ runsUntil[t] = permitDeadline[r])
    <3>1. Submitted(r) /\ permitNonce[r] # None
      BY <2>1
    <3>2. /\ permitDeadline[r] # None /\ ~Callable(r)
          /\ \A t \in Txns : paysFor[t] = r =>
               Dead(t) \/ (atNonce[t] = permitNonce[r] /\ runsUntil[t] = permitDeadline[r])
      BY <3>1 DEF PayoutInv, PermitIsRecorded
    <3>3. permitDeadline[r] \in Nat /\ permitNonce[r] \in Nat
      BY <3>1, <3>2 DEF TypeOK
    <3> QED
      BY <3>2, <3>3
  <2>3. PICK n \in NonceReads : n <= permitNonce[r]
    BY <1>4 DEF ReturnExpired
  <2>4. ASSUME NEW t \in Txns, paysFor[t] = r PROVE Dead(t)
    <3> SUFFICES ASSUME ~Dead(t) PROVE FALSE
      OBVIOUS
    <3>1. atNonce[t] = permitNonce[r] /\ runsUntil[t] = permitDeadline[r]
      BY <2>2, <2>4
    <3>2. ~MayRun(t)
      BY <2>1, <2>2, <3>1, ClockAssumption DEF MayRun, TypeOK
    <3>3. Moved(t)
      BY <3>2 DEF Dead
    <3>4. ranAt[t] <= permitDeadline[r]
      BY <3>1, <3>3 DEF PayoutInv, ChainIsSound
    <3>5. ranAt[t] < now - Lag
      BY <2>1, <2>2, <3>4, ClockAssumption DEF TypeOK
    <3>6. n \in 0..chainNonce /\ n > atNonce[t]
      BY <2>3, <3>3, <3>5 DEF NonceReads
    <3> QED
      BY <2>2, <2>3, <3>1, <3>6 DEF TypeOK
  <2>5. \/ UNCHANGED <<status, permitNonce, permitDeadline>>
        \/ /\ status' = [status EXCEPT ![r] = "payout_pending"]
           /\ permitNonce' = [permitNonce EXCEPT ![r] = None]
           /\ permitDeadline' = [permitDeadline EXCEPT ![r] = None]
    BY <1>4 DEF ReturnExpired, Write, SetPermit, rowVars
  <2>6. UNCHANGED <<calls, txVars, now>> /\ pc' = "settle"
    BY <1>4 DEF ReturnExpired, NextPermit, chainVars
  <2>7. AllDead(r)
    BY <2>4 DEF AllDead
  <2>8. \A s \in Redemptions \ {r} :
          /\ status'[s] = status[s]
          /\ permitNonce'[s] = permitNonce[s]
          /\ permitDeadline'[s] = permitDeadline[s]
    BY <2>5 DEF TypeOK
  <2>9. CASE UNCHANGED <<status, permitNonce, permitDeadline>>
    BY <2>1, <2>2, <2>6, <2>8, <2>9, RowStep
    DEF WorkerQuiet, Repayable, Submitted, txVars, None
  <2>10. CASE /\ status' = [status EXCEPT ![r] = "payout_pending"]
              /\ permitNonce' = [permitNonce EXCEPT ![r] = None]
              /\ permitDeadline' = [permitDeadline EXCEPT ![r] = None]
    <3>1. status'[r] = "payout_pending" /\ permitNonce'[r] = None
      BY <2>10 DEF TypeOK
    <3> QED
      BY <2>2, <2>6, <2>7, <2>8, <3>1, RowStep DEF WorkerQuiet, Repayable, Submitted, txVars
  <2> QED
    BY <2>5, <2>9, <2>10
<1>5. ASSUME NEW r \in Redemptions, HandToHuman(r) PROVE PayoutInv'
  <2>1. Submitted(r) /\ permitNonce[r] # None
    BY <1>5 DEF HandToHuman, PayoutInv, NonceIsDecisive
  <2>2. /\ UNCHANGED <<status, permitDeadline, calls, txVars, now>>
        /\ permitNonce' = permitNonce \/ permitNonce' = [permitNonce EXCEPT ![r] = None]
    BY <1>5 DEF HandToHuman, Write, rowVars, chainVars
  <2>3. pc' = "settle"
    BY <1>5 DEF HandToHuman, NextPermit
  <2> QED
    BY <2>1, <2>2, <2>3, RowStep
    DEF PayoutInv, PermitIsRecorded, WorkerQuiet, Repayable, Submitted, txVars, TypeOK
<1> QED
  BY <1>1, <1>2, <1>3, <1>4, <1>5 DEF Confirm, Settle

\* The watcher, the operator, the breaker and a crash.
LEMMA OutsideInv ==
  TypeOK /\ TypeOK' /\ PayoutInv /\ (Watcher \/ Human \/ SetHalted \/ Crash) => PayoutInv'
<1> SUFFICES ASSUME TypeOK, TypeOK', PayoutInv, Watcher \/ Human \/ SetHalted \/ Crash
             PROVE PayoutInv'
  OBVIOUS
<1>1. ASSUME SetHalted \/ Crash \/
             \E r \in Redemptions, t \in Txns : HumanSetsRef(r, t)
      PROVE  PayoutInv'
  <2>1. UNCHANGED <<status, permitNonce, permitDeadline, calls, txVars, now>>
    BY <1>1 DEF SetHalted, Crash, HumanSetsRef, SetRef, dbVars, rowVars, chainVars
  <2>2. WorkerQuiet
    BY <1>1 DEF WorkerQuiet, SetHalted, Crash, HumanSetsRef, workerVars
  <2>3. ChainIsSound'
    BY <2>1 DEF PayoutInv, ChainIsSound, Moved, txVars
  <2> QED
    BY <2>1, <2>2, <2>3, QuietStep DEF Dead, Moved, MayRun, Callable, txVars, TypeOK
<1>2. ASSUME NEW r \in Redemptions, ConfirmBurn(r) \/ MismatchedBurn(r) PROVE PayoutInv'
  <2>1. /\ status[r] = "created"
        /\ \E s \in {"payout_pending", "failed"} : status' = [status EXCEPT ![r] = s]
        /\ UNCHANGED <<permitNonce, permitDeadline, calls, txVars, now, pc, cur, answer>>
    BY <1>2 DEF ConfirmBurn, MismatchedBurn, SetStatus, workerVars, chainVars
  <2>2. ~Callable(r) /\ permitNonce[r] = None /\ AllDead(r)
    BY <2>1 DEF PayoutInv, RepayableIsClean, Repayable
  <2>3. pc \in {"calling", "deadline"} => cur # r
    BY <2>1 DEF PayoutInv, AnswerIsTrue, NonceIsDecisive, Submitted
  <2> QED
    BY <2>1, <2>2, <2>3, RowStep DEF WorkerQuiet, txVars, TypeOK
<1>3. ASSUME NEW r \in Redemptions, HumanReturns(r) PROVE PayoutInv'
  <2>1. /\ status' = [status EXCEPT ![r] = "payout_pending"]
        /\ UNCHANGED <<permitNonce, permitDeadline, calls, txVars, now, pc, cur, answer>>
    BY <1>3 DEF HumanReturns, SetStatus, workerVars, chainVars
  <2>2. ~Callable(r) /\ permitNonce[r] = None /\ ~(pc = "calling" /\ cur = r)
    BY <1>3 DEF HumanReturns, LeftToHuman
  <2>3. AllDead(r)
    BY <1>3 DEF HumanReturns, AllDead, Dead, SignedFor
  <2>4. pc \in {"calling", "deadline"} => cur # r
    BY <2>2 DEF PayoutInv, NonceIsDecisive
  <2> QED
    BY <2>1, <2>2, <2>3, <2>4, RowStep DEF WorkerQuiet, txVars, TypeOK
<1> QED
  BY <1>1, <1>2, <1>3 DEF Watcher, Human

\* TRON and the clock.
LEMMA ChainInv == TypeOK /\ TypeOK' /\ PayoutInv /\ Chain => PayoutInv'
<1> SUFFICES ASSUME TypeOK, TypeOK', PayoutInv, Chain PROVE PayoutInv'
  OBVIOUS
<1>1. CASE SpendElsewhere
  <2>1. UNCHANGED <<status, permitNonce, permitDeadline, calls, txVars, now, pc, cur, answer>>
    BY <1>1 DEF SpendElsewhere, dbVars, rowVars, workerVars
  <2>2. ChainIsSound'
    BY <2>1 DEF PayoutInv, ChainIsSound, Moved, txVars
  <2> QED
    BY <2>1, <2>2, QuietStep
    DEF WorkerQuiet, Dead, Moved, MayRun, Callable, txVars, TypeOK
<1>2. CASE Tick
  <2>1. /\ UNCHANGED <<status, permitNonce, permitDeadline, calls, txVars, pc, cur, answer>>
        /\ now' = now + 1
    BY <1>2 DEF Tick, dbVars, rowVars, workerVars, chainVars
  <2>2. ChainIsSound'
    BY <2>1 DEF PayoutInv, ChainIsSound, Moved, txVars
  <2>3. \A t \in Txns : Dead(t) => Dead(t)'
    BY <2>1 DEF Dead, Moved, MayRun, txVars, TypeOK
  <2>4. \A r \in Redemptions : Callable(r)' => Callable(r)
    BY <2>1 DEF Callable, TypeOK, None
  <2>5. now' >= now
    BY <2>1 DEF TypeOK
  <2> QED
    BY <2>1, <2>2, <2>3, <2>4, <2>5, QuietStep DEF WorkerQuiet, txVars
<1>3. ASSUME NEW t \in Txns, Mine(t) \/ RunPermit(t) PROVE PayoutInv'
  <2>1. PICK outcome \in {"moved", "reverted"} : Run(t, outcome)
    BY <1>3 DEF Mine, RunPermit
  <2>2. MayRun(t)
    BY <1>3 DEF Mine, RunPermit
  <2>3. UNCHANGED <<status, permitNonce, permitDeadline, calls, now, pc, cur, answer,
                    paysFor, atNonce, runsUntil>>
    BY <1>3, <2>1 DEF Mine, RunPermit, Run, dbVars, rowVars, workerVars
  <2>4. \A u \in Txns \ {t} : fate'[u] = fate[u] /\ ranAt'[u] = ranAt[u]
    BY <2>1 DEF Run, TypeOK
  <2>5. fate'[t] = outcome /\ ranAt'[t] = now
    BY <2>1 DEF Run, TypeOK
  <2>6. ChainIsSound'
    BY <2>2, <2>3, <2>4, <2>5 DEF PayoutInv, ChainIsSound, Moved, MayRun
  <2>7. \A u \in Txns : Dead(u) => Dead(u)'
    BY <2>2, <2>3, <2>4 DEF Dead, Moved, MayRun
  <2> QED
    BY <2>3, <2>6, <2>7, QuietStep DEF WorkerQuiet, Callable, TypeOK
<1> QED
  BY <1>1, <1>2, <1>3 DEF Chain

\* Once its call is over, a redemption can no longer be signed for.
LEMMA CallEnds ==
  ASSUME TypeOK, NEW r \in Redemptions, CallOver(r), now' = now
  PROVE  /\ ~Callable(r)'
         /\ \A s \in Redemptions : Callable(s)' => Callable(s)
  BY DEF CallOver, Callable, TypeOK

\* A transfer signed for a redemption with nothing alive is the only one alive.
LEMMA SignInv ==
  ASSUME TypeOK, TypeOK', PayoutInv, NEW r \in Redemptions, NEW t \in Txns,
         SignerBroadcasts(r, t) \/ SignerSignsPermit(r, t)
  PROVE  PayoutInv'
<1> USE DEF PayoutInv
<1>1. /\ UNCHANGED <<status, permitNonce, permitDeadline, now, pc, cur>>
      /\ Callable(r) /\ paysFor[t] = NoOne /\ CallOver(r)
      /\ UNCHANGED <<fate, ranAt>>
  BY DEF SignerBroadcasts, SignerSignsPermit, CanSign, Sign, dbVars, rowVars
<1>2. PICK nonce, until, accepted : Sign(r, t, nonce, until, accepted)
  BY DEF SignerBroadcasts, SignerSignsPermit
<1>3. PICK kind \in {"paid", "submitted", "relay_refused"} : Reply(r, kind, t)
  BY DEF SignerBroadcasts, SignerSignsPermit
<1>4. AllDead(r) /\ ~Repayable(r) /\ ~(Submitted(r) /\ permitNonce[r] # None)
  BY <1>1 DEF CallIsAlone, RepayableIsClean, PermitIsRecorded
<1>5. /\ paysFor'[t] = r
      /\ \A u \in Txns \ {t} : /\ paysFor'[u] = paysFor[u]
                               /\ atNonce'[u] = atNonce[u]
                               /\ runsUntil'[u] = runsUntil[u]
  BY <1>2 DEF Sign, TypeOK
<1>6. \A u \in Txns \ {t} : Dead(u)' <=> Dead(u)
  BY <1>1, <1>5 DEF Dead, Moved, MayRun
<1>7. ~Callable(r)' /\ \A s \in Redemptions : Callable(s)' => Callable(s)
  BY <1>1, CallEnds
<1>8. \A s \in Redemptions \ {r} : AllDead(s)' <=> AllDead(s)
  BY <1>1, <1>5, <1>6, RedemptionsAssumption DEF AllDead
<1>9. OneLive'
  BY <1>4, <1>5, <1>6 DEF OneLive, AllDead
<1>10. RepayableIsClean'
  BY <1>1, <1>4, <1>7, <1>8 DEF RepayableIsClean, Repayable
<1>11. CallIsAlone'
  BY <1>7, <1>8 DEF CallIsAlone
<1>12. PermitIsRecorded'
  BY <1>1, <1>4, <1>5, <1>6, <1>7 DEF PermitIsRecorded, Submitted
<1>13. AnswerIsTrue'
  <2> SUFFICES ASSUME pc' = "calling" PROVE AnswerIsTrue'
    BY DEF AnswerIsTrue
  <2>1. cur \in Redemptions /\ Submitted(cur)' /\ permitNonce'[cur] = None
    BY <1>1 DEF AnswerIsTrue, Submitted, TypeOK
  <2>2. CASE cur = r
    <3>1. answer' = [kind |-> kind, tx |-> t]
      BY <1>1, <1>3, <2>2 DEF Reply
    <3>2. \A u \in Txns : paysFor'[u] = r => u = t \/ Dead(u)'
      BY <1>4, <1>5, <1>6 DEF AllDead
    <3> QED
      BY <1>1, <1>7, <2>1, <2>2, <3>1, <3>2 DEF AnswerIsTrue
  <2>3. CASE cur # r
    <3>1. answer' = answer
      BY <1>3, <2>3 DEF Reply
    <3>2. AllDead(cur) <=> \A u \in Txns : paysFor'[u] = cur => Dead(u)'
      BY <1>5, <1>6, <1>1, <2>1, <2>3, RedemptionsAssumption DEF AllDead
    <3>3. (\A u \in Txns : paysFor[u] = cur => u = answer.tx \/ Dead(u)) =>
            \A u \in Txns : paysFor'[u] = cur => u = answer.tx \/ Dead(u)'
      BY <1>5, <1>6, <2>3
    <3> QED
      BY <1>1, <1>7, <2>1, <3>1, <3>2, <3>3 DEF AnswerIsTrue, AllDead
  <2> QED
    BY <2>2, <2>3
<1>14. NonceIsDecisive'
  BY <1>1 DEF NonceIsDecisive, Submitted
<1>15. ChainIsSound'
  <2>1. fate[t] = "none"
    BY <1>1 DEF ChainIsSound
  <2> QED
    BY <1>1, <1>5, <2>1 DEF ChainIsSound, Moved
<1> QED
  BY <1>9, <1>10, <1>11, <1>12, <1>13, <1>14, <1>15

\* The steps of the signer: relaying, signing, refusing, answering.
LEMMA SignerInv == TypeOK /\ TypeOK' /\ PayoutInv /\ Signer => PayoutInv'
<1> SUFFICES ASSUME TypeOK, TypeOK', PayoutInv, Signer PROVE PayoutInv'
  OBVIOUS
<1>1. ASSUME NEW r \in Redemptions, CallLost(r) PROVE PayoutInv'
  <2>1. /\ UNCHANGED <<status, permitNonce, permitDeadline, txVars, now, pc, cur, answer>>
        /\ CallOver(r)
    BY <1>1 DEF CallLost, dbVars, rowVars, workerVars, chainVars
  <2>2. ChainIsSound'
    BY <2>1 DEF PayoutInv, ChainIsSound, Moved, txVars
  <2>3. \A s \in Redemptions : Callable(s)' => Callable(s)
    BY <2>1, CallEnds
  <2> QED
    BY <2>1, <2>2, <2>3, QuietStep DEF WorkerQuiet, Dead, Moved, MayRun, txVars, TypeOK
<1>2. ASSUME NEW r \in Redemptions, SignerRefuses(r) PROVE PayoutInv'
  <2> USE DEF PayoutInv
  <2>1. /\ UNCHANGED <<status, permitNonce, permitDeadline, txVars, now, pc, cur>>
        /\ Callable(r) /\ CallOver(r)
    BY <1>2 DEF SignerRefuses, dbVars, rowVars, chainVars
  <2>2. PICK kind \in {"refused", "not_active"} : Reply(r, kind, NoTx)
    BY <1>2 DEF SignerRefuses
  <2>3. ~Callable(r)' /\ \A s \in Redemptions : Callable(s)' => Callable(s)
    BY <2>1, CallEnds
  <2>4. \A t \in Txns : Dead(t)' <=> Dead(t)
    BY <2>1 DEF Dead, Moved, MayRun, txVars
  <2>5. \A s \in Redemptions : AllDead(s)' <=> AllDead(s)
    BY <2>1, <2>4 DEF AllDead, txVars
  <2>6. AllDead(r)
    BY <2>1 DEF CallIsAlone
  <2>7. OneLive' /\ RepayableIsClean' /\ CallIsAlone'
    BY <2>1, <2>3, <2>4, <2>5
    DEF OneLive, RepayableIsClean, Repayable, CallIsAlone, txVars
  <2>8. PermitIsRecorded'
    BY <2>1, <2>3, <2>4 DEF PermitIsRecorded, Submitted, txVars
  <2>9. AnswerIsTrue'
    <3>1. CASE pc = "calling" /\ cur = r
      <4>1. answer' = [kind |-> kind, tx |-> NoTx]
        BY <2>2, <3>1 DEF Reply
      <4> QED
        BY <2>1, <2>2, <2>3, <2>5, <2>6, <3>1, <4>1 DEF AnswerIsTrue, Submitted
    <3>2. CASE ~(pc = "calling" /\ cur = r)
      <4>1. answer' = answer
        BY <2>2, <3>2 DEF Reply
      <4> QED
        BY <2>1, <2>3, <2>4, <2>5, <4>1 DEF AnswerIsTrue, AllDead, Submitted, txVars, TypeOK
    <3> QED
      BY <3>1, <3>2
  <2>10. NonceIsDecisive' /\ ChainIsSound'
    BY <2>1 DEF NonceIsDecisive, ChainIsSound, Submitted, Moved, txVars
  <2> QED
    BY <2>7, <2>8, <2>9, <2>10
<1> QED
  BY <1>1, <1>2, SignInv DEF Signer

\* Every step keeps the inductive invariant.
LEMMA StepInv == TypeOK /\ PayoutInv /\ [Next]_vars => PayoutInv'
<1> SUFFICES ASSUME TypeOK, PayoutInv, [Next]_vars PROVE PayoutInv'
  OBVIOUS
<1>1. TypeOK'
  BY StepType
<1>2. CASE Next
  BY <1>1, <1>2, DrainInv, ConfirmInv, OutsideInv, SignerInv, ChainInv DEF Next
<1>3. CASE UNCHANGED vars
  <2>1. UNCHANGED <<status, permitNonce, permitDeadline, calls, txVars, now, pc, cur, answer>>
    BY <1>3 DEF vars, dbVars, rowVars, workerVars, chainVars
  <2>2. ChainIsSound'
    BY <2>1 DEF PayoutInv, ChainIsSound, Moved, txVars
  <2> QED
    BY <1>1, <2>1, <2>2, QuietStep
    DEF WorkerQuiet, Dead, Moved, MayRun, Callable, txVars, TypeOK
<1> QED
  BY <1>2, <1>3

\* The invariant holds in every reachable state: whatever may be paid again has
\* nothing alive (payout.rs, every way a row goes back to payout_pending).
THEOREM PayoutInvariant == Spec => []PayoutInv
<1>1. Spec => [](TypeOK /\ PayoutInv)
  BY InitType, InitInv, StepType, StepInv, PTL DEF Spec
<1> QED
  BY <1>1, PTL

\* Two transfers of one redemption would both have to be the one alive.
LEMMA InvGivesOnePayout == TypeOK /\ PayoutInv => AtMostOnePayout
<1> SUFFICES ASSUME TypeOK, PayoutInv, NEW t \in Txns, NEW u \in Txns,
                    Moved(t), Moved(u), paysFor[t] = paysFor[u]
             PROVE  t = u
  BY DEF AtMostOnePayout
<1>1. paysFor[t] # NoOne
  BY DEF PayoutInv, ChainIsSound, Moved
<1> QED
  BY <1>1 DEF PayoutInv, OneLive, Dead

\* No burn is ever paid by two transfers, for every number of redemptions and
\* transfers and every crash, lost reply, failed write and lagging node the
\* assumptions allow (drain_once, confirm_gasfree_payouts_once).
THEOREM OnePayoutPerBurn == Spec => []AtMostOnePayout
  BY TypeCorrect, PayoutInvariant, InvGivesOnePayout, PTL

-----------------------------------------------------------------------------
(* The books: what is booked as paid was transferred, no transfer settles  *)
(* two redemptions, and the worker keeps PayoutPromise when the relay      *)
(* names the transactions of its traces.  They rest on what a reference is *)
(* before it is booked: a transfer to the redemption's payee, and nobody   *)
(* else's reference.                                                       *)

\* A redemption is booked when it is paid, and then its reference has moved.
PaidIsBooked ==
  \A r \in Redemptions :
    /\ (status[r] = "paid") <=> (<<"custody_withdrawal", r>> \in events)
    /\ status[r] = "paid" => payoutRef[r] # NoTx /\ Moved(payoutRef[r])

\* Only a relay that names the wrong transaction makes a reference another's transfer.
NamesOwn == RelayHonest \/ ~GasFreeRail

\* A reference is a transfer to the payee, a trace the redemption's own permit.
RefsPay ==
  \A r \in Redemptions :
    /\ payoutRef[r] # NoTx =>
         /\ paysFor[payoutRef[r]] # NoOne
         /\ Payee[paysFor[payoutRef[r]]] = Payee[r]
         /\ NamesOwn => paysFor[payoutRef[r]] = r
    /\ traceId[r] # NoTx => paysFor[traceId[r]] = r

RefsDiffer ==
  \A r, s \in Redemptions : payoutRef[r] = payoutRef[s] /\ payoutRef[r] # NoTx => r = s

\* What the signer answers with pays the redemption it was called for.
AnswersPay ==
  /\ pc = "calling" /\ answer.kind \in {"paid", "submitted", "relay_refused"} =>
       paysFor[answer.tx] = cur
  /\ answer.kind = "paid" => ~GasFreeRail
  /\ pc \in {"settle", "deadline"} => GasFreeRail

\* Nothing is asked for or signed before the burn is in the ledger.
BurnIsFirst ==
  /\ \A r \in Redemptions :
       /\ status[r] \in {"payout_pending", "payout_submitted", "paid"} \/ calls[r] # None =>
            <<"burn_redeemed", r>> \in events
       /\ status[r] = "created" => <<"burn_redeemed", r>> \notin events
  /\ \A t \in Txns : paysFor[t] # NoOne => <<"burn_redeemed", paysFor[t]>> \in events

BookInv == PaidIsBooked /\ RefsPay /\ RefsDiffer /\ AnswersPay /\ BurnIsFirst

AllInv == TypeOK /\ PayoutInv /\ BookInv

-----------------------------------------------------------------------------
\* The worker waits only for a redemption it has claimed.
LEMMA WaitsForClaimed ==
  AllInv => /\ pc = "calling" => cur \in Redemptions /\ status[cur] = "payout_submitted"
            /\ \A t \in Txns : Moved(t) => paysFor[t] \in Redemptions
BY DEF AllInv, TypeOK, PayoutInv, AnswerIsTrue, Submitted, ChainIsSound, Moved

\* A settled permit's transaction pays the payee, and is the redemption's own when the
\* relay names it truly.
LEMMA SettlesWithTransfer ==
  ASSUME AllInv, NEW r \in Redemptions, SettleAsPaid(r)
  PROVE  \E t \in Txns :
           /\ t # NoTx /\ Moved(t) /\ paysFor[t] \in Redemptions /\ Payee[paysFor[t]] = Payee[r]
           /\ RelayHonest => paysFor[t] = r
           /\ \A s \in Redemptions : payoutRef[s] = t => s = r
           /\ PayIntent(r, t)
<1>1. traceId[r] \in Txns /\ paysFor[traceId[r]] = r
  BY DEF SettleAsPaid, AllInv, BookInv, RefsPay, TypeOK
<1>2. PICK t \in RelayNames(traceId[r]) :
        ConfirmedTransfer(t, r) /\ ~PaidByAnother(r, t) /\ PayIntent(r, t)
  BY DEF SettleAsPaid
<1>3. t \in Txns /\ (RelayHonest => t = traceId[r])
  BY <1>1, <1>2 DEF RelayNames
<1>4. Moved(t) /\ Payee[paysFor[t]] = Payee[r]
  BY <1>2 DEF ConfirmedTransfer
<1>5. \A s \in Redemptions : payoutRef[s] = t => s = r
  BY <1>2 DEF PaidByAnother
<1> QED
  BY <1>1, <1>2, <1>3, <1>4, <1>5, WaitsForClaimed, TxnsAssumption

\* Every step keeps PaidIsBooked.
LEMMA BookedStep ==
  ASSUME AllInv, [Next]_vars
  PROVE  PaidIsBooked'
<1> USE RedemptionsAssumption, TxnsAssumption, WaitsForClaimed DEF AllInv, TypeOK, BookInv,
        NoOne, None, PaidIsBooked, Moved, Submitted, rowVars, dbVars, workerVars, txVars,
        chainVars
<1>1. ASSUME OnPaid PROVE PaidIsBooked'
  BY <1>1 DEF OnPaid, Answered, Write, SetRef, NextInPass
<1>2. ASSUME OnSubmitted PROVE PaidIsBooked'
  BY <1>2 DEF OnSubmitted, Answered, Write, RecordPermit, SetPermit, EndPass
<1>3. ASSUME OnRelayRefused PROVE PaidIsBooked'
  BY <1>3 DEF OnRelayRefused, Answered, Write, RecordPermit, SetPermit, EndPass
<1>4. ASSUME OnFloatNotActive PROVE PaidIsBooked'
  BY <1>4 DEF OnFloatNotActive, Answered, Write, BackToPending, SetStatus, EndPass, Submitted
<1>5. ASSUME OnRefused PROVE PaidIsBooked'
  BY <1>5 DEF OnRefused, Answered, Write, BackToPending, SetStatus, NextInPass, Submitted
<1>6. ASSUME OnAmbiguous PROVE PaidIsBooked'
  BY <1>6 DEF OnAmbiguous, Write, HoldFloat, EndPass, NextInPass
<1>7. ASSUME NEW r \in Redemptions, Claim(r) PROVE PaidIsBooked'
  BY <1>7 DEF Claim, SetClaimed
<1>8. ASSUME NEW r \in Redemptions, ClaimErrors(r) PROVE PaidIsBooked'
  BY <1>8 DEF ClaimErrors, Write, SetClaimed
<1>9. ASSUME NEW r \in Redemptions, ConfirmPaid(r) PROVE PaidIsBooked'
  BY <1>9 DEF ConfirmPaid, PayIntent, Submitted
<1>10. ASSUME NEW r \in Redemptions, SettleAsPaid(r) PROVE PaidIsBooked'
  <2>1. PICK t \in Txns :
          /\ t # NoTx /\ Moved(t) /\ paysFor[t] \in Redemptions /\ Payee[paysFor[t]] = Payee[r]
          /\ RelayHonest => paysFor[t] = r
          /\ \A s \in Redemptions : payoutRef[s] = t => s = r
          /\ PayIntent(r, t)
    BY <1>10, SettlesWithTransfer
  <2>2. UNCHANGED <<workerVars, calls, chainVars>> /\ GasFreeRail
    BY <1>10 DEF SettleAsPaid, AnswersPay
  <2> QED
    BY <2>1, <2>2 DEF PayIntent
<1>11. ASSUME NEW r \in Redemptions, ReturnExpired(r) PROVE PaidIsBooked'
  BY <1>11 DEF ReturnExpired, Write, SetPermit, NextPermit, Submitted
<1>12. ASSUME NEW r \in Redemptions, HandToHuman(r) PROVE PaidIsBooked'
  BY <1>12 DEF HandToHuman, Write, NextPermit
<1>13. ASSUME NEW r \in Redemptions, ConfirmBurn(r) PROVE PaidIsBooked'
  BY <1>13 DEF ConfirmBurn, SetStatus
<1>14. ASSUME NEW r \in Redemptions, MismatchedBurn(r) PROVE PaidIsBooked'
  BY <1>14 DEF MismatchedBurn, SetStatus
<1>15. ASSUME NEW t \in Txns, Mine(t) PROVE PaidIsBooked'
  <2>1. \A u \in Txns : Moved(u) => fate'[u] = "moved"
    BY <1>15 DEF Mine, Run, MayRun
  <2>2. UNCHANGED <<status, payoutRef, events>>
    BY <1>15 DEF Mine
  <2>3. \A r \in Redemptions : payoutRef[r] # NoTx => payoutRef[r] \in Txns
    OBVIOUS
  <2> QED
    BY <2>1, <2>2, <2>3
<1>16. ASSUME NEW t \in Txns, RunPermit(t) PROVE PaidIsBooked'
  <2>1. UNCHANGED <<status, events, payoutRef>>
    BY <1>16 DEF RunPermit, dbVars
  <2>2. \A u : Moved(u) => Moved(u)'
    BY <1>16 DEF RunPermit, Run, MayRun
  <2> QED
    BY <2>1, <2>2
<1>17. ASSUME NEW r \in Redemptions, HumanReturns(r) PROVE PaidIsBooked'
  BY <1>17 DEF HumanReturns, LeftToHuman, SetStatus, Submitted
<1>18. ASSUME NEW r \in Redemptions, NEW t \in Txns, HumanSetsRef(r, t) PROVE PaidIsBooked'
  BY <1>18 DEF HumanSetsRef, LeftToHuman, SetRef, SignedFor, Submitted
<1>19. ASSUME \/ ReadBreaker \/ CheckPermits \/ SelectDue \/ EndOfRows \/ DrainReadFails
              \/ EndOfConfirm \/ EndOfSettle \/ SpendElsewhere \/ Tick \/ SetHalted
              \/ Crash
     PROVE  PaidIsBooked'
  BY <1>19
     DEF ReadBreaker, CheckPermits, SelectDue, EndOfRows, EndPass, DrainReadFails,
         EndOfConfirm, EndOfSettle, SpendElsewhere, Tick, SetHalted, Crash
<1>20. ASSUME NEW r \in Redemptions,
            \/ SkipOverCap(r) \/ StopAtDailyCap(r) \/ SettleByNonce(r) \/ NonceUnread(r)
            \/ SignerRefuses(r) \/ CallLost(r)
     PROVE  PaidIsBooked'
  BY <1>20
     DEF SkipOverCap, StopAtDailyCap, EndPass, SettleByNonce, NonceUnread, NextPermit,
         SignerRefuses, CallOver, Reply, CallLost
<1>21. ASSUME NEW r \in Redemptions, NEW t \in Txns,
            \/ SignerBroadcasts(r, t) \/ SignerSignsPermit(r, t)
     PROVE  PaidIsBooked'
  BY <1>21 DEF SignerBroadcasts, CanSign, CallOver, Sign, Reply, SignerSignsPermit
<1>22. CASE UNCHANGED vars
  BY <1>22 DEF vars
<1> HIDE DEF AllInv, TypeOK, BookInv, NoOne, None, PaidIsBooked, Moved, Submitted, rowVars,
             dbVars, workerVars, txVars, chainVars
<1> QED
  BY <1>1, <1>2, <1>3, <1>4, <1>5, <1>6, <1>7, <1>8, <1>9, <1>10, <1>11, <1>12, <1>13, <1>14,
     <1>15, <1>16, <1>17, <1>18, <1>19, <1>20, <1>21, <1>22
     DEF Next, Drain, Confirm, Settle, Watcher, Signer, Chain, Human

\* Every step keeps RefsPay.
LEMMA RefsStep ==
  ASSUME AllInv, [Next]_vars
  PROVE  RefsPay'
<1> USE RedemptionsAssumption, TxnsAssumption, WaitsForClaimed DEF AllInv, TypeOK, BookInv,
        NoOne, None, RefsPay, AnswersPay, NamesOwn, rowVars, dbVars, workerVars, txVars,
        chainVars
<1>1. ASSUME OnPaid PROVE RefsPay'
  BY <1>1 DEF OnPaid, Answered, Write, SetRef, NextInPass
<1>2. ASSUME OnSubmitted PROVE RefsPay'
  BY <1>2 DEF OnSubmitted, Answered, Write, RecordPermit, SetPermit, EndPass
<1>3. ASSUME OnRelayRefused PROVE RefsPay'
  BY <1>3 DEF OnRelayRefused, Answered, Write, RecordPermit, SetPermit, EndPass
<1>4. ASSUME OnFloatNotActive PROVE RefsPay'
  BY <1>4 DEF OnFloatNotActive, Answered, Write, BackToPending, SetStatus, EndPass, Submitted
<1>5. ASSUME OnRefused PROVE RefsPay'
  BY <1>5 DEF OnRefused, Answered, Write, BackToPending, SetStatus, NextInPass, Submitted
<1>6. ASSUME OnAmbiguous PROVE RefsPay'
  BY <1>6 DEF OnAmbiguous, Write, HoldFloat, EndPass, NextInPass
<1>7. ASSUME NEW r \in Redemptions, Claim(r) PROVE RefsPay'
  BY <1>7 DEF Claim, SetClaimed
<1>8. ASSUME NEW r \in Redemptions, ClaimErrors(r) PROVE RefsPay'
  BY <1>8 DEF ClaimErrors, Write, SetClaimed
<1>9. ASSUME NEW r \in Redemptions, ConfirmPaid(r) PROVE RefsPay'
  BY <1>9 DEF ConfirmPaid, PayIntent, Submitted
<1>10. ASSUME NEW r \in Redemptions, SettleAsPaid(r) PROVE RefsPay'
  <2>1. PICK t \in Txns :
          /\ t # NoTx /\ Moved(t) /\ paysFor[t] \in Redemptions /\ Payee[paysFor[t]] = Payee[r]
          /\ RelayHonest => paysFor[t] = r
          /\ \A s \in Redemptions : payoutRef[s] = t => s = r
          /\ PayIntent(r, t)
    BY <1>10, SettlesWithTransfer
  <2>2. UNCHANGED <<workerVars, calls, chainVars>> /\ GasFreeRail
    BY <1>10 DEF SettleAsPaid, AnswersPay
  <2> QED
    BY <2>1, <2>2 DEF PayIntent
<1>11. ASSUME NEW r \in Redemptions, ReturnExpired(r) PROVE RefsPay'
  BY <1>11 DEF ReturnExpired, Write, SetPermit, NextPermit, Submitted
<1>12. ASSUME NEW r \in Redemptions, HandToHuman(r) PROVE RefsPay'
  BY <1>12 DEF HandToHuman, Write, NextPermit
<1>13. ASSUME NEW r \in Redemptions, NEW t \in Txns, SignerBroadcasts(r, t) PROVE RefsPay'
  BY <1>13 DEF SignerBroadcasts, CanSign, CallOver, Sign, Reply
<1>14. ASSUME NEW r \in Redemptions, NEW t \in Txns, SignerSignsPermit(r, t) PROVE RefsPay'
  BY <1>14 DEF SignerSignsPermit, CanSign, CallOver, Sign, Reply
<1>15. ASSUME NEW r \in Redemptions, NEW t \in Txns, HumanSetsRef(r, t) PROVE RefsPay'
  BY <1>15 DEF HumanSetsRef, LeftToHuman, SetRef, SignedFor, Submitted
<1>16. ASSUME \/ ReadBreaker \/ CheckPermits \/ SelectDue \/ EndOfRows \/ DrainReadFails
              \/ EndOfConfirm \/ EndOfSettle \/ SpendElsewhere \/ Tick \/ SetHalted
              \/ Crash
     PROVE  RefsPay'
  BY <1>16
     DEF ReadBreaker, CheckPermits, SelectDue, EndOfRows, EndPass, DrainReadFails,
         EndOfConfirm, EndOfSettle, SpendElsewhere, Tick, SetHalted, Crash
<1>17. ASSUME NEW r \in Redemptions,
            \/ SkipOverCap(r) \/ StopAtDailyCap(r) \/ SettleByNonce(r) \/ NonceUnread(r)
            \/ ConfirmBurn(r) \/ MismatchedBurn(r) \/ SignerRefuses(r) \/ CallLost(r)
            \/ HumanReturns(r)
     PROVE  RefsPay'
  BY <1>17
     DEF SkipOverCap, StopAtDailyCap, EndPass, SettleByNonce, NonceUnread, NextPermit,
         ConfirmBurn, SetStatus, MismatchedBurn, SignerRefuses, CallOver, Reply, CallLost,
         HumanReturns, LeftToHuman, Submitted
<1>18. ASSUME NEW t \in Txns,
            \/ Mine(t) \/ RunPermit(t)
     PROVE  RefsPay'
  BY <1>18 DEF Mine, Run, MayRun, RunPermit
<1>19. CASE UNCHANGED vars
  BY <1>19 DEF vars
<1> HIDE DEF AllInv, TypeOK, BookInv, NoOne, None, RefsPay, AnswersPay, NamesOwn, rowVars,
             dbVars, workerVars, txVars, chainVars
<1> QED
  BY <1>1, <1>2, <1>3, <1>4, <1>5, <1>6, <1>7, <1>8, <1>9, <1>10, <1>11, <1>12, <1>13, <1>14,
     <1>15, <1>16, <1>17, <1>18, <1>19
     DEF Next, Drain, Confirm, Settle, Watcher, Signer, Chain, Human

\* Every step keeps RefsDiffer.
LEMMA DifferStep ==
  ASSUME AllInv, [Next]_vars
  PROVE  RefsDiffer'
<1> USE RedemptionsAssumption, TxnsAssumption, WaitsForClaimed DEF AllInv, TypeOK, BookInv,
        NoOne, None, RefsPay, RefsDiffer, AnswersPay, NamesOwn, Write, SetClaimed, rowVars,
        dbVars, workerVars, txVars, chainVars
<1>1. ASSUME OnPaid PROVE RefsDiffer'
  BY <1>1 DEF OnPaid, Answered, Write, SetRef, NextInPass
<1>2. ASSUME NEW r \in Redemptions, ConfirmPaid(r) PROVE RefsDiffer'
  BY <1>2 DEF ConfirmPaid, PayIntent, Submitted
<1>3. ASSUME NEW r \in Redemptions, SettleAsPaid(r) PROVE RefsDiffer'
  <2>1. PICK t \in Txns :
          /\ t # NoTx /\ Moved(t) /\ paysFor[t] \in Redemptions /\ Payee[paysFor[t]] = Payee[r]
          /\ RelayHonest => paysFor[t] = r
          /\ \A s \in Redemptions : payoutRef[s] = t => s = r
          /\ PayIntent(r, t)
    BY <1>3, SettlesWithTransfer
  <2>2. UNCHANGED <<workerVars, calls, chainVars>> /\ GasFreeRail
    BY <1>3 DEF SettleAsPaid, AnswersPay
  <2> QED
    BY <2>1, <2>2 DEF PayIntent
<1>4. ASSUME NEW r \in Redemptions, NEW t \in Txns, HumanSetsRef(r, t) PROVE RefsDiffer'
  BY <1>4 DEF HumanSetsRef, LeftToHuman, SetRef, SignedFor, Submitted
<1>5. ASSUME \/ ReadBreaker \/ CheckPermits \/ SelectDue \/ EndOfRows \/ DrainReadFails
             \/ OnSubmitted \/ OnRelayRefused \/ OnFloatNotActive \/ OnRefused
             \/ OnAmbiguous \/ EndOfConfirm \/ EndOfSettle \/ SpendElsewhere \/ Tick
     PROVE  RefsDiffer'
  BY <1>5
     DEF ReadBreaker, CheckPermits, SelectDue, EndOfRows, EndPass, DrainReadFails,
         OnSubmitted, Answered, Write, RecordPermit, SetPermit, OnRelayRefused,
         OnFloatNotActive, BackToPending, SetStatus, Submitted, OnRefused, NextInPass,
         OnAmbiguous, HoldFloat, EndOfConfirm, EndOfSettle, SpendElsewhere, Tick
<1>6. ASSUME \/ SetHalted \/ Crash
     PROVE  RefsDiffer'
  BY <1>6 DEF SetHalted, Crash
<1>7. ASSUME NEW r \in Redemptions,
            \/ SkipOverCap(r) \/ StopAtDailyCap(r) \/ Claim(r) \/ ClaimErrors(r)
            \/ SettleByNonce(r) \/ ReturnExpired(r) \/ HandToHuman(r) \/ NonceUnread(r)
            \/ ConfirmBurn(r) \/ MismatchedBurn(r) \/ SignerRefuses(r) \/ CallLost(r)
            \/ HumanReturns(r)
     PROVE  RefsDiffer'
  BY <1>7
     DEF SkipOverCap, StopAtDailyCap, EndPass, Claim, SetClaimed, ClaimErrors, Write,
         SettleByNonce, ReturnExpired, SetPermit, NextPermit, Submitted, HandToHuman,
         NonceUnread, ConfirmBurn, SetStatus, MismatchedBurn, SignerRefuses, CallOver, Reply,
         CallLost, HumanReturns, LeftToHuman
<1>8. ASSUME NEW t \in Txns,
            \/ Mine(t) \/ RunPermit(t)
     PROVE  RefsDiffer'
  BY <1>8 DEF Mine, Run, MayRun, RunPermit
<1>9. ASSUME NEW r \in Redemptions, NEW t \in Txns,
            \/ SignerBroadcasts(r, t) \/ SignerSignsPermit(r, t)
     PROVE  RefsDiffer'
  BY <1>9 DEF SignerBroadcasts, CanSign, CallOver, Sign, Reply, SignerSignsPermit
<1>10. CASE UNCHANGED vars
  BY <1>10 DEF vars
<1> HIDE DEF AllInv, TypeOK, BookInv, NoOne, None, RefsPay, RefsDiffer, AnswersPay, NamesOwn,
             Write, SetClaimed, rowVars, dbVars, workerVars, txVars, chainVars
<1> QED
  BY <1>1, <1>2, <1>3, <1>4, <1>5, <1>6, <1>7, <1>8, <1>9, <1>10
     DEF Next, Drain, Confirm, Settle, Watcher, Signer, Chain, Human

\* Every step keeps AnswersPay.
LEMMA AnswersStep ==
  ASSUME AllInv, [Next]_vars
  PROVE  AnswersPay'
<1> USE RedemptionsAssumption, TxnsAssumption, WaitsForClaimed DEF AllInv, TypeOK, BookInv,
        NoOne, None, AnswersPay, NoAnswer, rowVars, dbVars, workerVars, txVars, chainVars
<1>1. ASSUME OnPaid PROVE AnswersPay'
  BY <1>1 DEF OnPaid, Answered, Write, SetRef, NextInPass
<1>2. ASSUME OnSubmitted PROVE AnswersPay'
  BY <1>2 DEF OnSubmitted, Answered, Write, RecordPermit, SetPermit, EndPass
<1>3. ASSUME OnRelayRefused PROVE AnswersPay'
  BY <1>3 DEF OnRelayRefused, Answered, Write, RecordPermit, SetPermit, EndPass
<1>4. ASSUME OnFloatNotActive PROVE AnswersPay'
  BY <1>4 DEF OnFloatNotActive, Answered, Write, BackToPending, SetStatus, EndPass, Submitted
<1>5. ASSUME OnRefused PROVE AnswersPay'
  BY <1>5 DEF OnRefused, Answered, Write, BackToPending, SetStatus, NextInPass, Submitted
<1>6. ASSUME OnAmbiguous PROVE AnswersPay'
  BY <1>6 DEF OnAmbiguous, Write, HoldFloat, EndPass, NextInPass
<1>7. ASSUME NEW r \in Redemptions, Claim(r) PROVE AnswersPay'
  BY <1>7 DEF Claim, SetClaimed
<1>8. ASSUME EndOfConfirm PROVE AnswersPay'
  BY <1>8 DEF EndOfConfirm
<1>9. ASSUME NEW r \in Redemptions, SignerRefuses(r) PROVE AnswersPay'
  BY <1>9 DEF SignerRefuses, CallOver, Reply
<1>10. ASSUME NEW r \in Redemptions, NEW t \in Txns, SignerBroadcasts(r, t) PROVE AnswersPay'
  BY <1>10 DEF SignerBroadcasts, CanSign, CallOver, Sign, Reply
<1>11. ASSUME NEW r \in Redemptions, NEW t \in Txns, SignerSignsPermit(r, t) PROVE AnswersPay'
  BY <1>11 DEF SignerSignsPermit, CanSign, CallOver, Sign, Reply
<1>12. ASSUME Crash PROVE AnswersPay'
  BY <1>12 DEF Crash
<1>13. ASSUME \/ ReadBreaker \/ CheckPermits \/ SelectDue \/ EndOfRows \/ DrainReadFails
              \/ EndOfSettle \/ SpendElsewhere \/ Tick \/ SetHalted
     PROVE  AnswersPay'
  BY <1>13
     DEF ReadBreaker, CheckPermits, SelectDue, EndOfRows, EndPass, DrainReadFails,
         EndOfSettle, SpendElsewhere, Tick, SetHalted
<1>14. ASSUME NEW r \in Redemptions,
            \/ SkipOverCap(r) \/ StopAtDailyCap(r) \/ ClaimErrors(r) \/ ConfirmPaid(r)
            \/ SettleAsPaid(r) \/ SettleByNonce(r) \/ ReturnExpired(r) \/ HandToHuman(r)
            \/ NonceUnread(r) \/ ConfirmBurn(r) \/ MismatchedBurn(r) \/ CallLost(r)
            \/ HumanReturns(r)
     PROVE  AnswersPay'
  BY <1>14
     DEF SkipOverCap, StopAtDailyCap, EndPass, ClaimErrors, Write, SetClaimed, ConfirmPaid,
         PayIntent, Submitted, SettleAsPaid, PermitRow, SettleByNonce, ReturnExpired,
         SetPermit, NextPermit, HandToHuman, NonceUnread, ConfirmBurn, SetStatus,
         MismatchedBurn, CallLost, CallOver, HumanReturns, LeftToHuman
<1>15. ASSUME NEW t \in Txns,
            \/ Mine(t) \/ RunPermit(t)
     PROVE  AnswersPay'
  BY <1>15 DEF Mine, Run, MayRun, RunPermit
<1>16. ASSUME NEW r \in Redemptions, NEW t \in Txns, HumanSetsRef(r, t) PROVE AnswersPay'
  BY <1>16 DEF HumanSetsRef, LeftToHuman, SetRef, SignedFor, Submitted
<1>17. CASE UNCHANGED vars
  BY <1>17 DEF vars
<1> HIDE DEF AllInv, TypeOK, BookInv, NoOne, None, AnswersPay, NoAnswer, rowVars, dbVars,
             workerVars, txVars, chainVars
<1> QED
  BY <1>1, <1>2, <1>3, <1>4, <1>5, <1>6, <1>7, <1>8, <1>9, <1>10, <1>11, <1>12, <1>13, <1>14,
     <1>15, <1>16, <1>17 DEF Next, Drain, Confirm, Settle, Watcher, Signer, Chain, Human

\* Every step keeps BurnIsFirst.
LEMMA BurnStep ==
  ASSUME AllInv, [Next]_vars
  PROVE  BurnIsFirst'
<1> USE RedemptionsAssumption, TxnsAssumption, WaitsForClaimed DEF AllInv, TypeOK, BookInv,
        NoOne, None, BurnIsFirst, rowVars, dbVars, workerVars, txVars, chainVars
<1>1. ASSUME OnFloatNotActive PROVE BurnIsFirst'
  BY <1>1 DEF OnFloatNotActive, Answered, Write, BackToPending, SetStatus, EndPass, Submitted
<1>2. ASSUME OnRefused PROVE BurnIsFirst'
  BY <1>2 DEF OnRefused, Answered, Write, BackToPending, SetStatus, NextInPass, Submitted
<1>3. ASSUME NEW r \in Redemptions, Claim(r) PROVE BurnIsFirst'
  BY <1>3 DEF Claim, SetClaimed
<1>4. ASSUME NEW r \in Redemptions, ClaimErrors(r) PROVE BurnIsFirst'
  BY <1>4 DEF ClaimErrors, Write, SetClaimed
<1>5. ASSUME NEW r \in Redemptions, ConfirmPaid(r) PROVE BurnIsFirst'
  BY <1>5 DEF ConfirmPaid, PayIntent, Submitted
<1>6. ASSUME NEW r \in Redemptions, SettleAsPaid(r) PROVE BurnIsFirst'
  BY <1>6 DEF SettleAsPaid, PayIntent, PermitRow, Submitted
<1>7. ASSUME NEW r \in Redemptions, ReturnExpired(r) PROVE BurnIsFirst'
  BY <1>7 DEF ReturnExpired, Write, SetPermit, NextPermit, Submitted
<1>8. ASSUME NEW r \in Redemptions, ConfirmBurn(r) PROVE BurnIsFirst'
  BY <1>8 DEF ConfirmBurn, SetStatus
<1>9. ASSUME NEW r \in Redemptions, MismatchedBurn(r) PROVE BurnIsFirst'
  BY <1>9 DEF MismatchedBurn, SetStatus
<1>10. ASSUME NEW r \in Redemptions, SignerRefuses(r) PROVE BurnIsFirst'
  BY <1>10 DEF SignerRefuses, CallOver, Reply
<1>11. ASSUME NEW r \in Redemptions, CallLost(r) PROVE BurnIsFirst'
  BY <1>11 DEF CallLost, CallOver
<1>12. ASSUME NEW r \in Redemptions, NEW t \in Txns, SignerBroadcasts(r, t) PROVE BurnIsFirst'
  <2>1. \A u \in Txns : paysFor'[u] = IF u = t THEN r ELSE paysFor[u]
    BY <1>12 DEF SignerBroadcasts, Sign
  <2>2. <<"burn_redeemed", r>> \in events
    BY <1>12 DEF SignerBroadcasts, CanSign, Callable
  <2>3. UNCHANGED <<status, events>> /\ \A s \in Redemptions : calls'[s] # None => calls[s] # None
    BY <1>12 DEF SignerBroadcasts, CallOver
  <2> QED
    BY <2>1, <2>2, <2>3
<1>13. ASSUME NEW r \in Redemptions, NEW t \in Txns, SignerSignsPermit(r, t)
      PROVE  BurnIsFirst'
  <2>1. \A u \in Txns : paysFor'[u] = IF u = t THEN r ELSE paysFor[u]
    BY <1>13 DEF SignerSignsPermit, Sign
  <2>2. <<"burn_redeemed", r>> \in events
    BY <1>13 DEF SignerSignsPermit, CanSign, Callable
  <2>3. UNCHANGED <<status, events>> /\ \A s \in Redemptions : calls'[s] # None => calls[s] # None
    BY <1>13 DEF SignerSignsPermit, CallOver
  <2> QED
    BY <2>1, <2>2, <2>3
<1>14. ASSUME NEW r \in Redemptions, HumanReturns(r) PROVE BurnIsFirst'
  BY <1>14 DEF HumanReturns, LeftToHuman, SetStatus, Submitted
<1>15. ASSUME \/ ReadBreaker \/ CheckPermits \/ SelectDue \/ EndOfRows \/ DrainReadFails
              \/ OnPaid \/ OnSubmitted \/ OnRelayRefused \/ OnAmbiguous \/ EndOfConfirm
              \/ EndOfSettle \/ SpendElsewhere \/ Tick \/ SetHalted
     PROVE  BurnIsFirst'
  BY <1>15
     DEF ReadBreaker, CheckPermits, SelectDue, EndOfRows, EndPass, DrainReadFails, OnPaid,
         Answered, Write, SetRef, NextInPass, OnSubmitted, RecordPermit, SetPermit,
         OnRelayRefused, OnAmbiguous, HoldFloat, EndOfConfirm, EndOfSettle, SpendElsewhere,
         Tick, SetHalted
<1>16. ASSUME Crash PROVE BurnIsFirst'
  BY <1>16 DEF Crash
<1>17. ASSUME NEW r \in Redemptions,
            \/ SkipOverCap(r) \/ StopAtDailyCap(r) \/ SettleByNonce(r) \/ HandToHuman(r)
            \/ NonceUnread(r)
     PROVE  BurnIsFirst'
  BY <1>17
     DEF SkipOverCap, StopAtDailyCap, EndPass, SettleByNonce, HandToHuman, Write, NextPermit,
         NonceUnread
<1>18. ASSUME NEW t \in Txns,
            \/ Mine(t) \/ RunPermit(t)
     PROVE  BurnIsFirst'
  BY <1>18 DEF Mine, Run, MayRun, RunPermit
<1>19. ASSUME NEW r \in Redemptions, NEW t \in Txns, HumanSetsRef(r, t) PROVE BurnIsFirst'
  BY <1>19 DEF HumanSetsRef, LeftToHuman, SetRef, SignedFor, Submitted
<1>20. CASE UNCHANGED vars
  BY <1>20 DEF vars
<1> HIDE DEF AllInv, TypeOK, BookInv, NoOne, None, BurnIsFirst, rowVars, dbVars, workerVars,
             txVars, chainVars
<1> QED
  BY <1>1, <1>2, <1>3, <1>4, <1>5, <1>6, <1>7, <1>8, <1>9, <1>10, <1>11, <1>12, <1>13, <1>14,
     <1>15, <1>16, <1>17, <1>18, <1>19, <1>20
     DEF Next, Drain, Confirm, Settle, Watcher, Signer, Chain, Human

LEMMA BookInit == Init => BookInv
<1> SUFFICES ASSUME Init PROVE BookInv
  OBVIOUS
<1>1. PaidIsBooked /\ RefsPay /\ RefsDiffer
  BY DEF Init, PaidIsBooked, RefsPay, RefsDiffer
<1>2. AnswersPay
  BY DEF Init, AnswersPay, NoAnswer
<1>3. BurnIsFirst
  BY DEF Init, BurnIsFirst
<1> QED
  BY <1>1, <1>2, <1>3 DEF BookInv

LEMMA AllInvariant == Spec => []AllInv
<1>1. Init => AllInv
  BY InitType, InitInv, BookInit DEF AllInv
<1>2. AllInv /\ [Next]_vars => AllInv'
  BY StepType, StepInv, BookedStep, RefsStep, DifferStep, AnswersStep, BurnStep DEF AllInv, BookInv
<1> QED
  BY <1>1, <1>2, PTL DEF Spec

\* What is booked as paid was moved to the payee, and the reserve is debited for nothing
\* else (payout.rs, pay_intent), for any rail, relay and failing write.
THEOREM BookedWasTransferred == Spec => []PaidWasTransferred
<1>1. AllInv => PaidWasTransferred
  BY DEF AllInv, BookInv, PaidIsBooked, RefsPay, PaidWasTransferred, ConfirmedTransfer
<1> QED
  BY <1>1, AllInvariant, PTL

\* One transfer settles one redemption, even when the relay names the wrong one
\* (payout.rs, paid_by_another).
THEOREM TransfersAreNotShared == Spec => []NoSharedTransfer
<1>1. AllInv => NoSharedTransfer
  BY DEF AllInv, BookInv, PaidIsBooked, RefsDiffer, NoSharedTransfer
<1> QED
  BY <1>1, AllInvariant, PTL

-----------------------------------------------------------------------------
(* The promise.                                                            *)

Owed == {r \in Redemptions : <<"burn_redeemed", r>> \in events}
Sent == {p \in Redemptions \X Txns : paysFor[p[2]] = p[1] /\ Moved(p[2])}
Booked == {r \in Redemptions : <<"custody_withdrawal", r>> \in events}

\* What a step does to what is owed, sent and booked: at most one of the three, once.
Promised ==
  \/ UNCHANGED <<Owed, Sent, Booked>>
  \/ \E r \in Redemptions :
       \/ r \notin Owed /\ Owed' = Owed \cup {r} /\ UNCHANGED <<Sent, Booked>>
       \/ (\E p \in Sent : p[1] = r) /\ Booked' = Booked \cup {r} /\ UNCHANGED <<Owed, Sent>>
       \/ \E t \in Txns :
            /\ r \in Owed
            /\ \A p \in Sent : p[1] # r /\ p[2] # t
            /\ Sent' = Sent \cup {<<r, t>>}
            /\ UNCHANGED <<Owed, Booked>>

\* A transfer that runs is the first to run for its redemption.
LEMMA RunIsFirst ==
  ASSUME AllInv, NEW t \in Txns, MayRun(t), UNCHANGED <<events, paysFor>>,
         fate' = [fate EXCEPT ![t] = "moved"]
  PROVE  Promised
<1> DEFINE r == paysFor[t]
<1> USE DEF AllInv, TypeOK
<1>1. r \in Redemptions /\ r # NoOne /\ fate[t] = "none"
  BY DEF MayRun
<1>2. r \in Owed
  BY <1>1 DEF BookInv, BurnIsFirst, Owed
<1>3. \A u \in Txns : Moved(u) => paysFor[u] # r /\ u # t
  BY <1>1 DEF PayoutInv, OneLive, Dead, Moved, NoOne, MayRun
<1>4. \A p \in Sent : p[1] # r /\ p[2] # t
  BY <1>3 DEF Sent
<1>5. Sent' = Sent \cup {<<r, t>>}
  BY <1>1 DEF Sent, Moved
<1>6. UNCHANGED <<Owed, Booked>>
  BY DEF Owed, Booked
<1> QED
  BY <1>1, <1>2, <1>4, <1>5, <1>6 DEF Promised

\* A redemption is booked after its own transfer.
LEMMA BookIsAfter ==
  ASSUME AllInv, NEW r \in Redemptions, NEW t \in Txns, paysFor[t] = r, Moved(t),
         PayIntent(r, t), UNCHANGED txVars
  PROVE  Promised
<1>1. \E p \in Sent : p[1] = r
  <2>1. <<r, t>> \in Sent
    BY DEF Sent
  <2> QED
    BY <2>1
<1>2. Booked' = Booked \cup {r}
  BY DEF PayIntent, Booked
<1>3. Owed' = Owed /\ Sent' = Sent
  BY DEF PayIntent, Owed, Sent, Moved, txVars
<1> QED
  BY <1>1, <1>2, <1>3 DEF Promised

\* Otherwise nothing of the three changes.
LEMMA RestIsPromised == ASSUME UNCHANGED <<events, paysFor, fate>> PROVE Promised
BY DEF Promised, Owed, Sent, Booked, Moved

\* When the relay names the transactions of its traces, every step is a promised one.
LEMMA StepIsPromised ==
  ASSUME RelayHonest, AllInv, [Next]_vars
  PROVE  Promised
<1> USE RedemptionsAssumption, TxnsAssumption, RestIsPromised DEF AllInv, rowVars, dbVars,
        workerVars, txVars, chainVars
<1>1. ASSUME OnPaid PROVE Promised
  BY <1>1 DEF OnPaid, Answered, Write, SetRef, NextInPass
<1>2. ASSUME OnSubmitted PROVE Promised
  BY <1>2 DEF OnSubmitted, Answered, Write, RecordPermit, SetPermit, EndPass
<1>3. ASSUME OnRelayRefused PROVE Promised
  BY <1>3 DEF OnRelayRefused, Answered, Write, RecordPermit, SetPermit, EndPass
<1>4. ASSUME OnFloatNotActive PROVE Promised
  BY <1>4 DEF OnFloatNotActive, Answered, Write, BackToPending, SetStatus, EndPass, Submitted
<1>5. ASSUME OnRefused PROVE Promised
  BY <1>5 DEF OnRefused, Answered, Write, BackToPending, SetStatus, NextInPass, Submitted
<1>6. ASSUME OnAmbiguous PROVE Promised
  BY <1>6 DEF OnAmbiguous, Write, HoldFloat, EndPass, NextInPass
<1>7. ASSUME NEW r \in Redemptions, Claim(r) PROVE Promised
  BY <1>7 DEF Claim, SetClaimed
<1>8. ASSUME NEW r \in Redemptions, ClaimErrors(r) PROVE Promised
  BY <1>8 DEF ClaimErrors, Write, SetClaimed
<1>9. ASSUME NEW r \in Redemptions, ReturnExpired(r) PROVE Promised
  BY <1>9 DEF ReturnExpired, Write, SetPermit, NextPermit, Submitted
<1>10. ASSUME NEW r \in Redemptions, HandToHuman(r) PROVE Promised
  BY <1>10 DEF HandToHuman, Write, NextPermit
<1>11. ASSUME NEW r \in Redemptions, ConfirmBurn(r) PROVE Promised
  <2>1. r \notin Owed /\ Owed' = Owed \cup {r}
    BY <1>11 DEF ConfirmBurn, BookInv, BurnIsFirst, Owed
  <2>2. UNCHANGED <<Sent, Booked>>
    BY <1>11 DEF ConfirmBurn, Sent, Booked, Moved
  <2> QED
    BY <2>1, <2>2 DEF Promised
<1>12. ASSUME NEW r \in Redemptions, ConfirmPaid(r) PROVE Promised
  <2>1. payoutRef[r] \in Txns /\ paysFor[payoutRef[r]] = r /\ Moved(payoutRef[r])
    BY <1>12 DEF ConfirmPaid, TypeOK, BookInv, RefsPay, NamesOwn
  <2> QED
    BY <1>12, <2>1, BookIsAfter DEF ConfirmPaid
<1>13. ASSUME NEW r \in Redemptions, SettleAsPaid(r) PROVE Promised
  <2>1. PICK t \in Txns : Moved(t) /\ paysFor[t] = r /\ PayIntent(r, t)
    BY <1>13, SettlesWithTransfer
  <2> QED
    BY <1>13, <2>1, BookIsAfter DEF SettleAsPaid
<1>14. ASSUME NEW t \in Txns, Mine(t) PROVE Promised
  <2>1. UNCHANGED <<events, paysFor>> /\ MayRun(t)
    BY <1>14 DEF Mine, Run
  <2>2. CASE fate' = [fate EXCEPT ![t] = "moved"]
    BY <2>1, <2>2, RunIsFirst DEF AllInv
  <2>3. CASE fate' = [fate EXCEPT ![t] = "reverted"]
    <3>1. Sent' = Sent
      BY <2>1, <2>3 DEF Sent, Moved, MayRun, AllInv, TypeOK
    <3>2. Owed' = Owed /\ Booked' = Booked
      BY <2>1 DEF Owed, Booked
    <3> QED
      BY <3>1, <3>2 DEF Promised
  <2> QED
    BY <1>14, <2>2, <2>3 DEF Mine, Run
<1>15. ASSUME NEW t \in Txns, RunPermit(t) PROVE Promised
  <2>1. UNCHANGED <<events, paysFor>> /\ MayRun(t)
    BY <1>15 DEF RunPermit, Run
  <2>2. CASE fate' = [fate EXCEPT ![t] = "moved"]
    BY <2>1, <2>2, RunIsFirst DEF AllInv
  <2> QED
    BY <1>15, <2>2 DEF RunPermit, Run
<1>16. ASSUME NEW r \in Redemptions, NEW t \in Txns, SignerBroadcasts(r, t) PROVE Promised
  <2>1. paysFor[t] = NoOne /\ fate[t] = "none" /\ UNCHANGED <<events, fate>>
    BY <1>16 DEF SignerBroadcasts, CanSign, Sign, PayoutInv, ChainIsSound
  <2>2. paysFor' = [paysFor EXCEPT ![t] = r]
    BY <1>16 DEF SignerBroadcasts, Sign
  <2>3. Sent' = Sent
    BY <2>1, <2>2 DEF Sent, Moved, TypeOK
  <2>4. Owed' = Owed /\ Booked' = Booked
    BY <2>1 DEF Owed, Booked
  <2> QED
    BY <2>3, <2>4 DEF Promised
<1>17. ASSUME NEW r \in Redemptions, NEW t \in Txns, SignerSignsPermit(r, t) PROVE Promised
  <2>1. paysFor[t] = NoOne /\ fate[t] = "none" /\ UNCHANGED <<events, fate>>
    BY <1>17 DEF SignerSignsPermit, CanSign, Sign, PayoutInv, ChainIsSound
  <2>2. paysFor' = [paysFor EXCEPT ![t] = r]
    BY <1>17 DEF SignerSignsPermit, Sign
  <2>3. Sent' = Sent
    BY <2>1, <2>2 DEF Sent, Moved, TypeOK
  <2>4. Owed' = Owed /\ Booked' = Booked
    BY <2>1 DEF Owed, Booked
  <2> QED
    BY <2>3, <2>4 DEF Promised
<1>18. ASSUME \/ ReadBreaker \/ CheckPermits \/ SelectDue \/ EndOfRows \/ DrainReadFails
              \/ EndOfConfirm \/ EndOfSettle \/ SpendElsewhere \/ Tick \/ SetHalted
              \/ Crash
     PROVE  Promised
  BY <1>18
     DEF ReadBreaker, CheckPermits, SelectDue, EndOfRows, EndPass, DrainReadFails,
         EndOfConfirm, EndOfSettle, SpendElsewhere, Tick, SetHalted, Crash
<1>19. ASSUME NEW r \in Redemptions,
            \/ SkipOverCap(r) \/ StopAtDailyCap(r) \/ SettleByNonce(r) \/ NonceUnread(r)
            \/ MismatchedBurn(r) \/ SignerRefuses(r) \/ CallLost(r) \/ HumanReturns(r)
     PROVE  Promised
  BY <1>19
     DEF SkipOverCap, StopAtDailyCap, EndPass, SettleByNonce, NonceUnread, NextPermit,
         MismatchedBurn, SetStatus, SignerRefuses, CallOver, Reply, CallLost, HumanReturns,
         LeftToHuman, Submitted
<1>20. ASSUME NEW r \in Redemptions, NEW t \in Txns, HumanSetsRef(r, t) PROVE Promised
  BY <1>20 DEF HumanSetsRef, LeftToHuman, SetRef, SignedFor, Submitted
<1>21. CASE UNCHANGED vars
  BY <1>21 DEF vars
<1> HIDE DEF AllInv, rowVars, dbVars, workerVars, txVars, chainVars
<1> QED
  BY <1>1, <1>2, <1>3, <1>4, <1>5, <1>6, <1>7, <1>8, <1>9, <1>10, <1>11, <1>12, <1>13, <1>14,
     <1>15, <1>16, <1>17, <1>18, <1>19, <1>20, <1>21
     DEF Next, Drain, Confirm, Settle, Watcher, Signer, Chain, Human

\* The worker keeps the promise of redemption: burn, then at most one transfer, then the
\* books (payout.rs, "burn first, payout second, always").
THEOREM PayoutRefinesPromise == ASSUME RelayHonest PROVE Spec => PayoutKeepsPromise
<1>1. Init => Promise!Init
  <2> SUFFICES ASSUME Init PROVE Promise!Init
    OBVIOUS
  <2>1. events = {} /\ \A t \in Txns : ~Moved(t)
    BY DEF Init, Moved
  <2> QED
    BY <2>1 DEF Promise!Init
<1>2. AllInv /\ [Next]_vars => [Promise!Next]_(Promise!promiseVars)
  <2> SUFFICES ASSUME Promised PROVE [Promise!Next]_(Promise!promiseVars)
    BY StepIsPromised
  <2> QED
    BY DEF Promised, Owed, Sent, Booked, Promise!Next, Promise!promiseVars, Promise!Owe, Promise!Book,
       Promise!Send
<1> QED
  BY <1>1, <1>2, AllInvariant, PTL DEF Spec, PayoutKeepsPromise, Promise!Spec

-----------------------------------------------------------------------------
(* The daily cap.  The budget a pass charges covers everything exposed, so *)
(* that the check before a claim bounds what can leave the float.          *)

\* Totals are amounts, grow with their sets, and a redemption adds its own at most.
LEMMA Totals ==
  ASSUME NEW S \in SUBSET Redemptions, NEW T \in SUBSET Redemptions
  PROVE  /\ TotalOf(S) \in Nat
         /\ S \subseteq T => TotalOf(S) <= TotalOf(T)
         /\ \A r \in Redemptions : TotalOf(S \cup {r}) <= TotalOf(S) + Amount[r]
<1>2. IsFiniteSet(S) /\ IsFiniteSet(T)
  BY FinitelyMany, FS_Subset
<1>3. \A r \in Redemptions : Amount[r] \in Nat
  BY ConfigAssumption
<1>4. SumOver(Amount, S) \in Nat
  BY <1>2, <1>3, SumIsNat
<1>5. ASSUME S \subseteq T PROVE SumOver(Amount, S) <= SumOver(Amount, T)
  BY <1>2, <1>3, <1>5, SumSubset
<1>6. ASSUME NEW r \in Redemptions
      PROVE  SumOver(Amount, S \cup {r}) <= SumOver(Amount, S) + Amount[r]
  <2>1. CASE r \in S
    <3>1. S \cup {r} = S
      BY <2>1
    <3>2. SumOver(Amount, S \cup {r}) = SumOver(Amount, S)
      BY <3>1
    <3> QED
      BY <1>3, <1>4, <3>2
  <2>2. CASE r \notin S
    <3>1. SumOver(Amount, S \cup {r}) = Amount[r] + SumOver(Amount, S)
      BY <1>2, <1>3, <2>2, SumAdd
    <3> QED
      BY <1>3, <1>4, <3>1
  <2> QED
    BY <2>1, <2>2
<1> QED
  BY <1>4, <1>5, <1>6 DEF TotalOf

\* A step that changes no claim, keeps the dead dead and opens no call exposes nothing.
LEMMA NothingExposed ==
  ASSUME TypeOK, TypeOK', UNCHANGED <<claimedAt, paysFor>>, now' >= now,
         \A t \in Txns : Dead(t) => Dead(t)',
         \A r \in Redemptions : Callable(r)' => Callable(r),
         NEW r \in Redemptions, Exposed(r)'
  PROVE  Exposed(r)
<1>1. InWindow(r)
  BY ClockAssumption DEF Exposed, InWindow, TypeOK, None
<1>2. AllDead(r) => AllDead(r)'
  BY DEF AllDead
<1> QED
  BY <1>1, <1>2 DEF Exposed

\* Only a claim exposes a redemption.
LEMMA OnlyClaimExposes ==
  ASSUME TypeOK, TypeOK', PayoutInv, Next, NEW r \in Redemptions, Exposed(r)', ~Claim(r)
  PROVE  Exposed(r)
<1> DEFINE Same == UNCHANGED <<claimedAt, calls, paysFor, fate, runsUntil, now>>
<1>1. ASSUME Same PROVE Exposed(r)
  <2>1. \A t \in Txns : Dead(t) => Dead(t)'
    BY <1>1 DEF Dead, Moved, MayRun
  <2>2. \A s \in Redemptions : Callable(s)' => Callable(s)
    BY <1>1 DEF Callable
  <2>3. now' >= now
    BY <1>1 DEF TypeOK
  <2> QED
    BY <1>1, <2>1, <2>2, <2>3, NothingExposed
<1>2. CASE Drain
  <2>1. ASSUME NEW s \in Redemptions, Claim(s) \/ ClaimErrors(s) PROVE Exposed(r)
    <3>1. /\ UNCHANGED <<paysFor, fate, runsUntil, now>>
          /\ \A q \in Redemptions \ {s} : claimedAt'[q] = claimedAt[q] /\ calls'[q] = calls[q]
          /\ ClaimErrors(s) => calls' = calls
      BY <2>1 DEF Claim, ClaimErrors, Write, SetClaimed, rowVars, chainVars, txVars, TypeOK
    <3>2. \A q \in Redemptions : AllDead(q)' <=> AllDead(q)
      BY <3>1 DEF AllDead, Dead, Moved, MayRun
    <3>3. CASE r # s
      BY <3>1, <3>2, <3>3 DEF Exposed, InWindow, Callable
    <3>4. CASE r = s
      <4>1. ~Callable(r) /\ AllDead(r)
        BY <2>1, <3>4 DEF Claim, ClaimErrors, PayoutInv, RepayableIsClean, Repayable
      <4>2. calls' = calls
        BY <2>1, <3>1, <3>4
      <4> QED
        BY <3>1, <3>2, <4>1, <4>2 DEF Exposed, Callable
    <3> QED
      BY <3>3, <3>4
  <2>2. ASSUME ~ \E s \in Redemptions : Claim(s) \/ ClaimErrors(s) PROVE Same
    <3>1. UNCHANGED <<claimedAt, calls, chainVars, now>>
      BY <1>2, <2>2 DEF Drain, ReadBreaker, CheckPermits, SelectDue, EndOfRows, DrainReadFails,
        OnPaid, OnSubmitted, OnRelayRefused, OnFloatNotActive, OnRefused, OnAmbiguous,
        SkipOverCap, StopAtDailyCap, Write, SetRef, RecordPermit, BackToPending, SetStatus,
        HoldFloat, dbVars, rowVars
    <3> QED
      BY <3>1 DEF chainVars, txVars
  <2> QED
    BY <1>1, <2>1, <2>2
<1>3. CASE Confirm \/ Settle \/ Watcher \/ Human \/ SetHalted \/ Crash \/ SpendElsewhere
  <2>1. UNCHANGED <<claimedAt, calls, txVars, now>>
    BY <1>3 DEF Confirm, Settle, Watcher, Human, SetHalted, Crash, SpendElsewhere,
      EndOfConfirm, ConfirmPaid, EndOfSettle, SettleAsPaid, SettleByNonce, ReturnExpired,
      HandToHuman, NonceUnread, ConfirmBurn, MismatchedBurn, HumanReturns, HumanSetsRef,
      PayIntent, Write, SetStatus, SetRef, dbVars, rowVars, chainVars
  <2> QED
    BY <1>1, <2>1 DEF txVars
<1>4. CASE Signer
  <2>1. ASSUME NEW s \in Redemptions, SignerRefuses(s) \/ CallLost(s) PROVE Exposed(r)
    <3>1. UNCHANGED <<claimedAt, paysFor, fate, runsUntil, now>> /\ CallOver(s)
      BY <2>1 DEF SignerRefuses, CallLost, dbVars, rowVars, chainVars, txVars
    <3>2. \A t \in Txns : Dead(t) => Dead(t)'
      BY <3>1 DEF Dead, Moved, MayRun
    <3>3. \A q \in Redemptions : Callable(q)' => Callable(q)
      BY <3>1, CallEnds
    <3>4. now' >= now
      BY <3>1 DEF TypeOK
    <3> QED
      BY <3>1, <3>2, <3>3, <3>4, NothingExposed
  <2>2. ASSUME NEW s \in Redemptions, NEW t \in Txns,
               SignerBroadcasts(s, t) \/ SignerSignsPermit(s, t)
        PROVE  Exposed(r)
    <3>1. /\ UNCHANGED <<claimedAt, fate, now>> /\ Callable(s) /\ CallOver(s)
          /\ \E nonce, until, accepted : Sign(s, t, nonce, until, accepted)
      BY <2>2 DEF SignerBroadcasts, SignerSignsPermit, CanSign, Sign, dbVars, rowVars
    <3>2. \A u \in Txns \ {t} : paysFor'[u] = paysFor[u] /\ runsUntil'[u] = runsUntil[u]
      BY <3>1 DEF Sign, TypeOK
    <3>3. paysFor'[t] = s
      BY <3>1 DEF Sign, TypeOK
    <3>4. \A q \in Redemptions : Callable(q)' => Callable(q)
      BY <3>1, CallEnds
    <3>5. InWindow(r)
      BY <3>1 DEF Exposed, InWindow
    <3>6. CASE r = s
      BY <3>1, <3>5, <3>6 DEF Exposed
    <3>7. CASE r # s
      <4>1. AllDead(r) => AllDead(r)'
        BY <3>1, <3>2, <3>3, <3>7 DEF AllDead, Dead, Moved, MayRun
      <4> QED
        BY <3>4, <3>5, <4>1 DEF Exposed
    <3> QED
      BY <3>6, <3>7
  <2> QED
    BY <1>4, <2>1, <2>2 DEF Signer
<1>5. CASE Tick
  <2>1. UNCHANGED <<claimedAt, calls, paysFor, fate, runsUntil>> /\ now' = now + 1
    BY <1>5 DEF Tick, dbVars, rowVars, chainVars, txVars
  <2>2. \A t \in Txns : Dead(t) => Dead(t)'
    BY <2>1 DEF Dead, Moved, MayRun, TypeOK
  <2>3. \A s \in Redemptions : Callable(s)' => Callable(s)
    BY <2>1 DEF Callable, TypeOK, None
  <2>4. now' >= now
    BY <2>1 DEF TypeOK
  <2> QED
    BY <2>1, <2>2, <2>3, <2>4, NothingExposed
<1>6. ASSUME NEW t \in Txns, Mine(t) \/ RunPermit(t) PROVE Exposed(r)
  <2>1. MayRun(t) /\ \E outcome : Run(t, outcome)
    BY <1>6 DEF Mine, RunPermit
  <2>2. UNCHANGED <<claimedAt, calls, paysFor, runsUntil, now>>
    BY <1>6, <2>1 DEF Mine, RunPermit, Run, dbVars, rowVars
  <2>3. \A u \in Txns : Dead(u) => Dead(u)'
    BY <2>1, <2>2 DEF Dead, Moved, MayRun, Run, TypeOK
  <2>4. \A s \in Redemptions : Callable(s)' => Callable(s)
    BY <2>2 DEF Callable
  <2>5. now' >= now
    BY <2>2 DEF TypeOK
  <2> QED
    BY <2>2, <2>3, <2>4, <2>5, NothingExposed
<1> QED
  BY <1>2, <1>3, <1>4, <1>5, <1>6 DEF Next, Chain

\* What a step does to the budget of the pass: nothing, or the pass begins, a row is
\* claimed, the signer's reply is charged unless nothing can come of it, or it ends.
LEMMA BudgetStep ==
  ASSUME TypeOK, PayoutInv, Next
  PROVE  \/ pc' \notin {"rows", "calling"}
         \/ UNCHANGED <<pc, cur, charged>>
         \/ SelectDue
         \/ \E r \in Redemptions : Claim(r)
         \/ /\ pc = "calling" /\ pc' = "rows"
            /\ charged' = charged \cup {cur} \/ (charged' = charged /\ ~Exposed(cur))
<1>1. ASSUME OnPaid \/ OnAmbiguous \/ OnRefused
      PROVE  \/ pc' \notin {"rows", "calling"}
             \/ /\ pc = "calling" /\ pc' = "rows"
                /\ charged' = charged \cup {cur} \/ (charged' = charged /\ ~Exposed(cur))
  <2>1. CASE OnPaid
    BY <2>1 DEF OnPaid, Answered, NextInPass
  <2>2. CASE OnAmbiguous
    <3>1. CASE GasFreeRail
      BY <2>2, <3>1 DEF OnAmbiguous, EndPass
    <3>2. CASE ~GasFreeRail
      BY <2>2, <3>2 DEF OnAmbiguous, NextInPass
    <3> QED
      BY <3>1, <3>2
  <2>3. CASE OnRefused
    <3>1. pc = "calling" /\ answer.kind = "refused" /\ pc' = "rows" /\ charged' = charged
      BY <2>3 DEF OnRefused, Answered, NextInPass
    <3>2. ~Exposed(cur)
      BY <3>1 DEF PayoutInv, AnswerIsTrue, Exposed
    <3> QED
      BY <3>1, <3>2
  <2> QED
    BY <1>1, <2>1, <2>2, <2>3
<1>2. ASSUME Drain, ~(OnPaid \/ OnAmbiguous \/ OnRefused \/ SelectDue),
             ~ \E r \in Redemptions : Claim(r)
      PROVE  pc' \notin {"rows", "calling"} \/ UNCHANGED <<pc, cur, charged>>
  BY <1>2 DEF Drain, ReadBreaker, CheckPermits, EndOfRows, DrainReadFails, OnSubmitted,
    OnRelayRefused, OnFloatNotActive, SkipOverCap, StopAtDailyCap, ClaimErrors, EndPass
<1>3. ASSUME Confirm \/ Settle \/ Crash
      PROVE  pc' \notin {"rows", "calling"} \/ UNCHANGED <<pc, cur, charged>>
  BY <1>3 DEF Confirm, Settle, Crash, EndOfConfirm, ConfirmPaid, EndOfSettle, SettleAsPaid,
    SettleByNonce, ReturnExpired, HandToHuman, NonceUnread, NextPermit, workerVars
<1>4. ASSUME Watcher \/ Human \/ SetHalted \/ Signer \/ Chain
      PROVE  UNCHANGED <<pc, cur, charged>>
  BY <1>4 DEF Watcher, Human, SetHalted, Signer, Chain, ConfirmBurn, MismatchedBurn,
    HumanReturns, HumanSetsRef, SignerRefuses, CallLost, SignerBroadcasts,
    SignerSignsPermit, SpendElsewhere, Tick, Mine, RunPermit, workerVars
<1> QED
  BY <1>1, <1>2, <1>3, <1>4 DEF Next

\* A step keeps what is exposed within the cap and charged.
LEMMA OutflowStep ==
  ASSUME TypeOK, TypeOK', PayoutInv, OutflowInv, [Next]_vars
  PROVE  OutflowInv'
<1>1. ExposedToday \in SUBSET Redemptions /\ ExposedToday' \in SUBSET Redemptions
  BY DEF ExposedToday
<1>2. CASE UNCHANGED vars
  <2>1. ExposedToday' = ExposedToday
    BY <1>2 DEF ExposedToday, Exposed, InWindow, Callable, AllDead, Dead, Moved, MayRun, vars,
      dbVars, rowVars, chainVars, txVars
  <2> QED
    BY <1>2, <2>1 DEF OutflowInv, TotalOf, vars, workerVars
<1>3. ASSUME NEW r \in Redemptions, Claim(r) PROVE OutflowInv'
  <2>1. /\ pc = "rows" /\ TotalOf(charged) + Amount[r] <= DailyCap
        /\ pc' = "calling" /\ cur' = r /\ charged' = charged
    BY <1>3 DEF Claim, WithinCap
  <2>2. Next
    BY <1>3 DEF Next, Drain
  <2>3. \A s \in Redemptions : Claim(s) => s = r
    <3>1. todo \subseteq Nat
      BY RedemptionsAssumption DEF TypeOK
    <3> QED
      BY <1>3, <3>1 DEF Claim, NextRow
  <2>4. ExposedToday' \subseteq ExposedToday \cup {r}
    BY <2>2, <2>3, OnlyClaimExposes DEF ExposedToday
  <2>5. charged \in SUBSET Redemptions /\ ExposedToday' \subseteq charged \cup {r}
    BY <2>1, <2>4 DEF OutflowInv, TypeOK
  <2>6. /\ TotalOf(ExposedToday') <= TotalOf(charged \cup {r})
        /\ TotalOf(charged \cup {r}) <= TotalOf(charged) + Amount[r]
        /\ TotalOf(ExposedToday') \in Nat /\ TotalOf(charged \cup {r}) \in Nat
        /\ TotalOf(charged) \in Nat
    <3>1. charged \cup {r} \in SUBSET Redemptions
      BY <2>5
    <3> QED
      BY <1>1, <2>5, <3>1, Totals
  <2>7. TotalOf(ExposedToday') <= DailyCap
    BY <2>1, <2>6, ConfigAssumption
  <2>8. TotalOf(ExposedToday)' = TotalOf(ExposedToday')
    BY DEF TotalOf
  <2> QED
    BY <2>1, <2>5, <2>7, <2>8 DEF OutflowInv
<1>4. ASSUME Next, ~ \E r \in Redemptions : Claim(r) PROVE OutflowInv'
  <2>1. ExposedToday' \subseteq ExposedToday
    BY <1>4, OnlyClaimExposes DEF ExposedToday
  <2>2. TotalOf(ExposedToday)' <= DailyCap
    <3>1. /\ TotalOf(ExposedToday') <= TotalOf(ExposedToday)
          /\ TotalOf(ExposedToday') \in Nat /\ TotalOf(ExposedToday) \in Nat
      BY <1>1, <2>1, Totals
    <3>2. TotalOf(ExposedToday)' = TotalOf(ExposedToday')
      BY DEF TotalOf
    <3> QED
      BY <3>1, <3>2, ConfigAssumption DEF OutflowInv
  <2>3. CASE pc' \notin {"rows", "calling"}
    BY <2>2, <2>3 DEF OutflowInv
  <2>4. CASE UNCHANGED <<pc, cur, charged>>
    BY <2>1, <2>2, <2>4 DEF OutflowInv
  <2>5. CASE SelectDue
    <3>1. charged' = SpentToday /\ pc' = "rows"
      BY <2>5 DEF SelectDue
    <3>2. ExposedToday \subseteq SpentToday
      BY DEF ExposedToday, SpentToday, Exposed, PayoutInv, RepayableIsClean, Repayable, TypeOK,
        Statuses
    <3> QED
      BY <2>1, <2>2, <3>1, <3>2 DEF OutflowInv
  <2>6. CASE /\ pc = "calling" /\ pc' = "rows"
             /\ charged' = charged \cup {cur} \/ (charged' = charged /\ ~Exposed(cur))
    BY <2>1, <2>2, <2>6 DEF OutflowInv, ExposedToday
  <2> QED
    BY <1>4, <2>3, <2>4, <2>5, <2>6, BudgetStep
<1> QED
  BY <1>2, <1>3, <1>4

\* Nothing is exposed before the first claim.
LEMMA OutflowInit == Init => OutflowInv
<1> SUFFICES ASSUME Init PROVE OutflowInv
  OBVIOUS
<1>1. ExposedToday = {}
  BY DEF Init, ExposedToday, Exposed, InWindow
<1>2. TotalOf({}) = 0
  BY SumEmpty DEF TotalOf
<1> QED
  BY <1>1, <1>2, ConfigAssumption DEF Init, OutflowInv

\* In every reachable state what is exposed fits the cap (drain_once).
THEOREM OutflowInvariant == Spec => []OutflowInv
<1>1. Spec => [](TypeOK /\ PayoutInv /\ OutflowInv)
  BY InitType, InitInv, OutflowInit, StepType, StepInv, OutflowStep, PTL DEF Spec
<1> QED
  BY <1>1, PTL

\* What left the float, or still can, is exposed.
LEMMA ExposedCoversOutflow == TypeOK /\ OutflowInv => DailyOutflowCapped
<1> SUFFICES ASSUME TypeOK, OutflowInv PROVE DailyOutflowCapped
  OBVIOUS
<1> DEFINE Left == {r \in Redemptions :
                      InWindow(r) /\ \E t \in SignedFor(r) : Moved(t) \/ MayRun(t)}
<1>1. Left \subseteq ExposedToday
  BY DEF ExposedToday, Exposed, AllDead, Dead, SignedFor
<1>2. Left \in SUBSET Redemptions /\ ExposedToday \in SUBSET Redemptions
  BY DEF ExposedToday
<1> HIDE DEF Left
<1>3. /\ TotalOf(Left) <= TotalOf(ExposedToday)
      /\ TotalOf(Left) \in Nat /\ TotalOf(ExposedToday) \in Nat
  BY <1>1, <1>2, Totals
<1>4. TotalOf(Left) <= DailyCap
  BY <1>3, ConfigAssumption DEF OutflowInv
<1> QED
  BY <1>4 DEF DailyOutflowCapped, Left

\* For every cap, every set of amounts and every length of the day, what left the
\* float for claims inside the rolling day never exceeds daily_payout_cap_clt,
\* whatever writes fail and whatever replies are lost (drain_once).
THEOREM OutflowStaysCapped == Spec => []DailyOutflowCapped
  BY TypeCorrect, OutflowInvariant, ExposedCoversOutflow, PTL

=============================================================================
