-------------------------- MODULE MintOutboxProofs --------------------------
(***************************************************************************)
(* What is proved of MintOutbox, for any intents, amounts, caps and        *)
(* bounds: its types, that an approved intent is queued, that a rejected   *)
(* one is never minted, that the intents of a day in flight stay within    *)
(* the cap; and, until the chain is reset, that the ledger and the chain   *)
(* agree and that minting keeps its promise.                               *)
(*                                                                         *)
(* The first three rest on what a row may be while the worker holds it:    *)
(* nothing is sent or selected that has no row, and a row selected as      *)
(* stuck is of an intent that was sent.  The others rest on the depth the  *)
(* watcher keeps: it scans only blocks that no longer give way.            *)
(***************************************************************************)
EXTENDS MintOutbox, SumsProofs, SequenceTheorems

\* The row in hand is not visited twice.
CurIsAlone == cur \notin todo /\ (pc \in {"give_up", "send", "record"} \/ cur = NoMint)

\* A row that may be tried has attempts left, and so has one selected when it had.
AttemptsLeft ==
  /\ \A i \in Intents : outbox[i] \in {"pending", "submitted"} => attempts[i] <= MaxAttempts
  /\ \A i \in todo : attempts[i] <= MaxAttempts
  /\ cur \in Intents => attempts[cur] <= MaxAttempts

\* Without an outbox row nobody acts on an intent; undecided and rejected ones have none.
UnopenedIsUntouched ==
  /\ \A i \in Intents : outbox[i] = "none" => 
       i \notin todo /\ cur # i /\ (\A tx \in pool : tx.intent # i) /\ ~OnChain(i)
  /\ \A i \in Intents : status[i] \in {"created", "rejected"} => outbox[i] = "none"

\* A row selected as stuck is of an intent that was sent, and nobody but the worker and
\* the watcher moves such an intent.
StuckWasSent ==
  /\ \A i \in Intents : outbox[i] = "submitted" => status[i] = "submitted"
  /\ pc \in {"stuck", "give_up"} => \A i \in todo : status[i] \in {"submitted", "credited"}
  /\ pc = "give_up" =>
       status[cur] \in {"submitted", "credited"} /\ outbox[cur] \in {"failed", "confirmed"}

RowInv ==
  /\ TypeOK /\ CurIsAlone /\ AttemptsLeft /\ UnopenedIsUntouched /\ StuckWasSent
  /\ ApprovedIsQueued

-----------------------------------------------------------------------------
(* The rows.                                                               *)

\* A refusal by the gate, or a failure, keeps the types of a row with attempts left.
LEMMA DenialKeepsTypes ==
  ASSUME TypeOK, NEW i \in Intents, attempts[i] <= MaxAttempts, Denial(i) \/ FailOrBackoff(i)
  PROVE  /\ status' \in [Intents -> Statuses]
         /\ outbox' \in [Intents -> OutboxStatuses]
         /\ attempts' \in [Intents -> 0..(MaxAttempts + 1)]
         /\ due' \subseteq Intents /\ stale' \subseteq Intents
<1> USE ConfigAssumption DEF TypeOK, Statuses, OutboxStatuses
<1>1. CASE Park(i)
  BY <1>1 DEF Park
<1>2. CASE FailOrBackoff(i)
  <2>1. attempts' \in [Intents -> 0..(MaxAttempts + 1)]
    BY <1>2 DEF FailOrBackoff
  <2>2. CASE attempts[i] + 1 >= MaxAttempts
    BY <1>2, <2>1, <2>2 DEF FailOrBackoff, SetOutbox, SetStatus
  <2>3. CASE ~(attempts[i] + 1 >= MaxAttempts)
    BY <1>2, <2>1, <2>3 DEF FailOrBackoff
  <2> QED
    BY <2>2, <2>3
<1> QED
  BY <1>1, <1>2 DEF Denial

\* A mint of ours is known by its intent, which is numbered from 1.
LEMMA MintTxFacts ==
  /\ \A tx \in MintTxs : tx.intent \in Intents /\ tx = MintTx(tx.intent) /\ tx.ref = CreditRef(tx.intent)
  /\ \A i \in Intents : MintTx(i) \in MintTxs /\ MintTx(i).intent = i /\ MintTx(i).ref = CreditRef(i)
  /\ \A i, j \in Intents : CreditRef(i) = CreditRef(j) => i = j
  /\ \A i \in Intents : CreditRef(i) # EmptyBlock.ref
  /\ EmptyBlock.intent = NoMint /\ NoMint \notin Intents
<1>1. \A i \in Intents : MintTx(i) \in MintTxs /\ MintTx(i).intent = i /\ MintTx(i).ref = CreditRef(i)
  BY DEF MintTxs, MintTx
<1>2. \A tx \in MintTxs : \E i \in Intents : tx = MintTx(i)
  BY DEF MintTxs
<1>3. \A i, j \in Intents : CreditRef(i) = CreditRef(j) => i = j
  BY DEF CreditRef
<1>4. ASSUME NEW i \in Intents PROVE CreditRef(i) # EmptyBlock.ref
  <2>1. Len(CreditRef(i)) = 1 /\ Len(EmptyBlock.ref) = 0
    BY DEF CreditRef, EmptyBlock
  <2> QED
    BY <2>1
<1>5. EmptyBlock.intent = NoMint /\ NoMint \notin Intents
  BY IntentsAssumption DEF EmptyBlock
<1> QED
  BY <1>1, <1>2, <1>3, <1>4, <1>5

\* What the watcher takes from a block is ours; it credits it or leaves the rows alone.
LEMMA BlockCases ==
  ASSUME TypeOK, ProcessBlock
  PROVE  \E m \in Intents \cup {NoMint} :
           /\ cursor + 1 \in 1..Len(chain) /\ m = chain[cursor + 1].intent
           /\ m = NoMint => chain[cursor + 1] = EmptyBlock
           /\ \/ m \in Intents /\ status[m] # "credited" /\ CreditMint(m)
              \/ /\ m = NoMint \/ status[m] = "credited"
                 /\ UNCHANGED <<status, stale, outbox, events>>
<1> DEFINE b == chain[cursor + 1]
           waiting == {i \in InBlock(cursor + 1) : status[i] # "credited"}
<1>1. cursor + 1 \in 1..Len(chain) /\ b \in MintTxs \cup {EmptyBlock}
  BY DEF TypeOK, ProcessBlock
<1>2. \/ \E i \in waiting : CreditMint(i)
      \/ waiting = {} /\ UNCHANGED <<status, stale, outbox, events>>
  BY DEF ProcessBlock
<1>3. CASE b = EmptyBlock
  <2>1. InBlock(cursor + 1) = {}
    BY <1>3, MintTxFacts DEF InBlock
  <2>2. UNCHANGED <<status, stale, outbox, events>>
    BY <1>2, <2>1
  <2>3. b.intent = NoMint
    BY <1>3, MintTxFacts
  <2> QED
    BY <1>1, <1>3, <2>2, <2>3
<1>4. CASE b \in MintTxs
  <2>1. b.intent \in Intents /\ b.intent # NoMint /\ InBlock(cursor + 1) = {b.intent}
    BY <1>4, MintTxFacts DEF InBlock
  <2>2. \/ status[b.intent] # "credited" /\ CreditMint(b.intent)
        \/ status[b.intent] = "credited" /\ UNCHANGED <<status, stale, outbox, events>>
    BY <1>2, <2>1
  <2> QED
    BY <1>1, <2>1, <2>2
<1> QED
  BY <1>1, <1>3, <1>4

\* Every step keeps the types; a row out of attempts is not tried again.
LEMMA TypeStep == ASSUME RowInv, [Next]_vars PROVE TypeOK'
<1> USE IntentsAssumption, ConfigAssumption DEF RowInv, TypeOK, Statuses, OutboxStatuses,
        Stages, Replies, NoMint, CurIsAlone, AttemptsLeft, rowVars, configVars, workerVars,
        watcherVars, chainVars, countVars
<1>1. ASSUME NEW i \in Intents, VerifierApproves(i) PROVE TypeOK'
  <2>1. /\ status' \in [Intents -> Statuses] /\ outbox' \in [Intents -> OutboxStatuses]
        /\ attempts' \in [Intents -> 0..(MaxAttempts + 1)] /\ due' \subseteq Intents /\ stale' \subseteq Intents
    BY <1>1 DEF VerifierApproves, SetStatus, OpenOutbox, SetOutbox
  <2>2. UNCHANGED <<configVars, workerVars, watcherVars, chainVars, countVars>>
    BY <1>1 DEF VerifierApproves
  <2> QED
    BY <2>1, <2>2
<1>2. ASSUME NEW i \in Intents, VerifierHolds(i) PROVE TypeOK'
  BY <1>2 DEF VerifierHolds, SetStatus
<1>3. ASSUME NEW i \in Intents, VerifierRejects(i) PROVE TypeOK'
  BY <1>3 DEF VerifierRejects, SetStatus
<1>4. ASSUME NEW i \in Intents, HumanChecks(i) PROVE TypeOK'
  BY <1>4 DEF HumanChecks
<1>5. ASSUME NEW i \in Intents, HumanApproves(i) PROVE TypeOK'
  <2>1. /\ status' \in [Intents -> Statuses] /\ outbox' \in [Intents -> OutboxStatuses]
        /\ attempts' \in [Intents -> 0..(MaxAttempts + 1)] /\ due' \subseteq Intents /\ stale' \subseteq Intents
    BY <1>5 DEF HumanApproves, SetStatus, OpenOutbox, SetOutbox
  <2>2. /\ UNCHANGED <<signed, overCap, halted, recent, workerVars, watcherVars, chainVars, crashes>>
        /\ cleared' \subseteq Intents /\ approvals' \in Nat
    BY <1>5 DEF HumanApproves
  <2> QED
    BY <2>1, <2>2
<1>6. ASSUME SelectStuck PROVE TypeOK'
  BY <1>6 DEF SelectStuck
<1>7. ASSUME NEW i \in Intents, Requeue(i) PROVE TypeOK'
  <2>1. attempts' \in [Intents -> 0..(MaxAttempts + 1)]
    <3>1. attempts' = [attempts EXCEPT ![i] = @ + 1] \/ attempts' = attempts
      BY <1>7 DEF Requeue
    <3>2. attempts[i] + 1 \in 0..(MaxAttempts + 1)
      BY <1>7 DEF Requeue
    <3> QED
      BY <3>1, <3>2
  <2> QED
    BY <1>7, <2>1 DEF Requeue, SetOutbox
<1>8. ASSUME NEW i \in Intents, CloseExhausted(i) PROVE TypeOK'
  BY <1>8 DEF CloseExhausted, SetOutbox
<1>9. ASSUME GiveUp PROVE TypeOK'
  BY <1>9 DEF GiveUp, SetStatus
<1>10. ASSUME EndOfStuck PROVE TypeOK'
  BY <1>10 DEF EndOfStuck
<1>11. ASSUME StuckAborts PROVE TypeOK'
  BY <1>11 DEF StuckAborts
<1>12. ASSUME SelectDue PROVE TypeOK'
  BY <1>12 DEF SelectDue
<1>13. ASSUME NodeBehind PROVE TypeOK'
  BY <1>13 DEF NodeBehind
<1>14. ASSUME NodeInSync PROVE TypeOK'
  BY <1>14 DEF NodeInSync
<1>15. ASSUME NEW i \in Intents, GateDenies(i) PROVE TypeOK'
  BY <1>15, DenialKeepsTypes DEF GateDenies, NextRow
<1>16. ASSUME NEW i \in Intents, GateTrips(i) PROVE TypeOK'
  BY <1>16, DenialKeepsTypes DEF GateTrips, NextRow
<1>17. ASSUME NEW i \in Intents, GateEscalates(i) PROVE TypeOK'
  BY <1>17 DEF GateEscalates, SetOutbox, SetStatus, NextRow
<1>18. ASSUME NEW i \in Intents, AwaitCosigner(i) PROVE TypeOK'
  BY <1>18 DEF AwaitCosigner, Park, NextRow
<1>19. ASSUME NEW i \in Intents, PassGate(i) PROVE TypeOK'
  BY <1>19 DEF PassGate, NextRow
<1>20. ASSUME EndOfRows PROVE TypeOK'
  BY <1>20 DEF EndOfRows
<1>21. ASSUME NodeAccepts PROVE TypeOK'
  <2>1. pool' \subseteq MintTxs
    <3>1. pool' = pool \cup {MintTx(cur)} /\ cur \in Intents
      BY <1>21 DEF NodeAccepts
    <3>2. MintTx(cur) \in MintTxs
      BY <3>1, MintTxFacts
    <3> QED
      BY <3>1, <3>2
  <2>2. reply' \in Replies /\ pc' = "record"
    BY <1>21 DEF NodeAccepts, Replied
  <2>3. UNCHANGED <<rowVars, configVars, todo, cur, watcherVars, chain, peak, overtaken, resets,
                   countVars>>
    BY <1>21 DEF NodeAccepts, Replied
  <2>4. cur \in Intents
    BY <1>21 DEF NodeAccepts
  <2> QED
    BY <2>1, <2>2, <2>3, <2>4
<1>22. ASSUME NodeKnowsRef PROVE TypeOK'
  BY <1>22 DEF NodeKnowsRef, Replied
<1>23. ASSUME SendFails PROVE TypeOK'
  BY <1>23 DEF SendFails, Replied
<1>24. ASSUME OnAccepted PROVE TypeOK'
  BY <1>24 DEF OnAccepted, MarkSubmitted, SetStatus, SetOutbox, Recorded
<1>25. ASSUME OnAlreadyProcessed PROVE TypeOK'
  BY <1>25 DEF OnAlreadyProcessed, MarkSubmitted, SetStatus, SetOutbox, Recorded
<1>26. ASSUME OnError PROVE TypeOK'
  BY <1>26, DenialKeepsTypes DEF OnError, Recorded
<1>27. ASSUME DrainAborts PROVE TypeOK'
  BY <1>27 DEF DrainAborts
<1>28. ASSUME Rewind PROVE TypeOK'
  BY <1>28 DEF Rewind
<1>29. ASSUME Poll PROVE TypeOK'
  <2>1. scanTo' \in Nat /\ wpc' = "block"
    BY <1>29 DEF Poll
  <2>2. UNCHANGED <<rowVars, configVars, workerVars, events, cursor, chainVars, countVars>>
    BY <1>29 DEF Poll
  <2> QED
    BY <2>1, <2>2
<1>30. ASSUME ProcessBlock PROVE TypeOK'
  <2>1. PICK m \in Intents \cup {NoMint} :
          \/ m \in Intents /\ status[m] # "credited" /\ CreditMint(m)
          \/ UNCHANGED <<status, stale, outbox, events>>
    BY <1>30, BlockCases
  <2>2. CASE m \in Intents /\ status[m] # "credited" /\ CreditMint(m)
    <3>1. events' \in [Intents -> Nat] /\ outbox' \in [Intents -> OutboxStatuses]
      BY <2>2 DEF CreditMint, SetOutbox
    <3>2. status' \in [Intents -> Statuses] /\ stale' \subseteq Intents
      BY <2>2 DEF CreditMint, SetStatus
    <3>3. wpc' = "advance"
          /\ UNCHANGED <<attempts, due, configVars, workerVars, cursor, scanTo, chainVars, countVars>>
      BY <1>30 DEF ProcessBlock
    <3> QED
      BY <3>1, <3>2, <3>3
  <2>3. CASE UNCHANGED <<status, stale, outbox, events>>
    BY <1>30, <2>3 DEF ProcessBlock
  <2> QED
    BY <2>1, <2>2, <2>3
<1>31. ASSUME Advance PROVE TypeOK'
  BY <1>31 DEF Advance
<1>32. ASSUME BlockMissing PROVE TypeOK'
  BY <1>32 DEF BlockMissing
<1>33. ASSUME WatcherAborts PROVE TypeOK'
  BY <1>33 DEF WatcherAborts
<1>34. ASSUME NEW i \in Intents, FallsDue(i) PROVE TypeOK'
  BY <1>34 DEF FallsDue
<1>35. ASSUME NEW i \in Intents, GoesStale(i) PROVE TypeOK'
  BY <1>35 DEF GoesStale
<1>36. ASSUME NEW tx \in pool, Mine(tx) PROVE TypeOK'
  <2>1. chain' \in Seq(MintTxs \cup {EmptyBlock}) /\ peak' \in Nat /\ pool' \subseteq MintTxs
    BY <1>36 DEF Mine, AppendBlock
  <2> QED
    BY <1>36, <2>1 DEF Mine, AppendBlock
<1>37. ASSUME NEW tx \in pool, Drop(tx) PROVE TypeOK'
  BY <1>37 DEF Drop
<1>38. ASSUME MineEmpty PROVE TypeOK'
  <2>1. chain' \in Seq(MintTxs \cup {EmptyBlock}) /\ peak' \in Nat /\ pool' \subseteq MintTxs
    BY <1>38 DEF MineEmpty, AppendBlock
  <2> QED
    BY <1>38, <2>1 DEF MineEmpty, AppendBlock
<1>39. ASSUME Reorg PROVE TypeOK'
  <2>1. chain' \in Seq(MintTxs \cup {EmptyBlock}) /\ chain[Len(chain)] \in MintTxs \cup {EmptyBlock}
    BY <1>39 DEF Reorg
  <2>2. pool' \subseteq MintTxs
    BY <1>39, <2>1 DEF Reorg
  <2> QED
    BY <1>39, <2>1, <2>2 DEF Reorg
<1>40. ASSUME ChainReset PROVE TypeOK'
  BY <1>40 DEF ChainReset
<1>41. ASSUME RaiseCap PROVE TypeOK'
  BY <1>41 DEF RaiseCap
<1>42. ASSUME SetHalted PROVE TypeOK'
  BY <1>42 DEF SetHalted
<1>43. ASSUME NEW i \in Intents, Cosign(i) PROVE TypeOK'
  BY <1>43 DEF Cosign
<1>44. ASSUME NEW i \in Intents, Ages(i) PROVE TypeOK'
  BY <1>44 DEF Ages
<1>45. CASE UNCHANGED vars
  BY <1>45 DEF vars
<1> HIDE DEF RowInv, TypeOK, Statuses, OutboxStatuses, Stages, Replies, NoMint, CurIsAlone,
             AttemptsLeft, rowVars, configVars, workerVars, watcherVars, chainVars,
             countVars
<1> QED
  BY <1>1, <1>2, <1>3, <1>4, <1>5, <1>6, <1>7, <1>8, <1>9, <1>10, <1>11, <1>12, <1>13, <1>14,
     <1>15, <1>16, <1>17, <1>18, <1>19, <1>20, <1>21, <1>22, <1>23, <1>24, <1>25, <1>26,
     <1>27, <1>28, <1>29, <1>30, <1>31, <1>32, <1>33, <1>34, <1>35, <1>36, <1>37, <1>38,
     <1>39, <1>40, <1>41, <1>42, <1>43, <1>44, <1>45
     DEF Next, Approval, Stuck, Drain, Watch, Elapses, Blockchain, Operator

\* The row in hand stays out of the rows to come.
LEMMA AloneStep == ASSUME RowInv, [Next]_vars PROVE CurIsAlone'
<1> USE IntentsAssumption, ConfigAssumption DEF RowInv, TypeOK, CurIsAlone, NoMint, rowVars,
        configVars, workerVars, watcherVars, chainVars, countVars
<1>1. ASSUME SelectStuck PROVE CurIsAlone'
  BY <1>1 DEF SelectStuck
<1>2. ASSUME NEW i \in Intents, Requeue(i) PROVE CurIsAlone'
  BY <1>2 DEF Requeue, SetOutbox
<1>3. ASSUME NEW i \in Intents, CloseExhausted(i) PROVE CurIsAlone'
  BY <1>3 DEF CloseExhausted, SetOutbox
<1>4. ASSUME GiveUp PROVE CurIsAlone'
  BY <1>4 DEF GiveUp, SetStatus
<1>5. ASSUME StuckAborts PROVE CurIsAlone'
  BY <1>5 DEF StuckAborts
<1>6. ASSUME SelectDue PROVE CurIsAlone'
  BY <1>6 DEF SelectDue
<1>7. ASSUME NodeBehind PROVE CurIsAlone'
  BY <1>7 DEF NodeBehind
<1>8. ASSUME NEW i \in Intents, PassGate(i) PROVE CurIsAlone'
  BY <1>8 DEF PassGate, NextRow
<1>9. ASSUME DrainAborts PROVE CurIsAlone'
  BY <1>9 DEF DrainAborts
<1>10. ASSUME NEW i \in Intents,
            \/ VerifierApproves(i) \/ VerifierHolds(i) \/ VerifierRejects(i)
            \/ HumanChecks(i) \/ HumanApproves(i) \/ GateDenies(i) \/ GateTrips(i)
            \/ GateEscalates(i) \/ AwaitCosigner(i) \/ FallsDue(i) \/ GoesStale(i)
            \/ Ages(i)
     PROVE  CurIsAlone'
  BY <1>10
     DEF VerifierApproves, SetStatus, OpenOutbox, SetOutbox, VerifierHolds, VerifierRejects,
         HumanChecks, HumanApproves, GateDenies, Denial, Park, FailOrBackoff, NextRow,
         GateTrips, GateEscalates, AwaitCosigner, FallsDue, GoesStale, Ages
<1>11. ASSUME \/ \E tx \in pool : Mine(tx) \/ Drop(tx)
              \/ \E i \in Intents : Cosign(i)
     PROVE  CurIsAlone'
  BY <1>11 DEF Mine, AppendBlock, Drop, Cosign
<1>12. ASSUME \/ EndOfStuck \/ NodeInSync \/ EndOfRows \/ NodeAccepts \/ NodeKnowsRef
              \/ SendFails \/ OnAccepted \/ OnAlreadyProcessed \/ OnError \/ Rewind
              \/ Poll \/ ProcessBlock
     PROVE  CurIsAlone'
  BY <1>12
     DEF EndOfStuck, NodeInSync, EndOfRows, NodeAccepts, Replied, NodeKnowsRef, SendFails,
         OnAccepted, MarkSubmitted, SetStatus, SetOutbox, Recorded, OnAlreadyProcessed,
         OnError, FailOrBackoff, Rewind, Poll, ProcessBlock, CreditMint
<1>13. ASSUME \/ Advance \/ BlockMissing \/ WatcherAborts \/ MineEmpty \/ Reorg
              \/ ChainReset \/ RaiseCap \/ SetHalted
     PROVE  CurIsAlone'
  BY <1>13
     DEF Advance, BlockMissing, WatcherAborts, MineEmpty, AppendBlock, Reorg, ChainReset,
         RaiseCap, SetHalted
<1>14. CASE UNCHANGED vars
  BY <1>14 DEF vars
<1> HIDE DEF RowInv, TypeOK, CurIsAlone, NoMint, rowVars, configVars, workerVars,
             watcherVars, chainVars, countVars
<1> QED
  BY <1>1, <1>2, <1>3, <1>4, <1>5, <1>6, <1>7, <1>8, <1>9, <1>10, <1>11, <1>12, <1>13, <1>14
     DEF Next, Approval, Stuck, Drain, Watch, Elapses, Blockchain, Operator

\* Every step keeps AttemptsLeft.
LEMMA AttemptsStep == ASSUME RowInv, [Next]_vars PROVE AttemptsLeft'
<1> USE IntentsAssumption, ConfigAssumption DEF RowInv, TypeOK, Statuses, OutboxStatuses,
        NoMint, CurIsAlone, AttemptsLeft, rowVars, configVars, workerVars, watcherVars,
        chainVars, countVars
<1>1. ASSUME NEW i \in Intents, VerifierApproves(i) PROVE AttemptsLeft'
  BY <1>1 DEF VerifierApproves, SetStatus, OpenOutbox, SetOutbox
<1>2. ASSUME NEW i \in Intents, HumanApproves(i) PROVE AttemptsLeft'
  BY <1>2 DEF HumanApproves, SetStatus, OpenOutbox, SetOutbox
<1>3. ASSUME SelectStuck PROVE AttemptsLeft'
  BY <1>3 DEF SelectStuck
<1>4. ASSUME NEW i \in Intents, Requeue(i) PROVE AttemptsLeft'
  BY <1>4 DEF Requeue, SetOutbox
<1>5. ASSUME NEW i \in Intents, CloseExhausted(i) PROVE AttemptsLeft'
  BY <1>5 DEF CloseExhausted, SetOutbox
<1>6. ASSUME GiveUp PROVE AttemptsLeft'
  BY <1>6 DEF GiveUp, SetStatus
<1>7. ASSUME StuckAborts PROVE AttemptsLeft'
  BY <1>7 DEF StuckAborts
<1>8. ASSUME SelectDue PROVE AttemptsLeft'
  BY <1>8 DEF SelectDue
<1>9. ASSUME NodeBehind PROVE AttemptsLeft'
  BY <1>9 DEF NodeBehind
<1>10. ASSUME NEW i \in Intents, GateDenies(i) PROVE AttemptsLeft'
  BY <1>10 DEF GateDenies, Denial, Park, FailOrBackoff, SetOutbox, SetStatus, NextRow
<1>11. ASSUME NEW i \in Intents, GateTrips(i) PROVE AttemptsLeft'
  BY <1>11 DEF GateTrips, Denial, Park, FailOrBackoff, SetOutbox, SetStatus, NextRow
<1>12. ASSUME NEW i \in Intents, GateEscalates(i) PROVE AttemptsLeft'
  BY <1>12 DEF GateEscalates, SetOutbox, SetStatus, NextRow
<1>13. ASSUME NEW i \in Intents, AwaitCosigner(i) PROVE AttemptsLeft'
  BY <1>13 DEF AwaitCosigner, Park, NextRow
<1>14. ASSUME NEW i \in Intents, PassGate(i) PROVE AttemptsLeft'
  BY <1>14 DEF PassGate, NextRow
<1>15. ASSUME OnAccepted PROVE AttemptsLeft'
  BY <1>15 DEF OnAccepted, MarkSubmitted, SetStatus, SetOutbox, Recorded
<1>16. ASSUME OnAlreadyProcessed PROVE AttemptsLeft'
  BY <1>16 DEF OnAlreadyProcessed, MarkSubmitted, SetStatus, SetOutbox, Recorded
<1>17. ASSUME OnError PROVE AttemptsLeft'
  BY <1>17 DEF OnError, FailOrBackoff, SetStatus, SetOutbox, Recorded
<1>18. ASSUME DrainAborts PROVE AttemptsLeft'
  BY <1>18 DEF DrainAborts
<1>19. ASSUME ProcessBlock PROVE AttemptsLeft'
  <2>1. PICK m \in Intents \cup {NoMint} :
          \/ m \in Intents /\ status[m] # "credited" /\ CreditMint(m)
          \/ UNCHANGED <<status, stale, outbox, events>>
    BY <1>19, BlockCases
  <2>2. CASE m \in Intents /\ status[m] # "credited" /\ CreditMint(m)
    BY <1>19, <2>2 DEF ProcessBlock, CreditMint, SetStatus, SetOutbox
  <2>3. CASE UNCHANGED <<status, stale, outbox, events>>
    BY <1>19, <2>3 DEF ProcessBlock
  <2> QED
    BY <2>1, <2>2, <2>3
<1>20. ASSUME NEW i \in Intents,
            \/ VerifierHolds(i) \/ VerifierRejects(i) \/ HumanChecks(i) \/ FallsDue(i)
            \/ GoesStale(i) \/ Ages(i) \/ Cosign(i)
     PROVE  AttemptsLeft'
  BY <1>20
     DEF VerifierHolds, SetStatus, VerifierRejects, HumanChecks, FallsDue, GoesStale, Ages, Cosign
<1>21. ASSUME \/ EndOfStuck \/ NodeInSync \/ EndOfRows \/ NodeAccepts \/ NodeKnowsRef
              \/ SendFails \/ Rewind \/ Poll \/ Advance \/ BlockMissing \/ WatcherAborts
              \/ MineEmpty
     PROVE  AttemptsLeft'
  BY <1>21
     DEF EndOfStuck, NodeInSync, EndOfRows, NodeAccepts, Replied, NodeKnowsRef, SendFails,
         Rewind, Poll, Advance, BlockMissing, WatcherAborts, MineEmpty, AppendBlock
<1>22. ASSUME \/ Reorg \/ ChainReset \/ RaiseCap \/ SetHalted
              \/ \E tx \in pool : Mine(tx) \/ Drop(tx)
     PROVE  AttemptsLeft'
  BY <1>22 DEF Reorg, ChainReset, RaiseCap, SetHalted, Mine, AppendBlock, Drop
<1>23. CASE UNCHANGED vars
  BY <1>23 DEF vars
<1> HIDE DEF RowInv, TypeOK, Statuses, OutboxStatuses, NoMint, CurIsAlone, AttemptsLeft,
             rowVars, configVars, workerVars, watcherVars, chainVars, countVars
<1> QED
  BY <1>1, <1>2, <1>3, <1>4, <1>5, <1>6, <1>7, <1>8, <1>9, <1>10, <1>11, <1>12, <1>13, <1>14,
     <1>15, <1>16, <1>17, <1>18, <1>19, <1>20, <1>21, <1>22, <1>23
     DEF Next, Approval, Stuck, Drain, Watch, Elapses, Blockchain, Operator

\* Every step keeps StuckWasSent.
LEMMA StuckStep == ASSUME RowInv, [Next]_vars PROVE StuckWasSent'
<1> USE IntentsAssumption, ConfigAssumption DEF RowInv, TypeOK, Statuses, OutboxStatuses,
        Stages, NoMint, CurIsAlone, UnopenedIsUntouched, StuckWasSent, rowVars, configVars,
        workerVars, watcherVars, chainVars, countVars
<1>1. ASSUME NEW i \in Intents, VerifierApproves(i) PROVE StuckWasSent'
  BY <1>1 DEF VerifierApproves, SetStatus, OpenOutbox, SetOutbox
<1>2. ASSUME NEW i \in Intents, VerifierHolds(i) PROVE StuckWasSent'
  BY <1>2 DEF VerifierHolds, SetStatus
<1>3. ASSUME NEW i \in Intents, VerifierRejects(i) PROVE StuckWasSent'
  BY <1>3 DEF VerifierRejects, SetStatus
<1>4. ASSUME NEW i \in Intents, HumanApproves(i) PROVE StuckWasSent'
  BY <1>4 DEF HumanApproves, SetStatus, OpenOutbox, SetOutbox
<1>5. ASSUME SelectStuck PROVE StuckWasSent'
  BY <1>5 DEF SelectStuck
<1>6. ASSUME NEW i \in Intents, Requeue(i) PROVE StuckWasSent'
  BY <1>6 DEF Requeue, SetOutbox
<1>7. ASSUME NEW i \in Intents, CloseExhausted(i) PROVE StuckWasSent'
  BY <1>7 DEF CloseExhausted, SetOutbox
<1>8. ASSUME GiveUp PROVE StuckWasSent'
  BY <1>8 DEF GiveUp, SetStatus
<1>9. ASSUME StuckAborts PROVE StuckWasSent'
  BY <1>9 DEF StuckAborts
<1>10. ASSUME SelectDue PROVE StuckWasSent'
  BY <1>10 DEF SelectDue
<1>11. ASSUME NodeBehind PROVE StuckWasSent'
  BY <1>11 DEF NodeBehind
<1>12. ASSUME NEW i \in Intents, GateDenies(i) PROVE StuckWasSent'
  BY <1>12 DEF GateDenies, Denial, Park, FailOrBackoff, SetOutbox, SetStatus, NextRow
<1>13. ASSUME NEW i \in Intents, GateTrips(i) PROVE StuckWasSent'
  BY <1>13 DEF GateTrips, Denial, Park, FailOrBackoff, SetOutbox, SetStatus, NextRow
<1>14. ASSUME NEW i \in Intents, GateEscalates(i) PROVE StuckWasSent'
  BY <1>14 DEF GateEscalates, SetOutbox, SetStatus, NextRow
<1>15. ASSUME NEW i \in Intents, AwaitCosigner(i) PROVE StuckWasSent'
  BY <1>15 DEF AwaitCosigner, Park, NextRow
<1>16. ASSUME NEW i \in Intents, PassGate(i) PROVE StuckWasSent'
  BY <1>16 DEF PassGate, NextRow
<1>17. ASSUME OnAccepted PROVE StuckWasSent'
  BY <1>17 DEF OnAccepted, MarkSubmitted, SetStatus, SetOutbox, Recorded
<1>18. ASSUME OnAlreadyProcessed PROVE StuckWasSent'
  BY <1>18 DEF OnAlreadyProcessed, MarkSubmitted, SetStatus, SetOutbox, Recorded
<1>19. ASSUME OnError PROVE StuckWasSent'
  BY <1>19 DEF OnError, FailOrBackoff, SetStatus, SetOutbox, Recorded
<1>20. ASSUME DrainAborts PROVE StuckWasSent'
  BY <1>20 DEF DrainAborts
<1>21. ASSUME ProcessBlock PROVE StuckWasSent'
  <2>1. PICK m \in Intents \cup {NoMint} :
          \/ m \in Intents /\ status[m] # "credited" /\ CreditMint(m)
          \/ UNCHANGED <<status, stale, outbox, events>>
    BY <1>21, BlockCases
  <2>2. CASE m \in Intents /\ status[m] # "credited" /\ CreditMint(m)
    <3>1. outbox' = [outbox EXCEPT ![m] = "confirmed"] /\ UNCHANGED <<pc, todo, cur>>
      BY <1>21, <2>2 DEF ProcessBlock, CreditMint, SetOutbox
    <3>2. \A i \in Intents : status'[i] = status[i] \/ (i = m /\ status'[i] = "credited")
      BY <2>2 DEF CreditMint, SetStatus
    <3>3. \A i \in Intents : outbox'[i] = "submitted" => status'[i] = "submitted"
      BY <3>1, <3>2
    <3>4. pc' \in {"stuck", "give_up"} => \A i \in todo' : status'[i] \in {"submitted", "credited"}
      BY <3>1, <3>2
    <3>5. pc' = "give_up" =>
            status'[cur'] \in {"submitted", "credited"} /\ outbox'[cur'] \in {"failed", "confirmed"}
      BY <3>1, <3>2
    <3> QED
      BY <3>3, <3>4, <3>5
  <2>3. CASE UNCHANGED <<status, stale, outbox, events>>
    BY <1>21, <2>3 DEF ProcessBlock
  <2> QED
    BY <2>1, <2>2, <2>3
<1>22. ASSUME NEW i \in Intents,
            \/ HumanChecks(i) \/ FallsDue(i) \/ GoesStale(i) \/ Ages(i) \/ Cosign(i)
     PROVE  StuckWasSent'
  BY <1>22 DEF HumanChecks, FallsDue, GoesStale, Ages, Cosign
<1>23. ASSUME \/ EndOfStuck \/ NodeInSync \/ EndOfRows \/ NodeAccepts \/ NodeKnowsRef
              \/ SendFails \/ Rewind \/ Poll \/ Advance \/ BlockMissing \/ WatcherAborts
              \/ MineEmpty
     PROVE  StuckWasSent'
  BY <1>23
     DEF EndOfStuck, NodeInSync, EndOfRows, NodeAccepts, Replied, NodeKnowsRef, SendFails,
         Rewind, Poll, Advance, BlockMissing, WatcherAborts, MineEmpty, AppendBlock
<1>24. ASSUME \/ Reorg \/ ChainReset \/ RaiseCap \/ SetHalted
              \/ \E tx \in pool : Mine(tx) \/ Drop(tx)
     PROVE  StuckWasSent'
  BY <1>24 DEF Reorg, ChainReset, RaiseCap, SetHalted, Mine, AppendBlock, Drop
<1>25. CASE UNCHANGED vars
  BY <1>25 DEF vars
<1> HIDE DEF RowInv, TypeOK, Statuses, OutboxStatuses, Stages, NoMint, CurIsAlone,
             UnopenedIsUntouched, StuckWasSent, rowVars, configVars, workerVars, watcherVars,
             chainVars, countVars
<1> QED
  BY <1>1, <1>2, <1>3, <1>4, <1>5, <1>6, <1>7, <1>8, <1>9, <1>10, <1>11, <1>12, <1>13, <1>14,
     <1>15, <1>16, <1>17, <1>18, <1>19, <1>20, <1>21, <1>22, <1>23, <1>24, <1>25
     DEF Next, Approval, Stuck, Drain, Watch, Elapses, Blockchain, Operator

\* Every step keeps ApprovedIsQueued.
LEMMA QueuedStep == ASSUME RowInv, [Next]_vars PROVE ApprovedIsQueued'
<1> USE IntentsAssumption, ConfigAssumption DEF RowInv, TypeOK, Statuses, OutboxStatuses,
        Stages, NoMint, CurIsAlone, StuckWasSent, ApprovedIsQueued, rowVars, configVars,
        workerVars, watcherVars, chainVars, countVars
<1>1. ASSUME NEW i \in Intents, VerifierApproves(i) PROVE ApprovedIsQueued'
  BY <1>1 DEF VerifierApproves, SetStatus, OpenOutbox, SetOutbox
<1>2. ASSUME NEW i \in Intents, VerifierHolds(i) PROVE ApprovedIsQueued'
  BY <1>2 DEF VerifierHolds, SetStatus
<1>3. ASSUME NEW i \in Intents, VerifierRejects(i) PROVE ApprovedIsQueued'
  BY <1>3 DEF VerifierRejects, SetStatus
<1>4. ASSUME NEW i \in Intents, HumanApproves(i) PROVE ApprovedIsQueued'
  BY <1>4 DEF HumanApproves, SetStatus, OpenOutbox, SetOutbox
<1>5. ASSUME SelectStuck PROVE ApprovedIsQueued'
  BY <1>5 DEF SelectStuck
<1>6. ASSUME NEW i \in Intents, Requeue(i) PROVE ApprovedIsQueued'
  BY <1>6 DEF Requeue, SetOutbox
<1>7. ASSUME NEW i \in Intents, CloseExhausted(i) PROVE ApprovedIsQueued'
  BY <1>7 DEF CloseExhausted, SetOutbox
<1>8. ASSUME GiveUp PROVE ApprovedIsQueued'
  BY <1>8 DEF GiveUp, SetStatus
<1>9. ASSUME StuckAborts PROVE ApprovedIsQueued'
  BY <1>9 DEF StuckAborts
<1>10. ASSUME SelectDue PROVE ApprovedIsQueued'
  BY <1>10 DEF SelectDue
<1>11. ASSUME NodeBehind PROVE ApprovedIsQueued'
  BY <1>11 DEF NodeBehind
<1>12. ASSUME NEW i \in Intents, GateDenies(i) PROVE ApprovedIsQueued'
  BY <1>12 DEF GateDenies, Denial, Park, FailOrBackoff, SetOutbox, SetStatus, NextRow
<1>13. ASSUME NEW i \in Intents, GateTrips(i) PROVE ApprovedIsQueued'
  BY <1>13 DEF GateTrips, Denial, Park, FailOrBackoff, SetOutbox, SetStatus, NextRow
<1>14. ASSUME NEW i \in Intents, GateEscalates(i) PROVE ApprovedIsQueued'
  BY <1>14 DEF GateEscalates, SetOutbox, SetStatus, NextRow
<1>15. ASSUME NEW i \in Intents, AwaitCosigner(i) PROVE ApprovedIsQueued'
  BY <1>15 DEF AwaitCosigner, Park, NextRow
<1>16. ASSUME NEW i \in Intents, PassGate(i) PROVE ApprovedIsQueued'
  BY <1>16 DEF PassGate, NextRow
<1>17. ASSUME OnAccepted PROVE ApprovedIsQueued'
  BY <1>17 DEF OnAccepted, MarkSubmitted, SetStatus, SetOutbox, Recorded
<1>18. ASSUME OnAlreadyProcessed PROVE ApprovedIsQueued'
  BY <1>18 DEF OnAlreadyProcessed, MarkSubmitted, SetStatus, SetOutbox, Recorded
<1>19. ASSUME OnError PROVE ApprovedIsQueued'
  BY <1>19 DEF OnError, FailOrBackoff, SetStatus, SetOutbox, Recorded
<1>20. ASSUME DrainAborts PROVE ApprovedIsQueued'
  BY <1>20 DEF DrainAborts
<1>21. ASSUME ProcessBlock PROVE ApprovedIsQueued'
  <2>1. PICK m \in Intents \cup {NoMint} :
          \/ m \in Intents /\ status[m] # "credited" /\ CreditMint(m)
          \/ UNCHANGED <<status, stale, outbox, events>>
    BY <1>21, BlockCases
  <2>2. CASE m \in Intents /\ status[m] # "credited" /\ CreditMint(m)
    BY <1>21, <2>2 DEF ProcessBlock, CreditMint, SetStatus, SetOutbox
  <2>3. CASE UNCHANGED <<status, stale, outbox, events>>
    BY <1>21, <2>3 DEF ProcessBlock
  <2> QED
    BY <2>1, <2>2, <2>3
<1>22. ASSUME NEW i \in Intents,
            \/ HumanChecks(i) \/ FallsDue(i) \/ GoesStale(i) \/ Ages(i) \/ Cosign(i)
     PROVE  ApprovedIsQueued'
  BY <1>22 DEF HumanChecks, FallsDue, GoesStale, Ages, Cosign
<1>23. ASSUME \/ EndOfStuck \/ NodeInSync \/ EndOfRows \/ NodeAccepts \/ NodeKnowsRef
              \/ SendFails \/ Rewind \/ Poll \/ Advance \/ BlockMissing \/ WatcherAborts
              \/ MineEmpty
     PROVE  ApprovedIsQueued'
  BY <1>23
     DEF EndOfStuck, NodeInSync, EndOfRows, NodeAccepts, Replied, NodeKnowsRef, SendFails,
         Rewind, Poll, Advance, BlockMissing, WatcherAborts, MineEmpty, AppendBlock
<1>24. ASSUME \/ Reorg \/ ChainReset \/ RaiseCap \/ SetHalted
              \/ \E tx \in pool : Mine(tx) \/ Drop(tx)
     PROVE  ApprovedIsQueued'
  BY <1>24 DEF Reorg, ChainReset, RaiseCap, SetHalted, Mine, AppendBlock, Drop
<1>25. CASE UNCHANGED vars
  BY <1>25 DEF vars
<1> HIDE DEF RowInv, TypeOK, Statuses, OutboxStatuses, Stages, NoMint, CurIsAlone,
             StuckWasSent, ApprovedIsQueued, rowVars, configVars, workerVars, watcherVars,
             chainVars, countVars
<1> QED
  BY <1>1, <1>2, <1>3, <1>4, <1>5, <1>6, <1>7, <1>8, <1>9, <1>10, <1>11, <1>12, <1>13, <1>14,
     <1>15, <1>16, <1>17, <1>18, <1>19, <1>20, <1>21, <1>22, <1>23, <1>24, <1>25
     DEF Next, Approval, Stuck, Drain, Watch, Elapses, Blockchain, Operator

\* A step that closes no row, takes none up that was not open and leaves the chain alone.
LEMMA RowStepLeavesUnopened ==
  ASSUME UnopenedIsUntouched, UNCHANGED <<pool, chain>>,
         \A i \in Intents : outbox'[i] = "none" => outbox[i] = "none" /\ i \notin todo' /\ cur' # i,
         \A i \in Intents : status'[i] \in {"created", "rejected"} => outbox'[i] = "none"
  PROVE  UnopenedIsUntouched'
<1>1. \A i \in Intents : OnChain(i)' <=> OnChain(i)
  BY DEF OnChain
<1> QED
  BY <1>1 DEF UnopenedIsUntouched

\* A refusal or a failure: the row it is about was open, and it stays open or is closed.
LEMMA DenialLeavesUnopened ==
  ASSUME RowInv, NEW i \in Intents, Denial(i) \/ FailOrBackoff(i), i \in todo \/ cur = i,
         todo' \subseteq todo, cur' \in {cur, NoMint}, UNCHANGED <<pool, chain>>
  PROVE  UnopenedIsUntouched'
<1>1. /\ outbox' = [outbox EXCEPT ![i] = "failed"] \/ outbox' = outbox
      /\ \A j \in Intents : status'[j] = status[j] \/ status'[j] = "failed"
  BY DEF Denial, Park, FailOrBackoff, SetOutbox, SetStatus, RowInv, TypeOK
<1>2. outbox[i] # "none"
  BY DEF RowInv, UnopenedIsUntouched
<1>3. \A j \in Intents : outbox'[j] = "none" => outbox[j] = "none"
  BY <1>1, <1>2 DEF RowInv, TypeOK
<1>4. \A j \in Intents : outbox'[j] = "none" => j \notin todo' /\ cur' # j
  BY <1>3, IntentsAssumption DEF RowInv, UnopenedIsUntouched, NoMint
<1>5. ASSUME NEW j \in Intents, status'[j] \in {"created", "rejected"} PROVE outbox'[j] = "none"
  <2>1. status[j] \in {"created", "rejected"}
    BY <1>1, <1>5
  <2>2. outbox[j] = "none" /\ j # i
    BY <1>2, <2>1 DEF RowInv, UnopenedIsUntouched
  <2> QED
    BY <1>1, <2>2 DEF RowInv, TypeOK
<1> QED
  BY <1>3, <1>4, <1>5, RowStepLeavesUnopened DEF RowInv

\* A new block holds what came from the pool.
LEMMA AppendLeavesUnopened ==
  ASSUME TypeOK, UnopenedIsUntouched, NEW tx \in pool \cup {EmptyBlock}, AppendBlock(tx)
  PROVE  UnopenedIsUntouched'
<1>1. chain' = Append(chain, tx) /\ pool' = pool \ {tx} /\ UNCHANGED <<status, outbox, todo, cur>>
  BY DEF AppendBlock, rowVars, workerVars
<1>2. \A i \in Intents : OnChain(i)' => OnChain(i) \/ tx.intent = i
  BY <1>1 DEF OnChain, TypeOK
<1>3. \A i \in Intents : outbox[i] = "none" => tx.intent # i
  BY MintTxFacts DEF UnopenedIsUntouched
<1> QED
  BY <1>1, <1>2, <1>3 DEF UnopenedIsUntouched

\* Every step keeps UnopenedIsUntouched.
LEMMA UnopenedStep == ASSUME RowInv, [Next]_vars PROVE UnopenedIsUntouched'
<1> USE IntentsAssumption, ConfigAssumption DEF RowInv, TypeOK, Statuses, OutboxStatuses,
        Stages, NoMint, OnChain, UnopenedIsUntouched, rowVars, configVars, workerVars,
        watcherVars, chainVars, countVars
<1>1. ASSUME NEW i \in Intents, VerifierApproves(i) PROVE UnopenedIsUntouched'
  BY <1>1 DEF VerifierApproves, SetStatus, OpenOutbox, SetOutbox
<1>2. ASSUME NEW i \in Intents, VerifierHolds(i) PROVE UnopenedIsUntouched'
  BY <1>2 DEF VerifierHolds, SetStatus
<1>3. ASSUME NEW i \in Intents, VerifierRejects(i) PROVE UnopenedIsUntouched'
  BY <1>3 DEF VerifierRejects, SetStatus
<1>4. ASSUME NEW i \in Intents, HumanApproves(i) PROVE UnopenedIsUntouched'
  BY <1>4 DEF HumanApproves, SetStatus, OpenOutbox, SetOutbox
<1>5. ASSUME SelectStuck PROVE UnopenedIsUntouched'
  BY <1>5 DEF SelectStuck
<1>6. ASSUME NEW i \in Intents, Requeue(i) PROVE UnopenedIsUntouched'
  BY <1>6 DEF Requeue, SetOutbox
<1>7. ASSUME NEW i \in Intents, CloseExhausted(i) PROVE UnopenedIsUntouched'
  BY <1>7 DEF CloseExhausted, SetOutbox
<1>8. ASSUME GiveUp PROVE UnopenedIsUntouched'
  BY <1>8 DEF GiveUp, SetStatus
<1>9. ASSUME StuckAborts PROVE UnopenedIsUntouched'
  BY <1>9 DEF StuckAborts
<1>10. ASSUME SelectDue PROVE UnopenedIsUntouched'
  BY <1>10 DEF SelectDue
<1>11. ASSUME NodeBehind PROVE UnopenedIsUntouched'
  BY <1>11 DEF NodeBehind
<1>12. ASSUME NEW i \in Intents, GateDenies(i) PROVE UnopenedIsUntouched'
  <2>1. Denial(i) /\ i \in todo /\ todo' = todo \ {i} /\ UNCHANGED <<cur, pool, chain>>
    BY <1>12 DEF GateDenies, NextRow
  <2> QED
    BY <2>1, DenialLeavesUnopened
<1>13. ASSUME NEW i \in Intents, GateTrips(i) PROVE UnopenedIsUntouched'
  <2>1. Denial(i) /\ i \in todo /\ todo' = todo \ {i} /\ UNCHANGED <<cur, pool, chain>>
    BY <1>13 DEF GateTrips, NextRow
  <2> QED
    BY <2>1, DenialLeavesUnopened
<1>14. ASSUME NEW i \in Intents, GateEscalates(i) PROVE UnopenedIsUntouched'
  <2>1. /\ outbox' = [outbox EXCEPT ![i] = "failed"]
        /\ \A j \in Intents : status'[j] = status[j] \/ status'[j] = "needs_manual"
    BY <1>14 DEF GateEscalates, SetOutbox, SetStatus
  <2>2. i \in todo /\ todo' = todo \ {i} /\ UNCHANGED <<cur, pool, chain>>
    BY <1>14 DEF GateEscalates, NextRow
  <2>3. outbox[i] # "none"
    BY <2>2
  <2>4. \A j \in Intents : outbox'[j] = "none" => outbox[j] = "none" /\ j \notin todo' /\ cur' # j
    BY <2>1, <2>2
  <2>5. \A j \in Intents : status'[j] \in {"created", "rejected"} => outbox'[j] = "none"
    BY <2>1, <2>3
  <2> QED
    BY <2>2, <2>4, <2>5, RowStepLeavesUnopened
<1>15. ASSUME NEW i \in Intents, AwaitCosigner(i) PROVE UnopenedIsUntouched'
  BY <1>15 DEF AwaitCosigner, Park, NextRow
<1>16. ASSUME NEW i \in Intents, PassGate(i) PROVE UnopenedIsUntouched'
  BY <1>16 DEF PassGate, NextRow
<1>17. ASSUME NodeAccepts PROVE UnopenedIsUntouched'
  BY <1>17, MintTxFacts DEF NodeAccepts, Replied
<1>18. ASSUME OnAccepted PROVE UnopenedIsUntouched'
  BY <1>18 DEF OnAccepted, MarkSubmitted, SetStatus, SetOutbox, Recorded
<1>19. ASSUME OnAlreadyProcessed PROVE UnopenedIsUntouched'
  BY <1>19 DEF OnAlreadyProcessed, MarkSubmitted, SetStatus, SetOutbox, Recorded
<1>20. ASSUME OnError PROVE UnopenedIsUntouched'
  <2>1. FailOrBackoff(cur) /\ cur \in Intents /\ cur' = NoMint /\ UNCHANGED <<todo, pool, chain>>
    BY <1>20 DEF OnError, Recorded
  <2> QED
    BY <2>1, DenialLeavesUnopened
<1>21. ASSUME DrainAborts PROVE UnopenedIsUntouched'
  BY <1>21 DEF DrainAborts
<1>22. ASSUME ProcessBlock PROVE UnopenedIsUntouched'
  <2>1. PICK m \in Intents \cup {NoMint} :
          \/ m \in Intents /\ status[m] # "credited" /\ CreditMint(m) /\ OnChain(m)
          \/ UNCHANGED <<status, stale, outbox, events>>
    BY <1>22, BlockCases
  <2>2. CASE m \in Intents /\ status[m] # "credited" /\ CreditMint(m) /\ OnChain(m)
    <3>1. outbox' = [outbox EXCEPT ![m] = "confirmed"]
          /\ \A i \in Intents : status'[i] = status[i] \/ status'[i] = "credited"
      BY <2>2 DEF CreditMint, SetStatus, SetOutbox
    <3>2. UNCHANGED <<todo, cur, pool, chain>>
      BY <1>22 DEF ProcessBlock
    <3>3. \A i \in Intents : OnChain(i)' <=> OnChain(i)
      BY <3>2
    <3>4. \A i \in Intents : outbox'[i] = "none" => outbox[i] = "none"
      BY <3>1
    <3>5. \A i \in Intents : status'[i] \in {"created", "rejected"} =>
            status[i] \in {"created", "rejected"} /\ outbox[i] = "none"
      BY <3>1
    <3>6. outbox[m] # "none"
      BY <2>2
    <3> HIDE DEF OnChain
    <3>7. \A i \in Intents : outbox'[i] = "none" =>
            i \notin todo' /\ cur' # i /\ (\A tx \in pool' : tx.intent # i) /\ ~OnChain(i)'
      BY <3>2, <3>3, <3>4
    <3>8. \A i \in Intents : status'[i] \in {"created", "rejected"} => outbox'[i] = "none"
      BY <3>1, <3>5, <3>6
    <3> QED
      BY <3>7, <3>8
  <2>3. CASE UNCHANGED <<status, stale, outbox, events>>
    BY <1>22, <2>3 DEF ProcessBlock
  <2> QED
    BY <2>1, <2>2, <2>3
<1>23. ASSUME NEW tx \in pool, Mine(tx) PROVE UnopenedIsUntouched'
  BY <1>23, AppendLeavesUnopened DEF Mine
<1>24. ASSUME MineEmpty PROVE UnopenedIsUntouched'
  BY <1>24, AppendLeavesUnopened DEF MineEmpty
<1>25. ASSUME Reorg PROVE UnopenedIsUntouched'
  <2>1. \A i \in Intents : OnChain(i)' => OnChain(i)
    BY <1>25 DEF Reorg
  <2>2. \A tx \in pool' : tx \in pool \/ \E h \in 1..Len(chain) : tx = chain[h]
    BY <1>25 DEF Reorg
  <2>3. UNCHANGED <<rowVars, todo, cur>>
    BY <1>25 DEF Reorg
  <2>4. ASSUME NEW i \in Intents, NEW tx \in pool', tx.intent = i
        PROVE  OnChain(i) \/ \E t \in pool : t.intent = i
    BY <2>2, <2>4
  <2> HIDE DEF OnChain
  <2>5. \A i \in Intents : outbox'[i] = "none" =>
          i \notin todo' /\ cur' # i /\ (\A tx \in pool' : tx.intent # i) /\ ~OnChain(i)'
    BY <2>1, <2>3, <2>4
  <2> QED
    BY <2>3, <2>5
<1>26. ASSUME ChainReset PROVE UnopenedIsUntouched'
  BY <1>26 DEF ChainReset
<1>27. ASSUME NEW i \in Intents,
            \/ HumanChecks(i) \/ FallsDue(i) \/ GoesStale(i) \/ Ages(i) \/ Cosign(i)
     PROVE  UnopenedIsUntouched'
  BY <1>27 DEF HumanChecks, FallsDue, GoesStale, Ages, Cosign
<1>28. ASSUME \/ EndOfStuck \/ NodeInSync \/ EndOfRows \/ NodeKnowsRef \/ SendFails
              \/ Rewind \/ Poll \/ Advance \/ BlockMissing \/ WatcherAborts \/ RaiseCap
              \/ SetHalted \/ \E tx \in pool : Drop(tx)
     PROVE  UnopenedIsUntouched'
  BY <1>28
     DEF Drop, EndOfStuck, NodeInSync, EndOfRows, NodeKnowsRef, Replied, SendFails, Rewind, Poll,
         Advance, BlockMissing, WatcherAborts, RaiseCap, SetHalted
<1>29. CASE UNCHANGED vars
  BY <1>29 DEF vars
<1> HIDE DEF RowInv, TypeOK, Statuses, OutboxStatuses, Stages, NoMint, OnChain,
             UnopenedIsUntouched, rowVars, configVars, workerVars, watcherVars, chainVars,
             countVars
<1> QED
  BY <1>1, <1>2, <1>3, <1>4, <1>5, <1>6, <1>7, <1>8, <1>9, <1>10, <1>11, <1>12, <1>13, <1>14,
     <1>15, <1>16, <1>17, <1>18, <1>19, <1>20, <1>21, <1>22, <1>23, <1>24, <1>25, <1>26,
     <1>27, <1>28, <1>29
     DEF Next, Approval, Stuck, Drain, Watch, Elapses, Blockchain, Operator

LEMMA RowStep == ASSUME RowInv, [Next]_vars PROVE RowInv'
BY TypeStep, AloneStep, AttemptsStep, StuckStep, QueuedStep, UnopenedStep DEF RowInv

LEMMA RowInit == Init => RowInv
<1> SUFFICES ASSUME Init PROVE RowInv
  OBVIOUS
<1> USE IntentsAssumption, ConfigAssumption DEF Init, NoMint
<1>1. TypeOK
  <2>1. chain \in Seq(MintTxs \cup {EmptyBlock}) /\ events \in [Intents -> Nat]
    OBVIOUS
  <2>2. status \in [Intents -> Statuses] /\ outbox \in [Intents -> OutboxStatuses]
    BY DEF Statuses, OutboxStatuses
  <2>3. attempts \in [Intents -> 0..(MaxAttempts + 1)]
    OBVIOUS
  <2>4. pc \in Stages /\ reply \in Replies /\ ~(pc \in {"give_up", "send", "record"})
    BY DEF Stages, Replies
  <2>5. overCap \subseteq Intents /\ signed \subseteq Intents
    OBVIOUS
  <2> QED
    BY <2>1, <2>2, <2>3, <2>4, <2>5 DEF TypeOK
<1>2. CurIsAlone /\ AttemptsLeft /\ StuckWasSent /\ ApprovedIsQueued
  BY DEF CurIsAlone, AttemptsLeft, StuckWasSent, ApprovedIsQueued
<1>3. UnopenedIsUntouched
  BY DEF UnopenedIsUntouched, OnChain
<1> QED
  BY <1>1, <1>2, <1>3 DEF RowInv

LEMMA RowInvariant == Spec => []RowInv
BY RowInit, RowStep, PTL DEF Spec

\* Every variable keeps its type, attempts included: none is tried past MAX_ATTEMPTS.
THEOREM TypeCorrect == Spec => []TypeOK
<1>1. RowInv => TypeOK
  BY DEF RowInv
<1> QED
  BY <1>1, RowInvariant, PTL

\* Whatever the approvals by hand, the requeueing, the giving up and the crashes, an
\* approved intent's row is one the worker will select (outbox.rs:86-118).
THEOREM ApprovedQueued == Spec => []ApprovedIsQueued
<1>1. RowInv => ApprovedIsQueued
  BY DEF RowInv
<1> QED
  BY <1>1, RowInvariant, PTL

\* A deposit the verifier rejected is not in the pool, not on chain, not in hand.
THEOREM RejectedNeverMinted == Spec => []RejectedIsNeverMinted
<1>1. RowInv => RejectedIsNeverMinted
  BY DEF RowInv, TypeOK, UnopenedIsUntouched, RejectedIsNeverMinted
<1> QED
  BY <1>1, RowInvariant, PTL

-----------------------------------------------------------------------------
(* The daily cap.  The gate's answer is used after others have moved, but  *)
(* only the worker adds a mint to those in flight, one at a time: what the *)
(* gate counted covers them until the reply is recorded.                   *)

\* Those of the last 24 hours.
InFlight == {i \in recent : status[i] = "submitted"}

\* The mints of the day in flight fit the cap, the one the worker is sending included,
\* be it of the day or not.
InFlightInv ==
  /\ TotalOf(InFlight) <= DailyCap
  /\ pc \in {"send", "record"} => TotalOf(InFlight \cup {cur}) <= DailyCap

\* Totals are amounts, grow with their sets, and an intent adds its own amount.
LEMMA Totals ==
  ASSUME NEW S \in SUBSET Intents, NEW T \in SUBSET Intents
  PROVE  /\ TotalOf(S) \in Nat
         /\ S \subseteq T => TotalOf(S) <= TotalOf(T)
         /\ \A i \in Intents : TotalOf(S \cup {i}) = TotalOf(S \ {i}) + Amount[i]
<1>1. IsFiniteSet(S) /\ IsFiniteSet(T)
  BY FinitelyMany, FS_Subset
<1>2. \A i \in Intents : Amount[i] \in Nat
  BY ConfigAssumption
<1>3. SumOver(Amount, S) \in Nat
  BY <1>1, <1>2, SumIsNat
<1>4. ASSUME S \subseteq T PROVE SumOver(Amount, S) <= SumOver(Amount, T)
  BY <1>1, <1>2, <1>4, SumSubset
<1>5. ASSUME NEW i \in Intents
      PROVE  SumOver(Amount, S \cup {i}) = SumOver(Amount, S \ {i}) + Amount[i]
  <2> DEFINE R == S \ {i}
  <2>1. IsFiniteSet(R) /\ i \notin R /\ R \subseteq Intents
    BY <1>1, FS_Subset
  <2>2. S \cup {i} = R \cup {i}
    OBVIOUS
  <2> HIDE DEF R
  <2>3. SumOver(Amount, R \cup {i}) = Amount[i] + SumOver(Amount, R)
    BY <1>2, <2>1, SumAdd
  <2>4. SumOver(Amount, R) \in Nat
    BY <1>2, <2>1, SumIsNat
  <2>5. SumOver(Amount, S \cup {i}) = SumOver(Amount, R \cup {i})
    BY <2>2
  <2>6. Amount[i] \in Nat
    BY <1>2
  <2> QED
    BY <2>3, <2>4, <2>5, <2>6 DEF R
<1> QED
  BY <1>3, <1>4, <1>5 DEF TotalOf

\* An intent never becomes younger.
LEMMA RecentShrinks == ASSUME [Next]_vars PROVE recent' \subseteq recent
<1> USE DEF configVars
<1>1. CASE Approval \/ Stuck \/ StuckAborts \/ Operator
  BY <1>1 DEF Approval, VerifierApproves, VerifierHolds, VerifierRejects, HumanChecks,
    HumanApproves, Stuck, SelectStuck, Requeue, CloseExhausted, GiveUp, EndOfStuck, StuckAborts,
    Operator, RaiseCap, SetHalted, Cosign
<1>2. CASE Drain \/ DrainAborts
  BY <1>2 DEF Drain, DrainAborts, SelectDue, NodeBehind, NodeInSync, EndOfRows, NodeAccepts,
    NodeKnowsRef, SendFails, Replied, OnAccepted, OnAlreadyProcessed, OnError, GateDenies,
    GateTrips, GateEscalates, AwaitCosigner, PassGate
<1>3. CASE Watch \/ WatcherAborts \/ Elapses \/ Blockchain \/ UNCHANGED vars
  BY <1>3 DEF Watch, Rewind, Poll, ProcessBlock, Advance, BlockMissing, WatcherAborts, Elapses,
    FallsDue, GoesStale, Ages, Blockchain, Mine, Drop, MineEmpty, AppendBlock, Reorg, ChainReset,
    vars
<1> QED
  BY <1>1, <1>2, <1>3 DEF Next

\* Only the recording of a reply puts an intent in flight, and only the one in hand.
LEMMA OnlyRecordedFlies ==
  ASSUME RowInv, [Next]_vars
  PROVE  InFlight' \subseteq InFlight \cup (IF pc = "record" THEN {cur} ELSE {})
<1> USE DEF InFlight, RowInv, TypeOK, rowVars
<1>1. ASSUME NEW i \in Intents, Approval \/ Stuck \/ StuckAborts, status'[i] = "submitted"
      PROVE  status[i] = "submitted"
  BY <1>1 DEF Approval, Stuck, StuckAborts, VerifierApproves, VerifierHolds, VerifierRejects,
    HumanChecks, HumanApproves, SelectStuck, Requeue, CloseExhausted, GiveUp, EndOfStuck,
    SetStatus
<1>2. ASSUME NEW i \in Intents, status'[i] = "submitted",
             \/ SelectDue \/ NodeBehind \/ NodeInSync \/ EndOfRows
             \/ NodeAccepts \/ NodeKnowsRef \/ SendFails \/ OnError
             \/ \E j \in Intents : \/ GateDenies(j) \/ GateTrips(j) \/ GateEscalates(j)
                                   \/ AwaitCosigner(j) \/ PassGate(j)
      PROVE  status[i] = "submitted"
  BY <1>2 DEF SelectDue, NodeBehind, NodeInSync, EndOfRows, NodeAccepts, NodeKnowsRef,
    SendFails, Replied, OnError, GateDenies, GateTrips, GateEscalates, AwaitCosigner, PassGate,
    Denial, Park, FailOrBackoff, SetStatus
<1>3. ASSUME NEW i \in Intents, status'[i] = "submitted", OnAccepted \/ OnAlreadyProcessed
      PROVE  status[i] = "submitted" \/ (pc = "record" /\ i = cur)
  BY <1>3 DEF OnAccepted, OnAlreadyProcessed, MarkSubmitted, SetStatus
<1>4. ASSUME NEW i \in Intents, status'[i] = "submitted",
             Watch \/ WatcherAborts \/ DrainAborts \/ Elapses \/ Blockchain \/ Operator
                \/ UNCHANGED vars
      PROVE  status[i] = "submitted"
  BY <1>4 DEF Watch, Rewind, Poll, ProcessBlock, CreditMint, Advance, BlockMissing,
    WatcherAborts, DrainAborts, Elapses, FallsDue, GoesStale, Ages, Blockchain, Mine, Drop,
    MineEmpty, AppendBlock, Reorg, ChainReset, Operator, RaiseCap, SetHalted, Cosign, SetStatus, vars
<1>5. \A i \in Intents : status'[i] = "submitted" =>
        status[i] = "submitted" \/ (pc = "record" /\ i = cur)
  BY <1>1, <1>2, <1>3, <1>4 DEF Next, Drain
<1> QED
  BY <1>5, RecentShrinks

\* The worker sends only what it has let through the gate.
LEMMA SendsWhatPassed ==
  ASSUME RowInv, [Next]_vars, pc' \in {"send", "record"}
  PROVE  \/ \E i \in Intents : PassGate(i)
         \/ pc \in {"send", "record"} /\ cur' = cur /\ InFlight' \subseteq InFlight \cup {cur}
<1> SUFFICES ASSUME ~ \E i \in Intents : PassGate(i)
             PROVE  pc \in {"send", "record"} /\ cur' = cur
  BY OnlyRecordedFlies
<1>1. CASE Approval \/ Elapses \/ Blockchain \/ Operator \/ Watch \/ WatcherAborts
           \/ UNCHANGED vars
  BY <1>1 DEF Approval, VerifierApproves, VerifierHolds, VerifierRejects, HumanChecks,
    HumanApproves, Elapses, FallsDue, GoesStale, Ages, Blockchain, Mine, Drop, MineEmpty, AppendBlock,
    Reorg, ChainReset, Operator, RaiseCap, SetHalted, Cosign, Watch, Rewind, Poll, ProcessBlock,
    Advance, BlockMissing, WatcherAborts, vars, workerVars
<1>2. CASE Stuck \/ StuckAborts \/ DrainAborts
  BY <1>2 DEF Stuck, StuckAborts, DrainAborts, SelectStuck, Requeue, CloseExhausted, GiveUp,
    EndOfStuck
<1>3. CASE Drain
  BY <1>3 DEF Drain, SelectDue, NodeBehind, NodeInSync, EndOfRows, NodeAccepts, NodeKnowsRef,
    SendFails, Replied, OnAccepted, OnAlreadyProcessed, OnError, Recorded, GateDenies,
    GateTrips, GateEscalates, AwaitCosigner
<1> QED
  BY <1>1, <1>2, <1>3 DEF Next

\* Every step keeps the mints in flight within the cap.
LEMMA InFlightStep ==
  ASSUME RowInv, RowInv', InFlightInv, [Next]_vars
  PROVE  InFlightInv'
<1>1. /\ InFlight \in SUBSET Intents /\ InFlight' \in SUBSET Intents
      /\ pc \in {"send", "record"} => cur \in Intents
      /\ pc' \in {"send", "record"} => cur' \in Intents
      /\ DailyCap \in Nat
  BY ConfigAssumption DEF InFlight, RowInv, TypeOK
<1>2. TotalOf(InFlight') <= DailyCap
  <2>1. CASE pc = "record"
    <3>1. InFlight' \subseteq InFlight \cup {cur} /\ InFlight \cup {cur} \in SUBSET Intents
      BY <1>1, <2>1, OnlyRecordedFlies
    <3>2. /\ TotalOf(InFlight') <= TotalOf(InFlight \cup {cur})
          /\ TotalOf(InFlight') \in Nat /\ TotalOf(InFlight \cup {cur}) \in Nat
      BY <1>1, <3>1, Totals
    <3> QED
      BY <1>1, <2>1, <3>2 DEF InFlightInv
  <2>2. CASE pc # "record"
    <3>1. InFlight' \subseteq InFlight
      BY <2>2, OnlyRecordedFlies
    <3>2. /\ TotalOf(InFlight') <= TotalOf(InFlight)
          /\ TotalOf(InFlight') \in Nat /\ TotalOf(InFlight) \in Nat
      BY <1>1, <3>1, Totals
    <3> QED
      BY <1>1, <3>2 DEF InFlightInv
  <2> QED
    BY <2>1, <2>2
<1>3. ASSUME NEW i \in Intents, PassGate(i) PROVE TotalOf(InFlight' \cup {i}) <= DailyCap
  <2>1. InFlight' = InFlight
    BY <1>3 DEF PassGate, InFlight, rowVars, configVars
  <2>2. TotalOf(Counted \ {i}) + Amount[i] <= DailyCap
    BY <1>3 DEF PassGate, MayMint, WithinDailyCap
  <2>3. InFlight \ {i} \subseteq Counted \ {i} /\ Counted \ {i} \in SUBSET Intents
    BY DEF InFlight, Counted, RowInv, TypeOK
  <2>4. InFlight \ {i} \in SUBSET Intents
    BY <1>1
  <2>5. /\ TotalOf(InFlight \ {i}) <= TotalOf(Counted \ {i})
        /\ TotalOf(InFlight \ {i}) \in Nat /\ TotalOf(Counted \ {i}) \in Nat
    BY <2>3, <2>4, Totals
  <2>6. TotalOf(InFlight \cup {i}) = TotalOf(InFlight \ {i}) + Amount[i]
    BY <1>1, Totals
  <2>7. TotalOf(InFlight \cup {i}) <= DailyCap
    BY <1>1, <2>2, <2>5, <2>6, ConfigAssumption
  <2> QED
    BY <2>1, <2>7
<1>4. ASSUME pc' \in {"send", "record"} PROVE TotalOf(InFlight' \cup {cur'}) <= DailyCap
  <2>1. CASE \E i \in Intents : PassGate(i)
    <3>1. PICK i \in Intents : PassGate(i)
      BY <2>1
    <3>2. cur' = i
      BY <3>1 DEF PassGate
    <3> QED
      BY <1>3, <3>1, <3>2
  <2>2. CASE pc \in {"send", "record"} /\ cur' = cur /\ InFlight' \subseteq InFlight \cup {cur}
    <3>1. InFlight' \cup {cur'} \subseteq InFlight \cup {cur}
      BY <2>2
    <3>2. InFlight \cup {cur} \in SUBSET Intents /\ InFlight' \cup {cur'} \in SUBSET Intents
      BY <1>1, <1>4, <2>2
    <3>3. /\ TotalOf(InFlight' \cup {cur'}) <= TotalOf(InFlight \cup {cur})
          /\ TotalOf(InFlight' \cup {cur'}) \in Nat /\ TotalOf(InFlight \cup {cur}) \in Nat
      BY <3>1, <3>2, Totals
    <3> QED
      BY <1>1, <2>2, <3>3 DEF InFlightInv
  <2> QED
    BY <1>4, <2>1, <2>2, SendsWhatPassed
<1> QED
  BY <1>2, <1>4 DEF InFlightInv, TotalOf

\* Nothing is in flight before the first approval.
LEMMA InFlightInit == Init => InFlightInv
<1> SUFFICES ASSUME Init PROVE InFlightInv
  OBVIOUS
<1>1. InFlight = {}
  BY DEF Init, InFlight
<1>2. TotalOf({}) = 0
  BY SumEmpty DEF TotalOf
<1> QED
  BY <1>1, <1>2, ConfigAssumption DEF Init, InFlightInv

\* For every cap and every set of amounts, the mints in flight of intents created within
\* the last 24 hours together never exceed daily_mint_cap_clt: no approval written after its check, no requeue, no crash and
\* no change of state behind the gate's answer breaks it (breakers.rs, outbox.rs).
THEOREM MintsInFlightCapped == Spec => []InFlightWithinCap
<1>1. Spec => [](RowInv /\ InFlightInv)
  BY RowInit, InFlightInit, RowStep, InFlightStep, PTL DEF Spec
<1>2. InFlightInv => InFlightWithinCap
  BY DEF InFlightInv, InFlight, InFlightWithinCap
<1> QED
  BY <1>1, <1>2, PTL

-----------------------------------------------------------------------------
(* The chain and the ledger.                                               *)

\* The chain is never shorter than what is settled of it.
DepthIsKept == Len(chain) <= peak /\ peak - Confirmations <= Len(chain)

\* The watcher's range is settled, and the cursor stays behind it.
ScanIsSettled ==
  /\ cursor = 0 \/ cursor <= peak - Confirmations
  /\ wpc # "idle" => cursor < scanTo /\ scanTo <= peak - Confirmations

\* An intent is credited with its event; a block is passed with the event of its mint;
\* and no intent has two.
CreditIsRecorded ==
  /\ \A i \in Intents : events[i] \in {0, 1}
  /\ \A i \in Intents : status[i] = "credited" => events[i] = 1
  /\ wpc = "advance" /\ cursor + 1 <= Len(chain) =>
       chain[cursor + 1] = EmptyBlock \/ events[chain[cursor + 1].intent] = 1

\* No intent is minted in two blocks, settled or not.
MintedOnce ==
  \A h, k \in 1..Len(chain) :
    chain[h].intent \in Intents /\ chain[h].intent = chain[k].intent => h = k

\* What holds of the ledger and the chain as long as the chain is the first one.
LedgerInv ==
  /\ RowInv /\ resets = 0
  /\ DepthIsKept /\ ScanIsSettled /\ MintedOnce /\ CreditIsRecorded /\ EventsFollowChain

LedgerInvUntilReset == RowInv /\ (resets = 0 => LedgerInv)

LEMMA LedgerTypes ==
  LedgerInv => /\ chain \in Seq(MintTxs \cup {EmptyBlock}) /\ Len(chain) \in Nat
               /\ cursor \in Nat /\ scanTo \in Nat /\ peak \in Nat /\ Confirmations \in Nat
               /\ events \in [Intents -> Nat] /\ pool \subseteq MintTxs
BY ConfigAssumption DEF LedgerInv, RowInv, TypeOK

\* The node's marker keeps the chain from minting an intent twice.
LEMMA AppendMintsOnce ==
  ASSUME LedgerInv, NEW tx \in MintTxs \cup {EmptyBlock}, AppendBlock(tx),
         tx = EmptyBlock \/ ~RefProcessed(tx.ref)
  PROVE  MintedOnce'
<1>1. /\ chain' = Append(chain, tx) /\ chain \in Seq(MintTxs \cup {EmptyBlock}) /\ Len(chain) \in Nat
  BY LedgerTypes DEF AppendBlock
<1>2. /\ Len(chain') = Len(chain) + 1 /\ chain'[Len(chain) + 1] = tx
      /\ \A h \in 1..Len(chain) : chain'[h] = chain[h] /\ chain[h] \in MintTxs \cup {EmptyBlock}
  BY <1>1
<1>3. ASSUME NEW h \in 1..Len(chain), tx.intent \in Intents PROVE chain[h].intent # tx.intent
  <2>1. tx \in MintTxs /\ tx.ref = CreditRef(tx.intent) /\ tx # EmptyBlock
    BY <1>3, MintTxFacts
  <2>2. chain[h].ref # tx.ref
    BY <2>1 DEF RefProcessed
  <2> QED
    BY <1>2, <1>3, <2>1, <2>2, MintTxFacts
<1>4. \A h \in 1..Len(chain') : h \in 1..Len(chain) \/ h = Len(chain) + 1
  BY <1>1, <1>2
<1> QED
  BY <1>2, <1>3, <1>4 DEF MintedOnce, LedgerInv

\* A step may settle one block more that mints an intent, if it is the first.
SettlesOne ==
  \E i \in Intents, h \in 1..MaxHeight :
    /\ outbox[i] # "none" /\ MintedIn(i) = {} /\ MintedIn(i)' = {h}
    /\ \A j \in Intents \ {i} : MintedIn(j)' = MintedIn(j)

SettlesNone == \A i \in Intents : MintedIn(i)' = MintedIn(i)

\* A block on top settles at most one block more.
LEMMA AppendSettles ==
  ASSUME LedgerInv, NEW tx \in MintTxs \cup {EmptyBlock}, AppendBlock(tx),
         UnopenedIsUntouched', MintedOnce'
  PROVE  /\ DepthIsKept' /\ peak <= peak'
         /\ \A h \in 1..Len(chain) : chain'[h] = chain[h] /\ h <= Len(chain')
         /\ \A i \in Intents : MintedIn(i) \subseteq MintedIn(i)'
         /\ SettlesNone \/ SettlesOne
<1> DEFINE top == peak + 1 - Confirmations
<1>t. /\ chain \in Seq(MintTxs \cup {EmptyBlock}) /\ peak \in Nat /\ Confirmations \in Nat
      /\ MaxHeight \in Nat
  BY ConfigAssumption DEF LedgerInv, RowInv, TypeOK
<1>1. chain' = Append(chain, tx) /\ peak' = (IF Len(chain) + 1 > peak THEN Len(chain) + 1 ELSE peak)
      /\ outbox' = outbox /\ Len(chain) < MaxHeight
  <2>1. Len(chain) + resets < MaxHeight /\ resets = 0 /\ Len(chain) \in Nat
    BY <1>t DEF AppendBlock, LedgerInv
  <2> QED
    BY <2>1 DEF AppendBlock, rowVars
<1>2. /\ chain' \in Seq(MintTxs \cup {EmptyBlock}) /\ Len(chain') = Len(chain) + 1
      /\ \A h \in 1..Len(chain) : chain'[h] = chain[h]
  BY <1>1, <1>t
<1>3. Len(chain) \in Nat /\ Len(chain) <= peak /\ peak - Confirmations <= Len(chain)
  BY <1>t DEF LedgerInv, DepthIsKept
<1>4. DepthIsKept' /\ peak <= peak'
  BY <1>1, <1>2, <1>3, <1>t DEF DepthIsKept
<1>5. CASE peak' = peak
  <2>1. \A h \in Nat : h <= peak - Confirmations => h <= Len(chain)
    BY <1>3, <1>t
  <2>2. SettlesNone
    BY <1>5, <1>2, <1>3, <1>t, <2>1 DEF SettlesNone, MintedIn
  <2> QED
    BY <1>2, <1>3, <1>4, <2>2 DEF SettlesNone
<1>6. CASE peak' # peak
  <2>1. peak' = peak + 1 /\ Len(chain) = peak /\ top <= Len(chain')
    BY <1>6, <1>1, <1>2, <1>3, <1>t
  <2>2. \A h \in 1..Len(chain') :
          h <= peak' - Confirmations <=> h = top \/ (h <= Len(chain) /\ h <= peak - Confirmations)
    BY <2>1, <1>2, <1>3, <1>t
  <2>3. ASSUME NEW i \in Intents
        PROVE  \A h : h \in MintedIn(i)' <=>
                 h \in MintedIn(i) \/ (h = top /\ h \in 1..Len(chain') /\ chain'[h].intent = i)
    <3>2. ASSUME NEW h, h \in MintedIn(i)' PROVE h \in MintedIn(i) \/ (h = top /\ h \in 1..Len(chain') /\ chain'[h].intent = i)
      <4>1. h \in 1..Len(chain') /\ h <= peak' - Confirmations /\ chain'[h].intent = i
        BY <3>2 DEF MintedIn
      <4> QED
        BY <4>1, <2>2, <1>2, <1>3, <1>t DEF MintedIn
    <3>3. ASSUME NEW h, h \in MintedIn(i) PROVE h \in MintedIn(i)'
      <4>1. h \in 1..Len(chain) /\ h <= peak - Confirmations /\ chain[h].intent = i
        BY <3>3 DEF MintedIn
      <4>2. h \in 1..Len(chain') /\ chain'[h].intent = i
        BY <4>1, <1>2, <1>3
      <4> QED
        BY <4>1, <4>2, <2>2, <1>3 DEF MintedIn
    <3>4. top \in 1..Len(chain') /\ chain'[top].intent = i => top \in MintedIn(i)'
      BY <2>2 DEF MintedIn
    <3> QED
      BY <3>2, <3>3, <3>4
  <2>4. \A i \in Intents : MintedIn(i) \subseteq MintedIn(i)'
    BY <2>3
  <2>5. CASE top \in 1..Len(chain') /\ chain'[top].intent \in Intents
    <3>0. PICK i \in Intents : i = chain'[top].intent
      BY <2>5
    <3>1. ASSUME NEW j \in Intents \ {i} PROVE MintedIn(j)' = MintedIn(j)
      <4>1. \A h : h \in MintedIn(j)' <=> h \in MintedIn(j)
        BY <2>3, <3>0
      <4> QED
        BY <4>1 DEF MintedIn
    <3>2. top \notin MintedIn(i)
      <4>1. ~(top <= peak - Confirmations)
        BY <1>t
      <4> QED
        BY <4>1 DEF MintedIn
    <3>3. ASSUME NEW h \in MintedIn(i) PROVE FALSE
      <4>1. h \in 1..Len(chain) /\ chain[h].intent = i
        BY <3>3 DEF MintedIn
      <4>2. h \in 1..Len(chain') /\ chain'[h].intent = i
        BY <4>1, <1>2, <1>3
      <4>3. h = top
        BY <4>2, <3>0, <2>5 DEF MintedOnce
      <4> QED
        BY <4>3, <3>2, <3>3
    <3>4. MintedIn(i) = {} /\ MintedIn(i)' = {top}
      <4>1. MintedIn(i) = {}
        BY <3>3
      <4>2. \A h : h \in MintedIn(i)' <=> h = top
        BY <2>3, <2>5, <3>0, <3>3
      <4>3. MintedIn(i)' \subseteq {top} /\ top \in MintedIn(i)'
        BY <4>2
      <4> QED
        BY <4>1, <4>3
    <3>5. outbox[i] # "none"
      BY <2>5, <3>0, <1>1 DEF UnopenedIsUntouched, OnChain
    <3>6. top \in 1..MaxHeight
      BY <2>5, <1>1, <1>2, <1>3, <1>t
    <3>7. SettlesOne
      BY <3>1, <3>4, <3>5, <3>6 DEF SettlesOne
    <3> QED
      BY <3>7, <2>4, <1>2, <1>3, <1>4
  <2>6. CASE ~(top \in 1..Len(chain') /\ chain'[top].intent \in Intents)
    <3>1. ASSUME NEW i \in Intents PROVE MintedIn(i)' = MintedIn(i)
      <4>1. \A h : h \in MintedIn(i)' <=> h \in MintedIn(i)
        BY <2>3, <2>6
      <4> QED
        BY <4>1 DEF MintedIn
    <3>2. SettlesNone
      BY <3>1 DEF SettlesNone
    <3> QED
      BY <3>2, <2>4, <1>2, <1>3, <1>4
  <2> QED
    BY <2>5, <2>6
<1> QED
  BY <1>5, <1>6

\* A block that gives way was not settled.
LEMMA ReorgKeepsSettled ==
  ASSUME LedgerInv, Reorg
  PROVE  /\ DepthIsKept' /\ MintedOnce' /\ SettlesNone
         /\ \A h \in 1..Len(chain') : chain'[h] = chain[h] /\ h <= Len(chain)
<1>t. chain \in Seq(MintTxs \cup {EmptyBlock}) /\ peak \in Nat /\ Confirmations \in Nat
  BY ConfigAssumption DEF LedgerInv, RowInv, TypeOK
<1>1. /\ Len(chain) > 0 /\ Len(chain) > peak - Confirmations
      /\ chain' = SubSeq(chain, 1, Len(chain) - 1) /\ peak' = peak
  BY DEF Reorg
<1>2. Len(chain') = Len(chain) - 1 /\ \A h \in 1..Len(chain') : chain'[h] = chain[h]
  <2>1. Len(chain) - 1 \in Nat
    BY <1>1, <1>t
  <2>2. \A h \in 1..(Len(chain) - 1) : chain[h] \in MintTxs \cup {EmptyBlock}
    BY <1>t, <2>1
  <2>3. /\ Len(SubSeq(chain, 1, Len(chain) - 1)) = (IF 1 <= Len(chain) - 1 THEN (Len(chain) - 1) - 1 + 1 ELSE 0)
        /\ \A h \in 1..((Len(chain) - 1) - 1 + 1) :
             SubSeq(chain, 1, Len(chain) - 1)[h] = chain[1 + h - 1]
    BY <2>1, <2>2, SubSeqProperties
  <2>4. Len(SubSeq(chain, 1, Len(chain) - 1)) = Len(chain) - 1
    <3> DEFINE n == Len(chain) - 1
    <3>1. n \in Nat /\ Len(SubSeq(chain, 1, n)) = IF 1 <= n THEN n - 1 + 1 ELSE 0
      BY <2>1, <2>3
    <3> HIDE DEF n
    <3>2. Len(SubSeq(chain, 1, n)) = n
      BY <3>1
    <3> QED
      BY <3>2 DEF n
  <2>5. \A h \in 1..(Len(chain) - 1) : SubSeq(chain, 1, Len(chain) - 1)[h] = chain[h]
    BY <2>1, <2>3
  <2>6. chain' = SubSeq(chain, 1, Len(chain) - 1)
    BY <1>1
  <2> QED
    BY <2>4, <2>5, <2>6, Zenon
<1>3. Len(chain) \in Nat /\ Len(chain) <= peak
  BY <1>t DEF LedgerInv, DepthIsKept
<1>4. DepthIsKept'
  BY <1>1, <1>2, <1>3, <1>t DEF DepthIsKept
<1>5. SettlesNone
  BY <1>1, <1>2, <1>3, <1>t DEF SettlesNone, MintedIn
<1>6. MintedOnce'
  BY <1>2, <1>3 DEF LedgerInv, MintedOnce
<1> QED
  BY <1>2, <1>3, <1>4, <1>5, <1>6

\* What the steps of everybody but the chain and the watcher leave alone, and that none
\* of them credits an intent.
Unledgered ==
  /\ UNCHANGED <<events, cursor, wpc, scanTo, chain, peak, resets>>
  /\ \A i \in Intents : status'[i] = "credited" => status[i] = "credited"
  /\ \A i \in Intents : outbox[i] # "none" => outbox'[i] # "none"
  /\ \A i, j \in Intents :
       outbox[i] = "none" /\ outbox'[i] # "none" /\ outbox[j] = "none" /\ outbox'[j] # "none" => i = j

\* A step of the watcher or of the chain.
LedgerStep ==
  \/ Watch \/ WatcherAborts \/ Reorg \/ ChainReset \/ MineEmpty
  \/ \E tx \in pool : Mine(tx)

\* Every step is one of the watcher or the chain, or leaves the ledger alone.
LEMMA OthersAreUnledgered == ASSUME RowInv, [Next]_vars PROVE Unledgered \/ LedgerStep
<1> USE IntentsAssumption DEF RowInv, TypeOK, Statuses, OutboxStatuses, NoMint, CurIsAlone,
        UnopenedIsUntouched, StuckWasSent, Unledgered, rowVars, configVars, workerVars,
        watcherVars, chainVars, countVars
<1>1. ASSUME NEW i \in Intents, VerifierApproves(i) PROVE Unledgered \/ LedgerStep
  BY <1>1 DEF VerifierApproves, SetStatus, OpenOutbox, SetOutbox
<1>2. ASSUME NEW i \in Intents, VerifierHolds(i) PROVE Unledgered \/ LedgerStep
  BY <1>2 DEF VerifierHolds, SetStatus
<1>3. ASSUME NEW i \in Intents, VerifierRejects(i) PROVE Unledgered \/ LedgerStep
  BY <1>3 DEF VerifierRejects, SetStatus
<1>4. ASSUME NEW i \in Intents, HumanChecks(i) PROVE Unledgered \/ LedgerStep
  BY <1>4 DEF HumanChecks
<1>5. ASSUME NEW i \in Intents, HumanApproves(i) PROVE Unledgered \/ LedgerStep
  BY <1>5 DEF HumanApproves, SetStatus, OpenOutbox, SetOutbox
<1>6. ASSUME SelectStuck PROVE Unledgered \/ LedgerStep
  BY <1>6 DEF SelectStuck
<1>7. ASSUME NEW i \in Intents, Requeue(i) PROVE Unledgered \/ LedgerStep
  BY <1>7 DEF Requeue, SetOutbox
<1>8. ASSUME NEW i \in Intents, CloseExhausted(i) PROVE Unledgered \/ LedgerStep
  BY <1>8 DEF CloseExhausted, SetOutbox
<1>9. ASSUME GiveUp PROVE Unledgered \/ LedgerStep
  BY <1>9 DEF GiveUp, SetStatus
<1>10. ASSUME EndOfStuck PROVE Unledgered \/ LedgerStep
  BY <1>10 DEF EndOfStuck
<1>11. ASSUME StuckAborts PROVE Unledgered \/ LedgerStep
  BY <1>11 DEF StuckAborts
<1>12. ASSUME SelectDue PROVE Unledgered \/ LedgerStep
  BY <1>12 DEF SelectDue
<1>13. ASSUME NodeBehind PROVE Unledgered \/ LedgerStep
  BY <1>13 DEF NodeBehind
<1>14. ASSUME NodeInSync PROVE Unledgered \/ LedgerStep
  BY <1>14 DEF NodeInSync
<1>15. ASSUME NEW i \in Intents, GateDenies(i) PROVE Unledgered \/ LedgerStep
  BY <1>15 DEF GateDenies, Denial, Park, FailOrBackoff, SetOutbox, SetStatus, NextRow
<1>16. ASSUME NEW i \in Intents, GateTrips(i) PROVE Unledgered \/ LedgerStep
  BY <1>16 DEF GateTrips, Denial, Park, FailOrBackoff, SetOutbox, SetStatus, NextRow
<1>17. ASSUME NEW i \in Intents, GateEscalates(i) PROVE Unledgered \/ LedgerStep
  BY <1>17 DEF GateEscalates, SetOutbox, SetStatus, NextRow
<1>18. ASSUME NEW i \in Intents, AwaitCosigner(i) PROVE Unledgered \/ LedgerStep
  BY <1>18 DEF AwaitCosigner, Park, NextRow
<1>19. ASSUME NEW i \in Intents, PassGate(i) PROVE Unledgered \/ LedgerStep
  BY <1>19 DEF PassGate, NextRow
<1>20. ASSUME EndOfRows PROVE Unledgered \/ LedgerStep
  BY <1>20 DEF EndOfRows
<1>21. ASSUME NodeAccepts PROVE Unledgered \/ LedgerStep
  BY <1>21 DEF NodeAccepts, Replied
<1>22. ASSUME NodeKnowsRef PROVE Unledgered \/ LedgerStep
  BY <1>22 DEF NodeKnowsRef, Replied
<1>23. ASSUME SendFails PROVE Unledgered \/ LedgerStep
  BY <1>23 DEF SendFails, Replied
<1>24. ASSUME OnAccepted PROVE Unledgered \/ LedgerStep
  BY <1>24 DEF OnAccepted, MarkSubmitted, SetStatus, SetOutbox, Recorded
<1>25. ASSUME OnAlreadyProcessed PROVE Unledgered \/ LedgerStep
  BY <1>25 DEF OnAlreadyProcessed, MarkSubmitted, SetStatus, SetOutbox, Recorded
<1>26. ASSUME OnError PROVE Unledgered \/ LedgerStep
  BY <1>26 DEF OnError, FailOrBackoff, SetStatus, SetOutbox, Recorded
<1>27. ASSUME DrainAborts PROVE Unledgered \/ LedgerStep
  BY <1>27 DEF DrainAborts
<1>28. ASSUME NEW i \in Intents, FallsDue(i) PROVE Unledgered \/ LedgerStep
  BY <1>28 DEF FallsDue
<1>29. ASSUME NEW i \in Intents, GoesStale(i) PROVE Unledgered \/ LedgerStep
  BY <1>29 DEF GoesStale
<1>30. ASSUME NEW tx \in pool, Drop(tx) PROVE Unledgered \/ LedgerStep
  BY <1>30 DEF Drop
<1>31. ASSUME RaiseCap PROVE Unledgered \/ LedgerStep
  BY <1>31 DEF RaiseCap
<1>32. ASSUME SetHalted PROVE Unledgered \/ LedgerStep
  BY <1>32 DEF SetHalted
<1>33. ASSUME NEW i \in Intents, Cosign(i) PROVE Unledgered \/ LedgerStep
  BY <1>33 DEF Cosign
<1>34. ASSUME \/ Rewind \/ Poll \/ ProcessBlock \/ Advance \/ BlockMissing
              \/ WatcherAborts \/ MineEmpty \/ Reorg \/ ChainReset
     PROVE  Unledgered \/ LedgerStep
  BY <1>34 DEF LedgerStep, Watch
<1>35. ASSUME NEW tx \in pool, Mine(tx) PROVE Unledgered \/ LedgerStep
  BY <1>35 DEF LedgerStep
<1>36. ASSUME NEW i \in Intents, Ages(i) PROVE Unledgered \/ LedgerStep
  BY <1>36 DEF Ages
<1>37. CASE UNCHANGED vars
  BY <1>37 DEF vars
<1> HIDE DEF TypeOK, Statuses, OutboxStatuses, NoMint, CurIsAlone, UnopenedIsUntouched,
             StuckWasSent, Unledgered, rowVars, configVars, workerVars, watcherVars,
             chainVars, countVars
<1> QED
  BY <1>1, <1>2, <1>3, <1>4, <1>5, <1>6, <1>7, <1>8, <1>9, <1>10, <1>11, <1>12, <1>13, <1>14,
     <1>15, <1>16, <1>17, <1>18, <1>19, <1>20, <1>21, <1>22, <1>23, <1>24, <1>25, <1>26,
     <1>27, <1>28, <1>29, <1>30, <1>31, <1>32, <1>33, <1>34, <1>35, <1>36, <1>37
     DEF Next, Approval, Stuck, Drain, Watch, Elapses, Blockchain, Operator

\* The watcher's steps: a block is scanned when it is settled, and passed once recorded.
LEMMA WatcherKeepsLedger ==
  ASSUME LedgerInv, Watch \/ WatcherAborts
  PROVE  DepthIsKept' /\ ScanIsSettled' /\ MintedOnce' /\ CreditIsRecorded' /\ EventsFollowChain'
<1> USE LedgerTypes DEF LedgerInv, DepthIsKept, ScanIsSettled, MintedOnce, CreditIsRecorded,
                        EventsFollowChain, MintedIn, rowVars, chainVars
<1>1. CASE Rewind
  BY <1>1 DEF Rewind
<1>2. CASE Poll
  BY <1>2 DEF Poll
<1>3. CASE ProcessBlock
  <2>1. PICK m \in Intents \cup {NoMint} :
          /\ cursor + 1 \in 1..Len(chain) /\ m = chain[cursor + 1].intent
          /\ m = NoMint => chain[cursor + 1] = EmptyBlock
          /\ \/ m \in Intents /\ status[m] # "credited" /\ CreditMint(m)
             \/ /\ m = NoMint \/ status[m] = "credited"
                /\ UNCHANGED <<status, stale, outbox, events>>
    BY <1>3, BlockCases DEF RowInv
  <2>2. cursor + 1 <= peak - Confirmations
    BY <1>3, <2>1 DEF ProcessBlock
  <2>3. UNCHANGED <<chain, peak, cursor, scanTo>> /\ wpc' = "advance" /\ wpc = "block"
    BY <1>3 DEF ProcessBlock
  <2>4. DepthIsKept' /\ ScanIsSettled' /\ MintedOnce'
    BY <2>3
  <2>5. CASE m \in Intents /\ status[m] # "credited" /\ CreditMint(m)
    <3>1. cursor + 1 \in MintedIn(m)
      BY <2>1, <2>2
    <3>2. /\ events' = [events EXCEPT ![m] = 1]
          /\ \A i \in Intents : status'[i] = "credited" => status[i] = "credited" \/ i = m
      BY <2>5 DEF CreditMint, SetStatus, RowInv, TypeOK
    <3>3. \A i \in Intents : events'[i] = IF i = m THEN 1 ELSE events[i]
      BY <3>2
    <3> HIDE DEF MintedIn
    <3>4. \A i \in Intents : events'[i] # 0 => MintedIn(i) # {}
      BY <3>1, <3>3
    <3>5. \A i \in Intents : MintedIn(i)' = MintedIn(i)
      BY <2>3 DEF MintedIn
    <3>6. \A h \in 1..cursor :
            h <= Len(chain) /\ chain[h] # EmptyBlock => events'[chain[h].intent] = 1
      <4>1. TAKE h \in 1..cursor
      <4>2. HAVE h <= Len(chain) /\ chain[h] # EmptyBlock
      <4>3. chain[h].intent \in Intents
        BY <4>2, MintTxFacts
      <4> QED
        BY <4>2, <4>3, <3>3
    <3>7. CreditIsRecorded'
      BY <2>1, <2>3, <2>5, <3>2, <3>3
    <3> QED
      BY <2>3, <2>4, <3>4, <3>5, <3>6, <3>7
  <2>6. CASE /\ m = NoMint \/ status[m] = "credited"
             /\ UNCHANGED <<status, stale, outbox, events>>
    <3>1. chain[cursor + 1] = EmptyBlock \/ events[chain[cursor + 1].intent] = 1
      BY <2>1, <2>6
    <3>2. CreditIsRecorded'
      BY <2>1, <2>3, <2>6, <3>1
    <3>3. EventsFollowChain'
      BY <2>3, <2>6
    <3> QED
      BY <2>4, <3>2, <3>3
  <2> QED
    BY <2>1, <2>5, <2>6
<1>4. CASE Advance
  <2>1. cursor' = cursor + 1 /\ wpc = "advance" /\ UNCHANGED <<chain, peak, events, status, scanTo>>
        /\ wpc' = IF cursor + 1 = scanTo THEN "idle" ELSE "block"
    BY <1>4 DEF Advance
  <2>2. DepthIsKept' /\ ScanIsSettled' /\ MintedOnce' /\ CreditIsRecorded'
    BY <2>1
  <2>3. \A h \in 1..(cursor + 1) : h \in 1..cursor \/ h = cursor + 1
    OBVIOUS
  <2>4. EventsFollowChain'
    BY <2>1, <2>3
  <2> QED
    BY <2>2, <2>4
<1>5. CASE BlockMissing
  BY <1>5 DEF BlockMissing
<1>6. CASE WatcherAborts
  BY <1>6 DEF WatcherAborts
<1> QED
  BY <1>1, <1>2, <1>3, <1>4, <1>5, <1>6 DEF Watch

\* The chain's steps: what is settled stays, and nothing is added behind the cursor.
LEMMA ChainKeepsLedger ==
  ASSUME LedgerInv, DepthIsKept', peak <= peak', peak' \in Nat,
         \A i \in Intents : MintedIn(i) \subseteq MintedIn(i)',
         UNCHANGED <<status, events, cursor, wpc, scanTo>>,
         \A h \in Nat \ {0} : h <= Len(chain') /\ h <= peak - Confirmations =>
                                h <= Len(chain) /\ chain'[h] = chain[h]
  PROVE  ScanIsSettled' /\ CreditIsRecorded' /\ EventsFollowChain'
<1> USE LedgerTypes DEF LedgerInv
<1>1. ScanIsSettled'
  BY DEF ScanIsSettled
<1>2. CreditIsRecorded'
  <2>1. wpc = "advance" => cursor + 1 \in Nat \ {0} /\ cursor + 1 <= peak - Confirmations
    BY DEF ScanIsSettled
  <2> QED
    BY <2>1 DEF CreditIsRecorded
<1>3. EventsFollowChain'
  <2>1. \A h \in 1..cursor : h \in Nat \ {0} /\ h <= peak - Confirmations
    BY DEF ScanIsSettled
  <2>2. \A i \in Intents : events'[i] # 0 => MintedIn(i)' # {}
    BY DEF EventsFollowChain
  <2>3. \A h \in 1..cursor' :
          h <= Len(chain') /\ chain'[h] # EmptyBlock => events'[chain'[h].intent] = 1
    BY <2>1 DEF EventsFollowChain
  <2> QED
    BY <2>2, <2>3 DEF EventsFollowChain
<1> QED
  BY <1>1, <1>2, <1>3

\* No step takes a reset back.
LEMMA ResetsGrow == ASSUME RowInv, [Next]_vars, resets' = 0 PROVE resets = 0 /\ ~ChainReset
<1>1. resets \in Nat
  BY DEF RowInv, TypeOK
<1>2. ~ChainReset
  BY <1>1 DEF ChainReset
<1>3. CASE Unledgered
  BY <1>2, <1>3 DEF Unledgered
<1>4. CASE Watch \/ WatcherAborts
  BY <1>2, <1>4 DEF Watch, Rewind, Poll, ProcessBlock, Advance, BlockMissing, WatcherAborts,
    chainVars
<1>5. CASE Reorg \/ MineEmpty \/ \E tx \in pool : Mine(tx)
  BY <1>2, <1>5 DEF Reorg, MineEmpty, Mine, AppendBlock
<1> QED
  BY <1>2, <1>3, <1>4, <1>5, OthersAreUnledgered DEF LedgerStep

\* Until a reset: a step that is not one of the others' is the watcher's, a reorganisation,
\* or a block on top that the marker lets through.
LEMMA LedgerCases ==
  ASSUME LedgerInv, [Next]_vars, resets' = 0
  PROVE  \/ Unledgered \/ Watch \/ WatcherAborts \/ Reorg
         \/ \E tx \in MintTxs \cup {EmptyBlock} :
              AppendBlock(tx) /\ (tx = EmptyBlock \/ ~RefProcessed(tx.ref))
<1>1. ~ChainReset
  BY ResetsGrow DEF LedgerInv
<1>2. Unledgered \/ LedgerStep
  BY OthersAreUnledgered DEF LedgerInv
<1> QED
  BY <1>1, <1>2, LedgerTypes DEF LedgerStep, MineEmpty, Mine

LEMMA LedgerInvStep == ASSUME LedgerInv, [Next]_vars, resets' = 0 PROVE LedgerInv'
<1> SUFFICES DepthIsKept' /\ ScanIsSettled' /\ MintedOnce' /\ CreditIsRecorded' /\ EventsFollowChain'
  BY RowStep DEF LedgerInv
<1>1. CASE Unledgered
  <2>1. UNCHANGED <<events, cursor, wpc, scanTo, chain, peak>>
    BY <1>1 DEF Unledgered
  <2>2. \A i \in Intents : status'[i] = "credited" => status[i] = "credited"
    BY <1>1 DEF Unledgered
  <2> QED
    BY <2>1, <2>2 DEF LedgerInv, DepthIsKept, ScanIsSettled, MintedOnce, CreditIsRecorded,
                      EventsFollowChain, MintedIn
<1>2. CASE Watch \/ WatcherAborts
  BY <1>2, WatcherKeepsLedger
<1>3. ASSUME NEW tx \in MintTxs \cup {EmptyBlock}, AppendBlock(tx),
             tx = EmptyBlock \/ ~RefProcessed(tx.ref)
      PROVE  DepthIsKept' /\ ScanIsSettled' /\ MintedOnce' /\ CreditIsRecorded' /\ EventsFollowChain'
  <2>1. MintedOnce'
    BY <1>3, AppendMintsOnce
  <2>2. /\ DepthIsKept' /\ peak <= peak'
        /\ \A h \in 1..Len(chain) : chain'[h] = chain[h] /\ h <= Len(chain')
        /\ \A i \in Intents : MintedIn(i) \subseteq MintedIn(i)'
    BY <1>3, <2>1, AppendSettles, UnopenedStep DEF LedgerInv
  <2>3. \A h \in Nat \ {0} : h <= peak - Confirmations => h \in 1..Len(chain)
    BY LedgerTypes DEF LedgerInv, DepthIsKept
  <2>4. UNCHANGED <<status, events, cursor, wpc, scanTo>> /\ peak' \in Nat
    BY <1>3, RowStep DEF AppendBlock, rowVars, watcherVars, LedgerInv, RowInv, TypeOK
  <2> QED
    BY <2>1, <2>2, <2>3, <2>4, ChainKeepsLedger
<1>4. CASE Reorg
  <2>1. /\ DepthIsKept' /\ MintedOnce' /\ SettlesNone
        /\ \A h \in 1..Len(chain') : chain'[h] = chain[h] /\ h <= Len(chain)
    BY <1>4, ReorgKeepsSettled
  <2>2. UNCHANGED <<status, events, cursor, wpc, scanTo, peak>>
    BY <1>4 DEF Reorg, rowVars, watcherVars
  <2>3. Len(chain') \in Nat
    BY RowStep DEF LedgerInv, RowInv, TypeOK
  <2>4. \A h \in Nat \ {0} : h <= Len(chain') => h \in 1..Len(chain')
    BY <2>3
  <2>5. \A i \in Intents : MintedIn(i) \subseteq MintedIn(i)'
    BY <2>1 DEF SettlesNone
  <2> QED
    BY <2>1, <2>2, <2>4, <2>5, ChainKeepsLedger, LedgerTypes
<1> QED
  BY <1>1, <1>2, <1>3, <1>4, LedgerCases

LEMMA LedgerUntilResetStep ==
  ASSUME LedgerInvUntilReset, [Next]_vars PROVE LedgerInvUntilReset'
<1>1. RowInv'
  BY RowStep DEF LedgerInvUntilReset
<1>2. CASE resets' = 0
  <2>1. LedgerInv
    BY <1>2, ResetsGrow DEF LedgerInvUntilReset
  <2> QED
    BY <1>1, <1>2, <2>1, LedgerInvStep DEF LedgerInvUntilReset
<1> QED
  BY <1>1, <1>2 DEF LedgerInvUntilReset

LEMMA LedgerInit == Init => LedgerInvUntilReset
<1> SUFFICES ASSUME Init PROVE LedgerInv
  BY DEF LedgerInvUntilReset, LedgerInv
<1>1. resets = 0 /\ chain = <<>> /\ Len(chain) = 0 /\ peak = 0 /\ cursor = 0 /\ wpc = "idle"
      /\ events = [i \in Intents |-> 0] /\ status = [i \in Intents |-> "created"]
  BY DEF Init
<1>2. DepthIsKept /\ ScanIsSettled /\ MintedOnce
  BY <1>1, ConfigAssumption DEF DepthIsKept, ScanIsSettled, MintedOnce
<1>3. CreditIsRecorded /\ EventsFollowChain
  BY <1>1 DEF CreditIsRecorded, EventsFollowChain
<1> QED
  BY <1>1, <1>2, <1>3, RowInit DEF LedgerInv

\* Until the chain is reset, the ledger records only settled mints, and every mint behind
\* the cursor once (watcher.rs), whatever became of its intent, and for any depth.
THEOREM LedgerFollowsChain == Spec => []EventsFollowChain
<1>1. LedgerInvUntilReset /\ [Next]_vars => LedgerInvUntilReset'
  BY LedgerUntilResetStep
<1>2. LedgerInvUntilReset => EventsFollowChain
  BY DEF LedgerInvUntilReset, LedgerInv, EventsFollowChain
<1> QED
  BY <1>1, <1>2, LedgerInit, PTL DEF Spec

\* The refinement mapping.
Authorised == {i \in Intents : outbox[i] # "none"}
Minted == [i \in Intents |-> MintedIn(i)]

\* A step of the chain alone is a Mint of the promise or none of its steps.
LEMMA ChainStepIsPromised ==
  ASSUME UNCHANGED <<outbox, events>>, (resets # 0)' = (resets # 0), SettlesNone \/ SettlesOne
  PROVE  [Promise!Next]_(Promise!mintVars)
<1>1. Authorised' = Authorised
  BY DEF Authorised
<1>2. CASE SettlesNone
  <2>1. Minted' = Minted
    BY <1>2 DEF SettlesNone, Minted
  <2> QED
    BY <1>1, <2>1 DEF Promise!mintVars, Authorised, Minted
<1>3. CASE SettlesOne
  <2>1. PICK i \in Intents, h \in 1..MaxHeight :
          /\ outbox[i] # "none" /\ MintedIn(i) = {} /\ MintedIn(i)' = {h}
          /\ \A j \in Intents \ {i} : MintedIn(j)' = MintedIn(j)
    BY <1>3 DEF SettlesOne
  <2>2. Minted' = [Minted EXCEPT ![i] = {h}]
    BY <2>1 DEF Minted
  <2>3. i \in Authorised /\ Minted[i] = {}
    BY <2>1 DEF Authorised, Minted
  <2>4. Promise!Mint(i)
    BY <1>1, <2>2, <2>3 DEF Promise!Mint, Authorised, Minted
  <2> QED
    BY <2>4 DEF Promise!Next
<1> QED
  BY <1>2, <1>3

\* Every step of the first chain is one of the promise, or none of its business.
LEMMA FirstChainStepIsPromised ==
  ASSUME LedgerInv, [Next]_vars, resets' = 0
  PROVE  [Promise!Next]_(Promise!mintVars)
<1>r. (resets # 0)' = (resets # 0)
  BY DEF LedgerInv
<1>1. CASE Unledgered
  <2>1. Minted' = Minted /\ events' = events
    BY <1>1 DEF Unledgered, Minted, MintedIn
  <2>2. Authorised' = Authorised \/ \E i \in Intents : Authorised' = Authorised \cup {i}
    BY <1>1 DEF Unledgered, Authorised
  <2>3. CASE Authorised' = Authorised
    BY <1>r, <2>1, <2>3 DEF Promise!mintVars, Authorised, Minted
  <2>4. ASSUME NEW i \in Intents, Authorised' = Authorised \cup {i} PROVE Promise!Authorise(i)
    BY <1>r, <2>1, <2>4 DEF Promise!Authorise, Authorised, Minted
  <2> QED
    BY <2>2, <2>3, <2>4 DEF Promise!Next
<1>2. CASE ProcessBlock
  <2>1. PICK m \in Intents \cup {NoMint} :
          /\ cursor + 1 \in 1..Len(chain) /\ m = chain[cursor + 1].intent
          /\ \/ m \in Intents /\ status[m] # "credited" /\ CreditMint(m)
             \/ UNCHANGED <<status, stale, outbox, events>>
    BY <1>2, BlockCases DEF LedgerInv, RowInv
  <2>2. SettlesNone /\ Minted' = Minted
    BY <1>2 DEF ProcessBlock, chainVars, SettlesNone, Minted, MintedIn
  <2>3. CASE m \in Intents /\ status[m] # "credited" /\ CreditMint(m)
    <3>1. outbox[m] # "none"
      BY <2>1, <2>3 DEF LedgerInv, RowInv, UnopenedIsUntouched, OnChain
    <3>2. Authorised' = Authorised
      BY <2>3, <3>1 DEF CreditMint, SetOutbox, Authorised, LedgerInv, RowInv, TypeOK
    <3>3. CASE events[m] = 0
      <4>1. events' = [events EXCEPT ![m] = 1] /\ events'[m] # 0
        BY <2>3, <3>3, LedgerTypes DEF CreditMint
      <4>2. MintedIn(m)' # {}
        BY <4>1, <1>2, <2>3, WatcherKeepsLedger DEF EventsFollowChain, Watch
      <4>3. Minted[m] # {}
        BY <4>2, <2>2, <2>3 DEF SettlesNone, Minted
      <4>4. Promise!Record(m)
        BY <1>r, <2>2, <3>2, <3>3, <4>1, <4>3 DEF Promise!Record, Authorised, Minted
      <4> QED
        BY <4>4, <2>3 DEF Promise!Next
    <3>4. CASE events[m] # 0
      <4>1. events' = events
        BY <2>3, <3>4, LedgerTypes DEF CreditMint
      <4> QED
        BY <1>r, <4>1, <2>2, <3>2 DEF Promise!mintVars, Authorised, Minted
    <3> QED
      BY <3>3, <3>4
  <2>4. CASE UNCHANGED <<status, stale, outbox, events>>
    BY <2>2, <2>4, ChainStepIsPromised, <1>r
  <2> QED
    BY <2>1, <2>3, <2>4
<1>3. CASE Rewind \/ Poll \/ Advance \/ BlockMissing \/ WatcherAborts
  <2>1. UNCHANGED <<outbox, events, chain, peak>>
    BY <1>3 DEF Rewind, Poll, Advance, BlockMissing, WatcherAborts, rowVars, chainVars
  <2> QED
    BY <2>1, ChainStepIsPromised, <1>r DEF SettlesNone, MintedIn
<1>4. ASSUME NEW tx \in MintTxs \cup {EmptyBlock}, AppendBlock(tx),
             tx = EmptyBlock \/ ~RefProcessed(tx.ref)
      PROVE  [Promise!Next]_(Promise!mintVars)
  <2>1. UNCHANGED <<outbox, events>>
    BY <1>4 DEF AppendBlock, rowVars, watcherVars
  <2>2. SettlesNone \/ SettlesOne
    BY <1>4, AppendMintsOnce, AppendSettles, UnopenedStep DEF LedgerInv
  <2> QED
    BY <2>1, <2>2, ChainStepIsPromised, <1>r
<1>5. CASE Reorg
  <2>1. UNCHANGED <<outbox, events>>
    BY <1>5 DEF Reorg, rowVars, watcherVars
  <2> QED
    BY <1>5, <2>1, ReorgKeepsSettled, ChainStepIsPromised, <1>r
<1> QED
  BY <1>1, <1>2, <1>3, <1>4, <1>5, LedgerCases DEF Watch

\* A step on another chain is one the promise allows.
LEMMA StepIsPromised ==
  ASSUME LedgerInvUntilReset, [Next]_vars
  PROVE  [Promise!Next]_(Promise!mintVars)
<1>1. CASE resets' = 0
  BY <1>1, ResetsGrow, FirstChainStepIsPromised DEF LedgerInvUntilReset
<1>2. CASE resets' # 0
  <2>1. Promise!Replaced
    BY <1>2 DEF Promise!Replaced
  <2> QED
    BY <2>1 DEF Promise!Next
<1> QED
  BY <1>1, <1>2

\* Until the chain is reset, and with a node that processes a ref once: nothing is minted
\* without an approval; no intent is minted in two blocks, whatever the lost replies,
\* requeues and second approvals, because each submission carries the intent's one ref
\* (outbox.rs:291); and the ledger records a mint once, when the chain has settled it.
THEOREM MintRefinesPromise == Spec => MintKeepsPromise
<1>1. Init => Promise!Init
  <2> SUFFICES ASSUME Init PROVE Promise!Init
    OBVIOUS
  <2>1. \A i \in Intents : MintedIn(i) = {}
    BY DEF Init, MintedIn
  <2> QED
    BY <2>1 DEF Init, Promise!Init
<1>2. LedgerInvUntilReset /\ [Next]_vars => LedgerInvUntilReset'
  BY LedgerUntilResetStep
<1>3. LedgerInvUntilReset /\ [Next]_vars => [Promise!Next]_(Promise!mintVars)
  BY StepIsPromised
<1> QED
  BY <1>1, <1>2, <1>3, LedgerInit, PTL DEF Spec, MintKeepsPromise, Promise!Spec
=============================================================================
