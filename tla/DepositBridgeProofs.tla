------------------------- MODULE DepositBridgeProofs -------------------------
(***************************************************************************)
(* What is proved of DepositBridge, for any deposits, transfers, scenes,   *)
(* fees and failures: its types; that every deposit authorised on evidence *)
(* is backed by a transfer of its own, which arrived and covers the mint,  *)
(* the fee and the sweep; and that nothing is rejected against the         *)
(* evidence.                                                               *)
(*                                                                         *)
(* The verifier reads, asks and writes in separate steps, and others write *)
(* the same rows between them.  What it holds in hand stays true meanwhile *)
(* (CaseIsTrue), and what it wrote is never written again                  *)
(* (EnteredIsBacked).                                                      *)
(***************************************************************************)
EXTENDS DepositBridge, SumsProofs

\* One transfer backs one intent.
ClaimsDiffer ==
  \A d, e \in Deposits : claim[d] = claim[e] /\ claim[d] # NoTransfer => d = e

\* A row is what was asked for, until the verifier enters what arrived.
RowsAreAsked ==
  \A d \in Deposits :
    /\ ts[d] = "none" => claim[d] = NoTransfer
    /\ ts[d] \in {"none", "created"} => entered[d] = 0
    /\ entered[d] = 0 => fee[d] = 0
    /\ ts[d] # "none" =>
         /\ Ask[d].tx # NoTransfer => claim[d] = Ask[d].tx
         /\ entered[d] = 0 => clt[d] = Ask[d].amount

\* Why a deposit may be rejected.
Reason(d) ==
  \/ Ask[d].tx = NoTransfer \/ ~Matches(d, Ask[d].tx)
  \/ Direct(d) /\ FromUs(d)
  \/ ~Direct(d) /\ Ask[d].to \notin Plain \cup Accounts
  \/ Ask[d].to \in Accounts /\ Paid[Ask[d].tx].amount <= ActivateMax + TransferMax

\* The cap leaves what the sweep may cost.
CapIsTrue(d) ==
  \/ vcur.cap = Uncapped /\ Ask[d].to \notin Accounts
  \/ vcur.cap \in Nat \ {0} /\ vcur.cap <= Paid[vcur.tx].amount - Spare(d)

\* What the verifier holds in hand is true while others move.
CaseIsTrue ==
  vpc # "idle" =>
    /\ vcur.of \in Deposits /\ ts[vcur.of] # "none" /\ entered[vcur.of] = 0
    /\ vpc # "reject" =>
         /\ vcur.tx \in Transfers /\ vcur.tx \in seen
         /\ Matches(vcur.of, vcur.tx) /\ ~Underived(vcur.of)
    /\ vpc = "claim" => claim[vcur.of] = NoTransfer
    /\ vpc \in {"judge", "approve", "hold"} => claim[vcur.of] = vcur.tx
    /\ vpc \in {"approve", "hold"} => CapIsTrue(vcur.of)
    /\ vpc = "reject" => Reason(vcur.of)

CaseIsTyped == vcur = [of |-> vcur.of, tx |-> vcur.tx, cap |-> vcur.cap]

\* What was entered is backed.
Backed(d) ==
  /\ claim[d] \in seen /\ Matches(d, claim[d])
  /\ clt[d] >= 1 /\ clt[d] + fee[d] <= Paid[claim[d]].amount - Spare(d)

EnteredIsBacked == \A d \in Deposits : entered[d] # 0 => Backed(d)

\* What was authorised on evidence was entered; what was rejected had a reason.
DecidedRightly ==
  /\ \A d \in authorised \ forced : entered[d] # 0
  /\ \A d \in Deposits : ts[d] = "rejected" => Reason(d)

VerifierInv ==
  /\ VerifierTypeOK /\ CaseIsTyped /\ ClaimsDiffer /\ RowsAreAsked /\ CaseIsTrue
  /\ EnteredIsBacked /\ DecidedRightly

\* The bridge acts on an intent the treasury has, whose id it has stored.
BridgeKnows ==
  /\ bpc # "idle" => bcur \in Deposits /\ ts[bcur] # "none"
  /\ bpc \in {"request", "react"} => bcur \in linked

BridgeInv == VerifierInv /\ TypeOK /\ BridgeKnows

\* Every deposit authorised on evidence is backed by a transfer, and no two by one.
EachIsBacked ==
  /\ \A d \in authorised \ forced : Backed(d)
  /\ \A d, e \in authorised \ forced : claim[d] = claim[e] => d = e

-----------------------------------------------------------------------------
\* What is none is neither a transfer nor a deposit, and a case is one of a deposit.
LEMMA NoneIsApart ==
  /\ NoTransfer \notin Deposits /\ NoTransfer \notin Transfers
  /\ \A c : c.of \in Deposits => c # NoCase
<1>1. NoTransfer \notin Deposits /\ NoTransfer \notin Transfers
  BY NoneAssumption
<1>2. NoCase.of = NoTransfer
  BY DEF NoCase
<1>3. ASSUME NEW c, c.of \in Deposits, c = NoCase PROVE FALSE
  <2>1. c.of = NoTransfer
    BY <1>2, <1>3, Zenon
  <2> QED
    BY <1>1, <1>3, <2>1, Zenon
<1> QED
  BY <1>1, <1>3, Zenon

\* What the scene says is typed, and stays what it is.
LEMMA SceneTypes ==
  ASSUME VerifierTypeOK
  PROVE  /\ \A t \in Transfers : Paid[t].amount \in Nat \ {0}
         /\ \A d \in Deposits :
              /\ Ask[d].amount \in Nat \ {0} /\ Ask[d].tx \in Transfers \cup {NoTransfer}
              /\ Ask[d].to \in Accounts => ~Direct(d) /\ ~OnBsc(d)
         /\ \A d \in Deposits : Spare(d) \in Nat /\ Spare(d) <= ActivateMax + TransferMax
<1>1. scene \in Scenes
  BY DEF VerifierTypeOK
<1>2. /\ \A t \in Transfers : Paid[t].amount \in Nat \ {0}
      /\ \A d \in Deposits :
           /\ Ask[d].amount \in Nat \ {0} /\ Ask[d].tx \in Transfers \cup {NoTransfer}
           /\ Ask[d].to \in Accounts => Ask[d].network = "tron" /\ Ask[d].from = NoOne
  <2>0. /\ \A s \in Scenes : \A t \in Transfers : s.paid[t].amount \in Nat \ {0}
        /\ \A s \in Scenes : \A d \in Deposits :
             /\ s.ask[d].amount \in Nat \ {0} /\ s.ask[d].tx \in Transfers \cup {NoTransfer}
             /\ s.ask[d].to \in Accounts => s.ask[d].network = "tron" /\ s.ask[d].from = NoOne
    BY SceneAssumption
  <2>1. \A t \in Transfers : Paid[t].amount \in Nat \ {0}
    BY <1>1, <2>0 DEF Paid
  <2>2. \A d \in Deposits :
          /\ Ask[d].amount \in Nat \ {0} /\ Ask[d].tx \in Transfers \cup {NoTransfer}
          /\ Ask[d].to \in Accounts => Ask[d].network = "tron" /\ Ask[d].from = NoOne
    BY <1>1, <2>0 DEF Ask
  <2> QED
    BY <2>1, <2>2
<1>3. \A d \in Deposits : Spare(d) \in Nat /\ Spare(d) <= ActivateMax + TransferMax
  BY VerifierAssumption DEF Spare
<1> QED
  BY <1>2, <1>3 DEF Direct, OnBsc

\* The operator's share leaves something of what is minted.
LEMMA FeeIsLess ==
  ASSUME NEW m \in Nat \ {0} PROVE service_fee(m) \in Nat /\ service_fee(m) < m
<1>0. Bps \in Int /\ MinFee \in Nat
  BY VerifierAssumption
<1> DEFINE share == Greatest((m * Bps) \div 10000, MinFee)
<1>1. m * Bps \in Int
  BY <1>0
<1>2. (m * Bps) \div 10000 \in Int
  BY <1>1
<1>3. share \in Nat
  BY <1>0, <1>2 DEF Greatest
<1> HIDE DEF share
<1>4. service_fee(m) = IF Bps = 0 \/ share >= m THEN 0 ELSE share
  BY DEF service_fee, share
<1> QED
  BY <1>3, <1>4
-----------------------------------------------------------------------------
(* The verifier's side.                                                    *)

Created(d) == Creates(d) /\ UNCHANGED <<worldVars, passVars, historyVars>>
VerifierStep ==
  /\ Treasury \/ (\E d \in Deposits : Created(d)) \/ UNCHANGED verifierVars
  /\ troubles' \in 0..MaxTroubles

\* The scene stays, and the reasons with it.
LEMMA SceneStays ==
  ASSUME VerifierInv, VerifierStep
  PROVE  /\ scene' = scene /\ seen \subseteq seen'
         /\ \A d \in Deposits : ts[d] # "none" => ts'[d] # "none"
<1> USE DEF VerifierInv, VerifierTypeOK, CaseIsTrue, rowVars, worldVars, passVars, historyVars, NoCase
<1> DEFINE Stays == scene' = scene /\ seen \subseteq seen'
                    /\ \A d \in Deposits : ts[d] # "none" => ts'[d] # "none"
<1> SUFFICES Stays
  OBVIOUS
<1>1. ASSUME ClaimTransfer PROVE Stays
  BY <1>1 DEF ClaimTransfer, Claimed
<1>2. ASSUME Judge PROVE Stays
  BY <1>2 DEF Judge
<1>3. ASSUME ApproveWrite PROVE Stays
  BY <1>3 DEF ApproveWrite, Done
<1>4. ASSUME HoldWrite PROVE Stays
  BY <1>4 DEF HoldWrite, Done
<1>5. ASSUME RejectWrite PROVE Stays
  BY <1>5 DEF RejectWrite, Done
<1>6. ASSUME VerifierFails PROVE Stays
  BY <1>6 DEF VerifierFails, Done, Trouble
<1>7. ASSUME NEW t \in Transfers, Settles(t) PROVE Stays
  BY <1>7 DEF Settles
<1>8. ASSUME NEW t \in Transfers, Ages(t) PROVE Stays
  BY <1>8 DEF Ages
<1>9. ASSUME NEW a \in Accounts, FirstSweep(a) PROVE Stays
  BY <1>9 DEF FirstSweep
<1>10. ASSUME NEW d \in Deposits, EvidenceMismatches(d) PROVE Stays
  BY <1>10 DEF EvidenceMismatches, Take, HardMismatch
<1>11. ASSUME NEW d \in Deposits, NEW t \in Transfers, EvidencePasses(d, t) PROVE Stays
  BY <1>11 DEF EvidencePasses, Passes, Take, Found
<1>12. ASSUME NEW d \in Deposits, HumanApproves(d) PROVE Stays
  BY <1>12 DEF HumanApproves
<1>13. ASSUME NEW d \in Deposits, Outbox(d) PROVE Stays
  BY <1>13 DEF Outbox
<1>14. ASSUME NEW d \in Deposits, OutboxRefuses(d) PROVE Stays
  BY <1>14 DEF OutboxRefuses, Trouble
<1>15. ASSUME NEW d \in Deposits, Created(d) PROVE Stays
  BY <1>15 DEF Created, Creates
<1>16. CASE UNCHANGED verifierVars
  BY <1>16 DEF verifierVars
<1> HIDE DEF Stays
<1> QED
  BY <1>1, <1>2, <1>3, <1>4, <1>5, <1>6, <1>7, <1>8, <1>9, <1>10, <1>11, <1>12, <1>13, <1>14,
     <1>15, <1>16 DEF VerifierStep, Treasury, VerifierSteps, World, Evaluate


\* A reason stays one, since an address we have used stays ours.
LEMMA ReasonStays ==
  ASSUME VerifierInv, VerifierStep, NEW d \in Deposits, Reason(d)
  PROVE  Reason(d)'
BY SceneStays DEF Reason, Matches, Direct, FromUs, Ask, Paid

\* What a transfer is to a deposit depends on the scene alone.
LEMMA MatchesStays ==
  ASSUME VerifierInv, VerifierStep, NEW d \in Deposits, NEW t
  PROVE  /\ Ask' = Ask /\ Paid' = Paid /\ (Matches(d, t)' <=> Matches(d, t))
         /\ (Underived(d)' <=> Underived(d))
BY SceneStays DEF Matches, Direct, OnBsc, Underived, Ask, Paid

\* What is minted of the deposit in hand covers the sweep and is something.
LEMMA MintedIsCovered ==
  ASSUME VerifierInv, vpc \in {"approve", "hold"}
  PROVE  /\ vcur.of \in Deposits /\ vcur.tx \in Transfers
         /\ Capped(clt[vcur.of]) \in Nat \ {0} /\ Paid[vcur.tx].amount \in Nat \ {0}
         /\ Capped(clt[vcur.of]) <= Paid[vcur.tx].amount - Spare(vcur.of)
<1> DEFINE d == vcur.of
<1>1. /\ d \in Deposits /\ entered[d] = 0 /\ ts[d] # "none" /\ vcur.tx \in Transfers
      /\ Matches(d, vcur.tx) /\ CapIsTrue(d)
  BY DEF VerifierInv, CaseIsTrue
<1>2. clt[d] = Ask[d].amount
  BY <1>1 DEF VerifierInv, RowsAreAsked
<1>3. /\ Ask[d].amount \in Nat \ {0} /\ Paid[vcur.tx].amount \in Nat \ {0} /\ Spare(d) \in Nat
      /\ Ask[d].amount <= Paid[vcur.tx].amount
  BY <1>1, SceneTypes DEF VerifierInv, Matches
<1>4. CASE vcur.cap = Uncapped /\ Ask[d].to \notin Accounts
  BY <1>1, <1>2, <1>3, <1>4 DEF Capped, Spare
<1>5. CASE vcur.cap \in Nat \ {0} /\ vcur.cap <= Paid[vcur.tx].amount - Spare(d)
  BY <1>1, <1>2, <1>3, <1>5 DEF Capped, Least, Uncapped
<1> QED
  BY <1>1, <1>4, <1>5 DEF CapIsTrue

\* Every step keeps the types.
LEMMA VerifierTypes ==
  ASSUME VerifierInv, VerifierStep
  PROVE  VerifierTypeOK'
<1> USE DEF VerifierInv, CaseIsTrue, NoCase, VerifierTypeOK, Statuses, rowVars, worldVars,
        passVars, historyVars
<1>t. troubles' \in 0..MaxTroubles
  BY DEF VerifierStep
<1>1. ASSUME ClaimTransfer PROVE VerifierTypeOK'
  BY <1>1, <1>t DEF ClaimTransfer, Claimed
<1>2. ASSUME Judge PROVE VerifierTypeOK'
  <2>1. vcur.of \in Deposits /\ vpc' \in {"approve", "hold", "reject"}
    BY <1>2 DEF Judge, Verdict
  <2>2. vcur' # NoCase
    <3>1. vcur'.of = vcur.of
      BY <1>2 DEF Judge
    <3> HIDE DEF NoCase
    <3> QED
      BY <2>1, <3>1, NoneIsApart
  <2> QED
    BY <1>2, <1>t, <2>1, <2>2 DEF Judge
<1>3. ASSUME ApproveWrite PROVE VerifierTypeOK'
  <2>1. vcur.of \in Deposits /\ Capped(clt[vcur.of]) \in Nat \ {0} /\ Paid[vcur.tx].amount \in Nat
    BY <1>3, MintedIsCovered DEF ApproveWrite, VerifierInv
  <2> DEFINE m == Capped(clt[vcur.of])
             split == IF HasEarlier(vcur.of) THEN service_fee(m) ELSE 0
  <2>2. split \in Nat /\ m - split \in Nat
    BY <2>1, FeeIsLess
  <2>3. clt' \in [Deposits -> Nat] /\ fee' \in [Deposits -> Nat] /\ entered' \in [Deposits -> Nat]
    BY <1>3, <2>1, <2>2 DEF ApproveWrite
  <2> QED
    BY <1>3, <1>t, <2>3 DEF ApproveWrite, Done
<1>4. ASSUME HoldWrite PROVE VerifierTypeOK'
  <2>1. vcur.of \in Deposits /\ Capped(clt[vcur.of]) \in Nat \ {0} /\ Paid[vcur.tx].amount \in Nat
    BY <1>4, MintedIsCovered DEF HoldWrite, VerifierInv
  <2>2. clt' \in [Deposits -> Nat] /\ entered' \in [Deposits -> Nat]
    BY <1>4, <2>1 DEF HoldWrite
  <2> QED
    BY <1>4, <1>t, <2>2 DEF HoldWrite, Done
<1>5. ASSUME RejectWrite PROVE VerifierTypeOK'
  BY <1>5, <1>t DEF RejectWrite, Done
<1>6. ASSUME VerifierFails PROVE VerifierTypeOK'
  BY <1>6, <1>t DEF VerifierFails, Done, Trouble
<1>7. ASSUME NEW t \in Transfers, Settles(t) PROVE VerifierTypeOK'
  BY <1>7, <1>t DEF Settles
<1>8. ASSUME NEW t \in Transfers, Ages(t) PROVE VerifierTypeOK'
  BY <1>8, <1>t DEF Ages
<1>9. ASSUME NEW a \in Accounts, FirstSweep(a) PROVE VerifierTypeOK'
  BY <1>9, <1>t DEF FirstSweep
<1>10. ASSUME NEW d \in Deposits, EvidenceMismatches(d) PROVE VerifierTypeOK'
  <2>1. [of |-> d, tx |-> NoTransfer, cap |-> Uncapped] # NoCase
    BY NoneIsApart
  <2> QED
    BY <1>10, <1>t, <2>1 DEF EvidenceMismatches, Take
<1>11. ASSUME NEW d \in Deposits, NEW t \in Transfers, EvidencePasses(d, t)
      PROVE  VerifierTypeOK'
  <2>1. [of |-> d, tx |-> t, cap |-> Uncapped] # NoCase
    BY NoneIsApart
  <2> QED
    BY <1>11, <1>t, <2>1 DEF EvidencePasses, Take
<1>12. ASSUME NEW d \in Deposits, HumanApproves(d) PROVE VerifierTypeOK'
  BY <1>12, <1>t DEF HumanApproves
<1>13. ASSUME NEW d \in Deposits, Outbox(d) PROVE VerifierTypeOK'
  BY <1>13, <1>t DEF Outbox
<1>14. ASSUME NEW d \in Deposits, OutboxRefuses(d) PROVE VerifierTypeOK'
  BY <1>14, <1>t DEF OutboxRefuses, Trouble
<1>15. ASSUME NEW d \in Deposits, Created(d) PROVE VerifierTypeOK'
  <2>1. Ask[d].amount \in Nat /\ Ask[d].tx \in Transfers \cup {NoTransfer}
    BY SceneTypes
  <2> QED
    BY <1>15, <1>t, <2>1 DEF Created, Creates
<1>16. CASE UNCHANGED verifierVars
  BY <1>16, <1>t DEF verifierVars
<1> HIDE DEF VerifierInv, CaseIsTrue, NoCase, VerifierTypeOK, Statuses, rowVars, worldVars,
             passVars, historyVars
<1> QED
  BY <1>1, <1>2, <1>3, <1>4, <1>5, <1>6, <1>7, <1>8, <1>9, <1>10, <1>11, <1>12, <1>13, <1>14,
     <1>15, <1>16 DEF VerifierStep, Treasury, VerifierSteps, World, Evaluate

\* A request answered with the intent there is leaves it; a new one is what was asked for.
LEMMA CreatedRow ==
  ASSUME VerifierTypeOK, NEW d \in Deposits, Created(d)
  PROVE  /\ UNCHANGED <<fee, entered>>
         /\ \/ UNCHANGED <<ts, claim, clt>>
            \/ /\ ts[d] = "none"
               /\ Ask[d].tx = NoTransfer \/ \A e \in Deposits : claim[e] # Ask[d].tx
               /\ ts' = [ts EXCEPT ![d] = "created"]
               /\ claim' = [claim EXCEPT ![d] = Ask[d].tx]
               /\ clt' = [clt EXCEPT ![d] = Ask[d].amount]
<1>1. CASE ts[d] # "none"
  BY <1>1 DEF Created, Creates, rowVars
<1>2. CASE ts[d] = "none"
  BY <1>2 DEF Created, Creates, Claimed
<1> QED
  BY <1>1, <1>2

\* Every step keeps ClaimsDiffer.
LEMMA ClaimsStep ==
  ASSUME VerifierInv, VerifierStep
  PROVE  ClaimsDiffer'
<1> USE DEF VerifierInv, VerifierTypeOK, ClaimsDiffer, CaseIsTrue, worldVars, passVars,
        historyVars, rowVars
<1>1. ASSUME ClaimTransfer PROVE ClaimsDiffer'
  BY <1>1 DEF ClaimTransfer, Claimed
<1>2. ASSUME NEW d \in Deposits, Created(d) PROVE ClaimsDiffer'
  BY <1>2, CreatedRow
<1>3. ASSUME \/ Judge \/ ApproveWrite \/ HoldWrite \/ RejectWrite \/ VerifierFails
     PROVE  ClaimsDiffer'
  BY <1>3 DEF Judge, ApproveWrite, Done, HoldWrite, RejectWrite, VerifierFails, Trouble
<1>4. ASSUME NEW d \in Deposits,
            \/ EvidenceMismatches(d) \/ HumanApproves(d) \/ Outbox(d) \/ OutboxRefuses(d)
     PROVE  ClaimsDiffer'
  BY <1>4
     DEF EvidenceMismatches, Take, HardMismatch, HumanApproves, Outbox, OutboxRefuses,
         Trouble
<1>5. ASSUME NEW t \in Transfers,
            \/ Settles(t) \/ Ages(t)
     PROVE  ClaimsDiffer'
  BY <1>5 DEF Settles, Ages
<1>6. ASSUME NEW a \in Accounts, FirstSweep(a) PROVE ClaimsDiffer'
  BY <1>6 DEF FirstSweep
<1>7. ASSUME NEW d \in Deposits, NEW t \in Transfers, EvidencePasses(d, t) PROVE ClaimsDiffer'
  BY <1>7 DEF EvidencePasses, Passes, Take, Found
<1>8. CASE UNCHANGED verifierVars
  BY <1>8 DEF verifierVars
<1> HIDE DEF VerifierInv, VerifierTypeOK, ClaimsDiffer, CaseIsTrue, worldVars, passVars,
             historyVars, rowVars
<1> QED
  BY <1>1, <1>2, <1>3, <1>4, <1>5, <1>6, <1>7, <1>8
     DEF VerifierStep, Treasury, VerifierSteps, World, Evaluate

\* Every step keeps RowsAreAsked.
LEMMA RowsStep ==
  ASSUME VerifierInv, VerifierStep
  PROVE  RowsAreAsked'
<1> USE SceneStays DEF VerifierInv, VerifierTypeOK, RowsAreAsked, CaseIsTrue, Ask, worldVars,
        passVars, historyVars, rowVars
<1>1. ASSUME ClaimTransfer PROVE RowsAreAsked'
  BY <1>1 DEF ClaimTransfer, Claimed
<1>2. ASSUME NEW d \in Deposits, Created(d) PROVE RowsAreAsked'
  <2>1. /\ UNCHANGED <<fee, entered, scene>> /\ Ask[d].tx \in Transfers \cup {NoTransfer}
        /\ Ask[d].amount \in Nat
    BY <1>2, CreatedRow, SceneStays, SceneTypes
  <2>2. CASE UNCHANGED <<ts, claim, clt>>
    BY <2>1, <2>2
  <2>3. CASE ~UNCHANGED <<ts, claim, clt>>
    <3>1. ts[d] = "none" /\ entered[d] = 0 /\ fee[d] = 0
      BY <1>2, <2>3, CreatedRow
    <3> QED
      BY <1>2, <2>1, <2>3, <3>1, CreatedRow
  <2> QED
    BY <2>2, <2>3
<1>3. ASSUME ApproveWrite PROVE RowsAreAsked'
  <2>1. vcur.of \in Deposits /\ Paid[vcur.tx].amount \in Nat \ {0} /\ ts[vcur.of] # "none"
    BY <1>3, MintedIsCovered DEF ApproveWrite
  <2> QED
    BY <1>3, <2>1 DEF ApproveWrite
<1>4. ASSUME HoldWrite PROVE RowsAreAsked'
  <2>1. vcur.of \in Deposits /\ Paid[vcur.tx].amount \in Nat \ {0} /\ ts[vcur.of] # "none"
    BY <1>4, MintedIsCovered DEF HoldWrite
  <2> QED
    BY <1>4, <2>1 DEF HoldWrite
<1>5. ASSUME RejectWrite PROVE RowsAreAsked'
  BY <1>5 DEF RejectWrite, Done
<1>6. ASSUME NEW d \in Deposits, HumanApproves(d) PROVE RowsAreAsked'
  BY <1>6 DEF HumanApproves
<1>7. ASSUME NEW d \in Deposits, Outbox(d) PROVE RowsAreAsked'
  BY <1>7 DEF Outbox
<1>8. ASSUME NEW d \in Deposits, OutboxRefuses(d) PROVE RowsAreAsked'
  BY <1>8 DEF OutboxRefuses, Trouble
<1>9. ASSUME \/ Judge \/ VerifierFails
     PROVE  RowsAreAsked'
  BY <1>9 DEF Judge, VerifierFails, Done, Trouble
<1>10. ASSUME NEW d \in Deposits, EvidenceMismatches(d) PROVE RowsAreAsked'
  BY <1>10 DEF EvidenceMismatches, Take, HardMismatch
<1>11. ASSUME NEW t \in Transfers,
            \/ Settles(t) \/ Ages(t)
     PROVE  RowsAreAsked'
  BY <1>11 DEF Settles, Ages
<1>12. ASSUME NEW a \in Accounts, FirstSweep(a) PROVE RowsAreAsked'
  BY <1>12 DEF FirstSweep
<1>13. ASSUME NEW d \in Deposits, NEW t \in Transfers, EvidencePasses(d, t)
      PROVE  RowsAreAsked'
  BY <1>13 DEF EvidencePasses, Passes, Take, Found
<1>14. CASE UNCHANGED verifierVars
  BY <1>14 DEF verifierVars
<1> HIDE DEF VerifierInv, VerifierTypeOK, RowsAreAsked, CaseIsTrue, Ask, worldVars, passVars,
             historyVars, rowVars
<1> QED
  BY <1>1, <1>2, <1>3, <1>4, <1>5, <1>6, <1>7, <1>8, <1>9, <1>10, <1>11, <1>12, <1>13, <1>14
     DEF VerifierStep, Treasury, VerifierSteps, World, Evaluate

\* Nothing in hand changes when the pass, its row and the deposit's sweep do not.
LEMMA CaseStays ==
  ASSUME VerifierInv, VerifierStep, UNCHANGED passVars, UNCHANGED <<claim, entered, full>>
  PROVE  CaseIsTrue'
<1> SUFFICES ASSUME vpc # "idle" PROVE CaseIsTrue'
  BY DEF CaseIsTrue, passVars
<1> DEFINE d == vcur.of
<1>1. d \in Deposits /\ ts'[d] # "none" /\ entered'[d] = 0 /\ vcur' = vcur /\ vpc' = vpc
  BY SceneStays DEF VerifierInv, CaseIsTrue, passVars
<1>2. Ask' = Ask /\ Paid' = Paid /\ (Matches(d, vcur.tx)' <=> Matches(d, vcur.tx)) /\ (Underived(d)' <=> Underived(d))
  BY <1>1, MatchesStays DEF Matches, Direct, OnBsc, Underived, Ask, Paid
<1>3. Spare(d)' = Spare(d)
  BY <1>1, <1>2 DEF Spare
<1>4. CapIsTrue(d) => CapIsTrue(d)'
  BY <1>1, <1>2, <1>3 DEF CapIsTrue
<1>5. Reason(d) => Reason(d)'
  BY <1>1, ReasonStays
<1> QED
  BY <1>1, <1>2, <1>4, <1>5, SceneStays DEF VerifierInv, CaseIsTrue

\* What the verdict leaves for the sweep, and why it rejects.
LEMMA VerdictIsTrue ==
  ASSUME VerifierInv, VerifierStep, Judge
  PROVE  CaseIsTrue'
<1> DEFINE d == vcur.of
           amount == Paid[vcur.tx].amount
<1>1. /\ d \in Deposits /\ ts[d] # "none" /\ entered[d] = 0 /\ claim[d] = vcur.tx
      /\ vcur.tx \in Transfers /\ vcur.tx \in seen /\ Matches(d, vcur.tx) /\ ~Underived(d)
  BY DEF VerifierInv, CaseIsTrue, Judge
<1>2. /\ vpc' = Verdict(d, amount) /\ vcur' = [vcur EXCEPT !.cap = Cap(d, amount)]
      /\ full' = IF Ask[d].to \in Accounts \ swept THEN full \cup {d} ELSE full \ {d}
      /\ UNCHANGED <<ts, claim, entered, scene, seen>>
  BY DEF Judge, rowVars, worldVars
<1>3. vcur' = [of |-> d, tx |-> vcur.tx, cap |-> Cap(d, amount)]
  BY <1>2 DEF VerifierInv, CaseIsTyped
<1>4. /\ amount \in Nat \ {0} /\ (Ask[d].to \in Accounts => ~Direct(d) /\ ~OnBsc(d))
      /\ Plain \cap Accounts = {} /\ ActivateMax \in Nat /\ TransferMax \in Nat /\ MinDeposit \in Nat
  BY <1>1, SceneTypes, VerifierAssumption DEF VerifierInv
<1>5. Spare(d)' = IF Ask[d].to \in Accounts THEN HoldFor(Ask[d].to) ELSE 0
  BY <1>2 DEF Spare, HoldFor, Ask
<1>6. CASE Verdict(d, amount) # "reject"
  <2>3. HoldFor(Ask[d].to) \in Nat
    BY <1>4 DEF HoldFor
  <2>1. ASSUME Ask[d].to \in Accounts
        PROVE  Cap(d, amount) = amount - HoldFor(Ask[d].to) /\ Cap(d, amount) >= 1
    <3>1. Cap(d, amount) = amount - HoldFor(Ask[d].to)
      BY <1>4, <2>1 DEF Cap
    <3>2. ~(Cap(d, amount) < 1)
      BY <1>6, <2>1 DEF Verdict
    <3> QED
      BY <1>4, <2>3, <3>1, <3>2
  <2>2. Ask[d].to \notin Accounts => Cap(d, amount) \in {amount, Uncapped}
    <3>1. Direct(d) \/ OnBsc(d) => Cap(d, amount) = amount
      BY DEF Cap
    <3>2. ~Direct(d) /\ Ask[d].to \notin Accounts => Ask[d].to \in Plain
      BY <1>6 DEF Verdict
    <3> QED
      BY <3>1, <3>2 DEF Cap
  <2>4. \/ Cap(d, amount) = Uncapped /\ Ask[d].to \notin Accounts
        \/ Cap(d, amount) \in Nat \ {0} /\ Cap(d, amount) <= amount - Spare(d)'
    BY <1>4, <1>5, <2>1, <2>2, <2>3
  <2>5. CapIsTrue(d)'
    BY <1>2, <1>3, <2>4 DEF CapIsTrue, Ask, Paid
  <2>6. Verdict(d, amount) \in {"approve", "hold"}
    BY <1>6 DEF Verdict
  <2> QED
    BY <1>1, <1>2, <1>3, <2>5, <2>6 DEF CaseIsTrue, Matches, Direct, OnBsc, Underived, Ask, Paid
<1>7. CASE Verdict(d, amount) = "reject"
  <2>1. \/ Direct(d) /\ FromUs(d)
        \/ ~Direct(d) /\ Ask[d].to \notin Plain \cup Accounts
        \/ Ask[d].to \in Accounts /\ Cap(d, amount) < 1
    BY <1>7 DEF Verdict
  <2>2. Ask[d].to \in Accounts /\ Cap(d, amount) < 1 => amount <= ActivateMax + TransferMax
    BY <1>4 DEF Cap, HoldFor
  <2>3. Ask[d].tx = NoTransfer \/ Ask[d].tx = vcur.tx
    BY <1>1 DEF VerifierInv, RowsAreAsked
  <2>4. Reason(d)
    BY <2>1, <2>2, <2>3 DEF Reason
  <2>5. vpc' = "reject" /\ vcur'.of = d /\ ts' = ts /\ entered' = entered
    BY <1>2, <1>3, <1>7
  <2>6. Reason(d)'
    BY <2>4, <2>5, <1>1, ReasonStays
  <2> QED
    BY <1>1, <2>5, <2>6 DEF CaseIsTrue
<1> QED
  BY <1>6, <1>7

\* What is in hand stays true.
LEMMA CaseStep ==
  ASSUME VerifierInv, VerifierStep
  PROVE  CaseIsTrue'
<1> USE DEF VerifierInv
<1>1. ASSUME Judge PROVE CaseIsTrue'
  BY <1>1, VerdictIsTrue
<1>2. ASSUME ClaimTransfer PROVE CaseIsTrue'
  <2>1. /\ vcur.of \in Deposits /\ ts[vcur.of] # "none" /\ entered[vcur.of] = 0
        /\ claim[vcur.of] = NoTransfer /\ vcur.tx \in Transfers /\ vcur.tx \in seen
        /\ Matches(vcur.of, vcur.tx) /\ ~Underived(vcur.of)
    BY <1>2 DEF ClaimTransfer, CaseIsTrue
  <2>2. UNCHANGED <<ts, entered, scene, seen, vcur>>
    BY <1>2 DEF ClaimTransfer, worldVars
  <2>3. vpc' = "reject" \/ (vpc' = "judge" /\ claim'[vcur.of] = vcur.tx)
    BY <1>2, <2>1 DEF ClaimTransfer, VerifierTypeOK
  <2>4. Reason(vcur.of)
    BY <2>1 DEF Reason, RowsAreAsked
  <2>5. Reason(vcur.of)'
    BY <2>1, <2>2, <2>4, ReasonStays
  <2>6. /\ Matches(vcur.of, vcur.tx)' /\ ~Underived(vcur.of)' /\ vcur' = vcur
        /\ ts'[vcur.of] # "none" /\ entered'[vcur.of] = 0 /\ vcur.tx \in seen'
    BY <2>1, <2>2 DEF Matches, Direct, OnBsc, Underived, Ask, Paid
  <2> QED
    BY <2>1, <2>3, <2>5, <2>6 DEF CaseIsTrue
<1>3. ASSUME NEW d \in Deposits, EvidenceMismatches(d) PROVE CaseIsTrue'
  <2>1. vcur' = [of |-> d, tx |-> NoTransfer, cap |-> Uncapped] /\ vpc' \in {"reject"} /\ ts[d] = "created"
        /\ UNCHANGED <<ts, claim, entered, scene, seen>>
    BY <1>3 DEF EvidenceMismatches, Take, rowVars, worldVars
  <2>2. Reason(d)'
    <3>1. Reason(d)
      BY <1>3, <2>1, SceneTypes DEF EvidenceMismatches, HardMismatch, Underived, Reason, RowsAreAsked
    <3> QED
      BY <3>1, ReasonStays
  <2> QED
    BY <1>3, <2>1, <2>2 DEF CaseIsTrue, RowsAreAsked, Matches, Direct, OnBsc, Underived, Ask, Paid
<1>4. ASSUME NEW d \in Deposits, NEW t \in Transfers, EvidencePasses(d, t) PROVE CaseIsTrue'
  <2>1. vcur' = [of |-> d, tx |-> t, cap |-> Uncapped] /\ vpc' \in {"claim", "judge"} /\ ts[d] = "created"
        /\ UNCHANGED <<ts, claim, entered, scene, seen>>
    BY <1>4 DEF EvidencePasses, Take, rowVars, worldVars
  <2>2. /\ t \in Transfers /\ t \in seen /\ Matches(d, t) /\ ~Underived(d)
        /\ vpc' = "claim" => claim[d] = NoTransfer
        /\ vpc' = "judge" => claim[d] = t
    BY <1>4, VerifierAssumption, NoneAssumption DEF EvidencePasses, Passes, Found, Take
  <2> QED
    BY <1>4, <2>1, <2>2 DEF CaseIsTrue, RowsAreAsked, Matches, Direct, OnBsc, Underived, Ask, Paid
<1>5. ASSUME NEW d \in Deposits, Created(d) PROVE CaseIsTrue'
  <2>1. UNCHANGED <<passVars, entered, full, worldVars>> /\ \A e \in Deposits : ts[e] # "none" => claim'[e] = claim[e]
    BY <1>5 DEF Created, Creates, historyVars, VerifierTypeOK, rowVars
  <2> SUFFICES ASSUME vpc # "idle" PROVE CaseIsTrue'
    BY <2>1 DEF CaseIsTrue, passVars
  <2>2. vcur.of \in Deposits /\ ts[vcur.of] # "none" /\ vcur' = vcur /\ vpc' = vpc /\ ts'[vcur.of] # "none"
    BY <2>1, SceneStays DEF CaseIsTrue, passVars
  <2>3. CapIsTrue(vcur.of) => CapIsTrue(vcur.of)'
    BY <2>1, <2>2 DEF CapIsTrue, Spare, Ask, Paid, worldVars
  <2>4. Reason(vcur.of) => Reason(vcur.of)'
    BY <2>2, ReasonStays
  <2> QED
    BY <2>1, <2>2, <2>3, <2>4 DEF CaseIsTrue, Matches, Direct, OnBsc, Underived, Ask, Paid, worldVars
<1>6. ASSUME \/ ApproveWrite \/ HoldWrite \/ RejectWrite \/ VerifierFails
     PROVE  CaseIsTrue'
  BY <1>6 DEF ApproveWrite, HoldWrite, RejectWrite, VerifierFails, Done, CaseIsTrue
<1>7. ASSUME NEW t \in Transfers,
            \/ Settles(t) \/ Ages(t)
     PROVE  CaseIsTrue'
  BY <1>7, CaseStays DEF Settles, Ages, rowVars, historyVars
<1>8. ASSUME NEW a \in Accounts, FirstSweep(a) PROVE CaseIsTrue'
  BY <1>8, CaseStays DEF FirstSweep, rowVars, historyVars
<1>9. ASSUME NEW d \in Deposits,
            \/ HumanApproves(d) \/ Outbox(d) \/ OutboxRefuses(d)
     PROVE  CaseIsTrue'
  BY <1>9, CaseStays DEF HumanApproves, Outbox, OutboxRefuses, rowVars, historyVars
<1>10. CASE UNCHANGED verifierVars
  BY CaseStays, <1>10 DEF verifierVars, rowVars, historyVars
<1> HIDE DEF VerifierInv
<1> QED
  BY <1>1, <1>2, <1>3, <1>4, <1>5, <1>6, <1>7, <1>8, <1>9, <1>10
     DEF VerifierStep, Treasury, VerifierSteps, World, Evaluate

\* What is in hand is a record of its three fields.
LEMMA CaseTyped ==
  ASSUME VerifierInv, VerifierStep
  PROVE  CaseIsTyped'
<1> USE DEF CaseIsTyped
<1>1. ASSUME Judge PROVE CaseIsTyped'
  BY <1>1 DEF Judge, VerifierInv
<1>2. ASSUME ClaimTransfer PROVE CaseIsTyped'
  BY <1>2 DEF ClaimTransfer, VerifierInv
<1>3. ASSUME \/ ApproveWrite \/ HoldWrite \/ RejectWrite \/ VerifierFails
      PROVE  CaseIsTyped'
  <2>1. vcur' = NoCase
    BY <1>3 DEF ApproveWrite, HoldWrite, RejectWrite, VerifierFails, Done
  <2> QED
    BY <2>1 DEF NoCase
<1>4. ASSUME NEW d \in Deposits, NEW t, NEW stage, Take(d, stage, t) PROVE CaseIsTyped'
  BY <1>4 DEF Take
<1>5. ASSUME NEW d \in Deposits, Evaluate(d) PROVE CaseIsTyped'
  BY <1>4, <1>5 DEF Evaluate, EvidenceMismatches, EvidencePasses
<1>6. ASSUME UNCHANGED passVars PROVE CaseIsTyped'
  BY <1>6 DEF passVars, VerifierInv
<1>7. ASSUME World PROVE UNCHANGED passVars
  BY <1>7 DEF World, Settles, Ages, FirstSweep
<1>8. ASSUME NEW d \in Deposits, HumanApproves(d) \/ Outbox(d) \/ OutboxRefuses(d) \/ Created(d)
      PROVE  UNCHANGED passVars
  BY <1>8 DEF HumanApproves, Outbox, OutboxRefuses, Created
<1> HIDE DEF CaseIsTyped
<1> QED
  BY <1>1, <1>2, <1>3, <1>5, <1>6, <1>7, <1>8
     DEF VerifierStep, Treasury, VerifierSteps, verifierVars

\* A row that was entered is left as it is; it is entered once, by the two writes; and
\* what is authorised or rejected was entered or has its reason.
Kept(d) ==
  /\ entered[d] # 0 =>
       /\ claim'[d] = claim[d] /\ clt'[d] = clt[d] /\ fee'[d] = fee[d]
       /\ d \in full' <=> d \in full
  /\ \/ entered'[d] = entered[d]
     \/ (ApproveWrite \/ HoldWrite) /\ vcur.of = d /\ ts[d] = "created" /\ entered'[d] # 0
  /\ d \in authorised' \ forced' => d \in authorised \ forced \/ entered'[d] # 0
  /\ ts'[d] = "rejected" => ts[d] = "rejected" \/ Reason(d)

LEMMA RowsAreKept ==
  ASSUME VerifierInv, VerifierStep, NEW d \in Deposits
  PROVE  Kept(d)
<1> USE DEF Kept, rowVars, worldVars, passVars, historyVars
<1>1. ASSUME ClaimTransfer PROVE Kept(d)
  <2>1. vcur.of \in Deposits /\ entered[vcur.of] = 0
    BY <1>1 DEF ClaimTransfer, VerifierInv, CaseIsTrue
  <2> QED
    BY <1>1, <2>1 DEF ClaimTransfer, VerifierInv, VerifierTypeOK
<1>2. ASSUME Judge PROVE Kept(d)
  <2>1. vcur.of \in Deposits /\ entered[vcur.of] = 0
    BY <1>2 DEF Judge, VerifierInv, CaseIsTrue
  <2>2. full' \in {full \cup {vcur.of}, full \ {vcur.of}} /\ UNCHANGED <<rowVars, authorised, forced>>
    BY <1>2 DEF Judge
  <2> QED
    BY <2>1, <2>2
<1>3. ASSUME ApproveWrite PROVE Kept(d)
  <2>1. vcur.of \in Deposits /\ Paid[vcur.tx].amount \in Nat \ {0} /\ entered[vcur.of] = 0
    BY <1>3, MintedIsCovered DEF ApproveWrite, VerifierInv, CaseIsTrue
  <2>2. CASE ts[vcur.of] # "created"
    BY <1>3, <2>2 DEF ApproveWrite
  <2>3. CASE ts[vcur.of] = "created" /\ d = vcur.of
    BY <1>3, <2>1, <2>3 DEF ApproveWrite, VerifierInv, VerifierTypeOK
  <2>4. CASE ts[vcur.of] = "created" /\ d # vcur.of
    BY <1>3, <2>1, <2>4 DEF ApproveWrite, VerifierInv, VerifierTypeOK
  <2> QED
    BY <2>2, <2>3, <2>4
<1>4. ASSUME HoldWrite PROVE Kept(d)
  <2>1. vcur.of \in Deposits /\ Paid[vcur.tx].amount \in Nat \ {0} /\ entered[vcur.of] = 0
    BY <1>4, MintedIsCovered DEF HoldWrite, VerifierInv, CaseIsTrue
  <2>2. CASE ts[vcur.of] # "created"
    BY <1>4, <2>2 DEF HoldWrite
  <2>3. CASE ts[vcur.of] = "created" /\ d = vcur.of
    BY <1>4, <2>1, <2>3 DEF HoldWrite, VerifierInv, VerifierTypeOK
  <2>4. CASE ts[vcur.of] = "created" /\ d # vcur.of
    BY <1>4, <2>1, <2>4 DEF HoldWrite, VerifierInv, VerifierTypeOK
  <2> QED
    BY <2>2, <2>3, <2>4
<1>5. ASSUME RejectWrite PROVE Kept(d)
  <2>1. vcur.of \in Deposits /\ Reason(vcur.of)
    BY <1>5 DEF RejectWrite, VerifierInv, CaseIsTrue
  <2>2. UNCHANGED <<claim, clt, fee, entered, full, authorised, forced>>
    BY <1>5 DEF RejectWrite
  <2>3. ts'[d] = ts[d] \/ d = vcur.of
    BY <1>5, <2>1 DEF RejectWrite, VerifierInv, VerifierTypeOK
  <2> QED
    BY <2>1, <2>2, <2>3
<1>6. ASSUME NEW e \in Deposits, HumanApproves(e) PROVE Kept(d)
  BY <1>6 DEF HumanApproves, VerifierInv, VerifierTypeOK
<1>7. ASSUME NEW e \in Deposits, Outbox(e) \/ OutboxRefuses(e) PROVE Kept(d)
  BY <1>7 DEF Outbox, OutboxRefuses, VerifierInv, VerifierTypeOK
<1>8. ASSUME NEW e \in Deposits, Created(e) PROVE Kept(d)
  <2>1. UNCHANGED <<full, authorised, forced, entered, fee>>
    BY <1>8, CreatedRow DEF Created, VerifierInv
  <2>2. d # e => UNCHANGED <<ts[d], claim[d], clt[d]>>
    BY <1>8, CreatedRow DEF VerifierInv, VerifierTypeOK
  <2>3. d = e => \/ UNCHANGED <<ts, claim, clt>>
                 \/ entered[d] = 0 /\ ts'[d] = "created"
    BY <1>8, CreatedRow DEF VerifierInv, VerifierTypeOK, RowsAreAsked
  <2> QED
    BY <2>1, <2>2, <2>3
<1>9. ASSUME UNCHANGED <<rowVars, historyVars>> PROVE Kept(d)
  BY <1>9
<1>10. ASSUME VerifierFails PROVE UNCHANGED <<rowVars, historyVars>>
  BY <1>10 DEF VerifierFails
<1>11. ASSUME NEW e \in Deposits, Evaluate(e) PROVE UNCHANGED <<rowVars, historyVars>>
  BY <1>11 DEF Evaluate, EvidenceMismatches, EvidencePasses, Take
<1>12. ASSUME World PROVE UNCHANGED <<rowVars, historyVars>>
  BY <1>12 DEF World, Settles, Ages, FirstSweep
<1> HIDE DEF Kept, rowVars, worldVars, passVars, historyVars
<1> QED
  BY <1>1, <1>2, <1>3, <1>4, <1>5, <1>6, <1>7, <1>8, <1>9, <1>10, <1>11, <1>12
     DEF VerifierStep, Treasury, VerifierSteps, verifierVars

\* What was entered is backed: when it is written, by what was in hand, and for good.
LEMMA EnteredStep ==
  ASSUME VerifierInv, VerifierStep
  PROVE  EnteredIsBacked'
<1> SUFFICES ASSUME NEW d \in Deposits, entered'[d] # 0
             PROVE  Backed(d)'
  BY DEF EnteredIsBacked
<1>1. CASE entered[d] # 0
  <2>1. /\ claim'[d] = claim[d] /\ clt'[d] = clt[d] /\ fee'[d] = fee[d]
        /\ d \in full' <=> d \in full
    BY <1>1, RowsAreKept DEF Kept
  <2>2. Backed(d)
    BY <1>1 DEF VerifierInv, EnteredIsBacked
  <2> QED
    BY <2>1, <2>2, SceneStays DEF Backed, Matches, Direct, Spare, Ask, Paid
<1>2. CASE entered[d] = 0
  <2>1. (ApproveWrite \/ HoldWrite) /\ vcur.of = d /\ ts[d] = "created"
    BY <1>2, RowsAreKept DEF Kept
  <2>2. /\ vpc \in {"approve", "hold"} /\ claim[d] = vcur.tx /\ vcur.tx \in seen
        /\ Matches(d, vcur.tx) /\ fee[d] = 0
    BY <1>2, <2>1 DEF ApproveWrite, HoldWrite, VerifierInv, CaseIsTrue, RowsAreAsked
  <2> DEFINE m == Capped(clt[d])
  <2>3. m \in Nat \ {0} /\ Paid[vcur.tx].amount \in Nat /\ m <= Paid[vcur.tx].amount - Spare(d)
    BY <2>1, <2>2, MintedIsCovered
  <2>4. UNCHANGED <<claim, full, scene, seen>>
    BY <2>1 DEF ApproveWrite, HoldWrite, worldVars, historyVars
  <2>5. clt'[d] >= 1 /\ clt'[d] + fee'[d] = m
    <3>1. CASE ApproveWrite
      <4> DEFINE split == IF HasEarlier(d) THEN service_fee(m) ELSE 0
      <4>1. split \in Nat /\ split < m
        BY <2>3, FeeIsLess
      <4>2. clt'[d] = m - split /\ fee'[d] = split
        BY <3>1, <2>1 DEF ApproveWrite, VerifierInv, VerifierTypeOK
      <4> HIDE DEF split, m
      <4> QED
        BY <2>3, <4>1, <4>2
    <3>2. CASE HoldWrite
      <4>1. clt'[d] = m /\ fee'[d] = 0
        BY <3>2, <2>1, <2>2 DEF HoldWrite, VerifierInv, VerifierTypeOK
      <4> HIDE DEF m
      <4> QED
        BY <2>3, <4>1
    <3> QED
      BY <2>1, <3>1, <3>2
  <2>6. Spare(d)' = Spare(d) /\ Paid' = Paid /\ claim'[d] = vcur.tx
    BY <2>2, <2>4 DEF Spare, Ask, Paid
  <2>7. Matches(d, claim[d])' /\ claim'[d] \in seen'
    BY <2>2, <2>4 DEF Matches, Direct, Ask, Paid
  <2> HIDE DEF m
  <2> QED
    BY <2>3, <2>5, <2>6, <2>7 DEF Backed
<1> QED
  BY <1>1, <1>2

\* What is decided stays decided rightly.
LEMMA DecidedStep ==
  ASSUME VerifierInv, VerifierStep
  PROVE  DecidedRightly'
<1>1. ASSUME NEW d \in authorised' \ forced' PROVE entered'[d] # 0
  <2>1. d \in Deposits
    BY VerifierTypes DEF VerifierTypeOK
  <2> QED
    BY <1>1, <2>1, RowsAreKept DEF Kept, VerifierInv, DecidedRightly
<1>2. ASSUME NEW d \in Deposits, ts'[d] = "rejected" PROVE Reason(d)'
  BY <1>2, RowsAreKept, ReasonStays DEF Kept, VerifierInv, DecidedRightly
<1> QED
  BY <1>1, <1>2 DEF DecidedRightly

LEMMA VerifierInvStep ==
  ASSUME VerifierInv, VerifierStep
  PROVE  VerifierInv'
BY VerifierTypes, CaseTyped, ClaimsStep, RowsStep, CaseStep, EnteredStep, DecidedStep DEF VerifierInv

-----------------------------------------------------------------------------
(* The bridge's side.                                                      *)

\* Whatever the bridge does, the treasury's side makes a step of its own, or none.
LEMMA BridgeStepIsVerifierStep ==
  ASSUME BridgeInv, [Next]_vars
  PROVE  VerifierStep
<1>1. troubles \in 0..MaxTroubles /\ MaxTroubles \in Nat
  BY VerifierAssumption DEF BridgeInv, VerifierInv, VerifierTypeOK
<1>2. Trouble => troubles' \in 0..MaxTroubles
  BY <1>1 DEF Trouble
<1>3. CASE Treasury
  <2>1. troubles' = troubles \/ Trouble
    BY <1>3 DEF Treasury, VerifierSteps, ClaimTransfer, Judge, ApproveWrite, HoldWrite, RejectWrite,
                VerifierFails, World, Settles, Ages, FirstSweep, Evaluate, EvidenceMismatches,
                EvidencePasses, Take, HumanApproves, Outbox, OutboxRefuses
  <2> QED
    BY <1>1, <1>2, <1>3, <2>1 DEF VerifierStep
<1>4. CASE BridgeSteps
  BY <1>1, <1>4
     DEF BridgeSteps, StoreId, MintRequested, OnCredited, OnRefused, StillInFlight, VerifierStep
<1>5. CASE StoreFails \/ WriteFails \/ Crash
  BY <1>2, <1>5 DEF StoreFails, WriteFails, Crash, VerifierStep
<1>6. ASSUME NEW d \in Deposits, CreateReplyLost(d) \/ Unreachable(d) PROVE VerifierStep
  BY <1>2, <1>6 DEF CreateReplyLost, Unreachable, VerifierStep, Created
<1>7. ASSUME NEW d \in Deposits, CreateAnswered(d) PROVE VerifierStep
  BY <1>1, <1>7 DEF CreateAnswered, VerifierStep, Created
<1>8. ASSUME NEW d \in Deposits, CreateConflicts(d) \/ PollAnswered(d) \/ FallsDue(d)
      PROVE  VerifierStep
  BY <1>1, <1>8 DEF CreateConflicts, PollAnswered, FallsDue, VerifierStep
<1>9. CASE UNCHANGED vars
  BY <1>1, <1>9 DEF vars, VerifierStep
<1> QED
  BY <1>3, <1>4, <1>5, <1>6, <1>7, <1>8, <1>9 DEF Next, BridgeFails

\* The bridge's own variables, apart from the treasury's.
BridgeTypeOK ==
  /\ status \in [Deposits -> {"confirmed", "mint_requested", "needs_manual", "credited"}]
  /\ linked \subseteq Deposits /\ waits \subseteq Deposits
  /\ \A d \in Deposits : status[d] # "confirmed" => d \in linked /\ ts[d] # "none"
  /\ bpc \in {"idle", "store", "request", "react"}
  /\ bpc # "idle" <=> bcur # NoTransfer
  /\ bsaw \in Statuses

\* It stays typed, and the intent in its hand stays one that the treasury has.
LEMMA BridgeOwnStep ==
  ASSUME BridgeInv, [Next]_vars
  PROVE  BridgeTypeOK' /\ BridgeKnows'
<1> DEFINE Goal == BridgeTypeOK' /\ BridgeKnows'
<1> SUFFICES Goal
  OBVIOUS
<1>0. /\ \A d \in Deposits : ts[d] # "none" => ts'[d] # "none"
      /\ ts \in [Deposits -> Statuses] /\ NoTransfer \notin Deposits /\ "none" \in Statuses
      /\ BridgeTypeOK /\ BridgeKnows
  <2>1. \A d \in Deposits : ts[d] # "none" => ts'[d] # "none"
    BY BridgeStepIsVerifierStep, SceneStays DEF BridgeInv
  <2>2. ts \in [Deposits -> Statuses] /\ BridgeTypeOK /\ BridgeKnows
    BY DEF BridgeInv, VerifierInv, VerifierTypeOK, TypeOK, BridgeTypeOK
  <2> QED
    BY <2>1, <2>2, NoneIsApart DEF Statuses
<1> USE <1>0 DEF BridgeTypeOK, BridgeKnows, GoOn, depositVars, bridgeVars
<1>1. CASE Treasury /\ UNCHANGED <<depositVars, bridgeVars>>
  BY <1>1
<1>2. CASE StoreId
  BY <1>2 DEF StoreId
<1>3. CASE MintRequested
  BY <1>3 DEF MintRequested, Transition
<1>4. CASE OnCredited
  BY <1>4 DEF OnCredited, Transition
<1>5. CASE OnRefused
  BY <1>5 DEF OnRefused, Transition
<1>6. CASE StillInFlight \/ WriteFails \/ Crash
  BY <1>6 DEF StillInFlight, WriteFails, Crash
<1>7. CASE StoreFails
  BY <1>7 DEF StoreFails, Backoff
<1>8. ASSUME NEW d \in Deposits, CreateReplyLost(d) \/ Unreachable(d) \/ CreateConflicts(d)
      PROVE  Goal
  BY <1>8 DEF CreateReplyLost, Unreachable, CreateConflicts, Backoff
<1>9. ASSUME NEW d \in Deposits, CreateAnswered(d) PROVE Goal
  <2>1. ts'[d] # "none"
    BY <1>9 DEF CreateAnswered, Creates, rowVars
  <2> QED
    BY <1>9, <2>1 DEF CreateAnswered
<1>10. ASSUME NEW d \in Deposits, PollAnswered(d) PROVE Goal
  BY <1>10 DEF PollAnswered, DueForPoll, Due
<1>11. ASSUME NEW d \in Deposits, FallsDue(d) PROVE Goal
  BY <1>11 DEF FallsDue
<1>12. CASE UNCHANGED vars
  BY <1>12 DEF vars
<1> HIDE DEF Goal
<1> QED
  BY <1>1, <1>2, <1>3, <1>4, <1>5, <1>6, <1>7, <1>8, <1>9, <1>10, <1>11, <1>12
     DEF Next, BridgeSteps, BridgeFails

LEMMA BridgeInit == Init => BridgeInv
<1> SUFFICES ASSUME Init PROVE BridgeInv
  OBVIOUS
<1> USE DEF Init, VerifierInit
<1>1. VerifierTypeOK
  <2>1. 0 \in 0..MaxTroubles
    BY VerifierAssumption
  <2> QED
    BY <2>1 DEF VerifierTypeOK, Statuses
<1>2. CaseIsTyped
  BY DEF CaseIsTyped, NoCase
<1>3. ClaimsDiffer /\ RowsAreAsked /\ CaseIsTrue /\ EnteredIsBacked /\ DecidedRightly
  BY DEF ClaimsDiffer, RowsAreAsked, CaseIsTrue, EnteredIsBacked, DecidedRightly
<1>4. TypeOK /\ BridgeKnows
  BY <1>1 DEF TypeOK, BridgeKnows, Statuses
<1> QED
  BY <1>1, <1>2, <1>3, <1>4 DEF BridgeInv, VerifierInv

\* The strengthening is inductive: what the two services know of each other's rows stays
\* true through every step of either.
THEOREM BridgeInvHolds == Spec => []BridgeInv
<1>1. BridgeInv /\ [Next]_vars => BridgeInv'
  <2> SUFFICES ASSUME BridgeInv, [Next]_vars PROVE BridgeInv'
    OBVIOUS
  <2>1. VerifierInv'
    BY BridgeStepIsVerifierStep, VerifierInvStep DEF BridgeInv
  <2>2. BridgeTypeOK' /\ BridgeKnows'
    BY BridgeOwnStep
  <2> QED
    BY <2>1, <2>2 DEF BridgeInv, TypeOK, BridgeTypeOK, VerifierInv
<1> QED
  BY BridgeInit, <1>1, PTL DEF Spec

\* Every variable of the bridge and the verifier stays in its type, and a deposit is
\* marked as requested only when the treasury has its intent and its id is stored
\* (treasury_bridge.rs).
THEOREM TypeCorrect == Spec => []TypeOK
<1>1. BridgeInv => TypeOK
  BY DEF BridgeInv
<1> QED
  BY BridgeInvHolds, <1>1, PTL

\* No deposit whose own transfer is what it says is rejected, whatever fails and whoever
\* acts meanwhile (tron_verifier.rs:7-12).
THEOREM RejectedHadReason == Spec => []RejectedOnEvidence
<1>1. BridgeInv => RejectedOnEvidence
  BY DEF BridgeInv, VerifierInv, DecidedRightly, Reason, RejectedOnEvidence
<1> QED
  BY BridgeInvHolds, <1>1, PTL

\* Every deposit authorised on evidence has a final transfer of its own that pays the
\* mint, the operator's fee and the sweep, and leaves the user something
\* (tron_verifier.rs, gasfree_rail.rs, service_fee.rs).
THEOREM DepositsAreBacked == Spec => []EachIsBacked
<1>1. BridgeInv => EachIsBacked
  <2> SUFFICES ASSUME BridgeInv PROVE EachIsBacked
    OBVIOUS
  <2>1. \A d \in authorised \ forced : d \in Deposits /\ Backed(d)
    BY DEF BridgeInv, VerifierInv, VerifierTypeOK, DecidedRightly, EnteredIsBacked
  <2>2. NoTransfer \notin seen
    BY NoneAssumption DEF BridgeInv, VerifierInv, VerifierTypeOK
  <2> QED
    BY <2>1, <2>2 DEF EachIsBacked, Backed, BridgeInv, VerifierInv, ClaimsDiffer
<1> QED
  BY BridgeInvHolds, <1>1, PTL

\* And so is their sum, since no transfer is counted for two of them: all that was ever
\* authorised on evidence, the operator's share included, is no more than what arrived.
THEOREM MintedStaysBacked == Spec => []MintedIsBacked
<1>1. BridgeInv => MintedIsBacked
  <2> SUFFICES ASSUME BridgeInv PROVE MintedIsBacked
    OBVIOUS
  <2> DEFINE D == authorised \ forced
             T == {claim[d] : d \in D}
             f == [d \in Deposits |-> clt[d] + fee[d]]
             g == [t \in Transfers |-> Paid[t].amount]
             c == [d \in D |-> claim[d]]
  <2>1. \A d \in D : d \in Deposits /\ Backed(d)
    BY DEF BridgeInv, VerifierInv, VerifierTypeOK, DecidedRightly, EnteredIsBacked
  <2>2. seen \subseteq Transfers /\ D \subseteq Deposits
    BY <2>1 DEF BridgeInv, VerifierInv, VerifierTypeOK
  <2>3. T \subseteq Transfers /\ c \in [D -> T]
    BY <2>1, <2>2 DEF Backed
  <2>4. IsFiniteSet(D) /\ IsFiniteSet(T)
    BY <2>2, <2>3, FinitelyMany, FS_Subset
  <2>5. \A d, e \in D : c[d] = c[e] => d = e
    <3>1. NoTransfer \notin T
      BY <2>3, NoneAssumption
    <3> QED
      BY <2>1, <3>1 DEF BridgeInv, VerifierInv, ClaimsDiffer
  <2>6. \A t \in T : g[t] \in Nat
    BY <2>3, SceneTypes DEF BridgeInv, VerifierInv
  <2>7. \A d \in D : f[d] \in Nat /\ f[d] =< g[c[d]]
    <3> SUFFICES ASSUME NEW d \in D PROVE f[d] \in Nat /\ f[d] =< g[c[d]]
      OBVIOUS
    <3>1. Spare(d) \in Nat /\ g[c[d]] = Paid[claim[d]].amount /\ g[c[d]] \in Nat
      BY <2>1, <2>3, <2>6, SceneTypes DEF BridgeInv, VerifierInv
    <3>2. clt[d] \in Nat /\ fee[d] \in Nat /\ f[d] = clt[d] + fee[d]
      BY <2>1 DEF BridgeInv, VerifierInv, VerifierTypeOK
    <3>3. clt[d] + fee[d] =< Paid[claim[d]].amount - Spare(d)
      BY <2>1 DEF Backed
    <3> HIDE DEF D, T, f, g, c
    <3> QED
      BY <3>1, <3>2, <3>3
  <2> HIDE DEF D, T, f, g, c
  <2>8. SumOver(f, D) =< SumOver(g, T)
    BY <2>3, <2>4, <2>5, <2>6, <2>7, SumInjected
  <2>9. Total(D) =< Arrived(T)
    BY <2>8 DEF Total, Arrived, f, g
  <2> QED
    BY <2>1, <2>9 DEF MintedIsBacked, Backed, D, T
<1> QED
  BY BridgeInvHolds, <1>1, PTL

=============================================================================
