------------------------- MODULE DepositIntakeProofs -------------------------
(***************************************************************************)
(* What is proved of the ways in which payments to the users are found.    *)
(*                                                                         *)
(* Of DepositIntake, for any number of requests, transfers, payments,      *)
(* intents and failures: its types; that every address handed out is the   *)
(* one stored and watched for its user; that whatever is credited is       *)
(* rightly credited; and that no payment is lost.                          *)
(*                                                                         *)
(* Each of the four has an invariant of its own, since no behaviour moves  *)
(* two of them, and the invariants have one shape: a pass has read all     *)
(* that its last write will take from the passes after it, and each thing  *)
(* it read is still at hand or settled (DirectReadInFull, BscReadInFull,   *)
(* LegacyDealtWith).  What nobody settled is therefore never left behind.  *)
(*                                                                         *)
(* Of DepositPoller, for any addresses, transfers, budget and times with   *)
(* ListingLag + PassLife <= ReadOverlap: its types, and that reading skips *)
(* no deposit.                                                             *)
(***************************************************************************)
EXTENDS DepositIntake, DepositPoller, TLAPS

(***************************************************************************)
(* The addresses of the users                                              *)
(***************************************************************************)

\* The indices: of one request each, none before it is allocated.
IndicesAreOwn ==
  /\ \A r \in Requests : apc[r] \in {"new", "allocate"} => index[r] = 0
  /\ \A r \in Requests : apc[r] = "insert" => index[r] # 0
  /\ \A r, q \in Requests : index[r] = index[q] => r = q \/ index[r] = 0

\* A row is the index of a request of its user, and there once one has inserted.
RowsAreAllocated ==
  \A u \in Askers :
    row[u] # 0 => \E r \in Requests : Asker[r] = u /\ index[r] = row[u] /\ apc[r] \in {"reread", "done"}

\* What was handed out is the row.
AnswersAreRows == \A r \in Requests : answer[r] \in {0, row[Asker[r]]}

AddressInv == AddressTypeOK /\ IndicesAreOwn /\ RowsAreAllocated /\ AnswersAreRows

\* Every step of a request keeps the invariant.
LEMMA AddressStep == ASSUME AddressInv, [AddressNext]_addressVars PROVE AddressInv'
<1> SUFFICES ASSUME NEW r \in Requests,
                    LookUp(r) \/ Allocate(r) \/ Insert(r) \/ ReRead(r) \/ RequestFails(r)
             PROVE  AddressInv'
  <2>1. CASE UNCHANGED addressVars
    BY <2>1 DEF addressVars, AddressInv, AddressTypeOK, IndicesAreOwn, RowsAreAllocated,
       AnswersAreRows
  <2> QED
    BY <2>1 DEF AddressNext
<1>0. LookUp(r) \/ Allocate(r) \/ Insert(r) \/ ReRead(r) \/ RequestFails(r)
  OBVIOUS
<1> USE DEF AddressInv, AddressTypeOK
<1>u. Asker[r] \in Askers
  BY DEF Askers
<1>1. CASE LookUp(r)
  <2>1. AddressTypeOK'
    BY <1>1, <1>u DEF LookUp, At
  <2>2. IndicesAreOwn'
    BY <1>1 DEF LookUp, At, IndicesAreOwn
  <2>3. RowsAreAllocated'
    BY <1>1 DEF LookUp, At, RowsAreAllocated
  <2>4. AnswersAreRows'
    BY <1>1 DEF LookUp, AnswersAreRows
  <2> QED
    BY <2>1, <2>2, <2>3, <2>4
<1>2. CASE Allocate(r)
  <2>1. AddressTypeOK'
    BY <1>2 DEF Allocate, At
  <2>2. IndicesAreOwn'
    BY <1>2 DEF Allocate, At, IndicesAreOwn
  <2>3. RowsAreAllocated'
    BY <1>2 DEF Allocate, At, RowsAreAllocated
  <2>4. AnswersAreRows'
    BY <1>2 DEF Allocate, AnswersAreRows
  <2> QED
    BY <2>1, <2>2, <2>3, <2>4
<1>3. CASE Insert(r)
  <2>1. AddressTypeOK'
    BY <1>3, <1>u DEF Insert, At
  <2>2. IndicesAreOwn'
    BY <1>3 DEF Insert, At, IndicesAreOwn
  <2>3. RowsAreAllocated'
    BY <1>3, <1>u DEF Insert, At, RowsAreAllocated, IndicesAreOwn
  <2>4. AnswersAreRows'
    BY <1>3, <1>u DEF Insert, AnswersAreRows, Askers
  <2> QED
    BY <2>1, <2>2, <2>3, <2>4
<1>4. CASE ReRead(r)
  <2>1. AddressTypeOK'
    BY <1>4, <1>u DEF ReRead, At
  <2>2. IndicesAreOwn'
    BY <1>4 DEF ReRead, At, IndicesAreOwn
  <2>3. RowsAreAllocated'
    BY <1>4 DEF ReRead, At, RowsAreAllocated
  <2>4. AnswersAreRows'
    BY <1>4 DEF ReRead, AnswersAreRows
  <2> QED
    BY <2>1, <2>2, <2>3, <2>4
<1>5. CASE RequestFails(r)
  <2>1. AddressTypeOK' /\ IndicesAreOwn' /\ AnswersAreRows'
    BY <1>5 DEF RequestFails, IndicesAreOwn, AnswersAreRows
  <2>2. RowsAreAllocated'
    BY <1>5 DEF RequestFails, RowsAreAllocated
  <2> QED
    BY <2>1, <2>2
<1> QED
  BY <1>0, <1>1, <1>2, <1>3, <1>4, <1>5

(***************************************************************************)
(* Top-ups on TRON                                                         *)
(***************************************************************************)

\* What the history of the pass speaks of are transfers.
DirectSets == shown \subseteq TopUps /\ topped \subseteq TopUps /\ unattributed \subseteq TopUps

\* TRON shows what landed in time.
ShownInTime == \A t \in TopUps \ shown : landedAt[t] = Never \/ now - landedAt[t] <= Lag

\* What the stamp of the pass would leave behind, the pass read: it is at hand, or was handled.
LeftBehind(t) ==
  /\ landedAt[t] # Never /\ landedAt[t] < readAt - Overlap
  /\ watermark = Never \/ landedAt[t] >= watermark - Overlap
DirectReadInFull ==
  dpc = "handle" => \A t \in TopUps : LeftBehind(t) => t \in batch \/ DirectSettled(t) \/ t \in mishandled

DirectInv == DirectTypeOK /\ DirectSets /\ DirectRightly /\ ShownInTime /\ DirectReadInFull

\* The clock and the chain keep the invariant: what lands now is not behind a pass that began.
LEMMA DirectChainStep ==
  ASSUME DirectInv, Tick \/ \E t \in TopUps : Land(t) \/ Show(t)
  PROVE  DirectInv'
<1> USE DirectAssumption DEF DirectInv, DirectTypeOK, DirectSets, Never
<1>1. CASE Tick
  <2>1. DirectTypeOK' /\ DirectSets'
    BY <1>1 DEF Tick, passVars, rowVars
  <2>2. DirectRightly' /\ DirectReadInFull'
    BY <1>1 DEF Tick, passVars, rowVars, DirectRightly, Asked, DirectReadInFull, LeftBehind, DirectSettled
  <2>3. ShownInTime'
    BY <1>1 DEF Tick, ShownInTime
  <2> QED
    BY <2>1, <2>2, <2>3
<1>2. ASSUME NEW t \in TopUps, Land(t) PROVE DirectInv'
  <2>1. DirectTypeOK' /\ DirectSets'
    BY <1>2 DEF Land, passVars, rowVars
  <2>2. DirectRightly'
    BY <1>2 DEF Land, rowVars, DirectRightly, Asked
  <2>3. ShownInTime'
    BY <1>2 DEF Land, ShownInTime
  <2>4. DirectReadInFull'
    BY <1>2 DEF Land, passVars, rowVars, DirectReadInFull, LeftBehind, DirectSettled
  <2> QED
    BY <2>1, <2>2, <2>3, <2>4
<1>3. ASSUME NEW t \in TopUps, Show(t) PROVE DirectInv'
  <2>1. DirectTypeOK' /\ DirectSets'
    BY <1>3 DEF Show, passVars, rowVars
  <2>2. DirectRightly' /\ DirectReadInFull'
    BY <1>3 DEF Show, passVars, rowVars, DirectRightly, Asked, DirectReadInFull, LeftBehind, DirectSettled
  <2>3. ShownInTime'
    BY <1>3 DEF Show, ShownInTime
  <2> QED
    BY <2>1, <2>2, <2>3
<1> QED
  BY <1>1, <1>2, <1>3

\* Every step of a pass keeps the invariant.
LEMMA DirectPassStep ==
  ASSUME DirectInv,
         BeginDirect \/ ReadPayIn \/ StampDirect \/ DirectPassFails \/
         \E t \in TopUps : Handle(t) \/ HandleFails(t)
  PROVE  DirectInv'
<1> USE DirectAssumption DEF DirectInv, DirectTypeOK, DirectSets, Never, chainVars, rowVars
<1>1. CASE BeginDirect
  <2>1. DirectTypeOK' /\ DirectSets'
    BY <1>1 DEF BeginDirect
  <2>2. DirectRightly' /\ ShownInTime' /\ DirectReadInFull'
    BY <1>1 DEF BeginDirect, DirectRightly, Asked, ShownInTime, DirectReadInFull
  <2> QED
    BY <2>1, <2>2
<1>2. CASE ReadPayIn
  <2>1. DirectTypeOK' /\ DirectSets'
    BY <1>2 DEF ReadPayIn
  <2>2. DirectRightly' /\ ShownInTime'
    BY <1>2 DEF ReadPayIn, DirectRightly, Asked, ShownInTime
  <2>3. DirectReadInFull'
    BY <1>2 DEF ReadPayIn, DirectReadInFull, LeftBehind, ShownInTime
  <2> QED
    BY <2>1, <2>2, <2>3
<1>3. CASE StampDirect
  <2>1. DirectTypeOK' /\ DirectSets'
    BY <1>3 DEF StampDirect
  <2>2. DirectRightly' /\ ShownInTime' /\ DirectReadInFull'
    BY <1>3 DEF StampDirect, DirectRightly, Asked, ShownInTime, DirectReadInFull
  <2> QED
    BY <2>1, <2>2
<1>4. CASE DirectPassFails
  <2>1. DirectTypeOK' /\ DirectSets'
    BY <1>4 DEF DirectPassFails, DirectTrouble
  <2>2. DirectRightly' /\ ShownInTime' /\ DirectReadInFull'
    BY <1>4 DEF DirectPassFails, DirectRightly, Asked, ShownInTime, DirectReadInFull
  <2> QED
    BY <2>1, <2>2
<1>5. ASSUME NEW t \in TopUps, Handle(t) PROVE DirectInv'
  <2>1. DirectTypeOK' /\ DirectSets'
    BY <1>5 DEF Handle
  <2>2. ShownInTime'
    BY <1>5 DEF Handle, ShownInTime
  <2>3. DirectRightly'
    BY <1>5 DEF Handle, DirectRightly, Asked
  <2>4. DirectSettled(t)'
    BY <1>5 DEF Handle, DirectSettled, Asked
  <2>5. DirectReadInFull'
    BY <1>5, <2>4 DEF Handle, DirectReadInFull, LeftBehind, DirectSettled
  <2> QED
    BY <2>1, <2>2, <2>3, <2>5
<1>6. ASSUME NEW t \in TopUps, HandleFails(t) PROVE DirectInv'
  <2>1. DirectTypeOK' /\ DirectSets'
    BY <1>6 DEF HandleFails, DirectTrouble
  <2>2. DirectRightly' /\ ShownInTime'
    BY <1>6 DEF HandleFails, DirectRightly, Asked, ShownInTime
  <2>3. DirectReadInFull'
    BY <1>6 DEF HandleFails, DirectReadInFull, LeftBehind, DirectSettled
  <2> QED
    BY <2>1, <2>2, <2>3
<1> QED
  BY <1>1, <1>2, <1>3, <1>4, <1>5, <1>6

\* So does a request to be credited, and with it every step.
LEMMA DirectStep == ASSUME DirectInv, [DirectNext]_directVars PROVE DirectInv'
<1> USE DEF DirectInv, DirectTypeOK, DirectSets
<1>1. ASSUME NEW u \in Payers, Register(u) PROVE DirectInv'
  <2>1. DirectTypeOK' /\ DirectSets'
    BY <1>1 DEF Register, chainVars, passVars, rowVars
  <2>2. DirectRightly'
    BY <1>1 DEF Register, chainVars, rowVars, DirectRightly, Asked, Never
  <2>3. ShownInTime' /\ DirectReadInFull'
    BY <1>1 DEF Register, chainVars, passVars, rowVars, ShownInTime, DirectReadInFull, LeftBehind, DirectSettled
  <2> QED
    BY <2>1, <2>2, <2>3
<1>2. CASE UNCHANGED directVars
  BY <1>2 DEF directVars, DirectRightly, Asked, ShownInTime, DirectReadInFull, LeftBehind, DirectSettled
<1>3. CASE Tick \/ \E t \in TopUps : Land(t) \/ Show(t)
  BY <1>3, DirectChainStep
<1>4. CASE BeginDirect \/ ReadPayIn \/ StampDirect \/ DirectPassFails \/
           \E t \in TopUps : Handle(t) \/ HandleFails(t)
  BY <1>4, DirectPassStep
<1> HIDE DEF DirectInv
<1> QED
  BY <1>1, <1>2, <1>3, <1>4 DEF DirectNext

\* Only the stamp leaves anything behind, and then a pass has read and handled it.
LEMMA DirectLosesNothing ==
  ASSUME DirectInv, [DirectNext]_directVars, NEW t \in TopUps, DirectBehind(t)', ~DirectBehind(t)
  PROVE  DirectSettled(t)' \/ t \in mishandled'
<1> USE DirectAssumption DEF DirectInv, DirectTypeOK, DirectSets, Never, DirectBehind
<1>1. CASE StampDirect
  BY <1>1 DEF StampDirect, chainVars, rowVars, DirectReadInFull, LeftBehind, DirectSettled
<1>2. ASSUME NEW s \in TopUps, Land(s) PROVE FALSE
  BY <1>2 DEF Land, passVars
<1>3. CASE UNCHANGED <<landedAt, watermark>>
  BY <1>3
<1>4. ASSUME NEW s \in TopUps, Show(s) \/ Handle(s) \/ HandleFails(s) PROVE UNCHANGED <<landedAt, watermark>>
  BY <1>4 DEF Show, Handle, HandleFails, chainVars, passVars
<1>5. ASSUME NEW u \in Payers, Register(u) PROVE UNCHANGED <<landedAt, watermark>>
  BY <1>5 DEF Register, chainVars, passVars
<1>6. Tick \/ BeginDirect \/ ReadPayIn \/ DirectPassFails \/ UNCHANGED directVars
        => UNCHANGED <<landedAt, watermark>>
  BY DEF Tick, BeginDirect, ReadPayIn, DirectPassFails, directVars, chainVars, passVars
<1> QED
  BY <1>1, <1>2, <1>3, <1>4, <1>5, <1>6 DEF DirectNext

(***************************************************************************)
(* Top-ups on BNB Smart Chain                                              *)
(***************************************************************************)

\* A payment on the chain, in the blocks that the pass reads.
InRange(p) == minedIn[p] # 0 /\ minedIn[p] \in from..to

\* Addresses on the chain were given out, and a transaction is in one block.
BscChainInv ==
  /\ \A p \in Payments :
       minedIn[p] # 0 => To[p] \in given \cup {PayIn} /\ (From[p] \in UserAddresses => From[p] \in given)
  /\ \A p, q \in Payments : Hash[p] = Hash[q] => minedIn[p] = minedIn[q]

\* A pass starts after the cursor and stays among the deep blocks.
BscPassInv ==
  /\ cursor = NoBlock <=> origin = NoBlock
  /\ bpc # "idle" => from <= Safe /\ to <= Safe /\ (cursor # NoBlock => from = cursor + 1)
  /\ bpc \in {"idle", "owners"} => unread = {}
  /\ \A p \in unread : InRange(p)
  /\ bpc = "payin" => \A p \in unread : To[p] = PayIn /\ From[p] \notin UserAddresses
  /\ bpc = "address" => \A p \in unread : To[p] \in UserAddresses

\* What was credited is deep; a payment to a user's address is reported only when another of
\* its transaction was credited, and credited only when one to the pay-in address is settled.
BscRowInv ==
  /\ \A p \in deposited : minedIn[p] <= Safe
  /\ \A p \in reported : To[p] # PayIn => Recorded(p)
  /\ \A q \in deposited : \A p \in Payments :
       To[q] # PayIn /\ To[p] = PayIn /\ Hash[p] = Hash[q] => BscSettled(p)

\* The range is read in full: first the payments to the pay-in address, then those to the users'.
BscReadInFull ==
  bpc \in {"payin", "address"} =>
    \A p \in Payments : InRange(p) =>
      /\ To[p] \in owners \cup {PayIn}
      /\ To[p] = PayIn => BscSettled(p) \/ (bpc = "payin" /\ p \in unread)
      /\ To[p] # PayIn /\ bpc = "address" => BscSettled(p) \/ p \in unread

BscInv == BscTypeOK /\ BscChainInv /\ BscPassInv /\ BscRowInv /\ BscReadInFull /\ BscRightly

\* A new block is above every pass; blocks that give way are above every pass and every credit.
LEMMA BscChainStep ==
  ASSUME BscInv, (\E S \in SUBSET Payments : NewBlock(S)) \/ \E p \in Payments : Reorg(p)
  PROVE  BscInv'
<1> USE BscAssumption DEF BscInv, BscTypeOK, NoBlock, bscPassVars, bscRowVars
<1>1. ASSUME NEW S \in SUBSET Payments, NewBlock(S) PROVE BscInv'
  <2>1. BscTypeOK'
    BY <1>1 DEF NewBlock
  <2>2. BscChainInv'
    BY <1>1 DEF NewBlock, BscChainInv, Together
  <2>3. BscPassInv'
    BY <1>1 DEF NewBlock, BscPassInv, InRange, Safe
  <2>4. BscRowInv'
    BY <1>1 DEF NewBlock, BscRowInv, Safe, Recorded, BscSettled, BscRightly
  <2>5. BscReadInFull'
    BY <1>1 DEF NewBlock, BscReadInFull, BscPassInv, InRange, BscSettled, Safe
  <2>6. BscRightly'
    BY <1>1 DEF NewBlock, BscRightly, Joined
  <2> QED
    BY <2>1, <2>2, <2>3, <2>4, <2>5, <2>6
<1>2. ASSUME NEW p \in Payments, Reorg(p) PROVE BscInv'
  <2>1. \A q \in Payments : minedIn'[q] = minedIn[q] \/ (minedIn'[q] = 0 /\ minedIn[q] > Safe)
    BY <1>2 DEF Reorg, BscChainInv, Together, Safe
  <2>2. BscTypeOK'
    BY <1>2 DEF Reorg
  <2>3. BscChainInv'
    BY <1>2 DEF Reorg, BscChainInv, Together
  <2>4. BscPassInv'
    BY <1>2, <2>1 DEF Reorg, BscPassInv, InRange, Safe
  <2>5. BscRowInv'
    BY <1>2, <2>1 DEF Reorg, BscRowInv, Safe, Recorded, BscSettled
  <2>6. BscReadInFull'
    BY <1>2, <2>1 DEF Reorg, BscReadInFull, BscPassInv, InRange, BscSettled, Safe
  <2>7. BscRightly'
    BY <1>2, <2>1 DEF Reorg, BscRightly, BscRowInv, Joined, Safe
  <2> QED
    BY <2>2, <2>3, <2>4, <2>5, <2>6, <2>7
<1> QED
  BY <1>1, <1>2

\* A pass begins above the cursor, and reads all there is in its range.
LEMMA BscReadStep == ASSUME BscInv, ReadHead \/ ReadOwners \/ ReadAddresses PROVE BscInv'
<1> USE BscAssumption DEF BscInv, BscTypeOK, NoBlock, bscChainVars, bscRowVars
<1>1. CASE ReadHead
  <2>1. from' \in Nat /\ to' \in 0..head /\ from' <= Safe /\ to' <= Safe /\ (cursor # NoBlock => from' = cursor + 1)
    BY <1>1 DEF ReadHead, Greater, Smaller, Safe
  <2>2. BscTypeOK'
    BY <1>1, <2>1 DEF ReadHead
  <2>3. BscChainInv' /\ BscReadInFull'
    BY <1>1 DEF ReadHead, BscChainInv, BscReadInFull
  <2>4. BscPassInv'
    BY <1>1, <2>1 DEF ReadHead, BscPassInv, Safe
  <2>5. BscRowInv' /\ BscRightly'
    BY <1>1 DEF ReadHead, BscRowInv, BscRightly, Safe, Recorded, BscSettled, Joined
  <2> QED
    BY <2>2, <2>3, <2>4, <2>5
<1>2. CASE ReadOwners
  <2>1. BscTypeOK' /\ BscChainInv'
    BY <1>2 DEF ReadOwners, BscChainInv, Read
  <2>2. BscPassInv'
    BY <1>2 DEF ReadOwners, BscPassInv, BscChainInv, InRange, Read, Safe
  <2>3. BscRowInv' /\ BscRightly'
    BY <1>2 DEF ReadOwners, BscRowInv, BscRightly, Safe, Recorded, BscSettled, Joined
  <2>4. BscReadInFull'
    BY <1>2 DEF ReadOwners, BscReadInFull, BscChainInv, InRange, Read, BscSettled
  <2> QED
    BY <2>1, <2>2, <2>3, <2>4
<1>3. CASE ReadAddresses
  <2>1. BscTypeOK' /\ BscChainInv'
    BY <1>3 DEF ReadAddresses, BscChainInv, Read
  <2>2. BscPassInv'
    BY <1>3 DEF ReadAddresses, BscPassInv, InRange, Read, Safe
  <2>3. BscRowInv' /\ BscRightly'
    BY <1>3 DEF ReadAddresses, BscRowInv, BscRightly, Safe, Recorded, BscSettled, Joined
  <2>4. BscReadInFull'
    BY <1>3 DEF ReadAddresses, BscReadInFull, InRange, Read, BscSettled
  <2> QED
    BY <2>1, <2>2, <2>3, <2>4
<1> QED
  BY <1>1, <1>2, <1>3

\* A payment to the pay-in address is settled when it was handled: the credit that its
\* transaction already has is of another payment, to a user's address, which came after it.
LEMMA HandleStep == ASSUME BscInv, NEW p \in Payments, HandlePayment(p) PROVE BscInv'
<1> USE BscAssumption DEF BscInv, BscTypeOK, NoBlock, bscChainVars, bscRowVars
<1>1. InRange(p) /\ To[p] = PayIn /\ From[p] \notin UserAddresses /\ minedIn[p] <= Safe
  BY DEF HandlePayment, BscPassInv, InRange, Safe
<1>2. deposited \subseteq deposited' /\ deposited' \subseteq deposited \cup {p}
  BY DEF HandlePayment
<1>3. reported \subseteq reported' /\ reported' \subseteq reported \cup {p}
  BY DEF HandlePayment
<1>4. BscSettled(p)'
  <2>1. CASE p \in TooSmall \cup reported \/ From[p] = PayIn
    BY <2>1, <1>1 DEF HandlePayment, BscSettled
  <2>2. CASE ~(p \in TooSmall \cup reported \/ From[p] = PayIn) /\ ~Joined(p)
    BY <2>2 DEF HandlePayment, BscSettled
  <2>3. CASE ~(p \in TooSmall \cup reported \/ From[p] = PayIn) /\ Joined(p) /\ ~Recorded(p)
    BY <2>3 DEF HandlePayment, BscSettled
  <2>4. ASSUME NEW q \in deposited, Hash[q] = Hash[p] PROVE BscSettled(p)'
    <3>1. BscSettled(p)
      BY <1>1, <2>4, PaymentsAssumption DEF BscRowInv, BscSettled
    <3> QED
      BY <3>1, <1>2, <1>3 DEF HandlePayment, BscSettled
  <2> QED
    BY <2>1, <2>2, <2>3, <2>4 DEF Recorded
<1>5. BscTypeOK' /\ BscChainInv'
  BY <1>2, <1>3 DEF HandlePayment, BscChainInv
<1>6. BscPassInv'
  BY DEF HandlePayment, BscPassInv, InRange, Safe
<1>7. BscRowInv'
  <2>1. \A q \in Payments : Recorded(q) => Recorded(q)'
    BY <1>2 DEF Recorded
  <2>2. \A q \in Payments : BscSettled(q) => BscSettled(q)'
    BY <1>2, <1>3 DEF HandlePayment, BscSettled
  <2> QED
    BY <1>1, <1>2, <1>3, <2>1, <2>2 DEF HandlePayment, BscRowInv, Safe
<1>8. BscReadInFull'
  BY <1>2, <1>3, <1>4 DEF HandlePayment, BscReadInFull, InRange, BscSettled
<1>9. BscRightly'
  BY <1>1 DEF HandlePayment, BscRightly, Recorded, Joined, InRange
<1> QED
  BY <1>5, <1>6, <1>7, <1>8, <1>9

\* What was reported at a user's address shares its transaction with a credit, so that it is
\* not credited; the payments to the pay-in address of its transaction were handled before.
LEMMA CreditStep == ASSUME BscInv, NEW p \in Payments, CreditAddress(p) PROVE BscInv'
<1> USE BscAssumption DEF BscInv, BscTypeOK, NoBlock, bscChainVars, bscRowVars
<1>1. InRange(p) /\ To[p] # PayIn /\ minedIn[p] <= Safe
  BY DEF CreditAddress, BscPassInv, InRange, Safe
<1>2. deposited \subseteq deposited' /\ deposited' \subseteq deposited \cup {p}
  BY DEF CreditAddress
<1>3. reported \subseteq reported' /\ reported' \subseteq reported \cup {p}
  BY DEF CreditAddress
<1>4. \A q \in Payments : BscSettled(q) => BscSettled(q)'
  BY <1>2, <1>3 DEF CreditAddress, BscSettled
<1>5. BscTypeOK' /\ BscChainInv'
  BY <1>2, <1>3 DEF CreditAddress, BscChainInv
<1>6. BscPassInv'
  BY DEF CreditAddress, BscPassInv, InRange, Safe
<1>7. BscRowInv'
  <2>1. \A q \in deposited' : minedIn'[q] <= Safe'
    BY <1>1, <1>2 DEF CreditAddress, BscRowInv, Safe
  <2>2. \A q \in reported' : To[q] # PayIn => Recorded(q)'
    BY <1>2 DEF CreditAddress, BscRowInv, Recorded
  <2>3. \A q \in Payments : To[q] = PayIn /\ Hash[q] = Hash[p] => BscSettled(q)
    BY <1>1 DEF CreditAddress, BscChainInv, BscReadInFull, InRange
  <2> QED
    BY <1>2, <1>4, <2>1, <2>2, <2>3 DEF BscRowInv
<1>8. BscReadInFull'
  <2>1. BscSettled(p)'
    BY DEF CreditAddress, BscSettled
  <2> QED
    BY <1>4, <2>1 DEF CreditAddress, BscReadInFull, InRange
<1>9. BscRightly'
  BY <1>1 DEF CreditAddress, BscRightly, BscRowInv, Recorded, Joined, InRange
<1> QED
  BY <1>5, <1>6, <1>7, <1>8, <1>9

\* The rest, and with it every step.
LEMMA BscStep == ASSUME BscInv, [BscNext]_bscVars PROVE BscInv'
<1> USE BscAssumption DEF BscInv, BscTypeOK, NoBlock
<1>1. ASSUME NEW a \in UserAddresses, Give(a) PROVE BscInv'
  <2>1. BscTypeOK' /\ BscChainInv' /\ BscPassInv'
    BY <1>1 DEF Give, bscPassVars, bscRowVars, BscChainInv, BscPassInv, InRange, Safe
  <2>2. BscRowInv' /\ BscReadInFull' /\ BscRightly'
    BY <1>1 DEF Give, bscPassVars, bscRowVars, BscRowInv, BscReadInFull, BscRightly, InRange, Safe,
       Recorded, BscSettled, Joined
  <2> QED
    BY <2>1, <2>2
<1>2. ASSUME NEW w \in Wallets, Join(w) PROVE BscInv'
  <2>1. BscTypeOK' /\ BscChainInv' /\ BscPassInv'
    BY <1>2 DEF Join, bscPassVars, bscRowVars, BscChainInv, BscPassInv, InRange, Safe
  <2>2. BscRowInv' /\ BscReadInFull'
    BY <1>2 DEF Join, bscPassVars, bscRowVars, BscRowInv, BscReadInFull, InRange, Safe, Recorded, BscSettled
  <2>3. BscRightly'
    BY <1>2 DEF Join, bscRowVars, BscRightly, Joined
  <2> QED
    BY <2>1, <2>2, <2>3
<1>3. CASE StampCursor
  <2>1. BscTypeOK' /\ BscChainInv'
    BY <1>3 DEF StampCursor, bscChainVars, bscRowVars, BscChainInv, BscPassInv, Safe
  <2>2. BscPassInv' /\ BscReadInFull'
    BY <1>3 DEF StampCursor, BscPassInv, BscReadInFull
  <2>3. BscRowInv' /\ BscRightly'
    BY <1>3 DEF StampCursor, bscChainVars, bscRowVars, BscRowInv, BscRightly, Safe, Recorded, BscSettled, Joined
  <2> QED
    BY <2>1, <2>2, <2>3
<1>4. CASE BscPassFails
  <2>1. BscTypeOK' /\ BscChainInv'
    BY <1>4 DEF BscPassFails, bscChainVars, bscRowVars, BscChainInv
  <2>2. BscPassInv' /\ BscReadInFull'
    BY <1>4 DEF BscPassFails, BscPassInv, BscReadInFull
  <2>3. BscRowInv' /\ BscRightly'
    BY <1>4 DEF BscPassFails, bscChainVars, bscRowVars, BscRowInv, BscRightly, Safe, Recorded, BscSettled, Joined
  <2> QED
    BY <2>1, <2>2, <2>3
<1>5. CASE UNCHANGED bscVars
  BY <1>5 DEF bscVars, bscChainVars, bscRowVars, BscChainInv, BscPassInv, BscRowInv, BscReadInFull,
     BscRightly, InRange, Safe, Recorded, BscSettled, Joined
<1> HIDE DEF BscInv
<1> QED
  BY <1>1, <1>2, <1>3, <1>4, <1>5, BscChainStep, BscReadStep, HandleStep, CreditStep DEF BscNext

\* Only the stamp takes blocks from later passes, and then their payments are settled.
LEMMA BscLosesNothing ==
  ASSUME BscInv, [BscNext]_bscVars, NEW p \in Payments, BscBehind(p)', ~BscBehind(p)
  PROVE  BscSettled(p)'
<1> USE BscAssumption DEF BscInv, BscTypeOK, NoBlock, BscBehind
<1>1. CASE StampCursor
  <2>1. InRange(p)
    BY <1>1 DEF StampCursor, bscChainVars, BscPassInv, InRange
  <2>2. BscSettled(p)
    BY <1>1, <2>1 DEF StampCursor, BscReadInFull
  <2> QED
    BY <1>1, <2>2 DEF StampCursor, bscChainVars, bscRowVars, BscSettled
<1>2. ASSUME NEW S \in SUBSET Payments, NewBlock(S) PROVE FALSE
  BY <1>2 DEF NewBlock, bscPassVars
<1>3. ASSUME NEW q \in Payments, Reorg(q) PROVE FALSE
  BY <1>3 DEF Reorg, bscPassVars
<1>4. ASSUME UNCHANGED <<minedIn, cursor, origin>> PROVE FALSE
  BY <1>4
<1>5. ASSUME NEW q \in Payments, HandlePayment(q) \/ CreditAddress(q) PROVE UNCHANGED <<minedIn, cursor, origin>>
  BY <1>5 DEF HandlePayment, CreditAddress, bscChainVars
<1>6. ASSUME NEW a \in UserAddresses, Give(a) PROVE UNCHANGED <<minedIn, cursor, origin>>
  BY <1>6 DEF Give, bscPassVars
<1>7. ASSUME NEW w \in Wallets, Join(w) PROVE UNCHANGED <<minedIn, cursor, origin>>
  BY <1>7 DEF Join, bscPassVars
<1>8. ReadHead \/ ReadOwners \/ ReadAddresses \/ BscPassFails \/ UNCHANGED bscVars
        => UNCHANGED <<minedIn, cursor, origin>>
  BY DEF ReadHead, ReadOwners, ReadAddresses, BscPassFails, bscVars, bscChainVars
<1> HIDE DEF BscInv, BscTypeOK, BscBehind
<1> QED
  BY <1>1, <1>2, <1>3, <1>4, <1>5, <1>6, <1>7, <1>8 DEF BscNext

(***************************************************************************)
(* The addresses of old deposit intents                                    *)
(***************************************************************************)

\* The writes to an intent come in their order, and all of the same transfer.
WritesInOrder ==
  /\ \A i \in Intents :
       /\ evidence[i] # 0 => evidence[i] = 1 /\ arrivals[i] # << >>
       /\ received[i] # 0 => evidence[i] # 0 /\ received[i] = Earliest(i)
       /\ lstatus[i] = "confirmed" => received[i] # 0
  /\ lpc \in {"evidence", "received", "confirm"} => arrivals[hand] # << >>
  /\ lpc \in {"received", "confirm"} => evidence[hand] # 0
  /\ lpc = "confirm" => received[hand] # 0

\* A pass deals with every intent that was paid when it listed them, or says that it could not.
LegacyDealtWith ==
  /\ \A i \in early : arrivals[i] # << >>
  /\ lpc = "close" => ldue = {}
  /\ lpc # "idle" =>
       \A i \in early \ closed : lstatus[i] = "confirmed" \/ i \in ldue \/ i = hand \/ i \in spoiled

LegacyInv ==
  /\ LegacyTypeOK /\ arrivals \in [Intents -> Seq(Amounts)]
  /\ WritesInOrder /\ LegacyDealtWith

\* The earliest transfer moves an amount.
LEMMA EarliestIsAmount == ASSUME NEW s \in Seq(Amounts), s # << >> PROVE Head(s) \in Amounts
  OBVIOUS

\* The earliest transfer stays the earliest.
LEMMA ArriveStep == ASSUME LegacyInv, NEW i \in Intents, Arrive(i) PROVE LegacyInv'
<1> USE LegacyAssumption DEF LegacyInv, LegacyTypeOK
<1>1. PICK a \in Amounts : arrivals' = [arrivals EXCEPT ![i] = Append(@, a)]
  BY DEF Arrive
<1>2. \A j \in Intents :
        /\ arrivals'[j] \in Seq(Amounts) /\ Len(arrivals'[j]) \in Len(arrivals[j])..MaxArrivals
        /\ arrivals[j] # << >> => arrivals'[j] # << >> /\ Head(arrivals'[j]) = Head(arrivals[j])
  BY <1>1 DEF Arrive
<1>3. LegacyTypeOK' /\ (arrivals \in [Intents -> Seq(Amounts)])'
  <2>1. \A j \in Intents : Len(arrivals'[j]) <= MaxArrivals /\ evidence[j] <= Len(arrivals'[j])
    <3> SUFFICES ASSUME NEW j \in Intents
                 PROVE  Len(arrivals'[j]) <= MaxArrivals /\ evidence[j] <= Len(arrivals'[j])
      OBVIOUS
    <3>1. Len(arrivals[j]) \in Nat /\ evidence[j] \in Nat /\ evidence[j] <= Len(arrivals[j])
      OBVIOUS
    <3> QED
      BY <1>2, <3>1
  <2>2. arrivals' \in [Intents -> Seq(Amounts)]
    BY <1>1, <1>2
  <2> QED
    BY <2>1, <2>2 DEF Arrive, intentVars, legacyPassVars
<1>4. WritesInOrder'
  BY <1>2 DEF Arrive, intentVars, legacyPassVars, WritesInOrder, Earliest
<1>5. LegacyDealtWith'
  BY <1>2 DEF Arrive, intentVars, legacyPassVars, LegacyDealtWith
<1> QED
  BY <1>3, <1>4, <1>5

\* An intent in hand goes through its writes, one at a time.
LEMMA WriteStep == ASSUME LegacyInv, StoreEvidence \/ StoreReceived \/ Confirm PROVE LegacyInv'
<1> USE LegacyAssumption DEF LegacyInv, LegacyTypeOK
<1>1. lpc \in {"evidence", "received", "confirm"} => hand \in Intents
  OBVIOUS
<1>2. CASE StoreEvidence
  <2>1. LegacyTypeOK' /\ (arrivals \in [Intents -> Seq(Amounts)])'
    BY <1>1, <1>2 DEF StoreEvidence, WritesInOrder
  <2>2. WritesInOrder'
    BY <1>1, <1>2 DEF StoreEvidence, WritesInOrder, Earliest
  <2>3. LegacyDealtWith'
    BY <1>2 DEF StoreEvidence, LegacyDealtWith
  <2> QED
    BY <2>1, <2>2, <2>3
<1>3. CASE StoreReceived
  <2>1. LegacyTypeOK' /\ (arrivals \in [Intents -> Seq(Amounts)])'
    <3>1. hand \in Intents /\ arrivals[hand] \in Seq(Amounts) /\ arrivals[hand] # << >>
      BY <1>1, <1>3 DEF StoreReceived, WritesInOrder
    <3>2. Earliest(hand) \in Nat
      BY <3>1, EarliestIsAmount, LegacyAssumption DEF Earliest
    <3> QED
      BY <1>3, <3>1, <3>2 DEF StoreReceived
  <2>2. WritesInOrder'
    BY <1>1, <1>3 DEF StoreReceived, WritesInOrder, Earliest
  <2>3. LegacyDealtWith'
    BY <1>3 DEF StoreReceived, LegacyDealtWith
  <2> QED
    BY <2>1, <2>2, <2>3
<1>4. CASE Confirm
  <2>1. LegacyTypeOK' /\ (arrivals \in [Intents -> Seq(Amounts)])'
    BY <1>1, <1>4 DEF Confirm, GoOn
  <2>2. WritesInOrder'
    BY <1>1, <1>4 DEF Confirm, GoOn, WritesInOrder, Earliest
  <2>3. LegacyDealtWith'
    BY <1>1, <1>4 DEF Confirm, GoOn, LegacyDealtWith
  <2> QED
    BY <2>1, <2>2, <2>3
<1> QED
  BY <1>2, <1>3, <1>4

\* A pass lists what is payable, takes an intent in hand or goes on, and closes.
LEMMA LegacyPassStep ==
  ASSUME LegacyInv,
         ListDue \/ DueUnread \/ DustRefused \/ IntentFails \/ SweepExpired \/ CloseWindows \/ LegacyCrash
  PROVE  LegacyInv'
<1> USE LegacyAssumption DEF LegacyInv, LegacyTypeOK, intentVars
<1>1. CASE ListDue
  <2>1. LegacyTypeOK' /\ WritesInOrder' /\ (arrivals \in [Intents -> Seq(Amounts)])'
    BY <1>1 DEF ListDue, Payable, WritesInOrder, Earliest
  <2>2. LegacyDealtWith'
    BY <1>1 DEF ListDue, Payable, LegacyDealtWith
  <2> QED
    BY <2>1, <2>2
<1>2. CASE DueUnread
  <2>1. LegacyTypeOK' /\ WritesInOrder' /\ (arrivals \in [Intents -> Seq(Amounts)])'
    BY <1>2 DEF DueUnread, LegacyTrouble, Payable, WritesInOrder, Earliest
  <2>2. LegacyDealtWith'
    BY <1>2 DEF DueUnread, Payable, LegacyDealtWith
  <2> QED
    BY <2>1, <2>2
<1>3. CASE DustRefused
  <2>1. LegacyTypeOK' /\ WritesInOrder' /\ (arrivals \in [Intents -> Seq(Amounts)])'
    BY <1>3 DEF DustRefused, GoOn, NoLegacyWrite, WritesInOrder, Earliest
  <2>2. LegacyDealtWith'
    BY <1>3 DEF DustRefused, GoOn, NoLegacyWrite, LegacyDealtWith
  <2> QED
    BY <2>1, <2>2
<1>4. CASE IntentFails
  <2>1. LegacyTypeOK' /\ WritesInOrder' /\ (arrivals \in [Intents -> Seq(Amounts)])'
    BY <1>4 DEF IntentFails, LegacyTrouble, GoOn, NoLegacyWrite, WritesInOrder, Earliest
  <2>2. LegacyDealtWith'
    BY <1>4 DEF IntentFails, GoOn, NoLegacyWrite, LegacyDealtWith
  <2> QED
    BY <2>1, <2>2
<1>5. CASE SweepExpired
  <2>1. LegacyTypeOK' /\ (arrivals \in [Intents -> Seq(Amounts)])'
    BY <1>5 DEF SweepExpired, LegacyTrouble
  <2>2. lstatus' \in [Intents -> {"created", "expired", "confirmed"}]
        /\ \A i \in Intents : lstatus'[i] = "confirmed" <=> lstatus[i] = "confirmed"
    BY <1>5 DEF SweepExpired
  <2>3. WritesInOrder'
    BY <1>5, <2>2 DEF SweepExpired, WritesInOrder, Earliest
  <2>4. LegacyDealtWith'
    BY <1>5, <2>2 DEF SweepExpired, LegacyDealtWith
  <2> QED
    BY <2>1, <2>3, <2>4
<1>6. CASE CloseWindows
  <2>1. LegacyTypeOK' /\ WritesInOrder' /\ (arrivals \in [Intents -> Seq(Amounts)])'
    BY <1>6 DEF CloseWindows, WritesInOrder, Earliest
  <2>2. LegacyDealtWith'
    BY <1>6 DEF CloseWindows, LegacyDealtWith
  <2> QED
    BY <2>1, <2>2
<1>7. CASE LegacyCrash
  <2>0. LegacyTypeOK' /\ (arrivals \in [Intents -> Seq(Amounts)])'
    BY <1>7 DEF LegacyCrash, LegacyTrouble
  <2>1. WritesInOrder'
    BY <1>7 DEF LegacyCrash, WritesInOrder, Earliest
  <2>2. LegacyDealtWith'
    BY <1>7 DEF LegacyCrash, LegacyDealtWith
  <2> QED
    BY <2>0, <2>1, <2>2
<1> QED
  BY <1>1, <1>2, <1>3, <1>4, <1>5, <1>6, <1>7

\* The rest, and with it every step.
LEMMA LegacyStep == ASSUME LegacyInv, [LegacyNext]_legacyVars PROVE LegacyInv'
<1> USE LegacyAssumption DEF LegacyInv, LegacyTypeOK, intentVars, legacyPassVars
<1>1. ASSUME NEW i \in Intents, GrowOld(i) PROVE LegacyInv'
  BY <1>1 DEF GrowOld, WritesInOrder, LegacyDealtWith, Earliest
<1>2. ASSUME NEW i \in Intents, ReadLegacy(i) PROVE LegacyInv'
  <2>1. CASE arrivals[i] = << >>
    BY <1>2, <2>1 DEF ReadLegacy, GoOn, WritesInOrder, LegacyDealtWith, Earliest
  <2>2. CASE arrivals[i] # << >>
    BY <1>2, <2>2 DEF ReadLegacy, WritesInOrder, LegacyDealtWith, Earliest
  <2> QED
    BY <2>1, <2>2
<1>3. CASE UNCHANGED legacyVars
  BY <1>3 DEF legacyVars, WritesInOrder, LegacyDealtWith, Earliest
<1> HIDE DEF LegacyInv
<1> QED
  BY <1>1, <1>2, <1>3, ArriveStep, WriteStep, LegacyPassStep DEF LegacyNext

\* A window closes only over an intent that the pass dealt with.
LEMMA LegacyLosesNothing ==
  ASSUME LegacyInv, [LegacyNext]_legacyVars, NEW i \in Intents, LegacyBehind(i)', ~LegacyBehind(i)
  PROVE  LegacySettled(i)' \/ i \in spoiled'
<1> USE LegacyAssumption DEF LegacyInv, LegacyTypeOK, LegacyBehind, intentVars
<1>1. CASE CloseWindows
  BY <1>1 DEF CloseWindows, LegacyDealtWith, LegacySettled
<1>2. ASSUME NEW j \in Intents, Arrive(j) \/ GrowOld(j) \/ ReadLegacy(j) PROVE UNCHANGED closed
  BY <1>2 DEF Arrive, GrowOld, ReadLegacy
<1>3. ListDue \/ DueUnread \/ StoreEvidence \/ StoreReceived \/ DustRefused \/ Confirm \/ IntentFails
        \/ SweepExpired \/ LegacyCrash \/ UNCHANGED legacyVars => UNCHANGED closed
  BY DEF ListDue, DueUnread, StoreEvidence, StoreReceived, DustRefused, Confirm, IntentFails,
     SweepExpired, LegacyCrash, NoLegacyWrite, legacyVars
<1> QED
  BY <1>1, <1>2, <1>3 DEF LegacyNext

(***************************************************************************)
(* The whole                                                               *)
(***************************************************************************)

\* The invariants of the four, side by side.
IntakeInv ==
  /\ follows \in {"addresses", "direct", "bsc", "legacy"}
  /\ AddressInv /\ DirectInv /\ BscInv /\ LegacyInv

\* It holds at first.
LEMMA IntakeAtFirst == Init => IntakeInv
<1> SUFFICES ASSUME Init PROVE IntakeInv
  OBVIOUS
<1>1. AddressInv
  <2>1. AddressTypeOK
    BY DEF Init, AddressInit, AddressTypeOK
  <2>2. IndicesAreOwn /\ RowsAreAllocated
    BY DEF Init, AddressInit, IndicesAreOwn, RowsAreAllocated
  <2>3. AnswersAreRows
    BY DEF Init, AddressInit, AnswersAreRows, Askers
  <2> QED
    BY <2>1, <2>2, <2>3 DEF AddressInv
<1>2. DirectInv
  BY DirectAssumption
  DEF Init, DirectInit, DirectInv, DirectTypeOK, DirectSets, DirectRightly, ShownInTime, DirectReadInFull
<1>3. BscInv
  BY BscAssumption
  DEF Init, BscInit, BscInv, BscTypeOK, BscChainInv, BscPassInv, BscRowInv, BscReadInFull, BscRightly, NoBlock
<1>4. LegacyInv
  BY LegacyAssumption
  DEF Init, LegacyInit, LegacyInv, LegacyTypeOK, WritesInOrder, LegacyDealtWith
<1> QED
  BY <1>1, <1>2, <1>3, <1>4 DEF Init, IntakeInv

\* Every step of the whole is a step or a stutter of each of the four.
LEMMA IntakeStep == IntakeInv /\ [Next]_vars => IntakeInv'
<1> SUFFICES ASSUME IntakeInv, [Next]_vars PROVE IntakeInv'
  OBVIOUS
<1>1. [AddressNext]_addressVars /\ [DirectNext]_directVars /\ [BscNext]_bscVars /\ [LegacyNext]_legacyVars
  BY DEF Next, vars
<1>2. UNCHANGED follows
  BY DEF Next, vars
<1> QED
  BY <1>1, <1>2, AddressStep, DirectStep, BscStep, LegacyStep DEF IntakeInv

\* Every variable of the four stays of its type, whatever the bounds are.
THEOREM IntakeTypes == Spec => []TypeOK
<1>1. IntakeInv => TypeOK
  BY DEF IntakeInv, TypeOK, AddressInv, DirectInv, BscInv, LegacyInv
<1> QED
  BY <1>1, IntakeAtFirst, IntakeStep, PTL DEF Spec

\* Nobody's money is credited to somebody else, twice, or for a transfer that gave way, and
\* what was reported for a refund is not credited (direct.rs:206-222, bsc_watch.rs:225-347,
\* poller.rs:207-240).
THEOREM CreditsAreRight == Spec => []RightlyCredited
<1>1. ASSUME LegacyInv PROVE LegacyRightly
  <2> SUFFICES ASSUME NEW i \in Intents, lstatus[i] = "confirmed"
               PROVE  evidence[i] # 0 /\ received[i] = arrivals[i][evidence[i]] /\ received[i] > 0
    BY DEF LegacyRightly
  <2>1. received[i] # 0 /\ received[i] = Head(arrivals[i]) /\ evidence[i] = 1
    BY <1>1 DEF LegacyInv, WritesInOrder, Earliest
  <2>2. received[i] > 0
    BY <1>1, <2>1 DEF LegacyInv, LegacyTypeOK
  <2> QED
    BY <2>1, <2>2
<1>2. IntakeInv => RightlyCredited
  BY <1>1 DEF IntakeInv, RightlyCredited, DirectInv, BscInv
<1> QED
  BY <1>2, IntakeAtFirst, IntakeStep, PTL DEF Spec

\* A watcher stops looking for a payment only when it is settled: what its stamp, its cursor or
\* its closing of a window leaves behind, the pass read and dealt with (direct.rs:164-204,
\* bsc_watch.rs:117-171, poller.rs:180-303).
THEOREM NoPaymentIsLost == Spec => NothingIsLost
<1> DEFINE Lossless ==
      /\ \A t \in TopUps : DirectBehind(t)' /\ ~DirectBehind(t) => DirectSettled(t)' \/ t \in mishandled'
      /\ \A p \in Payments : BscBehind(p)' /\ ~BscBehind(p) => BscSettled(p)'
      /\ \A i \in Intents :
           LegacyBehind(i)' /\ ~LegacyBehind(i) => LegacySettled(i)' \/ i \in spoiled'
<1>1. ASSUME IntakeInv, [Next]_vars PROVE Lossless
  <2>1. [DirectNext]_directVars /\ [BscNext]_bscVars /\ [LegacyNext]_legacyVars
    BY <1>1 DEF Next, vars
  <2> QED
    BY <1>1, <2>1, DirectLosesNothing, BscLosesNothing, LegacyLosesNothing DEF IntakeInv
<1>2. IntakeInv /\ [Next]_vars => [Lossless]_vars
  BY <1>1
<1> HIDE DEF Lossless
<1>3. Spec => [][Lossless]_vars
  BY <1>2, IntakeAtFirst, IntakeStep, PTL DEF Spec
<1> QED
  BY <1>3 DEF NothingIsLost, Lossless

\* Every address a user was given is the stored and watched one, and no two users share
\* one, however many requests look, derive and insert side by side (addresses.rs:20-64).
THEOREM AddressesAreWatched == Spec => []HandedOutIsWatched
<1>1. IntakeInv => HandedOutIsWatched
  <2> SUFFICES ASSUME AddressInv, NEW u \in Askers, NEW v \in Askers, row[u] = row[v], row[u] # 0
               PROVE  u = v
    BY DEF HandedOutIsWatched, IntakeInv, AddressInv, AnswersAreRows
  <2>1. PICK r \in Requests : Asker[r] = u /\ index[r] = row[u]
    BY DEF AddressInv, RowsAreAllocated
  <2>2. PICK q \in Requests : Asker[q] = v /\ index[q] = row[v]
    BY DEF AddressInv, RowsAreAllocated
  <2> QED
    BY <2>1, <2>2 DEF AddressInv, IndicesAreOwn
<1> QED
  BY <1>1, IntakeAtFirst, IntakeStep, PTL DEF Spec

(***************************************************************************)
(* The poller of the permanent addresses                                   *)
(***************************************************************************)

\* The clock: nothing is in the future, a transfer TRON does not show yet landed
\* within Lag, a pass that still reads began within PassLife.
Timely ==
  /\ \A t \in landed : landTime[t] <= clock
  /\ \A t \in landed \ listed : clock <= landTime[t] + ListingLag
  /\ \A a \in Addresses : polledAt[a] <= clock
  /\ Reading => began <= clock /\ clock <= began + PassLife

\* What a pass holds: between passes nothing; while it reads, what it found is
\* still in reach of another read, should this pass be cut short.
InHand ==
  /\ pc = "idle" => found = {}
  /\ ~Reading => fetched = {}
  /\ Reading => \A t \in found : InReach(t)

\* What the pass did not find at an address it read landed at most ListingLag before it
\* began: this is what makes it safe to move the watermark to now.
FetchedSawAll ==
  \A t \in Transfers :
    Owed(t) /\ t \notin recorded \cup found \cup dropped /\ PaidTo[t] \in fetched
      => landTime[t] >= began - ListingLag

PollerInv == PollerTypeOK /\ Timely /\ InHand /\ FetchedSawAll /\ NothingSkipped

USE TimesAssumption DEF NotPolled, Reading

\* Every action keeps the types (PollerTypeOK).
LEMMA PollerTypeStep ==
  PollerTypeOK /\ [PollerNext]_pollerVars => PollerTypeOK'
<1> SUFFICES ASSUME PollerTypeOK, [PollerNext]_pollerVars PROVE PollerTypeOK'
  OBVIOUS
<1> USE DEF PollerTypeOK, panelVars, pollVars, tronVars
<1>1. ASSUME NEW a \in Addresses, OpenPanel(a) PROVE PollerTypeOK'
  BY <1>1 DEF OpenPanel
<1>2. ASSUME NEW a \in Addresses, IssueOnly(a) PROVE PollerTypeOK'
  BY <1>2 DEF IssueOnly
<1>3. ASSUME NEW a \in Addresses, Cool(a) PROVE PollerTypeOK'
  BY <1>3 DEF Cool
<1>4. ASSUME SelectDue PROVE PollerTypeOK'
  BY <1>4 DEF SelectDue, DueSets
<1>5. ASSUME NEW a \in Addresses, Fetch(a) PROVE PollerTypeOK'
  BY <1>5 DEF Fetch, Reads
<1>6. ASSUME NEW a \in Addresses, FetchFails(a) PROVE PollerTypeOK'
  BY <1>6 DEF FetchFails
<1>7. ASSUME StampAttempts PROVE PollerTypeOK'
  BY <1>7 DEF StampAttempts
<1>8. ASSUME StampWatermarks PROVE PollerTypeOK'
  BY <1>8 DEF StampWatermarks
<1>9. ASSUME PassAborts PROVE PollerTypeOK'
  BY <1>9 DEF PassAborts, EndPass
<1>10. ASSUME NEW t \in Transfers, Credit(t) PROVE PollerTypeOK'
  BY <1>10 DEF Credit
<1>11. ASSUME NEW t \in Transfers, CreditErrors(t) PROVE PollerTypeOK'
  BY <1>11 DEF CreditErrors
<1>12. ASSUME CreditsLost PROVE PollerTypeOK'
  BY <1>12 DEF CreditsLost, EndPass
<1>13. ASSUME EndOfCredits PROVE PollerTypeOK'
  BY <1>13 DEF EndOfCredits, EndPass
<1>14. ASSUME NEW t \in Transfers, Lands(t) PROVE PollerTypeOK'
  BY <1>14 DEF Lands
<1>15. ASSUME NEW t \in Transfers, Appears(t) PROVE PollerTypeOK'
  BY <1>15 DEF Appears
<1>16. ASSUME ClockTick PROVE PollerTypeOK'
  BY <1>16 DEF ClockTick
<1>17. CASE UNCHANGED pollerVars
  BY <1>17 DEF pollerVars
<1> QED
  BY <1>1, <1>2, <1>3, <1>4, <1>5, <1>6, <1>7, <1>8, <1>9, <1>10, <1>11, <1>12,
     <1>13, <1>14, <1>15, <1>16, <1>17 DEF PollerNext, User, Poll, Credits, Tron

\* Every state is well typed: in particular only issued addresses are hot or polled
\* and only transfers that landed are recorded.
THEOREM PollerTypes == PollerSpec => []PollerTypeOK
<1>1. PollerInit => PollerTypeOK
  BY DEF PollerInit, PollerTypeOK
<1> QED
  BY <1>1, PollerTypeStep, PTL DEF PollerSpec

\* The initial states satisfy the invariant.
LEMMA PollerAtFirst == PollerInit => PollerInv
<1> SUFFICES ASSUME PollerInit PROVE PollerInv
  OBVIOUS
<1> QED
  BY SetsAssumption DEF PollerInit, PollerInv, PollerTypeOK, Timely, InHand, FetchedSawAll, NothingSkipped,
     InReach, Owed

\* Every action keeps the clock facts.
LEMMA TimelyStep ==
  PollerInv /\ [PollerNext]_pollerVars => Timely'
<1> SUFFICES ASSUME PollerInv, [PollerNext]_pollerVars PROVE Timely'
  OBVIOUS
<1> USE DEF PollerInv, PollerTypeOK, Timely, panelVars, pollVars, tronVars
<1>1. ASSUME User PROVE Timely'
  BY <1>1 DEF User, OpenPanel, IssueOnly, Cool
<1>2. ASSUME SelectDue PROVE Timely'
  BY <1>2 DEF SelectDue
<1>3. ASSUME NEW a \in Addresses, Fetch(a) \/ FetchFails(a) PROVE Timely'
  BY <1>3 DEF Fetch, FetchFails
<1>4. ASSUME StampAttempts PROVE Timely'
  BY <1>4 DEF StampAttempts
<1>5. ASSUME StampWatermarks PROVE Timely'
  BY <1>5 DEF StampWatermarks
<1>6. ASSUME PassAborts PROVE Timely'
  BY <1>6 DEF PassAborts, EndPass
<1>7. ASSUME Credits PROVE Timely'
  BY <1>7 DEF Credits, Credit, CreditErrors, CreditsLost, EndOfCredits, EndPass
<1>8. ASSUME NEW t \in Transfers, Lands(t) PROVE Timely'
  BY <1>8 DEF Lands
<1>9. ASSUME NEW t \in Transfers, Appears(t) PROVE Timely'
  BY <1>9 DEF Appears
<1>10. ASSUME ClockTick PROVE Timely'
  BY <1>10 DEF ClockTick
<1>11. CASE UNCHANGED pollerVars
  BY <1>11 DEF pollerVars
<1> QED
  BY <1>1, <1>2, <1>3, <1>4, <1>5, <1>6, <1>7, <1>8, <1>9, <1>10, <1>11 DEF PollerNext, Poll, Tron

\* Every action keeps what a pass holds.
LEMMA InHandStep ==
  PollerInv /\ [PollerNext]_pollerVars => InHand'
<1> SUFFICES ASSUME PollerInv, [PollerNext]_pollerVars PROVE InHand'
  OBVIOUS
<1> USE SetsAssumption DEF PollerInv, PollerTypeOK, Timely, InHand, InReach, panelVars, pollVars, tronVars
<1>1. ASSUME User PROVE InHand'
  BY <1>1 DEF User, OpenPanel, IssueOnly, Cool
<1>2. ASSUME SelectDue PROVE InHand'
  BY <1>2 DEF SelectDue
<1>3. ASSUME NEW a \in Addresses, Fetch(a) PROVE InHand'
  BY <1>3 DEF Fetch, Reads
<1>4. ASSUME NEW a \in Addresses, FetchFails(a) PROVE InHand'
  BY <1>4 DEF FetchFails
<1>5. ASSUME StampAttempts PROVE InHand'
  BY <1>5 DEF StampAttempts
<1>6. ASSUME StampWatermarks PROVE InHand'
  BY <1>6 DEF StampWatermarks
<1>7. ASSUME PassAborts PROVE InHand'
  BY <1>7 DEF PassAborts, EndPass
<1>8. ASSUME Credits PROVE InHand'
  BY <1>8 DEF Credits, Credit, CreditErrors, CreditsLost, EndOfCredits, EndPass
<1>9. ASSUME NEW t \in Transfers, Lands(t) PROVE InHand'
  BY <1>9 DEF Lands
<1>10. ASSUME NEW t \in Transfers, Appears(t) PROVE InHand'
  BY <1>10 DEF Appears
<1>11. ASSUME ClockTick PROVE InHand'
  BY <1>11 DEF ClockTick
<1>12. CASE UNCHANGED pollerVars
  BY <1>12 DEF pollerVars
<1> QED
  BY <1>1, <1>2, <1>3, <1>4, <1>5, <1>6, <1>7, <1>8, <1>9, <1>10, <1>11, <1>12
     DEF PollerNext, Poll, Tron

\* Every action keeps what a read of an address missed recent.
LEMMA FetchedSawAllStep ==
  PollerInv /\ [PollerNext]_pollerVars => FetchedSawAll'
<1> SUFFICES ASSUME PollerInv, [PollerNext]_pollerVars PROVE FetchedSawAll'
  OBVIOUS
<1> USE SetsAssumption DEF PollerInv, PollerTypeOK, Timely, InHand, FetchedSawAll, NothingSkipped, InReach,
      Owed, panelVars, pollVars, tronVars
<1>1. ASSUME User PROVE FetchedSawAll'
  BY <1>1 DEF User, OpenPanel, IssueOnly, Cool
<1>2. ASSUME SelectDue PROVE FetchedSawAll'
  BY <1>2 DEF SelectDue
<1>3. ASSUME NEW a \in Addresses, Fetch(a) PROVE FetchedSawAll'
  BY <1>3 DEF Fetch, Reads
<1>4. ASSUME NEW a \in Addresses, FetchFails(a) PROVE FetchedSawAll'
  BY <1>4 DEF FetchFails
<1>5. ASSUME StampAttempts PROVE FetchedSawAll'
  BY <1>5 DEF StampAttempts
<1>6. ASSUME StampWatermarks PROVE FetchedSawAll'
  BY <1>6 DEF StampWatermarks
<1>7. ASSUME PassAborts PROVE FetchedSawAll'
  BY <1>7 DEF PassAborts, EndPass
<1>8. ASSUME NEW t \in Transfers, Credit(t) PROVE FetchedSawAll'
  BY <1>8 DEF Credit
<1>9. ASSUME NEW t \in Transfers, CreditErrors(t) PROVE FetchedSawAll'
  BY <1>9 DEF CreditErrors
<1>10. ASSUME CreditsLost \/ EndOfCredits PROVE FetchedSawAll'
  BY <1>10 DEF CreditsLost, EndOfCredits, EndPass
<1>11. ASSUME NEW t \in Transfers, Lands(t) PROVE FetchedSawAll'
  BY <1>11 DEF Lands
<1>12. ASSUME NEW t \in Transfers, Appears(t) PROVE FetchedSawAll'
  BY <1>12 DEF Appears
<1>13. ASSUME ClockTick PROVE FetchedSawAll'
  BY <1>13 DEF ClockTick
<1>14. CASE UNCHANGED pollerVars
  BY <1>14 DEF pollerVars
<1> QED
  BY <1>1, <1>2, <1>3, <1>4, <1>5, <1>6, <1>7, <1>8, <1>9, <1>10, <1>11, <1>12, <1>13, <1>14
     DEF PollerNext, Poll, Credits, Tron

\* Every action keeps what is neither held nor recorded in reach.
LEMMA NothingSkippedStep ==
  PollerInv /\ [PollerNext]_pollerVars => NothingSkipped'
<1> SUFFICES ASSUME PollerInv, [PollerNext]_pollerVars PROVE NothingSkipped'
  OBVIOUS
<1> USE SetsAssumption DEF PollerInv, PollerTypeOK, Timely, InHand, FetchedSawAll, NothingSkipped, InReach,
      Owed, panelVars, pollVars, tronVars
<1>1. ASSUME User PROVE NothingSkipped'
  BY <1>1 DEF User, OpenPanel, IssueOnly, Cool
<1>2. ASSUME SelectDue PROVE NothingSkipped'
  BY <1>2 DEF SelectDue
<1>3. ASSUME NEW a \in Addresses, Fetch(a) PROVE NothingSkipped'
  BY <1>3 DEF Fetch, Reads
<1>4. ASSUME NEW a \in Addresses, FetchFails(a) PROVE NothingSkipped'
  BY <1>4 DEF FetchFails
<1>5. ASSUME StampAttempts PROVE NothingSkipped'
  BY <1>5 DEF StampAttempts
<1>6. ASSUME StampWatermarks PROVE NothingSkipped'
  BY <1>6 DEF StampWatermarks
<1>7. ASSUME PassAborts PROVE NothingSkipped'
  BY <1>7 DEF PassAborts, EndPass
<1>8. ASSUME NEW t \in Transfers, Credit(t) PROVE NothingSkipped'
  BY <1>8 DEF Credit
<1>9. ASSUME NEW t \in Transfers, CreditErrors(t) PROVE NothingSkipped'
  BY <1>9 DEF CreditErrors
<1>10. ASSUME CreditsLost \/ EndOfCredits PROVE NothingSkipped'
  BY <1>10 DEF CreditsLost, EndOfCredits, EndPass
<1>11. ASSUME NEW t \in Transfers, Lands(t) PROVE NothingSkipped'
  BY <1>11 DEF Lands
<1>12. ASSUME NEW t \in Transfers, Appears(t) PROVE NothingSkipped'
  BY <1>12 DEF Appears
<1>13. ASSUME ClockTick PROVE NothingSkipped'
  BY <1>13 DEF ClockTick
<1>14. CASE UNCHANGED pollerVars
  BY <1>14 DEF pollerVars
<1> QED
  BY <1>1, <1>2, <1>3, <1>4, <1>5, <1>6, <1>7, <1>8, <1>9, <1>10, <1>11, <1>12, <1>13, <1>14
     DEF PollerNext, Poll, Credits, Tron

\* For any number of addresses and transfers and any budget, no deposit is skipped by
\* the reading (TieredPoller::poll), as long as TRON's listing lag and the length of
\* a pass fit in the overlap.
THEOREM ReadingSkipsNothing == PollerSpec => []NothingSkipped
<1>1. PollerInv /\ [PollerNext]_pollerVars => PollerInv'
  BY PollerTypeStep, TimelyStep, InHandStep, FetchedSawAllStep,
     NothingSkippedStep DEF PollerInv
<1>2. PollerInv => NothingSkipped
  BY DEF PollerInv
<1> QED
  BY PollerAtFirst, <1>1, <1>2, PTL DEF PollerSpec

=============================================================================
