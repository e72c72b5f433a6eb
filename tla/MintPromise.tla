----------------------------- MODULE MintPromise -----------------------------
(***************************************************************************)
(* What the mint pipeline promises, with none of its machinery: CLT is     *)
(* minted only for an intent somebody authorised, in one settled block at  *)
(* most, and the ledger records a mint once, after the chain has settled   *)
(* it.  Nothing is promised once the whole chain was reset.  MintOutbox is *)
(* checked to implement this specification.                                *)
(***************************************************************************)
EXTENDS Naturals

CONSTANTS Intents, Heights

VARIABLES
  authorised,  \* the intents an approver or the verifier has approved
  minted,      \* the settled blocks that mint each intent
  recorded,    \* how many mint_executed events each intent has
  replaced     \* another chain has taken the place of this one

mintVars == <<authorised, minted, recorded, replaced>>

Init ==
  /\ authorised = {}
  /\ minted = [i \in Intents |-> {}]
  /\ recorded = [i \in Intents |-> 0]
  /\ replaced = FALSE

Authorise(i) ==
  /\ authorised' = authorised \cup {i}
  /\ UNCHANGED <<minted, recorded, replaced>>

Mint(i) ==
  /\ i \in authorised /\ minted[i] = {}
  /\ \E h \in Heights : minted' = [minted EXCEPT ![i] = {h}]
  /\ UNCHANGED <<authorised, recorded, replaced>>

Record(i) ==
  /\ minted[i] # {} /\ recorded[i] = 0
  /\ recorded' = [recorded EXCEPT ![i] = 1]
  /\ UNCHANGED <<authorised, minted, replaced>>

\* Of the others, on another chain, anything goes.
Replaced == replaced' = TRUE

Next == Replaced \/ \E i \in Intents : Authorise(i) \/ Mint(i) \/ Record(i)

Spec == Init /\ [][Next]_mintVars

=============================================================================
