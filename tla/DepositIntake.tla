---------------------------- MODULE DepositIntake ----------------------------
(***************************************************************************)
(* How the orchestrator comes to know of a deposit, but for the permanent  *)
(* TRON addresses, which are DepositPoller's: the addresses it gives out,  *)
(* the top-ups paid to the pay-in address on TRON, those on BNB Smart      *)
(* Chain, and the addresses of old deposit intents.                        *)
(*                                                                         *)
(* The four share a table, deposit_intents, and its unique index on the    *)
(* transaction, but no row of it: a transaction is of one chain and of one *)
(* kind of address.  So a behaviour follows one of them.                   *)
(***************************************************************************)
EXTENDS AddressBook, DirectTopUps, BscTopUps, LegacyIntents

VARIABLE follows   \* which of the four

vars == <<follows, addressVars, directVars, bscVars, legacyVars>>

TypeOK ==
  /\ follows \in {"addresses", "direct", "bsc", "legacy"}
  /\ AddressTypeOK /\ DirectTypeOK /\ BscTypeOK /\ LegacyTypeOK

Init ==
  /\ follows \in {"addresses", "direct", "bsc", "legacy"}
  /\ AddressInit /\ DirectInit /\ BscInit /\ LegacyInit

Next ==
  /\ UNCHANGED follows
  /\ \/ follows = "addresses" /\ AddressNext /\ UNCHANGED <<directVars, bscVars, legacyVars>>
     \/ follows = "direct" /\ DirectNext /\ UNCHANGED <<addressVars, bscVars, legacyVars>>
     \/ follows = "bsc" /\ BscNext /\ UNCHANGED <<addressVars, directVars, legacyVars>>
     \/ follows = "legacy" /\ LegacyNext /\ UNCHANGED <<addressVars, directVars, bscVars>>

Spec == Init /\ [][Next]_vars

\* Nobody's money is credited to somebody else, twice, or for a transfer that gave way,
\* and what was reported for a refund is never credited, however passes overlap with the
\* chain, fail and are repeated.
RightlyCredited == DirectRightly /\ BscRightly /\ LegacyRightly

\* A watcher stops looking for a payment only when the payment is settled: credited,
\* reported to a human, or ours.  Those excepted whose handling failed in the pass that
\* gave them up, which direct.rs and poller.rs log and go on from.
NothingIsLost ==
  [][/\ \A t \in TopUps :
          DirectBehind(t)' /\ ~DirectBehind(t) => DirectSettled(t)' \/ t \in mishandled'
     /\ \A p \in Payments : BscBehind(p)' /\ ~BscBehind(p) => BscSettled(p)'
     /\ \A i \in Intents :
          LegacyBehind(i)' /\ ~LegacyBehind(i) => LegacySettled(i)' \/ i \in spoiled']_vars

=============================================================================
