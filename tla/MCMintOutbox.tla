---------------------------- MODULE MCMintOutbox ----------------------------
(* Instances of MintOutbox for TLC. *)
EXTENDS MintOutbox, TLC

MCOne == {1}
MCTwo == {1, 2}

\* Under a cap of 3, either alone and never both; under a cap of 4, both.
MCAmount == [i \in Intents |-> 2]
=============================================================================
