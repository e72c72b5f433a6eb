------------------------- MODULE MCRedemptionPayout -------------------------
(* Instances of RedemptionPayout for TLC. *)
EXTENDS RedemptionPayout, TLC

CONSTANTS t1, t2, t3

MCTxns == {t1, t2, t3}
MCTwoTxns == {t1, t2}
TxnSymmetry == Permutations(MCTxns)
TwoTxnSymmetry == Permutations(MCTwoTxns)

MCTwo == {1, 2}
MCThree == {1, 2, 3}

\* Each redemption alone fits the cap of 3; the first two together do, and no three.
MCAmount == [r \in Redemptions |-> IF r = 3 THEN 2 ELSE 1]
\* The second redemption exceeds the cap of 3 with the first, and the third never fits.
MCAmountTight == [r \in Redemptions |-> CASE r = 1 -> 2 [] r = 2 -> 2 [] OTHER -> 4]

MCDistinct == [r \in Redemptions |-> r]
MCTwins == [r \in Redemptions |-> 1]
=============================================================================
