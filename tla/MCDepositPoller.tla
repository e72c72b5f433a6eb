-------------------------- MODULE MCDepositPoller --------------------------
(* Instances of DepositPoller for TLC. *)
EXTENDS DepositPoller

CONSTANTS a1, a2, a3, t1, t2

MCThree == {a1, a2, a3}
MCTwo == {a1, a2}
MCTransfers == {t1, t2}
MCOne == {t1}
MCDust == {t2}
MCTo == [t \in Transfers |-> a1]
=============================================================================
