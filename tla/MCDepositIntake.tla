--------------------------- MODULE MCDepositIntake ---------------------------
(* Instances of DepositIntake for TLC. *)
EXTENDS DepositIntake, TLC

CONSTANTS r1, r2, r3, u1, u2, t1, t2, t3, W, S, A, B, X, P, p1, p2, p3, p4, h1, h2, h3

MCAsker == (r1 :> u1) @@ (r2 :> u1) @@ (r3 :> u2)

\* a user's, a stranger's, and a sweep
MCTopUpFrom == (t1 :> W) @@ (t2 :> X) @@ (t3 :> S)

\* a user's payment to the pay-in address; an exchange's, in one transaction, to two users'
\* addresses; and the sweep of one of them
MCHash == (p1 :> h1) @@ (p2 :> h2) @@ (p3 :> h2) @@ (p4 :> h3)
MCFrom == (p1 :> W) @@ (p2 :> X) @@ (p3 :> X) @@ (p4 :> A)
MCTo == (p1 :> P) @@ (p2 :> A) @@ (p3 :> B) @@ (p4 :> P)
=============================================================================
