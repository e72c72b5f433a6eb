-------------------------------- MODULE Sums --------------------------------
(***************************************************************************)
(* The totals the other modules speak of - a day's payouts, a day's mints, *)
(* what an account was credited, what an address holds - are sums of a     *)
(* function over a finite set.  SumsProofs has the facts about them.       *)
(***************************************************************************)
EXTENDS Integers, FiniteSetsExt

\* The sum of f over S: a SQL SUM, a fold over rows.
SumOver(f, S) == MapThenSumSet(LAMBDA x : f[x], S)

=============================================================================
