-------------------------- MODULE MCDepositBridge --------------------------
(* Instances of DepositBridge for TLC. *)
EXTENDS DepositBridge, TLC

CONSTANTS d1, d2, x1, x2, A, B, G, F, P, W, V

Asks(network, from, to, tx, amount) ==
  [network |-> network, from |-> from, to |-> to, tx |-> tx, amount |-> amount, user |-> W]
Move(from, to, amount) == [from |-> from, to |-> to, amount |-> amount]
Scene(a1, a2, m1, m2, late, ages) ==
  [ask |-> (d1 :> a1) @@ (d2 :> a2), paid |-> (x1 :> m1) @@ (x2 :> m2), late |-> late, ages |-> ages]

MCScenes == {
  \* two deposits at one plain address, the second without a hash
  Scene(Asks("tron", NoOne, A, x1, 2), Asks("tron", NoOne, A, NoTransfer, 2),
        Move(V, A, 2), Move(V, A, 2), {x2}, {x2}),
  \* a first and a later deposit at a GasFree account
  Scene(Asks("tron", NoOne, G, x1, 5), Asks("tron", NoOne, G, x2, 4),
        Move(V, G, 5), Move(V, G, 4), {}, {}),
  \* a direct top-up, and one on BSC that somebody else paid
  Scene(Asks("tron", W, F, x1, 3), Asks("bsc", W, P, x2, 3),
        Move(W, F, 3), Move(V, P, 3), {x1}, {x1}),
  \* a deposit at a BSC address, and one that the sweep of its account would eat
  Scene(Asks("bsc", NoOne, B, x1, 3), Asks("tron", NoOne, G, x2, 3),
        Move(V, B, 3), Move(V, G, 3), {x1}, {})}
=============================================================================
