---------------------------- MODULE SweepPromise ----------------------------
(***************************************************************************)
(* What sweeping a plain deposit address comes to, with neither passes nor *)
(* gas nor signer: a transfer of all that an address holds is sent, runs   *)
(* or is lost, and rows are marked swept once their USDT has left, which   *)
(* on BSC means that it arrived and on TRON that a transfer of it was      *)
(* broadcast.  PlainSweep is checked to implement this specification, and  *)
(* Reconciliation reads the balances and the rows that it moves.           *)
(*                                                                         *)
(* A deposit is a row of mint_intents and the USDT that backs it, so what  *)
(* an address holds is a set of deposits.                                  *)
(***************************************************************************)
EXTENDS Integers, FiniteSets, FiniteSetsExt

CONSTANTS
  Deposits,   \* the deposits there can be
  Addresses,  \* the deposit addresses, one per index
  Bsc,        \* those on BNB Smart Chain
  Home,       \* the address each deposit is sent to
  Credited    \* the deposits credited before the model starts

ASSUME AddressAssumption ==
  Bsc \subseteq Addresses /\ Home \in [Deposits -> Addresses] /\ Credited \subseteq Deposits

VARIABLES
  status,  \* mint_intents.status; "none" until the verifier has seen the deposit
  swept,   \* the rows with swept_at
  place,   \* where a deposit's USDT is: not sent yet, at its address, moved to custody
  tx,      \* the deposits that the transfer pending from an address moves
  sent     \* history: the deposits some broadcast transfer was sized to move

promiseVars == <<status, swept, place, tx, sent>>

Statuses == {"none", "needs_manual", "approved", "submitted", "credited"}
Rails == {"tron", "bsc"}
Rail(a) == IF a \in Bsc THEN "bsc" ELSE "tron"
OnBsc(d) == Home[d] \in Bsc
Here(a) == {d \in Deposits : Home[d] = a /\ place[d] = "here"}

\* The rows a pass may sweep; those of an earlier status are left to the verifier.
Sweepable(rail) ==
  {d \in Deposits \ swept : Rail(Home[d]) = rail /\ status[d] \in {"credited", "submitted"}}

HasLeft(d) == IF OnBsc(d) THEN place[d] = "moved" ELSE d \in sent

PromiseInit ==
  /\ status = [d \in Deposits |-> IF d \in Credited THEN "credited" ELSE "none"]
  /\ place = [d \in Deposits |-> IF d \in Credited THEN "here" ELSE "away"]
  /\ swept = {} /\ sent = {}
  /\ tx = [a \in Addresses |-> {}]

Arrive(d) ==
  /\ place[d] = "away"
  /\ place' = [place EXCEPT ![d] = "here"]
  /\ UNCHANGED <<status, swept, tx, sent>>

\* The verifier, the outbox and the watcher, for a deposit that has arrived.
SetStatus(d, s) ==
  /\ place[d] # "away"
  /\ status' = [status EXCEPT ![d] = s]
  /\ UNCHANGED <<swept, place, tx, sent>>

\* A transfer of everything at an address where a row waits to be swept; D is what
\* was there when its amount was read.
Send(a, D) ==
  /\ tx[a] = {} /\ D # {} /\ D \subseteq Here(a)
  /\ \E d \in Sweepable(Rail(a)) : Home[d] = a
  /\ tx' = [tx EXCEPT ![a] = D]
  /\ sent' = sent \cup D
  /\ UNCHANGED <<status, swept, place>>

Land(a) ==
  /\ tx[a] # {} /\ tx[a] \subseteq Here(a)
  /\ place' = [d \in Deposits |-> IF d \in tx[a] THEN "moved" ELSE place[d]]
  /\ tx' = [tx EXCEPT ![a] = {}]
  /\ UNCHANGED <<status, swept, sent>>

\* It expires, or runs and fails.
Lose(a) ==
  /\ tx[a] # {}
  /\ tx' = [tx EXCEPT ![a] = {}]
  /\ UNCHANGED <<status, swept, place, sent>>

Mark(a, R) ==
  /\ R # {} /\ R \subseteq {d \in Sweepable(Rail(a)) : Home[d] = a /\ HasLeft(d)}
  /\ swept' = swept \cup R
  /\ UNCHANGED <<status, place, tx, sent>>

PromiseNext ==
  \/ \E d \in Deposits : Arrive(d) \/ \E s \in Statuses : SetStatus(d, s)
  \/ \E a \in Addresses :
       \/ Land(a) \/ Lose(a)
       \/ \E D \in SUBSET Deposits : Send(a, D) \/ Mark(a, D)

PromiseSpec == PromiseInit /\ [][PromiseNext]_promiseVars

=============================================================================
