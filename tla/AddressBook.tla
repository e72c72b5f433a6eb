----------------------------- MODULE AddressBook -----------------------------
(***************************************************************************)
(* How a user gets the one permanent deposit address (addresses.rs):       *)
(* requests of the same user run side by side, each may derive an address  *)
(* of its own, and all of them must answer with the one that is stored,    *)
(* which is the one that is watched.                                       *)
(*                                                                         *)
(* An address is known by its derivation index.                            *)
(***************************************************************************)
EXTENDS Naturals

CONSTANTS
  Requests,    \* the requests for an address there can be
  Asker        \* the user who makes each

VARIABLES
  sequence,    \* deposit_derivation_index_seq
  row,         \* deposit_addresses: the user's index, 0 while there is no row
  apc,         \* where a request is
  index,       \* the index it allocated
  answer       \* the index of the address it answers with, 0 before that

addressVars == <<sequence, row, apc, index, answer>>

Askers == {Asker[r] : r \in Requests}

AddressTypeOK ==
  /\ sequence \in Nat
  /\ row \in [Askers -> 0..sequence]
  /\ apc \in [Requests -> {"new", "allocate", "insert", "reread", "done"}]
  /\ index \in [Requests -> 0..sequence]
  /\ answer \in [Requests -> 0..sequence]

AddressInit ==
  /\ sequence = 0
  /\ row = [u \in Askers |-> 0]
  /\ apc = [r \in Requests |-> "new"]
  /\ index = [r \in Requests |-> 0]
  /\ answer = [r \in Requests |-> 0]

At(r, from, to) == apc[r] = from /\ apc' = [apc EXCEPT ![r] = to]

\* existing: a user who has an address keeps it.
LookUp(r) ==
  LET found == row[Asker[r]]
  IN /\ At(r, "new", IF found = 0 THEN "allocate" ELSE "done")
     /\ answer' = [answer EXCEPT ![r] = found]
     /\ UNCHANGED <<sequence, row, index>>

\* nextval, which no rollback takes back
Allocate(r) ==
  /\ At(r, "allocate", "insert")
  /\ sequence' = sequence + 1
  /\ index' = [index EXCEPT ![r] = sequence']
  /\ UNCHANGED <<row, answer>>

\* ON CONFLICT (user_pk) DO NOTHING
Insert(r) ==
  /\ At(r, "insert", "reread")
  /\ row' = [row EXCEPT ![Asker[r]] = IF @ = 0 THEN index[r] ELSE @]
  /\ UNCHANGED <<sequence, index, answer>>

AnswerDerived(r) == \* mutant: the answer is the address that was derived
  /\ At(r, "reread", "done")
  /\ answer' = [answer EXCEPT ![r] = index[r]]
  /\ UNCHANGED <<sequence, row, index>>

ReRead(r) ==
  /\ At(r, "reread", "done")
  /\ answer' = [answer EXCEPT ![r] = row[Asker[r]]]
  /\ UNCHANGED <<sequence, row, index>>

\* The database fails, or the service stops.
RequestFails(r) ==
  /\ apc[r] # "done"
  /\ apc' = [apc EXCEPT ![r] = "done"]
  /\ UNCHANGED <<sequence, row, index, answer>>

AddressNext ==
  \E r \in Requests :
    LookUp(r) \/ Allocate(r) \/ Insert(r) \/ ReRead(r) \/ RequestFails(r)

\* Every address a user was ever given is the one of the user's row, which the poller
\* watches, and no two users have the same (addresses.rs:60-66).
HandedOutIsWatched ==
  /\ \A r \in Requests : answer[r] \in {0, row[Asker[r]]}
  /\ \A u, v \in Askers : row[u] = row[v] => u = v \/ row[u] = 0

=============================================================================
