------------------------------ MODULE BscTopUps ------------------------------
(***************************************************************************)
(* Top-ups on BNB Smart Chain (bsc_watch.rs): one pass reads the blocks    *)
(* after its cursor that are deep enough, first for payments to the pay-in *)
(* address, which are credited to a sender who asked first, then for       *)
(* payments to the users' own addresses, which are credited to the user.   *)
(*                                                                         *)
(* A payment is what one transaction moved to one address; it comes from   *)
(* NoSender when several people paid.  The transaction is the key of the   *)
(* deposit, so that a second payment of the same one is reported.  A       *)
(* block's number is also its time.                                        *)
(***************************************************************************)
EXTENDS Integers

CONSTANTS
  Payments,     \* the payments there can be
  Hash,         \* the transaction of each
  From,         \* who sends it
  To,           \* the address it goes to
  TooSmall,     \* those of less than a micro-USDT
  NoSender,
  PayIn,        \* the pay-in address
  Wallets,      \* the users' own addresses
  UserAddresses,\* the deposit addresses that users can be given
  Confirmations,
  MaxRange,     \* MAX_RANGE
  Lookback,     \* INITIAL_LOOKBACK
  MaxHead,      \* bound: blocks
  MaxBscFails   \* bound: failures

ASSUME BscAssumption ==
  /\ {Confirmations, Lookback, MaxHead, MaxBscFails} \subseteq Nat /\ MaxRange \in Nat \ {0}
  /\ \A p \in Payments : To[p] \in UserAddresses \cup {PayIn}
  /\ PayIn \notin UserAddresses /\ NoSender \notin Wallets
\* One payment is all that a transaction moved to the address.
ASSUME PaymentsAssumption == \A p, q \in Payments : Hash[p] = Hash[q] /\ To[p] = To[q] => p = q

VARIABLES
  head,         \* the number of the last block
  minedIn,      \* the block of a payment, 0 while it is in none
  given,        \* deposit_addresses.bsc_address: those given out
  joinedAt,     \* bsc_payers.created_at
  cursor,       \* bsc_watch.last_block
  origin,       \* history: the first block that a whole pass read
  bpc,          \* where the pass is
  from,         \* the blocks it reads
  to,
  owners,       \* the addresses it knows
  unread,       \* the payments it read and has not handled
  deposited,    \* deposit_intents: the payments that were credited
  reported,     \* bsc_unattributed
  bscFails      \* history: failures so far

bscChainVars == <<head, minedIn, given, joinedAt>>
bscRowVars == <<deposited, reported>>
bscVars ==
  <<bscChainVars, cursor, origin, bpc, from, to, owners, unread, bscRowVars, bscFails>>

NoBlock == -1

BscTypeOK ==
  /\ head \in 0..MaxHead
  /\ minedIn \in [Payments -> 0..head]
  /\ given \subseteq UserAddresses
  /\ joinedAt \in [Wallets -> {NoBlock} \cup 0..head + 1]
  /\ cursor \in {NoBlock} \cup 0..head /\ origin \in {NoBlock} \cup 0..head
  /\ bpc \in {"idle", "owners", "payin", "address"}
  /\ from \in Nat /\ to \in 0..head
  /\ owners \subseteq given
  /\ unread \subseteq Payments
  /\ deposited \subseteq Payments /\ reported \subseteq Payments
  /\ bscFails \in 0..MaxBscFails

BscInit ==
  /\ head = 0
  /\ minedIn = [p \in Payments |-> 0]
  /\ given = {} /\ joinedAt = [w \in Wallets |-> NoBlock]
  /\ cursor = NoBlock /\ origin = NoBlock
  /\ bpc = "idle" /\ from = 0 /\ to = 0 /\ owners = {} /\ unread = {}
  /\ deposited = {} /\ reported = {}
  /\ bscFails = 0

bscPassVars == <<cursor, origin, bpc, from, to, owners, unread>>

(***************************************************************************)
(* The chain, and the users                                                *)
(***************************************************************************)

Together(p) == {q \in Payments : Hash[q] = Hash[p]}

\* Nobody pays an address that was not given out, and a transaction is in one block.
NewBlock(S) ==
  /\ head < MaxHead
  /\ \A p \in S : Together(p) \subseteq S
  /\ \A p \in S : minedIn[p] = 0 /\ To[p] \in given \cup {PayIn} /\ (From[p] \in UserAddresses => From[p] \in given)
  /\ head' = head + 1
  /\ minedIn' = [p \in Payments |-> IF p \in S THEN head' ELSE minedIn[p]]
  /\ UNCHANGED <<given, joinedAt, bscPassVars, bscRowVars, bscFails>>

\* Blocks that are not deep enough give way to others.
Reorg(p) ==
  /\ minedIn[p] > head - Confirmations /\ minedIn[p] # 0
  /\ minedIn' = [q \in Payments |-> IF q \in Together(p) THEN 0 ELSE minedIn[q]]
  /\ UNCHANGED <<head, given, joinedAt, bscPassVars, bscRowVars, bscFails>>

\* bsc_address_for_user: of two requests at a time both store the same address.
Give(a) ==
  /\ a \notin given
  /\ given' = given \cup {a}
  /\ UNCHANGED <<head, minedIn, joinedAt, bscPassVars, bscRowVars, bscFails>>

\* register_payer: the second that it asks in may be the last block's.
Join(w) ==
  /\ joinedAt[w] = NoBlock
  /\ \E s \in {head, head + 1} : joinedAt' = [joinedAt EXCEPT ![w] = s]
  /\ UNCHANGED <<head, minedIn, given, bscPassVars, bscRowVars, bscFails>>

(***************************************************************************)
(* watch_once                                                              *)
(***************************************************************************)

Greater(a, b) == IF a > b THEN a ELSE b
Smaller(a, b) == IF a < b THEN a ELSE b

HeadAsSafe == head \* mutant: blocks are read as soon as they are there
Safe == head - Confirmations

ReadHead ==
  LET first == IF cursor = NoBlock THEN Greater(Safe - Lookback, 0) ELSE cursor + 1
  IN /\ bpc = "idle"
     /\ Safe >= 0 /\ first <= Safe
     /\ from' = first /\ to' = Smaller(Safe, first + MaxRange - 1)
     /\ bpc' = "owners"
     /\ UNCHANGED <<bscChainVars, cursor, origin, owners, unread, bscRowVars, bscFails>>

Read(addresses) == {p \in Payments : To[p] \in addresses /\ minedIn[p] # 0 /\ minedIn[p] \in from..to}

\* The owners, and then the payments to the pay-in address but for the treasury's sweeps.
ReadOwners ==
  /\ bpc = "owners"
  /\ owners' = given
  /\ unread' = {p \in Read({PayIn}) : From[p] \notin given}
  /\ bpc' = "payin"
  /\ UNCHANGED <<bscChainVars, cursor, origin, from, to, bscRowVars, bscFails>>

ReadAddresses ==
  /\ bpc = "payin" /\ unread = {}
  /\ unread' = Read(owners)
  /\ bpc' = "address"
  /\ UNCHANGED <<bscChainVars, cursor, origin, from, to, owners, bscRowVars, bscFails>>

Recorded(p) == \E q \in deposited : Hash[q] = Hash[p]
Joined(p) == From[p] \in Wallets /\ joinedAt[From[p]] \in 0..minedIn[p]

\* handle
HandlePayment(p) ==
  /\ bpc = "payin" /\ p \in unread
  /\ IF p \in TooSmall \cup reported \/ From[p] = PayIn THEN UNCHANGED bscRowVars
     ELSE IF Joined(p)
     THEN deposited' = deposited \cup {q \in {p} : ~Recorded(q)} /\ UNCHANGED reported
     ELSE reported' = reported \cup {p} /\ UNCHANGED deposited
  /\ unread' = unread \ {p}
  /\ UNCHANGED <<bscChainVars, cursor, origin, bpc, from, to, owners, bscFails>>

\* credit_address: of a transaction that is credited to somebody else, a human decides.
CreditAddress(p) ==
  /\ bpc = "address" /\ p \in unread
  /\ IF p \in TooSmall \cup deposited THEN UNCHANGED bscRowVars
     ELSE IF Recorded(p) THEN reported' = reported \cup {p} /\ UNCHANGED deposited
     ELSE deposited' = deposited \cup {p} /\ UNCHANGED reported
  /\ unread' = unread \ {p}
  /\ UNCHANGED <<bscChainVars, cursor, origin, bpc, from, to, owners, bscFails>>

StampCursor ==
  /\ bpc = "address" /\ unread = {}
  /\ cursor' = to
  /\ origin' = IF origin = NoBlock THEN from ELSE origin
  /\ bpc' = "idle"
  /\ UNCHANGED <<bscChainVars, from, to, owners, unread, bscRowVars, bscFails>>

\* A node or the database fails, or the service stops: the range is read again.
BscPassFails ==
  /\ bpc # "idle"
  /\ bscFails < MaxBscFails
  /\ bscFails' = bscFails + 1
  /\ bpc' = "idle" /\ unread' = {}
  /\ UNCHANGED <<bscChainVars, cursor, origin, from, to, owners, bscRowVars>>

BscNext ==
  \/ ReadHead \/ ReadOwners \/ ReadAddresses \/ StampCursor \/ BscPassFails
  \/ \E S \in SUBSET Payments : NewBlock(S)
  \/ \E p \in Payments : Reorg(p) \/ HandlePayment(p) \/ CreditAddress(p)
  \/ \E a \in UserAddresses : Give(a)
  \/ \E w \in Wallets : Join(w)

(***************************************************************************)
(* What it promises                                                        *)
(***************************************************************************)

\* A payment is credited while it is on the chain for good, once per transaction, to a
\* sender who asked first or to the owner of the address, and never when it was reported;
\* a sweep is no top-up.
BscRightly ==
  \A p \in deposited :
    /\ minedIn[p] # 0 /\ p \notin reported
    /\ \A q \in deposited \ {p} : Hash[q] # Hash[p]
    /\ To[p] = PayIn => Joined(p) /\ From[p] \notin UserAddresses

\* No later pass reads the payment's block.
BscBehind(p) == minedIn[p] # 0 /\ origin # NoBlock /\ minedIn[p] \in origin..cursor
BscSettled(p) ==
  \/ p \in deposited \cup reported \cup TooSmall
  \/ To[p] = PayIn /\ From[p] \in given \cup {PayIn}

=============================================================================
