----------------------------- MODULE MintOutbox -----------------------------
(***************************************************************************)
(* The mint pipeline of treasury-service: approval (intents.rs and         *)
(* tron_verifier.rs), the outbox worker that submits approved mints        *)
(* (outbox.rs), the gate it asks before each (breakers.rs), the Clutch     *)
(* chain, and the watcher that credits what the chain confirms             *)
(* (watcher.rs).                                                           *)
(*                                                                         *)
(* The outbox worker and the watcher are two tasks that share only the     *)
(* database and the chain.  drain_once selects its rows and lets go of     *)
(* their locks at once, so everything may change between the select and    *)
(* each row's turn.  A crash loses both tasks' variables, keeps the rows.  *)
(*                                                                         *)
(* The chain is a sequence of blocks with at most one mint each: the node  *)
(* takes one transaction per sender per block.  It refuses a credit_ref it *)
(* has processed, whatever the transaction pays.  How long a row waits     *)
(* (next_attempt_at, updated_at), and how old an intent is (created_at),   *)
(* are abstracted to whether that time is over.                            *)
(***************************************************************************)
EXTENDS Integers, Sequences, FiniteSets, Sums

CONSTANTS
  Intents,        \* mint intents, numbered in the order of their outbox rows
  Amount,         \* amount_clt of each
  DepositBacked,  \* the intents with a client_ref: backed by a verified deposit
  OverTxCap,      \* the intents above the per-transaction cap it starts with
  DailyCap,       \* daily_mint_cap_clt
  NeedsCosigner,  \* TRUE: the chain asks for another authority's signature
  MaxAttempts,    \* MAX_ATTEMPTS
  Confirmations,  \* the depth at which a block is taken as settled
  BreakerTrips,   \* TRUE: the breaker is tripped and reset while the tasks run
  NodeLags,       \* TRUE: the node may be found behind its peers
  DaysPass,       \* TRUE: intents grow older than the window of the daily cap
  MaxHeight,      \* bound: blocks, one fewer after each reset
  MaxApprovals,   \* bound: approvals by hand of an intent that needs one
  MaxTroubles     \* bound: crashes of the service and resets of the whole chain together

NoMint == 0   \* no intent

ASSUME IntentsAssumption == Intents \subseteq Nat \ {NoMint}
ASSUME FinitelyMany == IsFiniteSet(Intents)
ASSUME ConfigAssumption ==
  /\ Amount \in [Intents -> Nat]
  /\ DepositBacked \subseteq Intents
  /\ OverTxCap \subseteq Intents
  /\ DailyCap \in Nat
  /\ NeedsCosigner \in BOOLEAN
  /\ MaxAttempts \in Nat \ {0}
  /\ Confirmations \in Nat
  /\ BreakerTrips \in BOOLEAN
  /\ NodeLags \in BOOLEAN
  /\ DaysPass \in BOOLEAN
  /\ MaxHeight \in Nat
  /\ MaxApprovals \in Nat
  /\ MaxTroubles \in Nat

VARIABLES
  status,    \* mint_intents.status
  outbox,    \* chain_outbox.status, "none" while there is no row
  attempts,  \* chain_outbox.attempts
  due,       \* the rows whose next_attempt_at has come
  stale,     \* the intents not updated for SUBMITTED_TIMEOUT_SECS
  signed,    \* the intents with the approval signatures the chain asks for
  overCap,   \* the intents above the per-transaction cap in force
  halted,    \* breaker_state.minting_halted
  cleared,   \* the intents check_mint has let through, whose approval is under way
  recent,    \* the intents with created_at > now() - interval '24 hours'
  events,    \* how many mint_executed events each intent has
  cursor,    \* chain_cursor.last_processed_height
  pc,        \* where the outbox worker is
  todo,      \* rows it has still to visit
  cur,       \* the row it is submitting or giving up on
  reply,     \* the node's reply to the submission
  wpc,       \* where the watcher is
  scanTo,    \* the last block of its range
  pool,      \* transactions the node has accepted and not mined
  chain,     \* the transaction in each block
  peak,      \* the highest the chain has been
  overtaken, \* history: a new chain has outgrown what the watcher had done of the old one
  resets, approvals, crashes   \* bound the actions of the same names

rowVars == <<status, outbox, attempts, due, stale>>
configVars == <<signed, overCap, halted, cleared, recent>>
workerVars == <<pc, todo, cur, reply>>
watcherVars == <<events, cursor, wpc, scanTo>>
chainVars == <<pool, chain, peak, overtaken, resets>>
countVars == <<approvals, crashes>>
vars == <<rowVars, configVars, workerVars, watcherVars, chainVars, countVars>>

Statuses ==
  {"created", "approved", "submitted", "credited", "failed", "rejected", "needs_manual"}
OutboxStatuses == {"none", "pending", "submitted", "confirmed", "failed"}
Stages == {"idle", "stuck", "give_up", "select", "sync", "rows", "send", "record"}
Replies == {"none", "accepted", "already", "error"}

\* Mutant of CreditRef: a ref for each submission.
CreditRefPerAttempt(i) == <<i, attempts[i]>>

\* credit_ref, intent_ref's digest of the intent's id.  It is stored with the intent,
\* so every submission carries the same.
CreditRef(i) == <<i>>

\* What the node is sent: a mint that pays an intent, under a ref.
MintTx(i) == [intent |-> i, ref |-> CreditRef(i)]
MintTxs == {MintTx(i) : i \in Intents}
EmptyBlock == [intent |-> NoMint, ref |-> <<>>]

TypeOK ==
  /\ status \in [Intents -> Statuses]
  /\ outbox \in [Intents -> OutboxStatuses]
  /\ attempts \in [Intents -> 0..(MaxAttempts + 1)]
  /\ due \subseteq Intents
  /\ stale \subseteq Intents
  /\ signed \subseteq Intents
  /\ overCap \subseteq Intents
  /\ halted \in BOOLEAN
  /\ cleared \subseteq Intents
  /\ recent \subseteq Intents
  /\ events \in [Intents -> Nat]
  /\ cursor \in Nat
  /\ pc \in Stages
  /\ todo \subseteq Intents
  /\ cur \in Intents \cup {NoMint}
  /\ pc \in {"give_up", "send", "record"} => cur \in Intents
  /\ reply \in Replies
  /\ wpc \in {"idle", "block", "advance"}
  /\ scanTo \in Nat
  /\ pool \subseteq MintTxs
  /\ chain \in Seq(MintTxs \cup {EmptyBlock})
  /\ peak \in Nat
  /\ overtaken \in BOOLEAN
  /\ resets \in Nat
  /\ approvals \in Nat
  /\ crashes \in Nat

Init ==
  /\ status = [i \in Intents |-> "created"]
  /\ outbox = [i \in Intents |-> "none"]
  /\ attempts = [i \in Intents |-> 0]
  /\ due = {}
  /\ stale = {}
  /\ signed = IF NeedsCosigner THEN {} ELSE Intents
  /\ overCap = OverTxCap
  /\ halted = FALSE
  /\ cleared = {}
  /\ recent = Intents
  /\ events = [i \in Intents |-> 0]
  /\ cursor = 0
  /\ pc = "idle" /\ todo = {} /\ cur = NoMint /\ reply = "none"
  /\ wpc = "idle" /\ scanTo = 0
  /\ pool = {}
  /\ chain = <<>>
  /\ peak = 0
  /\ overtaken = FALSE
  /\ resets = 0 /\ approvals = 0 /\ crashes = 0

-----------------------------------------------------------------------------
(* Helpers.                                                                *)

SetStatus(i, s) == status' = [status EXCEPT ![i] = s] /\ stale' = stale \ {i}
SetOutbox(i, s) == outbox' = [outbox EXCEPT ![i] = s]

OnChain(i) == \E h \in 1..Len(chain) : chain[h].intent = i

\* The settled blocks that mint an intent.
MintedIn(i) == {h \in 1..Len(chain) : h <= peak - Confirmations /\ chain[h].intent = i}

\* processed_ref_<credit_ref>, the node's exactly-once marker, goes with the blocks.
RefProcessed(r) == \E h \in 1..Len(chain) : chain[h].ref = r

TotalOf(S) == SumOver(Amount, S)

Trouble == crashes + resets < MaxTroubles

NextRow(i) == i \in todo /\ \A j \in todo : i <= j

\* What daily_mint_total and check_mint_inner sum: the intents of the last 24 hours,
\* by the time they were created.
Counted == {i \in recent : status[i] \in {"approved", "submitted", "credited"}}

\* Mutant of WithinDailyCap: what is approved and not yet sent is not counted.
WithinDailyCapSent(i) ==
  TotalOf({j \in recent : status[j] = "credited"} \ {i}) + Amount[i] <= DailyCap

\* check_mint_excluding: an intent's own amount is counted once, whatever its age.
WithinDailyCap(i) == TotalOf(Counted \ {i}) + Amount[i] <= DailyCap

\* check_mint_excluding, but for backing and reconciliation.
MayMint(i) == ~halted /\ i \notin overCap /\ WithinDailyCap(i)

-----------------------------------------------------------------------------
(* Approval and rejection.                                                 *)

\* Mutant of OpenOutbox: an approval keeps the row's old status.
OpenOutboxOnce(i) ==
  /\ outbox' = [outbox EXCEPT ![i] = IF outbox[i] = "none" THEN "pending" ELSE outbox[i]]
  /\ attempts' = [attempts EXCEPT ![i] = 0]
  /\ due' = due \cup {i}

OpenOutbox(i) ==
  /\ SetOutbox(i, "pending")
  /\ attempts' = [attempts EXCEPT ![i] = 0]
  /\ due' = due \cup {i}

\* approve_and_ledger: the verifier approves a deposit it has found on chain.
VerifierApproves(i) ==
  /\ i \in DepositBacked
  /\ status[i] = "created"
  /\ SetStatus(i, "approved")
  /\ OpenOutbox(i)
  /\ UNCHANGED <<configVars, workerVars, watcherVars, chainVars, countVars>>

\* approve_and_ledger with needs_manual: held for a human, no outbox row.
VerifierHolds(i) ==
  /\ i \in DepositBacked
  /\ status[i] = "created"
  /\ SetStatus(i, "needs_manual")
  /\ UNCHANGED <<outbox, attempts, due, configVars, workerVars, watcherVars, chainVars,
                 countVars>>

\* Mutant of VerifierRejects: whatever became of the intent since it was read.
VerifierRejectsLate(i) ==
  /\ i \in DepositBacked
  /\ status[i] # "credited"
  /\ SetStatus(i, "rejected")
  /\ UNCHANGED <<outbox, attempts, due, configVars, workerVars, watcherVars, chainVars,
                 countVars>>

VerifierRejects(i) ==
  /\ i \in DepositBacked
  /\ status[i] = "created"
  /\ SetStatus(i, "rejected")
  /\ UNCHANGED <<outbox, attempts, due, configVars, workerVars, watcherVars, chainVars,
                 countVars>>

\* approve_mint_intent_handler first asks check_mint, then approves: nothing is
\* held between the two.  check_mint leaves no intent of the day out of its sum.
HumanChecks(i) ==
  /\ approvals < MaxApprovals
  /\ i \notin cleared
  /\ ~halted /\ i \notin overCap
  /\ TotalOf(Counted) + Amount[i] <= DailyCap
  /\ cleared' = cleared \cup {i}
  /\ UNCHANGED <<rowVars, signed, overCap, halted, recent, workerVars, watcherVars, chainVars,
                 countVars>>

HumanApproves(i) ==
  /\ approvals < MaxApprovals
  /\ i \in cleared
  /\ status[i] \in {"created", "needs_manual"}
  /\ SetStatus(i, "approved")
  /\ OpenOutbox(i)
  /\ cleared' = cleared \ {i}
  /\ approvals' = approvals + 1
  /\ UNCHANGED <<signed, overCap, halted, recent, workerVars, watcherVars, chainVars, crashes>>

\* Another authority's approval signature arrives.
Cosign(i) ==
  /\ i \notin signed
  /\ signed' = signed \cup {i}
  /\ UNCHANGED <<rowVars, overCap, halted, cleared, recent, workerVars, watcherVars, chainVars,
                 countVars>>

\* set-mint-caps: the operator raises the per-transaction cap.
RaiseCap ==
  /\ overCap # {}
  /\ overCap' = {}
  /\ UNCHANGED <<rowVars, signed, halted, cleared, recent, workerVars, watcherVars, chainVars,
                 countVars>>

SetHalted ==
  /\ BreakerTrips
  /\ halted' = ~halted
  /\ UNCHANGED <<rowVars, signed, overCap, cleared, recent, workerVars, watcherVars, chainVars,
                 countVars>>

\* Time passes for a row that waits.
FallsDue(i) ==
  /\ outbox[i] = "pending" /\ i \notin due
  /\ due' = due \cup {i}
  /\ UNCHANGED <<status, outbox, attempts, stale, configVars, workerVars, watcherVars,
                 chainVars, countVars>>

GoesStale(i) ==
  /\ outbox[i] = "submitted" /\ i \notin stale
  /\ stale' = stale \cup {i}
  /\ UNCHANGED <<status, outbox, attempts, due, configVars, workerVars, watcherVars,
                 chainVars, countVars>>

\* A day has gone by since the intent was created.
Ages(i) ==
  /\ DaysPass
  /\ i \in recent
  /\ recent' = recent \ {i}
  /\ UNCHANGED <<rowVars, signed, overCap, halted, cleared, workerVars, watcherVars, chainVars,
                 countVars>>

-----------------------------------------------------------------------------
(* outbox::requeue_stuck_submissions.                                      *)

SelectStuck ==
  /\ pc = "idle"
  /\ pc' = "stuck"
  /\ todo' = {i \in Intents : outbox[i] = "submitted" /\ i \in stale}
  /\ UNCHANGED <<rowVars, configVars, cur, reply, watcherVars, chainVars, countVars>>

\* Mutant of Requeue: the attempts start again from zero.
RequeueAfresh(i) ==
  /\ pc = "stuck" /\ i \in todo
  /\ attempts[i] < MaxAttempts
  /\ IF outbox[i] = "submitted"
       THEN OpenOutbox(i) /\ UNCHANGED <<status, stale>>
       ELSE UNCHANGED rowVars
  /\ todo' = todo \ {i}
  /\ UNCHANGED <<configVars, pc, cur, reply, watcherVars, chainVars, countVars>>

\* Mutant of Requeue: whatever the attempts.
RequeueForever(i) ==
  /\ pc = "stuck" /\ i \in todo
  /\ IF outbox[i] = "submitted"
       THEN /\ SetOutbox(i, "pending")
            /\ attempts' = [attempts EXCEPT ![i] = @ + 1]
            /\ due' = due \cup {i}
            /\ UNCHANGED <<status, stale>>
       ELSE UNCHANGED rowVars
  /\ todo' = todo \ {i}
  /\ UNCHANGED <<configVars, pc, cur, reply, watcherVars, chainVars, countVars>>

\* Never confirmed: back to pending, if it is still submitted.
Requeue(i) ==
  /\ pc = "stuck" /\ i \in todo
  /\ attempts[i] < MaxAttempts
  /\ IF outbox[i] = "submitted"
       THEN /\ SetOutbox(i, "pending")
            /\ attempts' = [attempts EXCEPT ![i] = @ + 1]
            /\ due' = due \cup {i}
            /\ UNCHANGED <<status, stale>>
       ELSE UNCHANGED rowVars
  /\ todo' = todo \ {i}
  /\ UNCHANGED <<configVars, pc, cur, reply, watcherVars, chainVars, countVars>>

\* Out of attempts: the row is closed, and then the intent, whatever they are now.
CloseExhausted(i) ==
  /\ pc = "stuck" /\ i \in todo
  /\ attempts[i] >= MaxAttempts
  /\ SetOutbox(i, "failed")
  /\ pc' = "give_up" /\ cur' = i /\ todo' = todo \ {i}
  /\ UNCHANGED <<status, attempts, due, stale, configVars, reply, watcherVars, chainVars,
                 countVars>>

GiveUp ==
  /\ pc = "give_up"
  /\ SetStatus(cur, "needs_manual")
  /\ pc' = "stuck" /\ cur' = NoMint
  /\ UNCHANGED <<outbox, attempts, due, configVars, todo, reply, watcherVars, chainVars,
                 countVars>>

\* A database error here does not stop the drain.
StuckAborts ==
  /\ Trouble
  /\ pc \in {"idle", "stuck", "give_up"}
  /\ crashes' = crashes + 1
  /\ pc' = "select" /\ todo' = {} /\ cur' = NoMint
  /\ UNCHANGED <<rowVars, configVars, reply, watcherVars, chainVars, approvals>>

EndOfStuck ==
  /\ pc = "stuck" /\ todo = {}
  /\ pc' = "select"
  /\ UNCHANGED <<rowVars, configVars, todo, cur, reply, watcherVars, chainVars, countVars>>

-----------------------------------------------------------------------------
(* outbox::drain_once.                                                     *)

SelectDue ==
  /\ pc = "select"
  /\ pc' = "sync"
  /\ todo' = {i \in Intents : outbox[i] = "pending" /\ i \in due}
  /\ UNCHANGED <<rowVars, configVars, cur, reply, watcherVars, chainVars, countVars>>

\* chain_sync::check: behind its peers, every row is parked.
NodeBehind ==
  /\ NodeLags
  /\ pc = "sync"
  /\ due' = due \ todo
  /\ pc' = "idle" /\ todo' = {}
  /\ UNCHANGED <<status, outbox, attempts, stale, configVars, cur, reply, watcherVars,
                 chainVars, countVars>>

NodeInSync ==
  /\ pc = "sync"
  /\ pc' = "rows"
  /\ UNCHANGED <<rowVars, configVars, todo, cur, reply, watcherVars, chainVars, countVars>>

Park(i) == due' = due \ {i} /\ UNCHANGED <<status, outbox, attempts, stale>>

\* fail_or_backoff: one attempt fewer, and at the last the row and the intent fail.
FailOrBackoff(i) ==
  /\ attempts' = [attempts EXCEPT ![i] = @ + 1]
  /\ IF attempts[i] + 1 >= MaxAttempts
       THEN SetOutbox(i, "failed") /\ SetStatus(i, "failed") /\ UNCHANGED due
       ELSE due' = due \ {i} /\ UNCHANGED <<status, outbox, stale>>

Denial(i) == IF i \in DepositBacked THEN Park(i) ELSE FailOrBackoff(i)

\* The breaker is on, the day's budget is spent, or the last reconciliation is
\* a mismatch or too old (which BreakerTrips also stands for).
GateDenies(i) ==
  /\ pc = "rows" /\ NextRow(i)
  /\ halted \/ (i \notin overCap /\ (BreakerTrips \/ ~WithinDailyCap(i)))
  /\ Denial(i)
  /\ todo' = todo \ {i}
  /\ UNCHANGED <<configVars, pc, cur, reply, watcherVars, chainVars, countVars>>

\* The backing ratio is below the threshold: the gate itself trips the breaker.
GateTrips(i) ==
  /\ BreakerTrips
  /\ pc = "rows" /\ NextRow(i)
  /\ MayMint(i)
  /\ halted' = TRUE
  /\ Denial(i)
  /\ todo' = todo \ {i}
  /\ UNCHANGED <<signed, overCap, cleared, recent, pc, cur, reply, watcherVars, chainVars, countVars>>

\* needs_manual: above the per-transaction cap, no retry can pass.
GateEscalates(i) ==
  /\ pc = "rows" /\ NextRow(i)
  /\ ~halted /\ i \in overCap
  /\ SetOutbox(i, "failed")
  /\ IF status[i] = "approved" THEN SetStatus(i, "needs_manual") ELSE UNCHANGED <<status, stale>>
  /\ todo' = todo \ {i}
  /\ UNCHANGED <<attempts, due, configVars, pc, cur, reply, watcherVars, chainVars, countVars>>

AwaitCosigner(i) ==
  /\ pc = "rows" /\ NextRow(i)
  /\ MayMint(i) /\ i \notin signed
  /\ Park(i)
  /\ todo' = todo \ {i}
  /\ UNCHANGED <<configVars, pc, cur, reply, watcherVars, chainVars, countVars>>

PassGate(i) ==
  /\ pc = "rows" /\ NextRow(i)
  /\ MayMint(i) /\ i \in signed
  /\ pc' = "send" /\ cur' = i /\ todo' = todo \ {i}
  /\ UNCHANGED <<rowVars, configVars, reply, watcherVars, chainVars, countVars>>

EndOfRows ==
  /\ pc = "rows" /\ todo = {}
  /\ pc' = "idle"
  /\ UNCHANGED <<rowVars, configVars, todo, cur, reply, watcherVars, chainVars, countVars>>

(* get_next_nonce, build_raw_transaction and send_raw_transaction.          *)

Replied(r) ==
  /\ reply' = r /\ pc' = "record"
  /\ UNCHANGED <<rowVars, configVars, todo, cur, watcherVars, chain, peak, overtaken, resets,
                 countVars>>

\* The node takes the mint; the reply may be lost, which reads as an error.
NodeAccepts ==
  /\ pc = "send"
  /\ ~RefProcessed(CreditRef(cur))
  /\ pool' = pool \cup {MintTx(cur)}
  /\ \E r \in {"accepted", "error"} : Replied(r)

\* "already processed": an earlier attempt has landed.
NodeKnowsRef ==
  /\ pc = "send"
  /\ RefProcessed(CreditRef(cur))
  /\ \E r \in {"already", "error"} : Replied(r)
  /\ UNCHANGED pool

\* No nonce, no signature, no connection, or the node refuses for another reason.
SendFails ==
  /\ pc = "send"
  /\ Replied("error")
  /\ UNCHANGED pool

Recorded == pc' = "rows" /\ cur' = NoMint /\ reply' = "none"

\* submit_ok and mark_submitted_no_hash write the same: submitted, whatever it was.
MarkSubmitted(i) ==
  /\ SetStatus(i, "submitted")
  /\ SetOutbox(i, "submitted")
  /\ UNCHANGED <<attempts, due>>

OnAccepted ==
  /\ pc = "record" /\ reply = "accepted"
  /\ MarkSubmitted(cur)
  /\ Recorded
  /\ UNCHANGED <<configVars, todo, watcherVars, chainVars, countVars>>

OnAlreadyProcessed ==
  /\ pc = "record" /\ reply = "already"
  /\ MarkSubmitted(cur)
  /\ Recorded
  /\ UNCHANGED <<configVars, todo, watcherVars, chainVars, countVars>>

OnError ==
  /\ pc = "record" /\ reply = "error"
  /\ FailOrBackoff(cur)
  /\ Recorded
  /\ UNCHANGED <<configVars, todo, watcherVars, chainVars, countVars>>

\* A database error ends the drain with ?, and a crash ends the pass anywhere.
DrainAborts ==
  /\ Trouble
  /\ pc # "idle"
  /\ crashes' = crashes + 1
  /\ pc' = "idle" /\ todo' = {} /\ cur' = NoMint /\ reply' = "none"
  /\ UNCHANGED <<rowVars, configVars, watcherVars, chainVars, approvals>>

-----------------------------------------------------------------------------
(* watcher::poll_once.                                                     *)

\* process_range: the cursor is above the head, so the chain was reset.
Rewind ==
  /\ wpc = "idle"
  /\ cursor > Len(chain)
  /\ cursor' = 0
  /\ UNCHANGED <<rowVars, configVars, workerVars, events, wpc, scanTo, chainVars, countVars>>

Poll ==
  /\ wpc = "idle"
  /\ cursor < Len(chain) - Confirmations
  /\ wpc' = "block" /\ scanTo' = Len(chain) - Confirmations
  /\ UNCHANGED <<rowVars, configVars, workerVars, events, cursor, chainVars, countVars>>

\* credit_mint, one transaction; the index on (intent_id, kind) refuses a second event.
CreditMint(i) ==
  /\ events' = [events EXCEPT ![i] = IF @ = 0 THEN 1 ELSE @]
  /\ IF status[i] \in {"submitted", "approved"}
       THEN SetStatus(i, "credited")
       ELSE UNCHANGED <<status, stale>>
  /\ SetOutbox(i, "confirmed")

\* The watcher finds the intent of a mint by its credit_ref.
InBlock(h) == {i \in Intents : CreditRef(i) = chain[h].ref}

\* Mutant of ProcessBlock: a mint is credited only while its intent waits for it.
ProcessBlockInFlight ==
  /\ wpc = "block"
  /\ cursor + 1 <= Len(chain)
  /\ LET waiting == {i \in InBlock(cursor + 1) : status[i] = "submitted"}
     IN  \/ \E i \in waiting : CreditMint(i)
         \/ waiting = {} /\ UNCHANGED <<status, stale, outbox, events>>
  /\ wpc' = "advance"
  /\ UNCHANGED <<attempts, due, configVars, workerVars, cursor, scanTo, chainVars, countVars>>

\* A credited intent is passed over; any other is credited, whatever it is.
ProcessBlock ==
  /\ wpc = "block"
  /\ cursor + 1 <= Len(chain)
  /\ LET waiting == {i \in InBlock(cursor + 1) : status[i] # "credited"}
     IN  \/ \E i \in waiting : CreditMint(i)
         \/ waiting = {} /\ UNCHANGED <<status, stale, outbox, events>>
  /\ wpc' = "advance"
  /\ UNCHANGED <<attempts, due, configVars, workerVars, cursor, scanTo, chainVars, countVars>>

\* Mutant of Advance: after a block, the cursor is at the end of the range.
AdvanceToEnd ==
  /\ wpc = "advance"
  /\ cursor' = scanTo
  /\ wpc' = "idle"
  /\ UNCHANGED <<rowVars, configVars, workerVars, events, scanTo, chainVars, countVars>>

\* The cursor moves in a statement of its own, after the block's writes.
Advance ==
  /\ wpc = "advance"
  /\ cursor' = cursor + 1
  /\ wpc' = IF cursor + 1 = scanTo THEN "idle" ELSE "block"
  /\ UNCHANGED <<rowVars, configVars, workerVars, events, scanTo, chainVars, countVars>>

\* The node no longer has the block.
BlockMissing ==
  /\ wpc = "block"
  /\ cursor + 1 > Len(chain)
  /\ wpc' = "idle"
  /\ UNCHANGED <<rowVars, configVars, workerVars, events, cursor, scanTo, chainVars, countVars>>

WatcherAborts ==
  /\ Trouble
  /\ wpc # "idle"
  /\ crashes' = crashes + 1
  /\ wpc' = "idle"
  /\ UNCHANGED <<rowVars, configVars, workerVars, events, cursor, scanTo, chainVars, approvals>>

-----------------------------------------------------------------------------
(* The Clutch chain.                                                       *)

\* The last block the watcher has been through, as the cursor says and as it is.
Done == {cursor, IF wpc = "advance" THEN cursor + 1 ELSE cursor}

AppendBlock(tx) ==
  /\ Len(chain) + resets < MaxHeight
  /\ chain' = Append(chain, tx)
  /\ peak' = IF Len(chain) + 1 > peak THEN Len(chain) + 1 ELSE peak
  /\ pool' = pool \ {tx}
  /\ overtaken' = (overtaken \/ Len(chain) + 1 \in Done)
  /\ UNCHANGED <<rowVars, configVars, workerVars, watcherVars, resets, countVars>>

Mine(tx) == tx \in pool /\ ~RefProcessed(tx.ref) /\ AppendBlock(tx)

MineEmpty == AppendBlock(EmptyBlock)

\* A transaction dies in the pool: its nonce was consumed by another.
Drop(tx) ==
  /\ tx \in pool
  /\ pool' = pool \ {tx}
  /\ UNCHANGED <<rowVars, configVars, workerVars, watcherVars, chain, peak, overtaken, resets,
                 countVars>>

\* A block not yet Confirmations deep gives way; its mint returns to the pool or dies.
Reorg ==
  /\ Len(chain) > 0 /\ Len(chain) > peak - Confirmations
  /\ pool' \in {pool, pool \cup ({chain[Len(chain)]} \ {EmptyBlock})}
  /\ chain' = SubSeq(chain, 1, Len(chain) - 1)
  /\ UNCHANGED <<rowVars, configVars, workerVars, watcherVars, peak, overtaken, resets, countVars>>

\* The whole chain is reset beneath the service.
ChainReset ==
  /\ Trouble
  /\ chain # <<>>
  /\ chain' = <<>> /\ peak' = 0 /\ pool' = {}
  /\ resets' = resets + 1
  /\ UNCHANGED <<rowVars, configVars, workerVars, watcherVars, overtaken, countVars>>

-----------------------------------------------------------------------------

Approval ==
  \E i \in Intents :
    \/ VerifierApproves(i) \/ VerifierHolds(i) \/ VerifierRejects(i)
    \/ HumanChecks(i) \/ HumanApproves(i)

Stuck ==
  \/ SelectStuck
  \/ \E i \in Intents : Requeue(i) \/ CloseExhausted(i)
  \/ GiveUp
  \/ EndOfStuck

Drain ==
  \/ SelectDue \/ NodeBehind \/ NodeInSync
  \/ \E i \in Intents :
       GateDenies(i) \/ GateTrips(i) \/ GateEscalates(i) \/ AwaitCosigner(i) \/ PassGate(i)
  \/ EndOfRows
  \/ NodeAccepts \/ NodeKnowsRef \/ SendFails
  \/ OnAccepted \/ OnAlreadyProcessed \/ OnError

Watch == Rewind \/ Poll \/ ProcessBlock \/ Advance \/ BlockMissing

Elapses == \E i \in Intents : FallsDue(i) \/ GoesStale(i) \/ Ages(i)

Blockchain ==
  \/ \E tx \in pool : Mine(tx) \/ Drop(tx)
  \/ MineEmpty \/ Reorg \/ ChainReset

Operator == RaiseCap \/ SetHalted \/ \E i \in Intents : Cosign(i)

Next ==
  \/ Approval \/ Stuck \/ StuckAborts \/ Drain \/ DrainAborts \/ Watch \/ WatcherAborts
  \/ Elapses \/ Blockchain \/ Operator

Spec == Init /\ [][Next]_vars

\* Both loops run for ever and time passes.  Of the chain, the operator and the
\* other authorities nothing is assumed.
FairSpec ==
  /\ Spec
  /\ WF_vars(Stuck \/ Drain)
  /\ WF_vars(Watch)
  /\ \A i \in Intents : WF_vars(FallsDue(i)) /\ WF_vars(GoesStale(i))

-----------------------------------------------------------------------------
(* Properties.                                                             *)

\* The ledger and the chain agree: a mint_executed event stands only for a mint
\* the chain has settled, and every block behind the cursor that mints for us has
\* one event, whatever became of the intent while the watcher was on its way:
\* failed, handed to a human, requeued, sent twice, credited twice over.  A reset
\* takes back blocks that were settled; from then on nothing is said.
EventsFollowChain ==
  resets = 0 =>
    /\ \A i \in Intents : events[i] # 0 => MintedIn(i) # {}
    /\ \A h \in 1..cursor :
         h <= Len(chain) /\ chain[h] # EmptyBlock => events[chain[h].intent] = 1

\* An approved intent always has an outbox row the worker will take up: neither
\* a second approval after needs_manual nor a pass that ends half-way leaves an
\* intent approved with its row closed.
ApprovedIsQueued ==
  \A i \in Intents : status[i] = "approved" => outbox[i] = "pending"

\* A deposit the verifier rejected is never minted, nor waits to be.
RejectedIsNeverMinted ==
  \A i \in Intents : status[i] = "rejected" =>
    (\A tx \in pool : tx.intent # i) /\ ~OnChain(i) /\ cur # i

\* The mints in flight of intents created within the last 24 hours together stay
\* within daily_mint_cap_clt, although an approval is checked before it is written,
\* an intent that was given up leaves the sum, and the gate's answer is used after
\* the row's locks are gone.  Of older intents it says nothing: see AllInFlightWithinCap.
InFlightWithinCap ==
  TotalOf({i \in recent : status[i] = "submitted"}) <= DailyCap

\* The pipeline keeps its promise: nothing is minted that nobody approved; no intent
\* is minted in two blocks, however often it is sent, because every submission
\* carries the same ref and the node processes a ref once; and the ledger records a
\* mint once, and not before the chain has settled it.  It holds of one chain: a reset
\* ends it.
Promise == INSTANCE MintPromise WITH
  Heights <- 1..MaxHeight,
  authorised <- {i \in Intents : outbox[i] # "none"},
  minted <- [i \in Intents |-> MintedIn(i)],
  recorded <- events,
  replaced <- resets # 0

MintKeepsPromise == Promise!Spec

\* The worker puts a row off without spending an attempt: the node is behind, the gate
\* is closed to a deposit, or a signature is missing.
PutsOff(i) ==
  \/ i \in todo /\ NodeBehind
  \/ AwaitCosigner(i)
  \/ i \in DepositBacked /\ (GateDenies(i) \/ GateTrips(i))

\* What a failure between the two statements of giving up leaves (outbox.rs:89-99).
HalfGivenUp(i) == status[i] = "submitted" /\ outbox[i] = "failed"

\* An approved mint is credited, or fails, or a human is asked, through lost replies,
\* dead transactions, requeueing and failing passes.  Two exceptions: the worker puts
\* it off again and again, for what only an operator or another authority can mend, or
\* a failure has left it half given up, for ever.
MintResolved ==
  \A i \in Intents :
    \/ (status[i] \in {"approved", "submitted"})
          ~> (status[i] \in {"credited", "failed", "needs_manual"})
    \/ []<><<PutsOff(i)>>_vars
    \/ <>[](HalfGivenUp(i) /\ crashes > 0)

\* A mint that stays on chain at the depth the watcher waits for gets its event, through
\* a watcher that fails between a block and its cursor, reorganisations, and a reset of
\* the chain that the watcher notices.  The one exception: the new chain has outgrown the
\* cursor before the watcher looks again, and is taken for the old one (watcher.rs:160).
MintIsCredited ==
  \A i \in Intents :
    (<>[](~overtaken /\ \E h \in 1..(Len(chain) - Confirmations) : chain[h].intent = i))
      => <>(events[i] = 1)

(* What the code says of itself and does not keep.                         *)

\* reconciliation.rs counts each `submitted` intent on top of the ledger as
\* "on-chain but not yet watcher-credited".
InFlightIsUncredited ==
  \A i \in Intents : status[i] = "submitted" => events[i] = 0

\* breakers.rs speaks of "the rolling 24h mint total"; its window is on the day an
\* intent was created, so intents that waited for a day are in flight together above it.
AllInFlightWithinCap ==
  TotalOf({i \in Intents : status[i] = "submitted"}) <= DailyCap

\* "marking it failed would abandon a mint that already happened": no failed
\* intent has its mint on chain.
NoMintAbandoned ==
  \A i \in Intents : status[i] = "failed" => ~OnChain(i)

=============================================================================
