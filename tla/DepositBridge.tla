---------------------------- MODULE DepositBridge ----------------------------
(***************************************************************************)
(* The orchestrator's bridge to the treasury (treasury_bridge.rs, and the  *)
(* rows it keeps in deposits.rs): a confirmed deposit is asked for, the    *)
(* treasury's intent is polled, and what became of it is written to the    *)
(* deposit; composed with the treasury's side, DepositVerifier.            *)
(*                                                                         *)
(* The confirmed row is itself the pending operation.  One task runs the   *)
(* bridge, one row after the other.                                        *)
(***************************************************************************)
EXTENDS DepositVerifier

VARIABLES
  status,   \* deposit_intents.status
  linked,   \* the deposits with treasury_intent_id
  waits,    \* the deposits whose next_attempt_at has not come
  bpc,      \* where the bridge is with the deposit in hand
  bcur,     \* the deposit in hand
  bsaw      \* the treasury's answer about it

depositVars == <<status, linked, waits>>
bridgeVars == <<bpc, bcur, bsaw>>
vars == <<verifierVars, troubles, depositVars, bridgeVars>>

TypeOK ==
  /\ VerifierTypeOK
  /\ status \in [Deposits -> {"confirmed", "mint_requested", "needs_manual", "credited"}]
  /\ linked \subseteq Deposits /\ waits \subseteq Deposits
  /\ \A d \in Deposits : status[d] # "confirmed" => d \in linked /\ ts[d] # "none"
  /\ bpc \in {"idle", "store", "request", "react"}
  /\ bpc # "idle" <=> bcur # NoTransfer
  /\ bsaw \in Statuses

Init ==
  /\ VerifierInit
  /\ status = [d \in Deposits |-> "confirmed"]
  /\ linked = {} /\ waits = {}
  /\ bpc = "idle" /\ bcur = NoTransfer /\ bsaw = "none"

(***************************************************************************)
(* run_once: a pass takes every confirmed deposit that is due through the  *)
(* create step, and then every requested one through the poll step; a      *)
(* list that cannot be read is an empty one.                               *)
(***************************************************************************)

Due(d, S) == bpc = "idle" /\ d \notin waits /\ status[d] \in S

DueForCreate(d) == Due(d, {"confirmed"})
DueForPoll(d) == Due(d, {"mint_requested", "needs_manual"}) /\ d \in linked

GoOn == bpc' = "idle" /\ bcur' = NoTransfer /\ bsaw' = "none"

Backoff(d) ==
  /\ waits' = waits \cup {d}
  /\ GoOn
  /\ UNCHANGED <<status, linked>>

CreateAnswered(d) ==
  /\ DueForCreate(d)
  /\ Creates(d)
  /\ bpc' = "store" /\ bcur' = d
  /\ UNCHANGED <<worldVars, passVars, historyVars, troubles, depositVars, bsaw>>

CreateReplyUnread(d) == \* mutant: an answer without an id that can be read counts as a request made
  /\ DueForCreate(d)
  /\ Trouble
  /\ Creates(d)
  /\ status' = [status EXCEPT ![d] = "mint_requested"]
  /\ GoOn
  /\ UNCHANGED <<worldVars, passVars, historyVars, linked, waits>>

\* The treasury has the intent and its answer is lost, or cannot be read.
CreateReplyLost(d) ==
  /\ DueForCreate(d)
  /\ Trouble
  /\ Creates(d)
  /\ Backoff(d)
  /\ UNCHANGED <<worldVars, passVars, historyVars>>

\* The transfer backs another intent: the insert fails, and the treasury answers 500.
CreateConflicts(d) ==
  /\ DueForCreate(d)
  /\ ts[d] = "none" /\ Claimed(Ask[d].tx)
  /\ Backoff(d)
  /\ UNCHANGED <<verifierVars, troubles>>

Unreachable(d) ==
  /\ DueForCreate(d) \/ DueForPoll(d)
  /\ Trouble
  /\ Backoff(d)
  /\ UNCHANGED verifierVars

\* set_treasury_intent_id, which keeps the first id it is given
StoreId ==
  /\ bpc = "store"
  /\ linked' = linked \cup {bcur} /\ bpc' = "request"
  /\ UNCHANGED <<verifierVars, troubles, status, waits, bcur, bsaw>>

StoreFailsUnnoticed == \* mutant: the deposit counts as requested although its id was not stored
  /\ bpc = "store"
  /\ Trouble
  /\ bpc' = "request"
  /\ UNCHANGED <<verifierVars, depositVars, bcur, bsaw>>

StoreFails ==
  /\ bpc = "store"
  /\ Trouble
  /\ Backoff(bcur)
  /\ UNCHANGED verifierVars

\* deposits::transition
Transition(d, from, to) ==
  status' = IF status[d] \in from THEN [status EXCEPT ![d] = to] ELSE status

MintRequested ==
  /\ bpc = "request"
  /\ Transition(bcur, {"confirmed"}, "mint_requested")
  /\ GoOn
  /\ UNCHANGED <<verifierVars, troubles, linked, waits>>

PollAnswered(d) ==
  /\ DueForPoll(d)
  /\ bpc' = "react" /\ bcur' = d /\ bsaw' = ts[d]
  /\ UNCHANGED <<verifierVars, troubles, depositVars>>

OnCreditedOnce == \* mutant: a parked deposit stays parked
  /\ bpc = "react" /\ bsaw = "credited"
  /\ Transition(bcur, {"mint_requested"}, "credited")
  /\ GoOn
  /\ UNCHANGED <<verifierVars, troubles, linked, waits>>

\* From needs_manual too: the treasury's intent was approved again.
OnCredited ==
  /\ bpc = "react" /\ bsaw = "credited"
  /\ Transition(bcur, {"mint_requested", "needs_manual"}, "credited")
  /\ GoOn
  /\ UNCHANGED <<verifierVars, troubles, linked, waits>>

\* Held is asked about again in the next pass, rejected and failed once a day.
OnRefused ==
  /\ bpc = "react" /\ bsaw \in {"needs_manual", "rejected", "failed"}
  /\ Transition(bcur, {"mint_requested"}, "needs_manual")
  /\ waits' = waits \cup IF bsaw = "needs_manual" THEN {} ELSE {bcur}
  /\ GoOn
  /\ UNCHANGED <<verifierVars, troubles, linked>>

StillInFlight ==
  /\ bpc = "react" /\ bsaw \in {"created", "approved", "submitted"}
  /\ GoOn
  /\ UNCHANGED <<verifierVars, troubles, depositVars>>

\* The last write of a step fails, and is only logged.
WriteFails ==
  /\ bpc \in {"request", "react"}
  /\ Trouble
  /\ GoOn
  /\ UNCHANGED <<verifierVars, depositVars>>

Crash ==
  /\ bpc # "idle"
  /\ Trouble
  /\ GoOn
  /\ UNCHANGED <<verifierVars, depositVars>>

\* next_attempt_at has come.
FallsDue(d) ==
  /\ d \in waits
  /\ waits' = waits \ {d}
  /\ UNCHANGED <<verifierVars, troubles, status, linked, bridgeVars>>

BridgeSteps == StoreId \/ MintRequested \/ OnCredited \/ OnRefused \/ StillInFlight

BridgeFails ==
  \/ StoreFails \/ WriteFails \/ Crash
  \/ \E d \in Deposits : CreateReplyLost(d) \/ Unreachable(d)

Next ==
  \/ Treasury /\ UNCHANGED <<depositVars, bridgeVars>>
  \/ BridgeSteps \/ BridgeFails
  \/ \E d \in Deposits : CreateAnswered(d) \/ CreateConflicts(d) \/ PollAnswered(d) \/ FallsDue(d)

Spec == Init /\ [][Next]_vars

TreasuryAlone(A) == A /\ UNCHANGED <<depositVars, bridgeVars>>

\* The two services' loops never end, and every pass of the bridge takes every row that
\* is due, so that no row is passed over for ever for another's sake; the outbox and the
\* watcher get to the approved intents, transfers become final, and the time of a retry
\* comes.
FairSpec ==
  /\ Spec
  /\ WF_vars(BridgeSteps)
  /\ \A d \in Deposits : SF_vars(CreateAnswered(d) \/ PollAnswered(d)) /\ WF_vars(FallsDue(d))
  /\ WF_vars(TreasuryAlone(VerifierSteps \/ \E d \in Deposits : Evaluate(d)))
  /\ WF_vars(TreasuryAlone(\E d \in Deposits : Outbox(d)))
  /\ WF_vars(TreasuryAlone(\E t \in Transfers : Settles(t)))

(***************************************************************************)
(* What the treasury credits is in the end credited to the user, though    *)
(* the deposit was parked meanwhile, answers were lost and the bridge was  *)
(* restarted (treasury_bridge.rs:219-224).                                 *)
(***************************************************************************)
CreditReachesUser ==
  <>[](\A d \in Deposits : ts[d] = "credited" => status[d] = "credited")

\* Every confirmed deposit is credited, or a human has been told of it by either side;
\* but for one whose transfer backs another intent, and for one that the treasury first
\* hears of when its transfer is older than the window it is looked for in.
Told(d) == status[d] \in {"credited", "needs_manual"}
Excused(d) ==
  \/ \E e \in Deposits \ {d} : claim[e] # NoTransfer /\ claim[e] = Ask[d].tx
  \/ ByWindow(d) /\ beyond[d] # {}
ConfirmedIsResolved ==
  <>(\A d \in Deposits : Told(d) \/ Excused(d))

=============================================================================
