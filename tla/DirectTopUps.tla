----------------------------- MODULE DirectTopUps -----------------------------
(***************************************************************************)
(* TronLink top-ups (direct.rs): what arrives at the treasury's pay-in     *)
(* address is credited to its sender, if the sender asked for it first;    *)
(* everything else but our own sweeps is reported, once, for a human to    *)
(* refund.                                                                 *)
(*                                                                         *)
(* A pass reads what landed since its watermark less an overlap, and TRON  *)
(* shows a transfer some time after it landed.  Time is counted in ticks.  *)
(***************************************************************************)
EXTENDS Integers

CONSTANTS
  TopUps,       \* the transfers to the pay-in address there can be
  TopUpFrom,    \* who sends each
  Payers,       \* the users' own TRON addresses
  Sweepable,    \* our deposit addresses, which the treasury sweeps to the pay-in address
  Overlap,      \* OVERLAP_HOURS
  Lag,          \* assumption: TRON shows a transfer this long after it landed
  MaxNow,       \* bound: ticks
  MaxDirectFails

ASSUME DirectAssumption ==
  /\ Overlap \in Nat /\ Lag \in 0..Overlap /\ MaxNow \in Nat /\ MaxDirectFails \in Nat

VARIABLES
  now,          \* the time
  landedAt,     \* when a transfer landed, Never before that
  shown,        \* the transfers that TRON shows
  askedAt,      \* direct_payers.created_at
  watermark,    \* direct_watch.last_polled_at
  dpc,          \* where the pass is
  readAt,       \* when it began
  batch,        \* what it read and has not handled
  topped,       \* deposit_intents: the transfers that were credited
  unattributed, \* direct_unattributed
  mishandled,   \* history: those whose handling failed when they were last read
  directFails   \* history: failures so far

directVars ==
  <<now, landedAt, shown, askedAt, watermark, dpc, readAt, batch, topped, unattributed, mishandled,
    directFails>>

Never == -1

DirectTypeOK ==
  /\ now \in 0..MaxNow
  /\ landedAt \in [TopUps -> {Never} \cup 0..now]
  /\ askedAt \in [Payers -> {Never} \cup 0..now]
  /\ watermark \in {Never} \cup 0..readAt /\ readAt \in 0..now
  /\ dpc \in {"idle", "read", "handle"}
  /\ batch \subseteq shown
  /\ \A t \in shown \cup topped \cup unattributed : landedAt[t] # Never
  /\ mishandled \subseteq shown
  /\ directFails \in 0..MaxDirectFails

DirectInit ==
  /\ now = 0
  /\ landedAt = [t \in TopUps |-> Never] /\ shown = {}
  /\ askedAt = [u \in Payers |-> Never]
  /\ watermark = Never /\ dpc = "idle" /\ readAt = 0 /\ batch = {}
  /\ topped = {} /\ unattributed = {} /\ mishandled = {}
  /\ directFails = 0

rowVars == <<topped, unattributed>>
chainVars == <<now, landedAt, shown>>
passVars == <<watermark, dpc, readAt, batch>>

(***************************************************************************)
(* The chain, and the users                                                *)
(***************************************************************************)

Tick ==
  /\ now < MaxNow
  /\ \A t \in TopUps \ shown : landedAt[t] = Never \/ now - landedAt[t] < Lag
  /\ now' = now + 1
  /\ UNCHANGED <<landedAt, shown, askedAt, passVars, rowVars, mishandled, directFails>>

Land(t) ==
  /\ landedAt[t] = Never
  /\ landedAt' = [landedAt EXCEPT ![t] = now]
  /\ UNCHANGED <<now, shown, askedAt, passVars, rowVars, mishandled, directFails>>

Show(t) ==
  /\ landedAt[t] # Never /\ t \notin shown
  /\ shown' = shown \cup {t}
  /\ UNCHANGED <<now, landedAt, askedAt, passVars, rowVars, mishandled, directFails>>

\* register_payer, of which the first row stays
Register(u) ==
  /\ askedAt[u] = Never
  /\ askedAt' = [askedAt EXCEPT ![u] = now]
  /\ UNCHANGED <<chainVars, passVars, rowVars, mishandled, directFails>>

(***************************************************************************)
(* credit_direct                                                           *)
(***************************************************************************)

BeginDirect ==
  /\ dpc = "idle"
  /\ dpc' = "read" /\ readAt' = now
  /\ UNCHANGED <<chainVars, askedAt, watermark, batch, rowVars, mishandled, directFails>>

ReadPayIn ==
  /\ dpc = "read"
  /\ batch' = {t \in shown : watermark = Never \/ landedAt[t] >= watermark - Overlap}
  /\ dpc' = "handle"
  /\ UNCHANGED <<chainVars, askedAt, watermark, readAt, rowVars, mishandled, directFails>>

Asked(t) == TopUpFrom[t] \in Payers /\ askedAt[TopUpFrom[t]] \in 0..landedAt[t]

\* handle: what was reported stays a human's to settle.
Handle(t) ==
  /\ dpc = "handle" /\ t \in batch
  /\ topped' = topped \cup {s \in {t} \ unattributed : Asked(s)}
  /\ unattributed' = unattributed \cup {s \in {t} : ~Asked(s) /\ TopUpFrom[s] \notin Sweepable}
  /\ batch' = batch \ {t} /\ mishandled' = mishandled \ {t}
  /\ UNCHANGED <<chainVars, askedAt, watermark, dpc, readAt, directFails>>

DirectTrouble ==
  /\ directFails < MaxDirectFails
  /\ directFails' = directFails + 1

\* It is logged, and the pass goes on.
HandleFails(t) ==
  /\ dpc = "handle" /\ t \in batch
  /\ DirectTrouble
  /\ batch' = batch \ {t} /\ mishandled' = mishandled \cup {t}
  /\ UNCHANGED <<chainVars, askedAt, watermark, dpc, readAt, rowVars>>

StampNow == \* mutant: the watermark is the time of the stamp
  /\ dpc = "handle" /\ batch = {}
  /\ watermark' = now /\ dpc' = "idle"
  /\ UNCHANGED <<chainVars, askedAt, readAt, batch, rowVars, mishandled, directFails>>

StampDirect ==
  /\ dpc = "handle" /\ batch = {}
  /\ watermark' = readAt /\ dpc' = "idle"
  /\ UNCHANGED <<chainVars, askedAt, readAt, batch, rowVars, mishandled, directFails>>

\* A read or the stamp fails, or the service stops.
DirectPassFails ==
  /\ dpc # "idle"
  /\ DirectTrouble
  /\ dpc' = "idle" /\ batch' = {}
  /\ UNCHANGED <<chainVars, askedAt, watermark, readAt, rowVars, mishandled>>

DirectNext ==
  \/ Tick \/ BeginDirect \/ ReadPayIn \/ StampDirect \/ DirectPassFails
  \/ \E u \in Payers : Register(u)
  \/ \E t \in TopUps : Land(t) \/ Show(t) \/ Handle(t) \/ HandleFails(t)

(***************************************************************************)
(* What it promises                                                        *)
(***************************************************************************)

\* A top-up is credited to a sender who asked before it landed, and never when it was
\* reported, so that no refund is followed by a mint (direct.rs:18-23).
DirectRightly == \A t \in topped : Asked(t) /\ t \notin unattributed

\* No later read goes back to the transfer.
DirectBehind(t) == landedAt[t] # Never /\ watermark # Never /\ landedAt[t] < watermark - Overlap
DirectSettled(t) == t \in topped \cup unattributed \/ TopUpFrom[t] \in Sweepable

=============================================================================
