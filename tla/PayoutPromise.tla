--------------------------- MODULE PayoutPromise ---------------------------
(***************************************************************************)
(* What redemption promises, with none of its machinery: a redemption is   *)
(* owed once its burn is confirmed, at most one transfer ever leaves the   *)
(* float for it, and only a redemption whose transfer left is booked as    *)
(* paid.  RedemptionPayout is checked to implement this specification.     *)
(***************************************************************************)

CONSTANTS Redemptions, Txns

VARIABLES
  owed,    \* the redemptions whose burn is in the ledger
  sent,    \* <<redemption, transfer>>: the transfers that left the float
  booked   \* the redemptions recorded as paid

promiseVars == <<owed, sent, booked>>

Init ==
  /\ owed = {}
  /\ sent = {}
  /\ booked = {}

Owe(r) ==
  /\ r \notin owed
  /\ owed' = owed \cup {r}
  /\ UNCHANGED <<sent, booked>>

Send(r, t) ==
  /\ r \in owed
  /\ \A p \in sent : p[1] # r /\ p[2] # t
  /\ sent' = sent \cup {<<r, t>>}
  /\ UNCHANGED <<owed, booked>>

Book(r) ==
  /\ \E p \in sent : p[1] = r
  /\ booked' = booked \cup {r}
  /\ UNCHANGED <<owed, sent>>

Next ==
  \E r \in Redemptions : Owe(r) \/ Book(r) \/ \E t \in Txns : Send(r, t)

Spec == Init /\ [][Next]_promiseVars

=============================================================================
