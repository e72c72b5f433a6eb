-------------------------- MODULE PlainSweepProofs --------------------------
(***************************************************************************)
(* What is proved of PlainSweep, for any deposits, addresses, amounts and  *)
(* failures: its types, that a row is marked swept only when its USDT has  *)
(* left, and that the module implements SweepPromise.                      *)
(*                                                                         *)
(* The pass keeps its promise because of what holds between its steps: the *)
(* rows it has listed can still be swept, the address it asks about has a  *)
(* listed row, what the signer saw there has not been sent while its gas   *)
(* is on its way, and when the pass is about to mark rows, all the listed  *)
(* rows of that address have left it.                                      *)
(***************************************************************************)
EXTENDS PlainSweep, TLAPS

BscAt == {"bsc", "bsc_fund", "bsc_wait", "bsc_mark"}
TronAt == {"tron", "tron_ask", "tron_mark"}

\* What the pass has listed can still be swept, and is of the chain it is at.
ListedIsSweepable ==
  /\ pc = "idle" => listed = {}
  /\ pc \in BscAt => listed \subseteq Sweepable("bsc")
  /\ pc \in TronAt => listed \subseteq Sweepable("tron")

\* The address in hand is one with a listed row.
AskedHasRows == cur # NoAddress => Group(cur) # {}

\* No row without its money having arrived; what a transfer moves was sent from there.
MoneyIsSent ==
  /\ \A d \in Deposits : status[d] # "none" => place[d] # "away"
  /\ \A a \in Addresses : tx[a] \subseteq sent
  /\ \A d \in Deposits : place[d] = "moved" => d \in sent

\* The signer's BSC call sends what it saw when it began, all of it still there; the
\* listed rows that it did not see had been moved before.
SeesThemAll ==
  /\ pc = "bsc_fund" => tx[cur] = {} /\ sees # {} /\ sees \subseteq Here(cur)
  /\ pc \in {"bsc_fund", "bsc_wait"} =>
       /\ \A d \in sees : Home[d] = cur
       /\ \A d \in Group(cur) : d \in sees \/ place[d] = "moved"

\* The rows about to be marked have left.
AboutToMark ==
  /\ pc = "bsc_mark" => \A d \in Group(cur) : place[d] = "moved"
  /\ pc = "tron_mark" => Group(cur) \subseteq sent

SweepInv ==
  /\ TypeOK /\ ListedIsSweepable /\ AskedHasRows /\ MoneyIsSent
  /\ SeesThemAll /\ AboutToMark /\ SweptHasLeft

-----------------------------------------------------------------------------
\* Every step keeps the types.
LEMMA TypeStep == ASSUME TypeOK, [Next]_vars PROVE TypeOK'
<1> USE SweepAssumption DEF TypeOK, Statuses, Rails, rowVars, chainVars, passVars
<1>1. ASSUME ListBsc PROVE TypeOK'
  BY <1>1 DEF ListBsc, Sweepable
<1>2. ASSUME ListTron PROVE TypeOK'
  BY <1>2 DEF ListTron, Sweepable
<1>3. ASSUME ListFails PROVE TypeOK'
  BY <1>3 DEF ListFails, Trouble
<1>4. ASSUME EndOfPass PROVE TypeOK'
  BY <1>4 DEF EndOfPass
<1>5. ASSUME MarkSwept PROVE TypeOK'
  BY <1>5 DEF MarkSwept, Skip, Leave, Group
<1>6. ASSUME MarkFails PROVE TypeOK'
  BY <1>6 DEF MarkFails, Trouble, Skip, Leave, Group
<1>7. ASSUME NEW a \in Addresses, BscEmpty(a) PROVE TypeOK'
  BY <1>7 DEF BscEmpty, Group
<1>8. ASSUME NEW a \in Addresses, BscBusy(a) PROVE TypeOK'
  BY <1>8 DEF BscBusy, Skip, Leave, Group
<1>9. ASSUME NEW a \in Addresses, BscDry(a) PROVE TypeOK'
  BY <1>9 DEF BscDry, Leave
<1>10. ASSUME NEW a \in Addresses, BscFund(a) PROVE TypeOK'
  BY <1>10 DEF BscFund, Here, Group
<1>11. ASSUME NEW a \in Addresses, BscSend(a) PROVE TypeOK'
  BY <1>11 DEF BscSend, Broadcast, Here, Group
<1>12. ASSUME BscMined PROVE TypeOK'
  BY <1>12 DEF BscMined
<1>13. ASSUME BscNotMined PROVE TypeOK'
  BY <1>13 DEF BscNotMined, Skip, Leave, Group
<1>14. ASSUME BscFails PROVE TypeOK'
  BY <1>14 DEF BscFails, Trouble, Skip, Leave, Group
<1>15. ASSUME NEW a \in Addresses, TronSkip(a) PROVE TypeOK'
  BY <1>15 DEF TronSkip, Skip, Leave, Group
<1>16. ASSUME NEW a \in Addresses, TronAsk(a) PROVE TypeOK'
  BY <1>16 DEF TronAsk, Group
<1>17. ASSUME TronEmpty PROVE TypeOK'
  BY <1>17 DEF TronEmpty
<1>18. ASSUME TronFund PROVE TypeOK'
  BY <1>18 DEF TronFund, Skip, Leave, Group
<1>19. ASSUME TronDry PROVE TypeOK'
  BY <1>19 DEF TronDry, Leave, Group
<1>20. ASSUME TronSend PROVE TypeOK'
  BY <1>20 DEF TronSend, Broadcast, Here
<1>21. ASSUME TronFails PROVE TypeOK'
  BY <1>21 DEF TronFails, Trouble, Skip, Leave, Group
<1>22. ASSUME NEW a \in Addresses, FundLands(a) PROVE TypeOK'
  BY <1>22 DEF FundLands
<1>23. ASSUME NEW a \in Addresses, FundLost(a) PROVE TypeOK'
  BY <1>23 DEF FundLost, Trouble
<1>24. ASSUME NEW a \in Addresses, TxRuns(a) PROVE TypeOK'
  BY <1>24 DEF TxRuns, Here
<1>25. ASSUME NEW a \in Addresses, TxLost(a) PROVE TypeOK'
  BY <1>25 DEF TxLost, Trouble
<1>26. ASSUME NEW rail \in Rails, TopUp(rail) PROVE TypeOK'
  BY <1>26 DEF TopUp
<1>27. ASSUME NEW d \in Deposits, Age(d) PROVE TypeOK'
  BY <1>27 DEF Age
<1>28. ASSUME NEW d \in Deposits, Arrive(d) PROVE TypeOK'
  BY <1>28 DEF Arrive
<1>29. ASSUME NEW d \in Deposits, Credit(d) PROVE TypeOK'
  BY <1>29 DEF Credit
<1>30. ASSUME PassStops PROVE TypeOK'
  BY <1>30 DEF PassStops, Trouble, Leave
<1>31. CASE UNCHANGED vars
  BY <1>31 DEF vars
<1> QED
  BY <1>1, <1>2, <1>3, <1>4, <1>5, <1>6, <1>7, <1>8, <1>9, <1>10, <1>11, <1>12, <1>13,
     <1>14, <1>15, <1>16, <1>17, <1>18, <1>19, <1>20, <1>21, <1>22, <1>23, <1>24, <1>25,
     <1>26, <1>27, <1>28, <1>29, <1>30, <1>31
     DEF Next, Sweeper, SweeperFails, Chains, ChainsFail

\* Every variable keeps its type: the state of the sweeper, the signer and the chains.
THEOREM TypeCorrect == Spec => []TypeOK
<1>1. Init => TypeOK
  BY SweepAssumption DEF Init, TypeOK, Statuses, Rails
<1>2. TypeOK /\ [Next]_vars => TypeOK'
  BY TypeStep
<1> QED
  BY <1>1, <1>2, PTL DEF Spec

-----------------------------------------------------------------------------
\* What is listed can still be swept: the pass itself is all that marks rows.
LEMMA ListedStep == ASSUME SweepInv, TypeOK', [Next]_vars PROVE ListedIsSweepable'
<1> USE SweepAssumption DEF SweepInv, TypeOK, ListedIsSweepable, rowVars, chainVars, passVars, BscAt, TronAt
<1>1. ASSUME ListBsc PROVE ListedIsSweepable'
  BY <1>1 DEF ListBsc, Sweepable
<1>2. ASSUME ListTron PROVE ListedIsSweepable'
  BY <1>2 DEF ListTron, Sweepable
<1>3. ASSUME ListFails PROVE ListedIsSweepable'
  BY <1>3 DEF ListFails, Trouble, Sweepable
<1>4. ASSUME EndOfPass PROVE ListedIsSweepable'
  BY <1>4 DEF EndOfPass, Sweepable
<1>5. ASSUME MarkSwept PROVE ListedIsSweepable'
  BY <1>5 DEF MarkSwept, Skip, Leave, Group, Sweepable
<1>6. ASSUME MarkFails PROVE ListedIsSweepable'
  BY <1>6 DEF MarkFails, Trouble, Skip, Leave, Group, Sweepable
<1>7. ASSUME NEW a \in Addresses, BscEmpty(a) PROVE ListedIsSweepable'
  BY <1>7 DEF BscEmpty, Group, Sweepable
<1>8. ASSUME NEW a \in Addresses, BscBusy(a) PROVE ListedIsSweepable'
  BY <1>8 DEF BscBusy, Skip, Leave, Group, Sweepable
<1>9. ASSUME NEW a \in Addresses, BscDry(a) PROVE ListedIsSweepable'
  BY <1>9 DEF BscDry, Leave, Sweepable
<1>10. ASSUME NEW a \in Addresses, BscFund(a) PROVE ListedIsSweepable'
  BY <1>10 DEF BscFund, Here, Group, Sweepable
<1>11. ASSUME NEW a \in Addresses, BscSend(a) PROVE ListedIsSweepable'
  BY <1>11 DEF BscSend, Broadcast, Here, Group, Sweepable
<1>12. ASSUME BscMined PROVE ListedIsSweepable'
  BY <1>12 DEF BscMined, Sweepable
<1>13. ASSUME BscNotMined PROVE ListedIsSweepable'
  BY <1>13 DEF BscNotMined, Skip, Leave, Group, Sweepable
<1>14. ASSUME BscFails PROVE ListedIsSweepable'
  BY <1>14 DEF BscFails, Trouble, Skip, Leave, Group, Sweepable
<1>15. ASSUME NEW a \in Addresses, TronSkip(a) PROVE ListedIsSweepable'
  BY <1>15 DEF TronSkip, Skip, Leave, Group, Sweepable
<1>16. ASSUME NEW a \in Addresses, TronAsk(a) PROVE ListedIsSweepable'
  BY <1>16 DEF TronAsk, Group, Sweepable
<1>17. ASSUME TronEmpty PROVE ListedIsSweepable'
  BY <1>17 DEF TronEmpty, Sweepable
<1>18. ASSUME TronFund PROVE ListedIsSweepable'
  BY <1>18 DEF TronFund, Skip, Leave, Group, Sweepable
<1>19. ASSUME TronDry PROVE ListedIsSweepable'
  BY <1>19 DEF TronDry, Leave, Group, Sweepable
<1>20. ASSUME TronSend PROVE ListedIsSweepable'
  BY <1>20 DEF TronSend, Broadcast, Here, Sweepable
<1>21. ASSUME TronFails PROVE ListedIsSweepable'
  BY <1>21 DEF TronFails, Trouble, Skip, Leave, Group, Sweepable
<1>22. ASSUME NEW a \in Addresses, FundLands(a) PROVE ListedIsSweepable'
  BY <1>22 DEF FundLands, Sweepable
<1>23. ASSUME NEW a \in Addresses, FundLost(a) PROVE ListedIsSweepable'
  BY <1>23 DEF FundLost, Trouble, Sweepable
<1>24. ASSUME NEW a \in Addresses, TxRuns(a) PROVE ListedIsSweepable'
  BY <1>24 DEF TxRuns, Here, Sweepable
<1>25. ASSUME NEW a \in Addresses, TxLost(a) PROVE ListedIsSweepable'
  BY <1>25 DEF TxLost, Trouble, Sweepable
<1>26. ASSUME NEW rail \in Rails, TopUp(rail) PROVE ListedIsSweepable'
  BY <1>26 DEF TopUp, Sweepable
<1>27. ASSUME NEW d \in Deposits, Age(d) PROVE ListedIsSweepable'
  BY <1>27 DEF Age, Sweepable
<1>28. ASSUME NEW d \in Deposits, Arrive(d) PROVE ListedIsSweepable'
  BY <1>28 DEF Arrive, Sweepable
<1>29. ASSUME NEW d \in Deposits, Credit(d) PROVE ListedIsSweepable'
  BY <1>29 DEF Credit, Sweepable
<1>30. ASSUME PassStops PROVE ListedIsSweepable'
  BY <1>30 DEF PassStops, Trouble, Leave, Sweepable
<1>31. CASE UNCHANGED vars
  BY <1>31 DEF vars, Sweepable
<1> QED
  BY <1>1, <1>2, <1>3, <1>4, <1>5, <1>6, <1>7, <1>8, <1>9, <1>10, <1>11, <1>12, <1>13,
     <1>14, <1>15, <1>16, <1>17, <1>18, <1>19, <1>20, <1>21, <1>22, <1>23, <1>24, <1>25,
     <1>26, <1>27, <1>28, <1>29, <1>30, <1>31
     DEF Next, Sweeper, SweeperFails, Chains, ChainsFail

\* The address in hand keeps its listed rows until it is let go.
LEMMA AskedStep == ASSUME SweepInv, TypeOK', [Next]_vars PROVE AskedHasRows'
<1> USE SweepAssumption DEF SweepInv, TypeOK, AskedHasRows, rowVars, chainVars, passVars, BscAt, TronAt
<1>1. ASSUME ListBsc PROVE AskedHasRows'
  BY <1>1 DEF ListBsc, Sweepable, Group
<1>2. ASSUME ListTron PROVE AskedHasRows'
  BY <1>2 DEF ListTron, Sweepable, Group
<1>3. ASSUME ListFails PROVE AskedHasRows'
  BY <1>3 DEF ListFails, Trouble, Group
<1>4. ASSUME EndOfPass PROVE AskedHasRows'
  BY <1>4 DEF EndOfPass, Group
<1>5. ASSUME MarkSwept PROVE AskedHasRows'
  BY <1>5 DEF MarkSwept, Skip, Leave, Group
<1>6. ASSUME MarkFails PROVE AskedHasRows'
  BY <1>6 DEF MarkFails, Trouble, Skip, Leave, Group
<1>7. ASSUME NEW a \in Addresses, BscEmpty(a) PROVE AskedHasRows'
  BY <1>7 DEF BscEmpty, Group
<1>8. ASSUME NEW a \in Addresses, BscBusy(a) PROVE AskedHasRows'
  BY <1>8 DEF BscBusy, Skip, Leave, Group
<1>9. ASSUME NEW a \in Addresses, BscDry(a) PROVE AskedHasRows'
  BY <1>9 DEF BscDry, Leave, Group
<1>10. ASSUME NEW a \in Addresses, BscFund(a) PROVE AskedHasRows'
  BY <1>10 DEF BscFund, Here, Group
<1>11. ASSUME NEW a \in Addresses, BscSend(a) PROVE AskedHasRows'
  BY <1>11 DEF BscSend, Broadcast, Here, Group
<1>12. ASSUME BscMined PROVE AskedHasRows'
  BY <1>12 DEF BscMined, Group
<1>13. ASSUME BscNotMined PROVE AskedHasRows'
  BY <1>13 DEF BscNotMined, Skip, Leave, Group
<1>14. ASSUME BscFails PROVE AskedHasRows'
  BY <1>14 DEF BscFails, Trouble, Skip, Leave, Group
<1>15. ASSUME NEW a \in Addresses, TronSkip(a) PROVE AskedHasRows'
  BY <1>15 DEF TronSkip, Skip, Leave, Group
<1>16. ASSUME NEW a \in Addresses, TronAsk(a) PROVE AskedHasRows'
  BY <1>16 DEF TronAsk, Group
<1>17. ASSUME TronEmpty PROVE AskedHasRows'
  BY <1>17 DEF TronEmpty, Group
<1>18. ASSUME TronFund PROVE AskedHasRows'
  BY <1>18 DEF TronFund, Skip, Leave, Group
<1>19. ASSUME TronDry PROVE AskedHasRows'
  BY <1>19 DEF TronDry, Leave, Group
<1>20. ASSUME TronSend PROVE AskedHasRows'
  BY <1>20 DEF TronSend, Broadcast, Here, Group
<1>21. ASSUME TronFails PROVE AskedHasRows'
  BY <1>21 DEF TronFails, Trouble, Skip, Leave, Group
<1>22. ASSUME NEW a \in Addresses, FundLands(a) PROVE AskedHasRows'
  BY <1>22 DEF FundLands, Group
<1>23. ASSUME NEW a \in Addresses, FundLost(a) PROVE AskedHasRows'
  BY <1>23 DEF FundLost, Trouble, Group
<1>24. ASSUME NEW a \in Addresses, TxRuns(a) PROVE AskedHasRows'
  BY <1>24 DEF TxRuns, Here, Group
<1>25. ASSUME NEW a \in Addresses, TxLost(a) PROVE AskedHasRows'
  BY <1>25 DEF TxLost, Trouble, Group
<1>26. ASSUME NEW rail \in Rails, TopUp(rail) PROVE AskedHasRows'
  BY <1>26 DEF TopUp, Group
<1>27. ASSUME NEW d \in Deposits, Age(d) PROVE AskedHasRows'
  BY <1>27 DEF Age, Group
<1>28. ASSUME NEW d \in Deposits, Arrive(d) PROVE AskedHasRows'
  BY <1>28 DEF Arrive, Group
<1>29. ASSUME NEW d \in Deposits, Credit(d) PROVE AskedHasRows'
  BY <1>29 DEF Credit, Group
<1>30. ASSUME PassStops PROVE AskedHasRows'
  BY <1>30 DEF PassStops, Trouble, Leave, Group
<1>31. CASE UNCHANGED vars
  BY <1>31 DEF vars, Group
<1> QED
  BY <1>1, <1>2, <1>3, <1>4, <1>5, <1>6, <1>7, <1>8, <1>9, <1>10, <1>11, <1>12, <1>13,
     <1>14, <1>15, <1>16, <1>17, <1>18, <1>19, <1>20, <1>21, <1>22, <1>23, <1>24, <1>25,
     <1>26, <1>27, <1>28, <1>29, <1>30, <1>31
     DEF Next, Sweeper, SweeperFails, Chains, ChainsFail

\* Money is not moved but by a transfer that was sent.
LEMMA MoneyStep == ASSUME SweepInv, TypeOK', [Next]_vars PROVE MoneyIsSent'
<1> USE SweepAssumption DEF SweepInv, TypeOK, MoneyIsSent, rowVars, chainVars, passVars, BscAt, TronAt
<1>1. ASSUME ListBsc PROVE MoneyIsSent'
  BY <1>1 DEF ListBsc, Sweepable, Here
<1>2. ASSUME ListTron PROVE MoneyIsSent'
  BY <1>2 DEF ListTron, Sweepable, Here
<1>3. ASSUME ListFails PROVE MoneyIsSent'
  BY <1>3 DEF ListFails, Trouble, Here
<1>4. ASSUME EndOfPass PROVE MoneyIsSent'
  BY <1>4 DEF EndOfPass, Here
<1>5. ASSUME MarkSwept PROVE MoneyIsSent'
  BY <1>5 DEF MarkSwept, Skip, Leave, Group, Here
<1>6. ASSUME MarkFails PROVE MoneyIsSent'
  BY <1>6 DEF MarkFails, Trouble, Skip, Leave, Group, Here
<1>7. ASSUME NEW a \in Addresses, BscEmpty(a) PROVE MoneyIsSent'
  BY <1>7 DEF BscEmpty, Group, Here
<1>8. ASSUME NEW a \in Addresses, BscBusy(a) PROVE MoneyIsSent'
  BY <1>8 DEF BscBusy, Skip, Leave, Group, Here
<1>9. ASSUME NEW a \in Addresses, BscDry(a) PROVE MoneyIsSent'
  BY <1>9 DEF BscDry, Leave, Here
<1>10. ASSUME NEW a \in Addresses, BscFund(a) PROVE MoneyIsSent'
  BY <1>10 DEF BscFund, Here, Group
<1>11. ASSUME NEW a \in Addresses, BscSend(a) PROVE MoneyIsSent'
  BY <1>11 DEF BscSend, Broadcast, Here, Group
<1>12. ASSUME BscMined PROVE MoneyIsSent'
  BY <1>12 DEF BscMined, Here
<1>13. ASSUME BscNotMined PROVE MoneyIsSent'
  BY <1>13 DEF BscNotMined, Skip, Leave, Group, Here
<1>14. ASSUME BscFails PROVE MoneyIsSent'
  BY <1>14 DEF BscFails, Trouble, Skip, Leave, Group, Here
<1>15. ASSUME NEW a \in Addresses, TronSkip(a) PROVE MoneyIsSent'
  BY <1>15 DEF TronSkip, Skip, Leave, Group, Here
<1>16. ASSUME NEW a \in Addresses, TronAsk(a) PROVE MoneyIsSent'
  BY <1>16 DEF TronAsk, Group, Here
<1>17. ASSUME TronEmpty PROVE MoneyIsSent'
  BY <1>17 DEF TronEmpty, Here
<1>18. ASSUME TronFund PROVE MoneyIsSent'
  BY <1>18 DEF TronFund, Skip, Leave, Group, Here
<1>19. ASSUME TronDry PROVE MoneyIsSent'
  BY <1>19 DEF TronDry, Leave, Group, Here
<1>20. ASSUME TronSend PROVE MoneyIsSent'
  BY <1>20 DEF TronSend, Broadcast, Here
<1>21. ASSUME TronFails PROVE MoneyIsSent'
  BY <1>21 DEF TronFails, Trouble, Skip, Leave, Group, Here
<1>22. ASSUME NEW a \in Addresses, FundLands(a) PROVE MoneyIsSent'
  BY <1>22 DEF FundLands, Here
<1>23. ASSUME NEW a \in Addresses, FundLost(a) PROVE MoneyIsSent'
  BY <1>23 DEF FundLost, Trouble, Here
<1>24. ASSUME NEW a \in Addresses, TxRuns(a) PROVE MoneyIsSent'
  BY <1>24 DEF TxRuns, Here
<1>25. ASSUME NEW a \in Addresses, TxLost(a) PROVE MoneyIsSent'
  BY <1>25 DEF TxLost, Trouble, Here
<1>26. ASSUME NEW rail \in Rails, TopUp(rail) PROVE MoneyIsSent'
  BY <1>26 DEF TopUp, Here
<1>27. ASSUME NEW d \in Deposits, Age(d) PROVE MoneyIsSent'
  BY <1>27 DEF Age, Here
<1>28. ASSUME NEW d \in Deposits, Arrive(d) PROVE MoneyIsSent'
  BY <1>28 DEF Arrive, Here
<1>29. ASSUME NEW d \in Deposits, Credit(d) PROVE MoneyIsSent'
  BY <1>29 DEF Credit, Here
<1>30. ASSUME PassStops PROVE MoneyIsSent'
  BY <1>30 DEF PassStops, Trouble, Leave, Here
<1>31. CASE UNCHANGED vars
  BY <1>31 DEF vars, Here
<1> QED
  BY <1>1, <1>2, <1>3, <1>4, <1>5, <1>6, <1>7, <1>8, <1>9, <1>10, <1>11, <1>12, <1>13,
     <1>14, <1>15, <1>16, <1>17, <1>18, <1>19, <1>20, <1>21, <1>22, <1>23, <1>24, <1>25,
     <1>26, <1>27, <1>28, <1>29, <1>30, <1>31
     DEF Next, Sweeper, SweeperFails, Chains, ChainsFail

\* Only the call itself sends from the address while it waits.
LEMMA SeesStep == ASSUME SweepInv, TypeOK', [Next]_vars PROVE SeesThemAll'
<1> USE SweepAssumption DEF SweepInv, TypeOK, SeesThemAll, rowVars, chainVars, passVars, BscAt, TronAt
<1>1. ASSUME ListBsc PROVE SeesThemAll'
  BY <1>1 DEF ListBsc, Sweepable, Here, Group, Busy, MoneyIsSent, ListedIsSweepable
<1>2. ASSUME ListTron PROVE SeesThemAll'
  BY <1>2 DEF ListTron, Sweepable, Here, Group, Busy, MoneyIsSent, ListedIsSweepable
<1>3. ASSUME ListFails PROVE SeesThemAll'
  BY <1>3 DEF ListFails, Trouble, Here, Group, Busy, MoneyIsSent, ListedIsSweepable, Sweepable
<1>4. ASSUME EndOfPass PROVE SeesThemAll'
  BY <1>4 DEF EndOfPass, Here, Group, Busy, MoneyIsSent, ListedIsSweepable, Sweepable
<1>5. ASSUME MarkSwept PROVE SeesThemAll'
  BY <1>5 DEF MarkSwept, Skip, Leave, Group, Here, Busy, MoneyIsSent, ListedIsSweepable, Sweepable
<1>6. ASSUME MarkFails PROVE SeesThemAll'
  BY <1>6 DEF MarkFails, Trouble, Skip, Leave, Group, Here, Busy, MoneyIsSent, ListedIsSweepable, Sweepable
<1>7. ASSUME NEW a \in Addresses, BscEmpty(a) PROVE SeesThemAll'
  BY <1>7 DEF BscEmpty, Group, Here, Busy, MoneyIsSent, ListedIsSweepable, Sweepable
<1>8. ASSUME NEW a \in Addresses, BscBusy(a) PROVE SeesThemAll'
  BY <1>8 DEF BscBusy, Skip, Leave, Group, Here, Busy, MoneyIsSent, ListedIsSweepable, Sweepable
<1>9. ASSUME NEW a \in Addresses, BscDry(a) PROVE SeesThemAll'
  BY <1>9 DEF BscDry, Leave, Here, Group, Busy, MoneyIsSent, ListedIsSweepable, Sweepable
<1>10. ASSUME NEW a \in Addresses, BscFund(a) PROVE SeesThemAll'
  BY <1>10 DEF BscFund, Here, Group, Busy, MoneyIsSent, ListedIsSweepable, Sweepable
<1>11. ASSUME NEW a \in Addresses, BscSend(a) PROVE SeesThemAll'
  BY <1>11 DEF BscSend, Broadcast, Here, Group, Busy, MoneyIsSent, ListedIsSweepable, Sweepable
<1>12. ASSUME BscMined PROVE SeesThemAll'
  BY <1>12 DEF BscMined, Here, Group, Busy, MoneyIsSent, ListedIsSweepable, Sweepable
<1>13. ASSUME BscNotMined PROVE SeesThemAll'
  BY <1>13 DEF BscNotMined, Skip, Leave, Group, Here, Busy, MoneyIsSent, ListedIsSweepable, Sweepable
<1>14. ASSUME BscFails PROVE SeesThemAll'
  BY <1>14 DEF BscFails, Trouble, Skip, Leave, Group, Here, Busy, MoneyIsSent, ListedIsSweepable, Sweepable
<1>15. ASSUME NEW a \in Addresses, TronSkip(a) PROVE SeesThemAll'
  BY <1>15 DEF TronSkip, Skip, Leave, Group, Here, Busy, MoneyIsSent, ListedIsSweepable, Sweepable
<1>16. ASSUME NEW a \in Addresses, TronAsk(a) PROVE SeesThemAll'
  BY <1>16 DEF TronAsk, Group, Here, Busy, MoneyIsSent, ListedIsSweepable, Sweepable
<1>17. ASSUME TronEmpty PROVE SeesThemAll'
  BY <1>17 DEF TronEmpty, Here, Group, Busy, MoneyIsSent, ListedIsSweepable, Sweepable
<1>18. ASSUME TronFund PROVE SeesThemAll'
  BY <1>18 DEF TronFund, Skip, Leave, Group, Here, Busy, MoneyIsSent, ListedIsSweepable, Sweepable
<1>19. ASSUME TronDry PROVE SeesThemAll'
  BY <1>19 DEF TronDry, Leave, Group, Here, Busy, MoneyIsSent, ListedIsSweepable, Sweepable
<1>20. ASSUME TronSend PROVE SeesThemAll'
  BY <1>20 DEF TronSend, Broadcast, Here, Group, Busy, MoneyIsSent, ListedIsSweepable, Sweepable
<1>21. ASSUME TronFails PROVE SeesThemAll'
  BY <1>21 DEF TronFails, Trouble, Skip, Leave, Group, Here, Busy, MoneyIsSent, ListedIsSweepable, Sweepable
<1>22. ASSUME NEW a \in Addresses, FundLands(a) PROVE SeesThemAll'
  BY <1>22 DEF FundLands, Here, Group, Busy, MoneyIsSent, ListedIsSweepable, Sweepable
<1>23. ASSUME NEW a \in Addresses, FundLost(a) PROVE SeesThemAll'
  BY <1>23 DEF FundLost, Trouble, Here, Group, Busy, MoneyIsSent, ListedIsSweepable, Sweepable
<1>24. ASSUME NEW a \in Addresses, TxRuns(a) PROVE SeesThemAll'
  BY <1>24 DEF TxRuns, Here, Group, Busy, MoneyIsSent, ListedIsSweepable, Sweepable
<1>25. ASSUME NEW a \in Addresses, TxLost(a) PROVE SeesThemAll'
  BY <1>25 DEF TxLost, Trouble, Here, Group, Busy, MoneyIsSent, ListedIsSweepable, Sweepable
<1>26. ASSUME NEW rail \in Rails, TopUp(rail) PROVE SeesThemAll'
  BY <1>26 DEF TopUp, Here, Group, Busy, MoneyIsSent, ListedIsSweepable, Sweepable
<1>27. ASSUME NEW d \in Deposits, Age(d) PROVE SeesThemAll'
  BY <1>27 DEF Age, Here, Group, Busy, MoneyIsSent, ListedIsSweepable, Sweepable
<1>28. ASSUME NEW d \in Deposits, Arrive(d) PROVE SeesThemAll'
  BY <1>28 DEF Arrive, Here, Group, Busy, MoneyIsSent, ListedIsSweepable, Sweepable
<1>29. ASSUME NEW d \in Deposits, Credit(d) PROVE SeesThemAll'
  BY <1>29 DEF Credit, Here, Group, Busy, MoneyIsSent, ListedIsSweepable, Sweepable
<1>30. ASSUME PassStops PROVE SeesThemAll'
  BY <1>30 DEF PassStops, Trouble, Leave, Here, Group, Busy, MoneyIsSent, ListedIsSweepable, Sweepable
<1>31. CASE UNCHANGED vars
  BY <1>31 DEF vars, Here, Group, Busy, MoneyIsSent, ListedIsSweepable, Sweepable
<1> QED
  BY <1>1, <1>2, <1>3, <1>4, <1>5, <1>6, <1>7, <1>8, <1>9, <1>10, <1>11, <1>12, <1>13,
     <1>14, <1>15, <1>16, <1>17, <1>18, <1>19, <1>20, <1>21, <1>22, <1>23, <1>24, <1>25,
     <1>26, <1>27, <1>28, <1>29, <1>30, <1>31
     DEF Next, Sweeper, SweeperFails, Chains, ChainsFail

\* Whichever way the signer answers, the listed rows have left.
LEMMA MarkStep == ASSUME SweepInv, TypeOK', [Next]_vars PROVE AboutToMark'
<1> USE SweepAssumption DEF SweepInv, TypeOK, AboutToMark, rowVars, chainVars, passVars, BscAt, TronAt
<1>1. ASSUME ListBsc PROVE AboutToMark'
  BY <1>1 DEF ListBsc, Sweepable, Here, Group, MoneyIsSent, ListedIsSweepable, SeesThemAll
<1>2. ASSUME ListTron PROVE AboutToMark'
  BY <1>2 DEF ListTron, Sweepable, Here, Group, MoneyIsSent, ListedIsSweepable, SeesThemAll
<1>3. ASSUME ListFails PROVE AboutToMark'
  BY <1>3 DEF ListFails, Trouble, Here, Group, MoneyIsSent, ListedIsSweepable, Sweepable, SeesThemAll
<1>4. ASSUME EndOfPass PROVE AboutToMark'
  BY <1>4 DEF EndOfPass, Here, Group, MoneyIsSent, ListedIsSweepable, Sweepable, SeesThemAll
<1>5. ASSUME MarkSwept PROVE AboutToMark'
  BY <1>5 DEF MarkSwept, Skip, Leave, Group, Here, MoneyIsSent, ListedIsSweepable, Sweepable, SeesThemAll
<1>6. ASSUME MarkFails PROVE AboutToMark'
  BY <1>6 DEF MarkFails, Trouble, Skip, Leave, Group, Here, MoneyIsSent, ListedIsSweepable, Sweepable, SeesThemAll
<1>7. ASSUME NEW a \in Addresses, BscEmpty(a) PROVE AboutToMark'
  BY <1>7 DEF BscEmpty, Group, Here, MoneyIsSent, ListedIsSweepable, Sweepable, SeesThemAll
<1>8. ASSUME NEW a \in Addresses, BscBusy(a) PROVE AboutToMark'
  BY <1>8 DEF BscBusy, Skip, Leave, Group, Here, MoneyIsSent, ListedIsSweepable, Sweepable, SeesThemAll
<1>9. ASSUME NEW a \in Addresses, BscDry(a) PROVE AboutToMark'
  BY <1>9 DEF BscDry, Leave, Here, Group, MoneyIsSent, ListedIsSweepable, Sweepable, SeesThemAll
<1>10. ASSUME NEW a \in Addresses, BscFund(a) PROVE AboutToMark'
  BY <1>10 DEF BscFund, Here, Group, MoneyIsSent, ListedIsSweepable, Sweepable, SeesThemAll
<1>11. ASSUME NEW a \in Addresses, BscSend(a) PROVE AboutToMark'
  BY <1>11 DEF BscSend, Broadcast, Here, Group, MoneyIsSent, ListedIsSweepable, Sweepable, SeesThemAll
<1>12. ASSUME BscMined PROVE AboutToMark'
  BY <1>12 DEF BscMined, Here, Group, MoneyIsSent, ListedIsSweepable, Sweepable, SeesThemAll
<1>13. ASSUME BscNotMined PROVE AboutToMark'
  BY <1>13 DEF BscNotMined, Skip, Leave, Group, Here, MoneyIsSent, ListedIsSweepable, Sweepable, SeesThemAll
<1>14. ASSUME BscFails PROVE AboutToMark'
  BY <1>14 DEF BscFails, Trouble, Skip, Leave, Group, Here, MoneyIsSent, ListedIsSweepable, Sweepable, SeesThemAll
<1>15. ASSUME NEW a \in Addresses, TronSkip(a) PROVE AboutToMark'
  BY <1>15 DEF TronSkip, Skip, Leave, Group, Here, MoneyIsSent, ListedIsSweepable, Sweepable, SeesThemAll
<1>16. ASSUME NEW a \in Addresses, TronAsk(a) PROVE AboutToMark'
  BY <1>16 DEF TronAsk, Group, Here, MoneyIsSent, ListedIsSweepable, Sweepable, SeesThemAll
<1>17. ASSUME TronEmpty PROVE AboutToMark'
  BY <1>17 DEF TronEmpty, Here, Group, MoneyIsSent, ListedIsSweepable, Sweepable, SeesThemAll
<1>18. ASSUME TronFund PROVE AboutToMark'
  BY <1>18 DEF TronFund, Skip, Leave, Group, Here, MoneyIsSent, ListedIsSweepable, Sweepable, SeesThemAll
<1>19. ASSUME TronDry PROVE AboutToMark'
  BY <1>19 DEF TronDry, Leave, Group, Here, MoneyIsSent, ListedIsSweepable, Sweepable, SeesThemAll
<1>20. ASSUME TronSend PROVE AboutToMark'
  BY <1>20 DEF TronSend, Broadcast, Here, Group, MoneyIsSent, ListedIsSweepable, Sweepable, SeesThemAll
<1>21. ASSUME TronFails PROVE AboutToMark'
  BY <1>21 DEF TronFails, Trouble, Skip, Leave, Group, Here, MoneyIsSent, ListedIsSweepable, Sweepable, SeesThemAll
<1>22. ASSUME NEW a \in Addresses, FundLands(a) PROVE AboutToMark'
  BY <1>22 DEF FundLands, Here, Group, MoneyIsSent, ListedIsSweepable, Sweepable, SeesThemAll
<1>23. ASSUME NEW a \in Addresses, FundLost(a) PROVE AboutToMark'
  BY <1>23 DEF FundLost, Trouble, Here, Group, MoneyIsSent, ListedIsSweepable, Sweepable, SeesThemAll
<1>24. ASSUME NEW a \in Addresses, TxRuns(a) PROVE AboutToMark'
  BY <1>24 DEF TxRuns, Here, Group, MoneyIsSent, ListedIsSweepable, Sweepable, SeesThemAll
<1>25. ASSUME NEW a \in Addresses, TxLost(a) PROVE AboutToMark'
  BY <1>25 DEF TxLost, Trouble, Here, Group, MoneyIsSent, ListedIsSweepable, Sweepable, SeesThemAll
<1>26. ASSUME NEW rail \in Rails, TopUp(rail) PROVE AboutToMark'
  BY <1>26 DEF TopUp, Here, Group, MoneyIsSent, ListedIsSweepable, Sweepable, SeesThemAll
<1>27. ASSUME NEW d \in Deposits, Age(d) PROVE AboutToMark'
  BY <1>27 DEF Age, Here, Group, MoneyIsSent, ListedIsSweepable, Sweepable, SeesThemAll
<1>28. ASSUME NEW d \in Deposits, Arrive(d) PROVE AboutToMark'
  BY <1>28 DEF Arrive, Here, Group, MoneyIsSent, ListedIsSweepable, Sweepable, SeesThemAll
<1>29. ASSUME NEW d \in Deposits, Credit(d) PROVE AboutToMark'
  BY <1>29 DEF Credit, Here, Group, MoneyIsSent, ListedIsSweepable, Sweepable, SeesThemAll
<1>30. ASSUME PassStops PROVE AboutToMark'
  BY <1>30 DEF PassStops, Trouble, Leave, Here, Group, MoneyIsSent, ListedIsSweepable, Sweepable, SeesThemAll
<1>31. CASE UNCHANGED vars
  BY <1>31 DEF vars, Here, Group, MoneyIsSent, ListedIsSweepable, Sweepable, SeesThemAll
<1> QED
  BY <1>1, <1>2, <1>3, <1>4, <1>5, <1>6, <1>7, <1>8, <1>9, <1>10, <1>11, <1>12, <1>13,
     <1>14, <1>15, <1>16, <1>17, <1>18, <1>19, <1>20, <1>21, <1>22, <1>23, <1>24, <1>25,
     <1>26, <1>27, <1>28, <1>29, <1>30, <1>31
     DEF Next, Sweeper, SweeperFails, Chains, ChainsFail

\* Rows are marked in the rows about to be marked, and nothing comes back.
LEMMA LeftStep == ASSUME SweepInv, TypeOK', [Next]_vars PROVE SweptHasLeft'
<1> USE SweepAssumption DEF SweepInv, TypeOK, SweptHasLeft, rowVars, chainVars, passVars, BscAt, TronAt
<1>1. ASSUME ListBsc PROVE SweptHasLeft'
  BY <1>1 DEF ListBsc, Sweepable, OnBsc, Here, Group, MoneyIsSent, ListedIsSweepable, Rail, AboutToMark
<1>2. ASSUME ListTron PROVE SweptHasLeft'
  BY <1>2 DEF ListTron, Sweepable, OnBsc, Here, Group, MoneyIsSent, ListedIsSweepable, Rail, AboutToMark
<1>3. ASSUME ListFails PROVE SweptHasLeft'
  BY <1>3 DEF ListFails, Trouble, OnBsc, Here, Group, MoneyIsSent, ListedIsSweepable, Sweepable, Rail, AboutToMark
<1>4. ASSUME EndOfPass PROVE SweptHasLeft'
  BY <1>4 DEF EndOfPass, OnBsc, Here, Group, MoneyIsSent, ListedIsSweepable, Sweepable, Rail, AboutToMark
<1>5. ASSUME MarkSwept PROVE SweptHasLeft'
  BY <1>5 DEF MarkSwept, Skip, Leave, Group, OnBsc, Here, MoneyIsSent, ListedIsSweepable, Sweepable, Rail, AboutToMark
<1>6. ASSUME MarkFails PROVE SweptHasLeft'
  BY <1>6 DEF MarkFails, Trouble, Skip, Leave, Group, OnBsc, Here, MoneyIsSent, ListedIsSweepable, Sweepable, Rail, AboutToMark
<1>7. ASSUME NEW a \in Addresses, BscEmpty(a) PROVE SweptHasLeft'
  BY <1>7 DEF BscEmpty, Group, OnBsc, Here, MoneyIsSent, ListedIsSweepable, Sweepable, Rail, AboutToMark
<1>8. ASSUME NEW a \in Addresses, BscBusy(a) PROVE SweptHasLeft'
  BY <1>8 DEF BscBusy, Skip, Leave, Group, OnBsc, Here, MoneyIsSent, ListedIsSweepable, Sweepable, Rail, AboutToMark
<1>9. ASSUME NEW a \in Addresses, BscDry(a) PROVE SweptHasLeft'
  BY <1>9 DEF BscDry, Leave, OnBsc, Here, Group, MoneyIsSent, ListedIsSweepable, Sweepable, Rail, AboutToMark
<1>10. ASSUME NEW a \in Addresses, BscFund(a) PROVE SweptHasLeft'
  BY <1>10 DEF BscFund, Here, Group, OnBsc, MoneyIsSent, ListedIsSweepable, Sweepable, Rail, AboutToMark
<1>11. ASSUME NEW a \in Addresses, BscSend(a) PROVE SweptHasLeft'
  BY <1>11 DEF BscSend, Broadcast, Here, Group, OnBsc, MoneyIsSent, ListedIsSweepable, Sweepable, Rail, AboutToMark
<1>12. ASSUME BscMined PROVE SweptHasLeft'
  BY <1>12 DEF BscMined, OnBsc, Here, Group, MoneyIsSent, ListedIsSweepable, Sweepable, Rail, AboutToMark
<1>13. ASSUME BscNotMined PROVE SweptHasLeft'
  BY <1>13 DEF BscNotMined, Skip, Leave, Group, OnBsc, Here, MoneyIsSent, ListedIsSweepable, Sweepable, Rail, AboutToMark
<1>14. ASSUME BscFails PROVE SweptHasLeft'
  BY <1>14 DEF BscFails, Trouble, Skip, Leave, Group, OnBsc, Here, MoneyIsSent, ListedIsSweepable, Sweepable, Rail, AboutToMark
<1>15. ASSUME NEW a \in Addresses, TronSkip(a) PROVE SweptHasLeft'
  BY <1>15 DEF TronSkip, Skip, Leave, Group, OnBsc, Here, MoneyIsSent, ListedIsSweepable, Sweepable, Rail, AboutToMark
<1>16. ASSUME NEW a \in Addresses, TronAsk(a) PROVE SweptHasLeft'
  BY <1>16 DEF TronAsk, Group, OnBsc, Here, MoneyIsSent, ListedIsSweepable, Sweepable, Rail, AboutToMark
<1>17. ASSUME TronEmpty PROVE SweptHasLeft'
  BY <1>17 DEF TronEmpty, OnBsc, Here, Group, MoneyIsSent, ListedIsSweepable, Sweepable, Rail, AboutToMark
<1>18. ASSUME TronFund PROVE SweptHasLeft'
  BY <1>18 DEF TronFund, Skip, Leave, Group, OnBsc, Here, MoneyIsSent, ListedIsSweepable, Sweepable, Rail, AboutToMark
<1>19. ASSUME TronDry PROVE SweptHasLeft'
  BY <1>19 DEF TronDry, Leave, Group, OnBsc, Here, MoneyIsSent, ListedIsSweepable, Sweepable, Rail, AboutToMark
<1>20. ASSUME TronSend PROVE SweptHasLeft'
  BY <1>20 DEF TronSend, Broadcast, Here, OnBsc, Group, MoneyIsSent, ListedIsSweepable, Sweepable, Rail, AboutToMark
<1>21. ASSUME TronFails PROVE SweptHasLeft'
  BY <1>21 DEF TronFails, Trouble, Skip, Leave, Group, OnBsc, Here, MoneyIsSent, ListedIsSweepable, Sweepable, Rail, AboutToMark
<1>22. ASSUME NEW a \in Addresses, FundLands(a) PROVE SweptHasLeft'
  BY <1>22 DEF FundLands, OnBsc, Here, Group, MoneyIsSent, ListedIsSweepable, Sweepable, Rail, AboutToMark
<1>23. ASSUME NEW a \in Addresses, FundLost(a) PROVE SweptHasLeft'
  BY <1>23 DEF FundLost, Trouble, OnBsc, Here, Group, MoneyIsSent, ListedIsSweepable, Sweepable, Rail, AboutToMark
<1>24. ASSUME NEW a \in Addresses, TxRuns(a) PROVE SweptHasLeft'
  BY <1>24 DEF TxRuns, Here, OnBsc, Group, MoneyIsSent, ListedIsSweepable, Sweepable, Rail, AboutToMark
<1>25. ASSUME NEW a \in Addresses, TxLost(a) PROVE SweptHasLeft'
  BY <1>25 DEF TxLost, Trouble, OnBsc, Here, Group, MoneyIsSent, ListedIsSweepable, Sweepable, Rail, AboutToMark
<1>26. ASSUME NEW rail \in Rails, TopUp(rail) PROVE SweptHasLeft'
  BY <1>26 DEF TopUp, OnBsc, Here, Group, MoneyIsSent, ListedIsSweepable, Sweepable, Rail, AboutToMark
<1>27. ASSUME NEW d \in Deposits, Age(d) PROVE SweptHasLeft'
  BY <1>27 DEF Age, OnBsc, Here, Group, MoneyIsSent, ListedIsSweepable, Sweepable, Rail, AboutToMark
<1>28. ASSUME NEW d \in Deposits, Arrive(d) PROVE SweptHasLeft'
  BY <1>28 DEF Arrive, OnBsc, Here, Group, MoneyIsSent, ListedIsSweepable, Sweepable, Rail, AboutToMark
<1>29. ASSUME NEW d \in Deposits, Credit(d) PROVE SweptHasLeft'
  BY <1>29 DEF Credit, OnBsc, Here, Group, MoneyIsSent, ListedIsSweepable, Sweepable, Rail, AboutToMark
<1>30. ASSUME PassStops PROVE SweptHasLeft'
  BY <1>30 DEF PassStops, Trouble, Leave, OnBsc, Here, Group, MoneyIsSent, ListedIsSweepable, Sweepable, Rail, AboutToMark
<1>31. CASE UNCHANGED vars
  BY <1>31 DEF vars, OnBsc, Here, Group, MoneyIsSent, ListedIsSweepable, Sweepable, Rail, AboutToMark
<1> QED
  BY <1>1, <1>2, <1>3, <1>4, <1>5, <1>6, <1>7, <1>8, <1>9, <1>10, <1>11, <1>12, <1>13,
     <1>14, <1>15, <1>16, <1>17, <1>18, <1>19, <1>20, <1>21, <1>22, <1>23, <1>24, <1>25,
     <1>26, <1>27, <1>28, <1>29, <1>30, <1>31
     DEF Next, Sweeper, SweeperFails, Chains, ChainsFail

\* The rows about to be marked are sweepable, of the address in hand, and have left.
LEMMA MarkIsPromised ==
  ASSUME SweepInv, MarkSwept
  PROVE  \E a \in Addresses : \E R \in SUBSET Deposits : Promise!Mark(a, R)
<1> USE SweepAssumption DEF SweepInv, TypeOK
<1>1. cur \in Addresses /\ Group(cur) # {} /\ Group(cur) \in SUBSET Deposits
  BY DEF MarkSwept, AskedHasRows, Group
<1>2. \A d \in Group(cur) :
        /\ Home[d] = cur /\ d \notin swept
        /\ Rail(cur) = (IF pc = "bsc_mark" THEN "bsc" ELSE "tron")
        /\ status[d] \in {"credited", "submitted"}
  BY DEF MarkSwept, ListedIsSweepable, BscAt, TronAt, Group, Sweepable
<1>3. Group(cur) \subseteq {d \in Promise!Sweepable(Promise!Rail(cur)) : Home[d] = cur}
  BY <1>1, <1>2 DEF Promise!Sweepable, Promise!Rail
<1>4. \A d \in Group(cur) : Promise!HasLeft(d)
  BY <1>1, <1>2 DEF MarkSwept, AboutToMark, Promise!HasLeft, Promise!OnBsc, Rail
<1>5. Promise!Mark(cur, Group(cur))
  BY <1>1, <1>3, <1>4 DEF MarkSwept, Promise!Mark, chainVars
<1> QED
  BY <1>1, <1>5

\* A transfer is of an address with a row to sweep and no other transfer, and of USDT
\* that is there.
LEMMA SendIsPromised ==
  ASSUME SweepInv, TronSend \/ \E a \in Addresses : BscSend(a)
  PROVE  \E a \in Addresses : \E D \in SUBSET Deposits : Promise!Send(a, D)
<1> USE SweepAssumption DEF SweepInv, TypeOK
<1>1. ASSUME NEW a \in Addresses, NEW D \in SUBSET Deposits,
             Group(a) # {}, pc \in BscAt \cup TronAt, tx[a] = {}, D # {}, D \subseteq Here(a),
             Broadcast(a, D), UNCHANGED <<status, swept, place>>
      PROVE  Promise!Send(a, D)
  <2>1. \E d \in Promise!Sweepable(Promise!Rail(a)) : Home[d] = a
    BY <1>1 DEF Group, ListedIsSweepable, Sweepable, Rail, Promise!Sweepable, Promise!Rail
  <2>2. D \subseteq Promise!Here(a)
    BY <1>1 DEF Here, Promise!Here
  <2> QED
    BY <1>1, <2>1, <2>2 DEF Promise!Send, Broadcast
<1>2. CASE TronSend
  <2>1. /\ cur \in Addresses /\ Group(cur) # {} /\ pc \in TronAt
        /\ tx[cur] = {} /\ Here(cur) # {} /\ Here(cur) \in SUBSET Deposits
    BY <1>2 DEF TronSend, AskedHasRows, TronAt, Here
  <2>2. Broadcast(cur, Here(cur)) /\ UNCHANGED <<status, swept, place>>
    BY <1>2 DEF TronSend, rowVars
  <2> QED
    BY <1>1, <2>1, <2>2
<1>3. ASSUME NEW a \in Addresses, BscSend(a)
      PROVE  \E D \in SUBSET Deposits : Promise!Send(a, D)
  <2>1. Broadcast(a, sees') /\ UNCHANGED <<status, swept, place>> /\ pc \in BscAt
    BY <1>3 DEF BscSend, rowVars, BscAt
  <2>2. Group(a) # {}
    BY <1>3 DEF BscSend, AskedHasRows
  <2>3. tx[a] = {} /\ sees' # {} /\ sees' \subseteq Here(a) /\ sees' \in SUBSET Deposits
    BY <1>3 DEF BscSend, Busy, SeesThemAll, Here
  <2> QED
    BY <1>1, <2>1, <2>2, <2>3
<1> QED
  BY <1>2, <1>3

\* Every step is one of SweepPromise, or changes nothing of what it speaks of.
LEMMA StepIsPromised ==
  ASSUME SweepInv, [Next]_vars
  PROVE  [Promise!PromiseNext]_(Promise!promiseVars)
<1> USE DEF Promise!promiseVars, rowVars, chainVars
<1>1. ASSUME ListBsc PROVE [Promise!PromiseNext]_(Promise!promiseVars)
  BY <1>1 DEF ListBsc
<1>2. ASSUME ListTron PROVE [Promise!PromiseNext]_(Promise!promiseVars)
  BY <1>2 DEF ListTron
<1>3. ASSUME ListFails PROVE [Promise!PromiseNext]_(Promise!promiseVars)
  BY <1>3 DEF ListFails
<1>4. ASSUME EndOfPass PROVE [Promise!PromiseNext]_(Promise!promiseVars)
  BY <1>4 DEF EndOfPass
<1>5. ASSUME MarkSwept PROVE [Promise!PromiseNext]_(Promise!promiseVars)
  BY <1>5, MarkIsPromised DEF Promise!PromiseNext
<1>6. ASSUME MarkFails PROVE [Promise!PromiseNext]_(Promise!promiseVars)
  BY <1>6 DEF MarkFails
<1>7. ASSUME NEW a \in Addresses, BscEmpty(a) PROVE [Promise!PromiseNext]_(Promise!promiseVars)
  BY <1>7 DEF BscEmpty
<1>8. ASSUME NEW a \in Addresses, BscBusy(a) PROVE [Promise!PromiseNext]_(Promise!promiseVars)
  BY <1>8 DEF BscBusy
<1>9. ASSUME NEW a \in Addresses, BscDry(a) PROVE [Promise!PromiseNext]_(Promise!promiseVars)
  BY <1>9 DEF BscDry
<1>10. ASSUME NEW a \in Addresses, BscFund(a) PROVE [Promise!PromiseNext]_(Promise!promiseVars)
  BY <1>10 DEF BscFund
<1>11. ASSUME NEW a \in Addresses, BscSend(a) PROVE [Promise!PromiseNext]_(Promise!promiseVars)
  BY <1>11, SendIsPromised DEF Promise!PromiseNext
<1>12. ASSUME BscMined PROVE [Promise!PromiseNext]_(Promise!promiseVars)
  BY <1>12 DEF BscMined
<1>13. ASSUME BscNotMined PROVE [Promise!PromiseNext]_(Promise!promiseVars)
  BY <1>13 DEF BscNotMined
<1>14. ASSUME BscFails PROVE [Promise!PromiseNext]_(Promise!promiseVars)
  BY <1>14 DEF BscFails
<1>15. ASSUME NEW a \in Addresses, TronSkip(a) PROVE [Promise!PromiseNext]_(Promise!promiseVars)
  BY <1>15 DEF TronSkip
<1>16. ASSUME NEW a \in Addresses, TronAsk(a) PROVE [Promise!PromiseNext]_(Promise!promiseVars)
  BY <1>16 DEF TronAsk
<1>17. ASSUME TronEmpty PROVE [Promise!PromiseNext]_(Promise!promiseVars)
  BY <1>17 DEF TronEmpty
<1>18. ASSUME TronFund PROVE [Promise!PromiseNext]_(Promise!promiseVars)
  BY <1>18 DEF TronFund
<1>19. ASSUME TronDry PROVE [Promise!PromiseNext]_(Promise!promiseVars)
  BY <1>19 DEF TronDry
<1>20. ASSUME TronSend PROVE [Promise!PromiseNext]_(Promise!promiseVars)
  BY <1>20, SendIsPromised DEF Promise!PromiseNext
<1>21. ASSUME TronFails PROVE [Promise!PromiseNext]_(Promise!promiseVars)
  BY <1>21 DEF TronFails
<1>22. ASSUME NEW a \in Addresses, FundLands(a) PROVE [Promise!PromiseNext]_(Promise!promiseVars)
  BY <1>22 DEF FundLands
<1>23. ASSUME NEW a \in Addresses, FundLost(a) PROVE [Promise!PromiseNext]_(Promise!promiseVars)
  BY <1>23 DEF FundLost
<1>24. ASSUME NEW a \in Addresses, TxRuns(a) PROVE [Promise!PromiseNext]_(Promise!promiseVars)
  <2>1. Promise!Land(a)
    BY <1>24 DEF TxRuns, Promise!Land, Here, Promise!Here
  <2> QED
    BY <2>1 DEF Promise!PromiseNext
<1>25. ASSUME NEW a \in Addresses, TxLost(a) PROVE [Promise!PromiseNext]_(Promise!promiseVars)
  <2>1. Promise!Lose(a)
    BY <1>25 DEF TxLost, Promise!Lose
  <2> QED
    BY <2>1 DEF Promise!PromiseNext
<1>26. ASSUME NEW rail \in Rails, TopUp(rail) PROVE [Promise!PromiseNext]_(Promise!promiseVars)
  BY <1>26 DEF TopUp
<1>27. ASSUME NEW d \in Deposits, Age(d) PROVE [Promise!PromiseNext]_(Promise!promiseVars)
  BY <1>27 DEF Age
<1>28. ASSUME NEW d \in Deposits, Arrive(d) PROVE [Promise!PromiseNext]_(Promise!promiseVars)
  <2>1. Promise!Arrive(d)
    BY <1>28 DEF Arrive, Promise!Arrive
  <2> QED
    BY <2>1 DEF Promise!PromiseNext
<1>29. ASSUME NEW d \in Deposits, Credit(d) PROVE [Promise!PromiseNext]_(Promise!promiseVars)
  <2>1. Promise!SetStatus(d, "credited")
    BY <1>29 DEF Credit, Promise!SetStatus
  <2> QED
    BY <2>1 DEF Promise!PromiseNext, Promise!Statuses
<1>30. ASSUME PassStops PROVE [Promise!PromiseNext]_(Promise!promiseVars)
  BY <1>30 DEF PassStops
<1>31. CASE UNCHANGED vars
  BY <1>31 DEF vars
<1> QED
  BY <1>1, <1>2, <1>3, <1>4, <1>5, <1>6, <1>7, <1>8, <1>9, <1>10, <1>11, <1>12, <1>13,
     <1>14, <1>15, <1>16, <1>17, <1>18, <1>19, <1>20, <1>21, <1>22, <1>23, <1>24, <1>25,
     <1>26, <1>27, <1>28, <1>29, <1>30, <1>31
     DEF Next, Sweeper, SweeperFails, Chains, ChainsFail

-----------------------------------------------------------------------------
\* What holds between the steps of a pass holds always.
LEMMA SweepInvariant == Spec => []SweepInv
<1>1. Init => SweepInv
  BY SweepAssumption DEF Init, SweepInv, TypeOK, Statuses, Rails, ListedIsSweepable, AskedHasRows,
     MoneyIsSent, SeesThemAll, AboutToMark, SweptHasLeft, BscAt, TronAt
<1>2. SweepInv /\ [Next]_vars => SweepInv'
  <2> SUFFICES ASSUME SweepInv, [Next]_vars PROVE SweepInv'
    OBVIOUS
  <2>1. TypeOK'
    BY TypeStep DEF SweepInv
  <2> QED
    BY <2>1, ListedStep, AskedStep, MoneyStep, SeesStep, MarkStep, LeftStep DEF SweepInv
<1> QED
  BY <1>1, <1>2, PTL DEF Spec

\* A row with swept_at leaves nothing behind: on BSC its USDT has arrived, on TRON a
\* transfer of it was broadcast (sweeper.rs marks on the signer's answers).
THEOREM SweptMoneyHasLeft == Spec => []SweptHasLeft
<1>1. SweepInv => SweptHasLeft
  BY DEF SweepInv
<1> QED
  BY <1>1, SweepInvariant, PTL

\* The pass, the gas and the signer implement SweepPromise: one transfer of an address
\* at a time, of what is there, and rows are marked once their USDT has left.
THEOREM SweepRefinesPromise == Spec => SweepKeepsPromise
<1>1. Init => Promise!PromiseInit
  BY DEF Init, Promise!PromiseInit
<1>2. SweepInv /\ [Next]_vars => [Promise!PromiseNext]_(Promise!promiseVars)
  BY StepIsPromised
<1> QED
  BY <1>1, <1>2, SweepInvariant, PTL DEF Spec, SweepKeepsPromise, Promise!PromiseSpec
=============================================================================
