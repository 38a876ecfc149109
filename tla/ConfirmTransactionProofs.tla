---------------------- MODULE ConfirmTransactionProofs ----------------------
(***************************************************************************)
(* Proofs about ConfirmTransaction, for every validity, lag, slack, number *)
(* of retries and height.  A verdict (true, or a timeout that allows the   *)
(* caller to try again) rests on answers that were old when they were used *)
(* so each has to be strengthened to a fact about the present cluster:     *)
(* a status of confirmed or more is not lost, and a block height beyond    *)
(* the timeout means that the transaction can no longer land.              *)
(***************************************************************************)
EXTENDS ConfirmTransaction, TLAPS

Polling == pc \in {"height", "status", "decide", "asleep"}

\* the heights the cluster shows belong to one chain
ChainOK ==
  /\ height <= tip /\ tip - height <= MaxLag
  /\ expiry <= tip + Validity
  /\ currentBlockheight <= height

\* rounds left while the loop runs, and what an ended call ended with
LoopOK ==
  /\ Polling => retries > 0
  /\ Polling \/ pc = "latest" <=> result = "none"
  /\ result = "timeout" => TimedOut
  /\ result = "true" => res = Level
  /\ pc = "latest" => res = "none"

\* the timeout lies beyond the last block the transaction can be part of
TimeoutBeyondExpiry ==
  Polling \/ result = "timeout" => expiry < timeoutBlockheight

\* an answer of confirmed or finalized is a lower bound of the status
AnswerStable ==
  /\ res = "confirmed" => status \in {"confirmed", "finalized"}
  /\ res = "finalized" => status = "finalized"

\* an unknown transaction after the timeout stays unknown
UnknownStaysUnknown ==
  (pc = "decide" \/ result = "timeout") /\ TimedOut /\ res = "none"
    => status = "none"

IInv == TypeOK /\ ChainOK /\ LoopOK /\ TimeoutBeyondExpiry /\ AnswerStable /\ UnknownStaysUnknown

\* the members of an interval lie in it
LEMMA RangeFacts ==
  ASSUME NEW a \in Nat, NEW b \in Nat, NEW x \in a .. b
  PROVE  x \in Nat /\ a <= x /\ x <= b
OBVIOUS

\* the chain grows: what the client saw of it stays behind
LEMMA ChainGrows ==
  ASSUME NEW t \in Nat, NEW h \in Nat, NEW h1 \in Nat, NEW e \in Nat, NEW c \in Nat,
         c <= h, h <= h1, e <= t + Validity
  PROVE  c <= h1 /\ e <= (t + 1) + Validity
BY BlocksAssumption

\* the cluster and the loop start in the invariant
LEMMA InitInv == Init => IInv
BY LevelAssumption, BlocksAssumption, SlackAssumption
   DEF Init, IInv, TypeOK, ChainOK, LoopOK, Polling, TimeoutBeyondExpiry, AnswerStable,
       UnknownStaysUnknown, TimedOut, Statuses

\* every step of the client and of the cluster keeps the invariant
LEMMA StepInv == IInv /\ [Next]_vars => IInv'
<1> USE LevelAssumption, BlocksAssumption, SlackAssumption
        DEF TypeOK, ChainOK, LoopOK, Polling, TimeoutBeyondExpiry, AnswerStable,
            UnknownStaysUnknown, TimedOut, Statuses
<1> SUFFICES ASSUME IInv, [Next]_vars
             PROVE  IInv'
    OBVIOUS
<1>1. CASE GetLatestBlockhash
      BY <1>1 DEF IInv, GetLatestBlockhash, Timeout, LoopTest, clusterVars
<1>2. CASE GetBlockHeight
      BY <1>2 DEF IInv, GetBlockHeight, clusterVars
<1>3. CASE GetSignatureStatus
      BY <1>3 DEF IInv, GetSignatureStatus, clusterVars
<1>4. CASE ThrowTimeout
      BY <1>4 DEF IInv, ThrowTimeout, clusterVars
<1>5. CASE ReturnTrue
      BY <1>5 DEF IInv, ReturnTrue, Confirmed, clusterVars
<1>6. CASE Sleep
      BY <1>6 DEF IInv, Sleep, Confirmed, clusterVars
<1>7. CASE NextRound
      BY <1>7 DEF IInv, NextRound, RoundsLeft, LoopTest, clusterVars
<1>8. CASE RequestFails
      BY <1>8 DEF IInv, RequestFails, clusterVars
<1>9. CASE NewBlock
  <2>1. /\ tip' = tip + 1 /\ tip < MaxTip
        /\ height' \in Nat /\ height <= height'
        /\ height' <= tip' /\ tip' - height' <= MaxLag
    <3>1. tip \in Nat /\ height \in Nat
          BY DEF IInv
    <3>2. /\ tip' = tip + 1 /\ tip < MaxTip
          /\ height' \in height .. tip' /\ tip' - height' <= MaxLag
          BY <1>9 DEF NewBlock
    <3>3. tip' \in Nat
          BY <3>1, <3>2
    <3>4. height' \in Nat /\ height <= height' /\ height' <= tip'
          BY <3>1, <3>2, <3>3, RangeFacts
    <3>5. QED
          BY <3>2, <3>4
  <2>2. UNCHANGED <<expiry, status, clientVars>>
        BY <1>9 DEF NewBlock
  <2>3. TypeOK'
        BY <2>1, <2>2 DEF IInv, clientVars
  <2>4. ChainOK'
    <3>1. /\ tip \in Nat /\ height \in Nat /\ expiry \in Nat /\ currentBlockheight \in Nat
          /\ currentBlockheight <= height /\ expiry <= tip + Validity
          BY DEF IInv
    <3>2. currentBlockheight <= height' /\ expiry <= (tip + 1) + Validity
          BY <2>1, <3>1, ChainGrows
    <3>3. QED
          BY <2>1, <2>2, <3>2 DEF clientVars
  <2>5. /\ LoopOK' /\ TimeoutBeyondExpiry'
        /\ AnswerStable' /\ UnknownStaysUnknown'
        BY <2>2 DEF IInv, clientVars
  <2>6. QED
        BY <2>3, <2>4, <2>5 DEF IInv
<1>10. CASE Land
      BY <1>10 DEF IInv, Land, clientVars
<1>11. CASE Drop
      BY <1>11 DEF IInv, Drop, clientVars
<1>12. CASE Vote
      BY <1>12 DEF IInv, Vote, clientVars
<1>13. CASE UNCHANGED vars
      BY <1>13 DEF IInv, vars, clientVars, clusterVars
<1>14. QED
      BY <1>1, <1>2, <1>3, <1>4, <1>5, <1>6, <1>7, <1>8, <1>9, <1>10, <1>11, <1>12, <1>13
      DEF Next, Client, Cluster

\* the invariant holds in every state
LEMMA Inductive == Spec => []IInv
BY InitInv, StepInv, PTL DEF Spec

(* The variables of the loop and of the cluster stay in their ranges: in   *)
(* particular retries, an unsigned number, is never counted below zero.    *)
THEOREM TypeCorrect == Spec => []TypeOK
<1>1. IInv => TypeOK
      BY DEF IInv
<1>2. QED
      BY <1>1, Inductive, PTL

(* A caller who gets true may rely on it, although the answer the code     *)
(* looked at is older than its return; for the levels that are not lost.   *)
THEOREM TrueIsRightAlways ==
  ASSUME Level # "processed"
  PROVE  Spec => []TrueIsRight
<1>1. IInv => TrueIsRight
      BY LevelAssumption
      DEF IInv, LoopOK, AnswerStable, TypeOK, TrueIsRight, Reached, Rank, Statuses
<1>2. QED
      BY <1>1, Inductive, PTL

(* A timeout of an unknown transaction is final, because the slack the     *)
(* code adds is more than the lag between the levels and because the loop  *)
(* asks for the height before it asks for the status.                      *)
THEOREM TimeoutIsFinalAlways == Spec => []TimeoutIsFinal
<1>1. IInv => TimeoutIsFinal
      BY DEF IInv, LoopOK, UnknownStaysUnknown, TimeoutIsFinal
<1>2. QED
      BY <1>1, Inductive, PTL
=============================================================================
