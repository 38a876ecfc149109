------------------------- MODULE ConfirmTransaction -------------------------
(***************************************************************************)
(* Connection::confirmTransaction (lib/solana.cpp): a thread polls an RPC  *)
(* server until one transaction has the wanted commitment, while the       *)
(* cluster goes on producing blocks.  A remote call takes effect at the    *)
(* server in one step; any number of cluster steps pass between two calls, *)
(* so every answer may be old by the time the loop looks at it.            *)
(***************************************************************************)
EXTENDS Integers

CONSTANTS
  Level,        \* confirmLevel
  Validity,     \* blocks for which a blockhash can be used (cluster)
  Extra,        \* MAXIMUM_NUMBER_OF_BLOCKS_FOR_TRANSACTION
  MaxLag,       \* blocks by which Level trails the tip of the chain (cluster)
  MaxRetries,   \* bound: the argument retries
  MaxTip        \* bound: the block height the cluster reaches

Statuses == {"none", "processed", "confirmed", "finalized"}

ASSUME LevelAssumption == Level \in Statuses \ {"none"}
ASSUME BlocksAssumption ==
  /\ Validity \in Nat /\ Extra \in Nat /\ MaxLag \in Nat
  /\ MaxRetries \in Nat /\ MaxTip \in Nat
\* the slack the code adds outweighs the distance between levels
ASSUME SlackAssumption == MaxLag < Extra

VARIABLES
  pc,                  \* the next remote call of the loop, or where it stands
  retries,             \* the argument, counted down
  timeoutBlockheight,
  currentBlockheight,
  res,                 \* status in the last answer of getSignatureStatus
  result,              \* what the call returned or threw
  tip,                 \* height of the chain (cluster)
  height,              \* height of the newest block with Level (cluster)
  expiry,              \* last height at which the transaction can land (cluster)
  status               \* commitment of the transaction (cluster)

clientVars == <<pc, retries, timeoutBlockheight, currentBlockheight, res, result>>
clusterVars == <<tip, height, expiry, status>>
vars == <<clientVars, clusterVars>>

\* Commitment is an enum class: the order of its enumerators
Rank == [none |-> 0, processed |-> 1, confirmed |-> 2, finalized |-> 3]

Reached(s) == Rank[s] >= Rank[Level]

\* The transaction was signed with a blockhash of some block up to the tip,
\* sent before this call, and may have landed already.
Init ==
  /\ tip \in 0 .. MaxTip
  /\ height \in 0 .. tip /\ tip - height <= MaxLag
  /\ expiry \in 0 .. tip + Validity
  /\ status \in Statuses
  /\ pc = "latest"
  /\ retries \in 0 .. MaxRetries
  /\ timeoutBlockheight = 0 /\ currentBlockheight = 0
  /\ res = "none" /\ result = "none"

----------------------------------------------------------------------------
(* The calling thread. *)

\* broken: no allowance beyond the validity of the newest blockhash
TimeoutWithoutSlack(h) == h + Validity

\* lastValidBlockHeight of the answer, plus the constant
Timeout(h) == h + Validity + Extra

\* broken: the test of the loop lets one more round through
FirstCallSkipsTest(r) == pc' = "height" /\ UNCHANGED result

\* while (retries > 0) ... return false
LoopTest(r) ==
  \/ r > 0 /\ pc' = "height" /\ UNCHANGED result
  \/ r = 0 /\ pc' = "done" /\ result' = "false"

GetLatestBlockhash ==
  /\ pc = "latest"
  /\ timeoutBlockheight' = Timeout(height)
  /\ LoopTest(retries)
  /\ UNCHANGED <<retries, currentBlockheight, res, clusterVars>>

GetBlockHeight ==
  /\ pc = "height"
  /\ currentBlockheight' = height
  /\ pc' = "status"
  /\ UNCHANGED <<retries, timeoutBlockheight, res, result, clusterVars>>

GetSignatureStatus ==
  /\ pc = "status"
  /\ res' = status
  /\ pc' = "decide"
  /\ UNCHANGED <<retries, timeoutBlockheight, currentBlockheight, result, clusterVars>>

TimedOut == timeoutBlockheight <= currentBlockheight

ThrowTimeout ==
  /\ pc = "decide"
  /\ TimedOut
  /\ result' = "timeout"
  /\ pc' = "done"
  /\ UNCHANGED <<retries, timeoutBlockheight, currentBlockheight, res, clusterVars>>

\* broken: any status counts
AnyStatus(s) == s # "none"

\* broken: the comparison is strict
BeyondLevel(s) == Rank[s] > Rank[Level]

\* the status has exactly the wanted level
Confirmed(s) == s = Level

ReturnTrue ==
  /\ pc = "decide"
  /\ ~TimedOut
  /\ Confirmed(res)
  /\ result' = "true"
  /\ pc' = "done"
  /\ UNCHANGED <<retries, timeoutBlockheight, currentBlockheight, res, clusterVars>>

Sleep ==
  /\ pc = "decide"
  /\ ~TimedOut
  /\ ~Confirmed(res)
  /\ pc' = "asleep"
  /\ UNCHANGED <<retries, timeoutBlockheight, currentBlockheight, res, result, clusterVars>>

\* broken: the counter is not decremented
RoundsKept(r) == r

RoundsLeft(r) == r - 1

NextRound ==
  /\ pc = "asleep"
  /\ retries' = RoundsLeft(retries)
  /\ LoopTest(RoundsLeft(retries))
  /\ UNCHANGED <<timeoutBlockheight, currentBlockheight, res, clusterVars>>

\* sendJsonRpcRequest throws: no answer, a status code other than 200, or an
\* error member in the answer
RequestFails ==
  /\ pc \in {"latest", "height", "status"}
  /\ result' = "rpc_error"
  /\ pc' = "done"
  /\ UNCHANGED <<retries, timeoutBlockheight, currentBlockheight, res, clusterVars>>

Client ==
  \/ GetLatestBlockhash \/ GetBlockHeight \/ GetSignatureStatus
  \/ ThrowTimeout \/ ReturnTrue \/ Sleep \/ NextRound \/ RequestFails

----------------------------------------------------------------------------
(* The cluster. *)

NewBlock ==
  /\ tip < MaxTip
  /\ tip' = tip + 1
  /\ height' \in height .. tip'
  /\ tip' - height' <= MaxLag
  /\ UNCHANGED <<expiry, status, clientVars>>

\* a transaction enters a block only while its blockhash is recent
Land ==
  /\ status = "none"
  /\ tip <= expiry
  /\ status' = "processed"
  /\ UNCHANGED <<tip, height, expiry, clientVars>>

\* the fork with the transaction is abandoned
Drop ==
  /\ status = "processed"
  /\ status' = "none"
  /\ UNCHANGED <<tip, height, expiry, clientVars>>

Vote ==
  /\ \/ status = "processed" /\ status' = "confirmed"
     \/ status = "confirmed" /\ status' = "finalized"
  /\ UNCHANGED <<tip, height, expiry, clientVars>>

Cluster == NewBlock \/ Land \/ Drop \/ Vote

----------------------------------------------------------------------------

Next == Client \/ Cluster

Spec == Init /\ [][Next]_vars

\* The thread runs, and every remote call ends with an answer or an error:
\* cpr::Post sets no timeout of its own.  Nothing is asked of the cluster.
FairSpec == Spec /\ WF_vars(Client)

----------------------------------------------------------------------------

(* Every variable keeps its type; the argument retries is never counted    *)
(* below zero (solana.cpp:819-829).                                        *)
TypeOK ==
  /\ pc \in {"latest", "height", "status", "decide", "asleep", "done"}
  /\ retries \in 0 .. MaxRetries
  /\ timeoutBlockheight \in Nat /\ currentBlockheight \in Nat
  /\ res \in Statuses /\ status \in Statuses
  /\ result \in {"none", "true", "false", "timeout", "rpc_error"}
  /\ tip \in 0 .. MaxTip /\ height \in Nat /\ expiry \in Nat

(* When the call has returned true, the transaction has the wanted         *)
(* commitment from then on: no older answer and no lower level was taken   *)
(* for it (solana.cpp:824).  A commitment of "processed" can be lost again,*)
(* so this is a promise for the other two levels.                          *)
TrueIsRight == result = "true" => Reached(status)

(* When the call throws a timeout and the last answer knew nothing of the  *)
(* transaction, the transaction is never part of a block later: a caller   *)
(* may sign and send it again (solana.cpp:817-823).                        *)
TimeoutIsFinal == result = "timeout" /\ res = "none" => status = "none"

(* Only a level that is passed between two polls is missed: a call that    *)
(* starts a round while the transaction has the wanted level does not      *)
(* return false unless the transaction leaves the level, although the      *)
(* height is asked for before the status (solana.cpp:820-827).             *)
StandingLevelNoticed ==
  pc = "height" /\ status = Level
    ~> result \in {"true", "timeout", "rpc_error"} \/ status # Level

(* The call ends, by its retries if nothing else, even if the cluster      *)
(* stands still (solana.cpp:819-830).                                      *)
Returns == <>(pc = "done")
=============================================================================
