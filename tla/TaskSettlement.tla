--------------------------- MODULE TaskSettlement ---------------------------
(***************************************************************************)
(* The promise of the media workers about money, whatever crashes, retries *)
(* and races they go through: a task is quoted, then charged once or       *)
(* rejected, and a charged task is either delivered, keeping the charge,   *)
(* or refunded in full.  Nothing else moves a credit.                      *)
(***************************************************************************)
EXTENDS Naturals

CONSTANTS Tasks, Balance, KeyLimit

VARIABLES
  phase,    \* quoted, charged, delivered, refunded or rejected
  credits,  \* credits in the wallet
  used      \* credits_used of the API key

Init ==
  /\ phase = [t \in Tasks |-> "quoted"]
  /\ credits = Balance
  /\ used = 0

ChargeTask(t) ==
  /\ phase[t] = "quoted"
  /\ credits >= 1 /\ used + 1 <= KeyLimit
  /\ phase' = [phase EXCEPT ![t] = "charged"]
  /\ credits' = credits - 1
  /\ used' = used + 1

Reject(t) ==
  /\ phase[t] = "quoted"
  /\ phase' = [phase EXCEPT ![t] = "rejected"]
  /\ UNCHANGED <<credits, used>>

Deliver(t) ==
  /\ phase[t] = "charged"
  /\ phase' = [phase EXCEPT ![t] = "delivered"]
  /\ UNCHANGED <<credits, used>>

RefundTask(t) ==
  /\ phase[t] = "charged"
  /\ phase' = [phase EXCEPT ![t] = "refunded"]
  /\ credits' = credits + 1
  /\ used' = used - 1

Next == \E t \in Tasks : ChargeTask(t) \/ Reject(t) \/ Deliver(t) \/ RefundTask(t)

Spec == Init /\ [][Next]_<<phase, credits, used>>
=============================================================================
