-------------------------- MODULE ImageSettlement --------------------------
(***************************************************************************)
(* What the image worker promises of money, whatever crashes, sweeps and   *)
(* races it goes through: an admitted image has been paid for; at most one *)
(* repair is added to its cost; then it is either delivered at that cost,  *)
(* or it fails and only a fee for moderation may be kept -- or the whole   *)
(* price, of an image that moderation blocked and no repair was made for.  *)
(***************************************************************************)
EXTENDS Naturals

CONSTANTS Tasks, Price, RepairPrice, Fee

VARIABLES
  outcome,   \* pending, completed or failed
  repaired,  \* has a repair been charged?
  cost       \* what the ledger has taken and not given back

vars == <<outcome, repaired, cost>>

Init ==
  /\ outcome = [t \in Tasks |-> "pending"]
  /\ repaired = [t \in Tasks |-> FALSE]
  /\ cost = [t \in Tasks |-> Price]

Repair(t) ==
  /\ outcome[t] = "pending" /\ ~repaired[t]
  /\ repaired' = [repaired EXCEPT ![t] = TRUE]
  /\ cost' = [cost EXCEPT ![t] = @ + RepairPrice]
  /\ UNCHANGED outcome

Deliver(t) ==
  /\ outcome[t] = "pending"
  /\ outcome' = [outcome EXCEPT ![t] = "completed"]
  /\ UNCHANGED <<repaired, cost>>

Kept(t) == {0, Fee} \cup (IF repaired[t] THEN {} ELSE {Price})

Fail(t) ==
  /\ outcome[t] = "pending"
  /\ outcome' = [outcome EXCEPT ![t] = "failed"]
  /\ cost' \in {[cost EXCEPT ![t] = kept] : kept \in Kept(t)}
  /\ UNCHANGED repaired

Next == \E t \in Tasks : Repair(t) \/ Deliver(t) \/ Fail(t)

Spec == Init /\ [][Next]_vars
=============================================================================
