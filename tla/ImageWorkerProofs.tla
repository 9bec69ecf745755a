------------------------- MODULE ImageWorkerProofs -------------------------
(***************************************************************************)
(* Theorems about ImageWorker, for every set of tasks and workers, every   *)
(* limit, capacity and price, and whatever sessions break.                 *)
(***************************************************************************)
EXTENDS ImageWorker, FiniteSetTheorems, TLAPS

-----------------------------------------------------------------------------
(* The inductive invariant.                                                *)

(* The money of a row and how its generation ended.                        *)
Money(t) ==
  /\ gen[t] = "pending" => consumed[t] >= Price
  /\ gen[t] = "failed" => refunds[t] \in {{}, {"worker"}, {"timeout"}}
  /\ gen[t] # "failed" => refunds[t] = {}
  /\ refunds[t] = {} <=> refunded[t] = 0
  /\ paid[t] = consumed[t] + refunded[t]

(* A closed row is claimed by nobody and agrees with its generation.       *)
Closed(t) ==
  /\ status[t] \in Final => claim[t] = None /\ gen[t] = status[t]
  /\ gen[t] = "completed" => status[t] = "completed"
  /\ live[t] => claim[t] # None /\ status[t] = "running"

Rows == \A t \in Tasks : Money(t) /\ Closed(t)

(* What an execution knows of its row: the claim query's own token is still*)
(* there when the execution replaces it, and a row that is about to be     *)
(* closed as failed belongs to a failed generation.                        *)
Local(w) ==
  /\ wk[w].pc # "idle" => wk[w].task \in Tasks
  /\ wk[w].pc \in Entering /\ status[Task(w)] \notin Final
       => claim[Task(w)] = Stale /\ live[Task(w)]
  /\ wk[w].pc = "close" => gen[Task(w)] = "failed"

SoleEntrant == \A v, w \in Workers :
  wk[v].pc \in Entering /\ wk[w].pc \in Entering /\ Task(v) = Task(w) => v = w

Locals == (\A w \in Workers : Local(w)) /\ SoleEntrant

(* At most one execution is ever past the durable stage and before the POST*)
(* that the stage announces.                                               *)
Posting == {"post", "opaque", "postAgain"}
Posts ==
  /\ \A t \in Tasks : jobs[t] <= 1 /\ (call[t] = "none" => jobs[t] = 0)
  /\ \A w \in Workers : wk[w].pc \in Posting => call[Task(w)] # "none" /\ jobs[Task(w)] = 0
  /\ \A v, w \in Workers :
       wk[v].pc \in Posting /\ wk[w].pc \in Posting /\ Task(v) = Task(w) => v = w

(* The same for the repair, whose stage also guards its charge.            *)
Submitted == {"repost", "reawait", "recharge"}
Repaired ==
  /\ \A t \in Tasks : repairJobs[t] <= 1 /\ (receipt[t] = "none" => repairJobs[t] = 0)
  /\ \A w \in Workers : wk[w].pc = "repost" => repairJobs[Task(w)] = 0
  /\ \A w \in Workers : wk[w].pc \in Submitted => receipt[Task(w)] = "submitting"
  /\ \A v, w \in Workers :
       wk[v].pc \in Submitted /\ wk[w].pc \in Submitted /\ Task(v) = Task(w) => v = w

(* The stage is durable from before the POST on: an execution whose image  *)
(* moderation may still block has sent nothing, and has repaired nothing.  *)
Announced == {"post", "opaque", "postAgain", "await", "query", "read", "store", "commit"}
               \cup Repairing
Sent ==
  /\ \A t \in Tasks : receipt[t] # "none" => call[t] # "none"
  /\ \A w \in Workers : wk[w].pc \in Announced \/ (wk[w].pc = "lease" /\ wk[w].polling)
                          => call[Task(w)] # "none"

(* The row at the member, from the lease to the answer.                    *)
Placed == \A w \in Workers : Owns(w) /\ live[Task(w)] =>
  /\ wk[w].pc \in {"send", "post", "opaque", "postAgain", "await", "query"} => lease[Task(w)] = w
  /\ wk[w].pc \in {"receipt", "repost", "reawait"} => repairLease[Task(w)] = w

(* What the types of a step need of the invariant.                         *)
Tasked == \A w \in Workers : wk[w].pc # "idle" => wk[w].task \in Tasks
Charged == \A t \in Tasks : gen[t] = "pending" => consumed[t] >= Price

IInv == TypeOK /\ Rows /\ Locals /\ Posts /\ Repaired /\ Sent /\ Placed

-----------------------------------------------------------------------------
(* Frames: which steps touch which rows.                                   *)
TaskMove ==
  \/ \E w \in Workers, t \in Tasks : Claim(w, t)
  \/ \E w \in Workers : \/ TakeClaim(w) \/ Reconcile(w) \/ Persist(w) \/ Complete(w)
                         \/ Close(w) \/ Release(w) \/ Unlock(w) \/ Crash(w)
  \/ \E t \in Tasks : Sweep(t) \/ ExpireClaim(t)
MoneyMove ==
  \/ \E w \in Workers : RepairCharge(w) \/ Fail(w)
  \/ \E t \in Tasks : Sweep(t)
GenMove ==
  \/ \E w \in Workers : \/ BeforeSend(w) \/ BeforeOpaque(w) \/ Persist(w) \/ Complete(w)
                         \/ RepairReceipt(w) \/ RepairCharge(w) \/ Fail(w)
  \/ \E t \in Tasks : Sweep(t)
LeaseMove ==
  \/ \E w \in Workers : \/ Lease(w) \/ Complete(w) \/ RepairNew(w) \/ RepairLease(w)
                         \/ RepairStop(w) \/ Drop(w) \/ Unlock(w) \/ Crash(w) \/ Abort(w)
                         \/ RenewLease(w) \/ RenewRepairLease(w)
  \/ \E t \in Tasks : ExpireLease(t)
JobMove == \E w \in Workers : Post(w) \/ RepairPost(w)
LockMove == \E w \in Workers : TryLock(w) \/ Unlock(w) \/ Crash(w) \/ LoseSession(w)

(* Every other step leaves the rows alone.                                 *)
LEMMA Frame ==
  ASSUME [Next]_vars
  PROVE  /\ UNCHANGED taskVars \/ TaskMove
         /\ UNCHANGED moneyVars \/ MoneyMove
         /\ UNCHANGED genVars \/ GenMove
         /\ UNCHANGED leaseVars \/ LeaseMove
         /\ UNCHANGED jobVars \/ JobMove
         /\ UNCHANGED lock \/ LockMove
         /\ UNCHANGED stable \/ stable' = TRUE
<1> USE DEF sharedVars
<1>1. ASSUME NEW w \in Workers, NEW t \in Tasks, Claim(w, t)
      PROVE  UNCHANGED <<moneyVars, genVars, leaseVars, jobVars, lock, stable>>
  BY <1>1 DEF Claim
<1>2. ASSUME NEW w \in Workers, EnterStep(w)
      PROVE  /\ UNCHANGED <<moneyVars, genVars, leaseVars, jobVars, stable>>
             /\ UNCHANGED taskVars \/ TakeClaim(w)
             /\ UNCHANGED lock \/ TryLock(w)
  BY <1>2 DEF EnterStep, TryLock, LockBusy, EnterTask, TakeClaim
<1>3. ASSUME NEW w \in Workers, LoadStep(w)
      PROVE  /\ UNCHANGED <<moneyVars, genVars, leaseVars, jobVars, lock, stable>>
             /\ UNCHANGED taskVars \/ Reconcile(w)
  BY <1>3 DEF LoadStep, LoadPending, Reconcile, Resume, Refuse
<1>4. ASSUME NEW w \in Workers, LeaseStep(w)
      PROVE  /\ UNCHANGED <<taskVars, moneyVars, genVars, jobVars, lock, stable>>
             /\ UNCHANGED leaseVars \/ Lease(w)
  BY <1>4 DEF LeaseStep, Lease, LeaseFull, PrepareFails
<1>5. ASSUME NEW w \in Workers, SubmitStep(w)
      PROVE  /\ UNCHANGED <<taskVars, moneyVars, leaseVars, lock, stable>>
             /\ UNCHANGED genVars \/ BeforeSend(w) \/ BeforeOpaque(w)
             /\ UNCHANGED jobVars \/ Post(w)
  BY <1>5 DEF SubmitStep, BeforeSend, SendLater, Post, Transparent, BeforeOpaque,
     OpaqueRefused
<1>6. ASSUME NEW w \in Workers, AnswerStep(w)
      PROVE  /\ UNCHANGED <<moneyVars, leaseVars, jobVars, lock, stable>>
             /\ UNCHANGED <<taskVars, genVars>> \/ Persist(w)
  BY <1>6 DEF AnswerStep, AnswerOutput, AnswerPending, AnswerFails, QueryUnanswered,
     QueryMiss, Persist, PersistRefused
<1>7. ASSUME NEW w \in Workers, OutputStep(w)
      PROVE  /\ UNCHANGED <<moneyVars, jobVars, lock, stable>>
             /\ UNCHANGED <<taskVars, genVars, leaseVars>> \/ Complete(w)
  BY <1>7 DEF OutputStep, Read, OutputFails, Store, StoreFails, Complete, CompleteRefused
<1>8. ASSUME NEW w \in Workers, RepairStep(w)
      PROVE  /\ UNCHANGED <<taskVars, lock, stable>>
             /\ UNCHANGED moneyVars \/ RepairCharge(w)
             /\ UNCHANGED genVars \/ RepairReceipt(w) \/ RepairCharge(w)
             /\ UNCHANGED leaseVars \/ RepairNew(w) \/ RepairLease(w) \/ RepairStop(w)
             /\ UNCHANGED jobVars \/ RepairPost(w)
  BY <1>8 DEF RepairStep, RepairKnown, RepairNew, RepairLease, RepairReceipt, RepairPost,
     RepairAnswered, RepairCharge, RepairFails, RepairStop
<1>9. ASSUME NEW w \in Workers, EndStep(w)
      PROVE  /\ UNCHANGED <<jobVars, stable>>
             /\ UNCHANGED taskVars \/ Close(w) \/ Release(w) \/ Unlock(w)
             /\ UNCHANGED <<moneyVars, genVars>> \/ Fail(w)
             /\ UNCHANGED leaseVars \/ Drop(w) \/ Unlock(w)
             /\ UNCHANGED lock \/ Unlock(w)
  BY <1>9 DEF EndStep, Fail, FailUnclaimed, Close, Release, Drop, Unlock, Leave
<1>10. ASSUME NEW w \in Workers, Renew(w)
       PROVE  /\ UNCHANGED <<taskVars, moneyVars, genVars, jobVars, lock, stable>>
              /\ RenewLease(w) \/ RenewRepairLease(w)
  BY <1>10 DEF Renew, RenewLease, RenewRepairLease
<1>11. ASSUME NEW w \in Workers, Fault(w)
       PROVE  /\ UNCHANGED <<moneyVars, genVars, jobVars, stable>>
              /\ UNCHANGED taskVars \/ Crash(w)
              /\ UNCHANGED leaseVars \/ Crash(w) \/ Abort(w)
              /\ UNCHANGED lock \/ Crash(w) \/ LoseSession(w)
  BY <1>11 DEF Fault, Crash, Abort, LoseSession, Leave
<1>12. ASSUME NEW t \in Tasks, Clock(t)
       PROVE  /\ UNCHANGED <<jobVars, lock, stable>>
              /\ UNCHANGED taskVars \/ Sweep(t) \/ ExpireClaim(t)
              /\ UNCHANGED <<moneyVars, genVars>> \/ Sweep(t)
              /\ UNCHANGED leaseVars \/ ExpireLease(t)
  BY <1>12 DEF Clock, Sweep, ExpireClaim, ExpireLease
<1>13. CASE Stabilise \/ NothingDue \/ UNCHANGED vars
  BY <1>13 DEF Stabilise, NothingDue, vars
<1> HIDE DEF sharedVars
<1> QED
  BY <1>1, <1>2, <1>3, <1>4, <1>5, <1>6, <1>7, <1>8, <1>9, <1>10, <1>11, <1>12, <1>13
     DEF Next, Step, TaskMove, MoneyMove, GenMove, LeaseMove, JobMove, LockMove

-----------------------------------------------------------------------------
(* Types, group by group.                                                  *)
TaskTypes ==
  /\ status \in [Tasks -> {"queued", "running"} \cup Final]
  /\ claim \in [Tasks -> Owners] /\ live \in [Tasks -> BOOLEAN]
MoneyTypes ==
  /\ consumed \in [Tasks -> Nat] /\ paid \in [Tasks -> Nat] /\ refunded \in [Tasks -> Nat]
  /\ refunds \in [Tasks -> SUBSET {"worker", "timeout"}]
GenTypes ==
  /\ gen \in [Tasks -> {"pending"} \cup Final]
  /\ call \in [Tasks -> {"none", "submitting", "opaque", "polling"}]
  /\ misses \in [Tasks -> 0 .. MissLimit - 1]
  /\ receipt \in [Tasks -> {"none", "submitting", "completed"}]
LeaseTypes ==
  /\ lease \in [Tasks -> Workers \cup {None}] /\ repairLease \in [Tasks -> Owners]
  /\ place \in [Tasks -> Places] /\ repairPlace \in [Tasks -> Places]
JobTypes == jobs \in [Tasks -> Nat] /\ repairJobs \in [Tasks -> Nat]
LockTypes == lock \in [Tasks -> Workers \cup {None}]
LocalStates == [pc : PCs, task : Tasks \cup {None}, polling : BOOLEAN, misses : 0 .. MissLimit - 1]
WorkTypes == wk \in [Workers -> LocalStates]

(* Together they are the type invariant.                                   *)
LEMMA TypeParts ==
  TypeOK <=> /\ TaskTypes /\ MoneyTypes /\ GenTypes /\ LeaseTypes /\ JobTypes /\ LockTypes
             /\ WorkTypes /\ stable \in BOOLEAN
BY DEF TypeOK, TaskTypes, MoneyTypes, GenTypes, LeaseTypes, JobTypes, LockTypes, WorkTypes,
   LocalStates

(* A settlement keeps the types: it keeps no more than what was paid.      *)
LEMMA SettleTypes ==
  ASSUME TypeOK, Charged, NEW t \in Tasks, gen[t] = "pending",
         NEW ref \in {"worker", "timeout"}, NEW kept \in {0, Fee, Price}, Settle(t, ref, kept)
  PROVE  /\ gen' \in [Tasks -> {"pending"} \cup Final]
         /\ consumed' \in [Tasks -> Nat] /\ refunded' \in [Tasks -> Nat]
         /\ refunds' \in [Tasks -> SUBSET {"worker", "timeout"}]
<1>1. kept \in Nat /\ kept <= Price
  BY PricesAssumption
<1>2. consumed[t] \in Nat /\ consumed[t] >= Price /\ refunded[t] \in Nat
  BY DEF TypeOK, Charged
<1>3. refunded[t] + consumed[t] - kept \in Nat
  BY <1>1, <1>2, PricesAssumption
<1>4. refunded' \in [Tasks -> Nat] /\ refunds' \in [Tasks -> SUBSET {"worker", "timeout"}]
  <2>1. CASE consumed[t] > kept
    BY <1>3, <2>1 DEF Settle, TypeOK
  <2>2. CASE ~(consumed[t] > kept)
    BY <2>2 DEF Settle, TypeOK
  <2> QED
    BY <2>1, <2>2
<1> QED
  BY <1>1, <1>4 DEF Settle, TypeOK, Final

(* It ends a row that was pending, with an exact ledger, and refunds once  *)
(* what it does not keep.                                                  *)
LEMMA SettleMoney ==
  ASSUME TypeOK, Rows, NEW t \in Tasks, gen[t] = "pending", UNCHANGED paid,
         NEW ref \in {"worker", "timeout"}, NEW kept \in {0, Fee, Price}, Settle(t, ref, kept)
  PROVE  \A u \in Tasks : Money(u)'
<1>1. kept \in Nat /\ kept <= Price
  BY PricesAssumption
<1>2. \A u \in Tasks : consumed[u] \in Nat /\ refunded[u] \in Nat /\ paid[u] \in Nat
  BY DEF TypeOK
<1>3. /\ consumed[t] >= Price /\ refunds[t] = {} /\ refunded[t] = 0
      /\ paid[t] = consumed[t] + refunded[t]
  BY DEF Rows, Money
<1>4. gen'[t] = "failed" /\ consumed'[t] = kept /\ paid'[t] = paid[t]
  BY DEF TypeOK, Settle
<1>5. \/ refunds'[t] = {ref} /\ refunded'[t] = consumed[t] - kept /\ refunded'[t] # 0
      \/ refunds'[t] = {} /\ refunded'[t] = 0 /\ consumed[t] = kept
  <2>1. CASE consumed[t] > kept
    <3>1. /\ refunds' = [refunds EXCEPT ![t] = refunds[t] \cup {ref}]
          /\ refunded' = [refunded EXCEPT ![t] = refunded[t] + consumed[t] - kept]
      BY <2>1 DEF Settle
    <3>2. refunds'[t] = {ref} /\ refunded'[t] = refunded[t] + consumed[t] - kept
      BY <1>3, <3>1 DEF TypeOK
    <3> QED
      BY <1>1, <1>2, <1>3, <2>1, <3>2
  <2>2. CASE ~(consumed[t] > kept)
    <3>1. UNCHANGED <<refunds, refunded>>
      BY <2>2 DEF Settle
    <3>2. consumed[t] = kept
      BY <1>1, <1>2, <1>3, <2>2, PricesAssumption
    <3> QED
      BY <1>3, <3>1, <3>2
  <2> QED
    BY <2>1, <2>2
<1>6. paid'[t] = consumed'[t] + refunded'[t]
  BY <1>1, <1>2, <1>3, <1>4, <1>5
<1>7. refunds'[t] \in {{}, {"worker"}, {"timeout"}} /\ (refunds'[t] = {} <=> refunded'[t] = 0)
  BY <1>5
<1>8. Money(t)'
  BY <1>4, <1>6, <1>7 DEF Money
<1>9. ASSUME NEW u \in Tasks, u # t
      PROVE  Money(u)'
  <2>1. /\ gen'[u] = gen[u] /\ consumed'[u] = consumed[u] /\ paid'[u] = paid[u]
        /\ refunds'[u] = refunds[u] /\ refunded'[u] = refunded[u]
    BY <1>9 DEF TypeOK, Settle
  <2> QED
    BY <2>1 DEF Rows, Money
<1> QED
  BY <1>8, <1>9

(* What the worker and the sweeper may keep.                               *)
LEMMA KeptValues ==
  ASSUME NEW t
  PROVE  KeptByWorker(t) \subseteq {0, Fee, Price} /\ Kept \subseteq {0, Fee, Price}
BY DEF KeptByWorker, Kept

(* The rows of the tasks keep their types.                                 *)
LEMMA TaskTyped ==
  ASSUME TypeOK, Tasked, [Next]_vars
  PROVE  TaskTypes'
<1>1. TaskTypes
  BY TypeParts
<1> USE <1>1, WorkersAssumption
    DEF TaskTypes, Tasked, Task, In, Owns, Owners, Final, taskVars
<1>2. ASSUME NEW w \in Workers, NEW t \in Tasks, Claim(w, t) PROVE TaskTypes'
  BY <1>2 DEF Claim
<1>3. ASSUME NEW w \in Workers, TakeClaim(w) PROVE TaskTypes'
  <2>1. CASE UNCHANGED taskVars
    BY <2>1
  <2>2. CASE ~(UNCHANGED taskVars)
    <3>1. PICK t \in Tasks :
             /\ status' = [status EXCEPT ![t] = "running"]
             /\ claim' = [claim EXCEPT ![t] = w] /\ live' = [live EXCEPT ![t] = TRUE]
      BY <1>3, <2>2 DEF TakeClaim
    <3> QED
      BY <3>1
  <2> QED
    BY <2>1, <2>2
<1>4. ASSUME NEW w \in Workers, Reconcile(w) PROVE TaskTypes'
  <2>1. Task(w) \in Tasks /\ gen[Task(w)] \in {"pending"} \cup Final
    BY <1>4, TypeParts DEF Reconcile, GenTypes
  <2> QED
    BY <1>4, <2>1 DEF Reconcile, Pending
<1>5. ASSUME NEW w \in Workers, Persist(w) PROVE TaskTypes'
  BY <1>5 DEF Persist
<1>6. ASSUME NEW w \in Workers, Complete(w) PROVE TaskTypes'
  BY <1>6 DEF Complete
<1>7. ASSUME NEW w \in Workers, Close(w) PROVE TaskTypes'
  BY <1>7 DEF Close
<1>8. ASSUME NEW w \in Workers, Release(w) PROVE TaskTypes'
  BY <1>8 DEF Release
<1>9. ASSUME NEW w \in Workers, Unlock(w) \/ Crash(w) PROVE TaskTypes'
  BY <1>9 DEF Unlock, Crash, Leave, GoStale
<1>10. ASSUME NEW t \in Tasks, Sweep(t) PROVE TaskTypes'
  BY <1>10 DEF Sweep
<1>11. ASSUME NEW t \in Tasks, ExpireClaim(t) PROVE TaskTypes'
  BY <1>11 DEF ExpireClaim
<1> QED
  BY <1>2, <1>3, <1>4, <1>5, <1>6, <1>7, <1>8, <1>9, <1>10, <1>11, Frame DEF TaskMove

(* So does the ledger.                                                     *)
LEMMA MoneyTyped ==
  ASSUME TypeOK, Tasked, Charged, [Next]_vars
  PROVE  MoneyTypes'
<1>1. MoneyTypes
  BY TypeParts
<1>2. ASSUME NEW w \in Workers, RepairCharge(w) PROVE MoneyTypes'
  <2>1. PICK t \in Tasks : /\ paid' = [paid EXCEPT ![t] = paid[t] + RepairPrice]
                           /\ consumed' = [consumed EXCEPT ![t] = consumed[t] + RepairPrice]
                           /\ UNCHANGED <<refunded, refunds>>
    BY <1>2 DEF RepairCharge, Tasked, Task, In
  <2> QED
    BY <1>1, <2>1, PricesAssumption DEF MoneyTypes
<1>3. ASSUME NEW w \in Workers, Fail(w) PROVE MoneyTypes'
  <2>1. Task(w) \in Tasks /\ paid' = paid
    BY <1>3 DEF Fail, Tasked, Task, In
  <2>2. CASE Pending(w)
    BY <1>1, <1>3, <2>1, <2>2, SettleTypes, KeptValues DEF Fail, Pending, MoneyTypes
  <2>3. CASE ~Pending(w)
    BY <1>1, <1>3, <2>1, <2>3 DEF Fail, MoneyTypes
  <2> QED
    BY <2>2, <2>3
<1>4. ASSUME NEW t \in Tasks, Sweep(t) PROVE MoneyTypes'
  BY <1>1, <1>4, SettleTypes, KeptValues DEF Sweep, Sweepable, MoneyTypes
<1>5. CASE UNCHANGED moneyVars
  BY <1>1, <1>5 DEF moneyVars, MoneyTypes
<1> QED
  BY <1>2, <1>3, <1>4, <1>5, Frame DEF MoneyMove

(* So do those of the generations.                                         *)
LEMMA GenTyped ==
  ASSUME TypeOK, Tasked, [Next]_vars
  PROVE  GenTypes'
<1>1. GenTypes /\ WorkTypes
  BY TypeParts
<1> USE <1>1 DEF GenTypes, Tasked, Task, In, Final
<1>2. ASSUME NEW w \in Workers, BeforeSend(w) \/ BeforeOpaque(w) PROVE GenTypes'
  BY <1>2 DEF BeforeSend, BeforeOpaque
<1>3. ASSUME NEW w \in Workers, Persist(w) PROVE GenTypes'
  <2>1. wk[w].misses \in 0 .. MissLimit - 1
    BY DEF WorkTypes, LocalStates
  <2> QED
    BY <1>3, <2>1 DEF Persist
<1>4. ASSUME NEW w \in Workers, Complete(w) PROVE GenTypes'
  BY <1>4 DEF Complete
<1>5. ASSUME NEW w \in Workers, RepairReceipt(w) PROVE GenTypes'
  BY <1>5 DEF RepairReceipt
<1>6. ASSUME NEW w \in Workers, RepairCharge(w) PROVE GenTypes'
  BY <1>6 DEF RepairCharge
<1>7. ASSUME NEW w \in Workers, Fail(w) PROVE GenTypes'
  BY <1>7 DEF Fail, Settle
<1>8. ASSUME NEW t \in Tasks, Sweep(t) PROVE GenTypes'
  BY <1>8 DEF Sweep, Settle
<1>9. CASE UNCHANGED genVars
  BY <1>9 DEF genVars
<1> QED
  BY <1>2, <1>3, <1>4, <1>5, <1>6, <1>7, <1>8, <1>9, Frame DEF GenMove

(* So do the leases.                                                       *)
LEMMA LeaseTyped ==
  ASSUME TypeOK, Tasked, [Next]_vars
  PROVE  LeaseTypes'
<1>1. LeaseTypes
  BY TypeParts
<1> USE <1>1, WorkersAssumption
    DEF LeaseTypes, Tasked, Task, In, Owners, Places, imageVars, repairVars
<1>2. ASSUME NEW w \in Workers, Lease(w) PROVE LeaseTypes'
  BY <1>2 DEF Lease
<1>3. ASSUME NEW w \in Workers, Complete(w) PROVE LeaseTypes'
  BY <1>3 DEF Complete
<1>4. ASSUME NEW w \in Workers, RepairNew(w) PROVE LeaseTypes'
  BY <1>4 DEF RepairNew, DropOwn, Vacate
<1>5. ASSUME NEW w \in Workers, RepairLease(w) PROVE LeaseTypes'
  BY <1>5 DEF RepairLease
<1>6. ASSUME NEW w \in Workers, RepairStop(w) PROVE LeaseTypes'
  BY <1>6 DEF RepairStop, DropOwn, Vacate
<1>7. ASSUME NEW w \in Workers, Drop(w) PROVE LeaseTypes'
  BY <1>7 DEF Drop, DropOwn, Vacate
<1>8. ASSUME NEW w \in Workers, Unlock(w) \/ Crash(w) PROVE LeaseTypes'
  BY <1>8 DEF Unlock, Crash, Leave, DropOwn, GoStale
<1>9. ASSUME NEW w \in Workers, Abort(w) PROVE LeaseTypes'
  BY <1>9 DEF Abort, DropOwn, Vacate
<1>10. ASSUME NEW w \in Workers, RenewLease(w) PROVE LeaseTypes'
  BY <1>10 DEF RenewLease
<1>11. ASSUME NEW w \in Workers, RenewRepairLease(w) PROVE LeaseTypes'
  BY <1>11 DEF RenewRepairLease
<1>12. ASSUME NEW t \in Tasks, ExpireLease(t) PROVE LeaseTypes'
  BY <1>12 DEF ExpireLease
<1>13. CASE UNCHANGED leaseVars
  BY <1>13 DEF leaseVars
<1> QED
  BY <1>2, <1>3, <1>4, <1>5, <1>6, <1>7, <1>8, <1>9, <1>10, <1>11, <1>12, <1>13, Frame
     DEF LeaseMove

(* A step moves one execution along, or starts or ends it.                 *)
LEMMA WorkTyped ==
  ASSUME TypeOK, Tasked, [Next]_vars
  PROVE  WorkTypes'
<1>1. WorkTypes
  BY TypeParts
<1>2. 0 \in 0 .. MissLimit - 1
  BY LimitsAssumption
<1>3. ASSUME NEW w \in Workers, NEW pc \in PCs, Goto(w, pc) PROVE WorkTypes'
  BY <1>1, <1>3 DEF WorkTypes, LocalStates, Goto
<1>4. ASSUME NEW w \in Workers, NEW r \in LocalStates, wk' = [wk EXCEPT ![w] = r]
      PROVE  WorkTypes'
  BY <1>1, <1>4 DEF WorkTypes
<1>5. \A pc \in PCs, t \in Tasks \cup {None} : At(pc, t) \in LocalStates
  BY <1>2 DEF At, LocalStates
<1>6. \A w \in Workers : wk[w] \in LocalStates
  BY <1>1 DEF WorkTypes
<1> USE DEF PCs, Entering, Executing, Repairing, Renewing, In
<1>7. Idle \in LocalStates
  BY <1>5 DEF Idle
<1>8. ASSUME NEW w \in Workers, NEW t \in Tasks, Claim(w, t) PROVE WorkTypes'
  <2>1. At("lock", t) \in LocalStates
    BY <1>5
  <2> QED
    BY <1>4, <1>8, <2>1 DEF Claim
<1>9. ASSUME NEW w \in Workers, EnterStep(w) PROVE WorkTypes'
  BY <1>3, <1>4, <1>7, <1>9 DEF EnterStep, TryLock, LockBusy, EnterTask, TakeClaim
<1>10. ASSUME NEW w \in Workers, LoadPending(w) \/ Reconcile(w) \/ Refuse(w) PROVE WorkTypes'
  BY <1>3, <1>10 DEF LoadPending, Reconcile, Refuse
<1>11. ASSUME NEW w \in Workers, Resume(w) PROVE WorkTypes'
  <2>1. Task(w) \in Tasks
    BY <1>11 DEF Resume, Tasked, Task
  <2>2. misses[Task(w)] \in 0 .. MissLimit - 1
    BY <2>1, TypeParts DEF GenTypes
  <2>3. [pc |-> "lease", task |-> Task(w), polling |-> call[Task(w)] = "polling",
         misses |-> misses[Task(w)]] \in LocalStates
    BY <2>1, <2>2 DEF LocalStates
  <2> QED
    BY <1>4, <1>11, <2>3 DEF Resume
<1>12. ASSUME NEW w \in Workers, LeaseStep(w) PROVE WorkTypes'
  BY <1>3, <1>12 DEF LeaseStep, Lease, LeaseFull, PrepareFails
<1>13. ASSUME NEW w \in Workers, SubmitStep(w) PROVE WorkTypes'
  BY <1>3, <1>13 DEF SubmitStep, BeforeSend, SendLater, Post, Transparent, BeforeOpaque,
     OpaqueRefused
<1>14. ASSUME NEW w \in Workers, NEW pc \in PCs, wk[w].pc # "idle", Return(w, pc)
       PROVE  WorkTypes'
  BY <1>4, <1>5, <1>14 DEF Return, Tasked, Task
<1>15. ASSUME NEW w \in Workers, AnswerOutput(w) \/ AnswerFails(w) \/ Persist(w) \/ PersistRefused(w)
       PROVE  WorkTypes'
  BY <1>14, <1>15 DEF AnswerOutput, AnswerFails, Persist, PersistRefused, Answering
<1>16. ASSUME NEW w \in Workers, NEW n \in 0 .. MissLimit - 1,
              wk' = [wk EXCEPT ![w] = [[wk[w] EXCEPT !.pc = "persist"] EXCEPT !.misses = n]]
       PROVE  WorkTypes'
  <2>1. [[wk[w] EXCEPT !.pc = "persist"] EXCEPT !.misses = n] \in LocalStates
    BY <1>6 DEF LocalStates
  <2> QED
    BY <1>4, <1>16, <2>1
<1>17. ASSUME NEW w \in Workers, AnswerPending(w) PROVE WorkTypes'
  <2>1. wk' = [wk EXCEPT ![w] = [[wk[w] EXCEPT !.pc = "persist"] EXCEPT !.misses = 0]]
    BY <1>17 DEF AnswerPending
  <2> QED
    BY <1>2, <1>16, <2>1
<1>18. ASSUME NEW w \in Workers, QueryMiss(w) PROVE WorkTypes'
  <2>1. CASE MissedOut(w)
    BY <1>14, <1>18, <2>1 DEF QueryMiss
  <2>2. CASE ~MissedOut(w)
    <3>1. wk[w].misses + 1 \in 0 .. MissLimit - 1
      BY <1>6, <2>2, LimitsAssumption DEF MissedOut, LocalStates
    <3>2. wk' = [wk EXCEPT ![w] =
                   [[wk[w] EXCEPT !.pc = "persist"] EXCEPT !.misses = wk[w].misses + 1]]
      BY <1>18, <2>2 DEF QueryMiss
    <3> QED
      BY <1>16, <3>1, <3>2
  <2> QED
    BY <2>1, <2>2
<1>19. ASSUME NEW w \in Workers, QueryUnanswered(w) PROVE WorkTypes'
  BY <1>3, <1>19 DEF QueryUnanswered
<1>20. ASSUME NEW w \in Workers, OutputStep(w) PROVE WorkTypes'
  BY <1>3, <1>20 DEF OutputStep, Read, OutputFails, Store, StoreFails, Complete, CompleteRefused
<1>21. ASSUME NEW w \in Workers, RepairStep(w) PROVE WorkTypes'
  BY <1>3, <1>21 DEF RepairStep, RepairKnown, RepairNew, RepairLease, RepairReceipt,
     RepairPost, RepairAnswered, RepairCharge, RepairFails, RepairStop
<1>22. ASSUME NEW w \in Workers, EndStep(w) PROVE WorkTypes'
  BY <1>3, <1>4, <1>7, <1>22 DEF EndStep, Fail, FailUnclaimed, Close, Release, Drop, Unlock, Leave
<1>23. ASSUME NEW w \in Workers, Crash(w) PROVE WorkTypes'
  BY <1>4, <1>7, <1>23 DEF Crash, Leave
<1>24. ASSUME NEW w \in Workers, Abort(w) PROVE WorkTypes'
  BY <1>14, <1>24 DEF Abort
<1>25. CASE UNCHANGED wk
  BY <1>1, <1>25 DEF WorkTypes
<1>26. ASSUME NEW w \in Workers, LoseSession(w) \/ Renew(w) PROVE UNCHANGED wk
  BY <1>26 DEF LoseSession, Renew, RenewLease, RenewRepairLease
<1>27. ASSUME NEW t \in Tasks, Clock(t) PROVE UNCHANGED wk
  BY <1>27 DEF Clock, Sweep, ExpireClaim, ExpireLease
<1>28. CASE Stabilise \/ NothingDue \/ UNCHANGED vars
  BY <1>25, <1>28 DEF Stabilise, NothingDue, vars
<1> QED
  BY <1>8, <1>9, <1>10, <1>11, <1>12, <1>13, <1>15, <1>17, <1>18, <1>19, <1>20, <1>21,
     <1>22, <1>23, <1>24, <1>25, <1>26, <1>27, <1>28
     DEF Next, Step, LoadStep, AnswerStep, Fault

(* Every step keeps the variables in their types.                          *)
LEMMA TypeStep ==
  ASSUME TypeOK, Tasked, Charged, [Next]_vars
  PROVE  TypeOK'
<1>1. JobTypes'
  <2>1. JobTypes
    BY TypeParts
  <2>2. ASSUME NEW w \in Workers, Post(w) \/ RepairPost(w) PROVE JobTypes'
    BY <2>1, <2>2 DEF Post, RepairPost, JobTypes
  <2>3. CASE UNCHANGED jobVars
    BY <2>1, <2>3 DEF JobTypes, jobVars
  <2> QED
    BY <2>2, <2>3, Frame DEF JobMove
<1>2. LockTypes'
  <2>1. LockTypes
    BY TypeParts
  <2>2. CASE LockMove
    BY <2>1, <2>2 DEF LockMove, TryLock, Unlock, Crash, LoseSession, Leave, DropLock, LockTypes
  <2>3. CASE UNCHANGED lock
    BY <2>1, <2>3 DEF LockTypes
  <2> QED
    BY <2>2, <2>3, Frame
<1>3. stable' \in BOOLEAN
  <2>1. stable \in BOOLEAN
    BY TypeParts
  <2>2. UNCHANGED stable \/ stable' = TRUE
    BY Frame
  <2> QED
    BY <2>1, <2>2
<1>4. TypeOK' <=> (TaskTypes /\ MoneyTypes /\ GenTypes /\ LeaseTypes /\ JobTypes /\ LockTypes
                     /\ WorkTypes /\ stable \in BOOLEAN)'
  BY DEF TypeOK, TaskTypes, MoneyTypes, GenTypes, LeaseTypes, JobTypes, LockTypes, WorkTypes,
         LocalStates
<1> QED
  BY <1>1, <1>2, <1>3, <1>4, TaskTyped, MoneyTyped, GenTyped, LeaseTyped, WorkTyped

(* Money and outcome of a row change together, whoever changes them.       *)
LEMMA RowStep ==
  ASSUME IInv, [Next]_vars
  PROVE  Rows'
<1>1. /\ TaskTypes /\ GenTypes /\ \A t \in Tasks : Money(t) /\ Closed(t)
      /\ \A w \in Workers : Local(w)
  BY TypeParts DEF IInv, Rows, Locals
<1>2. ASSUME UNCHANGED <<moneyVars, gen>> PROVE \A t \in Tasks : Money(t)'
  BY <1>1, <1>2 DEF Money, moneyVars
<1>3. ASSUME UNCHANGED <<taskVars, gen>> PROVE \A t \in Tasks : Closed(t)'
  BY <1>1, <1>3 DEF Closed, taskVars
<1>4. ASSUME UNCHANGED <<moneyVars, gen>>, \A t \in Tasks : Closed(t)' PROVE Rows'
  BY <1>2, <1>4 DEF Rows
<1> USE <1>1, WorkersAssumption
    DEF TaskTypes, GenTypes, Closed, Local, Entering, Final, Owners, Task, In, Owns, Fenced, Pending, taskVars, genVars
<1>5. ASSUME NEW w \in Workers, NEW t \in Tasks, Claim(w, t) PROVE Rows'
  <2>1. \A u \in Tasks : Closed(u)'
    BY <1>5 DEF Claim, Claimable
  <2> QED
    BY <1>4, <1>5, <2>1 DEF Claim
<1>6. ASSUME NEW w \in Workers, TakeClaim(w) PROVE Rows'
  <2>1. UNCHANGED <<moneyVars, gen>>
    BY <1>6 DEF TakeClaim
  <2>2. CASE UNCHANGED taskVars
    BY <1>3, <1>4, <2>1, <2>2
  <2>3. CASE ~(UNCHANGED taskVars)
    <3>1. PICK t \in Tasks :
             /\ status[t] \notin Final
             /\ status' = [status EXCEPT ![t] = "running"]
             /\ claim' = [claim EXCEPT ![t] = w] /\ live' = [live EXCEPT ![t] = TRUE]
      BY <1>6, <2>3 DEF TakeClaim
    <3>2. \A u \in Tasks : Closed(u)'
      BY <2>1, <3>1
    <3> QED
      BY <1>4, <2>1, <3>2
  <2> QED
    BY <2>2, <2>3
<1>7. ASSUME NEW w \in Workers, Reconcile(w) PROVE Rows'
  <2>1. \A u \in Tasks : Closed(u)'
    BY <1>7 DEF Reconcile
  <2> QED
    BY <1>4, <1>7, <2>1 DEF Reconcile
<1>8. ASSUME NEW w \in Workers, Persist(w) PROVE Rows'
  <2>1. \A u \in Tasks : Closed(u)'
    BY <1>8 DEF Persist, Persistable
  <2> QED
    BY <1>4, <1>8, <2>1 DEF Persist
<1>9. ASSUME NEW w \in Workers, Complete(w) PROVE Rows'
  <2>1. \A u \in Tasks : Closed(u)'
    BY <1>9 DEF Complete, Completable
  <2>2. \A u \in Tasks : Money(u)'
    <3>1. Task(w) \in Tasks /\ gen[Task(w)] = "pending" /\ UNCHANGED moneyVars
          /\ gen' = [gen EXCEPT ![Task(w)] = "completed"]
      BY <1>9 DEF Complete, Completable
    <3> QED
      BY <3>1 DEF Money, moneyVars
  <2> QED
    BY <2>1, <2>2 DEF Rows
<1>10. ASSUME NEW w \in Workers, Close(w) PROVE Rows'
  <2>1. \A u \in Tasks : Closed(u)'
    BY <1>10 DEF Close
  <2> QED
    BY <1>4, <1>10, <2>1 DEF Close
<1>11. ASSUME NEW w \in Workers, Release(w) PROVE Rows'
  <2>1. \A u \in Tasks : Closed(u)'
    BY <1>11 DEF Release
  <2> QED
    BY <1>4, <1>11, <2>1 DEF Release
<1>12. ASSUME NEW w \in Workers, Unlock(w) \/ Crash(w) PROVE Rows'
  <2>1. Leave(w)
    BY <1>12 DEF Unlock, Crash
  <2>2. \A u \in Tasks : Closed(u)'
    BY <2>1 DEF Leave, GoStale
  <2> QED
    BY <1>4, <2>1, <2>2 DEF Leave
<1>13. ASSUME NEW t \in Tasks, ExpireClaim(t) PROVE Rows'
  <2>1. \A u \in Tasks : Closed(u)'
    BY <1>13 DEF ExpireClaim
  <2> QED
    BY <1>4, <1>13, <2>1 DEF ExpireClaim
<1>14. ASSUME NEW w \in Workers, RepairCharge(w) PROVE Rows'
  <2>1. PICK t \in Tasks :
           /\ gen[t] = "pending" /\ UNCHANGED <<gen, refunded, refunds>>
           /\ paid' = [paid EXCEPT ![t] = paid[t] + RepairPrice]
           /\ consumed' = [consumed EXCEPT ![t] = consumed[t] + RepairPrice]
    BY <1>14 DEF RepairCharge
  <2>2. \A u \in Tasks : Money(u)'
    <3>1. \A u \in Tasks : consumed[u] \in Nat /\ paid[u] \in Nat /\ refunded[u] \in Nat
      BY TypeParts DEF IInv, MoneyTypes
    <3>2. MoneyTypes
      BY TypeParts DEF IInv
    <3> QED
      BY <2>1, <3>1, <3>2, PricesAssumption DEF Money, MoneyTypes
  <2>3. \A u \in Tasks : Closed(u)'
    BY <1>3, <1>14 DEF RepairCharge
  <2> QED
    BY <2>2, <2>3 DEF Rows
<1>15. ASSUME NEW t \in Tasks, gen[t] = "pending", UNCHANGED paid,
              NEW ref \in {"worker", "timeout"}, NEW kept \in {0, Fee, Price}, Settle(t, ref, kept)
       PROVE  \A u \in Tasks : Money(u)'
  BY <1>15, SettleMoney DEF IInv
<1>16. ASSUME NEW w \in Workers, Fail(w) PROVE Rows'
  <2>1. CASE ~Pending(w)
    <3>1. UNCHANGED <<taskVars, moneyVars, gen>>
      BY <1>16, <2>1 DEF Fail, moneyVars
    <3> QED
      BY <1>3, <1>4, <3>1
  <2>2. CASE Pending(w)
    <3>1. PICK kept \in {0, Fee, Price} : Settle(Task(w), "worker", kept)
      BY <1>16, <2>2, KeptValues DEF Fail
    <3>2. UNCHANGED <<taskVars, paid>> /\ Task(w) \in Tasks /\ status[Task(w)] \notin Final
      BY <1>16, <2>2 DEF Fail
    <3>3. \A u \in Tasks : Money(u)'
      BY <1>15, <2>2, <3>1, <3>2
    <3>4. gen' = [gen EXCEPT ![Task(w)] = "failed"]
      BY <3>1 DEF Settle
    <3>5. \A u \in Tasks : Closed(u)'
      BY <3>2, <3>4, <2>2
    <3> QED
      BY <3>3, <3>5 DEF Rows
  <2> QED
    BY <2>1, <2>2
<1>17. ASSUME NEW t \in Tasks, Sweep(t) PROVE Rows'
  <2>1. PICK kept \in {0, Fee, Price} : Settle(t, "timeout", kept)
    BY <1>17, KeptValues DEF Sweep
  <2>2. gen[t] = "pending" /\ UNCHANGED paid
    BY <1>17 DEF Sweep, Sweepable
  <2>3. \A u \in Tasks : Money(u)'
    BY <1>15, <2>1, <2>2
  <2>4. gen' = [gen EXCEPT ![t] = "failed"]
    BY <2>1 DEF Settle
  <2>5. /\ status[t] \notin Final
        /\ status' = [status EXCEPT ![t] = "failed"]
        /\ claim' = [claim EXCEPT ![t] = None] /\ live' = [live EXCEPT ![t] = FALSE]
    BY <1>17, <2>2 DEF Sweep
  <2>6. \A u \in Tasks : Closed(u)'
    BY <2>2, <2>4, <2>5
  <2> QED
    BY <2>3, <2>6 DEF Rows
<1>18. ASSUME NEW w \in Workers, BeforeSend(w) \/ BeforeOpaque(w) \/ RepairReceipt(w)
       PROVE  Rows'
  <2>1. UNCHANGED <<taskVars, moneyVars, gen>>
    BY <1>18 DEF BeforeSend, BeforeOpaque, RepairReceipt
  <2> QED
    BY <1>3, <1>4, <2>1
<1>19. CASE UNCHANGED <<taskVars, moneyVars, genVars>>
  <2>1. UNCHANGED <<taskVars, moneyVars, gen>>
    BY <1>19
  <2> QED
    BY <1>3, <1>4, <2>1
<1> QED
  BY <1>5, <1>6, <1>7, <1>8, <1>9, <1>10, <1>11, <1>12, <1>13, <1>14, <1>16, <1>17, <1>18,
     <1>19, Frame DEF TaskMove, MoneyMove, GenMove

(* What an execution knows stays true while others act on its row.         *)
LEMMA LocalStep ==
  ASSUME IInv, [Next]_vars
  PROVE  Locals'
<1> USE WorkersAssumption
    DEF IInv, Rows, Closed, Locals, Local, SoleEntrant, Completable, Awaited, Expirable, TypeOK, PCs, Entering, Renewing, Repairing, Executing, Final, Owners, Places, taskVars, moneyVars, genVars, imageVars, repairVars, leaseVars, jobVars, sharedVars, Task, In, Goto, Return, Owns, Fenced, Pending, At, Idle
<1>1. ASSUME NEW w \in Workers, NEW t \in Tasks, Claim(w, t)
      PROVE  Locals'
  BY <1>1 DEF Claim, HasSlot, Claimable, Running
<1>2. ASSUME NEW w \in Workers, TryLock(w)
      PROVE  Locals'
  BY <1>2 DEF TryLock
<1>3. ASSUME NEW w \in Workers, LockBusy(w)
      PROVE  Locals'
  BY <1>3 DEF LockBusy
<1>4. ASSUME NEW w \in Workers, EnterTask(w)
      PROVE  Locals'
  BY <1>4 DEF EnterTask
<1>5. ASSUME NEW w \in Workers, TakeClaim(w)
      PROVE  Locals'
  <2>1. CASE status[Task(w)] \in Final
    <3>1. /\ wk[w].pc = "take"
          /\ wk' = [wk EXCEPT ![w].pc = "unlock"] /\ UNCHANGED sharedVars
      BY <1>5, <2>1 DEF TakeClaim
    <3>2. \A v \in Workers : Local(v)'
      <4>1. Local(w)'
        <5>1. wk'[w].pc = "unlock" /\ wk'[w].task \in Tasks
          BY <3>1
        <5> QED
          BY <5>1
      <4>2. ASSUME NEW v \in Workers, v # w PROVE Local(v)'
        <5>1. wk'[v] = wk[v]
          BY <3>1, <4>2
        <5> QED
          BY <3>1, <5>1
      <4> QED
        BY <4>1, <4>2
    <3>3. SoleEntrant'
      BY <3>1
    <3> QED
      BY <3>2, <3>3
  <2>2. CASE status[Task(w)] \notin Final
    <3>1. /\ wk[w].pc = "take" /\ Task(w) \in Tasks
          /\ status' = [status EXCEPT ![Task(w)] = "running"]
          /\ claim' = [claim EXCEPT ![Task(w)] = w] /\ live' = [live EXCEPT ![Task(w)] = TRUE]
          /\ wk' = [wk EXCEPT ![w].pc = "load"]
          /\ UNCHANGED <<moneyVars, genVars>>
      BY <1>5, <2>2 DEF TakeClaim
    <3> QED
      BY <3>1
  <2> QED
    BY <2>1, <2>2
<1>6. ASSUME NEW w \in Workers, LoadPending(w)
      PROVE  Locals'
  BY <1>6 DEF LoadPending
<1>7. ASSUME NEW w \in Workers, Reconcile(w)
      PROVE  Locals'
  BY <1>7 DEF Reconcile
<1>8. ASSUME NEW w \in Workers, Resume(w)
      PROVE  Locals'
  BY <1>8 DEF Resume, Resumable
<1>9. ASSUME NEW w \in Workers, Refuse(w)
      PROVE  Locals'
  BY <1>9 DEF Refuse, Resumable
<1>10. ASSUME NEW w \in Workers, Lease(w)
      PROVE  Locals'
  BY <1>10 DEF Lease
<1>11. ASSUME NEW w \in Workers, LeaseFull(w)
      PROVE  Locals'
  BY <1>11 DEF LeaseFull
<1>12. ASSUME NEW w \in Workers, PrepareFails(w)
      PROVE  Locals'
  BY <1>12 DEF PrepareFails
<1>13. ASSUME NEW w \in Workers, BeforeSend(w)
      PROVE  Locals'
  BY <1>13 DEF BeforeSend, Submittable
<1>14. ASSUME NEW w \in Workers, SendLater(w)
      PROVE  Locals'
  BY <1>14 DEF SendLater
<1>15. ASSUME NEW w \in Workers, Post(w)
      PROVE  Locals'
  BY <1>15 DEF Post
<1>16. ASSUME NEW w \in Workers, Transparent(w)
      PROVE  Locals'
  BY <1>16 DEF Transparent
<1>17. ASSUME NEW w \in Workers, BeforeOpaque(w)
      PROVE  Locals'
  BY <1>17 DEF BeforeOpaque
<1>18. ASSUME NEW w \in Workers, OpaqueRefused(w)
      PROVE  Locals'
  BY <1>18 DEF OpaqueRefused
<1>19. ASSUME NEW w \in Workers, AnswerOutput(w)
      PROVE  Locals'
  BY <1>19 DEF AnswerOutput, Answering
<1>20. ASSUME NEW w \in Workers, AnswerPending(w)
      PROVE  Locals'
  BY <1>20 DEF AnswerPending, Answering
<1>21. ASSUME NEW w \in Workers, AnswerFails(w)
      PROVE  Locals'
  BY <1>21 DEF AnswerFails, Answering
<1>22. ASSUME NEW w \in Workers, QueryUnanswered(w)
      PROVE  Locals'
  BY <1>22 DEF QueryUnanswered
<1>23. ASSUME NEW w \in Workers, QueryMiss(w)
      PROVE  Locals'
  <2>1. UNCHANGED sharedVars /\ wk[w].pc # "idle" /\ wk'[w].pc \in {"fail", "persist"}
    BY <1>23 DEF QueryMiss
  <2>2. wk'[w].task = wk[w].task /\ \A v \in Workers : v # w => wk'[v] = wk[v]
    BY <1>23 DEF QueryMiss
  <2>3. \A v \in Workers : wk'[v].task = wk[v].task
    BY <2>1, <2>2
  <2>4. \A v \in Workers : wk'[v].pc # "idle" => wk[v].pc # "idle"
    BY <2>1, <2>2
  <2>5. \A v \in Workers : wk'[v].pc \in Entering => wk[v].pc \in Entering
    BY <2>1, <2>2
  <2>6. \A v \in Workers : wk'[v].pc = "close" => wk[v].pc = "close"
    BY <2>1, <2>2
  <2> QED
    BY <2>1, <2>3, <2>4, <2>5, <2>6
<1>24. ASSUME NEW w \in Workers, Persist(w)
      PROVE  Locals'
  BY <1>24 DEF Persist, Persistable
<1>25. ASSUME NEW w \in Workers, PersistRefused(w)
      PROVE  Locals'
  BY <1>25 DEF PersistRefused
<1>26. ASSUME NEW w \in Workers, Read(w)
      PROVE  Locals'
  <2>1. UNCHANGED sharedVars /\ wk[w].pc # "idle" /\ wk'[w].pc \in {"store", "repair", "release"}
    BY <1>26 DEF Read
  <2>2. wk'[w].task = wk[w].task /\ \A v \in Workers : v # w => wk'[v] = wk[v]
    BY <1>26 DEF Read
  <2>3. \A v \in Workers : wk'[v].task = wk[v].task
    BY <2>1, <2>2
  <2>4. \A v \in Workers : wk'[v].pc # "idle" => wk[v].pc # "idle"
    BY <2>1, <2>2
  <2>5. \A v \in Workers : wk'[v].pc \in Entering => wk[v].pc \in Entering
    BY <2>1, <2>2
  <2>6. \A v \in Workers : wk'[v].pc = "close" => wk[v].pc = "close"
    BY <2>1, <2>2
  <2> QED
    BY <2>1, <2>3, <2>4, <2>5, <2>6
<1>27. ASSUME NEW w \in Workers, OutputFails(w)
      PROVE  Locals'
  BY <1>27 DEF OutputFails
<1>28. ASSUME NEW w \in Workers, Store(w)
      PROVE  Locals'
  BY <1>28 DEF Store
<1>29. ASSUME NEW w \in Workers, StoreFails(w)
      PROVE  Locals'
  BY <1>29 DEF StoreFails
<1>30. ASSUME NEW w \in Workers, Complete(w)
      PROVE  Locals'
  BY <1>30 DEF Complete, Completable
<1>31. ASSUME NEW w \in Workers, CompleteRefused(w)
      PROVE  Locals'
  BY <1>31 DEF CompleteRefused
<1>32. ASSUME NEW w \in Workers, RepairKnown(w)
      PROVE  Locals'
  BY <1>32 DEF RepairKnown
<1>33. ASSUME NEW w \in Workers, RepairNew(w)
      PROVE  Locals'
  BY <1>33 DEF RepairNew, DropOwn, Vacate
<1>34. ASSUME NEW w \in Workers, RepairLease(w)
      PROVE  Locals'
  BY <1>34 DEF RepairLease
<1>35. ASSUME NEW w \in Workers, RepairReceipt(w)
      PROVE  Locals'
  BY <1>35 DEF RepairReceipt, Receiptable
<1>36. ASSUME NEW w \in Workers, RepairPost(w)
      PROVE  Locals'
  BY <1>36 DEF RepairPost
<1>37. ASSUME NEW w \in Workers, RepairAnswered(w)
      PROVE  Locals'
  BY <1>37 DEF RepairAnswered
<1>38. ASSUME NEW w \in Workers, RepairCharge(w)
      PROVE  Locals'
  BY <1>38 DEF RepairCharge
<1>39. ASSUME NEW w \in Workers, RepairFails(w)
      PROVE  Locals'
  BY <1>39 DEF RepairFails
<1>40. ASSUME NEW w \in Workers, RepairStop(w)
      PROVE  Locals'
  BY <1>40 DEF RepairStop, DropOwn, Vacate
<1>41. ASSUME NEW w \in Workers, Fail(w)
      PROVE  Locals'
  BY <1>41 DEF Fail, Settle
<1>42. ASSUME NEW w \in Workers, FailUnclaimed(w)
      PROVE  Locals'
  BY <1>42 DEF FailUnclaimed
<1>43. ASSUME NEW w \in Workers, Close(w)
      PROVE  Locals'
  BY <1>43 DEF Close
<1>44. ASSUME NEW w \in Workers, Release(w)
      PROVE  Locals'
  BY <1>44 DEF Release
<1>45. ASSUME NEW w \in Workers, Drop(w)
      PROVE  Locals'
  BY <1>45 DEF Drop, DropOwn, Vacate
<1>46. ASSUME NEW w \in Workers, Unlock(w)
      PROVE  Locals'
  BY <1>46 DEF Unlock, Leave, DropLock, DropOwn, GoStale
<1>47. ASSUME NEW w \in Workers, Crash(w)
      PROVE  Locals'
  BY <1>47 DEF Crash, Leave, DropLock, DropOwn, GoStale
<1>48. ASSUME NEW w \in Workers, Abort(w)
      PROVE  Locals'
  BY <1>48 DEF Abort, DropOwn, Vacate
<1>49. ASSUME NEW w \in Workers, LoseSession(w)
      PROVE  Locals'
  BY <1>49 DEF LoseSession, DropLock
<1>50. ASSUME NEW t \in Tasks, Sweep(t)
      PROVE  Locals'
  BY <1>50 DEF Sweep, Sweepable, Settle
<1>51. ASSUME NEW t \in Tasks, ExpireClaim(t)
      PROVE  Locals'
  BY <1>51 DEF ExpireClaim
<1>52. ASSUME NEW t \in Tasks, ExpireLease(t)
      PROVE  Locals'
  BY <1>52 DEF ExpireLease, Renewed
<1>53. ASSUME Stabilise
      PROVE  Locals'
  BY <1>53 DEF Stabilise
<1>54. ASSUME NothingDue
      PROVE  Locals'
  BY <1>54 DEF NothingDue, vars
<1>55. CASE UNCHANGED vars
  BY <1>55 DEF vars
<1>56. ASSUME NEW w \in Workers, RenewLease(w)
      PROVE  Locals'
  BY <1>56 DEF RenewLease
<1>57. ASSUME NEW w \in Workers, RenewRepairLease(w)
      PROVE  Locals'
  BY <1>57 DEF RenewRepairLease
<1> QED
  BY <1>1, <1>2, <1>3, <1>4, <1>5, <1>6, <1>7, <1>8, <1>9, <1>10, <1>11, <1>12,
     <1>13, <1>14, <1>15, <1>16, <1>17, <1>18, <1>19, <1>20, <1>21, <1>22, <1>23, <1>24,
     <1>25, <1>26, <1>27, <1>28, <1>29, <1>30, <1>31, <1>32, <1>33, <1>34, <1>35, <1>36,
     <1>37, <1>38, <1>39, <1>40, <1>41, <1>42, <1>43, <1>44, <1>45, <1>46, <1>47, <1>48,
     <1>49, <1>50, <1>51, <1>52, <1>53, <1>54, <1>55, <1>56, <1>57
     DEF Next, EnterStep, LoadStep, LeaseStep, SubmitStep, AnswerStep, OutputStep, RepairStep, EndStep, Step, Renew, Fault, Clock

(* Every POST is announced, and announced once.                            *)
LEMMA PostStep ==
  ASSUME IInv, [Next]_vars
  PROVE  Posts'
<1> USE WorkersAssumption
    DEF IInv, Locals, Local, Posts, Posting, TypeOK, PCs, Entering, Renewing, Repairing, Executing, Final, Owners, Places, taskVars, moneyVars, genVars, imageVars, repairVars, leaseVars, jobVars, sharedVars, Task, In, Goto, Return, Owns, Fenced, Pending, At, Idle
<1>1. ASSUME NEW w \in Workers, NEW t \in Tasks, Claim(w, t)
      PROVE  Posts'
  BY <1>1 DEF Claim, HasSlot, Claimable, Running
<1>2. ASSUME NEW w \in Workers, TryLock(w)
      PROVE  Posts'
  BY <1>2 DEF TryLock
<1>3. ASSUME NEW w \in Workers, LockBusy(w)
      PROVE  Posts'
  BY <1>3 DEF LockBusy
<1>4. ASSUME NEW w \in Workers, EnterTask(w)
      PROVE  Posts'
  BY <1>4 DEF EnterTask
<1>5. ASSUME NEW w \in Workers, TakeClaim(w)
      PROVE  Posts'
  <2>1. /\ \E pc \in {"unlock", "load"} : wk' = [wk EXCEPT ![w].pc = pc]
        /\ UNCHANGED <<genVars, jobVars>>
    BY <1>5 DEF TakeClaim
  <2> QED
    BY <2>1
<1>6. ASSUME NEW w \in Workers, LoadPending(w)
      PROVE  Posts'
  BY <1>6 DEF LoadPending
<1>7. ASSUME NEW w \in Workers, Reconcile(w)
      PROVE  Posts'
  BY <1>7 DEF Reconcile
<1>8. ASSUME NEW w \in Workers, Resume(w)
      PROVE  Posts'
  BY <1>8 DEF Resume, Resumable
<1>9. ASSUME NEW w \in Workers, Refuse(w)
      PROVE  Posts'
  BY <1>9 DEF Refuse, Resumable
<1>10. ASSUME NEW w \in Workers, Lease(w)
      PROVE  Posts'
  BY <1>10 DEF Lease
<1>11. ASSUME NEW w \in Workers, LeaseFull(w)
      PROVE  Posts'
  BY <1>11 DEF LeaseFull
<1>12. ASSUME NEW w \in Workers, PrepareFails(w)
      PROVE  Posts'
  BY <1>12 DEF PrepareFails
<1>13. ASSUME NEW w \in Workers, BeforeSend(w)
      PROVE  Posts'
  BY <1>13 DEF BeforeSend, Submittable
<1>14. ASSUME NEW w \in Workers, SendLater(w)
      PROVE  Posts'
  BY <1>14 DEF SendLater
<1>15. ASSUME NEW w \in Workers, Post(w)
      PROVE  Posts'
  BY <1>15 DEF Post
<1>16. ASSUME NEW w \in Workers, Transparent(w)
      PROVE  Posts'
  BY <1>16 DEF Transparent
<1>17. ASSUME NEW w \in Workers, BeforeOpaque(w)
      PROVE  Posts'
  BY <1>17 DEF BeforeOpaque
<1>18. ASSUME NEW w \in Workers, OpaqueRefused(w)
      PROVE  Posts'
  BY <1>18 DEF OpaqueRefused
<1>19. ASSUME NEW w \in Workers, AnswerOutput(w)
      PROVE  Posts'
  BY <1>19 DEF AnswerOutput, Answering
<1>20. ASSUME NEW w \in Workers, AnswerPending(w)
      PROVE  Posts'
  BY <1>20 DEF AnswerPending, Answering
<1>21. ASSUME NEW w \in Workers, AnswerFails(w)
      PROVE  Posts'
  BY <1>21 DEF AnswerFails, Answering
<1>22. ASSUME NEW w \in Workers, QueryUnanswered(w)
      PROVE  Posts'
  BY <1>22 DEF QueryUnanswered
<1>23. ASSUME NEW w \in Workers, QueryMiss(w)
      PROVE  Posts'
  <2>1. UNCHANGED sharedVars /\ wk[w].pc # "idle" /\ wk'[w].pc \in {"fail", "persist"}
    BY <1>23 DEF QueryMiss
  <2>2. wk'[w].task = wk[w].task /\ \A v \in Workers : v # w => wk'[v] = wk[v]
    BY <1>23 DEF QueryMiss
  <2>3. \A v \in Workers : wk'[v].task = wk[v].task
    BY <2>1, <2>2
  <2>4. \A v \in Workers : wk'[v].pc \in Posting => wk[v].pc \in Posting
    BY <2>1, <2>2
  <2> QED
    BY <2>1, <2>3, <2>4
<1>24. ASSUME NEW w \in Workers, Persist(w)
      PROVE  Posts'
  BY <1>24 DEF Persist, Persistable
<1>25. ASSUME NEW w \in Workers, PersistRefused(w)
      PROVE  Posts'
  BY <1>25 DEF PersistRefused
<1>26. ASSUME NEW w \in Workers, Read(w)
      PROVE  Posts'
  <2>1. /\ \E pc \in {"store", "repair", "release"} : wk' = [wk EXCEPT ![w].pc = pc]
        /\ UNCHANGED <<genVars, jobVars>>
    BY <1>26 DEF Read
  <2> QED
    BY <2>1
<1>27. ASSUME NEW w \in Workers, OutputFails(w)
      PROVE  Posts'
  BY <1>27 DEF OutputFails
<1>28. ASSUME NEW w \in Workers, Store(w)
      PROVE  Posts'
  BY <1>28 DEF Store
<1>29. ASSUME NEW w \in Workers, StoreFails(w)
      PROVE  Posts'
  BY <1>29 DEF StoreFails
<1>30. ASSUME NEW w \in Workers, Complete(w)
      PROVE  Posts'
  BY <1>30 DEF Complete, Completable
<1>31. ASSUME NEW w \in Workers, CompleteRefused(w)
      PROVE  Posts'
  BY <1>31 DEF CompleteRefused
<1>32. ASSUME NEW w \in Workers, RepairKnown(w)
      PROVE  Posts'
  BY <1>32 DEF RepairKnown
<1>33. ASSUME NEW w \in Workers, RepairNew(w)
      PROVE  Posts'
  BY <1>33 DEF RepairNew, DropOwn, Vacate
<1>34. ASSUME NEW w \in Workers, RepairLease(w)
      PROVE  Posts'
  BY <1>34 DEF RepairLease
<1>35. ASSUME NEW w \in Workers, RepairReceipt(w)
      PROVE  Posts'
  BY <1>35 DEF RepairReceipt, Receiptable
<1>36. ASSUME NEW w \in Workers, RepairPost(w)
      PROVE  Posts'
  BY <1>36 DEF RepairPost
<1>37. ASSUME NEW w \in Workers, RepairAnswered(w)
      PROVE  Posts'
  BY <1>37 DEF RepairAnswered
<1>38. ASSUME NEW w \in Workers, RepairCharge(w)
      PROVE  Posts'
  BY <1>38 DEF RepairCharge
<1>39. ASSUME NEW w \in Workers, RepairFails(w)
      PROVE  Posts'
  BY <1>39 DEF RepairFails
<1>40. ASSUME NEW w \in Workers, RepairStop(w)
      PROVE  Posts'
  BY <1>40 DEF RepairStop, DropOwn, Vacate
<1>41. ASSUME NEW w \in Workers, Fail(w)
      PROVE  Posts'
  BY <1>41 DEF Fail, Settle
<1>42. ASSUME NEW w \in Workers, FailUnclaimed(w)
      PROVE  Posts'
  BY <1>42 DEF FailUnclaimed
<1>43. ASSUME NEW w \in Workers, Close(w)
      PROVE  Posts'
  BY <1>43 DEF Close
<1>44. ASSUME NEW w \in Workers, Release(w)
      PROVE  Posts'
  BY <1>44 DEF Release
<1>45. ASSUME NEW w \in Workers, Drop(w)
      PROVE  Posts'
  BY <1>45 DEF Drop, DropOwn, Vacate
<1>46. ASSUME NEW w \in Workers, Unlock(w)
      PROVE  Posts'
  BY <1>46 DEF Unlock, Leave, DropLock, DropOwn, GoStale
<1>47. ASSUME NEW w \in Workers, Crash(w)
      PROVE  Posts'
  BY <1>47 DEF Crash, Leave, DropLock, DropOwn, GoStale
<1>48. ASSUME NEW w \in Workers, Abort(w)
      PROVE  Posts'
  BY <1>48 DEF Abort, DropOwn, Vacate
<1>49. ASSUME NEW w \in Workers, LoseSession(w)
      PROVE  Posts'
  BY <1>49 DEF LoseSession, DropLock
<1>50. ASSUME NEW t \in Tasks, Sweep(t)
      PROVE  Posts'
  BY <1>50 DEF Sweep, Sweepable, Settle
<1>51. ASSUME NEW t \in Tasks, ExpireClaim(t)
      PROVE  Posts'
  BY <1>51 DEF ExpireClaim
<1>52. ASSUME NEW t \in Tasks, ExpireLease(t)
      PROVE  Posts'
  BY <1>52 DEF ExpireLease, Renewed
<1>53. ASSUME Stabilise
      PROVE  Posts'
  BY <1>53 DEF Stabilise
<1>54. ASSUME NothingDue
      PROVE  Posts'
  BY <1>54 DEF NothingDue, vars
<1>55. CASE UNCHANGED vars
  BY <1>55 DEF vars
<1>56. ASSUME NEW w \in Workers, RenewLease(w)
      PROVE  Posts'
  BY <1>56 DEF RenewLease
<1>57. ASSUME NEW w \in Workers, RenewRepairLease(w)
      PROVE  Posts'
  BY <1>57 DEF RenewRepairLease
<1> QED
  BY <1>1, <1>2, <1>3, <1>4, <1>5, <1>6, <1>7, <1>8, <1>9, <1>10, <1>11, <1>12,
     <1>13, <1>14, <1>15, <1>16, <1>17, <1>18, <1>19, <1>20, <1>21, <1>22, <1>23, <1>24,
     <1>25, <1>26, <1>27, <1>28, <1>29, <1>30, <1>31, <1>32, <1>33, <1>34, <1>35, <1>36,
     <1>37, <1>38, <1>39, <1>40, <1>41, <1>42, <1>43, <1>44, <1>45, <1>46, <1>47, <1>48,
     <1>49, <1>50, <1>51, <1>52, <1>53, <1>54, <1>55, <1>56, <1>57
     DEF Next, EnterStep, LoadStep, LeaseStep, SubmitStep, AnswerStep, OutputStep, RepairStep, EndStep, Step, Renew, Fault, Clock

(* Every repair is announced, and announced once.                          *)
LEMMA RepairedStep ==
  ASSUME IInv, [Next]_vars
  PROVE  Repaired'
<1> USE WorkersAssumption
    DEF IInv, Locals, Local, Repaired, Submitted, TypeOK, PCs, Entering, Renewing, Repairing, Executing, Final, Owners, Places, taskVars, moneyVars, genVars, imageVars, repairVars, leaseVars, jobVars, sharedVars, Task, In, Goto, Return, Owns, Fenced, Pending, At, Idle
<1>1. ASSUME NEW w \in Workers, NEW t \in Tasks, Claim(w, t)
      PROVE  Repaired'
  BY <1>1 DEF Claim, HasSlot, Claimable, Running
<1>2. ASSUME NEW w \in Workers, TryLock(w)
      PROVE  Repaired'
  BY <1>2 DEF TryLock
<1>3. ASSUME NEW w \in Workers, LockBusy(w)
      PROVE  Repaired'
  BY <1>3 DEF LockBusy
<1>4. ASSUME NEW w \in Workers, EnterTask(w)
      PROVE  Repaired'
  BY <1>4 DEF EnterTask
<1>5. ASSUME NEW w \in Workers, TakeClaim(w)
      PROVE  Repaired'
  <2>1. CASE status[Task(w)] \in Final
    <3>1. wk' = [wk EXCEPT ![w].pc = "unlock"] /\ UNCHANGED sharedVars
      BY <1>5, <2>1 DEF TakeClaim
    <3> QED
      BY <3>1
  <2>2. CASE status[Task(w)] \notin Final
    <3>1. /\ wk[w].pc = "take"
          /\ status' = [status EXCEPT ![Task(w)] = "running"]
          /\ claim' = [claim EXCEPT ![Task(w)] = w] /\ live' = [live EXCEPT ![Task(w)] = TRUE]
          /\ wk' = [wk EXCEPT ![w].pc = "load"]
          /\ UNCHANGED <<moneyVars, genVars, leaseVars, jobVars, lock, stable>>
      BY <1>5, <2>2 DEF TakeClaim
    <3>2. Task(w) \in Tasks
      BY <3>1
    <3> QED
      BY <3>1, <3>2
  <2> QED
    BY <2>1, <2>2
<1>6. ASSUME NEW w \in Workers, LoadPending(w)
      PROVE  Repaired'
  BY <1>6 DEF LoadPending
<1>7. ASSUME NEW w \in Workers, Reconcile(w)
      PROVE  Repaired'
  BY <1>7 DEF Reconcile
<1>8. ASSUME NEW w \in Workers, Resume(w)
      PROVE  Repaired'
  BY <1>8 DEF Resume, Resumable
<1>9. ASSUME NEW w \in Workers, Refuse(w)
      PROVE  Repaired'
  BY <1>9 DEF Refuse, Resumable
<1>10. ASSUME NEW w \in Workers, Lease(w)
      PROVE  Repaired'
  BY <1>10 DEF Lease
<1>11. ASSUME NEW w \in Workers, LeaseFull(w)
      PROVE  Repaired'
  BY <1>11 DEF LeaseFull
<1>12. ASSUME NEW w \in Workers, PrepareFails(w)
      PROVE  Repaired'
  BY <1>12 DEF PrepareFails
<1>13. ASSUME NEW w \in Workers, BeforeSend(w)
      PROVE  Repaired'
  BY <1>13 DEF BeforeSend, Submittable
<1>14. ASSUME NEW w \in Workers, SendLater(w)
      PROVE  Repaired'
  BY <1>14 DEF SendLater
<1>15. ASSUME NEW w \in Workers, Post(w)
      PROVE  Repaired'
  BY <1>15 DEF Post
<1>16. ASSUME NEW w \in Workers, Transparent(w)
      PROVE  Repaired'
  BY <1>16 DEF Transparent
<1>17. ASSUME NEW w \in Workers, BeforeOpaque(w)
      PROVE  Repaired'
  BY <1>17 DEF BeforeOpaque
<1>18. ASSUME NEW w \in Workers, OpaqueRefused(w)
      PROVE  Repaired'
  BY <1>18 DEF OpaqueRefused
<1>19. ASSUME NEW w \in Workers, AnswerOutput(w)
      PROVE  Repaired'
  BY <1>19 DEF AnswerOutput, Answering
<1>20. ASSUME NEW w \in Workers, AnswerPending(w)
      PROVE  Repaired'
  BY <1>20 DEF AnswerPending, Answering
<1>21. ASSUME NEW w \in Workers, AnswerFails(w)
      PROVE  Repaired'
  BY <1>21 DEF AnswerFails, Answering
<1>22. ASSUME NEW w \in Workers, QueryUnanswered(w)
      PROVE  Repaired'
  BY <1>22 DEF QueryUnanswered
<1>23. ASSUME NEW w \in Workers, QueryMiss(w)
      PROVE  Repaired'
  <2>1. UNCHANGED sharedVars /\ wk[w].pc # "idle" /\ wk'[w].pc \in {"fail", "persist"}
    BY <1>23 DEF QueryMiss
  <2>2. wk'[w].task = wk[w].task /\ \A v \in Workers : v # w => wk'[v] = wk[v]
    BY <1>23 DEF QueryMiss
  <2>3. \A v \in Workers : wk'[v].task = wk[v].task
    BY <2>1, <2>2
  <2>4. \A v \in Workers : wk'[v].pc \in Submitted => wk[v].pc \in Submitted
    BY <2>1, <2>2
  <2>5. \A v \in Workers : wk'[v].pc = "repost" => wk[v].pc = "repost"
    BY <2>1, <2>2
  <2> QED
    BY <2>1, <2>3, <2>4, <2>5
<1>24. ASSUME NEW w \in Workers, Persist(w)
      PROVE  Repaired'
  BY <1>24 DEF Persist, Persistable
<1>25. ASSUME NEW w \in Workers, PersistRefused(w)
      PROVE  Repaired'
  BY <1>25 DEF PersistRefused
<1>26. ASSUME NEW w \in Workers, Read(w)
      PROVE  Repaired'
  <2>1. UNCHANGED sharedVars /\ wk[w].pc # "idle" /\ wk'[w].pc \in {"store", "repair", "release"}
    BY <1>26 DEF Read
  <2>2. wk'[w].task = wk[w].task /\ \A v \in Workers : v # w => wk'[v] = wk[v]
    BY <1>26 DEF Read
  <2>3. \A v \in Workers : wk'[v].task = wk[v].task
    BY <2>1, <2>2
  <2>4. \A v \in Workers : wk'[v].pc \in Submitted => wk[v].pc \in Submitted
    BY <2>1, <2>2
  <2>5. \A v \in Workers : wk'[v].pc = "repost" => wk[v].pc = "repost"
    BY <2>1, <2>2
  <2> QED
    BY <2>1, <2>3, <2>4, <2>5
<1>27. ASSUME NEW w \in Workers, OutputFails(w)
      PROVE  Repaired'
  BY <1>27 DEF OutputFails
<1>28. ASSUME NEW w \in Workers, Store(w)
      PROVE  Repaired'
  BY <1>28 DEF Store
<1>29. ASSUME NEW w \in Workers, StoreFails(w)
      PROVE  Repaired'
  BY <1>29 DEF StoreFails
<1>30. ASSUME NEW w \in Workers, Complete(w)
      PROVE  Repaired'
  BY <1>30 DEF Complete, Completable
<1>31. ASSUME NEW w \in Workers, CompleteRefused(w)
      PROVE  Repaired'
  BY <1>31 DEF CompleteRefused
<1>32. ASSUME NEW w \in Workers, RepairKnown(w)
      PROVE  Repaired'
  BY <1>32 DEF RepairKnown
<1>33. ASSUME NEW w \in Workers, RepairNew(w)
      PROVE  Repaired'
  BY <1>33 DEF RepairNew, DropOwn, Vacate
<1>34. ASSUME NEW w \in Workers, RepairLease(w)
      PROVE  Repaired'
  BY <1>34 DEF RepairLease
<1>35. ASSUME NEW w \in Workers, RepairReceipt(w)
      PROVE  Repaired'
  BY <1>35 DEF RepairReceipt, Receiptable
<1>36. ASSUME NEW w \in Workers, RepairPost(w)
      PROVE  Repaired'
  BY <1>36 DEF RepairPost
<1>37. ASSUME NEW w \in Workers, RepairAnswered(w)
      PROVE  Repaired'
  BY <1>37 DEF RepairAnswered
<1>38. ASSUME NEW w \in Workers, RepairCharge(w)
      PROVE  Repaired'
  BY <1>38 DEF RepairCharge
<1>39. ASSUME NEW w \in Workers, RepairFails(w)
      PROVE  Repaired'
  BY <1>39 DEF RepairFails
<1>40. ASSUME NEW w \in Workers, RepairStop(w)
      PROVE  Repaired'
  BY <1>40 DEF RepairStop, DropOwn, Vacate
<1>41. ASSUME NEW w \in Workers, Fail(w)
      PROVE  Repaired'
  BY <1>41 DEF Fail, Settle
<1>42. ASSUME NEW w \in Workers, FailUnclaimed(w)
      PROVE  Repaired'
  BY <1>42 DEF FailUnclaimed
<1>43. ASSUME NEW w \in Workers, Close(w)
      PROVE  Repaired'
  BY <1>43 DEF Close
<1>44. ASSUME NEW w \in Workers, Release(w)
      PROVE  Repaired'
  BY <1>44 DEF Release
<1>45. ASSUME NEW w \in Workers, Drop(w)
      PROVE  Repaired'
  BY <1>45 DEF Drop, DropOwn, Vacate
<1>46. ASSUME NEW w \in Workers, Unlock(w)
      PROVE  Repaired'
  BY <1>46 DEF Unlock, Leave, DropLock, DropOwn, GoStale
<1>47. ASSUME NEW w \in Workers, Crash(w)
      PROVE  Repaired'
  BY <1>47 DEF Crash, Leave, DropLock, DropOwn, GoStale
<1>48. ASSUME NEW w \in Workers, Abort(w)
      PROVE  Repaired'
  BY <1>48 DEF Abort, DropOwn, Vacate
<1>49. ASSUME NEW w \in Workers, LoseSession(w)
      PROVE  Repaired'
  BY <1>49 DEF LoseSession, DropLock
<1>50. ASSUME NEW t \in Tasks, Sweep(t)
      PROVE  Repaired'
  BY <1>50 DEF Sweep, Sweepable, Settle
<1>51. ASSUME NEW t \in Tasks, ExpireClaim(t)
      PROVE  Repaired'
  BY <1>51 DEF ExpireClaim
<1>52. ASSUME NEW t \in Tasks, ExpireLease(t)
      PROVE  Repaired'
  BY <1>52 DEF ExpireLease, Renewed
<1>53. ASSUME Stabilise
      PROVE  Repaired'
  BY <1>53 DEF Stabilise
<1>54. ASSUME NothingDue
      PROVE  Repaired'
  BY <1>54 DEF NothingDue, vars
<1>55. CASE UNCHANGED vars
  BY <1>55 DEF vars
<1>56. ASSUME NEW w \in Workers, RenewLease(w)
      PROVE  Repaired'
  BY <1>56 DEF RenewLease
<1>57. ASSUME NEW w \in Workers, RenewRepairLease(w)
      PROVE  Repaired'
  BY <1>57 DEF RenewRepairLease
<1> QED
  BY <1>1, <1>2, <1>3, <1>4, <1>5, <1>6, <1>7, <1>8, <1>9, <1>10, <1>11, <1>12,
     <1>13, <1>14, <1>15, <1>16, <1>17, <1>18, <1>19, <1>20, <1>21, <1>22, <1>23, <1>24,
     <1>25, <1>26, <1>27, <1>28, <1>29, <1>30, <1>31, <1>32, <1>33, <1>34, <1>35, <1>36,
     <1>37, <1>38, <1>39, <1>40, <1>41, <1>42, <1>43, <1>44, <1>45, <1>46, <1>47, <1>48,
     <1>49, <1>50, <1>51, <1>52, <1>53, <1>54, <1>55, <1>56, <1>57
     DEF Next, EnterStep, LoadStep, LeaseStep, SubmitStep, AnswerStep, OutputStep, RepairStep, EndStep, Step, Renew, Fault, Clock

(* No other execution takes away the place of a live claim.                *)
LEMMA PlaceStep ==
  ASSUME IInv, [Next]_vars
  PROVE  Placed'
<1> USE WorkersAssumption
    DEF IInv, Locals, Local, Placed, SoleEntrant, Rows, Closed, TypeOK, PCs, Entering, Renewing, Repairing, Executing, Final, Owners, Places, taskVars, moneyVars, genVars, imageVars, repairVars, leaseVars, jobVars, sharedVars, Task, In, Goto, Return, Owns, Fenced, Pending, At, Idle
<1>1. ASSUME NEW w \in Workers, NEW t \in Tasks, Claim(w, t)
      PROVE  Placed'
  BY <1>1 DEF Claim, HasSlot, Claimable, Running
<1>2. ASSUME NEW w \in Workers, TryLock(w)
      PROVE  Placed'
  BY <1>2 DEF TryLock
<1>3. ASSUME NEW w \in Workers, LockBusy(w)
      PROVE  Placed'
  BY <1>3 DEF LockBusy
<1>4. ASSUME NEW w \in Workers, EnterTask(w)
      PROVE  Placed'
  BY <1>4 DEF EnterTask
<1>5. ASSUME NEW w \in Workers, TakeClaim(w)
      PROVE  Placed'
  <2>1. CASE status[Task(w)] \in Final
    <3>1. wk' = [wk EXCEPT ![w].pc = "unlock"] /\ UNCHANGED sharedVars
      BY <1>5, <2>1 DEF TakeClaim
    <3> QED
      BY <3>1
  <2>2. CASE status[Task(w)] \notin Final
    <3>1. /\ wk[w].pc = "take" /\ Task(w) \in Tasks
          /\ status' = [status EXCEPT ![Task(w)] = "running"]
          /\ claim' = [claim EXCEPT ![Task(w)] = w] /\ live' = [live EXCEPT ![Task(w)] = TRUE]
          /\ wk' = [wk EXCEPT ![w].pc = "load"]
          /\ UNCHANGED <<leaseVars>>
      BY <1>5, <2>2 DEF TakeClaim
    <3> QED
      BY <3>1
  <2> QED
    BY <2>1, <2>2
<1>6. ASSUME NEW w \in Workers, LoadPending(w)
      PROVE  Placed'
  BY <1>6 DEF LoadPending
<1>7. ASSUME NEW w \in Workers, Reconcile(w)
      PROVE  Placed'
  BY <1>7 DEF Reconcile
<1>8. ASSUME NEW w \in Workers, Resume(w)
      PROVE  Placed'
  BY <1>8 DEF Resume, Resumable
<1>9. ASSUME NEW w \in Workers, Refuse(w)
      PROVE  Placed'
  BY <1>9 DEF Refuse, Resumable
<1>10. ASSUME NEW w \in Workers, Lease(w)
      PROVE  Placed'
  BY <1>10 DEF Lease
<1>11. ASSUME NEW w \in Workers, LeaseFull(w)
      PROVE  Placed'
  BY <1>11 DEF LeaseFull
<1>12. ASSUME NEW w \in Workers, PrepareFails(w)
      PROVE  Placed'
  BY <1>12 DEF PrepareFails
<1>13. ASSUME NEW w \in Workers, BeforeSend(w)
      PROVE  Placed'
  BY <1>13 DEF BeforeSend, Submittable
<1>14. ASSUME NEW w \in Workers, SendLater(w)
      PROVE  Placed'
  BY <1>14 DEF SendLater
<1>15. ASSUME NEW w \in Workers, Post(w)
      PROVE  Placed'
  BY <1>15 DEF Post
<1>16. ASSUME NEW w \in Workers, Transparent(w)
      PROVE  Placed'
  BY <1>16 DEF Transparent
<1>17. ASSUME NEW w \in Workers, BeforeOpaque(w)
      PROVE  Placed'
  BY <1>17 DEF BeforeOpaque
<1>18. ASSUME NEW w \in Workers, OpaqueRefused(w)
      PROVE  Placed'
  BY <1>18 DEF OpaqueRefused
<1>19. ASSUME NEW w \in Workers, AnswerOutput(w)
      PROVE  Placed'
  BY <1>19 DEF AnswerOutput, Answering
<1>20. ASSUME NEW w \in Workers, AnswerPending(w)
      PROVE  Placed'
  BY <1>20 DEF AnswerPending, Answering
<1>21. ASSUME NEW w \in Workers, AnswerFails(w)
      PROVE  Placed'
  BY <1>21 DEF AnswerFails, Answering
<1>22. ASSUME NEW w \in Workers, QueryUnanswered(w)
      PROVE  Placed'
  BY <1>22 DEF QueryUnanswered
<1>23. ASSUME NEW w \in Workers, QueryMiss(w)
      PROVE  Placed'
  BY <1>23 DEF QueryMiss, MissedOut
<1>24. ASSUME NEW w \in Workers, Persist(w)
      PROVE  Placed'
  BY <1>24 DEF Persist, Persistable
<1>25. ASSUME NEW w \in Workers, PersistRefused(w)
      PROVE  Placed'
  BY <1>25 DEF PersistRefused
<1>26. ASSUME NEW w \in Workers, Read(w)
      PROVE  Placed'
  BY <1>26 DEF Read
<1>27. ASSUME NEW w \in Workers, OutputFails(w)
      PROVE  Placed'
  BY <1>27 DEF OutputFails
<1>28. ASSUME NEW w \in Workers, Store(w)
      PROVE  Placed'
  BY <1>28 DEF Store
<1>29. ASSUME NEW w \in Workers, StoreFails(w)
      PROVE  Placed'
  BY <1>29 DEF StoreFails
<1>30. ASSUME NEW w \in Workers, Complete(w)
      PROVE  Placed'
  BY <1>30 DEF Complete, Completable
<1>31. ASSUME NEW w \in Workers, CompleteRefused(w)
      PROVE  Placed'
  BY <1>31 DEF CompleteRefused
<1>32. ASSUME NEW w \in Workers, RepairKnown(w)
      PROVE  Placed'
  BY <1>32 DEF RepairKnown
<1>33. ASSUME NEW w \in Workers, RepairNew(w)
      PROVE  Placed'
  BY <1>33 DEF RepairNew, DropOwn, Vacate
<1>34. ASSUME NEW w \in Workers, RepairLease(w)
      PROVE  Placed'
  BY <1>34 DEF RepairLease
<1>35. ASSUME NEW w \in Workers, RepairReceipt(w)
      PROVE  Placed'
  BY <1>35 DEF RepairReceipt, Receiptable
<1>36. ASSUME NEW w \in Workers, RepairPost(w)
      PROVE  Placed'
  BY <1>36 DEF RepairPost
<1>37. ASSUME NEW w \in Workers, RepairAnswered(w)
      PROVE  Placed'
  BY <1>37 DEF RepairAnswered
<1>38. ASSUME NEW w \in Workers, RepairCharge(w)
      PROVE  Placed'
  BY <1>38 DEF RepairCharge
<1>39. ASSUME NEW w \in Workers, RepairFails(w)
      PROVE  Placed'
  BY <1>39 DEF RepairFails
<1>40. ASSUME NEW w \in Workers, RepairStop(w)
      PROVE  Placed'
  BY <1>40 DEF RepairStop, DropOwn, Vacate
<1>41. ASSUME NEW w \in Workers, Fail(w)
      PROVE  Placed'
  BY <1>41 DEF Fail, Settle
<1>42. ASSUME NEW w \in Workers, FailUnclaimed(w)
      PROVE  Placed'
  BY <1>42 DEF FailUnclaimed
<1>43. ASSUME NEW w \in Workers, Close(w)
      PROVE  Placed'
  BY <1>43 DEF Close
<1>44. ASSUME NEW w \in Workers, Release(w)
      PROVE  Placed'
  BY <1>44 DEF Release
<1>45. ASSUME NEW w \in Workers, Drop(w)
      PROVE  Placed'
  BY <1>45 DEF Drop, DropOwn, Vacate
<1>46. ASSUME NEW w \in Workers, Unlock(w)
      PROVE  Placed'
  BY <1>46 DEF Unlock, Leave, DropLock, DropOwn, GoStale
<1>47. ASSUME NEW w \in Workers, Crash(w)
      PROVE  Placed'
  BY <1>47 DEF Crash, Leave, DropLock, DropOwn, GoStale
<1>48. ASSUME NEW w \in Workers, Abort(w)
      PROVE  Placed'
  BY <1>48 DEF Abort, DropOwn, Vacate
<1>49. ASSUME NEW w \in Workers, LoseSession(w)
      PROVE  Placed'
  BY <1>49 DEF LoseSession, DropLock
<1>50. ASSUME NEW t \in Tasks, Sweep(t)
      PROVE  Placed'
  BY <1>50 DEF Sweep, Sweepable, Settle
<1>51. ASSUME NEW t \in Tasks, ExpireClaim(t)
      PROVE  Placed'
  BY <1>51 DEF ExpireClaim
<1>52. ASSUME NEW t \in Tasks, ExpireLease(t)
      PROVE  Placed'
  BY <1>52 DEF ExpireLease, Renewed
<1>53. ASSUME Stabilise
      PROVE  Placed'
  BY <1>53 DEF Stabilise
<1>54. ASSUME NothingDue
      PROVE  Placed'
  BY <1>54 DEF NothingDue, vars
<1>55. CASE UNCHANGED vars
  BY <1>55 DEF vars
<1>56. ASSUME NEW w \in Workers, RenewLease(w)
      PROVE  Placed'
  BY <1>56 DEF RenewLease
<1>57. ASSUME NEW w \in Workers, RenewRepairLease(w)
      PROVE  Placed'
  BY <1>57 DEF RenewRepairLease
<1> QED
  BY <1>1, <1>2, <1>3, <1>4, <1>5, <1>6, <1>7, <1>8, <1>9, <1>10, <1>11, <1>12,
     <1>13, <1>14, <1>15, <1>16, <1>17, <1>18, <1>19, <1>20, <1>21, <1>22, <1>23, <1>24,
     <1>25, <1>26, <1>27, <1>28, <1>29, <1>30, <1>31, <1>32, <1>33, <1>34, <1>35, <1>36,
     <1>37, <1>38, <1>39, <1>40, <1>41, <1>42, <1>43, <1>44, <1>45, <1>46, <1>47, <1>48,
     <1>49, <1>50, <1>51, <1>52, <1>53, <1>54, <1>55, <1>56, <1>57
     DEF Next, EnterStep, LoadStep, LeaseStep, SubmitStep, AnswerStep, OutputStep, RepairStep, EndStep, Step, Renew, Fault, Clock

(* Nobody forgets a stage, and only who has stored it goes past it.        *)
LEMMA SentStep ==
  ASSUME IInv, [Next]_vars
  PROVE  Sent'
<1> USE WorkersAssumption
    DEF IInv, Locals, Local, Sent, Announced, TypeOK, PCs, Entering, Renewing, Repairing, Executing, sharedVars, genVars, Task, In, Goto, Return, At, Idle
<1>1. ASSUME NEW w \in Workers, NEW pc \in PCs \ (Announced \cup {"lease"}), Goto(w, pc),
            UNCHANGED <<call, receipt>>
     PROVE  Sent'
  BY <1>1
<1>2. ASSUME NEW w \in Workers, NEW r, wk' = [wk EXCEPT ![w] = r],
            r.pc \notin Announced \cup {"lease"}, UNCHANGED <<call, receipt>>
     PROVE  Sent'
  BY <1>2
<1>0. ASSUME NEW w \in Workers, NEW pc \in PCs, wk[w].pc \in Announced, Goto(w, pc),
            UNCHANGED <<call, receipt>>
     PROVE  Sent'
  <2>1. call[Task(w)] # "none"
    BY <1>0
  <2>2. Task(w)' = Task(w)
    BY <1>0
  <2> QED
    BY <1>0, <2>1, <2>2
<1>3. ASSUME NEW w \in Workers, NEW t \in Tasks, Claim(w, t)
     PROVE  Sent'
  BY <1>2, <1>3 DEF Claim
<1>4. ASSUME NEW w \in Workers, TryLock(w) \/ EnterTask(w) \/ TakeClaim(w)
     PROVE  Sent'
  BY <1>4, <1>1 DEF TryLock, EnterTask, TakeClaim
<1>5. ASSUME NEW w \in Workers, LoadPending(w) \/ Refuse(w) \/ Reconcile(w)
     PROVE  Sent'
  BY <1>5, <1>1 DEF LoadPending, Refuse, Reconcile
<1>6. ASSUME NEW w \in Workers, PrepareFails(w) \/ SendLater(w) \/ OpaqueRefused(w) \/
            QueryUnanswered(w)
     PROVE  Sent'
  BY <1>6, <1>1 DEF PrepareFails, SendLater, OpaqueRefused, QueryUnanswered
<1>7. ASSUME NEW w \in Workers, OutputFails(w) \/ StoreFails(w) \/ Complete(w) \/
            CompleteRefused(w)
     PROVE  Sent'
  BY <1>7, <1>1 DEF OutputFails, StoreFails, Complete, CompleteRefused
<1>8. ASSUME NEW w \in Workers, Fail(w) \/ FailUnclaimed(w) \/ Close(w) \/ Release(w)
            \/ Drop(w)
     PROVE  Sent'
  BY <1>8, <1>1 DEF Fail, FailUnclaimed, Close, Release, Drop
<1>9. ASSUME NEW w \in Workers, LockBusy(w) \/ Unlock(w) \/ Crash(w)
     PROVE  Sent'
  BY <1>9, <1>2 DEF LockBusy, Unlock, Crash, Leave
<1>10. ASSUME NEW w \in Workers, AnswerFails(w) \/ PersistRefused(w) \/ Abort(w)
     PROVE  Sent'
  BY <1>10, <1>2 DEF AnswerFails, PersistRefused, Abort, Answering
<1>11. ASSUME NEW w \in Workers, Resume(w)
     PROVE  Sent'
  BY <1>11 DEF Resume, Resumable
<1>12. ASSUME NEW w \in Workers, Lease(w)
     PROVE  Sent'
  BY <1>12 DEF Lease
<1>13. ASSUME NEW w \in Workers, LeaseFull(w)
     PROVE  Sent'
  BY <1>13 DEF LeaseFull
<1>14. ASSUME NEW w \in Workers, BeforeSend(w)
     PROVE  Sent'
  BY <1>14 DEF BeforeSend
<1>15. ASSUME NEW w \in Workers, BeforeOpaque(w)
     PROVE  Sent'
  BY <1>15 DEF BeforeOpaque
<1>16. ASSUME NEW w \in Workers, Post(w)
     PROVE  Sent'
  BY <1>0, <1>16 DEF Post
<1>17. ASSUME NEW w \in Workers, Transparent(w)
     PROVE  Sent'
  BY <1>0, <1>17 DEF Transparent
<1>18. ASSUME NEW w \in Workers, AnswerOutput(w)
     PROVE  Sent'
  BY <1>18 DEF AnswerOutput, Answering
<1>19. ASSUME NEW w \in Workers, AnswerPending(w)
     PROVE  Sent'
  BY <1>19 DEF AnswerPending, Answering
<1>20. ASSUME NEW w \in Workers, QueryMiss(w)
     PROVE  Sent'
  <2>1. CASE MissedOut(w)
    BY <1>2, <1>20, <2>1 DEF QueryMiss
  <2>2. CASE ~MissedOut(w)
    BY <1>20, <2>2 DEF QueryMiss
  <2> QED
    BY <2>1, <2>2
<1>21. ASSUME NEW w \in Workers, Persist(w)
     PROVE  Sent'
  BY <1>21 DEF Persist
<1>22. ASSUME NEW w \in Workers, Read(w)
     PROVE  Sent'
  BY <1>0, <1>22 DEF Read
<1>23. ASSUME NEW w \in Workers, Store(w)
     PROVE  Sent'
  BY <1>0, <1>23 DEF Store
<1>24. ASSUME NEW w \in Workers, RepairKnown(w) \/ RepairNew(w)
     PROVE  Sent'
  BY <1>0, <1>24 DEF RepairKnown, RepairNew
<1>25. ASSUME NEW w \in Workers, RepairLease(w)
     PROVE  Sent'
  BY <1>0, <1>25 DEF RepairLease
<1>26. ASSUME NEW w \in Workers, RepairReceipt(w)
     PROVE  Sent'
  BY <1>26 DEF RepairReceipt
<1>27. ASSUME NEW w \in Workers, RepairPost(w)
     PROVE  Sent'
  BY <1>0, <1>27 DEF RepairPost
<1>28. ASSUME NEW w \in Workers, RepairAnswered(w)
     PROVE  Sent'
  BY <1>0, <1>28 DEF RepairAnswered
<1>29. ASSUME NEW w \in Workers, RepairCharge(w)
     PROVE  Sent'
  BY <1>29 DEF RepairCharge
<1>30. ASSUME NEW w \in Workers, RepairFails(w)
     PROVE  Sent'
  BY <1>0, <1>30 DEF RepairFails
<1>31. ASSUME NEW w \in Workers, RepairStop(w)
     PROVE  Sent'
  BY <1>0, <1>31 DEF RepairStop
<1>32. ASSUME NEW w \in Workers, LoseSession(w) \/ Renew(w)
     PROVE  Sent'
  BY <1>32 DEF LoseSession, Renew, RenewLease, RenewRepairLease
<1>33. ASSUME NEW t \in Tasks, Clock(t)
     PROVE  Sent'
  BY <1>33 DEF Clock, Sweep, ExpireClaim, ExpireLease
<1>34. CASE Stabilise \/ NothingDue \/ UNCHANGED vars
  BY <1>34 DEF Stabilise, NothingDue, vars
<1> QED
  BY <1>3, <1>4, <1>5, <1>6, <1>7, <1>8, <1>9, <1>10, <1>11, <1>12, <1>13, <1>14, <1>15,
     <1>16, <1>17, <1>18, <1>19, <1>20, <1>21, <1>22, <1>23, <1>24, <1>25, <1>26, <1>27,
     <1>28, <1>29, <1>30, <1>31, <1>32, <1>33, <1>34
     DEF Next, EnterStep, LoadStep, LeaseStep, SubmitStep, AnswerStep, OutputStep, RepairStep,
         EndStep, Step, Fault

-----------------------------------------------------------------------------
(* The initial states satisfy the invariant.                               *)
LEMMA InitInvariant == Init => IInv
<1> SUFFICES ASSUME Init PROVE IInv
  OBVIOUS
<1> USE WorkersAssumption, LimitsAssumption, PricesAssumption
    DEF Init, At, Idle, PCs, Owners, Final, Entering, Executing, Renewing, Repairing, Places, Posting, Submitted, Announced
<1>1. TypeOK
  <2>1. 0 \in 0 .. MissLimit - 1 /\ "idle" \in PCs
    OBVIOUS
  <2>2. wk \in [Workers -> [pc : PCs, task : Tasks \cup {None}, polling : BOOLEAN,
                            misses : 0 .. MissLimit - 1]]
    BY <2>1
  <2>3. QED
    BY <2>1, <2>2 DEF TypeOK
<1>2. Rows
  BY DEF Rows, Money, Closed
<1>3. Locals
  BY DEF Locals, Local, SoleEntrant
<1>4. Posts /\ Repaired /\ Sent /\ Placed
  BY DEF Posts, Repaired, Sent, Placed
<1>5. QED
  BY <1>1, <1>2, <1>3, <1>4 DEF IInv

(* In every reachable state the rows, what executions know of them, and    *)
(* what may have been sent are consistent.                                 *)
THEOREM ImageInvariance == Spec => []IInv
<1>1. IInv /\ [Next]_vars => IInv'
  <2> SUFFICES ASSUME IInv, [Next]_vars PROVE IInv'
    OBVIOUS
  <2>1. TypeOK /\ Tasked /\ Charged
    BY DEF IInv, Tasked, Charged, Rows, Money, Locals, Local
  <2>2. TypeOK'
    BY <2>1, TypeStep
  <2>3. QED
    BY <2>2, RowStep, LocalStep, PostStep, RepairedStep, SentStep, PlaceStep DEF IInv
<1>2. QED
  BY InitInvariant, <1>1, PTL DEF Spec

(* The rows and the local variables of executions keep their types.        *)
THEOREM ImageTypeCorrect == Spec => []TypeOK
<1>1. IInv => TypeOK
  BY DEF IInv
<1>2. QED
  BY ImageInvariance, <1>1, PTL

(* No image and no repair is ever submitted twice, whatever crashes and    *)
(* however executions overlap.                                             *)
THEOREM SubmittedOnce == Spec => []AcceptedOnce
<1>1. IInv => AcceptedOnce
  BY DEF IInv, Posts, Repaired, AcceptedOnce
<1>2. QED
  BY ImageInvariance, <1>1, PTL

(* A failed generation that keeps less than was paid is refunded once, by  *)
(* its worker or by the sweeper; nothing else is refunded.                 *)
THEOREM RefundedExactlyOnce == Spec => []RefundedOnce
<1>1. IInv => RefundedOnce
  <2> SUFFICES ASSUME IInv, NEW t \in Tasks
               PROVE  Cardinality(refunds[t])
                        = IF gen[t] = "failed" /\ consumed[t] < paid[t] THEN 1 ELSE 0
    BY DEF RefundedOnce
  <2>1. /\ consumed[t] \in Nat /\ refunded[t] \in Nat /\ paid[t] = consumed[t] + refunded[t]
        /\ (refunds[t] = {} <=> refunded[t] = 0)
    BY DEF IInv, TypeOK, Rows, Money
  <2>2. refunds[t] # {} <=> consumed[t] < paid[t]
    BY <2>1
  <2>3. gen[t] # "failed" => refunds[t] = {}
    BY DEF IInv, Rows, Money
  <2>4. gen[t] = "failed" => refunds[t] \in {{}, {"worker"}, {"timeout"}}
    BY DEF IInv, Rows, Money
  <2>5. (\A r : Cardinality({r}) = 1) /\ Cardinality({}) = 0
    BY FS_Singleton, FS_EmptySet
  <2>6. CASE gen[t] = "failed" /\ consumed[t] < paid[t]
    BY <2>2, <2>4, <2>5, <2>6
  <2>7. CASE ~(gen[t] = "failed" /\ consumed[t] < paid[t])
    BY <2>2, <2>3, <2>5, <2>7
  <2> QED
    BY <2>6, <2>7
<1>2. QED
  BY ImageInvariance, <1>1, PTL

(* The amount that refunds are computed from is what the ledger holds.     *)
THEOREM LedgerBalanced == Spec => []LedgerExact
<1>1. IInv => LedgerExact
  BY DEF IInv, Rows, Money, LedgerExact
<1>2. QED
  BY ImageInvariance, <1>1, PTL

(* A closed task shows how its generation ended.                           *)
THEOREM RowsAgree == Spec => []OutcomeAgrees
<1>1. IInv => OutcomeAgrees
  BY DEF IInv, Rows, Closed, OutcomeAgrees
<1>2. QED
  BY ImageInvariance, <1>1, PTL

(* Whoever talks to the member under a live claim has its row there: no    *)
(* other execution has taken it over, though it may have lapsed.           *)
THEOREM PlaceKept == Spec => []PlaceHeld
<1>1. IInv => PlaceHeld
  BY DEF IInv, Placed, PlaceHeld
<1>2. QED
  BY ImageInvariance, <1>1, PTL

-----------------------------------------------------------------------------
(* No row leaves a final status.                                           *)
StatusKept == \A t \in Tasks : status[t] \in Final => status'[t] = status[t]

(* No step changes a final status.                                         *)
LEMMA StatusStep ==
  ASSUME IInv, [Next]_vars
  PROVE  StatusKept
<1>0. /\ TaskTypes /\ GenTypes /\ \A t \in Tasks : Closed(t)
      /\ \A w \in Workers : Local(w)
  BY TypeParts DEF IInv, Rows, Locals
<1> USE <1>0, WorkersAssumption DEF TaskTypes, GenTypes, Closed, Local, StatusKept, Final, Task,
      In, Fenced, Owns
<1>1. ASSUME UNCHANGED status PROVE StatusKept
  BY <1>1
<1>2. ASSUME NEW w \in Workers, NEW t \in Tasks, Claim(w, t) PROVE StatusKept
  BY <1>2 DEF Claim, Claimable
<1>3. ASSUME NEW w \in Workers, TakeClaim(w) PROVE StatusKept
  <2>1. \/ UNCHANGED status
        \/ status[Task(w)] \notin Final /\ status' = [status EXCEPT ![Task(w)] = "running"]
    BY <1>3 DEF TakeClaim, taskVars
  <2> QED
    BY <1>1, <2>1
<1>4. ASSUME NEW w \in Workers, Reconcile(w) PROVE StatusKept
  <2>1. \/ UNCHANGED status
        \/ status[Task(w)] \notin Final /\ status' = [status EXCEPT ![Task(w)] = gen[Task(w)]]
    BY <1>4 DEF Reconcile, taskVars
  <2> QED
    BY <1>1, <2>1
<1>5. ASSUME NEW w \in Workers, Persist(w) PROVE StatusKept
  BY <1>5 DEF Persist, Persistable
<1>6. ASSUME NEW w \in Workers, Complete(w) PROVE StatusKept
  BY <1>6 DEF Complete, Completable
<1>7. ASSUME NEW w \in Workers, Close(w) PROVE StatusKept
  BY <1>7 DEF Close
<1>8. ASSUME NEW t \in Tasks, Sweep(t) PROVE StatusKept
  BY <1>8 DEF Sweep, Sweepable, Settle
<1>9. ASSUME NEW w \in Workers, Release(w) \/ Unlock(w) \/ Crash(w) PROVE UNCHANGED status
  BY <1>9 DEF Release, Unlock, Crash, Leave
<1>10. ASSUME NEW t \in Tasks, ExpireClaim(t) PROVE UNCHANGED status
  BY <1>10 DEF ExpireClaim
<1>11. CASE UNCHANGED taskVars
  BY <1>1, <1>11 DEF taskVars
<1> QED
  BY <1>1, <1>2, <1>3, <1>4, <1>5, <1>6, <1>7, <1>8, <1>9, <1>10, <1>11, Frame DEF TaskMove

(* What a callback reported stays true: a final status is never changed.   *)
THEOREM ImageFinalStatus == Spec => StatusFinal
<1>1. IInv /\ [Next]_vars
        => [\A t \in Tasks : status[t] \in Final => status'[t] = status[t]]_vars
  BY StatusStep DEF StatusKept
<1>2. QED
  BY ImageInvariance, <1>1, PTL DEF Spec, StatusFinal

-----------------------------------------------------------------------------
(* Places at the member are given back, or one is taken while there is     *)
(* room for it.                                                            *)
PlacesMove ==
  \/ Counted(place)' \subseteq Counted(place) /\ Counted(repairPlace)' \subseteq Counted(repairPlace)
  \/ \E t \in Tasks : /\ HasRoom(t)
                       /\ Counted(place)' \subseteq (Counted(place) \ {t}) \cup {t}
                       /\ Counted(repairPlace)' = Counted(repairPlace)
  \/ \E t \in Tasks : /\ HasRepairRoom
                       /\ Counted(place)' = Counted(place)
                       /\ Counted(repairPlace)' \subseteq Counted(repairPlace) \cup {t}

(* No step takes a place without counting first.                           *)
LEMMA PlacesStep ==
  ASSUME IInv, [Next]_vars
  PROVE  PlacesMove
<1>0. LeaseTypes /\ \A w \in Workers : Local(w)
  BY TypeParts DEF IInv, Locals
<1> USE <1>0 DEF LeaseTypes, Local, PlacesMove, Counted, Places, Task, In, imageVars, repairVars,
      leaseVars
<1>1. ASSUME UNCHANGED leaseVars PROVE PlacesMove
  BY <1>1
<1>2. ASSUME NEW w \in Workers, Lease(w) PROVE PlacesMove
  <2>1. Task(w) \in Tasks /\ HasRoom(Task(w))
    BY <1>2 DEF Lease
  <2>2. place' = [place EXCEPT ![Task(w)] = "counted"] /\ repairPlace' = repairPlace
    BY <1>2 DEF Lease
  <2> QED
    BY <2>1, <2>2
<1>3. ASSUME NEW w \in Workers, Complete(w) PROVE PlacesMove
  BY <1>3 DEF Complete, Completable
<1>4. ASSUME NEW w \in Workers, RepairNew(w) PROVE PlacesMove
  BY <1>4 DEF RepairNew, DropOwn, Vacate
<1>5. ASSUME NEW w \in Workers, RepairLease(w) PROVE PlacesMove
  <2>1. Task(w) \in Tasks /\ HasRepairRoom
    BY <1>5 DEF RepairLease
  <2>2. repairPlace' = [repairPlace EXCEPT ![Task(w)] = "counted"] /\ place' = place
    BY <1>5 DEF RepairLease
  <2> QED
    BY <2>1, <2>2
<1>6. ASSUME NEW w \in Workers, RepairStop(w) PROVE PlacesMove
  BY <1>6 DEF RepairStop, DropOwn, Vacate
<1>7. ASSUME NEW w \in Workers, Drop(w) PROVE PlacesMove
  BY <1>7 DEF Drop, DropOwn, Vacate
<1>8. ASSUME NEW w \in Workers, Unlock(w) PROVE PlacesMove
  BY <1>8 DEF Unlock, Leave
<1>9. ASSUME NEW w \in Workers, Crash(w) PROVE PlacesMove
  BY <1>9 DEF Crash, Leave
<1>10. ASSUME NEW w \in Workers, Abort(w) PROVE PlacesMove
  BY <1>10 DEF Abort, DropOwn, Vacate
<1>11. ASSUME NEW t \in Tasks, ExpireLease(t) PROVE PlacesMove
  BY <1>11 DEF ExpireLease, Renewed
<1>12. ASSUME NEW w \in Workers, RenewLease(w) PROVE PlacesMove
  BY <1>12 DEF RenewLease
<1>13. ASSUME NEW w \in Workers, RenewRepairLease(w) PROVE PlacesMove
  BY <1>13 DEF RenewRepairLease
<1> QED
  BY <1>1, <1>2, <1>3, <1>4, <1>5, <1>6, <1>7, <1>8, <1>9, <1>10, <1>11, <1>12, <1>13,
     Frame DEF LeaseMove

(* What joins a finite set makes it larger by one at most.                 *)
LEMMA AtMostOneMore ==
  ASSUME NEW S, IsFiniteSet(S), NEW x
  PROVE  Cardinality(S \cup {x}) <= Cardinality(S) + 1 /\ IsFiniteSet(S \cup {x})
<1>1. Cardinality(S) \in Nat
  BY FS_CardinalityType
<1>2. CASE x \in S
  <2>1. S \cup {x} = S
    BY <1>2
  <2>2. Cardinality(S) <= Cardinality(S) + 1
    BY <1>1
  <2> QED
    BY <2>1, <2>2
<1>3. CASE x \notin S
  <2>1. /\ Cardinality(S \cup {x}) = Cardinality(S) + 1
        /\ IsFiniteSet(S \cup {x})
    BY <1>3, FS_AddElement
  <2>2. Cardinality(S) + 1 <= Cardinality(S) + 1
    BY <1>1
  <2> QED
    BY <2>1, <2>2
<1> QED
  BY <1>2, <1>3

(* For every number of tasks and workers the leases of the member that have*)
(* not expired since they were counted, for images and for repairs, never  *)
(* exceed its concurrency.                                                 *)
THEOREM PlacesBound == Spec => []CapacityRespected
<1> DEFINE Images == Counted(place)
           Edits == Counted(repairPlace)
<1>1. Init => CapacityRespected
  <2> SUFFICES ASSUME Init PROVE CapacityRespected
    OBVIOUS
  <2>1. Counted(place) = {} /\ Counted(repairPlace) = {}
    BY DEF Init, Counted
  <2>2. QED
    BY <2>1, FS_EmptySet, LimitsAssumption DEF CapacityRespected
<1>2. IInv /\ CapacityRespected /\ [Next]_vars => CapacityRespected'
  <2> SUFFICES ASSUME IInv, CapacityRespected, [Next]_vars PROVE CapacityRespected'
    OBVIOUS
  <2>1. /\ IsFiniteSet(Images) /\ IsFiniteSet(Edits)
        /\ IsFiniteSet(Images') /\ IsFiniteSet(Edits')
        /\ IsFiniteSet(Leased) /\ IsFiniteSet(RepairLeased)
    BY TasksAssumption, FS_Subset DEF Counted, Leased, RepairLeased
  <2>2. Images \subseteq Leased /\ Edits \subseteq RepairLeased
    BY DEF Counted, Leased, RepairLeased
  <2>3. Cardinality(Images) + Cardinality(Edits) <= Capacity
    BY DEF CapacityRespected
  <2>4. CapacityRespected' <=> Cardinality(Images') + Cardinality(Edits') <= Capacity
    BY DEF CapacityRespected
  <2>5. HasRepairRoom <=> Cardinality(Leased) + Cardinality(RepairLeased) < Capacity
    BY DEF HasRepairRoom
  <2>6. \A t \in Tasks :
          HasRoom(t) <=> Cardinality(Leased \ {t}) + Cardinality(RepairLeased) < Capacity
    BY DEF HasRoom
  <2>7. \/ Images' \subseteq Images /\ Edits' \subseteq Edits
        \/ \E t \in Tasks : /\ HasRoom(t) /\ Edits' = Edits
                             /\ Images' \subseteq (Images \ {t}) \cup {t}
        \/ \E t \in Tasks : HasRepairRoom /\ Images' = Images /\ Edits' \subseteq Edits \cup {t}
    BY PlacesStep DEF PlacesMove
  <2> HIDE DEF Images, Edits
  <2>8. /\ Cardinality(Images) \in Nat /\ Cardinality(Edits) \in Nat
        /\ Cardinality(Images') \in Nat /\ Cardinality(Edits') \in Nat
        /\ Cardinality(Leased) \in Nat /\ Cardinality(RepairLeased) \in Nat
    BY <2>1, FS_CardinalityType
  <2>9. Cardinality(Images) <= Cardinality(Leased) /\ Cardinality(Edits) <= Cardinality(RepairLeased)
    BY <2>1, <2>2, FS_Subset
  <2>10. CASE Images' \subseteq Images /\ Edits' \subseteq Edits
    <3>1. Cardinality(Images') <= Cardinality(Images) /\ Cardinality(Edits') <= Cardinality(Edits)
      BY <2>1, <2>10, FS_Subset
    <3>2. QED
      BY <2>3, <2>4, <2>8, <3>1, LimitsAssumption
  <2>11. ASSUME NEW t \in Tasks, HasRoom(t), Edits' = Edits,
                Images' \subseteq (Images \ {t}) \cup {t}
         PROVE  CapacityRespected'
    <3>1. /\ IsFiniteSet(Images \ {t}) /\ t \notin Images \ {t}
          /\ IsFiniteSet(Leased \ {t}) /\ Images \ {t} \subseteq Leased \ {t}
      BY <2>1, <2>2, FS_Subset
    <3>2. /\ Cardinality((Images \ {t}) \cup {t}) = Cardinality(Images \ {t}) + 1
          /\ IsFiniteSet((Images \ {t}) \cup {t})
      BY <3>1, FS_AddElement
    <3>3. Cardinality(Images') <= Cardinality((Images \ {t}) \cup {t})
      BY <2>11, <3>2, FS_Subset
    <3>4. Cardinality(Images \ {t}) <= Cardinality(Leased \ {t})
      BY <3>1, FS_Subset
    <3>5. Cardinality(Images \ {t}) \in Nat /\ Cardinality(Leased \ {t}) \in Nat
      BY <3>1, FS_CardinalityType
    <3>6. Cardinality(Leased \ {t}) + Cardinality(RepairLeased) < Capacity
      BY <2>6, <2>11
    <3>7. Cardinality(Images') + Cardinality(Edits) <= Capacity
      BY <2>8, <2>9, <3>2, <3>3, <3>4, <3>5, <3>6, LimitsAssumption
    <3>8. QED
      BY <2>4, <2>11, <3>7
  <2>12. ASSUME NEW t \in Tasks, HasRepairRoom, Images' = Images, Edits' \subseteq Edits \cup {t}
         PROVE  CapacityRespected'
    <3>1. /\ Cardinality(Edits \cup {t}) <= Cardinality(Edits) + 1
          /\ IsFiniteSet(Edits \cup {t})
      BY <2>1, AtMostOneMore
    <3>2. Cardinality(Edits') <= Cardinality(Edits \cup {t})
      BY <2>12, <3>1, FS_Subset
    <3>3. Cardinality(Edits \cup {t}) \in Nat
      BY <3>1, FS_CardinalityType
    <3>4. Cardinality(Images) + Cardinality(Edits') <= Capacity
      BY <2>5, <2>8, <2>9, <2>12, <3>1, <3>2, <3>3, LimitsAssumption
    <3>5. QED
      BY <2>4, <2>12, <3>4
  <2>13. QED
    BY <2>7, <2>10, <2>11, <2>12
<1>3. QED
  BY ImageInvariance, <1>1, <1>2, PTL DEF Spec

-----------------------------------------------------------------------------
(* Execution slots are given back, or one is taken while there is one; the *)
(* token an execution writes takes the slot its claim already holds.       *)
SlotsMove ==
  \/ Running' \subseteq Running
  \/ HasSlot /\ \E t \in Tasks : Running' \subseteq Running \cup {t}

(* Only the claim query takes a slot, and it counts first.                 *)
LEMMA SlotsStep ==
  ASSUME IInv, [Next]_vars
  PROVE  SlotsMove
<1>0. /\ TaskTypes /\ GenTypes /\ \A t \in Tasks : Closed(t)
      /\ \A w \in Workers : Local(w)
  BY TypeParts DEF IInv, Rows, Locals
<1> USE <1>0, WorkersAssumption DEF TaskTypes, GenTypes, Owners, Closed, Local, SlotsMove,
      Running, Final, Task, In, Owns, Entering, taskVars
<1>1. ASSUME UNCHANGED taskVars PROVE SlotsMove
  BY <1>1
<1>2. ASSUME NEW w \in Workers, NEW t \in Tasks, Claim(w, t) PROVE SlotsMove
  BY <1>2 DEF Claim, HasSlot, Claimable, Running
<1>3. ASSUME NEW w \in Workers, TakeClaim(w) PROVE SlotsMove
  <2>1. CASE status[Task(w)] \in Final
    BY <1>1, <1>3, <2>1 DEF TakeClaim
  <2>2. CASE status[Task(w)] \notin Final
    <3>1. Task(w) \in Running
      BY <1>3, <2>2 DEF TakeClaim
    <3>2. /\ status' = [status EXCEPT ![Task(w)] = "running"]
          /\ claim' = [claim EXCEPT ![Task(w)] = w] /\ live' = [live EXCEPT ![Task(w)] = TRUE]
      BY <1>3, <2>2 DEF TakeClaim
    <3>3. Running' \subseteq Running
      BY <3>1, <3>2
    <3> QED
      BY <3>3
  <2> QED
    BY <2>1, <2>2
<1>4. ASSUME NEW w \in Workers, Reconcile(w) PROVE SlotsMove
  BY <1>4 DEF Reconcile
<1>5. ASSUME NEW w \in Workers, Persist(w) PROVE SlotsMove
  BY <1>5 DEF Persist, Persistable
<1>6. ASSUME NEW w \in Workers, Complete(w) PROVE SlotsMove
  BY <1>6 DEF Complete, Completable
<1>7. ASSUME NEW w \in Workers, Close(w) PROVE SlotsMove
  BY <1>7 DEF Close
<1>8. ASSUME NEW w \in Workers, Release(w) PROVE SlotsMove
  BY <1>8 DEF Release
<1>9. ASSUME NEW w \in Workers, Unlock(w) PROVE SlotsMove
  BY <1>9 DEF Unlock, Leave, GoStale
<1>10. ASSUME NEW w \in Workers, Crash(w) PROVE SlotsMove
  BY <1>10 DEF Crash, Leave, GoStale
<1>11. ASSUME NEW t \in Tasks, Sweep(t) PROVE SlotsMove
  BY <1>11 DEF Sweep, Sweepable, Settle
<1>12. ASSUME NEW t \in Tasks, ExpireClaim(t) PROVE SlotsMove
  BY <1>12 DEF ExpireClaim
<1> QED
  BY <1>1, <1>2, <1>3, <1>4, <1>5, <1>6, <1>7, <1>8, <1>9, <1>10, <1>11, <1>12, Frame
     DEF TaskMove

(* "A short transaction reserves a global execution slot and the task claim*)
(* together": for any number of replicas, unexpired claims never exceed the*)
(* limit.                                                                  *)
THEOREM SlotsBound == Spec => []ExecutionBound
<1>1. Init => ExecutionBound
  <2> SUFFICES ASSUME Init PROVE ExecutionBound
    OBVIOUS
  <2>1. Running = {}
    BY DEF Init, Running
  <2>2. QED
    BY <2>1, FS_EmptySet, LimitsAssumption DEF ExecutionBound
<1>2. IInv /\ ExecutionBound /\ [Next]_vars => ExecutionBound'
  <2> SUFFICES ASSUME IInv, ExecutionBound, [Next]_vars PROVE ExecutionBound'
    OBVIOUS
  <2>1. IsFiniteSet(Running) /\ IsFiniteSet(Running')
    BY TasksAssumption, FS_Subset DEF Running
  <2>2. Cardinality(Running) \in Nat /\ Cardinality(Running') \in Nat
    BY <2>1, FS_CardinalityType
  <2>3. CASE Running' \subseteq Running
    <3>1. Cardinality(Running') <= Cardinality(Running)
      BY <2>1, <2>3, FS_Subset
    <3>2. QED
      BY <2>2, <3>1, LimitsAssumption DEF ExecutionBound
  <2>4. ASSUME HasSlot, NEW t \in Tasks, Running' \subseteq Running \cup {t}
        PROVE  ExecutionBound'
    <3>1. /\ Cardinality(Running \cup {t}) <= Cardinality(Running) + 1
          /\ IsFiniteSet(Running \cup {t})
      BY <2>1, AtMostOneMore
    <3>2. Cardinality(Running') <= Cardinality(Running \cup {t})
      BY <2>4, <3>1, FS_Subset
    <3>3. Cardinality(Running \cup {t}) \in Nat
      BY <3>1, FS_CardinalityType
    <3>4. QED
      BY <2>2, <2>4, <3>1, <3>2, <3>3, LimitsAssumption DEF ExecutionBound, HasSlot
  <2>5. QED
    BY <2>3, <2>4, SlotsStep DEF SlotsMove
<1>3. QED
  BY ImageInvariance, <1>1, <1>2, PTL DEF Spec

-----------------------------------------------------------------------------
(* Refinement: what the ledger has taken, which repairs are charged and how*)
(* a generation ended change as ImageSettlement says, or not at all.       *)
Cost == [t \in Tasks |-> paid[t] - refunded[t]]
RepairPaid == [t \in Tasks |-> receipt[t] = "completed"]
MapsToStep == [Settlement!Next]_<<gen, RepairPaid, Cost>>

(* A settlement leaves the ledger with what it keeps, refund or not.       *)
LEMMA SettleCost ==
  ASSUME IInv, NEW t \in Tasks, gen[t] = "pending", UNCHANGED <<paid, receipt>>,
         NEW ref \in {"worker", "timeout"}, NEW kept \in KeptByWorker(t), Settle(t, ref, kept)
  PROVE  Settlement!Next
<1>1. kept \in Nat /\ kept <= Price
  BY PricesAssumption DEF KeptByWorker, Kept
<1>2. \A u \in Tasks : /\ consumed[u] \in Nat /\ refunded[u] \in Nat /\ paid[u] \in Nat
                       /\ paid[u] = consumed[u] + refunded[u]
  BY DEF IInv, TypeOK, Rows, Money
<1>3. gen' = [gen EXCEPT ![t] = "failed"] /\ RepairPaid' = RepairPaid
  BY DEF Settle, RepairPaid
<1>4. refunded \in [Tasks -> Nat]
  BY DEF IInv, TypeOK
<1>5. paid[t] - refunded'[t] = kept /\ (\A u \in Tasks : u # t => refunded'[u] = refunded[u])
  <2>1. CASE consumed[t] > kept
    <3>1. refunded' = [refunded EXCEPT ![t] = refunded[t] + consumed[t] - kept]
      BY <2>1 DEF Settle
    <3>2. refunded'[t] = refunded[t] + consumed[t] - kept
      BY <1>4, <3>1
    <3> QED
      BY <1>1, <1>2, <1>4, <3>1, <3>2
  <2>2. CASE ~(consumed[t] > kept)
    <3>1. refunded' = refunded
      BY <2>2 DEF Settle
    <3>2. consumed[t] >= Price
      BY DEF IInv, Rows, Money
    <3>3. consumed[t] = kept
      BY <1>1, <1>2, <2>2, <3>2, PricesAssumption
    <3> QED
      BY <1>1, <1>2, <3>1, <3>3
  <2> QED
    BY <2>1, <2>2
<1>6. Cost' = [Cost EXCEPT ![t] = kept]
  BY <1>5 DEF Cost
<1>7. kept \in Settlement!Kept(t)
  <2>1. call[t] = "none" => receipt[t] # "completed"
    BY DEF IInv, Sent
  <2>2. kept \in {0, Fee} \/ (kept = Price /\ call[t] = "none")
    BY DEF KeptByWorker, Kept
  <2> QED
    BY <2>1, <2>2 DEF Settlement!Kept
<1>8. Settlement!Fail(t)
  BY <1>3, <1>6, <1>7 DEF Settlement!Fail, RepairPaid, Cost
<1> QED
  BY <1>8 DEF Settlement!Next

(* A busy execution has a row.                                             *)
LEMMA Worked ==
  ASSUME IInv, NEW w \in Workers, wk[w].pc # "idle"
  PROVE  Task(w) \in Tasks
BY DEF IInv, Locals, Local, Task

(* Every step of the worker and of the sweeper maps to a step of the       *)
(* settlement, or to none.                                                 *)
LEMMA SettlementStep ==
  ASSUME IInv, [Next]_vars
  PROVE  MapsToStep
<1> USE DEF In, Pending, moneyVars, genVars
<1>1. ASSUME UNCHANGED <<gen, receipt, paid, refunded>> PROVE MapsToStep
  BY <1>1 DEF MapsToStep, RepairPaid, Cost
<1>2. ASSUME NEW w \in Workers, Complete(w) PROVE MapsToStep
  <2>1. /\ Task(w) \in Tasks /\ gen[Task(w)] = "pending"
        /\ gen' = [gen EXCEPT ![Task(w)] = "completed"] /\ UNCHANGED <<receipt, paid, refunded>>
    BY <1>2, Worked DEF Complete, Completable
  <2>2. Settlement!Deliver(Task(w))
    BY <2>1 DEF Settlement!Deliver, RepairPaid, Cost
  <2> QED
    BY <2>1, <2>2 DEF MapsToStep, Settlement!Next
<1>3. ASSUME NEW w \in Workers, RepairReceipt(w) PROVE MapsToStep
  <2>1. /\ Task(w) \in Tasks /\ receipt[Task(w)] = "none" /\ receipt \in [Tasks -> {"none", "submitting", "completed"}]
        /\ receipt' = [receipt EXCEPT ![Task(w)] = "submitting"]
        /\ UNCHANGED <<gen, paid, refunded>>
    BY <1>3, Worked DEF RepairReceipt, Receiptable, IInv, TypeOK
  <2>2. \A t \in Tasks : (receipt'[t] = "completed") <=> (receipt[t] = "completed")
    BY <2>1
  <2>3. RepairPaid' = RepairPaid /\ Cost' = Cost
    BY <2>1, <2>2 DEF RepairPaid, Cost
  <2> QED
    BY <2>1, <2>3 DEF MapsToStep
<1>4. ASSUME NEW w \in Workers, RepairCharge(w) PROVE MapsToStep
  <2>1. PICK t \in Tasks :
           /\ gen[t] = "pending" /\ receipt[t] = "submitting"
           /\ paid' = [paid EXCEPT ![t] = paid[t] + RepairPrice]
           /\ receipt' = [receipt EXCEPT ![t] = "completed"]
           /\ UNCHANGED <<gen, refunded>>
    BY <1>4, Worked DEF RepairCharge, IInv, Repaired, Submitted
  <2>2. /\ receipt \in [Tasks -> {"none", "submitting", "completed"}]
        /\ paid \in [Tasks -> Nat] /\ refunded \in [Tasks -> Nat]
    BY DEF IInv, TypeOK
  <2>3. ~RepairPaid[t] /\ RepairPaid' = [RepairPaid EXCEPT ![t] = TRUE]
    BY <2>1, <2>2 DEF RepairPaid
  <2>4. paid'[t] - refunded[t] = paid[t] - refunded[t] + RepairPrice
    BY <2>1, <2>2, PricesAssumption
  <2>5. \A u \in Tasks : u # t => paid'[u] = paid[u]
    BY <2>1, <2>2
  <2>6. Cost' = [Cost EXCEPT ![t] = Cost[t] + RepairPrice]
    <3>1. refunded' = refunded
      BY <2>1
    <3>2. \A u \in Tasks :
            paid'[u] - refunded'[u] = IF u = t THEN Cost[t] + RepairPrice ELSE Cost[u]
      BY <2>4, <2>5, <3>1 DEF Cost
    <3> QED
      BY <3>2 DEF Cost
  <2>7. Settlement!Repair(t)
    BY <2>1, <2>3, <2>6 DEF Settlement!Repair, RepairPaid, Cost
  <2> QED
    BY <2>7 DEF MapsToStep, Settlement!Next
<1>5. ASSUME NEW w \in Workers, Fail(w) PROVE MapsToStep
  <2>1. CASE ~Pending(w)
    BY <1>1, <1>5, <2>1 DEF Fail
  <2>2. CASE Pending(w)
    <3>1. PICK kept \in KeptByWorker(Task(w)) : Settle(Task(w), "worker", kept)
      BY <1>5, <2>2 DEF Fail
    <3>2. Task(w) \in Tasks /\ UNCHANGED <<paid, receipt>>
      BY <1>5, Worked DEF Fail
    <3> QED
      BY <2>2, <3>1, <3>2, SettleCost DEF MapsToStep
  <2> QED
    BY <2>1, <2>2
<1>6. ASSUME NEW t \in Tasks, Sweep(t) PROVE MapsToStep
  <2>1. PICK kept \in KeptByWorker(t) : Settle(t, "timeout", kept)
    BY <1>6 DEF Sweep, KeptByWorker
  <2>2. gen[t] = "pending" /\ UNCHANGED <<paid, receipt>>
    BY <1>6 DEF Sweep, Sweepable
  <2> QED
    BY <2>1, <2>2, SettleCost DEF MapsToStep
<1>7. ASSUME NEW w \in Workers, BeforeSend(w) \/ BeforeOpaque(w) \/ Persist(w)
      PROVE  UNCHANGED <<gen, receipt, moneyVars>>
  BY <1>7 DEF BeforeSend, BeforeOpaque, Persist
<1>8. CASE UNCHANGED <<moneyVars, genVars>>
  BY <1>1, <1>8 DEF moneyVars, genVars
<1>9. CASE UNCHANGED <<gen, receipt, moneyVars>>
  BY <1>1, <1>9 DEF moneyVars
<1> QED
  BY <1>2, <1>3, <1>4, <1>5, <1>6, <1>7, <1>8, <1>9, Frame DEF MoneyMove, GenMove

(* The image worker implements ImageSettlement: one charge, at most one    *)
(* repair, then delivery at that cost or a failure that keeps at most the  *)
(* price, and all of it only if no repair was charged.                     *)
THEOREM ImageSettlementImplemented == Spec => ImplementsSettlement
<1>1. Init => Settlement!Init
  <2> SUFFICES ASSUME Init PROVE Settlement!Init
    OBVIOUS
  <2>1. \A t \in Tasks : paid[t] - refunded[t] = Price
    BY PricesAssumption DEF Init
  <2>2. QED
    BY <2>1 DEF Init, Settlement!Init
<1>2. IInv /\ [Next]_vars => [Settlement!Next]_<<gen, RepairPaid, Cost>>
  BY SettlementStep DEF MapsToStep
<1>3. QED
  BY ImageInvariance, <1>1, <1>2, PTL
  DEF Spec, ImplementsSettlement, Settlement!Spec, Settlement!vars, RepairPaid, Cost
=============================================================================
