------------------------- MODULE VideoWorkerProofs -------------------------
(***************************************************************************)
(* Theorems about VideoWorker, for every set of tasks, workers and members,*)
(* every capacity, retry budget, balance and limit.                        *)
(***************************************************************************)
EXTENDS VideoWorker, FiniteSetTheorems, TLAPS

-----------------------------------------------------------------------------
(* The inductive invariant.                                                *)

(* How the stage of a row goes together with its money, its provider and   *)
(* its output.                                                             *)
Paid(t) == consumed[t] /\ reserved[t] /\ debits[t] = 1 /\ refunds[t] = 0
Unpaid(t) == ~consumed[t] /\ ~reserved[t] /\ debits[t] = 0 /\ refunds[t] = 0
RowOK(t) ==
  /\ stage[t] = "created" => Unpaid(t)
  /\ stage[t] \in {"charged", "submitting", "retrying", "polling", "downloading"} => Paid(t)
  /\ stage[t] = "refunding" => Paid(t) \/ Unpaid(t)
  /\ stage[t] = "failed" => /\ ~consumed[t] /\ ~reserved[t]
                            /\ debits[t] = refunds[t] /\ debits[t] \in {0, 1}
  /\ stage[t] = "completed" => /\ consumed[t] /\ ~reserved[t] /\ stored[t]
                               /\ debits[t] = 1 /\ refunds[t] = 0
  /\ stage[t] \in {"submitting", "polling", "downloading"} => pin[t] \in Members
  /\ stage[t] = "completed" <=> status[t] = "completed"
  /\ stage[t] \in Failing <=> status[t] = "failed"
Rows == \A t \in Tasks : RowOK(t)

(* What an execution still knows about its row.                            *)
LocalOK(w) ==
  /\ wk[w].pc # "idle" => wk[w].task \in Tasks
  /\ wk[w].pc \in {"own", "exec"} =>
       /\ wk[w].stage \in Stages \ {"completed"}
       /\ wk[w].stage \in {"submitting", "polling", "downloading"} => wk[w].member \in Members
       /\ wk[w].stage \in Failing => stage[Task(w)] \in Failing
  /\ wk[w].pc = "prepare" => wk[w].stage \in {"charged", "retrying"} /\ wk[w].member \in Members
  /\ wk[w].pc \in {"snapshot", "post", "await", "mark", "reschedule"}
       => wk[w].stage = "submitting" /\ wk[w].member \in Members
  /\ wk[w].pc = "query" => wk[w].stage = "polling" /\ wk[w].member \in Members
  /\ wk[w].pc \in {"download", "store", "complete"} => wk[w].stage = "downloading"
  /\ wk[w].pc = "complete" => stored[Task(w)]
  /\ wk[w].pc = "fail" => wk[w].stage \in Stages \ {"completed", "refunding", "failed"}
  /\ wk[w].pc = "refund" => stage[Task(w)] \in Failing
Locals == \A w \in Workers : LocalOK(w)

IInv == TypeOK /\ Rows /\ Locals

(* Every step keeps the variables in their types.                          *)
LEMMA TypeStep ==
  ASSUME IInv, [Next]_vars
  PROVE  TypeOK'
<1> USE TasksAssumption, WorkersAssumption, MembersAssumption, LimitsAssumption
    DEF IInv, TypeOK, Rows, RowOK, Paid, Unpaid, Locals, LocalOK,
              WorkerStates, Leases, Stages, PCs, Final, Failing, Causes, QueryMissLimit,
              taskVars, creditVars, tryVars, sharedVars, Task, Owns, Fenced, Executes,
              Become, Goto, Finish, At, Idle, NoLease, SetStage, SetStatus
<1>1. ASSUME NEW w \in Workers, NEW t \in Tasks, Claim(w, t)
      PROVE  TypeOK'
  BY <1>1 DEF Claim, Claimable, Settled
<1>2. ASSUME NEW w \in Workers, TryLock(w)
      PROVE  TypeOK'
  BY <1>2 DEF TryLock
<1>3. ASSUME NEW w \in Workers, LockBusy(w)
      PROVE  TypeOK'
  BY <1>3 DEF LockBusy
<1>4. ASSUME NEW w \in Workers, Load(w)
      PROVE  TypeOK'
  BY <1>4 DEF Load, Settled
<1>5. ASSUME NEW w \in Workers, LoadSettled(w)
      PROVE  TypeOK'
  BY <1>5 DEF LoadSettled, Settled
<1>6. ASSUME NEW w \in Workers, TakeClaim(w)
      PROVE  TypeOK'
  BY <1>6 DEF TakeClaim
<1>7. ASSUME NEW w \in Workers, Charge(w)
      PROVE  TypeOK'
  BY <1>7 DEF Charge, Chargeable, Affordable
<1>8. ASSUME NEW w \in Workers, ChargeNothing(w)
      PROVE  TypeOK'
  BY <1>8 DEF ChargeNothing, Chargeable
<1>9. ASSUME NEW w \in Workers, LeaseAgain(w)
      PROVE  TypeOK'
  BY <1>9 DEF LeaseAgain, TakeLease
<1>10. ASSUME NEW w \in Workers, NEW m \in Members, Select(w, m)
      PROVE  TypeOK'
  BY <1>10 DEF Select, Selects, Candidates, Fixed, TakeLease
<1>11. ASSUME NEW w \in Workers, NEW m \in Members, SelectFull(w, m)
      PROVE  TypeOK'
  BY <1>11 DEF SelectFull, Selects
<1>12. ASSUME NEW w \in Workers, CapacityWait(w)
      PROVE  TypeOK'
  BY <1>12 DEF CapacityWait, WaitsForCapacity
<1>13. ASSUME NEW w \in Workers, Start(w)
      PROVE  TypeOK'
  BY <1>13 DEF Start, StartSubmission
<1>14. ASSUME NEW w \in Workers, StartBroken(w)
      PROVE  TypeOK'
  BY <1>14 DEF StartBroken, StartSubmission
<1>15. ASSUME NEW w \in Workers, StartRefused(w)
      PROVE  TypeOK'
  BY <1>15 DEF StartRefused
<1>16. ASSUME NEW w \in Workers, Snapshot(w)
      PROVE  TypeOK'
  BY <1>16 DEF Snapshot
<1>17. ASSUME NEW w \in Workers, SnapshotFails(w)
      PROVE  TypeOK'
  BY <1>17 DEF SnapshotFails
<1>18. ASSUME NEW w \in Workers, Post(w)
      PROVE  TypeOK'
  BY <1>18 DEF Post
<1>19. ASSUME NEW w \in Workers, Accepted(w)
      PROVE  TypeOK'
  BY <1>19 DEF Accepted, Answered
<1>20. ASSUME NEW w \in Workers, Delivered(w)
      PROVE  TypeOK'
  BY <1>20 DEF Delivered, Answered, AcceptDownload
<1>21. ASSUME NEW w \in Workers, SubmitFails(w)
      PROVE  TypeOK'
  BY <1>21 DEF SubmitFails
<1>22. ASSUME NEW w \in Workers, Recover(w)
      PROVE  TypeOK'
  BY <1>22 DEF Recover
<1>23. ASSUME NEW w \in Workers, MarkAttempt(w)
      PROVE  TypeOK'
  BY <1>23 DEF MarkAttempt
<1>24. ASSUME NEW w \in Workers, Retry(w)
      PROVE  TypeOK'
  BY <1>24 DEF Retry
<1>25. ASSUME NEW w \in Workers, Switch(w)
      PROVE  TypeOK'
  BY <1>25 DEF Switch, DropOwnLease
<1>26. ASSUME NEW w \in Workers, QueryPending(w)
      PROVE  TypeOK'
  BY <1>26 DEF QueryPending
<1>27. ASSUME NEW w \in Workers, QueryReady(w)
      PROVE  TypeOK'
  BY <1>27 DEF QueryReady, AcceptDownload
<1>28. ASSUME NEW w \in Workers, QueryTransient(w)
      PROVE  TypeOK'
  BY <1>28 DEF QueryTransient
<1>29. ASSUME NEW w \in Workers, QueryMiss(w)
      PROVE  TypeOK'
  <2>1. wk[w] \in WorkerStates /\ Task(w) \in Tasks
    BY <1>29 DEF IInv, TypeOK, Locals, LocalOK, QueryMiss
  <2>2. wk[w].misses + 1 \in 0 .. QueryMissLimit - 1
    BY <1>29, <2>1 DEF QueryMiss, MissedOut
  <2>3. misses' \in [Tasks -> 0 .. QueryMissLimit - 1]
    BY <1>29, <2>1, <2>2 DEF IInv, TypeOK, QueryMiss
  <2>4. QED
    BY <1>29, <2>1, <2>3 DEF IInv, TypeOK, QueryMiss
<1>30. ASSUME NEW w \in Workers, Download(w)
      PROVE  TypeOK'
  BY <1>30 DEF Download
<1>31. ASSUME NEW w \in Workers, Store(w)
      PROVE  TypeOK'
  BY <1>31 DEF Store
<1>32. ASSUME NEW w \in Workers, Complete(w)
      PROVE  TypeOK'
  BY <1>32 DEF Complete, DropOwnLease
<1>33. ASSUME NEW w \in Workers, FailFinally(w)
      PROVE  TypeOK'
  BY <1>33 DEF FailFinally, Answered, WaitsForCapacity, Chargeable, Fixed
<1>34. ASSUME NEW w \in Workers, Wait(w)
      PROVE  TypeOK'
  BY <1>34 DEF Wait
<1>35. ASSUME NEW w \in Workers, LeaseRefused(w)
      PROVE  TypeOK'
  BY <1>35 DEF LeaseRefused
<1>36. ASSUME NEW w \in Workers, LoseClaim(w)
      PROVE  TypeOK'
  BY <1>36 DEF LoseClaim, Answered, WaitsForCapacity
<1>37. ASSUME NEW w \in Workers, Fail(w)
      PROVE  TypeOK'
  BY <1>37 DEF Fail, DropOwnLease
<1>38. ASSUME NEW w \in Workers, Refund(w)
      PROVE  TypeOK'
  <2>1. Task(w) \in Tasks /\ stage[Task(w)] \in Failing
    BY <1>38 DEF Refund, IInv, Locals, LocalOK
  <2>2. Settle(Task(w)) /\ RowOK(Task(w))
    BY <1>38, <2>1 DEF Refund, IInv, Rows
  <2>3. consumed[Task(w)] => refunds[Task(w)] = 0
    BY <2>1, <2>2 DEF RowOK, Paid, Unpaid
  <2>4. wallet' \in Nat /\ refunds' \in [Tasks -> Nat]
    <3>1. CASE consumed[Task(w)]
      <4>1. /\ wallet' = wallet + 1 - refunds[Task(w)]
            /\ refunds' = [refunds EXCEPT ![Task(w)] = 1]
        BY <2>2, <3>1 DEF Settle
      <4>2. wallet \in Nat /\ refunds \in [Tasks -> Nat]
        OBVIOUS
      <4>3. QED  BY <2>1, <2>3, <3>1, <4>1, <4>2
    <3>2. CASE ~consumed[Task(w)]
      BY <2>2, <3>2 DEF IInv, TypeOK, Settle
    <3>3. QED  BY <3>1, <3>2
  <2>5. keyUsed' \in Nat
    <3>1. CASE reserved[Task(w)]
      BY <2>2, <3>1 DEF IInv, TypeOK, Settle
    <3>2. CASE ~reserved[Task(w)]
      BY <2>2, <3>2 DEF IInv, TypeOK, Settle
    <3>3. QED  BY <3>1, <3>2
  <2>6. /\ consumed' \in [Tasks -> BOOLEAN] /\ reserved' \in [Tasks -> BOOLEAN]
        /\ stage' \in [Tasks -> Stages]
        /\ status' \in [Tasks -> {"pending", "running", "completed", "failed"}]
        /\ claim' \in [Tasks -> Workers \cup {Stale, None}]
        /\ lease' \in [Tasks -> Leases]
    BY <2>1, <2>2 DEF IInv, TypeOK, Settle
  <2>7. QED
    BY <1>38, <2>4, <2>5, <2>6 DEF Refund, IInv, TypeOK
<1>39. ASSUME NEW w \in Workers, Release(w)
      PROVE  TypeOK'
  BY <1>39 DEF Release
<1>40. ASSUME NEW w \in Workers, Unlock(w)
      PROVE  TypeOK'
  BY <1>40 DEF Unlock, DropLock, Retire
<1>41. ASSUME NEW w \in Workers, Crash(w)
      PROVE  TypeOK'
  BY <1>41 DEF Crash, DropLock, Retire
<1>42. ASSUME NEW w \in Workers, Abort(w)
      PROVE  TypeOK'
  BY <1>42 DEF Abort
<1>43. ASSUME NEW w \in Workers, AbortUnreleased(w)
      PROVE  TypeOK'
  BY <1>43 DEF AbortUnreleased
<1>44. ASSUME NEW w \in Workers, LoseSession(w)
      PROVE  TypeOK'
  BY <1>44 DEF LoseSession, DropLock
<1>45. ASSUME NEW t \in Tasks, ExpireClaim(t)
      PROVE  TypeOK'
  BY <1>45 DEF ExpireClaim
<1>46. ASSUME NEW t \in Tasks, ExpireLease(t)
      PROVE  TypeOK'
  BY <1>46 DEF ExpireLease
<1>47. ASSUME NEW t \in Tasks, PassDeadline(t)
      PROVE  TypeOK'
  BY <1>47 DEF PassDeadline
<1>48. CASE Stabilise
  BY <1>48 DEF Stabilise
<1>49. CASE NothingDue \/ UNCHANGED vars
  BY <1>49 DEF NothingDue, vars
<1>50. QED
  BY <1>1, <1>2, <1>3, <1>4, <1>5, <1>6, <1>7, <1>8, <1>9, <1>10, <1>11,
     <1>12, <1>13, <1>14, <1>15, <1>16, <1>17, <1>18, <1>19, <1>20, <1>21,
     <1>22, <1>23, <1>24, <1>25, <1>26, <1>27, <1>28, <1>29, <1>30, <1>31,
     <1>32, <1>33, <1>34, <1>35, <1>36, <1>37, <1>38, <1>39, <1>40, <1>41,
     <1>42, <1>43, <1>44, <1>45, <1>46, <1>47, <1>48, <1>49
  DEF Next, Step, Enter, ChargeStep, LeaseStep, SubmitStep,
         QueryStep, DownloadStep, EndStep, Fault, Clock

(* Every step keeps the rows of the database consistent.                   *)
LEMMA RowStep ==
  ASSUME IInv, [Next]_vars
  PROVE  Rows'
<1> USE TasksAssumption, WorkersAssumption, MembersAssumption, LimitsAssumption
    DEF IInv, TypeOK, Rows, RowOK, Paid, Unpaid, Locals, LocalOK,
              WorkerStates, Leases, Stages, PCs, Final, Failing, Causes, QueryMissLimit,
              taskVars, creditVars, tryVars, sharedVars, Task, Owns, Fenced, Executes,
              Become, Goto, Finish, At, Idle, NoLease, SetStage, SetStatus
<1>1. ASSUME NEW w \in Workers, NEW t \in Tasks, Claim(w, t)
      PROVE  Rows'
  BY <1>1 DEF Claim, Claimable, Settled
<1>2. ASSUME NEW w \in Workers, TryLock(w)
      PROVE  Rows'
  BY <1>2 DEF TryLock
<1>3. ASSUME NEW w \in Workers, LockBusy(w)
      PROVE  Rows'
  BY <1>3 DEF LockBusy
<1>4. ASSUME NEW w \in Workers, Load(w)
      PROVE  Rows'
  BY <1>4 DEF Load, Settled
<1>5. ASSUME NEW w \in Workers, LoadSettled(w)
      PROVE  Rows'
  BY <1>5 DEF LoadSettled, Settled
<1>6. ASSUME NEW w \in Workers, TakeClaim(w)
      PROVE  Rows'
  BY <1>6 DEF TakeClaim
<1>7. ASSUME NEW w \in Workers, Charge(w)
      PROVE  Rows'
  BY <1>7 DEF Charge, Chargeable, Affordable
<1>8. ASSUME NEW w \in Workers, ChargeNothing(w)
      PROVE  Rows'
  BY <1>8 DEF ChargeNothing, Chargeable
<1>9. ASSUME NEW w \in Workers, LeaseAgain(w)
      PROVE  Rows'
  BY <1>9 DEF LeaseAgain, TakeLease
<1>10. ASSUME NEW w \in Workers, NEW m \in Members, Select(w, m)
      PROVE  Rows'
  BY <1>10 DEF Select, Selects, Candidates, Fixed, TakeLease
<1>11. ASSUME NEW w \in Workers, NEW m \in Members, SelectFull(w, m)
      PROVE  Rows'
  BY <1>11 DEF SelectFull, Selects
<1>12. ASSUME NEW w \in Workers, CapacityWait(w)
      PROVE  Rows'
  BY <1>12 DEF CapacityWait, WaitsForCapacity
<1>13. ASSUME NEW w \in Workers, Start(w)
      PROVE  Rows'
  BY <1>13 DEF Start, StartSubmission
<1>14. ASSUME NEW w \in Workers, StartBroken(w)
      PROVE  Rows'
  BY <1>14 DEF StartBroken, StartSubmission
<1>15. ASSUME NEW w \in Workers, StartRefused(w)
      PROVE  Rows'
  BY <1>15 DEF StartRefused
<1>16. ASSUME NEW w \in Workers, Snapshot(w)
      PROVE  Rows'
  BY <1>16 DEF Snapshot
<1>17. ASSUME NEW w \in Workers, SnapshotFails(w)
      PROVE  Rows'
  BY <1>17 DEF SnapshotFails
<1>18. ASSUME NEW w \in Workers, Post(w)
      PROVE  Rows'
  BY <1>18 DEF Post
<1>19. ASSUME NEW w \in Workers, Accepted(w)
      PROVE  Rows'
  BY <1>19 DEF Accepted, Answered
<1>20. ASSUME NEW w \in Workers, Delivered(w)
      PROVE  Rows'
  BY <1>20 DEF Delivered, Answered, AcceptDownload
<1>21. ASSUME NEW w \in Workers, SubmitFails(w)
      PROVE  Rows'
  BY <1>21 DEF SubmitFails
<1>22. ASSUME NEW w \in Workers, Recover(w)
      PROVE  Rows'
  BY <1>22 DEF Recover
<1>23. ASSUME NEW w \in Workers, MarkAttempt(w)
      PROVE  Rows'
  BY <1>23 DEF MarkAttempt
<1>24. ASSUME NEW w \in Workers, Retry(w)
      PROVE  Rows'
  BY <1>24 DEF Retry
<1>25. ASSUME NEW w \in Workers, Switch(w)
      PROVE  Rows'
  BY <1>25 DEF Switch, DropOwnLease
<1>26. ASSUME NEW w \in Workers, QueryPending(w)
      PROVE  Rows'
  BY <1>26 DEF QueryPending
<1>27. ASSUME NEW w \in Workers, QueryReady(w)
      PROVE  Rows'
  BY <1>27 DEF QueryReady, AcceptDownload
<1>28. ASSUME NEW w \in Workers, QueryTransient(w)
      PROVE  Rows'
  BY <1>28 DEF QueryTransient
<1>29. ASSUME NEW w \in Workers, QueryMiss(w)
      PROVE  Rows'
  BY <1>29 DEF QueryMiss, MissedOut
<1>30. ASSUME NEW w \in Workers, Download(w)
      PROVE  Rows'
  BY <1>30 DEF Download
<1>31. ASSUME NEW w \in Workers, Store(w)
      PROVE  Rows'
  BY <1>31 DEF Store
<1>32. ASSUME NEW w \in Workers, Complete(w)
      PROVE  Rows'
  BY <1>32 DEF Complete, DropOwnLease
<1>33. ASSUME NEW w \in Workers, FailFinally(w)
      PROVE  Rows'
  BY <1>33 DEF FailFinally, Answered, WaitsForCapacity, Chargeable, Fixed
<1>34. ASSUME NEW w \in Workers, Wait(w)
      PROVE  Rows'
  BY <1>34 DEF Wait
<1>35. ASSUME NEW w \in Workers, LeaseRefused(w)
      PROVE  Rows'
  BY <1>35 DEF LeaseRefused
<1>36. ASSUME NEW w \in Workers, LoseClaim(w)
      PROVE  Rows'
  BY <1>36 DEF LoseClaim, Answered, WaitsForCapacity
<1>37. ASSUME NEW w \in Workers, Fail(w)
      PROVE  Rows'
  BY <1>37 DEF Fail, DropOwnLease
<1>38. ASSUME NEW w \in Workers, Refund(w)
      PROVE  Rows'
  <2>1. Task(w) \in Tasks /\ stage[Task(w)] \in Failing
    BY <1>38 DEF Refund
  <2>2. Settle(Task(w))
    BY <1>38, <2>1 DEF Refund
  <2>3. UNCHANGED <<debits, pin, stored>>
    BY <1>38 DEF Refund
  <2>4. ASSUME NEW t \in Tasks, t # Task(w)
        PROVE  RowOK(t)'
    <3>1. RowOK(t)  OBVIOUS
    <3>2. /\ stage'[t] = stage[t] /\ status'[t] = status[t] /\ consumed'[t] = consumed[t]
          /\ reserved'[t] = reserved[t] /\ refunds'[t] = refunds[t]
      <4>1. CASE consumed[Task(w)]  BY <2>1, <2>2, <2>4, <4>1 DEF Settle
      <4>2. CASE ~consumed[Task(w)]  BY <2>1, <2>2, <2>4, <4>2 DEF Settle
      <4>3. QED  BY <4>1, <4>2
    <3>3. QED
      BY <3>1, <3>2, <2>3
  <2>5. RowOK(Task(w))'
    <3>1. /\ stage'[Task(w)] = "failed" /\ status'[Task(w)] = "failed"
          /\ ~consumed'[Task(w)] /\ ~reserved'[Task(w)]
      BY <2>1, <2>2 DEF Settle
    <3>2. /\ debits[Task(w)] = refunds'[Task(w)] /\ debits[Task(w)] \in {0, 1}
      <4>1. CASE consumed[Task(w)]  BY <2>1, <2>2, <4>1 DEF Settle
      <4>2. CASE ~consumed[Task(w)]  BY <2>1, <2>2, <4>2 DEF Settle
      <4>3. QED  BY <4>1, <4>2
    <3>3. Task(w)' = Task(w)
      BY <1>38, <2>1 DEF Refund
    <3>4. QED
      BY <2>1, <2>3, <3>1, <3>2, <3>3
  <2>6. QED
    BY <2>4, <2>5, <1>38, <2>1 DEF Refund
<1>39. ASSUME NEW w \in Workers, Release(w)
      PROVE  Rows'
  BY <1>39 DEF Release
<1>40. ASSUME NEW w \in Workers, Unlock(w)
      PROVE  Rows'
  BY <1>40 DEF Unlock, DropLock, Retire
<1>41. ASSUME NEW w \in Workers, Crash(w)
      PROVE  Rows'
  BY <1>41 DEF Crash, DropLock, Retire
<1>42. ASSUME NEW w \in Workers, Abort(w)
      PROVE  Rows'
  BY <1>42 DEF Abort
<1>43. ASSUME NEW w \in Workers, AbortUnreleased(w)
      PROVE  Rows'
  BY <1>43 DEF AbortUnreleased
<1>44. ASSUME NEW w \in Workers, LoseSession(w)
      PROVE  Rows'
  BY <1>44 DEF LoseSession, DropLock
<1>45. ASSUME NEW t \in Tasks, ExpireClaim(t)
      PROVE  Rows'
  BY <1>45 DEF ExpireClaim
<1>46. ASSUME NEW t \in Tasks, ExpireLease(t)
      PROVE  Rows'
  BY <1>46 DEF ExpireLease
<1>47. ASSUME NEW t \in Tasks, PassDeadline(t)
      PROVE  Rows'
  BY <1>47 DEF PassDeadline
<1>48. CASE Stabilise
  BY <1>48 DEF Stabilise
<1>49. CASE NothingDue \/ UNCHANGED vars
  BY <1>49 DEF NothingDue, vars
<1>50. QED
  BY <1>1, <1>2, <1>3, <1>4, <1>5, <1>6, <1>7, <1>8, <1>9, <1>10, <1>11,
     <1>12, <1>13, <1>14, <1>15, <1>16, <1>17, <1>18, <1>19, <1>20, <1>21,
     <1>22, <1>23, <1>24, <1>25, <1>26, <1>27, <1>28, <1>29, <1>30, <1>31,
     <1>32, <1>33, <1>34, <1>35, <1>36, <1>37, <1>38, <1>39, <1>40, <1>41,
     <1>42, <1>43, <1>44, <1>45, <1>46, <1>47, <1>48, <1>49
  DEF Next, Step, Enter, ChargeStep, LeaseStep, SubmitStep,
         QueryStep, DownloadStep, EndStep, Fault, Clock

(* Every step keeps what executions know of their rows true.               *)
LEMMA LocalStep ==
  ASSUME IInv, [Next]_vars
  PROVE  Locals'
<1> USE TasksAssumption, WorkersAssumption, MembersAssumption, LimitsAssumption
    DEF IInv, TypeOK, Rows, RowOK, Locals, LocalOK,
              WorkerStates, Leases, Stages, PCs, Final, Failing, Causes, QueryMissLimit,
              taskVars, creditVars, tryVars, sharedVars, Task, Owns, Fenced, Executes,
              Become, Goto, Finish, At, Idle, NoLease, SetStage, SetStatus
<1>1. ASSUME NEW w \in Workers, NEW t \in Tasks, Claim(w, t)
      PROVE  Locals'
  BY <1>1 DEF Claim, Claimable, Settled
<1>2. ASSUME NEW w \in Workers, TryLock(w)
      PROVE  Locals'
  BY <1>2 DEF TryLock
<1>3. ASSUME NEW w \in Workers, LockBusy(w)
      PROVE  Locals'
  BY <1>3 DEF LockBusy
<1>4. ASSUME NEW w \in Workers, Load(w)
      PROVE  Locals'
  BY <1>4 DEF Load, Settled
<1>5. ASSUME NEW w \in Workers, LoadSettled(w)
      PROVE  Locals'
  BY <1>5 DEF LoadSettled, Settled
<1>6. ASSUME NEW w \in Workers, TakeClaim(w)
      PROVE  Locals'
  BY <1>6 DEF TakeClaim
<1>7. ASSUME NEW w \in Workers, Charge(w)
      PROVE  Locals'
  BY <1>7 DEF Charge, Chargeable, Affordable
<1>8. ASSUME NEW w \in Workers, ChargeNothing(w)
      PROVE  Locals'
  BY <1>8 DEF ChargeNothing, Chargeable
<1>9. ASSUME NEW w \in Workers, LeaseAgain(w)
      PROVE  Locals'
  BY <1>9 DEF LeaseAgain, TakeLease
<1>10. ASSUME NEW w \in Workers, NEW m \in Members, Select(w, m)
      PROVE  Locals'
  BY <1>10 DEF Select, Selects, Candidates, Fixed, TakeLease
<1>11. ASSUME NEW w \in Workers, NEW m \in Members, SelectFull(w, m)
      PROVE  Locals'
  BY <1>11 DEF SelectFull, Selects
<1>12. ASSUME NEW w \in Workers, CapacityWait(w)
      PROVE  Locals'
  BY <1>12 DEF CapacityWait, WaitsForCapacity
<1>13. ASSUME NEW w \in Workers, Start(w)
      PROVE  Locals'
  <2>1. /\ wk[w].pc = "prepare" /\ StartSubmission(w) /\ UNCHANGED stored
        /\ wk' = [wk EXCEPT ![w] = [pc |-> "snapshot", task |-> wk[w].task, stage |-> "submitting",
                   member |-> wk[w].member, misses |-> wk[w].misses,
                   cause |-> None]]
    BY <1>13 DEF Start
  <2>2. /\ wk[w].task \in Tasks /\ wk[w].member \in Members
        /\ stage[wk[w].task] \in {"charged", "retrying"}
    BY <2>1 DEF StartSubmission
  <2>3. stage' = [stage EXCEPT ![wk[w].task] = "submitting"]
    BY <2>1 DEF StartSubmission
  <2>4. \A t \in Tasks : stage[t] \in Failing => stage'[t] \in Failing
    BY <2>2, <2>3
  <2>5. ASSUME NEW v \in Workers, v # w
        PROVE  LocalOK(v)'
    BY <2>1, <2>4, <2>5
  <2>6. LocalOK(w)'
    BY <2>1, <2>2
  <2>7. QED
    BY <2>5, <2>6
<1>14. ASSUME NEW w \in Workers, StartBroken(w)
      PROVE  Locals'
  <2>1. /\ wk[w].pc = "prepare" /\ StartSubmission(w) /\ UNCHANGED stored
        /\ wk' = [wk EXCEPT ![w] = [pc |-> "mark", task |-> wk[w].task, stage |-> "submitting",
                   member |-> wk[w].member, misses |-> wk[w].misses,
                   cause |-> "switch"]]
    BY <1>14 DEF StartBroken
  <2>2. /\ wk[w].task \in Tasks /\ wk[w].member \in Members
        /\ stage[wk[w].task] \in {"charged", "retrying"}
    BY <2>1 DEF StartSubmission
  <2>3. stage' = [stage EXCEPT ![wk[w].task] = "submitting"]
    BY <2>1 DEF StartSubmission
  <2>4. \A t \in Tasks : stage[t] \in Failing => stage'[t] \in Failing
    BY <2>2, <2>3
  <2>5. ASSUME NEW v \in Workers, v # w
        PROVE  LocalOK(v)'
    BY <2>1, <2>4, <2>5
  <2>6. LocalOK(w)'
    BY <2>1, <2>2
  <2>7. QED
    BY <2>5, <2>6
<1>15. ASSUME NEW w \in Workers, StartRefused(w)
      PROVE  Locals'
  BY <1>15 DEF StartRefused
<1>16. ASSUME NEW w \in Workers, Snapshot(w)
      PROVE  Locals'
  BY <1>16 DEF Snapshot
<1>17. ASSUME NEW w \in Workers, SnapshotFails(w)
      PROVE  Locals'
  BY <1>17 DEF SnapshotFails
<1>18. ASSUME NEW w \in Workers, Post(w)
      PROVE  Locals'
  BY <1>18 DEF Post
<1>19. ASSUME NEW w \in Workers, Accepted(w)
      PROVE  Locals'
  BY <1>19 DEF Accepted, Answered
<1>20. ASSUME NEW w \in Workers, Delivered(w)
      PROVE  Locals'
  BY <1>20 DEF Delivered, Answered, AcceptDownload
<1>21. ASSUME NEW w \in Workers, SubmitFails(w)
      PROVE  Locals'
  BY <1>21 DEF SubmitFails
<1>22. ASSUME NEW w \in Workers, Recover(w)
      PROVE  Locals'
  BY <1>22 DEF Recover
<1>23. ASSUME NEW w \in Workers, MarkAttempt(w)
      PROVE  Locals'
  BY <1>23 DEF MarkAttempt
<1>24. ASSUME NEW w \in Workers, Retry(w)
      PROVE  Locals'
  BY <1>24 DEF Retry
<1>25. ASSUME NEW w \in Workers, Switch(w)
      PROVE  Locals'
  BY <1>25 DEF Switch, DropOwnLease
<1>26. ASSUME NEW w \in Workers, QueryPending(w)
      PROVE  Locals'
  BY <1>26 DEF QueryPending
<1>27. ASSUME NEW w \in Workers, QueryReady(w)
      PROVE  Locals'
  BY <1>27 DEF QueryReady, AcceptDownload
<1>28. ASSUME NEW w \in Workers, QueryTransient(w)
      PROVE  Locals'
  BY <1>28 DEF QueryTransient
<1>29. ASSUME NEW w \in Workers, QueryMiss(w)
      PROVE  Locals'
  BY <1>29 DEF QueryMiss, MissedOut
<1>30. ASSUME NEW w \in Workers, Download(w)
      PROVE  Locals'
  BY <1>30 DEF Download
<1>31. ASSUME NEW w \in Workers, Store(w)
      PROVE  Locals'
  BY <1>31 DEF Store
<1>32. ASSUME NEW w \in Workers, Complete(w)
      PROVE  Locals'
  BY <1>32 DEF Complete, DropOwnLease
<1>33. ASSUME NEW w \in Workers, FailFinally(w)
      PROVE  Locals'
  BY <1>33 DEF FailFinally, Answered, WaitsForCapacity, Chargeable, Fixed
<1>34. ASSUME NEW w \in Workers, Wait(w)
      PROVE  Locals'
  BY <1>34 DEF Wait
<1>35. ASSUME NEW w \in Workers, LeaseRefused(w)
      PROVE  Locals'
  BY <1>35 DEF LeaseRefused
<1>36. ASSUME NEW w \in Workers, LoseClaim(w)
      PROVE  Locals'
  BY <1>36 DEF LoseClaim, Answered, WaitsForCapacity
<1>37. ASSUME NEW w \in Workers, Fail(w)
      PROVE  Locals'
  BY <1>37 DEF Fail, DropOwnLease
<1>38. ASSUME NEW w \in Workers, Refund(w)
      PROVE  Locals'
  <2>1. Task(w) \in Tasks /\ stage[Task(w)] \in Failing
    BY <1>38 DEF Refund
  <2>2. \A t \in Tasks : stage[t] \in Failing => stage'[t] \in Failing
    BY <1>38, <2>1 DEF Refund, Settle
  <2>3. wk' = [wk EXCEPT ![w] = At("release", Task(w))] /\ UNCHANGED stored
    BY <1>38 DEF Refund
  <2>4. QED
    BY <2>1, <2>2, <2>3
<1>39. ASSUME NEW w \in Workers, Release(w)
      PROVE  Locals'
  BY <1>39 DEF Release
<1>40. ASSUME NEW w \in Workers, Unlock(w)
      PROVE  Locals'
  BY <1>40 DEF Unlock, DropLock, Retire
<1>41. ASSUME NEW w \in Workers, Crash(w)
      PROVE  Locals'
  BY <1>41 DEF Crash, DropLock, Retire
<1>42. ASSUME NEW w \in Workers, Abort(w)
      PROVE  Locals'
  BY <1>42 DEF Abort
<1>43. ASSUME NEW w \in Workers, AbortUnreleased(w)
      PROVE  Locals'
  BY <1>43 DEF AbortUnreleased
<1>44. ASSUME NEW w \in Workers, LoseSession(w)
      PROVE  Locals'
  BY <1>44 DEF LoseSession, DropLock
<1>45. ASSUME NEW t \in Tasks, ExpireClaim(t)
      PROVE  Locals'
  BY <1>45 DEF ExpireClaim
<1>46. ASSUME NEW t \in Tasks, ExpireLease(t)
      PROVE  Locals'
  BY <1>46 DEF ExpireLease
<1>47. ASSUME NEW t \in Tasks, PassDeadline(t)
      PROVE  Locals'
  BY <1>47 DEF PassDeadline
<1>48. CASE Stabilise
  BY <1>48 DEF Stabilise
<1>49. CASE NothingDue \/ UNCHANGED vars
  BY <1>49 DEF NothingDue, vars
<1>50. QED
  BY <1>1, <1>2, <1>3, <1>4, <1>5, <1>6, <1>7, <1>8, <1>9, <1>10, <1>11,
     <1>12, <1>13, <1>14, <1>15, <1>16, <1>17, <1>18, <1>19, <1>20, <1>21,
     <1>22, <1>23, <1>24, <1>25, <1>26, <1>27, <1>28, <1>29, <1>30, <1>31,
     <1>32, <1>33, <1>34, <1>35, <1>36, <1>37, <1>38, <1>39, <1>40, <1>41,
     <1>42, <1>43, <1>44, <1>45, <1>46, <1>47, <1>48, <1>49
  DEF Next, Step, Enter, ChargeStep, LeaseStep, SubmitStep,
         QueryStep, DownloadStep, EndStep, Fault, Clock

-----------------------------------------------------------------------------
(* The initial states satisfy the invariant.                               *)
LEMMA InitInvariant == Init => IInv
<1> SUFFICES ASSUME Init PROVE IInv
  OBVIOUS
<1> USE WorkersAssumption, MembersAssumption, LimitsAssumption
    DEF Init, Stages, PCs, Final, Failing, Causes, Leases, WorkerStates, NoLease,
        At, Idle, QueryMissLimit
<1>1. TypeOK
  <2>1. /\ stage \in [Tasks -> Stages] /\ misses \in [Tasks -> 0 .. QueryMissLimit - 1]
        /\ attempts \in [Tasks -> [Members -> Nat]]
        /\ upstream \in [Tasks -> [Members -> Nat]]
    OBVIOUS
  <2>2. wk \in [Workers -> WorkerStates]
    OBVIOUS
  <2>3. lease \in [Tasks -> Leases]
    OBVIOUS
  <2>4. QED
    BY <2>1, <2>2, <2>3 DEF TypeOK
<1>2. Rows
  BY DEF Rows, RowOK, Unpaid
<1>3. Locals
  BY DEF Locals, LocalOK
<1>4. QED
  BY <1>1, <1>2, <1>3 DEF IInv

(* Every reachable state is typed, its rows are consistent and what the    *)
(* executions know of them is true.                                        *)
THEOREM Invariance == Spec => []IInv
<1>1. IInv /\ [Next]_vars => IInv'
  BY TypeStep, RowStep, LocalStep DEF IInv
<1>2. QED
  BY InitInvariant, <1>1, PTL DEF Spec

(* The columns and the local variables keep the types the code relies on.  *)
THEOREM TypeCorrect == Spec => []TypeOK
<1>1. IInv => TypeOK
  BY DEF IInv
<1>2. QED
  BY Invariance, <1>1, PTL

(* No task is both delivered and refunded and none fails with its price    *)
(* kept, even when workers lose the advisory lock and race each other.     *)
THEOREM SettledExactlyOnce == Spec => []SettledOnce
<1>1. IInv => SettledOnce
  <2> SUFFICES ASSUME IInv, NEW t \in Tasks
               PROVE  /\ stage[t] = "completed" => debits[t] = 1 /\ refunds[t] = 0 /\ stored[t]
                      /\ stage[t] = "failed" => debits[t] = refunds[t] /\ ~consumed[t] /\ ~reserved[t]
                      /\ debits[t] <= 1 /\ refunds[t] <= debits[t]
    BY DEF SettledOnce
  <2>1. RowOK(t) /\ stage[t] \in Stages /\ refunds[t] \in Nat
    BY DEF IInv, Rows, TypeOK
  <2>2. QED
    BY <2>1 DEF RowOK, Paid, Unpaid, Stages
<1>2. QED
  BY Invariance, <1>1, PTL

-----------------------------------------------------------------------------
(* No row leaves a final status.                                           *)
StatusKept == \A t \in Tasks : status[t] \in Final => status'[t] = status[t]

(* No step changes a final status.                                         *)
LEMMA StatusStep ==
  ASSUME IInv, [Next]_vars
  PROVE  StatusKept
<1> USE TasksAssumption, WorkersAssumption, MembersAssumption, LimitsAssumption
    DEF IInv, TypeOK, Rows, RowOK, Locals, LocalOK, StatusKept,
              WorkerStates, Leases, Stages, PCs, Final, Failing, Causes, QueryMissLimit,
              taskVars, creditVars, tryVars, sharedVars, Task, Owns, Fenced, Executes,
              Become, Goto, Finish, At, Idle, NoLease, SetStage, SetStatus
<1>1. ASSUME NEW w \in Workers, NEW t \in Tasks, Claim(w, t)
      PROVE  StatusKept
  BY <1>1 DEF Claim, Claimable, Settled
<1>2. ASSUME NEW w \in Workers, TryLock(w)
      PROVE  StatusKept
  BY <1>2 DEF TryLock
<1>3. ASSUME NEW w \in Workers, LockBusy(w)
      PROVE  StatusKept
  BY <1>3 DEF LockBusy
<1>4. ASSUME NEW w \in Workers, Load(w)
      PROVE  StatusKept
  BY <1>4 DEF Load, Settled
<1>5. ASSUME NEW w \in Workers, LoadSettled(w)
      PROVE  StatusKept
  BY <1>5 DEF LoadSettled, Settled
<1>6. ASSUME NEW w \in Workers, TakeClaim(w)
      PROVE  StatusKept
  BY <1>6 DEF TakeClaim
<1>7. ASSUME NEW w \in Workers, Charge(w)
      PROVE  StatusKept
  BY <1>7 DEF Charge, Chargeable, Affordable
<1>8. ASSUME NEW w \in Workers, ChargeNothing(w)
      PROVE  StatusKept
  BY <1>8 DEF ChargeNothing, Chargeable
<1>9. ASSUME NEW w \in Workers, LeaseAgain(w)
      PROVE  StatusKept
  BY <1>9 DEF LeaseAgain, TakeLease
<1>10. ASSUME NEW w \in Workers, NEW m \in Members, Select(w, m)
      PROVE  StatusKept
  BY <1>10 DEF Select, Selects, Candidates, Fixed, TakeLease
<1>11. ASSUME NEW w \in Workers, NEW m \in Members, SelectFull(w, m)
      PROVE  StatusKept
  BY <1>11 DEF SelectFull, Selects
<1>12. ASSUME NEW w \in Workers, CapacityWait(w)
      PROVE  StatusKept
  BY <1>12 DEF CapacityWait, WaitsForCapacity
<1>13. ASSUME NEW w \in Workers, Start(w)
      PROVE  StatusKept
  BY <1>13 DEF Start, StartSubmission
<1>14. ASSUME NEW w \in Workers, StartBroken(w)
      PROVE  StatusKept
  BY <1>14 DEF StartBroken, StartSubmission
<1>15. ASSUME NEW w \in Workers, StartRefused(w)
      PROVE  StatusKept
  BY <1>15 DEF StartRefused
<1>16. ASSUME NEW w \in Workers, Snapshot(w)
      PROVE  StatusKept
  BY <1>16 DEF Snapshot
<1>17. ASSUME NEW w \in Workers, SnapshotFails(w)
      PROVE  StatusKept
  BY <1>17 DEF SnapshotFails
<1>18. ASSUME NEW w \in Workers, Post(w)
      PROVE  StatusKept
  BY <1>18 DEF Post
<1>19. ASSUME NEW w \in Workers, Accepted(w)
      PROVE  StatusKept
  BY <1>19 DEF Accepted, Answered
<1>20. ASSUME NEW w \in Workers, Delivered(w)
      PROVE  StatusKept
  BY <1>20 DEF Delivered, Answered, AcceptDownload
<1>21. ASSUME NEW w \in Workers, SubmitFails(w)
      PROVE  StatusKept
  BY <1>21 DEF SubmitFails
<1>22. ASSUME NEW w \in Workers, Recover(w)
      PROVE  StatusKept
  BY <1>22 DEF Recover
<1>23. ASSUME NEW w \in Workers, MarkAttempt(w)
      PROVE  StatusKept
  BY <1>23 DEF MarkAttempt
<1>24. ASSUME NEW w \in Workers, Retry(w)
      PROVE  StatusKept
  BY <1>24 DEF Retry
<1>25. ASSUME NEW w \in Workers, Switch(w)
      PROVE  StatusKept
  BY <1>25 DEF Switch, DropOwnLease
<1>26. ASSUME NEW w \in Workers, QueryPending(w)
      PROVE  StatusKept
  BY <1>26 DEF QueryPending
<1>27. ASSUME NEW w \in Workers, QueryReady(w)
      PROVE  StatusKept
  BY <1>27 DEF QueryReady, AcceptDownload
<1>28. ASSUME NEW w \in Workers, QueryTransient(w)
      PROVE  StatusKept
  BY <1>28 DEF QueryTransient
<1>29. ASSUME NEW w \in Workers, QueryMiss(w)
      PROVE  StatusKept
  BY <1>29 DEF QueryMiss, MissedOut
<1>30. ASSUME NEW w \in Workers, Download(w)
      PROVE  StatusKept
  BY <1>30 DEF Download
<1>31. ASSUME NEW w \in Workers, Store(w)
      PROVE  StatusKept
  BY <1>31 DEF Store
<1>32. ASSUME NEW w \in Workers, Complete(w)
      PROVE  StatusKept
  BY <1>32 DEF Complete, DropOwnLease
<1>33. ASSUME NEW w \in Workers, FailFinally(w)
      PROVE  StatusKept
  BY <1>33 DEF FailFinally, Answered, WaitsForCapacity, Chargeable, Fixed
<1>34. ASSUME NEW w \in Workers, Wait(w)
      PROVE  StatusKept
  BY <1>34 DEF Wait
<1>35. ASSUME NEW w \in Workers, LeaseRefused(w)
      PROVE  StatusKept
  BY <1>35 DEF LeaseRefused
<1>36. ASSUME NEW w \in Workers, LoseClaim(w)
      PROVE  StatusKept
  BY <1>36 DEF LoseClaim, Answered, WaitsForCapacity
<1>37. ASSUME NEW w \in Workers, Fail(w)
      PROVE  StatusKept
  BY <1>37 DEF Fail, DropOwnLease
<1>38. ASSUME NEW w \in Workers, Refund(w)
      PROVE  StatusKept
  <2>1. Task(w) \in Tasks /\ stage[Task(w)] \in Failing /\ status[Task(w)] = "failed"
    BY <1>38 DEF Refund
  <2>2. status' = [status EXCEPT ![Task(w)] = "failed"]
    BY <1>38, <2>1 DEF Refund, Settle
  <2>3. QED
    BY <2>1, <2>2
<1>39. ASSUME NEW w \in Workers, Release(w)
      PROVE  StatusKept
  BY <1>39 DEF Release
<1>40. ASSUME NEW w \in Workers, Unlock(w)
      PROVE  StatusKept
  BY <1>40 DEF Unlock, DropLock, Retire
<1>41. ASSUME NEW w \in Workers, Crash(w)
      PROVE  StatusKept
  BY <1>41 DEF Crash, DropLock, Retire
<1>42. ASSUME NEW w \in Workers, Abort(w)
      PROVE  StatusKept
  BY <1>42 DEF Abort
<1>43. ASSUME NEW w \in Workers, AbortUnreleased(w)
      PROVE  StatusKept
  BY <1>43 DEF AbortUnreleased
<1>44. ASSUME NEW w \in Workers, LoseSession(w)
      PROVE  StatusKept
  BY <1>44 DEF LoseSession, DropLock
<1>45. ASSUME NEW t \in Tasks, ExpireClaim(t)
      PROVE  StatusKept
  BY <1>45 DEF ExpireClaim
<1>46. ASSUME NEW t \in Tasks, ExpireLease(t)
      PROVE  StatusKept
  BY <1>46 DEF ExpireLease
<1>47. ASSUME NEW t \in Tasks, PassDeadline(t)
      PROVE  StatusKept
  BY <1>47 DEF PassDeadline
<1>48. CASE Stabilise
  BY <1>48 DEF Stabilise
<1>49. CASE NothingDue \/ UNCHANGED vars
  BY <1>49 DEF NothingDue, vars
<1>50. QED
  BY <1>1, <1>2, <1>3, <1>4, <1>5, <1>6, <1>7, <1>8, <1>9, <1>10, <1>11,
     <1>12, <1>13, <1>14, <1>15, <1>16, <1>17, <1>18, <1>19, <1>20, <1>21,
     <1>22, <1>23, <1>24, <1>25, <1>26, <1>27, <1>28, <1>29, <1>30, <1>31,
     <1>32, <1>33, <1>34, <1>35, <1>36, <1>37, <1>38, <1>39, <1>40, <1>41,
     <1>42, <1>43, <1>44, <1>45, <1>46, <1>47, <1>48, <1>49
  DEF Next, Step, Enter, ChargeStep, LeaseStep, SubmitStep,
         QueryStep, DownloadStep, EndStep, Fault, Clock

(* What a callback reported stays true: a final status is never changed.   *)
THEOREM FinalStatus == Spec => StatusFinal
<1>1. IInv /\ [Next]_vars
        => [\A t \in Tasks : status[t] \in Final => status'[t] = status[t]]_vars
  BY StatusStep DEF StatusKept
<1>2. QED
  BY Invariance, <1>1, PTL DEF Spec, StatusFinal

-----------------------------------------------------------------------------
(* While sessions live as long as their workers, an execution past its     *)
(* try-lock holds the lock of its task.                                    *)
Locked == \A w \in Workers : wk[w].pc \notin {"idle", "lock"} => lock[Task(w)] = w

(* Every step keeps the lock with the execution that took it.              *)
LEMMA LockStep ==
  ASSUME ~SessionLoss, IInv, Locked, [Next]_vars
  PROVE  Locked'
<1> USE TasksAssumption, WorkersAssumption, MembersAssumption, LimitsAssumption
    DEF IInv, TypeOK, Locals, LocalOK, Locked,
              WorkerStates, Leases, Stages, PCs, Final, Failing, Causes, QueryMissLimit,
              taskVars, creditVars, tryVars, sharedVars, Task, Owns, Fenced, Executes,
              Become, Goto, Finish, At, Idle, NoLease, SetStage, SetStatus
<1>1. ASSUME NEW w \in Workers, NEW t \in Tasks, Claim(w, t)
      PROVE  Locked'
  BY <1>1 DEF Claim, Claimable, Settled
<1>2. ASSUME NEW w \in Workers, TryLock(w)
      PROVE  Locked'
  BY <1>2 DEF TryLock
<1>3. ASSUME NEW w \in Workers, LockBusy(w)
      PROVE  Locked'
  BY <1>3 DEF LockBusy
<1>4. ASSUME NEW w \in Workers, Load(w)
      PROVE  Locked'
  BY <1>4 DEF Load, Settled
<1>5. ASSUME NEW w \in Workers, LoadSettled(w)
      PROVE  Locked'
  BY <1>5 DEF LoadSettled, Settled
<1>6. ASSUME NEW w \in Workers, TakeClaim(w)
      PROVE  Locked'
  BY <1>6 DEF TakeClaim
<1>7. ASSUME NEW w \in Workers, Charge(w)
      PROVE  Locked'
  BY <1>7 DEF Charge, Chargeable, Affordable
<1>8. ASSUME NEW w \in Workers, ChargeNothing(w)
      PROVE  Locked'
  BY <1>8 DEF ChargeNothing, Chargeable
<1>9. ASSUME NEW w \in Workers, LeaseAgain(w)
      PROVE  Locked'
  BY <1>9 DEF LeaseAgain, TakeLease
<1>10. ASSUME NEW w \in Workers, NEW m \in Members, Select(w, m)
      PROVE  Locked'
  BY <1>10 DEF Select, Selects, Candidates, Fixed, TakeLease
<1>11. ASSUME NEW w \in Workers, NEW m \in Members, SelectFull(w, m)
      PROVE  Locked'
  BY <1>11 DEF SelectFull, Selects
<1>12. ASSUME NEW w \in Workers, CapacityWait(w)
      PROVE  Locked'
  BY <1>12 DEF CapacityWait, WaitsForCapacity
<1>13. ASSUME NEW w \in Workers, Start(w)
      PROVE  Locked'
  BY <1>13 DEF Start, StartSubmission
<1>14. ASSUME NEW w \in Workers, StartBroken(w)
      PROVE  Locked'
  BY <1>14 DEF StartBroken, StartSubmission
<1>15. ASSUME NEW w \in Workers, StartRefused(w)
      PROVE  Locked'
  BY <1>15 DEF StartRefused
<1>16. ASSUME NEW w \in Workers, Snapshot(w)
      PROVE  Locked'
  BY <1>16 DEF Snapshot
<1>17. ASSUME NEW w \in Workers, SnapshotFails(w)
      PROVE  Locked'
  BY <1>17 DEF SnapshotFails
<1>18. ASSUME NEW w \in Workers, Post(w)
      PROVE  Locked'
  BY <1>18 DEF Post
<1>19. ASSUME NEW w \in Workers, Accepted(w)
      PROVE  Locked'
  BY <1>19 DEF Accepted, Answered
<1>20. ASSUME NEW w \in Workers, Delivered(w)
      PROVE  Locked'
  BY <1>20 DEF Delivered, Answered, AcceptDownload
<1>21. ASSUME NEW w \in Workers, SubmitFails(w)
      PROVE  Locked'
  BY <1>21 DEF SubmitFails
<1>22. ASSUME NEW w \in Workers, Recover(w)
      PROVE  Locked'
  BY <1>22 DEF Recover
<1>23. ASSUME NEW w \in Workers, MarkAttempt(w)
      PROVE  Locked'
  BY <1>23 DEF MarkAttempt
<1>24. ASSUME NEW w \in Workers, Retry(w)
      PROVE  Locked'
  BY <1>24 DEF Retry
<1>25. ASSUME NEW w \in Workers, Switch(w)
      PROVE  Locked'
  BY <1>25 DEF Switch, DropOwnLease
<1>26. ASSUME NEW w \in Workers, QueryPending(w)
      PROVE  Locked'
  BY <1>26 DEF QueryPending
<1>27. ASSUME NEW w \in Workers, QueryReady(w)
      PROVE  Locked'
  BY <1>27 DEF QueryReady, AcceptDownload
<1>28. ASSUME NEW w \in Workers, QueryTransient(w)
      PROVE  Locked'
  BY <1>28 DEF QueryTransient
<1>29. ASSUME NEW w \in Workers, QueryMiss(w)
      PROVE  Locked'
  BY <1>29 DEF QueryMiss, MissedOut
<1>30. ASSUME NEW w \in Workers, Download(w)
      PROVE  Locked'
  BY <1>30 DEF Download
<1>31. ASSUME NEW w \in Workers, Store(w)
      PROVE  Locked'
  BY <1>31 DEF Store
<1>32. ASSUME NEW w \in Workers, Complete(w)
      PROVE  Locked'
  BY <1>32 DEF Complete, DropOwnLease
<1>33. ASSUME NEW w \in Workers, FailFinally(w)
      PROVE  Locked'
  BY <1>33 DEF FailFinally, Answered, WaitsForCapacity, Chargeable, Fixed
<1>34. ASSUME NEW w \in Workers, Wait(w)
      PROVE  Locked'
  BY <1>34 DEF Wait
<1>35. ASSUME NEW w \in Workers, LeaseRefused(w)
      PROVE  Locked'
  BY <1>35 DEF LeaseRefused
<1>36. ASSUME NEW w \in Workers, LoseClaim(w)
      PROVE  Locked'
  BY <1>36 DEF LoseClaim, Answered, WaitsForCapacity
<1>37. ASSUME NEW w \in Workers, Fail(w)
      PROVE  Locked'
  BY <1>37 DEF Fail, DropOwnLease
<1>38. ASSUME NEW w \in Workers, Refund(w)
      PROVE  Locked'
  BY <1>38 DEF Refund, Settle
<1>39. ASSUME NEW w \in Workers, Release(w)
      PROVE  Locked'
  BY <1>39 DEF Release
<1>40. ASSUME NEW w \in Workers, Unlock(w)
      PROVE  Locked'
  BY <1>40 DEF Unlock, DropLock, Retire
<1>41. ASSUME NEW w \in Workers, Crash(w)
      PROVE  Locked'
  BY <1>41 DEF Crash, DropLock, Retire
<1>42. ASSUME NEW w \in Workers, Abort(w)
      PROVE  Locked'
  BY <1>42 DEF Abort
<1>43. ASSUME NEW w \in Workers, AbortUnreleased(w)
      PROVE  Locked'
  BY <1>43 DEF AbortUnreleased
<1>44. ASSUME NEW w \in Workers, LoseSession(w)
      PROVE  Locked'
  BY <1>44 DEF LoseSession, DropLock
<1>45. ASSUME NEW t \in Tasks, ExpireClaim(t)
      PROVE  Locked'
  BY <1>45 DEF ExpireClaim
<1>46. ASSUME NEW t \in Tasks, ExpireLease(t)
      PROVE  Locked'
  BY <1>46 DEF ExpireLease
<1>47. ASSUME NEW t \in Tasks, PassDeadline(t)
      PROVE  Locked'
  BY <1>47 DEF PassDeadline
<1>48. CASE Stabilise
  BY <1>48 DEF Stabilise
<1>49. CASE NothingDue \/ UNCHANGED vars
  BY <1>49 DEF NothingDue, vars
<1>50. QED
  BY <1>1, <1>2, <1>3, <1>4, <1>5, <1>6, <1>7, <1>8, <1>9, <1>10, <1>11,
     <1>12, <1>13, <1>14, <1>15, <1>16, <1>17, <1>18, <1>19, <1>20, <1>21,
     <1>22, <1>23, <1>24, <1>25, <1>26, <1>27, <1>28, <1>29, <1>30, <1>31,
     <1>32, <1>33, <1>34, <1>35, <1>36, <1>37, <1>38, <1>39, <1>40, <1>41,
     <1>42, <1>43, <1>44, <1>45, <1>46, <1>47, <1>48, <1>49
  DEF Next, Step, Enter, ChargeStep, LeaseStep, SubmitStep,
         QueryStep, DownloadStep, EndStep, Fault, Clock

(* The claim of the code's comment, under the condition it needs: if no    *)
(* session is lost while its worker lives, no two live executions are ever *)
(* both about to POST, or waiting for the answer to a POST of, one task.   *)
THEOREM OnePoster == ~SessionLoss /\ Spec => []SinglePoster
<1> SUFFICES ASSUME ~SessionLoss PROVE Spec => []SinglePoster
  OBVIOUS
<1>1. Init => Locked
  BY DEF Init, Locked, Idle, At
<1>2. IInv /\ Locked /\ [Next]_vars => Locked'
  BY LockStep
<1>3. Locked => SinglePoster
  BY DEF Locked, SinglePoster
<1>4. QED
  BY Invariance, <1>1, <1>2, <1>3, PTL DEF Spec

-----------------------------------------------------------------------------
(* Money moves in three actions only.                                      *)
MoneyMoves == \E w \in Workers : Charge(w) \/ Complete(w) \/ Refund(w)
MoneyKept ==
  /\ UNCHANGED <<consumed, reserved, wallet, keyUsed, debits, refunds>>
  /\ \A t \in Tasks : /\ stage[t] = "completed" <=> stage'[t] = "completed"
                      /\ stage[t] = "failed" <=> stage'[t] = "failed"

(* Every other step leaves the money alone and settles nothing.            *)
LEMMA MoneyStep ==
  ASSUME IInv, [Next]_vars
  PROVE  MoneyMoves \/ MoneyKept
<1> USE TasksAssumption, WorkersAssumption, MembersAssumption, LimitsAssumption
    DEF IInv, TypeOK, Rows, RowOK, Locals, LocalOK, MoneyKept,
              WorkerStates, Leases, Stages, PCs, Final, Failing, Causes, QueryMissLimit,
              taskVars, creditVars, tryVars, sharedVars, Task, Owns, Fenced, Executes,
              Become, Goto, Finish, At, Idle, NoLease, SetStage, SetStatus
<1>1. ASSUME NEW w \in Workers, NEW t \in Tasks, Claim(w, t)
      PROVE  MoneyMoves \/ MoneyKept
  BY <1>1 DEF Claim, Claimable, Settled
<1>2. ASSUME NEW w \in Workers, TryLock(w)
      PROVE  MoneyMoves \/ MoneyKept
  BY <1>2 DEF TryLock
<1>3. ASSUME NEW w \in Workers, LockBusy(w)
      PROVE  MoneyMoves \/ MoneyKept
  BY <1>3 DEF LockBusy
<1>4. ASSUME NEW w \in Workers, Load(w)
      PROVE  MoneyMoves \/ MoneyKept
  BY <1>4 DEF Load, Settled
<1>5. ASSUME NEW w \in Workers, LoadSettled(w)
      PROVE  MoneyMoves \/ MoneyKept
  BY <1>5 DEF LoadSettled, Settled
<1>6. ASSUME NEW w \in Workers, TakeClaim(w)
      PROVE  MoneyMoves \/ MoneyKept
  BY <1>6 DEF TakeClaim
<1>7. ASSUME NEW w \in Workers, Charge(w)
      PROVE  MoneyMoves \/ MoneyKept
  BY <1>7 DEF MoneyMoves
<1>8. ASSUME NEW w \in Workers, ChargeNothing(w)
      PROVE  MoneyMoves \/ MoneyKept
  BY <1>8 DEF ChargeNothing, Chargeable
<1>9. ASSUME NEW w \in Workers, LeaseAgain(w)
      PROVE  MoneyMoves \/ MoneyKept
  BY <1>9 DEF LeaseAgain, TakeLease
<1>10. ASSUME NEW w \in Workers, NEW m \in Members, Select(w, m)
      PROVE  MoneyMoves \/ MoneyKept
  BY <1>10 DEF Select, Selects, Candidates, Fixed, TakeLease
<1>11. ASSUME NEW w \in Workers, NEW m \in Members, SelectFull(w, m)
      PROVE  MoneyMoves \/ MoneyKept
  BY <1>11 DEF SelectFull, Selects
<1>12. ASSUME NEW w \in Workers, CapacityWait(w)
      PROVE  MoneyMoves \/ MoneyKept
  BY <1>12 DEF CapacityWait, WaitsForCapacity
<1>13. ASSUME NEW w \in Workers, Start(w)
      PROVE  MoneyMoves \/ MoneyKept
  BY <1>13 DEF Start, StartSubmission
<1>14. ASSUME NEW w \in Workers, StartBroken(w)
      PROVE  MoneyMoves \/ MoneyKept
  BY <1>14 DEF StartBroken, StartSubmission
<1>15. ASSUME NEW w \in Workers, StartRefused(w)
      PROVE  MoneyMoves \/ MoneyKept
  BY <1>15 DEF StartRefused
<1>16. ASSUME NEW w \in Workers, Snapshot(w)
      PROVE  MoneyMoves \/ MoneyKept
  BY <1>16 DEF Snapshot
<1>17. ASSUME NEW w \in Workers, SnapshotFails(w)
      PROVE  MoneyMoves \/ MoneyKept
  BY <1>17 DEF SnapshotFails
<1>18. ASSUME NEW w \in Workers, Post(w)
      PROVE  MoneyMoves \/ MoneyKept
  BY <1>18 DEF Post
<1>19. ASSUME NEW w \in Workers, Accepted(w)
      PROVE  MoneyMoves \/ MoneyKept
  BY <1>19 DEF Accepted, Answered
<1>20. ASSUME NEW w \in Workers, Delivered(w)
      PROVE  MoneyMoves \/ MoneyKept
  BY <1>20 DEF Delivered, Answered, AcceptDownload
<1>21. ASSUME NEW w \in Workers, SubmitFails(w)
      PROVE  MoneyMoves \/ MoneyKept
  BY <1>21 DEF SubmitFails
<1>22. ASSUME NEW w \in Workers, Recover(w)
      PROVE  MoneyMoves \/ MoneyKept
  BY <1>22 DEF Recover
<1>23. ASSUME NEW w \in Workers, MarkAttempt(w)
      PROVE  MoneyMoves \/ MoneyKept
  BY <1>23 DEF MarkAttempt
<1>24. ASSUME NEW w \in Workers, Retry(w)
      PROVE  MoneyMoves \/ MoneyKept
  BY <1>24 DEF Retry
<1>25. ASSUME NEW w \in Workers, Switch(w)
      PROVE  MoneyMoves \/ MoneyKept
  BY <1>25 DEF Switch, DropOwnLease
<1>26. ASSUME NEW w \in Workers, QueryPending(w)
      PROVE  MoneyMoves \/ MoneyKept
  BY <1>26 DEF QueryPending
<1>27. ASSUME NEW w \in Workers, QueryReady(w)
      PROVE  MoneyMoves \/ MoneyKept
  BY <1>27 DEF QueryReady, AcceptDownload
<1>28. ASSUME NEW w \in Workers, QueryTransient(w)
      PROVE  MoneyMoves \/ MoneyKept
  BY <1>28 DEF QueryTransient
<1>29. ASSUME NEW w \in Workers, QueryMiss(w)
      PROVE  MoneyMoves \/ MoneyKept
  BY <1>29 DEF QueryMiss, MissedOut
<1>30. ASSUME NEW w \in Workers, Download(w)
      PROVE  MoneyMoves \/ MoneyKept
  BY <1>30 DEF Download
<1>31. ASSUME NEW w \in Workers, Store(w)
      PROVE  MoneyMoves \/ MoneyKept
  BY <1>31 DEF Store
<1>32. ASSUME NEW w \in Workers, Complete(w)
      PROVE  MoneyMoves \/ MoneyKept
  BY <1>32 DEF MoneyMoves
<1>33. ASSUME NEW w \in Workers, FailFinally(w)
      PROVE  MoneyMoves \/ MoneyKept
  BY <1>33 DEF FailFinally, Answered, WaitsForCapacity, Chargeable, Fixed
<1>34. ASSUME NEW w \in Workers, Wait(w)
      PROVE  MoneyMoves \/ MoneyKept
  BY <1>34 DEF Wait
<1>35. ASSUME NEW w \in Workers, LeaseRefused(w)
      PROVE  MoneyMoves \/ MoneyKept
  BY <1>35 DEF LeaseRefused
<1>36. ASSUME NEW w \in Workers, LoseClaim(w)
      PROVE  MoneyMoves \/ MoneyKept
  BY <1>36 DEF LoseClaim, Answered, WaitsForCapacity
<1>37. ASSUME NEW w \in Workers, Fail(w)
      PROVE  MoneyMoves \/ MoneyKept
  BY <1>37 DEF Fail, DropOwnLease
<1>38. ASSUME NEW w \in Workers, Refund(w)
      PROVE  MoneyMoves \/ MoneyKept
  BY <1>38 DEF MoneyMoves
<1>39. ASSUME NEW w \in Workers, Release(w)
      PROVE  MoneyMoves \/ MoneyKept
  BY <1>39 DEF Release
<1>40. ASSUME NEW w \in Workers, Unlock(w)
      PROVE  MoneyMoves \/ MoneyKept
  BY <1>40 DEF Unlock, DropLock, Retire
<1>41. ASSUME NEW w \in Workers, Crash(w)
      PROVE  MoneyMoves \/ MoneyKept
  BY <1>41 DEF Crash, DropLock, Retire
<1>42. ASSUME NEW w \in Workers, Abort(w)
      PROVE  MoneyMoves \/ MoneyKept
  BY <1>42 DEF Abort
<1>43. ASSUME NEW w \in Workers, AbortUnreleased(w)
      PROVE  MoneyMoves \/ MoneyKept
  BY <1>43 DEF AbortUnreleased
<1>44. ASSUME NEW w \in Workers, LoseSession(w)
      PROVE  MoneyMoves \/ MoneyKept
  BY <1>44 DEF LoseSession, DropLock
<1>45. ASSUME NEW t \in Tasks, ExpireClaim(t)
      PROVE  MoneyMoves \/ MoneyKept
  BY <1>45 DEF ExpireClaim
<1>46. ASSUME NEW t \in Tasks, ExpireLease(t)
      PROVE  MoneyMoves \/ MoneyKept
  BY <1>46 DEF ExpireLease
<1>47. ASSUME NEW t \in Tasks, PassDeadline(t)
      PROVE  MoneyMoves \/ MoneyKept
  BY <1>47 DEF PassDeadline
<1>48. CASE Stabilise
  BY <1>48 DEF Stabilise
<1>49. CASE NothingDue \/ UNCHANGED vars
  BY <1>49 DEF NothingDue, vars
<1>50. QED
  BY <1>1, <1>2, <1>3, <1>4, <1>5, <1>6, <1>7, <1>8, <1>9, <1>10, <1>11,
     <1>12, <1>13, <1>14, <1>15, <1>16, <1>17, <1>18, <1>19, <1>20, <1>21,
     <1>22, <1>23, <1>24, <1>25, <1>26, <1>27, <1>28, <1>29, <1>30, <1>31,
     <1>32, <1>33, <1>34, <1>35, <1>36, <1>37, <1>38, <1>39, <1>40, <1>41,
     <1>42, <1>43, <1>44, <1>45, <1>46, <1>47, <1>48, <1>49
  DEF Next, Step, Enter, ChargeStep, LeaseStep, SubmitStep,
         QueryStep, DownloadStep, EndStep, Fault, Clock

(* chargeVideoTask takes one credit of an affordable, unpaid task.         *)
LEMMA ChargeEffect ==
  ASSUME IInv, NEW w \in Workers, Charge(w)
  PROVE  \E t \in Tasks :
           /\ stage[t] = "created" /\ Unpaid(t) /\ wallet >= 1 /\ keyUsed < KeyLimit
           /\ stage' = [stage EXCEPT ![t] = "charged"]
           /\ consumed' = [consumed EXCEPT ![t] = TRUE]
           /\ reserved' = [reserved EXCEPT ![t] = TRUE]
           /\ debits' = [debits EXCEPT ![t] = 1] /\ refunds' = refunds
           /\ wallet' = wallet - 1 /\ keyUsed' = keyUsed + 1
<1> DEFINE t == Task(w)
<1>1. t \in Tasks
  BY DEF IInv, Locals, LocalOK, Charge, Executes, Task
<1>2. stage[t] = "created" /\ Affordable(t)
  BY DEF Charge, Chargeable
<1>3. Unpaid(t) /\ debits[t] = 0
  BY <1>1, <1>2 DEF IInv, Rows, RowOK, Unpaid
<1>4. wallet >= 1 /\ keyUsed < KeyLimit
  BY <1>2, <1>3 DEF Affordable
<1>5. wallet' = wallet + debits[t] - 1 /\ keyUsed' = keyUsed + 1 - debits[t]
  BY DEF Charge
<1>6. wallet \in Nat /\ keyUsed \in Nat
  BY DEF IInv, TypeOK
<1>7. wallet' = wallet - 1 /\ keyUsed' = keyUsed + 1
  BY <1>3, <1>5, <1>6
<1>8. /\ stage' = [stage EXCEPT ![t] = "charged"] /\ refunds' = refunds
      /\ consumed' = [consumed EXCEPT ![t] = TRUE]
      /\ reserved' = [reserved EXCEPT ![t] = TRUE]
      /\ debits' = [debits EXCEPT ![t] = 1]
  BY DEF Charge, SetStage
<1>9. QED
  BY <1>1, <1>2, <1>3, <1>4, <1>7, <1>8

(* A completion turns the reservation of a paid task into its price.       *)
LEMMA CompleteEffect ==
  ASSUME IInv, NEW w \in Workers, Complete(w)
  PROVE  \E t \in Tasks :
           /\ stage[t] = "downloading" /\ Paid(t)
           /\ stage' = [stage EXCEPT ![t] = "completed"]
           /\ reserved' = [reserved EXCEPT ![t] = FALSE]
           /\ UNCHANGED <<consumed, debits, refunds, wallet, keyUsed>>
<1> DEFINE t == Task(w)
<1>1. t \in Tasks
  BY DEF IInv, Locals, LocalOK, Complete, Task
<1>2. stage[t] = "downloading"
  BY DEF IInv, Locals, LocalOK, Complete, Fenced
<1>3. Paid(t)
  BY <1>1, <1>2 DEF IInv, Rows, RowOK
<1>4. /\ stage' = [stage EXCEPT ![t] = "completed"]
      /\ reserved' = [reserved EXCEPT ![t] = FALSE]
      /\ UNCHANGED <<consumed, debits, refunds, wallet, keyUsed>>
  BY DEF Complete, SetStage
<1>5. QED
  BY <1>1, <1>2, <1>3, <1>4

(* refundVideoTask returns the credit of a paid task, once, and only closes*)
(* a task that paid nothing or has its refund.                             *)
LEMMA RefundEffect ==
  ASSUME IInv, NEW w \in Workers, Refund(w)
  PROVE  \E t \in Tasks :
           /\ stage[t] \in Failing
           /\ stage' = [stage EXCEPT ![t] = "failed"]
           /\ consumed' = [consumed EXCEPT ![t] = FALSE]
           /\ reserved' = [reserved EXCEPT ![t] = FALSE]
           /\ debits' = debits
           /\ \/ /\ stage[t] = "refunding" /\ Paid(t)
                 /\ refunds' = [refunds EXCEPT ![t] = 1]
                 /\ wallet' = wallet + 1
                 /\ keyUsed' = IF keyUsed > 0 THEN keyUsed - 1 ELSE 0
              \/ /\ stage[t] = "failed" \/ Unpaid(t)
                 /\ ~consumed[t] /\ ~reserved[t]
                 /\ UNCHANGED <<refunds, wallet, keyUsed>>
<1> DEFINE t == Task(w)
<1>1. t \in Tasks /\ stage[t] \in Failing
  BY DEF IInv, Locals, LocalOK, Refund, Executes, Task, Failing
<1>2. Settle(t) /\ debits' = debits
  BY <1>1 DEF Refund, Failing
<1>3. /\ stage' = [stage EXCEPT ![t] = "failed"]
      /\ consumed' = [consumed EXCEPT ![t] = FALSE]
      /\ reserved' = [reserved EXCEPT ![t] = FALSE]
  BY <1>2 DEF Settle
<1>4. \/ stage[t] = "refunding" /\ Paid(t)
      \/ (stage[t] = "failed" \/ Unpaid(t)) /\ ~consumed[t] /\ ~reserved[t]
  BY <1>1 DEF IInv, Rows, RowOK, Unpaid, Failing
<1>5. CASE stage[t] = "refunding" /\ Paid(t)
  <2>1. consumed[t] /\ reserved[t] /\ refunds[t] = 0 /\ wallet \in Nat
    BY <1>5 DEF Paid, IInv, TypeOK
  <2>2. /\ wallet' = wallet + 1 - refunds[t] /\ refunds' = [refunds EXCEPT ![t] = 1]
        /\ keyUsed' = IF keyUsed > 0 THEN keyUsed - 1 ELSE 0
    BY <1>2, <2>1 DEF Settle
  <2>3. wallet' = wallet + 1
    BY <2>1, <2>2
  <2>4. QED
    BY <1>1, <1>2, <1>3, <1>5, <2>2, <2>3
<1>6. CASE (stage[t] = "failed" \/ Unpaid(t)) /\ ~consumed[t] /\ ~reserved[t]
  <2>1. UNCHANGED <<refunds, wallet, keyUsed>>
    BY <1>2, <1>6 DEF Settle
  <2>2. QED
    BY <1>1, <1>2, <1>3, <1>6, <2>1
<1>7. QED
  BY <1>4, <1>5, <1>6

-----------------------------------------------------------------------------
(* A wallet balance that holds stays so.                                   *)
LEMMA WalletStep ==
  ASSUME IInv, WalletBalanced, [Next]_vars
  PROVE  WalletBalanced'
<1>1. IsFiniteSet(Charged) /\ Cardinality(Charged) \in Nat
  BY TasksAssumption, FS_Subset, FS_CardinalityType DEF Charged
<1>2. wallet \in Nat /\ Balance \in Nat /\ consumed \in [Tasks -> BOOLEAN]
  BY LimitsAssumption DEF IInv, TypeOK
<1>3. CASE MoneyKept
  BY <1>3 DEF MoneyKept, WalletBalanced, Charged
<1>4. ASSUME NEW w \in Workers, Charge(w)
      PROVE  WalletBalanced'
  <2>1. PICK t \in Tasks : /\ Unpaid(t) /\ wallet' = wallet - 1
                           /\ consumed' = [consumed EXCEPT ![t] = TRUE]
    BY <1>4, ChargeEffect
  <2>2. t \notin Charged /\ Charged' = Charged \cup {t}
    BY <1>2, <2>1 DEF Charged, Unpaid
  <2>3. Cardinality(Charged') = Cardinality(Charged) + 1
    BY <1>1, <2>2, FS_AddElement
  <2>4. QED
    BY <1>1, <1>2, <2>1, <2>3 DEF WalletBalanced
<1>5. ASSUME NEW w \in Workers, Complete(w)
      PROVE  WalletBalanced'
  <2>1. UNCHANGED <<consumed, wallet>>
    BY <1>5, CompleteEffect
  <2>2. QED
    BY <2>1 DEF WalletBalanced, Charged
<1>6. ASSUME NEW w \in Workers, Refund(w)
      PROVE  WalletBalanced'
  <2>1. PICK t \in Tasks :
          /\ consumed' = [consumed EXCEPT ![t] = FALSE]
          /\ \/ Paid(t) /\ wallet' = wallet + 1
             \/ ~consumed[t] /\ wallet' = wallet
    BY <1>6, RefundEffect
  <2>2. Charged' = Charged \ {t}
    BY <1>2, <2>1 DEF Charged
  <2>3. CASE Paid(t) /\ wallet' = wallet + 1
    <3>1. t \in Charged
      BY <2>3 DEF Charged, Paid
    <3>2. Cardinality(Charged') = Cardinality(Charged) - 1
      BY <1>1, <2>2, <3>1, FS_RemoveElement
    <3>3. QED
      BY <1>1, <1>2, <2>3, <3>2 DEF WalletBalanced
  <2>4. CASE ~consumed[t] /\ wallet' = wallet
    <3>1. Charged' = Charged
      BY <2>2, <2>4 DEF Charged
    <3>2. QED
      BY <2>4, <3>1 DEF WalletBalanced
  <2>5. QED
    BY <2>1, <2>3, <2>4
<1>7. QED
  BY <1>3, <1>4, <1>5, <1>6, MoneyStep DEF MoneyMoves

(* Credits are neither created nor lost.                                   *)
THEOREM CreditsConserved == Spec => []WalletBalanced
<1>1. Init => WalletBalanced
  <2> SUFFICES ASSUME Init PROVE WalletBalanced
    OBVIOUS
  <2>1. Charged = {} /\ wallet = Balance
    BY DEF Init, Charged
  <2>2. Cardinality(Charged) = 0
    BY <2>1, FS_EmptySet
  <2>3. QED
    BY <2>1, <2>2, LimitsAssumption DEF WalletBalanced
<1>2. IInv /\ WalletBalanced /\ [Next]_vars => WalletBalanced'
  BY WalletStep
<1>3. QED
  BY Invariance, <1>1, <1>2, PTL DEF Spec

(* The key's counter follows the tasks it is billed for.                   *)
LEMMA KeyStep ==
  ASSUME IInv, KeyBalanced, [Next]_vars
  PROVE  KeyBalanced'
<1>1. IsFiniteSet(Billed) /\ Cardinality(Billed) \in Nat
  BY TasksAssumption, FS_Subset, FS_CardinalityType DEF Billed
<1>2. /\ keyUsed \in Nat /\ KeyLimit \in Nat
      /\ reserved \in [Tasks -> BOOLEAN] /\ stage \in [Tasks -> Stages]
  BY LimitsAssumption DEF IInv, TypeOK
<1>3. CASE MoneyKept
  <2>1. Billed' = Billed /\ keyUsed' = keyUsed
    BY <1>3 DEF MoneyKept, Billed
  <2>2. QED
    BY <2>1 DEF KeyBalanced
<1>4. ASSUME NEW w \in Workers, Charge(w)
      PROVE  KeyBalanced'
  <2>1. PICK t \in Tasks : /\ stage[t] = "created" /\ Unpaid(t)
                           /\ keyUsed < KeyLimit /\ keyUsed' = keyUsed + 1
                           /\ stage' = [stage EXCEPT ![t] = "charged"]
                           /\ reserved' = [reserved EXCEPT ![t] = TRUE]
    BY <1>4, ChargeEffect
  <2>2. t \notin Billed /\ Billed' = Billed \cup {t}
    BY <1>2, <2>1 DEF Billed, Unpaid
  <2>3. Cardinality(Billed') = Cardinality(Billed) + 1
    BY <1>1, <2>2, FS_AddElement
  <2>4. QED
    BY <1>1, <1>2, <2>1, <2>3 DEF KeyBalanced
<1>5. ASSUME NEW w \in Workers, Complete(w)
      PROVE  KeyBalanced'
  <2>1. PICK t \in Tasks : /\ Paid(t) /\ keyUsed' = keyUsed
                           /\ stage' = [stage EXCEPT ![t] = "completed"]
                           /\ reserved' = [reserved EXCEPT ![t] = FALSE]
    BY <1>5, CompleteEffect
  <2>2. Billed' = Billed
    BY <1>2, <2>1 DEF Billed, Paid
  <2>3. QED
    BY <2>1, <2>2 DEF KeyBalanced
<1>6. ASSUME NEW w \in Workers, Refund(w)
      PROVE  KeyBalanced'
  <2>1. PICK t \in Tasks :
          /\ stage[t] \in Failing
          /\ stage' = [stage EXCEPT ![t] = "failed"]
          /\ reserved' = [reserved EXCEPT ![t] = FALSE]
          /\ \/ Paid(t) /\ keyUsed' = IF keyUsed > 0 THEN keyUsed - 1 ELSE 0
             \/ ~reserved[t] /\ keyUsed' = keyUsed
    BY <1>6, RefundEffect
  <2>2. Billed' = Billed \ {t}
    BY <1>2, <2>1 DEF Billed, Failing
  <2>3. CASE Paid(t) /\ keyUsed' = IF keyUsed > 0 THEN keyUsed - 1 ELSE 0
    <3>1. t \in Billed
      BY <2>3 DEF Billed, Paid
    <3>2. Cardinality(Billed') = Cardinality(Billed) - 1
      BY <1>1, <2>2, <3>1, FS_RemoveElement
    <3>3. Billed # {}
      BY <3>1
    <3>4. Cardinality(Billed) # 0
      BY <1>1, <3>3, FS_EmptySet
    <3>5. QED
      BY <1>1, <1>2, <2>3, <3>2, <3>4 DEF KeyBalanced
  <2>4. CASE ~reserved[t] /\ keyUsed' = keyUsed
    <3>1. Billed' = Billed
      BY <2>1, <2>2, <2>4 DEF Billed, Failing
    <3>2. QED
      BY <2>4, <3>1 DEF KeyBalanced
  <2>5. QED
    BY <2>1, <2>3, <2>4
<1>7. QED
  BY <1>3, <1>4, <1>5, <1>6, MoneyStep DEF MoneyMoves

(* The key pays for exactly its running and completed tasks, within limit. *)
THEOREM KeyAccounted == Spec => []KeyBalanced
<1>1. Init => KeyBalanced
  <2> SUFFICES ASSUME Init PROVE KeyBalanced
    OBVIOUS
  <2>1. Billed = {} /\ keyUsed = 0
    BY DEF Init, Billed
  <2>2. Cardinality(Billed) = 0
    BY <2>1, FS_EmptySet
  <2>3. QED
    BY <2>1, <2>2, LimitsAssumption DEF KeyBalanced
<1>2. IInv /\ KeyBalanced /\ [Next]_vars => KeyBalanced'
  BY KeyStep
<1>3. QED
  BY Invariance, <1>1, <1>2, PTL DEF Spec

-----------------------------------------------------------------------------
(* Refinement: every step of the worker is one step of the abstract        *)
(* settlement, or changes neither phase, wallet nor key.                   *)
LEMMA SettlementStep ==
  ASSUME IInv, KeyBalanced, [Next]_vars
  PROVE  [Settlement!Next]_<<[t \in Tasks |-> Phase(t)], wallet, keyUsed>>
<1> DEFINE phase == [t \in Tasks |-> Phase(t)]
<1>1. /\ wallet \in Nat /\ keyUsed \in Nat /\ KeyLimit \in Nat
      /\ stage \in [Tasks -> Stages]
      /\ debits \in [Tasks -> Nat]
  BY LimitsAssumption DEF IInv, TypeOK
<1>2. CASE MoneyKept
  <2>1. \A t \in Tasks : Phase(t)' = Phase(t)
    BY <1>2 DEF MoneyKept, Phase, Final
  <2>2. phase' = phase
    BY <2>1
  <2>3. QED
    BY <1>2, <2>2 DEF MoneyKept
<1>3. ASSUME NEW w \in Workers, Charge(w)
      PROVE  Settlement!Next
  <2>1. PICK t \in Tasks :
           /\ stage[t] = "created" /\ Unpaid(t) /\ wallet >= 1 /\ keyUsed < KeyLimit
           /\ stage' = [stage EXCEPT ![t] = "charged"]
           /\ debits' = [debits EXCEPT ![t] = 1]
           /\ wallet' = wallet - 1 /\ keyUsed' = keyUsed + 1
    BY <1>3, ChargeEffect
  <2>2. Phase(t) = "quoted" /\ Phase(t)' = "charged"
    BY <1>1, <2>1 DEF Phase, Unpaid, Final
  <2>3. \A u \in Tasks \ {t} : Phase(u)' = Phase(u)
    BY <1>1, <2>1 DEF Phase
  <2>4. phase' = [phase EXCEPT ![t] = "charged"]
    BY <2>2, <2>3
  <2>5. Settlement!ChargeTask(t)
    BY <1>1, <2>1, <2>2, <2>4 DEF Settlement!ChargeTask
  <2>6. QED
    BY <2>5 DEF Settlement!Next
<1>4. ASSUME NEW w \in Workers, Complete(w)
      PROVE  Settlement!Next
  <2>1. PICK t \in Tasks : /\ stage[t] = "downloading" /\ Paid(t)
                           /\ stage' = [stage EXCEPT ![t] = "completed"]
                           /\ UNCHANGED <<debits, wallet, keyUsed>>
    BY <1>4, CompleteEffect
  <2>2. Phase(t) = "charged" /\ Phase(t)' = "delivered"
    BY <1>1, <2>1 DEF Phase, Paid, Final
  <2>3. \A u \in Tasks \ {t} : Phase(u)' = Phase(u)
    BY <1>1, <2>1 DEF Phase
  <2>4. phase' = [phase EXCEPT ![t] = "delivered"]
    BY <2>2, <2>3
  <2>5. Settlement!Deliver(t)
    BY <2>1, <2>2, <2>4 DEF Settlement!Deliver
  <2>6. QED
    BY <2>5 DEF Settlement!Next
<1>5. ASSUME NEW w \in Workers, Refund(w)
      PROVE  Settlement!Next \/ UNCHANGED <<phase, wallet, keyUsed>>
  <2>1. PICK t \in Tasks :
           /\ stage[t] \in Failing
           /\ stage' = [stage EXCEPT ![t] = "failed"]
           /\ debits' = debits
           /\ \/ /\ stage[t] = "refunding" /\ Paid(t)
                 /\ wallet' = wallet + 1
                 /\ keyUsed' = IF keyUsed > 0 THEN keyUsed - 1 ELSE 0
              \/ /\ stage[t] = "failed" \/ Unpaid(t)
                 /\ UNCHANGED <<wallet, keyUsed>>
    BY <1>5, RefundEffect
  <2>2. \A u \in Tasks \ {t} : Phase(u)' = Phase(u)
    BY <1>1, <2>1 DEF Phase
  <2>3. CASE /\ stage[t] = "refunding" /\ Paid(t)
             /\ wallet' = wallet + 1
             /\ keyUsed' = IF keyUsed > 0 THEN keyUsed - 1 ELSE 0
    <3>1. Phase(t) = "charged" /\ Phase(t)' = "refunded"
      BY <1>1, <2>1, <2>3 DEF Phase, Paid, Final
    <3>2. phase' = [phase EXCEPT ![t] = "refunded"]
      BY <2>2, <3>1
    <3>3. t \in Billed /\ IsFiniteSet(Billed)
      BY <2>3, TasksAssumption, FS_Subset DEF Billed, Paid
    <3>4. keyUsed > 0
      BY <1>1, <3>3, FS_EmptySet DEF KeyBalanced
    <3>5. Settlement!RefundTask(t)
      BY <2>3, <3>1, <3>2, <3>4 DEF Settlement!RefundTask
    <3>6. QED
      BY <3>5 DEF Settlement!Next
  <2>4. CASE stage[t] = "failed" /\ UNCHANGED <<wallet, keyUsed>>
    <3>1. Phase(t)' = Phase(t)
      BY <1>1, <2>1, <2>4 DEF Phase
    <3>2. phase' = phase
      BY <2>2, <3>1
    <3>3. QED
      BY <2>4, <3>2
  <2>5. CASE stage[t] = "refunding" /\ Unpaid(t) /\ UNCHANGED <<wallet, keyUsed>>
    <3>1. Phase(t) = "quoted" /\ Phase(t)' = "rejected"
      BY <1>1, <2>1, <2>5 DEF Phase, Unpaid, Final
    <3>2. phase' = [phase EXCEPT ![t] = "rejected"]
      BY <2>2, <3>1
    <3>3. Settlement!Reject(t)
      BY <2>5, <3>1, <3>2 DEF Settlement!Reject
    <3>4. QED
      BY <3>3 DEF Settlement!Next
  <2>6. QED
    BY <2>1, <2>3, <2>4, <2>5 DEF Failing
<1>6. QED
  BY <1>2, <1>3, <1>4, <1>5, MoneyStep DEF MoneyMoves

(* The worker implements TaskSettlement: a task is charged once or         *)
(* rejected, and a charged one is delivered or refunded in full.           *)
THEOREM SettlementImplemented == Spec => ImplementsSettlement
<1>1. Init => Settlement!Init
  <2> SUFFICES ASSUME Init PROVE Settlement!Init
    OBVIOUS
  <2>1. \A t \in Tasks : Phase(t) = "quoted"
    BY DEF Init, Phase, Final
  <2>2. QED
    BY <2>1 DEF Init, Settlement!Init
<1>2. IInv /\ KeyBalanced /\ [Next]_vars
        => [Settlement!Next]_<<[t \in Tasks |-> Phase(t)], wallet, keyUsed>>
  BY SettlementStep
<1>3. QED
  BY Invariance, KeyAccounted, <1>1, <1>2, PTL DEF Spec, ImplementsSettlement, Settlement!Spec

-----------------------------------------------------------------------------
(* Leases are taken at a member that has room, and else only given up.     *)
LeasesShrink == \A t \in Tasks : lease'[t].member \in {lease[t].member, None}
LeaseTaken == \E t \in Tasks, m \in Members, w \in Workers :
  /\ Cardinality({u \in Tasks \ {t} : lease[u].member = m}) < Capacity[m]
  /\ lease' = [lease EXCEPT ![t] = [member |-> m, owner |-> w]]

LEMMA LeaseEffect ==
  ASSUME IInv, [Next]_vars
  PROVE  LeaseTaken \/ LeasesShrink
<1> USE WorkersAssumption, MembersAssumption DEF IInv, TypeOK, Leases, NoLease
<1>1. ASSUME lease' = lease PROVE LeasesShrink
  BY <1>1 DEF LeasesShrink
<1>2. ASSUME NEW w \in Workers, wk[w].pc # "idle" PROVE Task(w) \in Tasks
  BY <1>2 DEF Locals, LocalOK, Task
<1>3. ASSUME NEW w \in Workers, LeaseAgain(w) PROVE LeaseTaken
  <2>1. Task(w) \in Tasks /\ wk[w].member \in Members
    BY <1>2, <1>3 DEF LeaseAgain, Executes, Locals, LocalOK, Task
  <2>2. QED
    BY <1>3, <2>1 DEF LeaseAgain, HasRoom, TakeLease, LeaseTaken
<1>4. ASSUME NEW w \in Workers, NEW m \in Members, Select(w, m) PROVE LeaseTaken
  <2>1. Task(w) \in Tasks
    BY <1>2, <1>4 DEF Select, Selects, Executes
  <2>2. QED
    BY <1>4, <2>1 DEF Select, HasRoom, TakeLease, LeaseTaken
<1>5. ASSUME NEW w \in Workers, DropOwnLease(w) PROVE LeasesShrink
  BY <1>5 DEF DropOwnLease, LeasesShrink
<1>6. ASSUME NEW w \in Workers, Retire(w) PROVE LeasesShrink
  BY <1>6 DEF Retire, LeasesShrink
<1>7. ASSUME NEW w \in Workers, Refund(w) PROVE LeasesShrink
  <2>1. lease' = lease \/ lease' = [lease EXCEPT ![Task(w)] = NoLease]
    BY <1>7 DEF Refund, Settle
  <2>2. ASSUME lease' = [lease EXCEPT ![Task(w)] = NoLease] PROVE LeasesShrink
    BY <2>2 DEF LeasesShrink
  <2>3. QED
    BY <1>1, <2>1, <2>2
<1>8. ASSUME NEW t \in Tasks, Clock(t) PROVE LeasesShrink
  BY <1>1, <1>8 DEF Clock, ExpireClaim, ExpireLease, PassDeadline, LeasesShrink
<1>9. ASSUME NEW w \in Workers, Enter(w) \/ ChargeStep(w) \/ QueryStep(w) PROVE lease' = lease
  BY <1>9 DEF Enter, TryLock, LockBusy, Load, LoadSettled, TakeClaim, ChargeStep, Charge,
     ChargeNothing, QueryStep, QueryPending, QueryReady, AcceptDownload, QueryTransient,
     QueryMiss, sharedVars
<1>10. ASSUME NEW w \in Workers, LeaseStep(w) PROVE LeaseTaken \/ LeasesShrink
  BY <1>1, <1>3, <1>4, <1>10 DEF LeaseStep, CapacityWait, SelectFull, sharedVars
<1>11. ASSUME NEW w \in Workers, SubmitStep(w) PROVE LeasesShrink
  BY <1>1, <1>5, <1>11 DEF SubmitStep, Start, StartBroken, StartRefused, Snapshot,
     SnapshotFails, Post, Accepted, Delivered, AcceptDownload, SubmitFails, Recover,
     MarkAttempt, Retry, Switch, sharedVars
<1>12. ASSUME NEW w \in Workers, DownloadStep(w) PROVE LeasesShrink
  BY <1>1, <1>5, <1>12 DEF DownloadStep, Download, Store, Complete, sharedVars
<1>13. ASSUME NEW w \in Workers, EndStep(w) PROVE LeasesShrink
  BY <1>1, <1>5, <1>6, <1>7, <1>13 DEF EndStep, FailFinally, Wait, LeaseRefused, LoseClaim,
     Fail, Release, Unlock, sharedVars
<1>14. ASSUME NEW w \in Workers, Fault(w) PROVE LeasesShrink
  BY <1>1, <1>6, <1>14 DEF Fault, Crash, Abort, AbortUnreleased, LoseSession, sharedVars
<1>15. ASSUME NEW w \in Workers, NEW t \in Tasks, Claim(w, t) PROVE LeasesShrink
  BY <1>1, <1>15 DEF Claim
<1>16. CASE Stabilise \/ NothingDue \/ UNCHANGED vars
  BY <1>1, <1>16 DEF Stabilise, NothingDue, vars, sharedVars
<1>17. QED
  BY <1>1, <1>8, <1>9, <1>10, <1>11, <1>12, <1>13, <1>14, <1>15, <1>16 DEF Next, Step

(* Whatever tasks, crashes and takeovers there are, the unexpired leases   *)
(* of a member never exceed its concurrency.                               *)
THEOREM CapacityBound == Spec => []CapacityRespected
<1> DEFINE Holders(m) == {t \in Tasks : lease[t].member = m}
<1>1. Init => CapacityRespected
  <2> SUFFICES ASSUME Init, NEW m \in Members PROVE Cardinality(Holders(m)) <= Capacity[m]
    BY DEF CapacityRespected
  <2>1. Holders(m) = {}
    BY MembersAssumption DEF Init, NoLease
  <2>2. Cardinality(Holders(m)) = 0
    BY <2>1, FS_EmptySet
  <2>3. Capacity[m] \in Nat
    BY LimitsAssumption
  <2>4. QED
    BY <2>2, <2>3
<1>2. IInv /\ CapacityRespected /\ [Next]_vars => CapacityRespected'
  <2> SUFFICES ASSUME IInv, CapacityRespected, [Next]_vars, NEW m \in Members
               PROVE  Cardinality(Holders(m)') <= Capacity[m]
    BY DEF CapacityRespected
  <2>1. Cardinality(Holders(m)) <= Capacity[m] /\ Capacity[m] \in Nat
    BY LimitsAssumption DEF CapacityRespected
  <2>2. IsFiniteSet(Holders(m))
    BY TasksAssumption, FS_Subset
  <2>3. CASE Holders(m)' \subseteq Holders(m)
    <3>1. Cardinality(Holders(m)') <= Cardinality(Holders(m)) /\ IsFiniteSet(Holders(m)')
      BY <2>2, <2>3, FS_Subset
    <3>2. QED
      BY <2>1, <2>2, <3>1, FS_CardinalityType
  <2>4. CASE LeasesShrink
    BY <2>3, <2>4, MembersAssumption DEF LeasesShrink
  <2>5. ASSUME NEW t \in Tasks, NEW n \in Members, NEW w \in Workers,
               Cardinality({u \in Tasks \ {t} : lease[u].member = n}) < Capacity[n],
               lease' = [lease EXCEPT ![t] = [member |-> n, owner |-> w]]
        PROVE  Cardinality(Holders(m)') <= Capacity[m]
    <3> DEFINE Others == {u \in Tasks \ {t} : lease[u].member = m}
    <3>1. lease \in [Tasks -> Leases]
      BY DEF IInv, TypeOK
    <3>2. CASE n # m
      BY <2>3, <2>5, <3>1, <3>2
    <3>3. CASE n = m
      <4>1. Holders(m)' = Others \cup {t}
        BY <2>5, <3>1, <3>3
      <4>2. IsFiniteSet(Others) /\ t \notin Others
        BY TasksAssumption, FS_Subset
      <4>3. Cardinality(Others \cup {t}) = Cardinality(Others) + 1
        BY <4>2, FS_AddElement
      <4>4. Cardinality(Others) \in Nat
        BY <4>2, FS_CardinalityType
      <4>5. Cardinality(Others) < Capacity[m]
        BY <2>5, <3>3
      <4>6. Cardinality(Others) + 1 <= Capacity[m]
        BY <2>1, <4>4, <4>5
      <4>7. QED
        BY <4>1, <4>3, <4>6
    <3>4. QED
      BY <3>2, <3>3
  <2>6. QED
    BY <2>4, <2>5, LeaseEffect DEF LeaseTaken
<1>3. QED
  BY Invariance, <1>1, <1>2, PTL DEF Spec
-----------------------------------------------------------------------------
(* What the exclusive execution of a task knows of its attempts: the one   *)
(* it is about to POST stands in the ledger and has produced no job yet,   *)
(* its member is the row's, and a closed attempt stays closed.             *)
AttemptOK(w) ==
  LET t == Task(w)  m == wk[w].member IN
  /\ wk[w].pc \in {"snapshot", "post"} => upstream[t][m] < attempts[t][m]
  /\ wk[w].pc \in {"snapshot", "post", "await"} => pin[t] = m
  /\ wk[w].pc = "reschedule" /\ Owns(w) => ~open[t]
HistoryOK(t) ==
  /\ stage[t] \in {"created", "charged", "retrying"} => ~open[t]
  /\ stage[t] = "completed" => pin[t] \in Members
  /\ stage[t] = "polling" => job[t] = pin[t]
  /\ stage[t] \in {"polling", "downloading", "completed"} => upstream[t][pin[t]] > 0
  /\ \A m \in Members : upstream[t][m] <= attempts[t][m] /\ attempts[t][m] <= MaxAttempts[m]
History == (\A w \in Workers : AttemptOK(w)) /\ (\A t \in Tasks : HistoryOK(t))

(* Every step keeps the history of the attempts.                           *)
LEMMA HistoryStep ==
  ASSUME IInv, Locked, History, [Next]_vars
  PROVE  History'
<1> USE TasksAssumption, WorkersAssumption, MembersAssumption, LimitsAssumption
    DEF IInv, TypeOK, Locals, LocalOK, Locked, History, AttemptOK, HistoryOK,
              Rows, RowOK,
              WorkerStates, Leases, Stages, PCs, Final, Failing, Causes, QueryMissLimit,
              taskVars, creditVars, tryVars, sharedVars, Task, Owns, Fenced, Executes,
              Become, Goto, Finish, At, Idle, NoLease, SetStage, SetStatus
<1>1. ASSUME NEW w \in Workers, NEW t \in Tasks, Claim(w, t)
      PROVE  History'
  BY <1>1 DEF Claim, Claimable, Settled
<1>2. ASSUME NEW w \in Workers, TryLock(w)
      PROVE  History'
  BY <1>2 DEF TryLock
<1>3. ASSUME NEW w \in Workers, LockBusy(w)
      PROVE  History'
  BY <1>3 DEF LockBusy
<1>4. ASSUME NEW w \in Workers, Load(w)
      PROVE  History'
  BY <1>4 DEF Load, Settled
<1>5. ASSUME NEW w \in Workers, LoadSettled(w)
      PROVE  History'
  BY <1>5 DEF LoadSettled, Settled
<1>6. ASSUME NEW w \in Workers, TakeClaim(w)
      PROVE  History'
  BY <1>6 DEF TakeClaim
<1>7. ASSUME NEW w \in Workers, Charge(w)
      PROVE  History'
  BY <1>7 DEF Charge, Chargeable, Affordable
<1>8. ASSUME NEW w \in Workers, ChargeNothing(w)
      PROVE  History'
  BY <1>8 DEF ChargeNothing, Chargeable
<1>9. ASSUME NEW w \in Workers, LeaseAgain(w)
      PROVE  History'
  BY <1>9 DEF LeaseAgain, TakeLease
<1>10. ASSUME NEW w \in Workers, NEW m \in Members, Select(w, m)
      PROVE  History'
  BY <1>10 DEF Select, Selects, Candidates, Fixed, TakeLease
<1>11. ASSUME NEW w \in Workers, NEW m \in Members, SelectFull(w, m)
      PROVE  History'
  BY <1>11 DEF SelectFull, Selects
<1>12. ASSUME NEW w \in Workers, CapacityWait(w)
      PROVE  History'
  BY <1>12 DEF CapacityWait, WaitsForCapacity
<1>13. ASSUME NEW w \in Workers, Start(w)
      PROVE  History'
  <2> DEFINE t == wk[w].task
             m == wk[w].member
  <2>1. /\ t \in Tasks /\ m \in Members /\ lock[t] = w /\ stage[t] \in {"charged", "retrying"}
        /\ attempts[t][m] \in Nat /\ upstream[t][m] \in Nat /\ MaxAttempts[m] \in Nat
        /\ attempts[t][m] < MaxAttempts[m] /\ upstream[t][m] <= attempts[t][m]
    BY <1>13 DEF Start, StartSubmission
  <2>2. /\ stage' = [stage EXCEPT ![t] = "submitting"] /\ pin' = [pin EXCEPT ![t] = m]
        /\ attempts' = [attempts EXCEPT ![t][m] = @ + 1] /\ open' = [open EXCEPT ![t] = TRUE]
        /\ UNCHANGED <<claim, job, upstream>>
        /\ wk'[w].task = t /\ wk'[w].member = m /\ wk'[w].pc = "snapshot"
        /\ \A v \in Workers \ {w} : wk'[v] = wk[v]
    BY <1>13, <2>1 DEF Start, StartSubmission
  <2>3. /\ attempts'[t][m] = attempts[t][m] + 1
        /\ \A n \in Members \ {m} : attempts'[t][n] = attempts[t][n]
        /\ \A u \in Tasks \ {t} : attempts'[u] = attempts[u]
    BY <2>1, <2>2
  <2>4. HistoryOK(t)'
    <3>1. stage'[t] = "submitting"
      BY <2>1, <2>2
    <3>2. \A n \in Members : upstream'[t][n] <= attempts'[t][n] /\ attempts'[t][n] <= MaxAttempts[n]
      BY <2>1, <2>2, <2>3
    <3>3. QED
      BY <2>2, <3>1, <3>2
  <2>5. \A u \in Tasks \ {t} : HistoryOK(u)'
    BY <2>2, <2>3
  <2>6. AttemptOK(w)'
    <3>1. attempts'[t][m] > upstream'[t][m] /\ pin'[t] = m
      BY <2>1, <2>2, <2>3
    <3>2. QED
      BY <2>2, <3>1
  <2>7. ASSUME NEW v \in Workers \ {w} PROVE AttemptOK(v)'
    <3>1. wk'[v] = wk[v] /\ AttemptOK(v)
      BY <2>2
    <3>2. CASE wk[v].pc \in {"idle", "lock"}
      BY <3>1, <3>2
    <3>3. CASE wk[v].pc \notin {"idle", "lock"}
      <4>1. wk[v].task \in Tasks \ {t}
        BY <2>1, <3>3
      <4>2. QED
        BY <2>2, <2>3, <3>1, <4>1
    <3>4. QED
      BY <3>2, <3>3
  <2>8. \A u \in Tasks : HistoryOK(u)'
    <3> SUFFICES ASSUME NEW u \in Tasks PROVE HistoryOK(u)'
      OBVIOUS
    <3>1. CASE u = t
      BY <2>2, <2>4, <3>1
    <3>2. CASE u # t
      BY <2>5, <3>2
    <3>3. QED
      BY <3>1, <3>2
  <2>9. \A v \in Workers : AttemptOK(v)'
    <3> SUFFICES ASSUME NEW v \in Workers PROVE AttemptOK(v)'
      OBVIOUS
    <3>1. CASE v = w
      BY <2>6, <3>1
    <3>2. CASE v # w
      BY <2>7, <3>2
    <3>3. QED
      BY <3>1, <3>2
  <2>10. QED
    BY <2>8, <2>9
<1>14. ASSUME NEW w \in Workers, StartBroken(w)
      PROVE  History'
  <2> DEFINE t == wk[w].task
             m == wk[w].member
  <2>1. /\ t \in Tasks /\ m \in Members /\ lock[t] = w /\ stage[t] \in {"charged", "retrying"}
        /\ attempts[t][m] \in Nat /\ upstream[t][m] \in Nat /\ MaxAttempts[m] \in Nat
        /\ attempts[t][m] < MaxAttempts[m] /\ upstream[t][m] <= attempts[t][m]
    BY <1>14 DEF StartBroken, StartSubmission
  <2>2. /\ stage' = [stage EXCEPT ![t] = "submitting"] /\ pin' = [pin EXCEPT ![t] = m]
        /\ attempts' = [attempts EXCEPT ![t][m] = @ + 1] /\ open' = [open EXCEPT ![t] = TRUE]
        /\ UNCHANGED <<claim, job, upstream>>
        /\ wk'[w].task = t /\ wk'[w].member = m /\ wk'[w].pc = "mark"
        /\ \A v \in Workers \ {w} : wk'[v] = wk[v]
    BY <1>14, <2>1 DEF StartBroken, StartSubmission
  <2>3. /\ attempts'[t][m] = attempts[t][m] + 1
        /\ \A n \in Members \ {m} : attempts'[t][n] = attempts[t][n]
        /\ \A u \in Tasks \ {t} : attempts'[u] = attempts[u]
    BY <2>1, <2>2
  <2>4. HistoryOK(t)'
    <3>1. stage'[t] = "submitting"
      BY <2>1, <2>2
    <3>2. \A n \in Members : upstream'[t][n] <= attempts'[t][n] /\ attempts'[t][n] <= MaxAttempts[n]
      BY <2>1, <2>2, <2>3
    <3>3. QED
      BY <2>2, <3>1, <3>2
  <2>5. \A u \in Tasks \ {t} : HistoryOK(u)'
    BY <2>2, <2>3
  <2>6. AttemptOK(w)'
    <3>1. attempts'[t][m] > upstream'[t][m] /\ pin'[t] = m
      BY <2>1, <2>2, <2>3
    <3>2. QED
      BY <2>2, <3>1
  <2>7. ASSUME NEW v \in Workers \ {w} PROVE AttemptOK(v)'
    <3>1. wk'[v] = wk[v] /\ AttemptOK(v)
      BY <2>2
    <3>2. CASE wk[v].pc \in {"idle", "lock"}
      BY <3>1, <3>2
    <3>3. CASE wk[v].pc \notin {"idle", "lock"}
      <4>1. wk[v].task \in Tasks \ {t}
        BY <2>1, <3>3
      <4>2. QED
        BY <2>2, <2>3, <3>1, <4>1
    <3>4. QED
      BY <3>2, <3>3
  <2>8. \A u \in Tasks : HistoryOK(u)'
    <3> SUFFICES ASSUME NEW u \in Tasks PROVE HistoryOK(u)'
      OBVIOUS
    <3>1. CASE u = t
      BY <2>2, <2>4, <3>1
    <3>2. CASE u # t
      BY <2>5, <3>2
    <3>3. QED
      BY <3>1, <3>2
  <2>9. \A v \in Workers : AttemptOK(v)'
    <3> SUFFICES ASSUME NEW v \in Workers PROVE AttemptOK(v)'
      OBVIOUS
    <3>1. CASE v = w
      BY <2>6, <3>1
    <3>2. CASE v # w
      BY <2>7, <3>2
    <3>3. QED
      BY <3>1, <3>2
  <2>10. QED
    BY <2>8, <2>9
<1>15. ASSUME NEW w \in Workers, StartRefused(w)
      PROVE  History'
  BY <1>15 DEF StartRefused
<1>16. ASSUME NEW w \in Workers, Snapshot(w)
      PROVE  History'
  BY <1>16 DEF Snapshot
<1>17. ASSUME NEW w \in Workers, SnapshotFails(w)
      PROVE  History'
  BY <1>17 DEF SnapshotFails
<1>18. ASSUME NEW w \in Workers, Post(w)
      PROVE  History'
  BY <1>18 DEF Post
<1>19. ASSUME NEW w \in Workers, Accepted(w)
      PROVE  History'
  BY <1>19 DEF Accepted, Answered
<1>20. ASSUME NEW w \in Workers, Delivered(w)
      PROVE  History'
  BY <1>20 DEF Delivered, Answered, AcceptDownload
<1>21. ASSUME NEW w \in Workers, SubmitFails(w)
      PROVE  History'
  BY <1>21 DEF SubmitFails
<1>22. ASSUME NEW w \in Workers, Recover(w)
      PROVE  History'
  BY <1>22 DEF Recover
<1>23. ASSUME NEW w \in Workers, MarkAttempt(w)
      PROVE  History'
  BY <1>23 DEF MarkAttempt
<1>24. ASSUME NEW w \in Workers, Retry(w)
      PROVE  History'
  BY <1>24 DEF Retry
<1>25. ASSUME NEW w \in Workers, Switch(w)
      PROVE  History'
  BY <1>25 DEF Switch, DropOwnLease
<1>26. ASSUME NEW w \in Workers, QueryPending(w)
      PROVE  History'
  BY <1>26 DEF QueryPending
<1>27. ASSUME NEW w \in Workers, QueryReady(w)
      PROVE  History'
  BY <1>27 DEF QueryReady, AcceptDownload
<1>28. ASSUME NEW w \in Workers, QueryTransient(w)
      PROVE  History'
  BY <1>28 DEF QueryTransient
<1>29. ASSUME NEW w \in Workers, QueryMiss(w)
      PROVE  History'
  BY <1>29 DEF QueryMiss, MissedOut
<1>30. ASSUME NEW w \in Workers, Download(w)
      PROVE  History'
  BY <1>30 DEF Download
<1>31. ASSUME NEW w \in Workers, Store(w)
      PROVE  History'
  BY <1>31 DEF Store
<1>32. ASSUME NEW w \in Workers, Complete(w)
      PROVE  History'
  BY <1>32 DEF Complete, DropOwnLease
<1>33. ASSUME NEW w \in Workers, FailFinally(w)
      PROVE  History'
  BY <1>33 DEF FailFinally, Answered, WaitsForCapacity, Chargeable, Fixed
<1>34. ASSUME NEW w \in Workers, Wait(w)
      PROVE  History'
  BY <1>34 DEF Wait
<1>35. ASSUME NEW w \in Workers, LeaseRefused(w)
      PROVE  History'
  BY <1>35 DEF LeaseRefused
<1>36. ASSUME NEW w \in Workers, LoseClaim(w)
      PROVE  History'
  BY <1>36 DEF LoseClaim, Answered, WaitsForCapacity
<1>37. ASSUME NEW w \in Workers, Fail(w)
      PROVE  History'
  BY <1>37 DEF Fail, DropOwnLease
<1>38. ASSUME NEW w \in Workers, Refund(w)
      PROVE  History'
  BY <1>38 DEF Refund, Settle
<1>39. ASSUME NEW w \in Workers, Release(w)
      PROVE  History'
  BY <1>39 DEF Release
<1>40. ASSUME NEW w \in Workers, Unlock(w)
      PROVE  History'
  BY <1>40 DEF Unlock, DropLock, Retire
<1>41. ASSUME NEW w \in Workers, Crash(w)
      PROVE  History'
  BY <1>41 DEF Crash, DropLock, Retire
<1>42. ASSUME NEW w \in Workers, Abort(w)
      PROVE  History'
  BY <1>42 DEF Abort
<1>43. ASSUME NEW w \in Workers, AbortUnreleased(w)
      PROVE  History'
  BY <1>43 DEF AbortUnreleased
<1>44. ASSUME NEW w \in Workers, LoseSession(w)
      PROVE  History'
  BY <1>44 DEF LoseSession, DropLock
<1>45. ASSUME NEW t \in Tasks, ExpireClaim(t)
      PROVE  History'
  BY <1>45 DEF ExpireClaim
<1>46. ASSUME NEW t \in Tasks, ExpireLease(t)
      PROVE  History'
  BY <1>46 DEF ExpireLease
<1>47. ASSUME NEW t \in Tasks, PassDeadline(t)
      PROVE  History'
  BY <1>47 DEF PassDeadline
<1>48. CASE Stabilise
  BY <1>48 DEF Stabilise
<1>49. CASE NothingDue \/ UNCHANGED vars
  BY <1>49 DEF NothingDue, vars
<1>50. QED
  BY <1>1, <1>2, <1>3, <1>4, <1>5, <1>6, <1>7, <1>8, <1>9, <1>10, <1>11,
     <1>12, <1>13, <1>14, <1>15, <1>16, <1>17, <1>18, <1>19, <1>20, <1>21,
     <1>22, <1>23, <1>24, <1>25, <1>26, <1>27, <1>28, <1>29, <1>30, <1>31,
     <1>32, <1>33, <1>34, <1>35, <1>36, <1>37, <1>38, <1>39, <1>40, <1>41,
     <1>42, <1>43, <1>44, <1>45, <1>46, <1>47, <1>48, <1>49
  DEF Next, Step, Enter, ChargeStep, LeaseStep, SubmitStep,
         QueryStep, DownloadStep, EndStep, Fault, Clock

-----------------------------------------------------------------------------
(* From the selection of a member to the answer to the call, the lease is  *)
(* the execution's own for as long as the claim is.                        *)
LeaseKept == \A w \in Workers :
  wk[w].pc \in {"prepare", "snapshot", "post", "await", "query"} /\ Owns(w)
    => lease[Task(w)].member = wk[w].member /\ lease[Task(w)].owner = w

(* Every step keeps the leases of the executions that own their claim.     *)
LEMMA LeaseKeptStep ==
  ASSUME IInv, Locked, LeaseKept, [Next]_vars
  PROVE  LeaseKept'
<1> USE TasksAssumption, WorkersAssumption, MembersAssumption, LimitsAssumption
    DEF IInv, TypeOK, Locals, LocalOK, Locked, LeaseKept,
              WorkerStates, Leases, Stages, PCs, Final, Failing, Causes, QueryMissLimit,
              taskVars, creditVars, tryVars, sharedVars, Task, Owns, Fenced, Executes,
              Become, Goto, Finish, At, Idle, NoLease, SetStage, SetStatus
<1>1. ASSUME NEW w \in Workers, NEW t \in Tasks, Claim(w, t)
      PROVE  LeaseKept'
  BY <1>1 DEF Claim, Claimable, Settled
<1>2. ASSUME NEW w \in Workers, TryLock(w)
      PROVE  LeaseKept'
  BY <1>2 DEF TryLock
<1>3. ASSUME NEW w \in Workers, LockBusy(w)
      PROVE  LeaseKept'
  BY <1>3 DEF LockBusy
<1>4. ASSUME NEW w \in Workers, Load(w)
      PROVE  LeaseKept'
  BY <1>4 DEF Load, Settled
<1>5. ASSUME NEW w \in Workers, LoadSettled(w)
      PROVE  LeaseKept'
  BY <1>5 DEF LoadSettled, Settled
<1>6. ASSUME NEW w \in Workers, TakeClaim(w)
      PROVE  LeaseKept'
  BY <1>6 DEF TakeClaim
<1>7. ASSUME NEW w \in Workers, Charge(w)
      PROVE  LeaseKept'
  BY <1>7 DEF Charge, Chargeable, Affordable
<1>8. ASSUME NEW w \in Workers, ChargeNothing(w)
      PROVE  LeaseKept'
  BY <1>8 DEF ChargeNothing, Chargeable
<1>9. ASSUME NEW w \in Workers, LeaseAgain(w)
      PROVE  LeaseKept'
  <2>1. Task(w) \in Tasks /\ wk[w].member \in Members /\ lock[Task(w)] = w
    BY <1>9 DEF LeaseAgain
  <2>2. lease'[Task(w)].member = wk[w].member /\ lease'[Task(w)].owner = w
    BY <1>9, <2>1 DEF LeaseAgain, TakeLease
  <2>3. \A t \in Tasks \ {Task(w)} : lease'[t] = lease[t]
    BY <1>9, <2>1 DEF LeaseAgain, TakeLease
  <2>4. /\ wk'[w].task = wk[w].task /\ wk'[w].member = wk[w].member
        /\ \A v \in Workers \ {w} : wk'[v] = wk[v]
        /\ claim' = claim
    BY <1>9 DEF LeaseAgain
  <2>5. \A v \in Workers \ {w} : wk[v].pc \notin {"idle", "lock"} => Task(v) \in Tasks \ {Task(w)}
    BY <2>1
  <2>6. ASSUME NEW v \in Workers, wk[v].pc \notin {"idle", "lock"}, v # w
        PROVE  lease'[wk[v].task] = lease[wk[v].task]
    BY <2>3, <2>5, <2>6
  <2>7. SUFFICES ASSUME NEW v \in Workers,
                        wk'[v].pc \in {"prepare", "snapshot", "post", "await", "query"},
                        claim'[wk'[v].task] = v
                 PROVE  lease'[wk'[v].task].member = wk'[v].member
                          /\ lease'[wk'[v].task].owner = v
    OBVIOUS
  <2>8. CASE v = w
    BY <2>2, <2>4, <2>8
  <2>9. CASE v # w
    <3>1. wk'[v] = wk[v]
      BY <2>4, <2>9
    <3>2. lease[wk[v].task].member = wk[v].member /\ lease[wk[v].task].owner = v
      BY <2>4, <2>7, <3>1
    <3>3. lease'[wk[v].task] = lease[wk[v].task]
      <4>1. wk[v].pc \notin {"idle", "lock"}
        BY <2>7, <3>1
      <4>2. QED
        BY <2>6, <2>9, <4>1
    <3>4. QED
      BY <3>1, <3>2, <3>3
  <2>10. QED
    BY <2>8, <2>9
<1>10. ASSUME NEW w \in Workers, NEW m \in Members, Select(w, m)
      PROVE  LeaseKept'
  <2>1. Task(w) \in Tasks /\ lock[Task(w)] = w
    BY <1>10 DEF Select, Selects
  <2>2. lease'[Task(w)].member = m /\ lease'[Task(w)].owner = w
    BY <1>10, <2>1 DEF Select, TakeLease
  <2>3. \A t \in Tasks \ {Task(w)} : lease'[t] = lease[t]
    BY <1>10, <2>1 DEF Select, TakeLease
  <2>4. /\ wk'[w].task = wk[w].task /\ wk'[w].member = m
        /\ \A v \in Workers \ {w} : wk'[v] = wk[v]
        /\ claim' = claim
    BY <1>10 DEF Select
  <2>5. \A v \in Workers \ {w} : wk[v].pc \notin {"idle", "lock"} => Task(v) \in Tasks \ {Task(w)}
    BY <2>1
  <2>6. ASSUME NEW v \in Workers, wk[v].pc \notin {"idle", "lock"}, v # w
        PROVE  lease'[wk[v].task] = lease[wk[v].task]
    BY <2>3, <2>5, <2>6
  <2>7. SUFFICES ASSUME NEW v \in Workers,
                        wk'[v].pc \in {"prepare", "snapshot", "post", "await", "query"},
                        claim'[wk'[v].task] = v
                 PROVE  lease'[wk'[v].task].member = wk'[v].member
                          /\ lease'[wk'[v].task].owner = v
    OBVIOUS
  <2>8. CASE v = w
    BY <2>2, <2>4, <2>8
  <2>9. CASE v # w
    <3>1. wk'[v] = wk[v]
      BY <2>4, <2>9
    <3>2. lease[wk[v].task].member = wk[v].member /\ lease[wk[v].task].owner = v
      BY <2>4, <2>7, <3>1
    <3>3. lease'[wk[v].task] = lease[wk[v].task]
      <4>1. wk[v].pc \notin {"idle", "lock"}
        BY <2>7, <3>1
      <4>2. QED
        BY <2>6, <2>9, <4>1
    <3>4. QED
      BY <3>1, <3>2, <3>3
  <2>10. QED
    BY <2>8, <2>9
<1>11. ASSUME NEW w \in Workers, NEW m \in Members, SelectFull(w, m)
      PROVE  LeaseKept'
  BY <1>11 DEF SelectFull, Selects
<1>12. ASSUME NEW w \in Workers, CapacityWait(w)
      PROVE  LeaseKept'
  BY <1>12 DEF CapacityWait, WaitsForCapacity
<1>13. ASSUME NEW w \in Workers, Start(w)
      PROVE  LeaseKept'
  BY <1>13 DEF Start, StartSubmission
<1>14. ASSUME NEW w \in Workers, StartBroken(w)
      PROVE  LeaseKept'
  BY <1>14 DEF StartBroken, StartSubmission
<1>15. ASSUME NEW w \in Workers, StartRefused(w)
      PROVE  LeaseKept'
  BY <1>15 DEF StartRefused
<1>16. ASSUME NEW w \in Workers, Snapshot(w)
      PROVE  LeaseKept'
  BY <1>16 DEF Snapshot
<1>17. ASSUME NEW w \in Workers, SnapshotFails(w)
      PROVE  LeaseKept'
  BY <1>17 DEF SnapshotFails
<1>18. ASSUME NEW w \in Workers, Post(w)
      PROVE  LeaseKept'
  BY <1>18 DEF Post
<1>19. ASSUME NEW w \in Workers, Accepted(w)
      PROVE  LeaseKept'
  BY <1>19 DEF Accepted, Answered
<1>20. ASSUME NEW w \in Workers, Delivered(w)
      PROVE  LeaseKept'
  BY <1>20 DEF Delivered, Answered, AcceptDownload
<1>21. ASSUME NEW w \in Workers, SubmitFails(w)
      PROVE  LeaseKept'
  BY <1>21 DEF SubmitFails
<1>22. ASSUME NEW w \in Workers, Recover(w)
      PROVE  LeaseKept'
  BY <1>22 DEF Recover
<1>23. ASSUME NEW w \in Workers, MarkAttempt(w)
      PROVE  LeaseKept'
  BY <1>23 DEF MarkAttempt
<1>24. ASSUME NEW w \in Workers, Retry(w)
      PROVE  LeaseKept'
  BY <1>24 DEF Retry
<1>25. ASSUME NEW w \in Workers, Switch(w)
      PROVE  LeaseKept'
  BY <1>25 DEF Switch, DropOwnLease
<1>26. ASSUME NEW w \in Workers, QueryPending(w)
      PROVE  LeaseKept'
  BY <1>26 DEF QueryPending
<1>27. ASSUME NEW w \in Workers, QueryReady(w)
      PROVE  LeaseKept'
  BY <1>27 DEF QueryReady, AcceptDownload
<1>28. ASSUME NEW w \in Workers, QueryTransient(w)
      PROVE  LeaseKept'
  BY <1>28 DEF QueryTransient
<1>29. ASSUME NEW w \in Workers, QueryMiss(w)
      PROVE  LeaseKept'
  BY <1>29 DEF QueryMiss, MissedOut
<1>30. ASSUME NEW w \in Workers, Download(w)
      PROVE  LeaseKept'
  BY <1>30 DEF Download
<1>31. ASSUME NEW w \in Workers, Store(w)
      PROVE  LeaseKept'
  BY <1>31 DEF Store
<1>32. ASSUME NEW w \in Workers, Complete(w)
      PROVE  LeaseKept'
  BY <1>32 DEF Complete, DropOwnLease
<1>33. ASSUME NEW w \in Workers, FailFinally(w)
      PROVE  LeaseKept'
  BY <1>33 DEF FailFinally, Answered, WaitsForCapacity, Chargeable, Fixed
<1>34. ASSUME NEW w \in Workers, Wait(w)
      PROVE  LeaseKept'
  BY <1>34 DEF Wait
<1>35. ASSUME NEW w \in Workers, LeaseRefused(w)
      PROVE  LeaseKept'
  BY <1>35 DEF LeaseRefused
<1>36. ASSUME NEW w \in Workers, LoseClaim(w)
      PROVE  LeaseKept'
  BY <1>36 DEF LoseClaim, Answered, WaitsForCapacity
<1>37. ASSUME NEW w \in Workers, Fail(w)
      PROVE  LeaseKept'
  BY <1>37 DEF Fail, DropOwnLease
<1>38. ASSUME NEW w \in Workers, Refund(w)
      PROVE  LeaseKept'
  BY <1>38 DEF Refund, Settle
<1>39. ASSUME NEW w \in Workers, Release(w)
      PROVE  LeaseKept'
  BY <1>39 DEF Release
<1>40. ASSUME NEW w \in Workers, Unlock(w)
      PROVE  LeaseKept'
  BY <1>40 DEF Unlock, DropLock, Retire
<1>41. ASSUME NEW w \in Workers, Crash(w)
      PROVE  LeaseKept'
  BY <1>41 DEF Crash, DropLock, Retire
<1>42. ASSUME NEW w \in Workers, Abort(w)
      PROVE  LeaseKept'
  BY <1>42 DEF Abort
<1>43. ASSUME NEW w \in Workers, AbortUnreleased(w)
      PROVE  LeaseKept'
  BY <1>43 DEF AbortUnreleased
<1>44. ASSUME NEW w \in Workers, LoseSession(w)
      PROVE  LeaseKept'
  BY <1>44 DEF LoseSession, DropLock
<1>45. ASSUME NEW t \in Tasks, ExpireClaim(t)
      PROVE  LeaseKept'
  <2>1. \A v \in Workers : claim'[Task(v)] = v => claim[Task(v)] = v
    BY <1>45 DEF ExpireClaim
  <2>2. UNCHANGED <<wk, lease>>
    BY <1>45 DEF ExpireClaim
  <2>3. QED
    BY <2>1, <2>2
<1>46. ASSUME NEW t \in Tasks, ExpireLease(t)
      PROVE  LeaseKept'
  <2>1. \A v \in Workers : claim[Task(v)] = v /\ lease[Task(v)].owner = v
                              => lease'[Task(v)] = lease[Task(v)]
    BY <1>46 DEF ExpireLease
  <2>2. UNCHANGED <<wk, claim>>
    BY <1>46 DEF ExpireLease
  <2>3. QED
    BY <2>1, <2>2
<1>47. ASSUME NEW t \in Tasks, PassDeadline(t)
      PROVE  LeaseKept'
  BY <1>47 DEF PassDeadline
<1>48. CASE Stabilise
  BY <1>48 DEF Stabilise
<1>49. CASE NothingDue \/ UNCHANGED vars
  BY <1>49 DEF NothingDue, vars
<1>50. QED
  BY <1>1, <1>2, <1>3, <1>4, <1>5, <1>6, <1>7, <1>8, <1>9, <1>10, <1>11,
     <1>12, <1>13, <1>14, <1>15, <1>16, <1>17, <1>18, <1>19, <1>20, <1>21,
     <1>22, <1>23, <1>24, <1>25, <1>26, <1>27, <1>28, <1>29, <1>30, <1>31,
     <1>32, <1>33, <1>34, <1>35, <1>36, <1>37, <1>38, <1>39, <1>40, <1>41,
     <1>42, <1>43, <1>44, <1>45, <1>46, <1>47, <1>48, <1>49
  DEF Next, Step, Enter, ChargeStep, LeaseStep, SubmitStep,
         QueryStep, DownloadStep, EndStep, Fault, Clock

-----------------------------------------------------------------------------
(* While sessions live as long as their workers, every execution past its  *)
(* try-lock holds the lock of its task.                                    *)
LEMMA LockHeld == ~SessionLoss /\ Spec => []Locked
<1> SUFFICES ASSUME ~SessionLoss PROVE Spec => []Locked
  OBVIOUS
<1>1. Init => Locked
  BY DEF Init, Locked, Idle, At
<1>2. IInv /\ Locked /\ [Next]_vars => Locked'
  BY LockStep
<1>3. QED
  BY Invariance, <1>1, <1>2, PTL DEF Spec

(* Under the same condition the history of the attempts is true.           *)
LEMMA HistoryHeld == ~SessionLoss /\ Spec => []History
<1> SUFFICES ASSUME ~SessionLoss PROVE Spec => []History
  OBVIOUS
<1>1. Init => History
  BY LimitsAssumption DEF Init, History, AttemptOK, HistoryOK, Idle, At
<1>2. IInv /\ Locked /\ History /\ [Next]_vars => History'
  BY HistoryStep
<1>3. QED
  BY Invariance, LockHeld, <1>1, <1>2, PTL DEF Spec

(* A provider never holds more jobs of a task than the attempt ledger      *)
(* shows, nor the ledger more than the retry budget of the member.         *)
THEOREM EveryPostLedgered == ~SessionLoss /\ Spec => []PostsLedgered
<1>1. History => PostsLedgered
  BY DEF History, HistoryOK, PostsLedgered
<1>2. QED
  BY HistoryHeld, <1>1, PTL

(* A task polls a job that exists at the member it is pinned to, and none  *)
(* waits for a submission with an attempt still open.                      *)
THEOREM ProviderKnown == ~SessionLoss /\ Spec => []ProviderIdentity
<1>1. IInv /\ History => ProviderIdentity
  <2> SUFFICES ASSUME IInv, History, NEW t \in Tasks
               PROVE  /\ stage[t] \in {"charged", "retrying"} => ~open[t]
                      /\ stage[t] \in {"submitting", "polling", "downloading", "completed"}
                           => pin[t] # None
                      /\ stage[t] = "polling" => job[t] = pin[t]
                      /\ stage[t] \in {"polling", "downloading", "completed"}
                           => upstream[t][pin[t]] > 0
    BY DEF ProviderIdentity
  <2>1. RowOK(t) /\ HistoryOK(t)
    BY DEF IInv, Rows, History
  <2>2. QED
    BY <2>1, MembersAssumption DEF RowOK, HistoryOK
<1>2. QED
  BY Invariance, HistoryHeld, <1>1, PTL

(* An execution that still owns its claim when it talks to a member holds  *)
(* the lease that counts the call at that member.                          *)
THEOREM CallsLeased == ~SessionLoss /\ Spec => []LeaseHeld
<1> SUFFICES ASSUME ~SessionLoss PROVE Spec => []LeaseHeld
  OBVIOUS
<1>1. Init => LeaseKept
  BY DEF Init, LeaseKept, Idle, At
<1>2. IInv /\ Locked /\ LeaseKept /\ [Next]_vars => LeaseKept'
  BY LeaseKeptStep
<1>3. IInv /\ LeaseKept => LeaseHeld
  <2> SUFFICES ASSUME IInv, LeaseKept, NEW w \in Workers,
                      wk[w].pc \in {"post", "await", "query"}, Owns(w)
               PROVE  lease[Task(w)] = [member |-> wk[w].member, owner |-> w]
    BY DEF LeaseHeld
  <2>1. lease[Task(w)] \in Leases
    BY DEF IInv, TypeOK, Locals, LocalOK, Task
  <2>2. lease[Task(w)].member = wk[w].member /\ lease[Task(w)].owner = w
    BY DEF LeaseKept
  <2>3. QED
    BY <2>1, <2>2 DEF Leases
<1>4. QED
  BY Invariance, LockHeld, <1>1, <1>2, <1>3, PTL DEF Spec
-----------------------------------------------------------------------------
(* Four actions write the ledger, the pin or the job, and all of them are  *)
(* fenced by a stage before the provider's acceptance.                     *)
Accepting == {"polling", "downloading"}
SubmissionKept == \A t \in Tasks : stage[t] \in Accepting
  => attempts'[t] = attempts[t] /\ pin'[t] = pin[t] /\ job'[t] = job[t]

LEMMA SubmissionStep ==
  ASSUME IInv, [Next]_vars
  PROVE  SubmissionKept
<1>1. ASSUME UNCHANGED <<attempts, pin, job>> PROVE SubmissionKept
  BY <1>1 DEF SubmissionKept
<1>2. ASSUME NEW w \in Workers, Start(w) \/ StartBroken(w) \/ Accepted(w) \/ Switch(w)
      PROVE  SubmissionKept
  <2>1. Task(w) \in Tasks
    BY <1>2 DEF Start, StartBroken, Accepted, Answered, Switch, IInv, Locals, LocalOK, Task
  <2>2. Fenced(w) /\ wk[w].stage \notin Accepting
    BY <1>2 DEF Start, StartBroken, StartSubmission, Accepted, Answered, Switch, IInv, Locals,
       LocalOK, Accepting
  <2>3. stage[Task(w)] \notin Accepting
    BY <2>2 DEF Fenced
  <2>4. \A t \in Tasks \ {Task(w)} :
          attempts'[t] = attempts[t] /\ pin'[t] = pin[t] /\ job'[t] = job[t]
    <3>1. attempts \in [Tasks -> [Members -> Nat]] /\ DOMAIN pin = Tasks /\ DOMAIN job = Tasks
      BY DEF IInv, TypeOK
    <3>2. CASE Start(w) \/ StartBroken(w)
      BY <2>1, <3>1, <3>2 DEF Start, StartBroken, StartSubmission
    <3>3. CASE Accepted(w)
      BY <2>1, <3>1, <3>3 DEF Accepted, tryVars
    <3>4. CASE Switch(w)
      BY <2>1, <3>1, <3>4 DEF Switch, tryVars
    <3>5. QED
      BY <1>2, <3>2, <3>3, <3>4
  <2>5. QED
    BY <2>3, <2>4 DEF SubmissionKept
<1>3. ASSUME NEW w \in Workers, Enter(w) \/ ChargeStep(w) \/ LeaseStep(w) \/ QueryStep(w)
      PROVE  SubmissionKept
  BY <1>1, <1>3 DEF Enter, TryLock, LockBusy, Load, LoadSettled, TakeClaim, ChargeStep, Charge,
     ChargeNothing, LeaseStep, LeaseAgain, CapacityWait, Select, SelectFull, QueryStep,
     QueryPending, QueryReady, AcceptDownload, QueryTransient, QueryMiss, sharedVars, taskVars,
     tryVars
<1>4. ASSUME NEW w \in Workers, SubmitStep(w) PROVE SubmissionKept
  BY <1>1, <1>2, <1>4 DEF SubmitStep, StartRefused, Snapshot, SnapshotFails, Post, Delivered,
     AcceptDownload, SubmitFails, Recover, MarkAttempt, Retry, sharedVars, taskVars, tryVars
<1>5. ASSUME NEW w \in Workers, DownloadStep(w) \/ EndStep(w) PROVE SubmissionKept
  BY <1>1, <1>5 DEF DownloadStep, Download, Store, Complete, EndStep, FailFinally, Wait,
     LeaseRefused, LoseClaim, Fail, Refund, Release, Unlock, sharedVars, taskVars, tryVars
<1>6. ASSUME NEW w \in Workers, NEW t \in Tasks, Claim(w, t) PROVE SubmissionKept
  BY <1>1, <1>6 DEF Claim, tryVars
<1>7. ASSUME NEW w \in Workers, Fault(w) PROVE SubmissionKept
  BY <1>1, <1>7 DEF Fault, Crash, Abort, AbortUnreleased, LoseSession, sharedVars, taskVars,
     tryVars
<1>8. ASSUME NEW t \in Tasks, Clock(t) PROVE SubmissionKept
  BY <1>1, <1>8 DEF Clock, ExpireClaim, ExpireLease, PassDeadline, taskVars, tryVars
<1>9. CASE Stabilise \/ NothingDue \/ UNCHANGED vars
  BY <1>1, <1>9 DEF Stabilise, NothingDue, vars, sharedVars, taskVars, tryVars
<1>10. QED
  BY <1>3, <1>4, <1>5, <1>6, <1>7, <1>8, <1>9 DEF Next, Step

(* Once a provider accepted a task no step submits it again or moves it,   *)
(* not even of a worker that has lost its lock.                            *)
THEOREM NeverResubmitted == Spec => NoResubmission
<1>1. IInv /\ [Next]_vars
        => [\A t \in Tasks : stage[t] \in {"polling", "downloading"}
              => attempts'[t] = attempts[t] /\ pin'[t] = pin[t] /\ job'[t] = job[t]]_vars
  BY SubmissionStep DEF SubmissionKept, Accepting
<1>2. QED
  BY Invariance, <1>1, PTL DEF Spec, NoResubmission
=============================================================================
