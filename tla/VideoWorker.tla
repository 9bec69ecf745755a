---------------------------- MODULE VideoWorker ----------------------------
(***************************************************************************)
(* The durable video worker of services/api-gateway: replicas claim rows   *)
(* of video_generation, execute one step of the task under a PostgreSQL    *)
(* session advisory lock, charge the wallet, submit the job to a provider  *)
(* member, poll it, download its output and settle the task as completed   *)
(* or refunded.                                                            *)
(*                                                                         *)
(* A worker is one execution slot of one replica.  A claim token is the    *)
(* worker that wrote it while that execution lives; tokens of executions   *)
(* that are over, and the token the claim query writes, are only ever      *)
(* compared for inequality and are all the value Stale.  An expired claim  *)
(* fences exactly as a NULL one and an expired lease counts as none, so    *)
(* both are erased on expiry.  One credit is the price of a task.  Every   *)
(* delay in next_poll_at may have elapsed; submit_uncertain is handled as  *)
(* submitting everywhere and is not told apart.                            *)
(***************************************************************************)
EXTENDS Naturals, FiniteSets

CONSTANTS
  Tasks,         \* rows of video_generation, all of one user and one API key
  Workers,       \* execution slots of all replicas
  Members,       \* image_backend_member rows, in an authorised group
  Capacity,      \* concurrency of each member
  MaxAttempts,   \* max_attempts_snapshot of each member (retry count + 1)
  Balance,       \* credits in the wallet at the start
  KeyLimit,      \* credit_limit of the API key
  SessionLoss,   \* may a live worker lose the session that holds its lock?
  None,          \* SQL NULL
  Stale          \* any token that no live execution holds

ASSUME TasksAssumption == IsFiniteSet(Tasks)
ASSUME WorkersAssumption == None \notin Workers /\ Stale \notin Workers /\ None # Stale
ASSUME MembersAssumption == None \notin Members
ASSUME LimitsAssumption == /\ Capacity \in [Members -> Nat]
                           /\ MaxAttempts \in [Members -> Nat \ {0}]
                           /\ Balance \in Nat
                           /\ KeyLimit \in Nat
                           /\ SessionLoss \in BOOLEAN

VARIABLES
  stage, status, claim, pin, job, misses, deadline, \* video_generation columns
  consumed, reserved,   \* credits_consumed > 0, api_key_credits_reserved > 0
  attempts, open,       \* submission attempts; is the last one not yet failed?
  lease,                \* image_backend_member_lease row "go-video:<task>"
  wallet, keyUsed,      \* credits in the wallet, credits_used of the API key
  debits, refunds,      \* consume and refund entries of the task's source_ref
  upstream,             \* jobs each provider member accepted for the task
  stored,               \* is the output object in storage?
  lock,                 \* session advisory lock video-execute:<task>
  wk,                   \* local state of every worker
  stable                \* no more faults, and providers have finished their jobs

taskVars   == <<stage, status, claim, pin, job, misses, deadline>>
creditVars == <<consumed, reserved, wallet, keyUsed, debits, refunds>>
tryVars    == <<attempts, open>>
sharedVars == <<taskVars, creditVars, tryVars, lease, upstream, stored, lock, stable>>
vars == <<sharedVars, wk>>

Stages == {"created", "charged", "submitting", "retrying", "polling",
           "downloading", "completed", "refunding", "failed"}
Final == {"completed", "failed"}
Failing == {"refunding", "failed"}
QueryMissLimit == 3

PCs == {"idle", "lock", "load", "own", "exec", "query", "prepare", "snapshot",
        "post", "await", "mark", "reschedule", "fail", "refund", "download",
        "store", "complete", "release", "unlock"}
Causes == {"retry", "switch", "terminal"}

NoLease == [member |-> None, owner |-> None]
At(pc, t) == [pc |-> pc, task |-> t, stage |-> None, member |-> None,
              misses |-> 0, cause |-> None]
Idle == At("idle", None)

Leases == [member : Members \cup {None}, owner : Workers \cup {Stale, None}]
WorkerStates == [pc : PCs, task : Tasks \cup {None}, stage : Stages \cup {None},
                 member : Members \cup {None}, misses : 0 .. QueryMissLimit - 1,
                 cause : Causes \cup {"full", None}]

TypeOK ==
  /\ stage \in [Tasks -> Stages]
  /\ status \in [Tasks -> {"pending", "running", "completed", "failed"}]
  /\ claim \in [Tasks -> Workers \cup {Stale, None}]
  /\ pin \in [Tasks -> Members \cup {None}]
  /\ job \in [Tasks -> Members \cup {None}]
  /\ misses \in [Tasks -> 0 .. QueryMissLimit - 1]
  /\ deadline \in [Tasks -> {"none", "set", "past"}]
  /\ consumed \in [Tasks -> BOOLEAN]
  /\ reserved \in [Tasks -> BOOLEAN]
  /\ attempts \in [Tasks -> [Members -> Nat]]
  /\ open \in [Tasks -> BOOLEAN]
  /\ lease \in [Tasks -> Leases]
  /\ wallet \in Nat
  /\ keyUsed \in Nat
  /\ debits \in [Tasks -> Nat]
  /\ refunds \in [Tasks -> Nat]
  /\ upstream \in [Tasks -> [Members -> Nat]]
  /\ stored \in [Tasks -> BOOLEAN]
  /\ lock \in [Tasks -> Workers \cup {None}]
  /\ wk \in [Workers -> WorkerStates]
  /\ stable \in BOOLEAN

Init ==
  /\ stage = [t \in Tasks |-> "created"]
  /\ status = [t \in Tasks |-> "pending"]
  /\ claim = [t \in Tasks |-> None]
  /\ pin = [t \in Tasks |-> None]
  /\ job = [t \in Tasks |-> None]
  /\ misses = [t \in Tasks |-> 0]
  /\ deadline = [t \in Tasks |-> "none"]
  /\ consumed = [t \in Tasks |-> FALSE]
  /\ reserved = [t \in Tasks |-> FALSE]
  /\ attempts = [t \in Tasks |-> [m \in Members |-> 0]]
  /\ open = [t \in Tasks |-> FALSE]
  /\ lease = [t \in Tasks |-> NoLease]
  /\ wallet = Balance
  /\ keyUsed = 0
  /\ debits = [t \in Tasks |-> 0]
  /\ refunds = [t \in Tasks |-> 0]
  /\ upstream = [t \in Tasks |-> [m \in Members |-> 0]]
  /\ stored = [t \in Tasks |-> FALSE]
  /\ lock = [t \in Tasks |-> None]
  /\ wk = [w \in Workers |-> Idle]
  /\ stable = FALSE

-----------------------------------------------------------------------------
(* What a worker reads and writes.                                         *)

Task(w) == wk[w].task
Owns(w) == claim[Task(w)] = w

(* Mutant: the compare-and-set forgets the stage.                          *)
FencedByTokenOnly(w) == Owns(w)

(* videoCAS and videoCASTx: token, unexpired claim and unchanged stage.    *)
Fenced(w) == Owns(w) /\ stage[Task(w)] = wk[w].stage

Become(w, pc, s, m, cause) ==
  wk' = [wk EXCEPT ![w] = [pc |-> pc, task |-> Task(w), stage |-> s, member |-> m,
                           misses |-> wk[w].misses, cause |-> cause]]
Goto(w, pc) == Become(w, pc, wk[w].stage, wk[w].member, wk[w].cause)
Finish(w) == wk' = [wk EXCEPT ![w] = At("release", Task(w))]

SetStage(w, s) == stage' = [stage EXCEPT ![Task(w)] = s]
SetStatus(w, s) == status' = [status EXCEPT ![Task(w)] = s]

(* DELETE FROM image_backend_member_lease WHERE id = .. AND owner_token = ..*)
DropOwnLease(w) ==
  lease' = IF lease[Task(w)].owner = w
             THEN [lease EXCEPT ![Task(w)] = NoLease] ELSE lease

(* acquireVideoMemberLease: the claim must be ours and the task unfinished, *)
(* and the unexpired leases of other tasks must leave room at the member.  *)
LeaseFenced(w) == Owns(w) /\ stage[Task(w)] \notin Final
(* Mutant: off by one.                                                     *)
HasRoomForOneMore(w, m) ==
  Cardinality({u \in Tasks \ {Task(w)} : lease[u].member = m}) <= Capacity[m]
HasRoom(w, m) ==
  Cardinality({u \in Tasks \ {Task(w)} : lease[u].member = m}) < Capacity[m]
TakeLease(w, m) ==
  lease' = [lease EXCEPT ![Task(w)] = [member |-> m, owner |-> w]]

(* The live token of an execution becomes stale when the execution ends.   *)
Retire(w) ==
  /\ claim' = [t \in Tasks |-> IF claim[t] = w THEN Stale ELSE claim[t]]
  /\ lease' = [t \in Tasks |-> IF lease[t].owner = w
                                 THEN [member |-> lease[t].member, owner |-> Stale] ELSE lease[t]]

-----------------------------------------------------------------------------
(* claimNext and the entry of processDurableVideo                          *)

(* A failed row with credits still consumed has its refund ahead of it.    *)
Settled(t) == \/ stage[t] = "completed"
              \/ stage[t] = "failed" /\ ~consumed[t]
(* Mutant: the claim query forgets the rows whose refund is pending.       *)
ClaimableButRefunding(t) == claim[t] = None /\ stage[t] \notin {"completed", "failed", "refunding"}
Claimable(t) == claim[t] = None /\ ~Settled(t)

(* Mutant: every claimed row is shown as running.                          *)
ClaimAsRunning(w, t) ==
  /\ wk[w].pc = "idle"
  /\ Claimable(t)
  /\ claim' = [claim EXCEPT ![t] = Stale]
  /\ status' = [status EXCEPT ![t] = "running"]
  /\ wk' = [wk EXCEPT ![w] = At("lock", t)]
  /\ UNCHANGED <<stage, pin, job, misses, deadline, creditVars, tryVars, lease,
                 upstream, stored, lock, stable>>

Claim(w, t) ==
  /\ wk[w].pc = "idle"
  /\ Claimable(t)
  /\ claim' = [claim EXCEPT ![t] = Stale]
  /\ status' = [status EXCEPT ![t] = IF stage[t] \in Failing THEN "failed" ELSE "running"]
  /\ wk' = [wk EXCEPT ![w] = At("lock", t)]
  /\ UNCHANGED <<stage, pin, job, misses, deadline, creditVars, tryVars, lease,
                 upstream, stored, lock, stable>>

(* Mutant: the result of the try-lock is ignored.                          *)
TryLockIgnored(w) ==
  /\ wk[w].pc = "lock"
  /\ lock' = [lock EXCEPT ![Task(w)] = IF @ = None THEN w ELSE @]
  /\ Goto(w, "load")
  /\ UNCHANGED <<taskVars, creditVars, tryVars, lease, upstream, stored, stable>>

(* pg_try_advisory_lock; without it the execution ends and the claim stays. *)
TryLock(w) ==
  /\ wk[w].pc = "lock"
  /\ lock[Task(w)] = None
  /\ lock' = [lock EXCEPT ![Task(w)] = w]
  /\ Goto(w, "load")
  /\ UNCHANGED <<taskVars, creditVars, tryVars, lease, upstream, stored, stable>>

LockBusy(w) ==
  /\ wk[w].pc = "lock"
  /\ lock[Task(w)] # None
  /\ wk' = [wk EXCEPT ![w] = Idle]
  /\ UNCHANGED sharedVars

(* loadVideoWorkerTask; a settled task is left alone without a release.    *)
Load(w) ==
  LET t == Task(w) IN
  /\ wk[w].pc = "load"
  /\ ~Settled(t)
  /\ wk' = [wk EXCEPT ![w] = [pc |-> "own", task |-> t, stage |-> stage[t],
                              member |-> pin[t], misses |-> misses[t], cause |-> None]]
  /\ UNCHANGED sharedVars

LoadSettled(w) ==
  /\ wk[w].pc = "load"
  /\ Settled(Task(w))
  /\ Goto(w, "unlock")
  /\ UNCHANGED sharedVars

(* The lock holder replaces whatever claim the row has.                    *)
TakeClaim(w) ==
  /\ wk[w].pc = "own"
  /\ claim' = IF stage[Task(w)] = "completed" THEN claim ELSE [claim EXCEPT ![Task(w)] = w]
  /\ Goto(w, "exec")
  /\ UNCHANGED <<stage, status, pin, job, misses, deadline, creditVars, tryVars,
                 lease, upstream, stored, lock, stable>>

-----------------------------------------------------------------------------
(* chargeVideoTask: one transaction, fenced by the row's stage only.       *)

Executes(w, stages) == wk[w].pc = "exec" /\ wk[w].stage \in stages
(* Mutant: the row is not looked at again under its lock.                  *)
ChargeableAlways(t) == TRUE
Chargeable(t) == stage[t] = "created" /\ ~consumed[t]

(* A replayed charge costs nothing.                                        *)
Affordable(t) == \/ debits[t] = 1
                 \/ wallet >= 1 /\ keyUsed < KeyLimit

Charge(w) ==
  LET t == Task(w) IN
  /\ Executes(w, {"created"})
  /\ Chargeable(t)
  /\ Affordable(t)
  /\ wallet' = wallet + debits[t] - 1
  /\ keyUsed' = keyUsed + 1 - debits[t]
  /\ debits' = [debits EXCEPT ![t] = 1]
  /\ consumed' = [consumed EXCEPT ![t] = TRUE]
  /\ reserved' = [reserved EXCEPT ![t] = TRUE]
  /\ SetStage(w, "charged") /\ SetStatus(w, "pending")
  /\ Become(w, "exec", "charged", wk[w].member, None)
  /\ UNCHANGED <<claim, pin, job, misses, deadline, refunds, tryVars, lease,
                 upstream, stored, lock, stable>>

ChargeNothing(w) ==
  /\ Executes(w, {"created"})
  /\ ~Chargeable(Task(w))
  /\ Become(w, "exec", "charged", wk[w].member, None)
  /\ UNCHANGED sharedVars

-----------------------------------------------------------------------------
(* polling and downloading first take the lease of their member again.     *)

LeaseAgain(w) ==
  /\ Executes(w, {"polling", "downloading"})
  /\ LeaseFenced(w)
  /\ HasRoom(w, wk[w].member)
  /\ TakeLease(w, wk[w].member)
  /\ Goto(w, IF wk[w].stage = "polling" THEN "query" ELSE "download")
  /\ UNCHANGED <<taskVars, creditVars, tryVars, upstream, stored, lock, stable>>

-----------------------------------------------------------------------------
(* selectVideoProvider: the fixed member of a retry, or else a member this *)
(* task has not submitted to, tried one after the other.                   *)

Fixed(w) == wk[w].stage = "retrying" /\ wk[w].member # None
Candidates(w) ==
  IF Fixed(w) THEN {wk[w].member} ELSE {m \in Members : attempts[Task(w)][m] = 0}

Selects(w, m) ==
  Executes(w, {"charged", "retrying"}) /\ LeaseFenced(w) /\ m \in Candidates(w)

Select(w, m) ==
  /\ Selects(w, m)
  /\ HasRoom(w, m)
  /\ TakeLease(w, m)
  /\ Become(w, "prepare", wk[w].stage, m, None)
  /\ UNCHANGED <<taskVars, creditVars, tryVars, upstream, stored, lock, stable>>

SelectFull(w, m) ==
  /\ Selects(w, m)
  /\ ~HasRoom(w, m)
  /\ Become(w, "exec", wk[w].stage, wk[w].member, "full")
  /\ UNCHANGED sharedVars

(* videoCapacityWait: every candidate was full.                            *)
WaitsForCapacity(w) == Executes(w, {"charged", "retrying"}) /\ wk[w].cause = "full"

CapacityWait(w) ==
  LET t == Task(w) IN
  /\ WaitsForCapacity(w)
  /\ Fenced(w) /\ deadline[t] # "past"
  /\ deadline' = [deadline EXCEPT ![t] = "set"]
  /\ Finish(w)
  /\ UNCHANGED <<stage, status, claim, pin, job, misses, creditVars, tryVars, lease,
                 upstream, stored, lock, stable>>

-----------------------------------------------------------------------------
(* Moderation, request preparation and startVideoSubmission                *)

(* Mutant: a retry at the pinned member writes no new attempt.             *)
StartUnledgered(w) ==
  LET t == Task(w)  m == wk[w].member IN
  /\ Fenced(w)
  /\ attempts[t][m] < MaxAttempts[m]
  /\ attempts' = IF pin[t] = m THEN attempts ELSE [attempts EXCEPT ![t][m] = @ + 1]
  /\ open' = [open EXCEPT ![t] = TRUE]
  /\ SetStage(w, "submitting") /\ SetStatus(w, "running")
  /\ pin' = [pin EXCEPT ![t] = m]
  /\ deadline' = [deadline EXCEPT ![t] = "none"]

StartSubmission(w) ==
  LET t == Task(w)  m == wk[w].member IN
  /\ Fenced(w)
  /\ attempts[t][m] < MaxAttempts[m]
  /\ attempts' = [attempts EXCEPT ![t][m] = @ + 1]
  /\ open' = [open EXCEPT ![t] = TRUE]
  /\ SetStage(w, "submitting") /\ SetStatus(w, "running")
  /\ pin' = [pin EXCEPT ![t] = m]
  /\ deadline' = [deadline EXCEPT ![t] = "none"]

(* The attempt is durable before the POST ..                               *)
Start(w) ==
  /\ wk[w].pc = "prepare"
  /\ StartSubmission(w)
  /\ Become(w, "snapshot", "submitting", wk[w].member, None)
  /\ UNCHANGED <<claim, job, misses, creditVars, lease, upstream, stored, lock, stable>>

(* .. and is also recorded when the request could not be built at all.     *)
StartBroken(w) ==
  /\ wk[w].pc = "prepare"
  /\ StartSubmission(w)
  /\ Become(w, "mark", "submitting", wk[w].member, "switch")
  /\ UNCHANGED <<claim, job, misses, creditVars, lease, upstream, stored, lock, stable>>

StartRefused(w) ==
  /\ wk[w].pc = "prepare"
  /\ ~Fenced(w) \/ attempts[Task(w)][wk[w].member] >= MaxAttempts[wk[w].member]
  /\ Finish(w)
  /\ UNCHANGED sharedVars

(* The request snapshot is the last write, and the last fence, before I/O. *)
Snapshot(w) ==
  /\ wk[w].pc = "snapshot"
  /\ Fenced(w)
  /\ Goto(w, "post")
  /\ UNCHANGED sharedVars

SnapshotFails(w) ==
  /\ wk[w].pc = "snapshot"
  /\ ~stable
  /\ Become(w, "mark", wk[w].stage, wk[w].member, "terminal")
  /\ UNCHANGED sharedVars

-----------------------------------------------------------------------------
(* executeVideoProvider("videos.generate") and its answer                  *)

(* The POST is not idempotent: the member may accept a new job each time.  *)
Post(w) ==
  /\ wk[w].pc = "post"
  /\ \E accepted \in {0, 1} :
       upstream' = [upstream EXCEPT ![Task(w)][wk[w].member] = @ + accepted]
  /\ Goto(w, "await")
  /\ UNCHANGED <<taskVars, creditVars, tryVars, lease, stored, lock, stable>>

(* An answer that names a job is about one the member really has.          *)
Answered(w) == wk[w].pc = "await" /\ upstream[Task(w)][wk[w].member] > 0

Accepted(w) ==
  LET t == Task(w) IN
  /\ Answered(w) /\ Fenced(w)
  /\ SetStage(w, "polling") /\ SetStatus(w, "running")
  /\ job' = [job EXCEPT ![t] = wk[w].member]
  /\ misses' = [misses EXCEPT ![t] = 0]
  /\ Finish(w)
  /\ UNCHANGED <<claim, pin, deadline, creditVars, tryVars, lease, upstream, stored,
                 lock, stable>>

(* acceptVideoDownload                                                     *)
AcceptDownload(w) ==
  /\ Fenced(w)
  /\ SetStage(w, "downloading") /\ SetStatus(w, "running")
  /\ misses' = [misses EXCEPT ![Task(w)] = 0]
  /\ Become(w, "download", "downloading", wk[w].member, None)
  /\ UNCHANGED <<claim, pin, job, deadline, creditVars, tryVars, lease, upstream,
                 stored, lock, stable>>

Delivered(w) == Answered(w) /\ AcceptDownload(w)

(* Network failure, HTTP error, unreadable answer: the job may exist.      *)
SubmitFails(w) ==
  /\ wk[w].pc = "await"
  /\ \E cause \in Causes : Become(w, "mark", wk[w].stage, wk[w].member, cause)
  /\ UNCHANGED sharedVars

(* Mutant: recovery reschedules without closing the attempt it interrupted.*)
RecoverUnmarked(w) ==
  /\ Executes(w, {"submitting"})
  /\ Become(w, "reschedule", wk[w].stage, wk[w].member, "retry")
  /\ UNCHANGED sharedVars

(* A task found submitting counts as a network failure of its attempt.     *)
Recover(w) ==
  /\ Executes(w, {"submitting"})
  /\ Become(w, "mark", wk[w].stage, wk[w].member, "retry")
  /\ UNCHANGED sharedVars

-----------------------------------------------------------------------------
(* retryVideoSubmission: close the attempt, then retry, switch or fail.    *)

MarkAttempt(w) ==
  /\ wk[w].pc = "mark"
  /\ open' = IF Owns(w) THEN [open EXCEPT ![Task(w)] = FALSE] ELSE open
  /\ Goto(w, IF wk[w].cause = "terminal" THEN "fail" ELSE "reschedule")
  /\ UNCHANGED <<taskVars, creditVars, attempts, lease, upstream, stored, lock, stable>>

Switches(w) ==
  LET m == wk[w].member IN
  wk[w].cause = "switch" \/ attempts[Task(w)][m] >= MaxAttempts[m]

Retry(w) ==
  /\ wk[w].pc = "reschedule" /\ Fenced(w) /\ ~Switches(w)
  /\ SetStage(w, "retrying") /\ SetStatus(w, "running")
  /\ Finish(w)
  /\ UNCHANGED <<claim, pin, job, misses, deadline, creditVars, tryVars, lease, upstream,
                 stored, lock, stable>>

Switch(w) ==
  /\ wk[w].pc = "reschedule" /\ Fenced(w) /\ Switches(w)
  /\ SetStage(w, "retrying") /\ SetStatus(w, "running")
  /\ pin' = [pin EXCEPT ![Task(w)] = None]
  /\ DropOwnLease(w)
  /\ Finish(w)
  /\ UNCHANGED <<claim, job, misses, deadline, creditVars, tryVars, upstream, stored,
                 lock, stable>>

-----------------------------------------------------------------------------
(* polling: queryProvider, inspectVideoProviderResult, retryVideoQuery     *)

QueryPending(w) ==
  /\ wk[w].pc = "query" /\ Fenced(w)
  /\ ~stable
  /\ misses' = [misses EXCEPT ![Task(w)] = 0]
  /\ Finish(w)
  /\ UNCHANGED <<stage, status, claim, pin, job, deadline, creditVars, tryVars, lease,
                 upstream, stored, lock, stable>>

QueryReady(w) == wk[w].pc = "query" /\ AcceptDownload(w)

(* A network failure or a busy script runtime does not count as a miss.    *)
QueryTransient(w) ==
  /\ wk[w].pc = "query" /\ Fenced(w)
  /\ ~stable
  /\ misses' = [misses EXCEPT ![Task(w)] = wk[w].misses]
  /\ Finish(w)
  /\ UNCHANGED <<stage, status, claim, pin, job, deadline, creditVars, tryVars, lease,
                 upstream, stored, lock, stable>>

(* Mutant: off by one.                                                     *)
MissedOutLate(w) == wk[w].misses + 1 > QueryMissLimit
MissedOut(w) == wk[w].misses + 1 >= QueryMissLimit

QueryMiss(w) ==
  /\ wk[w].pc = "query" /\ Fenced(w)
  /\ ~MissedOut(w)
  /\ misses' = [misses EXCEPT ![Task(w)] = wk[w].misses + 1]
  /\ Finish(w)
  /\ UNCHANGED <<stage, status, claim, pin, job, deadline, creditVars, tryVars, lease,
                 upstream, stored, lock, stable>>

-----------------------------------------------------------------------------
(* downloadClaimedVideo                                                    *)

(* Ownership is checked again after the download, before the write.        *)
Download(w) ==
  /\ wk[w].pc = "download"
  /\ Fenced(w)
  /\ Goto(w, "store")
  /\ UNCHANGED sharedVars

Store(w) ==
  /\ wk[w].pc = "store"
  /\ stored' = [stored EXCEPT ![Task(w)] = TRUE]
  /\ Goto(w, "complete")
  /\ UNCHANGED <<taskVars, creditVars, tryVars, lease, upstream, lock, stable>>

(* Mutant: completion is not fenced by the claim and the stage.            *)
CompleteUnfenced(w) ==
  LET t == Task(w) IN
  /\ wk[w].pc = "complete"
  /\ SetStage(w, "completed") /\ SetStatus(w, "completed")
  /\ reserved' = [reserved EXCEPT ![t] = FALSE]
  /\ claim' = [claim EXCEPT ![t] = None]
  /\ DropOwnLease(w)
  /\ Finish(w)
  /\ UNCHANGED <<pin, job, misses, deadline, consumed, wallet, keyUsed, debits, refunds,
                 tryVars, upstream, stored, lock, stable>>

Complete(w) ==
  LET t == Task(w) IN
  /\ wk[w].pc = "complete" /\ Fenced(w)
  /\ SetStage(w, "completed") /\ SetStatus(w, "completed")
  /\ reserved' = [reserved EXCEPT ![t] = FALSE]
  /\ claim' = [claim EXCEPT ![t] = None]
  /\ DropOwnLease(w)
  /\ Finish(w)
  /\ UNCHANGED <<pin, job, misses, deadline, consumed, wallet, keyUsed, debits, refunds,
                 tryVars, upstream, stored, lock, stable>>

-----------------------------------------------------------------------------
(* Ways for an execution to end that write nothing of consequence.         *)

(* To failClaimedVideo, from wherever the code takes a failure for final.  *)
FailFinally(w) ==
  /\ \/ Executes(w, {"created"}) /\ Chargeable(Task(w)) /\ ~Affordable(Task(w))
     \/ Executes(w, {"charged", "retrying"}) /\ ~Fixed(w) /\ wk[w].cause # "full"
     \/ WaitsForCapacity(w) /\ deadline[Task(w)] = "past"
     \/ wk[w].pc = "prepare"    \* moderation or input preparation refused it
     \/ Answered(w)             \* accepted under an unusable identifier
     \/ wk[w].pc = "query"      \* a terminal answer, or the last miss allowed
     \/ wk[w].pc = "download"   \* the output is not acceptable
  /\ Goto(w, "fail")
  /\ UNCHANGED sharedVars

(* videoWait: the script runtime, the provider's file host or the storage  *)
(* is unavailable; the stage is kept and tried again later.                *)
Wait(w) ==
  /\ wk[w].pc \in {"prepare", "download", "store"} /\ ~stable
  /\ Finish(w)
  /\ UNCHANGED sharedVars

(* The member has no room for a task it already accepted, or the claim is  *)
(* lost when the lease is taken.                                           *)
LeaseRefused(w) ==
  /\ \/ Executes(w, {"charged", "retrying", "polling", "downloading"}) /\ ~LeaseFenced(w)
     \/ Executes(w, {"polling", "downloading"}) /\ ~HasRoom(w, wk[w].member)
  /\ Finish(w)
  /\ UNCHANGED sharedVars

(* errVideoClaimLost: a fenced write finds no row.                         *)
LoseClaim(w) ==
  /\ \/ wk[w].pc \in {"snapshot", "reschedule", "query", "download", "complete", "fail"}
     \/ Answered(w)
     \/ WaitsForCapacity(w)
  /\ ~Fenced(w)
  /\ Finish(w)
  /\ UNCHANGED sharedVars

-----------------------------------------------------------------------------
(* failClaimedVideo and refundVideoTask                                    *)

Fail(w) ==
  /\ wk[w].pc = "fail" /\ Fenced(w)
  /\ SetStage(w, "refunding") /\ SetStatus(w, "failed")
  /\ DropOwnLease(w)
  /\ Goto(w, "refund")
  /\ UNCHANGED <<claim, pin, job, misses, deadline, creditVars, tryVars, upstream, stored,
                 lock, stable>>

(* Mutant: the row keeps its credits_consumed.                             *)
SettleKeepingPrice(t) ==
  /\ IF consumed[t]
       THEN wallet' = wallet + 1 - refunds[t] /\ refunds' = [refunds EXCEPT ![t] = 1]
       ELSE UNCHANGED <<wallet, refunds>>
  /\ IF reserved[t]
       THEN keyUsed' = IF keyUsed > 0 THEN keyUsed - 1 ELSE 0
       ELSE UNCHANGED keyUsed
  /\ reserved' = [reserved EXCEPT ![t] = FALSE]
  /\ stage' = [stage EXCEPT ![t] = "failed"]
  /\ status' = [status EXCEPT ![t] = "failed"]
  /\ claim' = [claim EXCEPT ![t] = None]
  /\ lease' = [lease EXCEPT ![t] = NoLease]
  /\ UNCHANGED consumed

(* Mutant: the reservation of the key is given back, and kept.             *)
SettleKeepingReservation(t) ==
  /\ IF consumed[t]
       THEN wallet' = wallet + 1 - refunds[t] /\ refunds' = [refunds EXCEPT ![t] = 1]
       ELSE UNCHANGED <<wallet, refunds>>
  /\ IF reserved[t]
       THEN keyUsed' = IF keyUsed > 0 THEN keyUsed - 1 ELSE 0
       ELSE UNCHANGED keyUsed
  /\ consumed' = [consumed EXCEPT ![t] = FALSE]
  /\ stage' = [stage EXCEPT ![t] = "failed"]
  /\ status' = [status EXCEPT ![t] = "failed"]
  /\ claim' = [claim EXCEPT ![t] = None]
  /\ lease' = [lease EXCEPT ![t] = NoLease]
  /\ UNCHANGED reserved

(* One transaction under the row lock, fenced by nothing else.             *)
Settle(t) ==
  /\ IF consumed[t]
       THEN /\ wallet' = wallet + 1 - refunds[t]  \* a replayed entry moves nothing
            /\ refunds' = [refunds EXCEPT ![t] = 1]
       ELSE UNCHANGED <<wallet, refunds>>
  /\ IF reserved[t]
       THEN keyUsed' = IF keyUsed > 0 THEN keyUsed - 1 ELSE 0
       ELSE UNCHANGED keyUsed
  /\ consumed' = [consumed EXCEPT ![t] = FALSE]
  /\ reserved' = [reserved EXCEPT ![t] = FALSE]
  /\ stage' = [stage EXCEPT ![t] = "failed"]
  /\ status' = [status EXCEPT ![t] = "failed"]
  /\ claim' = [claim EXCEPT ![t] = None]
  /\ lease' = [lease EXCEPT ![t] = NoLease]

Refund(w) ==
  /\ wk[w].pc = "refund" \/ Executes(w, Failing)
  /\ IF stage[Task(w)] = "completed"
       THEN UNCHANGED <<wallet, refunds, keyUsed, consumed, reserved, stage, status,
                        claim, lease>>
       ELSE Settle(Task(w))
  /\ Finish(w)
  /\ UNCHANGED <<pin, job, misses, deadline, debits, tryVars, upstream, stored, lock, stable>>

-----------------------------------------------------------------------------
(* The end of processDurableVideo                                          *)

Release(w) ==
  /\ wk[w].pc = "release"
  /\ claim' = IF Owns(w) THEN [claim EXCEPT ![Task(w)] = None] ELSE claim
  /\ Goto(w, "unlock")
  /\ UNCHANGED <<stage, status, pin, job, misses, deadline, creditVars, tryVars, lease,
                 upstream, stored, lock, stable>>

DropLock(w) == lock' = [t \in Tasks |-> IF lock[t] = w THEN None ELSE lock[t]]

Unlock(w) ==
  /\ wk[w].pc = "unlock"
  /\ DropLock(w)
  /\ Retire(w)
  /\ wk' = [wk EXCEPT ![w] = Idle]
  /\ UNCHANGED <<stage, status, pin, job, misses, deadline, creditVars, tryVars,
                 upstream, stored, stable>>

-----------------------------------------------------------------------------
(* Faults and the passing of time                                          *)

(* The process dies: its sessions, and with them its locks, are gone.      *)
Crash(w) ==
  /\ wk[w].pc # "idle" /\ ~stable
  /\ DropLock(w)
  /\ Retire(w)
  /\ wk' = [wk EXCEPT ![w] = Idle]
  /\ UNCHANGED <<stage, status, pin, job, misses, deadline, creditVars, tryVars,
                 upstream, stored, stable>>

(* A statement, or the context the heartbeat cancels, fails: the execution *)
(* is abandoned where it stands and its claim released ..                  *)
Abort(w) ==
  /\ wk[w].pc \notin {"idle", "lock", "load", "own", "release", "unlock"} /\ ~stable
  /\ Finish(w)
  /\ UNCHANGED sharedVars

(* .. unless it has none yet, or releasing it is what failed.              *)
AbortUnreleased(w) ==
  /\ wk[w].pc \in {"load", "own", "release"} /\ ~stable
  /\ Goto(w, "unlock")
  /\ UNCHANGED sharedVars

(* The connection that holds the advisory lock breaks; nothing watches it. *)
LoseSession(w) ==
  /\ SessionLoss /\ ~stable
  /\ \E t \in Tasks : lock[t] = w
  /\ DropLock(w)
  /\ UNCHANGED <<taskVars, creditVars, tryVars, lease, upstream, stored, wk, stable>>

(* The heartbeat renews the claim of a live execution, unless the process  *)
(* is suspended for longer than the TTL.                                   *)
ExpireClaim(t) ==
  /\ claim[t] # None
  /\ claim[t] = Stale \/ ~stable
  /\ claim' = [claim EXCEPT ![t] = None]
  /\ UNCHANGED <<stage, status, pin, job, misses, deadline, creditVars, tryVars, lease,
                 upstream, stored, lock, wk, stable>>

(* Mutant: the heartbeat renews the claim only.                            *)
ExpireLeaseEarly(t) ==
  /\ lease[t].member # None
  /\ lease' = [lease EXCEPT ![t] = NoLease]
  /\ UNCHANGED <<taskVars, creditVars, tryVars, upstream, stored, lock, wk, stable>>

(* It renews the lease after the claim, so a lease never expires before it.*)
ExpireLease(t) ==
  /\ lease[t].member # None
  /\ lease[t].owner = Stale \/ claim[t] # lease[t].owner
  /\ lease' = [lease EXCEPT ![t] = NoLease]
  /\ UNCHANGED <<taskVars, creditVars, tryVars, upstream, stored, lock, wk, stable>>

PassDeadline(t) ==
  /\ deadline[t] = "set"
  /\ deadline' = [deadline EXCEPT ![t] = "past"]
  /\ UNCHANGED <<stage, status, claim, pin, job, misses, creditVars, tryVars, lease,
                 upstream, stored, lock, wk, stable>>

Stabilise ==
  /\ ~stable
  /\ stable' = TRUE
  /\ UNCHANGED <<taskVars, creditVars, tryVars, lease, upstream, stored, lock, wk>>

-----------------------------------------------------------------------------
Enter(w) == TryLock(w) \/ LockBusy(w) \/ Load(w) \/ LoadSettled(w) \/ TakeClaim(w)
ChargeStep(w) == Charge(w) \/ ChargeNothing(w)
LeaseStep(w) ==
  \/ LeaseAgain(w) \/ CapacityWait(w)
  \/ \E m \in Members : Select(w, m) \/ SelectFull(w, m)
SubmitStep(w) ==
  \/ Start(w) \/ StartBroken(w) \/ StartRefused(w) \/ Snapshot(w) \/ SnapshotFails(w)
  \/ Post(w) \/ Accepted(w) \/ Delivered(w) \/ SubmitFails(w)
  \/ Recover(w) \/ MarkAttempt(w) \/ Retry(w) \/ Switch(w)
QueryStep(w) == QueryPending(w) \/ QueryReady(w) \/ QueryTransient(w) \/ QueryMiss(w)
DownloadStep(w) == Download(w) \/ Store(w) \/ Complete(w)
EndStep(w) ==
  \/ FailFinally(w) \/ Wait(w) \/ LeaseRefused(w) \/ LoseClaim(w)
  \/ Fail(w) \/ Refund(w) \/ Release(w) \/ Unlock(w)

Step(w) ==
  \/ Enter(w) \/ ChargeStep(w) \/ LeaseStep(w) \/ SubmitStep(w)
  \/ QueryStep(w) \/ DownloadStep(w) \/ EndStep(w)

Fault(w) == Crash(w) \/ Abort(w) \/ AbortUnreleased(w) \/ LoseSession(w)
Clock(t) == ExpireClaim(t) \/ ExpireLease(t) \/ PassDeadline(t)

(* Every task is settled: claimNext finds nothing and the loops go on.     *)
NothingDue ==
  /\ \A t \in Tasks : Settled(t)
  /\ \A w \in Workers : wk[w].pc = "idle"
  /\ UNCHANGED vars

Next ==
  \/ \E w \in Workers : Step(w) \/ Fault(w) \/ \E t \in Tasks : Claim(w, t)
  \/ \E t \in Tasks : Clock(t)
  \/ Stabilise \/ NothingDue

Spec == Init /\ [][Next]_vars

(* A goroutine that runs goes on, every call it makes having a timeout; the*)
(* claim query takes the task that is due longest; time passes; faults end.*)
Fairness ==
  /\ \A w \in Workers : WF_vars(Step(w))
  /\ \A t \in Tasks : /\ SF_vars(\E w \in Workers : Claim(w, t))
                      /\ WF_vars(ExpireClaim(t))
                      /\ WF_vars(ExpireLease(t))
                      /\ WF_vars(PassDeadline(t))
  /\ WF_vars(Stabilise)

FairSpec == Spec /\ Fairness

-----------------------------------------------------------------------------
(* PROPERTIES                                                              *)

Charged == {t \in Tasks : consumed[t]}
Billed == {t \in Tasks : reserved[t] \/ stage[t] = "completed"}

(* Credits are neither created nor lost: what the wallet lacks is exactly  *)
(* what unsettled and completed tasks have consumed (chargeVideoTask and   *)
(* refundVideoTask, under crashes, retries and lost locks).                *)
WalletBalanced == wallet + Cardinality(Charged) = Balance

(* credits_used of the API key is what running tasks reserve and completed *)
(* ones have spent, and never exceeds the key's limit.                     *)
KeyBalanced == keyUsed = Cardinality(Billed) /\ keyUsed <= KeyLimit

(* A finished task was paid once and delivered, or cost nothing: no task   *)
(* is both delivered and refunded, none fails with its price kept.         *)
SettledOnce == \A t \in Tasks :
  /\ stage[t] = "completed" => debits[t] = 1 /\ refunds[t] = 0 /\ stored[t]
  /\ stage[t] = "failed" => debits[t] = refunds[t] /\ ~consumed[t] /\ ~reserved[t]
  /\ debits[t] <= 1 /\ refunds[t] <= debits[t]

(* "A second Go replica can never POST this task while the first is still  *)
(* alive" (comment above processDurableVideo): two live executions of a    *)
(* task are never both past the last fence before the provider call.       *)
SinglePoster == \A v, w \in Workers :
  /\ wk[v].pc \in {"post", "await"}
  /\ wk[w].pc \in {"post", "await"}
  /\ Task(v) = Task(w)
  => v = w

(* Every job a provider member holds for a task stands in the attempt      *)
(* ledger, which never exceeds the retry budget of the member, whatever    *)
(* crashes, switches and recoveries come between.                          *)
PostsLedgered == \A t \in Tasks, m \in Members :
  upstream[t][m] <= attempts[t][m] /\ attempts[t][m] <= MaxAttempts[m]

(* acquireVideoMemberLease counts, then inserts: however tasks come and go *)
(* at a member, its unexpired leases never exceed its concurrency.         *)
CapacityRespected == \A m \in Members :
  Cardinality({t \in Tasks : lease[t].member = m}) <= Capacity[m]

(* An execution that talks to a member under its own unexpired claim still *)
(* has the lease it took there: crashes, takeovers, expiry and the refunds *)
(* of other executions never make a call that the member's count misses.   *)
LeaseHeld == \A w \in Workers :
  wk[w].pc \in {"post", "await", "query"} /\ Owns(w)
    => lease[Task(w)] = [member |-> wk[w].member, owner |-> w]

(* A task that waits for its next submission has closed its last attempt,  *)
(* and an accepted one keeps the member that accepted it: the guards of    *)
(* executeVideoState against a missing provider identity are never hit,    *)
(* and what is polled is a job that exists at the pinned member.           *)
ProviderIdentity == \A t \in Tasks :
  /\ stage[t] \in {"charged", "retrying"} => ~open[t]
  /\ stage[t] \in {"submitting", "polling", "downloading", "completed"} => pin[t] # None
  /\ stage[t] = "polling" => job[t] = pin[t]
  /\ stage[t] \in {"polling", "downloading", "completed"} => upstream[t][pin[t]] > 0

(* Once a provider accepted the task, no later step submits it again or    *)
(* moves it to another member (docs/image-backend-pool-scheduling.md).     *)
NoResubmission ==
  [][\A t \in Tasks : stage[t] \in {"polling", "downloading"}
       => attempts'[t] = attempts[t] /\ pin'[t] = pin[t] /\ job'[t] = job[t]]_vars

(* The callback queue sends status completed or failed as soon as it sees  *)
(* it: once final, no claim, late worker or recovery changes it.           *)
StatusFinal ==
  [][\A t \in Tasks : status[t] \in Final => status'[t] = status[t]]_vars

(* Every task is settled in the end, once faults stop.                     *)
EventuallySettled == \A t \in Tasks : <>[]Settled(t)

-----------------------------------------------------------------------------
(* What the worker promises of a task's money (module TaskSettlement).     *)

Phase(t) == CASE stage[t] = "completed" -> "delivered"
              [] stage[t] = "failed" /\ debits[t] = 0 -> "rejected"
              [] stage[t] = "failed" /\ debits[t] # 0 -> "refunded"
              [] stage[t] \notin Final /\ debits[t] = 0 -> "quoted"
              [] stage[t] \notin Final /\ debits[t] # 0 -> "charged"

Settlement == INSTANCE TaskSettlement
                WITH phase <- [t \in Tasks |-> Phase(t)], credits <- wallet, used <- keyUsed

ImplementsSettlement == Settlement!Spec
=============================================================================
