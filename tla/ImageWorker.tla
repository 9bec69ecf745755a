---------------------------- MODULE ImageWorker ----------------------------
(***************************************************************************)
(* The image worker of services/api-gateway: replicas claim rows of        *)
(* image_async_task, run them under a PostgreSQL session advisory lock,    *)
(* submit each image at most once to its provider member, poll it, repair  *)
(* the result with a second paid call, and settle the generation.  The     *)
(* maintenance loop fails and refunds generations that are too old, without*)
(* asking any worker.                                                      *)
(*                                                                         *)
(* A worker is one execution slot of one replica.  A claim token is the    *)
(* worker that wrote it while that execution lives; tokens of executions   *)
(* that are over, and the one the claim query writes, are only compared for*)
(* inequality and are all the value Stale.  A lease row outlives its expiry*)
(* and a renewal that comes late revives it uncounted: whose row it is, and*)
(* whether it counts, are two variables.  A task is pinned to its member by*)
(* the billing snapshot: all tasks here share one member, for the image and*)
(* for its repair.                                                         *)
(* Every delay in mq_delivery_due_at, and the 20 minutes of the sweeper and*)
(* of polling, may have elapsed.  One repair step stands for the tiles of  *)
(* an output.  Scheduler metrics, previews and the best-effort callback are*)
(* left out: nothing is read back from them.                               *)
(***************************************************************************)
EXTENDS Naturals, FiniteSets

CONSTANTS
  Tasks,        \* rows of image_async_task, each with its generation
  Workers,      \* execution slots of all replicas
  Limit,        \* IMAGE_GENERATION_GLOBAL_CONCURRENCY
  Capacity,     \* concurrency of the provider member
  Price,        \* credits charged when the task is admitted
  RepairPrice,  \* credits charged for a repair
  Fee,          \* moderation fee that a failure may keep: part of the price
  MissLimit,    \* errors of polls in a row that fail the task: 3
  Repairs,      \* is block repair enabled?
  SessionLoss,  \* may a live worker lose the session that holds its lock?
  None,         \* SQL NULL
  Stale         \* any token that no live execution holds

ASSUME TasksAssumption == IsFiniteSet(Tasks)
ASSUME WorkersAssumption == None \notin Workers /\ Stale \notin Workers /\ None # Stale
ASSUME LimitsAssumption == Limit \in Nat /\ Capacity \in Nat /\ MissLimit \in Nat \ {0}
ASSUME PricesAssumption == /\ Price \in Nat /\ RepairPrice \in Nat /\ Fee \in Nat
                           /\ Fee <= Price
ASSUME SwitchesAssumption == Repairs \in BOOLEAN /\ SessionLoss \in BOOLEAN

VARIABLES
  status, claim, live,    \* image_async_task; live: claim_expires_at > now()
  gen, consumed,          \* generation: status, credits_consumed
  call, misses,           \* metadata.apiImage: stage and failures
  receipt,                \* metadata.imageRepairSteps: stage
  lease,                  \* the live execution that owns the row "go-image:<task>"
  repairLease,            \* owner_token of the row "go-image-repair:<task>:<step>"
  place, repairPlace,     \* are these rows unexpired: since counted, or revived?
  paid, refunded,         \* ledger totals of the generation's operation
  refunds,                \* source references of its refunds
  jobs, repairJobs,       \* POSTs that may have left a job at the provider
  lock,                   \* session advisory lock image-execute:<task>
  wk,                     \* local state of every worker
  stable                  \* no more faults

taskVars == <<status, claim, live>>
moneyVars == <<consumed, paid, refunded, refunds>>
genVars == <<gen, call, misses, receipt>>
imageVars == <<lease, place>>
repairVars == <<repairLease, repairPlace>>
leaseVars == <<imageVars, repairVars>>
jobVars == <<jobs, repairJobs>>
sharedVars == <<taskVars, moneyVars, genVars, leaseVars, jobVars, lock, stable>>
vars == <<sharedVars, wk>>

Final == {"completed", "failed"}
Owners == Workers \cup {Stale, None}
Places == {"none", "counted", "revived"}

Entering == {"lock", "enter", "take"}
Renewing == {"receipt", "repost", "reawait", "recharge", "restop"}
Repairing == {"repair", "reserve"} \cup Renewing
Executing == {"load", "state", "lease", "send", "post", "opaque", "postAgain", "await",
              "query", "persist", "read", "store", "commit", "fail", "close"} \cup Repairing
PCs == {"idle", "release", "drop", "unlock"} \cup Entering \cup Executing

At(pc, t) == [pc |-> pc, task |-> t, polling |-> FALSE, misses |-> 0]
Idle == At("idle", None)

TypeOK ==
  /\ status \in [Tasks -> {"queued", "running"} \cup Final]
  /\ claim \in [Tasks -> Owners] /\ live \in [Tasks -> BOOLEAN]
  /\ gen \in [Tasks -> {"pending"} \cup Final]
  /\ call \in [Tasks -> {"none", "submitting", "opaque", "polling"}]
  /\ misses \in [Tasks -> 0 .. MissLimit - 1]
  /\ receipt \in [Tasks -> {"none", "submitting", "completed"}]
  /\ lease \in [Tasks -> Workers \cup {None}] /\ repairLease \in [Tasks -> Owners]
  /\ place \in [Tasks -> Places] /\ repairPlace \in [Tasks -> Places]
  /\ consumed \in [Tasks -> Nat] /\ paid \in [Tasks -> Nat] /\ refunded \in [Tasks -> Nat]
  /\ refunds \in [Tasks -> SUBSET {"worker", "timeout"}]
  /\ jobs \in [Tasks -> Nat] /\ repairJobs \in [Tasks -> Nat]
  /\ lock \in [Tasks -> Workers \cup {None}]
  /\ wk \in [Workers -> [pc : PCs, task : Tasks \cup {None}, polling : BOOLEAN,
                         misses : 0 .. MissLimit - 1]]
  /\ stable \in BOOLEAN

(* createImageTask charges the wallet and inserts both rows in one         *)
(* transaction.                                                            *)
Init ==
  /\ status = [t \in Tasks |-> "queued"]
  /\ claim = [t \in Tasks |-> None] /\ live = [t \in Tasks |-> FALSE]
  /\ gen = [t \in Tasks |-> "pending"]
  /\ consumed = [t \in Tasks |-> Price] /\ paid = [t \in Tasks |-> Price]
  /\ refunded = [t \in Tasks |-> 0] /\ refunds = [t \in Tasks |-> {}]
  /\ call = [t \in Tasks |-> "none"] /\ misses = [t \in Tasks |-> 0]
  /\ receipt = [t \in Tasks |-> "none"]
  /\ lease = [t \in Tasks |-> None] /\ repairLease = [t \in Tasks |-> None]
  /\ place = [t \in Tasks |-> "none"] /\ repairPlace = [t \in Tasks |-> "none"]
  /\ jobs = [t \in Tasks |-> 0] /\ repairJobs = [t \in Tasks |-> 0]
  /\ lock = [t \in Tasks |-> None]
  /\ wk = [w \in Workers |-> Idle]
  /\ stable = FALSE

-----------------------------------------------------------------------------
(* What a worker reads and writes.                                         *)

Task(w) == wk[w].task
In(w, pc) == wk[w].pc = pc
Goto(w, pc) == wk' = [wk EXCEPT ![w].pc = pc]
(* executeImageProviderTask returns: its copy of the state is gone.        *)
Return(w, pc) == wk' = [wk EXCEPT ![w] = At(pc, Task(w))]
Owns(w) == claim[Task(w)] = w

(* assertImageRepairClaim, and the same checks inlined in the statements.  *)
Fenced(w) == Owns(w) /\ live[Task(w)] /\ status[Task(w)] = "running"
Pending(w) == gen[Task(w)] = "pending"

(* The unexpired leases of the member.                                     *)
Leased == {u \in Tasks : place[u] # "none"}
RepairLeased == {u \in Tasks : repairPlace[u] # "none"}

(* DELETE ... WHERE owner_token: the rows, and the places they stood for.  *)
DropOwn(leases, w) == [t \in Tasks |-> IF leases[t] = w THEN None ELSE leases[t]]
Vacate(places, leases, w) == [t \in Tasks |-> IF leases[t] = w THEN "none" ELSE places[t]]
GoStale(owners, w) == [t \in Tasks |-> IF owners[t] = w THEN Stale ELSE owners[t]]
DropLock(w) == lock' = [t \in Tasks |-> IF lock[t] = w THEN None ELSE lock[t]]

-----------------------------------------------------------------------------
(* claimImageTask and the entry of processImage                            *)

Running == {t \in Tasks : status[t] = "running" /\ claim[t] # None /\ live[t]}
(* Mutant: only running tasks that once had a claim are claimed again.     *)
ClaimableExpired(t) == \/ status[t] = "queued"
                       \/ status[t] = "running" /\ claim[t] # None /\ ~live[t]
Claimable(t) == \/ status[t] = "queued"
                \/ status[t] = "running" /\ ~live[t]

(* Mutant: the limit is compared after the count is one too high.          *)
HasSlotForOneMore == Cardinality(Running) <= Limit
HasSlot == Cardinality(Running) < Limit

Claim(w, t) ==
  /\ In(w, "idle")
  /\ HasSlot /\ Claimable(t)
  /\ status' = [status EXCEPT ![t] = "running"]
  /\ claim' = [claim EXCEPT ![t] = Stale] /\ live' = [live EXCEPT ![t] = TRUE]
  /\ wk' = [wk EXCEPT ![w] = At("lock", t)]
  /\ UNCHANGED <<moneyVars, genVars, leaseVars, jobVars, lock, stable>>

TryLock(w) ==
  /\ In(w, "lock")
  /\ lock[Task(w)] = None
  /\ lock' = [lock EXCEPT ![Task(w)] = w]
  /\ Goto(w, "enter")
  /\ UNCHANGED <<taskVars, moneyVars, genVars, leaseVars, jobVars, stable>>

LockBusy(w) ==
  /\ In(w, "lock")
  /\ lock[Task(w)] # None
  /\ wk' = [wk EXCEPT ![w] = Idle]
  /\ UNCHANGED sharedVars

EnterTask(w) ==
  /\ In(w, "enter")
  /\ Goto(w, IF status[Task(w)] \in Final THEN "unlock" ELSE "take")
  /\ UNCHANGED sharedVars

(* Mutant: the fencing update forgets which statuses it may touch.         *)
TakeAnyClaim(w) ==
  LET t == Task(w) IN
  /\ In(w, "take")
  /\ status' = [status EXCEPT ![t] = "running"]
  /\ claim' = [claim EXCEPT ![t] = w] /\ live' = [live EXCEPT ![t] = TRUE]
  /\ Goto(w, "load")
  /\ UNCHANGED <<moneyVars, genVars, leaseVars, jobVars, lock, stable>>

(* The lock holder replaces whatever claim an unfinished row has.          *)
TakeClaim(w) ==
  LET t == Task(w) IN
  /\ In(w, "take")
  /\ IF status[t] \in Final
       THEN Goto(w, "unlock") /\ UNCHANGED taskVars
       ELSE /\ status' = [status EXCEPT ![t] = "running"]
            /\ claim' = [claim EXCEPT ![t] = w] /\ live' = [live EXCEPT ![t] = TRUE]
            /\ Goto(w, "load")
  /\ UNCHANGED <<moneyVars, genVars, leaseVars, jobVars, lock, stable>>

-----------------------------------------------------------------------------
(* executeClaimedImage: a final generation only closes its task; the state *)
(* of an earlier execution decides what this one may still do.             *)

LoadPending(w) ==
  /\ In(w, "load")
  /\ Pending(w)
  /\ Goto(w, "state")
  /\ UNCHANGED sharedVars

(* The update of the task names no token.                                  *)
Reconcile(w) ==
  LET t == Task(w) IN
  /\ In(w, "load")
  /\ ~Pending(w)
  /\ IF status[t] \in Final
       THEN UNCHANGED taskVars
       ELSE /\ status' = [status EXCEPT ![t] = gen[t]]
            /\ claim' = [claim EXCEPT ![t] = None] /\ live' = [live EXCEPT ![t] = FALSE]
  /\ Goto(w, "release")
  /\ UNCHANGED <<moneyVars, genVars, leaseVars, jobVars, lock, stable>>

(* A submission that was interrupted is refused, whatever became of it.    *)
Resumable(t) == call[t] \in {"none", "polling"}

Resume(w) ==
  LET t == Task(w) IN
  /\ In(w, "state")
  /\ Resumable(t)
  /\ wk' = [wk EXCEPT ![w] = [pc |-> "lease", task |-> t,
                              polling |-> call[t] = "polling", misses |-> misses[t]]]
  /\ UNCHANGED sharedVars

(* Polling also ends 20 minutes after the submission.                      *)
Refuse(w) ==
  LET t == Task(w) IN
  /\ In(w, "state")
  /\ ~Resumable(t) \/ call[t] = "polling"
  /\ Goto(w, "fail")
  /\ UNCHANGED sharedVars

-----------------------------------------------------------------------------
(* acquireImageProviderLease                                               *)

(* Mutant: only the leases for images are counted.                         *)
HasRoomBesidesRepairs(t) == Cardinality(Leased \ {t}) < Capacity
HasRoom(t) == Cardinality(Leased \ {t}) + Cardinality(RepairLeased) < Capacity

(* Mutant: an execution that has lost its claim takes the row over.        *)
LeaseUnfenced(w) ==
  /\ In(w, "lease")
  /\ HasRoom(Task(w))
  /\ lease' = [lease EXCEPT ![Task(w)] = w]
  /\ place' = [place EXCEPT ![Task(w)] = "counted"]
  /\ Goto(w, IF wk[w].polling THEN "query" ELSE "send")
  /\ UNCHANGED <<taskVars, moneyVars, genVars, repairVars, jobVars, lock, stable>>

Lease(w) ==
  /\ In(w, "lease")
  /\ Fenced(w) /\ HasRoom(Task(w))
  /\ lease' = [lease EXCEPT ![Task(w)] = w]
  /\ place' = [place EXCEPT ![Task(w)] = "counted"]
  /\ Goto(w, IF wk[w].polling THEN "query" ELSE "send")
  /\ UNCHANGED <<taskVars, moneyVars, genVars, repairVars, jobVars, lock, stable>>

(* A full member is asked again later: by a new execution, or the next poll*)
LeaseFull(w) ==
  /\ In(w, "lease")
  /\ Fenced(w) /\ ~HasRoom(Task(w))
  /\ Goto(w, IF wk[w].polling THEN "persist" ELSE "release")
  /\ UNCHANGED sharedVars

(* No eligible provider, a lost claim, blocked content, unusable input.    *)
PrepareFails(w) ==
  /\ In(w, "lease") \/ In(w, "send")
  /\ ~wk[w].polling
  /\ Goto(w, "fail")
  /\ UNCHANGED sharedVars

-----------------------------------------------------------------------------
(* The submission.  imageBeforeSend stores the stage just before the POST. *)

Submittable(w) == Pending(w) /\ Owns(w) /\ live[Task(w)] /\ call[Task(w)] = "none"

(* Mutant: the stage is stored with the answer, not before the POST.       *)
BeforeSendUnstored(w) ==
  /\ In(w, "send")
  /\ Submittable(w)
  /\ Goto(w, "post")
  /\ UNCHANGED sharedVars

BeforeSend(w) ==
  /\ In(w, "send")
  /\ Submittable(w)
  /\ call' = [call EXCEPT ![Task(w)] = "submitting"]
  /\ Goto(w, "post")
  /\ UNCHANGED <<taskVars, moneyVars, gen, misses, receipt, leaseVars, jobVars, lock, stable>>

(* The claim is lost, or the script runtime is busy: nothing was sent.     *)
SendLater(w) ==
  /\ In(w, "send")
  /\ Goto(w, "release")
  /\ UNCHANGED sharedVars

(* From here on the provider may have the job.                             *)
Post(w) ==
  /\ In(w, "post") \/ In(w, "postAgain")
  /\ jobs' = [jobs EXCEPT ![Task(w)] = @ + 1]
  /\ Goto(w, "await")
  /\ UNCHANGED <<taskVars, moneyVars, genVars, leaseVars, repairJobs, lock, stable>>

(* The provider rejects a transparent background, and so has no job: there *)
(* will be one opaque submission.                                          *)
Transparent(w) ==
  /\ In(w, "post")
  /\ Goto(w, "opaque")
  /\ UNCHANGED sharedVars

BeforeOpaque(w) ==
  /\ In(w, "opaque")
  /\ Pending(w) /\ Owns(w) /\ live[Task(w)]
  /\ call' = [call EXCEPT ![Task(w)] = "opaque"]
  /\ Goto(w, "postAgain")
  /\ UNCHANGED <<taskVars, moneyVars, gen, misses, receipt, leaseVars, jobVars, lock, stable>>

OpaqueRefused(w) ==
  /\ In(w, "opaque")
  /\ ~(Pending(w) /\ Owns(w) /\ live[Task(w)])
  /\ Goto(w, "fail")
  /\ UNCHANGED sharedVars

(* The answer to a POST or a poll, read by inspectImageProviderResult.     *)
Answering(w) == In(w, "await") \/ In(w, "query")

AnswerOutput(w) ==
  /\ Answering(w)
  /\ Return(w, "read")
  /\ UNCHANGED sharedVars

AnswerPending(w) ==
  /\ Answering(w)
  /\ wk' = [wk EXCEPT ![w].pc = "persist", ![w].misses = 0]
  /\ UNCHANGED sharedVars

(* A terminal failure or an unusable answer; on a POST also a lost one.    *)
AnswerFails(w) ==
  /\ Answering(w)
  /\ Return(w, "fail")
  /\ UNCHANGED sharedVars

(* The provider is not reachable or busy: the poll did not count.          *)
QueryUnanswered(w) ==
  /\ In(w, "query")
  /\ Goto(w, "persist")
  /\ UNCHANGED sharedVars

(* Mutant: one error too many is tolerated.                                *)
MissedOutLate(w) == wk[w].misses + 1 > MissLimit
MissedOut(w) == wk[w].misses + 1 >= MissLimit

(* Any other error of a poll, and of taking the lease for it.              *)
QueryMiss(w) ==
  /\ In(w, "query") \/ (In(w, "lease") /\ wk[w].polling)
  /\ IF MissedOut(w)
       THEN Return(w, "fail")
       ELSE wk' = [wk EXCEPT ![w].pc = "persist", ![w].misses = @ + 1]
  /\ UNCHANGED sharedVars

(* persistPendingImageProvider: stores the polling state and gives the     *)
(* claim back; whatever it finds changed fails the task.                   *)
Persistable(w) == status[Task(w)] \notin Final /\ Owns(w) /\ live[Task(w)] /\ Pending(w)

Persist(w) ==
  LET t == Task(w) IN
  /\ In(w, "persist")
  /\ Persistable(w)
  /\ call' = [call EXCEPT ![t] = "polling"]
  /\ misses' = [misses EXCEPT ![t] = wk[w].misses]
  /\ status' = [status EXCEPT ![t] = "running"]
  /\ claim' = [claim EXCEPT ![t] = None] /\ live' = [live EXCEPT ![t] = FALSE]
  /\ Return(w, "release")
  /\ UNCHANGED <<moneyVars, gen, receipt, leaseVars, jobVars, lock, stable>>

PersistRefused(w) ==
  /\ In(w, "persist")
  /\ ~Persistable(w)
  /\ Return(w, "fail")
  /\ UNCHANGED sharedVars

-----------------------------------------------------------------------------
(* completeImageOutput and postprocessImageOutput                          *)

(* recordImageSchedulerResult: without the claim the execution just ends.  *)
Read(w) ==
  /\ In(w, "read")
  /\ \/ Fenced(w) /\ \E pc \in {"store"} \cup (IF Repairs THEN {"repair"} ELSE {}) : Goto(w, pc)
     \/ ~Fenced(w) /\ Goto(w, "release")
  /\ UNCHANGED sharedVars

(* An output that cannot be read or processed.                             *)
OutputFails(w) ==
  /\ In(w, "read") \/ In(w, "store")
  /\ Goto(w, "fail")
  /\ UNCHANGED sharedVars

Store(w) ==
  /\ In(w, "store")
  /\ Goto(w, "commit")
  /\ UNCHANGED sharedVars

StoreFails(w) ==
  /\ In(w, "store")
  /\ Goto(w, "release")
  /\ UNCHANGED sharedVars

(* Mutant: the completing transaction trusts the heartbeat.                *)
CompletableAlways(w) == status[Task(w)] = "running"

(* A COMMIT whose outcome is unknown is a Complete, or no step, and then   *)
(* the same end: what the code does to the stored objects is left out.     *)
Completable(w) == Fenced(w) /\ Pending(w)

Complete(w) ==
  LET t == Task(w) IN
  /\ In(w, "commit")
  /\ Completable(w)
  /\ gen' = [gen EXCEPT ![t] = "completed"]
  /\ status' = [status EXCEPT ![t] = "completed"]
  /\ claim' = [claim EXCEPT ![t] = None] /\ live' = [live EXCEPT ![t] = FALSE]
  /\ IF lease[t] = w
       THEN lease' = [lease EXCEPT ![t] = None] /\ place' = [place EXCEPT ![t] = "none"]
       ELSE UNCHANGED imageVars
  /\ Goto(w, "release")
  /\ UNCHANGED <<moneyVars, call, misses, receipt, repairVars, jobVars, lock, stable>>

CompleteRefused(w) ==
  /\ In(w, "commit")
  /\ ~Completable(w)
  /\ Goto(w, "release")
  /\ UNCHANGED sharedVars

-----------------------------------------------------------------------------
(* runImageRepairEdit: a failed repair leaves the original output.         *)

(* The receipt of an earlier attempt: its stored result, or nothing more.  *)
RepairKnown(w) ==
  /\ In(w, "repair")
  /\ receipt[Task(w)] # "none"
  /\ Goto(w, "store")
  /\ UNCHANGED sharedVars

(* The image has been made: its place at the member is given back.         *)
RepairNew(w) ==
  /\ In(w, "repair")
  /\ receipt[Task(w)] = "none"
  /\ lease' = DropOwn(lease, w) /\ place' = Vacate(place, lease, w)
  /\ Goto(w, "reserve")
  /\ UNCHANGED <<taskVars, moneyVars, genVars, repairVars, jobVars, lock, stable>>

HasRepairRoom == Cardinality(Leased) + Cardinality(RepairLeased) < Capacity

(* The INSERT fails while the row of an earlier execution is there, expired*)
(* or not: nothing removes it.                                             *)
RepairLease(w) ==
  LET t == Task(w) IN
  /\ In(w, "reserve")
  /\ Fenced(w) /\ HasRepairRoom /\ repairLease[t] = None
  /\ repairLease' = [repairLease EXCEPT ![t] = w]
  /\ repairPlace' = [repairPlace EXCEPT ![t] = "counted"]
  /\ Goto(w, "receipt")
  /\ UNCHANGED <<taskVars, moneyVars, genVars, imageVars, jobVars, lock, stable>>

Receiptable(w) == Fenced(w) /\ Pending(w) /\ receipt[Task(w)] = "none"

RepairReceipt(w) ==
  /\ In(w, "receipt")
  /\ Receiptable(w)
  /\ receipt' = [receipt EXCEPT ![Task(w)] = "submitting"]
  /\ Goto(w, "repost")
  /\ UNCHANGED <<taskVars, moneyVars, gen, call, misses, leaseVars, jobVars, lock, stable>>

RepairPost(w) ==
  /\ In(w, "repost")
  /\ repairJobs' = [repairJobs EXCEPT ![Task(w)] = @ + 1]
  /\ Goto(w, "reawait")
  /\ UNCHANGED <<taskVars, moneyVars, genVars, leaseVars, jobs, lock, stable>>

RepairAnswered(w) ==
  /\ In(w, "reawait")
  /\ Goto(w, "recharge")
  /\ UNCHANGED sharedVars

RepairCharge(w) ==
  LET t == Task(w) IN
  /\ In(w, "recharge")
  /\ Fenced(w) /\ Pending(w)
  /\ paid' = [paid EXCEPT ![t] = @ + RepairPrice]
  /\ consumed' = [consumed EXCEPT ![t] = @ + RepairPrice]
  /\ receipt' = [receipt EXCEPT ![t] = "completed"]
  /\ Goto(w, "restop")
  /\ UNCHANGED <<taskVars, refunded, refunds, gen, call, misses, leaseVars, jobVars, lock, stable>>

(* No candidate, a full member, a lost claim, a refusal, an empty wallet.  *)
RepairFails(w) ==
  /\ wk[w].pc \in {"reserve", "receipt", "repost", "reawait", "recharge"}
  /\ Goto(w, IF In(w, "reserve") THEN "store" ELSE "restop")
  /\ UNCHANGED sharedVars

RepairStop(w) ==
  /\ In(w, "restop")
  /\ repairLease' = DropOwn(repairLease, w)
  /\ repairPlace' = Vacate(repairPlace, repairLease, w)
  /\ Goto(w, "store")
  /\ UNCHANGED <<taskVars, moneyVars, genVars, imageVars, jobVars, lock, stable>>

-----------------------------------------------------------------------------
(* failImage and expirePendingImage                                        *)

(* Mutant: the amount refunded is the whole price, whatever was consumed.  *)
SettlePrice(t, ref, kept) ==
  /\ IF consumed[t] > kept
       THEN /\ refunded' = [refunded EXCEPT ![t] = @ + Price - kept]
            /\ refunds' = [refunds EXCEPT ![t] = @ \cup {ref}]
       ELSE UNCHANGED <<refunded, refunds>>
  /\ consumed' = [consumed EXCEPT ![t] = kept]
  /\ gen' = [gen EXCEPT ![t] = "failed"]

(* What is not kept goes back, under a source reference of its own: if all *)
(* of it is kept, nothing is granted and no reference is written.          *)
Settle(t, ref, kept) ==
  /\ IF consumed[t] > kept
       THEN /\ refunded' = [refunded EXCEPT ![t] = @ + consumed[t] - kept]
            /\ refunds' = [refunds EXCEPT ![t] = @ \cup {ref}]
       ELSE UNCHANGED <<refunded, refunds>>
  /\ consumed' = [consumed EXCEPT ![t] = kept]
  /\ gen' = [gen EXCEPT ![t] = "failed"]

(* imageFailureRetainedCredits: the fee once moderation has completed.  If *)
(* it blocks the content, before anything is sent, the whole price is kept.*)
Kept == {0, Fee}
KeptByWorker(t) == Kept \cup (IF call[t] = "none" THEN {Price} ELSE {})

(* failImageGeneration compares the token, but not its expiry.             *)
Fail(w) ==
  /\ In(w, "fail")
  /\ Owns(w)
  /\ IF Pending(w)
       THEN \E kept \in KeptByWorker(Task(w)) : Settle(Task(w), "worker", kept)
       ELSE UNCHANGED <<refunded, refunds, consumed, gen>>
  /\ Goto(w, "close")
  /\ UNCHANGED <<taskVars, paid, call, misses, receipt, leaseVars, jobVars, lock, stable>>

(* Mutant: failImage goes on although the claim is lost.                   *)
FailUnclaimedClosing(w) ==
  /\ In(w, "fail")
  /\ ~Owns(w)
  /\ Goto(w, "close")
  /\ UNCHANGED sharedVars

FailUnclaimed(w) ==
  /\ In(w, "fail")
  /\ ~Owns(w)
  /\ Goto(w, "release")
  /\ UNCHANGED sharedVars

(* A statement of its own, without a token.                                *)
Close(w) ==
  LET t == Task(w) IN
  /\ In(w, "close")
  /\ IF status[t] = "completed"
       THEN UNCHANGED taskVars
       ELSE /\ status' = [status EXCEPT ![t] = "failed"]
            /\ claim' = [claim EXCEPT ![t] = None] /\ live' = [live EXCEPT ![t] = FALSE]
  /\ Goto(w, "release")
  /\ UNCHANGED <<moneyVars, genVars, leaseVars, jobVars, lock, stable>>

(* Mutant: the sweeper acts on its list, without looking at the row again. *)
SweepableAlways(t) == TRUE
Sweepable(t) == gen[t] = "pending"

(* The sweeper asks for the row lock, but for no claim.                    *)
Sweep(t) ==
  /\ Sweepable(t)
  /\ \E kept \in Kept : Settle(t, "timeout", kept)
  /\ IF status[t] \in Final
       THEN UNCHANGED taskVars
       ELSE /\ status' = [status EXCEPT ![t] = "failed"]
            /\ claim' = [claim EXCEPT ![t] = None] /\ live' = [live EXCEPT ![t] = FALSE]
  /\ UNCHANGED <<paid, call, misses, receipt, leaseVars, jobVars, lock, stable, wk>>

-----------------------------------------------------------------------------
(* The end of processImage                                                 *)

Release(w) ==
  LET t == Task(w) IN
  /\ In(w, "release")
  /\ IF Owns(w)
       THEN claim' = [claim EXCEPT ![t] = None] /\ live' = [live EXCEPT ![t] = FALSE]
       ELSE UNCHANGED <<claim, live>>
  /\ Goto(w, "drop")
  /\ UNCHANGED <<status, moneyVars, genVars, leaseVars, jobVars, lock, stable>>

(* Unfinished work keeps its place at the member until it expires.         *)
Drop(w) ==
  /\ In(w, "drop")
  /\ IF status[Task(w)] \in Final
       THEN lease' = DropOwn(lease, w) /\ place' = Vacate(place, lease, w)
       ELSE UNCHANGED imageVars
  /\ Goto(w, "unlock")
  /\ UNCHANGED <<taskVars, moneyVars, genVars, repairVars, jobVars, lock, stable>>

(* The tokens of an execution that is over are never compared equal again: *)
(* its rows are nobody's, but of the repair, whose row is in the way.      *)
Leave(w) ==
  /\ DropLock(w)
  /\ claim' = GoStale(claim, w)
  /\ lease' = DropOwn(lease, w) /\ repairLease' = GoStale(repairLease, w)
  /\ wk' = [wk EXCEPT ![w] = Idle]
  /\ UNCHANGED <<status, live, moneyVars, genVars, place, repairPlace, jobVars, stable>>

Unlock(w) == In(w, "unlock") /\ Leave(w)

-----------------------------------------------------------------------------
(* Faults and the passing of time                                          *)

(* The process dies: its sessions, and with them its locks, are gone.  As  *)
(* the claim may expire later, this is also a release that fails.          *)
Crash(w) == ~In(w, "idle") /\ ~stable /\ Leave(w)

(* The context ends with the process or its heartbeat: no statement of the *)
(* execution succeeds any more, only the clean-up, on a context of its own.*)
Abort(w) ==
  /\ wk[w].pc \in Entering \cup Executing /\ ~stable
  /\ IF wk[w].pc \in Renewing
       THEN /\ repairLease' = DropOwn(repairLease, w)
            /\ repairPlace' = Vacate(repairPlace, repairLease, w)
       ELSE UNCHANGED repairVars
  /\ Return(w, IF wk[w].pc \in Entering THEN "unlock" ELSE "release")
  /\ UNCHANGED <<taskVars, moneyVars, genVars, imageVars, jobVars, lock, stable>>

(* The connection that holds the advisory lock breaks; nothing watches it. *)
LoseSession(w) ==
  /\ SessionLoss /\ ~stable
  /\ \E t \in Tasks : lock[t] = w
  /\ DropLock(w)
  /\ UNCHANGED <<taskVars, moneyVars, genVars, leaseVars, jobVars, stable, wk>>

(* Between the claim and the fencing update no heartbeat runs; the model   *)
(* takes the few statements in between for shorter than the TTL.           *)
Awaited(t) == \E w \in Workers : Task(w) = t /\ wk[w].pc \in Entering

Expirable(t) == live[t] /\ ~Awaited(t)

(* The heartbeat renews the claim of a live execution, unless the process  *)
(* is suspended for longer than the TTL.                                   *)
ExpireClaim(t) ==
  /\ Expirable(t)
  /\ claim[t] \in Workers => ~stable
  /\ live' = [live EXCEPT ![t] = FALSE]
  /\ UNCHANGED <<status, claim, moneyVars, genVars, leaseVars, jobVars, lock, wk, stable>>

(* A lease expires when nobody renews it any more, or its owner has been   *)
(* suspended: as its repair has a ticker of its own, and the heartbeat two *)
(* statements, that may happen while the claim is still live.              *)
Renewed(leases, t) == leases[t] = claim[t] /\ live[t] /\ claim[t] \in Workers

ExpireLease(t) ==
  \/ /\ place[t] # "none"
     /\ Renewed(lease, t) => ~stable
     /\ place' = [place EXCEPT ![t] = "none"]
     /\ UNCHANGED <<taskVars, moneyVars, genVars, lease, repairVars, jobVars, lock, wk, stable>>
  \/ /\ repairPlace[t] # "none"
     /\ Renewed(repairLease, t) => ~stable
     /\ repairPlace' = [repairPlace EXCEPT ![t] = "none"]
     /\ UNCHANGED <<taskVars, moneyVars, genVars, imageVars, repairLease, jobVars, lock, wk, stable>>

(* The heartbeat renews the lease, expired or not, after the claim and in a*)
(* statement of its own: the claim may be lost in between.                 *)
RenewLease(w) ==
  LET t == Task(w) IN
  /\ wk[w].pc \in Executing
  /\ lease[t] = w /\ place[t] = "none"
  /\ place' = [place EXCEPT ![t] = "revived"]
  /\ UNCHANGED <<taskVars, moneyVars, genVars, lease, repairVars, jobVars, lock, wk, stable>>

(* The ticker of the repair asks for a live claim, but not for a live lease*)
RenewRepairLease(w) ==
  LET t == Task(w) IN
  /\ wk[w].pc \in Renewing
  /\ Fenced(w) /\ repairLease[t] = w /\ repairPlace[t] = "none"
  /\ repairPlace' = [repairPlace EXCEPT ![t] = "revived"]
  /\ UNCHANGED <<taskVars, moneyVars, genVars, imageVars, repairLease, jobVars, lock, wk, stable>>

Stabilise ==
  /\ ~stable
  /\ stable' = TRUE
  /\ UNCHANGED <<taskVars, moneyVars, genVars, leaseVars, jobVars, lock, wk>>

-----------------------------------------------------------------------------
EnterStep(w) == TryLock(w) \/ LockBusy(w) \/ EnterTask(w) \/ TakeClaim(w)
LoadStep(w) == LoadPending(w) \/ Reconcile(w) \/ Resume(w) \/ Refuse(w)
LeaseStep(w) == Lease(w) \/ LeaseFull(w) \/ PrepareFails(w)
SubmitStep(w) ==
  \/ BeforeSend(w) \/ SendLater(w) \/ Post(w)
  \/ Transparent(w) \/ BeforeOpaque(w) \/ OpaqueRefused(w)
AnswerStep(w) ==
  \/ AnswerOutput(w) \/ AnswerPending(w) \/ AnswerFails(w)
  \/ QueryUnanswered(w) \/ QueryMiss(w) \/ Persist(w) \/ PersistRefused(w)
OutputStep(w) ==
  \/ Read(w) \/ OutputFails(w) \/ Store(w) \/ StoreFails(w) \/ Complete(w) \/ CompleteRefused(w)
RepairStep(w) ==
  \/ RepairKnown(w) \/ RepairNew(w) \/ RepairLease(w) \/ RepairReceipt(w) \/ RepairPost(w)
  \/ RepairAnswered(w) \/ RepairCharge(w) \/ RepairFails(w) \/ RepairStop(w)
EndStep(w) == Fail(w) \/ FailUnclaimed(w) \/ Close(w) \/ Release(w) \/ Drop(w) \/ Unlock(w)

Step(w) ==
  \/ EnterStep(w) \/ LoadStep(w) \/ LeaseStep(w) \/ SubmitStep(w) \/ AnswerStep(w)
  \/ OutputStep(w) \/ RepairStep(w) \/ EndStep(w)

Renew(w) == RenewLease(w) \/ RenewRepairLease(w)
Fault(w) == Crash(w) \/ Abort(w) \/ LoseSession(w)
Clock(t) == Sweep(t) \/ ExpireClaim(t) \/ ExpireLease(t)

(* Every task is closed: claimImageTask finds nothing and the loops go on. *)
NothingDue ==
  /\ \A t \in Tasks : status[t] \in Final
  /\ \A w \in Workers : In(w, "idle")
  /\ UNCHANGED vars

Next ==
  \/ \E w \in Workers : Step(w) \/ Renew(w) \/ Fault(w) \/ \E t \in Tasks : Claim(w, t)
  \/ \E t \in Tasks : Clock(t)
  \/ Stabilise \/ NothingDue

Spec == Init /\ [][Next]_vars

(* A goroutine that runs goes on, every call it makes having a timeout; the*)
(* claim query takes the oldest task; the maintenance loop sweeps; time    *)
(* passes; faults end.                                                     *)
Fairness ==
  /\ \A w \in Workers : WF_vars(Step(w))
  /\ \A t \in Tasks : /\ SF_vars(\E w \in Workers : Claim(w, t))
                      /\ WF_vars(Sweep(t))
                      /\ WF_vars(ExpireClaim(t)) /\ WF_vars(ExpireLease(t))
  /\ WF_vars(Stabilise)

FairSpec == Spec /\ Fairness

-----------------------------------------------------------------------------
(* PROPERTIES                                                              *)

(* "Refusing to submit it again": at most one POST per image and one per   *)
(* repair may ever leave a job at the provider, though executions overlap, *)
(* crash and are resumed at every step, and the background is tried twice. *)
AcceptedOnce == \A t \in Tasks : jobs[t] <= 1 /\ repairJobs[t] <= 1

(* The worker and the sweeper refund under different source references, so *)
(* the ledger would accept both: exactly one of them does if a failed      *)
(* generation keeps less than was paid, and none if it keeps everything,   *)
(* or has not failed.                                                      *)
RefundedOnce == \A t \in Tasks :
  Cardinality(refunds[t]) = IF gen[t] = "failed" /\ consumed[t] < paid[t] THEN 1 ELSE 0

(* credits_consumed, from which refunds are computed, is what the ledger   *)
(* has taken for the generation, through repairs and both kinds of failure.*)
LedgerExact == \A t \in Tasks : paid[t] = consumed[t] + refunded[t]

(* The two rows are closed by different statements, in different           *)
(* transactions: what a task shows as final is how its generation ended,   *)
(* and a completed generation never waits for its task.                    *)
OutcomeAgrees == \A t \in Tasks :
  /\ status[t] \in Final => gen[t] = status[t]
  /\ gen[t] = "completed" => status[t] = "completed"

(* An execution that talks to the member under its own unexpired claim     *)
(* still has its lease row there, for the image or for its repair: no other*)
(* execution takes it over or removes it.  It may have lapsed, if its owner*)
(* was suspended, and then its next renewal revives it.                    *)
PlaceHeld == \A w \in Workers :
  /\ wk[w].pc \in {"post", "postAgain", "await", "query"} /\ Owns(w) /\ live[Task(w)]
       => lease[Task(w)] = w
  /\ wk[w].pc \in {"repost", "reawait"} /\ Owns(w) /\ live[Task(w)]
       => repairLease[Task(w)] = w

(* The leases that have not expired since they were counted, for images and*)
(* for repairs, never exceed the concurrency of the member: only a lease   *)
(* that was renewed too late can.                                          *)
Counted(places) == {t \in Tasks : places[t] = "counted"}
CapacityRespected == Cardinality(Counted(place)) + Cardinality(Counted(repairPlace)) <= Capacity

(* "A short transaction reserves a global execution slot and the task      *)
(* claim together": unexpired claims never exceed the limit, although the  *)
(* execution replaces the claim it was started with.                       *)
ExecutionBound == Cardinality(Running) <= Limit

(* A final task is never opened or turned again, by whatever late          *)
(* execution, sweep or claim.                                              *)
StatusFinal == [][\A t \in Tasks : status[t] \in Final => status'[t] = status[t]]_vars

(* Every task is closed in the end, once faults stop.                      *)
EventuallyClosed == \A t \in Tasks : <>[](status[t] \in Final)

Settlement == INSTANCE ImageSettlement
  WITH outcome <- gen,
       repaired <- [t \in Tasks |-> receipt[t] = "completed"],
       cost <- [t \in Tasks |-> paid[t] - refunded[t]]

ImplementsSettlement == Settlement!Spec
=============================================================================
