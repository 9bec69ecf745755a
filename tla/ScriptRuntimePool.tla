------------------------- MODULE ScriptRuntimePool -------------------------
(***************************************************************************)
(* The worker pool that runs provider adapters (pool.mjs), the HTTP server *)
(* in front of it (server.mjs) and the calls of the Go backend that use it *)
(* (script_runtime_control.go, provider_response_permit.go).               *)
(*                                                                         *)
(* A paid call reserves a response permit, calls the provider, has the     *)
(* answer adapted under the permit, and deletes the permit.  A plain call  *)
(* only has a request adapted.  A call is made once and its name stands    *)
(* for the permit and the job it gets.  Every action is one turn of the    *)
(* event loop, a step of the caller, or a fault.                           *)
(***************************************************************************)
EXTENDS Naturals, FiniteSets, Sequences, SequencesExt

CONSTANTS
  Paid,         \* calls with a response script
  Plain,        \* calls with a request script
  Slots,        \* workerCount of them
  PermitCap,    \* workerCount * 16
  WaiterLimit,  \* workerCount * 64, for the waiters
  RequestLimit, \* workerCount * 64, for the queued requests
  RequestRoom,  \* workerCount * 32 MiB
  Envelope,     \* responseEnvelopeBytes
  Size,         \* bytes of a call's script, input and context
  None

Calls == Paid \cup Plain
ByteCapacity == RequestRoom + PermitCap * Envelope

ASSUME CallsAssumption == /\ Paid \cap Plain = {} /\ None \notin Calls
                          /\ Size \in [Calls -> Nat \ {0}]
                          /\ \A c \in Paid : Size[c] <= Envelope
ASSUME LimitsAssumption == /\ {PermitCap, WaiterLimit, RequestLimit} \subseteq Nat \ {0}
                           /\ {RequestRoom, Envelope} \subseteq Nat

VARIABLES
  pool,      \* state
  slot,      \* phase of each worker and its pending job
  permits,   \* ids in the map permits
  consumed,  \* those that a job has consumed: their TTL no longer runs
  waiters,   \* reservations waiting for a permit
  responses, \* responseQueue
  requests,  \* requestQueue
  queuedBytes,
  handler,   \* what the HTTP handler of a call awaits; "job": unsettled
  call,      \* where the Go caller is; "gone": it no longer listens
  deletes,   \* DELETE requests on their way
  open       \* the HTTP server accepts requests

poolVars == <<permits, consumed, waiters, handler>>
queueVars == <<slot, responses, requests, queuedBytes>>
vars == <<pool, poolVars, queueVars, call, deletes, open>>

Phases == {"spawning", "live", "retiring", "lost"}
Handlers == {"none", "waiting", "granted", "job", "answered"}
CallStates == {"idle", "reserving", "holding", "executing", "done", "gone"}

Bytes(q) == FoldSeq(LAMBDA c, sum : Size[c] + sum, 0, q)
Idle(sl) == {s \in Slots : sl[s].phase = "live" /\ sl[s].job = None}

Init ==
  /\ pool = "starting"
  /\ slot = [s \in Slots |-> [phase |-> "spawning", job |-> None]]
  /\ permits = {} /\ consumed = {} /\ waiters = <<>>
  /\ responses = <<>> /\ requests = <<>> /\ queuedBytes = 0
  /\ handler = [c \in Calls |-> "none"] /\ call = [c \in Calls |-> "idle"]
  /\ deletes = {}
  /\ open = FALSE

-----------------------------------------------------------------------------
(* Operators of the pool; h: the handlers with the action's own change      *)

\* Bug: a permit that comes back is not handed to who waits for it.
FreeQuietly(ids, h) ==
  /\ permits' = permits \ ids /\ consumed' = consumed \ ids
  /\ handler' = h
  /\ UNCHANGED waiters

\* releaseResponse; permits go to those who wait, while the pool is ready.
Free(ids, h) ==
  LET left  == permits \ ids
      spare == PermitCap - Cardinality(left)
      n     == IF ids \cap permits = {} \/ pool # "ready" THEN 0
               ELSE IF Len(waiters) < spare THEN Len(waiters) ELSE spare
      next  == ToSet(SubSeq(waiters, 1, n))
  IN  /\ permits' = left \cup next
      /\ consumed' = consumed \ ids
      /\ waiters' = SubSeq(waiters, n + 1, Len(waiters))
      /\ handler' = [c \in Calls |-> IF c \in next THEN "granted" ELSE h[c]]

\* settle: once, and the permit comes back.
Settle(c) ==
  IF c # None /\ handler[c] = "job"
  THEN Free({c} \cap Paid, [handler EXCEPT ![c] = "answered"])
  ELSE UNCHANGED poolVars

\* dispatch: responses first.  There is never more than one job to start,
\* because it runs at every change (see TypeOK).
Dispatch(sl, rs, rq, bytes) ==
  IF Idle(sl) = {} \/ rs \o rq = <<>>
  THEN slot' = sl /\ responses' = rs /\ requests' = rq /\ queuedBytes' = bytes
  ELSE LET job == Head(rs \o rq)
       IN  /\ \E s \in Idle(sl) : slot' = [sl EXCEPT ![s].job = job]
           /\ responses' = IF rs = <<>> THEN rs ELSE Tail(rs)
           /\ requests' = IF rs = <<>> THEN Tail(rq) ELSE rq
           /\ queuedBytes' = bytes - Size[job]

\* retire: its job fails, the worker is terminated, and see Respawn.
Retire(s) ==
  /\ Settle(slot[s].job)
  /\ Dispatch([slot EXCEPT ![s] = [phase |-> "retiring", job |-> None]],
              responses, requests, queuedBytes)

CloseSlots == slot' = [s \in Slots |-> [phase |-> "lost", job |-> None]]

-----------------------------------------------------------------------------
(* Workers                                                                 *)

\* A worker reports that it is ready; the last of the first ones makes the
\* pool ready, and only then does the server listen.
SpawnReady(s) ==
  /\ slot[s].phase = "spawning"
  /\ LET started == pool = "starting" /\ \A r \in Slots \ {s} : slot[r].phase # "spawning"
     IN  /\ pool' = IF started THEN "ready" ELSE pool
         /\ open' = (open \/ started)
  /\ Dispatch([slot EXCEPT ![s].phase = "live"], responses, requests, queuedBytes)
  /\ UNCHANGED <<poolVars, call, deletes>>

\* Bug: a replacement that fails to start is not tried again.
SpawnFailsForGood(s) ==
  /\ slot[s].phase = "spawning"
  /\ IF pool = "starting"
     THEN pool' = "closed" /\ CloseSlots
     ELSE slot' = [slot EXCEPT ![s].phase = "lost"] /\ UNCHANGED pool
  /\ UNCHANGED <<poolVars, responses, requests, queuedBytes, call, deletes, open>>

\* failStartup: fatal for the first workers (close(0) and the process ends),
\* otherwise tried again.
SpawnFails(s) ==
  /\ slot[s].phase = "spawning"
  /\ IF pool = "starting"
     THEN pool' = "closed" /\ CloseSlots
     ELSE slot' = [slot EXCEPT ![s].phase = "retiring"] /\ UNCHANGED pool
  /\ UNCHANGED <<poolVars, responses, requests, queuedBytes, call, deletes, open>>

\* The worker exits, fails, or answers what it was not asked.
WorkerFails(s) ==
  /\ slot[s].phase = "live"
  /\ Retire(s)
  /\ UNCHANGED <<pool, call, deletes, open>>

\* The loop of retire: terminated, or 100 ms after a failed start.  It ends
\* for good when the pool is not ready, which includes not yet ready.
Respawn(s) ==
  /\ slot[s].phase = "retiring"
  /\ slot' = [slot EXCEPT ![s].phase = IF pool = "ready" THEN "spawning" ELSE "lost"]
  /\ UNCHANGED <<pool, poolVars, responses, requests, queuedBytes, call, deletes, open>>

\* finish; an aborted job was settled before.
WorkerAnswers(s) ==
  /\ slot[s].job # None
  /\ Settle(slot[s].job)
  /\ Dispatch([slot EXCEPT ![s].job = None], responses, requests, queuedBytes)
  /\ UNCHANGED <<pool, call, deletes, open>>

\* executionTimeoutMs; also a result that asks for the worker's replacement.
Watchdog(s) ==
  /\ slot[s].job # None
  /\ Retire(s)
  /\ UNCHANGED <<pool, call, deletes, open>>

-----------------------------------------------------------------------------
(* Requests of the callers                                                 *)

\* reserveResponse; refused when the waiters are too many.
Reserve(c) ==
  /\ c \in Paid /\ call[c] = "idle" /\ open
  /\ \/ /\ Cardinality(permits) < PermitCap
        /\ permits' = permits \cup {c}
        /\ handler' = [handler EXCEPT ![c] = "granted"]
        /\ call' = [call EXCEPT ![c] = "reserving"]
        /\ UNCHANGED waiters
     \/ /\ Cardinality(permits) >= PermitCap /\ Len(waiters) < WaiterLimit
        /\ waiters' = Append(waiters, c)
        /\ handler' = [handler EXCEPT ![c] = "waiting"]
        /\ call' = [call EXCEPT ![c] = "reserving"]
        /\ UNCHANGED permits
     \/ /\ Cardinality(permits) >= PermitCap /\ Len(waiters) >= WaiterLimit
        /\ call' = [call EXCEPT ![c] = "done"]
        /\ UNCHANGED <<permits, waiters, handler>>
  /\ UNCHANGED <<pool, consumed, queueVars, deletes, open>>

\* The waiter's two seconds are over.
WaiterTimesOut(c) ==
  /\ handler[c] = "waiting"
  /\ waiters' = RemoveFirst(waiters, c)
  /\ handler' = [handler EXCEPT ![c] = "answered"]
  /\ UNCHANGED <<pool, permits, consumed, queueVars, call, deletes, open>>

\* The id reaches the caller, which then calls the provider.
Granted(c) ==
  /\ handler[c] = "granted" /\ call[c] = "reserving"
  /\ handler' = [handler EXCEPT ![c] = "none"]
  /\ call' = [call EXCEPT ![c] = "holding"]
  /\ UNCHANGED <<pool, permits, consumed, waiters, queueVars, deletes, open>>

\* Bugs: an evicted request stays in the accounting; nothing is evicted.
AdmitForgetting(c) ==
  /\ handler' = [d \in Calls |-> IF d = c THEN "job"
                                  ELSE IF d \in ToSet(requests) THEN "answered" ELSE handler[d]]
  /\ consumed' = consumed \cup {c}
  /\ Dispatch(slot, Append(responses, c), <<>>, queuedBytes + Size[c])
  /\ UNCHANGED <<permits, waiters>>

AdmitBehindRequests(c) ==
  IF queuedBytes + Size[c] <= ByteCapacity
  THEN /\ Dispatch(slot, Append(responses, c), requests, queuedBytes + Size[c])
       /\ consumed' = consumed \cup {c} /\ handler' = [handler EXCEPT ![c] = "job"]
       /\ UNCHANGED <<permits, waiters>>
  ELSE /\ UNCHANGED queueVars
       /\ Free({c}, [handler EXCEPT ![c] = "answered"])

\* The response is queued, after requests have been evicted, the newest
\* first, as far as its bytes need room.
Admit(c) ==
  LET gone(n)  == SubSeq(requests, n + 1, Len(requests))
      bytes(n) == queuedBytes - Bytes(gone(n))
      fits(n)  == bytes(n) + Size[c] <= ByteCapacity
      after(n) == [d \in Calls |-> IF d = c /\ fits(n) THEN "job"
                                   ELSE IF d = c \/ d \in ToSet(gone(n)) THEN "answered"
                                   ELSE handler[d]]
  IN  \E n \in 0 .. Len(requests) :
        /\ fits(n) \/ n = 0
        /\ \A m \in n + 1 .. Len(requests) : ~fits(m)
        /\ IF fits(n)
           THEN /\ Dispatch(slot, Append(responses, c), SubSeq(requests, 1, n), bytes(n) + Size[c])
                /\ consumed' = consumed \cup {c} /\ handler' = after(n)
                /\ UNCHANGED <<permits, waiters>>
           ELSE /\ requests' = <<>> /\ queuedBytes' = bytes(n) /\ UNCHANGED <<slot, responses>>
                /\ Free({c}, after(n))

\* execute for a response.  The permit may have expired: refused.
SubmitResponse(c) ==
  /\ c \in Paid /\ call[c] = "holding" /\ open
  /\ call' = [call EXCEPT ![c] = "executing"]
  /\ IF c \in permits
     THEN Admit(c)
     ELSE /\ handler' = [handler EXCEPT ![c] = "answered"]
          /\ UNCHANGED <<permits, consumed, waiters, queueVars>>
  /\ UNCHANGED <<pool, deletes, open>>

\* execute for a request.
SubmitRequest(c) ==
  /\ c \in Plain /\ call[c] = "idle" /\ open
  /\ call' = [call EXCEPT ![c] = "executing"]
  /\ IF Len(requests) < RequestLimit /\ queuedBytes + Size[c] <= ByteCapacity
     THEN /\ handler' = [handler EXCEPT ![c] = "job"]
          /\ Dispatch(slot, responses, Append(requests, c), queuedBytes + Size[c])
     ELSE handler' = [handler EXCEPT ![c] = "answered"] /\ UNCHANGED queueVars
  /\ UNCHANGED <<pool, permits, consumed, waiters, deletes, open>>

\* Takes a queued job out.
Dequeue(c) ==
  /\ responses' = RemoveFirst(responses, c) /\ requests' = RemoveFirst(requests, c)
  /\ queuedBytes' = IF c \in ToSet(responses \o requests) THEN queuedBytes - Size[c]
                                                              ELSE queuedBytes
  /\ UNCHANGED slot

\* queueTimer
QueueTimesOut(c) ==
  /\ c \in ToSet(responses \o requests)
  /\ Dequeue(c)
  /\ Settle(c)
  /\ UNCHANGED <<pool, call, deletes, open>>

\* The answer arrives; a permit is deleted whatever it says.
Receive(c) ==
  /\ handler[c] = "answered" /\ call[c] \in {"reserving", "executing"}
  /\ handler' = [handler EXCEPT ![c] = "none"]
  /\ call' = [call EXCEPT ![c] = "done"]
  /\ deletes' = IF call[c] = "executing" THEN deletes \cup ({c} \cap Paid) ELSE deletes
  /\ UNCHANGED <<pool, permits, consumed, waiters, queueVars, open>>

\* The provider fails, the server refuses the connection, or the context of
\* the call ends: the permit is deleted when its id is known.  When the Go
\* process dies, all its calls leave and their DELETEs are lost.
Leave(c) ==
  /\ call[c] \in {"reserving", "holding", "executing"}
  /\ call' = [call EXCEPT ![c] = "gone"]
  /\ deletes' = IF call[c] = "reserving" THEN deletes ELSE deletes \cup ({c} \cap Paid)
  /\ UNCHANGED <<pool, poolVars, queueVars, open>>

\* The server sees that the connection is closed: a waiter is removed, an id
\* that was not sent is released, a job is taken out of the queue and settled.
Disconnect(c) ==
  /\ call[c] = "gone" /\ handler[c] # "none"
  /\ IF handler[c] = "waiting"
     THEN /\ waiters' = RemoveFirst(waiters, c)
          /\ handler' = [handler EXCEPT ![c] = "none"]
          /\ UNCHANGED <<permits, consumed>>
     ELSE Free(IF handler[c] = "answered" THEN {} ELSE {c} \cap Paid,
               [handler EXCEPT ![c] = "none"])
  /\ Dequeue(c)
  /\ UNCHANGED <<pool, call, deletes, open>>

\* The id was sent to a caller that is gone: only the TTL brings it back.
Flushed(c) ==
  /\ call[c] = "gone" /\ handler[c] = "granted"
  /\ handler' = [handler EXCEPT ![c] = "none"]
  /\ UNCHANGED <<pool, permits, consumed, waiters, queueVars, call, deletes, open>>

DeleteArrives(c) ==
  /\ c \in deletes /\ open
  /\ deletes' = deletes \ {c}
  /\ Free({c}, handler)
  /\ UNCHANGED <<pool, queueVars, call, open>>

DeleteLost(c) ==
  /\ c \in deletes
  /\ deletes' = deletes \ {c}
  /\ UNCHANGED <<pool, poolVars, queueVars, call, open>>

\* permitTTL
Expire(c) ==
  /\ c \in permits \ consumed
  /\ Free({c}, handler)
  /\ UNCHANGED <<pool, queueVars, call, deletes, open>>

-----------------------------------------------------------------------------
(* shutdownRuntime                                                         *)

\* SIGTERM: the server accepts nothing more.
StopListening ==
  /\ open
  /\ open' = FALSE
  /\ UNCHANGED <<pool, poolVars, queueVars, call, deletes>>

\* Its open requests have ended: close().
Drain ==
  /\ pool = "ready" /\ ~open
  /\ \A c \in Calls : handler[c] = "none"
  /\ pool' = "draining"
  /\ waiters' = <<>>
  /\ UNCHANGED <<permits, consumed, handler, queueVars, call, deletes, open>>

\* Nothing is left, or five seconds have passed.
Close ==
  /\ pool = "draining"
  /\ pool' = "closed"
  /\ handler' = [c \in Calls |-> IF handler[c] = "job" THEN "answered" ELSE handler[c]]
  /\ permits' = {} /\ consumed' = {}
  /\ responses' = <<>> /\ requests' = <<>> /\ queuedBytes' = 0
  /\ CloseSlots
  /\ UNCHANGED <<waiters, call, deletes, open>>

WorkerStep(s) == SpawnReady(s) \/ SpawnFails(s) \/ WorkerFails(s) \/ Respawn(s)
                 \/ WorkerAnswers(s) \/ Watchdog(s)

CallerStep(c) == Reserve(c) \/ Granted(c) \/ SubmitResponse(c) \/ SubmitRequest(c)
                 \/ Receive(c) \/ Leave(c)

ServerStep(c) == WaiterTimesOut(c) \/ QueueTimesOut(c) \/ Disconnect(c) \/ Flushed(c)
                 \/ DeleteArrives(c) \/ DeleteLost(c) \/ Expire(c)

Next ==
  \/ \E s \in Slots : WorkerStep(s)
  \/ \E c \in Calls : CallerStep(c) \/ ServerStep(c)
  \/ StopListening \/ Drain \/ Close

Spec == Init /\ [][Next]_vars

\* Timers fire, connections deliver or break, the provider call ends because
\* it has a timeout, and a worker that is started often enough comes up.
HandlerStep(c) == Granted(c) \/ Flushed(c) \/ Receive(c) \/ Disconnect(c)
                  \/ WaiterTimesOut(c) \/ QueueTimesOut(c)

Fairness ==
  /\ \A s \in Slots : /\ WF_vars(WorkerAnswers(s) \/ Watchdog(s))
                      /\ WF_vars(Respawn(s)) /\ SF_vars(SpawnReady(s))
  /\ \A c \in Calls : WF_vars(HandlerStep(c))
  /\ \A c \in Paid : /\ WF_vars(call[c] = "holding" /\ (SubmitResponse(c) \/ Leave(c)))
                      /\ WF_vars(Expire(c))

FairSpec == Spec /\ Fairness

-----------------------------------------------------------------------------
(* Properties                                                              *)

\* The data of the pool keep their types; queuedBytes is what the queued jobs
\* weigh, however they leave the queues; and every change dispatches, so that
\* no job waits beside an idle worker.
TypeOK ==
  /\ pool \in {"starting", "ready", "draining", "closed"} /\ open \in BOOLEAN
  /\ slot \in [Slots -> [phase : Phases, job : Calls \cup {None}]]
  /\ permits \subseteq Paid /\ consumed \subseteq permits /\ deletes \subseteq Paid
  /\ waiters \in Seq(Paid) /\ responses \in Seq(Paid) /\ requests \in Seq(Plain)
  /\ handler \in [Calls -> Handlers] /\ call \in [Calls -> CallStates]
  /\ queuedBytes = Bytes(responses \o requests)
  /\ responses \o requests # <<>> /\ pool \in {"ready", "draining"} => Idle(slot) = {}

\* Permits never exceed the capacity; one whose TTL was stopped belongs to a
\* job that is not settled, or it would be lost for ever; the job of a caller
\* that still listens holds its permit; nobody waits while one is free.
PermitsAccounted ==
  /\ Cardinality(permits) <= PermitCap
  /\ \A c \in consumed : handler[c] = "job"
  /\ \A c \in Paid : handler[c] = "job" /\ call[c] = "executing" => c \in consumed
  /\ pool = "ready" /\ waiters # <<>> => Cardinality(permits) = PermitCap

\* pool.mjs: "paid provider responses cannot lose admission to ordinary
\* requests or to other already-reserved responses".  A DELETE can overtake
\* the end of its connection; such orphans fit into the room of the requests,
\* for which every waiting request is evicted.
Orphans == ToSet(responses) \ permits

PaidAdmitted ==
  [][\A c \in Paid :
       /\ call[c] = "holding" /\ call'[c] = "executing" /\ c \in permits
       /\ Cardinality(Orphans) * Envelope <= RequestRoom
       => handler'[c] = "job"]_vars

\* Every request gets an answer, every permit comes back, also those of
\* callers that died and of jobs whose worker did, and a worker lost while
\* the pool is ready is replaced.
EverythingReturns ==
  /\ \A c \in Calls : handler[c] # "none" ~> handler[c] = "none"
  /\ \A c \in Paid : c \in permits ~> c \notin permits
  /\ \A s \in Slots : pool = "ready" /\ slot[s].phase = "retiring"
                        ~> slot[s].phase = "live" \/ pool # "ready"

=============================================================================
