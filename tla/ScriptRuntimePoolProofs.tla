---------------------- MODULE ScriptRuntimePoolProofs ----------------------
(***************************************************************************)
(* The pool's bookkeeping for any number of calls, workers and permits:    *)
(* what is queued is counted, permits stay within their capacity and come  *)
(* back, and a paid response that holds one is admitted.                   *)
(***************************************************************************)
EXTENDS ScriptRuntimePool, CollectionLemmas

-----------------------------------------------------------------------------
(* The inductive invariant                                                 *)

Queued == ToSet(responses) \cup ToSet(requests)
Running(sl) == {sl[s].job : s \in Slots} \ {None}

\* The server listens only while the pool is ready, and nothing has come in
\* before that.
Phase ==
  /\ pool \in {"starting", "ready", "draining", "closed"} /\ open \in BOOLEAN
  /\ open => pool = "ready"
  /\ pool = "starting" => waiters = <<>> /\ responses = <<>> /\ requests = <<>>

\* A call that has not asked yet, or is with the provider, is nowhere on the
\* server; one whose DELETE is on its way has left.
Callers ==
  /\ call \in [Calls -> CallStates] /\ deletes \subseteq Paid
  /\ \A c \in Calls :
       /\ call[c] \in {"idle", "holding"} => handler[c] = "none"
       /\ handler[c] = "job" => call[c] \in {"executing", "gone"}
       /\ call[c] = "idle" => c \notin permits
       /\ c \in deletes => call[c] \in {"done", "gone"}

\* Who waits for a permit has none, waits once, and so does its handler.
PermitSide ==
  /\ permits \subseteq Paid /\ consumed \subseteq permits /\ IsFiniteSet(permits)
  /\ waiters \in Seq(Paid) /\ IsInjective(waiters)
  /\ handler \in [Calls -> Handlers]
  /\ \A c \in ToSet(waiters) : handler[c] = "waiting" /\ c \notin permits
  /\ PermitsAccounted

\* A job is in one queue at most, once, while its handler waits for it; a
\* worker's job has left the queues; and none waits beside an idle worker.
QueueSide ==
  /\ slot \in [Slots -> [phase : Phases, job : Calls \cup {None}]]
  /\ responses \in Seq(Paid) /\ IsInjective(responses)
  /\ requests \in Seq(Plain) /\ IsInjective(requests)
  /\ queuedBytes = Bytes(responses \o requests)
  /\ \A c \in Queued : handler[c] = "job"
  /\ \A c \in Running(slot) : c \notin Queued /\ call[c] \in {"executing", "done", "gone"}
  /\ responses \o requests # <<>> => Idle(slot) = {}

IInv == Phase /\ Callers /\ PermitSide /\ QueueSide

-----------------------------------------------------------------------------
(* The queues weigh what their jobs weigh                                  *)

\* Bytes is the sum over the jobs of a queue that holds none of them twice.
LEMMA BytesSum ==
  ASSUME NEW q \in Seq(Calls), IsInjective(q)
  PROVE  Bytes(q) = SumOf(Size, ToSet(q)) /\ Bytes(q) \in Nat
<1> DEFINE D == DOMAIN q
           h == [i \in D |-> Size[q[i]]]
           Sums(f) == f = [s \in SUBSET D |-> IF s = {} THEN 0
                                               ELSE Size[q[Pick(s)]] + f[s \ {Pick(s)}]]
           it == CHOOSE f : Sums(f)
<1>1. Bytes(q) = it[D]
  BY DEF Bytes, FoldSeq, FoldFunction, FoldFunctionOnSet, MapThenFoldSet, Pick
<1>2. IsFiniteSet(D) /\ D = 1 .. Len(q) /\ \A i \in D : q[i] \in Calls
  BY PlaceOf, FS_Interval
<1>3. ASSUME NEW f PROVE Sums(f) <=> IsSum(f, h, D)
  <2>1. ASSUME NEW s \in SUBSET D, s # {} PROVE h[Pick(s)] = Size[q[Pick(s)]]
    BY <2>1, PickIn
  <2> HIDE DEF h, D
  <2>2. QED
    BY <2>1 DEF IsSum
<1>4. IsSum(it, h, D)
  <2>1. \E f : IsSum(f, h, D)
    <3> HIDE DEF h, D, Sums, it
    <3>1. IsFiniteSet(D)
      BY <1>2
    <3>2. QED
      BY <3>1, SumExists
  <2> HIDE DEF h, D, Sums
  <2>2. QED
    BY <1>3, <2>1
<1>5. Bytes(q) = SumOf(h, D)
  <2> HIDE DEF h, D, it
  <2>1. PICK f : IsSum(f, h, D) /\ SumOf(h, D) = f[D]
    BY <1>2, SumOfFold
  <2>2. QED
    BY <1>1, <1>2, <1>4, <2>1, SumUnique
<1>6. \A i \in D : h[i] = Size[q[i]] /\ Size[q[i]] \in Nat
  BY <1>2, CallsAssumption
<1>7. ToSet(q) = ImageOf(q, D)
  BY DEF ToSet, ImageOf
<1>8. \A i, j \in D : q[i] = q[j] => i = j
  BY DEF IsInjective
<1> HIDE DEF h, D, it
<1>9. SumOf(h, D) = SumOf(Size, ToSet(q))
  <2>1. \A i \in D : Size[q[i]] \in Nat /\ h[i] = Size[q[i]]
    BY <1>6
  <2>2. QED
    BY <1>2, <1>7, <1>8, <2>1, SumImage
<1>10. SumOf(h, D) \in Nat
  BY <1>2, <1>6, SumNat
<1>11. QED
  BY <1>5, <1>9, <1>10

\* What both queues together weigh.
LEMMA BytesOfQueues ==
  ASSUME NEW rs \in Seq(Paid), NEW rq \in Seq(Plain), IsInjective(rs), IsInjective(rq)
  PROVE  /\ Bytes(rs \o rq) = SumOf(Size, ToSet(rs) \cup ToSet(rq))
         /\ Bytes(rs \o rq) \in Nat
         /\ IsFiniteSet(ToSet(rs) \cup ToSet(rq))
         /\ \A c \in ToSet(rs) \cup ToSet(rq) : c \in Calls /\ Size[c] \in Nat
         /\ ToSet(rs) \cap ToSet(rq) = {}
         /\ rs \o rq = <<>> <=> ToSet(rs) \cup ToSet(rq) = {}
<1>1. rs \in Seq(Calls) /\ rq \in Seq(Calls)
  BY SeqMonotonic DEF Calls
<1>2. ToSet(rs) \subseteq Paid /\ ToSet(rq) \subseteq Plain
  BY PlaceOf
<1>3. ToSet(rs) \cap ToSet(rq) = {}
  BY <1>2, CallsAssumption
<1>4. /\ rs \o rq \in Seq(Calls) /\ IsInjective(rs \o rq)
      /\ ToSet(rs \o rq) = ToSet(rs) \cup ToSet(rq)
  BY <1>1, <1>3, ConcatSet
<1>5. \A c \in ToSet(rs) \cup ToSet(rq) : c \in Calls /\ Size[c] \in Nat
  BY <1>2, CallsAssumption DEF Calls
<1>6. IsFiniteSet(ToSet(rs) \cup ToSet(rq))
  BY <1>4, SetOfSeqFinite
<1>7. rs \o rq = <<>> <=> ToSet(rs) \cup ToSet(rq) = {}
  BY <1>4, PlaceOf
<1>8. QED
  BY <1>3, <1>4, <1>5, <1>6, <1>7, BytesSum

-----------------------------------------------------------------------------
(* Dispatch                                                                *)

\* Dispatch moves at most one job from the queues to an idle worker, and when
\* there was at most one idle worker, or one job, none waits beside an idle
\* worker any more.
LEMMA DispatchKeeps ==
  ASSUME NEW sl \in [Slots -> [phase : Phases, job : Calls \cup {None}]],
         NEW rs \in Seq(Paid), NEW rq \in Seq(Plain), IsInjective(rs), IsInjective(rq),
         NEW bytes, bytes = Bytes(rs \o rq),
         \/ \A s, r \in Idle(sl) : s = r
         \/ \A c, d \in ToSet(rs) \cup ToSet(rq) : c = d,
         Dispatch(sl, rs, rq, bytes)
  PROVE  /\ slot' \in [Slots -> [phase : Phases, job : Calls \cup {None}]]
         /\ responses' \in Seq(Paid) /\ requests' \in Seq(Plain)
         /\ IsInjective(responses') /\ IsInjective(requests')
         /\ queuedBytes' = Bytes(responses' \o requests')
         /\ responses' \o requests' # <<>> => Idle(slot') = {}
         /\ ToSet(responses') \cup ToSet(requests') \subseteq ToSet(rs) \cup ToSet(rq)
         /\ \A c \in Running(slot') : \/ c \in Running(sl)
                                     \/ /\ c \in ToSet(rs) \cup ToSet(rq)
                                        /\ c \notin ToSet(responses') \cup ToSet(requests')
<1> DEFINE J == ToSet(rs) \cup ToSet(rq)
           K == ToSet(responses') \cup ToSet(requests')
           job == Head(rs \o rq)
<1>1. CASE Idle(sl) = {} \/ rs \o rq = <<>>
  <2>1. slot' = sl /\ responses' = rs /\ requests' = rq /\ queuedBytes' = bytes
    BY <1>1 DEF Dispatch, Idle
  <2>2. QED
    BY <1>1, <2>1
<1>2. CASE Idle(sl) # {} /\ rs \o rq # <<>>
  <2>1. PICK s \in Idle(sl) :
          /\ slot' = [sl EXCEPT ![s].job = job]
          /\ responses' = IF rs = <<>> THEN rs ELSE Tail(rs)
          /\ requests' = IF rs = <<>> THEN Tail(rq) ELSE rq
          /\ queuedBytes' = bytes - Size[job]
    BY <1>2 DEF Dispatch, Idle
  <2>2. /\ responses' \in Seq(Paid) /\ requests' \in Seq(Plain)
        /\ IsInjective(responses') /\ IsInjective(requests')
        /\ job \in J /\ K = J \ {job}
    <3>0. ToSet(rs) \cap ToSet(rq) = {} /\ ToSet(<<>>) = {}
      BY BytesOfQueues, PlaceOf
    <3>1. CASE rs = <<>>
      <4>1. rs \o rq = rq /\ rq # <<>> /\ job = Head(rq)
        BY <1>2, <3>1, ConcatSimplifications
      <4>2. /\ Head(rq) \in ToSet(rq) /\ Tail(rq) \in Seq(Plain) /\ IsInjective(Tail(rq))
            /\ ToSet(Tail(rq)) = ToSet(rq) \ {Head(rq)}
        BY <4>1, TailSet
      <4>3. responses' = rs /\ requests' = Tail(rq)
        BY <2>1, <3>1
      <4> HIDE DEF job
      <4>4. QED
        BY <3>0, <3>1, <4>1, <4>2, <4>3
    <3>2. CASE rs # <<>>
      <4>1. job = Head(rs)
        <5>1. rs \in Seq(Calls) /\ rq \in Seq(Calls)
          BY SeqMonotonic DEF Calls
        <5>2. Len(rs) \in Nat /\ Len(rs) > 0 /\ Len(rq) \in Nat
          BY <3>2, LenProperties
        <5>3. (rs \o rq)[1] = rs[1] /\ rs \o rq \in Seq(Calls)
          BY <5>1, <5>2, ConcatProperties
        <5>4. QED
          BY <1>2, <5>2, <5>3
      <4>2. /\ Head(rs) \in ToSet(rs) /\ Tail(rs) \in Seq(Paid) /\ IsInjective(Tail(rs))
            /\ ToSet(Tail(rs)) = ToSet(rs) \ {Head(rs)}
        BY <3>2, TailSet
      <4>3. responses' = Tail(rs) /\ requests' = rq
        BY <2>1, <3>2
      <4> HIDE DEF job
      <4>4. QED
        BY <3>0, <4>1, <4>2, <4>3
    <3>3. QED
      BY <3>1, <3>2
  <2> HIDE DEF job
  <2>3. job \in Calls /\ job # None /\ s \in Slots
    <3>1. job \in Calls
      BY <2>2, BytesOfQueues
    <3>2. QED
      BY <3>1, CallsAssumption DEF Idle
  <2>4. /\ slot' \in [Slots -> [phase : Phases, job : Calls \cup {None}]]
        /\ slot'[s].job = job
        /\ \A r \in Slots \ {s} : slot'[r] = sl[r]
    BY <2>1, <2>3
  <2>5. Idle(slot') \subseteq Idle(sl) \ {s} /\ Running(slot') \subseteq Running(sl) \cup {job}
    BY <2>3, <2>4 DEF Idle, Running
  <2>6. queuedBytes' = Bytes(responses' \o requests')
    <3>1. /\ bytes = SumOf(Size, J) /\ IsFiniteSet(J) /\ \A c \in J : Size[c] \in Nat
      BY BytesOfQueues
    <3>2. Bytes(responses' \o requests') = SumOf(Size, K) /\ Bytes(responses' \o requests') \in Nat
      BY <2>2, BytesOfQueues
    <3>3. SumOf(Size, J) = Size[job] + SumOf(Size, J \ {job})
      BY <2>2, <3>1, SumRemove
    <3>4. Size[job] \in Nat
      BY <2>2, <3>1
    <3> HIDE DEF J, K
    <3>5. QED
      BY <2>1, <2>2, <3>1, <3>2, <3>3, <3>4
  <2>7. responses' \o requests' = <<>> <=> K = {}
    BY <2>2, BytesOfQueues
  <2>8. responses' \o requests' # <<>> => Idle(slot') = {}
    <3>1. CASE \A t, r \in Idle(sl) : t = r
      BY <2>5, <3>1
    <3>2. CASE \A c, d \in J : c = d
      BY <2>2, <2>7, <3>2
    <3>3. QED
      BY <3>1, <3>2
  <2>9. QED
    BY <2>2, <2>4, <2>5, <2>6, <2>8
<1>3. QED
  BY <1>1, <1>2

-----------------------------------------------------------------------------
(* Permits that come back                                                  *)

\* The permits in ids go, and the first waiters get as many as there is room
\* for, so that nobody waits while a permit is free.
LEMMA FreeKeeps ==
  ASSUME permits \subseteq Paid, consumed \subseteq permits, IsFiniteSet(permits),
         Cardinality(permits) <= PermitCap,
         waiters \in Seq(Paid), IsInjective(waiters), \A c \in ToSet(waiters) : c \notin permits,
         pool = "ready" /\ waiters # <<>> => Cardinality(permits) = PermitCap,
         NEW ids, NEW h, Free(ids, h)
  PROVE  \E next \in SUBSET ToSet(waiters) :
           /\ permits' = (permits \ ids) \cup next
           /\ consumed' = consumed \ ids
           /\ waiters' \in Seq(Paid) /\ IsInjective(waiters')
           /\ ToSet(waiters') = ToSet(waiters) \ next
           /\ handler' = [c \in Calls |-> IF c \in next THEN "granted" ELSE h[c]]
           /\ IsFiniteSet(permits') /\ Cardinality(permits') <= PermitCap
           /\ pool = "ready" /\ waiters' # <<>> => Cardinality(permits') = PermitCap
<1> DEFINE left  == permits \ ids
           spare == PermitCap - Cardinality(left)
           n     == IF ids \cap permits = {} \/ pool # "ready" THEN 0
                    ELSE IF Len(waiters) < spare THEN Len(waiters) ELSE spare
           next  == ToSet(SubSeq(waiters, 1, n))
<1>1. /\ permits' = left \cup next /\ consumed' = consumed \ ids
      /\ waiters' = SubSeq(waiters, n + 1, Len(waiters))
      /\ handler' = [c \in Calls |-> IF c \in next THEN "granted" ELSE h[c]]
  BY DEF Free
<1>2. /\ IsFiniteSet(left) /\ Cardinality(left) \in Nat /\ Cardinality(permits) \in Nat
      /\ Cardinality(left) <= Cardinality(permits)
  BY FS_Subset, FS_CardinalityType
<1>3. PermitCap \in Nat /\ Len(waiters) \in Nat /\ spare \in Nat
  BY <1>2, LimitsAssumption, LenProperties
<1>4. n \in 0 .. Len(waiters) /\ n <= spare
  <2> HIDE DEF spare
  <2>1. QED
    BY <1>3
<1>5. /\ SubSeq(waiters, 1, n) \in Seq(Paid) /\ Len(SubSeq(waiters, 1, n)) = n
      /\ IsInjective(SubSeq(waiters, 1, n))
      /\ waiters' \in Seq(Paid) /\ Len(waiters') = Len(waiters) - n /\ IsInjective(waiters')
      /\ next \cup ToSet(waiters') = ToSet(waiters) /\ next \cap ToSet(waiters') = {}
  <2> HIDE DEF n
  <2>1. QED
    BY <1>1, <1>4, CutSet
<1>6. IsFiniteSet(next) /\ Cardinality(next) = n /\ next \cap left = {}
  <2> HIDE DEF n
  <2>1. QED
    BY <1>5, SetOfSeqFinite
<1> HIDE DEF next
<1>7. IsFiniteSet(permits') /\ Cardinality(permits') = Cardinality(left) + n
  <2>1. left \cap next = {} /\ n \in Nat
    BY <1>3, <1>4, <1>6
  <2> HIDE DEF n, left
  <2>2. Cardinality(left \cap next) = 0
    BY <2>1, FS_EmptySet
  <2>3. /\ IsFiniteSet(left \cup next)
        /\ Cardinality(left \cup next) = Cardinality(left) + n - Cardinality(left \cap next)
    BY <1>2, <1>6, FS_Union
  <2>4. QED
    BY <1>1, <1>2, <2>1, <2>2, <2>3
<1>8. Cardinality(permits') <= PermitCap
  BY <1>2, <1>3, <1>4, <1>7
<1>9. ASSUME pool = "ready", waiters' # <<>> PROVE Cardinality(permits') = PermitCap
  <2>1. Len(waiters') > 0
    BY <1>5, <1>9, LenProperties
  <2>2. CASE ids \cap permits = {}
    <3>1. n = 0 /\ left = permits /\ waiters # <<>>
      BY <1>3, <1>5, <2>1, <2>2
    <3> HIDE DEF n, left
    <3>2. QED
      BY <1>2, <1>7, <1>9, <3>1
  <2>3. CASE ids \cap permits # {}
    <3>1. n = spare
      BY <1>3, <1>5, <1>9, <2>1, <2>3
    <3>2. QED
      BY <1>2, <1>3, <1>7, <3>1
  <2>4. QED
    BY <2>2, <2>3
<1>10. next \in SUBSET ToSet(waiters) /\ ToSet(waiters') = ToSet(waiters) \ next
  BY <1>5
<1> HIDE DEF n
<1>11. QED
  BY <1>1, <1>5, <1>7, <1>8, <1>9, <1>10

\* A handler that is told of a permit was waiting for one, and the others go
\* on as h says: the permits stay accounted for.
LEMMA FreeStep ==
  ASSUME IInv, pool' = pool, NEW ids \in SUBSET Paid, NEW h \in [Calls -> Handlers], Free(ids, h),
         \A c \in ToSet(waiters) : h[c] = "waiting",
         \A c \in consumed \ ids : h[c] = "job",
         \A c \in Paid : h[c] = "job" /\ call'[c] = "executing" => c \in consumed \ ids
  PROVE  /\ PermitSide'
         /\ permits' \subseteq permits \cup ToSet(waiters)
         /\ waiters = <<>> => waiters' = <<>>
         /\ \A c \in Calls : \/ handler'[c] = h[c]
                             \/ c \in ToSet(waiters) /\ handler'[c] = "granted"
<1>1. PICK next \in SUBSET ToSet(waiters) :
           /\ permits' = (permits \ ids) \cup next
           /\ consumed' = consumed \ ids
           /\ waiters' \in Seq(Paid) /\ IsInjective(waiters')
           /\ ToSet(waiters') = ToSet(waiters) \ next
           /\ handler' = [c \in Calls |-> IF c \in next THEN "granted" ELSE h[c]]
           /\ IsFiniteSet(permits') /\ Cardinality(permits') <= PermitCap
           /\ pool = "ready" /\ waiters' # <<>> => Cardinality(permits') = PermitCap
  BY FreeKeeps DEF IInv, PermitSide, PermitsAccounted
<1>2. /\ permits \subseteq Paid /\ consumed \subseteq permits
      /\ \A c \in ToSet(waiters) : c \in Paid /\ c \in Calls /\ c \notin permits
      /\ Paid \subseteq Calls
  BY PlaceOf DEF IInv, PermitSide, Calls
<1>3. /\ permits' \subseteq Paid /\ consumed' \subseteq permits'
      /\ permits' \subseteq permits \cup ToSet(waiters)
  BY <1>1, <1>2
<1>4. handler' \in [Calls -> Handlers]
  BY <1>1 DEF Handlers
<1>5. \A c \in Calls : \/ c \notin next /\ handler'[c] = h[c]
                       \/ c \in next /\ c \in ToSet(waiters) /\ handler'[c] = "granted"
  BY <1>1
<1>6. \A c \in ToSet(waiters') : handler'[c] = "waiting" /\ c \notin permits'
  BY <1>1, <1>2, <1>5
<1>7. PermitsAccounted'
  <2>1. \A c \in consumed' : handler'[c] = "job"
    BY <1>1, <1>2, <1>5
  <2>2. \A c \in Paid : handler'[c] = "job" /\ call'[c] = "executing" => c \in consumed'
    BY <1>1, <1>2, <1>5
  <2>3. QED
    BY <1>1, <2>1, <2>2 DEF PermitsAccounted
<1>8. waiters = <<>> => waiters' = <<>>
  <2>1. ToSet(<<>>) = {} /\ (ToSet(waiters') = {} => waiters' = <<>>)
    BY <1>1, PlaceOf
  <2>2. QED
    BY <1>1, <2>1
<1>9. QED
  BY <1>1, <1>3, <1>4, <1>5, <1>6, <1>7, <1>8 DEF PermitSide

\* A handler that changes otherwise, while the permits stay.
LEMMA HandlersStep ==
  ASSUME IInv, UNCHANGED <<permits, consumed>>, pool' = "ready" => pool = "ready" \/ waiters = <<>>,
         waiters' \in Seq(Paid), IsInjective(waiters'), ToSet(waiters') \subseteq ToSet(waiters),
         handler' \in [Calls -> Handlers],
         \A c \in ToSet(waiters') : handler'[c] = "waiting",
         \A c \in consumed : handler'[c] = "job",
         \A c \in Paid : handler'[c] = "job" /\ call'[c] = "executing" => c \in consumed
  PROVE  PermitSide'
<1>1. pool' = "ready" /\ waiters' # <<>> => pool = "ready" /\ waiters # <<>>
  <2>1. ToSet(<<>>) = {} /\ (ToSet(waiters') = {} => waiters' = <<>>)
    BY PlaceOf
  <2>2. QED
    BY <2>1
<1>2. QED
  BY <1>1 DEF IInv, PermitSide, PermitsAccounted

\* A job settles once, and its permit comes back.
LEMMA SettleStep ==
  ASSUME IInv, NEW c \in Calls \cup {None}, Settle(c), UNCHANGED <<pool, call>>
  PROVE  /\ PermitSide'
         /\ permits' \subseteq permits \cup ToSet(waiters)
         /\ waiters = <<>> => waiters' = <<>>
         /\ \A d \in Calls : \/ handler'[d] = handler[d]
                             \/ d \in ToSet(waiters) /\ handler'[d] = "granted"
                             \/ d = c /\ handler[d] = "job" /\ handler'[d] = "answered"
<1>1. CASE c # None /\ handler[c] = "job"
  <2> DEFINE h == [handler EXCEPT ![c] = "answered"]
  <2>1. c \in Calls /\ Free({c} \cap Paid, h)
    BY <1>1, CallsAssumption DEF Settle
  <2>2. h \in [Calls -> Handlers] /\ h[c] = "answered" /\ \A d \in Calls \ {c} : h[d] = handler[d]
    BY <2>1 DEF IInv, PermitSide, Handlers
  <2>3. consumed \subseteq Paid /\ ToSet(waiters) \subseteq Paid /\ Paid \subseteq Calls
    BY PlaceOf DEF IInv, PermitSide, Calls
  <2>4. \A d \in ToSet(waiters) : h[d] = "waiting"
    BY <1>1, <2>2, <2>3 DEF IInv, PermitSide
  <2>5. \A d \in consumed \ ({c} \cap Paid) : h[d] = "job"
    BY <2>2, <2>3 DEF IInv, PermitSide, PermitsAccounted
  <2>6. \A d \in Paid : h[d] = "job" /\ call'[d] = "executing" => d \in consumed \ ({c} \cap Paid)
    BY <2>2, <2>3 DEF IInv, PermitSide, PermitsAccounted
  <2> HIDE DEF h
  <2>7. {c} \cap Paid \in SUBSET Paid /\ pool' = pool
    OBVIOUS
  <2>8. /\ PermitSide' /\ permits' \subseteq permits \cup ToSet(waiters)
        /\ waiters = <<>> => waiters' = <<>>
        /\ \A d \in Calls : \/ handler'[d] = h[d]
                            \/ d \in ToSet(waiters) /\ handler'[d] = "granted"
    BY <2>1, <2>2, <2>4, <2>5, <2>6, <2>7, FreeStep
  <2>9. QED
    BY <1>1, <2>2, <2>8
<1>2. CASE ~ (c # None /\ handler[c] = "job")
  <2>1. UNCHANGED poolVars
    BY <1>2 DEF Settle
  <2>2. QED
    BY <2>1 DEF poolVars, IInv, PermitSide, PermitsAccounted
<1>3. QED
  BY <1>1, <1>2

-----------------------------------------------------------------------------
(* Steps of the queues                                                     *)

\* After a dispatch, what is queued waits, what runs has left.
LEMMA DispatchStep ==
  ASSUME IInv, NEW sl \in [Slots -> [phase : Phases, job : Calls \cup {None}]],
         NEW rs \in Seq(Paid), NEW rq \in Seq(Plain), IsInjective(rs), IsInjective(rq),
         NEW bytes, bytes = Bytes(rs \o rq),
         \/ \A s, r \in Idle(sl) : s = r
         \/ \A c, d \in ToSet(rs) \cup ToSet(rq) : c = d,
         Dispatch(sl, rs, rq, bytes),
         \A c \in ToSet(rs) \cup ToSet(rq) : handler'[c] = "job" /\ call'[c] \in {"executing", "gone"},
         \A c \in Running(sl) : /\ c \notin ToSet(rs) \cup ToSet(rq)
                                /\ call'[c] \in {"executing", "done", "gone"}
  PROVE  /\ QueueSide'
         /\ rs = <<>> /\ rq = <<>> => responses' = <<>> /\ requests' = <<>>
<1>1. /\ slot' \in [Slots -> [phase : Phases, job : Calls \cup {None}]]
      /\ responses' \in Seq(Paid) /\ requests' \in Seq(Plain)
      /\ IsInjective(responses') /\ IsInjective(requests')
      /\ queuedBytes' = Bytes(responses' \o requests')
      /\ responses' \o requests' # <<>> => Idle(slot') = {}
      /\ ToSet(responses') \cup ToSet(requests') \subseteq ToSet(rs) \cup ToSet(rq)
      /\ \A c \in Running(slot') : \/ c \in Running(sl)
                                   \/ /\ c \in ToSet(rs) \cup ToSet(rq)
                                      /\ c \notin ToSet(responses') \cup ToSet(requests')
  BY DispatchKeeps
<1>2. Queued' \subseteq ToSet(rs) \cup ToSet(rq) /\ Queued' = ToSet(responses') \cup ToSet(requests')
  BY <1>1 DEF Queued
<1>3. \A c \in Queued' : handler'[c] = "job"
  BY <1>2
<1>4. \A c \in Running(slot') : c \notin Queued' /\ call'[c] \in {"executing", "done", "gone"}
  BY <1>1, <1>2
<1>5. QueueSide'
  BY <1>1, <1>3, <1>4 DEF QueueSide
<1>6. rs = <<>> /\ rq = <<>> => responses' = <<>> /\ requests' = <<>>
  <2>1. ToSet(<<>>) = {} /\ (ToSet(responses') = {} => responses' = <<>>)
                         /\ (ToSet(requests') = {} => requests' = <<>>)
    BY <1>1, PlaceOf
  <2>2. QED
    BY <1>1, <2>1
<1>7. QED
  BY <1>5, <1>6

\* The queues stay, and so do the handlers of the jobs.
LEMMA QueuesStay ==
  ASSUME IInv, UNCHANGED <<responses, requests, queuedBytes>>,
         slot' \in [Slots -> [phase : Phases, job : Calls \cup {None}]],
         Idle(slot') \subseteq Idle(slot), Running(slot') \subseteq Running(slot),
         \A c \in Queued : handler'[c] = "job",
         \A c \in Running(slot) : call'[c] \in {"executing", "done", "gone"}
  PROVE  QueueSide'
BY DEF IInv, QueueSide, Queued

\* Where the calls of the queues, the workers and the waiters are.
LEMMA Whereabouts ==
  ASSUME IInv
  PROVE  /\ Paid \subseteq Calls /\ Plain \subseteq Calls /\ Paid \cap Plain = {} /\ None \notin Calls
         /\ ToSet(waiters) \subseteq Paid /\ consumed \subseteq Paid
         /\ ToSet(responses) \subseteq Paid /\ ToSet(requests) \subseteq Plain
         /\ \A c \in Queued : /\ c \in Calls /\ c \notin ToSet(waiters) /\ handler[c] = "job"
                              /\ call[c] \in {"executing", "gone"}
         /\ \A c \in ToSet(waiters) : call[c] \notin {"idle", "holding"} /\ handler[c] = "waiting"
         /\ (responses \o requests = <<>> <=> Queued = {})
         /\ \A s \in Slots : /\ slot[s].job \in Calls \cup {None} /\ slot[s].job \notin Queued
                             /\ slot[s].job # None => slot[s].job \in Running(slot)
<1>1. Paid \subseteq Calls /\ Plain \subseteq Calls /\ Paid \cap Plain = {} /\ None \notin Calls
  BY CallsAssumption DEF Calls
<1>2. /\ ToSet(waiters) \subseteq Paid /\ consumed \subseteq Paid
      /\ ToSet(responses) \subseteq Paid /\ ToSet(requests) \subseteq Plain
  BY PlaceOf DEF IInv, PermitSide, QueueSide
<1>3. \A c \in ToSet(waiters) : call[c] \notin {"idle", "holding"} /\ handler[c] = "waiting"
  BY <1>1, <1>2 DEF IInv, PermitSide, Callers
<1>4. \A c \in Queued : /\ c \in Calls /\ c \notin ToSet(waiters) /\ handler[c] = "job"
                        /\ call[c] \in {"executing", "gone"}
  BY <1>1, <1>2, <1>3 DEF IInv, QueueSide, Callers, Queued
<1>5. responses \o requests = <<>> <=> Queued = {}
  BY BytesOfQueues DEF IInv, QueueSide, Queued
<1>6. \A s \in Slots : /\ slot[s].job \in Calls \cup {None} /\ slot[s].job \notin Queued
                       /\ slot[s].job # None => slot[s].job \in Running(slot)
  BY <1>1, <1>4 DEF IInv, QueueSide, Running
<1>7. QED
  BY <1>1, <1>2, <1>3, <1>4, <1>5, <1>6

\* The callers need not move when the server tells a handler something.
LEMMA CallersStay ==
  ASSUME IInv, call' = call, deletes' \subseteq deletes, permits' \subseteq permits \cup ToSet(waiters),
         \A c \in Calls : handler'[c] = handler[c] \/ (handler[c] # "none" /\ handler'[c] # "job")
  PROVE  Callers'
BY Whereabouts DEF IInv, Callers

-----------------------------------------------------------------------------
(* Workers                                                                 *)

LEMMA SpawnReadyKeeps ==
  ASSUME IInv, NEW s \in Slots, SpawnReady(s)
  PROVE  IInv'
<1> DEFINE sl == [slot EXCEPT ![s].phase = "live"]
           started == pool = "starting" /\ \A r \in Slots \ {s} : slot[r].phase # "spawning"
<1>1. /\ slot[s].phase = "spawning" /\ pool' = (IF started THEN "ready" ELSE pool)
      /\ open' = (open \/ started)
      /\ Dispatch(sl, responses, requests, queuedBytes)
      /\ UNCHANGED <<permits, consumed, waiters, handler, call, deletes>>
  BY DEF SpawnReady, poolVars
<1>2. /\ sl \in [Slots -> [phase : Phases, job : Calls \cup {None}]]
      /\ \A r \in Slots : sl[r].job = slot[r].job /\ (r # s => sl[r].phase = slot[r].phase)
  BY DEF IInv, QueueSide, Phases
<1>3. Running(sl) = Running(slot) /\ Idle(sl) \subseteq Idle(slot) \cup {s}
  BY <1>2 DEF Running, Idle
<1> HIDE DEF sl
<1>4. \/ \A t, r \in Idle(sl) : t = r
      \/ \A c, d \in ToSet(responses) \cup ToSet(requests) : c = d
  BY <1>3, Whereabouts DEF IInv, QueueSide, Queued
<1>5. /\ QueueSide'
      /\ responses = <<>> /\ requests = <<>> => responses' = <<>> /\ requests' = <<>>
  <2>1. /\ responses \in Seq(Paid) /\ requests \in Seq(Plain)
        /\ IsInjective(responses) /\ IsInjective(requests)
        /\ queuedBytes = Bytes(responses \o requests)
    BY DEF IInv, QueueSide
  <2>2. \A c \in ToSet(responses) \cup ToSet(requests) : handler'[c] = "job" /\ call'[c] \in {"executing", "gone"}
    BY <1>1, Whereabouts DEF Queued
  <2>3. \A c \in Running(sl) : /\ c \notin ToSet(responses) \cup ToSet(requests)
                               /\ call'[c] \in {"executing", "done", "gone"}
    BY <1>1, <1>3 DEF IInv, QueueSide, Queued
  <2>4. QED
    BY <1>1, <1>2, <1>4, <2>1, <2>2, <2>3, DispatchStep
<1>6. Phase'
  BY <1>1, <1>5 DEF IInv, Phase
<1>7. Callers'
  BY <1>1, CallersStay
<1>8. PermitSide'
  <2>1. waiters' \in Seq(Paid) /\ IsInjective(waiters') /\ handler' \in [Calls -> Handlers]
    BY <1>1 DEF IInv, PermitSide
  <2>2. pool' = "ready" => pool = "ready" \/ waiters = <<>>
    BY <1>1 DEF IInv, Phase
  <2>3. /\ \A c \in ToSet(waiters') : handler'[c] = "waiting"
        /\ \A c \in consumed : handler'[c] = "job"
        /\ \A c \in Paid : handler'[c] = "job" /\ call'[c] = "executing" => c \in consumed
    BY <1>1 DEF IInv, PermitSide, PermitsAccounted
  <2>4. QED
    BY <1>1, <2>1, <2>2, <2>3, HandlersStep
<1>9. QED
  BY <1>5, <1>6, <1>7, <1>8 DEF IInv

\* What only changes a worker without work.
LEMMA SpawnFailsKeeps ==
  ASSUME IInv, NEW s \in Slots, SpawnFails(s)
  PROVE  IInv'
<1>1. /\ slot[s].phase = "spawning"
      /\ UNCHANGED <<permits, consumed, waiters, handler, responses, requests, queuedBytes, call, deletes, open>>
      /\ pool' = IF pool = "starting" THEN "closed" ELSE pool
      /\ slot' = IF pool = "starting" THEN [r \in Slots |-> [phase |-> "lost", job |-> None]]
                                      ELSE [slot EXCEPT ![s].phase = "retiring"]
  BY DEF SpawnFails, poolVars, CloseSlots
<1>2. slot' \in [Slots -> [phase : Phases, job : Calls \cup {None}]]
  BY <1>1 DEF IInv, QueueSide, Phases
<1>3. Idle(slot') \subseteq Idle(slot) /\ Running(slot') \subseteq Running(slot)
  BY <1>1 DEF IInv, QueueSide, Idle, Running
<1>4. QueueSide'
  BY <1>1, <1>2, <1>3, QueuesStay DEF IInv, QueueSide
<1>5. Phase'
  BY <1>1 DEF IInv, Phase
<1>6. Callers'
  BY <1>1, CallersStay
<1>7. PermitSide'
  BY <1>1 DEF IInv, PermitSide, PermitsAccounted
<1>8. QED
  BY <1>4, <1>5, <1>6, <1>7 DEF IInv

LEMMA RespawnKeeps ==
  ASSUME IInv, NEW s \in Slots, Respawn(s)
  PROVE  IInv'
<1>1. /\ slot[s].phase = "retiring"
      /\ UNCHANGED <<pool, permits, consumed, waiters, handler, responses, requests, queuedBytes, call, deletes, open>>
      /\ slot' = [slot EXCEPT ![s].phase = IF pool = "ready" THEN "spawning" ELSE "lost"]
  BY DEF Respawn, poolVars
<1>2. slot' \in [Slots -> [phase : Phases, job : Calls \cup {None}]]
  BY <1>1 DEF IInv, QueueSide, Phases
<1>3. Idle(slot') \subseteq Idle(slot) /\ Running(slot') \subseteq Running(slot)
  BY <1>1 DEF IInv, QueueSide, Idle, Running
<1>4. QueueSide'
  BY <1>1, <1>2, <1>3, QueuesStay DEF IInv, QueueSide
<1>5. Phase' /\ PermitSide'
  BY <1>1 DEF IInv, Phase, PermitSide, PermitsAccounted
<1>6. Callers'
  BY <1>1, CallersStay
<1>7. QED
  BY <1>4, <1>5, <1>6 DEF IInv

\* A worker's job settles and the worker is as sl says, without that job: an
\* answer, a failure or the watchdog.
LEMMA JobEnds ==
  ASSUME IInv, NEW s \in Slots, NEW sl \in [Slots -> [phase : Phases, job : Calls \cup {None}]],
         sl[s].job = None, \A r \in Slots \ {s} : sl[r] = slot[r],
         Settle(slot[s].job), Dispatch(sl, responses, requests, queuedBytes),
         UNCHANGED <<pool, call, deletes, open>>
  PROVE  IInv'
<1> DEFINE job == slot[s].job
<1>1. job \in Calls \cup {None} /\ job \notin Queued
  BY Whereabouts
<1> HIDE DEF job
<1>2. /\ PermitSide' /\ permits' \subseteq permits \cup ToSet(waiters)
      /\ waiters = <<>> => waiters' = <<>>
      /\ \A d \in Calls : \/ handler'[d] = handler[d]
                          \/ d \in ToSet(waiters) /\ handler'[d] = "granted"
                          \/ d = job /\ handler[d] = "job" /\ handler'[d] = "answered"
  BY <1>1, SettleStep DEF job
<1>3. Running(sl) \subseteq Running(slot) /\ Idle(sl) \subseteq Idle(slot) \cup {s}
  BY DEF Running, Idle
<1>4. \/ \A t, r \in Idle(sl) : t = r
      \/ \A c, d \in ToSet(responses) \cup ToSet(requests) : c = d
  BY <1>3, Whereabouts DEF IInv, QueueSide, Queued
<1>5. /\ QueueSide'
      /\ responses = <<>> /\ requests = <<>> => responses' = <<>> /\ requests' = <<>>
  <2>1. /\ responses \in Seq(Paid) /\ requests \in Seq(Plain)
        /\ IsInjective(responses) /\ IsInjective(requests)
        /\ queuedBytes = Bytes(responses \o requests)
    BY DEF IInv, QueueSide
  <2>2. \A c \in ToSet(responses) \cup ToSet(requests) : handler'[c] = "job" /\ call'[c] \in {"executing", "gone"}
    BY <1>1, <1>2, Whereabouts DEF Queued
  <2>3. \A c \in Running(sl) : /\ c \notin ToSet(responses) \cup ToSet(requests)
                               /\ call'[c] \in {"executing", "done", "gone"}
    BY <1>3 DEF IInv, QueueSide, Queued
  <2>4. QED
    BY <1>4, <2>1, <2>2, <2>3, DispatchStep
<1>6. Phase'
  BY <1>2, <1>5 DEF IInv, Phase
<1>7. Callers'
  <2>1. \A c \in Calls : handler'[c] = handler[c] \/ (handler[c] # "none" /\ handler'[c] # "job")
    BY <1>2, Whereabouts
  <2>2. QED
    BY <1>2, <2>1, CallersStay
<1>8. QED
  BY <1>2, <1>5, <1>6, <1>7 DEF IInv

LEMMA WorkerKeeps ==
  ASSUME IInv, NEW s \in Slots, WorkerStep(s)
  PROVE  IInv'
<1>1. CASE WorkerFails(s) \/ Watchdog(s)
  <2> DEFINE sl == [slot EXCEPT ![s] = [phase |-> "retiring", job |-> None]]
  <2>1. /\ Settle(slot[s].job) /\ Dispatch(sl, responses, requests, queuedBytes)
        /\ UNCHANGED <<pool, call, deletes, open>>
    BY <1>1 DEF WorkerFails, Watchdog, Retire
  <2>2. /\ sl \in [Slots -> [phase : Phases, job : Calls \cup {None}]]
        /\ sl[s].job = None /\ \A r \in Slots \ {s} : sl[r] = slot[r]
    BY DEF IInv, QueueSide, Phases
  <2> HIDE DEF sl
  <2>3. QED
    BY <2>1, <2>2, JobEnds
<1>2. CASE WorkerAnswers(s)
  <2> DEFINE sl == [slot EXCEPT ![s].job = None]
  <2>1. /\ Settle(slot[s].job) /\ Dispatch(sl, responses, requests, queuedBytes)
        /\ UNCHANGED <<pool, call, deletes, open>>
    BY <1>2 DEF WorkerAnswers
  <2>2. /\ sl \in [Slots -> [phase : Phases, job : Calls \cup {None}]]
        /\ sl[s].job = None /\ \A r \in Slots \ {s} : sl[r] = slot[r]
    BY DEF IInv, QueueSide, Phases
  <2> HIDE DEF sl
  <2>3. QED
    BY <2>1, <2>2, JobEnds
<1>3. QED
  BY <1>1, <1>2, SpawnReadyKeeps, SpawnFailsKeeps, RespawnKeeps DEF WorkerStep

-----------------------------------------------------------------------------
(* Callers and the server                                                  *)

LEMMA QueueSideStays ==
  ASSUME IInv, UNCHANGED queueVars, \A c \in Queued : handler'[c] = "job",
         \A c \in Running(slot) : call'[c] \in {"executing", "done", "gone"}
  PROVE  QueueSide'
<1>1. /\ UNCHANGED <<responses, requests, queuedBytes>> /\ slot' = slot
      /\ slot' \in [Slots -> [phase : Phases, job : Calls \cup {None}]]
  BY DEF queueVars, IInv, QueueSide
<1>2. QED
  BY <1>1, QueuesStay

LEMMA ReserveKeeps ==
  ASSUME IInv, NEW c \in Calls, Reserve(c)
  PROVE  IInv'
<1>1. /\ c \in Paid /\ call[c] = "idle" /\ open /\ pool = "ready"
      /\ UNCHANGED <<pool, consumed, deletes, open>> /\ UNCHANGED queueVars
      /\ handler[c] = "none" /\ c \notin permits /\ c \notin ToSet(waiters) /\ c \notin Queued
      /\ c \notin deletes /\ c \notin consumed
  BY Whereabouts DEF Reserve, IInv, Phase, Callers, PermitSide
<1>2. /\ call' \in [Calls -> CallStates] /\ call'[c] \in {"reserving", "done"}
      /\ \A d \in Calls \ {c} : call'[d] = call[d]
  BY DEF Reserve, IInv, Callers, CallStates
<1>3. /\ handler' \in [Calls -> Handlers] /\ handler'[c] \in {"none", "granted", "waiting"}
      /\ \A d \in Calls \ {c} : handler'[d] = handler[d]
  BY <1>1 DEF Reserve, IInv, PermitSide, Handlers
<1>4. QueueSide'
  <2>1. \A d \in Queued : handler'[d] = "job"
    BY <1>1, <1>3, Whereabouts
  <2>2. \A d \in Running(slot) : call'[d] \in {"executing", "done", "gone"}
    <3>1. \A d \in Running(slot) : d \in Calls /\ call[d] \in {"executing", "done", "gone"}
      BY DEF IInv, QueueSide, Running
    <3>2. QED
      BY <1>1, <1>2, <3>1
  <2>3. QED
    BY <1>1, <2>1, <2>2, QueueSideStays
<1>5. Phase'
  BY <1>1 DEF IInv, Phase, queueVars
<1>6. permits' \subseteq permits \cup {c}
  BY <1>1 DEF Reserve
<1>7. Callers'
  BY <1>1, <1>2, <1>3, <1>6 DEF IInv, Callers
<1>8. PermitSide'
  <2>1. /\ \A d \in consumed : d \in Calls /\ d # c /\ handler'[d] = "job"
        /\ \A d \in Paid : handler'[d] = "job" /\ call'[d] = "executing" => d \in consumed
    BY <1>1, <1>2, <1>3, Whereabouts DEF IInv, PermitSide, PermitsAccounted
  <2>2. \A d \in ToSet(waiters) : d \in Calls /\ d # c /\ handler'[d] = "waiting" /\ d \notin permits
    BY <1>1, <1>3, Whereabouts DEF IInv, PermitSide
  <2>3. Cardinality(permits) \in Nat /\ PermitCap \in Nat
    BY FS_CardinalityType, LimitsAssumption DEF IInv, PermitSide
  <2>4. CASE /\ Cardinality(permits) < PermitCap
             /\ permits' = permits \cup {c} /\ UNCHANGED waiters
    <3>1. IsFiniteSet(permits') /\ Cardinality(permits') = Cardinality(permits) + 1
      BY <1>1, <2>4, FS_AddElement DEF IInv, PermitSide
    <3>2. waiters = <<>> /\ ToSet(waiters) = {}
      BY <1>1, <2>3, <2>4, PlaceOf DEF IInv, PermitSide, PermitsAccounted
    <3>3. QED
      BY <1>1, <1>3, <2>1, <2>3, <2>4, <3>1, <3>2 DEF IInv, PermitSide, PermitsAccounted
  <2>5. CASE /\ Cardinality(permits) >= PermitCap /\ UNCHANGED permits
             /\ waiters' = Append(waiters, c) /\ handler' = [handler EXCEPT ![c] = "waiting"]
    <3>1. /\ waiters' \in Seq(Paid) /\ ToSet(waiters') = ToSet(waiters) \cup {c} /\ IsInjective(waiters')
      BY <1>1, <2>5, AppendSet DEF IInv, PermitSide
    <3>2. handler'[c] = "waiting"
      BY <1>1, <2>5 DEF IInv, PermitSide
    <3>3. Cardinality(permits) = PermitCap
      BY <2>3, <2>5 DEF IInv, PermitSide, PermitsAccounted
    <3>4. QED
      BY <1>1, <1>3, <2>1, <2>2, <2>5, <3>1, <3>2, <3>3 DEF IInv, PermitSide, PermitsAccounted
  <2>6. CASE UNCHANGED <<permits, waiters, handler>>
    BY <1>1, <1>3, <2>1, <2>2, <2>6 DEF IInv, PermitSide, PermitsAccounted
  <2>7. QED
    BY <2>4, <2>5, <2>6 DEF Reserve
<1>9. QED
  BY <1>4, <1>5, <1>7, <1>8 DEF IInv

\* Steps that leave the permits and the queues as they are: a waiter gives up
\* or not, and the call at c moves on.
LEMMA OneCallMoves ==
  ASSUME IInv, NEW c \in Calls, UNCHANGED <<pool, permits, consumed, open>>, UNCHANGED queueVars,
         handler[c] # "job",
         handler' \in [Calls -> Handlers], \A d \in Calls \ {c} : handler'[d] = handler[d],
         handler'[c] \in {"none", "answered"} \/ handler'[c] = handler[c],
         \/ waiters' = waiters /\ (c \in ToSet(waiters) => handler'[c] = handler[c])
         \/ waiters' = RemoveFirst(waiters, c),
         call' \in [Calls -> CallStates], \A d \in Calls \ {c} : call'[d] = call[d],
         c \in Running(slot) => call'[c] \in {"executing", "done", "gone"}
  PROVE  Phase' /\ PermitSide' /\ QueueSide'
<1>1. /\ waiters' \in Seq(Paid) /\ IsInjective(waiters') /\ ToSet(waiters') \subseteq ToSet(waiters)
      /\ c \in ToSet(waiters') => handler'[c] = handler[c]
  BY RemoveSet DEF IInv, PermitSide
<1>2. PermitSide'
  <2>1. \A d \in ToSet(waiters') : handler'[d] = "waiting"
    BY <1>1, Whereabouts
  <2>2. \A d \in consumed : d \in Calls /\ handler[d] = "job" /\ handler'[d] = "job"
    BY Whereabouts DEF IInv, PermitSide, PermitsAccounted
  <2>3. \A d \in Paid : handler'[d] = "job" /\ call'[d] = "executing" => d \in consumed
    BY Whereabouts DEF IInv, PermitSide, PermitsAccounted
  <2>4. QED
    BY <1>1, <2>1, <2>2, <2>3, HandlersStep
<1>3. QueueSide'
  <2>1. \A d \in Queued : handler'[d] = "job"
    BY Whereabouts
  <2>2. \A d \in Running(slot) : d \in Calls /\ call[d] \in {"executing", "done", "gone"}
    BY DEF IInv, QueueSide, Running
  <2>3. QED
    BY <2>1, <2>2, QueueSideStays
<1>4. Phase'
  <2>1. waiters = <<>> => waiters' = <<>>
    BY <1>1, PlaceOf
  <2>2. QED
    BY <2>1 DEF IInv, Phase, queueVars
<1>5. QED
  BY <1>2, <1>3, <1>4

LEMMA WaiterTimesOutKeeps ==
  ASSUME IInv, NEW c \in Calls, WaiterTimesOut(c)
  PROVE  IInv'
<1>1. /\ handler[c] = "waiting" /\ waiters' = RemoveFirst(waiters, c)
      /\ handler' = [handler EXCEPT ![c] = "answered"]
      /\ UNCHANGED <<pool, permits, consumed, open>> /\ UNCHANGED queueVars /\ UNCHANGED <<call, deletes>>
  BY DEF WaiterTimesOut
<1>2. /\ handler' \in [Calls -> Handlers] /\ handler'[c] = "answered"
      /\ \A d \in Calls \ {c} : handler'[d] = handler[d]
  BY <1>1 DEF IInv, PermitSide, Handlers
<1>3. call' \in [Calls -> CallStates] /\ \A d \in Running(slot) : call'[d] \in {"executing", "done", "gone"}
  BY <1>1 DEF IInv, Callers, QueueSide
<1>4. Phase' /\ PermitSide' /\ QueueSide'
  BY <1>1, <1>2, <1>3, OneCallMoves
<1>5. Callers'
  BY <1>1, <1>2, CallersStay
<1>6. QED
  BY <1>4, <1>5 DEF IInv

LEMMA GrantedKeeps ==
  ASSUME IInv, NEW c \in Calls, Granted(c)
  PROVE  IInv'
<1>1. /\ handler[c] = "granted" /\ call[c] = "reserving"
      /\ handler' = [handler EXCEPT ![c] = "none"] /\ call' = [call EXCEPT ![c] = "holding"]
      /\ UNCHANGED <<pool, permits, consumed, open>> /\ UNCHANGED queueVars /\ UNCHANGED <<waiters, deletes>>
  BY DEF Granted
<1>2. /\ handler' \in [Calls -> Handlers] /\ handler'[c] = "none"
      /\ \A d \in Calls \ {c} : handler'[d] = handler[d]
  BY <1>1 DEF IInv, PermitSide, Handlers
<1>3. /\ call' \in [Calls -> CallStates] /\ call'[c] = "holding"
      /\ \A d \in Calls \ {c} : call'[d] = call[d]
  BY <1>1 DEF IInv, Callers, CallStates
<1>4. c \notin ToSet(waiters) /\ c \notin Running(slot)
  BY <1>1, Whereabouts DEF IInv, QueueSide
<1>5. Phase' /\ PermitSide' /\ QueueSide'
  BY <1>1, <1>2, <1>3, <1>4, OneCallMoves
<1>6. Callers'
  BY <1>1, <1>2, <1>3 DEF IInv, Callers
<1>7. QED
  BY <1>5, <1>6 DEF IInv

LEMMA FlushedKeeps ==
  ASSUME IInv, NEW c \in Calls, Flushed(c)
  PROVE  IInv'
<1>1. /\ handler[c] = "granted" /\ call[c] = "gone" /\ handler' = [handler EXCEPT ![c] = "none"]
      /\ UNCHANGED <<pool, permits, consumed, open>> /\ UNCHANGED queueVars /\ UNCHANGED <<waiters, call, deletes>>
  BY DEF Flushed
<1>2. /\ handler' \in [Calls -> Handlers] /\ handler'[c] = "none"
      /\ \A d \in Calls \ {c} : handler'[d] = handler[d]
  BY <1>1 DEF IInv, PermitSide, Handlers
<1>3. call' \in [Calls -> CallStates] /\ \A d \in Running(slot) : call'[d] \in {"executing", "done", "gone"}
  BY <1>1 DEF IInv, Callers, QueueSide
<1>4. c \notin ToSet(waiters)
  BY <1>1, Whereabouts
<1>5. Phase' /\ PermitSide' /\ QueueSide'
  BY <1>1, <1>2, <1>3, <1>4, OneCallMoves
<1>6. Callers'
  BY <1>1, <1>2, CallersStay
<1>7. QED
  BY <1>5, <1>6 DEF IInv

LEMMA ReceiveKeeps ==
  ASSUME IInv, NEW c \in Calls, Receive(c)
  PROVE  IInv'
<1>1. /\ handler[c] = "answered" /\ call[c] \in {"reserving", "executing"}
      /\ handler' = [handler EXCEPT ![c] = "none"] /\ call' = [call EXCEPT ![c] = "done"]
      /\ deletes' \subseteq deletes \cup ({c} \cap Paid)
      /\ UNCHANGED <<pool, permits, consumed, open>> /\ UNCHANGED queueVars /\ UNCHANGED waiters
  BY DEF Receive
<1>2. /\ handler' \in [Calls -> Handlers] /\ handler'[c] = "none"
      /\ \A d \in Calls \ {c} : handler'[d] = handler[d]
  BY <1>1 DEF IInv, PermitSide, Handlers
<1>3. /\ call' \in [Calls -> CallStates] /\ call'[c] = "done"
      /\ \A d \in Calls \ {c} : call'[d] = call[d]
  BY <1>1 DEF IInv, Callers, CallStates
<1>4. c \notin ToSet(waiters)
  BY <1>1, Whereabouts
<1>5. Phase' /\ PermitSide' /\ QueueSide'
  BY <1>1, <1>2, <1>3, <1>4, OneCallMoves
<1>6. Callers'
  BY <1>1, <1>2, <1>3 DEF IInv, Callers
<1>7. QED
  BY <1>5, <1>6 DEF IInv

LEMMA LeaveKeeps ==
  ASSUME IInv, NEW c \in Calls, Leave(c)
  PROVE  IInv'
<1>1. /\ call[c] \in {"reserving", "holding", "executing"} /\ call' = [call EXCEPT ![c] = "gone"]
      /\ deletes' \subseteq deletes \cup ({c} \cap Paid)
      /\ UNCHANGED <<pool, permits, consumed, waiters, handler, open>> /\ UNCHANGED queueVars
  BY DEF Leave, poolVars
<1>2. /\ call' \in [Calls -> CallStates] /\ call'[c] = "gone"
      /\ \A d \in Calls \ {c} : call'[d] = call[d]
  BY <1>1 DEF IInv, Callers, CallStates
<1>3. PermitSide'
  <2>1. \A d \in Calls : call'[d] = "executing" => call[d] = "executing"
    BY <1>2
  <2>2. QED
    BY <1>1, <2>1, Whereabouts DEF IInv, PermitSide, PermitsAccounted
<1>4. QueueSide'
  <2>1. \A d \in Running(slot) : d \in Calls /\ call[d] \in {"executing", "done", "gone"}
    BY DEF IInv, QueueSide, Running
  <2>2. QED
    BY <1>1, <1>2, <2>1, QueueSideStays, Whereabouts
<1>5. Phase'
  BY <1>1 DEF IInv, Phase, queueVars
<1>6. Callers'
  BY <1>1, <1>2 DEF IInv, Callers
<1>7. QED
  BY <1>3, <1>4, <1>5, <1>6 DEF IInv

\* A job that is taken out of its queue takes its bytes with it.
LEMMA DequeueStep ==
  ASSUME IInv, NEW c \in Calls, Dequeue(c), call' = call,
         \A d \in Queued \ {c} : handler'[d] = "job"
  PROVE  /\ QueueSide'
         /\ responses = <<>> /\ requests = <<>> => responses' = <<>> /\ requests' = <<>>
<1>1. /\ responses' = RemoveFirst(responses, c) /\ requests' = RemoveFirst(requests, c)
      /\ queuedBytes' = IF c \in ToSet(responses \o requests) THEN queuedBytes - Size[c] ELSE queuedBytes
      /\ slot' = slot
  BY DEF Dequeue
<1>2. /\ responses' \in Seq(Paid) /\ IsInjective(responses')
      /\ requests' \in Seq(Plain) /\ IsInjective(requests')
      /\ ToSet(responses') = ToSet(responses) \ {c} /\ ToSet(requests') = ToSet(requests) \ {c}
  BY <1>1, RemoveSet DEF IInv, QueueSide
<1>3. Queued' = Queued \ {c}
  BY <1>2 DEF Queued
<1>4. ToSet(responses \o requests) = Queued
  <2>1. responses \in Seq(Calls) /\ requests \in Seq(Calls)
    BY SeqMonotonic DEF IInv, QueueSide, Calls
  <2>2. QED
    BY <2>1, ConcatSet DEF Queued
<1>5. /\ queuedBytes = SumOf(Size, Queued) /\ queuedBytes \in Nat
      /\ IsFiniteSet(Queued) /\ \A d \in Queued : Size[d] \in Nat
  BY BytesOfQueues DEF IInv, QueueSide, Queued
<1>6. /\ Bytes(responses' \o requests') = SumOf(Size, Queued \ {c})
      /\ Bytes(responses' \o requests') \in Nat
      /\ responses' \o requests' = <<>> <=> Queued \ {c} = {}
  BY <1>2, <1>3, BytesOfQueues DEF Queued
<1>7. queuedBytes' = Bytes(responses' \o requests')
  <2>1. CASE c \in Queued
    <3>1. SumOf(Size, Queued) = Size[c] + SumOf(Size, Queued \ {c})
      BY <1>5, <2>1, SumRemove
    <3>2. QED
      BY <1>1, <1>4, <1>5, <1>6, <2>1, <3>1
  <2>2. CASE c \notin Queued
    <3>1. Queued \ {c} = Queued
      BY <2>2
    <3>2. QED
      BY <1>1, <1>4, <1>5, <1>6, <2>2, <3>1
  <2>3. QED
    BY <2>1, <2>2
<1>8. responses' \o requests' # <<>> => Idle(slot') = {}
  BY <1>1, <1>6, Whereabouts DEF IInv, QueueSide
<1>9. QueueSide'
  BY <1>1, <1>2, <1>3, <1>7, <1>8 DEF IInv, QueueSide
<1>10. responses = <<>> /\ requests = <<>> => responses' = <<>> /\ requests' = <<>>
  BY <1>2, PlaceOf
<1>11. QED
  BY <1>9, <1>10

LEMMA QueueTimesOutKeeps ==
  ASSUME IInv, NEW c \in Calls, QueueTimesOut(c)
  PROVE  IInv'
<1>1. Dequeue(c) /\ Settle(c) /\ UNCHANGED <<pool, call, deletes, open>>
  BY DEF QueueTimesOut
<1>2. /\ PermitSide' /\ permits' \subseteq permits \cup ToSet(waiters)
      /\ waiters = <<>> => waiters' = <<>>
      /\ \A d \in Calls : \/ handler'[d] = handler[d]
                          \/ d \in ToSet(waiters) /\ handler'[d] = "granted"
                          \/ d = c /\ handler[d] = "job" /\ handler'[d] = "answered"
  BY <1>1, SettleStep
<1>3. /\ QueueSide'
      /\ responses = <<>> /\ requests = <<>> => responses' = <<>> /\ requests' = <<>>
  <2>1. \A d \in Queued \ {c} : handler'[d] = "job"
    BY <1>2, Whereabouts
  <2>2. QED
    BY <1>1, <2>1, DequeueStep
<1>4. Phase'
  BY <1>1, <1>2, <1>3 DEF IInv, Phase
<1>5. Callers'
  <2>1. \A d \in Calls : handler'[d] = handler[d] \/ (handler[d] # "none" /\ handler'[d] # "job")
    BY <1>2, Whereabouts
  <2>2. QED
    BY <1>1, <1>2, <2>1, CallersStay
<1>6. QED
  BY <1>2, <1>3, <1>4, <1>5 DEF IInv

\* Permits that come back without their handler: a DELETE, or the TTL.
LEMMA PermitBack ==
  ASSUME IInv, NEW c \in Calls, Free({c}, handler), c \in Paid,
         c \notin consumed \/ call[c] # "executing",
         UNCHANGED <<pool, call, open>>, UNCHANGED queueVars, deletes' \subseteq deletes
  PROVE  IInv'
<1>1. /\ PermitSide' /\ permits' \subseteq permits \cup ToSet(waiters)
      /\ waiters = <<>> => waiters' = <<>>
      /\ \A d \in Calls : \/ handler'[d] = handler[d]
                          \/ d \in ToSet(waiters) /\ handler'[d] = "granted"
  <2>1. {c} \in SUBSET Paid /\ handler \in [Calls -> Handlers] /\ pool' = pool
    BY DEF IInv, PermitSide
  <2>2. \A d \in ToSet(waiters) : handler[d] = "waiting"
    BY Whereabouts
  <2>3. \A d \in consumed \ {c} : handler[d] = "job"
    BY DEF IInv, PermitSide, PermitsAccounted
  <2>4. \A d \in Paid : handler[d] = "job" /\ call'[d] = "executing" => d \in consumed \ {c}
    BY DEF IInv, PermitSide, PermitsAccounted
  <2>5. QED
    BY <2>1, <2>2, <2>3, <2>4, FreeStep
<1>2. QueueSide'
  <2>1. \A d \in Queued : handler'[d] = "job"
    BY <1>1, Whereabouts
  <2>2. \A d \in Running(slot) : call'[d] \in {"executing", "done", "gone"}
    BY DEF IInv, QueueSide
  <2>3. QED
    BY <2>1, <2>2, QueueSideStays
<1>3. Phase'
  BY <1>1 DEF IInv, Phase, queueVars
<1>4. Callers'
  <2>1. \A d \in Calls : handler'[d] = handler[d] \/ (handler[d] # "none" /\ handler'[d] # "job")
    BY <1>1, Whereabouts
  <2>2. QED
    BY <1>1, <2>1, CallersStay
<1>5. QED
  BY <1>1, <1>2, <1>3, <1>4 DEF IInv

LEMMA DeleteArrivesKeeps ==
  ASSUME IInv, NEW c \in Calls, DeleteArrives(c)
  PROVE  IInv'
<1>1. /\ c \in deletes /\ c \in Paid /\ deletes' \subseteq deletes /\ Free({c}, handler)
      /\ UNCHANGED <<pool, call, open>> /\ UNCHANGED queueVars
  BY DEF DeleteArrives, IInv, Callers
<1>2. call[c] # "executing"
  BY <1>1 DEF IInv, Callers
<1>3. QED
  BY <1>1, <1>2, PermitBack

LEMMA ExpireKeeps ==
  ASSUME IInv, NEW c \in Calls, Expire(c)
  PROVE  IInv'
<1>1. /\ c \in Paid /\ c \notin consumed /\ Free({c}, handler)
      /\ UNCHANGED <<pool, call, deletes, open>> /\ UNCHANGED queueVars
  BY DEF Expire, IInv, PermitSide
<1>2. QED
  BY <1>1, PermitBack

LEMMA DeleteLostKeeps ==
  ASSUME IInv, NEW c \in Calls, DeleteLost(c)
  PROVE  IInv'
<1>1. /\ deletes' \subseteq deletes /\ UNCHANGED queueVars
      /\ UNCHANGED <<pool, permits, consumed, waiters, handler, call, open>>
  BY DEF DeleteLost, poolVars
<1>2. Phase' /\ Callers' /\ PermitSide'
  BY <1>1 DEF IInv, Phase, Callers, PermitSide, PermitsAccounted, queueVars
<1>3. QueueSide'
  BY <1>1, QueueSideStays DEF IInv, QueueSide
<1>4. QED
  BY <1>2, <1>3 DEF IInv

LEMMA DisconnectKeeps ==
  ASSUME IInv, NEW c \in Calls, Disconnect(c)
  PROVE  IInv'
<1>1. /\ call[c] = "gone" /\ handler[c] # "none" /\ Dequeue(c)
      /\ UNCHANGED <<pool, call, deletes, open>>
  BY DEF Disconnect
<1>2. /\ PermitSide' /\ permits' \subseteq permits \cup ToSet(waiters)
      /\ waiters = <<>> => waiters' = <<>>
      /\ \A d \in Calls \ {c} : \/ handler'[d] = handler[d]
                                \/ d \in ToSet(waiters) /\ handler'[d] = "granted"
      /\ handler'[c] # "job"
  <2>1. CASE handler[c] = "waiting"
    <3>1. /\ waiters' = RemoveFirst(waiters, c) /\ handler' = [handler EXCEPT ![c] = "none"]
          /\ UNCHANGED <<permits, consumed>>
      BY <2>1 DEF Disconnect
    <3>2. /\ handler' \in [Calls -> Handlers] /\ handler'[c] = "none"
          /\ \A d \in Calls \ {c} : handler'[d] = handler[d]
      BY <3>1 DEF IInv, PermitSide, Handlers
    <3>3. /\ waiters' \in Seq(Paid) /\ IsInjective(waiters') /\ ToSet(waiters') = ToSet(waiters) \ {c}
      BY <3>1, RemoveSet DEF IInv, PermitSide
    <3>4. \A d \in ToSet(waiters') : handler'[d] = "waiting"
      BY <3>2, <3>3, Whereabouts
    <3>5. /\ \A d \in consumed : handler'[d] = "job"
          /\ \A d \in Paid : handler'[d] = "job" /\ call'[d] = "executing" => d \in consumed
      BY <1>1, <2>1, <3>2, Whereabouts DEF IInv, PermitSide, PermitsAccounted
    <3>6. PermitSide'
      BY <1>1, <3>1, <3>2, <3>3, <3>4, <3>5, HandlersStep
    <3>7. waiters = <<>> => waiters' = <<>>
      BY <3>3, PlaceOf
    <3>8. QED
      BY <3>1, <3>2, <3>6, <3>7
  <2>2. CASE handler[c] # "waiting"
    <3> DEFINE h == [handler EXCEPT ![c] = "none"]
               ids == IF handler[c] = "answered" THEN {} ELSE {c} \cap Paid
    <3>1. Free(ids, h)
      BY <2>2 DEF Disconnect
    <3>2. /\ h \in [Calls -> Handlers] /\ h[c] = "none" /\ \A d \in Calls \ {c} : h[d] = handler[d]
      BY DEF IInv, PermitSide, Handlers
    <3>3. ids \in SUBSET Paid /\ ids \subseteq {c} /\ (handler[c] = "job" /\ c \in Paid => c \in ids)
      OBVIOUS
    <3> HIDE DEF h, ids
    <3>4. \A d \in ToSet(waiters) : h[d] = "waiting" /\ d # c
      BY <2>2, <3>2, Whereabouts
    <3>5. \A d \in consumed \ ids : h[d] = "job"
      BY <3>2, <3>3, Whereabouts DEF IInv, PermitSide, PermitsAccounted
    <3>6. \A d \in Paid : h[d] = "job" /\ call'[d] = "executing" => d \in consumed \ ids
      BY <1>1, <3>2, <3>3, Whereabouts DEF IInv, PermitSide, PermitsAccounted
    <3>7. /\ PermitSide' /\ permits' \subseteq permits \cup ToSet(waiters)
          /\ waiters = <<>> => waiters' = <<>>
          /\ \A d \in Calls : \/ handler'[d] = h[d]
                              \/ d \in ToSet(waiters) /\ handler'[d] = "granted"
      BY <1>1, <3>1, <3>2, <3>3, <3>4, <3>5, <3>6, FreeStep
    <3>8. QED
      BY <3>2, <3>4, <3>7
  <2>3. QED
    BY <2>1, <2>2
<1>3. /\ QueueSide'
      /\ responses = <<>> /\ requests = <<>> => responses' = <<>> /\ requests' = <<>>
  <2>1. \A d \in Queued \ {c} : handler'[d] = "job"
    BY <1>2, Whereabouts
  <2>2. QED
    BY <1>1, <2>1, DequeueStep
<1>4. Phase'
  BY <1>1, <1>2, <1>3 DEF IInv, Phase
<1>5. Callers'
  <2>1. \A d \in Calls : handler'[d] = handler[d] \/ (handler[d] # "none" /\ handler'[d] # "job")
    BY <1>1, <1>2, Whereabouts
  <2>2. QED
    BY <1>1, <1>2, <2>1, CallersStay
<1>6. QED
  BY <1>2, <1>3, <1>4, <1>5 DEF IInv

LEMMA StopListeningKeeps ==
  ASSUME IInv, StopListening
  PROVE  IInv'
<1>1. open' = FALSE /\ UNCHANGED queueVars /\ UNCHANGED <<pool, permits, consumed, waiters, handler, call, deletes>>
  BY DEF StopListening, poolVars
<1>2. Phase' /\ Callers' /\ PermitSide'
  BY <1>1 DEF IInv, Phase, Callers, PermitSide, PermitsAccounted, queueVars
<1>3. QueueSide'
  BY <1>1, QueueSideStays DEF IInv, QueueSide
<1>4. QED
  BY <1>2, <1>3 DEF IInv

LEMMA DrainKeeps ==
  ASSUME IInv, Drain
  PROVE  IInv'
<1>1. /\ ~open /\ pool' = "draining" /\ waiters' = <<>> /\ UNCHANGED queueVars
      /\ UNCHANGED <<permits, consumed, handler, call, deletes, open>>
  BY DEF Drain
<1>2. PermitSide'
  <2>1. ToSet(<<>>) = {} /\ <<>> \in Seq(Paid) /\ IsInjective(<<>>)
    BY EmptySeqSet
  <2>2. QED
    BY <1>1, <2>1, HandlersStep DEF IInv, PermitSide, PermitsAccounted
<1>3. Phase' /\ Callers'
  BY <1>1 DEF IInv, Phase, Callers
<1>4. QueueSide'
  BY <1>1, QueueSideStays DEF IInv, QueueSide
<1>5. QED
  BY <1>2, <1>3, <1>4 DEF IInv

LEMMA CloseKeeps ==
  ASSUME IInv, Close
  PROVE  IInv'
<1>1. /\ pool = "draining" /\ pool' = "closed"
      /\ handler' = [c \in Calls |-> IF handler[c] = "job" THEN "answered" ELSE handler[c]]
      /\ permits' = {} /\ consumed' = {}
      /\ responses' = <<>> /\ requests' = <<>> /\ queuedBytes' = 0
      /\ slot' = [s \in Slots |-> [phase |-> "lost", job |-> None]]
      /\ UNCHANGED <<waiters, call, deletes, open>>
  BY DEF Close, CloseSlots
<1>2. /\ handler' \in [Calls -> Handlers]
      /\ \A c \in Calls : handler'[c] # "job" /\ (handler[c] # "job" => handler'[c] = handler[c])
  BY <1>1 DEF IInv, PermitSide, Handlers
<1>3. Phase'
  BY <1>1 DEF IInv, Phase
<1>4. Callers'
  BY <1>1, <1>2 DEF IInv, Callers
<1>5. PermitSide'
  <2>1. IsFiniteSet({}) /\ Cardinality({}) <= PermitCap
    BY FS_EmptySet, LimitsAssumption
  <2>2. \A c \in ToSet(waiters) : handler'[c] = "waiting"
    BY <1>2, Whereabouts
  <2>3. \A c \in Paid : handler'[c] # "job"
    BY <1>2, Whereabouts
  <2>4. QED
    BY <1>1, <1>2, <2>1, <2>2, <2>3 DEF IInv, PermitSide, PermitsAccounted
<1>6. QueueSide'
  <2>1. /\ <<>> \in Seq(Paid) /\ <<>> \in Seq(Plain) /\ IsInjective(<<>>) /\ ToSet(<<>>) = {}
    BY EmptySeqSet
  <2>2. Bytes(<<>> \o <<>>) = 0 /\ <<>> \o <<>> = <<>>
    BY <2>1, BytesOfQueues, SumEmpty
  <2>3. slot' \in [Slots -> [phase : Phases, job : Calls \cup {None}]] /\ Running(slot') = {}
    BY <1>1 DEF Phases, Running
  <2>4. QED
    BY <1>1, <2>1, <2>2, <2>3 DEF QueueSide, Queued
<1>7. QED
  BY <1>3, <1>4, <1>5, <1>6 DEF IInv

-----------------------------------------------------------------------------
(* Jobs that come in                                                       *)

LEMMA SubmitRequestKeeps ==
  ASSUME IInv, NEW c \in Calls, SubmitRequest(c)
  PROVE  IInv'
<1>1. /\ c \in Plain /\ c \notin Paid /\ call[c] = "idle" /\ open /\ pool = "ready" /\ handler[c] = "none"
      /\ c \notin Queued /\ c \notin ToSet(waiters) /\ c \notin Running(slot) /\ c \notin deletes
      /\ UNCHANGED <<pool, permits, consumed, waiters, deletes, open>>
  BY Whereabouts DEF SubmitRequest, IInv, Phase, Callers, QueueSide
<1>2. /\ call' \in [Calls -> CallStates] /\ call'[c] = "executing"
      /\ \A d \in Calls \ {c} : call'[d] = call[d]
  BY DEF SubmitRequest, IInv, Callers, CallStates
<1>3. /\ handler' \in [Calls -> Handlers] /\ handler'[c] \in {"job", "answered"}
      /\ \A d \in Calls \ {c} : handler'[d] = handler[d]
  BY <1>1 DEF SubmitRequest, IInv, PermitSide, Handlers
<1>4. PermitSide'
  <2>1. \A d \in ToSet(waiters) : handler'[d] = "waiting"
    BY <1>1, <1>3, Whereabouts
  <2>2. /\ \A d \in consumed : handler'[d] = "job"
        /\ \A d \in Paid : handler'[d] = "job" /\ call'[d] = "executing" => d \in consumed
    BY <1>1, <1>2, <1>3, Whereabouts DEF IInv, PermitSide, PermitsAccounted
  <2>3. waiters' \in Seq(Paid) /\ IsInjective(waiters') /\ pool' = pool
    BY <1>1 DEF IInv, PermitSide
  <2>4. QED
    BY <1>1, <1>3, <2>1, <2>2, <2>3, HandlersStep
<1>5. Phase'
  BY <1>1 DEF IInv, Phase
<1>6. Callers'
  BY <1>1, <1>2, <1>3, Whereabouts DEF IInv, Callers
<1>7. \A d \in Running(slot) : d \notin Queued \cup {c} /\ call'[d] \in {"executing", "done", "gone"}
  <2>1. \A d \in Running(slot) : d \in Calls /\ d \notin Queued /\ call[d] \in {"executing", "done", "gone"}
    BY DEF IInv, QueueSide, Running
  <2>2. QED
    BY <1>1, <1>2, <2>1
<1>8. \A d \in Queued : handler'[d] = "job" /\ call'[d] \in {"executing", "gone"}
  BY <1>1, <1>2, <1>3, Whereabouts
<1>9. QueueSide'
  <2>1. CASE UNCHANGED queueVars
    BY <1>7, <1>8, <2>1, QueueSideStays
  <2>2. CASE /\ handler' = [handler EXCEPT ![c] = "job"]
             /\ Dispatch(slot, responses, Append(requests, c), queuedBytes + Size[c])
    <3> DEFINE rq == Append(requests, c)
               bytes == queuedBytes + Size[c]
    <3>1. /\ responses \in Seq(Paid) /\ IsInjective(responses)
          /\ requests \in Seq(Plain) /\ IsInjective(requests)
          /\ slot \in [Slots -> [phase : Phases, job : Calls \cup {None}]]
      BY DEF IInv, QueueSide
    <3>2. /\ rq \in Seq(Plain) /\ IsInjective(rq) /\ ToSet(rq) = ToSet(requests) \cup {c}
      BY <1>1, <3>1, AppendSet DEF Queued
    <3> HIDE DEF rq
    <3>3. ToSet(responses) \cup ToSet(rq) = Queued \cup {c}
      BY <3>2 DEF Queued
    <3>4. bytes = Bytes(responses \o rq)
      <4>1. /\ queuedBytes = SumOf(Size, Queued) /\ queuedBytes \in Nat /\ IsFiniteSet(Queued)
        BY <3>1, BytesOfQueues DEF IInv, QueueSide, Queued
      <4>2. /\ Bytes(responses \o rq) = SumOf(Size, Queued \cup {c})
            /\ \A d \in Queued \cup {c} : Size[d] \in Nat
        BY <3>1, <3>2, <3>3, BytesOfQueues
      <4>3. SumOf(Size, Queued \cup {c}) = Size[c] + SumOf(Size, Queued)
        BY <1>1, <4>1, <4>2, SumAdd
      <4>4. Size[c] \in Nat
        BY <4>2
      <4>5. QED
        BY <4>1, <4>2, <4>3, <4>4
    <3>5. \/ \A s, r \in Idle(slot) : s = r
          \/ \A x, y \in ToSet(responses) \cup ToSet(rq) : x = y
      BY <3>3, Whereabouts DEF IInv, QueueSide
    <3>6. handler'[c] = "job"
      BY <2>2 DEF IInv, PermitSide
    <3>7. \A d \in ToSet(responses) \cup ToSet(rq) :
             handler'[d] = "job" /\ call'[d] \in {"executing", "gone"}
      BY <1>2, <1>8, <3>3, <3>6
    <3>8. \A d \in Running(slot) : /\ d \notin ToSet(responses) \cup ToSet(rq)
                                   /\ call'[d] \in {"executing", "done", "gone"}
      BY <1>7, <3>3
    <3>9. Dispatch(slot, responses, rq, bytes)
      BY <2>2 DEF rq
    <3> HIDE DEF bytes
    <3>10. QED
      BY <3>1, <3>2, <3>4, <3>5, <3>7, <3>8, <3>9, DispatchStep
  <2>3. QED
    BY <2>1, <2>2 DEF SubmitRequest
<1>10. QED
  BY <1>4, <1>5, <1>6, <1>9 DEF IInv

\* What is left of the requests when the newest are evicted, and its bytes.
LEMMA Evicted ==
  ASSUME IInv, NEW n \in 0 .. Len(requests)
  PROVE  LET gone == SubSeq(requests, n + 1, Len(requests))
             kept == SubSeq(requests, 1, n)
         IN  /\ kept \in Seq(Plain) /\ IsInjective(kept)
             /\ n = 0 => kept = <<>>
             /\ ToSet(kept) \cup ToSet(gone) = ToSet(requests) /\ ToSet(kept) \cap ToSet(gone) = {}
             /\ queuedBytes - Bytes(gone) = SumOf(Size, ToSet(responses) \cup ToSet(kept))
             /\ SumOf(Size, ToSet(responses) \cup ToSet(kept)) \in Nat
<1> DEFINE gone == SubSeq(requests, n + 1, Len(requests))
           kept == SubSeq(requests, 1, n)
           rest == ToSet(responses) \cup ToSet(kept)
<1>1. /\ responses \in Seq(Paid) /\ IsInjective(responses)
      /\ requests \in Seq(Plain) /\ IsInjective(requests)
  BY DEF IInv, QueueSide
<1>2. /\ kept \in Seq(Plain) /\ IsInjective(kept) /\ Len(kept) = n
      /\ gone \in Seq(Plain) /\ IsInjective(gone)
      /\ ToSet(kept) \cup ToSet(gone) = ToSet(requests) /\ ToSet(kept) \cap ToSet(gone) = {}
  BY <1>1, CutSet
<1> HIDE DEF gone, kept
<1>3. n = 0 => kept = <<>>
  BY <1>2, EmptySeq
<1>4. gone \in Seq(Calls)
  BY <1>2, SeqMonotonic DEF Calls
<1>5. Bytes(gone) = SumOf(Size, ToSet(gone)) /\ Bytes(gone) \in Nat
  BY <1>2, <1>4, BytesSum
<1>6. /\ queuedBytes = SumOf(Size, Queued) /\ IsFiniteSet(Queued) /\ \A d \in Queued : Size[d] \in Nat
      /\ ToSet(responses) \cap ToSet(requests) = {}
  BY <1>1, BytesOfQueues DEF IInv, QueueSide, Queued
<1>7. /\ rest \cup ToSet(gone) = Queued /\ rest \cap ToSet(gone) = {}
  BY <1>2, <1>6 DEF Queued
<1>8. IsFiniteSet(rest) /\ IsFiniteSet(ToSet(gone))
  BY <1>6, <1>7, FS_Subset
<1> HIDE DEF rest
<1>9. SumOf(Size, rest \cup ToSet(gone)) = SumOf(Size, rest) + SumOf(Size, ToSet(gone))
  BY <1>6, <1>7, <1>8, SumUnion
<1>10. SumOf(Size, rest) \in Nat
  BY <1>6, <1>7, <1>8, SumNat
<1>11. queuedBytes - Bytes(gone) = SumOf(Size, rest)
  <2>1. queuedBytes = SumOf(Size, rest) + Bytes(gone)
    BY <1>5, <1>6, <1>7, <1>9
  <2>2. \A a, b \in Nat : (a + b) - b = a
    OBVIOUS
  <2>3. QED
    BY <1>5, <1>10, <2>1, <2>2
<1>12. QED
  BY <1>2, <1>3, <1>10, <1>11 DEF gone, kept, rest

\* A response is admitted behind the evicted requests, or refused although
\* all of them are gone, and then its permit comes back.
LEMMA AdmitKeeps ==
  ASSUME IInv, NEW c \in Paid, c \in permits, call[c] = "holding", Admit(c), pool' = pool,
         call'[c] = "executing", \A d \in Calls \ {c} : call'[d] = call[d]
  PROVE  /\ PermitSide' /\ QueueSide' /\ permits' \subseteq permits \cup ToSet(waiters)
         /\ waiters = <<>> => waiters' = <<>>
         /\ \A d \in Calls \ {c} : \/ handler'[d] = handler[d]
                                   \/ handler[d] # "none" /\ handler'[d] # "job"
<1> DEFINE gone(n)  == SubSeq(requests, n + 1, Len(requests))
           kept(n)  == SubSeq(requests, 1, n)
           bytes(n) == queuedBytes - Bytes(gone(n))
           fits(n)  == bytes(n) + Size[c] <= ByteCapacity
           after(n) == [d \in Calls |-> IF d = c /\ fits(n) THEN "job"
                                        ELSE IF d = c \/ d \in ToSet(gone(n)) THEN "answered"
                                        ELSE handler[d]]
<1>1. PICK n \in 0 .. Len(requests) :
        /\ fits(n) \/ n = 0
        /\ IF fits(n)
           THEN /\ Dispatch(slot, Append(responses, c), kept(n), bytes(n) + Size[c])
                /\ consumed' = consumed \cup {c} /\ handler' = after(n)
                /\ UNCHANGED <<permits, waiters>>
           ELSE /\ requests' = <<>> /\ queuedBytes' = bytes(n) /\ UNCHANGED <<slot, responses>>
                /\ Free({c}, after(n))
  BY DEF Admit
<1>2. /\ c \in Calls /\ handler[c] = "none" /\ c \notin Queued /\ c \notin ToSet(waiters)
      /\ c \notin Running(slot) /\ c \notin consumed
  BY Whereabouts DEF IInv, Callers, QueueSide, PermitSide, PermitsAccounted
<1>3. /\ responses \in Seq(Paid) /\ IsInjective(responses)
      /\ slot \in [Slots -> [phase : Phases, job : Calls \cup {None}]]
  BY DEF IInv, QueueSide
<1>4. /\ kept(n) \in Seq(Plain) /\ IsInjective(kept(n)) /\ (n = 0 => kept(n) = <<>>)
      /\ ToSet(kept(n)) \cup ToSet(gone(n)) = ToSet(requests) /\ ToSet(kept(n)) \cap ToSet(gone(n)) = {}
      /\ bytes(n) = SumOf(Size, ToSet(responses) \cup ToSet(kept(n))) /\ bytes(n) \in Nat
  BY <1>1, Evicted
<1>5. ToSet(gone(n)) \subseteq Plain /\ ToSet(gone(n)) \subseteq Queued
  BY <1>4, Whereabouts DEF Queued
<1> HIDE DEF gone, kept, bytes
<1>6. /\ after(n) \in [Calls -> Handlers]
      /\ after(n)[c] = IF fits(n) THEN "job" ELSE "answered"
      /\ \A d \in Calls \ {c} : after(n)[d] = IF d \in ToSet(gone(n)) THEN "answered" ELSE handler[d]
  BY <1>2 DEF IInv, PermitSide, Handlers
<1> HIDE DEF after
<1>7. \A d \in Running(slot) : /\ d \in Calls /\ d # c /\ d \notin Queued
                               /\ call'[d] \in {"executing", "done", "gone"}
  BY <1>2 DEF IInv, QueueSide, Running
<1>8. \A d \in ToSet(waiters) : after(n)[d] = "waiting" /\ d \notin ToSet(gone(n)) /\ d # c
  BY <1>2, <1>5, <1>6, Whereabouts
<1>9. \A d \in consumed : d \in Calls /\ d # c /\ after(n)[d] = "job"
  BY <1>2, <1>5, <1>6, Whereabouts DEF IInv, PermitSide, PermitsAccounted
<1>10. \A d \in Paid \ {c} : after(n)[d] = "job" /\ call'[d] = "executing" => d \in consumed
  BY <1>5, <1>6, Whereabouts DEF IInv, PermitSide, PermitsAccounted
<1>11. \A d \in ToSet(responses) \cup ToSet(kept(n)) :
         /\ d \in Calls /\ d # c /\ after(n)[d] = "job" /\ call'[d] \in {"executing", "gone"}
         /\ d \in Queued
  <2>1. \A d \in ToSet(responses) \cup ToSet(kept(n)) : d \in Queued /\ d \in Calls /\ d # c
    BY <1>2, <1>4, Whereabouts DEF Queued
  <2>2. \A d \in ToSet(responses) \cup ToSet(kept(n)) : d \notin ToSet(gone(n))
    BY <1>4, <1>5, Whereabouts
  <2>3. QED
    BY <1>6, <2>1, <2>2, Whereabouts
<1>12. CASE fits(n)
  <2> DEFINE rs == Append(responses, c)
             rq == kept(n)
             b  == bytes(n) + Size[c]
  <2>1. /\ Dispatch(slot, rs, rq, b) /\ consumed' = consumed \cup {c} /\ handler' = after(n)
        /\ UNCHANGED <<permits, waiters>>
    BY <1>1, <1>12
  <2>2. PermitSide'
    <3>1. \A d \in consumed' : handler'[d] = "job"
      BY <1>6, <1>9, <1>12, <2>1
    <3>2. \A d \in Paid : handler'[d] = "job" /\ call'[d] = "executing" => d \in consumed'
      BY <1>10, <2>1
    <3>3. QED
      BY <1>6, <1>8, <2>1, <3>1, <3>2 DEF IInv, PermitSide, PermitsAccounted
  <2>3. /\ rs \in Seq(Paid) /\ IsInjective(rs) /\ ToSet(rs) = ToSet(responses) \cup {c}
    BY <1>2, <1>3, AppendSet DEF Queued
  <2> HIDE DEF rs
  <2>4. b = Bytes(rs \o rq)
    <3> DEFINE rest == ToSet(responses) \cup ToSet(rq)
    <3>1. /\ Bytes(rs \o rq) = SumOf(Size, ToSet(rs) \cup ToSet(rq)) /\ IsFiniteSet(ToSet(rs) \cup ToSet(rq))
          /\ \A d \in ToSet(rs) \cup ToSet(rq) : Size[d] \in Nat
      BY <1>4, <2>3, BytesOfQueues
    <3>2. ToSet(rs) \cup ToSet(rq) = rest \cup {c} /\ c \notin rest
      BY <1>11, <2>3
    <3>3. IsFiniteSet(rest)
      BY <1>3, <1>4, BytesOfQueues
    <3> HIDE DEF rest
    <3>4. SumOf(Size, rest \cup {c}) = Size[c] + SumOf(Size, rest)
      BY <3>1, <3>2, <3>3, SumAdd
    <3>5. Size[c] \in Nat
      BY <3>1, <3>2
    <3>6. bytes(n) = SumOf(Size, rest) /\ bytes(n) \in Nat
      BY <1>4 DEF rest
    <3>7. Bytes(rs \o rq) = Size[c] + bytes(n)
      BY <3>1, <3>2, <3>4, <3>6
    <3>8. QED
      BY <3>5, <3>6, <3>7
  <2>5. \/ \A s, r \in Idle(slot) : s = r
        \/ \A x, y \in ToSet(rs) \cup ToSet(rq) : x = y
    BY <1>11, <2>3, Whereabouts DEF IInv, QueueSide
  <2>6. \A d \in ToSet(rs) \cup ToSet(rq) : handler'[d] = "job" /\ call'[d] \in {"executing", "gone"}
    BY <1>6, <1>11, <1>12, <2>1, <2>3
  <2>7. \A d \in Running(slot) : /\ d \notin ToSet(rs) \cup ToSet(rq)
                                 /\ call'[d] \in {"executing", "done", "gone"}
    BY <1>7, <1>11, <2>3
  <2>8. QueueSide'
    <3> HIDE DEF rq, b
    <3>1. rq \in Seq(Plain) /\ IsInjective(rq)
      BY <1>4 DEF rq
    <3>2. QED
      BY <1>3, <2>1, <2>3, <2>4, <2>5, <2>6, <2>7, <3>1, DispatchStep
  <2>9. \A d \in Calls \ {c} : \/ handler'[d] = handler[d]
                               \/ handler[d] # "none" /\ handler'[d] # "job"
    BY <1>5, <1>6, <2>1, Whereabouts
  <2>10. QED
    BY <2>1, <2>2, <2>8, <2>9
<1>13. CASE ~fits(n)
  <2> DEFINE h == after(n)
  <2>1. /\ requests' = <<>> /\ queuedBytes' = bytes(n) /\ UNCHANGED <<slot, responses>>
        /\ Free({c}, h) /\ n = 0 /\ kept(n) = <<>>
    BY <1>1, <1>4, <1>13
  <2>2. h \in [Calls -> Handlers] /\ \A d \in ToSet(waiters) : h[d] = "waiting"
    BY <1>6, <1>8
  <2>3. \A d \in consumed \ {c} : h[d] = "job"
    BY <1>9
  <2>4. \A d \in Paid : h[d] = "job" /\ call'[d] = "executing" => d \in consumed \ {c}
    BY <1>2, <1>6, <1>10, <1>13
  <2>5. /\ PermitSide' /\ permits' \subseteq permits \cup ToSet(waiters)
        /\ waiters = <<>> => waiters' = <<>>
        /\ \A d \in Calls : \/ handler'[d] = h[d]
                            \/ d \in ToSet(waiters) /\ handler'[d] = "granted"
    <3>1. {c} \in SUBSET Paid
      OBVIOUS
    <3> HIDE DEF h
    <3>2. QED
      BY <2>1, <2>2, <2>3, <2>4, <3>1, FreeStep
  <2>6. ToSet(<<>>) = {} /\ <<>> \in Seq(Plain) /\ IsInjective(<<>>)
    BY EmptySeqSet
  <2>7. Queued' = ToSet(responses) /\ ToSet(kept(n)) = {}
    BY <2>1, <2>6 DEF Queued
  <2>8. queuedBytes' = Bytes(responses' \o requests')
    <3>1. Bytes(responses \o <<>>) = SumOf(Size, ToSet(responses) \cup {})
      BY <1>3, <2>6, BytesOfQueues
    <3>2. QED
      BY <1>4, <2>1, <2>7, <3>1
  <2>9. responses' \o requests' # <<>> => Idle(slot') = {}
    <3>1. responses' \o requests' = <<>> <=> ToSet(responses) \cup {} = {}
      BY <1>3, <2>1, <2>6, BytesOfQueues
    <3>2. ToSet(responses) # {} => Idle(slot) = {}
      BY Whereabouts DEF IInv, QueueSide, Queued
    <3>3. QED
      BY <2>1, <3>1, <3>2
  <2>10. \A d \in Queued' : handler'[d] = "job"
    BY <1>11, <2>5, <2>7, Whereabouts
  <2>11. \A d \in Running(slot') : d \notin Queued' /\ call'[d] \in {"executing", "done", "gone"}
    BY <1>7, <2>1, <2>7 DEF Queued
  <2>12. QueueSide'
    BY <1>3, <2>1, <2>6, <2>8, <2>9, <2>10, <2>11 DEF QueueSide
  <2>13. \A d \in Calls \ {c} : \/ handler'[d] = handler[d]
                                \/ handler[d] # "none" /\ handler'[d] # "job"
    BY <1>5, <1>6, <2>5, Whereabouts
  <2>14. QED
    BY <2>5, <2>12, <2>13
<1>14. QED
  BY <1>12, <1>13

LEMMA SubmitResponseKeeps ==
  ASSUME IInv, NEW c \in Calls, SubmitResponse(c)
  PROVE  IInv'
<1>1. /\ c \in Paid /\ call[c] = "holding" /\ open /\ pool = "ready"
      /\ UNCHANGED <<pool, deletes, open>>
      /\ handler[c] = "none" /\ c \notin Queued /\ c \notin ToSet(waiters)
      /\ c \notin Running(slot) /\ c \notin deletes
  BY Whereabouts DEF SubmitResponse, IInv, Phase, Callers, QueueSide
<1>2. /\ call' \in [Calls -> CallStates] /\ call'[c] = "executing"
      /\ \A d \in Calls \ {c} : call'[d] = call[d]
  BY DEF SubmitResponse, IInv, Callers, CallStates
<1>3. /\ PermitSide' /\ QueueSide' /\ permits' \subseteq permits \cup ToSet(waiters)
      /\ waiters = <<>> => waiters' = <<>>
      /\ \A d \in Calls \ {c} : \/ handler'[d] = handler[d]
                                \/ handler[d] # "none" /\ handler'[d] # "job"
  <2>1. CASE c \in permits
    BY <1>1, <1>2, <2>1, AdmitKeeps DEF SubmitResponse
  <2>2. CASE c \notin permits
    <3>1. /\ handler' = [handler EXCEPT ![c] = "answered"]
          /\ UNCHANGED <<permits, consumed, waiters>> /\ UNCHANGED queueVars
      BY <2>2 DEF SubmitResponse
    <3>2. /\ handler' \in [Calls -> Handlers] /\ handler'[c] = "answered"
          /\ \A d \in Calls \ {c} : handler'[d] = handler[d]
      BY <3>1 DEF IInv, PermitSide, Handlers
    <3>3. PermitSide' /\ QueueSide'
      BY <1>1, <1>2, <3>1, <3>2, OneCallMoves
    <3>4. QED
      BY <3>1, <3>2, <3>3
  <2>3. QED
    BY <2>1, <2>2
<1>4. Phase'
  BY <1>1, <1>3 DEF IInv, Phase
<1>5. Callers'
  BY <1>1, <1>2, <1>3, Whereabouts DEF IInv, Callers
<1>6. QED
  BY <1>3, <1>4, <1>5 DEF IInv

-----------------------------------------------------------------------------
(* The invariant, and what it says of the pool                             *)

LEMMA InitInvariant == Init => IInv
<1> SUFFICES ASSUME Init PROVE IInv
  OBVIOUS
<1>1. /\ <<>> \in Seq(Paid) /\ <<>> \in Seq(Plain) /\ IsInjective(<<>>) /\ ToSet(<<>>) = {}
  BY EmptySeqSet
<1>2. Bytes(<<>> \o <<>>) = 0 /\ <<>> \o <<>> = <<>>
  BY <1>1, BytesOfQueues, SumEmpty
<1>3. Phase /\ Callers
  BY DEF Init, Phase, Callers, CallStates, Calls
<1>4. PermitSide
  <2>1. IsFiniteSet({}) /\ Cardinality({}) <= PermitCap
    BY FS_EmptySet, LimitsAssumption
  <2>2. QED
    BY <1>1, <2>1, CallsAssumption DEF Init, PermitSide, PermitsAccounted, Handlers, Calls
<1>5. QueueSide
  <2>1. slot \in [Slots -> [phase : Phases, job : Calls \cup {None}]] /\ Running(slot) = {}
    BY DEF Init, Phases, Running
  <2>2. QED
    BY <1>1, <1>2, <2>1 DEF Init, QueueSide, Queued
<1>6. QED
  BY <1>3, <1>4, <1>5 DEF IInv

LEMMA StepInvariant == IInv /\ [Next]_vars => IInv'
<1> SUFFICES ASSUME IInv, [Next]_vars PROVE IInv'
  OBVIOUS
<1>1. ASSUME NEW s \in Slots, WorkerStep(s) PROVE IInv'
  BY <1>1, WorkerKeeps
<1>2. ASSUME NEW c \in Calls, CallerStep(c) PROVE IInv'
  BY <1>2, ReserveKeeps, GrantedKeeps, SubmitResponseKeeps, SubmitRequestKeeps, ReceiveKeeps,
     LeaveKeeps DEF CallerStep
<1>3. ASSUME NEW c \in Calls, ServerStep(c) PROVE IInv'
  BY <1>3, WaiterTimesOutKeeps, QueueTimesOutKeeps, DisconnectKeeps, FlushedKeeps,
     DeleteArrivesKeeps, DeleteLostKeeps, ExpireKeeps DEF ServerStep
<1>4. CASE StopListening \/ Drain \/ Close
  BY <1>4, StopListeningKeeps, DrainKeeps, CloseKeeps
<1>5. CASE UNCHANGED vars
  BY <1>5 DEF vars, poolVars, queueVars, IInv, Phase, Callers, PermitSide, QueueSide, PermitsAccounted,
     Queued
<1>6. QED
  BY <1>1, <1>2, <1>3, <1>4, <1>5 DEF Next

\* The invariant holds in every behaviour: each action of a caller, a worker
\* or a timer keeps the queues, the permits and the handlers together.
THEOREM PoolInvariant == Spec => []IInv
<1>1. IInv /\ [Next]_vars => IInv'
  BY StepInvariant
<1>2. QED
  BY <1>1, InitInvariant, PTL DEF Spec

\* The data of the pool keep their types, queuedBytes is what is queued, and
\* no job waits beside an idle worker, for any number of calls and workers.
THEOREM PoolTyped == Spec => []TypeOK
<1>1. IInv => TypeOK
  BY DEF IInv, Phase, Callers, PermitSide, QueueSide, TypeOK
<1>2. QED
  BY <1>1, PoolInvariant, PTL

\* Permits never exceed their capacity, a permit without a TTL has a job that
\* is not settled, and nobody waits while one is free.
THEOREM PermitsAreAccounted == Spec => []PermitsAccounted
<1>1. IInv => PermitsAccounted
  BY DEF IInv, PermitSide
<1>2. QED
  BY <1>1, PoolInvariant, PTL

\* Without the requests, the responses leave room for one that holds a permit.
LEMMA RoomForPaid ==
  ASSUME IInv, NEW c \in permits, c \notin ToSet(responses),
         Cardinality(Orphans) * Envelope <= RequestRoom
  PROVE  SumOf(Size, ToSet(responses)) + Size[c] <= ByteCapacity
<1> DEFINE held == ToSet(responses) \cap permits
           R == ToSet(responses)
<1>1. /\ c \in Paid /\ R \subseteq Paid /\ Paid \subseteq Calls /\ Orphans = R \ permits
      /\ IsFiniteSet(permits) /\ Cardinality(permits) <= PermitCap
  BY Whereabouts DEF IInv, PermitSide, PermitsAccounted, Orphans
<1>2. IsFiniteSet(R)
  BY SetOfSeqFinite DEF IInv, QueueSide
<1>3. \A d \in Paid : Size[d] \in Nat /\ Size[d] <= Envelope
  BY <1>1, CallsAssumption
<1>4. Envelope \in Nat /\ RequestRoom \in Nat /\ PermitCap \in Nat
  BY LimitsAssumption
<1>5. /\ IsFiniteSet(held) /\ Cardinality(held) \in Nat
      /\ Cardinality(permits \ {c}) = Cardinality(permits) - 1 /\ Cardinality(permits) \in Nat
      /\ Cardinality(held) <= PermitCap - 1
  <2>1. IsFiniteSet(permits \ {c}) /\ Cardinality(permits \ {c}) = Cardinality(permits) - 1
    BY <1>1, FS_RemoveElement
  <2>2. held \in SUBSET (permits \ {c})
    OBVIOUS
  <2>3. IsFiniteSet(held) /\ Cardinality(held) <= Cardinality(permits \ {c})
    BY <2>1, <2>2, FS_Subset
  <2>4. Cardinality(held) \in Nat /\ Cardinality(permits) \in Nat
    BY <1>1, <2>3, FS_CardinalityType
  <2>5. QED
    BY <1>1, <1>4, <2>1, <2>3, <2>4
<1>6. /\ IsFiniteSet(Orphans) /\ Cardinality(Orphans) \in Nat
  BY <1>1, <1>2, FS_Subset, FS_CardinalityType
<1>7. /\ Orphans \cup held = R /\ Orphans \cap held = {}
  BY <1>1
<1> HIDE DEF held, R
<1>8. SumOf(Size, R) = SumOf(Size, Orphans) + SumOf(Size, held)
  BY <1>1, <1>3, <1>5, <1>6, <1>7, SumUnion
<1>9. \A d \in R : Size[d] \in Nat /\ Size[d] <= Envelope
  BY <1>1, <1>3
<1>10. SumOf(Size, Orphans) <= Cardinality(Orphans) * Envelope /\ SumOf(Size, Orphans) \in Nat
  BY <1>4, <1>6, <1>7, <1>9, SumBound, SumNat
<1>11. SumOf(Size, held) <= Cardinality(held) * Envelope /\ SumOf(Size, held) \in Nat
  BY <1>4, <1>5, <1>7, <1>9, SumBound, SumNat
<1>12. Cardinality(held) * Envelope <= (PermitCap - 1) * Envelope
  <2>1. \A m, n, k \in Nat : m <= n - 1 => m * k <= (n - 1) * k
    OBVIOUS
  <2>2. QED
    BY <1>4, <1>5, <2>1
<1>13. (PermitCap - 1) * Envelope = PermitCap * Envelope - Envelope
  BY <1>4
<1>14. /\ Size[c] \in Nat /\ Size[c] <= Envelope
       /\ Cardinality(Orphans) * Envelope \in Nat /\ PermitCap * Envelope \in Nat
       /\ Cardinality(held) * Envelope \in Nat
  BY <1>1, <1>3, <1>4, <1>5, <1>6
<1>15. QED
  BY <1>4, <1>8, <1>10, <1>11, <1>12, <1>13, <1>14 DEF ByteCapacity, R

\* A paid response that holds its permit is admitted, whatever is queued.
THEOREM PaidIsAdmitted == Spec => PaidAdmitted
<1> DEFINE Admitted(c) ==
      /\ call[c] = "holding" /\ call'[c] = "executing" /\ c \in permits
      /\ Cardinality(Orphans) * Envelope <= RequestRoom
      => handler'[c] = "job"
<1>1. ASSUME IInv, [Next]_vars, NEW c \in Paid PROVE Admitted(c)
  <2> SUFFICES ASSUME call[c] = "holding", call'[c] = "executing", c \in permits,
                      Cardinality(Orphans) * Envelope <= RequestRoom
               PROVE  handler'[c] = "job"
    OBVIOUS
  <2>1. c \in Calls /\ c \notin Plain /\ call \in [Calls -> CallStates]
    BY <1>1, Whereabouts DEF IInv, Callers
  <2>2. SubmitResponse(c)
    <3>1. call'[c] # call[c]
      OBVIOUS
    <3>2. ~ UNCHANGED call
      BY <3>1
    <3>3. PICK d \in Calls : CallerStep(d)
      BY <1>1, <3>2 DEF Next, vars, WorkerStep, SpawnReady, SpawnFails, WorkerFails, Respawn, WorkerAnswers,
         Watchdog, ServerStep, WaiterTimesOut, QueueTimesOut, Disconnect, Flushed, DeleteArrives,
         DeleteLost, Expire, StopListening, Drain, Close
    <3>4. SubmitResponse(d) \/ SubmitRequest(d)
      BY <2>1, <3>3 DEF CallerStep, Reserve, Granted, Receive, Leave
    <3>5. d = c
      BY <2>1, <3>1, <3>4 DEF SubmitResponse, SubmitRequest
    <3>6. QED
      BY <2>1, <3>4, <3>5 DEF SubmitRequest
  <2>3. Admit(c)
    BY <2>2 DEF SubmitResponse
  <2> DEFINE gone(n)  == SubSeq(requests, n + 1, Len(requests))
             bytes(n) == queuedBytes - Bytes(gone(n))
             fits(n)  == bytes(n) + Size[c] <= ByteCapacity
             after(n) == [d \in Calls |-> IF d = c /\ fits(n) THEN "job"
                                          ELSE IF d = c \/ d \in ToSet(gone(n)) THEN "answered"
                                          ELSE handler[d]]
  <2>4. PICK n \in 0 .. Len(requests) : (fits(n) \/ n = 0) /\ (fits(n) => handler' = after(n))
    BY <2>3 DEF Admit
  <2>5. fits(0)
    <3>1. c \notin ToSet(responses)
      BY <1>1, <2>1, Whereabouts DEF IInv, Callers, Queued
    <3>2. 0 \in 0 .. Len(requests)
      BY <1>1, LenProperties DEF IInv, QueueSide
    <3>3. bytes(0) = SumOf(Size, ToSet(responses) \cup ToSet(<<>>))
      BY <1>1, <3>2, Evicted
    <3>4. ToSet(responses) \cup ToSet(<<>>) = ToSet(responses)
      BY EmptySeqSet
    <3> HIDE DEF bytes
    <3>5. QED
      BY <1>1, <3>1, <3>3, <3>4, RoomForPaid
  <2>6. fits(n) /\ handler' = after(n)
    BY <2>4, <2>5
  <2> HIDE DEF fits
  <2>7. QED
    BY <2>1, <2>6
<1>2. ASSUME IInv, [Next]_vars PROVE \A c \in Paid : Admitted(c)
  BY <1>1, <1>2
<1>3. IInv /\ [Next]_vars => \A c \in Paid : Admitted(c)
  BY <1>2
<1>4. QED
  BY <1>3, PoolInvariant, PTL DEF Spec, PaidAdmitted
=============================================================================
