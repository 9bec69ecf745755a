---------------------- MODULE PaymentFulfillmentProofs ----------------------
(***************************************************************************)
(* Types, at most one grant and one reward, and the agreement of an order  *)
(* with its work item, for any number of orders, trades and workers and    *)
(* any number of faults.                                                   *)
(***************************************************************************)
EXTENDS PaymentFulfillment, TLAPS

\* Work is only done for items, items only exist for payments, and credits
\* for items.
Sourced ==
  /\ \A o \in Orders : /\ item[o] # "none" => <<o, itemTrade[o]>> \in paid
                       /\ batch[o] = "own" => item[o] # "none"
  /\ \A w \in Workers : wk[w].order # None => item[wk[w].order] # "none"

\* Once the grant has returned, the credits of the order are there; a worker
\* that saw no batch can only find one of its order's own when it inserts.
Progressed ==
  \A w \in Workers :
    /\ wk[w].pc \in {"renew", "reward", "complete"} => batch[wk[w].order] = "own"
    /\ wk[w].pc = "insert" => batch[wk[w].order] # "foreign"

Granted == \A o \in Orders : granted[o] = IF batch[o] = "own" THEN 1 ELSE 0

Rewarded ==
  \A u \in Users : /\ rewards[u] = IF reward[u] = "rewarded" THEN 1 ELSE 0
                   /\ reward[u] = "rewarded" => first[u] # None /\ batch[first[u]] = "own"

IInv == TypeOK /\ Sourced /\ Progressed /\ Granted /\ Rewarded /\ OutcomeAgrees

-----------------------------------------------------------------------------

LEMMA InitInv == Init => IInv
<1> SUFFICES ASSUME Init PROVE IInv
  OBVIOUS
<1> USE ConstantsAssumption
<1>1. batch \in [Orders -> {"none", "foreign"}]
  BY DEF Init
<1>2. \A w \in Workers : wk[w] = [pc |-> "idle", order |-> None]
  BY DEF Init, Idle
<1>3. TypeOK
  <2>1. paid \subseteq Orders \X Trades /\ faults \in 0 .. MaxFaults
    BY DEF Init
  <2>2. wk \in [Workers -> [pc : PCs, order : Orders \cup {None}]]
    BY DEF Init, Idle, PCs
  <2> QED
    BY <1>1, <1>2, <2>1, <2>2 DEF Init, TypeOK, OrderStates, ItemStates, At
<1>4. Sourced
  BY <1>1, <1>2 DEF Init, Sourced
<1>5. Progressed
  BY <1>2 DEF Progressed
<1>6. Granted /\ Rewarded
  BY <1>1 DEF Init, Granted, Rewarded
<1>7. OutcomeAgrees
  BY DEF Init, OutcomeAgrees
<1> QED
  BY <1>3, <1>4, <1>5, <1>6, <1>7 DEF IInv

\* What is true of a worker that is not idle.
LEMMA Busy ==
  ASSUME TypeOK, NEW w \in Workers, ~At(w, "idle")
  PROVE  wk[w].order \in Orders /\ wk[w] \in [pc : PCs, order : Orders \cup {None}]
BY ConstantsAssumption DEF TypeOK

\* However a worker moves on, it stays with its order until it quits.
LEMMA Moves ==
  ASSUME TypeOK, NEW w \in Workers, ~At(w, "idle"),
         (\E pc \in PCs \ {"idle"} : Goto(w, pc)) \/ Quit(w) \/ Fails(w)
  PROVE  /\ wk' \in [Workers -> [pc : PCs, order : Orders \cup {None}]]
         /\ \A v \in Workers : wk'[v].pc = "idle" <=> wk'[v].order = None
         /\ faults' \in 0 .. MaxFaults
<1> USE ConstantsAssumption
<1>1. /\ wk \in [Workers -> [pc : PCs, order : Orders \cup {None}]]
      /\ \A v \in Workers : wk[v].pc = "idle" <=> wk[v].order = None
      /\ faults \in 0 .. MaxFaults
  BY DEF TypeOK, At
<1>2. ASSUME NEW pc \in PCs \ {"idle"}, wk' = [wk EXCEPT ![w].pc = pc]
      PROVE  /\ wk' \in [Workers -> [pc : PCs, order : Orders \cup {None}]]
             /\ \A v \in Workers : wk'[v].pc = "idle" <=> wk'[v].order = None
  <2>1. wk'[w] = [wk[w] EXCEPT !.pc = pc] /\ \A v \in Workers \ {w} : wk'[v] = wk[v]
    BY <1>1, <1>2
  <2>2. wk'[w].pc = pc /\ wk'[w].order = wk[w].order /\ wk[w].order # None
    BY <1>1, <2>1 DEF At
  <2> QED
    BY <1>1, <1>2, <2>1, <2>2
<1>3. CASE \E pc \in PCs \ {"idle"} : Goto(w, pc)
  BY <1>1, <1>2, <1>3 DEF Goto
<1>4. CASE Quit(w)
  <2>1. wk' = [wk EXCEPT ![w] = Idle] /\ Idle.pc = "idle" /\ Idle.order = None
    BY <1>4 DEF Quit, Idle
  <2>2. Idle \in [pc : PCs, order : Orders \cup {None}]
    BY DEF Idle, PCs
  <2> QED
    BY <1>1, <1>4, <2>1, <2>2 DEF Quit
<1>5. CASE Fails(w)
  <2>1. faults' \in 0 .. MaxFaults
    BY <1>1, <1>5 DEF Fails
  <2> QED
    BY <1>1, <1>2, <1>5, <2>1 DEF Fails, PCs
<1> QED
  BY <1>3, <1>4, <1>5

\* An item that leaves processing gives its lease back.
LEMMA Released ==
  ASSUME TypeOK, NEW o \in Orders, NEW status \in ItemStates \ {"processing"},
         item' = [item EXCEPT ![o] = status],
         token' = [token EXCEPT ![o] = None], leased' = [leased EXCEPT ![o] = FALSE]
  PROVE  /\ item' \in [Orders -> ItemStates] /\ token' \in [Orders -> Workers \cup {None}]
         /\ leased' \in [Orders -> BOOLEAN]
         /\ \A q \in Orders : /\ leased'[q] => token'[q] # None
                              /\ token'[q] # None <=> item'[q] = "processing"
<1>1. /\ item \in [Orders -> ItemStates] /\ token \in [Orders -> Workers \cup {None}]
      /\ leased \in [Orders -> BOOLEAN]
      /\ \A q \in Orders : /\ leased[q] => token[q] # None
                           /\ token[q] # None <=> item[q] = "processing"
  BY DEF TypeOK
<1>2. /\ item'[o] = status /\ token'[o] = None /\ leased'[o] = FALSE
      /\ \A q \in Orders \ {o} : item'[q] = item[q] /\ token'[q] = token[q] /\ leased'[q] = leased[q]
  BY <1>1
<1>3. \A q \in Orders : leased'[q] => token'[q] # None
  BY <1>1, <1>2
<1>4. \A q \in Orders : token'[q] # None <=> item'[q] = "processing"
  BY <1>1, <1>2
<1> QED
  BY <1>1, <1>3, <1>4

\* The columns and the local state keep their types.
LEMMA TypeStep == TypeOK /\ [Next]_vars => TypeOK'
<1> SUFFICES ASSUME TypeOK, [Next]_vars PROVE TypeOK'
  OBVIOUS
<1> USE ConstantsAssumption
<1> USE DEF TypeOK, OrderStates, ItemStates, At, PCs, orderVars, itemVars, creditVars, referralVars
<1>1. ASSUME NEW o \in Orders, NEW t \in Trades, Pay(o, t) \/ Confirm(o, t) PROVE TypeOK'
  BY <1>1 DEF Pay, Confirm
<1>2. ASSUME NEW o \in Orders, FinishCheckout(o) \/ RejectAmount(o) PROVE TypeOK'
  BY <1>2 DEF FinishCheckout, RejectAmount
<1>3. ASSUME NEW o \in Orders, ExpireLease(o) PROVE TypeOK'
  BY <1>3 DEF ExpireLease
<1>4. ASSUME NEW w \in Workers, NEW o \in Orders, Claim(w, o) PROVE TypeOK'
  BY <1>4 DEF Claim
<1>5. ASSUME NEW w \in Workers, Process(w) \/ Crash(w) PROVE TypeOK'
  <2> DEFINE o == wk[w].order
  <2>0. o \in Orders /\ wk[w] \in [pc : PCs, order : Orders \cup {None}]
    BY <1>5, Busy DEF Process, Renew, Look, Insert, Reward, Complete, Retry, FailItem, FailOrder, Crash
  <2>m. ASSUME (\E pc \in PCs \ {"idle"} : Goto(w, pc)) \/ Quit(w) \/ Fails(w)
        PROVE  /\ wk' \in [Workers -> [pc : PCs, order : Orders \cup {None}]]
               /\ \A v \in Workers : wk'[v].pc = "idle" <=> wk'[v].order = None
               /\ faults' \in 0 .. MaxFaults
    BY <1>5, <2>m, Moves DEF Process, Renew, Look, Insert, Reward, Complete, Retry, FailItem,
       FailOrder, Crash
  <2>1. CASE Renew(w)
    BY <2>1, <2>m DEF Renew
  <2>2. CASE Look(w)
    BY <2>2, <2>m DEF Look
  <2>3. CASE Insert(w)
    <3>1. batch' \in [Orders -> {"none", "own", "foreign"}] /\ granted' \in [Orders -> Nat]
      BY <2>0, <2>3 DEF Insert
    <3> QED
      BY <2>3, <3>1, <2>m DEF Insert
  <2>4. CASE Reward(w)
    <3>1. /\ first' \in [Users -> Orders \cup {None}] /\ rewards' \in [Users -> Nat]
          /\ reward' \in [Users -> {"registered", "rewarded", "skipped"}]
      BY <2>0, <2>4 DEF Reward
    <3> QED
      BY <2>4, <3>1, <2>m DEF Reward
  <2>5. CASE Complete(w)
    <3>1. \/ UNCHANGED <<order, item, token, leased>>
          \/ /\ item' = [item EXCEPT ![o] = "succeeded"] /\ order' = [order EXCEPT ![o] = "fulfilled"]
             /\ token' = [token EXCEPT ![o] = None] /\ leased' = [leased EXCEPT ![o] = FALSE]
      BY <2>5 DEF Complete, Completed
    <3>2. /\ order' \in [Orders -> OrderStates] /\ item' \in [Orders -> ItemStates]
          /\ token' \in [Orders -> Workers \cup {None}] /\ leased' \in [Orders -> BOOLEAN]
          /\ \A q \in Orders : /\ leased'[q] => token'[q] # None
                               /\ token'[q] # None <=> item'[q] = "processing"
      <4>1. CASE UNCHANGED <<order, item, token, leased>>
        BY <4>1
      <4>2. CASE ~UNCHANGED <<order, item, token, leased>>
        <5>1. "succeeded" \in ItemStates \ {"processing"}
          OBVIOUS
        <5> QED
          BY <2>0, <3>1, <4>2, <5>1, Released
      <4> QED
        BY <3>1, <4>1, <4>2
    <3> QED
      BY <2>5, <3>2, <2>m DEF Complete
  <2>6. CASE Retry(w) \/ FailItem(w)
    <3>1. \/ UNCHANGED <<item, token, leased>>
          \/ /\ \E status \in {"retry", "failed"} : item' = [item EXCEPT ![o] = status]
             /\ token' = [token EXCEPT ![o] = None] /\ leased' = [leased EXCEPT ![o] = FALSE]
      BY <2>6 DEF Retry, FailItem
    <3>2. /\ item' \in [Orders -> ItemStates]
          /\ token' \in [Orders -> Workers \cup {None}] /\ leased' \in [Orders -> BOOLEAN]
          /\ \A q \in Orders : /\ leased'[q] => token'[q] # None
                               /\ token'[q] # None <=> item'[q] = "processing"
      <4>1. CASE UNCHANGED <<item, token, leased>>
        BY <4>1
      <4>2. ASSUME NEW status \in {"retry", "failed"}, item' = [item EXCEPT ![o] = status],
                   token' = [token EXCEPT ![o] = None], leased' = [leased EXCEPT ![o] = FALSE]
            PROVE  /\ item' \in [Orders -> ItemStates]
                   /\ token' \in [Orders -> Workers \cup {None}] /\ leased' \in [Orders -> BOOLEAN]
                   /\ \A q \in Orders : /\ leased'[q] => token'[q] # None
                                        /\ token'[q] # None <=> item'[q] = "processing"
        <5>1. status \in ItemStates \ {"processing"}
          OBVIOUS
        <5> QED
          BY <2>0, <4>2, <5>1, Released
      <4> QED
        BY <3>1, <4>1, <4>2
    <3> QED
      BY <2>6, <3>2, <2>m DEF Retry, FailItem
  <2>7. CASE FailOrder(w)
    BY <2>0, <2>7, <2>m DEF FailOrder
  <2>8. CASE Crash(w)
    BY <2>0, <2>8 DEF Crash, Idle
  <2> QED
    BY <1>5, <2>1, <2>2, <2>3, <2>4, <2>5, <2>6, <2>7, <2>8 DEF Process
<1>6. CASE UNCHANGED vars
  BY <1>6 DEF vars
<1> QED
  BY <1>1, <1>2, <1>3, <1>4, <1>5, <1>6 DEF Next

\* No handler works without an item, and none grants without a payment.
LEMMA SourcedStep == TypeOK /\ Sourced /\ [Next]_vars => Sourced'
<1> SUFFICES ASSUME TypeOK, Sourced, [Next]_vars PROVE Sourced'
  OBVIOUS
<1> USE ConstantsAssumption
<1> USE DEF Sourced, orderVars, itemVars, creditVars, referralVars
<1>0. /\ item \in [Orders -> ItemStates] /\ itemTrade \in [Orders -> Trades \cup {None}]
      /\ batch \in [Orders -> {"none", "own", "foreign"}]
      /\ wk \in [Workers -> [pc : PCs, order : Orders \cup {None}]]
  BY DEF TypeOK
<1>1. ASSUME NEW o \in Orders, NEW t \in Trades, Pay(o, t) PROVE Sourced'
  BY <1>1, <1>0 DEF Pay
<1>2. ASSUME NEW o \in Orders, NEW t \in Trades, Confirm(o, t) PROVE Sourced'
  BY <1>2, <1>0 DEF Confirm
<1>3. ASSUME NEW o \in Orders, FinishCheckout(o) \/ RejectAmount(o) \/ ExpireLease(o) PROVE Sourced'
  BY <1>3, <1>0 DEF FinishCheckout, RejectAmount, ExpireLease
<1>4. ASSUME NEW w \in Workers, NEW o \in Orders, Claim(w, o) PROVE Sourced'
  BY <1>4, <1>0 DEF Claim, TypeOK
<1>5. ASSUME NEW w \in Workers, Process(w) \/ Crash(w) PROVE Sourced'
  <2> DEFINE o == wk[w].order
  <2>1. o \in Orders
    BY <1>5, Busy DEF Process, Renew, Look, Insert, Reward, Complete, Retry, FailItem, FailOrder,
       Crash, At
  <2>2. \A v \in Workers : wk'[v].order \in {wk[v].order, None}
    BY <1>5, <1>0 DEF Process, Renew, Look, Insert, Reward, Complete, Retry, FailItem, FailOrder,
       Crash, Goto, Quit, Fails, Idle
  <2>3. UNCHANGED <<paid, itemTrade>>
    BY <1>5 DEF Process, Renew, Look, Insert, Reward, Complete, Retry, FailItem, FailOrder, Crash
  <2>4. \/ UNCHANGED item
        \/ Holds(w) /\ \E status \in ItemStates \ {"none"} : item' = [item EXCEPT ![o] = status]
    BY <1>5 DEF Process, Renew, Look, Insert, Reward, Complete, Completed, Retry, FailItem,
       FailOrder, Crash, ItemStates
  <2>5. \A q \in Orders : item'[q] # "none" <=> item[q] # "none"
    BY <2>1, <2>4, <1>0 DEF Holds
  <2>6. \A q \in Orders : batch'[q] = "own" => batch[q] = "own" \/ q = o
    BY <1>5, <1>0 DEF Process, Renew, Look, Insert, Reward, Complete, Retry, FailItem, FailOrder, Crash
  <2>7. item[o] # "none"
    BY <1>5, <2>1
  <2>8. \A v \in Workers : wk'[v].order # None => /\ wk[v].order = wk'[v].order
                                                 /\ wk[v].order \in Orders
    BY <2>2, <1>0
  <2> QED
    BY <2>1, <2>3, <2>5, <2>6, <2>7, <2>8
<1>6. CASE UNCHANGED vars
  BY <1>6 DEF vars
<1> QED
  BY <1>1, <1>2, <1>3, <1>4, <1>5, <1>6 DEF Next

\* The step of a worker changes no other worker.
LEMMA OthersStay ==
  ASSUME TypeOK, NEW w \in Workers, Process(w) \/ Crash(w)
  PROVE  \A v \in Workers \ {w} : wk'[v] = wk[v]
BY DEF TypeOK, Process, Renew, Look, Insert, Reward, Complete, Retry, FailItem, FailOrder, Crash,
       Goto, Quit, Fails, Idle

\* Batches are only added, for the order whose grant the worker makes, and
\* with it its credits.
LEMMA CreditStep ==
  ASSUME TypeOK, Progressed, Granted, [Next]_vars
  PROVE  /\ Granted'
         /\ \A o \in Orders : batch[o] # "none" => batch'[o] = batch[o]
         /\ \A o \in Orders : batch'[o] # batch[o] => batch'[o] = "own"
<1>0. /\ batch \in [Orders -> {"none", "own", "foreign"}] /\ granted \in [Orders -> Nat]
  BY DEF TypeOK
<1>1. CASE UNCHANGED creditVars
  BY <1>1 DEF creditVars, Granted
<1>2. ASSUME NEW w \in Workers, Insert(w), ~UNCHANGED creditVars
      PROVE  /\ Granted'
             /\ \A o \in Orders : batch[o] # "none" => batch'[o] = batch[o]
             /\ \A o \in Orders : batch'[o] # batch[o] => batch'[o] = "own"
  <2>1. PICK o \in Orders : /\ batch[o] = "none" /\ batch' = [batch EXCEPT ![o] = "own"]
                            /\ granted' = [granted EXCEPT ![o] = @ + 1]
    BY <1>2, Busy DEF Insert, At
  <2> QED
    BY <1>0, <2>1 DEF Granted
<1>3. UNCHANGED creditVars \/ \E w \in Workers : Insert(w)
  BY DEF Next, vars, Pay, Confirm, FinishCheckout, RejectAmount, ExpireLease, Claim, Process, Renew,
         Look, Insert, Reward, Complete, Retry, FailItem, FailOrder, Crash, creditVars
<1> QED
  BY <1>1, <1>2, <1>3

\* A worker gets past the grant only when the batch of its order is there.
LEMMA ProgressedStep ==
  ASSUME TypeOK, Progressed, Granted, [Next]_vars
  PROVE  Progressed'
<1> USE ConstantsAssumption
<1>0. /\ batch \in [Orders -> {"none", "own", "foreign"}]
      /\ wk \in [Workers -> [pc : PCs, order : Orders \cup {None}]]
  BY DEF TypeOK
<1>b. /\ \A o \in Orders : batch[o] # "none" => batch'[o] = batch[o]
      /\ \A o \in Orders : batch'[o] # batch[o] => batch'[o] = "own"
  BY CreditStep
<1>v. ASSUME NEW v \in Workers, wk'[v] = wk[v]
      PROVE  /\ wk'[v].pc \in {"renew", "reward", "complete"} => batch'[wk'[v].order] = "own"
             /\ wk'[v].pc = "insert" => batch'[wk'[v].order] # "foreign"
  <2>1. wk[v].pc # "idle" => wk[v].order \in Orders
    BY Busy DEF At
  <2> QED
    BY <2>1, <1>b, <1>v DEF Progressed
<1>1. CASE UNCHANGED wk
  BY <1>1, <1>v DEF Progressed
<1>2. ASSUME NEW w \in Workers, NEW o \in Orders, Claim(w, o) PROVE Progressed'
  <2>1. wk'[w].pc = "claimed" /\ \A v \in Workers \ {w} : wk'[v] = wk[v]
    BY <1>2, <1>0 DEF Claim
  <2> QED
    BY <2>1, <1>v DEF Progressed
<1>3. ASSUME NEW w \in Workers, Process(w) \/ Crash(w) PROVE Progressed'
  <2> DEFINE o == wk[w].order
  <2>1. o \in Orders /\ wk[w] \in [pc : PCs, order : Orders \cup {None}]
    BY <1>3, Busy DEF Process, Renew, Look, Insert, Reward, Complete, Retry, FailItem, FailOrder,
       Crash, At
  <2>2. /\ wk'[w].pc \in {"renew", "reward", "complete"} => batch'[wk'[w].order] = "own"
        /\ wk'[w].pc = "insert" => batch'[wk'[w].order] # "foreign"
    <3>1. CASE wk'[w].pc \in {"idle", "retry", "failOrder", "look", "failItem"}
      BY <3>1
    <3>2. CASE Renew(w) /\ wk'[w].pc = "reward"
      <4>1. At(w, "renew") /\ wk'[w].order = o /\ UNCHANGED batch
        BY <3>2, <2>1, <1>0 DEF Renew, Goto, Quit, Idle, At, creditVars
      <4> QED
        BY <4>1, <3>2 DEF Progressed, At
    <3>3. CASE Look(w)
      BY <3>3, <2>1, <1>0 DEF Look, Goto, Fails, At, creditVars
    <3>4. CASE Insert(w)
      <4>1. wk'[w].order = o /\ wk'[w].pc \in {"renew", "retry"}
        BY <3>4, <2>1, <1>0 DEF Insert, Goto, Fails
      <4>2. wk'[w].pc = "renew" => batch'[o] = "own"
        BY <3>4, <2>1, <1>0 DEF Insert, Goto, Fails, At, Progressed, creditVars
      <4> QED
        BY <4>1, <4>2
    <3>5. CASE Reward(w)
      <4>1. At(w, "reward") /\ wk'[w].order = o /\ UNCHANGED batch
            /\ wk'[w].pc \in {"complete", "retry"}
        BY <3>5, <2>1, <1>0 DEF Reward, Goto, Fails, creditVars
      <4> QED
        BY <4>1 DEF Progressed, At
    <3> QED
      BY <1>3, <3>1, <3>2, <3>3, <3>4, <3>5, <2>1, <1>0 DEF Process, Renew, Complete, Retry,
         FailItem, FailOrder, Crash, Goto, Quit, Fails, Idle
  <2> QED
    BY <1>3, <2>2, OthersStay, <1>v DEF Progressed
<1> QED
  BY <1>1, <1>2, <1>3 DEF Next, vars, Pay, Confirm, FinishCheckout, RejectAmount, ExpireLease

\* A referral is rewarded by the first order that reaches it, and that order
\* has its credits.
LEMMA RewardedStep ==
  ASSUME TypeOK, Progressed, Granted, Rewarded, [Next]_vars
  PROVE  Rewarded'
<1> USE ConstantsAssumption
<1>0. /\ first \in [Users -> Orders \cup {None}] /\ rewards \in [Users -> Nat]
      /\ reward \in [Users -> {"registered", "rewarded", "skipped"}]
      /\ batch \in [Orders -> {"none", "own", "foreign"}]
  BY DEF TypeOK
<1>b. \A o \in Orders : batch[o] = "own" => batch'[o] = "own"
  BY CreditStep
<1>1. CASE UNCHANGED referralVars
  BY <1>0, <1>1, <1>b DEF Rewarded, referralVars
<1>2. ASSUME NEW w \in Workers, Reward(w), ~UNCHANGED referralVars PROVE Rewarded'
  <2> DEFINE o == wk[w].order  u == Customer[o]
  <2>1. o \in Orders /\ u \in Users /\ batch[o] = "own"
    BY <1>2, Busy DEF Reward, At, Progressed
  <2>2. /\ first[u] = None /\ first' = [first EXCEPT ![u] = o] /\ UNCHANGED batch
        /\ \/ reward' = [reward EXCEPT ![u] = "rewarded"] /\ rewards' = [rewards EXCEPT ![u] = @ + 1]
           \/ reward' = [reward EXCEPT ![u] = "skipped"] /\ UNCHANGED rewards
    BY <1>2 DEF Reward, creditVars
  <2>3. reward[u] # "rewarded" /\ rewards[u] = 0
    BY <2>1, <2>2 DEF Rewarded
  <2> QED
    BY <2>1, <2>2, <2>3, <1>0 DEF Rewarded
<1>3. UNCHANGED referralVars \/ \E w \in Workers : Reward(w)
  BY DEF Next, vars, Pay, Confirm, FinishCheckout, RejectAmount, ExpireLease, Claim, Process, Renew,
         Look, Insert, Complete, Retry, FailItem, FailOrder, Crash
<1> QED
  BY <1>1, <1>2, <1>3

\* Order and item become final in one transaction, and nothing opens either
\* of them again.
LEMMA OutcomeStep ==
  ASSUME TypeOK, Progressed, Granted, OutcomeAgrees, [Next]_vars
  PROVE  OutcomeAgrees'
<1> USE ConstantsAssumption
<1> USE DEF OutcomeAgrees, orderVars, itemVars, creditVars
<1>0. /\ order \in [Orders -> OrderStates] /\ trade \in [Orders -> Trades \cup {Sentinel, None}]
      /\ item \in [Orders -> ItemStates] /\ itemTrade \in [Orders -> Trades \cup {None}]
      /\ batch \in [Orders -> {"none", "own", "foreign"}]
  BY DEF TypeOK
<1>b. \A o \in Orders : batch[o] = "own" => batch'[o] = "own"
  BY CreditStep
<1>1. ASSUME NEW o \in Orders, NEW t \in Trades, Pay(o, t) PROVE OutcomeAgrees'
  BY <1>1 DEF Pay
<1>2. ASSUME NEW o \in Orders, NEW t \in Trades, Confirm(o, t) PROVE OutcomeAgrees'
  BY <1>2, <1>0 DEF Confirm, Accepts
<1>3. ASSUME NEW o \in Orders, FinishCheckout(o) \/ RejectAmount(o) \/ ExpireLease(o)
      PROVE  OutcomeAgrees'
  BY <1>3, <1>0 DEF FinishCheckout, RejectAmount, ExpireLease
<1>4. ASSUME NEW w \in Workers, NEW o \in Orders, Claim(w, o) PROVE OutcomeAgrees'
  BY <1>4, <1>0 DEF Claim
<1>5. ASSUME NEW w \in Workers, Process(w) \/ Crash(w) PROVE OutcomeAgrees'
  <2> DEFINE o == wk[w].order
  <2>1. o \in Orders
    BY <1>5, Busy DEF Process, Renew, Look, Insert, Reward, Complete, Retry, FailItem, FailOrder,
       Crash, At
  <2>2. CASE UNCHANGED <<order, trade, item, itemTrade>>
    BY <2>2, <1>b
  <2>3. CASE Complete(w) /\ Completed(w)
    <3>1. batch[o] = "own" /\ trade[o] = itemTrade[o] /\ UNCHANGED <<trade, itemTrade, batch>>
      BY <2>3 DEF Complete, Completed, Progressed, At
    <3> QED
      BY <2>1, <2>3, <3>1, <1>0 DEF Completed
  <2>4. CASE (Retry(w) \/ FailItem(w)) /\ Holds(w)
    <3>1. \E status \in {"retry", "failed"} : item' = [item EXCEPT ![o] = status]
      BY <2>4 DEF Retry, FailItem
    <3>2. item[o] = "processing" /\ UNCHANGED <<order, trade, itemTrade>>
      BY <2>4 DEF Retry, FailItem, Holds
    <3> QED
      BY <2>1, <3>1, <3>2, <1>0, <1>b
  <2>5. CASE FailOrder(w)
    BY <2>1, <2>5, <1>0 DEF FailOrder
  <2> QED
    BY <1>5, <2>2, <2>3, <2>4, <2>5 DEF Process, Renew, Look, Insert, Reward, Complete, Retry,
       FailItem, FailOrder, Crash
<1>6. CASE UNCHANGED vars
  BY <1>6 DEF vars
<1> QED
  BY <1>1, <1>2, <1>3, <1>4, <1>5, <1>6 DEF Next

-----------------------------------------------------------------------------

\* The inductive invariant of fulfilment holds in every behaviour.
THEOREM FulfillmentInvariance == Spec => []IInv
<1>1. IInv /\ [Next]_vars => IInv'
  <2> SUFFICES ASSUME IInv, [Next]_vars PROVE IInv'
    OBVIOUS
  <2>1. TypeOK' /\ Sourced'
    BY TypeStep, SourcedStep DEF IInv
  <2>2. Progressed' /\ Granted' /\ Rewarded' /\ OutcomeAgrees'
    BY ProgressedStep, CreditStep, RewardedStep, OutcomeStep DEF IInv
  <2> QED
    BY <2>1, <2>2 DEF IInv
<1> QED
  BY InitInv, <1>1, PTL DEF Spec

\* The columns of orders and items and the local state of the workers keep
\* their types, and only an item in processing has a lease.
THEOREM FulfillmentTypeCorrect == Spec => []TypeOK
<1>1. IInv => TypeOK
  BY DEF IInv
<1> QED
  BY FulfillmentInvariance, <1>1, PTL

\* Whatever webhooks, workers, crashes and expired leases do, an order is
\* credited at most once and for a payment, and a referral rewarded at most
\* once, for an order that was credited.
THEOREM EachOrderCreditedOnce == Spec => []CreditedOnce
<1>1. IInv => CreditedOnce
  <2> SUFFICES ASSUME IInv PROVE CreditedOnce
    OBVIOUS
  <2>1. ASSUME NEW o \in Orders
        PROVE  /\ granted[o] = IF batch[o] = "own" THEN 1 ELSE 0
               /\ granted[o] = 1 => <<o, itemTrade[o]>> \in paid
    BY <2>1 DEF IInv, Granted, Sourced
  <2>2. ASSUME NEW u \in Users
        PROVE  /\ rewards[u] = IF reward[u] = "rewarded" THEN 1 ELSE 0
               /\ rewards[u] = 1 => first[u] # None /\ granted[first[u]] = 1
    <3>1. first[u] # None => first[u] \in Orders
      BY <2>2 DEF IInv, TypeOK
    <3> QED
      BY <2>2, <3>1 DEF IInv, Rewarded, Granted
  <2> QED
    BY <2>1, <2>2 DEF CreditedOnce
<1> QED
  BY FulfillmentInvariance, <1>1, PTL

\* An order is fulfilled exactly when its item succeeded, and never without
\* its credits.
THEOREM OutcomesAgree == Spec => []OutcomeAgrees
<1>1. IInv => OutcomeAgrees
  BY DEF IInv
<1> QED
  BY FulfillmentInvariance, <1>1, PTL
=============================================================================
