------------------------- MODULE PaymentFulfillment -------------------------
(***************************************************************************)
(* From a provider's webhook to the credits of a paid order: the work item *)
(* that a confirmed payment leaves behind, the workers that fulfil it under*)
(* a lease (webhook handlers and the recovery loop of every replica), the  *)
(* amount gate of Creem and the referral reward (payment_fulfillment.go,   *)
(* payments.go, referral_service.go).                                      *)
(*                                                                         *)
(* An action is one transaction or one statement.  A worker stands for its *)
(* lease token.  The mirror rows of epay_order and the lifecycle events    *)
(* are left out: no decision about an order reads them.                    *)
(***************************************************************************)
EXTENDS Naturals

CONSTANTS
  Orders, Users, Workers,
  Trades,    \* trade numbers of the providers
  Customer,  \* user of an order
  Gated,     \* Creem orders with CREEM_WEBHOOK_ENFORCE_AMOUNT
  Foreign,   \* orders whose credit_source_ref an older batch may already have
  Referred,  \* users with a referral_relationship
  MaxFaults, \* bound: crashes and failing transactions
  Sentinel,  \* the trade number "creem-amount-mismatch"
  None

ASSUME ConstantsAssumption ==
  /\ Customer \in [Orders -> Users]
  /\ Gated \subseteq Orders /\ Foreign \subseteq Orders /\ Referred \subseteq Users
  /\ MaxFaults \in Nat
  /\ Sentinel \notin Trades /\ None \notin Trades \cup {Sentinel} \cup Orders \cup Workers

VARIABLES
  paid,     \* payments that the provider holds: order and trade number
  order,    \* payment_order.status
  trade,    \* payment_order.provider_trade_no
  item,     \* payment_fulfillment_work_item.status; "none": no row
  token,    \* its lease_token
  leased,   \* its lease_expires_at is in the future
  itemTrade,\* its provider_trade_no
  batch,    \* credits_batch under the order's credit_source_ref
  granted,  \* how often the balance was raised for the order
  first,    \* referral_relationship.first_payment_order_id
  reward,   \* its status
  rewards,  \* how often its rewards were granted
  wk,       \* a worker: where it is, and in which order's item
  faults

orderVars == <<order, trade>>
itemVars == <<item, token, leased, itemTrade>>
creditVars == <<batch, granted>>
referralVars == <<first, reward, rewards>>
vars == <<paid, orderVars, itemVars, creditVars, referralVars, wk, faults>>

OrderStates == {"creating", "pending", "fulfilling", "fulfilled", "failed"}
ItemStates == {"none", "pending", "processing", "retry", "failed", "succeeded"}
PCs == {"idle", "claimed", "look", "insert", "renew", "reward", "complete",
        "retry", "failItem", "failOrder"}
Idle == [pc |-> "idle", order |-> None]

Init ==
  /\ paid = {}
  /\ order = [o \in Orders |-> "creating"] /\ trade = [o \in Orders |-> None]
  /\ item = [o \in Orders |-> "none"] /\ token = [o \in Orders |-> None]
  /\ leased = [o \in Orders |-> FALSE] /\ itemTrade = [o \in Orders |-> None]
  /\ \E old \in SUBSET Foreign : batch = [o \in Orders |-> IF o \in old THEN "foreign" ELSE "none"]
  /\ granted = [o \in Orders |-> 0]
  /\ first = [u \in Users |-> None] /\ reward = [u \in Users |-> "registered"]
  /\ rewards = [u \in Users |-> 0]
  /\ wk = [w \in Workers |-> Idle]
  /\ faults = 0

-----------------------------------------------------------------------------
(* The provider and its webhooks                                           *)

\* The customer pays at the provider, which may have two checkouts of one
\* order, or one of an order that failed here.
Pay(o, t) ==
  /\ <<o, t>> \notin paid /\ \A p \in paid : p[2] # t
  /\ paid' = paid \cup {<<o, t>>}
  /\ UNCHANGED <<orderVars, itemVars, creditVars, referralVars, wk, faults>>

\* finishTopUpCheckout, finishCreditPackageCheckout
FinishCheckout(o) ==
  /\ order[o] = "creating"
  /\ \E status \in {"pending", "failed"} : order' = [order EXCEPT ![o] = status]
  /\ UNCHANGED <<paid, trade, itemVars, creditVars, referralVars, wk, faults>>

\* An order that is fulfilled is left alone, and so is one whose payment has
\* another trade number.
Accepts(o, t) == order[o] # "fulfilled" /\ trade[o] \in {None, t}

\* confirmPaymentWorkItem: the order is reopened whatever it was, and gets a
\* work item unless it has one.
Confirm(o, t) ==
  /\ <<o, t>> \in paid
  /\ Accepts(o, t)
  /\ order' = [order EXCEPT ![o] = "fulfilling"]
  /\ trade' = [trade EXCEPT ![o] = t]
  /\ IF item[o] = "none"
     THEN /\ item' = [item EXCEPT ![o] = "pending"]
          /\ itemTrade' = [itemTrade EXCEPT ![o] = t]
     ELSE itemTrade[o] = t /\ UNCHANGED <<item, itemTrade>>
  /\ UNCHANGED <<paid, token, leased, creditVars, referralVars, wk, faults>>

\* Bug: the gate does not look at the status of the order.
RejectAmountAlways(o) ==
  /\ o \in Gated
  /\ order' = [order EXCEPT ![o] = "failed"]
  /\ trade' = [trade EXCEPT ![o] = IF @ = None THEN Sentinel ELSE @]
  /\ UNCHANGED <<paid, itemVars, creditVars, referralVars, wk, faults>>

\* validateCreemWebhookAmount on a webhook with another amount
RejectAmount(o) ==
  /\ o \in Gated /\ order[o] # "fulfilled"
  /\ order' = [order EXCEPT ![o] = "failed"]
  /\ trade' = [trade EXCEPT ![o] = IF @ = None THEN Sentinel ELSE @]
  /\ UNCHANGED <<paid, itemVars, creditVars, referralVars, wk, faults>>

-----------------------------------------------------------------------------
(* Fulfilment by a worker                                                  *)

At(w, pc) == wk[w].pc = pc
Goto(w, pc) == wk' = [wk EXCEPT ![w].pc = pc] /\ UNCHANGED faults
Quit(w) == wk' = [wk EXCEPT ![w] = Idle] /\ UNCHANGED faults

\* The transaction fails, or its answer is lost.
Fails(w) == /\ faults < MaxFaults /\ faults' = faults + 1
            /\ wk' = [wk EXCEPT ![w].pc = "retry"]

Holds(w) == item[wk[w].order] = "processing" /\ token[wk[w].order] = w

\* Bug: a processing item is never claimed again.
ClaimFresh(w, o) ==
  /\ At(w, "idle") /\ item[o] \in {"pending", "retry"}
  /\ item' = [item EXCEPT ![o] = "processing"]
  /\ token' = [token EXCEPT ![o] = w] /\ leased' = [leased EXCEPT ![o] = TRUE]
  /\ wk' = [wk EXCEPT ![w] = [pc |-> "claimed", order |-> o]]
  /\ UNCHANGED <<paid, orderVars, itemTrade, creditVars, referralVars, faults>>

\* claimPaymentFulfillment: an item that is due, or whose lease expired.
Claim(w, o) ==
  /\ At(w, "idle")
  /\ \/ item[o] \in {"pending", "retry"}
     \/ item[o] = "processing" /\ ~leased[o]
  /\ item' = [item EXCEPT ![o] = "processing"]
  /\ token' = [token EXCEPT ![o] = w] /\ leased' = [leased EXCEPT ![o] = TRUE]
  /\ wk' = [wk EXCEPT ![w] = [pc |-> "claimed", order |-> o]]
  /\ UNCHANGED <<paid, orderVars, itemTrade, creditVars, referralVars, faults>>

\* renewPaymentFulfillment, before the grant and before the reward
Renew(w) ==
  /\ At(w, "claimed") \/ At(w, "renew")
  /\ LET o == wk[w].order
     IN  IF Holds(w) /\ leased[o]
         THEN Goto(w, IF At(w, "claimed") THEN "look" ELSE "reward")
         ELSE Quit(w)
  /\ UNCHANGED <<paid, orderVars, itemVars, creditVars, referralVars>>

\* grantPaymentCredits looks for the batch ...
Look(w) ==
  /\ At(w, "look")
  /\ \/ Goto(w, CASE batch[wk[w].order] = "none" -> "insert"
                  [] batch[wk[w].order] = "own" -> "renew"
                  [] OTHER -> "failItem")
     \/ Fails(w)
  /\ UNCHANGED <<paid, orderVars, itemVars, creditVars, referralVars>>

\* Bug: the balance is raised although another worker inserted the batch.
InsertAgain(w) ==
  LET o == wk[w].order IN
  /\ At(w, "insert")
  /\ batch' = [batch EXCEPT ![o] = "own"] /\ granted' = [granted EXCEPT ![o] = @ + 1]
  /\ Goto(w, "renew")
  /\ UNCHANGED <<paid, orderVars, itemVars, referralVars>>

\* ... and inserts it: unique by source, and only then is the balance raised.
Insert(w) ==
  LET o == wk[w].order IN
  /\ At(w, "insert")
  /\ \/ /\ IF batch[o] = "none"
           THEN batch' = [batch EXCEPT ![o] = "own"] /\ granted' = [granted EXCEPT ![o] = @ + 1]
           ELSE UNCHANGED creditVars
        /\ Goto(w, "renew") \/ Fails(w)
     \/ Fails(w) /\ UNCHANGED creditVars
  /\ UNCHANGED <<paid, orderVars, itemVars, referralVars>>

\* fulfillReferralReward for the first order of a referred customer; whether
\* the programme is enabled is a setting that may change.
Reward(w) ==
  LET o == wk[w].order  u == Customer[o] IN
  /\ At(w, "reward")
  /\ \/ /\ order[o] \in {"fulfilling", "fulfilled"}
        /\ IF u \in Referred /\ first[u] = None
           THEN /\ first' = [first EXCEPT ![u] = o]
                /\ \/ /\ reward' = [reward EXCEPT ![u] = "rewarded"]
                      /\ rewards' = [rewards EXCEPT ![u] = @ + 1]
                   \/ reward' = [reward EXCEPT ![u] = "skipped"] /\ UNCHANGED rewards
           ELSE UNCHANGED referralVars
        /\ Goto(w, "complete") \/ Fails(w)
     \/ /\ order[o] \notin {"fulfilling", "fulfilled"}
        /\ Goto(w, "retry") /\ UNCHANGED referralVars
     \/ Fails(w) /\ UNCHANGED referralVars
  /\ UNCHANGED <<paid, orderVars, itemVars, creditVars>>

\* completePaymentFulfillment, one transaction over item and order; it does
\* not look at the expiry of the lease.
Completed(w) ==
  LET o == wk[w].order IN
  /\ Holds(w) /\ order[o] = "fulfilling" /\ trade[o] = itemTrade[o]
  /\ item' = [item EXCEPT ![o] = "succeeded"] /\ order' = [order EXCEPT ![o] = "fulfilled"]
  /\ token' = [token EXCEPT ![o] = None] /\ leased' = [leased EXCEPT ![o] = FALSE]

Complete(w) ==
  /\ At(w, "complete")
  /\ \/ Completed(w) /\ (Quit(w) \/ Fails(w))
     \/ /\ ~Holds(w) /\ Quit(w)
        /\ UNCHANGED <<order, item, token, leased>>
     \/ /\ Holds(w) /\ (order[wk[w].order] # "fulfilling" \/ trade[wk[w].order] # itemTrade[wk[w].order])
        /\ Goto(w, "retry")
        /\ UNCHANGED <<order, item, token, leased>>
     \/ Fails(w) /\ UNCHANGED <<order, item, token, leased>>
  /\ UNCHANGED <<paid, trade, itemTrade, creditVars, referralVars>>

\* Bug: the expiry of the lease is not cleared.
RetryKeepingLease(w) ==
  LET o == wk[w].order IN
  /\ At(w, "retry")
  /\ IF Holds(w)
     THEN item' = [item EXCEPT ![o] = "retry"] /\ token' = [token EXCEPT ![o] = None]
     ELSE UNCHANGED <<item, token>>
  /\ Quit(w)
  /\ UNCHANGED <<paid, orderVars, leased, itemTrade, creditVars, referralVars>>

\* finishPaymentFulfillment after an error; the item is due again later.
Retry(w) ==
  LET o == wk[w].order IN
  /\ At(w, "retry")
  /\ IF Holds(w)
     THEN /\ item' = [item EXCEPT ![o] = "retry"]
          /\ token' = [token EXCEPT ![o] = None] /\ leased' = [leased EXCEPT ![o] = FALSE]
     ELSE UNCHANGED <<item, token, leased>>
  /\ Quit(w)
  /\ UNCHANGED <<paid, orderVars, itemTrade, creditVars, referralVars>>

\* finishPaymentFulfillment when the batch does not match: the item ...
FailItem(w) ==
  LET o == wk[w].order IN
  /\ At(w, "failItem")
  /\ IF Holds(w)
     THEN /\ item' = [item EXCEPT ![o] = "failed"]
          /\ token' = [token EXCEPT ![o] = None] /\ leased' = [leased EXCEPT ![o] = FALSE]
          /\ Goto(w, "failOrder")
     ELSE Quit(w) /\ UNCHANGED <<item, token, leased>>
  /\ UNCHANGED <<paid, orderVars, itemTrade, creditVars, referralVars>>

\* ... and then the order, its error ignored.
FailOrder(w) ==
  LET o == wk[w].order IN
  /\ At(w, "failOrder")
  /\ order' = [order EXCEPT ![o] = IF @ = "fulfilling" THEN "failed" ELSE @]
  /\ Quit(w)
  /\ UNCHANGED <<paid, trade, itemVars, creditVars, referralVars>>

\* The process dies, or the connection to the database is gone.
Crash(w) ==
  /\ ~At(w, "idle") /\ faults < MaxFaults
  /\ faults' = faults + 1
  /\ wk' = [wk EXCEPT ![w] = Idle]
  /\ UNCHANGED <<paid, orderVars, itemVars, creditVars, referralVars>>

\* Five minutes have passed; that the holder still works is a fault.
ExpireLease(o) ==
  /\ leased[o]
  /\ leased' = [leased EXCEPT ![o] = FALSE]
  /\ IF wk[token[o]].order = o THEN faults < MaxFaults /\ faults' = faults + 1
                               ELSE UNCHANGED faults
  /\ UNCHANGED <<paid, orderVars, item, token, itemTrade, creditVars, referralVars, wk>>

Process(w) == Renew(w) \/ Look(w) \/ Insert(w) \/ Reward(w) \/ Complete(w)
              \/ Retry(w) \/ FailItem(w) \/ FailOrder(w)

Next ==
  \/ \E o \in Orders, t \in Trades : Pay(o, t) \/ Confirm(o, t)
  \/ \E o \in Orders : FinishCheckout(o) \/ RejectAmount(o) \/ ExpireLease(o)
  \/ \E w \in Workers, o \in Orders : Claim(w, o)
  \/ \E w \in Workers : Process(w) \/ Crash(w)

Spec == Init /\ [][Next]_vars

\* The recovery loop runs in every replica and takes the items in the order
\* in which they are due; statements end and leases run out.
Fairness ==
  /\ \A w \in Workers : WF_vars(Process(w)) /\ \A o \in Orders : SF_vars(Claim(w, o))
  /\ \A o \in Orders : WF_vars(ExpireLease(o))

FairSpec == Spec /\ Fairness

-----------------------------------------------------------------------------
(* Properties                                                              *)

\* The columns and the local state keep their types; only an item in
\* processing has a lease, and only it has a token.
TypeOK ==
  /\ paid \subseteq Orders \X Trades
  /\ order \in [Orders -> OrderStates] /\ trade \in [Orders -> Trades \cup {Sentinel, None}]
  /\ item \in [Orders -> ItemStates] /\ itemTrade \in [Orders -> Trades \cup {None}]
  /\ token \in [Orders -> Workers \cup {None}] /\ leased \in [Orders -> BOOLEAN]
  /\ \A o \in Orders : /\ leased[o] => token[o] # None
                       /\ token[o] # None <=> item[o] = "processing"
  /\ batch \in [Orders -> {"none", "own", "foreign"}] /\ granted \in [Orders -> Nat]
  /\ first \in [Users -> Orders \cup {None}] /\ rewards \in [Users -> Nat]
  /\ reward \in [Users -> {"registered", "rewarded", "skipped"}]
  /\ wk \in [Workers -> [pc : PCs, order : Orders \cup {None}]]
  /\ \A w \in Workers : At(w, "idle") <=> wk[w].order = None
  /\ faults \in 0 .. MaxFaults

\* However many webhooks, workers and retries meet, an order is credited at
\* most once, and only for a payment that the provider holds under the trade
\* number of its item; the referral of a customer is rewarded at most once,
\* and for an order that was credited.
CreditedOnce ==
  /\ \A o \in Orders : /\ granted[o] = IF batch[o] = "own" THEN 1 ELSE 0
                       /\ granted[o] = 1 => <<o, itemTrade[o]>> \in paid
  /\ \A u \in Users : /\ rewards[u] = IF reward[u] = "rewarded" THEN 1 ELSE 0
                      /\ rewards[u] = 1 => first[u] # None /\ granted[first[u]] = 1

\* The customer sees "fulfilled" exactly when the item succeeded, and then
\* the credits are there, for the payment the order shows.
OutcomeAgrees ==
  \A o \in Orders : /\ order[o] = "fulfilled" <=> item[o] = "succeeded"
                    /\ item[o] = "succeeded" => batch[o] = "own" /\ trade[o] = itemTrade[o]

\* A confirmed payment is fulfilled in the end, whichever workers die or lose
\* their lease, unless the amount gate or an older batch stands against it.
Fulfilled ==
  \A o \in Orders \ (Gated \cup Foreign) : order[o] = "fulfilling" ~> order[o] = "fulfilled"

=============================================================================
