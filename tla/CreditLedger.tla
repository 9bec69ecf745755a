---------------------------- MODULE CreditLedger ----------------------------
(***************************************************************************)
(* The wallet of one user: grants, charges, refunds, purchases, expiry,    *)
(* freezing and the registration bonus (credits_uol.go, credits_service.go)*)
(* and the grant of a payment, which takes its locks in another order      *)
(* (payment_fulfillment.go).                                               *)
(*                                                                         *)
(* Transactions run at READ COMMITTED: every action is one statement, or a *)
(* few that hold the lock of the wallet, reads what is committed and what  *)
(* its own transaction wrote, and writes rows nobody else sees before the  *)
(* commit.  A request is known by its source_ref and may be sent again at  *)
(* any time; its amount never changes.                                     *)
(***************************************************************************)
EXTENDS Naturals, FiniteSetsExt

CONSTANTS
  Txs,       \* database transactions
  Charges, Refunds, Grants, Purchases,  \* source_refs of each kind
  Bonus,     \* the grants that are registration bonuses
  Operation, \* operation of a charge or a refund
  Amount,    \* credits of a source_ref
  Life,      \* how long the batch of a source_ref lasts; 0: for ever
  Rank,      \* consumption order of batches that expire together
  MaxTime,   \* bound: the clock
  None

Batches == Grants \cup Purchases \cup Refunds
Refs == Batches \cup Charges
Operations == {Operation[r] : r \in Charges \cup Refunds}
Never == MaxTime + 1
Wallets == [balance : Nat, earned : Nat, spent : Nat, refunded : Nat, frozen : BOOLEAN]

ASSUME RefsAssumption ==
  /\ IsFiniteSet(Refs) /\ Bonus \subseteq Grants /\ None \notin Refs \cup Txs \cup Wallets
  /\ Amount \in [Refs -> Nat \ {0}] /\ Life \in [Batches -> Nat]
  /\ Rank \in [Batches -> Nat] /\ \A b, c \in Batches : Rank[b] = Rank[c] => b = c
  /\ MaxTime \in Nat

\* A transaction row is found by its type and source_ref, a batch by its
\* source_type and source_ref, so one source_ref stands for one kind.
ASSUME KindsAssumption ==
  /\ Charges \cap Batches = {}
  /\ Grants \cap Refunds = {} /\ Purchases \cap (Grants \cup Refunds) = {}

VARIABLES
  clock,
  db,     \* the committed rows
  own,    \* the rows that a transaction has written
  holder, \* the transaction that has locked the row of credits_balance
  tx      \* a transaction: its request, where it is, and its now()

vars == <<clock, db, own, holder, tx>>

NoBatch == [left |-> 0, status |-> "none", issued |-> 0, expires |-> 0]
Nothing == [wallet |-> None, batch |-> <<>>, entry |-> <<>>, lapsed |-> <<>>, usage |-> <<>>]
NoTx == [pc |-> "idle", kind |-> None, ref |-> None, now |-> 0]

Init ==
  /\ clock = 0
  /\ db = [wallet |-> [balance |-> 0, earned |-> 0, spent |-> 0, refunded |-> 0, frozen |-> FALSE],
           batch  |-> [b \in Batches |-> NoBatch],
           entry  |-> [r \in Refs |-> 0],     \* credits_transaction
           lapsed |-> [b \in Batches |-> 0],  \* ... of type expiration
           usage  |-> [o \in Operations |-> [gross |-> 0, refunded |-> 0]]]
  /\ own = [t \in Txs |-> Nothing]
  /\ holder = None
  /\ tx = [t \in Txs |-> NoTx]

-----------------------------------------------------------------------------
(* Rows                                                                    *)

\* The rows of f, and those of g that f does not replace
Over(f, g) == [k \in DOMAIN f \cup DOMAIN g |-> IF k \in DOMAIN f THEN f[k] ELSE g[k]]
Row(k, r) == [x \in {k} |-> r]

Overlay(rows, under) ==
  [wallet |-> IF rows.wallet = None THEN under.wallet ELSE rows.wallet,
   batch  |-> Over(rows.batch, under.batch),   entry |-> Over(rows.entry, under.entry),
   lapsed |-> Over(rows.lapsed, under.lapsed), usage |-> Over(rows.usage, under.usage)]

View(t) == Overlay(own[t], db)
Write(t, rows) == own' = [own EXCEPT ![t] = Overlay(rows, @)]

At(t, pc) == tx[t].pc = pc
Goto(t, pc) == tx' = [tx EXCEPT ![t].pc = pc]

Total(f, S) == MapThenSumSet(LAMBDA x : f[x], S)
Left(v) == [b \in Batches |-> v.batch[b].left]
Gross(v, o) == Total(v.entry, {r \in Charges : Operation[r] = o})
Refunded(v, o) == Total(v.entry, {r \in Refunds : Operation[r] = o})

Smaller(m, n) == IF m < n THEN m ELSE n
Less(m, n) == IF m > n THEN m - n ELSE 0

\* expireUserCreditDetailsTx, as the rows it writes
Expired(v, now) ==
  LET due == {b \in Batches : /\ v.batch[b].status = "active" /\ v.batch[b].left > 0
                              /\ v.batch[b].expires <= now}
      sum == Total(Left(v), due)
  IN  [Nothing EXCEPT
         !.wallet = IF due = {} THEN None ELSE [v.wallet EXCEPT !.balance = Less(@, sum)],
         !.batch  = [b \in due |-> [v.batch[b] EXCEPT !.status = "expired"]],
         !.lapsed = [b \in due |-> v.lapsed[b] + v.batch[b].left]]

\* A new batch with its transaction row and, for a refund, its projection
\* (rebuildCreditOperationTx).
Granted(v, b, expires) ==
  [Nothing EXCEPT
     !.batch = Row(b, [left |-> Amount[b], status |-> "active",
                       issued |-> clock, expires |-> expires]),
     !.entry = Row(b, v.entry[b] + Amount[b]),
     !.usage = IF b \notin Refunds THEN <<>>
               ELSE LET o == Operation[b]
                    IN  Row(o, [gross |-> Gross(v, o), refunded |-> Refunded(v, o) + Amount[b]])]

\* ... and what it adds to the wallet
Credited(v, b) ==
  [v.wallet EXCEPT !.balance = @ + Amount[b], !.earned = @ + Amount[b],
                   !.refunded = IF b \in Refunds THEN @ + Amount[b] ELSE @]

Expiry(b) == IF Life[b] = 0 THEN Never
             ELSE Smaller(Never, IF b \in Purchases THEN Life[b] ELSE clock + Life[b])

-----------------------------------------------------------------------------
(* Transactions                                                            *)

Requests ==
  {<<"charge", r>> : r \in Charges} \cup {<<"refund", r>> : r \in Refunds}
  \cup {<<"grant", r>> : r \in Grants} \cup {<<"purchase", r>> : r \in Purchases}
  \cup {<<"sweep", None>>, <<"status", None>>}

Begin(t) ==
  /\ At(t, "idle")
  /\ \E q \in Requests :
       tx' = [tx EXCEPT ![t] = [pc   |-> IF q[1] = "purchase" THEN "insert" ELSE "lock",
                                kind |-> q[1], ref |-> q[2], now |-> clock]]
  /\ UNCHANGED <<clock, db, own, holder>>

Commit(t) ==
  /\ At(t, "commit")
  /\ db' = View(t)
  /\ own' = [own EXCEPT ![t] = Nothing]
  /\ tx' = [tx EXCEPT ![t] = NoTx]
  /\ holder' = IF holder = t THEN None ELSE holder
  /\ UNCHANGED clock

\* An error, a crash or a lost connection; the request may come again, as
\* it may when only the answer of its commit was lost.
Rollback(t) ==
  /\ ~At(t, "idle")
  /\ own' = [own EXCEPT ![t] = Nothing]
  /\ tx' = [tx EXCEPT ![t] = NoTx]
  /\ holder' = IF holder = t THEN None ELSE holder
  /\ UNCHANGED <<clock, db>>

\* grantPaymentCredits inserts the batch first; the unique index makes it
\* wait for another transaction that has inserted it.
InsertPurchase(t) ==
  LET b == tx[t].ref  v == View(t) IN
  /\ At(t, "insert")
  /\ \A s \in Txs \ {t} : b \notin DOMAIN own[s].batch
  /\ IF v.batch[b].status = "none"
     THEN Write(t, Granted(v, b, Expiry(b))) /\ Goto(t, "credit")
     ELSE UNCHANGED own /\ Goto(t, "commit")
  /\ UNCHANGED <<clock, db, holder>>

\* Bug: the balance is computed from the one read before the lock.
CreditPurchaseStale(t) ==
  /\ At(t, "credit")
  /\ Write(t, [Nothing EXCEPT !.wallet = Credited(View(t), tx[t].ref)])
  /\ Goto(t, "commit")
  /\ UNCHANGED <<clock, db, holder>>

\* ... and then adds to the balance, whose row is locked until the commit.
CreditPurchase(t) ==
  /\ At(t, "credit") /\ holder = None
  /\ holder' = t
  /\ Write(t, [Nothing EXCEPT !.wallet = Credited(View(t), tx[t].ref)])
  /\ Goto(t, "commit")
  /\ UNCHANGED <<clock, db>>

\* lockCreditWallet, which expires what is due; everything else of the
\* transaction comes after it.
Lock(t) ==
  /\ At(t, "lock") /\ holder = None
  /\ holder' = t
  /\ Write(t, Expired(View(t), tx[t].now))
  /\ Goto(t, IF tx[t].kind = "sweep" THEN "commit" ELSE tx[t].kind)
  /\ UNCHANGED <<clock, db>>

\* The batches that a charge may use, and what it takes from each.
Usable(v, now) == {b \in Batches : /\ v.batch[b].status = "active" /\ v.batch[b].left > 0
                                   /\ v.batch[b].expires > now}

Before(v, b, c) == \/ v.batch[b].expires < v.batch[c].expires
                   \/ v.batch[b].expires = v.batch[c].expires /\ Rank[b] < Rank[c]

Taken(v, now, amount) ==
  [b \in Usable(v, now) |->
     Smaller(v.batch[b].left,
             Less(amount, Total(Left(v), {c \in Usable(v, now) : Before(v, c, b)})))]

Charged(v, r, taken) ==
  LET o == Operation[r]
      used == {b \in DOMAIN taken : taken[b] > 0}
  IN  [wallet |-> [v.wallet EXCEPT !.balance = @ - Amount[r], !.spent = @ + Amount[r]],
       batch  |-> [b \in used |->
                     [v.batch[b] EXCEPT !.left = @ - taken[b],
                                        !.status = IF taken[b] = v.batch[b].left THEN "consumed" ELSE @]],
       entry  |-> Row(r, v.entry[r] + Amount[r]),
       lapsed |-> <<>>,
       usage  |-> Row(o, [gross |-> Gross(v, o) + Amount[r], refunded |-> Refunded(v, o)])]

\* Bug: a source_ref that has been charged is charged again.
ChargeAgain(t) ==
  LET r == tx[t].ref  v == View(t)  taken == Taken(v, tx[t].now, Amount[r]) IN
  /\ At(t, "charge")
  /\ ~v.wallet.frozen /\ v.wallet.balance >= Amount[r]
  /\ Total(taken, DOMAIN taken) = Amount[r]
  /\ Write(t, Charged(v, r, taken))
  /\ Goto(t, "commit")
  /\ UNCHANGED <<clock, db, holder>>

\* consumeCreditTx: replayed, refused (see Rollback) or charged.
Charge(t) ==
  LET r == tx[t].ref  v == View(t)  taken == Taken(v, tx[t].now, Amount[r]) IN
  /\ At(t, "charge")
  /\ \/ v.entry[r] > 0 /\ UNCHANGED own
     \/ /\ v.entry[r] = 0 /\ ~v.wallet.frozen /\ v.wallet.balance >= Amount[r]
        /\ Total(taken, DOMAIN taken) = Amount[r]
        /\ Write(t, Charged(v, r, taken))
  /\ Goto(t, "commit")
  /\ UNCHANGED <<clock, db, holder>>

\* Batch, transaction and wallet of a grant or a refund
AddBatch(t, b) ==
  LET v == View(t)
  IN  Write(t, [Granted(v, b, Expiry(b)) EXCEPT !.wallet = Credited(v, b)])

\* repairRegistrationBonusExpiryTx, after the setting has been shortened or
\* not; what is due then expires.
RepairBonus(t, b) ==
  \E days \in 1 .. Life[b] :
    LET v == View(t)
        row == [v.batch[b] EXCEPT !.expires = Smaller(@, v.batch[b].issued + days)]
        rows == [Nothing EXCEPT !.batch = IF row.status = "active" THEN Row(b, row) ELSE <<>>]
    IN  Write(t, Overlay(Expired(Overlay(rows, v), tx[t].now), rows))

\* grantCreditTx, and grantRegistrationBonus for a bonus.
Grant(t) ==
  LET b == tx[t].ref  v == View(t) IN
  /\ At(t, "grant")
  /\ \/ v.batch[b].status = "none" /\ ~v.wallet.frozen /\ AddBatch(t, b)
     \/ v.batch[b].status # "none" /\ b \in Bonus /\ RepairBonus(t, b)
     \/ v.batch[b].status # "none" /\ b \notin Bonus /\ UNCHANGED own
  /\ Goto(t, "commit")
  /\ UNCHANGED <<clock, db, holder>>

\* grantCreditTx for a refund, which a frozen wallet takes as well: never
\* more than the operation was charged.
Refund(t) ==
  LET b == tx[t].ref  o == Operation[b]  v == View(t) IN
  /\ At(t, "refund")
  /\ \/ v.batch[b].status # "none" /\ UNCHANGED own
     \/ /\ v.batch[b].status = "none"
        /\ Refunded(v, o) + Amount[b] <= Gross(v, o)
        /\ AddBatch(t, b)
  /\ Goto(t, "commit")
  /\ UNCHANGED <<clock, db, holder>>

\* The wallet is frozen or released by an administrator.
SetStatus(t) ==
  /\ At(t, "status")
  /\ \E frozen \in BOOLEAN :
       Write(t, [Nothing EXCEPT !.wallet = [View(t).wallet EXCEPT !.frozen = frozen]])
  /\ Goto(t, "commit")
  /\ UNCHANGED <<clock, db, holder>>

Tick ==
  /\ clock < MaxTime
  /\ clock' = clock + 1
  /\ UNCHANGED <<db, own, holder, tx>>

Statement(t) == InsertPurchase(t) \/ CreditPurchase(t) \/ Lock(t) \/ Charge(t)
                \/ Grant(t) \/ Refund(t) \/ SetStatus(t)

Next == Tick \/ \E t \in Txs : Begin(t) \/ Statement(t) \/ Commit(t) \/ Rollback(t)

Spec == Init /\ [][Next]_vars

-----------------------------------------------------------------------------
(* Properties                                                              *)

Active(v) == {b \in Batches : v.batch[b].status = "active"}

\* Balance, batches, transactions and the projection of an operation agree.
Exact(v) ==
  /\ v.wallet.balance = Total(Left(v), Active(v))
  /\ v.wallet.earned = Total(v.entry, Batches)
  /\ v.wallet.spent = Total(v.entry, Charges)
  /\ v.wallet.refunded = Total(v.entry, Refunds)
  /\ v.wallet.earned = v.wallet.balance + v.wallet.spent + Total(v.lapsed, Batches)
  /\ \A o \in Operations : /\ Refunded(v, o) <= Gross(v, o)
                           /\ v.usage[o] = [gross |-> Gross(v, o), refunded |-> Refunded(v, o)]

\* Whatever transactions overlap, and although a purchase inserts its batch
\* before it locks the wallet: the balance is what the active batches hold
\* and what the transactions add up to, and no operation gets back more than
\* it was charged, nor says anything else in its projection.
LedgerExact == Exact(db)

\* What v may be after u.
Later(u, v) ==
  /\ \A r \in Refs : u.entry[r] > 0 => v.entry[r] = u.entry[r]
  /\ \A b \in Batches : /\ u.batch[b].status \in {"expired", "consumed"} => v.batch[b] = u.batch[b]
                        /\ u.lapsed[b] > 0 => v.lapsed[b] = u.lapsed[b]
  /\ u.wallet.frozen => v.wallet.spent = u.wallet.spent

\* A request that is repeated, also because the answer of its commit was
\* lost, changes nothing any more; a batch that is used up or expired is
\* closed for good; and a charge that waits for the lock while the wallet
\* is being frozen is refused.
SettledForGood == [][Later(db, db')]_db

=============================================================================
