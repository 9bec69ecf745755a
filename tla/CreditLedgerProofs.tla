------------------------ MODULE CreditLedgerProofs ------------------------
(***************************************************************************)
(* The books of a wallet, for any requests, amounts and transactions: they *)
(* balance whenever they are committed, and nothing settled changes.       *)
(***************************************************************************)
EXTENDS CreditLedger, CollectionLemmas

-----------------------------------------------------------------------------
(* The inductive invariant                                                 *)

BatchRows == [left : Nat, status : {"none", "active", "consumed", "expired"},
              issued : Nat, expires : Nat]
Rows == [wallet : Wallets, batch : [Batches -> BatchRows], entry : [Refs -> Nat],
         lapsed : [Batches -> Nat], usage : [Operations -> [gross : Nat, refunded : Nat]]]

\* What has been granted has a batch, and what lapsed is expired.
Marked(v) ==
  \A b \in Batches : /\ v.batch[b].status = "none" => v.entry[b] = 0
                     /\ v.lapsed[b] > 0 => v.batch[b].status = "expired"

Sound(v) == v \in Rows /\ Exact(v) /\ Marked(v)

\* A purchase that waits for the wallet has inserted its batch and its
\* transaction row, which nobody has committed and nobody else writes.
Inserted(t) ==
  LET b == tx[t].ref  row == own[t].batch[b] IN
  /\ b \in Purchases /\ db.batch[b].status = "none"
  /\ row \in BatchRows /\ row.left = Amount[b] /\ row.status = "active"
  /\ own[t] = [wallet |-> None, batch |-> Row(b, row), entry |-> Row(b, Amount[b]),
               lapsed |-> <<>>, usage |-> <<>>]
  /\ \A s \in Txs \ {t} : b \notin DOMAIN own[s].batch

\* The requests, and what each transaction asks for
Locked == {"charge", "grant", "refund", "status"}
Asks ==
  /\ clock \in Nat /\ holder \in Txs \cup {None} /\ DOMAIN own = Txs
  /\ tx \in [Txs -> [pc : {"idle", "insert", "credit", "lock", "commit"} \cup Locked,
                     kind : Locked \cup {"purchase", "sweep", None},
                     ref : Refs \cup {None}, now : Nat]]
  /\ \A t \in Txs : tx[t].pc # "idle" =>
       /\ tx[t].pc \in Locked => tx[t].pc = tx[t].kind
       /\ tx[t].pc = "insert" => tx[t].kind = "purchase"
       /\ tx[t].pc = "lock" => tx[t].kind \in Locked \cup {"sweep"}
       /\ tx[t].kind = "charge" => tx[t].ref \in Charges
       /\ tx[t].kind = "grant" => tx[t].ref \in Grants
       /\ tx[t].kind = "refund" => tx[t].ref \in Refunds
       /\ tx[t].kind = "purchase" => tx[t].ref \in Purchases

\* Only who holds the lock writes, except that a purchase inserts before;
\* the books as the holder sees them are sound and come after the committed.
Locks ==
  \A t \in Txs :
    /\ tx[t].pc \in {"idle", "lock", "insert"} => own[t] = Nothing /\ holder # t
    /\ tx[t].pc = "credit" => holder # t /\ Inserted(t)
    /\ tx[t].pc \in Locked => holder = t /\ View(t).wallet.frozen = db.wallet.frozen
    /\ tx[t].pc = "commit" => holder = t \/ own[t] = Nothing
    /\ holder = t => Sound(View(t)) /\ Later(db, View(t))

IInv == Asks /\ Sound(db) /\ Locks
-----------------------------------------------------------------------------
(* Rows over rows                                                          *)

LEMMA TotalIsSum ==
  ASSUME NEW f, NEW S
  PROVE  Total(f, S) = SumOf(f, S)
BY DEF Total, SumOf

LEMMA RefsFinite ==
  ASSUME NEW S \in SUBSET Refs
  PROVE  IsFiniteSet(S)
BY RefsAssumption, FS_Subset

LEMMA Kinds ==
  /\ Batches \subseteq Refs /\ Charges \subseteq Refs /\ Refunds \subseteq Batches
  /\ Grants \subseteq Batches /\ Purchases \subseteq Batches
  /\ \A r \in Refs : Amount[r] \in Nat /\ Amount[r] > 0
  /\ \A r \in Charges \cup Refunds : Operation[r] \in Operations
BY RefsAssumption DEF Batches, Refs, Operations

LEMMA OverOver ==
  ASSUME NEW f, NEW g, NEW h
  PROVE  Over(Over(f, g), h) = Over(f, Over(g, h))
<1>1. DOMAIN Over(f, g) = DOMAIN f \cup DOMAIN g
  BY DEF Over
<1>2. DOMAIN Over(g, h) = DOMAIN g \cup DOMAIN h
  BY DEF Over
<1>3. \A k \in DOMAIN f \cup DOMAIN g : Over(f, g)[k] = IF k \in DOMAIN f THEN f[k] ELSE g[k]
  BY DEF Over
<1>4. \A k \in DOMAIN g \cup DOMAIN h : Over(g, h)[k] = IF k \in DOMAIN g THEN g[k] ELSE h[k]
  BY DEF Over
<1>5. (DOMAIN f \cup DOMAIN g) \cup DOMAIN h = DOMAIN f \cup (DOMAIN g \cup DOMAIN h)
  OBVIOUS
<1> DEFINE a == Over(f, g)
           b == Over(g, h)
<1>6. \A k \in (DOMAIN f \cup DOMAIN g) \cup DOMAIN h :
        (IF k \in DOMAIN a THEN a[k] ELSE h[k]) = (IF k \in DOMAIN f THEN f[k] ELSE b[k])
  BY <1>1, <1>2, <1>3, <1>4
<1> HIDE DEF a, b
<1>7. Over(a, h) = Over(f, b)
  BY <1>1, <1>2, <1>5, <1>6 DEF Over, a, b
<1>8. QED
  BY <1>7 DEF a, b

LEMMA OverNothing ==
  ASSUME NEW S, NEW T, NEW f \in [S -> T]
  PROVE  Over(<<>>, f) = f
<1>1. DOMAIN <<>> = {}
  OBVIOUS
<1>2. QED
  BY <1>1 DEF Over

\* A table's own rows and what they lie on
LEMMA OverlayOverlay ==
  ASSUME NEW r, NEW o, NEW v
  PROVE  Overlay(Overlay(r, o), v) = Overlay(r, Overlay(o, v))
BY OverOver DEF Overlay

LEMMA OverlayNothing ==
  ASSUME NEW v \in Rows
  PROVE  Overlay(Nothing, v) = v
<1>1. /\ Over(<<>>, v.batch) = v.batch /\ Over(<<>>, v.entry) = v.entry
      /\ Over(<<>>, v.lapsed) = v.lapsed /\ Over(<<>>, v.usage) = v.usage
  BY OverNothing DEF Rows
<1>2. v = [wallet |-> v.wallet, batch |-> v.batch, entry |-> v.entry,
           lapsed |-> v.lapsed, usage |-> v.usage]
  BY DEF Rows
<1>3. QED
  BY <1>1, <1>2 DEF Overlay, Nothing

\* Rows that a transaction may write
Part(rows) ==
  /\ rows.wallet \in Wallets \cup {None}
  /\ DOMAIN rows.batch \subseteq Batches /\ \A b \in DOMAIN rows.batch : rows.batch[b] \in BatchRows
  /\ DOMAIN rows.entry \subseteq Refs /\ \A r \in DOMAIN rows.entry : rows.entry[r] \in Nat
  /\ DOMAIN rows.lapsed \subseteq Batches /\ \A b \in DOMAIN rows.lapsed : rows.lapsed[b] \in Nat
  /\ DOMAIN rows.usage \subseteq Operations
  /\ \A o \in DOMAIN rows.usage : rows.usage[o] \in [gross : Nat, refunded : Nat]

LEMMA Overlaid ==
  ASSUME NEW v \in Rows, NEW rows, Part(rows), NEW w, w = Overlay(rows, v)
  PROVE  /\ w \in Rows
         /\ w.wallet = IF rows.wallet = None THEN v.wallet ELSE rows.wallet
         /\ \A b \in Batches : w.batch[b] = IF b \in DOMAIN rows.batch THEN rows.batch[b] ELSE v.batch[b]
         /\ \A r \in Refs : w.entry[r] = IF r \in DOMAIN rows.entry THEN rows.entry[r] ELSE v.entry[r]
         /\ \A b \in Batches : w.lapsed[b] = IF b \in DOMAIN rows.lapsed THEN rows.lapsed[b] ELSE v.lapsed[b]
         /\ \A o \in Operations : w.usage[o] = IF o \in DOMAIN rows.usage THEN rows.usage[o] ELSE v.usage[o]
<1> DEFINE wallet == IF rows.wallet = None THEN v.wallet ELSE rows.wallet
           batch == Over(rows.batch, v.batch)
           entry == Over(rows.entry, v.entry)
           lapsed == Over(rows.lapsed, v.lapsed)
           usage == Over(rows.usage, v.usage)
<1>1. w = [wallet |-> wallet, batch |-> batch, entry |-> entry, lapsed |-> lapsed, usage |-> usage]
  BY DEF Overlay
<1>2. wallet \in Wallets
  BY DEF Part, Rows
<1>0. /\ v.batch \in [Batches -> BatchRows] /\ v.entry \in [Refs -> Nat]
      /\ v.lapsed \in [Batches -> Nat] /\ v.usage \in [Operations -> [gross : Nat, refunded : Nat]]
  BY DEF Rows
<1>3. /\ batch \in [Batches -> BatchRows]
      /\ \A b \in Batches : batch[b] = IF b \in DOMAIN rows.batch THEN rows.batch[b] ELSE v.batch[b]
  <2>1. DOMAIN rows.batch \subseteq Batches /\ \A b \in DOMAIN rows.batch : rows.batch[b] \in BatchRows
    BY DEF Part
  <2>2. QED
    BY <1>0, <2>1 DEF Over
<1>4. /\ entry \in [Refs -> Nat]
      /\ \A r \in Refs : entry[r] = IF r \in DOMAIN rows.entry THEN rows.entry[r] ELSE v.entry[r]
  <2>1. DOMAIN rows.entry \subseteq Refs /\ \A r \in DOMAIN rows.entry : rows.entry[r] \in Nat
    BY DEF Part
  <2>2. QED
    BY <1>0, <2>1 DEF Over
<1>5. /\ lapsed \in [Batches -> Nat]
      /\ \A b \in Batches : lapsed[b] = IF b \in DOMAIN rows.lapsed THEN rows.lapsed[b] ELSE v.lapsed[b]
  <2>1. DOMAIN rows.lapsed \subseteq Batches /\ \A b \in DOMAIN rows.lapsed : rows.lapsed[b] \in Nat
    BY DEF Part
  <2>2. QED
    BY <1>0, <2>1 DEF Over
<1>6. /\ usage \in [Operations -> [gross : Nat, refunded : Nat]]
      /\ \A o \in Operations : usage[o] = IF o \in DOMAIN rows.usage THEN rows.usage[o] ELSE v.usage[o]
  <2>1. /\ DOMAIN rows.usage \subseteq Operations
        /\ \A o \in DOMAIN rows.usage : rows.usage[o] \in [gross : Nat, refunded : Nat]
    BY DEF Part
  <2>2. QED
    BY <1>0, <2>1 DEF Over
<1> HIDE DEF batch, entry, lapsed, usage
<1>7. QED
  BY <1>1, <1>2, <1>3, <1>4, <1>5, <1>6 DEF Rows

\* What sound books say, as sums
LEMMA SoundSums ==
  ASSUME NEW v, Sound(v)
  PROVE  /\ v \in Rows /\ v.wallet \in Wallets
         /\ v.wallet.balance = SumOf(Left(v), Active(v))
         /\ v.wallet.earned = SumOf(v.entry, Batches) /\ v.wallet.spent = SumOf(v.entry, Charges)
         /\ v.wallet.refunded = SumOf(v.entry, Refunds)
         /\ v.wallet.earned = v.wallet.balance + v.wallet.spent + SumOf(v.lapsed, Batches)
         /\ v.wallet.balance \in Nat /\ v.wallet.earned \in Nat /\ v.wallet.spent \in Nat
         /\ v.wallet.refunded \in Nat /\ SumOf(v.lapsed, Batches) \in Nat
         /\ Active(v) \in SUBSET Batches /\ IsFiniteSet(Active(v))
         /\ \A b \in Batches : Left(v)[b] = v.batch[b].left /\ Left(v)[b] \in Nat
<1>1. v \in Rows /\ Exact(v) /\ Batches \subseteq Refs
  BY Kinds DEF Sound
<1>2. /\ v.wallet.balance = SumOf(Left(v), Active(v))
      /\ v.wallet.earned = SumOf(v.entry, Batches) /\ v.wallet.spent = SumOf(v.entry, Charges)
      /\ v.wallet.refunded = SumOf(v.entry, Refunds)
      /\ v.wallet.earned = v.wallet.balance + v.wallet.spent + SumOf(v.lapsed, Batches)
  BY <1>1, TotalIsSum DEF Exact
<1>3. Active(v) \in SUBSET Batches
  BY DEF Active
<1>4. IsFiniteSet(Active(v)) /\ IsFiniteSet(Batches)
  BY <1>1, <1>3, RefsFinite
<1>5. v.lapsed \in [Batches -> Nat]
  BY <1>1 DEF Rows
<1>6. SumOf(v.lapsed, Batches) \in Nat
  BY <1>4, <1>5, SumNat
<1>7. \A b \in Batches : Left(v)[b] = v.batch[b].left /\ Left(v)[b] \in Nat
  BY <1>1 DEF Left, Rows, BatchRows
<1>8. v.wallet \in Wallets
  BY <1>1 DEF Rows
<1>9. /\ v.wallet.balance \in Nat /\ v.wallet.earned \in Nat /\ v.wallet.spent \in Nat
      /\ v.wallet.refunded \in Nat
  BY <1>8 DEF Wallets
<1>10. QED
  BY <1>1, <1>2, <1>3, <1>4, <1>6, <1>7, <1>8, <1>9

\* ... and what makes them sound
LEMMA SumsSound ==
  ASSUME NEW w \in Rows, Marked(w),
         w.wallet.balance = SumOf(Left(w), Active(w)),
         w.wallet.earned = SumOf(w.entry, Batches), w.wallet.spent = SumOf(w.entry, Charges),
         w.wallet.refunded = SumOf(w.entry, Refunds),
         w.wallet.earned = w.wallet.balance + w.wallet.spent + SumOf(w.lapsed, Batches),
         \A o \in Operations : /\ Refunded(w, o) <= Gross(w, o)
                               /\ w.usage[o] = [gross |-> Gross(w, o), refunded |-> Refunded(w, o)]
  PROVE  Sound(w)
BY TotalIsSum DEF Sound, Exact

-----------------------------------------------------------------------------
(* What each kind of transaction does to sound books                       *)

\* Rows that leave the transactions alone leave their sums alone.
LEMMA SameEntries ==
  ASSUME NEW v \in Rows, NEW w \in Rows, \A r \in Refs : w.entry[r] = v.entry[r]
  PROVE  w.entry = v.entry /\ \A o : Gross(w, o) = Gross(v, o) /\ Refunded(w, o) = Refunded(v, o)
<1>1. w.entry = v.entry
  BY DEF Rows
<1>2. QED
  BY <1>1 DEF Gross, Refunded

LEMMA ExpiredRows ==
  ASSUME NEW v \in Rows, NEW now
  PROVE  \E due \in SUBSET Active(v) :
           /\ Expired(v, now).wallet = IF due = {} THEN None
                                       ELSE [v.wallet EXCEPT !.balance = Less(@, SumOf(Left(v), due))]
           /\ Expired(v, now).batch = [b \in due |-> [v.batch[b] EXCEPT !.status = "expired"]]
           /\ Expired(v, now).lapsed = [b \in due |-> v.lapsed[b] + v.batch[b].left]
           /\ Expired(v, now).entry = <<>> /\ Expired(v, now).usage = <<>>
<1> DEFINE due == {b \in Batches : /\ v.batch[b].status = "active" /\ v.batch[b].left > 0
                                   /\ v.batch[b].expires <= now}
<1>1. due \in SUBSET Active(v)
  BY DEF Active
<1>2. /\ Expired(v, now).wallet = IF due = {} THEN None
                                  ELSE [v.wallet EXCEPT !.balance = Less(@, Total(Left(v), due))]
      /\ Expired(v, now).batch = [b \in due |-> [v.batch[b] EXCEPT !.status = "expired"]]
      /\ Expired(v, now).lapsed = [b \in due |-> v.lapsed[b] + v.batch[b].left]
      /\ Expired(v, now).entry = <<>> /\ Expired(v, now).usage = <<>>
  BY DEF Expired, Nothing
<1>3. Total(Left(v), due) = SumOf(Left(v), due)
  BY TotalIsSum
<1> HIDE DEF due
<1>4. QED
  BY <1>1, <1>2, <1>3

\* Expiry moves what due batches hold from the balance to lapsed.
LEMMA ExpirySound ==
  ASSUME NEW v, Sound(v), NEW now, NEW rows, rows = Expired(v, now),
         NEW w, w = Overlay(rows, v)
  PROVE  /\ Sound(w) /\ Later(v, w) /\ w.wallet.frozen = v.wallet.frozen
         /\ DOMAIN rows.batch \subseteq Active(v)
<1>1. PICK due \in SUBSET Active(v) :
           /\ rows.wallet = IF due = {} THEN None
                            ELSE [v.wallet EXCEPT !.balance = Less(@, SumOf(Left(v), due))]
           /\ rows.batch = [b \in due |-> [v.batch[b] EXCEPT !.status = "expired"]]
           /\ rows.lapsed = [b \in due |-> v.lapsed[b] + v.batch[b].left]
           /\ rows.entry = <<>> /\ rows.usage = <<>>
  BY ExpiredRows DEF Sound
<1>2. /\ v \in Rows /\ v.wallet \in Wallets /\ Marked(v) /\ Exact(v)
      /\ v.batch \in [Batches -> BatchRows] /\ v.lapsed \in [Batches -> Nat]
  BY DEF Sound, Rows
<1>3. /\ due \in SUBSET Batches /\ IsFiniteSet(due) /\ IsFiniteSet(Active(v) \ due)
      /\ IsFiniteSet(Batches) /\ \A b \in due : v.batch[b].status = "active"
  BY SoundSums, FS_Subset, Kinds, RefsFinite DEF Active
<1>4. /\ SumOf(Left(v), due) + SumOf(Left(v), Active(v) \ due) = v.wallet.balance
      /\ SumOf(Left(v), due) \in Nat /\ SumOf(Left(v), Active(v) \ due) \in Nat
  <2>1. /\ v.wallet.balance = SumOf(Left(v), Active(v)) /\ IsFiniteSet(Active(v))
        /\ \A b \in Active(v) : Left(v)[b] \in Nat
    BY SoundSums
  <2>2. SumOf(Left(v), due) \in Nat /\ SumOf(Left(v), Active(v) \ due) \in Nat
    BY <1>3, <2>1, SumNat
  <2>3. SumOf(Left(v), due) + SumOf(Left(v), Active(v) \ due) = SumOf(Left(v), Active(v))
    BY <2>1, SumSubset
  <2>4. QED
    BY <2>1, <2>2, <2>3
<1>5. /\ v.wallet.balance \in Nat
      /\ Less(v.wallet.balance, SumOf(Left(v), due)) = SumOf(Left(v), Active(v) \ due)
  <2>1. \A m, n \in Nat : Less(m + n, m) = n
    BY DEF Less
  <2>2. QED
    BY <1>2, <1>4, <2>1 DEF Wallets
<1>0. /\ DOMAIN rows.batch = due /\ DOMAIN rows.lapsed = due
      /\ DOMAIN rows.entry = {} /\ DOMAIN rows.usage = {}
      /\ \A b \in due : /\ rows.batch[b] \in BatchRows /\ rows.batch[b].left = v.batch[b].left
                        /\ rows.batch[b].status = "expired"
                        /\ rows.lapsed[b] = v.lapsed[b] + v.batch[b].left /\ rows.lapsed[b] \in Nat
  <2>1. ASSUME NEW b \in due
        PROVE  /\ rows.batch[b] \in BatchRows /\ rows.batch[b].left = v.batch[b].left
               /\ rows.batch[b].status = "expired"
    <3>1. v.batch[b] \in BatchRows
      BY <1>2, <1>3
    <3>2. rows.batch[b] = [v.batch[b] EXCEPT !.status = "expired"]
      BY <1>1
    <3>3. QED
      BY <3>1, <3>2 DEF BatchRows
  <2>2. ASSUME NEW b \in due
        PROVE  rows.lapsed[b] = v.lapsed[b] + v.batch[b].left /\ rows.lapsed[b] \in Nat
    <3>1. v.batch[b].left \in Nat /\ v.lapsed[b] \in Nat
      BY <1>2, <1>3 DEF BatchRows
    <3>2. QED
      BY <1>1, <3>1
  <2>3. QED
    BY <1>1, <2>1, <2>2
<1>6. Part(rows)
  <2>1. rows.wallet \in Wallets \cup {None}
    BY <1>1, <1>2, <1>4, <1>5 DEF Wallets
  <2>2. DOMAIN rows.batch \subseteq Batches /\ \A b \in DOMAIN rows.batch : rows.batch[b] \in BatchRows
    BY <1>0, <1>3
  <2>3. DOMAIN rows.lapsed \subseteq Batches /\ \A b \in DOMAIN rows.lapsed : rows.lapsed[b] \in Nat
    BY <1>0, <1>3
  <2>4. QED
    BY <1>0, <2>1, <2>2, <2>3 DEF Part
<1>7. /\ w \in Rows
      /\ w.wallet = IF rows.wallet = None THEN v.wallet ELSE rows.wallet
      /\ \A b \in Batches : w.batch[b] = IF b \in due THEN rows.batch[b] ELSE v.batch[b]
      /\ \A r \in Refs : w.entry[r] = v.entry[r]
      /\ \A b \in Batches : w.lapsed[b] = IF b \in due THEN v.lapsed[b] + v.batch[b].left ELSE v.lapsed[b]
      /\ \A o \in Operations : w.usage[o] = v.usage[o]
  BY <1>0, <1>2, <1>6, Overlaid
<1>8. /\ w.wallet = [v.wallet EXCEPT !.balance = SumOf(Left(v), Active(v) \ due)]
  <2>1. CASE due = {}
    <3>1. rows.wallet = None
      BY <1>1, <2>1
    <3>2. SumOf(Left(v), due) = 0
      BY <2>1, SumEmpty
    <3>3. SumOf(Left(v), Active(v) \ due) = v.wallet.balance
      BY <1>4, <3>2
    <3>4. QED
      BY <1>2, <1>7, <3>1, <3>3 DEF Wallets
  <2>2. CASE due # {}
    <3>1. rows.wallet = [v.wallet EXCEPT !.balance = SumOf(Left(v), Active(v) \ due)]
      BY <1>1, <1>5, <2>2
    <3>2. rows.wallet \in Wallets
      BY <1>2, <1>4, <3>1 DEF Wallets
    <3>3. QED
      BY <1>7, <3>1, <3>2, RefsAssumption
  <2>3. QED
    BY <2>1, <2>2
<1>9. /\ w.wallet.balance = SumOf(Left(v), Active(v) \ due) /\ w.wallet.earned = v.wallet.earned
      /\ w.wallet.spent = v.wallet.spent /\ w.wallet.refunded = v.wallet.refunded
      /\ w.wallet.frozen = v.wallet.frozen
  BY <1>2, <1>8 DEF Wallets
<1>10. Active(w) = Active(v) \ due /\ \A b \in Batches : w.batch[b].left = v.batch[b].left
  BY <1>0, <1>2, <1>3, <1>7 DEF Active
<1>11. w.wallet.balance = SumOf(Left(w), Active(w))
  <2>1. \A b \in Active(w) : Left(v)[b] \in Nat /\ Left(w)[b] = Left(v)[b]
    BY <1>2, <1>10 DEF Active, Left, BatchRows
  <2>2. SumOf(Left(w), Active(w)) = SumOf(Left(v), Active(w))
    BY <1>3, <1>10, <2>1, SumSame
  <2>3. QED
    BY <1>9, <1>10, <2>2
<1>12. SumOf(w.lapsed, Batches) = SumOf(v.lapsed, Batches) + SumOf(Left(v), due)
  <2>1. \A b \in Batches : v.lapsed[b] \in Nat /\ w.lapsed[b] \in Nat
    BY <1>2, <1>7 DEF Rows
  <2>2. \A b \in due : Left(v)[b] \in Nat /\ w.lapsed[b] = v.lapsed[b] + Left(v)[b]
    BY <1>3, <1>7, SoundSums
  <2>3. \A b \in Batches \ due : w.lapsed[b] = v.lapsed[b]
    BY <1>7
  <2>4. QED
    BY <1>3, <2>1, <2>2, <2>3, SumPlusOn
<1>13. w.entry = v.entry /\ \A o : Gross(w, o) = Gross(v, o) /\ Refunded(w, o) = Refunded(v, o)
  BY <1>2, <1>7, SameEntries
<1>14. Marked(w)
  <2>1. ASSUME NEW b \in Batches
        PROVE  /\ w.batch[b].status = "none" => w.entry[b] = 0
               /\ w.lapsed[b] > 0 => w.batch[b].status = "expired"
    BY <1>0, <1>2, <1>7, <1>13 DEF Marked
  <2>2. QED
    BY <2>1 DEF Marked
<1>15. w.wallet.earned = w.wallet.balance + w.wallet.spent + SumOf(w.lapsed, Batches)
  <2>1. \A a, b, c, d \in Nat : (a + b) + c + d = b + c + (d + a)
    OBVIOUS
  <2>2. /\ v.wallet.earned = v.wallet.balance + v.wallet.spent + SumOf(v.lapsed, Batches)
        /\ v.wallet.spent \in Nat /\ SumOf(v.lapsed, Batches) \in Nat
    BY SoundSums
  <2>3. QED
    BY <1>4, <1>9, <1>12, <2>1, <2>2
<1>16. Sound(w)
  <2>1. /\ w.wallet.earned = SumOf(w.entry, Batches) /\ w.wallet.spent = SumOf(w.entry, Charges)
        /\ w.wallet.refunded = SumOf(w.entry, Refunds)
    BY <1>9, <1>13, SoundSums
  <2>2. \A o \in Operations : /\ Refunded(w, o) <= Gross(w, o)
                              /\ w.usage[o] = [gross |-> Gross(w, o), refunded |-> Refunded(w, o)]
    BY <1>2, <1>7, <1>13 DEF Exact
  <2>3. QED
    BY <1>7, <1>11, <1>14, <1>15, <2>1, <2>2, SumsSound
<1>17. Later(v, w)
  BY <1>2, <1>3, <1>7, <1>9, <1>13 DEF Later, Marked
<1>18. QED
  BY <1>1, <1>9, <1>16, <1>17

\* w has one more transaction row than v, of k with d.
OneMore(v, w, k, d) ==
  /\ \A r \in Refs \ {k} : w.entry[r] = v.entry[r]
  /\ w.entry[k] = v.entry[k] + d

\* It adds to the sums that k is in
LEMMA EntryGrows ==
  ASSUME NEW v \in Rows, NEW w \in Rows, NEW k \in Refs, NEW d \in Nat, OneMore(v, w, k, d),
         NEW S \in SUBSET Refs
  PROVE  /\ k \in S => SumOf(w.entry, S) = SumOf(v.entry, S) + d
         /\ k \notin S => SumOf(w.entry, S) = SumOf(v.entry, S)
<1>1. IsFiniteSet(S)
  BY RefsFinite
<1>2. \A r \in S : v.entry[r] \in Nat
  BY DEF Rows
<1>3. \A r \in S \ {k} : w.entry[r] = v.entry[r]
  BY DEF OneMore
<1>4. k \in S => w.entry[k] = v.entry[k] + d
  BY DEF OneMore
<1>5. QED
  BY <1>1, <1>2, <1>3, <1>4, SumBump

LEMMA OperationSums ==
  ASSUME NEW v \in Rows, NEW o
  PROVE  Gross(v, o) \in Nat /\ Refunded(v, o) \in Nat
<1> DEFINE C == {r \in Charges : Operation[r] = o}
           R == {r \in Refunds : Operation[r] = o}
<1>1. C \in SUBSET Refs /\ R \in SUBSET Refs
  BY Kinds
<1>2. Gross(v, o) = SumOf(v.entry, C) /\ Refunded(v, o) = SumOf(v.entry, R)
  BY TotalIsSum DEF Gross, Refunded
<1> HIDE DEF C, R
<1>3. (\A r \in C : v.entry[r] \in Nat) /\ \A r \in R : v.entry[r] \in Nat
  BY <1>1 DEF Rows
<1>4. IsFiniteSet(C) /\ IsFiniteSet(R)
  BY <1>1, RefsFinite
<1>5. QED
  BY <1>2, <1>3, <1>4, SumNat

\* ... and to the operation of k alone.
LEMMA OperationGrows ==
  ASSUME NEW v \in Rows, NEW w \in Rows, NEW k \in Refs, NEW d \in Nat, OneMore(v, w, k, d),
         NEW o
  PROVE  /\ k \in Charges /\ Operation[k] = o => Gross(w, o) = Gross(v, o) + d
         /\ ~ (k \in Charges /\ Operation[k] = o) => Gross(w, o) = Gross(v, o)
         /\ k \in Refunds /\ Operation[k] = o => Refunded(w, o) = Refunded(v, o) + d
         /\ ~ (k \in Refunds /\ Operation[k] = o) => Refunded(w, o) = Refunded(v, o)
<1> DEFINE C == {r \in Charges : Operation[r] = o}
           R == {r \in Refunds : Operation[r] = o}
<1>1. C \in SUBSET Refs /\ R \in SUBSET Refs
  BY Kinds
<1>2. /\ Gross(v, o) = SumOf(v.entry, C) /\ Refunded(v, o) = SumOf(v.entry, R)
      /\ Gross(w, o) = SumOf(w.entry, C) /\ Refunded(w, o) = SumOf(w.entry, R)
  BY TotalIsSum DEF Gross, Refunded
<1>3. /\ k \in C <=> (k \in Charges /\ Operation[k] = o)
      /\ k \in R <=> (k \in Refunds /\ Operation[k] = o)
  OBVIOUS
<1> HIDE DEF C, R
<1>4. /\ k \in C => SumOf(w.entry, C) = SumOf(v.entry, C) + d
      /\ k \notin C => SumOf(w.entry, C) = SumOf(v.entry, C)
  BY <1>1, EntryGrows
<1>5. /\ k \in R => SumOf(w.entry, R) = SumOf(v.entry, R) + d
      /\ k \notin R => SumOf(w.entry, R) = SumOf(v.entry, R)
  BY <1>1, EntryGrows
<1>6. QED
  BY <1>2, <1>3, <1>4, <1>5

\* A new batch, its transaction, its wallet and, for a refund, its operation
LEMMA GrantSound ==
  ASSUME NEW v, Sound(v), NEW b \in Batches, v.batch[b].status = "none",
         b \in Refunds => Refunded(v, Operation[b]) + Amount[b] <= Gross(v, Operation[b]),
         NEW row \in BatchRows, row.left = Amount[b], row.status = "active",
         NEW rows, rows.wallet = Credited(v, b), rows.batch = Row(b, row),
         rows.entry = Row(b, v.entry[b] + Amount[b]), rows.lapsed = <<>>,
         rows.usage = IF b \notin Refunds THEN <<>>
                      ELSE Row(Operation[b], [gross |-> Gross(v, Operation[b]),
                                              refunded |-> Refunded(v, Operation[b]) + Amount[b]]),
         NEW w, w = Overlay(rows, v)
  PROVE  Sound(w) /\ Later(v, w) /\ w.wallet.frozen = v.wallet.frozen
<1> DEFINE a == Amount[b]
           x == Operation[b]
<1>1. /\ v \in Rows /\ v.wallet \in Wallets /\ Marked(v) /\ Exact(v)
      /\ v.batch \in [Batches -> BatchRows] /\ v.entry \in [Refs -> Nat] /\ v.lapsed \in [Batches -> Nat]
  BY DEF Sound, Rows
<1>2. /\ b \in Refs /\ a \in Nat /\ v.entry[b] = 0 /\ b \notin Charges
      /\ b \in Refunds => x \in Operations
  BY <1>1, Kinds, KindsAssumption DEF Marked
<1>3. /\ rows.wallet \in Wallets /\ rows.wallet.frozen = v.wallet.frozen
      /\ rows.wallet.balance = v.wallet.balance + a /\ rows.wallet.earned = v.wallet.earned + a
      /\ rows.wallet.spent = v.wallet.spent
      /\ b \in Refunds => rows.wallet.refunded = v.wallet.refunded + a
      /\ b \notin Refunds => rows.wallet.refunded = v.wallet.refunded
  <2> DEFINE n == IF b \in Refunds THEN v.wallet.refunded + a ELSE v.wallet.refunded
  <2>1. v.wallet = [balance |-> v.wallet.balance, earned |-> v.wallet.earned, spent |-> v.wallet.spent,
                    refunded |-> v.wallet.refunded, frozen |-> v.wallet.frozen]
    BY <1>1 DEF Wallets
  <2>2. v.wallet.balance \in Nat /\ v.wallet.earned \in Nat /\ v.wallet.spent \in Nat
        /\ v.wallet.refunded \in Nat /\ v.wallet.frozen \in BOOLEAN /\ n \in Nat
    BY <1>1, <1>2 DEF Wallets
  <2>3. rows.wallet = [balance |-> v.wallet.balance + a, earned |-> v.wallet.earned + a,
                       spent |-> v.wallet.spent, refunded |-> n, frozen |-> v.wallet.frozen]
    BY <2>1 DEF Credited
  <2>4. QED
    BY <1>2, <2>1, <2>2, <2>3 DEF Wallets
<1>4. Gross(v, x) \in Nat /\ Refunded(v, x) \in Nat
  BY <1>1, OperationSums
<1>5. Part(rows)
  <2>1. DOMAIN rows.batch = {b} /\ rows.batch[b] \in BatchRows
    BY DEF Row
  <2>2. DOMAIN rows.entry = {b} /\ rows.entry[b] \in Nat
    BY <1>1, <1>2 DEF Row
  <2>3. DOMAIN rows.lapsed = {}
    OBVIOUS
  <2>4. /\ DOMAIN rows.usage \subseteq Operations
        /\ \A o \in DOMAIN rows.usage : rows.usage[o] \in [gross : Nat, refunded : Nat]
    <3>1. CASE b \notin Refunds
      BY <3>1
    <3>2. CASE b \in Refunds
      <4>1. rows.usage = Row(x, [gross |-> Gross(v, x), refunded |-> Refunded(v, x) + a])
        BY <3>2
      <4>2. [gross |-> Gross(v, x), refunded |-> Refunded(v, x) + a] \in [gross : Nat, refunded : Nat]
        BY <1>2, <1>4
      <4>3. QED
        BY <1>2, <3>2, <4>1, <4>2 DEF Row
    <3>3. QED
      BY <3>1, <3>2
  <2>5. QED
    BY <1>2, <1>3, <2>1, <2>2, <2>3, <2>4 DEF Part
<1>6. /\ w \in Rows /\ w.wallet = rows.wallet
      /\ \A c \in Batches : w.batch[c] = IF c = b THEN row ELSE v.batch[c]
      /\ OneMore(v, w, b, a)
      /\ \A c \in Batches : w.lapsed[c] = v.lapsed[c]
      /\ \A o \in Operations : w.usage[o] = IF b \in Refunds /\ o = x
                                            THEN [gross |-> Gross(v, x), refunded |-> Refunded(v, x) + a]
                                            ELSE v.usage[o]
  <2>1. /\ DOMAIN rows.batch = {b} /\ rows.batch[b] = row /\ DOMAIN rows.lapsed = {}
        /\ DOMAIN rows.entry = {b} /\ rows.entry[b] = v.entry[b] + a
        /\ b \notin Refunds => DOMAIN rows.usage = {}
        /\ b \in Refunds => /\ DOMAIN rows.usage = {x}
                            /\ rows.usage[x] = [gross |-> Gross(v, x), refunded |-> Refunded(v, x) + a]
    BY DEF Row
  <2>2. rows.wallet # None
    BY <1>3, RefsAssumption
  <2>3. QED
    BY <1>1, <1>2, <1>5, <2>1, <2>2, Overlaid DEF OneMore
<1>7. /\ w.wallet.earned = SumOf(w.entry, Batches) /\ w.wallet.spent = SumOf(w.entry, Charges)
      /\ w.wallet.refunded = SumOf(w.entry, Refunds)
  <2>1. /\ SumOf(w.entry, Batches) = SumOf(v.entry, Batches) + a
        /\ SumOf(w.entry, Charges) = SumOf(v.entry, Charges)
        /\ b \in Refunds => SumOf(w.entry, Refunds) = SumOf(v.entry, Refunds) + a
        /\ b \notin Refunds => SumOf(w.entry, Refunds) = SumOf(v.entry, Refunds)
    <3>1. Batches \in SUBSET Refs /\ Charges \in SUBSET Refs /\ Refunds \in SUBSET Refs
      BY Kinds
    <3>2. QED
      BY <1>1, <1>2, <1>6, <3>1, EntryGrows
  <2>2. QED
    BY <1>3, <1>6, <2>1, SoundSums
<1>8. /\ w.wallet.balance = SumOf(Left(w), Active(w))
  <2>1. Active(w) = Active(v) \cup {b} /\ b \notin Active(v)
    BY <1>6 DEF Active
  <2>2. /\ \A c \in Active(v) \cup {b} : Left(w)[c] \in Nat
        /\ \A c \in Active(v) : Left(v)[c] \in Nat /\ Left(w)[c] = Left(v)[c]
        /\ Left(w)[b] = a
    <3>1. Left(w)[b] = a
      BY <1>6 DEF Left
    <3>2. ASSUME NEW c \in Active(v)
          PROVE  Left(v)[c] \in Nat /\ Left(w)[c] = Left(v)[c]
      <4>1. c \in Batches /\ c # b
        BY <2>1 DEF Active
      <4>2. w.batch[c] = v.batch[c] /\ v.batch[c].left \in Nat
        BY <1>1, <1>6, <4>1 DEF BatchRows
      <4>3. QED
        BY <4>1, <4>2 DEF Left
    <3>3. QED
      BY <1>2, <3>1, <3>2
  <2>3. SumOf(Left(w), Active(v) \cup {b}) = Left(w)[b] + SumOf(Left(w), Active(v))
    <3>1. IsFiniteSet(Active(v))
      BY SoundSums
    <3>2. QED
      BY <2>1, <2>2, <3>1, SumAdd
  <2>4. SumOf(Left(w), Active(v)) = SumOf(Left(v), Active(v))
    BY <2>2, SumSame, SoundSums
  <2>5. SumOf(Left(v), Active(v)) = v.wallet.balance /\ v.wallet.balance \in Nat
    BY SoundSums
  <2>6. QED
    BY <1>2, <1>3, <1>6, <2>1, <2>2, <2>3, <2>4, <2>5
<1>9. w.wallet.earned = w.wallet.balance + w.wallet.spent + SumOf(w.lapsed, Batches)
  <2>1. w.lapsed = v.lapsed
    BY <1>1, <1>6 DEF Rows
  <2>2. /\ v.wallet.earned = v.wallet.balance + v.wallet.spent + SumOf(v.lapsed, Batches)
        /\ v.wallet.balance \in Nat /\ v.wallet.spent \in Nat /\ SumOf(v.lapsed, Batches) \in Nat
    BY SoundSums
  <2>3. w.wallet.earned = v.wallet.earned + a /\ w.wallet.balance = v.wallet.balance + a
        /\ w.wallet.spent = v.wallet.spent
    BY <1>3, <1>6
  <2>4. \A i, j, k, l \in Nat : (i + j + k) + l = (i + l) + j + k
    OBVIOUS
  <2> HIDE DEF a
  <2>5. QED
    BY <1>2, <2>1, <2>2, <2>3, <2>4
<1>10. ASSUME NEW o \in Operations
       PROVE  /\ Refunded(w, o) <= Gross(w, o)
              /\ w.usage[o] = [gross |-> Gross(w, o), refunded |-> Refunded(w, o)]
  <2>1. /\ Gross(w, o) = Gross(v, o)
        /\ b \in Refunds /\ x = o => Refunded(w, o) = Refunded(v, o) + a
        /\ ~ (b \in Refunds /\ x = o) => Refunded(w, o) = Refunded(v, o)
    BY <1>1, <1>2, <1>6, OperationGrows
  <2>2. /\ Refunded(v, o) <= Gross(v, o)
        /\ v.usage[o] = [gross |-> Gross(v, o), refunded |-> Refunded(v, o)]
    BY <1>1 DEF Exact
  <2>3. CASE b \in Refunds /\ x = o
    BY <1>6, <2>1, <2>3
  <2>4. CASE ~ (b \in Refunds /\ x = o)
    BY <1>6, <2>1, <2>2, <2>4
  <2>5. QED
    BY <2>3, <2>4
<1>11. Marked(w)
  <2>1. ASSUME NEW c \in Batches
        PROVE  /\ w.batch[c].status = "none" => w.entry[c] = 0
               /\ w.lapsed[c] > 0 => w.batch[c].status = "expired"
    BY <1>1, <1>2, <1>6, Kinds DEF Marked, OneMore
  <2>2. QED
    BY <2>1 DEF Marked
<1>12. Sound(w)
  BY <1>6, <1>7, <1>8, <1>9, <1>10, <1>11, SumsSound
<1>13. Later(v, w)
  BY <1>2, <1>3, <1>6 DEF Later, OneMore
<1>14. QED
  BY <1>3, <1>6, <1>12, <1>13

\* No batch gives more than it holds, and only open ones give.
LEMMA TakenBounds ==
  ASSUME NEW v \in Rows, NEW now, NEW amount \in Nat, NEW taken, taken = Taken(v, now, amount)
  PROVE  /\ DOMAIN taken \in SUBSET Active(v)
         /\ \A b \in DOMAIN taken : taken[b] \in Nat /\ taken[b] <= v.batch[b].left
<1>1. DOMAIN taken \in SUBSET Active(v) /\ DOMAIN taken \in SUBSET Batches
  BY DEF Taken, Usable, Active
<1>2. ASSUME NEW b \in DOMAIN taken
      PROVE  taken[b] \in Nat /\ taken[b] <= v.batch[b].left
  <2> DEFINE earlier == {c \in Usable(v, now) : Before(v, c, b)}
  <2>1. taken[b] = Smaller(v.batch[b].left, Less(amount, SumOf(Left(v), earlier)))
    BY TotalIsSum DEF Taken
  <2>2. earlier \in SUBSET Refs /\ \A c \in earlier : Left(v)[c] \in Nat
    BY Kinds DEF Usable, Left, Rows, BatchRows
  <2> HIDE DEF earlier
  <2>3. SumOf(Left(v), earlier) \in Nat
    BY <2>2, RefsFinite, SumNat
  <2>4. v.batch[b].left \in Nat
    BY <1>1 DEF Rows, BatchRows
  <2>5. \A m, n, k \in Nat : Smaller(m, Less(n, k)) \in Nat /\ Smaller(m, Less(n, k)) <= m
    BY DEF Smaller, Less
  <2>6. QED
    BY <2>1, <2>3, <2>4, <2>5
<1>3. QED
  BY <1>1, <1>2

\* A charge takes its amount from open batches and closes those it empties.
LEMMA ChargeSound ==
  ASSUME NEW v, Sound(v), NEW r \in Charges, v.entry[r] = 0, ~ v.wallet.frozen,
         v.wallet.balance >= Amount[r],
         NEW taken, DOMAIN taken \in SUBSET Active(v),
         \A b \in DOMAIN taken : taken[b] \in Nat /\ taken[b] <= v.batch[b].left,
         SumOf(taken, DOMAIN taken) = Amount[r],
         NEW rows, rows = Charged(v, r, taken), NEW w, w = Overlay(rows, v)
  PROVE  Sound(w) /\ Later(v, w) /\ DOMAIN rows.batch \subseteq Active(v)
<1> DEFINE a == Amount[r]
           x == Operation[r]
           used == {b \in DOMAIN taken : taken[b] > 0}
<1>1. /\ v \in Rows /\ v.wallet \in Wallets /\ Marked(v) /\ Exact(v)
      /\ v.batch \in [Batches -> BatchRows] /\ v.entry \in [Refs -> Nat] /\ v.lapsed \in [Batches -> Nat]
  BY DEF Sound, Rows
<1>2. /\ r \in Refs /\ a \in Nat /\ r \notin Batches /\ r \notin Refunds /\ x \in Operations
  BY Kinds, KindsAssumption
<1>3. /\ used \subseteq DOMAIN taken /\ DOMAIN taken \subseteq Active(v) /\ Active(v) \subseteq Batches
      /\ \A b \in Active(v) : v.batch[b].status = "active"
      /\ \A b \in DOMAIN taken \ used : taken[b] = 0
  BY DEF Active
<1>4. /\ rows.wallet = [v.wallet EXCEPT !.balance = @ - a, !.spent = @ + a]
      /\ rows.entry = Row(r, v.entry[r] + a) /\ rows.lapsed = <<>>
      /\ rows.usage = Row(x, [gross |-> Gross(v, x) + a, refunded |-> Refunded(v, x)])
  BY DEF Charged
<1>4a. rows.batch = [b \in used |->
                       [v.batch[b] EXCEPT !.left = @ - taken[b],
                                          !.status = IF taken[b] = v.batch[b].left THEN "consumed" ELSE @]]
  BY DEF Charged
<1>4b. DOMAIN rows.batch = used
  BY <1>4a
<1> HIDE DEF used
<1>5. /\ rows.wallet \in Wallets /\ rows.wallet.frozen = v.wallet.frozen
      /\ rows.wallet.balance = v.wallet.balance - a /\ rows.wallet.earned = v.wallet.earned
      /\ rows.wallet.spent = v.wallet.spent + a /\ rows.wallet.refunded = v.wallet.refunded
      /\ v.wallet.balance - a \in Nat
  <2>1. v.wallet = [balance |-> v.wallet.balance, earned |-> v.wallet.earned, spent |-> v.wallet.spent,
                    refunded |-> v.wallet.refunded, frozen |-> v.wallet.frozen]
    BY <1>1 DEF Wallets
  <2>2. v.wallet.balance \in Nat /\ v.wallet.earned \in Nat /\ v.wallet.spent \in Nat
        /\ v.wallet.refunded \in Nat /\ v.wallet.frozen \in BOOLEAN
    BY <1>1 DEF Wallets
  <2>3. rows.wallet = [balance |-> v.wallet.balance - a, earned |-> v.wallet.earned,
                       spent |-> v.wallet.spent + a, refunded |-> v.wallet.refunded,
                       frozen |-> v.wallet.frozen]
    BY <1>4, <2>1
  <2>4. v.wallet.balance - a \in Nat
    BY <1>2, <2>2
  <2>5. QED
    BY <1>2, <2>2, <2>3, <2>4 DEF Wallets
<1>6. ASSUME NEW b \in used
      PROVE  /\ rows.batch[b] \in BatchRows /\ rows.batch[b].left + taken[b] = v.batch[b].left
             /\ taken[b] = v.batch[b].left => rows.batch[b].status = "consumed"
             /\ taken[b] # v.batch[b].left => rows.batch[b].status = "active"
  <2>1. v.batch[b] \in BatchRows /\ v.batch[b].status = "active"
    BY <1>1, <1>3
  <2>2. v.batch[b] = [left |-> v.batch[b].left, status |-> v.batch[b].status,
                      issued |-> v.batch[b].issued, expires |-> v.batch[b].expires]
    BY <2>1 DEF BatchRows
  <2>3. v.batch[b].left \in Nat /\ v.batch[b].issued \in Nat /\ v.batch[b].expires \in Nat
        /\ taken[b] \in Nat /\ taken[b] <= v.batch[b].left
    BY <1>3, <2>1 DEF BatchRows
  <2>4. rows.batch[b] = [left |-> v.batch[b].left - taken[b],
                         status |-> IF taken[b] = v.batch[b].left THEN "consumed" ELSE v.batch[b].status,
                         issued |-> v.batch[b].issued, expires |-> v.batch[b].expires]
    <3>1. rows.batch[b] = [v.batch[b] EXCEPT !.left = @ - taken[b],
                             !.status = IF taken[b] = v.batch[b].left THEN "consumed" ELSE @]
      BY <1>4a
    <3>2. QED
      BY <2>2, <3>1
  <2>5. v.batch[b].left - taken[b] \in Nat /\ (v.batch[b].left - taken[b]) + taken[b] = v.batch[b].left
    BY <2>3
  <2>6. QED
    BY <2>1, <2>3, <2>4, <2>5 DEF BatchRows
<1>7. Part(rows)
  <2>1. DOMAIN rows.batch = used /\ \A b \in used : rows.batch[b] \in BatchRows
    BY <1>6, <1>4b
  <2>2. DOMAIN rows.entry = {r} /\ rows.entry[r] \in Nat
    BY <1>1, <1>2, <1>4 DEF Row
  <2>3. DOMAIN rows.lapsed = {}
    BY <1>4
  <2>4. DOMAIN rows.usage = {x} /\ rows.usage[x] \in [gross : Nat, refunded : Nat]
    BY <1>1, <1>2, <1>4, OperationSums DEF Row
  <2>5. QED
    BY <1>2, <1>3, <1>5, <2>1, <2>2, <2>3, <2>4 DEF Part
<1>8. /\ w \in Rows /\ w.wallet = rows.wallet
      /\ \A b \in Batches : w.batch[b] = IF b \in used THEN rows.batch[b] ELSE v.batch[b]
      /\ OneMore(v, w, r, a)
      /\ \A b \in Batches : w.lapsed[b] = v.lapsed[b]
      /\ \A o \in Operations : w.usage[o] = IF o = x THEN [gross |-> Gross(v, x) + a, refunded |-> Refunded(v, x)]
                                            ELSE v.usage[o]
  <2>1. /\ DOMAIN rows.batch = used /\ DOMAIN rows.lapsed = {}
        /\ DOMAIN rows.entry = {r} /\ rows.entry[r] = v.entry[r] + a
        /\ DOMAIN rows.usage = {x}
        /\ rows.usage[x] = [gross |-> Gross(v, x) + a, refunded |-> Refunded(v, x)]
    BY <1>4, <1>4b DEF Row
  <2>2. rows.wallet # None
    BY <1>5, RefsAssumption
  <2>3. QED
    BY <1>1, <1>2, <1>7, <2>1, <2>2, Overlaid DEF OneMore
<1>9. /\ w.wallet.earned = SumOf(w.entry, Batches) /\ w.wallet.spent = SumOf(w.entry, Charges)
      /\ w.wallet.refunded = SumOf(w.entry, Refunds)
  <2>1. Batches \in SUBSET Refs /\ Charges \in SUBSET Refs /\ Refunds \in SUBSET Refs
    BY Kinds
  <2>2. /\ SumOf(w.entry, Batches) = SumOf(v.entry, Batches)
        /\ SumOf(w.entry, Charges) = SumOf(v.entry, Charges) + a
        /\ SumOf(w.entry, Refunds) = SumOf(v.entry, Refunds)
    BY <1>1, <1>2, <1>8, <2>1, EntryGrows
  <2>3. QED
    BY <1>5, <1>8, <2>2, SoundSums
<1>10. w.wallet.balance = SumOf(Left(w), Active(w))
  <2>1. /\ IsFiniteSet(Active(v)) /\ v.wallet.balance = SumOf(Left(v), Active(v))
    BY SoundSums
  <2>2. /\ Active(w) \in SUBSET Active(v)
        /\ \A b \in Active(v) \ Active(w) : Left(w)[b] = 0
    <3>1. ASSUME NEW b \in Batches
          PROVE  /\ b \in Active(w) => b \in Active(v)
                 /\ b \in Active(v) \ Active(w) => Left(w)[b] = 0
      <4>1. CASE b \notin used
        BY <1>8, <4>1 DEF Active
      <4>2. CASE b \in used
        <5>1. w.batch[b] = rows.batch[b] /\ b \in Active(v)
          BY <1>3, <1>8, <4>2
        <5>2. rows.batch[b].left \in Nat /\ taken[b] \in Nat
          BY <1>3, <1>6, <4>2 DEF BatchRows
        <5>3. taken[b] = v.batch[b].left => rows.batch[b].left = 0
          BY <1>6, <4>2, <5>2
        <5>4. QED
          BY <1>6, <4>2, <5>1, <5>3 DEF Active, Left
      <4>3. QED
        BY <4>1, <4>2
    <3>2. Active(w) \subseteq Batches
      BY DEF Active
    <3>3. QED
      BY <1>3, <3>1, <3>2
  <2>3. \A b \in Active(v) : Left(w)[b] \in Nat /\ Left(v)[b] \in Nat
    BY <1>1, <1>3, <1>8 DEF Left, Rows, BatchRows
  <2>4. ASSUME NEW b \in DOMAIN taken
        PROVE  taken[b] \in Nat /\ Left(v)[b] = Left(w)[b] + taken[b]
    <3>1. b \in Batches /\ taken[b] \in Nat
      BY <1>3
    <3>2. CASE b \in used
      BY <1>6, <1>8, <3>1, <3>2 DEF Left
    <3>3. CASE b \notin used
      <4>1. taken[b] = 0 /\ w.batch[b] = v.batch[b] /\ v.batch[b].left \in Nat
        BY <1>1, <1>3, <1>8, <3>1, <3>3 DEF BatchRows
      <4>2. QED
        BY <3>1, <4>1 DEF Left
    <3>4. QED
      BY <3>1, <3>2, <3>3
  <2>5. \A b \in Active(v) \ DOMAIN taken : Left(v)[b] = Left(w)[b]
    BY <1>3, <1>8 DEF Left
  <2>6. SumOf(Left(v), Active(v)) = SumOf(Left(w), Active(v)) + SumOf(taken, DOMAIN taken)
    BY <2>1, <2>3, <2>4, <2>5, SumPlusOn
  <2>7. SumOf(Left(w), Active(w)) + SumOf(Left(w), Active(v) \ Active(w)) = SumOf(Left(w), Active(v))
    BY <2>1, <2>2, <2>3, SumSubset
  <2>8. SumOf(Left(w), Active(v) \ Active(w)) = 0
    <3>1. IsFiniteSet(Active(v) \ Active(w))
      BY <2>1, FS_Subset
    <3>2. QED
      BY <2>2, <3>1, SumZero
  <2>9. SumOf(Left(w), Active(w)) \in Nat
    <3>1. IsFiniteSet(Active(w)) /\ \A b \in Active(w) : Left(w)[b] \in Nat
      BY <2>1, <2>2, <2>3, FS_Subset
    <3>2. QED
      BY <3>1, SumNat
  <2>10. v.wallet.balance = SumOf(Left(w), Active(w)) + a
    BY <2>1, <2>6, <2>7, <2>8, <2>9
  <2>11. QED
    BY <1>2, <1>5, <1>8, <2>9, <2>10
<1>11. w.wallet.earned = w.wallet.balance + w.wallet.spent + SumOf(w.lapsed, Batches)
  <2>1. w.lapsed = v.lapsed
    BY <1>1, <1>8 DEF Rows
  <2>2. /\ v.wallet.earned = v.wallet.balance + v.wallet.spent + SumOf(v.lapsed, Batches)
        /\ v.wallet.balance \in Nat /\ v.wallet.spent \in Nat /\ SumOf(v.lapsed, Batches) \in Nat
    BY SoundSums
  <2>3. w.wallet.earned = v.wallet.earned /\ w.wallet.balance = v.wallet.balance - a
        /\ w.wallet.spent = v.wallet.spent + a
    BY <1>5, <1>8
  <2>4. \A i, j, k, l \in Nat : (i + j + k) = (i - l) + (j + l) + k
    OBVIOUS
  <2> HIDE DEF a
  <2>5. QED
    BY <1>2, <2>1, <2>2, <2>3, <2>4
<1>12. ASSUME NEW o \in Operations
       PROVE  /\ Refunded(w, o) <= Gross(w, o)
              /\ w.usage[o] = [gross |-> Gross(w, o), refunded |-> Refunded(w, o)]
  <2>1. /\ Refunded(w, o) = Refunded(v, o)
        /\ x = o => Gross(w, o) = Gross(v, o) + a
        /\ x # o => Gross(w, o) = Gross(v, o)
    BY <1>1, <1>2, <1>8, OperationGrows
  <2>2. /\ Refunded(v, o) <= Gross(v, o) /\ Refunded(v, o) \in Nat /\ Gross(v, o) \in Nat
        /\ v.usage[o] = [gross |-> Gross(v, o), refunded |-> Refunded(v, o)]
    BY <1>1, OperationSums DEF Exact
  <2>3. CASE x = o
    BY <1>2, <1>8, <2>1, <2>2, <2>3
  <2>4. CASE x # o
    BY <1>8, <2>1, <2>2, <2>4
  <2>5. QED
    BY <2>3, <2>4
<1>13. Marked(w)
  <2>1. ASSUME NEW b \in Batches
        PROVE  /\ w.batch[b].status = "none" => w.entry[b] = 0
               /\ w.lapsed[b] > 0 => w.batch[b].status = "expired"
    <3>1. w.entry[b] = v.entry[b] /\ w.lapsed[b] = v.lapsed[b]
      BY <1>2, <1>8, Kinds DEF OneMore
    <3>2. CASE b \notin used
      BY <1>1, <1>8, <3>1, <3>2 DEF Marked
    <3>3. CASE b \in used
      <4>1. w.batch[b].status # "none" /\ v.batch[b].status = "active"
        BY <1>3, <1>6, <1>8, <3>3
      <4>2. QED
        BY <1>1, <3>1, <4>1 DEF Marked
    <3>4. QED
      BY <3>2, <3>3
  <2>2. QED
    BY <2>1 DEF Marked
<1>14. Sound(w)
  BY <1>8, <1>9, <1>10, <1>11, <1>12, <1>13, SumsSound
<1>15. Later(v, w)
  <2>1. \A q \in Refs : v.entry[q] > 0 => w.entry[q] = v.entry[q]
    BY <1>8 DEF OneMore
  <2>2. \A b \in Batches : v.batch[b].status \in {"expired", "consumed"} => w.batch[b] = v.batch[b]
    BY <1>3, <1>8
  <2>3. QED
    BY <1>8, <2>1, <2>2 DEF Later
<1>16. QED
  BY <1>3, <1>14, <1>15, <1>4b

LEMMA LaterItself ==
  ASSUME NEW v
  PROVE  Later(v, v)
BY DEF Later

LEMMA LaterLater ==
  ASSUME NEW u, NEW v, NEW w, Later(u, v), Later(v, w), v.wallet.frozen = u.wallet.frozen
  PROVE  Later(u, w)
<1>1. \A r \in Refs : u.entry[r] > 0 => w.entry[r] = u.entry[r]
  BY DEF Later
<1>2. \A b \in Batches : u.batch[b].status \in {"expired", "consumed"} => w.batch[b] = u.batch[b]
  BY DEF Later
<1>3. \A b \in Batches : u.lapsed[b] > 0 => w.lapsed[b] = u.lapsed[b]
  BY DEF Later
<1>4. u.wallet.frozen => w.wallet.spent = u.wallet.spent
  BY DEF Later
<1>5. QED
  BY <1>1, <1>2, <1>3, <1>4 DEF Later

\* Rows that change neither what batches hold nor which are open, nor what
\* the wallet says but its status, keep the books as they are.
LEMMA BooksKept ==
  ASSUME NEW v, Sound(v), NEW w \in Rows, w.entry = v.entry, w.lapsed = v.lapsed, w.usage = v.usage,
         \A b \in Batches : /\ w.batch[b].left = v.batch[b].left
                            /\ w.batch[b].status = v.batch[b].status
                            /\ v.batch[b].status # "active" => w.batch[b] = v.batch[b],
         w.wallet.balance = v.wallet.balance, w.wallet.earned = v.wallet.earned,
         w.wallet.spent = v.wallet.spent, w.wallet.refunded = v.wallet.refunded
  PROVE  Sound(w) /\ Later(v, w)
<1>1. Left(w) = Left(v) /\ Active(w) = Active(v)
  BY DEF Left, Active
<1>2. \A o : Gross(w, o) = Gross(v, o) /\ Refunded(w, o) = Refunded(v, o)
  BY DEF Gross, Refunded
<1>3. Sound(w)
  BY <1>1, <1>2 DEF Sound, Exact, Marked
<1>4. Later(v, w)
  BY DEF Later
<1>5. QED
  BY <1>3, <1>4

\* The expiry of an open bonus is moved.
LEMMA RepairSound ==
  ASSUME NEW v, Sound(v), NEW b \in Batches, NEW n \in Nat, NEW row,
         row = [v.batch[b] EXCEPT !.expires = Smaller(@, n)], NEW rows,
         rows.batch = IF row.status = "active" THEN Row(b, row) ELSE <<>>,
         rows.wallet = None, rows.entry = <<>>, rows.lapsed = <<>>, rows.usage = <<>>,
         NEW w, w = Overlay(rows, v)
  PROVE  /\ Sound(w) /\ Later(v, w) /\ w.wallet.frozen = v.wallet.frozen
         /\ DOMAIN rows.batch \subseteq Active(v)
<1>1. v \in Rows /\ v.batch[b] \in BatchRows
  BY DEF Sound, Rows
<1>2. row \in BatchRows /\ row.left = v.batch[b].left /\ row.status = v.batch[b].status
  <2>1. \A m \in Nat : Smaller(m, n) \in Nat
    BY DEF Smaller
  <2>2. v.batch[b].expires \in Nat
    BY <1>1 DEF BatchRows
  <2>3. QED
    BY <1>1, <2>1, <2>2 DEF BatchRows
<1>3. CASE row.status # "active"
  <2>1. Overlay(rows, v) = Overlay(Nothing, v)
    BY <1>3 DEF Overlay, Nothing
  <2>2. w = v /\ DOMAIN rows.batch = {}
    BY <1>1, <1>3, <2>1, OverlayNothing
  <2>3. QED
    BY <2>2, LaterItself
<1>4. CASE row.status = "active"
  <2>1. /\ rows.batch = Row(b, row) /\ rows.wallet = None
        /\ rows.entry = <<>> /\ rows.lapsed = <<>> /\ rows.usage = <<>>
    BY <1>4
  <2>2. /\ DOMAIN rows.batch = {b} /\ rows.batch[b] = row
        /\ DOMAIN rows.entry = {} /\ DOMAIN rows.lapsed = {} /\ DOMAIN rows.usage = {}
    BY <2>1 DEF Row
  <2>3. Part(rows)
    BY <1>2, <2>1, <2>2 DEF Part
  <2>4. /\ w \in Rows /\ w.wallet = v.wallet
        /\ \A c \in Batches : w.batch[c] = IF c = b THEN row ELSE v.batch[c]
        /\ \A r \in Refs : w.entry[r] = v.entry[r]
        /\ \A c \in Batches : w.lapsed[c] = v.lapsed[c]
        /\ \A o \in Operations : w.usage[o] = v.usage[o]
    BY <1>1, <2>1, <2>2, <2>3, Overlaid
  <2>5. w.entry = v.entry /\ w.lapsed = v.lapsed /\ w.usage = v.usage
    BY <1>1, <2>4 DEF Rows
  <2>6. Sound(w) /\ Later(v, w)
    BY <1>2, <1>4, <2>4, <2>5, BooksKept
  <2>7. QED
    BY <1>2, <1>4, <2>2, <2>4, <2>6 DEF Active
<1>5. QED
  BY <1>3, <1>4

\* The status of the wallet is set.
LEMMA StatusSound ==
  ASSUME NEW v, Sound(v), NEW frozen \in BOOLEAN, NEW rows,
         rows.wallet = [v.wallet EXCEPT !.frozen = frozen], rows.batch = <<>>,
         rows.entry = <<>>, rows.lapsed = <<>>, rows.usage = <<>>,
         NEW w, w = Overlay(rows, v)
  PROVE  Sound(w) /\ Later(v, w) /\ DOMAIN rows.batch = {}
<1>1. v \in Rows /\ v.wallet \in Wallets
  BY DEF Sound, Rows
<1>2. /\ rows.wallet \in Wallets /\ rows.wallet.balance = v.wallet.balance
      /\ rows.wallet.earned = v.wallet.earned /\ rows.wallet.spent = v.wallet.spent
      /\ rows.wallet.refunded = v.wallet.refunded
  BY <1>1 DEF Wallets
<1>3. /\ DOMAIN rows.batch = {} /\ DOMAIN rows.entry = {} /\ DOMAIN rows.lapsed = {}
      /\ DOMAIN rows.usage = {} /\ rows.wallet # None
  <2>1. rows.wallet # None
    <3>1. None \notin Wallets
      BY RefsAssumption
    <3>2. QED
      BY <1>2, <3>1
  <2>2. QED
    BY <2>1
<1>4. Part(rows)
  BY <1>2, <1>3 DEF Part
<1>5. /\ w \in Rows /\ w.wallet = rows.wallet
      /\ \A c \in Batches : w.batch[c] = v.batch[c]
      /\ \A r \in Refs : w.entry[r] = v.entry[r]
      /\ \A c \in Batches : w.lapsed[c] = v.lapsed[c]
      /\ \A o \in Operations : w.usage[o] = v.usage[o]
  BY <1>1, <1>3, <1>4, Overlaid
<1>6. w.entry = v.entry /\ w.lapsed = v.lapsed /\ w.usage = v.usage
  BY <1>1, <1>5 DEF Rows
<1>7. Sound(w) /\ Later(v, w)
  BY <1>2, <1>5, <1>6, BooksKept
<1>8. QED
  BY <1>3, <1>7

-----------------------------------------------------------------------------
(* Every step keeps the invariant                                          *)

\* Who holds the lock, or takes it, writes rows that make sound books.
LEMMA Written ==
  ASSUME IInv, NEW t \in Txs, holder \in {None, t}, holder' = t, UNCHANGED <<clock, db>>,
         DOMAIN own' = Txs, \A s \in Txs \ {t} : own'[s] = own[s],
         NEW p \in {"commit"} \cup Locked, p # "commit" => p = tx[t].kind, Goto(t, p),
         tx[t].pc # "idle",
         NEW w, w = Overlay(own'[t], db), Sound(w), Later(db, w),
         p # "commit" => w.wallet.frozen = db.wallet.frozen,
         \A b \in DOMAIN own'[t].batch :
            b \in DOMAIN own[t].batch \/ b \notin Purchases \/ db.batch[b].status # "none"
  PROVE  IInv'
<1>1. /\ tx' = [tx EXCEPT ![t].pc = p] /\ db' = db /\ clock' = clock /\ holder' = t
      /\ None \notin Txs
  BY RefsAssumption DEF Goto
<1>2. Asks'
  BY <1>1 DEF IInv, Asks, Locked
<1>3. Sound(db)'
  BY <1>1 DEF IInv
<1>4. ASSUME NEW s \in Txs
      PROVE  /\ tx'[s].pc \in {"idle", "lock", "insert"} => own'[s] = Nothing /\ holder' # s
             /\ tx'[s].pc = "credit" => holder' # s /\ Inserted(s)'
             /\ tx'[s].pc \in Locked => holder' = s /\ View(s)'.wallet.frozen = db'.wallet.frozen
             /\ tx'[s].pc = "commit" => holder' = s \/ own'[s] = Nothing
             /\ holder' = s => Sound(View(s)') /\ Later(db', View(s)')
  <2>1. CASE s = t
    <3>1. tx'[t].pc = p
      BY <1>1 DEF IInv, Asks
    <3>2. View(t)' = w
      BY <1>1 DEF View
    <3>3. QED
      BY <1>1, <2>1, <3>1, <3>2 DEF Locked
  <2>2. CASE s # t
    <3>1. tx'[s] = tx[s] /\ own'[s] = own[s] /\ holder' # s /\ holder # s
      BY <1>1, <2>2 DEF IInv, Asks
    <3>2. tx[s].pc \notin Locked
      BY <3>1 DEF IInv, Locks
    <3>3. ASSUME tx[s].pc = "credit" PROVE Inserted(s)'
      <4> DEFINE b == tx[s].ref
      <4>1. /\ b \in Purchases /\ db.batch[b].status = "none"
            /\ \A r \in Txs \ {s} : b \notin DOMAIN own[r].batch
        BY <3>3 DEF IInv, Locks, Inserted
      <4>2. \A r \in Txs \ {s} : b \notin DOMAIN own'[r].batch
        <5>1. b \notin DOMAIN own'[t].batch
          BY <2>2, <4>1
        <5>2. QED
          BY <4>1, <5>1
      <4>3. Inserted(s)
        BY <3>3 DEF IInv, Locks
      <4>4. QED
        BY <1>1, <3>1, <4>2, <4>3 DEF Inserted
    <3>4. QED
      BY <3>1, <3>2, <3>3 DEF IInv, Locks
  <2>3. QED
    BY <2>1, <2>2
<1>5. Locks'
  BY <1>4 DEF Locks
<1>6. QED
  BY <1>2, <1>3, <1>5 DEF IInv

\* ... or writes nothing and goes on to its commit.
LEMMA WrittenNothing ==
  ASSUME IInv, NEW t \in Txs, UNCHANGED <<clock, db, own, holder>>, Goto(t, "commit"),
         tx[t].pc \in Locked \cup {"insert"}
  PROVE  IInv'
<1>1. /\ tx' = [tx EXCEPT ![t].pc = "commit"] /\ db' = db /\ clock' = clock /\ holder' = holder
      /\ own' = own
  BY DEF Goto
<1>2. Asks'
  BY <1>1 DEF IInv, Asks, Locked
<1>3. Sound(db)'
  BY <1>1 DEF IInv
<1>4. ASSUME NEW s \in Txs
      PROVE  /\ tx'[s].pc \in {"idle", "lock", "insert"} => own'[s] = Nothing /\ holder' # s
             /\ tx'[s].pc = "credit" => holder' # s /\ Inserted(s)'
             /\ tx'[s].pc \in Locked => holder' = s /\ View(s)'.wallet.frozen = db'.wallet.frozen
             /\ tx'[s].pc = "commit" => holder' = s \/ own'[s] = Nothing
             /\ holder' = s => Sound(View(s)') /\ Later(db', View(s)')
  <2>1. View(s)' = View(s)
    BY <1>1 DEF View
  <2>2. CASE s = t
    <3>1. tx'[t].pc = "commit"
      BY <1>1 DEF IInv, Asks
    <3>2. holder = t \/ own[t] = Nothing
      BY DEF IInv, Locks
    <3>3. QED
      BY <1>1, <2>1, <2>2, <3>1, <3>2 DEF IInv, Locks, Locked
  <2>3. CASE s # t
    <3>1. tx'[s] = tx[s]
      BY <1>1, <2>3 DEF IInv, Asks
    <3>2. tx[s].pc = "credit" => Inserted(s)'
      <4>1. tx[s].pc = "credit" => Inserted(s)
        BY DEF IInv, Locks
      <4>2. QED
        BY <1>1, <3>1, <4>1 DEF Inserted
    <3>3. QED
      BY <1>1, <2>1, <3>1, <3>2 DEF IInv, Locks
  <2>4. QED
    BY <2>2, <2>3
<1>5. Locks'
  BY <1>4 DEF Locks
<1>6. QED
  BY <1>2, <1>3, <1>5 DEF IInv

\* One who is past the lock writes over the rows it sees.
LEMMA HolderWrites ==
  ASSUME IInv, NEW t \in Txs, tx[t].pc \in Locked, Goto(t, "commit"), UNCHANGED <<clock, db, holder>>,
         NEW rows, Write(t, rows), NEW w, w = Overlay(rows, View(t)), Sound(w), Later(View(t), w),
         \A b \in DOMAIN rows.batch : b \notin Purchases \/ View(t).batch[b].status # "none"
  PROVE  IInv'
<1>1. /\ holder = t /\ Later(db, View(t)) /\ View(t).wallet.frozen = db.wallet.frozen
      /\ DOMAIN own = Txs /\ db \in Rows /\ tx[t].pc # "idle"
  BY DEF IInv, Asks, Locks, Locked, Sound
<1>2. /\ DOMAIN own' = Txs /\ own'[t] = Overlay(rows, own[t])
      /\ \A s \in Txs \ {t} : own'[s] = own[s]
  BY <1>1 DEF Write
<1>3. w = Overlay(own'[t], db)
  BY <1>2, OverlayOverlay DEF View
<1>4. Later(db, w)
  BY <1>1, LaterLater
<1>5. ASSUME NEW b \in DOMAIN own'[t].batch
      PROVE  b \in DOMAIN own[t].batch \/ b \notin Purchases \/ db.batch[b].status # "none"
  <2>1. b \in DOMAIN rows.batch \cup DOMAIN own[t].batch
    BY <1>2 DEF Overlay, Over
  <2>2. CASE b \in Purchases /\ b \notin DOMAIN own[t].batch
    <3>1. View(t).batch = Over(own[t].batch, db.batch) /\ b \in DOMAIN db.batch
      BY <1>1, <2>2, Kinds DEF View, Overlay, Rows
    <3>2. View(t).batch[b] = db.batch[b]
      BY <2>2, <3>1 DEF Over
    <3>3. QED
      BY <2>1, <2>2, <3>2
  <2>3. QED
    BY <2>2
<1>6. QED
  BY <1>1, <1>2, <1>3, <1>4, <1>5, Written

LEMMA LockKeeps ==
  ASSUME IInv, NEW t \in Txs, Lock(t)
  PROVE  IInv'
<1> DEFINE rows == Expired(View(t), tx[t].now)
           p == IF tx[t].kind = "sweep" THEN "commit" ELSE tx[t].kind
           w == Overlay(rows, db)
<1>1. /\ tx[t].pc = "lock" /\ holder = None /\ holder' = t /\ UNCHANGED <<clock, db>>
      /\ Write(t, rows) /\ Goto(t, p)
  BY DEF Lock, At
<1>2. own[t] = Nothing /\ DOMAIN own = Txs /\ Sound(db) /\ db \in Rows
  BY <1>1 DEF IInv, Asks, Locks, Sound
<1>3. View(t) = db
  BY <1>2, OverlayNothing DEF View
<1>4. Sound(w) /\ Later(db, w) /\ w.wallet.frozen = db.wallet.frozen /\ DOMAIN rows.batch \subseteq Active(db)
  BY <1>2, <1>3, ExpirySound
<1>5. p \in {"commit"} \cup Locked /\ (p # "commit" => p = tx[t].kind)
  BY <1>1 DEF IInv, Asks
<1> HIDE DEF rows, p
<1>6. /\ DOMAIN own' = Txs /\ own'[t] = Overlay(rows, own[t])
      /\ \A s \in Txs \ {t} : own'[s] = own[s]
  BY <1>1, <1>2 DEF Write
<1>7. Overlay(own'[t], db) = w
  BY <1>2, <1>3, <1>6, OverlayOverlay DEF View
<1>8. \A b \in DOMAIN own'[t].batch : db.batch[b].status # "none"
  <2>1. DOMAIN own'[t].batch = DOMAIN rows.batch
    BY <1>2, <1>6 DEF Overlay, Over, Nothing
  <2>2. QED
    BY <1>4, <2>1 DEF Active
<1> HIDE DEF w
<1>9. QED
  BY <1>1, <1>4, <1>5, <1>6, <1>7, <1>8, Written

LEMMA ChargeKeeps ==
  ASSUME IInv, NEW t \in Txs, Charge(t)
  PROVE  IInv'
<1> DEFINE r == tx[t].ref
           v == View(t)
           taken == Taken(v, tx[t].now, Amount[r])
           rows == Charged(v, r, taken)
           w == Overlay(rows, v)
<1>1. /\ tx[t].pc = "charge" /\ Goto(t, "commit") /\ UNCHANGED <<clock, db, holder>>
      /\ \/ UNCHANGED own
         \/ /\ v.entry[r] = 0 /\ ~v.wallet.frozen /\ v.wallet.balance >= Amount[r]
            /\ Total(taken, DOMAIN taken) = Amount[r] /\ Write(t, rows)
  BY DEF Charge, At
<1>2. r \in Charges /\ Sound(v) /\ tx[t].pc \in Locked
  BY <1>1 DEF IInv, Asks, Locks, Locked
<1>3. CASE UNCHANGED own
  BY <1>1, <1>2, <1>3, WrittenNothing
<1>4. CASE /\ v.entry[r] = 0 /\ ~v.wallet.frozen /\ v.wallet.balance >= Amount[r]
           /\ Total(taken, DOMAIN taken) = Amount[r] /\ Write(t, rows)
  <2>1. v \in Rows /\ Amount[r] \in Nat
    BY <1>2, Kinds DEF Sound
  <2> HIDE DEF r, v
  <2>2. /\ DOMAIN taken \in SUBSET Active(v)
        /\ \A b \in DOMAIN taken : taken[b] \in Nat /\ taken[b] <= v.batch[b].left
    BY <2>1, TakenBounds
  <2>3. SumOf(taken, DOMAIN taken) = Amount[r]
    BY <1>4, TotalIsSum
  <2> HIDE DEF taken
  <2>4. Sound(w) /\ Later(v, w) /\ DOMAIN rows.batch \subseteq Active(v)
    BY <1>2, <1>4, <2>2, <2>3, ChargeSound
  <2>5. \A b \in DOMAIN rows.batch : v.batch[b].status # "none"
    BY <2>4 DEF Active
  <2> HIDE DEF rows
  <2>6. Write(t, rows)
    BY <1>4
  <2>7. QED
    BY <1>1, <1>2, <2>4, <2>5, <2>6, HolderWrites DEF v
<1>5. QED
  BY <1>1, <1>3, <1>4

LEMMA StatusKeeps ==
  ASSUME IInv, NEW t \in Txs, SetStatus(t)
  PROVE  IInv'
<1>1. PICK frozen \in BOOLEAN : Write(t, [Nothing EXCEPT !.wallet = [View(t).wallet EXCEPT !.frozen = frozen]])
  BY DEF SetStatus
<1> DEFINE rows == [Nothing EXCEPT !.wallet = [View(t).wallet EXCEPT !.frozen = frozen]]
           w == Overlay(rows, View(t))
<1>2. tx[t].pc = "status" /\ Goto(t, "commit") /\ UNCHANGED <<clock, db, holder>>
  BY DEF SetStatus, At
<1>3. Sound(View(t)) /\ tx[t].pc \in Locked
  BY <1>2 DEF IInv, Locks, Locked
<1>4. /\ rows.wallet = [View(t).wallet EXCEPT !.frozen = frozen]
      /\ rows.batch = <<>> /\ rows.entry = <<>> /\ rows.lapsed = <<>> /\ rows.usage = <<>>
  BY DEF Nothing
<1>5. Write(t, rows)
  BY <1>1
<1> HIDE DEF rows
<1>6. Sound(w) /\ Later(View(t), w) /\ DOMAIN rows.batch = {}
  BY <1>3, <1>4, StatusSound
<1>7. QED
  BY <1>2, <1>3, <1>5, <1>6, HolderWrites

LEMMA ExpiryType ==
  ASSUME clock \in Nat, NEW b \in Batches
  PROVE  Expiry(b) \in Nat
<1>1. Never \in Nat /\ Life[b] \in Nat
  BY RefsAssumption DEF Never
<1>2. \A m, n \in Nat : Smaller(m, n) \in Nat
  BY DEF Smaller
<1>3. Life[b] \in Nat /\ clock + Life[b] \in Nat
  BY <1>1
<1>4. QED
  BY <1>1, <1>2, <1>3 DEF Expiry

\* What a grant writes
LEMMA GrantedRows ==
  ASSUME clock \in Nat, NEW v, NEW b \in Batches, NEW g, g = Granted(v, b, Expiry(b))
  PROVE  /\ \E row \in BatchRows : /\ row.left = Amount[b] /\ row.status = "active"
                                   /\ g.batch = Row(b, row)
         /\ g = [wallet |-> None, batch |-> g.batch, entry |-> Row(b, v.entry[b] + Amount[b]),
                 lapsed |-> <<>>, usage |-> g.usage]
         /\ g.usage = IF b \notin Refunds THEN <<>>
                      ELSE Row(Operation[b], [gross |-> Gross(v, Operation[b]),
                                              refunded |-> Refunded(v, Operation[b]) + Amount[b]])
<1> DEFINE row == [left |-> Amount[b], status |-> "active", issued |-> clock, expires |-> Expiry(b)]
           usage == IF b \notin Refunds THEN <<>>
                    ELSE Row(Operation[b], [gross |-> Gross(v, Operation[b]),
                                            refunded |-> Refunded(v, Operation[b]) + Amount[b]])
<1>1. row \in BatchRows /\ row.left = Amount[b] /\ row.status = "active"
  BY ExpiryType, Kinds DEF BatchRows
<1>2. g = [wallet |-> None, batch |-> Row(b, row), entry |-> Row(b, v.entry[b] + Amount[b]),
           lapsed |-> <<>>, usage |-> usage]
  BY DEF Granted, Nothing
<1> HIDE DEF row, usage
<1>3. QED
  BY <1>1, <1>2 DEF usage

\* Grants and refunds
LEMMA AddKeeps ==
  ASSUME IInv, NEW t \in Txs, tx[t].pc \in {"grant", "refund"}, Goto(t, "commit"),
         UNCHANGED <<clock, db, holder>>, NEW b, b \in Grants \cup Refunds,
         View(t).batch[b].status = "none",
         b \in Refunds => Refunded(View(t), Operation[b]) + Amount[b] <= Gross(View(t), Operation[b]),
         AddBatch(t, b)
  PROVE  IInv'
<1> DEFINE v == View(t)
           g == Granted(v, b, Expiry(b))
           rows == [g EXCEPT !.wallet = Credited(v, b)]
           w == Overlay(rows, v)
<1>1. b \in Batches /\ b \notin Purchases /\ tx[t].pc \in Locked /\ clock \in Nat
  BY Kinds, KindsAssumption DEF IInv, Asks, Locked
<1>2. Sound(v)
  BY <1>1 DEF IInv, Locks, Locked
<1>3. Write(t, rows)
  BY DEF AddBatch
<1> HIDE DEF v
<1>4. PICK row \in BatchRows :
        /\ row.left = Amount[b] /\ row.status = "active" /\ g.batch = Row(b, row)
        /\ g = [wallet |-> None, batch |-> g.batch, entry |-> Row(b, v.entry[b] + Amount[b]),
                lapsed |-> <<>>, usage |-> g.usage]
        /\ g.usage = IF b \notin Refunds THEN <<>>
                     ELSE Row(Operation[b], [gross |-> Gross(v, Operation[b]),
                                             refunded |-> Refunded(v, Operation[b]) + Amount[b]])
  <2> HIDE DEF g
  <2>1. g = Granted(v, b, Expiry(b))
    BY DEF g
  <2>2. QED
    BY <1>1, <2>1, GrantedRows
<1> HIDE DEF g
<1>5. /\ rows.wallet = Credited(v, b) /\ rows.batch = Row(b, row)
      /\ rows.entry = Row(b, v.entry[b] + Amount[b]) /\ rows.lapsed = <<>>
      /\ rows.usage = IF b \notin Refunds THEN <<>>
                      ELSE Row(Operation[b], [gross |-> Gross(v, Operation[b]),
                                              refunded |-> Refunded(v, Operation[b]) + Amount[b]])
  BY <1>4
<1> HIDE DEF rows
<1>6. Sound(w) /\ Later(v, w)
  BY <1>1, <1>2, <1>4, <1>5, GrantSound DEF v
<1>7. \A c \in DOMAIN rows.batch : c \notin Purchases
  BY <1>1, <1>5 DEF Row
<1>8. QED
  BY <1>1, <1>3, <1>6, <1>7, HolderWrites DEF v

LEMMA RefundKeeps ==
  ASSUME IInv, NEW t \in Txs, Refund(t)
  PROVE  IInv'
<1> DEFINE b == tx[t].ref
<1>1. tx[t].pc = "refund" /\ Goto(t, "commit") /\ UNCHANGED <<clock, db, holder>>
  BY DEF Refund, At
<1>2. b \in Refunds /\ tx[t].pc \in Locked
  BY <1>1 DEF IInv, Asks, Locked
<1>3. CASE UNCHANGED own
  BY <1>1, <1>2, <1>3, WrittenNothing
<1>4. CASE /\ View(t).batch[b].status = "none"
           /\ Refunded(View(t), Operation[b]) + Amount[b] <= Gross(View(t), Operation[b])
           /\ AddBatch(t, b)
  <2> HIDE DEF b
  <2>1. QED
    BY <1>1, <1>2, <1>4, AddKeeps
<1>5. QED
  BY <1>3, <1>4 DEF Refund

LEMMA RepairKeeps ==
  ASSUME IInv, NEW t \in Txs, tx[t].pc = "grant", Goto(t, "commit"), UNCHANGED <<clock, db, holder>>,
         NEW b \in Grants, RepairBonus(t, b)
  PROVE  IInv'
<1> DEFINE v == View(t)
<1>1. PICK days \in 1 .. Life[b] :
        LET row == [v.batch[b] EXCEPT !.expires = Smaller(@, v.batch[b].issued + days)]
            rows == [Nothing EXCEPT !.batch = IF row.status = "active" THEN Row(b, row) ELSE <<>>]
        IN  Write(t, Overlay(Expired(Overlay(rows, v), tx[t].now), rows))
  BY DEF RepairBonus
<1> DEFINE n == v.batch[b].issued + days
           row == [v.batch[b] EXCEPT !.expires = Smaller(@, n)]
           rows == [Nothing EXCEPT !.batch = IF row.status = "active" THEN Row(b, row) ELSE <<>>]
           u == Overlay(rows, v)
           due == Expired(u, tx[t].now)
           both == Overlay(due, rows)
           w == Overlay(both, v)
<1>2. b \in Batches /\ tx[t].pc \in Locked /\ Sound(v)
  BY Kinds DEF IInv, Locks, Locked
<1>3. n \in Nat
  <2>1. v.batch[b].issued \in Nat /\ days \in Nat
    BY <1>2, RefsAssumption DEF Sound, Rows, BatchRows
  <2>2. QED
    BY <2>1
<1>4. Write(t, both)
  BY <1>1
<1> HIDE DEF v, n
<1>5. /\ rows.batch = IF row.status = "active" THEN Row(b, row) ELSE <<>>
      /\ rows.wallet = None /\ rows.entry = <<>> /\ rows.lapsed = <<>> /\ rows.usage = <<>>
  BY DEF Nothing
<1> HIDE DEF rows
<1>6. /\ Sound(u) /\ Later(v, u) /\ u.wallet.frozen = v.wallet.frozen
      /\ DOMAIN rows.batch \subseteq Active(v)
  <2>1. row = [v.batch[b] EXCEPT !.expires = Smaller(@, n)]
    OBVIOUS
  <2> HIDE DEF row
  <2>2. QED
    BY <1>2, <1>3, <1>5, <2>1, RepairSound
<1>7. w = Overlay(due, u)
  BY OverlayOverlay
<1>8. u.batch = Over(rows.batch, v.batch)
  BY DEF Overlay
<1> HIDE DEF u, row
<1>9. Sound(w) /\ Later(u, w) /\ DOMAIN due.batch \subseteq Active(u)
  BY <1>6, <1>7, ExpirySound
<1>10. Later(v, w)
  BY <1>6, <1>9, LaterLater
<1>11. \A c \in DOMAIN both.batch : v.batch[c].status # "none"
  <2>1. DOMAIN both.batch = DOMAIN due.batch \cup DOMAIN rows.batch
    BY DEF Overlay, Over
  <2>2. \A c \in Active(v) : v.batch[c].status # "none"
    BY DEF Active
  <2>3. ASSUME NEW c \in Active(u), c \notin DOMAIN rows.batch PROVE v.batch[c].status # "none"
    <3>1. u.batch[c].status = "active" /\ c \in Batches
      BY DEF Active
    <3>2. c \in DOMAIN v.batch
      BY <1>2, <3>1 DEF Sound, Rows
    <3>3. u.batch[c] = v.batch[c]
      BY <1>8, <2>3, <3>2 DEF Over
    <3>4. QED
      BY <3>1, <3>3
  <2>4. QED
    BY <1>6, <1>9, <2>1, <2>2, <2>3
<1> HIDE DEF both
<1>12. QED
  BY <1>2, <1>4, <1>9, <1>10, <1>11, HolderWrites DEF v

LEMMA GrantKeeps ==
  ASSUME IInv, NEW t \in Txs, Grant(t)
  PROVE  IInv'
<1> DEFINE b == tx[t].ref
<1>1. tx[t].pc = "grant" /\ Goto(t, "commit") /\ UNCHANGED <<clock, db, holder>>
  BY DEF Grant, At
<1>2. b \in Grants /\ tx[t].pc \in Locked /\ b \notin Refunds
  BY <1>1, KindsAssumption DEF IInv, Asks, Locked
<1>3. CASE View(t).batch[b].status = "none"
  <2>1. AddBatch(t, b)
    BY <1>3 DEF Grant
  <2> HIDE DEF b
  <2>2. QED
    BY <1>1, <1>2, <1>3, <2>1, AddKeeps
<1>4. CASE View(t).batch[b].status # "none" /\ b \in Bonus
  <2>1. RepairBonus(t, b)
    BY <1>4 DEF Grant
  <2> HIDE DEF b
  <2>2. QED
    BY <1>1, <1>2, <2>1, RepairKeeps
<1>5. CASE View(t).batch[b].status # "none" /\ b \notin Bonus
  <2>1. UNCHANGED own
    BY <1>5 DEF Grant
  <2>2. QED
    BY <1>1, <1>2, <2>1, WrittenNothing
<1>6. QED
  BY <1>3, <1>4, <1>5

LEMMA CreditedWallet ==
  ASSUME NEW v \in Rows, NEW b \in Batches, NEW wallet, wallet = Credited(v, b)
  PROVE  wallet \in Wallets
<1> DEFINE n == IF b \in Refunds THEN v.wallet.refunded + Amount[b] ELSE v.wallet.refunded
<1>1. /\ v.wallet.balance \in Nat /\ v.wallet.earned \in Nat /\ v.wallet.spent \in Nat
      /\ v.wallet.refunded \in Nat /\ v.wallet.frozen \in BOOLEAN /\ Amount[b] \in Nat
  BY Kinds DEF Rows, Wallets
<1>2. v.wallet = [balance |-> v.wallet.balance, earned |-> v.wallet.earned, spent |-> v.wallet.spent,
                  refunded |-> v.wallet.refunded, frozen |-> v.wallet.frozen]
  BY DEF Rows, Wallets
<1>3. wallet = [balance |-> v.wallet.balance + Amount[b], earned |-> v.wallet.earned + Amount[b],
                spent |-> v.wallet.spent, refunded |-> n, frozen |-> v.wallet.frozen]
  BY <1>2 DEF Credited
<1>4. n \in Nat
  BY <1>1
<1> HIDE DEF n
<1>5. QED
  BY <1>1, <1>3, <1>4 DEF Wallets

\* A purchase inserts its batch before it has the lock.
LEMMA InsertKeeps ==
  ASSUME IInv, NEW t \in Txs, InsertPurchase(t)
  PROVE  IInv'
<1> DEFINE b == tx[t].ref
           v == View(t)
           g == Granted(v, b, Expiry(b))
<1>1. /\ tx[t].pc = "insert" /\ UNCHANGED <<clock, db, holder>>
      /\ \A s \in Txs \ {t} : b \notin DOMAIN own[s].batch
      /\ \/ v.batch[b].status = "none" /\ Write(t, g) /\ Goto(t, "credit")
         \/ UNCHANGED own /\ Goto(t, "commit")
  BY DEF InsertPurchase, At
<1>2. /\ b \in Purchases /\ b \in Batches /\ b \notin Refunds /\ holder # t /\ own[t] = Nothing
      /\ DOMAIN own = Txs /\ db \in Rows /\ Sound(db) /\ clock \in Nat
  BY <1>1, Kinds, KindsAssumption DEF IInv, Asks, Locks, Sound
<1>3. v = db
  BY <1>2, OverlayNothing DEF View
<1>4. CASE UNCHANGED own /\ Goto(t, "commit")
  BY <1>1, <1>4, WrittenNothing
<1>5. CASE v.batch[b].status = "none" /\ Write(t, g) /\ Goto(t, "credit")
  <2>1. PICK row \in BatchRows :
          /\ row.left = Amount[b] /\ row.status = "active" /\ g.batch = Row(b, row)
          /\ g = [wallet |-> None, batch |-> g.batch, entry |-> Row(b, v.entry[b] + Amount[b]),
                  lapsed |-> <<>>, usage |-> g.usage]
          /\ g.usage = IF b \notin Refunds THEN <<>>
                       ELSE Row(Operation[b], [gross |-> Gross(v, Operation[b]),
                                               refunded |-> Refunded(v, Operation[b]) + Amount[b]])
    <3> HIDE DEF g
    <3>1. g = Granted(v, b, Expiry(b))
      BY DEF g
    <3>2. clock \in Nat /\ b \in Batches
      BY <1>2
    <3> HIDE DEF b, v
    <3>3. QED
      BY <3>1, <3>2, GrantedRows
  <2> HIDE DEF g
  <2>2. v.entry[b] + Amount[b] = Amount[b]
    <3>1. v.entry[b] = 0 /\ Amount[b] \in Nat
      BY <1>2, <1>3, <1>5, Kinds DEF Sound, Marked
    <3>2. QED
      BY <3>1
  <2>3. g = [wallet |-> None, batch |-> Row(b, row), entry |-> Row(b, Amount[b]),
             lapsed |-> <<>>, usage |-> <<>>]
    BY <1>2, <2>1, <2>2
  <2>4. \A k, r : Over(Row(k, r), <<>>) = Row(k, r)
    BY DEF Over, Row
  <2>5. Over(<<>>, <<>>) = <<>>
    BY DEF Over
  <2>6. Overlay(g, Nothing) = [wallet |-> None, batch |-> Row(b, row), entry |-> Row(b, Amount[b]),
                               lapsed |-> <<>>, usage |-> <<>>]
    BY <2>3, <2>4, <2>5 DEF Overlay, Nothing
  <2>7. /\ DOMAIN own' = Txs /\ \A s \in Txs \ {t} : own'[s] = own[s]
        /\ own'[t] = [wallet |-> None, batch |-> Row(b, row), entry |-> Row(b, Amount[b]),
                      lapsed |-> <<>>, usage |-> <<>>]
    BY <1>2, <1>5, <2>6 DEF Write
  <2>8. /\ own'[t].batch = Row(b, row) /\ DOMAIN own'[t].batch = {b} /\ own'[t].batch[b] = row
    BY <2>7 DEF Row
  <2>9. /\ tx' = [tx EXCEPT ![t].pc = "credit"] /\ db' = db /\ clock' = clock /\ holder' = holder
    BY <1>1, <1>5 DEF Goto
  <2>10. Asks'
    BY <1>1, <2>7, <2>9 DEF IInv, Asks, Locked
  <2>11. Sound(db)'
    BY <1>2, <2>9
  <2>12. ASSUME NEW s \in Txs
         PROVE  /\ tx'[s].pc \in {"idle", "lock", "insert"} => own'[s] = Nothing /\ holder' # s
                /\ tx'[s].pc = "credit" => holder' # s /\ Inserted(s)'
                /\ tx'[s].pc \in Locked => holder' = s /\ View(s)'.wallet.frozen = db'.wallet.frozen
                /\ tx'[s].pc = "commit" => holder' = s \/ own'[s] = Nothing
                /\ holder' = s => Sound(View(s)') /\ Later(db', View(s)')
    <3>1. CASE s = t
      <4>1. tx'[t].pc = "credit" /\ tx'[t].ref = b /\ holder' # t
        BY <1>2, <2>9 DEF IInv, Asks
      <4>2. db'.batch[b].status = "none" /\ \A r \in Txs \ {t} : b \notin DOMAIN own'[r].batch
        BY <1>1, <1>3, <1>5, <2>7, <2>9
      <4> HIDE DEF b
      <4>3. Inserted(t)'
        BY <1>2, <2>1, <2>7, <2>8, <4>1, <4>2 DEF Inserted
      <4>4. QED
        BY <3>1, <4>1, <4>3 DEF Locked
    <3>2. CASE s # t
      <4>1. tx'[s] = tx[s] /\ own'[s] = own[s] /\ View(s)' = View(s)
        BY <2>7, <2>9, <3>2 DEF IInv, Asks, View
      <4>2. ASSUME tx[s].pc = "credit" PROVE Inserted(s)'
        <5> DEFINE c == tx[s].ref
        <5>1. Inserted(s)
          BY <4>2 DEF IInv, Locks
        <5>2. c \in DOMAIN own[s].batch
          BY <5>1 DEF Inserted, Row
        <5>3. c # b
          BY <1>1, <3>2, <5>2
        <5>4. \A r \in Txs \ {s} : c \notin DOMAIN own'[r].batch
          BY <2>7, <2>8, <5>1, <5>3 DEF Inserted
        <5>5. QED
          BY <2>9, <4>1, <5>1, <5>4 DEF Inserted
      <4>3. QED
        BY <2>9, <4>1, <4>2 DEF IInv, Locks
    <3>3. QED
      BY <3>1, <3>2
  <2>13. Locks'
    BY <2>12 DEF Locks
  <2>14. QED
    BY <2>10, <2>11, <2>13 DEF IInv
<1>6. QED
  BY <1>1, <1>4, <1>5

\* ... and adds to the wallet that is committed when it has the lock.
LEMMA CreditKeeps ==
  ASSUME IInv, NEW t \in Txs, CreditPurchase(t)
  PROVE  IInv'
<1> DEFINE b == tx[t].ref
           row == own[t].batch[b]
           rows == own'[t]
           w == Overlay(rows, db)
<1>1. /\ tx[t].pc = "credit" /\ holder = None /\ holder' = t /\ UNCHANGED <<clock, db>>
      /\ Write(t, [Nothing EXCEPT !.wallet = Credited(View(t), b)]) /\ Goto(t, "commit")
  BY DEF CreditPurchase, At
<1>2. Inserted(t) /\ DOMAIN own = Txs /\ db \in Rows /\ Sound(db)
  BY <1>1 DEF IInv, Asks, Locks, Sound
<1>3. /\ b \in Purchases /\ b \in Batches /\ b \notin Refunds /\ db.batch[b].status = "none"
      /\ row \in BatchRows /\ row.left = Amount[b] /\ row.status = "active"
  BY <1>2, Kinds, KindsAssumption DEF Inserted
<1>4. own[t] = [wallet |-> None, batch |-> Row(b, row), entry |-> Row(b, Amount[b]),
                lapsed |-> <<>>, usage |-> <<>>]
  BY <1>2 DEF Inserted
<1>5. /\ DOMAIN own' = Txs /\ \A s \in Txs \ {t} : own'[s] = own[s]
      /\ own'[t] = Overlay([Nothing EXCEPT !.wallet = Credited(View(t), b)], own[t])
  BY <1>1, <1>2 DEF Write
<1> HIDE DEF row
<1>6. Credited(View(t), b) = Credited(db, b)
  <2>1. View(t).wallet = db.wallet
    BY <1>4 DEF View, Overlay
  <2>2. QED
    BY <2>1 DEF Credited
<1>7. Credited(db, b) # None
  <2>1. Credited(db, b) \in Wallets
    BY <1>2, <1>3, CreditedWallet
  <2>2. None \notin Wallets
    BY RefsAssumption
  <2>3. QED
    BY <2>1, <2>2
<1>8. \A k, r : Over(<<>>, Row(k, r)) = Row(k, r)
  BY DEF Over, Row
<1>9. Over(<<>>, <<>>) = <<>>
  BY DEF Over
<1>10. /\ rows.wallet = Credited(db, b) /\ rows.batch = Row(b, row) /\ rows.entry = Row(b, Amount[b])
       /\ rows.lapsed = <<>> /\ rows.usage = <<>>
  BY <1>4, <1>5, <1>6, <1>7, <1>8, <1>9 DEF Overlay, Nothing
<1>11. db.entry[b] + Amount[b] = Amount[b]
  <2>1. db.entry[b] = 0 /\ Amount[b] \in Nat
    BY <1>2, <1>3, Kinds DEF Sound, Marked
  <2>2. QED
    BY <2>1
<1> HIDE DEF b, rows
<1>12. Sound(w) /\ Later(db, w)
  BY <1>2, <1>3, <1>10, <1>11, GrantSound
<1>13. \A c \in DOMAIN rows.batch : c \in DOMAIN own[t].batch
  BY <1>4, <1>10
<1>14. QED
  BY <1>1, <1>5, <1>12, <1>13, Written DEF rows

LEMMA BeginKeeps ==
  ASSUME IInv, NEW t \in Txs, Begin(t)
  PROVE  IInv'
<1>1. PICK q \in Requests :
        tx' = [tx EXCEPT ![t] = [pc   |-> IF q[1] = "purchase" THEN "insert" ELSE "lock",
                                 kind |-> q[1], ref |-> q[2], now |-> clock]]
  BY DEF Begin
<1>2. /\ tx[t].pc = "idle" /\ clock' = clock /\ db' = db /\ own' = own /\ holder' = holder
  BY DEF Begin, At
<1>3. /\ q[1] \in Locked \cup {"purchase", "sweep"} /\ q[2] \in Refs \cup {None}
      /\ q[1] = "charge" => q[2] \in Charges
      /\ q[1] = "grant" => q[2] \in Grants
      /\ q[1] = "refund" => q[2] \in Refunds
      /\ q[1] = "purchase" => q[2] \in Purchases
  BY Kinds DEF Requests, Locked
<1>4. DOMAIN tx = Txs /\ clock \in Nat
  BY DEF IInv, Asks
<1>5. /\ tx'[t].pc = IF q[1] = "purchase" THEN "insert" ELSE "lock"
      /\ tx'[t].kind = q[1] /\ tx'[t].ref = q[2] /\ tx'[t].now = clock
      /\ \A s \in Txs \ {t} : tx'[s] = tx[s]
  BY <1>1, <1>4
<1>6. Asks'
  BY <1>1, <1>2, <1>3 DEF IInv, Asks, Locked
<1>7. Sound(db)'
  BY <1>2 DEF IInv
<1>8. ASSUME NEW s \in Txs
      PROVE  /\ tx'[s].pc \in {"idle", "lock", "insert"} => own'[s] = Nothing /\ holder' # s
             /\ tx'[s].pc = "credit" => holder' # s /\ Inserted(s)'
             /\ tx'[s].pc \in Locked => holder' = s /\ View(s)'.wallet.frozen = db'.wallet.frozen
             /\ tx'[s].pc = "commit" => holder' = s \/ own'[s] = Nothing
             /\ holder' = s => Sound(View(s)') /\ Later(db', View(s)')
  <2>1. View(s)' = View(s)
    BY <1>2 DEF View
  <2>2. CASE s = t
    <3>1. own[t] = Nothing /\ holder # t
      BY <1>2 DEF IInv, Locks
    <3>2. tx'[t].pc \in {"insert", "lock"}
      BY <1>5
    <3>3. QED
      BY <1>2, <2>2, <3>1, <3>2 DEF Locked
  <2>3. CASE s # t
    <3>1. tx'[s] = tx[s]
      BY <1>5, <2>3
    <3>2. tx[s].pc = "credit" => Inserted(s)'
      <4>1. tx[s].pc = "credit" => Inserted(s)
        BY DEF IInv, Locks
      <4>2. QED
        BY <1>2, <3>1, <4>1 DEF Inserted
    <3>3. QED
      BY <1>2, <2>1, <3>1, <3>2 DEF IInv, Locks
  <2>4. QED
    BY <2>2, <2>3
<1>9. Locks'
  BY <1>8 DEF Locks
<1>10. QED
  BY <1>6, <1>7, <1>9 DEF IInv

\* What a transaction leaves behind when it ends, committed or not: the
\* books are those it saw, or the old ones.
LEMMA Ended ==
  ASSUME IInv, NEW t \in Txs, clock' = clock,
         own' = [own EXCEPT ![t] = Nothing], tx' = [tx EXCEPT ![t] = NoTx],
         holder' = IF holder = t THEN None ELSE holder,
         \/ db' = db
         \/ holder = t /\ db' = View(t)
  PROVE  IInv'
<1>1. DOMAIN own = Txs /\ DOMAIN tx = Txs /\ None \notin Txs /\ db \in Rows
  BY RefsAssumption DEF IInv, Asks, Sound
<1>2. /\ own'[t] = Nothing /\ tx'[t] = NoTx /\ holder' # t
      /\ \A s \in Txs \ {t} : own'[s] = own[s] /\ tx'[s] = tx[s]
  BY <1>1
<1>3. Asks'
  <2>1. tx' \in [Txs -> [pc : {"idle", "insert", "credit", "lock", "commit"} \cup Locked,
                         kind : Locked \cup {"purchase", "sweep", None},
                         ref : Refs \cup {None}, now : Nat]]
    BY DEF IInv, Asks, NoTx
  <2>2. holder' \in Txs \cup {None} /\ DOMAIN own' = Txs /\ clock' \in Nat
    BY <1>1 DEF IInv, Asks
  <2>3. tx'[t].pc = "idle"
    BY <1>2 DEF NoTx
  <2>4. QED
    BY <1>2, <2>1, <2>2, <2>3 DEF IInv, Asks
<1>4. Sound(db')
  <2>1. CASE db' = db
    BY <2>1 DEF IInv
  <2>2. CASE holder = t /\ db' = View(t)
    BY <2>2 DEF IInv, Locks
  <2>3. QED
    BY <2>1, <2>2
<1>5. ASSUME NEW s \in Txs
      PROVE  /\ tx'[s].pc \in {"idle", "lock", "insert"} => own'[s] = Nothing /\ holder' # s
             /\ tx'[s].pc = "credit" => holder' # s /\ Inserted(s)'
             /\ tx'[s].pc \in Locked => holder' = s /\ View(s)'.wallet.frozen = db'.wallet.frozen
             /\ tx'[s].pc = "commit" => holder' = s \/ own'[s] = Nothing
             /\ holder' = s => Sound(View(s)') /\ Later(db', View(s)')
  <2>1. CASE s = t
    BY <1>2, <2>1 DEF NoTx, Locked
  <2>2. CASE s # t
    <3>1. own'[s] = own[s] /\ tx'[s] = tx[s]
      BY <1>2, <2>2
    <3>2. (holder = s => holder' = s /\ db' = db) /\ (holder' = s => holder = s)
      BY <1>1, <2>2
    <3>3. holder = s => View(s)' = View(s)
      BY <3>1, <3>2 DEF View
    <3>4. ASSUME tx[s].pc = "credit" PROVE Inserted(s)'
      <4> DEFINE b == tx[s].ref
      <4>1. Inserted(s)
        BY <3>4 DEF IInv, Locks
      <4>2. b \in Batches /\ b \notin DOMAIN own[t].batch /\ db.batch[b].status = "none"
        BY <2>2, <4>1, Kinds DEF Inserted
      <4>3. \A r \in Txs \ {s} : b \notin DOMAIN own'[r].batch
        <5>1. DOMAIN own'[t].batch = {}
          BY <1>2 DEF Nothing
        <5>2. QED
          BY <1>2, <4>1, <5>1 DEF Inserted
      <4>4. db'.batch[b].status = "none"
        <5>1. CASE db' = db
          BY <4>2, <5>1
        <5>2. CASE db' = View(t)
          <6>1. db'.batch = Over(own[t].batch, db.batch) /\ b \in DOMAIN db.batch
            BY <1>1, <4>2, <5>2 DEF View, Overlay, Rows
          <6>2. db'.batch[b] = db.batch[b]
            BY <4>2, <6>1 DEF Over
          <6>3. QED
            BY <4>2, <6>2
        <5>3. QED
          BY <5>1, <5>2
      <4>5. QED
        BY <3>1, <4>1, <4>3, <4>4 DEF Inserted
    <3>5. QED
      BY <3>1, <3>2, <3>3, <3>4 DEF IInv, Locks
  <2>3. QED
    BY <2>1, <2>2
<1>6. Locks'
  BY <1>5 DEF Locks
<1>7. QED
  BY <1>3, <1>4, <1>6 DEF IInv

\* A commit makes the books of the holder the committed ones.
LEMMA CommitShows ==
  ASSUME IInv, NEW t \in Txs, Commit(t)
  PROVE  Later(db, db') /\ (db' = db \/ (holder = t /\ db' = View(t)))
<1>1. tx[t].pc = "commit" /\ db' = View(t) /\ db \in Rows
  BY DEF Commit, At, IInv, Sound
<1>2. CASE holder = t
  BY <1>1, <1>2 DEF IInv, Locks
<1>3. CASE holder # t
  <2>1. own[t] = Nothing
    BY <1>1, <1>3 DEF IInv, Locks
  <2>2. db' = db
    BY <1>1, <2>1, OverlayNothing DEF View
  <2>3. QED
    BY <2>2, LaterItself
<1>4. QED
  BY <1>2, <1>3

LEMMA TickKeeps ==
  ASSUME IInv, clock' \in Nat, UNCHANGED <<db, own, holder, tx>>
  PROVE  IInv'
<1>1. db' = db /\ own' = own /\ holder' = holder /\ tx' = tx
  OBVIOUS
<1>2. Asks' /\ Sound(db)'
  BY <1>1 DEF IInv, Asks
<1>3. ASSUME NEW s \in Txs PROVE View(s)' = View(s) /\ (Inserted(s) => Inserted(s)')
  BY <1>1 DEF View, Inserted
<1>4. Locks'
  BY <1>1, <1>3 DEF IInv, Locks
<1>5. QED
  BY <1>2, <1>4 DEF IInv

\* The invariant is inductive.
LEMMA StepKeeps ==
  ASSUME IInv, [Next]_vars
  PROVE  IInv'
<1>1. CASE UNCHANGED vars
  BY <1>1, TickKeeps DEF vars, IInv, Asks
<1>2. CASE Tick
  BY <1>2, TickKeeps DEF Tick, IInv, Asks
<1>3. ASSUME NEW t \in Txs, Begin(t) PROVE IInv'
  BY <1>3, BeginKeeps
<1>4. ASSUME NEW t \in Txs, Statement(t) PROVE IInv'
  BY <1>4, InsertKeeps, CreditKeeps, LockKeeps, ChargeKeeps, GrantKeeps, RefundKeeps, StatusKeeps
     DEF Statement
<1>5. ASSUME NEW t \in Txs, Commit(t) PROVE IInv'
  <2>1. /\ clock' = clock /\ own' = [own EXCEPT ![t] = Nothing] /\ tx' = [tx EXCEPT ![t] = NoTx]
        /\ holder' = IF holder = t THEN None ELSE holder
    BY <1>5 DEF Commit
  <2>2. QED
    BY <1>5, <2>1, CommitShows, Ended
<1>6. ASSUME NEW t \in Txs, Rollback(t) PROVE IInv'
  <2>1. /\ clock' = clock /\ own' = [own EXCEPT ![t] = Nothing] /\ tx' = [tx EXCEPT ![t] = NoTx]
        /\ db' = db
        /\ holder' = IF holder = t THEN None ELSE holder
    BY <1>6 DEF Rollback
  <2>2. QED
    BY <2>1, Ended
<1>7. QED
  BY <1>1, <1>2, <1>3, <1>4, <1>5, <1>6 DEF Next

LEMMA InitSound ==
  ASSUME Init
  PROVE  IInv
<1>1. /\ db.wallet = [balance |-> 0, earned |-> 0, spent |-> 0, refunded |-> 0, frozen |-> FALSE]
      /\ db.batch = [b \in Batches |-> NoBatch] /\ db.entry = [r \in Refs |-> 0]
      /\ db.lapsed = [b \in Batches |-> 0]
      /\ db.usage = [o \in Operations |-> [gross |-> 0, refunded |-> 0]]
      /\ db = [wallet |-> db.wallet, batch |-> db.batch, entry |-> db.entry, lapsed |-> db.lapsed,
               usage |-> db.usage]
  BY DEF Init
<1>2. db \in Rows
  <2>1. NoBatch \in BatchRows
    BY DEF NoBatch, BatchRows
  <2>2. /\ db.wallet \in Wallets /\ db.batch \in [Batches -> BatchRows] /\ db.entry \in [Refs -> Nat]
        /\ db.lapsed \in [Batches -> Nat] /\ db.usage \in [Operations -> [gross : Nat, refunded : Nat]]
    BY <1>1, <2>1 DEF Wallets
  <2>3. QED
    BY <1>1, <2>2 DEF Rows
<1>3. Active(db) = {}
  BY <1>1 DEF Active, NoBatch
<1>4. ASSUME NEW S \in SUBSET Refs PROVE SumOf(db.entry, S) = 0
  BY <1>1, RefsFinite, SumZero
<1>5. SumOf(db.lapsed, Batches) = 0 /\ SumOf(Left(db), Active(db)) = 0
  BY <1>1, <1>3, Kinds, RefsFinite, SumZero, SumEmpty
<1>6. ASSUME NEW o \in Operations
      PROVE  Gross(db, o) = 0 /\ Refunded(db, o) = 0 /\ db.usage[o] = [gross |-> 0, refunded |-> 0]
  <2> DEFINE C == {r \in Charges : Operation[r] = o}
             R == {r \in Refunds : Operation[r] = o}
  <2>1. C \in SUBSET Refs /\ R \in SUBSET Refs
    BY Kinds
  <2>2. Gross(db, o) = SumOf(db.entry, C) /\ Refunded(db, o) = SumOf(db.entry, R)
    BY TotalIsSum DEF Gross, Refunded
  <2> HIDE DEF C, R
  <2>3. QED
    BY <1>1, <1>4, <2>1, <2>2
<1>7. Marked(db)
  BY <1>1, Kinds DEF Marked
<1>8. Sound(db)
  <2>1. /\ SumOf(db.entry, Batches) = 0 /\ SumOf(db.entry, Charges) = 0 /\ SumOf(db.entry, Refunds) = 0
    BY <1>4, Kinds
  <2>2. QED
    BY <1>1, <1>2, <1>5, <1>6, <1>7, <2>1, SumsSound
<1>9. Asks
  <2>1. \A t \in Txs : tx[t].pc = "idle"
    BY DEF Init, NoTx
  <2>2. QED
    BY <2>1 DEF Init, Asks, NoTx
<1>10. Locks
  BY RefsAssumption DEF Init, Locks, NoTx, Locked
<1>11. QED
  BY <1>8, <1>9, <1>10 DEF IInv

-----------------------------------------------------------------------------
(* Theorems                                                                *)

\* The books are sound, committed and as the holder of the lock sees them,
\* in every state of every run, for any requests, amounts and transactions.
THEOREM BooksSound == Spec => []IInv
<1>1. IInv /\ [Next]_vars => IInv'
  BY StepKeeps
<1>2. QED
  BY <1>1, InitSound, PTL DEF Spec

\* Balance, batches, transactions and projections always agree, and no
\* operation gets back more than it was charged, whatever overlaps.
THEOREM LedgerIsExact == Spec => []LedgerExact
<1>1. IInv => LedgerExact
  BY DEF IInv, Sound, LedgerExact
<1>2. QED
  BY <1>1, BooksSound, PTL

\* A request once booked, a batch once closed and what lapsed never change
\* again, and a frozen wallet spends nothing.
THEOREM SettledStays == Spec => SettledForGood
<1>1. IInv /\ [Next]_vars => [Later(db, db')]_db
  <2> SUFFICES ASSUME IInv, [Next]_vars, db' # db PROVE Later(db, db')
    OBVIOUS
  <2>1. PICK t \in Txs : Commit(t)
    BY DEF Next, vars, Tick, Begin, Statement, Rollback, InsertPurchase, CreditPurchase, Lock,
           Charge, Grant, Refund, SetStatus
  <2>2. QED
    BY <2>1, CommitShows
<1>2. QED
  BY <1>1, BooksSound, PTL DEF Spec, SettledForGood
=============================================================================
