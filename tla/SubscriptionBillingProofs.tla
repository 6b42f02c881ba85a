----------------------- MODULE SubscriptionBillingProofs -----------------------
(***************************************************************************)
(* Proofs about the subscription receipts: for any number of requests and   *)
(* subscriptions, any amounts, any period, any bound on time and faults.    *)
(***************************************************************************)
EXTENDS SubscriptionBilling, TLAPS

-----------------------------------------------------------------------------
(* Facts about the operators.                                               *)

\* A reset row is a row, and holds no more than it held before.
LEMMA MaybeResetRow ==
    ASSUME NEW s \in SubRow, NEW now \in Int
    PROVE  /\ MaybeReset(s, now) \in SubRow
           /\ MaybeReset(s, now).used \in {s.used, 0}
<1> DEFINE base == now - ((now - s.last) % Period)
<1>1. s.last \in Int /\ s.used \in Int
    BY DEF SubRow
<1>2. base \in Int
    BY <1>1, TimesAssumption
<1>3. base + Period \in Int
    BY <1>2, TimesAssumption
<1>4. MaybeReset(s, now) =
        IF s.next > now THEN s
        ELSE [used |-> 0, last |-> base, next |-> base + Period, status |-> s.status]
    BY DEF MaybeReset
<1> HIDE DEF base
<1> QED
    BY <1>1, <1>2, <1>3, <1>4 DEF SubRow

\* The reservation of a receipt is an amount, and only "reserve" changes it.
LEMMA ReservedInt ==
    ASSUME NEW x \in Record
    PROVE  Reserved(x) \in Int
BY DEF Record, Reserved

\* What an overflowing settlement takes from the wallet is an amount.
LEMMA WalletPartInt ==
    ASSUME TypeOK, NEW x \in Record, x.owner \in Subs, NEW delta \in Int,
           NEW settle \in BOOLEAN, NEW allow \in BOOLEAN
    PROVE  WalletPart(x, delta, settle, allow) \in Int
<1>1. sub[x.owner].used \in Int /\ Total \in Int
    BY AmountsAssumption DEF TypeOK, SubRow
<1> QED
    BY <1>1 DEF WalletPart

\* Room keeps what is used between zero and the total.
LEMMA RoomKeepsBounds ==
    ASSUME TypeOK, UsedWithinTotal, NEW x \in Record, x.owner \in Subs,
           NEW d \in Int, Room(x, d)
    PROVE  sub[x.owner].used + d \in 0..Total
<1>1. sub[x.owner].used \in 0..Total /\ Total \in Int
    BY AmountsAssumption DEF UsedWithinTotal
<1> QED
    BY <1>1 DEF Room

-----------------------------------------------------------------------------
(* One accepted change of a receipt.                                        *)

\* What the three operations give to Commit: a row y that keeps owner and
\* type, and amounts that keep the receipt true if they are taken.
GoodChange(r, y, take) ==
    /\ rec[r].status = "consumed"
    /\ y \in Record /\ y.owner = rec[r].owner
    /\ y.status \in {"consumed"} \cup Terminal
    /\ take \in Account
    /\ sub[y.owner].used + take.sub \in 0..Total
    /\ LET m == Plus(moved[r], take)
           due == CASE y.status = "consumed" -> Reserved(y)
                    [] y.status = "settled"  -> y.settled
                    [] OTHER -> 0
       IN /\ m.sub + m.wallet = due
          /\ m.token = IF r \in Playground THEN 0 ELSE due
          /\ y.status = "settled" => Reserved(y) + y.subDelta = m.sub
                                     /\ y.walletDelta = m.wallet
          /\ y.status = "consumed" => m.wallet = 0

\* A committed or failed change leaves well-typed rows.
LEMMA CommitTyped ==
    ASSUME TypeOK, NEW r \in Requests, NEW y, NEW take, NEW oc \in Outcomes,
           GoodChange(r, y, take), Commit(r, y, take, oc)
    PROVE  TypeOK'
<1>0. y \in Record /\ y.owner \in Subs /\ take \in Account
    BY DEF GoodChange, TypeOK
<1>2. Key(y) \in [status : Status, reserved : Int, settled : Int]
    BY <1>0 DEF Key, Record
<1>3. /\ clock' \in Nat /\ faults' \in 0..MaxFaults
      /\ flagged' \subseteq Requests /\ fence' \subseteq Requests
      /\ unseen' \subseteq Requests
    BY TimesAssumption DEF Commit, TypeOK
<1>4. clear' \in [Requests -> [status : Status, reserved : Int, settled : Int]]
    <2>1. clear' = clear \/ clear' = [clear EXCEPT ![r] = Key(y)]
        BY DEF Commit
    <2> QED BY <1>2, <2>1 DEF TypeOK
<1>5. /\ rec' \in [Requests -> Record]
      /\ \A q \in Requests : rec'[q].status # "none" => rec'[q].owner \in Subs
    <2>1. rec' = rec \/ rec' = [rec EXCEPT ![r] = y]
        BY DEF Commit
    <2>2. CASE rec' = [rec EXCEPT ![r] = y]
        <3>1. \A q \in Requests : rec'[q] = IF q = r THEN y ELSE rec[q]
            BY <2>2 DEF TypeOK
        <3>2. rec' \in [Requests -> Record]
            BY <1>0, <2>2 DEF TypeOK
        <3> QED BY <1>0, <3>1, <3>2 DEF TypeOK
    <2>3. CASE rec' = rec
        BY <2>3 DEF TypeOK
    <2> QED BY <2>1, <2>2, <2>3
<1>6. sub' \in [Subs -> SubRow]
    <2>1. sub' = sub \/ sub' = [sub EXCEPT ![y.owner].used = @ + take.sub]
        BY DEF Commit
    <2>2. ASSUME NEW v \in Int
          PROVE  [sub[y.owner] EXCEPT !.used = v] \in SubRow
        BY <1>0 DEF TypeOK, SubRow
    <2>3. sub[y.owner].used + take.sub \in Int
        BY <1>0 DEF TypeOK, SubRow, Account
    <2> QED BY <1>0, <2>1, <2>2, <2>3 DEF TypeOK
<1>7. moved' \in [Requests -> Account]
    <2>1. moved' = moved \/ moved' = [moved EXCEPT ![r] = Plus(@, take)]
        BY DEF Commit
    <2>2. Plus(moved[r], take) \in Account
        BY <1>0 DEF TypeOK, Account, Plus
    <2> QED BY <2>1, <2>2 DEF TypeOK
<1>8. cur' \in [Requests -> Int]
    <2>1. cur' = cur \/ cur' = [cur EXCEPT ![r] = @ + take.sub]
        BY DEF Commit
    <2>2. cur[r] + take.sub \in Int
        BY <1>0 DEF TypeOK, Account
    <2> QED BY <2>1, <2>2 DEF TypeOK
<1> QED
    BY <1>3, <1>4, <1>5, <1>6, <1>7, <1>8 DEF TypeOK

\* What a change does to each receipt: nothing, or y and its amounts to r.
LEMMA CommitEffect ==
    ASSUME TypeOK, NEW r \in Requests, NEW y, NEW take, NEW oc \in Outcomes,
           GoodChange(r, y, take), Commit(r, y, take, oc)
    PROVE  /\ \A q \in Requests \ {r} :
                rec'[q] = rec[q] /\ moved'[q] = moved[q] /\ clear'[q] = clear[q]
                /\ (q \in fence' <=> q \in fence)
                /\ (q \in flagged' <=> q \in flagged)
           /\ \/ /\ rec'[r] = y /\ moved'[r] = Plus(moved[r], take)
                 /\ r \in flagged'
                 /\ sub' = [sub EXCEPT ![y.owner].used = @ + take.sub]
              \/ /\ rec'[r] = rec[r] /\ moved'[r] = moved[r] /\ sub' = sub
                 /\ clear'[r] = clear[r]
           /\ \/ clear'[r] = clear[r]
              \/ clear'[r] = Key(y) /\ r \notin fence'
<1>1. ASSUME NEW q \in Requests \ {r}
      PROVE  /\ rec'[q] = rec[q] /\ moved'[q] = moved[q] /\ clear'[q] = clear[q]
             /\ (q \in fence' <=> q \in fence)
             /\ (q \in flagged' <=> q \in flagged)
    <2>1. rec'[q] = rec[q] /\ moved'[q] = moved[q]
        BY DEF Commit, TypeOK
    <2>2. clear'[q] = clear[q]
        BY DEF Commit, TypeOK
    <2>3. (q \in fence' <=> q \in fence) /\ (q \in flagged' <=> q \in flagged)
        BY DEF Commit
    <2> QED BY <2>1, <2>2, <2>3
<1>2. \/ clear'[r] = clear[r]
      \/ clear'[r] = Key(y) /\ r \notin fence'
    BY DEF Commit, TypeOK, MayClear
<1>3. CASE oc \in {"ok", "unconfirmed", "late"}
    <2>1. /\ rec' = [rec EXCEPT ![r] = y]
          /\ moved' = [moved EXCEPT ![r] = Plus(@, take)]
          /\ flagged' = flagged \cup {r}
          /\ sub' = [sub EXCEPT ![y.owner].used = @ + take.sub]
        BY <1>3 DEF Commit
    <2>2. /\ rec'[r] = y /\ moved'[r] = Plus(moved[r], take)
          /\ r \in flagged'
        BY <2>1 DEF TypeOK
    <2> QED BY <1>1, <1>2, <2>1, <2>2
<1>4. CASE oc \notin {"ok", "unconfirmed", "late"}
    <2>1. UNCHANGED <<rec, moved, sub, clear>>
        BY <1>4 DEF Commit
    <2> QED BY <1>1, <1>2, <2>1
<1> QED BY <1>3, <1>4

\* A committed or failed change keeps the invariant.
LEMMA CommitReceipts ==
    ASSUME TypeOK, ReceiptInv, NEW r \in Requests, NEW y, NEW take,
           NEW oc \in Outcomes, GoodChange(r, y, take), Commit(r, y, take, oc)
    PROVE  ReceiptInv'
<1>0. /\ rec[r].status = "consumed" /\ y \in Record /\ y.owner \in Subs
      /\ y.status \in {"consumed"} \cup Terminal
    BY DEF GoodChange, TypeOK
<1>1. UsedWithinTotal'
    <2>1. \/ sub' = sub
          \/ sub' = [sub EXCEPT ![y.owner].used = @ + take.sub]
        BY CommitEffect
    <2>2. CASE sub' = [sub EXCEPT ![y.owner].used = @ + take.sub]
        <3>1. \A i \in Subs : sub'[i].used = IF i = y.owner
                                THEN sub[y.owner].used + take.sub ELSE sub[i].used
            BY <1>0, <2>2 DEF TypeOK, SubRow
        <3>2. sub[y.owner].used + take.sub \in 0..Total
            BY DEF GoodChange
        <3> QED BY <3>1, <3>2 DEF ReceiptInv, UsedWithinTotal
    <2>3. CASE sub' = sub
        BY <2>3 DEF ReceiptInv, UsedWithinTotal
    <2> QED BY <2>1, <2>2, <2>3
<1>2. ReceiptIsTruth'
    <2>1. SUFFICES ASSUME NEW q \in Requests PROVE ReceiptIsTruth!(q)'
        BY DEF ReceiptIsTruth
    <2>2. CASE rec'[q] = rec[q] /\ moved'[q] = moved[q]
        BY <2>2 DEF ReceiptInv, ReceiptIsTruth
    <2>3. CASE q = r /\ rec'[r] = y /\ moved'[r] = Plus(moved[r], take)
        BY <2>3 DEF GoodChange
    <2> QED BY <2>2, <2>3, CommitEffect
<1>3. WalletUntouched'
    <2>1. \A q \in Requests \ {r} : rec'[q] = rec[q] /\ moved'[q] = moved[q]
        BY CommitEffect
    <2>2. rec'[r].status = "consumed" => moved'[r].wallet = 0
        <3>1. y.status = "consumed" => Plus(moved[r], take).wallet = 0
            BY DEF GoodChange
        <3>2. moved[r].wallet = 0
            BY <1>0 DEF ReceiptInv, WalletUntouched
        <3>3. \/ rec'[r] = y /\ moved'[r] = Plus(moved[r], take)
              \/ moved'[r] = moved[r]
            BY CommitEffect
        <3> QED BY <3>1, <3>2, <3>3
    <2> QED BY <2>1, <2>2 DEF ReceiptInv, WalletUntouched
<1>4. EvidenceKept'
    <2>1. \A q \in Requests \ {r} : rec'[q] = rec[q] /\ (q \in fence' <=> q \in fence)
        BY CommitEffect
    <2>2. rec'[r] = rec[r] \/ rec'[r] = y
        BY CommitEffect
    <2>3. rec'[r].status # "gone"
        BY <1>0, <2>2 DEF Terminal
    <2> QED BY <2>1, <2>3 DEF ReceiptInv, EvidenceKept
<1>5. ClearIsOld'
    <2>1. \A q \in Requests \ {r} : rec'[q] = rec[q] /\ clear'[q] = clear[q]
        BY CommitEffect
    <2>2. clear[r].status \in {"none", "consumed"}
        BY <1>0 DEF ReceiptInv, ClearIsOld
    <2>3. Key(y).status = y.status
        BY DEF Key
    <2>4. \/ clear'[r] = clear[r]
          \/ rec'[r] = y /\ clear'[r] = Key(y)
        BY CommitEffect
    <2> QED BY <2>1, <2>2, <2>3, <2>4 DEF ReceiptInv, ClearIsOld
<1>6. FencedIsFlagged'
    <2>1. \A q \in Requests \ {r} :
            /\ rec'[q] = rec[q] /\ clear'[q] = clear[q]
            /\ (q \in fence' <=> q \in fence) /\ (q \in flagged' <=> q \in flagged)
        BY CommitEffect
    <2>2. clear[r].status \in {"none", "consumed"}
        BY <1>0 DEF ReceiptInv, ClearIsOld
    <2>3. rec'[r].status \in Terminal => r \in flagged'
        BY <1>0, CommitEffect DEF Terminal
    <2>4. r \in fence' => clear'[r] = clear[r]
        BY CommitEffect
    <2> QED BY <2>1, <2>2, <2>3, <2>4 DEF ReceiptInv, FencedIsFlagged
<1> QED
    BY <1>1, <1>2, <1>3, <1>4, <1>5, <1>6 DEF ReceiptInv

-----------------------------------------------------------------------------
(* The operations.                                                          *)

\* What a call that passes the checks may rely on.
LEMMA AcceptedFacts ==
    ASSUME TypeOK, ReceiptInv, NEW r \in Requests, NEW base \in Int,
           NEW delta \in Int, NEW wallet \in Int,
           Accepted(rec[r], base, delta, wallet)
    PROVE  /\ rec[r] \in Record /\ rec[r].owner \in Subs
           /\ rec[r].status = "consumed"
           /\ base > 0 /\ Reserved(rec[r]) = base
           /\ sub[rec[r].owner].used + (delta - wallet) \in 0..Total
           /\ moved[r] \in Account
           /\ moved[r].sub = base /\ moved[r].wallet = 0
           /\ moved[r].token = IF r \in Playground THEN 0 ELSE base
<1>1. rec[r].status = "consumed" /\ base > 0 /\ Reserved(rec[r]) = base
    BY DEF Accepted, Bound
<1>2. rec[r] \in Record /\ rec[r].owner \in Subs /\ moved[r] \in Account
    BY <1>1 DEF TypeOK
<1>3. sub[rec[r].owner].used + (delta - wallet) \in 0..Total
    <2>1. delta - wallet \in Int
        OBVIOUS
    <2> QED BY <1>2, <2>1, RoomKeepsBounds DEF Accepted, ReceiptInv
<1>4. /\ moved[r].sub + moved[r].wallet = base
      /\ moved[r].token = IF r \in Playground THEN 0 ELSE base
    BY <1>1 DEF ReceiptInv, ReceiptIsTruth
<1>5. moved[r].wallet = 0
    BY <1>1 DEF ReceiptInv, WalletUntouched
<1>6. moved[r].sub = base
    BY <1>2, <1>4, <1>5 DEF Account
<1> QED
    BY <1>1, <1>2, <1>3, <1>4, <1>5, <1>6

\* ReserveSubscriptionBilling keeps the invariant.
LEMMA ReserveStep ==
    ASSUME TypeOK, ReceiptInv, NEW r \in Requests, NEW base \in Int,
           NEW target \in Int, Reserve(r, base, target)
    PROVE  TypeOK' /\ ReceiptInv'
<1> DEFINE x == rec[r]
           delta == target - Reserved(x)
           y == [x EXCEPT !.reserved = target]
           take == Take(r, base, target, 0)
<1>0. x \in Record
    BY DEF TypeOK
<1>1. delta \in Int /\ Reserved(x) \in Int
    BY <1>0, ReservedInt
<1>2. delta > 0 /\ Accepted(x, base, delta, 0)
    BY DEF Reserve
<1>3. PICK oc \in Outcomes : Commit(r, y, take, oc)
    BY DEF Reserve
<1>4. /\ x.owner \in Subs /\ x.status = "consumed"
      /\ base > 0 /\ Reserved(x) = base
      /\ sub[x.owner].used + (delta - 0) \in 0..Total
      /\ moved[r] \in Account
      /\ moved[r].sub = base /\ moved[r].wallet = 0
      /\ moved[r].token = IF r \in Playground THEN 0 ELSE base
    BY <1>1, <1>2, AcceptedFacts
<1>5. GoodChange(r, y, take)
    <2>1. /\ y \in Record /\ y.owner = x.owner /\ y.status = "consumed"
          /\ y.reserved = target
        BY <1>0, <1>4 DEF Record
    <2>2. target > 0
        BY <1>1, <1>2, <1>4
    <2>3. Reserved(y) = target
        BY <2>1, <2>2 DEF Reserved
    <2>4. /\ take \in Account /\ take.wallet = 0 /\ take.sub = delta - 0
          /\ take.token = IF r \in Playground THEN 0 ELSE target - base
        BY <1>1, <1>4 DEF Take, Account
    <2>5. /\ Plus(moved[r], take).sub = target
          /\ Plus(moved[r], take).wallet = 0
          /\ Plus(moved[r], take).token = IF r \in Playground THEN 0 ELSE target
        BY <1>1, <1>4, <2>4 DEF Plus
    <2> HIDE DEF y, take, delta
    <2> QED
        BY <1>4, <2>1, <2>3, <2>4, <2>5 DEF GoodChange
<1> HIDE DEF y, take
<1> QED
    BY <1>3, <1>5, CommitTyped, CommitReceipts

\* SettleSubscriptionBilling, with or without overflow to the wallet, keeps it.
LEMMA SettleStep ==
    ASSUME TypeOK, ReceiptInv, NEW r \in Requests, NEW base \in Int,
           NEW actual \in Int, NEW allow \in BOOLEAN, Settle(r, base, actual, allow)
    PROVE  TypeOK' /\ ReceiptInv'
<1> DEFINE x == rec[r]
           delta == actual - Reserved(x)
           wallet == WalletPart(x, delta, TRUE, allow)
           part == delta - wallet
           y == [x EXCEPT !.status = "settled", !.reserved = Reserved(x), !.settled = actual,
                          !.subDelta = part, !.walletDelta = wallet]
           take == Take(r, base, actual, wallet)
<1>0. x \in Record
    BY DEF TypeOK
<1>1. delta \in Int /\ Reserved(x) \in Int
    BY <1>0, ReservedInt
<1>2. Accepted(x, base, delta, wallet)
    BY DEF Settle
<1>3. PICK oc \in Outcomes : Commit(r, y, take, oc)
    BY DEF Settle
<1>w. wallet \in Int
    <2>1. x.status = "consumed"
        BY <1>2 DEF Accepted, Bound
    <2>2. x.owner \in Subs
        BY <2>1 DEF TypeOK
    <2> HIDE DEF delta
    <2> QED BY <1>0, <1>1, <2>2, WalletPartInt
<1> HIDE DEF wallet
<1>4. /\ x.owner \in Subs /\ x.status = "consumed"
      /\ base > 0 /\ Reserved(x) = base
      /\ sub[x.owner].used + (delta - wallet) \in 0..Total
      /\ moved[r] \in Account
      /\ moved[r].sub = base /\ moved[r].wallet = 0
      /\ moved[r].token = IF r \in Playground THEN 0 ELSE base
    BY <1>1, <1>2, <1>w, AcceptedFacts
<1>5. GoodChange(r, y, take)
    <2>0. part \in Int
        BY <1>1, <1>w
    <2>2. /\ y \in Record /\ y.owner = x.owner /\ y.status = "settled"
          /\ y.reserved = Reserved(x) /\ y.settled = actual /\ y.subDelta = part
          /\ y.walletDelta = wallet
        <3> HIDE DEF part, x
        <3> QED BY <1>0, <1>1, <1>w, <2>0 DEF Record, Status, Terminal
    <2>3. Reserved(y) = base
        BY <1>4, <2>2 DEF Reserved
    <2>4. /\ take \in Account /\ take.wallet = wallet /\ take.sub = delta - wallet
          /\ take.token = IF r \in Playground THEN 0 ELSE actual - base
        BY <1>1, <1>4, <1>w DEF Take, Account
    <2>5. /\ Plus(moved[r], take).sub = base + (delta - wallet)
          /\ Plus(moved[r], take).wallet = wallet
          /\ Plus(moved[r], take).sub + wallet = actual
          /\ Plus(moved[r], take).token = IF r \in Playground THEN 0 ELSE actual
        BY <1>1, <1>4, <1>w, <2>4 DEF Plus
    <2> HIDE DEF y, take, delta
    <2> QED
        BY <1>4, <2>2, <2>3, <2>4, <2>5 DEF GoodChange, Terminal
<1> HIDE DEF y, take
<1> QED
    BY <1>3, <1>5, CommitTyped, CommitReceipts

\* RefundSubscriptionBilling keeps it.
LEMMA RefundStep ==
    ASSUME TypeOK, ReceiptInv, NEW r \in Requests, NEW base \in Int, Refund(r, base)
    PROVE  TypeOK' /\ ReceiptInv'
<1> DEFINE x == rec[r]
           delta == -Reserved(x)
           y == [x EXCEPT !.status = "refunded", !.reserved = Reserved(x), !.subDelta = delta]
           take == Take(r, base, 0, 0)
<1>0. x \in Record
    BY DEF TypeOK
<1>1. delta \in Int /\ Reserved(x) \in Int
    BY <1>0, ReservedInt
<1>2. Accepted(x, base, delta, 0)
    BY DEF Refund
<1>3. PICK oc \in Outcomes : Commit(r, y, take, oc)
    BY DEF Refund
<1>4. /\ x.owner \in Subs /\ x.status = "consumed"
      /\ base > 0 /\ Reserved(x) = base
      /\ sub[x.owner].used + (delta - 0) \in 0..Total
      /\ moved[r] \in Account
      /\ moved[r].sub = base /\ moved[r].wallet = 0
      /\ moved[r].token = IF r \in Playground THEN 0 ELSE base
    BY <1>1, <1>2, AcceptedFacts
<1>5. GoodChange(r, y, take)
    <2>1. ASSUME NEW b \in Int, NEW d \in Int
          PROVE  LET z == [x EXCEPT !.status = "refunded", !.reserved = b, !.subDelta = d]
                 IN z \in Record /\ z.owner = x.owner /\ z.status = "refunded"
        BY <1>0 DEF Record, Status, Terminal
    <2>2. y \in Record /\ y.owner = x.owner /\ y.status = "refunded"
        BY <1>1, <2>1
    <2>4. /\ take \in Account /\ take.wallet = 0 /\ take.sub = delta - 0
          /\ take.token = IF r \in Playground THEN 0 ELSE -base
        BY <1>1, <1>4 DEF Take, Account
    <2>5. /\ Plus(moved[r], take).sub = 0
          /\ Plus(moved[r], take).wallet = 0
          /\ Plus(moved[r], take).token = 0
        BY <1>1, <1>4, <2>4 DEF Plus
    <2> HIDE DEF y, take, delta
    <2> QED
        BY <1>4, <2>2, <2>4, <2>5 DEF GoodChange, Terminal
<1> HIDE DEF y, take
<1> QED
    BY <1>3, <1>5, CommitTyped, CommitReceipts

\* Steps that touch no receipt.
LEMMA ReceiptsKept ==
    ASSUME ReceiptInv, UsedWithinTotal', UNCHANGED <<rec, moved, clear, fence, flagged>>
    PROVE  ReceiptInv'
BY DEF ReceiptInv, ReceiptIsTruth, WalletUntouched, EvidenceKept, ClearIsOld, FencedIsFlagged

\* A row replaced by one that is within its total.
LEMMA SubReplaced ==
    ASSUME TypeOK, UsedWithinTotal, NEW i \in Subs, NEW s \in SubRow,
           s.used \in 0..Total, sub' = [sub EXCEPT ![i] = s]
    PROVE  sub' \in [Subs -> SubRow] /\ UsedWithinTotal'
<1>1. sub' \in [Subs -> SubRow]
    BY DEF TypeOK
<1>2. \A j \in Subs : sub'[j] = IF j = i THEN s ELSE sub[j]
    BY DEF TypeOK
<1> QED BY <1>1, <1>2 DEF UsedWithinTotal

\* Shares stay integers after a reset.
LEMMA ForgetTyped ==
    ASSUME TypeOK, NEW rs
    PROVE  Forget(rs) \in [Requests -> Int]
BY DEF TypeOK, Forget

\* Due resets, admin resets and expiry keep it.
LEMMA ResetStep ==
    ASSUME TypeOK, ReceiptInv, NEW i \in Subs,
           ResetDue(i) \/ Expire(i) \/ \E m \in AdminResets : AdminReset(i, m)
    PROVE  TypeOK' /\ ReceiptInv'
<1>0. /\ sub[i] \in SubRow /\ sub[i].used \in 0..Total
      /\ clock \in Int /\ clock + Period \in Int /\ 0 \in 0..Total
    BY TimesAssumption, AmountsAssumption DEF TypeOK, ReceiptInv, UsedWithinTotal
<1>1. \E s \in SubRow : s.used \in 0..Total /\ sub' = [sub EXCEPT ![i] = s]
    <2>1. CASE ResetDue(i)
        <3>1. MaybeReset(sub[i], clock) \in SubRow
            BY <1>0, MaybeResetRow
        <3>2. MaybeReset(sub[i], clock).used \in 0..Total
            BY <1>0, MaybeResetRow
        <3>3. sub' = [sub EXCEPT ![i] = MaybeReset(sub[i], clock)]
            BY <2>1 DEF ResetDue
        <3> QED BY <3>1, <3>2, <3>3
    <2>2. CASE Expire(i)
        <3> DEFINE s == [sub[i] EXCEPT !.status = "expired"]
        <3>1. s \in SubRow /\ s.used = sub[i].used
            BY <1>0 DEF SubRow
        <3>2. sub' = [sub EXCEPT ![i] = s]
            BY <2>2 DEF Expire
        <3> HIDE DEF s
        <3> QED BY <1>0, <3>1, <3>2
    <2>3. ASSUME NEW m \in AdminResets, AdminReset(i, m)
          PROVE  \E s \in SubRow : s.used \in 0..Total /\ sub' = [sub EXCEPT ![i] = s]
        <3>1. CASE m = "keep"
            <4> DEFINE s == [sub[i] EXCEPT !.used = 0]
            <4>1. s \in SubRow /\ s.used = 0
                BY <1>0 DEF SubRow
            <4>2. sub' = [sub EXCEPT ![i] = s]
                BY <2>3, <3>1 DEF AdminReset
            <4> HIDE DEF s
            <4> QED BY <1>0, <4>1, <4>2
        <3>2. CASE m # "keep"
            <4> DEFINE k == [sub[i] EXCEPT !.used = 0]
                       s == [k EXCEPT !.last = clock, !.next = clock + Period]
            <4>1. k \in SubRow /\ k.used = 0
                BY <1>0 DEF SubRow
            <4>2. sub' = [sub EXCEPT ![i] = s]
                BY <2>3, <3>2 DEF AdminReset
            <4> HIDE DEF k
            <4>3. s \in SubRow /\ s.used = k.used
                BY <1>0, <4>1 DEF SubRow
            <4> HIDE DEF s
            <4> QED BY <1>0, <4>1, <4>2, <4>3
        <3> QED BY <3>1, <3>2
    <2> QED BY <2>1, <2>2, <2>3
<1>2. sub' \in [Subs -> SubRow] /\ UsedWithinTotal'
    BY <1>1, SubReplaced DEF ReceiptInv
<1>3. cur' = cur \/ cur' = Forget({i})
    BY DEF ResetDue, Expire, AdminReset
<1>4. cur' \in [Requests -> Int]
    BY <1>3, ForgetTyped DEF TypeOK
<1>5. UNCHANGED <<clock, rec, flagged, fence, clear, moved, faults>>
    BY DEF ResetDue, Expire, AdminReset
<1>6. TypeOK'
    <2>1. unseen' = unseen \/ \E u : unseen' = unseen \cup Undated(i, u)
        BY DEF ResetDue, Expire, AdminReset
    <2>2. unseen' \subseteq Requests
        BY <2>1 DEF TypeOK, Undated
    <2> QED BY <1>2, <1>4, <1>5, <2>2 DEF TypeOK
<1> QED
    BY <1>2, <1>5, <1>6, ReceiptsKept

\* PreConsumeUserSubscription, with the resets it makes on its way, keeps it.
LEMMA PreConsumeStep ==
    ASSUME TypeOK, ReceiptInv, NEW r \in Requests, NEW n \in Int, PreConsume(r, n)
    PROVE  TypeOK' /\ ReceiptInv'
<1> DEFINE row(i) == [NoRecord EXCEPT !.status = "consumed", !.owner = i,
                                      !.pre = n, !.created = clock]
           took == [sub |-> n, wallet |-> 0, token |-> IF r \in Playground THEN 0 ELSE n]
<1>0. PICK now \in Nows, i \in Subs : Fits(i, n, now) /\ Charge(r, n, now, i)
    BY DEF PreConsume
<1>n. now \in Int
    BY DEF TypeOK, Nows
<1>1. /\ n > 0 /\ rec[r].status = "none"
      /\ UNCHANGED <<clock, flagged, fence, clear, faults>>
    BY <1>0 DEF PreConsume, Charge
<1>2. /\ Total - Fresh(now)[i].used >= n
      /\ sub' = [j \in Subs |-> IF j = i THEN [Fresh(now)[i] EXCEPT !.used = @ + n]
                                ELSE IF j \in Seen(i) THEN Fresh(now)[j] ELSE sub[j]]
      /\ rec' = [rec EXCEPT ![r] = row(i)]
      /\ cur' = [Forget({j \in Seen(i) : Fresh(now)[j] # sub[j]}) EXCEPT ![r] = n]
      /\ moved' = [moved EXCEPT ![r] = took]
    BY <1>0 DEF Fits, Charge
<1>3. ASSUME NEW j \in Subs
      PROVE  Fresh(now)[j] \in SubRow /\ Fresh(now)[j].used \in 0..Total
    <2>1. sub[j] \in SubRow /\ sub[j].used \in 0..Total
        BY DEF TypeOK, ReceiptInv, UsedWithinTotal
    <2>2. 0 \in 0..Total
        BY AmountsAssumption
    <2> QED BY <1>n, <2>1, <2>2, MaybeResetRow DEF Fresh
<1>4. sub' \in [Subs -> SubRow] /\ UsedWithinTotal'
    <2> DEFINE v == Fresh(now)[i].used + n
    <2>1. v \in 0..Total
        BY <1>1, <1>2, <1>3, AmountsAssumption
    <2> HIDE DEF v
    <2>2. [Fresh(now)[i] EXCEPT !.used = v] \in SubRow
          /\ [Fresh(now)[i] EXCEPT !.used = v].used = v
        BY <1>3, <2>1 DEF SubRow
    <2>3. \A j \in Subs : sub'[j] = IF j = i THEN [Fresh(now)[i] EXCEPT !.used = v]
                                    ELSE IF j \in Seen(i) THEN Fresh(now)[j] ELSE sub[j]
        BY <1>2 DEF v
    <2>4. \A j \in Subs : sub'[j] \in SubRow /\ sub'[j].used \in 0..Total
        <3>1. \A j \in Subs : sub[j] \in SubRow /\ sub[j].used \in 0..Total
            BY DEF TypeOK, ReceiptInv, UsedWithinTotal
        <3> QED BY <1>3, <2>1, <2>2, <2>3, <3>1
    <2>5. sub' = [j \in Subs |-> sub'[j]]
        BY <1>2
    <2> QED BY <2>4, <2>5 DEF UsedWithinTotal
<1>5. /\ row(i) \in Record /\ row(i).status = "consumed" /\ row(i).owner = i
      /\ row(i).reserved = 0 /\ row(i).pre = n
    <2>1. NoRecord \in Record /\ NoRecord.reserved = 0
        BY DEF NoRecord, Record, Status
    <2>2. clock \in Int /\ i \in Subs \cup {0} /\ "consumed" \in Status
        BY DEF TypeOK, Status
    <2> QED BY <2>1, <2>2 DEF Record
<1>6. /\ took \in Account /\ took.sub = n /\ took.wallet = 0
      /\ took.token = IF r \in Playground THEN 0 ELSE n
    BY DEF Account
<1> HIDE DEF row, took
<1>7. /\ \A q \in Requests \ {r} : rec'[q] = rec[q] /\ moved'[q] = moved[q]
      /\ rec'[r] = row(i) /\ moved'[r] = took
    BY <1>2 DEF TypeOK
<1>8. TypeOK'
    <2>1. rec' \in [Requests -> Record] /\ moved' \in [Requests -> Account]
        BY <1>2, <1>5, <1>6 DEF TypeOK
    <2>2. \A q \in Requests : rec'[q].status # "none" => rec'[q].owner \in Subs
        BY <1>5, <1>7 DEF TypeOK
    <2>3. cur' \in [Requests -> Int]
        BY <1>2, ForgetTyped
    <2>4. unseen' \subseteq Requests
        BY <1>0 DEF Charge, TypeOK
    <2> QED BY <1>1, <1>4, <2>1, <2>2, <2>3, <2>4 DEF TypeOK
<1>9. ReceiptIsTruth'
    <2>1. SUFFICES ASSUME NEW q \in Requests PROVE ReceiptIsTruth!(q)'
        BY DEF ReceiptIsTruth
    <2>2. CASE q = r
        <3>1. Reserved(row(i)) = n
            BY <1>5 DEF Reserved
        <3> QED BY <1>5, <1>6, <1>7, <2>2, <3>1
    <2>3. CASE q # r
        BY <1>7, <2>3 DEF ReceiptInv, ReceiptIsTruth
    <2> QED BY <2>2, <2>3
<1>10. WalletUntouched' /\ EvidenceKept' /\ ClearIsOld' /\ FencedIsFlagged'
    BY <1>1, <1>5, <1>6, <1>7 DEF ReceiptInv, WalletUntouched, EvidenceKept, ClearIsOld,
                                  FencedIsFlagged, Terminal
<1> QED
    BY <1>4, <1>8, <1>9, <1>10 DEF ReceiptInv

\* The late UPDATE of the retention flag keeps it.
LEMMA ClearFlagStep ==
    ASSUME TypeOK, ReceiptInv, NEW r \in Requests, ClearFlag(r)
    PROVE  TypeOK' /\ ReceiptInv'
<1>1. /\ clear' = [clear EXCEPT ![r] = Key(NoRecord)]
      /\ flagged' = IF Key(rec[r]) = clear[r] THEN flagged \ {r} ELSE flagged
      /\ UNCHANGED <<clock, sub, rec, fence, moved, cur, unseen, faults>>
    BY DEF ClearFlag
<1>2. /\ Key(NoRecord).status = "none"
      /\ Key(NoRecord) \in [status : Status, reserved : Int, settled : Int]
    BY DEF Key, NoRecord, Status
<1>3. \A q \in Requests : clear'[q] = IF q = r THEN Key(NoRecord) ELSE clear[q]
    BY <1>1 DEF TypeOK
<1>4. TypeOK'
    <2>1. clear' \in [Requests -> [status : Status, reserved : Int, settled : Int]]
        BY <1>1, <1>2 DEF TypeOK
    <2>2. flagged' \subseteq Requests
        BY <1>1 DEF TypeOK
    <2> QED BY <1>1, <2>1, <2>2 DEF TypeOK
<1>5. UsedWithinTotal' /\ ReceiptIsTruth' /\ WalletUntouched' /\ EvidenceKept'
    BY <1>1 DEF ReceiptInv, UsedWithinTotal, ReceiptIsTruth, WalletUntouched, EvidenceKept
<1>6. ClearIsOld'
    BY <1>1, <1>2, <1>3 DEF ReceiptInv, ClearIsOld
<1>7. FencedIsFlagged'
    <2>1. SUFFICES ASSUME NEW q \in Requests, rec[q].status \in Terminal, q \in fence
                   PROVE  q \in flagged' /\ clear'[q].status \in {"none", "consumed"}
        BY <1>1 DEF FencedIsFlagged
    <2>2. q \in flagged /\ clear[q].status \in {"none", "consumed"}
        BY <2>1 DEF ReceiptInv, FencedIsFlagged
    <2>3. Key(rec[q]).status = rec[q].status
        BY DEF Key
    <2>4. Key(rec[q]) # clear[q]
        BY <2>1, <2>2, <2>3 DEF Terminal
    <2> QED BY <1>1, <1>2, <1>3, <2>2, <2>4
<1> QED
    BY <1>4, <1>5, <1>6, <1>7 DEF ReceiptInv

\* CleanupSubscriptionPreConsumeRecords keeps it.
LEMMA CleanupStep ==
    ASSUME TypeOK, ReceiptInv, NEW r \in Requests, Cleanup(r)
    PROVE  TypeOK' /\ ReceiptInv'
<1>1. /\ rec[r].status \in Terminal /\ r \notin flagged
      /\ rec' = [rec EXCEPT ![r].status = "gone"]
      /\ UNCHANGED <<clock, sub, flagged, fence, clear, moved, cur, unseen, faults>>
    BY DEF Cleanup
<1>2. [rec[r] EXCEPT !.status = "gone"] \in Record
    <2>1. rec[r] \in Record /\ "gone" \in Status
        BY DEF TypeOK, Status
    <2> QED BY <2>1 DEF Record
<1>3. /\ \A q \in Requests \ {r} : rec'[q] = rec[q]
      /\ rec'[r].status = "gone" /\ rec'[r].owner = rec[r].owner
    BY <1>1 DEF TypeOK, Record
<1>4. r \notin fence
    BY <1>1 DEF ReceiptInv, FencedIsFlagged
<1>5. TypeOK'
    <2>1. rec' \in [Requests -> Record]
        BY <1>1, <1>2 DEF TypeOK
    <2>2. \A q \in Requests : rec'[q].status # "none" => rec'[q].owner \in Subs
        BY <1>1, <1>3 DEF TypeOK, Terminal
    <2> QED BY <1>1, <2>1, <2>2 DEF TypeOK
<1>6. UsedWithinTotal' /\ WalletUntouched' /\ EvidenceKept' /\ ClearIsOld' /\ FencedIsFlagged'
    BY <1>1, <1>3, <1>4 DEF ReceiptInv, UsedWithinTotal, WalletUntouched, EvidenceKept,
                            ClearIsOld, FencedIsFlagged, Terminal
<1>7. ReceiptIsTruth'
    <2>1. SUFFICES ASSUME NEW q \in Requests PROVE ReceiptIsTruth!(q)'
        BY DEF ReceiptIsTruth
    <2>2. CASE q = r
        BY <1>3, <2>2 DEF Terminal
    <2>3. CASE q # r
        BY <1>1, <1>3, <2>3 DEF ReceiptInv, ReceiptIsTruth
    <2> QED BY <2>2, <2>3
<1> QED
    BY <1>5, <1>6, <1>7 DEF ReceiptInv

-----------------------------------------------------------------------------
(* The theorems.                                                            *)

\* The invariant holds of a new user.
LEMMA InitReceipts == Init => TypeOK /\ ReceiptInv
<1> SUFFICES ASSUME Init PROVE TypeOK /\ ReceiptInv
    OBVIOUS
<1>1. NoRecord \in Record /\ NoRecord.status = "none"
    BY DEF NoRecord, Record, Status
<1>2. /\ Key(NoRecord) \in [status : Status, reserved : Int, settled : Int]
      /\ Key(NoRecord).status = "none"
    BY DEF Key, NoRecord, Status
<1>3. ASSUME NEW i \in Subs
      PROVE  sub[i] \in SubRow /\ sub[i].used \in 0..Total
    <2>1. Period \in Int /\ 0 \in 0..Total
        BY TimesAssumption, AmountsAssumption
    <2> QED BY <2>1 DEF Init, SubRow
<1>4. sub \in [Subs -> SubRow]
    BY <1>3 DEF Init
<1>5. moved \in [Requests -> Account]
    BY DEF Init, Account
<1>6. /\ rec = [r \in Requests |-> NoRecord]
      /\ clear = [r \in Requests |-> Key(NoRecord)]
      /\ cur \in [Requests -> Int]
      /\ clock \in Nat /\ flagged = {} /\ fence = {} /\ faults \in 0..MaxFaults
      /\ unseen \subseteq Requests
    BY TimesAssumption DEF Init
<1>7. TypeOK
    BY <1>1, <1>2, <1>4, <1>5, <1>6 DEF TypeOK
<1>8. /\ UsedWithinTotal /\ WalletUntouched /\ EvidenceKept /\ ClearIsOld
      /\ FencedIsFlagged
    BY <1>1, <1>2, <1>3, <1>6 DEF UsedWithinTotal, WalletUntouched, EvidenceKept,
                                  ClearIsOld, FencedIsFlagged, Terminal
<1>9. ReceiptIsTruth
    BY <1>1, <1>6 DEF ReceiptIsTruth, Terminal
<1> QED
    BY <1>7, <1>8, <1>9 DEF ReceiptInv

\* Every step keeps the invariant.
LEMMA NextReceipts ==
    ASSUME TypeOK, ReceiptInv, [Next]_vars
    PROVE  TypeOK' /\ ReceiptInv'
<1>q. Quotas \subseteq Int
    BY AmountsAssumption
<1>1. CASE UNCHANGED vars
    <2>1. TypeOK'
        BY <1>1 DEF vars, TypeOK
    <2>2. UsedWithinTotal'
        BY <1>1 DEF vars, ReceiptInv, UsedWithinTotal
    <2> QED BY <1>1, <2>1, <2>2, ReceiptsKept DEF vars
<1>2. CASE Tick
    <2>1. TypeOK'
        BY <1>2 DEF Tick, TypeOK
    <2>2. UsedWithinTotal'
        BY <1>2 DEF Tick, ReceiptInv, UsedWithinTotal
    <2> QED BY <1>2, <2>1, <2>2, ReceiptsKept DEF Tick
<1>3. ASSUME NEW i \in Subs,
             ResetDue(i) \/ Expire(i) \/ \E m \in AdminResets : AdminReset(i, m)
      PROVE  TypeOK' /\ ReceiptInv'
    BY <1>3, ResetStep
<1>4. ASSUME NEW r \in Requests, ClearFlag(r) \/ Cleanup(r)
      PROVE  TypeOK' /\ ReceiptInv'
    BY <1>4, ClearFlagStep, CleanupStep
<1>5. ASSUME NEW r \in Requests, NEW n \in Quotas, PreConsume(r, n) \/ Refund(r, n)
      PROVE  TypeOK' /\ ReceiptInv'
    BY <1>q, <1>5, PreConsumeStep, RefundStep
<1>6. ASSUME NEW r \in Requests, NEW b \in Quotas, NEW n \in Quotas,
             Reserve(r, b, n) \/ \E allow \in BOOLEAN : Settle(r, b, n, allow)
      PROVE  TypeOK' /\ ReceiptInv'
    BY <1>q, <1>6, ReserveStep, SettleStep
<1> QED
    BY <1>1, <1>2, <1>3, <1>4, <1>5, <1>6 DEF Next

\* For any subscriptions, requests, amounts and faults, the state is well typed
\* and ReceiptInv holds whatever calls are repeated, reordered or lost.
THEOREM ReceiptsInductive == Spec => [](TypeOK /\ ReceiptInv)
<1>1. Init => TypeOK /\ ReceiptInv
    BY InitReceipts
<1>2. (TypeOK /\ ReceiptInv) /\ [Next]_vars => (TypeOK /\ ReceiptInv)'
    BY NextReceipts
<1> QED
    BY <1>1, <1>2, PTL DEF Spec

\* The rows keep their types: a cleaned-up receipt has no status of its own.
THEOREM RowsTyped == Spec => []TypeOK
BY ReceiptsInductive, PTL

\* No interleaving of charges, overflowing settlements, refunds and resets takes
\* amount_used of a subscription below zero or above amount_total.
THEOREM UsageWithinTotal == Spec => []UsedWithinTotal
<1>1. ReceiptInv => UsedWithinTotal
    BY DEF ReceiptInv
<1> QED BY <1>1, ReceiptsInductive, PTL

\* The receipt row tells what its request has taken from subscription, wallet
\* and token, after any sequence of changeSubscriptionBilling calls.
THEOREM ReceiptTellsTruth == Spec => []ReceiptIsTruth
<1>1. ReceiptInv => ReceiptIsTruth
    BY DEF ReceiptInv
<1> QED BY <1>1, ReceiptsInductive, PTL

\* CleanupSubscriptionPreConsumeRecords never removes the receipt of a request
\* that still has a fence in Redis.
THEOREM EvidenceIsKept == Spec => []EvidenceKept
<1>1. ReceiptInv => EvidenceKept
    BY DEF ReceiptInv
<1> QED BY <1>1, ReceiptsInductive, PTL

\* A change concerns one receipt, and only a consumed one.
LEMMA ChangeIsLocal ==
    ASSUME TypeOK, NEW r \in Requests, NEW b \in Quotas, NEW n \in Quotas,
           Refund(r, n) \/ Reserve(r, b, n) \/ \E allow \in BOOLEAN : Settle(r, b, n, allow)
    PROVE  /\ rec[r].status = "consumed"
           /\ \A q \in Requests \ {r} : rec'[q] = rec[q] /\ moved'[q] = moved[q]
<1>1. ASSUME NEW y, NEW take, NEW oc, Commit(r, y, take, oc)
      PROVE  \A q \in Requests \ {r} : rec'[q] = rec[q] /\ moved'[q] = moved[q]
    BY <1>1 DEF TypeOK, Commit
<1>2. CASE Refund(r, n)
    BY <1>1, <1>2 DEF Refund, Accepted, Bound
<1>3. CASE Reserve(r, b, n)
    BY <1>1, <1>3 DEF Reserve, Accepted, Bound
<1>4. ASSUME NEW allow \in BOOLEAN, Settle(r, b, n, allow)
      PROVE  /\ rec[r].status = "consumed"
             /\ \A q \in Requests \ {r} : rec'[q] = rec[q] /\ moved'[q] = moved[q]
    BY <1>1, <1>4 DEF Settle, Accepted, Bound
<1> QED BY <1>2, <1>3, <1>4

\* A late duplicate of any call finds a settled or refunded receipt terminal:
\* no step changes its verdict, its amounts or what was moved.
THEOREM TerminalReceiptFrozen == Spec => TerminalFrozen
<1>1. TypeOK /\ [Next]_vars => [\A r \in Requests : rec[r].status \in Terminal =>
                                  /\ rec'[r].status \in {rec[r].status, "gone"}
                                  /\ rec'[r].settled = rec[r].settled
                                  /\ moved'[r] = moved[r]]_vars
    <2>1. SUFFICES ASSUME TypeOK, Next, NEW q \in Requests, rec[q].status \in Terminal
                   PROVE  /\ rec'[q].status \in {rec[q].status, "gone"}
                          /\ rec'[q].settled = rec[q].settled
                          /\ moved'[q] = moved[q]
        BY DEF vars
    <2>2. CASE Tick
        BY <2>2 DEF Tick
    <2>3. ASSUME NEW i \in Subs,
                 ResetDue(i) \/ Expire(i) \/ \E m \in AdminResets : AdminReset(i, m)
          PROVE  UNCHANGED <<rec, moved>>
        BY <2>3 DEF ResetDue, Expire, AdminReset
    <2>4. ASSUME NEW r \in Requests, ClearFlag(r)
          PROVE  UNCHANGED <<rec, moved>>
        BY <2>4 DEF ClearFlag
    <2>5. ASSUME NEW r \in Requests, Cleanup(r)
          PROVE  /\ rec'[q].status \in {rec[q].status, "gone"}
                 /\ rec'[q].settled = rec[q].settled
                 /\ moved'[q] = moved[q]
        BY <2>5 DEF TypeOK, Record, Cleanup
    <2>6. ASSUME NEW r \in Requests, NEW n \in Quotas, PreConsume(r, n)
          PROVE  rec'[q] = rec[q] /\ moved'[q] = moved[q]
        <3>1. q # r
            BY <2>1, <2>6 DEF PreConsume, Terminal
        <3>2. PICK now \in Nows, i \in Subs : Charge(r, n, now, i)
            BY <2>6 DEF PreConsume
        <3> QED BY <3>1, <3>2 DEF TypeOK, Charge
    <2>7. ASSUME NEW r \in Requests, NEW b \in Quotas, NEW n \in Quotas,
                 Refund(r, n) \/ Reserve(r, b, n) \/ \E allow \in BOOLEAN : Settle(r, b, n, allow)
          PROVE  rec'[q] = rec[q] /\ moved'[q] = moved[q]
        BY <2>1, <2>7, ChangeIsLocal DEF Terminal
    <2> QED
        BY <2>1, <2>2, <2>3, <2>4, <2>5, <2>6, <2>7 DEF Next
<1> QED
    BY <1>1, RowsTyped, PTL DEF Spec, TerminalFrozen

-----------------------------------------------------------------------------
(* What is given back belongs to the period it was charged in, but for the  *)
(* requests with a reset that the reset times do not show.                   *)

\* A period boundary: the largest multiple of p that is not above d is one
\* period or more if d is.
LEMMA WholePeriods ==
    ASSUME NEW p \in Nat \ {0}, NEW d \in Int, d >= p
    PROVE  d % p \in 0..(p - 1) /\ d - (d % p) >= p
<1> DEFINE k == d \div p
           m == d % p
<1>1. m \in 0..(p - 1) /\ k \in Int /\ d = p * k + m
    OBVIOUS
<1> HIDE DEF k, m
<1>2. p * k >= p
    <2>1. CASE k >= 1
        BY <2>1, <1>1
    <2>2. CASE k <= 0
        <3>1. p * k <= 0
            BY <2>2, <1>1
        <3> QED BY <1>1, <3>1
    <2> QED BY <1>1, <2>1, <2>2
<1>3. p * k \in Int
    BY <1>1
<1>4. d - m >= p
    BY <1>1, <1>2, <1>3
<1> QED BY <1>1, <1>4 DEF m

\* maybeResetUserSubscriptionWithPlanTx leaves a row whose period contains now,
\* untouched or with a period that starts no earlier than the old one ends.
LEMMA ResetPeriod ==
    ASSUME NEW s \in SubRow, NEW now \in Int, s.next = s.last + Period
    PROVE  /\ MaybeReset(s, now).next = MaybeReset(s, now).last + Period
           /\ MaybeReset(s, now).next > now
           /\ \/ MaybeReset(s, now) = s
              \/ MaybeReset(s, now).last >= s.next /\ MaybeReset(s, now) # s
<1> DEFINE z == MaybeReset(s, now)
           m == (now - s.last) % Period
<1>0. s.last \in Int /\ s.next \in Int /\ Period \in Nat \ {0} /\ Period \in Int
    BY TimesAssumption DEF SubRow
<1>1. z = IF s.next > now THEN s
          ELSE [used |-> 0, last |-> now - m, next |-> now - m + Period, status |-> s.status]
    BY DEF MaybeReset
<1>2. CASE s.next > now
    BY <1>1, <1>2
<1>3. CASE ~(s.next > now)
    <2>1. now - s.last \in Int /\ now - s.last >= Period
        BY <1>0, <1>3
    <2>2. m \in 0..(Period - 1) /\ (now - s.last) - m >= Period
        BY <1>0, <2>1, WholePeriods
    <2>3. z.last = now - m /\ z.next = now - m + Period
        BY <1>1, <1>3
    <2> HIDE DEF m, z
    <2>4. z.next = z.last + Period /\ z.next > now /\ z.last >= s.next
        BY <1>0, <2>2, <2>3
    <2>5. z # s
        BY <1>0, <2>4, <2>2, <2>3
    <2> QED BY <2>4, <2>5 DEF z
<1> QED BY <1>2, <1>3

\* What PeriodInv says of one receipt, and of those it is about.
Share(q) ==
    /\ cur[q] >= 0
    /\ rec[q].status = "consumed" =>
        /\ rec[q].created < sub[rec[q].owner].next
        /\ sub[rec[q].owner].last <= rec[q].created => cur[q] = moved[q].sub

\* PeriodInv, receipt by receipt.
LEMMA PeriodParts ==
    PeriodInv <=> PeriodsLine /\ CreatedInPast /\ \A q \in Requests \ unseen : Share(q)
BY DEF PeriodInv, CreatedBeforeNext, OwnShare, SeenResetsAreSafe, Share

\* A row whose period stays, or starts anew after it has ended.
SamePeriods(i) == sub'[i].last = sub[i].last /\ sub'[i].next = sub[i].next
LaterPeriod(i) == sub'[i].last >= sub[i].next /\ sub'[i].next = sub'[i].last + Period

\* A receipt that is not written keeps its share, or loses it to a later period.
LEMMA ShareKept ==
    ASSUME TypeOK, NEW q \in Requests, Share(q), sub' \in [Subs -> SubRow],
           rec'[q] = rec[q], moved'[q] = moved[q],
           \/ cur'[q] = cur[q] /\ (rec[q].owner \in Subs => SamePeriods(rec[q].owner))
           \/ cur'[q] = 0 /\ rec[q].owner \in Subs /\ LaterPeriod(rec[q].owner)
    PROVE  Share(q)'
<1>1. cur'[q] >= 0
    BY DEF Share
<1>2. ASSUME rec[q].status = "consumed"
      PROVE  /\ rec'[q].created < sub'[rec'[q].owner].next
             /\ sub'[rec'[q].owner].last <= rec'[q].created => cur'[q] = moved'[q].sub
    <2> DEFINE i == rec[q].owner
    <2>1. i \in Subs /\ rec[q].created \in Int /\ rec[q].created < sub[i].next
          /\ (sub[i].last <= rec[q].created => cur[q] = moved[q].sub)
        BY <1>2 DEF TypeOK, Record, Share
    <2>2. /\ sub[i].next \in Int /\ sub[i].last \in Int
          /\ sub'[i].next \in Int /\ sub'[i].last \in Int /\ Period \in Nat
        BY <2>1, TimesAssumption DEF TypeOK, SubRow
    <2>3. CASE cur'[q] = cur[q] /\ SamePeriods(i)
        BY <2>1, <2>3 DEF SamePeriods
    <2>4. CASE LaterPeriod(i)
        BY <2>1, <2>2, <2>4 DEF LaterPeriod
    <2> QED BY <2>1, <2>3, <2>4
<1> QED BY <1>1, <1>2 DEF Share

\* An accepted change that gives back no more than the share keeps the invariant.
LEMMA CommitPeriod ==
    ASSUME TypeOK, PeriodInv, TypeOK', NEW r \in Requests, NEW y, NEW take, NEW oc \in Outcomes,
           Commit(r, y, take, oc), rec[r].status = "consumed", y.owner = rec[r].owner,
           y.created = rec[r].created, take.sub \in Int,
           r \notin unseen => cur[r] + take.sub >= 0
    PROVE  PeriodInv'
<1>0. PeriodsLine /\ \A q \in Requests \ unseen : Share(q)
    BY PeriodParts
<1>1. y.owner \in Subs
    BY DEF TypeOK
<1>2. \A i \in Subs : SamePeriods(i)
    <2>1. \/ sub' = sub
          \/ sub' = [sub EXCEPT ![y.owner].used = @ + take.sub]
        BY DEF Commit
    <2> QED BY <1>1, <2>1 DEF TypeOK, SubRow, SamePeriods
<1>3. PeriodsLine'
    BY <1>0, <1>2 DEF PeriodsLine, SamePeriods
<1>4. /\ \A q \in Requests \ {r} : rec'[q] = rec[q] /\ moved'[q] = moved[q] /\ cur'[q] = cur[q]
      /\ unseen' = unseen
    BY DEF Commit, TypeOK
<1>5. ASSUME NEW q \in Requests \ unseen, q # r
      PROVE  Share(q)'
    BY <1>0, <1>2, <1>4, <1>5, ShareKept DEF TypeOK
<1>6. ASSUME r \notin unseen
      PROVE  Share(r)'
    <2>1. CASE oc \in {"ok", "unconfirmed", "late"}
        <3>1. /\ rec' = [rec EXCEPT ![r] = y]
              /\ cur' = [cur EXCEPT ![r] = @ + take.sub]
              /\ moved' = [moved EXCEPT ![r] = Plus(@, take)]
            BY <2>1 DEF Commit
        <3>2. /\ rec'[r] = y /\ cur'[r] = cur[r] + take.sub
              /\ moved'[r].sub = moved[r].sub + take.sub
            BY <3>1 DEF TypeOK, Plus
        <3>3. /\ rec[r].created < sub[y.owner].next
              /\ sub[y.owner].last <= rec[r].created => cur[r] = moved[r].sub
            BY <1>0, <1>1, <1>6 DEF Share
        <3> QED BY <1>1, <1>2, <1>6, <3>2, <3>3 DEF Share, SamePeriods
    <2>2. CASE oc \notin {"ok", "unconfirmed", "late"}
        <3>1. UNCHANGED <<rec, moved, cur>>
            BY <2>2 DEF Commit
        <3> QED BY <1>0, <1>2, <1>6, <3>1, ShareKept DEF TypeOK
    <2> QED BY <2>1, <2>2
<1>7. CreatedInPast'
    <2>1. CreatedInPast
        BY PeriodParts
    <2>2. clock' = clock /\ (rec' = rec \/ rec' = [rec EXCEPT ![r] = y])
        BY DEF Commit
    <2> QED BY <2>1, <2>2 DEF CreatedInPast, TypeOK
<1> QED
    BY <1>3, <1>4, <1>5, <1>6, <1>7
    DEF PeriodInv, CreatedBeforeNext, OwnShare, SeenResetsAreSafe, Share

\* A change that the checks accept gives back only from an intact share.
LEMMA AcceptedShare ==
    ASSUME TypeOK, ReceiptInv, PeriodInv, NEW r \in Requests, NEW base \in Int,
           NEW delta \in Int, NEW wallet \in Int,
           Accepted(rec[r], base, delta, wallet),
           delta >= -base, delta >= 0 => delta - wallet >= 0, delta < 0 => wallet = 0,
           r \notin unseen
    PROVE  cur[r] + (delta - wallet) >= 0
<1>1. /\ rec[r].status = "consumed" /\ moved[r].sub = base /\ base > 0
    BY AcceptedFacts
<1>2. cur[r] \in Int /\ cur[r] >= 0
    BY DEF TypeOK, PeriodInv, SeenResetsAreSafe
<1>3. CASE delta < 0
    <2>1. sub[rec[r].owner].last <= rec[r].created
        BY <1>3 DEF Accepted, SamePeriod
    <2>2. cur[r] = base
        BY <1>1, <2>1 DEF PeriodInv, OwnShare
    <2> QED BY <1>3, <2>2
<1>4. CASE delta >= 0
    BY <1>2, <1>4
<1> QED BY <1>3, <1>4

\* The wallet's part of a settlement is a part of what is added, and nothing of
\* what is given back.
LEMMA WalletPartBounds ==
    ASSUME TypeOK, UsedWithinTotal, NEW x \in Record, x.owner \in Subs,
           NEW delta \in Int, NEW allow \in BOOLEAN
    PROVE  /\ delta >= 0 => delta - WalletPart(x, delta, TRUE, allow) >= 0
           /\ delta < 0 => WalletPart(x, delta, TRUE, allow) = 0
<1>1. sub[x.owner].used \in 0..Total /\ Total \in Int
    BY AmountsAssumption DEF UsedWithinTotal
<1> QED BY <1>1 DEF WalletPart

\* Reservations, settlements and refunds keep the invariant.
LEMMA ChangePeriod ==
    ASSUME TypeOK, ReceiptInv, PeriodInv, TypeOK', NEW r \in Requests,
           NEW b \in Nat, NEW n \in Nat,
           Reserve(r, b, n) \/ Refund(r, n) \/ \E allow \in BOOLEAN : Settle(r, b, n, allow)
    PROVE  PeriodInv'
<1> DEFINE x == rec[r]
<1>0. x \in Record /\ Reserved(x) \in Int
    BY ReservedInt DEF TypeOK
<1>1. CASE Reserve(r, b, n)
    <2> DEFINE delta == n - Reserved(x)
               y == [x EXCEPT !.reserved = n]
               take == Take(r, b, n, 0)
    <2>1. delta \in Int /\ delta > 0 /\ Accepted(x, b, delta, 0)
        BY <1>0, <1>1 DEF Reserve
    <2>2. PICK oc \in Outcomes : Commit(r, y, take, oc)
        BY <1>1 DEF Reserve
    <2>3. x.status = "consumed" /\ y.owner = x.owner /\ y.created = x.created
        BY <1>0, <2>1 DEF Accepted, Bound, Record
    <2>4. take.sub \in Int /\ take.sub = delta - 0
        BY <1>0 DEF Take
    <2>5. ASSUME r \notin unseen
          PROVE  cur[r] + take.sub >= 0
        <3>1. cur[r] \in Int /\ cur[r] >= 0
            BY <2>5 DEF TypeOK, PeriodInv, SeenResetsAreSafe
        <3> HIDE DEF delta, take
        <3> QED BY <2>1, <2>4, <3>1
    <2> HIDE DEF y, take, delta
    <2> QED BY <2>2, <2>3, <2>4, <2>5, CommitPeriod
<1>2. CASE Refund(r, n)
    <2> DEFINE delta == -Reserved(x)
               y == [x EXCEPT !.status = "refunded", !.reserved = Reserved(x), !.subDelta = delta]
               take == Take(r, n, 0, 0)
    <2>1. delta \in Int /\ Accepted(x, n, delta, 0)
        BY <1>0, <1>2 DEF Refund
    <2>2. PICK oc \in Outcomes : Commit(r, y, take, oc)
        BY <1>2 DEF Refund
    <2>3. x.status = "consumed" /\ Reserved(x) = n /\ n > 0
        BY <2>1 DEF Accepted, Bound
    <2>4. y.owner = x.owner /\ y.created = x.created
        BY <1>0 DEF Record
    <2>5. take.sub \in Int /\ take.sub = delta - 0
        BY <1>0 DEF Take
    <2>6. ASSUME r \notin unseen
          PROVE  cur[r] + (delta - 0) >= 0
        <3>1. delta >= -n /\ delta < 0 /\ n \in Int
            BY <2>3
        <3>2. (delta >= 0 => delta - 0 >= 0) /\ (delta < 0 => 0 = 0)
            BY <2>1
        <3> HIDE DEF delta
        <3> QED BY <2>1, <2>6, <3>1, <3>2, AcceptedShare
    <2> HIDE DEF y, take, delta
    <2> QED BY <2>2, <2>3, <2>4, <2>5, <2>6, CommitPeriod
<1>3. ASSUME NEW allow \in BOOLEAN, Settle(r, b, n, allow)
      PROVE  PeriodInv'
    <2> DEFINE delta == n - Reserved(x)
               wallet == WalletPart(x, delta, TRUE, allow)
               y == [x EXCEPT !.status = "settled", !.reserved = Reserved(x), !.settled = n,
                              !.subDelta = delta - wallet, !.walletDelta = wallet]
               take == Take(r, b, n, wallet)
    <2>1. delta \in Int /\ Accepted(x, b, delta, wallet)
        <3>1. delta \in Int
            BY <1>0
        <3>2. Accepted(x, b, delta, wallet)
            BY <1>3 DEF Settle
        <3> QED BY <3>1, <3>2
    <2>2. PICK oc \in Outcomes : Commit(r, y, take, oc)
        BY <1>3 DEF Settle
    <2>3. x.status = "consumed" /\ Reserved(x) = b /\ b > 0 /\ x.owner \in Subs
        BY <2>1 DEF Accepted, Bound, TypeOK
    <2>4. /\ wallet \in Int /\ (delta >= 0 => delta - wallet >= 0)
          /\ (delta < 0 => wallet = 0)
        <3> HIDE DEF delta
        <3> QED BY <1>0, <2>1, <2>3, WalletPartInt, WalletPartBounds DEF ReceiptInv
    <2>5. delta >= -b
        BY <2>3
    <2> HIDE DEF wallet
    <2>6. y.owner = x.owner /\ y.created = x.created
        BY <1>0 DEF Record
    <2>7. take.sub \in Int /\ take.sub = delta - wallet
        BY <1>0, <2>4 DEF Take
    <2> HIDE DEF y, take, delta
    <2>8. ASSUME r \notin unseen
          PROVE  cur[r] + (delta - wallet) >= 0
        BY <2>1, <2>4, <2>5, <2>8, AcceptedShare
    <2> QED BY <2>2, <2>3, <2>6, <2>7, <2>8, CommitPeriod
<1> QED BY <1>1, <1>2, <1>3

\* A due reset starts a period that is later than every receipt of the row.
LEMMA ResetDuePeriod ==
    ASSUME TypeOK, PeriodInv, TypeOK', NEW i \in Subs, ResetDue(i)
    PROVE  PeriodInv'
<1> DEFINE z == MaybeReset(sub[i], clock)
<1>0. PeriodsLine /\ \A q \in Requests \ unseen : Share(q)
    BY PeriodParts
<1>1. /\ sub[i].next <= clock /\ sub' = [sub EXCEPT ![i] = z]
      /\ cur' = Forget({i}) /\ UNCHANGED <<rec, moved, clock, unseen>>
    BY DEF ResetDue
<1>2. sub[i] \in SubRow /\ clock \in Int /\ sub[i].next \in Int /\ sub[i].next = sub[i].last + Period
    BY <1>0 DEF TypeOK, SubRow, PeriodsLine
<1>3. z.next = z.last + Period /\ z.last >= sub[i].next
    <2>1. z.next > clock /\ z.next = z.last + Period /\ (z = sub[i] \/ z.last >= sub[i].next)
        BY <1>2, ResetPeriod
    <2>2. z # sub[i]
        BY <1>1, <1>2, <2>1
    <2> QED BY <2>1, <2>2
<1> HIDE DEF z
<1>4. \A j \in Subs : sub'[j] = IF j = i THEN z ELSE sub[j]
    BY <1>1 DEF TypeOK
<1>5. LaterPeriod(i) /\ \A j \in Subs \ {i} : SamePeriods(j)
    BY <1>3, <1>4 DEF LaterPeriod, SamePeriods
<1>6. PeriodsLine'
    BY <1>0, <1>3, <1>4 DEF PeriodsLine
<1>7. \A q \in Requests : cur'[q] = IF rec[q].owner = i THEN 0 ELSE cur[q]
    BY <1>1 DEF Forget
<1>8. ASSUME NEW q \in Requests \ unseen
      PROVE  Share(q)'
    <2>1. Share(q) /\ rec'[q] = rec[q] /\ moved'[q] = moved[q]
        BY <1>0, <1>1
    <2>2. \/ cur'[q] = cur[q] /\ (rec[q].owner \in Subs => SamePeriods(rec[q].owner))
          \/ cur'[q] = 0 /\ rec[q].owner \in Subs /\ LaterPeriod(rec[q].owner)
        BY <1>5, <1>7
    <2>3. sub' \in [Subs -> SubRow]
        BY DEF TypeOK
    <2> QED BY <2>1, <2>2, <2>3, ShareKept
<1>9. CreatedInPast'
    BY <1>1, PeriodParts DEF CreatedInPast
<1> QED
    BY <1>1, <1>6, <1>8, <1>9
    DEF PeriodInv, CreatedBeforeNext, OwnShare, SeenResetsAreSafe, Share

\* An admin reset forgets the shares of a row.  Those of its open receipts that
\* do not show it are in unseen, the others can give nothing back any more.
LEMMA AdminResetPeriod ==
    ASSUME TypeOK, PeriodInv, TypeOK', NEW i \in Subs, NEW mode, AdminReset(i, mode)
    PROVE  PeriodInv'
<1> DEFINE t == IF mode = "keep" THEN sub[i].last ELSE clock
<1>0. PeriodsLine /\ CreatedInPast /\ \A q \in Requests \ unseen : Share(q)
    BY PeriodParts
<1>1. /\ cur' = Forget({i}) /\ UNCHANGED <<rec, moved, clock>>
      /\ unseen' = unseen \cup Undated(i, t)
    BY DEF AdminReset
<1>2. /\ sub[i].last \in Int /\ sub[i].next \in Int /\ clock \in Int /\ Period \in Nat \ {0}
      /\ sub[i].next = sub[i].last + Period
    BY <1>0, TimesAssumption DEF TypeOK, SubRow, PeriodsLine
<1>3. /\ sub'[i].last = t /\ sub'[i].next = t + Period
      /\ \A j \in Subs \ {i} : sub'[j] = sub[j]
    BY <1>2 DEF AdminReset, TypeOK, SubRow
<1>4. PeriodsLine'
    BY <1>0, <1>3 DEF PeriodsLine
<1>5. CreatedInPast'
    BY <1>0, <1>1 DEF CreatedInPast
<1>6. \A q \in Requests : cur'[q] = IF rec[q].owner = i THEN 0 ELSE cur[q]
    BY <1>1 DEF Forget
<1>7. ASSUME NEW q \in Requests, q \notin unseen'
      PROVE  Share(q)'
    <2>1. Share(q) /\ rec'[q] = rec[q] /\ moved'[q] = moved[q]
        BY <1>0, <1>1, <1>7
    <2>2. CASE rec[q].owner # i
        <3>1. cur'[q] = cur[q] /\ (rec[q].owner \in Subs => SamePeriods(rec[q].owner))
            BY <1>3, <1>6, <2>2 DEF SamePeriods
        <3>2. sub' \in [Subs -> SubRow]
            BY DEF TypeOK
        <3> QED BY <2>1, <3>1, <3>2, ShareKept
    <2>3. CASE rec[q].owner = i
        <3>1. cur'[q] = 0
            BY <1>6, <2>3
        <3>2. ASSUME rec[q].status = "consumed"
              PROVE  rec[q].created < t /\ rec[q].created < t + Period
            <4>1. rec[q].created \in Int /\ rec[q].created <= clock
                BY <1>0 DEF TypeOK, Record, CreatedInPast
            <4>2. ~(t <= rec[q].created)
                BY <1>1, <1>7, <2>3, <3>2 DEF Undated
            <4> QED BY <1>2, <4>1, <4>2
        <3>3. rec[q].created \in Int /\ t \in Int
            BY <1>2 DEF TypeOK, Record
        <3> HIDE DEF t
        <3> QED BY <1>3, <2>1, <2>3, <3>1, <3>2, <3>3 DEF Share
    <2> QED BY <2>2, <2>3
<1> QED
    BY <1>4, <1>5, <1>7
    DEF PeriodInv, CreatedBeforeNext, OwnShare, SeenResetsAreSafe, Share

\* A pre-consume resets the due rows it looks at and charges one whose period
\* contains now, if not the clock.
LEMMA PreConsumePeriod ==
    ASSUME TypeOK, PeriodInv, TypeOK', NEW r \in Requests, NEW n \in Nat,
           PreConsume(r, n)
    PROVE  PeriodInv'
<1>0. PeriodsLine /\ \A q \in Requests \ unseen : Share(q)
    BY PeriodParts
<1>1. PICK now \in Nows, i \in Subs : Fits(i, n, now) /\ Charge(r, n, now, i)
    BY DEF PreConsume
<1>n. now \in Int /\ clock \in Int
    BY DEF Nows, TypeOK
<1> DEFINE F == Fresh(now)
           D == {j \in Seen(i) : F[j] # sub[j]}
           y == [NoRecord EXCEPT !.status = "consumed", !.owner = i, !.pre = n, !.created = clock]
<1>2. /\ sub' = [j \in Subs |-> IF j = i THEN [F[i] EXCEPT !.used = @ + n]
                                ELSE IF j \in Seen(i) THEN F[j] ELSE sub[j]]
      /\ rec' = [rec EXCEPT ![r] = y]
      /\ cur' = [Forget(D) EXCEPT ![r] = n]
      /\ moved' = [moved EXCEPT ![r] = [sub |-> n, wallet |-> 0,
                                        token |-> IF r \in Playground THEN 0 ELSE n]]
      /\ unseen' = IF F[i].next <= clock THEN unseen \cup {r} ELSE unseen
      /\ clock' = clock
    BY <1>1 DEF Charge
<1>3. y.status = "consumed" /\ y.owner = i /\ y.created = clock
    BY DEF NoRecord
<1>4. ASSUME NEW j \in Subs
      PROVE  /\ F[j].next = F[j].last + Period /\ F[j].next > now
             /\ (F[j] = sub[j] \/ F[j].last >= sub[j].next)
             /\ F[j] \in SubRow
    <2>1. sub[j] \in SubRow /\ sub[j].next = sub[j].last + Period
        BY <1>0 DEF TypeOK, PeriodsLine
    <2>2. F[j] = MaybeReset(sub[j], now)
        BY DEF Fresh
    <2> HIDE DEF F
    <2> QED BY <1>n, <2>1, <2>2, ResetPeriod, MaybeResetRow
<1>5. i \in Seen(i)
    <2>1. Active(i) /\ i \in Nat
        BY <1>1, SubsAssumption DEF Fits
    <2> QED BY <2>1 DEF Seen
<1> HIDE DEF F, y
<1>6. ASSUME NEW j \in Subs
      PROVE  IF j \in Seen(i) THEN sub'[j].last = F[j].last /\ sub'[j].next = F[j].next
             ELSE sub'[j] = sub[j]
    <2>1. CASE j = i
        <3>1. sub'[j] = [F[i] EXCEPT !.used = @ + n]
            BY <1>2, <2>1
        <3>2. F[i] \in SubRow
            BY <1>4
        <3> QED BY <1>5, <2>1, <3>1, <3>2 DEF SubRow
    <2>2. CASE j # i
        BY <1>2, <2>2
    <2> QED BY <2>1, <2>2
<1>7. ASSUME NEW j \in Subs
      PROVE  IF j \in D THEN LaterPeriod(j) ELSE SamePeriods(j)
    BY <1>4, <1>6 DEF LaterPeriod, SamePeriods
<1>8. PeriodsLine'
    <2>1. \A j \in Subs : sub'[j].next = sub'[j].last + Period
        BY <1>0, <1>4, <1>6 DEF PeriodsLine
    <2> QED BY <2>1 DEF PeriodsLine
<1>9. ASSUME NEW q \in Requests \ unseen, q # r
      PROVE  Share(q)'
    <2>1. Share(q) /\ rec'[q] = rec[q] /\ moved'[q] = moved[q]
        BY <1>0, <1>2, <1>9 DEF TypeOK
    <2>2. cur'[q] = IF rec[q].owner \in D THEN 0 ELSE cur[q]
        BY <1>2, <1>9 DEF Forget
    <2>3. D \subseteq Subs
        BY DEF Seen
    <2>4. \/ cur'[q] = cur[q] /\ (rec[q].owner \in Subs => SamePeriods(rec[q].owner))
          \/ cur'[q] = 0 /\ rec[q].owner \in Subs /\ LaterPeriod(rec[q].owner)
        <3> HIDE DEF D
        <3> QED BY <1>7, <2>2, <2>3
    <2>5. sub' \in [Subs -> SubRow]
        BY DEF TypeOK
    <2> QED BY <2>1, <2>4, <2>5, ShareKept
<1>10. ASSUME r \notin unseen'
       PROVE  Share(r)'
    <2>1. rec'[r] = y /\ moved'[r].sub = n /\ cur'[r] = n
        BY <1>2 DEF TypeOK, Forget
    <2>2. ~(F[i].next <= clock)
        BY <1>2, <1>10
    <2>3. sub'[i].next \in Int /\ sub'[i].next = F[i].next
        BY <1>5, <1>6 DEF TypeOK, SubRow
    <2> QED BY <1>n, <1>3, <2>1, <2>2, <2>3 DEF Share
<1>11. CreatedInPast'
    <2>1. CreatedInPast
        BY PeriodParts
    <2>2. \A q \in Requests : rec'[q] = IF q = r THEN y ELSE rec[q]
        BY <1>2 DEF TypeOK
    <2> QED BY <1>n, <1>2, <1>3, <2>1, <2>2 DEF CreatedInPast
<1>12. unseen \subseteq unseen'
    BY <1>2
<1> QED
    BY <1>8, <1>9, <1>10, <1>11, <1>12
    DEF PeriodInv, CreatedBeforeNext, OwnShare, SeenResetsAreSafe, Share

\* Steps that move no quota and no reset time.
LEMMA OtherPeriod ==
    ASSUME TypeOK, PeriodInv,
           \/ UNCHANGED vars \/ Tick
           \/ \E i \in Subs : Expire(i)
           \/ \E r \in Requests : ClearFlag(r) \/ Cleanup(r)
    PROVE  PeriodInv'
<1>1. UNCHANGED <<cur, moved, unseen>>
    BY DEF vars, Tick, Expire, ClearFlag, Cleanup
<1>2. \A j \in Subs : sub'[j].last = sub[j].last /\ sub'[j].next = sub[j].next
    <2>1. CASE sub' = sub
        BY <2>1
    <2>2. ASSUME NEW i \in Subs, Expire(i)
          PROVE  \A j \in Subs : sub'[j].last = sub[j].last /\ sub'[j].next = sub[j].next
        BY <2>2 DEF Expire, TypeOK, SubRow
    <2> QED BY <2>1, <2>2 DEF vars, Tick, ClearFlag, Cleanup
<1>3. \A q \in Requests : rec'[q].status = "consumed" => rec'[q] = rec[q]
    <2>1. CASE rec' = rec
        BY <2>1
    <2>2. ASSUME NEW r \in Requests, Cleanup(r)
          PROVE  \A q \in Requests : rec'[q].status = "consumed" => rec'[q] = rec[q]
        BY <2>2 DEF Cleanup, TypeOK, Record
    <2> QED BY <2>1, <2>2 DEF vars, Tick, Expire, ClearFlag
<1>4. \A q \in Requests : rec[q].status = "consumed" => rec[q].owner \in Subs
    BY DEF TypeOK
<1>5. CreatedInPast'
    <2>1. clock \in Int /\ (clock' = clock \/ clock' = clock + 1)
        BY DEF vars, Tick, Expire, ClearFlag, Cleanup, TypeOK
    <2>2. \A q \in Requests : rec'[q].created = rec[q].created /\ rec[q].created \in Int
        <3>1. CASE rec' = rec
            BY <3>1 DEF TypeOK, Record
        <3>2. ASSUME NEW r \in Requests, Cleanup(r)
              PROVE  \A q \in Requests : rec'[q].created = rec[q].created /\ rec[q].created \in Int
            BY <3>2 DEF Cleanup, TypeOK, Record
        <3> QED BY <3>1, <3>2 DEF vars, Tick, Expire, ClearFlag
    <2>3. CreatedInPast
        BY DEF PeriodInv
    <2> QED BY <2>1, <2>2, <2>3 DEF CreatedInPast
<1> QED
    BY <1>1, <1>2, <1>3, <1>4, <1>5
    DEF PeriodInv, PeriodsLine, CreatedBeforeNext, OwnShare, SeenResetsAreSafe

\* No settlement or refund gives back more than its request has charged in the
\* current period, unless the row was reset without the receipt showing it (by an
\* admin reset that keeps the reset times, or falls into the second of the charge)
\* or the charge was made at a period's end with a now read before it.  Periodic
\* resets, by the reset job or inside a pre-consume, never cause it: there the
\* LastResetTime check of changeSubscriptionBilling is enough, for any period,
\* amounts and number of calls.
THEOREM PeriodCheckSuffices == Spec => []SeenResetsAreSafe
<1>1. Init => PeriodInv
    <2>1. NoRecord.status = "none" /\ NoRecord.created = 0
        BY DEF NoRecord
    <2>2. 0 + Period = Period
        BY TimesAssumption
    <2> QED
        BY <2>1, <2>2
        DEF Init, PeriodInv, PeriodsLine, CreatedInPast, CreatedBeforeNext, OwnShare,
            SeenResetsAreSafe
<1>2. TypeOK /\ ReceiptInv /\ PeriodInv /\ TypeOK' /\ [Next]_vars => PeriodInv'
    <2> SUFFICES ASSUME TypeOK, ReceiptInv, PeriodInv, TypeOK', [Next]_vars
                 PROVE  PeriodInv'
        OBVIOUS
    <2>q. Quotas \subseteq Nat
        BY AmountsAssumption
    <2>1. CASE UNCHANGED vars \/ Tick
        BY <2>1, OtherPeriod
    <2>2. ASSUME NEW i \in Subs,
                 ResetDue(i) \/ Expire(i) \/ \E m \in AdminResets : AdminReset(i, m)
          PROVE  PeriodInv'
        BY <2>2, ResetDuePeriod, AdminResetPeriod, OtherPeriod
    <2>3. ASSUME NEW r \in Requests, ClearFlag(r) \/ Cleanup(r)
          PROVE  PeriodInv'
        BY <2>3, OtherPeriod
    <2>4. ASSUME NEW r \in Requests, NEW n \in Quotas, PreConsume(r, n)
          PROVE  PeriodInv'
        BY <2>q, <2>4, PreConsumePeriod
    <2>5. ASSUME NEW r \in Requests, NEW n \in Quotas, Refund(r, n)
          PROVE  PeriodInv'
        BY <2>q, <2>5, ChangePeriod
    <2>6. ASSUME NEW r \in Requests, NEW b \in Quotas, NEW n \in Quotas,
                 Reserve(r, b, n) \/ \E allow \in BOOLEAN : Settle(r, b, n, allow)
          PROVE  PeriodInv'
        BY <2>q, <2>6, ChangePeriod
    <2> QED BY <2>1, <2>2, <2>3, <2>4, <2>5, <2>6 DEF Next
<1>3. PeriodInv => SeenResetsAreSafe
    BY DEF PeriodInv
<1> QED
    BY <1>1, <1>2, <1>3, ReceiptsInductive, PTL DEF Spec

=============================================================================
