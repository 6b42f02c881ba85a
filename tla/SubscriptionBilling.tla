-------------------------- MODULE SubscriptionBilling --------------------------
(***************************************************************************)
(* Subscription quota and the receipts that bind it to a request            *)
(* (model/subscription_settlement.go, model/subscription.go): pre-consume,  *)
(* reserve, settle with overflow to the wallet, refund, periodic and admin  *)
(* resets, expiry, and the cleanup of receipts.                             *)
(*                                                                          *)
(* Every call is one SQL transaction, and callers may repeat any call with  *)
(* any baseline: the receipt has to reject what does not belong to it.  A   *)
(* commit may report an error and be applied.  The Redis mirror of token    *)
(* and wallet is reduced to the fence an unconfirmed mutation leaves.       *)
(***************************************************************************)
EXTENDS Integers

CONSTANTS
    Requests,      \* request ids of one user
    Playground,    \* those that charge no token
    Subs,          \* the user's subscriptions, 1..n in order of end_time
    Overflow,      \* those whose allow_wallet_overflow is set
    Total,         \* amount_total of each
    Quotas,        \* amounts a call may name
    Period,        \* quota reset period, in seconds
    MaxClock,      \* bound: time
    MaxFaults,     \* bound: failed cache operations and commits
    AdminResets,   \* admin resets in use: subset of {"advance", "keep"}
    StaleNow       \* whether a second may pass between reading now and the row

ASSUME SubsAssumption == Subs \subseteq Nat /\ Overflow \subseteq Subs
ASSUME RequestsAssumption == Playground \subseteq Requests
ASSUME AmountsAssumption == Total \in Nat \ {0} /\ Quotas \subseteq Nat
ASSUME TimesAssumption == Period \in Nat \ {0} /\ MaxClock \in Nat /\ MaxFaults \in Nat
ASSUME OptionsAssumption == AdminResets \subseteq {"advance", "keep"} /\ StaleNow \in BOOLEAN

VARIABLES
    clock,    \* seconds, of the database and of the nodes alike
    sub,      \* user_subscriptions rows
    rec,      \* subscription_pre_consume_records rows
    flagged,  \* requests whose row has reconciliation_required set
    fence,    \* requests that have a fence left in Redis
    clear,    \* per request: the row whose retention flag a call is to clear
    moved,    \* per request: what it has really taken from each account
    cur,      \* per request: its share of amount_used in the current period
    unseen,   \* history: requests with a reset after their charge, or a period end
              \* before it, that their receipts' creation time does not show
    faults

vars == <<clock, sub, rec, flagged, fence, clear, moved, cur, unseen, faults>>

Terminal == {"settled", "refunded"}

NoRecord ==
    [status |-> "none", owner |-> 0, pre |-> 0, reserved |-> 0,
     settled |-> 0, subDelta |-> 0, walletDelta |-> 0, created |-> 0]

\* The columns that identify one version of a row to the flag's UPDATE.
Key(x) == [status |-> x.status, reserved |-> x.reserved, settled |-> x.settled]

Status == {"none", "consumed", "gone"} \cup Terminal
Account == [sub : Int, wallet : Int, token : Int]
SubRow == [used : Int, last : Int, next : Int, status : {"active", "expired"}]
Record ==
    [status : Status, owner : Subs \cup {0}, pre : Int,
     reserved : Int, settled : Int, subDelta : Int, walletDelta : Int, created : Int]

TypeOK ==
    /\ clock \in Nat
    /\ sub \in [Subs -> SubRow]
    /\ rec \in [Requests -> Record]
    /\ \A r \in Requests : rec[r].status # "none" => rec[r].owner \in Subs
    /\ flagged \subseteq Requests /\ fence \subseteq Requests
    /\ clear \in [Requests -> [status : Status, reserved : Int, settled : Int]]
    /\ moved \in [Requests -> Account]
    /\ cur \in [Requests -> Int]
    /\ unseen \subseteq Requests
    /\ faults \in 0..MaxFaults

Init ==
    /\ clock = 0
    /\ sub = [i \in Subs |-> [used |-> 0, last |-> 0, next |-> Period, status |-> "active"]]
    /\ rec = [r \in Requests |-> NoRecord]
    /\ flagged = {} /\ fence = {}
    /\ clear = [r \in Requests |-> Key(NoRecord)]
    /\ moved = [r \in Requests |-> [sub |-> 0, wallet |-> 0, token |-> 0]]
    /\ cur = [r \in Requests |-> 0]
    /\ unseen = {}
    /\ faults = 0

Active(i) == sub[i].status = "active"

-----------------------------------------------------------------------------
(* Time and resets.                                                         *)

Tick == clock < MaxClock /\ clock' = clock + 1 /\ UNCHANGED <<sub, rec, flagged, fence, clear, moved, cur, unseen, faults>>

\* maybeResetUserSubscriptionWithPlanTx: the row as of now, advanced over all
\* the period boundaries that are not after it.
MaybeReset(s, now) ==
    LET base == now - ((now - s.last) % Period)
    IN IF s.next > now THEN s
       ELSE [used |-> 0, last |-> base, next |-> base + Period, status |-> s.status]

\* After resetting the subscriptions of the set rs, nothing is charged to them.
Forget(rs) == [r \in Requests |-> IF rec[r].owner \in rs THEN 0 ELSE cur[r]]

\* ResetDueSubscriptions, one row.
ResetDue(i) ==
    /\ Active(i) /\ sub[i].next <= clock
    /\ sub' = [sub EXCEPT ![i] = MaybeReset(@, clock)]
    /\ cur' = Forget({i})
    /\ UNCHANGED <<clock, rec, flagged, fence, clear, moved, unseen, faults>>

\* The open receipts of a row that do not look older than its reset time t.
Undated(i, t) == {r \in Requests : rec[r].status = "consumed" /\ rec[r].owner = i /\ t <= rec[r].created}

\* AdminReset...: the used amount, and with "advance" the period, start anew.
AdminReset(i, mode) ==
    /\ Active(i)
    /\ sub' = [sub EXCEPT ![i] = IF mode = "keep" THEN [@ EXCEPT !.used = 0]
                                 ELSE [@ EXCEPT !.used = 0, !.last = clock, !.next = clock + Period]]
    /\ cur' = Forget({i})
    /\ unseen' = unseen \cup Undated(i, IF mode = "keep" THEN sub[i].last ELSE clock)
    /\ UNCHANGED <<clock, rec, flagged, fence, clear, moved, faults>>

\* ExpireDueSubscriptions: in the order of end_time.
Expire(i) ==
    /\ Active(i) /\ \A j \in Subs : j < i => ~Active(j)
    /\ sub' = [sub EXCEPT ![i].status = "expired"]
    /\ UNCHANGED <<clock, rec, flagged, fence, clear, moved, cur, unseen, faults>>

-----------------------------------------------------------------------------
(* PreConsumeUserSubscription.                                              *)

\* The transaction's `now` is read before the rows are locked.
Nows == {clock} \cup (IF StaleNow /\ clock > 0 THEN {clock - 1} ELSE {})

Fresh(now) == [i \in Subs |-> MaybeReset(sub[i], now)]
Fits(i, n, now) == Active(i) /\ Total - Fresh(now)[i].used >= n

\* The active subscriptions that are looked at, and reset, up to the i-th.
Seen(i) == {j \in Subs : Active(j) /\ j <= i}

Charge(r, n, now, i) ==
    /\ sub' = [j \in Subs |-> IF j = i THEN [Fresh(now)[i] EXCEPT !.used = @ + n]
                              ELSE IF j \in Seen(i) THEN Fresh(now)[j] ELSE sub[j]]
    /\ rec' = [rec EXCEPT ![r] = [NoRecord EXCEPT !.status = "consumed", !.owner = i,
                                                  !.pre = n, !.created = clock]]
    /\ cur' = [Forget({j \in Seen(i) : Fresh(now)[j] # sub[j]}) EXCEPT ![r] = n]
    /\ unseen' = IF Fresh(now)[i].next <= clock THEN unseen \cup {r} ELSE unseen
    /\ moved' = [moved EXCEPT ![r] = [sub |-> n, wallet |-> 0,
                                      token |-> IF r \in Playground THEN 0 ELSE n]]
    /\ UNCHANGED <<clock, flagged, fence, clear, faults>>

\* A record of the request answers without charging again, or conflicts;
\* otherwise the first active subscription with room, reset if due, is
\* charged.  The session has charged the token the same amount before.
PreConsume(r, n) ==
    /\ n > 0 /\ rec[r].status = "none"
    /\ \E now \in Nows, i \in Subs :
        /\ Fits(i, n, now) /\ \A j \in Subs : Fits(j, n, now) => i <= j
        /\ Charge(r, n, now, i)

-----------------------------------------------------------------------------
(* changeSubscriptionBilling.                                               *)

\* ReservedQuota = 0 stands for the first pre-consume.
Reserved(x) == IF x.reserved = 0 THEN x.pre ELSE x.reserved

Strict == \E i \in Subs : Active(i) /\ i \notin Overflow

\* The split of a change between subscription and wallet.
WalletPart(x, delta, settle, allow) ==
    LET room == Total - sub[x.owner].used
    IN IF delta > 0 /\ delta > room /\ settle /\ allow /\ x.owner \in Overflow /\ ~Strict
       THEN IF room > 0 THEN delta - room ELSE delta ELSE 0

\* The reset time compared with the time of the call.
SamePeriod_AsOfNow(x, delta) == delta < 0 => sub[x.owner].last <= clock

\* What is given back belongs to the period it was charged in.
SamePeriod(x, delta) == delta < 0 => sub[x.owner].last <= x.created

\* What is added fits beside what is used; what is given back was used.
Room_WholeTotal(x, delta) == delta <= Total /\ sub[x.owner].used + delta >= 0
Room(x, delta) ==
    /\ delta > 0 => delta <= Total - sub[x.owner].used
    /\ sub[x.owner].used + delta >= 0

\* A baseline that is not compared, a receipt that may be settled already.
Bound_AnyBaseline(x, base) == x.status = "consumed"
Bound_Settled(x, base) == x.status \in {"consumed", "settled"} /\ Reserved(x) = base
Bound(x, base) == x.status = "consumed" /\ Reserved(x) = base

\* The checks of a call that changes the receipt.
Accepted(x, base, delta, wallet) ==
    base > 0 /\ Bound(x, base) /\ SamePeriod(x, delta) /\ Room(x, delta - wallet)

\* Earlier attempts of the same request not looked at.
MayClear_Always(r) == TRUE

\* Whether the call may clear the retention flag again: neither the record nor
\* Redis shows an earlier unconfirmed mutation of this request.
MayClear(r) == r \notin flagged /\ r \notin fence

\* What a call answers: "ok"; "unconfirmed": committed, but a cache mutation was
\* not confirmed; "undone": rolled back, a cache mutation of unknown outcome;
\* "late" / "lost": commit error, applied or not.
Outcomes == {"ok", "unconfirmed", "undone", "late", "lost"}

Plus(m, take) == [sub |-> m.sub + take.sub, wallet |-> m.wallet + take.wallet,
                  token |-> m.token + take.token]

\* One accepted change of receipt r to y, taking `take` from the accounts.
Commit(r, y, take, oc) ==
    LET done == oc \in {"ok", "unconfirmed", "late"}
    IN /\ oc # "ok" => faults < MaxFaults
       /\ oc \in {"unconfirmed", "undone"} => take.token # 0 \/ take.wallet # 0
       /\ faults' = IF oc = "ok" THEN faults ELSE faults + 1
       /\ fence' = IF oc = "ok" \/ (take.token = 0 /\ take.wallet = 0) THEN fence
                   ELSE fence \cup {r}
       /\ clear' = IF oc = "ok" /\ MayClear(r) THEN [clear EXCEPT ![r] = Key(y)] ELSE clear
       /\ IF done
          THEN /\ rec' = [rec EXCEPT ![r] = y]
               /\ flagged' = flagged \cup {r}
               /\ sub' = [sub EXCEPT ![y.owner].used = @ + take.sub]
               /\ cur' = [cur EXCEPT ![r] = @ + take.sub]
               /\ moved' = [moved EXCEPT ![r] = Plus(@, take)]
          ELSE UNCHANGED <<rec, flagged, sub, cur, moved>>
       /\ UNCHANGED <<clock, unseen>>

\* The token changes by what the caller says it has charged it, its baseline.
Take(r, base, actual, wallet) ==
    [sub |-> actual - Reserved(rec[r]) - wallet, wallet |-> wallet,
     token |-> IF r \in Playground THEN 0 ELSE actual - base]

\* "reserve": more for the same request, never from the wallet.  A repetition
\* of the last reservation, or a smaller target, changes nothing.
Reserve(r, base, target) ==
    LET x == rec[r]
        delta == target - Reserved(x)
    IN /\ delta > 0 /\ Accepted(x, base, delta, 0)
       /\ \E oc \in Outcomes :
            Commit(r, [x EXCEPT !.reserved = target], Take(r, base, target, 0), oc)

\* "settle" at the actual amount.
Settle(r, base, actual, allow) ==
    LET x == rec[r]
        delta == actual - Reserved(x)
        wallet == WalletPart(x, delta, TRUE, allow)
    IN /\ Accepted(x, base, delta, wallet)
       /\ \E oc \in Outcomes :
            Commit(r, [x EXCEPT !.status = "settled", !.reserved = Reserved(x), !.settled = actual,
                                !.subDelta = delta - wallet, !.walletDelta = wallet],
                   Take(r, base, actual, wallet), oc)

\* "refund": everything.
Refund(r, base) ==
    LET x == rec[r]
        delta == -Reserved(x)
    IN /\ Accepted(x, base, delta, 0)
       /\ \E oc \in Outcomes :
            Commit(r, [x EXCEPT !.status = "refunded", !.reserved = Reserved(x), !.subDelta = delta],
                   Take(r, base, 0, 0), oc)

\* Once the cache has confirmed, the flag is cleared if the row is still the
\* one that was written.  The node may stop before it.
ClearFlag(r) ==
    /\ clear[r] # Key(NoRecord)
    /\ clear' = [clear EXCEPT ![r] = Key(NoRecord)]
    /\ flagged' = IF Key(rec[r]) = clear[r] THEN flagged \ {r} ELSE flagged
    /\ UNCHANGED <<clock, sub, rec, fence, moved, cur, unseen, faults>>

\* CleanupSubscriptionPreConsumeRecords, one row.
Cleanup(r) ==
    /\ rec[r].status \in Terminal /\ r \notin flagged
    /\ rec' = [rec EXCEPT ![r].status = "gone"]
    /\ UNCHANGED <<clock, sub, flagged, fence, clear, moved, cur, unseen, faults>>

Next ==
    \/ Tick
    \/ \E i \in Subs : ResetDue(i) \/ Expire(i) \/ \E m \in AdminResets : AdminReset(i, m)
    \/ \E r \in Requests :
        \/ ClearFlag(r) \/ Cleanup(r)
        \/ \E n \in Quotas : PreConsume(r, n) \/ Refund(r, n)
        \/ \E b, n \in Quotas : Reserve(r, b, n) \/ \E allow \in BOOLEAN : Settle(r, b, n, allow)

Spec == Init /\ [][Next]_vars

-----------------------------------------------------------------------------
(* Properties.                                                              *)

(* No interleaving of pre-consumes, reservations, overflowing settlements,    *)
(* refunds and resets takes a subscription above its total or below zero.     *)
UsedWithinTotal == \A i \in Subs : sub[i].used \in 0..Total

(* The receipt tells what the request has moved, repeated calls and commits   *)
(* that reported an error included: the reservation while consumed, the       *)
(* settled amount split between subscription and wallet, nothing if refunded; *)
(* and the token follows the same amount.                                     *)
ReceiptIsTruth ==
    \A r \in Requests :
        LET x == rec[r]
            due == CASE x.status = "consumed" -> Reserved(x)
                     [] x.status = "settled"  -> x.settled
                     [] OTHER -> 0
        IN x.status \in {"consumed"} \cup Terminal =>
            /\ moved[r].sub + moved[r].wallet = due
            /\ moved[r].token = IF r \in Playground THEN 0 ELSE due
            /\ x.status = "settled" => Reserved(x) + x.subDelta = moved[r].sub
                                       /\ x.walletDelta = moved[r].wallet

(* A settled or refunded receipt never changes its amounts or its verdict: a  *)
(* late duplicate of any call finds it terminal.                              *)
TerminalFrozen ==
    [][\A r \in Requests : rec[r].status \in Terminal =>
        /\ rec'[r].status \in {rec[r].status, "gone"}
        /\ rec'[r].settled = rec[r].settled
        /\ moved'[r] = moved[r]]_vars

(* Cleanup never removes the evidence of an unconfirmed cache mutation: a     *)
(* request whose receipt is gone has no fence left in Redis.                  *)
EvidenceKept == \A r \in Requests : rec[r].status = "gone" => r \notin fence

(* What ReceiptIsTruth and EvidenceKept rest on.  Neither they nor these are  *)
(* inductive alone.                                                           *)

\* Only a settlement takes from the wallet.
WalletUntouched ==
    \A r \in Requests : rec[r].status = "consumed" => moved[r].wallet = 0

\* A call of an earlier state cannot clear the flag of a terminal receipt: its
\* key names the status it wrote.
ClearIsOld ==
    \A r \in Requests : rec[r].status \in {"none", "consumed"} =>
        clear[r].status \in {"none", "consumed"}

\* A terminal receipt of a request with a fence keeps its flag.
FencedIsFlagged ==
    \A r \in Requests : rec[r].status \in Terminal /\ r \in fence =>
        r \in flagged /\ clear[r].status \in {"none", "consumed"}

ReceiptInv ==
    /\ UsedWithinTotal /\ ReceiptIsTruth /\ WalletUntouched
    /\ EvidenceKept /\ ClearIsOld /\ FencedIsFlagged

(* What a settlement or refund gives back was charged in the current period:  *)
(* it never eats into what other requests have used since a reset.            *)
RefundsOwnPeriod == \A r \in Requests : cur[r] >= 0

(* As far as the reset times tell the periods apart, it is so: whatever       *)
(* resets, repeated calls and late commits there are, a request gives back    *)
(* more than it has in the current period only if its row was reset in a way  *)
(* its receipt does not show -- by an administrator who keeps the reset times *)
(* or acts in the very second of the charge -- or if it was charged at the    *)
(* end of a period with a `now` read before it.                               *)
SeenResetsAreSafe == \A r \in Requests \ unseen : cur[r] >= 0

(* What SeenResetsAreSafe rests on.                                           *)

\* The reset times of a row are one period apart.
PeriodsLine == \A i \in Subs : sub[i].next = sub[i].last + Period

\* Receipts are dated by the clock.
CreatedInPast == \A r \in Requests : rec[r].created <= clock

\* A reset that comes after a receipt starts a period after it.
CreatedBeforeNext ==
    \A r \in Requests \ unseen :
        rec[r].status = "consumed" => rec[r].created < sub[rec[r].owner].next

\* In the period of an open receipt all that the request took is still used.
OwnShare ==
    \A r \in Requests \ unseen :
        rec[r].status = "consumed" /\ sub[rec[r].owner].last <= rec[r].created =>
            cur[r] = moved[r].sub

PeriodInv == PeriodsLine /\ CreatedInPast /\ CreatedBeforeNext /\ OwnShare /\ SeenResetsAreSafe
=============================================================================
