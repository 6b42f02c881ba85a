---------------------------- MODULE BillingSession ----------------------------
(***************************************************************************)
(* The billing session of a relayed request (service/billing_session.go,    *)
(* funding_source.go, billing.go) as the text relay and the task relay      *)
(* (controller/relay.go) drive it: pre-consume with fallback between wallet *)
(* and subscription, additional reservations before a retry, settlement in  *)
(* two stages with compensation, asynchronous refund, the fee for a content  *)
(* violation, drain on shutdown.                                            *)
(*                                                                          *)
(* One user, whose requests share a wallet, a token and a subscription.     *)
(* One action is one call into package model, atomic in the database; it    *)
(* may fail, and a failed call may nevertheless have been applied.  The     *)
(* wallet cache and the subscription receipt behind those calls are other   *)
(* modules.                                                                 *)
(***************************************************************************)
EXTENDS Integers, FiniteSets

CONSTANTS
    Requests,     \* concurrent requests of the user
    Users,        \* settings and balances the user may have (UserType)
    Kinds,        \* relays in use: subset of {"text", "task"}
    Quotas,       \* estimates a request may be priced at
    Actuals,      \* final amounts upstream may report
    TrustQuota,   \* common.GetTrustQuota
    MaxRetries,   \* common.RetryTimes
    Fee,          \* calcViolationFeeQuota: 0 when the deduction is disabled
    MaxFaults     \* bound: calls that return an error

Accounts == {"wallet", "token", "sub"}

(* pref: BillingPreference; playground: no token is charged; unlimited:     *)
(* token without a limit; hasSub: an active subscription exists; overflow:  *)
(* it lets the wallet pay for what it cannot; start: the balances.          *)
UserType ==
    [pref : {"wallet_only", "wallet_first", "subscription_only", "subscription_first"},
     playground : BOOLEAN, unlimited : BOOLEAN, hasSub : BOOLEAN,
     overflow : BOOLEAN, start : [Accounts -> Nat]]

ASSUME KindsAssumption == Kinds \subseteq {"text", "task"}
ASSUME QuotasAssumption == Quotas \subseteq Nat /\ Actuals \subseteq Nat
ASSUME UsersAssumption == \A u \in Users : u \in UserType
ASSUME BoundsAssumption == {TrustQuota, MaxRetries, Fee, MaxFaults} \subseteq Nat

VARIABLES
    user,     \* the user's settings and initial balances
    req,      \* per request: control state, BillingSession fields, locals
    net,      \* per request: what it has really taken from each account
    fee,      \* per request: what a violation fee has really taken, apart from net
    balance,  \* what the requests have left of each account
    job,      \* per request: the goroutine started by Refund
    levy,     \* per request: ChargeViolationFeeIfNeeded
    faults,   \* calls that have failed
    server    \* shutdownAccounting

vars == <<user, req, net, fee, balance, job, levy, faults, server>>

(* Control states.  pre*: preConsume; res*: reserve; set*: Settle; fail: the  *)
(* deferred Refund.  "review" is a task handed to manual review, with         *)
(* relayInfo.Billing = nil.                                                   *)
Ended == {"done", "review"}
Pc == {"new", "open", "check", "preTok", "preFund", "preBack", "route",
       "resFund", "resTok", "resBack", "resSub", "sent", "settle", "setFund",
       "setTok", "setBack", "setSub", "fail"} \cup Ended
JobEnded == {"none", "ok", "failed"}
\* The fee is called for by the upstream's error ("due"), charged after Refund
\* has returned, to the funding source ("fund") and then to the token ("tok").
Levying == {"fund", "tok"}

NewRequest ==
    [pc |-> "new", kind |-> "text", tries |-> 0, tokSeen |-> 0,
     \* the call in progress: source, fallback, amount, target, continuation,
     \* and what an error answered
     src |-> "none", alt |-> "none", need |-> 0, goal |-> 0, back |-> "route",
     code |-> "none",
     \* the fields of BillingSession and of its FundingSource
     session |-> FALSE, pre |-> 0, fund |-> 0, tok |-> 0, held |-> 0,
     trusted |-> FALSE, fundingSettled |-> FALSE, settled |-> FALSE,
     refunded |-> FALSE, fundingUncertain |-> FALSE, tokenUncertain |-> FALSE,
     \* history: accounts a discarded pre-consume may have left charged
     doubt |-> {}]

Request ==
    [pc : Pc, kind : {"text", "task"}, tries : Nat, tokSeen : Int,
     src : {"none", "wallet", "sub"}, alt : {"none", "wallet", "sub"}, need : Int, goal : Nat,
     back : {"route", "sent"}, code : {"none", "short", "error", "logged"},
     session : BOOLEAN, pre : Nat, fund : Nat, tok : Nat, held : Nat, trusted : BOOLEAN,
     fundingSettled : BOOLEAN, settled : BOOLEAN, refunded : BOOLEAN,
     fundingUncertain : BOOLEAN, tokenUncertain : BOOLEAN, doubt : SUBSET Accounts]

SessionTypes ==
    /\ user \in Users
    /\ req \in [Requests -> Request]
    /\ net \in [Requests -> [Accounts -> Int]] /\ balance \in [Accounts -> Int]
    /\ job \in [Requests -> {"queued", "token", "bad"} \cup JobEnded]
    /\ faults \in 0..MaxFaults
    /\ server \in {"up", "stopping", "drained", "clean", "incomplete"}

TypeOK ==
    /\ SessionTypes
    /\ levy \in [Requests -> {"none", "due", "paid", "unpaid"} \cup Levying]
    /\ fee \in [Requests -> [Accounts -> Nat]]

Init ==
    /\ user \in Users
    /\ req = [r \in Requests |-> NewRequest]
    /\ net = [r \in Requests |-> [a \in Accounts |-> 0]]
    /\ fee = net
    /\ balance = user.start
    /\ job = [r \in Requests |-> "none"]
    /\ levy = job
    /\ faults = 0
    /\ server = "up"

-----------------------------------------------------------------------------
(* Calls into package model.                                                *)

\* reserveUserQuotaDB, reserveTokenQuotaDB: the balance is compared in the update.
Enough(a, n) == balance[a] >= n \/ (a = "token" /\ user.unlimited)

\* What one call answers.  "short": refused for lack of balance, nothing moved;
\* "err": failed and not applied; "late": failed although it was applied.
Outcomes == {"ok", "short", "err", "late"}
\* A subscription transaction tells a failure it has rolled back ("err") from
\* a commit whose outcome is unknown ("late" if applied, "lost" if not).
SubOutcomes == Outcomes \cup {"lost"}
Unknown == {"late", "lost"}

Answers(fits, oc) ==
    /\ oc \in {"ok", "late"} => fits
    /\ oc = "short" => ~fits
    /\ IF oc \in {"ok", "short"} THEN UNCHANGED faults
       ELSE faults < MaxFaults /\ faults' = faults + 1

Call(r, take, fits, oc) ==
    /\ Answers(fits, oc)
    /\ IF oc \in {"ok", "late"}
       THEN /\ net' = [net EXCEPT ![r] = [a \in Accounts |-> @[a] + take[a]]]
            /\ balance' = [a \in Accounts |-> balance[a] - take[a]]
       ELSE UNCHANGED <<net, balance>>

Only(a, n) == [x \in Accounts |-> IF x = a THEN n ELSE 0]

\* TryReserveUserQuota / TryReserveTokenQuota.
TryReserve(r, a, n, oc) == Call(r, Only(a, n), Enough(a, n), oc)

\* DecreaseUserQuota / IncreaseUserQuota / ...TokenQuota: unconditional.
Adjust(r, a, n, oc) == oc # "short" /\ Call(r, Only(a, n), TRUE, oc)

Quiet == UNCHANGED <<net, balance, faults>>

\* PreConsumeUserSubscription: a record of this request with the same amount is
\* answered again, one with another amount is an identity conflict.
SubPreConsume(r, n, oc) ==
    CASE net[r].sub = 0 ->
           Call(r, Only("sub", n), user.hasSub /\ Enough("sub", n), oc)
      [] net[r].sub = n -> oc \in {"ok", "err"} /\ Call(r, Only("sub", 0), TRUE, oc)
      [] OTHER -> oc = "err" /\ Quiet

Put(r, s) == req' = [req EXCEPT ![r] = s]
Running == server \in {"up", "stopping", "drained"}    \* the process has not exited
Frame == Running /\ UNCHANGED <<user, job, server, fee, levy>>
Uncertain(s) == s.fundingUncertain \/ s.tokenUncertain
TokenShare(n) == IF user.playground THEN 0 ELSE n

\* A billing error ends the attempt.  The text relay gives up; the task relay
\* gives up or, the status of anything but an insufficient balance being 500,
\* retries (shouldRetryTaskRelay tests the status before LocalError).
Refused(s) ==
    {[s EXCEPT !.pc = "fail"]} \cup
    (IF s.kind = "task" /\ s.code = "error" /\ s.tries < MaxRetries
     THEN {[s EXCEPT !.pc = "route", !.tries = @ + 1]} ELSE {})

-----------------------------------------------------------------------------
(* NewBillingSession and preConsume.                                        *)

Sources ==
    CASE user.pref = "wallet_only"       -> <<"wallet", "none">>
      [] user.pref = "subscription_only" -> <<"sub", "none">>
      [] user.pref = "wallet_first"      -> <<"wallet", "sub">>
      [] OTHER -> IF ~user.hasSub THEN <<"wallet", "none">>
                  ELSE <<"sub", IF user.overflow THEN "wallet" ELSE "none">>

\* tryWallet looks at the balance first; trySubscription reserves at least 1.
Try(s, source, rest) ==
    [s EXCEPT !.src = source, !.alt = rest,
              !.pc = IF source = "wallet" THEN "check" ELSE "preTok",
              !.need = IF source = "wallet" \/ s.goal > 0 THEN s.goal ELSE 1]

\* An insufficient balance falls back to the other source.
NotOpened(s) ==
    IF s.code = "short" /\ s.alt # "none" THEN {Try(s, s.alt, "none")} ELSE Refused(s)

Open(r) ==
    /\ req[r].pc = "open"
    /\ Put(r, Try(req[r], Sources[1], Sources[2]))
    /\ Quiet /\ Frame

\* shouldTrust: token_quota is what the auth middleware read.
Trusted(s) ==
    /\ s.kind = "text" /\ TrustQuota > 0
    /\ user.unlimited \/ s.tokSeen > TrustQuota
    /\ balance["wallet"] > TrustQuota

Opened(s, amount) ==
    [s EXCEPT !.session = TRUE, !.pre = amount, !.fund = amount, !.held = amount,
              !.pc = s.back]

\* GetUserQuota, the two checks of tryWallet, the trust bypass of preConsume.
CheckWallet(r) ==
    LET s == req[r] IN
    /\ s.pc = "check"
    /\ \/ /\ balance["wallet"] <= 0 \/ balance["wallet"] < s.need
          /\ \E n \in NotOpened([s EXCEPT !.code = "short"]) : Put(r, n)
          /\ Quiet
       \/ /\ balance["wallet"] > 0 /\ balance["wallet"] >= s.need
          /\ Put(r, IF Trusted(s) THEN [Opened(s, 0) EXCEPT !.trusted = TRUE]
                    ELSE [s EXCEPT !.pc = "preTok"])
          /\ Quiet
       \/ /\ Adjust(r, "wallet", 0, "err")        \* the query failed
          /\ \E n \in NotOpened([s EXCEPT !.code = "error"]) : Put(r, n)
    /\ Frame

\* 1) the token, unless nothing is to be reserved.  Every failure is a 403.
PreToken(r) ==
    LET s == req[r] IN
    /\ s.pc = "preTok"
    /\ IF TokenShare(s.need) = 0
       THEN Put(r, [s EXCEPT !.pc = "preFund"]) /\ Quiet
       ELSE \E oc \in Outcomes :
            /\ TryReserve(r, "token", s.need, oc)
            /\ Put(r, CASE oc = "ok"    -> [s EXCEPT !.tok = s.need, !.pc = "preFund"]
                        [] oc = "short" -> [s EXCEPT !.pc = "fail"]
                        [] OTHER -> [s EXCEPT !.pc = "fail", !.doubt = @ \cup {"token"}])
    /\ Frame

\* 2) the funding source.
PreFund(r) ==
    LET s == req[r] IN
    /\ s.pc = "preFund"
    /\ IF s.need = 0
       THEN Put(r, Opened(s, 0)) /\ Quiet
       ELSE \E oc \in Outcomes :
            /\ IF s.src = "sub" THEN SubPreConsume(r, s.need, oc)
               ELSE TryReserve(r, "wallet", s.need, oc)
            /\ LET open == IF s.src = "sub" THEN [s EXCEPT !.doubt = @ \ {"sub"}] ELSE s
                   failed == [s EXCEPT !.code = IF oc = "short" THEN "short" ELSE "error",
                                       !.doubt = IF oc = "short" THEN @ ELSE @ \cup {s.src}]
               IN \E n \in IF oc = "ok" THEN {Opened(open, s.need)}
                           ELSE IF s.tok > 0 THEN {[failed EXCEPT !.pc = "preBack"]}
                           ELSE NotOpened(failed) : Put(r, n)
    /\ Frame

\* The token is given back; a failure of that is only logged.
PreBack(r) ==
    LET s == req[r] IN
    /\ s.pc = "preBack"
    /\ \E oc \in Outcomes :
        /\ Adjust(r, "token", -s.tok, oc)
        /\ \E n \in NotOpened([s EXCEPT !.tok = 0, !.doubt =
                                 IF oc = "ok" THEN @ ELSE @ \cup {"token"}]) : Put(r, n)
    /\ Frame

-----------------------------------------------------------------------------
(* reserve: more quota before the request is sent (again).                  *)

Reserve(s, target) ==
    IF Uncertain(s) THEN Refused([s EXCEPT !.code = "error"])
    ELSE IF (s.trusted /\ s.kind = "text") \/ target <= s.pre
    THEN {[s EXCEPT !.pc = "sent"]}
    ELSE {[s EXCEPT !.need = target - s.pre, !.goal = target,
                    !.pc = IF s.src = "sub" THEN "resSub" ELSE "resFund"]}

\* The funding share: a task must have the balance, a text request may overdraw.
ResFund(r) ==
    LET s == req[r] IN
    /\ s.pc = "resFund"
    /\ \E oc \in Outcomes :
        /\ IF s.kind = "task" THEN TryReserve(r, "wallet", s.need, oc)
           ELSE Adjust(r, "wallet", s.need, oc)
        /\ \E n \in CASE oc = "ok"    -> {[s EXCEPT !.held = @ + s.need, !.pc = "resTok"]}
                      [] oc = "short" -> Refused([s EXCEPT !.code = "short"])
                      [] OTHER -> Refused([s EXCEPT !.code = "error", !.fund = @ + s.need,
                                                    !.fundingUncertain = TRUE]) : Put(r, n)
    /\ Frame

\* A reservation that leaves the settlement baseline at the first pre-consume.
ResTok_BaselineKept(r) ==
    LET s == req[r] IN
    /\ s.pc = "resTok"
    /\ TryReserve(r, "token", TokenShare(s.need), "ok")
    /\ Put(r, [s EXCEPT !.fund = @ + s.need, !.tok = @ + TokenShare(s.need), !.pc = "sent"])
    /\ Frame

\* The token share; on success the whole reservation is committed.
ResTok(r) ==
    LET s == req[r]
        t == TokenShare(s.need)
        commit == [s EXCEPT !.pre = @ + s.need, !.fund = @ + s.need, !.tok = @ + t,
                            !.trusted = @ /\ s.kind = "text", !.pc = "sent"]
        back(c) == [s EXCEPT !.code = c, !.pc = "resBack"]
    IN /\ s.pc = "resTok"
       /\ \E oc \in Outcomes :
           /\ IF t = 0 THEN oc = "ok" /\ Quiet ELSE TryReserve(r, "token", t, oc)
           /\ Put(r, CASE oc = "ok"    -> commit
                       [] oc = "short" -> back("short")
                       [] OTHER -> [back("error") EXCEPT !.tok = @ + t,
                                                         !.tokenUncertain = TRUE])
       /\ Frame

\* A rollback that credits the wallet but keeps counting the hold.
ResBack_HoldKept(r) ==
    LET s == req[r] IN
    /\ s.pc = "resBack"
    /\ Adjust(r, "wallet", -s.need, "ok")
    /\ \E n \in Refused(s) : Put(r, n)
    /\ Frame

\* A rollback that also subtracts from preConsumedQuota, which never grew.
ResBack_FromBaseline(r) ==
    LET s == req[r] IN
    /\ s.pc = "resBack"
    /\ Adjust(r, "wallet", -s.need, "ok")
    /\ \E n \in Refused([s EXCEPT !.held = @ - s.need, !.pre = @ - s.need]) : Put(r, n)
    /\ Frame

\* rollbackFundingReserve.
ResBack(r) ==
    LET s == req[r] IN
    /\ s.pc = "resBack"
    /\ \E oc \in Outcomes :
        /\ Adjust(r, "wallet", -s.need, oc)
        /\ \E n \in IF oc = "ok" THEN Refused([s EXCEPT !.held = @ - s.need])
                    ELSE Refused([s EXCEPT !.code = "error", !.fund = @ + s.need,
                                           !.fundingUncertain = TRUE]) : Put(r, n)
    /\ Frame

\* ReserveSubscriptionBilling: subscription and token in one transaction.
ResSub(r) ==
    LET s == req[r]
        take == [Only("sub", s.need) EXCEPT !.token = TokenShare(s.need)]
        fits == Enough("sub", s.need) /\ (user.playground \/ Enough("token", s.need))
    IN /\ s.pc = "resSub"
       /\ \E oc \in SubOutcomes :
           /\ Call(r, take, fits, oc)
           /\ \E n \in
                CASE oc = "ok" -> {[s EXCEPT !.pre = s.goal, !.fund = s.goal,
                                             !.tok = TokenShare(s.goal), !.pc = "sent"]}
                  [] oc = "short" -> Refused([s EXCEPT !.code = "short"])
                  [] oc = "err"   -> Refused([s EXCEPT !.code = "error"])
                  [] OTHER -> Refused([s EXCEPT !.code = "error", !.fundingUncertain = TRUE,
                                                !.tokenUncertain = ~user.playground]) : Put(r, n)
       /\ Frame

-----------------------------------------------------------------------------
(* The relay loops.                                                         *)

\* Relay: a priced text request pre-consumes before the loop, a free one does
\* not; RelayTask prices inside the loop.  A draining server refuses.
Begin(r, kind) ==
    LET s == [req[r] EXCEPT !.kind = kind, !.tokSeen = balance["token"], !.pc = "route"]
    IN /\ req[r].pc = "new" /\ server = "up"
       /\ \/ Put(r, s)
          \/ \E q \in Quotas : kind = "text" /\ Put(r, [s EXCEPT !.goal = q, !.pc = "open"])
       /\ Quiet /\ Frame

\* One attempt up to the request: no channel; nothing to bill (text: not tiered
\* or a free group; task: a free model); or a price for this attempt.
Route(r) ==
    LET s == req[r] IN
    /\ s.pc = "route"
    /\ \/ Put(r, [s EXCEPT !.pc = "fail"])
       \/ /\ s.kind = "text" \/ ~s.session
          /\ Put(r, [s EXCEPT !.pc = "sent"])
       \/ \E q \in Quotas : \E n \in
             IF s.session THEN Reserve(s, q)
             ELSE {[s EXCEPT !.goal = q, !.back = "sent", !.pc = "open"]} : Put(r, n)
    /\ Quiet /\ Frame

\* The upstream answers, or fails and is retried or not.  Also the client's
\* cancellation, and a task row that could not be inserted.
Sent(r) ==
    LET s == req[r] IN
    /\ s.pc = "sent"
    /\ \/ \E a \in Actuals : (s.session \/ a = 0) /\ Put(r, [s EXCEPT !.goal = a, !.pc = "settle"])
       \/ s.tries < MaxRetries /\ Put(r, [s EXCEPT !.tries = @ + 1, !.pc = "route"])
       \/ Put(r, [s EXCEPT !.pc = "fail"])
    /\ Quiet /\ Frame

\* The upstream answers a text request that its content violates the usage
\* guidelines: NormalizeViolationFeeError makes it an error without a retry.
Violation(r) ==
    /\ req[r].pc = "sent" /\ req[r].kind = "text" /\ Fee > 0
    /\ Put(r, [req[r] EXCEPT !.pc = "fail"])
    /\ levy' = [levy EXCEPT ![r] = "due"]
    /\ Running /\ Quiet /\ UNCHANGED <<user, job, server, fee>>

-----------------------------------------------------------------------------
(* Settle.                                                                  *)

\* A settled task still has its aggregate baseline to record.
Finished(s) ==
    {[s EXCEPT !.pc = "done"]} \cup (IF s.kind = "task" THEN {[s EXCEPT !.pc = "review"]} ELSE {})

\* A settlement error is logged by the text relay, and sends a task to review.
Unsettled(s) == [s EXCEPT !.pc = IF s.kind = "task" THEN "review" ELSE "done", !.code = "logged"]

Settle(r) ==
    LET s == req[r] IN
    /\ s.pc = "settle"
    /\ \E n \in CASE ~s.session -> Finished(s)
                  [] s.session /\ Uncertain(s)  -> {Unsettled(s)}
                  [] s.session /\ ~Uncertain(s) /\ s.src = "sub" -> {[s EXCEPT !.pc = "setSub"]}
                  [] OTHER -> IF s.goal = s.pre THEN Finished([s EXCEPT !.settled = TRUE])
                              ELSE {[s EXCEPT !.need = s.goal - s.pre, !.pc = "setFund"]} :
         Put(r, n)
    /\ Quiet /\ Frame

SetFund(r) ==
    LET s == req[r] IN
    /\ s.pc = "setFund"
    /\ \E oc \in Outcomes :
        /\ Adjust(r, "wallet", s.need, oc)
        /\ Put(r, IF oc = "ok" THEN [s EXCEPT !.fund = @ + s.need, !.pc = "setTok"]
                  ELSE Unsettled([s EXCEPT !.fundingUncertain = TRUE]))
    /\ Frame

SetTok(r) ==
    LET s == req[r]
        t == TokenShare(s.need)
    IN /\ s.pc = "setTok"
       /\ \E oc \in Outcomes :
           /\ IF t = 0 THEN oc = "ok" /\ Quiet ELSE Adjust(r, "token", t, oc)
           /\ \E n \in IF oc = "ok"
                       THEN Finished([s EXCEPT !.tok = @ + t, !.settled = TRUE,
                                               !.fundingSettled = TRUE])
                       ELSE {[s EXCEPT !.tokenUncertain = TRUE, !.pc = "setBack"]} : Put(r, n)
       /\ Frame

\* The compensation left out: the funding stage stays applied.
SetBack_Skipped(r) ==
    LET s == req[r] IN
    /\ s.pc = "setBack"
    /\ Put(r, Unsettled([s EXCEPT !.fund = @ - s.need]))
    /\ Quiet /\ Frame

\* The funding stage is compensated.
SetBack(r) ==
    LET s == req[r] IN
    /\ s.pc = "setBack"
    /\ \E oc \in Outcomes :
        /\ Adjust(r, "wallet", -s.need, oc)
        /\ Put(r, Unsettled(IF oc = "ok" THEN [s EXCEPT !.fund = @ - s.need]
                            ELSE [s EXCEPT !.fundingUncertain = TRUE, !.fundingSettled = TRUE]))
    /\ Frame

\* SettleSubscriptionBilling: what the subscription cannot hold goes to the
\* wallet, if the plan, the user's preference and the relay allow it.
SetSub(r) ==
    LET s == req[r]
        delta == s.goal - s.pre
        room == IF balance["sub"] > 0 THEN balance["sub"] ELSE 0
        part == IF delta > room THEN delta - room ELSE 0
        take == [wallet |-> part, sub |-> delta - part, token |-> TokenShare(s.goal) - s.tok]
        fits == part = 0 \/ (s.kind = "text" /\ user.pref # "subscription_only" /\ user.overflow)
    IN /\ s.pc = "setSub"
       /\ \E oc \in SubOutcomes :
           /\ Call(r, take, fits, oc)
           /\ \E n \in CASE oc = "ok" ->
                              Finished([s EXCEPT !.fund = s.goal, !.tok = TokenShare(s.goal),
                                                 !.settled = TRUE, !.fundingSettled = TRUE])
                         [] oc \in Unknown ->
                              {Unsettled([s EXCEPT !.fundingUncertain = TRUE,
                                                   !.tokenUncertain = ~user.playground])}
                         [] OTHER -> {Unsettled(s)} : Put(r, n)
       /\ Frame

-----------------------------------------------------------------------------
(* Refund, its goroutine, and shutdown.                                     *)

NeedsRefund(s) == s.session /\ ~s.settled /\ ~s.refunded /\ ~s.fundingSettled
                  /\ (s.tok > 0 \/ s.held > 0)

\* A refund that does not look at the uncertainty flags.
Refund_Blind(r) ==
    LET s == req[r] IN
    /\ s.pc = "fail"
    /\ Put(r, [s EXCEPT !.pc = "done", !.refunded = NeedsRefund(s)])
    /\ job' = [job EXCEPT ![r] = IF NeedsRefund(s) THEN "queued" ELSE @]
    /\ levy' = [levy EXCEPT ![r] = IF @ = "due" THEN "fund" ELSE @]
    /\ Running /\ Quiet /\ UNCHANGED <<user, server, fee>>

\* The deferred Refund: withheld while an outcome is unknown.
Refund(r) ==
    LET s == req[r]
        start == NeedsRefund(s) /\ ~Uncertain(s)
    IN /\ s.pc = "fail"
       /\ Put(r, [s EXCEPT !.pc = "done", !.refunded = start])
       /\ job' = [job EXCEPT ![r] = IF start THEN "queued" ELSE @]
       /\ levy' = [levy EXCEPT ![r] = IF @ = "due" THEN "fund" ELSE @]
       /\ Running /\ Quiet /\ UNCHANGED <<user, server, fee>>

\* RefundSubscriptionBilling: one transaction, whose failure is recorded.
JobSub(r) ==
    LET s == req[r] IN
    /\ job[r] = "queued" /\ s.src = "sub"
    /\ \E oc \in SubOutcomes \ {"short"} :
        /\ Call(r, [Only("sub", -s.pre) EXCEPT !.token = -s.tok], TRUE, oc)
        /\ job' = [job EXCEPT ![r] = IF oc = "ok" THEN "ok" ELSE "failed"]
    /\ Running /\ UNCHANGED <<user, req, server, fee, levy>>

\* funding.Refund: a wallet credit is not idempotent and not retried.
JobWallet(r) ==
    LET s == req[r] IN
    /\ job[r] = "queued" /\ s.src = "wallet"
    /\ \E oc \in Outcomes :
        /\ IF s.held > 0 THEN Adjust(r, "wallet", -s.held, oc) ELSE oc = "ok" /\ Quiet
        /\ job' = [job EXCEPT ![r] = IF oc = "ok" THEN "token" ELSE "bad"]
    /\ Running /\ UNCHANGED <<user, req, server, fee, levy>>

\* A refund goroutine that returns on a wallet error without its Done.
JobToken_NotDone(r) ==
    /\ job[r] = "token"
    /\ Adjust(r, "token", -req[r].tok, "ok")
    /\ job' = [job EXCEPT ![r] = "ok"]
    /\ Running /\ UNCHANGED <<user, req, server, fee, levy>>

\* The token is refunded whether or not the wallet was.
JobToken(r) ==
    LET s == req[r] IN
    /\ job[r] \in {"token", "bad"}
    /\ \E oc \in Outcomes :
        /\ IF s.tok > 0 THEN Adjust(r, "token", -s.tok, oc) ELSE oc = "ok" /\ Quiet
        /\ job' = [job EXCEPT ![r] = IF oc = "ok" /\ job[r] = "token" THEN "ok" ELSE "failed"]
    /\ Running /\ UNCHANGED <<user, req, server, fee, levy>>

(* ChargeViolationFeeIfNeeded: PostConsumeQuota outside the session, whose    *)
(* refund goroutine may not have run yet.                                    *)

\* The session's funding source; the wallet when there is no session.
Payer(s) == IF s.session THEN s.src ELSE "wallet"

Charge(r, a, fits, oc) ==
    /\ Answers(fits, oc)
    /\ IF oc \in {"ok", "late"}
       THEN /\ fee' = [fee EXCEPT ![r][a] = @ + Fee]
            /\ balance' = [balance EXCEPT ![a] = @ - Fee]
       ELSE UNCHANGED <<fee, balance>>
    /\ Running /\ UNCHANGED <<user, req, net, job, server>>

\* A fee that goes on to the token after a funding error.
LevyFund_GoesOn(r) ==
    /\ levy[r] = "fund"
    /\ \E oc \in Outcomes :
        /\ Charge(r, Payer(req[r]), Payer(req[r]) = "wallet" \/ Enough("sub", Fee), oc)
        /\ levy' = [levy EXCEPT ![r] = IF user.playground THEN "paid" ELSE "tok"]

\* The wallet pays whatever its balance, the subscription what it has left.
\* An error is logged, and the token is not charged then.
LevyFund(r) ==
    /\ levy[r] = "fund"
    /\ \E oc \in Outcomes :
        /\ Charge(r, Payer(req[r]), Payer(req[r]) = "wallet" \/ Enough("sub", Fee), oc)
        /\ levy' = [levy EXCEPT ![r] = IF oc # "ok" THEN "unpaid"
                                        ELSE IF user.playground THEN "paid" ELSE "tok"]

LevyTok(r) ==
    /\ levy[r] = "tok"
    /\ \E oc \in Outcomes :
        /\ Charge(r, "token", TRUE, oc)
        /\ levy' = [levy EXCEPT ![r] = IF oc = "ok" THEN "paid" ELSE "unpaid"]

Become(s) == server' = s /\ UNCHANGED <<user, req, net, fee, balance, job, levy, faults>>

\* requests.stop.
Stop == server = "up" /\ Become("stopping")

\* server.Shutdown and requests.wait: every handler has returned.
Drained ==
    /\ server = "stopping"
    /\ \A r \in Requests : req[r].pc \in Ended \cup {"new"} /\ levy[r] \notin Levying
    /\ Become("drained")

\* A wait that sees only the refunds a worker has already begun.
WaitRefunds_StartedOnly ==
    /\ server = "drained"
    /\ \A r \in Requests : job[r] \in JobEnded \cup {"queued"}
    /\ Become(IF \E r \in Requests : job[r] = "failed" THEN "incomplete" ELSE "clean")

\* WaitBillingRefunds: registered before dispatch, so queued ones count.
WaitRefunds ==
    /\ server = "drained"
    /\ \A r \in Requests : job[r] \in JobEnded
    /\ Become(IF \E r \in Requests : job[r] = "failed" THEN "incomplete" ELSE "clean")

\* SHUTDOWN_TIMEOUT_SECONDS elapsed: the process exits with work in flight.
TimedOut == server \in {"stopping", "drained"} /\ Become("incomplete")

Handler(r) ==
    \/ Open(r) \/ CheckWallet(r) \/ PreToken(r) \/ PreFund(r) \/ PreBack(r)
    \/ Route(r) \/ ResFund(r) \/ ResTok(r) \/ ResBack(r) \/ ResSub(r) \/ Sent(r)
    \/ Violation(r)
    \/ Settle(r) \/ SetFund(r) \/ SetTok(r) \/ SetBack(r) \/ SetSub(r) \/ Refund(r)
    \/ LevyFund(r) \/ LevyTok(r)

Job(r) == JobSub(r) \/ JobWallet(r) \/ JobToken(r)

Next ==
    \/ \E r \in Requests : (\E k \in Kinds : Begin(r, k)) \/ Handler(r) \/ Job(r)
    \/ Stop \/ Drained \/ WaitRefunds \/ TimedOut

Spec == Init /\ [][Next]_vars

\* Handlers and refund goroutines that can run do (every call has a timeout or
\* fails); nothing forces a client to send, or a shutdown to begin or time out.
FairSpec ==
    /\ Spec
    /\ \A r \in Requests : WF_vars(Handler(r)) /\ WF_vars(Job(r))
    /\ WF_vars(Drained) /\ WF_vars(WaitRefunds)

-----------------------------------------------------------------------------
(* Properties.                                                              *)

Funded(r) == net[r].wallet + net[r].sub

KnownFunding(r) == ~req[r].fundingUncertain /\ req[r].doubt \cap {"wallet", "sub"} = {}
KnownToken(r) == ~req[r].tokenUncertain /\ "token" \notin req[r].doubt

(* A request that Settle reports as settled has moved exactly the reported    *)
(* amount out of wallet and subscription, and the token by the same amount,   *)
(* whatever was reserved, retried and compensated before (unless a pre-consume*)
(* with an unknown outcome was discarded on the way).                         *)
ChargedAsSettled ==
    \A r \in Requests : req[r].settled =>
        /\ req[r].doubt \cap {"wallet", "sub"} = {} => Funded(r) = req[r].goal
        /\ "token" \notin req[r].doubt => net[r].token = TokenShare(req[r].goal)

(* Between calls the session's books are the truth: fundingConsumed and       *)
(* tokenConsumed are what the request holds, or the matching uncertainty flag *)
(* is set.  Manual review of a task relies on this snapshot.                  *)
BooksMatch ==
    \A r \in Requests :
        req[r].session /\ job[r] = "none"
        /\ req[r].pc \in {"route", "sent", "settle", "fail"} \cup Ended =>
            /\ KnownFunding(r) => Funded(r) = req[r].fund
            /\ KnownToken(r) => net[r].token = req[r].tok

(* A request that failed costs nothing once its refund has run, on every path:*)
(* rolled back pre-consume, rolled back reservation, refund -- except the fee *)
(* for a content violation.  A fee that went through costs Fee, of the funding*)
(* source and of the token; of one that failed, nothing says whether it was   *)
(* applied, but the token never pays without the funding source.  (Only a     *)
(* session with an unknown outcome keeps its hold, for reconciliation.)       *)
FailedCostsOnlyFee ==
    \A r \in Requests :
        req[r].pc = "done" /\ ~req[r].settled /\ req[r].code # "logged"
        /\ ~Uncertain(req[r]) /\ job[r] \in {"none", "ok"} /\ levy[r] \notin Levying =>
            LET funding == Funded(r) + fee[r].wallet + fee[r].sub
                token == net[r].token + fee[r].token
            IN /\ levy[r] = "none" => /\ KnownFunding(r) => funding = 0
                                      /\ KnownToken(r) => token = 0
               /\ levy[r] = "paid" => /\ KnownFunding(r) => funding = Fee
                                      /\ KnownToken(r) => token = TokenShare(Fee)
               /\ levy[r] = "unpaid" /\ KnownFunding(r) /\ KnownToken(r) =>
                     <<funding, token>> \in {<<0, 0>>, <<Fee, 0>>, <<Fee, TokenShare(Fee)>>}

(* No account is ever given back more than the request has taken from it,     *)
(* failed and half-applied calls included.                                    *)
NeverOverRefunds == \A r \in Requests : \A a \in Accounts : net[r][a] >= 0

(* Once the outcome of a charge is unknown, nothing moves that money again    *)
(* automatically: neither a retry, nor settlement, nor the refund goroutine.  *)
(* (A violation fee is a charge of its own: it leaves the disputed one as it  *)
(* is.)                                                                       *)
UncertainIsFrozen ==
    [][\A r \in Requests :
        /\ req[r].fundingUncertain => Funded(r)' = Funded(r)
        /\ req[r].tokenUncertain => net[r].token' = net[r].token]_vars

(* A clean exit means that no handler is in flight, not even in its deferred  *)
(* violation fee, and that every refund, queued ones included, has succeeded. *)
CleanMeansAccounted ==
    server = "clean" => \A r \in Requests :
        /\ req[r].pc \in Ended \cup {"new"} /\ levy[r] \notin Levying
        /\ job[r] \in {"none", "ok"} /\ (req[r].refunded => job[r] = "ok")

(* A hold does not outlive its request: every admitted request ends, its fee  *)
(* and its refund goroutine too, unless the shutdown timeout cuts them off.           *)
HoldsEnd ==
    \A r \in Requests :
        req[r].pc # "new" ~> \/ req[r].pc \in Ended /\ job[r] \in JobEnded
                                /\ levy[r] \notin Levying
                             \/ server = "incomplete"

(* What service/error.go claims by marking billing failures as local (a       *)
(* failed pre-consume is not retried): a task is charged for once.            *)
ChargedOnce == \A r \in Requests : req[r].settled => Funded(r) = req[r].goal

-----------------------------------------------------------------------------
(* Why they hold: BillingInv is inductive.  Its parts are about one request: *)
(* s is its record, n what it has taken, j its refund goroutine and pg       *)
(* whether the user is in the playground.                                    *)

Share(pg, n) == IF pg THEN 0 ELSE n
Opening == {"open", "check", "preTok", "preFund", "preBack"}
Holding == {"resTok", "resBack"}
Settling == {"setTok", "setBack"}
Calling == {"resFund", "resSub", "setFund", "setSub"} \cup Holding \cup Settling
Between == {"route", "sent", "settle", "fail"}

\* A session exists from the end of pre-consume, and one with an unknown
\* outcome is left alone.
InPlace(s, j) ==
    /\ s.pc \in {"new"} \cup Opening => ~s.session
    /\ s.pc \in Calling => s.session
    /\ s.session => s.src # "none"
    /\ s.pc \in {"preTok", "preFund", "preBack"} => s.src # "none"
    /\ s.pc \in {"check", "resFund", "setFund"} \cup Holding \cup Settling => s.src = "wallet"
    /\ s.pc \in {"resSub", "setSub"} => s.src = "sub"
    /\ s.fundingUncertain => s.pc \in Between \cup Ended
    /\ s.tokenUncertain => s.pc \in {"resBack", "setBack"} \cup Between \cup Ended
    /\ s.pc = "setBack" => s.tokenUncertain
    /\ s.settled \/ s.fundingSettled => s.pc \in Ended
    /\ Uncertain(s) => ~s.settled /\ j = "none"
    /\ s.refunded <=> j # "none"
    /\ j # "none" => s.pc = "done" /\ s.session /\ ~s.settled
    /\ j \in {"token", "bad"} => s.src = "wallet"

\* How the session's counters hang together.
Counted(pg, s) ==
    /\ ~s.session => /\ s.pre = 0 /\ s.fund = 0 /\ s.held = 0
                     /\ ~Uncertain(s) /\ ~s.settled /\ ~s.fundingSettled
                     /\ s.tok = 0 \/ s.pc \in {"preFund", "preBack"}
    /\ s.pc \in {"check", "preTok", "preFund"} => s.need >= 0 /\ (s.src = "sub" => s.need > 0)
    /\ s.pc = "preFund" => s.tok = Share(pg, s.need)
    /\ s.pc \in {"resFund", "resSub", "setFund"} \cup Holding \cup Settling => s.need = s.goal - s.pre
    /\ s.pc \in {"resFund", "resSub"} \cup Holding => s.need > 0
    /\ s.session /\ ~Uncertain(s) /\ ~s.settled =>
        /\ s.tok = Share(pg, s.pre)
        /\ s.fund = s.pre + (IF s.pc \in Settling THEN s.need ELSE 0)
        /\ s.src = "sub" => s.held > 0
        /\ s.src = "wallet" => s.held = s.pre + (IF s.pc \in Holding THEN s.need ELSE 0)
    /\ s.pc = "resBack" => s.held = s.fund + s.need
    /\ s.pc = "setBack" => s.fund >= s.need
    /\ s.settled => s.fund = s.goal /\ s.tok = Share(pg, s.goal)

\* A failed request that started no refund had nothing to give back.
NothingLeft(s, j) ==
    s.pc = "done" /\ s.session /\ ~s.settled /\ s.code # "logged" /\ ~Uncertain(s) /\ j = "none" =>
        s.tok = 0 /\ s.held = 0

\* What the books say of an account, and whether they can be trusted.
TokenBook(s, j) == IF j = "ok" THEN 0 ELSE s.tok
FundBook(s, j) == IF j \in {"token", "ok"} THEN 0 ELSE IF s.pc \in Holding THEN s.held ELSE s.fund
Pays(s, a, j) == IF s.session /\ s.src = a THEN FundBook(s, j) ELSE 0
Spilled(s) == s.session /\ s.src = "sub" /\ s.settled

\* The accounts hold what the books say, and more only where a discarded
\* pre-consume may have left something.
TokenBacked(s, n, j) ==
    ~s.tokenUncertain /\ j # "failed" =>
        n["token"] >= TokenBook(s, j) /\ ("token" \notin s.doubt => n["token"] = TokenBook(s, j))
FundBacked(s, n, j) ==
    ~s.fundingUncertain /\ j \notin {"bad", "failed"} =>
        /\ ~Spilled(s) => \A a \in {"wallet", "sub"} :
              n[a] >= Pays(s, a, j) /\ (a \notin s.doubt => n[a] = Pays(s, a, j))
        /\ Spilled(s) /\ "wallet" \notin s.doubt => n["wallet"] + n["sub"] = s.fund
        /\ s.session /\ s.src = "sub" => "sub" \notin s.doubt

Sound(pg, s, n, j) ==
    /\ InPlace(s, j) /\ Counted(pg, s) /\ NothingLeft(s, j)
    /\ TokenBacked(s, n, j) /\ FundBacked(s, n, j)
    /\ \A a \in Accounts : n[a] >= 0

\* What the fee has taken: x of the account that pays it and y of the token.
Took(s, f, x, y) ==
    f = [a \in Accounts |-> CASE a = Payer(s) -> x [] a = "token" -> y [] OTHER -> 0]

\* How far the fee v of a request has got.
Levied(pg, s, v, f) ==
    /\ v = "due" => s.pc = "fail"
    /\ v \in {"paid", "unpaid"} \cup Levying => s.pc = "done"
    /\ v \in {"none", "due", "fund"} => \A a \in Accounts : f[a] = 0
    /\ v = "tok" => Took(s, f, Fee, 0) /\ ~pg
    /\ v = "paid" => Took(s, f, Fee, Share(pg, Fee))
    /\ v = "unpaid" => Took(s, f, 0, 0) \/ Took(s, f, Fee, 0) \/ Took(s, f, Fee, Share(pg, Fee))

BillingInv ==
    /\ SessionTypes
    /\ \A r \in Requests : Sound(user.playground, req[r], net[r], job[r])
    /\ server \in {"drained", "clean"} => \A r \in Requests : req[r].pc \in Ended \cup {"new"}
    /\ server = "clean" => \A r \in Requests : job[r] \in {"none", "ok"}

FeeInv ==
    /\ TypeOK
    /\ \A r \in Requests : Levied(user.playground, req[r], levy[r], fee[r])
    /\ server \in {"drained", "clean"} => \A r \in Requests : levy[r] \notin Levying
=============================================================================
