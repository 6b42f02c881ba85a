# LemonHub: formal models of accounting, coordination and sessions

LemonHub is a multi-tenant gateway in Go in front of AI providers.  A request is
authenticated, priced, paid for in advance out of a wallet or a subscription,
relayed with retries, and settled at what it really cost.  Several nodes share
one SQL database and one Redis.  Almost everything that is hard to get right, and
hard to test, is in the money paths and in the coordination of the nodes, so
that is what most modules model; two more model the web client (TypeScript) where it
has a protocol of its own: the login shared by the tabs of a browser, and the chat
playground.  Paths below are relative to `src/`.

## 1. Inventory

| Component | State it keeps | Operations | Interacts with |
|---|---|---|---|
| System task leases (`model/system_task.go`, `service/system_task.go`) | task rows with a unique `active_key`, one lock row per type | create, schedule, claim, take over, heartbeat, finish, fail stale leases, stop | every periodic job of the masters |
| Billing session (`service/billing_session.go`, `funding_source.go`, `billing.go`) | per request: holds, baselines, uncertainty flags | pre-consume, reserve, settle, refund | relay loops, wallet, token, subscription |
| Relay loops (`controller/relay.go`, `relay/relay_task.go`) | retry counter, channel, price of the attempt | attempt, retry, fail, settle, charge a violation fee | billing session, wallet, token, providers |
| Subscription billing (`model/subscription_settlement.go`, `model/subscription.go`) | `amount_used`, reset times, receipts | pre-consume, reserve, settle, refund, reset, expire, clean up | billing session, token and wallet mirror |
| Wallet mirror (`model/quota_reserve.go`, `user_cache.go`, `user_auth_cache.go`) | `users.quota`, Redis hash with generation, uncertainty fence | reserve, debit, credit, hydrate, fence, resolve | every payment path |
| Token quota (`model/token.go`, `token_cache.go`) | `remain_quota`, mirror | same scripts as the wallet | billing session |
| Task billing ledger and polling (`model/task_billing_ledger.go`, `service/task_billing.go`, `task_polling.go`) | journal of stages, task status | apply, undo, refund, re-price, poll, bulk fail, sweep | wallet, token, fences, system tasks |
| Top-up, site wallet, affiliate, redemption, check-in | orders, balances, commissions | callback, credit, claw back, redeem | wallet |
| Login sessions (`model/user_session.go`, `service/auth_session.go`) | session row, snapshot in Redis, deny fences and tombstones, the user's security version | validate, refresh (rotate), revoke, sign out, advance across a security change | user cache, web client |
| Web client: authentication (`web/src/lib/auth-session.ts`, `http-client.ts`, `features/auth/api.ts`, `routes/__root.tsx`) | per tab: auth store, refresh under way; per browser: cookie, Web Lock | bootstrap, refresh, retry a call, sign in, sign out, react to other tabs | login sessions |
| Web client: playground (`web/src/features/playground/`) | messages, generation counter, buffered chunks, timers, stored chats | send, regenerate, edit, delete, clear, stop, stream, save, load | relay, browser storage |
| External identities | claims, bindings | bind, unbind | users |
| Rate limits, channel choice, email campaigns, rewards, tickets | counters, caches, queues | check, record, pick, send | relay, system tasks |
| Shutdown (`shutdown.go`, `service/billing_shutdown.go`) | in-flight requests, refund wait group | stop, drain, wait, time out | relay, refunds |
| Conversions, adaptors, views | none of the above | | not modelled |

What is hard: statements of several nodes interleave without a transaction around
them; a call may fail after it was applied; leases expire while their owner is only
slow; goroutines outlive their handler; a cache with authority over money is
filled, fenced and evicted concurrently; and periods end between a charge and its
refund.  `PROJECT.json` lists these hazards line by line with the properties that
cover each.

What makes each modelled part correct:

* leases: a task runs at one runner, its verdict is final, and it always reaches one;
* sessions: a request costs exactly what was settled, a failed one nothing but a fee for a
  content violation, nothing is given back twice, and a clean exit has lost no refund;
* subscriptions: the receipt is the truth whatever is repeated, usage stays within
  the total, and quota is given back to the period it came from;
* wallet mirror: what the mirror lets a user spend is backed by the row;
* task billing: a task that is ready has cost what its row says, one outcome is billed,
  an abandoned bill ends under review,
  and nobody spends balances that are half moved;
* login sessions: a revoked session is not accepted, at once where the cache took the
  tombstone and after one cache lifetime everywhere;
* tabs: normal use never looks like a stolen token, a sign-out that reached the session
  is final, every request ends;
* playground: text reaches the answer it was generated for, chats stay with their
  account, a generation ends and leaves a settled message.

## 2. Modules

`SystemTask` — the protocol of one task type.  `task` and `lock` are the two tables;
`loop[r]` is the runner goroutine of a master with its local variables; `handler[r][t]`
the goroutine of `runWithLeaseHeartbeat`.  One action is one SQL statement.
`acquireSystemTaskLock` is therefore `LockCreate`, `LockRead`, `LockSteal`, and
`ExpireStaleSystemTaskLocks` is `ExpireRead`, `ExpireMark`, `ExpireDelete`.  Time is
the state of the lease; `seen = "stale"` says that a runner has read a lease that was
already over, so that its later `locked_until < now` still matches.  A node may crash
or be stopped between any two statements, and a statement may fail without effect.
A restarted node is a new runner id.  All nodes are assumed to agree on the clock.

`BillingSession` — one user, several requests.  `req[r]` holds the fields of the Go
struct plus a control state; `net[r]` what the request has *really* taken from wallet,
token and subscription, `balance` what the user has left.  One action is one call into package `model`; its outcome is
ok, refused for lack of balance, failed, or failed although applied.  The text relay
(`Relay`) and the task relay (`RelayTask`) drive it, including the decision to retry.
After a failure the text relay starts the refund and then, for a content violation, charges
a fee past the session (`ChargeViolationFeeIfNeeded`, `service/violation_fee.go`): `LevyFund` charges
wallet or subscription and `LevyTok` the token, beside the refund goroutine; `levy[r]` says how
far the fee has got and `fee[r]` what it has taken.  `server` is the accounting shutdown.

`SubscriptionBilling` — what stands behind the subscription calls: rows, receipts,
time, resets, expiry, cleanup.  Every call is one transaction, and any call may be
made at any time with any baseline; a commit may report an error and be applied.
The Redis side is reduced to the fence that an unconfirmed mutation leaves; `flagged` is
the column `reconciliation_required`, `clear` the late UPDATE that resets it.  All
subscriptions have a reset period and a finite total.  `cur` (the share of the current
period), `moved` and `unseen` are history variables.  `unseen` holds the requests whose receipts
do not show the period they belong to: open receipts that an admin reset leaves with a
`last_reset_time` not after their creation, and those charged at a period's end with the `now`
of the period before.

`WalletCache` — what stands behind the wallet calls: `users.quota`, the Redis hash and
its generation, the uncertainty fence.  One action is one round trip (Lua script or SQL
statement).  Answers may be lost after the effect; goroutines may die anywhere; hash
and fence may expire.  `InFlight` counts the quota units of granted debits that are still
to be stored.  `exposed` is a history variable: the hash disappeared while
another goroutine had a granted debit to store or a balance to publish.

`TaskBilling` — one asynchronous task (`model/task_billing_ledger.go`, `service/task_billing.go`,
`task_polling.go`, `model/task.go`).  `task` is the row, `ledger` the journal, `charge` what
the task has really cost, `fence` the Redis fence sets, `sub` the submitting request and
`wk[w]` a poller, status query or sweep with its copy of the row.  One action is one
transaction, statement or script.  A commit of unknown outcome is `doubt`: it holds the row
lock until the database lands or drops it, and `resolveTaskBillingApplyCommit` reads it back.
A poller that finds no upstream id or no channel writes FAILURE with `TaskBulkUpdateByID`, whatever
the status is by then; `bulk` remembers it.  The sweep of stale rows is part of a polling pass:
`Schedule` creates one (`pass`) while `HasUnfinishedSyncTasks` finds a running task whose billing is
ready, which this task may be or, if `Others`, another one; `SweepRead` and `SweepNothing` use it up.

`UserSession` — one login session: its row, its snapshot in the Redis of each node group,
and calls that look it up, rotate its token, revoke it or advance it.  Every statement and
script is one step, the clock may tick between any two, and any of them may fail.
`killed` (when the row was revoked) and `sealed` (the caches that took its tombstone) are
history variables.  `LoginSession` is the abstract specification: a session is active, then
revoked, then dead, and a request that begins when it is dead is denied.  `UserSession!Promise`
instantiates it with a mapping from row, clock and calls; the run `usersession` checks
`Promise!Spec` as `BoundedStaleness`.

`AuthTabs` — the tabs of one browser.  `tab`, `ref`, `api`, `out`, `login` are what a tab has
under way, `lock` the queue of the Web Lock, `mail` the events between tabs; a session on the
server is one atomic step per request, since `UserSession` looks inside it.  `gap` collects the
sessions whose replay window closed before a new token reached the browser, `blind` those a
sign-out left alone because it carried neither a good access token nor a cookie (`CookieLost`: the
browser no longer has it), `signedOut` the
confirmed sign-outs, and `credit` the reloads a sign-in justifies.

`Playground` — one tab of the playground.  A step is one task of the browser's event loop.
State updates made by timers and network events are queued as updater functions and run by a
later `Render`; those of a click run before the next task.  `store` is the browser storage
per account, `reqs` the requests on the wire, `pending` the chunks waiting for the flush timer.

The `*Proofs` modules hold the theorems about the module they are named after; the `MC_*` modules
the values of constants and the symmetry sets.

The modules meet at the calls: an action of `BillingSession` on the wallet is a whole
operation of `WalletCache`, one on the subscription a whole operation of
`SubscriptionBilling`; the outcomes of `BillingSession` ("err", "late", "lost") are the
answers those modules can give.  `TaskBilling` starts where `BillingSession` ends, with the hold of
a submitted task, and a request of `AuthTabs` is a whole call of `UserSession`.

## 3. Runs

| Run | Instance | What it shows |
|---|---|---|
| `systemtask` | 2 runners, 2 tasks, 1 failing statement, crashes, fair | `DispatchedOnce`, `RunningHasLock`, `TerminalIsFinal`, `ActiveTaskFinishes` |
| `systemtask_stall` | 1 task, a claimer may be paused beyond its lease | violates `ActiveTaskFinishes` |
| `billing_one` | 1 request, 6 sorts of user, 1 retry, a violation fee, 2 failing calls, fair | `ChargedAsSettled`, `BooksMatch`, `FailedCostsOnlyFee`, `UncertainIsFrozen`, `HoldsEnd` |
| `billing_pair` | 2 requests on the same balances, 1 failing call | `NeverOverRefunds`, `CleanMeansAccounted` |
| `billing_retry` | 1 task request, 1 failing call | violates `ChargedOnce` |
| `subscription_receipt` | 2 interchangeable requests, 2 subscriptions, 1 fault, admin resets, a stale `now` | `UsedWithinTotal`, `ReceiptIsTruth`, `TerminalFrozen`, `EvidenceKept`, `SeenResetsAreSafe` |
| `subscription_reset` | 2 requests, 1 subscription, admin resets that keep the reset times | violates `RefundsOwnPeriod` |
| `wallet_backed` | 2 goroutines, 4 operations of all kinds, 2 faults, evictions | `SpendableBacked` |
| `tasks` | 2 workers, 1 task beside others (`Others`), 3 polls, 2 faults, fair | `ReadyIsExact`, `OneOutcome`, `PartialIsFenced`, `BillingEnds` |
| `usersession` | 2 calls of 6 kinds, 1 Redis, 1 security change, 1 fault | `RevocationPrompt`, `BoundedStaleness` (refinement of `LoginSession`) |
| `authtabs` | 2 tabs, 2 sessions, 3 moves of the user or of time, 1 fault, fair | `NoFalseReuse`, `SignOutRevokes`, `SignedOutStaysOut`, `ReloadPerLogin`, `CallsEnd`, `RevokedIsNoticed` |
| `playground` | 2 accounts, 2 sends, 2 chunks each, 1 edit or delete, 1 page change, fair | `OwnAnswer`, `OwnChat`, `EndedIsSettled`, `LeavingKeepsChat`, `GenerationEnds` |

Each passing run but `billing_pair`, `subscription_receipt` and `authtabs` also checks its module's `TypeOK`.

Bounds.  Every bound is a constant with a guard: task rows, faults, operations,
retries, the clock.  Two runners are what a race for a lock needs, and two tasks what a
takeover of a lock from one task by another needs.  In the billing runs the balances
are 2 to 4 and the prices 0 to 3, so that every comparison has both answers, the trust
bypass happens, fallback happens in both directions, and a settlement may exceed what
is left.  Two failing calls reach a failing compensation of a failing step.  Two
subscriptions with different overflow settings reach the strict check; a period of 1
or 2 seconds puts resets between any two calls.  With a period of 1 second an admin reset that
advances the reset times leads to states that the other resets reach as well, so the run has
only those that keep them.  Its requests all charge a token, so that they are symmetric; that those
of the playground charge none is covered by the theorems, which hold for any set of them.  Four wallet operations by two
goroutines suffice for hydrate - debit - evict - hydrate against a slow second one.
Two workers are what a
race for the status of a task needs; two faults reach a crash after an in-doubt commit and a
failing undo, and the prices 2 and 3 re-price a task upwards and not at all.  In
`usersession` the cache lifetime (2) is shorter than the session (3), so that entries and
tombstones expire and are filled again before it ends; two calls are what a fill racing a
revocation needs.  Three moves are a sign-in, an expiry and a sign-out in two tabs.  In
`playground` three stored messages make trimming happen, two sends put the events of a
stopped answer beside those of the next, and a chunk more or less decides whether text is
buffered, queued or rendered.  Deadlock is not checked anywhere: all these systems may
legitimately come to rest (nothing left to do within the bounds, or shut down).

Fairness.  `SystemTask!FairSpec`: the loop and the handlers of a live process go on (the
loop is woken by a ticker, statements time out); a pass over stale leases and over
pending rows is started again and again by that ticker, whatever other passes do
(strong fairness, since its enabling comes and goes with the work of the loop); a lease
nobody renews runs out.  Nothing makes a task be created, a node stop or crash.
`BillingSession!FairSpec`: handlers and refund goroutines go on, and the shutdown's waits
notice their condition.  Nothing makes clients send, the shutdown begin, or its timeout
fire.  `TaskBilling!Spec`: the submitting request and running workers go on, the database decides
an in-doubt transaction, an upstream that was asked answers (or the poller gives the task up), and
a pass is scheduled while `HasUnfinishedSyncTasks` holds (weak fairness of `Schedule`: a periodic
system task with that condition).  A pass finds the stale row at the latest when it is old enough:
strong fairness of `SweepRead`, since each pass that comes too early is used up.  Where nothing but
the stuck row is left, no pass is scheduled, and no fairness helps; `tasks` therefore assumes other
unfinished tasks (`Others`, see section 4).  Nothing makes anybody
poll.  `AuthTabs!FairSpec`: a refresh
that was begun is sent when the lock is granted (the queue is served in order), answered or
fails, and its handler runs; the same for a call.  Nothing makes a user act or time pass.
`Playground!Spec`: the browser renders queued updates, and what is on the wire makes
progress or fails.  Nothing makes the user press Stop.

## 4. What the violated runs say about the code

1. `systemtask_stall`: the UPDATE that makes a claimed row running
   (`model/system_task.go:247`) does not ask whether the lock is still held.  A
   claimer that sleeps through its TTL leaves a running row without a lock row; the
   stale-lock pass looks only at lock rows, and `active_key` blocks the type for good.
2. `billing_retry`: `shouldRetryTaskRelay` looks at the 5xx status before `LocalError`,
   so a pre-consume that failed after it was applied is done again.
3. `subscription_reset`: an admin reset that keeps the reset times is invisible to the
   guard against giving back quota of an earlier period.  (The guard also has a window of
   one second: a reset in the second in which the receipt was written, or a charge made then with the
   `now` of the second before.)  `SeenResetsAreSafe` and its theorem `PeriodCheckSuffices` show
   that nothing else gets past it.

Some properties that hold name an exception, a case the code really has:

* `SpendableBacked`: a debit is granted by the mirror and stored in the row afterwards.  If the
  hash disappears in between (expiry, invalidation, or the fence of another goroutine's failed
  write) the next fill reads the row without that debit.  The property shows that this, and
  a fill that was under way when the hash disappeared, are the only ways for the mirror to be
  too high.
* `FailedCostsOnlyFee`: a fee whose charge failed may have been applied, to the funding source
  alone or to both accounts; nothing in the code finds out.  A session with an outcome of
  its own unknown keeps its hold.  The comment at `service/violation_fee.go:109` says that the fee is
  charged after the refund; but `Refund` only starts a goroutine (`service/billing_session.go:216`), so
  the fee may be refused because the hold still fills the subscription, and that is only logged.
* `SeenResetsAreSafe`: the requests in `unseen`, see `subscription_reset`.
* `OneOutcome`: a settlement in the ledger of a failed task, after a bulk update has written over
  its success.  `TaskBulkUpdateByID` carries a warning (`model/task.go:660`) not to use it where a status
  change involves billing, for it has no status guard; the pollers use it to fail tasks without
  upstream id or channel (`service/task_polling.go:171, 243, 456`).  Without the exception TLC finds:
  two polls of the same task, one wins SUCCESS and begins its settlement, the other writes FAILURE, and
  the settlement goes on.  That a refund is made of failed tasks only, and that no two
  operations touch a task, holds without exception.  A failed task without a refund is no
  violation: the bulk update starts none, and a crash may prevent it.
* `BillingEnds`: other unfinished tasks keep the polling passes coming (`Others = TRUE`).  The sweep that
  puts abandoned billing under review runs only within a polling pass, and passes are scheduled
  only while a task whose billing is *ready* is unfinished (`controller/system_task_handlers.go:144`,
  `model/task.go:554`).  With `Others = FALSE` TLC finds a submission whose worker dies and which
  stays pending for good: on an idle system it waits for the next task to be submitted.
* `NoFalseReuse`, `SignOutRevokes`, `SignedOutStaysOut`: the replay window closed while the answer of a
  rotation was lost (`gap`); then the browser really presents an old token, by which the server cannot
  recognise the session.
* `SignOutRevokes`, `SignedOutStaysOut`: the sign-out carried an expired access token and no refresh
  cookie (`blind`).  `AuthLogout` answers success at `controller/auth_session.go:84-88` and revokes
  nothing, where `docs/authentication.md:65` says that logout revokes the current session.  (Without the
  exception TLC finds: the access token expires, the cookie is lost, the tab signs out.)  In both
  cases the session lives on, and the answer of an earlier refresh that arrives after the sign-out
  restores its cookie; the tab is then signed in again.
* `GenerationEnds`: a stream closed with status 200 and without `[DONE]`
  (`stream-utils.ts:97`); the controls stay disabled until Stop.
* `EndedIsSettled`: an edit saved by the click that renders the end puts back the messages of the
  render before (`use-playground-conversation.ts:76`).

## 5. Theorems

For any number of runners, tasks and faults (`SystemTaskProofs`, checked with `tlapm`):

* `Typing`: `Spec => []TypeOK`.
* `SingleDispatch`: `Spec => []DispatchedOnce`, with stalls.  A handler is only started by
  the UPDATE that finds the row pending, and a row never becomes pending again.
* `TerminalStatusIsFinal`: `Spec => TerminalIsFinal`, with stalls.
* `RunningTaskHasLock`: `Spec => []RunningHasLock` under the assumption that no claimer is
  paused beyond its lease (`~ClaimStall`).  `RunningHasLock` is not inductive: a lock is
  deleted or taken over by runners that act on what they have read before.  `LeaseInv`
  adds what they know: the unique active row (`ActiveKeyMeansActive`, `OneActive`), that a
  claimer holds a lease on a row nobody has started (`ClaimerHoldsLease`,
  `ClaimerNotStarted`), that "stale" is only remembered of a lease that is over
  (`StaleIsOver`), that a runner that may still take the lock over does so for a pending
  row (`StealerSawPending`), and that the row whose lock is deleted or released is not
  running (`DeleterFailedRow`, `ReleaserIsDone`).  By `OneActive` the row of the old lock
  is then not running either.

For any requests, subscriptions, amounts, reset period, clock and number of faults
(`SubscriptionBillingProofs`):

* `RowsTyped`, `UsageWithinTotal`, `ReceiptTellsTruth`, `EvidenceIsKept`:
  `Spec => []TypeOK`, `[]UsedWithinTotal`, `[]ReceiptIsTruth`, `[]EvidenceKept`.
* `TerminalReceiptFrozen`: `Spec => TerminalFrozen`.

They follow from `ReceiptsInductive`, `Spec => [](TypeOK /\ ReceiptInv)`.  `ReceiptIsTruth` needs
`WalletUntouched` (only a settlement takes from the wallet, so a consumed receipt's amount
is all on the subscription and the baseline comparison pins the token as well).
`EvidenceKept` needs to know what a late flag update can clear: `ClearIsOld` (before the
receipt is terminal, no call remembers a terminal key) and `FencedIsFlagged` (a terminal
receipt with a fence has its flag, and nobody remembers its key).  The proof has one lemma
per operation; reserve, settle and refund only show that they hand a `GoodChange` to
`Commit`, whose outcomes are treated once.

`PeriodCheckSuffices`, `Spec => []SeenResetsAreSafe`, is the positive half of the run
`subscription_reset`, with admin resets and a stale `now` in the specification: the `LastResetTime`
check of `changeSubscriptionBilling` protects every request that is not in `unseen`.  Periodic resets,
by the reset job or on the way of a pre-consume, put none there.  The invariant is `PeriodInv`: the
reset times of a row are one period apart (`PeriodsLine`), receipts are dated in the past
(`CreatedInPast`), an open receipt was created before its row's next reset (`CreatedBeforeNext`), so a
later reset moves `last` beyond it, and until then all that the request took is in its share
(`OwnShare`); the last two except `unseen`.  It needs one fact of arithmetic, that rounding down
to whole periods never falls short of the boundary just passed (`WholePeriods`).

For any caches, calls, window, expiry and number of faults (`UserSessionProofs`):

* `SessionTyped`, `RevocationIsPrompt`: `Spec => []TypeOK`, `[]RevocationPrompt`.
* `SessionKeepsPromise`: `Spec => BoundedStaleness`, the refinement of `LoginSession`: initial states
  map to initial states, and each of the detailed steps to a step of the abstract session or
  to a stutter.

`RevocationPrompt` speaks of an answer and of what its call saw when it began; it is not inductive,
since a fill that was read before the revocation may arrive after it.  `SessionInv` adds that the
row is revoked from the moment the history records (`KilledIsRevoked`), that whoever may still
publish the session has a deadline within one TTL of the revocation (`WindowsBounded`), that a
tombstone lives at least as long as all such windows (`TombstonesCover`), and that a call that
began behind a tombstone never gets beyond the lookup (`LateCallsDenied`).

For any threads, amounts, balance and number of faults (`WalletCacheProofs`):

* `WalletTyped`, `SpendingIsBacked`: `Spec => []TypeOK`, `[]SpendableBacked`, the latter with
  its exception (`exposed`).

`WalletInv` strengthens `SpendableBacked` in three ways: it does not depend on the fence (a fence
only hides the hash, and its resolver brings it back), it counts the credits the row already shows
and whose thread has still to add them to this very hash (`Owing`), and it bounds what a thread
that is about to publish a hash has read (`FillsBacked`).  Sums over threads are cardinalities of
sets of units, so that the facts about finite sets replace an induction over threads.

For any requests, prices, balances, retries and number of faults (`BillingSessionProofs`):

* `BillingTyped`, `SettlementIsExact`, `BooksAreTrue`, `FailureCostsOnlyFee`, `RefundsAreBounded`,
  `CleanExit`: `Spec =>` `[]TypeOK`, `[]ChargedAsSettled`, `[]BooksMatch`, `[]FailedCostsOnlyFee`,
  `[]NeverOverRefunds`, `[]CleanMeansAccounted`.
* `UncertaintyFreezes`: `Spec => UncertainIsFrozen`.

`BillingInv` says for every request (`Sound`) where a session may be (`InPlace`), how its counters
hang together at every point of a reservation, a settlement and their compensation (`Counted`),
that a failed request that started no refund had nothing to give back (`NothingLeft`), and that
wallet, subscription and token have been moved by what the books say, or by more where a
discarded pre-consume may have left something (`TokenBacked`, `FundBacked`).  The properties speak
only of the times between calls and of reported results; the proof needs the intermediate
amounts.  Requests only meet in `balance`, which may refuse a call but does not enter the books,
so each action has one lemma about the record of the request it moves.  The fee is kept apart from
the books (`FeeInv`, proved by `FeeInvariant`): `Levied` ties how far it has got to what it has taken of
which account, and a server that has drained its handlers has none under way, since the fee is
charged in the handler's deferred function.

For any workers, prices, polls and number of faults (`TaskBillingProofs`):

* `TaskTyped`, `ReadyCostsQuota`, `BilledForOneOutcome`, `PartialStaysFenced`: `Spec =>`
  `[]TypeOK`, `[]ReadyIsExact`, `[]OneOutcome`, `[]PartialIsFenced`.

`TaskInv` names the one operation `o` the task may be billed with; before a worker has won a
final status any will do.  `Fated` ties it to the status, which a bulk update may have turned to
failure since.  `Journal` says which stages of `o` the ledger may show together and
`Balanced` that the accounts have moved by exactly the applied ones.  Three things make the
properties themselves too weak for an induction.  Workers act on copies: `Copied` and `Placed`
relate what a worker has read to the row and say how far it may be with `o`, and `OneWorker`
follows from the status transition that only one of them wins.  A transaction whose COMMIT
reported an error may still land or be dropped: `Doubtful` says that it is a stage of `o` whose turn
it is.  And spenders remove fences by themselves, from what the row's snapshot says: `Exposed`
is weaker than a half-done operation (it holds from the fencing on, while funding may still be moved),
and `Honest` says that a snapshot admits "not_applied" only in a row under manual review, so
that no fence is resolved on the word of an operation that has still to start.

For any tabs, login sessions, race delays, moves and number of faults (`AuthTabsProofs`):

* `RefreshNeverLooksStolen`, `ConfirmedSignOutRevokes`, `OneReloadPerLogin`: `Spec =>`
  `[]NoFalseReuse`, `[]SignOutRevokes`, `[]ReloadPerLogin`.
* `SignedOutForGood`: `Spec => SignedOutStaysOut`.

A refresh looks stolen when a token arrives that is one rotation behind after the grace window is
over.  `TabsInv` says why the browser sends none: only the holder of the lock has a refresh on its
way (`Exclusive`), nobody holds a token of a session before the answer of its sign-in has arrived,
although sign-in takes no lock (`Arriving`, `Arrived`), and `InStep` keeps count of generations: the
cookie and the token that was sent are at most one rotation behind, and not even one once the
window has closed in time; the token of an answer is the newest and the cookie just behind it; a
request of a page that is gone never carries a newer token than either.  From `InStep` it also
follows that a sign-out without a good access token is recognised by its cookie, if there is one and
its window has not closed in the meantime (`blind`, `gap`).  `Leaving` says that an answer which could
bring a session back after a confirmed sign-out has been superseded, with the same two exceptions, and
`Credited` counts the unread events that may reload a tab.  Most actions only make the browser's
side quieter (`ClientStep`); rotation, revocation, sign-in and the end of a window have a proof
of their own.

For any accounts, storage limit, chunks, sends, edits and page changes (`PlaygroundProofs`):

* `PlayTyped`, `AnswersAreOwn`, `ChatsAreOwn`: `Spec => []TypeOK`, `[]OwnAnswer`, `[]OwnChat`.
* `IdleIsSettled`, `LeavingSaves`: `Spec => EndedIsSettled` (with the exception of the edit),
  `Spec => LeavingKeepsChat`.

The properties speak of lists of messages; what may go wrong is still in the queue of updaters, in
the buffer or on the wire.  `PlayInv` follows a chunk all the way: what a request has sent bounds
the numbers of the buffered chunks (`InForce`), which come after all the text that the list or a
waiting updater may leave at the end (`Given`, in `Waiting`).  `Talk` says what may wait behind an
answer that is shown: updaters of this generation, a list that differs from the shown one
in its last message only (an updater React ran on the spot), flushes in the order of the stream,
the last word at the end.  `Settling` says that a generation that is over and still shown has its
last word in the queue; `Counted` that generations and requests agree, so that a stopped or
superseded request is never taken for the one in force; `Saved` that the last render is in storage
or the debounced save is armed.

A queue is run by a recursive function over its updaters, so that the proofs need an induction and
the existence of that function.  Both are had without an operator as a parameter: `LeastNat` (a set
of numbers has a least element, from the library's well-foundedness of `<`) gives `Steps`, induction
with the set of the steps reached so far, and `Recursion`.  `RunTalk` and `StopTalk` are the two
inductions: what a queue makes of the list while its generation is in force, and once it was
stopped.  The actions then need one lemma for each way the chat changes: updates that are rendered
with a click (`ClickStep`, `SubmitStep`), updates that are queued (`QueueStep`), the end of the
request in force (`EndStep`) or of another (`SupersededStep`), and a new session (`MountStep`).

The assumptions on constants are the named `ASSUME`s of the modules; TLC evaluates them
in every run, and each inductive invariant was checked with TLC on the constants of the runs
before it was proved.  Liveness (`ActiveTaskFinishes`, `HoldsEnd`, `BillingEnds`, `CallsEnd`,
`RevokedIsNoticed`, `GenerationEnds`) is checked by TLC only; it rests on fairness and `ENABLED`,
which are beyond the prover.

## 6. Abstractions and omissions

* A failing SQL statement of `SystemTask` has no effect; in the billing modules it may.
* `BillingSession` models one user; different users share nothing but the server.  Prices are
  any of a small set: the tiered pricing expressions and token counting are data.  The
  text relay's post-consumption logging and statistics are left out, and so is the pre-consume of
  the WebSocket relay (`PreWssConsumeQuota`, `service/quota.go:90-151`), which charges wallet and
  token during a connection without a session.  The fee of a subscription request is charged to
  its row directly.
* `SubscriptionBilling` leaves out plans without a reset or a total, the calendar of
  `calcNextResetTime` (periods have a constant length), the group upgrades tied to
  a subscription, and `PostConsumeUserSubscriptionDelta`, which bypasses receipts and belongs to
  task billing and to the violation fee.
* `WalletCache` leaves out the authorisation version and the 31-bit range checks, and the
  fences of task and subscription billing, which have resolvers of their own.
* `TaskBilling` has one task; of the others it keeps whether there is an unfinished one (`Others`).
  The timeout of tasks in progress (`TaskTimeoutMinutes`, a guarded transition to FAILURE like that of
  a poll) is an answer of the upstream.  Rows of older versions, the Midjourney variant of the ledger,
  funding by a subscription (no user fence, a receipt instead) and log entries are left out.
  A crash between the transition to FAILURE and the start of the refund leaves a row that no
  sweep looks for; the properties speak of operations that were begun.
* `UserSession` has one session; revoking all sessions of a user is the same steps for each.
  Tokens are generations, and the user's version fence is whether a change is pending.
* `AuthTabs`: a call and a sign-out are served when they are sent.  The fallback for browsers
  without Web Locks, OAuth pages and the list of sessions (other than as "revoked elsewhere")
  are left out.  The order in which a browser stores the cookies of two concurrent answers is
  that of their arrival.
* `Playground`: one tab; the user acts after the history is rendered (the load is queued with a
  delay of 0 ms).  Think tags, timing, size limits of stored chats, schema failures, prefix
  deduplication of chunks, options and the signed-out account are left out.

### Not modelled

Components that `PROJECT.json` marks `not_modelled`, with the reason.  Money in (top-ups,
redemption, check-in, commissions) is made of single transactions that lock one row and
check its status: nothing in them interleaves.  Limits, channel choice, campaigns,
metrics and options are counters, weighted random choice, or work done under the leases that
`SystemTask` models.  Conversions, adaptors and pricing expressions are data or I/O.

Most of the repository by volume is the web client: over 220000 lines of TypeScript, nearly
all of it forms, tables, dialogs, charts and generated routes that render what the server
sent.  They keep no state beyond a form and have no steps that interleave.  The parts that do,
authentication and the playground, are modelled, so the share of the TypeScript that stands
behind a module is small by nature; most of what the modules model is Go.

## 7. Plan

1. *Abstract specifications*: a `Ledger` of (held, settled, refunded) that `BillingSession`,
   `SubscriptionBilling` and `TaskBilling` implement.
2. *Authorisation versions*: version floors and pending fences of the user cache as a module of
   their own below `UserSession`.
