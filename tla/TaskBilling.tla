------------------------------ MODULE TaskBilling ------------------------------
(***************************************************************************)
(* The billing of one asynchronous task (a video or a song an upstream      *)
(* makes): submission, polling and the staged settlement or refund at its   *)
(* end (service/task_billing.go, service/task_polling.go, model/task.go,    *)
(* model/task_billing_ledger.go).                                           *)
(*                                                                          *)
(* The price of a task is charged when it is submitted.  Pollers on several *)
(* nodes, users' own status queries and the timeout sweep race to move the  *)
(* row to a final status; the winner refunds or re-prices the task in three *)
(* transactions (funding, token, finalize), each journalled in the ledger   *)
(* together with the balance it moves, while fences in Redis keep everybody *)
(* else from spending the two balances.                                     *)
(*                                                                          *)
(* One action is one transaction, statement or script.  A COMMIT may fail   *)
(* with an unknown outcome: the transaction then keeps its row lock until   *)
(* the database has landed or dropped it.  The balances are this task's     *)
(* share of them; their Redis mirror is module WalletCache's subject and    *)
(* the charge of a submission module BillingSession's.  Left out: legacy    *)
(* rows, the Midjourney variant and subscription funding, which differs     *)
(* only in having no user fence.                                            *)
(***************************************************************************)
EXTENDS Integers, FiniteSets

CONSTANTS
    Workers,     \* pollers, status queries and sweeps, on any node
    Pre,         \* the price charged at submission
    Actuals,     \* prices an upstream's result may turn out to have
    None,
    Others,      \* whether there are always other tasks to poll
    MaxPolls,    \* bound: rows read by pollers
    MaxFaults    \* bound: failures, unknown commits and crashes

ASSUME PriceAssumption == Pre \in Nat \ {0} /\ Actuals \subseteq Nat
ASSUME NoneAssumption == None \notin Actuals
ASSUME OthersAssumption == Others \in BOOLEAN
ASSUME BoundsAssumption == MaxPolls \in Nat /\ MaxFaults \in Nat

VARIABLES
    task,      \* the row: status, quota, billing status and private data
    ledger,    \* the journal: per operation and stage, the state and delta of its row
    charge,    \* what the task has cost the wallet, the token and counts as used
    doubt,     \* the transaction whose COMMIT has an unknown outcome, or None
    fence,     \* the Redis fence sets of the wallet and of the token
    sub,       \* where the submitting request is
    wk,        \* per worker: where it is, its copy of the row and its operation
    redis,     \* whether Redis is enabled
    bulk,      \* history: a bulk update has failed the task
    pass,      \* whether a polling pass is scheduled that has not swept yet
    polls, faults

vars == <<task, ledger, charge, doubt, fence, sub, wk, redis, bulk, pass, polls, faults>>
bounds == <<polls, faults>>

Refund == [kind |-> "refund", target |-> 0]
Ops == {Refund} \cup {[kind |-> "settle", target |-> n] : n \in Actuals}
Accounts == {"funding", "token"}
Stages == Accounts \cup {"finalize"}
Keys == (Ops \X Stages) \cup {<<None, "baseline">>}

\* A terminal status ends polling.
Terminal == {"success", "failure"}
NoRow == [st |-> "none", delta |-> 0]
Idle == [pc |-> "idle", row |-> None, op |-> None, delta |-> 0, stage |-> "funding",
         missing |-> [a \in Accounts |-> "pending"], snap |-> None]
Pcs == {"idle", "polled", "reread", "begin", "fence", "apply", "check", "recheck", "undo",
        "undoCheck", "review", "reviewed", "record", "complete", "release", "mark"}

\* The stage states a snapshot of an operation may show.
Shown == {"pending", "not_applied", "not_applicable", "applied", "undone"}
Deltas == {n - m : n, m \in Actuals \cup {0, Pre}}
Snapshots == [op : Ops, funding : Shown, token : Shown]
Rows == [status : {"submitted", "running"} \cup Terminal, quota : Actuals \cup {0, Pre},
         bill : {"pending", "ready", "reconciling", "manual"}, tokenCharged : BOOLEAN,
         accounted : BOOLEAN, snap : Snapshots \cup {None}]
Txs == [stage : Stages \cup {"baseline"}, mode : {"apply", "undo"}, op : Ops \cup {None},
        delta : Deltas]
Worker == [pc : Pcs, row : Rows \cup {None}, op : Ops \cup {None}, delta : Deltas,
           stage : Stages, missing : [Accounts -> Shown], snap : Snapshots \cup {None}]

TypeOK ==
    /\ task \in Rows
    /\ ledger \in [Keys -> [st : {"none", "applied", "undone"}, delta : Deltas]]
    /\ charge \in [Accounts \cup {"used"} -> Actuals \cup {0, Pre}]
    /\ doubt \in Txs \cup {None}
    /\ fence \in [Accounts -> SUBSET (Ops \cup [mode : {"apply", "undo"}, op : Ops])]
    /\ sub \in {"settle", "baseline", "check", "review", "done"}
    /\ wk \in [Workers -> Worker]
    /\ redis \in BOOLEAN /\ bulk \in BOOLEAN /\ pass \in BOOLEAN
    /\ polls \in 0..MaxPolls /\ faults \in 0..MaxFaults

\* The row has been inserted, hidden behind its pending marker.
Init ==
    /\ task \in [status : {"submitted"}, quota : {Pre}, bill : {"pending"}, tokenCharged : BOOLEAN,
                 accounted : {FALSE}, snap : {None}]
    /\ ledger = [x \in Keys |-> NoRow]
    /\ charge = [a \in Accounts \cup {"used"} |-> 0]
    /\ doubt = None
    /\ fence = [a \in Accounts |-> {}]
    /\ sub = "settle"
    /\ wk = [w \in Workers |-> Idle]
    /\ redis \in BOOLEAN /\ bulk = FALSE /\ pass = FALSE
    /\ polls = 0 /\ faults = 0

-----------------------------------------------------------------------------
(* Transactions on the task row.                                            *)

\* Every transaction locks the row, which one in doubt still holds.
Unlocked == doubt = None

Fault == faults < MaxFaults /\ faults' = faults + 1

\* Mutant: undoing a stage applies its delta once more.
Commit_UndoRepeats(x) ==
    /\ charge' = [charge EXCEPT ![IF x.stage \in Accounts THEN x.stage ELSE "used"] = @ + x.delta]
    /\ ledger' = [ledger EXCEPT ![<<x.op, x.stage>>] =
                      [st |-> IF x.mode = "apply" THEN "applied" ELSE "undone", delta |-> x.delta]]
    /\ task' = CASE x.stage = "baseline" -> [task EXCEPT !.bill = "ready", !.accounted = TRUE]
                 [] x.stage = "finalize" -> [task EXCEPT !.quota = x.op.target]
                 [] OTHER -> task

\* What a transaction writes: applyTaskFundingDelta, applyTaskTokenDelta,
\* applyTaskFinalize or applyTaskAggregateBaseline, and its ledger row.
Commit(x) ==
    LET moved == IF x.mode = "apply" THEN x.delta ELSE -x.delta
        account == IF x.stage \in Accounts THEN x.stage ELSE "used"
        counted == IF x.stage = "finalize" /\ ~task.accounted THEN 0 ELSE moved
    IN  /\ charge' = [charge EXCEPT ![account] = @ + counted]
        /\ ledger' = [ledger EXCEPT ![<<x.op, x.stage>>] =
                          [st |-> IF x.mode = "apply" THEN "applied" ELSE "undone", delta |-> x.delta]]
        /\ task' = CASE x.stage = "baseline" -> [task EXCEPT !.bill = "ready", !.accounted = TRUE]
                     [] x.stage = "finalize" -> [task EXCEPT !.quota = x.op.target]
                     [] OTHER -> task

\* The database decides the transaction in doubt.
Land ==
    /\ ~Unlocked
    /\ Commit(doubt)
    /\ doubt' = None
    /\ UNCHANGED <<fence, sub, wk, redis, bulk, pass, bounds>>

Drop ==
    /\ ~Unlocked
    /\ doubt' = None
    /\ UNCHANGED <<task, ledger, charge, fence, sub, wk, redis, bulk, pass, bounds>>

-----------------------------------------------------------------------------
(* The submitting request: PersistAndSettleTaskSubmission.                  *)

\* SettleBilling charges the price, or fails having charged some of it.
Charged(s) == [charge EXCEPT !["funding"] = IF "funding" \in s THEN Pre ELSE 0,
                             !["token"] = IF "token" \in s /\ task.tokenCharged THEN Pre ELSE 0]

Settle ==
    /\ sub = "settle"
    /\ \/ charge' = Charged(Accounts) /\ sub' = "baseline" /\ UNCHANGED faults
       \/ \E s \in SUBSET Accounts : charge' = Charged(s) /\ sub' = "review" /\ Fault
    /\ UNCHANGED <<task, ledger, doubt, fence, wk, redis, bulk, pass, polls>>

\* The aggregate baseline makes the task ready; under review it conflicts.
BaselineTx == [stage |-> "baseline", mode |-> "apply", op |-> None, delta |-> Pre]
Baseline ==
    /\ sub = "baseline" /\ Unlocked
    /\ \/ task.bill # "manual" /\ Commit(BaselineTx) /\ sub' = "done" /\ UNCHANGED <<doubt, faults>>
       \/ task.bill # "manual" /\ Fault /\ doubt' = BaselineTx /\ sub' = "check" /\ UNCHANGED <<task, ledger, charge>>
       \/ task.bill # "manual" /\ Fault /\ sub' = "review" /\ UNCHANGED <<task, ledger, charge, doubt>>
       \/ task.bill = "manual" /\ sub' = "review" /\ UNCHANGED <<task, ledger, charge, doubt, faults>>
    /\ UNCHANGED <<fence, wk, redis, bulk, pass, polls>>

\* resolveTaskBillingApplyCommit: the row of the baseline may have become visible.
BaselineCheck ==
    /\ sub = "check"
    /\ sub' = IF ledger[<<None, "baseline">>].st = "applied" THEN "done" ELSE "review"
    /\ UNCHANGED <<task, ledger, charge, doubt, fence, wk, redis, bulk, pass, bounds>>

\* MarkBillingManualReview writes the billing status and the caller's copy of
\* the private data.
Reviewable == {"pending", "reconciling"}
MarkBillingManualReview(copy) ==
    task' = IF task.bill \in Reviewable
            THEN [task EXCEPT !.bill = "manual", !.snap = copy.snap, !.accounted = copy.accounted]
            ELSE task

SubmissionReview ==
    /\ sub = "review" /\ Unlocked
    /\ MarkBillingManualReview([snap |-> None, accounted |-> FALSE])
    /\ sub' = "done"
    /\ UNCHANGED <<ledger, charge, doubt, fence, wk, redis, bulk, pass, bounds>>

SubmitterCrash ==
    /\ sub # "done" /\ Fault
    /\ sub' = "done"
    /\ UNCHANGED <<task, ledger, charge, doubt, fence, wk, redis, bulk, pass, polls>>

-----------------------------------------------------------------------------
(* Polling: ApplyVideoTaskResult, updateSunoTaskGroup, sweepTimedOutTasks.  *)

Goto(w, p) == wk' = [wk EXCEPT ![w].pc = p]
Return(w) == wk' = [wk EXCEPT ![w] = Idle]

\* Only rows that are ready and not at their end are read.
Poll(w) ==
    /\ wk[w].pc = "idle" /\ polls < MaxPolls
    /\ task.bill = "ready" /\ task.status \notin Terminal
    /\ wk' = [wk EXCEPT ![w].pc = "polled", ![w].row = task]
    /\ polls' = polls + 1
    /\ UNCHANGED <<task, ledger, charge, doubt, fence, sub, redis, bulk, pass, faults>>

\* Mutant: Save instead of the guarded update.
Wins_Always(w) == TRUE

\* UpdateWithStatus: the whole copy is written if the status is still the copy's.
Wins(w) == task.status = wk[w].row.status
UpdateWithStatus(w, status) == task' = [wk[w].row EXCEPT !.status = status]

\* What the winner of a final status has to bill.  A success whose result has
\* no price of its own keeps the price charged.
ToBill(w, status) ==
    CASE status = "failure" -> IF wk[w].row.quota # 0 THEN {Refund} ELSE {None}
      [] status = "success" -> (Ops \ {Refund}) \cup {None}
      [] OTHER -> {None}

\* The upstream's answer, or the timeout, gives the new status.  An answer that
\* is not understood or comes second changes nothing; an update that reports an
\* error bills nothing, though it may have been done.
Answer(w, status) ==
    /\ wk[w].pc = "polled"
    /\ \/ Return(w) /\ UNCHANGED <<task, faults>>
       \/ /\ Unlocked /\ Wins(w)
          /\ UpdateWithStatus(w, status)
          /\ \/ /\ \E o \in ToBill(w, status) :
                   IF o = None THEN Return(w)
                   ELSE wk' = [wk EXCEPT ![w] = [Idle EXCEPT !.pc = "reread", !.op = o]]
                /\ UNCHANGED faults
             \/ Fault /\ Return(w)
    /\ UNCHANGED <<ledger, charge, doubt, fence, sub, redis, bulk, pass, polls>>

\* TaskBulkUpdateByID, when a polled task has no upstream id or its channel is
\* gone: the row is failed whatever its status is by now, and nothing is billed.
TaskBulkUpdateByID(w) ==
    /\ wk[w].pc = "polled" /\ Unlocked
    /\ task' = [task EXCEPT !.status = "failure"]
    /\ bulk' = TRUE
    /\ Return(w)
    /\ UNCHANGED <<ledger, charge, doubt, fence, sub, redis, pass, bounds>>

-----------------------------------------------------------------------------
(* RefundTaskQuota and RecalculateTaskQuota.                                *)

St(o, stage) == ledger[<<o, stage>>].st

\* taskBillingOperationSnapshot: the journal, and missing for what it lacks.
Snapshot(o, missing) ==
    [op |-> o,
     funding |-> IF St(o, "funding") = "none" THEN missing["funding"] ELSE St(o, "funding"),
     token |-> IF St(o, "token") = "none" THEN missing["token"] ELSE St(o, "token")]

Pending(row) ==
    [a \in Accounts |-> IF a = "token" /\ ~row.tokenCharged THEN "not_applicable" ELSE "pending"]

\* The row is read again; only a ready one is billed.
Reread(w) ==
    LET o == wk[w].op IN
    /\ wk[w].pc = "reread"
    /\ IF task.bill = "ready" /\ (o = Refund => task.quota # 0)
       THEN wk' = [wk EXCEPT ![w].pc = "begin", ![w].row = task, ![w].delta = o.target - task.quota,
                             ![w].snap = Snapshot(o, Pending(task))]
       ELSE Return(w)
    /\ UNCHANGED <<task, ledger, charge, doubt, fence, sub, redis, bulk, pass, bounds>>

\* BeginBillingReconciliation: one operation at a time holds the row.
MayBegin == task.bill = "ready"
BeginBillingReconciliation(w) ==
    /\ wk[w].pc = "begin" /\ Unlocked
    /\ IF MayBegin
       THEN /\ task' = [task EXCEPT !.bill = "reconciling", !.snap = wk[w].snap,
                                    !.accounted = wk[w].row.accounted]
            /\ Goto(w, "fence")
       ELSE Return(w) /\ UNCHANGED task
    /\ UNCHANGED <<ledger, charge, doubt, fence, sub, redis, bulk, pass, bounds>>

Fenced(w) == IF redis THEN {a \in Accounts : a = "token" => wk[w].row.tokenCharged} ELSE {}
NotApplied == [a \in Accounts |-> "not_applied"]
Review(w, missing) == wk' = [wk EXCEPT ![w].pc = "review", ![w].missing = missing]

\* BeginTaskBillingOperationFences.  The token's key may be gone, and the
\* second fence may fail after the first.
BeginFences(w) ==
    /\ wk[w].pc = "fence"
    /\ \/ /\ fence' = [a \in Accounts |-> IF a \in Fenced(w) THEN fence[a] \cup {wk[w].op} ELSE fence[a]]
          /\ wk' = [wk EXCEPT ![w].pc = "apply", ![w].stage = "funding"]
          /\ UNCHANGED faults
       \/ /\ Fault
          /\ \/ UNCHANGED fence
             \/ redis /\ fence' = [fence EXCEPT !["funding"] = @ \cup {wk[w].op}]
          /\ Review(w, NotApplied)
    /\ UNCHANGED <<task, ledger, charge, doubt, sub, redis, bulk, pass, polls>>

\* The cache check of a stage: no fence but those of operations, the own one
\* among them (taskUserQuotaDeltaScript, taskTokenQuotaDeltaScript).
Available(w, a) ==
    redis /\ a \in Accounts /\ wk[w].delta # 0 =>
        fence[a] \subseteq Ops /\ (fence[a] # {} => wk[w].op \in fence[a])

\* validateTaskBillingCrossOperationState: the row is the operation's own.
Owned == task.bill \in {"ready", "reconciling"}

\* validateTaskBillingOperationState.
Unfinished(o) == St(o, "finalize") # "applied" /\ \E a \in Accounts : St(o, a) = "applied"
InOrder(w) ==
    LET o == wk[w].op IN
    IF wk[w].stage = "funding"
    THEN /\ ~\E p \in Ops \ {o} : Unfinished(p)
         /\ \A s \in Stages : St(o, s) # "applied"
         /\ o.target - task.quota = wk[w].delta
    ELSE ledger[<<o, "funding">>] = [st |-> "applied", delta |-> wk[w].delta]

Duplicate(w) == ledger[<<wk[w].op, wk[w].stage>>] = [st |-> "applied", delta |-> wk[w].delta]
MayApply(w) == Available(w, wk[w].stage) /\ Owned /\ (Duplicate(w) \/ InOrder(w))

Tx(w, mode) == [stage |-> wk[w].stage, mode |-> mode, op |-> wk[w].op, delta |-> wk[w].delta]

\* After a stage: the next one, and after the last the records of its success.
Advance(w) ==
    CASE wk[w].stage = "funding" /\ wk[w].row.tokenCharged -> wk' = [wk EXCEPT ![w].pc = "apply", ![w].stage = "token"]
      [] wk[w].stage = "finalize" -> Goto(w, "record")
      [] OTHER -> wk' = [wk EXCEPT ![w].pc = "apply", ![w].stage = "finalize"]

\* A stage that did not commit: funding and finalize leave the task to review,
\* token is compensated first.
Abandon(w) ==
    CASE wk[w].stage = "funding" -> Review(w, NotApplied)
      [] wk[w].stage = "token" ->
            wk' = [wk EXCEPT ![w].pc = "undo", ![w].missing = [Pending(wk[w].row) EXCEPT !["token"] = "not_applied"]]
      [] wk[w].stage = "finalize" -> Review(w, [a \in Accounts |-> "pending"])

\* ApplyTaskBillingStage.
ApplyTaskBillingStage(w) ==
    /\ wk[w].pc = "apply" /\ Unlocked
    /\ \/ /\ MayApply(w)
          /\ IF Duplicate(w) THEN UNCHANGED <<task, ledger, charge>> ELSE Commit(Tx(w, "apply"))
          /\ Advance(w)
          /\ UNCHANGED <<doubt, faults>>
       \/ /\ MayApply(w) /\ ~Duplicate(w)
          /\ Fault /\ doubt' = Tx(w, "apply") /\ Goto(w, "check")
          /\ UNCHANGED <<task, ledger, charge>>
       \/ /\ IF MayApply(w) THEN Fault ELSE UNCHANGED faults
          /\ Abandon(w)
          /\ UNCHANGED <<task, ledger, charge, doubt>>
    /\ UNCHANGED <<fence, sub, redis, bulk, pass, polls>>

\* fenceTaskBillingCacheUncertainty.
FenceDoubt(w, mode) ==
    fence' = IF redis /\ wk[w].stage \in Accounts /\ wk[w].delta # 0
             THEN [fence EXCEPT ![wk[w].stage] = @ \cup {[mode |-> mode, op |-> wk[w].op]}]
             ELSE fence

\* Mutant: an unknown COMMIT is taken for a commit.
Check_TrustsCommit(w) ==
    /\ wk[w].pc = "check" /\ Advance(w)
    /\ UNCHANGED <<task, ledger, charge, doubt, fence, sub, redis, bulk, pass, bounds>>

\* resolveTaskBillingApplyCommit: what the journal shows after an unknown
\* COMMIT.  A missing row proves nothing.
Check(w) ==
    /\ wk[w].pc = "check"
    /\ IF Duplicate(w) THEN Advance(w) /\ UNCHANGED fence
       ELSE /\ FenceDoubt(w, "apply")
            /\ CASE wk[w].stage = "funding" -> Review(w, [NotApplied EXCEPT !["funding"] = "pending"])
                 [] wk[w].stage = "token" -> wk' = [wk EXCEPT ![w].pc = "recheck", ![w].missing = Pending(wk[w].row)]
                 [] wk[w].stage = "finalize" -> Review(w, [a \in Accounts |-> "pending"])
    /\ UNCHANGED <<task, ledger, charge, doubt, sub, redis, bulk, pass, bounds>>

\* compensateTaskTokenStageFailure looks once more before it undoes anything.
Recheck(w) ==
    /\ wk[w].pc = "recheck"
    /\ Goto(w, IF St(wk[w].op, "token") = "none" THEN "review" ELSE "undo")
    /\ UNCHANGED <<task, ledger, charge, doubt, fence, sub, redis, bulk, pass, bounds>>

\* validateTaskBillingUndoState: no later stage of the operation is applied.
Last(w) ==
    /\ St(wk[w].op, "finalize") # "applied"
    /\ wk[w].stage = "funding" => St(wk[w].op, "token") # "applied"
MayUndo(w) == Available(w, wk[w].stage) /\ (Duplicate(w) => Last(w))

\* Token is undone before funding.
Undone(w) == IF wk[w].stage = "token" THEN wk' = [wk EXCEPT ![w].pc = "undo", ![w].stage = "funding"]
             ELSE Goto(w, "review")

\* UndoTaskBillingStage.  It does not ask for the billing status of the row.
UndoTaskBillingStage(w) ==
    /\ wk[w].pc = "undo" /\ Unlocked
    /\ \/ /\ MayUndo(w)
          /\ IF Duplicate(w) THEN Commit(Tx(w, "undo")) ELSE UNCHANGED <<task, ledger, charge>>
          /\ Undone(w)
          /\ UNCHANGED <<doubt, faults>>
       \/ /\ MayUndo(w) /\ Duplicate(w)
          /\ Fault /\ doubt' = Tx(w, "undo") /\ Goto(w, "undoCheck")
          /\ UNCHANGED <<task, ledger, charge>>
       \/ /\ IF MayUndo(w) THEN Fault ELSE UNCHANGED faults
          /\ Goto(w, "review")
          /\ UNCHANGED <<task, ledger, charge, doubt>>
    /\ UNCHANGED <<fence, sub, redis, bulk, pass, polls>>

\* resolveTaskBillingUndoCommit.
UndoCheck(w) ==
    /\ wk[w].pc = "undoCheck"
    /\ IF St(wk[w].op, wk[w].stage) = "undone" THEN Undone(w) /\ UNCHANGED fence
       ELSE FenceDoubt(w, "undo") /\ Goto(w, "review")
    /\ UNCHANGED <<task, ledger, charge, doubt, sub, redis, bulk, pass, bounds>>

\* markTaskBillingOperationManual reads the journal, and then changes the row
\* if the operation still has it.
ReviewRead(w) ==
    /\ wk[w].pc = "review"
    /\ wk' = [wk EXCEPT ![w].pc = "reviewed", ![w].snap = Snapshot(wk[w].op, wk[w].missing)]
    /\ UNCHANGED <<task, ledger, charge, doubt, fence, sub, redis, bulk, pass, bounds>>

ReviewWrite(w) ==
    /\ wk[w].pc = "reviewed" /\ Unlocked
    /\ IF task.bill = "reconciling"
       THEN task' = [task EXCEPT !.bill = "manual", !.snap = wk[w].snap] /\ Goto(w, "release")
       ELSE Return(w) /\ UNCHANGED task
    /\ UNCHANGED <<ledger, charge, doubt, fence, sub, redis, bulk, pass, bounds>>

\* The completed snapshot, and CompleteBillingReconciliation.  A settlement
\* that cannot record its success is left to review, a refund to the sweep.
Completes(w) == task.bill = "reconciling"
Record(w) ==
    /\ wk[w].pc \in {"record", "complete"} /\ Unlocked
    /\ \/ /\ Completes(w)
          /\ \/ wk[w].pc = "record" /\ Goto(w, "complete")
                /\ task' = [task EXCEPT !.snap = Snapshot(wk[w].op, Pending(wk[w].row))]
             \/ wk[w].pc = "complete" /\ Goto(w, "release")
                /\ task' = [task EXCEPT !.bill = "ready"]
          /\ UNCHANGED faults
       \/ ~Completes(w) /\ Return(w) /\ UNCHANGED <<task, faults>>
       \/ /\ Fault /\ UNCHANGED task
          /\ IF wk[w].op = Refund THEN Return(w) ELSE Review(w, [a \in Accounts |-> "pending"])
    /\ UNCHANGED <<ledger, charge, doubt, fence, sub, redis, bulk, pass, polls>>

-----------------------------------------------------------------------------
(* Fences, crashes and the sweep of stale billing.                          *)

\* Mutant: a missing row is taken for a rollback.
Untouched_MissingIsSafe(o, a) == St(o, a) # "applied"

\* resolveTaskBillingOperationFence: the operation is finished, or none of its
\* balances has moved.
Untouched(o, a) ==
    \/ St(o, a) = "undone"
    \/ St(o, a) = "none" /\ task.snap[a] \in (IF a = "token" THEN {"not_applied", "not_applicable"} ELSE {"not_applied"})
OperationOver(o) ==
    /\ task.snap # None /\ task.snap.op = o
    /\ St(o, "finalize") = "applied" \/ \A a \in Accounts : Untouched(o, a)

\* resolveTaskBillingUserQuotaFence, resolveTaskBillingTokenQuotaFence: the
\* journal shows the attempt.
AttemptOver(m, a) == St(m.op, a) = IF m.mode = "apply" THEN "applied" ELSE "undone"

\* resolveTaskBillingUserQuotaFences, resolveTaskBillingTokenQuotaFences: the
\* fences of an account go together or not at all.
Resolvable(a) == \A m \in fence[a] : IF m \in Ops THEN OperationOver(m) ELSE AttemptOver(m, a)
Resolved == [a \in Accounts |-> IF Resolvable(a) THEN {} ELSE fence[a]]

\* Anybody who wants to spend one of the balances.
Spend ==
    /\ Resolved # fence
    /\ fence' = Resolved
    /\ UNCHANGED <<task, ledger, charge, doubt, sub, wk, redis, bulk, pass, bounds>>

\* CompleteTaskBillingOperationFences.
Release(w) ==
    /\ wk[w].pc = "release"
    /\ fence' = Resolved
    /\ Return(w)
    /\ UNCHANGED <<task, ledger, charge, doubt, sub, redis, bulk, pass, bounds>>

Crash(w) ==
    /\ wk[w].pc # "idle" /\ Fault
    /\ Return(w)
    /\ UNCHANGED <<task, ledger, charge, doubt, fence, sub, redis, bulk, pass, polls>>

\* asyncTaskPollHandler.Enabled: a pass is scheduled while there is a task to
\* poll.  A row whose billing is pending or reconciling is none.
HasUnfinishedSyncTasks == Others \/ (task.bill = "ready" /\ task.status \notin Terminal)

Schedule ==
    /\ ~pass /\ HasUnfinishedSyncTasks
    /\ pass' = TRUE
    /\ UNCHANGED <<task, ledger, charge, doubt, fence, sub, wk, redis, bulk, bounds>>

\* Mutant: only submissions are swept.
Stale_PendingOnly == {"pending"}

\* sweepTimedOutTasks, at the start of a pass, marks rows whose billing has not
\* been heard of for a while; their request or worker may only be slow.  It
\* passes over a row that is not old enough.
Stale == {"pending", "reconciling"}
SweepRead(w) ==
    /\ wk[w].pc = "idle" /\ pass
    /\ task.bill \in Stale
    /\ wk' = [wk EXCEPT ![w].pc = "mark", ![w].row = task]
    /\ pass' = FALSE
    /\ UNCHANGED <<task, ledger, charge, doubt, fence, sub, redis, bulk, bounds>>

SweepNothing ==
    /\ pass
    /\ pass' = FALSE
    /\ UNCHANGED <<task, ledger, charge, doubt, fence, sub, wk, redis, bulk, bounds>>

SweepMark(w) ==
    /\ wk[w].pc = "mark" /\ Unlocked
    /\ MarkBillingManualReview(wk[w].row)
    /\ Return(w)
    /\ UNCHANGED <<ledger, charge, doubt, fence, sub, redis, bulk, pass, bounds>>

-----------------------------------------------------------------------------
Submission == Settle \/ Baseline \/ BaselineCheck \/ SubmissionReview

Operation(w) ==
    \/ Reread(w) \/ BeginBillingReconciliation(w) \/ BeginFences(w)
    \/ ApplyTaskBillingStage(w) \/ Check(w) \/ Recheck(w)
    \/ UndoTaskBillingStage(w) \/ UndoCheck(w)
    \/ ReviewRead(w) \/ ReviewWrite(w) \/ Record(w) \/ Release(w)

Answered(w) ==
    \/ \E status \in {"running"} \cup Terminal : Answer(w, status)
    \/ TaskBulkUpdateByID(w)

Next ==
    \/ Submission \/ SubmitterCrash
    \/ Land \/ Drop \/ Spend
    \/ Schedule \/ SweepNothing
    \/ \E w \in Workers :
        \/ Poll(w)
        \/ Answered(w)
        \/ Operation(w)
        \/ SweepRead(w) \/ SweepMark(w)
        \/ Crash(w)

\* A database decides, and a running process goes on.  Passes are scheduled
\* every few seconds while there is a task to poll; a row nobody writes becomes
\* old enough for one of them, so a sweep that finds it again and again marks it.
Fairness ==
    /\ WF_vars(Submission) /\ WF_vars(Land \/ Drop)
    /\ WF_vars(Schedule) /\ SF_vars(\E w \in Workers : SweepRead(w))
    /\ \A w \in Workers : WF_vars(Operation(w)) /\ WF_vars(SweepMark(w)) /\ WF_vars(Answered(w))

Spec == Init /\ [][Next]_vars /\ Fairness

-----------------------------------------------------------------------------
(* Properties.                                                              *)

\* A task that is ready has cost its recorded quota: the wallet, the token that
\* was charged and the usage counters agree on it, after any number of racing
\* pollers, crashes and unknown commits.
ReadyIsExact ==
    task.bill = "ready" =>
        /\ charge["funding"] = task.quota /\ charge["used"] = task.quota
        /\ charge["token"] = IF task.tokenCharged THEN task.quota ELSE 0

\* The status operation o bills; a bulk update may have written over it.
Final(o) == IF o = Refund THEN "failure" ELSE "success"
Fated(o) == task.status = Final(o) \/ (bulk /\ task.status = "failure")

\* A task is billed for one outcome: at most one operation touches it, a refund
\* only if it failed, a settlement only if it succeeded (only the winner of the
\* transition may bill it).  A settled task may be shown as failed afterwards:
\* the bulk update of a late poller asks nobody.
OneOutcome ==
    \A o \in Ops : (\E s \in Stages : St(o, s) # "none") =>
        /\ Fated(o)
        /\ \A p \in Ops \ {o}, s \in Stages : St(p, s) = "none"

\* While an operation has moved a balance and is not finished, nobody else can
\* spend the wallet or the token: its fences stand, whatever spenders resolve.
PartialIsFenced ==
    redis => \A o \in Ops : Unfinished(o) =>
        \A a \in Accounts : (a = "token" => task.tokenCharged) => o \in fence[a]

\* Billing comes to an end: no task stays pending or reconciling, also when its
\* worker dies or its commit is lost -- as long as other tasks keep the polling
\* passes coming (Others), whose sweeps find it.
BillingEnds == task.bill \in {"pending", "reconciling"} ~> task.bill \in {"ready", "manual"}

-----------------------------------------------------------------------------
(* Why they hold: TaskInv is inductive.  Its parts are about the one operation *)
(* o the task may have: until a worker has won a final status any will do.    *)

\* The submission is accounted for.
Based == ledger[<<None, "baseline">>].st = "applied"

\* Where a worker has an operation.
Working == Pcs \ {"idle", "polled", "mark"}

Diff(o) == o.target - Pre
Moved(o, s) == IF St(o, s) = "applied" THEN Diff(o) ELSE 0
Blank(o) == \A s \in Stages : St(o, s) = "none"
TokenShare == IF task.tokenCharged THEN Pre ELSE 0

\* Until the baseline is there nobody looks at the task but its request and
\* sweeps; the baseline is tried once, with the price paid.
Submitting ==
    /\ ~Based => /\ task.status = "submitted" /\ task.quota = Pre /\ task.bill \in {"pending", "manual"}
                 /\ charge["used"] = 0 /\ charge["funding"] \in {0, Pre} /\ charge["token"] \in {0, Pre}
                 /\ sub = "baseline" \/ doubt # None => charge["funding"] = Pre /\ charge["token"] = TokenShare
                 /\ sub \in {"settle", "baseline"} => doubt = None
                 /\ doubt # None => doubt = BaselineTx /\ task.bill = "pending"
                 /\ \A w \in Workers : wk[w].pc \in {"idle", "mark"}
    /\ Based => /\ sub \notin {"settle", "baseline"} /\ task.bill # "pending"
                /\ task.bill # "manual" => task.accounted

\* A task that is not at its end is ready and has no operation.
Running ==
    Based /\ task.status \notin Terminal =>
        task.bill = "ready" /\ \A w \in Workers : wk[w].pc \notin Working

\* A row that says its funding was not moved is not billed any more.
Honest(row) == row.snap # None /\ row.snap.funding = "not_applied" => row.bill = "manual"

\* What o has done, in which order, and what it has moved.
Journal(o) ==
    /\ \A p \in Ops, s \in Stages : St(p, s) # "none" =>
        /\ Based /\ p = o /\ ledger[<<p, s>>].delta = Diff(o) /\ Fated(o)
        /\ s = "token" => task.tokenCharged
    /\ St(o, "finalize") = "applied" =>
        St(o, "funding") = "applied" /\ (task.tokenCharged => St(o, "token") = "applied")
    /\ task.bill = "ready" => Blank(o) \/ St(o, "finalize") = "applied"
Balanced(o) ==
    Based => /\ charge["funding"] = Pre + Moved(o, "funding")
             /\ charge["token"] = TokenShare + Moved(o, "token")
             /\ charge["used"] = Pre + Moved(o, "finalize")
             /\ task.quota = Pre + Moved(o, "finalize")

\* What stage s of o finds: the stages before it, and none after.
Due(o, s) ==
    /\ s = "funding" => St(o, "token") = "none" /\ St(o, "finalize") = "none"
    /\ s = "token" => task.tokenCharged /\ St(o, "funding") = "applied" /\ St(o, "finalize") = "none"
    /\ s = "finalize" => St(o, "funding") = "applied" /\ (task.tokenCharged => St(o, "token") = "applied")

\* What a transaction found when it was sent still holds when it lands.
Sendable(o, x) ==
    /\ x.op = o /\ x.stage \in Stages /\ x.delta = Diff(o) /\ Fated(o)
    /\ x.mode = "apply" => task.bill = "reconciling" /\ Due(o, x.stage) /\ St(o, x.stage) = "none"
    /\ x.mode = "undo" => /\ x.stage \in Accounts /\ St(o, x.stage) = "applied"
                          /\ St(o, "finalize") # "applied"
                          /\ x.stage = "funding" => St(o, "token") # "applied"
Doubtful(o) == Based /\ doubt # None => Sendable(o, doubt)

\* From the time o may move a balance until it is finished its fences stand.
Exposed(o) ==
    \/ Unfinished(o)
    \/ doubt # None /\ Based /\ doubt.mode = "apply" /\ doubt.stage = "funding"
    \/ /\ task.bill = "reconciling"
       /\ \E w \in Workers : wk[w].pc = "apply" /\ wk[w].stage = "funding"
Guarded(o) == redis => \A a \in Accounts : (a = "token" => task.tokenCharged) => o \in fence[a]

\* What the copy of a worker in state k is worth.
Copied(k) ==
    /\ k.pc \notin {"idle", "reread"} => k.row \in Rows /\ k.row.tokenCharged = task.tokenCharged
    /\ k.pc = "polled" => /\ k.row.status \notin Terminal /\ k.row.quota = Pre
                          /\ k.row.bill = "ready" /\ k.row.accounted /\ Honest(k.row)

\* How far a worker in state k has come with o.
Placed(o, k) ==
    k.pc \in Working =>
        /\ k.op = o /\ Fated(o)
        /\ k.pc \in {"reread", "begin"} => task.bill = "ready" /\ Blank(o)
        /\ k.pc # "reread" => k.delta = Diff(o)
        /\ k.pc = "begin" => k.row.accounted /\ k.snap \in Snapshots /\ k.snap.funding # "not_applied"
        /\ k.pc \notin {"reread", "begin", "release"} => task.bill # "ready"
        /\ k.pc = "fence" => Blank(o) /\ doubt = None
        /\ k.pc = "apply" => doubt = None /\ St(o, k.stage) = "none"
        /\ k.pc \in {"apply", "check"} => Due(o, k.stage)
        /\ k.pc = "check" /\ doubt # None => doubt.mode = "apply" /\ doubt.stage = k.stage
        /\ k.pc = "recheck" => k.stage = "token"
        /\ k.pc \in {"undo", "undoCheck"} => k.stage \in Accounts
        /\ k.pc = "reviewed" => k.snap \in Snapshots
        /\ k.pc \in {"record", "complete"} => St(o, "finalize") = "applied"

OneWorker == \A v, w \in Workers : wk[v].pc \in Working /\ wk[w].pc \in Working => v = w

Billed(o) ==
    /\ Journal(o) /\ Balanced(o) /\ Doubtful(o)
    /\ Exposed(o) => Guarded(o)
    /\ \A w \in Workers : Placed(o, wk[w])

TaskInv ==
    /\ TypeOK /\ Submitting /\ Running /\ Honest(task) /\ OneWorker
    /\ \A w \in Workers : Copied(wk[w])
    /\ \E o \in Ops : Billed(o)
=============================================================================
