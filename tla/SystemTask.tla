------------------------------ MODULE SystemTask ------------------------------
(***************************************************************************)
(* Distributed background tasks (model/system_task.go and                  *)
(* service/system_task.go): every master node runs a loop that fails stale  *)
(* leases, creates due tasks and claims pending ones; a claimed task runs   *)
(* in a goroutine of its own under a lease.                                 *)
(*                                                                          *)
(* Every query filters on the task type (the lock row's primary key, the    *)
(* active_key and every WHERE), so the types are independent: this module   *)
(* is the protocol of ONE type.  One action is one SQL statement; the steps *)
(* of different nodes interleave freely between two statements.             *)
(*                                                                          *)
(* Time is abstracted to the state of the lease in the lock row: "expired"  *)
(* is "locked_until < now".  The renewal of a valid lease leaves it valid   *)
(* and is a stuttering step.                                                *)
(***************************************************************************)
EXTENDS Naturals

CONSTANTS
    Runners,     \* runner ids: "NodeName-random", a restarted node is a new id
    NoRunner,    \* the empty locked_by
    MaxTasks,    \* bound: task rows ever created
    MaxFaults,   \* bound: SQL statements that fail
    ClaimStall   \* may a lease run out while its claimer is between the lock
                 \* and the status update (a node paused for the 60 s TTL)?

ASSUME RunnersAssumption == NoRunner \notin Runners
ASSUME MaxTasksAssumption == MaxTasks \in Nat \ {0}
ASSUME MaxFaultsAssumption == MaxFaults \in Nat
ASSUME ClaimStallAssumption == ClaimStall \in BOOLEAN

VARIABLES
    task,     \* system_tasks: id -> [status, activeKey, lockedBy]
    lock,     \* system_task_locks: the row of this type, NoLock when absent
    loop,     \* the runner goroutine of each node and its local variables
    handler,  \* handler[r][t]: the goroutine runWithLeaseHeartbeat of r for t
    faults    \* SQL statements that have failed so far

vars == <<task, lock, loop, handler, faults>>

Tasks == 1..MaxTasks
Status == {"none", "pending", "running", "succeeded", "failed"}
Terminal == {"succeeded", "failed"}
Pc == {"idle", "expMark", "expDelete", "create", "lockCreate", "lockRead",
       "lockSteal", "markOld", "setRunning", "claimRelease", "dead"}
HState == {"none", "live", "stopping", "lost", "releasing", "done", "dead"}

NoRow == [status |-> "none", activeKey |-> "null", lockedBy |-> NoRunner]
NoLock == [task |-> 0, by |-> NoRunner, lease |-> "none"]

(* Locals of a runner's loop.  task: the row being claimed.  old, oldBy:    *)
(* the lock row read.  seen: the lock row, if any, had expired when the     *)
(* operation took its `now`, and no lease was granted since, so             *)
(* `locked_until < now` still holds of it.                                  *)
Idle(c) == [pc |-> "idle", task |-> 0, old |-> 0, oldBy |-> NoRunner,
            seen |-> "fresh", ctx |-> c]

TaskRow == [status : Status, activeKey : {"null", "type"},
            lockedBy : Runners \cup {NoRunner}]
LockRow == [task : 0..MaxTasks, by : Runners \cup {NoRunner},
            lease : {"none", "valid", "expired"}]
LoopState == [pc : Pc, task : 0..MaxTasks, old : 0..MaxTasks,
              oldBy : Runners \cup {NoRunner}, seen : {"fresh", "stale"},
              ctx : {"up", "cancelled"}]

TypeOK ==
    /\ task \in [Tasks -> TaskRow]
    /\ lock \in LockRow
    /\ loop \in [Runners -> LoopState]
    /\ handler \in [Runners -> [Tasks -> HState]]
    /\ faults \in 0..MaxFaults

Init ==
    /\ task = [t \in Tasks |-> NoRow]
    /\ lock = NoLock
    /\ loop = [r \in Runners |-> Idle("up")]
    /\ handler = [r \in Runners |-> [t \in Tasks |-> "none"]]
    /\ faults = 0

-----------------------------------------------------------------------------
(* SQL statements shared by several operations.                             *)

\* A lease expiry written with a status of its own that no reader knows.
MarkLeaseExpired_UnknownStatus(rows, t) ==
    IF t \in Tasks /\ rows[t].status = "running"
    THEN [rows EXCEPT ![t].status = "expired", ![t].activeKey = "null"]
    ELSE rows

\* MarkSystemTaskLeaseExpired: UPDATE ... WHERE task_id = t AND running.
MarkLeaseExpired(rows, t) ==
    IF t \in Tasks /\ rows[t].status = "running"
    THEN [rows EXCEPT ![t].status = "failed", ![t].activeKey = "null"]
    ELSE rows

\* ReleaseSystemTaskLock: DELETE WHERE task_id = t AND locked_by = r.
ReleaseLock(t, r) ==
    IF lock.task = t /\ lock.by = r THEN NoLock ELSE lock

\* The predicate "locked_by = r AND locked_until >= now" on the row of t.
LeaseHeld(r, t) == lock.task = t /\ lock.by = r /\ lock.lease = "valid"

\* A granted lease has a later locked_until than any `now` read before it:
\* no loop that read the previous lease still sees it as expired.
Grant(r, p) ==
    [q \in Runners |-> [loop[q] EXCEPT !.seen = "fresh",
                                      !.pc = IF q = r THEN p ELSE @]]

ActiveRowExists == \E t \in Tasks : task[t].activeKey = "type"

\* CreateSystemTask: INSERT of a pending row, refused by the unique index on
\* active_key while an active row of the type exists.
InsertPending ==
    /\ ~ActiveRowExists
    /\ \E t \in Tasks :
        /\ task[t].status = "none"
        /\ \A u \in Tasks : u < t => task[u].status # "none"
        /\ task' = [task EXCEPT ![t] = [status |-> "pending", activeKey |-> "type",
                                        lockedBy |-> NoRunner]]

-----------------------------------------------------------------------------
(* The runner loop: runPass.                                                *)

CanPass(r) == loop[r].pc = "idle" /\ loop[r].ctx = "up"

\* ExpireStaleSystemTaskLocks: SELECT the rows with locked_until < now.
ExpireRead(r) ==
    /\ CanPass(r)
    /\ lock.lease = "expired"
    /\ loop' = [loop EXCEPT ![r].pc = "expMark", ![r].old = lock.task,
                            ![r].oldBy = lock.by, ![r].seen = "stale"]
    /\ UNCHANGED <<task, lock, handler, faults>>

\* A cleanup that only deletes the stale row and never fails its task.
ExpireMark_Skipped(r) ==
    /\ loop[r].pc = "expMark"
    /\ loop' = [loop EXCEPT ![r].pc = "expDelete"]
    /\ UNCHANGED <<task, lock, handler, faults>>

ExpireMark(r) ==
    /\ loop[r].pc = "expMark"
    /\ task' = MarkLeaseExpired(task, loop[r].old)
    /\ loop' = [loop EXCEPT ![r].pc = "expDelete"]
    /\ UNCHANGED <<lock, handler, faults>>

\* A stale-lock cleanup that deletes the row whoever holds it by now.
ExpireDelete_AnyOwner(r) ==
    /\ loop[r].pc = "expDelete"
    /\ lock' = NoLock
    /\ loop' = [loop EXCEPT ![r] = Idle(loop[r].ctx)]
    /\ UNCHANGED <<task, handler, faults>>

\* DELETE WHERE type, task_id, locked_by as read AND locked_until < now.
ExpireDelete(r) ==
    /\ loop[r].pc = "expDelete"
    /\ lock' = IF /\ lock.task = loop[r].old
                  /\ lock.by = loop[r].oldBy
                  /\ loop[r].seen = "stale"
               THEN NoLock ELSE lock
    /\ loop' = [loop EXCEPT ![r] = Idle(loop[r].ctx)]
    /\ UNCHANGED <<task, handler, faults>>

\* runSystemTaskScheduler: the latest row is not active (its interval has run
\* out); the INSERT is a later statement.
SchedulerCheck(r) ==
    /\ CanPass(r)
    /\ \A t \in Tasks :
        (/\ task[t].status # "none"
         /\ \A u \in Tasks : u > t => task[u].status = "none")
        => task[t].status \in Terminal
    /\ loop' = [loop EXCEPT ![r].pc = "create"]
    /\ UNCHANGED <<task, lock, handler, faults>>

SchedulerCreate(r) ==
    /\ loop[r].pc = "create"
    /\ \/ InsertPending
       \/ /\ ActiveRowExists \/ \A t \in Tasks : task[t].status # "none"
          /\ UNCHANGED task
    /\ loop' = [loop EXCEPT ![r] = Idle(loop[r].ctx)]
    /\ UNCHANGED <<lock, handler, faults>>

\* EnqueueSystemTask / StartLogCleanupTask from the admin API.
Enqueue ==
    /\ InsertPending
    /\ UNCHANGED <<lock, loop, handler, faults>>

-----------------------------------------------------------------------------
(* claimPass and ClaimSystemTask.                                           *)

\* FindEarliestPendingSystemTasks; ClaimSystemTask takes `now` and reads the
\* row again.
ClaimBegin(r) ==
    /\ CanPass(r)
    /\ \E t \in Tasks :
        /\ task[t].status = "pending"
        /\ \A u \in Tasks : u < t => task[u].status # "pending"
        /\ loop' = [loop EXCEPT ![r].pc = "lockCreate", ![r].task = t,
                                ![r].seen = IF lock.lease = "expired" THEN "stale"
                                            ELSE "fresh"]
    /\ UNCHANGED <<task, lock, handler, faults>>

\* acquireSystemTaskLock: INSERT of the lock row, refused by its primary key.
LockCreate(r) ==
    /\ loop[r].pc = "lockCreate"
    /\ IF lock.task = 0
       THEN /\ lock' = [task |-> loop[r].task, by |-> r, lease |-> "valid"]
            /\ loop' = Grant(r, "setRunning")
       ELSE /\ loop' = [loop EXCEPT ![r].pc = "lockRead"]
            /\ UNCHANGED lock
    /\ UNCHANGED <<task, handler, faults>>

LockRead(r) ==
    /\ loop[r].pc = "lockRead"
    /\ loop' = IF lock.task # 0 /\ loop[r].seen = "stale"
               THEN [loop EXCEPT ![r].pc = "lockSteal", ![r].old = lock.task]
               ELSE [loop EXCEPT ![r] = Idle(loop[r].ctx)]
    /\ UNCHANGED <<task, lock, handler, faults>>

\* UPDATE ... WHERE type = ? AND locked_until < now.
LockSteal(r) ==
    /\ loop[r].pc = "lockSteal"
    /\ IF lock.task # 0 /\ loop[r].seen = "stale"
       THEN /\ lock' = [task |-> loop[r].task, by |-> r, lease |-> "valid"]
            /\ loop' = Grant(r, IF loop[r].old = loop[r].task
                                THEN "setRunning" ELSE "markOld")
       ELSE /\ loop' = [loop EXCEPT ![r] = Idle(loop[r].ctx)]
            /\ UNCHANGED lock
    /\ UNCHANGED <<task, handler, faults>>

\* The task whose expired lease was replaced is failed.
MarkOld(r) ==
    /\ loop[r].pc = "markOld"
    /\ task' = MarkLeaseExpired(task, loop[r].old)
    /\ loop' = [loop EXCEPT ![r].pc = "setRunning"]
    /\ UNCHANGED <<lock, handler, faults>>

Dispatch(r, t) ==
    handler' = [handler EXCEPT ![r][t] =
                    IF loop[r].ctx = "cancelled" THEN "stopping" ELSE "live"]

\* A claim that does not re-check the status: the lock is taken to be enough.
SetRunning_NoStatusGuard(r) ==
    LET t == loop[r].task IN
    /\ loop[r].pc = "setRunning"
    /\ task' = [task EXCEPT ![t].status = "running", ![t].lockedBy = r]
    /\ Dispatch(r, t)
    /\ loop' = [loop EXCEPT ![r] = Idle(loop[r].ctx)]
    /\ UNCHANGED <<lock, faults>>

\* UPDATE ... SET running, locked_by WHERE id = t AND status = 'pending'.
SetRunning(r) ==
    LET t == loop[r].task IN
    /\ loop[r].pc = "setRunning"
    /\ IF task[t].status = "pending"
       THEN /\ task' = [task EXCEPT ![t].status = "running", ![t].lockedBy = r]
            /\ Dispatch(r, t)
            /\ loop' = [loop EXCEPT ![r] = Idle(loop[r].ctx)]
       ELSE /\ loop' = [loop EXCEPT ![r].pc = "claimRelease"]
            /\ UNCHANGED <<task, handler>>
    /\ UNCHANGED <<lock, faults>>

ClaimRelease(r) ==
    /\ loop[r].pc = "claimRelease"
    /\ lock' = ReleaseLock(loop[r].task, r)
    /\ loop' = [loop EXCEPT ![r] = Idle(loop[r].ctx)]
    /\ UNCHANGED <<task, handler, faults>>

-----------------------------------------------------------------------------
(* The handler goroutine.                                                   *)

Executing(r, t) == handler[r][t] \in {"live", "stopping", "lost"}

\* RenewSystemTaskLock affects no row: the heartbeat cancels the handler's
\* context and stops.
HeartbeatLost(r, t) ==
    /\ handler[r][t] \in {"live", "stopping"}
    /\ ~LeaseHeld(r, t)
    /\ handler' = [handler EXCEPT ![r][t] = "lost"]
    /\ UNCHANGED <<task, lock, loop, faults>>

\* UpdateSystemTaskState reports ErrSystemTaskLockLost: the handler returns.
UpdateStateLost(r, t) ==
    /\ Executing(r, t)
    /\ ~(task[t].status = "running" /\ task[t].lockedBy = r /\ LeaseHeld(r, t))
    /\ handler' = [handler EXCEPT ![r][t] = "done"]
    /\ UNCHANGED <<task, lock, loop, faults>>

\* A terminal write that checks the lease but not that the row still runs.
Finish_NoStatusGuard(r, t, s) ==
    /\ Executing(r, t)
    /\ IF task[t].lockedBy = r /\ LeaseHeld(r, t)
       THEN /\ task' = [task EXCEPT ![t].status = s, ![t].activeKey = "null"]
            /\ handler' = [handler EXCEPT ![r][t] = "releasing"]
       ELSE /\ handler' = [handler EXCEPT ![r][t] = "done"]
            /\ UNCHANGED task
    /\ UNCHANGED <<lock, loop, faults>>

\* FinishSystemTask: the guarded UPDATE; no row means the lock is lost.
Finish(r, t, s) ==
    /\ Executing(r, t)
    /\ IF /\ task[t].status = "running" /\ task[t].lockedBy = r
          /\ LeaseHeld(r, t)
       THEN /\ task' = [task EXCEPT ![t].status = s, ![t].activeKey = "null"]
            /\ handler' = [handler EXCEPT ![r][t] = "releasing"]
       ELSE /\ handler' = [handler EXCEPT ![r][t] = "done"]
            /\ UNCHANGED task
    /\ UNCHANGED <<lock, loop, faults>>

FinishRelease(r, t) ==
    /\ handler[r][t] = "releasing"
    /\ lock' = ReleaseLock(t, r)
    /\ handler' = [handler EXCEPT ![r][t] = "done"]
    /\ UNCHANGED <<task, loop, faults>>

-----------------------------------------------------------------------------
(* Shutdown, crash, failing statements and time.                            *)

\* StopSystemTaskRunner: the context is cancelled, no further pass starts and
\* the running handlers are told to stop; their heartbeats go on.
Stop(r) ==
    /\ loop[r].pc # "dead" /\ loop[r].ctx = "up"
    /\ loop' = [loop EXCEPT ![r].ctx = "cancelled"]
    /\ handler' = [handler EXCEPT ![r] =
            [t \in Tasks |-> IF handler[r][t] = "live" THEN "stopping"
                             ELSE handler[r][t]]]
    /\ UNCHANGED <<task, lock, faults>>

\* The process dies between any two statements.
Crash(r) ==
    /\ loop[r].pc # "dead"
    /\ loop' = [loop EXCEPT ![r] = [Idle("up") EXCEPT !.pc = "dead"]]
    /\ handler' = [handler EXCEPT ![r] =
            [t \in Tasks |-> IF handler[r][t] \in {"none", "done"}
                             THEN handler[r][t] ELSE "dead"]]
    /\ UNCHANGED <<task, lock, faults>>

Fault == faults < MaxFaults /\ faults' = faults + 1

\* A statement of the loop returns an error and has no effect.  A failed
\* INSERT of the lock counts as a conflict, a failure after the lock is held
\* releases it, every other error ends the operation.
LoopFault(r) ==
    /\ Fault
    /\ \/ /\ loop[r].pc = "lockCreate"
          /\ loop' = [loop EXCEPT ![r].pc = "lockRead"]
       \/ /\ loop[r].pc \in {"markOld", "setRunning"}
          /\ loop' = [loop EXCEPT ![r].pc = "claimRelease"]
       \/ /\ loop[r].pc \in {"expMark", "expDelete", "create", "lockRead",
                             "lockSteal", "claimRelease"}
          /\ loop' = [loop EXCEPT ![r] = Idle(loop[r].ctx)]
    /\ UNCHANGED <<task, lock, handler>>

\* ClaimSystemTask made the row running but cannot read it back: the claim
\* reports an error, nothing is dispatched and the lock is kept.
ReadBackFault(r) ==
    LET t == loop[r].task IN
    /\ Fault
    /\ loop[r].pc = "setRunning" /\ task[t].status = "pending"
    /\ task' = [task EXCEPT ![t].status = "running", ![t].lockedBy = r]
    /\ loop' = [loop EXCEPT ![r] = Idle(loop[r].ctx)]
    /\ UNCHANGED <<lock, handler>>

\* The renewal fails: the handler's context is cancelled, the lease remains.
HeartbeatFault(r, t) ==
    /\ Fault
    /\ handler[r][t] \in {"live", "stopping"}
    /\ handler' = [handler EXCEPT ![r][t] = "lost"]
    /\ UNCHANGED <<task, lock, loop>>

\* UpdateSystemTaskState, FinishSystemTask or its release of the lock fails, or
\* the handler panics: the goroutine ends with the row and the lock as they are.
HandlerFault(r, t) ==
    /\ Fault
    /\ Executing(r, t) \/ handler[r][t] = "releasing"
    /\ handler' = [handler EXCEPT ![r][t] = "done"]
    /\ UNCHANGED <<task, lock, loop>>

Claiming(r) == loop[r].pc \in {"markOld", "setRunning"} /\ lock.by = r

\* locked_until passes without a renewal: the owner is gone or is late.
LeaseExpire ==
    /\ lock.lease = "valid"
    /\ ClaimStall \/ \A r \in Runners : ~Claiming(r)
    /\ lock' = [lock EXCEPT !.lease = "expired"]
    /\ UNCHANGED <<task, loop, handler, faults>>

LoopStep(r) ==
    \/ ExpireMark(r) \/ ExpireDelete(r) \/ SchedulerCreate(r)
    \/ LockCreate(r) \/ LockRead(r) \/ LockSteal(r) \/ MarkOld(r)
    \/ SetRunning(r) \/ ClaimRelease(r)

HandlerStep(r, t) ==
    \/ HeartbeatLost(r, t)
    \/ UpdateStateLost(r, t)
    \/ \E s \in Terminal : Finish(r, t, s)
    \/ FinishRelease(r, t)

RunnerStep(r) ==
    \/ ExpireRead(r) \/ SchedulerCheck(r) \/ ClaimBegin(r)
    \/ LoopStep(r)
    \/ \E t \in Tasks : HandlerStep(r, t)
    \/ Stop(r) \/ Crash(r)
    \/ LoopFault(r) \/ ReadBackFault(r)
    \/ \E t \in Tasks : HeartbeatFault(r, t) \/ HandlerFault(r, t)

Next == (\E r \in Runners : RunnerStep(r)) \/ Enqueue \/ LeaseExpire

Spec == Init /\ [][Next]_vars

-----------------------------------------------------------------------------
(* Fairness.  The loop goroutine and the handlers keep running unless the   *)
(* process dies; the ticker starts a pass every 15 s and each pass looks at  *)
(* stale leases and at pending tasks once their interval is over, whatever   *)
(* the previous passes did (SF); a lease nobody renews runs out.             *)

Unrenewed ==
    lock.task # 0 /\ lock.by \in Runners /\ lock.task \in Tasks
    /\ handler[lock.by][lock.task] \notin {"live", "stopping"}
    /\ ~Claiming(lock.by)

HandlerEnds(r, t) ==
    (\E s \in Terminal : Finish(r, t, s)) \/ FinishRelease(r, t)

Fairness ==
    /\ \A r \in Runners :
        /\ WF_vars(LoopStep(r))
        /\ SF_vars(ExpireRead(r))
        /\ SF_vars(ClaimBegin(r))
        /\ WF_vars(\E t \in Tasks : HandlerEnds(r, t))
    /\ WF_vars(LeaseExpire /\ Unrenewed)

FairSpec == Spec /\ Fairness

-----------------------------------------------------------------------------
(* Properties.                                                              *)

\* "the per-type lock guarantees only one runner executes the task"
\* (runSystemTaskScheduler): no task is ever handed to the handlers of two
\* runners, whatever leases run out, are stolen or cleaned up in between.
DispatchedOnce ==
    \A t \in Tasks : \A r, q \in Runners :
        handler[r][t] # "none" /\ handler[q][t] # "none" => r = q

\* A task that reached a terminal status keeps it: a runner whose lease was
\* taken away cannot overwrite "task lease expired" with its own result, and
\* the stale-lock cleanup cannot fail a task that has succeeded.
TerminalIsFinal ==
    [][\A t \in Tasks : task[t].status \in Terminal
                        => task'[t].status = task[t].status]_vars

\* A running task has a lock row that names it, so the stale-lock cleanup,
\* which only looks at lock rows, can find it when its runner disappears.
RunningHasLock ==
    \A t \in Tasks : task[t].status = "running" => lock.task = t

(* Why RunningHasLock holds when no claimer is paused for longer than its   *)
(* lease (ClaimStall = FALSE).  None of the parts is an invariant alone.     *)

\* A row is active exactly while it is pending or running.
ActiveKeyMeansActive ==
    \A t \in Tasks :
        task[t].activeKey = "type" <=> task[t].status \in {"pending", "running"}

\* At most one row of the type is active (the unique index on active_key).
OneActive ==
    \A t, u \in Tasks :
        task[t].activeKey = "type" /\ task[u].activeKey = "type" => t = u

\* A loop that is about to make its row running holds a lease on that row,
\* and nobody has made it run yet.
ClaimerHoldsLease ==
    \A r \in Runners : loop[r].pc \in {"markOld", "setRunning"} =>
        /\ LeaseHeld(r, loop[r].task)
        /\ loop[r].task \in Tasks
        /\ task[loop[r].task].status \notin {"none", "running"}

\* `locked_until < now` is only ever remembered of a lease that is over.
StaleIsOver ==
    \A r \in Runners : loop[r].seen = "stale" => lock.lease # "valid"

\* A loop that may still take the lock over competes for an active row, or
\* for one that was finished in the meantime: never for the row of a live lock.
StealerSawPending ==
    \A r \in Runners : loop[r].pc \in {"lockCreate", "lockRead", "lockSteal"} =>
        /\ loop[r].task \in Tasks
        /\ task[loop[r].task].status # "none"
        /\ loop[r].seen = "stale" => task[loop[r].task].status = "pending"

\* The row whose stale lock is about to be deleted is not running any more.
DeleterFailedRow ==
    \A r \in Runners : loop[r].pc = "expDelete" /\ loop[r].seen = "stale" =>
        \A t \in Tasks : t = loop[r].old => task[t].status # "running"

\* A lock that is about to be released by its holder guards no running row.
ReleaserIsDone ==
    /\ \A r \in Runners : loop[r].pc = "claimRelease" /\ lock.by = r =>
            \A t \in Tasks : t = loop[r].task => task[t].status # "running"
    /\ \A r \in Runners, t \in Tasks :
            handler[r][t] = "releasing" => task[t].status \in Terminal

\* A row is claimed before its handler starts, never after.
ClaimerNotStarted ==
    \A r \in Runners :
        loop[r].pc \in {"lockCreate", "lockRead", "lockSteal", "markOld", "setRunning"}
        => \A t \in Tasks : t = loop[r].task => handler[r][t] = "none"

LeaseInv ==
    /\ RunningHasLock /\ ActiveKeyMeansActive /\ OneActive
    /\ ClaimerHoldsLease /\ StaleIsOver /\ StealerSawPending
    /\ DeleterFailedRow /\ ReleaserIsDone /\ ClaimerNotStarted

NoLoopLeft == \A r \in Runners : loop[r].pc = "dead" \/ loop[r].ctx = "cancelled"

\* The idle poll exists to "pick up tasks created on other nodes and mark
\* expired leases failed" (systemTaskRunnerIdleInterval): as long as a runner
\* is up, an active task - pending, running, or orphaned by a crash between
\* any two statements - reaches a terminal status.
ActiveTaskFinishes ==
    \A t \in Tasks : task[t].activeKey = "type" ~> (task[t].status \in Terminal \/ NoLoopLeft)

=============================================================================
