--------------------------- MODULE SystemTaskProofs ---------------------------
(***************************************************************************)
(* Proofs about SystemTask, for any set of runners, any number of rows and  *)
(* any number of failing statements.                                        *)
(***************************************************************************)
EXTENDS SystemTask, TLAPS

(* The operations of the model, one disjunct each, so that a proof splits on *)
(* them and on nothing else.                                                 *)
LEMMA NextCases ==
    ASSUME Next
    PROVE  \/ \E r \in Runners :
                \/ ExpireRead(r) \/ ExpireMark(r) \/ ExpireDelete(r)
                \/ SchedulerCheck(r) \/ SchedulerCreate(r)
                \/ ClaimBegin(r) \/ LockCreate(r) \/ LockRead(r)
                \/ LockSteal(r) \/ MarkOld(r) \/ SetRunning(r)
                \/ ClaimRelease(r) \/ Stop(r) \/ Crash(r)
                \/ LoopFault(r) \/ ReadBackFault(r)
           \/ \E r \in Runners, t \in Tasks :
                \/ HeartbeatLost(r, t) \/ UpdateStateLost(r, t)
                \/ FinishRelease(r, t)
                \/ HeartbeatFault(r, t) \/ HandlerFault(r, t)
                \/ \E s \in Terminal : Finish(r, t, s)
           \/ Enqueue
           \/ LeaseExpire
BY DEF Next, RunnerStep, LoopStep, HandlerStep

(* A loop that ends an operation has well-typed locals again.              *)
LEMMA IdleTyped ==
    /\ \A c \in {"up", "cancelled"} : Idle(c) \in LoopState
    /\ [Idle("up") EXCEPT !.pc = "dead"] \in LoopState
    /\ NoLock \in LockRow
<1>1. 0 \in 0..MaxTasks
    BY MaxTasksAssumption
<1> QED
    BY <1>1 DEF Idle, LoopState, Pc, NoLock, LockRow

(* A lease expiry rewrites at most the row it is given, and only a running  *)
(* one.                                                                     *)
LEMMA MarkLeaseExpiredRows ==
    ASSUME TypeOK, NEW u \in 0..MaxTasks
    PROVE  /\ MarkLeaseExpired(task, u) \in [Tasks -> TaskRow]
           /\ \A t \in Tasks :
                LET m == MarkLeaseExpired(task, u)[t] IN
                /\ m.lockedBy = task[t].lockedBy
                /\ task[t].status = "running" /\ t = u
                        => m.status = "failed" /\ m.activeKey = "null"
                /\ task[t].status # "running" \/ t # u => m = task[t]
BY DEF MarkLeaseExpired, TypeOK, TaskRow, Status, Tasks

(* Moving a loop to another statement keeps its locals typed.              *)
LEMMA LoopMoveTyped ==
    ASSUME TypeOK, NEW r \in Runners, NEW p \in Pc
    PROVE  [loop EXCEPT ![r].pc = p] \in [Runners -> LoopState]
BY DEF TypeOK, LoopState

LEMMA LoopClaimTyped ==
    ASSUME TypeOK, NEW r \in Runners, NEW p \in Pc, NEW u \in 0..MaxTasks,
           NEW e \in {"fresh", "stale"}
    PROVE  [loop EXCEPT ![r].pc = p, ![r].task = u, ![r].seen = e]
                    \in [Runners -> LoopState]
<1>1. loop[r] \in LoopState
    BY DEF TypeOK
<1>2. [loop[r] EXCEPT !.pc = p, !.task = u, !.seen = e] \in LoopState
    BY <1>1 DEF LoopState
<1> QED
    BY <1>2 DEF TypeOK

LEMMA LoopReadTyped ==
    ASSUME TypeOK, NEW r \in Runners, NEW p \in Pc, NEW o \in 0..MaxTasks
    PROVE  [loop EXCEPT ![r].pc = p, ![r].old = o] \in [Runners -> LoopState]
<1>1. loop[r] \in LoopState
    BY DEF TypeOK
<1>2. [loop[r] EXCEPT !.pc = p, !.old = o] \in LoopState
    BY <1>1 DEF LoopState
<1> QED
    BY <1>2 DEF TypeOK

LEMMA LoopExpireTyped ==
    ASSUME TypeOK, NEW r \in Runners, NEW p \in Pc, NEW o \in 0..MaxTasks,
           NEW q \in Runners \cup {NoRunner}, NEW e \in {"fresh", "stale"}
    PROVE  [loop EXCEPT ![r].pc = p, ![r].old = o, ![r].oldBy = q, ![r].seen = e]
                    \in [Runners -> LoopState]
<1>1. loop[r] \in LoopState
    BY DEF TypeOK
<1>2. [loop[r] EXCEPT !.pc = p, !.old = o, !.oldBy = q, !.seen = e] \in LoopState
    BY <1>1 DEF LoopState
<1> QED
    BY <1>2 DEF TypeOK

LEMMA TypeStep ==
    ASSUME TypeOK, [Next]_vars
    PROVE  TypeOK'
<1>a. \A r \in Runners :
        /\ loop[r] \in LoopState
        /\ loop[r].task \in 0..MaxTasks
        /\ loop[r].old \in 0..MaxTasks
        /\ loop[r].ctx \in {"up", "cancelled"}
    BY DEF TypeOK, LoopState
<1>f. Fault => faults' \in 0..MaxFaults
    BY MaxFaultsAssumption DEF TypeOK, Fault
<1>1. CASE UNCHANGED vars
    BY <1>1 DEF TypeOK, vars
<1>2. ASSUME NEW r \in Runners,
             ExpireRead(r) \/ SchedulerCheck(r) \/ ClaimBegin(r) \/ LockRead(r)
      PROVE  TypeOK'
    <2>0. /\ lock.task \in 0..MaxTasks
          /\ lock.by \in Runners \cup {NoRunner}
        BY DEF TypeOK, LockRow
    <2>p. {"expMark", "create", "lockCreate", "lockSteal"} \subseteq Pc
        BY DEF Pc
    <2>1. CASE ExpireRead(r) \/ SchedulerCheck(r)
        <3>1. loop' \in [Runners -> LoopState]
            <4>1. CASE ExpireRead(r)
                <5>1. loop' = [loop EXCEPT ![r].pc = "expMark", ![r].old = lock.task,
                                     ![r].oldBy = lock.by, ![r].seen = "stale"]
                    BY <4>1 DEF ExpireRead
                <5>2. /\ "expMark" \in Pc
                      /\ "stale" \in {"fresh", "stale"}
                    BY <2>p
                <5>3. [loop EXCEPT ![r].pc = "expMark", ![r].old = lock.task,
                                   ![r].oldBy = lock.by, ![r].seen = "stale"]
                            \in [Runners -> LoopState]
                    BY <2>0, <5>2, LoopExpireTyped
                <5> QED BY <5>1, <5>3
            <4>2. CASE SchedulerCheck(r)
                BY <2>p, <4>2, LoopMoveTyped DEF SchedulerCheck
            <4> QED BY <2>1, <4>1, <4>2
        <3> QED
            BY <2>1, <3>1 DEF TypeOK, ExpireRead, SchedulerCheck
    <2>2. CASE ClaimBegin(r)
        <3>1. PICK t \in Tasks, e \in {"fresh", "stale"} :
                loop' = [loop EXCEPT ![r].pc = "lockCreate", ![r].task = t,
                                     ![r].seen = e]
            BY <2>2 DEF ClaimBegin
        <3>2. t \in 0..MaxTasks
            BY DEF Tasks
        <3>3. loop' \in [Runners -> LoopState]
            BY <2>p, <3>1, <3>2, LoopClaimTyped
        <3> QED
            BY <2>2, <3>3 DEF TypeOK, ClaimBegin
    <2>3. CASE LockRead(r)
        <3>1. CASE lock.task # 0 /\ loop[r].seen = "stale"
            BY <2>0, <2>p, <2>3, <3>1, LoopReadTyped DEF TypeOK, LockRead
        <3>2. CASE ~(lock.task # 0 /\ loop[r].seen = "stale")
            BY <2>3, <3>2, <1>a, IdleTyped DEF TypeOK, LockRead
        <3> QED BY <3>1, <3>2
    <2> QED
        BY <1>2, <2>1, <2>2, <2>3
<1>3. ASSUME NEW r \in Runners, ExpireMark(r) \/ MarkOld(r)
      PROVE  TypeOK'
    <2>2. task' = MarkLeaseExpired(task, loop[r].old)
        BY <1>3 DEF ExpireMark, MarkOld
    <2>3. task' \in [Tasks -> TaskRow]
        BY <1>a, <2>2, MarkLeaseExpiredRows
    <2>4. loop' \in [Runners -> LoopState]
        <3>1. "expDelete" \in Pc /\ "setRunning" \in Pc
            BY DEF Pc
        <3> QED
            <4>1. CASE ExpireMark(r)
                BY <3>1, <4>1, LoopMoveTyped DEF ExpireMark
            <4>2. CASE MarkOld(r)
                BY <3>1, <4>2, LoopMoveTyped DEF MarkOld
            <4> QED BY <1>3, <4>1, <4>2
    <2> QED
        BY <1>3, <2>3, <2>4 DEF TypeOK, ExpireMark, MarkOld
<1>4. ASSUME NEW r \in Runners, ExpireDelete(r) \/ ClaimRelease(r)
      PROVE  TypeOK'
    BY <1>4, <1>a, IdleTyped DEF TypeOK, ExpireDelete, ClaimRelease, ReleaseLock
<1>5. ASSUME InsertPending
      PROVE  task' \in [Tasks -> TaskRow]
    BY <1>5 DEF TypeOK, InsertPending, TaskRow, Status
<1>6. ASSUME NEW r \in Runners, SchedulerCreate(r)
      PROVE  TypeOK'
    BY <1>5, <1>6, <1>a, IdleTyped DEF TypeOK, SchedulerCreate
<1>7. ASSUME NEW r \in Runners, LockCreate(r) \/ LockSteal(r)
      PROVE  TypeOK'
    <2>1. lock' \in LockRow
        BY <1>7, <1>a DEF TypeOK, LockCreate, LockSteal, LockRow
    <2>2. ASSUME NEW p \in Pc
          PROVE  Grant(r, p) \in [Runners -> LoopState]
        BY <1>a DEF Grant, LoopState
    <2>3. "setRunning" \in Pc /\ "markOld" \in Pc
        BY DEF Pc
    <2>4. CASE LockCreate(r)
        <3>1. CASE lock.task = 0
            BY <2>1, <2>2, <2>3, <2>4, <3>1 DEF TypeOK, LockCreate
        <3>2. CASE lock.task # 0
            <4>1. "lockRead" \in Pc
                BY DEF Pc
            <4>2. loop' = [loop EXCEPT ![r].pc = "lockRead"]
                BY <2>4, <3>2 DEF LockCreate
            <4>3. loop' \in [Runners -> LoopState]
                BY <4>1, <4>2, LoopMoveTyped
            <4> QED
                BY <2>4, <3>2, <4>3 DEF TypeOK, LockCreate
        <3> QED BY <3>1, <3>2
    <2>5. CASE LockSteal(r)
        <3>1. CASE lock.task # 0 /\ loop[r].seen = "stale"
            BY <2>1, <2>2, <2>3, <2>5, <3>1 DEF TypeOK, LockSteal
        <3>2. CASE ~(lock.task # 0 /\ loop[r].seen = "stale")
            BY <2>5, <3>2, <1>a, IdleTyped DEF TypeOK, LockSteal
        <3> QED BY <3>1, <3>2
    <2> QED BY <1>7, <2>4, <2>5
<1>8. ASSUME NEW r \in Runners, SetRunning(r) \/ ReadBackFault(r)
      PROVE  TypeOK'
    <2>1. task' \in [Tasks -> TaskRow]
        <3>1. [task EXCEPT ![loop[r].task].status = "running",
                           ![loop[r].task].lockedBy = r] \in [Tasks -> TaskRow]
            <4>1. ASSUME NEW t \in Tasks
                  PROVE  [task[t] EXCEPT !.status = "running", !.lockedBy = r]
                                \in TaskRow
                BY DEF TypeOK, TaskRow, Status
            <4> QED BY <4>1 DEF TypeOK
        <3> QED
            BY <1>8, <3>1 DEF TypeOK, SetRunning, ReadBackFault
    <2>2. loop' \in [Runners -> LoopState]
        <3>1. [loop EXCEPT ![r].pc = "claimRelease"] \in [Runners -> LoopState]
            <4>1. "claimRelease" \in Pc
                BY DEF Pc
            <4> QED BY <4>1, LoopMoveTyped
        <3>2. [loop EXCEPT ![r] = Idle(loop[r].ctx)] \in [Runners -> LoopState]
            BY <1>a, IdleTyped DEF TypeOK
        <3>3. \/ loop' = [loop EXCEPT ![r].pc = "claimRelease"]
              \/ loop' = [loop EXCEPT ![r] = Idle(loop[r].ctx)]
            BY <1>8 DEF SetRunning, ReadBackFault
        <3> QED BY <3>1, <3>2, <3>3
    <2>3. handler' \in [Runners -> [Tasks -> HState]]
        <3>1. \A x \in {"stopping", "live"} :
                [handler EXCEPT ![r][loop[r].task] = x] \in [Runners -> [Tasks -> HState]]
            BY <1>a DEF TypeOK, HState
        <3> QED
            BY <1>8, <3>1 DEF TypeOK, SetRunning, ReadBackFault, Dispatch
    <2> QED
        BY <1>8, <1>f, <2>1, <2>2, <2>3 DEF TypeOK, SetRunning, ReadBackFault
<1>9. ASSUME NEW r \in Runners, Stop(r) \/ Crash(r)
      PROVE  TypeOK'
    <2>1. handler' \in [Runners -> [Tasks -> HState]]
        BY <1>9 DEF TypeOK, Stop, Crash, HState
    <2>2. loop' \in [Runners -> LoopState]
        <3>1. CASE Stop(r)
            <4>1. [loop[r] EXCEPT !.ctx = "cancelled"] \in LoopState
                BY <1>a DEF LoopState
            <4>2. loop' = [loop EXCEPT ![r].ctx = "cancelled"]
                BY <3>1 DEF Stop
            <4> QED BY <4>1, <4>2 DEF TypeOK
        <3>2. CASE Crash(r)
            BY <3>2, IdleTyped DEF TypeOK, Crash
        <3> QED BY <1>9, <3>1, <3>2
    <2> QED
        BY <1>9, <2>1, <2>2 DEF TypeOK, Stop, Crash
<1>10. ASSUME NEW r \in Runners, NEW t \in Tasks,
              \/ HeartbeatLost(r, t) \/ UpdateStateLost(r, t)
              \/ FinishRelease(r, t)
              \/ HeartbeatFault(r, t) \/ HandlerFault(r, t)
       PROVE  TypeOK'
    <2>1. handler' \in [Runners -> [Tasks -> HState]]
        <3>1. \A x \in {"lost", "done"} :
                [handler EXCEPT ![r][t] = x] \in [Runners -> [Tasks -> HState]]
            BY DEF TypeOK, HState
        <3>2. \E x \in {"lost", "done"} : handler' = [handler EXCEPT ![r][t] = x]
            BY <1>10 DEF HeartbeatLost, UpdateStateLost, FinishRelease,
                         HeartbeatFault, HandlerFault
        <3> QED BY <3>1, <3>2
    <2>2. lock' \in LockRow
        BY <1>10, IdleTyped DEF TypeOK, HeartbeatLost, UpdateStateLost,
                     FinishRelease, HeartbeatFault, HandlerFault, ReleaseLock
    <2> QED
        BY <1>10, <1>f, <2>1, <2>2 DEF TypeOK, HeartbeatLost, UpdateStateLost,
                     FinishRelease, HeartbeatFault, HandlerFault
<1>11. ASSUME NEW r \in Runners, NEW t \in Tasks, NEW s \in Terminal,
              Finish(r, t, s)
       PROVE  TypeOK'
    <2>1. handler' \in [Runners -> [Tasks -> HState]]
        <3>1. /\ [handler EXCEPT ![r][t] = "releasing"] \in [Runners -> [Tasks -> HState]]
              /\ [handler EXCEPT ![r][t] = "done"] \in [Runners -> [Tasks -> HState]]
            BY DEF TypeOK, HState
        <3> QED
            BY <1>11, <3>1 DEF Finish
    <2>2. task' \in [Tasks -> TaskRow]
        <3>1. [task EXCEPT ![t].status = s, ![t].activeKey = "null"]
                    \in [Tasks -> TaskRow]
            BY DEF TypeOK, Terminal, TaskRow, Status
        <3> QED
            BY <1>11, <3>1 DEF TypeOK, Finish
    <2> QED
        BY <1>11, <2>1, <2>2 DEF TypeOK, Finish
<1>12. CASE Enqueue
    BY <1>5, <1>12 DEF TypeOK, Enqueue
<1>13. CASE LeaseExpire
    BY <1>13 DEF TypeOK, LeaseExpire, LockRow
<1>14. ASSUME NEW r \in Runners, LoopFault(r)
       PROVE  TypeOK'
    <2>1. \A p \in Pc : [loop EXCEPT ![r].pc = p] \in [Runners -> LoopState]
        BY <1>a, LoopMoveTyped
    <2>2. "lockRead" \in Pc /\ "claimRelease" \in Pc
        BY DEF Pc
    <2>3. loop' \in [Runners -> LoopState]
        BY <1>14, <1>a, <2>1, <2>2, IdleTyped DEF TypeOK, LoopFault
    <2> QED
        BY <1>14, <1>f, <2>3 DEF TypeOK, LoopFault
<1> QED
    BY <1>1, <1>2, <1>3, <1>4, <1>6, <1>7, <1>8, <1>9, <1>10, <1>11,
       <1>12, <1>13, <1>14, NextCases

(* Type correctness of every reachable state of the task table, the lock row, *)
(* the runner loops and the handlers.                                        *)
THEOREM Typing == Spec => []TypeOK
<1>1. Init => TypeOK
    <2>1. NoRow \in TaskRow
        BY DEF NoRow, TaskRow, Status
    <2>2. "none" \in HState /\ 0 \in 0..MaxFaults
        BY MaxFaultsAssumption DEF HState
    <2> QED
        BY <2>1, <2>2, IdleTyped DEF Init, TypeOK
<1> QED
    BY <1>1, TypeStep, PTL DEF Spec

-----------------------------------------------------------------------------
(* The life of a row.                                                       *)

RowMove(t) ==
    \/ task'[t] = task[t]
    \/ task[t].status = "none" /\ task'[t].status = "pending"
    \/ task[t].status = "pending" /\ task'[t].status = "running"
    \/ /\ task[t].status = "running" /\ task'[t].status \in Terminal
       /\ task'[t].lockedBy = task[t].lockedBy

(* Whatever the interleaving, a row only moves none -> pending -> running -> *)
(* terminal, and its owner is written once, by the claim.                   *)
LEMMA RowMoves ==
    ASSUME TypeOK, [Next]_vars, NEW t \in Tasks
    PROVE  RowMove(t)
<1>1. CASE UNCHANGED task
    BY <1>1 DEF RowMove
<1>2. ASSUME NEW r \in Runners, ExpireMark(r) \/ MarkOld(r)
      PROVE  RowMove(t)
    <2>1. loop[r].old \in 0..MaxTasks
        BY DEF TypeOK, LoopState
    <2>2. task' = MarkLeaseExpired(task, loop[r].old)
        BY <1>2 DEF ExpireMark, MarkOld
    <2> QED
        BY <2>1, <2>2, MarkLeaseExpiredRows DEF RowMove, Terminal
<1>3. CASE InsertPending
    BY <1>3 DEF InsertPending, TypeOK, RowMove
<1>4. ASSUME NEW r \in Runners, SetRunning(r) \/ ReadBackFault(r)
      PROVE  RowMove(t)
    BY <1>4 DEF SetRunning, ReadBackFault, TypeOK, TaskRow, RowMove
<1>5. ASSUME NEW r \in Runners, NEW u \in Tasks, NEW s \in Terminal, Finish(r, u, s)
      PROVE  RowMove(t)
    BY <1>5 DEF Finish, TypeOK, TaskRow, RowMove
<1>6. ASSUME NEW r \in Runners,
             \/ ExpireRead(r) \/ ExpireDelete(r) \/ SchedulerCheck(r)
             \/ ClaimBegin(r) \/ LockCreate(r) \/ LockRead(r) \/ LockSteal(r)
             \/ ClaimRelease(r) \/ Stop(r) \/ Crash(r) \/ LoopFault(r)
      PROVE  UNCHANGED task
    BY <1>6 DEF ExpireRead, ExpireDelete, SchedulerCheck, ClaimBegin, LockCreate,
                LockRead, LockSteal, ClaimRelease, Stop, Crash, LoopFault
<1>7. ASSUME NEW r \in Runners, NEW u \in Tasks,
             \/ HeartbeatLost(r, u) \/ UpdateStateLost(r, u)
             \/ FinishRelease(r, u)
             \/ HeartbeatFault(r, u) \/ HandlerFault(r, u)
      PROVE  UNCHANGED task
    BY <1>7 DEF HeartbeatLost, UpdateStateLost, FinishRelease, HeartbeatFault,
                HandlerFault
<1>8. ASSUME NEW r \in Runners, SchedulerCreate(r)
      PROVE  InsertPending \/ UNCHANGED task
    BY <1>8 DEF SchedulerCreate
<1>9. Enqueue => InsertPending
    BY DEF Enqueue
<1>10. LeaseExpire \/ UNCHANGED vars => UNCHANGED task
    BY DEF LeaseExpire, vars
<1> QED
    BY <1>1, <1>2, <1>3, <1>4, <1>5, <1>6, <1>7, <1>8, <1>9, <1>10, NextCases

(* A row that succeeded or failed keeps that status for ever: neither a      *)
(* runner that lost its lease nor the stale-lock cleanup rewrites it.        *)
THEOREM TerminalStatusIsFinal == Spec => TerminalIsFinal
<1>1. ASSUME TypeOK, [Next]_vars
      PROVE  [\A t \in Tasks : task[t].status \in Terminal
                               => task'[t].status = task[t].status]_vars
    BY <1>1, RowMoves DEF RowMove, Terminal
<1> QED
    BY <1>1, Typing, PTL DEF Spec, TerminalIsFinal

-----------------------------------------------------------------------------
(* Single dispatch.                                                         *)

(* What a handler that was ever started for t says of row t: it was claimed  *)
(* by that runner and by no other since.                                     *)
HandlerOwnsRow ==
    \A r \in Runners, t \in Tasks :
        handler[r][t] # "none" =>
            /\ task[t].status \in {"running"} \cup Terminal
            /\ task[t].lockedBy = r

(* A handler is started only by the statement that turns its row from        *)
(* pending to running in its own name.                                       *)
LEMMA HandlerStarts ==
    ASSUME TypeOK, [Next]_vars, NEW r \in Runners, NEW t \in Tasks,
           handler[r][t] = "none", handler'[r][t] # "none"
    PROVE  /\ task'[t].status = "running"
           /\ task'[t].lockedBy = r
<1>1. ASSUME NEW q \in Runners,
             \/ ExpireRead(q) \/ ExpireMark(q) \/ ExpireDelete(q)
             \/ SchedulerCheck(q) \/ SchedulerCreate(q)
             \/ ClaimBegin(q) \/ LockCreate(q) \/ LockRead(q)
             \/ LockSteal(q) \/ MarkOld(q) \/ ClaimRelease(q)
             \/ LoopFault(q) \/ ReadBackFault(q)
      PROVE  FALSE
    BY <1>1 DEF ExpireRead, ExpireMark, ExpireDelete, SchedulerCheck,
                SchedulerCreate, ClaimBegin, LockCreate, LockRead, LockSteal,
                MarkOld, ClaimRelease, LoopFault, ReadBackFault
<1>2. ASSUME NEW q \in Runners, Stop(q) \/ Crash(q)
      PROVE  FALSE
    BY <1>2 DEF Stop, Crash, TypeOK
<1>3. ASSUME NEW q \in Runners, NEW u \in Tasks,
             \/ HeartbeatLost(q, u) \/ UpdateStateLost(q, u)
             \/ FinishRelease(q, u)
             \/ HeartbeatFault(q, u) \/ HandlerFault(q, u)
             \/ \E s \in Terminal : Finish(q, u, s)
      PROVE  FALSE
    <2>1. handler[q][u] # "none"
        BY <1>3 DEF HeartbeatLost, UpdateStateLost, FinishRelease,
                    HeartbeatFault, HandlerFault, Finish, Executing
    <2>2. \E x \in HState : handler' = [handler EXCEPT ![q][u] = x]
        BY <1>3 DEF HeartbeatLost, UpdateStateLost, FinishRelease,
                    HeartbeatFault, HandlerFault, Finish, HState
    <2> QED
        BY <2>1, <2>2 DEF TypeOK
<1>4. ASSUME NEW q \in Runners, SetRunning(q)
      PROVE  task'[t].status = "running" /\ task'[t].lockedBy = r
    <2>1. q = r /\ loop[q].task = t /\ task[t].status = "pending"
        BY <1>4 DEF SetRunning, Dispatch, TypeOK
    <2> QED
        BY <1>4, <2>1 DEF SetRunning, TypeOK, TaskRow
<1>5. ~(Enqueue \/ LeaseExpire \/ UNCHANGED vars)
    BY DEF Enqueue, LeaseExpire, vars
<1> QED
    BY <1>1, <1>2, <1>3, <1>4, <1>5, NextCases

LEMMA OwnsRowStep ==
    ASSUME TypeOK, TypeOK', HandlerOwnsRow, [Next]_vars
    PROVE  HandlerOwnsRow'
<1> SUFFICES ASSUME NEW r \in Runners, NEW t \in Tasks, handler'[r][t] # "none"
             PROVE  /\ task'[t].status \in {"running"} \cup Terminal
                    /\ task'[t].lockedBy = r
    BY DEF HandlerOwnsRow
<1>1. CASE handler[r][t] = "none"
    BY <1>1, HandlerStarts
<1>2. CASE handler[r][t] # "none"
    <2>1. /\ task[t].status \in {"running"} \cup Terminal
          /\ task[t].lockedBy = r
        BY <1>2 DEF HandlerOwnsRow
    <2>2. RowMove(t)
        BY RowMoves
    <2> QED
        BY <2>1, <2>2 DEF RowMove, Terminal
<1> QED
    BY <1>1, <1>2

(* No task is ever handed to the handlers of two runners, for any number of  *)
(* runners, rows, expired leases and failing statements: the guarded status  *)
(* update of ClaimSystemTask, not the lease, makes the claim exclusive.      *)
THEOREM SingleDispatch == Spec => []DispatchedOnce
<1>1. Init => HandlerOwnsRow
    BY DEF Init, HandlerOwnsRow
<1>2. TypeOK /\ TypeOK' /\ HandlerOwnsRow /\ [Next]_vars => HandlerOwnsRow'
    BY OwnsRowStep
<1>3. HandlerOwnsRow => DispatchedOnce
    BY DEF HandlerOwnsRow, DispatchedOnce
<1> QED
    BY <1>1, <1>2, <1>3, Typing, PTL DEF Spec

-----------------------------------------------------------------------------
(* The lease, when no claimer stalls for longer than it.                    *)

(* A step of the loop of r touches the locals of no other loop, except that *)
(* a granted lease makes every remembered expiry out of date.               *)
OthersKeepLocals(r) ==
    \A q \in Runners \ {r} :
        /\ loop'[q].pc = loop[q].pc
        /\ loop'[q].task = loop[q].task
        /\ loop'[q].old = loop[q].old
        /\ loop'[q].seen \in {loop[q].seen, "fresh"}

LEMMA LeaseLockTaken ==
    ASSUME TypeOK, LeaseInv, HandlerOwnsRow, NEW r \in Runners,
           LockCreate(r) \/ LockSteal(r)
    PROVE  LeaseInv'
<1> DEFINE t == loop[r].task
<1>a. /\ t \in Tasks
      /\ task[t].status # "none"
      /\ loop[r].seen = "stale" => task[t].status = "pending"
      /\ \A u \in Tasks : u = t => handler[r][u] = "none"
    BY DEF LeaseInv, StealerSawPending, ClaimerNotStarted, LockCreate, LockSteal
<1>u. UNCHANGED <<task, handler>>
    BY DEF LockCreate, LockSteal
<1>1. ASSUME lock' = [task |-> t, by |-> r, lease |-> "valid"],
             NEW p \in {"setRunning", "markOld"}, loop' = Grant(r, p),
             \A q \in Runners : loop[q].pc \notin {"markOld", "setRunning"},
             \A u \in Tasks : task[u].status # "running"
      PROVE  LeaseInv'
    <2>1. /\ \A q \in Runners : loop'[q].task = loop[q].task /\ loop'[q].seen = "fresh"
          /\ \A q \in Runners \ {r} : loop'[q].pc = loop[q].pc
          /\ loop'[r].pc = p
        BY <1>1 DEF Grant, TypeOK, LoopState
    <2>2. RunningHasLock' /\ ActiveKeyMeansActive' /\ OneActive' /\ StaleIsOver'
        BY <1>1, <1>u, <2>1 DEF LeaseInv, RunningHasLock, ActiveKeyMeansActive,
                                OneActive, StaleIsOver
    <2>3. ClaimerHoldsLease'
        BY <1>1, <1>u, <1>a, <2>1 DEF ClaimerHoldsLease, LeaseHeld
    <2>4. StealerSawPending' /\ DeleterFailedRow'
        BY <1>1, <1>u, <2>1 DEF LeaseInv, StealerSawPending, DeleterFailedRow
    <2>5. ReleaserIsDone' /\ ClaimerNotStarted'
        BY <1>1, <1>u, <1>a, <2>1 DEF LeaseInv, ReleaserIsDone, ClaimerNotStarted
    <2> QED
        BY <2>2, <2>3, <2>4, <2>5 DEF LeaseInv
<1>2. ASSUME lock' = lock, loop'[r].pc \in {"lockRead", "idle"},
             loop'[r].pc = "lockRead" => loop'[r].task = t /\ loop[r].pc = "lockCreate",
             loop'[r].seen \in {loop[r].seen, "fresh"}, OthersKeepLocals(r)
      PROVE  LeaseInv'
    <2>2. RunningHasLock' /\ ActiveKeyMeansActive' /\ OneActive' /\ StaleIsOver'
        BY <1>2, <1>u DEF OthersKeepLocals, LeaseInv, RunningHasLock,
                          ActiveKeyMeansActive, OneActive, StaleIsOver
    <2>3. ClaimerHoldsLease'
        BY <1>2, <1>u DEF OthersKeepLocals, LeaseInv, ClaimerHoldsLease, LeaseHeld
    <2>4. StealerSawPending' /\ DeleterFailedRow'
        BY <1>2, <1>u, <1>a DEF OthersKeepLocals, LeaseInv, StealerSawPending,
                                DeleterFailedRow
    <2>5. ReleaserIsDone' /\ ClaimerNotStarted'
        BY <1>2, <1>u, <1>a DEF OthersKeepLocals, LeaseInv, ReleaserIsDone,
                                ClaimerNotStarted
    <2> QED
        BY <2>2, <2>3, <2>4, <2>5 DEF LeaseInv
<1>3. CASE LockCreate(r) /\ lock.task = 0
    <2>1. \A q \in Runners : loop[q].pc \notin {"markOld", "setRunning"}
        BY <1>3, MaxTasksAssumption DEF LeaseInv, ClaimerHoldsLease, LeaseHeld, Tasks
    <2>2. \A u \in Tasks : task[u].status # "running"
        BY <1>3, MaxTasksAssumption DEF LeaseInv, RunningHasLock, Tasks
    <2> QED
        BY <1>1, <1>3, <2>1, <2>2 DEF LockCreate
<1>4. CASE LockSteal(r) /\ lock.task # 0 /\ loop[r].seen = "stale"
    <2>1. \A q \in Runners : loop[q].pc \notin {"markOld", "setRunning"}
        BY <1>4 DEF LeaseInv, ClaimerHoldsLease, LeaseHeld, StaleIsOver
    <2>2. \A u \in Tasks : task[u].status # "running"
        BY <1>4, <1>a DEF LeaseInv, ActiveKeyMeansActive, OneActive
    <2> QED
        BY <1>1, <1>4, <2>1, <2>2 DEF LockSteal
<1>5. CASE LockCreate(r) /\ lock.task # 0
    BY <1>2, <1>5 DEF LockCreate, OthersKeepLocals, TypeOK, LoopState
<1>6. CASE LockSteal(r) /\ ~(lock.task # 0 /\ loop[r].seen = "stale")
    BY <1>2, <1>6 DEF LockSteal, OthersKeepLocals, Idle, TypeOK, LoopState
<1> QED
    BY <1>3, <1>4, <1>5, <1>6

(* Steps that move one loop and touch neither table.                        *)
LEMMA LeaseLoopMove ==
    ASSUME TypeOK, LeaseInv, NEW r \in Runners,
           UNCHANGED <<task, lock>>, OthersKeepLocals(r),
           \A q \in Runners, u \in Tasks :
              /\ handler[q][u] = "none" => handler'[q][u] = "none"
              /\ handler'[q][u] = "releasing" => handler[q][u] = "releasing",
           loop'[r].seen = "stale" => lock.lease # "valid",
           loop'[r].pc \notin {"markOld", "setRunning", "expDelete"},
           loop'[r].pc \in {"lockCreate", "lockRead", "lockSteal"} =>
              /\ loop'[r].task \in Tasks
              /\ task[loop'[r].task].status # "none"
              /\ loop'[r].seen = "stale" => task[loop'[r].task].status = "pending"
              /\ handler[r][loop'[r].task] = "none",
           loop'[r].pc = "claimRelease" =>
              \A t \in Tasks : t = loop'[r].task => task[t].status # "running"
    PROVE  LeaseInv'
<1>1. RunningHasLock' /\ ActiveKeyMeansActive' /\ OneActive' /\ StaleIsOver'
    BY DEF OthersKeepLocals, LeaseInv, RunningHasLock, ActiveKeyMeansActive,
           OneActive, StaleIsOver
<1>2. ClaimerHoldsLease'
    BY DEF OthersKeepLocals, LeaseInv, ClaimerHoldsLease, LeaseHeld
<1>3. StealerSawPending'
    BY DEF OthersKeepLocals, LeaseInv, StealerSawPending
<1>4. DeleterFailedRow'
    BY DEF OthersKeepLocals, LeaseInv, DeleterFailedRow
<1>5. ReleaserIsDone'
    BY DEF OthersKeepLocals, LeaseInv, ReleaserIsDone
<1>6. ClaimerNotStarted'
    BY DEF OthersKeepLocals, LeaseInv, ClaimerNotStarted
<1> QED
    BY <1>1, <1>2, <1>3, <1>4, <1>5, <1>6 DEF LeaseInv

LEMMA LeaseLoopOnly ==
    ASSUME TypeOK, LeaseInv, HandlerOwnsRow, NEW r \in Runners,
           \/ ExpireRead(r) \/ SchedulerCheck(r) \/ ClaimBegin(r)
           \/ LockRead(r) \/ LoopFault(r) \/ Crash(r)
    PROVE  LeaseInv'
<1>1. CASE ExpireRead(r)
    <2>1. loop'[r].pc = "expMark" /\ lock.lease = "expired"
        BY <1>1 DEF ExpireRead, TypeOK, LoopState
    <2>2. OthersKeepLocals(r)
        BY <1>1 DEF ExpireRead, OthersKeepLocals, TypeOK
    <2>3. UNCHANGED <<task, lock, handler>>
        BY <1>1 DEF ExpireRead
    <2> QED
        BY <2>1, <2>2, <2>3, LeaseLoopMove
<1>2. CASE SchedulerCheck(r)
    <2>1. loop'[r].seen = loop[r].seen /\ loop'[r].pc = "create"
        BY <1>2 DEF SchedulerCheck, TypeOK, LoopState
    <2>2. OthersKeepLocals(r)
        BY <1>2 DEF SchedulerCheck, OthersKeepLocals, TypeOK
    <2> QED
        BY <1>2, <2>1, <2>2, LeaseLoopMove DEF SchedulerCheck, LeaseInv, StaleIsOver
<1>3. CASE ClaimBegin(r)
    <2>1. PICK t \in Tasks :
            /\ task[t].status = "pending"
            /\ loop' = [loop EXCEPT ![r].pc = "lockCreate", ![r].task = t,
                          ![r].seen = IF lock.lease = "expired" THEN "stale"
                                      ELSE "fresh"]
        BY <1>3 DEF ClaimBegin
    <2>2. handler[r][t] = "none"
        BY <2>1 DEF HandlerOwnsRow, Terminal
    <2>3. /\ loop'[r].pc = "lockCreate" /\ loop'[r].task = t
          /\ loop'[r].seen = "stale" => lock.lease = "expired"
        BY <2>1 DEF TypeOK, LoopState
    <2>4. OthersKeepLocals(r)
        BY <2>1 DEF OthersKeepLocals, TypeOK
    <2> QED
        BY <1>3, <2>1, <2>2, <2>3, <2>4, LeaseLoopMove DEF ClaimBegin
<1>4. CASE LockRead(r)
    <2>1. CASE lock.task # 0 /\ loop[r].seen = "stale"
        <3>1. /\ loop'[r].pc = "lockSteal" /\ loop'[r].task = loop[r].task
              /\ loop'[r].seen = loop[r].seen
            BY <1>4, <2>1 DEF LockRead, TypeOK, LoopState
        <3>2. OthersKeepLocals(r)
            BY <1>4, <2>1 DEF LockRead, OthersKeepLocals, TypeOK
        <3>3. UNCHANGED <<task, lock, handler>> /\ loop[r].pc = "lockRead"
            BY <1>4 DEF LockRead
        <3>4. lock.lease # "valid"
            BY <2>1 DEF LeaseInv, StaleIsOver
        <3>5. /\ loop[r].task \in Tasks
              /\ task[loop[r].task].status = "pending"
              /\ handler[r][loop[r].task] = "none"
            BY <2>1, <3>3 DEF LeaseInv, StealerSawPending, ClaimerNotStarted
        <3> QED
            BY <3>1, <3>2, <3>3, <3>4, <3>5, LeaseLoopMove
    <2>2. CASE ~(lock.task # 0 /\ loop[r].seen = "stale")
        BY <1>4, <2>2, LeaseLoopMove DEF LockRead, OthersKeepLocals, Idle, TypeOK
    <2> QED BY <2>1, <2>2
<1>5. CASE LoopFault(r)
    <2>1. /\ OthersKeepLocals(r)
          /\ \/ /\ loop[r].pc = "lockCreate" /\ loop'[r].pc = "lockRead"
                /\ loop'[r].task = loop[r].task /\ loop'[r].seen = loop[r].seen
             \/ /\ loop[r].pc \in {"markOld", "setRunning"}
                /\ loop'[r].pc = "claimRelease"
                /\ loop'[r].task = loop[r].task /\ loop'[r].seen = loop[r].seen
             \/ loop'[r].pc = "idle" /\ loop'[r].seen = "fresh"
        BY <1>5 DEF LoopFault, OthersKeepLocals, Idle, TypeOK, LoopState
    <2>2. CASE loop[r].pc = "lockCreate" /\ loop'[r].pc = "lockRead"
        BY <1>5, <2>1, <2>2, LeaseLoopMove
        DEF LoopFault, LeaseInv, StaleIsOver, StealerSawPending, ClaimerNotStarted
    <2>3. CASE loop[r].pc \in {"markOld", "setRunning"} /\ loop'[r].pc = "claimRelease"
        BY <1>5, <2>1, <2>3, LeaseLoopMove
        DEF LoopFault, LeaseInv, StaleIsOver, ClaimerHoldsLease
    <2>4. CASE loop'[r].pc = "idle" /\ loop'[r].seen = "fresh"
        BY <1>5, <2>1, <2>4, LeaseLoopMove DEF LoopFault
    <2> QED BY <2>1, <2>2, <2>3, <2>4
<1>6. CASE Crash(r)
    <2>1. OthersKeepLocals(r) /\ loop'[r].pc = "dead" /\ loop'[r].seen = "fresh"
        BY <1>6 DEF Crash, OthersKeepLocals, Idle, TypeOK
    <2>2. \A q \in Runners, u \in Tasks :
              /\ handler[q][u] = "none" => handler'[q][u] = "none"
              /\ handler'[q][u] = "releasing" => handler[q][u] = "releasing"
        BY <1>6 DEF Crash, TypeOK
    <2> QED
        BY <1>6, <2>1, <2>2, LeaseLoopMove DEF Crash
<1> QED
    BY <1>1, <1>2, <1>3, <1>4, <1>5, <1>6

(* Steps that fail a row: only a running one, so no claim is disturbed.      *)
LEMMA LeaseRowFailed ==
    ASSUME TypeOK, LeaseInv, NEW r \in Runners, ExpireMark(r) \/ MarkOld(r)
    PROVE  LeaseInv'
<1>1. loop[r].old \in 0..MaxTasks
    BY DEF TypeOK, LoopState
<1>2. task' = MarkLeaseExpired(task, loop[r].old)
    BY DEF ExpireMark, MarkOld
<1>3. \A t \in Tasks :
        \/ task'[t] = task[t] /\ (t = loop[r].old => task[t].status # "running")
        \/ /\ task[t].status = "running"
           /\ task'[t].status = "failed" /\ task'[t].activeKey = "null"
    BY <1>1, <1>2, MarkLeaseExpiredRows
<1>4. /\ OthersKeepLocals(r)
      /\ loop'[r].task = loop[r].task /\ loop'[r].seen = loop[r].seen
      /\ loop'[r].old = loop[r].old
      /\ \/ loop[r].pc = "expMark" /\ loop'[r].pc = "expDelete"
         \/ loop[r].pc = "markOld" /\ loop'[r].pc = "setRunning"
    BY DEF ExpireMark, MarkOld, OthersKeepLocals, TypeOK, LoopState
<1>5. UNCHANGED <<lock, handler>>
    BY DEF ExpireMark, MarkOld
<1>6. RunningHasLock' /\ ActiveKeyMeansActive' /\ OneActive'
    BY <1>3, <1>5 DEF LeaseInv, RunningHasLock, ActiveKeyMeansActive, OneActive
<1>7. StaleIsOver'
    BY <1>4, <1>5 DEF OthersKeepLocals, LeaseInv, StaleIsOver
<1>8. ClaimerHoldsLease'
    BY <1>3, <1>4, <1>5 DEF OthersKeepLocals, LeaseInv, ClaimerHoldsLease, LeaseHeld
<1>9. StealerSawPending'
    BY <1>3, <1>4, <1>5 DEF OthersKeepLocals, LeaseInv, StealerSawPending
<1>10. DeleterFailedRow'
    BY <1>3, <1>4, <1>5 DEF OthersKeepLocals, LeaseInv, DeleterFailedRow
<1>11. ReleaserIsDone'
    BY <1>3, <1>4, <1>5 DEF OthersKeepLocals, LeaseInv, ReleaserIsDone, Terminal
<1>12. ClaimerNotStarted'
    BY <1>4, <1>5 DEF OthersKeepLocals, LeaseInv, ClaimerNotStarted
<1> QED
    BY <1>6, <1>7, <1>8, <1>9, <1>10, <1>11, <1>12 DEF LeaseInv

(* A claim that succeeds: its lease is valid, so nobody remembers an expiry, *)
(* nobody else is claiming and nobody is about to delete the lock.           *)
LEMMA LeaseRowRuns ==
    ASSUME TypeOK, LeaseInv, HandlerOwnsRow, NEW r \in Runners,
           SetRunning(r) \/ ReadBackFault(r)
    PROVE  LeaseInv'
<1> DEFINE t == loop[r].task
<1>1. /\ loop[r].pc = "setRunning"
      /\ lock.task = t /\ lock.by = r /\ lock.lease = "valid" /\ t \in Tasks
      /\ task[t].status \notin {"none", "running"}
      /\ handler[r][t] = "none"
    BY DEF SetRunning, ReadBackFault, LeaseInv, ClaimerHoldsLease, LeaseHeld,
           ClaimerNotStarted
<1>2. UNCHANGED lock
    BY DEF SetRunning, ReadBackFault
<1>3. \A q \in Runners :
        /\ loop[q].seen # "stale"
        /\ loop[q].pc \in {"markOld", "setRunning"} => q = r
    BY <1>1 DEF LeaseInv, StaleIsOver, ClaimerHoldsLease, LeaseHeld
<1>4. CASE task[t].status # "pending"
    <2>1. /\ loop' = [loop EXCEPT ![r].pc = "claimRelease"]
          /\ UNCHANGED <<task, handler>>
        BY <1>4 DEF SetRunning, ReadBackFault
    <2>2. /\ OthersKeepLocals(r)
          /\ loop'[r].task = t /\ loop'[r].seen = loop[r].seen
          /\ loop'[r].pc = "claimRelease"
        BY <2>1 DEF OthersKeepLocals, TypeOK, LoopState
    <2> QED
        BY <1>1, <1>2, <1>3, <2>1, <2>2, LeaseLoopMove
<1>5. CASE task[t].status = "pending"
    <2>1. task' = [task EXCEPT ![t].status = "running", ![t].lockedBy = r]
        BY <1>5 DEF SetRunning, ReadBackFault
    <2>2. /\ \A u \in Tasks \ {t} : task'[u] = task[u]
          /\ task'[t].status = "running"
          /\ task'[t].activeKey = task[t].activeKey
        BY <1>1, <2>1 DEF TypeOK, TaskRow
    <2>3. OthersKeepLocals(r) /\ loop'[r].pc = "idle" /\ loop'[r].seen = "fresh"
        BY <1>5 DEF SetRunning, ReadBackFault, OthersKeepLocals, Idle, TypeOK
    <2>4. \A q \in Runners, u \in Tasks :
            /\ q # r => handler'[q][u] = handler[q][u]
            /\ handler'[r][u] \in {handler[r][u], "stopping", "live"}
        BY <1>1, <1>5 DEF SetRunning, ReadBackFault, Dispatch, TypeOK
    <2>5. RunningHasLock' /\ ActiveKeyMeansActive' /\ OneActive'
        BY <1>1, <1>2, <1>5, <2>2
        DEF LeaseInv, RunningHasLock, ActiveKeyMeansActive, OneActive
    <2>6. StaleIsOver' /\ ClaimerHoldsLease' /\ DeleterFailedRow'
        BY <1>3, <2>3 DEF OthersKeepLocals, StaleIsOver, ClaimerHoldsLease,
                          DeleterFailedRow
    <2>7. StealerSawPending'
        BY <1>1, <1>3, <2>2, <2>3 DEF OthersKeepLocals, LeaseInv, StealerSawPending
    <2>8. ReleaserIsDone'
        <3>1. \A q \in Runners : ~(loop'[q].pc = "claimRelease" /\ lock'.by = q)
            BY <1>1, <1>2, <2>3 DEF OthersKeepLocals
        <3>2. ASSUME NEW q \in Runners, NEW u \in Tasks, handler'[q][u] = "releasing"
              PROVE  task'[u].status \in Terminal
            <4>1. handler[q][u] = "releasing"
                BY <2>4, <3>2
            <4>2. task[u].status \in Terminal
                BY <4>1 DEF LeaseInv, ReleaserIsDone
            <4> QED
                BY <1>5, <2>2, <4>2 DEF Terminal
        <3> QED
            BY <3>1, <3>2 DEF ReleaserIsDone
    <2>9. ClaimerNotStarted'
        BY <2>3, <2>4 DEF OthersKeepLocals, LeaseInv, ClaimerNotStarted
    <2> QED
        BY <2>5, <2>6, <2>7, <2>8, <2>9 DEF LeaseInv
<1> QED
    BY <1>4, <1>5

(* Steps that may delete the lock row: the row it named is not running.      *)
LEMMA LeaseLockDeleted ==
    ASSUME TypeOK, LeaseInv, NEW r \in Runners,
           \/ ExpireDelete(r) \/ ClaimRelease(r)
           \/ \E t \in Tasks : FinishRelease(r, t)
    PROVE  LeaseInv'
<1>1. UNCHANGED task
    BY DEF ExpireDelete, ClaimRelease, FinishRelease
<1>2. /\ OthersKeepLocals(r)
      /\ \/ loop'[r].pc = "idle" /\ loop'[r].seen = "fresh"
         \/ loop' = loop
    BY DEF ExpireDelete, ClaimRelease, FinishRelease, OthersKeepLocals, Idle, TypeOK
<1>3. \A q \in Runners, u \in Tasks :
        /\ handler[q][u] = "none" => handler'[q][u] = "none"
        /\ handler'[q][u] = "releasing" => handler[q][u] = "releasing"
    BY DEF ExpireDelete, ClaimRelease, FinishRelease, TypeOK
<1>4. lock' = lock \/ (/\ lock' = NoLock
                       /\ \A u \in Tasks : u = lock.task => task[u].status # "running"
                       /\ \A q \in Runners : loop[q].pc \notin {"markOld", "setRunning"})
    <2>1. CASE ExpireDelete(r)
        BY <2>1 DEF ExpireDelete, LeaseInv, DeleterFailedRow, StaleIsOver,
                    ClaimerHoldsLease, LeaseHeld
    <2>2. CASE ClaimRelease(r)
        <3>1. CASE lock.task = loop[r].task /\ lock.by = r
            <4>1. \A q \in Runners : loop[q].pc \notin {"markOld", "setRunning"}
                BY <2>2, <3>1 DEF ClaimRelease, LeaseInv, ClaimerHoldsLease, LeaseHeld
            <4> QED
                BY <2>2, <3>1, <4>1 DEF ClaimRelease, ReleaseLock, LeaseInv,
                                        ReleaserIsDone
        <3>2. CASE ~(lock.task = loop[r].task /\ lock.by = r)
            BY <2>2, <3>2 DEF ClaimRelease, ReleaseLock
        <3> QED BY <3>1, <3>2
    <2>3. ASSUME NEW t \in Tasks, FinishRelease(r, t)
          PROVE  <1>4!:
        <3>1. CASE lock.task = t /\ lock.by = r
            <4>1. task[t].status # "running"
                BY <2>3 DEF FinishRelease, LeaseInv, ReleaserIsDone, Terminal
            <4>2. \A q \in Runners : loop[q].pc \notin {"markOld", "setRunning"}
                BY <2>3, <3>1 DEF FinishRelease, LeaseInv, ClaimerHoldsLease,
                                  LeaseHeld, ClaimerNotStarted
            <4> QED
                BY <2>3, <3>1, <4>1, <4>2 DEF FinishRelease, ReleaseLock
        <3>2. CASE ~(lock.task = t /\ lock.by = r)
            BY <2>3, <3>2 DEF FinishRelease, ReleaseLock
        <3> QED BY <3>1, <3>2
    <2> QED
        BY <2>1, <2>2, <2>3
<1>5. RunningHasLock'
    BY <1>1, <1>4 DEF LeaseInv, RunningHasLock
<1>6. ActiveKeyMeansActive' /\ OneActive'
    BY <1>1 DEF LeaseInv, ActiveKeyMeansActive, OneActive
<1>7. StaleIsOver'
    BY <1>2, <1>4 DEF OthersKeepLocals, LeaseInv, StaleIsOver, NoLock
<1>8. ClaimerHoldsLease'
    BY <1>1, <1>2, <1>4 DEF OthersKeepLocals, LeaseInv, ClaimerHoldsLease, LeaseHeld
<1>9. StealerSawPending' /\ DeleterFailedRow'
    BY <1>1, <1>2 DEF OthersKeepLocals, LeaseInv, StealerSawPending, DeleterFailedRow
<1>10. ReleaserIsDone'
    BY <1>1, <1>2, <1>3, <1>4, RunnersAssumption
    DEF OthersKeepLocals, LeaseInv, ReleaserIsDone, NoLock
<1>11. ClaimerNotStarted'
    BY <1>2, <1>3 DEF OthersKeepLocals, LeaseInv, ClaimerNotStarted
<1> QED
    BY <1>5, <1>6, <1>7, <1>8, <1>9, <1>10, <1>11 DEF LeaseInv

(* A new pending row: it was free, so no loop or handler knows it.           *)
LEMMA LeaseRowCreated ==
    ASSUME TypeOK, LeaseInv, HandlerOwnsRow, InsertPending,
           UNCHANGED <<lock, handler>>,
           \/ loop' = loop
           \/ \E r \in Runners : /\ OthersKeepLocals(r) /\ loop'[r].pc = "idle"
                                 /\ loop'[r].seen = "fresh"
    PROVE  LeaseInv'
<1>1. PICK t \in Tasks :
        /\ task[t].status = "none"
        /\ task' = [task EXCEPT ![t] = [status |-> "pending", activeKey |-> "type",
                                        lockedBy |-> NoRunner]]
    BY DEF InsertPending
<1>2. /\ \A u \in Tasks \ {t} : task'[u] = task[u]
      /\ task'[t].status = "pending" /\ task'[t].activeKey = "type"
    BY <1>1 DEF TypeOK
<1>3. \A u \in Tasks : task[u].activeKey # "type"
    BY DEF InsertPending, ActiveRowExists
<1>4. RunningHasLock' /\ ActiveKeyMeansActive' /\ OneActive'
    BY <1>2, <1>3 DEF LeaseInv, RunningHasLock, ActiveKeyMeansActive, OneActive
<1>5. StaleIsOver'
    BY DEF OthersKeepLocals, LeaseInv, StaleIsOver
<1>6. ClaimerHoldsLease'
    BY <1>1, <1>2 DEF OthersKeepLocals, LeaseInv, ClaimerHoldsLease, LeaseHeld
<1>7. StealerSawPending'
    BY <1>1, <1>2 DEF OthersKeepLocals, LeaseInv, StealerSawPending
<1>8. DeleterFailedRow'
    BY <1>2 DEF OthersKeepLocals, LeaseInv, DeleterFailedRow
<1>9. ReleaserIsDone'
    BY <1>1, <1>2 DEF OthersKeepLocals, LeaseInv, ReleaserIsDone, Terminal
<1>10. ClaimerNotStarted'
    BY DEF OthersKeepLocals, LeaseInv, ClaimerNotStarted
<1> QED
    BY <1>4, <1>5, <1>6, <1>7, <1>8, <1>9, <1>10 DEF LeaseInv

(* The handler's own steps: it ends, or it writes the terminal status.       *)
LEMMA LeaseHandlerStep ==
    ASSUME TypeOK, LeaseInv, NEW r \in Runners, NEW t \in Tasks,
           \/ HeartbeatLost(r, t) \/ UpdateStateLost(r, t)
           \/ HeartbeatFault(r, t) \/ HandlerFault(r, t)
           \/ \E s \in Terminal : Finish(r, t, s)
    PROVE  LeaseInv'
<1>1. UNCHANGED <<lock, loop>>
    BY DEF HeartbeatLost, UpdateStateLost, HeartbeatFault, HandlerFault, Finish
<1>2. handler[r][t] # "none"
    BY DEF HeartbeatLost, UpdateStateLost, HeartbeatFault, HandlerFault, Finish,
           Executing
<1>3. \E x \in HState : handler' = [handler EXCEPT ![r][t] = x]
    BY DEF HeartbeatLost, UpdateStateLost, HeartbeatFault, HandlerFault, Finish,
           HState
<1>4. \A q \in Runners, u \in Tasks :
        /\ handler[q][u] = "none" => handler'[q][u] = "none"
        /\ q # r \/ u # t => handler'[q][u] = handler[q][u]
    BY <1>2, <1>3 DEF TypeOK
<1>5. /\ \A u \in Tasks : \/ task'[u] = task[u]
                           \/ /\ task[u].status = "running" /\ u = t
                              /\ task'[u].status \in Terminal
                              /\ task'[u].activeKey = "null"
      /\ handler'[r][t] = "releasing" => task'[t].status \in Terminal
    <2>1. CASE \E s \in Terminal : Finish(r, t, s)
        BY <2>1 DEF Finish, TypeOK, TaskRow
    <2>2. CASE \/ HeartbeatLost(r, t) \/ UpdateStateLost(r, t)
               \/ HeartbeatFault(r, t) \/ HandlerFault(r, t)
        BY <2>2 DEF HeartbeatLost, UpdateStateLost, HeartbeatFault, HandlerFault,
                    TypeOK
    <2> QED BY <2>1, <2>2
<1>6. RunningHasLock' /\ ActiveKeyMeansActive' /\ OneActive'
    BY <1>1, <1>5 DEF LeaseInv, RunningHasLock, ActiveKeyMeansActive, OneActive,
                      Terminal
<1>7. StaleIsOver' /\ ClaimerHoldsLease'
    BY <1>1, <1>5 DEF LeaseInv, StaleIsOver, ClaimerHoldsLease, LeaseHeld, Terminal
<1>8. StealerSawPending' /\ DeleterFailedRow'
    BY <1>1, <1>5 DEF LeaseInv, StealerSawPending, DeleterFailedRow, Terminal
<1>9. ReleaserIsDone'
    BY <1>1, <1>4, <1>5 DEF LeaseInv, ReleaserIsDone, Terminal
<1>10. ClaimerNotStarted'
    BY <1>1, <1>4 DEF LeaseInv, ClaimerNotStarted
<1> QED
    BY <1>6, <1>7, <1>8, <1>9, <1>10 DEF LeaseInv

LEMMA LeaseStep ==
    ASSUME ~ClaimStall, TypeOK, HandlerOwnsRow, LeaseInv, [Next]_vars
    PROVE  LeaseInv'
<1>1. CASE UNCHANGED vars
    BY <1>1 DEF vars, LeaseInv, RunningHasLock, ActiveKeyMeansActive, OneActive,
                ClaimerHoldsLease, LeaseHeld, StaleIsOver, StealerSawPending,
                DeleterFailedRow, ReleaserIsDone, ClaimerNotStarted
<1>2. ASSUME NEW r \in Runners, SchedulerCreate(r)
      PROVE  LeaseInv'
    <2>1. /\ OthersKeepLocals(r) /\ loop'[r].pc = "idle" /\ loop'[r].seen = "fresh"
          /\ UNCHANGED <<lock, handler>>
        BY <1>2 DEF SchedulerCreate, OthersKeepLocals, Idle, TypeOK
    <2>2. CASE InsertPending
        BY <2>1, <2>2, LeaseRowCreated
    <2>3. CASE UNCHANGED task
        BY <2>1, <2>3, LeaseLoopMove
    <2> QED
        BY <1>2, <2>2, <2>3 DEF SchedulerCreate
<1>3. CASE Enqueue
    BY <1>3, LeaseRowCreated DEF Enqueue
<1>4. ASSUME NEW r \in Runners, Stop(r)
      PROVE  LeaseInv'
    <2>1. /\ UNCHANGED <<task, lock>>
          /\ \A q \in Runners : /\ loop'[q].pc = loop[q].pc
                                /\ loop'[q].task = loop[q].task
                                /\ loop'[q].old = loop[q].old
                                /\ loop'[q].seen = loop[q].seen
        BY <1>4 DEF Stop, TypeOK, LoopState
    <2>2. \A q \in Runners, u \in Tasks :
            /\ handler[q][u] = "none" => handler'[q][u] = "none"
            /\ handler'[q][u] = "releasing" => handler[q][u] = "releasing"
        BY <1>4 DEF Stop, TypeOK
    <2>3. RunningHasLock' /\ ActiveKeyMeansActive' /\ OneActive' /\ StaleIsOver'
        BY <2>1 DEF LeaseInv, RunningHasLock, ActiveKeyMeansActive, OneActive,
                    StaleIsOver
    <2>4. ClaimerHoldsLease' /\ StealerSawPending' /\ DeleterFailedRow'
        BY <2>1 DEF LeaseInv, ClaimerHoldsLease, LeaseHeld, StealerSawPending,
                    DeleterFailedRow
    <2>5. ReleaserIsDone' /\ ClaimerNotStarted'
        BY <2>1, <2>2 DEF LeaseInv, ReleaserIsDone, ClaimerNotStarted
    <2> QED
        BY <2>3, <2>4, <2>5 DEF LeaseInv
<1>5. CASE LeaseExpire
    <2>1. /\ UNCHANGED <<task, loop, handler>>
          /\ lock'.task = lock.task /\ lock'.by = lock.by /\ lock'.lease = "expired"
          /\ \A r \in Runners : ~(loop[r].pc \in {"markOld", "setRunning"} /\ lock.by = r)
        BY <1>5 DEF LeaseExpire, Claiming, TypeOK, LockRow
    <2>2. RunningHasLock' /\ ActiveKeyMeansActive' /\ OneActive' /\ StaleIsOver'
        BY <2>1 DEF LeaseInv, RunningHasLock, ActiveKeyMeansActive, OneActive,
                    StaleIsOver
    <2>3. ClaimerHoldsLease' /\ StealerSawPending' /\ DeleterFailedRow'
        BY <2>1 DEF LeaseInv, ClaimerHoldsLease, LeaseHeld, StealerSawPending,
                    DeleterFailedRow
    <2>4. ReleaserIsDone' /\ ClaimerNotStarted'
        BY <2>1 DEF LeaseInv, ReleaserIsDone, ClaimerNotStarted
    <2> QED
        BY <2>2, <2>3, <2>4 DEF LeaseInv
<1> QED
    BY <1>1, <1>2, <1>3, <1>4, <1>5, NextCases, LeaseLockTaken, LeaseLoopOnly,
       LeaseRowFailed, LeaseRowRuns, LeaseLockDeleted, LeaseHandlerStep

(* If no node pauses for a whole lease between taking the lock and updating  *)
(* the status, every running task is named by the lock row, so the stale-    *)
(* lock cleanup finds it when its runner dies.                               *)
THEOREM RunningTaskHasLock ==
    ASSUME ~ClaimStall
    PROVE  Spec => []RunningHasLock
<1>1. Init => LeaseInv /\ HandlerOwnsRow
    <2>1. ASSUME Init
          PROVE  /\ \A t \in Tasks : task[t].status = "none" /\ task[t].activeKey = "null"
                 /\ \A r \in Runners : loop[r].pc = "idle" /\ loop[r].seen = "fresh"
                 /\ \A r \in Runners, t \in Tasks : handler[r][t] = "none"
        BY <2>1 DEF Init, NoRow, Idle
    <2> QED
        BY <2>1 DEF LeaseInv, RunningHasLock, ActiveKeyMeansActive, OneActive,
                    ClaimerHoldsLease, StaleIsOver, StealerSawPending,
                    DeleterFailedRow, ReleaserIsDone, ClaimerNotStarted, HandlerOwnsRow
<1>2. TypeOK /\ TypeOK' /\ HandlerOwnsRow /\ [Next]_vars => HandlerOwnsRow'
    BY OwnsRowStep
<1>3. TypeOK /\ HandlerOwnsRow /\ LeaseInv /\ [Next]_vars => LeaseInv'
    BY LeaseStep
<1>4. LeaseInv => RunningHasLock
    BY DEF LeaseInv
<1> QED
    BY <1>1, <1>2, <1>3, <1>4, Typing, PTL DEF Spec
=============================================================================
