--------------------------- MODULE TaskBillingProofs ---------------------------
(***************************************************************************)
(* Proofs about TaskBilling, for every set of workers and prices and every  *)
(* bound on polls and faults.  TaskInv is inductive: Core(o) is what it says*)
(* with its operation o named, and each action keeps it for the same o, but *)
(* the one that wins a final status, before which o has left no trace.      *)
(***************************************************************************)
EXTENDS TaskBilling, TLAPS

Core(o) ==
    /\ TypeOK /\ Submitting /\ Running /\ Honest(task) /\ OneWorker
    /\ \A w \in Workers : Copied(wk[w])
    /\ Billed(o)

-----------------------------------------------------------------------------
(* Operators of the model.                                                  *)

\* What an operation is and by how much it changes the price.
LEMMA OpFacts ==
    ASSUME NEW o \in Ops
    PROVE  /\ o.target \in Actuals \cup {0} /\ o.target \in Nat
           /\ Diff(o) \in Int /\ Diff(o) \in Deltas /\ Pre + Diff(o) = o.target
           /\ Final(o) \in Terminal /\ (Fated(o) => task.status \in Terminal)
<1>1. o.target \in Actuals \cup {0}
  BY DEF Ops, Refund
<1>2. o.target \in Nat /\ Pre \in Nat
  <2>1. Actuals \cup {0} \subseteq Nat /\ Pre \in Nat
    BY PriceAssumption
  <2> QED BY <1>1, <2>1, Zenon
<1>3. Diff(o) \in Deltas
  BY <1>1 DEF Diff, Deltas
<1>4. Final(o) \in Terminal /\ (Fated(o) => task.status \in Terminal)
  BY DEF Final, Fated, Terminal
<1> QED
  BY <1>1, <1>2, <1>3, <1>4 DEF Diff

\* Prices and their differences are integers.
LEMMA AmountFacts ==
    /\ Deltas \subseteq Int /\ 0 \in Deltas /\ Pre \in Deltas /\ Pre \in Nat /\ Pre # 0
    /\ \A n, m \in Actuals \cup {0, Pre} : n - m \in Deltas
<1>1. Pre \in Nat /\ Pre # 0 /\ Actuals \subseteq Nat
  BY PriceAssumption
<1>2. \A n, m \in Actuals \cup {0, Pre} : n - m \in Deltas /\ n - m \in Int
  BY <1>1 DEF Deltas
<1>3. 0 \in Deltas /\ Pre \in Deltas
  <2>1. 0 - 0 \in Deltas /\ Pre - 0 \in Deltas
    BY <1>2
  <2> QED BY <2>1, <1>1
<1>4. Deltas \subseteq Int
  BY <1>1 DEF Deltas
<1> QED BY <1>1, <1>2, <1>3, <1>4

\* The keys of the journal.
LEMMA KeyFacts ==
    /\ \A o \in Ops, s \in Stages : <<o, s>> \in Keys /\ <<o, s>> # <<None, "baseline">>
    /\ \A o, p \in Ops, s, t \in Stages : <<o, s>> = <<p, t>> <=> o = p /\ s = t
    /\ <<None, "baseline">> \in Keys
<1>1. "baseline" \notin Stages
  BY DEF Stages, Accounts
<1> QED
  BY <1>1 DEF Keys

\* The journal after a stage of o has been written.
LEMMA LedgerUpdate ==
    ASSUME TypeOK, NEW o \in Ops, NEW t \in Stages, NEW r \in [st : {"none", "applied", "undone"}, delta : Deltas],
           ledger' = [ledger EXCEPT ![<<o, t>>] = r]
    PROVE  /\ ledger' \in [Keys -> [st : {"none", "applied", "undone"}, delta : Deltas]]
           /\ ledger'[<<o, t>>] = r
           /\ \A p \in Ops, s \in Stages : p # o \/ s # t => ledger'[<<p, s>>] = ledger[<<p, s>>]
           /\ Based' <=> Based
<1>1. ledger \in [Keys -> [st : {"none", "applied", "undone"}, delta : Deltas]]
  BY DEF TypeOK
<1>2. <<o, t>> \in Keys
  BY KeyFacts
<1>3. \A x \in Keys : ledger'[x] = IF x = <<o, t>> THEN r ELSE ledger[x]
  BY <1>1, <1>2
<1>4. \A p \in Ops, s \in Stages : p # o \/ s # t => ledger'[<<p, s>>] = ledger[<<p, s>>]
  <2> SUFFICES ASSUME NEW p \in Ops, NEW s \in Stages, p # o \/ s # t
               PROVE ledger'[<<p, s>>] = ledger[<<p, s>>]
    OBVIOUS
  <2>1. <<p, s>> \in Keys /\ <<p, s>> # <<o, t>>
    BY KeyFacts
  <2> QED BY <1>3, <2>1
<1>5. ledger'[<<None, "baseline">>] = ledger[<<None, "baseline">>]
  BY <1>3, KeyFacts
<1> QED BY <1>1, <1>2, <1>3, <1>4, <1>5 DEF Based

\* The types of the state, and of the parts of the row and of workers.
LEMMA Parts ==
    ASSUME TypeOK
    PROVE  /\ task \in Rows /\ charge \in [Accounts \cup {"used"} -> Actuals \cup {0, Pre}]
           /\ ledger \in [Keys -> [st : {"none", "applied", "undone"}, delta : Deltas]]
           /\ \A p \in Ops, s \in Stages : St(p, s) \in {"none", "applied", "undone"}
           /\ \A w \in Workers : wk[w] \in Worker
           /\ doubt # None => doubt \in Txs
<1>1. \A p \in Ops, s \in Stages : St(p, s) \in {"none", "applied", "undone"}
  <2> SUFFICES ASSUME NEW p \in Ops, NEW s \in Stages PROVE St(p, s) \in {"none", "applied", "undone"}
    OBVIOUS
  <2>1. <<p, s>> \in Keys
    BY KeyFacts
  <2>2. ledger[<<p, s>>] \in [st : {"none", "applied", "undone"}, delta : Deltas]
    BY <2>1 DEF TypeOK
  <2> QED BY <2>2 DEF St
<1> QED BY <1>1 DEF TypeOK

-----------------------------------------------------------------------------
(* Steps.                                                                   *)

\* What a transaction that may be sent does when it commits: it keeps the
\* journal in order and the balances in step with it.
LEMMA CommitSound ==
    ASSUME NEW o \in Ops, Core(o), Based, NEW x \in Txs, Sendable(o, x), Commit(x), bulk' = bulk
    PROVE  /\ task' \in Rows /\ charge' \in [Accounts \cup {"used"} -> Actuals \cup {0, Pre}]
           /\ ledger' \in [Keys -> [st : {"none", "applied", "undone"}, delta : Deltas]]
           /\ Based' /\ Journal(o)' /\ Balanced(o)'
           /\ task'.tokenCharged = task.tokenCharged /\ task'.status = task.status /\ task'.bill = task.bill
           /\ task'.accounted = task.accounted /\ task'.snap = task.snap
           /\ St(o, x.stage)' = (IF x.mode = "apply" THEN "applied" ELSE "undone")
           /\ \A s \in Stages \ {x.stage} : St(o, s)' = St(o, s)
           /\ Unfinished(o)' => Unfinished(o) \/ (x.mode = "apply" /\ x.stage = "funding")
<1> DEFINE t == x.stage
           st == IF x.mode = "apply" THEN "applied" ELSE "undone"
<1>1. TypeOK /\ Submitting /\ Journal(o) /\ Balanced(o) /\ task \in Rows
      /\ charge \in [Accounts \cup {"used"} -> Actuals \cup {0, Pre}]
      /\ t \in Stages /\ x.op = o /\ x.delta = Diff(o) /\ x.mode \in {"apply", "undo"}
      /\ Fated(o)
  <2>1. TypeOK /\ Submitting /\ Journal(o) /\ Balanced(o)
    BY DEF Core, Billed
  <2>2. x.mode \in {"apply", "undo"}
    BY DEF Txs
  <2> QED BY <2>1, <2>2, Parts DEF Sendable, Fated
<1>2. [st |-> st, delta |-> x.delta] \in [st : {"none", "applied", "undone"}, delta : Deltas]
  BY <1>1, OpFacts
<1>3. ledger' = [ledger EXCEPT ![<<o, t>>] = [st |-> st, delta |-> x.delta]]
  BY <1>1 DEF Commit
<1>4. /\ ledger' \in [Keys -> [st : {"none", "applied", "undone"}, delta : Deltas]]
      /\ ledger'[<<o, t>>] = [st |-> st, delta |-> Diff(o)]
      /\ \A p \in Ops, s \in Stages : p # o \/ s # t => ledger'[<<p, s>>] = ledger[<<p, s>>]
      /\ Based'
  <2> DEFINE r == [st |-> st, delta |-> x.delta]
  <2>1. r \in [st : {"none", "applied", "undone"}, delta : Deltas] /\ ledger' = [ledger EXCEPT ![<<o, t>>] = r]
    BY <1>2, <1>3
  <2>2. TypeOK /\ t \in Stages /\ r = [st |-> st, delta |-> Diff(o)]
    BY <1>1
  <2> HIDE DEF t, st, r
  <2>3. /\ ledger' \in [Keys -> [st : {"none", "applied", "undone"}, delta : Deltas]]
        /\ ledger'[<<o, t>>] = r
        /\ \A p \in Ops, s \in Stages : p # o \/ s # t => ledger'[<<p, s>>] = ledger[<<p, s>>]
        /\ Based' <=> Based
    <3>1. ASSUME NEW u \in Stages, NEW q \in [st : {"none", "applied", "undone"}, delta : Deltas],
                 ledger' = [ledger EXCEPT ![<<o, u>>] = q]
          PROVE  /\ ledger' \in [Keys -> [st : {"none", "applied", "undone"}, delta : Deltas]]
                 /\ ledger'[<<o, u>>] = q
                 /\ \A p \in Ops, s \in Stages : p # o \/ s # u => ledger'[<<p, s>>] = ledger[<<p, s>>]
                 /\ Based' <=> Based
      BY <3>1, <2>2, LedgerUpdate
    <3> QED BY <2>1, <2>2, <3>1
  <2> QED BY <2>2, <2>3
<1>5. /\ St(o, t)' = st
      /\ \A s \in Stages \ {t} : St(o, s)' = St(o, s)
      /\ \A p \in Ops, s \in Stages : p # o => St(p, s)' = St(p, s)
  BY <1>4 DEF St
<1>6. t # "baseline" /\ (t = "finalize" <=> t \notin Accounts) /\ t \in {"funding", "token", "finalize"}
  BY <1>1 DEF Stages, Accounts
<1>7. task' = IF t = "finalize" THEN [task EXCEPT !.quota = o.target] ELSE task
  BY <1>1, <1>6 DEF Commit
<1>8. task' \in Rows /\ task'.tokenCharged = task.tokenCharged /\ task'.status = task.status
      /\ task'.bill = task.bill /\ task'.accounted = task.accounted /\ task'.snap = task.snap
      /\ task'.quota = IF t = "finalize" THEN o.target ELSE task.quota
  BY <1>1, <1>7, OpFacts DEF Rows
<1>9. t = "finalize" => x.mode = "apply" /\ task.accounted
  BY <1>1, <1>6 DEF Sendable, Submitting, Fated
<1>10. /\ x.mode = "apply" => task.bill = "reconciling" /\ St(o, t) = "none" /\ Due(o, t)
       /\ x.mode = "undo" => /\ t \in Accounts /\ St(o, t) = "applied" /\ St(o, "finalize") # "applied"
                             /\ t = "funding" => St(o, "token") # "applied"
  BY DEF Sendable, Fated
<1>11. Journal(o)'
  <2>1. \A p \in Ops, s \in Stages : St(p, s)' # "none" =>
            /\ Based' /\ p = o /\ ledger'[<<p, s>>].delta = Diff(o) /\ Fated(o)'
            /\ s = "token" => task'.tokenCharged
    <3> SUFFICES ASSUME NEW p \in Ops, NEW s \in Stages, St(p, s)' # "none"
                 PROVE /\ Based' /\ p = o /\ ledger'[<<p, s>>].delta = Diff(o) /\ Fated(o)'
                       /\ s = "token" => task'.tokenCharged
      OBVIOUS
    <3>1. CASE p = o /\ s = t
      <4>1. s = "token" => task.tokenCharged
        BY <1>10, <3>1, <1>1, <1>6 DEF Due, Journal, Fated
      <4> QED BY <3>1, <4>1, <1>4, <1>8, <1>1 DEF Fated
    <3>2. CASE p # o \/ s # t
      <4>1. ledger'[<<p, s>>] = ledger[<<p, s>>] /\ St(p, s) # "none"
        BY <3>2, <1>4 DEF St
      <4>2. p = o /\ ledger[<<p, s>>].delta = Diff(o) /\ (s = "token" => task.tokenCharged)
        BY <4>1, <1>1 DEF Journal, Fated
      <4> QED BY <4>1, <4>2, <1>1, <1>4, <1>8 DEF Fated
    <3> QED BY <3>1, <3>2
  <2>2. St(o, "finalize")' = "applied" =>
            St(o, "funding")' = "applied" /\ (task'.tokenCharged => St(o, "token")' = "applied")
    <3> SUFFICES ASSUME St(o, "finalize")' = "applied"
                 PROVE St(o, "funding")' = "applied" /\ (task'.tokenCharged => St(o, "token")' = "applied")
      OBVIOUS
    <3>0. {"funding", "token", "finalize"} \subseteq Stages
      BY DEF Stages, Accounts
    <3>1. CASE t = "finalize"
      BY <3>0, <3>1, <1>5, <1>8, <1>9, <1>10 DEF Due
    <3>2. CASE t # "finalize"
      <4>1. St(o, "finalize") = "applied"
        BY <3>0, <3>2, <1>5
      <4>2. x.mode = "apply"
        BY <4>1, <1>10, <1>1
      <4>3. St(o, "funding") = "applied" /\ (task.tokenCharged => St(o, "token") = "applied")
        BY <4>1, <1>1 DEF Journal, Fated
      <4>4. st = "applied"
        BY <4>2
      <4> QED BY <3>0, <4>3, <4>4, <1>5, <1>8
    <3> QED BY <3>1, <3>2
  <2>3. task'.bill # "ready"
    <3>1. CASE x.mode = "apply"
      BY <3>1, <1>10, <1>8
    <3>2. CASE x.mode = "undo"
      <4>1. ~Blank(o) /\ St(o, "finalize") # "applied"
        BY <3>2, <1>10, <1>1 DEF Blank
      <4> QED BY <4>1, <1>1, <1>8 DEF Journal, Fated
    <3> QED BY <3>1, <3>2, <1>1
  <2> QED BY <2>1, <2>2, <2>3 DEF Journal, Fated
<1>12. Unfinished(o)' => Unfinished(o) \/ (x.mode = "apply" /\ x.stage = "funding")
  <2> SUFFICES ASSUME Unfinished(o)', ~(x.mode = "apply" /\ t = "funding") PROVE Unfinished(o)
    OBVIOUS
  <2>0. {"funding", "token", "finalize"} = Stages /\ Accounts = {"funding", "token"}
    BY DEF Stages, Accounts
  <2>1. St(o, "finalize")' # "applied" /\ (St(o, "funding")' = "applied" \/ St(o, "token")' = "applied")
    BY DEF Unfinished, Accounts
  <2>2. St(o, "finalize") # "applied"
    BY <2>0, <2>1, <1>5, <1>6, <1>9, <1>10
  <2>3. St(o, "funding") = "applied" \/ St(o, "token") = "applied"
    <3>1. CASE x.mode = "undo"
      BY <3>1, <1>10, <2>0
    <3>2. CASE x.mode = "apply"
      BY <3>2, <2>0, <2>1, <1>5, <1>6, <1>10 DEF Due
    <3> QED BY <3>1, <3>2, <1>1
  <2> QED BY <2>0, <2>2, <2>3 DEF Unfinished
<1> HIDE DEF t
<1>13. /\ Balanced(o)'
       /\ charge' \in [Accounts \cup {"used"} -> Actuals \cup {0, Pre}]
  <2> DEFINE D == Diff(o)
             a == IF t \in Accounts THEN t ELSE "used"
             n == IF x.mode = "apply" THEN D ELSE -D
  <2>1. charge' = [charge EXCEPT ![a] = @ + n]
    <3>1. ~(x.stage = "finalize" /\ ~task.accounted)
      BY <1>9 DEF t
    <3> QED BY <3>1, <1>1 DEF Commit, t
  <2>2. /\ charge["funding"] = Pre + Moved(o, "funding")
        /\ charge["token"] = TokenShare + Moved(o, "token")
        /\ charge["used"] = Pre + Moved(o, "finalize")
        /\ task.quota = Pre + Moved(o, "finalize")
    BY <1>1 DEF Balanced
  <2>3. D \in Int /\ Pre \in Nat /\ Pre + D = o.target /\ o.target \in Actuals \cup {0}
    BY OpFacts, AmountFacts
  <2>4. {"funding", "token", "finalize"} = Stages /\ Accounts = {"funding", "token"}
    BY DEF Stages, Accounts
  <2>5. TokenShare' = TokenShare /\ TokenShare \in {0, Pre}
    BY <1>8 DEF TokenShare
  <2>6. /\ charge'["funding"] = (IF t = "funding" THEN charge["funding"] + n ELSE charge["funding"])
        /\ charge'["token"] = (IF t = "token" THEN charge["token"] + n ELSE charge["token"])
        /\ charge'["used"] = (IF t = "finalize" THEN charge["used"] + n ELSE charge["used"])
        /\ DOMAIN charge' = Accounts \cup {"used"} /\ charge' = [b \in Accounts \cup {"used"} |-> charge'[b]]
    <3> HIDE DEF n
    <3> QED BY <1>1, <1>6, <2>1, <2>4
  <2>7. \A s \in Stages : Moved(o, s)' = IF s = t THEN Moved(o, s) + n ELSE Moved(o, s)
    <3> SUFFICES ASSUME NEW s \in Stages PROVE Moved(o, s)' = IF s = t THEN Moved(o, s) + n ELSE Moved(o, s)
      OBVIOUS
    <3>1. CASE s # t
      <4>1. St(o, s)' = St(o, s)
        BY <3>1, <1>5
      <4> QED BY <3>1, <4>1 DEF Moved
    <3>2. CASE s = t
      <4>1. CASE x.mode = "apply"
        <5>1. St(o, s)' = "applied" /\ St(o, s) = "none"
          BY <3>2, <4>1, <1>5, <1>10 DEF t
        <5>2. Moved(o, s)' = D /\ Moved(o, s) = 0 /\ n = D
          BY <4>1, <5>1 DEF Moved
        <5> QED BY <3>2, <5>2, <2>3
      <4>2. CASE x.mode = "undo"
        <5>1. St(o, s)' = "undone" /\ St(o, s) = "applied"
          BY <3>2, <4>2, <1>5, <1>10 DEF t
        <5>2. Moved(o, s)' = 0 /\ Moved(o, s) = D /\ n = -D
          BY <4>2, <5>1 DEF Moved
        <5> QED BY <3>2, <5>2, <2>3
      <4> QED BY <4>1, <4>2, <1>1
    <3> QED BY <3>1, <3>2
  <2>8. \A s \in Stages : Moved(o, s) \in {0, D} /\ Moved(o, s)' \in {0, D}
    BY DEF Moved
  <2>9. n \in Int
    BY <2>3
  <2> HIDE DEF n, D
  <2>10. /\ charge'["funding"] = Pre + Moved(o, "funding")'
         /\ charge'["token"] = TokenShare + Moved(o, "token")'
         /\ charge'["used"] = Pre + Moved(o, "finalize")'
    BY <2>2, <2>3, <2>4, <2>5, <2>6, <2>7, <2>8, <2>9
  <2>11. task'.quota = Pre + Moved(o, "finalize")'
    <3>1. CASE t = "finalize"
      <4>1. St(o, "finalize")' = "applied"
        BY <3>1, <1>5, <1>9
      <4>2. Moved(o, "finalize")' = D
        BY <4>1 DEF Moved, D
      <4> QED BY <3>1, <4>2, <1>8, <2>3
    <3>2. CASE t # "finalize"
      BY <3>2, <1>8, <2>2, <2>4, <2>7
    <3> QED BY <3>1, <3>2
  <2>12. Moved(o, "token")' # 0 => task.tokenCharged
    <3>1. St(o, "token")' # "none" => task'.tokenCharged
      BY <1>11, <2>4 DEF Journal, Fated
    <3> QED BY <3>1, <1>8 DEF Moved
  <2>13. \A b \in Accounts \cup {"used"} : charge'[b] \in Actuals \cup {0, Pre}
    <3>1. Pre + Moved(o, "funding")' \in Actuals \cup {0, Pre} /\ Pre + Moved(o, "finalize")' \in Actuals \cup {0, Pre}
      BY <2>3, <2>4, <2>8
    <3>2. TokenShare + Moved(o, "token")' \in Actuals \cup {0, Pre}
      <4>1. CASE Moved(o, "token")' = 0
        BY <4>1, <2>3, <2>5
      <4>2. CASE Moved(o, "token")' # 0
        <5>1. TokenShare = Pre /\ Moved(o, "token")' = D
          BY <4>2, <2>4, <2>8, <2>12 DEF TokenShare
        <5> QED BY <5>1, <2>3
      <4> QED BY <4>1, <4>2
    <3> QED BY <2>4, <2>10, <3>1, <3>2
  <2> QED BY <2>5, <2>6, <2>10, <2>11, <2>13 DEF Balanced
<1> QED
  BY <1>4, <1>5, <1>8, <1>11, <1>12, <1>13 DEF t

\* A worker with an operation works for o, after the baseline, at the end.
LEMMA WorkerFacts ==
    ASSUME NEW o \in Ops, Core(o), NEW w \in Workers, wk[w].pc \in Working
    PROVE  /\ Based /\ Fated(o) /\ wk[w].op = o /\ task.status \in Terminal
           /\ \A v \in Workers \ {w} : wk[v].pc \notin Working
           /\ wk[w].pc # "reread" => wk[w].row \in Rows /\ wk[w].row.tokenCharged = task.tokenCharged
                                     /\ wk[w].delta = Diff(o)
<1>1. Based
  BY DEF Core, Submitting, Working
<1>2. Placed(o, wk[w]) /\ Copied(wk[w])
  BY DEF Core, Billed
<1>3. \A v \in Workers \ {w} : wk[v].pc \notin Working
  BY DEF Core, OneWorker
<1> QED
  BY <1>1, <1>2, <1>3, OpFacts DEF Placed, Copied, Working, Fated

\* The step of a worker that has an operation: what is left to show.
LEMMA WorkerStep ==
    ASSUME NEW o \in Ops, Core(o), NEW w \in Workers, wk[w].pc \in Working,
           NEW k \in Worker, wk' = [wk EXCEPT ![w] = k], k.pc \in Working \cup {"idle"},
           UNCHANGED <<sub, redis, bulk, pass>>,
           task' \in Rows, charge' \in [Accounts \cup {"used"} -> Actuals \cup {0, Pre}],
           ledger' \in [Keys -> [st : {"none", "applied", "undone"}, delta : Deltas]],
           doubt' \in Txs \cup {None}, polls' \in 0..MaxPolls, faults' \in 0..MaxFaults,
           fence' \in [Accounts -> SUBSET (Ops \cup [mode : {"apply", "undo"}, op : Ops])],
           task'.tokenCharged = task.tokenCharged, task'.status = task.status,
           task'.bill # "pending", task'.bill # "manual" => task'.accounted,
           Based', Honest(task'),
           Journal(o)', Balanced(o)', Doubtful(o)', Exposed(o)' => Guarded(o)',
           Copied(k)', Placed(o, k)'
    PROVE  Core(o)'
<1>1. /\ Based /\ Fated(o) /\ task.status \in Terminal
      /\ \A v \in Workers \ {w} : wk[v].pc \notin Working
  BY WorkerFacts
<1>2. wk'[w] = k /\ \A v \in Workers \ {w} : wk'[v] = wk[v]
  BY DEF Core, TypeOK
<1>3. TypeOK'
  BY DEF Core, TypeOK
<1>4. Submitting'
  BY <1>1 DEF Core, Submitting
<1>5. Running'
  BY <1>1 DEF Running
<1>6. Honest(task)'
  OBVIOUS
<1>7. OneWorker'
  BY <1>1, <1>2 DEF OneWorker
<1>8. \A v \in Workers : Copied(wk[v])'
  <2> SUFFICES ASSUME NEW v \in Workers PROVE Copied(wk[v])'
    OBVIOUS
  <2>1. CASE v = w
    BY <2>1, <1>2 DEF Copied
  <2>2. CASE v # w
    <3>1. Copied(wk[v]) /\ wk'[v] = wk[v]
      BY <2>2, <1>2 DEF Core
    <3> QED BY <3>1 DEF Copied
  <2> QED BY <2>1, <2>2
<1>9. \A v \in Workers : Placed(o, wk[v])'
  <2> SUFFICES ASSUME NEW v \in Workers PROVE Placed(o, wk[v])'
    OBVIOUS
  <2>1. CASE v = w
    BY <2>1, <1>2 DEF Placed, Fated
  <2>2. CASE v # w
    <3>1. wk'[v].pc \notin Working
      BY <2>2, <1>1, <1>2
    <3> QED BY <3>1 DEF Placed, Fated
  <2> QED BY <2>1, <2>2
<1> QED
  BY <1>3, <1>4, <1>5, <1>6, <1>7, <1>8, <1>9 DEF Core, Billed

\* The step of such a worker that changes itself, and fences at most.
LEMMA WorkerMoves ==
    ASSUME NEW o \in Ops, Core(o), NEW w \in Workers, wk[w].pc \in Working,
           NEW k \in Worker, wk' = [wk EXCEPT ![w] = k], k.pc \in Working \cup {"idle"},
           UNCHANGED <<task, ledger, charge, doubt, sub, redis, bulk, pass>>,
           polls' \in 0..MaxPolls, faults' \in 0..MaxFaults,
           fence' \in [Accounts -> SUBSET (Ops \cup [mode : {"apply", "undo"}, op : Ops])],
           Exposed(o)' => Guarded(o)', Copied(k), Placed(o, k)
    PROVE  Core(o)'
<1>1. /\ task \in Rows /\ charge \in [Accounts \cup {"used"} -> Actuals \cup {0, Pre}]
      /\ ledger \in [Keys -> [st : {"none", "applied", "undone"}, delta : Deltas]]
      /\ doubt \in Txs \cup {None}
  BY DEF Core, TypeOK
<1>2. Based /\ task.bill # "pending" /\ (task.bill # "manual" => task.accounted) /\ Honest(task)
  BY WorkerFacts DEF Core, Submitting
<1>3. Journal(o) /\ Balanced(o) /\ Doubtful(o)
  BY DEF Core, Billed
<1>4. Based' /\ \A s : St(o, s)' = St(o, s)
  BY <1>2 DEF Based, St
<1>5. Journal(o)'
  BY <1>3 DEF Journal, Based, St, Blank, Fated
<1>6. Balanced(o)'
  BY <1>3 DEF Balanced, Based, St, Moved, TokenShare
<1>7. Doubtful(o)'
  BY <1>3 DEF Doubtful, Based, Sendable, St, Due, Fated
<1>8. Copied(k)'
  BY DEF Copied
<1>9. Placed(o, k)'
  BY DEF Placed, Blank, St, Due, Fated
<1>10. /\ task' \in Rows /\ charge' \in [Accounts \cup {"used"} -> Actuals \cup {0, Pre}]
       /\ ledger' \in [Keys -> [st : {"none", "applied", "undone"}, delta : Deltas]]
       /\ doubt' \in Txs \cup {None}
       /\ task'.tokenCharged = task.tokenCharged /\ task'.status = task.status
       /\ task'.bill # "pending" /\ (task'.bill # "manual" => task'.accounted) /\ Honest(task')
  BY <1>1, <1>2
<1> QED
  BY <1>4, <1>5, <1>6, <1>7, <1>8, <1>9, <1>10, WorkerStep

\* An exposed operation is not over, so no spender takes its fences away.
LEMMA ExposedNotOver ==
    ASSUME NEW o \in Ops, Core(o), Exposed(o)
    PROVE  ~OperationOver(o)
<1> SUFFICES ASSUME task.snap # None, St(o, "finalize") = "applied" \/ \A a \in Accounts : Untouched(o, a)
             PROVE FALSE
  BY DEF OperationOver
<1>0. "funding" \in Accounts
  BY DEF Accounts
<1>1. CASE Unfinished(o)
  BY <1>1 DEF Unfinished, Untouched
<1>2. ASSUME task.bill = "reconciling", St(o, "funding") = "none", St(o, "finalize") = "none"
      PROVE FALSE
  <2>1. Untouched(o, "funding")
    BY <1>0, <1>2
  <2>2. task.snap["funding"] = "not_applied"
    BY <2>1, <1>2 DEF Untouched
  <2> QED BY <2>2, <1>2 DEF Core, Honest
<1>3. CASE doubt # None /\ Based /\ doubt.mode = "apply" /\ doubt.stage = "funding"
  <2>1. Sendable(o, doubt)
    BY <1>3 DEF Core, Billed, Doubtful
  <2> QED BY <1>2, <1>3, <2>1 DEF Sendable, Due, Fated
<1>4. CASE task.bill = "reconciling" /\ \E w \in Workers : wk[w].pc = "apply" /\ wk[w].stage = "funding"
  <2> PICK w \in Workers : wk[w].pc = "apply" /\ wk[w].stage = "funding"
    BY <1>4
  <2>1. Placed(o, wk[w])
    BY DEF Core, Billed
  <2>2. St(o, "funding") = "none" /\ St(o, "finalize") = "none"
    BY <2>1 DEF Placed, Working, Due, Pcs, Fated
  <2> QED BY <1>2, <1>4, <2>2
<1> QED BY <1>1, <1>3, <1>4 DEF Exposed

\* Fences that spenders resolve, or that grow, go on guarding o.
LEMMA GuardStands ==
    ASSUME NEW o \in Ops, Core(o), Exposed(o), UNCHANGED <<redis, task>>,
           fence' = Resolved \/ \A a \in Accounts : fence[a] \subseteq fence'[a]
    PROVE  Guarded(o)'
<1>1. Guarded(o)
  BY DEF Core, Billed
<1>2. CASE \A a \in Accounts : fence[a] \subseteq fence'[a]
  BY <1>1, <1>2 DEF Guarded
<1>3. CASE fence' = Resolved
  <2>1. ~OperationOver(o)
    BY ExposedNotOver
  <2>2. \A a \in Accounts : o \in fence[a] => ~Resolvable(a)
    BY <2>1 DEF Resolvable
  <2>3. \A a \in Accounts : o \in fence[a] => o \in fence'[a]
    BY <2>2, <1>3 DEF Resolved
  <2> QED BY <1>1, <2>3 DEF Guarded
<1> QED BY <1>2, <1>3

-----------------------------------------------------------------------------
(* Workers that only move on.                                               *)

\* A worker's record after some of its fields are set.
Turned(k, p) == [k EXCEPT !.pc = p]
Staged(k, p, s) == [k EXCEPT !.pc = p, !.stage = s]
Missed(k, p, m) == [k EXCEPT !.pc = p, !.missing = m]
Noted(k, p, n) == [k EXCEPT !.pc = p, !.snap = n]
Loaded(k, p, r) == [k EXCEPT !.pc = p, !.row = r]
Opened(k, p, r, d, n) == [k EXCEPT !.pc = p, !.row = r, !.delta = d, !.snap = n]
Alike(j, k) == j.row = k.row /\ j.op = k.op /\ j.delta = k.delta

LEMMA WorkerEdits ==
    \A k \in Worker, p \in Pcs :
        /\ LET j == Turned(k, p) IN
           j \in Worker /\ j.pc = p /\ Alike(j, k) /\ j.stage = k.stage
        /\ \A s \in Stages : LET j == Staged(k, p, s) IN
           j \in Worker /\ j.pc = p /\ Alike(j, k) /\ j.stage = s
        /\ \A m \in [Accounts -> Shown] : LET j == Missed(k, p, m) IN
           j \in Worker /\ j.pc = p /\ Alike(j, k) /\ j.stage = k.stage
        /\ \A n \in Snapshots : LET j == Noted(k, p, n) IN
           j \in Worker /\ j.pc = p /\ Alike(j, k) /\ j.stage = k.stage /\ j.snap = n
        /\ \A r \in Rows : LET j == Loaded(k, p, r) IN
           j \in Worker /\ j.pc = p /\ j.row = r
        /\ \A r \in Rows, d \in Deltas, n \in Snapshots : LET j == Opened(k, p, r, d, n) IN
           j \in Worker /\ j.pc = p /\ j.row = r /\ j.op = k.op /\ j.delta = d /\ j.snap = n
<1> SUFFICES ASSUME NEW k \in Worker, NEW p \in Pcs
             PROVE
        /\ LET j == Turned(k, p) IN
           j \in Worker /\ j.pc = p /\ Alike(j, k) /\ j.stage = k.stage
        /\ \A s \in Stages : LET j == Staged(k, p, s) IN
           j \in Worker /\ j.pc = p /\ Alike(j, k) /\ j.stage = s
        /\ \A m \in [Accounts -> Shown] : LET j == Missed(k, p, m) IN
           j \in Worker /\ j.pc = p /\ Alike(j, k) /\ j.stage = k.stage
        /\ \A n \in Snapshots : LET j == Noted(k, p, n) IN
           j \in Worker /\ j.pc = p /\ Alike(j, k) /\ j.stage = k.stage /\ j.snap = n
        /\ \A r \in Rows : LET j == Loaded(k, p, r) IN
           j \in Worker /\ j.pc = p /\ j.row = r
        /\ \A r \in Rows, d \in Deltas, n \in Snapshots : LET j == Opened(k, p, r, d, n) IN
           j \in Worker /\ j.pc = p /\ j.row = r /\ j.op = k.op /\ j.delta = d /\ j.snap = n
  BY Zenon
<1>1. LET j == Turned(k, p) IN j \in Worker /\ j.pc = p /\ Alike(j, k) /\ j.stage = k.stage
  BY DEF Worker, Turned, Alike
<1>2. ASSUME NEW s \in Stages
      PROVE  LET j == Staged(k, p, s) IN j \in Worker /\ j.pc = p /\ Alike(j, k) /\ j.stage = s
  BY DEF Worker, Staged, Alike
<1>3. ASSUME NEW m \in [Accounts -> Shown]
      PROVE  LET j == Missed(k, p, m) IN j \in Worker /\ j.pc = p /\ Alike(j, k) /\ j.stage = k.stage
  BY DEF Worker, Missed, Alike
<1>4. ASSUME NEW n \in Snapshots
      PROVE  LET j == Noted(k, p, n) IN j \in Worker /\ j.pc = p /\ Alike(j, k) /\ j.stage = k.stage /\ j.snap = n
  BY DEF Worker, Noted, Alike
<1>5. ASSUME NEW r \in Rows
      PROVE  LET j == Loaded(k, p, r) IN j \in Worker /\ j.pc = p /\ j.row = r
  BY DEF Worker, Loaded
<1>6. ASSUME NEW r \in Rows, NEW d \in Deltas, NEW n \in Snapshots
      PROVE  LET j == Opened(k, p, r, d, n) IN
             j \in Worker /\ j.pc = p /\ j.row = r /\ j.op = k.op /\ j.delta = d /\ j.snap = n
  BY DEF Worker, Opened
<1> QED
  BY <1>1, <1>2, <1>3, <1>4, <1>5, <1>6, Zenon

\* The names of the places, a resting worker, and the missing stages.
LEMMA Names ==
    /\ Pcs = Working \cup {"idle", "polled", "mark"}
    /\ {"reread", "begin", "fence", "apply", "check", "recheck", "undo", "undoCheck", "review",
        "reviewed", "record", "complete", "release"} = Working
    /\ Stages = {"funding", "token", "finalize"} /\ Accounts = {"funding", "token"}
    /\ Idle \in Worker /\ Idle.pc = "idle"
    /\ NotApplied \in [Accounts -> Shown] /\ [a \in Accounts |-> "pending"] \in [Accounts -> Shown]
    /\ [NotApplied EXCEPT !["funding"] = "pending"] \in [Accounts -> Shown]
    /\ \A r \in Rows : Pending(r) \in [Accounts -> Shown]
                       /\ Pending(r)["funding"] = "pending"
                       /\ [Pending(r) EXCEPT !["token"] = "not_applied"] \in [Accounts -> Shown]
<1>1. Pcs = Working \cup {"idle", "polled", "mark"}
  BY DEF Working, Pcs
<1>2. {"reread", "begin", "fence", "apply", "check", "recheck", "undo", "undoCheck", "review",
        "reviewed", "record", "complete", "release"} = Working
  BY DEF Working, Pcs
<1>3. Stages = {"funding", "token", "finalize"} /\ Accounts = {"funding", "token"}
  BY DEF Stages, Accounts
<1>4. NotApplied \in [Accounts -> Shown] /\ [a \in Accounts |-> "pending"] \in [Accounts -> Shown]
      /\ [NotApplied EXCEPT !["funding"] = "pending"] \in [Accounts -> Shown]
  BY DEF NotApplied, Shown
<1>5. \A r \in Rows : Pending(r) \in [Accounts -> Shown]
                       /\ Pending(r)["funding"] = "pending"
                       /\ [Pending(r) EXCEPT !["token"] = "not_applied"] \in [Accounts -> Shown]
  BY DEF Pending, Shown, Accounts
<1>6. Idle \in Worker /\ Idle.pc = "idle"
  BY <1>3, <1>4, AmountFacts DEF Idle, Worker, Pcs
<1> QED BY <1>1, <1>2, <1>3, <1>4, <1>5, <1>6

\* A snapshot of the journal.
LEMMA SnapshotFacts ==
    ASSUME TypeOK, NEW o \in Ops, NEW m \in [Accounts -> Shown]
    PROVE  /\ Snapshot(o, m) \in Snapshots
           /\ m["funding"] # "not_applied" => Snapshot(o, m).funding # "not_applied"
<1>1. St(o, "funding") \in {"none", "applied", "undone"} /\ St(o, "token") \in {"none", "applied", "undone"}
  BY Parts, Names
<1>2. m["funding"] \in Shown /\ m["token"] \in Shown
  BY Names
<1> QED
  BY <1>1, <1>2 DEF Snapshot, Snapshots, Shown

\* Fences have their type however they are resolved or extended.
LEMMA FenceTypes ==
    ASSUME TypeOK
    PROVE  /\ Resolved \in [Accounts -> SUBSET (Ops \cup [mode : {"apply", "undo"}, op : Ops])]
           /\ fence \in [Accounts -> SUBSET (Ops \cup [mode : {"apply", "undo"}, op : Ops])]
BY DEF TypeOK, Resolved

\* A worker that moves on without beginning to apply leaves o as exposed as it
\* was, and the fences stand.
LEMMA WorkerGoes ==
    ASSUME NEW o \in Ops, Core(o), NEW w \in Workers, wk[w].pc \in Working,
           NEW k \in Worker, wk' = [wk EXCEPT ![w] = k], k.pc \in Working \cup {"idle"},
           k.pc # "apply" \/ k.stage # "funding",
           UNCHANGED <<task, ledger, charge, doubt, sub, redis, bulk, pass>>,
           polls' \in 0..MaxPolls, faults' \in 0..MaxFaults,
           fence' \in [Accounts -> SUBSET (Ops \cup [mode : {"apply", "undo"}, op : Ops])],
           fence' = Resolved \/ \A a \in Accounts : fence[a] \subseteq fence'[a],
           Copied(k), Placed(o, k)
    PROVE  Core(o)'
<1>1. wk'[w] = k /\ \A v \in Workers \ {w} : wk'[v] = wk[v]
  BY DEF Core, TypeOK
<1>2. Exposed(o)' => Exposed(o)
  BY <1>1 DEF Exposed, Unfinished, St, Based
<1>3. Exposed(o)' => Guarded(o)'
  BY <1>2, GuardStands
<1> QED BY <1>3, WorkerMoves

\* The bounds on polls and faults.
LEMMA Bounds ==
    ASSUME TypeOK
    PROVE  /\ UNCHANGED polls => polls' \in 0..MaxPolls
           /\ UNCHANGED faults => faults' \in 0..MaxFaults
           /\ Fault => faults' \in 0..MaxFaults
BY BoundsAssumption DEF TypeOK, Fault

\* A worker that gives up, or dies.
LEMMA WorkerLeaves ==
    ASSUME NEW o \in Ops, Core(o), NEW w \in Workers, wk[w].pc \in Working, Return(w),
           UNCHANGED <<task, ledger, charge, doubt, sub, redis, bulk, pass, polls>>,
           Fault \/ UNCHANGED faults, fence' = Resolved \/ UNCHANGED fence
    PROVE  Core(o)'
<1>1. TypeOK
  BY DEF Core
<1>2. Idle \in Worker /\ Idle.pc = "idle" /\ "idle" \notin Working
  BY Names DEF Working
<1>3. Copied(Idle) /\ Placed(o, Idle)
  BY <1>2 DEF Copied, Placed, Fated
<1>4. polls' \in 0..MaxPolls /\ faults' \in 0..MaxFaults
  BY <1>1, Bounds
<1>5. /\ fence' \in [Accounts -> SUBSET (Ops \cup [mode : {"apply", "undo"}, op : Ops])]
      /\ fence' = Resolved \/ \A a \in Accounts : fence[a] \subseteq fence'[a]
  BY <1>1, FenceTypes
<1>6. wk' = [wk EXCEPT ![w] = Idle]
  BY DEF Return
<1> HIDE DEF Idle
<1> QED BY <1>2, <1>3, <1>4, <1>5, <1>6, WorkerGoes

\* Reread: the operation is computed from a row that no operation has touched.
LEMMA RereadStep ==
    ASSUME NEW o \in Ops, Core(o), NEW w \in Workers, Reread(w)
    PROVE  Core(o)'
<1> DEFINE k == wk[w]
           m == Pending(task)
           n == Snapshot(k.op, m)
           d == k.op.target - task.quota
           j == Opened(k, "begin", task, d, n)
<1>1. TypeOK /\ k.pc = "reread" /\ k.pc \in Working /\ task \in Rows /\ k \in Worker
  BY Parts, Names DEF Core, Reread
<1>2. k.op = o /\ Fated(o) /\ Based
  BY <1>1, WorkerFacts
<1>3. Placed(o, k) /\ Journal(o) /\ Balanced(o) /\ Submitting
  BY DEF Core, Billed
<1>4. task.bill = "ready" /\ Blank(o)
  BY <1>1, <1>3 DEF Placed, Fated
<1>5. CASE Return(w)
  <2>1. UNCHANGED <<task, ledger, charge, doubt, sub, redis, bulk, pass, polls, faults, fence>>
    BY DEF Reread, bounds
  <2> QED BY <1>1, <1>5, <2>1, WorkerLeaves
<1>6. CASE wk' = [wk EXCEPT ![w].pc = "begin", ![w].row = task, ![w].delta = d, ![w].snap = n]
  <2>1. d = Diff(o) /\ d \in Deltas
    <3>1. St(o, "finalize") = "none"
      BY <1>4, Names DEF Blank
    <3>2. task.quota = Pre + 0
      BY <3>1, <1>2, <1>3 DEF Balanced, Moved
    <3>3. task.quota = Pre
      BY <3>2, AmountFacts
    <3> QED BY <3>3, <1>2, OpFacts DEF Diff
  <2>2. n \in Snapshots /\ n.funding # "not_applied"
    <3>1. m \in [Accounts -> Shown] /\ m["funding"] = "pending"
      BY <1>1, Names
    <3> HIDE DEF m
    <3> QED BY <1>1, <1>2, <3>1, SnapshotFacts
  <2>3. task.accounted
    BY <1>2, <1>3, <1>4 DEF Submitting
  <2>4. wk' = [wk EXCEPT ![w] = j]
    BY <1>6, <1>1 DEF TypeOK, Opened
  <2>5. "begin" \in Pcs /\ "begin" \in Working
    BY Names
  <2> HIDE DEF d, n, k
  <2>6. /\ j \in Worker /\ j.pc = "begin" /\ j.row = task /\ j.op = o /\ j.delta = Diff(o) /\ j.snap = n
    BY <1>1, <1>2, <2>1, <2>2, <2>5, WorkerEdits
  <2> HIDE DEF j
  <2>7. Copied(j)
    BY <1>1, <2>6 DEF Copied
  <2>8. Placed(o, j)
    BY <1>2, <1>4, <2>2, <2>3, <2>6 DEF Placed, Fated
  <2>9. UNCHANGED <<task, ledger, charge, doubt, sub, redis, bulk, pass, polls, faults, fence>>
    BY DEF Reread, bounds
  <2>10. polls' \in 0..MaxPolls /\ faults' \in 0..MaxFaults
    BY <1>1, <2>9, Bounds
  <2>11. /\ fence' \in [Accounts -> SUBSET (Ops \cup [mode : {"apply", "undo"}, op : Ops])]
         /\ \A a \in Accounts : fence[a] \subseteq fence'[a]
    BY <1>1, <2>9, FenceTypes
  <2>12. wk[w].pc \in Working
    BY <1>1 DEF k
  <2> QED BY <2>4, <2>5, <2>6, <2>7, <2>8, <2>9, <2>10, <2>11, <2>12, WorkerGoes
<1> QED BY <1>5, <1>6 DEF Reread

\* The form of most moves: a new place, and perhaps a new stage or record of
\* what is missing, with the fences kept or extended.
LEMMA WorkerTurns ==
    ASSUME NEW o \in Ops, Core(o), NEW w \in Workers, wk[w].pc \in Working \ {"reread", "begin", "release"},
           NEW p \in Working \ {"reread", "begin", "fence"},
           NEW s \in Stages, NEW m \in [Accounts -> Shown], NEW n \in Snapshots,
           \/ wk' = [wk EXCEPT ![w].pc = p] /\ s = wk[w].stage /\ p # "reviewed"
           \/ wk' = [wk EXCEPT ![w].pc = p, ![w].stage = s] /\ p # "reviewed"
           \/ wk' = [wk EXCEPT ![w].pc = p, ![w].missing = m] /\ s = wk[w].stage /\ p # "reviewed"
           \/ wk' = [wk EXCEPT ![w].pc = p, ![w].snap = n] /\ s = wk[w].stage,
           p = "apply" => doubt = None /\ St(o, s) = "none" /\ s # "funding",
           p \in {"apply", "check"} => Due(o, s),
           p = "check" => doubt = None,
           p = "recheck" => s = "token",
           p \in {"undo", "undoCheck"} => s \in Accounts,
           p \in {"record", "complete"} => St(o, "finalize") = "applied",
           UNCHANGED <<task, ledger, charge, doubt, sub, redis, bulk, pass, polls>>, Fault \/ UNCHANGED faults,
           fence' \in [Accounts -> SUBSET (Ops \cup [mode : {"apply", "undo"}, op : Ops])],
           \A a \in Accounts : fence[a] \subseteq fence'[a]
    PROVE  Core(o)'
<1> DEFINE k == wk[w]
<1>1. TypeOK /\ k \in Worker /\ wk[w].pc \in Working /\ p \in Pcs /\ wk \in [Workers -> Worker]
  BY Parts, Names DEF Core, TypeOK
<1>2. k.op = o /\ Fated(o) /\ k.row \in Rows /\ k.row.tokenCharged = task.tokenCharged
      /\ k.delta = Diff(o) /\ task.bill # "ready"
  <2>1. Placed(o, k)
    BY DEF Core, Billed
  <2> QED BY <1>1, <2>1, WorkerFacts DEF Placed, Fated
<1>3. PICK j \in Worker : /\ wk' = [wk EXCEPT ![w] = j] /\ j.pc = p /\ Alike(j, k)
                          /\ j.stage = s /\ (p = "reviewed" => j.snap = n)
  <2>1. CASE wk' = [wk EXCEPT ![w].pc = p] /\ s = wk[w].stage /\ p # "reviewed"
    <3>1. wk' = [wk EXCEPT ![w] = Turned(k, p)]
      BY <2>1, <1>1 DEF Turned
    <3> DEFINE j == Turned(k, p)
    <3>2. j \in Worker /\ j.pc = p /\ Alike(j, k) /\ j.stage = k.stage
      BY <1>1, WorkerEdits
    <3>3. wk' = [wk EXCEPT ![w] = j]
      BY <3>1
    <3> HIDE DEF j
    <3> QED BY <2>1, <3>2, <3>3
  <2>2. CASE wk' = [wk EXCEPT ![w].pc = p, ![w].stage = s] /\ p # "reviewed"
    <3>1. wk' = [wk EXCEPT ![w] = Staged(k, p, s)]
      BY <2>2, <1>1 DEF Staged
    <3> DEFINE j == Staged(k, p, s)
    <3>2. j \in Worker /\ j.pc = p /\ Alike(j, k) /\ j.stage = s
      BY <1>1, WorkerEdits
    <3>3. wk' = [wk EXCEPT ![w] = j]
      BY <3>1
    <3> HIDE DEF j
    <3> QED BY <2>2, <3>2, <3>3
  <2>3. CASE wk' = [wk EXCEPT ![w].pc = p, ![w].missing = m] /\ s = wk[w].stage /\ p # "reviewed"
    <3>1. wk' = [wk EXCEPT ![w] = Missed(k, p, m)]
      BY <2>3, <1>1 DEF Missed
    <3> DEFINE j == Missed(k, p, m)
    <3>2. j \in Worker /\ j.pc = p /\ Alike(j, k) /\ j.stage = k.stage
      BY <1>1, WorkerEdits
    <3>3. wk' = [wk EXCEPT ![w] = j]
      BY <3>1
    <3> HIDE DEF j
    <3> QED BY <2>3, <3>2, <3>3
  <2>4. CASE wk' = [wk EXCEPT ![w].pc = p, ![w].snap = n] /\ s = wk[w].stage
    <3>1. wk' = [wk EXCEPT ![w] = Noted(k, p, n)]
      BY <2>4, <1>1 DEF Noted
    <3> DEFINE j == Noted(k, p, n)
    <3>2. j \in Worker /\ j.pc = p /\ Alike(j, k) /\ j.stage = k.stage /\ j.snap = n
      BY <1>1, WorkerEdits
    <3>3. wk' = [wk EXCEPT ![w] = j]
      BY <3>1
    <3> HIDE DEF j
    <3> QED BY <2>4, <3>2, <3>3
  <2> QED BY <2>1, <2>2, <2>3, <2>4
<1>4. Copied(j)
  BY <1>2, <1>3, Names DEF Copied, Alike
<1>5. Placed(o, j)
  BY <1>2, <1>3 DEF Placed, Alike, Fated
<1>6. polls' \in 0..MaxPolls /\ faults' \in 0..MaxFaults
  BY <1>1, Bounds
<1> HIDE DEF k
<1> QED BY <1>1, <1>3, <1>4, <1>5, <1>6, WorkerGoes

\* Fencing what is in doubt extends the fences.
LEMMA FenceDoubtFacts ==
    ASSUME TypeOK, NEW w \in Workers, NEW mode \in {"apply", "undo"}, wk[w].op \in Ops, FenceDoubt(w, mode)
    PROVE  /\ fence' \in [Accounts -> SUBSET (Ops \cup [mode : {"apply", "undo"}, op : Ops])]
           /\ \A a \in Accounts : fence[a] \subseteq fence'[a]
<1> DEFINE m == [mode |-> mode, op |-> wk[w].op]
<1>1. m \in [mode : {"apply", "undo"}, op : Ops]
  OBVIOUS
<1>2. fence \in [Accounts -> SUBSET (Ops \cup [mode : {"apply", "undo"}, op : Ops])]
  BY DEF TypeOK
<1>3. \/ wk[w].stage \in Accounts /\ fence' = [fence EXCEPT ![wk[w].stage] = @ \cup {m}]
      \/ fence' = fence
  BY DEF FenceDoubt
<1> HIDE DEF m
<1> QED BY <1>1, <1>2, <1>3

\* Check: an unknown COMMIT that is found in the journal counts, and one that
\* is not leaves the task to review or to compensation.
LEMMA CheckStep ==
    ASSUME NEW o \in Ops, Core(o), NEW w \in Workers, Check(w)
    PROVE  Core(o)'
<1> DEFINE k == wk[w]
<1>1. TypeOK /\ k.pc = "check" /\ k.pc \in Working \ {"reread", "begin", "release"} /\ k \in Worker
      /\ k.stage \in Stages
  BY Parts, Names DEF Core, Check, Worker
<1>2. k.op = o /\ Based /\ k.row \in Rows /\ k.row.tokenCharged = task.tokenCharged
  BY <1>1, WorkerFacts
<1>3. Placed(o, k) /\ Doubtful(o)
  BY DEF Core, Billed
<1>4. Due(o, k.stage) /\ (doubt # None => doubt.mode = "apply" /\ doubt.stage = k.stage)
  BY <1>1, <1>3 DEF Placed, Fated
<1>5. UNCHANGED <<task, ledger, charge, doubt, sub, redis, bulk, pass, polls, faults>>
  BY DEF Check, bounds
<1>6. CASE Duplicate(w) /\ Advance(w) /\ UNCHANGED fence
  <2>1. St(o, k.stage) = "applied"
    BY <1>2, <1>6 DEF Duplicate, St
  <2>2. doubt = None
    BY <1>2, <1>3, <1>4, <2>1 DEF Doubtful, Sendable, Fated
  <2>3. /\ fence' \in [Accounts -> SUBSET (Ops \cup [mode : {"apply", "undo"}, op : Ops])]
        /\ \A a \in Accounts : fence[a] \subseteq fence'[a]
    BY <1>1, <1>6, FenceTypes
  <2>4. PICK m \in [Accounts -> Shown], n \in Snapshots : TRUE
    <3>1. NotApplied \in [Accounts -> Shown]
      BY Names
    <3> QED BY <1>1, <3>1, SnapshotFacts
  <2>5. CASE k.stage = "funding" /\ k.row.tokenCharged
    <3>1. wk' = [wk EXCEPT ![w].pc = "apply", ![w].stage = "token"]
      BY <2>5, <1>6 DEF Advance
    <3>2. Due(o, "token") /\ St(o, "token") = "none"
      BY <1>2, <1>4, <2>1, <2>5 DEF Due
    <3>3. "apply" \in Working \ {"reread", "begin", "fence"} /\ "token" \in Stages
      BY Names
    <3> QED BY <1>1, <1>5, <2>2, <2>3, <2>4, <3>1, <3>2, <3>3, WorkerTurns
  <2>6. CASE k.stage = "finalize"
    <3>1. wk' = [wk EXCEPT ![w].pc = "record"]
      BY <2>6, <1>6 DEF Advance, Goto
    <3>2. "record" \in Working \ {"reread", "begin", "fence"}
      BY Names
    <3>3. St(o, "finalize") = "applied"
      BY <2>1, <2>6
    <3> QED BY <1>1, <1>5, <2>2, <2>3, <2>4, <3>1, <3>2, <3>3, WorkerTurns
  <2>7. CASE k.stage # "finalize" /\ ~(k.stage = "funding" /\ k.row.tokenCharged)
    <3>1. wk' = [wk EXCEPT ![w].pc = "apply", ![w].stage = "finalize"]
      BY <2>7, <1>6 DEF Advance
    <3>2. Due(o, "finalize") /\ St(o, "finalize") = "none"
      BY <1>1, <1>2, <1>4, <2>1, <2>7, Names DEF Due
    <3>3. "apply" \in Working \ {"reread", "begin", "fence"} /\ "finalize" \in Stages
      BY Names
    <3> QED BY <1>1, <1>5, <2>2, <2>3, <2>4, <3>1, <3>2, <3>3, WorkerTurns
  <2> QED BY <2>5, <2>6, <2>7
<1>7. CASE /\ FenceDoubt(w, "apply")
           /\ CASE wk[w].stage = "funding" -> Review(w, [NotApplied EXCEPT !["funding"] = "pending"])
                [] wk[w].stage = "token" -> wk' = [wk EXCEPT ![w].pc = "recheck", ![w].missing = Pending(wk[w].row)]
                [] wk[w].stage = "finalize" -> Review(w, [a \in Accounts |-> "pending"])
  <2>1. /\ fence' \in [Accounts -> SUBSET (Ops \cup [mode : {"apply", "undo"}, op : Ops])]
        /\ \A a \in Accounts : fence[a] \subseteq fence'[a]
    BY <1>1, <1>2, <1>7, FenceDoubtFacts
  <2>2. PICK m \in [Accounts -> Shown] :
            \/ wk' = [wk EXCEPT ![w].pc = "review", ![w].missing = m]
            \/ wk' = [wk EXCEPT ![w].pc = "recheck", ![w].missing = m] /\ k.stage = "token"
    <3>1. [NotApplied EXCEPT !["funding"] = "pending"] \in [Accounts -> Shown]
          /\ [a \in Accounts |-> "pending"] \in [Accounts -> Shown] /\ Pending(k.row) \in [Accounts -> Shown]
      BY <1>2, Names
    <3>2. CASE k.stage = "funding"
      BY <3>1, <3>2, <1>7 DEF Review
    <3>3. CASE k.stage = "token"
      BY <3>1, <3>3, <1>7
    <3>4. CASE k.stage = "finalize"
      BY <3>1, <3>4, <1>7 DEF Review
    <3> QED BY <1>1, <3>2, <3>3, <3>4, Names
  <2>3. PICK n \in Snapshots : TRUE
    BY <1>1, SnapshotFacts
  <2>4. {"review", "recheck"} \subseteq Working \ {"reread", "begin", "fence"}
    BY Names
  <2>5. CASE wk' = [wk EXCEPT ![w].pc = "review", ![w].missing = m]
    BY <1>1, <1>5, <2>1, <2>3, <2>4, <2>5, WorkerTurns
  <2>6. CASE wk' = [wk EXCEPT ![w].pc = "recheck", ![w].missing = m] /\ k.stage = "token"
    <3>1. PICK s \in Stages : s = wk[w].stage /\ s = "token"
      BY <1>1, <2>6
    <3>2. wk[w].pc \in Working \ {"reread", "begin", "release"}
      BY <1>1
    <3> QED BY <1>5, <2>1, <2>3, <2>4, <2>6, <3>1, <3>2, WorkerTurns
  <2> QED BY <2>2, <2>5, <2>6
<1> QED BY <1>6, <1>7 DEF Check

\* Recheck and UndoCheck.
LEMMA RecheckStep ==
    ASSUME NEW o \in Ops, Core(o), NEW w \in Workers, Recheck(w)
    PROVE  Core(o)'
<1> DEFINE k == wk[w]
<1>1. TypeOK /\ k.pc = "recheck" /\ k.pc \in Working \ {"reread", "begin", "release"} /\ k \in Worker
      /\ k.stage \in Stages
  BY Parts, Names DEF Core, Recheck, Worker
<1>2. k.stage = "token"
  <2>1. Placed(o, k)
    BY DEF Core, Billed
  <2> QED BY <1>1, <2>1 DEF Placed, Fated
<1>3. UNCHANGED <<task, ledger, charge, doubt, sub, redis, bulk, pass, polls, faults, fence>>
  BY DEF Recheck, bounds
<1>4. /\ fence' \in [Accounts -> SUBSET (Ops \cup [mode : {"apply", "undo"}, op : Ops])]
      /\ \A a \in Accounts : fence[a] \subseteq fence'[a]
  BY <1>1, <1>3, FenceTypes
<1>5. PICK m \in [Accounts -> Shown], n \in Snapshots : TRUE
  <2>1. NotApplied \in [Accounts -> Shown]
    BY Names
  <2> QED BY <1>1, <2>1, SnapshotFacts
<1>6. {"review", "undo"} \subseteq Working \ {"reread", "begin", "fence"} /\ "token" \in Accounts
  BY Names
<1>7. CASE wk' = [wk EXCEPT ![w].pc = "review"]
  BY <1>1, <1>3, <1>4, <1>5, <1>6, <1>7, WorkerTurns
<1>8. CASE wk' = [wk EXCEPT ![w].pc = "undo"]
  <2>1. PICK s \in Stages : s = wk[w].stage /\ s = "token"
    BY <1>1, <1>2
  <2>2. wk[w].pc \in Working \ {"reread", "begin", "release"}
    BY <1>1
  <2>3. wk' = [wk EXCEPT ![w].pc = "undo"] /\ s \in Accounts
    BY <1>6, <1>8, <2>1
  <2> QED BY <1>3, <1>4, <1>5, <1>6, <2>1, <2>2, <2>3, WorkerTurns
<1> QED BY <1>7, <1>8 DEF Recheck, Goto

LEMMA UndoCheckStep ==
    ASSUME NEW o \in Ops, Core(o), NEW w \in Workers, UndoCheck(w)
    PROVE  Core(o)'
<1> DEFINE k == wk[w]
<1>1. TypeOK /\ k.pc = "undoCheck" /\ k.pc \in Working \ {"reread", "begin", "release"} /\ k \in Worker
      /\ k.stage \in Stages /\ k.pc \in Working
  BY Parts, Names DEF Core, UndoCheck, Worker
<1>2. UNCHANGED <<task, ledger, charge, doubt, sub, redis, bulk, pass, polls, faults>>
  BY DEF UndoCheck, bounds
<1>3. PICK m \in [Accounts -> Shown], n \in Snapshots : TRUE
  <2>1. NotApplied \in [Accounts -> Shown]
    BY Names
  <2> QED BY <1>1, <2>1, SnapshotFacts
<1>4. {"review", "undo"} \subseteq Working \ {"reread", "begin", "fence"} /\ "funding" \in Accounts
      /\ "funding" \in Stages
  BY Names
<1>5. /\ fence' \in [Accounts -> SUBSET (Ops \cup [mode : {"apply", "undo"}, op : Ops])]
      /\ \A a \in Accounts : fence[a] \subseteq fence'[a]
  <2>1. CASE UNCHANGED fence
    BY <1>1, <2>1, FenceTypes
  <2>2. CASE FenceDoubt(w, "undo")
    <3>1. wk[w].op \in Ops
      BY <1>1, WorkerFacts
    <3> QED BY <1>1, <2>2, <3>1, FenceDoubtFacts
  <2> QED BY <2>1, <2>2 DEF UndoCheck
<1>6. CASE wk' = [wk EXCEPT ![w].pc = "review"]
  BY <1>1, <1>2, <1>3, <1>4, <1>5, <1>6, WorkerTurns
<1>7. CASE wk' = [wk EXCEPT ![w].pc = "undo", ![w].stage = "funding"]
  BY <1>1, <1>2, <1>3, <1>4, <1>5, <1>7, WorkerTurns
<1> QED BY <1>6, <1>7 DEF UndoCheck, Undone, Goto

\* ReviewRead and Release.
LEMMA ReviewReadStep ==
    ASSUME NEW o \in Ops, Core(o), NEW w \in Workers, ReviewRead(w)
    PROVE  Core(o)'
<1> DEFINE k == wk[w]
           n == Snapshot(k.op, k.missing)
<1>1. TypeOK /\ k.pc = "review" /\ k.pc \in Working \ {"reread", "begin", "release"} /\ k \in Worker
      /\ k.stage \in Stages /\ k.missing \in [Accounts -> Shown] /\ k.pc \in Working
  BY Parts, Names DEF Core, ReviewRead, Worker
<1>2. UNCHANGED <<task, ledger, charge, doubt, sub, redis, bulk, pass, polls, faults, fence>>
  BY DEF ReviewRead, bounds
<1>3. /\ fence' \in [Accounts -> SUBSET (Ops \cup [mode : {"apply", "undo"}, op : Ops])]
      /\ \A a \in Accounts : fence[a] \subseteq fence'[a]
  BY <1>1, <1>2, FenceTypes
<1>4. n \in Snapshots
  <2>1. k.op = o
    BY <1>1, WorkerFacts
  <2> QED BY <1>1, <2>1, SnapshotFacts
<1>5. "reviewed" \in Working \ {"reread", "begin", "fence"}
  BY Names
<1>6. wk' = [wk EXCEPT ![w].pc = "reviewed", ![w].snap = n]
  BY DEF ReviewRead
<1> HIDE DEF n
<1> QED BY <1>1, <1>2, <1>3, <1>4, <1>5, <1>6, WorkerTurns

LEMMA ReleaseStep ==
    ASSUME NEW o \in Ops, Core(o), NEW w \in Workers, Release(w)
    PROVE  Core(o)'
<1>1. wk[w].pc \in Working
  BY Names DEF Release
<1> QED BY <1>1, WorkerLeaves DEF Release, bounds

\* BeginFences: the fences are up before a stage can be applied.
LEMMA BeginFencesStep ==
    ASSUME NEW o \in Ops, Core(o), NEW w \in Workers, BeginFences(w)
    PROVE  Core(o)'
<1> DEFINE k == wk[w]
           T == SUBSET (Ops \cup [mode : {"apply", "undo"}, op : Ops])
<1>1. TypeOK /\ k.pc = "fence" /\ k.pc \in Working \ {"reread", "begin", "release"} /\ k \in Worker
      /\ k.stage \in Stages /\ k.pc \in Working /\ fence \in [Accounts -> T]
  BY Parts, Names DEF Core, BeginFences, Worker, TypeOK
<1>2. k.op = o /\ k.row \in Rows /\ k.row.tokenCharged = task.tokenCharged /\ k.delta = Diff(o)
      /\ Fated(o)
  BY <1>1, WorkerFacts
<1>3. UNCHANGED <<task, ledger, charge, doubt, sub, redis, bulk, pass, polls>>
  BY DEF BeginFences
<1>4. Blank(o) /\ doubt = None /\ task.bill # "ready"
  <2>1. Placed(o, k)
    BY DEF Core, Billed
  <2> QED BY <1>1, <2>1 DEF Placed, Fated
<1>5. CASE /\ fence' = [a \in Accounts |-> IF a \in Fenced(w) THEN fence[a] \cup {k.op} ELSE fence[a]]
           /\ wk' = [wk EXCEPT ![w].pc = "apply", ![w].stage = "funding"]
           /\ UNCHANGED faults
  <2> DEFINE j == Staged(k, "apply", "funding")
  <2>1. fence' \in [Accounts -> T]
    BY <1>1, <1>2, <1>5
  <2>2. wk' = [wk EXCEPT ![w] = j]
    BY <1>1, <1>5 DEF Staged, TypeOK
  <2>3. j \in Worker /\ j.pc = "apply" /\ Alike(j, k) /\ j.stage = "funding"
    <3>1. "apply" \in Pcs /\ "funding" \in Stages
      BY Names
    <3> QED BY <1>1, <3>1, WorkerEdits
  <2>4. "apply" \in Working
    BY Names
  <2> HIDE DEF j
  <2>5. Copied(j)
    BY <1>2, <2>3 DEF Copied, Alike
  <2>6. Placed(o, j)
    <3>1. St(o, "funding") = "none" /\ Due(o, "funding")
      BY <1>4, Names DEF Blank, Due
    <3> QED BY <1>2, <1>4, <2>3, <3>1 DEF Placed, Alike, Fated
  <2>7. Guarded(o)'
    <3>1. task'.tokenCharged = k.row.tokenCharged /\ redis' = redis
      BY <1>2, <1>3
    <3>2. redis => \A a \in Accounts : (a = "token" => k.row.tokenCharged) => a \in Fenced(w)
      BY DEF Fenced
    <3>3. \A a \in Fenced(w) : a \in Accounts => o \in fence'[a]
      BY <1>2, <1>5
    <3> QED BY <3>1, <3>2, <3>3 DEF Guarded
  <2>8. polls' \in 0..MaxPolls /\ faults' \in 0..MaxFaults
    BY <1>1, <1>3, <1>5, Bounds
  <2> QED BY <1>1, <1>3, <2>1, <2>2, <2>3, <2>4, <2>5, <2>6, <2>7, <2>8, WorkerMoves
<1>6. CASE /\ Fault
           /\ \/ UNCHANGED fence
              \/ redis /\ fence' = [fence EXCEPT !["funding"] = @ \cup {k.op}]
           /\ Review(w, NotApplied)
  <2>1. fence' \in [Accounts -> T] /\ \A a \in Accounts : fence[a] \subseteq fence'[a]
    BY <1>1, <1>2, <1>6, Names
  <2>2. NotApplied \in [Accounts -> Shown] /\ "review" \in Working \ {"reread", "begin", "fence"}
    BY Names
  <2>3. PICK n \in Snapshots : TRUE
    BY <1>1, <2>2, SnapshotFacts
  <2>4. wk' = [wk EXCEPT ![w].pc = "review", ![w].missing = NotApplied]
    BY <1>6 DEF Review
  <2> QED BY <1>1, <1>3, <1>6, <2>1, <2>2, <2>3, <2>4, WorkerTurns
<1> QED BY <1>5, <1>6 DEF BeginFences

-----------------------------------------------------------------------------
(* Workers that write the row.                                              *)

\* A worker that changes the billing status or the private data of the row.
LEMMA RowStep ==
    ASSUME NEW o \in Ops, Core(o), NEW w \in Workers, wk[w].pc \in Working \ {"reread"},
           NEW p \in {"fence", "complete", "release"}, wk' = [wk EXCEPT ![w].pc = p], doubt = None,
           UNCHANGED <<ledger, charge, doubt, fence, sub, redis, bulk, pass, polls>>, Fault \/ UNCHANGED faults,
           task' \in Rows, task'.status = task.status, task'.quota = task.quota,
           task'.tokenCharged = task.tokenCharged,
           task'.bill # "pending", task'.bill # "manual" => task'.accounted, Honest(task'),
           task'.bill = "ready" => p = "release" /\ St(o, "finalize") = "applied",
           p = "fence" => Blank(o), p = "complete" => St(o, "finalize") = "applied"
    PROVE  Core(o)'
<1> DEFINE k == wk[w]
<1>1. TypeOK /\ k \in Worker /\ k.pc \in Working /\ p \in Pcs /\ p \in Working
      /\ Journal(o) /\ Balanced(o) /\ (Exposed(o) => Guarded(o))
  BY Parts, Names DEF Core, Billed
<1>2. /\ Based /\ Fated(o) /\ k.op = o /\ task.status \in Terminal
      /\ \A v \in Workers \ {w} : wk[v].pc \notin Working
      /\ k.row \in Rows /\ k.row.tokenCharged = task.tokenCharged /\ k.delta = Diff(o)
  BY <1>1, WorkerFacts
<1>3. PICK j \in Worker : wk' = [wk EXCEPT ![w] = j] /\ j.pc = p /\ Alike(j, k)
  <2> DEFINE i == Turned(k, p)
  <2>1. wk' = [wk EXCEPT ![w] = i]
    BY <1>1 DEF Turned, TypeOK
  <2>2. i \in Worker /\ i.pc = p /\ Alike(i, k)
    BY <1>1, WorkerEdits
  <2> HIDE DEF i
  <2> QED BY <2>1, <2>2
<1>4. j.pc = p /\ Alike(j, k)
  BY <1>3
<1>5. /\ charge' \in [Accounts \cup {"used"} -> Actuals \cup {0, Pre}]
      /\ ledger' \in [Keys -> [st : {"none", "applied", "undone"}, delta : Deltas]]
      /\ doubt' \in Txs \cup {None}
      /\ fence' \in [Accounts -> SUBSET (Ops \cup [mode : {"apply", "undo"}, op : Ops])]
  BY <1>1 DEF TypeOK
<1>6. polls' \in 0..MaxPolls /\ faults' \in 0..MaxFaults
  BY <1>1, Bounds
<1>7. Based'
  BY <1>2 DEF Based
<1>8. Journal(o)'
  <2>1. \A q \in Ops, s \in Stages : St(q, s)' = St(q, s)
    BY DEF St
  <2> QED BY <1>1, <1>7, <2>1, Names DEF Journal, Fated
<1>9. Balanced(o)'
  BY <1>1 DEF Balanced, Moved, St, TokenShare, Based
<1>10. Doubtful(o)'
  BY DEF Doubtful
<1>11. Exposed(o)' => Guarded(o)'
  <2> SUFFICES ASSUME Exposed(o)' PROVE Guarded(o)'
    OBVIOUS
  <2>1. \A v \in Workers : wk'[v].pc # "apply"
    <3>1. wk'[w] = j /\ \A v \in Workers \ {w} : wk'[v] = wk[v]
      BY <1>1, <1>3 DEF TypeOK
    <3> QED BY <3>1, <1>2, <1>4, Names
  <2>2. Unfinished(o)'
    BY <2>1 DEF Exposed
  <2>3. Unfinished(o)
    BY <2>2 DEF Unfinished, St
  <2> QED BY <1>1, <2>3 DEF Exposed, Guarded
<1>12. Copied(j)'
  BY <1>2, <1>4 DEF Copied, Alike
<1>13. Placed(o, j)'
  <2>1. \A s \in Stages : St(o, s)' = St(o, s)
    BY DEF St
  <2>2. Blank(o)' <=> Blank(o)
    BY <2>1 DEF Blank
  <2> QED BY <1>2, <1>4, <2>1, <2>2, Names DEF Placed, Alike, Fated
<1> QED
  BY <1>1, <1>3, <1>4, <1>5, <1>6, <1>7, <1>8, <1>9, <1>10, <1>11, <1>12, <1>13, WorkerStep

\* BeginBillingReconciliation: only a ready row is taken.
LEMMA BeginStep ==
    ASSUME NEW o \in Ops, Core(o), NEW w \in Workers, BeginBillingReconciliation(w)
    PROVE  Core(o)'
<1> DEFINE k == wk[w]
           row == [task EXCEPT !.bill = "reconciling", !.snap = k.snap, !.accounted = k.row.accounted]
<1>1. TypeOK /\ k.pc = "begin" /\ k.pc \in Working \ {"reread"} /\ k.pc \in Working /\ task \in Rows
      /\ Placed(o, k)
  BY Parts, Names DEF Core, BeginBillingReconciliation, Billed
<1>2. doubt = None /\ UNCHANGED <<ledger, charge, doubt, fence, sub, redis, bulk, pass, polls, faults>>
  BY DEF BeginBillingReconciliation, Unlocked, bounds
<1>3. CASE task' = row /\ Goto(w, "fence")
  <2>1. Blank(o) /\ k.row.accounted /\ k.snap \in Snapshots /\ k.snap.funding # "not_applied"
    BY <1>1 DEF Placed, Fated
  <2>2. k.row.accounted \in BOOLEAN
    BY <1>1, WorkerFacts DEF Rows
  <2>3. task' \in Rows /\ task'.status = task.status /\ task'.quota = task.quota
        /\ task'.tokenCharged = task.tokenCharged /\ task'.bill = "reconciling" /\ task'.snap = k.snap
        /\ task'.accounted = k.row.accounted
    BY <1>1, <1>3, <2>1, <2>2 DEF Rows
  <2>4. Honest(task')
    BY <2>1, <2>3 DEF Honest
  <2>5. wk' = [wk EXCEPT ![w].pc = "fence"]
    BY <1>3 DEF Goto
  <2> QED BY <1>1, <1>2, <2>1, <2>3, <2>4, <2>5, RowStep
<1>4. CASE Return(w) /\ UNCHANGED task
  BY <1>1, <1>2, <1>4, WorkerLeaves
<1> QED BY <1>3, <1>4 DEF BeginBillingReconciliation

\* ReviewWrite: the task is left to review if the operation still has it.
LEMMA ReviewWriteStep ==
    ASSUME NEW o \in Ops, Core(o), NEW w \in Workers, ReviewWrite(w)
    PROVE  Core(o)'
<1> DEFINE k == wk[w]
<1>1. TypeOK /\ k.pc = "reviewed" /\ k.pc \in Working \ {"reread"} /\ k.pc \in Working /\ task \in Rows
      /\ Placed(o, k)
  BY Parts, Names DEF Core, ReviewWrite, Billed
<1>2. doubt = None /\ UNCHANGED <<ledger, charge, doubt, fence, sub, redis, bulk, pass, polls, faults>>
  BY DEF ReviewWrite, Unlocked, bounds
<1>3. CASE task' = [task EXCEPT !.bill = "manual", !.snap = k.snap] /\ Goto(w, "release")
  <2>1. k.snap \in Snapshots
    BY <1>1 DEF Placed, Fated
  <2>2. task' \in Rows /\ task'.status = task.status /\ task'.quota = task.quota
        /\ task'.tokenCharged = task.tokenCharged /\ task'.bill = "manual"
    BY <1>1, <1>3, <2>1 DEF Rows
  <2>3. Honest(task')
    BY <2>2 DEF Honest
  <2>4. wk' = [wk EXCEPT ![w].pc = "release"]
    BY <1>3 DEF Goto
  <2> QED BY <1>1, <1>2, <2>2, <2>3, <2>4, RowStep
<1>4. CASE Return(w) /\ UNCHANGED task
  BY <1>1, <1>2, <1>4, WorkerLeaves
<1> QED BY <1>3, <1>4 DEF ReviewWrite

\* Record: a finished operation is recorded, and the task is ready again.
LEMMA RecordStep ==
    ASSUME NEW o \in Ops, Core(o), NEW w \in Workers, Record(w)
    PROVE  Core(o)'
<1> DEFINE k == wk[w]
           n == Snapshot(k.op, Pending(k.row))
<1>1. TypeOK /\ k.pc \in {"record", "complete"} /\ k.pc \in Working \ {"reread", "begin", "release"} /\ k.pc \in Working
      /\ task \in Rows /\ Placed(o, k) /\ k \in Worker /\ k.stage \in Stages
  BY Parts, Names DEF Core, Record, Billed, Worker
<1>2. doubt = None /\ UNCHANGED <<ledger, charge, doubt, fence, sub, redis, bulk, pass, polls>>
  BY DEF Record, Unlocked
<1>3. St(o, "finalize") = "applied"
  BY <1>1 DEF Placed, Fated
<1>4. k.op = o /\ k.row \in Rows /\ Based
  BY <1>1, WorkerFacts
<1>5. n \in Snapshots /\ n.funding # "not_applied"
  <2>1. Pending(k.row) \in [Accounts -> Shown] /\ Pending(k.row)["funding"] = "pending"
    BY <1>4, Names
  <2> QED BY <1>1, <1>4, <2>1, SnapshotFacts
<1> HIDE DEF n
<1>6. task.bill = "reconciling" => task.accounted
  BY <1>4 DEF Core, Submitting
<1>7. CASE task.bill = "reconciling" /\ Goto(w, "complete") /\ task' = [task EXCEPT !.snap = n] /\ UNCHANGED faults
  <2>1. task' \in Rows /\ task'.status = task.status /\ task'.quota = task.quota
        /\ task'.tokenCharged = task.tokenCharged /\ task'.bill = "reconciling" /\ task'.snap = n
        /\ task'.accounted = task.accounted
    BY <1>1, <1>5, <1>7 DEF Rows
  <2>2. Honest(task')
    BY <2>1, <1>5 DEF Honest
  <2>3. wk' = [wk EXCEPT ![w].pc = "complete"]
    BY <1>7 DEF Goto
  <2> QED BY <1>1, <1>2, <1>3, <1>6, <1>7, <2>1, <2>2, <2>3, RowStep
<1>8. CASE task.bill = "reconciling" /\ Goto(w, "release") /\ task' = [task EXCEPT !.bill = "ready"] /\ UNCHANGED faults
  <2>1. task' \in Rows /\ task'.status = task.status /\ task'.quota = task.quota
        /\ task'.tokenCharged = task.tokenCharged /\ task'.bill = "ready" /\ task'.snap = task.snap
        /\ task'.accounted = task.accounted
    BY <1>1, <1>8 DEF Rows
  <2>2. Honest(task')
    <3>1. Honest(task)
      BY DEF Core
    <3> QED BY <1>8, <2>1, <3>1 DEF Honest
  <2>3. wk' = [wk EXCEPT ![w].pc = "release"]
    BY <1>8 DEF Goto
  <2> QED BY <1>1, <1>2, <1>3, <1>6, <1>8, <2>1, <2>2, <2>3, RowStep
<1>9. CASE Return(w) /\ UNCHANGED task /\ (Fault \/ UNCHANGED faults)
  BY <1>1, <1>2, <1>9, WorkerLeaves
<1>10. CASE Fault /\ UNCHANGED task /\ Review(w, [a \in Accounts |-> "pending"])
  <2> DEFINE m == [a \in Accounts |-> "pending"]
  <2>1. m \in [Accounts -> Shown] /\ "review" \in Working \ {"reread", "begin", "fence"}
    BY Names
  <2>2. wk' = [wk EXCEPT ![w].pc = "review", ![w].missing = m]
    BY <1>10 DEF Review
  <2>3. /\ fence' \in [Accounts -> SUBSET (Ops \cup [mode : {"apply", "undo"}, op : Ops])]
        /\ \A a \in Accounts : fence[a] \subseteq fence'[a]
    BY <1>1, <1>2, FenceTypes
  <2> HIDE DEF m
  <2> QED BY <1>1, <1>2, <1>5, <1>10, <2>1, <2>2, <2>3, WorkerTurns
<1> QED BY <1>7, <1>8, <1>9, <1>10 DEF Record, Completes, n

-----------------------------------------------------------------------------
(* Transactions of the stages.                                              *)

\* A worker's transaction commits and the worker goes on to the state j.
LEMMA SentStep ==
    ASSUME NEW o \in Ops, Core(o), NEW w \in Workers, wk[w].pc \in Working \ {"reread", "begin", "release"},
           NEW x \in Txs, Sendable(o, x), Commit(x), doubt = None,
           UNCHANGED <<doubt, fence, sub, redis, bulk, pass, polls, faults>>,
           x.mode = "apply" /\ x.stage = "funding" => Exposed(o),
           NEW j \in Worker, wk' = [wk EXCEPT ![w] = j], Alike(j, wk[w]),
           j.pc \in {"apply", "record", "undo", "review"},
           j.pc = "apply" => j.stage # "funding" /\ St(o, j.stage)' = "none" /\ Due(o, j.stage)',
           j.pc = "undo" => j.stage \in Accounts,
           j.pc = "record" => St(o, "finalize")' = "applied"
    PROVE  Core(o)'
<1>1. TypeOK /\ wk[w].pc \in Working /\ (Exposed(o) => Guarded(o)) /\ Placed(o, wk[w])
      /\ Submitting /\ Honest(task)
  BY DEF Core, Billed
<1>2. /\ Based /\ Fated(o) /\ wk[w].op = o /\ task.status \in Terminal
      /\ \A v \in Workers \ {w} : wk[v].pc \notin Working
      /\ wk[w].row \in Rows /\ wk[w].row.tokenCharged = task.tokenCharged /\ wk[w].delta = Diff(o)
  BY <1>1, WorkerFacts
<1>3. /\ task' \in Rows /\ charge' \in [Accounts \cup {"used"} -> Actuals \cup {0, Pre}]
      /\ ledger' \in [Keys -> [st : {"none", "applied", "undone"}, delta : Deltas]]
      /\ Based' /\ Journal(o)' /\ Balanced(o)'
      /\ task'.tokenCharged = task.tokenCharged /\ task'.status = task.status /\ task'.bill = task.bill
      /\ task'.accounted = task.accounted /\ task'.snap = task.snap
      /\ Unfinished(o)' => Unfinished(o) \/ (x.mode = "apply" /\ x.stage = "funding")
  BY <1>2, CommitSound
<1>4. doubt' \in Txs \cup {None} /\ Doubtful(o)'
      /\ fence' \in [Accounts -> SUBSET (Ops \cup [mode : {"apply", "undo"}, op : Ops])]
  BY <1>1 DEF TypeOK, Doubtful
<1>5. polls' \in 0..MaxPolls /\ faults' \in 0..MaxFaults
  BY <1>1, Bounds
<1>6. task.bill # "ready" /\ task.bill # "pending" /\ (task.bill # "manual" => task.accounted)
  BY <1>1, <1>2 DEF Placed, Submitting, Fated
<1>7. Honest(task')
  BY <1>1, <1>3 DEF Honest
<1>8. Exposed(o)' => Guarded(o)'
  <2> SUFFICES ASSUME Exposed(o)' PROVE Guarded(o)'
    OBVIOUS
  <2>1. wk'[w] = j /\ \A v \in Workers \ {w} : wk'[v] = wk[v]
    BY <1>1 DEF TypeOK
  <2>2. ~\E v \in Workers : wk'[v].pc = "apply" /\ wk'[v].stage = "funding"
    BY <1>2, <2>1, Names
  <2>3. Unfinished(o)'
    BY <2>2 DEF Exposed
  <2>4. Exposed(o)
    BY <1>3, <2>3 DEF Exposed
  <2> QED BY <1>1, <1>3, <2>4 DEF Guarded
<1>9. Copied(j)'
  BY <1>2, <1>3 DEF Copied, Alike
<1>10. Placed(o, j)'
  BY <1>2, <1>3, <1>6 DEF Placed, Alike, Fated
<1>11. j.pc \in Working
  BY Names
<1> QED BY <1>1, <1>3, <1>4, <1>5, <1>6, <1>7, <1>8, <1>9, <1>10, <1>11, WorkerStep

\* The outcome of a worker's transaction is unknown.
LEMMA DoubtStep ==
    ASSUME NEW o \in Ops, Core(o), NEW w \in Workers, wk[w].pc \in Working \ {"reread", "begin", "release"},
           NEW x \in Txs, Sendable(o, x), doubt' = x, x.stage = wk[w].stage,
           UNCHANGED <<task, ledger, charge, fence, sub, redis, bulk, pass, polls>>, Fault,
           x.mode = "apply" /\ x.stage = "funding" => Exposed(o),
           NEW p \in {"check", "undoCheck"}, wk' = [wk EXCEPT ![w].pc = p],
           p = "check" <=> x.mode = "apply"
    PROVE  Core(o)'
<1> DEFINE k == wk[w]
<1>1. TypeOK /\ k.pc \in Working /\ (Exposed(o) => Guarded(o)) /\ Placed(o, k) /\ k \in Worker
      /\ Submitting /\ Honest(task) /\ Journal(o) /\ Balanced(o) /\ p \in Pcs /\ p \in Working
  BY Parts, Names DEF Core, Billed
<1>2. /\ Based /\ Fated(o) /\ k.op = o /\ task.status \in Terminal
      /\ \A v \in Workers \ {w} : wk[v].pc \notin Working
      /\ k.row \in Rows /\ k.row.tokenCharged = task.tokenCharged /\ k.delta = Diff(o)
  BY <1>1, WorkerFacts
<1>3. PICK j \in Worker : wk' = [wk EXCEPT ![w] = j] /\ j.pc = p /\ Alike(j, k) /\ j.stage = k.stage
  <2> DEFINE i == Turned(k, p)
  <2>1. wk' = [wk EXCEPT ![w] = i]
    BY <1>1 DEF Turned, TypeOK
  <2>2. i \in Worker /\ i.pc = p /\ Alike(i, k) /\ i.stage = k.stage
    BY <1>1, WorkerEdits
  <2> HIDE DEF i
  <2> QED BY <2>1, <2>2
<1>4. /\ charge' \in [Accounts \cup {"used"} -> Actuals \cup {0, Pre}] /\ task' \in Rows
      /\ ledger' \in [Keys -> [st : {"none", "applied", "undone"}, delta : Deltas]]
      /\ doubt' \in Txs \cup {None}
      /\ fence' \in [Accounts -> SUBSET (Ops \cup [mode : {"apply", "undo"}, op : Ops])]
  BY <1>1 DEF TypeOK
<1>5. polls' \in 0..MaxPolls /\ faults' \in 0..MaxFaults
  BY <1>1, Bounds
<1>6. task.bill # "ready" /\ task.bill # "pending" /\ (task.bill # "manual" => task.accounted)
  BY <1>1, <1>2 DEF Placed, Submitting, Fated
<1>7. Based' /\ Journal(o)'
  BY <1>1, <1>2 DEF Journal, Based, St, Blank, Fated
<1>8. Balanced(o)'
  BY <1>1 DEF Balanced, Based, St, Moved, TokenShare
<1>9. Doubtful(o)'
  BY DEF Doubtful, Sendable, St, Due, Fated
<1>10. Exposed(o)' => Guarded(o)'
  <2> SUFFICES ASSUME Exposed(o)' PROVE Guarded(o)'
    OBVIOUS
  <2>1. wk'[w] = j /\ \A v \in Workers \ {w} : wk'[v] = wk[v]
    BY <1>1, <1>3 DEF TypeOK
  <2>2. ~\E v \in Workers : wk'[v].pc = "apply" /\ wk'[v].stage = "funding"
    BY <1>2, <1>3, <2>1, Names
  <2>3. Unfinished(o)' \/ (x.mode = "apply" /\ x.stage = "funding")
    BY <2>2 DEF Exposed
  <2>4. Exposed(o)
    BY <2>3 DEF Exposed, Unfinished, St
  <2> QED BY <1>1, <2>4 DEF Guarded
<1>11. Copied(j)'
  BY <1>2, <1>3 DEF Copied, Alike
<1>12. Placed(o, j)'
  <2>1. p = "check" => Due(o, k.stage)
    BY DEF Sendable, Fated
  <2>2. Due(o, j.stage) => Due(o, j.stage)'
    BY DEF Due, St
  <2>3. p = "undoCheck" => k.stage \in Accounts
    <3>1. x.mode \in {"apply", "undo"}
      BY DEF Txs
    <3> QED BY <3>1 DEF Sendable, Fated
  <2> QED BY <1>2, <1>3, <1>6, <2>1, <2>2, <2>3 DEF Placed, Alike, Fated
<1> HIDE DEF k
<1> QED BY <1>1, <1>2, <1>3, <1>4, <1>5, <1>6, <1>7, <1>8, <1>9, <1>10, <1>11, <1>12, WorkerStep DEF k

\* ApplyTaskBillingStage: in order, on a row that is the operation's own.
LEMMA ApplyStep ==
    ASSUME NEW o \in Ops, Core(o), NEW w \in Workers, ApplyTaskBillingStage(w)
    PROVE  Core(o)'
<1> DEFINE k == wk[w]
<1>1. TypeOK /\ k.pc = "apply" /\ k.pc \in Working \ {"reread", "begin", "release"} /\ k \in Worker
      /\ k.stage \in Stages /\ k.pc \in Working /\ Placed(o, k) /\ k.op \in Ops \cup {None} /\ k.delta \in Deltas
  BY Parts, Names DEF Core, ApplyTaskBillingStage, Worker, Billed
<1>2. k.op = o /\ k.row \in Rows /\ k.row.tokenCharged = task.tokenCharged /\ k.delta = Diff(o)
      /\ Fated(o) /\ Based
  BY <1>1, WorkerFacts
<1>3. doubt = None /\ UNCHANGED <<fence, sub, redis, bulk, pass, polls>>
  BY DEF ApplyTaskBillingStage, Unlocked
<1>4. Due(o, k.stage) /\ St(o, k.stage) = "none" /\ task.bill # "ready"
  BY <1>1 DEF Placed, Fated
<1>5. ~Duplicate(w)
  BY <1>2, <1>4 DEF Duplicate, St
<1>6. PICK x \in Txs : x = Tx(w, "apply")
  BY <1>1, Names DEF Tx, Txs
<1>7. x.op = o /\ x.stage = k.stage /\ x.delta = Diff(o) /\ x.mode = "apply"
  BY <1>2, <1>6 DEF Tx
<1>8. MayApply(w) => Sendable(o, x) /\ task.bill = "reconciling"
  BY <1>1, <1>2, <1>4, <1>7 DEF MayApply, Owned, Sendable, Fated
<1>9. MayApply(w) /\ x.stage = "funding" => Exposed(o)
  BY <1>1, <1>7, <1>8 DEF Exposed
<1>10. CASE MayApply(w) /\ Commit(Tx(w, "apply")) /\ Advance(w) /\ UNCHANGED <<doubt, faults>>
  <2>1. Commit(x)
    BY <1>6, <1>10 DEF Commit
  <2>2. /\ St(o, x.stage)' = "applied" /\ task'.tokenCharged = task.tokenCharged
        /\ \A s \in Stages \ {x.stage} : St(o, s)' = St(o, s)
    BY <1>2, <1>3, <1>7, <1>8, <1>10, <2>1, CommitSound
  <2>3. Stages = {"funding", "token", "finalize"} /\ {"apply", "record"} \subseteq Pcs
    BY Names
  <2>4. CASE k.stage = "funding" /\ k.row.tokenCharged
    <3>1. wk' = [wk EXCEPT ![w].pc = "apply", ![w].stage = "token"]
      BY <2>4, <1>10 DEF Advance
    <3>2. PICK j \in Worker : wk' = [wk EXCEPT ![w] = j] /\ j.pc = "apply" /\ Alike(j, k) /\ j.stage = "token"
      <4> DEFINE i == Staged(k, "apply", "token")
      <4>1. wk' = [wk EXCEPT ![w] = i]
        BY <3>1, <1>1 DEF Staged, TypeOK
      <4>2. i \in Worker /\ i.pc = "apply" /\ Alike(i, k) /\ i.stage = "token"
        <5>1. "apply" \in Pcs /\ "token" \in Stages
          BY <2>3
        <5> QED BY <1>1, <5>1, WorkerEdits
      <4> HIDE DEF i
      <4> QED BY <4>1, <4>2
    <3>3. St(o, "token")' = "none" /\ St(o, "funding")' = "applied" /\ St(o, "finalize")' = "none"
      BY <1>4, <1>7, <2>2, <2>3, <2>4 DEF Due
    <3>4. Due(o, "token")'
      BY <1>2, <2>2, <2>4, <3>3 DEF Due
    <3> QED BY <1>1, <1>3, <1>7, <1>8, <1>9, <1>10, <2>1, <3>2, <3>3, <3>4, SentStep
  <2>5. CASE k.stage = "finalize"
    <3>1. wk' = [wk EXCEPT ![w].pc = "record"]
      BY <2>5, <1>10 DEF Advance, Goto
    <3>2. PICK j \in Worker : wk' = [wk EXCEPT ![w] = j] /\ j.pc = "record" /\ Alike(j, k)
      <4> DEFINE i == Turned(k, "record")
      <4>1. wk' = [wk EXCEPT ![w] = i]
        BY <3>1, <1>1 DEF Turned, TypeOK
      <4>2. i \in Worker /\ i.pc = "record" /\ Alike(i, k)
        <5>1. "record" \in Pcs
          BY <2>3
        <5> QED BY <1>1, <5>1, WorkerEdits
      <4> HIDE DEF i
      <4> QED BY <4>1, <4>2
    <3>3. St(o, "finalize")' = "applied"
      BY <1>7, <2>2, <2>5
    <3> QED BY <1>1, <1>3, <1>7, <1>8, <1>9, <1>10, <2>1, <3>2, <3>3, SentStep
  <2>6. CASE k.stage # "finalize" /\ ~(k.stage = "funding" /\ k.row.tokenCharged)
    <3>1. wk' = [wk EXCEPT ![w].pc = "apply", ![w].stage = "finalize"]
      BY <2>6, <1>10 DEF Advance
    <3>2. PICK j \in Worker : wk' = [wk EXCEPT ![w] = j] /\ j.pc = "apply" /\ Alike(j, k) /\ j.stage = "finalize"
      <4> DEFINE i == Staged(k, "apply", "finalize")
      <4>1. wk' = [wk EXCEPT ![w] = i]
        BY <3>1, <1>1 DEF Staged, TypeOK
      <4>2. i \in Worker /\ i.pc = "apply" /\ Alike(i, k) /\ i.stage = "finalize"
        <5>1. "apply" \in Pcs /\ "finalize" \in Stages
          BY <2>3
        <5> QED BY <1>1, <5>1, WorkerEdits
      <4> HIDE DEF i
      <4> QED BY <4>1, <4>2
    <3>3. St(o, "finalize")' = "none" /\ St(o, "funding")' = "applied"
          /\ (task'.tokenCharged => St(o, "token")' = "applied")
      BY <1>1, <1>2, <1>4, <1>7, <2>2, <2>3, <2>6 DEF Due
    <3>4. Due(o, "finalize")'
      BY <3>3 DEF Due
    <3> QED BY <1>1, <1>3, <1>7, <1>8, <1>9, <1>10, <2>1, <3>2, <3>3, <3>4, SentStep
  <2> QED BY <2>4, <2>5, <2>6
<1>11. CASE /\ MayApply(w) /\ Fault /\ doubt' = Tx(w, "apply") /\ Goto(w, "check")
            /\ UNCHANGED <<task, ledger, charge>>
  <2>1. doubt' = x /\ wk' = [wk EXCEPT ![w].pc = "check"]
    BY <1>6, <1>11 DEF Goto
  <2> QED BY <1>1, <1>3, <1>7, <1>8, <1>9, <1>11, <2>1, DoubtStep
<1>12. CASE (Fault \/ UNCHANGED faults) /\ Abandon(w) /\ UNCHANGED <<task, ledger, charge, doubt>>
  <2>1. PICK m \in [Accounts -> Shown] :
            \/ wk' = [wk EXCEPT ![w].pc = "review", ![w].missing = m]
            \/ wk' = [wk EXCEPT ![w].pc = "undo", ![w].missing = m] /\ k.stage = "token"
    <3>1. /\ [Pending(k.row) EXCEPT !["token"] = "not_applied"] \in [Accounts -> Shown]
          /\ [a \in Accounts |-> "pending"] \in [Accounts -> Shown] /\ NotApplied \in [Accounts -> Shown]
      BY <1>2, Names
    <3>2. CASE k.stage = "funding"
      BY <3>1, <3>2, <1>12 DEF Abandon, Review
    <3>3. CASE k.stage = "token"
      BY <3>1, <3>3, <1>12 DEF Abandon
    <3>4. CASE k.stage = "finalize"
      BY <3>1, <3>4, <1>12 DEF Abandon, Review
    <3> QED BY <1>1, <3>2, <3>3, <3>4, Names
  <2>2. PICK n \in Snapshots : TRUE
    BY <1>1, SnapshotFacts
  <2>3. {"review", "undo"} \subseteq Working \ {"reread", "begin", "fence"} /\ "token" \in Accounts
    BY Names
  <2>4. /\ fence' \in [Accounts -> SUBSET (Ops \cup [mode : {"apply", "undo"}, op : Ops])]
        /\ \A a \in Accounts : fence[a] \subseteq fence'[a]
    BY <1>1, <1>3, FenceTypes
  <2>5. CASE wk' = [wk EXCEPT ![w].pc = "review", ![w].missing = m]
    BY <1>1, <1>3, <1>12, <2>2, <2>3, <2>4, <2>5, WorkerTurns
  <2>6. CASE wk' = [wk EXCEPT ![w].pc = "undo", ![w].missing = m] /\ k.stage = "token"
    <3>1. PICK s \in Stages : s = wk[w].stage /\ s = "token"
      BY <1>1, <2>6
    <3>2. wk[w].pc \in Working \ {"reread", "begin", "release"} /\ s \in Accounts
      BY <1>1, <2>3, <3>1
    <3> QED BY <1>3, <1>12, <2>2, <2>3, <2>4, <2>6, <3>1, <3>2, WorkerTurns
  <2> QED BY <2>1, <2>5, <2>6
<1> QED BY <1>5, <1>10, <1>11, <1>12 DEF ApplyTaskBillingStage

\* UndoTaskBillingStage: the last stage applied, the token before the funding.
LEMMA UndoStep ==
    ASSUME NEW o \in Ops, Core(o), NEW w \in Workers, UndoTaskBillingStage(w)
    PROVE  Core(o)'
<1> DEFINE k == wk[w]
<1>1. TypeOK /\ k.pc = "undo" /\ k.pc \in Working \ {"reread", "begin", "release"} /\ k \in Worker
      /\ k.stage \in Stages /\ k.pc \in Working /\ Placed(o, k) /\ k.op \in Ops \cup {None} /\ k.delta \in Deltas
  BY Parts, Names DEF Core, UndoTaskBillingStage, Worker, Billed
<1>2. k.op = o /\ k.row \in Rows /\ k.row.tokenCharged = task.tokenCharged /\ k.delta = Diff(o)
      /\ Fated(o) /\ Based
  BY <1>1, WorkerFacts
<1>3. doubt = None /\ UNCHANGED <<fence, sub, redis, bulk, pass, polls>>
  BY DEF UndoTaskBillingStage, Unlocked
<1>4. k.stage \in Accounts
  BY <1>1 DEF Placed, Fated
<1>5. PICK x \in Txs : x = Tx(w, "undo")
  BY <1>1, Names DEF Tx, Txs
<1>6. x.op = o /\ x.stage = k.stage /\ x.delta = Diff(o) /\ x.mode = "undo"
  BY <1>2, <1>5 DEF Tx
<1>7. MayUndo(w) /\ Duplicate(w) => Sendable(o, x)
  <2> SUFFICES ASSUME MayUndo(w), Duplicate(w) PROVE Sendable(o, x)
    OBVIOUS
  <2>1. St(o, k.stage) = "applied"
    BY <1>2 DEF Duplicate, St
  <2>2. St(o, "finalize") # "applied" /\ (k.stage = "funding" => St(o, "token") # "applied")
    BY <1>2 DEF MayUndo, Last
  <2> QED BY <1>1, <1>2, <1>4, <1>6, <2>1, <2>2 DEF Sendable, Fated
<1>8. PICK m \in [Accounts -> Shown], n \in Snapshots : TRUE
  <2>1. NotApplied \in [Accounts -> Shown]
    BY Names
  <2> QED BY <1>1, <2>1, SnapshotFacts
<1>9. {"review", "undo"} \subseteq Working \ {"reread", "begin", "fence"} /\ "funding" \in Accounts
      /\ "funding" \in Stages /\ {"review", "undo"} \subseteq Pcs
  BY Names
<1>10. /\ fence' \in [Accounts -> SUBSET (Ops \cup [mode : {"apply", "undo"}, op : Ops])]
       /\ \A a \in Accounts : fence[a] \subseteq fence'[a]
  BY <1>1, <1>3, FenceTypes
<1>11. CASE MayUndo(w) /\ Duplicate(w) /\ Commit(Tx(w, "undo")) /\ Undone(w) /\ UNCHANGED <<doubt, faults>>
  <2>1. Commit(x) /\ Sendable(o, x)
    BY <1>5, <1>7, <1>11 DEF Commit
  <2>2. PICK j \in Worker : /\ wk' = [wk EXCEPT ![w] = j] /\ Alike(j, k)
                            /\ j.pc = "review" \/ (j.pc = "undo" /\ j.stage = "funding")
    <3>1. CASE wk' = [wk EXCEPT ![w].pc = "review"]
      <4> DEFINE i == Turned(k, "review")
      <4>1. wk' = [wk EXCEPT ![w] = i]
        BY <3>1, <1>1 DEF Turned, TypeOK
      <4>2. i \in Worker /\ i.pc = "review" /\ Alike(i, k)
        BY <1>1, <1>9, WorkerEdits
      <4> HIDE DEF i
      <4> QED BY <4>1, <4>2
    <3>2. CASE wk' = [wk EXCEPT ![w].pc = "undo", ![w].stage = "funding"]
      <4> DEFINE i == Staged(k, "undo", "funding")
      <4>1. wk' = [wk EXCEPT ![w] = i]
        BY <3>2, <1>1 DEF Staged, TypeOK
      <4>2. i \in Worker /\ i.pc = "undo" /\ Alike(i, k) /\ i.stage = "funding"
        BY <1>1, <1>9, WorkerEdits
      <4> HIDE DEF i
      <4> QED BY <4>1, <4>2
    <3> QED BY <3>1, <3>2, <1>11 DEF Undone, Goto
  <2> QED BY <1>1, <1>3, <1>6, <1>9, <1>11, <2>1, <2>2, SentStep
<1>12. CASE Undone(w) /\ UNCHANGED <<task, ledger, charge, doubt, faults>>
  <2>1. CASE wk' = [wk EXCEPT ![w].pc = "review"]
    BY <1>1, <1>3, <1>8, <1>9, <1>10, <1>12, <2>1, WorkerTurns
  <2>2. CASE wk' = [wk EXCEPT ![w].pc = "undo", ![w].stage = "funding"]
    BY <1>1, <1>3, <1>8, <1>9, <1>10, <1>12, <2>2, WorkerTurns
  <2> QED BY <2>1, <2>2, <1>12 DEF Undone, Goto
<1>13. CASE /\ MayUndo(w) /\ Duplicate(w) /\ Fault /\ doubt' = Tx(w, "undo") /\ Goto(w, "undoCheck")
            /\ UNCHANGED <<task, ledger, charge>>
  <2>1. doubt' = x /\ wk' = [wk EXCEPT ![w].pc = "undoCheck"]
    BY <1>5, <1>13 DEF Goto
  <2> QED BY <1>1, <1>3, <1>6, <1>7, <1>13, <2>1, DoubtStep
<1>14. CASE (Fault \/ UNCHANGED faults) /\ Goto(w, "review") /\ UNCHANGED <<task, ledger, charge, doubt>>
  <2>1. wk' = [wk EXCEPT ![w].pc = "review"]
    BY <1>14 DEF Goto
  <2> QED BY <1>1, <1>3, <1>8, <1>9, <1>10, <1>14, <2>1, WorkerTurns
<1> QED BY <1>11, <1>12, <1>13, <1>14 DEF UndoTaskBillingStage

-----------------------------------------------------------------------------
(* The submission, sweeps, spenders and the database.                       *)

\* What the parts of Core depend on: a step that leaves row, journal, balances
\* and workers alone.
LEMMA Quiet ==
    ASSUME NEW o \in Ops, Core(o), UNCHANGED <<task, ledger, charge, wk, redis, bulk, polls>>,
           UNCHANGED pass \/ pass' \in BOOLEAN, faults' \in 0..MaxFaults,
           doubt' \in {doubt, None},
           fence' \in [Accounts -> SUBSET (Ops \cup [mode : {"apply", "undo"}, op : Ops])],
           fence' = Resolved \/ \A a \in Accounts : fence[a] \subseteq fence'[a],
           sub' = sub \/ sub' \in {"review", "done"}
    PROVE  Core(o)'
<1>1. TypeOK /\ Submitting /\ Running /\ Honest(task) /\ OneWorker
      /\ (\A w \in Workers : Copied(wk[w])) /\ Journal(o) /\ Balanced(o) /\ Doubtful(o)
      /\ (\A w \in Workers : Placed(o, wk[w]))
  BY DEF Core, Billed
<1>2. TypeOK'
  BY <1>1 DEF TypeOK
<1>3. Submitting'
  BY <1>1 DEF Submitting, Based, TokenShare
<1>4. Running' /\ Honest(task)' /\ OneWorker'
  BY <1>1 DEF Running, Honest, OneWorker, Based
<1>5. \A w \in Workers : Copied(wk[w])'
  BY <1>1 DEF Copied
<1>6. Journal(o)'
  BY <1>1 DEF Journal, Based, St, Blank, Fated
<1>7. Balanced(o)'
  BY <1>1 DEF Balanced, Based, St, Moved, TokenShare
<1>8. Doubtful(o)'
  BY <1>1 DEF Doubtful, Based, Sendable, St, Due, Fated
<1>9. Exposed(o)' => Guarded(o)'
  <2>1. Exposed(o)' => Exposed(o)
    BY DEF Exposed, Unfinished, St, Based
  <2> QED BY <2>1, GuardStands
<1>10. \A w \in Workers : Placed(o, wk[w])'
  <2> SUFFICES ASSUME NEW w \in Workers PROVE Placed(o, wk[w])'
    OBVIOUS
  <2>1. Placed(o, wk[w])
    BY <1>1
  <2> QED BY <2>1 DEF Placed, Blank, St, Due, Fated
<1> QED BY <1>2, <1>3, <1>4, <1>5, <1>6, <1>7, <1>8, <1>9, <1>10 DEF Core, Billed

\* BaselineCheck, SubmitterCrash, Drop, Spend and the scheduling of passes.
LEMMA QuietSteps ==
    ASSUME NEW o \in Ops, Core(o), BaselineCheck \/ SubmitterCrash \/ Drop \/ Spend \/ Schedule \/ SweepNothing
    PROVE  Core(o)'
<1>1. TypeOK
  BY DEF Core
<1>2. /\ Resolved \in [Accounts -> SUBSET (Ops \cup [mode : {"apply", "undo"}, op : Ops])]
      /\ fence \in [Accounts -> SUBSET (Ops \cup [mode : {"apply", "undo"}, op : Ops])]
      /\ UNCHANGED faults => faults' \in 0..MaxFaults
      /\ Fault => faults' \in 0..MaxFaults
  BY <1>1, FenceTypes, Bounds
<1>3. CASE BaselineCheck
  BY <1>2, <1>3, Quiet DEF BaselineCheck, bounds
<1>4. CASE SubmitterCrash
  BY <1>2, <1>4, Quiet DEF SubmitterCrash
<1>5. CASE Drop
  BY <1>2, <1>5, Quiet DEF Drop, bounds
<1>6. CASE Spend
  BY <1>2, <1>6, Quiet DEF Spend, bounds
<1>7. CASE Schedule \/ SweepNothing
  BY <1>2, <1>7, Quiet DEF Schedule, SweepNothing, bounds
<1> QED BY <1>3, <1>4, <1>5, <1>6, <1>7

\* A worker without an operation moves to another such place.
LEMMA RestingStep ==
    ASSUME NEW o \in Ops, Core(o), NEW w \in Workers, wk[w].pc \notin Working,
           NEW k \in Worker, wk' = [wk EXCEPT ![w] = k], k.pc \notin Working,
           ~Based => k.pc \in {"idle", "mark"}, Copied(k),
           UNCHANGED <<task, ledger, charge, doubt, fence, sub, redis, bulk>>, UNCHANGED pass \/ pass' \in BOOLEAN,
           polls' \in 0..MaxPolls, faults' \in 0..MaxFaults
    PROVE  Core(o)'
<1>1. TypeOK /\ Submitting /\ Running /\ Honest(task) /\ OneWorker
      /\ (\A v \in Workers : Copied(wk[v])) /\ Journal(o) /\ Balanced(o) /\ Doubtful(o)
      /\ (\A v \in Workers : Placed(o, wk[v])) /\ (Exposed(o) => Guarded(o))
  BY DEF Core, Billed
<1>2. wk'[w] = k /\ \A v \in Workers \ {w} : wk'[v] = wk[v]
  BY <1>1 DEF TypeOK
<1>3. TypeOK'
  BY <1>1 DEF TypeOK
<1>4. Submitting'
  BY <1>1, <1>2 DEF Submitting, Based, TokenShare
<1>5. Running' /\ Honest(task)' /\ OneWorker'
  BY <1>1, <1>2 DEF Running, Honest, OneWorker, Based
<1>6. \A v \in Workers : Copied(wk[v])'
  <2> SUFFICES ASSUME NEW v \in Workers PROVE Copied(wk[v])'
    OBVIOUS
  <2>1. wk'[v] = k \/ wk'[v] = wk[v]
    BY <1>2
  <2>2. Copied(wk[v])
    BY <1>1
  <2> QED BY <2>1, <2>2 DEF Copied
<1>7. Journal(o)'
  BY <1>1 DEF Journal, Based, St, Blank, Fated
<1>8. Balanced(o)'
  BY <1>1 DEF Balanced, Based, St, Moved, TokenShare
<1>9. Doubtful(o)'
  BY <1>1 DEF Doubtful, Based, Sendable, St, Due, Fated
<1>10. Exposed(o)' => Guarded(o)'
  <2>1. k.pc # "apply"
    BY Names
  <2>2. Exposed(o)' => Exposed(o)
    BY <1>2, <2>1 DEF Exposed, Unfinished, St, Based
  <2> QED BY <1>1, <2>2 DEF Guarded
<1>11. \A v \in Workers : Placed(o, wk[v])'
  <2> SUFFICES ASSUME NEW v \in Workers PROVE Placed(o, wk[v])'
    OBVIOUS
  <2>1. wk'[v] = k \/ wk'[v] = wk[v]
    BY <1>2
  <2>2. Placed(o, wk[v])
    BY <1>1
  <2> QED BY <2>1, <2>2 DEF Placed, Blank, St, Due, Fated
<1> QED BY <1>3, <1>4, <1>5, <1>6, <1>7, <1>8, <1>9, <1>10, <1>11 DEF Core, Billed

\* Poll, SweepRead and Crash.
LEMMA PollStep ==
    ASSUME NEW o \in Ops, Core(o), NEW w \in Workers, Poll(w)
    PROVE  Core(o)'
<1> DEFINE k == wk[w]
           j == Loaded(k, "polled", task)
<1>1. TypeOK /\ task \in Rows /\ k \in Worker /\ "polled" \in Pcs /\ "polled" \notin Working /\ "idle" \notin Working
      /\ k.pc = "idle"
  BY Parts, Names DEF Core, Poll, Working
<1>2. wk' = [wk EXCEPT ![w] = j]
  BY <1>1 DEF Poll, Loaded, TypeOK
<1>3. j \in Worker /\ j.pc = "polled" /\ j.row = task
  BY <1>1, WorkerEdits
<1> HIDE DEF j
<1>4. Based /\ task.bill = "ready" /\ task.status \notin Terminal
  BY DEF Core, Submitting, Poll
<1>5. task.accounted /\ Honest(task)
  BY <1>4 DEF Core, Submitting
<1>6. task.quota = Pre
  <2>1. St(o, "finalize") = "none"
    <3>1. ~Fated(o)
      BY <1>4, OpFacts
    <3> QED BY <3>1, Names DEF Core, Billed, Journal
  <2>2. task.quota = Pre + 0
    BY <1>4, <2>1 DEF Core, Billed, Balanced, Moved
  <2> QED BY <2>2, AmountFacts
<1>7. Copied(j)
  BY <1>1, <1>3, <1>4, <1>5, <1>6 DEF Copied
<1>8. UNCHANGED <<task, ledger, charge, doubt, fence, sub, redis, bulk, pass, faults>> /\ polls' \in 0..MaxPolls
  BY <1>1, BoundsAssumption DEF Poll, TypeOK
<1>9. faults' \in 0..MaxFaults
  BY <1>1, <1>8, Bounds
<1> QED BY <1>1, <1>2, <1>3, <1>4, <1>7, <1>8, <1>9, RestingStep

LEMMA SweepReadStep ==
    ASSUME NEW o \in Ops, Core(o), NEW w \in Workers, SweepRead(w)
    PROVE  Core(o)'
<1> DEFINE k == wk[w]
           j == Loaded(k, "mark", task)
<1>1. TypeOK /\ task \in Rows /\ k \in Worker /\ "mark" \in Pcs /\ "mark" \notin Working /\ "idle" \notin Working
      /\ k.pc = "idle"
  BY Parts, Names DEF Core, SweepRead, Working
<1>2. wk' = [wk EXCEPT ![w] = j]
  BY <1>1 DEF SweepRead, Loaded, TypeOK
<1>3. j \in Worker /\ j.pc = "mark" /\ j.row = task
  BY <1>1, WorkerEdits
<1> HIDE DEF j
<1>4. Copied(j)
  BY <1>1, <1>3 DEF Copied
<1>5. UNCHANGED <<task, ledger, charge, doubt, fence, sub, redis, bulk, polls, faults>> /\ pass' \in BOOLEAN
  BY DEF SweepRead, bounds
<1>6. polls' \in 0..MaxPolls /\ faults' \in 0..MaxFaults
  BY <1>1, <1>5, Bounds
<1> QED BY <1>1, <1>2, <1>3, <1>4, <1>5, <1>6, RestingStep

LEMMA RestingReturn ==
    ASSUME NEW o \in Ops, Core(o), NEW w \in Workers, wk[w].pc \notin Working, Return(w),
           UNCHANGED <<task, ledger, charge, doubt, fence, sub, redis, bulk, pass, polls>>, Fault \/ UNCHANGED faults
    PROVE  Core(o)'
<1>1. TypeOK /\ Idle \in Worker /\ Idle.pc = "idle" /\ "idle" \notin Working
  BY Names DEF Core, Working
<1>2. wk' = [wk EXCEPT ![w] = Idle]
  BY DEF Return
<1>3. Copied(Idle)
  BY <1>1 DEF Copied
<1>4. polls' \in 0..MaxPolls /\ faults' \in 0..MaxFaults
  BY <1>1, Bounds
<1> HIDE DEF Idle
<1> QED BY <1>1, <1>2, <1>3, <1>4, RestingStep

LEMMA CrashStep ==
    ASSUME NEW o \in Ops, Core(o), NEW w \in Workers, Crash(w)
    PROVE  Core(o)'
<1>1. Return(w) /\ UNCHANGED <<task, ledger, charge, doubt, fence, sub, redis, bulk, pass, polls>> /\ Fault
  BY DEF Crash
<1>2. CASE wk[w].pc \in Working
  BY <1>1, <1>2, WorkerLeaves
<1>3. CASE wk[w].pc \notin Working
  BY <1>1, <1>3, RestingReturn
<1> QED BY <1>2, <1>3

\* A row that waits for review: marked by the submitting request or by a sweep.
LEMMA MarkStep ==
    ASSUME NEW o \in Ops, Core(o), doubt = None,
           \/ UNCHANGED task
           \/ /\ task.bill \in {"pending", "reconciling"} /\ task' \in Rows /\ task'.bill = "manual"
              /\ task'.status = task.status /\ task'.quota = task.quota
              /\ task'.tokenCharged = task.tokenCharged,
           UNCHANGED <<ledger, charge, doubt, fence, redis, bulk, pass, polls, faults>>,
           sub' = sub \/ sub' = "done",
           \A v \in Workers : wk'[v] = wk[v] \/ wk'[v].pc = "idle",
           wk' \in [Workers -> Worker]
    PROVE  Core(o)'
<1>1. TypeOK /\ Submitting /\ Running /\ Honest(task) /\ OneWorker
      /\ (\A v \in Workers : Copied(wk[v])) /\ Journal(o) /\ Balanced(o)
      /\ (\A v \in Workers : Placed(o, wk[v])) /\ (Exposed(o) => Guarded(o)) /\ task \in Rows
  BY DEF Core, Billed, TypeOK
<1>2. "idle" \notin Working
  BY DEF Working
<1>3. task' \in Rows /\ task'.status = task.status /\ task'.quota = task.quota
      /\ task'.tokenCharged = task.tokenCharged
      /\ ((task'.bill = "manual" /\ task.bill \in {"pending", "reconciling"}) \/ task' = task)
  BY <1>1
<1>4. Based' = Based /\ \A q, s : St(q, s)' = St(q, s)
  BY DEF Based, St
<1>5. TypeOK'
  BY <1>1, <1>3 DEF TypeOK
<1>6. Submitting'
  BY <1>1, <1>2, <1>3, <1>4 DEF Submitting, TokenShare
<1>7. Running'
  BY <1>1, <1>2, <1>3, <1>4 DEF Running
<1>8. Honest(task)'
  BY <1>1, <1>3 DEF Honest
<1>9. OneWorker'
  BY <1>1, <1>2 DEF OneWorker
<1>10. \A v \in Workers : Copied(wk[v])'
  <2> SUFFICES ASSUME NEW v \in Workers PROVE Copied(wk[v])'
    OBVIOUS
  <2>1. Copied(wk[v]) /\ (wk'[v] = wk[v] \/ wk'[v].pc = "idle")
    BY <1>1
  <2> QED BY <1>3, <2>1 DEF Copied
<1>11. Journal(o)'
  BY <1>1, <1>3, <1>4 DEF Journal, Blank, Fated
<1>12. Balanced(o)'
  BY <1>1, <1>3, <1>4 DEF Balanced, Moved, TokenShare
<1>13. Doubtful(o)'
  BY DEF Doubtful
<1>14. Exposed(o)' => Guarded(o)'
  <2>1. Exposed(o)' => Exposed(o)
    BY <1>3, <1>4 DEF Exposed, Unfinished
  <2> QED BY <1>1, <1>3, <2>1 DEF Guarded
<1>15. \A v \in Workers : Placed(o, wk[v])'
  <2> SUFFICES ASSUME NEW v \in Workers PROVE Placed(o, wk[v])'
    OBVIOUS
  <2>1. Placed(o, wk[v]) /\ (wk'[v] = wk[v] \/ wk'[v].pc = "idle")
    BY <1>1
  <2>2. Blank(o)' <=> Blank(o)
    BY <1>4 DEF Blank
  <2>3. \A s \in Stages : Due(o, s)' <=> Due(o, s)
    BY <1>3, <1>4 DEF Due
  <2>4. wk[v].stage \in Stages
    BY <1>1 DEF TypeOK, Worker
  <2>5. CASE wk'[v].pc = "idle"
    BY <2>5, <1>2 DEF Placed, Fated
  <2>6. CASE wk'[v] = wk[v]
    BY <1>2, <1>3, <1>4, <2>1, <2>2, <2>3, <2>4, <2>6 DEF Placed, Fated
  <2> QED BY <2>1, <2>5, <2>6
<1> QED
  BY <1>5, <1>6, <1>7, <1>8, <1>9, <1>10, <1>11, <1>12, <1>13, <1>14, <1>15 DEF Core, Billed

\* SubmissionReview and SweepMark.
LEMMA SubmissionReviewStep ==
    ASSUME NEW o \in Ops, Core(o), SubmissionReview
    PROVE  Core(o)'
<1>1. TypeOK /\ task \in Rows /\ wk \in [Workers -> Worker]
  BY DEF Core, TypeOK
<1>2. \/ UNCHANGED task
      \/ /\ task.bill \in {"pending", "reconciling"} /\ task' \in Rows /\ task'.bill = "manual"
         /\ task'.status = task.status /\ task'.quota = task.quota
         /\ task'.tokenCharged = task.tokenCharged
  BY <1>1 DEF SubmissionReview, MarkBillingManualReview, Reviewable, Rows
<1> QED BY <1>1, <1>2, MarkStep DEF SubmissionReview, Unlocked, bounds

LEMMA SweepMarkStep ==
    ASSUME NEW o \in Ops, Core(o), NEW w \in Workers, SweepMark(w)
    PROVE  Core(o)'
<1>1. TypeOK /\ task \in Rows /\ wk \in [Workers -> Worker] /\ wk[w].pc = "mark"
  BY DEF Core, TypeOK, SweepMark
<1>2. wk[w].row \in Rows
  BY <1>1 DEF Core, Copied
<1>3. \/ UNCHANGED task
      \/ /\ task.bill \in {"pending", "reconciling"} /\ task' \in Rows /\ task'.bill = "manual"
         /\ task'.status = task.status /\ task'.quota = task.quota
         /\ task'.tokenCharged = task.tokenCharged
  <2>1. wk[w].row.snap \in Snapshots \cup {None} /\ wk[w].row.accounted \in BOOLEAN
    BY <1>2 DEF Rows
  <2> DEFINE s == wk[w].row.snap
             b == wk[w].row.accounted
  <2>2. UNCHANGED task \/ (task.bill \in {"pending", "reconciling"} /\ task' = [task EXCEPT !.bill = "manual", !.snap = s, !.accounted = b])
    BY DEF SweepMark, MarkBillingManualReview, Reviewable
  <2> HIDE DEF s, b
  <2>3. s \in Snapshots \cup {None} /\ b \in BOOLEAN
    BY <2>1 DEF s, b
  <2> QED BY <1>1, <2>2, <2>3 DEF Rows
<1>4. wk' = [wk EXCEPT ![w] = Idle] /\ Idle \in Worker /\ Idle.pc = "idle"
  BY Names DEF SweepMark, Return
<1> HIDE DEF Idle
<1>5. wk' \in [Workers -> Worker] /\ \A v \in Workers : wk'[v] = wk[v] \/ wk'[v].pc = "idle"
  BY <1>1, <1>4
<1> QED BY <1>3, <1>5, MarkStep DEF SweepMark, Unlocked, bounds

\* Settle: the price is charged, or some of it.
LEMMA SettleStep ==
    ASSUME NEW o \in Ops, Core(o), Settle
    PROVE  Core(o)'
<1>1. TypeOK /\ Submitting /\ Running /\ Honest(task) /\ OneWorker
      /\ (\A v \in Workers : Copied(wk[v])) /\ Journal(o) /\ Balanced(o) /\ Doubtful(o)
      /\ (\A v \in Workers : Placed(o, wk[v])) /\ (Exposed(o) => Guarded(o)) /\ task \in Rows
  BY DEF Core, Billed, TypeOK
<1>2. sub = "settle" /\ ~Based /\ doubt = None
      /\ UNCHANGED <<task, ledger, doubt, fence, wk, redis, bulk, pass, polls>>
  BY <1>1 DEF Settle, Submitting
<1>3. PICK s \in SUBSET Accounts :
        /\ charge' = Charged(s)
        /\ \/ s = Accounts /\ sub' = "baseline" /\ UNCHANGED faults
           \/ sub' = "review" /\ Fault
  BY DEF Settle
<1>4. /\ charge' \in [Accounts \cup {"used"} -> Actuals \cup {0, Pre}]
      /\ charge'["used"] = 0 /\ charge'["funding"] \in {0, Pre} /\ charge'["token"] \in {0, Pre}
      /\ s = Accounts => charge'["funding"] = Pre /\ charge'["token"] = TokenShare
  <2> DEFINE f == IF "funding" \in s THEN Pre ELSE 0
             t == IF "token" \in s /\ task.tokenCharged THEN Pre ELSE 0
  <2>1. f \in {0, Pre} /\ t \in {0, Pre} /\ (s = Accounts => f = Pre /\ t = TokenShare)
    BY Names DEF TokenShare
  <2>2. charge' = [charge EXCEPT !["funding"] = f, !["token"] = t]
    BY <1>3 DEF Charged
  <2>3. charge \in [{"funding", "token", "used"} -> Actuals \cup {0, Pre}] /\ charge["used"] = 0
        /\ Accounts \cup {"used"} = {"funding", "token", "used"}
    BY <1>1, <1>2, Names DEF TypeOK, Submitting
  <2> HIDE DEF f, t
  <2>4. /\ charge' \in [{"funding", "token", "used"} -> Actuals \cup {0, Pre}]
        /\ charge'["used"] = 0 /\ charge'["funding"] = f /\ charge'["token"] = t
    BY <2>1, <2>2, <2>3
  <2> QED BY <2>1, <2>3, <2>4
<1>5. faults' \in 0..MaxFaults /\ polls' \in 0..MaxPolls
  BY <1>1, <1>2, <1>3, Bounds
<1>6. TypeOK'
  BY <1>1, <1>2, <1>3, <1>4, <1>5 DEF TypeOK
<1>7. ~Based' /\ \A q, t : St(q, t)' = St(q, t)
  BY <1>2 DEF Based, St
<1>8. Submitting'
  BY <1>1, <1>2, <1>3, <1>4, <1>7 DEF Submitting, TokenShare
<1>9. Running' /\ Honest(task)' /\ OneWorker' /\ Balanced(o)' /\ Doubtful(o)'
  BY <1>1, <1>2, <1>7 DEF Running, Honest, OneWorker, Balanced, Doubtful
<1>10. \A v \in Workers : Copied(wk[v])'
  BY <1>1, <1>2 DEF Copied
<1>11. Journal(o)'
  BY <1>1, <1>2, <1>7 DEF Journal, Blank, Based, Fated
<1>12. Exposed(o)' => Guarded(o)'
  BY <1>1, <1>2, <1>7 DEF Exposed, Unfinished, Guarded, Based
<1>13. \A v \in Workers : Placed(o, wk[v])'
  <2>1. \A v \in Workers : wk'[v].pc \notin Working
    BY <1>1, <1>2 DEF Submitting, Working
  <2> QED BY <2>1 DEF Placed, Fated
<1> QED
  BY <1>6, <1>8, <1>9, <1>10, <1>11, <1>12, <1>13 DEF Core, Billed

\* The baseline commits: the task is ready, and accounted for.
LEMMA BaselineCommits ==
    ASSUME NEW o \in Ops, Core(o), ~Based, task.bill = "pending", Commit(BaselineTx),
           charge["funding"] = Pre, charge["token"] = TokenShare,
           doubt' = None, sub' \in {"check", "review", "done"},
           UNCHANGED <<fence, wk, redis, bulk, pass, polls, faults>>
    PROVE  Core(o)'
<1>1. TypeOK /\ Submitting /\ Honest(task) /\ OneWorker
      /\ (\A v \in Workers : Copied(wk[v])) /\ Journal(o) /\ task \in Rows
      /\ charge \in [{"funding", "token", "used"} -> Actuals \cup {0, Pre}] /\ charge["used"] = 0
      /\ task.quota = Pre /\ Accounts \cup {"used"} = {"funding", "token", "used"}
  BY Names DEF Core, Billed, TypeOK, Submitting
<1>2. BaselineTx.stage = "baseline" /\ BaselineTx.mode = "apply" /\ BaselineTx.op = None /\ BaselineTx.delta = Pre
      /\ "baseline" \notin Accounts
  BY Names DEF BaselineTx
<1>3. task' = [task EXCEPT !.bill = "ready", !.accounted = TRUE]
  BY <1>2 DEF Commit
<1>4. task' \in Rows /\ task'.bill = "ready" /\ task'.accounted = TRUE /\ task'.status = task.status
      /\ task'.quota = task.quota /\ task'.tokenCharged = task.tokenCharged /\ task'.snap = task.snap
  BY <1>1, <1>3 DEF Rows
<1>5. charge' = [charge EXCEPT !["used"] = @ + Pre]
  BY <1>2 DEF Commit
<1>6. /\ charge' \in [{"funding", "token", "used"} -> Actuals \cup {0, Pre}]
      /\ charge'["used"] = Pre /\ charge'["funding"] = Pre /\ charge'["token"] = TokenShare
  BY <1>1, <1>5, AmountFacts
<1>7. ledger' = [ledger EXCEPT ![<<None, "baseline">>] = [st |-> "applied", delta |-> Pre]]
  BY <1>2 DEF Commit
<1>8. /\ ledger' \in [Keys -> [st : {"none", "applied", "undone"}, delta : Deltas]] /\ Based'
      /\ \A q \in Ops, s \in Stages : ledger'[<<q, s>>] = ledger[<<q, s>>]
  <2> DEFINE r == [st |-> "applied", delta |-> Pre]
  <2>1. r \in [st : {"none", "applied", "undone"}, delta : Deltas] /\ r.st = "applied"
    BY AmountFacts
  <2>2. ledger' = [ledger EXCEPT ![<<None, "baseline">>] = r]
    BY <1>7
  <2> HIDE DEF r
  <2>3. ledger \in [Keys -> [st : {"none", "applied", "undone"}, delta : Deltas]] /\ <<None, "baseline">> \in Keys
    BY <1>1, KeyFacts DEF TypeOK
  <2>4. ledger'[<<None, "baseline">>] = r
    BY <2>2, <2>3
  <2>5. \A y \in Keys : y # <<None, "baseline">> => ledger'[y] = ledger[y]
    BY <2>2, <2>3
  <2>6. \A q \in Ops, s \in Stages : ledger'[<<q, s>>] = ledger[<<q, s>>]
    BY <2>5, KeyFacts
  <2> QED BY <2>1, <2>2, <2>3, <2>4, <2>6 DEF Based
<1>9. \A q \in Ops, s \in Stages : St(q, s)' = "none"
  <2>1. \A q \in Ops, s \in Stages : St(q, s) = "none"
    BY <1>1 DEF Journal, Fated
  <2> QED BY <1>8, <2>1 DEF St
<1>10. TypeOK'
  BY <1>1, <1>4, <1>6, <1>8 DEF TypeOK
<1>11. Submitting'
  BY <1>4, <1>8 DEF Submitting
<1>12. \A v \in Workers : wk'[v].pc \notin Working
  BY <1>1 DEF Submitting, Working
<1>13. Running' /\ OneWorker'
  BY <1>4, <1>12 DEF Running, OneWorker
<1>14. Honest(task)'
  BY <1>1, <1>4 DEF Honest
<1>15. \A v \in Workers : Copied(wk[v])'
  BY <1>1, <1>4 DEF Copied
<1>16. Journal(o)'
  BY <1>9, Names DEF Journal, Blank, Fated
<1>17. Balanced(o)'
  <2>1. Moved(o, "funding")' = 0 /\ Moved(o, "token")' = 0 /\ Moved(o, "finalize")' = 0
    BY <1>9, Names DEF Moved
  <2>2. TokenShare' = TokenShare /\ TokenShare \in Nat /\ Pre \in Nat
    BY <1>4, AmountFacts DEF TokenShare
  <2> QED BY <1>1, <1>4, <1>6, <2>1, <2>2 DEF Balanced
<1>18. Doubtful(o)'
  BY DEF Doubtful
<1>19. ~Exposed(o)'
  BY <1>4, <1>9, Names DEF Exposed, Unfinished
<1>20. \A v \in Workers : Placed(o, wk[v])'
  BY <1>12 DEF Placed, Fated
<1> QED
  BY <1>10, <1>11, <1>13, <1>14, <1>15, <1>16, <1>17, <1>18, <1>19, <1>20 DEF Core, Billed

LEMMA BaselineStep ==
    ASSUME NEW o \in Ops, Core(o), Baseline
    PROVE  Core(o)'
<1>1. TypeOK /\ Submitting /\ sub = "baseline" /\ doubt = None /\ UNCHANGED <<fence, wk, redis, bulk, pass, polls>>
      /\ Running /\ Honest(task) /\ OneWorker /\ Journal(o) /\ (\A v \in Workers : Copied(wk[v]))
  BY DEF Core, Billed, Baseline, Unlocked
<1>2. ~Based /\ charge["funding"] = Pre /\ charge["token"] = TokenShare /\ task.bill \in {"pending", "manual"}
  BY <1>1 DEF Submitting
<1>3. CASE task.bill # "manual" /\ Commit(BaselineTx) /\ sub' = "done" /\ UNCHANGED <<doubt, faults>>
  BY <1>1, <1>2, <1>3, BaselineCommits
<1>4. CASE /\ task.bill # "manual" /\ Fault /\ doubt' = BaselineTx /\ sub' = "check"
           /\ UNCHANGED <<task, ledger, charge>>
  <2>1. BaselineTx \in Txs
    BY AmountFacts DEF BaselineTx, Txs
  <2>2. TypeOK'
    BY <1>1, <1>4, <2>1, Bounds DEF TypeOK
  <2>3. ~Based' /\ \A q, s : St(q, s)' = St(q, s)
    BY <1>2, <1>4 DEF Based, St
  <2>4. Submitting'
    BY <1>1, <1>2, <1>4, <2>3 DEF Submitting, TokenShare
  <2>5. Running' /\ Honest(task)' /\ OneWorker' /\ Balanced(o)' /\ Doubtful(o)'
    BY <1>1, <1>4, <2>3 DEF Running, Honest, OneWorker, Balanced, Doubtful
  <2>6. \A v \in Workers : Copied(wk[v])'
    BY <1>1, <1>4 DEF Copied
  <2>7. Journal(o)'
    BY <1>1, <1>2, <1>4, <2>3 DEF Journal, Blank, Fated
  <2>8. ~Exposed(o)'
    BY <1>1, <1>2, <1>4, <2>3, Names DEF Exposed, Unfinished, Journal, Fated
  <2>9. \A v \in Workers : Placed(o, wk[v])'
    <3>1. \A v \in Workers : wk'[v].pc \notin Working
      BY <1>1, <1>2 DEF Submitting, Working
    <3> QED BY <3>1 DEF Placed, Fated
  <2> QED BY <2>2, <2>4, <2>5, <2>6, <2>7, <2>8, <2>9 DEF Core, Billed
<1>5. CASE (Fault \/ UNCHANGED faults) /\ sub' = "review" /\ UNCHANGED <<task, ledger, charge, doubt>>
  <2>1. faults' \in 0..MaxFaults
    BY <1>1, <1>5, Bounds
  <2>2. fence' \in [Accounts -> SUBSET (Ops \cup [mode : {"apply", "undo"}, op : Ops])]
    BY <1>1 DEF TypeOK
  <2> QED BY <1>1, <1>5, <2>1, <2>2, Quiet
<1> QED BY <1>3, <1>4, <1>5 DEF Baseline

\* Land: what was in doubt commits after all, whoever has gone on meanwhile.
LEMMA LandStep ==
    ASSUME NEW o \in Ops, Core(o), Land
    PROVE  Core(o)'
<1>1. TypeOK /\ Submitting /\ doubt # None /\ doubt \in Txs /\ doubt' = None
      /\ UNCHANGED <<fence, sub, wk, redis, bulk, pass, polls, faults>>
      /\ Running /\ Honest(task) /\ OneWorker /\ Doubtful(o) /\ (\A v \in Workers : Copied(wk[v]))
      /\ (\A v \in Workers : Placed(o, wk[v])) /\ (Exposed(o) => Guarded(o))
      /\ sub \in {"settle", "baseline", "check", "review", "done"}
  BY Parts DEF Core, Billed, Land, Unlocked, bounds, TypeOK
<1>2. PICK x \in Txs : x = doubt
  BY <1>1
<1>3. Commit(x)
  BY <1>2 DEF Land, Commit
<1>4. CASE ~Based
  <2>1. x = BaselineTx /\ task.bill = "pending" /\ charge["funding"] = Pre /\ charge["token"] = TokenShare
        /\ sub \in {"check", "review", "done"}
    BY <1>1, <1>2, <1>4 DEF Submitting
  <2>2. Commit(BaselineTx)
    BY <1>3, <2>1
  <2> QED BY <1>1, <1>4, <2>1, <2>2, BaselineCommits
<1>5. CASE Based
  <2>1. Sendable(o, x)
    BY <1>1, <1>2, <1>5 DEF Doubtful
  <2>2. /\ task' \in Rows /\ charge' \in [Accounts \cup {"used"} -> Actuals \cup {0, Pre}]
        /\ ledger' \in [Keys -> [st : {"none", "applied", "undone"}, delta : Deltas]]
        /\ Based' /\ Journal(o)' /\ Balanced(o)'
        /\ task'.tokenCharged = task.tokenCharged /\ task'.status = task.status /\ task'.bill = task.bill
        /\ task'.accounted = task.accounted /\ task'.snap = task.snap
        /\ St(o, x.stage)' = (IF x.mode = "apply" THEN "applied" ELSE "undone")
        /\ \A s \in Stages \ {x.stage} : St(o, s)' = St(o, s)
        /\ Unfinished(o)' => Unfinished(o) \/ (x.mode = "apply" /\ x.stage = "funding")
    BY <1>1, <1>3, <1>5, <2>1, CommitSound
  <2>3. x.stage \in Stages /\ Fated(o) /\ task.status \in Terminal /\ x.mode \in {"apply", "undo"}
    BY <2>1, OpFacts DEF Sendable, Txs, Fated
  <2>4. TypeOK'
    BY <1>1, <2>2 DEF TypeOK
  <2>5. Submitting'
    BY <1>1, <1>5, <2>2 DEF Submitting
  <2>6. Running' /\ OneWorker'
    BY <1>1, <2>2, <2>3 DEF Running, OneWorker
  <2>7. Honest(task)'
    BY <1>1, <2>2 DEF Honest
  <2>8. \A v \in Workers : Copied(wk[v])'
    BY <1>1, <2>2 DEF Copied
  <2>9. Doubtful(o)'
    BY <1>1 DEF Doubtful
  <2>10. \A v \in Workers : wk[v].pc # "apply"
    BY <1>1, Names DEF Placed, Fated
  <2>11. Exposed(o)' => Guarded(o)'
    <3> SUFFICES ASSUME Exposed(o)' PROVE Guarded(o)'
      OBVIOUS
    <3>1. Unfinished(o)'
      BY <1>1, <2>10 DEF Exposed
    <3>2. Exposed(o)
      BY <1>1, <1>2, <1>5, <2>2, <3>1 DEF Exposed
    <3> QED BY <1>1, <2>2, <3>2 DEF Guarded
  <2>12. \A v \in Workers : Placed(o, wk[v])'
    <3> SUFFICES ASSUME NEW v \in Workers, wk[v].pc \in Working PROVE Placed(o, wk[v])'
      BY <1>1 DEF Placed, Fated
    <3> DEFINE k == wk[v]
    <3>1. Placed(o, k) /\ k.pc \notin {"fence", "apply"} /\ k \in Worker /\ k.stage \in Stages
      BY <1>1, <2>10, Parts DEF Placed, Worker, Fated
    <3>2. Stages = {"funding", "token", "finalize"}
      BY Names
    <3>3. k.pc \notin {"reread", "begin"}
      <4> SUFFICES ASSUME k.pc \in {"reread", "begin"} PROVE FALSE
        OBVIOUS
      <4>1. task.bill = "ready" /\ Blank(o)
        BY <3>1 DEF Placed, Fated
      <4> QED BY <2>1, <2>3, <4>1 DEF Sendable, Blank, Fated
    <3>4. k.pc \notin {"record", "complete"}
      <4> SUFFICES ASSUME k.pc \in {"record", "complete"} PROVE FALSE
        OBVIOUS
      <4>1. St(o, "finalize") = "applied"
        BY <3>1 DEF Placed, Fated
      <4> QED BY <2>1, <2>3, <3>2, <4>1 DEF Sendable, Due, Fated
    <3>5. k.pc = "check" => Due(o, k.stage)'
      <4> SUFFICES ASSUME k.pc = "check" PROVE Due(o, k.stage)'
        OBVIOUS
      <4>1. Due(o, k.stage) /\ x.stage = k.stage
        BY <1>1, <1>2, <3>1 DEF Placed, Fated
      <4>2. wk'[v].stage = x.stage
        BY <1>1, <4>1
      <4>3. Due(o, x.stage)'
        BY <2>2, <2>3, <3>2, <4>1 DEF Due
      <4> QED BY <4>2, <4>3 DEF Due
    <3>6. wk'[v] = k
      BY <1>1
    <3>7. Due(o, wk[v].stage)' \/ k.pc # "check"
      BY <3>5
    <3> QED BY <1>1, <2>2, <2>3, <3>1, <3>3, <3>4, <3>6, <3>7 DEF Placed, Fated
  <2> QED
    BY <2>2, <2>4, <2>5, <2>6, <2>7, <2>8, <2>9, <2>11, <2>12 DEF Core, Billed
<1> QED BY <1>4, <1>5

-----------------------------------------------------------------------------
(* Polling.                                                                 *)

\* Until somebody has won a final status no operation has left a trace, so the
\* winner's may be any.
LEMMA Traceless ==
    ASSUME NEW o \in Ops, Core(o), Based, task.status \notin Terminal
    PROVE  /\ doubt = None /\ task.bill = "ready" /\ task.accounted /\ task.quota = Pre
           /\ \A p \in Ops, s \in Stages : St(p, s) = "none"
           /\ charge["funding"] = Pre /\ charge["token"] = TokenShare /\ charge["used"] = Pre
           /\ \A w \in Workers : wk[w].pc \notin Working
<1>1. ~Fated(o)
  BY OpFacts
<1>2. \A p \in Ops, s \in Stages : St(p, s) = "none"
  BY <1>1 DEF Core, Billed, Journal
<1>3. doubt = None
  BY <1>1 DEF Core, Billed, Doubtful, Sendable
<1>4. task.bill = "ready" /\ task.accounted /\ \A w \in Workers : wk[w].pc \notin Working
  BY DEF Core, Running, Submitting
<1>5. Moved(o, "funding") = 0 /\ Moved(o, "token") = 0 /\ Moved(o, "finalize") = 0
  BY <1>2, Names DEF Moved
<1>6. TokenShare \in Nat /\ Pre \in Nat
  BY AmountFacts DEF TokenShare
<1>7. /\ charge["funding"] = Pre + Moved(o, "funding") /\ charge["token"] = TokenShare + Moved(o, "token")
      /\ charge["used"] = Pre + Moved(o, "finalize") /\ task.quota = Pre + Moved(o, "finalize")
  BY DEF Core, Billed, Balanced
<1> QED BY <1>2, <1>3, <1>4, <1>5, <1>6, <1>7

\* The winner of a status, with the operation p or with none (then p is any).
LEMMA WonStep ==
    ASSUME NEW o \in Ops, Core(o), NEW w \in Workers, wk[w].pc = "polled", Wins(w), doubt = None,
           NEW status \in {"running"} \cup Terminal, UpdateWithStatus(w, status),
           NEW p \in Ops, NEW k \in Worker, wk' = [wk EXCEPT ![w] = k],
           \/ k.pc = "idle"
           \/ k.pc = "reread" /\ k.op = p /\ status = Final(p),
           UNCHANGED <<ledger, charge, doubt, fence, sub, redis, bulk, pass, polls>>, Fault \/ UNCHANGED faults
    PROVE  Core(p)'
<1>1. TypeOK /\ Submitting /\ OneWorker /\ (\A v \in Workers : Copied(wk[v])) /\ task \in Rows
  BY DEF Core, TypeOK
<1>2. Based
  BY <1>1 DEF Submitting
<1>3. wk[w].row \in Rows /\ wk[w].row.tokenCharged = task.tokenCharged /\ wk[w].row.status \notin Terminal
      /\ wk[w].row.quota = Pre /\ wk[w].row.bill = "ready" /\ wk[w].row.accounted /\ Honest(wk[w].row)
  BY <1>1 DEF Copied
<1>4. task.status \notin Terminal
  BY <1>3 DEF Wins
<1>5. /\ doubt = None
      /\ \A q \in Ops, s \in Stages : St(q, s) = "none"
      /\ charge["funding"] = Pre /\ charge["token"] = TokenShare /\ charge["used"] = Pre
      /\ \A v \in Workers : wk[v].pc \notin Working
  BY <1>2, <1>4, Traceless
<1>6. task' \in Rows /\ task'.status = status /\ task'.quota = Pre /\ task'.bill = "ready"
      /\ task'.accounted = wk[w].row.accounted /\ task'.snap = wk[w].row.snap
      /\ task'.tokenCharged = task.tokenCharged
  <2> DEFINE r == wk[w].row
  <2>1. r \in Rows /\ task' = [r EXCEPT !.status = status]
    BY <1>3 DEF UpdateWithStatus
  <2>2. r.quota = Pre /\ r.bill = "ready" /\ r.tokenCharged = task.tokenCharged
    BY <1>3
  <2> HIDE DEF r
  <2>3. task' \in Rows /\ task'.status = status /\ task'.quota = r.quota /\ task'.bill = r.bill
        /\ task'.accounted = r.accounted /\ task'.snap = r.snap
        /\ task'.tokenCharged = r.tokenCharged
    BY <2>1 DEF Rows
  <2> QED BY <2>2, <2>3 DEF r
<1>7. wk'[w] = k /\ \A v \in Workers \ {w} : wk'[v] = wk[v]
  BY <1>1 DEF TypeOK
<1>8. Based' /\ \A q, s : St(q, s)' = St(q, s)
  BY <1>2 DEF Based, St
<1>9. TypeOK'
  BY <1>1, <1>6, Bounds DEF TypeOK
<1>10. Submitting'
  BY <1>1, <1>2, <1>3, <1>6, <1>8 DEF Submitting
<1>11. "idle" \notin Working
  BY DEF Working
<1>12. Running'
  <2>1. task'.status \notin Terminal => k.pc = "idle"
    BY <1>6, OpFacts
  <2> QED BY <1>5, <1>6, <1>7, <1>11, <2>1 DEF Running
<1>13. Honest(task)'
  BY <1>3, <1>6 DEF Honest
<1>14. OneWorker'
  BY <1>5, <1>7 DEF OneWorker
<1>15. \A v \in Workers : Copied(wk[v])'
  <2> SUFFICES ASSUME NEW v \in Workers PROVE Copied(wk[v])'
    OBVIOUS
  <2>1. wk'[v] = k \/ wk'[v] = wk[v]
    BY <1>7
  <2>2. Copied(wk[v])
    BY <1>1
  <2> QED BY <1>6, <2>1, <2>2 DEF Copied
<1>16. Journal(p)'
  BY <1>5, <1>8, Names DEF Journal, Blank, Fated
<1>17. Balanced(p)'
  <2>1. Moved(p, "funding")' = 0 /\ Moved(p, "token")' = 0 /\ Moved(p, "finalize")' = 0
    BY <1>5, <1>8, Names DEF Moved
  <2>2. TokenShare' = TokenShare /\ TokenShare \in Nat /\ Pre \in Nat
    BY <1>6, AmountFacts DEF TokenShare
  <2> QED BY <1>5, <1>6, <2>1, <2>2 DEF Balanced
<1>18. Doubtful(p)'
  BY DEF Doubtful
<1>19. ~Exposed(p)'
  BY <1>5, <1>6, <1>8, Names DEF Exposed, Unfinished
<1>20. \A v \in Workers : Placed(p, wk[v])'
  <2> SUFFICES ASSUME NEW v \in Workers PROVE Placed(p, wk[v])'
    OBVIOUS
  <2>1. CASE v # w
    BY <1>5, <1>7, <2>1 DEF Placed, Fated
  <2>2. CASE v = w
    <3>1. Blank(p)'
      BY <1>5, <1>8 DEF Blank
    <3> QED BY <1>6, <1>7, <1>11, <2>2, <3>1 DEF Placed, Fated
  <2> QED BY <2>1, <2>2
<1> QED
  BY <1>9, <1>10, <1>12, <1>13, <1>14, <1>15, <1>16, <1>17, <1>18, <1>19, <1>20 DEF Core, Billed

\* Answer: one worker wins the final status, and its operation is the task's.
LEMMA AnswerStep ==
    ASSUME NEW o \in Ops, Core(o), NEW w \in Workers, NEW status \in {"running"} \cup Terminal, Answer(w, status)
    PROVE  \E p \in Ops : Core(p)'
<1>1. wk[w].pc = "polled" /\ "polled" \notin Working /\ UNCHANGED <<ledger, charge, doubt, fence, sub, redis, bulk, pass, polls>>
  BY DEF Answer, Working
<1>2. Idle \in Worker /\ Idle.pc = "idle"
  BY Names
<1>3. CASE Return(w) /\ UNCHANGED <<task, faults>>
  <2>1. Core(o)'
    BY <1>1, <1>3, RestingReturn
  <2> QED BY <2>1
<1>4. CASE doubt = None /\ Wins(w) /\ UpdateWithStatus(w, status) /\ Return(w) /\ (Fault \/ UNCHANGED faults)
  <2>1. wk' = [wk EXCEPT ![w] = Idle]
    BY <1>4 DEF Return
  <2> HIDE DEF Idle
  <2>2. Core(o)'
    BY <1>1, <1>2, <1>4, <2>1, WonStep
  <2> QED BY <2>2
<1>5. ASSUME doubt = None, Wins(w), UpdateWithStatus(w, status), UNCHANGED faults,
             NEW p \in ToBill(w, status), p # None,
             wk' = [wk EXCEPT ![w] = [Idle EXCEPT !.pc = "reread", !.op = p]]
      PROVE  \E q \in Ops : Core(q)'
  <2>1. p \in Ops /\ status = Final(p)
    BY <1>5 DEF ToBill, Final, Ops, Terminal
  <2> DEFINE k == [Idle EXCEPT !.pc = "reread", !.op = p]
  <2>2. "reread" \in Pcs
    BY Names
  <2>3. k \in Worker /\ k.pc = "reread" /\ k.op = p
    <3> HIDE DEF Idle
    <3> QED BY <1>2, <2>1, <2>2 DEF Worker
  <2>4. wk' = [wk EXCEPT ![w] = k]
    BY <1>5
  <2> HIDE DEF k
  <2>5. Core(p)'
    BY <1>1, <1>5, <2>1, <2>3, <2>4, WonStep
  <2> QED BY <2>1, <2>5
<1> QED BY <1>3, <1>4, <1>5 DEF Answer, Unlocked

\* TaskBulkUpdateByID: the task is failed and what it was billed for stays.
LEMMA BulkStep ==
    ASSUME NEW o \in Ops, Core(o), NEW w \in Workers, TaskBulkUpdateByID(w)
    PROVE  Core(o)'
<1>1. TypeOK /\ Submitting /\ Running /\ Honest(task) /\ OneWorker
      /\ (\A v \in Workers : Copied(wk[v])) /\ Journal(o) /\ Balanced(o) /\ Doubtful(o)
      /\ (\A v \in Workers : Placed(o, wk[v])) /\ (Exposed(o) => Guarded(o)) /\ task \in Rows
  BY Parts DEF Core, Billed
<1>2. /\ wk[w].pc = "polled" /\ doubt = None /\ task' = [task EXCEPT !.status = "failure"] /\ bulk' = TRUE
      /\ wk' = [wk EXCEPT ![w] = Idle]
      /\ UNCHANGED <<ledger, charge, doubt, fence, sub, redis, pass, polls, faults>>
  BY DEF TaskBulkUpdateByID, Unlocked, Return, bounds
<1>3. Idle \in Worker /\ Idle.pc = "idle" /\ "idle" \notin Working /\ "polled" \notin Working
  BY Names DEF Working
<1> HIDE DEF Idle
<1>4. task' \in Rows /\ task'.status = "failure" /\ task'.quota = task.quota /\ task'.bill = task.bill
      /\ task'.accounted = task.accounted /\ task'.snap = task.snap /\ task'.tokenCharged = task.tokenCharged
  BY <1>1, <1>2 DEF Rows, Terminal
<1>5. wk' \in [Workers -> Worker] /\ wk'[w] = Idle /\ \A v \in Workers \ {w} : wk'[v] = wk[v]
  BY <1>1, <1>2, <1>3 DEF TypeOK
<1>6. Based /\ Based' /\ Fated(o)' /\ \A q, s : St(q, s)' = St(q, s)
  BY <1>1, <1>2, <1>4 DEF Submitting, Based, St, Fated
<1>7. TypeOK'
  BY <1>1, <1>2, <1>4, <1>5 DEF TypeOK
<1>8. Submitting'
  BY <1>1, <1>2, <1>4, <1>6 DEF Submitting
<1>9. Running' /\ Honest(task)' /\ OneWorker'
  BY <1>1, <1>3, <1>4, <1>5 DEF Running, Honest, OneWorker, Terminal
<1>10. \A v \in Workers : Copied(wk[v])'
  <2> SUFFICES ASSUME NEW v \in Workers PROVE Copied(wk[v])'
    OBVIOUS
  <2>1. wk'[v] = Idle \/ wk'[v] = wk[v]
    BY <1>5
  <2>2. Copied(wk[v])
    BY <1>1
  <2> QED BY <1>3, <1>4, <2>1, <2>2 DEF Copied
<1>11. Journal(o)'
  <2>1. Blank(o)' = Blank(o)
    BY <1>6 DEF Blank
  <2> QED BY <1>1, <1>2, <1>4, <1>6, <2>1 DEF Journal
<1>12. Balanced(o)'
  <2>1. TokenShare' = TokenShare /\ \A s : Moved(o, s)' = Moved(o, s)
    BY <1>4, <1>6 DEF TokenShare, Moved
  <2> QED BY <1>1, <1>2, <1>4, <1>6, <2>1 DEF Balanced
<1>13. Doubtful(o)'
  BY <1>2 DEF Doubtful
<1>14. Exposed(o)' => Guarded(o)'
  <2>1. Unfinished(o)' = Unfinished(o)
    BY <1>6 DEF Unfinished
  <2>2. \A v \in Workers : wk'[v].pc = "apply" => wk'[v] = wk[v]
    BY <1>3, <1>5
  <2>3. Exposed(o)' => Exposed(o)
    BY <1>2, <1>4, <1>6, <2>1, <2>2 DEF Exposed
  <2> QED BY <1>1, <1>2, <1>4, <2>3 DEF Guarded
<1>15. \A v \in Workers : Placed(o, wk[v])'
  <2> SUFFICES ASSUME NEW v \in Workers PROVE Placed(o, wk[v])'
    OBVIOUS
  <2>1. CASE wk'[v] = Idle
    BY <1>3, <2>1 DEF Placed
  <2>2. CASE wk'[v] = wk[v]
    <3>1. Placed(o, wk[v])
      BY <1>1
    <3> QED BY <1>2, <1>4, <1>6, <2>2, <3>1 DEF Placed, Blank, Due
  <2> QED BY <1>5, <2>1, <2>2
<1> QED
  BY <1>7, <1>8, <1>9, <1>10, <1>11, <1>12, <1>13, <1>14, <1>15 DEF Core, Billed

-----------------------------------------------------------------------------
(* The theorems.                                                            *)

LEMMA InitCore == Init => TaskInv
<1> SUFFICES ASSUME Init PROVE \E o \in Ops : Core(o)
  BY DEF Core, TaskInv
<1>1. Refund \in Ops /\ 0 \in Deltas /\ Pre \in Nat /\ MaxPolls \in Nat /\ MaxFaults \in Nat
  BY AmountFacts, BoundsAssumption DEF Ops
<1>2. Idle \in Worker /\ Idle.pc = "idle" /\ "idle" \notin Working
  BY Names DEF Working
<1>3. task \in Rows /\ task.status = "submitted" /\ task.quota = Pre /\ task.bill = "pending" /\ task.snap = None
  BY DEF Init, Rows
<1>4. NoRow \in [st : {"none", "applied", "undone"}, delta : Deltas] /\ NoRow.st = "none"
  BY <1>1 DEF NoRow
<1>5. /\ ledger \in [Keys -> [st : {"none", "applied", "undone"}, delta : Deltas]]
      /\ \A x \in Keys : ledger[x] = NoRow
  <2> HIDE DEF NoRow
  <2> QED BY <1>4 DEF Init
<1>6. ~Based /\ \A p \in Ops, s \in Stages : St(p, s) = "none"
  BY <1>4, <1>5, KeyFacts DEF Based, St
<1>7. charge \in [Accounts \cup {"used"} -> Actuals \cup {0, Pre}]
      /\ charge["funding"] = 0 /\ charge["token"] = 0 /\ charge["used"] = 0
  BY Names DEF Init
<1>8. wk \in [Workers -> Worker] /\ \A w \in Workers : wk[w].pc = "idle"
  <2> HIDE DEF Idle
  <2> QED BY <1>2 DEF Init
<1>9. TypeOK
  <2>1. redis \in BOOLEAN /\ bulk \in BOOLEAN /\ pass \in BOOLEAN
    BY Zenon DEF Init
  <2>2. doubt = None /\ sub = "settle" /\ polls \in 0..MaxPolls /\ faults \in 0..MaxFaults
        /\ fence \in [Accounts -> SUBSET (Ops \cup [mode : {"apply", "undo"}, op : Ops])]
    BY <1>1 DEF Init
  <2> QED BY <1>3, <1>5, <1>7, <1>8, <2>1, <2>2 DEF TypeOK
<1>10. Submitting
  BY <1>3, <1>6, <1>7, <1>8 DEF Submitting, Init
<1>11. Running /\ Honest(task) /\ OneWorker /\ \A w \in Workers : Copied(wk[w])
  BY <1>2, <1>3, <1>6, <1>8 DEF Running, Honest, OneWorker, Copied
<1>12. Journal(Refund)
  BY <1>1, <1>3, <1>6, Names DEF Journal, Fated
<1>13. Balanced(Refund) /\ Doubtful(Refund)
  BY <1>6 DEF Balanced, Doubtful
<1>14. ~Exposed(Refund)
  BY <1>1, <1>3, <1>6, Names DEF Exposed, Unfinished
<1>15. \A w \in Workers : Placed(Refund, wk[w])
  BY <1>2, <1>8 DEF Placed, Fated
<1>16. Core(Refund)
  BY <1>9, <1>10, <1>11, <1>12, <1>13, <1>14, <1>15 DEF Core, Billed
<1> QED BY <1>1, <1>16

LEMMA NextCore == TaskInv /\ [Next]_vars => TaskInv'
<1> SUFFICES ASSUME NEW o \in Ops, Core(o), [Next]_vars PROVE \E p \in Ops : Core(p)'
  BY DEF Core, TaskInv
<1>1. CASE Settle \/ Baseline \/ BaselineCheck \/ SubmissionReview \/ SubmitterCrash \/ Land \/ Drop \/ Spend
           \/ Schedule \/ SweepNothing
  <2>1. Core(o)'
    BY <1>1, SettleStep, BaselineStep, SubmissionReviewStep, LandStep, QuietSteps
  <2> QED BY <2>1
<1>2. ASSUME NEW w \in Workers, Operation(w) PROVE \E p \in Ops : Core(p)'
  <2>1. Core(o)'
    BY <1>2, RereadStep, BeginStep, BeginFencesStep, ApplyStep, CheckStep, RecheckStep, UndoStep,
       UndoCheckStep, ReviewReadStep, ReviewWriteStep, RecordStep, ReleaseStep DEF Operation
  <2> QED BY <2>1
<1>3. ASSUME NEW w \in Workers, Poll(w) \/ SweepRead(w) \/ SweepMark(w) \/ Crash(w)
      PROVE  \E p \in Ops : Core(p)'
  <2>1. Core(o)'
    BY <1>3, PollStep, SweepReadStep, SweepMarkStep, CrashStep
  <2> QED BY <2>1
<1>4. ASSUME NEW w \in Workers, NEW status \in {"running"} \cup Terminal, Answer(w, status)
      PROVE  \E p \in Ops : Core(p)'
  BY <1>4, AnswerStep
<1>5. ASSUME NEW w \in Workers, TaskBulkUpdateByID(w) PROVE \E p \in Ops : Core(p)'
  <2>1. Core(o)'
    BY <1>5, BulkStep
  <2> QED BY <2>1
<1>6. CASE UNCHANGED vars
  <2>1. TypeOK /\ fence \in [Accounts -> SUBSET (Ops \cup [mode : {"apply", "undo"}, op : Ops])]
    BY DEF Core, TypeOK
  <2>2. faults' \in 0..MaxFaults
    BY <1>6, <2>1, Bounds DEF vars
  <2>3. Core(o)'
    BY <1>6, <2>1, <2>2, Quiet DEF vars
  <2> QED BY <2>3
<1> QED BY <1>1, <1>2, <1>3, <1>4, <1>5, <1>6 DEF Next, Submission, Answered

\* TaskInv is an invariant: row, journal, balances, fences and workers agree on
\* one operation, whatever pollers race, crash or lose a COMMIT's answer.
THEOREM TaskInvariant == Spec => []TaskInv
BY InitCore, NextCore, PTL DEF Spec

\* Rows, journal, fences and workers keep their types, the balances among them:
\* no account ever shows an amount that is not a price of the task.
THEOREM TaskTyped == Spec => []TypeOK
<1>1. TaskInv => TypeOK
  BY DEF TaskInv
<1> QED BY <1>1, TaskInvariant, PTL

\* A task that is ready has cost its recorded quota: wallet, token and usage
\* agree on it.
THEOREM ReadyCostsQuota == Spec => []ReadyIsExact
<1>1. TaskInv => ReadyIsExact
  <2> SUFFICES ASSUME NEW o \in Ops, Core(o), task.bill = "ready"
               PROVE /\ charge["funding"] = task.quota /\ charge["used"] = task.quota
                     /\ charge["token"] = IF task.tokenCharged THEN task.quota ELSE 0
    BY DEF TaskInv, ReadyIsExact, Core
  <2>1. Based /\ Journal(o) /\ Balanced(o)
    BY DEF Core, Billed, Submitting
  <2>2. Diff(o) \in Int /\ Pre \in Nat
    BY OpFacts, AmountFacts
  <2>3. St(o, "token") = "applied" => task.tokenCharged
    BY <2>1, Names DEF Journal, Fated
  <2>4. CASE Blank(o)
    <3>1. Moved(o, "funding") = 0 /\ Moved(o, "token") = 0 /\ Moved(o, "finalize") = 0
      BY <2>4, Names DEF Blank, Moved
    <3> QED BY <2>1, <2>2, <3>1 DEF Balanced, TokenShare
  <2>5. CASE St(o, "finalize") = "applied"
    <3>1. /\ Moved(o, "funding") = Diff(o) /\ Moved(o, "finalize") = Diff(o)
          /\ Moved(o, "token") = IF task.tokenCharged THEN Diff(o) ELSE 0
      BY <2>1, <2>3, <2>5 DEF Journal, Moved, Fated
    <3> QED BY <2>1, <2>2, <3>1 DEF Balanced, TokenShare
  <2> QED BY <2>1, <2>4, <2>5 DEF Journal, Fated
<1> QED BY <1>1, TaskInvariant, PTL

\* A task is billed for one outcome: a refund only if it failed, a settlement
\* only if it succeeded, though a bulk update of a late poller may have written
\* FAILURE over the success since.
THEOREM BilledForOneOutcome == Spec => []OneOutcome
<1>1. TaskInv => OneOutcome
  <2> SUFFICES ASSUME NEW o \in Ops, Core(o) PROVE OneOutcome
    BY DEF TaskInv, Core
  <2>1. \A p \in Ops, s \in Stages : St(p, s) # "none" => p = o /\ Fated(o)
    BY DEF Core, Billed, Journal
  <2> QED BY <2>1 DEF OneOutcome
<1> QED BY <1>1, TaskInvariant, PTL

\* While an operation has moved a balance and is not finished its fences stand.
THEOREM PartialStaysFenced == Spec => []PartialIsFenced
<1>1. TaskInv => PartialIsFenced
  <2> SUFFICES ASSUME NEW o \in Ops, Core(o), redis, NEW p \in Ops, Unfinished(p)
               PROVE \A a \in Accounts : (a = "token" => task.tokenCharged) => p \in fence[a]
    BY DEF TaskInv, PartialIsFenced, Core
  <2>1. p = o
    <3>1. PICK a \in Accounts : St(p, a) = "applied"
      BY DEF Unfinished
    <3> QED BY <3>1, Names DEF Core, Billed, Journal, Fated
  <2>2. Guarded(o)
    BY <2>1 DEF Core, Billed, Exposed
  <2> QED BY <2>1, <2>2 DEF Guarded
<1> QED BY <1>1, TaskInvariant, PTL
=============================================================================
