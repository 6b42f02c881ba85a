------------------------------ MODULE WalletCache ------------------------------
(***************************************************************************)
(* A user's wallet: the durable quota column and its Redis mirror           *)
(* (model/quota_reserve.go, user_cache.go, user_auth_cache.go).  With Redis *)
(* enabled the mirror authorises debits: a debit changes the mirror first   *)
(* and the database second, a credit the database first and the mirror      *)
(* second, a miss is filled from the database, and an error whose outcome   *)
(* is unknown fences the mirror until somebody has reloaded it.             *)
(*                                                                          *)
(* One action is one round trip: a Lua script or an SQL statement, each     *)
(* atomic in its store; consecutive reads of the hash are one.  The fences  *)
(* of task and subscription billing, the authorisation version of the hash  *)
(* and the 31-bit range of a quota are left out.                            *)
(***************************************************************************)
EXTENDS Integers, FiniteSets

CONSTANTS
    Threads,      \* goroutines, on any node
    Ops,          \* operations in use: subset of OpNames
    Amounts,      \* amounts of an operation
    Start,        \* the balance at the beginning
    Evictions,    \* whether the mirror and the fence may expire or be deleted
    MaxOps,       \* bound: operations started
    MaxFaults     \* bound: failed round trips and crashes

OpNames == {"reserve", "debit", "credit", "read"}

ASSUME OpsAssumption == Ops \subseteq OpNames /\ Evictions \in BOOLEAN
ASSUME AmountsAssumption == Amounts \subseteq Nat \ {0} /\ Start \in Nat
ASSUME BoundsAssumption == MaxOps \in Nat /\ MaxFaults \in Nat

VARIABLES
    db,       \* users.quota
    mirror,   \* the hash: its Quota and QuotaGeneration (gen 0: no hash)
    fence,    \* the uncertainty key: "none", "uncertain", or the resolver
    th,       \* per thread: its operation and where it is
    gens,     \* generations given out
    exposed,  \* history: the hash disappeared under somebody (see Vanish)
    ops, faults

vars == <<db, mirror, fence, th, gens, exposed, ops, faults>>

NoHash == [quota |-> 0, gen |-> 0]
Idle == [pc |-> "idle", op |-> "none", amt |-> 0, read |-> 0, gen |-> 0, again |-> FALSE]
Pc == {"idle", "resolve", "load", "fill", "restore", "release", "try", "hyd", "rehyd",
       "hydLoad", "hydFill", "persist", "fence", "capture", "credit", "sync"}
Fences == {"none", "uncertain"} \cup Threads

TypeOK ==
    /\ db \in Int /\ gens \in Nat /\ ops \in 0..MaxOps /\ faults \in 0..MaxFaults
    /\ mirror \in [quota : Int, gen : 0..gens]
    /\ fence \in Fences /\ exposed \in BOOLEAN
    /\ th \in [Threads -> [pc : Pc, op : OpNames \cup {"none"}, amt : Amounts \cup {0},
                           read : Int, gen : 0..gens, again : BOOLEAN]]

Init ==
    /\ db = Start
    /\ mirror = NoHash
    /\ fence = "none"
    /\ th = [t \in Threads |-> Idle]
    /\ gens = 0 /\ exposed = FALSE /\ ops = 0 /\ faults = 0

-----------------------------------------------------------------------------
Goto(t, p) == th' = [th EXCEPT ![t].pc = p]
Return(t) == th' = [th EXCEPT ![t] = Idle]
Hash == mirror.gen # 0

\* The hash is deleted.  It is remembered whether another thread than those of
\* by had a granted debit to store, or a balance to publish that it had read.
Vanish(by) ==
    /\ mirror' = NoHash
    /\ exposed' = (exposed \/ \E u \in Threads \ by : th[u].pc \in {"persist", "fill", "hydFill"})

\* A round trip answers, or fails: "err" without, "late" with its effect.
Answers == {"ok", "err", "late"}
Reply(o) == IF o = "ok" THEN UNCHANGED faults ELSE faults < MaxFaults /\ faults' = faults + 1

\* TryReserveUserQuota, applyUserQuotaDelta (a debit or a credit), GetUserCache.
Begin(t, op, n) ==
    /\ th[t].pc = "idle" /\ ops < MaxOps
    /\ ops' = ops + 1
    /\ th' = [th EXCEPT ![t] = [Idle EXCEPT !.op = op, !.amt = n, !.pc =
                CASE op = "credit" -> "capture" [] op = "read" -> "hyd" [] OTHER -> "resolve"]]
    /\ UNCHANGED <<db, mirror, fence, gens, exposed, faults>>

-----------------------------------------------------------------------------
(* resolveUserQuotaCacheUncertainty.                                        *)

\* Where a resolved thread goes on: a hydration looks at the hash again.
Resolved(t) == Goto(t, IF th[t].again THEN "rehyd" ELSE "try")

\* GET and the claim script: one resolver at a time.  A claim whose answer is
\* lost leaves the fence claimed by nobody who will release it.
Resolve(t) ==
    /\ th[t].pc = "resolve"
    /\ \/ fence = "none" /\ Resolved(t) /\ UNCHANGED <<fence, faults>>
       \/ fence \in Threads /\ Return(t) /\ UNCHANGED <<fence, faults>>
       \/ /\ fence = "uncertain"
          /\ \E o \in Answers :
              /\ Reply(o)
              /\ fence' = IF o = "err" THEN fence ELSE t
              /\ IF o = "ok" THEN Goto(t, "load") ELSE Return(t)
    /\ UNCHANGED <<db, mirror, gens, exposed, ops>>

\* The reload of the row, under the claimed fence.
Load(t) ==
    /\ th[t].pc = "load"
    /\ \E o \in {"ok", "err"} :
        /\ Reply(o)
        /\ IF o = "ok" THEN th' = [th EXCEPT ![t].read = db, ![t].pc = "fill"] ELSE Goto(t, "restore")
    /\ UNCHANGED <<db, mirror, fence, gens, exposed, ops>>

\* The populate script: an existing balance is not overwritten.
Filled(t) == IF Hash THEN mirror ELSE [quota |-> th[t].read, gen |-> gens + 1]

\* populateUserCacheUnderQuotaFence: refused under somebody else's fence.
Fill(t) ==
    /\ th[t].pc = "fill"
    /\ \E o \in Answers :
        /\ Reply(o)
        /\ LET open == fence \in {"none", t}
               done == open /\ o # "err"
           IN /\ mirror' = IF done THEN Filled(t) ELSE mirror
              /\ gens' = IF done /\ ~Hash THEN gens + 1 ELSE gens
              /\ Goto(t, IF open /\ o = "ok" THEN "release" ELSE "restore")
    /\ UNCHANGED <<db, fence, exposed, ops>>

\* restoreFence: only the fence this resolver still owns.
Restore(t) ==
    /\ th[t].pc = "restore"
    /\ \E o \in Answers :
        /\ Reply(o)
        /\ fence' = IF o # "err" /\ fence = t THEN "uncertain" ELSE fence
    /\ Return(t)
    /\ UNCHANGED <<db, mirror, gens, exposed, ops>>

\* The release script.
Release(t) ==
    /\ th[t].pc = "release"
    /\ \E o \in Answers :
        /\ Reply(o)
        /\ fence' = IF o # "err" /\ fence = t THEN "none" ELSE fence
        /\ IF o = "ok" /\ fence = t THEN Resolved(t) ELSE Return(t)
    /\ UNCHANGED <<db, mirror, gens, exposed, ops>>

-----------------------------------------------------------------------------
(* GetUserCache as a hydration.                                             *)

\* cacheGetUserBase: under a fence the first look resolves and the second gives
\* up; a failed read is a miss.
Hyd(t) ==
    /\ th[t].pc \in {"hyd", "rehyd"}
    /\ \E o \in {"ok", "err"} :
        /\ Reply(o)
        /\ CASE fence # "none" /\ th[t].pc = "hyd" ->
                   th' = [th EXCEPT ![t].again = TRUE, ![t].pc = "resolve"]
             [] fence # "none" /\ th[t].pc = "rehyd" -> Return(t)
             [] fence = "none" /\ Hash /\ o = "ok" ->
                   IF th[t].op = "read" THEN Return(t)
                   ELSE th' = [th EXCEPT ![t].again = TRUE, ![t].pc = "try"]
             [] OTHER -> th' = [th EXCEPT ![t].again = TRUE, ![t].pc = "hydLoad"]
    /\ UNCHANGED <<db, mirror, fence, gens, exposed, ops>>

\* GetUserById.
HydLoad(t) ==
    /\ th[t].pc = "hydLoad"
    /\ \E o \in {"ok", "err"} :
        /\ Reply(o)
        /\ IF o = "ok" THEN th' = [th EXCEPT ![t].read = db, ![t].pc = "hydFill"] ELSE Return(t)
    /\ UNCHANGED <<db, mirror, fence, gens, exposed, ops>>

\* populateUserCache: refused under any fence.
HydFill(t) ==
    /\ th[t].pc = "hydFill"
    /\ \E o \in Answers :
        /\ Reply(o)
        /\ LET done == fence = "none" /\ o \in {"ok", "late"}
           IN /\ mirror' = IF done THEN Filled(t) ELSE mirror
              /\ gens' = IF done /\ ~Hash THEN gens + 1 ELSE gens
              /\ IF done /\ o = "ok" /\ th[t].op # "read" THEN Goto(t, "try") ELSE Return(t)
    /\ UNCHANGED <<db, fence, exposed, ops>>

-----------------------------------------------------------------------------
(* Debits.                                                                  *)

\* The reserve script compares, the delta script does not.
Enough(t) == th[t].op = "debit" \/ mirror.quota >= th[t].amt

\* The reserve / delta script, once more after a miss has been filled.
TryMirror(t) ==
    /\ th[t].pc = "try"
    /\ \/ fence # "none" /\ Return(t) /\ UNCHANGED <<mirror, faults>>
       \/ /\ fence = "none" /\ ~Hash
          /\ IF th[t].again THEN Return(t) ELSE Goto(t, "hyd")
          /\ UNCHANGED <<mirror, faults>>
       \/ fence = "none" /\ Hash /\ ~Enough(t) /\ Return(t) /\ UNCHANGED <<mirror, faults>>
       \/ /\ fence = "none" /\ Hash /\ Enough(t)
          /\ \E o \in Answers :
              /\ Reply(o)
              /\ mirror' = IF o = "err" THEN mirror ELSE [mirror EXCEPT !.quota = @ - th[t].amt]
              /\ IF o = "ok" THEN Goto(t, "persist") ELSE Return(t)
    /\ UNCHANGED <<db, fence, gens, exposed, ops>>

\* persistUserQuotaDelta: the mirror has authorised it, the row is not asked.
Persist(t) ==
    /\ th[t].pc = "persist"
    /\ \E o \in Answers :
        /\ Reply(o)
        /\ db' = IF o = "err" THEN db ELSE db - th[t].amt
        /\ IF o = "ok" THEN Return(t) ELSE Goto(t, "fence")
    /\ UNCHANGED <<mirror, fence, gens, exposed, ops>>

\* fenceUserQuotaCacheUncertainty: an existing fence keeps its owner.
FenceUncertain(t) ==
    /\ th[t].pc = "fence"
    /\ \E o \in Answers :
        /\ Reply(o)
        /\ IF o = "err" THEN UNCHANGED <<mirror, fence, exposed>>
           ELSE Vanish({t}) /\ fence' = IF fence = "none" THEN "uncertain" ELSE fence
    /\ Return(t)
    /\ UNCHANGED <<db, gens, ops>>

-----------------------------------------------------------------------------
(* Credits.                                                                 *)

\* A capture that returns its own fresh UUID instead of the stored one.
Capture_OwnUuid(t) ==
    /\ th[t].pc = "capture"
    /\ th' = [th EXCEPT ![t].gen = IF Hash THEN gens + 1 ELSE 0, ![t].pc = "credit"]
    /\ UNCHANGED <<db, mirror, fence, gens, exposed, ops, faults>>

\* captureUserQuotaCacheGeneration.
Capture(t) ==
    /\ th[t].pc = "capture"
    /\ \E o \in {"ok", "err"} :
        /\ Reply(o)
        /\ th' = [th EXCEPT ![t].gen = IF o = "ok" THEN mirror.gen ELSE 0, ![t].pc = "credit"]
    /\ UNCHANGED <<db, mirror, fence, gens, exposed, ops>>

\* persistUserQuotaDeltaDirect of a credit; no captured hash, no sync.
Credit(t) ==
    /\ th[t].pc = "credit"
    /\ \E o \in Answers :
        /\ Reply(o)
        /\ db' = IF o = "err" THEN db ELSE db + th[t].amt
        /\ IF o = "ok" /\ th[t].gen # 0 THEN Goto(t, "sync") ELSE Return(t)
    /\ UNCHANGED <<mirror, fence, gens, exposed, ops>>

\* A credit given to whatever hash is there.
SameHash_Any(t) == Hash
SameHash(t) == Hash /\ mirror.gen = th[t].gen

\* cacheApplyUserQuotaDeltaForGeneration.
Sync(t) ==
    /\ th[t].pc = "sync"
    /\ \/ fence # "none" /\ Goto(t, "fence") /\ UNCHANGED <<mirror, faults>>
       \/ fence = "none" /\ ~SameHash(t) /\ Return(t) /\ UNCHANGED <<mirror, faults>>
       \/ /\ fence = "none" /\ SameHash(t)
          /\ \E o \in Answers :
              /\ Reply(o)
              /\ mirror' = IF o = "err" THEN mirror ELSE [mirror EXCEPT !.quota = @ + th[t].amt]
              /\ IF o = "ok" THEN Return(t) ELSE Goto(t, "fence")
    /\ UNCHANGED <<db, fence, gens, exposed, ops>>

-----------------------------------------------------------------------------
\* TTL of the hash, or invalidateUserCache.
Evict ==
    /\ Evictions /\ Hash /\ Vanish({})
    /\ UNCHANGED <<db, fence, th, gens, ops, faults>>

\* TTL of the fence.
FenceExpires ==
    /\ Evictions /\ fence # "none" /\ fence' = "none"
    /\ UNCHANGED <<db, mirror, th, gens, exposed, ops, faults>>

\* The node stops between two round trips; a round trip that fails without
\* effect where the code only returns the error is the same step.
Crash(t) ==
    /\ th[t].pc # "idle" /\ faults < MaxFaults /\ faults' = faults + 1
    /\ Return(t)
    /\ UNCHANGED <<db, mirror, fence, gens, exposed, ops>>

Step(t) ==
    \/ Resolve(t) \/ Load(t) \/ Fill(t) \/ Restore(t) \/ Release(t) \/ Hyd(t) \/ HydLoad(t) \/ HydFill(t)
    \/ TryMirror(t) \/ Persist(t) \/ FenceUncertain(t) \/ Capture(t) \/ Credit(t) \/ Sync(t)

Next ==
    \/ \E t \in Threads : Step(t) \/ Crash(t) \/ \E op \in Ops, n \in Amounts : Begin(t, op, n)
    \/ Evict \/ FenceExpires

Spec == Init /\ [][Next]_vars

-----------------------------------------------------------------------------
(* Properties.                                                              *)

\* The quota units that the operations of some threads are about.
Share(t, n) == {t} \X (1..n)
Units(T) == UNION {Share(t, th[t].amt) : t \in T}

\* Debits the mirror has granted and the database does not show yet.
Storing == {t \in Threads : th[t].pc = "persist"}
InFlight == Cardinality(Units(Storing))

(* The mirror never offers more than the row will hold once the granted       *)
(* debits are stored, whatever reservations, settlements, credits and         *)
(* hydrations interleave, fail, are fenced or die half-way: it may be         *)
(* stale-low, never stale-high.  The one exception is a hash that disappears  *)
(* while a granted debit is still to be stored or a fill is under way.        *)
SpendableBacked == ~exposed /\ Hash /\ fence = "none" => mirror.quota <= db - InFlight

-----------------------------------------------------------------------------
(* Why it holds: WalletInv is inductive.                                    *)

\* Credits the row already shows, that their thread will add to this very hash.
Owing == {t \in Threads : th[t].pc = "sync" /\ SameHash(t)}

\* The hash and all that is still on its way to it or from it is in the row.
MirrorBacked ==
    ~exposed /\ Hash => mirror.quota + Cardinality(Units(Owing)) + Cardinality(Units(Storing)) <= db

\* While there is no hash nothing is granted, so whoever is about to publish
\* one has read no more than the row still holds.
FillsBacked ==
    ~exposed /\ ~Hash =>
        /\ Storing = {}
        /\ \A t \in Threads : th[t].pc \in {"fill", "hydFill"} => th[t].read <= db

WalletInv ==
    /\ TypeOK /\ MirrorBacked /\ FillsBacked
    /\ IsFiniteSet(Units(Owing)) /\ IsFiniteSet(Units(Storing))
=============================================================================
