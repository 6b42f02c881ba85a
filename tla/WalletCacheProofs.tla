--------------------------- MODULE WalletCacheProofs ---------------------------
(***************************************************************************)
(* Proofs about WalletCache, for any set of threads, any amounts and any     *)
(* number of operations and faults: WalletInv is inductive, so the mirror    *)
(* never offers what the row will not hold.                                  *)
(***************************************************************************)
EXTENDS WalletCache, FiniteSetTheorems, TLAPS

(***************************************************************************)
(* Counting the units of a set of threads.                                 *)
(***************************************************************************)
UnitsOf(f, T) == UNION {Share(t, f[t].amt) : t \in T}

LEMMA ShareCount ==
    ASSUME NEW t, NEW n \in Nat
    PROVE  IsFiniteSet(Share(t, n)) /\ Cardinality(Share(t, n)) = n
<1>1. IsFiniteSet({t}) /\ Cardinality({t}) = 1
    BY FS_Singleton
<1>2. IsFiniteSet(1..n) /\ Cardinality(1..n) = n
    BY FS_Interval
<1>3. /\ IsFiniteSet({t} \X (1..n))
      /\ Cardinality({t} \X (1..n)) = Cardinality({t}) * Cardinality(1..n)
    BY <1>1, <1>2, FS_Product, Zenon
<1>4. 1 * n = n
    OBVIOUS
<1> QED
    BY <1>1, <1>2, <1>3, <1>4, Zenon DEF Share

LEMMA DisjointCount ==
    ASSUME NEW R, NEW H, IsFiniteSet(R), IsFiniteSet(H), R \cap H = {}
    PROVE  /\ IsFiniteSet(R \cup H)
           /\ Cardinality(R \cup H) = Cardinality(R) + Cardinality(H)
<1>1. /\ IsFiniteSet(R \cup H)
      /\ Cardinality(R \cup H) = Cardinality(R) + Cardinality(H) - Cardinality(R \cap H)
    BY FS_Union, Zenon
<1>2. Cardinality(R \cap H) = 0
    BY FS_EmptySet, Zenon
<1>3. Cardinality(R) \in Nat /\ Cardinality(H) \in Nat
    BY FS_CardinalityType, Zenon
<1>4. Cardinality(R) + Cardinality(H) - 0 = Cardinality(R) + Cardinality(H)
    BY <1>3
<1> QED
    BY <1>1, <1>2, <1>4, Zenon

LEMMA SharesDisjoint ==
    ASSUME NEW t, NEW u, t # u, NEW m, NEW n
    PROVE  Share(t, m) \cap Share(u, n) = {}
BY DEF Share

(* A thread that leaves takes its units along.                             *)
LEMMA UnitsWithout ==
    ASSUME NEW f, NEW g, NEW T, NEW t, f[t].amt \in Nat, IsFiniteSet(UnitsOf(f, T)),
           \A u \in T \ {t} : g[u].amt = f[u].amt
    PROVE  /\ IsFiniteSet(UnitsOf(g, T \ {t}))
           /\ Cardinality(UnitsOf(g, T \ {t})) =
                Cardinality(UnitsOf(f, T)) - (IF t \in T THEN f[t].amt ELSE 0)
           /\ Cardinality(UnitsOf(g, T \ {t})) \in Nat
<1> DEFINE S == UnitsOf(f, T)
           R == UnitsOf(g, T \ {t})
           H == Share(t, f[t].amt)
<1>1. IsFiniteSet(H) /\ Cardinality(H) = f[t].amt
    BY ShareCount
<1>2. R \subseteq S
    BY DEF UnitsOf
<1>3. IsFiniteSet(R) /\ Cardinality(R) \in Nat
    BY <1>2, FS_Subset, FS_CardinalityType
<1>4. CASE t \notin T
    <2>1. R = S
        BY <1>4 DEF UnitsOf
    <2> QED
        BY <1>3, <1>4, <2>1
<1>5. CASE t \in T
    <2>1. S = R \cup H
        BY <1>5 DEF UnitsOf
    <2>2. R \cap H = {}
        BY SharesDisjoint DEF UnitsOf
    <2> HIDE DEF S, R, H
    <2>4. Cardinality(S) = Cardinality(R) + f[t].amt
        BY <1>1, <1>3, <2>1, <2>2, DisjointCount
    <2> QED
        BY <1>3, <1>5, <2>4 DEF S, R
<1> QED
    BY <1>4, <1>5

(* A thread that was not there takes nothing.                              *)
LEMMA UnitsSame ==
    ASSUME NEW f, NEW g, NEW T, NEW t, f[t].amt \in Nat, IsFiniteSet(UnitsOf(f, T)),
           \A u \in T \ {t} : g[u].amt = f[u].amt, t \notin T
    PROVE  /\ IsFiniteSet(UnitsOf(g, T \ {t}))
           /\ Cardinality(UnitsOf(g, T \ {t})) = Cardinality(UnitsOf(f, T))
<1>1. UnitsOf(g, T \ {t}) = UnitsOf(f, T)
    BY DEF UnitsOf
<1> QED
    BY <1>1

(***************************************************************************)
(* What a step does to the thread that takes it.                           *)
(***************************************************************************)
ThreadState(g) == [pc : Pc, op : OpNames \cup {"none"}, amt : Amounts \cup {0},
                   read : Int, gen : 0..g, again : BOOLEAN]

OnlyThread(t) ==
    /\ th' \in [Threads -> ThreadState(gens)]
    /\ \A u \in Threads \ {t} : th'[u] = th[u]

(* The thread goes on with its operation.                                  *)
Moves(t, pc, read, gen) ==
    /\ OnlyThread(t)
    /\ th'[t].pc = pc /\ th'[t].read = read /\ th'[t].gen = gen
    /\ th'[t].amt = th[t].amt

Ends(t) == OnlyThread(t) /\ th'[t].pc = "idle"

LEMMA ThreadTyped ==
    ASSUME TypeOK, NEW t \in Threads
    PROVE  /\ th \in [Threads -> ThreadState(gens)] /\ th[t] \in ThreadState(gens)
           /\ th[t].amt \in Nat /\ th[t].read \in Int /\ th[t].gen \in 0..gens
<1>1. th \in [Threads -> ThreadState(gens)]
    BY DEF TypeOK, ThreadState
<1>2. th[t] \in ThreadState(gens)
    BY <1>1
<1>3. /\ th[t].amt \in Amounts \cup {0} /\ th[t].read \in Int /\ th[t].gen \in 0..gens
    BY <1>2 DEF ThreadState
<1>4. \A n \in Amounts \cup {0} : n \in Nat
    BY AmountsAssumption
<1> QED
    BY <1>1, <1>2, <1>3, <1>4

LEMMA IdleTyped ==
    ASSUME TypeOK
    PROVE  Idle \in ThreadState(gens)
<1>1. 0 \in 0..gens
    BY DEF TypeOK
<1> QED
    BY <1>1 DEF Idle, ThreadState, Pc

LEMMA Replaces ==
    ASSUME TypeOK, NEW t \in Threads, NEW y \in ThreadState(gens), th' = [th EXCEPT ![t] = y]
    PROVE  OnlyThread(t) /\ th'[t] = y
<1>1. th \in [Threads -> ThreadState(gens)]
    BY ThreadTyped
<1> QED
    BY <1>1 DEF OnlyThread

LEMMA ReturnEnds ==
    ASSUME TypeOK, NEW t \in Threads, Return(t)
    PROVE  Ends(t)
<1>1. OnlyThread(t) /\ th'[t] = Idle
    BY IdleTyped, Replaces DEF Return
<1> QED
    BY <1>1 DEF Ends, Idle

LEMMA GotoMoves ==
    ASSUME TypeOK, NEW t \in Threads, NEW p \in Pc, Goto(t, p)
    PROVE  Moves(t, p, th[t].read, th[t].gen)
<1> DEFINE y(x) == [x EXCEPT !.pc = p]
<1>1. ASSUME NEW x \in ThreadState(gens)
      PROVE  /\ y(x) \in ThreadState(gens) /\ y(x).pc = p
             /\ y(x).read = x.read /\ y(x).gen = x.gen /\ y(x).amt = x.amt
    BY DEF ThreadState
<1>2. th \in [Threads -> ThreadState(gens)] /\ th[t] \in ThreadState(gens)
    BY ThreadTyped
<1>3. th' = [th EXCEPT ![t] = y(th[t])]
    BY <1>2 DEF Goto
<1>4. OnlyThread(t) /\ th'[t] = y(th[t])
    BY <1>1, <1>2, <1>3, Replaces
<1> QED
    BY <1>1, <1>2, <1>4 DEF Moves

LEMMA ReadMoves ==
    ASSUME TypeOK, NEW t \in Threads, NEW p \in Pc, NEW r \in Int,
           th' = [th EXCEPT ![t].read = r, ![t].pc = p]
    PROVE  Moves(t, p, r, th[t].gen)
<1> DEFINE y(x) == [x EXCEPT !.read = r, !.pc = p]
<1>1. ASSUME NEW x \in ThreadState(gens)
      PROVE  /\ y(x) \in ThreadState(gens) /\ y(x).pc = p
             /\ y(x).read = r /\ y(x).gen = x.gen /\ y(x).amt = x.amt
    BY DEF ThreadState
<1>2. th \in [Threads -> ThreadState(gens)] /\ th[t] \in ThreadState(gens)
    BY ThreadTyped
<1>3. th' = [th EXCEPT ![t] = y(th[t])]
    BY <1>2
<1>4. OnlyThread(t) /\ th'[t] = y(th[t])
    BY <1>1, <1>2, <1>3, Replaces
<1> QED
    BY <1>1, <1>2, <1>4 DEF Moves

LEMMA AgainMoves ==
    ASSUME TypeOK, NEW t \in Threads, NEW p \in Pc,
           th' = [th EXCEPT ![t].again = TRUE, ![t].pc = p]
    PROVE  Moves(t, p, th[t].read, th[t].gen)
<1> DEFINE y(x) == [x EXCEPT !.again = TRUE, !.pc = p]
<1>1. ASSUME NEW x \in ThreadState(gens)
      PROVE  /\ y(x) \in ThreadState(gens) /\ y(x).pc = p
             /\ y(x).read = x.read /\ y(x).gen = x.gen /\ y(x).amt = x.amt
    BY DEF ThreadState
<1>2. th \in [Threads -> ThreadState(gens)] /\ th[t] \in ThreadState(gens)
    BY ThreadTyped
<1>3. th' = [th EXCEPT ![t] = y(th[t])]
    BY <1>2
<1>4. OnlyThread(t) /\ th'[t] = y(th[t])
    BY <1>1, <1>2, <1>3, Replaces
<1> QED
    BY <1>1, <1>2, <1>4 DEF Moves

LEMMA GenMoves ==
    ASSUME TypeOK, NEW t \in Threads, NEW p \in Pc, NEW g \in 0..gens,
           th' = [th EXCEPT ![t].gen = g, ![t].pc = p]
    PROVE  Moves(t, p, th[t].read, g)
<1> DEFINE y(x) == [x EXCEPT !.gen = g, !.pc = p]
<1>1. ASSUME NEW x \in ThreadState(gens)
      PROVE  /\ y(x) \in ThreadState(gens) /\ y(x).pc = p
             /\ y(x).read = x.read /\ y(x).gen = g /\ y(x).amt = x.amt
    BY DEF ThreadState
<1>2. th \in [Threads -> ThreadState(gens)] /\ th[t] \in ThreadState(gens)
    BY ThreadTyped
<1>3. th' = [th EXCEPT ![t] = y(th[t])]
    BY <1>2
<1>4. OnlyThread(t) /\ th'[t] = y(th[t])
    BY <1>1, <1>2, <1>3, Replaces
<1> QED
    BY <1>1, <1>2, <1>4 DEF Moves

(***************************************************************************)
(* What a step does to the units that are under way.                       *)
(***************************************************************************)
LEMMA Units_UnitsOf ==
    /\ Units(Storing) = UnitsOf(th, Storing) /\ Units(Owing) = UnitsOf(th, Owing)
    /\ Units(Storing)' = UnitsOf(th', Storing') /\ Units(Owing)' = UnitsOf(th', Owing')
BY DEF Units, UnitsOf

(* A thread that neither stores nor owes after the step.                   *)
LEMMA LeavesUnits ==
    ASSUME WalletInv, NEW t \in Threads, OnlyThread(t), th'[t].pc \notin {"persist", "sync"},
           mirror'.gen = mirror.gen
    PROVE  /\ Storing' = Storing \ {t}
           /\ IsFiniteSet(Units(Storing)') /\ IsFiniteSet(Units(Owing)')
           /\ Cardinality(Units(Storing)) \in Nat /\ Cardinality(Units(Owing)) \in Nat
           /\ Cardinality(Units(Storing)') \in Nat /\ Cardinality(Units(Owing)') \in Nat
           /\ Cardinality(Units(Storing)') =
                Cardinality(Units(Storing)) - (IF t \in Storing THEN th[t].amt ELSE 0)
           /\ Cardinality(Units(Owing)') =
                Cardinality(Units(Owing)) - (IF t \in Owing THEN th[t].amt ELSE 0)
<1>1. TypeOK /\ th[t].amt \in Nat /\ IsFiniteSet(Units(Owing)) /\ IsFiniteSet(Units(Storing))
    BY ThreadTyped DEF WalletInv
<1>2. Storing' = Storing \ {t}
    BY DEF OnlyThread, Storing
<1>3. Owing' = Owing \ {t}
    BY DEF OnlyThread, Owing, SameHash, Hash
<1>4. \A u \in Threads \ {t} : th'[u].amt = th[u].amt
    BY DEF OnlyThread
<1>5. Storing \subseteq Threads /\ Owing \subseteq Threads
    BY DEF Storing, Owing
<1>a. /\ IsFiniteSet(UnitsOf(th, Storing)) /\ IsFiniteSet(UnitsOf(th, Owing))
      /\ \A u \in Storing \ {t} : th'[u].amt = th[u].amt
      /\ \A u \in Owing \ {t} : th'[u].amt = th[u].amt
    BY <1>1, <1>4, <1>5, Units_UnitsOf
<1>6. /\ IsFiniteSet(UnitsOf(th', Storing \ {t}))
      /\ Cardinality(UnitsOf(th', Storing \ {t})) =
            Cardinality(UnitsOf(th, Storing)) - (IF t \in Storing THEN th[t].amt ELSE 0)
      /\ Cardinality(UnitsOf(th', Storing \ {t})) \in Nat
    BY <1>1, <1>a, UnitsWithout
<1>7. /\ IsFiniteSet(UnitsOf(th', Owing \ {t}))
      /\ Cardinality(UnitsOf(th', Owing \ {t})) =
            Cardinality(UnitsOf(th, Owing)) - (IF t \in Owing THEN th[t].amt ELSE 0)
      /\ Cardinality(UnitsOf(th', Owing \ {t})) \in Nat
    BY <1>1, <1>a, UnitsWithout
<1>8. Cardinality(Units(Storing)) \in Nat /\ Cardinality(Units(Owing)) \in Nat
    BY <1>1, FS_CardinalityType
<1> QED
    BY <1>2, <1>3, <1>6, <1>7, <1>8, Units_UnitsOf

(* A thread that joins brings its units.                                   *)
LEMMA ThreadBrings ==
    ASSUME NEW T, NEW t, t \notin T, th'[t].amt \in Nat, IsFiniteSet(UnitsOf(th, T)),
           \A u \in T : th'[u].amt = th[u].amt
    PROVE  /\ IsFiniteSet(UnitsOf(th', T \cup {t}))
           /\ Cardinality(UnitsOf(th', T \cup {t})) = Cardinality(UnitsOf(th, T)) + th'[t].amt
<1> DEFINE S == UnitsOf(th, T)
           H == Share(t, th'[t].amt)
<1>1. IsFiniteSet(H) /\ Cardinality(H) = th'[t].amt
    BY ShareCount
<1>2. UnitsOf(th', T \cup {t}) = S \cup H
    BY DEF UnitsOf
<1>3. S \cap H = {}
    BY SharesDisjoint DEF UnitsOf
<1>4. IsFiniteSet(S)
    OBVIOUS
<1> HIDE DEF S, H
<1>5. IsFiniteSet(S \cup H) /\ Cardinality(S \cup H) = Cardinality(S) + Cardinality(H)
    BY <1>1, <1>3, <1>4, DisjointCount
<1> QED
    BY <1>1, <1>2, <1>5 DEF S

(* A thread that has been granted a debit.                                 *)
LEMMA JoinsStoring ==
    ASSUME WalletInv, NEW t \in Threads, OnlyThread(t), th[t].pc \notin {"persist", "sync"},
           th'[t].pc = "persist", th'[t].amt = th[t].amt, mirror'.gen = mirror.gen
    PROVE  /\ IsFiniteSet(Units(Storing)') /\ IsFiniteSet(Units(Owing)')
           /\ Cardinality(Units(Storing)) \in Nat /\ Cardinality(Units(Owing)) \in Nat
           /\ Cardinality(Units(Storing)') = Cardinality(Units(Storing)) + th[t].amt
           /\ Cardinality(Units(Owing)') = Cardinality(Units(Owing))
<1>1. TypeOK /\ th[t].amt \in Nat /\ IsFiniteSet(Units(Owing)) /\ IsFiniteSet(Units(Storing))
    BY ThreadTyped DEF WalletInv
<1>2. Storing' = Storing \cup {t} /\ t \notin Storing
    BY DEF OnlyThread, Storing
<1>3. Owing' = Owing \ {t} /\ t \notin Owing
    BY DEF OnlyThread, Owing, SameHash, Hash
<1>4. Storing \subseteq Threads /\ Owing \subseteq Threads
    BY DEF Storing, Owing
<1>5. /\ IsFiniteSet(UnitsOf(th, Storing)) /\ IsFiniteSet(UnitsOf(th, Owing))
      /\ \A u \in Storing : th'[u].amt = th[u].amt
      /\ \A u \in Owing \ {t} : th'[u].amt = th[u].amt
    BY <1>1, <1>2, <1>4, Units_UnitsOf DEF OnlyThread
<1>6. /\ IsFiniteSet(UnitsOf(th', Storing \cup {t}))
      /\ Cardinality(UnitsOf(th', Storing \cup {t})) = Cardinality(UnitsOf(th, Storing)) + th'[t].amt
    <2>1. th'[t].amt \in Nat
        BY <1>1
    <2>2. t \notin Storing /\ IsFiniteSet(UnitsOf(th, Storing))
        BY <1>2, <1>5
    <2>3. \A u \in Storing : th'[u].amt = th[u].amt
        BY <1>5
    <2> QED
        BY <2>1, <2>2, <2>3, ThreadBrings
<1>7. /\ IsFiniteSet(UnitsOf(th', Owing \ {t}))
      /\ Cardinality(UnitsOf(th', Owing \ {t})) = Cardinality(UnitsOf(th, Owing))
    BY <1>1, <1>3, <1>5, UnitsSame
<1>8. Cardinality(Units(Storing)) \in Nat /\ Cardinality(Units(Owing)) \in Nat
    BY <1>1, FS_CardinalityType
<1> QED
    BY <1>2, <1>3, <1>6, <1>7, <1>8, Units_UnitsOf

(* A thread that has stored a credit, for this hash or another.            *)
LEMMA JoinsOwing ==
    ASSUME WalletInv, NEW t \in Threads, OnlyThread(t), th[t].pc \notin {"persist", "sync"},
           th'[t].pc = "sync", th'[t].amt = th[t].amt, mirror' = mirror
    PROVE  /\ Storing' = Storing
           /\ IsFiniteSet(Units(Storing)') /\ IsFiniteSet(Units(Owing)')
           /\ Cardinality(Units(Storing)) \in Nat /\ Cardinality(Units(Owing)) \in Nat
           /\ Cardinality(Units(Storing)') = Cardinality(Units(Storing))
           /\ \/ Cardinality(Units(Owing)') = Cardinality(Units(Owing))
              \/ Cardinality(Units(Owing)') = Cardinality(Units(Owing)) + th[t].amt
<1>1. TypeOK /\ th[t].amt \in Nat /\ IsFiniteSet(Units(Owing)) /\ IsFiniteSet(Units(Storing))
    BY ThreadTyped DEF WalletInv
<1>2. Storing' = Storing \ {t} /\ t \notin Storing
    BY DEF OnlyThread, Storing
<1>3. (Owing' = Owing \ {t} \/ Owing' = Owing \cup {t}) /\ t \notin Owing
    <2>1. t \notin Owing
        BY DEF Owing
    <2>2. CASE t \in Owing'
        BY <2>2 DEF OnlyThread, Owing, SameHash, Hash
    <2>3. CASE t \notin Owing'
        BY <2>3 DEF OnlyThread, Owing, SameHash, Hash
    <2> QED
        BY <2>1, <2>2, <2>3
<1>4. Storing \subseteq Threads /\ Owing \subseteq Threads
    BY DEF Storing, Owing
<1>5. /\ IsFiniteSet(UnitsOf(th, Storing)) /\ IsFiniteSet(UnitsOf(th, Owing))
      /\ \A u \in Storing \ {t} : th'[u].amt = th[u].amt
      /\ \A u \in Owing : th'[u].amt = th[u].amt
    BY <1>1, <1>3, <1>4, Units_UnitsOf DEF OnlyThread
<1>6. /\ IsFiniteSet(UnitsOf(th', Storing \ {t}))
      /\ Cardinality(UnitsOf(th', Storing \ {t})) = Cardinality(UnitsOf(th, Storing))
    BY <1>1, <1>2, <1>5, UnitsSame
<1>7. /\ IsFiniteSet(UnitsOf(th', Owing \ {t}))
      /\ Cardinality(UnitsOf(th', Owing \ {t})) = Cardinality(UnitsOf(th, Owing))
    BY <1>1, <1>3, <1>5, UnitsSame
<1>8. /\ IsFiniteSet(UnitsOf(th', Owing \cup {t}))
      /\ Cardinality(UnitsOf(th', Owing \cup {t})) = Cardinality(UnitsOf(th, Owing)) + th'[t].amt
    <2>1. th'[t].amt \in Nat
        BY <1>1
    <2> QED
        BY <1>3, <1>5, <2>1, ThreadBrings
<1>9. Cardinality(Units(Storing)) \in Nat /\ Cardinality(Units(Owing)) \in Nat
    BY <1>1, FS_CardinalityType
<1>10. Storing \ {t} = Storing
    BY <1>2
<1>11. /\ Cardinality(Units(Storing)') = Cardinality(Units(Storing))
       /\ IsFiniteSet(Units(Storing)')
    BY <1>2, <1>6, <1>9, Units_UnitsOf
<1>12. CASE Owing' = Owing \ {t}
    BY <1>2, <1>7, <1>9, <1>10, <1>11, <1>12, Units_UnitsOf
<1>13. CASE Owing' = Owing \cup {t}
    BY <1>2, <1>8, <1>9, <1>10, <1>11, <1>13, Units_UnitsOf
<1> QED
    BY <1>3, <1>12, <1>13

(***************************************************************************)
(* Types.                                                                  *)
(***************************************************************************)
LEMMA TypedStep ==
    ASSUME TypeOK, NEW t \in Threads, OnlyThread(t), gens' \in {gens, gens + 1}, db' \in Int,
           mirror' \in [quota : Int, gen : 0..gens'], fence' \in Fences, exposed' \in BOOLEAN,
           ops' \in 0..MaxOps, faults' \in 0..MaxFaults
    PROVE  TypeOK'
<1>1. gens \in Nat /\ gens' \in Nat /\ gens <= gens'
    BY DEF TypeOK
<1>2. 0..gens \subseteq 0..gens'
    BY <1>1
<1>3. ThreadState(gens) \subseteq ThreadState(gens')
    BY <1>2 DEF ThreadState
<1>4. th' \in [Threads -> ThreadState(gens')]
    BY <1>3 DEF OnlyThread
<1> QED
    BY <1>1, <1>4 DEF TypeOK, ThreadState

LEMMA ReplyTyped ==
    ASSUME TypeOK, NEW o, Reply(o) \/ UNCHANGED faults
    PROVE  faults' \in 0..MaxFaults
BY BoundsAssumption DEF TypeOK, Reply

(* A step that neither moves a balance nor grants or credits one.          *)
LEMMA QuietStep ==
    ASSUME WalletInv, NEW t \in Threads, OnlyThread(t), th'[t].pc \notin {"persist", "sync"},
           th'[t].pc \in {"fill", "hydFill"} => th'[t].read <= db,
           UNCHANGED <<db, mirror, gens, exposed>>,
           fence' \in Fences, ops' \in 0..MaxOps, faults' \in 0..MaxFaults
    PROVE  WalletInv'
<1>1. TypeOK /\ MirrorBacked /\ FillsBacked /\ th[t].amt \in Nat /\ db \in Int /\ mirror.quota \in Int
    BY ThreadTyped DEF WalletInv, TypeOK
<1>2. TypeOK'
    <2>1. /\ gens' \in {gens, gens + 1} /\ db' \in Int /\ exposed' \in BOOLEAN
          /\ mirror' \in [quota : Int, gen : 0..gens']
        BY <1>1 DEF TypeOK
    <2> QED
        BY <1>1, <2>1, TypedStep
<1>3. /\ Storing' = Storing \ {t}
      /\ IsFiniteSet(Units(Storing)') /\ IsFiniteSet(Units(Owing)')
      /\ Cardinality(Units(Storing)) \in Nat /\ Cardinality(Units(Owing)) \in Nat
      /\ Cardinality(Units(Storing)') \in Nat /\ Cardinality(Units(Owing)') \in Nat
      /\ Cardinality(Units(Storing)') =
            Cardinality(Units(Storing)) - (IF t \in Storing THEN th[t].amt ELSE 0)
      /\ Cardinality(Units(Owing)') =
            Cardinality(Units(Owing)) - (IF t \in Owing THEN th[t].amt ELSE 0)
    BY LeavesUnits
<1>4. /\ Cardinality(Units(Storing)') <= Cardinality(Units(Storing))
      /\ Cardinality(Units(Owing)') <= Cardinality(Units(Owing))
    BY <1>1, <1>3
<1>5. MirrorBacked'
    <2> DEFINE a == Cardinality(Units(Owing))
               b == Cardinality(Units(Storing))
               c == Cardinality(Units(Owing)')
               d == Cardinality(Units(Storing)')
    <2>1. a \in Nat /\ b \in Nat /\ c \in Nat /\ d \in Nat /\ c <= a /\ d <= b
        BY <1>3, <1>4
    <2>2. ~exposed /\ Hash => mirror.quota + a + b <= db
        BY <1>1 DEF MirrorBacked
    <2> HIDE DEF a, b, c, d
    <2>3. ~exposed /\ Hash => mirror.quota + c + d <= db
        BY <1>1, <2>1, <2>2
    <2> QED
        BY <2>3 DEF MirrorBacked, Hash, c, d
<1>6. FillsBacked'
    <2>1. SUFFICES ASSUME ~exposed, ~Hash PROVE
              Storing' = {} /\ \A u \in Threads : th'[u].pc \in {"fill", "hydFill"} => th'[u].read <= db
        BY DEF FillsBacked, Hash
    <2>2. Storing = {} /\ \A u \in Threads : th[u].pc \in {"fill", "hydFill"} => th[u].read <= db
        BY <1>1, <2>1 DEF FillsBacked
    <2> QED
        BY <1>3, <2>2 DEF OnlyThread
<1> QED
    BY <1>2, <1>3, <1>5, <1>6 DEF WalletInv

(***************************************************************************)
(* The three kinds of step that move a balance.                            *)
(***************************************************************************)
(* The hash stays the same one: what counts is the sum.                    *)
LEMMA HashStep ==
    ASSUME WalletInv, TypeOK', Hash, mirror'.gen = mirror.gen, exposed' = exposed,
           IsFiniteSet(Units(Storing)'), IsFiniteSet(Units(Owing)'),
           ~exposed => mirror'.quota + Cardinality(Units(Owing)') + Cardinality(Units(Storing)') <= db'
    PROVE  WalletInv'
<1>1. MirrorBacked'
    BY DEF MirrorBacked
<1>2. FillsBacked'
    BY DEF FillsBacked, Hash
<1> QED
    BY <1>1, <1>2 DEF WalletInv

(* After the hash has disappeared unsafely nothing is promised.            *)
LEMMA ExposedStep ==
    ASSUME TypeOK', exposed', IsFiniteSet(Units(Storing)'), IsFiniteSet(Units(Owing)')
    PROVE  WalletInv'
BY DEF WalletInv, MirrorBacked, FillsBacked

(* There is no hash after the step.                                        *)
LEMMA NoHashStep ==
    ASSUME TypeOK', ~Hash', IsFiniteSet(Units(Storing)'), IsFiniteSet(Units(Owing)'),
           ~exposed' => Storing' = {},
           ~exposed' => \A u \in Threads : th'[u].pc \in {"fill", "hydFill"} => th'[u].read <= db'
    PROVE  WalletInv'
<1>1. MirrorBacked'
    BY DEF MirrorBacked
<1>2. FillsBacked'
    BY DEF FillsBacked
<1> QED
    BY <1>1, <1>2 DEF WalletInv

LEMMA NoOwing ==
    ASSUME Owing' = {}
    PROVE  IsFiniteSet(Units(Owing)') /\ Cardinality(Units(Owing)') = 0
<1>1. Units(Owing)' = {}
    BY DEF Units
<1> QED
    BY <1>1, FS_EmptySet

(* The granted debits, whatever happens to the hash.                       *)
LEMMA LeavesStoring ==
    ASSUME WalletInv, NEW t \in Threads, OnlyThread(t), th'[t].pc # "persist"
    PROVE  Storing' = Storing \ {t} /\ IsFiniteSet(Units(Storing)')
<1>1. TypeOK /\ th[t].amt \in Nat /\ IsFiniteSet(Units(Storing))
    BY ThreadTyped DEF WalletInv
<1>2. Storing' = Storing \ {t}
    BY DEF OnlyThread, Storing
<1>3. \A u \in Storing \ {t} : th'[u].amt = th[u].amt
    BY DEF OnlyThread, Storing
<1>4. IsFiniteSet(UnitsOf(th, Storing))
    BY <1>1, Units_UnitsOf
<1>5. IsFiniteSet(UnitsOf(th', Storing \ {t}))
    BY <1>1, <1>3, <1>4, UnitsWithout
<1> QED
    BY <1>2, <1>5, Units_UnitsOf

(***************************************************************************)
(* Hydration: a thread that publishes what it has read.                    *)
(***************************************************************************)
LEMMA Publishes ==
    ASSUME WalletInv, NEW t \in Threads, th[t].pc \in {"fill", "hydFill"}, ~Hash,
           OnlyThread(t), th'[t].pc \notin {"persist", "sync"},
           mirror' = [quota |-> th[t].read, gen |-> gens + 1], gens' = gens + 1,
           UNCHANGED <<db, fence, exposed, ops>>, faults' \in 0..MaxFaults
    PROVE  WalletInv'
<1>1. TypeOK /\ FillsBacked /\ th[t].read \in Int /\ gens \in Nat /\ db \in Int
    BY ThreadTyped DEF WalletInv, TypeOK
<1>2. TypeOK'
    <2>1. /\ gens' \in {gens, gens + 1} /\ db' \in Int /\ exposed' \in BOOLEAN /\ fence' \in Fences
          /\ mirror' \in [quota : Int, gen : 0..gens'] /\ ops' \in 0..MaxOps
        BY <1>1 DEF TypeOK
    <2> QED
        BY <1>1, <2>1, TypedStep
<1>3. Storing' = Storing \ {t} /\ IsFiniteSet(Units(Storing)')
    BY LeavesStoring
<1>4. Owing' = {}
    <2>1. \A u \in Threads : th'[u].pc = "sync" => th'[u].gen \in 0..gens
        <3>1. \A u \in Threads : th[u].gen \in 0..gens
            BY <1>1, ThreadTyped
        <3> QED
            BY <3>1 DEF OnlyThread
    <2>2. \A g \in 0..gens : g # gens + 1
        BY <1>1
    <2>3. \A u \in Threads : th'[u].pc = "sync" => th'[u].gen # mirror'.gen
        BY <2>1, <2>2
    <2> QED
        BY <2>3 DEF Owing, SameHash
<1>5. IsFiniteSet(Units(Owing)') /\ Cardinality(Units(Owing)') = 0
    BY <1>4, NoOwing
<1>6. ASSUME ~exposed
      PROVE  Cardinality(Units(Storing)') = 0 /\ th[t].read <= db
    <2>1. Storing = {} /\ th[t].read <= db
        BY <1>1, <1>6 DEF FillsBacked
    <2>2. Storing' = {}
        BY <1>3, <2>1
    <2>3. Units(Storing)' = {}
        BY <2>2 DEF Units
    <2> QED
        BY <2>1, <2>3, FS_EmptySet
<1>7. MirrorBacked'
    <2>1. ASSUME ~exposed PROVE th[t].read + 0 + 0 <= db
        BY <1>1, <1>6, <2>1
    <2> QED
        BY <1>5, <1>6, <2>1 DEF MirrorBacked
<1>8. FillsBacked'
    <2>1. mirror'.gen # 0
        BY <1>1
    <2> QED
        BY <2>1 DEF FillsBacked, Hash
<1> QED
    BY <1>2, <1>3, <1>5, <1>7, <1>8 DEF WalletInv

(***************************************************************************)
(* The steps of a thread, one by one.                                      *)
(***************************************************************************)
LEMMA InvTyped ==
    ASSUME WalletInv
    PROVE  /\ TypeOK /\ fence \in Fences /\ ops \in 0..MaxOps /\ faults \in 0..MaxFaults
           /\ db \in Int /\ mirror.quota \in Int /\ mirror.gen \in 0..gens /\ gens \in Nat
BY DEF WalletInv, TypeOK

LEMMA KeepsBeginning ==
    ASSUME WalletInv, NEW t \in Threads, NEW op \in Ops, NEW n \in Amounts, Begin(t, op, n)
    PROVE  WalletInv'
<1>1. TypeOK /\ fence' \in Fences /\ faults' \in 0..MaxFaults /\ ops' \in 0..MaxOps
    BY InvTyped, BoundsAssumption DEF Begin
<1>2. PICK p \in {"capture", "hyd", "resolve"} :
          th' = [th EXCEPT ![t] = [Idle EXCEPT !.op = op, !.amt = n, !.pc = p]]
    BY DEF Begin
<1> DEFINE y(x) == [x EXCEPT !.op = op, !.amt = n, !.pc = p]
<1>3. ASSUME NEW x \in ThreadState(gens)
      PROVE  y(x) \in ThreadState(gens) /\ y(x).pc = p
    BY OpsAssumption DEF ThreadState, Pc
<1>4. y(Idle) \in ThreadState(gens) /\ y(Idle).pc = p
    BY <1>1, <1>3, IdleTyped
<1>5. OnlyThread(t) /\ th'[t].pc = p
    <2>1. th' = [th EXCEPT ![t] = y(Idle)]
        BY <1>2
    <2> QED
        BY <1>1, <1>4, <2>1, Replaces
<1> QED
    BY <1>1, <1>5, QuietStep DEF Begin

(* A step of a thread that only goes on or returns.                        *)
LEMMA GoesOn ==
    ASSUME WalletInv, NEW t \in Threads, NEW p, NEW r, NEW g,
           Moves(t, p, r, g) \/ Ends(t), p \notin {"persist", "sync"},
           p \in {"fill", "hydFill"} => r <= db,
           UNCHANGED <<db, mirror, gens, exposed, ops>>,
           fence' \in Fences, faults' \in 0..MaxFaults
    PROVE  WalletInv'
<1>1. OnlyThread(t) /\ th'[t].pc \notin {"persist", "sync"}
    BY DEF Moves, Ends
<1>2. th'[t].pc \in {"fill", "hydFill"} => th'[t].read <= db
    BY DEF Moves, Ends
<1>3. ops' \in 0..MaxOps
    BY InvTyped
<1> QED
    BY <1>1, <1>2, <1>3, QuietStep

LEMMA KeepsResolving ==
    ASSUME WalletInv, NEW t \in Threads, Resolve(t)
    PROVE  WalletInv'
<1>1. TypeOK /\ faults' \in 0..MaxFaults /\ fence' \in Fences
    <2>1. TypeOK /\ fence \in Fences
        BY InvTyped
    <2>2. faults' \in 0..MaxFaults
        BY <2>1, ReplyTyped DEF Resolve
    <2> QED
        BY <2>1, <2>2 DEF Resolve, Fences
<1>2. \/ \E p \in {"rehyd", "try", "load"} : Goto(t, p)
      \/ Return(t)
    BY DEF Resolve, Resolved
<1>3. CASE Return(t)
    <2>1. Ends(t)
        BY <1>1, <1>3, ReturnEnds
    <2> QED
        BY <1>1, <2>1, GoesOn DEF Resolve
<1>4. ASSUME NEW p \in {"rehyd", "try", "load"}, Goto(t, p)
      PROVE  WalletInv'
    <2>1. Moves(t, p, th[t].read, th[t].gen)
        BY <1>1, <1>4, GotoMoves DEF Pc
    <2> QED
        BY <1>1, <2>1, GoesOn DEF Resolve
<1> QED
    BY <1>2, <1>3, <1>4

LEMMA KeepsLoading ==
    ASSUME WalletInv, NEW t \in Threads, Load(t) \/ HydLoad(t)
    PROVE  WalletInv'
<1>1. TypeOK /\ faults' \in 0..MaxFaults /\ fence' \in Fences /\ db \in Int
      /\ UNCHANGED <<db, mirror, gens, exposed, ops>>
    BY InvTyped, ReplyTyped DEF Load, HydLoad
<1>2. \/ \E p \in {"fill", "hydFill"} : th' = [th EXCEPT ![t].read = db, ![t].pc = p]
      \/ Goto(t, "restore")
      \/ Return(t)
    BY DEF Load, HydLoad
<1>3. CASE Return(t)
    <2>1. Ends(t)
        BY <1>1, <1>3, ReturnEnds
    <2> QED
        BY <1>1, <2>1, GoesOn
<1>4. CASE Goto(t, "restore")
    <2>1. Moves(t, "restore", th[t].read, th[t].gen)
        BY <1>1, <1>4, GotoMoves DEF Pc
    <2> QED
        BY <1>1, <2>1, GoesOn
<1>5. ASSUME NEW p \in {"fill", "hydFill"}, th' = [th EXCEPT ![t].read = db, ![t].pc = p]
      PROVE  WalletInv'
    <2>1. Moves(t, p, db, th[t].gen)
        BY <1>1, <1>5, ReadMoves DEF Pc
    <2>2. db <= db
        BY <1>1
    <2> QED
        BY <1>1, <2>1, <2>2, GoesOn
<1> QED
    BY <1>2, <1>3, <1>4, <1>5

LEMMA KeepsReleasing ==
    ASSUME WalletInv, NEW t \in Threads, Restore(t) \/ Release(t)
    PROVE  WalletInv'
<1>1. TypeOK /\ faults' \in 0..MaxFaults /\ fence' \in Fences
      /\ UNCHANGED <<db, mirror, gens, exposed, ops>>
    <2>1. TypeOK /\ fence \in Fences
        BY InvTyped
    <2>2. faults' \in 0..MaxFaults
        BY <2>1, ReplyTyped DEF Restore, Release
    <2> QED
        BY <2>1, <2>2 DEF Restore, Release, Fences
<1>2. \/ \E p \in {"rehyd", "try"} : Goto(t, p)
      \/ Return(t)
    BY DEF Restore, Release, Resolved
<1>3. CASE Return(t)
    <2>1. Ends(t)
        BY <1>1, <1>3, ReturnEnds
    <2> QED
        BY <1>1, <2>1, GoesOn
<1>4. ASSUME NEW p \in {"rehyd", "try"}, Goto(t, p)
      PROVE  WalletInv'
    <2>1. Moves(t, p, th[t].read, th[t].gen)
        BY <1>1, <1>4, GotoMoves DEF Pc
    <2> QED
        BY <1>1, <2>1, GoesOn
<1> QED
    BY <1>2, <1>3, <1>4

LEMMA KeepsLooking ==
    ASSUME WalletInv, NEW t \in Threads, Hyd(t)
    PROVE  WalletInv'
<1>1. TypeOK /\ faults' \in 0..MaxFaults /\ fence' \in Fences
      /\ UNCHANGED <<db, mirror, gens, exposed, ops>>
    BY InvTyped, ReplyTyped DEF Hyd
<1>2. \/ \E p \in {"resolve", "try", "hydLoad"} : th' = [th EXCEPT ![t].again = TRUE, ![t].pc = p]
      \/ Return(t)
    BY DEF Hyd
<1>3. CASE Return(t)
    <2>1. Ends(t)
        BY <1>1, <1>3, ReturnEnds
    <2> QED
        BY <1>1, <2>1, GoesOn
<1>4. ASSUME NEW p \in {"resolve", "try", "hydLoad"},
             th' = [th EXCEPT ![t].again = TRUE, ![t].pc = p]
      PROVE  WalletInv'
    <2>1. Moves(t, p, th[t].read, th[t].gen)
        BY <1>1, <1>4, AgainMoves DEF Pc
    <2> QED
        BY <1>1, <2>1, GoesOn
<1> QED
    BY <1>2, <1>3, <1>4

LEMMA KeepsCapturing ==
    ASSUME WalletInv, NEW t \in Threads, Capture(t)
    PROVE  WalletInv'
<1>1. TypeOK /\ faults' \in 0..MaxFaults /\ fence' \in Fences
      /\ UNCHANGED <<db, mirror, gens, exposed, ops>>
    BY InvTyped, ReplyTyped DEF Capture
<1>2. PICK g \in {mirror.gen, 0} : th' = [th EXCEPT ![t].gen = g, ![t].pc = "credit"]
    BY DEF Capture
<1>3. g \in 0..gens
    BY InvTyped
<1>4. Moves(t, "credit", th[t].read, g)
    BY <1>1, <1>2, <1>3, GenMoves DEF Pc
<1> QED
    BY <1>1, <1>4, GoesOn

LEMMA KeepsCrashing ==
    ASSUME WalletInv, NEW t \in Threads, Crash(t)
    PROVE  WalletInv'
<1>1. TypeOK /\ faults' \in 0..MaxFaults /\ fence' \in Fences
      /\ UNCHANGED <<db, mirror, gens, exposed, ops>>
    BY InvTyped, BoundsAssumption DEF Crash
<1>2. Ends(t)
    BY <1>1, ReturnEnds DEF Crash
<1> QED
    BY <1>1, <1>2, GoesOn

LEMMA KeepsFilling ==
    ASSUME WalletInv, NEW t \in Threads, Fill(t) \/ HydFill(t)
    PROVE  WalletInv'
<1>1. TypeOK /\ faults' \in 0..MaxFaults /\ fence' \in Fences
      /\ UNCHANGED <<db, fence, exposed, ops>>
    BY InvTyped, ReplyTyped DEF Fill, HydFill
<1>2. \/ \E p \in {"release", "restore", "try"} : Goto(t, p)
      \/ Return(t)
    BY DEF Fill, HydFill
<1>3. \E p, r, g : (Moves(t, p, r, g) \/ Ends(t)) /\ p \in {"release", "restore", "try"}
    <2>1. CASE Return(t)
        BY <1>1, <2>1, ReturnEnds
    <2>2. ASSUME NEW p \in {"release", "restore", "try"}, Goto(t, p)
          PROVE  Moves(t, p, th[t].read, th[t].gen)
        BY <1>1, <2>2, GotoMoves DEF Pc
    <2> QED
        BY <1>2, <2>1, <2>2
<1>4. \/ UNCHANGED <<mirror, gens>>
      \/ ~Hash /\ mirror' = [quota |-> th[t].read, gen |-> gens + 1] /\ gens' = gens + 1
    BY DEF Fill, HydFill, Filled
<1>5. CASE UNCHANGED <<mirror, gens>>
    BY <1>1, <1>3, <1>5, GoesOn
<1>6. CASE ~Hash /\ mirror' = [quota |-> th[t].read, gen |-> gens + 1] /\ gens' = gens + 1
    <2>1. OnlyThread(t) /\ th'[t].pc \notin {"persist", "sync"}
        BY <1>3 DEF Moves, Ends
    <2>2. th[t].pc \in {"fill", "hydFill"}
        BY DEF Fill, HydFill
    <2> QED
        BY <1>1, <1>6, <2>1, <2>2, Publishes
<1> QED
    BY <1>4, <1>5, <1>6

(* A granted debit: what the mirror loses the thread brings along.         *)
LEMMA KeepsTrying ==
    ASSUME WalletInv, NEW t \in Threads, TryMirror(t)
    PROVE  WalletInv'
<1>1. TypeOK /\ faults' \in 0..MaxFaults /\ fence' \in Fences
      /\ UNCHANGED <<db, fence, gens, exposed, ops>>
      /\ db \in Int /\ mirror.quota \in Int /\ th[t].amt \in Nat
    BY InvTyped, ReplyTyped, ThreadTyped DEF TryMirror
<1> DEFINE less == [mirror EXCEPT !.quota = @ - th[t].amt]
<1>2. \/ mirror' = mirror /\ (Return(t) \/ Goto(t, "hyd"))
      \/ Hash /\ mirror' = less /\ (Return(t) \/ Goto(t, "persist"))
    BY DEF TryMirror
<1>3. CASE mirror' = mirror /\ (Return(t) \/ Goto(t, "hyd"))
    <2>1. Moves(t, "hyd", th[t].read, th[t].gen) \/ Ends(t)
        BY <1>1, <1>3, ReturnEnds, GotoMoves DEF Pc
    <2> QED
        BY <1>1, <1>3, <2>1, GoesOn
<1>4. CASE Hash /\ mirror' = less /\ (Return(t) \/ Goto(t, "persist"))
    <2>1. /\ mirror'.gen = mirror.gen /\ mirror'.quota = mirror.quota - th[t].amt
          /\ mirror' \in [quota : Int, gen : 0..gens]
        BY <1>1, <1>4 DEF TypeOK
    <2>2. Ends(t) \/ Moves(t, "persist", th[t].read, th[t].gen)
        BY <1>1, <1>4, ReturnEnds, GotoMoves DEF Pc
    <2>3. TypeOK'
        <3>1. /\ OnlyThread(t) /\ gens' \in {gens, gens + 1} /\ db' \in Int /\ exposed' \in BOOLEAN
              /\ mirror' \in [quota : Int, gen : 0..gens'] /\ ops' \in 0..MaxOps
            BY <1>1, <2>1, <2>2 DEF TypeOK, Moves, Ends
        <3> QED
            BY <1>1, <3>1, TypedStep
    <2> DEFINE a == Cardinality(Units(Owing))
               b == Cardinality(Units(Storing))
               c == Cardinality(Units(Owing)')
               d == Cardinality(Units(Storing)')
               n == th[t].amt
               m == mirror.quota
    <2>4. ~exposed => m + a + b <= db
        BY <1>4 DEF MirrorBacked, WalletInv
    <2>5. th[t].pc = "try"
        BY DEF TryMirror
    <2>6. /\ IsFiniteSet(Units(Storing)') /\ IsFiniteSet(Units(Owing)')
          /\ a \in Nat /\ b \in Nat
          /\ \/ d = b + n /\ c = a
             \/ d = b - 0 /\ c = a - 0
        <3>1. CASE Ends(t)
            <4>1. OnlyThread(t) /\ th'[t].pc \notin {"persist", "sync"}
                BY <3>1 DEF Ends
            <4>2. t \notin Storing /\ t \notin Owing
                BY <2>5 DEF Storing, Owing
            <4> QED
                BY <2>1, <4>1, <4>2, LeavesUnits
        <3>2. CASE Moves(t, "persist", th[t].read, th[t].gen)
            <4>1. OnlyThread(t) /\ th'[t].pc = "persist" /\ th'[t].amt = th[t].amt
                BY <3>2 DEF Moves
            <4>2. th[t].pc \notin {"persist", "sync"}
                BY <2>5
            <4> QED
                BY <2>1, <4>1, <4>2, JoinsStoring
        <3> QED
            BY <2>2, <3>1, <3>2
    <2>7. n \in Nat /\ m \in Int /\ db \in Int
        BY <1>1
    <2> HIDE DEF a, b, c, d, n, m
    <2>8. ~exposed => (m - n) + c + d <= db
        BY <2>4, <2>6, <2>7
    <2>9. ~exposed => mirror'.quota + Cardinality(Units(Owing)') + Cardinality(Units(Storing)') <= db'
        BY <1>1, <2>1, <2>8 DEF m, n, c, d
    <2> QED
        BY <1>1, <1>4, <2>1, <2>3, <2>6, <2>9, HashStep
<1> QED
    BY <1>2, <1>3, <1>4

(* A debit is stored, or may have been: its thread stores it no longer.    *)
LEMMA KeepsPersisting ==
    ASSUME WalletInv, NEW t \in Threads, Persist(t)
    PROVE  WalletInv'
<1>1. TypeOK /\ faults' \in 0..MaxFaults /\ fence' \in Fences
      /\ UNCHANGED <<mirror, fence, gens, exposed, ops>>
      /\ db \in Int /\ mirror.quota \in Int /\ th[t].amt \in Nat
    BY InvTyped, ReplyTyped, ThreadTyped DEF Persist
<1>2. Ends(t) \/ Moves(t, "fence", th[t].read, th[t].gen)
    BY <1>1, ReturnEnds, GotoMoves DEF Persist, Pc
<1>3. db' \in {db, db - th[t].amt}
    BY DEF Persist
<1>4. OnlyThread(t) /\ th'[t].pc \notin {"persist", "sync"}
    BY <1>2 DEF Ends, Moves
<1>5. TypeOK'
    <2>1. /\ gens' \in {gens, gens + 1} /\ db' \in Int /\ exposed' \in BOOLEAN
          /\ mirror' \in [quota : Int, gen : 0..gens'] /\ ops' \in 0..MaxOps
        BY <1>1, <1>3 DEF TypeOK
    <2> QED
        BY <1>1, <1>4, <2>1, TypedStep
<1>6. t \in Storing /\ t \notin Owing
    BY DEF Persist, Storing, Owing
<1> DEFINE a == Cardinality(Units(Owing))
           b == Cardinality(Units(Storing))
           c == Cardinality(Units(Owing)')
           d == Cardinality(Units(Storing)')
           n == th[t].amt
           m == mirror.quota
<1>7. /\ IsFiniteSet(Units(Storing)') /\ IsFiniteSet(Units(Owing)')
      /\ a \in Nat /\ b \in Nat /\ d = b - n /\ c = a - 0
    BY <1>1, <1>4, <1>6, LeavesUnits
<1>8. CASE Hash
    <2>1. ~exposed => m + a + b <= db
        BY <1>8 DEF MirrorBacked, WalletInv
    <2>2. n \in Nat /\ m \in Int /\ db \in Int
        BY <1>1
    <2>3. n = th[t].amt
        OBVIOUS
    <2> HIDE DEF a, b, c, d, n, m
    <2>4. ~exposed => m + c + d <= db - n /\ m + c + d <= db
        BY <1>7, <2>1, <2>2
    <2>5. ~exposed => m + c + d <= db'
        BY <1>3, <2>3, <2>4
    <2>6. ~exposed => mirror'.quota + Cardinality(Units(Owing)') + Cardinality(Units(Storing)') <= db'
        BY <1>1, <2>5 DEF m, c, d
    <2> QED
        BY <1>1, <1>5, <1>7, <1>8, <2>6, HashStep
<1>9. CASE ~Hash
    <2>1. exposed'
        BY <1>1, <1>6, <1>9 DEF WalletInv, FillsBacked
    <2> QED
        BY <1>5, <1>7, <2>1, ExposedStep
<1> QED
    BY <1>8, <1>9

(* A credit is in the row before its thread owes it to the hash.           *)
LEMMA KeepsCrediting ==
    ASSUME WalletInv, NEW t \in Threads, Credit(t)
    PROVE  WalletInv'
<1>1. TypeOK /\ faults' \in 0..MaxFaults /\ fence' \in Fences
      /\ UNCHANGED <<mirror, fence, gens, exposed, ops>>
      /\ db \in Int /\ mirror.quota \in Int /\ th[t].amt \in Nat
    BY InvTyped, ReplyTyped, ThreadTyped DEF Credit
<1>2. \/ Ends(t) /\ db' \in {db, db + th[t].amt}
      \/ Moves(t, "sync", th[t].read, th[t].gen) /\ db' = db + th[t].amt
    BY <1>1, ReturnEnds, GotoMoves DEF Credit, Pc
<1>3. db' \in Int /\ db <= db'
    BY <1>1, <1>2
<1>4. OnlyThread(t) /\ th[t].pc \notin {"persist", "sync"} /\ th'[t].pc \in {"idle", "sync"}
    BY <1>2 DEF Ends, Moves, Credit
<1>5. TypeOK'
    <2>1. /\ gens' \in {gens, gens + 1} /\ exposed' \in BOOLEAN
          /\ mirror' \in [quota : Int, gen : 0..gens'] /\ ops' \in 0..MaxOps
        BY <1>1 DEF TypeOK
    <2> QED
        BY <1>1, <1>3, <1>4, <2>1, TypedStep
<1> DEFINE a == Cardinality(Units(Owing))
           b == Cardinality(Units(Storing))
           c == Cardinality(Units(Owing)')
           d == Cardinality(Units(Storing)')
           n == th[t].amt
           m == mirror.quota
<1>6. /\ IsFiniteSet(Units(Storing)') /\ IsFiniteSet(Units(Owing)')
      /\ a \in Nat /\ b \in Nat /\ d = b
      /\ c = a \/ (c = a + n /\ db' = db + n)
    <2>1. CASE Ends(t)
        <3>1. t \notin Storing /\ t \notin Owing
            BY <1>4 DEF Storing, Owing
        <3>2. th'[t].pc \notin {"persist", "sync"}
            BY <2>1 DEF Ends
        <3>3. /\ IsFiniteSet(Units(Storing)') /\ IsFiniteSet(Units(Owing)')
              /\ a \in Nat /\ b \in Nat /\ d = b - 0 /\ c = a - 0
            BY <1>1, <1>4, <3>1, <3>2, LeavesUnits
        <3> HIDE DEF a, b, c, d, n, m
        <3> QED
            BY <3>3
    <2>2. CASE Moves(t, "sync", th[t].read, th[t].gen) /\ db' = db + th[t].amt
        <3>1. th'[t].pc = "sync" /\ th'[t].amt = th[t].amt
            BY <2>2 DEF Moves
        <3> QED
            BY <1>1, <1>4, <2>2, <3>1, JoinsOwing
    <2> QED
        BY <1>2, <2>1, <2>2
<1>7. CASE Hash
    <2>1. ~exposed => m + a + b <= db
        BY <1>7 DEF MirrorBacked, WalletInv
    <2>2. n \in Nat /\ m \in Int
        BY <1>1
    <2> HIDE DEF a, b, c, d, n, m
    <2>3. ~exposed => m + c + d <= db'
        BY <1>1, <1>3, <1>6, <2>1, <2>2
    <2>4. ~exposed => mirror'.quota + Cardinality(Units(Owing)') + Cardinality(Units(Storing)') <= db'
        BY <1>1, <2>3 DEF m, c, d
    <2> QED
        BY <1>1, <1>5, <1>6, <1>7, <2>4, HashStep
<1>8. CASE ~Hash
    <2>1. ~Hash'
        BY <1>1, <1>8 DEF Hash
    <2>2. Storing' = Storing \ {t}
        BY <1>4, LeavesStoring
    <2>3. ASSUME ~exposed
          PROVE  Storing' = {} /\ \A u \in Threads : th'[u].pc \in {"fill", "hydFill"} => th'[u].read <= db'
        <3>1. Storing = {} /\ \A u \in Threads : th[u].pc \in {"fill", "hydFill"} => th[u].read <= db
            BY <1>8, <2>3 DEF WalletInv, FillsBacked
        <3>2. ASSUME NEW u \in Threads, th'[u].pc \in {"fill", "hydFill"}
              PROVE  th'[u].read <= db'
            <4>1. th'[u] = th[u] /\ th[u].read <= db /\ th[u].read \in Int
                BY <1>1, <1>4, <3>1, <3>2, ThreadTyped DEF OnlyThread
            <4> QED
                BY <1>1, <1>3, <4>1
        <3> QED
            BY <2>2, <3>1, <3>2
    <2> QED
        BY <1>1, <1>5, <1>6, <2>1, <2>3, NoHashStep
<1> QED
    BY <1>7, <1>8

(* The credit reaches the hash: the mirror gains what the thread owed.     *)
LEMMA KeepsSyncing ==
    ASSUME WalletInv, NEW t \in Threads, Sync(t)
    PROVE  WalletInv'
<1>1. TypeOK /\ faults' \in 0..MaxFaults /\ fence' \in Fences
      /\ UNCHANGED <<db, fence, gens, exposed, ops>>
      /\ db \in Int /\ mirror.quota \in Int /\ th[t].amt \in Nat
    BY InvTyped, ReplyTyped, ThreadTyped DEF Sync
<1> DEFINE more == [mirror EXCEPT !.quota = @ + th[t].amt]
<1>2. Return(t) \/ Goto(t, "fence")
    BY DEF Sync
<1>3. mirror' = mirror \/ (SameHash(t) /\ mirror' = more)
    BY DEF Sync
<1>4. Moves(t, "fence", th[t].read, th[t].gen) \/ Ends(t)
    BY <1>1, <1>2, ReturnEnds, GotoMoves DEF Pc
<1>5. CASE mirror' = mirror
    BY <1>1, <1>4, <1>5, GoesOn
<1>6. CASE SameHash(t) /\ mirror' = more
    <2>1. /\ mirror'.gen = mirror.gen /\ mirror'.quota = mirror.quota + th[t].amt
          /\ mirror' \in [quota : Int, gen : 0..gens] /\ Hash
        BY <1>1, <1>6 DEF TypeOK, SameHash
    <2>2. OnlyThread(t) /\ th'[t].pc \notin {"persist", "sync"}
        BY <1>4 DEF Ends, Moves
    <2>3. TypeOK'
        <3>1. /\ gens' \in {gens, gens + 1} /\ db' \in Int /\ exposed' \in BOOLEAN
              /\ mirror' \in [quota : Int, gen : 0..gens'] /\ ops' \in 0..MaxOps
            BY <1>1, <2>1 DEF TypeOK
        <3> QED
            BY <1>1, <2>2, <3>1, TypedStep
    <2>4. t \in Owing /\ t \notin Storing
        BY <1>6 DEF Owing, Storing, Sync
    <2> DEFINE a == Cardinality(Units(Owing))
               b == Cardinality(Units(Storing))
               c == Cardinality(Units(Owing)')
               d == Cardinality(Units(Storing)')
               n == th[t].amt
               m == mirror.quota
    <2>5. /\ IsFiniteSet(Units(Storing)') /\ IsFiniteSet(Units(Owing)')
          /\ a \in Nat /\ b \in Nat /\ d = b - 0 /\ c = a - n
        BY <2>1, <2>2, <2>4, LeavesUnits
    <2>6. ~exposed => m + a + b <= db
        BY <2>1 DEF MirrorBacked, WalletInv
    <2>7. n \in Nat /\ m \in Int
        BY <1>1
    <2> HIDE DEF a, b, c, d, n, m
    <2>8. ~exposed => (m + n) + c + d <= db
        BY <1>1, <2>5, <2>6, <2>7
    <2>9. ~exposed => mirror'.quota + Cardinality(Units(Owing)') + Cardinality(Units(Storing)') <= db'
        BY <1>1, <2>1, <2>8 DEF m, n, c, d
    <2> QED
        BY <1>1, <2>1, <2>3, <2>5, <2>9, HashStep
<1> QED
    BY <1>3, <1>5, <1>6

(* A hash that goes takes what it was owed along; had anybody else a debit  *)
(* or a fill under way, the step has exposed the row.                       *)
LEMMA KeepsFencing ==
    ASSUME WalletInv, NEW t \in Threads, FenceUncertain(t)
    PROVE  WalletInv'
<1>1. TypeOK /\ faults' \in 0..MaxFaults /\ UNCHANGED <<db, gens, ops>> /\ db \in Int
    BY InvTyped, ReplyTyped DEF FenceUncertain
<1>2. Ends(t)
    BY <1>1, ReturnEnds DEF FenceUncertain
<1>3. CASE UNCHANGED <<mirror, fence, exposed>>
    <2>1. fence' \in Fences
        BY <1>3, InvTyped
    <2> QED
        BY <1>1, <1>2, <1>3, <2>1, GoesOn
<1>4. CASE Vanish({t}) /\ fence' = IF fence = "none" THEN "uncertain" ELSE fence
    <2>1. OnlyThread(t) /\ th'[t].pc = "idle"
        BY <1>2 DEF Ends
    <2>2. Storing' = Storing \ {t} /\ IsFiniteSet(Units(Storing)')
        BY <2>1, LeavesStoring
    <2>3. ~Hash' /\ Owing' = {}
        BY <1>4 DEF Vanish, NoHash, Hash, Owing, SameHash
    <2>4. IsFiniteSet(Units(Owing)')
        BY <2>3, NoOwing
    <2>5. TypeOK'
        <3>1. /\ gens' \in {gens, gens + 1} /\ db' \in Int /\ ops' \in 0..MaxOps
              /\ mirror' \in [quota : Int, gen : 0..gens']
            BY <1>1, <1>4 DEF TypeOK, Vanish, NoHash
        <3>2. exposed' \in BOOLEAN
            BY <1>4 DEF Vanish
        <3>3. fence' \in Fences
            BY <1>1, <1>4 DEF TypeOK, Fences
        <3> QED
            BY <1>1, <2>1, <3>1, <3>2, <3>3, TypedStep
    <2>6. ~exposed' => \A u \in Threads \ {t} : th[u].pc \notin {"persist", "fill", "hydFill"}
        BY <1>4 DEF Vanish
    <2>7. ~exposed' => Storing' = {}
        BY <2>2, <2>6 DEF Storing
    <2>8. ~exposed' => \A u \in Threads : th'[u].pc \in {"fill", "hydFill"} => th'[u].read <= db'
        BY <2>1, <2>6 DEF OnlyThread
    <2> QED
        BY <2>2, <2>3, <2>4, <2>5, <2>7, <2>8, NoHashStep
<1> QED
    BY <1>3, <1>4 DEF FenceUncertain

LEMMA KeepsEvicting ==
    ASSUME WalletInv, Evict
    PROVE  WalletInv'
<1>1. TypeOK /\ UNCHANGED <<db, fence, th, gens, ops, faults>> /\ Vanish({})
    BY InvTyped DEF Evict
<1>2. ~Hash' /\ Owing' = {}
    BY <1>1 DEF Vanish, NoHash, Hash, Owing, SameHash
<1>3. Storing' = Storing /\ Units(Storing)' = Units(Storing)
    BY <1>1 DEF Storing, Units
<1>4. IsFiniteSet(Units(Storing)') /\ IsFiniteSet(Units(Owing)')
    BY <1>2, <1>3, NoOwing DEF WalletInv
<1>5. TypeOK'
    <2>1. mirror' \in [quota : Int, gen : 0..gens'] /\ exposed' \in BOOLEAN
        BY <1>1 DEF TypeOK, Vanish, NoHash
    <2> QED
        BY <1>1, <2>1 DEF TypeOK
<1>6. ~exposed' => \A u \in Threads : th[u].pc \notin {"persist", "fill", "hydFill"}
    BY <1>1 DEF Vanish
<1>7. ~exposed' => Storing' = {}
    BY <1>3, <1>6 DEF Storing
<1>8. ~exposed' => \A u \in Threads : th'[u].pc \in {"fill", "hydFill"} => th'[u].read <= db'
    BY <1>1, <1>6
<1> QED
    BY <1>2, <1>4, <1>5, <1>7, <1>8, NoHashStep

(* Everything but the fence and the bounds stays as it is.                 *)
LEMMA KeepsStanding ==
    ASSUME WalletInv, UNCHANGED <<db, mirror, th, gens, exposed, ops, faults>>, fence' \in Fences
    PROVE  WalletInv'
<1>1. Storing' = Storing /\ Owing' = Owing /\ Hash' = Hash
    BY DEF Storing, Owing, SameHash, Hash
<1>2. Units(Storing)' = Units(Storing) /\ Units(Owing)' = Units(Owing)
    BY <1>1 DEF Units
<1>3. TypeOK'
    BY DEF WalletInv, TypeOK
<1>4. MirrorBacked'
    BY <1>1, <1>2 DEF WalletInv, MirrorBacked
<1>5. FillsBacked'
    BY <1>1 DEF WalletInv, FillsBacked
<1> QED
    BY <1>2, <1>3, <1>4, <1>5 DEF WalletInv

(***************************************************************************)
(* The theorems.                                                           *)
(***************************************************************************)
LEMMA WalletInvInit == Init => WalletInv
<1> SUFFICES ASSUME Init PROVE WalletInv
    OBVIOUS
<1>1. Storing = {} /\ Owing = {}
    BY DEF Init, Idle, Storing, Owing
<1>2. IsFiniteSet(Units(Storing)) /\ IsFiniteSet(Units(Owing))
    <2>1. Units(Storing) = {} /\ Units(Owing) = {}
        BY <1>1 DEF Units
    <2> QED
        BY <2>1, FS_EmptySet
<1>3. TypeOK
    <2>1. Idle \in ThreadState(0)
        BY DEF Idle, ThreadState, Pc
    <2>2. th \in [Threads -> ThreadState(gens)]
        BY <2>1 DEF Init
    <2>3. mirror \in [quota : Int, gen : 0..gens]
        BY DEF Init, NoHash
    <2>4. /\ db \in Int /\ gens \in Nat /\ ops \in 0..MaxOps /\ faults \in 0..MaxFaults
          /\ fence \in Fences
        BY AmountsAssumption, BoundsAssumption DEF Init, Fences
    <2>5. exposed \in BOOLEAN
        BY DEF Init
    <2> QED
        BY <2>2, <2>3, <2>4, <2>5 DEF TypeOK, ThreadState
<1>4. MirrorBacked /\ FillsBacked
    BY <1>1 DEF Init, MirrorBacked, FillsBacked, Hash, NoHash, Idle
<1> QED
    BY <1>2, <1>3, <1>4 DEF WalletInv

LEMMA WalletInvStep == WalletInv /\ [Next]_vars => WalletInv'
<1> SUFFICES ASSUME WalletInv, [Next]_vars PROVE WalletInv'
    OBVIOUS
<1>1. ASSUME NEW t \in Threads, Step(t) PROVE WalletInv'
    BY <1>1, KeepsResolving, KeepsLoading, KeepsReleasing, KeepsLooking, KeepsFilling, KeepsTrying,
       KeepsPersisting, KeepsFencing, KeepsCapturing, KeepsCrediting, KeepsSyncing DEF Step
<1>2. ASSUME NEW t \in Threads, Crash(t) PROVE WalletInv'
    BY <1>2, KeepsCrashing
<1>3. ASSUME NEW t \in Threads, NEW op \in Ops, NEW n \in Amounts, Begin(t, op, n) PROVE WalletInv'
    BY <1>3, KeepsBeginning
<1>4. CASE Evict
    BY <1>4, KeepsEvicting
<1>5. CASE FenceExpires
    <2>1. fence' \in Fences
        BY <1>5 DEF FenceExpires, Fences
    <2> QED
        BY <1>5, <2>1, KeepsStanding DEF FenceExpires
<1>6. CASE UNCHANGED vars
    <2>1. fence' \in Fences
        BY <1>6, InvTyped DEF vars
    <2> QED
        BY <1>6, <2>1, KeepsStanding DEF vars
<1> QED
    BY <1>1, <1>2, <1>3, <1>4, <1>5, <1>6 DEF Next

(* The inductive invariant: the hash, the credits it is still owed and the   *)
(* debits it has granted add up to no more than the row, and while there is  *)
(* no hash every balance about to be published is one the row still holds.   *)
THEOREM WalletInvariant == Spec => []WalletInv
BY WalletInvInit, WalletInvStep, PTL DEF Spec

(* The row, the mirror, its generations and the state of every thread keep   *)
(* their types, whatever the number of threads and operations.               *)
THEOREM WalletTyped == Spec => []TypeOK
<1>1. WalletInv => TypeOK
    BY DEF WalletInv
<1> QED
    BY <1>1, WalletInvariant, PTL

(* The mirror is never stale-high: for any number of reservations, debits,   *)
(* credits and hydrations, interleaved and failing anywhere, it offers no    *)
(* more than the row will hold once the granted debits are stored.           *)
THEOREM SpendingIsBacked == Spec => []SpendableBacked
<1>1. WalletInv => SpendableBacked
    <2> SUFFICES ASSUME WalletInv, ~exposed, Hash PROVE mirror.quota <= db - InFlight
        BY DEF SpendableBacked
    <2> DEFINE a == Cardinality(Units(Owing))
               b == Cardinality(Units(Storing))
               m == mirror.quota
    <2>1. m + a + b <= db
        BY DEF WalletInv, MirrorBacked
    <2>2. a \in Nat /\ b \in Nat
        BY FS_CardinalityType DEF WalletInv
    <2>3. m \in Int /\ db \in Int
        BY InvTyped
    <2> HIDE DEF a, b, m
    <2>4. m <= db - b
        BY <2>1, <2>2, <2>3
    <2> QED
        BY <2>4 DEF m, b, InFlight
<1> QED
    BY <1>1, WalletInvariant, PTL
=============================================================================
