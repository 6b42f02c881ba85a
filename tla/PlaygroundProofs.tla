--------------------------- MODULE PlaygroundProofs ---------------------------
(***************************************************************************)
(* Proofs about Playground, for any accounts, storage limit and bounds:      *)
(* PlayInv is inductive.  Updaters are folded over the message list, so the  *)
(* proofs need an induction over the queue; it is had from the least element *)
(* of a set of numbers.                                                      *)
(***************************************************************************)
EXTENDS Playground, SequenceTheorems, WellFoundedInduction, TLAPS

(***************************************************************************)
(* Induction and recursion over 0..n, without operators as parameters.      *)
(***************************************************************************)

\* A set of natural numbers has a least element.
LEMMA LeastNat ==
    ASSUME NEW T, T \subseteq Nat, T # {}
    PROVE  \E n \in T : \A m \in T : n <= m
<1>1. IsWellFoundedOn(OpToRel(<, Nat), Nat)
  BY NatLessThanWellFounded
<1>2. PICK R : R = OpToRel(<, Nat)
  OBVIOUS
<1>3. \A i, j \in Nat : i < j => <<i, j>> \in R
  BY <1>2 DEF OpToRel
<1>4. IsWellFoundedOn(R, Nat)
  BY <1>1, <1>2
<1>5. PICK n \in T : \A m \in T : ~(<<m, n>> \in R)
  BY <1>4, WFMin
<1>6. \A m \in T : m \in Nat /\ n \in Nat
  OBVIOUS
<1>7. ASSUME NEW m \in T, ~(n <= m) PROVE FALSE
  <2>1. m \in Nat /\ n \in Nat /\ m < n
    BY <1>6, <1>7
  <2>2. <<m, n>> \in R
    BY <1>3, <2>1, Zenon
  <2> QED BY <1>5, <2>2, Zenon
<1> QED BY <1>7

\* Induction: a set that holds 0 and with every number the next.
LEMMA Steps ==
    ASSUME NEW S, NEW n \in Nat, 0 \in S, \A i \in 1..n : i - 1 \in S => i \in S
    PROVE  \A i \in 0..n : i \in S
<1> SUFFICES ASSUME NEW k \in 0..n, k \notin S PROVE FALSE
  OBVIOUS
<1> DEFINE T == {i \in 0..n : i \notin S}
<1>1. PICK m \in T : \A i \in T : m <= i
  <2>1. T \subseteq Nat /\ T # {}
    OBVIOUS
  <2> HIDE DEF T
  <2> QED BY <2>1, LeastNat
<1> QED BY <1>1

Recursive(L, b, n, h) ==
    \E f \in [0..n -> L] : f[0] = b /\ \A i \in 1..n : f[i] = h[i][f[i - 1]]

\* Recursion: h takes the number of a step and the value before it.
LEMMA Recursion ==
    ASSUME NEW L, NEW b \in L, NEW n \in Nat, NEW h \in [1..n -> [L -> L]]
    PROVE  Recursive(L, b, n, h)
<1> DEFINE Good(k, f) == f[0] = b /\ \A i \in 1..k : f[i] = h[i][f[i - 1]]
           S == {k \in 0..n : \E f \in [0..k -> L] : Good(k, f)}
<1>1. 0 \in S
  <2>1. PICK f \in [0..0 -> L] : f = [i \in 0..0 |-> b]
    OBVIOUS
  <2>2. Good(0, f)
    BY <2>1
  <2>3. \E e \in [0..0 -> L] : Good(0, e)
    BY <2>2
  <2> HIDE DEF Good
  <2> QED BY <2>3
<1>2. ASSUME NEW k \in 1..n, k - 1 \in S PROVE k \in S
  <2>1. PICK f \in [0..(k - 1) -> L] : Good(k - 1, f)
    BY <1>2
  <2>2. PICK x \in L : x = h[k][f[k - 1]]
    <3>1. f[k - 1] \in L
      BY <2>1
    <3> QED BY <3>1
  <2> DEFINE E == [i \in 0..k |-> IF i = k THEN x ELSE f[i]]
  <2>a. E \in [0..k -> L]
    <3>1. \A i \in 0..k : i # k => f[i] \in L
      <4>1. ASSUME NEW i \in 0..k, i # k PROVE f[i] \in L
        <5>1. i \in 0..(k - 1)
          BY <4>1
        <5> QED BY <5>1
      <4> QED BY <4>1
    <3> QED BY <3>1, Zenon
  <2>3. PICK e \in [0..k -> L] : e = [i \in 0..k |-> IF i = k THEN x ELSE f[i]]
    BY <2>a, Zenon
  <2>4. e[0] = b
    BY <2>1, <2>3
  <2>5. ASSUME NEW i \in 1..k PROVE e[i] = h[i][e[i - 1]]
    <3>1. CASE i = k
      <4>1. e[i] = x /\ e[i - 1] = f[i - 1]
        BY <2>3, <3>1
      <4> QED BY <2>2, <3>1, <4>1
    <3>2. CASE i # k
      <4>1. i \in 1..(k - 1) /\ e[i] = f[i] /\ e[i - 1] = f[i - 1]
        BY <2>3, <3>2
      <4> QED BY <2>1, <4>1
    <3> QED BY <3>1, <3>2
  <2>6. Good(k, e)
    BY <2>4, <2>5
  <2>7. \E d \in [0..k -> L] : Good(k, d)
    BY <2>6
  <2> HIDE DEF Good
  <2> QED BY <2>7
<1>3. n \in S
  <2> HIDE DEF S
  <2>1. \A i \in 1..n : i - 1 \in S => i \in S
    BY <1>2
  <2>2. \A i \in 0..n : i \in S
    BY <1>1, <2>1, Steps, Zenon
  <2> QED BY <2>2
<1> QED BY <1>3 DEF Recursive

(***************************************************************************)
(* The folds of the model.                                                  *)
(***************************************************************************)

\* Removing a message keeps a list of the same elements.
LEMMA KeptList ==
    ASSUME NEW X, NEW ms \in Seq(X), NEW k
    PROVE  Kept(ms, k) \in Seq(X)
<1> DEFINE n == Len(ms)
           h == [i \in 1..n |-> [l \in Seq(X) |->
                   IF Key(ms[i]) = k THEN l ELSE Append(l, ms[i])]]
<1>1. n \in Nat /\ \A i \in 1..n : ms[i] \in X
  OBVIOUS
<1>2. h \in [1..n -> [Seq(X) -> Seq(X)]]
  <2>1. ASSUME NEW i \in 1..n, NEW l \in Seq(X) PROVE Append(l, ms[i]) \in Seq(X)
    BY <1>1, <2>1
  <2> QED BY <2>1
<1>3. \A i \in 1..n, l \in Seq(X) :
        h[i][l] = IF Key(ms[i]) = k THEN l ELSE Append(l, ms[i])
  OBVIOUS
<1>4. <<>> \in Seq(X)
  OBVIOUS
<1>5. PICK f \in [0..n -> Seq(X)] : f[0] = <<>> /\ \A i \in 1..n : f[i] = h[i][f[i - 1]]
  <2> HIDE DEF h, n
  <2>1. PICK L : L = Seq(X)
    OBVIOUS
  <2>2. <<>> \in L /\ n \in Nat /\ h \in [1..n -> [L -> L]]
    BY <1>1, <1>2, <1>4, <2>1, Zenon
  <2>3. Recursive(L, <<>>, n, h)
    BY <2>2, Recursion, Zenon
  <2> QED BY <2>1, <2>3, Zenon DEF Recursive
<1>6. ASSUME NEW i \in 0..n
      PROVE  f[i] = IF i = 0 THEN <<>>
                    ELSE IF Key(ms[i]) = k THEN f[i - 1] ELSE Append(f[i - 1], ms[i])
  <2>1. CASE i = 0
    BY <1>5, <2>1
  <2>2. CASE i # 0
    <3>1. i \in 1..n /\ i - 1 \in 0..n
      BY <2>2
    <3>2. f[i - 1] \in Seq(X)
      BY <3>1
    <3> HIDE DEF h, n
    <3> QED BY <1>3, <1>5, <2>2, <3>1, <3>2
  <2> QED BY <2>1, <2>2
<1>7. f = [i \in 0..n |-> IF i = 0 THEN <<>>
                          ELSE IF Key(ms[i]) = k THEN f[i - 1] ELSE Append(f[i - 1], ms[i])]
  <2> HIDE DEF h, n
  <2> QED BY <1>6
<1> DEFINE kept == CHOOSE F : F = [i \in 0..n |->
                       IF i = 0 THEN <<>>
                       ELSE IF Key(ms[i]) = k THEN F[i - 1] ELSE Append(F[i - 1], ms[i])]
<1>8. kept = [i \in 0..n |-> IF i = 0 THEN <<>>
                   ELSE IF Key(ms[i]) = k THEN kept[i - 1] ELSE Append(kept[i - 1], ms[i])]
  BY <1>7, Zenon
<1>9. Kept(ms, k) = kept[n]
  BY DEF Kept
<1>10. \A i \in 0..n : kept[i] = IF i = 0 THEN <<>>
                   ELSE IF Key(ms[i]) = k THEN kept[i - 1] ELSE Append(kept[i - 1], ms[i])
  <2> HIDE DEF kept
  <2> QED BY <1>8, Zenon
<1> HIDE DEF kept, h, n
<1> DEFINE S == {i \in 0..n : kept[i] \in Seq(X)}
<1>11. 0 \in S
  <2>1. 0 \in 0..n
    BY <1>1
  <2>2. kept[0] = <<>>
    BY <1>10, <2>1
  <2> QED BY <1>4, <2>1, <2>2
<1>12. ASSUME NEW i \in 1..n, i - 1 \in S PROVE i \in S
  <2>1. kept[i - 1] \in Seq(X) /\ ms[i] \in X /\ i \in 0..n /\ i # 0
    BY <1>1, <1>12
  <2>2. Append(kept[i - 1], ms[i]) \in Seq(X)
    BY <2>1
  <2>3. kept[i] \in Seq(X)
    BY <1>10, <2>1, <2>2
  <2> QED BY <2>1, <2>3
<1>13. n \in S
  <2> HIDE DEF S
  <2>1. \A i \in 1..n : i - 1 \in S => i \in S
    BY <1>12
  <2>2. \A i \in 0..n : i \in S
    BY <1>1, <1>11, <2>1, Steps, Zenon
  <2> QED BY <1>1, <2>2
<1> QED BY <1>9, <1>13

\* What an updater makes of the answer at the end of the list.
LEMMA ApplyType ==
    ASSUME NEW m \in Message, NEW u \in Updater, u.do \notin {"set", "remove"}
    PROVE  /\ Apply(u, m) \in Message
           /\ Apply(u, m).from = m.from /\ Apply(u, m).gen = m.gen /\ Apply(u, m).by = m.by
           /\ u.text \in Seq(Chunk)
           /\ u.do = "flush" => Apply(u, m).text \in {m.text, m.text \o u.text}
           /\ u.do = "answer" => Apply(u, m).text = u.text
           /\ u.do \notin {"flush", "answer"} => Apply(u, m).text \in {m.text, <<>>}
           /\ u.do \in Final => ~Pending(Apply(u, m))
<1>1. u.text \in Seq(Chunk) /\ u.do \in {"flush", "complete", "error", "answer"}
  BY DEF Updater
<1>2. PICK t : t = u.text
  OBVIOUS
<1>3. m.text \o t \in Seq(Chunk) /\ t \in Seq(Chunk) /\ <<>> \in Seq(Chunk)
  BY <1>1, <1>2 DEF Message
<1>4. CASE u.do = "flush"
  BY <1>1, <1>2, <1>3, <1>4 DEF Apply, Message, Pending, Final
<1>5. CASE u.do = "complete"
  BY <1>1, <1>2, <1>3, <1>5 DEF Apply, Message, Pending, Final, Complete
<1>6. CASE u.do = "error"
  <2>1. /\ Failed(m) \in Message /\ Failed(m).from = m.from /\ Failed(m).gen = m.gen
        /\ Failed(m).by = m.by /\ Failed(m).text = <<>> /\ ~Pending(Failed(m))
    BY <1>3 DEF Failed, Message, Pending
  <2>2. Apply(u, m) = Failed(m)
    BY <1>6 DEF Apply
  <2> QED BY <1>1, <1>6, <2>1, <2>2
<1>7. CASE u.do = "answer"
  <2>1. PICK a : a = [Complete(m) EXCEPT !.text = t]
    OBVIOUS
  <2>2. /\ a \in Message /\ a.from = m.from /\ a.gen = m.gen
        /\ a.by = m.by /\ a.text = t /\ ~Pending(a)
    BY <1>3, <2>1 DEF Complete, Message, Pending
  <2>3. Apply(u, m) = a
    BY <1>2, <1>7, <2>1 DEF Apply
  <2> QED BY <1>1, <1>2, <1>7, <2>2, <2>3
<1> QED BY <1>1, <1>4, <1>5, <1>6, <1>7

\* A nonempty list has a last element.
LEMMA LastOf ==
    ASSUME NEW X, NEW s \in Seq(X), s # <<>>
    PROVE  /\ Last(s) = s[Len(s)] /\ Last(s) \in X
           /\ Len(s) \in Nat /\ Len(s) > 0 /\ Len(s) \in DOMAIN s /\ Last(s) \in ToSet(s)
BY DEF Last, ToSet

\* One updater keeps the type of the list.
LEMMA RunOneType ==
    ASSUME NEW u \in Updater, NEW ms \in Seq(Message), NEW g
    PROVE  RunOne(u, ms, g) \in Seq(Message)
<1>1. CASE u.do = "set"
  <2>1. u.text \in Seq(Message)
    BY <1>1 DEF Updater
  <2> QED BY <1>1, <2>1 DEF RunOne
<1>2. CASE u.do = "remove"
  <2>1. RunOne(u, ms, g) = Kept(ms, u.text)
    BY <1>2 DEF RunOne
  <2> QED BY <2>1, KeptList
<1>3. CASE u.do \notin {"set", "remove"}
  <2>1. OnLastAssistant(u, ms) \in Seq(Message)
    <3>1. CASE ms = <<>>
      BY <3>1 DEF OnLastAssistant
    <3>2. CASE ms # <<>>
      <4>1. ms[Len(ms)] \in Message
        BY <3>2
      <4>2. Apply(u, ms[Len(ms)]) \in Message
        BY <1>3, <4>1, ApplyType
      <4> QED BY <3>2, <4>2 DEF OnLastAssistant
    <3> QED BY <3>1, <3>2
  <2> QED BY <1>3, <2>1 DEF RunOne
<1> QED BY <1>1, <1>2, <1>3

\* Running a queue is one list after another.
Ran(us, ms, g, r) ==
    /\ r \in [0..Len(us) -> Seq(Message)] /\ r[0] = ms
    /\ \A i \in 1..Len(us) : r[i] = RunOne(us[i], r[i - 1], g)
    /\ Run(us, ms, g) = r[Len(us)]

LEMMA RunSteps ==
    ASSUME NEW us \in Seq(Updater), NEW ms \in Seq(Message), NEW g
    PROVE  \E r : Ran(us, ms, g, r)
<1>1. PICK n, L : n = Len(us) /\ L = Seq(Message)
  OBVIOUS
<1>2. n \in Nat /\ ms \in L /\ \A i \in 1..n : us[i] \in Updater
  BY <1>1
<1>3. \A i \in 1..n : \A l \in L : RunOne(us[i], l, g) \in L
  BY <1>1, <1>2, RunOneType
<1>4. PICK h : h = [i \in 1..n |-> [l \in L |-> RunOne(us[i], l, g)]]
  OBVIOUS
<1>5. h \in [1..n -> [L -> L]] /\ \A i \in 1..n : \A l \in L : h[i][l] = RunOne(us[i], l, g)
  BY <1>3, <1>4
<1>6. Recursive(L, ms, n, h)
  BY <1>2, <1>5, Recursion, Zenon
<1>7. PICK f \in [0..n -> L] : f[0] = ms /\ \A i \in 1..n : f[i] = h[i][f[i - 1]]
  BY <1>6, Zenon DEF Recursive
<1>8. ASSUME NEW i \in 0..n
      PROVE  f[i] = IF i = 0 THEN ms ELSE RunOne(us[i], f[i - 1], g)
  <2>1. CASE i = 0
    BY <1>7, <2>1
  <2>2. CASE i # 0
    <3>1. i \in 1..n /\ i - 1 \in 0..n
      BY <1>2, <2>2
    <3>2. f[i - 1] \in L
      BY <3>1
    <3> QED BY <1>5, <1>7, <2>2, <3>1, <3>2
  <2> QED BY <2>1, <2>2
<1>9. f = [i \in 0..n |-> IF i = 0 THEN ms ELSE RunOne(us[i], f[i - 1], g)]
  BY <1>8
<1> DEFINE run == CHOOSE F : F = [i \in 0..n |-> IF i = 0 THEN ms ELSE RunOne(us[i], F[i - 1], g)]
<1>10. run = [i \in 0..n |-> IF i = 0 THEN ms ELSE RunOne(us[i], run[i - 1], g)]
  BY <1>9, Zenon
<1>11. Run(us, ms, g) = run[n]
  BY <1>1 DEF Run
<1> HIDE DEF run
<1>12. \A i \in 0..n : run[i] = IF i = 0 THEN ms ELSE RunOne(us[i], run[i - 1], g)
  BY <1>10, Zenon
<1> DEFINE S == {i \in 0..n : run[i] \in L}
<1>13. 0 \in S
  <2>1. 0 \in 0..n
    BY <1>2
  <2>2. run[0] = ms
    BY <1>12, <2>1
  <2> QED BY <1>2, <2>1, <2>2
<1>14. ASSUME NEW i \in 1..n, i - 1 \in S PROVE i \in S
  <2>1. run[i - 1] \in L /\ i \in 0..n /\ i # 0
    BY <1>2, <1>14
  <2>2. run[i] \in L
    BY <1>3, <1>12, <2>1
  <2> QED BY <2>1, <2>2
<1>15. \A i \in 0..n : i \in S
  <2> HIDE DEF S
  <2>1. \A i \in 1..n : i - 1 \in S => i \in S
    BY <1>14
  <2> QED BY <1>2, <1>13, <2>1, Steps, Zenon
<1>16. run \in [0..n -> L]
  <2>1. \A i \in 0..n : run[i] \in L
    BY <1>15
  <2>2. run = [i \in 0..n |-> run[i]]
    BY <1>10
  <2> QED BY <2>1, <2>2
<1>17. run[0] = ms /\ \A i \in 1..n : run[i] = RunOne(us[i], run[i - 1], g)
  <2>1. 0 \in 0..n /\ \A i \in 1..n : i \in 0..n /\ i # 0
    BY <1>2
  <2> QED BY <1>12, <2>1
<1>18. Ran(us, ms, g, run)
  BY <1>1, <1>11, <1>16, <1>17 DEF Ran
<1> QED BY <1>18

\* A queue without updaters changes nothing.
LEMMA RunNone ==
    ASSUME NEW ms \in Seq(Message), NEW g
    PROVE  Run(<<>>, ms, g) = ms
<1>1. <<>> \in Seq(Updater)
  OBVIOUS
<1>2. PICK r : Ran(<<>>, ms, g, r)
  BY <1>1, RunSteps
<1> QED BY <1>2 DEF Ran

\* Running one updater more.
LEMMA RunAppend ==
    ASSUME NEW us \in Seq(Updater), NEW u \in Updater, NEW ms \in Seq(Message), NEW g
    PROVE  \E r : /\ Ran(us \o <<u>>, ms, g, r) /\ r[Len(us)] \in Seq(Message)
                  /\ Run(us \o <<u>>, ms, g) = RunOne(u, r[Len(us)], g)
<1>1. PICK q : q = us \o <<u>>
  OBVIOUS
<1>2. q \in Seq(Updater) /\ Len(q) = Len(us) + 1 /\ q[Len(q)] = u /\ Len(us) \in Nat
  BY <1>1
<1>3. PICK r : Ran(q, ms, g, r)
  BY <1>2, RunSteps
<1>4. Len(q) \in 1..Len(q) /\ Len(us) = Len(q) - 1 /\ Len(us) \in 0..Len(q)
  BY <1>2
<1>5. r[Len(us)] \in Seq(Message)
  BY <1>3, <1>4 DEF Ran
<1>6. Run(q, ms, g) = RunOne(u, r[Len(us)], g)
  BY <1>2, <1>3, <1>4 DEF Ran
<1> QED BY <1>1, <1>3, <1>5, <1>6

\* Setting the list forgets what was queued before.
LEMMA RunSet ==
    ASSUME NEW us \in Seq(Updater), NEW x \in Seq(Message), NEW ms \in Seq(Message), NEW g
    PROVE  Run(us \o <<SetTo(x)>>, ms, g) = x
<1>1. SetTo(x) \in Updater /\ SetTo(x).do = "set" /\ SetTo(x).text = x
  BY DEF SetTo, Updater
<1>2. PICK r : Run(us \o <<SetTo(x)>>, ms, g) = RunOne(SetTo(x), r[Len(us)], g)
  BY <1>1, RunAppend
<1> QED BY <1>1, <1>2 DEF RunOne

(***************************************************************************)
(* Text and lists.                                                          *)
(***************************************************************************)

\* The elements of a concatenation.
LEMMA ToSetCat ==
    ASSUME NEW X, NEW s \in Seq(X), NEW t \in Seq(X)
    PROVE  ToSet(s \o t) = ToSet(s) \cup ToSet(t) /\ ToSet(s) \subseteq X
<1>1. Len(s) \in Nat /\ Len(t) \in Nat /\ Len(s \o t) = Len(s) + Len(t) /\ s \o t \in Seq(X)
  OBVIOUS
<1>2. \A i \in DOMAIN s : i \in DOMAIN (s \o t) /\ (s \o t)[i] = s[i]
  OBVIOUS
<1>3. \A i \in DOMAIN t : Len(s) + i \in DOMAIN (s \o t) /\ (s \o t)[Len(s) + i] = t[i]
  OBVIOUS
<1>4. ASSUME NEW i \in DOMAIN (s \o t), i \notin DOMAIN s
      PROVE  i - Len(s) \in DOMAIN t /\ (s \o t)[i] = t[i - Len(s)]
  BY <1>1, <1>4
<1>5. ToSet(s) \subseteq ToSet(s \o t)
  BY <1>2 DEF ToSet
<1>6. ToSet(t) \subseteq ToSet(s \o t)
  BY <1>3 DEF ToSet
<1>7. ToSet(s \o t) \subseteq ToSet(s) \cup ToSet(t)
  <2>1. ASSUME NEW i \in DOMAIN (s \o t) PROVE (s \o t)[i] \in ToSet(s) \cup ToSet(t)
    <3>1. CASE i \in DOMAIN s
      BY <1>2, <3>1 DEF ToSet
    <3>2. CASE i \notin DOMAIN s
      BY <1>4, <3>2 DEF ToSet
    <3> QED BY <3>1, <3>2
  <2> QED BY <2>1 DEF ToSet
<1>8. ToSet(s) \subseteq X
  BY DEF ToSet
<1> QED BY <1>5, <1>6, <1>7, <1>8

\* Later chunks may follow earlier ones.
LEMMA AscendingCat ==
    ASSUME NEW s \in Seq(Chunk), NEW t \in Seq(Chunk),
           Ascending(s), Ascending(t), Before(s, t)
    PROVE  Ascending(s \o t)
<1>1. Len(s) \in Nat /\ Len(t) \in Nat /\ Len(s \o t) = Len(s) + Len(t)
  OBVIOUS
<1>2. SUFFICES ASSUME NEW i \in DOMAIN (s \o t), NEW j \in DOMAIN (s \o t), i < j
      PROVE  (s \o t)[i].n < (s \o t)[j].n
  BY DEF Ascending
<1>3. i \in Nat /\ j \in Nat /\ i \in 1..(Len(s) + Len(t)) /\ j \in 1..(Len(s) + Len(t))
  BY <1>1
<1>4. CASE j \in DOMAIN s
  <2>1. i \in DOMAIN s
    BY <1>1, <1>2, <1>3, <1>4
  <2>2. (s \o t)[i] = s[i] /\ (s \o t)[j] = s[j]
    BY <1>4, <2>1
  <2> QED BY <1>2, <1>4, <2>1, <2>2 DEF Ascending
<1>5. CASE j \notin DOMAIN s
  <2>1. j - Len(s) \in DOMAIN t /\ (s \o t)[j] = t[j - Len(s)]
    BY <1>1, <1>3, <1>5
  <2>2. CASE i \in DOMAIN s
    <3>1. (s \o t)[i] = s[i] /\ s[i] \in ToSet(s) /\ t[j - Len(s)] \in ToSet(t)
      BY <2>1, <2>2 DEF ToSet
    <3> QED BY <2>1, <3>1, Zenon DEF Before
  <2>3. CASE i \notin DOMAIN s
    <3>1. i - Len(s) \in DOMAIN t /\ (s \o t)[i] = t[i - Len(s)]
      BY <1>1, <1>3, <2>3
    <3>2. i - Len(s) < j - Len(s)
      BY <1>1, <1>2, <1>3
    <3> QED BY <2>1, <3>1, <3>2 DEF Ascending
  <2> QED BY <2>2, <2>3
<1> QED BY <1>4, <1>5

\* The text of an answer after one updater.
LEMMA ApplySound ==
    ASSUME NEW o, NEW g \in Nat, NEW m \in Message, NEW u \in Updater,
           u.do \notin {"set", "remove"}, Sound(m, o, g), m.gen = g,
           u.do = "flush" => Streamed(u.text, g) /\ Before(m.text, u.text),
           u.do = "answer" => u.text = <<[gen |-> g, n |-> 1]>>
    PROVE  /\ Sound(Apply(u, m), o, g)
           /\ ToSet(Apply(u, m).text) \subseteq ToSet(m.text) \cup ToSet(u.text)
<1>1. PICK a : a = Apply(u, m)
  OBVIOUS
<1>2. /\ a \in Message /\ a.gen = g /\ a.by = o
      /\ u.text \in Seq(Chunk) /\ m.text \in Seq(Chunk)
      /\ u.do = "flush" => a.text \in {m.text, m.text \o u.text}
      /\ u.do = "answer" => a.text = u.text
      /\ u.do \notin {"flush", "answer"} => a.text \in {m.text, <<>>}
  BY <1>1, ApplyType DEF Sound, Message
<1>3. Ascending(m.text) /\ \A c \in ToSet(m.text) : c.gen = g
  BY DEF Sound
<1>4. SUFFICES /\ Ascending(a.text) /\ \A c \in ToSet(a.text) : c.gen = g
               /\ ToSet(a.text) \subseteq ToSet(m.text) \cup ToSet(u.text)
  BY <1>1, <1>2, <1>4 DEF Sound
<1>5. CASE a.text = m.text
  BY <1>3, <1>5
<1>6. CASE a.text = <<>>
  <2>1. Ascending(<<>>) /\ ToSet(<<>>) = {}
    BY DEF Ascending, ToSet
  <2> QED BY <1>6, <2>1
<1>7. CASE u.do = "flush" /\ a.text = m.text \o u.text
  <2>1. Ascending(u.text) /\ \A c \in ToSet(u.text) : c.gen = g
    BY <1>7 DEF Streamed
  <2>2. Ascending(a.text)
    BY <1>2, <1>3, <1>7, <2>1, AscendingCat
  <2>3. ToSet(a.text) = ToSet(m.text) \cup ToSet(u.text)
    BY <1>2, <1>7, ToSetCat
  <2> QED BY <1>3, <2>1, <2>2, <2>3
<1>8. CASE u.do = "answer"
  <2>1. PICK c : c = [gen |-> g, n |-> 1]
    OBVIOUS
  <2>2. a.text = <<c>> /\ a.text = u.text /\ c.gen = g
    BY <1>2, <1>8, <2>1
  <2>3. Ascending(<<c>>) /\ ToSet(<<c>>) = {c}
    BY DEF Ascending, ToSet
  <2> QED BY <2>2, <2>3
<1> QED BY <1>2, <1>5, <1>6, <1>7, <1>8

\* One legal updater, run on a list like ms.
LEMMA StepTalk ==
    ASSUME NEW o, NEW g \in Nat, NEW ms \in Seq(Message), NEW ns \in Seq(Message), NEW u \in Updater,
           Answering(ns, g), SoundList(ns, o, g), Alike(ns, ms), Legal(u, ms, o, g),
           u.do = "flush" => Before(Last(ns).text, u.text)
    PROVE  /\ RunOne(u, ns, g) \in Seq(Message) /\ Answering(RunOne(u, ns, g), g)
           /\ SoundList(RunOne(u, ns, g), o, g) /\ Alike(RunOne(u, ns, g), ms)
           /\ ToSet(Last(RunOne(u, ns, g)).text) \subseteq ToSet(Last(ns).text) \cup ToSet(Left(u))
           /\ u.do \in Final => ~Pending(Last(RunOne(u, ns, g)))
<1>1. PICK x : x = RunOne(u, ns, g)
  OBVIOUS
<1>2. x \in Seq(Message)
  BY <1>1, RunOneType
<1>3. CASE u.do = "set"
  <2>1. x = u.text /\ Left(u) = Last(x).text /\ u.do \notin Final
    BY <1>1, <1>3 DEF RunOne, Left, Final
  <2>2. Alike(x, ms) /\ Answering(x, g) /\ SoundList(x, o, g)
    BY <1>3, <2>1 DEF Legal
  <2> QED BY <1>1, <1>2, <2>1, <2>2
<1>4. CASE u.do # "set"
  <2>1. u.gen = g /\ u.do \notin {"set", "remove"} /\ Left(u) = u.text
    BY <1>4 DEF Legal, Left
  <2>2. PICK k : k = Len(ns)
    OBVIOUS
  <2>3. /\ k \in Nat /\ k > 0 /\ k \in DOMAIN ns /\ ns[k] = Last(ns) /\ ns[k] \in Message
        /\ Last(ns).from = "assistant" /\ Last(ns).gen = g /\ ns # <<>>
    BY <2>2, LastOf DEF Answering
  <2>4. PICK a : a = Apply(u, ns[k])
    OBVIOUS
  <2>5. a \in Message /\ a.from = "assistant" /\ a.gen = g /\ (u.do \in Final => ~Pending(a))
    BY <2>1, <2>3, <2>4, ApplyType
  <2>6. Sound(a, o, g) /\ ToSet(a.text) \subseteq ToSet(ns[k].text) \cup ToSet(u.text)
    <3>1. Sound(ns[k], o, g)
      BY <2>3 DEF SoundList
    <3>2. u.do = "flush" => Streamed(u.text, g) /\ Before(ns[k].text, u.text)
      BY <2>3 DEF Legal
    <3>3. u.do = "answer" => u.text = <<[gen |-> g, n |-> 1]>>
      BY DEF Legal
    <3> QED BY <2>1, <2>3, <2>4, <3>1, <3>2, <3>3, ApplySound
  <2>7. x = [ns EXCEPT ![k] = a]
    BY <1>1, <2>1, <2>2, <2>3, <2>4 DEF RunOne, OnLastAssistant
  <2>8. Len(x) = k /\ x[k] = a /\ DOMAIN x = DOMAIN ns /\ \A i \in DOMAIN ns : i # k => x[i] = ns[i]
    BY <1>2, <2>2, <2>3, <2>7
  <2>9. Last(x) = a /\ x # <<>>
    BY <1>2, <2>3, <2>8 DEF Last
  <2>10. \A i \in 1..(k - 1) : i \in DOMAIN ns /\ x[i] = ns[i]
    BY <2>2, <2>3, <2>8
  <2>11. Answering(x, g)
    BY <2>2, <2>5, <2>8, <2>9, <2>10 DEF Answering
  <2>12. SoundList(x, o, g)
    BY <2>6, <2>8 DEF SoundList
  <2>13. Alike(x, ms)
    BY <2>2, <2>8, <2>10 DEF Alike
  <2> QED BY <1>1, <1>2, <2>1, <2>3, <2>5, <2>6, <2>9, <2>11, <2>12, <2>13
<1> QED BY <1>3, <1>4

\* A list is like itself.
LEMMA AlikeSelf == ASSUME NEW ms PROVE Alike(ms, ms)
BY DEF Alike

\* The queue of an answer being produced leaves a list like the one it found.
LEMMA RunTalk ==
    ASSUME NEW o, NEW g \in Nat, NEW ms \in Seq(Message), NEW q \in Seq(Updater), Talk(ms, q, o, g)
    PROVE  /\ Run(q, ms, g) \in Seq(Message) /\ Answering(Run(q, ms, g), g)
           /\ SoundList(Run(q, ms, g), o, g) /\ Alike(Run(q, ms, g), ms)
           /\ ToSet(Last(Run(q, ms, g)).text) \subseteq Given(ms, q)
           /\ LastWord(q) => ~Pending(Last(Run(q, ms, g)))
<1>1. PICK r : Ran(q, ms, g, r)
  BY RunSteps
<1>2. PICK n : n = Len(q)
  OBVIOUS
<1>3. /\ n \in Nat /\ DOMAIN q = 1..n /\ r \in [0..n -> Seq(Message)] /\ r[0] = ms
      /\ \A i \in 1..n : q[i] \in Updater /\ r[i] = RunOne(q[i], r[i - 1], g)
      /\ Run(q, ms, g) = r[n]
  BY <1>1, <1>2 DEF Ran
<1> DEFINE Text(i) == ToSet(Last(ms).text) \cup UNION {ToSet(Left(q[j])) : j \in 1..i}
           Good(i) == /\ Answering(r[i], g) /\ SoundList(r[i], o, g) /\ Alike(r[i], ms)
                      /\ ToSet(Last(r[i]).text) \subseteq Text(i)
           S == {i \in 0..n : Good(i)}
<1>4. 0 \in S
  <2>1. Good(0)
    BY <1>3, AlikeSelf DEF Talk
  <2> HIDE DEF Good
  <2> QED BY <1>3, <2>1
<1>5. ASSUME NEW i \in 1..n, Good(i - 1)
      PROVE  Good(i) /\ (q[i].do \in Final => ~Pending(Last(r[i])))
  <2>1. PICK ns \in Seq(Message) : ns = r[i - 1]
    <3>1. i - 1 \in 0..n
      BY <1>3
    <3> QED BY <1>3, <3>1
  <2>2. /\ Answering(ns, g) /\ SoundList(ns, o, g) /\ Alike(ns, ms)
        /\ ToSet(Last(ns).text) \subseteq Text(i - 1)
    BY <1>5, <2>1
  <2>3. PICK u \in Updater : u = q[i]
    BY <1>3
  <2>4. Legal(u, ms, o, g)
    BY <1>3, <2>3 DEF Talk
  <2>5. u.do = "flush" => Before(Last(ns).text, u.text)
    <3>1. SUFFICES ASSUME u.do = "flush", NEW c \in Text(i - 1), NEW d \in ToSet(u.text)
                   PROVE  c.n < d.n
      BY <2>2, <3>1, Zenon DEF Before
    <3>2. CASE c \in ToSet(Last(ms).text)
      <4>1. Before(Last(ms).text, u.text)
        BY <1>3, <2>3, <3>1 DEF Talk
      <4> QED BY <3>1, <3>2, <4>1, Zenon DEF Before
    <3>3. CASE c \notin ToSet(Last(ms).text)
      <4>1. PICK j \in 1..(i - 1) : c \in ToSet(Left(q[j]))
        BY <3>1, <3>3
      <4>2. Before(Left(q[j]), u.text)
        BY <1>3, <2>3, <3>1 DEF Talk
      <4> QED BY <3>1, <4>1, <4>2, Zenon DEF Before
    <3> QED BY <3>2, <3>3
  <2>6. r[i] = RunOne(u, ns, g)
    BY <1>3, <2>1, <2>3
  <2>7. /\ Answering(r[i], g) /\ SoundList(r[i], o, g) /\ Alike(r[i], ms)
        /\ ToSet(Last(r[i]).text) \subseteq ToSet(Last(ns).text) \cup ToSet(Left(u))
        /\ u.do \in Final => ~Pending(Last(r[i]))
    BY <2>2, <2>4, <2>5, <2>6, StepTalk
  <2>8. Text(i - 1) \cup ToSet(Left(q[i])) \subseteq Text(i)
    <3>1. \A j \in 1..(i - 1) : j \in 1..i
      BY <1>3
    <3>2. i \in 1..i
      BY <1>3
    <3> QED BY <3>1, <3>2
  <2>9. ToSet(Last(r[i]).text) \subseteq Text(i)
    <3> HIDE DEF Text
    <3> QED BY <2>2, <2>3, <2>7, <2>8
  <2> QED BY <2>3, <2>7, <2>9
<1>6. \A i \in 0..n : i \in S
  <2>1. \A i \in 1..n : i - 1 \in S => i \in S
    <3>1. ASSUME NEW i \in 1..n, i - 1 \in S PROVE i \in S
      <4>1. Good(i)
        BY <1>5, <3>1
      <4> HIDE DEF Good
      <4> QED BY <1>3, <4>1
    <3> QED BY <3>1
  <2> HIDE DEF S
  <2> QED BY <1>3, <1>4, <2>1, Steps, Zenon
<1>7. Good(n) /\ r[n] \in Seq(Message)
  <2> HIDE DEF Good
  <2> QED BY <1>3, <1>6
<1>8. Text(n) = Given(ms, q)
  BY <1>3 DEF Given
<1>9. ASSUME LastWord(q) PROVE ~Pending(Last(r[n]))
  <2>1. n > 0 /\ q[n] = Last(q) /\ q[n] \in Updater
    BY <1>2, <1>9, LastOf DEF LastWord
  <2>2. n \in 1..n /\ n - 1 \in 0..n
    BY <1>3, <2>1
  <2>3. CASE q[n].do \in Final
    <3>1. Good(n - 1)
      <4> HIDE DEF Good
      <4> QED BY <1>6, <2>2
    <3> HIDE DEF Good
    <3> QED BY <1>5, <2>2, <2>3, <3>1
  <2>4. CASE q[n].do = "set"
    <3>1. r[n] = q[n].text
      BY <1>3, <2>2, <2>4 DEF RunOne
    <3>2. "set" \notin Final
      BY DEF Final
    <3> QED BY <1>9, <2>1, <2>4, <3>1, <3>2 DEF LastWord
  <2> QED BY <1>9, <2>1, <2>3, <2>4 DEF LastWord
<1> HIDE DEF Text
<1> QED BY <1>3, <1>7, <1>8, <1>9

\* The updaters us may be queued behind q.
LEMMA QueueTalk ==
    ASSUME NEW o, NEW g \in Nat, NEW ms, NEW q \in Seq(Updater), NEW us \in Seq(Updater),
           us # <<>>, Talk(ms, q, o, g), Talk(ms, us, o, g),
           \A i \in DOMAIN q : q[i].do \notin Final,
           \A j \in DOMAIN us : us[j].do = "flush" =>
               \A c \in Given(ms, q), d \in ToSet(us[j].text) : c.n < d.n
    PROVE  /\ q \o us \in Seq(Updater) /\ q \o us # <<>> /\ Talk(ms, q \o us, o, g)
           /\ Given(ms, q \o us) \subseteq Given(ms, q) \cup Given(ms, us)
           /\ Last(us).do \in Final => LastWord(q \o us)
           /\ \A i \in DOMAIN (q \o us) : (q \o us)[i].do \in Final => Last(us).do \in Final
<1>1. PICK w, k, n : w = q \o us /\ k = Len(q) /\ n = Len(us)
  OBVIOUS
<1>2. /\ k \in Nat /\ n \in Nat /\ n > 0 /\ DOMAIN q = 1..k /\ DOMAIN us = 1..n
      /\ w \in Seq(Updater) /\ Len(w) = k + n /\ DOMAIN w = 1..(k + n)
  BY <1>1
<1>3. \A i \in 1..k : w[i] = q[i] /\ i \in 1..(k + n)
  BY <1>1, <1>2
<1>4. \A i \in 1..(k + n) : i \notin 1..k => i - k \in 1..n /\ w[i] = us[i - k]
  BY <1>1, <1>2
<1>5. Last(us) = us[n] /\ Last(w) = us[n] /\ n \in 1..n /\ w # <<>>
  <2>1. k + n \in 1..(k + n) /\ k + n \notin 1..k /\ (k + n) - k = n
    BY <1>2
  <2>2. w[k + n] = us[n]
    BY <1>4, <2>1
  <2> QED BY <1>1, <1>2, <2>1, <2>2 DEF Last
<1>6. Answering(ms, g) /\ SoundList(ms, o, g)
  BY DEF Talk
<1>7. ASSUME NEW i \in 1..(k + n)
      PROVE  Legal(w[i], ms, o, g) /\ (w[i].do \in Final => i = k + n)
  <2>1. CASE i \in 1..k
    BY <1>2, <1>3, <2>1 DEF Talk
  <2>2. CASE i \notin 1..k
    <3>1. i - k \in 1..n /\ w[i] = us[i - k]
      BY <1>4, <2>2
    <3>2. Legal(us[i - k], ms, o, g) /\ (us[i - k].do \in Final => i - k = n)
      BY <1>1, <1>2, <3>1 DEF Talk
    <3>3. i - k = n => i = k + n
      BY <1>2
    <3> QED BY <3>1, <3>2, <3>3
  <2> QED BY <2>1, <2>2
<1>8. ASSUME NEW j \in 1..(k + n), w[j].do = "flush"
      PROVE  /\ Before(Last(ms).text, w[j].text)
             /\ \A i \in 1..(j - 1) : Before(Left(w[i]), w[j].text)
  <2>1. CASE j \in 1..k
    <3>1. w[j] = q[j] /\ \A i \in 1..(j - 1) : i \in 1..k /\ w[i] = q[i]
      BY <1>2, <1>3, <2>1
    <3> QED BY <1>2, <1>8, <2>1, <3>1 DEF Talk
  <2>2. CASE j \notin 1..k
    <3>1. j - k \in 1..n /\ w[j] = us[j - k]
      BY <1>4, <2>2
    <3>2. Before(Last(ms).text, w[j].text)
      BY <1>2, <1>8, <3>1 DEF Talk
    <3>3. ASSUME NEW i \in 1..(j - 1) PROVE Before(Left(w[i]), w[j].text)
      <4>1. CASE i \in 1..k
        <5>1. w[i] = q[i] /\ i \in DOMAIN q
          BY <1>2, <1>3, <4>1
        <5>2. ToSet(Left(q[i])) \subseteq Given(ms, q)
          BY <5>1 DEF Given
        <5>3. \A c \in Given(ms, q), d \in ToSet(w[j].text) : c.n < d.n
          BY <1>2, <1>8, <3>1
        <5> QED BY <5>1, <5>2, <5>3, Zenon DEF Before
      <4>2. CASE i \notin 1..k
        <5>1. i \in 1..(k + n) /\ i - k \in 1..((j - k) - 1)
          BY <1>2, <4>2
        <5>2. w[i] = us[i - k]
          BY <1>4, <4>2, <5>1
        <5> QED BY <1>2, <1>8, <3>1, <5>1, <5>2 DEF Talk
      <4> QED BY <4>1, <4>2
    <3> QED BY <3>2, <3>3
  <2> QED BY <2>1, <2>2
<1>9. Talk(ms, w, o, g)
  BY <1>2, <1>6, <1>7, <1>8 DEF Talk
<1>10. Given(ms, w) \subseteq Given(ms, q) \cup Given(ms, us)
  <2>1. ASSUME NEW i \in 1..(k + n), NEW c \in ToSet(Left(w[i]))
        PROVE  c \in Given(ms, q) \cup Given(ms, us)
    <3>1. CASE i \in 1..k
      BY <1>2, <1>3, <2>1, <3>1 DEF Given
    <3>2. CASE i \notin 1..k
      <4>1. i - k \in DOMAIN us /\ w[i] = us[i - k]
        BY <1>2, <1>4, <3>2
      <4> QED BY <2>1, <4>1 DEF Given
    <3> QED BY <3>1, <3>2
  <2> QED BY <1>2, <2>1 DEF Given
<1>11. Last(us).do \in Final => LastWord(w)
  BY <1>5 DEF LastWord
<1>12. ASSUME NEW i \in DOMAIN w, w[i].do \in Final PROVE Last(us).do \in Final
  <2>1. CASE i \in 1..k
    BY <1>2, <1>3, <1>12, <2>1
  <2>2. CASE i \notin 1..k
    <3>1. i = k + n
      BY <1>2, <1>7, <1>12
    <3>2. w[i] = us[n]
      BY <1>2, <1>4, <2>2, <3>1
    <3> QED BY <1>5, <1>12, <3>2
  <2> QED BY <2>1, <2>2
<1> QED BY <1>1, <1>2, <1>5, <1>9, <1>10, <1>11, <1>12

\* The first of them may be run on the spot.
LEMMA SpotTalk ==
    ASSUME NEW o, NEW g \in Nat, NEW ms \in Seq(Message), NEW us \in Seq(Updater),
           us # <<>>, Talk(ms, us, o, g),
           NEW x, x = RunOne(Head(us), ms, g),
           NEW w, w = <<SetTo(x)>> \o Tail(us)
    PROVE  /\ x \in Seq(Message) /\ SoundList(x, o, g)
           /\ w \in Seq(Updater) /\ w # <<>> /\ Talk(ms, w, o, g)
           /\ Given(ms, w) \subseteq Given(ms, us)
           /\ Last(us).do \in Final => LastWord(w)
           /\ \A i \in DOMAIN w : w[i].do \in Final => Last(us).do \in Final
<1>1. PICK n : n = Len(us)
  OBVIOUS
<1>2. /\ n \in Nat /\ n > 0 /\ DOMAIN us = 1..n /\ Head(us) = us[1] /\ us[1] \in Updater
      /\ 1 \in 1..n /\ n \in 1..n /\ Last(us) = us[n] /\ Tail(us) \in Seq(Updater)
      /\ Len(Tail(us)) = n - 1
  BY <1>1, LastOf
<1>3. Legal(us[1], ms, o, g) /\ Answering(ms, g) /\ SoundList(ms, o, g)
  BY <1>2 DEF Talk
<1>4. us[1].do = "flush" => Before(Last(ms).text, us[1].text)
  BY <1>2 DEF Talk
<1>5. /\ x \in Seq(Message) /\ Answering(x, g) /\ SoundList(x, o, g) /\ Alike(x, ms)
      /\ ToSet(Last(x).text) \subseteq ToSet(Last(ms).text) \cup ToSet(Left(us[1]))
      /\ us[1].do \in Final => ~Pending(Last(x))
  BY <1>2, <1>3, <1>4, AlikeSelf, StepTalk
<1>6. PICK v \in Updater : v = SetTo(x) /\ v.do = "set" /\ v.text = x
  <2>1. SetTo(x) \in Updater /\ SetTo(x).do = "set" /\ SetTo(x).text = x
    BY <1>5 DEF SetTo, Updater
  <2> QED BY <2>1
<1>7. w \in Seq(Updater) /\ Len(w) = n /\ DOMAIN w = 1..n /\ w[1] = v /\ w # <<>>
  BY <1>2, <1>6
<1>8. \A i \in 1..n : i # 1 => w[i] = us[i]
  BY <1>1, <1>2, <1>6
<1>9. "set" \notin Final /\ "set" # "flush" /\ "set" # "remove" /\ "set" # "answer"
  BY DEF Final
<1>10. Legal(v, ms, o, g) /\ Left(v) = Last(x).text
  BY <1>5, <1>6, <1>9 DEF Legal, Left
<1>11. ASSUME NEW i \in 1..n PROVE Legal(w[i], ms, o, g) /\ (w[i].do \in Final => i = n)
  <2>1. CASE i = 1
    BY <1>6, <1>7, <1>9, <1>10, <2>1
  <2>2. CASE i # 1
    BY <1>1, <1>2, <1>8, <2>2 DEF Talk
  <2> QED BY <2>1, <2>2
<1>12. ASSUME NEW j \in 1..n, w[j].do = "flush"
       PROVE  /\ Before(Last(ms).text, w[j].text)
              /\ \A i \in 1..(j - 1) : Before(Left(w[i]), w[j].text)
  <2>1. j # 1
    BY <1>6, <1>7, <1>9, <1>12
  <2>2. w[j] = us[j]
    BY <1>8, <2>1
  <2>3. Before(Last(ms).text, w[j].text)
    BY <1>2, <1>12, <2>2 DEF Talk
  <2>4. ASSUME NEW i \in 1..(j - 1) PROVE Before(Left(w[i]), w[j].text)
    <3>1. i \in 1..n /\ 1 \in 1..(j - 1)
      BY <1>2, <2>1
    <3>2. Before(Left(us[i]), w[j].text) /\ Before(Left(us[1]), w[j].text)
      BY <1>2, <1>12, <2>2, <3>1 DEF Talk
    <3>3. CASE i = 1
      <4>1. ToSet(Left(w[i])) \subseteq ToSet(Last(ms).text) \cup ToSet(Left(us[1]))
        BY <1>5, <1>7, <1>10, <3>3
      <4> QED BY <2>3, <3>2, <4>1, Zenon DEF Before
    <3>4. CASE i # 1
      BY <1>8, <3>1, <3>2, <3>4
    <3> QED BY <3>3, <3>4
  <2> QED BY <2>3, <2>4
<1>13. Talk(ms, w, o, g)
  BY <1>3, <1>7, <1>11, <1>12 DEF Talk
<1>14. Given(ms, w) \subseteq Given(ms, us)
  <2>1. ASSUME NEW i \in 1..n, NEW c \in ToSet(Left(w[i])) PROVE c \in Given(ms, us)
    <3>1. CASE i = 1
      <4>1. c \in ToSet(Last(ms).text) \cup ToSet(Left(us[1]))
        BY <1>5, <1>7, <1>10, <2>1, <3>1
      <4> QED BY <1>2, <4>1 DEF Given
    <3>2. CASE i # 1
      BY <1>2, <1>8, <2>1, <3>2 DEF Given
    <3> QED BY <3>1, <3>2
  <2> QED BY <1>7, <2>1 DEF Given
<1>15. ASSUME us[n].do \in Final PROVE LastWord(w)
  <2>1. Last(w) = w[n]
    BY <1>7 DEF Last
  <2>2. CASE n = 1
    BY <1>5, <1>6, <1>7, <1>15, <2>1, <2>2 DEF LastWord
  <2>3. CASE n # 1
    BY <1>2, <1>7, <1>8, <1>15, <2>1, <2>3 DEF LastWord
  <2> QED BY <2>2, <2>3
<1>16. ASSUME NEW i \in 1..n, w[i].do \in Final PROVE us[n].do \in Final
  <2>1. i = n /\ i # 1
    BY <1>6, <1>7, <1>9, <1>11, <1>16
  <2> QED BY <1>8, <1>16, <2>1
<1> QED BY <1>2, <1>5, <1>7, <1>13, <1>14, <1>15, <1>16

\* A generation that is stopped: what waits was for the old one, and the
\* answer it leaves is settled.
LEMMA StopTalk ==
    ASSUME NEW o, NEW g \in Nat, g + 1 \in Gens, NEW ms \in Seq(Message), NEW q \in Seq(Updater),
           Answering(ms, g), SoundList(ms, o, g), \A i \in DOMAIN q : Legal(q[i], ms, o, g),
           NEW u, u = Update("complete", g + 1, <<>>), NEW x, x = Run(q \o <<u>>, ms, g + 1)
    PROVE  /\ x \in Seq(Message) /\ SoundList(x, o, g) /\ Alike(x, ms) /\ ~Pending(Last(x))
           /\ x # <<>>
<1>1. u \in Updater /\ u.do = "complete" /\ u.gen = g + 1 /\ u.text = <<>>
  BY DEF Update, Updater
<1>2. PICK r : /\ Ran(q \o <<u>>, ms, g + 1, r) /\ r[Len(q)] \in Seq(Message)
               /\ x = RunOne(u, r[Len(q)], g + 1)
  BY <1>1, RunAppend
<1>3. PICK n : n = Len(q)
  OBVIOUS
<1>4. /\ n \in Nat /\ DOMAIN q = 1..n /\ Len(q \o <<u>>) = n + 1
      /\ \A i \in 1..n : q[i] \in Updater /\ (q \o <<u>>)[i] = q[i]
  BY <1>1, <1>3
<1>5. /\ r \in [0..(n + 1) -> Seq(Message)] /\ r[0] = ms
      /\ \A i \in 1..n : r[i] = RunOne(q[i], r[i - 1], g + 1)
  <2>1. \A i \in 1..n : i \in 1..(n + 1)
    BY <1>4
  <2> QED BY <1>2, <1>4, <2>1 DEF Ran
<1> DEFINE Good(i) == Answering(r[i], g) /\ SoundList(r[i], o, g) /\ Alike(r[i], ms)
           S == {i \in 0..n : Good(i)}
<1>6. 0 \in S
  <2>1. Good(0)
    BY <1>5, AlikeSelf
  <2> HIDE DEF Good
  <2> QED BY <1>4, <2>1
<1>7. ASSUME NEW i \in 1..n, i - 1 \in S PROVE i \in S
  <2>1. Good(i - 1) /\ Legal(q[i], ms, o, g) /\ r[i] = RunOne(q[i], r[i - 1], g + 1)
    BY <1>4, <1>5, <1>7
  <2>2. CASE q[i].do = "set"
    <3>1. r[i] = q[i].text
      BY <2>1, <2>2 DEF RunOne
    <3>2. Good(i)
      BY <2>1, <2>2, <3>1 DEF Legal
    <3> HIDE DEF Good
    <3> QED BY <1>4, <3>2
  <2>3. CASE q[i].do # "set"
    <3>1. q[i].gen = g /\ q[i].do # "remove" /\ g # g + 1
      BY <2>1, <2>3 DEF Legal
    <3>2. r[i] = r[i - 1]
      BY <2>1, <2>3, <3>1 DEF RunOne
    <3>3. Good(i)
      BY <2>1, <3>2
    <3> HIDE DEF Good
    <3> QED BY <1>4, <3>3
  <2> QED BY <2>2, <2>3
<1>8. \A i \in 0..n : i \in S
  <2>1. \A i \in 1..n : i - 1 \in S => i \in S
    BY <1>7
  <2> HIDE DEF S
  <2> QED BY <1>4, <1>6, <2>1, Steps, Zenon
<1>9. PICK ns \in Seq(Message) : ns = r[n]
  BY <1>2, <1>3
<1>10. Answering(ns, g) /\ SoundList(ns, o, g) /\ Alike(ns, ms)
  <2>1. n \in 0..n
    BY <1>4
  <2> QED BY <1>8, <1>9, <2>1
<1>11. PICK k : k = Len(ns)
  OBVIOUS
<1>12. /\ k \in Nat /\ k > 0 /\ k \in DOMAIN ns /\ ns[k] = Last(ns) /\ ns[k] \in Message
       /\ Last(ns).from = "assistant" /\ ns # <<>>
  BY <1>10, <1>11, LastOf DEF Answering
<1>13. PICK a : a = Apply(u, ns[k])
  OBVIOUS
<1>14. /\ a \in Message /\ a.gen = ns[k].gen /\ a.by = ns[k].by /\ a.text \in {ns[k].text, <<>>}
       /\ ~Pending(a)
  BY <1>1, <1>12, <1>13, ApplyType DEF Final
<1>15. x = [ns EXCEPT ![k] = a]
  BY <1>1, <1>2, <1>3, <1>9, <1>11, <1>12, <1>13 DEF RunOne, OnLastAssistant
<1>16. /\ x \in Seq(Message) /\ Len(x) = k /\ x[k] = a /\ DOMAIN x = DOMAIN ns
       /\ \A i \in DOMAIN ns : i # k => x[i] = ns[i]
  <2>1. x \in Seq(Message)
    BY <1>1, <1>2, RunOneType
  <2> QED BY <1>11, <1>12, <1>15, <2>1
<1>17. Sound(a, o, g)
  <2>1. Sound(ns[k], o, g)
    BY <1>10, <1>12 DEF SoundList
  <2>2. Ascending(<<>>) /\ ToSet(<<>>) = {}
    BY DEF Ascending, ToSet
  <2> QED BY <1>14, <2>1, <2>2 DEF Sound
<1>18. SoundList(x, o, g)
  BY <1>10, <1>16, <1>17 DEF SoundList
<1>19. Alike(x, ms)
  <2>1. \A i \in 1..(k - 1) : i \in DOMAIN ns /\ i # k
    BY <1>11, <1>12
  <2> QED BY <1>10, <1>11, <1>16, <2>1 DEF Alike
<1>20. Last(x) = a /\ x # <<>>
  BY <1>12, <1>16 DEF Last
<1> QED BY <1>14, <1>16, <1>18, <1>19, <1>20

\* A message of an account stays sound when a generation begins.
LEMMA SoundLater ==
    ASSUME NEW o, NEW g \in Nat, NEW h \in Nat, g <= h, NEW ms \in Seq(Message), SoundList(ms, o, g)
    PROVE  SoundList(ms, o, h)
<1> SUFFICES ASSUME NEW i \in DOMAIN ms PROVE Sound(ms[i], o, h)
  BY DEF SoundList
<1>1. ms[i] \in Message /\ Sound(ms[i], o, g)
  BY DEF SoundList
<1>2. ms[i].gen \in Nat
  BY <1>1, PlaygroundAssumption DEF Message, Gens
<1> QED BY <1>1, <1>2 DEF Sound

\* An empty list is sound.
LEMMA SoundNone == \A o, g : SoundList(<<>>, o, g)
BY DEF SoundList

\* A part of a list.
LEMMA PartSound ==
    ASSUME NEW o, NEW g \in Nat, NEW ms \in Seq(Message), SoundList(ms, o, g),
           NEW m \in 1..(Len(ms) + 1), NEW n \in (m - 1)..Len(ms)
    PROVE  /\ SubSeq(ms, m, n) \in Seq(Message) /\ Len(SubSeq(ms, m, n)) = n - m + 1
           /\ SoundList(SubSeq(ms, m, n), o, g)
           /\ \A i \in 1..(n - m + 1) : SubSeq(ms, m, n)[i] = ms[m + i - 1] /\ m + i - 1 \in DOMAIN ms
<1>1. PICK s : s = SubSeq(ms, m, n)
  OBVIOUS
<1>2. s \in Seq(Message) /\ Len(s) = n - m + 1 /\ \A i \in 1..(n - m + 1) : s[i] = ms[m + i - 1]
  BY <1>1, SubSeqProperties
<1>3. \A i \in 1..(n - m + 1) : m + i - 1 \in DOMAIN ms
  OBVIOUS
<1>4. DOMAIN s = 1..(n - m + 1)
  BY <1>2
<1>5. SoundList(s, o, g)
  BY <1>2, <1>3, <1>4 DEF SoundList
<1> QED BY <1>1, <1>2, <1>3, <1>5

\* Storage keeps the last messages.
LEMMA TrimSound ==
    ASSUME NEW o, NEW g \in Nat, NEW ms \in Seq(Message), SoundList(ms, o, g)
    PROVE  /\ TrimTo(ms, MaxStored) \in Seq(Message) /\ SoundList(TrimTo(ms, MaxStored), o, g)
           /\ Len(TrimTo(ms, MaxStored)) <= MaxStored
           /\ Len(ms) <= MaxStored => TrimTo(ms, MaxStored) = ms
<1>1. MaxStored \in Nat /\ Len(ms) \in Nat
  BY PlaygroundAssumption
<1>2. CASE Len(ms) <= MaxStored
  BY <1>2 DEF TrimTo
<1>3. CASE ~(Len(ms) <= MaxStored)
  <2>1. /\ Len(ms) - MaxStored + 1 \in 1..(Len(ms) + 1)
        /\ Len(ms) \in (Len(ms) - MaxStored + 1 - 1)..Len(ms)
        /\ Len(ms) - (Len(ms) - MaxStored + 1) + 1 = MaxStored
    BY <1>1, <1>3
  <2>2. PICK m, n : m = Len(ms) - MaxStored + 1 /\ n = Len(ms)
    OBVIOUS
  <2>3. m \in 1..(Len(ms) + 1) /\ n \in (m - 1)..Len(ms) /\ n - m + 1 = MaxStored
    BY <2>1, <2>2
  <2>4. /\ SubSeq(ms, m, n) \in Seq(Message) /\ Len(SubSeq(ms, m, n)) = MaxStored
        /\ SoundList(SubSeq(ms, m, n), o, g)
    BY <2>3, PartSound
  <2> QED BY <1>1, <1>3, <2>2, <2>4 DEF TrimTo
<1> QED BY <1>2, <1>3

\* The last word on a message keeps it sound.
LEMMA SettleSound ==
    ASSUME NEW o, NEW g, NEW m \in Message, Sound(m, o, g)
    PROVE  /\ Complete(m) \in Message /\ Sound(Complete(m), o, g)
           /\ Failed(m) \in Message /\ Sound(Failed(m), o, g)
<1>1. /\ Complete(m) \in Message /\ Complete(m).by = m.by /\ Complete(m).gen = m.gen
      /\ Complete(m).text = m.text
  BY DEF Complete, Message
<1>2. /\ Failed(m) \in Message /\ Failed(m).by = m.by /\ Failed(m).gen = m.gen
      /\ Failed(m).text = <<>>
  <2>1. <<>> \in Seq(Chunk)
    OBVIOUS
  <2> QED BY <2>1 DEF Failed, Message
<1>3. Ascending(<<>>) /\ ToSet(<<>>) = {}
  BY DEF Ascending, ToSet
<1> QED BY <1>1, <1>2, <1>3 DEF Sound

\* A list whose messages are sound, given element by element.
LEMMA ListSound ==
    ASSUME NEW o, NEW g, NEW ms, NEW n \in Nat, ms = [i \in 1..n |-> ms[i]],
           \A i \in 1..n : ms[i] \in Message /\ Sound(ms[i], o, g)
    PROVE  ms \in Seq(Message) /\ Len(ms) = n /\ SoundList(ms, o, g)
<1>1. ms \in [1..n -> Message]
  BY Zenon
<1>2. ms \in Seq(Message) /\ Len(ms) = n /\ DOMAIN ms = 1..n
  BY <1>1
<1> QED BY <1>2 DEF SoundList

\* The history of an account, as it is loaded.
LEMMA LoadSound ==
    ASSUME NEW o \in Owners, NEW g \in Nat, store \in [Owners -> Seq(Message)],
           SoundList(store[o], o, g)
    PROVE  /\ loadMessages(o) \in Seq(Message) /\ SoundList(loadMessages(o), o, g)
           /\ Len(loadMessages(o)) <= MaxStored
<1>1. PICK s \in Seq(Message) : s = store[o]
  OBVIOUS
<1>2. PICK n \in Nat : n = Len(s) /\ DOMAIN s = 1..n
  OBVIOUS
<1>3. \A i \in 1..n : s[i] \in Message /\ Sound(s[i], o, g)
  BY <1>1, <1>2 DEF SoundList
<1>4. PICK t : t = [i \in DOMAIN s |-> IF Pending(s[i]) /\ s[i].text # <<>>
                                       THEN Complete(s[i]) ELSE s[i]]
  OBVIOUS
<1>5. t = [i \in 1..n |-> t[i]] /\ \A i \in 1..n : t[i] \in {s[i], Complete(s[i])}
  BY <1>2, <1>4
<1>6. \A i \in 1..n : t[i] \in Message /\ Sound(t[i], o, g)
  BY <1>3, <1>5, SettleSound
<1>7. t \in Seq(Message) /\ SoundList(t, o, g)
  BY <1>5, <1>6, ListSound
<1>8. PICK v : v = TrimTo(t, MaxStored)
  OBVIOUS
<1>9. v \in Seq(Message) /\ SoundList(v, o, g) /\ Len(v) <= MaxStored
  BY <1>7, <1>8, TrimSound
<1>10. PICK k \in Nat : k = Len(v) /\ DOMAIN v = 1..k
  BY <1>9
<1>11. PICK z : z = [i \in DOMAIN v |-> IF i \in LastPending(v) THEN Failed(v[i]) ELSE v[i]]
  OBVIOUS
<1>12. z = [i \in 1..k |-> z[i]] /\ \A i \in 1..k : z[i] \in {v[i], Failed(v[i])}
  BY <1>10, <1>11
<1>13. \A i \in 1..k : v[i] \in Message /\ Sound(v[i], o, g)
  BY <1>9, <1>10 DEF SoundList
<1>14. \A i \in 1..k : z[i] \in Message /\ Sound(z[i], o, g)
  BY <1>12, <1>13, SettleSound
<1>15. z \in Seq(Message) /\ SoundList(z, o, g) /\ Len(z) = k
  BY <1>12, <1>14, ListSound
<1>16. loadMessages(o) = z
  BY <1>1, <1>4, <1>8, <1>11 DEF loadMessages
<1> QED BY <1>9, <1>10, <1>15, <1>16

\* A list that a new answer may follow.
LEMMA NewAnswer ==
    ASSUME owner \in Owners, NEW g \in Gens, NEW ms \in Seq(Message), SoundList(ms, owner, g),
           \A i \in DOMAIN ms : ms[i].from = "assistant" => ms[i].gen < g,
           NEW ns, ns = ms \o <<Loading(g)>>
    PROVE  /\ ns \in Seq(Message) /\ Answering(ns, g) /\ SoundList(ns, owner, g)
           /\ Last(ns).text = <<>>
<1>1. PICK m : m = Loading(g)
  OBVIOUS
<1>2. /\ m \in Message /\ m.from = "assistant" /\ m.gen = g /\ m.by = owner /\ m.text = <<>>
  <2>1. <<>> \in Seq(Chunk)
    OBVIOUS
  <2> QED BY <1>1, <2>1 DEF Loading, Message
<1>3. g \in Nat
  BY PlaygroundAssumption DEF Gens
<1>4. Sound(m, owner, g)
  <2>1. Ascending(<<>>) /\ ToSet(<<>>) = {}
    BY DEF Ascending, ToSet
  <2> QED BY <1>2, <1>3, <2>1 DEF Sound
<1>5. PICK k \in Nat : k = Len(ms) /\ DOMAIN ms = 1..k
  OBVIOUS
<1>6. /\ ns \in Seq(Message) /\ Len(ns) = k + 1 /\ DOMAIN ns = 1..(k + 1) /\ ns[k + 1] = m
      /\ \A i \in 1..k : ns[i] = ms[i]
  BY <1>1, <1>2, <1>5
<1>7. Last(ns) = m /\ ns # <<>>
  BY <1>6 DEF Last
<1>8. Answering(ns, g)
  <2>1. \A i \in 1..(Len(ns) - 1) : i \in 1..k
    BY <1>6
  <2> QED BY <1>2, <1>5, <1>6, <1>7, <2>1 DEF Answering
<1>9. SoundList(ns, owner, g)
  <2>1. \A i \in 1..(k + 1) : i \in 1..k \/ i = k + 1
    OBVIOUS
  <2> QED BY <1>4, <1>5, <1>6, <2>1 DEF SoundList
<1> QED BY <1>2, <1>6, <1>7, <1>8, <1>9

\* A list of earlier generations, also with the user's question added.
LEMMA Earlier ==
    ASSUME owner \in Owners, NEW g \in Nat, g + 1 \in Gens, NEW ms \in Seq(Message),
           SoundList(ms, owner, g)
    PROVE  /\ SoundList(ms, owner, g + 1)
           /\ \A i \in DOMAIN ms : ms[i].from = "assistant" => ms[i].gen < g + 1
<1>1. SoundList(ms, owner, g + 1)
  BY SoundLater
<1>2. ASSUME NEW i \in DOMAIN ms PROVE ms[i].gen < g + 1
  <2>1. ms[i] \in Message /\ Sound(ms[i], owner, g)
    BY DEF SoundList
  <2>2. ms[i].gen \in Nat
    BY <2>1, PlaygroundAssumption DEF Message, Gens
  <2> QED BY <2>1, <2>2 DEF Sound
<1> QED BY <1>1, <1>2

LEMMA Asked ==
    ASSUME owner \in Owners, NEW g \in Nat, g + 1 \in Gens, NEW ms \in Seq(Message),
           SoundList(ms, owner, g), NEW ns, ns = ms \o <<User(g + 1), Loading(g + 1)>>
    PROVE  /\ ns \in Seq(Message) /\ Answering(ns, g + 1) /\ SoundList(ns, owner, g + 1)
           /\ Last(ns).text = <<>>
<1>1. PICK m : m = User(g + 1)
  OBVIOUS
<1>2. m \in Message /\ m.from = "user" /\ m.gen = g + 1 /\ m.by = owner /\ m.text = <<>>
  <2>1. <<>> \in Seq(Chunk)
    OBVIOUS
  <2> QED BY <1>1, <2>1 DEF User, Message
<1>3. Sound(m, owner, g + 1)
  <2>1. Ascending(<<>>) /\ ToSet(<<>>) = {}
    BY DEF Ascending, ToSet
  <2> QED BY <1>2, <2>1 DEF Sound
<1>4. PICK k \in Nat : k = Len(ms) /\ DOMAIN ms = 1..k
  OBVIOUS
<1>5. PICK us : us = ms \o <<m>>
  OBVIOUS
<1>6. /\ us \in Seq(Message) /\ Len(us) = k + 1 /\ DOMAIN us = 1..(k + 1) /\ us[k + 1] = m
      /\ \A i \in 1..k : us[i] = ms[i]
  BY <1>2, <1>4, <1>5
<1>7. \A i \in 1..(k + 1) : i \in 1..k \/ i = k + 1
  OBVIOUS
<1>8. SoundList(ms, owner, g + 1) /\ \A i \in DOMAIN ms : ms[i].from = "assistant" => ms[i].gen < g + 1
  BY Earlier
<1>9. SoundList(us, owner, g + 1)
  BY <1>3, <1>4, <1>6, <1>7, <1>8 DEF SoundList
<1>10. \A i \in DOMAIN us : us[i].from = "assistant" => us[i].gen < g + 1
  BY <1>2, <1>4, <1>6, <1>7, <1>8
<1>11. PICK a \in Message : a = Loading(g + 1)
  <2>1. <<>> \in Seq(Chunk)
    OBVIOUS
  <2>2. Loading(g + 1) \in Message
    BY <2>1 DEF Loading, Message
  <2> QED BY <2>2
<1>12. ns = us \o <<a>>
  BY <1>1, <1>2, <1>5, <1>11
<1> QED BY <1>6, <1>9, <1>10, <1>11, <1>12, NewAnswer

\* A prefix of a list, with a new answer.
LEMMA Again ==
    ASSUME owner \in Owners, NEW g \in Nat, g + 1 \in Gens, NEW ms \in Seq(Message),
           SoundList(ms, owner, g), NEW k \in 0..Len(ms),
           NEW ns, ns = SubSeq(ms, 1, k) \o <<Loading(g + 1)>>
    PROVE  /\ ns \in Seq(Message) /\ Answering(ns, g + 1) /\ SoundList(ns, owner, g + 1)
           /\ Last(ns).text = <<>>
<1>1. PICK s : s = SubSeq(ms, 1, k)
  OBVIOUS
<1>2. 1 \in 1..(Len(ms) + 1) /\ k \in (1 - 1)..Len(ms)
  OBVIOUS
<1>3. s \in Seq(Message) /\ SoundList(s, owner, g)
  BY <1>1, <1>2, PartSound
<1>4. SoundList(s, owner, g + 1) /\ \A i \in DOMAIN s : s[i].from = "assistant" => s[i].gen < g + 1
  BY <1>3, Earlier
<1>5. ns = s \o <<Loading(g + 1)>>
  BY <1>1
<1> QED BY <1>3, <1>4, <1>5, NewAnswer

\* A list in which the user's text replaces a message.
EditedAt(ms, i) == [ms EXCEPT ![i] = Edited(ms[i])]

LEMMA EditedList ==
    ASSUME NEW o, NEW g \in Nat, NEW ms \in Seq(Message), NEW i \in DOMAIN ms, SoundList(ms, o, g)
    PROVE  /\ EditedAt(ms, i) \in Seq(Message) /\ Len(EditedAt(ms, i)) = Len(ms)
           /\ SoundList(EditedAt(ms, i), o, g)
           /\ Answering(ms, g) => Answering(EditedAt(ms, i), g)
           /\ \A c \in ToSet(Last(EditedAt(ms, i)).text) : c \in ToSet(Last(ms).text) \/ c.n = 0
<1>0. PICK ns : ns = EditedAt(ms, i)
  OBVIOUS
<1>1. PICK m \in Message : m = ms[i]
  OBVIOUS
<1>2. PICK c : c = [gen |-> m.gen, n |-> 0]
  OBVIOUS
<1>3. c \in Chunk /\ c.gen = m.gen /\ c.n = 0
  BY <1>2, PlaygroundAssumption DEF Chunk, Message
<1>4. PICK e : e = Edited(m)
  OBVIOUS
<1>5. /\ e \in Message /\ e.from = m.from /\ e.gen = m.gen /\ e.by = m.by
      /\ e.text = m.text \/ e.text = <<c>>
  <2>1. <<c>> \in Seq(Chunk)
    BY <1>3
  <2> QED BY <1>2, <1>4, <2>1 DEF Edited, Message
<1>6. Ascending(<<c>>) /\ ToSet(<<c>>) = {c}
  BY DEF Ascending, ToSet
<1>7. Sound(m, o, g)
  BY <1>1 DEF SoundList
<1>8. Sound(e, o, g)
  BY <1>3, <1>5, <1>6, <1>7 DEF Sound
<1>9. PICK k \in Nat : k = Len(ms) /\ DOMAIN ms = 1..k
  OBVIOUS
<1>10. /\ ns \in Seq(Message) /\ Len(ns) = k /\ DOMAIN ns = 1..k /\ ns[i] = e
       /\ \A j \in 1..k : j # i => ns[j] = ms[j]
  BY <1>0, <1>1, <1>4, <1>5, <1>9 DEF EditedAt
<1>11. \A j \in 1..k : ns[j].from = ms[j].from /\ ns[j].gen = ms[j].gen
  BY <1>1, <1>5, <1>10
<1>12. SoundList(ns, o, g)
  BY <1>8, <1>9, <1>10 DEF SoundList
<1>13. ASSUME Answering(ms, g) PROVE Answering(ns, g)
  <2>1. k \in 1..k /\ ns # <<>> /\ \A j \in 1..(k - 1) : j \in 1..k
    BY <1>9, <1>10, <1>13 DEF Answering
  <2> QED BY <1>9, <1>10, <1>11, <1>13, <2>1 DEF Answering, Last
<1>14. ASSUME NEW d \in ToSet(Last(ns).text) PROVE d \in ToSet(Last(ms).text) \/ d.n = 0
  <2>1. Last(ns) = ns[k] /\ Last(ms) = ms[k] /\ k \in 1..k
    BY <1>9, <1>10 DEF Last
  <2>2. CASE k = i
    BY <1>1, <1>3, <1>5, <1>6, <1>10, <1>14, <2>1, <2>2
  <2>3. CASE k # i
    BY <1>10, <1>14, <2>1, <2>3
  <2> QED BY <2>2, <2>3
<1> QED BY <1>0, <1>9, <1>10, <1>12, <1>13, <1>14

(***************************************************************************)
(* The steps.                                                               *)
(***************************************************************************)

\* A new generation is within the bounds when something may be sent.
LEMMA GenNext ==
    ASSUME PlayInv, sends < MaxSends \/ shown
    PROVE  gen + 1 \in Gens /\ gen \in Nat
<1>1. /\ gen \in Nat /\ sends \in 0..MaxSends /\ moves \in 0..MaxMoves
      /\ gen + (IF shown THEN 1 ELSE 0) <= 2 * sends + moves
  BY DEF PlayInv, TypeOK, Counted
<1>2. MaxSends \in Nat /\ MaxMoves \in Nat
  BY PlaygroundAssumption
<1> QED BY <1>1, <1>2 DEF Gens

\* The list an answer being produced shows with nothing queued.
LEMMA TalkNone ==
    ASSUME NEW ms, NEW o, NEW g, Answering(ms, g), SoundList(ms, o, g)
    PROVE  Talk(ms, <<>>, o, g) /\ Given(ms, <<>>) = ToSet(Last(ms).text)
BY DEF Talk, Given

\* A click that sends nothing, and a later render.
LEMMA ClickStep ==
    ASSUME PlayInv, NEW us \in Seq(Updater), Click(us),
           loaded \/ us = <<>>, editing' \in Keys \cup {None}, tweaks' \in 0..MaxTweaks,
           NEW x \in Seq(Message), x = Run(queue \o us, msgs, gen), SoundList(x, owner, gen),
           shown => /\ Answering(x, gen)
                    /\ \A c \in ToSet(Last(x).text) : c \in Given(msgs, queue) \/ c.n = 0
    PROVE  PlayInv'
<1>1. TypeOK /\ Counted /\ InForce /\ Waiting /\ Listed /\ Settling /\ Saved
  BY DEF PlayInv
<1>2. /\ UNCHANGED <<owner, loaded, store, gen, pending, flushTimer, sgen, source, reqs,
                     requesting, streaming, sends, moves>>
      /\ msgs' = x /\ queue' = <<>> /\ shown' = (requesting \/ streaming)
      /\ IF queue \o us = <<>> THEN UNCHANGED <<latest, saveTimer>>
         ELSE latest' = x /\ saveTimer' = (saveTimer \/ loaded)
  BY DEF Click, Rendered, Persist, request
<1>3. queue \in Seq(Updater) /\ msgs \in Seq(Message) /\ latest \in Seq(Message)
  BY <1>1 DEF TypeOK
<1>4. queue \o us = <<>> => queue = <<>> /\ x = msgs
  <2>1. SUFFICES ASSUME queue \o us = <<>> PROVE queue = <<>> /\ x = msgs
    OBVIOUS
  <2>2. queue = <<>>
    BY <1>3, <2>1
  <2> QED BY <1>3, <2>1, <2>2, RunNone
<1>5. ~loaded => queue \o us = <<>>
  BY <1>1, <1>3 DEF Saved
<1>6. shown' => shown
  BY <1>1, <1>2 DEF InForce
<1>7. shown' \in BOOLEAN /\ saveTimer' \in BOOLEAN /\ latest' \in Seq(Message)
  BY <1>1, <1>2 DEF TypeOK
<1>8. TypeOK'
  BY <1>1, <1>2, <1>7 DEF TypeOK
<1>9. Counted'
  BY <1>1, <1>2, <1>6 DEF Counted, TypeOK
<1>10. InForce'
  BY <1>1, <1>2, <1>6 DEF InForce
<1>11. Waiting'
  <2>1. shown' => Talk(x, <<>>, owner, gen) /\ Given(x, <<>>) = ToSet(Last(x).text)
    BY <1>6, TalkNone
  <2>2. ASSUME shown', NEW c \in ToSet(Last(x).text)
        PROVE  /\ \A d \in ToSet(pending.text) : c.n < d.n
               /\ \A r \in reqs : r.gen = gen => c.n <= r.sent
    <3>1. CASE c \in Given(msgs, queue)
      BY <1>1, <1>6, <2>2, <3>1 DEF Waiting
    <3>2. CASE c.n = 0
      <4>1. \A d \in ToSet(pending.text) : d.n > 0
        BY <1>1 DEF InForce, Streamed
      <4>2. \A r \in reqs : r.sent \in Nat
        BY <1>1, PlaygroundAssumption DEF TypeOK, Request
      <4>3. ToSet(pending.text) \subseteq Chunk
        BY <1>1 DEF TypeOK, ToSet
      <4> QED BY <3>2, <4>1, <4>2, <4>3 DEF Chunk
    <3> QED BY <1>6, <2>2, <3>1, <3>2
  <2>3. /\ queue' # <<>> => shown'
        /\ requesting' => \A i \in DOMAIN queue' : queue'[i].do \notin Final
    BY <1>2
  <2>4. shown' => Talk(msgs', queue', owner', gen')
    BY <1>2, <2>1
  <2>5. shown' => \A c \in Given(msgs', queue') :
                    /\ \A d \in ToSet(pending'.text) : c.n < d.n
                    /\ \A r \in reqs' : r.gen = gen' => c.n <= r.sent
    BY <1>2, <2>1, <2>2
  <2> QED BY <2>3, <2>4, <2>5 DEF Waiting
<1>12. Listed'
  <2>1. SoundList(msgs', owner', gen')
    BY <1>2
  <2>2. SoundList(latest', owner', gen')
    BY <1>1, <1>2 DEF Listed
  <2>3. \A o \in Owners : SoundList(store'[o], o, gen') /\ Len(store'[o]) <= MaxStored
    BY <1>1, <1>2 DEF Listed
  <2> QED BY <2>1, <2>2, <2>3 DEF Listed
<1>13. Settling'
  BY <1>2 DEF Settling
<1>14. Saved'
  <2>1. CASE loaded
    BY <1>1, <1>2, <1>4, <2>1 DEF Saved
  <2>2. CASE ~loaded
    BY <1>1, <1>2, <1>4, <1>5, <1>6, <2>2 DEF Saved
  <2> QED BY <2>1, <2>2
<1> QED BY <1>8, <1>9, <1>10, <1>11, <1>12, <1>13, <1>14 DEF PlayInv

\* What the queue makes of the list, while an answer is produced or not.
LEMMA QueueRun ==
    ASSUME PlayInv, NEW x, x = Run(queue, msgs, gen)
    PROVE  /\ x \in Seq(Message) /\ SoundList(x, owner, gen)
           /\ shown => /\ Answering(x, gen) /\ Alike(x, msgs)
                       /\ \A c \in ToSet(Last(x).text) : c \in Given(msgs, queue)
                       /\ LastWord(queue) => ~Pending(Last(x))
<1>1. /\ gen \in Nat /\ msgs \in Seq(Message) /\ queue \in Seq(Updater)
      /\ SoundList(msgs, owner, gen)
      /\ shown => Talk(msgs, queue, owner, gen)
      /\ ~shown => queue = <<>>
  BY DEF PlayInv, TypeOK, Waiting, Listed
<1>2. CASE shown
  <2>1. Talk(msgs, queue, owner, gen)
    BY <1>1, <1>2
  <2>2. /\ x \in Seq(Message) /\ SoundList(x, owner, gen) /\ Answering(x, gen) /\ Alike(x, msgs)
        /\ ToSet(Last(x).text) \subseteq Given(msgs, queue)
        /\ LastWord(queue) => ~Pending(Last(x))
    BY <1>1, <2>1, RunTalk
  <2> QED BY <2>2
<1>3. CASE ~shown
  BY <1>1, <1>3, RunNone
<1> QED BY <1>2, <1>3

\* A click that changes no message renders what was queued.
LEMMA IdleClick ==
    ASSUME PlayInv, Click(<<>>), editing' \in Keys \cup {None}, tweaks' \in 0..MaxTweaks
    PROVE  PlayInv'
<1>1. <<>> \in Seq(Updater) /\ queue \o <<>> = queue
  BY DEF PlayInv, TypeOK
<1>2. PICK x : x = Run(queue, msgs, gen)
  OBVIOUS
<1>3. /\ x \in Seq(Message) /\ SoundList(x, owner, gen)
      /\ shown => /\ Answering(x, gen)
                  /\ \A c \in ToSet(Last(x).text) : c \in Given(msgs, queue)
  BY <1>2, QueueRun
<1> QED BY <1>1, <1>2, <1>3, ClickStep

LEMMA RenderInv == ASSUME PlayInv, Render PROVE PlayInv'
<1>1. Click(<<>>) /\ editing' = editing /\ tweaks' = tweaks
  BY DEF Render, Click, Rendered, request, bounds
<1>2. editing \in Keys \cup {None} /\ tweaks \in 0..MaxTweaks
  BY DEF PlayInv, TypeOK
<1> QED BY <1>1, <1>2, IdleClick

\* Counting an edit.
LEMMA TweakCount == ASSUME PlayInv, Tweak PROVE tweaks' \in 0..MaxTweaks /\ loaded /\ ~shown
BY PlaygroundAssumption DEF PlayInv, TypeOK, Tweak

\* Keys of messages.
LEMMA KeyType == ASSUME NEW m \in Message PROVE Key(m) \in Keys
BY DEF Key, Keys, Message

LEMMA CancelEditInv == ASSUME PlayInv, CancelEdit PROVE PlayInv'
<1>1. Click(<<>>) /\ editing' = None /\ tweaks' = tweaks
  BY DEF CancelEdit
<1>2. tweaks \in 0..MaxTweaks
  BY DEF PlayInv, TypeOK
<1> QED BY <1>1, <1>2, IdleClick

LEMMA EditMessageInv == ASSUME PlayInv, EditMessage PROVE PlayInv'
<1>1. Click(<<>>) /\ Tweak
  BY DEF EditMessage
<1>2. PICK i \in DOMAIN msgs : editing' = Key(msgs[i])
  BY DEF EditMessage
<1>3. msgs[i] \in Message
  BY DEF PlayInv, TypeOK
<1> QED BY <1>1, <1>2, <1>3, KeyType, TweakCount, IdleClick

LEMMA DeleteMessageInv == ASSUME PlayInv, DeleteMessage PROVE PlayInv'
<1>1. Tweak /\ editing' = editing
  BY DEF DeleteMessage
<1>2. PICK i \in DOMAIN msgs : Click(<<Drop(Key(msgs[i]))>>)
  BY DEF DeleteMessage
<1>3. /\ msgs \in Seq(Message) /\ gen \in Nat /\ SoundList(msgs, owner, gen) /\ queue = <<>>
      /\ editing \in Keys \cup {None} /\ loaded /\ ~shown /\ tweaks' \in 0..MaxTweaks
  BY <1>1, TweakCount DEF PlayInv, TypeOK, Waiting, Listed
<1>4. PICK k \in Keys : k = Key(msgs[i])
  BY <1>3, KeyType
<1>5. PICK u \in Updater : u = Drop(k) /\ u.do = "remove" /\ u.text = k
  <2>1. Drop(k) \in Updater /\ Drop(k).do = "remove" /\ Drop(k).text = k
    BY DEF Drop, Updater
  <2> QED BY <2>1
<1>6. PICK x : x = Run(queue \o <<u>>, msgs, gen)
  OBVIOUS
<1>7. x = Kept(msgs, k)
  <2>1. <<>> \in Seq(Updater) /\ Len(<<>>) = 0
    OBVIOUS
  <2>2. PICK r : Ran(<<>> \o <<u>>, msgs, gen, r) /\ Run(<<>> \o <<u>>, msgs, gen) = RunOne(u, r[Len(<<>>)], gen)
    BY <1>3, <2>1, RunAppend
  <2>3. r[0] = msgs
    BY <2>2 DEF Ran
  <2> QED BY <1>3, <1>5, <1>6, <2>1, <2>2, <2>3 DEF RunOne
<1>8. PICK X : X = {m \in Message : Sound(m, owner, gen)}
  OBVIOUS
<1>9. msgs \in Seq(X)
  <2>1. \A j \in 1..Len(msgs) : msgs[j] \in X
    BY <1>3, <1>8 DEF SoundList
  <2> QED BY <1>3, <2>1
<1>10. x \in Seq(X)
  BY <1>7, <1>9, KeptList
<1>11. \A j \in 1..Len(x) : x[j] \in Message /\ Sound(x[j], owner, gen)
  BY <1>8, <1>10
<1>12. x \in Seq(Message) /\ SoundList(x, owner, gen)
  BY <1>10, <1>11 DEF SoundList
<1>13. Click(<<u>>) /\ <<u>> \in Seq(Updater)
  BY <1>2, <1>4, <1>5
<1> QED BY <1>1, <1>3, <1>6, <1>12, <1>13, ClickStep

\* A click that puts the list x.
LEMMA SetStep ==
    ASSUME PlayInv, NEW x \in Seq(Message), Click(<<SetTo(x)>>), loaded,
           editing' \in Keys \cup {None}, tweaks' \in 0..MaxTweaks, SoundList(x, owner, gen),
           shown => /\ Answering(x, gen)
                    /\ \A c \in ToSet(Last(x).text) : c \in Given(msgs, queue) \/ c.n = 0
    PROVE  PlayInv'
<1>1. queue \in Seq(Updater) /\ msgs \in Seq(Message)
  BY DEF PlayInv, TypeOK
<1>2. SetTo(x) \in Updater
  BY DEF SetTo, Updater
<1>3. x = Run(queue \o <<SetTo(x)>>, msgs, gen)
  BY <1>1, RunSet
<1>4. <<SetTo(x)>> \in Seq(Updater)
  BY <1>2
<1> QED BY <1>3, <1>4, ClickStep

LEMMA ClearMessagesInv == ASSUME PlayInv, ClearMessages PROVE PlayInv'
<1>1. Tweak /\ Click(<<SetTo(<<>>)>>) /\ editing' = None
  BY DEF ClearMessages
<1>2. <<>> \in Seq(Message) /\ SoundList(<<>>, owner, gen)
  BY SoundNone
<1> QED BY <1>1, <1>2, TweakCount, SetStep

\* A click that sends the messages x.
LEMMA SubmitStep ==
    ASSUME PlayInv, NEW x \in Seq(Message), Submit(x), loaded, editing' \in Keys \cup {None},
           Answering(x, gen + 1), SoundList(x, owner, gen + 1), Last(x).text = <<>>
    PROVE  PlayInv'
<1>1. TypeOK /\ Counted /\ InForce /\ Waiting /\ Listed /\ Settling /\ Saved
  BY DEF PlayInv
<1>2. PICK g : g = gen + 1
  OBVIOUS
<1>3. gen \in Nat /\ sends < MaxSends /\ g \in Gens /\ g \in Nat /\ gen <= g /\ gen < g
  BY <1>2, GenNext, PlaygroundAssumption DEF Submit, Start, Gens
<1>4. PICK kind \in {"headers", "call"} :
          reqs' = reqs \cup {[gen |-> gen + 1, sgen |-> sgen + 1, at |-> kind, sent |-> 0]}
  BY DEF Submit, Start
<1>5. sgen = gen
  BY <1>1 DEF Counted
<1>6. PICK r : r = [gen |-> g, sgen |-> g, at |-> kind, sent |-> 0]
  OBVIOUS
<1>7. r \in Request /\ r.gen = g /\ r.sgen = g /\ r.at \notin {"open", "closed"} /\ r.sent = 0
  BY <1>3, <1>6, PlaygroundAssumption DEF Request
<1>8. reqs' = reqs \cup {r}
  BY <1>2, <1>4, <1>5, <1>6
<1>9. queue \in Seq(Updater) /\ msgs \in Seq(Message)
  BY <1>1 DEF TypeOK
<1>10. queue \o <<SetTo(x)>> # <<>> /\ Run(queue \o <<SetTo(x)>>, msgs, g) = x
  <2>1. SetTo(x) \in Updater
    BY DEF SetTo, Updater
  <2> QED BY <1>9, <2>1, RunSet
<1>11. /\ UNCHANGED <<owner, loaded, store, tweaks, moves>>
       /\ sends' = sends + 1 /\ gen' = g /\ sgen' = g /\ source' = 0 /\ flushTimer' = 0
       /\ pending' = [gen |-> g, text |-> <<>>]
       /\ requesting' = TRUE /\ streaming' = FALSE /\ shown' = TRUE
       /\ msgs' = x /\ latest' = x /\ queue' = <<>> /\ saveTimer' = TRUE
  BY <1>1, <1>2, <1>5, <1>10 DEF Submit, Start, Discard, NoChunks, Rendered, Persist, TypeOK
<1>12. pending' \in [gen : {0, g}, text : Seq(Chunk)] /\ pending'.text = <<>> /\ ToSet(<<>>) = {}
  BY <1>11 DEF ToSet
<1>13. TypeOK'
  <2>1. sends' \in 0..MaxSends
    BY <1>1, <1>3, <1>11, PlaygroundAssumption DEF TypeOK
  <2>2. reqs' \subseteq Request
    BY <1>1, <1>7, <1>8 DEF TypeOK
  <2>3. /\ gen' \in Nat /\ sgen' \in Nat /\ pending' \in [gen : {0, gen'}, text : Seq(Chunk)]
        /\ flushTimer' \in {0, gen'} /\ source' \in {0, gen'}
    BY <1>3, <1>11, <1>12
  <2>4. queue' \in Seq(Updater)
    BY <1>11
  <2> QED BY <1>1, <1>11, <2>1, <2>2, <2>3, <2>4 DEF TypeOK
<1>14. \A s \in reqs : s.gen \in Nat /\ s.gen < g /\ s.sgen = s.gen
  <2>1. \A s \in reqs : s \in Request /\ s.gen <= gen /\ s.sgen = s.gen
    BY <1>1 DEF TypeOK, Counted
  <2>2. \A s \in Request : s.gen \in Nat
    BY PlaygroundAssumption DEF Request, Gens
  <2> QED BY <1>2, <1>3, <2>1, <2>2
<1>15. Counted'
  <2>1. sgen' = gen' /\ gen' + 1 <= 2 * sends' + moves'
    <3>1. sends \in Nat /\ moves \in Nat /\ gen + (IF shown THEN 1 ELSE 0) <= 2 * sends + moves
      BY <1>1, PlaygroundAssumption DEF Counted, TypeOK
    <3>2. gen <= 2 * sends + moves
      BY <1>3, <3>1
    <3> QED BY <1>2, <1>3, <1>11, <3>1, <3>2
  <2>2. \A s \in reqs' : s.sgen = s.gen /\ s.gen <= gen'
    BY <1>3, <1>7, <1>8, <1>11, <1>14
  <2>3. \A s, t \in reqs' : s.gen = t.gen => s = t
    BY <1>1, <1>3, <1>7, <1>8, <1>14 DEF Counted
  <2> QED BY <1>11, <2>1, <2>2, <2>3 DEF Counted
<1>16. InForce'
  <2>1. Streamed(<<>>, g)
    BY DEF Streamed, Ascending, ToSet
  <2>2. \A s \in reqs' : s.gen = g => s = r
    BY <1>3, <1>8, <1>14
  <2> QED BY <1>7, <1>11, <1>12, <2>1, <2>2 DEF InForce
<1>17. Waiting'
  <2>1. Talk(x, <<>>, owner, g) /\ Given(x, <<>>) = {}
    BY <1>2, <1>12, TalkNone
  <2> QED BY <1>11, <2>1 DEF Waiting
<1>18. Listed'
  <2>1. SoundList(x, owner, g)
    BY <1>2
  <2>2. \A o \in Owners : SoundList(store[o], o, g) /\ Len(store[o]) <= MaxStored
    <3>1. ASSUME NEW o \in Owners PROVE SoundList(store[o], o, g) /\ Len(store[o]) <= MaxStored
      <4>1. store[o] \in Seq(Message) /\ SoundList(store[o], o, gen) /\ Len(store[o]) <= MaxStored
        BY <1>1 DEF TypeOK, Listed
      <4> QED BY <1>3, <4>1, SoundLater
    <3> QED BY <3>1
  <2> QED BY <1>11, <2>1, <2>2 DEF Listed
<1>19. Settling' /\ Saved'
  BY <1>11 DEF Settling, Saved
<1> QED BY <1>13, <1>15, <1>16, <1>17, <1>18, <1>19 DEF PlayInv

\* What the handlers of a click start from.
LEMMA ClickFacts ==
    ASSUME PlayInv
    PROVE  /\ owner \in Owners /\ gen \in Nat /\ msgs \in Seq(Message) /\ SoundList(msgs, owner, gen)
           /\ editing \in Keys \cup {None} /\ tweaks \in 0..MaxTweaks
           /\ \A ms : Submit(ms) => gen + 1 \in Gens
           /\ msgs # <<>> => loaded
           /\ shown => Answering(msgs, gen) /\ \A c \in ToSet(Last(msgs).text) : c \in Given(msgs, queue)
<1>1. /\ owner \in Owners /\ gen \in Nat /\ msgs \in Seq(Message) /\ SoundList(msgs, owner, gen)
      /\ editing \in Keys \cup {None} /\ tweaks \in 0..MaxTweaks /\ (msgs # <<>> => loaded)
  BY DEF PlayInv, TypeOK, Listed, Saved
<1>2. ASSUME NEW ms, Submit(ms) PROVE gen + 1 \in Gens
  BY <1>2, GenNext DEF Submit, Start
<1>3. shown => Answering(msgs, gen) /\ \A c \in ToSet(Last(msgs).text) : c \in Given(msgs, queue)
  BY DEF PlayInv, Waiting, Talk, Given
<1> QED BY <1>1, <1>2, <1>3

LEMMA SendMessageInv == ASSUME PlayInv, SendMessage PROVE PlayInv'
<1>1. PICK x : x = msgs \o <<User(gen + 1), Loading(gen + 1)>>
  OBVIOUS
<1>2. Submit(x) /\ loaded /\ editing' = editing
  BY <1>1 DEF SendMessage
<1>3. gen + 1 \in Gens
  BY <1>2, ClickFacts
<1>4. x \in Seq(Message) /\ Answering(x, gen + 1) /\ SoundList(x, owner, gen + 1) /\ Last(x).text = <<>>
  BY <1>1, <1>3, ClickFacts, Asked
<1> QED BY <1>2, <1>4, ClickFacts, SubmitStep

LEMMA RegenerateMessageInv == ASSUME PlayInv, RegenerateMessage PROVE PlayInv'
<1>1. PICK i \in DOMAIN msgs :
          Submit(SubSeq(msgs, 1, IF msgs[i].from = "user" THEN i ELSE i - 1) \o <<Loading(gen + 1)>>)
  BY DEF RegenerateMessage
<1>2. PICK k : k = IF msgs[i].from = "user" THEN i ELSE i - 1
  OBVIOUS
<1>3. k \in 0..Len(msgs)
  BY <1>1, <1>2, ClickFacts
<1>4. PICK x : x = SubSeq(msgs, 1, k) \o <<Loading(gen + 1)>>
  OBVIOUS
<1>5. Submit(x) /\ loaded /\ editing' = editing
  BY <1>1, <1>2, <1>4 DEF RegenerateMessage
<1>6. gen + 1 \in Gens
  BY <1>5, ClickFacts
<1>7. x \in Seq(Message) /\ Answering(x, gen + 1) /\ SoundList(x, owner, gen + 1) /\ Last(x).text = <<>>
  BY <1>3, <1>4, <1>6, ClickFacts, Again
<1> QED BY <1>5, <1>7, ClickFacts, SubmitStep

LEMMA SaveEditInv == ASSUME PlayInv, SaveEdit PROVE PlayInv'
<1>1. PICK i \in DOMAIN msgs :
        /\ editing' = None
        /\ LET edited == [msgs EXCEPT ![i] = Edited(@)] IN
             \/ Click(<<SetTo(edited)>>) /\ UNCHANGED tweaks
             \/ /\ msgs[i].from = "user"
                /\ Submit(SubSeq(edited, 1, i) \o <<Loading(gen + 1)>>)
  BY DEF SaveEdit
<1>2. PICK x : x = [msgs EXCEPT ![i] = Edited(msgs[i])]
  OBVIOUS
<1>3. msgs # <<>> /\ loaded
  BY <1>1, ClickFacts
<1>4. /\ x \in Seq(Message) /\ Len(x) = Len(msgs) /\ SoundList(x, owner, gen)
      /\ Answering(msgs, gen) => Answering(x, gen)
      /\ \A c \in ToSet(Last(x).text) : c \in ToSet(Last(msgs).text) \/ c.n = 0
  <2>1. gen \in Nat /\ msgs \in Seq(Message) /\ SoundList(msgs, owner, gen) /\ i \in DOMAIN msgs
    BY <1>1, ClickFacts
  <2>2. x = EditedAt(msgs, i)
    BY <1>2 DEF EditedAt
  <2> QED BY <2>1, <2>2, EditedList
<1>5. \/ Click(<<SetTo(x)>>) /\ UNCHANGED tweaks
      \/ Submit(SubSeq(x, 1, i) \o <<Loading(gen + 1)>>)
  BY <1>1, <1>2
<1>6. CASE Click(<<SetTo(x)>>) /\ UNCHANGED tweaks
  <2>1. shown => /\ Answering(x, gen)
                 /\ \A c \in ToSet(Last(x).text) : c \in Given(msgs, queue) \/ c.n = 0
    BY <1>4, ClickFacts
  <2> QED BY <1>1, <1>3, <1>4, <1>6, <2>1, ClickFacts, SetStep
<1>7. CASE Submit(SubSeq(x, 1, i) \o <<Loading(gen + 1)>>)
  <2>1. i \in 0..Len(x)
    BY <1>1, <1>4, ClickFacts
  <2>2. PICK y : y = SubSeq(x, 1, i) \o <<Loading(gen + 1)>>
    OBVIOUS
  <2>3. gen + 1 \in Gens /\ Submit(y)
    BY <1>7, <2>2, ClickFacts
  <2>4. y \in Seq(Message) /\ Answering(y, gen + 1) /\ SoundList(y, owner, gen + 1) /\ Last(y).text = <<>>
    BY <1>4, <2>1, <2>2, <2>3, ClickFacts, Again
  <2> QED BY <1>1, <1>3, <2>3, <2>4, SubmitStep
<1> QED BY <1>5, <1>6, <1>7

(* Flushes and last words. *)

\* The buffered text may be flushed.
LEMMA FlushTalk ==
    ASSUME PlayInv, shown, NEW us, us = FlushOf
    PROVE  /\ us \in Seq(Updater) /\ Talk(msgs, us, owner, gen)
           /\ Given(msgs, us) \subseteq Given(msgs, queue) \cup ToSet(pending.text)
           /\ \A i \in DOMAIN us : /\ us[i].do = "flush" /\ us[i].do \notin Final
                                   /\ Left(us[i]) = pending.text
                                   /\ \A c \in Given(msgs, queue), d \in ToSet(us[i].text) : c.n < d.n
<1>1. /\ gen \in Nat /\ msgs \in Seq(Message) /\ Talk(msgs, queue, owner, gen)
      /\ pending.text \in Seq(Chunk) /\ Streamed(pending.text, gen)
      /\ \A c \in Given(msgs, queue), d \in ToSet(pending.text) : c.n < d.n
  BY DEF PlayInv, TypeOK, Waiting, InForce
<1>2. Answering(msgs, gen) /\ SoundList(msgs, owner, gen)
  BY <1>1 DEF Talk
<1>3. ToSet(Last(msgs).text) \subseteq Given(msgs, queue)
  BY DEF Given
<1>4. CASE us = <<>>
  BY <1>2, <1>3, <1>4, TalkNone
<1>5. CASE us # <<>>
  <2>1. pending.gen = gen /\ pending.text # <<>>
    BY <1>5 DEF FlushOf
  <2>2. gen \in Gens
    <3>1. \E r \in reqs : r.gen = gen
      BY <2>1 DEF PlayInv, InForce
    <3>2. \A r \in reqs : r.gen \in Gens
      BY DEF PlayInv, TypeOK, Request
    <3> QED BY <3>1, <3>2
  <2>3. PICK u : u = Update("flush", gen, pending.text)
    OBVIOUS
  <2>4. u \in Updater /\ u.do = "flush" /\ u.gen = gen /\ u.text = pending.text
    BY <1>1, <2>2, <2>3 DEF Update, Updater
  <2>5. us = <<u>>
    BY <2>1, <2>3 DEF FlushOf
  <2>6. DOMAIN us = {1} /\ us[1] = u /\ us \in Seq(Updater) /\ Len(us) = 1
    BY <2>4, <2>5
  <2>7. u.do \notin Final /\ Left(u) = pending.text
    BY <2>4 DEF Final, Left
  <2>8. Legal(u, msgs, owner, gen)
    BY <1>1, <2>4 DEF Legal
  <2>9. Before(Last(msgs).text, u.text)
    BY <1>1, <1>3, <2>4 DEF Before
  <2>10. Talk(msgs, us, owner, gen)
    BY <1>2, <2>6, <2>7, <2>8, <2>9 DEF Talk
  <2>11. Given(msgs, us) \subseteq Given(msgs, queue) \cup ToSet(pending.text)
    BY <1>3, <2>6, <2>7 DEF Given
  <2> QED BY <1>1, <2>4, <2>6, <2>7, <2>10, <2>11
<1> QED BY <1>4, <1>5

\* What queueing the updaters us does.
LEMMA QueueStep ==
    ASSUME PlayInv, shown, NEW us \in Seq(Updater), us # <<>>, Queue(us),
           Talk(msgs, us, owner, gen), \A i \in DOMAIN queue : queue[i].do \notin Final,
           \A j \in DOMAIN us : us[j].do = "flush" =>
               \A c \in Given(msgs, queue), d \in ToSet(us[j].text) : c.n < d.n
    PROVE  /\ msgs' = msgs /\ queue' \in Seq(Updater) /\ queue' # <<>>
           /\ latest' \in Seq(Message) /\ SoundList(latest', owner, gen) /\ saveTimer' \in BOOLEAN
           /\ Talk(msgs, queue', owner, gen)
           /\ Given(msgs, queue') \subseteq Given(msgs, queue) \cup Given(msgs, us)
           /\ Last(us).do \in Final => LastWord(queue')
           /\ \A i \in DOMAIN queue' : queue'[i].do \in Final => Last(us).do \in Final
<1>1. /\ gen \in Nat /\ msgs \in Seq(Message) /\ queue \in Seq(Updater) /\ latest \in Seq(Message)
      /\ SoundList(latest, owner, gen) /\ Talk(msgs, queue, owner, gen)
      /\ saveTimer \in BOOLEAN /\ loaded \in BOOLEAN
  BY DEF PlayInv, TypeOK, Waiting, Listed
<1>2. CASE queue' = queue \o us /\ UNCHANGED <<msgs, latest, saveTimer>>
  <2>1. PICK w : w = queue \o us
    OBVIOUS
  <2>2. /\ w \in Seq(Updater) /\ w # <<>> /\ Talk(msgs, w, owner, gen)
        /\ Given(msgs, w) \subseteq Given(msgs, queue) \cup Given(msgs, us)
        /\ Last(us).do \in Final => LastWord(w)
        /\ \A i \in DOMAIN w : w[i].do \in Final => Last(us).do \in Final
    BY <1>1, <2>1, QueueTalk
  <2> QED BY <1>1, <1>2, <2>1, <2>2
<1>3. CASE /\ queue = <<>>
           /\ LET ms == RunOne(Head(us), msgs, gen) IN
                /\ Persist(ms)
                /\ queue' = <<SetTo(ms)>> \o Tail(us)
           /\ UNCHANGED msgs
  <2>1. PICK x : x = RunOne(Head(us), msgs, gen)
    OBVIOUS
  <2>2. PICK w : w = <<SetTo(x)>> \o Tail(us)
    OBVIOUS
  <2>3. /\ x \in Seq(Message) /\ SoundList(x, owner, gen)
        /\ w \in Seq(Updater) /\ w # <<>> /\ Talk(msgs, w, owner, gen)
        /\ Given(msgs, w) \subseteq Given(msgs, us)
        /\ Last(us).do \in Final => LastWord(w)
        /\ \A i \in DOMAIN w : w[i].do \in Final => Last(us).do \in Final
    BY <1>1, <2>1, <2>2, SpotTalk
  <2>4. queue' = w /\ latest' = x /\ saveTimer' = (saveTimer \/ loaded) /\ msgs' = msgs
    BY <1>3, <2>1, <2>2 DEF Persist
  <2> QED BY <1>1, <2>3, <2>4
<1> QED BY <1>2, <1>3 DEF Queue

\* The last word on the answer of the generation in force.
LEMMA EndTalk ==
    ASSUME PlayInv, shown, NEW u \in Updater, Legal(u, msgs, owner, gen), u.do \in Final,
           NEW us, us = FlushOf \o <<u>>
    PROVE  /\ us \in Seq(Updater) /\ us # <<>> /\ Talk(msgs, us, owner, gen) /\ Last(us) = u
           /\ \A j \in DOMAIN us : us[j].do = "flush" =>
                \A c \in Given(msgs, queue), d \in ToSet(us[j].text) : c.n < d.n
<1>1. PICK f : f = FlushOf
  OBVIOUS
<1>2. /\ f \in Seq(Updater) /\ Talk(msgs, f, owner, gen)
      /\ \A i \in DOMAIN f : /\ f[i].do \notin Final
                             /\ \A c \in Given(msgs, queue), d \in ToSet(f[i].text) : c.n < d.n
  BY <1>1, FlushTalk
<1>3. PICK v : v = <<u>>
  OBVIOUS
<1>4. v \in Seq(Updater) /\ v # <<>> /\ DOMAIN v = {1} /\ v[1] = u /\ Len(v) = 1
  BY <1>3
<1>5. u.do # "flush"
  BY DEF Final
<1>6. Talk(msgs, v, owner, gen)
  BY <1>2, <1>4, <1>5 DEF Talk
<1>7. gen \in Nat
  BY DEF PlayInv, TypeOK
<1>8. us = f \o v
  BY <1>1, <1>3
<1>9. us \in Seq(Updater) /\ us # <<>> /\ Talk(msgs, us, owner, gen)
  <2>1. \A j \in DOMAIN v : v[j].do = "flush" =>
            \A c \in Given(msgs, f), d \in ToSet(v[j].text) : c.n < d.n
    BY <1>4, <1>5
  <2>2. \A i \in DOMAIN f : f[i].do \notin Final
    BY <1>2
  <2>3. f \o v \in Seq(Updater) /\ f \o v # <<>> /\ Talk(msgs, f \o v, owner, gen)
    BY <1>2, <1>4, <1>6, <1>7, <2>1, <2>2, QueueTalk
  <2> QED BY <1>8, <2>3
<1>10. Last(us) = u
  BY <1>2, <1>4, <1>8 DEF Last
<1>11. ASSUME NEW j \in DOMAIN us, us[j].do = "flush"
       PROVE  \A c \in Given(msgs, queue), d \in ToSet(us[j].text) : c.n < d.n
  <2>1. j \in DOMAIN f /\ us[j] = f[j]
    <3>1. Len(us) = Len(f) + 1 /\ us[Len(f) + 1] = u /\ Len(f) \in Nat
      <4>1. us = f \o <<u>> /\ f \in Seq(Updater)
        BY <1>2, <1>3, <1>8
      <4> QED BY <4>1
    <3>2. j # Len(f) + 1
      BY <1>5, <1>11, <3>1
    <3>3. j \in 1..Len(f)
      BY <1>9, <1>11, <3>1, <3>2
    <3> QED BY <1>2, <1>4, <1>8, <3>3
  <2> QED BY <1>2, <2>1
<1> QED BY <1>9, <1>10, <1>11

\* The request in force ends.
LEMMA EndStep ==
    ASSUME PlayInv, NEW r \in reqs, r.gen = gen, Ended(r),
           NEW u \in Updater, Legal(u, msgs, owner, gen), u.do \in Final, Queue(FlushOf \o <<u>>),
           pending' = NoChunks(pending.gen), flushTimer' \in {0, flushTimer}, requesting' = FALSE,
           streaming' \in {FALSE, streaming}, source' \in {0, source},
           UNCHANGED <<owner, loaded, store, gen, sgen, shown, editing, sends, tweaks, moves>>
    PROVE  PlayInv'
<1>1. TypeOK /\ Counted /\ InForce /\ Waiting /\ Listed /\ Settling /\ Saved
  BY DEF PlayInv
<1>2. shown /\ requesting
  BY <1>1 DEF InForce
<1>3. loaded
  BY <1>1, <1>2 DEF Saved
<1>4. PICK us : us = FlushOf \o <<u>>
  OBVIOUS
<1>5. /\ us \in Seq(Updater) /\ us # <<>> /\ Talk(msgs, us, owner, gen) /\ Last(us) = u
      /\ \A j \in DOMAIN us : us[j].do = "flush" =>
           \A c \in Given(msgs, queue), d \in ToSet(us[j].text) : c.n < d.n
  BY <1>2, <1>4, EndTalk
<1>6. \A i \in DOMAIN queue : queue[i].do \notin Final
  BY <1>1, <1>2 DEF Waiting
<1>7. /\ msgs' = msgs /\ queue' \in Seq(Updater) /\ queue' # <<>>
      /\ latest' \in Seq(Message) /\ SoundList(latest', owner, gen) /\ saveTimer' \in BOOLEAN
      /\ Talk(msgs, queue', owner, gen) /\ LastWord(queue')
  BY <1>2, <1>4, <1>5, <1>6, QueueStep
<1>8. /\ pending'.text = <<>> /\ ToSet(<<>>) = {}
      /\ pending' \in [gen : {0, gen}, text : Seq(Chunk)]
  <2>1. pending.gen \in {0, gen} /\ <<>> \in Seq(Chunk)
    BY <1>1 DEF TypeOK
  <2> QED BY <2>1 DEF NoChunks, ToSet
<1>9. reqs' \subseteq reqs /\ \A s \in reqs' : s.gen # gen
  BY <1>1 DEF Ended, Counted
<1>10. TypeOK'
  <2>1. /\ streaming' \in BOOLEAN /\ flushTimer' \in {0, gen} /\ source' \in {0, gen}
        /\ reqs' \subseteq Request
    BY <1>1, <1>9 DEF TypeOK
  <2> QED BY <1>1, <1>7, <1>8, <2>1 DEF TypeOK
<1>11. Counted'
  BY <1>1, <1>9 DEF Counted
<1>12. InForce'
  <2>1. Streamed(<<>>, gen)
    BY DEF Streamed, Ascending, ToSet
  <2> QED BY <1>2, <1>8, <1>9, <2>1 DEF InForce
<1>13. Waiting'
  BY <1>2, <1>7, <1>8, <1>9 DEF Waiting
<1>14. Listed'
  BY <1>1, <1>7 DEF Listed
<1>15. Settling'
  BY <1>7 DEF Settling
<1>16. Saved'
  BY <1>3, <1>7 DEF Saved
<1> QED BY <1>10, <1>11, <1>12, <1>13, <1>14, <1>15, <1>16 DEF PlayInv

\* A request that is no longer in force ends.
LEMMA SupersededStep ==
    ASSUME PlayInv, NEW r \in reqs, r.gen # gen, Ended(r),
           UNCHANGED <<owner, loaded, msgs, latest, queue, saveTimer, store, gen, pending, flushTimer,
                       requesting, streaming, shown, sgen, source, editing, sends, tweaks, moves>>
    PROVE  PlayInv'
<1>1. TypeOK /\ Counted /\ InForce /\ Waiting /\ Listed /\ Settling /\ Saved
  BY DEF PlayInv
<1>2. reqs' \subseteq reqs /\ \A s \in reqs : s.gen = gen => s \in reqs'
  BY DEF Ended
<1>3. TypeOK' /\ Counted'
  BY <1>1, <1>2 DEF TypeOK, Counted
<1>4. InForce'
  BY <1>1, <1>2 DEF InForce
<1>5. Waiting'
  BY <1>1, <1>2 DEF Waiting
<1>6. Listed' /\ Settling' /\ Saved'
  BY <1>1 DEF Listed, Settling, Saved
<1> QED BY <1>3, <1>4, <1>5, <1>6 DEF PlayInv

\* The last word of a stream or of a failed call.
LEMMA FinalWord ==
    ASSUME PlayInv, NEW r \in reqs, r.gen = gen, NEW do \in {"complete", "error"}
    PROVE  /\ Update(do, gen, <<>>) \in Updater /\ Update(do, gen, <<>>).do \in Final
           /\ Legal(Update(do, gen, <<>>), msgs, owner, gen)
<1>1. gen \in Gens
  BY DEF PlayInv, TypeOK, Request
<1>2. PICK u : u = Update(do, gen, <<>>)
  OBVIOUS
<1>3. <<>> \in Seq(Chunk)
  OBVIOUS
<1>4. u \in Updater /\ u.do = do /\ u.gen = gen
  BY <1>1, <1>2, <1>3 DEF Update, Updater
<1>5. do \notin {"remove", "set", "flush", "answer"} /\ do \in Final
  BY DEF Final
<1> QED BY <1>2, <1>4, <1>5 DEF Legal

(* Events of the wire. *)

\* A request of the generation in force is of the controller's in force.
LEMMA ReqFacts ==
    ASSUME PlayInv, NEW r \in reqs
    PROVE  /\ r \in Request /\ r.sgen = r.gen /\ sgen = gen
           /\ r.gen = gen => requesting /\ shown
           /\ r.gen = gen /\ r.at = "open" => Accepts(r)
           /\ r.gen = gen /\ r.at \notin {"open", "closed"} => pending.text = <<>>
<1>1. r \in Request /\ r.sgen = r.gen /\ sgen = gen
  BY DEF PlayInv, TypeOK, Counted
<1>2. r.gen = gen => requesting /\ shown /\ (r.at \in {"open", "closed"} => source = gen)
  BY DEF PlayInv, InForce
<1>3. r.gen = gen /\ r.at = "open" => Accepts(r)
  BY <1>1, <1>2 DEF Accepts
<1>4. ASSUME r.gen = gen, r.at \notin {"open", "closed"}, pending.text # <<>> PROVE FALSE
  <2>1. PICK s \in reqs : s.gen = gen /\ s.at \in {"open", "closed"}
    BY <1>4 DEF PlayInv, InForce
  <2>2. s = r
    BY <1>4, <2>1 DEF PlayInv, Counted
  <2> QED BY <1>4, <2>1, <2>2
<1> QED BY <1>1, <1>2, <1>3, <1>4

LEMMA HeadersFailedInv == ASSUME PlayInv, NEW r \in reqs, HeadersFailed(r) PROVE PlayInv'
<1>1. r.sgen = r.gen /\ sgen = gen
  BY ReqFacts
<1>2. Ended(r) /\ UNCHANGED <<owner, loaded, store, gen, sgen, source, streaming, shown, editing,
                              sends, tweaks, moves>>
  BY DEF HeadersFailed, bounds
<1>3. CASE r.gen = gen
  <2>1. Finish("error")
    BY <1>1, <1>3 DEF HeadersFailed
  <2>2. PICK u : u = Update("error", gen, <<>>)
    OBVIOUS
  <2>3. u \in Updater /\ u.do \in Final /\ Legal(u, msgs, owner, gen)
    BY <1>3, <2>2, FinalWord
  <2>4. Queue(FlushOf \o <<u>>) /\ pending' = NoChunks(pending.gen) /\ flushTimer' = 0 /\ requesting' = FALSE
    BY <2>1, <2>2 DEF Finish
  <2> QED BY <1>2, <1>3, <2>3, <2>4, EndStep
<1>4. CASE r.gen # gen
  <2>1. UNCHANGED <<msgs, latest, queue, saveTimer, pending, flushTimer, requesting>>
    BY <1>4 DEF HeadersFailed, chat
  <2> QED BY <1>2, <1>4, <2>1, SupersededStep
<1> QED BY <1>3, <1>4

LEMMA StreamEndInv == ASSUME PlayInv, NEW r \in reqs, StreamEnd(r) PROVE PlayInv'
<1>1. r.at = "open" /\ Ended(r) /\ UNCHANGED <<owner, loaded, store, gen, sgen, shown, editing,
                                               sends, tweaks, moves>>
  BY DEF StreamEnd, bounds
<1>2. CASE r.gen = gen
  <2>1. Accepts(r)
    BY <1>1, <1>2, ReqFacts
  <2>2. PICK do \in {"complete", "error"} : Finish(do)
    BY <2>1 DEF StreamEnd
  <2>3. source' = 0 /\ streaming' = FALSE
    BY <2>1 DEF StreamEnd
  <2>4. PICK u : u = Update(do, gen, <<>>)
    OBVIOUS
  <2>5. u \in Updater /\ u.do \in Final /\ Legal(u, msgs, owner, gen)
    BY <1>2, <2>4, FinalWord
  <2>6. Queue(FlushOf \o <<u>>) /\ pending' = NoChunks(pending.gen) /\ flushTimer' = 0 /\ requesting' = FALSE
    BY <2>2, <2>4 DEF Finish
  <2> QED BY <1>1, <1>2, <2>3, <2>5, <2>6, EndStep
<1>3. CASE r.gen # gen
  <2>1. UNCHANGED <<msgs, latest, queue, saveTimer, pending, flushTimer, requesting, source, streaming>>
    BY <1>3 DEF StreamEnd, Accepts, chat
  <2> QED BY <1>1, <1>3, <2>1, SupersededStep
<1> QED BY <1>2, <1>3

LEMMA CallEndInv == ASSUME PlayInv, NEW r \in reqs, CallEnd(r) PROVE PlayInv'
<1>1. r.at = "call" /\ Ended(r) /\ UNCHANGED <<owner, loaded, store, gen, sgen, source, streaming, shown,
                                               editing, sends, tweaks, moves>>
  BY DEF CallEnd, bounds
<1>2. CASE r.gen = gen
  <2>1. pending.text = <<>>
    BY <1>1, <1>2, ReqFacts
  <2>2. CASE Finish("error")
    <3>1. PICK u : u = Update("error", gen, <<>>)
      OBVIOUS
    <3>2. u \in Updater /\ u.do \in Final /\ Legal(u, msgs, owner, gen)
      BY <1>2, <3>1, FinalWord
    <3>3. Queue(FlushOf \o <<u>>) /\ pending' = NoChunks(pending.gen) /\ flushTimer' = 0 /\ requesting' = FALSE
      BY <2>2, <3>1 DEF Finish
    <3> QED BY <1>1, <1>2, <3>2, <3>3, EndStep
  <2>3. CASE /\ Queue(<<Update("answer", gen, <<[gen |-> gen, n |-> 1]>>)>>)
             /\ requesting' = FALSE
             /\ UNCHANGED <<pending, flushTimer>>
    <3>1. PICK t : t = <<[gen |-> gen, n |-> 1]>>
      OBVIOUS
    <3>2. gen \in Gens
      BY <1>2, ReqFacts DEF Request
    <3>3. t \in Seq(Chunk)
      <4>1. [gen |-> gen, n |-> 1] \in Chunk
        BY <3>2, PlaygroundAssumption DEF Chunk
      <4> QED BY <3>1, <4>1
    <3>4. PICK u : u = Update("answer", gen, t)
      OBVIOUS
    <3>5. u \in Updater /\ u.do = "answer" /\ u.gen = gen /\ u.text = t
      BY <3>2, <3>3, <3>4 DEF Update, Updater
    <3>6. u.do \in Final /\ Legal(u, msgs, owner, gen)
      BY <3>1, <3>5 DEF Final, Legal
    <3>7. FlushOf \o <<u>> = <<u>>
      <4>1. FlushOf = <<>>
        BY <2>1 DEF FlushOf
      <4> QED BY <3>5, <4>1
    <3>8. Queue(FlushOf \o <<u>>)
      BY <2>3, <3>1, <3>4, <3>7
    <3>9. pending' = NoChunks(pending.gen)
      BY <2>1, <2>3 DEF NoChunks, PlayInv, TypeOK
    <3> QED BY <1>1, <1>2, <2>3, <3>5, <3>6, <3>8, <3>9, EndStep
  <2> QED BY <1>2, <2>2, <2>3 DEF CallEnd
<1>3. CASE r.gen # gen
  <2>1. UNCHANGED <<msgs, latest, queue, saveTimer, pending, flushTimer, requesting>>
    BY <1>3 DEF CallEnd, chat
  <2> QED BY <1>1, <1>3, <2>1, SupersededStep
<1> QED BY <1>2, <1>3

\* A request changes, and keeps its generation and its place.
LEMMA ChangedReqs ==
    ASSUME PlayInv, NEW r \in reqs, NEW s \in Request, s.gen = r.gen, s.sgen = r.sgen, Becomes(r, s)
    PROVE  /\ reqs' \subseteq Request
           /\ \A t \in reqs' : t.sgen = t.gen /\ t.gen <= gen
           /\ \A t, v \in reqs' : t.gen = v.gen => t = v
           /\ \A t \in reqs' : t = s \/ (t \in reqs /\ t # r /\ t.gen # s.gen)
           /\ s \in reqs' /\ \A t \in reqs : t # r => t \in reqs'
<1>1. /\ reqs \subseteq Request /\ \A t \in reqs : t.sgen = t.gen /\ t.gen <= gen
      /\ \A t, v \in reqs : t.gen = v.gen => t = v
  BY DEF PlayInv, TypeOK, Counted
<1>2. reqs' = (reqs \ {r}) \cup {s}
  BY DEF Becomes
<1>3. \A t \in reqs' : t = s \/ (t \in reqs /\ t # r /\ t.gen # s.gen)
  BY <1>1, <1>2
<1> QED BY <1>1, <1>2, <1>3

LEMMA HeadersReadyInv == ASSUME PlayInv, NEW r \in reqs, HeadersReady(r) PROVE PlayInv'
<1>1. r \in Request /\ r.sgen = r.gen /\ sgen = gen
  BY ReqFacts
<1>2. r.at = "headers" /\ UNCHANGED <<owner, loaded, msgs, latest, queue, saveTimer, store, gen, pending,
                                      flushTimer, requesting, shown, sgen, editing, sends, tweaks, moves>>
  BY DEF HeadersReady, chat, bounds
<1>3. CASE r.gen = gen
  <2>1. PICK s : s = [r EXCEPT !.at = "open"]
    OBVIOUS
  <2>2. s \in Request /\ s.gen = r.gen /\ s.sgen = r.sgen /\ s.sent = r.sent /\ s.at = "open"
    BY <1>1, <2>1 DEF Request
  <2>3. Becomes(r, s) /\ source' = gen /\ streaming' = TRUE
    BY <1>1, <1>3, <2>1 DEF HeadersReady
  <2>4. /\ reqs' \subseteq Request
        /\ \A t \in reqs' : t.sgen = t.gen /\ t.gen <= gen
        /\ \A t, v \in reqs' : t.gen = v.gen => t = v
        /\ \A t \in reqs' : t.gen = gen => t = s
    BY <1>3, <2>2, <2>3, ChangedReqs
  <2>5. TypeOK /\ Counted /\ InForce /\ Waiting /\ Listed /\ Settling /\ Saved
    BY DEF PlayInv
  <2>6. requesting /\ shown /\ pending.text = <<>>
    BY <1>2, <1>3, ReqFacts
  <2>7. TypeOK' /\ Counted'
    BY <1>2, <2>3, <2>4, <2>5 DEF TypeOK, Counted
  <2>8. InForce'
    BY <1>2, <2>3, <2>4, <2>5, <2>6 DEF InForce
  <2>9. Waiting'
    <3>1. \A c \in Given(msgs, queue) : c.n <= r.sent
      BY <1>3, <2>5, <2>6 DEF Waiting
    <3>2. \A c \in Given(msgs, queue) : \A t \in reqs' : t.gen = gen => c.n <= t.sent
      BY <2>2, <2>4, <3>1
    <3> QED BY <1>2, <2>5, <3>2 DEF Waiting
  <2>10. Listed' /\ Settling' /\ Saved'
    BY <1>2, <2>3, <2>5 DEF Listed, Settling, Saved
  <2> QED BY <2>7, <2>8, <2>9, <2>10 DEF PlayInv
<1>4. CASE r.gen # gen
  <2>1. Ended(r) /\ UNCHANGED <<source, streaming>>
    BY <1>1, <1>4 DEF HeadersReady
  <2> QED BY <1>2, <1>4, <2>1, SupersededStep
<1> QED BY <1>3, <1>4

LEMMA StreamClosesInv == ASSUME PlayInv, NEW r \in reqs, StreamCloses(r) PROVE PlayInv'
<1>1. r \in Request /\ r.at = "open"
  BY ReqFacts DEF StreamCloses
<1>2. PICK s : s = [r EXCEPT !.at = "closed"]
  OBVIOUS
<1>3. s \in Request /\ s.gen = r.gen /\ s.sgen = r.sgen /\ s.sent = r.sent /\ s.at = "closed"
  BY <1>1, <1>2 DEF Request
<1>4. Becomes(r, s) /\ UNCHANGED <<owner, loaded, msgs, latest, queue, saveTimer, store, gen, pending,
                                   flushTimer, sgen, source, requesting, streaming, shown, editing,
                                   sends, tweaks, moves>>
  BY <1>2 DEF StreamCloses, chat, flags, bounds
<1>5. /\ reqs' \subseteq Request
      /\ \A t \in reqs' : t.sgen = t.gen /\ t.gen <= gen
      /\ \A t, v \in reqs' : t.gen = v.gen => t = v
      /\ \A t \in reqs' : t = s \/ t \in reqs
      /\ s \in reqs' /\ \A t \in reqs : t # r => t \in reqs'
  BY <1>3, <1>4, ChangedReqs
<1>6. TypeOK /\ Counted /\ InForce /\ Waiting /\ Listed /\ Settling /\ Saved
  BY DEF PlayInv
<1>7. TypeOK' /\ Counted'
  BY <1>4, <1>5, <1>6 DEF TypeOK, Counted
<1>8. InForce'
  <2>1. \A t \in reqs' : t.gen = gen =>
          requesting /\ shown /\ (t.at \in {"open", "closed"} => source = gen)
    BY <1>1, <1>3, <1>5, <1>6 DEF InForce
  <2>2. pending.text # <<>> =>
         \E t \in reqs' : /\ t.gen = gen /\ pending.gen = gen /\ t.at \in {"open", "closed"}
                          /\ \A c \in ToSet(pending.text) : c.n <= t.sent
    <3>1. SUFFICES ASSUME pending.text # <<>>
                   PROVE  \E t \in reqs' : /\ t.gen = gen /\ pending.gen = gen /\ t.at \in {"open", "closed"}
                                           /\ \A c \in ToSet(pending.text) : c.n <= t.sent
      OBVIOUS
    <3>2. PICK t \in reqs : /\ t.gen = gen /\ pending.gen = gen /\ t.at \in {"open", "closed"}
                            /\ \A c \in ToSet(pending.text) : c.n <= t.sent
      BY <1>6, <3>1 DEF InForce
    <3>3. CASE t = r
      BY <1>3, <1>5, <3>2, <3>3
    <3>4. CASE t # r
      BY <1>5, <3>2, <3>4
    <3> QED BY <3>3, <3>4
  <2> QED BY <1>4, <1>6, <2>1, <2>2 DEF InForce
<1>9. Waiting'
  <2>1. ASSUME shown, NEW c \in Given(msgs, queue), NEW t \in reqs', t.gen = gen PROVE c.n <= t.sent
    BY <1>3, <1>5, <1>6, <2>1 DEF Waiting
  <2> QED BY <1>4, <1>6, <2>1 DEF Waiting
<1>10. Listed' /\ Settling' /\ Saved'
  BY <1>4, <1>6 DEF Listed, Settling, Saved
<1> QED BY <1>7, <1>8, <1>9, <1>10 DEF PlayInv

\* A step that changes nothing.
LEMMA StutterInv == ASSUME PlayInv, UNCHANGED vars PROVE PlayInv'
<1>1. UNCHANGED <<owner, loaded, msgs, latest, queue, saveTimer, store, gen, pending,
                  flushTimer, sgen, source, reqs, requesting, streaming, shown, editing,
                  sends, tweaks, moves>>
  BY DEF vars, chat, request, flags, bounds
<1> QED BY <1>1 DEF PlayInv, TypeOK, Counted, InForce, Waiting, Listed, Settling, Saved

\* One chunk more.
LEMMA StreamedMore ==
    ASSUME NEW g, NEW s \in Seq(Chunk), Streamed(s, g), NEW k \in Nat, \A c \in ToSet(s) : c.n <= k,
           NEW d \in Chunk, d.gen = g, d.n = k + 1
    PROVE  /\ Append(s, d) \in Seq(Chunk) /\ Streamed(Append(s, d), g)
           /\ ToSet(Append(s, d)) = ToSet(s) \cup {d}
<1>1. Append(s, d) = s \o <<d>> /\ <<d>> \in Seq(Chunk) /\ Append(s, d) \in Seq(Chunk)
  OBVIOUS
<1>2. Ascending(<<d>>) /\ ToSet(<<d>>) = {d}
  BY DEF Ascending, ToSet
<1>3. \A c \in Chunk : c.n \in Nat
  BY PlaygroundAssumption DEF Chunk
<1>4. ToSet(s) \subseteq Chunk
  BY DEF ToSet
<1>5. Before(s, <<d>>)
  BY <1>2, <1>3, <1>4 DEF Before
<1>6. Ascending(s \o <<d>>)
  BY <1>1, <1>2, <1>5, AscendingCat DEF Streamed
<1>7. ToSet(s \o <<d>>) = ToSet(s) \cup {d}
  <2>1. PICK v : v = <<d>>
    OBVIOUS
  <2>2. v \in Seq(Chunk) /\ ToSet(v) = {d}
    BY <1>1, <1>2, <2>1
  <2>3. ToSet(s \o v) = ToSet(s) \cup ToSet(v)
    BY <2>2, ToSetCat
  <2> QED BY <2>1, <2>2, <2>3, Zenon
<1>8. d.n > 0
  OBVIOUS
<1> QED BY <1>1, <1>6, <1>7, <1>8 DEF Streamed

\* All that is given for an answer is chunks.
LEMMA GivenType ==
    ASSUME TypeOK, shown, Waiting
    PROVE  Given(msgs, queue) \subseteq Chunk
<1>1. msgs \in Seq(Message) /\ queue \in Seq(Updater) /\ Talk(msgs, queue, owner, gen)
  BY DEF TypeOK, Waiting
<1>2. msgs # <<>>
  BY <1>1 DEF Talk, Answering
<1>3. Last(msgs).text \in Seq(Chunk)
  <2>1. Last(msgs) \in Message
    BY <1>1, <1>2, LastOf
  <2> QED BY <2>1 DEF Message
<1>4. ASSUME NEW i \in DOMAIN queue PROVE Left(queue[i]) \in Seq(Chunk)
  <2>1. queue[i] \in Updater /\ Legal(queue[i], msgs, owner, gen)
    BY <1>1 DEF Talk
  <2>2. CASE queue[i].do = "set"
    <3>1. queue[i].text \in Seq(Message) /\ queue[i].text # <<>>
      BY <2>1, <2>2 DEF Updater, Legal, Answering
    <3>2. Last(queue[i].text) \in Message
      BY <3>1, LastOf
    <3> QED BY <2>2, <3>2 DEF Left, Message
  <2>3. CASE queue[i].do # "set"
    <3>1. queue[i].do # "remove"
      BY <2>1 DEF Legal
    <3>2. queue[i].text \in Seq(Chunk)
      BY <2>1, <2>3, <3>1 DEF Updater
    <3> QED BY <2>3, <3>2 DEF Left
  <2> QED BY <2>2, <2>3
<1>5. \A s \in Seq(Chunk) : ToSet(s) \subseteq Chunk
  BY DEF ToSet
<1> QED BY <1>3, <1>4, <1>5 DEF Given

LEMMA StreamChunkInv == ASSUME PlayInv, NEW r \in reqs, StreamChunk(r) PROVE PlayInv'
<1>1. r \in Request /\ r.at = "open" /\ r.sent < MaxChunks
  BY ReqFacts DEF StreamChunk
<1>2. UNCHANGED <<owner, loaded, msgs, latest, queue, saveTimer, store, gen, sgen, source,
                  requesting, streaming, shown, editing, sends, tweaks, moves>>
  BY DEF StreamChunk, chat, flags, bounds
<1>3. CASE Accepts(r) /\ pending.gen = r.gen
  <2>1. PICK s : s = [r EXCEPT !.sent = r.sent + 1]
    OBVIOUS
  <2>2. PICK d : d = [gen |-> r.gen, n |-> r.sent + 1]
    OBVIOUS
  <2>3. /\ s \in Request /\ s.gen = r.gen /\ s.sgen = r.sgen /\ s.sent = r.sent + 1 /\ s.at = "open"
        /\ r.sent \in Nat /\ r.gen = gen
    BY <1>1, <1>3, <2>1, PlaygroundAssumption DEF Request, Accepts
  <2>4. d \in Chunk /\ d.gen = gen /\ d.n = r.sent + 1
    BY <1>1, <2>2, <2>3, PlaygroundAssumption DEF Chunk, Request
  <2>5. TypeOK /\ Counted /\ InForce /\ Waiting /\ Listed /\ Settling /\ Saved
    BY DEF PlayInv
  <2>6. PICK p : p = pending.text
    OBVIOUS
  <2>7. /\ Becomes(r, s) /\ pending' = [pending EXCEPT !.text = Append(p, d)]
        /\ flushTimer' = IF flushTimer = 0 THEN r.gen ELSE flushTimer
    BY <1>3, <2>1, <2>2, <2>6 DEF StreamChunk
  <2>8. p \in Seq(Chunk) /\ Streamed(p, gen) /\ pending \in [gen : {0, gen}, text : Seq(Chunk)]
    BY <2>5, <2>6 DEF TypeOK, InForce
  <2>9. \A c \in ToSet(p) : c.n <= r.sent
    <3>1. CASE p = <<>>
      BY <3>1 DEF ToSet
    <3>2. CASE p # <<>>
      <4>1. PICK t \in reqs : t.gen = gen /\ \A c \in ToSet(p) : c.n <= t.sent
        BY <2>5, <2>6, <3>2 DEF InForce
      <4>2. t = r
        BY <2>3, <2>5, <4>1 DEF Counted
      <4> QED BY <4>1, <4>2
    <3> QED BY <3>1, <3>2
  <2>10. PICK q : q = Append(p, d)
    OBVIOUS
  <2>11. q \in Seq(Chunk) /\ Streamed(q, gen) /\ ToSet(q) = ToSet(p) \cup {d}
    BY <2>3, <2>4, <2>8, <2>9, <2>10, StreamedMore
  <2>12. pending'.text = q /\ pending'.gen = gen /\ pending' \in [gen : {0, gen}, text : Seq(Chunk)]
    BY <1>3, <2>3, <2>7, <2>8, <2>10, <2>11
  <2>13. /\ reqs' \subseteq Request
         /\ \A t \in reqs' : t.sgen = t.gen /\ t.gen <= gen
         /\ \A t, v \in reqs' : t.gen = v.gen => t = v
         /\ \A t \in reqs' : t.gen = gen => t = s
         /\ s \in reqs'
    BY <2>3, <2>7, ChangedReqs
  <2>14. flushTimer' \in {0, gen}
    BY <2>3, <2>5, <2>7 DEF TypeOK
  <2>15. requesting /\ shown /\ source = gen
    BY <1>1, <2>3, <2>5 DEF InForce
  <2>16. TypeOK' /\ Counted'
    BY <1>2, <2>5, <2>12, <2>13, <2>14 DEF TypeOK, Counted
  <2>17. ToSet(p) \subseteq Chunk /\ \A c \in Chunk : c.n \in Nat
    <3>1. ToSet(p) \subseteq Chunk
      BY <2>8 DEF ToSet
    <3> QED BY <3>1, PlaygroundAssumption DEF Chunk
  <2>18. InForce'
    <3>1. \A c \in ToSet(q) : c.n <= s.sent
      BY <2>3, <2>4, <2>9, <2>11, <2>17
    <3> QED BY <1>2, <2>3, <2>11, <2>12, <2>13, <2>15, <3>1 DEF InForce
  <2>19. Waiting'
    <3>1. ASSUME NEW c \in Given(msgs, queue)
          PROVE  c.n <= r.sent /\ \A e \in ToSet(p) : c.n < e.n
      BY <2>3, <2>5, <2>6, <2>15 DEF Waiting
    <3>2. \A c \in Given(msgs, queue) : c.n \in Nat
      <4>1. Given(msgs, queue) \subseteq Chunk
        BY <2>5, <2>15, GivenType
      <4> QED BY <2>17, <4>1
    <3>3. \A c \in Given(msgs, queue) : c.n <= s.sent /\ \A e \in ToSet(q) : c.n < e.n
      BY <2>3, <2>4, <2>11, <3>1, <3>2
    <3> QED BY <1>2, <2>5, <2>12, <2>13, <3>3 DEF Waiting
  <2>20. Listed' /\ Settling' /\ Saved'
    BY <1>2, <2>5 DEF Listed, Settling, Saved
  <2> QED BY <2>16, <2>18, <2>19, <2>20 DEF PlayInv
<1>4. CASE ~(Accepts(r) /\ pending.gen = r.gen)
  <2>1. UNCHANGED vars
    BY <1>2, <1>4 DEF StreamChunk, vars, chat, request, flags, bounds
  <2> QED BY <2>1, StutterInv
<1> QED BY <1>3, <1>4

(* The flush timer and the stop button. *)

LEMMA FlushTimerInv == ASSUME PlayInv, FlushTimer PROVE PlayInv'
<1>1. /\ flushTimer' = 0
      /\ UNCHANGED <<owner, loaded, store, gen, sgen, source, reqs, requesting, streaming, shown,
                     editing, sends, tweaks, moves>>
  BY DEF FlushTimer, flags, bounds
<1>2. TypeOK /\ Counted /\ InForce /\ Waiting /\ Listed /\ Settling /\ Saved
  BY DEF PlayInv
<1>3. flushTimer = gen /\ Queue(FlushOf) /\ pending' = NoChunks(pending.gen)
  BY <1>2 DEF FlushTimer, TypeOK
<1>4. PICK us : us = FlushOf
  OBVIOUS
<1>5. /\ pending'.text = <<>> /\ ToSet(<<>>) = {} /\ Streamed(<<>>, gen)
      /\ pending' \in [gen : {0, gen}, text : Seq(Chunk)]
  <2>1. pending.gen \in {0, gen} /\ <<>> \in Seq(Chunk)
    BY <1>2 DEF TypeOK
  <2>2. Streamed(<<>>, gen)
    BY DEF Streamed, Ascending, ToSet
  <2> QED BY <1>3, <2>1, <2>2 DEF NoChunks, ToSet
<1>6. Counted'
  BY <1>1, <1>2 DEF Counted
<1>7. InForce'
  BY <1>1, <1>2, <1>5 DEF InForce
<1>8. CASE us = <<>>
  <2>1. UNCHANGED <<msgs, latest, queue, saveTimer>>
    BY <1>3, <1>4, <1>8 DEF Queue, chat
  <2>2. TypeOK'
    BY <1>1, <1>2, <1>5, <2>1 DEF TypeOK
  <2>3. Waiting'
    BY <1>1, <1>2, <1>5, <2>1 DEF Waiting
  <2>4. Listed' /\ Settling' /\ Saved'
    BY <1>1, <1>2, <2>1 DEF Listed, Settling, Saved
  <2> QED BY <1>6, <1>7, <2>2, <2>3, <2>4 DEF PlayInv
<1>9. CASE us # <<>>
  <2>1. pending.text # <<>>
    BY <1>4, <1>9 DEF FlushOf
  <2>2. PICK r \in reqs : r.gen = gen /\ \A c \in ToSet(pending.text) : c.n <= r.sent
    BY <1>2, <2>1 DEF InForce
  <2>3. requesting /\ shown
    BY <1>2, <2>2 DEF InForce
  <2>4. loaded
    BY <1>2, <2>3 DEF Saved
  <2>5. /\ us \in Seq(Updater) /\ Talk(msgs, us, owner, gen)
        /\ Given(msgs, us) \subseteq Given(msgs, queue) \cup ToSet(pending.text)
        /\ \A i \in DOMAIN us : /\ us[i].do \notin Final
                                /\ \A c \in Given(msgs, queue), d \in ToSet(us[i].text) : c.n < d.n
    BY <1>4, <2>3, FlushTalk
  <2>6. \A i \in DOMAIN queue : queue[i].do \notin Final
    BY <1>2, <2>3 DEF Waiting
  <2>7. /\ msgs' = msgs /\ queue' \in Seq(Updater) /\ queue' # <<>>
        /\ latest' \in Seq(Message) /\ SoundList(latest', owner, gen) /\ saveTimer' \in BOOLEAN
        /\ Talk(msgs, queue', owner, gen)
        /\ Given(msgs, queue') \subseteq Given(msgs, queue) \cup Given(msgs, us)
        /\ \A i \in DOMAIN queue' : queue'[i].do \in Final => Last(us).do \in Final
    BY <1>3, <1>4, <1>9, <2>3, <2>5, <2>6, QueueStep
  <2>8. Last(us).do \notin Final
    <3>1. Len(us) \in DOMAIN us /\ Last(us) = us[Len(us)]
      BY <1>9, <2>5, LastOf
    <3> QED BY <2>5, <3>1
  <2>9. TypeOK'
    BY <1>1, <1>2, <1>5, <2>7 DEF TypeOK
  <2>10. Waiting'
    <3>1. ASSUME NEW c \in Given(msgs, queue'), NEW s \in reqs, s.gen = gen PROVE c.n <= s.sent
      <4>1. c \in Given(msgs, queue) \/ c \in ToSet(pending.text)
        BY <2>5, <2>7, <3>1
      <4>2. s = r
        BY <1>2, <2>2, <3>1 DEF Counted
      <4> QED BY <1>2, <2>2, <2>3, <4>1, <4>2 DEF Waiting
    <3>2. \A i \in DOMAIN queue' : queue'[i].do \notin Final
      BY <2>7, <2>8
    <3> QED BY <1>1, <1>5, <2>3, <2>7, <3>1, <3>2 DEF Waiting
  <2>11. Listed'
    BY <1>1, <1>2, <2>7 DEF Listed
  <2>12. Settling' /\ Saved'
    BY <1>1, <2>3, <2>4, <2>7 DEF Settling, Saved
  <2> QED BY <1>6, <1>7, <2>9, <2>10, <2>11, <2>12 DEF PlayInv
<1> QED BY <1>8, <1>9

\* What a stopped generation leaves.
LEMMA Stopped ==
    ASSUME PlayInv, StopGeneration
    PROVE  /\ msgs' \in Seq(Message) /\ SoundList(msgs', owner, gen) /\ Alike(msgs', msgs)
           /\ ~Pending(Last(msgs')) /\ msgs' # <<>> /\ Answering(msgs, gen)
           /\ latest' = msgs' /\ saveTimer' = TRUE /\ queue' = <<>> /\ shown' = FALSE
<1>1. /\ shown /\ gen \in Nat /\ msgs \in Seq(Message) /\ queue \in Seq(Updater)
      /\ Talk(msgs, queue, owner, gen) /\ loaded /\ saveTimer \in BOOLEAN
  BY DEF StopGeneration, PlayInv, TypeOK, Waiting, Saved
<1>2. gen + 1 \in Gens
  BY <1>1, GenNext
<1>3. PICK us \in {FlushOf, IF queue = <<>> THEN <<SetTo(Run(FlushOf, msgs, gen))>> ELSE FlushOf} :
          Rendered(us \o <<StopUpdate>>, gen + 1)
  BY DEF StopGeneration
<1>4. requesting' = FALSE /\ streaming' = FALSE
  BY DEF StopGeneration
<1>5. PICK f : f = FlushOf
  OBVIOUS
<1>6. f \in Seq(Updater) /\ Talk(msgs, f, owner, gen)
  BY <1>1, <1>5, FlushTalk
<1>7. us \in Seq(Updater) /\ \A i \in DOMAIN us : Legal(us[i], msgs, owner, gen)
  <2>1. CASE us = f
    BY <1>6, <2>1 DEF Talk
  <2>2. CASE us # f
    <3>1. PICK x : x = Run(f, msgs, gen)
      OBVIOUS
    <3>2. us = <<SetTo(x)>>
      BY <1>3, <1>5, <2>2, <3>1
    <3>3. x \in Seq(Message) /\ Answering(x, gen) /\ SoundList(x, owner, gen) /\ Alike(x, msgs)
      BY <1>1, <1>6, <3>1, RunTalk
    <3>4. PICK v : v = SetTo(x)
      OBVIOUS
    <3>5. v \in Updater /\ v.do = "set" /\ v.text = x
      BY <3>3, <3>4 DEF SetTo, Updater
    <3>6. Legal(v, msgs, owner, gen)
      BY <3>3, <3>5 DEF Legal
    <3> QED BY <3>2, <3>4, <3>5, <3>6
  <2> QED BY <2>1, <2>2
<1>8. PICK q : q = queue \o us
  OBVIOUS
<1>9. q \in Seq(Updater) /\ \A i \in DOMAIN q : Legal(q[i], msgs, owner, gen)
  <2>1. q \in Seq(Updater) /\ Len(q) = Len(queue) + Len(us) /\ Len(queue) \in Nat /\ Len(us) \in Nat
    BY <1>1, <1>7, <1>8
  <2>2. ASSUME NEW i \in DOMAIN q PROVE Legal(q[i], msgs, owner, gen)
    <3>1. i \in 1..(Len(queue) + Len(us))
      BY <2>1
    <3>2. CASE i \in DOMAIN queue
      <4>1. q[i] = queue[i]
        BY <1>1, <1>7, <1>8, <3>2
      <4> QED BY <1>1, <3>2, <4>1 DEF Talk
    <3>3. CASE i \notin DOMAIN queue
      <4>1. i - Len(queue) \in DOMAIN us /\ q[i] = us[i - Len(queue)]
        BY <1>1, <1>7, <1>8, <2>1, <3>1, <3>3
      <4> QED BY <1>7, <4>1
    <3> QED BY <3>2, <3>3
  <2> QED BY <2>1, <2>2
<1>10. PICK u \in Updater : u = Update("complete", gen + 1, <<>>)
  <2>1. Update("complete", gen + 1, <<>>) \in Updater
    BY <1>2 DEF Update, Updater
  <2> QED BY <2>1
<1>11. PICK x : x = Run(q \o <<u>>, msgs, gen + 1)
  OBVIOUS
<1>12. x \in Seq(Message) /\ SoundList(x, owner, gen) /\ Alike(x, msgs) /\ ~Pending(Last(x)) /\ x # <<>>
  <2>1. Answering(msgs, gen) /\ SoundList(msgs, owner, gen)
    BY <1>1 DEF Talk
  <2> QED BY <1>1, <1>2, <1>9, <1>10, <1>11, <2>1, StopTalk
<1>13. queue \o (us \o <<StopUpdate>>) = q \o <<u>> /\ q \o <<u>> # <<>>
  <2>1. StopUpdate = u
    BY <1>10 DEF StopUpdate
  <2>2. queue \o (us \o <<u>>) = (queue \o us) \o <<u>>
    BY <1>1, <1>7, <1>10, ConcatAssociative
  <2>3. q \o <<u>> # <<>>
    BY <1>9, <1>10
  <2> QED BY <1>8, <2>1, <2>2, <2>3
<1>14. msgs' = x /\ latest' = x /\ saveTimer' = TRUE /\ queue' = <<>> /\ shown' = FALSE
  BY <1>1, <1>3, <1>4, <1>11, <1>13 DEF Rendered, Persist
<1> QED BY <1>1, <1>12, <1>14 DEF Talk

\* Lists in storage stay sound, and may be replaced by what is saved.
LEMMA StoreLater ==
    ASSUME PlayInv, NEW g \in Nat, gen <= g
    PROVE  \A o \in Owners : store[o] \in Seq(Message) /\ SoundList(store[o], o, g) /\ Len(store[o]) <= MaxStored
<1> SUFFICES ASSUME NEW o \in Owners
             PROVE  store[o] \in Seq(Message) /\ SoundList(store[o], o, g) /\ Len(store[o]) <= MaxStored
  OBVIOUS
<1>1. gen \in Nat /\ store[o] \in Seq(Message) /\ SoundList(store[o], o, gen) /\ Len(store[o]) <= MaxStored
  BY DEF PlayInv, TypeOK, Listed
<1> QED BY <1>1, SoundLater

LEMMA SaveLater ==
    ASSUME PlayInv, NEW g \in Nat, gen <= g, NEW x \in Seq(Message), SoundList(x, owner, g),
           NEW st, st = saveMessages(owner, x)
    PROVE  /\ st \in [Owners -> Seq(Message)] /\ st[owner] = TrimTo(x, MaxStored)
           /\ \A o \in Owners : SoundList(st[o], o, g) /\ Len(st[o]) <= MaxStored
<1>1. PICK t : t = TrimTo(x, MaxStored)
  OBVIOUS
<1>2. t \in Seq(Message) /\ SoundList(t, owner, g) /\ Len(t) <= MaxStored
  BY <1>1, TrimSound
<1>3. owner \in Owners /\ store \in [Owners -> Seq(Message)]
  BY DEF PlayInv, TypeOK
<1>4. st = [store EXCEPT ![owner] = t]
  BY <1>1 DEF saveMessages
<1>5. /\ st \in [Owners -> Seq(Message)] /\ st[owner] = t
      /\ \A o \in Owners : o # owner => st[o] = store[o]
  BY <1>2, <1>3, <1>4
<1>6. \A o \in Owners : SoundList(store[o], o, g) /\ Len(store[o]) <= MaxStored
  BY StoreLater
<1>7. ASSUME NEW o \in Owners PROVE SoundList(st[o], o, g) /\ Len(st[o]) <= MaxStored
  <2>1. CASE o = owner
    BY <1>2, <1>5, <2>1
  <2>2. CASE o # owner
    BY <1>5, <1>6, <2>2
  <2> QED BY <2>1, <2>2
<1> QED BY <1>1, <1>5, <1>7

LEMMA StopGenerationInv == ASSUME PlayInv, StopGeneration PROVE PlayInv'
<1>1. TypeOK /\ Counted /\ InForce /\ Waiting /\ Listed /\ Settling /\ Saved
  BY DEF PlayInv
<1>2. PICK g : g = gen + 1
  OBVIOUS
<1>3. gen \in Nat /\ g \in Nat /\ gen <= g /\ gen < g /\ sgen = gen /\ shown
  BY <1>1, <1>2 DEF TypeOK, Counted, StopGeneration
<1>4. PICK x : x = msgs'
  OBVIOUS
<1>5. /\ x \in Seq(Message) /\ SoundList(x, owner, gen)
      /\ latest' = x /\ saveTimer' = TRUE /\ queue' = <<>> /\ shown' = FALSE /\ msgs' = x
  BY <1>4, Stopped
<1>6. /\ UNCHANGED <<owner, loaded, store, reqs, editing, sends, tweaks, moves>>
      /\ gen' = g /\ sgen' = g /\ source' = 0 /\ flushTimer' = 0 /\ pending' = [gen |-> g, text |-> <<>>]
      /\ requesting' = FALSE /\ streaming' = FALSE
  BY <1>2, <1>3 DEF StopGeneration, Discard, NoChunks, bounds
<1>7. pending' \in [gen : {0, g}, text : Seq(Chunk)] /\ pending'.text = <<>>
  BY <1>6
<1>8. \A r \in reqs : r.gen \in Nat /\ r.gen < g
  <2>1. \A r \in reqs : r \in Request /\ r.gen <= gen
    BY <1>1 DEF TypeOK, Counted
  <2>2. \A r \in Request : r.gen \in Nat
    BY PlaygroundAssumption DEF Request, Gens
  <2> QED BY <1>2, <1>3, <2>1, <2>2
<1>9. TypeOK'
  <2>1. queue' \in Seq(Updater)
    BY <1>5
  <2> QED BY <1>1, <1>3, <1>5, <1>6, <1>7, <2>1 DEF TypeOK
<1>10. Counted'
  <2>1. g <= 2 * sends + moves
    BY <1>1, <1>2, <1>3 DEF Counted
  <2>2. \A r \in reqs : r.sgen = r.gen /\ r.gen <= g
    BY <1>1, <1>3, <1>8 DEF Counted
  <2> QED BY <1>1, <1>3, <1>5, <1>6, <2>1, <2>2 DEF Counted
<1>11. InForce'
  <2>1. Streamed(<<>>, g)
    BY DEF Streamed, Ascending, ToSet
  <2>2. \A r \in reqs : r.gen # g
    BY <1>3, <1>8
  <2> QED BY <1>6, <1>7, <2>1, <2>2 DEF InForce
<1>12. Waiting'
  BY <1>5, <1>6 DEF Waiting
<1>13. Listed'
  <2>1. SoundList(x, owner, g)
    BY <1>3, <1>5, SoundLater
  <2>2. \A o \in Owners : SoundList(store[o], o, g) /\ Len(store[o]) <= MaxStored
    BY <1>3, StoreLater
  <2> QED BY <1>5, <1>6, <2>1, <2>2 DEF Listed
<1>14. Settling' /\ Saved'
  <2>1. loaded
    BY <1>1, <1>3 DEF Saved
  <2> QED BY <1>5, <1>6, <2>1 DEF Settling, Saved
<1> QED BY <1>9, <1>10, <1>11, <1>12, <1>13, <1>14 DEF PlayInv

(* The session. *)

LEMMA LoadHistoryInv == ASSUME PlayInv, LoadHistory PROVE PlayInv'
<1>1. TypeOK /\ Counted /\ InForce /\ Waiting /\ Listed /\ Settling /\ Saved
  BY DEF PlayInv
<1>2. PICK x : x = loadMessages(owner)
  OBVIOUS
<1>3. ~loaded /\ loaded' = TRUE /\ msgs' = x /\ latest' = x
  BY <1>2 DEF LoadHistory
<1>4. UNCHANGED <<owner, queue, saveTimer, gen, pending, flushTimer, sgen, source, reqs,
                  requesting, streaming, shown, editing, sends, tweaks, moves>>
  BY DEF LoadHistory, request, flags, bounds
<1>5. queue = <<>> /\ ~shown /\ ~saveTimer
  BY <1>1, <1>3 DEF Saved
<1>6. owner \in Owners /\ gen \in Nat /\ store \in [Owners -> Seq(Message)] /\ SoundList(store[owner], owner, gen)
  BY <1>1 DEF TypeOK, Listed
<1>7. x \in Seq(Message) /\ SoundList(x, owner, gen) /\ Len(x) <= MaxStored
  BY <1>2, <1>6, LoadSound
<1>8. PICK st : st = store'
  OBVIOUS
<1>9. /\ st \in [Owners -> Seq(Message)] /\ st[owner] = TrimTo(x, MaxStored)
      /\ \A o \in Owners : SoundList(st[o], o, gen) /\ Len(st[o]) <= MaxStored
  <2>1. CASE x = store[owner]
    <3>1. st = store
      BY <1>2, <1>3, <1>8, <2>1 DEF LoadHistory
    <3>2. TrimTo(x, MaxStored) = x
      BY <1>6, <1>7, TrimSound
    <3> QED BY <1>1, <1>6, <2>1, <3>1, <3>2 DEF Listed
  <2>2. CASE x # store[owner]
    <3>1. st = saveMessages(owner, x)
      BY <1>2, <1>3, <1>8, <2>2 DEF LoadHistory
    <3>2. gen <= gen
      BY <1>6
    <3> QED BY <1>6, <1>7, <3>1, <3>2, SaveLater
  <2> QED BY <2>1, <2>2
<1>10. TypeOK' /\ Counted'
  BY <1>1, <1>3, <1>4, <1>7, <1>8, <1>9 DEF TypeOK, Counted
<1>11. InForce' /\ Waiting'
  BY <1>1, <1>4, <1>5 DEF InForce, Waiting
<1>12. Listed'
  BY <1>3, <1>4, <1>7, <1>8, <1>9 DEF Listed
<1>13. Settling' /\ Saved'
  BY <1>3, <1>4, <1>5, <1>8, <1>9 DEF Settling, Saved
<1> QED BY <1>10, <1>11, <1>12, <1>13 DEF PlayInv

LEMMA SaveTimerInv == ASSUME PlayInv, SaveTimer PROVE PlayInv'
<1>1. TypeOK /\ Counted /\ InForce /\ Waiting /\ Listed /\ Settling /\ Saved
  BY DEF PlayInv
<1>2. saveTimer /\ saveTimer' = FALSE
  BY DEF SaveTimer
<1>3. UNCHANGED <<owner, loaded, msgs, latest, queue, gen, pending, flushTimer, sgen, source, reqs,
                  requesting, streaming, shown, editing, sends, tweaks, moves>>
  BY DEF SaveTimer, request, flags, bounds
<1>4. PICK st : st = store'
  OBVIOUS
<1>5. /\ st \in [Owners -> Seq(Message)] /\ st[owner] = TrimTo(latest, MaxStored)
      /\ \A o \in Owners : SoundList(st[o], o, gen) /\ Len(st[o]) <= MaxStored
  <2>1. st = saveMessages(owner, latest)
    BY <1>4 DEF SaveTimer
  <2>2. gen \in Nat /\ gen <= gen /\ latest \in Seq(Message) /\ SoundList(latest, owner, gen)
    BY <1>1 DEF TypeOK, Listed
  <2> QED BY <2>1, <2>2, SaveLater
<1>6. TypeOK' /\ Counted'
  BY <1>1, <1>2, <1>3, <1>4, <1>5 DEF TypeOK, Counted
<1>7. InForce' /\ Waiting'
  BY <1>1, <1>3 DEF InForce, Waiting
<1>8. Listed'
  BY <1>1, <1>3, <1>4, <1>5 DEF Listed
<1>9. Settling' /\ Saved'
  BY <1>1, <1>2, <1>3, <1>4, <1>5 DEF Settling, Saved
<1> QED BY <1>6, <1>7, <1>8, <1>9 DEF PlayInv

\* A new session, with storage st left by the last one.
LEMMA MountStep ==
    ASSUME PlayInv, NEW o \in Owners, Mount(o), reqs' \subseteq reqs, UNCHANGED <<sends, tweaks>>,
           NEW st, st = store', st \in [Owners -> Seq(Message)],
           \A p \in Owners : SoundList(st[p], p, gen + 1) /\ Len(st[p]) <= MaxStored
    PROVE  PlayInv'
<1>1. TypeOK /\ Counted
  BY DEF PlayInv
<1>2. PICK g : g = gen + 1
  OBVIOUS
<1>3. gen \in Nat /\ g \in Nat /\ gen < g /\ sgen = gen /\ moves < MaxMoves
  BY <1>1, <1>2 DEF TypeOK, Counted, Mount
<1>4. /\ moves' = moves + 1 /\ owner' = o /\ loaded' = FALSE
      /\ msgs' = <<>> /\ latest' = <<>> /\ queue' = <<>> /\ saveTimer' = FALSE
      /\ gen' = g /\ sgen' = g /\ source' = 0 /\ flushTimer' = 0 /\ pending' = [gen |-> 0, text |-> <<>>]
      /\ requesting' = FALSE /\ streaming' = FALSE /\ shown' = FALSE /\ editing' = None
  BY <1>2, <1>3 DEF Mount, Discard, NoChunks
<1>5. pending' \in [gen : {0, g}, text : Seq(Chunk)] /\ pending'.text = <<>>
  BY <1>4
<1>6. \A r \in reqs : r.gen \in Nat /\ r.gen < g
  <2>1. \A r \in reqs : r \in Request /\ r.gen <= gen
    BY <1>1 DEF TypeOK, Counted
  <2>2. \A r \in Request : r.gen \in Nat
    BY PlaygroundAssumption DEF Request, Gens
  <2> QED BY <1>2, <1>3, <2>1, <2>2
<1>7. sends \in Nat /\ moves \in Nat /\ moves' \in 0..MaxMoves
  BY <1>1, <1>3, <1>4, PlaygroundAssumption DEF TypeOK
<1>8. TypeOK'
  <2>1. queue' \in Seq(Updater) /\ msgs' \in Seq(Message) /\ latest' \in Seq(Message)
    BY <1>4
  <2> QED BY <1>1, <1>3, <1>4, <1>5, <1>7, <2>1 DEF TypeOK
<1>9. Counted'
  <2>1. gen + (IF shown THEN 1 ELSE 0) <= 2 * sends + moves
    BY <1>1 DEF Counted
  <2>2. gen <= 2 * sends + moves
    BY <1>3, <1>7, <2>1
  <2>3. g <= 2 * sends + (moves + 1)
    BY <1>2, <1>3, <1>7, <2>2
  <2>4. \A r \in reqs : r.sgen = r.gen /\ r.gen <= g
    BY <1>1, <1>3, <1>6 DEF Counted
  <2> QED BY <1>1, <1>3, <1>4, <2>3, <2>4 DEF Counted
<1>10. InForce'
  <2>1. Streamed(<<>>, g)
    BY DEF Streamed, Ascending, ToSet
  <2>2. \A r \in reqs : r.gen # g
    BY <1>3, <1>6
  <2> QED BY <1>4, <1>5, <2>1, <2>2 DEF InForce
<1>11. Waiting'
  BY <1>4 DEF Waiting
<1>12. Listed'
  BY <1>2, <1>4, SoundNone DEF Listed
<1>13. Settling' /\ Saved'
  BY <1>4 DEF Settling, Saved
<1> QED BY <1>8, <1>9, <1>10, <1>11, <1>12, <1>13 DEF PlayInv

LEMMA LeaveInv == ASSUME PlayInv, NEW o \in Owners, Leave(o) PROVE PlayInv'
<1>1. gen \in Nat /\ gen + 1 \in Nat /\ gen <= gen + 1 /\ latest \in Seq(Message) /\ SoundList(latest, owner, gen)
  BY DEF PlayInv, TypeOK, Listed
<1>2. PICK st : st = store'
  OBVIOUS
<1>3. st \in [Owners -> Seq(Message)] /\ \A p \in Owners : SoundList(st[p], p, gen + 1) /\ Len(st[p]) <= MaxStored
  <2>1. CASE saveTimer
    <3>1. st = saveMessages(owner, latest)
      BY <1>2, <2>1 DEF Leave, Unmounted
    <3>2. SoundList(latest, owner, gen + 1)
      BY <1>1, SoundLater
    <3> QED BY <1>1, <3>1, <3>2, SaveLater
  <2>2. CASE ~saveTimer
    <3>1. st = store /\ store \in [Owners -> Seq(Message)]
      BY <1>2, <2>2 DEF Leave, Unmounted, PlayInv, TypeOK
    <3> QED BY <1>1, <3>1, StoreLater
  <2> QED BY <2>1, <2>2
<1>4. Mount(o) /\ UNCHANGED <<sends, tweaks>> /\ reqs' \subseteq reqs
  BY DEF Leave
<1> QED BY <1>2, <1>3, <1>4, MountStep

LEMMA ReloadInv == ASSUME PlayInv, Reload PROVE PlayInv'
<1>1. gen \in Nat /\ gen + 1 \in Nat /\ gen <= gen + 1 /\ owner \in Owners /\ store \in [Owners -> Seq(Message)]
  BY DEF PlayInv, TypeOK
<1>2. PICK st : st = store'
  OBVIOUS
<1>3. st = store
  BY <1>2 DEF Reload
<1>4. \A p \in Owners : SoundList(st[p], p, gen + 1) /\ Len(st[p]) <= MaxStored
  BY <1>1, <1>3, StoreLater
<1>5. Mount(owner) /\ UNCHANGED <<sends, tweaks>> /\ reqs' \subseteq reqs
  BY DEF Reload
<1> QED BY <1>1, <1>2, <1>3, <1>4, <1>5, MountStep

(***************************************************************************)
(* The inductive invariant, and what follows from it.                       *)
(***************************************************************************)

LEMMA InitInv == Init => PlayInv
<1> SUFFICES ASSUME Init PROVE PlayInv
  OBVIOUS
<1> USE PlaygroundAssumption
<1>1. owner \in Owners
  BY DEF Init
<1>2. /\ loaded = FALSE /\ msgs = <<>> /\ latest = <<>> /\ queue = <<>> /\ saveTimer = FALSE
      /\ store = [o \in Owners |-> <<>>] /\ gen = 0 /\ flushTimer = 0
      /\ requesting = FALSE /\ streaming = FALSE /\ shown = FALSE
      /\ sgen = 0 /\ source = 0 /\ reqs = {} /\ editing = None
      /\ sends = 0 /\ tweaks = 0 /\ moves = 0
  BY DEF Init
<1>3. pending = [gen |-> 0, text |-> <<>>]
  BY DEF Init, NoChunks
<1>4. pending \in [gen : {0, gen}, text : Seq(Chunk)] /\ pending.text = <<>>
  BY <1>2, <1>3
<1>5. store \in [Owners -> Seq(Message)] /\ \A o \in Owners : store[o] = <<>>
  <2>1. <<>> \in Seq(Message)
    OBVIOUS
  <2> QED BY <1>2, <2>1
<1>6. msgs \in Seq(Message) /\ latest \in Seq(Message) /\ queue \in Seq(Updater)
  BY <1>2
<1>7. TypeOK
  <2>1. sends \in 0..MaxSends /\ tweaks \in 0..MaxTweaks /\ moves \in 0..MaxMoves
    BY <1>2
  <2>2. /\ gen \in Nat /\ sgen \in Nat /\ reqs \subseteq Request /\ editing \in Keys \cup {None}
        /\ flushTimer \in {0, gen} /\ source \in {0, gen}
    BY <1>2
  <2> QED BY <1>1, <1>2, <1>4, <1>5, <1>6, <2>1, <2>2 DEF TypeOK
<1>8. Counted
  BY <1>2 DEF Counted
<1>9. InForce
  <2>1. Streamed(<<>>, gen)
    BY DEF Streamed, Ascending, ToSet
  <2> QED BY <1>2, <1>4, <2>1 DEF InForce
<1>10. Waiting
  BY <1>2 DEF Waiting
<1>11. Listed
  <2>1. Len(<<>>) = 0
    OBVIOUS
  <2> QED BY <1>2, <1>5, <2>1, SoundNone DEF Listed
<1>12. Settling /\ Saved
  BY <1>2 DEF Settling, Saved
<1> QED BY <1>7, <1>8, <1>9, <1>10, <1>11, <1>12 DEF PlayInv

LEMMA NextInv == PlayInv /\ [Next]_vars => PlayInv'
<1> SUFFICES ASSUME PlayInv, [Next]_vars PROVE PlayInv'
  OBVIOUS
<1>1. CASE UNCHANGED vars
  BY <1>1, StutterInv
<1>2. CASE UserAction
  BY <1>2, SendMessageInv, RegenerateMessageInv, DeleteMessageInv, ClearMessagesInv, EditMessageInv,
     CancelEditInv, SaveEditInv, StopGenerationInv DEF UserAction
<1>3. ASSUME NEW r \in reqs, \/ HeadersReady(r) \/ HeadersFailed(r) \/ StreamChunk(r)
                             \/ StreamEnd(r) \/ StreamCloses(r) \/ CallEnd(r)
      PROVE  PlayInv'
  BY <1>3, HeadersReadyInv, HeadersFailedInv, StreamChunkInv, StreamEndInv, StreamClosesInv, CallEndInv
<1>4. CASE Render \/ FlushTimer \/ SaveTimer \/ LoadHistory
  BY <1>4, RenderInv, FlushTimerInv, SaveTimerInv, LoadHistoryInv
<1>5. ASSUME NEW o \in Owners, Leave(o) PROVE PlayInv'
  BY <1>5, LeaveInv
<1>6. CASE Reload
  BY <1>6, ReloadInv
<1> QED BY <1>1, <1>2, <1>3, <1>4, <1>5, <1>6 DEF Next

\* The invariant holds: generations and requests agree, the updaters that
\* wait are those of the answer shown, chunks keep the order of the stream,
\* lists belong to their accounts and what is shown is saved or about to be.
THEOREM PlayInvariant == Spec => []PlayInv
<1> QED BY InitInv, NextInv, PTL DEF Spec

\* The variables have their types, and a flush timer or buffered chunks
\* belong to the generation in force.
THEOREM PlayTyped == Spec => []TypeOK
<1>1. PlayInv => TypeOK
  BY DEF PlayInv
<1> QED BY PlayInvariant, <1>1, PTL

LEMMA InvOwnAnswer == PlayInv => OwnAnswer
<1> SUFFICES ASSUME PlayInv PROVE OwnAnswer
  OBVIOUS
<1>1. ASSUME NEW ms, NEW o, SoundList(ms, o, gen), NEW m \in ToSet(ms)
      PROVE  /\ \A c \in ToSet(m.text) : c.gen = m.gen
             /\ \A i, j \in DOMAIN m.text : i < j => m.text[i].n < m.text[j].n
  <2>1. PICK i \in DOMAIN ms : m = ms[i]
    BY <1>1 DEF ToSet
  <2>2. Sound(m, o, gen)
    BY <1>1, <2>1 DEF SoundList
  <2> QED BY <2>2 DEF Sound, Ascending
<1>2. ASSUME NEW ms \in Lists PROVE \E o : SoundList(ms, o, gen)
  <2>1. /\ SoundList(msgs, owner, gen) /\ SoundList(latest, owner, gen)
        /\ \A o \in Owners : SoundList(store[o], o, gen)
    BY DEF PlayInv, Listed
  <2> QED BY <2>1 DEF Lists
<1>3. ASSUME NEW ms \in Lists, NEW m \in ToSet(ms)
      PROVE  /\ \A c \in ToSet(m.text) : c.gen = m.gen
             /\ \A i, j \in DOMAIN m.text : i < j => m.text[i].n < m.text[j].n
  BY <1>1, <1>2, <1>3
<1> QED BY <1>3 DEF OwnAnswer

\* No answer ever receives the text of another, and chunks are shown and
\* saved at most once and in the order of the stream.
THEOREM AnswersAreOwn == Spec => []OwnAnswer
<1> QED BY PlayInvariant, InvOwnAnswer, PTL

LEMMA InvOwnChat == PlayInv => OwnChat
<1> SUFFICES ASSUME PlayInv PROVE OwnChat
  OBVIOUS
<1>1. ASSUME NEW ms, NEW o, SoundList(ms, o, gen), NEW m \in ToSet(ms) PROVE m.by = o
  BY <1>1 DEF ToSet, SoundList, Sound
<1>2. /\ SoundList(msgs, owner, gen) /\ SoundList(latest, owner, gen)
      /\ \A o \in Owners : SoundList(store[o], o, gen)
  BY DEF PlayInv, Listed
<1> QED BY <1>1, <1>2 DEF OwnChat

\* Conversations are shown and saved only under their own account.
THEOREM ChatsAreOwn == Spec => []OwnChat
<1> QED BY PlayInvariant, InvOwnChat, PTL

\* A list like the one shown, its last message settled, has no other pending
\* message than the earlier ones.
LEMMA SettledList ==
    ASSUME NEW g \in Nat, NEW ms \in Seq(Message), NEW x \in Seq(Message),
           Answering(ms, g), Alike(x, ms), ~Pending(Last(x)), NEW m \in ToSet(x), Pending(m)
    PROVE  m \in ToSet(ms) /\ m # Last(ms)
<1>1. PICK i \in DOMAIN x : m = x[i]
  BY DEF ToSet
<1>2. PICK k \in Nat : k = Len(ms) /\ DOMAIN ms = 1..k /\ Len(x) = k /\ DOMAIN x = 1..k
  BY DEF Alike
<1>3. i # k
  BY <1>1, <1>2 DEF Last
<1>4. i \in 1..(k - 1) /\ i \in 1..k
  BY <1>1, <1>2, <1>3
<1>5. m = ms[i]
  BY <1>1, <1>2, <1>4 DEF Alike
<1>6. m \in ToSet(ms)
  BY <1>2, <1>4, <1>5 DEF ToSet
<1>7. m \in Message /\ m.gen \in Nat
  <2>1. m \in Message
    BY <1>2, <1>4, <1>5
  <2> QED BY <2>1, PlaygroundAssumption DEF Message, Gens
<1>8. m # Last(ms)
  <2>1. m.from = "assistant" => m.gen < g
    BY <1>2, <1>4, <1>5 DEF Answering
  <2> QED BY <1>7, <2>1 DEF Answering
<1> QED BY <1>6, <1>8

LEMMA SettledStep ==
    PlayInv /\ [Next]_vars =>
      [shown /\ ~shown' /\ ~SaveEdit =>
         \A m \in ToSet(msgs') : Pending(m) => m \in ToSet(msgs) /\ m # Last(msgs)]_vars
<1> SUFFICES ASSUME PlayInv, Next, shown, ~shown', ~SaveEdit, NEW m \in ToSet(msgs'), Pending(m)
             PROVE  m \in ToSet(msgs) /\ m # Last(msgs)
  OBVIOUS
<1>1. /\ gen \in Nat /\ msgs \in Seq(Message) /\ queue \in Seq(Updater) /\ Talk(msgs, queue, owner, gen)
      /\ Answering(msgs, gen)
  BY DEF PlayInv, TypeOK, Waiting, Talk
<1>2. ASSUME Rendered(<<>>, gen), UNCHANGED <<requesting, streaming>>
      PROVE  m \in ToSet(msgs) /\ m # Last(msgs)
  <2>1. PICK x : x = Run(queue, msgs, gen)
    OBVIOUS
  <2>2. queue \o <<>> = queue
    BY <1>1
  <2>3. msgs' = x /\ ~requesting /\ ~streaming
    BY <1>2, <2>1, <2>2 DEF Rendered
  <2>4. LastWord(queue)
    BY <2>3 DEF PlayInv, Settling
  <2>5. x \in Seq(Message) /\ Alike(x, msgs) /\ ~Pending(Last(x))
    BY <2>1, <2>4, QueueRun
  <2> QED BY <1>1, <2>3, <2>5, SettledList
<1>3. CASE StopGeneration
  <2>1. PICK x : x = msgs'
    OBVIOUS
  <2>2. x \in Seq(Message) /\ Alike(x, msgs) /\ ~Pending(Last(x))
    BY <1>3, <2>1, Stopped
  <2> QED BY <1>1, <2>1, <2>2, SettledList
<1>4. CASE CancelEdit
  BY <1>2, <1>4 DEF CancelEdit, Click
<1>5. CASE Render
  BY <1>2, <1>5 DEF Render
<1>6. CASE SendMessage \/ RegenerateMessage \/ DeleteMessage \/ ClearMessages \/ EditMessage
  BY <1>6 DEF SendMessage, RegenerateMessage, DeleteMessage, ClearMessages, EditMessage, Tweak
<1>7. ASSUME NEW r \in reqs, \/ HeadersReady(r) \/ HeadersFailed(r) \/ StreamChunk(r)
                             \/ StreamEnd(r) \/ StreamCloses(r) \/ CallEnd(r)
      PROVE  FALSE
  BY <1>7 DEF HeadersReady, HeadersFailed, StreamChunk, StreamEnd, StreamCloses, CallEnd, flags
<1>8. CASE FlushTimer \/ SaveTimer \/ LoadHistory
  BY <1>8 DEF FlushTimer, SaveTimer, LoadHistory, flags
<1>9. ASSUME msgs' = <<>> PROVE FALSE
  BY <1>9 DEF ToSet
<1>10. CASE Reload \/ \E o \in Owners : Leave(o)
  BY <1>9, <1>10 DEF Reload, Leave, Mount
<1> QED BY <1>3, <1>4, <1>5, <1>6, <1>7, <1>8, <1>10 DEF Next, UserAction

\* When the controls return to idle the answer they showed is settled,
\* however the generation ended.
THEOREM IdleIsSettled == Spec => EndedIsSettled
<1> QED BY PlayInvariant, SettledStep, PTL DEF Spec, EndedIsSettled

LEMMA LeavingStep ==
    PlayInv /\ [Next]_vars =>
      [loaded /\ queue = <<>> /\ (\E o \in Owners : Leave(o)) => store'[owner] = TrimTo(msgs, MaxStored)]_vars
<1> SUFFICES ASSUME PlayInv, loaded, queue = <<>>, NEW o \in Owners, Leave(o)
             PROVE  store'[owner] = TrimTo(msgs, MaxStored)
  OBVIOUS
<1>1. /\ latest = msgs /\ (saveTimer \/ store[owner] = TrimTo(msgs, MaxStored))
      /\ store \in [Owners -> Seq(Message)] /\ owner \in Owners
  BY DEF PlayInv, Saved, TypeOK
<1>2. CASE saveTimer
  BY <1>1, <1>2 DEF Leave, Unmounted, saveMessages
<1>3. CASE ~saveTimer
  BY <1>1, <1>3 DEF Leave, Unmounted
<1> QED BY <1>2, <1>3

\* Leaving the page or changing the account keeps what was shown.
THEOREM LeavingSaves == Spec => LeavingKeepsChat
<1> QED BY PlayInvariant, LeavingStep, PTL DEF Spec, LeavingKeepsChat
=============================================================================
