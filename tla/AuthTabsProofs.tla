---------------------------- MODULE AuthTabsProofs ----------------------------
(***************************************************************************)
(* Proofs about AuthTabs, for any tabs, sessions, race delays and bounds:    *)
(* TabsInv is inductive.                                                     *)
(***************************************************************************)
EXTENDS AuthTabs, FiniteSetTheorems, TLAPS

(***************************************************************************)
(* Operators of the model.                                                  *)
(***************************************************************************)

\* The values the records start from are of their types.
LEMMA BlankValues ==
    /\ NoToken \in Token /\ NoToken.sid = None
    /\ NoRef \in Ref /\ NoRef.pc = "none" /\ NoRef.tok = NoToken /\ NoRef.ans = "none"
    /\ NoApi \in Api
    /\ NoOut \in Out /\ NoOut.pc = "none" /\ NoOut.exp = None
BY SidsAssumption, BoundsAssumption
   DEF NoToken, Token, SidOrNone, NoRef, Ref, Answers, NoApi, Api, NoOut, Out

\* What is left of the lock's queue: others keep their places, the holder is
\* still the holder.
LEMMA WithoutFacts ==
    ASSUME NEW t \in Tabs, lock \in Seq(Tabs)
    PROVE  /\ Without(t) \in Seq(Tabs)
           /\ \A u \in Tabs \ {t} :
                /\ (\E i \in 1..Len(lock) : lock[i] = u)
                     => \E i \in 1..Len(Without(t)) : Without(t)[i] = u
                /\ Len(lock) > 0 /\ lock[1] = u => Len(Without(t)) > 0 /\ Without(t)[1] = u
<1>1. CASE \A i \in 1..Len(lock) : lock[i] # t
  <2>1. Without(t) = lock
    BY <1>1 DEF Without
  <2> QED BY <2>1
<1>2. CASE \E i \in 1..Len(lock) : lock[i] = t
  <2> DEFINE p == CHOOSE i \in 1..Len(lock) : lock[i] = t
             q == [i \in 1..(Len(lock) - 1) |-> IF i < p THEN lock[i] ELSE lock[i + 1]]
  <2>1. p \in 1..Len(lock) /\ lock[p] = t
    BY <1>2
  <2>2. Without(t) = q
    BY <1>2 DEF Without
  <2>3. Len(lock) \in Nat /\ Len(lock) - 1 \in Nat /\ \A i \in 1..Len(lock) : lock[i] \in Tabs
    BY <2>1
  <2> HIDE DEF p
  <2>4. q \in [1..(Len(lock) - 1) -> Tabs]
    BY <2>1, <2>3
  <2>5. q \in Seq(Tabs) /\ Len(q) = Len(lock) - 1
    BY <2>3, <2>4
  <2>6. ASSUME NEW u \in Tabs \ {t}, NEW i \in 1..Len(lock), lock[i] = u
        PROVE  \E j \in 1..Len(q) : q[j] = u
    <3>1. i < p \/ i > p
      <4>1. i # p
        BY <2>1, <2>6
      <4> QED BY <2>1, <4>1
    <3>2. CASE i < p
      BY <2>1, <2>3, <2>5, <2>6, <3>2
    <3>3. CASE i > p
      <4>1. i - 1 \in 1..(Len(lock) - 1) /\ ~(i - 1 < p) /\ (i - 1) + 1 = i
        BY <2>1, <2>3, <3>3
      <4>2. q[i - 1] = lock[i]
        BY <4>1
      <4> QED BY <2>5, <2>6, <4>1, <4>2
    <3> QED BY <3>1, <3>2, <3>3
  <2>7. ASSUME NEW u \in Tabs \ {t}, Len(lock) > 0, lock[1] = u
        PROVE  Len(q) > 0 /\ q[1] = u
    <3>1. 1 < p
      BY <2>1, <2>7
    <3>2. 1 \in 1..(Len(lock) - 1)
      BY <2>1, <2>3, <3>1
    <3> QED BY <2>5, <2>7, <3>1, <3>2
  <2> HIDE DEF q
  <2> QED BY <2>2, <2>5, <2>6, <2>7
<1> QED BY <1>1, <1>2

(***************************************************************************)
(* Steps of a tab.  The server and the history of grace windows do not      *)
(* change; refreshes end, are superseded or go back to the queue.           *)
(***************************************************************************)
Quieter(r, q) ==
    \/ q.pc \in {"none", "queued"} /\ q.tok \in {NoToken, r.tok}
    \/ q.pc = r.pc /\ q.tok = r.tok /\ q.ans = r.ans
       /\ (q.pc = "served" => q.cur \in {r.cur, "no"})

\* Where a tab's new session comes from.
StoreFrom(t) ==
    \/ tab'[t].store \in {None, tab[t].store, ref[t].tok.sid}
    \/ tab'[t].store = login[t] /\ login'[t] = None

\* Where the new cookie comes from: an answer, whose request is then over.
CookieFrom ==
    \/ cookie' \in {cookie, NoToken}
    \/ \E t \in Tabs : /\ login[t] # None /\ login'[t] = None
                       /\ cookie' = [sid |-> login[t], gen |-> 1]
    \/ \E t \in Tabs : Won(t) /\ ref'[t].pc \in {"none", "queued"} /\ cookie' = ref[t].tok

\* A refresh whose page is gone is still on its way.
OrphansFrom ==
    \/ orphans' = orphans
    \/ \E t \in Tabs : ref[t].pc = "sent" /\ ref'[t].pc = "none" /\ orphans' = orphans \cup {ref[t].tok}

SignOutsFrom ==
    \A t \in Tabs, s \in Sids : <<t, s>> \in signedOut' =>
        \/ <<t, s>> \in signedOut
        \/ Dead(s) /\ Issued(s) /\ (Won(t)' => ref'[t].cur = "no")

\* The fields of the state's records.
LEMMA FieldTypes ==
    ASSUME TypeOK
    PROVE  /\ cookie.sid \in SidOrNone /\ cookie.gen \in Nat
           /\ \A t \in Tabs : /\ ref[t] \in Ref /\ ref[t].tok \in Token
                              /\ ref[t].tok.sid \in SidOrNone /\ ref[t].tok.gen \in Nat
                              /\ tab[t] \in Tab /\ tab[t].store \in SidOrNone
                              /\ out[t] \in Out /\ out[t].exp \in SidOrNone
                              /\ login[t] \in SidOrNone
           /\ \A k \in orphans : k \in Token /\ k.sid \in SidOrNone /\ k.gen \in Nat
           /\ \A s \in Sids : sess[s].gen \in Nat
<1>1. \A t \in Tabs : ref[t] \in Ref /\ tab[t] \in Tab /\ out[t] \in Out /\ login[t] \in SidOrNone
  BY DEF TypeOK
<1>2. \A k \in Token : k.sid \in SidOrNone /\ k.gen \in Nat
  BY DEF Token
<1>3. \A r \in Ref : r.tok \in Token
  BY DEF Ref
<1>4. \A b \in Tab : b.store \in SidOrNone
  BY DEF Tab
<1>5. \A x \in Out : x.exp \in SidOrNone
  BY DEF Out
<1>6. cookie \in Token /\ orphans \subseteq Token
  BY DEF TypeOK
<1>7. \A s \in Sids : sess[s].gen \in Nat
  BY DEF TypeOK
<1> QED BY <1>1, <1>2, <1>3, <1>4, <1>5, <1>6, <1>7

\* What the browser has been given stays given.
LEMMA IssuedStays ==
    ASSUME TypeOK,
           \A s \in Sids : sess[s].st # "none" => sess'[s].st # "none",
           \A t \in Tabs : login'[t] \in {login[t], None}
    PROVE  \A s \in Sids : Issued(s) => Issued(s)'
BY SidsAssumption DEF Issued, TypeOK

\* Only one refresh is sent or answered at a time.
LEMMA OneSent ==
    ASSUME Exclusive, NEW t \in Tabs, NEW u \in Tabs,
           ref[t].pc \in {"sent", "served"}, ref[u].pc \in {"sent", "served"}
    PROVE  t = u
BY DEF Exclusive

\* A step of a tab keeps cookie, requests and answers in step with the server.
LEMMA ClientInStep ==
    ASSUME TabsInv, sess' = sess, gap' = gap, blind' = blind, TypeOK',
           \A t \in Tabs : Quieter(ref[t], ref'[t]),
           CookieFrom, OrphansFrom
    PROVE  InStep'
<1> USE SidsAssumption
<1>1. TypeOK /\ Exclusive /\ Arriving /\ Arrived /\ InStep
  BY DEF TabsInv
<1>2. /\ \A t \in Tabs : ref[t].tok.sid \in SidOrNone /\ ref[t].tok.gen \in Nat /\ login[t] \in SidOrNone
      /\ \A k \in orphans : k.sid \in SidOrNone /\ k.gen \in Nat
      /\ \A s \in Sids : sess[s].gen \in Nat
      /\ cookie.sid \in SidOrNone /\ cookie.gen \in Nat
  BY <1>1, FieldTypes
<1>3. \A s : Settled(s)' = Settled(s)
  BY DEF Settled
<1>4. \A t, u \in Tabs : ref[t].pc \in {"sent", "served"} /\ ref[u].pc \in {"sent", "served"} => t = u
  BY <1>1, OneSent
<1>5. \A t \in Tabs : ref'[t].pc = "sent" => ref[t].pc = "sent" /\ ref'[t].tok = ref[t].tok
  BY DEF Quieter
<1>6. \A t \in Tabs : Won(t)' => Won(t) /\ ref'[t].tok = ref[t].tok
  BY DEF Quieter, Won
<1>7. \A k \in orphans' : \/ k \in orphans
                          \/ \E t \in Tabs : ref[t].pc = "sent" /\ ref'[t].pc = "none" /\ k = ref[t].tok
  BY DEF OrphansFrom
<1>8. \A t \in Tabs : ref[t].pc = "sent" => Usable(ref[t].tok)
  BY <1>1 DEF InStep
<1>9. \A t \in Tabs : Won(t) => Renewed(ref[t].tok) /\ ref[t].pc = "served"
  BY <1>1 DEF InStep, Won
<1>10. \A t, u \in Tabs : login[t] # None => /\ ref[u].tok.sid # login[t] /\ cookie.sid # login[t]
                                             /\ \A k \in orphans : k.sid # login[t]
  BY <1>1 DEF Arrived, Issued
<1>11. ASSUME NEW k, Usable(k), k.gen \in Nat,
              \A t \in Tabs : ref[t].pc = "sent" /\ ref'[t].pc = "none" /\ ref[t].tok.sid = k.sid /\ k.sid # None
                                => ref[t].tok.gen <= k.gen
       PROVE  Usable(k)'
  BY <1>3, <1>7, <1>11 DEF Usable
<1>12. Usable(cookie)'
  <2>1. CASE cookie' = cookie
    <3>1. \A t \in Tabs : ref[t].pc = "sent" /\ ref[t].tok.sid = cookie.sid /\ cookie.sid # None
                            => ref[t].tok.gen <= cookie.gen
      BY <1>1, <1>2 DEF InStep
    <3>2. PICK k : k = cookie
      OBVIOUS
    <3>3. Usable(k)'
      BY <1>1, <1>2, <1>11, <3>1, <3>2 DEF InStep
    <3> QED BY <2>1, <3>2, <3>3 DEF Usable
  <2>2. CASE cookie' = NoToken
    BY <2>2, BlankValues DEF Usable
  <2>3. ASSUME NEW t \in Tabs, login[t] # None, cookie' = [sid |-> login[t], gen |-> 1]
        PROVE  Usable(cookie)'
    <3>1. sess[login[t]].gen = 1
      BY <1>1, <2>3 DEF Arriving
    <3>2. \A k \in orphans' : k.sid # login[t]
      BY <1>7, <1>10, <2>3
    <3>3. cookie'.sid = login[t] /\ cookie'.gen = 1
      BY <2>3
    <3> QED BY <3>1, <3>2, <3>3 DEF Usable
  <2>4. ASSUME NEW t \in Tabs, Won(t), cookie' = ref[t].tok
        PROVE  Usable(cookie)'
    <3>1. Renewed(ref[t].tok) /\ ref[t].pc = "served"
      BY <1>9, <2>4
    <3>2. \A k \in orphans' : k \in orphans
      BY <1>4, <1>7, <3>1
    <3>3. cookie'.sid = ref[t].tok.sid /\ cookie'.gen = ref[t].tok.gen
      BY <2>4
    <3>4. ref[t].tok.gen \in Nat /\ \A k \in orphans : k.gen \in Nat
      BY <1>2
    <3>5. \A k \in orphans' : k.sid = cookie'.sid => k.gen <= cookie'.gen
      BY <3>1, <3>2, <3>3, <3>4 DEF Renewed
    <3>6. sess'[cookie'.sid].gen = cookie'.gen
      BY <3>1, <3>3 DEF Renewed
    <3> QED BY <3>5, <3>6 DEF Usable
  <2> QED BY <2>1, <2>2, <2>3, <2>4 DEF CookieFrom
<1>13. ASSUME NEW k \in orphans', k.sid # None, Settled(k.sid)'
       PROVE  sess'[k.sid].gen = k.gen
  <2>1. Settled(k.sid)
    BY <1>3, <1>13
  <2> QED BY <1>1, <1>7, <1>8, <1>13, <2>1 DEF InStep, Usable
<1>14. ASSUME NEW t \in Tabs, ref'[t].pc = "sent"
       PROVE  /\ Usable(ref[t].tok)'
              /\ cookie'.sid = ref'[t].tok.sid /\ cookie'.sid # None => cookie' = ref'[t].tok
  <2>1. ref[t].pc = "sent" /\ ref'[t].tok = ref[t].tok
    BY <1>5, <1>14
  <2>2. \A u \in Tabs : ~(ref[u].pc = "sent" /\ ref'[u].pc = "none") /\ ~Won(u)
    BY <1>4, <1>9, <1>14, <2>1
  <2>3. PICK k : k = ref[t].tok
    OBVIOUS
  <2>4. Usable(k)'
    BY <1>2, <1>8, <1>11, <2>1, <2>2, <2>3
  <2>5. Usable(ref[t].tok)'
    BY <2>1, <2>3, <2>4 DEF Usable
  <2>6. \/ cookie' \in {cookie, NoToken}
        \/ \E u \in Tabs : login[u] # None /\ cookie'.sid = login[u]
    BY <2>2 DEF CookieFrom
  <2> QED BY <1>1, <1>10, <2>1, <2>5, <2>6, BlankValues DEF InStep
<1>15. ASSUME NEW t \in Tabs, Won(t)'
       PROVE  Renewed(ref[t].tok)'
  <2>1. Won(t) /\ ref'[t].tok = ref[t].tok /\ Renewed(ref[t].tok) /\ ref[t].pc = "served"
    BY <1>6, <1>9, <1>15
  <2>2. ref'[t].pc = "served"
    BY <1>15 DEF Won
  <2>3. \A u \in Tabs : ref[u].pc # "sent" /\ ~(Won(u) /\ ref'[u].pc \in {"none", "queued"})
    BY <1>4, <1>9, <2>1, <2>2
  <2>4. \A k \in orphans' : k \in orphans
    BY <1>7, <2>3
  <2>5. \/ cookie' \in {cookie, NoToken}
        \/ \E u \in Tabs : login[u] # None /\ cookie'.sid = login[u]
    BY <2>3 DEF CookieFrom
  <2>6. cookie'.sid = ref[t].tok.sid => ref[t].tok.gen = cookie'.gen + 1
    BY <1>10, <2>1, <2>5, BlankValues DEF Renewed
  <2>7. ref[t].tok.sid # None /\ sess'[ref[t].tok.sid].gen = ref[t].tok.gen /\ ~Settled(ref[t].tok.sid)
        /\ \A k \in orphans : k.sid = ref[t].tok.sid => k.gen < ref[t].tok.gen
    BY <2>1 DEF Renewed
  <2> QED BY <1>3, <2>1, <2>4, <2>6, <2>7 DEF Renewed
<1> QED BY <1>12, <1>13, <1>14, <1>15 DEF InStep

\* A step of a tab that does no more than this keeps the invariant.
LEMMA ClientStep ==
    ASSUME TabsInv, TypeOK', Exclusive', Credited', sess' = sess, gap' = gap, blind' = blind,
           \A t \in Tabs : Quieter(ref[t], ref'[t]),
           \A t \in Tabs : login'[t] \in {login[t], None},
           \A t \in Tabs : out'[t] = out[t] \/ (out'[t].pc # "served" /\ out'[t].exp \in {None, out[t].exp}),
           \A t \in Tabs : StoreFrom(t),
           CookieFrom, OrphansFrom, SignOutsFrom
    PROVE  TabsInv'
<1> USE SidsAssumption
<1>1. TypeOK /\ Arriving /\ Arrived /\ InStep /\ NoFalseReuse /\ SignOutRevokes /\ Leaving
  BY DEF TabsInv
<1>2. /\ \A t \in Tabs : ref[t].tok.sid \in SidOrNone /\ login[t] \in SidOrNone /\ tab[t].store \in SidOrNone
      /\ cookie.sid \in SidOrNone
      /\ \A t \in Tabs : out[t].exp \in SidOrNone
      /\ \A k \in orphans : k.sid \in SidOrNone
  BY <1>1, FieldTypes
<1>3. \A s \in Sids : Issued(s) => Issued(s)'
  BY <1>1, IssuedStays
<1>4. \A s : Dead(s)' = Dead(s) /\ Settled(s)' = Settled(s)
  BY DEF Dead, Settled
<1>5. InStep'
  BY ClientInStep
<1>6. Arriving'
  <2>1. \A t \in Tabs : login'[t] # None => login'[t] = login[t] /\ login[t] # None
    OBVIOUS
  <2>2. ASSUME NEW t \in Tabs, login'[t] # None
        PROVE  /\ sess'[login'[t]].st # "none" /\ sess'[login'[t]].gen = 1 /\ sess'[login'[t]].grace = "over"
               /\ \A u \in Tabs : login'[u] = login'[t] => u = t
    BY <1>1, <2>1, <2>2 DEF Arriving
  <2>3. \A s \in Sids : sess'[s].st = "none" => sess'[s].grace = "over"
    BY <1>1 DEF Arriving
  <2> QED BY <2>2, <2>3 DEF Arriving
<1>7. ASSUME NEW t \in Tabs, NEW s \in Sids, login[t] = s, login'[t] = None
      PROVE  Issued(s)'
  <2>1. sess[s].st # "none" /\ \A u \in Tabs : login[u] = s => u = t
    BY <1>1, <1>7 DEF Arriving
  <2>2. \A u \in Tabs : login'[u] # s
    BY <1>7, <2>1
  <2> QED BY <2>1, <2>2 DEF Issued
<1>8. Arrived'
  <2>1. cookie'.sid # None => Issued(cookie.sid)'
    <3>1. CASE cookie' \in {cookie, NoToken}
      BY <1>1, <1>2, <1>3, <3>1, BlankValues DEF Arrived, SidOrNone
    <3>2. ASSUME NEW t \in Tabs, login[t] # None, login'[t] = None, cookie' = [sid |-> login[t], gen |-> 1]
          PROVE  Issued(cookie.sid)'
      <4>1. PICK s \in Sids : s = login[t]
        BY <1>2, <3>2 DEF SidOrNone
      <4>2. Issued(s)' /\ cookie'.sid = s
        BY <1>7, <3>2, <4>1
      <4> QED BY <4>2 DEF Issued
    <3>3. ASSUME NEW t \in Tabs, Won(t), cookie' = ref[t].tok
          PROVE  cookie'.sid # None => Issued(cookie.sid)'
      BY <1>1, <1>2, <1>3, <3>3 DEF Arrived, SidOrNone
    <3> QED BY <3>1, <3>2, <3>3 DEF CookieFrom
  <2>2. ASSUME NEW k \in orphans', k.sid # None PROVE Issued(k.sid)'
    <3>1. k \in orphans \/ \E t \in Tabs : k = ref[t].tok
      BY <2>2 DEF OrphansFrom
    <3> QED BY <1>1, <1>2, <1>3, <2>2, <3>1 DEF Arrived, SidOrNone
  <2>3. ASSUME NEW t \in Tabs, ref'[t].tok.sid # None PROVE Issued(ref[t].tok.sid)'
    <3>1. ref'[t].tok = ref[t].tok
      BY <2>3, BlankValues DEF Quieter
    <3> QED BY <1>1, <1>2, <1>3, <2>3, <3>1 DEF Arrived, SidOrNone
  <2>4. ASSUME NEW t \in Tabs, tab'[t].store # None PROVE Issued(tab[t].store)'
    <3>1. CASE tab'[t].store \in {tab[t].store, ref[t].tok.sid}
      BY <1>1, <1>2, <1>3, <2>4, <3>1 DEF Arrived, SidOrNone
    <3>2. CASE tab'[t].store = login[t] /\ login'[t] = None
      <4>1. PICK s \in Sids : s = login[t]
        BY <1>2, <2>4, <3>2 DEF SidOrNone
      <4>2. Issued(s)' /\ tab'[t].store = s
        BY <1>7, <3>2, <4>1
      <4> QED BY <4>2 DEF Issued
    <3> QED BY <2>4, <3>1, <3>2 DEF StoreFrom
  <2>5. ASSUME NEW t \in Tabs, out'[t].exp # None PROVE Issued(out[t].exp)'
    <3>1. out'[t].exp = out[t].exp
      BY <2>5
    <3> QED BY <1>1, <1>2, <1>3, <2>5, <3>1 DEF Arrived, SidOrNone
  <2>6. ASSUME NEW t \in Tabs, NEW s \in Sids, <<t, s>> \in signedOut' PROVE Issued(s)'
    BY <1>1, <1>3, <2>6 DEF Arrived, SignOutsFrom
  <2> QED BY <2>1, <2>2, <2>3, <2>4, <2>5, <2>6 DEF Arrived
<1>9. NoFalseReuse'
  BY <1>1 DEF NoFalseReuse
<1>10. SignOutRevokes'
  <2>1. ASSUME NEW t \in Tabs, NEW s \in Sids, <<t, s>> \in signedOut' PROVE Dead(s)
    BY <1>1, <2>1 DEF SignOutRevokes, SignOutsFrom, Dead
  <2> QED BY <1>4, <2>1 DEF SignOutRevokes, Dead
<1>11. Leaving'
  <2>1. ASSUME NEW t \in Tabs, out'[t].pc = "served", out'[t].ans = "ok", out'[t].exp # None
        PROVE  Dead(out[t].exp)'
    <3>1. out'[t] = out[t]
      BY <2>1
    <3>2. Dead(out[t].exp)
      BY <1>1, <2>1, <3>1 DEF Leaving
    <3> QED BY <1>4, <3>1, <3>2 DEF Dead
  <2>2. ASSUME NEW t \in Tabs, Won(t)', <<t, ref'[t].tok.sid>> \in signedOut', ref'[t].tok.sid \notin gap' \cup blind'
        PROVE  ref'[t].cur = "no"
    <3>1. Won(t) /\ ref'[t].tok = ref[t].tok /\ ref'[t].cur \in {ref[t].cur, "no"}
      BY <2>2 DEF Won, Quieter
    <3>2. ref[t].tok.sid \in Sids
      BY <1>1, <1>2, <3>1 DEF InStep, Renewed, SidOrNone
    <3>3. <<t, ref[t].tok.sid>> \in signedOut \/ ref'[t].cur = "no"
      BY <2>2, <3>1, <3>2 DEF SignOutsFrom
    <3> QED BY <1>1, <2>2, <3>1, <3>3 DEF Leaving
  <2> QED BY <2>1, <2>2 DEF Leaving
<1> QED BY <1>5, <1>6, <1>8, <1>9, <1>10, <1>11 DEF TabsInv

(***************************************************************************)
(* The parts of a tab's step.                                               *)
(***************************************************************************)

\* The store's edits.
LEMMA StoreEdits ==
    ASSUME NEW b \in Tab, NEW s \in SidOrNone
    PROVE  /\ \A boot \in {"idle", "complete"} : Reset(b, boot) \in Tab /\ Reset(b, boot).store = None
           /\ SetBundle(b, s) \in Tab /\ SetBundle(b, s).store = s
           /\ \A page \in {"app", "signin"} :
                /\ [b EXCEPT !.page = page] \in Tab /\ [b EXCEPT !.page = page].store = b.store
                /\ Loaded(page) \in Tab /\ Loaded(page).store = None
           /\ [b EXCEPT !.boot = "idle"] \in Tab /\ [b EXCEPT !.boot = "idle"].store = b.store
           /\ [b EXCEPT !.access = "stale"] \in Tab /\ [b EXCEPT !.access = "stale"].store = b.store
           /\ \A page \in {"app", "signin"} :
                [b EXCEPT !.up = "up", !.page = page] \in Tab
                /\ [b EXCEPT !.up = "up", !.page = page].store = b.store
BY DEF Tab, SidOrNone, Reset, SetBundle, Loaded

\* A superseded refresh is the same request.
LEMMA Superseded ==
    ASSUME NEW r \in Ref
    PROVE  /\ EpochMoved(r) \in Ref /\ EpochMoved(r).pc = r.pc /\ Quieter(r, EpochMoved(r))
           /\ r.pc # "none" => EpochMoved(r).cur = "no"
           /\ Quieter(r, r) /\ Quieter(r, NoRef)
<1>1. EpochMoved(r) \in Ref /\ EpochMoved(r).pc = r.pc /\ EpochMoved(r).tok = r.tok /\ EpochMoved(r).ans = r.ans
      /\ (r.pc # "none" => EpochMoved(r).cur = "no")
  BY DEF Ref, EpochMoved
<1> QED BY <1>1, BlankValues DEF Quieter

\* No new holder of the lock.
LEMMA ExclusiveStays ==
    ASSUME Exclusive, lock' = lock,
           \A u \in Tabs : \/ ref'[u].pc \in {"none", ref[u].pc}
                           \/ ref[u].pc # "none" /\ ref'[u].pc = "queued"
    PROVE  Exclusive'
BY DEF Exclusive

\* refreshAuthentication joins the refresh under way or queues for the lock.
LEMMA Joins ==
    ASSUME TypeOK, Exclusive, NEW t \in Tabs, JoinOrStart(t)
    PROVE  /\ ref' \in [Tabs -> Ref] /\ lock' \in Seq(Tabs) /\ Exclusive'
           /\ \A u \in Tabs : Quieter(ref[u], ref'[u])
<1>0. ref \in [Tabs -> Ref] /\ lock \in Seq(Tabs)
  BY DEF TypeOK
<1>1. CASE ref[t].pc # "none"
  <2>1. ref' = ref /\ lock' = lock
    BY <1>1 DEF JoinOrStart
  <2>2. Exclusive'
    BY <2>1, ExclusiveStays
  <2> QED BY <1>0, <2>1, <2>2, Superseded
<1>2. CASE ref[t].pc = "none"
  <2> DEFINE r == [NoRef EXCEPT !.pc = "queued"]
  <2>1. r \in Ref /\ r.pc = "queued" /\ r.tok = NoToken
    BY BlankValues DEF Ref, NoRef
  <2> HIDE DEF r
  <2>2. ref' = [ref EXCEPT ![t] = r] /\ lock' = Append(lock, t)
    BY <1>2 DEF JoinOrStart, r
  <2>3. ref' \in [Tabs -> Ref] /\ ref'[t] = r /\ \A u \in Tabs \ {t} : ref'[u] = ref[u]
    BY <1>0, <2>1, <2>2
  <2>4. lock' \in Seq(Tabs) /\ Len(lock') = Len(lock) + 1 /\ Len(lock) \in Nat /\ lock'[Len(lock) + 1] = t
        /\ \A i \in 1..Len(lock) : lock'[i] = lock[i]
    BY <1>0, <2>2
  <2>5. \A u \in Tabs \ {t} : ref[u].pc # "none" => \E i \in 1..Len(lock') : lock'[i] = u
    BY <2>4 DEF Exclusive
  <2>6. \A u \in Tabs \ {t} : ref[u].pc \in {"sent", "served"} => lock'[1] = u
    <3> SUFFICES ASSUME NEW u \in Tabs \ {t}, ref[u].pc \in {"sent", "served"} PROVE lock'[1] = u
      OBVIOUS
    <3>1. lock[1] = u /\ \E i \in 1..Len(lock) : lock[i] = u
      BY DEF Exclusive
    <3>2. 1 \in 1..Len(lock)
      BY <2>4, <3>1
    <3> QED BY <2>4, <3>1, <3>2
  <2>7. \E i \in 1..Len(lock') : lock'[i] = t
    BY <2>4
  <2>8. Exclusive'
    BY <2>1, <2>3, <2>5, <2>6, <2>7 DEF Exclusive
  <2>9. \A u \in Tabs : Quieter(ref[u], ref'[u])
    BY <1>0, <2>1, <2>3, Superseded DEF Quieter
  <2> QED BY <2>3, <2>4, <2>8, <2>9
<1> QED BY <1>1, <1>2

\* A runner that ends frees the lock.
LEMMA Done ==
    ASSUME TypeOK, Exclusive, NEW t \in Tabs, RunnerDone(t)
    PROVE  /\ ref' \in [Tabs -> Ref] /\ lock' \in Seq(Tabs) /\ Exclusive'
           /\ ref'[t] = NoRef /\ \A u \in Tabs : u # t => ref'[u] = ref[u]
           /\ \A u \in Tabs : Quieter(ref[u], ref'[u])
<1>0. ref \in [Tabs -> Ref] /\ lock \in Seq(Tabs)
  BY DEF TypeOK
<1>1. ref' \in [Tabs -> Ref] /\ ref'[t] = NoRef /\ \A u \in Tabs : u # t => ref'[u] = ref[u]
  BY <1>0, BlankValues DEF RunnerDone
<1>2. lock' = Without(t)
  BY DEF RunnerDone
<1>3. lock' \in Seq(Tabs)
  BY <1>0, <1>2, WithoutFacts
<1>4. \A u \in Tabs \ {t} :
        /\ (\E i \in 1..Len(lock) : lock[i] = u) => \E i \in 1..Len(lock') : lock'[i] = u
        /\ Len(lock) > 0 /\ lock[1] = u => Len(lock') > 0 /\ lock'[1] = u
  BY <1>0, <1>2, WithoutFacts, Zenon
<1>5. ASSUME NEW u \in Tabs, u # t
      PROVE  /\ ref[u].pc # "none" => \E i \in 1..Len(lock') : lock'[i] = u
             /\ ref[u].pc \in {"sent", "served"} => lock'[1] = u
  <2>1. ref[u].pc # "none" => \E i \in 1..Len(lock') : lock'[i] = u
    BY <1>4, <1>5 DEF Exclusive
  <2>2. ref[u].pc # "none" => Len(lock) > 0
    BY <1>0 DEF Exclusive
  <2> QED BY <1>4, <1>5, <2>1, <2>2 DEF Exclusive
<1>6. Exclusive'
  BY <1>1, <1>5, BlankValues DEF Exclusive
<1>7. \A u \in Tabs : Quieter(ref[u], ref'[u])
  BY <1>0, <1>1, Superseded
<1> QED BY <1>1, <1>3, <1>6, <1>7

\* Events that make no tab reload need no credit.
LEMMA CreditStays ==
    ASSUME TypeOK, Credited, credit' = credit,
           \A u \in Tabs : IsFiniteSet(mail'[u]) /\ Heard(u)' \subseteq Heard(u)
    PROVE  Credited'
<1> SUFFICES ASSUME NEW u \in Tabs PROVE Cardinality(Heard(u)') <= credit'[u]
  BY DEF Credited
<1>1. IsFiniteSet(Heard(u))
  BY FS_Subset DEF Heard, Credited
<1>2. Cardinality(Heard(u)') <= Cardinality(Heard(u)) /\ Cardinality(Heard(u)') \in Nat /\ Cardinality(Heard(u)) \in Nat
  BY <1>1, FS_Subset, FS_CardinalityType
<1>3. credit[u] \in Int /\ Cardinality(Heard(u)) <= credit[u]
  BY DEF TypeOK, Credited
<1> QED BY <1>2, <1>3

\* What the end of a runner, or of its page, does to tabs, requests and events.
Ends(t, stores, events) ==
    /\ tab' \in [Tabs -> Tab] /\ api' \in [Tabs -> Api] /\ out' \in [Tabs -> Out]
    /\ login' \in [Tabs -> SidOrNone] /\ mail' \in [Tabs -> SUBSET Event]
    /\ RunnerDone(t)
    /\ tab'[t].store \in stores
    /\ \A u \in Tabs :
        /\ u # t => tab'[u] = tab[u]
        /\ login'[u] \in {login[u], None}
        /\ out'[u] = out[u] \/ (out'[u].pc # "served" /\ out'[u].exp \in {None, out[u].exp})
        /\ mail'[u] \subseteq events[u]

\* A page that is replaced leaves no session, no request and no event.
LEMMA GoneEnds ==
    ASSUME TypeOK, NEW t \in Tabs, NEW page \in {"app", "signin"},
           NEW events \in [Tabs -> SUBSET Event], Gone(t, page, events)
    PROVE  Ends(t, {None}, events)
<1>1. tab' = [tab EXCEPT ![t] = Loaded(page)] /\ api' = [api EXCEPT ![t] = NoApi]
      /\ out' = [out EXCEPT ![t] = NoOut] /\ login' = [login EXCEPT ![t] = None]
      /\ mail' = [events EXCEPT ![t] = {}] /\ RunnerDone(t)
  BY DEF Gone
<1>2. tab \in [Tabs -> Tab] /\ api \in [Tabs -> Api] /\ out \in [Tabs -> Out] /\ login \in [Tabs -> SidOrNone]
  BY DEF TypeOK
<1>3. Loaded(page) \in Tab /\ Loaded(page).store = None
  BY SidsAssumption DEF Loaded, Tab, SidOrNone
<1> HIDE DEF Loaded, NoOut, NoApi
<1>4. tab' \in [Tabs -> Tab] /\ tab'[t] = Loaded(page) /\ \A u \in Tabs : u # t => tab'[u] = tab[u]
  BY <1>1, <1>2, <1>3
<1>5. api' \in [Tabs -> Api]
  BY <1>1, <1>2, BlankValues
<1>6. out' \in [Tabs -> Out] /\ out'[t] = NoOut /\ \A u \in Tabs : u # t => out'[u] = out[u]
  BY <1>1, <1>2, BlankValues
<1>7. login' \in [Tabs -> SidOrNone] /\ \A u \in Tabs : login'[u] \in {login[u], None}
  BY <1>1, <1>2 DEF SidOrNone
<1>8. mail' \in [Tabs -> SUBSET Event] /\ \A u \in Tabs : mail'[u] \subseteq events[u]
  BY <1>1
<1>9. \A u \in Tabs : out'[u] = out[u] \/ (out'[u].pc # "served" /\ out'[u].exp \in {None, out[u].exp})
  BY <1>6, BlankValues
<1> QED BY <1>1, <1>3, <1>4, <1>5, <1>6, <1>7, <1>8, <1>9 DEF Ends

\* The callers of a refresh go on, with the store they are given.
LEMMA ResumeEnds ==
    ASSUME TypeOK, NEW t \in Tabs, NEW outcome, NEW tb \in Tab,
           NEW events \in [Tabs -> SUBSET Event], Resume(t, outcome, tb), mail' = events
    PROVE  Ends(t, {tb.store}, events)
<1>2. tab \in [Tabs -> Tab] /\ api \in [Tabs -> Api] /\ out \in [Tabs -> Out] /\ login \in [Tabs -> SidOrNone]
  BY DEF TypeOK
<1>3. PICK b \in Tab : tab' = [tab EXCEPT ![t] = b] /\ b.store = tb.store
  <2>1. PICK page \in {"app", "signin"} : tab' = [tab EXCEPT ![t] = [tb EXCEPT !.up = "up", !.page = page]]
    BY DEF Resume, Tab
  <2>2. PICK s \in SidOrNone : s = None
    BY DEF SidOrNone
  <2> QED BY <2>1, StoreEdits
<1>4. tab' \in [Tabs -> Tab] /\ tab'[t].store = tb.store /\ \A u \in Tabs : u # t => tab'[u] = tab[u]
  BY <1>2, <1>3
<1>5. \A a \in Api : [a EXCEPT !.pc = "send"] \in Api
  BY DEF Api
<1>6. \A x \in Out : [x EXCEPT !.pc = "send"] \in Out /\ [x EXCEPT !.pc = "send"].pc = "send"
                     /\ [x EXCEPT !.pc = "send"].exp = x.exp
  BY DEF Out
<1>7. api' \in [Tabs -> Api]
  <2>1. PICK a \in Api : api' = [api EXCEPT ![t] = a]
    BY <1>2, <1>5, BlankValues DEF Resume
  <2> QED BY <1>2, <2>1
<1>8. PICK x \in Out : /\ out' = [out EXCEPT ![t] = x]
                       /\ x = out[t] \/ (x.pc # "served" /\ x.exp \in {None, out[t].exp})
  BY <1>2, <1>6, BlankValues DEF Resume
<1>9. out' \in [Tabs -> Out] /\ out'[t] = x /\ \A u \in Tabs : u # t => out'[u] = out[u]
  BY <1>2, <1>8
<1>10. login' = login /\ RunnerDone(t)
  BY DEF Resume
<1> QED BY <1>2, <1>4, <1>7, <1>8, <1>9, <1>10 DEF Ends

\* The end of a runner: either of the two.
LEMMA FinishEnds ==
    ASSUME TypeOK, NEW t \in Tabs, NEW outcome, NEW tb \in Tab,
           NEW events \in [Tabs -> SUBSET Event], Finish(t, outcome, tb, events)
    PROVE  Ends(t, {None, tb.store}, events)
<1>1. CASE Gone(t, "signin", events)
  <2>1. PICK page \in {"app", "signin"} : page = "signin"
    OBVIOUS
  <2>2. Ends(t, {None}, events)
    BY <1>1, <2>1, GoneEnds
  <2> QED BY <2>2 DEF Ends
<1>2. CASE Resume(t, outcome, tb) /\ mail' = events
  <2>1. Ends(t, {tb.store}, events)
    BY <1>2, ResumeEnds
  <2> QED BY <2>1 DEF Ends
<1> QED BY <1>1, <1>2 DEF Finish

\* A runner, or a page, that ends keeps the invariant.
LEMMA EndsStep ==
    ASSUME TabsInv, NEW t \in Tabs, NEW stores, NEW events, Ends(t, stores, events),
           stores \subseteq {None, tab[t].store, ref[t].tok.sid}, Credited',
           sess' = sess, gap' = gap, blind' = blind, signedOut' = signedOut, credit' \in [Tabs -> Int],
           moves' \in 0..MaxMoves, faults' \in 0..MaxFaults,
           cookie' \in Token, orphans' \subseteq Token, CookieFrom, OrphansFrom
    PROVE  TabsInv'
<1>1. TypeOK /\ Exclusive
  BY DEF TabsInv
<1>2. /\ ref' \in [Tabs -> Ref] /\ lock' \in Seq(Tabs) /\ Exclusive'
      /\ \A u \in Tabs : Quieter(ref[u], ref'[u])
  BY <1>1, Done DEF Ends
<1>3. TypeOK'
  BY <1>1, <1>2 DEF Ends, TypeOK
<1>4. \A u \in Tabs : StoreFrom(u)
  BY DEF Ends, StoreFrom
<1>5. SignOutsFrom
  BY DEF SignOutsFrom
<1> QED BY <1>2, <1>3, <1>4, <1>5, ClientStep DEF Ends

\* What requests of a page that is gone may still do.
LEMMA AbandonedFrom ==
    ASSUME TypeOK, NEW t \in Tabs, Abandoned(t), ref'[t] = NoRef, login'[t] = None
    PROVE  cookie' \in Token /\ orphans' \subseteq Token /\ CookieFrom /\ OrphansFrom
<1>1. ref'[t].pc = "none"
  BY BlankValues
<1>2. ref[t].tok \in Token /\ login[t] \in SidOrNone /\ cookie \in Token /\ orphans \subseteq Token
  BY FieldTypes DEF TypeOK
<1>3. orphans' \subseteq Token /\ OrphansFrom
  BY <1>1, <1>2 DEF Abandoned, OrphansFrom
<1>4. CookieFrom
  BY <1>1 DEF Abandoned, CookieFrom, Won
<1>5. cookie' \in Token
  <2>1. [sid |-> login[t], gen |-> 1] \in Token
    BY <1>2 DEF Token
  <2> QED BY <1>2, <2>1, BlankValues DEF Abandoned
<1> QED BY <1>3, <1>4, <1>5

\* Reloads and replaced pages.
LEMMA GoneStep ==
    ASSUME TabsInv, NEW t \in Tabs, NEW page \in {"app", "signin"}, Gone(t, page, mail), Abandoned(t),
           Credited', credit' \in [Tabs -> Int], sess' = sess, gap' = gap, blind' = blind, signedOut' = signedOut,
           moves' \in 0..MaxMoves, faults' \in 0..MaxFaults
    PROVE  TabsInv'
<1>1. TypeOK /\ mail \in [Tabs -> SUBSET Event] /\ Exclusive
  BY DEF TabsInv, TypeOK
<1>2. Ends(t, {None}, mail)
  BY <1>1, GoneEnds
<1>3. ref'[t] = NoRef
  BY <1>1, <1>2, Done DEF Ends
<1>4. login'[t] = None
  BY <1>1 DEF Gone, TypeOK
<1>5. cookie' \in Token /\ orphans' \subseteq Token /\ CookieFrom /\ OrphansFrom
  BY <1>1, <1>3, <1>4, AbandonedFrom
<1> QED BY <1>2, <1>5, EndsStep

\* Events heard by the tabs other than a tab that is gone: no more than before.
LEMMA GoneCredit ==
    ASSUME TypeOK, Credited, NEW t \in Tabs, NEW page, Gone(t, page, mail), credit' = credit
    PROVE  Credited'
<1>1. mail' = [mail EXCEPT ![t] = {}] /\ mail \in [Tabs -> SUBSET Event]
  BY DEF Gone, TypeOK
<1>2. \A u \in Tabs : mail'[u] \subseteq mail[u]
  BY <1>1
<1>3. \A u \in Tabs : IsFiniteSet(mail'[u]) /\ Heard(u)' \subseteq Heard(u)
  BY <1>2, FS_Subset DEF Heard, Credited
<1> QED BY <1>3, CreditStays

\* publishAuthSessionEvent makes a finite number of events, of their type.
LEMMA PublishFacts ==
    ASSUME TypeOK, Credited, NEW t \in Tabs, NEW kind \in {"authenticated", "signed_out"}, NEW s \in SidOrNone
    PROVE  /\ Publish(t, kind, s) \in [Tabs -> SUBSET Event]
           /\ \A u \in Tabs : /\ IsFiniteSet(Publish(t, kind, s)[u])
                              /\ \/ Publish(t, kind, s)[u] = mail[u]
                                 \/ Publish(t, kind, s)[u] = mail[u] \cup {[kind |-> kind, sid |-> s]}
<1>1. mail \in [Tabs -> SUBSET Event]
  BY DEF TypeOK
<1>2. s # None => [kind |-> kind, sid |-> s] \in Event
  BY DEF Event, SidOrNone
<1>3. \A u \in Tabs : IsFiniteSet(mail[u] \cup {[kind |-> kind, sid |-> s]})
  BY FS_AddElement DEF Credited
<1>4. \A u \in Tabs : Publish(t, kind, s)[u] \in {mail[u], mail[u] \cup {[kind |-> kind, sid |-> s]}}
  BY DEF Publish
<1>5. Publish(t, kind, s) \in [Tabs -> SUBSET Event]
  BY <1>1, <1>2 DEF Publish
<1>6. \A u \in Tabs : IsFiniteSet(mail[u])
  BY DEF Credited
<1> HIDE DEF Publish
<1>7. \A u \in Tabs : IsFiniteSet(Publish(t, kind, s)[u])
  BY <1>3, <1>4, <1>6
<1> QED BY <1>4, <1>5, <1>7

\* Events of a sign-out need no credit.
LEMMA QuietCredit ==
    ASSUME TypeOK, Credited, credit' = credit, NEW t \in Tabs, NEW s \in SidOrNone,
           \A u \in Tabs : mail'[u] \subseteq Publish(t, "signed_out", s)[u] \/ mail'[u] \subseteq mail[u]
    PROVE  Credited'
<1>1. PICK kind \in {"authenticated", "signed_out"} : kind = "signed_out"
  OBVIOUS
<1>2. \A u \in Tabs : /\ IsFiniteSet(Publish(t, kind, s)[u])
                      /\ Publish(t, kind, s)[u] \subseteq mail[u] \cup {[kind |-> kind, sid |-> s]}
  BY PublishFacts
<1>3. ASSUME NEW u \in Tabs PROVE IsFiniteSet(mail'[u]) /\ Heard(u)' \subseteq Heard(u)
  <2>1. IsFiniteSet(mail[u])
    BY DEF Credited
  <2>2. \/ mail'[u] \subseteq Publish(t, kind, s)[u]
        \/ mail'[u] \subseteq mail[u]
    BY <1>1, Zenon
  <2> HIDE DEF Publish
  <2>3. IsFiniteSet(mail'[u])
    BY <1>2, <2>1, <2>2, FS_Subset
  <2>4. mail'[u] \subseteq mail[u] \cup {[kind |-> kind, sid |-> s]}
    BY <1>2, <2>2
  <2> QED BY <1>1, <2>3, <2>4 DEF Heard
<1> QED BY <1>3, CreditStays

\* Steps that stay within a tab.
LEMMA TabStep ==
    ASSUME TabsInv, UNCHANGED <<cookie, sess, out, login, orphans, signedOut, gap, blind, credit>>,
           ref' \in [Tabs -> Ref], lock' \in Seq(Tabs), Exclusive',
           \A u \in Tabs : Quieter(ref[u], ref'[u]),
           tab' \in [Tabs -> Tab], \A u \in Tabs : tab'[u].store \in {None, tab[u].store, ref[u].tok.sid},
           api' \in [Tabs -> Api], mail' \in [Tabs -> SUBSET Event], Credited',
           moves' \in 0..MaxMoves, faults' \in 0..MaxFaults
    PROVE  TabsInv'
<1>1. TypeOK
  BY DEF TabsInv
<1>2. TypeOK'
  BY <1>1 DEF TypeOK
<1>3. CookieFrom /\ OrphansFrom /\ SignOutsFrom /\ \A u \in Tabs : StoreFrom(u)
  BY DEF CookieFrom, OrphansFrom, SignOutsFrom, StoreFrom
<1> QED BY <1>2, <1>3, ClientStep

\* What holds of the parts a step leaves alone.
LEMMA Same ==
    ASSUME TabsInv
    PROVE  /\ ref' = ref /\ lock' = lock => /\ ref' \in [Tabs -> Ref] /\ lock' \in Seq(Tabs) /\ Exclusive'
                                            /\ \A u \in Tabs : Quieter(ref[u], ref'[u])
           /\ mail' = mail /\ credit' = credit => mail' \in [Tabs -> SUBSET Event] /\ Credited'
           /\ tab' = tab => /\ tab' \in [Tabs -> Tab]
                            /\ \A u \in Tabs : tab'[u].store \in {None, tab[u].store, ref[u].tok.sid}
           /\ api' = api => api' \in [Tabs -> Api]
           /\ moves' = moves \/ Move => moves' \in 0..MaxMoves
           /\ faults' = faults \/ (faults < MaxFaults /\ faults' = faults + 1) => faults' \in 0..MaxFaults
<1>1. TypeOK /\ Exclusive /\ Credited
  BY DEF TabsInv
<1>2. ref' = ref /\ lock' = lock => /\ ref' \in [Tabs -> Ref] /\ lock' \in Seq(Tabs) /\ Exclusive'
                                    /\ \A u \in Tabs : Quieter(ref[u], ref'[u])
  BY <1>1, Superseded DEF TypeOK, Exclusive
<1>3. mail' = mail /\ credit' = credit => mail' \in [Tabs -> SUBSET Event] /\ Credited'
  BY <1>1 DEF TypeOK, Credited, Heard
<1>4. moves' = moves \/ Move => moves' \in 0..MaxMoves
  BY <1>1, BoundsAssumption DEF TypeOK, Move
<1>5. faults' = faults \/ (faults < MaxFaults /\ faults' = faults + 1) => faults' \in 0..MaxFaults
  BY <1>1, BoundsAssumption DEF TypeOK
<1>6. tab' = tab => /\ tab' \in [Tabs -> Tab]
                    /\ \A u \in Tabs : tab'[u].store \in {None, tab[u].store, ref[u].tok.sid}
  BY <1>1 DEF TypeOK
<1>7. api' = api => api' \in [Tabs -> Api]
  BY <1>1 DEF TypeOK
<1> QED BY <1>2, <1>3, <1>4, <1>5, <1>6, <1>7

\* A tab's store is replaced by one that has its session, or none.
LEMMA StorePut ==
    ASSUME TabsInv, NEW t \in Tabs, NEW b \in Tab, tab' = [tab EXCEPT ![t] = b],
           b.store \in {None, tab[t].store, ref[t].tok.sid}
    PROVE  /\ tab' \in [Tabs -> Tab]
           /\ \A u \in Tabs : tab'[u].store \in {None, tab[u].store, ref[u].tok.sid}
<1>1. tab \in [Tabs -> Tab]
  BY DEF TabsInv, TypeOK
<1> QED BY <1>1

\* clearAuthentication and applyAuthBundle supersede a refresh under way.
LEMMA EpochPut ==
    ASSUME TabsInv, NEW t \in Tabs, ref' = [ref EXCEPT ![t] = EpochMoved(@)], lock' = lock
    PROVE  /\ ref' \in [Tabs -> Ref] /\ lock' \in Seq(Tabs) /\ Exclusive'
           /\ \A u \in Tabs : Quieter(ref[u], ref'[u])
           /\ ref[t].pc # "none" => ref'[t].cur = "no"
           /\ ref'[t].pc = ref[t].pc
<1>1. ref \in [Tabs -> Ref] /\ lock \in Seq(Tabs) /\ Exclusive
  BY DEF TabsInv, TypeOK
<1> HIDE DEF EpochMoved
<1>2. ref'[t] = EpochMoved(ref[t]) /\ \A u \in Tabs : u # t => ref'[u] = ref[u]
  BY <1>1
<1>3. /\ EpochMoved(ref[t]) \in Ref /\ EpochMoved(ref[t]).pc = ref[t].pc /\ Quieter(ref[t], EpochMoved(ref[t]))
      /\ ref[t].pc # "none" => EpochMoved(ref[t]).cur = "no"
      /\ \A u \in Tabs : Quieter(ref[u], ref[u])
  BY <1>1, Superseded
<1>4. ref' \in [Tabs -> Ref]
  BY <1>1, <1>3
<1>5. Exclusive'
  BY <1>1, <1>2, <1>3, ExclusiveStays
<1> QED BY <1>1, <1>2, <1>3, <1>4, <1>5

(***************************************************************************)
(* The actions of a tab.                                                    *)
(***************************************************************************)

\* bootstrapAuthentication starts a refresh and leaves the session as it was.
LEMMA BootstrapInv ==
    ASSUME TabsInv, NEW t \in Tabs, Bootstrap(t)
    PROVE  TabsInv'
<1>1. UNCHANGED <<cookie, sess, api, out, login, mail, orphans, signedOut, gap, blind, credit, faults>>
      /\ JoinOrStart(t) /\ Move /\ tab' = [tab EXCEPT ![t] = [tab[t] EXCEPT !.boot = "idle"]]
  BY DEF Bootstrap, history
<1>2. TypeOK /\ Exclusive /\ tab[t] \in Tab
  BY DEF TabsInv, TypeOK
<1>3. PICK b \in Tab : b = [tab[t] EXCEPT !.boot = "idle"] /\ b.store = tab[t].store
  <2>1. PICK s \in SidOrNone : s = None
    BY DEF SidOrNone
  <2> QED BY <1>2, StoreEdits
<1>4. tab' \in [Tabs -> Tab] /\ \A u \in Tabs : tab'[u].store \in {None, tab[u].store, ref[u].tok.sid}
  BY <1>1, <1>3, StorePut
<1>5. mail' \in [Tabs -> SUBSET Event] /\ Credited' /\ api' \in [Tabs -> Api]
      /\ moves' \in 0..MaxMoves /\ faults' \in 0..MaxFaults
  BY <1>1, Same
<1>6. /\ ref' \in [Tabs -> Ref] /\ lock' \in Seq(Tabs) /\ Exclusive'
      /\ \A u \in Tabs : Quieter(ref[u], ref'[u])
  BY <1>1, <1>2, Joins
<1> QED BY <1>1, <1>4, <1>5, <1>6, TabStep

\* getFreshAuthHeaders only starts or joins a refresh.
LEMMA FreshHeadersInv ==
    ASSUME TabsInv, NEW t \in Tabs, FreshHeaders(t)
    PROVE  TabsInv'
<1>1. UNCHANGED <<cookie, sess, tab, api, out, login, mail, orphans, signedOut, gap, blind, credit, faults>>
      /\ JoinOrStart(t) /\ Move
  BY DEF FreshHeaders, history
<1>2. TypeOK /\ Exclusive
  BY DEF TabsInv
<1>3. mail' \in [Tabs -> SUBSET Event] /\ Credited' /\ api' \in [Tabs -> Api] /\ tab' \in [Tabs -> Tab]
      /\ moves' \in 0..MaxMoves /\ faults' \in 0..MaxFaults
      /\ \A u \in Tabs : tab'[u].store \in {None, tab[u].store, ref[u].tok.sid}
  BY <1>1, Same
<1>4. /\ ref' \in [Tabs -> Ref] /\ lock' \in Seq(Tabs) /\ Exclusive'
      /\ \A u \in Tabs : Quieter(ref[u], ref'[u])
  BY <1>1, <1>2, Joins
<1> QED BY <1>1, <1>3, <1>4, TabStep

\* Going to the sign-in page changes no session.
LEMMA GoSignInInv ==
    ASSUME TabsInv, NEW t \in Tabs, GoSignIn(t)
    PROVE  TabsInv'
<1>1. UNCHANGED <<cookie, sess, ref, api, out, login, lock, mail, orphans, signedOut, gap, blind, credit, moves, faults>>
      /\ tab' = [tab EXCEPT ![t] = [tab[t] EXCEPT !.page = "signin"]]
  BY DEF GoSignIn, history
<1>2. tab[t] \in Tab
  BY DEF TabsInv, TypeOK
<1>3. PICK b \in Tab : b = [tab[t] EXCEPT !.page = "signin"] /\ b.store = tab[t].store
  <2>1. PICK s \in SidOrNone : s = None
    BY DEF SidOrNone
  <2> QED BY <1>2, StoreEdits
<1>4. tab' \in [Tabs -> Tab] /\ \A u \in Tabs : tab'[u].store \in {None, tab[u].store, ref[u].tok.sid}
  BY <1>1, <1>3, StorePut
<1>5. mail' \in [Tabs -> SUBSET Event] /\ Credited' /\ api' \in [Tabs -> Api]
      /\ moves' \in 0..MaxMoves /\ faults' \in 0..MaxFaults
      /\ ref' \in [Tabs -> Ref] /\ lock' \in Seq(Tabs) /\ Exclusive'
      /\ \A u \in Tabs : Quieter(ref[u], ref'[u])
  BY <1>1, Same
<1> QED BY <1>1, <1>4, <1>5, TabStep

\* An access token grows old in one tab only.
LEMMA AccessExpiresInv ==
    ASSUME TabsInv, NEW t \in Tabs, AccessExpires(t)
    PROVE  TabsInv'
<1>1. UNCHANGED <<cookie, sess, ref, api, out, login, lock, mail, orphans, signedOut, gap, blind, credit, moves, faults>>
      /\ tab' = [tab EXCEPT ![t] = [tab[t] EXCEPT !.access = "stale"]]
  BY DEF AccessExpires, history
<1>2. tab[t] \in Tab
  BY DEF TabsInv, TypeOK
<1>3. PICK b \in Tab : b = [tab[t] EXCEPT !.access = "stale"] /\ b.store = tab[t].store
  <2>1. PICK s \in SidOrNone : s = None
    BY DEF SidOrNone
  <2> QED BY <1>2, StoreEdits
<1>4. tab' \in [Tabs -> Tab] /\ \A u \in Tabs : tab'[u].store \in {None, tab[u].store, ref[u].tok.sid}
  BY <1>1, <1>3, StorePut
<1>5. mail' \in [Tabs -> SUBSET Event] /\ Credited' /\ api' \in [Tabs -> Api]
      /\ moves' \in 0..MaxMoves /\ faults' \in 0..MaxFaults
      /\ ref' \in [Tabs -> Ref] /\ lock' \in Seq(Tabs) /\ Exclusive'
      /\ \A u \in Tabs : Quieter(ref[u], ref'[u])
  BY <1>1, Same
<1> QED BY <1>1, <1>4, <1>5, TabStep

\* Sending a request of the HTTP client, the first time and again.
LEMMA RequestInv ==
    ASSUME TabsInv, NEW t \in Tabs, NEW retry \in {"yes", "no"}, Request(t, retry), moves' \in 0..MaxMoves
    PROVE  TabsInv'
<1>1. UNCHANGED <<cookie, sess, tab, ref, out, login, lock, mail, orphans, signedOut, gap, blind, credit>>
      /\ (faults' = faults \/ (faults < MaxFaults /\ faults' = faults + 1))
  BY DEF Request, history
<1>2. PICK p \in {"granted", "denied"} : api' = [api EXCEPT ![t] = [pc |-> p, sid |-> tab[t].store, retry |-> retry]]
  BY DEF Request
<1>3. api \in [Tabs -> Api] /\ tab[t].store \in SidOrNone
  BY FieldTypes DEF TabsInv, TypeOK
<1>4. [pc |-> p, sid |-> tab[t].store, retry |-> retry] \in Api
  BY <1>3 DEF Api
<1>5. api' \in [Tabs -> Api]
  BY <1>2, <1>3, <1>4
<1>6. mail' \in [Tabs -> SUBSET Event] /\ Credited' /\ tab' \in [Tabs -> Tab] /\ faults' \in 0..MaxFaults
      /\ ref' \in [Tabs -> Ref] /\ lock' \in Seq(Tabs) /\ Exclusive'
      /\ (\A u \in Tabs : Quieter(ref[u], ref'[u]))
      /\ \A u \in Tabs : tab'[u].store \in {None, tab[u].store, ref[u].tok.sid}
  BY <1>1, Same
<1> QED BY <1>1, <1>5, <1>6, TabStep

\* A request of the HTTP client, sent or sent again.
LEMMA CallsInv ==
    ASSUME TabsInv, NEW t \in Tabs, Call(t) \/ CallAgain(t)
    PROVE  TabsInv'
<1>1. moves' \in 0..MaxMoves
  BY Same DEF Call, CallAgain
<1>2. PICK retry \in {"yes", "no"} : Request(t, retry)
  BY DEF Call, CallAgain
<1> QED BY <1>1, <1>2, RequestInv

\* A reload abandons what is under way, at any point of it.
LEMMA ReloadInv ==
    ASSUME TabsInv, NEW t \in Tabs, Reload(t)
    PROVE  TabsInv'
<1>1. UNCHANGED <<sess, signedOut, gap, blind, credit, moves>> /\ faults < MaxFaults /\ faults' = faults + 1
      /\ Gone(t, tab[t].page, mail) /\ Abandoned(t)
  BY DEF Reload, history
<1>2. PICK page \in {"app", "signin"} : page = tab[t].page
  BY DEF TabsInv, TypeOK, Tab
<1>3. Credited' /\ credit' \in [Tabs -> Int]
  BY <1>1, GoneCredit DEF TabsInv, TypeOK
<1>4. moves' \in 0..MaxMoves /\ faults' \in 0..MaxFaults
  BY <1>1, Same
<1>5. Gone(t, page, mail)
  BY <1>1, <1>2
<1> QED BY <1>1, <1>3, <1>4, <1>5, GoneStep

\* The answer of a request of the HTTP client.
LEMMA DeliverCallInv ==
    ASSUME TabsInv, NEW t \in Tabs, DeliverCall(t)
    PROVE  TabsInv'
<1>1. TypeOK /\ Exclusive /\ Credited /\ api \in [Tabs -> Api] /\ tab \in [Tabs -> Tab] /\ tab[t] \in Tab
  BY DEF TabsInv, TypeOK
<1>2. api[t] \in Api /\ api[t].sid \in SidOrNone
  BY <1>1 DEF Api
<1>3. CASE /\ api' = [api EXCEPT ![t] = NoApi] /\ UNCHANGED <<tab, ref>>
           /\ UNCHANGED <<cookie, sess, out, login, lock, mail, orphans, signedOut, gap, blind, credit, moves, faults>>
  <2>1. api' \in [Tabs -> Api]
    BY <1>1, <1>3, BlankValues
  <2>2. mail' \in [Tabs -> SUBSET Event] /\ Credited' /\ tab' \in [Tabs -> Tab]
        /\ moves' \in 0..MaxMoves /\ faults' \in 0..MaxFaults
        /\ ref' \in [Tabs -> Ref] /\ lock' \in Seq(Tabs) /\ Exclusive'
        /\ (\A u \in Tabs : Quieter(ref[u], ref'[u]))
        /\ \A u \in Tabs : tab'[u].store \in {None, tab[u].store, ref[u].tok.sid}
    BY <1>3, Same
  <2> QED BY <1>3, <2>1, <2>2, TabStep
<1>4. CASE /\ api' = [api EXCEPT ![t] = NoApi] /\ Rotates(t)
           /\ tab' = [tab EXCEPT ![t] = SetBundle(tab[t], api[t].sid)]
           /\ ref' = [ref EXCEPT ![t] = EpochMoved(@)]
           /\ UNCHANGED <<cookie, sess, out, login, lock, mail, orphans, signedOut, gap, blind, credit, moves, faults>>
  <2>1. api' \in [Tabs -> Api]
    BY <1>1, <1>4, BlankValues
  <2>2. PICK b \in Tab : b = SetBundle(tab[t], api[t].sid) /\ b.store = tab[t].store
    <3>1. SetBundle(tab[t], api[t].sid) \in Tab /\ SetBundle(tab[t], api[t].sid).store = api[t].sid
      BY <1>1, <1>2, StoreEdits
    <3>2. api[t].sid = tab[t].store
      BY <1>4 DEF Rotates
    <3> QED BY <3>1, <3>2
  <2>3. tab' \in [Tabs -> Tab] /\ \A u \in Tabs : tab'[u].store \in {None, tab[u].store, ref[u].tok.sid}
    BY <1>4, <2>2, StorePut
  <2>4. /\ ref' \in [Tabs -> Ref] /\ lock' \in Seq(Tabs) /\ Exclusive'
        /\ \A u \in Tabs : Quieter(ref[u], ref'[u])
    BY <1>4, EpochPut
  <2>5. mail' \in [Tabs -> SUBSET Event] /\ Credited' /\ moves' \in 0..MaxMoves /\ faults' \in 0..MaxFaults
    BY <1>4, Same
  <2> QED BY <1>4, <2>1, <2>3, <2>4, <2>5, TabStep
<1>5. CASE /\ api' = [api EXCEPT ![t] = [pc |-> "refresh", sid |-> None, retry |-> "yes"]]
           /\ JoinOrStart(t)
           /\ UNCHANGED <<cookie, sess, tab, out, login, mail, orphans, signedOut, gap, blind, credit, moves, faults>>
  <2>1. [pc |-> "refresh", sid |-> None, retry |-> "yes"] \in Api
    BY DEF Api, SidOrNone
  <2>2. api' \in [Tabs -> Api]
    BY <1>1, <1>5, <2>1
  <2>3. mail' \in [Tabs -> SUBSET Event] /\ Credited' /\ tab' \in [Tabs -> Tab]
        /\ moves' \in 0..MaxMoves /\ faults' \in 0..MaxFaults
        /\ \A u \in Tabs : tab'[u].store \in {None, tab[u].store, ref[u].tok.sid}
    BY <1>5, Same
  <2>4. /\ ref' \in [Tabs -> Ref] /\ lock' \in Seq(Tabs) /\ Exclusive'
        /\ \A u \in Tabs : Quieter(ref[u], ref'[u])
    BY <1>1, <1>5, Joins
  <2> QED BY <1>5, <2>2, <2>3, <2>4, TabStep
<1>6. CASE /\ Gone(t, "signin", mail) /\ Abandoned(t)
           /\ UNCHANGED <<sess, signedOut, gap, blind, credit, moves, faults>>
  <2>1. PICK page \in {"app", "signin"} : page = "signin"
    OBVIOUS
  <2>2. Credited' /\ credit' \in [Tabs -> Int]
    BY <1>1, <1>6, GoneCredit DEF TypeOK
  <2>3. moves' \in 0..MaxMoves /\ faults' \in 0..MaxFaults
    BY <1>6, Same
  <2>4. Gone(t, page, mail)
    BY <1>6, <2>1
  <2> QED BY <1>6, <2>2, <2>3, <2>4, GoneStep
<1>7. CASE /\ tab' = [tab EXCEPT ![t] = Reset(tab[t], "complete")]
           /\ ref' = [ref EXCEPT ![t] = EpochMoved(@)] /\ api' = [api EXCEPT ![t] = NoApi]
           /\ UNCHANGED <<cookie, sess, out, login, lock, mail, orphans, signedOut, gap, blind, credit, moves, faults>>
  <2>1. api' \in [Tabs -> Api]
    BY <1>1, <1>7, BlankValues
  <2>2. PICK b \in Tab : b = Reset(tab[t], "complete") /\ b.store = None
    BY <1>1, <1>2, StoreEdits
  <2>3. tab' \in [Tabs -> Tab] /\ \A u \in Tabs : tab'[u].store \in {None, tab[u].store, ref[u].tok.sid}
    BY <1>7, <2>2, StorePut
  <2>4. /\ ref' \in [Tabs -> Ref] /\ lock' \in Seq(Tabs) /\ Exclusive'
        /\ \A u \in Tabs : Quieter(ref[u], ref'[u])
    BY <1>7, EpochPut
  <2>5. mail' \in [Tabs -> SUBSET Event] /\ Credited' /\ moves' \in 0..MaxMoves /\ faults' \in 0..MaxFaults
    BY <1>7, Same
  <2> QED BY <1>7, <2>1, <2>3, <2>4, <2>5, TabStep
<1> QED BY <1>3, <1>4, <1>5, <1>6, <1>7 DEF DeliverCall, history

\* Events of other tabs: a reload is paid for by the credit of its event.
LEMMA ReceiveInv ==
    ASSUME TabsInv, NEW t \in Tabs, NEW e \in mail[t], Receive(t, e)
    PROVE  TabsInv'
<1>1. TypeOK /\ Exclusive /\ Credited /\ mail \in [Tabs -> SUBSET Event] /\ tab[t] \in Tab
      /\ credit \in [Tabs -> Int]
  BY DEF TabsInv, TypeOK
<1>2. UNCHANGED <<sess, signedOut, gap, blind, moves, faults>>
  BY DEF Receive
<1>3. moves' \in 0..MaxMoves /\ faults' \in 0..MaxFaults
  BY <1>2, Same
<1>4. CASE /\ e.kind = "authenticated" /\ Gone(t, tab[t].page, mail) /\ Abandoned(t)
           /\ credit' = [credit EXCEPT ![t] = @ - 1]
  <2>1. PICK page \in {"app", "signin"} : page = tab[t].page
    BY <1>1 DEF Tab
  <2>2. Gone(t, page, mail)
    BY <1>4, <2>1
  <2>3. mail' = [mail EXCEPT ![t] = {}]
    BY <2>2 DEF Gone
  <2>4. credit' \in [Tabs -> Int] /\ credit'[t] = credit[t] - 1 /\ \A u \in Tabs : u # t => credit'[u] = credit[u]
    BY <1>1, <1>4
  <2>5. mail'[t] = {} /\ \A u \in Tabs : u # t => mail'[u] = mail[u]
    BY <1>1, <2>3
  <2>6. credit[t] >= 1
    <3>1. e \in Heard(t) /\ IsFiniteSet(Heard(t))
      BY <1>1, <1>4, FS_Subset DEF Heard, Credited
    <3>2. Cardinality(Heard(t)) # 0 /\ Cardinality(Heard(t)) \in Nat
      BY <3>1, FS_EmptySet, FS_CardinalityType
    <3>3. Cardinality(Heard(t)) <= credit[t] /\ credit[t] \in Int
      BY <1>1 DEF Credited
    <3> QED BY <3>2, <3>3
  <2>7. IsFiniteSet({}) /\ Cardinality({}) = 0
    BY FS_EmptySet
  <2>8. IsFiniteSet(mail'[t]) /\ Cardinality(Heard(t)') <= credit'[t]
    <3>1. Heard(t)' = {}
      BY <2>5 DEF Heard
    <3>2. credit[t] - 1 >= 0
      BY <1>1, <2>6
    <3>3. Cardinality(Heard(t)') = 0
      BY <2>7, <3>1
    <3> QED BY <2>4, <2>5, <2>7, <3>2, <3>3
  <2>9. ASSUME NEW u \in Tabs, u # t PROVE IsFiniteSet(mail'[u]) /\ Cardinality(Heard(u)') <= credit'[u]
    <3>1. Heard(u)' = Heard(u)
      BY <2>5, <2>9 DEF Heard
    <3>2. IsFiniteSet(mail[u]) /\ Cardinality(Heard(u)) <= credit[u]
      BY <1>1 DEF Credited
    <3> QED BY <2>4, <2>5, <2>9, <3>1, <3>2
  <2>10. Credited'
    BY <2>8, <2>9 DEF Credited
  <2> QED BY <1>2, <1>3, <1>4, <2>2, <2>4, <2>10, GoneStep
<1>5. CASE /\ tab' = [tab EXCEPT ![t] = [Reset(tab[t], "complete") EXCEPT !.page = "signin"]]
           /\ ref' = [ref EXCEPT ![t] = EpochMoved(@)] /\ mail' = [mail EXCEPT ![t] = @ \ {e}]
           /\ UNCHANGED <<cookie, api, out, login, lock, orphans, credit>>
  <2>1. PICK c \in Tab : c = Reset(tab[t], "complete") /\ c.store = None
    <3>1. PICK s \in SidOrNone : s = None
      BY DEF SidOrNone
    <3> QED BY <1>1, StoreEdits
  <2>2. PICK b \in Tab : b = [c EXCEPT !.page = "signin"] /\ b.store = None
    <3>1. PICK s \in SidOrNone : s = None
      BY DEF SidOrNone
    <3> QED BY <2>1, StoreEdits
  <2>3. tab' \in [Tabs -> Tab] /\ \A u \in Tabs : tab'[u].store \in {None, tab[u].store, ref[u].tok.sid}
    BY <1>5, <2>1, <2>2, StorePut
  <2>4. /\ ref' \in [Tabs -> Ref] /\ lock' \in Seq(Tabs) /\ Exclusive'
        /\ \A u \in Tabs : Quieter(ref[u], ref'[u])
    BY <1>5, EpochPut
  <2>5. mail' \in [Tabs -> SUBSET Event] /\ \A u \in Tabs : mail'[u] \subseteq mail[u]
    BY <1>1, <1>5
  <2>6. Credited'
    <3>1. \A u \in Tabs : IsFiniteSet(mail'[u]) /\ Heard(u)' \subseteq Heard(u)
      BY <1>1, <2>5, FS_Subset DEF Heard, Credited
    <3> QED BY <1>1, <1>5, <3>1, CreditStays
  <2>7. api' \in [Tabs -> Api]
    BY <1>5, Same
  <2> QED BY <1>2, <1>3, <1>5, <2>3, <2>4, <2>5, <2>6, <2>7, TabStep
<1>6. CASE /\ mail' = [mail EXCEPT ![t] = @ \ {e}]
           /\ UNCHANGED <<cookie, tab, ref, api, out, login, lock, orphans, credit>>
  <2>1. mail' \in [Tabs -> SUBSET Event] /\ \A u \in Tabs : mail'[u] \subseteq mail[u]
    BY <1>1, <1>6
  <2>2. Credited'
    <3>1. \A u \in Tabs : IsFiniteSet(mail'[u]) /\ Heard(u)' \subseteq Heard(u)
      BY <1>1, <2>1, FS_Subset DEF Heard, Credited
    <3> QED BY <1>1, <1>6, <3>1, CreditStays
  <2>3. api' \in [Tabs -> Api] /\ tab' \in [Tabs -> Tab]
        /\ ref' \in [Tabs -> Ref] /\ lock' \in Seq(Tabs) /\ Exclusive'
        /\ (\A u \in Tabs : Quieter(ref[u], ref'[u]))
        /\ \A u \in Tabs : tab'[u].store \in {None, tab[u].store, ref[u].tok.sid}
    BY <1>6, Same
  <2> QED BY <1>2, <1>3, <1>6, <2>1, <2>2, <2>3, TabStep
<1> QED BY <1>4, <1>5, <1>6 DEF Receive

\* A runner ends with the answer of its request.
LEMMA RunnerEnds ==
    ASSUME TabsInv, NEW t \in Tabs, NEW outcome, NEW tb \in Tab,
           NEW events \in {mail, Publish(t, "signed_out", tab[t].store)},
           Finish(t, outcome, tb, events), tb.store \in {None, tab[t].store, ref[t].tok.sid},
           cookie' \in {cookie, NoToken} \/ (Won(t) /\ cookie' = ref[t].tok),
           UNCHANGED <<sess, orphans, signedOut, gap, blind, credit, moves, faults>>
    PROVE  TabsInv'
<1>1. TypeOK /\ Exclusive /\ Credited /\ mail \in [Tabs -> SUBSET Event] /\ cookie \in Token
      /\ credit \in [Tabs -> Int] /\ orphans \subseteq Token
  BY DEF TabsInv, TypeOK
<1>2. PICK s \in SidOrNone : s = tab[t].store
  BY <1>1, FieldTypes
<1>3. Publish(t, "signed_out", s) \in [Tabs -> SUBSET Event]
  <2>1. PICK kind \in {"authenticated", "signed_out"} : kind = "signed_out"
    OBVIOUS
  <2>2. Publish(t, kind, s) \in [Tabs -> SUBSET Event]
    BY <1>1, PublishFacts
  <2> QED BY <2>1, <2>2
<1> HIDE DEF Publish
<1>4. events \in [Tabs -> SUBSET Event]
  BY <1>1, <1>2, <1>3
<1>5. Ends(t, {None, tb.store}, events)
  BY <1>1, <1>4, FinishEnds
<1>6. Credited'
  <2>1. \A u \in Tabs : mail'[u] \subseteq Publish(t, "signed_out", s)[u] \/ mail'[u] \subseteq mail[u]
    BY <1>2, <1>5 DEF Ends
  <2> QED BY <1>1, <2>1, QuietCredit
<1>7. ref'[t].pc = "none"
  BY <1>1, <1>5, Done, BlankValues DEF Ends
<1>8. cookie' \in Token
  BY <1>1, FieldTypes, BlankValues
<1>9. CookieFrom /\ OrphansFrom
  BY <1>7 DEF CookieFrom, OrphansFrom
<1>10. moves' \in 0..MaxMoves /\ faults' \in 0..MaxFaults
  BY Same
<1>11. {None, tb.store} \subseteq {None, tab[t].store, ref[t].tok.sid}
  OBVIOUS
<1> QED BY <1>1, <1>5, <1>6, <1>8, <1>9, <1>10, <1>11, EndsStep

\* A runner goes back to the lock's queue, whose head it is.
LEMMA RunnerAgain ==
    ASSUME TabsInv, NEW t \in Tabs, NEW r \in Ref, ref' = [ref EXCEPT ![t] = r],
           ref[t].pc = "served", r.pc = "queued", r.tok \in {NoToken, ref[t].tok},
           tab' \in [Tabs -> Tab], \A u \in Tabs : tab'[u].store \in {None, tab[u].store, ref[u].tok.sid},
           UNCHANGED <<cookie, sess, api, out, login, lock, mail, orphans, signedOut, gap, blind, credit, moves, faults>>
    PROVE  TabsInv'
<1>1. ref \in [Tabs -> Ref] /\ lock \in Seq(Tabs) /\ Exclusive
  BY DEF TabsInv, TypeOK
<1>2. ref' \in [Tabs -> Ref] /\ ref'[t] = r /\ \A u \in Tabs : u # t => ref'[u] = ref[u]
  BY <1>1
<1>3. Exclusive'
  BY <1>1, <1>2, ExclusiveStays
<1>4. \A u \in Tabs : Quieter(ref[u], ref'[u])
  BY <1>1, <1>2, Superseded DEF Quieter
<1>5. mail' \in [Tabs -> SUBSET Event] /\ Credited' /\ api' \in [Tabs -> Api]
      /\ moves' \in 0..MaxMoves /\ faults' \in 0..MaxFaults
  BY Same
<1> QED BY <1>1, <1>2, <1>3, <1>4, <1>5, TabStep

\* The answer of a refresh.
LEMMA DeliverInv ==
    ASSUME TabsInv, NEW t \in Tabs, Deliver(t)
    PROVE  TabsInv'
<1>1. TypeOK /\ tab[t] \in Tab /\ ref[t] \in Ref /\ tab \in [Tabs -> Tab]
  BY DEF TabsInv, TypeOK
<1>2. /\ ref[t].pc = "served"
      /\ cookie' \in {cookie, NoToken} \/ (Won(t) /\ cookie' = ref[t].tok)
      /\ ref[t].ans # "ok" => cookie' \in {cookie, NoToken}
      /\ ref[t].ans \in {"race", "mismatch"} => cookie' = cookie
      /\ UNCHANGED <<sess, orphans, signedOut, gap, blind, credit, moves, faults>>
  BY DEF Deliver, history, Won
<1>3. PICK s \in SidOrNone : s = ref[t].tok.sid
  BY <1>1, FieldTypes
<1>4. ASSUME NEW tb \in Tab, NEW outcome, NEW events \in {mail, Publish(t, "signed_out", tab[t].store)},
             Finish(t, outcome, tb, events), tb.store \in {None, tab[t].store, ref[t].tok.sid}
      PROVE  TabsInv'
  BY <1>2, <1>4, RunnerEnds
<1>5. CASE Finish(t, "transient", tab[t], mail)
  BY <1>1, <1>4, <1>5
<1>6. CASE Finish(t, "authenticated", SetBundle(tab[t], ref[t].tok.sid), Accepted(t))
  <2>1. PICK b \in Tab : b = SetBundle(tab[t], ref[t].tok.sid) /\ b.store = ref[t].tok.sid
    BY <1>1, <1>3, StoreEdits
  <2>2. Finish(t, "authenticated", b, mail)
    BY <1>6, <2>1 DEF Accepted
  <2> QED BY <1>4, <2>1, <2>2
<1>7. CASE /\ ref[t].ans = "race" /\ ref[t].race < RaceDelays
           /\ ref' = [ref EXCEPT ![t] = [ref[t] EXCEPT !.pc = "queued", !.race = @ + 1, !.ans = "none"]]
           /\ UNCHANGED <<tab, api, out, login, lock, mail>>
  <2>1. PICK r \in Ref : /\ r = [ref[t] EXCEPT !.pc = "queued", !.race = ref[t].race + 1, !.ans = "none"]
                         /\ r.pc = "queued" /\ r.tok = ref[t].tok
    <3>1. ref[t].race + 1 \in 0..RaceDelays
      BY <1>1, <1>7, BoundsAssumption DEF Ref
    <3>2. \A q \in Ref, n \in 0..RaceDelays :
            LET r == [q EXCEPT !.pc = "queued", !.race = n, !.ans = "none"]
            IN  r \in Ref /\ r.pc = "queued" /\ r.tok = q.tok
      BY DEF Ref, Answers
    <3> QED BY <1>1, <3>1, <3>2
  <2>2. ref' = [ref EXCEPT ![t] = r]
    <3>1. ref' = [ref EXCEPT ![t] = [ref[t] EXCEPT !.pc = "queued", !.race = ref[t].race + 1, !.ans = "none"]]
      BY <1>7
    <3> QED BY <2>1, <3>1, Zenon
  <2>3. tab' \in [Tabs -> Tab] /\ \A u \in Tabs : tab'[u].store \in {None, tab[u].store, ref[u].tok.sid}
    BY <1>7, Same
  <2> QED BY <1>2, <1>7, <2>1, <2>2, <2>3, RunnerAgain
<1>8. CASE /\ ref[t].ans = "mismatch"
           /\ ref' = [ref EXCEPT ![t] = [NoRef EXCEPT !.pc = "queued", !.again = "no"]]
           /\ tab' = [tab EXCEPT ![t] = Reset(tab[t], "idle")]
           /\ UNCHANGED <<api, out, login, lock, mail>>
  <2>1. PICK r \in Ref : r = [NoRef EXCEPT !.pc = "queued", !.again = "no"] /\ r.pc = "queued" /\ r.tok = NoToken
    <3>1. \A q \in Ref : LET r == [q EXCEPT !.pc = "queued", !.again = "no"]
                         IN  r \in Ref /\ r.pc = "queued" /\ r.tok = q.tok
      BY DEF Ref
    <3> QED BY <3>1, BlankValues
  <2>2. PICK b \in Tab : b = Reset(tab[t], "idle") /\ b.store = None
    BY <1>1, <1>3, StoreEdits
  <2>3. tab' \in [Tabs -> Tab] /\ \A u \in Tabs : tab'[u].store \in {None, tab[u].store, ref[u].tok.sid}
    BY <1>8, <2>2, StorePut
  <2>4. ref' = [ref EXCEPT ![t] = r]
    BY <1>8, <2>1
  <2> QED BY <1>2, <1>8, <2>1, <2>3, <2>4, RunnerAgain
<1>9. CASE Finish(t, "anonymous", Reset(tab[t], "complete"), Publish(t, "signed_out", tab[t].store))
  <2>1. PICK b \in Tab : b = Reset(tab[t], "complete") /\ b.store = None
    BY <1>1, <1>3, StoreEdits
  <2>2. PICK events : events = Publish(t, "signed_out", tab[t].store)
    OBVIOUS
  <2>3. Finish(t, "anonymous", b, events)
    BY <1>9, <2>1, <2>2
  <2> QED BY <1>4, <2>1, <2>2, <2>3
<1>10. CASE Finish(t, "transient", [tab[t] EXCEPT !.boot = "idle"], mail)
  <2>1. PICK b \in Tab : b = [tab[t] EXCEPT !.boot = "idle"] /\ b.store = tab[t].store
    BY <1>1, <1>3, StoreEdits
  <2>2. Finish(t, "transient", b, mail)
    BY <1>10, <2>1
  <2> QED BY <1>4, <2>1, <2>2
<1>11. CASE Finish(t, "out_of_sync", Reset(tab[t], "complete"), mail)
  <2>1. PICK b \in Tab : b = Reset(tab[t], "complete") /\ b.store = None
    BY <1>1, <1>3, StoreEdits
  <2>2. Finish(t, "out_of_sync", b, mail)
    BY <1>11, <2>1
  <2> QED BY <1>4, <2>1, <2>2
<1> QED BY <1>5, <1>6, <1>7, <1>8, <1>9, <1>10, <1>11 DEF Deliver

\* A sign-in's answer: its session is new to the browser, and each tab that is
\* told of it gets the credit to reload.
LEMMA SignInDoneInv ==
    ASSUME TabsInv, NEW t \in Tabs, SignInDone(t)
    PROVE  TabsInv'
<1> USE SidsAssumption
<1>1. TypeOK /\ Exclusive /\ Credited /\ tab[t] \in Tab /\ login \in [Tabs -> SidOrNone]
      /\ mail \in [Tabs -> SUBSET Event] /\ credit \in [Tabs -> Int] /\ tab \in [Tabs -> Tab]
  BY DEF TabsInv, TypeOK
<1>2. PICK s \in SidOrNone : s = login[t]
  BY <1>1
<1>3. /\ s # None /\ cookie' = [sid |-> s, gen |-> 1]
      /\ tab' = [tab EXCEPT ![t] = [SetBundle(tab[t], s) EXCEPT !.page = "app"]]
      /\ ref' = [ref EXCEPT ![t] = EpochMoved(@)]
      /\ mail' = Publish(t, "authenticated", s)
      /\ credit' = [u \in Tabs |-> IF mail'[u] = mail[u] THEN credit[u] ELSE credit[u] + 1]
      /\ login' = [login EXCEPT ![t] = None]
      /\ UNCHANGED <<sess, api, out, lock, orphans, signedOut, gap, blind, moves, faults>>
  BY <1>2 DEF SignInDone
<1>4. PICK kind \in {"authenticated", "signed_out"} : kind = "authenticated"
  OBVIOUS
<1>5. PICK e : e = [kind |-> kind, sid |-> s]
  OBVIOUS
<1>6. /\ mail' \in [Tabs -> SUBSET Event]
      /\ \A u \in Tabs : IsFiniteSet(mail'[u]) /\ (mail'[u] = mail[u] \/ mail'[u] = mail[u] \cup {e})
  <2>1. mail' = Publish(t, kind, s)
    BY <1>3, <1>4
  <2> HIDE DEF Publish
  <2> QED BY <1>1, <1>5, <2>1, PublishFacts
<1>7. \A u \in Tabs : credit'[u] = IF mail'[u] = mail[u] THEN credit[u] ELSE credit[u] + 1
  BY <1>3
<1>8. Credited'
  <2> SUFFICES ASSUME NEW u \in Tabs PROVE Cardinality(Heard(u)') <= credit'[u]
    BY <1>6 DEF Credited
  <2>1. Cardinality(Heard(u)) <= credit[u] /\ IsFiniteSet(mail[u]) /\ credit[u] \in Int
    BY <1>1 DEF Credited
  <2>2. IsFiniteSet(Heard(u)) /\ Cardinality(Heard(u)) \in Nat
    BY <2>1, FS_Subset, FS_CardinalityType DEF Heard
  <2>3. CASE mail'[u] = mail[u]
    <3>1. Heard(u)' = Heard(u)
      BY <2>3 DEF Heard
    <3> QED BY <1>7, <2>1, <2>3, <3>1
  <2>4. CASE mail'[u] # mail[u]
    <3>1. Heard(u)' \subseteq Heard(u) \cup {e}
      BY <1>6, <2>4 DEF Heard
    <3>2. IsFiniteSet(Heard(u) \cup {e}) /\ Cardinality(Heard(u) \cup {e}) <= Cardinality(Heard(u)) + 1
          /\ Cardinality(Heard(u) \cup {e}) \in Nat
      <4>1. IsFiniteSet(Heard(u) \cup {e})
            /\ Cardinality(Heard(u) \cup {e}) = IF e \in Heard(u) THEN Cardinality(Heard(u)) ELSE Cardinality(Heard(u)) + 1
        BY <2>2, FS_AddElement
      <4> QED BY <2>2, <4>1
    <3>3. Cardinality(Heard(u)') <= Cardinality(Heard(u) \cup {e}) /\ Cardinality(Heard(u)') \in Nat
      BY <3>1, <3>2, FS_Subset, FS_CardinalityType
    <3> QED BY <1>7, <2>1, <2>2, <2>4, <3>2, <3>3
  <2> QED BY <2>3, <2>4
<1>9. PICK b \in Tab : b = [SetBundle(tab[t], s) EXCEPT !.page = "app"] /\ b.store = s
  <2>1. PICK c \in Tab : c = SetBundle(tab[t], s) /\ c.store = s
    <3>1. SetBundle(tab[t], s) \in Tab /\ SetBundle(tab[t], s).store = s
      BY <1>1, StoreEdits
    <3> QED BY <3>1
  <2>2. [c EXCEPT !.page = "app"] \in Tab /\ [c EXCEPT !.page = "app"].store = c.store
    BY StoreEdits
  <2> QED BY <2>1, <2>2
<1>10. tab' \in [Tabs -> Tab] /\ tab'[t].store = s /\ \A u \in Tabs : u # t => tab'[u] = tab[u]
  BY <1>1, <1>3, <1>9
<1>11. login' \in [Tabs -> SidOrNone] /\ login'[t] = None /\ \A u \in Tabs : login'[u] \in {login[u], None}
  BY <1>1, <1>3 DEF SidOrNone
<1>12. /\ ref' \in [Tabs -> Ref] /\ lock' \in Seq(Tabs) /\ Exclusive'
       /\ \A u \in Tabs : Quieter(ref[u], ref'[u])
  BY <1>3, EpochPut
<1>13. credit' \in [Tabs -> Int]
  BY <1>1, <1>3
<1>14. cookie' \in Token
  BY <1>3 DEF Token
<1>15. TypeOK'
  BY <1>1, <1>3, <1>6, <1>10, <1>11, <1>12, <1>13, <1>14 DEF TypeOK
<1>16. CookieFrom /\ OrphansFrom /\ SignOutsFrom
  BY <1>2, <1>3, <1>11 DEF CookieFrom, OrphansFrom, SignOutsFrom
<1>17. \A u \in Tabs : StoreFrom(u)
  BY <1>2, <1>10, <1>11 DEF StoreFrom
<1> QED BY <1>3, <1>8, <1>11, <1>12, <1>15, <1>16, <1>17, ClientStep

\* The answer of a sign-out: a session it ended is over, a refresh under way
\* is superseded.
LEMMA DeliverOutInv ==
    ASSUME TabsInv, NEW t \in Tabs, DeliverOut(t)
    PROVE  TabsInv'
<1> USE SidsAssumption
<1>1. TypeOK /\ Exclusive /\ Credited /\ Arrived /\ Leaving /\ tab[t] \in Tab /\ out \in [Tabs -> Out]
      /\ mail \in [Tabs -> SUBSET Event] /\ cookie \in Token /\ signedOut \subseteq (Tabs \X Sids)
  BY DEF TabsInv, TypeOK
<1>2. /\ out[t].pc = "served" /\ cookie' \in {cookie, NoToken}
      /\ UNCHANGED <<sess, api, login, orphans, gap, blind, credit, moves, faults>>
  BY DEF DeliverOut
<1>3. cookie' \in Token /\ CookieFrom /\ OrphansFrom
  BY <1>1, <1>2, BlankValues DEF CookieFrom, OrphansFrom
<1>4. PICK s \in SidOrNone : s = tab[t].store
  BY <1>1, FieldTypes
<1>5. ASSUME NEW x \in Out, out' = [out EXCEPT ![t] = x], x.pc # "served", x.exp = None
      PROVE  /\ out' \in [Tabs -> Out]
             /\ \A u \in Tabs : out'[u] = out[u] \/ (out'[u].pc # "served" /\ out'[u].exp \in {None, out[u].exp})
  <2>1. out'[t] = x /\ \A u \in Tabs : u # t => out'[u] = out[u]
    BY <1>1, <1>5
  <2> QED BY <1>1, <1>5, <2>1
<1>6. CASE /\ out[t].ans = "ok"
           /\ tab' = [tab EXCEPT ![t] = [Reset(tab[t], "complete") EXCEPT !.page = "signin"]]
           /\ ref' = [ref EXCEPT ![t] = EpochMoved(@)]
           /\ mail' = Publish(t, "signed_out", tab[t].store)
           /\ out' = [out EXCEPT ![t] = NoOut]
           /\ signedOut' = signedOut \cup ({<<t, out[t].exp>>} \cap (Tabs \X Sids))
           /\ UNCHANGED lock
  <2>1. PICK c \in Tab : c = Reset(tab[t], "complete") /\ c.store = None
    BY <1>1, <1>4, StoreEdits
  <2>2. PICK b \in Tab : b = [c EXCEPT !.page = "signin"] /\ b.store = None
    <3>1. [c EXCEPT !.page = "signin"] \in Tab /\ [c EXCEPT !.page = "signin"].store = c.store
      BY <1>4, StoreEdits
    <3> QED BY <2>1, <3>1
  <2>3. tab' \in [Tabs -> Tab] /\ \A u \in Tabs : tab'[u].store \in {None, tab[u].store, ref[u].tok.sid}
    BY <1>6, <2>1, <2>2, StorePut
  <2>4. /\ ref' \in [Tabs -> Ref] /\ lock' \in Seq(Tabs) /\ Exclusive'
        /\ \A u \in Tabs : Quieter(ref[u], ref'[u])
        /\ ref[t].pc # "none" => ref'[t].cur = "no"
        /\ ref'[t].pc = ref[t].pc
    BY <1>6, EpochPut
  <2>5. mail' \in [Tabs -> SUBSET Event]
    <3>1. PICK kind \in {"authenticated", "signed_out"} : kind = "signed_out"
      OBVIOUS
    <3>2. Publish(t, kind, s) \in [Tabs -> SUBSET Event]
      BY <1>1, PublishFacts
    <3> QED BY <1>4, <1>6, <3>1, <3>2
  <2>6. Credited'
    <3>1. mail' = Publish(t, "signed_out", s)
      BY <1>4, <1>6
    <3> HIDE DEF Publish
    <3>2. \A u \in Tabs : mail'[u] \subseteq Publish(t, "signed_out", s)[u] \/ mail'[u] \subseteq mail[u]
      BY <3>1
    <3> QED BY <1>1, <1>2, <3>2, QuietCredit
  <2>7. /\ out' \in [Tabs -> Out]
        /\ \A u \in Tabs : out'[u] = out[u] \/ (out'[u].pc # "served" /\ out'[u].exp \in {None, out[u].exp})
    BY <1>5, <1>6, BlankValues
  <2>8. signedOut' \subseteq (Tabs \X Sids)
    BY <1>1, <1>6
  <2>9. SignOutsFrom
    <3> SUFFICES ASSUME NEW u \in Tabs, NEW q \in Sids, <<u, q>> \in signedOut', <<u, q>> \notin signedOut
                 PROVE  Dead(q) /\ Issued(q) /\ (Won(u)' => ref'[u].cur = "no")
      BY DEF SignOutsFrom
    <3>1. u = t /\ q = out[t].exp
      BY <1>6
    <3>2. Dead(q) /\ Issued(q)
      BY <1>1, <1>2, <1>6, <3>1 DEF Leaving, Arrived
    <3>3. Won(u)' => ref'[u].cur = "no"
      BY <2>4, <3>1 DEF Won
    <3> QED BY <3>2, <3>3
  <2>10. TypeOK'
    BY <1>1, <1>2, <1>3, <2>3, <2>4, <2>5, <2>7, <2>8 DEF TypeOK
  <2>11. \A u \in Tabs : StoreFrom(u)
    BY <2>3 DEF StoreFrom
  <2> QED BY <1>2, <1>3, <2>4, <2>6, <2>7, <2>9, <2>10, <2>11, ClientStep
<1>7. CASE /\ JoinOrStart(t)
           /\ out' = [out EXCEPT ![t] = [NoOut EXCEPT !.pc = "refresh", !.again = "no"]]
           /\ UNCHANGED <<tab, mail, signedOut>>
  <2>1. PICK x \in Out : x = [NoOut EXCEPT !.pc = "refresh", !.again = "no"] /\ x.pc = "refresh" /\ x.exp = None
    <3>1. \A q \in Out : LET x == [q EXCEPT !.pc = "refresh", !.again = "no"]
                         IN  x \in Out /\ x.pc = "refresh" /\ x.exp = q.exp
      BY DEF Out
    <3> QED BY <3>1, BlankValues
  <2>2. /\ out' \in [Tabs -> Out]
        /\ \A u \in Tabs : out'[u] = out[u] \/ (out'[u].pc # "served" /\ out'[u].exp \in {None, out[u].exp})
    BY <1>5, <1>7, <2>1
  <2>3. /\ ref' \in [Tabs -> Ref] /\ lock' \in Seq(Tabs) /\ Exclusive'
        /\ \A u \in Tabs : Quieter(ref[u], ref'[u])
    BY <1>1, <1>7, Joins
  <2>4. Credited'
    BY <1>2, <1>7, Same
  <2>5. TypeOK'
    BY <1>1, <1>2, <1>3, <1>7, <2>2, <2>3 DEF TypeOK
  <2>6. SignOutsFrom /\ \A u \in Tabs : StoreFrom(u)
    BY <1>7 DEF SignOutsFrom, StoreFrom
  <2> QED BY <1>2, <1>3, <2>2, <2>3, <2>4, <2>5, <2>6, ClientStep
<1>8. CASE /\ out' = [out EXCEPT ![t] = NoOut] /\ UNCHANGED <<tab, ref, lock, mail, signedOut>>
  <2>1. /\ out' \in [Tabs -> Out]
        /\ \A u \in Tabs : out'[u] = out[u] \/ (out'[u].pc # "served" /\ out'[u].exp \in {None, out[u].exp})
    BY <1>5, <1>8, BlankValues
  <2>2. Credited' /\ Exclusive' /\ \A u \in Tabs : Quieter(ref[u], ref'[u])
    BY <1>2, <1>8, Same
  <2>3. TypeOK'
    BY <1>1, <1>2, <1>3, <1>8, <2>1 DEF TypeOK
  <2>4. SignOutsFrom /\ \A u \in Tabs : StoreFrom(u)
    BY <1>8 DEF SignOutsFrom, StoreFrom
  <2> QED BY <1>2, <1>3, <2>1, <2>2, <2>3, <2>4, ClientStep
<1> QED BY <1>6, <1>7, <1>8 DEF DeliverOut

(***************************************************************************)
(* The server's steps.                                                      *)
(***************************************************************************)

\* What a rotation does to the sessions.
LEMMA Rotated ==
    ASSUME TypeOK, NEW k \in Token, Rotate(k)
    PROVE  /\ sess' \in [Sids -> [st : {"none", "active", "revoked", "reused"}, gen : Nat, grace : {"open", "over"}]]
           /\ \/ sess' = sess
              \/ /\ Current(k) /\ k.sid \in Sids /\ \A s \in Sids : s # k.sid => sess'[s] = sess[s]
                 /\ sess'[k.sid].st = "active" /\ sess'[k.sid].gen = k.gen + 1 /\ sess'[k.sid].grace = "open"
              \/ /\ Previous(k) /\ k.sid \in Sids /\ \A s \in Sids : s # k.sid => sess'[s] = sess[s]
                 /\ sess[k.sid].grace = "over"
                 /\ sess'[k.sid].st = "reused" /\ sess'[k.sid].gen = sess[k.sid].gen /\ sess'[k.sid].grace = "over"
<1> DEFINE S == [st : {"none", "active", "revoked", "reused"}, gen : Nat, grace : {"open", "over"}]
<1>1. sess \in [Sids -> S] /\ k.gen \in Nat /\ k.sid \in SidOrNone
  BY DEF TypeOK, Token
<1>2. CASE Current(k)
  <2>1. k.sid \in Sids /\ sess[k.sid].st = "active" /\ sess[k.sid].gen = k.gen
    BY <1>1, <1>2 DEF Current, Valid, SidOrNone
  <2>2. sess' = [sess EXCEPT ![k.sid].gen = @ + 1, ![k.sid].grace = "open"]
    BY <1>2 DEF Rotate
  <2>3. /\ sess' \in [Sids -> S] /\ \A s \in Sids : s # k.sid => sess'[s] = sess[s]
        /\ sess'[k.sid].st = "active" /\ sess'[k.sid].gen = k.gen + 1 /\ sess'[k.sid].grace = "open"
    BY <1>1, <2>1, <2>2
  <2> QED BY <1>2, <2>1, <2>3
<1>3. CASE ~Current(k) /\ Previous(k) /\ sess[k.sid].grace = "over"
  <2>1. k.sid \in Sids
    BY <1>1, <1>3 DEF Previous, Valid, SidOrNone
  <2>2. sess' = [sess EXCEPT ![k.sid].st = "reused"]
    BY <1>3 DEF Rotate
  <2>3. /\ sess' \in [Sids -> S] /\ \A s \in Sids : s # k.sid => sess'[s] = sess[s]
        /\ sess'[k.sid].st = "reused" /\ sess'[k.sid].gen = sess[k.sid].gen /\ sess'[k.sid].grace = "over"
    BY <1>1, <1>3, <2>1, <2>2
  <2> QED BY <1>3, <2>1, <2>3
<1>4. CASE ~Current(k) /\ ~(Previous(k) /\ sess[k.sid].grace = "over")
  <2>1. sess' = sess
    BY <1>4 DEF Rotate
  <2> QED BY <1>1, <2>1
<1> QED BY <1>2, <1>3, <1>4

\* The server's answer to a refresh with token k reaches the tab's request.
NewAnswer(u, k) ==
    /\ ref[u].pc = "sent" /\ k = ref[u].tok /\ ref'[u].pc = "served"
    /\ \/ ref'[u].ans # "ok" /\ ref'[u].tok = NoToken
       \/ /\ Valid(k) /\ ref'[u].tok = Refreshed(k)
          /\ sess'[k.sid].gen = k.gen + 1 /\ sess'[k.sid].grace = "open"

\* A rotation keeps the invariant if nobody who may send a token of the session
\* has one older than the token it is for, no answer is on its way that it would
\* outdate, and a token that looks stolen is of a session that may look so.
LEMMA RotationStep ==
    ASSUME TabsInv, NEW k \in Token, Rotate(k) \/ sess' = sess, TypeOK',
           k.sid # None => Issued(k.sid), orphans' \subseteq orphans,
           UNCHANGED <<cookie, tab, api, out, login, lock, mail, signedOut, gap, blind, credit>>,
           \A u \in Tabs : ref'[u] = ref[u] \/ NewAnswer(u, k),
           k.sid # None /\ cookie.sid = k.sid => cookie.gen >= k.gen,
           \A u \in Tabs : ref[u].pc = "sent" /\ k.sid # None /\ ref[u].tok.sid = k.sid => ref[u].tok.gen >= k.gen,
           \A u \in Tabs : Won(u) /\ ref[u].tok.sid = k.sid => ~Current(k),
           Previous(k) /\ sess[k.sid].grace = "over" => k.sid \in gap
    PROVE  TabsInv'
<1> USE SidsAssumption
<1>1. TypeOK /\ Exclusive /\ Arriving /\ Arrived /\ InStep /\ NoFalseReuse /\ SignOutRevokes /\ Leaving /\ Credited
  BY DEF TabsInv
<1>2. /\ \A t \in Tabs : /\ ref[t].tok.sid \in SidOrNone /\ ref[t].tok.gen \in Nat /\ login[t] \in SidOrNone
                         /\ tab[t].store \in SidOrNone /\ out[t].exp \in SidOrNone
      /\ \A j \in orphans : j.sid \in SidOrNone /\ j.gen \in Nat
      /\ \A s \in Sids : sess[s].gen \in Nat
      /\ cookie.sid \in SidOrNone /\ cookie.gen \in Nat
  BY <1>1, FieldTypes
<1>3. k.gen \in Nat /\ k.sid \in SidOrNone
  BY DEF Token
<1>4. \/ sess' = sess
      \/ /\ Current(k) /\ k.sid \in Sids /\ \A s \in Sids : s # k.sid => sess'[s] = sess[s]
         /\ sess'[k.sid].st = "active" /\ sess'[k.sid].gen = k.gen + 1 /\ sess'[k.sid].grace = "open"
      \/ /\ Previous(k) /\ k.sid \in Sids /\ \A s \in Sids : s # k.sid => sess'[s] = sess[s]
         /\ sess[k.sid].grace = "over" /\ k.sid \in gap
         /\ sess'[k.sid].st = "reused" /\ sess'[k.sid].gen = sess[k.sid].gen /\ sess'[k.sid].grace = "over"
  BY <1>1, Rotated
<1>5. \A s \in Sids : (sess'[s].st = "none") = (sess[s].st = "none")
  BY <1>4 DEF Current, Previous, Valid
<1>6. \A s \in Sids : Issued(s)' = Issued(s)
  BY <1>5 DEF Issued
<1>7. \A s \in Sids : (Dead(s) => Dead(s)') /\ (Settled(s)' => Settled(s) /\ sess'[s].gen = sess[s].gen)
  BY <1>4 DEF Dead, Settled, Current, Previous, Valid
<1>8. Exclusive'
  BY <1>1 DEF Exclusive, NewAnswer
<1>9. Arriving'
  <2>1. ASSUME NEW t \in Tabs, login[t] # None PROVE sess'[login[t]] = sess[login[t]]
    <3>1. login[t] \in Sids
      BY <1>2, <2>1 DEF SidOrNone
    <3>2. k.sid # None => login[t] # k.sid
      BY DEF Issued
    <3> QED BY <1>4, <3>1, <3>2
  <2>2. \A s \in Sids : sess'[s].st = "none" => sess'[s].grace = "over"
    BY <1>1, <1>4 DEF Arriving
  <2>3. ASSUME NEW t \in Tabs, login[t] # None
        PROVE  /\ sess'[login[t]].st # "none" /\ sess'[login[t]].gen = 1 /\ sess'[login[t]].grace = "over"
               /\ \A u \in Tabs : login[u] = login[t] => u = t
    BY <1>1, <2>1, <2>3 DEF Arriving
  <2> QED BY <2>2, <2>3 DEF Arriving
<1>10. \A u \in Tabs : ref'[u].tok = ref[u].tok \/ ref'[u].tok = NoToken \/ (ref'[u].tok = Refreshed(k) /\ k = ref[u].tok)
  BY DEF NewAnswer
<1>11. Refreshed(k).sid = k.sid /\ Refreshed(k).gen = k.gen + 1
  BY <1>3 DEF Refreshed, Token
<1>12. Arrived'
  <2>1. cookie.sid # None => Issued(cookie.sid)'
    BY <1>1, <1>2, <1>6 DEF Arrived, SidOrNone
  <2>2. ASSUME NEW j \in orphans', j.sid # None PROVE Issued(j.sid)'
    BY <1>1, <1>2, <1>6, <2>2 DEF Arrived, SidOrNone
  <2>3. ASSUME NEW t \in Tabs, ref'[t].tok.sid # None PROVE Issued(ref[t].tok.sid)'
    <3>1. ref'[t].tok.sid = ref[t].tok.sid
      BY <1>10, <1>11, <2>3, BlankValues
    <3>2. PICK s \in Sids : s = ref[t].tok.sid
      BY <1>2, <2>3, <3>1 DEF SidOrNone
    <3>3. Issued(s)'
      BY <1>1, <1>6, <3>2 DEF Arrived
    <3> QED BY <3>1, <3>2, <3>3 DEF Issued
  <2>4. ASSUME NEW t \in Tabs PROVE /\ tab[t].store # None => Issued(tab[t].store)'
                                    /\ out[t].exp # None => Issued(out[t].exp)'
                                    /\ \A s \in Sids : <<t, s>> \in signedOut => Issued(s)'
    BY <1>1, <1>2, <1>6 DEF Arrived, SidOrNone
  <2> QED BY <2>1, <2>2, <2>3, <2>4 DEF Arrived
<1>13. ASSUME NEW j, Usable(j), j.sid \in SidOrNone, j.gen \in Nat, k.sid # None /\ j.sid = k.sid => j.gen >= k.gen
       PROVE  Usable(j)'
  <2> SUFFICES ASSUME j.sid # None
               PROVE  /\ sess'[j.sid].gen \in {j.gen, j.gen + 1}
                      /\ Settled(j.sid)' => sess'[j.sid].gen = j.gen
                      /\ \A o \in orphans' : o.sid = j.sid => o.gen <= j.gen
    BY DEF Usable
  <2>1. j.sid \in Sids
    BY <1>13 DEF SidOrNone
  <2>2. sess[j.sid].gen \in {j.gen, j.gen + 1} /\ (Settled(j.sid) => sess[j.sid].gen = j.gen)
        /\ \A o \in orphans : o.sid = j.sid => o.gen <= j.gen
    BY <1>13 DEF Usable
  <2>3. sess'[j.sid].gen \in {j.gen, j.gen + 1}
    <3>1. CASE Current(k) /\ j.sid = k.sid /\ sess'[k.sid].gen = k.gen + 1
      <4>1. sess[k.sid].gen = k.gen
        BY <3>1 DEF Current
      <4>2. j.gen = k.gen
        BY <1>3, <1>13, <2>2, <3>1, <4>1
      <4> QED BY <3>1, <4>2
    <3>2. CASE sess'[j.sid].gen = sess[j.sid].gen
      BY <2>2, <3>2
    <3> QED BY <1>4, <2>1, <3>1, <3>2
  <2> QED BY <1>7, <2>1, <2>2, <2>3
<1>14. Usable(cookie)'
  <2>1. PICK j : j = cookie
    OBVIOUS
  <2>2. Usable(j)'
    BY <1>1, <1>2, <1>13, <2>1 DEF InStep
  <2> QED BY <2>1, <2>2 DEF Usable
<1>15. ASSUME NEW j \in orphans', j.sid # None, Settled(j.sid)' PROVE sess'[j.sid].gen = j.gen
  <2>1. j.sid \in Sids /\ j \in orphans
    BY <1>2, <1>15 DEF SidOrNone
  <2>2. Settled(j.sid) /\ sess'[j.sid].gen = sess[j.sid].gen
    BY <1>7, <1>15, <2>1
  <2> QED BY <1>1, <1>15, <2>1, <2>2 DEF InStep
<1>16. ASSUME NEW t \in Tabs, ref'[t].pc = "sent"
       PROVE  /\ Usable(ref[t].tok)'
              /\ cookie.sid = ref'[t].tok.sid /\ cookie.sid # None => cookie = ref'[t].tok
  <2>1. ref'[t] = ref[t]
    BY <1>16 DEF NewAnswer
  <2>2. PICK j : j = ref[t].tok
    OBVIOUS
  <2>3. Usable(j)'
    BY <1>1, <1>2, <1>13, <1>16, <2>1, <2>2 DEF InStep
  <2> QED BY <1>1, <1>16, <2>1, <2>2, <2>3 DEF InStep, Usable
<1>17. ASSUME NEW t \in Tabs, Won(t)' PROVE Renewed(ref[t].tok)'
  <2>1. CASE ref'[t] = ref[t]
    <3>1. PICK j : j = ref[t].tok
      OBVIOUS
    <3>2. Renewed(j) /\ j.sid \in Sids
      BY <1>1, <1>2, <1>17, <2>1, <3>1 DEF InStep, Won, Renewed, SidOrNone
    <3>3. j.sid = k.sid => ~Current(k)
      BY <1>17, <2>1, <3>1 DEF Won
    <3>4. sess'[j.sid].gen = sess[j.sid].gen /\ ~Settled(j.sid)'
      BY <1>4, <1>7, <3>2, <3>3 DEF Renewed
    <3>5. Renewed(j)'
      BY <3>2, <3>4 DEF Renewed
    <3> QED BY <2>1, <3>1, <3>5 DEF Renewed
  <2>2. CASE NewAnswer(t, k) /\ ref'[t] # ref[t]
    <3>1. /\ ref[t].pc = "sent" /\ k = ref[t].tok /\ Valid(k) /\ ref'[t].tok = Refreshed(k)
          /\ sess'[k.sid].gen = k.gen + 1 /\ sess'[k.sid].grace = "open"
      BY <1>17, <2>2 DEF NewAnswer, Won
    <3>2. Usable(k) /\ (cookie.sid = k.sid /\ cookie.sid # None => cookie = k)
      BY <1>1, <3>1 DEF InStep
    <3>3. PICK j : j = Refreshed(k)
      OBVIOUS
    <3>4. j.sid = k.sid /\ j.gen = k.gen + 1 /\ j.sid # None
      BY <1>11, <3>1, <3>3 DEF Valid
    <3>5. \A o \in orphans' : o.sid = j.sid => o.gen < j.gen
      BY <1>2, <1>3, <3>2, <3>4 DEF Usable
    <3>6. ~Settled(j.sid)' /\ sess'[j.sid].gen = j.gen
      BY <3>1, <3>4 DEF Settled
    <3>7. cookie.sid = j.sid => j.gen = cookie.gen + 1
      BY <3>2, <3>4
    <3>8. Renewed(j)'
      BY <3>4, <3>5, <3>6, <3>7 DEF Renewed
    <3> QED BY <3>1, <3>3, <3>8 DEF Renewed
  <2> QED BY <2>1, <2>2
<1>18. InStep'
  BY <1>14, <1>15, <1>16, <1>17 DEF InStep
<1>19. NoFalseReuse'
  BY <1>1, <1>4 DEF NoFalseReuse
<1>20. SignOutRevokes'
  <2>1. \A t \in Tabs, s \in Sids : <<t, s>> \in signedOut => Dead(s)'
    BY <1>1, <1>7 DEF SignOutRevokes, Dead
  <2> QED BY <2>1 DEF SignOutRevokes, Dead
<1>21. Leaving'
  <2>1. ASSUME NEW t \in Tabs, out[t].pc = "served", out[t].ans = "ok", out[t].exp # None PROVE Dead(out[t].exp)'
    <3>1. PICK s \in Sids : s = out[t].exp
      BY <1>2, <2>1 DEF SidOrNone
    <3>2. Dead(s)
      BY <1>1, <2>1, <3>1 DEF Leaving
    <3> QED BY <1>7, <3>1, <3>2 DEF Dead
  <2>2. ASSUME NEW t \in Tabs, Won(t)', <<t, ref'[t].tok.sid>> \in signedOut, ref'[t].tok.sid \notin gap \cup blind
        PROVE  ref'[t].cur = "no"
    <3>1. CASE ref'[t] = ref[t]
      BY <1>1, <2>2, <3>1 DEF Leaving, Won
    <3>2. CASE NewAnswer(t, k) /\ ref'[t] # ref[t]
      <4>1. Valid(k) /\ ref'[t].tok.sid = k.sid
        BY <1>11, <2>2, <3>2 DEF NewAnswer, Won
      <4>2. k.sid \in Sids /\ sess[k.sid].st = "active"
        BY <1>3, <4>1 DEF Valid, SidOrNone
      <4> QED BY <1>1, <2>2, <4>1, <4>2 DEF SignOutRevokes
    <3> QED BY <3>1, <3>2
  <2> QED BY <2>1, <2>2 DEF Leaving
<1>22. Credited'
  BY <1>1 DEF Credited, Heard
<1> QED BY <1>8, <1>9, <1>12, <1>18, <1>19, <1>20, <1>21, <1>22 DEF TabsInv

\* An answer is put into a tab's request.
Answering(t, a, q) ==
    ref' = [ref EXCEPT ![t].pc = "served", ![t].ans = a, ![t].exp = None, ![t].tok = q]

LEMMA AnswerPut ==
    ASSUME TypeOK, NEW t \in Tabs, NEW a \in Answers, NEW q \in Token, Answering(t, a, q)
    PROVE  /\ ref' \in [Tabs -> Ref] /\ \A u \in Tabs : u # t => ref'[u] = ref[u]
           /\ ref'[t].pc = "served" /\ ref'[t].ans = a /\ ref'[t].tok = q
<1>1. ref \in [Tabs -> Ref] /\ ref[t] \in Ref
  BY DEF TypeOK
<1>2. PICK r \in Ref : /\ r = [ref[t] EXCEPT !.pc = "served", !.ans = a, !.exp = None, !.tok = q]
                       /\ r.pc = "served" /\ r.ans = a /\ r.tok = q
  <2>1. \A x \in Ref : LET r == [x EXCEPT !.pc = "served", !.ans = a, !.exp = None, !.tok = q]
                       IN  r \in Ref /\ r.pc = "served" /\ r.ans = a /\ r.tok = q
    BY DEF Ref, SidOrNone
  <2> QED BY <1>1, <2>1
<1>3. ref' = [ref EXCEPT ![t] = r]
  BY <1>1, <1>2 DEF Answering
<1> QED BY <1>1, <1>2, <1>3

\* A refresh is served: its token is the cookie's or the cookie is another's.
LEMMA ServeInv ==
    ASSUME TabsInv, NEW t \in Tabs, Serve(t)
    PROVE  TabsInv'
<1> USE SidsAssumption
<1>1. TypeOK /\ Exclusive /\ Arrived /\ InStep
  BY DEF TabsInv
<1>2. PICK k \in Token : k = ref[t].tok
  BY <1>1, FieldTypes
<1>3. k.sid \in SidOrNone /\ k.gen \in Nat
  BY DEF Token
<1>4. ref[t].pc = "sent" /\ UNCHANGED <<cookie, tab, api, out, login, lock, mail, orphans, signedOut, gap, blind, credit, moves>>
  BY DEF Serve, history
<1>5. Usable(k) /\ (cookie.sid = k.sid /\ cookie.sid # None => cookie = k) /\ (k.sid # None => Issued(k.sid))
  BY <1>1, <1>2, <1>4 DEF InStep, Arrived
<1>6. \A u \in Tabs : ref[u].pc \in {"sent", "served"} => u = t
  BY <1>1, <1>4, OneSent
<1>7. \A u \in Tabs : /\ ref[u].pc = "sent" /\ ref[u].tok.sid = k.sid => ref[u].tok.gen >= k.gen
                      /\ ~Won(u)
  BY <1>2, <1>3, <1>4, <1>6 DEF Won
<1>8. Previous(k) /\ sess[k.sid].grace = "over" => k.sid \in gap
  BY <1>3, <1>5 DEF Previous, Valid, Usable, Settled
<1>9. ASSUME NEW a \in Answers, NEW q \in Token, Rotate(k) \/ sess' = sess,
             ref' = [ref EXCEPT ![t].pc = "served", ![t].ans = a, ![t].exp = None, ![t].tok = q],
             \/ a # "ok" /\ q = NoToken
             \/ /\ Valid(k) /\ q = Refreshed(k)
                /\ sess'[k.sid].gen = k.gen + 1 /\ sess'[k.sid].grace = "open",
             faults' = faults \/ (faults < MaxFaults /\ faults' = faults + 1)
      PROVE  TabsInv'
  <2>1. /\ ref' \in [Tabs -> Ref] /\ \A u \in Tabs : u # t => ref'[u] = ref[u]
        /\ ref'[t].pc = "served" /\ ref'[t].ans = a /\ ref'[t].tok = q
    <3>1. Answering(t, a, q)
      BY <1>9 DEF Answering
    <3> QED BY <1>1, <3>1, AnswerPut
  <2>2. \A u \in Tabs : ref'[u] = ref[u] \/ NewAnswer(u, k)
    BY <1>2, <1>4, <1>9, <2>1 DEF NewAnswer
  <2>3. sess' \in [Sids -> [st : {"none", "active", "revoked", "reused"}, gen : Nat, grace : {"open", "over"}]]
    BY <1>1, <1>9, Rotated DEF TypeOK
  <2>4. faults' \in 0..MaxFaults
    BY <1>9, Same
  <2>5. TypeOK'
    BY <1>1, <1>4, <2>1, <2>3, <2>4 DEF TypeOK
  <2>6. cookie.sid = k.sid /\ k.sid # None => cookie.gen >= k.gen
    BY <1>3, <1>5
  <2> QED BY <1>4, <1>5, <1>7, <1>8, <1>9, <2>2, <2>5, <2>6, RotationStep
<1>10. PICK a \in Answers : a = ServerAnswer(ref[t].tok, ref[t].exp) /\ a \in {"mismatch", "ok", "invalid"}
  BY DEF ServerAnswer, Answers
<1>11. a = "ok" => Current(k) \/ (Previous(k) /\ sess[k.sid].grace = "open")
  BY <1>2, <1>10 DEF ServerAnswer
<1>12. PICK q \in Token : q = IF a = "ok" THEN Refreshed(k) ELSE NoToken
  <2>1. Refreshed(k) \in Token
    BY DEF Refreshed, Token
  <2> QED BY <2>1, BlankValues
<1>13. CASE /\ IF a = "mismatch" THEN UNCHANGED sess ELSE Rotate(k)
            /\ ref' = [ref EXCEPT ![t].pc = "served", ![t].ans = a, ![t].exp = None, ![t].tok = q]
            /\ UNCHANGED faults
  <2>1. CASE a # "ok"
    BY <1>9, <1>12, <1>13, <2>1
  <2>2. CASE a = "ok"
    <3>1. Rotate(k) /\ Valid(k) /\ q = Refreshed(k)
      BY <1>11, <1>12, <1>13, <2>2 DEF Current, Previous
    <3>2. sess'[k.sid].gen = k.gen + 1 /\ sess'[k.sid].grace = "open"
      <4>1. CASE Current(k)
        <5>1. sess' = [sess EXCEPT ![k.sid].gen = @ + 1, ![k.sid].grace = "open"] /\ sess[k.sid].gen = k.gen
              /\ k.sid \in Sids
          BY <1>3, <3>1, <4>1 DEF Rotate, Current, Valid, SidOrNone
        <5>2. sess \in [Sids -> [st : {"none", "active", "revoked", "reused"}, gen : Nat, grace : {"open", "over"}]]
          BY <1>1 DEF TypeOK
        <5> QED BY <5>1, <5>2
      <4>2. CASE ~Current(k)
        <5>1. Previous(k) /\ sess[k.sid].grace = "open"
          BY <1>11, <2>2, <4>2
        <5>2. sess' = sess
          BY <3>1, <4>2, <5>1 DEF Rotate
        <5> QED BY <5>1, <5>2 DEF Previous
      <4> QED BY <4>1, <4>2
    <3> QED BY <1>9, <1>13, <3>1, <3>2
  <2> QED BY <2>1, <2>2
<1>14. ASSUME NEW b \in {"fail", "race", "odd"}, faults < MaxFaults, faults' = faults + 1,
              ref' = [ref EXCEPT ![t].pc = "served", ![t].ans = b, ![t].exp = None, ![t].tok = NoToken],
              sess' = sess \/ Rotate(k)
       PROVE  TabsInv'
  <2>1. PICK c \in Answers : c = b
    BY DEF Answers
  <2>2. ref' = [ref EXCEPT ![t].pc = "served", ![t].ans = c, ![t].exp = None, ![t].tok = NoToken]
    BY <1>14, <2>1
  <2>3. c # "ok" /\ NoToken \in Token
    BY <2>1, BlankValues
  <2> QED BY <1>9, <1>14, <2>2, <2>3
<1> QED BY <1>2, <1>10, <1>12, <1>13, <1>14 DEF Serve

\* A refresh of a page that is gone is served: no newer token is about, so what
\* it rotates is what the browser has.
LEMMA ServeOrphanInv ==
    ASSUME TabsInv, NEW k \in orphans, ServeOrphan(k)
    PROVE  TabsInv'
<1> USE SidsAssumption
<1>1. TypeOK /\ Arrived /\ InStep
  BY DEF TabsInv
<1>2. k \in Token /\ k.sid \in SidOrNone /\ k.gen \in Nat
  BY <1>1, FieldTypes
<1>3. /\ orphans' = orphans \ {k} /\ Rotate(k)
      /\ UNCHANGED <<cookie, tab, ref, api, out, login, lock, mail, signedOut, gap, blind, credit, moves, faults>>
  BY DEF ServeOrphan, history
<1>4. TypeOK'
  <2>1. sess' \in [Sids -> [st : {"none", "active", "revoked", "reused"}, gen : Nat, grace : {"open", "over"}]]
    BY <1>1, <1>2, <1>3, Rotated
  <2> QED BY <1>1, <1>3, <2>1 DEF TypeOK
<1>5. k.sid # None => Issued(k.sid)
  BY <1>1 DEF Arrived
<1>6. \A t \in Tabs : ref[t].tok.gen \in Nat /\ cookie.gen \in Nat
  BY <1>1, FieldTypes
<1>7. k.sid # None /\ cookie.sid = k.sid => cookie.gen >= k.gen
  <2>1. cookie.gen \in Nat
    BY <1>1, FieldTypes
  <2> QED BY <1>1, <1>2, <2>1 DEF InStep, Usable
<1>8. \A u \in Tabs : ref[u].pc = "sent" /\ k.sid # None /\ ref[u].tok.sid = k.sid => ref[u].tok.gen >= k.gen
  BY <1>1, <1>2, <1>6 DEF InStep, Usable
<1>9. \A u \in Tabs : Won(u) /\ ref[u].tok.sid = k.sid => ~Current(k)
  BY <1>1, <1>2, <1>6 DEF InStep, Renewed, Current
<1>10. Previous(k) /\ sess[k.sid].grace = "over" => k.sid \in gap
  BY <1>1, <1>2 DEF InStep, Previous, Valid, Settled
<1> QED BY <1>2, <1>3, <1>4, <1>5, <1>7, <1>8, <1>9, <1>10, RotationStep

\* A revocation, and a sign-out that may have made it, keep the invariant.
LEMMA RevokeStep ==
    ASSUME TabsInv, TypeOK',
           \A s \in Sids : /\ sess'[s].gen = sess[s].gen /\ sess'[s].grace = sess[s].grace
                           /\ \/ sess'[s].st = sess[s].st
                              \/ sess[s].st = "active" /\ sess'[s].st = "revoked",
           \A u \in Tabs : \/ out'[u] = out[u]
                           \/ /\ out'[u].exp \in {None, tab[u].store}
                              /\ out'[u].ans = "ok" /\ out'[u].exp # None => Dead(tab[u].store)',
           blind \subseteq blind',
           UNCHANGED <<cookie, tab, ref, login, lock, mail, orphans, signedOut, gap, credit>>
    PROVE  TabsInv'
<1> USE SidsAssumption
<1>1. TypeOK /\ Exclusive /\ Arriving /\ Arrived /\ InStep /\ NoFalseReuse /\ SignOutRevokes /\ Leaving /\ Credited
  BY DEF TabsInv
<1>2. /\ \A t \in Tabs : /\ ref[t].tok.sid \in SidOrNone /\ login[t] \in SidOrNone
                         /\ tab[t].store \in SidOrNone /\ out[t].exp \in SidOrNone
      /\ \A j \in orphans : j.sid \in SidOrNone
      /\ cookie.sid \in SidOrNone
  BY <1>1, FieldTypes
<1>3. \A s \in Sids : Issued(s)' = Issued(s) /\ Settled(s)' = Settled(s) /\ (Dead(s) => Dead(s)')
  BY DEF Issued, Settled, Dead
<1>4. \A s \in SidOrNone : s # None => s \in Sids
  BY DEF SidOrNone
<1>5. Exclusive' /\ Credited'
  BY <1>1 DEF Exclusive, Credited, Heard
<1>6. Arriving'
  BY <1>1, <1>2, <1>4 DEF Arriving
<1>7. Arrived'
  <2>1. /\ cookie.sid # None => Issued(cookie.sid)'
        /\ \A j \in orphans : j.sid # None => Issued(j.sid)'
    BY <1>1, <1>2, <1>3, <1>4 DEF Arrived
  <2>2. ASSUME NEW t \in Tabs
        PROVE  /\ ref[t].tok.sid # None => Issued(ref[t].tok.sid)'
               /\ tab[t].store # None => Issued(tab[t].store)'
               /\ \A s \in Sids : <<t, s>> \in signedOut => Issued(s)'
    BY <1>1, <1>2, <1>3, <1>4 DEF Arrived
  <2>3. ASSUME NEW t \in Tabs, out'[t].exp # None PROVE Issued(out[t].exp)'
    <3>1. PICK s : s = out'[t].exp
      OBVIOUS
    <3>2. s \in {out[t].exp, tab[t].store}
      BY <2>3, <3>1
    <3>3. s \in Sids /\ Issued(s)
      BY <1>1, <1>2, <1>4, <2>3, <3>1, <3>2 DEF Arrived
    <3>4. Issued(s)'
      BY <1>3, <3>3
    <3> QED BY <3>1, <3>4 DEF Issued
  <2> QED BY <2>1, <2>2, <2>3 DEF Arrived
<1>8. \A s \in Sids : sess'[s].gen = sess[s].gen
  OBVIOUS
<1>9. \A j : j.sid \in SidOrNone => (Usable(j)' = Usable(j)) /\ (Renewed(j)' = Renewed(j))
  BY <1>3, <1>4, <1>8 DEF Usable, Renewed
<1>10. InStep'
  <2>1. Usable(cookie)'
    <3>1. PICK j : j = cookie
      OBVIOUS
    <3>2. Usable(j)'
      BY <1>1, <1>2, <1>9, <3>1 DEF InStep
    <3> QED BY <3>1, <3>2 DEF Usable
  <2>2. \A j \in orphans : j.sid # None /\ Settled(j.sid)' => sess'[j.sid].gen = j.gen
    BY <1>1, <1>2, <1>3, <1>4 DEF InStep
  <2>3. ASSUME NEW t \in Tabs
        PROVE  /\ ref[t].pc = "sent" => Usable(ref[t].tok)'
               /\ Won(t)' => Renewed(ref[t].tok)'
    <3>1. PICK j : j = ref[t].tok
      OBVIOUS
    <3>2. (ref[t].pc = "sent" => Usable(j)') /\ (Won(t) => Renewed(j)')
      BY <1>1, <1>2, <1>9, <3>1 DEF InStep
    <3> QED BY <3>1, <3>2 DEF Usable, Renewed, Won
  <2>4. \A t \in Tabs : ref[t].pc = "sent" /\ cookie.sid = ref[t].tok.sid /\ cookie.sid # None => cookie = ref[t].tok
    BY <1>1 DEF InStep
  <2> QED BY <2>1, <2>2, <2>3, <2>4 DEF InStep
<1>11. NoFalseReuse' /\ SignOutRevokes'
  <2>1. NoFalseReuse'
    BY <1>1 DEF NoFalseReuse
  <2>2. \A t \in Tabs, s \in Sids : <<t, s>> \in signedOut => Dead(s)'
    BY <1>1, <1>3 DEF SignOutRevokes, Dead
  <2> QED BY <2>1, <2>2 DEF SignOutRevokes, Dead
<1>12. Leaving'
  <2>1. ASSUME NEW t \in Tabs, out'[t].pc = "served", out'[t].ans = "ok", out'[t].exp # None
        PROVE  Dead(out[t].exp)'
    <3>1. CASE out'[t] = out[t]
      <4>1. PICK s \in Sids : s = out[t].exp
        BY <1>2, <1>4, <2>1, <3>1
      <4>2. Dead(s)'
        BY <1>1, <1>3, <2>1, <3>1, <4>1 DEF Leaving
      <4> QED BY <3>1, <4>1, <4>2 DEF Dead
    <3>2. CASE out'[t] # out[t]
      BY <2>1, <3>2 DEF Dead
    <3> QED BY <3>1, <3>2
  <2>2. \A t \in Tabs : Won(t)' /\ <<t, ref[t].tok.sid>> \in signedOut /\ ref[t].tok.sid \notin gap \cup blind' => ref[t].cur = "no"
    BY <1>1 DEF Leaving, Won
  <2> QED BY <2>1, <2>2 DEF Leaving
<1> QED BY <1>5, <1>6, <1>7, <1>10, <1>11, <1>12 DEF TabsInv

\* What Revoke does to the sessions.
LEMMA Revoked ==
    ASSUME TypeOK, NEW s \in SidOrNone, Revoke(s)
    PROVE  /\ sess' \in [Sids -> [st : {"none", "active", "revoked", "reused"}, gen : Nat, grace : {"open", "over"}]]
           /\ \A q \in Sids : /\ sess'[q].gen = sess[q].gen /\ sess'[q].grace = sess[q].grace
                              /\ \/ sess'[q].st = sess[q].st
                                 \/ sess[q].st = "active" /\ sess'[q].st = "revoked"
           /\ s \in Sids => sess'[s].st # "active"
<1>1. sess \in [Sids -> [st : {"none", "active", "revoked", "reused"}, gen : Nat, grace : {"open", "over"}]]
  BY DEF TypeOK
<1>2. sess' = [sess EXCEPT ![s].st = IF sess[s].st = "active" THEN "revoked" ELSE sess[s].st]
  BY DEF Revoke
<1> QED BY <1>1, <1>2

\* Another device revokes a session.
LEMMA RevokedElsewhereInv ==
    ASSUME TabsInv, NEW s \in Sids, RevokedElsewhere(s)
    PROVE  TabsInv'
<1>1. /\ Revoke(s) /\ Move
      /\ UNCHANGED <<cookie, tab, ref, api, out, login, lock, mail, orphans, signedOut, gap, blind, credit, faults>>
  BY DEF RevokedElsewhere, history
<1>2. PICK q \in SidOrNone : q = s
  BY DEF SidOrNone
<1>3. TypeOK
  BY DEF TabsInv
<1>4. /\ sess' \in [Sids -> [st : {"none", "active", "revoked", "reused"}, gen : Nat, grace : {"open", "over"}]]
      /\ \A p \in Sids : /\ sess'[p].gen = sess[p].gen /\ sess'[p].grace = sess[p].grace
                         /\ \/ sess'[p].st = sess[p].st
                            \/ sess[p].st = "active" /\ sess'[p].st = "revoked"
  BY <1>1, <1>2, <1>3, Revoked
<1>5. moves' \in 0..MaxMoves
  BY <1>1, Same
<1>6. TypeOK'
  BY <1>1, <1>3, <1>4, <1>5 DEF TypeOK
<1> QED BY <1>1, <1>4, <1>6, RevokeStep

\* AuthLogout: the session it was asked to end is over, since a cookie of a
\* session whose grace window closed in time is recognised; or nothing told it
\* which session was meant, and the session is noted in blind.
LEMMA LogoutInv ==
    ASSUME TabsInv, NEW t \in Tabs, NEW again \in {"yes", "no"}, AuthLogout(t, again), moves' \in 0..MaxMoves
    PROVE  TabsInv'
<1> USE SidsAssumption
<1>1. TypeOK /\ Arrived /\ InStep /\ out \in [Tabs -> Out]
      /\ sess \in [Sids -> [st : {"none", "active", "revoked", "reused"}, gen : Nat, grace : {"open", "over"}]]
  BY DEF TabsInv, TypeOK
<1>2. tab[t].store \in SidOrNone /\ cookie.sid \in SidOrNone /\ cookie.gen \in Nat
  BY <1>1, FieldTypes
<1>3. UNCHANGED <<cookie, tab, ref, api, login, lock, mail, orphans, signedOut, gap, credit>>
  BY DEF AuthLogout
<1>4. PICK a \in {"ok", "mismatch", "fail"}, c \in {"yes", "no"} :
        /\ out' = [out EXCEPT ![t] = [pc |-> "served", again |-> again, ans |-> a, clears |-> c,
                                              exp |-> tab[t].store]]
        /\ a = "ok" => /\ Ended(t)
                       /\ cookie.sid \in {None, tab[t].store} \/ tab[t].store = None
                       /\ Blind(t) => blind' = blind \cup ({tab[t].store} \cap Sids)
        /\ blind' \in {blind, blind \cup ({tab[t].store} \cap Sids)}
        /\ Ended(t) \/ sess' = sess
        /\ faults' = faults \/ (faults < MaxFaults /\ faults' = faults + 1)
  BY DEF AuthLogout
<1>5. PICK x \in Out : /\ out' = [out EXCEPT ![t] = x] /\ x.ans = a
                       /\ x.exp = tab[t].store
  <2>1. \A e \in SidOrNone : LET x == [pc |-> "served", again |-> again, ans |-> a, clears |-> c, exp |-> e]
                             IN  x \in Out /\ x.ans = a /\ x.exp = e
    BY DEF Out
  <2> QED BY <1>2, <1>4, <2>1
<1>6. out' \in [Tabs -> Out] /\ out'[t] = x /\ \A u \in Tabs : u # t => out'[u] = out[u]
  BY <1>1, <1>5
<1>7. /\ sess' \in [Sids -> [st : {"none", "active", "revoked", "reused"}, gen : Nat, grace : {"open", "over"}]]
      /\ \A q \in Sids : /\ sess'[q].gen = sess[q].gen /\ sess'[q].grace = sess[q].grace
                         /\ \/ sess'[q].st = sess[q].st
                            \/ sess[q].st = "active" /\ sess'[q].st = "revoked"
  <2>1. CASE sess' = sess
    BY <1>1, <2>1
  <2>2. CASE Revoke(tab[t].store)
    BY <1>1, <1>2, <2>2, Revoked
  <2>3. CASE Revoke(cookie.sid)
    BY <1>1, <1>2, <2>3, Revoked
  <2> QED BY <1>4, <2>1, <2>2, <2>3 DEF Ended
<1>8. ASSUME a = "ok", x.exp # None PROVE Dead(tab[t].store)'
  <2>1. PICK s \in Sids : s = tab[t].store /\ cookie.sid \in {None, s}
    BY <1>2, <1>4, <1>5, <1>8 DEF SidOrNone
  <2>5. CASE Blind(t)
    BY <1>3, <1>4, <1>8, <2>1, <2>5 DEF Dead
  <2>2. sess[s].st # "none" /\ sess[s].st \in {"none", "active", "revoked", "reused"}
    BY <1>1, <2>1 DEF Arrived, Issued
  <2>3. CASE Revoke(s)
    <3>1. sess'[s].st # "active"
      <4>1. s \in SidOrNone
        BY DEF SidOrNone
      <4> QED BY <1>1, <2>3, <4>1, Revoked
    <3>2. sess'[s].st \in {"revoked", "reused"}
      BY <1>7, <2>2, <3>1
    <3> QED BY <1>3, <2>1, <3>2 DEF Dead
  <2>4. CASE ~Revoke(s) /\ ~Blind(t)
    <3>1. cookie.sid = s /\ ~Recognised(cookie) /\ sess' = sess
      BY <1>4, <1>8, <2>1, <2>4 DEF Ended, Blind
    <3>2. Usable(cookie) /\ cookie.sid # None /\ sess[s].gen \in Nat
      BY <1>1, <3>1 DEF InStep
    <3>3. sess[s].st = "active" => s \in gap
      <4>1. sess[s].gen \in {cookie.gen, cookie.gen + 1} /\ (Settled(s) => sess[s].gen = cookie.gen)
        BY <3>1, <3>2 DEF Usable
      <4>2. sess[s].grace \in {"open", "over"}
        BY <1>1
      <4> QED BY <1>2, <3>1, <3>2, <4>1, <4>2 DEF Recognised, Current, Previous, Valid, Settled
    <3> QED BY <1>3, <2>1, <2>2, <3>1, <3>3 DEF Dead
  <2> QED BY <2>3, <2>4, <2>5
<1>9. faults' \in 0..MaxFaults /\ blind \subseteq blind' /\ (blind \subseteq Sids => blind' \subseteq Sids)
  BY <1>4, Same
<1>10. TypeOK'
  BY <1>1, <1>3, <1>6, <1>7, <1>9 DEF TypeOK
<1>11. \A u \in Tabs : \/ out'[u] = out[u]
                       \/ /\ out'[u].exp \in {None, tab[u].store}
                          /\ out'[u].ans = "ok" /\ out'[u].exp # None => Dead(tab[u].store)'
  BY <1>4, <1>5, <1>6, <1>8
<1> QED BY <1>3, <1>7, <1>9, <1>10, <1>11, RevokeStep

\* The browser loses its cookie.
LEMMA CookieLostInv ==
    ASSUME TabsInv, CookieLost
    PROVE  TabsInv'
<1>1. /\ cookie' = NoToken /\ Move
      /\ UNCHANGED <<sess, tab, ref, api, out, login, lock, mail, orphans, signedOut, gap, blind, credit, faults>>
  BY DEF CookieLost, history
<1>2. TypeOK /\ Exclusive /\ Credited /\ moves' \in 0..MaxMoves /\ NoToken \in Token
  BY <1>1, Same, BlankValues DEF TabsInv
<1>3. TypeOK'
  BY <1>1, <1>2 DEF TypeOK
<1>4. Exclusive' /\ Credited'
  BY <1>1, <1>2 DEF Exclusive, Credited, Heard
<1>5. \A t \in Tabs : Quieter(ref[t], ref'[t]) /\ StoreFrom(t)
  BY <1>1 DEF Quieter, StoreFrom
<1>6. CookieFrom /\ OrphansFrom /\ SignOutsFrom
  BY <1>1 DEF CookieFrom, OrphansFrom, SignOutsFrom
<1> QED BY <1>1, <1>3, <1>4, <1>5, <1>6, ClientStep

\* A sign-out, sent or sent again after a mismatch.
LEMMA SignOutInv ==
    ASSUME TabsInv, NEW t \in Tabs, SignOut(t) \/ SignOutAgain(t)
    PROVE  TabsInv'
<1>1. moves' \in 0..MaxMoves
  BY Same DEF SignOut, SignOutAgain
<1>2. PICK again \in {"yes", "no"} : AuthLogout(t, again)
  BY DEF SignOut, SignOutAgain
<1> QED BY <1>1, <1>2, LogoutInv

\* The grace window closes: in time, or the session is noted in gap.
LEMMA GraceEndsInv ==
    ASSUME TabsInv, NEW s \in Sids, GraceEnds(s)
    PROVE  TabsInv'
<1> USE SidsAssumption
<1>1. TypeOK /\ Exclusive /\ Arriving /\ Arrived /\ InStep /\ NoFalseReuse /\ SignOutRevokes /\ Leaving /\ Credited
  BY DEF TabsInv
<1>2. /\ \A t \in Tabs : /\ ref[t].tok.sid \in SidOrNone /\ login[t] \in SidOrNone
                         /\ tab[t].store \in SidOrNone /\ out[t].exp \in SidOrNone
      /\ \A j \in orphans : j.sid \in SidOrNone
      /\ cookie.sid \in SidOrNone /\ cookie.gen \in Nat
  BY <1>1, FieldTypes
<1>3. /\ sess[s].st = "active" /\ sess[s].grace = "open"
      /\ sess' = [sess EXCEPT ![s].grace = "over"]
      /\ gap' = IF InTime(s) THEN gap ELSE gap \cup {s}
      /\ UNCHANGED <<cookie, tab, ref, api, out, login, lock, mail, orphans, signedOut, blind, credit, moves, faults>>
  BY DEF GraceEnds
<1>4. /\ sess' \in [Sids -> [st : {"none", "active", "revoked", "reused"}, gen : Nat, grace : {"open", "over"}]]
      /\ \A q \in Sids : sess'[q].st = sess[q].st /\ sess'[q].gen = sess[q].gen /\ (q # s => sess'[q] = sess[q])
  <2>1. sess \in [Sids -> [st : {"none", "active", "revoked", "reused"}, gen : Nat, grace : {"open", "over"}]]
    BY <1>1 DEF TypeOK
  <2> QED BY <1>3, <2>1
<1>5. gap \subseteq gap' /\ gap' \subseteq gap \cup {s} /\ (~InTime(s) => s \in gap')
  BY <1>3
<1>6. TypeOK'
  BY <1>1, <1>3, <1>4, <1>5 DEF TypeOK
<1>7. \A q \in Sids : Issued(q)' = Issued(q) /\ (Dead(q) => Dead(q)')
  BY <1>3, <1>4, <1>5 DEF Issued, Dead
<1>8. \A q \in Sids : Settled(q)' => Settled(q) \/ (q = s /\ InTime(s))
  BY <1>4, <1>5 DEF Settled
<1>9. \A q \in SidOrNone : q # None => q \in Sids
  BY DEF SidOrNone
<1>10. Exclusive' /\ Credited'
  BY <1>1, <1>3 DEF Exclusive, Credited, Heard
<1>11. Arriving'
  <2>1. \A t \in Tabs : login[t] # s
    <3> SUFFICES ASSUME NEW t \in Tabs, login[t] = s PROVE FALSE
      OBVIOUS
    <3> QED BY <1>1, <1>3 DEF Arriving
  <2>2. \A t \in Tabs : login[t] # None => sess'[login[t]] = sess[login[t]]
    BY <1>2, <1>4, <1>9, <2>1
  <2>3. \A q \in Sids : sess'[q].st = "none" => sess'[q].grace = "over"
    BY <1>1, <1>3, <1>4 DEF Arriving
  <2>4. ASSUME NEW t \in Tabs, login[t] # None
        PROVE  /\ sess'[login[t]].st # "none" /\ sess'[login[t]].gen = 1 /\ sess'[login[t]].grace = "over"
               /\ \A u \in Tabs : login[u] = login[t] => u = t
    BY <1>1, <2>2, <2>4 DEF Arriving
  <2> QED BY <1>3, <2>3, <2>4 DEF Arriving
<1>12. Arrived'
  <2>1. /\ cookie.sid # None => Issued(cookie.sid)'
        /\ \A j \in orphans : j.sid # None => Issued(j.sid)'
    BY <1>1, <1>2, <1>3, <1>7, <1>9 DEF Arrived
  <2>2. ASSUME NEW t \in Tabs
        PROVE  /\ ref[t].tok.sid # None => Issued(ref[t].tok.sid)'
               /\ tab[t].store # None => Issued(tab[t].store)'
               /\ out[t].exp # None => Issued(out[t].exp)'
               /\ \A q \in Sids : <<t, q>> \in signedOut => Issued(q)'
    BY <1>1, <1>2, <1>3, <1>7, <1>9 DEF Arrived
  <2> QED BY <1>3, <2>1, <2>2 DEF Arrived
<1>13. InTime(s) => cookie.sid = s /\ cookie.gen = sess[s].gen /\ \A j \in orphans : j.sid # s
  BY DEF InTime
<1>14. ASSUME NEW j, j.sid \in SidOrNone, Usable(j), InTime(s) /\ j.sid = s => j.gen = sess[s].gen
       PROVE  Usable(j)'
  BY <1>3, <1>4, <1>8, <1>9, <1>14 DEF Usable
<1>15. InStep'
  <2>1. Usable(cookie)'
    <3>1. PICK j : j = cookie
      OBVIOUS
    <3>2. Usable(j)'
      BY <1>1, <1>2, <1>13, <1>14, <3>1 DEF InStep
    <3> QED BY <1>3, <3>1, <3>2 DEF Usable
  <2>2. \A j \in orphans : j.sid # None /\ Settled(j.sid)' => sess'[j.sid].gen = j.gen
    BY <1>1, <1>2, <1>4, <1>8, <1>9, <1>13 DEF InStep
  <2>3. ASSUME NEW t \in Tabs, ref[t].pc = "sent" PROVE Usable(ref[t].tok)'
    <3>1. PICK j : j = ref[t].tok
      OBVIOUS
    <3>2. InTime(s) /\ j.sid = s => j = cookie
      BY <1>1, <1>13, <2>3, <3>1 DEF InStep
    <3>3. Usable(j) /\ j.sid \in SidOrNone
      BY <1>1, <1>2, <2>3, <3>1 DEF InStep
    <3>4. Usable(j)'
      BY <1>13, <1>14, <3>2, <3>3
    <3> QED BY <1>3, <3>1, <3>4 DEF Usable
  <2>4. ASSUME NEW t \in Tabs, Won(t) PROVE Renewed(ref[t].tok)'
    <3>1. PICK j : j = ref[t].tok
      OBVIOUS
    <3>2. Renewed(j) /\ j.sid \in SidOrNone
      BY <1>1, <1>2, <2>4, <3>1 DEF InStep
    <3>3. j.sid \in Sids
      BY <1>9, <3>2 DEF Renewed
    <3>4. ~(InTime(s) /\ j.sid = s)
      BY <1>2, <1>13, <3>2 DEF Renewed
    <3>5. ~Settled(j.sid)'
      BY <1>8, <3>2, <3>3, <3>4 DEF Renewed
    <3>6. Renewed(j)'
      BY <1>3, <1>4, <3>2, <3>3, <3>5 DEF Renewed
    <3> QED BY <1>3, <3>1, <3>6 DEF Renewed
  <2>5. \A t \in Tabs : Won(t)' = Won(t)
    BY <1>3 DEF Won
  <2> QED BY <1>1, <1>3, <2>1, <2>2, <2>3, <2>4, <2>5 DEF InStep
<1>16. NoFalseReuse'
  BY <1>1, <1>4, <1>5 DEF NoFalseReuse
<1>17. SignOutRevokes'
  <2>1. \A t \in Tabs, q \in Sids : <<t, q>> \in signedOut => Dead(q)'
    BY <1>1, <1>7 DEF SignOutRevokes, Dead
  <2> QED BY <1>3, <2>1 DEF SignOutRevokes, Dead
<1>18. Leaving'
  <2>1. ASSUME NEW t \in Tabs, out[t].pc = "served", out[t].ans = "ok", out[t].exp # None PROVE Dead(out[t].exp)'
    <3>1. PICK q \in Sids : q = out[t].exp
      BY <1>2, <1>9, <2>1
    <3>2. Dead(q)
      BY <1>1, <2>1, <3>1 DEF Leaving
    <3> QED BY <1>3, <1>7, <3>1, <3>2 DEF Dead
  <2>2. \A t \in Tabs : Won(t)' /\ <<t, ref[t].tok.sid>> \in signedOut /\ ref[t].tok.sid \notin gap' \cup blind' => ref[t].cur = "no"
    BY <1>1, <1>3, <1>5 DEF Leaving, Won
  <2> QED BY <1>3, <2>1, <2>2 DEF Leaving
<1> QED BY <1>6, <1>10, <1>11, <1>12, <1>15, <1>16, <1>17, <1>18 DEF TabsInv

\* The holder of the lock sends the cookie, or nothing if it was superseded.
LEMMA SendInv ==
    ASSUME TabsInv, NEW t \in Tabs, Send(t)
    PROVE  TabsInv'
<1> USE SidsAssumption
<1>1. TypeOK /\ Exclusive /\ Arriving /\ Arrived /\ InStep /\ NoFalseReuse /\ SignOutRevokes /\ Leaving /\ Credited
  BY DEF TabsInv
<1>2. ref \in [Tabs -> Ref] /\ lock \in Seq(Tabs) /\ tab[t] \in Tab /\ cookie \in Token
  BY <1>1 DEF TypeOK
<1>3. /\ ref[t].pc = "queued" /\ Head(lock) = t
      /\ UNCHANGED <<sess, orphans, signedOut, gap, blind, credit, moves, faults>>
  BY DEF Send, history
<1>4. CASE ref[t].cur # "yes"
  <2>1. Finish(t, "transient", tab[t], mail) /\ cookie' = cookie
    BY <1>4 DEF Send
  <2>2. PICK b \in Tab, m \in {mail, Publish(t, "signed_out", tab[t].store)} : b = tab[t] /\ m = mail
    BY <1>2
  <2>3. Finish(t, "transient", b, m) /\ b.store \in {None, tab[t].store, ref[t].tok.sid}
    BY <2>1, <2>2
  <2> HIDE DEF Finish
  <2> QED BY <1>3, <2>1, <2>3, RunnerEnds
<1>5. CASE ref[t].cur = "yes"
  <2>1. /\ ref' = [ref EXCEPT ![t].pc = "sent", ![t].exp = tab[t].store, ![t].tok = cookie]
        /\ UNCHANGED <<cookie, tab, api, out, login, mail, lock>>
    BY <1>5 DEF Send
  <2>2. PICK r \in Ref : /\ r = [ref[t] EXCEPT !.pc = "sent", !.exp = tab[t].store, !.tok = cookie]
                         /\ r.pc = "sent" /\ r.tok = cookie
    <3>1. ref[t] \in Ref /\ tab[t].store \in SidOrNone /\ cookie \in Token
      BY <1>1, <1>2, FieldTypes
    <3>2. PICK e \in SidOrNone, k \in Token : e = tab[t].store /\ k = cookie
      BY <3>1
    <3>3. \A x \in Ref : LET r == [x EXCEPT !.pc = "sent", !.exp = e, !.tok = k]
                         IN  r \in Ref /\ r.pc = "sent" /\ r.tok = k
      BY DEF Ref
    <3> QED BY <3>1, <3>2, <3>3
  <2>3. ref' \in [Tabs -> Ref] /\ ref'[t] = r /\ \A u \in Tabs : u # t => ref'[u] = ref[u]
    BY <1>2, <2>1, <2>2
  <2>4. TypeOK'
    BY <1>1, <1>3, <2>1, <2>3 DEF TypeOK
  <2>5. Len(lock) > 0 /\ lock[1] = t /\ \E i \in 1..Len(lock) : lock[i] = t
    BY <1>1, <1>2, <1>3 DEF Exclusive
  <2>6. Exclusive'
    BY <1>1, <2>1, <2>2, <2>3, <2>5 DEF Exclusive
  <2>7. \A u \in Tabs : u # t => ~(ref[u].pc \in {"sent", "served"})
    BY <1>1, <2>5 DEF Exclusive
  <2>8. \A s : /\ Issued(s)' = Issued(s) /\ Settled(s)' = Settled(s) /\ Dead(s)' = Dead(s)
    BY <1>3, <2>1 DEF Issued, Settled, Dead
  <2>9. Arriving' /\ Credited' /\ NoFalseReuse' /\ SignOutRevokes'
    BY <1>1, <1>3, <2>1 DEF Arriving, Credited, Heard, NoFalseReuse, SignOutRevokes
  <2>10. Arrived'
    <3>1. \A u \in Tabs : ref'[u].tok.sid # None => Issued(ref'[u].tok.sid)
      BY <1>1, <2>2, <2>3 DEF Arrived
    <3> QED BY <1>1, <1>3, <2>1, <2>8, <3>1 DEF Arrived
  <2>11. \A u \in Tabs : ~Won(u)'
    BY <2>2, <2>3, <2>7 DEF Won
  <2>12. \A u \in Tabs : ref'[u].pc = "sent" => u = t
    BY <2>3, <2>7
  <2>13. \A k : Usable(k)' = Usable(k)
    BY <1>3, <2>8 DEF Usable
  <2>14. InStep'
    <3>1. Usable(cookie)' /\ Usable(cookie)
      BY <1>1, <1>3, <2>1, <2>8 DEF InStep, Usable
    <3>2. \A u \in Tabs : ref'[u].pc = "sent" => ref'[u].tok = cookie'
      BY <2>1, <2>2, <2>3, <2>12
    <3>3. \A u \in Tabs : ref'[u].pc = "sent" => Usable(ref[u].tok)'
      BY <3>1, <3>2 DEF Usable
    <3>4. \A k \in orphans' : k.sid # None /\ Settled(k.sid)' => sess'[k.sid].gen = k.gen
      BY <1>1, <1>3, <2>8 DEF InStep
    <3> QED BY <2>11, <3>1, <3>2, <3>3, <3>4 DEF InStep
  <2>15. Leaving'
    BY <1>1, <2>1, <2>8, <2>11 DEF Leaving
  <2> QED BY <2>4, <2>6, <2>9, <2>10, <2>14, <2>15 DEF TabsInv
<1> QED BY <1>4, <1>5

\* A sign-in: of the new session nobody holds anything yet.
LEMMA SignInInv ==
    ASSUME TabsInv, NEW t \in Tabs, NEW s \in Sids, SignIn(t, s)
    PROVE  TabsInv'
<1> USE SidsAssumption
<1>1. TypeOK /\ Exclusive /\ Arriving /\ Arrived /\ InStep /\ NoFalseReuse /\ SignOutRevokes /\ Leaving /\ Credited
  BY DEF TabsInv
<1>2. /\ \A u \in Tabs : /\ ref[u].tok.sid \in SidOrNone /\ login[u] \in SidOrNone
                         /\ tab[u].store \in SidOrNone /\ out[u].exp \in SidOrNone
      /\ \A j \in orphans : j.sid \in SidOrNone
      /\ cookie.sid \in SidOrNone /\ cookie.gen \in Nat
  BY <1>1, FieldTypes
<1>3. /\ login[t] = None /\ sess[s].st = "none" /\ Move
      /\ sess' = [sess EXCEPT ![s].st = "active", ![s].gen = 1]
      /\ login' = [login EXCEPT ![t] = s]
      /\ UNCHANGED <<cookie, tab, ref, api, out, lock, mail, orphans, signedOut, gap, blind, credit, faults>>
  BY DEF SignIn, history
<1>4. /\ sess' \in [Sids -> [st : {"none", "active", "revoked", "reused"}, gen : Nat, grace : {"open", "over"}]]
      /\ sess'[s].st = "active" /\ sess'[s].gen = 1 /\ sess'[s].grace = sess[s].grace
      /\ \A q \in Sids : q # s => sess'[q] = sess[q]
  <2>1. sess \in [Sids -> [st : {"none", "active", "revoked", "reused"}, gen : Nat, grace : {"open", "over"}]]
    BY <1>1 DEF TypeOK
  <2> QED BY <1>3, <2>1
<1>5. login' \in [Tabs -> SidOrNone] /\ login'[t] = s /\ \A u \in Tabs : u # t => login'[u] = login[u]
  BY <1>1, <1>3 DEF TypeOK, SidOrNone
<1>6. TypeOK'
  <2>1. moves' \in 0..MaxMoves
    BY <1>3, Same
  <2> QED BY <1>1, <1>3, <1>4, <1>5, <2>1 DEF TypeOK
<1>7. sess[s].grace = "over" /\ \A u \in Tabs : login[u] # s
  BY <1>1, <1>3 DEF Arriving
<1>8. ~Issued(s)
  BY <1>3 DEF Issued
<1>9. \A q \in Sids : Issued(q) => q # s /\ Issued(q)'
  BY <1>4, <1>5, <1>8 DEF Issued
<1>10. \A q \in Sids : (Settled(q)' = Settled(q)) /\ (Dead(q) => Dead(q)')
  BY <1>3, <1>4 DEF Settled, Dead
<1>11. \A q \in SidOrNone : q # None => q \in Sids
  BY DEF SidOrNone
<1>12. Exclusive' /\ Credited'
  BY <1>1, <1>3 DEF Exclusive, Credited, Heard
<1>13. Arriving'
  <2>1. \A q \in Sids : sess'[q].st = "none" => sess'[q].grace = "over"
    BY <1>1, <1>4 DEF Arriving
  <2>2. ASSUME NEW u \in Tabs, login'[u] # None
        PROVE  /\ sess'[login'[u]].st # "none" /\ sess'[login'[u]].gen = 1 /\ sess'[login'[u]].grace = "over"
               /\ \A v \in Tabs : login'[v] = login'[u] => v = u
    <3>1. CASE u = t
      BY <1>4, <1>5, <1>7, <3>1
    <3>2. CASE u # t
      <4>1. PICK q \in Sids : q = login[u] /\ login'[u] = q
        BY <1>2, <1>5, <1>11, <2>2, <3>2
      <4>2. q # s /\ sess'[q] = sess[q]
        BY <1>4, <1>7, <4>1
      <4>3. /\ sess[q].st # "none" /\ sess[q].gen = 1 /\ sess[q].grace = "over"
            /\ \A v \in Tabs : login[v] = q => v = u
        BY <1>1, <4>1 DEF Arriving
      <4> QED BY <1>5, <4>1, <4>2, <4>3
    <3> QED BY <3>1, <3>2
  <2> QED BY <2>1, <2>2 DEF Arriving
<1>14. Arrived'
  <2>1. /\ cookie.sid # None => Issued(cookie.sid)'
        /\ \A j \in orphans : j.sid # None => Issued(j.sid)'
    BY <1>1, <1>2, <1>3, <1>9, <1>11 DEF Arrived
  <2>2. ASSUME NEW u \in Tabs
        PROVE  /\ ref[u].tok.sid # None => Issued(ref[u].tok.sid)'
               /\ tab[u].store # None => Issued(tab[u].store)'
               /\ out[u].exp # None => Issued(out[u].exp)'
               /\ \A q \in Sids : <<u, q>> \in signedOut => Issued(q)'
    BY <1>1, <1>2, <1>3, <1>9, <1>11 DEF Arrived
  <2> QED BY <1>3, <2>1, <2>2 DEF Arrived
<1>15. ASSUME NEW j, j.sid \in SidOrNone, j.sid # None => Issued(j.sid)
       PROVE  /\ Usable(j) => Usable(j)'
              /\ Renewed(j) => Renewed(j)'
  <2>1. j.sid # None => j.sid \in Sids /\ sess'[j.sid] = sess[j.sid] /\ Settled(j.sid)' = Settled(j.sid)
    BY <1>4, <1>9, <1>10, <1>11, <1>15
  <2>2. orphans' = orphans /\ cookie' = cookie
    BY <1>3
  <2> QED BY <2>1, <2>2 DEF Usable, Renewed
<1>16. InStep'
  <2>1. Usable(cookie)'
    <3>1. PICK j : j = cookie
      OBVIOUS
    <3>2. Usable(j)'
      BY <1>1, <1>2, <1>15, <3>1 DEF InStep, Arrived
    <3> QED BY <1>3, <3>1, <3>2 DEF Usable
  <2>2. \A j \in orphans : j.sid # None /\ Settled(j.sid)' => sess'[j.sid].gen = j.gen
    <3>1. \A j \in orphans : j.sid # None => j.sid \in Sids /\ j.sid # s
      BY <1>1, <1>2, <1>9, <1>11 DEF Arrived
    <3> QED BY <1>1, <1>4, <1>10, <3>1 DEF InStep
  <2>3. ASSUME NEW u \in Tabs
        PROVE  /\ ref[u].pc = "sent" => Usable(ref[u].tok)'
               /\ Won(u) => Renewed(ref[u].tok)'
    <3>1. PICK j : j = ref[u].tok
      OBVIOUS
    <3>2. /\ ref[u].pc = "sent" => Usable(j)'
          /\ Won(u) => Renewed(j)'
      BY <1>1, <1>2, <1>15, <3>1 DEF InStep, Arrived
    <3> QED BY <1>3, <3>1, <3>2 DEF Usable, Renewed
  <2>4. \A u \in Tabs : Won(u)' = Won(u)
    BY <1>3 DEF Won
  <2> QED BY <1>1, <1>3, <2>1, <2>2, <2>3, <2>4 DEF InStep
<1>17. NoFalseReuse'
  BY <1>1, <1>3, <1>4 DEF NoFalseReuse
<1>18. SignOutRevokes'
  <2>1. \A u \in Tabs, q \in Sids : <<u, q>> \in signedOut => Dead(q)'
    BY <1>1, <1>10 DEF SignOutRevokes, Dead
  <2> QED BY <1>3, <2>1 DEF SignOutRevokes, Dead
<1>19. Leaving'
  <2>1. ASSUME NEW u \in Tabs, out[u].pc = "served", out[u].ans = "ok", out[u].exp # None PROVE Dead(out[u].exp)'
    <3>1. PICK q \in Sids : q = out[u].exp
      BY <1>2, <1>11, <2>1
    <3>2. Dead(q)
      BY <1>1, <2>1, <3>1 DEF Leaving
    <3>3. Dead(q)'
      BY <1>10, <3>2
    <3> QED BY <1>3, <3>1, <3>3 DEF Dead
  <2>2. \A u \in Tabs : Won(u)' /\ <<u, ref[u].tok.sid>> \in signedOut /\ ref[u].tok.sid \notin gap \cup blind => ref[u].cur = "no"
    BY <1>1, <1>3 DEF Leaving, Won
  <2> QED BY <1>3, <2>1, <2>2 DEF Leaving
<1> QED BY <1>6, <1>12, <1>13, <1>14, <1>16, <1>17, <1>18, <1>19 DEF TabsInv

(***************************************************************************)
(* The invariant.                                                           *)
(***************************************************************************)
\* The browser starts with one session, and no tab has anything under way.
LEMMA InitInv == Init => TabsInv
<1> USE SidsAssumption, BoundsAssumption
<1> SUFFICES ASSUME Init PROVE TabsInv
  OBVIOUS
<1>1. /\ cookie = [sid |-> First, gen |-> 1] /\ cookie \in Token /\ cookie.sid = First /\ cookie.gen = 1
      /\ sess \in [Sids -> [st : {"none", "active", "revoked", "reused"}, gen : Nat, grace : {"open", "over"}]]
      /\ \A s \in Sids : sess[s].grace = "over" /\ sess[s].st \in {"none", "active"}
      /\ sess[First].st = "active" /\ sess[First].gen = 1
  BY DEF Init, Token, SidOrNone
<1>2. tab \in [Tabs -> Tab] /\ \A t \in Tabs : tab[t].store \in {None, First}
  <2>1. Loaded("app") \in Tab /\ SignedIn(First) \in Tab
        /\ Loaded("app").store = None /\ SignedIn(First).store = First
    BY DEF Loaded, SignedIn, Tab, SidOrNone
  <2>2. tab \in [Tabs -> {Loaded("app"), SignedIn(First)}]
    BY DEF Init
  <2> HIDE DEF Loaded, SignedIn
  <2> QED BY <2>1, <2>2
<1>3. /\ ref \in [Tabs -> Ref] /\ api \in [Tabs -> Api] /\ out \in [Tabs -> Out]
      /\ \A t \in Tabs : ref[t] = NoRef /\ out[t] = NoOut
  BY BlankValues DEF Init
<1>4. login \in [Tabs -> SidOrNone] /\ \A t \in Tabs : login[t] = None
  BY DEF Init, SidOrNone
<1>5. /\ lock \in Seq(Tabs) /\ mail \in [Tabs -> SUBSET Event] /\ credit \in [Tabs -> Int]
      /\ \A t \in Tabs : mail[t] = {} /\ credit[t] = 0
      /\ orphans = {} /\ signedOut = {} /\ gap = {} /\ blind = {} /\ moves = 0 /\ faults = 0
  BY DEF Init
<1>6. TypeOK
  BY <1>1, <1>2, <1>3, <1>4, <1>5 DEF TypeOK
<1>7. Exclusive
  BY <1>3, BlankValues DEF Exclusive
<1>8. Arriving
  BY <1>1, <1>4 DEF Arriving
<1>9. Issued(First)
  BY <1>1, <1>4 DEF Issued
<1>10. Arrived
  BY <1>1, <1>2, <1>3, <1>5, <1>9, BlankValues DEF Arrived
<1>11. \A t \in Tabs : ref[t].pc = "none" /\ out[t].pc = "none"
  BY <1>3, BlankValues
<1>12. InStep
  BY <1>1, <1>5, <1>11 DEF InStep, Usable, Won
<1>13. NoFalseReuse /\ SignOutRevokes
  BY <1>1, <1>5 DEF NoFalseReuse, SignOutRevokes
<1>14. Leaving
  BY <1>11 DEF Leaving, Won
<1>15. Credited
  <2>1. \A t \in Tabs : Heard(t) = {}
    BY <1>5 DEF Heard
  <2>2. IsFiniteSet({}) /\ Cardinality({}) = 0
    BY FS_EmptySet
  <2>3. \A t \in Tabs : IsFiniteSet(mail[t])
    BY <1>5, <2>2, Zenon
  <2>4. \A t \in Tabs : Cardinality(Heard(t)) = 0
    BY <2>1, <2>2, Zenon
  <2>5. \A t \in Tabs : Cardinality(Heard(t)) <= credit[t]
    BY <1>5, <2>4
  <2> QED BY <2>3, <2>5 DEF Credited
<1> QED BY <1>6, <1>7, <1>8, <1>10, <1>12, <1>13, <1>14, <1>15 DEF TabsInv

\* Every action keeps the invariant.
LEMMA NextInv == TabsInv /\ [Next]_vars => TabsInv'
<1> SUFFICES ASSUME TabsInv, [Next]_vars PROVE TabsInv'
  OBVIOUS
<1>1. CASE UNCHANGED vars
  <2>1. TypeOK' /\ Exclusive' /\ Arriving'
    BY <1>1 DEF vars, TabsInv, TypeOK, Exclusive, Arriving
  <2>2. \A s : Issued(s)' = Issued(s) /\ Settled(s)' = Settled(s) /\ Dead(s)' = Dead(s)
    BY <1>1 DEF vars, Issued, Settled, Dead
  <2>3. \A t \in Tabs : Won(t)' = Won(t)
    BY <1>1 DEF vars, Won
  <2>4. Arrived'
    BY <1>1, <2>2 DEF vars, TabsInv, Arrived, Issued
  <2>5. InStep'
    BY <1>1, <2>2, <2>3 DEF vars, TabsInv, InStep, Usable, Renewed, Settled
  <2>6. NoFalseReuse' /\ SignOutRevokes' /\ Credited'
    BY <1>1 DEF vars, TabsInv, NoFalseReuse, SignOutRevokes, Credited, Heard
  <2>7. Leaving'
    BY <1>1, <2>2, <2>3 DEF vars, TabsInv, Leaving, Dead
  <2> QED BY <2>1, <2>4, <2>5, <2>6, <2>7 DEF TabsInv
<1>2. ASSUME NEW t \in Tabs, Progress(t) PROVE TabsInv'
  <2>1. CASE Send(t)
    BY <2>1, SendInv
  <2>2. CASE Serve(t)
    BY <2>2, ServeInv
  <2>3. CASE Deliver(t)
    BY <2>3, DeliverInv
  <2>4. CASE SignOutAgain(t)
    BY <2>4, SignOutInv
  <2>5. CASE DeliverOut(t)
    BY <2>5, DeliverOutInv
  <2>6. CASE CallAgain(t)
    BY <2>6, CallsInv
  <2>7. CASE DeliverCall(t)
    BY <2>7, DeliverCallInv
  <2> QED BY <1>2, <2>1, <2>2, <2>3, <2>4, <2>5, <2>6, <2>7 DEF Progress
<1>3. ASSUME NEW t \in Tabs,
             \/ Bootstrap(t) \/ FreshHeaders(t) \/ GoSignIn(t) \/ SignInDone(t) \/ SignOut(t) \/ Call(t)
             \/ Reload(t) \/ AccessExpires(t)
      PROVE  TabsInv'
  <2>1. CASE Bootstrap(t)
    BY <2>1, BootstrapInv
  <2>2. CASE FreshHeaders(t)
    BY <2>2, FreshHeadersInv
  <2>3. CASE GoSignIn(t)
    BY <2>3, GoSignInInv
  <2>4. CASE SignInDone(t)
    BY <2>4, SignInDoneInv
  <2>5. CASE SignOut(t)
    BY <2>5, SignOutInv
  <2>6. CASE Call(t)
    BY <2>6, CallsInv
  <2>7. CASE Reload(t)
    BY <2>7, ReloadInv
  <2>8. CASE AccessExpires(t)
    BY <2>8, AccessExpiresInv
  <2> QED BY <1>3, <2>1, <2>2, <2>3, <2>4, <2>5, <2>6, <2>7, <2>8
<1>4. ASSUME NEW t \in Tabs, NEW s \in Sids, SignIn(t, s) PROVE TabsInv'
  BY <1>4, SignInInv
<1>5. ASSUME NEW t \in Tabs, NEW e \in mail[t], Receive(t, e) PROVE TabsInv'
  BY <1>5, ReceiveInv
<1>6. ASSUME NEW s \in Sids, GraceEnds(s) \/ RevokedElsewhere(s) PROVE TabsInv'
  BY <1>6, GraceEndsInv, RevokedElsewhereInv
<1>7. ASSUME NEW k \in orphans, ServeOrphan(k) PROVE TabsInv'
  BY <1>7, ServeOrphanInv
<1>8. CASE CookieLost
  BY <1>8, CookieLostInv
<1> QED BY <1>1, <1>2, <1>3, <1>4, <1>5, <1>6, <1>7, <1>8 DEF Next

(***************************************************************************)
(* What a tab's session may become.                                         *)
(***************************************************************************)
StoreMoves(t) ==
    \/ tab'[t].store \in {None, tab[t].store}
    \/ Won(t) /\ ref[t].cur = "yes" /\ tab'[t].store = ref[t].tok.sid
    \/ login[t] # None /\ tab'[t].store = login[t]

\* A tab's store and nobody else's is replaced.
LEMMA OwnStore ==
    ASSUME TypeOK, NEW t \in Tabs, NEW b, tab' = [tab EXCEPT ![t] = b],
           \/ b.store \in {None, tab[t].store}
           \/ Won(t) /\ ref[t].cur = "yes" /\ b.store = ref[t].tok.sid
           \/ login[t] # None /\ b.store = login[t]
    PROVE  \A u \in Tabs : StoreMoves(u)
<1>1. tab \in [Tabs -> Tab]
  BY DEF TypeOK
<1>2. tab'[t] = b /\ \A u \in Tabs : u # t => tab'[u] = tab[u]
  BY <1>1
<1> QED BY <1>2 DEF StoreMoves

\* A runner that ends leaves the store it was given, or its page is gone.
LEMMA FinishStore ==
    ASSUME TypeOK, NEW t \in Tabs, NEW outcome, NEW tb \in Tab, NEW events, Finish(t, outcome, tb, events)
    PROVE  \E b \in Tab : tab' = [tab EXCEPT ![t] = b] /\ b.store \in {None, tb.store}
<1>1. PICK s \in SidOrNone : s = None
  BY DEF SidOrNone
<1>2. CASE Gone(t, "signin", events)
  <2>1. tab' = [tab EXCEPT ![t] = Loaded("signin")]
    BY <1>2 DEF Gone
  <2> QED BY <1>1, <2>1, StoreEdits
<1>3. CASE Resume(t, outcome, tb)
  <2>1. PICK page \in {"app", "signin"} : tab' = [tab EXCEPT ![t] = [tb EXCEPT !.up = "up", !.page = page]]
    BY <1>3 DEF Resume, Tab
  <2> QED BY <1>1, <2>1, StoreEdits
<1> QED BY <1>2, <1>3 DEF Finish

\* The answers of refreshes.
LEMMA DeliverStore ==
    ASSUME TypeOK, NEW t \in Tabs, Deliver(t)
    PROVE  \A u \in Tabs : StoreMoves(u)
<1>1. tab[t] \in Tab /\ ref[t].pc = "served"
  BY DEF TypeOK, Deliver
<1>2. PICK s \in SidOrNone : s = ref[t].tok.sid
  BY FieldTypes
<1>3. ASSUME NEW outcome, NEW tb \in Tab, NEW events, Finish(t, outcome, tb, events),
             tb.store \in {None, tab[t].store} \/ (Won(t) /\ ref[t].cur = "yes" /\ tb.store = ref[t].tok.sid)
      PROVE  \A u \in Tabs : StoreMoves(u)
  <2>1. PICK b \in Tab : tab' = [tab EXCEPT ![t] = b] /\ b.store \in {None, tb.store}
    BY <1>3, FinishStore
  <2> QED BY <1>3, <2>1, OwnStore
<1> HIDE DEF Finish
<1>4. CASE Finish(t, "transient", tab[t], mail)
  BY <1>1, <1>3, <1>4
<1>5. CASE ref[t].cur = "yes" /\ ref[t].ans = "ok"
           /\ Finish(t, "authenticated", SetBundle(tab[t], ref[t].tok.sid), Accepted(t))
  <2>1. PICK b \in Tab : b = SetBundle(tab[t], ref[t].tok.sid) /\ b.store = ref[t].tok.sid
    BY <1>1, <1>2, StoreEdits
  <2>2. Finish(t, "authenticated", b, Accepted(t)) /\ Won(t)
    BY <1>1, <1>5, <2>1 DEF Won
  <2> QED BY <1>3, <1>5, <2>1, <2>2
<1>6. CASE tab' = tab
  BY <1>6 DEF StoreMoves
<1>7. CASE tab' = [tab EXCEPT ![t] = Reset(tab[t], "idle")]
  <2>1. PICK b \in Tab : b = Reset(tab[t], "idle") /\ b.store = None
    BY <1>1, <1>2, StoreEdits
  <2> QED BY <1>7, <2>1, OwnStore
<1>8. CASE \/ Finish(t, "anonymous", Reset(tab[t], "complete"), Publish(t, "signed_out", tab[t].store))
           \/ Finish(t, "out_of_sync", Reset(tab[t], "complete"), mail)
  <2>1. PICK b \in Tab : b = Reset(tab[t], "complete") /\ b.store = None
    BY <1>1, <1>2, StoreEdits
  <2>2. PICK outcome, m : Finish(t, outcome, b, m)
    BY <1>8, <2>1
  <2> QED BY <1>3, <2>1, <2>2
<1>9. CASE Finish(t, "transient", [tab[t] EXCEPT !.boot = "idle"], mail)
  <2>1. PICK b \in Tab : b = [tab[t] EXCEPT !.boot = "idle"] /\ b.store = tab[t].store
    BY <1>1, <1>2, StoreEdits
  <2>2. Finish(t, "transient", b, mail)
    BY <1>9, <2>1
  <2> QED BY <1>3, <2>1, <2>2
<1> QED BY <1>4, <1>5, <1>6, <1>7, <1>8, <1>9 DEF Deliver, StillCurrent

\* Only the answer of a refresh nobody superseded, or of a sign-in, gives a tab
\* a session.
LEMMA StoreStep ==
    ASSUME TypeOK, [Next]_vars
    PROVE  \A u \in Tabs : StoreMoves(u)
<1>1. CASE tab' = tab
  BY <1>1 DEF StoreMoves
<1>2. ASSUME NEW t \in Tabs,
             \/ Send(t) \/ DeliverOut(t) \/ DeliverCall(t) \/ Bootstrap(t) \/ GoSignIn(t) \/ SignInDone(t)
             \/ Reload(t) \/ AccessExpires(t) \/ \E e \in mail[t] : Receive(t, e)
      PROVE  \A u \in Tabs : StoreMoves(u)
  <2>1. tab[t] \in Tab /\ login[t] \in SidOrNone /\ tab[t].page \in {"app", "signin"}
    BY DEF TypeOK, Tab
  <2>2. PICK s \in SidOrNone : s = login[t]
    BY <2>1
  <2>3. PICK p \in {"app", "signin"} : p = tab[t].page
    BY <2>1
  <2>4. ASSUME NEW page \in {"app", "signin"}, NEW events, Gone(t, page, events)
        PROVE  \A u \in Tabs : StoreMoves(u)
    <3>1. PICK b \in Tab : b = Loaded(page) /\ b.store = None
      BY <2>1, <2>2, StoreEdits
    <3> QED BY <2>4, <3>1, OwnStore DEF Gone
  <2>5. ASSUME NEW b, tab' = [tab EXCEPT ![t] = b], b.store \in {None, tab[t].store}
        PROVE  \A u \in Tabs : StoreMoves(u)
    BY <2>5, OwnStore
  <2>6. PICK b \in Tab : b = Reset(tab[t], "complete") /\ b.store = None
    BY <2>1, <2>2, StoreEdits
  <2>7. PICK c \in Tab : c = [Reset(tab[t], "complete") EXCEPT !.page = "signin"] /\ c.store = None
    BY <2>2, <2>6, StoreEdits
  <2>8. CASE Send(t)
    <3>1. PICK x \in Tab : x = tab[t]
      BY <2>1
    <3>2. CASE Finish(t, "transient", tab[t], mail)
      <4>1. PICK y \in Tab : tab' = [tab EXCEPT ![t] = y] /\ y.store \in {None, x.store}
        BY <3>1, <3>2, FinishStore
      <4> QED BY <2>5, <3>1, <4>1
    <3> QED BY <1>1, <2>8, <3>2 DEF Send
  <2>9. CASE DeliverOut(t)
    BY <1>1, <2>5, <2>7, <2>9 DEF DeliverOut
  <2>10. CASE DeliverCall(t)
    <3>1. CASE Rotates(t) /\ tab' = [tab EXCEPT ![t] = SetBundle(tab[t], api[t].sid)]
      <4>1. PICK q \in SidOrNone : q = tab[t].store /\ api[t].sid = q
        BY <3>1, FieldTypes DEF Rotates
      <4>2. SetBundle(tab[t], q) \in Tab /\ SetBundle(tab[t], q).store = q
        BY <2>1, StoreEdits
      <4>3. PICK x \in Tab : x = SetBundle(tab[t], q) /\ x.store = q
        BY <4>2
      <4> QED BY <2>5, <3>1, <4>1, <4>3
    <3>2. CASE Gone(t, "signin", mail)
      BY <2>4, <3>2
    <3>3. CASE tab' = [tab EXCEPT ![t] = Reset(tab[t], "complete")]
      BY <2>5, <2>6, <3>3
    <3> HIDE DEF Gone
    <3> QED BY <1>1, <2>10, <3>1, <3>2, <3>3 DEF DeliverCall
  <2>11. CASE Bootstrap(t)
    <3>1. PICK x \in Tab : x = [tab[t] EXCEPT !.boot = "idle"] /\ x.store = tab[t].store
      BY <2>1, <2>2, StoreEdits
    <3> QED BY <2>5, <2>11, <3>1 DEF Bootstrap
  <2>12. CASE GoSignIn(t)
    <3>1. PICK x \in Tab : x = [tab[t] EXCEPT !.page = "signin"] /\ x.store = tab[t].store
      BY <2>1, <2>2, StoreEdits
    <3> QED BY <2>5, <2>12, <3>1 DEF GoSignIn
  <2>13. CASE AccessExpires(t)
    <3>1. PICK x \in Tab : x = [tab[t] EXCEPT !.access = "stale"] /\ x.store = tab[t].store
      BY <2>1, <2>2, StoreEdits
    <3> QED BY <2>5, <2>13, <3>1 DEF AccessExpires
  <2>14. CASE SignInDone(t)
    <3>1. SetBundle(tab[t], s) \in Tab /\ SetBundle(tab[t], s).store = s
      BY <2>1, StoreEdits
    <3>2. PICK x \in Tab : x = SetBundle(tab[t], s) /\ x.store = s
      BY <3>1
    <3>3. [x EXCEPT !.page = "app"] \in Tab /\ [x EXCEPT !.page = "app"].store = x.store
      BY StoreEdits
    <3>4. PICK y \in Tab : y = [x EXCEPT !.page = "app"] /\ y.store = s
      BY <3>2, <3>3
    <3>5. tab' = [tab EXCEPT ![t] = y] /\ login[t] # None
      BY <2>2, <2>14, <3>2, <3>4 DEF SignInDone
    <3> QED BY <2>2, <3>4, <3>5, OwnStore
  <2>15. CASE Reload(t)
    BY <2>3, <2>4, <2>15 DEF Reload
  <2>16. ASSUME NEW e \in mail[t], Receive(t, e)
         PROVE  \A u \in Tabs : StoreMoves(u)
    <3>1. CASE Gone(t, tab[t].page, mail)
      BY <2>3, <2>4, <3>1
    <3>2. CASE tab' = [tab EXCEPT ![t] = [Reset(tab[t], "complete") EXCEPT !.page = "signin"]]
      BY <2>5, <2>7, <3>2
    <3> HIDE DEF Gone
    <3> QED BY <1>1, <2>16, <3>1, <3>2 DEF Receive
  <2> QED BY <1>2, <2>8, <2>9, <2>10, <2>11, <2>12, <2>13, <2>14, <2>15, <2>16
<1>3. ASSUME NEW t \in Tabs,
             \/ Serve(t) \/ SignOutAgain(t) \/ CallAgain(t) \/ FreshHeaders(t) \/ SignOut(t) \/ Call(t)
             \/ \E s \in Sids : SignIn(t, s)
      PROVE  tab' = tab
  BY <1>3 DEF Serve, SignOutAgain, CallAgain, FreshHeaders, SignOut, Call, SignIn, AuthLogout, Request
<1>4. ASSUME \/ \E s \in Sids : GraceEnds(s) \/ RevokedElsewhere(s)
             \/ \E k \in orphans : ServeOrphan(k)
             \/ CookieLost
      PROVE  tab' = tab
  BY <1>4 DEF GraceEnds, RevokedElsewhere, ServeOrphan, CookieLost
<1>5. ASSUME NEW t \in Tabs, Deliver(t)
      PROVE  \A u \in Tabs : StoreMoves(u)
  BY <1>5, DeliverStore
<1>6. CASE UNCHANGED vars
  BY <1>1, <1>6 DEF vars
<1> QED BY <1>1, <1>2, <1>3, <1>4, <1>5, <1>6 DEF Next, Progress

(***************************************************************************)
(* The theorems.                                                            *)
(***************************************************************************)

\* Whatever the tabs do, TabsInv holds: refreshes are serialised by the lock,
\* and cookie, requests and answers stay in step with the server's sessions.
THEOREM TabsInvariant == Spec => []TabsInv
BY InitInv, NextInv, PTL DEF Spec

\* RefreshAuth takes no refresh of the browser for the replay of a stolen token
\* (revoking the session), however many tabs, reloads and lost answers, unless
\* the grace window closed before the new token had reached the browser.
THEOREM RefreshNeverLooksStolen == Spec => []NoFalseReuse
<1>1. TabsInv => NoFalseReuse
  BY DEF TabsInv
<1> QED BY <1>1, TabsInvariant, PTL

\* AuthLogout has ended, on the server, the session that executeLogout reports
\* signed out -- but for the two sign-outs it confirms without knowing whose
\* they are: with a cookie that lost its grace window before it was replaced
\* (gap), and with neither a good access token nor a cookie (blind).
THEOREM ConfirmedSignOutRevokes == Spec => []SignOutRevokes
<1>1. TabsInv => SignOutRevokes
  BY DEF TabsInv
<1> QED BY <1>1, TabsInvariant, PTL

\* The tabs reload at most once for each sign-in of another tab they were told
\* of (handleAuthSessionEvent).
THEOREM OneReloadPerLogin == Spec => []ReloadPerLogin
<1>1. ASSUME TabsInv PROVE ReloadPerLogin
  <2> SUFFICES ASSUME NEW t \in Tabs PROVE credit[t] >= 0
    BY DEF ReloadPerLogin
  <2>1. IsFiniteSet(Heard(t))
    BY <1>1, FS_Subset DEF TabsInv, Credited, Heard
  <2>2. Cardinality(Heard(t)) \in Nat
    BY <2>1, FS_CardinalityType
  <2>3. credit[t] \in Int /\ Cardinality(Heard(t)) <= credit[t]
    BY <1>1 DEF TabsInv, TypeOK, Credited
  <2> QED BY <2>2, <2>3
<1> QED BY <1>1, TabsInvariant, PTL

\* A tab that signed out of a session never shows it again: the answer of a
\* refresh sent before the sign-out is superseded (authEpoch), and a sign-in
\* brings a session of its own.  Excepted are the sign-outs that ended nothing
\* on the server (gap, blind): a refresh of another tab brings the cookie of
\* such a session back, and the tab signs in with it.
THEOREM SignedOutForGood == Spec => SignedOutStaysOut
<1>1. ASSUME TabsInv, [Next]_vars
      PROVE  [\A t \in Tabs, s \in Sids :
                <<t, s>> \in signedOut /\ s \notin gap \cup blind /\ tab[t].store # s => tab'[t].store # s]_vars
  <2> SUFFICES ASSUME NEW t \in Tabs, NEW s \in Sids, <<t, s>> \in signedOut, s \notin gap \cup blind,
                      tab[t].store # s, tab'[t].store = s
               PROVE  FALSE
    BY DEF vars
  <2>1. TypeOK /\ Arrived /\ Leaving
    BY <1>1 DEF TabsInv
  <2>2. StoreMoves(t)
    BY <1>1, <2>1, StoreStep
  <2>3. \/ Won(t) /\ ref[t].cur = "yes" /\ ref[t].tok.sid = s
        \/ login[t] = s
    BY <2>2, SidsAssumption DEF StoreMoves
  <2>4. login[t] # s
    BY <2>1 DEF Arrived, Issued
  <2> QED BY <2>1, <2>3, <2>4 DEF Leaving
<1> QED BY <1>1, TabsInvariant, PTL DEF Spec, SignedOutStaysOut
=============================================================================
