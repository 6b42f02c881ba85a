-------------------------- MODULE BillingSessionProofs --------------------------
(***************************************************************************)
(* Proofs about BillingSession, for any number of requests, any users,       *)
(* prices and amounts, and any number of retries and failing calls.          *)
(*                                                                           *)
(* Every step of a handler or of a refund goroutine changes one request.     *)
(* So the proofs are about the record of that request: Sound is kept by      *)
(* every change of it, and Lift carries this over to the whole state.        *)
(***************************************************************************)
EXTENDS BillingSession, TLAPS

Jobs == {"queued", "token", "bad"} \cup JobEnded
Amounts == [Accounts -> Int]

USE DEF Ended, JobEnded, Opening, Holding, Settling, Calling, Between

(***************************************************************************)
(* A request without a session, and one whose session is at rest.          *)
(***************************************************************************)
Unopened(s, n) ==
    /\ ~s.session /\ s.pre = 0 /\ s.fund = 0 /\ s.held = 0 /\ s.tok = 0
    /\ ~s.fundingUncertain /\ ~s.tokenUncertain /\ ~s.settled /\ ~s.fundingSettled /\ ~s.refunded
    /\ \A a \in Accounts : n[a] >= 0 /\ (a \notin s.doubt => n[a] = 0)

Resting(pg, s, n) ==
    /\ s.session /\ s.src \in {"wallet", "sub"} /\ ~s.settled /\ ~s.refunded
    /\ ~s.fundingUncertain /\ ~s.tokenUncertain =>
        /\ s.tok = Share(pg, s.pre) /\ s.fund = s.pre
        /\ s.src = "sub" => s.held > 0
        /\ s.src = "wallet" => s.held = s.pre
    /\ ~s.tokenUncertain => n["token"] >= s.tok /\ ("token" \notin s.doubt => n["token"] = s.tok)
    /\ ~s.fundingUncertain =>
        /\ \A a \in {"wallet", "sub"} :
              LET p == IF s.src = a THEN s.fund ELSE 0
              IN  n[a] >= p /\ (a \notin s.doubt => n[a] = p)
        /\ s.src = "sub" => "sub" \notin s.doubt
    /\ \A a \in Accounts : n[a] >= 0

LEMMA UnopenedSound ==
    ASSUME NEW pg \in BOOLEAN, NEW s \in Request, NEW n \in Amounts, Unopened(s, n),
           s.pc \in {"new", "open"} \cup Between \cup Ended
    PROVE  Sound(pg, s, n, "none")
<1>1. InPlace(s, "none")
    BY DEF Unopened, InPlace, Uncertain
<1>2. Counted(pg, s) /\ NothingLeft(s, "none")
    BY DEF Unopened, Counted, Uncertain, NothingLeft
<1>3. TokenBacked(s, n, "none")
    BY DEF Unopened, TokenBacked, TokenBook, Amounts, Accounts
<1>4. FundBacked(s, n, "none")
    BY DEF Unopened, FundBacked, Pays, Spilled, FundBook, Amounts, Accounts
<1> QED
    BY <1>1, <1>2, <1>3, <1>4 DEF Sound, Unopened

LEMMA SoundUnopened ==
    ASSUME NEW pg \in BOOLEAN, NEW s \in Request, NEW n \in Amounts, NEW j \in Jobs,
           Sound(pg, s, n, j), ~s.session, s.pc \notin {"preFund", "preBack"}
    PROVE  Unopened(s, n) /\ j = "none"
<1>1. /\ s.pre = 0 /\ s.fund = 0 /\ s.held = 0 /\ s.tok = 0 /\ j = "none"
      /\ ~s.fundingUncertain /\ ~s.tokenUncertain /\ ~s.settled /\ ~s.refunded
    BY DEF Sound, InPlace, Counted, Uncertain
<1>2. ~s.fundingSettled
    BY DEF Sound, Counted
<1>3. \A a \in Accounts : n[a] >= 0 /\ (a \notin s.doubt => n[a] = 0)
    BY <1>1 DEF Sound, TokenBacked, TokenBook, FundBacked, Pays, Spilled, FundBook, Accounts
<1> QED
    BY <1>1, <1>2, <1>3 DEF Unopened

LEMMA RestingSound ==
    ASSUME NEW pg \in BOOLEAN, NEW s \in Request, NEW n \in Amounts, Resting(pg, s, n),
           s.pc \in Between, ~s.fundingSettled
    PROVE  Sound(pg, s, n, "none")
<1>1. InPlace(s, "none")
    BY DEF Resting, InPlace, Uncertain
<1>2. Counted(pg, s) /\ NothingLeft(s, "none")
    BY DEF Resting, Counted, Uncertain, NothingLeft, Request
<1>3. TokenBacked(s, n, "none")
    BY DEF Resting, TokenBacked, TokenBook
<1>4. FundBacked(s, n, "none")
    BY DEF Resting, FundBacked, Pays, Spilled, FundBook
<1> QED
    BY <1>1, <1>2, <1>3, <1>4 DEF Sound, Resting

(* Also a call that is about to be made: nothing has moved yet.            *)
LEMMA SoundResting ==
    ASSUME NEW pg \in BOOLEAN, NEW s \in Request, NEW n \in Amounts, NEW j \in Jobs,
           Sound(pg, s, n, j), s.session,
           s.pc \in Between \cup {"resFund", "resSub", "setFund", "setSub"}
    PROVE  Resting(pg, s, n) /\ ~s.fundingSettled /\ j = "none"
<1>1. j = "none" /\ s.src \in {"wallet", "sub"} /\ ~s.settled /\ ~s.fundingSettled /\ ~s.refunded
    BY DEF Sound, InPlace, Request
<1>2. ~s.fundingUncertain /\ ~s.tokenUncertain =>
        /\ s.tok = Share(pg, s.pre) /\ s.fund = s.pre
        /\ s.src = "sub" => s.held > 0
        /\ s.src = "wallet" => s.held = s.pre
    BY <1>1 DEF Sound, Counted, Uncertain, Request
<1>3. ~s.tokenUncertain => n["token"] >= s.tok /\ ("token" \notin s.doubt => n["token"] = s.tok)
    BY <1>1 DEF Sound, TokenBacked, TokenBook
<1>4. ~s.fundingUncertain =>
        /\ \A a \in {"wallet", "sub"} :
              LET p == IF s.src = a THEN s.fund ELSE 0
              IN  n[a] >= p /\ (a \notin s.doubt => n[a] = p)
        /\ s.src = "sub" => "sub" \notin s.doubt
    BY <1>1 DEF Sound, FundBacked, Pays, Spilled, FundBook
<1> QED
    BY <1>1, <1>2, <1>3, <1>4 DEF Resting, Sound

(* Fields that a step of control alone leaves as they are.                 *)
SameBooks(z, s) ==
    /\ z.session = s.session /\ z.pre = s.pre /\ z.fund = s.fund /\ z.tok = s.tok /\ z.held = s.held
    /\ z.fundingSettled = s.fundingSettled /\ z.settled = s.settled /\ z.refunded = s.refunded
    /\ z.fundingUncertain = s.fundingUncertain /\ z.tokenUncertain = s.tokenUncertain
    /\ z.doubt = s.doubt

LEMMA RefusedIs ==
    ASSUME NEW s \in Request, NEW z \in Refused(s)
    PROVE  /\ z \in Request /\ z.pc \in {"fail", "route"}
           /\ SameBooks(z, s) /\ z.src = s.src
<1>1. CASE z = [s EXCEPT !.pc = "fail"]
    BY <1>1 DEF Request, Pc, SameBooks
<1>2. CASE z = [s EXCEPT !.pc = "route", !.tries = @ + 1]
    <2>1. ASSUME NEW p \in Pc, NEW t \in Nat
          PROVE  LET y == [s EXCEPT !.pc = p, !.tries = t]
                 IN  y \in Request /\ y.pc = p /\ SameBooks(y, s) /\ y.src = s.src
        BY DEF Request, SameBooks
    <2>2. "route" \in Pc /\ s.tries + 1 \in Nat
        BY DEF Pc, Request
    <2> QED
        BY <1>2, <2>1, <2>2
<1> QED
    BY <1>1, <1>2 DEF Refused

LEMMA RefusedResting ==
    ASSUME NEW pg \in BOOLEAN, NEW s \in Request, NEW n \in Amounts, Resting(pg, s, n),
           ~s.fundingSettled, NEW z \in Refused(s)
    PROVE  z \in Request /\ Sound(pg, z, n, "none") /\ z.pc \in {"fail", "route"}
<1>1. z \in Request /\ z.pc \in {"fail", "route"} /\ SameBooks(z, s) /\ z.src = s.src
    BY RefusedIs
<1>2. Resting(pg, z, n) /\ ~z.fundingSettled
    BY <1>1 DEF Resting, SameBooks
<1> QED
    BY <1>1, <1>2, RestingSound

LEMMA RefusedUnopened ==
    ASSUME NEW pg \in BOOLEAN, NEW s \in Request, NEW n \in Amounts, Unopened(s, n),
           NEW z \in Refused(s)
    PROVE  z \in Request /\ Sound(pg, z, n, "none") /\ z.pc \in {"fail", "route"}
<1>1. z \in Request /\ z.pc \in {"fail", "route"} /\ SameBooks(z, s)
    BY RefusedIs
<1>2. Unopened(z, n)
    BY <1>1 DEF Unopened, SameBooks
<1> QED
    BY <1>1, <1>2, UnopenedSound

LEMMA TryKeeps ==
    ASSUME NEW pg \in BOOLEAN, NEW s \in Request, NEW n \in Amounts, Unopened(s, n),
           NEW src \in {"wallet", "sub"}, NEW rest \in {"none", "wallet", "sub"}
    PROVE  /\ Try(s, src, rest) \in Request /\ Sound(pg, Try(s, src, rest), n, "none")
           /\ Try(s, src, rest).pc \in {"check", "preTok"}
<1> DEFINE p == IF src = "wallet" THEN "check" ELSE "preTok"
           d == IF src = "wallet" \/ s.goal > 0 THEN s.goal ELSE 1
           z == [s EXCEPT !.src = src, !.alt = rest, !.pc = p, !.need = d]
<1>1. d \in Nat /\ p \in {"check", "preTok"} /\ (src = "sub" => d > 0) /\ (p = "check" => src = "wallet")
    BY DEF Request
<1>2. z = Try(s, src, rest)
    BY DEF Try
<1> HIDE DEF d, p
<1>3. z \in Request /\ z.pc = p /\ z.src = src /\ z.need = d /\ SameBooks(z, s)
    <2>1. ASSUME NEW q \in Pc, NEW e \in Int
          PROVE  LET y == [s EXCEPT !.src = src, !.alt = rest, !.pc = q, !.need = e]
                 IN  y \in Request /\ y.pc = q /\ y.src = src /\ y.need = e /\ SameBooks(y, s)
        BY DEF Request, SameBooks
    <2>2. p \in Pc /\ d \in Int
        BY <1>1 DEF Pc
    <2> QED
        BY <2>1, <2>2
<1> HIDE DEF z
<1>4. Unopened(z, n)
    BY <1>3 DEF Unopened, SameBooks
<1>5. InPlace(z, "none")
    BY <1>1, <1>3, <1>4 DEF Unopened, InPlace, Uncertain
<1>6. Counted(pg, z) /\ NothingLeft(z, "none")
    BY <1>1, <1>3, <1>4 DEF Unopened, Counted, Uncertain, NothingLeft
<1>7. TokenBacked(z, n, "none")
    BY <1>4 DEF Unopened, TokenBacked, TokenBook, Amounts, Accounts
<1>8. FundBacked(z, n, "none")
    BY <1>4 DEF Unopened, FundBacked, Pays, Spilled, FundBook, Amounts, Accounts
<1> QED
    BY <1>1, <1>2, <1>3, <1>4, <1>5, <1>6, <1>7, <1>8 DEF Sound, Unopened

LEMMA NotOpenedKeeps ==
    ASSUME NEW pg \in BOOLEAN, NEW s \in Request, NEW n \in Amounts, Unopened(s, n),
           NEW z \in NotOpened(s)
    PROVE  z \in Request /\ Sound(pg, z, n, "none") /\ z.pc \notin {"new"} \cup Ended
<1>1. CASE s.code = "short" /\ s.alt # "none"
    <2>1. s.alt \in {"wallet", "sub"} /\ z = Try(s, s.alt, "none")
        BY <1>1 DEF NotOpened, Request
    <2> QED
        BY <2>1, TryKeeps
<1>2. CASE ~(s.code = "short" /\ s.alt # "none")
    BY <1>2, RefusedUnopened DEF NotOpened
<1> QED
    BY <1>1, <1>2

(***************************************************************************)
(* From one request to the whole state.                                    *)
(***************************************************************************)
LEMMA Here ==
    ASSUME BillingInv, NEW r \in Requests
    PROVE  /\ SessionTypes /\ user.playground \in BOOLEAN /\ balance \in Amounts
           /\ faults \in 0..MaxFaults
           /\ req[r] \in Request /\ net[r] \in Amounts /\ job[r] \in Jobs
           /\ Sound(user.playground, req[r], net[r], job[r])
<1>1. user \in UserType
    BY UsersAssumption DEF BillingInv, SessionTypes
<1>2. user.playground \in BOOLEAN
    BY <1>1 DEF UserType
<1> QED
    BY <1>2 DEF BillingInv, SessionTypes, Amounts, Jobs

(* What a call does to the amounts of the request that makes it.           *)
Taken(m, n, take) == \A a \in Accounts : m[a] = n[a] + take[a]

LEMMA CallDoes ==
    ASSUME SessionTypes, NEW r \in Requests, NEW take \in Amounts, NEW fits, NEW oc,
           Call(r, take, fits, oc)
    PROVE  /\ balance' \in Amounts /\ faults' \in 0..MaxFaults
           /\ \E m \in Amounts :
                /\ net' = [net EXCEPT ![r] = m]
                /\ IF oc \in {"ok", "late"} THEN Taken(m, net[r], take) ELSE m = net[r]
<1>1. net \in [Requests -> Amounts] /\ balance \in Amounts /\ faults \in 0..MaxFaults
    BY DEF SessionTypes, Amounts
<1>2. faults' \in 0..MaxFaults
    BY <1>1, BoundsAssumption DEF Call, Answers
<1>3. CASE oc \in {"ok", "late"}
    <2> DEFINE m == [a \in Accounts |-> net[r][a] + take[a]]
    <2>1. net' = [net EXCEPT ![r] = m] /\ balance' = [a \in Accounts |-> balance[a] - take[a]]
        BY <1>1, <1>3 DEF Call
    <2>2. m \in Amounts /\ balance' \in Amounts /\ Taken(m, net[r], take)
        BY <1>1, <2>1 DEF Amounts, Taken
    <2> QED
        BY <1>2, <1>3, <2>1, <2>2
<1>4. CASE oc \notin {"ok", "late"}
    <2>1. net' = net /\ balance' = balance
        BY <1>4 DEF Call
    <2>2. net' = [net EXCEPT ![r] = net[r]] /\ net[r] \in Amounts
        BY <1>1, <2>1
    <2> QED
        BY <1>1, <1>2, <1>4, <2>1, <2>2
<1> QED
    BY <1>3, <1>4

LEMMA QuietDoes ==
    ASSUME SessionTypes, NEW r \in Requests, Quiet
    PROVE  balance' \in Amounts /\ faults' \in 0..MaxFaults /\ net' = [net EXCEPT ![r] = net[r]]
<1>1. net \in [Requests -> Amounts] /\ balance \in Amounts /\ faults \in 0..MaxFaults
    BY DEF SessionTypes, Amounts
<1> QED
    BY <1>1 DEF Quiet

(* A call on one account.                                                  *)
Moved(m, n, a, d) == m[a] = n[a] + d /\ \A b \in Accounts \ {a} : m[b] = n[b]

LEMMA OnlyMoves ==
    ASSUME NEW n \in Amounts, NEW m \in Amounts, NEW a \in Accounts, NEW d \in Int,
           Taken(m, n, Only(a, d))
    PROVE  Moved(m, n, a, d)
BY DEF Taken, Only, Moved, Amounts

LEMMA OnlyTyped ==
    ASSUME NEW a \in Accounts, NEW d \in Int
    PROVE  Only(a, d) \in Amounts
BY DEF Only, Amounts

LEMMA ReserveDoes ==
    ASSUME SessionTypes, NEW r \in Requests, NEW a \in Accounts, NEW d \in Int, NEW oc,
           TryReserve(r, a, d, oc)
    PROVE  /\ balance' \in Amounts /\ faults' \in 0..MaxFaults
           /\ \E m \in Amounts :
                /\ net' = [net EXCEPT ![r] = m]
                /\ IF oc \in {"ok", "late"} THEN Moved(m, net[r], a, d) ELSE m = net[r]
<1>1. net[r] \in Amounts /\ Only(a, d) \in Amounts
    BY OnlyTyped DEF SessionTypes, Amounts
<1>2. /\ balance' \in Amounts /\ faults' \in 0..MaxFaults
      /\ \E m \in Amounts :
           /\ net' = [net EXCEPT ![r] = m]
           /\ IF oc \in {"ok", "late"} THEN Taken(m, net[r], Only(a, d)) ELSE m = net[r]
    BY <1>1, CallDoes DEF TryReserve
<1> QED
    BY <1>1, <1>2, OnlyMoves

LEMMA AdjustDoes ==
    ASSUME SessionTypes, NEW r \in Requests, NEW a \in Accounts, NEW d \in Int, NEW oc,
           Adjust(r, a, d, oc)
    PROVE  /\ balance' \in Amounts /\ faults' \in 0..MaxFaults
           /\ \E m \in Amounts :
                /\ net' = [net EXCEPT ![r] = m]
                /\ IF oc \in {"ok", "late"} THEN Moved(m, net[r], a, d) ELSE m = net[r]
<1>1. net[r] \in Amounts /\ Only(a, d) \in Amounts
    BY OnlyTyped DEF SessionTypes, Amounts
<1>2. /\ balance' \in Amounts /\ faults' \in 0..MaxFaults
      /\ \E m \in Amounts :
           /\ net' = [net EXCEPT ![r] = m]
           /\ IF oc \in {"ok", "late"} THEN Taken(m, net[r], Only(a, d)) ELSE m = net[r]
    BY <1>1, CallDoes DEF Adjust
<1> QED
    BY <1>1, <1>2, OnlyMoves

LEMMA Lift ==
    ASSUME BillingInv, NEW r \in Requests, NEW z \in Request, NEW m \in Amounts, NEW k \in Jobs,
           req' = [req EXCEPT ![r] = z], net' = [net EXCEPT ![r] = m], job' = [job EXCEPT ![r] = k],
           Running, UNCHANGED <<user, server>>, balance' \in Amounts, faults' \in 0..MaxFaults,
           Sound(user.playground, z, m, k),
           server = "drained" => z.pc \in Ended \cup {"new"}
    PROVE  BillingInv'
<1>1. /\ req \in [Requests -> Request] /\ net \in [Requests -> Amounts] /\ job \in [Requests -> Jobs]
      /\ user \in Users /\ server \in {"up", "stopping", "drained"}
    BY DEF BillingInv, SessionTypes, Amounts, Jobs, Running
<1>2. SessionTypes'
    BY <1>1 DEF SessionTypes, Amounts, Jobs
<1>3. \A q \in Requests : q # r => req'[q] = req[q] /\ net'[q] = net[q] /\ job'[q] = job[q]
    BY <1>1
<1>4. req'[r] = z /\ net'[r] = m /\ job'[r] = k
    BY <1>1
<1>5. \A q \in Requests : Sound(user'.playground, req'[q], net'[q], job'[q])
    BY <1>3, <1>4 DEF BillingInv
<1>6. server' \in {"drained", "clean"} => \A q \in Requests : req'[q].pc \in Ended \cup {"new"}
    BY <1>1, <1>3, <1>4 DEF BillingInv
<1>7. server' # "clean"
    BY <1>1
<1> QED
    BY <1>2, <1>5, <1>6, <1>7 DEF BillingInv

(* A step of the handler.                                                  *)
LEMMA HandlerLift ==
    ASSUME BillingInv, NEW r \in Requests, NEW z \in Request, NEW m \in Amounts,
           Put(r, z), net' = [net EXCEPT ![r] = m], Frame,
           balance' \in Amounts, faults' \in 0..MaxFaults,
           Sound(user.playground, z, m, job[r]),
           server = "up" \/ req[r].pc \notin Ended \cup {"new"}
    PROVE  BillingInv'
<1>1. job' = [job EXCEPT ![r] = job[r]] /\ job[r] \in Jobs
    BY DEF Frame, BillingInv, SessionTypes, Jobs
<1>2. server # "drained"
    BY DEF BillingInv
<1> QED
    BY <1>1, <1>2, Lift DEF Put, Frame

(* A step of the handler that makes no call.                               *)
LEMMA QuietLift ==
    ASSUME BillingInv, NEW r \in Requests, NEW z \in Request, Put(r, z), Quiet, Frame,
           Sound(user.playground, z, net[r], job[r]),
           server = "up" \/ req[r].pc \notin Ended \cup {"new"}
    PROVE  BillingInv'
<1>1. SessionTypes /\ net[r] \in Amounts
    BY Here
<1>2. balance' \in Amounts /\ faults' \in 0..MaxFaults /\ net' = [net EXCEPT ![r] = net[r]]
    BY <1>1, QuietDoes
<1> QED
    BY <1>1, <1>2, HandlerLift

(***************************************************************************)
(* NewBillingSession and preConsume.                                       *)
(***************************************************************************)
LEMMA KeepsBegin ==
    ASSUME BillingInv, NEW r \in Requests, NEW k \in Kinds, Begin(r, k)
    PROVE  BillingInv'
<1> DEFINE s == req[r]
           n == net[r]
<1>1. s \in Request /\ n \in Amounts /\ user.playground \in BOOLEAN /\ s.pc = "new"
      /\ Sound(user.playground, s, n, job[r]) /\ job[r] \in Jobs /\ balance \in Amounts
    BY Here DEF Begin
<1>2. Unopened(s, n) /\ job[r] = "none"
    <2>1. ~s.session
        BY <1>1 DEF Sound, InPlace
    <2> QED
        BY <1>1, <2>1, SoundUnopened
<1> DEFINE y == [s EXCEPT !.kind = k, !.tokSeen = balance["token"], !.pc = "route"]
           z(q) == [y EXCEPT !.goal = q, !.pc = "open"]
<1>4. k \in {"text", "task"} /\ balance["token"] \in Int /\ "route" \in Pc /\ "open" \in Pc
    BY <1>1, KindsAssumption DEF Amounts, Accounts, Pc
<1>5. y \in Request /\ y.pc = "route" /\ SameBooks(y, s)
    <2>1. \A b \in Int, p \in Pc : LET x == [s EXCEPT !.kind = k, !.tokSeen = b, !.pc = p]
                                    IN  x \in Request /\ x.pc = p /\ SameBooks(x, s)
        <3> HIDE DEF s
        <3> QED
            BY <1>1, <1>4 DEF Request, SameBooks
    <2> QED
        BY <1>4, <2>1
<1>6. ASSUME NEW q \in Quotas PROVE z(q) \in Request /\ z(q).pc = "open" /\ SameBooks(z(q), s)
    <2>1. q \in Nat
        BY QuotasAssumption
    <2>2. ASSUME NEW x \in Request, NEW p \in Pc
          PROVE  [x EXCEPT !.goal = q, !.pc = p] \in Request /\ [x EXCEPT !.goal = q, !.pc = p].pc = p
                 /\ SameBooks([x EXCEPT !.goal = q, !.pc = p], x)
        BY <2>1 DEF Request, SameBooks
    <2> HIDE DEF y
    <2>3. z(q) \in Request /\ z(q).pc = "open" /\ SameBooks(z(q), y)
        BY <1>4, <1>5, <2>2
    <2> QED
        BY <1>5, <2>3 DEF SameBooks
<1>7. \E x \in Request : Put(r, x) /\ x.pc \in {"route", "open"} /\ SameBooks(x, s)
    BY <1>5, <1>6 DEF Begin
<1> HIDE DEF y, z
<1>8. PICK x \in Request : Put(r, x) /\ x.pc \in {"route", "open"} /\ SameBooks(x, s)
    BY <1>7
<1>9. Unopened(x, n)
    BY <1>2, <1>8 DEF Unopened, SameBooks
<1>10. Sound(user.playground, x, n, "none")
    BY <1>1, <1>8, <1>9, UnopenedSound
<1> QED
    BY <1>2, <1>8, <1>10, QuietLift DEF Begin

LEMMA KeepsOpen ==
    ASSUME BillingInv, NEW r \in Requests, Open(r)
    PROVE  BillingInv'
<1>1. req[r] \in Request /\ net[r] \in Amounts /\ user.playground \in BOOLEAN /\ req[r].pc = "open"
      /\ Sound(user.playground, req[r], net[r], job[r]) /\ job[r] \in Jobs
    BY Here DEF Open
<1>2. Unopened(req[r], net[r]) /\ job[r] = "none"
    <2>1. ~req[r].session
        BY <1>1 DEF Sound, InPlace
    <2> QED
        BY <1>1, <2>1, SoundUnopened
<1>3. Sources[1] \in {"wallet", "sub"} /\ Sources[2] \in {"none", "wallet", "sub"}
    BY DEF Sources
<1> DEFINE z == Try(req[r], Sources[1], Sources[2])
<1>4. z \in Request /\ Sound(user.playground, z, net[r], "none")
    BY <1>1, <1>2, <1>3, TryKeeps
<1> QED
    BY <1>1, <1>2, <1>4, QuietLift DEF Open

LEMMA CodeIs ==
    ASSUME NEW s \in Request, NEW c \in {"none", "short", "error", "logged"}
    PROVE  LET y == [s EXCEPT !.code = c]
           IN  y \in Request /\ y.pc = s.pc /\ y.src = s.src /\ SameBooks(y, s)
BY DEF Request, SameBooks

(* A session is opened with what has been taken for it.                    *)
LEMMA OpenedKeeps ==
    ASSUME NEW pg \in BOOLEAN, NEW s \in Request, NEW n \in Amounts, NEW d \in Nat, NEW b \in BOOLEAN,
           ~s.fundingUncertain, ~s.tokenUncertain, ~s.settled, ~s.fundingSettled, ~s.refunded,
           s.src \in {"wallet", "sub"}, s.tok = Share(pg, d), s.src = "sub" => d > 0,
           n["token"] >= s.tok /\ ("token" \notin s.doubt => n["token"] = s.tok),
           \A a \in {"wallet", "sub"} :
              LET p == IF s.src = a THEN d ELSE 0
              IN  n[a] >= p /\ (a \notin s.doubt => n[a] = p),
           s.src = "sub" => "sub" \notin s.doubt,
           NEW z, z = Opened(s, d) \/ z = [Opened(s, d) EXCEPT !.trusted = b]
    PROVE  z \in Request /\ Sound(pg, z, n, "none")
<1> DEFINE Is(x, p) ==
        /\ x \in Request /\ x.pc = p /\ x.session /\ x.pre = d /\ x.fund = d /\ x.held = d
        /\ x.tok = s.tok /\ x.src = s.src /\ x.doubt = s.doubt
        /\ ~x.fundingUncertain /\ ~x.tokenUncertain /\ ~x.settled /\ ~x.fundingSettled /\ ~x.refunded
<1>a. ASSUME NEW p \in Pc
      PROVE  Is([s EXCEPT !.session = TRUE, !.pre = d, !.fund = d, !.held = d, !.pc = p], p)
    BY DEF Request
<1>b. ASSUME NEW y, NEW p \in Pc, Is(y, p)
      PROVE  Is([y EXCEPT !.trusted = b], p)
    BY <1>b DEF Request
<1>2. s.back \in Pc /\ s.back \in Between
    BY DEF Request, Pc
<1>3. /\ z \in Request /\ z.pc \in Between /\ z.session /\ z.pre = d /\ z.fund = d /\ z.held = d
      /\ z.tok = s.tok /\ z.src = s.src /\ z.doubt = s.doubt
      /\ ~z.fundingUncertain /\ ~z.tokenUncertain /\ ~z.settled /\ ~z.fundingSettled /\ ~z.refunded
    <2> HIDE DEF Is
    <2>1. Is(Opened(s, d), s.back)
        BY <1>2, <1>a DEF Opened
    <2>2. Is(z, s.back)
        BY <1>2, <1>b, <2>1
    <2> QED
        BY <1>2, <2>2 DEF Is
<1>4. s.tok \in Nat /\ n["token"] \in Int /\ n["wallet"] \in Int /\ n["sub"] \in Int
    BY DEF Request, Amounts, Accounts
<1>5. Resting(pg, z, n)
    BY <1>3, <1>4 DEF Resting, Accounts
<1> QED
    BY <1>3, <1>5, RestingSound

LEMMA KeepsCheckWallet ==
    ASSUME BillingInv, NEW r \in Requests, CheckWallet(r)
    PROVE  BillingInv'
<1> DEFINE s == req[r]
           n == net[r]
           pg == user.playground
<1>1. SessionTypes /\ s \in Request /\ n \in Amounts /\ pg \in BOOLEAN /\ s.pc = "check"
      /\ Sound(pg, s, n, job[r]) /\ job[r] \in Jobs
    BY Here DEF CheckWallet
<1>2. Unopened(s, n) /\ job[r] = "none" /\ s.src = "wallet" /\ s.need >= 0
    <2>1. ~s.session
        BY <1>1 DEF Sound, InPlace
    <2> QED
        BY <1>1, <2>1, SoundUnopened DEF Sound, InPlace, Counted
<1>3. ASSUME NEW c \in {"short", "error"}, NEW z \in NotOpened([s EXCEPT !.code = c])
      PROVE  z \in Request /\ Sound(pg, z, n, "none")
    <2> DEFINE y == [s EXCEPT !.code = c]
    <2>1. y \in Request /\ SameBooks(y, s)
        BY <1>1, CodeIs
    <2>2. Unopened(y, n)
        BY <1>2, <2>1 DEF Unopened, SameBooks
    <2> HIDE DEF y
    <2>3. z \in NotOpened(y)
        BY <1>3 DEF y
    <2> QED
        BY <1>1, <2>1, <2>2, <2>3, NotOpenedKeeps
<1>4. CASE \E z \in NotOpened([s EXCEPT !.code = "short"]) : Put(r, z) /\ Quiet
    <2>1. PICK z \in NotOpened([s EXCEPT !.code = "short"]) : Put(r, z) /\ Quiet
        BY <1>4
    <2>2. z \in Request /\ Sound(pg, z, n, "none")
        BY <1>3, <2>1
    <2> QED
        BY <1>1, <1>2, <2>1, <2>2, QuietLift DEF CheckWallet
<1>5. CASE Adjust(r, "wallet", 0, "err") /\ \E z \in NotOpened([s EXCEPT !.code = "error"]) : Put(r, z)
    <2>1. PICK z \in NotOpened([s EXCEPT !.code = "error"]) : Put(r, z)
        BY <1>5
    <2>2. z \in Request /\ Sound(pg, z, n, "none")
        BY <1>3, <2>1
    <2>3. balance' \in Amounts /\ faults' \in 0..MaxFaults /\ net' = [net EXCEPT ![r] = n]
        BY <1>1, <1>5, AdjustDoes DEF Accounts
    <2> QED
        BY <1>1, <1>2, <2>1, <2>2, <2>3, HandlerLift DEF CheckWallet
<1>6. CASE Put(r, [Opened(s, 0) EXCEPT !.trusted = TRUE]) /\ Quiet
    <2>1. s.tok = Share(pg, 0)
        BY <1>2 DEF Unopened, Share
    <2>2. n["token"] >= s.tok /\ ("token" \notin s.doubt => n["token"] = s.tok)
        BY <1>2 DEF Unopened, Accounts
    <2>3. \A a \in {"wallet", "sub"} : LET p == IF s.src = a THEN 0 ELSE 0
                                       IN  n[a] >= p /\ (a \notin s.doubt => n[a] = p)
        BY <1>2 DEF Unopened, Accounts
    <2>4. ~s.fundingUncertain /\ ~s.tokenUncertain /\ ~s.settled /\ ~s.fundingSettled /\ ~s.refunded
        BY <1>2 DEF Unopened
    <2> DEFINE z == [Opened(s, 0) EXCEPT !.trusted = TRUE]
    <2>5. z \in Request /\ Sound(pg, z, n, "none")
        <3> HIDE DEF s, n, pg
        <3> QED
            BY <1>1, <1>2, <2>1, <2>2, <2>3, <2>4, OpenedKeeps
    <2> QED
        BY <1>1, <1>2, <1>6, <2>5, QuietLift DEF CheckWallet
<1>7. CASE Put(r, [s EXCEPT !.pc = "preTok"]) /\ Quiet
    <2> DEFINE z == [s EXCEPT !.pc = "preTok"]
    <2>1. z \in Request /\ z.pc = "preTok" /\ SameBooks(z, s) /\ z.src = "wallet" /\ z.need = s.need
        BY <1>1, <1>2 DEF Request, Pc, SameBooks
    <2> HIDE DEF z
    <2>2. Unopened(z, n) /\ z.need >= 0
        BY <1>2, <2>1 DEF Unopened, SameBooks
    <2>3. InPlace(z, "none") /\ Counted(pg, z) /\ NothingLeft(z, "none")
        BY <2>1, <2>2 DEF Unopened, InPlace, Counted, Uncertain, NothingLeft
    <2>4. TokenBacked(z, n, "none")
        BY <2>2 DEF Unopened, TokenBacked, TokenBook, Accounts
    <2>5. FundBacked(z, n, "none")
        BY <2>2 DEF Unopened, FundBacked, Pays, Spilled, FundBook, Accounts
    <2>6. Sound(pg, z, n, "none")
        BY <2>2, <2>3, <2>4, <2>5 DEF Sound, Unopened
    <2> QED
        BY <1>1, <1>2, <1>7, <2>1, <2>6, QuietLift DEF CheckWallet, z
<1> QED
    BY <1>4, <1>5, <1>6, <1>7 DEF CheckWallet

(* A request that has reserved its token, and no funding yet.              *)
Prepaid(s, n) ==
    /\ ~s.session /\ s.pre = 0 /\ s.fund = 0 /\ s.held = 0
    /\ ~s.fundingUncertain /\ ~s.tokenUncertain /\ ~s.settled /\ ~s.fundingSettled /\ ~s.refunded
    /\ n["token"] >= s.tok /\ ("token" \notin s.doubt => n["token"] = s.tok)
    /\ \A a \in {"wallet", "sub"} : n[a] >= 0 /\ (a \notin s.doubt => n[a] = 0)

LEMMA PrepaidSound ==
    ASSUME NEW pg \in BOOLEAN, NEW s \in Request, NEW n \in Amounts, Prepaid(s, n),
           s.pc \in {"preFund", "preBack"}, s.src # "none",
           s.pc = "preFund" => /\ s.need >= 0 /\ (s.src = "sub" => s.need > 0)
                               /\ s.tok = Share(pg, s.need)
    PROVE  Sound(pg, s, n, "none")
<1>1. InPlace(s, "none")
    BY DEF Prepaid, InPlace, Uncertain
<1>2. Counted(pg, s) /\ NothingLeft(s, "none")
    BY DEF Prepaid, Counted, Uncertain, NothingLeft
<1>3. TokenBacked(s, n, "none")
    BY DEF Prepaid, TokenBacked, TokenBook
<1>4. FundBacked(s, n, "none")
    BY DEF Prepaid, FundBacked, Pays, Spilled, FundBook
<1>5. \A a \in Accounts : n[a] >= 0
    <2>1. s.tok \in Nat /\ n["token"] \in Int
        BY DEF Request, Amounts, Accounts
    <2>2. n["token"] >= 0
        BY <2>1 DEF Prepaid
    <2> QED
        BY <2>2 DEF Prepaid, Accounts
<1> QED
    BY <1>1, <1>2, <1>3, <1>4, <1>5 DEF Sound

LEMMA SoundPrepaid ==
    ASSUME NEW pg \in BOOLEAN, NEW s \in Request, NEW n \in Amounts, NEW j \in Jobs,
           Sound(pg, s, n, j), s.pc \in {"preFund", "preBack"}
    PROVE  /\ Prepaid(s, n) /\ j = "none" /\ s.src \in {"wallet", "sub"}
           /\ s.pc = "preFund" => /\ s.need >= 0 /\ (s.src = "sub" => s.need > 0)
                                  /\ s.tok = Share(pg, s.need)
<1>1. ~s.session /\ j = "none" /\ s.src \in {"wallet", "sub"} /\ ~s.refunded
    BY DEF Sound, InPlace, Request
<1>2. /\ s.pre = 0 /\ s.fund = 0 /\ s.held = 0
      /\ ~s.fundingUncertain /\ ~s.tokenUncertain /\ ~s.settled /\ ~s.fundingSettled
    BY <1>1 DEF Sound, Counted, Uncertain
<1>3. n["token"] >= s.tok /\ ("token" \notin s.doubt => n["token"] = s.tok)
    BY <1>1, <1>2 DEF Sound, TokenBacked, TokenBook
<1>4. \A a \in {"wallet", "sub"} : n[a] >= 0 /\ (a \notin s.doubt => n[a] = 0)
    BY <1>1, <1>2 DEF Sound, FundBacked, Pays, Spilled, Accounts
<1>5. s.pc = "preFund" => /\ s.need >= 0 /\ (s.src = "sub" => s.need > 0)
                          /\ s.tok = Share(pg, s.need)
    BY DEF Sound, Counted
<1> QED
    BY <1>1, <1>2, <1>3, <1>4, <1>5 DEF Prepaid

LEMMA PreTokenKeeps ==
    ASSUME NEW pg \in BOOLEAN, NEW s \in Request, NEW n \in Amounts, NEW m \in Amounts, Unopened(s, n),
           s.src \in {"wallet", "sub"}, s.need >= 0, s.src = "sub" => s.need > 0,
           NEW z,
           \/ z = [s EXCEPT !.pc = "preFund"] /\ Share(pg, s.need) = 0 /\ m = n
           \/ /\ z = [s EXCEPT !.tok = s.need, !.pc = "preFund"] /\ Share(pg, s.need) # 0
              /\ Moved(m, n, "token", s.need)
           \/ z = [s EXCEPT !.pc = "fail"] /\ m = n
           \/ /\ z = [s EXCEPT !.pc = "fail", !.doubt = @ \cup {"token"}]
              /\ m = n \/ Moved(m, n, "token", s.need)
    PROVE  z \in Request /\ Sound(pg, z, m, "none")
<1>1. s.need \in Nat /\ "preFund" \in Pc /\ "fail" \in Pc
    BY DEF Request, Pc
<1>2. CASE z = [s EXCEPT !.pc = "preFund"] /\ Share(pg, s.need) = 0 /\ m = n
    <2>1. /\ z \in Request /\ z.pc = "preFund" /\ z.src = s.src /\ z.need = s.need
          /\ SameBooks(z, s)
        BY <1>1, <1>2 DEF Request, SameBooks
    <2>2. Prepaid(z, m) /\ z.tok = Share(pg, z.need)
        BY <1>2, <2>1 DEF Unopened, Prepaid, SameBooks, Accounts
    <2> QED
        BY <2>1, <2>2, PrepaidSound
<1>3. CASE /\ z = [s EXCEPT !.tok = s.need, !.pc = "preFund"] /\ Share(pg, s.need) # 0
           /\ Moved(m, n, "token", s.need)
    <2>1. ASSUME NEW p \in Pc, NEW d \in Nat
          PROVE  LET y == [s EXCEPT !.tok = d, !.pc = p]
                 IN  /\ y \in Request /\ y.pc = p /\ y.src = s.src /\ y.need = s.need
                     /\ y.tok = d /\ SameBooks(y, [s EXCEPT !.tok = d])
                     /\ y.doubt = s.doubt
        BY DEF Request, SameBooks
    <2>2. /\ z \in Request /\ z.pc = "preFund" /\ z.src = s.src /\ z.need = s.need /\ z.doubt = s.doubt
          /\ z.tok = s.need /\ SameBooks(z, [s EXCEPT !.tok = s.need])
        BY <1>1, <1>3, <2>1
    <2>3. Share(pg, s.need) = s.need
        BY <1>3 DEF Share
    <2>4. ~z.session /\ z.pre = 0 /\ z.fund = 0 /\ z.held = 0 /\ ~z.fundingUncertain /\ ~z.tokenUncertain
          /\ ~z.settled /\ ~z.fundingSettled /\ ~z.refunded
        BY <2>2 DEF SameBooks, Unopened, Request
    <2>5. /\ m["token"] >= z.tok /\ ("token" \notin z.doubt => m["token"] = z.tok)
          /\ \A a \in {"wallet", "sub"} : m[a] >= 0 /\ (a \notin z.doubt => m[a] = 0)
        BY <1>1, <1>3, <2>2 DEF Moved, Unopened, Accounts, Amounts
    <2> QED
        BY <2>2, <2>3, <2>4, <2>5, PrepaidSound DEF Prepaid
<1>4. CASE z = [s EXCEPT !.pc = "fail"] /\ m = n
    <2>1. z \in Request /\ z.pc = "fail" /\ SameBooks(z, s)
        BY <1>1, <1>4 DEF Request, SameBooks
    <2>2. Unopened(z, m)
        BY <1>4, <2>1 DEF Unopened, SameBooks
    <2> QED
        BY <2>1, <2>2, UnopenedSound
<1>5. CASE /\ z = [s EXCEPT !.pc = "fail", !.doubt = @ \cup {"token"}]
           /\ m = n \/ Moved(m, n, "token", s.need)
    <2>1. ASSUME NEW p \in Pc, NEW d \in SUBSET Accounts
          PROVE  LET y == [s EXCEPT !.pc = p, !.doubt = d]
                 IN  /\ y \in Request /\ y.pc = p /\ y.doubt = d
                     /\ y.session = s.session /\ y.pre = s.pre /\ y.fund = s.fund /\ y.tok = s.tok
                     /\ y.held = s.held /\ y.fundingSettled = s.fundingSettled /\ y.settled = s.settled
                     /\ y.refunded = s.refunded /\ y.fundingUncertain = s.fundingUncertain
                     /\ y.tokenUncertain = s.tokenUncertain
        BY DEF Request
    <2>2. s.doubt \cup {"token"} \in SUBSET Accounts
        BY DEF Request, Accounts
    <2>3. /\ z \in Request /\ z.pc = "fail" /\ z.doubt = s.doubt \cup {"token"}
          /\ z.session = s.session /\ z.pre = s.pre /\ z.fund = s.fund /\ z.tok = s.tok
          /\ z.held = s.held /\ z.fundingSettled = s.fundingSettled /\ z.settled = s.settled
          /\ z.refunded = s.refunded /\ z.fundingUncertain = s.fundingUncertain
          /\ z.tokenUncertain = s.tokenUncertain
        <3> DEFINE d == s.doubt \cup {"token"}
        <3>1. z = [s EXCEPT !.pc = "fail", !.doubt = d] /\ d \in SUBSET Accounts /\ "fail" \in Pc
            BY <1>1, <1>5, <2>2 DEF Pc
        <3> HIDE DEF d
        <3>2. /\ z \in Request /\ z.pc = "fail" /\ z.doubt = d
              /\ z.session = s.session /\ z.pre = s.pre /\ z.fund = s.fund /\ z.tok = s.tok
              /\ z.held = s.held /\ z.fundingSettled = s.fundingSettled /\ z.settled = s.settled
              /\ z.refunded = s.refunded /\ z.fundingUncertain = s.fundingUncertain
              /\ z.tokenUncertain = s.tokenUncertain
            BY <2>1, <3>1
        <3> QED
            BY <3>2 DEF d
    <2>4. \A a \in Accounts : m[a] >= 0 /\ (a \notin z.doubt => m[a] = 0)
        BY <1>1, <1>5, <2>3 DEF Moved, Unopened, Accounts, Amounts
    <2>5. Unopened(z, m)
        BY <2>3, <2>4 DEF Unopened
    <2> QED
        BY <2>3, <2>5, UnopenedSound
<1> QED
    BY <1>2, <1>3, <1>4, <1>5

LEMMA KeepsPreToken ==
    ASSUME BillingInv, NEW r \in Requests, PreToken(r)
    PROVE  BillingInv'
<1> DEFINE s == req[r]
           n == net[r]
           pg == user.playground
<1>1. SessionTypes /\ s \in Request /\ n \in Amounts /\ pg \in BOOLEAN /\ s.pc = "preTok"
      /\ Sound(pg, s, n, job[r]) /\ job[r] \in Jobs
    BY Here DEF PreToken
<1>2. Unopened(s, n) /\ job[r] = "none" /\ s.src \in {"wallet", "sub"} /\ s.need >= 0
      /\ (s.src = "sub" => s.need > 0)
    <2>1. ~s.session
        BY <1>1 DEF Sound, InPlace
    <2> QED
        BY <1>1, <2>1, SoundUnopened DEF Sound, InPlace, Counted, Request
<1>3. TokenShare(s.need) = Share(pg, s.need)
    BY DEF TokenShare, Share
<1>4. CASE TokenShare(s.need) = 0
    <2> DEFINE z == [s EXCEPT !.pc = "preFund"]
    <2>1. z \in Request /\ Sound(pg, z, n, "none")
        <3> HIDE DEF s, n, pg
        <3> QED
            BY <1>1, <1>2, <1>3, <1>4, PreTokenKeeps
    <2> QED
        BY <1>1, <1>2, <1>4, <2>1, QuietLift DEF PreToken
<1>5. CASE TokenShare(s.need) # 0
    <2> DEFINE Z(oc) == CASE oc = "ok"    -> [s EXCEPT !.tok = s.need, !.pc = "preFund"]
                          [] oc = "short" -> [s EXCEPT !.pc = "fail"]
                          [] OTHER -> [s EXCEPT !.pc = "fail", !.doubt = @ \cup {"token"}]
    <2>1. PICK oc \in Outcomes : TryReserve(r, "token", s.need, oc) /\ Put(r, Z(oc))
        BY <1>5 DEF PreToken
    <2>2. /\ balance' \in Amounts /\ faults' \in 0..MaxFaults
          /\ \E m \in Amounts :
               /\ net' = [net EXCEPT ![r] = m]
               /\ IF oc \in {"ok", "late"} THEN Moved(m, n, "token", s.need) ELSE m = n
        <3>1. "token" \in Accounts /\ s.need \in Int
            BY <1>1 DEF Accounts, Request
        <3> QED
            BY <1>1, <2>1, <3>1, ReserveDoes
    <2>3. PICK m \in Amounts : /\ net' = [net EXCEPT ![r] = m]
                               /\ IF oc \in {"ok", "late"} THEN Moved(m, n, "token", s.need) ELSE m = n
        BY <2>2
    <2>4. \/ Z(oc) = [s EXCEPT !.tok = s.need, !.pc = "preFund"] /\ Moved(m, n, "token", s.need)
          \/ Z(oc) = [s EXCEPT !.pc = "fail"] /\ m = n
          \/ /\ Z(oc) = [s EXCEPT !.pc = "fail", !.doubt = @ \cup {"token"}]
             /\ m = n \/ Moved(m, n, "token", s.need)
        <3> HIDE DEF s, n
        <3> QED
            BY <2>3 DEF Outcomes
    <2>5. Z(oc) \in Request /\ Sound(pg, Z(oc), m, "none")
        <3> HIDE DEF Z, s, n, pg
        <3> QED
            BY <1>1, <1>2, <1>3, <1>5, <2>4, PreTokenKeeps
    <2> HIDE DEF Z
    <2> QED
        BY <1>1, <1>2, <2>1, <2>2, <2>3, <2>5, HandlerLift DEF PreToken
<1> QED
    BY <1>4, <1>5

LEMMA OpenedSound ==
    ASSUME NEW pg \in BOOLEAN, NEW s \in Request, NEW n \in Amounts, NEW d \in Nat,
           ~s.fundingUncertain, ~s.tokenUncertain, ~s.settled, ~s.fundingSettled, ~s.refunded,
           s.src \in {"wallet", "sub"}, s.tok = Share(pg, d), s.src = "sub" => d > 0,
           n["token"] >= s.tok /\ ("token" \notin s.doubt => n["token"] = s.tok),
           \A a \in {"wallet", "sub"} :
              LET p == IF s.src = a THEN d ELSE 0
              IN  n[a] >= p /\ (a \notin s.doubt => n[a] = p),
           s.src = "sub" => "sub" \notin s.doubt
    PROVE  Opened(s, d) \in Request /\ Sound(pg, Opened(s, d), n, "none")
<1> DEFINE z == Opened(s, d)
<1>1. z = Opened(s, d) \/ z = [Opened(s, d) EXCEPT !.trusted = TRUE]
    OBVIOUS
<1> HIDE DEF z
<1>2. TRUE \in BOOLEAN
    OBVIOUS
<1>3. z \in Request /\ Sound(pg, z, n, "none")
    BY <1>1, <1>2, OpenedKeeps
<1> QED
    BY <1>3 DEF z

LEMMA SubDoes ==
    ASSUME SessionTypes, NEW r \in Requests, NEW d \in Nat, NEW oc, SubPreConsume(r, d, oc),
           net[r]["sub"] >= 0
    PROVE  /\ balance' \in Amounts /\ faults' \in 0..MaxFaults
           /\ \E m \in Amounts :
                /\ net' = [net EXCEPT ![r] = m] /\ m["sub"] >= 0
                /\ m["wallet"] = net[r]["wallet"] /\ m["token"] = net[r]["token"]
                /\ oc = "ok" => m["sub"] = d
                /\ oc = "short" => m = net[r]
<1>1. /\ net[r] \in Amounts /\ "sub" \in Accounts /\ 0 \in Int
      /\ Only("sub", d) \in Amounts /\ Only("sub", 0) \in Amounts
    <2>1. net[r] \in Amounts /\ "sub" \in Accounts /\ 0 \in Int /\ d \in Int
        BY DEF SessionTypes, Amounts, Accounts
    <2> QED
        BY <2>1, OnlyTyped
<1>2. CASE net[r]["sub"] = 0
    <2>1. /\ balance' \in Amounts /\ faults' \in 0..MaxFaults
          /\ \E m \in Amounts :
               /\ net' = [net EXCEPT ![r] = m]
               /\ IF oc \in {"ok", "late"} THEN Taken(m, net[r], Only("sub", d)) ELSE m = net[r]
        BY <1>1, <1>2, CallDoes DEF SubPreConsume
    <2>2. PICK m \in Amounts :
               /\ net' = [net EXCEPT ![r] = m]
               /\ IF oc \in {"ok", "late"} THEN Taken(m, net[r], Only("sub", d)) ELSE m = net[r]
        BY <2>1
    <2>3. IF oc \in {"ok", "late"} THEN Moved(m, net[r], "sub", d) ELSE m = net[r]
        BY <1>1, <2>2, OnlyMoves
    <2>4. /\ m["sub"] >= 0 /\ m["wallet"] = net[r]["wallet"] /\ m["token"] = net[r]["token"]
          /\ (oc = "ok" => m["sub"] = d) /\ (oc = "short" => m = net[r])
        BY <1>1, <1>2, <2>3 DEF Moved, Accounts, Amounts
    <2> QED
        BY <2>1, <2>2, <2>4
<1>3. CASE net[r]["sub"] # 0 /\ net[r]["sub"] = d
    <2>0. oc \in {"ok", "err"} /\ Call(r, Only("sub", 0), TRUE, oc)
        BY <1>3 DEF SubPreConsume
    <2>1. /\ balance' \in Amounts /\ faults' \in 0..MaxFaults
          /\ \E m \in Amounts :
               /\ net' = [net EXCEPT ![r] = m]
               /\ IF oc \in {"ok", "late"} THEN Taken(m, net[r], Only("sub", 0)) ELSE m = net[r]
        BY <1>1, <2>0, CallDoes
    <2>2. PICK m \in Amounts :
               /\ net' = [net EXCEPT ![r] = m]
               /\ IF oc \in {"ok", "late"} THEN Taken(m, net[r], Only("sub", 0)) ELSE m = net[r]
        BY <2>1
    <2>3. IF oc \in {"ok", "late"} THEN Moved(m, net[r], "sub", 0) ELSE m = net[r]
        BY <1>1, <2>2, OnlyMoves
    <2>4. /\ m["sub"] = net[r]["sub"] /\ m["wallet"] = net[r]["wallet"] /\ m["token"] = net[r]["token"]
        BY <1>1, <2>3 DEF Moved, Accounts, Amounts
    <2> QED
        BY <1>3, <2>0, <2>1, <2>2, <2>4
<1>4. CASE net[r]["sub"] # 0 /\ net[r]["sub"] # d
    <2>1. oc = "err" /\ Quiet
        BY <1>4 DEF SubPreConsume
    <2>2. balance' \in Amounts /\ faults' \in 0..MaxFaults /\ net' = [net EXCEPT ![r] = net[r]]
        BY <2>1, QuietDoes
    <2> QED
        BY <1>1, <2>1, <2>2
<1> QED
    BY <1>2, <1>3, <1>4

(* Funding has been taken, or may have been.                               *)
LEMMA PreFundOk ==
    ASSUME NEW pg \in BOOLEAN, NEW s \in Request, NEW n \in Amounts, NEW m \in Amounts, Prepaid(s, n),
           s.src \in {"wallet", "sub"}, s.need \in Nat, s.src = "sub" => s.need > 0,
           s.tok = Share(pg, s.need), m["token"] = n["token"],
           s.src = "sub" => m["sub"] = s.need /\ m["wallet"] = n["wallet"],
           s.src = "wallet" => m["wallet"] = n["wallet"] + s.need /\ m["sub"] = n["sub"],
           NEW o, o = IF s.src = "sub" THEN [s EXCEPT !.doubt = @ \ {"sub"}] ELSE s
    PROVE  Opened(o, s.need) \in Request /\ Sound(pg, Opened(o, s.need), m, "none")
<1>1. ASSUME NEW d \in SUBSET Accounts
      PROVE  LET y == [s EXCEPT !.doubt = d]
             IN  /\ y \in Request /\ y.doubt = d /\ y.src = s.src /\ y.tok = s.tok
                 /\ ~y.fundingUncertain /\ ~y.tokenUncertain /\ ~y.settled /\ ~y.fundingSettled /\ ~y.refunded
    BY DEF Request, Prepaid
<1>2. s.doubt \ {"sub"} \in SUBSET Accounts
    BY DEF Request
<1>3. /\ o \in Request /\ o.src = s.src /\ o.tok = s.tok
      /\ o.doubt = IF s.src = "sub" THEN s.doubt \ {"sub"} ELSE s.doubt
      /\ ~o.fundingUncertain /\ ~o.tokenUncertain /\ ~o.settled /\ ~o.fundingSettled /\ ~o.refunded
    <2>1. CASE s.src = "sub"
        BY <1>1, <1>2, <2>1
    <2>2. CASE s.src # "sub"
        BY <2>2 DEF Prepaid
    <2> QED
        BY <2>1, <2>2
<1>4. n["wallet"] \in Int /\ n["sub"] \in Int /\ n["token"] \in Int
    BY DEF Amounts, Accounts
<1>5. m["token"] >= o.tok /\ ("token" \notin o.doubt => m["token"] = o.tok)
    BY <1>3 DEF Prepaid
<1>6. \A a \in {"wallet", "sub"} :
         LET p == IF o.src = a THEN s.need ELSE 0
         IN  m[a] >= p /\ (a \notin o.doubt => m[a] = p)
    <2>1. CASE s.src = "sub"
        BY <1>3, <1>4, <2>1 DEF Prepaid
    <2>2. CASE s.src = "wallet"
        BY <1>3, <1>4, <2>2 DEF Prepaid
    <2> QED
        BY <2>1, <2>2
<1>7. o.src = "sub" => "sub" \notin o.doubt
    BY <1>3
<1>8. o.src \in {"wallet", "sub"} /\ o.tok = Share(pg, s.need) /\ (o.src = "sub" => s.need > 0)
    BY <1>3
<1> DEFINE e == s.need
<1>9. /\ e \in Nat /\ o.tok = Share(pg, e) /\ (o.src = "sub" => e > 0)
      /\ \A a \in {"wallet", "sub"} :
            LET p == IF o.src = a THEN e ELSE 0
            IN  m[a] >= p /\ (a \notin o.doubt => m[a] = p)
    BY <1>6, <1>8
<1> HIDE DEF e
<1>10. Opened(o, e) \in Request /\ Sound(pg, Opened(o, e), m, "none")
    BY <1>3, <1>5, <1>7, <1>8, <1>9, OpenedSound
<1> QED
    BY <1>10 DEF e

LEMMA PreFundFails ==
    ASSUME NEW pg \in BOOLEAN, NEW s \in Request, NEW n \in Amounts, NEW m \in Amounts, Prepaid(s, n),
           s.src \in {"wallet", "sub"}, NEW c \in {"short", "error"}, NEW d \in SUBSET Accounts,
           s.doubt \subseteq d, m["token"] = n["token"],
           \/ m = n
           \/ /\ s.src \in d
              /\ \A a \in {"wallet", "sub"} : m[a] >= 0 /\ (a # s.src => m[a] = n[a]),
           NEW z,
           IF s.tok > 0 THEN z = [[s EXCEPT !.code = c, !.doubt = d] EXCEPT !.pc = "preBack"]
           ELSE z \in NotOpened([s EXCEPT !.code = c, !.doubt = d])
    PROVE  z \in Request /\ Sound(pg, z, m, "none")
<1> DEFINE f == [s EXCEPT !.code = c, !.doubt = d]
<1>1. /\ f \in Request /\ f.doubt = d /\ f.src = s.src /\ f.tok = s.tok
      /\ ~f.session /\ f.pre = 0 /\ f.fund = 0 /\ f.held = 0
      /\ ~f.fundingUncertain /\ ~f.tokenUncertain /\ ~f.settled /\ ~f.fundingSettled /\ ~f.refunded
    BY DEF Request, Prepaid
<1>2. /\ m["token"] >= f.tok /\ ("token" \notin f.doubt => m["token"] = f.tok)
      /\ \A a \in {"wallet", "sub"} : m[a] >= 0 /\ (a \notin f.doubt => m[a] = 0)
    BY <1>1 DEF Prepaid
<1> HIDE DEF f
<1>3. Prepaid(f, m)
    BY <1>1, <1>2 DEF Prepaid
<1>4. CASE s.tok > 0
    <2>1. z = [f EXCEPT !.pc = "preBack"]
        BY <1>4 DEF f
    <2>2. "preBack" \in Pc
        BY DEF Pc
    <2>3. z \in Request /\ z.pc = "preBack" /\ SameBooks(z, f) /\ z.src = f.src
        BY <1>1, <2>1, <2>2 DEF Request, SameBooks
    <2>4. Prepaid(z, m) /\ z.src # "none"
        BY <1>1, <1>3, <2>3 DEF Prepaid, SameBooks
    <2> QED
        BY <2>3, <2>4, PrepaidSound
<1>5. CASE ~(s.tok > 0)
    <2>1. z \in NotOpened(f)
        BY <1>5 DEF f
    <2>2. f.tok = 0
        BY <1>1, <1>5 DEF Request
    <2>3. Unopened(f, m)
        BY <1>1, <1>2, <2>2 DEF Unopened, Accounts
    <2> QED
        BY <1>1, <2>1, <2>3, NotOpenedKeeps
<1> QED
    BY <1>4, <1>5

LEMMA KeepsPreFund ==
    ASSUME BillingInv, NEW r \in Requests, PreFund(r)
    PROVE  BillingInv'
<1> DEFINE s == req[r]
           n == net[r]
           pg == user.playground
<1>1. SessionTypes /\ s \in Request /\ n \in Amounts /\ pg \in BOOLEAN /\ s.pc = "preFund"
      /\ Sound(pg, s, n, job[r]) /\ job[r] \in Jobs
    BY Here DEF PreFund
<1>2. Prepaid(s, n) /\ job[r] = "none" /\ s.src \in {"wallet", "sub"} /\ s.need >= 0
      /\ (s.src = "sub" => s.need > 0) /\ s.tok = Share(pg, s.need)
    BY <1>1, SoundPrepaid
<1>3. s.need \in Nat /\ "wallet" \in Accounts /\ n["sub"] >= 0 /\ s.need \in Int
    BY <1>1, <1>2 DEF Request, Accounts, Prepaid
<1>4. CASE s.need = 0
    <2> DEFINE z == Opened(s, 0)
    <2>1. /\ s.src = "wallet" /\ Put(r, z) /\ Quiet
        BY <1>2, <1>4 DEF PreFund
    <2>2. n["wallet"] = n["wallet"] + s.need /\ n["sub"] = n["sub"] /\ n["token"] = n["token"]
        BY <1>1, <1>4 DEF Amounts, Accounts
    <2>3. z \in Request /\ Sound(pg, z, n, "none")
        <3>1. Opened(s, s.need) \in Request /\ Sound(pg, Opened(s, s.need), n, "none")
            <4> HIDE DEF s, n, pg
            <4> QED
                BY <1>1, <1>2, <1>3, <2>1, <2>2, PreFundOk
        <3> QED
            BY <1>4, <3>1
    <2> QED
        BY <1>1, <1>2, <2>1, <2>3, QuietLift DEF PreFund
<1>5. CASE s.need # 0
    <2> DEFINE open == IF s.src = "sub" THEN [s EXCEPT !.doubt = @ \ {"sub"}] ELSE s
               failed(oc) == [s EXCEPT !.code = IF oc = "short" THEN "short" ELSE "error",
                                       !.doubt = IF oc = "short" THEN @ ELSE @ \cup {s.src}]
               Z(oc) == IF oc = "ok" THEN {Opened(open, s.need)}
                        ELSE IF s.tok > 0 THEN {[failed(oc) EXCEPT !.pc = "preBack"]}
                        ELSE NotOpened(failed(oc))
    <2>1. PICK oc \in Outcomes :
              /\ IF s.src = "sub" THEN SubPreConsume(r, s.need, oc)
                 ELSE TryReserve(r, "wallet", s.need, oc)
              /\ \E z \in Z(oc) : Put(r, z)
        BY <1>5 DEF PreFund
    <2>2. PICK z \in Z(oc) : Put(r, z)
        BY <2>1
    <2>3. /\ balance' \in Amounts /\ faults' \in 0..MaxFaults
          /\ \E m \in Amounts :
               /\ net' = [net EXCEPT ![r] = m] /\ m["token"] = n["token"]
               /\ (oc = "short" => m = n)
               /\ \A a \in {"wallet", "sub"} : m[a] >= 0 /\ (a # s.src => m[a] = n[a])
               /\ (oc = "ok" => m[s.src] = IF s.src = "sub" THEN s.need ELSE n["wallet"] + s.need)
        <3>1. CASE s.src = "sub"
            <4>1. /\ balance' \in Amounts /\ faults' \in 0..MaxFaults
                  /\ \E m \in Amounts :
                       /\ net' = [net EXCEPT ![r] = m] /\ m["sub"] >= 0
                       /\ m["wallet"] = net[r]["wallet"] /\ m["token"] = net[r]["token"]
                       /\ oc = "ok" => m["sub"] = s.need
                       /\ oc = "short" => m = net[r]
                BY <1>1, <1>3, <2>1, <3>1, SubDoes
            <4>2. n["wallet"] >= 0
                BY <1>2 DEF Prepaid
            <4> QED
                BY <3>1, <4>1, <4>2
        <3>2. CASE s.src = "wallet"
            <4>1. /\ balance' \in Amounts /\ faults' \in 0..MaxFaults
                  /\ \E m \in Amounts :
                       /\ net' = [net EXCEPT ![r] = m]
                       /\ IF oc \in {"ok", "late"} THEN Moved(m, net[r], "wallet", s.need) ELSE m = net[r]
                BY <1>1, <1>3, <2>1, <3>2, ReserveDoes
            <4>2. PICK m \in Amounts :
                       /\ net' = [net EXCEPT ![r] = m]
                       /\ IF oc \in {"ok", "late"} THEN Moved(m, n, "wallet", s.need) ELSE m = n
                BY <4>1
            <4>3. n["wallet"] >= 0 /\ n["sub"] >= 0 /\ n["wallet"] \in Int
                BY <1>1, <1>2 DEF Prepaid, Amounts, Accounts
            <4>4. /\ m["token"] = n["token"] /\ (oc = "short" => m = n)
                  /\ \A a \in {"wallet", "sub"} : m[a] >= 0 /\ (a # s.src => m[a] = n[a])
                  /\ oc = "ok" => m["wallet"] = n["wallet"] + s.need
                <5> HIDE DEF s, n
                <5> QED
                    BY <1>3, <3>2, <4>2, <4>3 DEF Moved, Accounts
            <4> QED
                BY <3>2, <4>1, <4>2, <4>4
        <3> QED
            BY <1>2, <3>1, <3>2
    <2>4. PICK m \in Amounts :
               /\ net' = [net EXCEPT ![r] = m] /\ m["token"] = n["token"]
               /\ (oc = "short" => m = n)
               /\ \A a \in {"wallet", "sub"} : m[a] >= 0 /\ (a # s.src => m[a] = n[a])
               /\ (oc = "ok" => m[s.src] = IF s.src = "sub" THEN s.need ELSE n["wallet"] + s.need)
        BY <2>3
    <2>5. z \in Request /\ Sound(pg, z, m, "none")
        <3>1. CASE oc = "ok"
            <4>1. z = Opened(open, s.need)
                BY <2>2, <3>1
            <4>2. /\ s.src = "sub" => m["sub"] = s.need /\ m["wallet"] = n["wallet"]
                  /\ s.src = "wallet" => m["wallet"] = n["wallet"] + s.need /\ m["sub"] = n["sub"]
                BY <2>4, <3>1
            <4>3. open = IF s.src = "sub" THEN [s EXCEPT !.doubt = @ \ {"sub"}] ELSE s
                OBVIOUS
            <4>4. /\ Opened(open, s.need) \in Request
                  /\ Sound(pg, Opened(open, s.need), m, "none")
                <5> HIDE DEF s, n, pg, open
                <5> QED
                    BY <1>1, <1>2, <1>3, <2>4, <4>2, <4>3, PreFundOk
            <4> QED
                BY <4>1, <4>4
        <3>2. CASE oc # "ok"
            <4> DEFINE c == IF oc = "short" THEN "short" ELSE "error"
                       d == IF oc = "short" THEN s.doubt ELSE s.doubt \cup {s.src}
            <4>1. c \in {"short", "error"} /\ d \in SUBSET Accounts /\ s.doubt \subseteq d
                BY <1>1, <1>2 DEF Request, Accounts
            <4>2. \/ m = n
                  \/ /\ s.src \in d
                     /\ \A a \in {"wallet", "sub"} : m[a] >= 0 /\ (a # s.src => m[a] = n[a])
                BY <2>4
            <4>3. IF s.tok > 0 THEN z = [[s EXCEPT !.code = c, !.doubt = d] EXCEPT !.pc = "preBack"]
                  ELSE z \in NotOpened([s EXCEPT !.code = c, !.doubt = d])
                BY <2>2, <3>2
            <4> HIDE DEF s, n, pg, c, d, Z, open, failed
            <4> QED
                BY <1>1, <1>2, <2>4, <4>1, <4>2, <4>3, PreFundFails
        <3> QED
            BY <3>1, <3>2
    <2> HIDE DEF Z
    <2> QED
        BY <1>1, <1>2, <2>2, <2>3, <2>4, <2>5, HandlerLift DEF PreFund
<1> QED
    BY <1>4, <1>5

LEMMA PreBackKeeps ==
    ASSUME NEW pg \in BOOLEAN, NEW s \in Request, NEW n \in Amounts, NEW m \in Amounts, Prepaid(s, n),
           NEW d \in SUBSET Accounts, s.doubt \subseteq d,
           Moved(m, n, "token", -s.tok) \/ (m = n /\ "token" \in d),
           NEW z \in NotOpened([s EXCEPT !.tok = 0, !.doubt = d])
    PROVE  z \in Request /\ Sound(pg, z, m, "none")
<1> DEFINE x == [s EXCEPT !.tok = 0, !.doubt = d]
<1>1. ASSUME NEW t \in Nat
      PROVE  LET y == [s EXCEPT !.tok = t, !.doubt = d]
             IN  /\ y \in Request /\ y.doubt = d /\ y.tok = t
                 /\ ~y.session /\ y.pre = 0 /\ y.fund = 0 /\ y.held = 0
                 /\ ~y.fundingUncertain /\ ~y.tokenUncertain /\ ~y.settled /\ ~y.fundingSettled /\ ~y.refunded
    BY DEF Request, Prepaid
<1>2. /\ x \in Request /\ x.doubt = d /\ x.tok = 0
      /\ ~x.session /\ x.pre = 0 /\ x.fund = 0 /\ x.held = 0
      /\ ~x.fundingUncertain /\ ~x.tokenUncertain /\ ~x.settled /\ ~x.fundingSettled /\ ~x.refunded
    BY <1>1
<1>3. z \in NotOpened(x)
    OBVIOUS
<1> HIDE DEF x
<1>4. s.tok \in Nat /\ n["token"] \in Int
    BY DEF Request, Amounts, Accounts
<1>5. \A a \in Accounts : m[a] >= 0 /\ (a \notin d => m[a] = 0)
    BY <1>4 DEF Moved, Prepaid, Accounts
<1>6. Unopened(x, m)
    BY <1>2, <1>5 DEF Unopened
<1> QED
    BY <1>2, <1>3, <1>6, NotOpenedKeeps

LEMMA KeepsPreBack ==
    ASSUME BillingInv, NEW r \in Requests, PreBack(r)
    PROVE  BillingInv'
<1> DEFINE s == req[r]
           n == net[r]
           pg == user.playground
           D(oc) == IF oc = "ok" THEN s.doubt ELSE s.doubt \cup {"token"}
<1>1. SessionTypes /\ s \in Request /\ n \in Amounts /\ pg \in BOOLEAN /\ s.pc = "preBack"
      /\ Sound(pg, s, n, job[r]) /\ job[r] \in Jobs
    BY Here DEF PreBack
<1>2. Prepaid(s, n) /\ job[r] = "none"
    BY <1>1, SoundPrepaid
<1>3. PICK oc \in Outcomes : /\ Adjust(r, "token", -s.tok, oc)
                             /\ \E z \in NotOpened([s EXCEPT !.tok = 0, !.doubt = D(oc)]) : Put(r, z)
    BY DEF PreBack
<1>4. PICK z \in NotOpened([s EXCEPT !.tok = 0, !.doubt = D(oc)]) : Put(r, z)
    BY <1>3
<1>5. "token" \in Accounts /\ -s.tok \in Int
    BY <1>1 DEF Accounts, Request
<1>6. /\ balance' \in Amounts /\ faults' \in 0..MaxFaults
      /\ \E m \in Amounts :
           /\ net' = [net EXCEPT ![r] = m]
           /\ IF oc \in {"ok", "late"} THEN Moved(m, n, "token", -s.tok) ELSE m = n
    BY <1>1, <1>3, <1>5, AdjustDoes
<1>7. PICK m \in Amounts : /\ net' = [net EXCEPT ![r] = m]
                           /\ IF oc \in {"ok", "late"} THEN Moved(m, n, "token", -s.tok) ELSE m = n
    BY <1>6
<1>8. z \in Request /\ Sound(pg, z, m, "none")
    <2> DEFINE d == D(oc)
    <2>1. /\ d \in SUBSET Accounts /\ s.doubt \subseteq d
          /\ Moved(m, n, "token", -s.tok) \/ (m = n /\ "token" \in d)
        BY <1>1, <1>5, <1>7 DEF Request
    <2>2. z \in NotOpened([s EXCEPT !.tok = 0, !.doubt = d])
        BY <1>4
    <2> HIDE DEF s, n, pg, d, D
    <2> QED
        BY <1>1, <1>2, <2>1, <2>2, PreBackKeeps
<1> QED
    BY <1>1, <1>2, <1>4, <1>6, <1>7, <1>8, HandlerLift DEF PreBack

(***************************************************************************)
(* Between two calls: the relay loops.                                     *)
(***************************************************************************)
LEMMA ControlKeeps ==
    ASSUME NEW pg \in BOOLEAN, NEW s \in Request, NEW n \in Amounts, NEW j \in Jobs, Sound(pg, s, n, j),
           s.pc \in Between, NEW z \in Request, SameBooks(z, s), z.src = s.src,
           z.pc \in Between \/ (z.pc = "open" /\ ~s.session)
    PROVE  Sound(pg, z, n, "none") /\ j = "none"
<1>1. CASE s.session
    <2>1. Resting(pg, s, n) /\ ~s.fundingSettled /\ j = "none"
        BY <1>1, SoundResting
    <2>2. Resting(pg, z, n) /\ ~z.fundingSettled
        BY <2>1 DEF Resting, SameBooks
    <2> QED
        BY <1>1, <2>1, <2>2, RestingSound
<1>2. CASE ~s.session
    <2>1. Unopened(s, n) /\ j = "none"
        BY <1>2, SoundUnopened
    <2>2. Unopened(z, n)
        BY <2>1 DEF Unopened, SameBooks
    <2> QED
        BY <2>1, <2>2, UnopenedSound
<1> QED
    BY <1>1, <1>2

(* The request is about to call for more, or to settle.                    *)
LEMMA CallingSound ==
    ASSUME NEW pg \in BOOLEAN, NEW z \in Request, NEW n \in Amounts, Resting(pg, z, n),
           ~z.fundingSettled, ~z.fundingUncertain, ~z.tokenUncertain,
           \/ z.pc \in {"resFund", "setFund"} /\ z.src = "wallet"
           \/ z.pc \in {"resSub", "setSub"} /\ z.src = "sub",
           z.pc # "setSub" => z.need = z.goal - z.pre,
           z.pc \in {"resFund", "resSub"} => z.need > 0
    PROVE  Sound(pg, z, n, "none")
<1>1. InPlace(z, "none")
    BY DEF Resting, InPlace, Uncertain
<1>2. z.pre \in Nat /\ z.fund \in Nat /\ z.held \in Nat
    BY DEF Request
<1>3. Counted(pg, z) /\ NothingLeft(z, "none")
    BY <1>2 DEF Resting, Counted, Uncertain, NothingLeft
<1>4. TokenBacked(z, n, "none")
    BY DEF Resting, TokenBacked, TokenBook
<1>5. FundBacked(z, n, "none")
    BY DEF Resting, FundBacked, Pays, Spilled, FundBook
<1> QED
    BY <1>1, <1>3, <1>4, <1>5 DEF Sound, Resting

LEMMA PcIs ==
    ASSUME NEW s \in Request, NEW p \in Pc
    PROVE  LET y == [s EXCEPT !.pc = p]
           IN  /\ y \in Request /\ y.pc = p /\ y.src = s.src /\ SameBooks(y, s)
               /\ y.need = s.need /\ y.goal = s.goal /\ y.code = s.code
BY DEF Request, SameBooks

LEMMA ReserveKeeps ==
    ASSUME NEW pg \in BOOLEAN, NEW s \in Request, NEW n \in Amounts, NEW j \in Jobs, Sound(pg, s, n, j),
           s.pc = "route", s.session, NEW q \in Nat, NEW z \in Reserve(s, q)
    PROVE  z \in Request /\ Sound(pg, z, n, "none")
<1>1. Resting(pg, s, n) /\ ~s.fundingSettled
    BY SoundResting
<1>2. CASE Uncertain(s)
    <2> DEFINE y == [s EXCEPT !.code = "error"]
    <2>1. y \in Request /\ y.pc = s.pc /\ y.src = s.src /\ SameBooks(y, s)
        BY CodeIs
    <2>2. z \in Refused(y)
        BY <1>2 DEF Reserve
    <2> HIDE DEF y
    <2>3. Resting(pg, y, n) /\ ~y.fundingSettled
        BY <1>1, <2>1 DEF Resting, SameBooks
    <2> QED
        BY <2>1, <2>2, <2>3, RefusedResting
<1>3. CASE ~Uncertain(s) /\ ((s.trusted /\ s.kind = "text") \/ q <= s.pre)
    <2>1. z = [s EXCEPT !.pc = "sent"] /\ "sent" \in Pc
        BY <1>3 DEF Reserve, Pc
    <2>2. z \in Request /\ z.pc = "sent" /\ z.src = s.src /\ SameBooks(z, s)
        BY <2>1, PcIs
    <2> QED
        BY <2>2, ControlKeeps
<1>4. CASE ~Uncertain(s) /\ ~((s.trusted /\ s.kind = "text") \/ q <= s.pre)
    <2> DEFINE p == IF s.src = "sub" THEN "resSub" ELSE "resFund"
               d == q - s.pre
    <2>1. z = [s EXCEPT !.need = d, !.goal = q, !.pc = p]
        BY <1>4 DEF Reserve
    <2>a. s.pre \in Nat /\ ~(q <= s.pre) /\ s.src \in {"wallet", "sub"}
        BY <1>1, <1>4 DEF Request, Resting
    <2>b. d \in Int /\ d > 0 /\ d = q - s.pre
        BY <2>a
    <2>c. (p = "resFund" /\ s.src = "wallet") \/ (p = "resSub" /\ s.src = "sub")
        BY <2>a DEF Pc
    <2>2. /\ p \in Pc /\ d \in Int /\ d > 0 /\ d = q - s.pre
          /\ (p = "resFund" /\ s.src = "wallet") \/ (p = "resSub" /\ s.src = "sub")
        BY <2>a, <2>b, <2>c DEF Pc
    <2> HIDE DEF p, d
    <2>3. /\ z \in Request /\ z.pc = p /\ z.src = s.src /\ SameBooks(z, s) /\ z.need = d /\ z.goal = q
        BY <2>1, <2>2 DEF Request, SameBooks
    <2>4. Resting(pg, z, n) /\ ~z.fundingSettled
        BY <1>1, <2>3 DEF Resting, SameBooks
    <2>5. ~z.fundingUncertain /\ ~z.tokenUncertain /\ z.need = z.goal - z.pre /\ z.need > 0
        BY <1>4, <2>2, <2>3 DEF SameBooks, Uncertain
    <2> QED
        BY <2>2, <2>3, <2>4, <2>5, CallingSound
<1> QED
    BY <1>2, <1>3, <1>4

LEMMA RouteKeeps ==
    ASSUME NEW pg \in BOOLEAN, NEW s \in Request, NEW n \in Amounts, NEW j \in Jobs, Sound(pg, s, n, j),
           s.pc = "route", NEW z, NEW q \in Nat,
           \/ z = [s EXCEPT !.pc = "fail"]
           \/ z = [s EXCEPT !.pc = "sent"]
           \/ z \in IF s.session THEN Reserve(s, q)
                    ELSE {[s EXCEPT !.goal = q, !.back = "sent", !.pc = "open"]}
    PROVE  z \in Request /\ Sound(pg, z, n, "none") /\ j = "none"
<1>0. {"fail", "sent", "open"} \subseteq Pc
    BY DEF Pc
<1>1. j = "none"
    BY DEF Sound, InPlace
<1>2. CASE z = [s EXCEPT !.pc = "fail"] \/ z = [s EXCEPT !.pc = "sent"]
    <2>1. z \in Request /\ z.pc \in {"fail", "sent"} /\ z.src = s.src /\ SameBooks(z, s)
        <3>1. PICK p \in {"fail", "sent"} : z = [s EXCEPT !.pc = p]
            BY <1>2
        <3>2. p \in Pc
            BY <1>0, <3>1
        <3> QED
            BY <3>1, <3>2, PcIs
    <2> QED
        BY <1>1, <2>1, ControlKeeps
<1>3. CASE s.session /\ z \in Reserve(s, q)
    BY <1>1, <1>3, ReserveKeeps
<1>4. CASE ~s.session /\ z = [s EXCEPT !.goal = q, !.back = "sent", !.pc = "open"]
    <2>1. ASSUME NEW p \in Pc
          PROVE  LET y == [s EXCEPT !.goal = q, !.back = "sent", !.pc = p]
                 IN  y \in Request /\ y.pc = p /\ y.src = s.src /\ SameBooks(y, s)
        BY DEF Request, SameBooks
    <2>2. z \in Request /\ z.pc = "open" /\ z.src = s.src /\ SameBooks(z, s)
        BY <1>0, <1>4, <2>1
    <2> QED
        BY <1>1, <1>4, <2>2, ControlKeeps
<1> QED
    BY <1>2, <1>3, <1>4

LEMMA KeepsRoute ==
    ASSUME BillingInv, NEW r \in Requests, Route(r)
    PROVE  BillingInv'
<1> DEFINE s == req[r]
           n == net[r]
           pg == user.playground
<1>1. SessionTypes /\ s \in Request /\ n \in Amounts /\ pg \in BOOLEAN /\ s.pc = "route"
      /\ Sound(pg, s, n, job[r]) /\ job[r] \in Jobs
    BY Here DEF Route
<1>2. \E z, q : /\ Put(r, z) /\ q \in Nat
                /\ \/ z = [s EXCEPT !.pc = "fail"]
                   \/ z = [s EXCEPT !.pc = "sent"]
                   \/ z \in IF s.session THEN Reserve(s, q)
                            ELSE {[s EXCEPT !.goal = q, !.back = "sent", !.pc = "open"]}
    <2>1. \/ Put(r, [s EXCEPT !.pc = "fail"])
          \/ Put(r, [s EXCEPT !.pc = "sent"])
          \/ \E q \in Quotas : \E z \in IF s.session THEN Reserve(s, q)
                ELSE {[s EXCEPT !.goal = q, !.back = "sent", !.pc = "open"]} : Put(r, z)
        BY DEF Route
    <2> HIDE DEF s
    <2>2. CASE Put(r, [s EXCEPT !.pc = "fail"]) \/ Put(r, [s EXCEPT !.pc = "sent"])
        <3>1. 0 \in Nat
            OBVIOUS
        <3> QED
            BY <2>2, <3>1
    <2>3. CASE \E q \in Quotas : \E z \in IF s.session THEN Reserve(s, q)
                ELSE {[s EXCEPT !.goal = q, !.back = "sent", !.pc = "open"]} : Put(r, z)
        BY <2>3, QuotasAssumption
    <2> QED
        BY <2>1, <2>2, <2>3
<1>3. PICK z, q : /\ Put(r, z) /\ q \in Nat
                  /\ \/ z = [s EXCEPT !.pc = "fail"]
                     \/ z = [s EXCEPT !.pc = "sent"]
                     \/ z \in IF s.session THEN Reserve(s, q)
                              ELSE {[s EXCEPT !.goal = q, !.back = "sent", !.pc = "open"]}
    BY <1>2
<1>4. z \in Request /\ Sound(pg, z, n, "none") /\ job[r] = "none"
    <2> DEFINE j == job[r]
    <2>1. j \in Jobs /\ Sound(pg, s, n, j)
        BY <1>1
    <2> HIDE DEF s, n, pg, j
    <2>2. z \in Request /\ Sound(pg, z, n, "none") /\ j = "none"
        BY <1>1, <1>3, <2>1, RouteKeeps
    <2> QED
        BY <2>2 DEF j
<1> QED
    BY <1>1, <1>3, <1>4, QuietLift DEF Route

LEMMA SentKeeps ==
    ASSUME NEW pg \in BOOLEAN, NEW s \in Request, NEW n \in Amounts, NEW j \in Jobs, Sound(pg, s, n, j),
           s.pc = "sent", NEW z, NEW a \in Nat,
           \/ z = [s EXCEPT !.goal = a, !.pc = "settle"]
           \/ z = [s EXCEPT !.tries = @ + 1, !.pc = "route"]
           \/ z = [s EXCEPT !.pc = "fail"]
    PROVE  z \in Request /\ Sound(pg, z, n, "none") /\ j = "none"
<1>0. "settle" \in Pc /\ "route" \in Pc /\ "fail" \in Pc /\ s.tries + 1 \in Nat
    BY DEF Pc, Request
<1>1. z \in Request /\ z.pc \in Between /\ z.src = s.src /\ SameBooks(z, s)
    <2>1. CASE z = [s EXCEPT !.goal = a, !.pc = "settle"]
        BY <1>0, <2>1 DEF Request, SameBooks
    <2>2. CASE z = [s EXCEPT !.tries = @ + 1, !.pc = "route"]
        <3>1. ASSUME NEW t \in Nat, NEW p \in Pc
              PROVE  LET y == [s EXCEPT !.tries = t, !.pc = p]
                     IN  y \in Request /\ y.pc = p /\ y.src = s.src /\ SameBooks(y, s)
            BY DEF Request, SameBooks
        <3> QED
            BY <1>0, <2>2, <3>1
    <2>3. CASE z = [s EXCEPT !.pc = "fail"]
        BY <1>0, <2>3, PcIs
    <2> QED
        BY <2>1, <2>2, <2>3
<1> QED
    BY <1>1, ControlKeeps

LEMMA KeepsSent ==
    ASSUME BillingInv, NEW r \in Requests, Sent(r)
    PROVE  BillingInv'
<1> DEFINE s == req[r]
           n == net[r]
           pg == user.playground
           j == job[r]
<1>1. SessionTypes /\ s \in Request /\ n \in Amounts /\ pg \in BOOLEAN /\ s.pc = "sent"
      /\ Sound(pg, s, n, j) /\ j \in Jobs
    BY Here DEF Sent
<1>2. \E z, a : /\ Put(r, z) /\ a \in Nat
                /\ \/ z = [s EXCEPT !.goal = a, !.pc = "settle"]
                   \/ z = [s EXCEPT !.tries = @ + 1, !.pc = "route"]
                   \/ z = [s EXCEPT !.pc = "fail"]
    <2>1. \/ \E a \in Actuals : Put(r, [s EXCEPT !.goal = a, !.pc = "settle"])
          \/ Put(r, [s EXCEPT !.tries = @ + 1, !.pc = "route"])
          \/ Put(r, [s EXCEPT !.pc = "fail"])
        BY DEF Sent
    <2> HIDE DEF s
    <2>2. CASE \E a \in Actuals : Put(r, [s EXCEPT !.goal = a, !.pc = "settle"])
        BY <2>2, QuotasAssumption
    <2>3. CASE Put(r, [s EXCEPT !.tries = @ + 1, !.pc = "route"]) \/ Put(r, [s EXCEPT !.pc = "fail"])
        <3>1. 0 \in Nat
            OBVIOUS
        <3> QED
            BY <2>3, <3>1
    <2> QED
        BY <2>1, <2>2, <2>3
<1>3. PICK z, a : /\ Put(r, z) /\ a \in Nat
                  /\ \/ z = [s EXCEPT !.goal = a, !.pc = "settle"]
                     \/ z = [s EXCEPT !.tries = @ + 1, !.pc = "route"]
                     \/ z = [s EXCEPT !.pc = "fail"]
    BY <1>2
<1>4. z \in Request /\ Sound(pg, z, n, "none") /\ j = "none"
    <2> HIDE DEF s, n, pg, j
    <2> QED
        BY <1>1, <1>3, SentKeeps
<1> QED
    BY <1>1, <1>3, <1>4, QuietLift DEF Sent

LEMMA KeepsViolation ==
    ASSUME BillingInv, NEW r \in Requests, Violation(r)
    PROVE  BillingInv'
<1> DEFINE s == req[r]
           n == net[r]
           pg == user.playground
           j == job[r]
           z == [s EXCEPT !.pc = "fail"]
<1>1. SessionTypes /\ s \in Request /\ n \in Amounts /\ pg \in BOOLEAN /\ s.pc = "sent"
      /\ Sound(pg, s, n, j) /\ j \in Jobs
    BY Here DEF Violation
<1>2. z \in Request /\ Sound(pg, z, n, "none") /\ j = "none" /\ 0 \in Nat
    <2> HIDE DEF s, n, pg, j
    <2> QED
        BY <1>1, SentKeeps
<1>3. balance' \in Amounts /\ faults' \in 0..MaxFaults /\ net' = [net EXCEPT ![r] = n]
    BY <1>1, QuietDoes DEF Violation
<1>4. req' = [req EXCEPT ![r] = z] /\ Running /\ UNCHANGED <<user, server>> /\ job' = job
    BY DEF Violation, Put
<1>5. job' = [job EXCEPT ![r] = j]
    BY <1>4 DEF BillingInv, SessionTypes
<1>6. server # "drained"
    BY <1>1 DEF BillingInv
<1> HIDE DEF s, n, z, pg, j
<1> QED
    BY <1>1, <1>2, <1>3, <1>4, <1>5, <1>6, Lift DEF pg

(***************************************************************************)
(* reserve.                                                                *)
(***************************************************************************)

(* The funding of a reservation is taken and not yet committed.            *)
Held(pg, s, n) ==
    /\ s.session /\ s.src = "wallet" /\ ~s.settled /\ ~s.refunded /\ ~s.fundingSettled
    /\ ~s.fundingUncertain /\ s.need = s.goal - s.pre /\ s.need > 0
    /\ ~s.tokenUncertain => s.tok = Share(pg, s.pre) /\ s.fund = s.pre
    /\ s.held = s.fund + s.need
    /\ ~s.tokenUncertain => n["token"] >= s.tok /\ ("token" \notin s.doubt => n["token"] = s.tok)
    /\ n["wallet"] >= s.held /\ ("wallet" \notin s.doubt => n["wallet"] = s.held)
    /\ "sub" \notin s.doubt => n["sub"] = 0
    /\ \A a \in Accounts : n[a] >= 0

LEMMA HeldSound ==
    ASSUME NEW pg \in BOOLEAN, NEW s \in Request, NEW n \in Amounts, Held(pg, s, n),
           s.pc \in Holding, s.pc = "resTok" => ~s.tokenUncertain
    PROVE  Sound(pg, s, n, "none")
<1>1. InPlace(s, "none")
    BY DEF Held, InPlace, Uncertain
<1>2. s.pre \in Nat /\ s.fund \in Nat /\ s.held \in Nat /\ s.need \in Int
    BY DEF Request
<1>3. Counted(pg, s) /\ NothingLeft(s, "none")
    BY <1>2 DEF Held, Counted, Uncertain, NothingLeft
<1>4. TokenBacked(s, n, "none")
    BY DEF Held, TokenBacked, TokenBook
<1>5. FundBacked(s, n, "none")
    BY DEF Held, FundBacked, Pays, Spilled, FundBook, Accounts
<1> QED
    BY <1>1, <1>3, <1>4, <1>5 DEF Sound, Held

LEMMA SoundHeld ==
    ASSUME NEW pg \in BOOLEAN, NEW s \in Request, NEW n \in Amounts, NEW j \in Jobs,
           Sound(pg, s, n, j), s.pc \in Holding
    PROVE  Held(pg, s, n) /\ j = "none" /\ (s.pc = "resTok" => ~s.tokenUncertain)
<1>1. /\ s.session /\ s.src = "wallet" /\ ~s.settled /\ ~s.refunded /\ ~s.fundingSettled
      /\ ~s.fundingUncertain /\ j = "none" /\ (s.pc = "resTok" => ~s.tokenUncertain)
    BY DEF Sound, InPlace
<1>2. s.pre \in Nat /\ s.fund \in Nat /\ s.held \in Nat /\ s.need \in Int
    BY DEF Request
<1>3. /\ s.need = s.goal - s.pre /\ s.need > 0 /\ s.held = s.fund + s.need
      /\ ~s.tokenUncertain => s.tok = Share(pg, s.pre) /\ s.fund = s.pre
    BY <1>1, <1>2 DEF Sound, Counted, Uncertain
<1>4. ~s.tokenUncertain => n["token"] >= s.tok /\ ("token" \notin s.doubt => n["token"] = s.tok)
    BY <1>1 DEF Sound, TokenBacked, TokenBook
<1>5. /\ n["wallet"] >= s.held /\ ("wallet" \notin s.doubt => n["wallet"] = s.held)
      /\ "sub" \notin s.doubt => n["sub"] = 0
    BY <1>1 DEF Sound, FundBacked, Pays, Spilled, FundBook
<1> QED
    BY <1>1, <1>3, <1>4, <1>5 DEF Held, Sound

(* A call whose funding outcome is unknown: only the bounds are left.      *)
LEMMA DoubtfulResting ==
    ASSUME NEW pg \in BOOLEAN, NEW s, NEW n \in Amounts,
           s.session, s.src \in {"wallet", "sub"}, ~s.settled, ~s.refunded, s.fundingUncertain,
           ~s.tokenUncertain => n["token"] >= s.tok /\ ("token" \notin s.doubt => n["token"] = s.tok),
           \A a \in Accounts : n[a] >= 0
    PROVE  Resting(pg, s, n)
BY DEF Resting

LEMMA ResFundKeeps ==
    ASSUME NEW pg \in BOOLEAN, NEW s \in Request, NEW n \in Amounts, NEW m \in Amounts, NEW j \in Jobs,
           Sound(pg, s, n, j), s.pc = "resFund", NEW z,
           \/ z = [s EXCEPT !.held = @ + s.need, !.pc = "resTok"] /\ Moved(m, n, "wallet", s.need)
           \/ z \in Refused([s EXCEPT !.code = "short"]) /\ m = n
           \/ /\ z \in Refused([s EXCEPT !.code = "error", !.fund = @ + s.need, !.fundingUncertain = TRUE])
              /\ m = n \/ Moved(m, n, "wallet", s.need)
    PROVE  z \in Request /\ Sound(pg, z, m, "none") /\ j = "none"
<1>1. Resting(pg, s, n) /\ ~s.fundingSettled /\ j = "none"
    <2>1. s.session
        BY DEF Sound, InPlace
    <2> QED
        BY <2>1, SoundResting
<1>2. /\ s.src = "wallet" /\ ~s.fundingUncertain /\ ~s.tokenUncertain
      /\ s.need = s.goal - s.pre /\ s.need > 0 /\ s.pre \in Nat /\ s.need \in Int /\ s.goal \in Nat
    BY DEF Sound, InPlace, Counted, Request
<1>3. /\ s.session /\ ~s.settled /\ ~s.refunded /\ s.tok = Share(pg, s.pre) /\ s.fund = s.pre
      /\ s.held = s.pre /\ n["token"] >= s.tok /\ ("token" \notin s.doubt => n["token"] = s.tok)
      /\ n["wallet"] >= s.fund /\ ("wallet" \notin s.doubt => n["wallet"] = s.fund)
      /\ n["sub"] >= 0 /\ ("sub" \notin s.doubt => n["sub"] = 0)
    BY <1>1, <1>2 DEF Resting
<1>4. n["wallet"] \in Int /\ n["token"] \in Int /\ s.tok \in Nat
    BY DEF Amounts, Accounts, Request
<1>5. CASE z = [s EXCEPT !.held = @ + s.need, !.pc = "resTok"] /\ Moved(m, n, "wallet", s.need)
    <2>1. ASSUME NEW p \in Pc, NEW h \in Nat
          PROVE  LET y == [s EXCEPT !.held = h, !.pc = p]
                 IN  /\ y \in Request /\ y.pc = p /\ y.held = h /\ y.src = s.src /\ y.need = s.need
                     /\ y.goal = s.goal /\ y.pre = s.pre /\ y.fund = s.fund /\ y.tok = s.tok
                     /\ y.doubt = s.doubt /\ y.session /\ ~y.settled /\ ~y.refunded /\ ~y.fundingSettled
                     /\ ~y.fundingUncertain /\ ~y.tokenUncertain
        BY <1>1, <1>2, <1>3 DEF Request
    <2>2. s.held + s.need \in Nat /\ "resTok" \in Pc
        BY <1>2, <1>3 DEF Pc
    <2>3. /\ z \in Request /\ z.pc = "resTok" /\ z.held = s.held + s.need /\ z.src = s.src /\ z.need = s.need
          /\ z.goal = s.goal /\ z.pre = s.pre /\ z.fund = s.fund /\ z.tok = s.tok
          /\ z.doubt = s.doubt /\ z.session /\ ~z.settled /\ ~z.refunded /\ ~z.fundingSettled
          /\ ~z.fundingUncertain /\ ~z.tokenUncertain
        BY <1>5, <2>1, <2>2
    <2>4. /\ m["wallet"] = n["wallet"] + s.need /\ m["token"] = n["token"] /\ m["sub"] = n["sub"]
        BY <1>5 DEF Moved, Accounts
    <2>5. \A a \in Accounts : m[a] >= 0
        BY <1>2, <1>3, <1>4, <2>4 DEF Accounts
    <2>6. Held(pg, z, m)
        BY <1>2, <1>3, <1>4, <2>3, <2>4, <2>5 DEF Held
    <2> QED
        BY <1>1, <2>3, <2>6, HeldSound
<1>6. CASE z \in Refused([s EXCEPT !.code = "short"]) /\ m = n
    <2> DEFINE y == [s EXCEPT !.code = "short"]
    <2>1. y \in Request /\ y.src = s.src /\ SameBooks(y, s)
        BY CodeIs
    <2> HIDE DEF y
    <2>2. Resting(pg, y, m) /\ ~y.fundingSettled
        BY <1>1, <1>6, <2>1 DEF Resting, SameBooks
    <2> QED
        BY <1>1, <1>6, <2>1, <2>2, RefusedResting DEF y
<1>7. CASE /\ z \in Refused([s EXCEPT !.code = "error", !.fund = @ + s.need, !.fundingUncertain = TRUE])
           /\ m = n \/ Moved(m, n, "wallet", s.need)
    <2> DEFINE y == [s EXCEPT !.code = "error", !.fund = @ + s.need, !.fundingUncertain = TRUE]
    <2>1. ASSUME NEW f \in Nat
          PROVE  LET x == [s EXCEPT !.code = "error", !.fund = f, !.fundingUncertain = TRUE]
                 IN  /\ x \in Request /\ x.src = s.src /\ x.tok = s.tok /\ x.doubt = s.doubt
                     /\ x.session /\ ~x.settled /\ ~x.refunded /\ ~x.fundingSettled
                     /\ x.fundingUncertain
        BY <1>1, <1>3 DEF Request
    <2>2. s.fund + s.need \in Nat
        BY <1>2, <1>3
    <2>3. /\ y \in Request /\ y.src = s.src /\ y.tok = s.tok /\ y.doubt = s.doubt
          /\ y.session /\ ~y.settled /\ ~y.refunded /\ ~y.fundingSettled
          /\ y.fundingUncertain
        BY <2>1, <2>2
    <2>4. m["token"] = n["token"] /\ \A a \in Accounts : m[a] >= 0
        BY <1>2, <1>3, <1>4, <1>7 DEF Moved, Accounts
    <2> HIDE DEF y
    <2>5. Resting(pg, y, m)
        BY <1>2, <1>3, <2>3, <2>4, DoubtfulResting
    <2> QED
        BY <1>1, <1>7, <2>3, <2>5, RefusedResting DEF y
<1> QED
    BY <1>5, <1>6, <1>7

LEMMA KeepsResFund ==
    ASSUME BillingInv, NEW r \in Requests, ResFund(r)
    PROVE  BillingInv'
<1> DEFINE s == req[r]
           n == net[r]
           pg == user.playground
           j == job[r]
           Z(oc) == CASE oc = "ok"    -> {[s EXCEPT !.held = @ + s.need, !.pc = "resTok"]}
                      [] oc = "short" -> Refused([s EXCEPT !.code = "short"])
                      [] OTHER -> Refused([s EXCEPT !.code = "error", !.fund = @ + s.need,
                                                    !.fundingUncertain = TRUE])
<1>1. SessionTypes /\ s \in Request /\ n \in Amounts /\ pg \in BOOLEAN /\ s.pc = "resFund"
      /\ Sound(pg, s, n, j) /\ j \in Jobs
    BY Here DEF ResFund
<1>2. PICK oc \in Outcomes :
          /\ TryReserve(r, "wallet", s.need, oc) \/ Adjust(r, "wallet", s.need, oc)
          /\ \E z \in Z(oc) : Put(r, z)
    BY DEF ResFund
<1>3. PICK z \in Z(oc) : Put(r, z)
    BY <1>2
<1>4. "wallet" \in Accounts /\ s.need \in Int
    BY <1>1 DEF Accounts, Request
<1>5. /\ balance' \in Amounts /\ faults' \in 0..MaxFaults
      /\ \E m \in Amounts :
           /\ net' = [net EXCEPT ![r] = m]
           /\ IF oc \in {"ok", "late"} THEN Moved(m, n, "wallet", s.need) ELSE m = n
    <2>1. CASE TryReserve(r, "wallet", s.need, oc)
        BY <1>1, <1>4, <2>1, ReserveDoes
    <2>2. CASE Adjust(r, "wallet", s.need, oc)
        BY <1>1, <1>4, <2>2, AdjustDoes
    <2> QED
        BY <1>2, <2>1, <2>2
<1>6. PICK m \in Amounts : /\ net' = [net EXCEPT ![r] = m]
                           /\ IF oc \in {"ok", "late"} THEN Moved(m, n, "wallet", s.need) ELSE m = n
    BY <1>5
<1>7. z \in Request /\ Sound(pg, z, m, "none") /\ j = "none"
    <2>1. \/ z = [s EXCEPT !.held = @ + s.need, !.pc = "resTok"] /\ Moved(m, n, "wallet", s.need)
          \/ z \in Refused([s EXCEPT !.code = "short"]) /\ m = n
          \/ /\ z \in Refused([s EXCEPT !.code = "error", !.fund = @ + s.need, !.fundingUncertain = TRUE])
             /\ m = n \/ Moved(m, n, "wallet", s.need)
        <3> HIDE DEF s, n
        <3> QED
            BY <1>3, <1>6 DEF Outcomes
    <2> HIDE DEF s, n, pg, j, Z
    <2> QED
        BY <1>1, <2>1, ResFundKeeps
<1> HIDE DEF Z
<1> QED
    BY <1>1, <1>3, <1>5, <1>6, <1>7, HandlerLift DEF ResFund

LEMMA ShareAdds ==
    ASSUME NEW pg \in BOOLEAN, NEW a \in Int, NEW b \in Int
    PROVE  Share(pg, a + b) = Share(pg, a) + Share(pg, b) /\ Share(pg, a) \in Int
BY DEF Share

(* The three ways in which the token call of a reservation ends.           *)
Committed(s, t, b) == [s EXCEPT !.pre = @ + s.need, !.fund = @ + s.need, !.tok = @ + t,
                                !.trusted = b, !.pc = "sent"]
Backing(s, c) == [s EXCEPT !.code = c, !.pc = "resBack"]
BackingUnsure(s, t) == [Backing(s, "error") EXCEPT !.tok = @ + t, !.tokenUncertain = TRUE]

LEMMA ResTokKeeps ==
    ASSUME NEW pg \in BOOLEAN, NEW s \in Request, NEW n \in Amounts, NEW m \in Amounts, NEW j \in Jobs,
           Sound(pg, s, n, j), s.pc = "resTok", NEW t, t = Share(pg, s.need), NEW b \in BOOLEAN, NEW z,
           \/ /\ z = Committed(s, t, b)
              /\ Moved(m, n, "token", t)
           \/ z = Backing(s, "short") /\ m = n
           \/ /\ z = BackingUnsure(s, t)
              /\ m = n \/ Moved(m, n, "token", t)
    PROVE  z \in Request /\ Sound(pg, z, m, "none") /\ j = "none"
<1>1. Held(pg, s, n) /\ j = "none" /\ ~s.tokenUncertain
    BY SoundHeld
<1>2. /\ s.pre \in Nat /\ s.need \in Int /\ s.need > 0 /\ s.fund = s.pre /\ s.tok = Share(pg, s.pre)
      /\ s.tok \in Nat /\ s.held \in Nat /\ s.held = s.pre + s.need
    BY <1>1 DEF Held, Request
<1>3. t \in Nat /\ Share(pg, s.pre + s.need) = s.tok + t
    BY <1>2, ShareAdds DEF Share
<1>4. n["wallet"] \in Int /\ n["token"] \in Int /\ n["sub"] \in Int
    BY DEF Amounts, Accounts
<1>5. /\ s.session /\ s.src = "wallet" /\ ~s.settled /\ ~s.refunded /\ ~s.fundingSettled
      /\ ~s.fundingUncertain /\ s.need = s.goal - s.pre
      /\ n["token"] >= s.tok /\ ("token" \notin s.doubt => n["token"] = s.tok)
      /\ n["wallet"] >= s.held /\ ("wallet" \notin s.doubt => n["wallet"] = s.held)
      /\ n["sub"] >= 0 /\ ("sub" \notin s.doubt => n["sub"] = 0)
    BY <1>1 DEF Held, Accounts
<1>6. CASE /\ z = Committed(s, t, b)
           /\ Moved(m, n, "token", t)
    <2> DEFINE h == s.pre + s.need
               k == s.tok + t
    <2>2. h \in Nat /\ k \in Nat /\ "sent" \in Pc
        BY <1>2, <1>3 DEF Pc
    <2>3. z = [s EXCEPT !.pre = h, !.fund = h, !.tok = k, !.trusted = b, !.pc = "sent"]
        BY <1>2, <1>6 DEF Committed
    <2>4. h = s.held /\ k = Share(pg, h) /\ k = s.tok + t
        BY <1>2, <1>3
    <2> HIDE DEF h, k
    <2>5. /\ z \in Request /\ z.pc = "sent" /\ z.held = s.held /\ z.src = s.src
          /\ z.pre = h /\ z.fund = h /\ z.tok = k
          /\ z.doubt = s.doubt /\ z.session /\ ~z.settled /\ ~z.refunded /\ ~z.fundingSettled
          /\ ~z.fundingUncertain /\ ~z.tokenUncertain
        BY <1>1, <1>5, <2>2, <2>3 DEF Request
    <2>6. m["token"] = n["token"] + t /\ m["wallet"] = n["wallet"] /\ m["sub"] = n["sub"]
        BY <1>6 DEF Moved, Accounts
    <2>7. /\ m["token"] >= z.tok /\ ("token" \notin z.doubt => m["token"] = z.tok)
          /\ \A a \in Accounts : m[a] >= 0
        BY <1>2, <1>3, <1>4, <1>5, <2>4, <2>5, <2>6 DEF Accounts
    <2>8. /\ m["wallet"] >= z.fund /\ ("wallet" \notin z.doubt => m["wallet"] = z.fund)
          /\ m["sub"] >= 0 /\ ("sub" \notin z.doubt => m["sub"] = 0)
          /\ z.tok = Share(pg, z.pre) /\ z.fund = z.pre /\ z.held = z.pre /\ z.src = "wallet"
        BY <1>5, <2>4, <2>5, <2>6
    <2>9. Resting(pg, z, m)
        BY <2>5, <2>7, <2>8 DEF Resting
    <2> QED
        BY <1>1, <2>5, <2>9, RestingSound
<1>7. CASE z = Backing(s, "short") /\ m = n
    <2>1. ASSUME NEW p \in Pc
          PROVE  LET y == [s EXCEPT !.code = "short", !.pc = p]
                 IN  y \in Request /\ y.pc = p /\ y.src = s.src /\ y.need = s.need /\ y.goal = s.goal
                     /\ SameBooks(y, s)
        BY DEF Request, SameBooks
    <2>2. "resBack" \in Pc
        BY DEF Pc
    <2>3. z \in Request /\ z.pc = "resBack" /\ z.src = s.src /\ z.need = s.need /\ z.goal = s.goal
          /\ SameBooks(z, s)
        BY <1>7, <2>1, <2>2 DEF Backing
    <2>4. Held(pg, z, m)
        BY <1>1, <1>7, <2>3 DEF Held, SameBooks
    <2> QED
        BY <1>1, <2>3, <2>4, HeldSound
<1>8. CASE /\ z = BackingUnsure(s, t)
           /\ m = n \/ Moved(m, n, "token", t)
    <2> DEFINE y == [s EXCEPT !.code = "error", !.pc = "resBack"]
    <2>1. ASSUME NEW p \in Pc
          PROVE  LET x == [s EXCEPT !.code = "error", !.pc = p]
                 IN  x \in Request /\ x.pc = p /\ x.src = s.src /\ x.need = s.need /\ x.goal = s.goal
                     /\ SameBooks(x, s)
        BY DEF Request, SameBooks
    <2>2. "resBack" \in Pc
        BY DEF Pc
    <2>3. y \in Request /\ y.pc = "resBack" /\ y.src = s.src /\ y.need = s.need /\ y.goal = s.goal
          /\ SameBooks(y, s)
        BY <2>1, <2>2
    <2>4. z = [y EXCEPT !.tok = @ + t, !.tokenUncertain = TRUE]
        BY <1>8 DEF BackingUnsure, Backing
    <2> HIDE DEF y
    <2>5. ASSUME NEW k \in Nat
          PROVE  LET x == [y EXCEPT !.tok = k, !.tokenUncertain = TRUE]
                 IN  /\ x \in Request /\ x.pc = "resBack" /\ x.src = s.src /\ x.need = s.need
                     /\ x.goal = s.goal /\ x.pre = s.pre /\ x.fund = s.fund /\ x.held = s.held
                     /\ x.session = s.session /\ x.settled = s.settled /\ x.refunded = s.refunded
                     /\ x.fundingSettled = s.fundingSettled /\ x.fundingUncertain = s.fundingUncertain
                     /\ x.tokenUncertain /\ x.doubt = s.doubt
        BY <2>3 DEF Request, SameBooks
    <2>6. y.tok + t \in Nat
        BY <1>2, <1>3, <2>3 DEF SameBooks
    <2>7. /\ z \in Request /\ z.pc = "resBack" /\ z.src = s.src /\ z.need = s.need
          /\ z.goal = s.goal /\ z.pre = s.pre /\ z.fund = s.fund /\ z.held = s.held
          /\ z.session = s.session /\ z.settled = s.settled /\ z.refunded = s.refunded
          /\ z.fundingSettled = s.fundingSettled /\ z.fundingUncertain = s.fundingUncertain
          /\ z.tokenUncertain /\ z.doubt = s.doubt
        BY <2>4, <2>5, <2>6
    <2>8. m["wallet"] = n["wallet"] /\ m["sub"] = n["sub"] /\ \A a \in Accounts : m[a] >= 0
        BY <1>2, <1>3, <1>4, <1>5, <1>8 DEF Moved, Accounts
    <2>9. Held(pg, z, m)
        BY <1>1, <2>7, <2>8 DEF Held
    <2> QED
        BY <1>1, <2>7, <2>9, HeldSound
<1> QED
    BY <1>6, <1>7, <1>8

LEMMA KeepsResTok ==
    ASSUME BillingInv, NEW r \in Requests, ResTok(r)
    PROVE  BillingInv'
<1> DEFINE s == req[r]
           n == net[r]
           pg == user.playground
           j == job[r]
           t == TokenShare(s.need)
           b == s.trusted /\ s.kind = "text"
           back(c) == [s EXCEPT !.code = c, !.pc = "resBack"]
           Z(oc) == CASE oc = "ok"    -> Committed(s, t, b)
                      [] oc = "short" -> back("short")
                      [] OTHER -> [back("error") EXCEPT !.tok = @ + t, !.tokenUncertain = TRUE]
<1>1. SessionTypes /\ s \in Request /\ n \in Amounts /\ pg \in BOOLEAN /\ s.pc = "resTok"
      /\ Sound(pg, s, n, j) /\ j \in Jobs
    BY Here DEF ResTok
<1>2. PICK oc \in Outcomes :
          /\ IF t = 0 THEN oc = "ok" /\ Quiet ELSE TryReserve(r, "token", t, oc)
          /\ Put(r, Z(oc))
    BY DEF ResTok, Committed
<1>3. "token" \in Accounts /\ s.need \in Int /\ t = Share(pg, s.need)
    BY <1>1 DEF Accounts, Request, TokenShare, Share
<1>4. t \in Int /\ b \in BOOLEAN
    BY <1>3 DEF Share
<1>5. /\ balance' \in Amounts /\ faults' \in 0..MaxFaults
      /\ \E m \in Amounts :
           /\ net' = [net EXCEPT ![r] = m]
           /\ IF oc \in {"ok", "late"} THEN Moved(m, n, "token", t) ELSE m = n
    <2>1. CASE t = 0
        <3>1. balance' \in Amounts /\ faults' \in 0..MaxFaults /\ net' = [net EXCEPT ![r] = n] /\ oc = "ok"
            BY <1>1, <1>2, <2>1, QuietDoes
        <3>2. Moved(n, n, "token", t)
            BY <1>1, <2>1 DEF Moved, Amounts, Accounts
        <3> QED
            BY <1>1, <3>1, <3>2
    <2>2. CASE t # 0
        <3>1. TryReserve(r, "token", t, oc)
            BY <1>2, <2>2
        <3> HIDE DEF t
        <3> QED
            BY <1>1, <1>3, <1>4, <3>1, ReserveDoes
    <2> QED
        BY <2>1, <2>2
<1>6. PICK m \in Amounts : /\ net' = [net EXCEPT ![r] = m]
                           /\ IF oc \in {"ok", "late"} THEN Moved(m, n, "token", t) ELSE m = n
    BY <1>5
<1>7. Z(oc) \in Request /\ Sound(pg, Z(oc), m, "none") /\ j = "none"
    <2> DEFINE z == Z(oc)
    <2>1. \/ /\ z = Committed(s, t, b)
             /\ Moved(m, n, "token", t)
          \/ z = Backing(s, "short") /\ m = n
          \/ /\ z = BackingUnsure(s, t)
             /\ m = n \/ Moved(m, n, "token", t)
        <3> HIDE DEF s, n, t, b
        <3> QED
            BY <1>6 DEF Outcomes, Committed, Backing, BackingUnsure
    <2> HIDE DEF s, n, pg, j, t, b, Z, z
    <2>2. z \in Request /\ Sound(pg, z, m, "none") /\ j = "none"
        BY <1>1, <1>3, <1>4, <2>1, ResTokKeeps
    <2> QED
        BY <2>2 DEF z
<1> HIDE DEF Z
<1> QED
    BY <1>1, <1>2, <1>5, <1>6, <1>7, HandlerLift DEF ResTok

LEMMA ResBackKeeps ==
    ASSUME NEW pg \in BOOLEAN, NEW s \in Request, NEW n \in Amounts, NEW m \in Amounts, NEW j \in Jobs,
           Sound(pg, s, n, j), s.pc = "resBack", NEW z,
           \/ z \in Refused([s EXCEPT !.held = @ - s.need]) /\ Moved(m, n, "wallet", -s.need)
           \/ /\ z \in Refused([s EXCEPT !.code = "error", !.fund = @ + s.need, !.fundingUncertain = TRUE])
              /\ m = n \/ Moved(m, n, "wallet", -s.need)
    PROVE  z \in Request /\ Sound(pg, z, m, "none") /\ j = "none"
<1>1. Held(pg, s, n) /\ j = "none"
    BY SoundHeld
<1>2. /\ s.pre \in Nat /\ s.need \in Int /\ s.need > 0 /\ s.fund \in Nat
      /\ s.tok \in Nat /\ s.held \in Nat /\ s.held = s.fund + s.need
    BY <1>1 DEF Held, Request
<1>3. n["wallet"] \in Int /\ n["token"] \in Int /\ n["sub"] \in Int
    BY DEF Amounts, Accounts
<1>4. /\ s.session /\ s.src = "wallet" /\ ~s.settled /\ ~s.refunded /\ ~s.fundingSettled
      /\ ~s.fundingUncertain
      /\ ~s.tokenUncertain => /\ n["token"] >= s.tok /\ ("token" \notin s.doubt => n["token"] = s.tok)
                              /\ s.tok = Share(pg, s.pre) /\ s.fund = s.pre
      /\ n["wallet"] >= s.held /\ ("wallet" \notin s.doubt => n["wallet"] = s.held)
      /\ n["sub"] >= 0 /\ ("sub" \notin s.doubt => n["sub"] = 0) /\ n["token"] >= 0
    BY <1>1 DEF Held, Accounts
<1>5. /\ m["token"] = n["token"] /\ m["sub"] = n["sub"]
      /\ m["wallet"] = n["wallet"] \/ m["wallet"] = n["wallet"] + (-s.need)
    BY DEF Moved, Accounts
<1>6. \A a \in Accounts : m[a] >= 0
    BY <1>2, <1>3, <1>4, <1>5 DEF Accounts
<1>7. CASE z \in Refused([s EXCEPT !.held = @ - s.need]) /\ Moved(m, n, "wallet", -s.need)
    <2> DEFINE h == s.held - s.need
               y == [s EXCEPT !.held = h]
    <2>1. h = s.fund /\ h \in Nat /\ m["wallet"] = n["wallet"] + (-s.need)
        BY <1>2, <1>7 DEF Moved
    <2>2. z \in Refused(y)
        BY <1>7
    <2> HIDE DEF h
    <2>3. /\ y \in Request /\ y.held = h /\ y.src = s.src /\ y.pre = s.pre /\ y.fund = s.fund
          /\ y.tok = s.tok /\ y.doubt = s.doubt /\ y.session /\ ~y.settled /\ ~y.refunded
          /\ ~y.fundingSettled /\ ~y.fundingUncertain /\ y.tokenUncertain = s.tokenUncertain
        BY <1>4, <2>1 DEF Request
    <2> HIDE DEF y
    <2>4. m["wallet"] >= s.fund /\ ("wallet" \notin s.doubt => m["wallet"] = s.fund)
        BY <1>2, <1>3, <1>4, <2>1
    <2>5. Resting(pg, y, m)
        BY <1>4, <1>5, <1>6, <2>1, <2>3, <2>4 DEF Resting
    <2> QED
        BY <1>1, <2>2, <2>3, <2>5, RefusedResting
<1>8. CASE z \in Refused([s EXCEPT !.code = "error", !.fund = @ + s.need, !.fundingUncertain = TRUE])
    <2> DEFINE y == [s EXCEPT !.code = "error", !.fund = @ + s.need, !.fundingUncertain = TRUE]
    <2>1. ASSUME NEW f \in Nat
          PROVE  LET x == [s EXCEPT !.code = "error", !.fund = f, !.fundingUncertain = TRUE]
                 IN  /\ x \in Request /\ x.src = s.src /\ x.tok = s.tok /\ x.doubt = s.doubt
                     /\ x.session /\ ~x.settled /\ ~x.refunded /\ ~x.fundingSettled
                     /\ x.fundingUncertain /\ x.tokenUncertain = s.tokenUncertain
        BY <1>4 DEF Request
    <2>2. s.fund + s.need \in Nat
        BY <1>2
    <2>3. /\ y \in Request /\ y.src = s.src /\ y.tok = s.tok /\ y.doubt = s.doubt
          /\ y.session /\ ~y.settled /\ ~y.refunded /\ ~y.fundingSettled
          /\ y.fundingUncertain /\ y.tokenUncertain = s.tokenUncertain
        BY <2>1, <2>2
    <2> HIDE DEF y
    <2>4. Resting(pg, y, m)
        BY <1>4, <1>5, <1>6, <2>3, DoubtfulResting
    <2> QED
        BY <1>1, <1>8, <2>3, <2>4, RefusedResting DEF y
<1> QED
    BY <1>7, <1>8

LEMMA KeepsResBack ==
    ASSUME BillingInv, NEW r \in Requests, ResBack(r)
    PROVE  BillingInv'
<1> DEFINE s == req[r]
           n == net[r]
           pg == user.playground
           j == job[r]
           Z(oc) == IF oc = "ok" THEN Refused([s EXCEPT !.held = @ - s.need])
                    ELSE Refused([s EXCEPT !.code = "error", !.fund = @ + s.need,
                                           !.fundingUncertain = TRUE])
<1>1. SessionTypes /\ s \in Request /\ n \in Amounts /\ pg \in BOOLEAN /\ s.pc = "resBack"
      /\ Sound(pg, s, n, j) /\ j \in Jobs
    BY Here DEF ResBack
<1>2. PICK oc \in Outcomes : Adjust(r, "wallet", -s.need, oc) /\ \E z \in Z(oc) : Put(r, z)
    BY DEF ResBack
<1>3. PICK z \in Z(oc) : Put(r, z)
    BY <1>2
<1>4. "wallet" \in Accounts /\ -s.need \in Int
    BY <1>1 DEF Accounts, Request
<1>5. /\ balance' \in Amounts /\ faults' \in 0..MaxFaults
      /\ \E m \in Amounts :
           /\ net' = [net EXCEPT ![r] = m]
           /\ IF oc \in {"ok", "late"} THEN Moved(m, n, "wallet", -s.need) ELSE m = n
    BY <1>1, <1>2, <1>4, AdjustDoes
<1>6. PICK m \in Amounts : /\ net' = [net EXCEPT ![r] = m]
                           /\ IF oc \in {"ok", "late"} THEN Moved(m, n, "wallet", -s.need) ELSE m = n
    BY <1>5
<1>7. z \in Request /\ Sound(pg, z, m, "none") /\ j = "none"
    <2>1. \/ z \in Refused([s EXCEPT !.held = @ - s.need]) /\ Moved(m, n, "wallet", -s.need)
          \/ /\ z \in Refused([s EXCEPT !.code = "error", !.fund = @ + s.need, !.fundingUncertain = TRUE])
             /\ m = n \/ Moved(m, n, "wallet", -s.need)
        <3> HIDE DEF s, n
        <3> QED
            BY <1>3, <1>6
    <2> HIDE DEF s, n, pg, j, Z
    <2> QED
        BY <1>1, <2>1, ResBackKeeps
<1> HIDE DEF Z
<1> QED
    BY <1>1, <1>3, <1>5, <1>6, <1>7, HandlerLift DEF ResBack

(* What a call on subscription, token and wallet does in one transaction.  *)
Shifted(m, n, w, u, t) ==
    m["wallet"] = n["wallet"] + w /\ m["sub"] = n["sub"] + u /\ m["token"] = n["token"] + t

LEMMA ShiftDoes ==
    ASSUME SessionTypes, NEW r \in Requests, NEW take \in Amounts, NEW fits, NEW oc,
           Call(r, take, fits, oc)
    PROVE  /\ balance' \in Amounts /\ faults' \in 0..MaxFaults
           /\ \E m \in Amounts :
                /\ net' = [net EXCEPT ![r] = m]
                /\ IF oc \in {"ok", "late"}
                   THEN Shifted(m, net[r], take["wallet"], take["sub"], take["token"])
                   ELSE m = net[r]
<1>1. /\ balance' \in Amounts /\ faults' \in 0..MaxFaults
      /\ \E m \in Amounts :
           /\ net' = [net EXCEPT ![r] = m]
           /\ IF oc \in {"ok", "late"} THEN Taken(m, net[r], take) ELSE m = net[r]
    BY CallDoes
<1>2. PICK m \in Amounts :
           /\ net' = [net EXCEPT ![r] = m]
           /\ IF oc \in {"ok", "late"} THEN Taken(m, net[r], take) ELSE m = net[r]
    BY <1>1
<1>3. Taken(m, net[r], take) => Shifted(m, net[r], take["wallet"], take["sub"], take["token"])
    BY DEF Taken, Shifted, Accounts
<1> QED
    BY <1>1, <1>2, <1>3

LEMMA PairTyped ==
    ASSUME NEW d \in Int, NEW t \in Int
    PROVE  LET take == [Only("sub", d) EXCEPT !.token = t]
           IN  take \in Amounts /\ take["sub"] = d /\ take["token"] = t /\ take["wallet"] = 0
<1> DEFINE f == Only("sub", d)
<1>1. "sub" \in Accounts /\ "token" \in Accounts /\ "wallet" \in Accounts
    BY DEF Accounts
<1>2. f \in Amounts /\ f["sub"] = d /\ f["wallet"] = 0
    BY <1>1, OnlyTyped DEF Only
<1> HIDE DEF f
<1>3. [f EXCEPT !["token"] = t] \in Amounts
    BY <1>1, <1>2 DEF Amounts
<1>4. [f EXCEPT !["token"] = t]["sub"] = d /\ [f EXCEPT !["token"] = t]["wallet"] = 0
      /\ [f EXCEPT !["token"] = t]["token"] = t
    BY <1>1, <1>2 DEF Amounts
<1> QED
    BY <1>3, <1>4 DEF f

LEMMA PairDoes ==
    ASSUME SessionTypes, NEW r \in Requests, NEW d \in Int, NEW t \in Int, NEW fits, NEW oc,
           Call(r, [Only("sub", d) EXCEPT !.token = t], fits, oc)
    PROVE  /\ balance' \in Amounts /\ faults' \in 0..MaxFaults
           /\ \E m \in Amounts :
                /\ net' = [net EXCEPT ![r] = m]
                /\ IF oc \in {"ok", "late"} THEN Shifted(m, net[r], 0, d, t) ELSE m = net[r]
<1> DEFINE take == [Only("sub", d) EXCEPT !.token = t]
<1>1. take \in Amounts /\ take["sub"] = d /\ take["token"] = t /\ take["wallet"] = 0
    BY PairTyped
<1>2. Call(r, take, fits, oc)
    OBVIOUS
<1> HIDE DEF take
<1>3. /\ balance' \in Amounts /\ faults' \in 0..MaxFaults
      /\ \E m \in Amounts :
           /\ net' = [net EXCEPT ![r] = m]
           /\ IF oc \in {"ok", "late"}
              THEN Shifted(m, net[r], take["wallet"], take["sub"], take["token"])
              ELSE m = net[r]
    BY <1>1, <1>2, ShiftDoes
<1> QED
    BY <1>1, <1>3

(* The session with a subscription transaction that may have been applied. *)
Unsure(s, pg) == [s EXCEPT !.fundingUncertain = TRUE, !.tokenUncertain = ~pg]

LEMMA UnsureIs ==
    ASSUME NEW pg \in BOOLEAN, NEW s \in Request
    PROVE  /\ Unsure(s, pg) \in Request /\ Unsure(s, pg).src = s.src /\ Unsure(s, pg).tok = s.tok
           /\ Unsure(s, pg).doubt = s.doubt /\ Unsure(s, pg).session = s.session
           /\ Unsure(s, pg).settled = s.settled /\ Unsure(s, pg).refunded = s.refunded
           /\ Unsure(s, pg).fundingSettled = s.fundingSettled
           /\ Unsure(s, pg).fundingUncertain /\ Unsure(s, pg).tokenUncertain = ~pg
BY DEF Unsure, Request

Reserved(s, pg) == [s EXCEPT !.pre = s.goal, !.fund = s.goal, !.tok = Share(pg, s.goal), !.pc = "sent"]

LEMMA ResSubKeeps ==
    ASSUME NEW pg \in BOOLEAN, NEW s \in Request, NEW n \in Amounts, NEW m \in Amounts, NEW j \in Jobs,
           Sound(pg, s, n, j), s.pc = "resSub", NEW z,
           \/ z = Reserved(s, pg) /\ Shifted(m, n, 0, s.need, Share(pg, s.need))
           \/ \E c \in {"short", "error"} : z \in Refused([s EXCEPT !.code = c]) /\ m = n
           \/ /\ \E y : y = Unsure([s EXCEPT !.code = "error"], pg) /\ z \in Refused(y)
              /\ m = n \/ Shifted(m, n, 0, s.need, Share(pg, s.need))
    PROVE  z \in Request /\ Sound(pg, z, m, "none") /\ j = "none"
<1>1. Resting(pg, s, n) /\ ~s.fundingSettled /\ j = "none" /\ s.session
    <2>1. s.session
        BY DEF Sound, InPlace
    <2> QED
        BY <2>1, SoundResting
<1>2. /\ s.src = "sub" /\ ~s.fundingUncertain /\ ~s.tokenUncertain /\ s.need = s.goal - s.pre
      /\ s.need > 0 /\ s.pre \in Nat /\ s.need \in Int /\ s.goal \in Nat /\ s.tok \in Nat
    BY DEF Sound, InPlace, Counted, Request
<1>3. /\ s.session /\ ~s.settled /\ ~s.refunded /\ s.tok = Share(pg, s.pre) /\ s.fund = s.pre
      /\ s.held > 0 /\ n["token"] >= s.tok /\ ("token" \notin s.doubt => n["token"] = s.tok)
      /\ n["wallet"] >= 0 /\ ("wallet" \notin s.doubt => n["wallet"] = 0)
      /\ n["sub"] = s.fund /\ "sub" \notin s.doubt
    BY <1>1, <1>2 DEF Resting
<1>4. n["wallet"] \in Int /\ n["token"] \in Int /\ n["sub"] \in Int
    BY DEF Amounts, Accounts
<1>5. /\ Share(pg, s.goal) = s.tok + Share(pg, s.need) /\ Share(pg, s.goal) \in Nat
      /\ Share(pg, s.need) \in Nat
    <2>1. s.goal = s.pre + s.need
        BY <1>2
    <2> QED
        BY <1>2, <1>3, <2>1, ShareAdds DEF Share
<1>6. CASE z = Reserved(s, pg) /\ Shifted(m, n, 0, s.need, Share(pg, s.need))
    <2> DEFINE g == s.goal
               k == Share(pg, s.goal)
    <2>1. g \in Nat /\ k \in Nat /\ "sent" \in Pc
        BY <1>2, <1>5 DEF Pc
    <2>2. z = [s EXCEPT !.pre = g, !.fund = g, !.tok = k, !.pc = "sent"]
        BY <1>6 DEF Reserved
    <2>3. /\ m["token"] >= k /\ ("token" \notin s.doubt => m["token"] = k)
          /\ m["wallet"] >= 0 /\ ("wallet" \notin s.doubt => m["wallet"] = 0) /\ m["sub"] = g
        BY <1>2, <1>3, <1>4, <1>5, <1>6 DEF Shifted
    <2>4. k = Share(pg, g)
        OBVIOUS
    <2> HIDE DEF g, k
    <2>5. /\ z \in Request /\ z.pc = "sent" /\ z.pre = g /\ z.fund = g /\ z.tok = k /\ z.src = "sub"
          /\ z.held = s.held /\ z.doubt = s.doubt /\ z.session /\ ~z.settled /\ ~z.refunded
          /\ ~z.fundingSettled /\ ~z.fundingUncertain /\ ~z.tokenUncertain
        BY <1>1, <1>2, <1>3, <2>1, <2>2 DEF Request
    <2>6. \A a \in Accounts : m[a] >= 0
        BY <2>1, <2>3 DEF Accounts, Amounts
    <2>7. Resting(pg, z, m)
        BY <1>3, <2>1, <2>3, <2>4, <2>5, <2>6 DEF Resting
    <2> QED
        BY <1>1, <2>5, <2>7, RestingSound
<1>7. CASE \E c \in {"short", "error"} : z \in Refused([s EXCEPT !.code = c]) /\ m = n
    <2>1. PICK c \in {"short", "error"} : z \in Refused([s EXCEPT !.code = c]) /\ m = n
        BY <1>7
    <2> DEFINE y == [s EXCEPT !.code = c]
    <2>2. y \in Request /\ y.src = s.src /\ SameBooks(y, s)
        BY CodeIs
    <2> HIDE DEF y
    <2>3. Resting(pg, y, m) /\ ~y.fundingSettled
        BY <1>1, <2>1, <2>2 DEF Resting, SameBooks
    <2> QED
        BY <1>1, <2>1, <2>2, <2>3, RefusedResting DEF y
<1>8. CASE /\ \E y : y = Unsure([s EXCEPT !.code = "error"], pg) /\ z \in Refused(y)
           /\ m = n \/ Shifted(m, n, 0, s.need, Share(pg, s.need))
    <2> DEFINE x == [s EXCEPT !.code = "error"]
    <2>1. x \in Request /\ x.src = s.src /\ SameBooks(x, s)
        BY CodeIs
    <2>2. PICK y : y = Unsure(x, pg) /\ z \in Refused(y)
        BY <1>8
    <2> HIDE DEF x
    <2>3. /\ y \in Request /\ y.src = "sub" /\ y.tok = s.tok /\ y.doubt = s.doubt
          /\ y.session /\ ~y.settled /\ ~y.refunded /\ ~y.fundingSettled
          /\ y.fundingUncertain /\ (y.tokenUncertain <=> ~pg)
        BY <1>1, <1>2, <1>3, <2>1, <2>2, UnsureIs DEF SameBooks
    <2>4. \A a \in Accounts : m[a] >= 0
        BY <1>2, <1>3, <1>4, <1>5, <1>8 DEF Shifted, Accounts
    <2>5. pg => m["token"] = n["token"]
        BY <1>4, <1>8 DEF Shifted, Share
    <2>6. Resting(pg, y, m)
        BY <1>3, <2>3, <2>4, <2>5, DoubtfulResting
    <2> QED
        BY <1>1, <2>2, <2>3, <2>6, RefusedResting
<1> QED
    BY <1>6, <1>7, <1>8

LEMMA KeepsResSub ==
    ASSUME BillingInv, NEW r \in Requests, ResSub(r)
    PROVE  BillingInv'
<1> DEFINE s == req[r]
           n == net[r]
           pg == user.playground
           j == job[r]
           t == TokenShare(s.need)
           fits == Enough("sub", s.need) /\ (user.playground \/ Enough("token", s.need))
           Z(oc) == CASE oc = "ok" -> {[s EXCEPT !.pre = s.goal, !.fund = s.goal,
                                                 !.tok = TokenShare(s.goal), !.pc = "sent"]}
                      [] oc = "short" -> Refused([s EXCEPT !.code = "short"])
                      [] oc = "err"   -> Refused([s EXCEPT !.code = "error"])
                      [] OTHER -> Refused([s EXCEPT !.code = "error", !.fundingUncertain = TRUE,
                                                    !.tokenUncertain = ~user.playground])
<1>1. SessionTypes /\ s \in Request /\ n \in Amounts /\ pg \in BOOLEAN /\ s.pc = "resSub"
      /\ Sound(pg, s, n, j) /\ j \in Jobs
    BY Here DEF ResSub
<1>2. PICK oc \in SubOutcomes :
          Call(r, [Only("sub", s.need) EXCEPT !.token = t], fits, oc) /\ \E z \in Z(oc) : Put(r, z)
    BY DEF ResSub
<1>3. PICK z \in Z(oc) : Put(r, z)
    BY <1>2
<1>4. s.need \in Int /\ t = Share(pg, s.need) /\ TokenShare(s.goal) = Share(pg, s.goal)
    BY <1>1 DEF Request, TokenShare, Share
<1>5. t \in Int
    BY <1>4 DEF Share
<1>6. /\ balance' \in Amounts /\ faults' \in 0..MaxFaults
      /\ \E m \in Amounts :
           /\ net' = [net EXCEPT ![r] = m]
           /\ IF oc \in {"ok", "late"} THEN Shifted(m, n, 0, s.need, t) ELSE m = n
    <2> HIDE DEF fits, t
    <2> QED
        BY <1>1, <1>2, <1>4, <1>5, PairDoes
<1>7. PICK m \in Amounts : /\ net' = [net EXCEPT ![r] = m]
                           /\ IF oc \in {"ok", "late"} THEN Shifted(m, n, 0, s.need, t) ELSE m = n
    BY <1>6
<1>8. z \in Request /\ Sound(pg, z, m, "none") /\ j = "none"
    <2>1. \/ z = Reserved(s, pg) /\ Shifted(m, n, 0, s.need, Share(pg, s.need))
          \/ \E c \in {"short", "error"} : z \in Refused([s EXCEPT !.code = c]) /\ m = n
          \/ /\ \E y : y = Unsure([s EXCEPT !.code = "error"], pg) /\ z \in Refused(y)
             /\ m = n \/ Shifted(m, n, 0, s.need, Share(pg, s.need))
        <3>1. CASE oc = "ok"
            BY <1>3, <1>4, <1>7, <3>1 DEF Reserved
        <3>2. CASE oc \in {"short", "err"}
            <4> HIDE DEF s, n
            <4> QED
                BY <1>3, <1>7, <3>2
        <3>3. CASE oc \in {"late", "lost"}
            <4> DEFINE y == [s EXCEPT !.code = "error", !.fundingUncertain = TRUE, !.tokenUncertain = ~pg]
            <4>1. y = Unsure([s EXCEPT !.code = "error"], pg)
                <5> HIDE DEF s, pg
                <5> QED
                    BY <1>1 DEF Unsure, Request
            <4>2. z \in Refused(y)
                BY <1>3, <3>3
            <4>3. m = n \/ Shifted(m, n, 0, s.need, Share(pg, s.need))
                BY <1>4, <1>7
            <4> HIDE DEF y, Z, s, n, pg
            <4> QED
                BY <4>1, <4>2, <4>3
        <3> QED
            BY <3>1, <3>2, <3>3 DEF SubOutcomes, Outcomes
    <2> HIDE DEF s, n, pg, j, Z
    <2> QED
        BY <1>1, <2>1, ResSubKeeps
<1> HIDE DEF Z
<1> QED
    BY <1>1, <1>3, <1>6, <1>7, <1>8, HandlerLift DEF ResSub

(***************************************************************************)
(* Settle.                                                                 *)
(***************************************************************************)

(* A session whose settlement was refused, or cannot be told.              *)
LEMMA LoggedSound ==
    ASSUME NEW pg \in BOOLEAN, NEW s \in Request, NEW n \in Amounts, Resting(pg, s, n),
           s.pc \in Ended, s.code = "logged"
    PROVE  Sound(pg, s, n, "none")
<1>1. InPlace(s, "none")
    BY DEF Resting, InPlace, Uncertain
<1>2. Counted(pg, s) /\ NothingLeft(s, "none")
    BY DEF Resting, Counted, Uncertain, NothingLeft, Request
<1>3. TokenBacked(s, n, "none")
    BY DEF Resting, TokenBacked, TokenBook
<1>4. FundBacked(s, n, "none")
    BY DEF Resting, FundBacked, Pays, Spilled, FundBook
<1> QED
    BY <1>1, <1>2, <1>3, <1>4 DEF Sound, Resting

(* A settled session.                                                      *)
Paid(pg, s, n) ==
    /\ s.session /\ s.settled /\ ~s.refunded /\ ~s.fundingUncertain /\ ~s.tokenUncertain
    /\ s.fund = s.goal /\ s.tok = Share(pg, s.goal)
    /\ n["token"] >= s.tok /\ ("token" \notin s.doubt => n["token"] = s.tok)
    /\ \/ /\ s.src = "wallet"
          /\ n["wallet"] >= s.fund /\ ("wallet" \notin s.doubt => n["wallet"] = s.fund)
          /\ n["sub"] >= 0 /\ ("sub" \notin s.doubt => n["sub"] = 0)
       \/ /\ s.src = "sub" /\ "sub" \notin s.doubt
          /\ "wallet" \notin s.doubt => n["wallet"] + n["sub"] = s.fund
    /\ \A a \in Accounts : n[a] >= 0

LEMMA PaidSound ==
    ASSUME NEW pg \in BOOLEAN, NEW s \in Request, NEW n \in Amounts, Paid(pg, s, n), s.pc \in Ended
    PROVE  Sound(pg, s, n, "none")
<1>1. InPlace(s, "none")
    BY DEF Paid, InPlace, Uncertain
<1>2. Counted(pg, s) /\ NothingLeft(s, "none")
    BY DEF Paid, Counted, Uncertain, NothingLeft, Request
<1>3. TokenBacked(s, n, "none")
    BY DEF Paid, TokenBacked, TokenBook
<1>4. FundBacked(s, n, "none")
    BY DEF Paid, FundBacked, Pays, Spilled, FundBook
<1> QED
    BY <1>1, <1>2, <1>3, <1>4 DEF Sound, Paid

LEMMA FinishedIs ==
    ASSUME NEW s \in Request, NEW z \in Finished(s)
    PROVE  /\ z \in Request /\ z.pc \in Ended /\ z.src = s.src /\ SameBooks(z, s)
           /\ z.goal = s.goal
<1>1. PICK p \in {"done", "review"} : z = [s EXCEPT !.pc = p]
    BY DEF Finished
<1>2. p \in Pc
    BY <1>1 DEF Pc
<1> QED
    BY <1>1, <1>2, PcIs

LEMMA FinishedPaid ==
    ASSUME NEW pg \in BOOLEAN, NEW s \in Request, NEW n \in Amounts, Paid(pg, s, n), NEW z \in Finished(s)
    PROVE  z \in Request /\ Sound(pg, z, n, "none")
<1>1. z \in Request /\ z.pc \in Ended /\ z.src = s.src /\ SameBooks(z, s) /\ z.goal = s.goal
    BY FinishedIs
<1>2. Paid(pg, z, n)
    BY <1>1 DEF Paid, SameBooks
<1> QED
    BY <1>1, <1>2, PaidSound

LEMMA UnsettledKeeps ==
    ASSUME NEW pg \in BOOLEAN, NEW s \in Request, NEW n \in Amounts, Resting(pg, s, n)
    PROVE  Unsettled(s) \in Request /\ Sound(pg, Unsettled(s), n, "none")
<1> DEFINE p == IF s.kind = "task" THEN "review" ELSE "done"
           z == [s EXCEPT !.pc = p, !.code = "logged"]
<1>1. p \in Ended /\ p \in Pc
    BY DEF Pc
<1>2. z = Unsettled(s)
    BY DEF Unsettled
<1> HIDE DEF p
<1>3. z \in Request /\ z.pc = p /\ z.code = "logged" /\ z.src = s.src /\ SameBooks(z, s)
    BY <1>1 DEF Request, SameBooks
<1> HIDE DEF z
<1>4. Resting(pg, z, n)
    BY <1>3 DEF Resting, SameBooks
<1> QED
    BY <1>1, <1>2, <1>3, <1>4, LoggedSound

LEMMA SettleKeeps ==
    ASSUME NEW pg \in BOOLEAN, NEW s \in Request, NEW n \in Amounts, NEW j \in Jobs, Sound(pg, s, n, j),
           s.pc = "settle", NEW z,
           \/ ~s.session /\ z \in Finished(s)
           \/ s.session /\ Uncertain(s) /\ z = Unsettled(s)
           \/ s.session /\ ~Uncertain(s) /\ s.src = "sub" /\ z = [s EXCEPT !.pc = "setSub"]
           \/ /\ s.session /\ ~Uncertain(s) /\ s.src # "sub" /\ s.goal = s.pre
              /\ z \in Finished([s EXCEPT !.settled = TRUE])
           \/ /\ s.session /\ ~Uncertain(s) /\ s.src # "sub" /\ s.goal # s.pre
              /\ z = [s EXCEPT !.need = s.goal - s.pre, !.pc = "setFund"]
    PROVE  z \in Request /\ Sound(pg, z, n, "none") /\ j = "none"
<1>0. "setSub" \in Pc /\ "setFund" \in Pc
    BY DEF Pc
<1>1. CASE ~s.session /\ z \in Finished(s)
    <2>1. Unopened(s, n) /\ j = "none"
        BY <1>1, SoundUnopened
    <2>2. z \in Request /\ z.pc \in Ended /\ SameBooks(z, s)
        BY <1>1, FinishedIs
    <2>3. Unopened(z, n)
        BY <2>1, <2>2 DEF Unopened, SameBooks
    <2> QED
        BY <2>1, <2>2, <2>3, UnopenedSound
<1>2. s.session => Resting(pg, s, n) /\ ~s.fundingSettled /\ j = "none"
    BY SoundResting
<1>3. CASE s.session /\ Uncertain(s) /\ z = Unsettled(s)
    BY <1>2, <1>3, UnsettledKeeps
<1>4. CASE s.session /\ ~Uncertain(s) /\ s.src = "sub" /\ z = [s EXCEPT !.pc = "setSub"]
    <2>1. z \in Request /\ z.pc = "setSub" /\ z.src = s.src /\ SameBooks(z, s)
        BY <1>0, <1>4, PcIs
    <2>2. Resting(pg, z, n) /\ ~z.fundingSettled /\ ~z.fundingUncertain /\ ~z.tokenUncertain
        BY <1>2, <1>4, <2>1 DEF Resting, SameBooks, Uncertain
    <2> QED
        BY <1>2, <1>4, <2>1, <2>2, CallingSound
<1>5. CASE /\ s.session /\ ~Uncertain(s) /\ s.src # "sub" /\ s.goal = s.pre
           /\ z \in Finished([s EXCEPT !.settled = TRUE])
    <2> DEFINE y == [s EXCEPT !.settled = TRUE]
    <2>1. /\ y \in Request /\ y.settled /\ y.src = s.src /\ y.goal = s.goal /\ y.session = s.session
          /\ y.refunded = s.refunded /\ y.fundingUncertain = s.fundingUncertain /\ y.doubt = s.doubt
          /\ y.tokenUncertain = s.tokenUncertain /\ y.fund = s.fund /\ y.tok = s.tok
        BY DEF Request
    <2> HIDE DEF y
    <2>2. Paid(pg, y, n)
        BY <1>2, <1>5, <2>1 DEF Resting, Paid, Uncertain
    <2> QED
        BY <1>2, <1>5, <2>1, <2>2, FinishedPaid DEF y
<1>6. CASE /\ s.session /\ ~Uncertain(s) /\ s.src # "sub" /\ s.goal # s.pre
           /\ z = [s EXCEPT !.need = s.goal - s.pre, !.pc = "setFund"]
    <2> DEFINE d == s.goal - s.pre
    <2>1. d \in Int /\ d = s.goal - s.pre
        BY DEF Request
    <2>2. z = [s EXCEPT !.need = d, !.pc = "setFund"]
        BY <1>6
    <2> HIDE DEF d
    <2>3. z \in Request /\ z.pc = "setFund" /\ z.need = d /\ z.goal = s.goal /\ z.src = s.src /\ SameBooks(z, s)
        BY <1>0, <2>1, <2>2 DEF Request, SameBooks
    <2>4. Resting(pg, z, n) /\ ~z.fundingSettled /\ ~z.fundingUncertain /\ ~z.tokenUncertain
          /\ z.src = "wallet" /\ z.need = z.goal - z.pre
        BY <1>2, <1>6, <2>1, <2>3 DEF Resting, SameBooks, Uncertain
    <2> QED
        BY <1>2, <1>6, <2>3, <2>4, CallingSound
<1> QED
    BY <1>1, <1>3, <1>4, <1>5, <1>6

LEMMA KeepsSettle ==
    ASSUME BillingInv, NEW r \in Requests, Settle(r)
    PROVE  BillingInv'
<1> DEFINE s == req[r]
           n == net[r]
           pg == user.playground
           j == job[r]
           Z == CASE ~s.session -> Finished(s)
                  [] s.session /\ Uncertain(s)  -> {Unsettled(s)}
                  [] s.session /\ ~Uncertain(s) /\ s.src = "sub" -> {[s EXCEPT !.pc = "setSub"]}
                  [] OTHER -> IF s.goal = s.pre THEN Finished([s EXCEPT !.settled = TRUE])
                              ELSE {[s EXCEPT !.need = s.goal - s.pre, !.pc = "setFund"]}
<1>1. SessionTypes /\ s \in Request /\ n \in Amounts /\ pg \in BOOLEAN /\ s.pc = "settle"
      /\ Sound(pg, s, n, j) /\ j \in Jobs
    BY Here DEF Settle
<1>2. PICK z \in Z : Put(r, z)
    BY DEF Settle
<1>3. \/ ~s.session /\ z \in Finished(s)
      \/ s.session /\ Uncertain(s) /\ z = Unsettled(s)
      \/ s.session /\ ~Uncertain(s) /\ s.src = "sub" /\ z = [s EXCEPT !.pc = "setSub"]
      \/ /\ s.session /\ ~Uncertain(s) /\ s.src # "sub" /\ s.goal = s.pre
         /\ z \in Finished([s EXCEPT !.settled = TRUE])
      \/ /\ s.session /\ ~Uncertain(s) /\ s.src # "sub" /\ s.goal # s.pre
         /\ z = [s EXCEPT !.need = s.goal - s.pre, !.pc = "setFund"]
    <2> HIDE DEF s
    <2>1. CASE ~s.session
        BY <1>2, <2>1
    <2>2. CASE s.session /\ Uncertain(s)
        BY <1>2, <2>2
    <2>3. CASE s.session /\ ~Uncertain(s) /\ s.src = "sub"
        BY <1>2, <2>3
    <2>4. CASE s.session /\ ~Uncertain(s) /\ s.src # "sub"
        BY <1>2, <2>4
    <2> QED
        BY <2>1, <2>2, <2>3, <2>4
<1>4. z \in Request /\ Sound(pg, z, n, "none") /\ j = "none"
    <2> HIDE DEF s, n, pg, j, Z
    <2> QED
        BY <1>1, <1>3, SettleKeeps
<1> HIDE DEF Z
<1> QED
    BY <1>1, <1>2, <1>4, QuietLift DEF Settle

(* The funding stage of a settlement has been applied.                     *)
Staged(pg, s, n) ==
    /\ s.session /\ s.src = "wallet" /\ ~s.settled /\ ~s.refunded /\ ~s.fundingSettled
    /\ ~s.fundingUncertain /\ s.need = s.goal - s.pre /\ s.fund >= s.need
    /\ ~s.tokenUncertain => s.tok = Share(pg, s.pre) /\ s.fund = s.goal /\ s.held = s.pre
    /\ ~s.tokenUncertain => n["token"] >= s.tok /\ ("token" \notin s.doubt => n["token"] = s.tok)
    /\ n["wallet"] >= s.fund /\ ("wallet" \notin s.doubt => n["wallet"] = s.fund)
    /\ "sub" \notin s.doubt => n["sub"] = 0
    /\ \A a \in Accounts : n[a] >= 0

LEMMA StagedSound ==
    ASSUME NEW pg \in BOOLEAN, NEW s \in Request, NEW n \in Amounts, Staged(pg, s, n),
           s.pc \in Settling, s.pc = "setTok" <=> ~s.tokenUncertain
    PROVE  Sound(pg, s, n, "none")
<1>1. InPlace(s, "none")
    BY DEF Staged, InPlace, Uncertain
<1>2. s.pre \in Nat /\ s.fund \in Nat /\ s.held \in Nat /\ s.need \in Int /\ s.goal \in Nat
    BY DEF Request
<1>3. Counted(pg, s) /\ NothingLeft(s, "none")
    BY <1>2 DEF Staged, Counted, Uncertain, NothingLeft
<1>4. TokenBacked(s, n, "none")
    BY DEF Staged, TokenBacked, TokenBook
<1>5. FundBacked(s, n, "none")
    BY DEF Staged, FundBacked, Pays, Spilled, FundBook, Accounts
<1> QED
    BY <1>1, <1>3, <1>4, <1>5 DEF Sound, Staged

LEMMA SoundStaged ==
    ASSUME NEW pg \in BOOLEAN, NEW s \in Request, NEW n \in Amounts, NEW j \in Jobs,
           Sound(pg, s, n, j), s.pc \in Settling
    PROVE  Staged(pg, s, n) /\ j = "none" /\ (s.pc = "setTok" <=> ~s.tokenUncertain)
<1>1. /\ s.session /\ s.src = "wallet" /\ ~s.settled /\ ~s.refunded /\ ~s.fundingSettled
      /\ ~s.fundingUncertain /\ j = "none" /\ (s.pc = "setTok" <=> ~s.tokenUncertain)
    BY DEF Sound, InPlace
<1>2. s.pre \in Nat /\ s.fund \in Nat /\ s.held \in Nat /\ s.need \in Int /\ s.goal \in Nat
    BY DEF Request
<1>3. /\ s.need = s.goal - s.pre /\ s.fund >= s.need
      /\ ~s.tokenUncertain => s.tok = Share(pg, s.pre) /\ s.fund = s.goal /\ s.held = s.pre
    BY <1>1, <1>2 DEF Sound, Counted, Uncertain
<1>4. ~s.tokenUncertain => n["token"] >= s.tok /\ ("token" \notin s.doubt => n["token"] = s.tok)
    BY <1>1 DEF Sound, TokenBacked, TokenBook
<1>5. /\ n["wallet"] >= s.fund /\ ("wallet" \notin s.doubt => n["wallet"] = s.fund)
      /\ "sub" \notin s.doubt => n["sub"] = 0
    BY <1>1 DEF Sound, FundBacked, Pays, Spilled, FundBook
<1> QED
    BY <1>1, <1>3, <1>4, <1>5 DEF Staged, Sound

LEMMA SetFundKeeps ==
    ASSUME NEW pg \in BOOLEAN, NEW s \in Request, NEW n \in Amounts, NEW m \in Amounts, NEW j \in Jobs,
           Sound(pg, s, n, j), s.pc = "setFund", NEW z,
           \/ z = [s EXCEPT !.fund = @ + s.need, !.pc = "setTok"] /\ Moved(m, n, "wallet", s.need)
           \/ /\ z = Unsettled([s EXCEPT !.fundingUncertain = TRUE])
              /\ m = n \/ Moved(m, n, "wallet", s.need)
    PROVE  z \in Request /\ Sound(pg, z, m, "none") /\ j = "none"
<1>1. Resting(pg, s, n) /\ ~s.fundingSettled /\ j = "none"
    <2>1. s.session
        BY DEF Sound, InPlace
    <2> QED
        BY <2>1, SoundResting
<1>2. /\ s.src = "wallet" /\ ~s.fundingUncertain /\ ~s.tokenUncertain
      /\ s.need = s.goal - s.pre /\ s.pre \in Nat /\ s.need \in Int /\ s.goal \in Nat
    BY DEF Sound, InPlace, Counted, Request
<1>3. /\ s.session /\ ~s.settled /\ ~s.refunded /\ s.tok = Share(pg, s.pre) /\ s.fund = s.pre
      /\ s.held = s.pre /\ n["token"] >= s.tok /\ ("token" \notin s.doubt => n["token"] = s.tok)
      /\ n["wallet"] >= s.fund /\ ("wallet" \notin s.doubt => n["wallet"] = s.fund)
      /\ n["sub"] >= 0 /\ ("sub" \notin s.doubt => n["sub"] = 0)
    BY <1>1, <1>2 DEF Resting
<1>4. n["wallet"] \in Int /\ n["token"] \in Int /\ s.tok \in Nat
    BY DEF Amounts, Accounts, Request
<1>5. /\ m["token"] = n["token"] /\ m["sub"] = n["sub"]
      /\ m["wallet"] = n["wallet"] \/ m["wallet"] = n["wallet"] + s.need
    BY DEF Moved, Accounts
<1>6. \A a \in Accounts : m[a] >= 0
    BY <1>2, <1>3, <1>4, <1>5 DEF Accounts
<1>7. CASE z = [s EXCEPT !.fund = @ + s.need, !.pc = "setTok"] /\ Moved(m, n, "wallet", s.need)
    <2> DEFINE f == s.fund + s.need
    <2>1. f \in Nat /\ f = s.goal /\ f >= s.need /\ "setTok" \in Pc
        BY <1>2, <1>3 DEF Pc
    <2>2. z = [s EXCEPT !.fund = f, !.pc = "setTok"]
        BY <1>7
    <2>3. m["wallet"] >= f /\ ("wallet" \notin s.doubt => m["wallet"] = f)
        BY <1>2, <1>3, <1>4, <1>7 DEF Moved
    <2> HIDE DEF f
    <2>4. /\ z \in Request /\ z.pc = "setTok" /\ z.fund = f /\ z.src = s.src /\ z.need = s.need
          /\ z.goal = s.goal /\ z.pre = s.pre /\ z.held = s.held /\ z.tok = s.tok
          /\ z.doubt = s.doubt /\ z.session /\ ~z.settled /\ ~z.refunded /\ ~z.fundingSettled
          /\ ~z.fundingUncertain /\ ~z.tokenUncertain
        BY <1>1, <1>2, <1>3, <2>1, <2>2 DEF Request
    <2>5. Staged(pg, z, m)
        BY <1>2, <1>3, <1>5, <1>6, <2>1, <2>3, <2>4 DEF Staged
    <2> QED
        BY <1>1, <2>4, <2>5, StagedSound
<1>8. CASE z = Unsettled([s EXCEPT !.fundingUncertain = TRUE])
    <2> DEFINE y == [s EXCEPT !.fundingUncertain = TRUE]
    <2>1. /\ y \in Request /\ y.src = s.src /\ y.tok = s.tok /\ y.doubt = s.doubt
          /\ y.session /\ ~y.settled /\ ~y.refunded /\ y.fundingUncertain
        BY <1>3 DEF Request
    <2> HIDE DEF y
    <2>2. Resting(pg, y, m)
        BY <1>2, <1>3, <1>5, <1>6, <2>1, DoubtfulResting
    <2> QED
        BY <1>1, <1>8, <2>1, <2>2, UnsettledKeeps DEF y
<1> QED
    BY <1>7, <1>8

LEMMA KeepsSetFund ==
    ASSUME BillingInv, NEW r \in Requests, SetFund(r)
    PROVE  BillingInv'
<1> DEFINE s == req[r]
           n == net[r]
           pg == user.playground
           j == job[r]
           Z(oc) == IF oc = "ok" THEN [s EXCEPT !.fund = @ + s.need, !.pc = "setTok"]
                    ELSE Unsettled([s EXCEPT !.fundingUncertain = TRUE])
<1>1. SessionTypes /\ s \in Request /\ n \in Amounts /\ pg \in BOOLEAN /\ s.pc = "setFund"
      /\ Sound(pg, s, n, j) /\ j \in Jobs
    BY Here DEF SetFund
<1>2. PICK oc \in Outcomes : Adjust(r, "wallet", s.need, oc) /\ Put(r, Z(oc))
    BY DEF SetFund
<1>3. "wallet" \in Accounts /\ s.need \in Int
    BY <1>1 DEF Accounts, Request
<1>4. /\ balance' \in Amounts /\ faults' \in 0..MaxFaults
      /\ \E m \in Amounts :
           /\ net' = [net EXCEPT ![r] = m]
           /\ IF oc \in {"ok", "late"} THEN Moved(m, n, "wallet", s.need) ELSE m = n
    BY <1>1, <1>2, <1>3, AdjustDoes
<1>5. PICK m \in Amounts : /\ net' = [net EXCEPT ![r] = m]
                           /\ IF oc \in {"ok", "late"} THEN Moved(m, n, "wallet", s.need) ELSE m = n
    BY <1>4
<1>6. Z(oc) \in Request /\ Sound(pg, Z(oc), m, "none") /\ j = "none"
    <2> DEFINE z == Z(oc)
    <2>1. \/ z = [s EXCEPT !.fund = @ + s.need, !.pc = "setTok"] /\ Moved(m, n, "wallet", s.need)
          \/ /\ z = Unsettled([s EXCEPT !.fundingUncertain = TRUE])
             /\ m = n \/ Moved(m, n, "wallet", s.need)
        <3> HIDE DEF s, n
        <3> QED
            BY <1>5
    <2> HIDE DEF s, n, pg, j, Z, z
    <2>2. z \in Request /\ Sound(pg, z, m, "none") /\ j = "none"
        BY <1>1, <2>1, SetFundKeeps
    <2> QED
        BY <2>2 DEF z
<1> HIDE DEF Z
<1> QED
    BY <1>1, <1>2, <1>4, <1>5, <1>6, HandlerLift DEF SetFund

TokenPaid(s, t) == [s EXCEPT !.tok = @ + t, !.settled = TRUE, !.fundingSettled = TRUE]

TokenUnsure(s) == [s EXCEPT !.tokenUncertain = TRUE, !.pc = "setBack"]

LEMMA SetTokKeeps ==
    ASSUME NEW pg \in BOOLEAN, NEW s \in Request, NEW n \in Amounts, NEW m \in Amounts, NEW j \in Jobs,
           Sound(pg, s, n, j), s.pc = "setTok", NEW t, t = Share(pg, s.need), NEW z,
           \/ /\ z \in Finished(TokenPaid(s, t))
              /\ Moved(m, n, "token", t)
           \/ /\ z = TokenUnsure(s)
              /\ m = n \/ Moved(m, n, "token", t)
    PROVE  z \in Request /\ Sound(pg, z, m, "none") /\ j = "none"
<1>1. Staged(pg, s, n) /\ j = "none" /\ ~s.tokenUncertain
    BY SoundStaged
<1>2. /\ s.pre \in Nat /\ s.need \in Int /\ s.goal \in Nat /\ s.need = s.goal - s.pre
      /\ s.tok \in Nat /\ s.tok = Share(pg, s.pre) /\ s.fund = s.goal
    BY <1>1 DEF Staged, Request
<1>3. t \in Int /\ Share(pg, s.goal) = s.tok + t /\ s.tok + t \in Nat
    <2>1. s.goal = s.pre + s.need
        BY <1>2
    <2> QED
        BY <1>2, <2>1, ShareAdds DEF Share
<1>4. n["wallet"] \in Int /\ n["token"] \in Int /\ n["sub"] \in Int
    BY DEF Amounts, Accounts
<1>5. /\ s.session /\ s.src = "wallet" /\ ~s.settled /\ ~s.refunded /\ ~s.fundingSettled
      /\ ~s.fundingUncertain
      /\ n["token"] >= s.tok /\ ("token" \notin s.doubt => n["token"] = s.tok)
      /\ n["wallet"] >= s.fund /\ ("wallet" \notin s.doubt => n["wallet"] = s.fund)
      /\ n["sub"] >= 0 /\ ("sub" \notin s.doubt => n["sub"] = 0) /\ n["wallet"] >= 0
    BY <1>1 DEF Staged, Accounts
<1>6. /\ m["wallet"] = n["wallet"] /\ m["sub"] = n["sub"]
      /\ m["token"] = n["token"] \/ m["token"] = n["token"] + t
    BY DEF Moved, Accounts
<1>7. \A a \in Accounts : m[a] >= 0
    BY <1>2, <1>3, <1>4, <1>5, <1>6 DEF Accounts
<1>8. CASE /\ z \in Finished(TokenPaid(s, t))
           /\ Moved(m, n, "token", t)
    <2> DEFINE k == s.tok + t
               y == [s EXCEPT !.tok = k, !.settled = TRUE, !.fundingSettled = TRUE]
    <2>1. k \in Nat /\ k = Share(pg, s.goal)
        BY <1>3
    <2>2. z \in Finished(y)
        BY <1>8 DEF TokenPaid
    <2>3. m["token"] >= k /\ ("token" \notin s.doubt => m["token"] = k)
        BY <1>2, <1>3, <1>4, <1>5, <1>8 DEF Moved
    <2> HIDE DEF k
    <2>4. /\ y \in Request /\ y.tok = k /\ y.settled /\ y.src = s.src /\ y.goal = s.goal /\ y.session
          /\ ~y.refunded /\ ~y.fundingUncertain /\ y.doubt = s.doubt
          /\ ~y.tokenUncertain /\ y.fund = s.fund
        BY <1>1, <1>5, <2>1 DEF Request
    <2> HIDE DEF y
    <2>5. Paid(pg, y, m)
        BY <1>2, <1>5, <1>6, <1>7, <2>1, <2>3, <2>4 DEF Paid
    <2> QED
        BY <1>1, <2>2, <2>4, <2>5, FinishedPaid
<1>9. CASE z = TokenUnsure(s)
    <2>1. "setBack" \in Pc
        BY DEF Pc
    <2>2. /\ z \in Request /\ z.pc = "setBack" /\ z.fund = s.fund /\ z.src = s.src /\ z.need = s.need
          /\ z.goal = s.goal /\ z.pre = s.pre
          /\ z.doubt = s.doubt /\ z.session /\ ~z.settled /\ ~z.refunded /\ ~z.fundingSettled
          /\ ~z.fundingUncertain /\ z.tokenUncertain
        BY <1>5, <1>9, <2>1 DEF Request, TokenUnsure
    <2>3. Staged(pg, z, m)
        BY <1>1, <1>6, <1>7, <2>2 DEF Staged
    <2> QED
        BY <1>1, <2>2, <2>3, StagedSound
<1> QED
    BY <1>8, <1>9

LEMMA KeepsSetTok ==
    ASSUME BillingInv, NEW r \in Requests, SetTok(r)
    PROVE  BillingInv'
<1> DEFINE s == req[r]
           n == net[r]
           pg == user.playground
           j == job[r]
           t == TokenShare(s.need)
           Z(oc) == IF oc = "ok"
                    THEN Finished(TokenPaid(s, t))
                    ELSE {TokenUnsure(s)}
<1>1. SessionTypes /\ s \in Request /\ n \in Amounts /\ pg \in BOOLEAN /\ s.pc = "setTok"
      /\ Sound(pg, s, n, j) /\ j \in Jobs
    BY Here DEF SetTok
<1>2. PICK oc \in Outcomes :
          /\ IF t = 0 THEN oc = "ok" /\ Quiet ELSE Adjust(r, "token", t, oc)
          /\ \E z \in Z(oc) : Put(r, z)
    BY DEF SetTok, TokenPaid, TokenUnsure
<1>z. PICK z \in Z(oc) : Put(r, z)
    BY <1>2
<1>3. "token" \in Accounts /\ s.need \in Int /\ t = Share(pg, s.need)
    BY <1>1 DEF Accounts, Request, TokenShare, Share
<1>4. t \in Int
    BY <1>3 DEF Share
<1>5. /\ balance' \in Amounts /\ faults' \in 0..MaxFaults
      /\ \E m \in Amounts :
           /\ net' = [net EXCEPT ![r] = m]
           /\ IF oc \in {"ok", "late"} THEN Moved(m, n, "token", t) ELSE m = n
    <2>1. CASE t = 0
        <3>1. balance' \in Amounts /\ faults' \in 0..MaxFaults /\ net' = [net EXCEPT ![r] = n] /\ oc = "ok"
            BY <1>1, <1>2, <2>1, QuietDoes
        <3>2. Moved(n, n, "token", t)
            BY <1>1, <2>1 DEF Moved, Amounts, Accounts
        <3> QED
            BY <1>1, <3>1, <3>2
    <2>2. CASE t # 0
        <3>1. Adjust(r, "token", t, oc)
            BY <1>2, <2>2
        <3> HIDE DEF t
        <3> QED
            BY <1>1, <1>3, <1>4, <3>1, AdjustDoes
    <2> QED
        BY <2>1, <2>2
<1>6. PICK m \in Amounts : /\ net' = [net EXCEPT ![r] = m]
                           /\ IF oc \in {"ok", "late"} THEN Moved(m, n, "token", t) ELSE m = n
    BY <1>5
<1>7. z \in Request /\ Sound(pg, z, m, "none") /\ j = "none"
    <2>1. \/ /\ z \in Finished(TokenPaid(s, t))
             /\ Moved(m, n, "token", t)
          \/ /\ z = TokenUnsure(s)
             /\ m = n \/ Moved(m, n, "token", t)
        <3> HIDE DEF s, n, t
        <3> QED
            BY <1>z, <1>6
    <2> HIDE DEF s, n, pg, j, t, Z
    <2> QED
        BY <1>1, <1>3, <2>1, SetTokKeeps
<1> HIDE DEF Z
<1> QED
    BY <1>1, <1>z, <1>5, <1>6, <1>7, HandlerLift DEF SetTok

LEMMA SetBackKeeps ==
    ASSUME NEW pg \in BOOLEAN, NEW s \in Request, NEW n \in Amounts, NEW m \in Amounts, NEW j \in Jobs,
           Sound(pg, s, n, j), s.pc = "setBack", NEW z,
           \/ z = Unsettled([s EXCEPT !.fund = @ - s.need]) /\ Moved(m, n, "wallet", -s.need)
           \/ /\ z = Unsettled([s EXCEPT !.fundingUncertain = TRUE, !.fundingSettled = TRUE])
              /\ m = n \/ Moved(m, n, "wallet", -s.need)
    PROVE  z \in Request /\ Sound(pg, z, m, "none") /\ j = "none"
<1>1. Staged(pg, s, n) /\ j = "none" /\ s.tokenUncertain
    BY SoundStaged
<1>2. s.need \in Int /\ s.fund \in Nat /\ s.fund >= s.need
    BY <1>1 DEF Staged, Request
<1>3. n["wallet"] \in Int /\ n["token"] \in Int /\ n["sub"] \in Int
    BY DEF Amounts, Accounts
<1>4. /\ s.session /\ s.src = "wallet" /\ ~s.settled /\ ~s.refunded
      /\ n["wallet"] >= s.fund /\ ("wallet" \notin s.doubt => n["wallet"] = s.fund)
      /\ n["sub"] >= 0 /\ ("sub" \notin s.doubt => n["sub"] = 0) /\ n["token"] >= 0
      /\ ~s.fundingUncertain
    BY <1>1 DEF Staged, Accounts
<1>5. /\ m["token"] = n["token"] /\ m["sub"] = n["sub"]
      /\ m["wallet"] = n["wallet"] \/ m["wallet"] = n["wallet"] + (-s.need)
    BY DEF Moved, Accounts
<1>6. \A a \in Accounts : m[a] >= 0
    BY <1>2, <1>3, <1>4, <1>5 DEF Accounts
<1>7. CASE z = Unsettled([s EXCEPT !.fund = @ - s.need]) /\ Moved(m, n, "wallet", -s.need)
    <2> DEFINE f == s.fund - s.need
               y == [s EXCEPT !.fund = f]
    <2>1. f \in Nat /\ m["wallet"] >= f /\ ("wallet" \notin s.doubt => m["wallet"] = f)
        BY <1>2, <1>3, <1>4, <1>7 DEF Moved
    <2>2. z = Unsettled(y)
        BY <1>7
    <2> HIDE DEF f
    <2>3. /\ y \in Request /\ y.fund = f /\ y.src = s.src /\ y.doubt = s.doubt
          /\ y.session /\ ~y.settled /\ ~y.refunded /\ y.tokenUncertain
        BY <1>1, <1>4, <2>1 DEF Request
    <2> HIDE DEF y
    <2>4. Resting(pg, y, m)
        BY <1>4, <1>5, <1>6, <2>1, <2>3 DEF Resting
    <2> QED
        BY <1>1, <2>2, <2>3, <2>4, UnsettledKeeps
<1>8. CASE z = Unsettled([s EXCEPT !.fundingUncertain = TRUE, !.fundingSettled = TRUE])
    <2> DEFINE y == [s EXCEPT !.fundingUncertain = TRUE, !.fundingSettled = TRUE]
    <2>1. /\ y \in Request /\ y.src = s.src /\ y.session /\ ~y.settled /\ ~y.refunded
          /\ y.fundingUncertain /\ y.tokenUncertain
        BY <1>1, <1>4 DEF Request
    <2> HIDE DEF y
    <2>2. Resting(pg, y, m)
        BY <1>4, <1>6, <2>1, DoubtfulResting
    <2> QED
        BY <1>1, <1>8, <2>1, <2>2, UnsettledKeeps DEF y
<1> QED
    BY <1>7, <1>8

LEMMA KeepsSetBack ==
    ASSUME BillingInv, NEW r \in Requests, SetBack(r)
    PROVE  BillingInv'
<1> DEFINE s == req[r]
           n == net[r]
           pg == user.playground
           j == job[r]
           Z(oc) == Unsettled(IF oc = "ok" THEN [s EXCEPT !.fund = @ - s.need]
                              ELSE [s EXCEPT !.fundingUncertain = TRUE, !.fundingSettled = TRUE])
<1>1. SessionTypes /\ s \in Request /\ n \in Amounts /\ pg \in BOOLEAN /\ s.pc = "setBack"
      /\ Sound(pg, s, n, j) /\ j \in Jobs
    BY Here DEF SetBack
<1>2. PICK oc \in Outcomes : Adjust(r, "wallet", -s.need, oc) /\ Put(r, Z(oc))
    BY DEF SetBack
<1>3. "wallet" \in Accounts /\ -s.need \in Int
    BY <1>1 DEF Accounts, Request
<1>4. /\ balance' \in Amounts /\ faults' \in 0..MaxFaults
      /\ \E m \in Amounts :
           /\ net' = [net EXCEPT ![r] = m]
           /\ IF oc \in {"ok", "late"} THEN Moved(m, n, "wallet", -s.need) ELSE m = n
    BY <1>1, <1>2, <1>3, AdjustDoes
<1>5. PICK m \in Amounts : /\ net' = [net EXCEPT ![r] = m]
                           /\ IF oc \in {"ok", "late"} THEN Moved(m, n, "wallet", -s.need) ELSE m = n
    BY <1>4
<1>6. Z(oc) \in Request /\ Sound(pg, Z(oc), m, "none") /\ j = "none"
    <2> DEFINE z == Z(oc)
    <2>1. \/ z = Unsettled([s EXCEPT !.fund = @ - s.need]) /\ Moved(m, n, "wallet", -s.need)
          \/ /\ z = Unsettled([s EXCEPT !.fundingUncertain = TRUE, !.fundingSettled = TRUE])
             /\ m = n \/ Moved(m, n, "wallet", -s.need)
        <3> HIDE DEF s, n
        <3> QED
            BY <1>5
    <2> HIDE DEF s, n, pg, j, Z, z
    <2>2. z \in Request /\ Sound(pg, z, m, "none") /\ j = "none"
        BY <1>1, <2>1, SetBackKeeps
    <2> QED
        BY <2>2 DEF z
<1> HIDE DEF Z
<1> QED
    BY <1>1, <1>2, <1>4, <1>5, <1>6, HandlerLift DEF SetBack

SubPaid(s, pg) == [s EXCEPT !.fund = s.goal, !.tok = Share(pg, s.goal),
                            !.settled = TRUE, !.fundingSettled = TRUE]

LEMMA SetSubKeeps ==
    ASSUME NEW pg \in BOOLEAN, NEW s \in Request, NEW n \in Amounts, NEW m \in Amounts, NEW j \in Jobs,
           Sound(pg, s, n, j), s.pc = "setSub", NEW w \in Nat, NEW u \in Int,
           w + u = s.goal - s.pre, w > 0 => u >= 0, NEW z,
           \/ z \in Finished(SubPaid(s, pg)) /\ Shifted(m, n, w, u, Share(pg, s.goal) - s.tok)
           \/ /\ z = Unsettled(Unsure(s, pg))
              /\ m = n \/ Shifted(m, n, w, u, Share(pg, s.goal) - s.tok)
           \/ z = Unsettled(s) /\ m = n
    PROVE  z \in Request /\ Sound(pg, z, m, "none") /\ j = "none"
<1>1. Resting(pg, s, n) /\ ~s.fundingSettled /\ j = "none" /\ s.session
    <2>1. s.session
        BY DEF Sound, InPlace
    <2> QED
        BY <2>1, SoundResting
<1>2. /\ s.src = "sub" /\ ~s.fundingUncertain /\ ~s.tokenUncertain
      /\ s.pre \in Nat /\ s.goal \in Nat /\ s.tok \in Nat
    BY DEF Sound, InPlace, Request
<1>3. /\ ~s.settled /\ ~s.refunded /\ s.tok = Share(pg, s.pre) /\ s.fund = s.pre
      /\ n["token"] >= s.tok /\ ("token" \notin s.doubt => n["token"] = s.tok)
      /\ n["wallet"] >= 0 /\ ("wallet" \notin s.doubt => n["wallet"] = 0)
      /\ n["sub"] = s.fund /\ "sub" \notin s.doubt
    BY <1>1, <1>2 DEF Resting
<1>4. n["wallet"] \in Int /\ n["token"] \in Int /\ n["sub"] \in Int
    BY DEF Amounts, Accounts
<1>5. Share(pg, s.goal) \in Nat /\ (pg => Share(pg, s.goal) = 0 /\ s.tok = 0)
    BY <1>2, <1>3 DEF Share
<1> DEFINE k == Share(pg, s.goal)
<1>6. Shifted(m, n, w, u, k - s.tok) =>
        /\ m["token"] >= k /\ ("token" \notin s.doubt => m["token"] = k)
        /\ m["wallet"] >= 0 /\ m["sub"] >= 0
        /\ "wallet" \notin s.doubt => m["wallet"] + m["sub"] = s.goal
        /\ pg => m["token"] = n["token"]
    <2>1. k \in Nat /\ (pg => k = 0 /\ s.tok = 0)
        BY <1>5
    <2> HIDE DEF k
    <2> QED
        BY <1>2, <1>3, <1>4, <2>1 DEF Shifted
<1>7. m = n \/ Shifted(m, n, w, u, k - s.tok) => \A a \in Accounts : m[a] >= 0
    <2>1. Shifted(m, n, w, u, k - s.tok) => m["token"] >= 0
        <3>1. k \in Nat /\ m["token"] \in Int
            BY <1>5 DEF Amounts, Accounts
        <3> HIDE DEF k
        <3> QED
            BY <1>6, <3>1
    <2>2. n["token"] >= 0 /\ n["sub"] >= 0
        BY <1>2, <1>3, <1>4
    <2> QED
        BY <1>3, <1>6, <2>1, <2>2 DEF Accounts
<1>8. CASE z \in Finished(SubPaid(s, pg)) /\ Shifted(m, n, w, u, k - s.tok)
    <2> DEFINE g == s.goal
               y == [s EXCEPT !.fund = g, !.tok = k, !.settled = TRUE, !.fundingSettled = TRUE]
    <2>1. g \in Nat /\ k \in Nat /\ k = Share(pg, g)
        BY <1>2, <1>5
    <2>2. z \in Finished(y)
        BY <1>8 DEF SubPaid
    <2>3. y.goal = g
        BY DEF Request
    <2> HIDE DEF g, k
    <2>4. /\ y \in Request /\ y.tok = k /\ y.settled /\ y.src = s.src /\ y.session
          /\ ~y.refunded /\ ~y.fundingUncertain /\ y.doubt = s.doubt
          /\ ~y.tokenUncertain /\ y.fund = g
        BY <1>1, <1>2, <1>3, <2>1 DEF Request
    <2> HIDE DEF y
    <2>5. Paid(pg, y, m)
        BY <1>2, <1>3, <1>6, <1>7, <1>8, <2>1, <2>3, <2>4 DEF Paid, g
    <2> QED
        BY <1>1, <2>2, <2>4, <2>5, FinishedPaid
<1>9. CASE z = Unsettled(Unsure(s, pg)) /\ (m = n \/ Shifted(m, n, w, u, k - s.tok))
    <2> DEFINE y == Unsure(s, pg)
    <2>a. y = Unsure(s, pg)
        OBVIOUS
    <2> HIDE DEF y
    <2>b. /\ y \in Request /\ y.src = s.src /\ y.tok = s.tok
          /\ y.doubt = s.doubt /\ y.session = s.session
          /\ y.settled = s.settled /\ y.refunded = s.refunded
          /\ y.fundingUncertain /\ y.tokenUncertain = ~pg
        BY <2>a, UnsureIs, Zenon
    <2>1. /\ y \in Request /\ y.src = "sub" /\ y.tok = s.tok /\ y.doubt = s.doubt
          /\ y.session /\ ~y.settled /\ ~y.refunded
          /\ y.fundingUncertain /\ (y.tokenUncertain <=> ~pg)
        BY <1>1, <1>2, <1>3, <2>b
    <2>2. pg => m["token"] = n["token"]
        BY <1>6, <1>9
    <2>3. Resting(pg, y, m)
        BY <1>3, <1>7, <1>9, <2>1, <2>2, DoubtfulResting
    <2> QED
        BY <1>1, <1>9, <2>1, <2>3, UnsettledKeeps DEF y
<1>10. CASE z = Unsettled(s) /\ m = n
    BY <1>1, <1>10, UnsettledKeeps
<1> QED
    BY <1>8, <1>9, <1>10

LEMMA KeepsSetSub ==
    ASSUME BillingInv, NEW r \in Requests, SetSub(r)
    PROVE  BillingInv'
<1> DEFINE s == req[r]
           n == net[r]
           pg == user.playground
           j == job[r]
           delta == s.goal - s.pre
           room == IF balance["sub"] > 0 THEN balance["sub"] ELSE 0
           part == IF delta > room THEN delta - room ELSE 0
           t == TokenShare(s.goal) - s.tok
           take == [wallet |-> part, sub |-> delta - part, token |-> t]
           fits == part = 0 \/ (s.kind = "text" /\ user.pref # "subscription_only" /\ user.overflow)
           Z(oc) == CASE oc = "ok" -> Finished(SubPaid(s, pg))
                      [] oc \in Unknown -> {Unsettled(Unsure(s, pg))}
                      [] OTHER -> {Unsettled(s)}
<1>1. SessionTypes /\ s \in Request /\ n \in Amounts /\ pg \in BOOLEAN /\ s.pc = "setSub"
      /\ Sound(pg, s, n, j) /\ j \in Jobs /\ balance \in Amounts
    BY Here DEF SetSub
<1>2. TokenShare(s.goal) = Share(pg, s.goal)
    BY DEF TokenShare, Share
<1>3. PICK oc \in SubOutcomes : Call(r, take, fits, oc) /\ \E z \in Z(oc) : Put(r, z)
    BY <1>2 DEF SetSub, SubPaid, Unsure
<1>4. PICK z \in Z(oc) : Put(r, z)
    BY <1>3
<1>5. delta \in Int /\ s.tok \in Nat /\ s.goal \in Nat /\ balance["sub"] \in Int
    BY <1>1 DEF Request, Amounts, Accounts
<1>6. t \in Int /\ t = Share(pg, s.goal) - s.tok
    BY <1>2, <1>5 DEF Share
<1>7. /\ part \in Nat /\ delta - part \in Int /\ part + (delta - part) = s.goal - s.pre
      /\ part > 0 => delta - part >= 0
    <2>1. delta = s.goal - s.pre
        OBVIOUS
    <2> HIDE DEF delta
    <2>2. room \in Nat
        BY <1>5
    <2> HIDE DEF room
    <2>3. /\ part \in Nat /\ delta - part \in Int /\ part + (delta - part) = delta
          /\ part > 0 => delta - part >= 0
        BY <1>5, <2>2
    <2> HIDE DEF part
    <2> QED
        BY <2>1, <2>3
<1> DEFINE u == delta - part
<1>8. take \in Amounts /\ take["wallet"] = part /\ take["sub"] = u /\ take["token"] = t
    <2>1. part \in Int /\ u \in Int /\ t \in Int
        BY <1>6, <1>7
    <2>2. take = [wallet |-> part, sub |-> u, token |-> t]
        OBVIOUS
    <2> HIDE DEF part, u, t, take
    <2>3. take \in [{"wallet", "sub", "token"} -> Int]
        BY <2>1, <2>2
    <2>4. Accounts = {"wallet", "sub", "token"}
        BY DEF Accounts
    <2> QED
        BY <2>2, <2>3, <2>4 DEF Amounts
<1>9. /\ balance' \in Amounts /\ faults' \in 0..MaxFaults
      /\ \E m \in Amounts :
           /\ net' = [net EXCEPT ![r] = m]
           /\ IF oc \in {"ok", "late"} THEN Shifted(m, n, part, u, t) ELSE m = n
    <2> HIDE DEF take, fits, part, u, t
    <2>1. /\ balance' \in Amounts /\ faults' \in 0..MaxFaults
          /\ \E m \in Amounts :
               /\ net' = [net EXCEPT ![r] = m]
               /\ IF oc \in {"ok", "late"}
                  THEN Shifted(m, net[r], take["wallet"], take["sub"], take["token"])
                  ELSE m = net[r]
        BY <1>1, <1>3, <1>8, ShiftDoes
    <2> QED
        BY <1>8, <2>1
<1>10. PICK m \in Amounts : /\ net' = [net EXCEPT ![r] = m]
                            /\ IF oc \in {"ok", "late"} THEN Shifted(m, n, part, u, t) ELSE m = n
    BY <1>9
<1>11. z \in Request /\ Sound(pg, z, m, "none") /\ j = "none"
    <2>1. \/ z \in Finished(SubPaid(s, pg)) /\ Shifted(m, n, part, u, t)
          \/ z = Unsettled(Unsure(s, pg)) /\ (m = n \/ Shifted(m, n, part, u, t))
          \/ z = Unsettled(s) /\ m = n
        <3> HIDE DEF s, n, pg, part, u, t
        <3> QED
            BY <1>4, <1>10 DEF SubOutcomes, Outcomes, Unknown
    <2>2. part + u = s.goal - s.pre /\ u \in Int /\ (part > 0 => u >= 0) /\ part \in Nat
        BY <1>7
    <2> HIDE DEF s, n, pg, j, Z, part, u, t
    <2>3. \/ z \in Finished(SubPaid(s, pg)) /\ Shifted(m, n, part, u, Share(pg, s.goal) - s.tok)
          \/ /\ z = Unsettled(Unsure(s, pg))
             /\ m = n \/ Shifted(m, n, part, u, Share(pg, s.goal) - s.tok)
          \/ z = Unsettled(s) /\ m = n
        BY <1>6, <2>1
    <2> QED
        BY <1>1, <2>2, <2>3, SetSubKeeps
<1> HIDE DEF Z
<1> QED
    BY <1>1, <1>4, <1>9, <1>10, <1>11, HandlerLift DEF SetSub

(***************************************************************************)
(* Refund and its goroutine.                                               *)
(***************************************************************************)
Refunding(s, b) == [s EXCEPT !.pc = "done", !.refunded = b]

LEMMA RefundKeeps ==
    ASSUME NEW pg \in BOOLEAN, NEW s \in Request, NEW n \in Amounts, NEW j \in Jobs,
           Sound(pg, s, n, j), s.pc = "fail", NEW b \in BOOLEAN, NEW k,
           \/ b = TRUE /\ k = "queued" /\ NeedsRefund(s) /\ ~Uncertain(s)
           \/ b = FALSE /\ k = "none" /\ ~(NeedsRefund(s) /\ ~Uncertain(s)),
           NEW z, z = Refunding(s, b)
    PROVE  z \in Request /\ j = "none" /\ Sound(pg, z, n, k)
<1>1. "done" \in Pc
    BY DEF Pc
<1>2. /\ z \in Request /\ z.pc = "done" /\ z.refunded = b /\ z.src = s.src /\ z.code = s.code
      /\ z.session = s.session /\ z.pre = s.pre /\ z.fund = s.fund /\ z.tok = s.tok /\ z.held = s.held
      /\ z.fundingSettled = s.fundingSettled /\ z.settled = s.settled
      /\ z.fundingUncertain = s.fundingUncertain /\ z.tokenUncertain = s.tokenUncertain
      /\ z.doubt = s.doubt
    BY <1>1 DEF Request, Refunding
<1>3. CASE ~s.session
    <2>1. Unopened(s, n) /\ j = "none" /\ ~b
        BY <1>3, SoundUnopened DEF NeedsRefund
    <2>2. Unopened(z, n)
        BY <1>2, <2>1 DEF Unopened
    <2> QED
        BY <1>2, <2>1, <2>2, UnopenedSound
<1>4. CASE s.session
    <2>1. Resting(pg, s, n) /\ ~s.fundingSettled /\ j = "none"
        BY <1>4, SoundResting
    <2>2. CASE b
        <3>1. InPlace(z, "queued")
            BY <1>2, <2>1, <2>2 DEF Resting, InPlace, Uncertain
        <3>2. Counted(pg, z) /\ NothingLeft(z, "queued")
            <4>1. NothingLeft(z, "queued")
                BY DEF NothingLeft
            <4>2. Counted(pg, z)
                BY <1>2, <2>1 DEF Resting, Counted, Uncertain, Request
            <4> QED
                BY <4>1, <4>2
        <3>3. TokenBacked(z, n, "queued")
            BY <1>2, <2>1 DEF Resting, TokenBacked, TokenBook
        <3>4. FundBacked(z, n, "queued")
            BY <1>2, <2>1 DEF Resting, FundBacked, Pays, Spilled, FundBook
        <3> QED
            BY <1>2, <2>1, <2>2, <3>1, <3>2, <3>3, <3>4 DEF Sound, Resting
    <2>3. CASE ~b
        <3>1. InPlace(z, "none")
            BY <1>2, <2>1, <2>3 DEF Resting, InPlace, Uncertain
        <3>2. Counted(pg, z)
            BY <1>2, <2>1, <2>3 DEF Resting, Counted, Uncertain, Request
        <3>3. NothingLeft(z, "none")
            <4>1. ~Uncertain(s) => ~(s.tok > 0 \/ s.held > 0)
                BY <1>4, <2>1, <2>3 DEF NeedsRefund, Resting
            <4>2. s.tok \in Nat /\ s.held \in Nat
                BY DEF Request
            <4> QED
                BY <1>2, <4>1, <4>2 DEF NothingLeft, Uncertain
        <3>4. TokenBacked(z, n, "none")
            BY <1>2, <2>1 DEF Resting, TokenBacked, TokenBook
        <3>5. FundBacked(z, n, "none")
            BY <1>2, <2>1 DEF Resting, FundBacked, Pays, Spilled, FundBook
        <3> QED
            BY <1>2, <2>1, <2>3, <3>1, <3>2, <3>3, <3>4, <3>5 DEF Sound, Resting
    <2> QED
        BY <2>2, <2>3
<1> QED
    BY <1>3, <1>4

LEMMA KeepsRefund ==
    ASSUME BillingInv, NEW r \in Requests, Refund(r)
    PROVE  BillingInv'
<1> DEFINE s == req[r]
           n == net[r]
           pg == user.playground
           j == job[r]
           b == NeedsRefund(s) /\ ~Uncertain(s)
           z == [s EXCEPT !.pc = "done", !.refunded = b]
           k == IF b THEN "queued" ELSE "none"
<1>1. SessionTypes /\ s \in Request /\ n \in Amounts /\ pg \in BOOLEAN /\ s.pc = "fail"
      /\ Sound(pg, s, n, j) /\ j \in Jobs
    BY Here DEF Refund
<1>2. b \in BOOLEAN /\ k \in Jobs
    BY DEF Jobs, NeedsRefund, Uncertain
<1>3. z \in Request /\ j = "none" /\ Sound(pg, z, n, k)
    <2>1. z = Refunding(s, b)
        BY DEF Refunding
    <2>2. \/ b = TRUE /\ k = "queued" /\ NeedsRefund(s) /\ ~Uncertain(s)
          \/ b = FALSE /\ k = "none" /\ ~(NeedsRefund(s) /\ ~Uncertain(s))
        BY <1>2
    <2> HIDE DEF s, n, pg, j, b, z, k
    <2> QED
        BY <1>1, <1>2, <2>1, <2>2, RefundKeeps
<1>4. job' = [job EXCEPT ![r] = k]
    BY <1>3 DEF Refund
<1>5. balance' \in Amounts /\ faults' \in 0..MaxFaults /\ net' = [net EXCEPT ![r] = n]
    BY <1>1, QuietDoes DEF Refund
<1>6. req' = [req EXCEPT ![r] = z] /\ Running /\ UNCHANGED <<user, server>>
    BY DEF Refund, Put
<1>7. server # "drained"
    BY <1>1 DEF BillingInv
<1> HIDE DEF s, n, z, k, pg
<1> QED
    BY <1>1, <1>2, <1>3, <1>4, <1>5, <1>6, <1>7, Lift DEF pg

(* What a refund goroutine finds: a session that is over, with true books. *)
LEMMA JobFinds ==
    ASSUME NEW pg \in BOOLEAN, NEW s \in Request, NEW n \in Amounts, NEW j \in Jobs,
           Sound(pg, s, n, j), j # "none"
    PROVE  /\ s.pc = "done" /\ s.session /\ s.src \in {"wallet", "sub"}
           /\ ~s.settled /\ s.refunded /\ ~s.fundingUncertain /\ ~s.tokenUncertain
           /\ s.fund = s.pre /\ (s.src = "wallet" => s.held = s.pre)
           /\ s.tok \in Nat /\ s.pre \in Nat /\ s.held \in Nat
BY DEF Sound, InPlace, Counted, Uncertain, Request

LEMMA JobSound ==
    ASSUME NEW pg \in BOOLEAN, NEW s \in Request, NEW n \in Amounts, NEW m \in Amounts,
           NEW j \in Jobs, NEW k \in Jobs, Sound(pg, s, n, j), j # "none", k # "none",
           k \in {"token", "bad"} => s.src = "wallet",
           TokenBacked(s, m, k), FundBacked(s, m, k), \A a \in Accounts : m[a] >= 0
    PROVE  Sound(pg, s, m, k)
<1>1. /\ s.pc = "done" /\ s.session /\ s.src \in {"wallet", "sub"}
      /\ ~s.settled /\ s.refunded /\ ~s.fundingUncertain /\ ~s.tokenUncertain
    BY JobFinds
<1>2. InPlace(s, k)
    BY <1>1 DEF InPlace, Uncertain
<1>3. Counted(pg, s) /\ NothingLeft(s, k)
    BY <1>1 DEF Sound, NothingLeft
<1> QED
    BY <1>2, <1>3 DEF Sound

LEMMA JobSubKeeps ==
    ASSUME NEW pg \in BOOLEAN, NEW s \in Request, NEW n \in Amounts, NEW m \in Amounts,
           Sound(pg, s, n, "queued"), s.src = "sub", NEW k \in {"ok", "failed"},
           \/ k = "ok" /\ Shifted(m, n, 0, -s.pre, -s.tok)
           \/ k = "failed" /\ (m = n \/ Shifted(m, n, 0, -s.pre, -s.tok))
    PROVE  Sound(pg, s, m, k)
<1>1. /\ s.pc = "done" /\ s.session /\ ~s.settled /\ ~s.fundingUncertain /\ ~s.tokenUncertain
      /\ s.fund = s.pre /\ s.tok \in Nat /\ s.pre \in Nat
    BY JobFinds DEF Jobs
<1>2. n["token"] >= s.tok /\ ("token" \notin s.doubt => n["token"] = s.tok)
    BY <1>1 DEF Sound, TokenBacked, TokenBook
<1>3. /\ n["sub"] >= s.pre /\ n["sub"] = s.pre /\ "sub" \notin s.doubt
      /\ n["wallet"] >= 0 /\ ("wallet" \notin s.doubt => n["wallet"] = 0)
    BY <1>1 DEF Sound, FundBacked, Pays, Spilled, FundBook
<1>4. n["wallet"] \in Int /\ n["token"] \in Int /\ n["sub"] \in Int
    BY DEF Amounts, Accounts
<1>5. Shifted(m, n, 0, -s.pre, -s.tok) =>
        /\ m["sub"] = 0 /\ m["wallet"] = n["wallet"] /\ m["token"] >= 0
        /\ "token" \notin s.doubt => m["token"] = 0
    BY <1>1, <1>2, <1>3, <1>4 DEF Shifted
<1>6. \A a \in Accounts : m[a] >= 0
    BY <1>1, <1>2, <1>3, <1>4, <1>5 DEF Accounts
<1>7. TokenBacked(s, m, k) /\ FundBacked(s, m, k)
    BY <1>1, <1>3, <1>5, <1>6 DEF TokenBacked, TokenBook, FundBacked, Pays, Spilled, FundBook
<1>8. "queued" \in Jobs /\ k \in Jobs /\ k # "none"
    BY DEF Jobs
<1> QED
    BY <1>6, <1>7, <1>8, JobSound

LEMMA JobWalletKeeps ==
    ASSUME NEW pg \in BOOLEAN, NEW s \in Request, NEW n \in Amounts, NEW m \in Amounts,
           Sound(pg, s, n, "queued"), s.src = "wallet", NEW k \in {"token", "bad"},
           \/ k = "token" /\ Moved(m, n, "wallet", -s.held)
           \/ k = "bad" /\ (m = n \/ Moved(m, n, "wallet", -s.held))
    PROVE  Sound(pg, s, m, k)
<1>1. /\ s.pc = "done" /\ s.session /\ ~s.settled /\ ~s.fundingUncertain /\ ~s.tokenUncertain
      /\ s.fund = s.held /\ s.tok \in Nat /\ s.held \in Nat
    BY JobFinds DEF Jobs
<1>2. n["token"] >= s.tok /\ ("token" \notin s.doubt => n["token"] = s.tok)
    BY <1>1 DEF Sound, TokenBacked, TokenBook
<1>3. /\ n["wallet"] >= s.held /\ ("wallet" \notin s.doubt => n["wallet"] = s.held)
      /\ n["sub"] >= 0 /\ ("sub" \notin s.doubt => n["sub"] = 0)
    BY <1>1 DEF Sound, FundBacked, Pays, Spilled, FundBook
<1>4. n["wallet"] \in Int /\ n["token"] \in Int /\ n["sub"] \in Int
    BY DEF Amounts, Accounts
<1>5. Moved(m, n, "wallet", -s.held) =>
        /\ m["sub"] = n["sub"] /\ m["token"] = n["token"] /\ m["wallet"] >= 0
        /\ "wallet" \notin s.doubt => m["wallet"] = 0
    BY <1>1, <1>3, <1>4 DEF Moved, Accounts
<1>6. \A a \in Accounts : m[a] >= 0
    BY <1>1, <1>2, <1>3, <1>4, <1>5 DEF Accounts
<1>7. TokenBacked(s, m, k) /\ FundBacked(s, m, k)
    BY <1>1, <1>2, <1>3, <1>5, <1>6 DEF TokenBacked, TokenBook, FundBacked, Pays, Spilled, FundBook
<1>8. "queued" \in Jobs /\ k \in Jobs /\ k # "none"
    BY DEF Jobs
<1> QED
    BY <1>6, <1>7, <1>8, JobSound

LEMMA JobTokenKeeps ==
    ASSUME NEW pg \in BOOLEAN, NEW s \in Request, NEW n \in Amounts, NEW m \in Amounts,
           NEW j \in {"token", "bad"}, Sound(pg, s, n, j), NEW k \in {"ok", "failed"},
           \/ k = "ok" /\ j = "token" /\ Moved(m, n, "token", -s.tok)
           \/ k = "failed" /\ (m = n \/ Moved(m, n, "token", -s.tok))
    PROVE  Sound(pg, s, m, k)
<1>0. j \in Jobs /\ k \in Jobs /\ k # "none"
    BY DEF Jobs
<1>1. /\ s.pc = "done" /\ s.session /\ ~s.settled /\ ~s.fundingUncertain /\ ~s.tokenUncertain
      /\ s.tok \in Nat
    BY <1>0, JobFinds
<1>2. n["token"] >= s.tok /\ ("token" \notin s.doubt => n["token"] = s.tok)
    BY <1>1 DEF Sound, TokenBacked, TokenBook
<1>3. /\ s.src = "wallet" /\ n["wallet"] >= 0 /\ n["sub"] >= 0
      /\ j = "token" => /\ "wallet" \notin s.doubt => n["wallet"] = 0
                        /\ "sub" \notin s.doubt => n["sub"] = 0
    BY <1>1 DEF Sound, InPlace, FundBacked, Pays, Spilled, FundBook, Accounts
<1>4. n["wallet"] \in Int /\ n["token"] \in Int /\ n["sub"] \in Int
    BY DEF Amounts, Accounts
<1>5. /\ m["sub"] = n["sub"] /\ m["wallet"] = n["wallet"]
      /\ Moved(m, n, "token", -s.tok) => m["token"] >= 0 /\ ("token" \notin s.doubt => m["token"] = 0)
    BY <1>1, <1>2, <1>4 DEF Moved, Accounts
<1>6. \A a \in Accounts : m[a] >= 0
    BY <1>1, <1>2, <1>3, <1>4, <1>5 DEF Accounts
<1>7. TokenBacked(s, m, k) /\ FundBacked(s, m, k)
    BY <1>1, <1>3, <1>5, <1>6 DEF TokenBacked, TokenBook, FundBacked, Pays, Spilled, FundBook
<1> QED
    BY <1>0, <1>6, <1>7, JobSound

(* A step of the goroutine.                                                *)
LEMMA JobLift ==
    ASSUME BillingInv, NEW r \in Requests, NEW m \in Amounts, NEW k \in Jobs,
           net' = [net EXCEPT ![r] = m], job' = [job EXCEPT ![r] = k], job[r] # "none",
           Running, UNCHANGED <<user, req, server>>, balance' \in Amounts, faults' \in 0..MaxFaults,
           Sound(user.playground, req[r], m, k)
    PROVE  BillingInv'
<1>1. req[r] \in Request /\ net[r] \in Amounts /\ job[r] \in Jobs /\ user.playground \in BOOLEAN
      /\ Sound(user.playground, req[r], net[r], job[r]) /\ SessionTypes
    BY Here
<1>2. req' = [req EXCEPT ![r] = req[r]]
    BY <1>1 DEF SessionTypes
<1>3. req[r].pc = "done"
    BY <1>1 DEF Sound, InPlace
<1> QED
    BY <1>1, <1>2, <1>3, Lift

LEMMA KeepsJobSub ==
    ASSUME BillingInv, NEW r \in Requests, JobSub(r)
    PROVE  BillingInv'
<1> DEFINE s == req[r]
           n == net[r]
           pg == user.playground
<1>1. SessionTypes /\ s \in Request /\ n \in Amounts /\ pg \in BOOLEAN /\ s.src = "sub"
      /\ job[r] = "queued" /\ Sound(pg, s, n, "queued")
    BY Here DEF JobSub
<1>2. PICK oc \in SubOutcomes \ {"short"} :
          /\ Call(r, [Only("sub", -s.pre) EXCEPT !.token = -s.tok], TRUE, oc)
          /\ job' = [job EXCEPT ![r] = IF oc = "ok" THEN "ok" ELSE "failed"]
    BY DEF JobSub
<1> DEFINE k == IF oc = "ok" THEN "ok" ELSE "failed"
<1>3. -s.pre \in Int /\ -s.tok \in Int /\ k \in {"ok", "failed"} /\ k \in Jobs
    BY <1>1 DEF Request, Jobs
<1>4. /\ balance' \in Amounts /\ faults' \in 0..MaxFaults
      /\ \E m \in Amounts :
           /\ net' = [net EXCEPT ![r] = m]
           /\ IF oc \in {"ok", "late"} THEN Shifted(m, n, 0, -s.pre, -s.tok) ELSE m = n
    <2> DEFINE d == -s.pre
               t == -s.tok
    <2>1. d \in Int /\ t \in Int /\ Call(r, [Only("sub", d) EXCEPT !.token = t], TRUE, oc)
        BY <1>2, <1>3
    <2> HIDE DEF d, t
    <2>2. /\ balance' \in Amounts /\ faults' \in 0..MaxFaults
          /\ \E m \in Amounts :
               /\ net' = [net EXCEPT ![r] = m]
               /\ IF oc \in {"ok", "late"} THEN Shifted(m, n, 0, d, t) ELSE m = n
        BY <1>1, <2>1, PairDoes
    <2> QED
        BY <2>2 DEF d, t
<1>5. PICK m \in Amounts :
           /\ net' = [net EXCEPT ![r] = m]
           /\ IF oc \in {"ok", "late"} THEN Shifted(m, n, 0, -s.pre, -s.tok) ELSE m = n
    BY <1>4
<1>6. Sound(pg, s, m, k)
    <2>1. \/ k = "ok" /\ Shifted(m, n, 0, -s.pre, -s.tok)
          \/ k = "failed" /\ (m = n \/ Shifted(m, n, 0, -s.pre, -s.tok))
        BY <1>5
    <2> HIDE DEF s, n, pg, k
    <2> QED
        BY <1>1, <1>3, <2>1, JobSubKeeps
<1>7. job' = [job EXCEPT ![r] = k]
    BY <1>2
<1> HIDE DEF k
<1> QED
    BY <1>1, <1>3, <1>4, <1>5, <1>6, <1>7, JobLift DEF JobSub

LEMMA KeepsJobWallet ==
    ASSUME BillingInv, NEW r \in Requests, JobWallet(r)
    PROVE  BillingInv'
<1> DEFINE s == req[r]
           n == net[r]
           pg == user.playground
<1>1. SessionTypes /\ s \in Request /\ n \in Amounts /\ pg \in BOOLEAN /\ s.src = "wallet"
      /\ job[r] = "queued" /\ Sound(pg, s, n, "queued")
    BY Here DEF JobWallet
<1>2. PICK oc \in Outcomes :
          /\ IF s.held > 0 THEN Adjust(r, "wallet", -s.held, oc) ELSE oc = "ok" /\ Quiet
          /\ job' = [job EXCEPT ![r] = IF oc = "ok" THEN "token" ELSE "bad"]
    BY DEF JobWallet
<1> DEFINE k == IF oc = "ok" THEN "token" ELSE "bad"
<1>3. "wallet" \in Accounts /\ s.held \in Nat /\ -s.held \in Int /\ k \in {"token", "bad"} /\ k \in Jobs
    BY <1>1 DEF Request, Jobs, Accounts
<1>4. /\ balance' \in Amounts /\ faults' \in 0..MaxFaults
      /\ \E m \in Amounts :
           /\ net' = [net EXCEPT ![r] = m]
           /\ IF oc \in {"ok", "late"} THEN Moved(m, n, "wallet", -s.held) ELSE m = n
    <2>1. CASE s.held > 0
        BY <1>1, <1>2, <1>3, <2>1, AdjustDoes
    <2>2. CASE ~(s.held > 0)
        <3>1. s.held = 0 /\ oc = "ok" /\ Quiet
            BY <1>2, <1>3, <2>2
        <3>2. balance' \in Amounts /\ faults' \in 0..MaxFaults /\ net' = [net EXCEPT ![r] = n]
            BY <1>1, <3>1, QuietDoes
        <3>3. Moved(n, n, "wallet", -s.held)
            BY <1>1, <3>1 DEF Moved, Amounts, Accounts
        <3> QED
            BY <1>1, <3>1, <3>2, <3>3
    <2> QED
        BY <2>1, <2>2
<1>5. PICK m \in Amounts :
           /\ net' = [net EXCEPT ![r] = m]
           /\ IF oc \in {"ok", "late"} THEN Moved(m, n, "wallet", -s.held) ELSE m = n
    BY <1>4
<1>6. Sound(pg, s, m, k)
    <2>1. \/ k = "token" /\ Moved(m, n, "wallet", -s.held)
          \/ k = "bad" /\ (m = n \/ Moved(m, n, "wallet", -s.held))
        BY <1>5
    <2> HIDE DEF s, n, pg, k
    <2> QED
        BY <1>1, <1>3, <2>1, JobWalletKeeps
<1>7. job' = [job EXCEPT ![r] = k]
    BY <1>2
<1> HIDE DEF k
<1> QED
    BY <1>1, <1>3, <1>4, <1>5, <1>6, <1>7, JobLift DEF JobWallet

LEMMA KeepsJobToken ==
    ASSUME BillingInv, NEW r \in Requests, JobToken(r)
    PROVE  BillingInv'
<1> DEFINE s == req[r]
           n == net[r]
           pg == user.playground
           j == job[r]
<1>1. SessionTypes /\ s \in Request /\ n \in Amounts /\ pg \in BOOLEAN
      /\ j \in {"token", "bad"} /\ Sound(pg, s, n, j)
    BY Here DEF JobToken
<1>2. PICK oc \in Outcomes :
          /\ IF s.tok > 0 THEN Adjust(r, "token", -s.tok, oc) ELSE oc = "ok" /\ Quiet
          /\ job' = [job EXCEPT ![r] = IF oc = "ok" /\ j = "token" THEN "ok" ELSE "failed"]
    BY DEF JobToken
<1> DEFINE k == IF oc = "ok" /\ j = "token" THEN "ok" ELSE "failed"
<1>3. "token" \in Accounts /\ s.tok \in Nat /\ -s.tok \in Int /\ k \in {"ok", "failed"} /\ k \in Jobs
    BY <1>1 DEF Request, Jobs, Accounts
<1>4. /\ balance' \in Amounts /\ faults' \in 0..MaxFaults
      /\ \E m \in Amounts :
           /\ net' = [net EXCEPT ![r] = m]
           /\ IF oc \in {"ok", "late"} THEN Moved(m, n, "token", -s.tok) ELSE m = n
    <2>1. CASE s.tok > 0
        BY <1>1, <1>2, <1>3, <2>1, AdjustDoes
    <2>2. CASE ~(s.tok > 0)
        <3>1. s.tok = 0 /\ oc = "ok" /\ Quiet
            BY <1>2, <1>3, <2>2
        <3>2. balance' \in Amounts /\ faults' \in 0..MaxFaults /\ net' = [net EXCEPT ![r] = n]
            BY <1>1, <3>1, QuietDoes
        <3>3. Moved(n, n, "token", -s.tok)
            BY <1>1, <3>1 DEF Moved, Amounts, Accounts
        <3> QED
            BY <1>1, <3>1, <3>2, <3>3
    <2> QED
        BY <2>1, <2>2
<1>5. PICK m \in Amounts :
           /\ net' = [net EXCEPT ![r] = m]
           /\ IF oc \in {"ok", "late"} THEN Moved(m, n, "token", -s.tok) ELSE m = n
    BY <1>4
<1>6. Sound(pg, s, m, k)
    <2>1. \/ k = "ok" /\ j = "token" /\ Moved(m, n, "token", -s.tok)
          \/ k = "failed" /\ (m = n \/ Moved(m, n, "token", -s.tok))
        BY <1>5
    <2> HIDE DEF s, n, pg, k, j
    <2> QED
        BY <1>1, <1>3, <2>1, JobTokenKeeps
<1>7. job' = [job EXCEPT ![r] = k]
    BY <1>2
<1> HIDE DEF k
<1> QED
    BY <1>1, <1>3, <1>4, <1>5, <1>6, <1>7, JobLift DEF JobToken

(***************************************************************************)
(* Shutdown, and the invariant.                                            *)
(***************************************************************************)
LEMMA KeepsServer ==
    ASSUME BillingInv, Stop \/ Drained \/ WaitRefunds \/ TimedOut
    PROVE  BillingInv'
<1>1. UNCHANGED <<user, req, net, balance, job, faults>>
    BY DEF Stop, Drained, WaitRefunds, TimedOut, Become
<1>2. server' \in {"up", "stopping", "drained", "clean", "incomplete"}
    BY DEF Stop, Drained, WaitRefunds, TimedOut, Become
<1>3. SessionTypes'
    BY <1>1, <1>2 DEF BillingInv, SessionTypes
<1>4. \A r \in Requests : Sound(user'.playground, req'[r], net'[r], job'[r])
    BY <1>1 DEF BillingInv
<1>5. server' \in {"drained", "clean"} => \A r \in Requests : req'[r].pc \in Ended \cup {"new"}
    BY <1>1 DEF BillingInv, Stop, Drained, WaitRefunds, TimedOut, Become
<1>6. server' = "clean" => \A r \in Requests : job'[r] \in {"none", "ok"}
    BY <1>1 DEF Stop, Drained, WaitRefunds, TimedOut, Become
<1> QED
    BY <1>3, <1>4, <1>5, <1>6 DEF BillingInv

(* A violation fee is charged beside the session.                           *)
LEMMA KeepsLevy ==
    ASSUME BillingInv, NEW r \in Requests, LevyFund(r) \/ LevyTok(r)
    PROVE  BillingInv'
<1>1. PICK a, fits, oc : a \in Accounts /\ Charge(r, a, fits, oc)
    <2>1. req[r] \in Request /\ Sound(user.playground, req[r], net[r], job[r])
        BY Here
    <2>2. Payer(req[r]) \in Accounts /\ "token" \in Accounts
        BY <2>1 DEF Payer, Accounts, Sound, InPlace, Request
    <2>3. CASE LevyFund(r)
        BY <2>2, <2>3 DEF LevyFund
    <2>4. CASE LevyTok(r)
        BY <2>2, <2>4 DEF LevyTok
    <2> QED
        BY <2>3, <2>4
<1>2. UNCHANGED <<user, req, net, job, server>>
    BY <1>1 DEF Charge
<1>3. balance' \in Amounts
    BY <1>1, BoundsAssumption DEF Charge, BillingInv, SessionTypes, Amounts
<1>4. faults' \in 0..MaxFaults
    BY <1>1, BoundsAssumption DEF Charge, Answers, BillingInv, SessionTypes
<1> QED
    BY <1>2, <1>3, <1>4 DEF BillingInv, SessionTypes, Amounts

LEMMA BillingInvInit ==
    ASSUME Init PROVE BillingInv
<1>1. NewRequest \in Request
    BY DEF NewRequest, Request, Pc, Accounts
<1>2. user \in UserType
    BY UsersAssumption DEF Init
<1>3. user.playground \in BOOLEAN /\ user.start \in [Accounts -> Nat]
    BY <1>2 DEF UserType
<1>4. SessionTypes
    <2>1. req \in [Requests -> Request] /\ user \in Users /\ server = "up"
        BY <1>1 DEF Init
    <2>2. net \in [Requests -> [Accounts -> Int]] /\ job \in [Requests -> {"queued", "token", "bad"} \cup JobEnded]
        BY DEF Init
    <2>3. balance \in [Accounts -> Int]
        BY <1>3 DEF Init
    <2>4. faults \in 0..MaxFaults
        BY BoundsAssumption DEF Init
    <2> QED
        BY <2>1, <2>2, <2>3, <2>4 DEF SessionTypes
<1>5. ASSUME NEW r \in Requests
      PROVE  Sound(user.playground, req[r], net[r], job[r])
    <2> DEFINE n == [a \in Accounts |-> 0]
    <2>1. req[r] = NewRequest /\ net[r] = n /\ job[r] = "none"
        BY DEF Init
    <2>2. n \in Amounts /\ \A a \in Accounts : n[a] = 0
        BY DEF Amounts
    <2> HIDE DEF n
    <2>3. Unopened(NewRequest, n) /\ NewRequest.pc = "new"
        BY <2>2 DEF Unopened, NewRequest
    <2>4. Sound(user.playground, NewRequest, n, "none")
        BY <1>1, <1>3, <2>2, <2>3, UnopenedSound
    <2> QED
        BY <2>1, <2>4
<1> QED
    BY <1>4, <1>5 DEF BillingInv, Init

LEMMA BillingInvStep ==
    ASSUME BillingInv, [Next]_vars PROVE BillingInv'
<1>1. ASSUME NEW r \in Requests, NEW k \in Kinds, Begin(r, k) PROVE BillingInv'
    BY <1>1, KeepsBegin
<1>2. ASSUME NEW r \in Requests, Handler(r) PROVE BillingInv'
    <2>1. CASE Open(r) \/ CheckWallet(r) \/ PreToken(r) \/ PreFund(r) \/ PreBack(r)
        BY <2>1, KeepsOpen, KeepsCheckWallet, KeepsPreToken, KeepsPreFund, KeepsPreBack
    <2>2. CASE Route(r) \/ ResFund(r) \/ ResTok(r) \/ ResBack(r) \/ ResSub(r) \/ Sent(r)
        BY <2>2, KeepsRoute, KeepsResFund, KeepsResTok, KeepsResBack, KeepsResSub, KeepsSent
    <2>3. CASE Settle(r) \/ SetFund(r) \/ SetTok(r) \/ SetBack(r) \/ SetSub(r) \/ Refund(r)
        BY <2>3, KeepsSettle, KeepsSetFund, KeepsSetTok, KeepsSetBack, KeepsSetSub, KeepsRefund
    <2>4. CASE Violation(r) \/ LevyFund(r) \/ LevyTok(r)
        BY <2>4, KeepsViolation, KeepsLevy
    <2> QED
        BY <1>2, <2>1, <2>2, <2>3, <2>4 DEF Handler
<1>3. ASSUME NEW r \in Requests, Job(r) PROVE BillingInv'
    BY <1>3, KeepsJobSub, KeepsJobWallet, KeepsJobToken DEF Job
<1>4. CASE Stop \/ Drained \/ WaitRefunds \/ TimedOut
    BY <1>4, KeepsServer
<1>5. CASE UNCHANGED vars
    <2>1. /\ user' = user /\ req' = req /\ net' = net /\ balance' = balance /\ job' = job
          /\ faults' = faults /\ server' = server
        BY <1>5 DEF vars
    <2> QED
        BY <2>1 DEF BillingInv, SessionTypes
<1> QED
    BY <1>1, <1>2, <1>3, <1>4, <1>5 DEF Next

(***************************************************************************)
(* BillingInv holds in every reachable state: each request's flags fit its  *)
(* control state, its counters hang together, and the accounts hold what    *)
(* the books of BillingSession say (Sound), for any number of concurrent    *)
(* requests, prices, retries and failing calls.                             *)
(***************************************************************************)
THEOREM BillingInvariant == Spec => []BillingInv
<1>1. Init => BillingInv
    BY BillingInvInit
<1>2. BillingInv /\ [Next]_vars => BillingInv'
    BY BillingInvStep
<1> QED
    BY <1>1, <1>2, PTL DEF Spec

USE DEF Levying

(***************************************************************************)
(* The violation fee.  Only the upstream's answer, Refund and the fee's own *)
(* two calls concern it; every other step leaves it alone and belongs to a  *)
(* request that has neither failed nor ended, or changes no request.        *)
(***************************************************************************)
Elsewhere(q) ==
    \/ Open(q) \/ CheckWallet(q) \/ PreToken(q) \/ PreFund(q) \/ PreBack(q)
    \/ Route(q) \/ ResFund(q) \/ ResTok(q) \/ ResBack(q) \/ ResSub(q) \/ Sent(q)
    \/ Settle(q) \/ SetFund(q) \/ SetTok(q) \/ SetBack(q) \/ SetSub(q)

LEMMA ElsewhereIs ==
    ASSUME NEW q \in Requests, Elsewhere(q) \/ (\E k \in Kinds : Begin(q, k))
    PROVE  /\ Frame /\ req[q].pc \notin {"done", "fail"}
           /\ \E z : req' = [req EXCEPT ![q] = z]
<1>1. CASE Open(q) \/ CheckWallet(q) \/ PreToken(q) \/ PreFund(q) \/ PreBack(q)
    BY <1>1 DEF Open, CheckWallet, PreToken, PreFund, PreBack, Put
<1>2. CASE Route(q) \/ ResFund(q) \/ ResTok(q) \/ ResBack(q) \/ ResSub(q) \/ Sent(q)
    BY <1>2 DEF Route, ResFund, ResTok, ResBack, ResSub, Sent, Put
<1>3. CASE Settle(q) \/ SetFund(q) \/ SetTok(q) \/ SetBack(q) \/ SetSub(q)
    BY <1>3 DEF Settle, SetFund, SetTok, SetBack, SetSub, Put
<1>4. CASE \E k \in Kinds : Begin(q, k)
    BY <1>4 DEF Begin, Put
<1> QED
    BY <1>1, <1>2, <1>3, <1>4 DEF Elsewhere

LEMMA FeeElsewhere ==
    ASSUME BillingInv, FeeInv, BillingInv', NEW q \in Requests,
           Elsewhere(q) \/ (\E k \in Kinds : Begin(q, k))
    PROVE  FeeInv'
<1>1. Frame /\ req[q].pc \notin {"done", "fail"}
    BY ElsewhereIs
<1>2. PICK z : req' = [req EXCEPT ![q] = z]
    BY ElsewhereIs
<1>3. UNCHANGED <<user, server, fee, levy>>
    BY <1>1 DEF Frame
<1>4. TypeOK'
    BY <1>3 DEF FeeInv, TypeOK, BillingInv
<1>5. ASSUME NEW r \in Requests
      PROVE  Levied(user'.playground, req'[r], levy'[r], fee'[r])
    <2>1. CASE r # q
        BY <1>2, <1>3, <2>1 DEF FeeInv, BillingInv, SessionTypes
    <2>2. CASE r = q
        <3>1. levy[r] = "none"
            BY <1>1, <2>2 DEF FeeInv, TypeOK, Levied
        <3>2. \A a \in Accounts : fee[r][a] = 0
            BY <3>1 DEF FeeInv, Levied
        <3> QED
            BY <1>3, <3>1, <3>2 DEF Levied
    <2> QED
        BY <2>1, <2>2
<1> QED
    BY <1>3, <1>4, <1>5 DEF FeeInv

LEMMA FeeViolation ==
    ASSUME BillingInv, FeeInv, BillingInv', NEW q \in Requests, Violation(q) \/ Refund(q)
    PROVE  FeeInv'
<1> DEFINE v == IF Violation(q) THEN "due" ELSE IF levy[q] = "due" THEN "fund" ELSE levy[q]
<1>1. PICK z : req' = [req EXCEPT ![q] = z] /\ (Violation(q) => z.pc = "fail")
                                           /\ (~Violation(q) => z.pc = "done")
    <2>1. req[q] \in Request
        BY Here
    <2>2. CASE Violation(q)
        <3>1. req' = [req EXCEPT ![q] = [req[q] EXCEPT !.pc = "fail"]]
            BY <2>2 DEF Violation, Put
        <3>2. [req[q] EXCEPT !.pc = "fail"].pc = "fail"
            BY <2>1 DEF Request
        <3> QED
            BY <2>2, <3>1, <3>2
    <2>3. CASE Refund(q)
        <3>1. PICK b : req' = [req EXCEPT ![q] = [req[q] EXCEPT !.pc = "done", !.refunded = b]]
            BY <2>3 DEF Refund, Put
        <3>2. [req[q] EXCEPT !.pc = "done", !.refunded = b].pc = "done"
            BY <2>1 DEF Request
        <3>3. ~Violation(q)
            BY <2>3 DEF Refund, Violation
        <3> QED
            BY <3>1, <3>2, <3>3
    <2> QED
        BY <2>2, <2>3
<1>2. levy' = [levy EXCEPT ![q] = v] /\ UNCHANGED <<user, server, fee>>
    BY DEF Violation, Refund
<1>3. levy[q] \in {"none", "due"} /\ (levy[q] = "due" => req[q].pc = "fail")
      /\ \A a \in Accounts : fee[q][a] = 0
    BY DEF FeeInv, TypeOK, Levied, Violation, Refund
<1>4. v \in {"none", "due", "fund"} /\ (v = "due" => Violation(q)) /\ (v = "fund" => ~Violation(q))
    BY <1>3
<1> HIDE DEF v
<1>5. TypeOK'
    BY <1>2, <1>4 DEF FeeInv, TypeOK, BillingInv
<1>6. ASSUME NEW r \in Requests
      PROVE  Levied(user'.playground, req'[r], levy'[r], fee'[r])
    <2>1. CASE r # q
        BY <1>1, <1>2, <2>1 DEF FeeInv, BillingInv, SessionTypes, TypeOK
    <2>2. CASE r = q
        <3>1. req'[r] = z /\ levy'[r] = v /\ fee'[r] = fee[q]
            BY <1>1, <1>2, <2>2 DEF FeeInv, BillingInv, SessionTypes, TypeOK
        <3> QED
            BY <1>1, <1>3, <1>4, <3>1 DEF Levied
    <2> QED
        BY <2>1, <2>2
<1>7. server \notin {"drained", "clean"}
    BY DEF BillingInv, Violation, Refund
<1> QED
    BY <1>2, <1>5, <1>6, <1>7 DEF FeeInv

(* What a charge of the fee does to the fee of its request.                 *)
LEMMA ChargeDoes ==
    ASSUME TypeOK, NEW q \in Requests, NEW a \in Accounts, NEW fits, NEW oc, Charge(q, a, fits, oc)
    PROVE  /\ UNCHANGED <<user, req, server>> /\ Running
           /\ \E f \in [Accounts -> Nat] :
                /\ fee' = [fee EXCEPT ![q] = f]
                /\ IF oc \in {"ok", "late"} THEN f = [fee[q] EXCEPT ![a] = @ + Fee] ELSE f = fee[q]
<1>1. fee \in [Requests -> [Accounts -> Nat]] /\ Fee \in Nat
    BY BoundsAssumption DEF TypeOK
<1>2. CASE oc \in {"ok", "late"}
    <2> DEFINE f == [fee[q] EXCEPT ![a] = @ + Fee]
    <2>1. f \in [Accounts -> Nat]
        BY <1>1
    <2>2. fee' = [fee EXCEPT ![q] = f]
        BY <1>1, <1>2 DEF Charge
    <2> QED
        BY <1>2, <2>1, <2>2 DEF Charge
<1>3. CASE oc \notin {"ok", "late"}
    BY <1>1, <1>3 DEF Charge
<1> QED
    BY <1>2, <1>3

LEMMA FeeLevy ==
    ASSUME BillingInv, FeeInv, BillingInv', NEW q \in Requests, LevyFund(q) \/ LevyTok(q)
    PROVE  FeeInv'
<1> DEFINE s == req[q]
           pg == user.playground
           f == fee[q]
           A == Payer(s)
<1>1. /\ TypeOK /\ Levied(pg, s, levy[q], f) /\ Fee \in Nat /\ pg \in BOOLEAN
      /\ levy \in [Requests -> {"none", "due", "paid", "unpaid"} \cup Levying]
      /\ fee \in [Requests -> [Accounts -> Nat]] /\ f \in [Accounts -> Nat]
    BY Here, BoundsAssumption DEF FeeInv, TypeOK
<1>2. A \in {"wallet", "sub"}
    <2>1. s \in Request /\ Sound(pg, s, net[q], job[q])
        BY Here
    <2> QED
        BY <2>1 DEF Payer, Sound, InPlace, Request
<1> DEFINE a == IF levy[q] = "fund" THEN A ELSE "token"
<1>3. PICK fits, oc, v :
        /\ oc \in Outcomes /\ Charge(q, a, fits, oc) /\ levy' = [levy EXCEPT ![q] = v]
        /\ \/ levy[q] = "fund" /\ v = (IF oc # "ok" THEN "unpaid" ELSE IF pg THEN "paid" ELSE "tok")
           \/ levy[q] = "tok" /\ v = (IF oc = "ok" THEN "paid" ELSE "unpaid")
    <2>1. CASE LevyFund(q)
        BY <2>1 DEF LevyFund
    <2>2. CASE LevyTok(q)
        <3>1. levy[q] = "tok" /\ a = "token"
            BY <2>2 DEF LevyTok
        <3> HIDE DEF a
        <3> QED
            BY <2>2, <3>1 DEF LevyTok
    <2> QED
        BY <2>1, <2>2
<1>4. a \in Accounts /\ v \in {"paid", "unpaid", "tok"}
    BY <1>1, <1>2, <1>3 DEF Accounts
<1> HIDE DEF a
<1>5. UNCHANGED <<user, req, server>> /\ Running
    BY <1>1, <1>3, <1>4, ChargeDoes
<1>6. PICK g \in [Accounts -> Nat] :
        /\ fee' = [fee EXCEPT ![q] = g]
        /\ IF oc \in {"ok", "late"} THEN g = [f EXCEPT ![a] = @ + Fee] ELSE g = f
    BY <1>1, <1>3, <1>4, ChargeDoes
<1>7. TypeOK'
    BY <1>1, <1>3, <1>4, <1>6 DEF TypeOK, BillingInv
<1>8. Levied(pg, s, v, g)
    <2> USE DEF Accounts
    <2>0. s.pc = "done"
        BY <1>1, <1>3 DEF Levied
    <2>1. CASE levy[q] = "fund"
        <3>1. \A x \in Accounts : f[x] = 0
            BY <1>1, <2>1 DEF Levied
        <3>2. a = A
            BY <2>1 DEF a
        <3>3. Took(s, g, IF oc \in {"ok", "late"} THEN Fee ELSE 0, 0)
            BY <1>1, <1>2, <1>6, <3>1, <3>2 DEF Took
        <3>4. v = (IF oc # "ok" THEN "unpaid" ELSE IF pg THEN "paid" ELSE "tok")
            BY <1>3, <2>1
        <3> HIDE DEF s, pg
        <3>5. CASE oc # "ok"
            <4>1. v = "unpaid"
                BY <3>4, <3>5
            <4>2. Took(s, g, Fee, 0) \/ Took(s, g, 0, 0)
                <5>1. CASE oc = "late"
                    BY <3>3, <5>1
                <5>2. CASE oc # "late"
                    BY <3>3, <3>5, <5>2
                <5> QED
                    BY <5>1, <5>2
            <4> QED
                BY <2>0, <4>1, <4>2 DEF Levied
        <3>6. CASE oc = "ok"
            <4>1. Took(s, g, Fee, 0) /\ v = (IF pg THEN "paid" ELSE "tok")
                BY <3>3, <3>4, <3>6
            <4>2. CASE pg
                BY <2>0, <4>1, <4>2 DEF Levied, Share
            <4>3. CASE ~pg
                BY <2>0, <4>1, <4>3 DEF Levied
            <4> QED
                BY <4>2, <4>3
        <3> QED
            BY <3>5, <3>6
    <2>2. CASE levy[q] = "tok"
        <3>1. Took(s, f, Fee, 0) /\ ~pg
            BY <1>1, <2>2 DEF Levied
        <3>2. a = "token"
            BY <2>2 DEF a
        <3>3. Took(s, g, Fee, IF oc \in {"ok", "late"} THEN Fee ELSE 0)
            BY <1>1, <1>2, <1>6, <3>1, <3>2 DEF Took
        <3> QED
            BY <1>1, <1>3, <2>0, <2>2, <3>1, <3>3 DEF Levied, Share, Outcomes
    <2> QED
        BY <1>3, <2>1, <2>2
<1>9. ASSUME NEW r \in Requests
      PROVE  Levied(user'.playground, req'[r], levy'[r], fee'[r])
    <2>1. CASE r # q
        BY <1>1, <1>3, <1>5, <1>6, <2>1 DEF FeeInv
    <2>2. CASE r = q
        BY <1>1, <1>3, <1>5, <1>6, <1>8, <2>2
    <2> QED
        BY <2>1, <2>2
<1>10. server \notin {"drained", "clean"}
    BY <1>3 DEF FeeInv
<1> QED
    BY <1>5, <1>7, <1>9, <1>10 DEF FeeInv

LEMMA FeeInvStep ==
    ASSUME BillingInv, FeeInv, BillingInv', [Next]_vars PROVE FeeInv'
<1>1. ASSUME NEW q \in Requests, Handler(q) \/ (\E k \in Kinds : Begin(q, k)) PROVE FeeInv'
    BY <1>1, FeeElsewhere, FeeViolation, FeeLevy DEF Handler, Elsewhere
<1>2. ASSUME NEW q \in Requests, Job(q) PROVE FeeInv'
    <2>1. UNCHANGED <<user, req, server, fee, levy>>
        BY <1>2 DEF Job, JobSub, JobWallet, JobToken
    <2> QED
        BY <2>1 DEF FeeInv, TypeOK, BillingInv
<1>3. CASE Stop \/ Drained \/ WaitRefunds \/ TimedOut
    <2>1. UNCHANGED <<user, req, fee, levy>>
        BY <1>3 DEF Stop, Drained, WaitRefunds, TimedOut, Become
    <2>2. server' \in {"drained", "clean"} => \A r \in Requests : levy[r] \notin Levying
        BY <1>3 DEF FeeInv, Stop, Drained, WaitRefunds, TimedOut, Become
    <2> QED
        BY <2>1, <2>2 DEF FeeInv, TypeOK, BillingInv
<1>4. CASE UNCHANGED vars
    <2>1. UNCHANGED <<user, req, server, fee, levy>>
        BY <1>4 DEF vars
    <2> QED
        BY <2>1 DEF FeeInv, TypeOK, BillingInv
<1> QED
    BY <1>1, <1>2, <1>3, <1>4 DEF Next

LEMMA FeeInvInit ==
    ASSUME Init PROVE FeeInv
<1>1. SessionTypes
    BY BillingInvInit DEF BillingInv
<1>2. TypeOK
    BY <1>1 DEF TypeOK, Init
<1>3. \A r \in Requests : levy[r] = "none" /\ \A a \in Accounts : fee[r][a] = 0
    BY DEF Init
<1>4. server = "up"
    BY DEF Init
<1> QED
    BY <1>2, <1>3, <1>4 DEF FeeInv, Levied

(* A violation fee takes exactly what its two calls were told to, of the    *)
(* funding source first and of the token then, and never of the token       *)
(* alone, whatever its refund goroutine and the other requests do.          *)
THEOREM FeeInvariant == Spec => []FeeInv
<1>1. Init => FeeInv
    BY FeeInvInit
<1>2. BillingInv /\ BillingInv' /\ FeeInv /\ [Next]_vars => FeeInv'
    BY FeeInvStep
<1> QED
    BY <1>1, <1>2, BillingInvariant, PTL DEF Spec

(* The variables, and every field of the BillingSession record, keep their  *)
(* types: no counter of the session ever goes below zero.                   *)
THEOREM BillingTyped == Spec => []TypeOK
<1>1. FeeInv => TypeOK
    BY DEF FeeInv
<1> QED
    BY <1>1, FeeInvariant, PTL

LEMMA ChargedByInv ==
    ASSUME BillingInv PROVE ChargedAsSettled
<1> SUFFICES ASSUME NEW r \in Requests, req[r].settled
             PROVE  /\ req[r].doubt \cap {"wallet", "sub"} = {} => Funded(r) = req[r].goal
                    /\ "token" \notin req[r].doubt => net[r].token = TokenShare(req[r].goal)
    BY DEF ChargedAsSettled
<1> DEFINE s == req[r]
           n == net[r]
           pg == user.playground
           j == job[r]
<1>1. s \in Request /\ n \in Amounts /\ pg \in BOOLEAN /\ Sound(pg, s, n, j) /\ s.settled
    BY Here
<1>2. TokenShare(s.goal) = Share(pg, s.goal)
    BY DEF TokenShare, Share
<1> HIDE DEF s, n, pg, j
<1>3. /\ j = "none" /\ s.session /\ ~s.fundingUncertain /\ ~s.tokenUncertain /\ s.src \in {"wallet", "sub"}
      /\ s.fund = s.goal /\ s.tok = Share(pg, s.goal) /\ s.pc \in Ended /\ s.goal \in Nat
    BY <1>1 DEF Sound, InPlace, Counted, Uncertain, Request
<1>4. "token" \notin s.doubt => n["token"] = s.tok
    BY <1>1, <1>3 DEF Sound, TokenBacked, TokenBook
<1>5. s.doubt \cap {"wallet", "sub"} = {} => n["wallet"] + n["sub"] = s.goal
    <2>1. CASE s.src = "wallet"
        <3>1. s.doubt \cap {"wallet", "sub"} = {} => n["wallet"] = s.goal /\ n["sub"] = 0
            BY <1>1, <1>3, <2>1 DEF Sound, FundBacked, Pays, Spilled, FundBook
        <3> QED
            BY <1>3, <3>1
    <2>2. CASE s.src = "sub"
        BY <1>1, <1>3, <2>2 DEF Sound, FundBacked, Spilled
    <2> QED
        BY <1>3, <2>1, <2>2
<1> QED
    BY <1>2, <1>3, <1>4, <1>5 DEF s, n, pg, Funded

(* What Settle reports is what was charged: the amount upstream reported,   *)
(* from wallet and subscription together, and from the token.               *)
THEOREM SettlementIsExact == Spec => []ChargedAsSettled
<1>1. BillingInv => ChargedAsSettled
    BY ChargedByInv
<1> QED
    BY <1>1, BillingInvariant, PTL

(* The books of a session without a job, in terms of its record.            *)
LEMMA BooksOf ==
    ASSUME NEW pg \in BOOLEAN, NEW s \in Request, NEW n \in Amounts, Sound(pg, s, n, "none"),
           s.session, s.pc \notin Holding
    PROVE  /\ ~s.fundingUncertain /\ s.doubt \cap {"wallet", "sub"} = {} => n["wallet"] + n["sub"] = s.fund
           /\ ~s.tokenUncertain /\ "token" \notin s.doubt => n["token"] = s.tok
<1>1. s.src \in {"wallet", "sub"} /\ s.fund \in Nat
    BY DEF Sound, InPlace, Request
<1>2. ~s.tokenUncertain /\ "token" \notin s.doubt => n["token"] = s.tok
    BY DEF Sound, TokenBacked, TokenBook
<1>3. ASSUME ~s.fundingUncertain, s.doubt \cap {"wallet", "sub"} = {}
      PROVE  n["wallet"] + n["sub"] = s.fund
    <2>1. CASE Spilled(s)
        BY <1>3, <2>1 DEF Sound, FundBacked
    <2>2. CASE ~Spilled(s)
        <3>1. \/ n["wallet"] = s.fund /\ n["sub"] = 0
              \/ n["wallet"] = 0 /\ n["sub"] = s.fund
            BY <1>1, <1>3, <2>2 DEF Sound, FundBacked, Pays, FundBook
        <3> QED
            BY <1>1, <3>1
    <2> QED
        BY <2>1, <2>2
<1> QED
    BY <1>2, <1>3

LEMMA BooksByInv ==
    ASSUME BillingInv PROVE BooksMatch
<1> SUFFICES ASSUME NEW r \in Requests, req[r].session, job[r] = "none",
                    req[r].pc \in {"route", "sent", "settle", "fail"} \cup Ended
             PROVE  /\ KnownFunding(r) => Funded(r) = req[r].fund
                    /\ KnownToken(r) => net[r].token = req[r].tok
    BY DEF BooksMatch
<1> DEFINE s == req[r]
           n == net[r]
           pg == user.playground
<1>1. /\ s \in Request /\ n \in Amounts /\ pg \in BOOLEAN /\ Sound(pg, s, n, "none")
      /\ s.session /\ s.pc \notin Holding
    BY Here
<1> HIDE DEF s, n, pg
<1>2. /\ ~s.fundingUncertain /\ s.doubt \cap {"wallet", "sub"} = {} => n["wallet"] + n["sub"] = s.fund
      /\ ~s.tokenUncertain /\ "token" \notin s.doubt => n["token"] = s.tok
    BY <1>1, BooksOf
<1> QED
    BY <1>2 DEF s, n, KnownFunding, KnownToken, Funded

(* Between calls the counters of BillingSession are the truth, unless the   *)
(* matching uncertainty flag is set.                                        *)
THEOREM BooksAreTrue == Spec => []BooksMatch
<1>1. BillingInv => BooksMatch
    BY BooksByInv
<1> QED
    BY <1>1, BillingInvariant, PTL

(* The session's part: a failed request has given everything back.          *)
LEMMA FailedByInv ==
    ASSUME BillingInv, NEW r \in Requests, req[r].pc = "done", ~req[r].settled,
           req[r].code # "logged", ~Uncertain(req[r]), job[r] \in {"none", "ok"}
    PROVE  /\ KnownFunding(r) => Funded(r) = 0
           /\ KnownToken(r) => net[r].token = 0
<1> DEFINE s == req[r]
           n == net[r]
           pg == user.playground
           j == job[r]
<1>1. /\ s \in Request /\ n \in Amounts /\ pg \in BOOLEAN /\ Sound(pg, s, n, j) /\ j \in {"none", "ok"}
      /\ s.pc = "done" /\ ~s.settled /\ s.code # "logged" /\ ~Uncertain(s) /\ j \in Jobs
    BY Here
<1> HIDE DEF s, n, pg, j
<1>2. /\ s.doubt \cap {"wallet", "sub"} = {} => n["wallet"] = 0 /\ n["sub"] = 0
      /\ "token" \notin s.doubt => n["token"] = 0
    <2>1. CASE ~s.session
        <3>1. Unopened(s, n)
            BY <1>1, <2>1, SoundUnopened
        <3> QED
            BY <3>1 DEF Unopened, Accounts
    <2>2. CASE s.session /\ j = "ok"
        BY <1>1, <2>2 DEF Sound, TokenBacked, TokenBook, FundBacked, Pays, Spilled, FundBook, Uncertain
    <2>3. CASE s.session /\ j = "none"
        <3>1. s.tok = 0 /\ s.held = 0 /\ s.src \in {"wallet", "sub"}
            BY <1>1, <2>3 DEF Sound, NothingLeft, InPlace, Request
        <3>2. s.fund = 0
            BY <1>1, <2>3, <3>1 DEF Sound, Counted, Request
        <3> QED
            BY <1>1, <2>3, <3>1, <3>2
            DEF Sound, TokenBacked, TokenBook, FundBacked, Pays, Spilled, FundBook, Uncertain
    <2> QED
        BY <1>1, <2>1, <2>2, <2>3
<1> QED
    BY <1>2 DEF s, n, KnownFunding, KnownToken, Funded

LEMMA FailedByFee ==
    ASSUME BillingInv, FeeInv PROVE FailedCostsOnlyFee
<1> SUFFICES ASSUME NEW r \in Requests, req[r].pc = "done", ~req[r].settled, req[r].code # "logged",
                    ~Uncertain(req[r]), job[r] \in {"none", "ok"}, levy[r] \notin Levying
             PROVE  LET funding == Funded(r) + fee[r].wallet + fee[r].sub
                        token == net[r].token + fee[r].token
                    IN /\ levy[r] = "none" => /\ KnownFunding(r) => funding = 0
                                              /\ KnownToken(r) => token = 0
                       /\ levy[r] = "paid" => /\ KnownFunding(r) => funding = Fee
                                              /\ KnownToken(r) => token = TokenShare(Fee)
                       /\ levy[r] = "unpaid" /\ KnownFunding(r) /\ KnownToken(r) =>
                             <<funding, token>> \in {<<0, 0>>, <<Fee, 0>>, <<Fee, TokenShare(Fee)>>}
    BY DEF FailedCostsOnlyFee
<1> DEFINE F == fee[r]["wallet"] + fee[r]["sub"]
           T == fee[r]["token"]
<1>1. /\ KnownFunding(r) => Funded(r) = 0
      /\ KnownToken(r) => net[r]["token"] = 0
    BY FailedByInv
<1>2. /\ Levied(user.playground, req[r], levy[r], fee[r]) /\ Fee \in Nat
      /\ fee[r] \in [Accounts -> Nat] /\ Payer(req[r]) \in {"wallet", "sub"}
      /\ net[r] \in Amounts
    <2>1. req[r] \in Request /\ Sound(user.playground, req[r], net[r], job[r]) /\ net[r] \in Amounts
        BY Here
    <2>2. Payer(req[r]) \in {"wallet", "sub"}
        BY <2>1 DEF Payer, Sound, InPlace, Request
    <2> QED
        BY <2>1, <2>2, BoundsAssumption DEF FeeInv, TypeOK
<1>3. ASSUME NEW x \in Nat, NEW y \in Nat, Took(req[r], fee[r], x, y)
      PROVE  F = x /\ T = y
    BY <1>2, <1>3 DEF Took, Accounts
<1>4. TokenShare(Fee) = Share(user.playground, Fee) /\ TokenShare(Fee) \in Nat
    BY <1>2 DEF TokenShare, Share
<1>5. levy[r] = "none" => F = 0 /\ T = 0
    BY <1>2 DEF Levied, Accounts
<1>6. levy[r] = "paid" => F = Fee /\ T = TokenShare(Fee)
    BY <1>2, <1>3, <1>4 DEF Levied
<1>7. levy[r] = "unpaid" => \/ F = 0 /\ T = 0
                            \/ F = Fee /\ T = 0
                            \/ F = Fee /\ T = TokenShare(Fee)
    <2>1. 0 \in Nat
        OBVIOUS
    <2> QED
        BY <1>2, <1>3, <1>4, <2>1 DEF Levied
<1>8. /\ Funded(r) \in Int /\ net[r]["token"] \in Int /\ F \in Int /\ T \in Int
      /\ Funded(r) + fee[r]["wallet"] + fee[r]["sub"] = Funded(r) + F
    BY <1>2 DEF Funded, Amounts, Accounts
<1> HIDE DEF F
<1>9. /\ KnownFunding(r) => Funded(r) + fee[r]["wallet"] + fee[r]["sub"] = F
      /\ KnownToken(r) => net[r]["token"] + fee[r]["token"] = T
    BY <1>1, <1>8
<1> HIDE DEF T
<1> QED
    BY <1>4, <1>5, <1>6, <1>7, <1>9

(* A failed request costs nothing once its refund has run, on every path    *)
(* through preConsume, reserve and Refund, but for the violation fee: all   *)
(* of it when the fee was charged, and when charging it failed either       *)
(* nothing, the funding share or all of it.                                 *)
THEOREM FailureCostsOnlyFee == Spec => []FailedCostsOnlyFee
<1>1. BillingInv /\ FeeInv => FailedCostsOnlyFee
    BY FailedByFee
<1> QED
    BY <1>1, BillingInvariant, FeeInvariant, PTL

(* No rollback, compensation or refund gives back more than was taken,      *)
(* whatever mixture of applied and unapplied failures preceded it.          *)
THEOREM RefundsAreBounded == Spec => []NeverOverRefunds
<1>1. BillingInv => NeverOverRefunds
    BY DEF BillingInv, Sound, NeverOverRefunds
<1> QED
    BY <1>1, BillingInvariant, PTL

(* A clean exit of the server accounts for every request and every refund.  *)
THEOREM CleanExit == Spec => []CleanMeansAccounted
<1>1. BillingInv /\ FeeInv => CleanMeansAccounted
    <2> SUFFICES ASSUME BillingInv, FeeInv, server = "clean", NEW r \in Requests
                 PROVE  /\ req[r].pc \in Ended \cup {"new"} /\ levy[r] \notin Levying
                        /\ job[r] \in {"none", "ok"} /\ (req[r].refunded => job[r] = "ok")
        BY DEF CleanMeansAccounted
    <2>1. /\ req[r].pc \in Ended \cup {"new"} /\ job[r] \in {"none", "ok"}
          /\ levy[r] \notin Levying
        BY DEF BillingInv, FeeInv
    <2>2. req[r].refunded => job[r] # "none"
        BY Here DEF Sound, InPlace
    <2> QED
        BY <2>1, <2>2
<1> QED
    BY <1>1, BillingInvariant, FeeInvariant, PTL

(***************************************************************************)
(* An unknown outcome freezes the money it is about.                       *)
(***************************************************************************)

(* A call touches the amounts of its own request only.                     *)
LEMMA CallIsOwn ==
    ASSUME SessionTypes, NEW q \in Requests, NEW r \in Requests, q # r, NEW take, NEW fits, NEW oc,
           Call(q, take, fits, oc)
    PROVE  net'[r] = net[r]
BY DEF Call, SessionTypes

LEMMA QuietIsOwn ==
    ASSUME NEW r \in Requests, Quiet
    PROVE  net'[r] = net[r]
BY DEF Quiet

LEMMA StepIsOwn ==
    ASSUME SessionTypes, NEW q \in Requests, NEW r \in Requests, q # r, Handler(q) \/ Job(q)
    PROVE  net'[r] = net[r]
<1>1. CASE Open(q) \/ Route(q) \/ Sent(q) \/ Settle(q) \/ Refund(q) \/ Violation(q)
    BY <1>1, QuietIsOwn DEF Open, Route, Sent, Settle, Refund, Violation
<1>2. CASE CheckWallet(q)
    BY <1>2, CallIsOwn, QuietIsOwn DEF CheckWallet, Adjust
<1>3. CASE PreToken(q)
    BY <1>3, CallIsOwn, QuietIsOwn DEF PreToken, TryReserve
<1>4. CASE PreFund(q)
    BY <1>4, CallIsOwn, QuietIsOwn DEF PreFund, TryReserve, SubPreConsume
<1>5. CASE PreBack(q)
    BY <1>5, CallIsOwn DEF PreBack, Adjust
<1>6. CASE ResFund(q)
    BY <1>6, CallIsOwn DEF ResFund, Adjust, TryReserve
<1>7. CASE ResTok(q)
    BY <1>7, CallIsOwn, QuietIsOwn DEF ResTok, TryReserve
<1>8. CASE ResBack(q)
    BY <1>8, CallIsOwn DEF ResBack, Adjust
<1>9. CASE ResSub(q)
    BY <1>9, CallIsOwn DEF ResSub
<1>10. CASE SetFund(q)
    BY <1>10, CallIsOwn DEF SetFund, Adjust
<1>11. CASE SetTok(q)
    BY <1>11, CallIsOwn, QuietIsOwn DEF SetTok, Adjust
<1>12. CASE SetBack(q)
    BY <1>12, CallIsOwn DEF SetBack, Adjust
<1>13. CASE SetSub(q)
    BY <1>13, CallIsOwn DEF SetSub
<1>14. CASE Job(q)
    BY <1>14, CallIsOwn, QuietIsOwn DEF Job, JobSub, JobWallet, JobToken, Adjust
<1>15. CASE LevyFund(q) \/ LevyTok(q)
    BY <1>15 DEF LevyFund, LevyTok, Charge
<1> QED
    BY <1>1, <1>2, <1>3, <1>4, <1>5, <1>6, <1>7, <1>8, <1>9, <1>10, <1>11, <1>12, <1>13, <1>14, <1>15
    DEF Handler

(* A request in one of these states makes no call.                         *)
LEMMA RestIsQuiet ==
    ASSUME NEW r \in Requests, Handler(r), req[r].pc \in Between \cup Ended
    PROVE  net' = net
<1>1. Route(r) \/ Sent(r) \/ Settle(r) \/ Refund(r) \/ Violation(r) \/ LevyFund(r) \/ LevyTok(r)
    BY DEF Handler, Open, CheckWallet, PreToken, PreFund, PreBack, ResFund, ResTok, ResBack, ResSub,
           SetFund, SetTok, SetBack, SetSub
<1> QED
    BY <1>1 DEF Route, Sent, Settle, Refund, Violation, LevyFund, LevyTok, Charge, Quiet

(* The two rollbacks give back funding and leave the token alone.          *)
LEMMA BackSparesToken ==
    ASSUME SessionTypes, NEW r \in Requests, ResBack(r) \/ SetBack(r)
    PROVE  net'[r]["token"] = net[r]["token"]
<1>1. PICK oc \in Outcomes : Adjust(r, "wallet", -req[r].need, oc)
    BY DEF ResBack, SetBack
<1>2. req[r].need \in Int /\ "wallet" \in Accounts
    BY DEF SessionTypes, Request, Accounts
<1>3. -req[r].need \in Int
    BY <1>2
<1>4. \E m \in Amounts :
        /\ net' = [net EXCEPT ![r] = m]
        /\ IF oc \in {"ok", "late"} THEN Moved(m, net[r], "wallet", -req[r].need) ELSE m = net[r]
    BY <1>1, <1>2, <1>3, AdjustDoes
<1>5. PICK m \in Amounts :
        /\ net' = [net EXCEPT ![r] = m]
        /\ IF oc \in {"ok", "late"} THEN Moved(m, net[r], "wallet", -req[r].need) ELSE m = net[r]
    BY <1>4
<1>6. net'[r] = m
    BY <1>5 DEF SessionTypes
<1> QED
    BY <1>5, <1>6 DEF Moved, Accounts

LEMMA Frozen ==
    ASSUME BillingInv, [Next]_vars, NEW r \in Requests
    PROVE  /\ req[r].fundingUncertain => net'[r] = net[r]
           /\ req[r].tokenUncertain => net'[r]["token"] = net[r]["token"]
<1>1. SessionTypes /\ Sound(user.playground, req[r], net[r], job[r])
    BY Here
<1>2. /\ req[r].fundingUncertain => req[r].pc \in Between \cup Ended
      /\ req[r].tokenUncertain => req[r].pc \in {"resBack", "setBack"} \cup Between \cup Ended
      /\ req[r].fundingUncertain \/ req[r].tokenUncertain => job[r] = "none"
    BY <1>1 DEF Sound, InPlace, Uncertain
<1>3. CASE UNCHANGED vars \/ Stop \/ Drained \/ WaitRefunds \/ TimedOut
           \/ \E q \in Requests, k \in Kinds : Begin(q, k)
    BY <1>3 DEF vars, Stop, Drained, WaitRefunds, TimedOut, Become, Begin, Quiet
<1>4. CASE \E q \in Requests \ {r} : Handler(q) \/ Job(q)
    BY <1>1, <1>4, StepIsOwn
<1>5. CASE Handler(r)
    <2>1. CASE req[r].pc \in Between \cup Ended
        BY <1>5, <2>1, RestIsQuiet
    <2>2. CASE req[r].pc \in {"resBack", "setBack"}
        <3>1. ResBack(r) \/ SetBack(r) \/ LevyFund(r) \/ LevyTok(r)
            BY <1>5, <2>2 DEF Handler, Open, CheckWallet, PreToken, PreFund, PreBack, Route, ResFund,
                              ResTok, ResSub, Sent, Settle, SetFund, SetTok, SetSub, Refund,
                              Violation
        <3>2. LevyFund(r) \/ LevyTok(r) => net' = net
            BY DEF LevyFund, LevyTok, Charge
        <3> QED
            BY <1>1, <1>2, <2>2, <3>1, <3>2, BackSparesToken
    <2> QED
        BY <1>2, <2>1, <2>2
<1>6. CASE Job(r)
    BY <1>2, <1>6 DEF Job, JobSub, JobWallet, JobToken
<1> QED
    BY <1>3, <1>4, <1>5, <1>6 DEF Next

(* Once a charge has an unknown outcome, no step of the handler, of a retry, *)
(* of Settle or of the refund goroutine moves that money again.             *)
THEOREM UncertaintyFreezes == Spec => UncertainIsFrozen
<1> DEFINE A == \A r \in Requests :
                  /\ req[r].fundingUncertain => Funded(r)' = Funded(r)
                  /\ req[r].tokenUncertain => net[r].token' = net[r].token
<1>1. BillingInv /\ [Next]_vars => A
    <2> SUFFICES ASSUME BillingInv, [Next]_vars, NEW r \in Requests
                 PROVE  /\ req[r].fundingUncertain => Funded(r)' = Funded(r)
                        /\ req[r].tokenUncertain => net[r].token' = net[r].token
        OBVIOUS
    <2> QED
        BY Frozen DEF Funded
<1>2. BillingInv /\ [Next]_vars => [A]_vars
    BY <1>1
<1> QED
    BY <1>2, BillingInvariant, PTL DEF Spec, UncertainIsFrozen
=============================================================================
