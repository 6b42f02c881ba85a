-------------------------- MODULE UserSessionProofs --------------------------
(***************************************************************************)
(* Proofs about UserSession, for any number of requests, caches and clock   *)
(* units: SessionInv is inductive, and UserSession implements LoginSession. *)
(* SessionInv is taken apart by request and by cache, so that a step has to  *)
(* be looked at only where it writes.                                       *)
(***************************************************************************)
EXTENDS UserSession, TLAPS

RowInv ==
    /\ killed # Never <=> row.status = "revoked"
    /\ killed <= clock
    /\ row.ver <= row.uver /\ row.uver <= user

CallInv(p) ==
    /\ call[p].pc = "tomb" => row.status = "revoked"
    /\ call[p].pc = "advance" => call[p].uver < call[p].target /\ call[p].target <= user
    /\ InPlace(call[p].op, call[p].pc)
    /\ call[p].pc # "idle" => call[p].ans = "none"
    /\ call[p].deadline <= clock + TTL
    /\ killed # Never /\ call[p].pc \in Publishing => call[p].deadline <= killed + TTL
    /\ call[p].pc # "idle" /\ call[p].op \in Lookups =>
        /\ call[p].due = "deny" => Standing = "dead"
        /\ call[p].seen = "sealed" => call[p].cache \in sealed
        /\ call[p].due = "deny" \/ call[p].seen = "sealed" =>
              call[p].pc \in {"lookCache", "lookRow", "lookTomb"}
    /\ call[p].ans = "accepted" => call[p].seen = "open"

CacheInv(c) ==
    /\ cache[c].status = "active" =>
         /\ cache[c].exp <= Expiry /\ cache[c].exp <= clock + TTL
         /\ killed # Never => cache[c].exp <= killed + TTL
    /\ c \in sealed =>
         /\ killed # Never
         /\ \/ Covered
            \/ /\ cache[c].status \in {"revoking", "revoked"}
               /\ cache[c].exp >= killed + TTL \/ cache[c].exp >= Expiry

(* SessionInv, by request and by cache.                                    *)
LEMMA Parts ==
    ASSUME TypeOK
    PROVE  SessionInv <=> /\ RowInv
                          /\ \A p \in Calls : CallInv(p)
                          /\ \A c \in Caches : CacheInv(c)
<1>1. sealed \subseteq Caches
    BY DEF TypeOK
<1>2. ASSUME SessionInv PROVE RowInv
    BY <1>2 DEF SessionInv, RowInv, KilledIsRevoked, VersionsFollow
<1>3. ASSUME SessionInv, NEW p \in Calls PROVE CallInv(p)
    BY <1>3 DEF SessionInv, CallInv, KilledIsRevoked, VersionsFollow, CallsInPlace,
                WindowsBounded, LateCallsDenied, RevocationPrompt
<1>4. ASSUME SessionInv, NEW c \in Caches PROVE CacheInv(c)
    BY <1>4 DEF SessionInv, CacheInv, WindowsBounded, TombstonesCover
<1>5. ASSUME RowInv, \A p \in Calls : CallInv(p), \A c \in Caches : CacheInv(c)
      PROVE  SessionInv
    <2>1. KilledIsRevoked /\ VersionsFollow
        BY <1>5 DEF RowInv, CallInv, KilledIsRevoked, VersionsFollow
    <2>2. CallsInPlace /\ LateCallsDenied /\ RevocationPrompt
        BY <1>5 DEF CallInv, CallsInPlace, LateCallsDenied, RevocationPrompt
    <2>3. WindowsBounded
        BY <1>5 DEF CallInv, CacheInv, WindowsBounded
    <2>4. TombstonesCover
        BY <1>1, <1>5 DEF CacheInv, TombstonesCover
    <2> QED
        BY <2>1, <2>2, <2>3, <2>4 DEF SessionInv
<1> QED
    BY <1>2, <1>3, <1>4, <1>5

(* The same of the state after a step.                                     *)
LEMMA PartsNext ==
    ASSUME TypeOK', RowInv', \A p \in Calls : CallInv(p)', \A c \in Caches : CacheInv(c)'
    PROVE  SessionInv'
<1>1. sealed' \subseteq Caches
    BY DEF TypeOK
<1>2. KilledIsRevoked' /\ VersionsFollow'
    BY DEF RowInv, CallInv, KilledIsRevoked, VersionsFollow
<1>3. CallsInPlace' /\ LateCallsDenied' /\ RevocationPrompt'
    BY DEF CallInv, CallsInPlace, LateCallsDenied, RevocationPrompt
<1>4. WindowsBounded'
    BY DEF CallInv, CacheInv, WindowsBounded
<1>5. TombstonesCover'
    BY <1>1 DEF CacheInv, TombstonesCover
<1> QED
    BY <1>2, <1>3, <1>4, <1>5 DEF SessionInv

(***************************************************************************)
(* What a step does to the request that takes it.                          *)
(***************************************************************************)
OnlyCall(p) ==
    /\ call' \in [Calls -> Call]
    /\ \A q \in Calls \ {p} : call'[q] = call[q]

(* What a request under way never changes.                                 *)
Kept(x, y) ==
    /\ y.op = x.op /\ y.cache = x.cache
    /\ y.due = x.due /\ y.seen = x.seen /\ y.ans = x.ans

(* The request goes on, with these locals.                                 *)
Moved(p, pc, ver, uver, deadline, target) ==
    /\ OnlyCall(p)
    /\ call'[p].pc = pc
    /\ call'[p].ver = ver /\ call'[p].uver = uver
    /\ call'[p].deadline = deadline /\ call'[p].target = target
    /\ Kept(call[p], call'[p])

(* The request ends with answer a.                                         *)
Ended(p, a) ==
    /\ OnlyCall(p)
    /\ call'[p].pc = "idle" /\ call'[p].deadline = 0
    /\ call[p].op \in Lookups => call'[p].seen = call[p].seen /\ call'[p].ans = a
    /\ call[p].op \notin Lookups => call'[p].seen = "open" /\ call'[p].ans = "none"

Answers == {"none", "accepted", "denied", "error"}

(* What a caller sees of a step: its request is still under way, or has    *)
(* been answered; a lookup is told something, and accepted only when it may *)
(* be.                                                                     *)
Shaped(p) ==
    /\ OnlyCall(p) /\ call[p].pc # "idle"
    /\ \/ call'[p].pc # "idle" /\ Kept(call[p], call'[p])
       \/ \E a \in Answers :
            /\ Ended(p, a)
            /\ call[p].op \in Lookups => a # "none" /\ (a = "accepted" => call[p].due = "may")

LEMMA IdleTyped ==
    ASSUME NEW s \in {"open", "sealed"}, NEW a \in Answers
    PROVE  Idle(s, a) \in Call
<1>1. (CHOOSE o \in Ops : TRUE) \in Ops /\ (CHOOSE c \in Caches : TRUE) \in Caches
    BY OpsAssumption, CachesAssumption
<1>2. 1 \in Versions /\ 0 \in 0..MaxGen
    BY TimesAssumption DEF Versions
<1> QED
    BY <1>1, <1>2 DEF Idle, Call, PCs, Answers

LEMMA AnswerEnds ==
    ASSUME TypeOK, NEW p \in Calls, NEW a \in Answers, Answer(p, a)
    PROVE  Ended(p, a)
<1>1. call[p] \in Call /\ call[p].seen \in {"open", "sealed"}
    BY DEF TypeOK, Call
<1>2. Idle(call[p].seen, a) \in Call /\ Idle("open", "none") \in Call
    BY <1>1, IdleTyped DEF Answers
<1>3. call' \in [Calls -> Call] /\ \A q \in Calls \ {p} : call'[q] = call[q]
    BY <1>2 DEF Answer, TypeOK
<1>4. call'[p] = IF call[p].op \in Lookups THEN Idle(call[p].seen, a) ELSE Idle("open", "none")
    BY DEF Answer, TypeOK
<1> QED
    BY <1>3, <1>4 DEF Ended, OnlyCall, Idle

(* A request that replaces its locals by typed ones.                       *)
LEMMA Replaces ==
    ASSUME TypeOK, NEW p \in Calls, NEW y \in Call, call' = [call EXCEPT ![p] = y]
    PROVE  OnlyCall(p) /\ call'[p] = y
BY DEF TypeOK, OnlyCall

LEMMA StepMoves ==
    ASSUME TypeOK, NEW p \in Calls, NEW pc \in PCs, Step(p, pc)
    PROVE  Moved(p, pc, call[p].ver, call[p].uver, call[p].deadline, call[p].target)
<1> DEFINE y(x) == [x EXCEPT !.pc = pc]
<1>1. ASSUME NEW x \in Call
      PROVE  /\ y(x) \in Call /\ Kept(x, y(x))
             /\ y(x).pc = pc /\ y(x).ver = x.ver /\ y(x).uver = x.uver
             /\ y(x).deadline = x.deadline /\ y(x).target = x.target
    BY DEF Call, Kept
<1>2. call[p] \in Call
    BY DEF TypeOK
<1>3. call' = [call EXCEPT ![p] = y(call[p])]
    BY DEF Step, TypeOK
<1>4. OnlyCall(p) /\ call'[p] = y(call[p])
    BY <1>1, <1>2, <1>3, Replaces
<1> QED
    BY <1>1, <1>2, <1>4 DEF Moved

(* A lookup takes the versions of the snapshot or of the row.              *)
LEMMA VersionsMove ==
    ASSUME TypeOK, NEW p \in Calls, NEW pc \in PCs,
           NEW ver \in Versions, NEW uver \in Versions,
           call' = [call EXCEPT ![p].pc = pc, ![p].ver = ver, ![p].uver = uver]
    PROVE  Moved(p, pc, ver, uver, call[p].deadline, call[p].target)
<1> DEFINE y(x) == [x EXCEPT !.pc = pc, !.ver = ver, !.uver = uver]
<1>1. ASSUME NEW x \in Call
      PROVE  /\ y(x) \in Call /\ Kept(x, y(x))
             /\ y(x).pc = pc /\ y(x).ver = ver /\ y(x).uver = uver
             /\ y(x).deadline = x.deadline /\ y(x).target = x.target
    BY DEF Call, Kept
<1>2. call[p] \in Call
    BY DEF TypeOK
<1>3. call' = [call EXCEPT ![p] = y(call[p])]
    BY DEF TypeOK
<1>4. OnlyCall(p) /\ call'[p] = y(call[p])
    BY <1>1, <1>2, <1>3, Replaces
<1> QED
    BY <1>1, <1>2, <1>4 DEF Moved

(* A window begins, or is done with.                                       *)
LEMMA DeadlineMoves ==
    ASSUME TypeOK, NEW p \in Calls, NEW pc \in PCs,
           NEW deadline \in Int,
           call' = [call EXCEPT ![p].pc = pc, ![p].deadline = deadline]
    PROVE  Moved(p, pc, call[p].ver, call[p].uver, deadline, call[p].target)
<1> DEFINE y(x) == [x EXCEPT !.pc = pc, !.deadline = deadline]
<1>1. ASSUME NEW x \in Call
      PROVE  /\ y(x) \in Call /\ Kept(x, y(x))
             /\ y(x).pc = pc /\ y(x).ver = x.ver /\ y(x).uver = x.uver
             /\ y(x).deadline = deadline /\ y(x).target = x.target
    BY DEF Call, Kept
<1>2. call[p] \in Call
    BY DEF TypeOK
<1>3. call' = [call EXCEPT ![p] = y(call[p])]
    BY DEF TypeOK
<1>4. OnlyCall(p) /\ call'[p] = y(call[p])
    BY <1>1, <1>2, <1>3, Replaces
<1> QED
    BY <1>1, <1>2, <1>4 DEF Moved

(* A refresh meets the user's version.                                     *)
LEMMA WhyMoves ==
    ASSUME TypeOK, NEW p \in Calls, NEW pc \in PCs,
           NEW why \in {"none", "logout", "reuse", "security"}, NEW now \in Nat,
           call' = [call EXCEPT ![p].pc = pc, ![p].why = why, ![p].now = now]
    PROVE  Moved(p, pc, call[p].ver, call[p].uver, call[p].deadline, call[p].target)
<1> DEFINE y(x) == [x EXCEPT !.pc = pc, !.why = why, !.now = now]
<1>1. ASSUME NEW x \in Call
      PROVE  /\ y(x) \in Call /\ Kept(x, y(x))
             /\ y(x).pc = pc /\ y(x).ver = x.ver /\ y(x).uver = x.uver
             /\ y(x).deadline = x.deadline /\ y(x).target = x.target
    BY DEF Call, Kept
<1>2. call[p] \in Call
    BY DEF TypeOK
<1>3. call' = [call EXCEPT ![p] = y(call[p])]
    BY DEF TypeOK
<1>4. OnlyCall(p) /\ call'[p] = y(call[p])
    BY <1>1, <1>2, <1>3, Replaces
<1> QED
    BY <1>1, <1>2, <1>4 DEF Moved

(* A window begins and a row is read.                                      *)
LEMMA WindowMoves ==
    ASSUME TypeOK, NEW p \in Calls, NEW pc \in PCs,
           NEW deadline \in Int, NEW ver \in Versions, NEW uver \in Versions,
           call' = [call EXCEPT ![p].pc = pc, ![p].deadline = deadline, ![p].ver = ver, ![p].uver = uver]
    PROVE  Moved(p, pc, ver, uver, deadline, call[p].target)
<1> DEFINE y(x) == [x EXCEPT !.pc = pc, !.deadline = deadline, !.ver = ver, !.uver = uver]
<1>1. ASSUME NEW x \in Call
      PROVE  /\ y(x) \in Call /\ Kept(x, y(x))
             /\ y(x).pc = pc /\ y(x).ver = ver /\ y(x).uver = uver
             /\ y(x).deadline = deadline /\ y(x).target = x.target
    BY DEF Call, Kept
<1>2. call[p] \in Call
    BY DEF TypeOK
<1>3. call' = [call EXCEPT ![p] = y(call[p])]
    BY DEF TypeOK
<1>4. OnlyCall(p) /\ call'[p] = y(call[p])
    BY <1>1, <1>2, <1>3, Replaces
<1> QED
    BY <1>1, <1>2, <1>4 DEF Moved

(* A refresh finds its token used.                                         *)
LEMMA ReuseMoves ==
    ASSUME TypeOK, NEW p \in Calls, NEW pc \in PCs,
           NEW why \in {"none", "logout", "reuse", "security"}, NEW ver \in Versions, NEW uver \in Versions,
           call' = [call EXCEPT ![p].pc = pc, ![p].why = why, ![p].ver = ver, ![p].uver = uver]
    PROVE  Moved(p, pc, ver, uver, call[p].deadline, call[p].target)
<1> DEFINE y(x) == [x EXCEPT !.pc = pc, !.why = why, !.ver = ver, !.uver = uver]
<1>1. ASSUME NEW x \in Call
      PROVE  /\ y(x) \in Call /\ Kept(x, y(x))
             /\ y(x).pc = pc /\ y(x).ver = ver /\ y(x).uver = uver
             /\ y(x).deadline = x.deadline /\ y(x).target = x.target
    BY DEF Call, Kept
<1>2. call[p] \in Call
    BY DEF TypeOK
<1>3. call' = [call EXCEPT ![p] = y(call[p])]
    BY DEF TypeOK
<1>4. OnlyCall(p) /\ call'[p] = y(call[p])
    BY <1>1, <1>2, <1>3, Replaces
<1> QED
    BY <1>1, <1>2, <1>4 DEF Moved

(* A revocation reads the row.                                             *)
LEMMA ReadMoves ==
    ASSUME TypeOK, NEW p \in Calls, NEW pc \in PCs,
           NEW now \in Nat, NEW ver \in Versions, NEW uver \in Versions,
           call' = [call EXCEPT ![p].pc = pc, ![p].now = now, ![p].ver = ver, ![p].uver = uver]
    PROVE  Moved(p, pc, ver, uver, call[p].deadline, call[p].target)
<1> DEFINE y(x) == [x EXCEPT !.pc = pc, !.now = now, !.ver = ver, !.uver = uver]
<1>1. ASSUME NEW x \in Call
      PROVE  /\ y(x) \in Call /\ Kept(x, y(x))
             /\ y(x).pc = pc /\ y(x).ver = ver /\ y(x).uver = uver
             /\ y(x).deadline = x.deadline /\ y(x).target = x.target
    BY DEF Call, Kept
<1>2. call[p] \in Call
    BY DEF TypeOK
<1>3. call' = [call EXCEPT ![p] = y(call[p])]
    BY DEF TypeOK
<1>4. OnlyCall(p) /\ call'[p] = y(call[p])
    BY <1>1, <1>2, <1>3, Replaces
<1> QED
    BY <1>1, <1>2, <1>4 DEF Moved

(* A call settles on the version to move to.                               *)
LEMMA TargetMoves ==
    ASSUME TypeOK, NEW p \in Calls, NEW pc \in PCs,
           NEW target \in Versions,
           call' = [call EXCEPT ![p].pc = pc, ![p].target = target]
    PROVE  Moved(p, pc, call[p].ver, call[p].uver, call[p].deadline, target)
<1> DEFINE y(x) == [x EXCEPT !.pc = pc, !.target = target]
<1>1. ASSUME NEW x \in Call
      PROVE  /\ y(x) \in Call /\ Kept(x, y(x))
             /\ y(x).pc = pc /\ y(x).ver = x.ver /\ y(x).uver = x.uver
             /\ y(x).deadline = x.deadline /\ y(x).target = target
    BY DEF Call, Kept
<1>2. call[p] \in Call
    BY DEF TypeOK
<1>3. call' = [call EXCEPT ![p] = y(call[p])]
    BY DEF TypeOK
<1>4. OnlyCall(p) /\ call'[p] = y(call[p])
    BY <1>1, <1>2, <1>3, Replaces
<1> QED
    BY <1>1, <1>2, <1>4 DEF Moved

(* A session has been moved.                                               *)
LEMMA AdvanceMoves ==
    ASSUME TypeOK, NEW p \in Calls, NEW pc \in PCs,
           NEW ver \in Versions, NEW uver \in Versions, NEW deadline \in Int,
           call' = [call EXCEPT ![p].pc = pc, ![p].ver = ver, ![p].uver = uver, ![p].deadline = deadline]
    PROVE  Moved(p, pc, ver, uver, deadline, call[p].target)
<1> DEFINE y(x) == [x EXCEPT !.pc = pc, !.ver = ver, !.uver = uver, !.deadline = deadline]
<1>1. ASSUME NEW x \in Call
      PROVE  /\ y(x) \in Call /\ Kept(x, y(x))
             /\ y(x).pc = pc /\ y(x).ver = ver /\ y(x).uver = uver
             /\ y(x).deadline = deadline /\ y(x).target = x.target
    BY DEF Call, Kept
<1>2. call[p] \in Call
    BY DEF TypeOK
<1>3. call' = [call EXCEPT ![p] = y(call[p])]
    BY DEF TypeOK
<1>4. OnlyCall(p) /\ call'[p] = y(call[p])
    BY <1>1, <1>2, <1>3, Replaces
<1> QED
    BY <1>1, <1>2, <1>4 DEF Moved

(* A lost swap is retried at most twice.                                   *)
LEMMA RetryMoves ==
    ASSUME TypeOK, NEW p \in Calls, call[p].tries # 2,
           call' = [call EXCEPT ![p].tries = @ + 1, ![p].pc = "rotRead"]
    PROVE  Moved(p, "rotRead", call[p].ver, call[p].uver, call[p].deadline, call[p].target)
<1> DEFINE y(x) == [x EXCEPT !.tries = @ + 1, !.pc = "rotRead"]
<1>1. ASSUME NEW x \in Call, x.tries # 2
      PROVE  /\ y(x) \in Call /\ Kept(x, y(x))
             /\ y(x).pc = "rotRead" /\ y(x).ver = x.ver /\ y(x).uver = x.uver
             /\ y(x).deadline = x.deadline /\ y(x).target = x.target
    <2>1. x.tries \in 0..2
        BY DEF Call
    <2>2. x.tries + 1 \in 0..2
        BY <1>1, <2>1
    <2> HIDE DEF y
    <2>3. y(x) = [x EXCEPT !.tries = x.tries + 1, !.pc = "rotRead"]
        BY DEF y, Call
    <2> QED
        BY <2>2, <2>3 DEF Call, Kept, PCs
<1>2. call[p] \in Call
    BY DEF TypeOK
<1>3. call' = [call EXCEPT ![p] = y(call[p])]
    BY DEF TypeOK
<1>4. OnlyCall(p) /\ call'[p] = y(call[p])
    BY <1>1, <1>2, <1>3, Replaces
<1> HIDE DEF y
<1> QED
    BY <1>1, <1>2, <1>4 DEF Moved

(***************************************************************************)
(* What a step does to everything else.                                    *)
(***************************************************************************)
EnvStep ==
    /\ clock <= clock' /\ user <= user' /\ sealed \subseteq sealed'
    /\ \/ killed' = killed /\ row'.status = row.status
       \/ killed = Never /\ killed' = clock /\ clock' = clock /\ row'.status = "revoked"

(* The session does not come back to life.                                 *)
LEMMA DeadStaysDead ==
    ASSUME TypeOK, TypeOK', EnvStep, Standing = "dead"
    PROVE  Standing' = "dead"
<1>1. /\ clock \in Nat /\ clock' \in Nat /\ TTL \in Nat /\ Expiry \in Nat
      /\ killed \in Int /\ killed' \in Int
    BY TimesAssumption DEF TypeOK, Never
<1>2. clock >= Expiry \/ (killed # Never /\ clock >= killed + TTL)
    BY DEF Standing
<1>3. clock <= clock'
    BY DEF EnvStep
<1>4. CASE killed' = killed
    BY <1>1, <1>2, <1>3, <1>4 DEF Standing
<1>5. CASE killed = Never /\ clock' = clock
    BY <1>2, <1>5 DEF Standing
<1> QED
    BY <1>4, <1>5 DEF EnvStep

(* The other requests keep their part of the invariant.                    *)
LEMMA CallFrame ==
    ASSUME TypeOK, TypeOK', EnvStep, NEW q \in Calls, CallInv(q), call'[q] = call[q]
    PROVE  CallInv(q)'
<1>1. call[q] \in Call /\ call[q].deadline \in Int /\ call[q].target \in Versions
    BY DEF TypeOK, Call
<1>2. /\ clock \in Nat /\ clock' \in Nat /\ TTL \in Nat
      /\ killed \in Int /\ killed' \in Int
      /\ user \in Int /\ user' \in Int /\ call[q].target \in Int
    BY <1>1, TimesAssumption DEF TypeOK, Never, Versions
<1>3. /\ call[q].pc = "tomb" => row'.status = "revoked"
      /\ call[q].pc = "advance" => call[q].uver < call[q].target /\ call[q].target <= user'
      /\ call[q].deadline <= clock' + TTL
      /\ killed' # Never /\ call[q].pc \in Publishing => call[q].deadline <= killed' + TTL
    BY <1>1, <1>2 DEF EnvStep, CallInv
<1>4. call[q].pc # "idle" /\ call[q].op \in Lookups =>
        /\ call[q].due = "deny" => Standing' = "dead"
        /\ call[q].seen = "sealed" => call[q].cache \in sealed'
    BY DeadStaysDead DEF EnvStep, CallInv
<1> QED
    BY <1>3, <1>4 DEF CallInv

(* A cache that is not written keeps its part.                             *)
LEMMA CacheFrame ==
    ASSUME TypeOK, TypeOK', RowInv, EnvStep, NEW c \in Caches, CacheInv(c),
           cache'[c] = cache[c], c \in sealed' => c \in sealed
    PROVE  CacheInv(c)'
<1>1. cache[c].exp \in Int
    BY DEF TypeOK, Entry
<1>2. /\ clock \in Nat /\ clock' \in Nat /\ TTL \in Nat /\ Expiry \in Nat
      /\ killed \in Int /\ killed' \in Int
    BY TimesAssumption DEF TypeOK, Never
<1>3. ASSUME cache[c].status = "active"
      PROVE  /\ cache[c].exp <= Expiry /\ cache[c].exp <= clock' + TTL
             /\ killed' # Never => cache[c].exp <= killed' + TTL
    BY <1>1, <1>2, <1>3 DEF EnvStep, CacheInv
<1>4. ASSUME c \in sealed
      PROVE  /\ killed' = killed /\ killed # Never
             /\ Covered => clock' >= killed + TTL \/ clock' >= Expiry
    BY <1>2, <1>4 DEF EnvStep, CacheInv, Covered
<1> QED
    BY <1>3, <1>4 DEF CacheInv, Covered

(* A deny snapshot covers every window that is open: it lasts as long as    *)
(* the session, or as long as a snapshot stored now may.                    *)
LEMMA DenyWritten ==
    ASSUME TypeOK, RowInv, NEW c \in Caches, NEW s \in {"revoking", "revoked"}, NEW v, NEW u,
           cache'[c] = DenyEntry(s, v, u), UNCHANGED <<clock, killed>>,
           c \in sealed' => killed # Never
    PROVE  CacheInv(c)'
<1>1. /\ clock \in Nat /\ TTL \in Nat /\ Expiry \in Nat /\ killed \in Int
    BY TimesAssumption DEF TypeOK, Never
<1>2. cache'[c].status = s /\ cache'[c].exp = clock + DenyTTL
    BY DEF DenyEntry
<1>3. \/ Expiry <= clock
      \/ Expiry > clock /\ Expiry - clock < TTL /\ clock + DenyTTL = Expiry
      \/ Expiry > clock /\ Expiry - clock >= TTL /\ clock + DenyTTL = clock + TTL
    BY <1>1 DEF DenyTTL
<1>4. clock + DenyTTL >= Expiry \/ clock + DenyTTL >= killed + TTL \/ clock >= Expiry
    BY <1>1, <1>3 DEF RowInv
<1>5. Covered' = Covered
    BY DEF Covered
<1> QED
    BY <1>1, <1>2, <1>4, <1>5 DEF CacheInv, Covered

(* Writing over a tombstone: it has expired, so all it had to cover has.   *)
LEMMA OverwriteCovered ==
    ASSUME TypeOK, NEW c \in Caches, CacheInv(c), NEW v, MayWrite(c, "active", v), c \in sealed
    PROVE  killed # Never /\ Covered
<1>1. cache[c].exp \in Int
    BY DEF TypeOK, Entry
<1>2. /\ clock \in Nat /\ TTL \in Nat /\ Expiry \in Nat /\ killed \in Int
    BY TimesAssumption DEF TypeOK, Never
<1> QED
    BY <1>1, <1>2 DEF CacheInv, Covered, MayWrite, Live

(* A request that publishes stores nothing that outlives its window.       *)
LEMMA ActiveWritten ==
    ASSUME TypeOK, NEW p \in Calls, CallInv(p), call[p].pc \in Publishing,
           NEW c \in Caches, CacheInv(c), MayWrite(c, "active", call[p].ver),
           cache'[c] = ActiveEntry(p), UNCHANGED <<clock, killed, sealed>>
    PROVE  CacheInv(c)'
<1>1. call[p].deadline \in Int
    BY DEF TypeOK, Call
<1>2. /\ clock \in Nat /\ TTL \in Nat /\ Expiry \in Nat /\ killed \in Int
    BY TimesAssumption DEF TypeOK, Never
<1>3. cache'[c].status = "active" /\ cache'[c].exp = FillExpiry(p)
    BY DEF ActiveEntry
<1>4. FillExpiry(p) \in Int /\ FillExpiry(p) <= Expiry /\ FillExpiry(p) <= call[p].deadline
    BY <1>1, <1>2 DEF FillExpiry
<1>5. c \in sealed => killed # Never /\ Covered
    BY OverwriteCovered
<1>6. Covered' = Covered
    BY DEF Covered
<1> QED
    BY <1>1, <1>2, <1>3, <1>4, <1>5, <1>6 DEF CacheInv, CallInv

LEMMA NothingWritten ==
    ASSUME TypeOK, NEW c \in Caches, CacheInv(c), NEW v, MayWrite(c, "active", v),
           cache'[c] = NoEntry, UNCHANGED <<clock, killed, sealed>>
    PROVE  CacheInv(c)'
<1>1. c \in sealed => killed # Never /\ Covered
    BY OverwriteCovered
<1>2. Covered' = Covered
    BY DEF Covered
<1> QED
    BY <1>1, <1>2 DEF CacheInv, NoEntry

(***************************************************************************)
(* The request that takes the step keeps its part.                         *)
(***************************************************************************)

LEMMA WindowsOpen == \A t \in Nat : 0 <= t + TTL
BY TimesAssumption

(* An answer: only a request for which the session was open is accepted.   *)
LEMMA EndedInv ==
    ASSUME TypeOK, TypeOK', NEW p \in Calls, NEW a \in Answers, Ended(p, a),
           a = "accepted" /\ call[p].op \in Lookups => call[p].seen = "open"
    PROVE  CallInv(p)'
<1>1. call'[p].pc = "idle" /\ call'[p].deadline = 0
    BY DEF Ended
<1>2. call'[p].ans = "accepted" => call'[p].seen = "open"
    BY DEF Ended
<1>3. 0 <= clock' + TTL
    <2>1. clock' \in Nat
        BY DEF TypeOK
    <2> QED
        BY <2>1, WindowsOpen
<1>4. InPlace(call'[p].op, call'[p].pc)
    BY <1>1 DEF InPlace
<1>5. call'[p].pc \notin Publishing
    BY <1>1 DEF Publishing
<1> QED
    BY <1>1, <1>2, <1>3, <1>4, <1>5 DEF CallInv

(* A move: what has to be shown of the new control state.                  *)
LEMMA MovedInv ==
    ASSUME TypeOK, TypeOK', EnvStep, NEW p \in Calls, CallInv(p), call[p].pc # "idle",
           NEW pc, NEW ver, NEW uver, NEW deadline, NEW target,
           Moved(p, pc, ver, uver, deadline, target),
           pc = "tomb" => row'.status = "revoked",
           pc = "advance" => uver < target /\ target <= user',
           pc # "idle", InPlace(call[p].op, pc),
           deadline <= clock' + TTL,
           killed' # Never /\ pc \in Publishing => deadline <= killed' + TTL,
           call[p].op \in Lookups =>
              \/ pc \in {"lookCache", "lookRow", "lookTomb"}
              \/ call[p].due # "deny" /\ call[p].seen # "sealed"
    PROVE  CallInv(p)'
<1>1. /\ call'[p].pc = pc /\ call'[p].op = call[p].op /\ call'[p].cache = call[p].cache
      /\ call'[p].due = call[p].due /\ call'[p].seen = call[p].seen
      /\ call'[p].ans = call[p].ans
      /\ call'[p].uver = uver /\ call'[p].target = target /\ call'[p].deadline = deadline
    BY DEF Moved, Kept
<1>2. call[p].ans = "none"
    BY DEF CallInv
<1>3. call[p].op \in Lookups =>
        /\ call[p].due = "deny" => Standing' = "dead"
        /\ call[p].seen = "sealed" => call[p].cache \in sealed'
    BY DeadStaysDead DEF CallInv, EnvStep
<1> QED
    BY <1>1, <1>2, <1>3 DEF CallInv

(* A lookup that is past the tombstone began in time.                      *)
LEMMA PastTombstone ==
    ASSUME TypeOK, NEW p \in Calls, CallInv(p), call[p].op \in Lookups,
           call[p].pc \notin {"idle", "lookCache", "lookRow", "lookTomb"}
    PROVE  call[p].due = "may" /\ call[p].seen = "open"
<1>1. call[p].due \in {"may", "deny"} /\ call[p].seen \in {"open", "sealed"}
    BY DEF TypeOK, Call
<1> QED
    BY <1>1 DEF CallInv

(* The parts make up the invariant again.                                  *)
LEMMA Assembled ==
    ASSUME SessionInv, TypeOK', RowInv', EnvStep, NEW p \in Calls, OnlyCall(p), CallInv(p)',
           \A c \in Caches : CacheInv(c)'
    PROVE  SessionInv'
<1>1. TypeOK /\ \A q \in Calls : CallInv(q)
    BY Parts DEF SessionInv
<1>2. ASSUME NEW q \in Calls PROVE CallInv(q)'
    <2>1. CASE q = p
        BY <2>1
    <2>2. CASE q # p
        BY <1>1, <2>2, CallFrame DEF OnlyCall
    <2> QED
        BY <2>1, <2>2
<1> QED
    BY <1>2, PartsNext

(* A step that leaves time, the row and the user alone.                    *)
LEMMA KeepRowEnv ==
    ASSUME TypeOK, RowInv, KeepRow, sealed \subseteq sealed'
    PROVE  EnvStep /\ RowInv'
<1>1. clock <= clock /\ user <= user
    BY TimesAssumption DEF TypeOK, Versions
<1> QED
    BY <1>1 DEF KeepRow, EnvStep, RowInv

LEMMA KeepRowTyped ==
    ASSUME TypeOK, KeepRow, call' \in [Calls -> Call], cache' \in [Caches -> Entry],
           sealed' \subseteq Caches, faults' \in 0..MaxFaults
    PROVE  TypeOK'
BY DEF TypeOK, KeepRow

(* A step that writes nothing but the locals of its request.               *)
LEMMA LocalStep ==
    ASSUME SessionInv, KeepRow, UNCHANGED <<cache, sealed>>, faults' \in 0..MaxFaults,
           NEW p \in Calls, OnlyCall(p), TypeOK' => CallInv(p)'
    PROVE  SessionInv'
<1>1. TypeOK /\ RowInv /\ \A c \in Caches : CacheInv(c)
    BY Parts DEF SessionInv
<1>2. TypeOK'
    <2>1. cache' \in [Caches -> Entry] /\ sealed' \subseteq Caches
        BY <1>1 DEF TypeOK
    <2> QED
        BY <1>1, <2>1, KeepRowTyped DEF OnlyCall
<1>3. EnvStep /\ RowInv'
    BY <1>1, KeepRowEnv
<1>4. ASSUME NEW c \in Caches PROVE CacheInv(c)'
    BY <1>1, <1>2, <1>3, CacheFrame
<1> QED
    BY <1>2, <1>3, <1>4, Assembled

LEMMA MovedShaped ==
    ASSUME NEW p \in Calls, NEW pc, NEW ver, NEW uver, NEW deadline, NEW target,
           Moved(p, pc, ver, uver, deadline, target), pc # "idle", call[p].pc # "idle"
    PROVE  Shaped(p)
BY DEF Moved, Shaped

LEMMA EndedShaped ==
    ASSUME NEW p \in Calls, NEW a \in Answers, Ended(p, a), call[p].pc # "idle",
           call[p].op \in Lookups => a # "none" /\ (a = "accepted" => call[p].due = "may")
    PROVE  Shaped(p)
BY DEF Ended, Shaped

LEMMA Given ==
    ASSUME SessionInv
    PROVE  /\ TypeOK /\ RowInv
           /\ \A p \in Calls : CallInv(p)
           /\ \A c \in Caches : CacheInv(c)
BY Parts DEF SessionInv

LEMMA FaultsTyped ==
    ASSUME TypeOK, Fault \/ NoFault
    PROVE  faults' \in 0..MaxFaults
BY TimesAssumption DEF TypeOK, Fault, NoFault

(* A step that answers and does nothing else.                              *)
LEMMA EndStep ==
    ASSUME SessionInv, KeepRow, UNCHANGED <<cache, sealed>>, Fault \/ NoFault,
           NEW p \in Calls, NEW a \in Answers, Answer(p, a), call[p].pc # "idle",
           call[p].op \in Lookups =>
             a # "none" /\ (a = "accepted" => call[p].due = "may" /\ call[p].seen = "open")
    PROVE  SessionInv' /\ Shaped(p)
<1>1. TypeOK /\ faults' \in 0..MaxFaults
    BY Given, FaultsTyped
<1>2. Ended(p, a)
    BY <1>1, AnswerEnds
<1>3. TypeOK' => CallInv(p)'
    BY <1>1, <1>2, EndedInv
<1> QED
    BY <1>1, <1>2, <1>3, LocalStep, EndedShaped DEF Ended

(* A step that moves on and does nothing else.                             *)
LEMMA MoveStep ==
    ASSUME SessionInv, KeepRow, UNCHANGED <<cache, sealed>>, Fault \/ NoFault,
           NEW p \in Calls, call[p].pc # "idle",
           NEW pc, NEW ver, NEW uver, NEW deadline, NEW target,
           Moved(p, pc, ver, uver, deadline, target),
           pc # "tomb",
           pc = "advance" => uver < target /\ target <= user,
           pc # "idle", InPlace(call[p].op, pc),
           deadline <= clock + TTL,
           killed # Never /\ pc \in Publishing => deadline <= killed + TTL,
           call[p].op \in Lookups =>
              \/ pc \in {"lookCache", "lookRow", "lookTomb"}
              \/ call[p].due # "deny" /\ call[p].seen # "sealed"
    PROVE  SessionInv' /\ Shaped(p)
<1>1. TypeOK /\ RowInv /\ CallInv(p) /\ faults' \in 0..MaxFaults
    BY Given, FaultsTyped
<1>2. EnvStep
    BY <1>1, KeepRowEnv
<1>3. clock' = clock /\ user' = user /\ killed' = killed
    BY DEF KeepRow
<1>4. TypeOK' => CallInv(p)'
    BY <1>1, <1>2, <1>3, MovedInv
<1> QED
    BY <1>1, <1>4, LocalStep, MovedShaped DEF Moved

(***************************************************************************)
(* One lemma for each kind of step: SessionInv is kept.                    *)
(***************************************************************************)
LEMMA TickKeeps ==
    ASSUME SessionInv, Tick
    PROVE  SessionInv'
<1>1. /\ TypeOK /\ RowInv
      /\ \A p \in Calls : CallInv(p)
      /\ \A c \in Caches : CacheInv(c)
    BY Given
<1>2. clock + 1 \in 0..MaxClock /\ clock <= clock + 1 /\ user <= user /\ killed <= clock + 1
    <2>1. clock \in 0..MaxClock /\ user \in Nat /\ killed \in Int /\ MaxClock \in Nat
        BY <1>1, TimesAssumption DEF TypeOK, Versions, Never
    <2> QED
        BY <1>1, <2>1 DEF Tick, RowInv
<1>3. TypeOK'
    BY <1>1, <1>2 DEF TypeOK, Tick
<1>4. EnvStep /\ RowInv'
    BY <1>1, <1>2 DEF Tick, EnvStep, RowInv
<1>5. ASSUME NEW q \in Calls PROVE CallInv(q)'
    BY <1>1, <1>3, <1>4, CallFrame DEF Tick
<1>6. ASSUME NEW c \in Caches PROVE CacheInv(c)'
    BY <1>1, <1>3, <1>4, CacheFrame DEF Tick
<1> QED
    BY <1>3, <1>4, <1>5, <1>6, PartsNext

LEMMA BeginKeeps ==
    ASSUME SessionInv, NEW p \in Calls, NEW o \in Ops, NEW c \in Caches, Begin(p, o, c)
    PROVE  SessionInv'
<1>1. TypeOK /\ RowInv /\ row \in Row
    BY Given DEF TypeOK
<1>2. PICK t \in IF o \in {"refresh", "logout"} THEN 1..row.gen ELSE {0} :
         call' = [call EXCEPT ![p] =
                   [op |-> o, pc |-> CASE o \in Lookups -> "lookCache"
                                       [] o \in {"revoke", "logout"} -> "revRead"
                                       [] OTHER -> "bump",
                    cache |-> c, deadline |-> 0, tok |-> t, now |-> 0, tries |-> 0,
                    ver |-> IF o = "advance" THEN row.ver ELSE 1,
                    uver |-> IF o = "advance" THEN row.uver ELSE 1,
                    target |-> 1, why |-> IF o \in {"revoke", "logout"} THEN "logout" ELSE "none",
                    due |-> IF Standing = "dead" THEN "deny" ELSE "may",
                    seen |-> IF c \in sealed THEN "sealed" ELSE "open", ans |-> "none"]]
    BY DEF Begin
<1> DEFINE pc == CASE o \in Lookups -> "lookCache"
                   [] o \in {"revoke", "logout"} -> "revRead"
                   [] OTHER -> "bump"
           y == [op |-> o, pc |-> pc,
                    cache |-> c, deadline |-> 0, tok |-> t, now |-> 0, tries |-> 0,
                    ver |-> IF o = "advance" THEN row.ver ELSE 1,
                    uver |-> IF o = "advance" THEN row.uver ELSE 1,
                    target |-> 1, why |-> IF o \in {"revoke", "logout"} THEN "logout" ELSE "none",
                    due |-> IF Standing = "dead" THEN "deny" ELSE "may",
                    seen |-> IF c \in sealed THEN "sealed" ELSE "open", ans |-> "none"]
<1>3. /\ o \in Lookups => pc = "lookCache"
      /\ o \in {"revoke", "logout"} => pc = "revRead"
      /\ o \in {"advance", "bump"} => pc = "bump"
      /\ pc \in {"lookCache", "revRead", "bump"}
    BY OpsAssumption DEF Lookups
<1> HIDE DEF pc
<1>4. t \in 0..MaxGen
    BY <1>1, TimesAssumption DEF Row
<1>5. /\ row.ver \in Versions /\ row.uver \in Versions /\ 1 \in Versions
    BY <1>1, TimesAssumption DEF Row, Versions
<1>6. y \in Call
    BY <1>3, <1>4, <1>5 DEF Call, PCs
<1>7. OnlyCall(p) /\ call'[p] = y
    BY <1>1, <1>2, <1>6, Replaces DEF pc
<1>8. InPlace(o, pc) /\ pc # "idle" /\ pc \notin Publishing
    BY <1>3, OpsAssumption DEF InPlace, Publishing, Lookups
<1>9. 0 <= clock + TTL
    BY <1>1, TimesAssumption DEF TypeOK
<1>10. KeepRow /\ UNCHANGED <<cache, sealed, faults>>
    BY DEF Begin, KeepRow
<1>11. Standing' = Standing
    BY <1>10 DEF KeepRow, Standing
<1>12. CallInv(p)'
    BY <1>3, <1>7, <1>8, <1>9, <1>10, <1>11 DEF CallInv, KeepRow
<1> QED
    BY <1>1, <1>7, <1>10, <1>12, LocalStep DEF TypeOK

LEMMA LookCacheKeeps ==
    ASSUME SessionInv, NEW p \in Calls, LookCache(p)
    PROVE  SessionInv' /\ Shaped(p)
<1> DEFINE c == call[p].cache
<1>1. /\ TypeOK /\ CallInv(p) /\ c \in Caches /\ CacheInv(c)
      /\ call[p] \in Call /\ cache[c] \in Entry /\ call[p].op \in Ops
    BY Given DEF TypeOK, Call
<1>2. /\ clock \in Nat /\ TTL \in Nat /\ Expiry \in Nat /\ killed \in Int
      /\ call[p].deadline \in Int /\ cache[c].exp \in Int
      /\ cache[c].ver \in Versions /\ cache[c].uver \in Versions
    BY <1>1, TimesAssumption DEF TypeOK, Never, Call, Entry
<1>3. KeepRow /\ UNCHANGED <<cache, sealed>> /\ (Fault \/ NoFault) /\ call[p].pc = "lookCache"
    BY DEF LookCache
<1>4. call[p].op \in Lookups
    BY <1>1, <1>3 DEF CallInv, InPlace
<1>5. CASE /\ Live(c) /\ cache[c].status = "active" /\ clock < Expiry
           /\ call' = [call EXCEPT ![p].pc = "user", ![p].ver = cache[c].ver, ![p].uver = cache[c].uver]
    <2>1. Moved(p, "user", cache[c].ver, cache[c].uver, call[p].deadline, call[p].target)
        BY <1>1, <1>2, <1>5, VersionsMove DEF PCs
    <2>2. ~(killed # Never /\ clock >= killed + TTL)
        BY <1>1, <1>2, <1>5 DEF CacheInv, Live
    <2>3. call[p].due # "deny"
        <3>1. Standing # "dead"
            BY <1>2, <1>5, <2>2 DEF Standing
        <3> QED
            BY <1>1, <1>3, <1>4, <3>1 DEF CallInv
    <2>4. call[p].seen # "sealed"
        <3>1. c \notin sealed
            BY <1>1, <1>2, <1>5, <2>2 DEF CacheInv, Covered
        <3> QED
            BY <1>1, <1>3, <1>4, <3>1 DEF CallInv
    <2>5. InPlace(call[p].op, "user")
        BY <1>4 DEF InPlace
    <2>6. call[p].deadline <= clock + TTL
        BY <1>1 DEF CallInv
    <2> QED
        BY <1>3, <2>1, <2>3, <2>4, <2>5, <2>6, MoveStep DEF Publishing
<1>6. CASE Answer(p, "denied")
    BY <1>3, <1>6, EndStep DEF Answers
<1>7. CASE call' = [call EXCEPT ![p].pc = "lookRow", ![p].deadline = clock + TTL]
    <2>1. clock + TTL \in Int /\ clock + TTL <= clock + TTL
        BY <1>2
    <2>2. Moved(p, "lookRow", call[p].ver, call[p].uver, clock + TTL, call[p].target)
        BY <1>1, <1>7, <2>1, DeadlineMoves DEF PCs
    <2>3. InPlace(call[p].op, "lookRow")
        BY <1>4 DEF InPlace
    <2> QED
        BY <1>3, <2>1, <2>2, <2>3, MoveStep DEF Publishing
<1> QED
    BY <1>5, <1>6, <1>7 DEF LookCache

LEMMA LookRowKeeps ==
    ASSUME SessionInv, NEW p \in Calls, LookRow(p)
    PROVE  SessionInv' /\ Shaped(p)
<1> DEFINE pc == IF Active THEN "lookFill" ELSE "lookTomb"
<1>1. /\ TypeOK /\ RowInv /\ CallInv(p) /\ call[p] \in Call /\ row \in Row
      /\ \A c \in Caches : CacheInv(c)
    BY Given DEF TypeOK
<1>2. /\ row.ver \in Versions /\ row.uver \in Versions /\ call[p].cache \in Caches
    BY <1>1 DEF Row, Call
<1>3. /\ KeepRow /\ UNCHANGED <<cache, sealed>> /\ (Fault \/ NoFault) /\ call[p].pc = "lookRow"
      /\ call' = [call EXCEPT ![p].pc = pc, ![p].ver = row.ver, ![p].uver = row.uver]
    BY DEF LookRow, NoFault
<1>4. call[p].op \in Lookups
    BY <1>1, <1>3 DEF CallInv, InPlace
<1>5. pc \in PCs /\ pc \in {"lookFill", "lookTomb"}
    BY DEF PCs
<1>6. Moved(p, pc, row.ver, row.uver, call[p].deadline, call[p].target)
    BY <1>1, <1>2, <1>3, <1>5, VersionsMove
<1>7. pc \in {"lookCache", "lookRow", "lookTomb"} \/ (call[p].due # "deny" /\ call[p].seen # "sealed")
    <2>1. SUFFICES ASSUME Active PROVE call[p].due # "deny" /\ call[p].seen # "sealed"
        OBVIOUS
    <2>2. killed = Never
        BY <1>1, <2>1 DEF Active, RowInv
    <2>3. Standing # "dead"
        <3>1. clock \in Nat /\ Expiry \in Nat
            BY <1>1, TimesAssumption DEF TypeOK
        <3> QED
            BY <2>1, <2>2, <3>1 DEF Active, Standing
    <2>4. call[p].cache \notin sealed
        BY <1>1, <1>2, <2>2 DEF CacheInv
    <2> QED
        BY <1>1, <1>3, <1>4, <2>3, <2>4 DEF CallInv
<1>8. killed # Never => pc = "lookTomb"
    BY <1>1 DEF RowInv, Active
<1>9. InPlace(call[p].op, pc) /\ call[p].deadline <= clock + TTL
    BY <1>1, <1>4, <1>5 DEF InPlace, CallInv
<1>10. "lookTomb" \notin Publishing
    BY DEF Publishing
<1> HIDE DEF pc
<1> QED
    BY <1>3, <1>5, <1>6, <1>7, <1>8, <1>9, <1>10, MoveStep

(* A step that writes the cache of its request.                            *)
LEMMA WriteStep ==
    ASSUME SessionInv, KeepRow, Fault \/ NoFault, NEW p \in Calls, OnlyCall(p),
           NEW c \in Caches, NEW e \in Entry, cache' = [cache EXCEPT ![c] = e],
           sealed \subseteq sealed', sealed' \subseteq sealed \cup {c},
           TypeOK' => CallInv(p)', CacheInv(c)'
    PROVE  SessionInv'
<1>1. /\ TypeOK /\ RowInv /\ faults' \in 0..MaxFaults
      /\ \A d \in Caches : CacheInv(d)
    BY Given, FaultsTyped DEF TypeOK, Call
<1>2. TypeOK'
    <2>1. cache' \in [Caches -> Entry] /\ sealed' \subseteq Caches
        BY <1>1 DEF TypeOK
    <2> QED
        BY <1>1, <2>1, KeepRowTyped DEF OnlyCall
<1>3. EnvStep /\ RowInv'
    BY <1>1, KeepRowEnv
<1>4. ASSUME NEW d \in Caches PROVE CacheInv(d)'
    <2>1. CASE d = c
        BY <2>1
    <2>2. CASE d # c
        <3>1. cache'[d] = cache[d] /\ (d \in sealed' => d \in sealed)
            BY <1>1, <2>2 DEF TypeOK
        <3> QED
            BY <1>1, <1>2, <1>3, <3>1, CacheFrame
    <2> QED
        BY <2>1, <2>2
<1> QED
    BY <1>2, <1>3, <1>4, Assembled

(* What a fill may do to the cache, whatever becomes of the request.       *)
FillCache(p) ==
    LET c == call[p].cache IN
    \/ UNCHANGED cache
    \/ /\ MayWrite(c, "active", call[p].ver)
       /\ \E e \in {ActiveEntry(p), NoEntry} : cache' = [cache EXCEPT ![c] = e]

LEMMA FillStep ==
    ASSUME SessionInv, KeepRow, UNCHANGED sealed, Fault \/ NoFault,
           NEW p \in Calls, call[p].pc \in Publishing, FillCache(p), OnlyCall(p),
           TypeOK' => CallInv(p)'
    PROVE  SessionInv'
<1>1. /\ TypeOK /\ CallInv(p) /\ call[p] \in Call
      /\ \A d \in Caches : CacheInv(d)
    BY Given DEF TypeOK
<1>c. PICK c \in Caches : c = call[p].cache
    BY <1>1 DEF Call
<1>2. CASE UNCHANGED cache
    BY <1>1, <1>2, FaultsTyped, LocalStep
<1>3. CASE /\ MayWrite(c, "active", call[p].ver)
           /\ \E e \in {ActiveEntry(p), NoEntry} : cache' = [cache EXCEPT ![c] = e]
    <2>1. PICK e \in {ActiveEntry(p), NoEntry} : cache' = [cache EXCEPT ![c] = e]
        BY <1>3
    <2>2. cache'[c] = e
        BY <1>1, <2>1 DEF TypeOK
    <2>3. clock' = clock /\ killed' = killed
        BY DEF KeepRow
    <2>4. ActiveEntry(p) \in Entry /\ NoEntry \in Entry
        BY <1>1, TimesAssumption DEF ActiveEntry, NoEntry, Entry, Call, FillExpiry, Versions
    <2>5. CacheInv(c)'
        BY <1>1, <1>3, <2>2, <2>3, ActiveWritten, NothingWritten
    <2> QED
        BY <2>1, <2>4, <2>5, WriteStep
<1> QED
    BY <1>c, <1>2, <1>3 DEF FillCache

LEMMA FoundMoves ==
    ASSUME TypeOK, NEW p \in Calls, Found(p)
    PROVE  Moved(p, "user", call[p].ver, call[p].uver, 0, call[p].target)
<1>1. "user" \in PCs /\ 0 \in Int
    BY DEF PCs
<1>2. call' = [call EXCEPT ![p].pc = "user", ![p].deadline = 0]
    BY DEF Found
<1> QED
    BY <1>1, <1>2, DeadlineMoves

LEMMA LookFillKeeps ==
    ASSUME SessionInv, NEW p \in Calls, LookFill(p)
    PROVE  SessionInv' /\ Shaped(p)
<1>1. /\ TypeOK /\ RowInv /\ CallInv(p) /\ call[p] \in Call
    BY Given DEF TypeOK
<1>2. /\ KeepRow /\ UNCHANGED sealed /\ (Fault \/ NoFault)
      /\ call[p].pc = "lookFill" /\ FillCache(p)
    BY DEF LookFill, Fill, FillCache
<1>3. Found(p) \/ Step(p, "lookConfirm") \/ Answer(p, "denied")
    BY DEF LookFill, Fill
<1>4. /\ call[p].op \in Lookups /\ call[p].due = "may" /\ call[p].seen = "open"
    <2>1. call[p].op \in Lookups
        BY <1>1, <1>2 DEF CallInv, InPlace
    <2> QED
        BY <1>1, <1>2, <2>1, PastTombstone
<1>5. EnvStep /\ clock' = clock
    BY <1>1, <1>2, KeepRowEnv DEF KeepRow
<1>6. InPlace(call[p].op, "user") /\ InPlace(call[p].op, "lookConfirm")
    BY <1>4 DEF InPlace
<1>7. 0 <= clock + TTL /\ call[p].deadline <= clock + TTL
    BY <1>1, WindowsOpen DEF CallInv, TypeOK
<1>8. Shaped(p) /\ (TypeOK' => CallInv(p)')
    <2>1. CASE Found(p)
        <3>1. Moved(p, "user", call[p].ver, call[p].uver, 0, call[p].target)
            BY <1>1, <2>1, FoundMoves
        <3> QED
            BY <1>1, <1>2, <1>4, <1>5, <1>6, <1>7, <3>1, MovedInv, MovedShaped DEF Publishing
    <2>2. CASE Step(p, "lookConfirm")
        <3>1. Moved(p, "lookConfirm", call[p].ver, call[p].uver, call[p].deadline, call[p].target)
            BY <1>1, <2>2, StepMoves DEF PCs
        <3> QED
            BY <1>1, <1>2, <1>4, <1>5, <1>6, <1>7, <3>1, MovedInv, MovedShaped DEF Publishing
    <2>3. CASE Answer(p, "denied")
        BY <1>1, <1>2, <2>3, AnswerEnds, EndedInv, EndedShaped DEF Answers
    <2> QED
        BY <1>3, <2>1, <2>2, <2>3
<1> QED
    BY <1>2, <1>8, FillStep DEF Publishing, Shaped

(* A step that leaves a deny snapshot, or nothing, and then moves or ends. *)
LEMMA DenyStep ==
    ASSUME SessionInv, KeepRow, Fault \/ NoFault, NEW p \in Calls, OnlyCall(p),
           TypeOK' => CallInv(p)', NEW s \in {"revoking", "revoked"},
           \/ UNCHANGED <<cache, sealed>>
           \/ /\ cache' = [cache EXCEPT ![call[p].cache] = DenyEntry(s, call[p].ver, call[p].uver)]
              /\ \/ sealed' = sealed
                 \/ killed # Never /\ sealed' = sealed \cup {call[p].cache}
    PROVE  SessionInv'
<1>1. TypeOK /\ RowInv /\ CallInv(p) /\ call[p] \in Call /\ \A d \in Caches : CacheInv(d)
    BY Given DEF TypeOK
<1>c. PICK c \in Caches : c = call[p].cache
    BY <1>1 DEF Call
<1> DEFINE e == DenyEntry(s, call[p].ver, call[p].uver)
<1>2. CASE UNCHANGED <<cache, sealed>>
    BY <1>1, <1>2, FaultsTyped, LocalStep
<1>3. CASE cache' = [cache EXCEPT ![c] = e] /\ (sealed' = sealed \/ (killed # Never /\ sealed' = sealed \cup {c}))
    <2>1. cache'[c] = e
        BY <1>1, <1>3 DEF TypeOK
    <2>2. clock' = clock /\ killed' = killed
        BY DEF KeepRow
    <2>3. e \in Entry
        <3>1. DenyTTL \in Int /\ clock \in Int
            BY <1>1, TimesAssumption DEF TypeOK, DenyTTL
        <3>2. clock + DenyTTL \in Int
            BY <3>1
        <3> QED
            BY <1>1, <3>2 DEF DenyEntry, Entry, Call
    <2>4. c \in sealed' => killed # Never
        BY <1>1, <1>3 DEF CacheInv
    <2>5. CacheInv(c)'
        BY <1>1, <2>1, <2>2, <2>4, DenyWritten
    <2>6. sealed \subseteq sealed' /\ sealed' \subseteq sealed \cup {c}
        BY <1>3
    <2> QED
        BY <1>3, <2>3, <2>5, <2>6, WriteStep
<1> QED
    BY <1>c, <1>2, <1>3

LEMMA LookTombKeeps ==
    ASSUME SessionInv, NEW p \in Calls, LookTomb(p)
    PROVE  SessionInv' /\ Shaped(p)
<1>1. TypeOK
    BY Given
<1>2. /\ KeepRow /\ (Fault \/ NoFault) /\ Answer(p, "denied") /\ call[p].pc = "lookTomb"
      /\ \/ UNCHANGED <<cache, sealed>>
         \/ /\ cache' = [cache EXCEPT ![call[p].cache] = DenyEntry("revoked", call[p].ver, call[p].uver)]
            /\ sealed' = sealed
    BY DEF LookTomb
<1>3. Shaped(p) /\ (TypeOK' => CallInv(p)')
    BY <1>1, <1>2, AnswerEnds, EndedInv, EndedShaped DEF Answers
<1> QED
    BY <1>2, <1>3, DenyStep DEF Shaped

LEMMA TombKeeps ==
    ASSUME SessionInv, NEW p \in Calls, Tomb(p)
    PROVE  SessionInv' /\ Shaped(p)
<1>1. TypeOK /\ RowInv /\ CallInv(p)
    BY Given
<1>2. /\ KeepRow /\ (Fault \/ NoFault) /\ Answer(p, "denied") /\ call[p].pc = "tomb"
      /\ \/ UNCHANGED <<cache, sealed>>
         \/ /\ cache' = [cache EXCEPT ![call[p].cache] = DenyEntry("revoked", call[p].ver, call[p].uver)]
            /\ sealed' = sealed \cup {call[p].cache}
    BY DEF Tomb
<1>3. Shaped(p) /\ (TypeOK' => CallInv(p)')
    BY <1>1, <1>2, AnswerEnds, EndedInv, EndedShaped DEF Answers
<1>4. killed # Never
    BY <1>1, <1>2 DEF RowInv, CallInv
<1> QED
    BY <1>2, <1>3, <1>4, DenyStep DEF Shaped

LEMMA FenceKeeps ==
    ASSUME SessionInv, NEW p \in Calls, Fence(p)
    PROVE  SessionInv' /\ Shaped(p)
<1>1. TypeOK /\ RowInv /\ CallInv(p)
    BY Given
<1>2. /\ KeepRow /\ (Fault \/ NoFault) /\ UNCHANGED sealed /\ call[p].pc = "fence"
      /\ \/ UNCHANGED <<cache, sealed>>
         \/ /\ cache' = [cache EXCEPT ![call[p].cache] = DenyEntry("revoking", call[p].ver, call[p].uver)]
            /\ sealed' = sealed
      /\ Step(p, "commit") \/ Answer(p, "denied") \/ Answer(p, "error")
    BY DEF Fence
<1>3. CASE Step(p, "commit")
    <2>1. Moved(p, "commit", call[p].ver, call[p].uver, call[p].deadline, call[p].target)
        BY <1>1, <1>3, StepMoves DEF PCs
    <2>2. InPlace(call[p].op, "commit")
        BY <1>1, <1>2 DEF CallInv, InPlace
    <2>3. EnvStep /\ clock' = clock
        BY <1>1, <1>2, KeepRowEnv DEF KeepRow
    <2>4. call[p].op \in Lookups => call[p].due # "deny" /\ call[p].seen # "sealed"
        BY <1>1, <1>2, PastTombstone
    <2>5. call[p].deadline <= clock + TTL
        BY <1>1 DEF CallInv
    <2>6. TypeOK' => CallInv(p)'
        BY <1>1, <1>2, <2>1, <2>2, <2>3, <2>4, <2>5, MovedInv DEF Publishing
    <2> QED
        BY <1>2, <2>1, <2>6, DenyStep, MovedShaped DEF Moved
<1>4. CASE Answer(p, "denied") \/ Answer(p, "error")
    <2>1. Shaped(p) /\ (TypeOK' => CallInv(p)')
        BY <1>1, <1>2, <1>4, AnswerEnds, EndedInv, EndedShaped DEF Answers
    <2> QED
        BY <1>2, <2>1, DenyStep DEF Shaped
<1> QED
    BY <1>2, <1>3, <1>4

LEMMA LookConfirmKeeps ==
    ASSUME SessionInv, NEW p \in Calls, LookConfirm(p)
    PROVE  SessionInv' /\ Shaped(p)
<1>1. TypeOK /\ CallInv(p)
    BY Given
<1>2. /\ KeepRow /\ UNCHANGED <<cache, sealed>> /\ (Fault \/ NoFault) /\ call[p].pc = "lookConfirm"
      /\ Found(p) \/ Answer(p, "denied")
    BY DEF LookConfirm, NoFault
<1>3. CASE Found(p)
    <2>1. Moved(p, "user", call[p].ver, call[p].uver, 0, call[p].target)
        BY <1>1, <1>3, FoundMoves
    <2>2. call[p].op \in Lookups
        BY <1>1, <1>2 DEF CallInv, InPlace
    <2>3. InPlace(call[p].op, "user") /\ call[p].due = "may" /\ call[p].seen = "open"
        BY <1>1, <1>2, <2>2, PastTombstone DEF InPlace
    <2>4. 0 <= clock + TTL
        BY <1>1, WindowsOpen DEF TypeOK
    <2> QED
        BY <1>2, <2>1, <2>3, <2>4, MoveStep DEF Publishing
<1>4. CASE Answer(p, "denied")
    BY <1>2, <1>4, EndStep DEF Answers
<1> QED
    BY <1>2, <1>3, <1>4

LEMMA CheckUserKeeps ==
    ASSUME SessionInv, NEW p \in Calls, CheckUser(p)
    PROVE  SessionInv' /\ Shaped(p)
<1>1. TypeOK /\ CallInv(p) /\ clock \in Nat
    BY Given DEF TypeOK
<1>2. /\ KeepRow /\ UNCHANGED <<cache, sealed>> /\ (Fault \/ NoFault) /\ call[p].pc = "user"
    BY DEF CheckUser, NoFault
<1>3. call[p].op \in Lookups /\ call[p].due = "may" /\ call[p].seen = "open"
    <2>1. call[p].op \in Lookups
        BY <1>1, <1>2 DEF CallInv, InPlace
    <2> QED
        BY <1>1, <1>2, <2>1, PastTombstone
<1>4. CASE \E a \in Answers \ {"none"} : Answer(p, a)
    BY <1>2, <1>3, <1>4, EndStep
<1>5. CASE /\ call[p].op = "refresh"
           /\ call' = [call EXCEPT ![p].pc = IF clock >= Expiry \/ user = call[p].uver
                                            THEN "rotRead" ELSE "revRead",
                                  ![p].why = IF user = call[p].uver THEN "none" ELSE "security",
                                  ![p].now = clock]
    <2>1. PICK pc \in {"rotRead", "revRead"}, why \in {"none", "logout", "reuse", "security"} :
             call' = [call EXCEPT ![p].pc = pc, ![p].why = why, ![p].now = clock]
        BY <1>5
    <2>2. Moved(p, pc, call[p].ver, call[p].uver, call[p].deadline, call[p].target)
        BY <1>1, <2>1, WhyMoves DEF PCs
    <2>3. InPlace(call[p].op, pc) /\ pc \notin Publishing /\ call[p].deadline <= clock + TTL
        BY <1>1, <1>5 DEF InPlace, Publishing, CallInv
    <2> QED
        BY <1>2, <1>3, <2>2, <2>3, MoveStep
<1> QED
    BY <1>4, <1>5 DEF CheckUser, Answers

LEMMA RotReadKeeps ==
    ASSUME SessionInv, NEW p \in Calls, RotRead(p)
    PROVE  SessionInv' /\ Shaped(p)
<1>1. TypeOK /\ RowInv /\ CallInv(p) /\ row \in Row
    BY Given DEF TypeOK
<1>2. /\ KeepRow /\ UNCHANGED <<cache, sealed>> /\ (Fault \/ NoFault) /\ call[p].pc = "rotRead"
    BY DEF RotRead, NoFault
<1>3. call[p].op = "refresh" /\ call[p].due = "may" /\ call[p].seen = "open"
    <2>1. call[p].op = "refresh"
        BY <1>1, <1>2 DEF CallInv, InPlace
    <2> QED
        BY <1>1, <1>2, <2>1, PastTombstone DEF Lookups
<1>4. /\ clock + TTL \in Int /\ clock + TTL <= clock + TTL
      /\ row.ver \in Versions /\ row.uver \in Versions
    <2>1. clock \in Nat /\ TTL \in Nat
        BY <1>1, TimesAssumption DEF TypeOK
    <2> QED
        BY <1>1, <2>1 DEF Row
<1>5. CASE \E a \in Answers \ {"none"} : Answer(p, a)
    BY <1>2, <1>3, <1>5, EndStep
<1>6. CASE /\ ActiveAt(call[p].now)
           /\ call' = [call EXCEPT ![p].pc = "rotSwap", ![p].deadline = clock + TTL,
                                  ![p].ver = row.ver, ![p].uver = row.uver]
    <2>1. Moved(p, "rotSwap", row.ver, row.uver, clock + TTL, call[p].target)
        BY <1>1, <1>4, <1>6, WindowMoves DEF PCs
    <2>2. killed = Never
        BY <1>1, <1>6 DEF ActiveAt, RowInv
    <2>3. InPlace(call[p].op, "rotSwap")
        BY <1>3 DEF InPlace
    <2> QED
        BY <1>2, <1>3, <1>4, <2>1, <2>2, <2>3, MoveStep
<1>7. CASE call' = [call EXCEPT ![p].pc = "fence", ![p].why = "reuse",
                                ![p].ver = row.ver, ![p].uver = row.uver]
    <2>1. Moved(p, "fence", row.ver, row.uver, call[p].deadline, call[p].target)
        BY <1>1, <1>4, <1>7, ReuseMoves DEF PCs
    <2>2. InPlace(call[p].op, "fence") /\ call[p].deadline <= clock + TTL
        BY <1>1, <1>3 DEF InPlace, CallInv
    <2> QED
        BY <1>2, <1>3, <2>1, <2>2, MoveStep DEF Publishing
<1> QED
    BY <1>5, <1>6, <1>7 DEF RotRead, Answers

(* A step that writes the row, its history or the user.                    *)
LEMMA RowStep ==
    ASSUME SessionInv, UNCHANGED <<clock, cache, sealed>>, Fault \/ NoFault, EnvStep,
           row' \in Row, user' \in Versions, killed' \in {Never} \cup (0..MaxClock), RowInv',
           NEW p \in Calls, OnlyCall(p), TypeOK' => CallInv(p)'
    PROVE  SessionInv'
<1>1. TypeOK /\ RowInv /\ faults' \in 0..MaxFaults /\ \A c \in Caches : CacheInv(c)
    BY Given, FaultsTyped
<1>2. TypeOK'
    BY <1>1 DEF TypeOK, OnlyCall
<1>3. ASSUME NEW c \in Caches PROVE CacheInv(c)'
    BY <1>1, <1>2, CacheFrame
<1> QED
    BY <1>2, <1>3, Assembled

LEMMA RotSwapKeeps ==
    ASSUME SessionInv, NEW p \in Calls, RotSwap(p)
    PROVE  SessionInv' /\ Shaped(p)
<1>1. TypeOK /\ RowInv /\ CallInv(p) /\ row \in Row /\ call[p] \in Call
    BY Given DEF TypeOK
<1>2. /\ UNCHANGED <<clock, user, cache, killed, sealed>> /\ (Fault \/ NoFault) /\ call[p].pc = "rotSwap"
    BY DEF RotSwap, NoFault
<1>3. call[p].op = "refresh" /\ call[p].due = "may" /\ call[p].seen = "open"
    <2>1. call[p].op = "refresh"
        BY <1>1, <1>2 DEF CallInv, InPlace
    <2> QED
        BY <1>1, <1>2, <2>1, PastTombstone DEF Lookups
<1>4. CASE /\ SwapGuard(p) /\ row.gen < MaxGen
           /\ row' = [row EXCEPT !.gen = call[p].tok + 1, !.prevUntil = call[p].now + Grace]
           /\ Step(p, "rotFill")
    <2>1. row' \in Row /\ row'.status = row.status /\ row'.ver = row.ver /\ row'.uver = row.uver
        <3>1. call[p].tok + 1 \in 1..MaxGen /\ call[p].now + Grace \in Int
            BY <1>1, <1>4, TimesAssumption DEF SwapGuard, Row, Call
        <3> QED
            BY <1>1, <1>4, <3>1 DEF Row
    <2>2. EnvStep /\ RowInv'
        <3>1. clock <= clock /\ user <= user
            BY <1>1 DEF TypeOK, Versions
        <3> QED
            BY <1>1, <1>2, <2>1, <3>1 DEF EnvStep, RowInv
    <2>3. Moved(p, "rotFill", call[p].ver, call[p].uver, call[p].deadline, call[p].target)
        BY <1>1, <1>4, StepMoves DEF PCs
    <2>4. InPlace(call[p].op, "rotFill")
        BY <1>3 DEF InPlace
    <2>5. /\ call[p].deadline <= clock' + TTL
          /\ killed' # Never => call[p].deadline <= killed' + TTL
        BY <1>1, <1>2 DEF CallInv, Publishing
    <2>6. TypeOK' => CallInv(p)'
        BY <1>1, <1>2, <1>3, <2>2, <2>3, <2>4, <2>5, MovedInv
    <2>7. user' \in Versions /\ killed' \in {Never} \cup (0..MaxClock)
        BY <1>1, <1>2 DEF TypeOK
    <2> QED
        BY <1>2, <2>1, <2>2, <2>3, <2>6, <2>7, RowStep, MovedShaped DEF Moved
<1>5. CASE Answer(p, "denied") /\ UNCHANGED row
    BY <1>2, <1>5, EndStep DEF Answers, KeepRow
<1>6. CASE /\ call[p].tries # 2 /\ UNCHANGED row
           /\ call' = [call EXCEPT ![p].tries = @ + 1, ![p].pc = "rotRead"]
    <2>1. Moved(p, "rotRead", call[p].ver, call[p].uver, call[p].deadline, call[p].target)
        BY <1>1, <1>6, RetryMoves
    <2>2. InPlace(call[p].op, "rotRead") /\ call[p].deadline <= clock + TTL
        BY <1>1, <1>3 DEF InPlace, CallInv
    <2>3. KeepRow
        BY <1>2, <1>6 DEF KeepRow
    <2> QED
        BY <1>2, <1>3, <2>1, <2>2, <2>3, MoveStep DEF Publishing
<1> QED
    BY <1>4, <1>5, <1>6 DEF RotSwap

LEMMA RotFillKeeps ==
    ASSUME SessionInv, NEW p \in Calls, RotFill(p)
    PROVE  SessionInv' /\ Shaped(p)
<1>1. /\ TypeOK /\ RowInv /\ CallInv(p)
    BY Given
<1>2. /\ KeepRow /\ UNCHANGED sealed /\ (Fault \/ NoFault)
      /\ call[p].pc = "rotFill" /\ FillCache(p)
    BY DEF RotFill, Fill, FillCache
<1>3. Answer(p, "accepted") \/ Step(p, "rotConfirm") \/ Answer(p, "error")
    BY DEF RotFill, Fill
<1>4. call[p].op = "refresh" /\ call[p].due = "may" /\ call[p].seen = "open"
    <2>1. call[p].op = "refresh"
        BY <1>1, <1>2 DEF CallInv, InPlace
    <2> QED
        BY <1>1, <1>2, <2>1, PastTombstone DEF Lookups
<1>5. Shaped(p) /\ (TypeOK' => CallInv(p)')
    <2>1. CASE Step(p, "rotConfirm")
        <3>1. Moved(p, "rotConfirm", call[p].ver, call[p].uver, call[p].deadline, call[p].target)
            BY <1>1, <2>1, StepMoves DEF PCs
        <3>2. EnvStep /\ clock' = clock
            BY <1>1, <1>2, KeepRowEnv DEF KeepRow
        <3>3. InPlace(call[p].op, "rotConfirm") /\ call[p].deadline <= clock + TTL
            BY <1>1, <1>4 DEF InPlace, CallInv
        <3> QED
            BY <1>1, <1>2, <1>4, <3>1, <3>2, <3>3, MovedInv, MovedShaped DEF Publishing
    <2>2. CASE Answer(p, "accepted") \/ Answer(p, "error")
        BY <1>1, <1>2, <1>4, <2>2, AnswerEnds, EndedInv, EndedShaped DEF Answers
    <2> QED
        BY <1>3, <2>1, <2>2
<1> QED
    BY <1>2, <1>5, FillStep DEF Publishing, Shaped

LEMMA RotConfirmKeeps ==
    ASSUME SessionInv, NEW p \in Calls, RotConfirm(p)
    PROVE  SessionInv' /\ Shaped(p)
<1>1. TypeOK /\ CallInv(p)
    BY Given
<1>2. /\ KeepRow /\ UNCHANGED <<cache, sealed>> /\ (Fault \/ NoFault) /\ call[p].pc = "rotConfirm"
      /\ \E a \in Answers \ {"none"} : Answer(p, a)
    BY DEF RotConfirm, NoFault, Answers
<1>3. call[p].op \in Lookups => call[p].due = "may" /\ call[p].seen = "open"
    BY <1>1, <1>2, PastTombstone
<1> QED
    BY <1>2, <1>3, EndStep

LEMMA RevReadKeeps ==
    ASSUME SessionInv, NEW p \in Calls, RevRead(p)
    PROVE  SessionInv' /\ Shaped(p)
<1>1. TypeOK /\ CallInv(p) /\ row \in Row /\ clock \in Nat
    BY Given DEF TypeOK
<1>2. /\ KeepRow /\ UNCHANGED <<cache, sealed>> /\ (Fault \/ NoFault) /\ call[p].pc = "revRead"
    BY DEF RevRead, NoFault
<1>3. CASE call' = [call EXCEPT ![p].pc = "fence", ![p].now = clock,
                                ![p].ver = row.ver, ![p].uver = row.uver]
    <2>1. row.ver \in Versions /\ row.uver \in Versions
        BY <1>1 DEF Row
    <2>2. Moved(p, "fence", row.ver, row.uver, call[p].deadline, call[p].target)
        BY <1>1, <1>3, <2>1, ReadMoves DEF PCs
    <2>3. InPlace(call[p].op, "fence") /\ call[p].deadline <= clock + TTL
        BY <1>1, <1>2 DEF InPlace, CallInv
    <2>4. call[p].op \in Lookups => call[p].due # "deny" /\ call[p].seen # "sealed"
        BY <1>1, <1>2, PastTombstone
    <2> QED
        BY <1>2, <2>2, <2>3, <2>4, MoveStep DEF Publishing
<1>4. CASE Answer(p, "denied")
    BY <1>2, <1>4, EndStep DEF Answers
<1> QED
    BY <1>3, <1>4 DEF RevRead

LEMMA CommitRevokeKeeps ==
    ASSUME SessionInv, NEW p \in Calls, CommitRevoke(p)
    PROVE  SessionInv' /\ Shaped(p)
<1>1. TypeOK /\ RowInv /\ CallInv(p) /\ row \in Row /\ call[p] \in Call
    BY Given DEF TypeOK
<1>2. /\ UNCHANGED <<clock, user, cache, sealed>> /\ (Fault \/ NoFault) /\ call[p].pc = "commit"
    BY DEF CommitRevoke
<1>3. CASE /\ ActiveAt(call[p].now)
           /\ row' = [row EXCEPT !.status = "revoked", !.reason = call[p].why]
           /\ killed' = clock
           /\ Step(p, "tomb")
    <2>1. row' \in Row /\ row'.status = "revoked" /\ row'.ver = row.ver /\ row'.uver = row.uver
        BY <1>1, <1>3 DEF Row, Call
    <2>2. killed = Never
        BY <1>1, <1>3 DEF ActiveAt, RowInv
    <2>3. clock \in 0..MaxClock /\ clock # Never /\ clock <= clock /\ user <= user
        BY <1>1, TimesAssumption DEF TypeOK, Never, Versions
    <2>4. EnvStep /\ RowInv'
        BY <1>1, <1>2, <1>3, <2>1, <2>2, <2>3 DEF EnvStep, RowInv
    <2>5. Moved(p, "tomb", call[p].ver, call[p].uver, call[p].deadline, call[p].target)
        BY <1>1, <1>3, StepMoves DEF PCs
    <2>6. InPlace(call[p].op, "tomb") /\ call[p].deadline <= clock' + TTL
        BY <1>1, <1>2 DEF InPlace, CallInv
    <2>7. call[p].op \in Lookups => call[p].due # "deny" /\ call[p].seen # "sealed"
        BY <1>1, <1>2, PastTombstone
    <2>8. TypeOK' => CallInv(p)'
        BY <1>1, <1>2, <2>1, <2>4, <2>5, <2>6, <2>7, MovedInv DEF Publishing
    <2>9. user' \in Versions /\ killed' \in {Never} \cup (0..MaxClock)
        BY <1>1, <1>2, <1>3, <2>3 DEF TypeOK
    <2> QED
        BY <1>2, <2>1, <2>4, <2>5, <2>8, <2>9, RowStep, MovedShaped DEF Moved
<1>4. CASE (\E a \in {"denied", "error"} : Answer(p, a)) /\ UNCHANGED <<row, killed>>
    <2>1. KeepRow
        BY <1>2, <1>4 DEF KeepRow
    <2> QED
        BY <1>2, <1>4, <2>1, EndStep DEF Answers
<1> QED
    BY <1>3, <1>4 DEF CommitRevoke

LEMMA BumpKeeps ==
    ASSUME SessionInv, NEW p \in Calls, Bump(p)
    PROVE  SessionInv' /\ Shaped(p)
<1>1. TypeOK /\ RowInv /\ CallInv(p) /\ row \in Row /\ user \in Versions
    BY Given DEF TypeOK
<1>2. /\ UNCHANGED <<clock, row, cache, killed, sealed>> /\ (Fault \/ NoFault) /\ call[p].pc = "bump"
    BY DEF Bump, NoFault
<1>3. CASE /\ user <= MaxBumps /\ user' = user + 1
           /\ Step(p, "advRead") \/ Answer(p, "none") \/ Answer(p, "error")
           /\ Step(p, "advRead") => call[p].op = "advance"
    <2>1. user + 1 \in Versions /\ user <= user + 1 /\ clock <= clock /\ row.uver <= user + 1
        BY <1>1, <1>3, TimesAssumption DEF Versions, TypeOK, RowInv, Row
    <2>2. EnvStep /\ RowInv'
        BY <1>1, <1>2, <1>3, <2>1 DEF EnvStep, RowInv
    <2>3. Shaped(p) /\ (TypeOK' => CallInv(p)')
        <3>1. CASE Step(p, "advRead")
            <4>1. Moved(p, "advRead", call[p].ver, call[p].uver, call[p].deadline, call[p].target)
                BY <1>1, <3>1, StepMoves DEF PCs
            <4>2. InPlace(call[p].op, "advRead") /\ call[p].deadline <= clock' + TTL
                BY <1>1, <1>2, <1>3, <3>1 DEF InPlace, CallInv
            <4>3. call[p].op \notin Lookups
                BY <1>3, <3>1 DEF Lookups
            <4> QED
                BY <1>1, <1>2, <2>2, <4>1, <4>2, <4>3, MovedInv, MovedShaped DEF Publishing
        <3>2. CASE Answer(p, "none") \/ Answer(p, "error")
            <4>1. call[p].op \notin Lookups
                BY <1>1, <1>2 DEF CallInv, InPlace, Lookups
            <4> QED
                BY <1>1, <1>2, <3>2, <4>1, AnswerEnds, EndedInv, EndedShaped DEF Answers
        <3> QED
            BY <1>3, <3>1, <3>2
    <2>4. row' \in Row /\ user' \in Versions /\ killed' \in {Never} \cup (0..MaxClock)
        BY <1>1, <1>2, <1>3, <2>1 DEF TypeOK
    <2> QED
        BY <1>2, <2>2, <2>3, <2>4, RowStep DEF Shaped
<1>4. CASE Answer(p, "error") /\ UNCHANGED user
    <2>1. KeepRow
        BY <1>2, <1>4 DEF KeepRow
    <2> QED
        BY <1>2, <1>4, <2>1, EndStep DEF Answers
<1>5. Step(p, "advRead") /\ (Answer(p, "none") \/ Answer(p, "error")) => FALSE
    <2>1. call \in [Calls -> Call]
        BY <1>1 DEF TypeOK
    <2>2. Step(p, "advRead") => call'[p].pc = "advRead"
        BY <1>1, StepMoves DEF PCs, Moved
    <2>3. Answer(p, "none") \/ Answer(p, "error") => call'[p].pc = "idle"
        BY <1>1, AnswerEnds DEF Answers, Ended
    <2> QED
        BY <2>2, <2>3
<1> QED
    BY <1>3, <1>4, <1>5 DEF Bump

LEMMA AdvReadKeeps ==
    ASSUME SessionInv, NEW p \in Calls, AdvRead(p)
    PROVE  SessionInv' /\ Shaped(p)
<1>1. TypeOK /\ CallInv(p) /\ user \in Versions /\ call[p] \in Call /\ call[p].uver \in Versions
    BY Given DEF TypeOK, Call
<1>2. /\ KeepRow /\ UNCHANGED <<cache, sealed>> /\ (Fault \/ NoFault) /\ call[p].pc = "advRead"
    BY DEF AdvRead, NoFault
<1>3. CASE ~(user <= call[p].uver) /\ call' = [call EXCEPT ![p].pc = "advance", ![p].target = user]
    <2>1. Moved(p, "advance", call[p].ver, call[p].uver, call[p].deadline, user)
        BY <1>1, <1>3, TargetMoves DEF PCs
    <2>2. InPlace(call[p].op, "advance") /\ call[p].deadline <= clock + TTL /\ call[p].op \notin Lookups
        BY <1>1, <1>2 DEF InPlace, CallInv, Lookups
    <2>3. call[p].uver < user /\ user <= user
        BY <1>1, <1>3 DEF Versions
    <2> QED
        BY <1>2, <2>1, <2>2, <2>3, MoveStep DEF Publishing
<1>4. CASE Answer(p, "error")
    BY <1>2, <1>4, EndStep DEF Answers
<1> QED
    BY <1>3, <1>4 DEF AdvRead

LEMMA AdvanceRowKeeps ==
    ASSUME SessionInv, NEW p \in Calls, AdvanceRow(p)
    PROVE  SessionInv' /\ Shaped(p)
<1>1. TypeOK /\ RowInv /\ CallInv(p) /\ row \in Row /\ call[p] \in Call /\ user \in Versions
    BY Given DEF TypeOK
<1>2. /\ UNCHANGED <<clock, user, cache, killed, sealed>> /\ (Fault \/ NoFault) /\ call[p].pc = "advance"
    BY DEF AdvanceRow
<1>3. CASE /\ AdvanceGuard(p)
           /\ row' = [row EXCEPT !.ver = @ + 1, !.uver = call[p].target]
           /\ call' = [call EXCEPT ![p].pc = "advFill", ![p].ver = row.ver + 1,
                                   ![p].uver = call[p].target, ![p].deadline = clock + TTL]
    <2>1. /\ call[p].target \in Versions /\ row.ver \in Versions /\ row.uver \in Versions
          /\ clock \in Nat /\ TTL \in Nat /\ MaxBumps \in Nat
        BY <1>1, TimesAssumption DEF TypeOK, Call, Row
    <2>2. /\ row.uver < call[p].target /\ call[p].target <= user /\ row.ver <= row.uver
        BY <1>1, <1>2, <1>3 DEF CallInv, AdvanceGuard, RowInv
    <2>3. /\ row.ver + 1 \in Versions /\ row.ver + 1 <= call[p].target
          /\ clock <= clock /\ user <= user
          /\ clock + TTL \in Int /\ clock + TTL <= clock + TTL
        BY <1>1, <2>1, <2>2 DEF Versions
    <2>4. row' \in Row /\ row'.status = row.status /\ row'.ver = row.ver + 1 /\ row'.uver = call[p].target
        BY <1>1, <1>3, <2>1, <2>3 DEF Row
    <2>5. EnvStep /\ RowInv'
        BY <1>1, <1>2, <2>2, <2>3, <2>4 DEF EnvStep, RowInv
    <2>6. Moved(p, "advFill", row.ver + 1, call[p].target, clock + TTL, call[p].target)
        BY <1>1, <1>3, <2>1, <2>3, AdvanceMoves DEF PCs
    <2>7. killed = Never
        BY <1>1, <1>3 DEF AdvanceGuard, ActiveAt, RowInv
    <2>8. InPlace(call[p].op, "advFill") /\ call[p].op \notin Lookups
        BY <1>1, <1>2 DEF InPlace, CallInv, Lookups
    <2>9. TypeOK' => CallInv(p)'
        BY <1>1, <1>2, <2>3, <2>5, <2>6, <2>7, <2>8, MovedInv
    <2>10. user' \in Versions /\ killed' \in {Never} \cup (0..MaxClock)
        BY <1>1, <1>2 DEF TypeOK
    <2> QED
        BY <1>2, <2>4, <2>5, <2>6, <2>9, <2>10, RowStep, MovedShaped DEF Moved
<1>4. CASE Answer(p, "error") /\ UNCHANGED row
    <2>1. KeepRow
        BY <1>2, <1>4 DEF KeepRow
    <2> QED
        BY <1>2, <1>4, <2>1, EndStep DEF Answers
<1> QED
    BY <1>3, <1>4 DEF AdvanceRow

LEMMA AdvFillKeeps ==
    ASSUME SessionInv, NEW p \in Calls, AdvFill(p)
    PROVE  SessionInv' /\ Shaped(p)
<1>1. /\ TypeOK /\ RowInv /\ CallInv(p)
    BY Given
<1>2. /\ KeepRow /\ UNCHANGED sealed /\ (Fault \/ NoFault)
      /\ call[p].pc = "advFill" /\ FillCache(p)
    BY DEF AdvFill, Fill, FillCache
<1>3. Answer(p, "none") \/ Step(p, "advConfirm") \/ Answer(p, "error")
    BY DEF AdvFill, Fill
<1>4. Shaped(p) /\ (TypeOK' => CallInv(p)')
    <2>1. CASE Step(p, "advConfirm")
        <3>1. Moved(p, "advConfirm", call[p].ver, call[p].uver, call[p].deadline, call[p].target)
            BY <1>1, <2>1, StepMoves DEF PCs
        <3>2. EnvStep /\ clock' = clock
            BY <1>1, <1>2, KeepRowEnv DEF KeepRow
        <3>3. InPlace(call[p].op, "advConfirm") /\ call[p].deadline <= clock + TTL /\ call[p].op \notin Lookups
            BY <1>1, <1>2 DEF InPlace, CallInv, Lookups
        <3> QED
            BY <1>1, <1>2, <3>1, <3>2, <3>3, MovedInv, MovedShaped DEF Publishing
    <2>2. CASE Answer(p, "none") \/ Answer(p, "error")
        <3>1. call[p].op \notin Lookups
            BY <1>1, <1>2 DEF CallInv, InPlace, Lookups
        <3> QED
            BY <1>1, <1>2, <2>2, <3>1, AnswerEnds, EndedInv, EndedShaped DEF Answers
    <2> QED
        BY <1>3, <2>1, <2>2
<1> QED
    BY <1>2, <1>4, FillStep DEF Publishing, Shaped

LEMMA AdvConfirmKeeps ==
    ASSUME SessionInv, NEW p \in Calls, AdvConfirm(p)
    PROVE  SessionInv' /\ Shaped(p)
<1>1. /\ KeepRow /\ UNCHANGED <<cache, sealed>> /\ (Fault \/ NoFault) /\ call[p].pc = "advConfirm"
      /\ Answer(p, "none") \/ Answer(p, "error")
    BY DEF AdvConfirm, NoFault
<1>2. call[p].op \notin Lookups
    BY <1>1, Given DEF CallInv, InPlace, Lookups
<1> QED
    BY <1>1, <1>2, EndStep DEF Answers

(***************************************************************************)
(* The invariant.                                                          *)
(***************************************************************************)
LEMMA SessionInvInit ==
    ASSUME Init
    PROVE  SessionInv
<1>1. /\ TTL \in Nat \ {0} /\ Expiry \in Nat \ {0} /\ 1 \in Versions /\ 1 \in 1..MaxGen
      /\ 0 \in 0..MaxClock /\ 0 \in 0..MaxFaults
    BY TimesAssumption DEF Versions
<1> DEFINE exp == IF TTL < Expiry THEN TTL ELSE Expiry
<1>2. exp \in Int /\ exp <= Expiry /\ exp <= 0 + TTL /\ 0 <= 0 + TTL
    BY <1>1
<1>3. Idle("open", "none") \in Call
    BY IdleTyped DEF Answers
<1>4. cache \in [Caches -> Entry]
    <2>1. NoEntry \in Entry /\ [status |-> "active", ver |-> 1, uver |-> 1, exp |-> exp] \in Entry
        BY <1>1, <1>2 DEF NoEntry, Entry
    <2> QED
        BY <2>1 DEF Init
<1>5. TypeOK
    BY <1>1, <1>3, <1>4 DEF Init, TypeOK, Row
<1>6. RowInv
    <2>1. killed = Never /\ killed <= clock /\ row.status = "active"
          /\ row.ver = 1 /\ row.uver = 1 /\ user = 1
        BY DEF Init, Never
    <2> QED
        BY <2>1 DEF RowInv
<1>7. ASSUME NEW p \in Calls PROVE CallInv(p)
    <2>1. call[p].pc = "idle" /\ call[p].ans = "none" /\ call[p].deadline = 0 /\ clock = 0
        BY DEF Init, Idle
    <2> QED
        BY <1>2, <2>1 DEF CallInv, InPlace, Publishing
<1>8. ASSUME NEW c \in Caches PROVE CacheInv(c)
    <2>1. /\ sealed = {} /\ clock = 0 /\ killed = Never
          /\ cache[c] \in {NoEntry, [status |-> "active", ver |-> 1, uver |-> 1, exp |-> exp]}
        BY DEF Init
    <2>2. cache[c].status = "active" => cache[c].exp = exp
        BY <2>1 DEF NoEntry
    <2> HIDE DEF exp
    <2> QED
        BY <1>2, <2>1, <2>2 DEF CacheInv
<1> QED
    BY <1>5, <1>6, <1>7, <1>8, Parts

LEMMA SessionInvStep ==
    ASSUME SessionInv, [Next]_vars
    PROVE  SessionInv'
<1>1. CASE Tick
    BY <1>1, TickKeeps
<1>2. ASSUME NEW p \in Calls, NEW o \in Ops, NEW c \in Caches, Begin(p, o, c)
      PROVE  SessionInv'
    BY <1>2, BeginKeeps
<1>3. ASSUME NEW p \in Calls, CallStep(p)
      PROVE  SessionInv'
    BY <1>3, LookCacheKeeps, LookRowKeeps, LookTombKeeps, LookFillKeeps, LookConfirmKeeps,
       CheckUserKeeps, RotReadKeeps, RotSwapKeeps, RotFillKeeps, RotConfirmKeeps,
       RevReadKeeps, FenceKeeps, CommitRevokeKeeps, TombKeeps, BumpKeeps, AdvReadKeeps,
       AdvanceRowKeeps, AdvFillKeeps, AdvConfirmKeeps DEF CallStep
<1>4. CASE UNCHANGED vars
    BY <1>4 DEF vars, SessionInv, TypeOK, KilledIsRevoked, VersionsFollow, CallsInPlace,
                WindowsBounded, TombstonesCover, Covered, LateCallsDenied, Standing, RevocationPrompt
<1> QED
    BY <1>1, <1>2, <1>3, <1>4 DEF Next

(* SessionInv holds whatever the interleaving of lookups, rotations,        *)
(* revocations, security changes, faults and expiries.                      *)
THEOREM SessionInvariant == Spec => []SessionInv
<1>1. Init => SessionInv
    BY SessionInvInit
<1>2. SessionInv /\ [Next]_vars => SessionInv'
    BY SessionInvStep
<1> QED
    BY <1>1, <1>2, PTL DEF Spec

(* The row, the snapshots and the locals stay typed: in particular an       *)
(* advance never numbers a version beyond the user's (AdvanceRow), and a     *)
(* rotation never a token beyond the one it replaces (RotSwap).              *)
THEOREM SessionTyped == Spec => []TypeOK
<1>1. SessionInv => TypeOK
    BY DEF SessionInv
<1> QED
    BY <1>1, SessionInvariant, PTL

(* Revocation is prompt: a request that begins after the tombstone was      *)
(* written in the cache it looks at is never accepted.                      *)
THEOREM RevocationIsPrompt == Spec => []RevocationPrompt
<1>1. SessionInv => RevocationPrompt
    BY DEF SessionInv
<1> QED
    BY <1>1, SessionInvariant, PTL

(***************************************************************************)
(* UserSession implements LoginSession.                                    *)
(***************************************************************************)

(* A step of a request leaves the standing of the session alone, or lets    *)
(* it fall: only a revocation does that.                                    *)
LEMMA StandingOfCallStep ==
    ASSUME SessionInv, NEW p \in Calls, CallStep(p)
    PROVE  \/ Standing' = Standing
           \/ Standing = "active" /\ Standing' = "revoked" /\ Due' = Due /\ Told' = Told
<1>1. TypeOK /\ RowInv /\ CallInv(p) /\ call[p] \in Call
    BY Given DEF TypeOK
<1>2. CASE UNCHANGED <<clock, killed>>
    BY <1>2 DEF Standing
<1>3. CASE CommitRevoke(p) /\ ~UNCHANGED <<clock, killed>>
    <2>1. /\ clock' = clock /\ killed' = clock /\ ActiveAt(call[p].now) /\ Step(p, "tomb")
          /\ call[p].pc = "commit"
        BY <1>3 DEF CommitRevoke
    <2>2. killed = Never /\ clock # Never
        BY <1>1, <2>1 DEF ActiveAt, RowInv, TypeOK, Never
    <2>3. ~(clock >= clock + TTL)
        BY <1>1, TimesAssumption DEF TypeOK
    <2>4. Standing' = Standing \/ (Standing = "active" /\ Standing' = "revoked")
        BY <2>1, <2>2, <2>3 DEF Standing
    <2>5. Moved(p, "tomb", call[p].ver, call[p].uver, call[p].deadline, call[p].target)
        BY <1>1, <2>1, StepMoves DEF PCs
    <2>6. Due' = Due /\ Told' = Told
        <3>1. ASSUME NEW q \in Calls
              PROVE  /\ call'[q].pc = "idle" <=> call[q].pc = "idle"
                     /\ call'[q].op = call[q].op /\ call'[q].due = call[q].due
                     /\ call'[q].ans = call[q].ans
            BY <2>1, <2>5 DEF Moved, OnlyCall, Kept
        <3> QED
            BY <3>1 DEF Due, Told
    <2> QED
        BY <2>4, <2>6
<1> QED
    BY <1>2, <1>3 DEF CallStep, LookCache, LookRow, LookTomb, LookFill, LookConfirm, CheckUser,
        RotRead, RotSwap, RotFill, RotConfirm, RevRead, Fence, Tomb, Bump, AdvRead, AdvanceRow,
        AdvFill, AdvConfirm, Fill, KeepRow

(* Every other step of a request is an answer, or nothing a caller sees.    *)
LEMMA AnswersOfCallStep ==
    ASSUME SessionInv, NEW p \in Calls, Shaped(p), Standing' = Standing
    PROVE  [Promise!Next]_(Promise!abstractVars)
<1>1. TypeOK /\ CallInv(p) /\ call[p] \in Call
    BY Given DEF TypeOK
<1>2. ASSUME NEW q \in Calls, q # p
      PROVE  Due'[q] = Due[q] /\ Told'[q] = Told[q]
    BY <1>2 DEF Shaped, OnlyCall, Due, Told
<1>3. /\ Due = [q \in Calls |-> Due[q]] /\ Told = [q \in Calls |-> Told[q]]
      /\ Due' = [q \in Calls |-> Due'[q]] /\ Told' = [q \in Calls |-> Told'[q]]
    BY DEF Due, Told
<1>4. CASE call'[p].pc # "idle" /\ Kept(call[p], call'[p])
    <2>1. Due'[p] = Due[p] /\ Told'[p] = Told[p]
        BY <1>4 DEF Shaped, Kept, Due, Told
    <2>2. Due' = Due /\ Told' = Told
        BY <1>2, <1>3, <2>1
    <2> QED
        BY <2>2 DEF Promise!abstractVars
<1>5. ASSUME NEW a \in Answers, Ended(p, a),
             call[p].op \in Lookups => a # "none" /\ (a = "accepted" => call[p].due = "may")
      PROVE  [Promise!Next]_(Promise!abstractVars)
    <2>0. call[p].pc # "idle" /\ call[p].ans = "none" /\ call'[p].pc = "idle"
        BY <1>1, <1>5 DEF Shaped, CallInv, Ended
    <2>1. CASE call[p].op \notin Lookups
        <3>1. Due'[p] = Due[p] /\ Told'[p] = Told[p]
            BY <1>5, <2>0, <2>1 DEF Ended, Due, Told
        <3>2. Due' = Due /\ Told' = Told
            BY <1>2, <1>3, <3>1
        <3> QED
            BY <3>2 DEF Promise!abstractVars
    <2>2. CASE call[p].op \in Lookups
        <3>1. /\ Due[p] = call[p].due /\ Due[p] \in {"may", "deny"} /\ Due'[p] = "none"
              /\ Told'[p] = IF a = "error" THEN "denied" ELSE a
            BY <1>1, <1>5, <2>0, <2>2 DEF Ended, Due, Told, Call
        <3>2. /\ Due' = [Due EXCEPT ![p] = "none"]
              /\ Told' = [Told EXCEPT ![p] = IF a = "error" THEN "denied" ELSE a]
            BY <1>2, <1>3, <3>1
        <3>3. CASE a = "accepted"
            BY <1>5, <2>2, <3>1, <3>2, <3>3 DEF Promise!Next, Promise!Accept
        <3>4. CASE a \in {"denied", "error"}
            BY <3>1, <3>2, <3>4 DEF Promise!Next, Promise!Deny
        <3> QED
            BY <1>5, <2>2, <3>3, <3>4 DEF Answers
    <2> QED
        BY <2>1, <2>2
<1> QED
    BY <1>4, <1>5 DEF Shaped

(* A request that begins is free, or bound, by the standing it meets.       *)
LEMMA BeginOfCall ==
    ASSUME SessionInv, NEW p \in Calls, NEW o \in Ops, NEW c \in Caches, Begin(p, o, c)
    PROVE  Promise!Next
<1>1. TypeOK
    BY Given
<1>2. /\ \A q \in Calls \ {p} : call'[q] = call[q]
      /\ call'[p].op = o /\ call'[p].pc # "idle" /\ call'[p].ans = "none"
      /\ call'[p].due = IF Standing = "dead" THEN "deny" ELSE "may"
    BY <1>1 DEF Begin, TypeOK
<1>3. Standing' = Standing /\ call[p].pc = "idle"
    BY DEF Begin, Standing
<1>4. /\ Due = [q \in Calls |-> Due[q]] /\ Told = [q \in Calls |-> Told[q]]
      /\ Due' = [q \in Calls |-> Due'[q]] /\ Told' = [q \in Calls |-> Told'[q]]
    BY DEF Due, Told
<1>5. ASSUME NEW q \in Calls, q # p
      PROVE  Due'[q] = Due[q] /\ Told'[q] = Told[q]
    BY <1>2, <1>5 DEF Due, Told
<1>6. Due[p] = "none" /\ Told'[p] = "none"
    BY <1>2, <1>3 DEF Due, Told
<1>7. Told' = [Told EXCEPT ![p] = "none"]
    BY <1>4, <1>5, <1>6
<1>8. CASE o \in Lookups
    <2>1. Due'[p] = IF Standing = "dead" THEN "deny" ELSE "may"
        BY <1>2, <1>8 DEF Due
    <2>2. Due' = [Due EXCEPT ![p] = IF Standing = "dead" THEN "deny" ELSE "may"]
        BY <1>4, <1>5, <2>1
    <2> QED
        BY <1>3, <1>6, <1>7, <2>2 DEF Promise!Next, Promise!Begin
<1>9. CASE o \notin Lookups
    <2>1. Due'[p] = "none"
        BY <1>2, <1>9 DEF Due
    <2>2. Due' = Due
        BY <1>4, <1>5, <1>6, <2>1
    <2> QED
        BY <1>3, <1>6, <1>7, <2>2 DEF Promise!Next, Promise!Forget
<1> QED
    BY <1>8, <1>9

(* As time passes the session can only fall.                               *)
LEMMA TickOfSession ==
    ASSUME SessionInv, Tick
    PROVE  [Promise!Next]_(Promise!abstractVars)
<1>1. TypeOK /\ TypeOK' /\ RowInv
    BY Given, TickKeeps DEF SessionInv
<1>2. Due' = Due /\ Told' = Told
    BY DEF Tick, Due, Told
<1>3. EnvStep
    <2>1. clock <= clock + 1 /\ user <= user
        BY <1>1 DEF TypeOK, Versions
    <2> QED
        BY <2>1 DEF Tick, EnvStep
<1>4. Standing = "dead" => Standing' = "dead"
    BY <1>1, <1>3, DeadStaysDead
<1>5. Standing \in {"active", "revoked", "dead"}
    BY DEF Standing
<1>6. Standing = "active" => killed = Never
    BY DEF Standing
<1>7. Standing = "revoked" => killed # Never
    BY DEF Standing
<1>8. killed' = killed
    BY DEF Tick
<1>9. /\ Standing' \in {"active", "revoked", "dead"}
      /\ killed' = Never => Standing' # "revoked"
      /\ killed' # Never => Standing' # "active"
    BY DEF Standing
<1>10. \/ Standing' = Standing
       \/ Standing = "active" /\ Standing' \in {"revoked", "dead"}
       \/ Standing = "revoked" /\ Standing' = "dead"
    BY <1>4, <1>5, <1>6, <1>7, <1>8, <1>9
<1> QED
    BY <1>2, <1>10 DEF Promise!Next, Promise!Fall, Promise!abstractVars

(* A request that begins TTL after a revocation, or after expiry, is        *)
(* denied, whatever cache it looks at, and the session never comes back:     *)
(* every behaviour of the session control plane is one of LoginSession.      *)
THEOREM SessionKeepsPromise == Spec => BoundedStaleness
<1>1. Init => Promise!Init
    <2>1. SUFFICES ASSUME Init PROVE Promise!Init
        OBVIOUS
    <2>2. Standing = "active"
        BY <2>1, TimesAssumption DEF Init, Standing
    <2>3. Due = [p \in Calls |-> "none"] /\ Told = [p \in Calls |-> "none"]
        BY <2>1 DEF Init, Idle, Due, Told
    <2> QED
        BY <2>2, <2>3 DEF Promise!Init
<1>2. SessionInv /\ [Next]_vars => [Promise!Next]_(Promise!abstractVars)
    <2>1. SUFFICES ASSUME SessionInv, [Next]_vars PROVE [Promise!Next]_(Promise!abstractVars)
        OBVIOUS
    <2>2. CASE Tick
        BY <2>1, <2>2, TickOfSession
    <2>3. ASSUME NEW p \in Calls, CallStep(p) PROVE [Promise!Next]_(Promise!abstractVars)
        <3>1. Shaped(p)
            BY <2>1, <2>3, LookCacheKeeps, LookRowKeeps, LookTombKeeps, LookFillKeeps,
               LookConfirmKeeps, CheckUserKeeps, RotReadKeeps, RotSwapKeeps, RotFillKeeps,
               RotConfirmKeeps, RevReadKeeps, FenceKeeps, CommitRevokeKeeps, TombKeeps, BumpKeeps,
               AdvReadKeeps, AdvanceRowKeeps, AdvFillKeeps, AdvConfirmKeeps DEF CallStep
        <3>2. CASE Standing' = Standing
            BY <2>1, <3>1, <3>2, AnswersOfCallStep
        <3>3. CASE Standing = "active" /\ Standing' = "revoked" /\ Due' = Due /\ Told' = Told
            BY <3>3 DEF Promise!Next, Promise!Fall
        <3> QED
            BY <2>1, <2>3, <3>2, <3>3, StandingOfCallStep
    <2>4. ASSUME NEW p \in Calls, NEW o \in Ops, NEW c \in Caches, Begin(p, o, c)
          PROVE  [Promise!Next]_(Promise!abstractVars)
        BY <2>1, <2>4, BeginOfCall
    <2>5. CASE UNCHANGED vars
        BY <2>5 DEF vars, Promise!abstractVars, Standing, Due, Told
    <2> QED
        BY <2>1, <2>2, <2>3, <2>4, <2>5 DEF Next
<1> QED
    BY <1>1, <1>2, SessionInvariant, PTL DEF Spec, BoundedStaleness, Promise!Spec
=============================================================================
