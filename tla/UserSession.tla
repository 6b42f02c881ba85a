----------------------------- MODULE UserSession -----------------------------
(***************************************************************************)
(* One login session: its row (model.UserSession), the snapshots of it in  *)
(* the Redis caches of the nodes, and the requests that look it up, rotate *)
(* its refresh token, revoke it, or carry it over a change of the user's   *)
(* security version.  A request is a call of its own with a control state; *)
(* every statement and every Redis script is one step, and time may pass   *)
(* between any two.  Times are in units of the clock; a cache entry is     *)
(* visible while clock < exp.  Nodes that share a Redis share a cache.      *)
(***************************************************************************)
EXTENDS Integers, FiniteSets

CONSTANTS
    Calls,      \* requests under way
    Caches,     \* the Redis instances of the deployment
    Ops,        \* kinds of requests of this instance
    TTL,        \* userCacheTTLSeconds
    Expiry,     \* ExpiresAt of the session
    Grace,      \* RefreshReplayWindow
    MaxClock,   \* bound: last moment
    MaxGen,     \* bound: refresh tokens issued
    MaxBumps,   \* bound: changes of users.auth_version
    MaxFaults   \* bound: failing statements and scripts

ASSUME CachesAssumption == Caches # {}
ASSUME TimesAssumption ==
    /\ TTL \in Nat \ {0} /\ Expiry \in Nat \ {0} /\ Grace \in Nat
    /\ MaxClock \in Nat /\ MaxGen \in Nat \ {0} /\ MaxBumps \in Nat /\ MaxFaults \in Nat
ASSUME OpsAssumption ==
    Ops # {} /\ Ops \subseteq {"validate", "refresh", "revoke", "logout", "advance", "bump"}

VARIABLES
    clock,
    row,        \* user_sessions
    user,       \* users.auth_version
    cache,      \* per Redis: the session hash
    call,       \* per request: its control state and locals
    killed,     \* history: when the row was revoked (or Never)
    sealed,     \* history: caches in which a revocation ended with its tombstone
    faults

vars == <<clock, row, user, cache, call, killed, sealed, faults>>

Never == -1

Lookups == {"validate", "refresh"}
PCs == {"idle", "lookCache", "lookRow", "lookFill", "lookTomb", "lookConfirm", "user",
        "rotRead", "rotSwap", "rotFill", "rotConfirm",
        "revRead", "fence", "commit", "tomb", "bump", "advRead", "advance", "advFill", "advConfirm"}

Versions == 1..(MaxBumps + 1)
Row == [status : {"active", "revoked"}, reason : {"none", "logout", "reuse", "security"},
        ver : Versions, uver : Versions, gen : 1..MaxGen, prevUntil : Int]
Entry == [status : {"none", "active", "revoking", "revoked"},
          ver : Versions, uver : Versions, exp : Int]
Call == [op : Ops, pc : PCs, cache : Caches, ver : Versions, uver : Versions,
         deadline : Int, tok : 0..MaxGen, now : Nat, tries : 0..2,
         target : Versions, why : {"none", "logout", "reuse", "security"},
         due : {"may", "deny"}, seen : {"open", "sealed"},
         ans : {"none", "accepted", "denied", "error"}]

(* Types of the row, the snapshots and the locals of the calls.            *)
TypeOK ==
    /\ clock \in 0..MaxClock
    /\ row \in Row
    /\ user \in Versions
    /\ cache \in [Caches -> Entry]
    /\ call \in [Calls -> Call]
    /\ killed \in {Never} \cup (0..MaxClock)
    /\ sealed \subseteq Caches
    /\ faults \in 0..MaxFaults

NoEntry == [status |-> "none", ver |-> 1, uver |-> 1, exp |-> 0]

Idle(seen, ans) ==
    [op |-> CHOOSE o \in Ops : TRUE, pc |-> "idle", cache |-> CHOOSE c \in Caches : TRUE,
     ver |-> 1, uver |-> 1, deadline |-> 0, tok |-> 0, now |-> 0, tries |-> 0,
     target |-> 1, why |-> "none", due |-> "may", seen |-> seen, ans |-> ans]

(* createLoginSession: the row is stored, then published.                  *)
Init ==
    /\ clock = 0
    /\ row = [status |-> "active", reason |-> "none", ver |-> 1, uver |-> 1, gen |-> 1, prevUntil |-> 0]
    /\ user = 1
    /\ cache \in [Caches -> {NoEntry, [status |-> "active", ver |-> 1, uver |-> 1,
                                       exp |-> IF TTL < Expiry THEN TTL ELSE Expiry]}]
    /\ call = [p \in Calls |-> Idle("open", "none")]
    /\ killed = Never /\ sealed = {} /\ faults = 0

(***************************************************************************)
(* Time, expiry, and how far the session has fallen.                       *)
(***************************************************************************)
Tick ==
    /\ clock < MaxClock
    /\ clock' = clock + 1
    /\ UNCHANGED <<row, user, cache, call, killed, sealed, faults>>

Active == row.status = "active" /\ clock < Expiry
ActiveAt(now) == row.status = "active" /\ now < Expiry

Standing ==
    IF clock >= Expiry \/ (killed # Never /\ clock >= killed + TTL) THEN "dead"
    ELSE IF killed = Never THEN "active" ELSE "revoked"

(***************************************************************************)
(* The session hash.  An expired hash is no hash.                          *)
(***************************************************************************)
Live(c) == cache[c].status # "none" /\ clock < cache[c].exp

MayWrite_NewestOnly(c, status, ver) == ~(Live(c) /\ cache[c].ver > ver)

MayWrite(c, status, ver) ==
    /\ ~(status = "active" /\ Live(c) /\ cache[c].status # "active")
    /\ ~(Live(c) /\ cache[c].ver > ver)

DenyTTL ==
    IF Expiry <= clock THEN 1 ELSE IF Expiry - clock < TTL THEN Expiry - clock ELSE TTL

DenyEntry(status, ver, uver) ==
    [status |-> status, ver |-> ver, uver |-> uver, exp |-> clock + DenyTTL]

FillExpiry(p) == IF call[p].deadline < Expiry THEN call[p].deadline ELSE Expiry

ActiveEntry(p) ==
    [status |-> "active", ver |-> call[p].ver, uver |-> call[p].uver, exp |-> FillExpiry(p)]

Step(p, pc) == call' = [call EXCEPT ![p].pc = pc]
Answer(p, a) ==
    call' = [call EXCEPT ![p] =
              IF call[p].op \in Lookups THEN Idle(call[p].seen, a) ELSE Idle("open", "none")]
Fault == faults < MaxFaults /\ faults' = faults + 1
NoFault == UNCHANGED faults
KeepRow == UNCHANGED <<clock, row, user, killed>>

Fill_FreshWindow(p, onOk, onConfirm, onRefused, onError) ==
    LET c == call[p].cache IN
    /\ \/ /\ clock < Expiry /\ MayWrite(c, "active", call[p].ver)
          /\ cache' = [cache EXCEPT ![c] = [ActiveEntry(p) EXCEPT !.exp =
                                             IF clock + TTL < Expiry THEN clock + TTL ELSE Expiry]]
          /\ onOk
       \/ ~MayWrite(c, "active", call[p].ver) /\ onRefused /\ UNCHANGED cache
    /\ NoFault /\ KeepRow /\ UNCHANGED sealed

(***************************************************************************)
(* writeUserSessionCache for an active snapshot: ok, refused by the script *)
(* (a tombstone or a newer version is there), or stale: the window that     *)
(* began before the row was read is used up, so nothing that outlives it    *)
(* is stored and the snapshot has to be confirmed against the row.          *)
(***************************************************************************)
Fill(p, onOk, onConfirm, onRefused, onError) ==
    LET c == call[p].cache IN
    /\ \/ /\ clock < call[p].deadline /\ clock < Expiry /\ MayWrite(c, "active", call[p].ver)
          /\ cache' = [cache EXCEPT ![c] = ActiveEntry(p)]
          /\ \/ onOk
             \/ clock + 1 >= call[p].deadline /\ onConfirm
          /\ NoFault
       \/ /\ clock >= call[p].deadline
          /\ \/ UNCHANGED cache
             \/ MayWrite(c, "active", call[p].ver) /\ cache' = [cache EXCEPT ![c] = NoEntry]
          /\ onConfirm
          /\ NoFault
       \/ /\ \/ clock < call[p].deadline /\ clock >= Expiry
             \/ ~MayWrite(c, "active", call[p].ver)
          /\ onRefused
          /\ UNCHANGED cache /\ NoFault
       \/ /\ Fault
          /\ onError
          /\ UNCHANGED cache
    /\ KeepRow /\ UNCHANGED sealed

(* confirmUserSessionActiveSnapshot *)
Confirmed(p) == Active /\ row.ver = call[p].ver /\ row.uver = call[p].uver

(***************************************************************************)
(* A request begins.  validate carries an access token, refresh and logout *)
(* a refresh token, advance the access token of this session.              *)
(***************************************************************************)
Begin(p, o, c) ==
    /\ call[p].pc = "idle"
    /\ \E t \in IF o \in {"refresh", "logout"} THEN 1..row.gen ELSE {0} :
         call' = [call EXCEPT ![p] =
                   [op |-> o, pc |-> CASE o \in Lookups -> "lookCache"
                                       [] o \in {"revoke", "logout"} -> "revRead"
                                       [] OTHER -> "bump",
                    cache |-> c, deadline |-> 0, tok |-> t, now |-> 0, tries |-> 0,
                    ver |-> IF o = "advance" THEN row.ver ELSE 1,
                    uver |-> IF o = "advance" THEN row.uver ELSE 1,
                    target |-> 1, why |-> IF o \in {"revoke", "logout"} THEN "logout" ELSE "none",
                    due |-> IF Standing = "dead" THEN "deny" ELSE "may",
                    seen |-> IF c \in sealed THEN "sealed" ELSE "open", ans |-> "none"]]
    /\ o \in {"advance", "bump"} => user <= MaxBumps
    /\ o = "advance" => Active /\ row.uver = user
    /\ UNCHANGED <<clock, row, user, cache, killed, sealed, faults>>

(***************************************************************************)
(* GetUserSessionCached: the cache, else the row and a fill of the cache.  *)
(***************************************************************************)
LookCache(p) ==
    LET c == call[p].cache IN
    /\ call[p].pc = "lookCache"
    /\ \/ /\ Live(c) /\ cache[c].status = "active" /\ clock < Expiry
          /\ call' = [call EXCEPT ![p].pc = "user", ![p].ver = cache[c].ver, ![p].uver = cache[c].uver]
          /\ NoFault
       \/ /\ Live(c) /\ ~(cache[c].status = "active" /\ clock < Expiry)
          /\ Answer(p, "denied")
          /\ NoFault
       \/ /\ \/ ~Live(c) /\ NoFault
             \/ Live(c) /\ Fault
          /\ call' = [call EXCEPT ![p].pc = "lookRow", ![p].deadline = clock + TTL]
    /\ KeepRow /\ UNCHANGED <<cache, sealed>>

LookRow(p) ==
    /\ call[p].pc = "lookRow"
    /\ call' = [call EXCEPT ![p].pc = IF Active THEN "lookFill" ELSE "lookTomb",
                            ![p].ver = row.ver, ![p].uver = row.uver]
    /\ KeepRow /\ UNCHANGED <<cache, sealed, faults>>

LookTomb(p) ==
    LET c == call[p].cache IN
    /\ call[p].pc = "lookTomb"
    /\ \/ /\ MayWrite(c, "revoked", call[p].ver)
          /\ cache' = [cache EXCEPT ![c] = DenyEntry("revoked", call[p].ver, call[p].uver)]
          /\ NoFault
       \/ ~MayWrite(c, "revoked", call[p].ver) /\ UNCHANGED cache /\ NoFault
       \/ Fault /\ UNCHANGED cache
    /\ Answer(p, "denied")
    /\ KeepRow /\ UNCHANGED sealed

Found(p) == call' = [call EXCEPT ![p].pc = "user", ![p].deadline = 0]

LookFill(p) ==
    /\ call[p].pc = "lookFill"
    /\ Fill(p, Found(p), Step(p, "lookConfirm"), Answer(p, "denied"), Found(p))

LookConfirm(p) ==
    /\ call[p].pc = "lookConfirm"
    /\ IF Confirmed(p) THEN Found(p) ELSE Answer(p, "denied")
    /\ KeepRow /\ UNCHANGED <<cache, sealed, faults>>

(***************************************************************************)
(* The user's version.  validate reads the cached user, which on a node    *)
(* with a Redis of its own may be an older one; refresh reads the row too.  *)
(* A version that is announced but not committed yet is an error.           *)
(***************************************************************************)
BumpPending(p) == \E q \in Calls : call[q].pc = "bump" /\ call[q].cache = call[p].cache
UserSeen == IF Cardinality(Caches) = 1 THEN {user} ELSE 1..user

CheckUser(p) ==
    /\ call[p].pc = "user"
    /\ \/ BumpPending(p) /\ Answer(p, "error")
       \/ /\ call[p].op = "validate"
          /\ \E v \in UserSeen :
               Answer(p, IF v = call[p].uver /\ clock < Expiry THEN "accepted" ELSE "denied")
       \/ /\ call[p].op = "refresh"
          /\ call' = [call EXCEPT ![p].pc = IF clock >= Expiry \/ user = call[p].uver
                                            THEN "rotRead" ELSE "revRead",
                                  ![p].why = IF user = call[p].uver THEN "none" ELSE "security",
                                  ![p].now = clock]
    /\ KeepRow /\ UNCHANGED <<cache, sealed, faults>>

(***************************************************************************)
(* RotateUserSessionRefresh.  The successor of a token is a function of it,*)
(* so a token is its generation.                                           *)
(***************************************************************************)
RotRead(p) ==
    LET tok == call[p].tok IN
    /\ call[p].pc = "rotRead"
    /\ \/ ~ActiveAt(call[p].now) /\ Answer(p, "error")
       \/ /\ ActiveAt(call[p].now) /\ row.gen = tok
          /\ call' = [call EXCEPT ![p].pc = "rotSwap", ![p].deadline = clock + TTL,
                                  ![p].ver = row.ver, ![p].uver = row.uver]
       \/ ActiveAt(call[p].now) /\ row.gen > tok + 1 /\ Answer(p, "denied")
       \/ /\ ActiveAt(call[p].now) /\ row.gen = tok + 1 /\ call[p].now <= row.prevUntil
          /\ Answer(p, "accepted")
       \/ /\ ActiveAt(call[p].now) /\ row.gen = tok + 1 /\ call[p].now > row.prevUntil
          /\ call' = [call EXCEPT ![p].pc = "fence", ![p].why = "reuse",
                                  ![p].ver = row.ver, ![p].uver = row.uver]
    /\ KeepRow /\ UNCHANGED <<cache, sealed, faults>>

SwapGuard(p) == ActiveAt(call[p].now) /\ row.gen = call[p].tok

RotSwap(p) ==
    /\ call[p].pc = "rotSwap"
    /\ \/ /\ SwapGuard(p) /\ row.gen < MaxGen
          /\ row' = [row EXCEPT !.gen = call[p].tok + 1, !.prevUntil = call[p].now + Grace]
          /\ Step(p, "rotFill")
       \/ /\ ~SwapGuard(p)
          /\ IF call[p].tries = 2 THEN Answer(p, "denied")
             ELSE call' = [call EXCEPT ![p].tries = @ + 1, ![p].pc = "rotRead"]
          /\ UNCHANGED row
    /\ UNCHANGED <<clock, user, cache, killed, sealed, faults>>

RotFill(p) ==
    /\ call[p].pc = "rotFill"
    /\ Fill(p, Answer(p, "accepted"), Step(p, "rotConfirm"), Answer(p, "error"), Answer(p, "accepted"))

RotConfirm(p) ==
    /\ call[p].pc = "rotConfirm"
    /\ Answer(p, IF Confirmed(p) THEN "accepted" ELSE "error")
    /\ KeepRow /\ UNCHANGED <<cache, sealed, faults>>

(***************************************************************************)
(* RevokeUserSession, RevokeUserSessionByRefreshHash, revokeUserSessions   *)
(* and the reuse branch of RotateUserSessionRefresh: the deny fence first,  *)
(* then the row, then the tombstone.                                        *)
(***************************************************************************)
GoodToken(p) ==
    call[p].op = "logout" =>
        row.gen = call[p].tok \/ (row.gen = call[p].tok + 1 /\ clock <= row.prevUntil)

RevRead(p) ==
    /\ call[p].pc = "revRead"
    /\ IF Active /\ GoodToken(p)
         THEN call' = [call EXCEPT ![p].pc = "fence", ![p].now = clock,
                                   ![p].ver = row.ver, ![p].uver = row.uver]
         ELSE Answer(p, "denied")
    /\ KeepRow /\ UNCHANGED <<cache, sealed, faults>>

Fence(p) ==
    LET c == call[p].cache IN
    /\ call[p].pc = "fence"
    /\ \/ /\ MayWrite(c, "revoking", call[p].ver)
          /\ cache' = [cache EXCEPT ![c] = DenyEntry("revoking", call[p].ver, call[p].uver)]
          /\ Step(p, "commit") /\ NoFault
       \/ /\ ~MayWrite(c, "revoking", call[p].ver)
          /\ UNCHANGED cache
          /\ Answer(p, IF call[p].why = "security" THEN "denied" ELSE "error") /\ NoFault
       \/ /\ Fault /\ UNCHANGED cache
          /\ Answer(p, IF call[p].why = "security" THEN "denied" ELSE "error")
    /\ KeepRow /\ UNCHANGED sealed

CommitRevoke(p) ==
    /\ call[p].pc = "commit"
    /\ \/ /\ ActiveAt(call[p].now)
          /\ row' = [row EXCEPT !.status = "revoked", !.reason = call[p].why]
          /\ killed' = clock
          /\ Step(p, "tomb") /\ NoFault
       \/ /\ \/ ~ActiveAt(call[p].now) /\ NoFault
             \/ Fault
          /\ Answer(p, IF call[p].why = "reuse" THEN "error" ELSE "denied")
          /\ UNCHANGED <<row, killed>>
    /\ UNCHANGED <<clock, user, cache, sealed>>

Tomb(p) ==
    LET c == call[p].cache IN
    /\ call[p].pc = "tomb"
    /\ \/ /\ MayWrite(c, "revoked", call[p].ver)
          /\ cache' = [cache EXCEPT ![c] = DenyEntry("revoked", call[p].ver, call[p].uver)]
          /\ sealed' = sealed \cup {c} /\ NoFault
       \/ /\ ~MayWrite(c, "revoked", call[p].ver) /\ NoFault
          /\ UNCHANGED <<cache, sealed>>
       \/ Fault /\ UNCHANGED <<cache, sealed>>
    /\ Answer(p, "denied")
    /\ KeepRow

(***************************************************************************)
(* AdvanceCurrentSessionSecurity / AdvanceCurrentSessionToUserVersion: the *)
(* user's version is raised (all sessions of older versions are out), then *)
(* this session is moved to it.  A bump on its own stands for changes made  *)
(* elsewhere: an administrator, a password reset, another session.          *)
(***************************************************************************)
Bump(p) ==
    /\ call[p].pc = "bump"
    /\ \/ /\ user <= MaxBumps
          /\ user' = user + 1
          /\ \/ /\ call[p].op = "bump"
                /\ Answer(p, "none") /\ NoFault
             \/ /\ call[p].op = "advance"
                /\ Step(p, "advRead")
                /\ NoFault
             \/ /\ call[p].op = "advance"
                /\ Answer(p, "error") /\ Fault
       \/ Fault /\ Answer(p, "error") /\ UNCHANGED user
       \/ user > MaxBumps /\ Answer(p, "error") /\ UNCHANGED <<user, faults>>
    /\ UNCHANGED <<clock, row, cache, killed, sealed>>

AdvRead(p) ==
    /\ call[p].pc = "advRead"
    /\ IF BumpPending(p) \/ user <= call[p].uver THEN Answer(p, "error")
       ELSE call' = [call EXCEPT ![p].pc = "advance", ![p].target = user]
    /\ KeepRow /\ UNCHANGED <<cache, sealed, faults>>

AdvanceGuard(p) == ActiveAt(clock) /\ row.ver = call[p].ver /\ row.uver = call[p].uver

AdvanceRow_ByTwo(p) ==
    /\ call[p].pc = "advance"
    /\ \/ /\ AdvanceGuard(p) /\ NoFault
          /\ row' = [row EXCEPT !.ver = @ + 1, !.uver = @ + 2]
          /\ Step(p, "advFill")
       \/ ~AdvanceGuard(p) /\ NoFault /\ Answer(p, "error") /\ UNCHANGED row
    /\ UNCHANGED <<clock, user, cache, killed, sealed>>

AdvanceRow(p) ==
    /\ call[p].pc = "advance"
    /\ \/ /\ AdvanceGuard(p) /\ NoFault
          /\ row' = [row EXCEPT !.ver = @ + 1, !.uver = call[p].target]
          /\ call' = [call EXCEPT ![p].pc = "advFill", ![p].ver = row.ver + 1, ![p].uver = call[p].target,
                                  ![p].deadline = clock + TTL]
       \/ /\ \/ ~AdvanceGuard(p) /\ NoFault
             \/ Fault
          /\ Answer(p, "error")
          /\ UNCHANGED row
    /\ UNCHANGED <<clock, user, cache, killed, sealed>>

AdvFill(p) ==
    /\ call[p].pc = "advFill"
    /\ Fill(p, Answer(p, "none"), Step(p, "advConfirm"), Answer(p, "error"), Answer(p, "error"))

AdvConfirm(p) ==
    /\ call[p].pc = "advConfirm"
    /\ Answer(p, IF Confirmed(p) THEN "none" ELSE "error")
    /\ KeepRow /\ UNCHANGED <<cache, sealed, faults>>

CallStep(p) ==
    \/ LookCache(p) \/ LookRow(p) \/ LookTomb(p) \/ LookFill(p) \/ LookConfirm(p)
    \/ CheckUser(p)
    \/ RotRead(p) \/ RotSwap(p) \/ RotFill(p) \/ RotConfirm(p)
    \/ RevRead(p) \/ Fence(p) \/ CommitRevoke(p) \/ Tomb(p)
    \/ Bump(p) \/ AdvRead(p) \/ AdvanceRow(p) \/ AdvFill(p) \/ AdvConfirm(p)

Next ==
    \/ Tick
    \/ \E p \in Calls : CallStep(p)
    \/ \E p \in Calls, o \in Ops, c \in Caches : Begin(p, o, c)

Spec == Init /\ [][Next]_vars

(***************************************************************************)
(* Properties.                                                             *)
(***************************************************************************)

(* A request that begins after a revocation has left its tombstone in the  *)
(* cache the request looks at is not let through, however late the fills    *)
(* of earlier requests arrive and after the tombstone has expired too       *)
(* (writeUserSessionCache: "cannot outlive a short deny tombstone").        *)
RevocationPrompt ==
    \A p \in Calls : call[p].ans = "accepted" => call[p].seen = "open"

(***************************************************************************)
(* Why they hold: SessionInv is inductive.                                 *)
(***************************************************************************)

(* The row is revoked from the moment the history records.                 *)
KilledIsRevoked ==
    /\ killed # Never <=> row.status = "revoked"
    /\ killed <= clock
    /\ \A p \in Calls : call[p].pc = "tomb" => row.status = "revoked"

(* A session is moved to a newer version of the user, and one at a time.   *)
VersionsFollow ==
    /\ row.ver <= row.uver /\ row.uver <= user
    /\ \A p \in Calls : call[p].pc = "advance" =>
          call[p].uver < call[p].target /\ call[p].target <= user

(* Which calls are where; a call under way has no answer yet.              *)
InPlace(o, pc) ==
    \/ pc = "idle"
    \/ /\ o \in Lookups
       /\ pc \in {"lookCache", "lookRow", "lookFill", "lookTomb", "lookConfirm", "user"}
    \/ o = "refresh" /\ pc \in {"rotRead", "rotSwap", "rotFill", "rotConfirm"}
    \/ o \in {"refresh", "revoke", "logout"} /\ pc \in {"revRead", "fence", "commit", "tomb"}
    \/ o \in {"advance", "bump"} /\ pc = "bump"
    \/ o = "advance" /\ pc \in {"advRead", "advance", "advFill", "advConfirm"}
CallsInPlace ==
    \A p \in Calls : /\ InPlace(call[p].op, call[p].pc)
                     /\ call[p].pc # "idle" => call[p].ans = "none"

(* Whoever may still publish the session as active read its row before it  *)
(* was revoked, and its window, like what is published, began before.      *)
Publishing == {"lookFill", "rotSwap", "rotFill", "advFill"}
WindowsBounded ==
    /\ \A p \in Calls :
         /\ call[p].deadline <= clock + TTL
         /\ killed # Never /\ call[p].pc \in Publishing => call[p].deadline <= killed + TTL
    /\ \A c \in Caches : cache[c].status = "active" =>
         /\ cache[c].exp <= Expiry /\ cache[c].exp <= clock + TTL
         /\ killed # Never => cache[c].exp <= killed + TTL

(* A tombstone covers every window that began before the revocation.       *)
Covered == clock >= killed + TTL \/ clock >= Expiry
TombstonesCover ==
    \A c \in sealed :
        /\ killed # Never
        /\ \/ Covered
           \/ /\ cache[c].status \in {"revoking", "revoked"}
              /\ cache[c].exp >= killed + TTL \/ cache[c].exp >= Expiry

(* A call that began too late never gets beyond the tombstone.             *)
LateCallsDenied ==
    \A p \in Calls : call[p].pc # "idle" /\ call[p].op \in Lookups =>
        /\ call[p].due = "deny" => Standing = "dead"
        /\ call[p].seen = "sealed" => call[p].cache \in sealed
        /\ call[p].due = "deny" \/ call[p].seen = "sealed" =>
              call[p].pc \in {"lookCache", "lookRow", "lookTomb"}

SessionInv ==
    /\ TypeOK /\ KilledIsRevoked /\ VersionsFollow /\ CallsInPlace
    /\ WindowsBounded /\ TombstonesCover /\ LateCallsDenied /\ RevocationPrompt

(* What its callers see of the session control plane.                      *)
Due == [p \in Calls |->
          IF call[p].pc = "idle" \/ call[p].op \notin Lookups THEN "none" ELSE call[p].due]
Told == [p \in Calls |-> IF call[p].ans = "error" THEN "denied" ELSE call[p].ans]

Promise == INSTANCE LoginSession WITH standing <- Standing, due <- Due, answer <- Told

(* The session control plane as its callers may see it: a request that     *)
(* begins TTL after a revocation, in whichever cache, or after expiry, is   *)
(* denied, and the session never comes back.                                *)
BoundedStaleness == Promise!Spec
=============================================================================
