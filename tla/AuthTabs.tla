------------------------------- MODULE AuthTabs -------------------------------
(***************************************************************************)
(* The tabs of one browser and the login they share: the auth store of     *)
(* each tab (memory), the refresh cookie (one per browser), the Web Lock    *)
(* that serialises refreshes, the cross-tab events, the 401-refresh-retry   *)
(* of the HTTP client, and sign-in and sign-out, which take no lock.  The   *)
(* server is one atomic step per request; what it does inside such a step   *)
(* is the subject of UserSession.  A request carries the cookie of the      *)
(* moment it is sent; its answer sets the cookie and runs the handler when  *)
(* it arrives, which may be after any number of other steps.                *)
(***************************************************************************)
EXTENDS Integers, Sequences, FiniteSets

CONSTANTS
    Tabs,
    Sids,       \* login sessions; First is the one the browser starts with
    First,
    None,
    RaceDelays, \* length of refreshRaceDelays
    MaxMoves,    \* bound: moves of the user, of time and of other devices
    MaxFaults   \* bound: requests that fail or whose answer is lost

ASSUME SidsAssumption == First \in Sids /\ None \notin Sids
ASSUME BoundsAssumption == RaceDelays \in Nat /\ MaxMoves \in Nat /\ MaxFaults \in Nat

VARIABLES
    cookie,     \* the refresh cookie: a session and a token generation
    sess,       \* server: the login sessions
    tab,        \* per tab: auth store and page
    ref,        \* per tab: refreshPromise and the runner behind it
    api,        \* per tab: a request of the HTTP client
    out,        \* per tab: a sign-out under way
    login,      \* per tab: the session of a sign-in whose answer is on its way
    lock,       \* the Web Lock: its holder and those who wait
    mail,       \* per tab: cross-tab events not yet received
    orphans,    \* refresh requests of pages that are gone
    signedOut,  \* history: sign-outs confirmed, per tab
    gap,        \* history: sessions whose grace window closed before the browser had the new token
    blind,      \* history: sessions confirmed as signed out without any proof of which one was meant
    credit,     \* history: per tab, sign-ins of other tabs it was told of, less its credit for them
    moves, faults

vars == <<cookie, sess, tab, ref, api, out, login, lock, mail, orphans,
          signedOut, gap, blind, credit, moves, faults>>
history == <<signedOut, gap, blind, credit>>

SidOrNone == Sids \cup {None}
Token == [sid : SidOrNone, gen : Nat]
NoToken == [sid |-> None, gen |-> 0]
Answers == {"none", "ok", "mismatch", "invalid", "race", "fail", "odd"}
Event == [kind : {"authenticated", "signed_out"}, sid : Sids]

Tab == [store : SidOrNone, access : {"none", "fresh", "stale"},
        boot : {"idle", "complete"}, page : {"app", "signin"}, up : {"loading", "up"}]
Ref == [pc : {"none", "queued", "sent", "served"}, cur : {"yes", "no"}, race : 0..RaceDelays,
        again : {"yes", "no"}, exp : SidOrNone, tok : Token, ans : Answers]
Api == [pc : {"none", "send", "granted", "denied", "refresh"}, sid : SidOrNone, retry : {"yes", "no"}]
Out == [pc : {"none", "send", "served", "refresh"}, again : {"yes", "no"}, exp : SidOrNone,
        ans : {"none", "ok", "mismatch", "fail"}, clears : {"yes", "no"}]

(* Types of the browser's and the server's state.                          *)
TypeOK ==
    /\ cookie \in Token
    /\ sess \in [Sids -> [st : {"none", "active", "revoked", "reused"}, gen : Nat,
                          grace : {"open", "over"}]]
    /\ tab \in [Tabs -> Tab]
    /\ ref \in [Tabs -> Ref]
    /\ api \in [Tabs -> Api]
    /\ out \in [Tabs -> Out]
    /\ login \in [Tabs -> SidOrNone]
    /\ lock \in Seq(Tabs)
    /\ mail \in [Tabs -> SUBSET Event]
    /\ orphans \subseteq Token
    /\ signedOut \subseteq (Tabs \X Sids)
    /\ gap \subseteq Sids /\ blind \subseteq Sids
    /\ credit \in [Tabs -> Int]
    /\ moves \in 0..MaxMoves
    /\ faults \in 0..MaxFaults

NoRef == [pc |-> "none", cur |-> "yes", race |-> 0, again |-> "yes", exp |-> None,
          tok |-> NoToken, ans |-> "none"]
NoApi == [pc |-> "none", sid |-> None, retry |-> "no"]
NoOut == [pc |-> "none", again |-> "yes", exp |-> None, ans |-> "none", clears |-> "no"]

Loaded(page) ==
    [store |-> None, access |-> "none", boot |-> "idle", page |-> page, up |-> "loading"]
SignedIn(s) ==
    [store |-> s, access |-> "fresh", boot |-> "complete", page |-> "app", up |-> "up"]

Init ==
    /\ cookie = [sid |-> First, gen |-> 1]
    /\ sess = [s \in Sids |-> IF s = First THEN [st |-> "active", gen |-> 1, grace |-> "over"]
                                           ELSE [st |-> "none", gen |-> 0, grace |-> "over"]]
    /\ tab \in [Tabs -> {Loaded("app"), SignedIn(First)}]
    /\ ref = [t \in Tabs |-> NoRef] /\ api = [t \in Tabs |-> NoApi]
    /\ out = [t \in Tabs |-> NoOut] /\ login = [t \in Tabs |-> None]
    /\ lock = <<>> /\ mail = [t \in Tabs |-> {}] /\ orphans = {}
    /\ signedOut = {} /\ gap = {} /\ blind = {} /\ credit = [t \in Tabs |-> 0]
    /\ moves = 0 /\ faults = 0

(***************************************************************************)
(* The store.  authEpoch is moved by applyAuthBundle and by                 *)
(* clearAuthentication; all a refresh asks is whether it was moved since    *)
(* it began (cur).                                                          *)
(***************************************************************************)
Reset_BootOnly(tb, boot) == [tb EXCEPT !.boot = boot]

Reset(tb, boot) == [tb EXCEPT !.store = None, !.access = "none", !.boot = boot]
SetBundle(tb, s) == [tb EXCEPT !.store = s, !.access = "fresh", !.boot = "complete"]
EpochMoved(r) == [r EXCEPT !.cur = IF r.pc = "none" THEN "yes" ELSE "no"]

(* publishAuthSessionEvent: to the other tabs that have subscribed.        *)
Publish(t, kind, s) ==
    [u \in Tabs |-> IF u # t /\ tab[u].up = "up" /\ s # None
                      THEN mail[u] \cup {[kind |-> kind, sid |-> s]} ELSE mail[u]]

(* The lock and its queue without t, which is there at most once.          *)
Without(t) ==
    IF \A i \in 1..Len(lock) : lock[i] # t THEN lock
    ELSE LET p == CHOOSE i \in 1..Len(lock) : lock[i] = t
         IN  [i \in 1..(Len(lock) - 1) |-> IF i < p THEN lock[i] ELSE lock[i + 1]]

(***************************************************************************)
(* refreshAuthentication: a refresh under way is shared, a new one waits    *)
(* for the lock.                                                            *)
(***************************************************************************)
JoinOrStart(t) ==
    IF ref[t].pc = "none"
      THEN /\ ref' = [ref EXCEPT ![t] = [NoRef EXCEPT !.pc = "queued"]]
           /\ lock' = Append(lock, t)
      ELSE UNCHANGED <<ref, lock>>

Move == moves < MaxMoves /\ moves' = moves + 1

(* bootstrapAuthentication, on every navigation (root beforeLoad); a page  *)
(* that was just loaded renders nothing before it has ended.  "idle" stands *)
(* for the state checking too: all that is asked is whether it is complete. *)
Bootstrap(t) ==
    /\ ~(tab[t].store # None /\ tab[t].access = "fresh")
    /\ ~(tab[t].boot = "complete" /\ tab[t].store = None)
    /\ ref[t].pc = "none" /\ Move
    /\ JoinOrStart(t)
    /\ tab' = [tab EXCEPT ![t].boot = "idle"]
    /\ UNCHANGED <<cookie, sess, api, out, login, mail, orphans, history, faults>>

(* getFreshAuthHeaders of a stream: the token is missing or soon too old.  *)
FreshHeaders(t) ==
    /\ tab[t].up = "up" /\ tab[t].store # None
    /\ ref[t].pc = "none" /\ Move
    /\ JoinOrStart(t)
    /\ UNCHANGED <<cookie, sess, tab, api, out, login, mail, orphans, history, faults>>

(***************************************************************************)
(* The runner (createRefreshRunner): the lock is ours; a superseded run     *)
(* sends nothing.                                                           *)
(***************************************************************************)
RunnerDone(t) ==
    /\ ref' = [ref EXCEPT ![t] = NoRef]
    /\ lock' = Without(t)

(* The page is replaced (location.replace, reload): its script, its        *)
(* requests and its subscription are gone.                                  *)
Gone(t, page, events) ==
    /\ tab' = [tab EXCEPT ![t] = Loaded(page)]
    /\ RunnerDone(t)
    /\ api' = [api EXCEPT ![t] = NoApi] /\ out' = [out EXCEPT ![t] = NoOut]
    /\ login' = [login EXCEPT ![t] = None]
    /\ mail' = [events EXCEPT ![t] = {}]

(* What its requests may still do: a refresh that was sent is served later *)
(* or never, an answer may have set the cookie already.                     *)
Abandoned(t) ==
    /\ \/ UNCHANGED orphans
       \/ ref[t].pc = "sent" /\ orphans' = orphans \cup {ref[t].tok}
    /\ \/ UNCHANGED cookie
       \/ ref[t].pc = "served" /\ ref[t].ans = "ok" /\ cookie' = ref[t].tok
       \/ ref[t].pc = "served" /\ ref[t].ans = "invalid" /\ cookie' = NoToken
       \/ out[t].pc = "served" /\ out[t].clears = "yes" /\ cookie' = NoToken
       \/ login[t] # None /\ cookie' = [sid |-> login[t], gen |-> 1]

(* What the callers of refreshAuthentication do with its outcome: the HTTP *)
(* client sends the request again, executeLogout too, or reports success    *)
(* if nobody is signed in; everyone else only reads the store.              *)
Resume(t, outcome, tb) ==
    /\ tab' = [tab EXCEPT ![t] =
                [tb EXCEPT !.up = "up", !.page = IF out[t].pc = "refresh" /\ outcome = "anonymous"
                                                 THEN "signin" ELSE tb.page]]
    /\ RunnerDone(t)
    /\ api' = [api EXCEPT ![t] =
                IF @.pc # "refresh" THEN @
                ELSE IF outcome # "authenticated" THEN NoApi
                ELSE [@ EXCEPT !.pc = "send"]]
    /\ out' = [out EXCEPT ![t] =
                IF @.pc # "refresh" THEN @
                ELSE IF outcome # "authenticated" THEN NoOut
                ELSE [@ EXCEPT !.pc = "send"]]
    /\ UNCHANGED login

(* The HTTP client leaves for the sign-in page if nobody is signed in.     *)
Finish(t, outcome, tb, events) ==
    IF /\ outcome \in {"anonymous", "out_of_sync"}
       /\ api[t].pc = "refresh" /\ tb.page # "signin"
      THEN Gone(t, "signin", events)
      ELSE Resume(t, outcome, tb) /\ mail' = events

Send_Unlocked(t) ==
    /\ ref[t].pc = "queued"
    /\ ref' = [ref EXCEPT ![t].pc = "sent", ![t].exp = tab[t].store, ![t].tok = cookie]
    /\ UNCHANGED <<cookie, sess, tab, api, out, login, lock, mail, orphans, history, moves, faults>>

Send_NeverSuperseded(t) ==
    /\ ref[t].pc = "queued" /\ Head(lock) = t /\ ref[t].cur = "yes"
    /\ ref' = [ref EXCEPT ![t].pc = "sent", ![t].exp = tab[t].store, ![t].tok = cookie]
    /\ UNCHANGED <<cookie, sess, tab, api, out, login, lock, mail, orphans, history, moves, faults>>

Send(t) ==
    /\ ref[t].pc = "queued" /\ Head(lock) = t
    /\ IF ref[t].cur = "yes"
         THEN /\ ref' = [ref EXCEPT ![t].pc = "sent", ![t].exp = tab[t].store, ![t].tok = cookie]
              /\ UNCHANGED <<cookie, tab, api, out, login, mail, lock>>
         ELSE UNCHANGED cookie /\ Finish(t, "transient", tab[t], mail)
    /\ UNCHANGED <<sess, orphans, history, moves, faults>>

(***************************************************************************)
(* RefreshAuth: rotation with a deterministic successor, the grace window   *)
(* of the previous token, revocation on its reuse.                          *)
(***************************************************************************)
Valid(k) == k.sid # None /\ sess[k.sid].st = "active"
Current(k) == Valid(k) /\ k.gen = sess[k.sid].gen
Previous(k) == Valid(k) /\ k.gen + 1 = sess[k.sid].gen

Refreshed(k) == [k EXCEPT !.gen = k.gen + 1]

Rotate(k) ==
    sess' = IF Current(k)
              THEN [sess EXCEPT ![k.sid].gen = @ + 1, ![k.sid].grace = "open"]
            ELSE IF Previous(k) /\ sess[k.sid].grace = "over"
              THEN [sess EXCEPT ![k.sid].st = "reused"]
            ELSE sess

ServerAnswer(k, exp) ==
    IF k.sid # None /\ exp # None /\ exp # k.sid THEN "mismatch"
    ELSE IF Current(k) \/ (Previous(k) /\ sess[k.sid].grace = "open") THEN "ok" ELSE "invalid"

Serve(t) ==
    /\ ref[t].pc = "sent"
    /\ LET k == ref[t].tok
           a == ServerAnswer(k, ref[t].exp)
       IN  \/ /\ IF a = "mismatch" THEN UNCHANGED sess ELSE Rotate(k)
              /\ ref' = [ref EXCEPT ![t].pc = "served", ![t].ans = a, ![t].exp = None,
                                    ![t].tok = IF a = "ok" THEN Refreshed(k) ELSE NoToken]
              /\ UNCHANGED faults
           \/ /\ faults < MaxFaults /\ faults' = faults + 1
              /\ \E b \in {"fail", "race", "odd"} :
                   /\ ref' = [ref EXCEPT ![t].pc = "served", ![t].ans = b, ![t].exp = None,
                                         ![t].tok = NoToken]
                   /\ \/ UNCHANGED sess
                      \/ b = "fail" /\ a # "mismatch" /\ Rotate(k)
    /\ UNCHANGED <<cookie, tab, api, out, login, lock, mail, orphans, history, moves>>

ServeOrphan(k) ==
    /\ k \in orphans
    /\ orphans' = orphans \ {k}
    /\ Rotate(k)
    /\ UNCHANGED <<cookie, tab, ref, api, out, login, lock, mail, history, moves, faults>>

(* acceptBundle tells no other tab: the session is the browser's already.  *)
Accepted_Published(t) == Publish(t, "authenticated", ref[t].tok.sid)

Accepted(t) == mail

(* The answer: first the cookie, then the runner, unless it is superseded. *)
StillCurrent_Unchecked(t) == TRUE

StillCurrent(t) == ref[t].cur = "yes"

Deliver(t) ==
    LET a == ref[t].ans
        old == tab[t].store
    IN  /\ ref[t].pc = "served"
        /\ cookie' = CASE a = "ok" -> ref[t].tok [] a = "invalid" -> NoToken [] OTHER -> cookie
        /\ \/ ~StillCurrent(t) /\ Finish(t, "transient", tab[t], mail)
           \/ StillCurrent(t) /\ a = "ok"
              /\ Finish(t, "authenticated", SetBundle(tab[t], ref[t].tok.sid), Accepted(t))
           \/ /\ StillCurrent(t) /\ a = "race" /\ ref[t].race < RaceDelays
              /\ ref' = [ref EXCEPT ![t] = [ref[t] EXCEPT !.pc = "queued", !.race = @ + 1, !.ans = "none"]]
              /\ UNCHANGED <<tab, api, out, login, lock, mail>>
           \/ /\ StillCurrent(t) /\ a = "mismatch" /\ ref[t].again = "yes"
              /\ ref' = [ref EXCEPT ![t] = [NoRef EXCEPT !.pc = "queued", !.again = "no"]]
              /\ tab' = [tab EXCEPT ![t] = Reset(tab[t], "idle")]
              /\ UNCHANGED <<api, out, login, lock, mail>>
           \/ StillCurrent(t) /\ a = "invalid"
              /\ Finish(t, "anonymous", Reset(tab[t], "complete"), Publish(t, "signed_out", old))
           \/ StillCurrent(t) /\ a = "fail"
              /\ Finish(t, "transient", [tab[t] EXCEPT !.boot = "idle"], mail)
           \/ StillCurrent(t) /\ (a \in {"odd", "mismatch"} \/ (a = "race" /\ ref[t].race = RaceDelays))
              /\ ~(a = "mismatch" /\ ref[t].again = "yes")
              /\ Finish(t, "out_of_sync", Reset(tab[t], "complete"), mail)
        /\ UNCHANGED <<sess, orphans, history, moves, faults>>

(***************************************************************************)
(* Sign-in.  It replaces the cookie without the lock.                       *)
(***************************************************************************)
GoSignIn(t) ==
    /\ tab[t].up = "up" /\ tab[t].store = None /\ tab[t].page = "app"
    /\ tab' = [tab EXCEPT ![t].page = "signin"]
    /\ UNCHANGED <<cookie, sess, ref, api, out, login, lock, mail, orphans, history, moves, faults>>

SignIn(t, s) ==
    /\ tab[t].up = "up" /\ tab[t].page = "signin" /\ tab[t].store = None
    /\ login[t] = None /\ sess[s].st = "none" /\ Move
    /\ sess' = [sess EXCEPT ![s].st = "active", ![s].gen = 1]
    /\ login' = [login EXCEPT ![t] = s]
    /\ UNCHANGED <<cookie, tab, ref, api, out, lock, mail, orphans, history, faults>>

(* handleLoginSuccess *)
SignInDone(t) ==
    /\ login[t] # None
    /\ cookie' = [sid |-> login[t], gen |-> 1]
    /\ tab' = [tab EXCEPT ![t] = [SetBundle(tab[t], login[t]) EXCEPT !.page = "app"]]
    /\ ref' = [ref EXCEPT ![t] = EpochMoved(@)]
    /\ mail' = Publish(t, "authenticated", login[t])
    /\ credit' = [u \in Tabs |-> IF mail'[u] = mail[u] THEN credit[u] ELSE credit[u] + 1]
    /\ login' = [login EXCEPT ![t] = None]
    /\ UNCHANGED <<sess, api, out, lock, orphans, signedOut, gap, blind, moves, faults>>

(***************************************************************************)
(* Sign-out (executeLogout, AuthLogout): the session of the access token if *)
(* that is still good, else the session of the cookie, if its token is;     *)
(* without either of them the sign-out succeeds and ends nothing.           *)
(***************************************************************************)
Recognised_CurrentOnly(k) == Current(k)

Recognised(k) == Current(k) \/ (Previous(k) /\ sess[k.sid].grace = "open")
Bearer(t) == tab[t].access = "fresh"
Revoke(s) == sess' = [sess EXCEPT ![s].st = IF @ = "active" THEN "revoked" ELSE @]

Ended(t) ==
    IF Bearer(t) THEN Revoke(tab[t].store)
    ELSE IF Recognised(cookie) THEN Revoke(cookie.sid) ELSE UNCHANGED sess

\* Neither a good access token nor a cookie came with the sign-out.
Blind(t) == ~Bearer(t) /\ cookie.sid = None

AuthLogout(t, again) ==
    LET exp == tab[t].store
        mismatch == exp # None /\ cookie.sid # None /\ cookie.sid # exp
        Answered(a, clears) ==
            out' = [out EXCEPT ![t] = [pc |-> "served", again |-> again, ans |-> a, clears |-> clears,
                                       exp |-> exp]]
    IN  /\ \/ /\ mismatch
              /\ Answered("mismatch", "no") /\ UNCHANGED <<sess, blind, faults>>
           \/ /\ ~mismatch
              /\ Ended(t)
              /\ \/ /\ Answered("ok", IF Bearer(t) /\ cookie.sid = None THEN "no" ELSE "yes")
                    /\ blind' = IF Blind(t) THEN blind \cup ({exp} \cap Sids) ELSE blind
                    /\ UNCHANGED faults
                 \/ /\ faults < MaxFaults /\ faults' = faults + 1
                    /\ Answered("fail", "no") /\ UNCHANGED blind
           \/ /\ faults < MaxFaults /\ faults' = faults + 1
              /\ Answered("fail", "no") /\ UNCHANGED <<sess, blind>>
        /\ UNCHANGED <<cookie, tab, ref, api, login, lock, mail, orphans, signedOut, gap, credit>>

SignOut(t) ==
    /\ tab[t].up = "up" /\ out[t].pc = "none" /\ Move
    /\ tab[t].store # None \/ tab[t].page = "signin"
    /\ AuthLogout(t, "yes")

SignOutAgain(t) == out[t].pc = "send" /\ AuthLogout(t, "no") /\ UNCHANGED moves

DeliverOut(t) ==
    /\ out[t].pc = "served"
    /\ cookie' = IF out[t].clears = "yes" THEN NoToken ELSE cookie
    /\ \/ /\ out[t].ans = "ok"
          /\ tab' = [tab EXCEPT ![t] = [Reset(tab[t], "complete") EXCEPT !.page = "signin"]]
          /\ ref' = [ref EXCEPT ![t] = EpochMoved(@)]
          /\ mail' = Publish(t, "signed_out", tab[t].store)
          /\ out' = [out EXCEPT ![t] = NoOut]
          /\ signedOut' = signedOut \cup ({<<t, out[t].exp>>} \cap (Tabs \X Sids))
          /\ UNCHANGED lock
       \/ /\ out[t].ans = "mismatch" /\ out[t].again = "yes"
          /\ JoinOrStart(t)
          /\ out' = [out EXCEPT ![t] = [NoOut EXCEPT !.pc = "refresh", !.again = "no"]]
          /\ UNCHANGED <<tab, mail, signedOut>>
       \/ /\ out[t].ans = "fail" \/ (out[t].ans = "mismatch" /\ out[t].again = "no")
          /\ out' = [out EXCEPT ![t] = NoOut]
          /\ UNCHANGED <<tab, ref, lock, mail, signedOut>>
    /\ UNCHANGED <<sess, api, login, orphans, gap, blind, credit, moves, faults>>

(***************************************************************************)
(* A request of the HTTP client: on a 401 one refresh and one retry.  A     *)
(* node with an older cache may refuse a good token.                        *)
(***************************************************************************)
Authorised(t) ==
    tab[t].store # None /\ tab[t].access = "fresh" /\ sess[tab[t].store].st = "active"

Request(t, retry) ==
    /\ \/ /\ api' = [api EXCEPT ![t] = [pc |-> IF Authorised(t) THEN "granted" ELSE "denied",
                                        sid |-> tab[t].store, retry |-> retry]]
          /\ UNCHANGED faults
       \/ /\ Authorised(t) /\ faults < MaxFaults /\ faults' = faults + 1
          /\ api' = [api EXCEPT ![t] = [pc |-> "denied", sid |-> tab[t].store, retry |-> retry]]
    /\ UNCHANGED <<cookie, sess, tab, ref, out, login, lock, mail, orphans, history>>

Call(t) ==
    /\ tab[t].up = "up" /\ tab[t].store # None /\ api[t].pc = "none" /\ Move
    /\ Request(t, "no")

CallAgain(t) == api[t].pc = "send" /\ Request(t, "yes") /\ UNCHANGED moves

(* applyAuthRotation, for a request whose answer carries a new access      *)
(* token of its session (acceptAuthRotation).                               *)
Rotates(t) == tab[t].store # None /\ tab[t].store = api[t].sid

DeliverCall(t) ==
    \/ /\ api[t].pc = "granted"
       /\ api' = [api EXCEPT ![t] = NoApi]
       /\ \/ UNCHANGED <<tab, ref>>
          \/ /\ Rotates(t)
             /\ tab' = [tab EXCEPT ![t] = SetBundle(tab[t], api[t].sid)]
             /\ ref' = [ref EXCEPT ![t] = EpochMoved(@)]
       /\ UNCHANGED <<cookie, sess, out, login, lock, mail, orphans, history, moves, faults>>
    \/ /\ api[t].pc = "denied" /\ api[t].retry = "no"
       /\ api' = [api EXCEPT ![t] = [pc |-> "refresh", sid |-> None, retry |-> "yes"]]
       /\ JoinOrStart(t)
       /\ UNCHANGED <<cookie, sess, tab, out, login, mail, orphans, history, moves, faults>>
    \/ /\ api[t].pc = "denied" /\ api[t].retry = "yes"
       /\ IF tab[t].page # "signin"
            THEN Gone(t, "signin", mail) /\ Abandoned(t)
            ELSE /\ tab' = [tab EXCEPT ![t] = Reset(tab[t], "complete")]
                 /\ ref' = [ref EXCEPT ![t] = EpochMoved(@)]
                 /\ api' = [api EXCEPT ![t] = NoApi]
                 /\ UNCHANGED <<cookie, out, login, lock, mail, orphans>>
       /\ UNCHANGED <<sess, history, moves, faults>>

(***************************************************************************)
(* Cross-tab events, dropped when they are a minute old.                    *)
(***************************************************************************)
Receive(t, e) ==
    /\ tab[t].up = "up" /\ e \in mail[t]
    /\ \/ /\ e.kind = "authenticated" /\ e.sid # tab[t].store
          /\ Gone(t, tab[t].page, mail) /\ Abandoned(t)
          /\ credit' = [credit EXCEPT ![t] = @ - 1]
       \/ /\ e.kind = "signed_out" /\ e.sid = tab[t].store
          /\ tab' = [tab EXCEPT ![t] = [Reset(tab[t], "complete") EXCEPT !.page = "signin"]]
          /\ ref' = [ref EXCEPT ![t] = EpochMoved(@)]
          /\ mail' = [mail EXCEPT ![t] = @ \ {e}]
          /\ UNCHANGED <<cookie, api, out, login, lock, orphans, credit>>
       \/ /\ mail' = [mail EXCEPT ![t] = @ \ {e}]
          /\ UNCHANGED <<cookie, tab, ref, api, out, login, lock, orphans, credit>>
    /\ UNCHANGED <<sess, signedOut, gap, blind, moves, faults>>

Reload(t) ==
    /\ faults < MaxFaults /\ faults' = faults + 1
    /\ Gone(t, tab[t].page, mail) /\ Abandoned(t)
    /\ UNCHANGED <<sess, history, moves>>

(***************************************************************************)
(* Time and other devices.                                                  *)
(***************************************************************************)
AccessExpires(t) ==
    /\ tab[t].access = "fresh"
    /\ tab' = [tab EXCEPT ![t].access = "stale"]
    /\ UNCHANGED <<cookie, sess, ref, api, out, login, lock, mail, orphans, history, moves, faults>>

(* The browser has the new token, and no refresh of a page that is gone    *)
(* is still on its way with the old one.                                    *)
InTime(s) ==
    /\ cookie = [sid |-> s, gen |-> sess[s].gen]
    /\ \A k \in orphans : k.sid # s

GraceEnds(s) ==
    /\ sess[s].st = "active" /\ sess[s].grace = "open"
    /\ sess' = [sess EXCEPT ![s].grace = "over"]
    /\ gap' = IF InTime(s) THEN gap ELSE gap \cup {s}
    /\ UNCHANGED <<cookie, tab, ref, api, out, login, lock, mail, orphans, signedOut, blind, credit, moves, faults>>

RevokedElsewhere(s) ==
    /\ sess[s].st = "active"
    /\ Revoke(s) /\ Move
    /\ UNCHANGED <<cookie, tab, ref, api, out, login, lock, mail, orphans, history, faults>>

(* The browser no longer has the cookie: the user cleared it, or it was    *)
(* evicted.  What ReadRefreshCookie finds then is no token.                 *)
CookieLost ==
    /\ cookie # NoToken /\ cookie' = NoToken /\ Move
    /\ UNCHANGED <<sess, tab, ref, api, out, login, lock, mail, orphans, history, faults>>

Progress(t) ==
    \/ Send(t) \/ Serve(t) \/ Deliver(t)
    \/ SignOutAgain(t) \/ DeliverOut(t)
    \/ CallAgain(t) \/ DeliverCall(t)

Next ==
    \/ \E t \in Tabs :
         \/ Progress(t)
         \/ Bootstrap(t) \/ FreshHeaders(t) \/ GoSignIn(t) \/ SignInDone(t) \/ SignOut(t) \/ Call(t)
         \/ Reload(t) \/ AccessExpires(t)
         \/ \E s \in Sids : SignIn(t, s)
         \/ \E e \in mail[t] : Receive(t, e)
    \/ \E s \in Sids : GraceEnds(s) \/ RevokedElsewhere(s)
    \/ \E k \in orphans : ServeOrphan(k)
    \/ CookieLost

Spec == Init /\ [][Next]_vars

(* Requests are answered or fail, the lock is granted in turn.             *)
Fairness ==
    \A t \in Tabs :
        /\ WF_vars(Send(t) \/ Serve(t) \/ Deliver(t))
        /\ WF_vars(CallAgain(t) \/ DeliverCall(t))
FairSpec == Spec /\ Fairness

(***************************************************************************)
(* Properties.                                                              *)
(***************************************************************************)

(* The server takes a refresh for the replay of a stolen token only when   *)
(* the browser may really hold an old one: the grace window closed before   *)
(* the new token had reached it.  However many tabs refresh at a time.      *)
NoFalseReuse == \A s \in Sids : sess[s].st = "reused" => s \in gap

(* A sign-out that was confirmed has ended the session on the server, but  *)
(* for two cases in which the server could not tell which session it was    *)
(* (AuthLogout still answers success): the browser was left with a token    *)
(* that had lost its grace window (gap), or the request carried neither a   *)
(* good access token nor a cookie (blind).                                  *)
SignOutRevokes ==
    \A t \in Tabs, s \in Sids :
        <<t, s>> \in signedOut => sess[s].st \in {"revoked", "reused"} \/ s \in gap \cup blind

(* A tab that has signed out of a session is never again shown as signed   *)
(* in to it, whatever answers of earlier refreshes arrive -- unless the     *)
(* sign-out was one of the two that end nothing (gap, blind): such a        *)
(* session lives on, and a late answer that restores its cookie signs the   *)
(* tab in again.                                                            *)
SignedOutStaysOut ==
    [][\A t \in Tabs, s \in Sids :
         <<t, s>> \in signedOut /\ s \notin gap \cup blind /\ tab[t].store # s => tab'[t].store # s]_vars

(* Other tabs reload once for a sign-in, and never set each other off.     *)
ReloadPerLogin == \A t \in Tabs : credit[t] >= 0

(* A request of the HTTP client ends, through lock, refresh and retry.     *)
CallsEnd == \A t \in Tabs : api[t].pc # "none" ~> api[t].pc = "none"

InActive(t) == tab[t].store # None /\ sess[tab[t].store].st = "active"

(* A tab that makes a request in a session that was revoked leaves that    *)
(* session, unless a request failed or the refresh under way, which it      *)
(* joins, had been superseded by a new access token of the session.         *)
RevokedIsNoticed ==
    \A t \in Tabs :
        (api[t].pc = "denied" /\ ref[t].cur = "yes" /\ tab[t].store = api[t].sid /\ ~InActive(t))
            ~> (tab[t].store = None \/ InActive(t) \/ faults > 0)

(***************************************************************************)
(* Why they hold: TabsInv is inductive.                                     *)
(***************************************************************************)

(* The browser has been given the session; of one that the answer of a      *)
(* sign-in still carries nobody holds a token.                              *)
Issued(s) == sess[s].st # "none" /\ \A t \in Tabs : login[t] # s
Settled(s) == sess[s].grace = "over" /\ s \notin gap
Dead(s) == sess[s].st \in {"revoked", "reused"} \/ s \in gap \cup blind
Won(t) == ref[t].pc = "served" /\ ref[t].ans = "ok"
Heard(t) == {e \in mail[t] : e.kind = "authenticated"}

(* A tab whose refresh has been sent holds the lock.                       *)
Exclusive ==
    \A t \in Tabs :
        /\ ref[t].pc # "none" => \E i \in 1..Len(lock) : lock[i] = t
        /\ ref[t].pc \in {"sent", "served"} => lock[1] = t

Arriving ==
    /\ \A s \in Sids : sess[s].st = "none" => sess[s].grace = "over"
    /\ \A t \in Tabs : login[t] # None =>
        /\ sess[login[t]].st # "none" /\ sess[login[t]].gen = 1 /\ sess[login[t]].grace = "over"
        /\ \A u \in Tabs : login[u] = login[t] => u = t

Arrived ==
    /\ cookie.sid # None => Issued(cookie.sid)
    /\ \A k \in orphans : k.sid # None => Issued(k.sid)
    /\ \A t \in Tabs :
        /\ ref[t].tok.sid # None => Issued(ref[t].tok.sid)
        /\ tab[t].store # None => Issued(tab[t].store)
        /\ out[t].exp # None => Issued(out[t].exp)
        /\ \A s \in Sids : <<t, s>> \in signedOut => Issued(s)

(* The token the browser sends next, or a tab has sent, is at most one     *)
(* rotation behind, none when the grace window closed in time, and no       *)
(* request of a page that is gone carries a newer one.                      *)
Usable(k) ==
    k.sid # None =>
        /\ sess[k.sid].gen \in {k.gen, k.gen + 1}
        /\ Settled(k.sid) => sess[k.sid].gen = k.gen
        /\ \A o \in orphans : o.sid = k.sid => o.gen <= k.gen

(* The token of an answer is the newest, the cookie is just behind it.     *)
Renewed(k) ==
    /\ k.sid # None /\ sess[k.sid].gen = k.gen /\ ~Settled(k.sid)
    /\ \A o \in orphans : o.sid = k.sid => o.gen < k.gen
    /\ cookie.sid = k.sid => k.gen = cookie.gen + 1

InStep ==
    /\ Usable(cookie)
    /\ \A k \in orphans : k.sid # None /\ Settled(k.sid) => sess[k.sid].gen = k.gen
    /\ \A t \in Tabs :
        /\ ref[t].pc = "sent" => Usable(ref[t].tok)
        /\ ref[t].pc = "sent" /\ cookie.sid = ref[t].tok.sid /\ cookie.sid # None => cookie = ref[t].tok
        /\ Won(t) => Renewed(ref[t].tok)

(* What a confirmed sign-out, and one whose answer is on its way, ended;   *)
(* an answer of an earlier refresh is superseded.                           *)
Leaving ==
    \A t \in Tabs :
        /\ out[t].pc = "served" /\ out[t].ans = "ok" /\ out[t].exp # None => Dead(out[t].exp)
        /\ Won(t) /\ <<t, ref[t].tok.sid>> \in signedOut /\ ref[t].tok.sid \notin gap \cup blind => ref[t].cur = "no"

(* Each event that may make a tab reload has been credited to it.          *)
Credited == \A t \in Tabs : IsFiniteSet(mail[t]) /\ Cardinality(Heard(t)) <= credit[t]

TabsInv ==
    /\ TypeOK /\ Exclusive /\ Arriving /\ Arrived /\ InStep
    /\ NoFalseReuse /\ SignOutRevokes /\ Leaving /\ Credited
=============================================================================
