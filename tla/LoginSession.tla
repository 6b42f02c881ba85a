---------------------------- MODULE LoginSession ----------------------------
(***************************************************************************)
(* What the login-session control plane promises about one session: the    *)
(* session goes from active to revoked to dead and never back; a request   *)
(* that begins when it is dead is denied.  Between revoked and dead lies    *)
(* the time a cached snapshot may live; a request that begins then may be   *)
(* answered either way.  UserSession implements this specification.         *)
(***************************************************************************)
CONSTANT Calls

VARIABLES
    standing,   \* of the session
    due,        \* per call: not under way, free to accept, or bound to deny
    answer      \* per call: what it was told last

abstractVars == <<standing, due, answer>>

Init ==
    /\ standing = "active"
    /\ due = [p \in Calls |-> "none"]
    /\ answer = [p \in Calls |-> "none"]

Fall ==
    /\ \/ standing = "active" /\ standing' \in {"revoked", "dead"}
       \/ standing = "revoked" /\ standing' = "dead"
    /\ UNCHANGED <<due, answer>>

Begin(p) ==
    /\ due[p] = "none"
    /\ due' = [due EXCEPT ![p] = IF standing = "dead" THEN "deny" ELSE "may"]
    /\ answer' = [answer EXCEPT ![p] = "none"]
    /\ UNCHANGED standing

Deny(p) ==
    /\ due[p] # "none"
    /\ due' = [due EXCEPT ![p] = "none"]
    /\ answer' = [answer EXCEPT ![p] = "denied"]
    /\ UNCHANGED standing

Accept(p) ==
    /\ due[p] = "may"
    /\ due' = [due EXCEPT ![p] = "none"]
    /\ answer' = [answer EXCEPT ![p] = "accepted"]
    /\ UNCHANGED standing

(* The caller does something that is not about standing.                  *)
Forget(p) ==
    /\ due[p] = "none"
    /\ answer' = [answer EXCEPT ![p] = "none"]
    /\ UNCHANGED <<standing, due>>

Next == Fall \/ \E p \in Calls : Begin(p) \/ Deny(p) \/ Accept(p) \/ Forget(p)

Spec == Init /\ [][Next]_abstractVars
=============================================================================
