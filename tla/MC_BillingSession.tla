-------------------------- MODULE MC_BillingSession --------------------------
(* Instances of BillingSession: users that differ in funding preference and *)
(* token, with balances around the quotas a request may be priced at.        *)
EXTENDS BillingSession, TLC

Symmetry == Permutations(Requests)

AUser(pref, sub, overflow, wallet, token, subQuota) ==
    [pref |-> pref, playground |-> FALSE, unlimited |-> FALSE, hasSub |-> sub,
     overflow |-> overflow, start |-> [wallet |-> wallet, token |-> token, sub |-> subQuota]]

WalletUser == AUser("wallet_only", FALSE, FALSE, 2, 2, 0)
RichUser   == AUser("wallet_first", TRUE, FALSE, 4, 4, 2)
SubUser    == AUser("subscription_first", TRUE, TRUE, 2, 4, 2)
StrictUser == AUser("subscription_only", TRUE, TRUE, 2, 2, 2)
Playground == [SubUser EXCEPT !.playground = TRUE]
Unlimited  == [WalletUser EXCEPT !.unlimited = TRUE]

OneUser  == {WalletUser}
AllUsers == {WalletUser, RichUser, SubUser, StrictUser, Playground, Unlimited}
PairUsers == {SubUser}

QuotaSet == {0, 1, 2}
ActualSet == {0, 1, 3}
PairQuotas == {1, 2}
PairActuals == {0, 3}
=============================================================================
