---------------------------- MODULE OneTimeGrant ----------------------------
(***************************************************************************)
(* What a desktop sign-in attempt promises: once a browser has approved it *)
(* it may be redeemed, after a bounded number of tries, and only once.     *)
(***************************************************************************)
EXTENDS Naturals

CONSTANTS Grants, TryLimit

VARIABLES standing,   \* per grant: "asked", "approved", "spent" or "void"
          tries,
          redeemed    \* how often it was redeemed

grantVars == <<standing, tries, redeemed>>

GrantInit ==
    /\ standing = [g \in Grants |-> "void"]
    /\ tries = [g \in Grants |-> 0]
    /\ redeemed = [g \in Grants |-> 0]

Turn(g, from, to) == standing[g] \in from /\ standing' = [standing EXCEPT ![g] = to]

Offer(g) == redeemed[g] = 0 /\ Turn(g, {"void"}, "asked") /\ UNCHANGED <<tries, redeemed>>
Approve(g) == Turn(g, {"asked"}, "approved") /\ UNCHANGED <<tries, redeemed>>
Lapse(g) == Turn(g, {"asked", "approved", "spent"}, "void") /\ UNCHANGED <<tries, redeemed>>
Try(g) ==
    /\ standing[g] = "approved" /\ tries[g] < TryLimit
    /\ tries' = [tries EXCEPT ![g] = @ + 1]
    /\ UNCHANGED <<standing, redeemed>>
Redeem(g) ==
    /\ tries[g] > 0 /\ Turn(g, {"approved"}, "spent")
    /\ redeemed' = [redeemed EXCEPT ![g] = @ + 1]
    /\ UNCHANGED tries

GrantNext == \E g \in Grants : Offer(g) \/ Approve(g) \/ Lapse(g) \/ Try(g) \/ Redeem(g)
GrantSpec == GrantInit /\ [][GrantNext]_grantVars

\* What follows from the promise.
RedeemedOnce == \A g \in Grants : redeemed[g] <= 1 /\ tries[g] <= TryLimit
=============================================================================
