----------------------------- MODULE PaidGrants ------------------------------
(***************************************************************************)
(* What billing promises about Stars and Credits, with no handlers, rows   *)
(* or messages: a charge is granted at most once; a grant takes from the   *)
(* buyer's wallet Credits that are there; a grant to an invited buyer may  *)
(* reward the two sides of the invitation, the referrer first, each of     *)
(* them once ever; and no other step moves Credits.  That a reward is due  *)
(* but left out is allowed: the program logs the error and keeps the grant.*)
(***************************************************************************)
EXTENDS Integers

CONSTANTS Users, Charges, NoUser, Referrer, InitialCredits, Reward

VARIABLES
    granted,     \* charges
    wallet,      \* Credits of each user
    rewarded     \* sides already rewarded: [kind |-> side, user |-> invitee]

vars == <<granted, wallet, rewarded>>

Init ==
    /\ granted = {}
    /\ wallet = InitialCredits
    /\ rewarded = {}

\* Who is paid for this side of the invitation of u.
Beneficiary(kind, u) == IF kind = "referrer" THEN Referrer[u] ELSE u

Side(kind, u) == [kind |-> kind, user |-> u]

\* The sides a grant to u may still reward.
Due(u) ==
    IF Referrer[u] = NoUser THEN {}
    ELSE {kind \in {"referrer", "invitee"} : Side(kind, u) \notin rewarded}

Grant(c, u, spend, kinds) ==
    /\ c \notin granted
    /\ granted' = granted \cup {c}
    /\ wallet' = [v \in Users |->
                    wallet[v] - (IF v = u THEN spend ELSE 0)
                      + (IF \E kind \in kinds : v = Beneficiary(kind, u)
                           THEN Reward ELSE 0)]
    /\ rewarded' = rewarded \cup {Side(kind, u) : kind \in kinds}
    /\ "invitee" \in kinds => Side("referrer", u) \in rewarded'

Next ==
    \E c \in Charges, u \in Users :
      \E spend \in 0..wallet[u], kinds \in SUBSET Due(u) :
        Grant(c, u, spend, kinds)

Spec == Init /\ [][Next]_vars
=============================================================================
