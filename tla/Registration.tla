---------------------------- MODULE Registration ----------------------------
(***************************************************************************)
(* /start and the other ways into the bot (bot/handlers/start.py,          *)
(* SubscriptionService.get_or_create_user_ex in bot/services/clash_api.py, *)
(* process_referral_conversion in bot/services/referral/service.py and     *)
(* redeem_beta_invite in bot/services/beta_invite.py).  A link may carry a *)
(* referrer or an invite.  The handler registers the user, redeems the     *)
(* invite and attributes the referral in three transactions, while other   *)
(* updates of the same user and the Mini App do the same.                  *)
(*                                                                         *)
(* A transaction that reads and then writes is two steps; the constraints  *)
(* of the tables decide at the second.  Nothing deletes a user.  What an   *)
(* invite is worth is in ProBilling.                                       *)
(***************************************************************************)
EXTENDS Naturals

CONSTANTS
    Accounts,        \* Telegram users
    Handlers,        \* updates and requests in progress at a time
    Invites,         \* tokens an admin has created
    Nobody,          \* no account
    MaxFaults        \* bound of the model

ASSUME RegistrationAssumption ==
    /\ Nobody \notin Accounts
    /\ MaxFaults \in Nat

\* The argument of the link.  An invite excludes a referrer.
NoArgument == [kind |-> "none"]
Link(r) == [kind |-> "ref", referrer |-> r]
Argument ==
    {NoArgument}
    \cup [kind : {"ref"}, referrer : Accounts]
    \cup [kind : {"beta"}, token : Invites]

Referral == [referrer : Accounts, referred : Accounts]

VARIABLES
    users,           \* users: who has a row
    referrals,       \* referrals
    usedBy,          \* beta_invites.used_by_user_id
    granted,         \* the invites whose days were granted: <<token, user>>
    task,            \* what each handler is doing
    origin,          \* history: the argument of the update that registered a user
    owed,            \* history: referrals of new users whose referrer had a row
    faults

vars == <<users, referrals, usedBy, granted, task, origin, owed, faults>>
tables == <<users, referrals, usedBy, granted>>

Idle == [pc |-> "idle"]
Task ==
    {Idle}
    \cup [pc : {"read", "insert", "peek", "claim"}, who : Accounts, arg : Argument]
    \cup [pc : {"lookup"}, who : Accounts, arg : Argument, created : BOOLEAN]
    \cup [pc : {"refer"}, who : Accounts, arg : Argument]

TypeOK ==
    /\ users \subseteq Accounts
    /\ referrals \subseteq [referrer : users, referred : users]
    /\ usedBy \in [Invites -> Accounts \cup {Nobody}]
    /\ granted \subseteq Invites \X users
    /\ task \in [Handlers -> Task]
    /\ origin \in [Accounts -> Argument]
    /\ owed \subseteq [referrer : users, referred : users]
    /\ faults \in Nat

-----------------------------------------------------------------------------
Init ==
    /\ users = {} /\ referrals = {} /\ granted = {}
    /\ usedBy = [t \in Invites |-> Nobody]
    /\ task = [h \in Handlers |-> Idle]
    /\ origin = [u \in Accounts |-> NoArgument]
    /\ owed = {} /\ faults = 0

Goto(h, state) == task' = [task EXCEPT ![h] = state]

\* /start with a link, or any other entry point with none.
Begin(h, u, arg) ==
    /\ task[h] = Idle
    /\ Goto(h, [pc |-> "read", who |-> u, arg |-> arg])
    /\ UNCHANGED <<tables, origin, owed, faults>>

\* Mutant: whether the user is new is asked again when the referral is due,
\* where the user always has a row.
AskAgain(h, created) ==
    LET t == task[h] IN
    Goto(h, IF t.arg.kind = "beta"
            THEN [pc |-> "peek", who |-> t.who, arg |-> t.arg]
            ELSE IF t.arg.kind = "ref"
            THEN [pc |-> "lookup", who |-> t.who, arg |-> t.arg, created |-> FALSE]
            ELSE Idle)

\* The user has a row.  What comes next depends on the link.
Registered(h, created) ==
    LET t == task[h] IN
    Goto(h, IF t.arg.kind = "beta"
            THEN [pc |-> "peek", who |-> t.who, arg |-> t.arg]
            ELSE IF t.arg.kind = "ref"
            THEN [pc |-> "lookup", who |-> t.who, arg |-> t.arg, created |-> created]
            ELSE Idle)

ReadUser(h) ==
    /\ task[h].pc = "read"
    /\ IF task[h].who \in users
       THEN Registered(h, FALSE)
       ELSE Goto(h, [task[h] EXCEPT !.pc = "insert"])
    /\ UNCHANGED <<tables, origin, owed, faults>>

InsertUser(h) ==
    LET t == task[h] IN
    /\ t.pc = "insert" /\ t.who \notin users
    /\ users' = users \cup {t.who}
    /\ origin' = [origin EXCEPT ![t.who] = t.arg]
    /\ owed' = owed \cup {r \in Referral :
                            /\ t.arg = Link(r.referrer) /\ r.referrer \in users
                            /\ r.referred = t.who}
    /\ Registered(h, TRUE)
    /\ UNCHANGED <<referrals, usedBy, granted, faults>>

\* telegram_id is unique: IntegrityError ends the handler without an answer.
InsertConflicts(h) ==
    /\ task[h].pc = "insert" /\ task[h].who \in users
    /\ Goto(h, Idle)
    /\ UNCHANGED <<tables, origin, owed, faults>>

Peek(h) ==
    /\ task[h].pc = "peek"
    /\ Goto(h, IF usedBy[task[h].arg.token] = Nobody
               THEN [task[h] EXCEPT !.pc = "claim"] ELSE Idle)
    /\ UNCHANGED <<tables, origin, owed, faults>>

\* Mutant: the row is updated without WHERE used_at IS NULL.
ClaimAnyway(h) ==
    LET t == task[h] IN
    /\ t.pc = "claim"
    /\ usedBy' = [usedBy EXCEPT ![t.arg.token] = t.who]
    /\ granted' = granted \cup {<<t.arg.token, t.who>>}
    /\ Goto(h, Idle)
    /\ UNCHANGED <<users, referrals, origin, owed, faults>>

\* The claim and the days it grants are one transaction.
Claim(h) ==
    LET t == task[h] IN
    /\ t.pc = "claim"
    /\ IF usedBy[t.arg.token] = Nobody
       THEN /\ usedBy' = [usedBy EXCEPT ![t.arg.token] = t.who]
            /\ granted' = granted \cup {<<t.arg.token, t.who>>}
       ELSE UNCHANGED <<usedBy, granted>>
    /\ Goto(h, Idle)
    /\ UNCHANGED <<users, referrals, origin, owed, faults>>

\* Mutants: an old user may be referred; the referrer needs no row.
AnyUser(t) ==
    /\ t.arg.referrer \in users \ {t.who}
    /\ \A r \in referrals : r.referred # t.who
AnyReferrer(t) ==
    /\ t.created /\ t.arg.referrer # t.who
    /\ \A r \in referrals : r.referred # t.who

MayRefer(t) ==
    /\ t.created
    /\ t.arg.referrer \in users \ {t.who}
    /\ \A r \in referrals : r.referred # t.who

LookUpReferrer(h) ==
    LET t == task[h] IN
    /\ t.pc = "lookup"
    /\ Goto(h, IF MayRefer(t)
               THEN [pc |-> "refer", who |-> t.who, arg |-> t.arg] ELSE Idle)
    /\ UNCHANGED <<tables, origin, owed, faults>>

\* referred_user_id is unique; the conflict is caught.
InsertReferral(h) ==
    LET t == task[h] IN
    /\ t.pc = "refer"
    /\ IF \A r \in referrals : r.referred # t.who
       THEN referrals' = referrals \cup
              {[referrer |-> t.arg.referrer, referred |-> t.who]}
       ELSE UNCHANGED referrals
    /\ Goto(h, Idle)
    /\ UNCHANGED <<users, usedBy, granted, origin, owed, faults>>

\* A database error ends one handler, a restart all of them.  Updates that
\* were in progress are not delivered again.
Fault == faults < MaxFaults /\ faults' = faults + 1

Fails(h) ==
    /\ task[h] # Idle /\ Fault
    /\ Goto(h, Idle)
    /\ UNCHANGED <<tables, origin, owed>>

Crash ==
    /\ Fault
    /\ task' = [h \in Handlers |-> Idle]
    /\ UNCHANGED <<tables, origin, owed>>

Step(h) ==
    \/ ReadUser(h) \/ InsertUser(h) \/ InsertConflicts(h)
    \/ Peek(h) \/ Claim(h) \/ LookUpReferrer(h) \/ InsertReferral(h)

Next ==
    \/ \E h \in Handlers :
         \/ \E u \in Accounts, arg \in Argument : Begin(h, u, arg)
         \/ Step(h) \/ Fails(h)
    \/ Crash

Spec == Init /\ [][Next]_vars

-----------------------------------------------------------------------------
\* A referral is the one in the link that registered the user: later links,
\* links that lost the race with another update or with the Mini App, and
\* links to oneself leave none, so nobody has two referrers
\* (referral/service.py:172-206, start.py:28-70).
FirstTouch ==
    \A r \in referrals :
        origin[r.referred] = Link(r.referrer) /\ r.referrer # r.referred

\* No interleaving loses a referral: while nothing has failed, a user who was
\* registered through the link of somebody with a row is referred by them, or
\* the handler is still at it (start.py:55-70).
ReferralKept ==
    faults = 0 =>
        \A r \in owed :
            \/ r \in referrals
            \/ \E h \in Handlers : /\ task[h].pc \in {"lookup", "refer"}
                                   /\ task[h].who = r.referred

\* An invite is worth its days once, to the user who is noted in it, whatever
\* fails and however many try at once (beta_invite.py:110-150).
InviteGrantedOnce ==
    \A t \in Invites, u \in Accounts :
        <<t, u>> \in granted <=> usedBy[t] = u
=============================================================================
