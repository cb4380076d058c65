----------------------------- MODULE ProBilling ------------------------------
(***************************************************************************)
(* Ghosteek Pro: invoices, pre-checkout, payments by Telegram Stars, the   *)
(* free trial, beta invites, the lazy deactivation of expired rows, and    *)
(* the Credits ledger they share.                                          *)
(* Sources: bot/services/pro, bot/services/credits, bot/services/referral, *)
(* bot/services/beta_invite.py, bot/handlers/subscription.py,              *)
(* bot/api/routes/pro.py.                                                  *)
(*                                                                         *)
(* All handlers are tasks of one asyncio loop and interleave at every      *)
(* await, that is, between any two statements they send to the database.   *)
(* A handler is therefore split where it reads and where it commits; what  *)
(* it read stays in task[h].  The steps from a handler's first UPDATE to   *)
(* its COMMIT are one action: the UPDATE locks the row (SQLite: the whole  *)
(* database), so nobody else writes the same user's subscription or spends *)
(* the same user's Credits in between, and nobody sees uncommitted rows.   *)
(*                                                                         *)
(* An UPDATE carries only the columns the handler changed (SQLAlchemy      *)
(* compares each attribute with the value it loaded), see Merge.           *)
(*                                                                         *)
(* Abstracted: time is a counter, a plan's calendar months a length;       *)
(* started_at, payment_id, currency and the texts are left out; a ledger   *)
(* is kept as its sum (balance) and its unique reference ids (refs).       *)
(* Administrators are left out, and with them the unlimited rows of        *)
(* /admin_sub, which only they get: whatever their row says, get_pro_status *)
(* returns Pro.                                                            *)
(*                                                                         *)
(* A database error may end any handler between two of its statements and  *)
(* rolls back what it had not committed (HandlerFails); one inside the     *)
(* referral rewards is swallowed by the handler, and the payment is        *)
(* committed with the rewards written so far (CommitPayment).              *)
(***************************************************************************)
EXTENDS Pricing, FiniteSetsExt

CONSTANTS
    Users, Handlers, Charges, Plans, Tokens,
    NoUser,              \* the referrer of a user nobody invited
    TrialPlan, BetaPlan, NoPlan,   \* the other plan_ids
    ChatPlan,            \* the plan the chat command /pro sells (pro_1m)
    Price, Length,       \* of each plan: its Stars and its duration
    TrialLength, BetaLength,
    Referrer,            \* Referrer[u]: who invited u, or NoUser
    InitialCredits,      \* Credits earned before the behaviour starts
    Reward,              \* referral_credits_reward
    DiscountPercent, SharePercent, Window,
    Customers,           \* users who do something; the others only invited them
    MaxTime, MaxInvoices, MaxDeliveries, MaxCrashes   \* bounds of the model

ASSUME PlansAssumption ==
    /\ Price \in [Plans -> Nat \ {0}] /\ Length \in [Plans -> Nat \ {0}]
    /\ ChatPlan \in Plans
    /\ {TrialPlan, BetaPlan, NoPlan} \cap Plans = {}
    /\ TrialPlan # BetaPlan

ASSUME UsersAssumption ==
    /\ NoUser \notin Users
    /\ Referrer \in [Users -> Users \cup {NoUser}]
    /\ \A u \in Users : Referrer[u] # u
    /\ InitialCredits \in [Users -> Nat]
    /\ Customers \subseteq Users

ASSUME NumbersAssumption ==
    /\ Reward \in Nat \ {0} /\ TrialLength \in Nat \ {0}
    /\ BetaLength \in Nat \ {0} /\ Window \in Nat
    /\ DiscountPercent \in 0..100 /\ SharePercent \in 1..50
    /\ MaxTime \in Nat /\ MaxInvoices \in Nat /\ MaxDeliveries \in Nat \ {0}
    /\ MaxCrashes \in Nat

NoDate == -1                       \* expires_at IS NULL

AllPlans == Plans \cup {TrialPlan, BetaPlan, NoPlan}

Subscription ==
    [active : BOOLEAN, expires : Nat \cup {NoDate}, plan : AllPlans,
     trialUsed : BOOLEAN]

Invoice == [user : Users, plan : Plans, stars : Nat \ {0}, credits : Nat]
Receipt == [charge : Charges, invoice : Invoice]
Payment == [receipt : Receipt, at : Nat]

\* reference_id of a Credits transaction: sub_discount:<charge>,
\* ref_buy:<referral>:referrer and ref_buy:<referral>:invitee.
Sides == {"referrer", "invitee"}
Ref == [kind : {"sub_discount"}, charge : Charges]
       \cup [kind : Sides, user : Users]

\* An error while a charge was handled, by the step it struck first: the lookup
\* of the user, or the reward of one side of the invitation.
Failure == [charge : Charges, before : Sides \cup {"lookup"}]

Reply == [charge : Charges, text : {"activated", "duplicate", "failed"}]

VARIABLES
    now,
    sub,            \* the subscriptions table
    payments,       \* the pro_payments table
    balance,        \* SUM(credit_transactions.amount) of each user
    refs,           \* credit_transactions.reference_id
    firstPurchase,  \* invitees whose referrals.first_purchase_at is set
    freeTokens,     \* beta_invites with used_at IS NULL
    invoices,       \* payable invoices: a Telegram invoice link never expires
    approved,       \* receipts pre_checkout said yes to, not yet paid
    paid,           \* receipts whose Stars Telegram has taken
    queue,          \* undelivered copies of each charge's successful_payment
    task,           \* what each running handler holds
    replies,        \* messages the payment handler sent
    crashes,
    failures        \* history: errors nobody saw, for the properties only

database == <<sub, payments, balance, refs, firstPurchase, freeTokens>>
telegram == <<invoices, approved, paid, queue>>
vars == <<now, database, telegram, task, replies, crashes, failures>>

Idle == [pc |-> "idle"]

Task ==
    {Idle}
    \cup [pc : {"quoting"}, user : Users, plan : Plans, discount : BOOLEAN]
    \cup [pc : {"checking"}, receipt : Receipt, discount : BOOLEAN]
    \cup [pc : {"charged"}, receipt : Receipt]
    \cup [pc : {"paying"}, receipt : Receipt, seen : Subscription,
          new : Subscription, at : Nat]
    \cup [pc : {"granting"}, user : Users, seen : Subscription,
          new : Subscription, tokens : SUBSET Tokens]
    \cup [pc : {"status"}, user : Users, replies : SUBSET Reply]
    \cup [pc : {"deactivating"}, user : Users, replies : SUBSET Reply]

TypeOK ==
    /\ now \in Nat
    /\ sub \in [Users -> Subscription]
    /\ payments \subseteq Payment
    /\ balance \in [Users -> Int]
    /\ refs \subseteq Ref
    /\ firstPurchase \subseteq Users
    /\ freeTokens \subseteq Tokens
    /\ invoices \subseteq Invoice
    /\ approved \subseteq Receipt /\ paid \subseteq Receipt
    /\ queue \in [Charges -> 0..MaxDeliveries]
    /\ task \in [Handlers -> Task]
    /\ replies \subseteq Reply
    /\ crashes \in 0..MaxCrashes
    /\ failures \subseteq Failure

-----------------------------------------------------------------------------
\* Reading a subscription row (status_from_subscription).

Unexpired(row, t) == row.expires # NoDate /\ row.expires > t

IsPro(row, t) == row.active /\ Unexpired(row, t)

\* Mutant: a row is deactivated one tick before its date.
LapsedEarly(row, t) == row.active /\ row.expires # NoDate /\ row.expires <= t + 1

\* Rows get_pro_status deactivates: still active although the date has passed.
Lapsed(row, t) == row.active /\ row.expires # NoDate /\ ~Unexpired(row, t)

\* Mutant: an extension starts from today even when Pro is still running.
RestartedRow(row, t, length, plan) ==
    [row EXCEPT !.active = TRUE, !.plan = plan, !.expires = t + length]

\* Mutant: is_active is not set again on a row that was deactivated.
ReactivationForgotten(row, t, length, plan) ==
    [row EXCEPT !.plan = plan,
                !.expires = (IF IsPro(row, t) THEN row.expires ELSE t) + length]

\* What activate_pro_plan sets: a running period is extended, otherwise a new
\* one starts now.  plan_id is always overwritten.
PurchasedRow(row, t, length, plan) ==
    [row EXCEPT !.active = TRUE, !.plan = plan,
                !.expires = (IF IsPro(row, t) THEN row.expires ELSE t) + length]

\* extend_pro_days with the days of a beta invite.
ExtendedRow(row, t) == PurchasedRow(row, t, BetaLength, BetaPlan)

TrialRow(row, t) ==
    [active |-> TRUE, expires |-> t + TrialLength, plan |-> TrialPlan,
     trialUsed |-> TRUE]

\* Mutant: the UPDATE writes every column the handler loaded.
WholeRow(row, seen, new) == new

\* The UPDATE of a handler that loaded "seen" and assigned "new", applied to the
\* row as it is now: only columns whose value changed are written.
Merge(row, seen, new) ==
    [active |-> IF new.active # seen.active THEN new.active ELSE row.active,
     expires |-> IF new.expires # seen.expires THEN new.expires ELSE row.expires,
     plan |-> IF new.plan # seen.plan THEN new.plan ELSE row.plan,
     trialUsed |-> IF new.trialUsed # seen.trialUsed
                     THEN new.trialUsed ELSE row.trialUsed]

-----------------------------------------------------------------------------
\* Reading prices (get_invitee_discount, quote_plan_purchase).

ChargesOf(rows) == {p.receipt.charge : p \in rows}
Payers == {p.receipt.invoice.user : p \in payments}

\* The referral row is written when the invitee registers, at time 0.
DiscountActive(u) ==
    /\ Referrer[u] # NoUser
    /\ now < Window
    /\ u \notin firstPurchase
    /\ u \notin Payers

\* max(0, sum)
AvailableCredits(u) == IF balance[u] < 0 THEN 0 ELSE balance[u]

QuoteFor(u, plan, discount) ==
    BuildPurchaseQuote(Price[plan], discount, DiscountPercent, SharePercent,
                       AvailableCredits(u))

-----------------------------------------------------------------------------
Init ==
    /\ now = 0
    /\ sub = [u \in Users |-> [active |-> FALSE, expires |-> NoDate,
                               plan |-> NoPlan, trialUsed |-> FALSE]]
    /\ payments = {} /\ refs = {} /\ firstPurchase = {}
    /\ balance = InitialCredits
    /\ freeTokens = Tokens
    /\ invoices = {} /\ approved = {} /\ paid = {}
    /\ queue = [c \in Charges |-> 0]
    /\ task = [h \in Handlers |-> Idle]
    /\ replies = {}
    /\ crashes = 0
    /\ failures = {}

Begin(h, t) == task[h] = Idle /\ task' = [task EXCEPT ![h] = t]
Continue(h, t) == task' = [task EXCEPT ![h] = t]
Finish(h) == task' = [task EXCEPT ![h] = Idle]

Tick ==
    /\ now < MaxTime
    /\ now' = now + 1
    /\ UNCHANGED <<database, telegram, task, replies, crashes, failures>>

-----------------------------------------------------------------------------
\* POST /api/pro/invoice.  The discount and the balance are read by separate
\* statements.

ReadDiscount(h, u, plan) ==
    /\ Cardinality(invoices) < MaxInvoices
    /\ Begin(h, [pc |-> "quoting", user |-> u, plan |-> plan,
                 discount |-> DiscountActive(u)])
    /\ UNCHANGED <<now, database, telegram, replies, crashes, failures>>

CreateInvoice(h) ==
    /\ task[h].pc = "quoting"
    /\ LET u == task[h].user
           q == QuoteFor(u, task[h].plan, task[h].discount)
       IN  invoices' = invoices \cup
             {[user |-> u, plan |-> task[h].plan, stars |-> q.starsToPay,
               credits |-> q.creditsToUse]}
    /\ Finish(h)
    /\ UNCHANGED <<now, database, approved, paid, queue, replies, crashes,
                   failures>>

\* The chat command /pro: catalogue price, no Credits, nothing is read.
CmdPro(u) ==
    /\ Cardinality(invoices) < MaxInvoices
    /\ invoices' = invoices \cup
         {[user |-> u, plan |-> ChatPlan, stars |-> Price[ChatPlan],
           credits |-> 0]}
    /\ UNCHANGED <<now, database, approved, paid, queue, task, replies, crashes,
                   failures>>

-----------------------------------------------------------------------------
\* The pre-checkout handler.  Telegram gives every attempt to pay an invoice a
\* charge id of its own; the payload names the user the invoice is for.

ChargeInUse(c) ==
    \/ \E r \in approved \cup paid : r.charge = c
    \/ \E h \in Handlers : task[h].pc = "checking" /\ task[h].receipt.charge = c

PreCheckout(h, i, c) ==
    /\ ~ChargeInUse(c)
    /\ Begin(h, [pc |-> "checking", receipt |-> [charge |-> c, invoice |-> i],
                 discount |-> DiscountActive(i.user)])
    /\ UNCHANGED <<now, database, telegram, replies, crashes, failures>>

AnswerPreCheckout(h) ==
    /\ task[h].pc = "checking"
    /\ LET r == task[h].receipt
           i == r.invoice
           q == QuoteFor(i.user, i.plan, task[h].discount)
       IN  approved' = IF CheckoutAccepts(q, i.stars, i.credits)
                         THEN approved \cup {r} ELSE approved
    /\ Finish(h)
    /\ UNCHANGED <<now, database, invoices, paid, queue, replies, crashes,
                   failures>>

\* Telegram takes the Stars and queues the update, possibly more than once.
Pay(r, copies) ==
    /\ r \in approved
    /\ approved' = approved \ {r}
    /\ paid' = paid \cup {r}
    /\ queue' = [queue EXCEPT ![r.charge] = copies]
    /\ UNCHANGED <<now, database, invoices, task, replies, crashes, failures>>

-----------------------------------------------------------------------------
\* The successful_payment handler: activate_pro_plan.

\* Look the charge up; a known one only reports the status.
ReceivePayment(h, r) ==
    /\ r \in paid /\ queue[r.charge] > 0
    /\ queue' = [queue EXCEPT ![r.charge] = @ - 1]
    /\ Begin(h, IF r.charge \in ChargesOf(payments)
                  THEN [pc |-> "status", user |-> r.invoice.user,
                        replies |-> {[charge |-> r.charge, text |-> "duplicate"]}]
                  ELSE [pc |-> "charged", receipt |-> r])
    /\ UNCHANGED <<now, database, invoices, approved, paid, replies, crashes,
                   failures>>

\* The lookup of the user comes before the handler's try: an error there ends
\* the update, and the payer gets no message.
LookupFails(r) ==
    /\ r \in paid /\ queue[r.charge] > 0
    /\ queue' = [queue EXCEPT ![r.charge] = @ - 1]
    /\ failures' = failures \cup {[charge |-> r.charge, before |-> "lookup"]}
    /\ UNCHANGED <<now, database, invoices, approved, paid, task, replies,
                   crashes>>

\* Load the subscription and compute the new period.
ReadForPayment(h) ==
    /\ task[h].pc = "charged"
    /\ LET r == task[h].receipt
           u == r.invoice.user
       IN  Continue(h, [pc |-> "paying", receipt |-> r, seen |-> sub[u],
                        new |-> PurchasedRow(sub[u], now,
                                  Length[r.invoice.plan], r.invoice.plan),
                        at |-> now])
    /\ UNCHANGED <<now, database, telegram, replies, crashes, failures>>

SpendRef(c) == [kind |-> "sub_discount", charge |-> c]

\* Mutant: the ledger writes the reward of every purchase, not of the first.
RewardsEveryTime(u, done) == [kind : done, user : {u}]

\* The references grant_referral_purchase_credits writes when u buys and it gets
\* as far as the sides in "done": each credit_once writes only a new one.
NewRewards(u, done) == [kind : done, user : {u}] \ refs

RewardTo(u, v, done) ==
    IF \E side \in done :
         /\ [kind |-> side, user |-> u] \in NewRewards(u, done)
         /\ v = IF side = "referrer" THEN Referrer[u] ELSE u
      THEN Reward ELSE 0

\* Mutant: the invitee is credited before the referrer.
InviteeFirst(u) ==
    IF Referrer[u] = NoUser THEN {{}} ELSE {{}, {"invitee"}, Sides}

\* How far the rewards may get: any exception in them is logged and swallowed.
\* The referrer comes first; a buyer whom nobody invited has no rewards.
RewardOutcomes(u) ==
    IF Referrer[u] = NoUser THEN {{}} ELSE {{}, {"referrer"}, Sides}

\* The failure that outcome is, for the history.
RewardFailure(u, c, done) ==
    CASE Referrer[u] = NoUser \/ done = Sides -> {}
      [] OTHER -> {[charge |-> c,
                    before |-> IF done = {} THEN "referrer" ELSE "invitee"]}

\* Mutant: pro_payments has no unique index on the charge id.
NeverTaken(c) == FALSE

\* Mutant: the ledger does not look at the balance when it spends.
NeverUnaffordable(i) == FALSE

\* The two ways the commit can fail, decided after the UPDATE has locked the row.
ChargeTaken(c) == c \in ChargesOf(payments)
Unaffordable(i) == i.credits > 0 /\ AvailableCredits(i.user) < i.credits

\* UPDATE subscriptions, INSERT pro_payments, spend the Credits, reward the two
\* sides of the referral as far as that gets, set first_purchase_at, COMMIT.
CommitPayment(h, done) ==
    /\ task[h].pc = "paying"
    /\ LET t == task[h]
           c == t.receipt.charge
           i == t.receipt.invoice
           u == i.user
       IN  /\ ~ChargeTaken(c) /\ ~Unaffordable(i)
           /\ done \in RewardOutcomes(u)
           /\ sub' = [sub EXCEPT ![u] = Merge(@, t.seen, t.new)]
           /\ payments' = payments \cup {[receipt |-> t.receipt, at |-> t.at]}
           /\ balance' = [v \in Users |->
                 balance[v] - (IF v = u THEN i.credits ELSE 0)
                            + RewardTo(u, v, done)]
           /\ refs' = refs \cup (IF i.credits > 0 THEN {SpendRef(c)} ELSE {})
                           \cup NewRewards(u, done)
           /\ firstPurchase' =
                 IF done = Sides THEN firstPurchase \cup {u} ELSE firstPurchase
           /\ replies' = replies \cup {[charge |-> c, text |-> "activated"]}
           /\ failures' = failures \cup RewardFailure(u, c, done)
    /\ Finish(h)
    /\ UNCHANGED <<now, freeTokens, telegram, crashes>>

\* The INSERT violates the unique charge id: the handler's except branch.
PaymentConflicts(h) ==
    /\ task[h].pc = "paying"
    /\ ChargeTaken(task[h].receipt.charge)
    /\ replies' = replies \cup
         {[charge |-> task[h].receipt.charge, text |-> "failed"]}
    /\ Finish(h)
    /\ UNCHANGED <<now, database, telegram, crashes, failures>>

\* Mutant: after the rollback the handler returns without a message.
RefusedSilently(h) ==
    /\ task[h].pc = "paying"
    /\ LET r == task[h].receipt
       IN  ~ChargeTaken(r.charge) /\ Unaffordable(r.invoice)
    /\ Finish(h)
    /\ UNCHANGED <<now, database, telegram, replies, crashes, failures>>

\* spend_credits_once raises: ROLLBACK, reload, report the status.  The result
\* has activated = duplicate = False and the handler tests only duplicate, so
\* the message sent is the one of an activation.
PaymentRefused(h) ==
    /\ task[h].pc = "paying"
    /\ LET r == task[h].receipt
       IN  /\ ~ChargeTaken(r.charge) /\ Unaffordable(r.invoice)
           /\ Continue(h, [pc |-> "status", user |-> r.invoice.user,
                 replies |-> {[charge |-> r.charge, text |-> "activated"]}])
    /\ UNCHANGED <<now, database, telegram, replies, crashes, failures>>

-----------------------------------------------------------------------------
\* get_pro_status: read the row, deactivate it if it has lapsed.  The second
\* half of a payment handler that found its charge known or its Credits spent.

FinishStatus(h) ==
    /\ task[h].pc = "status"
    /\ LET t == task[h]
       IN  IF Lapsed(sub[t.user], now)
             THEN /\ Continue(h, [pc |-> "deactivating", user |-> t.user,
                                  replies |-> t.replies])
                  /\ UNCHANGED replies
             ELSE /\ replies' = replies \cup t.replies
                  /\ Finish(h)
    /\ UNCHANGED <<now, database, telegram, crashes, failures>>

\* The same read by any guard or status request (require_pro, GET /status, a
\* refused trial).  Only a lapsed row makes it write.
CheckStatus(h, u) ==
    /\ Lapsed(sub[u], now)
    /\ Begin(h, [pc |-> "deactivating", user |-> u, replies |-> {}])
    /\ UNCHANGED <<now, database, telegram, replies, crashes, failures>>

\* UPDATE subscriptions SET is_active = false, by primary key; COMMIT.
Deactivate(h) ==
    /\ task[h].pc = "deactivating"
    /\ sub' = [sub EXCEPT ![task[h].user].active = FALSE]
    /\ replies' = replies \cup task[h].replies
    /\ Finish(h)
    /\ UNCHANGED <<now, payments, balance, refs, firstPurchase, freeTokens,
                   telegram, crashes, failures>>

-----------------------------------------------------------------------------
\* Grants that cost nothing: trial and beta invite.

Granting(u, row, new, tokens) ==
    [pc |-> "granting", user |-> u, seen |-> row, new |-> new,
     tokens |-> tokens]

\* Mutant: the trial is refused to Pro users only.
TrialOpenToFreeUsers(u) == ~IsPro(sub[u], now)

TrialAllowed(u) == ~sub[u].trialUsed /\ ~IsPro(sub[u], now)

\* POST /api/pro/trial.
ReadForTrial(h, u) ==
    /\ TrialAllowed(u)
    /\ Begin(h, Granting(u, sub[u], TrialRow(sub[u], now), {}))
    /\ UNCHANGED <<now, database, telegram, replies, crashes, failures>>

\* redeem_beta_invite: the conditional UPDATE claims the token and keeps its row
\* locked until the commit; then extend_pro_days loads the subscription.
ClaimInvite(h, u, token) ==
    /\ token \in freeTokens
    /\ \A g \in Handlers :
         task[g].pc = "granting" => token \notin task[g].tokens
    /\ Begin(h, Granting(u, sub[u], ExtendedRow(sub[u], now), {token}))
    /\ UNCHANGED <<now, database, telegram, replies, crashes, failures>>

CommitGrant(h) ==
    /\ task[h].pc = "granting"
    /\ LET t == task[h]
       IN  /\ sub' = [sub EXCEPT ![t.user] = Merge(@, t.seen, t.new)]
           /\ freeTokens' = freeTokens \ t.tokens
    /\ Finish(h)
    /\ UNCHANGED <<now, payments, balance, refs, firstPurchase, telegram,
                   replies, crashes, failures>>

-----------------------------------------------------------------------------
\* The charge a payment handler works on, also while it reads the status.
HandledBy(h) ==
    CASE task[h].pc \in {"charged", "paying"} -> {task[h].receipt.charge}
      [] task[h].pc \in {"status", "deactivating"} ->
           {m.charge : m \in task[h].replies}
      [] OTHER -> {}

\* A database error ends a handler and rolls back what it had not committed; the
\* except branch of a payment handler answers the payer.
HandlerFails(h) ==
    /\ task[h] # Idle
    /\ replies' = replies \cup [charge : HandledBy(h), text : {"failed"}]
    /\ Finish(h)
    /\ UNCHANGED <<now, database, telegram, crashes, failures>>

\* The process dies: running handlers are lost and their transactions rolled
\* back; main() drops the pending updates when it starts again.
Crash ==
    /\ crashes < MaxCrashes
    /\ crashes' = crashes + 1
    /\ task' = [h \in Handlers |-> Idle]
    /\ queue' = [c \in Charges |-> 0]
    /\ UNCHANGED <<now, database, invoices, approved, paid, replies, failures>>

Step(h) ==
    \/ CreateInvoice(h) \/ AnswerPreCheckout(h)
    \/ ReadForPayment(h) \/ \E done \in SUBSET Sides : CommitPayment(h, done)
    \/ PaymentConflicts(h) \/ PaymentRefused(h)
    \/ FinishStatus(h) \/ Deactivate(h) \/ CommitGrant(h)

Request(h) ==
    \/ \E u \in Customers, plan \in Plans : ReadDiscount(h, u, plan)
    \/ \E i \in invoices, c \in Charges : PreCheckout(h, i, c)
    \/ \E u \in Customers : CheckStatus(h, u) \/ ReadForTrial(h, u)
    \/ \E u \in Customers, token \in Tokens : ClaimInvite(h, u, token)

Next ==
    \/ Tick
    \/ Crash
    \/ \E u \in Customers : CmdPro(u)
    \/ \E r \in approved, copies \in 1..MaxDeliveries : Pay(r, copies)
    \/ \E h \in Handlers : Request(h) \/ Step(h) \/ HandlerFails(h)
    \/ \E r \in paid : LookupFails(r) \/ \E h \in Handlers : ReceivePayment(h, r)

Spec == Init /\ [][Next]_vars

\* Fairness: the loop runs every task that is not waiting, and the dispatcher
\* starts a task for every update it received, whatever else is running.
FairSpec ==
    /\ Spec
    /\ \A h \in Handlers : WF_vars(Step(h))
    /\ \A c \in Charges :
          SF_vars(\E h \in Handlers, r \in paid :
                    r.charge = c /\ ReceivePayment(h, r))

-----------------------------------------------------------------------------
\* A charge buys one period, however often and however concurrently its
\* successful_payment update is handled.
ChargeGrantedOnce ==
    \A p, q \in payments : p.receipt.charge = q.receipt.charge => p = q

\* No ledger sum is ever negative, although Credits are claimed when the invoice
\* is built and spent much later.
CreditsNeverOverdrawn == \A u \in Users : balance[u] >= 0

PaymentsOf(u) == {p \in payments : p.receipt.invoice.user = u}
CreditsPaid == [p \in Payment |-> p.receipt.invoice.credits]
LengthBought == [p \in Payment |-> Length[p.receipt.invoice.plan]]
Total(amount, rows) == MapThenSumSet(LAMBDA p : amount[p], rows)

Failed(p, step) == [charge |-> p.receipt.charge, before |-> step] \in failures

\* The rewards a recorded payment got as far as.
Reached(p) ==
    CASE Failed(p, "referrer") -> {}
      [] Failed(p, "invitee") -> {"referrer"}
      [] OTHER -> Sides

\* A purchase of u, whom somebody invited, got as far as this side's reward.
Earned(u, side) ==
    Referrer[u] # NoUser /\ \E p \in PaymentsOf(u) : side \in Reached(p)

\* Every Credit is accounted for by payments and swallowed errors: a balance is
\* what the user started with, plus one reward for each friend one of whose
\* purchases reached the referrer's reward, plus one if a purchase of the user's
\* own reached the invitee's, minus the Credits of recorded payments.  So no
\* repetition pays a side twice, and a reward is missing only if the errors
\* struck every purchase that should have brought it.
LedgerBalanced ==
    \A u \in Users :
      LET friends == {v \in Users : Referrer[v] = u /\ Earned(v, "referrer")}
          own == IF Earned(u, "invitee") THEN 1 ELSE 0
      IN  balance[u] = InitialCredits[u]
                       + Reward * (Cardinality(friends) + own)
                       - Total(CreditsPaid, PaymentsOf(u))

\* The end of the Pro period a row grants, 0 when it grants none.
ProUntil(row) == IF row.active /\ row.expires # NoDate THEN row.expires ELSE 0

\* Every payment recorded moves the end of Pro at least one plan length past
\* both the moment of the purchase and the end the user had before it.
PaymentExtends ==
    [][\A p \in payments' \ payments :
         LET i == p.receipt.invoice
         IN  ProUntil(sub'[i.user]) >=
               Max({p.at, ProUntil(sub[i.user])}) + Length[i.plan]]_vars

\* The table of payments and the subscription agree: Pro lasts, from the first
\* purchase on, at least as long as all recorded payments together have bought.
PaidTimeDelivered ==
    \A u \in Users :
      PaymentsOf(u) # {} =>
        \E p \in PaymentsOf(u) :
          sub[u].expires >= p.at + Total(LengthBought, PaymentsOf(u))

\* Only the clock ends Pro: no handler's step takes it from a user who has it.
ProNotLost ==
    [][\A u \in Users : IsPro(sub[u], now') => IsPro(sub'[u], now')]_vars

\* Trial time is given once per user.
TrialOnce ==
    [][\A u \in Users :
         /\ sub[u].trialUsed
         /\ sub'[u].plan = TrialPlan
         /\ sub'[u].active
         => sub'[u].expires = sub[u].expires]_vars

\* A used trial stays used: a handler that loaded the row before the trial was
\* committed does not write its stale trial_used back.
TrialStaysUsed ==
    [][\A u \in Users : sub[u].trialUsed => sub'[u].trialUsed]_vars

\* The database keeps what PaidGrants promises.
Promise == INSTANCE PaidGrants WITH
    granted <- ChargesOf(payments),
    wallet <- balance,
    rewarded <- {ref \in refs : ref.kind \in Sides}

KeepsPromise == Promise!Spec

Answered(c) == \E r \in replies : r.charge = c

\* The payer of every charge is sent an answer, on each of the handler's ways out
\* that begins inside its try: activated, duplicate, refused, the charge taken by
\* another copy, any other error.  Excepted are a restart, which drops updates
\* and handlers, and an error of the lookup before the try.
EveryPaymentAnswered ==
    \A c \in Charges :
      queue[c] > 0 ~>
        \/ Answered(c)
        \/ crashes > 0
        \/ [charge |-> c, before |-> "lookup"] \in failures
=============================================================================
