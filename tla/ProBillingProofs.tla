-------------------------- MODULE ProBillingProofs ---------------------------
(***************************************************************************)
(* ProBilling, proved for every set of users, handlers, charges, plans and *)
(* invite tokens, every referral graph and every price list.               *)
(***************************************************************************)
EXTENDS ProBilling, FiniteSetTheorems, WellFoundedInduction, TLAPS

USE DEF NoDate

-----------------------------------------------------------------------------
\* What the operators on rows return.

\* activate_pro_plan (activation.py:84-103) leaves a well-formed row.
LEMMA PurchasedRowType ==
    ASSUME NEW row \in Subscription, NEW t \in Nat, NEW length \in Nat,
           NEW plan \in AllPlans
    PROVE  PurchasedRow(row, t, length, plan) \in Subscription
<1>1. (IF IsPro(row, t) THEN row.expires ELSE t) + length \in Nat
  BY DEF IsPro, Unexpired, Subscription
<1>2. QED
  BY <1>1 DEF PurchasedRow, Subscription

\* So do extend_pro_days and the trial.
LEMMA GrantedRowType ==
    ASSUME NEW row \in Subscription, NEW t \in Nat
    PROVE  /\ ExtendedRow(row, t) \in Subscription
           /\ TrialRow(row, t) \in Subscription
<1>1. ExtendedRow(row, t) \in Subscription
  BY PurchasedRowType, NumbersAssumption DEF ExtendedRow, AllPlans
<1>2. TrialRow(row, t) \in Subscription
  BY NumbersAssumption DEF TrialRow, Subscription, AllPlans
<1>3. QED
  BY <1>1, <1>2

\* The columns of an UPDATE are those of the row or of the new values.
LEMMA MergeType ==
    ASSUME NEW row \in Subscription, NEW seen \in Subscription,
           NEW new \in Subscription
    PROVE  Merge(row, seen, new) \in Subscription
  BY DEF Merge, Subscription

\* What a running task holds, by its program counter.
LEMMA TaskFields ==
    ASSUME NEW t \in Task
    PROVE  /\ t.pc = "quoting" => /\ t.user \in Users /\ t.plan \in Plans
                                  /\ t.discount \in BOOLEAN
           /\ t.pc = "checking" => /\ t.receipt \in Receipt
                                   /\ t.discount \in BOOLEAN
           /\ t.pc = "charged" => t.receipt \in Receipt
           /\ t.pc = "paying" => /\ t.receipt \in Receipt /\ t.at \in Nat
                                 /\ t.seen \in Subscription
                                 /\ t.new \in Subscription
           /\ t.pc = "granting" => /\ t.user \in Users
                                   /\ t.seen \in Subscription
                                   /\ t.new \in Subscription
                                   /\ t.tokens \in SUBSET Tokens
           /\ t.pc \in {"status", "deactivating"} =>
                /\ t.user \in Users /\ t.replies \in SUBSET Reply
  BY DEF Task, Idle

\* A quote for a plan, at any balance, sells for Stars and for Credits the
\* buyer has (build_purchase_quote).
LEMMA QuoteForType ==
    ASSUME TypeOK, NEW u \in Users, NEW plan \in Plans, NEW discount \in BOOLEAN
    PROVE  /\ QuoteFor(u, plan, discount).starsToPay \in Nat \ {0}
           /\ QuoteFor(u, plan, discount).creditsToUse \in Nat
<1> DEFINE final == IF discount THEN PriceAfterDiscount(Price[plan], DiscountPercent)
                    ELSE Price[plan]
           most == MaxCreditsForPrice(final, SharePercent)
           used == AtMost(AvailableCredits(u), most)
<1>1. Price[plan] \in Nat \ {0} /\ AvailableCredits(u) \in Nat
  BY PlansAssumption DEF AvailableCredits, TypeOK
<1>2. final \in Nat \ {0}
  <2>1. CutOf(Price[plan], DiscountPercent) \in Int
    BY <1>1, NumbersAssumption DEF CutOf
  <2>2. QED
    BY <1>1, <2>1 DEF PriceAfterDiscount
<1>3. most \in 0..(final - 1)
  <2>1. final * SharePercent \in Nat /\ (final * SharePercent) \div 100 \in Nat
    <3>1. final * SharePercent \in Nat
      BY <1>2, NumbersAssumption
    <3>2. QED
      BY <3>1
  <2> HIDE DEF final
  <2>2. QED
    BY <1>2, <2>1 DEF MaxCreditsForPrice, AtMost
<1>4. /\ QuoteFor(u, plan, discount).starsToPay = final - used
      /\ QuoteFor(u, plan, discount).creditsToUse = used
  BY DEF QuoteFor, BuildPurchaseQuote
<1> HIDE DEF final, most
<1>5. used \in Nat /\ used <= most
  BY <1>1, <1>2, <1>3 DEF AtMost
<1> HIDE DEF used
<1>6. QED
  BY <1>2, <1>3, <1>4, <1>5

\* Moving one handler to a well-formed task keeps all tasks well formed.
LEMMA TaskUpdate ==
    ASSUME TypeOK, NEW h \in Handlers, NEW t \in Task,
           task' = [task EXCEPT ![h] = t]
    PROVE  task' \in [Handlers -> Task]
  BY DEF TypeOK

-----------------------------------------------------------------------------
\* The type invariant, action by action.

LEMMA InitTypeOK == Init => TypeOK
<1> SUFFICES ASSUME Init PROVE TypeOK
  OBVIOUS
<1>1. sub \in [Users -> Subscription]
  BY DEF Init, Subscription, AllPlans
<1>2. balance \in [Users -> Int]
  BY UsersAssumption DEF Init
<1>3. task \in [Handlers -> Task]
  BY DEF Init, Task
<1>4. queue \in [Charges -> 0..MaxDeliveries]
  BY NumbersAssumption DEF Init
<1>5. /\ now \in Nat /\ crashes \in 0..MaxCrashes
      /\ payments \subseteq Payment /\ refs \subseteq Ref
      /\ firstPurchase \subseteq Users /\ freeTokens \subseteq Tokens
      /\ invoices \subseteq Invoice /\ approved \subseteq Receipt
      /\ paid \subseteq Receipt /\ replies \subseteq Reply
      /\ failures \subseteq Failure
  BY NumbersAssumption DEF Init
<1>6. QED
  BY <1>1, <1>2, <1>3, <1>4, <1>5 DEF TypeOK

LEMMA QuotingTypeOK ==
    ASSUME TypeOK, NEW h \in Handlers,
           \/ \E u \in Users, plan \in Plans : ReadDiscount(h, u, plan)
           \/ CreateInvoice(h)
    PROVE  TypeOK'
<1>1. CASE \E u \in Users, plan \in Plans : ReadDiscount(h, u, plan)
  <2>1. PICK u \in Users, plan \in Plans : ReadDiscount(h, u, plan)
    BY <1>1
  <2>2. [pc |-> "quoting", user |-> u, plan |-> plan,
         discount |-> DiscountActive(u)] \in Task
    BY DEF Task, DiscountActive
  <2>3. task' \in [Handlers -> Task]
    BY <2>1, <2>2, TaskUpdate DEF ReadDiscount, Begin
  <2>4. QED
    BY <2>1, <2>3 DEF ReadDiscount, TypeOK, database, telegram
<1>2. CASE CreateInvoice(h)
  <2> DEFINE t == task[h]
             q == QuoteFor(t.user, t.plan, t.discount)
  <2>1. /\ t.user \in Users /\ t.plan \in Plans /\ t.discount \in BOOLEAN
    BY <1>2, TaskFields DEF CreateInvoice, TypeOK
  <2>2. q.starsToPay \in Nat \ {0} /\ q.creditsToUse \in Nat
    BY <2>1, QuoteForType
  <2>3. [user |-> t.user, plan |-> t.plan, stars |-> q.starsToPay,
         credits |-> q.creditsToUse] \in Invoice
    BY <2>1, <2>2 DEF Invoice
  <2>4. invoices' \subseteq Invoice
    BY <1>2, <2>3 DEF CreateInvoice, TypeOK
  <2>5. task' \in [Handlers -> Task]
    BY <1>2, TaskUpdate DEF CreateInvoice, Finish, Task
  <2>6. QED
    BY <1>2, <2>4, <2>5 DEF CreateInvoice, TypeOK, database
<1>3. QED
  BY <1>1, <1>2

LEMMA CheckoutTypeOK ==
    ASSUME TypeOK, NEW h \in Handlers,
           \/ \E i \in invoices, c \in Charges : PreCheckout(h, i, c)
           \/ AnswerPreCheckout(h)
    PROVE  TypeOK'
<1>1. CASE \E i \in invoices, c \in Charges : PreCheckout(h, i, c)
  <2>1. PICK i \in invoices, c \in Charges : PreCheckout(h, i, c)
    BY <1>1
  <2>2. [charge |-> c, invoice |-> i] \in Receipt
    BY DEF Receipt, TypeOK
  <2>3. [pc |-> "checking", receipt |-> [charge |-> c, invoice |-> i],
         discount |-> DiscountActive(i.user)] \in Task
    BY <2>2 DEF Task, DiscountActive
  <2>4. task' \in [Handlers -> Task]
    BY <2>1, <2>3, TaskUpdate DEF PreCheckout, Begin
  <2>5. QED
    BY <2>1, <2>4 DEF PreCheckout, TypeOK, database, telegram
<1>2. CASE AnswerPreCheckout(h)
  <2>1. task[h].receipt \in Receipt
    BY <1>2, TaskFields DEF AnswerPreCheckout, TypeOK
  <2>2. approved' \subseteq Receipt
    BY <1>2, <2>1 DEF AnswerPreCheckout, TypeOK
  <2>3. task' \in [Handlers -> Task]
    BY <1>2, TaskUpdate DEF AnswerPreCheckout, Finish, Task
  <2>4. QED
    BY <1>2, <2>2, <2>3 DEF AnswerPreCheckout, TypeOK, database
<1>3. QED
  BY <1>1, <1>2

\* The chat command and Telegram's own step belong to no handler.
LEMMA PayTypeOK ==
    ASSUME TypeOK,
           \E r \in approved, copies \in 1..MaxDeliveries : Pay(r, copies)
    PROVE  TypeOK'
<1>1. PICK r \in approved, copies \in 1..MaxDeliveries : Pay(r, copies)
  OBVIOUS
<1>2. copies \in 0..MaxDeliveries
  BY NumbersAssumption
<1>3. queue' \in [Charges -> 0..MaxDeliveries]
  BY <1>1, <1>2 DEF Pay, TypeOK
<1>4. QED
  BY <1>1, <1>3 DEF Pay, TypeOK, database

LEMMA CmdProTypeOK ==
    ASSUME TypeOK, NEW u \in Users, CmdPro(u)
    PROVE  TypeOK'
<1>1. [user |-> u, plan |-> ChatPlan, stars |-> Price[ChatPlan],
       credits |-> 0] \in Invoice
  BY PlansAssumption DEF Invoice
<1>2. QED
  BY <1>1 DEF CmdPro, TypeOK, database

LEMMA ReceivingTypeOK ==
    ASSUME TypeOK, NEW h \in Handlers,
           \/ \E r \in paid : ReceivePayment(h, r)
           \/ ReadForPayment(h)
    PROVE  TypeOK'
<1>1. CASE \E r \in paid : ReceivePayment(h, r)
  <2>1. PICK r \in paid : ReceivePayment(h, r)
    BY <1>1
  <2>2. /\ r \in Receipt /\ r.charge \in Charges /\ r.invoice.user \in Users
    BY DEF TypeOK, Receipt, Invoice
  <2>3. queue' \in [Charges -> 0..MaxDeliveries]
    <3>1. queue[r.charge] \in 0..MaxDeliveries /\ queue[r.charge] > 0
      BY <2>1, <2>2 DEF ReceivePayment, TypeOK
    <3>2. queue[r.charge] - 1 \in 0..MaxDeliveries
      BY <3>1, NumbersAssumption
    <3>3. QED
      BY <2>1, <3>2 DEF ReceivePayment, TypeOK
  <2>4. [pc |-> "status", user |-> r.invoice.user,
         replies |-> {[charge |-> r.charge, text |-> "duplicate"]}] \in Task
    BY <2>2 DEF Task, Reply
  <2>5. [pc |-> "charged", receipt |-> r] \in Task
    BY <2>2 DEF Task
  <2>6. task' \in [Handlers -> Task]
    BY <2>1, <2>4, <2>5, TaskUpdate DEF ReceivePayment, Begin
  <2>7. QED
    BY <2>1, <2>3, <2>6 DEF ReceivePayment, TypeOK, database
<1>2. CASE ReadForPayment(h)
  <2> DEFINE r == task[h].receipt
             new == PurchasedRow(sub[r.invoice.user], now,
                                 Length[r.invoice.plan], r.invoice.plan)
  <2>1. /\ r \in Receipt /\ r.invoice.user \in Users /\ r.invoice.plan \in Plans
    BY <1>2, TaskFields DEF ReadForPayment, TypeOK, Receipt, Invoice
  <2>2. sub[r.invoice.user] \in Subscription /\ now \in Nat
    BY <2>1 DEF TypeOK
  <2>3. new \in Subscription
    BY <2>1, <2>2, PurchasedRowType, PlansAssumption DEF AllPlans
  <2> HIDE DEF new
  <2>4. [pc |-> "paying", receipt |-> r, seen |-> sub[r.invoice.user],
         new |-> new, at |-> now] \in Task
    BY <2>1, <2>2, <2>3 DEF Task
  <2>5. task' \in [Handlers -> Task]
    BY <1>2, <2>4, TaskUpdate DEF ReadForPayment, Continue, new
  <2>6. QED
    BY <1>2, <2>5 DEF ReadForPayment, TypeOK, database, telegram
<1>3. QED
  BY <1>1, <1>2

\* What CommitPayment writes, apart from the task it ends.
LEMMA CommitPaymentType ==
    ASSUME TypeOK, NEW h \in Handlers, NEW done \in SUBSET Sides,
           CommitPayment(h, done)
    PROVE  TypeOK'
<1> DEFINE t == task[h]
           c == t.receipt.charge
           i == t.receipt.invoice
<1>1. /\ t.receipt \in Receipt /\ t.at \in Nat
      /\ t.seen \in Subscription /\ t.new \in Subscription
  BY TaskFields DEF CommitPayment, TypeOK
<1>2. c \in Charges /\ i.user \in Users /\ i.credits \in Nat
  BY <1>1 DEF Receipt, Invoice
<1>3. sub' \in [Users -> Subscription]
  <2>1. Merge(sub[i.user], t.seen, t.new) \in Subscription
    BY <1>1, <1>2, MergeType DEF TypeOK
  <2>2. QED
    BY <2>1 DEF CommitPayment, TypeOK
<1>4. payments' \subseteq Payment
  BY <1>1 DEF CommitPayment, TypeOK, Payment
<1>5. balance' \in [Users -> Int]
  <2>1. \A v \in Users : RewardTo(i.user, v, done) \in Nat
    BY NumbersAssumption DEF RewardTo
  <2>2. \A v \in Users :
          balance[v] - (IF v = i.user THEN i.credits ELSE 0)
            + RewardTo(i.user, v, done) \in Int
    BY <1>2, <2>1 DEF TypeOK
  <2>3. QED
    BY <2>2 DEF CommitPayment
<1>6. refs' \subseteq Ref
  <2>1. NewRewards(i.user, done) \subseteq Ref
    BY <1>2 DEF NewRewards, Ref
  <2>2. SpendRef(c) \in Ref
    BY <1>2 DEF SpendRef, Ref
  <2>3. refs' = refs \cup (IF i.credits > 0 THEN {SpendRef(c)} ELSE {})
                    \cup NewRewards(i.user, done)
    BY DEF CommitPayment
  <2>4. QED
    BY <2>1, <2>2, <2>3 DEF TypeOK
<1>7. firstPurchase' \subseteq Users
  BY <1>2 DEF CommitPayment, TypeOK
<1>8. replies' \subseteq Reply
  BY <1>2 DEF CommitPayment, TypeOK, Reply
<1>9. task' \in [Handlers -> Task]
  BY TaskUpdate DEF CommitPayment, Finish, Task
<1>10. failures' \subseteq Failure
  <2>1. RewardFailure(i.user, c, done) \subseteq Failure
    BY <1>2 DEF RewardFailure, Failure, Sides
  <2>2. failures' = failures \cup RewardFailure(i.user, c, done)
    BY DEF CommitPayment
  <2>3. QED
    BY <2>1, <2>2 DEF TypeOK
<1>11. QED
  BY <1>3, <1>4, <1>5, <1>6, <1>7, <1>8, <1>9, <1>10
  DEF CommitPayment, TypeOK, telegram

\* The errors before the try and inside a handler.
LEMMA FailureTypeOK ==
    ASSUME TypeOK,
           \/ \E r \in paid : LookupFails(r)
           \/ \E h \in Handlers : HandlerFails(h)
    PROVE  TypeOK'
<1>1. CASE \E r \in paid : LookupFails(r)
  <2>1. PICK r \in paid : LookupFails(r)
    BY <1>1
  <2>2. r.charge \in Charges
    BY DEF TypeOK, Receipt
  <2>3. queue' \in [Charges -> 0..MaxDeliveries]
    <3>1. queue[r.charge] \in 0..MaxDeliveries /\ queue[r.charge] > 0
      BY <2>1, <2>2 DEF LookupFails, TypeOK
    <3>2. queue[r.charge] - 1 \in 0..MaxDeliveries
      BY <3>1, NumbersAssumption
    <3>3. QED
      BY <2>1, <3>2 DEF LookupFails, TypeOK
  <2>4. failures' \subseteq Failure
    BY <2>1, <2>2 DEF LookupFails, TypeOK, Failure
  <2>5. QED
    BY <2>1, <2>3, <2>4 DEF LookupFails, TypeOK, database
<1>2. CASE \E h \in Handlers : HandlerFails(h)
  <2>1. PICK h \in Handlers : HandlerFails(h)
    BY <1>2
  <2>2. HandledBy(h) \subseteq Charges
    BY TaskFields DEF HandledBy, TypeOK, Receipt, Reply
  <2>3. replies' \subseteq Reply
    BY <2>1, <2>2 DEF HandlerFails, TypeOK, Reply
  <2>4. task' \in [Handlers -> Task]
    BY <2>1, TaskUpdate DEF HandlerFails, Finish, Task
  <2>5. QED
    BY <2>1, <2>3, <2>4 DEF HandlerFails, TypeOK, database, telegram
<1>3. QED
  BY <1>1, <1>2

LEMMA FailedPaymentTypeOK ==
    ASSUME TypeOK, NEW h \in Handlers, PaymentConflicts(h) \/ PaymentRefused(h)
    PROVE  TypeOK'
<1> DEFINE r == task[h].receipt
<1>1. /\ r \in Receipt /\ r.charge \in Charges /\ r.invoice.user \in Users
  BY TaskFields DEF PaymentConflicts, PaymentRefused, TypeOK, Receipt, Invoice
<1>2. CASE PaymentConflicts(h)
  <2>1. replies' \subseteq Reply
    BY <1>1, <1>2 DEF PaymentConflicts, TypeOK, Reply
  <2>2. task' \in [Handlers -> Task]
    BY <1>2, TaskUpdate DEF PaymentConflicts, Finish, Task
  <2>3. QED
    BY <1>2, <2>1, <2>2 DEF PaymentConflicts, TypeOK, database, telegram
<1>3. CASE PaymentRefused(h)
  <2>1. [pc |-> "status", user |-> r.invoice.user,
         replies |-> {[charge |-> r.charge, text |-> "activated"]}] \in Task
    BY <1>1 DEF Task, Reply
  <2>2. task' \in [Handlers -> Task]
    BY <1>3, <2>1, TaskUpdate DEF PaymentRefused, Continue
  <2>3. QED
    BY <1>3, <2>2 DEF PaymentRefused, TypeOK, database, telegram
<1>4. QED
  BY <1>2, <1>3

LEMMA StatusTypeOK ==
    ASSUME TypeOK, NEW h \in Handlers,
           FinishStatus(h) \/ Deactivate(h) \/ \E u \in Users : CheckStatus(h, u)
    PROVE  TypeOK'
<1> DEFINE t == task[h]
<1>1. CASE FinishStatus(h)
  <2>1. t.user \in Users /\ t.replies \in SUBSET Reply
    BY <1>1, TaskFields DEF FinishStatus, TypeOK
  <2>2. [pc |-> "deactivating", user |-> t.user, replies |-> t.replies] \in Task
    BY <2>1 DEF Task
  <2>3. task' \in [Handlers -> Task]
    <3>1. CASE Lapsed(sub[t.user], now)
      BY <1>1, <2>2, <3>1, TaskUpdate DEF FinishStatus, Continue
    <3>2. CASE ~Lapsed(sub[t.user], now)
      BY <1>1, <3>2, TaskUpdate DEF FinishStatus, Finish, Task
    <3>3. QED
      BY <3>1, <3>2
  <2>4. replies' \subseteq Reply
    BY <1>1, <2>1 DEF FinishStatus, TypeOK
  <2>5. QED
    BY <1>1, <2>3, <2>4 DEF FinishStatus, TypeOK, database, telegram
<1>2. CASE Deactivate(h)
  <2>1. t.user \in Users /\ t.replies \in SUBSET Reply
    BY <1>2, TaskFields DEF Deactivate, TypeOK
  <2>2. [sub[t.user] EXCEPT !.active = FALSE] \in Subscription
    BY <2>1, ZenonT(60) DEF TypeOK, Subscription
  <2>3. sub' = [sub EXCEPT ![t.user] = [sub[t.user] EXCEPT !.active = FALSE]]
    BY <1>2 DEF Deactivate
  <2>4. sub' \in [Users -> Subscription]
    BY <2>1, <2>2, <2>3 DEF TypeOK
  <2>5. task' \in [Handlers -> Task]
    BY <1>2, TaskUpdate DEF Deactivate, Finish, Task
  <2>6. replies' \subseteq Reply
    BY <1>2, <2>1 DEF Deactivate, TypeOK
  <2>7. QED
    BY <1>2, <2>4, <2>5, <2>6 DEF Deactivate, TypeOK, telegram
<1>3. CASE \E u \in Users : CheckStatus(h, u)
  <2>1. PICK u \in Users : CheckStatus(h, u)
    BY <1>3
  <2>2. [pc |-> "deactivating", user |-> u, replies |-> {}] \in Task
    BY DEF Task
  <2>3. task' \in [Handlers -> Task]
    BY <2>1, <2>2, TaskUpdate DEF CheckStatus, Begin
  <2>4. QED
    BY <2>1, <2>3 DEF CheckStatus, TypeOK, database, telegram
<1>4. QED
  BY <1>1, <1>2, <1>3

\* The reads of the free grants differ in the row they prepare only.
LEMMA GrantingTask ==
    ASSUME TypeOK, NEW u \in Users, NEW new \in Subscription,
           NEW tokens \in SUBSET Tokens
    PROVE  Granting(u, sub[u], new, tokens) \in Task
  BY DEF TypeOK, Granting, Task

LEMMA GrantTypeOK ==
    ASSUME TypeOK, NEW h \in Handlers,
           \/ \E u \in Users : ReadForTrial(h, u)
           \/ \E u \in Users, token \in Tokens : ClaimInvite(h, u, token)
           \/ CommitGrant(h)
    PROVE  TypeOK'
<1> DEFINE t == task[h]
<1>0. \A u \in Users : /\ ExtendedRow(sub[u], now) \in Subscription
                       /\ TrialRow(sub[u], now) \in Subscription
  BY GrantedRowType DEF TypeOK
<1>1. CASE \E u \in Users : ReadForTrial(h, u)
  <2>1. PICK u \in Users : ReadForTrial(h, u)
    BY <1>1
  <2>2. task' \in [Handlers -> Task]
    BY <1>0, <2>1, GrantingTask, TaskUpdate DEF ReadForTrial, Begin
  <2>3. QED
    BY <2>1, <2>2 DEF ReadForTrial, TypeOK, database, telegram
<1>2. CASE \E u \in Users, token \in Tokens : ClaimInvite(h, u, token)
  <2>1. PICK u \in Users, token \in Tokens : ClaimInvite(h, u, token)
    BY <1>2
  <2>2. task' \in [Handlers -> Task]
    BY <1>0, <2>1, GrantingTask, TaskUpdate DEF ClaimInvite, Begin
  <2>3. QED
    BY <2>1, <2>2 DEF ClaimInvite, TypeOK, database, telegram
<1>3. CASE CommitGrant(h)
  <2>1. /\ t.user \in Users /\ t.seen \in Subscription /\ t.new \in Subscription
    BY <1>3, TaskFields DEF CommitGrant, TypeOK
  <2>2. Merge(sub[t.user], t.seen, t.new) \in Subscription
    BY <2>1, MergeType DEF TypeOK
  <2>3. sub' \in [Users -> Subscription]
    BY <1>3, <2>1, <2>2 DEF CommitGrant, TypeOK
  <2>4. freeTokens' \subseteq Tokens
    BY <1>3 DEF CommitGrant, TypeOK
  <2>5. task' \in [Handlers -> Task]
    BY <1>3, TaskUpdate DEF CommitGrant, Finish, Task
  <2>6. QED
    BY <1>3, <2>3, <2>4, <2>5 DEF CommitGrant, TypeOK, telegram
<1>4. QED
  BY <1>1, <1>2, <1>3

LEMMA ClockAndCrashTypeOK ==
    ASSUME TypeOK, Tick \/ Crash
    PROVE  TypeOK'
<1>1. CASE Tick
  BY <1>1 DEF Tick, TypeOK, database, telegram
<1>2. CASE Crash
  <2>1. task' \in [Handlers -> Task]
    BY <1>2 DEF Crash, Task
  <2>2. queue' \in [Charges -> 0..MaxDeliveries]
    BY <1>2, NumbersAssumption DEF Crash
  <2>3. crashes' \in 0..MaxCrashes
    BY <1>2, NumbersAssumption DEF Crash, TypeOK
  <2>4. QED
    BY <1>2, <2>1, <2>2, <2>3 DEF Crash, TypeOK, database
<1>3. QED
  BY <1>1, <1>2

LEMMA StutterTypeOK == TypeOK /\ UNCHANGED vars => TypeOK'
  BY DEF TypeOK, vars, database, telegram

\* Every variable keeps its type (all handlers of ProBilling).
THEOREM TypeCorrect == Spec => []TypeOK
<1>1. TypeOK /\ [Next]_vars => TypeOK'
  <2> SUFFICES ASSUME TypeOK, [Next]_vars PROVE TypeOK'
    OBVIOUS
  <2>0. Customers \subseteq Users
    BY UsersAssumption
  <2>1. CASE Tick \/ Crash
    BY <2>1, ClockAndCrashTypeOK
  <2>2. CASE \E u \in Customers : CmdPro(u)
    BY <2>0, <2>2, CmdProTypeOK
  <2>3. CASE \E r \in approved, copies \in 1..MaxDeliveries : Pay(r, copies)
    BY <2>3, PayTypeOK
  <2>4. CASE \E r \in paid : LookupFails(r) \/ \E h \in Handlers : ReceivePayment(h, r)
    BY <2>4, ReceivingTypeOK, FailureTypeOK
  <2>5. CASE \E h \in Handlers : Request(h)
    <3>1. PICK h \in Handlers : Request(h)
      BY <2>5
    <3>2. QED
      BY <2>0, <3>1, QuotingTypeOK, CheckoutTypeOK, StatusTypeOK, GrantTypeOK
      DEF Request
  <2>6. CASE \E h \in Handlers : Step(h)
    <3>1. PICK h \in Handlers : Step(h)
      BY <2>6
    <3>2. QED
      BY <3>1, QuotingTypeOK, CheckoutTypeOK, ReceivingTypeOK, CommitPaymentType,
         FailedPaymentTypeOK, StatusTypeOK, GrantTypeOK
      DEF Step
  <2>7. CASE \E h \in Handlers : HandlerFails(h)
    BY <2>7, FailureTypeOK
  <2>8. CASE UNCHANGED vars
    BY <2>8, StutterTypeOK
  <2>9. QED
    BY <2>1, <2>2, <2>3, <2>4, <2>5, <2>6, <2>7, <2>8 DEF Next
<1>2. QED
  BY <1>1, InitTypeOK, PTL DEF Spec

-----------------------------------------------------------------------------
\* The ledger.  Only CommitPayment writes payments, balances and references, and
\* besides it only a failed lookup is noted in the history.

OnlyLookupsFail ==
    \/ UNCHANGED failures
    \/ \E c \in Charges :
         failures' = failures \cup {[charge |-> c, before |-> "lookup"]}

LEMMA LedgerSteps ==
    ASSUME TypeOK, [Next]_vars
    PROVE  \/ \E h \in Handlers, done \in SUBSET Sides : CommitPayment(h, done)
           \/ UNCHANGED <<payments, balance, refs>> /\ OnlyLookupsFail
<1>1. CASE UNCHANGED vars
  BY <1>1 DEF vars, database, OnlyLookupsFail
<1>2. CASE Tick \/ Crash
  BY <1>2 DEF Tick, Crash, database, OnlyLookupsFail
<1>3. CASE \E u \in Customers : CmdPro(u)
  BY <1>3 DEF CmdPro, database, OnlyLookupsFail
<1>4. CASE \E r \in approved, copies \in 1..MaxDeliveries : Pay(r, copies)
  BY <1>4 DEF Pay, database, OnlyLookupsFail
<1>5. CASE \E r \in paid : LookupFails(r)
  <2>1. PICK r \in paid : LookupFails(r)
    BY <1>5
  <2>2. r.charge \in Charges
    BY DEF TypeOK, Receipt
  <2> QED
    BY <2>1, <2>2 DEF LookupFails, database, OnlyLookupsFail
<1>6. CASE \E r \in paid, h \in Handlers : ReceivePayment(h, r)
  BY <1>6 DEF ReceivePayment, database, OnlyLookupsFail
<1>7. CASE \E h \in Handlers : Request(h)
  BY <1>7 DEF Request, ReadDiscount, PreCheckout, CheckStatus, ReadForTrial,
              ClaimInvite, database, OnlyLookupsFail
<1>8. CASE \E h \in Handlers : Step(h)
  BY <1>8 DEF Step, CreateInvoice, AnswerPreCheckout, ReadForPayment,
              PaymentConflicts, PaymentRefused, FinishStatus, Deactivate,
              CommitGrant, database, OnlyLookupsFail
<1>9. CASE \E h \in Handlers : HandlerFails(h)
  BY <1>9 DEF HandlerFails, database, OnlyLookupsFail
<1>10. QED
  BY <1>1, <1>2, <1>3, <1>4, <1>5, <1>6, <1>7, <1>8, <1>9 DEF Next

BillingInv ==
    /\ TypeOK
    /\ ChargeGrantedOnce
    /\ CreditsNeverOverdrawn

\* What CommitPayment knows of its task, of the buyer's balance and of how far
\* the rewards got.
LEMMA CommitFacts ==
    ASSUME BillingInv, NEW h \in Handlers, NEW done \in SUBSET Sides,
           CommitPayment(h, done)
    PROVE  LET r == task[h].receipt
               i == r.invoice
           IN  /\ r.charge \in Charges /\ r.charge \notin ChargesOf(payments)
               /\ i.user \in Users /\ i.credits \in Nat
               /\ i.credits <= balance[i.user]
               /\ \A v \in Users : RewardTo(i.user, v, done) \in Nat
               /\ done # {} => Referrer[i.user] # NoUser
               /\ "invitee" \in done => "referrer" \in done
<1> DEFINE r == task[h].receipt
           i == r.invoice
<1>1. /\ r.charge \in Charges /\ i.user \in Users /\ i.credits \in Nat
  BY TaskFields DEF CommitPayment, BillingInv, TypeOK, Receipt, Invoice
<1>2. r.charge \notin ChargesOf(payments)
  BY DEF CommitPayment, ChargeTaken
<1>3. i.credits <= balance[i.user]
  <2>1. balance[i.user] \in Nat
    BY <1>1 DEF BillingInv, TypeOK, CreditsNeverOverdrawn
  <2>2. ~(i.credits > 0 /\ AvailableCredits(i.user) < i.credits)
    BY DEF CommitPayment, Unaffordable
  <2>3. QED
    BY <1>1, <2>1, <2>2 DEF AvailableCredits
<1>4. \A v \in Users : RewardTo(i.user, v, done) \in Nat
  BY NumbersAssumption DEF RewardTo
<1>5. done \in RewardOutcomes(i.user)
  BY DEF CommitPayment
<1>6. /\ done # {} => Referrer[i.user] # NoUser
      /\ "invitee" \in done => "referrer" \in done
  BY <1>5 DEF RewardOutcomes, Sides
<1>7. QED
  BY <1>1, <1>2, <1>3, <1>4, <1>6

LEMMA CommitKeepsChargesApart ==
    ASSUME BillingInv, NEW h \in Handlers, NEW done \in SUBSET Sides,
           CommitPayment(h, done)
    PROVE  ChargeGrantedOnce'
<1> DEFINE row == [receipt |-> task[h].receipt, at |-> task[h].at]
<1>1. payments' = payments \cup {row}
  BY DEF CommitPayment
<1>2. \A p \in payments : p.receipt.charge # row.receipt.charge
  BY CommitFacts DEF ChargesOf
<1>3. QED
  BY <1>1, <1>2 DEF BillingInv, ChargeGrantedOnce

LEMMA CommitKeepsBalances ==
    ASSUME BillingInv, NEW h \in Handlers, NEW done \in SUBSET Sides,
           CommitPayment(h, done)
    PROVE  CreditsNeverOverdrawn'
<1> DEFINE i == task[h].receipt.invoice
           spent(v) == IF v = i.user THEN i.credits ELSE 0
           gained(v) == RewardTo(i.user, v, done)
<1>1. balance' = [v \in Users |-> balance[v] - spent(v) + gained(v)]
  BY DEF CommitPayment
<1>2. \A v \in Users : balance[v] \in Nat
  BY DEF BillingInv, TypeOK, CreditsNeverOverdrawn
<1>3. \A v \in Users : gained(v) \in Nat
  BY CommitFacts
<1>4. \A v \in Users : spent(v) \in Nat /\ spent(v) <= balance[v]
  BY <1>2, CommitFacts
<1> HIDE DEF spent, gained
<1>5. QED
  BY <1>1, <1>2, <1>3, <1>4 DEF CreditsNeverOverdrawn

\* The payment table and the balances stay sound under every interleaving of
\* handlers and every error (activation.py, ledger.py, referral/service.py).
THEOREM BillingInvariant == Spec => []BillingInv
<1>1. Init => BillingInv
  <2>1. Init => CreditsNeverOverdrawn
    BY UsersAssumption DEF Init, CreditsNeverOverdrawn
  <2>2. Init => ChargeGrantedOnce
    BY DEF Init, ChargeGrantedOnce
  <2>3. QED
    BY <2>1, <2>2, InitTypeOK DEF BillingInv
<1>2. TypeOK /\ TypeOK' /\ BillingInv /\ [Next]_vars => BillingInv'
  <2> SUFFICES ASSUME TypeOK', BillingInv, [Next]_vars PROVE BillingInv'
    OBVIOUS
  <2>1. CASE \E h \in Handlers, done \in SUBSET Sides : CommitPayment(h, done)
    BY <2>1, CommitKeepsChargesApart, CommitKeepsBalances DEF BillingInv
  <2>2. CASE UNCHANGED <<payments, balance, refs>>
    BY <2>2 DEF BillingInv, ChargeGrantedOnce, CreditsNeverOverdrawn
  <2>3. QED
    BY <2>1, <2>2, LedgerSteps DEF BillingInv
<1>3. QED
  BY <1>1, <1>2, TypeCorrect, PTL DEF Spec

\* A charge is granted at most once, however often and however concurrently its
\* update is handled (pro_payments.telegram_payment_charge_id is unique).
THEOREM ChargesGrantedOnce == Spec => []ChargeGrantedOnce
  BY BillingInvariant, PTL DEF BillingInv

\* No balance is negative (spend_credits_once checks under the row lock).
THEOREM CreditsNotOverdrawn == Spec => []CreditsNeverOverdrawn
  BY BillingInvariant, PTL DEF BillingInv

-----------------------------------------------------------------------------
\* Refinement: the tables implement PaidGrants.

LEMMA SidesWritten ==
    ASSUME NEW done, NEW u
    PROVE  [kind : done, user : {u}] \ refs =
             {[kind |-> k, user |-> u] :
                k \in {kind \in done : [kind |-> kind, user |-> u] \notin refs}}
<1> DEFINE L == [kind : done, user : {u}] \ refs
           K == {kind \in done : [kind |-> kind, user |-> u] \notin refs}
           R == {[kind |-> k, user |-> u] : k \in K}
<1>1. ASSUME NEW x \in L PROVE x \in R
  <2>1. x = [kind |-> x.kind, user |-> u] /\ x.kind \in done
    OBVIOUS
  <2>2. x.kind \in K
    BY <2>1
  <2> HIDE DEF L, K
  <2> QED
    BY <2>1, <2>2
<1>2. ASSUME NEW k \in K PROVE [kind |-> k, user |-> u] \in L
  OBVIOUS
<1> HIDE DEF L, K, R
<1>3. \A x \in R : x \in L
  BY <1>2 DEF R
<1>4. L = R
  BY <1>1, <1>3
<1> QED
  BY <1>4 DEF L, R, K

LEMMA CommitGrants ==
    ASSUME BillingInv, NEW h \in Handlers, NEW done \in SUBSET Sides,
           CommitPayment(h, done)
    PROVE  Promise!Next
<1> DEFINE r == task[h].receipt
           c == r.charge
           i == r.invoice
           u == i.user
           rewarded == {ref \in refs : ref.kind \in Sides}
           kinds == {kind \in done : Promise!Side(kind, u) \notin rewarded}
<1>1. /\ c \in Charges /\ c \notin ChargesOf(payments)
      /\ u \in Users /\ i.credits \in 0..balance[u]
  <2>1. balance[u] \in Nat
    BY CommitFacts DEF BillingInv, TypeOK, CreditsNeverOverdrawn
  <2>2. QED
    BY <2>1, CommitFacts
<1>2. ChargesOf(payments') = ChargesOf(payments) \cup {c}
  <2> DEFINE row == [receipt |-> r, at |-> task[h].at]
  <2>1. payments' = payments \cup {row}
    BY DEF CommitPayment
  <2>2. row.receipt.charge = c
    OBVIOUS
  <2> HIDE DEF row, c
  <2>3. QED
    BY <2>1, <2>2 DEF ChargesOf
<1>3. NewRewards(u, done) = {Promise!Side(kind, u) : kind \in kinds}
  <2>1. \A kind \in done : Promise!Side(kind, u) \in rewarded
                              <=> Promise!Side(kind, u) \in refs
    BY DEF Promise!Side
  <2>2. kinds = {kind \in done : Promise!Side(kind, u) \notin refs}
    BY <2>1
  <2> HIDE DEF kinds, u
  <2> QED
    BY <2>2, SidesWritten DEF NewRewards, Promise!Side
<1>4. {ref \in refs' : ref.kind \in Sides}
        = rewarded \cup {Promise!Side(kind, u) : kind \in kinds}
  <2>1. refs' = refs \cup (IF i.credits > 0 THEN {SpendRef(c)} ELSE {})
                     \cup NewRewards(u, done)
    BY DEF CommitPayment
  <2>2. SpendRef(c).kind \notin Sides
    BY DEF SpendRef, Sides
  <2>3. \A ref \in NewRewards(u, done) : ref.kind \in Sides
    BY DEF NewRewards
  <2> HIDE DEF u, i, c, kinds
  <2>4. QED
    BY <1>3, <2>1, <2>2, <2>3
<1>5. kinds \in SUBSET Promise!Due(u)
  BY CommitFacts DEF Promise!Due, Sides
<1>6. \A v \in Users :
        RewardTo(u, v, done)
          = IF \E kind \in kinds : v = Promise!Beneficiary(kind, u)
              THEN Reward ELSE 0
  <2>1. \A kind \in done : Promise!Side(kind, u) \in NewRewards(u, done)
                             <=> kind \in kinds
    BY <1>3 DEF NewRewards, Promise!Side
  <2> HIDE DEF kinds, u
  <2>2. kinds \subseteq done
    BY DEF kinds
  <2>3. QED
    BY <2>1, <2>2 DEF RewardTo, Promise!Side, Promise!Beneficiary
<1>7. balance' = [v \in Users |->
                    balance[v] - (IF v = u THEN i.credits ELSE 0)
                      + (IF \E kind \in kinds : v = Promise!Beneficiary(kind, u)
                           THEN Reward ELSE 0)]
  <2>1. balance' = [v \in Users |->
                      balance[v] - (IF v = u THEN i.credits ELSE 0)
                        + RewardTo(u, v, done)]
    BY DEF CommitPayment
  <2> HIDE DEF u, i, kinds
  <2>2. QED
    BY <1>6, <2>1
<1>8. "invitee" \in kinds =>
        Promise!Side("referrer", u) \in {ref \in refs' : ref.kind \in Sides}
  <2> SUFFICES ASSUME "invitee" \in kinds
               PROVE  Promise!Side("referrer", u) \in {ref \in refs' : ref.kind \in Sides}
    OBVIOUS
  <2>1. "referrer" \in done
    BY CommitFacts
  <2>2. Promise!Side("referrer", u) \in rewarded
          \/ Promise!Side("referrer", u) \in {Promise!Side(kind, u) : kind \in kinds}
    BY <2>1
  <2> HIDE DEF rewarded, kinds, u
  <2> QED
    BY <1>4, <2>2
<1>9. /\ ChargesOf(payments)' = ChargesOf(payments) \cup {c}
      /\ {ref \in refs : ref.kind \in Sides}' = {ref \in refs' : ref.kind \in Sides}
  BY <1>2
<1>10. PICK cc, uu, spend, kk : cc = c /\ uu = u /\ spend = i.credits /\ kk = kinds
  OBVIOUS
<1> HIDE DEF c, i, u, kinds
<1>11. Promise!Grant(cc, uu, spend, kk)
  BY <1>1, <1>4, <1>7, <1>8, <1>9, <1>10, SMT DEF Promise!Grant
<1>12. cc \in Charges /\ uu \in Users /\ spend \in 0..balance[uu]
         /\ kk \in SUBSET Promise!Due(uu)
  BY <1>1, <1>5, <1>10
<1>13. QED
  BY <1>11, <1>12, Zenon DEF Promise!Next

\* Billing, with its handlers, duplicate deliveries, races, crashes and errors,
\* keeps the promise of PaidGrants: every step of it is a grant or changes nothing
\* of it.
THEOREM BillingKeepsPromise == Spec => KeepsPromise
<1>1. Init => Promise!Init
  BY DEF Init, Promise!Init, ChargesOf
<1>2. BillingInv /\ [Next]_vars => [Promise!Next]_(Promise!vars)
  <2> SUFFICES ASSUME BillingInv, [Next]_vars
               PROVE  [Promise!Next]_(Promise!vars)
    OBVIOUS
  <2>1. CASE \E h \in Handlers, done \in SUBSET Sides : CommitPayment(h, done)
    BY <2>1, CommitGrants
  <2>2. CASE UNCHANGED <<payments, balance, refs>>
    BY <2>2 DEF Promise!vars, ChargesOf
  <2>3. QED
    BY <2>1, <2>2, LedgerSteps DEF BillingInv
<1>3. QED
  BY <1>1, <1>2, BillingInvariant, PTL DEF Spec, KeepsPromise, Promise!Spec
-----------------------------------------------------------------------------
\* Sums over the payment table.  The library's fold takes the rows in an order
\* of its own; it counts units, one for each Credit (or unit of time) of a row.

Pick(s) == CHOOSE x \in s : TRUE
Folds(it, amount, rows) ==
    it = [s \in SUBSET rows |->
            IF s = {} THEN 0 ELSE amount[Pick(s)] + it[s \ {Pick(s)}]]
Fold(amount, rows) == CHOOSE it : Folds(it, amount, rows)

Units(amount, rows) == {x \in rows \X Nat : 1 <= x[2] /\ x[2] <= amount[x[1]]}

LEMMA TotalIsFold ==
    ASSUME NEW amount, NEW rows
    PROVE  Total(amount, rows) = Fold(amount, rows)[rows]
  BY DEF Total, MapThenSumSet, MapThenFoldSet, Fold, Folds, Pick

\* Every nonempty collection of finite sets has a smallest member.
LEMMA SmallestSet ==
    ASSUME NEW S, IsFiniteSet(S), NEW C \in SUBSET SUBSET S, C # {}
    PROVE  \E s \in C : \A x \in s : s \ {x} \notin C
<1>1. C \subseteq FiniteSubsetsOf(S)
  BY FS_Subset DEF FiniteSubsetsOf
<1>2. IsWellFoundedOn(StrictSubsetOrdering(S), FiniteSubsetsOf(S))
  BY FS_StrictSubsetOrderingWellFounded
<1>3. PICK s \in C : \A t \in C : ~(<<t, s>> \in StrictSubsetOrdering(S))
  BY <1>1, <1>2, WFMin, Zenon
<1>4. ASSUME NEW x \in s, s \ {x} \in C PROVE FALSE
  <2>1. <<s \ {x}, s>> \in StrictSubsetOrdering(S)
    BY <1>4 DEF StrictSubsetOrdering
  <2> QED
    BY <1>3, <1>4, <2>1
<1> QED
  BY <1>4

LEMMA UnitsOfOne ==
    ASSUME NEW amount, NEW p, amount[p] \in Nat
    PROVE  /\ IsFiniteSet(Units(amount, {p}))
           /\ Cardinality(Units(amount, {p})) = amount[p]
<1>1. Units(amount, {p}) = {p} \X (1..amount[p])
  BY DEF Units
<1>2. IsFiniteSet({p}) /\ Cardinality({p}) = 1
  BY FS_Singleton
<1>3. IsFiniteSet(1..amount[p]) /\ Cardinality(1..amount[p]) = amount[p]
  BY FS_Interval, SMTT(30)
<1>4. /\ IsFiniteSet({p} \X (1..amount[p]))
      /\ Cardinality({p} \X (1..amount[p])) = 1 * amount[p]
  BY <1>2, <1>3, FS_Product, ZenonT(60)
<1>5. 1 * amount[p] = amount[p]
  OBVIOUS
<1> QED
  BY <1>1, <1>4, <1>5, Zenon

LEMMA UnitsSplit ==
    ASSUME NEW amount, NEW s, NEW p \in s
    PROVE  /\ Units(amount, s) = Units(amount, {p}) \cup Units(amount, s \ {p})
           /\ Units(amount, {p}) \cap Units(amount, s \ {p}) = {}
  BY DEF Units

LEMMA UnitsFinite ==
    ASSUME NEW amount, NEW rows, IsFiniteSet(rows), \A p \in rows : amount[p] \in Nat
    PROVE  \A s \in SUBSET rows : IsFiniteSet(Units(amount, s))
<1> DEFINE wrong == {s \in SUBSET rows : ~IsFiniteSet(Units(amount, s))}
<1> SUFFICES ASSUME wrong # {} PROVE FALSE
  OBVIOUS
<1>1. PICK s \in wrong : \A x \in s : s \ {x} \notin wrong
  <2>1. wrong \in SUBSET SUBSET rows
    OBVIOUS
  <2> HIDE DEF wrong
  <2> QED
    BY <2>1, SmallestSet
<1>2. s # {}
  <2>1. Units(amount, {}) = {}
    BY DEF Units
  <2> QED
    BY <1>1, <2>1, FS_EmptySet
<1>3. PICK p \in s : TRUE
  BY <1>2
<1>4. IsFiniteSet(Units(amount, s \ {p})) /\ IsFiniteSet(Units(amount, {p}))
  BY <1>1, <1>3, UnitsOfOne
<1>5. IsFiniteSet(Units(amount, {p}) \cup Units(amount, s \ {p}))
  BY <1>4, FS_Union
<1>6. Units(amount, s) = Units(amount, {p}) \cup Units(amount, s \ {p})
  BY <1>3 DEF Units
<1>7. IsFiniteSet(Units(amount, s))
  BY <1>5, <1>6, Zenon
<1> QED
  BY <1>1, <1>7

LEMMA UnitsStep ==
    ASSUME NEW amount, NEW s, IsFiniteSet(s), \A q \in s : amount[q] \in Nat,
           NEW p \in s
    PROVE  Cardinality(Units(amount, s)) =
             amount[p] + Cardinality(Units(amount, s \ {p}))
<1> DEFINE one == Units(amount, {p})
           rest == Units(amount, s \ {p})
<1>1. IsFiniteSet(one) /\ Cardinality(one) = amount[p] /\ amount[p] \in Nat
  BY UnitsOfOne
<1>2. IsFiniteSet(rest)
  BY UnitsFinite
<1>3. Units(amount, s) = one \cup rest /\ one \cap rest = {}
  BY UnitsSplit
<1> HIDE DEF one, rest
<1>4. Cardinality(one \cup rest) =
        Cardinality(one) + Cardinality(rest) - Cardinality(one \cap rest)
  BY <1>1, <1>2, FS_Union
<1>5. Cardinality(rest) \in Nat /\ Cardinality({}) = 0
  BY <1>2, FS_CardinalityType, FS_EmptySet
<1>6. Cardinality(Units(amount, s)) = amount[p] + Cardinality(rest) - Cardinality({})
  BY <1>1, <1>3, <1>4, Zenon
<1>7. Cardinality(Units(amount, s)) = amount[p] + Cardinality(rest)
  BY <1>1, <1>5, <1>6
<1> QED
  BY <1>7 DEF rest

LEMMA TotalCounts ==
    ASSUME NEW amount, NEW rows, IsFiniteSet(rows), \A p \in rows : amount[p] \in Nat
    PROVE  Total(amount, rows) = Cardinality(Units(amount, rows))
<1> DEFINE count == [s \in SUBSET rows |-> Cardinality(Units(amount, s))]
           it == Fold(amount, rows)
<1>1. Cardinality(Units(amount, {})) = 0
  <2>1. Units(amount, {}) = {}
    BY DEF Units
  <2> QED
    BY <2>1, FS_EmptySet
<1>2. ASSUME NEW s \in SUBSET rows, NEW p \in s
      PROVE  Cardinality(Units(amount, s)) =
               amount[p] + Cardinality(Units(amount, s \ {p}))
  <2>1. IsFiniteSet(s) /\ \A q \in s : amount[q] \in Nat
    BY FS_Subset
  <2> QED
    BY <2>1, UnitsStep
<1>3. Folds(count, amount, rows)
  <2>1. ASSUME NEW s \in SUBSET rows, s # {}
        PROVE  count[s] = amount[Pick(s)] + count[s \ {Pick(s)}]
    <3>1. Pick(s) \in s
      BY <2>1 DEF Pick
    <3> QED
      BY <1>2, <3>1
  <2>2. {} \in SUBSET rows /\ count[{}] = 0
    BY <1>1
  <2> QED
    BY <2>1, <2>2 DEF Folds
<1>4. Folds(it, amount, rows)
  BY <1>3 DEF Fold
<1> HIDE DEF it
<1>5. it[{}] = 0
  BY <1>4 DEF Folds
<1>6. ASSUME NEW s \in SUBSET rows, s # {}
      PROVE  it[s] = amount[Pick(s)] + it[s \ {Pick(s)}]
  BY <1>4, <1>6 DEF Folds
<1>7. \A s \in SUBSET rows : it[s] = Cardinality(Units(amount, s))
  <2> DEFINE wrong == {s \in SUBSET rows : it[s] # Cardinality(Units(amount, s))}
  <2> SUFFICES ASSUME wrong # {} PROVE FALSE
    OBVIOUS
  <2>1. PICK s \in wrong : \A x \in s : s \ {x} \notin wrong
    <3>1. wrong \in SUBSET SUBSET rows
      OBVIOUS
    <3> HIDE DEF wrong
    <3> QED
      BY <3>1, SmallestSet
  <2>2. s \in SUBSET rows /\ s # {}
    BY <2>1, <1>1, <1>5
  <2>3. Pick(s) \in s
    BY <2>2 DEF Pick
  <2>4. it[s \ {Pick(s)}] = Cardinality(Units(amount, s \ {Pick(s)}))
    BY <2>1, <2>2, <2>3
  <2>5. it[s] = Cardinality(Units(amount, s))
    BY <1>2, <1>6, <2>2, <2>3, <2>4
  <2> QED
    BY <2>1, <2>5
<1> QED
  BY <1>7, TotalIsFold DEF it

\* A total is a natural number, grows by the amount of each row added, and is 0
\* when there is none.
LEMMA TotalGrows ==
    ASSUME NEW amount, NEW rows, IsFiniteSet(rows), NEW p, p \notin rows,
           \A q \in rows \cup {p} : amount[q] \in Nat
    PROVE  /\ Total(amount, rows) \in Nat
           /\ Total(amount, rows \cup {p}) = Total(amount, rows) + amount[p]
<1>1. IsFiniteSet(rows \cup {p}) /\ (rows \cup {p}) \ {p} = rows
  BY FS_AddElement
<1>2. /\ Total(amount, rows) = Cardinality(Units(amount, rows))
      /\ Total(amount, rows \cup {p}) = Cardinality(Units(amount, rows \cup {p}))
  BY <1>1, TotalCounts
<1>3. Cardinality(Units(amount, rows \cup {p})) =
        amount[p] + Cardinality(Units(amount, (rows \cup {p}) \ {p}))
  BY <1>1, UnitsStep
<1>4. Cardinality(Units(amount, rows)) \in Nat
  BY UnitsFinite, FS_CardinalityType
<1>5. Total(amount, rows \cup {p}) = amount[p] + Total(amount, rows)
  BY <1>1, <1>2, <1>3, Zenon
<1>6. Total(amount, rows) \in Nat /\ amount[p] \in Nat
  BY <1>2, <1>4
<1> QED
  BY <1>5, <1>6

LEMMA TotalOfNone == ASSUME NEW amount PROVE Total(amount, {}) = 0
<1>1. Units(amount, {}) = {}
  BY DEF Units
<1>2. Total(amount, {}) = Cardinality(Units(amount, {}))
  BY TotalCounts, FS_EmptySet
<1> QED
  BY <1>1, <1>2, FS_EmptySet

-----------------------------------------------------------------------------
\* The ledger is balanced.  What LedgerBalanced says, with the invitees whose
\* rewards were reached (E for the referrer's side, F for the invitee's) and the
\* table of payments as parameters.

BuyerOf(p) == p.receipt.invoice.user
RowsOf(v, rows) == {p \in rows : BuyerOf(p) = v}
Earners(side) == {v \in Users : Earned(v, side)}
FriendsOf(v, E) == {w \in E : Referrer[w] = v}
OwnReward(v, F) == IF v \in F THEN 1 ELSE 0
Rewards(v, E, F) == Cardinality(FriendsOf(v, E)) + OwnReward(v, F)

Balanced(wallet, rows, E, F) ==
    \A v \in Users : wallet[v] = InitialCredits[v] + Reward * Rewards(v, E, F)
                                   - Total(CreditsPaid, RowsOf(v, rows))

LEMMA PaymentFields ==
    ASSUME NEW p \in Payment
    PROVE  /\ BuyerOf(p) \in Users
           /\ CreditsPaid[p] = p.receipt.invoice.credits
           /\ CreditsPaid[p] \in Nat
  BY DEF Payment, Receipt, Invoice, BuyerOf, CreditsPaid

LEMMA AmountsType == CreditsPaid \in [Payment -> Nat]
  BY DEF Payment, Receipt, Invoice, CreditsPaid

LEMMA TotalOfRows ==
    ASSUME NEW amount \in [Payment -> Nat], NEW rows \in SUBSET Payment,
           IsFiniteSet(rows), NEW p \in Payment, p \notin rows, NEW v
    PROVE  /\ Total(amount, RowsOf(v, rows)) \in Nat
           /\ v # BuyerOf(p) => RowsOf(v, rows \cup {p}) = RowsOf(v, rows)
           /\ v = BuyerOf(p) => /\ RowsOf(v, rows \cup {p}) = RowsOf(v, rows) \cup {p}
                                /\ Total(amount, RowsOf(v, rows) \cup {p}) =
                                     Total(amount, RowsOf(v, rows)) + amount[p]
<1> DEFINE old == RowsOf(v, rows)
<1>1. IsFiniteSet(old) /\ p \notin old /\ \A q \in old \cup {p} : amount[q] \in Nat
  BY FS_Subset DEF RowsOf
<1>2. /\ v = BuyerOf(p) => RowsOf(v, rows \cup {p}) = old \cup {p}
      /\ v # BuyerOf(p) => RowsOf(v, rows \cup {p}) = old
  BY DEF RowsOf
<1> HIDE DEF old
<1>3. /\ Total(amount, old) \in Nat
      /\ Total(amount, old \cup {p}) = Total(amount, old) + amount[p]
  BY <1>1, TotalGrows
<1> QED
  BY <1>2, <1>3 DEF old

LEMMA EarnersFinite ==
    ASSUME IsFiniteSet(payments), NEW side
    PROVE  IsFiniteSet(Earners(side))
<1> DEFINE buyers == {BuyerOf(p) : p \in payments}
           f == [p \in payments |-> BuyerOf(p)]
<1>1. f \in Surjection(payments, buyers)
  BY DEF Surjection
<1>2. IsFiniteSet(buyers)
  <2> HIDE DEF f, buyers
  <2> QED
    BY <1>1, FS_Surjection
<1>3. Earners(side) \subseteq buyers
  BY DEF Earners, Earned, PaymentsOf, BuyerOf
<1> HIDE DEF buyers
<1> QED
  BY <1>2, <1>3, FS_Subset

\* One more invitee of v brings one more reward.
LEMMA FriendsGrow ==
    ASSUME NEW E, IsFiniteSet(E), NEW u, u \notin E, NEW v, v = Referrer[u]
    PROVE  Cardinality(FriendsOf(v, E \cup {u})) = Cardinality(FriendsOf(v, E)) + 1
<1> DEFINE friends == FriendsOf(v, E)
<1>1. IsFiniteSet(friends) /\ u \notin friends
  BY FS_Subset DEF FriendsOf
<1>2. FriendsOf(v, E \cup {u}) = friends \cup {u}
  BY DEF FriendsOf
<1> HIDE DEF friends
<1>3. Cardinality(friends \cup {u}) = Cardinality(friends) + 1
  BY <1>1, FS_AddElement
<1> QED
  BY <1>2, <1>3 DEF friends

LEMMA RewardsType ==
    ASSUME NEW E, IsFiniteSet(E), NEW v
    PROVE  Cardinality(FriendsOf(v, E)) \in Nat
<1>1. IsFiniteSet(FriendsOf(v, E))
  BY FS_Subset DEF FriendsOf
<1> QED
  BY <1>1, FS_CardinalityType

\* The rewards written are those the purchases got as far as, and a swallowed
\* error is noted only for a charge that is recorded.
LedgerInv ==
    /\ IsFiniteSet(payments)
    /\ \A f \in failures : f.before \in Sides => f.charge \in ChargesOf(payments)
    /\ \A side \in Sides : \A v \in Users :
         [kind |-> side, user |-> v] \in refs <=> Earned(v, side)
    /\ LedgerBalanced

LEMMA BalancedMeans ==
    LedgerBalanced
      <=> Balanced(balance, payments, Earners("referrer"), Earners("invitee"))
<1>1. \A v \in Users :
        FriendsOf(v, Earners("referrer"))
          = {w \in Users : Referrer[w] = v /\ Earned(w, "referrer")}
  BY DEF FriendsOf, Earners
<1>2. \A v \in Users :
        OwnReward(v, Earners("invitee")) = IF Earned(v, "invitee") THEN 1 ELSE 0
  BY DEF OwnReward, Earners
<1> QED
  BY <1>1, <1>2 DEF LedgerBalanced, Balanced, Rewards, PaymentsOf, RowsOf, BuyerOf

\* Which rewards the purchases have reached after a commit.
LEMMA CommitEarns ==
    ASSUME BillingInv, LedgerInv, NEW h \in Handlers, NEW done \in SUBSET Sides,
           CommitPayment(h, done), NEW side \in Sides, NEW v \in Users
    PROVE  Earned(v, side)'
             <=> Earned(v, side)
                   \/ (v = task[h].receipt.invoice.user /\ side \in done)
<1>0. PICK row, c, u : /\ row = [receipt |-> task[h].receipt, at |-> task[h].at]
                       /\ c = row.receipt.charge
                       /\ u = row.receipt.invoice.user
  OBVIOUS
<1>1. /\ payments' = payments \cup {row}
      /\ failures' = failures \cup RewardFailure(u, c, done)
  BY <1>0 DEF CommitPayment
<1>2. /\ \A p \in payments : p.receipt.charge # c
      /\ row.receipt.charge = c /\ row.receipt.invoice.user = u
      /\ \A step \in Sides : [charge |-> c, before |-> step] \notin failures
  <2>1. c \notin ChargesOf(payments)
    BY <1>0, CommitFacts
  <2> QED
    BY <1>0, <2>1 DEF ChargesOf, LedgerInv
<1>3. \A f \in RewardFailure(u, c, done) : f.charge = c
  BY DEF RewardFailure
<1>4. ASSUME NEW p \in payments
      PROVE  side \in Reached(p)' <=> side \in Reached(p)
  <2>1. \A step : Failed(p, step)' <=> Failed(p, step)
    BY <1>1, <1>2, <1>3 DEF Failed
  <2> QED
    BY <2>1 DEF Reached
<1>5. Referrer[u] # NoUser => (side \in Reached(row)' <=> side \in done)
  <2> SUFFICES ASSUME Referrer[u] # NoUser
               PROVE  side \in Reached(row)' <=> side \in done
    OBVIOUS
  <2>1. "invitee" \in done => "referrer" \in done
    BY CommitFacts
  <2>2. \A step \in Sides :
          Failed(row, step)' <=> [charge |-> c, before |-> step]
                                   \in RewardFailure(u, c, done)
    BY <1>1, <1>2 DEF Failed
  <2>3. /\ Failed(row, "referrer")' <=> done = {}
        /\ Failed(row, "invitee")' <=> done = {"referrer"}
    BY <2>1, <2>2 DEF RewardFailure, Sides
  <2> QED
    BY <2>1, <2>3 DEF Reached, Sides
<1>6. done # {} => Referrer[u] # NoUser
  BY <1>0, CommitFacts
<1>7. Earned(v, side)' <=> /\ Referrer[v] # NoUser
                           /\ \E p \in payments' : /\ p.receipt.invoice.user = v
                                                   /\ side \in Reached(p)'
  BY DEF Earned, PaymentsOf
<1>8. Earned(v, side) <=> /\ Referrer[v] # NoUser
                          /\ \E p \in payments : /\ p.receipt.invoice.user = v
                                                 /\ side \in Reached(p)
  BY DEF Earned, PaymentsOf
<1>9. Earned(v, side)'
        <=> \/ Earned(v, side)
            \/ (Referrer[v] # NoUser /\ v = u /\ side \in Reached(row)')
  <2>1. row.receipt.invoice.user = v <=> v = u
    BY <1>2
  <2> QED
    BY <1>1, <1>4, <1>7, <1>8, <2>1
<1> QED
  BY <1>0, <1>5, <1>6, <1>9

LEMMA CommitKeepsLedger ==
    ASSUME BillingInv, LedgerInv, NEW h \in Handlers, NEW done \in SUBSET Sides,
           CommitPayment(h, done)
    PROVE  LedgerInv'
<1> DEFINE r == task[h].receipt
           i == r.invoice
           u == i.user
           row == [receipt |-> r, at |-> task[h].at]
           E == Earners("referrer")
           F == Earners("invitee")
           e == IF "referrer" \in done THEN {u} ELSE {}
           f == IF "invitee" \in done THEN {u} ELSE {}
           spent(v) == IF v = u THEN i.credits ELSE 0
           gained(v) == RewardTo(u, v, done)
<1>1. /\ payments' = payments \cup {row}
      /\ balance' = [v \in Users |-> balance[v] - spent(v) + gained(v)]
      /\ refs' = refs \cup (IF i.credits > 0 THEN {SpendRef(r.charge)} ELSE {})
                      \cup NewRewards(u, done)
      /\ failures' = failures \cup RewardFailure(u, r.charge, done)
  BY DEF CommitPayment
<1>2. row \in Payment /\ BuyerOf(row) = u /\ CreditsPaid[row] = i.credits
  <2>1. row \in Payment
    BY TaskFields DEF CommitPayment, BillingInv, TypeOK, Payment
  <2>2. BuyerOf(row) = u /\ row.receipt.invoice.credits = i.credits
    BY DEF BuyerOf
  <2> HIDE DEF row
  <2> QED
    BY <2>1, <2>2, PaymentFields
<1>3. u \in Users /\ i.credits \in Nat /\ row \notin payments
  BY CommitFacts DEF ChargesOf
<1>4. payments \in SUBSET Payment /\ IsFiniteSet(payments)
  BY DEF BillingInv, TypeOK, LedgerInv
<1>5. IsFiniteSet(payments')
  <2> HIDE DEF row
  <2> QED
    BY <1>1, <1>4, FS_AddElement
<1>6. \A g \in failures' : g.before \in Sides => g.charge \in ChargesOf(payments')
  <2>1. ChargesOf(payments') = ChargesOf(payments) \cup {r.charge}
    <3>1. ChargesOf(payments \cup {row}) = ChargesOf(payments) \cup {row.receipt.charge}
      BY DEF ChargesOf
    <3>2. row.receipt.charge = r.charge
      OBVIOUS
    <3> HIDE DEF row, r
    <3> QED
      BY <1>1, <3>1, <3>2
  <2>2. \A g \in RewardFailure(u, r.charge, done) : g.charge = r.charge
    BY DEF RewardFailure
  <2>3. \A g \in failures : g.before \in Sides => g.charge \in ChargesOf(payments)
    BY DEF LedgerInv
  <2> HIDE DEF u, r
  <2> QED
    BY <1>1, <2>1, <2>2, <2>3
<1>7. ASSUME NEW side \in Sides, NEW v \in Users
      PROVE  [kind |-> side, user |-> v] \in refs' <=> Earned(v, side)'
  <2>1. SpendRef(r.charge) # [kind |-> side, user |-> v]
    BY DEF SpendRef, Sides
  <2>2. [kind |-> side, user |-> v] \in refs \cup NewRewards(u, done)
          <=> [kind |-> side, user |-> v] \in refs \/ (v = u /\ side \in done)
    BY DEF NewRewards
  <2>3. [kind |-> side, user |-> v] \in refs <=> Earned(v, side)
    BY DEF LedgerInv
  <2>4. Earned(v, side)' <=> Earned(v, side) \/ (v = u /\ side \in done)
    BY CommitEarns
  <2> HIDE DEF u, i, r
  <2> QED
    BY <1>1, <2>1, <2>2, <2>3, <2>4
<1>8. Earners("referrer")' = E \cup e /\ Earners("invitee")' = F \cup f
  <2>1. ASSUME NEW side \in Sides
        PROVE  Earners(side)' = Earners(side) \cup IF side \in done THEN {u} ELSE {}
    <3>1. \A v \in Users : Earned(v, side)' <=> Earned(v, side) \/ (v = u /\ side \in done)
      BY CommitEarns
    <3> HIDE DEF u
    <3> QED
      BY <1>3, <3>1 DEF Earners
  <2> QED
    BY <2>1 DEF Sides
<1>9. ASSUME NEW v \in Users
      PROVE  gained(v) = (IF u \in e /\ u \notin E /\ v = Referrer[u] THEN Reward ELSE 0)
                          + (IF u \in f /\ u \notin F /\ v = u THEN Reward ELSE 0)
  <2>1. /\ [kind |-> "referrer", user |-> u] \in refs <=> u \in E
        /\ [kind |-> "invitee", user |-> u] \in refs <=> u \in F
    BY <1>3 DEF LedgerInv, Earners, Sides
  <2>2. \A side \in done : [kind |-> side, user |-> u] \in NewRewards(u, done)
                             <=> [kind |-> side, user |-> u] \notin refs
    BY DEF NewRewards
  <2>3. Referrer[u] # u /\ Reward \in Nat
    BY <1>3, UsersAssumption, NumbersAssumption
  <2> HIDE DEF u, E, F
  <2>4. gained(v) = IF \/ "referrer" \in done /\ u \notin E /\ v = Referrer[u]
                       \/ "invitee" \in done /\ u \notin F /\ v = u
                      THEN Reward ELSE 0
    BY <2>1, <2>2 DEF RewardTo, Sides
  <2> HIDE DEF gained
  <2> QED
    BY <2>3, <2>4
<1>10. ASSUME NEW v \in Users
       PROVE  balance'[v] = InitialCredits[v] + Reward * Rewards(v, E \cup e, F \cup f)
                              - Total(CreditsPaid, RowsOf(v, payments'))
  <2>1. balance'[v] = balance[v] - spent(v) + gained(v)
    BY <1>1
  <2>2. balance[v] = InitialCredits[v] + Reward * Rewards(v, E, F)
                       - Total(CreditsPaid, RowsOf(v, payments))
    BY BalancedMeans DEF LedgerInv, Balanced
  <2>3. /\ Total(CreditsPaid, RowsOf(v, payments)) \in Nat
        /\ Total(CreditsPaid, RowsOf(v, payments \cup {row})) =
             Total(CreditsPaid, RowsOf(v, payments)) + spent(v)
    <3> HIDE DEF row, u, i
    <3>1. /\ Total(CreditsPaid, RowsOf(v, payments)) \in Nat
          /\ v # BuyerOf(row) =>
               RowsOf(v, payments \cup {row}) = RowsOf(v, payments)
          /\ v = BuyerOf(row) =>
               /\ RowsOf(v, payments \cup {row}) = RowsOf(v, payments) \cup {row}
               /\ Total(CreditsPaid, RowsOf(v, payments) \cup {row}) =
                    Total(CreditsPaid, RowsOf(v, payments)) + CreditsPaid[row]
      BY <1>2, <1>3, <1>4, AmountsType, TotalOfRows, ZenonT(30)
    <3>2. spent(v) = IF v = BuyerOf(row) THEN CreditsPaid[row] ELSE 0
      BY <1>2
    <3> HIDE DEF spent
    <3>3. CASE v = BuyerOf(row)
      BY <3>1, <3>2, <3>3, Zenon
    <3>4. CASE v # BuyerOf(row)
      BY <3>1, <3>2, <3>4
    <3> QED
      BY <3>3, <3>4
  <2> DEFINE one == u \in e /\ u \notin E /\ v = Referrer[u]
             two == u \in f /\ u \notin F /\ v = u
             n == Rewards(v, E, F)
             m == Rewards(v, E \cup e, F \cup f)
  <2>4. n \in Nat /\ m = n + (IF one THEN 1 ELSE 0) + (IF two THEN 1 ELSE 0)
    <3>1. IsFiniteSet(E)
      BY <1>4, EarnersFinite
    <3> DEFINE old == Cardinality(FriendsOf(v, E))
               more == Cardinality(FriendsOf(v, E \cup e))
    <3> HIDE DEF E, F
    <3>2. old \in Nat
      BY <3>1, RewardsType
    <3>3. more = old + (IF one THEN 1 ELSE 0)
      <4>1. CASE one
        <5>1. E \cup e = E \cup {u}
          BY <4>1
        <5>2. PICK w : w = u
          OBVIOUS
        <5> HIDE DEF u
        <5>3. Cardinality(FriendsOf(v, E \cup {w})) = Cardinality(FriendsOf(v, E)) + 1
          BY <3>1, <4>1, <5>2, FriendsGrow
        <5> QED
          BY <4>1, <5>1, <5>2, <5>3
      <4>2. CASE ~one
        <5>1. FriendsOf(v, E \cup e) = FriendsOf(v, E)
          BY <4>2 DEF FriendsOf
        <5> HIDE DEF one
        <5> QED
          BY <3>2, <4>2, <5>1
      <4> QED
        BY <4>1, <4>2
    <3>4. /\ OwnReward(v, F) \in Nat
          /\ OwnReward(v, F \cup f) = OwnReward(v, F) + (IF two THEN 1 ELSE 0)
      BY DEF OwnReward
    <3>5. n = old + OwnReward(v, F) /\ m = more + OwnReward(v, F \cup f)
      BY DEF Rewards
    <3> HIDE DEF n, m, old, more, one, two
    <3> QED
      BY <3>2, <3>3, <3>4, <3>5
  <2>5. spent(v) \in Nat /\ Reward \in Nat /\ InitialCredits[v] \in Nat
    BY <1>3, NumbersAssumption, UsersAssumption
  <2>6. gained(v) = (IF one THEN Reward ELSE 0) + (IF two THEN Reward ELSE 0)
    BY <1>9
  <2> HIDE DEF one, two, n, m, gained
  <2>7. Reward * m = Reward * n + gained(v) /\ gained(v) \in Nat /\ Reward * n \in Nat
    <3>1. \A k \in Nat : Reward * (n + k) = Reward * n + Reward * k
      BY <2>4, <2>5
    <3>2. Reward * 0 = 0 /\ Reward * 1 = Reward /\ Reward * 2 = Reward + Reward
      BY <2>5
    <3>3. \E k \in {0, 1, 2} : m = n + k /\ gained(v) = Reward * k
      BY <2>4, <2>5, <2>6, <3>2
    <3>4. Reward * n \in Nat
      BY <2>4, <2>5
    <3> QED
      BY <2>5, <3>1, <3>2, <3>3, <3>4
  <2> HIDE DEF row, u, i, spent
  <2> QED
    BY <1>1, <2>1, <2>2, <2>3, <2>5, <2>7 DEF n, m
<1>11. LedgerBalanced'
  <2>1. PICK E2, F2 : /\ E2 = Earners("referrer")' /\ F2 = Earners("invitee")'
                      /\ E2 = E \cup e /\ F2 = F \cup f
    BY <1>8
  <2>2. \A v \in Users :
          /\ FriendsOf(v, E2) = {w \in Users : Referrer[w] = v /\ Earned(w, "referrer")'}
          /\ OwnReward(v, F2) = IF Earned(v, "invitee")' THEN 1 ELSE 0
    BY <2>1 DEF FriendsOf, OwnReward, Earners
  <2>3. \A v \in Users :
          balance'[v] = InitialCredits[v] + Reward * Rewards(v, E2, F2)
                          - Total(CreditsPaid, RowsOf(v, payments'))
    BY <1>10, <2>1
  <2> QED
    BY <2>2, <2>3 DEF LedgerBalanced, Rewards, PaymentsOf, RowsOf, BuyerOf
<1> QED
  BY <1>5, <1>6, <1>7, <1>11 DEF LedgerInv

\* Every Credit is accounted for (ledger.py:37-125, referral/service.py:209-248):
\* balances are what the recorded payments and the swallowed errors say they are,
\* under every interleaving.
THEOREM LedgerIsBalanced == Spec => []LedgerBalanced
<1>1. Init => LedgerInv
  <2> SUFFICES ASSUME Init PROVE LedgerInv
    OBVIOUS
  <2>1. payments = {} /\ refs = {} /\ failures = {} /\ balance = InitialCredits
    BY DEF Init
  <2>2. \A v, side : ~Earned(v, side)
    BY <2>1 DEF Earned, PaymentsOf
  <2>3. /\ Earners("referrer") = {} /\ Earners("invitee") = {}
        /\ \A v \in Users : RowsOf(v, {}) = {} /\ FriendsOf(v, {}) = {}
    BY <2>2 DEF Earners, RowsOf, FriendsOf
  <2>4. \A v \in Users : Rewards(v, {}, {}) = 0 /\ Total(CreditsPaid, RowsOf(v, {})) = 0
    BY <2>3, FS_EmptySet, TotalOfNone DEF Rewards, OwnReward
  <2>5. Balanced(balance, payments, {}, {})
    BY <2>1, <2>4, NumbersAssumption, UsersAssumption DEF Balanced
  <2> QED
    BY <2>1, <2>2, <2>3, <2>5, BalancedMeans, FS_EmptySet DEF LedgerInv
<1>2. BillingInv /\ LedgerInv /\ [Next]_vars => LedgerInv'
  <2> SUFFICES ASSUME BillingInv, LedgerInv, [Next]_vars PROVE LedgerInv'
    OBVIOUS
  <2>1. CASE UNCHANGED <<payments, balance, refs>> /\ OnlyLookupsFail
    <3>1. \A p, step : step \in Sides => (Failed(p, step)' <=> Failed(p, step))
      BY <2>1 DEF OnlyLookupsFail, Failed, Sides
    <3>2. \A p : Reached(p)' = Reached(p)
      BY <3>1 DEF Reached, Sides
    <3>3. \A v, side : Earned(v, side)' <=> Earned(v, side)
      BY <2>1, <3>2 DEF Earned, PaymentsOf
    <3>4. \A g \in failures' : g.before \in Sides => g \in failures
      BY <2>1 DEF OnlyLookupsFail, Sides
    <3>5. LedgerBalanced'
      BY <2>1, <3>3 DEF LedgerInv, LedgerBalanced, PaymentsOf
    <3> QED
      BY <2>1, <3>3, <3>4, <3>5 DEF LedgerInv, ChargesOf
  <2> QED
    BY <2>1, LedgerSteps, CommitKeepsLedger DEF BillingInv
<1>3. LedgerInv => LedgerBalanced
  BY DEF LedgerInv
<1> QED
  BY <1>1, <1>2, <1>3, BillingInvariant, PTL DEF Spec

-----------------------------------------------------------------------------
\* A used trial stays used.  A handler in the middle of a payment or a grant
\* never means to clear trial_used, so an UPDATE that writes the column sets it.

KeepsTrial(t) ==
    t.pc \in {"paying", "granting"} => (t.seen.trialUsed => t.new.trialUsed)

TrialInv == \A h \in Handlers : KeepsTrial(task[h])

\* New tasks keep it, whatever row they load (activation.py:84-101 and 199-233,
\* beta_invite.py).
LEMMA NewTaskKeepsTrial ==
    ASSUME TypeOK, NEW h \in Handlers, NEW t, KeepsTrial(t), TrialInv,
           task' = [task EXCEPT ![h] = t]
    PROVE  TrialInv'
  BY DEF TypeOK, TrialInv

LEMMA TrialSteps ==
    ASSUME TypeOK, TrialInv, [Next]_vars
    PROVE  TrialInv'
<1>1. KeepsTrial(Idle)
  BY DEF KeepsTrial, Idle
<1>2. CASE UNCHANGED task
  BY <1>2 DEF TrialInv
<1>3. CASE Crash
  BY <1>1, <1>3 DEF Crash, TrialInv
<1>4. CASE \E h \in Handlers : Finish(h)
  BY <1>1, <1>4, NewTaskKeepsTrial DEF Finish
<1>5. CASE \E h \in Handlers : \E t : /\ t.pc \notin {"paying", "granting"}
                                       /\ task' = [task EXCEPT ![h] = t]
  <2>1. PICK h \in Handlers : \E t : /\ t.pc \notin {"paying", "granting"}
                                     /\ task' = [task EXCEPT ![h] = t]
    BY <1>5
  <2>2. PICK t : t.pc \notin {"paying", "granting"} /\ task' = [task EXCEPT ![h] = t]
    BY <2>1
  <2>3. KeepsTrial(t)
    BY <2>2 DEF KeepsTrial
  <2> QED
    BY <2>2, <2>3, NewTaskKeepsTrial
<1>6. CASE \E h \in Handlers : ReadForPayment(h)
  <2>1. PICK h \in Handlers : ReadForPayment(h)
    BY <1>6
  <2> DEFINE r == task[h].receipt
             row == sub[r.invoice.user]
             new == PurchasedRow(row, now, Length[r.invoice.plan], r.invoice.plan)
             t == [pc |-> "paying", receipt |-> r, seen |-> row, new |-> new,
                   at |-> now]
  <2>2. task' = [task EXCEPT ![h] = t]
    BY <2>1 DEF ReadForPayment, Continue
  <2>3. row \in Subscription
    BY <2>1, TaskFields DEF ReadForPayment, TypeOK, Receipt, Invoice
  <2>4. new.trialUsed = row.trialUsed
    BY <2>3 DEF PurchasedRow, Subscription
  <2>5. KeepsTrial(t)
    BY <2>4 DEF KeepsTrial
  <2>6. PICK tt : tt = t
    OBVIOUS
  <2> HIDE DEF t
  <2> QED
    BY <2>2, <2>5, <2>6, NewTaskKeepsTrial
<1>7. CASE \E h \in Handlers, u \in Customers : ReadForTrial(h, u)
  <2>1. PICK h \in Handlers, u \in Customers : ReadForTrial(h, u)
    BY <1>7
  <2>2. PICK t : /\ t = Granting(u, sub[u], TrialRow(sub[u], now), {})
                 /\ task' = [task EXCEPT ![h] = t]
    BY <2>1 DEF ReadForTrial, Begin
  <2>3. KeepsTrial(t)
    BY <2>2 DEF KeepsTrial, Granting, TrialRow
  <2> QED
    BY <2>2, <2>3, NewTaskKeepsTrial
<1>8. CASE \E h \in Handlers, u \in Customers, token \in Tokens : ClaimInvite(h, u, token)
  <2>1. PICK h \in Handlers, u \in Customers, token \in Tokens : ClaimInvite(h, u, token)
    BY <1>8
  <2>2. PICK row, t : /\ row = sub[u]
                      /\ t = Granting(u, row, ExtendedRow(row, now), {token})
                      /\ task' = [task EXCEPT ![h] = t]
    BY <2>1 DEF ClaimInvite, Begin
  <2>3. row \in Subscription
    BY <2>2, UsersAssumption DEF TypeOK
  <2>4. ExtendedRow(row, now).trialUsed = row.trialUsed
    BY <2>3 DEF ExtendedRow, PurchasedRow, Subscription
  <2>5. KeepsTrial(t)
    BY <2>2, <2>4 DEF KeepsTrial, Granting
  <2> QED
    BY <2>2, <2>5, NewTaskKeepsTrial
<1>9. CASE UNCHANGED vars \/ Tick \/ \E u \in Customers : CmdPro(u)
  BY <1>2, <1>9 DEF vars, Tick, CmdPro
<1>10. CASE \/ \E r \in approved, copies \in 1..MaxDeliveries : Pay(r, copies)
            \/ \E r \in paid : LookupFails(r)
  BY <1>2, <1>10 DEF Pay, LookupFails
<1>11. ASSUME NEW h \in Handlers, Request(h)
       PROVE  TrialInv'
  <2>1. CASE \E u \in Customers : ReadForTrial(h, u)
    BY <1>7, <2>1
  <2>2. CASE \E u \in Customers, token \in Tokens : ClaimInvite(h, u, token)
    BY <1>8, <2>2
  <2>3. CASE \/ \E u \in Customers, plan \in Plans : ReadDiscount(h, u, plan)
             \/ \E i \in invoices, c \in Charges : PreCheckout(h, i, c)
             \/ \E u \in Customers : CheckStatus(h, u)
    <3>1. \E t : /\ t.pc \notin {"paying", "granting"}
                 /\ task' = [task EXCEPT ![h] = t]
      BY <2>3 DEF ReadDiscount, PreCheckout, CheckStatus, Begin
    <3> QED
      BY <1>5, <3>1
  <2> QED
    BY <1>11, <2>1, <2>2, <2>3 DEF Request
<1>12. ASSUME NEW h \in Handlers, NEW r \in paid, ReceivePayment(h, r)
       PROVE  TrialInv'
  <2>1. PICK t : /\ task' = [task EXCEPT ![h] = t]
                 /\ t = IF r.charge \in ChargesOf(payments)
                          THEN [pc |-> "status", user |-> r.invoice.user,
                                replies |-> {[charge |-> r.charge,
                                              text |-> "duplicate"]}]
                          ELSE [pc |-> "charged", receipt |-> r]
    BY <1>12 DEF ReceivePayment, Begin
  <2>2. t.pc \in {"status", "charged"}
    BY <2>1
  <2> QED
    BY <1>5, <2>1, <2>2
<1>13. ASSUME NEW h \in Handlers, Step(h)
       PROVE  TrialInv'
  <2>1. CASE ReadForPayment(h)
    BY <1>6, <2>1
  <2>2. CASE \/ CreateInvoice(h) \/ AnswerPreCheckout(h) \/ PaymentConflicts(h)
             \/ Deactivate(h) \/ CommitGrant(h)
             \/ \E done \in SUBSET Sides : CommitPayment(h, done)
    <3>1. Finish(h)
      BY <2>2 DEF CreateInvoice, AnswerPreCheckout, PaymentConflicts, Deactivate,
                  CommitGrant, CommitPayment
    <3> QED
      BY <1>4, <3>1
  <2>3. CASE PaymentRefused(h) \/ FinishStatus(h)
    <3>1. \/ Finish(h)
          \/ \E t : /\ t.pc \notin {"paying", "granting"}
                    /\ task' = [task EXCEPT ![h] = t]
      BY <2>3 DEF PaymentRefused, FinishStatus, Continue
    <3> QED
      BY <1>4, <1>5, <3>1
  <2> QED
    BY <1>13, <2>1, <2>2, <2>3 DEF Step
<1>14. ASSUME NEW h \in Handlers, HandlerFails(h)
       PROVE  TrialInv'
  BY <1>4, <1>14 DEF HandlerFails
<1> QED
  BY <1>3, <1>9, <1>10, <1>11, <1>12, <1>13, <1>14 DEF Next

\* No UPDATE takes the trial back (activation.py:84-101 merged into a row whose
\* trial was granted after the handler had loaded it).
LEMMA MergeKeepsTrial ==
    ASSUME NEW row \in Subscription, NEW seen \in Subscription,
           NEW new \in Subscription, seen.trialUsed => new.trialUsed, row.trialUsed
    PROVE  Merge(row, seen, new).trialUsed
  BY DEF Merge, Subscription

LEMMA UpdatesKeepTrial ==
    ASSUME TypeOK, TrialInv, [Next]_vars, NEW u \in Users, sub[u].trialUsed
    PROVE  sub'[u].trialUsed
<1>1. CASE UNCHANGED sub
  BY <1>1
<1>2. CASE \E h \in Handlers, done \in SUBSET Sides : CommitPayment(h, done)
  <2>1. PICK h \in Handlers, done \in SUBSET Sides : CommitPayment(h, done)
    BY <1>2
  <2>2. task[h].pc = "paying" /\ task[h] \in Task
    BY <2>1 DEF CommitPayment, TypeOK
  <2>3. /\ task[h].seen \in Subscription /\ task[h].new \in Subscription
        /\ task[h].seen.trialUsed => task[h].new.trialUsed
    BY <2>2, TaskFields DEF TrialInv, KeepsTrial
  <2>4. sub[u] \in Subscription
    BY DEF TypeOK
  <2>5. Merge(sub[u], task[h].seen, task[h].new).trialUsed
    BY <2>3, <2>4, MergeKeepsTrial
  <2>6. sub' = [sub EXCEPT ![task[h].receipt.invoice.user] =
                  Merge(@, task[h].seen, task[h].new)]
    BY <2>1 DEF CommitPayment
  <2> QED
    BY <2>5, <2>6 DEF TypeOK
<1>3. CASE \E h \in Handlers : CommitGrant(h)
  <2>1. PICK h \in Handlers : CommitGrant(h)
    BY <1>3
  <2>2. task[h].pc = "granting" /\ task[h] \in Task
    BY <2>1 DEF CommitGrant, TypeOK
  <2>3. /\ task[h].seen \in Subscription /\ task[h].new \in Subscription
        /\ task[h].seen.trialUsed => task[h].new.trialUsed
    BY <2>2, TaskFields DEF TrialInv, KeepsTrial
  <2>4. sub[u] \in Subscription
    BY DEF TypeOK
  <2>5. Merge(sub[u], task[h].seen, task[h].new).trialUsed
    BY <2>3, <2>4, MergeKeepsTrial
  <2>6. sub' = [sub EXCEPT ![task[h].user] = Merge(@, task[h].seen, task[h].new)]
    BY <2>1 DEF CommitGrant
  <2> QED
    BY <2>5, <2>6 DEF TypeOK
<1>4. CASE \E h \in Handlers : Deactivate(h)
  <2>1. PICK h \in Handlers : Deactivate(h)
    BY <1>4
  <2>2. sub[u] \in Subscription /\ task[h].user \in Users
    BY <2>1, TaskFields DEF Deactivate, TypeOK
  <2>3. sub' = [sub EXCEPT ![task[h].user].active = FALSE]
    BY <2>1 DEF Deactivate
  <2> QED
    BY <2>2, <2>3 DEF TypeOK, Subscription
<1>5. \/ UNCHANGED sub
      \/ \E h \in Handlers, done \in SUBSET Sides : CommitPayment(h, done)
      \/ \E h \in Handlers : CommitGrant(h)
      \/ \E h \in Handlers : Deactivate(h)
  <2>1. CASE \/ UNCHANGED vars \/ Tick \/ Crash
             \/ \E v \in Customers : CmdPro(v)
             \/ \E r \in approved, copies \in 1..MaxDeliveries : Pay(r, copies)
             \/ \E r \in paid : LookupFails(r)
             \/ \E r \in paid, h \in Handlers : ReceivePayment(h, r)
             \/ \E h \in Handlers : HandlerFails(h)
    BY <2>1 DEF vars, Tick, Crash, CmdPro, Pay, LookupFails, ReceivePayment,
                HandlerFails, database
  <2>2. CASE \E h \in Handlers : Request(h)
    BY <2>2 DEF Request, ReadDiscount, PreCheckout, CheckStatus, ReadForTrial,
                ClaimInvite, database
  <2>3. CASE \E h \in Handlers : Step(h)
    BY <2>3 DEF Step, CreateInvoice, AnswerPreCheckout, ReadForPayment,
                PaymentConflicts, PaymentRefused, FinishStatus, database
  <2> QED
    BY <2>1, <2>2, <2>3 DEF Next
<1> QED
  BY <1>1, <1>2, <1>3, <1>4, <1>5

\* Once a user has had the trial, trial_used stays set, whatever rows handlers
\* loaded before it was committed (activation.py:84-101 and 199-233).
THEOREM TrialUsedForGood == Spec => TrialStaysUsed
<1>1. Init => TrialInv
  BY DEF Init, TrialInv, KeepsTrial, Idle
<1>2. TypeOK /\ TrialInv /\ [Next]_vars => TrialInv'
  BY TrialSteps
<1>3. TypeOK /\ TrialInv /\ [Next]_vars
        => [\A u \in Users : sub[u].trialUsed => sub'[u].trialUsed]_vars
  BY UpdatesKeepTrial
<1> QED
  BY <1>1, <1>2, <1>3, TypeCorrect, PTL DEF Spec, TrialStaysUsed
=============================================================================
