# Ghos_BOT in TLA+

Ghos_BOT is a Telegram bot with a Mini App for Clash Royale players: it links a
player tag, collects the player's battles, keeps a list of "my decks", coaches,
and sells Ghosteek Pro for Telegram Stars. One process runs everything in one
asyncio loop: aiogram handlers, FastAPI routes and periodic tasks. They share a
database (SQLite or PostgreSQL through SQLAlchemy) and a few dictionaries in
memory. State changes in one thread only, but every `await` is a point at which
another task may run, and the process may be restarted at any of them.

This directory models the parts whose correctness depends on that: which money
and which rows survive interleaving, repeated delivery, failure and restart.

## 1. The system: components, state, operations, properties

| Component | State | Operations | What makes it correct |
|---|---|---|---|
| Pro prices (`services/pro/pricing.py`) | none | quote, discount, Credits share | a quote adds up; Credits pay at most half; a fresh invoice passes pre-checkout |
| Pro subscriptions and payments (`services/pro/{activation,entitlement,plans}.py`, `handlers/subscription.py`, `api/routes/pro.py`, `api/deps.py`) | `subscriptions`, `pro_payments`, outstanding invoice links | invoice, pre-checkout, successful payment, trial, status with lazy deactivation | one grant per charge; every payment buys its time; only the clock ends Pro; a used trial stays used; a payment handler that got into its `try` answers the payer |
| Credits ledger (`services/credits/ledger.py`) | `credit_transactions` | credit once, spend once, balance | no negative balance; every Credit is accounted for |
| Referrals (`services/referral/`) | `referrals` | attribution, first-purchase discount, rewards | each side is rewarded at most once, the referrer first; a reward is missing only after a logged error |
| Beta invites (`services/beta_invite.py`) | `beta_invites` | create, claim, redeem | an invite is used once |
| Battle synchronisation (`services/battle_service.py`, `battle_log_fetch.py`, `battle_session_cache.py`, `sync_service.py`, `user_bootstrap.py`, `api/routes/battles.py`) | `battle_cache`, session lists, fetch marks, the request in flight | periodic sync, load, list, first load, peek, persist, clear | what is shown is stored; no battle stays in the log for ever without being stored |
| Linking and tracked decks (`services/clash_api.py`, `services/mine_decks.py`, `handlers/player.py`, `api/routes/decks.py`) | `users.player_tag`, `tracked_mine_decks` | link, unlink, synchronise slots | one owner per tag; at most ten slots, filled by the replacement rule, none of a foreign deck |
| Registration (`handlers/start.py`, `services/clash_api.py`) | `users`, `referrals`, `beta_invites` | register, redeem, attribute | a referral is the registering link's and is not lost; an invite is granted once |
| Notifications (`services/pro/reminders.py`, `services/weekly_digest.py`) | `pro_reminder_sent`, `weekly_digest_sent` | reminder cycle, digest cycle | one message per occasion; whoever is due and has something to be told is told in time; a cycle ends |
| Meta collector (`services/meta_collector.py` and `meta_*.py`) | observations, aggregates, daily rows | scan, ingest, insert, rebuild | a battle counts once; totals and days agree; a failed cycle loses nothing that is stored |
| Coach memory (`services/ghosteek_ai/{conversation,memory}/`, `service.py`, `api/routes/ai.py`) | sessions: messages, summary, last replay | ask, answer, compress, expire, sweep, clear | no message lost, doubled or revived |
| Replay jobs (`services/ghosteek_ai/replay/service.py`) | busy flag, job count, temporary files | upload, analyse, refuse, cancel | the service is freed and the file removed on every way out |
| Dialogue storage, account deletion preflight, process life cycle | small | | see section 7 |
| Deck analysis, card data, matchups, language pipeline | none | scoring, rendering | heuristics without state: not modelled |

How they interact. A purchase touches subscriptions, payments, the ledger and
the referral in one transaction, started by an update from Telegram that may
come twice. Linking clears what synchronisation writes. The sync, the Mini App
and the chat menus ask for the same battle log through one shared request, and
mark the tag as fetched for each other. "My decks" is recomputed from the
session list and the stored history together. `/start` registers whom the Mini
App may be registering at the same moment. The meta collector reads the battle
history that the users' synchronisation writes. An upload leaves what it found
in the session that the user's questions are appended to.

What is hard: handlers of one user that overlap at an `await`; a payment whose
Credits were claimed long before; updates delivered twice, or dropped at a
restart; an error that is logged and passed over half-way; marks set before the
work they stand for is done; locks in memory that
some writers do not take; a list that is stored again under a new time. These
are listed with their lines under `hazards` in `PROJECT.json`.

## 2. The modules

`Pricing` is the arithmetic of a quote, as operators. `QuoteInputs` is the
state machine that enumerates its inputs. `PricingProofs` holds its theorems and
the lemmas on floor division they rest on.

`ProBilling` EXTENDS `Pricing` and composes subscriptions, payments, ledger,
referral rewards and invites: they write one database in shared transactions.
`PaidGrants` is the abstract specification of what billing promises: a charge is
granted at most once, a grant takes Credits that are there, each side of an
invitation is rewarded at most once and the referrer first, and nothing else moves
Credits. `ProBilling` implements it (`KeepsPromise`, proved in `ProBillingProofs`,
with the balance of the ledger and the fate of a used trial).

`BattleSync` is one player's battles on their way from the API to the table and
the session list. `BattleSyncProofs` proves its safety.

`MineDecks` is linking and the slots of "my decks". `MineDecksProofs` proves
the limit on slots, the single owner of a tag, the replacement rule, and that a
saved slot's deck has been played.

`Notifications` is the two loops that write to users on their own; a behaviour
follows one of them, because they share nothing. `NotificationsProofs` proves
what is repeated, what is recorded, and who is served before a deadline.

`Registration` is `/start` and the other entry points: who is registered by
which link, and what the link is worth. `RegistrationProofs` proves its three
promises.

`MetaCollector` is the collector's cycle over the two sources of battles and the
tables it rebuilds. `MetaCollectorProofs` proves that games are battles and that
days add up to them.

`Conversation` is the coach's memory of one user and `ReplayJobs` the uploads;
`Coach` EXTENDS both and composes them: an upload that ends with a finding
(`Conclude`) writes into the session, and a restart loses the one and cuts the
other. `CoachProofs` proves the safety of both.

The `MC*` modules give the instances: constants that are functions, and
symmetry sets.

### How actions correspond to the code

All modules keep what a suspended coroutine holds in its locals in `task[h]`.
A handler is split where it reads and where it commits, never elsewhere.

* ProBilling. `ReadDiscount`, `CreateInvoice` are the two reads of
  `POST /api/pro/invoice`; `CmdPro` is the chat's invoice. `PreCheckout` and
  `AnswerPreCheckout` are the pre-checkout handler, `Pay` is Telegram.
  `ReceivePayment` looks the charge up, `ReadForPayment` loads the row and
  computes the new period, and one of `CommitPayment`, `PaymentConflicts` (the
  unique index refuses the charge) or `PaymentRefused` (the ledger refuses the
  Credits) ends it. The rewards are two ledger rows inside that transaction, and
  an exception in them is logged and passed over: `RewardOutcomes` says how far
  they got (none, the referrer's, both). `HandlerFails` is a database error
  between any two statements of any handler: what it had not committed is rolled
  back, and the `except` branch of a payment handler answers. The lookup of the
  user comes before the `try` (`handlers/subscription.py:110`); an error there is
  `LookupFails`, which answers nothing. `failures` is the history of the errors
  nobody is told of, for `LedgerBalanced` and `EveryPaymentAnswered`. From the first UPDATE to COMMIT is one action: the UPDATE
  locks the user's row (SQLite: the database). `Merge` writes only the columns
  the handler changed, which is what SQLAlchemy sends; sessions use
  `expire_on_commit=False`, so a handler goes on with what it read.
  `ClaimInvite` is the conditional UPDATE that keeps a token's row locked until
  `CommitGrant`. `Crash` loses the handlers and, as `main.py:145` does, the
  pending updates.
* BattleSync. `Sync`, `Load`, `ListFromSession`, `Reload` and `Peek` are the
  callers of `coalesced_battlelog`; `ApiAnswers` and `ApiFails` resolve the
  shared request for everyone who waits (a closed client is a failure),
  `GiveUp` is the time-out of one waiter, `Persist` is `persist_battles` with
  its commit test, `Publish` is `set_session_battles`, `FallBack` what is used
  instead of a log. Ages saturate at `TTL`. One tag and one user are enough:
  nothing in the code relates two tags, and a tag has one user (`TagOwnedOnce`).
* MineDecks. `BeginLink` is everything up to the write of the new tag (with the
  slots deleted in a transaction of their own), `CommitLink` that write;
  `Unlink` is atomic because nothing is read between its test and its write that
  others change. `Load` is the battle log and the history, `ReadSlots` takes the
  lock, `EnsureSlot` is one call of `ensure_slot`, `DropUnplayed` and the
  filling phase the two cleanups, `Save` the commit. The number of a battle
  stands for its time. The branch for a duplicate key needs a second writer of
  one user's slots, which the lock excludes; a row deleted meanwhile makes the
  UPDATE fail (`RowLost`), and the transaction is rolled back.
* Notifications. `Wake` selects the users, `Examine` and `Skip` are the tests of
  one user (with `already_sent`), `Deliver`, `Refused`, `SendFails` and
  `RetryAfter` are Telegram's answers, `Mark` and `MarkFails` the commit of the
  record, `ReadFails` an exception that leaves the cycle. Sent and recorded are
  two steps, because they are two transactions with the network in between.
  Battles are looked for in the table only (`Found`): the digest also asks
  the API client, but for a method it does not have (section 6).
  `sent` and `lost` are histories.
* Registration. A SELECT and the write that follows it are two actions
  (`ReadUser` and `InsertUser`, `Peek` and `Claim`, `LookUpReferrer` and
  `InsertReferral`); unique constraints and the conditional UPDATE decide at the
  second. `origin` and `owed` are histories.
* MetaCollector. `RankingAnswers`, `FetchOne`, `Ingest` and `Save` are the awaits
  of `collect_mode`; `Save` is one transaction from the inserts to COMMIT, and
  the next mode begins after it. `RankingLimited` is the one error of a ranking
  that the code does not survive. It and refused logs (`FetchFails`) may occur any
  number of times; `Abort` (a restart, a database error) is counted in `aborts`. The other users' `Store` and `ClearHistory`
  run at any point.
* Coach. A question is two actions, `Ask` before its first await and `Answer` (or
  `Fail`) after its last, because it touches the session at no other point;
  sessions are objects, so that an answer goes to the session its question
  found, and `save` makes that one current. An upload waits while its file is
  read (`spool`), at the vision model (`vision`) and for the coach's text
  (`coach`); the flag and the file are given back by the `finally` block
  (`Freed`) before the last of these.

## 3. What TLC checks

| Run | Instance | Shows |
|---|---|---|
| `quote_inputs` | prices 1 to 250, raw percentages in and out of range, balances to 130 | `QuoteAddsUp`, `CreditsPayAtMostHalf`, `FreshInvoiceIsAccepted` |
| `billing_concurrent` | 2 handlers, 2 charges delivered up to twice, 2 invoices, 2 instants, the trial, errors at any statement | `ChargeGrantedOnce`, `CreditsNeverOverdrawn`, `LedgerBalanced`, `TrialStaysUsed`, and refinement of `PaidGrants` |
| `billing_serial` | 1 handler, 4 instants, trial, invite, errors, a crash | `PaidTimeDelivered`, `PaymentExtends`, `ProNotLost`, `TrialOnce` |
| `billing_answers` | 2 handlers, 2 charges delivered up to twice on an invoice that takes all Credits, errors at any statement, fairness | `EveryPaymentAnswered` |
| `battle_sync` | 2 callers, TTL 2, a log of 2 of 3 battles, 1 fault, any number of API errors, fairness | `ShownIsStored`, `EveryBattleStored` |
| `mine_decks` | 2 users and tags, 2 handlers, 3 decks for 2 slots, 3 battles, any number of crashes | `SlotLimit`, `TagOwnedOnce`, `LeastPlayedGoes`, `NothingForeignLeft` |
| `notifications` | a payer and a trial user, days of 2 and weeks of 4 slots, 2 faults, fairness | `RepeatsOnlyUnrecorded`, `RecordedReminderWasSent`, `DigestServed`, `ReminderServed`, `CyclesEnd` |
| `registration` | 3 accounts, 2 handlers, 1 invite, 1 fault | `FirstTouch`, `ReferralKept`, `InviteGrantedOnce` |
| `meta_collector` | 5 battles of 2 players in 3 modes, a log of 2, 2 aborted cycles, any number of API errors, fairness | `GamesAreBattles`, `DaysAddUp`, `StoredLadderCounts` |
| `coach` | 2 questions and 2 uploads, compression at 2 messages to 1, a restart | `NothingSkipped`, `OneConversation`, `JobsLeaveNothing` |

Every passing run but `quote_inputs`, `billing_serial` and `billing_answers` (whose
modules' `TypeOK` is proved) also checks `TypeOK`. Two more runs,
`billing_lost_period` and `meta_mixed_modes`, are expected to fail; they are the
findings of section 6.

### Bounds, and why they are enough

* Prices of 4 Stars with 2 Credits: one Credit is a large part of the price, so
  that two invoices can claim the same ones. Two charges and two deliveries are
  the smallest numbers at which a grant can be repeated, a reward doubled and
  Credits overdrawn; two handlers the smallest at which one overtakes another.
  The serial run has more time (`MaxTime` 3, plan length 2) so that periods
  lapse, are extended before and after their end, and meet the trial.
  `billing_concurrent` has no crash: to the tables a crash is what `HandlerFails`
  does to every handler at once, with the queued updates never received, which a
  safety property sees anyway (`billing_serial` has one, between periods).
  `billing_answers` needs no time and no invitation: what matters to it are two
  copies that pass the lookup together, and Credits that pay one charge only.
* `TTL` 2 tells a fresh, an old and an expired mark apart. A log of two battles
  and a third battle makes one leave the log.
* Three decks for two slots, and two battles of one deck among three, give
  eviction, both its keys, protection and refilling. Both users link and unlink,
  one of them synchronises: slots of different users do not meet, so that the
  second user is there for the tags.
* Days of two slots and weeks of four, a window of two: a cycle that is lost has
  one more chance on the same day and in the same window, and not two. Seven
  instants reach both periods' deadlines and the windows of two weeks, and
  periods bought on the way end after `MaxTime`. Two faults are enough to lose
  both chances, which is where `DigestServed` and `ReminderServed` stop to
  promise anything.
* Three accounts are a referrer, a referred user and a rival link; two handlers
  race for each of them. Of several invites each would behave as the one.
* Five battles: three, of two players and both modes, share a deck, one is casual, one is below the minimum, and a log of two makes battles
  leave it before or after they are stored. `meta_mixed_modes` differs in that
  the league battle reports a trophy change.
* A session is compressed at two messages and keeps one (the code: sixteen and
  eight), and a role keeps three (twenty): two questions with their answers
  reach compression repeatedly and fill the summary, which holds two. With three
  questions the same properties hold, on millions of states. Two uploads are the
  smallest number at which one is refused.
* `MaxInvoices`, `MaxDeliveries`, `MaxBattles`, `MaxCrashes` and `MaxTime` only
  bound the environment. Three bounds are part of what is claimed. `DigestServed`
  and `ReminderServed` count the faults, so that the promise ends where the faults
  reach the slots of the window. `EveryBattleStored` has finitely many
  time-outs, database errors and crashes (`MaxFaults`), and `StoredLadderCounts`
  finitely many cycles cut short by a restart or a database error (`MaxAborts`):
  neither would hold if they struck for ever.

Deadlock is not checked: the environment may be used up, and every handler may
be idle. Symmetry (handlers with charges, handlers with decks) is used in runs
without liveness only. Where users differ (buyer, friend) they are not symmetric.

### Fairness

* `ProBilling!FairSpec`: each handler takes its next step (an asyncio task that
  is ready runs), and a charge's queued update is eventually received (strong
  fairness: the dispatcher starts a task per update, and the bound on handlers
  is the model's). `EveryPaymentAnswered` makes two exceptions, which the code
  makes too: a restart, since `main()` drops pending updates and handlers, and an
  error of the lookup before the handler's `try` (`LookupFails`).
* `BattleSync!FairSpec`: time passes, handlers step, the periodic cycle comes
  back, and the API does not fail for ever. `EveryBattleStored` excludes two
  endless behaviours that the code allows to starve the sync: reading the log
  for ever without storing it, and listing the session for ever; both renew the
  mark that makes the sync skip the tag.
* `Notifications!FairSpec`: the loop's task steps, a supervisor restarts the
  process, and time passes. `Tick` waits for a cycle in progress (a cycle of
  pauses of 0.05 to 0.07 s per user fits into an hour), and faults are bounded, so
  that `DigestServed` and `ReminderServed`, which are invariants about a deadline,
  count the faults instead of assuming them away.
* `MetaCollector!FairSpec`: the collector steps. Nothing is assumed of the players
  and the users' synchronisation. Of the API, `StoredLadderCounts` assumes that it
  answers for the league ranking again and again (`LeagueAnswers`): a 429 there
  ends the cycle before the trophies, and one in every cycle would starve them for
  ever. Battle logs may be refused without end, because the table holds the
  battles in question.
* `Registration` and `Coach` have no liveness property. In `Coach`, `Tick` waits
  for a question in flight for `MaxAnswer` ticks: the model's time-outs are one
  or two minutes, a session lives 45.

## 4. What is proved

TLAPS checks these for every value of the constants that satisfies the named
assumptions.

* `PricingProofs`: the invariants of `QuoteInputs` for all prices, settings and
  balances. They rest on the lemmas about floor division and clamping at the
  head of the module.
* `ProBillingProofs`: `TypeOK`, action by action. The ledger and the payments
  change in `CommitPayment` alone, so that for every other action the rest is
  immediate. The inductive invariant is
  `BillingInv == TypeOK /\ ChargeGrantedOnce /\ CreditsNeverOverdrawn`.
  `ChargeGrantedOnce` holds by the unique index tested in the same transaction,
  `CreditsNeverOverdrawn` by the ledger's own test under the row's lock, not by
  the two earlier reads. `BillingKeepsPromise` maps each step to a grant or to a
  stutter: the sides a grant rewards are those that the purchase reached and whose
  references were not in the ledger, also when an error leaves one out; the
  invitee's reference is never there without the referrer's. `LedgerIsBalanced`
  carries `LedgerInv`, which adds to `LedgerBalanced` that the references of the
  rewards are exactly the sides that some recorded purchase reached; hence a
  reward is new exactly when it is the first (`CommitEarns`, `CommitKeepsLedger`).
  `TrialUsedForGood` is about handlers that overlap: a handler's new row never
  unsets the flag it read (`KeepsTrial`), and `Merge` writes only what the handler
  changed, so a stale copy cannot bring the flag back. The assumption
  `Referrer[u] # u` is enforced where referrals are attributed
  (`services/referral/service.py:177-185`).
* `BattleSyncProofs`: `TypeOK` and `ShownIsStored`, from
  `SyncInv == TypeOK /\ StoredBeforeShown /\ ShownIsStored`.
  `StoredBeforeShown` says that the battles of a caller between `Persist` and
  `Publish` are in the table or erased by the user; without it nothing is known
  about the list that `Publish` shows.

* `MineDecksProofs`: `TypeOK`, `SlotLimit`, `AddedStay`, `TagOwnedOnce`,
  `LeastPlayedGoes` and `NothingForeignLeft`.
  `DecksInv` adds to them `OneSync` (the lock admits one synchronisation per
  user) and `Sound`, what a handler may rely on: every battle it holds has been
  played; the stored slots are among those it selected, so that its commit
  writes a subset of its working set; and that set is within the limit and has
  all it added. The clear in `link_player` takes no lock, but it only removes.
  The last two rest on `HistoryInv`, relative to `DecksInv`: what a handler
  ensures and adds comes from the battles it knows, and so does all it has left
  once the slots without battles are dropped. Those battles stay what they were
  while others are played, because the history only grows (`OneMore`); hence a
  count made early in a synchronisation is still the count at its end, and each
  victim can be compared with the slots that survive.

* `NotificationsProofs`: `TypeOK`, `RepeatsOnlyUnrecorded`,
  `RecordedReminderWasSent`, `DigestServed` and `ReminderServed` (see Deadlines).
  `NotifyInv` adds `InHand` (what the loop is about to
  send is not recorded, so that it can have been sent before only unrecorded),
  `Delivered` (what it is about to record was sent, under the index it holds) and
  `Accounted` (every delivery is recorded, lost, or in hand).
* `RegistrationProofs`: `TypeOK`, `FirstTouch`, `ReferralKept` and
  `InviteGrantedOnce`. The argument is about the handler that created the row:
  it is the only one of its user (`OneCreator`), works on the link that
  registered the user and finds no referral yet (`CreatorKnows`); hence what is
  owed is inserted or still in its hands (`OwedKept`). This module's conclusions
  include the assumption that `ProBilling` makes of referrals: `Referrer[u] # u`.
* `MetaCollectorProofs`: `TypeOK`, `GamesAreBattles` and `DaysAddUp`. `MetaInv` says that no
  two observations have the same key and that the totals count the observations
  (`CountsObservations`); the lemma `RowsAreBattles` turns observations of a mode
  into battles by a bijection.

* `CoachProofs`: `JobsLeaveNothing`, `TypeOK`, `NothingSkipped` and
  `OneConversation`. `OneUpload` says that the busy flag, the job count and the
  one running upload go together. `MemoryInv` makes sessions sound: what was
  summarised, what was trimmed and what is kept meet without gap, for windows of
  any size; trimming is a recursive function, whose values are bounded by
  descending to its least counterexample. `Undisturbed` holds as long as no answer
  came after a clear (`late = {}`): a question in flight keeps its session from
  expiring (`MaxAnswer` is shorter than a session lives), hence every flight is in
  the current session or was cut by a restart.

### Sums

`LedgerBalanced` and `DaysAddUp` are about sums over sets,
written with the folds of the community modules. The library's induction theorems
cannot be instantiated here, but its well-foundedness of the strict subsets of a
finite set can be cited, and gives every non-empty family of finite sets a smallest
member. `ProBillingProofs` uses this once, to show that a fold of the library is
what its definition suggests: `Total(amount, rows)` counts the pairs of a row and
one of its units (`TotalCounts`), so that one more row adds its amount
(`TotalGrows`). In `MetaCollectorProofs` the days of a deck partition its
observations.

### Deadlines

`DigestServed` and `ReminderServed` are about the whole course of a window: after
it no eligible user is left unexamined, and those of them whom the service can
serve (a digest needs battles in the table, any message a user who has not blocked
the bot) were sent their message. The
invariant `Timely` follows one announcement through it: in slot `k` of the window
the announcement is recorded, or more than `k` things have failed, or `k` have and
the loop has it still ahead in this slot (`Pending`: it wakes in this slot, has the
user on its list, or the note in hand). Within a slot only a failure takes it away
(`ChaseKept`); a slot ends when the loop sleeps, or with a failure when the process is
down (`ChaseTick`); and a loop sleeps through no slot in which it has something to
do (`OnTime`: the digest sleeps to the next window and no further, which is
arithmetic with weeks). Once the window is over, the announcement is recorded or as
many things failed as the window has slots.

The proof corrected the model: `ReminderServed` used to speak of every period that
has ended, also of one whose day of notice had begun before the program was started.
That held within the bounds of the run and is false for other constants. It now asks
for `expires[u] >= Notice(u)`.

### Only model-checked

`EveryPaymentAnswered`, `EveryBattleStored`, `CyclesEnd` and `StoredLadderCounts`:
TLAPS proves no liveness under fairness and no ENABLED.

`PaymentExtends`, `PaidTimeDelivered`, `ProNotLost` and `TrialOnce` are checked with
one handler and not proved, because of overlapping handlers of one user they are
false: two that have both read the subscription write over each other
(`billing_lost_period`), and `get_pro_status` may switch off a row that was paid for
after it looked (section 6). Their run says what payments, lapses, the trial and
invites make of a row when each handler ends before the next begins. The program
runs many handlers in one loop and does not ensure that.

## 5. Plan

Done: 1 `Pricing`, 2 `ProBilling` with `PaidGrants`, 3 `BattleSync`,
4 `MineDecks`, 5 `Notifications`, 6 `Registration`, 7 `MetaCollector`, each with
its proofs; 8 `Conversation`, 9 `ReplayJobs` and 10 their composition `Coach`;
11 `CoachProofs`, the sums of the ledger and of the days, and deadlines; 12 errors
that are swallowed or escape (`HandlerFails`, `LookupFails`, `RewardOutcomes`).

Left:

13. What overlapping handlers of one user still guarantee of the end of Pro:
    `TrialStaysUsed` is the one such promise so far; others are to be found with TLC
    first.
14. The clan war scan and the snapshots of the meta collector.

Runs are few by intent: one per question.

## 6. Where code and text disagree

| Run | Property | What happens |
|---|---|---|
| `billing_lost_period` | `PaidTimeDelivered` | two payments (or a payment and the trial) of one user overlap, both are recorded, one period is overwritten |
| `meta_mixed_modes` | `OneModePerBattle` | a league battle with a trophy change is counted as a Trophy Road battle too |

Each is quoted with its line under `findings` in `PROJECT.json`.

Also met while modelling; the modules contain this behaviour, no run states it:

* `get_pro_status` decides on the row it read that Pro has lapsed and switches
  `is_active` off in a later statement, by primary key: a payment committed in
  between is switched off although its time has just begun, until the next grant
  (`services/pro/entitlement.py:148`).
* The lookup of the payer comes before the `try` of the payment handler: an error
  there ends the update without a message, and the charge is not recorded
  (`handlers/subscription.py:110`). `EveryPaymentAnswered` makes an exception for it.
* An exception in the referral rewards is logged and the payment committed. The
  next purchase of the same buyer makes up for it; if there is none, the reward is
  never given (`services/pro/activation.py:153-162`).
* The digest asks the API client for `get_battle_log`, which `ClashRoyaleClient`
  does not define (it has `get_battlelog` and `fetch_battlelog_raw`). The
  AttributeError is swallowed, so that only battles in the table count and a user
  outside it is recorded unsent (`services/weekly_digest.py:568-571`).
* A payment that the ledger refuses for missing Credits is answered "Pro
  activated": the handler tests only for a duplicate
  (`handlers/subscription.py:132`).
* The battle list stores whatever it got under the present time, a list nobody
  fetched included, and so postpones the next fetch (`api/routes/battles.py:160`).
* A batch of battles that only completes existing rows is rolled back:
  `session.dirty` is empty after the flush (`services/battle_service.py:293`).
* The deck of the newest battle may lose its slot to that of an older one in the
  same synchronisation (`services/mine_decks.py:256`).
* 429 for the league ranking leaves `observations` unbound, and the exception
  ends the cycle, trophies included (`services/meta_collector.py:366`). A later
  cycle makes up for it if the league ranking is answered then
  (`StoredLadderCounts`); while it is not, no trophy battle is counted.
* The ingest of cached battles does not apply the trophy minimum that the scan
  applies (`services/meta_battle_cache_ingest.py:40-53`).
* Clearing the conversation while an answer is awaited is undone by the answer's
  `save` (`api/routes/ai.py:308`, `services/ghosteek_ai/service.py:757`).
  `OneConversation` excludes this race (`late = {}`) and shows that it is the
  only one.
* An orderly stop during the upload of a replay leaves its temporary file:
  `_spool_limited` catches no cancellation
  (`services/ghosteek_ai/replay/service.py:555-562`). The history `cut` records
  these files, and those of a kill.
* Two new users who open each other's links at the same time may refer each
  other; a user whom the Mini App registered first has no referrer; the loser of
  a race for the same registration gets no answer. No source promises otherwise.

## 7. What is not modelled, and why

* Calendar months (`_add_months`) are a length; currencies and texts are left out.
  So are administrators: whatever their row says, `get_pro_status` returns Pro. The
  unlimited grant of `/admin_sub` goes to the administrator's own account only and is
  left out with them.
* The contents of battles and slots (cards, evolutions, win rates), the parsing
  of API answers, statistics. In `MineDecks` battles that the code skips as
  friendly do not exist.
* `ProBilling` takes who referred whom as a constant: a referral is never changed
  after the registration that `Registration` models.
* Notifications: the contents of a digest, and `/digest`, which records nothing.
  The last slot before a deadline and the calendar (Moscow time, ISO weeks) are
  slots.
* Meta collector: ranking scores, trends and snapshots are functions of the
  counts; the clan war scan ends the cycle and writes none of these tables.
* Coach: the facts that a session copies from an answer for follow-ups, and the
  intent label that an answer puts on the last question, which need not be its
  own when two questions overlap. The store of evidence pictures is a cache.
* Dialogue storage: one read and one write per key, per chat. Account deletion
  preflight: counts only. Process life cycle: restarts and stops appear in the
  modules, the order of startup does not matter to them.
* Deck analysis, constructors, matchups, counters, the coach's classification,
  planning and rendering, images, API schemas and the tables of card data: most
  of the repository's lines. They are heuristics and data without state: nothing
  interleaves or fails halfway, no text promises more than their weights, and a
  model of them would be a copy.
* Telegram, the Clash Royale API, SQLAlchemy's unit of work and the clock are
  external: modelled as the code in `src/` uses them.
