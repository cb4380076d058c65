---------------------------- MODULE Notifications ----------------------------
(***************************************************************************)
(* The two loops that write to users on their own: the reminders that a    *)
(* Pro period ends (bot/services/pro/reminders.py) and the weekly digest   *)
(* (bot/services/weekly_digest.py).  Both ask the database whether an      *)
(* announcement was made, send it, and record it afterwards, each in a     *)
(* transaction of its own, so that a restart or a failed commit in between *)
(* makes them send it again.  They share nothing but the process: a        *)
(* behaviour follows one of them.                                          *)
(*                                                                         *)
(* Time is counted in slots: a loop that sleeps an hour or six wakes in    *)
(* the next slot.  A cycle, with its pauses, fits into a slot.  A restart  *)
(* and a regular stop look the same: main() cancels the loops where they   *)
(* are.  What a digest says and /digest, which records nothing, are left   *)
(* out.                                                                    *)
(***************************************************************************)
EXTENDS Naturals, Sequences

CONSTANTS
    Users,
    Notified,        \* users who left telegram_notifications on
    Linked,          \* users with a player tag
    Cached,          \* users of whom battle_cache has battles, every week
    Leavers,         \* users who may block the bot
    FirstExpiry, FirstPlan,   \* the subscriptions at the start, by user
    PlanSlots,       \* length of a plan
    SlotsPerDay, SlotsPerWeek,
    WindowSlots,     \* the first slots of a week, in which the digest is sent
    MaxTime, MaxFaults        \* bounds of the model

ASSUME NotifyAssumption ==
    /\ Notified \subseteq Users /\ Linked \subseteq Users
    /\ Leavers \subseteq Users
    /\ Cached \subseteq Users
    /\ FirstExpiry \in [Users -> Nat]
    /\ FirstPlan \in [Users -> {"trial", "paid"}]
    /\ SlotsPerDay \in Nat \ {0} /\ SlotsPerWeek \in Nat \ {0}
    /\ WindowSlots \in Nat \ {0} /\ WindowSlots < SlotsPerWeek
    /\ PlanSlots \in Nat /\ PlanSlots > 2 * SlotsPerDay
    /\ MaxTime \in Nat /\ MaxFaults \in Nat

Loops == {"reminders", "digest"}

\* What is announced at most once: the key is a week or the day of an expiry.
Note == [user : Users, key : Nat,
         kind : {"digest", "trial_last_day", "renew_2d"}]

VARIABLES
    now, up,
    expires, plan,   \* subscriptions.expires_at, plan_id
    closed,          \* users who have blocked the bot
    marked,          \* pro_reminder_sent and weekly_digest_sent
    loop,            \* the loop that is followed, never changed
    wake,            \* when it wakes
    task,
    sent,            \* history: what was delivered, in order
    lost,            \* history: the deliveries (indices of sent) not recorded
    faults

vars == <<now, up, expires, plan, closed, marked, loop, wake, task, sent, lost, faults>>

Asleep == [pc |-> "asleep"]

Task ==
    {Asleep}
    \cup [pc : {"next"}, todo : SUBSET Users]
    \cup [pc : {"again"}, todo : SUBSET Users, user : Users]
    \cup [pc : {"send"}, todo : SUBSET Users, note : Note, second : BOOLEAN]
    \cup [pc : {"mark"}, todo : SUBSET Users, note : Note, nr : Nat]

TypeOK ==
    /\ now \in Nat /\ up \in BOOLEAN
    /\ expires \in [Users -> Nat]
    /\ plan \in [Users -> {"trial", "paid"}]
    /\ closed \subseteq Users
    /\ marked \subseteq Note
    /\ loop \in Loops /\ wake \in Nat
    /\ task \in Task
    /\ sent \in Seq(Note) /\ lost \subseteq 1..Len(sent)
    /\ faults \in Nat

-----------------------------------------------------------------------------
\* Mutant: the week before.
WeekBefore(t) == (t \div SlotsPerWeek) - 1

Week(t) == t \div SlotsPerWeek
InWindow(t) == t % SlotsPerWeek < WindowSlots

DaysLeft(u) ==
    IF expires[u] > now
    THEN (expires[u] - now + SlotsPerDay - 1) \div SlotsPerDay ELSE 0

PeriodKey(t) == t \div SlotsPerDay

\* What there is to announce to u now: nothing, or one note.
DueReminder(u) ==
    {n \in [user : {u}, kind : {"trial_last_day", "renew_2d"}, key : {PeriodKey(expires[u])}] :
       \/ n.kind = "trial_last_day" /\ plan[u] = "trial" /\ DaysLeft(u) = 1
       \/ n.kind = "renew_2d" /\ plan[u] = "paid" /\ DaysLeft(u) = 2}

DueDigest(u) == [user : {u}, kind : {"digest"}, key : {Week(now)}]

Due(u) == IF loop = "digest" THEN DueDigest(u) ELSE DueReminder(u)

\* The users a cycle goes through.  The reminder cycle asks for the setting
\* user by user; the digest selects them, when there is a week to send.
Eligible ==
    IF loop = "digest"
    THEN IF InWindow(now) THEN Linked \cap Notified ELSE {}
    ELSE {u \in Notified : expires[u] > 0}

\* Mutants: no hourly catch-up in the window; a cycle a day.
NoCatchUp == (Week(now) + 1) * SlotsPerWeek
OnceADay == now + SlotsPerDay

NextWake ==
    IF loop = "digest" /\ ~InWindow(now)
    THEN (Week(now) + 1) * SlotsPerWeek ELSE now + 1

\* The delivery that a loop is about to record, if there was one.
Unrecorded ==
    IF task.pc = "mark" THEN {task.nr} \ {0} ELSE {}

Fault == faults < MaxFaults /\ faults' = faults + 1
NoFault == faults' = faults

-----------------------------------------------------------------------------
Init ==
    /\ now = 0 /\ up = TRUE
    /\ expires = FirstExpiry /\ plan = FirstPlan
    /\ closed = {} /\ marked = {}
    /\ loop \in Loops /\ wake = 0
    /\ task = Asleep
    /\ sent = <<>> /\ lost = {} /\ faults = 0

subs == <<expires, plan, closed>>
clock == <<now, up>>

Goto(state) == task' = state
Continue == Goto([pc |-> "next", todo |-> task.todo])

Wake ==
    /\ up /\ task.pc = "asleep" /\ wake <= now
    /\ Goto([pc |-> "next", todo |-> Eligible])
    /\ UNCHANGED <<loop, clock, subs, marked, wake, sent, lost, faults>>

\* The cycle is over, or an exception left it.
Sleep ==
    /\ task' = Asleep
    /\ wake' = NextWake

EndCycle ==
    /\ task.pc = "next" /\ task.todo = {}
    /\ Sleep
    /\ UNCHANGED <<loop, clock, subs, marked, sent, lost, faults>>

\* The user's turn, or the digest's second look at one after RetryAfter.
Turn(u, todo) ==
    \/ /\ task.pc = "next" /\ u \in task.todo
       /\ todo = task.todo \ {u}
    \/ /\ task.pc = "again" /\ u = task.user
       /\ todo = task.todo

Skip(u) ==
    /\ \E todo \in SUBSET Users :
         /\ Turn(u, todo)
         /\ Due(u) \ marked = {}
         /\ Goto([pc |-> "next", todo |-> todo])
    /\ UNCHANGED <<loop, clock, subs, marked, wake, sent, lost, faults>>

\* Whether there is something to say.  A digest needs battles of the week, and
\* only the table has them: the code asks the client for get_battle_log, which
\* it does not have, and swallows the AttributeError.
Found(u) == loop = "digest" => u \in Cached

\* A digest without battles is recorded unsent.
Examine(u) ==
    /\ \E todo \in SUBSET Users, n \in Due(u) \ marked :
         /\ Turn(u, todo)
         /\ Goto(IF Found(u)
                    THEN [pc |-> "send", todo |-> todo, note |-> n,
                          second |-> task.pc = "again"]
                    ELSE [pc |-> "mark", todo |-> todo, note |-> n, nr |-> 0])
    /\ UNCHANGED <<loop, clock, subs, marked, wake, sent, lost, faults>>

\* The database fails while a user is looked at.  The exception leaves the
\* cycle; at its second look the digest catches it.
ReadFails ==
    /\ Fault
    /\ \/ task.pc = "next" /\ task.todo # {} /\ Sleep
       \/ task.pc = "again" /\ Continue /\ UNCHANGED wake
    /\ UNCHANGED <<loop, clock, subs, marked, sent, lost>>

Deliver ==
    /\ task.pc = "send" /\ task.note.user \notin closed
    /\ sent' = Append(sent, task.note)
    /\ Goto([pc |-> "mark", todo |-> task.todo,
                note |-> task.note, nr |-> Len(sent')])
    /\ UNCHANGED <<loop, clock, subs, marked, wake, lost, faults>>

\* Mutant: a refused reminder is recorded like a refused digest.
RefusedGivesUp ==
    /\ task.pc = "send" /\ task.note.user \in closed
    /\ Goto([pc |-> "mark", todo |-> task.todo, note |-> task.note, nr |-> 0])
    /\ UNCHANGED <<loop, clock, subs, marked, wake, sent, lost, faults>>

\* TelegramForbiddenError: the digest gives the user up, a reminder does not.
Refused ==
    /\ task.pc = "send" /\ task.note.user \in closed
    /\ IF loop = "digest"
       THEN Goto([pc |-> "mark", todo |-> task.todo,
                     note |-> task.note, nr |-> 0])
       ELSE Continue
    /\ UNCHANGED <<loop, clock, subs, marked, wake, sent, lost, faults>>

\* An error; after a time-out the message may have arrived all the same.
SendFails ==
    /\ task.pc = "send" /\ Fault
    /\ \/ UNCHANGED <<sent, lost>>
       \/ /\ task.note.user \notin closed
          /\ sent' = Append(sent, task.note) /\ lost' = lost \cup {Len(sent')}
    /\ Continue
    /\ UNCHANGED <<loop, clock, subs, marked, wake>>

\* Mutant: the user is tried until Telegram gives in.
RetryForEver ==
    /\ task.pc = "send"
    /\ Goto(IF loop = "digest"
            THEN [pc |-> "again", todo |-> task.todo, user |-> task.note.user]
            ELSE [task EXCEPT !.second = TRUE])
    /\ UNCHANGED <<loop, clock, subs, marked, wake, sent, lost, faults>>

\* TelegramRetryAfter.  The digest starts the user over, a reminder is sent
\* again as it is; the second time the digest goes on with the next user, and
\* the exception ends the cycle of the reminders.
RetryAfter ==
    /\ task.pc = "send"
    /\ IF ~task.second
       THEN /\ NoFault
            /\ Goto(IF loop = "digest"
                       THEN [pc |-> "again", todo |-> task.todo,
                             user |-> task.note.user]
                       ELSE [task EXCEPT !.second = TRUE])
            /\ UNCHANGED wake
       ELSE /\ Fault
            /\ IF loop = "digest" THEN Continue /\ UNCHANGED wake ELSE Sleep
    /\ UNCHANGED <<loop, clock, subs, marked, sent, lost>>

\* Mutant: the row is added and never committed.
MarkUncommitted ==
    /\ task.pc = "mark" /\ Continue
    /\ UNCHANGED <<loop, clock, subs, marked, wake, sent, lost, faults>>

Mark ==
    /\ task.pc = "mark"
    /\ marked' = marked \cup {task.note}
    /\ Continue
    /\ UNCHANGED <<loop, clock, subs, wake, sent, lost, faults>>

\* The commit fails; the exception is swallowed.
MarkFails ==
    /\ task.pc = "mark" /\ Fault
    /\ lost' = lost \cup Unrecorded
    /\ Continue
    /\ UNCHANGED <<loop, clock, subs, marked, wake, sent>>

-----------------------------------------------------------------------------
\* The rest of the program, and the world.

Buy(u) ==
    /\ expires[u] < MaxTime
    /\ expires' = [expires EXCEPT ![u] = (IF @ > now THEN @ ELSE now) + PlanSlots]
    /\ plan' = [plan EXCEPT ![u] = "paid"]
    /\ UNCHANGED <<loop, clock, closed, marked, wake, task, sent, lost, faults>>

Block(u) ==
    /\ u \in Leavers \ closed /\ closed' = closed \cup {u}
    /\ UNCHANGED <<loop, clock, expires, plan, marked, wake, task, sent, lost, faults>>

Crash ==
    /\ up /\ Fault
    /\ up' = FALSE
    /\ task' = Asleep
    /\ lost' = lost \cup Unrecorded
    /\ UNCHANGED <<loop, now, subs, marked, wake, sent>>

\* Both loops run a cycle soon after the start.
Restart ==
    /\ ~up /\ up' = TRUE
    /\ wake' = now
    /\ UNCHANGED <<loop, now, subs, marked, task, sent, lost, faults>>

\* A slot without the process counts as a fault.
Tick ==
    /\ now < MaxTime /\ now' = now + 1
    /\ IF up THEN /\ task.pc = "asleep" /\ wake > now
                  /\ NoFault
             ELSE Fault
    /\ UNCHANGED <<loop, up, subs, marked, wake, task, sent, lost>>

Step ==
    \/ Wake \/ EndCycle
    \/ \E u \in Users : Skip(u) \/ Examine(u)
    \/ ReadFails \/ Deliver \/ Refused \/ SendFails \/ RetryAfter
    \/ Mark \/ MarkFails

Next ==
    \/ Step
    \/ \E u \in Users : Buy(u) \/ Block(u)
    \/ Crash \/ Restart \/ Tick

Spec == Init /\ [][Next]_vars

FairSpec ==
    /\ Spec
    /\ WF_vars(Step)
    /\ WF_vars(Restart) /\ WF_vars(Tick)

-----------------------------------------------------------------------------
Told(n) == \E i \in 1..Len(sent) : sent[i] = n

\* Nobody is told the same thing twice, except after a delivery that could not
\* be recorded: RetryAfter, errors, aborted cycles and restarts at any other
\* point repeat nothing (reminders.py:86-109, weekly_digest.py:575-600,637).
RepeatsOnlyUnrecorded ==
    \A i, j \in 1..Len(sent) :
        i # j /\ sent[i] = sent[j] => i \in lost \/ j \in lost

\* A reminder is recorded only if it was delivered: a user who has blocked the
\* bot, or whose message failed, is tried again (reminders.py:168-181).
RecordedReminderWasSent ==
    \A n \in marked : n.kind # "digest" => Told(n)

\* Once the window of a week is over, and fewer things failed than the window
\* has slots, no user with a tag and the setting on is still to be looked at, and
\* each of them whose battles the table has, and who has not blocked the bot, was
\* sent the digest (weekly_digest.py:626-769).  Nothing is promised to the others.
DigestServed == loop = "digest" =>
    \A u \in Linked \cap Notified, w \in 0..MaxTime :
        /\ w * SlotsPerWeek + WindowSlots <= now
        /\ faults < WindowSlots
        => LET n == [user |-> u, kind |-> "digest", key |-> w] IN
             /\ n \in marked
             /\ u \in Cached \ closed => Told(n)

\* The day on which u is reminded: a trial's last, a paid period's last but one.
Notice(u) == IF plan[u] = "trial" THEN SlotsPerDay ELSE 2 * SlotsPerDay

Reminder(u) ==
    [user |-> u, key |-> PeriodKey(expires[u]),
     kind |-> IF plan[u] = "trial" THEN "trial_last_day" ELSE "renew_2d"]

\* A subscriber was reminded once that day is over, if fewer things failed than
\* the day has slots: an aborted cycle leaves the other users to the next one
\* (reminders.py:130-203).  Periods that ended sooner after the start are not meant.
ReminderServed == loop = "reminders" =>
    \A u \in Notified \ closed :
        /\ expires[u] >= Notice(u)
        /\ now >= expires[u] - Notice(u) + SlotsPerDay
        /\ faults < SlotsPerDay
        => Told(Reminder(u))

\* Every cycle ends, whatever Telegram answers: a user costs two attempts at
\* most (reminders.py:168-181, weekly_digest.py:758-768).
CyclesEnd == task.pc # "asleep" ~> task.pc = "asleep"
=============================================================================
