------------------------- MODULE NotificationsProofs -------------------------
(***************************************************************************)
(* The types of Notifications, that only an unrecorded delivery is         *)
(* repeated, that a recorded reminder was delivered, and that no user is   *)
(* left out of a window in which less failed than it has slots.            *)
(***************************************************************************)
EXTENDS Notifications, Integers, TLAPS

\* The note in hand is not recorded yet, and belongs to the loop.
InHand ==
    task.pc \in {"send", "mark"} =>
        /\ task.note \notin marked
        /\ loop = "digest" <=> task.note.kind = "digest"

\* What is about to be recorded was delivered, unless it is a digest.
Delivered ==
    task.pc = "mark" =>
        \/ task.nr = 0 /\ task.note.kind = "digest"
        \/ task.nr \in 1..Len(sent) /\ sent[task.nr] = task.note

\* Every delivery is recorded, about to be, or lost.
Accounted ==
    \A i \in 1..Len(sent) :
        \/ i \in lost
        \/ sent[i] \in marked
        \/ task.pc = "mark" /\ task.nr = i

NotifyInv ==
    /\ TypeOK /\ InHand /\ Delivered /\ Accounted
    /\ RepeatsOnlyUnrecorded /\ RecordedReminderWasSent

-----------------------------------------------------------------------------
\* Floor division stays in the naturals.
LEMMA Quotient ==
    ASSUME NEW x \in Nat, NEW d \in Nat \ {0}
    PROVE  x \div d \in Nat
  OBVIOUS

LEMMA NextWakeType == TypeOK => NextWake \in Nat
<1> SUFFICES ASSUME TypeOK PROVE NextWake \in Nat
  OBVIOUS
<1>1. Week(now) \in Nat
  BY Quotient, NotifyAssumption DEF TypeOK, Week
<1>2. (Week(now) + 1) * SlotsPerWeek \in Nat
  BY <1>1, NotifyAssumption
<1>3. now + 1 \in Nat
  BY DEF TypeOK
<1> QED
  BY <1>2, <1>3 DEF NextWake

LEMMA DueIsNote ==
    ASSUME TypeOK, NEW u \in Users, NEW n \in Due(u)
    PROVE  n \in Note /\ (loop = "digest" <=> n.kind = "digest")
<1> USE NotifyAssumption
<1>1. Week(now) \in Nat /\ PeriodKey(expires[u]) \in Nat
  <2>1. expires[u] \in Nat /\ now \in Nat
    BY DEF TypeOK
  <2> QED
    BY <2>1, Quotient DEF Week, PeriodKey
<1>2. CASE loop = "digest"
  BY <1>1, <1>2 DEF Due, DueDigest, Note
<1>3. CASE loop # "digest"
  BY <1>1, <1>3 DEF Due, DueReminder, Note
<1> QED
  BY <1>2, <1>3

LEMMA NotifyInit == Init => NotifyInv
<1> SUFFICES ASSUME Init PROVE NotifyInv
  OBVIOUS
<1>1. TypeOK
  BY NotifyAssumption DEF Init, TypeOK, Task, Asleep
<1> QED
  BY <1>1 DEF Init, NotifyInv, InHand, Delivered, Accounted, Asleep,
             RepeatsOnlyUnrecorded, RecordedReminderWasSent

\* The steps that deliver and record nothing, and take up no note.
LEMMA NothingSaid ==
    ASSUME NotifyInv, TypeOK', UNCHANGED <<loop, marked, sent, lost>>,
           task' = task \/ task'.pc \in {"asleep", "next", "again"},
           task.pc # "mark" \/ task' = task
    PROVE  NotifyInv'
<1> USE DEF NotifyInv
<1>1. InHand' /\ Delivered'
  BY DEF InHand, Delivered
<1>2. Accounted'
  BY DEF Accounted
<1>3. RepeatsOnlyUnrecorded' /\ RecordedReminderWasSent'
  BY DEF RepeatsOnlyUnrecorded, RecordedReminderWasSent, Told
<1> QED
  BY <1>1, <1>2, <1>3

\* The delivery in hand, if any, is given up as unrecorded.
LEMMA GivingUp ==
    ASSUME NotifyInv, TypeOK', UNCHANGED <<loop, marked, sent>>,
           task'.pc \in {"asleep", "next"}, lost' = lost \cup Unrecorded
    PROVE  NotifyInv'
<1> USE DEF NotifyInv
<1>1. InHand' /\ Delivered'
  BY DEF InHand, Delivered
<1>2. Accounted'
  <2> SUFFICES ASSUME NEW i \in 1..Len(sent)
               PROVE  i \in lost' \/ sent[i] \in marked
    BY DEF Accounted
  <2>1. CASE task.pc = "mark" /\ task.nr = i
    BY <2>1 DEF Unrecorded
  <2> QED
    BY <2>1 DEF Accounted
<1>3. RepeatsOnlyUnrecorded' /\ RecordedReminderWasSent'
  BY DEF RepeatsOnlyUnrecorded, RecordedReminderWasSent, Told
<1> QED
  BY <1>1, <1>2, <1>3

\* A delivery of the note in hand, recorded later or never.
LEMMA Saying ==
    ASSUME NotifyInv, TypeOK', task.pc = "send",
           UNCHANGED <<loop, marked>>, sent' = Append(sent, task.note),
           \/ /\ lost' = lost /\ task'.pc = "mark"
              /\ task'.nr = Len(sent') /\ task'.note = task.note
           \/ lost' = lost \cup {Len(sent')} /\ task'.pc = "next"
    PROVE  NotifyInv'
<1> USE DEF NotifyInv
<1> DEFINE k == Len(sent) + 1
<1>1. /\ task.note \in Note /\ sent \in Seq(Note) /\ k \in Nat
      /\ Len(sent') = k /\ sent'[k] = task.note
      /\ \A i \in 1..Len(sent) : sent'[i] = sent[i]
  <2>1. task.note \in Note /\ sent \in Seq(Note)
    BY DEF TypeOK, Task, Asleep
  <2> QED
    BY <2>1
<1>2. 1..k = 1..Len(sent) \cup {k} /\ k \notin 1..Len(sent)
  BY <1>1
<1>3. InHand' /\ Delivered'
  BY <1>1, <1>2 DEF InHand, Delivered
<1>4. Accounted'
  BY <1>1, <1>2 DEF Accounted
<1>5. RepeatsOnlyUnrecorded'
  <2> SUFFICES ASSUME NEW i \in 1..k, NEW j \in 1..k, i # j, sent'[i] = sent'[j]
               PROVE  i \in lost' \/ j \in lost'
    BY <1>1 DEF RepeatsOnlyUnrecorded
  <2>1. lost \subseteq lost'
    OBVIOUS
  <2>2. \A h \in 1..Len(sent) : sent[h] = task.note => h \in lost
    BY DEF Accounted, InHand
  <2> QED
    BY <1>1, <1>2, <2>1, <2>2 DEF RepeatsOnlyUnrecorded
<1>6. RecordedReminderWasSent'
  BY <1>1, <1>2 DEF RecordedReminderWasSent, Told
<1> QED
  BY <1>3, <1>4, <1>5, <1>6

-----------------------------------------------------------------------------
LEMMA TypeStep == TypeOK /\ Delivered /\ [Next]_vars => TypeOK'
<1> SUFFICES ASSUME TypeOK, Delivered, [Next]_vars PROVE TypeOK'
  OBVIOUS
<1> USE NotifyAssumption DEF Goto, Continue, Fault, NoFault, subs, clock
<1>1. faults + 1 \in Nat
  BY DEF TypeOK
<1>0. Unrecorded \subseteq 1..Len(sent)
  BY DEF Unrecorded, Delivered
<1>2. CASE Wake
  <2>1. Eligible \subseteq Users
    BY DEF Eligible
  <2> QED
    BY <1>2, <2>1 DEF Wake, TypeOK, Task
<1>3. CASE EndCycle
  BY <1>3, NextWakeType DEF EndCycle, Sleep, TypeOK, Task
<1>4. ASSUME NEW u \in Users, Skip(u) PROVE TypeOK'
  BY <1>4 DEF Skip, TypeOK, Task
<1>5. ASSUME NEW u \in Users, Examine(u) PROVE TypeOK'
  <2>1. PICK todo \in SUBSET Users, n \in Due(u) \ marked :
          Goto(IF Found(u)
                    THEN [pc |-> "send", todo |-> todo, note |-> n,
                          second |-> task.pc = "again"]
                    ELSE [pc |-> "mark", todo |-> todo, note |-> n, nr |-> 0])
    BY <1>5 DEF Examine
  <2>2. n \in Note
    BY DueIsNote
  <2>3. task' \in Task
    BY <2>1, <2>2 DEF Task
  <2> QED
    BY <1>5, <2>3 DEF Examine, TypeOK, Task
<1>6. CASE ReadFails
  BY <1>1, <1>6, NextWakeType DEF ReadFails, Sleep, TypeOK, Task, Asleep
<1>7. CASE Deliver
  BY <1>7 DEF Deliver, TypeOK, Task, Asleep
<1>8. CASE Refused
  BY <1>8 DEF Refused, TypeOK, Task, Asleep
<1>9. CASE SendFails
  <2>1. task.note \in Note /\ task.todo \in SUBSET Users /\ sent \in Seq(Note)
    BY <1>9 DEF SendFails, TypeOK, Task, Asleep
  <2>2. sent' \in Seq(Note) /\ lost' \subseteq 1..Len(sent')
    <3>1. CASE UNCHANGED <<sent, lost>>
      BY <3>1 DEF TypeOK
    <3>2. CASE sent' = Append(sent, task.note) /\ lost' = lost \cup {Len(sent')}
      <4>1. sent' \in Seq(Note) /\ Len(sent') = Len(sent) + 1 /\ Len(sent) \in Nat
        BY <2>1, <3>2
      <4>2. lost \subseteq 1..Len(sent) /\ lost' = lost \cup {Len(sent) + 1}
        BY <3>2, <4>1 DEF TypeOK
      <4>3. 1..(Len(sent) + 1) = 1..Len(sent) \cup {Len(sent) + 1}
        BY <4>1
      <4>4. lost' \subseteq 1..(Len(sent) + 1)
        BY <4>2, <4>3
      <4> QED
        BY <4>1, <4>4
    <3> QED
      BY <1>9, <3>1, <3>2 DEF SendFails
  <2> QED
    BY <1>1, <1>9, <2>1, <2>2 DEF SendFails, TypeOK, Task
<1>10. CASE RetryAfter
  <2>1. task.note \in Note /\ task.note.user \in Users /\ task.todo \in SUBSET Users
    BY <1>10 DEF RetryAfter, TypeOK, Task, Asleep, Note
  <2>2. task' \in Task
    <3>1. CASE ~task.second /\ loop # "digest"
      <4>1. task' = [task EXCEPT !.second = TRUE]
        BY <1>10, <3>1 DEF RetryAfter
      <4>2. task \in [pc : {"send"}, todo : SUBSET Users, note : Note,
                      second : BOOLEAN]
        BY <1>10 DEF RetryAfter, TypeOK, Task, Asleep
      <4> QED
        BY <4>1, <4>2 DEF Task
    <3>2. CASE task.second \/ loop = "digest"
      BY <1>10, <2>1, <3>2 DEF RetryAfter, Sleep, Task
    <3> QED
      BY <3>1, <3>2
  <2>3. wake' \in Nat /\ faults' \in Nat
    BY <1>1, <1>10, NextWakeType DEF RetryAfter, Sleep, TypeOK
  <2> QED
    BY <1>10, <2>2, <2>3 DEF RetryAfter, TypeOK, Task
<1>11. CASE Mark
  BY <1>11 DEF Mark, TypeOK, Task, Asleep
<1>12. CASE MarkFails
  <2>1. lost' \subseteq 1..Len(sent)
    BY <1>0, <1>12 DEF MarkFails, TypeOK
  <2> QED
    BY <1>1, <1>12, <2>1 DEF MarkFails, TypeOK, Task, Asleep
<1>13. ASSUME NEW u \in Users, Buy(u) PROVE TypeOK'
  BY <1>13 DEF Buy, TypeOK, Task
<1>14. ASSUME NEW u \in Users, Block(u) PROVE TypeOK'
  BY <1>14 DEF Block, TypeOK, Task
<1>15. CASE Crash
  BY <1>0, <1>1, <1>15 DEF Crash, TypeOK, Task
<1>16. CASE Restart
  BY <1>16 DEF Restart, TypeOK, Task
<1>17. CASE Tick
  BY <1>1, <1>17 DEF Tick, TypeOK, Task
<1>18. CASE UNCHANGED vars
  BY <1>18 DEF vars, TypeOK, Task
<1> QED
  BY <1>2, <1>3, <1>4, <1>5, <1>6, <1>7, <1>8, <1>9, <1>10, <1>11, <1>12,
     <1>13, <1>14, <1>15, <1>16, <1>17, <1>18 DEF Next, Step

LEMMA NotifyStep == NotifyInv /\ [Next]_vars => NotifyInv'
<1> SUFFICES ASSUME NotifyInv, [Next]_vars PROVE NotifyInv'
  OBVIOUS
<1>1. TypeOK'
  BY TypeStep DEF NotifyInv
<1> USE DEF Goto, Continue
<1>2. CASE Wake
  BY <1>1, <1>2, NothingSaid DEF Wake
<1>3. CASE EndCycle
  BY <1>1, <1>3, NothingSaid DEF EndCycle, Sleep, Asleep
<1>4. ASSUME NEW u \in Users, Skip(u) PROVE NotifyInv'
  BY <1>1, <1>4, NothingSaid DEF Skip, Turn
<1>5. ASSUME NEW u \in Users, Examine(u) PROVE NotifyInv'
  <2>1. PICK todo \in SUBSET Users, n \in Due(u) \ marked :
          /\ Turn(u, todo)
          /\ Goto(IF Found(u)
                    THEN [pc |-> "send", todo |-> todo, note |-> n,
                          second |-> task.pc = "again"]
                    ELSE [pc |-> "mark", todo |-> todo, note |-> n, nr |-> 0])
    BY <1>5 DEF Examine
  <2>2. n \in Note /\ n \notin marked /\ (loop = "digest" <=> n.kind = "digest")
    BY DueIsNote DEF NotifyInv
  <2>3. task.pc \in {"next", "again"} /\ UNCHANGED <<loop, marked, sent, lost>>
    BY <1>5, <2>1 DEF Examine, Turn
  <2>4. \/ task'.pc = "send" /\ task'.note = n
        \/ /\ task'.pc = "mark" /\ task'.note = n /\ task'.nr = 0
           /\ loop = "digest"
    BY <2>1 DEF Found
  <2>5. InHand' /\ Delivered'
    BY <2>2, <2>3, <2>4 DEF InHand, Delivered
  <2>6. Accounted' /\ RepeatsOnlyUnrecorded' /\ RecordedReminderWasSent'
    BY <2>3 DEF NotifyInv, Accounted, RepeatsOnlyUnrecorded,
                RecordedReminderWasSent, Told
  <2> QED
    BY <1>1, <2>5, <2>6 DEF NotifyInv
<1>6. CASE ReadFails
  BY <1>1, <1>6, NothingSaid DEF ReadFails, Sleep, Asleep
<1>7. CASE Deliver
  BY <1>1, <1>7, Saying DEF Deliver
<1>8. CASE Refused
  <2>1. CASE loop = "digest"
    <3>1. /\ task.pc = "send" /\ UNCHANGED <<loop, marked, sent, lost>>
          /\ task'.pc = "mark" /\ task'.note = task.note /\ task'.nr = 0
      BY <1>8, <2>1 DEF Refused
    <3>2. InHand' /\ Delivered'
      BY <2>1, <3>1 DEF NotifyInv, InHand, Delivered
    <3>3. Accounted' /\ RepeatsOnlyUnrecorded' /\ RecordedReminderWasSent'
      BY <3>1 DEF NotifyInv, Accounted, RepeatsOnlyUnrecorded,
                  RecordedReminderWasSent, Told
    <3> QED
      BY <1>1, <3>2, <3>3 DEF NotifyInv
  <2>2. CASE loop # "digest"
    BY <1>1, <1>8, <2>2, NothingSaid DEF Refused
  <2> QED
    BY <2>1, <2>2
<1>9. CASE SendFails
  <2>1. CASE UNCHANGED <<sent, lost>>
    BY <1>1, <1>9, <2>1, NothingSaid DEF SendFails
  <2>2. CASE sent' = Append(sent, task.note) /\ lost' = lost \cup {Len(sent')}
    BY <1>1, <1>9, <2>2, Saying DEF SendFails
  <2> QED
    BY <1>9, <2>1, <2>2 DEF SendFails
<1>10. CASE RetryAfter
  <2>1. CASE ~task.second /\ loop # "digest"
    <3>1. /\ task'.pc = "send" /\ task'.note = task.note
          /\ task.pc = "send" /\ UNCHANGED <<loop, marked, sent, lost>>
      <4>1. task \in [pc : {"send"}, todo : SUBSET Users, note : Note,
                      second : BOOLEAN]
        BY <1>10 DEF RetryAfter, NotifyInv, TypeOK, Task, Asleep
      <4> QED
        BY <1>10, <2>1, <4>1 DEF RetryAfter
    <3>2. InHand' /\ Delivered'
      BY <3>1 DEF NotifyInv, InHand, Delivered
    <3>3. Accounted' /\ RepeatsOnlyUnrecorded' /\ RecordedReminderWasSent'
      BY <3>1 DEF NotifyInv, Accounted, RepeatsOnlyUnrecorded,
                  RecordedReminderWasSent, Told
    <3> QED
      BY <1>1, <3>2, <3>3 DEF NotifyInv
  <2>2. CASE task.second \/ loop = "digest"
    <3>1. /\ task.pc = "send" /\ UNCHANGED <<loop, marked, sent, lost>>
          /\ task'.pc \in {"asleep", "next", "again"}
      BY <1>10, <2>2 DEF RetryAfter, Sleep, Asleep
    <3> QED
      BY <1>1, <3>1, NothingSaid
  <2> QED
    BY <2>1, <2>2
<1>11. CASE Mark
  <2>1. /\ task.pc = "mark" /\ task'.pc = "next"
        /\ marked' = marked \cup {task.note}
        /\ UNCHANGED <<loop, sent, lost>>
    BY <1>11 DEF Mark
  <2>2. InHand' /\ Delivered' /\ RepeatsOnlyUnrecorded'
    BY <2>1 DEF NotifyInv, InHand, Delivered, RepeatsOnlyUnrecorded
  <2>3. Accounted'
    BY <2>1 DEF NotifyInv, Accounted, Delivered
  <2>4. RecordedReminderWasSent'
    BY <2>1 DEF NotifyInv, RecordedReminderWasSent, Told, Delivered
  <2> QED
    BY <1>1, <2>2, <2>3, <2>4 DEF NotifyInv
<1>12. CASE MarkFails
  BY <1>1, <1>12, GivingUp DEF MarkFails
<1>13. ASSUME NEW u \in Users, Buy(u) PROVE NotifyInv'
  BY <1>1, <1>13, NothingSaid DEF Buy
<1>14. ASSUME NEW u \in Users, Block(u) PROVE NotifyInv'
  BY <1>1, <1>14, NothingSaid DEF Block
<1>15. CASE Crash
  BY <1>1, <1>15, GivingUp DEF Crash, Asleep
<1>16. CASE Restart
  BY <1>1, <1>16, NothingSaid DEF Restart
<1>17. CASE Tick
  BY <1>1, <1>17, NothingSaid DEF Tick
<1>18. CASE UNCHANGED vars
  BY <1>1, <1>18, NothingSaid DEF vars
<1> QED
  BY <1>2, <1>3, <1>4, <1>5, <1>6, <1>7, <1>8, <1>9, <1>10, <1>11, <1>12,
     <1>13, <1>14, <1>15, <1>16, <1>17, <1>18 DEF Next, Step

-----------------------------------------------------------------------------
\* The invariant of the announcements: the note in hand is not recorded, and
\* every delivery is recorded, about to be recorded, or lost.
THEOREM NotifyInvariant == Spec => []NotifyInv
<1>1. Init => NotifyInv
  BY NotifyInit
<1>2. NotifyInv /\ [Next]_vars => NotifyInv'
  BY NotifyStep
<1> QED
  BY <1>1, <1>2, PTL DEF Spec

\* Every variable keeps its type, whatever Telegram and the database answer.
THEOREM NotifyTypeCorrect == Spec => []TypeOK
<1>1. NotifyInv => TypeOK
  BY DEF NotifyInv
<1> QED
  BY <1>1, NotifyInvariant, PTL

\* reminders.py:86-109, weekly_digest.py:575-600: a second message about the
\* same period or week follows only a delivery that could not be recorded, for
\* any number of users, restarts, errors and cycles.
THEOREM OnlyUnrecordedRepeat == Spec => []RepeatsOnlyUnrecorded
<1>1. NotifyInv => RepeatsOnlyUnrecorded
  BY DEF NotifyInv
<1> QED
  BY <1>1, NotifyInvariant, PTL

\* reminders.py:168-181: a reminder that is recorded was delivered.
THEOREM RecordedRemindersSent == Spec => []RecordedReminderWasSent
<1>1. NotifyInv => RecordedReminderWasSent
  BY DEF NotifyInv
<1> QED
  BY <1>1, NotifyInvariant, PTL
-----------------------------------------------------------------------------
\* Weeks and days as quotients.

LEMMA Division ==
    ASSUME NEW x \in Nat, NEW d \in Nat, d > 0
    PROVE  /\ x \div d \in Nat /\ x % d \in 0..(d - 1)
           /\ x = d * (x \div d) + (x % d)
<1>1. x = d * (x \div d) + (x % d)
  OBVIOUS
<1>2. x \div d \in Nat /\ x % d \in 0..(d - 1)
  OBVIOUS
<1> QED
  BY <1>1, <1>2

LEMMA MultiplesApart ==
    ASSUME NEW a \in Int, NEW b \in Int, NEW d \in Nat, a < b
    PROVE  d * a + d <= d * b
<1>1. b - a - 1 \in Nat
  OBVIOUS
<1>2. d * (b - a - 1) >= 0
  BY <1>1
<1>3. d * (b - a - 1) = d * b - d * a - d
  OBVIOUS
<1> QED
  BY <1>2, <1>3

LEMMA DivisionUnique ==
    ASSUME NEW x \in Nat, NEW d \in Nat, d > 0,
           NEW q \in Nat, NEW r \in 0..(d - 1), x = d * q + r
    PROVE  x \div d = q /\ x % d = r
<1>1. x \div d \in Nat /\ x % d \in 0..(d - 1) /\ x = d * (x \div d) + (x % d)
  BY Division
<1>2. CASE x \div d < q
  <2>1. d * (x \div d) + d <= d * q
    BY <1>1, <1>2, MultiplesApart
  <2> QED
    BY <1>1, <2>1
<1>3. CASE q < x \div d
  <2>1. d * q + d <= d * (x \div d)
    BY <1>1, <1>3, MultiplesApart
  <2> QED
    BY <1>1, <2>1
<1> QED
  BY <1>1, <1>2, <1>3

\* The slots of a week's window.
LEMMA WindowOfWeek ==
    ASSUME NEW w \in Nat, NEW t \in Nat, t - w * SlotsPerWeek \in 0..(WindowSlots - 1)
    PROVE  Week(t) = w /\ InWindow(t)
<1>1. SlotsPerWeek \in Nat /\ SlotsPerWeek > 0 /\ WindowSlots \in Nat /\ WindowSlots < SlotsPerWeek
  BY NotifyAssumption
<1> DEFINE r == t - w * SlotsPerWeek
<1>2. w * SlotsPerWeek = SlotsPerWeek * w /\ w * SlotsPerWeek \in Nat
  BY <1>1
<1>3. r \in 0..(SlotsPerWeek - 1) /\ t = SlotsPerWeek * w + r /\ r < WindowSlots
  BY <1>1, <1>2
<1> HIDE DEF r
<1>4. t \div SlotsPerWeek = w /\ t % SlotsPerWeek = r
  BY <1>1, <1>3, DivisionUnique
<1> QED
  BY <1>3, <1>4 DEF Week, InWindow

\* What is left of a week after its window has no window.
LEMMA RestOfWeek ==
    ASSUME NEW t \in Nat, ~InWindow(t), NEW s \in Nat,
           t < s, s < (Week(t) + 1) * SlotsPerWeek
    PROVE  ~InWindow(s)
<1>1. SlotsPerWeek \in Nat /\ SlotsPerWeek > 0 /\ WindowSlots \in Nat
  BY NotifyAssumption
<1> DEFINE q == t \div SlotsPerWeek
           r == t % SlotsPerWeek
           p == SlotsPerWeek * q
<1>2. q \in Nat /\ r \in 0..(SlotsPerWeek - 1) /\ t = p + r
  BY <1>1, Division
<1>3. s < (q + 1) * SlotsPerWeek /\ r >= WindowSlots
  BY <1>1, <1>2 DEF Week, InWindow
<1> HIDE DEF q, r
<1>4. (q + 1) * SlotsPerWeek = p + SlotsPerWeek /\ p \in Nat
  BY <1>1, <1>2
<1>5. s - p \in 0..(SlotsPerWeek - 1) /\ s = p + (s - p) /\ s - p >= WindowSlots
  BY <1>1, <1>2, <1>3, <1>4
<1>6. s % SlotsPerWeek = s - p
  <2>1. \A x \in 0..(SlotsPerWeek - 1) : s = SlotsPerWeek * q + x => s % SlotsPerWeek = x
    BY <1>1, <1>2, DivisionUnique
  <2> QED
    BY <1>5, <2>1
<1> QED
  BY <1>1, <1>4, <1>5, <1>6 DEF InWindow

\* A reminder is due through the day on which it is given.
LEMMA DayOfNotice ==
    ASSUME TypeOK, NEW u \in Users, expires[u] >= Notice(u),
           now - (expires[u] - Notice(u)) \in 0..(SlotsPerDay - 1)
    PROVE  expires[u] > now /\ DaysLeft(u) = IF plan[u] = "trial" THEN 1 ELSE 2
<1>1. /\ SlotsPerDay \in Nat /\ SlotsPerDay > 0
      /\ now \in Nat /\ expires[u] \in Nat
  BY NotifyAssumption DEF TypeOK
<1> DEFINE x == expires[u] - now
<1>2. CASE plan[u] = "trial"
  <2>1. x \in 1..SlotsPerDay
    BY <1>1, <1>2 DEF Notice
  <2>2. /\ x + SlotsPerDay - 1 = SlotsPerDay * 1 + (x - 1)
        /\ x - 1 \in 0..(SlotsPerDay - 1) /\ x + SlotsPerDay - 1 \in Nat
    BY <1>1, <2>1
  <2>3. (x + SlotsPerDay - 1) \div SlotsPerDay = 1
    BY ONLY <1>1, <2>2, DivisionUnique
  <2> QED
    BY <1>1, <1>2, <2>1, <2>3 DEF DaysLeft
<1>3. CASE plan[u] # "trial"
  <2>1. x \in (SlotsPerDay + 1)..(2 * SlotsPerDay)
    BY <1>1, <1>3 DEF Notice
  <2>2. /\ x + SlotsPerDay - 1 = SlotsPerDay * 2 + (x - 1 - SlotsPerDay)
        /\ x - 1 - SlotsPerDay \in 0..(SlotsPerDay - 1) /\ x + SlotsPerDay - 1 \in Nat
    BY <1>1, <2>1
  <2>3. (x + SlotsPerDay - 1) \div SlotsPerDay = 2
    BY ONLY <1>1, <2>2, DivisionUnique
  <2> QED
    BY <1>1, <1>3, <2>1, <2>3 DEF DaysLeft
<1> QED
  BY <1>2, <1>3

-----------------------------------------------------------------------------
\* Every announcement is chased through its window: in each slot of it either
\* it is recorded, or something failed in every slot so far, or the loop has
\* it still ahead.

\* The loop will come to n, for u, in this slot.
Pending(u, n) ==
    \/ up /\ task.pc = "asleep" /\ wake <= now
    \/ task.pc # "asleep" /\ u \in task.todo
    \/ task.pc = "again" /\ task.user = u
    \/ task.pc \in {"send", "mark"} /\ task.note = n

Chased(u, n, k) ==
    \/ n \in marked
    \/ faults > k
    \/ faults = k /\ Pending(u, n)

\* The window of n has the given number of slots, from slot start on.
Timely(u, n, start, slots) ==
    /\ now - start < slots => Chased(u, n, now - start)
    /\ now - start >= slots => n \in marked \/ faults >= slots

\* The loop sleeps through no slot in which it has something to do.
OnTime == \A t \in (now + 1)..(wake - 1) : loop = "digest" /\ ~InWindow(t)

Running == task.pc # "asleep" => up

Digest(u, w) == [user |-> u, kind |-> "digest", key |-> w]

DigestsTimely ==
    loop = "digest" => \A u \in Linked \cap Notified, w \in Nat :
        Timely(u, Digest(u, w), w * SlotsPerWeek, WindowSlots)

RemindersTimely ==
    loop = "reminders" => \A u \in Notified \ closed :
        expires[u] >= Notice(u) =>
            Timely(u, Reminder(u), expires[u] - Notice(u), SlotsPerDay)

\* A digest is recorded unsent for users who have blocked the bot, or whose battles
\* the table lacks.
GivenUp(n) == n.user \in closed \/ n.user \notin Cached
DigestsGivenUp ==
    /\ loop = "digest" => \A n \in marked : Told(n) \/ GivenUp(n)
    /\ task.pc = "mark" /\ task.nr = 0 => GivenUp(task.note)

ServiceInv ==
    /\ NotifyInv /\ Running /\ OnTime
    /\ DigestsTimely /\ RemindersTimely /\ DigestsGivenUp

-----------------------------------------------------------------------------
\* Nothing is forgotten, and faults come one at a time.
LEMMA Monotone ==
    ASSUME NotifyInv, [Next]_vars
    PROVE  /\ marked \subseteq marked' /\ closed \subseteq closed'
           /\ faults \in Nat /\ faults' \in {faults, faults + 1}
           /\ loop' = loop
<1> USE DEF Fault, NoFault, subs, clock
<1>1. faults \in Nat
  BY DEF NotifyInv, TypeOK
<1> QED
  BY <1>1 DEF Next, Step, Wake, EndCycle, Skip, Examine, ReadFails, Deliver,
     Refused, SendFails, RetryAfter, Mark, MarkFails, Buy, Block, Crash, Restart,
     Tick, vars

LEMMA RunningStep == NotifyInv /\ Running /\ [Next]_vars => Running'
<1> SUFFICES ASSUME NotifyInv, Running, [Next]_vars PROVE Running'
  OBVIOUS
<1> USE DEF Running, Goto, Continue, Sleep, Turn, Asleep, subs, clock
<1>1. ASSUME NEW u \in Users, Skip(u) \/ Examine(u) PROVE Running'
  BY <1>1 DEF Skip, Examine
<1> QED
  BY <1>1 DEF Next, Step, Wake, EndCycle, ReadFails, Deliver,
     Refused, SendFails, RetryAfter, Mark, MarkFails, Buy, Block, Crash, Restart,
     Tick, vars

\* A nap ends before the next slot with something to do.
LEMMA NapIsShort ==
    ASSUME TypeOK, NEW t \in (now + 1)..(NextWake - 1)
    PROVE  loop = "digest" /\ ~InWindow(t)
<1>1. now \in Nat
  BY DEF TypeOK
<1>2. CASE loop = "digest" /\ ~InWindow(now)
  <2>1. NextWake = (Week(now) + 1) * SlotsPerWeek /\ NextWake \in Nat
    BY <1>2, NextWakeType DEF NextWake
  <2>2. t \in Nat /\ now < t /\ t < (Week(now) + 1) * SlotsPerWeek
    BY <1>1, <2>1
  <2> QED
    BY <1>1, <1>2, <2>2, RestOfWeek
<1>3. CASE ~(loop = "digest" /\ ~InWindow(now))
  BY <1>1, <1>3 DEF NextWake
<1> QED
  BY <1>2, <1>3

LEMMA OnTimeStep == NotifyInv /\ OnTime /\ [Next]_vars => OnTime'
<1> SUFFICES ASSUME NotifyInv, OnTime, [Next]_vars PROVE OnTime'
  OBVIOUS
<1>1. now \in Nat /\ wake \in Nat /\ loop' = loop
  BY Monotone DEF NotifyInv, TypeOK
<1>2. CASE now' = now /\ wake' = wake
  BY <1>1, <1>2 DEF OnTime
<1>3. CASE now' = now /\ wake' = NextWake
  BY <1>1, <1>3, NapIsShort DEF OnTime, NotifyInv
<1>4. CASE now' = now /\ wake' = now
  BY <1>1, <1>4 DEF OnTime
<1>5. CASE now' = now + 1 /\ wake' = wake
  BY <1>1, <1>5 DEF OnTime
<1> QED
  BY <1>2, <1>3, <1>4, <1>5 DEF Next, Step, Wake, EndCycle, Skip, Examine, ReadFails,
     Deliver, Refused, SendFails, RetryAfter, Mark, MarkFails, Buy, Block, Crash,
     Restart, Tick, vars, clock, Sleep

-----------------------------------------------------------------------------
\* Within a slot the loop loses the announcement only to a fault.
LEMMA ChaseKept ==
    ASSUME NotifyInv, Running, [Next]_vars, NEW u \in Users, NEW n, n.user = u,
           NEW k \in Int, Chased(u, n, k), ~Tick,
           k >= 0 => /\ Due(u) = {n} /\ u \in Eligible
                     /\ loop = "digest" \/ u \notin closed
    PROVE  Chased(u, n, k)'
<1>1. /\ marked \subseteq marked' /\ faults \in Nat
      /\ faults' \in {faults, faults + 1} /\ loop' = loop
  BY Monotone
<1>2. CASE n \in marked \/ faults > k \/ faults' = faults + 1
  BY <1>1, <1>2 DEF Chased
<1>3. CASE n \notin marked /\ faults = k /\ faults' = faults
  <2>1. Pending(u, n) /\ Due(u) = {n} /\ u \in Eligible /\ (loop = "digest" \/ u \notin closed)
    BY <1>1, <1>3 DEF Chased
  <2>2. ~Fault
    BY <1>1, <1>3 DEF Fault
  <2> SUFFICES Pending(u, n)' \/ n \in marked'
    BY <1>1, <1>3 DEF Chased
  <2> USE <2>1, <2>2 DEF Pending, Goto, Continue, subs, clock, Asleep, Running
  <2>3. CASE Wake
    BY <2>3 DEF Wake
  <2>4. CASE EndCycle
    BY <2>4 DEF EndCycle
  <2>5. ASSUME NEW v \in Users, Skip(v) PROVE Pending(u, n)'
    BY <1>3, <2>5 DEF Skip, Turn
  <2>6. ASSUME NEW v \in Users, Examine(v) PROVE Pending(u, n)'
    <3>1. PICK todo \in SUBSET Users, m \in Due(v) \ marked :
            /\ Turn(v, todo)
            /\ Goto(IF Found(v)
                      THEN [pc |-> "send", todo |-> todo, note |-> m,
                            second |-> task.pc = "again"]
                      ELSE [pc |-> "mark", todo |-> todo, note |-> m, nr |-> 0])
      BY <2>6 DEF Examine
    <3>2. task'.pc \in {"send", "mark"} /\ task'.todo = todo /\ task'.note = m
      BY <3>1
    <3>3. v = u \/ u \in todo
      BY <3>1 DEF Turn
    <3> QED
      BY <3>2, <3>3
  <2>7. CASE ReadFails
    BY <2>7 DEF ReadFails
  <2>8. CASE Deliver
    BY <2>8 DEF Deliver
  <2>9. CASE Refused
    BY <2>9 DEF Refused
  <2>10. CASE SendFails
    BY <2>10 DEF SendFails
  <2>11. CASE RetryAfter
    <3>1. task.pc = "send" /\ ~task.second
      BY <2>11 DEF RetryAfter
    <3>2. CASE loop = "digest"
      BY <2>11, <3>1, <3>2 DEF RetryAfter
    <3>3. CASE loop # "digest"
      <4>1. task \in [pc : {"send"}, todo : SUBSET Users, note : Note,
                      second : BOOLEAN]
        BY <3>1 DEF NotifyInv, TypeOK, Task
      <4> QED
        BY <2>11, <3>1, <3>3, <4>1 DEF RetryAfter
    <3> QED
      BY <3>2, <3>3
  <2>12. CASE Mark
    BY <2>12 DEF Mark
  <2>13. CASE MarkFails
    BY <2>13 DEF MarkFails
  <2>14. ASSUME NEW v \in Users, Buy(v) \/ Block(v) PROVE Pending(u, n)'
    BY <2>14 DEF Buy, Block
  <2>15. CASE Crash
    BY <2>15 DEF Crash
  <2>16. CASE Restart
    <3>1. now \in Nat
      BY DEF NotifyInv, TypeOK
    <3> QED
      BY <2>16, <3>1 DEF Restart
  <2>17. CASE UNCHANGED vars
    BY <2>17 DEF vars
  <2> QED
    BY <2>3, <2>4, <2>5, <2>6, <2>7, <2>8, <2>9, <2>10, <2>11, <2>12, <2>13, <2>14,
       <2>15, <2>16, <2>17 DEF Next, Step
<1> QED
  BY <1>1, <1>2, <1>3 DEF Chased

\* From one slot to the next: what was not recorded met a fault, and in the new
\* slot, if the loop is not late, it is ahead again.
LEMMA ChaseTick ==
    ASSUME NotifyInv, Running, Tick, NEW u, NEW n, NEW k \in Int, k >= -1,
           Chased(u, n, k)
    PROVE  /\ n \in marked' \/ faults' >= k + 1
           /\ wake <= now + 1 => Chased(u, n, k + 1)'
<1>1. /\ faults \in Nat /\ now \in Nat /\ wake \in Nat
      /\ now' = now + 1 /\ UNCHANGED <<marked, task, wake, up>>
  BY DEF NotifyInv, TypeOK, Tick, subs
<1>2. CASE up
  <2>1. task.pc = "asleep" /\ wake > now /\ faults' = faults
    BY <1>2 DEF Tick, NoFault
  <2>2. n \in marked \/ faults > k
    BY <1>1, <2>1 DEF Chased, Pending
  <2> QED
    BY <1>1, <1>2, <2>1, <2>2 DEF Chased, Pending
<1>3. CASE ~up
  <2>1. faults' = faults + 1 /\ task.pc = "asleep"
    BY <1>3 DEF Tick, Fault, Running
  <2>2. n \in marked \/ faults > k
    BY <1>1, <1>3, <2>1 DEF Chased, Pending
  <2> QED
    BY <1>1, <2>1, <2>2 DEF Chased
<1> QED
  BY <1>2, <1>3

\* While the window is open, the loop has n for u; it keeps its time.
LEMMA TimelyKept ==
    ASSUME NotifyInv, Running, OnTime, [Next]_vars,
           NEW u \in Users, NEW n, n.user = u,
           NEW start \in Int, NEW slots \in Nat,
           Timely(u, n, start, slots),
           now - start \in 0..(slots - 1) =>
               /\ Due(u) = {n} /\ u \in Eligible
               /\ loop = "digest" \/ u \notin closed,
           now + 1 - start \in 0..(slots - 1) => loop # "digest" \/ InWindow(now + 1)
    PROVE  Timely(u, n, start, slots)'
<1>1. /\ marked \subseteq marked' /\ faults \in Nat /\ now \in Nat /\ wake \in Nat
      /\ faults' \in {faults, faults + 1}
  BY Monotone DEF NotifyInv, TypeOK
<1> DEFINE k == now - start
<1>2. k \in Int
  BY <1>1
<1>3. CASE ~Tick
  <2>1. now' = now
    BY <1>3 DEF Next, Step, Wake, EndCycle, Skip, Examine, ReadFails,
       Deliver, Refused, SendFails, RetryAfter, Mark, MarkFails, Buy, Block, Crash,
       Restart, vars, clock
  <2>2. ASSUME k >= slots PROVE n \in marked' \/ faults' >= slots
    BY <1>1, <2>2 DEF Timely
  <2>3. ASSUME k < slots PROVE Chased(u, n, k)'
    <3>1. PICK j \in Int : j = k
      BY <1>2
    <3>2. Chased(u, n, j) /\ (j >= 0 => j \in 0..(slots - 1))
      BY <2>3, <3>1 DEF Timely
    <3>3. Chased(u, n, j)'
      BY <1>3, <3>1, <3>2, ChaseKept
    <3> QED
      BY <2>1, <3>1, <3>3 DEF Chased
  <2> QED
    BY <2>1, <2>2, <2>3 DEF Timely
<1>4. CASE Tick
  <2>1. now' = now + 1 /\ wake' = wake /\ marked' = marked
    BY <1>4 DEF Tick
  <2>2. CASE k >= slots
    BY <1>1, <1>2, <2>1, <2>2 DEF Timely
  <2>3. CASE k < slots /\ k < -1
    <3>1. now' - start \in Int /\ now' - start < 0
      BY <1>1, <2>1, <2>3
    <3> QED
      BY <1>1, <2>1, <2>3, <3>1 DEF Timely, Chased
  <2>4. CASE k < slots /\ k >= -1
    <3>1. PICK j \in Int : j = k
      BY <1>2
    <3>2. Chased(u, n, j) /\ j >= -1 /\ j < slots
      BY <2>4, <3>1 DEF Timely
    <3>3. /\ n \in marked' \/ faults' >= j + 1
          /\ wake <= now + 1 => Chased(u, n, j + 1)'
      BY <1>4, <3>2, ChaseTick
    <3>4. now' - start = j + 1
      BY <1>1, <2>1, <3>1
    <3>5. CASE j + 1 >= slots
      BY <1>1, <3>2, <3>3, <3>4, <3>5 DEF Timely
    <3>6. CASE j + 1 < slots
      <4>1. loop # "digest" \/ InWindow(now + 1)
        <5>1. now + 1 - start = j + 1 /\ j + 1 \in 0..(slots - 1)
          BY <1>1, <3>1, <3>2, <3>6
        <5> QED
          BY <5>1
      <4>2. wake <= now + 1
        BY <1>1, <4>1 DEF OnTime
      <4> QED
        BY <3>3, <3>4, <3>6, <4>2 DEF Timely, Chased
    <3> QED
      BY <3>2, <3>5, <3>6
  <2> QED
    BY <1>2, <2>2, <2>3, <2>4
<1> QED
  BY <1>3, <1>4

LEMMA DigestsTimelyStep == ServiceInv /\ [Next]_vars => DigestsTimely'
<1> SUFFICES ASSUME ServiceInv, [Next]_vars, loop' = "digest",
                    NEW u \in Linked \cap Notified, NEW w \in Nat
             PROVE  Timely(u, Digest(u, w), w * SlotsPerWeek, WindowSlots)'
  BY NotifyAssumption DEF DigestsTimely
<1> USE DEF ServiceInv
<1>1. u \in Users /\ WindowSlots \in Nat /\ w * SlotsPerWeek \in Int
  BY NotifyAssumption
<1>2. now \in Nat /\ now + 1 \in Nat /\ loop = "digest"
  BY Monotone DEF NotifyInv, TypeOK
<1> DEFINE n == Digest(u, w)
           start == w * SlotsPerWeek
<1>3. n.user = u
  BY DEF Digest
<1>4. ASSUME now - start \in 0..(WindowSlots - 1)
      PROVE  Due(u) = {n} /\ u \in Eligible
  <2>1. Week(now) = w /\ InWindow(now)
    BY <1>2, <1>4, WindowOfWeek
  <2>2. DueDigest(u) = {n}
    <3>1. n \in DueDigest(u)
      BY <2>1 DEF DueDigest, Digest
    <3>2. ASSUME NEW m \in DueDigest(u) PROVE m = n
      <4>1. m \in [user : {u}, kind : {"digest"}, key : {w}]
        BY <2>1 DEF DueDigest
      <4> QED
        BY <4>1 DEF Digest
    <3> QED
      BY <3>1, <3>2
  <2> QED
    BY <1>2, <2>1, <2>2 DEF Due, Eligible
<1>5. ASSUME now + 1 - start \in 0..(WindowSlots - 1) PROVE InWindow(now + 1)
  <2>1. PICK t \in Nat : t = now + 1
    BY <1>2
  <2>2. t - w * SlotsPerWeek \in 0..(WindowSlots - 1)
    BY <1>1, <1>2, <1>5, <2>1
  <2>3. InWindow(t)
    BY <2>2, WindowOfWeek
  <2> QED
    BY <2>1, <2>3
<1>6. Timely(u, n, start, WindowSlots)
  BY <1>2 DEF DigestsTimely
<1> HIDE DEF n, start
<1>7. Timely(u, n, start, WindowSlots)'
  <2>1. start \in Int
    BY <1>1 DEF start
  <2> QED
    BY <1>1, <1>2, <1>3, <1>4, <1>5, <1>6, <2>1, TimelyKept
<1> QED
  BY <1>7 DEF n, start

LEMMA ReminderDue ==
    ASSUME TypeOK, loop # "digest", NEW u \in Notified, expires[u] >= Notice(u),
           now - (expires[u] - Notice(u)) \in 0..(SlotsPerDay - 1)
    PROVE  Due(u) = {Reminder(u)} /\ u \in Eligible
<1>1. u \in Users
  BY NotifyAssumption
<1>2. /\ expires[u] > now /\ now \in Nat /\ expires[u] \in Nat
      /\ DaysLeft(u) = IF plan[u] = "trial" THEN 1 ELSE 2
      /\ plan[u] \in {"trial", "paid"}
  BY <1>1, DayOfNotice DEF TypeOK
<1>3. DueReminder(u) = {Reminder(u)}
  <2>1. Reminder(u) \in DueReminder(u)
    BY <1>2 DEF DueReminder, Reminder
  <2>2. ASSUME NEW n \in DueReminder(u) PROVE n = Reminder(u)
    <3>1. /\ n \in [user : {u}, kind : {"trial_last_day", "renew_2d"},
                    key : {PeriodKey(expires[u])}]
          /\ n.kind = IF plan[u] = "trial" THEN "trial_last_day" ELSE "renew_2d"
      BY <1>2 DEF DueReminder
    <3> QED
      BY <3>1 DEF Reminder
  <2> QED
    BY <2>1, <2>2
<1> QED
  BY <1>2, <1>3 DEF Due, Eligible

LEMMA RemindersTimelyStep == ServiceInv /\ [Next]_vars => RemindersTimely'
<1> SUFFICES ASSUME ServiceInv, [Next]_vars, loop' = "reminders",
                    NEW u \in Notified, u \notin closed', (expires[u] >= Notice(u))',
                    NEW n, n = Reminder(u)',
                    NEW start, start = (expires[u] - Notice(u))'
             PROVE  Timely(u, n, start, SlotsPerDay)'
  BY NotifyAssumption DEF RemindersTimely
<1> USE DEF ServiceInv
<1>1. /\ u \in Users /\ SlotsPerDay \in Nat /\ SlotsPerDay > 0
      /\ PlanSlots \in Nat /\ PlanSlots > 2 * SlotsPerDay
  BY NotifyAssumption
<1>2. /\ now \in Nat /\ faults \in Nat /\ expires \in [Users -> Nat] /\ loop = "reminders"
      /\ plan \in [Users -> {"trial", "paid"}] /\ u \notin closed
  BY Monotone DEF NotifyInv, TypeOK
<1>3. CASE expires'[u] = expires[u] /\ plan'[u] = plan[u]
  <2>1. n = Reminder(u) /\ start = expires[u] - Notice(u) /\ expires[u] >= Notice(u)
    BY <1>3 DEF Reminder, Notice
  <2>2. n.user = u /\ start \in Int
    BY <1>1, <1>2, <2>1 DEF Reminder, Notice
  <2>3. ASSUME now - start \in 0..(SlotsPerDay - 1)
        PROVE  Due(u) = {n} /\ u \in Eligible
    BY <1>2, <2>1, <2>3, ReminderDue DEF NotifyInv
  <2>4. Timely(u, n, start, SlotsPerDay)
    BY <1>2, <2>1 DEF RemindersTimely
  <2> QED
    BY <1>1, <1>2, <2>2, <2>3, <2>4, TimelyKept
<1>4. CASE Buy(u)
  <2>1. /\ plan'[u] = "paid" /\ faults' = faults /\ now' = now
        /\ expires'[u] = (IF expires[u] > now THEN expires[u] ELSE now) + PlanSlots
    BY <1>1, <1>2, <1>4 DEF Buy, clock
  <2>2. start = expires'[u] - 2 * SlotsPerDay
    BY <2>1 DEF Notice
  <2>3. now' - start < 0 /\ now' - start \in Int
    BY <1>1, <1>2, <2>1, <2>2
  <2> QED
    BY <1>1, <1>2, <2>1, <2>3 DEF Timely, Chased
<1>5. (expires'[u] = expires[u] /\ plan'[u] = plan[u]) \/ Buy(u)
  <2>1. ASSUME NEW v \in Users, Buy(v), v # u
        PROVE  expires'[u] = expires[u] /\ plan'[u] = plan[u]
    BY <1>1, <1>2, <2>1 DEF Buy
  <2> QED
    BY <2>1 DEF Next, Step, Wake, EndCycle, Skip, Examine, ReadFails,
       Deliver, Refused, SendFails, RetryAfter, Mark, MarkFails, Block, Crash,
       Restart, Tick, vars, subs
<1> QED
  BY <1>3, <1>4, <1>5

LEMMA DigestsGivenUpStep == ServiceInv /\ [Next]_vars => DigestsGivenUp'
<1> SUFFICES ASSUME ServiceInv, [Next]_vars PROVE DigestsGivenUp'
  OBVIOUS
<1> USE DEF ServiceInv
<1> DEFINE Grounds == task.pc = "mark" /\ task.nr = 0 => GivenUp(task.note)
           Recorded == loop = "digest" => \A n \in marked : Told(n) \/ GivenUp(n)
<1>1. Grounds /\ Recorded
  BY DEF DigestsGivenUp
<1>2. closed \subseteq closed' /\ loop' = loop
  BY Monotone
<1>3. ASSUME NEW n, Told(n) PROVE Told(n)'
  <2>1. sent \in Seq(Note)
    BY DEF NotifyInv, TypeOK
  <2>2. CASE sent' = sent
    BY <1>3, <2>2 DEF Told
  <2>3. CASE task.pc = "send" /\ sent' = Append(sent, task.note)
    <3>1. task.note \in Note
      BY <2>3 DEF NotifyInv, TypeOK, Task, Asleep
    <3>2. /\ Len(sent') = Len(sent) + 1 /\ Len(sent) \in Nat
          /\ \A i \in 1..Len(sent) : sent'[i] = sent[i]
      BY <2>1, <2>3, <3>1
    <3> QED
      BY <1>3, <3>2 DEF Told
  <2> QED
    BY <2>2, <2>3 DEF Next, Step, Wake, EndCycle, Skip, Examine, ReadFails,
       Deliver, Refused, SendFails, RetryAfter, Mark, MarkFails, Buy, Block, Crash,
       Restart, Tick, vars
<1>4. ASSUME NEW n, GivenUp(n) PROVE GivenUp(n)'
  BY <1>2, <1>4 DEF GivenUp
<1>5. Recorded'
  <2>1. CASE marked' = marked
    BY <1>1, <1>2, <1>3, <1>4, <2>1
  <2>2. CASE Mark
    <3>1. task.pc = "mark" /\ marked' = marked \cup {task.note}
      BY <2>2 DEF Mark
    <3>2. Told(task.note) \/ GivenUp(task.note)
      BY <1>1, <3>1 DEF NotifyInv, Delivered, Told
    <3>3. PICK m : m = task.note
      OBVIOUS
    <3>4. Told(m) \/ GivenUp(m)
      BY <3>2, <3>3
    <3>5. Told(m)' \/ GivenUp(m)'
      BY <1>3, <1>4, <3>4
    <3> QED
      BY <1>1, <1>2, <1>3, <1>4, <3>1, <3>3, <3>5
  <2> QED
    BY <2>1, <2>2 DEF Next, Step, Wake, EndCycle, Skip, Examine, ReadFails,
       Deliver, Refused, SendFails, RetryAfter, MarkFails, Buy, Block, Crash,
       Restart, Tick, vars
<1>6. Grounds'
  <2> USE DEF Goto, Continue, Sleep, Asleep
  <2>1. ASSUME NEW u \in Users, Examine(u) PROVE Grounds'
    <3>1. PICK todo \in SUBSET Users, n \in Due(u) \ marked :
            Goto(IF Found(u)
                      THEN [pc |-> "send", todo |-> todo, note |-> n,
                            second |-> task.pc = "again"]
                      ELSE [pc |-> "mark", todo |-> todo, note |-> n, nr |-> 0])
      BY <2>1 DEF Examine
    <3>2. CASE Found(u)
      BY <3>1, <3>2
    <3>3. CASE ~Found(u)
      <4>1. u \notin Cached
        BY <3>3 DEF Found
      <4>2. n.user = u
        BY <3>1 DEF Due, DueDigest, DueReminder
      <4> QED
        BY <3>1, <3>3, <4>1, <4>2 DEF GivenUp
    <3> QED
      BY <3>2, <3>3
  <2>2. CASE Deliver
    <3>1. sent \in Seq(Note) /\ task.note \in Note
      BY <2>2 DEF Deliver, NotifyInv, TypeOK, Task
    <3>2. task'.nr = Len(sent) + 1 /\ Len(sent) \in Nat
      BY <2>2, <3>1 DEF Deliver
    <3> QED
      BY <3>2
  <2>3. CASE Refused
    BY <1>2, <2>3 DEF Refused, GivenUp
  <2>4. CASE RetryAfter
    <3>1. task.pc = "send"
      BY <2>4 DEF RetryAfter
    <3>2. task \in [pc : {"send"}, todo : SUBSET Users, note : Note,
                    second : BOOLEAN]
      BY <3>1 DEF NotifyInv, TypeOK, Task
    <3> QED
      BY <2>4, <3>2 DEF RetryAfter
  <2>5. ASSUME NEW u \in Users, Skip(u) PROVE Grounds'
    BY <2>5 DEF Skip
  <2>6. CASE task' = task
    BY <1>1, <1>4, <2>6 DEF GivenUp
  <2> QED
    BY <2>1, <2>2, <2>3, <2>4, <2>5, <2>6 DEF Next, Step, Wake, EndCycle, ReadFails,
       SendFails, Mark, MarkFails, Buy, Block, Crash, Restart, Tick, vars
<1> QED
  BY <1>5, <1>6 DEF DigestsGivenUp

LEMMA ServiceInit == Init => ServiceInv
<1> SUFFICES ASSUME Init PROVE ServiceInv
  OBVIOUS
<1>1. NotifyInv
  BY NotifyInit
<1>2. Running /\ OnTime /\ DigestsGivenUp
  BY DEF Init, Running, OnTime, DigestsGivenUp, Asleep
<1>3. ASSUME NEW u, NEW n, NEW start \in Nat, NEW slots \in Nat \ {0}
      PROVE  Timely(u, n, start, slots)
  BY <1>3 DEF Init, Timely, Chased, Pending, Asleep
<1>4. DigestsTimely
  <2>1. WindowSlots \in Nat \ {0} /\ \A w \in Nat : w * SlotsPerWeek \in Nat
    BY NotifyAssumption
  <2> QED
    BY <1>3, <2>1 DEF DigestsTimely
<1>5. RemindersTimely
  <2> SUFFICES ASSUME NEW u \in Notified, expires[u] >= Notice(u)
               PROVE  Timely(u, Reminder(u), expires[u] - Notice(u), SlotsPerDay)
    BY DEF RemindersTimely
  <2>1. SlotsPerDay \in Nat \ {0} /\ expires[u] - Notice(u) \in Nat
    BY NotifyAssumption DEF Init, Notice
  <2> QED
    BY <1>3, <2>1
<1> QED
  BY <1>1, <1>2, <1>4, <1>5 DEF ServiceInv

-----------------------------------------------------------------------------
\* The invariant of the service: every announcement is chased through its
\* window, and a loop sleeps through none.
THEOREM ServiceInvariant == Spec => []ServiceInv
<1>1. Init => ServiceInv
  BY ServiceInit
<1>2. ServiceInv /\ [Next]_vars => ServiceInv'
  <2> SUFFICES ASSUME ServiceInv, [Next]_vars PROVE ServiceInv'
    OBVIOUS
  <2>1. NotifyInv' /\ Running' /\ OnTime'
    BY NotifyStep, RunningStep, OnTimeStep DEF ServiceInv
  <2> QED
    BY <2>1, DigestsTimelyStep, RemindersTimelyStep, DigestsGivenUpStep DEF ServiceInv
<1> QED
  BY <1>1, <1>2, PTL DEF Spec

\* weekly_digest.py:626-769: fewer failures than the window has slots leave no
\* eligible user unexamined, and none whose battles are in the table without the
\* week's digest unless the user blocked the bot: the hourly catch-up is enough.
THEOREM DigestsServed == Spec => []DigestServed
<1>1. ServiceInv => DigestServed
  <2> SUFFICES ASSUME ServiceInv, loop = "digest",
                      NEW u \in Linked \cap Notified, NEW w \in 0..MaxTime,
                      w * SlotsPerWeek + WindowSlots <= now, faults < WindowSlots
               PROVE  /\ Digest(u, w) \in marked
                      /\ u \in Cached \ closed => Told(Digest(u, w))
    BY DEF DigestServed, Digest
  <2>1. /\ now \in Nat /\ faults \in Nat /\ WindowSlots \in Nat
        /\ w \in Nat /\ w * SlotsPerWeek \in Nat
    BY NotifyAssumption DEF ServiceInv, NotifyInv, TypeOK
  <2>2. Timely(u, Digest(u, w), w * SlotsPerWeek, WindowSlots)
    BY <2>1 DEF ServiceInv, DigestsTimely
  <2>3. now - w * SlotsPerWeek >= WindowSlots
    BY <2>1
  <2>4. Digest(u, w) \in marked
    BY <2>1, <2>2, <2>3 DEF Timely
  <2>5. Digest(u, w).user = u
    BY DEF Digest
  <2> QED
    BY <2>4, <2>5 DEF ServiceInv, DigestsGivenUp, GivenUp
<1> QED
  BY <1>1, ServiceInvariant, PTL

\* reminders.py:130-203: fewer failures than the day of the reminder has slots
\* leave no subscriber unreminded who has not blocked the bot.
THEOREM RemindersServed == Spec => []ReminderServed
<1>1. ServiceInv => ReminderServed
  <2> SUFFICES ASSUME ServiceInv, loop = "reminders",
                      NEW u \in Notified \ closed, expires[u] >= Notice(u),
                      now >= expires[u] - Notice(u) + SlotsPerDay,
                      faults < SlotsPerDay
               PROVE  Told(Reminder(u))
    BY DEF ReminderServed
  <2>1. /\ now \in Nat /\ faults \in Nat /\ SlotsPerDay \in Nat
        /\ expires[u] \in Nat /\ Notice(u) \in Nat
    BY NotifyAssumption DEF ServiceInv, NotifyInv, TypeOK, Notice
  <2>2. Timely(u, Reminder(u), expires[u] - Notice(u), SlotsPerDay)
    BY DEF ServiceInv, RemindersTimely
  <2>3. now - (expires[u] - Notice(u)) >= SlotsPerDay
    BY <2>1
  <2>4. Reminder(u) \in marked
    BY <2>1, <2>2, <2>3 DEF Timely
  <2>5. Reminder(u).kind # "digest"
    BY DEF Reminder
  <2> QED
    BY <2>4, <2>5 DEF ServiceInv, NotifyInv, RecordedReminderWasSent
<1> QED
  BY <1>1, ServiceInvariant, PTL
=============================================================================
