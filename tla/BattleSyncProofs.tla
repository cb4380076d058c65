-------------------------- MODULE BattleSyncProofs ---------------------------
(***************************************************************************)
(* The types of BattleSync, and that the live list shown is in the table.  *)
(***************************************************************************)
EXTENDS BattleSync, TLAPS

\* A handler that is about to publish a list has committed its rows, and the
\* published list is still there unless the user deleted it since.
StoredBeforeShown ==
    \A h \in Handlers :
      task[h].pc = "stored" => task[h].battles \subseteq rows \cup erased

SyncInv == TypeOK /\ StoredBeforeShown /\ ShownIsStored

LEMMA TypeInit == Init => TypeOK
  <1> SUFFICES ASSUME Init PROVE TypeOK
    OBVIOUS
  <1> USE SyncAssumption
  <1>1. played \in 0..MaxBattles /\ rows \subseteq Battles
    BY DEF Init, Battles
  <1>2. session \in Sessions
    BY DEF Init, NoSession, Sessions
  <1>3. task \in [Handlers -> Task]
    BY DEF Init, Task, Idle
  <1>4. fetchAge \in 0..TTL /\ faults \in 0..MaxFaults
    BY DEF Init
  <1>5. requested \in BOOLEAN /\ full \subseteq rows /\ erased \subseteq Battles
    BY DEF Init
  <1> QED
    BY <1>1, <1>2, <1>3, <1>4, <1>5 DEF TypeOK

\* The substitute for a log is a session list: live means not empty.
LEMMA SubstituteType ==
  TypeOK => Substitute \in Sessions
  BY SyncAssumption DEF TypeOK, Substitute, Sessions, LooksLive, Battles

LEMMA OlderType ==
  ASSUME NEW age \in 0..TTL PROVE Older(age) \in 0..TTL
  BY SyncAssumption DEF Older

LEMMA TypeStep == TypeOK /\ [Next]_vars => TypeOK'
  <1> SUFFICES ASSUME TypeOK, [Next]_vars PROVE TypeOK'
    OBVIOUS
  <1> USE SyncAssumption
  <1>1. CASE Tick
    <2>1. fetchAge' \in 0..TTL
      BY <1>1, OlderType DEF Tick, TypeOK
    <2>2. session' \in Sessions
      BY <1>1, OlderType DEF Tick, TypeOK, Sessions
    <2> QED
      BY <1>1, <2>1, <2>2 DEF Tick, TypeOK
  <1>2. CASE Play
    BY <1>2 DEF Play, TypeOK, Battles
  <1>3. CASE ListFromSession
    BY <1>3 DEF ListFromSession, TypeOK
  <1>4. CASE ClearCache
    BY <1>4 DEF ClearCache, TypeOK, NoSession, Sessions
  <1>5. CASE ClearHistory
    BY <1>5 DEF ClearHistory, TypeOK, NoSession, Sessions
  <1>6. CASE Crash
    <2>1. fetchAge' \in 0..TTL /\ faults' \in 0..MaxFaults
      BY <1>6 DEF Crash, TypeOK
    <2>2. session' \in Sessions
      BY <1>6 DEF Crash, NoSession, Sessions
    <2>3. task' \in [Handlers -> Task]
      BY <1>6 DEF Crash, Task
    <2> QED
      BY <1>6, <2>1, <2>2, <2>3 DEF Crash, TypeOK
  <1>7. CASE ApiAnswers
    <2>1. BattleLog \subseteq Battles
      BY DEF BattleLog
    <2>2. task' \in [Handlers -> Task]
      BY <1>7, <2>1 DEF ApiAnswers, TypeOK, Task, Idle
    <2>3. fetchAge' \in 0..TTL
      BY <1>7 DEF ApiAnswers
    <2> QED
      BY <1>7, <2>2, <2>3 DEF ApiAnswers, TypeOK
  <1>8. CASE ApiFails
    <2>1. task' \in [Handlers -> Task]
      BY <1>8 DEF ApiFails, TypeOK, Task, Idle
    <2> QED
      BY <1>8, <2>1 DEF ApiFails, TypeOK
  <1>9. ASSUME NEW h \in Handlers, Request(h) PROVE TypeOK'
    <2>1. ASSUME NEW kind \in Kinds, AskApi(h, kind)
          PROVE  task' \in [Handlers -> Task] /\ requested' \in BOOLEAN
      BY <2>1 DEF AskApi, Begin, TypeOK, Task
    <2>2. CASE Sync(h)
      BY <2>1, <2>2 DEF Sync, Kinds, TypeOK
    <2>3. CASE Load(h, "view")
      BY <2>1, <2>3 DEF Load, Kinds, TypeOK
    <2>4. CASE Load(h, "list")
      BY <2>1, <2>4 DEF Load, Kinds, TypeOK
    <2>5. CASE Reload(h)
      BY <2>1, <2>5 DEF Reload, Kinds, TypeOK, NoSession, Sessions
    <2>6. CASE Peek(h)
      BY <2>1, <2>6 DEF Peek, Kinds, TypeOK
    <2> QED
      BY <1>9, <2>2, <2>3, <2>4, <2>5, <2>6 DEF Request
  <1>10. ASSUME NEW h \in Handlers, GiveUp(h) PROVE TypeOK'
    BY <1>10 DEF GiveUp, Finish, TypeOK, Task
  <1>11. ASSUME NEW h \in Handlers, PersistFails(h) PROVE TypeOK'
    BY <1>11 DEF PersistFails, Finish, TypeOK, Task
  <1>12. ASSUME NEW h \in Handlers, Persist(h) PROVE TypeOK'
    <2>1. task[h] \in Task /\ task[h].pc = "fetched"
      BY <1>12 DEF Persist, TypeOK
    <2>2. task[h].kind \in Kinds /\ task[h].battles \in (SUBSET Battles) \ {{}}
      <3>1. task[h] \in [pc : {"fetched"}, kind : Kinds, battles : SUBSET Battles]
        <4>1. CASE task[h] \in [pc : {"fetched"}, kind : Kinds,
                                battles : SUBSET Battles]
          BY <4>1
        <4>2. CASE task[h] \in [pc : {"stored"}, kind : Kinds,
                                battles : (SUBSET Battles) \ {{}}]
          BY <4>2, <2>1
        <4>3. CASE task[h] \in [pc : {"waiting", "failed"}, kind : Kinds]
          BY <4>3, <2>1
        <4>4. CASE task[h] = Idle
          BY <4>4, <2>1 DEF Idle
        <4> QED
          BY <2>1, <4>1, <4>2, <4>3, <4>4 DEF Task
      <3> QED
        BY <1>12, <3>1 DEF Persist
    <2>3. task' \in [Handlers -> Task]
      BY <1>12, <2>2 DEF Persist, AfterPersist, Finish, Continue, TypeOK, Task
    <2>4. full' \subseteq rows' /\ rows' \subseteq Battles
      BY <1>12, <2>2 DEF Persist, TypeOK
    <2> QED
      BY <1>12, <2>3, <2>4 DEF Persist, TypeOK
  <1>13. ASSUME NEW h \in Handlers, Publish(h) PROVE TypeOK'
    <2>1. task[h] \in Task /\ task[h].pc = "stored"
      BY <1>13 DEF Publish, TypeOK
    <2>2. task[h].battles \in (SUBSET Battles) \ {{}}
      BY <2>1 DEF Task, Idle
    <2>3. session' \in Sessions
      <3>1. session' \in [battles : SUBSET Battles, age : 0..TTL, live : BOOLEAN]
        <4>1. 0 \in 0..TTL /\ TRUE \in BOOLEAN
          OBVIOUS
        <4>2. task[h].battles \in SUBSET Battles
          BY <2>2
        <4>3. session' = [battles |-> task[h].battles, age |-> 0, live |-> TRUE]
          BY <1>13 DEF Publish
        <4> QED
          BY <4>1, <4>2, <4>3, Zenon
      <3>2. session'.battles # {}
        BY <1>13, <2>2 DEF Publish
      <3> QED
        BY <3>1, <3>2 DEF Sessions
    <2> QED
      BY <1>13, <2>3 DEF Publish, Finish, TypeOK, Task
  <1>14. ASSUME NEW h \in Handlers, FallBack(h) PROVE TypeOK'
    BY <1>14, SubstituteType DEF FallBack, Finish, TypeOK, Task
  <1>15. CASE UNCHANGED vars
    BY <1>15 DEF vars, TypeOK
  <1> QED
    BY <1>1, <1>2, <1>3, <1>4, <1>5, <1>6, <1>7, <1>8, <1>9, <1>10, <1>11,
       <1>12, <1>13, <1>14, <1>15 DEF Next, Step

-----------------------------------------------------------------------------
\* Steps that write neither the table, nor the session list, nor a task that
\* has just committed its rows.
LEMMA QuietStep ==
  ASSUME StoredBeforeShown, ShownIsStored,
         UNCHANGED <<rows, erased>>,
         session' = NoSession
           \/ (session'.live = session.live /\ session'.battles = session.battles),
         \A h \in Handlers : task'[h].pc = "stored" => task'[h] = task[h]
  PROVE  StoredBeforeShown' /\ ShownIsStored'
  BY DEF StoredBeforeShown, ShownIsStored, NoSession

LEMMA InvStep == SyncInv /\ [Next]_vars => SyncInv'
  <1> SUFFICES ASSUME SyncInv, [Next]_vars
               PROVE  StoredBeforeShown' /\ ShownIsStored'
    BY TypeStep DEF SyncInv
  <1> USE DEF SyncInv
  <1>1. CASE Tick
    BY <1>1, QuietStep DEF Tick, TypeOK, Sessions
  <1>2. CASE Play
    BY <1>2, QuietStep DEF Play
  <1>3. CASE ListFromSession
    BY <1>3, QuietStep DEF ListFromSession
  <1>4. CASE ClearCache
    BY <1>4, QuietStep DEF ClearCache
  <1>5. CASE ClearHistory
    BY <1>5 DEF ClearHistory, StoredBeforeShown, ShownIsStored, NoSession
  <1>6. CASE Crash
    BY <1>6, QuietStep DEF Crash, Idle
  <1>7. CASE ApiAnswers
    BY <1>7, QuietStep DEF ApiAnswers, Idle
  <1>8. CASE ApiFails
    BY <1>8, QuietStep DEF ApiFails, Idle
  <1>9. ASSUME NEW h \in Handlers, Request(h)
        PROVE  StoredBeforeShown' /\ ShownIsStored'
    BY <1>9, QuietStep
       DEF Request, Sync, Load, Reload, Peek, AskApi, Begin, TypeOK
  <1>10. ASSUME NEW h \in Handlers, GiveUp(h) \/ PersistFails(h)
         PROVE  StoredBeforeShown' /\ ShownIsStored'
    BY <1>10, QuietStep DEF GiveUp, PersistFails, Finish, Idle, TypeOK
  <1>11. ASSUME NEW h \in Handlers, Persist(h)
         PROVE  StoredBeforeShown' /\ ShownIsStored'
    <2>1. task[h].battles \subseteq rows' /\ rows \subseteq rows'
      BY <1>11 DEF Persist
    <2>2. \A g \in Handlers :
            task'[g].pc = "stored" =>
              \/ g # h /\ task'[g] = task[g]
              \/ task'[g].battles = task[h].battles
      BY <1>11 DEF Persist, AfterPersist, Finish, Continue, Idle, TypeOK
    <2>3. erased' = erased /\ session' = session
      BY <1>11 DEF Persist
    <2> QED
      BY <2>1, <2>2, <2>3 DEF StoredBeforeShown, ShownIsStored
  <1>12. ASSUME NEW h \in Handlers, Publish(h)
         PROVE  StoredBeforeShown' /\ ShownIsStored'
    BY <1>12 DEF Publish, Finish, Idle, StoredBeforeShown, ShownIsStored, TypeOK
  <1>13. ASSUME NEW h \in Handlers, FallBack(h)
         PROVE  StoredBeforeShown' /\ ShownIsStored'
    <2>1. session' \in {session, Substitute} /\ UNCHANGED <<rows, erased>>
      BY <1>13 DEF FallBack
    <2>2. ShownIsStored'
      BY <2>1 DEF Substitute, ShownIsStored
    <2>3. StoredBeforeShown'
      BY <1>13, <2>1 DEF FallBack, Finish, Idle, StoredBeforeShown, TypeOK
    <2> QED
      BY <2>2, <2>3
  <1>14. CASE UNCHANGED vars
    BY <1>14 DEF vars, StoredBeforeShown, ShownIsStored
  <1> QED
    BY <1>1, <1>2, <1>3, <1>4, <1>5, <1>6, <1>7, <1>8, <1>9, <1>10, <1>11,
       <1>12, <1>13, <1>14 DEF Next, Step

\* The inductive invariant: types, rows committed before a list is published,
\* and every live list stored.
THEOREM SyncInvariant == Spec => []SyncInv
  <1>1. Init => SyncInv
    BY TypeInit DEF Init, SyncInv, StoredBeforeShown, ShownIsStored, Idle,
       NoSession
  <1> QED
    BY <1>1, InvStep, PTL DEF Spec

\* Every variable keeps its type; in particular a list taken for a live answer
\* of the API is never empty.
THEOREM SyncTypeCorrect == Spec => []TypeOK
  BY SyncInvariant, PTL DEF SyncInv

\* Whatever the interleaving of requests, failures, crashes and deletions, the
\* live list shown to the user is in the history, up to what the user deleted.
THEOREM ShownBattlesAreStored == Spec => []ShownIsStored
  BY SyncInvariant, PTL DEF SyncInv
=============================================================================
