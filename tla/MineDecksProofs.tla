--------------------------- MODULE MineDecksProofs ---------------------------
(***************************************************************************)
(* Proofs about MineDecks: types, the owner of a tag, the limit on slots,  *)
(* what a synchronisation adds and evicts, and that what it saves has been *)
(* played.                                                                 *)
(***************************************************************************)
EXTENDS MineDecks, FiniteSetTheorems, SequenceTheorems, TLAPS

Seen == 1..Len(battles)

InSync(t) == t.pc \in {"ensuring", "filling", "saving"}

\* What a handler holds: only battles that have been played; slots that nobody
\* else has added to since; a working set within the limit, with all it added.
Sound(t) ==
    /\ t.pc = "loaded" \/ InSync(t) => t.live \subseteq Seen /\ t.known \subseteq Seen
    /\ InSync(t) =>
         /\ t.todo \subseteq Seen /\ t.profile \in Seen \cup {0}
         /\ Tracked(slots[t.user]) \subseteq Tracked(t.found)
         /\ t.added \subseteq Tracked(t.work)
         /\ Cardinality(Tracked(t.work)) <= MaxSlots

\* The lock: one synchronisation per user.
OneSync ==
    \A g, h \in Handlers :
      Syncing(g) /\ Syncing(h) /\ task[g].user = task[h].user => g = h

DecksInv ==
    /\ TypeOK /\ stored \subseteq Seen
    /\ OneSync /\ SlotLimit
    /\ \A h \in Handlers : Sound(task[h])

-----------------------------------------------------------------------------
\* What a handler holds.

LEMMA SyncingType ==
  ASSUME TypeOK, NEW h \in Handlers, Syncing(h) PROVE task[h] \in SyncTask
  BY DEF TypeOK, Task, Idle, Syncing

LEMMA LoadedType ==
  ASSUME TypeOK, NEW h \in Handlers, task[h].pc = "loaded"
  PROVE  task[h] \in [pc : {"loaded"}, user : Users, tag : Tags,
                      live : SUBSET Numbers, known : SUBSET Numbers]
  BY DEF TypeOK, Task, SyncTask, Idle

LEMMA LinkingType ==
  ASSUME TypeOK, NEW h \in Handlers, task[h].pc = "linking"
  PROVE  task[h] \in [pc : {"linking"}, user : Users, tag : Tags]
  BY DEF TypeOK, Task, SyncTask, Idle

\* A deck that has been played is a deck.
LEMMA DeckType ==
  ASSUME TypeOK, NEW i \in Seen PROVE DeckOf(i) \in Decks /\ i \in Numbers
  <1>1. battles \in Seq([tag : Tags, deck : Decks]) /\ Len(battles) <= MaxBattles
    BY DEF TypeOK
  <1>2. Len(battles) \in Nat
    BY <1>1
  <1>3. i \in Numbers
    BY <1>1, <1>2, DecksAssumption DEF Seen, Numbers
  <1>4. battles[i] \in [tag : Tags, deck : Decks]
    BY <1>1, ElementOfSeq DEF Seen
  <1> QED
    BY <1>3, <1>4 DEF DeckOf

LEMMA TrackedFinite ==
  ASSUME NEW table
  PROVE  IsFiniteSet(Tracked(table)) /\ Cardinality(Tracked(table)) \in Nat
  <1>1. Tracked(table) \subseteq Decks
    BY DEF Tracked
  <1>2. IsFiniteSet(Tracked(table))
    BY <1>1, FS_Subset, DecksAssumption
  <1> QED
    BY <1>2, FS_CardinalityType

-----------------------------------------------------------------------------
\* A call of ensure_slot that touches a slot changes no set of decks.
LEMMA Touch ==
  ASSUME NEW work \in Slots, NEW d \in Tracked(work), NEW i \in Numbers
  PROVE  LET new == [work EXCEPT ![d] = IF i > @ THEN i ELSE @]
         IN  new \in Slots /\ Tracked(new) = Tracked(work)
  BY DecksAssumption DEF Slots, Tracked, Numbers

LEMMA Add ==
  ASSUME NEW work \in Slots, NEW d \in Decks \ Tracked(work), NEW i \in Numbers
  PROVE  LET new == [work EXCEPT ![d] = i]
         IN  new \in Slots /\ Tracked(new) = Tracked(work) \cup {d}
  BY DecksAssumption DEF Slots, Tracked, Numbers

LEMMA Replace ==
  ASSUME NEW work \in Slots, NEW d \in Decks \ Tracked(work), NEW i \in Numbers,
         NEW victim \in Tracked(work)
  PROVE  LET new == [work EXCEPT ![victim] = 0, ![d] = i]
         IN  new \in Slots /\ Tracked(new) = (Tracked(work) \ {victim}) \cup {d}
  BY DecksAssumption DEF Slots, Tracked, Numbers

\* Adding a deck below the limit, or in the place of another, keeps the limit.
LEMMA AddCount ==
  ASSUME NEW work, NEW d \in Decks \ Tracked(work),
         Cardinality(Tracked(work)) < MaxSlots
  PROVE  Cardinality(Tracked(work) \cup {d}) <= MaxSlots
  <1>1. IsFiniteSet(Tracked(work)) /\ Cardinality(Tracked(work)) \in Nat
    BY TrackedFinite
  <1>2. Cardinality(Tracked(work) \cup {d}) = Cardinality(Tracked(work)) + 1
    BY <1>1, FS_AddElement
  <1> QED
    BY <1>1, <1>2, DecksAssumption

LEMMA ReplaceCount ==
  ASSUME NEW work, NEW d \in Decks \ Tracked(work), NEW victim \in Tracked(work),
         Cardinality(Tracked(work)) <= MaxSlots
  PROVE  Cardinality((Tracked(work) \ {victim}) \cup {d}) <= MaxSlots
  <1> DEFINE rest == Tracked(work) \ {victim}
  <1>1. IsFiniteSet(Tracked(work)) /\ Cardinality(Tracked(work)) \in Nat
    BY TrackedFinite
  <1>2. IsFiniteSet(rest) /\ Cardinality(rest) = Cardinality(Tracked(work)) - 1
    BY <1>1, FS_RemoveElement
  <1>3. Cardinality(rest \cup {d}) = Cardinality(rest) + 1
    BY <1>2, FS_AddElement
  <1> QED
    BY <1>1, <1>2, <1>3, DecksAssumption

LEMMA FewerSlots ==
  ASSUME NEW work, NEW new, Tracked(new) \subseteq Tracked(work),
         Cardinality(Tracked(work)) <= MaxSlots
  PROVE  Cardinality(Tracked(new)) <= MaxSlots
  <1>1. Cardinality(Tracked(new)) <= Cardinality(Tracked(work))
    BY TrackedFinite, FS_Subset
  <1> QED
    BY <1>1, TrackedFinite, DecksAssumption

-----------------------------------------------------------------------------
\* The initial states.

LEMMA DecksInit == Init => DecksInv
  <1> SUFFICES ASSUME Init PROVE DecksInv
    OBVIOUS
  <1>1. Len(battles) = 0 /\ battles \in Seq([tag : Tags, deck : Decks])
    BY DEF Init
  <1>2. slots \in [Users -> Slots] /\ task \in [Handlers -> Task]
    BY DecksAssumption DEF Init, NoSlots, Slots, Task
  <1>3. tagOf \in [Users -> Tags \cup {NoTag}] /\ stored = {}
    BY DEF Init
  <1>4. TypeOK
    BY <1>1, <1>2, <1>3, DecksAssumption DEF TypeOK
  <1>5. ASSUME NEW u \in Users PROVE Cardinality(Tracked(slots[u])) <= MaxSlots
    <2>1. Tracked(slots[u]) = {}
      BY DEF Init, NoSlots, Tracked
    <2> QED
      BY <2>1, FS_EmptySet, DecksAssumption
  <1>6. ASSUME NEW h \in Handlers PROVE task[h].pc = "idle"
    BY DEF Init, Idle
  <1> QED
    BY <1>3, <1>4, <1>5, <1>6 DEF DecksInv, OneSync, Syncing, Sound, InSync, SlotLimit

-----------------------------------------------------------------------------
\* Steps within a synchronisation.

\* A handler goes on with a sound task for the same user.
LEMMA Goes ==
  ASSUME DecksInv, NEW h \in Handlers, Syncing(h),
         NEW t \in SyncTask, Sound(t), t.user = task[h].user,
         task' = [task EXCEPT ![h] = t],
         UNCHANGED <<tagOf, battles, stored, slots>>
  PROVE  DecksInv'
  <1>1. TypeOK'
    BY DEF DecksInv, TypeOK, Task
  <1>2. InSync(t)
    BY DEF SyncTask, InSync
  <1>3. OneSync'
    BY DEF DecksInv, TypeOK, OneSync, Syncing
  <1>4. ASSUME NEW g \in Handlers PROVE Sound(task[g])'
    <2>1. Sound(task'[g])
      BY DEF DecksInv, TypeOK
    <2> QED
      BY <2>1 DEF Sound, InSync, Seen
  <1> QED
    BY <1>1, <1>3, <1>4 DEF DecksInv, SlotLimit, Seen

LEMMA RestType ==
  ASSUME NEW t \in SyncTask, NEW i, t.pc # "saving", Sound(t)
  PROVE  /\ Rest(t, i) \in SyncTask /\ Sound(Rest(t, i))
         /\ Rest(t, i).work = t.work /\ Rest(t, i).added = t.added
         /\ Rest(t, i).user = t.user /\ Rest(t, i).pc = t.pc
  BY DecksAssumption DEF Rest, SyncTask, Sound, InSync

\* One call of ensure_slot.
LEMMA Ensures ==
  ASSUME DecksInv, NEW h \in Handlers, NEW i \in Numbers, EnsureSlot(h, i)
  PROVE  DecksInv'
  <1> DEFINE t == task[h]
             d == DeckOf(i)
             rest == Rest(t, i)
  <1>1. Syncing(h) /\ t.pc # "saving"
    BY DEF EnsureSlot, Syncing
  <1>2. t \in SyncTask /\ Sound(t)
    BY <1>1, SyncingType DEF DecksInv
  <1>3. i \in Seen
    BY <1>1, <1>2 DEF EnsureSlot, IsNext, Sound, InSync, SyncTask
  <1>4. d \in Decks
    BY <1>3, DeckType DEF DecksInv
  <1>5. /\ rest \in SyncTask /\ Sound(rest)
        /\ rest.work = t.work /\ rest.added = t.added
        /\ rest.user = t.user /\ rest.pc = t.pc
    BY <1>1, <1>2, RestType
  <1>6. rest.work \in Slots
    BY <1>5 DEF SyncTask
  <1> HIDE DEF rest, d
  <1>7. ASSUME NEW work \in Slots, NEW added \in SUBSET Decks,
               added \subseteq Tracked(work), Cardinality(Tracked(work)) <= MaxSlots,
               Continue(h, [rest EXCEPT !.work = work, !.added = added])
        PROVE  DecksInv'
    <2> DEFINE new == [rest EXCEPT !.work = work, !.added = added]
    <2>1. new \in SyncTask /\ new.user = t.user
      BY <1>5 DEF SyncTask
    <2>2. Sound(new)
      BY <1>5, <1>7 DEF Sound, InSync, SyncTask
    <2>3. task' = [task EXCEPT ![h] = new]
      BY <1>7 DEF Continue
    <2>4. UNCHANGED <<tagOf, battles, stored, slots>>
      BY DEF EnsureSlot
    <2> HIDE DEF new
    <2> QED
      BY <1>1, <2>1, <2>2, <2>3, <2>4, Goes
  <1>8. CASE /\ d \in Tracked(t.work)
             /\ Continue(h, [rest EXCEPT !.work[d] = IF i > @ THEN i ELSE @])
    <2> DEFINE work == [t.work EXCEPT ![d] = IF i > @ THEN i ELSE @]
    <2>1. work \in Slots /\ Tracked(work) = Tracked(t.work)
      BY <1>5, <1>6, <1>8, Touch
    <2>2. [rest EXCEPT !.work[d] = IF i > @ THEN i ELSE @]
          = [rest EXCEPT !.work = work, !.added = t.added]
      BY <1>5 DEF SyncTask
    <2>3. t.added \in SUBSET Decks
      BY <1>2 DEF SyncTask
    <2>4. t.added \subseteq Tracked(work) /\ Cardinality(Tracked(work)) <= MaxSlots
      BY <1>1, <1>2, <2>1 DEF Sound, InSync, Syncing
    <2> HIDE DEF work
    <2> QED
      BY <1>7, <1>8, <2>1, <2>2, <2>3, <2>4
  <1>9. CASE /\ d \notin Tracked(t.work)
             /\ Cardinality(Tracked(t.work)) < MaxSlots
             /\ Continue(h, [rest EXCEPT !.work[d] = i, !.added = @ \cup {d}])
    <2> DEFINE work == [t.work EXCEPT ![d] = i]
    <2>1. work \in Slots /\ Tracked(work) = Tracked(t.work) \cup {d}
      BY <1>4, <1>5, <1>6, <1>9, Add
    <2>2. [rest EXCEPT !.work[d] = i, !.added = @ \cup {d}]
          = [rest EXCEPT !.work = work, !.added = t.added \cup {d}]
      BY <1>5 DEF SyncTask
    <2>3. t.added \cup {d} \in SUBSET Decks
      BY <1>2, <1>4 DEF SyncTask
    <2>4. t.added \cup {d} \subseteq Tracked(work)
      BY <1>1, <1>2, <2>1 DEF Sound, InSync, Syncing
    <2>5. Cardinality(Tracked(work)) <= MaxSlots
      BY <1>4, <1>9, <2>1, AddCount
    <2> HIDE DEF work
    <2> QED
      BY <1>7, <1>9, <2>1, <2>2, <2>3, <2>4, <2>5
  <1>10. CASE Continue(h, rest)
    <2>1. task' = [task EXCEPT ![h] = rest]
      BY <1>10 DEF Continue
    <2>2. UNCHANGED <<tagOf, battles, stored, slots>>
      BY DEF EnsureSlot
    <2> QED
      BY <1>1, <1>5, <2>1, <2>2, Goes
  <1>11. ASSUME NEW victim \in Candidates(t),
                d \notin Tracked(t.work),
                Continue(h, [rest EXCEPT
                  !.work = [@ EXCEPT ![victim] = 0, ![d] = i],
                  !.added = @ \cup {d}])
         PROVE  DecksInv'
    <2> DEFINE work == [t.work EXCEPT ![victim] = 0, ![d] = i]
    <2>1. victim \in Tracked(t.work) /\ victim \notin t.added
      BY <1>11 DEF Candidates
    <2>2. /\ work \in Slots
          /\ Tracked(work) = (Tracked(t.work) \ {victim}) \cup {d}
      BY <1>4, <1>5, <1>6, <1>11, <2>1, Replace
    <2>3. [rest EXCEPT !.work = [@ EXCEPT ![victim] = 0, ![d] = i],
                       !.added = @ \cup {d}]
          = [rest EXCEPT !.work = work, !.added = t.added \cup {d}]
      BY <1>5 DEF SyncTask
    <2>4. t.added \cup {d} \in SUBSET Decks
      BY <1>2, <1>4 DEF SyncTask
    <2>5. t.added \subseteq Tracked(t.work) /\ Cardinality(Tracked(t.work)) <= MaxSlots
      BY <1>1, <1>2 DEF Sound, InSync, Syncing
    <2>6. t.added \cup {d} \subseteq Tracked(work)
      BY <2>1, <2>2, <2>5
    <2>7. Cardinality(Tracked(work)) <= MaxSlots
      BY <1>4, <1>11, <2>1, <2>2, <2>5, ReplaceCount
    <2> HIDE DEF work
    <2> QED
      BY <1>7, <1>11, <2>2, <2>3, <2>4, <2>6, <2>7
  <1> QED
    BY <1>8, <1>9, <1>10, <1>11 DEF EnsureSlot, rest, d

\* Dropping slots only makes the working set smaller.
LEMMA Drops ==
  ASSUME DecksInv, NEW h \in Handlers, DropUnplayed(h) PROVE DecksInv'
  <1> DEFINE t == task[h]
             work == [d \in Decks |-> IF Kept(t, d) THEN t.work[d] ELSE 0]
  <1>1. Syncing(h) /\ t.pc = "ensuring" /\ t.todo = {} /\ t.profile = 0
    BY DEF DropUnplayed, Syncing, Ensured
  <1>2. t \in SyncTask /\ Sound(t)
    BY <1>1, SyncingType DEF DecksInv
  <1>3. InSync(t) /\ t.work \in Slots
    BY <1>1, <1>2 DEF InSync, SyncTask
  <1>4. work \in Slots /\ Tracked(work) \subseteq Tracked(t.work)
    BY <1>3, DecksAssumption DEF Slots, Tracked
  <1>5. t.added \subseteq Tracked(work)
    BY <1>2, <1>3 DEF Sound, Kept, Tracked
  <1>6. Cardinality(Tracked(work)) <= MaxSlots
    BY <1>2, <1>3, <1>4, FewerSlots DEF Sound
  <1>7. UNCHANGED <<tagOf, battles, stored, slots>>
    BY DEF DropUnplayed
  <1>8. Latest(t.known) \subseteq Seen /\ Latest(t.known) \subseteq Numbers
    <2>1. t.known \subseteq Seen /\ t.known \subseteq Numbers
      BY <1>2, <1>3 DEF Sound, SyncTask
    <2> QED
      BY <2>1 DEF Latest, Newest
  <1> HIDE DEF work
  <1>9. ASSUME NEW new, task' = [task EXCEPT ![h] = new], new.user = t.user,
               new \in SyncTask, Sound(new)
        PROVE  DecksInv'
    BY <1>1, <1>7, <1>9, Goes
  <1>10. CASE Continue(h, [t EXCEPT !.pc = "filling", !.work = work,
                                    !.todo = Latest(t.known)])
    <2> DEFINE new == [t EXCEPT !.pc = "filling", !.work = work,
                                !.todo = Latest(t.known)]
    <2>1. new \in SyncTask /\ new.user = t.user
      BY <1>1, <1>2, <1>4, <1>8 DEF SyncTask
    <2>2. Sound(new)
      BY <1>2, <1>3, <1>5, <1>6, <1>8 DEF Sound, InSync, SyncTask
    <2> HIDE DEF new
    <2> QED
      BY <1>9, <1>10, <2>1, <2>2 DEF Continue, new
  <1>11. CASE Continue(h, [t EXCEPT !.pc = "saving", !.work = work])
    <2> DEFINE new == [t EXCEPT !.pc = "saving", !.work = work]
    <2>1. new \in SyncTask /\ new.user = t.user
      BY <1>1, <1>2, <1>4 DEF SyncTask
    <2>2. Sound(new)
      BY <1>2, <1>3, <1>5, <1>6 DEF Sound, InSync, SyncTask
    <2> HIDE DEF new
    <2> QED
      BY <1>9, <1>11, <2>1, <2>2 DEF Continue, new
  <1> QED
    BY <1>10, <1>11 DEF DropUnplayed, work

\* What is written is a subset of the working set, which is within the limit.
LEMMA Saves ==
  ASSUME DecksInv, NEW h \in Handlers, Save(h) PROVE DecksInv'
  <1> DEFINE t == task[h]
  <1>1. Syncing(h)
    BY DEF Save, Syncing
  <1>2. t \in SyncTask /\ Sound(t) /\ InSync(t)
    BY <1>1, SyncingType DEF DecksInv, InSync, Syncing
  <1>3. t.user \in Users /\ t.work \in Slots /\ t.found \in Slots
    BY <1>2 DEF SyncTask
  <1>4. slots \in [Users -> Slots] /\ slots[t.user] \in Slots
    BY <1>3 DEF DecksInv, TypeOK
  <1>5. Written(t) \in Slots
    BY <1>3, <1>4, DecksAssumption DEF Written, Slots
  <1>6. Tracked(Written(t)) \subseteq Tracked(t.work)
    BY <1>2, <1>3, <1>4, <1>5 DEF Sound, Written, Tracked, Slots
  <1>7. Cardinality(Tracked(Written(t))) <= MaxSlots
    BY <1>2, <1>6, FewerSlots DEF Sound
  <1>8. /\ slots' = slots \/ slots' = [slots EXCEPT ![t.user] = Written(t)]
        /\ task' = [task EXCEPT ![h] = Idle]
        /\ UNCHANGED <<tagOf, battles, stored>>
    BY DEF Save, Finish
  <1>9. slots' \in [Users -> Slots] /\ task' \in [Handlers -> Task]
    BY <1>4, <1>5, <1>8 DEF DecksInv, TypeOK, Task
  <1>10. TypeOK'
    BY <1>8, <1>9 DEF DecksInv, TypeOK
  <1>11. SlotLimit'
    BY <1>3, <1>4, <1>7, <1>8 DEF DecksInv, SlotLimit
  <1>12. OneSync'
    BY <1>8 DEF DecksInv, TypeOK, OneSync, Syncing, Idle
  <1>13. ASSUME NEW g \in Handlers PROVE Sound(task[g])'
    <2>1. CASE g = h
      BY <1>8, <2>1 DEF DecksInv, TypeOK, Idle, Sound, InSync
    <2>2. CASE g # h
      <3>1. task'[g] = task[g] /\ Sound(task[g])
        BY <1>8, <2>2 DEF DecksInv, TypeOK
      <3>2. InSync(task[g]) => task[g].user # t.user
        BY <1>1, <2>2 DEF DecksInv, OneSync, Syncing, InSync
      <3>3. InSync(task[g]) => slots'[task[g].user] = slots[task[g].user]
        <4>1. Syncing(g) => task[g].user \in Users
          BY SyncingType DEF DecksInv, SyncTask
        <4> QED
          BY <1>4, <1>8, <3>2, <4>1 DEF Syncing, InSync
      <3> QED
        BY <1>8, <3>1, <3>3 DEF Sound, InSync, Seen
    <2> QED
      BY <2>1, <2>2
  <1> QED
    BY <1>8, <1>10, <1>11, <1>12, <1>13 DEF DecksInv, Seen

-----------------------------------------------------------------------------
\* Steps that start or end nothing but h's own task, which is not in
\* a synchronisation afterwards, and that at most empty slots.
LEMMA Leaves ==
  ASSUME DecksInv, NEW h \in Handlers, NEW t \in Task, ~InSync(t),
         t.pc = "loaded" => t.live \subseteq Seen /\ t.known \subseteq Seen,
         task' = [task EXCEPT ![h] = t],
         tagOf' \in [Users -> Tags \cup {NoTag}],
         battles' = battles, stored' \subseteq Seen,
         slots' = slots \/ \E u \in Users : slots' = [slots EXCEPT ![u] = NoSlots]
  PROVE  DecksInv'
  <1>1. slots \in [Users -> Slots] /\ NoSlots \in Slots /\ Tracked(NoSlots) = {}
    BY DecksAssumption DEF DecksInv, TypeOK, NoSlots, Slots, Tracked
  <1>2. slots' \in [Users -> Slots]
    BY <1>1
  <1>3. \A u \in Users : slots'[u] = slots[u] \/ slots'[u] = NoSlots
    BY <1>1
  <1>4. TypeOK'
    <2>1. stored' \subseteq Numbers
      BY DeckType DEF DecksInv
    <2> QED
      BY <1>2, <2>1 DEF DecksInv, TypeOK
  <1>5. SlotLimit'
    <2>1. Cardinality({}) <= MaxSlots
      BY FS_EmptySet, DecksAssumption
    <2> QED
      BY <1>1, <1>3, <2>1 DEF DecksInv, SlotLimit
  <1>6. OneSync'
    BY DEF DecksInv, TypeOK, OneSync, Syncing, InSync
  <1>7. ASSUME NEW g \in Handlers PROVE Sound(task[g])'
    <2>1. CASE g = h
      BY <2>1 DEF DecksInv, TypeOK, Sound, InSync, Seen
    <2>2. CASE g # h
      <3>1. task'[g] = task[g] /\ Sound(task[g])
        BY <2>2 DEF DecksInv, TypeOK
      <3>2. InSync(task[g]) => task[g].user \in Users
        BY SyncingType DEF DecksInv, SyncTask, Syncing, InSync
      <3>3. InSync(task[g]) =>
              Tracked(slots'[task[g].user]) \subseteq Tracked(slots[task[g].user])
        BY <1>1, <1>3, <3>2
      <3> QED
        BY <3>1, <3>3 DEF Sound, InSync, Seen
    <2> QED
      BY <2>1, <2>2
  <1> QED
    BY <1>4, <1>5, <1>6, <1>7 DEF DecksInv, Seen

LEMMA BattlesSeen ==
  ASSUME NEW tag PROVE BattleLog(tag) \subseteq Seen /\ PlayedBy(tag) \subseteq Seen
  BY DEF BattleLog, PlayedBy, Seen

\* Loading, and taking the lock with the slots as they are.
LEMMA Loads ==
  ASSUME DecksInv, NEW h \in Handlers, NEW u \in Players, Load(h, u)
  PROVE  DecksInv'
  <1>1. u \in Users /\ tagOf[u] \in Tags
    BY DecksAssumption DEF Load, DecksInv, TypeOK
  <1>2. Seen \subseteq Numbers
    BY DeckType DEF DecksInv
  <1>3. stored \subseteq Seen
    BY DEF DecksInv
  <1>4. PICK live \in {BattleLog(tagOf[u]), stored \cap PlayedBy(tagOf[u])} :
          /\ stored' = stored \cup live
          /\ Begin(h, [pc |-> "loaded", user |-> u, tag |-> tagOf[u],
                       live |-> live,
                       known |-> (stored \cap PlayedBy(tagOf[u])) \cup live])
    BY DEF Load
  <1>5. live \subseteq Seen
    BY <1>3, <1>4, BattlesSeen
  <1> DEFINE t == [pc |-> "loaded", user |-> u, tag |-> tagOf[u], live |-> live,
                   known |-> (stored \cap PlayedBy(tagOf[u])) \cup live]
  <1>6. t \in Task /\ ~InSync(t)
    BY <1>1, <1>2, <1>3, <1>5 DEF Task, InSync
  <1>7. t.live \subseteq Seen /\ t.known \subseteq Seen
    BY <1>3, <1>5
  <1>8. task' = [task EXCEPT ![h] = t] /\ stored' \subseteq Seen
    BY <1>3, <1>4, <1>5 DEF Begin
  <1>9. UNCHANGED <<tagOf, battles, slots>> /\ tagOf \in [Users -> Tags \cup {NoTag}]
    BY DEF Load, DecksInv, TypeOK
  <1> HIDE DEF t
  <1> QED
    BY <1>6, <1>7, <1>8, <1>9, Leaves

LEMMA Reads ==
  ASSUME DecksInv, NEW h \in Handlers, ReadSlots(h) PROVE DecksInv'
  <1> DEFINE t == task[h]
  <1>1. /\ t \in [pc : {"loaded"}, user : Users, tag : Tags,
                  live : SUBSET Numbers, known : SUBSET Numbers]
        /\ Sound(t)
    BY LoadedType DEF ReadSlots, DecksInv
  <1>2. t.live \subseteq Seen /\ t.known \subseteq Seen
    BY <1>1 DEF Sound
  <1>3. PICK p \in ProfileBattles(t) \cup {0} :
          task' = [task EXCEPT ![h] =
                    [pc |-> "ensuring", user |-> t.user, tag |-> t.tag,
                     live |-> t.live, known |-> t.known,
                     found |-> slots[t.user], work |-> slots[t.user],
                     added |-> {}, todo |-> Newest(t.live), profile |-> p]]
    BY DEF ReadSlots, Continue
  <1>4. p \in Seen \cup {0} /\ Newest(t.live) \subseteq Seen
    BY <1>2, <1>3 DEF ProfileBattles, Newest
  <1>5. Seen \subseteq Numbers /\ Numbers \subseteq 0..MaxBattles
    BY DeckType, DecksAssumption DEF DecksInv, Numbers
  <1>6. 0 \in 0..MaxBattles
    BY DecksAssumption
  <1>7. slots[t.user] \in Slots
    BY <1>1 DEF DecksInv, TypeOK
  <1> DEFINE new == [pc |-> "ensuring", user |-> t.user, tag |-> t.tag,
                     live |-> t.live, known |-> t.known,
                     found |-> slots[t.user], work |-> slots[t.user],
                     added |-> {}, todo |-> Newest(t.live), profile |-> p]
  <1>8. new \in SyncTask
    BY <1>1, <1>4, <1>5, <1>6, <1>7 DEF SyncTask
  <1>9. Sound(new)
    BY <1>1, <1>2, <1>4 DEF Sound, InSync, DecksInv, SlotLimit
  <1>10. new.user = t.user /\ InSync(new)
    BY DEF InSync
  <1> HIDE DEF new
  <1>11. task' = [task EXCEPT ![h] = new]
    BY <1>3 DEF new
  <1>12. TypeOK'
    BY <1>8, <1>11 DEF ReadSlots, DecksInv, TypeOK, Task
  <1>13. OneSync'
    <2>1. \A g \in Handlers : Syncing(g) => task[g].user # t.user
      BY DEF ReadSlots, Locked
    <2>2. \A g \in Handlers \ {h} : task'[g] = task[g]
      BY <1>11 DEF DecksInv, TypeOK
    <2>3. task'[h] = new
      BY <1>11 DEF DecksInv, TypeOK
    <2> QED
      BY <1>10, <2>1, <2>2, <2>3 DEF DecksInv, OneSync, Syncing
  <1>14. ASSUME NEW g \in Handlers PROVE Sound(task[g])'
    <2>1. Sound(task'[g])
      BY <1>9, <1>11 DEF DecksInv, TypeOK
    <2> QED
      BY <2>1 DEF ReadSlots, Sound, InSync, Seen
  <1> QED
    BY <1>12, <1>13, <1>14 DEF ReadSlots, DecksInv, SlotLimit, Seen

\* A battle more has been played.
LEMMA Plays ==
  ASSUME DecksInv, NEW tag \in Tags, NEW d \in Decks, Play(tag, d)
  PROVE  DecksInv'
  <1>1. battles \in Seq([tag : Tags, deck : Decks]) /\ Len(battles) < MaxBattles
    BY DEF Play, DecksInv, TypeOK
  <1>2. /\ battles' \in Seq([tag : Tags, deck : Decks])
        /\ Len(battles') = Len(battles) + 1 /\ Len(battles) \in Nat
    BY <1>1, AppendProperties, LenProperties DEF Play
  <1>3. Seen \subseteq Seen'
    BY <1>2 DEF Seen
  <1>4. TypeOK'
    BY <1>1, <1>2, DecksAssumption DEF Play, DecksInv, TypeOK
  <1>5. ASSUME NEW g \in Handlers PROVE Sound(task[g])'
    BY <1>3 DEF Play, DecksInv, Sound, InSync
  <1> QED
    BY <1>3, <1>4, <1>5 DEF Play, DecksInv, OneSync, SlotLimit, Syncing

LEMMA DecksStep == DecksInv /\ [Next]_vars => DecksInv'
  <1> SUFFICES ASSUME DecksInv, [Next]_vars PROVE DecksInv'
    OBVIOUS
  <1>1. /\ stored \subseteq Seen /\ tagOf \in [Users -> Tags \cup {NoTag}]
        /\ task \in [Handlers -> Task] /\ Idle \in Task /\ ~InSync(Idle)
        /\ Idle.pc = "idle"
    BY DEF DecksInv, TypeOK, Task, Idle, InSync
  <1>2. CASE Crash
    <2>1. TypeOK'
      BY <1>1, <1>2 DEF Crash, DecksInv, TypeOK
    <2>2. \A h \in Handlers : task'[h] = Idle
      BY <1>2 DEF Crash
    <2> QED
      BY <1>1, <1>2, <2>1, <2>2
      DEF Crash, DecksInv, OneSync, Sound, InSync, Syncing, SlotLimit, Seen
  <1>3. ASSUME NEW tag \in Tags, NEW d \in Decks, Play(tag, d) PROVE DecksInv'
    BY <1>3, Plays
  <1>4. ASSUME NEW u \in Users, Unlink(u) PROVE DecksInv'
    <2>1. TypeOK'
      BY <1>4 DEF Unlink, DecksInv, TypeOK
    <2> QED
      BY <1>4, <2>1
      DEF Unlink, DecksInv, OneSync, Sound, InSync, Syncing, SlotLimit, Seen
  <1>5. ASSUME NEW h \in Handlers, NEW u \in Users, NEW tag \in Tags,
               BeginLink(h, u, tag)
        PROVE  DecksInv'
    <2> DEFINE t == [pc |-> "linking", user |-> u, tag |-> tag]
    <2>1. t \in Task /\ ~InSync(t) /\ t.pc # "loaded"
      BY DEF Task, InSync
    <2>2. /\ task' = [task EXCEPT ![h] = t]
          /\ UNCHANGED <<tagOf, battles, stored>>
          /\ slots' = slots \/ slots' = [slots EXCEPT ![u] = NoSlots]
      BY <1>5 DEF BeginLink, Begin
    <2> HIDE DEF t
    <2> QED
      BY <1>1, <2>1, <2>2, Leaves
  <1>6. ASSUME NEW h \in Handlers, NEW u \in Players, Load(h, u) PROVE DecksInv'
    BY <1>6, Loads
  <1>7. ASSUME NEW h \in Handlers, CommitLink(h) PROVE DecksInv'
    <2>1. task[h].user \in Users /\ task[h].tag \in Tags
      BY <1>7, LinkingType DEF CommitLink, DecksInv
    <2>2. tagOf' \in [Users -> Tags \cup {NoTag}]
      BY <1>1, <1>7, <2>1 DEF CommitLink
    <2>3. task' = [task EXCEPT ![h] = Idle] /\ UNCHANGED <<battles, stored, slots>>
      BY <1>7 DEF CommitLink, Finish
    <2> QED
      BY <1>1, <2>2, <2>3, Leaves
  <1>8. ASSUME NEW h \in Handlers, SyncStep(h) PROVE DecksInv'
    BY <1>8, Reads, Drops, Saves, Ensures DEF SyncStep
  <1>9. CASE UNCHANGED vars
    <2>1. TypeOK'
      BY <1>9 DEF vars, DecksInv, TypeOK
    <2> QED
      BY <1>9, <2>1
      DEF vars, DecksInv, OneSync, Sound, InSync, Syncing, SlotLimit, Seen
  <1> QED
    BY <1>2, <1>3, <1>4, <1>5, <1>6, <1>7, <1>8, <1>9 DEF Next

\* The inductive invariant of linking and tracking.
THEOREM DecksInvariant == Spec => []DecksInv
  BY DecksInit, DecksStep, PTL DEF Spec

\* Every variable keeps its type (the model's state, whatever the handlers do).
THEOREM DecksTypeCorrect == Spec => []TypeOK
  <1>1. DecksInv => TypeOK
    BY DEF DecksInv
  <1> QED
    BY <1>1, DecksInvariant, PTL

\* No user has more slots than the limit, although linking deletes slots without
\* the lock under which sync_tracked_mine_decks computes and writes them.
THEOREM SlotsLimited == Spec => []SlotLimit
  <1>1. DecksInv => SlotLimit
    BY DEF DecksInv
  <1> QED
    BY <1>1, DecksInvariant, PTL

\* What ensure_slot has inserted it does not evict in the same synchronisation.
THEOREM AddedDecksStay == Spec => []AddedStay
  <1>1. DecksInv => AddedStay
    BY DEF DecksInv, AddedStay, Sound, InSync, Syncing
  <1> QED
    BY <1>1, DecksInvariant, PTL

-----------------------------------------------------------------------------
LEMMA OwnerStep == TypeOK /\ TagOwnedOnce /\ [Next]_vars => TagOwnedOnce'
  <1> SUFFICES ASSUME TypeOK, TagOwnedOnce, [Next]_vars PROVE TagOwnedOnce'
    OBVIOUS
  <1>1. ASSUME NEW u \in Users, Unlink(u) PROVE TagOwnedOnce'
    BY <1>1, DecksAssumption DEF Unlink, TypeOK, TagOwnedOnce
  <1>2. ASSUME NEW h \in Handlers, CommitLink(h) PROVE TagOwnedOnce'
    <2>1. task[h].user \in Users /\ task[h].tag \in Tags
      BY <1>2, LinkingType DEF CommitLink
    <2>2. CASE TagTaken(task[h].tag, task[h].user)
      BY <1>2, <2>2 DEF CommitLink, TagOwnedOnce
    <2>3. CASE ~TagTaken(task[h].tag, task[h].user)
      <3>1. tagOf' = [tagOf EXCEPT ![task[h].user] = task[h].tag]
        BY <1>2, <2>3 DEF CommitLink
      <3>2. \A v \in Users \ {task[h].user} : tagOf[v] # task[h].tag
        BY <2>3 DEF TagTaken, Owned
      <3> QED
        BY <2>1, <3>1, <3>2 DEF TypeOK, TagOwnedOnce
    <2> QED
      BY <2>2, <2>3
  <1>3. ASSUME tagOf' = tagOf PROVE TagOwnedOnce'
    BY <1>3, Zenon DEF TagOwnedOnce
  <1>4. ASSUME NEW h \in Handlers, SyncStep(h) PROVE tagOf' = tagOf
    BY <1>4, Zenon DEF SyncStep, ReadSlots, DropUnplayed, Save, EnsureSlot
  <1> QED
    BY <1>1, <1>2, <1>3, <1>4 DEF Next, vars, Crash, Play, BeginLink, Load

\* A tag has one owner, however link_player calls of several users overlap.
THEOREM TagsOwnedOnce == Spec => []TagOwnedOnce
  <1>1. Init => TagOwnedOnce
    BY DEF Init, TagOwnedOnce
  <1> QED
    BY <1>1, OwnerStep, DecksTypeCorrect, PTL DEF Spec

-----------------------------------------------------------------------------
\* The history a synchronisation works from.  The battles are a parameter, for
\* the counts before and after a step to be compared.

Times(b, d, known) == Cardinality({i \in known : b[i].deck = d})

PlayedIn(b, known) == {d \in Decks : \E i \in known : b[i].deck = d}

\* The replacement rule, of one task.
Fair(b, t) ==
    \A d \in Tracked(t.found) \ Tracked(t.work), e \in Tracked(t.work) \ t.added :
      Times(b, d, t.known) <= Times(b, e, t.known)

\* What a task ensures and adds comes from its history; so does all it has left
\* once the slots without battles have been dropped.
Rooted(b, t) ==
    /\ t.pc = "loaded" \/ InSync(t) => t.live \subseteq t.known
    /\ InSync(t) =>
         /\ t.todo \subseteq t.known /\ t.profile \in t.known \cup {0}
         /\ t.added \subseteq PlayedIn(b, t.known)
    /\ t.pc = "ensuring" => Fair(b, t)
    /\ t.pc \in {"filling", "saving"} =>
         Tracked(t.work) \subseteq PlayedIn(b, t.known)

HistoryInv == \A h \in Handlers : Rooted(battles, task[h])

LEMMA TimesFinite ==
  ASSUME DecksInv, NEW known \in SUBSET Seen, NEW d
  PROVE  /\ IsFiniteSet({i \in known : battles[i].deck = d})
         /\ Times(battles, d, known) \in Nat
  <1>1. Len(battles) \in Nat
    BY DEF DecksInv, TypeOK
  <1>2. IsFiniteSet(Seen)
    BY <1>1, FS_Interval DEF Seen
  <1>3. IsFiniteSet({i \in known : battles[i].deck = d})
    BY <1>2, FS_Subset
  <1> QED
    BY <1>3, FS_CardinalityType DEF Times

\* A deck has a positive count exactly when it has been played.
LEMMA Counted ==
  ASSUME DecksInv, NEW known \in SUBSET Seen, NEW d \in Decks
  PROVE  Count(d, known) > 0 <=> d \in PlayedIn(battles, known)
  <1> DEFINE set == {i \in known : battles[i].deck = d}
  <1>1. IsFiniteSet(set) /\ Cardinality(set) \in Nat
    BY TimesFinite DEF Times
  <1>2. Cardinality(set) = 0 <=> set = {}
    BY <1>1, FS_EmptySet
  <1>3. set = {} <=> d \notin PlayedIn(battles, known)
    BY DEF PlayedIn
  <1>4. Count(d, known) = Cardinality(set)
    BY DEF Count, DeckOf
  <1> QED
    BY <1>1, <1>2, <1>3, <1>4

\* One battle more changes nothing that is known of the earlier ones.
LEMMA OneMore ==
  ASSUME DecksInv, NEW b, \A i \in Seen : b[i] = battles[i],
         NEW h \in Handlers, Rooted(battles, task[h])
  PROVE  Rooted(b, task[h])
  <1> DEFINE t == task[h]
  <1>1. t.pc = "loaded" \/ InSync(t) => t.known \subseteq Seen
    BY DEF DecksInv, Sound
  <1>2. ASSUME InSync(t), NEW d PROVE Times(b, d, t.known) = Times(battles, d, t.known)
    <2>1. {i \in t.known : b[i].deck = d} = {i \in t.known : battles[i].deck = d}
      BY <1>1, <1>2
    <2> QED
      BY <2>1 DEF Times
  <1>3. ASSUME InSync(t) PROVE PlayedIn(b, t.known) = PlayedIn(battles, t.known)
    BY <1>1, <1>3 DEF PlayedIn
  <1>4. t.pc = "ensuring" => Fair(b, t)
    BY <1>2 DEF Rooted, Fair, InSync
  <1> QED
    BY <1>3, <1>4 DEF Rooted, InSync

\* A handler's own step keeps the history if its new task is rooted.
LEMMA Roots ==
  ASSUME DecksInv, HistoryInv, NEW h \in Handlers, NEW t,
         Rooted(battles, t), task' = [task EXCEPT ![h] = t], battles' = battles
  PROVE  HistoryInv'
  BY DEF HistoryInv, DecksInv, TypeOK

\* Idle or linking, a handler has no history.
LEMMA NoHistory ==
  ASSUME NEW t, t.pc \in {"idle", "linking"} PROVE Rooted(battles, t)
  BY DEF Rooted, InSync

LEMMA RestRooted ==
  ASSUME NEW t \in SyncTask, NEW i, t.pc # "saving", Rooted(battles, t)
  PROVE  /\ Rooted(battles, Rest(t, i))
         /\ Rest(t, i).known = t.known /\ Rest(t, i).found = t.found
  BY DecksAssumption DEF Rest, SyncTask, Rooted, InSync, Fair

-----------------------------------------------------------------------------
\* The steps of a synchronisation.

LEMMA LoadRooted ==
  ASSUME DecksInv, HistoryInv, NEW h \in Handlers, NEW u \in Players, Load(h, u)
  PROVE  HistoryInv'
  <1>1. PICK live \in {BattleLog(tagOf[u]), stored \cap PlayedBy(tagOf[u])} :
          Begin(h, [pc |-> "loaded", user |-> u, tag |-> tagOf[u], live |-> live,
                    known |-> (stored \cap PlayedBy(tagOf[u])) \cup live])
    BY DEF Load
  <1> DEFINE t == [pc |-> "loaded", user |-> u, tag |-> tagOf[u], live |-> live,
                   known |-> (stored \cap PlayedBy(tagOf[u])) \cup live]
  <1>2. Rooted(battles, t)
    BY DEF Rooted, InSync
  <1>3. task' = [task EXCEPT ![h] = t] /\ battles' = battles
    BY <1>1 DEF Load, Begin
  <1> HIDE DEF t
  <1> QED
    BY <1>2, <1>3, Roots

\* A synchronisation starts with nothing evicted and nothing added.
LEMMA ReadRooted ==
  ASSUME DecksInv, HistoryInv, NEW h \in Handlers, ReadSlots(h)
  PROVE  HistoryInv'
  <1> DEFINE t == task[h]
  <1>1. t.live \subseteq t.known
    BY DEF ReadSlots, HistoryInv, Rooted
  <1>2. PICK p \in ProfileBattles(t) \cup {0} :
          task' = [task EXCEPT ![h] =
                    [pc |-> "ensuring", user |-> t.user, tag |-> t.tag,
                     live |-> t.live, known |-> t.known,
                     found |-> slots[t.user], work |-> slots[t.user],
                     added |-> {}, todo |-> Newest(t.live), profile |-> p]]
    BY DEF ReadSlots, Continue
  <1> DEFINE new == [pc |-> "ensuring", user |-> t.user, tag |-> t.tag,
                     live |-> t.live, known |-> t.known,
                     found |-> slots[t.user], work |-> slots[t.user],
                     added |-> {}, todo |-> Newest(t.live), profile |-> p]
  <1>3. p \in t.known \cup {0} /\ Newest(t.live) \subseteq t.known
    BY <1>1, <1>2 DEF ProfileBattles, Newest
  <1>4. Rooted(battles, new)
    BY <1>1, <1>3 DEF Rooted, InSync, Fair
  <1>5. task' = [task EXCEPT ![h] = new] /\ battles' = battles
    BY <1>2 DEF ReadSlots
  <1> HIDE DEF new
  <1> QED
    BY <1>4, <1>5, Roots

\* ensure_slot: the victim has no more battles than any other candidate, and
\* what takes its place has been played.
LEMMA EnsureRooted ==
  ASSUME DecksInv, HistoryInv, NEW h \in Handlers, NEW i \in Numbers,
         EnsureSlot(h, i)
  PROVE  HistoryInv'
  <1> DEFINE t == task[h]
             d == DeckOf(i)
             rest == Rest(t, i)
  <1>1. Syncing(h) /\ t.pc # "saving" /\ InSync(t) /\ battles' = battles
    BY DEF EnsureSlot, Syncing, InSync
  <1>2. t \in SyncTask /\ Sound(t) /\ Rooted(battles, t)
    BY <1>1, SyncingType, SMTT(30) DEF DecksInv, HistoryInv
  <1>3. i \in t.known /\ t.known \subseteq Seen
    BY <1>1, <1>2, DecksAssumption DEF EnsureSlot, IsNext, Sound, Rooted, SyncTask
  <1>4. d \in Decks /\ d \in PlayedIn(battles, t.known)
    BY <1>3, DeckType DEF DecksInv, PlayedIn, DeckOf
  <1>5. /\ rest \in SyncTask /\ Rooted(battles, rest)
        /\ rest.work = t.work /\ rest.added = t.added /\ rest.pc = t.pc
        /\ rest.known = t.known /\ rest.found = t.found
    BY <1>1, <1>2, RestType, RestRooted
  <1>6. rest.work \in Slots
    BY <1>5 DEF SyncTask
  <1> HIDE DEF rest, d
  \* A new working set over the history, under the replacement rule.
  <1>7. ASSUME NEW work \in Slots, NEW added \in SUBSET PlayedIn(battles, t.known),
               Tracked(work) \subseteq Tracked(t.work) \cup PlayedIn(battles, t.known),
               t.pc = "ensuring" =>
                 \A c \in Tracked(t.found) \ Tracked(work), e \in Tracked(work) \ added :
                   Times(battles, c, t.known) <= Times(battles, e, t.known),
               Continue(h, [rest EXCEPT !.work = work, !.added = added])
        PROVE  HistoryInv'
    <2> DEFINE new == [rest EXCEPT !.work = work, !.added = added]
    <2>1. /\ new.pc = rest.pc /\ new.live = rest.live /\ new.known = rest.known
          /\ new.todo = rest.todo /\ new.profile = rest.profile
          /\ new.found = rest.found /\ new.work = work /\ new.added = added
      BY <1>5 DEF SyncTask
    <2> HIDE DEF new
    <2>2. t.pc = "ensuring" => Fair(battles, new)
      BY <1>5, <1>7, <2>1 DEF Fair
    <2>3. Rooted(battles, new)
      BY <1>1, <1>5, <1>7, <2>1, <2>2 DEF Rooted, InSync
    <2>4. task' = [task EXCEPT ![h] = new]
      BY <1>7 DEF Continue, new
    <2> QED
      BY <1>1, <2>3, <2>4, Roots
  <1>8. t.pc = "ensuring" => Fair(battles, t)
    BY <1>2 DEF Rooted
  <1>9. t.added \subseteq PlayedIn(battles, t.known)
    BY <1>1, <1>2 DEF Rooted
  <1>10. CASE /\ d \in Tracked(t.work)
              /\ Continue(h, [rest EXCEPT !.work[d] = IF i > @ THEN i ELSE @])
    <2> DEFINE work == [t.work EXCEPT ![d] = IF i > @ THEN i ELSE @]
    <2>1. work \in Slots /\ Tracked(work) = Tracked(t.work)
      BY <1>5, <1>6, <1>10, Touch
    <2>2. [rest EXCEPT !.work[d] = IF i > @ THEN i ELSE @]
          = [rest EXCEPT !.work = work, !.added = t.added]
      BY <1>5 DEF SyncTask
    <2> HIDE DEF work
    <2> QED
      BY <1>7, <1>8, <1>9, <1>10, <2>1, <2>2 DEF Fair
  <1>11. CASE /\ d \notin Tracked(t.work)
              /\ Continue(h, [rest EXCEPT !.work[d] = i, !.added = @ \cup {d}])
    <2> DEFINE work == [t.work EXCEPT ![d] = i]
    <2>1. work \in Slots /\ Tracked(work) = Tracked(t.work) \cup {d}
      BY <1>4, <1>5, <1>6, <1>11, Add
    <2>2. [rest EXCEPT !.work[d] = i, !.added = @ \cup {d}]
          = [rest EXCEPT !.work = work, !.added = t.added \cup {d}]
      BY <1>5 DEF SyncTask
    <2> HIDE DEF work
    <2>3. Tracked(work) \ (t.added \cup {d}) \subseteq Tracked(t.work) \ t.added
      BY <2>1
    <2>4. t.pc = "ensuring" =>
            \A c \in Tracked(t.found) \ Tracked(work),
               e \in Tracked(work) \ (t.added \cup {d}) :
              Times(battles, c, t.known) <= Times(battles, e, t.known)
      BY <1>8, <2>1, <2>3 DEF Fair
    <2>5. /\ t.added \cup {d} \in SUBSET PlayedIn(battles, t.known)
          /\ Tracked(work) \subseteq Tracked(t.work) \cup PlayedIn(battles, t.known)
      BY <1>4, <1>9, <2>1
    <2>6. Continue(h, [rest EXCEPT !.work = work, !.added = t.added \cup {d}])
      BY <1>11, <2>2
    <2> QED
      BY <1>7, <2>1, <2>4, <2>5, <2>6
  <1>12. CASE Continue(h, rest)
    BY <1>1, <1>5, <1>12, Roots DEF Continue
  <1>13. ASSUME NEW victim \in Candidates(t),
                \A e \in Candidates(t) : ~LessPlayed(t, e, victim),
                d \notin Tracked(t.work),
                Continue(h, [rest EXCEPT
                  !.work = [@ EXCEPT ![victim] = 0, ![d] = i],
                  !.added = @ \cup {d}])
         PROVE  HistoryInv'
    <2> DEFINE work == [t.work EXCEPT ![victim] = 0, ![d] = i]
    <2>1. victim \in Tracked(t.work) /\ victim \notin t.added
      BY <1>13 DEF Candidates
    <2>2. /\ work \in Slots
          /\ Tracked(work) = (Tracked(t.work) \ {victim}) \cup {d}
      BY <1>4, <1>5, <1>6, <1>13, <2>1, Replace
    <2>3. [rest EXCEPT !.work = [@ EXCEPT ![victim] = 0, ![d] = i],
                       !.added = @ \cup {d}]
          = [rest EXCEPT !.work = work, !.added = t.added \cup {d}]
      BY <1>5 DEF SyncTask
    <2> HIDE DEF work
    <2>4. Tracked(work) \ (t.added \cup {d}) \subseteq Candidates(t)
      BY <2>2 DEF Candidates
    <2>5. ASSUME NEW e \in Candidates(t)
          PROVE  Times(battles, victim, t.known) <= Times(battles, e, t.known)
      <3>1. ~(Count(e, t.known) < Count(victim, t.known))
        BY <1>13, <2>5 DEF LessPlayed
      <3>2. /\ Count(e, t.known) = Times(battles, e, t.known)
            /\ Count(victim, t.known) = Times(battles, victim, t.known)
        BY DEF Count, DeckOf, Times
      <3>3. Times(battles, e, t.known) \in Nat /\ Times(battles, victim, t.known) \in Nat
        BY <1>3, TimesFinite
      <3> QED
        BY <3>1, <3>2, <3>3
    <2>6. ASSUME t.pc = "ensuring",
                 NEW c \in Tracked(t.found) \ Tracked(work),
                 NEW e \in Tracked(work) \ (t.added \cup {d})
          PROVE  Times(battles, c, t.known) <= Times(battles, e, t.known)
      <3>1. e \in Tracked(t.work) \ t.added /\ e \in Candidates(t)
        BY <2>4, <2>6 DEF Candidates
      <3>2. c = victim \/ c \in Tracked(t.found) \ Tracked(t.work)
        BY <2>2, <2>6
      <3> QED
        BY <1>8, <2>5, <2>6, <3>1, <3>2 DEF Fair
    <2>7. /\ t.added \cup {d} \in SUBSET PlayedIn(battles, t.known)
          /\ Tracked(work) \subseteq Tracked(t.work) \cup PlayedIn(battles, t.known)
      BY <1>4, <1>9, <2>2
    <2>8. Continue(h, [rest EXCEPT !.work = work, !.added = t.added \cup {d}])
      BY <1>13, <2>3
    <2> QED
      BY <1>7, <2>2, <2>6, <2>7, <2>8
  <1> QED
    BY <1>10, <1>11, <1>12, <1>13 DEF EnsureSlot, rest, d

\* What is not dropped has been played; a refill comes from the history.
LEMMA DropRooted ==
  ASSUME DecksInv, HistoryInv, NEW h \in Handlers, DropUnplayed(h)
  PROVE  HistoryInv'
  <1> DEFINE t == task[h]
             work == [d \in Decks |-> IF Kept(t, d) THEN t.work[d] ELSE 0]
  <1>1. Syncing(h) /\ InSync(t) /\ t.pc = "ensuring" /\ battles' = battles
    BY DEF DropUnplayed, Syncing, InSync
  <1>2. t \in SyncTask /\ Sound(t) /\ Rooted(battles, t)
    BY <1>1, SyncingType DEF DecksInv, HistoryInv
  <1>3. t.known \in SUBSET Seen
    BY <1>1, <1>2 DEF Sound
  <1>4. ASSUME NEW d \in Tracked(work) PROVE d \in PlayedIn(battles, t.known)
    <2>1. d \in Decks /\ Kept(t, d)
      BY <1>4 DEF Tracked
    <2>2. CASE Count(d, t.known) > 0
      BY <1>3, <2>1, <2>2, Counted
    <2>3. CASE \E i \in t.live : DeckOf(i) = d
      BY <1>1, <1>2, <2>1, <2>3 DEF Rooted, PlayedIn, DeckOf
    <2>4. CASE d \in t.added
      BY <1>1, <1>2, <2>4 DEF Rooted
    <2> QED
      BY <2>1, <2>2, <2>3, <2>4 DEF Kept
  <1>5. Latest(t.known) \subseteq t.known
    BY DEF Latest, Newest
  <1> HIDE DEF work
  <1>6. CASE Continue(h, [t EXCEPT !.pc = "filling", !.work = work,
                                   !.todo = Latest(t.known)])
    <2> DEFINE new == [t EXCEPT !.pc = "filling", !.work = work,
                                !.todo = Latest(t.known)]
    <2>1. Rooted(battles, new)
      BY <1>1, <1>2, <1>4, <1>5 DEF Rooted, InSync, SyncTask
    <2>2. task' = [task EXCEPT ![h] = new]
      BY <1>6 DEF Continue
    <2> HIDE DEF new
    <2> QED
      BY <1>1, <2>1, <2>2, Roots
  <1>7. CASE Continue(h, [t EXCEPT !.pc = "saving", !.work = work])
    <2> DEFINE new == [t EXCEPT !.pc = "saving", !.work = work]
    <2>1. Rooted(battles, new)
      BY <1>1, <1>2, <1>4 DEF Rooted, InSync, SyncTask
    <2>2. task' = [task EXCEPT ![h] = new]
      BY <1>7 DEF Continue
    <2> HIDE DEF new
    <2> QED
      BY <1>1, <2>1, <2>2, Roots
  <1> QED
    BY <1>6, <1>7 DEF DropUnplayed, work

LEMMA HistoryStep == DecksInv /\ HistoryInv /\ [Next]_vars => HistoryInv'
  <1> SUFFICES ASSUME DecksInv, HistoryInv, [Next]_vars PROVE HistoryInv'
    OBVIOUS
  <1>1. Rooted(battles, Idle)
    BY NoHistory DEF Idle
  <1>2. CASE Crash
    BY <1>1, <1>2 DEF Crash, HistoryInv
  <1>3. ASSUME NEW tag \in Tags, NEW d \in Decks, Play(tag, d) PROVE HistoryInv'
    <2>1. battles \in Seq([tag : Tags, deck : Decks])
      BY DEF DecksInv, TypeOK
    <2>2. \A i \in Seen : battles'[i] = battles[i]
      BY <1>3, <2>1, AppendProperties DEF Play, Seen
    <2>3. task' = task
      BY <1>3 DEF Play
    <2>4. ASSUME NEW h \in Handlers PROVE Rooted(battles', task[h])
      BY <2>2, OneMore DEF HistoryInv
    <2> QED
      BY <2>3, <2>4 DEF HistoryInv
  <1>4. ASSUME NEW h \in Handlers, NEW u \in Users, NEW tag \in Tags,
               BeginLink(h, u, tag)
        PROVE  HistoryInv'
    <2> DEFINE t == [pc |-> "linking", user |-> u, tag |-> tag]
    <2>1. Rooted(battles, t)
      BY NoHistory
    <2>2. task' = [task EXCEPT ![h] = t] /\ battles' = battles
      BY <1>4 DEF BeginLink, Begin
    <2> HIDE DEF t
    <2> QED
      BY <2>1, <2>2, Roots
  <1>5. ASSUME NEW h \in Handlers, CommitLink(h) \/ Save(h) PROVE HistoryInv'
    <2>1. task' = [task EXCEPT ![h] = Idle] /\ battles' = battles
      BY <1>5 DEF CommitLink, Save, Finish
    <2> QED
      BY <1>1, <2>1, Roots
  <1>6. ASSUME NEW h \in Handlers, SyncStep(h) PROVE HistoryInv'
    BY <1>5, <1>6, ReadRooted, DropRooted, EnsureRooted DEF SyncStep
  <1>7. ASSUME task' = task, battles' = battles PROVE HistoryInv'
    BY <1>7 DEF HistoryInv
  <1> QED
    BY <1>2, <1>3, <1>4, <1>5, <1>6, <1>7, LoadRooted DEF Next, vars, Unlink

LEMMA HistoryInvariant == Spec => []HistoryInv
  <1>1. Init => HistoryInv
    BY NoHistory DEF Init, HistoryInv, Idle
  <1> QED
    BY <1>1, HistoryStep, DecksInvariant, PTL DEF Spec

\* Whatever has been evicted from "my decks" in a synchronisation has no more
\* battles than any slot that survived it, however many were evicted.
THEOREM LeastPlayedGoesFirst == Spec => []LeastPlayedGoes
  <1>1. HistoryInv => LeastPlayedGoes
    <2>1. \A d, known : Count(d, known) = Times(battles, d, known)
      BY DEF Count, DeckOf, Times
    <2> QED
      BY <2>1 DEF HistoryInv, Rooted, Fair, LeastPlayedGoes
  <1> QED
    BY <1>1, HistoryInvariant, PTL

LEMMA SavedAreOwn ==
  ASSUME DecksInv, HistoryInv, NEW h \in Handlers, SavedBy(h),
         NEW d \in Tracked(slots'[task[h].user])
  PROVE  Count(d, task[h].known) > 0
  <1> DEFINE t == task[h]
  <1>1. /\ Syncing(h) /\ InSync(t) /\ t.pc \in {"filling", "saving"}
        /\ slots' = [slots EXCEPT ![t.user] = Written(t)]
    BY DEF SavedBy, Save, Syncing, InSync
  <1>2. t \in SyncTask /\ Sound(t) /\ Rooted(battles, t)
    BY <1>1, SyncingType DEF DecksInv, HistoryInv
  <1>3. t.user \in Users /\ t.work \in Slots /\ t.found \in Slots
    BY <1>2 DEF SyncTask
  <1>4. slots'[t.user] = Written(t) /\ slots[t.user] \in Slots
    BY <1>1, <1>3 DEF DecksInv, TypeOK
  <1>5. Tracked(Written(t)) \subseteq Tracked(t.work)
    BY <1>1, <1>2, <1>3, <1>4 DEF Sound, Written, Tracked, Slots
  <1>6. d \in PlayedIn(battles, t.known) /\ d \in Decks
    BY <1>1, <1>2, <1>4, <1>5 DEF Rooted, PlayedIn
  <1>7. t.known \in SUBSET Seen
    BY <1>1, <1>2 DEF Sound
  <1> QED
    BY <1>6, <1>7, Counted

\* After a synchronisation every slot is of a deck that its tag has played: the
\* slots another tag left behind do not survive it.
THEOREM NoForeignSlots == Spec => NothingForeignLeft
  <1> DEFINE Own ==
        \A h \in Handlers :
          SavedBy(h) =>
            \A d \in Tracked(slots'[task[h].user]) : Count(d, task[h].known) > 0
  <1>1. DecksInv /\ HistoryInv => [Own]_vars
    BY SavedAreOwn
  <1> QED
    BY <1>1, DecksInvariant, HistoryInvariant, PTL DEF NothingForeignLeft
=============================================================================
