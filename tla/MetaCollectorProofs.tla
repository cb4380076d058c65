------------------------- MODULE MetaCollectorProofs -------------------------
(***************************************************************************)
(* The types of MetaCollector, and that the games of a deck are different  *)
(* battles, although two sources and many cycles report them.              *)
(***************************************************************************)
EXTENDS MetaCollector, FiniteSetTheorems, WellFoundedInduction, TLAPS

\* No two observations have the same key, whatever their sources.
UniqueKeys(rows) == \A r, s \in rows : SameKey(r, s) => r = s

\* What a cycle has found so far belongs to the mode it is scanning.
FoundMode == task.pc \in {"scan", "save"} => \A r \in task.found : r.mode = task.mode

\* The aggregates count the observations.
CountsObservations == \A m \in Modes, d \in Decks : agg[m, d] = Games(obs, m, d)

\* So do the daily rows, those that no rebuild has touched included: observations
\* are never deleted, so a day without one has never had a row.
CountsByDay ==
    \A m \in Modes, d \in Decks, t \in Days : daily[m, d, t] = GamesOf(obs, m, d, t)

MetaInv == TypeOK /\ UniqueKeys(obs) /\ FoundMode /\ CountsObservations /\ CountsByDay

-----------------------------------------------------------------------------
\* Rows of different battles are as many as their battles.
LEMMA RowsAreBattles ==
    ASSUME NEW sel, sel \subseteq Row,
           \A r, s \in sel : r.battle = s.battle => r = s
    PROVE  /\ IsFiniteSet(sel) /\ Cardinality(sel) \in Nat
           /\ Cardinality(sel) = Cardinality({r.battle : r \in sel})
<1> DEFINE T == {r.battle : r \in sel}
           f == [r \in sel |-> r.battle]
<1>1. IsFiniteSet(T)
  <2>1. T \subseteq Battles
    BY DEF Row
  <2> QED
    BY <2>1, FS_Subset, MetaAssumption
<1>2. f \in Injection(sel, T)
  BY DEF Injection, IsInjective
<1>3. f \in Surjection(sel, T)
  BY DEF Surjection
<1>4. IsFiniteSet(sel) /\ Cardinality(sel) = Cardinality(T)
  <2> HIDE DEF f, T
  <2> QED
    BY <1>1, <1>2, <1>3, FS_Injection
<1> QED
  BY <1>4, FS_CardinalityType

LEMMA GamesType ==
    ASSUME NEW rows \in SUBSET Row, UniqueKeys(rows), NEW m, NEW d, NEW t
    PROVE  Games(rows, m, d) \in Nat /\ GamesOf(rows, m, d, t) \in Nat
<1>1. Games(rows, m, d) \in Nat
  <2> DEFINE sel == {r \in rows : r.mode = m /\ Deck[r.battle] = d}
  <2>1. sel \subseteq Row /\ \A r, s \in sel : r.battle = s.battle => r = s
    BY DEF UniqueKeys, SameKey
  <2> HIDE DEF sel
  <2>2. Cardinality(sel) \in Nat
    BY <2>1, RowsAreBattles
  <2> QED
    BY <2>2 DEF sel, Games
<1>2. GamesOf(rows, m, d, t) \in Nat
  <2> DEFINE sel == {r \in rows : r.mode = m /\ Deck[r.battle] = d /\ Day[r.battle] = t}
  <2>1. sel \subseteq Row /\ \A r, s \in sel : r.battle = s.battle => r = s
    BY DEF UniqueKeys, SameKey
  <2> HIDE DEF sel
  <2>2. Cardinality(sel) \in Nat
    BY <2>1, RowsAreBattles
  <2> QED
    BY <2>2 DEF sel, GamesOf
<1> QED
  BY <1>1, <1>2

\* Inserting skips what is there, and what the same transaction inserts first.
LEMMA InsertedUnique ==
    ASSUME TypeOK, UniqueKeys(obs), NEW new \in SUBSET Row
    PROVE  Inserted(new) \subseteq Row /\ UniqueKeys(Inserted(new))
<1> USE DEF TypeOK
<1>1. Inserted(new) \subseteq Row
  BY DEF Inserted
<1>2. ASSUME NEW r \in Inserted(new), NEW s \in Inserted(new), SameKey(r, s)
      PROVE  r = s
  <2>1. SameKey(s, r)
    BY <1>2 DEF SameKey
  <2>2. CASE r \in obs \/ s \in obs
    <3>1. r \in obs /\ s \in obs
      BY <1>2, <2>1, <2>2 DEF Inserted
    <3> QED
      BY <1>2, <3>1 DEF UniqueKeys
  <2>3. CASE r \notin obs /\ s \notin obs
    <3>1. r \in new /\ s \in new
      BY <1>2, <2>3 DEF Inserted
    <3>2. r.source = s.source
      <4>1. r.source \in Sources /\ s.source \in Sources
        BY <3>1 DEF Row
      <4>2. ~(r.source = "ghosteek_cache" /\ s.source = "cr_api")
        BY <1>2, <2>3, <3>1 DEF Inserted
      <4>3. ~(s.source = "ghosteek_cache" /\ r.source = "cr_api")
        BY <1>2, <2>1, <2>3, <3>1 DEF Inserted
      <4> QED
        BY <4>1, <4>2, <4>3 DEF Sources
    <3> QED
      BY <1>2, <3>1, <3>2 DEF SameKey, Row
  <2> QED
    BY <2>2, <2>3
<1> QED
  BY <1>1, <1>2 DEF UniqueKeys

LEMMA FoundRows ==
    /\ \A p \in Players, m \in Modes :
         TypeOK => Scanned(p, m) \subseteq {r \in Row : r.mode = m}
    /\ TypeOK => Ingested \subseteq {r \in Row : r.mode = "trophies"}
  BY MetaAssumption DEF TypeOK, Scanned, Ingested, Row, Sources, Modes

-----------------------------------------------------------------------------
LEMMA MetaInit == Init => MetaInv
<1> SUFFICES ASSUME Init PROVE MetaInv
  OBVIOUS
<1>1. TypeOK
  BY MetaAssumption DEF Init, TypeOK, Task, Idle
<1>2. UniqueKeys(obs) /\ FoundMode
  BY DEF Init, UniqueKeys, FoundMode, Idle
<1>3. ASSUME NEW m \in Modes, NEW d \in Decks PROVE agg[m, d] = Games(obs, m, d)
  <2>1. {r \in obs : r.mode = m /\ Deck[r.battle] = d} = {}
    BY DEF Init
  <2>2. Games(obs, m, d) = 0
    BY <2>1, FS_EmptySet DEF Games
  <2>3. agg[m, d] = 0
    BY DEF Init
  <2> QED
    BY <2>2, <2>3
<1>4. ASSUME NEW m \in Modes, NEW d \in Decks, NEW t \in Days
      PROVE  daily[m, d, t] = GamesOf(obs, m, d, t)
  <2>1. {r \in obs : r.mode = m /\ Deck[r.battle] = d /\ Day[r.battle] = t} = {}
    BY DEF Init
  <2>2. GamesOf(obs, m, d, t) = 0
    BY <2>1, FS_EmptySet DEF GamesOf
  <2>3. daily[m, d, t] = 0
    BY DEF Init
  <2> QED
    BY <2>2, <2>3
<1> QED
  BY <1>1, <1>2, <1>3, <1>4 DEF MetaInv, CountsObservations, CountsByDay

\* The commit: the only step that writes the tables.
LEMMA SaveKeeps == MetaInv /\ Save => MetaInv'
<1> SUFFICES ASSUME MetaInv, Save PROVE MetaInv'
  OBVIOUS
<1> USE DEF MetaInv
<1>1. /\ task.pc = "save" /\ task.mode \in Modes /\ task.found \in SUBSET Row
      /\ \A r \in task.found : r.mode = task.mode
  BY DEF Save, TypeOK, Task, Idle, FoundMode
<1>2. obs' = Inserted(task.found)
  BY DEF Save
<1>3. obs' \in SUBSET Row /\ UniqueKeys(obs)'
  <2>1. Inserted(task.found) \subseteq Row /\ UniqueKeys(Inserted(task.found))
    BY <1>1, InsertedUnique
  <2> QED
    BY <1>2, <2>1 DEF UniqueKeys
<1>4. \A m, d, t : Games(obs', m, d) \in Nat /\ GamesOf(obs', m, d, t) \in Nat
  <2>1. UniqueKeys(obs')
    BY <1>3 DEF UniqueKeys
  <2> QED
    BY <1>3, <2>1, GamesType
<1>5. Rebuild(obs', task.mode)
  BY DEF Save
<1>6. agg' \in [Modes \X Decks -> Nat]
  <2>1. agg' = [k \in DOMAIN agg |->
                  IF k[1] = task.mode THEN Games(obs', task.mode, k[2]) ELSE agg[k]]
    BY <1>5 DEF Rebuild
  <2>2. agg \in [Modes \X Decks -> Nat]
    BY DEF TypeOK
  <2> QED
    BY <1>4, <2>1, <2>2
<1>7. daily' \in [Modes \X Decks \X Days -> Nat]
  <2> DEFINE n(k) == GamesOf(obs', task.mode, k[2], k[3])
  <2>1. daily' = [k \in DOMAIN daily |->
                    IF k[1] = task.mode /\ n(k) > 0 THEN n(k) ELSE daily[k]]
    BY <1>5 DEF Rebuild
  <2>2. daily \in [Modes \X Decks \X Days -> Nat]
    BY DEF TypeOK
  <2>3. \A k : n(k) \in Nat
    BY <1>4
  <2> HIDE DEF n
  <2> QED
    BY <2>1, <2>2, <2>3
<1>8. TypeOK'
  <2>1. task' \in Task
    BY DEF Save, Task, Modes
  <2>2. UNCHANGED <<world, aborts>>
    BY DEF Save
  <2> QED
    BY <1>3, <1>6, <1>7, <2>1, <2>2 DEF TypeOK, world
<1>9. FoundMode'
  BY DEF Save, FoundMode, Idle
<1>10. CountsObservations'
  <2> SUFFICES ASSUME NEW m \in Modes, NEW d \in Decks
               PROVE  agg'[m, d] = Games(obs', m, d)
    BY DEF CountsObservations, Games
  <2>1. agg'[m, d] = IF m = task.mode THEN Games(obs', task.mode, d) ELSE agg[m, d]
    BY <1>5 DEF Rebuild, TypeOK
  <2>2. ASSUME m # task.mode PROVE Games(obs', m, d) = Games(obs, m, d)
    <3>1. {r \in obs' : r.mode = m /\ Deck[r.battle] = d} =
          {r \in obs : r.mode = m /\ Deck[r.battle] = d}
      BY <1>1, <1>2, <2>2 DEF Inserted
    <3> QED
      BY <3>1 DEF Games
  <2> QED
    BY <2>1, <2>2 DEF CountsObservations
<1>11. CountsByDay'
  <2> SUFFICES ASSUME NEW m \in Modes, NEW d \in Decks, NEW t \in Days
               PROVE  daily'[m, d, t] = GamesOf(obs', m, d, t)
    BY DEF CountsByDay, GamesOf
  <2> DEFINE sel(rows) ==
               {r \in rows : r.mode = m /\ Deck[r.battle] = d /\ Day[r.battle] = t}
  <2>1. daily'[m, d, t] = IF m = task.mode /\ GamesOf(obs', m, d, t) > 0
                          THEN GamesOf(obs', m, d, t) ELSE daily[m, d, t]
    <3>1. daily' = [k \in DOMAIN daily |->
                      IF k[1] = task.mode /\ GamesOf(obs', task.mode, k[2], k[3]) > 0
                      THEN GamesOf(obs', task.mode, k[2], k[3]) ELSE daily[k]]
      BY <1>5 DEF Rebuild
    <3>2. <<m, d, t>> \in DOMAIN daily
      BY DEF TypeOK
    <3>3. daily'[<<m, d, t>>] =
            IF m = task.mode /\ GamesOf(obs', task.mode, d, t) > 0
            THEN GamesOf(obs', task.mode, d, t) ELSE daily[<<m, d, t>>]
      BY <3>1, <3>2
    <3> QED
      BY <3>3
  <2>2. daily[m, d, t] = GamesOf(obs, m, d, t)
    BY DEF CountsByDay
  <2>3. CASE m # task.mode
    <3>1. sel(obs') = sel(obs)
      BY <1>1, <1>2, <2>3 DEF Inserted
    <3>2. GamesOf(obs', m, d, t) = GamesOf(obs, m, d, t)
      BY <3>1 DEF GamesOf
    <3> QED
      BY <2>1, <2>2, <2>3, <3>2
  <2>4. CASE m = task.mode
    <3>1. sel(obs) \subseteq sel(obs')
      BY <1>2 DEF Inserted
    <3>2. IsFiniteSet(sel(obs'))
      <4>1. sel(obs') \subseteq Row /\ \A r, s \in sel(obs') : r.battle = s.battle => r = s
        BY <1>3 DEF UniqueKeys, SameKey
      <4> HIDE DEF sel
      <4> QED
        BY <4>1, RowsAreBattles
    <3> HIDE DEF sel
    <3>3. Cardinality(sel(obs)) <= Cardinality(sel(obs')) /\ Cardinality(sel(obs)) \in Nat
      BY <3>1, <3>2, FS_Subset, FS_CardinalityType
    <3>4. GamesOf(obs, m, d, t) <= GamesOf(obs', m, d, t) /\ GamesOf(obs, m, d, t) \in Nat
      BY <3>3 DEF GamesOf, sel
    <3>5. GamesOf(obs', m, d, t) \in Nat
      BY <1>4
    <3>6. CASE GamesOf(obs', m, d, t) > 0
      BY <2>1, <2>4, <3>6
    <3>7. CASE ~(GamesOf(obs', m, d, t) > 0)
      <4>1. GamesOf(obs', m, d, t) = GamesOf(obs, m, d, t)
        BY <3>4, <3>5, <3>7
      <4> QED
        BY <2>1, <2>2, <3>7, <4>1
    <3> QED
      BY <3>6, <3>7
  <2> QED
    BY <2>3, <2>4
<1> QED
  BY <1>3, <1>8, <1>9, <1>10, <1>11

\* The steps that leave the tables alone.
LEMMA TablesKept ==
    ASSUME MetaInv, TypeOK', UNCHANGED tables, FoundMode'
    PROVE  MetaInv'
  BY DEF MetaInv, tables, UniqueKeys, CountsObservations, Games, CountsByDay, GamesOf

LEMMA MetaStep == MetaInv /\ [Next]_vars => MetaInv'
<1> SUFFICES ASSUME MetaInv, [Next]_vars PROVE MetaInv'
  OBVIOUS
<1>1. TypeOK /\ FoundMode
  BY DEF MetaInv
<1>2. ASSUME NEW b \in Battles, Play(b) PROVE MetaInv'
  <2>1. TypeOK'
    BY <1>1, <1>2 DEF TypeOK, Play, tables
  <2> QED
    BY <1>1, <1>2, <2>1, TablesKept DEF Play, FoundMode
<1>3. ASSUME NEW p \in Linked, Store(p) \/ ClearHistory(p) PROVE MetaInv'
  <2>1. TypeOK'
    BY <1>1, <1>3 DEF TypeOK, Store, ClearHistory, tables
  <2> QED
    BY <1>1, <1>3, <2>1, TablesKept DEF Store, ClearHistory, FoundMode
<1>4. CASE Begin
  <2>1. TypeOK' /\ FoundMode'
    BY <1>1, <1>4 DEF TypeOK, Begin, tables, world, Task, Modes, FoundMode
  <2> QED
    BY <1>4, <2>1, TablesKept DEF Begin
<1>5. CASE RankingAnswers
  <2>1. PICK top \in SUBSET Players :
          task' = [pc |-> "scan", mode |-> task.mode, left |-> Linked \cup top, found |-> {}]
    BY <1>5 DEF RankingAnswers
  <2>2. task.mode \in Modes
    BY <1>1, <1>5 DEF RankingAnswers, TypeOK, Task, Idle
  <2>3. task' \in Task /\ FoundMode'
    BY <2>1, <2>2, MetaAssumption DEF Task, FoundMode
  <2>4. TypeOK'
    BY <1>1, <1>5, <2>3 DEF TypeOK, RankingAnswers, tables, world
  <2> QED
    BY <1>5, <2>3, <2>4, TablesKept DEF RankingAnswers
<1>6. CASE RankingLimited \/ Abort
  <2>1. TypeOK' /\ FoundMode'
    BY <1>1, <1>6 DEF TypeOK, RankingLimited, Abort, tables, world, Task, Idle, FoundMode
  <2> QED
    BY <1>6, <2>1, TablesKept DEF RankingLimited, Abort
<1>7. ASSUME NEW p \in Players, FetchOne(p) \/ FetchFails(p) PROVE MetaInv'
  <2>1. /\ task.pc = "scan" /\ task.mode \in Modes
        /\ task.left \in SUBSET Players /\ task.found \in SUBSET Row
        /\ task = [pc |-> "scan", mode |-> task.mode, left |-> task.left, found |-> task.found]
    BY <1>1, <1>7 DEF FetchOne, FetchFails, TypeOK, Task, Idle
  <2>2. PICK more \in SUBSET {r \in Row : r.mode = task.mode} :
          task' = [task EXCEPT !.left = @ \ {p}, !.found = @ \cup more]
    <3>1. CASE FetchOne(p)
      BY <1>1, <2>1, <3>1, FoundRows DEF FetchOne
    <3>2. CASE FetchFails(p)
      <4>1. task' = [task EXCEPT !.left = @ \ {p}, !.found = @ \cup {}]
        BY <2>1, <3>2 DEF FetchFails
      <4> QED
        BY <4>1
    <3> QED
      BY <1>7, <3>1, <3>2
  <2>3. task' = [pc |-> "scan", mode |-> task.mode,
                 left |-> task.left \ {p}, found |-> task.found \cup more]
    BY <2>1, <2>2
  <2>4. task' \in Task /\ FoundMode'
    BY <1>1, <2>1, <2>3 DEF Task, FoundMode
  <2>5. TypeOK'
    BY <1>1, <1>7, <2>4 DEF TypeOK, FetchOne, FetchFails, tables, world
  <2> QED
    BY <1>7, <2>4, <2>5, TablesKept DEF FetchOne, FetchFails
<1>8. CASE Ingest
  <2>1. task.pc = "scan" /\ task.mode \in Modes /\ task.found \in SUBSET Row
    BY <1>1, <1>8 DEF Ingest, TypeOK, Task, Idle
  <2>2. task' = [pc |-> "save", mode |-> task.mode,
                 found |-> task.found \cup
                           (IF task.mode = "trophies" THEN Ingested ELSE {})]
    BY <1>8 DEF Ingest
  <2>3. task' \in Task /\ FoundMode'
    BY <1>1, <2>1, <2>2, FoundRows DEF Task, FoundMode
  <2>4. TypeOK'
    BY <1>1, <1>8, <2>3 DEF TypeOK, Ingest, tables, world
  <2> QED
    BY <1>8, <2>3, <2>4, TablesKept DEF Ingest
<1>9. CASE Save
  BY <1>9, SaveKeeps
<1>10. CASE UNCHANGED vars
  <2>1. TypeOK' /\ FoundMode'
    BY <1>1, <1>10 DEF TypeOK, vars, FoundMode
  <2> QED
    BY <1>10, <2>1, TablesKept DEF vars, tables
<1> QED
  BY <1>2, <1>3, <1>4, <1>5, <1>6, <1>7, <1>8, <1>9, <1>10 DEF Next, Step

\* MetaInv holds in every reachable state.
THEOREM MetaInvariant == Spec => []MetaInv
<1>1. Init => MetaInv
  BY MetaInit
<1>2. MetaInv /\ [Next]_vars => MetaInv'
  BY MetaStep
<1> QED
  BY <1>1, <1>2, PTL DEF Spec

\* Every variable keeps its type, for any number of battles, players and decks.
THEOREM MetaTypeCorrect == Spec => []TypeOK
<1>1. MetaInv => TypeOK
  BY DEF MetaInv
<1> QED
  BY <1>1, MetaInvariant, PTL

\* A game of a deck is a battle, counted once in a mode, however often and from
\* whichever source it was reported (meta_stats.py:3-8, 56-57).
THEOREM GamesAreDifferentBattles == Spec => []GamesAreBattles
<1>1. MetaInv => GamesAreBattles
  <2> SUFFICES ASSUME MetaInv, NEW m \in Modes, NEW d \in Decks
               PROVE  agg[m, d] = Cardinality({b \in Battles : Deck[b] = d /\
                                    \E r \in obs : r.battle = b /\ r.mode = m})
    BY DEF GamesAreBattles
  <2> DEFINE sel == {r \in obs : r.mode = m /\ Deck[r.battle] = d}
             T == {b \in Battles : Deck[b] = d /\ \E r \in obs : r.battle = b /\ r.mode = m}
  <2>1. sel \subseteq Row /\ \A r, s \in sel : r.battle = s.battle => r = s
    BY DEF MetaInv, TypeOK, UniqueKeys, SameKey
  <2>2. {r.battle : r \in sel} = T
    BY DEF MetaInv, TypeOK, Row
  <2>3. agg[m, d] = Cardinality(sel)
    BY DEF MetaInv, CountsObservations, Games
  <2> HIDE DEF sel, T
  <2>4. agg[m, d] = Cardinality(T)
    BY <2>1, <2>2, <2>3, RowsAreBattles
  <2> QED
    BY <2>4 DEF T
<1> QED
  BY <1>1, MetaInvariant, PTL

-----------------------------------------------------------------------------
\* The sum over the days.

Pick(s) == CHOOSE x \in s : TRUE

\* The fold of MapThenSumSet over the daily rows of a deck.
Folds(it, m, d) ==
    it = [s \in SUBSET Days |->
            IF s = {} THEN 0 ELSE daily[m, d, Pick(s)] + it[s \ {Pick(s)}]]
DayTotals(m, d) == CHOOSE it : Folds(it, m, d)

LEMMA SumIsFold ==
    ASSUME NEW m, NEW d
    PROVE  MapThenSumSet(LAMBDA t : daily[m, d, t], Days) = DayTotals(m, d)[Days]
  BY DEF MapThenSumSet, MapThenFoldSet, DayTotals, Folds, Pick

\* Every nonempty collection of finite sets has a smallest member.
LEMMA SmallestSet ==
    ASSUME NEW S, IsFiniteSet(S), NEW C \in SUBSET SUBSET S, C # {}
    PROVE  \E s \in C : \A x \in s : s \ {x} \notin C
<1>1. C \subseteq FiniteSubsetsOf(S)
  BY FS_Subset DEF FiniteSubsetsOf
<1>2. IsWellFoundedOn(StrictSubsetOrdering(S), FiniteSubsetsOf(S))
  BY FS_StrictSubsetOrderingWellFounded
<1>3. PICK s \in C : \A t \in C : ~(<<t, s>> \in StrictSubsetOrdering(S))
  BY <1>1, <1>2, WFMin, Zenon
<1>4. ASSUME NEW x \in s, s \ {x} \in C PROVE FALSE
  <2>1. <<s \ {x}, s>> \in StrictSubsetOrdering(S)
    BY <1>4 DEF StrictSubsetOrdering
  <2> QED
    BY <1>3, <1>4, <2>1
<1> QED
  BY <1>4

\* The fold counts the games of the days.
LEMMA FoldCounts ==
    ASSUME MetaInv, NEW m \in Modes, NEW d \in Decks
    PROVE  DayTotals(m, d)[Days] =
             Cardinality({r \in obs : r.mode = m /\ Deck[r.battle] = d
                                     /\ Day[r.battle] \in Days})
<1> DEFINE sel(s) == {r \in obs : r.mode = m /\ Deck[r.battle] = d /\ Day[r.battle] \in s}
           count == [s \in SUBSET Days |-> Cardinality(sel(s))]
           it == DayTotals(m, d)
<1>1. ASSUME NEW s PROVE IsFiniteSet(sel(s)) /\ Cardinality(sel(s)) \in Nat
  <2>1. sel(s) \subseteq Row /\ \A r, q \in sel(s) : r.battle = q.battle => r = q
    BY DEF MetaInv, TypeOK, UniqueKeys, SameKey
  <2> HIDE DEF sel
  <2> QED
    BY <2>1, RowsAreBattles
<1>2. sel({}) = {} /\ Cardinality(sel({})) = 0
  BY FS_EmptySet
<1>3. ASSUME NEW s \in SUBSET Days, NEW t \in s
      PROVE  Cardinality(sel(s)) = daily[m, d, t] + Cardinality(sel(s \ {t}))
  <2> DEFINE today == {r \in obs : r.mode = m /\ Deck[r.battle] = d /\ Day[r.battle] = t}
  <2>1. today = sel({t})
    OBVIOUS
  <2>2. daily[m, d, t] = Cardinality(sel({t}))
    <3>1. daily[m, d, t] = Cardinality(today)
      BY DEF MetaInv, CountsByDay, GamesOf
    <3> HIDE DEF today, sel
    <3> QED
      BY <2>1, <3>1
  <2>3. sel(s) = sel({t}) \cup sel(s \ {t}) /\ sel({t}) \cap sel(s \ {t}) = {}
    OBVIOUS
  <2>4. /\ IsFiniteSet(sel({t})) /\ IsFiniteSet(sel(s \ {t}))
        /\ Cardinality(sel({t})) \in Nat /\ Cardinality(sel(s \ {t})) \in Nat
    BY <1>1
  <2> HIDE DEF sel
  <2>5. Cardinality(sel({t}) \cup sel(s \ {t})) =
          Cardinality(sel({t})) + Cardinality(sel(s \ {t})) - Cardinality({})
    BY <2>3, <2>4, FS_Union
  <2>6. Cardinality(sel({t}) \cup sel(s \ {t})) =
          Cardinality(sel({t})) + Cardinality(sel(s \ {t}))
    BY <2>4, <2>5, FS_EmptySet
  <2> QED
    BY <2>2, <2>3, <2>6
<1> HIDE DEF sel
<1>4. Folds(count, m, d)
  <2>1. ASSUME NEW s \in SUBSET Days, s # {}
        PROVE  count[s] = daily[m, d, Pick(s)] + count[s \ {Pick(s)}]
    <3>1. Pick(s) \in s
      BY <2>1 DEF Pick
    <3> QED
      BY <1>3, <3>1
  <2>2. {} \in SUBSET Days /\ count[{}] = 0
    BY <1>2
  <2> QED
    BY <2>1, <2>2 DEF Folds
<1>5. Folds(it, m, d)
  BY <1>4 DEF DayTotals
<1> HIDE DEF it
<1>6. it[{}] = 0
  BY <1>5 DEF Folds
<1>7. ASSUME NEW s \in SUBSET Days, s # {}
      PROVE  it[s] = daily[m, d, Pick(s)] + it[s \ {Pick(s)}]
  BY <1>5, <1>7 DEF Folds
<1>8. \A s \in SUBSET Days : it[s] = Cardinality(sel(s))
  <2> DEFINE wrong == {s \in SUBSET Days : it[s] # Cardinality(sel(s))}
  <2> SUFFICES ASSUME wrong # {} PROVE FALSE
    OBVIOUS
  <2>1. PICK s \in wrong : \A x \in s : s \ {x} \notin wrong
    <3>1. IsFiniteSet(Days)
      <4> DEFINE dayOf == [b \in Battles |-> Day[b]]
      <4>1. dayOf \in Surjection(Battles, Days)
        BY DEF Surjection, Days
      <4> HIDE DEF dayOf
      <4> QED
        BY <4>1, FS_Surjection, MetaAssumption
    <3>2. wrong \in SUBSET SUBSET Days
      OBVIOUS
    <3> HIDE DEF wrong
    <3> QED
      BY <3>1, <3>2, SmallestSet
  <2>2. s \in SUBSET Days /\ s # {}
    BY <2>1, <1>2, <1>6
  <2>3. Pick(s) \in s
    BY <2>2 DEF Pick
  <2>4. it[s \ {Pick(s)}] = Cardinality(sel(s \ {Pick(s)}))
    BY <2>1, <2>2, <2>3
  <2>5. it[s] = Cardinality(sel(s))
    BY <1>3, <1>7, <2>2, <2>3, <2>4
  <2> QED
    BY <2>1, <2>5
<1> QED
  BY <1>8 DEF it, sel

\* After any number of rebuilds the daily rows of a deck add up to its games,
\* although they are never deleted (meta_collector.py:206-263).
THEOREM DaysAddUpToGames == Spec => []DaysAddUp
<1>1. MetaInv => DaysAddUp
  <2> SUFFICES ASSUME MetaInv, NEW m \in Modes, NEW d \in Decks
               PROVE  agg[m, d] = MapThenSumSet(LAMBDA t : daily[m, d, t], Days)
    BY DEF DaysAddUp
  <2>1. {r \in obs : r.mode = m /\ Deck[r.battle] = d} =
        {r \in obs : r.mode = m /\ Deck[r.battle] = d /\ Day[r.battle] \in Days}
    BY DEF MetaInv, TypeOK, Row, Days
  <2>2. agg[m, d] = Cardinality({r \in obs : r.mode = m /\ Deck[r.battle] = d})
    BY DEF MetaInv, CountsObservations, Games
  <2>3. agg[m, d] = DayTotals(m, d)[Days]
    BY <2>1, <2>2, FoldCounts
  <2>4. MapThenSumSet(LAMBDA t : daily[m, d, t], Days) = DayTotals(m, d)[Days]
    BY SumIsFold
  <2> QED
    BY <2>3, <2>4, Zenon
<1> QED
  BY <1>1, MetaInvariant, PTL
=============================================================================
