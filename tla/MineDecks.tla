------------------------------ MODULE MineDecks ------------------------------
(***************************************************************************)
(* Linking a Clash Royale tag to a telegram user, and the slots of "My     *)
(* decks" that every synchronisation recomputes from the user's battles.   *)
(* Sources: bot/services/mine_decks.py, bot/services/clash_api.py          *)
(* (SubscriptionService), bot/services/user_bootstrap.py,                  *)
(* bot/handlers/player.py, bot/api/routes/decks.py.                        *)
(*                                                                         *)
(* A battle is identified by its place in the common order of play, which  *)
(* stands for battleTime: last_seen of a slot is the number of a battle.   *)
(* Cards, evolutions and win rates are left out; what the algorithm uses   *)
(* is which deck was played and when.  Friendly battles, which both        *)
(* readers skip, are left out too.  A slot that last_seen = 0 would mark   *)
(* as never played does not exist: slots[u][d] = 0 says "no slot".         *)
(*                                                                         *)
(* A synchronisation works on the slots it selected (work) and writes them *)
(* in one transaction; Save is its flushes and its commit.  The branch for *)
(* a duplicate key needs a second writer of the same user's slots, which   *)
(* the per-user lock excludes, and is left out.                            *)
(***************************************************************************)
EXTENDS Naturals, Sequences, FiniteSets

CONSTANTS
    Users, Tags, NoTag, Decks, Handlers,
    MaxSlots,          \* MAX_MINE_DECKS
    LogLimit,          \* battles the API returns
    Players,           \* users whose requests synchronise, of Users
    MaxBattles         \* bound of the model

ASSUME DecksAssumption ==
    /\ NoTag \notin Tags
    /\ IsFiniteSet(Decks)
    /\ MaxSlots \in Nat \ {0} /\ LogLimit \in Nat \ {0} /\ MaxBattles \in Nat
    /\ Players \subseteq Users

Numbers == 1..MaxBattles

VARIABLES
    tagOf,        \* users.player_tag
    battles,      \* what has been played: a sequence of tags and decks
    stored,       \* the numbers of the battles in battle_cache
    slots,        \* tracked_mine_decks: last_seen of each user's decks
    task

vars == <<tagOf, battles, stored, slots, task>>

Slots == [Decks -> 0..MaxBattles]
NoSlots == [d \in Decks |-> 0]
Tracked(table) == {d \in Decks : table[d] # 0}

Idle == [pc |-> "idle"]

\* A synchronisation that has selected the slots.
SyncTask ==
    {t \in
      [pc : {"ensuring", "filling", "saving"}, user : Users, tag : Tags,
       live : SUBSET Numbers, known : SUBSET Numbers,
       found : Slots,             \* the slots selected under the lock
       work : Slots,              \* by_key
       added : SUBSET Decks,      \* protected
       todo : SUBSET Numbers,     \* sightings still to be ensured
       profile : 0..MaxBattles] : \* the profile's deck, 0 if none is left
        /\ t.pc # "ensuring" => t.profile = 0
        /\ t.pc = "saving" => t.todo = {}}

Task ==
    {Idle}
    \cup [pc : {"linking"}, user : Users, tag : Tags]
    \cup [pc : {"loaded"}, user : Users, tag : Tags,
          live : SUBSET Numbers, known : SUBSET Numbers]
    \cup SyncTask

TypeOK ==
    /\ tagOf \in [Users -> Tags \cup {NoTag}]
    /\ battles \in Seq([tag : Tags, deck : Decks]) /\ Len(battles) <= MaxBattles
    /\ stored \subseteq Numbers
    /\ slots \in [Users -> Slots]
    /\ task \in [Handlers -> Task]

-----------------------------------------------------------------------------
\* Reading battles.

DeckOf(i) == battles[i].deck

PlayedBy(tag) == {i \in 1..Len(battles) : battles[i].tag = tag}

\* The battle log: the tag's last LogLimit battles.
BattleLog(tag) ==
    {i \in PlayedBy(tag) :
       Cardinality({j \in PlayedBy(tag) : j > i}) < LogLimit}

\* battle_count
Count(d, known) == Cardinality({i \in known : DeckOf(i) = d})

\* For each deck of a set of battles, the newest battle with it.
Newest(set) == {i \in set : \A j \in set : DeckOf(j) = DeckOf(i) => j <= i}

\* The decks a bootstrap takes: those played most recently.
Latest(set) ==
    {i \in Newest(set) :
       Cardinality({j \in Newest(set) : j > i}) < MaxSlots}

Init ==
    /\ tagOf = [u \in Users |-> NoTag]
    /\ battles = <<>> /\ stored = {}
    /\ slots = [u \in Users |-> NoSlots]
    /\ task = [h \in Handlers |-> Idle]

Begin(h, t) == task[h] = Idle /\ task' = [task EXCEPT ![h] = t]
Continue(h, t) == task' = [task EXCEPT ![h] = t]
Finish(h) == task' = [task EXCEPT ![h] = Idle]

Play(tag, d) ==
    /\ Len(battles) < MaxBattles
    /\ battles' = Append(battles, [tag |-> tag, deck |-> d])
    /\ UNCHANGED <<tagOf, stored, slots, task>>

-----------------------------------------------------------------------------
\* link_player and unlink_player.

Owned(tag, u) == \E v \in Users \ {u} : tagOf[v] = tag

\* Mutant: player_tag has no unique constraint.
NeverOwned(tag, u) == FALSE

\* The unique constraint on player_tag, at the UPDATE.
TagTaken(tag, u) == Owned(tag, u)

\* Another tag than the present one, and nobody else's: the slots of a previous
\* tag are deleted in a transaction of their own, without the sync lock.
BeginLink(h, u, tag) ==
    /\ tagOf[u] # tag /\ ~Owned(tag, u)
    /\ slots' = IF tagOf[u] = NoTag THEN slots
                ELSE [slots EXCEPT ![u] = NoSlots]
    /\ Begin(h, [pc |-> "linking", user |-> u, tag |-> tag])
    /\ UNCHANGED <<tagOf, battles, stored>>

\* The UPDATE of the tag; refused if somebody else has taken it meanwhile.
CommitLink(h) ==
    /\ task[h].pc = "linking"
    /\ LET t == task[h]
       IN  tagOf' = IF TagTaken(t.tag, t.user) THEN tagOf
                    ELSE [tagOf EXCEPT ![t.user] = t.tag]
    /\ Finish(h)
    /\ UNCHANGED <<battles, stored, slots>>

\* The slots stay.
Unlink(u) ==
    /\ tagOf[u] # NoTag
    /\ tagOf' = [tagOf EXCEPT ![u] = NoTag]
    /\ UNCHANGED <<battles, stored, slots, task>>

-----------------------------------------------------------------------------
\* sync_tracked_mine_decks.

\* The tag as the request read it, the battle log (or, when the API fails, what
\* battle_cache holds), and the history from which the counts are made.
Load(h, u) ==
    /\ tagOf[u] # NoTag
    /\ LET history == stored \cap PlayedBy(tagOf[u])
       IN  \E live \in {BattleLog(tagOf[u]), history} :
             /\ stored' = stored \cup live
             /\ Begin(h, [pc |-> "loaded", user |-> u, tag |-> tagOf[u],
                          live |-> live, known |-> history \cup live])
    /\ UNCHANGED <<tagOf, battles, slots>>

Syncing(h) == task[h].pc \in {"ensuring", "filling", "saving"}

\* Mutant: no lock per user.
NeverLocked(u) == FALSE

\* _lock_for_user
Locked(u) == \E g \in Handlers : Syncing(g) /\ task[g].user = u

\* The deck of the profile counts if it has been played: its last battle in the
\* log, or in the history if the log has none.
ProfileBattles(t) ==
    Newest(t.live)
    \cup {i \in Newest(t.known) : \A j \in t.live : DeckOf(j) # DeckOf(i)}

\* Take the lock and select the slots.
ReadSlots(h) ==
    /\ task[h].pc = "loaded"
    /\ ~Locked(task[h].user)
    /\ LET t == task[h]
       IN  \E p \in ProfileBattles(t) \cup {0} :
             Continue(h, [pc |-> "ensuring", user |-> t.user, tag |-> t.tag,
                          live |-> t.live, known |-> t.known,
                          found |-> slots[t.user], work |-> slots[t.user],
                          added |-> {}, todo |-> Newest(t.live), profile |-> p])
    /\ UNCHANGED <<tagOf, battles, stored, slots>>

\* The sightings from the newest to the oldest, then the profile's deck.
IsNext(t, i) ==
    \/ i \in t.todo /\ \A j \in t.todo : j <= i
    \/ t.todo = {} /\ i = t.profile /\ i # 0

Rest(t, i) ==
    IF t.todo # {} THEN [t EXCEPT !.todo = @ \ {i}] ELSE [t EXCEPT !.profile = 0]

\* The slots that may be evicted.
Candidates(t) == Tracked(t.work) \ t.added

\* Mutant: the least recently played slot goes, however often it was played.
OlderSlot(t, d, e) == t.work[d] < t.work[e]

\* Eviction order: fewer battles first, then the older last_seen.
LessPlayed(t, d, e) ==
    \/ Count(d, t.known) < Count(e, t.known)
    \/ Count(d, t.known) = Count(e, t.known) /\ t.work[d] < t.work[e]

\* ensure_slot: touch a slot the deck has, or add one.  When all slots are taken
\* the least played goes; if all have been added just now, nothing happens.
EnsureSlot(h, i) ==
    /\ task[h].pc \in {"ensuring", "filling"}
    /\ IsNext(task[h], i)
    /\ LET t == task[h]
           d == DeckOf(i)
           rest == Rest(t, i)
       IN  \/ /\ d \in Tracked(t.work)
              /\ Continue(h, [rest EXCEPT !.work[d] = IF i > @ THEN i ELSE @])
           \/ /\ d \notin Tracked(t.work)
              /\ Cardinality(Tracked(t.work)) < MaxSlots
              /\ Continue(h, [rest EXCEPT !.work[d] = i, !.added = @ \cup {d}])
           \/ /\ d \notin Tracked(t.work)
              /\ Cardinality(Tracked(t.work)) >= MaxSlots
              /\ Candidates(t) = {}
              /\ Continue(h, rest)
           \/ /\ d \notin Tracked(t.work)
              /\ Cardinality(Tracked(t.work)) >= MaxSlots
              /\ \E victim \in Candidates(t) :
                   /\ \A e \in Candidates(t) : ~LessPlayed(t, e, victim)
                   /\ Continue(h, [rest EXCEPT
                        !.work = [@ EXCEPT ![victim] = 0, ![d] = i],
                        !.added = @ \cup {d}])
    /\ UNCHANGED <<tagOf, battles, stored, slots>>

\* Mutant: slots without battles are kept.
KeepAll(t, d) == TRUE

\* A slot stays if its deck has battles, was sighted or has just been added.
Kept(t, d) ==
    \/ Count(d, t.known) > 0
    \/ \E i \in t.live : DeckOf(i) = d
    \/ d \in t.added

\* Mutant: the slots without battles are dropped before the profile's deck has
\* been ensured.
SightingsEnsured(t) == t.todo = {}

Ensured(t) == t.todo = {} /\ t.profile = 0

\* Drop the slots without battles; with none left, refill from the history.
DropUnplayed(h) ==
    /\ task[h].pc = "ensuring" /\ Ensured(task[h])
    /\ LET t == task[h]
           work == [d \in Decks |-> IF Kept(t, d) THEN t.work[d] ELSE 0]
       IN  IF Tracked(work) = {}
             THEN Continue(h, [t EXCEPT !.pc = "filling", !.work = work,
                                        !.todo = Latest(t.known)])
             ELSE Continue(h, [t EXCEPT !.pc = "saving", !.work = work])
    /\ UNCHANGED <<tagOf, battles, stored, slots>>

\* A slot whose last_seen changed has been deleted by somebody else: its UPDATE
\* finds no row, and the transaction is rolled back.
RowLost(t) ==
    \E d \in Tracked(t.work) :
      /\ d \notin t.added /\ t.work[d] # t.found[d]
      /\ slots[t.user][d] = 0

\* The rows after the commit: those it inserted, those it selected and that are
\* still there and wanted, and those it never saw.
Written(t) ==
    [d \in Decks |->
       IF d \in t.added THEN t.work[d]
       ELSE IF slots[t.user][d] = 0 THEN 0
       ELSE IF t.found[d] = 0 THEN slots[t.user][d]
       ELSE t.work[d]]

Save(h) ==
    /\ \/ task[h].pc = "saving"
       \/ task[h].pc = "filling" /\ task[h].todo = {}
    /\ LET t == task[h]
       IN  slots' = IF RowLost(t) THEN slots
                    ELSE [slots EXCEPT ![t.user] = Written(t)]
    /\ Finish(h)
    /\ UNCHANGED <<tagOf, battles, stored>>

-----------------------------------------------------------------------------
\* The process dies: locks and open transactions are gone.
Crash ==
    /\ task' = [h \in Handlers |-> Idle]
    /\ UNCHANGED <<tagOf, battles, stored, slots>>

SyncStep(h) ==
    \/ ReadSlots(h) \/ DropUnplayed(h) \/ Save(h)
    \/ \E i \in Numbers : EnsureSlot(h, i)

Next ==
    \/ Crash
    \/ \E tag \in Tags, d \in Decks : Play(tag, d)
    \/ \E u \in Users : Unlink(u)
    \/ \E h \in Handlers, u \in Users, tag \in Tags : BeginLink(h, u, tag)
    \/ \E h \in Handlers, u \in Players : Load(h, u)
    \/ \E h \in Handlers : CommitLink(h) \/ SyncStep(h)

Spec == Init /\ [][Next]_vars

-----------------------------------------------------------------------------
\* No user ever has more slots than the limit, whatever runs at the same time.
SlotLimit == \A u \in Users : Cardinality(Tracked(slots[u])) <= MaxSlots

\* A tag belongs to one user, although its owner is looked up long before it is
\* written.
TagOwnedOnce ==
    \A u, v \in Users : tagOf[u] = tagOf[v] /\ tagOf[u] # NoTag => u = v

\* A deck that a synchronisation has added is not thrown out by the same
\* synchronisation.
AddedStay ==
    \A h \in Handlers : Syncing(h) => task[h].added \subseteq Tracked(task[h].work)

\* The replacement rule: a deck that lost its slot has no more battles than any
\* deck whose slot survived the same synchronisation.
LeastPlayedGoes ==
    \A h \in Handlers :
      task[h].pc = "ensuring" =>
        LET t == task[h]
        IN  \A d \in Tracked(t.found) \ Tracked(t.work),
               e \in Tracked(t.work) \ t.added :
              Count(d, t.known) <= Count(e, t.known)

SavedBy(h) == Syncing(h) /\ Save(h) /\ ~RowLost(task[h])

\* A synchronisation leaves no slot of a deck that its tag has never played:
\* what another tag left behind is gone.
NothingForeignLeft ==
    [][\A h \in Handlers :
         SavedBy(h) =>
           \A d \in Tracked(slots'[task[h].user]) : Count(d, task[h].known) > 0]_vars
=============================================================================
