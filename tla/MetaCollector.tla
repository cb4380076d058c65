---------------------------- MODULE MetaCollector ----------------------------
(***************************************************************************)
(* The meta collector (bot/services/meta_collector.py with                 *)
(* meta_battle_cache_ingest.py, meta_observation.py and meta_stats.py): a  *)
(* loop that scans battle logs, keeps every battle it has seen as an       *)
(* observation, and counts decks.  Trophy battles come from two sources,   *)
(* the scanned logs and the battle_cache rows of linked users, which the   *)
(* users' own synchronisation writes meanwhile.                            *)
(*                                                                         *)
(* A battle here is one player's side of it.  Scores, trends and snapshots *)
(* are functions of the counts and are left out, and so is the clan war    *)
(* scan, which ends the cycle and does not write these tables.  Every      *)
(* battle has a day: the code counts an undated one for no day.            *)
(***************************************************************************)
EXTENDS FiniteSets, FiniteSetsExt, Integers

CONSTANTS
    Battles,         \* numbers: the order in which they are played
    Players, Linked, \* all, and those who are users
    Owner, ModeOf, Deck, Day,   \* of each battle
    Delta,           \* battles that report a trophy change other than zero
    Low,             \* battles below meta_trophy_min
    LogSize,         \* battles in a player's log
    MaxAborts        \* bound of the model

Modes == {"league", "trophies"}
Decks == {Deck[b] : b \in Battles}
Days == {Day[b] : b \in Battles}

ASSUME MetaAssumption ==
    /\ Battles \subseteq Nat /\ IsFiniteSet(Battles)
    /\ Linked \subseteq Players
    /\ Owner \in [Battles -> Players]
    /\ ModeOf \in [Battles -> Modes \cup {"casual"}]
    /\ DOMAIN Deck = Battles /\ DOMAIN Day = Battles
    /\ Delta \subseteq Battles /\ Low \subseteq Battles
    /\ LogSize \in Nat /\ MaxAborts \in Nat

Sources == {"cr_api", "ghosteek_cache"}
Row == [battle : Battles, mode : Modes, source : Sources]

VARIABLES
    played,
    log,             \* what the API still lists, of all players
    cache,           \* battle_cache
    obs,             \* meta_battle_observations
    agg, daily,      \* meta_deck_aggregates, meta_deck_daily_stats: games
    task,            \* the collector
    aborts

vars == <<played, log, cache, obs, agg, daily, task, aborts>>
world == <<played, log, cache>>
tables == <<obs, agg, daily>>

Idle == [pc |-> "idle"]
Task ==
    {Idle}
    \cup [pc : {"rank"}, mode : Modes]
    \cup [pc : {"scan"}, mode : Modes, left : SUBSET Players, found : SUBSET Row]
    \cup [pc : {"save"}, mode : Modes, found : SUBSET Row]

TypeOK ==
    /\ played \subseteq Battles /\ log \subseteq played /\ cache \subseteq played
    /\ obs \subseteq Row
    /\ agg \in [Modes \X Decks -> Nat]
    /\ daily \in [Modes \X Decks \X Days -> Nat]
    /\ task \in Task
    /\ aborts \in Nat

-----------------------------------------------------------------------------
\* classify_battle_mode and the trophy minimum.
Counted(b) ==
    \/ ModeOf[b] = "league"
    \/ ModeOf[b] = "trophies" /\ b \in Delta \ Low

Scanned(p, mode) ==
    {[battle |-> b, mode |-> mode, source |-> "cr_api"] :
        b \in {c \in log : Owner[c] = p /\ ModeOf[c] = mode /\ Counted(c)}}

\* battle_cache keeps the mode, but only the trophy change is looked at.
Ingested ==
    {[battle |-> b, mode |-> "trophies", source |-> "ghosteek_cache"] :
        b \in cache \cap Delta}

\* Mutant: the same battle from the other source is another observation.
SameRow(r, s) == r = s

\* dedupe_key: player, time and mode.
SameKey(r, s) == r.battle = s.battle /\ r.mode = s.mode

\* The rows are inserted one by one, those of the scan first, each in a
\* savepoint: a row whose key exists is skipped.
Inserted(new) ==
    obs \cup {r \in new :
              /\ \A s \in obs : ~SameKey(r, s)
              /\ r.source = "ghosteek_cache" =>
                   \A s \in new : s.source = "cr_api" => ~SameKey(r, s)}

Games(rows, mode, deck) ==
    Cardinality({r \in rows : r.mode = mode /\ Deck[r.battle] = deck})
GamesOf(rows, mode, deck, day) ==
    Cardinality({r \in rows :
        r.mode = mode /\ Deck[r.battle] = deck /\ Day[r.battle] = day})

-----------------------------------------------------------------------------
Init ==
    /\ played = {} /\ log = {} /\ cache = {} /\ obs = {}
    /\ agg = [k \in Modes \X Decks |-> 0]
    /\ daily = [k \in Modes \X Decks \X Days |-> 0]
    /\ task = Idle /\ aborts = 0

\* The log of a player keeps the last battles.
Play(b) ==
    LET mine == {c \in log : Owner[c] = Owner[b]} \cup {b} IN
    /\ b \notin played /\ \A c \in Battles : c < b => c \in played
    /\ played' = played \cup {b}
    /\ log' = {c \in log : Owner[c] # Owner[b]} \cup
              {c \in mine : Cardinality({d \in mine : d > c}) < LogSize}
    /\ UNCHANGED <<cache, tables, task, aborts>>

\* A user's synchronisation, and the user's clearing of the history.
Store(p) ==
    /\ cache' = cache \cup {b \in log : Owner[b] = p}
    /\ cache' # cache
    /\ UNCHANGED <<played, log, tables, task, aborts>>

ClearHistory(p) ==
    /\ cache' = {b \in cache : Owner[b] # p}
    /\ cache' # cache
    /\ UNCHANGED <<played, log, tables, task, aborts>>

Begin ==
    /\ task = Idle
    /\ task' = [pc |-> "rank", mode |-> "league"]
    /\ UNCHANGED <<world, tables, aborts>>

\* The players to scan: the linked ones and those in the ranking, if any.
RankingAnswers ==
    /\ task.pc = "rank"
    /\ \E top \in SUBSET Players :
         task' = [pc |-> "scan", mode |-> task.mode,
                  left |-> Linked \cup top, found |-> {}]
    /\ UNCHANGED <<world, tables, aborts>>

LeagueAnswers == RankingAnswers /\ task.mode = "league"

\* 429 for the league ranking.  The handler survives it, but 'observations' is
\* not bound yet, and the exception that this raises ends the whole cycle.
RankingLimited ==
    /\ task.pc = "rank" /\ task.mode = "league"
    /\ task' = Idle
    /\ UNCHANGED <<world, tables, aborts>>

FetchOne(p) ==
    /\ task.pc = "scan" /\ p \in task.left
    /\ task' = [task EXCEPT !.left = @ \ {p},
                            !.found = @ \cup Scanned(p, task.mode)]
    /\ UNCHANGED <<world, tables, aborts>>

\* An error, 429 included, costs the log of one player.
FetchFails(p) ==
    /\ task.pc = "scan" /\ p \in task.left
    /\ task' = [task EXCEPT !.left = @ \ {p}]
    /\ UNCHANGED <<world, tables, aborts>>

Ingest ==
    /\ task.pc = "scan" /\ task.left = {}
    /\ task' = [pc |-> "save", mode |-> task.mode,
                found |-> task.found \cup
                          (IF task.mode = "trophies" THEN Ingested ELSE {})]
    /\ UNCHANGED <<world, tables, aborts>>

\* Mutants: the rebuild adds to the existing daily rows; it deletes the
\* aggregates of both modes.
RebuildAdding(rows, mode) ==
    /\ agg' = [k \in DOMAIN agg |->
                 IF k[1] = mode THEN Games(rows, mode, k[2]) ELSE agg[k]]
    /\ daily' = [k \in DOMAIN daily |->
                   IF k[1] = mode
                   THEN daily[k] + GamesOf(rows, mode, k[2], k[3]) ELSE daily[k]]
RebuildOnly(rows, mode) ==
    /\ agg' = [k \in {mode} \X Decks |-> Games(rows, mode, k[2])]
    /\ UNCHANGED daily

\* The aggregates of the mode are deleted and counted anew from all
\* observations.  Daily rows are updated or added, never deleted.
Rebuild(rows, mode) ==
    /\ agg' = [k \in DOMAIN agg |->
                 IF k[1] = mode THEN Games(rows, mode, k[2]) ELSE agg[k]]
    /\ daily' = [k \in DOMAIN daily |->
                   LET n == GamesOf(rows, mode, k[2], k[3]) IN
                   IF k[1] = mode /\ n > 0 THEN n ELSE daily[k]]

\* Mutant: the cycle is over after the league.
SaveLeague ==
    /\ task.pc = "save"
    /\ obs' = Inserted(task.found)
    /\ Rebuild(obs', task.mode)
    /\ task' = Idle
    /\ UNCHANGED <<world, aborts>>

\* One transaction: insert, rebuild, commit.  Then the other mode.
Save ==
    /\ task.pc = "save"
    /\ obs' = Inserted(task.found)
    /\ Rebuild(obs', task.mode)
    /\ task' = IF task.mode = "league"
               THEN [pc |-> "rank", mode |-> "trophies"] ELSE Idle
    /\ UNCHANGED <<world, aborts>>

\* A database error, another exception or a restart ends the cycle; an open
\* transaction is rolled back.
Abort ==
    /\ task # Idle
    /\ aborts < MaxAborts /\ aborts' = aborts + 1
    /\ task' = Idle
    /\ UNCHANGED <<world, tables>>

Step ==
    \/ Begin \/ RankingAnswers \/ RankingLimited
    \/ \E p \in Players : FetchOne(p) \/ FetchFails(p)
    \/ Ingest \/ Save \/ Abort

Next ==
    \/ Step
    \/ \E b \in Battles : Play(b)
    \/ \E p \in Linked : Store(p) \/ ClearHistory(p)

Spec == Init /\ [][Next]_vars
FairSpec == Spec /\ WF_vars(Step)

-----------------------------------------------------------------------------
\* A battle counts once in a mode, although it is scanned again by every cycle
\* while it is in the log, and found in battle_cache (meta_stats.py:3-8,56-57).
GamesAreBattles ==
    \A m \in Modes, d \in Decks :
        agg[m, d] = Cardinality({b \in Battles : Deck[b] = d /\
                                   \E r \in obs : r.battle = b /\ r.mode = m})

\* The days of a deck add up to its games, after any number of rebuilds
\* (meta_collector.py:206-263).
DaysAddUp ==
    \A m \in Modes, d \in Decks :
        agg[m, d] = MapThenSumSet(LAMBDA t : daily[m, d, t], Days)

\* A trophy battle that a user's synchronisation has stored is counted in the
\* end, however many battle logs the API refuses, unless the user deletes it
\* first; provided the API answers for the league ranking again and again (each
\* 429 there costs the trophies their cycle, meta_collector.py:366-379), and
\* restarts and database errors do not cut every cycle short (MaxAborts).
StoredLadderCounts ==
    []<><<LeagueAnswers>>_vars =>
        \A b \in Delta :
            ModeOf[b] = "trophies" /\ b \in cache
                ~> b \notin cache \/ \E r \in obs : r.battle = b

\* database.py:185: "Never infer Trophy Road from a delta alone."  A battle is
\* counted in the mode it was played in.
OneModePerBattle == \A r \in obs : r.mode = ModeOf[r.battle]
=============================================================================
