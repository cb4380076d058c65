----------------------------- MODULE BattleSync ------------------------------
(***************************************************************************)
(* How one linked player's battles get from the Clash Royale API into the  *)
(* battle_cache table and into the in-memory session list: the periodic    *)
(* synchronisation, the Mini App's requests, POST /sync, the callers that  *)
(* only look at a log, and the request to the API they all share.          *)
(* Sources: bot/services/battle_service.py, battle_log_fetch.py,           *)
(* battle_session_cache.py, sync_service.py, user_bootstrap.py,            *)
(* bot/api/routes/battles.py and misc.py.                                  *)
(*                                                                         *)
(* Battles are numbered in the order they are played.  Ages are counted in *)
(* ticks and stop at TTL, where the code treats a time stamp as expired.   *)
(* One player tag, so one telegram user: tags are unique among users.      *)
(* "full" stands for the columns that rows written by older versions lack  *)
(* (user_deck_json, battle_type, game_mode).                               *)
(***************************************************************************)
EXTENDS Naturals, FiniteSets

CONSTANTS
    Handlers,
    TTL,              \* BATTLE_TTL_SECONDS, in ticks
    LogLimit,         \* battles the API returns
    MaxBattles, MaxFaults    \* bounds of the model

ASSUME SyncAssumption ==
    /\ TTL \in Nat \ {0} /\ LogLimit \in Nat \ {0}
    /\ MaxBattles \in Nat /\ MaxFaults \in Nat

Battles == 1..MaxBattles

NoSession == [battles |-> {}, age |-> TTL, live |-> FALSE]

\* A list and whether _is_live_battlelog takes it for an answer of the API.
Sessions ==
    {s \in [battles : SUBSET Battles, age : 0..TTL, live : BOOLEAN] :
       s.live => s.battles # {}}

\* Who asks for the log: the periodic sync; a request that shows something made
\* from the battles; GET /api/battles; POST /sync and the first load after
\* /link; a caller that reads the log and stores nothing (profile, chat menus).
Kinds == {"sync", "view", "list", "boot", "peek"}

VARIABLES
    played,        \* battles played so far
    rows, full,    \* battle_cache: the rows, and those with all columns
    session,       \* _battles_by_user; age: ticks since the API sent this list
    fetchAge,      \* age of _fetched_at_by_tag, TTL if absent
    requested,     \* _inflight holds a request that is not done
    task,
    erased,        \* battles the user has deleted from the history
    faults

vars == <<played, rows, full, session, fetchAge, requested, task, erased, faults>>

Idle == [pc |-> "idle"]

Task ==
    {Idle}
    \cup [pc : {"waiting", "failed"}, kind : Kinds]
    \cup [pc : {"fetched"}, kind : Kinds, battles : SUBSET Battles]
    \cup [pc : {"stored"}, kind : Kinds, battles : (SUBSET Battles) \ {{}}]

TypeOK ==
    /\ played \in 0..MaxBattles
    /\ full \subseteq rows /\ rows \subseteq Battles
    /\ session \in Sessions
    /\ fetchAge \in 0..TTL
    /\ requested \in BOOLEAN
    /\ task \in [Handlers -> Task]
    /\ erased \subseteq Battles
    /\ faults \in 0..MaxFaults

-----------------------------------------------------------------------------
\* Mutant: <= instead of <, so that a mark never expires.
NeverExpires == fetchAge <= TTL

\* is_fresh
Fresh == fetchAge < TTL

\* load_and_persist answers from the session without asking the API.
SessionHit == session.live /\ Fresh

\* What the API returns now.
BattleLog == {b \in Battles : b <= played /\ b + LogLimit > played}

Older(age) == IF age < TTL THEN age + 1 ELSE TTL

\* Mutant: a list without a cached entry counts as live, the empty one too.
NoStubIn(battles) == battles \subseteq full

\* _is_live_battlelog for a list made of rows: one entry with a battle type.
LooksLive(battles) == battles \cap full # {}

Init ==
    /\ played \in {0, 1} /\ played <= MaxBattles
    /\ rows \in SUBSET (1..played) /\ full = {}
    /\ session = NoSession
    /\ fetchAge = TTL
    /\ requested = FALSE
    /\ task = [h \in Handlers |-> Idle]
    /\ erased = {}
    /\ faults = 0

Begin(h, t) == task[h] = Idle /\ task' = [task EXCEPT ![h] = t]
Continue(h, t) == task' = [task EXCEPT ![h] = t]
Finish(h) == task' = [task EXCEPT ![h] = Idle]

Tick ==
    /\ fetchAge' = Older(fetchAge)
    /\ session' = [session EXCEPT !.age = Older(@)]
    /\ UNCHANGED <<played, rows, full, requested, task, erased, faults>>

Play ==
    /\ played < MaxBattles
    /\ played' = played + 1
    /\ UNCHANGED <<rows, full, session, fetchAge, requested, task, erased, faults>>

-----------------------------------------------------------------------------
\* Asking.  coalesced_battlelog joins the request in flight or starts one.

AskApi(h, kind) ==
    /\ Begin(h, [pc |-> "waiting", kind |-> kind])
    /\ requested' = TRUE

\* sync_user_battles; _sync_lock lets one cycle run at a time.
Sync(h) ==
    /\ ~Fresh
    /\ \A g \in Handlers : task[g] # Idle => task[g].kind # "sync"
    /\ AskApi(h, "sync")
    /\ UNCHANGED <<played, rows, full, session, fetchAge, erased, faults>>

\* load_and_persist when the session does not answer.
Load(h, kind) ==
    /\ kind \in {"view", "list"}
    /\ ~SessionHit
    /\ AskApi(h, kind)
    /\ UNCHANGED <<played, rows, full, session, fetchAge, erased, faults>>

\* GET /api/battles when it does: the list is stored again under a new time.
ListFromSession ==
    /\ SessionHit
    /\ fetchAge' = 0
    /\ UNCHANGED <<played, rows, full, session, requested, task, erased, faults>>

\* POST /sync drops the session first.
Reload(h) ==
    /\ session' = NoSession /\ fetchAge' = TTL
    /\ AskApi(h, "boot")
    /\ UNCHANGED <<played, rows, full, erased, faults>>

Peek(h) ==
    /\ AskApi(h, "peek")
    /\ UNCHANGED <<played, rows, full, session, fetchAge, erased, faults>>

-----------------------------------------------------------------------------
\* The shared request.

\* Its answer goes to everyone who waits; the tag is marked as fetched.
ApiAnswers ==
    /\ requested
    /\ requested' = FALSE
    /\ fetchAge' = 0
    /\ task' = [h \in Handlers |->
                  IF task[h].pc # "waiting" THEN task[h]
                  ELSE IF task[h].kind = "peek" THEN Idle
                  ELSE [pc |-> "fetched", kind |-> task[h].kind,
                        battles |-> BattleLog]]
    /\ UNCHANGED <<played, rows, full, session, erased, faults>>

\* An error of the API, or the client that runs the request has been closed.
ApiFails ==
    /\ requested
    /\ requested' = FALSE
    /\ task' = [h \in Handlers |->
                  IF task[h].pc # "waiting" THEN task[h]
                  ELSE IF task[h].kind \in {"peek", "sync"} THEN Idle
                  ELSE [pc |-> "failed", kind |-> task[h].kind]]
    /\ UNCHANGED <<played, rows, full, session, fetchAge, erased, faults>>

\* wait_for expires for one waiter; the request is shielded and goes on.
GiveUp(h) ==
    /\ faults < MaxFaults
    /\ task[h].pc = "waiting" /\ task[h].kind \in {"sync", "boot"}
    /\ faults' = faults + 1
    /\ Finish(h)
    /\ UNCHANGED <<played, rows, full, session, fetchAge, requested, erased>>

-----------------------------------------------------------------------------
\* What a caller does with the answer.

\* The persist lock is held until the session list has been replaced.
Locked == \E g \in Handlers : task[g].pc = "stored"

AfterPersist(h) ==
    IF task[h].kind = "sync" THEN Finish(h)
    ELSE Continue(h, [pc |-> "stored", kind |-> task[h].kind,
                      battles |-> task[h].battles])

\* Mutant: the rows are flushed and the COMMIT is forgotten.
PersistUncommitted(h) ==
    /\ task[h].pc = "fetched" /\ task[h].battles # {} /\ ~Locked
    /\ AfterPersist(h)
    /\ UNCHANGED <<played, rows, full, session, fetchAge, requested, erased, faults>>

\* persist_battles: insert the new rows and backfill the columns of old ones.
\* Every UPDATE is flushed at once, so session.dirty is empty when it is tested:
\* the transaction is committed only if a row was inserted.
Persist(h) ==
    /\ task[h].pc = "fetched" /\ task[h].battles # {} /\ ~Locked
    /\ LET log == task[h].battles
       IN  IF log \ rows # {}
             THEN rows' = rows \cup log /\ full' = full \cup log
             ELSE UNCHANGED <<rows, full>>
    /\ AfterPersist(h)
    /\ UNCHANGED <<played, session, fetchAge, requested, erased, faults>>

\* The database refuses: the request fails, the cycle logs the exception.
PersistFails(h) ==
    /\ faults < MaxFaults
    /\ task[h].pc = "fetched" /\ task[h].battles # {} /\ ~Locked
    /\ faults' = faults + 1
    /\ Finish(h)
    /\ UNCHANGED <<played, rows, full, session, fetchAge, requested, erased>>

\* set_session_battles, which also marks the tag as fetched.
Publish(h) ==
    /\ task[h].pc = "stored"
    /\ session' = [battles |-> task[h].battles, age |-> 0, live |-> TRUE]
    /\ fetchAge' = 0
    /\ Finish(h)
    /\ UNCHANGED <<played, rows, full, requested, erased, faults>>

\* The API failed or its log is empty: the session if it looks live, else what
\* battle_cache holds.
Substitute ==
    IF session.live THEN session
    ELSE [battles |-> rows, age |-> TTL, live |-> LooksLive(rows)]

\* GET /api/battles and POST /sync put the substitute into the session, under
\* the present time; the other requests only show it.
FallBack(h) ==
    /\ \/ task[h].pc = "failed"
       \/ task[h].pc = "fetched" /\ task[h].battles = {}
    /\ LET kept == \/ Substitute.battles # {} /\ task[h].kind \in {"list", "boot"}
                   \/ task[h].pc = "fetched" /\ task[h].kind = "list"
       IN  IF kept THEN session' = Substitute /\ fetchAge' = 0
           ELSE UNCHANGED <<session, fetchAge>>
    /\ Finish(h)
    /\ UNCHANGED <<played, rows, full, requested, erased, faults>>

-----------------------------------------------------------------------------
\* POST /cache/clear (and what /unlink and a new /link do to the session).
ClearCache ==
    /\ session' = NoSession /\ fetchAge' = TTL
    /\ UNCHANGED <<played, rows, full, requested, task, erased, faults>>

\* DELETE /api/battles: the rows, then the session.
ClearHistory ==
    /\ erased' = erased \cup rows
    /\ rows' = {} /\ full' = {}
    /\ session' = NoSession /\ fetchAge' = TTL
    /\ UNCHANGED <<played, requested, task, faults>>

\* Only the database survives the process.
Crash ==
    /\ faults < MaxFaults
    /\ faults' = faults + 1
    /\ session' = NoSession /\ fetchAge' = TTL
    /\ requested' = FALSE
    /\ task' = [h \in Handlers |-> Idle]
    /\ UNCHANGED <<played, rows, full, erased>>

Step(h) == Persist(h) \/ Publish(h) \/ FallBack(h)

Request(h) == Sync(h) \/ Load(h, "view") \/ Load(h, "list") \/ Reload(h) \/ Peek(h)

Next ==
    \/ Tick \/ Play \/ ListFromSession \/ ClearCache \/ ClearHistory \/ Crash
    \/ ApiAnswers \/ ApiFails
    \/ \E h \in Handlers : Request(h) \/ GiveUp(h) \/ Step(h) \/ PersistFails(h)

Spec == Init /\ [][Next]_vars

\* Fairness: time passes, the loop runs every task, the periodic cycle comes
\* back as long as a handler is free, and the API does not fail for ever.
FairSpec ==
    /\ Spec
    /\ WF_vars(Tick)
    /\ \A h \in Handlers : WF_vars(Step(h))
    /\ WF_vars(\E h \in Handlers : Sync(h))
    /\ SF_vars(ApiAnswers)

-----------------------------------------------------------------------------
\* What the Mini App shows as the live log is in the history (or was, until the
\* user deleted it): statistics over the table never miss a battle shown.
ShownIsStored == session.live => session.battles \subseteq rows \cup erased

Missing(b) == b \in BattleLog /\ b \notin rows \cup erased

\* No battle stays in the log for ever without getting into the history: it is
\* stored (or deleted by the user), or the log moves on without it.  Excepted are
\* users who read the log for ever without storing it (which marks it as fetched,
\* so that the sync skips it) or list the session for ever (which does the same).
EveryBattleStored ==
    \/ []<><<\E h \in Handlers : Peek(h)>>_vars
    \/ []<><<ListFromSession>>_vars
    \/ \A b \in Battles : b \in BattleLog ~> ~Missing(b)
=============================================================================
