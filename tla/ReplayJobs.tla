----------------------------- MODULE ReplayJobs -----------------------------
(***************************************************************************)
(* Uploads of replay videos (bot/services/ghosteek_ai/replay/service.py).  *)
(* One upload at a time is spooled to a temporary file, checked, perhaps   *)
(* compressed into a second one, and analysed; frames for a vision model   *)
(* are files too.  The explanations and the coach's text are written when  *)
(* the pipeline is free again.  The videos and findings are left out.      *)
(***************************************************************************)
EXTENDS Naturals, FiniteSets

CONSTANTS
    Uploads,
    MaxJobs,         \* REPLAY_MAX_CONCURRENT_JOBS
    Vision           \* REPLAY_VISION_ENABLED

ASSUME JobsAssumption == MaxJobs \in Nat \ {0} /\ Vision \in BOOLEAN

VARIABLES
    job,             \* where each upload is
    busy, active,    \* _busy, _active_jobs
    files,           \* uploads with a temporary file
    cut              \* history: uploads whose file a restart left behind

jobs == <<job, busy, active, files, cut>>

Pipeline == {"spool", "vision"}
Running == {u \in Uploads : job[u] \in Pipeline}

JobsTypeOK ==
    /\ job \in [Uploads -> Pipeline \cup {"new", "coach", "over"}]
    /\ busy \in BOOLEAN /\ active \in Nat
    /\ files \subseteq Uploads /\ cut \subseteq Uploads

JobsInit ==
    /\ job = [u \in Uploads |-> "new"]
    /\ busy = FALSE /\ active = 0 /\ files = {} /\ cut = {}

Goto(u, pc) == job' = [job EXCEPT ![u] = pc]

\* Mutant: the service is freed at the end of the analysis only.
FreedAtEnd(u, pc) ==
    /\ Goto(u, pc)
    /\ files' = files \ {u}
    /\ busy' = (busy /\ pc = "over") /\ active' = active - 1
    /\ UNCHANGED cut

\* The finally block of the pipeline.
Freed(u, pc) ==
    /\ Goto(u, pc)
    /\ files' = files \ {u}
    /\ active' = IF active > 0 THEN active - 1 ELSE 0
    /\ busy' = FALSE
    /\ UNCHANGED cut

Full == busy \/ active >= MaxJobs

Upload(u) ==
    /\ job[u] = "new" /\ ~Full
    /\ busy' = TRUE /\ active' = active + 1
    /\ files' = files \cup {u}
    /\ Goto(u, "spool")
    /\ UNCHANGED cut

\* 409, and nothing is touched.
Busy(u) ==
    /\ job[u] = "new" /\ Full
    /\ Goto(u, "over")
    /\ UNCHANGED <<busy, active, files, cut>>

\* The file is too large, cannot be read, or fails a check or the analysis.
Refuse(u) == job[u] = "spool" /\ Freed(u, "over")

\* Spooled, probed and analysed: this is a replay, and its frames are shown to
\* the vision model.
LookCloser(u) ==
    /\ job[u] = "spool" /\ Vision
    /\ Goto(u, "vision")
    /\ UNCHANGED <<busy, active, files, cut>>

\* The vision model answered, failed or timed out, or is not used: the pipeline
\* ends, and the coach's text is awaited.
Analysed(u) ==
    /\ job[u] = IF Vision THEN "vision" ELSE "spool"
    /\ Freed(u, "coach")

\* The stage after the vision model fails.
Break(u) == job[u] = "vision" /\ Freed(u, "over")

\* Not a replay, or perhaps not: the request ends with the pipeline.
Dismiss(u) == job[u] = "spool" /\ Freed(u, "over")

\* The coach's text, or the template that replaces it.
Coached(u) ==
    /\ job[u] = "coach"
    /\ Goto(u, "over")
    /\ UNCHANGED <<busy, active, files, cut>>

Ended == [u \in Uploads |->
            IF job[u] \in Pipeline \cup {"coach"} THEN "over" ELSE job[u]]

\* A restart.  An orderly one cancels the requests, whose finally blocks run;
\* but the spooled file is known to them only after the last read, and the
\* handlers of _spool_limited do not catch a cancellation.
Stop(orderly) ==
    LET left == IF orderly THEN {u \in files : job[u] = "spool"} ELSE files \cap Running
    IN  /\ job' = Ended /\ busy' = FALSE /\ active' = 0
        /\ cut' = cut \cup left
        /\ files' = (files \ Running) \cup left

-----------------------------------------------------------------------------
\* One upload is in the pipeline at most, the service is busy exactly while
\* there is one, and only a restart leaves a file behind, on every way out
\* (replay/service.py:238-316, 537-565).
JobsLeaveNothing ==
    /\ files \subseteq Running \cup cut
    /\ busy <=> Running # {}
    /\ active = Cardinality(Running) /\ active <= 1
=============================================================================
