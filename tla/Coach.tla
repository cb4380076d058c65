-------------------------------- MODULE Coach --------------------------------
(***************************************************************************)
(* The coach's routes (bot/api/routes/ai.py): questions, uploads, reading  *)
(* and clearing the conversation.  They share the user's session: what an  *)
(* upload found is remembered there, and a question may refer to it.       *)
(***************************************************************************)
EXTENDS Conversation, ReplayJobs

CONSTANT MaxRestarts         \* bound of the model

ASSUME CoachAssumption == Replays = Uploads /\ MaxRestarts \in Nat

VARIABLE restarts

vars == <<memory, jobs, restarts>>

TypeOK == MemoryTypeOK /\ JobsTypeOK /\ restarts \in 0..MaxRestarts

Init == MemoryInit /\ JobsInit /\ restarts = 0

\* A request that ends with a finding stores it in the session.
Conclude(u) ==
    /\ Dismiss(u) \/ Coached(u)
    /\ Remember(u)
    /\ UNCHANGED restarts

Converse ==
    /\ \/ \E q \in Questions : Ask(q) \/ AskAboutReplay(q)
       \/ \E f \in flight : Answer(f) \/ Fail(f)
       \/ Clear \/ Sweep \/ Tick
    /\ UNCHANGED <<jobs, restarts>>

Work(u) ==
    /\ Upload(u) \/ Busy(u) \/ Refuse(u) \/ LookCloser(u) \/ Analysed(u) \/ Break(u)
    /\ UNCHANGED <<memory, restarts>>

Restart ==
    /\ restarts < MaxRestarts /\ restarts' = restarts + 1
    /\ Forget /\ \E orderly \in BOOLEAN : Stop(orderly)

Next ==
    \/ Converse \/ Restart
    \/ \E u \in Uploads : Work(u) \/ Conclude(u)

Spec == Init /\ [][Next]_vars
=============================================================================
