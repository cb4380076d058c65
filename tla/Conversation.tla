---------------------------- MODULE Conversation ----------------------------
(***************************************************************************)
(* The coach's memory of one user (bot/services/ghosteek_ai/conversation   *)
(* and memory).  A dictionary in the process names the current session of  *)
(* the user.  A question appends to the session it found, is answered by   *)
(* tools and a language model, and then appends the answer to that object  *)
(* and makes it the current one, whatever happened meanwhile.              *)
(*                                                                         *)
(* Sessions are objects: several may exist, because a question in flight   *)
(* holds on to its own.  What is said, and the facts that a session copies *)
(* from an answer for follow-ups, are left out.  Sessions of different     *)
(* users do not meet.                                                      *)
(***************************************************************************)
EXTENDS Naturals, Sequences, FiniteSets

CONSTANTS
    Questions, Replays,
    MaxRole,         \* MAX_USER_MESSAGES, MAX_ASSISTANT_MESSAGES
    CompressAt, KeepRecent,
    MaxSummary,      \* messages that fit into MAX_SUMMARY_CHARS
    TTL,             \* SESSION_TTL_SECONDS, in ticks
    MaxAnswer,       \* ticks within which a model answers or times out
    NoReplay

ASSUME ConversationAssumption ==
    /\ CompressAt \in Nat /\ KeepRecent \in 1..(CompressAt - 1)
    /\ MaxRole \in Nat /\ CompressAt <= MaxRole
    /\ MaxSummary \in Nat /\ CompressAt - KeepRecent <= MaxSummary
    /\ TTL \in Nat /\ MaxAnswer \in Nat /\ MaxAnswer <= TTL
    /\ NoReplay \notin Replays

Message == [of : Questions, role : {"user", "assistant"}]

VARIABLES
    current,         \* the session in the dictionary, 0 if none
    sessions,        \* all session objects, in the order of their creation
    asked,
    flight,          \* questions whose answer is awaited
    ended,           \* history: sessions that were cleared or have expired
    late,            \* history: questions in flight at a clear, unless they failed
    shown,           \* history: answered since the conversation began
    recalled        \* history: the last replay remembered since then

memory == <<current, sessions, asked, flight, ended, late, shown, recalled>>

Session == [messages : Seq(Message), summary : Seq(Message), idle : 0..(TTL + 1),
            replay : Replays \cup {NoReplay},
            said : Seq(Message)]       \* history: all that was ever appended

Flight == [q : Questions, in : Nat \ {0}, age : 0..MaxAnswer]

MemoryTypeOK ==
    /\ sessions \in Seq(Session)
    /\ current \in 0..Len(sessions)
    /\ asked \subseteq Questions
    /\ flight \subseteq Flight /\ \A f \in flight : f.in <= Len(sessions)
    /\ ended \subseteq 1..Len(sessions)
    /\ late \subseteq asked /\ shown \subseteq asked
    /\ recalled \in Replays \cup {NoReplay}

-----------------------------------------------------------------------------
Newest(s, n) == SubSeq(s, IF Len(s) > n THEN Len(s) - n + 1 ELSE 1, Len(s))

\* The last MaxRole questions and as many answers, in their order.
Trimmed(s) ==
    LET Newer(n) == {i \in (n + 1)..Len(s) : s[i].role = s[n].role}
        kept[n \in 0..Len(s)] ==
            IF n = 0 THEN <<>>
            ELSE IF Cardinality(Newer(n)) < MaxRole THEN Append(kept[n - 1], s[n])
            ELSE kept[n - 1]
    IN  kept[Len(s)]

\* Mutant: the new summary replaces the old one.
CompressedAnew(c) ==
    IF Len(c.messages) < CompressAt THEN c
    ELSE [c EXCEPT
            !.summary = SubSeq(c.messages, 1, Len(c.messages) - KeepRecent),
            !.messages = Newest(@, KeepRecent)]

\* maybe_compress: all but the last messages move into the summary, whose end
\* is kept.
Compressed(c) ==
    IF Len(c.messages) < CompressAt THEN c
    ELSE [c EXCEPT
            !.summary = Newest(@ \o SubSeq(c.messages, 1, Len(c.messages) - KeepRecent),
                               MaxSummary),
            !.messages = Newest(@, KeepRecent)]

\* Mutant: a message does not renew the session.
SaidUntouched(c, q, role) ==
    LET m == [of |-> q, role |-> role] IN
    [Compressed([c EXCEPT !.messages = Trimmed(Append(@, m))])
        EXCEPT !.said = Append(@, m)]

\* add_user_message, add_assistant_message: append, trim, compress, touch.
Said(c, q, role) ==
    LET m == [of |-> q, role |-> role] IN
    [Compressed([c EXCEPT !.messages = Trimmed(Append(@, m))])
        EXCEPT !.said = Append(@, m), !.idle = 0]

NewSession == [messages |-> <<>>, summary |-> <<>>, idle |-> 0,
               replay |-> NoReplay, said |-> <<>>]

\* Mutant: a session lives for one tick more.
ExpiredLate(s) == sessions[s].idle > TTL + 1

Expired(s) == sessions[s].idle > TTL
Alive == current # 0 /\ ~Expired(current)

\* get_or_create: the current session, or a new one.
Found == IF Alive THEN sessions[current] ELSE NewSession

\* What the caller makes of the session it found before it awaits.
Became(c) ==
    IF Alive
    THEN /\ sessions' = [sessions EXCEPT ![current] = c]
         /\ UNCHANGED <<current, ended>>
    ELSE /\ sessions' = Append(sessions, c)
         /\ current' = Len(sessions) + 1
         /\ ended' = IF current = 0 THEN ended ELSE ended \cup {current}

ShownSoFar == IF Alive THEN shown ELSE {}
RecalledSoFar == IF Alive THEN recalled ELSE NoReplay

-----------------------------------------------------------------------------
MemoryInit ==
    /\ current = 0 /\ sessions = <<>> /\ asked = {} /\ flight = {}
    /\ ended = {} /\ late = {} /\ shown = {} /\ recalled = NoReplay

\* A question is appended before anything is awaited.
Ask(q) ==
    /\ q \notin asked /\ asked' = asked \cup {q}
    /\ Became(Said(Found, q, "user"))
    /\ flight' = flight \cup {[q |-> q, in |-> current', age |-> 0]}
    /\ shown' = ShownSoFar /\ recalled' = RecalledSoFar
    /\ UNCHANGED late

\* A question about a replay, known to the session or named by the client, is
\* answered from what is stored, without waiting.
AskAboutReplay(q) ==
    /\ q \notin asked /\ asked' = asked \cup {q}
    /\ Became(Said(Said(Found, q, "user"), q, "assistant"))
    /\ shown' = ShownSoFar \cup {q} /\ recalled' = RecalledSoFar
    /\ UNCHANGED <<flight, late>>

\* The answer goes into the question's session, and save() makes that session
\* the current one.
Answer(f) ==
    /\ f \in flight /\ flight' = flight \ {f}
    /\ sessions' = [sessions EXCEPT ![f.in] = Said(@, f.q, "assistant")]
    /\ current' = f.in
    /\ shown' = shown \cup {f.q}
    /\ UNCHANGED <<asked, ended, late, recalled>>

\* An exception on the way: the question stays, and nothing is saved.
Fail(f) ==
    /\ f \in flight /\ flight' = flight \ {f}
    /\ late' = late \ {f.q}
    /\ UNCHANGED <<current, sessions, asked, ended, shown, recalled>>

End ==
    /\ current' = 0 /\ ended' = ended \cup {current}
    /\ shown' = {} /\ recalled' = NoReplay
    /\ UNCHANGED <<sessions, asked, flight>>

Clear ==
    /\ current # 0 /\ End
    /\ late' = late \cup {f.q : f \in flight}

\* The sweep, or get() on behalf of a reader.
Sweep == current # 0 /\ Expired(current) /\ End /\ UNCHANGED late

\* set_last_replay and save, without an await since get_or_create.
Remember(u) ==
    /\ Became([Found EXCEPT !.replay = u, !.idle = 0])
    /\ shown' = ShownSoFar /\ recalled' = u
    /\ UNCHANGED <<asked, flight, late>>

Tick ==
    /\ \A f \in flight : f.age < MaxAnswer
    /\ sessions' = [s \in DOMAIN sessions |->
                      IF Expired(s) THEN sessions[s]
                      ELSE [sessions[s] EXCEPT !.idle = @ + 1]]
    /\ flight' = {[f EXCEPT !.age = @ + 1] : f \in flight}
    /\ UNCHANGED <<current, asked, ended, late, shown, recalled>>

\* The process ends, and all this was in its memory.
Forget ==
    /\ current' = 0 /\ sessions' = <<>> /\ flight' = {}
    /\ ended' = {} /\ late' = {} /\ shown' = {} /\ recalled' = NoReplay
    /\ UNCHANGED asked

-----------------------------------------------------------------------------
\* Summary and messages are the end of what was said, without a gap or a
\* repetition, and nothing is forgotten while the summary has room: trimming,
\* compression at 16 and the last 8 fit together (memory/summary.py:17-20,
\* conversation/state.py:12-14).
NothingSkipped ==
    \A s \in DOMAIN sessions :
        LET c == sessions[s]
            known == c.summary \o c.messages
        IN  /\ known = Newest(c.said, Len(known))
            /\ Len(c.summary) = MaxSummary \/ known = c.said

\* As long as no conversation is cleared under a question in flight, a session
\* that was cleared or has expired does not come back, and what the user was
\* shown since the conversation began is in the current session: its answers,
\* and the last replay.  Two questions, an upload and the sweep may overlap.
OneConversation ==
    late = {} =>
        /\ current \notin ended
        /\ IF current = 0 THEN shown = {} /\ recalled = NoReplay
           ELSE /\ \A q \in shown : \E i \in DOMAIN sessions[current].said :
                      sessions[current].said[i] = [of |-> q, role |-> "assistant"]
                /\ sessions[current].replay = recalled
=============================================================================
