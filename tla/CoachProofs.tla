----------------------------- MODULE CoachProofs -----------------------------
(***************************************************************************)
(* Coach, proved for every set of questions and uploads, every length of   *)
(* the memory's windows and every number of restarts.                      *)
(***************************************************************************)
EXTENDS Coach, WellFoundedInduction, FiniteSetTheorems, SequenceTheorems, TLAPS

-----------------------------------------------------------------------------
\* The replay service.

\* JobsLeaveNothing by cases: the service is free, or one upload holds it.
OneUpload ==
    /\ JobsTypeOK
    /\ files \subseteq Running \cup cut
    /\ \/ Running = {} /\ ~busy /\ active = 0
       \/ \E u \in Uploads : Running = {u} /\ busy /\ active = 1

LEMMA OneUploadSuffices == OneUpload => JobsLeaveNothing
<1> SUFFICES ASSUME OneUpload PROVE JobsLeaveNothing
  OBVIOUS
<1>1. CASE Running = {} /\ ~busy /\ active = 0
  BY <1>1, FS_EmptySet DEF OneUpload, JobsLeaveNothing
<1>2. CASE \E u \in Uploads : Running = {u} /\ busy /\ active = 1
  BY <1>2, FS_Singleton DEF OneUpload, JobsLeaveNothing
<1>3. QED
  BY <1>1, <1>2 DEF OneUpload

\* The finally block frees the service: the upload that held it was the only one.
LEMMA FreedKeepsOneUpload ==
    ASSUME OneUpload, NEW u \in Running, NEW pc \in {"coach", "over"}, Freed(u, pc)
    PROVE  OneUpload'
<1>1. Running = {u} /\ active = 1 /\ u \in Uploads
  BY DEF OneUpload, Running
<1>2. Running' = {}
  <2>1. /\ job'[u] = pc /\ pc \notin Pipeline
        /\ \A v \in Uploads \ {u} : job'[v] = job[v] /\ v \notin Running
    BY <1>1 DEF Freed, Goto, OneUpload, JobsTypeOK, Pipeline
  <2>2. QED
    BY <2>1 DEF Running, Pipeline
<1>3. JobsTypeOK'
  <2>1. job' \in [Uploads -> Pipeline \cup {"new", "coach", "over"}]
    BY <1>1 DEF Freed, Goto, OneUpload, JobsTypeOK
  <2>2. busy' = FALSE /\ active' = 0 /\ files' \subseteq files /\ cut' = cut
    BY <1>1 DEF Freed
  <2>3. QED
    BY <2>1, <2>2 DEF OneUpload, JobsTypeOK
<1>4. files' \subseteq cut'
  BY <1>1 DEF Freed, OneUpload
<1>5. ~busy' /\ active' = 0
  BY <1>1 DEF Freed
<1>6. QED
  BY <1>2, <1>3, <1>4, <1>5 DEF OneUpload

\* A step that leaves the pipeline as it is.
LEMMA SamePipeline ==
    ASSUME OneUpload, JobsTypeOK', Running' = Running,
           UNCHANGED <<busy, active, files, cut>>
    PROVE  OneUpload'
  BY DEF OneUpload

LEMMA WorkKeepsOneUpload ==
    ASSUME OneUpload, NEW u \in Uploads,
           \/ Upload(u) \/ Busy(u) \/ Refuse(u) \/ LookCloser(u) \/ Analysed(u)
           \/ Break(u) \/ Dismiss(u) \/ Coached(u)
    PROVE  OneUpload'
<1>1. CASE Upload(u)
  <2>1. Running = {} /\ active = 0
    BY <1>1 DEF Upload, Full, OneUpload
  <2>2. Running' = {u}
    BY <1>1, <2>1 DEF Upload, Goto, OneUpload, JobsTypeOK, Running, Pipeline
  <2>3. JobsTypeOK'
    BY <1>1 DEF Upload, Goto, OneUpload, JobsTypeOK, Pipeline
  <2>4. files' \subseteq {u} \cup cut'
    BY <1>1, <2>1 DEF Upload, OneUpload
  <2>5. busy' /\ active' = 1
    BY <1>1, <2>1 DEF Upload
  <2>6. QED
    BY <2>2, <2>3, <2>4, <2>5 DEF OneUpload
<1>2. CASE Busy(u) \/ LookCloser(u) \/ Coached(u)
  <2>1. JobsTypeOK'
    BY <1>2 DEF Busy, LookCloser, Coached, Goto, OneUpload, JobsTypeOK, Pipeline
  <2>2. Running' = Running
    BY <1>2 DEF Busy, LookCloser, Coached, Goto, OneUpload, JobsTypeOK, Running, Pipeline
  <2>3. QED
    BY <1>2, <2>1, <2>2, SamePipeline DEF Busy, LookCloser, Coached
<1>3. CASE Refuse(u) \/ Analysed(u) \/ Break(u) \/ Dismiss(u)
  <2>1. u \in Running
    BY <1>3 DEF Refuse, Analysed, Break, Dismiss, Running, Pipeline
  <2>2. Freed(u, "over") \/ Freed(u, "coach")
    BY <1>3 DEF Refuse, Analysed, Break, Dismiss
  <2>3. QED
    BY <2>1, <2>2, FreedKeepsOneUpload
<1>4. QED
  BY <1>1, <1>2, <1>3

LEMMA StopKeepsOneUpload ==
    ASSUME OneUpload, NEW orderly \in BOOLEAN, Stop(orderly)
    PROVE  OneUpload'
<1>1. Running' = {}
  BY DEF Stop, Ended, Running, Pipeline
<1>2. JobsTypeOK'
  BY DEF Stop, Ended, OneUpload, JobsTypeOK, Pipeline
<1>3. files' \subseteq cut'
  BY DEF Stop, OneUpload
<1>4. QED
  BY <1>1, <1>2, <1>3 DEF Stop, OneUpload

THEOREM ReplayServiceInvariant == Spec => []OneUpload
<1>1. Init => OneUpload
  <2>1. Init => Running = {}
    BY DEF Init, JobsInit, Running, Pipeline
  <2>2. Init => JobsTypeOK
    <3> SUFFICES ASSUME Init PROVE JobsTypeOK
      OBVIOUS
    <3>1. job \in [Uploads -> Pipeline \cup {"new", "coach", "over"}]
      BY DEF Init, JobsInit
    <3>2. busy \in BOOLEAN /\ active \in Nat
      BY DEF Init, JobsInit
    <3>3. QED
      BY <3>1, <3>2 DEF Init, JobsInit, JobsTypeOK
  <2>3. Init => ~busy /\ active = 0 /\ files = {}
    BY DEF Init, JobsInit
  <2>4. QED
    BY <2>1, <2>2, <2>3 DEF OneUpload
<1>2. OneUpload /\ [Next]_vars => OneUpload'
  <2> SUFFICES ASSUME OneUpload, [Next]_vars PROVE OneUpload'
    OBVIOUS
  <2>1. CASE UNCHANGED jobs
    BY <2>1 DEF jobs, OneUpload, JobsTypeOK, Running
  <2>2. CASE Restart
    BY <2>2, StopKeepsOneUpload DEF Restart
  <2>3. CASE \E u \in Uploads : Work(u) \/ Conclude(u)
    BY <2>3, WorkKeepsOneUpload DEF Work, Conclude
  <2>4. QED
    BY <2>1, <2>2, <2>3 DEF Next, Converse, vars
<1>3. QED
  BY <1>1, <1>2, PTL DEF Spec

\* On every way out of the pipeline, and over restarts: one upload at most holds
\* the service, the service is busy exactly then, and no file is left but by a
\* restart (replay/service.py:238-316, 537-565).
THEOREM ReplayServiceIsFreed == Spec => []JobsLeaveNothing
  BY ReplayServiceInvariant, OneUploadSuffices, PTL

-----------------------------------------------------------------------------
\* What trimming and compressing return.

\* Every nonempty set of natural numbers has a least element.
LEMMA LeastNatural ==
    ASSUME NEW S \in SUBSET Nat, S # {}
    PROVE  \E n \in S : \A m \in S : n <= m
<1> DEFINE Less == {p \in Nat \X Nat : p[1] < p[2]}
<1>1. OpToRel(<, Nat) = Less
  BY Zenon DEF OpToRel
<1>2. IsWellFoundedOn(Less, Nat)
  BY NatLessThanWellFounded, <1>1, Zenon
<1>3. PICK n \in S : \A m \in S : <<m, n>> \notin Less
  <2>1. \A T : T \subseteq Nat /\ T # {} => \E n \in T : \A m \in T : <<m, n>> \notin Less
    BY <1>2, WFMin, Zenon
  <2>2. QED
    BY <2>1
<1>4. \A m \in S : m \in Nat /\ n \in Nat /\ (<<m, n>> \in Less <=> m < n)
  OBVIOUS
<1> HIDE DEF Less
<1>5. \A m \in S : n <= m
  <2> TAKE m \in S
  <2>1. m \in Nat /\ n \in Nat /\ ~(m < n)
    BY <1>3, <1>4
  <2>2. QED
    BY <2>1
<1>6. QED
  BY <1>5

\* _trim_by_role drops nothing from a list that is no longer than the length at
\* which it is compressed.
LEMMA TrimKeepsAll ==
    ASSUME NEW s \in Seq(Message), Len(s) <= CompressAt
    PROVE  Trimmed(s) = s
<1> DEFINE Newer(n) == {i \in (n + 1)..Len(s) : s[i].role = s[n].role}
           Step(k) == [n \in 0..Len(s) |->
                         IF n = 0 THEN <<>>
                         ELSE IF Cardinality(Newer(n)) < MaxRole
                              THEN Append(k[n - 1], s[n])
                         ELSE k[n - 1]]
           prefixes == [n \in 0..Len(s) |-> SubSeq(s, 1, n)]
           kept == CHOOSE k : k = Step(k)
<1>1. \A n \in 1..Len(s) : Cardinality(Newer(n)) < MaxRole
  <2> TAKE n \in 1..Len(s)
  <2>1. Newer(n) \subseteq (n + 1)..Len(s)
    OBVIOUS
  <2>2. IsFiniteSet((n + 1)..Len(s)) /\ Cardinality((n + 1)..Len(s)) = Len(s) - n
    BY FS_Interval
  <2>3. Cardinality(Newer(n)) <= Len(s) - n /\ Cardinality(Newer(n)) \in Nat
    BY <2>1, <2>2, FS_Subset, FS_CardinalityType
  <2>4. CompressAt <= MaxRole /\ MaxRole \in Nat /\ CompressAt \in Nat
    BY ConversationAssumption
  <2>5. QED
    BY <2>3, <2>4
<1>2. \A n \in 1..Len(s) : Append(SubSeq(s, 1, n - 1), s[n]) = SubSeq(s, 1, n)
  OBVIOUS
<1>3. SubSeq(s, 1, 0) = <<>> /\ SubSeq(s, 1, Len(s)) = s
  OBVIOUS
<1> HIDE DEF Newer
<1>4. prefixes = Step(prefixes)
  <2>1. \A n \in 0..Len(s) : prefixes[n] = Step(prefixes)[n]
    BY <1>1, <1>2, <1>3
  <2>2. QED
    BY <2>1
<1>5. kept = Step(kept)
  <2> HIDE DEF Step, prefixes
  <2>1. QED
    BY <1>4, Zenon
<1>6. /\ kept[0] = <<>>
      /\ \A n \in 1..Len(s) : kept[n] = Append(kept[n - 1], s[n])
  <2> HIDE DEF kept
  <2>1. \A n \in 0..Len(s) : kept[n] = Step(kept)[n]
    <3> HIDE DEF Step
    <3>1. QED
      BY <1>5, Zenon
  <2>2. kept[0] = <<>>
    BY <2>1, 0 \in 0..Len(s)
  <2>3. ASSUME NEW n \in 1..Len(s) PROVE kept[n] = Append(kept[n - 1], s[n])
    <3>1. n \in 0..Len(s) /\ n # 0
      OBVIOUS
    <3>2. kept[n] = Step(kept)[n]
      BY <2>1, <3>1
    <3>3. QED
      BY <3>1, <3>2, <1>1
  <2>4. QED
    BY <2>2, <2>3
<1>7. \A n \in 0..Len(s) : kept[n] = SubSeq(s, 1, n)
  <2> HIDE DEF kept
  <2> DEFINE wrong == {n \in 0..Len(s) : kept[n] # SubSeq(s, 1, n)}
  <2> SUFFICES ASSUME wrong # {} PROVE FALSE
    OBVIOUS
  <2>1. PICK n \in wrong : \A m \in wrong : n <= m
    <3>1. wrong \in SUBSET Nat
      OBVIOUS
    <3> HIDE DEF wrong
    <3>2. QED
      BY <3>1, LeastNatural
  <2>2. n # 0
    BY <2>1, <1>6, <1>3
  <2>3. n - 1 \in 0..Len(s) /\ kept[n - 1] = SubSeq(s, 1, n - 1)
    BY <2>1, <2>2
  <2>4. n \in 1..Len(s) /\ kept[n] # SubSeq(s, 1, n)
    BY <2>1, <2>2
  <2>5. kept[n] = Append(SubSeq(s, 1, n - 1), s[n])
    BY <2>3, <2>4, <1>6
  <2>6. QED
    BY <2>4, <2>5, <1>2
<1>8. Trimmed(s) = kept[Len(s)]
  BY Zenon DEF Trimmed, Newer
<1> HIDE DEF kept
<1>9. QED
  BY <1>3, <1>7, <1>8

\* Newest returns the end of a list.
EndOf(k, s) ==
    /\ Len(k) <= Len(s)
    /\ \A i \in 1..Len(k) : k[i] = s[Len(s) - Len(k) + i]

LEMMA NewestIsEnd ==
    ASSUME NEW S, NEW s \in Seq(S), NEW n \in Nat
    PROVE  /\ Newest(s, n) \in Seq(S)
           /\ Len(Newest(s, n)) = IF Len(s) > n THEN n ELSE Len(s)
           /\ EndOf(Newest(s, n), s)
<1>1. CASE Len(s) > n
  <2>1. Newest(s, n) = SubSeq(s, Len(s) - n + 1, Len(s))
    BY <1>1 DEF Newest
  <2>2. SubSeq(s, Len(s) - n + 1, Len(s)) \in Seq(S)
    BY <1>1
  <2>3. Len(SubSeq(s, Len(s) - n + 1, Len(s))) = n
    BY <1>1
  <2>4. \A i \in 1..n : SubSeq(s, Len(s) - n + 1, Len(s))[i] = s[Len(s) - n + i]
    BY <1>1
  <2>5. QED
    BY <1>1, <2>1, <2>2, <2>3, <2>4 DEF EndOf
<1>2. CASE Len(s) <= n
  <2>1. Newest(s, n) = s
    <3>1. ~(Len(s) > n)
      BY <1>2
    <3>2. QED
      BY <3>1, SubSeqFull DEF Newest
  <2>2. QED
    BY <1>2, <2>1 DEF EndOf
<1>3. QED
  BY <1>1, <1>2

LEMMA EndIsNewest ==
    ASSUME NEW S, NEW s \in Seq(S), NEW k \in Seq(S)
    PROVE  k = Newest(s, Len(k)) <=> EndOf(k, s)
<1>1. /\ Newest(s, Len(k)) \in Seq(S)
      /\ Len(Newest(s, Len(k))) = IF Len(s) > Len(k) THEN Len(k) ELSE Len(s)
      /\ EndOf(Newest(s, Len(k)), s)
  BY NewestIsEnd
<1>2. ASSUME EndOf(k, s) PROVE k = Newest(s, Len(k))
  <2> DEFINE n == Newest(s, Len(k))
  <2>1. Len(n) = Len(k)
    BY <1>1, <1>2 DEF EndOf
  <2>2. \A i \in 1..Len(k) : k[i] = n[i]
    BY <1>1, <1>2, <2>1 DEF EndOf
  <2> HIDE DEF n
  <2>3. QED
    BY <1>1, <2>1, <2>2, SeqEqual DEF n
<1>3. QED
  BY <1>1, <1>2

\* The end of a list stays its end when both go on alike.
LEMMA EndsGoOn ==
    ASSUME NEW S, NEW k \in Seq(S), NEW s \in Seq(S), NEW t \in Seq(S), EndOf(k, s)
    PROVE  EndOf(k \o t, s \o t)
<1>1. /\ Len(k \o t) = Len(k) + Len(t) /\ Len(s \o t) = Len(s) + Len(t)
      /\ Len(k) \in Nat /\ Len(s) \in Nat /\ Len(t) \in Nat
  OBVIOUS
<1>2. ASSUME NEW i \in 1..Len(k \o t)
      PROVE  (k \o t)[i] = (s \o t)[Len(s \o t) - Len(k \o t) + i]
  <2> DEFINE j == Len(s) - Len(k) + i
  <2>1. j \in 1..(Len(s) + Len(t)) /\ j = Len(s \o t) - Len(k \o t) + i
    BY <1>1 DEF EndOf
  <2>2. /\ (k \o t)[i] = IF i <= Len(k) THEN k[i] ELSE t[i - Len(k)]
        /\ (s \o t)[j] = IF j <= Len(s) THEN s[j] ELSE t[j - Len(s)]
    BY <1>1, <2>1, ConcatProperties
  <2>3. (i <= Len(k) <=> j <= Len(s)) /\ j - Len(s) = i - Len(k)
    BY <1>1
  <2>4. i <= Len(k) => k[i] = s[j]
    BY <1>1 DEF EndOf
  <2>5. QED
    BY <2>1, <2>2, <2>3, <2>4
<1>3. QED
  BY <1>1, <1>2 DEF EndOf

LEMMA EndOfEnd ==
    ASSUME NEW S, NEW k \in Seq(S), NEW s \in Seq(S), NEW t \in Seq(S),
           EndOf(k, s), EndOf(s, t)
    PROVE  EndOf(k, t)
<1>1. Len(k) \in Nat /\ Len(s) \in Nat /\ Len(t) \in Nat
  OBVIOUS
<1>2. ASSUME NEW i \in 1..Len(k) PROVE k[i] = t[Len(t) - Len(k) + i]
  <2>1. k[i] = s[Len(s) - Len(k) + i]
    BY DEF EndOf
  <2>2. Len(s) - Len(k) + i \in 1..Len(s)
    BY <1>1 DEF EndOf
  <2>3. s[Len(s) - Len(k) + i] = t[Len(t) - Len(s) + (Len(s) - Len(k) + i)]
    BY <2>2 DEF EndOf
  <2>4. Len(t) - Len(s) + (Len(s) - Len(k) + i) = Len(t) - Len(k) + i
    BY <1>1
  <2>5. QED
    BY <2>1, <2>3, <2>4
<1>3. QED
  BY <1>1, <1>2 DEF EndOf

\* An end as long as the list is the list.
LEMMA WholeEnd ==
    ASSUME NEW S, NEW k \in Seq(S), NEW s \in Seq(S), EndOf(k, s), Len(k) = Len(s)
    PROVE  k = s
<1>1. \A i \in 1..Len(k) : k[i] = s[i]
  BY DEF EndOf
<1>2. QED
  BY <1>1, SeqEqual

-----------------------------------------------------------------------------
\* What a session remembers.

\* A session between two requests: compressed, and nothing skipped.
SoundSession ==
    {c \in Session :
        /\ Len(c.messages) < CompressAt
        /\ EndOf(c.summary \o c.messages, c.said)
        /\ \/ Len(c.summary) = MaxSummary
           \/ c.summary \o c.messages = c.said}

LEMMA MessagesAssociate ==
    \A k, s, t \in Seq(Message) : (k \o s) \o t = k \o (s \o t)
<1> TAKE k, s, t \in Seq(Message)
<1>1. QED
  BY ConcatAssociative, SMTT(30)

LEMMA NewIsSound == NewSession \in SoundSession
<1>1. /\ NewSession \in Session
      /\ NewSession.summary = <<>> /\ NewSession.messages = <<>> /\ NewSession.said = <<>>
  BY ConversationAssumption DEF NewSession, Session
<1>2. NewSession.summary \o NewSession.messages = NewSession.said
  BY <1>1
<1>3. EndOf(NewSession.said, NewSession.said)
  BY <1>1 DEF EndOf
<1>4. Len(NewSession.messages) < CompressAt
  BY <1>1, ConversationAssumption
<1>5. QED
  BY <1>1, <1>2, <1>3, <1>4 DEF SoundSession

\* What is remembered before and after a message m, as lists: all but the last
\* KeepRecent messages move to the summary once there are CompressAt.
Moved(summary, ms) ==
    Newest(summary \o SubSeq(ms, 1, Len(ms) - KeepRecent), MaxSummary)

LEMMA CompressedLists ==
    ASSUME NEW summary \in Seq(Message), NEW ms \in Seq(Message),
           NEW said \in Seq(Message), Len(ms) = CompressAt,
           EndOf(summary \o ms, said),
           Len(summary) = MaxSummary \/ summary \o ms = said
    PROVE  /\ Moved(summary, ms) \in Seq(Message)
           /\ Newest(ms, KeepRecent) \in Seq(Message)
           /\ Len(Newest(ms, KeepRecent)) = KeepRecent
           /\ EndOf(Moved(summary, ms) \o Newest(ms, KeepRecent), said)
           /\ \/ Len(Moved(summary, ms)) = MaxSummary
              \/ Moved(summary, ms) \o Newest(ms, KeepRecent) = said
<1> DEFINE s == Moved(summary, ms)
           r == Newest(ms, KeepRecent)
           old == SubSeq(ms, 1, Len(ms) - KeepRecent)
           full == summary \o old
<1>1. /\ KeepRecent \in Nat /\ KeepRecent >= 1 /\ Len(ms) > KeepRecent
      /\ MaxSummary \in Nat /\ Len(ms) \in Nat
  BY ConversationAssumption
<1>2. /\ r = SubSeq(ms, Len(ms) - KeepRecent + 1, Len(ms))
      /\ r \in Seq(Message) /\ Len(r) = KeepRecent
  <2>1. r = SubSeq(ms, Len(ms) - KeepRecent + 1, Len(ms))
    BY <1>1 DEF Newest
  <2>2. r \in Seq(Message) /\ Len(r) = KeepRecent
    BY <1>1, NewestIsEnd
  <2>3. QED
    BY <2>1, <2>2
<1>3. old \in Seq(Message) /\ old \o r = ms
  <2>1. old \in Seq(Message)
    BY <1>1
  <2>2. SubSeq(ms, 1, Len(ms) - KeepRecent)
          \o SubSeq(ms, (Len(ms) - KeepRecent) + 1, Len(ms)) = SubSeq(ms, 1, Len(ms))
    <3>1. /\ 1 \in 1..(Len(ms) + 1)
          /\ Len(ms) - KeepRecent \in (1 - 1)..Len(ms)
          /\ Len(ms) \in (Len(ms) - KeepRecent)..Len(ms)
      BY <1>1
    <3>2. QED
      BY <3>1, ConcatAdjacentSubSeq
  <2>3. QED
    BY <2>1, <2>2, <1>2, SubSeqFull
<1> HIDE DEF old
<1>4. full \in Seq(Message) /\ full \o r = summary \o ms
  <2>1. full \in Seq(Message)
    BY <1>3
  <2>2. (summary \o old) \o r = summary \o (old \o r)
    BY <1>2, <1>3, MessagesAssociate, ZenonT(30)
  <2>3. QED
    BY <1>3, <2>1, <2>2
<1>5. /\ s \in Seq(Message)
      /\ Len(s) = IF Len(full) > MaxSummary THEN MaxSummary ELSE Len(full)
      /\ EndOf(s, full)
  <2>1. s = Newest(full, MaxSummary)
    BY DEF old, Moved
  <2> HIDE DEF full
  <2>2. QED
    BY <1>1, <1>4, <2>1, NewestIsEnd
<1>6. EndOf(s \o r, said)
  <2> HIDE DEF full
  <2>1. EndOf(s \o r, full \o r)
    BY <1>2, <1>4, <1>5, EndsGoOn
  <2>2. s \o r \in Seq(Message) /\ summary \o ms \in Seq(Message)
    BY <1>2, <1>5
  <2>3. QED
    BY <1>4, <2>1, <2>2, EndOfEnd
<1>7. ASSUME Len(s) # MaxSummary PROVE s \o r = said
  <2>1. Len(full) = Len(summary) + Len(old)
    BY <1>3, ConcatProperties
  <2>2. Len(full) \in Nat /\ Len(summary) \in Nat /\ Len(old) \in Nat
    BY <1>3, <1>4
  <2>3. Len(summary) # MaxSummary
    <3> DEFINE a == Len(full)
               b == Len(summary)
               o == Len(old)
               l == Len(s)
    <3>1. l = (IF a > MaxSummary THEN MaxSummary ELSE a) /\ l # MaxSummary
      BY <1>5, <1>7
    <3>2. a = b + o /\ a \in Nat /\ b \in Nat /\ o \in Nat
      BY <2>1, <2>2
    <3> HIDE DEF a, b, o, l
    <3>3. b # MaxSummary
      BY <1>1, <3>1, <3>2
    <3>4. QED
      BY <3>3 DEF b
  <2> HIDE DEF full
  <2>4. s = full
    BY <1>1, <1>4, <1>5, <1>7, <2>2, WholeEnd
  <2>5. QED
    BY <1>4, <2>3, <2>4
<1>8. QED
  BY <1>2, <1>5, <1>6, <1>7

\* A message leaves a sound session, with the message at the end of what was said.
LEMMA SaidIsSound ==
    ASSUME NEW c \in SoundSession, NEW q \in Questions, NEW role \in {"user", "assistant"}
    PROVE  /\ Said(c, q, role) \in SoundSession
           /\ Said(c, q, role).idle = 0
           /\ Said(c, q, role).replay = c.replay
           /\ Said(c, q, role).said = Append(c.said, [of |-> q, role |-> role])
<1> DEFINE m == [of |-> q, role |-> role]
           ms == Append(c.messages, m)
           said == Append(c.said, m)
           d == [c EXCEPT !.messages = ms]
           after == Said(c, q, role)
<1>1. /\ c \in Session /\ c.messages \in Seq(Message) /\ c.summary \in Seq(Message)
      /\ c.said \in Seq(Message) /\ m \in Message
      /\ Len(c.messages) < CompressAt /\ CompressAt \in Nat
  BY ConversationAssumption DEF SoundSession, Session, Message
<1>2. /\ ms \in Seq(Message) /\ said \in Seq(Message)
      /\ Len(ms) <= CompressAt
  BY <1>1
<1>3. Trimmed(ms) = ms
  BY <1>2, TrimKeepsAll
<1>4. after = [Compressed(d) EXCEPT !.said = Append(@, m), !.idle = 0]
  BY <1>3 DEF Said
<1>5. /\ d \in Session /\ d.messages = ms /\ d.summary = c.summary
      /\ d.said = c.said /\ d.replay = c.replay
  BY <1>1, <1>2 DEF Session
<1>6. /\ c.summary \o ms \in Seq(Message)
      /\ EndOf(c.summary \o ms, said)
      /\ Len(c.summary) = MaxSummary \/ c.summary \o ms = said
  <2> HIDE DEF m
  <2>1. ms = c.messages \o <<m>> /\ said = c.said \o <<m>> /\ <<m>> \in Seq(Message)
    <3>1. <<m>> \in Seq(Message)
      BY <1>1
    <3>2. QED
      BY <1>1, <3>1, AppendIsConcat
  <2>2. c.summary \o ms = (c.summary \o c.messages) \o <<m>>
    <3> HIDE DEF ms
    <3>1. (c.summary \o c.messages) \o <<m>> = c.summary \o (c.messages \o <<m>>)
      BY <1>1, <2>1, MessagesAssociate
    <3>2. QED
      BY <2>1, <3>1
  <2>3. EndOf(c.summary \o c.messages, c.said) /\ c.summary \o c.messages \in Seq(Message)
    BY <1>1 DEF SoundSession
  <2>4. EndOf((c.summary \o c.messages) \o <<m>>, c.said \o <<m>>)
    BY <1>1, <2>1, <2>3, EndsGoOn
  <2>5. Len(c.summary) = MaxSummary \/ c.summary \o c.messages = c.said
    BY DEF SoundSession
  <2>6. c.summary \o ms \in Seq(Message)
    BY <1>1, <1>2
  <2> HIDE DEF ms, said, m
  <2>7. QED
    BY <2>1, <2>2, <2>4, <2>5, <2>6
<1> HIDE DEF ms, m, d
<1>7. CASE Len(ms) < CompressAt
  <2>1. Compressed(d) = d
    BY <1>5, <1>7 DEF Compressed
  <2>2. /\ after \in Session /\ after.messages = ms /\ after.summary = c.summary
        /\ after.said = said /\ after.replay = c.replay /\ after.idle = 0
    <3>1. after = [d EXCEPT !.said = said, !.idle = 0]
      BY <1>4, <1>5, <2>1
    <3> HIDE DEF after, said
    <3>2. 0 \in 0..(TTL + 1)
      BY ConversationAssumption
    <3>3. QED
      BY <1>2, <1>5, <3>1, <3>2 DEF Session
  <2> HIDE DEF after
  <2>3. QED
    BY <1>6, <1>7, <2>2 DEF SoundSession, after, m
<1>8. CASE Len(ms) = CompressAt
  <2> DEFINE s == Moved(c.summary, ms)
             r == Newest(ms, KeepRecent)
  <2>1. Compressed(d) = [d EXCEPT !.summary = s, !.messages = r]
    <3>1. ~(Len(d.messages) < CompressAt)
      BY <1>1, <1>5, <1>8
    <3>2. QED
      BY <1>5, <3>1 DEF Compressed, Moved
  <2>2. /\ s \in Seq(Message) /\ r \in Seq(Message)
        /\ Len(r) = KeepRecent
        /\ EndOf(s \o r, said)
        /\ Len(s) = MaxSummary \/ s \o r = said
    <3>1. c.summary \in Seq(Message) /\ said \in Seq(Message) /\ ms \in Seq(Message)
      BY <1>1, <1>2
    <3> HIDE DEF said
    <3>2. QED
      BY <1>6, <1>8, <3>1, CompressedLists
  <2> HIDE DEF s, r
  <2>3. /\ after \in Session /\ after.messages = r /\ after.summary = s
        /\ after.said = said /\ after.replay = c.replay /\ after.idle = 0
    <3>1. after = [[d EXCEPT !.summary = s, !.messages = r] EXCEPT !.said = Append(@, m), !.idle = 0]
      BY <1>4, <2>1
    <3> HIDE DEF after
    <3>2. 0 \in 0..(TTL + 1)
      BY ConversationAssumption
    <3>3. QED
      BY <1>2, <1>5, <2>2, <3>1, <3>2 DEF Session
  <2>4. KeepRecent < CompressAt
    BY ConversationAssumption
  <2> HIDE DEF after
  <2>5. QED
    BY <2>2, <2>3, <2>4 DEF SoundSession, after, m
<1>9. QED
  BY <1>1, <1>2, <1>7, <1>8

-----------------------------------------------------------------------------
\* The conversation.

\* Types, sound sessions, and one flight per question, which keeps its session
\* from expiring: a message renews the session, and answers come in time.
MemoryInv ==
    /\ MemoryTypeOK
    /\ sessions \in Seq(SoundSession)
    /\ \A f \in flight : f.q \in asked /\ sessions[f.in].idle <= f.age
    /\ \A f, g \in flight : f.q = g.q => f = g

\* As long as no question was answered after the clear that it was late for,
\* every other flight is in the current session, which has not ended and holds
\* what the user was shown.
Undisturbed ==
    late \subseteq {f.q : f \in flight} =>
        /\ \A f \in flight : f.q \in late \/ f.in = current
        /\ current \notin ended
        /\ IF current = 0 THEN shown = {} /\ recalled = NoReplay
           ELSE /\ \A q \in shown : \E i \in DOMAIN sessions[current].said :
                      sessions[current].said[i] = [of |-> q, role |-> "assistant"]
                /\ sessions[current].replay = recalled

LEMMA SoundIsSession ==
    ASSUME NEW ss \in Seq(SoundSession)
    PROVE  ss \in Seq(Session)
<1>1. SoundSession \subseteq Session
  BY DEF SoundSession
<1>2. QED
  BY <1>1

LEMMA FlightFields ==
    ASSUME MemoryInv, NEW f \in flight
    PROVE  /\ f.q \in Questions /\ f.in \in 1..Len(sessions) /\ f.age \in 0..MaxAnswer
           /\ sessions[f.in] \in SoundSession
           /\ sessions[f.in].idle \in Nat
<1>1. f \in Flight /\ f.in <= Len(sessions)
  BY DEF MemoryInv, MemoryTypeOK
<1>2. f.in \in 1..Len(sessions)
  BY <1>1 DEF Flight, MemoryInv
<1>3. sessions[f.in] \in SoundSession
  BY <1>2 DEF MemoryInv
<1>4. sessions[f.in].idle \in Nat
  <2>1. sessions[f.in] \in Session
    BY <1>3 DEF SoundSession
  <2>2. sessions[f.in].idle \in 0..(TTL + 1)
    BY <2>1 DEF Session
  <2>3. QED
    BY <2>2, ConversationAssumption
<1>5. QED
  BY <1>1, <1>2, <1>3, <1>4 DEF Flight

\* The session of a question in flight has not expired.
LEMMA FlightKeepsAlive ==
    ASSUME MemoryInv, NEW f \in flight, f.in = current
    PROVE  Alive
<1>1. sessions[current].idle <= f.age
  BY DEF MemoryInv
<1>2. QED
  BY <1>1, FlightFields, ConversationAssumption DEF Alive, Expired

LEMMA FoundIsSound ==
    ASSUME MemoryInv
    PROVE  Found \in SoundSession
<1>1. Alive => current \in 1..Len(sessions)
  BY DEF MemoryInv, MemoryTypeOK, Alive
<1>2. QED
  BY <1>1, NewIsSound DEF Found, MemoryInv

\* get_or_create and what the caller makes of the session.
LEMMA BecameSession ==
    ASSUME MemoryInv, NEW c \in SoundSession, Became(c)
    PROVE  /\ sessions' \in Seq(SoundSession)
           /\ Len(sessions') >= Len(sessions)
           /\ current' \in 1..Len(sessions')
           /\ sessions'[current'] = c
           /\ \A i \in 1..Len(sessions) : i # current' => sessions'[i] = sessions[i]
           /\ ended' \subseteq 1..Len(sessions')
           /\ Alive => current' = current /\ ended' = ended
           /\ ~Alive => current' = Len(sessions) + 1 /\ current' \notin ended'
<1>1. /\ sessions \in Seq(SoundSession) /\ current \in 0..Len(sessions)
      /\ ended \subseteq 1..Len(sessions) /\ Len(sessions) \in Nat
  BY DEF MemoryInv, MemoryTypeOK
<1>2. CASE Alive
  <2>1. /\ sessions' = [sessions EXCEPT ![current] = c]
        /\ current' = current /\ ended' = ended /\ current \in 1..Len(sessions)
    BY <1>1, <1>2 DEF Became, Alive
  <2>2. QED
    BY <1>1, <1>2, <2>1
<1>3. CASE ~Alive
  <2>1. /\ sessions' = Append(sessions, c)
        /\ current' = Len(sessions) + 1
        /\ ended' = IF current = 0 THEN ended ELSE ended \cup {current}
    BY <1>3 DEF Became
  <2>2. ended' \subseteq 1..Len(sessions)
    BY <1>1, <2>1
  <2>3. QED
    BY <1>1, <1>3, <2>1, <2>2
<1>4. QED
  BY <1>2, <1>3

\* A synchronous change of the session by a caller that starts the flights new.
LEMMA BecameKeepsInv ==
    ASSUME MemoryInv, Undisturbed, NEW c \in SoundSession, c.idle = 0, Became(c),
           NEW new \in SUBSET {[q |-> q, in |-> current', age |-> 0] : q \in Questions \ asked},
           \A f, g \in new : f.q = g.q => f = g,
           flight' = flight \cup new,
           asked \subseteq asked', asked' \subseteq Questions,
           \A f \in new : f.q \in asked',
           late' = late, shown' \subseteq asked', recalled' \in Replays \cup {NoReplay},
           late \subseteq {f.q : f \in flight} => c.replay = recalled',
           \A q \in shown' : \/ Alive /\ q \in shown
                             \/ \E i \in DOMAIN c.said : c.said[i] = [of |-> q, role |-> "assistant"],
           Alive => \E t \in Seq(Message) : c.said = sessions[current].said \o t
    PROVE  MemoryInv' /\ Undisturbed'
<1>1. /\ sessions' \in Seq(SoundSession)
      /\ Len(sessions') >= Len(sessions) /\ Len(sessions) \in Nat /\ Len(sessions') \in Nat
      /\ current' \in 1..Len(sessions')
      /\ sessions'[current'] = c
      /\ \A i \in 1..Len(sessions) : i # current' => sessions'[i] = sessions[i]
      /\ ended' \subseteq 1..Len(sessions')
      /\ Alive => current' = current /\ ended' = ended
      /\ ~Alive => current' = Len(sessions) + 1 /\ current' \notin ended'
  BY BecameSession DEF MemoryInv
<1>2. ASSUME NEW f \in new
      PROVE  /\ f \in Flight /\ f.in = current' /\ f.q \in asked' /\ f.q \notin asked
             /\ f.age = 0
  BY <1>1, ConversationAssumption DEF Flight
<1>3. ASSUME NEW f \in flight
      PROVE  /\ f \in Flight /\ f.in \in 1..Len(sessions) /\ f.q \in asked
             /\ f.age \in Nat /\ sessions'[f.in].idle <= f.age
  <2>1. f \in Flight /\ f.q \in asked /\ sessions[f.in].idle <= f.age
    BY DEF MemoryInv, MemoryTypeOK
  <2>2. f.in \in 1..Len(sessions) /\ f.age \in Nat
    BY FlightFields, ConversationAssumption
  <2>3. QED
    BY <1>1, <2>1, <2>2
<1>4. MemoryInv'
  <2>1. sessions' \in Seq(Session)
    BY <1>1, SoundIsSession
  <2>2. flight' \subseteq Flight /\ \A f \in flight' : f.in <= Len(sessions')
    BY <1>1, <1>2, <1>3
  <2>3. /\ asked' \subseteq Questions /\ late' \subseteq asked'
        /\ current' \in 0..Len(sessions')
    BY <1>1 DEF MemoryInv, MemoryTypeOK
  <2>4. MemoryTypeOK'
    BY <1>1, <2>1, <2>2, <2>3 DEF MemoryTypeOK
  <2>5. \A f \in flight' : f.q \in asked' /\ sessions'[f.in].idle <= f.age
    BY <1>1, <1>2, <1>3
  <2>6. \A f, g \in flight' : f.q = g.q => f = g
    BY <1>2, <1>3 DEF MemoryInv
  <2>7. QED
    BY <1>1, <2>4, <2>5, <2>6 DEF MemoryInv
<1>5. Undisturbed'
  <2> SUFFICES ASSUME late' \subseteq {f.q : f \in flight'}
               PROVE  /\ \A f \in flight' : f.q \in late' \/ f.in = current'
                      /\ current' \notin ended'
                      /\ current' # 0
                      /\ \A q \in shown' : \E i \in DOMAIN c.said :
                            c.said[i] = [of |-> q, role |-> "assistant"]
                      /\ c.replay = recalled'
    BY <1>1 DEF Undisturbed
  <2>1. late \subseteq asked
    BY DEF MemoryInv, MemoryTypeOK
  <2>2. late \subseteq {f.q : f \in flight}
    BY <1>2, <2>1
  <2>3. /\ \A f \in flight : f.q \in late \/ f.in = current
        /\ current \notin ended
        /\ current # 0 => \A q \in shown : \E i \in DOMAIN sessions[current].said :
               sessions[current].said[i] = [of |-> q, role |-> "assistant"]
    BY <2>2 DEF Undisturbed
  <2>4. \A f \in flight' : f.q \in late' \/ f.in = current'
    BY <1>1, <1>2, <2>3, FlightKeepsAlive
  <2>5. current' \notin ended'
    BY <1>1, <2>3
  <2>6. ASSUME NEW q \in shown'
        PROVE  \E i \in DOMAIN c.said : c.said[i] = [of |-> q, role |-> "assistant"]
    <3> SUFFICES ASSUME Alive, q \in shown
                 PROVE  \E i \in DOMAIN c.said : c.said[i] = [of |-> q, role |-> "assistant"]
      OBVIOUS
    <3>1. current \in 1..Len(sessions)
      BY DEF Alive, MemoryInv, MemoryTypeOK
    <3>2. sessions[current].said \in Seq(Message)
      <4>1. sessions[current] \in SoundSession
        BY <3>1 DEF MemoryInv
      <4>2. sessions[current] \in Session
        BY <4>1 DEF SoundSession
      <4>3. QED
        BY <4>2 DEF Session
    <3>3. PICK t \in Seq(Message) : c.said = sessions[current].said \o t
      OBVIOUS
    <3>4. PICK i \in DOMAIN sessions[current].said :
            sessions[current].said[i] = [of |-> q, role |-> "assistant"]
      BY <2>3, <3>1
    <3>5. i \in DOMAIN c.said /\ c.said[i] = sessions[current].said[i]
      BY <3>2, <3>3
    <3>6. QED
      BY <3>4, <3>5
  <2>7. QED
    BY <1>1, <2>2, <2>4, <2>5, <2>6
<1>6. QED
  BY <1>4, <1>5

\* What a caller finds in the session, when it goes on.
LEMMA FoundFields ==
    ASSUME MemoryInv, Undisturbed
    PROVE  /\ Found.said \in Seq(Message)
           /\ Alive => Found = sessions[current]
           /\ late \subseteq {f.q : f \in flight} => Found.replay = RecalledSoFar
           /\ RecalledSoFar \in Replays \cup {NoReplay}
           /\ ShownSoFar \subseteq asked
           /\ \A q \in ShownSoFar : Alive /\ q \in shown
<1>1. Found \in Session
  BY FoundIsSound DEF SoundSession
<1>2. Found.said \in Seq(Message)
  BY <1>1 DEF Session
<1>3. late \subseteq {f.q : f \in flight} => Found.replay = RecalledSoFar
  <2>1. CASE Alive
    BY <2>1 DEF Undisturbed, Alive, Found, RecalledSoFar
  <2>2. CASE ~Alive
    BY <2>2 DEF Found, RecalledSoFar, NewSession
  <2>3. QED
    BY <2>1, <2>2
<1>4. RecalledSoFar \in Replays \cup {NoReplay} /\ ShownSoFar \subseteq asked
  BY DEF RecalledSoFar, ShownSoFar, MemoryInv, MemoryTypeOK
<1>5. \A q \in ShownSoFar : Alive /\ q \in shown
  BY DEF ShownSoFar
<1>6. QED
  BY <1>2, <1>3, <1>4, <1>5 DEF Found

\* What was said stays at the front of what is said.
LEMMA SaidGrows ==
    ASSUME NEW s \in Seq(Message), NEW q \in Questions, NEW role \in {"user", "assistant"}
    PROVE  /\ Append(s, [of |-> q, role |-> role]) = s \o <<[of |-> q, role |-> role]>>
           /\ <<[of |-> q, role |-> role]>> \in Seq(Message)
           /\ Append(s, [of |-> q, role |-> role]) \in Seq(Message)
<1> DEFINE m == [of |-> q, role |-> role]
<1>1. m \in Message
  BY DEF Message
<1> HIDE DEF m
<1>2. Append(s, m) = s \o <<m>> /\ <<m>> \in Seq(Message) /\ Append(s, m) \in Seq(Message)
  BY <1>1, AppendIsConcat
<1>3. QED
  BY <1>2 DEF m

LEMMA AskKeepsInv ==
    ASSUME MemoryInv, Undisturbed, NEW q \in Questions, Ask(q)
    PROVE  MemoryInv' /\ Undisturbed'
<1> DEFINE c == Said(Found, q, "user")
           t == <<[of |-> q, role |-> "user"]>>
           new == {[q |-> q, in |-> current', age |-> 0]}
<1>1. /\ c \in SoundSession /\ c.idle = 0 /\ c.replay = Found.replay
      /\ c.said = Append(Found.said, [of |-> q, role |-> "user"])
  BY FoundIsSound, SaidIsSound
<1>2. c.said = Found.said \o t /\ t \in Seq(Message)
  BY <1>1, FoundFields, SaidGrows
<1>3. /\ Became(c) /\ q \notin asked /\ asked' = asked \cup {q}
      /\ flight' = flight \cup new /\ late' = late
      /\ shown' = ShownSoFar /\ recalled' = RecalledSoFar
  BY DEF Ask
<1> HIDE DEF c, t
<1>4. /\ new \in SUBSET {[q |-> p, in |-> current', age |-> 0] : p \in Questions \ asked}
      /\ \A f, g \in new : f.q = g.q => f = g
      /\ \A f \in new : f.q \in asked'
  BY <1>3
<1>5. asked \subseteq asked' /\ asked' \subseteq Questions
  BY <1>3 DEF MemoryInv, MemoryTypeOK
<1> HIDE DEF new
<1>6. /\ shown' \subseteq asked' /\ recalled' \in Replays \cup {NoReplay}
      /\ late \subseteq {f.q : f \in flight} => c.replay = recalled'
      /\ \A p \in shown' : Alive /\ p \in shown
      /\ Alive => \E s \in Seq(Message) : c.said = sessions[current].said \o s
  BY <1>1, <1>2, <1>3, FoundFields
<1>7. QED
  BY <1>1, <1>3, <1>4, <1>5, <1>6, BecameKeepsInv

LEMMA AskAboutReplayKeepsInv ==
    ASSUME MemoryInv, Undisturbed, NEW q \in Questions, AskAboutReplay(q)
    PROVE  MemoryInv' /\ Undisturbed'
<1> DEFINE b == Said(Found, q, "user")
           c == Said(b, q, "assistant")
           m == [of |-> q, role |-> "assistant"]
           t == <<[of |-> q, role |-> "user"]>> \o <<m>>
<1>1. /\ b \in SoundSession /\ b.replay = Found.replay
      /\ b.said = Append(Found.said, [of |-> q, role |-> "user"])
  BY FoundIsSound, SaidIsSound
<1>2. /\ c \in SoundSession /\ c.idle = 0 /\ c.replay = Found.replay
      /\ c.said = Append(b.said, m)
  <2> HIDE DEF b
  <2>1. QED
    BY <1>1, SaidIsSound
<1>3. /\ c.said = Found.said \o t /\ t \in Seq(Message)
      /\ c.said \in Seq(Message) /\ b.said \in Seq(Message)
  <2>1. /\ b.said = Found.said \o <<[of |-> q, role |-> "user"]>>
        /\ <<[of |-> q, role |-> "user"]>> \in Seq(Message) /\ b.said \in Seq(Message)
    BY <1>1, FoundFields, SaidGrows
  <2>2. /\ c.said = b.said \o <<m>> /\ <<m>> \in Seq(Message) /\ c.said \in Seq(Message)
    BY <1>2, <2>1, SaidGrows
  <2> HIDE DEF b, c, m
  <2>3. QED
    BY <2>1, <2>2, FoundFields, MessagesAssociate
<1>4. \E i \in DOMAIN c.said : c.said[i] = m
  <2>1. m \in Message
    BY DEF Message
  <2> HIDE DEF b, c, m
  <2>2. Len(b.said) + 1 \in DOMAIN c.said /\ c.said[Len(b.said) + 1] = m
    <3>1. /\ Len(Append(b.said, m)) = Len(b.said) + 1
          /\ Append(b.said, m)[Len(b.said) + 1] = m
          /\ Append(b.said, m) \in Seq(Message)
      BY <1>3, <2>1, AppendProperties
    <3>2. c.said = Append(b.said, m) /\ Len(b.said) \in Nat
      BY <1>2, <1>3
    <3>3. Len(c.said) = Len(b.said) + 1 /\ c.said[Len(b.said) + 1] = m
      BY <3>1, <3>2
    <3>4. DOMAIN c.said = 1..Len(c.said)
      BY <1>3
    <3>5. QED
      BY <3>2, <3>3, <3>4
  <2>3. QED
    BY <2>2
<1>5. /\ Became(c) /\ q \notin asked /\ asked' = asked \cup {q}
      /\ flight' = flight /\ late' = late
      /\ shown' = ShownSoFar \cup {q} /\ recalled' = RecalledSoFar
  BY DEF AskAboutReplay
<1> HIDE DEF c, t
<1>6. asked \subseteq asked' /\ asked' \subseteq Questions
  BY <1>5 DEF MemoryInv, MemoryTypeOK
<1>7. /\ shown' \subseteq asked' /\ recalled' \in Replays \cup {NoReplay}
      /\ late \subseteq {f.q : f \in flight} => c.replay = recalled'
      /\ \A p \in shown' : (Alive /\ p \in shown) \/ p = q
      /\ Alive => \E s \in Seq(Message) : c.said = sessions[current].said \o s
  BY <1>2, <1>3, <1>5, FoundFields
<1>8. \A p \in shown' : \/ Alive /\ p \in shown
                        \/ \E i \in DOMAIN c.said :
                              c.said[i] = [of |-> p, role |-> "assistant"]
  BY <1>4, <1>7
<1> DEFINE none == {}
<1>9. /\ none \in SUBSET {[q |-> p, in |-> current', age |-> 0] : p \in Questions \ asked}
      /\ \A f, g \in none : f.q = g.q => f = g
      /\ \A f \in none : f.q \in asked'
      /\ flight' = flight \cup none
  BY <1>5
<1> HIDE DEF none
<1>10. QED
  BY <1>2, <1>5, <1>6, <1>7, <1>8, <1>9, BecameKeepsInv

LEMMA RememberKeepsInv ==
    ASSUME MemoryInv, Undisturbed, NEW u \in Uploads, Remember(u)
    PROVE  MemoryInv' /\ Undisturbed'
<1> DEFINE c == [Found EXCEPT !.replay = u, !.idle = 0]
<1>1. Found \in SoundSession /\ Found \in Session
  BY FoundIsSound DEF SoundSession
<1>2. /\ c \in Session /\ c.messages = Found.messages /\ c.summary = Found.summary
      /\ c.said = Found.said /\ c.idle = 0 /\ c.replay = u
  <2>1. u \in Replays /\ 0 \in 0..(TTL + 1)
    BY CoachAssumption, ConversationAssumption
  <2>2. QED
    BY <1>1, <2>1 DEF Session
<1>3. /\ Became(c) /\ asked' = asked /\ flight' = flight /\ late' = late
      /\ shown' = ShownSoFar /\ recalled' = u
  BY DEF Remember
<1> HIDE DEF c
<1>4. c \in SoundSession
  BY <1>1, <1>2 DEF SoundSession
<1>5. asked \subseteq asked' /\ asked' \subseteq Questions
  BY <1>3 DEF MemoryInv, MemoryTypeOK
<1>6. c.said = Found.said \o <<>> /\ <<>> \in Seq(Message)
  BY <1>2, FoundFields
<1>7. /\ shown' \subseteq asked' /\ recalled' \in Replays \cup {NoReplay}
      /\ \A p \in shown' : Alive /\ p \in shown
      /\ Alive => \E s \in Seq(Message) : c.said = sessions[current].said \o s
  BY <1>3, <1>6, FoundFields, CoachAssumption
<1> DEFINE none == {}
<1>8. /\ none \in SUBSET {[q |-> p, in |-> current', age |-> 0] : p \in Questions \ asked}
      /\ \A f, g \in none : f.q = g.q => f = g
      /\ \A f \in none : f.q \in asked'
      /\ flight' = flight \cup none
  BY <1>3
<1> HIDE DEF none
<1>9. QED
  BY <1>2, <1>3, <1>4, <1>5, <1>7, <1>8, BecameKeepsInv

\* An answer goes into the session of its question.
LEMMA AnswerKeepsInv ==
    ASSUME MemoryInv, Undisturbed, NEW f \in flight, Answer(f)
    PROVE  MemoryInv' /\ Undisturbed'
<1> DEFINE c == Said(sessions[f.in], f.q, "assistant")
           m == [of |-> f.q, role |-> "assistant"]
<1>1. /\ f.q \in Questions /\ f.in \in 1..Len(sessions) /\ f.q \in asked
      /\ sessions[f.in] \in SoundSession
  BY FlightFields DEF MemoryInv
<1>2. /\ c \in SoundSession /\ c.idle = 0 /\ c.replay = sessions[f.in].replay
      /\ c.said = Append(sessions[f.in].said, m)
  BY <1>1, SaidIsSound
<1>3. /\ flight' = flight \ {f} /\ current' = f.in
      /\ sessions' = [sessions EXCEPT ![f.in] = c]
      /\ shown' = shown \cup {f.q}
      /\ UNCHANGED <<asked, ended, late, recalled>>
  BY DEF Answer
<1>4. sessions[f.in].said \in Seq(Message) /\ m \in Message
  BY <1>1 DEF SoundSession, Session, Message
<1> HIDE DEF c, m
<1>5. /\ sessions' \in Seq(SoundSession) /\ Len(sessions') = Len(sessions)
      /\ sessions'[f.in] = c
      /\ \A i \in 1..Len(sessions) : i # f.in => sessions'[i] = sessions[i]
  BY <1>1, <1>2, <1>3 DEF MemoryInv
<1>6. MemoryInv'
  <2>1. sessions' \in Seq(Session)
    BY <1>5, SoundIsSession
  <2>2. MemoryTypeOK'
    BY <1>1, <1>3, <1>5, <2>1 DEF MemoryInv, MemoryTypeOK
  <2>3. ASSUME NEW g \in flight' PROVE g.q \in asked' /\ sessions'[g.in].idle <= g.age
    <3>1. g \in flight /\ g.in \in 1..Len(sessions) /\ g.age \in Nat
      BY <1>3, FlightFields, ConversationAssumption
    <3>2. QED
      BY <1>2, <1>3, <1>5, <3>1 DEF MemoryInv
  <2>4. \A g, h \in flight' : g.q = h.q => g = h
    BY <1>3 DEF MemoryInv
  <2>5. QED
    BY <1>5, <2>2, <2>3, <2>4 DEF MemoryInv
<1>7. Undisturbed'
  <2> SUFFICES ASSUME late' \subseteq {g.q : g \in flight'}
               PROVE  /\ \A g \in flight' : g.q \in late' \/ g.in = current'
                      /\ current' \notin ended'
                      /\ current' # 0
                      /\ \A q \in shown' : \E i \in DOMAIN c.said :
                            c.said[i] = [of |-> q, role |-> "assistant"]
                      /\ c.replay = recalled'
    BY <1>1, <1>3, <1>5 DEF Undisturbed
  <2>1. late \subseteq {g.q : g \in flight} /\ f.q \notin late
    BY <1>3 DEF MemoryInv
  <2>2. /\ \A g \in flight : g.q \in late \/ g.in = current
        /\ current \notin ended /\ f.in = current /\ current # 0
        /\ \A q \in shown : \E i \in DOMAIN sessions[current].said :
              sessions[current].said[i] = [of |-> q, role |-> "assistant"]
        /\ sessions[current].replay = recalled
    BY <1>1, <2>1 DEF Undisturbed
  <2>3. ASSUME NEW q \in shown'
        PROVE  \E i \in DOMAIN c.said : c.said[i] = [of |-> q, role |-> "assistant"]
    <3> DEFINE s == sessions[f.in].said
    <3>1. /\ Append(s, m) \in Seq(Message)
          /\ Len(Append(s, m)) = Len(s) + 1 /\ Append(s, m)[Len(s) + 1] = m
          /\ \A i \in 1..Len(s) : Append(s, m)[i] = s[i]
      BY <1>4, AppendProperties
    <3>2. /\ DOMAIN s = 1..Len(s) /\ DOMAIN c.said = 1..(Len(s) + 1) /\ Len(s) \in Nat
          /\ c.said[Len(s) + 1] = m
          /\ \A i \in 1..Len(s) : c.said[i] = s[i]
      BY <1>2, <1>4, <3>1
    <3>3. CASE q = f.q
      <4>1. Len(s) + 1 \in DOMAIN c.said
        BY <3>2
      <4>2. QED
        BY <3>2, <3>3, <4>1 DEF m
    <3>4. CASE q \in shown
      <4>1. PICK i \in DOMAIN s : s[i] = [of |-> q, role |-> "assistant"]
        BY <2>2, <3>4
      <4>2. i \in DOMAIN c.said /\ c.said[i] = s[i]
        BY <3>2
      <4>3. QED
        BY <4>1, <4>2
    <3>5. QED
      BY <1>3, <3>3, <3>4
  <2>4. QED
    BY <1>1, <1>2, <1>3, <2>2, <2>3
<1>8. QED
  BY <1>6, <1>7

LEMMA FailKeepsInv ==
    ASSUME MemoryInv, Undisturbed, NEW f \in flight, Fail(f)
    PROVE  MemoryInv' /\ Undisturbed'
<1>1. /\ flight' = flight \ {f} /\ late' = late \ {f.q}
      /\ UNCHANGED <<current, sessions, asked, ended, shown, recalled>>
  BY DEF Fail
<1>2. MemoryInv'
  <2>1. MemoryTypeOK'
    BY <1>1 DEF MemoryInv, MemoryTypeOK
  <2>2. QED
    BY <1>1, <2>1 DEF MemoryInv
<1>3. ASSUME late' \subseteq {g.q : g \in flight'}
      PROVE  late \subseteq {g.q : g \in flight}
  BY <1>1, <1>3
<1>4. \A g \in flight' : g \in flight /\ g.q # f.q
  BY <1>1 DEF MemoryInv
<1>5. Undisturbed'
  BY <1>1, <1>3, <1>4 DEF Undisturbed
<1>6. QED
  BY <1>2, <1>5

\* Clear, and the sweep of a session that has expired.
LEMMA EndKeepsInv ==
    ASSUME MemoryInv, Undisturbed, Clear \/ Sweep
    PROVE  MemoryInv' /\ Undisturbed'
<1>1. /\ current # 0 /\ current' = 0 /\ ended' = ended \cup {current}
      /\ shown' = {} /\ recalled' = NoReplay
      /\ UNCHANGED <<sessions, asked, flight>>
  BY DEF Clear, Sweep, End
<1>2. late' = late \/ late' = late \cup {f.q : f \in flight}
  BY DEF Clear, Sweep
<1>3. MemoryInv'
  <2>1. late' \subseteq asked
    BY <1>2 DEF MemoryInv, MemoryTypeOK
  <2>2. /\ current \in 1..Len(sessions) /\ 0 \in 0..Len(sessions)
    BY <1>1 DEF MemoryInv, MemoryTypeOK
  <2>3. MemoryTypeOK'
    BY <1>1, <2>1, <2>2 DEF MemoryInv, MemoryTypeOK
  <2>4. QED
    BY <1>1, <2>3 DEF MemoryInv
<1>4. Undisturbed'
  <2> SUFFICES ASSUME late' \subseteq {f.q : f \in flight}
               PROVE  /\ \A f \in flight : f.q \in late'
                      /\ 0 \notin ended'
    BY <1>1 DEF Undisturbed
  <2>1. 0 \notin ended'
    BY <1>1 DEF MemoryInv, MemoryTypeOK
  <2>2. CASE Clear
    BY <2>1, <2>2 DEF Clear
  <2>3. CASE Sweep
    <3>1. late' = late /\ ~Alive
      BY <2>3 DEF Sweep, Alive
    <3>2. \A f \in flight : f.q \in late \/ f.in = current
      BY <3>1 DEF Undisturbed
    <3>3. \A f \in flight : f.in # current
      BY <3>1, FlightKeepsAlive
    <3>4. QED
      BY <2>1, <3>1, <3>2, <3>3
  <2>4. QED
    BY <2>2, <2>3
<1>5. QED
  BY <1>3, <1>4

LEMMA ForgetKeepsInv ==
    ASSUME MemoryInv, Forget
    PROVE  MemoryInv' /\ Undisturbed'
<1>1. <<>> \in Seq(SoundSession) /\ <<>> \in Seq(Session) /\ Len(<<>>) = 0
  OBVIOUS
<1>2. MemoryTypeOK'
  BY <1>1 DEF Forget, MemoryInv, MemoryTypeOK
<1>3. QED
  BY <1>1, <1>2 DEF Forget, MemoryInv, Undisturbed

\* Time passes: no session becomes older than a flight in it.
LEMMA TickKeepsInv ==
    ASSUME MemoryInv, Undisturbed, Tick
    PROVE  MemoryInv' /\ Undisturbed'
<1> DEFINE Older(s) == IF Expired(s) THEN sessions[s]
                       ELSE [sessions[s] EXCEPT !.idle = @ + 1]
           Aged(f) == [f EXCEPT !.age = @ + 1]
<1>1. /\ \A f \in flight : f.age < MaxAnswer
      /\ sessions' = [s \in DOMAIN sessions |-> Older(s)]
      /\ flight' = {Aged(f) : f \in flight}
      /\ UNCHANGED <<current, asked, ended, late, shown, recalled>>
  BY DEF Tick
<1>2. ASSUME NEW s \in 1..Len(sessions)
      PROVE  /\ Older(s) \in SoundSession
             /\ Older(s).said = sessions[s].said /\ Older(s).replay = sessions[s].replay
             /\ Older(s).idle <= sessions[s].idle + 1
  <2>1. sessions[s] \in SoundSession /\ sessions[s] \in Session
    <3>1. sessions[s] \in SoundSession
      BY DEF MemoryInv
    <3>2. QED
      BY <3>1 DEF SoundSession
  <2>2. sessions[s].idle \in 0..(TTL + 1) /\ TTL \in Nat
    BY <2>1, ConversationAssumption DEF Session
  <2>3. CASE Expired(s)
    BY <2>1, <2>2, <2>3
  <2>4. CASE ~Expired(s)
    <3> DEFINE c == sessions[s]
               d == [c EXCEPT !.idle = @ + 1]
    <3>1. c.idle + 1 \in 0..(TTL + 1)
      BY <2>2, <2>4 DEF Expired
    <3>2. /\ d \in Session /\ d.messages = c.messages /\ d.summary = c.summary
          /\ d.said = c.said /\ d.replay = c.replay /\ d.idle = c.idle + 1
      BY <2>1, <3>1 DEF Session
    <3>3. Older(s) = d
      BY <2>4
    <3> HIDE DEF c, d, Older
    <3>4. d \in SoundSession
      BY <2>1, <3>2 DEF SoundSession, c
    <3>5. QED
      BY <2>2, <3>2, <3>3, <3>4 DEF c
  <2>5. QED
    BY <2>3, <2>4
<1> HIDE DEF Older
<1>3. /\ sessions' \in Seq(SoundSession) /\ Len(sessions') = Len(sessions)
      /\ DOMAIN sessions = 1..Len(sessions)
      /\ \A s \in 1..Len(sessions) : sessions'[s] = Older(s)
  <2>1. DOMAIN sessions = 1..Len(sessions) /\ Len(sessions) \in Nat
    BY DEF MemoryInv
  <2>2. sessions' \in [1..Len(sessions) -> SoundSession]
    BY <1>1, <1>2, <2>1
  <2>3. QED
    BY <1>1, <2>1, <2>2
<1>4. ASSUME NEW f \in flight
      PROVE  /\ Aged(f) \in Flight /\ Aged(f).q = f.q /\ Aged(f).in = f.in
             /\ f.q \in asked
             /\ f.in \in 1..Len(sessions)
             /\ sessions'[f.in].idle <= Aged(f).age
  <2>1. f \in Flight /\ f.q \in asked /\ f.in \in 1..Len(sessions)
        /\ sessions[f.in].idle <= f.age /\ sessions[f.in].idle \in Nat
    BY FlightFields DEF MemoryInv, MemoryTypeOK
  <2>2. f.age \in Nat /\ f.age + 1 \in 0..MaxAnswer
    BY <1>1, <2>1, ConversationAssumption DEF Flight
  <2>3. /\ Aged(f) \in Flight /\ Aged(f).q = f.q /\ Aged(f).in = f.in
        /\ Aged(f).age = f.age + 1
    BY <2>1, <2>2 DEF Flight
  <2>4. sessions'[f.in].idle <= sessions[f.in].idle + 1
    BY <1>2, <1>3, <2>1
  <2>5. sessions'[f.in].idle \in Nat
    <3>1. sessions'[f.in] \in SoundSession
      BY <1>3, <2>1
    <3>2. sessions'[f.in] \in Session
      BY <3>1 DEF SoundSession
    <3>3. QED
      BY <3>2, ConversationAssumption DEF Session
  <2> HIDE DEF Aged
  <2>6. QED
    BY <2>1, <2>2, <2>3, <2>4, <2>5
<1> HIDE DEF Aged
<1>5. MemoryInv'
  <2>1. sessions' \in Seq(Session)
    BY <1>3, SoundIsSession
  <2>2. MemoryTypeOK'
    <3>1. flight' \subseteq Flight /\ \A f \in flight' : f.in <= Len(sessions')
      BY <1>1, <1>3, <1>4
    <3>2. QED
      BY <1>1, <1>3, <2>1, <3>1 DEF MemoryInv, MemoryTypeOK
  <2>3. \A f \in flight' : f.q \in asked' /\ sessions'[f.in].idle <= f.age
    BY <1>1, <1>4
  <2>4. \A f, g \in flight' : f.q = g.q => f = g
    BY <1>1, <1>4 DEF MemoryInv
  <2>5. QED
    BY <1>3, <2>2, <2>3, <2>4 DEF MemoryInv
<1>6. Undisturbed'
  <2>1. {f.q : f \in flight'} = {f.q : f \in flight}
    BY <1>1, <1>4
  <2>2. (\A f \in flight : f.q \in late \/ f.in = current)
        => \A f \in flight' : f.q \in late' \/ f.in = current'
    BY <1>1, <1>4
  <2>3. current # 0 => /\ sessions'[current].said = sessions[current].said
                       /\ sessions'[current].replay = sessions[current].replay
    BY <1>2, <1>3 DEF MemoryInv, MemoryTypeOK
  <2> SUFFICES ASSUME late' \subseteq {f.q : f \in flight'}
               PROVE  /\ \A f \in flight' : f.q \in late' \/ f.in = current'
                      /\ current' \notin ended'
                      /\ IF current' = 0 THEN shown' = {} /\ recalled' = NoReplay
                         ELSE /\ \A q \in shown' :
                                    \E i \in DOMAIN sessions'[current'].said :
                                        sessions'[current'].said[i]
                                          = [of |-> q, role |-> "assistant"]
                              /\ sessions'[current'].replay = recalled'
    BY DEF Undisturbed
  <2>4. late \subseteq {f.q : f \in flight}
    BY <1>1, <2>1
  <2>5. QED
    BY <1>1, <2>2, <2>3, <2>4 DEF Undisturbed
<1>7. QED
  BY <1>5, <1>6

LEMMA MemoryUnchanged ==
    ASSUME MemoryInv, Undisturbed, UNCHANGED memory
    PROVE  MemoryInv' /\ Undisturbed'
  BY DEF memory, MemoryInv, MemoryTypeOK, Undisturbed

\* The inductive invariant of the coach's memory.
THEOREM MemoryInvariant == Spec => [](MemoryInv /\ Undisturbed)
<1>1. Init => MemoryInv /\ Undisturbed
  <2> SUFFICES ASSUME Init PROVE MemoryInv /\ Undisturbed
    OBVIOUS
  <2>1. <<>> \in Seq(SoundSession) /\ <<>> \in Seq(Session) /\ Len(<<>>) = 0
    OBVIOUS
  <2>2. MemoryTypeOK
    BY <2>1 DEF Init, MemoryInit, MemoryTypeOK
  <2>3. QED
    BY <2>1, <2>2 DEF Init, MemoryInit, MemoryInv, Undisturbed
<1>2. MemoryInv /\ Undisturbed /\ [Next]_vars => (MemoryInv /\ Undisturbed)'
  <2> SUFFICES ASSUME MemoryInv, Undisturbed, [Next]_vars
               PROVE  MemoryInv' /\ Undisturbed'
    OBVIOUS
  <2>1. CASE Converse
    <3>1. CASE \E q \in Questions : Ask(q) \/ AskAboutReplay(q)
      BY <3>1, AskKeepsInv, AskAboutReplayKeepsInv
    <3>2. CASE \E f \in flight : Answer(f) \/ Fail(f)
      BY <3>2, AnswerKeepsInv, FailKeepsInv
    <3>3. CASE Clear \/ Sweep
      BY <3>3, EndKeepsInv
    <3>4. CASE Tick
      BY <3>4, TickKeepsInv
    <3>5. QED
      BY <2>1, <3>1, <3>2, <3>3, <3>4 DEF Converse
  <2>2. CASE Restart
    BY <2>2, ForgetKeepsInv DEF Restart
  <2>3. CASE \E u \in Uploads : Conclude(u)
    BY <2>3, RememberKeepsInv DEF Conclude
  <2>4. CASE UNCHANGED memory
    BY <2>4, MemoryUnchanged
  <2>5. QED
    BY <2>1, <2>2, <2>3, <2>4 DEF Next, Work, vars
<1>3. QED
  BY <1>1, <1>2, PTL DEF Spec

\* Every variable of the coach keeps its type.
THEOREM CoachTypeCorrect == Spec => []TypeOK
<1>1. Init => restarts \in 0..MaxRestarts
  BY CoachAssumption DEF Init
<1>2. restarts \in 0..MaxRestarts /\ [Next]_vars => (restarts \in 0..MaxRestarts)'
  <2> SUFFICES ASSUME restarts \in 0..MaxRestarts, [Next]_vars
               PROVE  restarts' \in 0..MaxRestarts
    OBVIOUS
  <2>1. CASE UNCHANGED restarts
    BY <2>1
  <2>2. CASE Restart
    BY <2>2, CoachAssumption DEF Restart
  <2>3. QED
    BY <2>1, <2>2 DEF Next, Converse, Work, Conclude, vars
<1>3. MemoryInv /\ OneUpload /\ restarts \in 0..MaxRestarts => TypeOK
  BY DEF TypeOK, MemoryInv, OneUpload
<1>4. QED
  BY <1>1, <1>2, <1>3, MemoryInvariant, ReplayServiceInvariant, PTL DEF Spec

\* Trimming, compression and the recent messages fit together: what a session
\* remembers is the end of what was said, without a gap or a repetition, and all
\* of it while the summary has room (memory/summary.py:86-124).
THEOREM MemorySkipsNothing == Spec => []NothingSkipped
<1>1. MemoryInv => NothingSkipped
  <2> SUFFICES ASSUME MemoryInv, NEW s \in DOMAIN sessions
               PROVE  LET c == sessions[s]
                          known == c.summary \o c.messages
                      IN  /\ known = Newest(c.said, Len(known))
                          /\ Len(c.summary) = MaxSummary \/ known = c.said
    BY DEF NothingSkipped
  <2> DEFINE c == sessions[s]
             known == c.summary \o c.messages
  <2>1. c \in SoundSession
    BY DEF MemoryInv
  <2>2. c \in Session
    BY <2>1 DEF SoundSession
  <2>3. known \in Seq(Message) /\ c.said \in Seq(Message)
    BY <2>2 DEF Session
  <2>4. EndOf(known, c.said) /\ (Len(c.summary) = MaxSummary \/ known = c.said)
    BY <2>1 DEF SoundSession
  <2> HIDE DEF c, known
  <2>5. known = Newest(c.said, Len(known))
    BY <2>3, <2>4, EndIsNewest
  <2>6. QED
    BY <2>4, <2>5 DEF c, known
<1>2. QED
  BY <1>1, MemoryInvariant, PTL

\* Unless a conversation is cleared under a question in flight, an ended session
\* never comes back, and the current one holds every answer and the replay the
\* user was shown, however questions, uploads and the sweep interleave.
THEOREM OneConversationAtATime == Spec => []OneConversation
<1>1. Undisturbed => OneConversation
  BY DEF Undisturbed, OneConversation
<1>2. QED
  BY <1>1, MemoryInvariant, PTL

=============================================================================
